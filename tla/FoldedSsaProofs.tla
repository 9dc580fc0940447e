--------------------------- MODULE FoldedSsaProofs ---------------------------
(***************************************************************************)
(* Proofs about FoldedSsa, for any functions in SSA form.                  *)
(*                                                                         *)
(* Reads only move forward: a read sits in an instruction that comes after *)
(* the definition it reads (Ordered).  A definition can therefore never be *)
(* its own reader, which rules out the panics; and it leaves only with the *)
(* last read of its variable, so no read loses its definition.  What       *)
(* simplification does is any choice of reads to drop and of shapes: it    *)
(* moves no read and makes none.                                           *)
(*                                                                         *)
(* What is left at the end is what the program says before folding         *)
(* (FoldedExactly), for programs that simplification leaves alone and where *)
(* no copy is next to an operator: the left side of an operator is then its *)
(* own first read or nothing (Shaped), so the choice made for an           *)
(* instruction depends on which definitions are gone (GoneWithDefinition)  *)
(* and what stays is never chosen (Kept).                                  *)
(***************************************************************************)
EXTENDS FoldedSsa, ReachabilityProofs

\* A definition comes before every instruction that reads it.
Ordered ==
  \A o \in Reads, d \in Instrs :
    home[o] # Gone /\ Var(o) \in Target(d) => d < home[o]

IInv == prog \in Programs /\ TypeOK /\ NoPanic /\ Ordered /\ ReadsDefined
-----------------------------------------------------------------------------
LEMMA Form ==
  ASSUME prog \in Programs
  PROVE  /\ Instrs \subseteq Nat
         /\ \A i, j \in Instrs : \A v \in Target(i) :
              /\ Target(i) = {v} /\ v \notin {Input, Deref} \cup prog.given
              /\ v \in Target(j) => i = j
         /\ prog.branch \subseteq Instrs /\ prog.soft \subseteq Instrs
         /\ \A o \in Reads :
              /\ o[1] \in Instrs
              /\ \/ Var(o) \in {Input, Deref} \cup prog.given
                 \/ \E d \in Instrs : d < o[1] /\ Var(o) \in Target(d)
<1>1. \A o \in Reads : o[1] \in Instrs /\ Var(o) \in ReadsOf(prog, o[1])
  BY DEF Reads, Var, ReadsOf, Instrs
<1> QED BY <1>1, SsaForm DEF Instrs, Target, Defines

LEMMA InitIInv == Init => IInv /\ ConditionsAgree
<1> SUFFICES ASSUME Init PROVE IInv /\ ConditionsAgree
  OBVIOUS
<1> USE DEF Init
<1>1. prog \in Programs
  OBVIOUS
<1>2. \A o \in Reads : home[o] = o[1] /\ o[1] \in Instrs /\ home[o] # Gone
  BY <1>1, Form DEF Gone
<1>3. \A i \in Instrs : lhs[i] = {} \/ \E o \in Held(i) : lhs[i] = {o}
  <2> SUFFICES ASSUME NEW i \in Instrs, prog.code[i].op # "other" PROVE <<i, 1>> \in Held(i)
    BY DEF FirstRead
  <2>1. <<i, 1>> \in Reads
    BY <1>1, SsaForm DEF Reads, Instrs
  <2> QED BY <2>1 DEF Held
<1>4. TypeOK
  <2>1. home \in [Reads -> present \cup {Gone}]
    BY <1>2
  <2>2. op \in [Instrs -> {"copy", "binary", "other"}]
    BY <1>1, SsaForm DEF Instrs
  <2> QED BY <1>1, <2>1, <2>2, <1>3, Form DEF TypeOK
<1>5. Ordered
  <2> SUFFICES ASSUME NEW o \in Reads, NEW d \in Instrs, Var(o) \in Target(d) PROVE d < home[o]
    BY DEF Ordered
  <2>1. PICK e \in Instrs : e < o[1] /\ Var(o) \in Target(e)
    BY <1>1, Form
  <2>2. d = e
    BY <1>1, <2>1, Form
  <2> QED BY <1>2, <2>1, <2>2
<1>6. ReadsDefined
  BY <1>1, Form DEF ReadsDefined
<1>7. ConditionsAgree
  BY DEF ConditionsAgree, Held
<1> QED BY <1>1, <1>4, <1>5, <1>6, <1>7 DEF IInv, NoPanic

\* What a step that folds d does: d is not its own reader, so it never panics.
FoldsInto(d, o, u) ==
  /\ d \in present /\ o \in Reads /\ u = home[o] /\ u \in present \ {d} /\ d < u
  /\ \A p \in Reads : home[p] # Gone /\ Var(p) \in Target(d) => p = o
  /\ Var(o) \in Target(d)
  /\ present' = present \ {d}
  /\ home' = [p \in Reads |-> IF p = o THEN Gone ELSE IF home[p] = d THEN u ELSE home[p]]
  /\ op'  = [op  EXCEPT ![u] = OpAfter(u, o, d)]
  /\ lhs' = [lhs EXCEPT ![u] = LhsAfter(u, o, d)]
  /\ soft' = IF d \in soft THEN soft \cup {u} ELSE soft
  /\ cond' = CondAfter(u, o, d)
  /\ phase' = "simplify"
  /\ UNCHANGED prog

LEMMA FoldIsSafe ==
  ASSUME IInv, NEW CONSTANT d, Fold(d)
  PROVE  \E o, u : FoldsInto(d, o, u)
<1>1. d \in present /\ d \in Instrs /\ present \subseteq Instrs
  BY DEF Fold, Foldable, IInv, TypeOK
<1> DEFINE Becomes(o, u, v) ==
      IF u \in present \ {d} /\ v \notin Target(u)
        THEN /\ present' = Folded(u, o, d).present
             /\ home' = Folded(u, o, d).home
             /\ op'  = [op  EXCEPT ![u] = OpAfter(u, o, d)]
             /\ lhs' = [lhs EXCEPT ![u] = LhsAfter(u, o, d)]
             /\ soft' = IF d \in soft THEN soft \cup {u} ELSE soft
             /\ cond' = CondAfter(u, o, d)
             /\ phase' = "simplify"
             /\ UNCHANGED prog
        ELSE phase' = "panic" /\ UNCHANGED <<prog, present, home, op, lhs, soft, cond>>
<1>0. PICK v \in Target(d) : \E o \in ReadsOfVar(v) : Becomes(o, home[o], v)
  BY DEF Fold
<1>2. PICK o \in ReadsOfVar(v) : Becomes(o, home[o], v)
  BY <1>0
<1> DEFINE u == home[o]
<1>3. o \in Reads /\ u # Gone /\ Var(o) = v
  BY <1>2 DEF ReadsOfVar
<1>4. Target(d) = {v}
  BY <1>1, <1>2, Form DEF IInv
<1>5. \A p \in Reads : home[p] # Gone /\ Var(p) \in Target(d) => p = o
  <2>1. PICK q \in Reads : ReadsOfVar(v) = {q}
    BY <1>4 DEF Fold, Foldable, ReadOnce
  <2> QED BY <2>1, <1>2, <1>4 DEF ReadsOfVar
<1>6. d < u /\ u \in present
  BY <1>1, <1>2, <1>3 DEF IInv, Ordered, TypeOK
<1>7. u \in Nat /\ d \in Nat /\ u # d
  BY <1>1, <1>6, Form DEF IInv
<1>8. v \notin Target(u)
  BY <1>1, <1>2, <1>6, <1>7, Form DEF IInv
<1>9. FoldsInto(d, o, u)
  BY <1>1, <1>2, <1>3, <1>4, <1>5, <1>6, <1>7, <1>8 DEF FoldsInto, Folded
<1> QED BY <1>9

LEMMA FoldIInv ==
  ASSUME IInv, NEW CONSTANT d, NEW o, NEW u, FoldsInto(d, o, u)
  PROVE  IInv'
<1> USE DEF FoldsInto
<1>1. /\ prog' = prog /\ Reads' = Reads /\ Instrs' = Instrs
      /\ \A p : Var(p)' = Var(p)
      /\ \A i : Target(i)' = Target(i)
  BY DEF Reads, Instrs, Var, Target
<1>2. prog \in Programs /\ TypeOK /\ d \in Nat /\ u \in Nat /\ d # u /\ d # Gone
  BY Form DEF IInv, TypeOK, Gone
<1>3. \A p \in Reads : home'[p] # Gone =>
        /\ p # o /\ home[p] # Gone
        /\ home'[p] = IF home[p] = d THEN u ELSE home[p]
  BY <1>2
<1>4. TypeOK'
  <2>1. home' \in [Reads -> present' \cup {Gone}]
    BY <1>2 DEF TypeOK
  <2>2. op' \in [Instrs -> {"copy", "binary", "other"}]
    BY <1>2 DEF TypeOK, OpAfter
  <2>3. ASSUME NEW i \in present'
        PROVE  lhs'[i] = {} \/ \E p \in Held(i)' : lhs'[i] = {p}
    <3>1. i \in present /\ i # d /\ i \in Instrs
      BY <1>2 DEF TypeOK
    <3>2. ASSUME NEW p \in Held(i), p # o PROVE p \in Held(i)'
      BY <1>1, <3>1, <3>2 DEF Held
    <3>3. CASE i # u
      BY <3>1, <3>2, <3>3, <1>2 DEF TypeOK, Held
    <3>4. CASE i = u /\ lhs[u] # {o}
      BY <3>1, <3>2, <3>4, <1>2 DEF TypeOK, LhsAfter
    <3>5. CASE i = u /\ lhs[u] = {o}
      <4>1. \A p \in Held(d) : p \in Held(i)'
        BY <1>1, <1>2, <3>5 DEF Held
      <4>2. lhs'[i] \in {lhs[d], {}}
        BY <3>1, <3>5, <1>2 DEF TypeOK, LhsAfter
      <4> QED BY <4>1, <4>2, <1>2 DEF TypeOK
    <3> QED BY <3>3, <3>4, <3>5
  <2>4. DOMAIN lhs' = Instrs /\ DOMAIN cond' = prog.branch /\ soft' \subseteq Instrs
    BY <1>2 DEF TypeOK, CondAfter
  <2> QED BY <1>1, <1>2, <2>1, <2>2, <2>3, <2>4 DEF TypeOK
<1>5. Ordered'
  <2> SUFFICES ASSUME NEW p \in Reads, NEW e \in Instrs, home'[p] # Gone, Var(p) \in Target(e)
               PROVE  e < home'[p]
    BY <1>1 DEF Ordered
  <2>1. e < home[p] /\ home[p] \in Nat /\ e \in Nat
    BY <1>2, <1>3, Form DEF IInv, Ordered, TypeOK
  <2> QED BY <2>1, <1>2, <1>3
<1>6. ReadsDefined'
  <2> SUFFICES ASSUME NEW p \in Reads, home'[p] # Gone,
                      Var(p) \notin {Input, Deref} \cup prog.given
               PROVE  \E e \in present' : Var(p) \in Target(e)
    BY <1>1 DEF ReadsDefined
  <2>1. PICK e \in present : Var(p) \in Target(e)
    BY <1>3 DEF IInv, ReadsDefined
  <2>2. e # d
    BY <1>3, <2>1
  <2> QED BY <2>1, <2>2
<1> QED BY <1>1, <1>2, <1>4, <1>5, <1>6 DEF IInv, NoPanic

\* What a step that simplifies does: it moves no read and makes none, and changes
\* soft instructions only.
Simplified ==
  /\ \A o \in Reads : home'[o] \in {home[o], Gone} /\ (home[o] \notin soft => home'[o] = home[o])
  /\ home' \in [Reads -> present \cup {Gone}]
  /\ op'  \in [Instrs -> {"copy", "binary", "other"}]
  /\ DOMAIN lhs' = Instrs
  /\ \A i \in Instrs \ soft : op'[i] = op[i] /\ lhs'[i] = lhs[i]
  /\ \A i \in soft : lhs'[i] = {} \/ \E o \in Reads : home'[o] = i /\ lhs'[i] = {o}
  /\ phase' = "fold"
  /\ UNCHANGED <<prog, present, soft, cond>>

LEMMA SimplifyIs ==
  ASSUME IInv, Simplify
  PROVE  Simplified
<1>1. TypeOK /\ soft \subseteq Instrs /\ Instrs \subseteq Nat
  BY Form DEF IInv, TypeOK
<1>2. PICK drop \in SUBSET {o \in Reads : home[o] \in soft} :
       /\ home' = [o \in Reads |-> IF o \in drop THEN Gone ELSE home[o]]
       /\ \E shape \in [soft -> UNION {Shapes(Held(i)) : i \in soft}] :
            /\ \A i \in soft : shape[i] \in Shapes(Held(i) \ drop)
            /\ op'  = [i \in Instrs |-> IF i \in soft THEN shape[i][1] ELSE op[i]]
            /\ lhs' = [i \in Instrs |-> IF i \in soft THEN shape[i][2] ELSE lhs[i]]
  BY DEF Simplify
<1>3. PICK shape :
            /\ \A i \in soft : shape[i] \in Shapes(Held(i) \ drop)
            /\ op'  = [i \in Instrs |-> IF i \in soft THEN shape[i][1] ELSE op[i]]
            /\ lhs' = [i \in Instrs |-> IF i \in soft THEN shape[i][2] ELSE lhs[i]]
  BY <1>2
<1>4. ASSUME NEW i \in soft
      PROVE  /\ shape[i][1] \in {"copy", "binary", "other"}
             /\ shape[i][2] = {} \/ \E o \in Held(i) \ drop : shape[i][2] = {o}
  <2>1. shape[i] \in Shapes(Held(i) \ drop)
    BY <1>3
  <2> QED BY <2>1 DEF Shapes
<1>5. \A i \in soft : \A o \in Held(i) \ drop : o \in Reads /\ home'[o] = i
  BY <1>2 DEF Held
<1>6. home' \in [Reads -> present \cup {Gone}]
  BY <1>1, <1>2 DEF TypeOK
<1>7. op' \in [Instrs -> {"copy", "binary", "other"}] /\ DOMAIN lhs' = Instrs
  BY <1>1, <1>3, <1>4 DEF TypeOK
<1>8. \A i \in soft : lhs'[i] = {} \/ \E o \in Reads : home'[o] = i /\ lhs'[i] = {o}
  BY <1>1, <1>3, <1>4, <1>5
<1>9. \A i \in Instrs \ soft : op'[i] = op[i] /\ lhs'[i] = lhs[i]
  BY <1>3
<1>10. \A o \in Reads : home'[o] \in {home[o], Gone} /\ (home[o] \notin soft => home'[o] = home[o])
  BY <1>2
<1> QED BY <1>6, <1>7, <1>8, <1>9, <1>10 DEF Simplified, Simplify

LEMMA SimplifyIInv ==
  ASSUME IInv, Simplified
  PROVE  IInv'
<1> USE DEF Simplified
<1>1. /\ prog' = prog /\ Reads' = Reads /\ Instrs' = Instrs
      /\ \A p : Var(p)' = Var(p)
      /\ \A i : Target(i)' = Target(i)
  BY DEF Reads, Instrs, Var, Target
<1>2. prog \in Programs /\ TypeOK /\ Gone \notin present
  BY Form DEF IInv, TypeOK, Gone
<1>3. \A p \in Reads : home'[p] # Gone => home'[p] = home[p]
  OBVIOUS
<1>4. ASSUME NEW i \in present
      PROVE  lhs'[i] = {} \/ \E p \in Held(i)' : lhs'[i] = {p}
  <2>1. CASE i \in soft
    BY <1>1, <2>1 DEF Held
  <2>2. CASE i \notin soft
    <3>1. Held(i)' = Held(i)
      BY <1>1, <1>2, <1>3, <2>2 DEF Held
    <3> QED BY <1>2, <2>2, <3>1 DEF TypeOK
  <2> QED BY <2>1, <2>2
<1>5. TypeOK'
  BY <1>1, <1>2, <1>4 DEF TypeOK
<1>6. Ordered' /\ ReadsDefined'
  BY <1>1, <1>3 DEF IInv, Ordered, ReadsDefined
<1> QED BY <1>1, <1>2, <1>5, <1>6 DEF IInv, NoPanic

\* No read of the condition is replaced but by the step that folds into the If.
LEMMA FoldConditions ==
  ASSUME IInv, ConditionsAgree, NEW CONSTANT d, NEW o, NEW u, FoldsInto(d, o, u)
  PROVE  ConditionsAgree'
<1> USE DEF FoldsInto
<1>1. prog' = prog /\ Reads' = Reads
  BY DEF Reads, Instrs
<1>2. d # Gone /\ d # u
  BY Form DEF IInv, TypeOK, Gone
<1> SUFFICES ASSUME NEW i \in prog.branch, i \in present, i # d
             PROVE  Held(i)' \subseteq cond'[i] /\ (i \notin soft' => cond'[i] = Held(i)')
  BY <1>1 DEF ConditionsAgree
<1>3. Held(i) \subseteq cond[i] /\ (i \notin soft => cond[i] = Held(i)) /\ i # Gone
  BY Form DEF ConditionsAgree, IInv, TypeOK, Gone
<1>4. CASE i = u
  <2>1. o \in Held(i) /\ o \in cond[i]
    BY <1>3, <1>4 DEF Held
  <2>2. \A p \in Held(i) : Var(p) = Var(o) <=> p = o
    BY <1>3 DEF Held
  <2>3. cond'[i] = {p \in cond[i] : Var(p) # Var(o)} \cup Held(d)
    BY <1>4, <2>1 DEF CondAfter
  <2>4. Held(i)' = (Held(i) \ {o}) \cup Held(d)
    BY <1>1, <1>2, <1>3, <1>4 DEF Held
  <2>5. i \notin soft' => i \notin soft
    OBVIOUS
  <2> QED BY <1>3, <2>2, <2>3, <2>4, <2>5
<1>5. CASE i # u
  <2>1. Held(i)' = Held(i)
    BY <1>1, <1>2, <1>3, <1>5 DEF Held
  <2>2. \A p \in Held(i) : Var(p) # Var(o)
    BY <1>3, <1>5 DEF Held
  <2>3. \A p \in Held(i) : p \in cond'[i]
    BY <1>3, <2>2 DEF CondAfter
  <2>4. ASSUME i \notin soft' PROVE cond'[i] = cond[i] /\ i \notin soft
    <3>1. cond[i] = Held(i)
      BY <1>3, <2>4
    <3> QED BY <2>2, <2>4, <3>1 DEF CondAfter
  <2> QED BY <1>3, <2>1, <2>3, <2>4
<1> QED BY <1>4, <1>5

\* Simplification only takes reads away from the If of a soft condition.
LEMMA SimplifyConditions ==
  ASSUME IInv, ConditionsAgree, Simplified
  PROVE  ConditionsAgree'
<1> USE DEF Simplified
<1>1. prog' = prog /\ Reads' = Reads /\ Gone \notin present
  BY Form DEF Reads, Instrs, IInv, TypeOK, Gone
<1>2. ASSUME NEW i \in present
      PROVE  Held(i)' \subseteq Held(i) /\ (i \notin soft => Held(i)' = Held(i))
  BY <1>1 DEF Held
<1> QED BY <1>1, <1>2 DEF ConditionsAgree

LEMMA NextIInv == IInv /\ [Next]_vars => IInv'
<1> SUFFICES ASSUME IInv, [Next]_vars PROVE IInv'
  OBVIOUS
<1>1. CASE \E d \in Instrs : Fold(d)
  BY <1>1, FoldIsSafe, FoldIInv
<1>2. CASE Simplify
  BY <1>2, SimplifyIs, SimplifyIInv
<1>3. CASE Stop \/ UNCHANGED vars
  <2>1. /\ UNCHANGED <<prog, present, home, op, lhs, soft, cond>>
        /\ phase' \in {"done", phase}
    BY <1>3 DEF Stop, vars
  <2>2. TypeOK'
    BY <2>1 DEF IInv, TypeOK, Held, Reads, Instrs
  <2>3. NoPanic' /\ Ordered' /\ ReadsDefined'
    BY <2>1 DEF IInv, NoPanic, Ordered, ReadsDefined, Reads, Var, Instrs, Target
  <2> QED BY <2>1, <2>2, <2>3 DEF IInv
<1> QED BY <1>1, <1>2, <1>3 DEF Next, Finished

LEMMA NextConditions == IInv /\ ConditionsAgree /\ [Next]_vars => ConditionsAgree'
<1> SUFFICES ASSUME IInv, ConditionsAgree, [Next]_vars PROVE ConditionsAgree'
  OBVIOUS
<1>1. CASE \E d \in Instrs : Fold(d)
  BY <1>1, FoldIsSafe, FoldConditions
<1>2. CASE Simplify
  BY <1>2, SimplifyIs, SimplifyConditions
<1>3. CASE Stop \/ UNCHANGED vars
  BY <1>3 DEF Stop, vars, ConditionsAgree, Held, Reads, Instrs
<1> QED BY <1>1, <1>2, <1>3 DEF Next, Finished

LEMMA Invariance == Spec => [](IInv /\ ConditionsAgree)
BY InitIInv, NextIInv, NextConditions, PTL DEF Spec
-----------------------------------------------------------------------------
\* Reads sit in instructions that are left, and shapes name their own reads, in
\* every reachable state of transform_function.
THEOREM TypeCorrect == Spec => []TypeOK
<1>1. IInv => TypeOK
  BY DEF IInv
<1> QED BY <1>1, Invariance, PTL

\* Neither the search for the reader nor the assertion on its target fails
\* (builder.rs:148-154, 184), for any function in SSA form and any order.
THEOREM NeverPanics == Spec => []NoPanic
<1>1. IInv => NoPanic
  BY DEF IInv
<1> QED BY <1>1, Invariance, PTL

\* No instruction loses a definition that it reads.
THEOREM ReadsKeepDefinitions == Spec => []ReadsDefined
<1>1. IInv => ReadsDefined
  BY DEF IInv
<1> QED BY <1>1, Invariance, PTL

\* The NextKind of a block reads all that its If does, whatever simplification
\* drops, and the same as long as it had nothing to drop.
THEOREM ConditionsAlwaysAgree == Spec => []ConditionsAgree
BY Invariance, PTL

\* Folding keeps the code whole, for every function in SSA form and every order.
THEOREM AlwaysSound == Spec => []FoldingSound
<1>1. TypeOK /\ NoPanic /\ ReadsDefined /\ ConditionsAgree => FoldingSound
  BY DEF FoldingSound
<1> QED BY <1>1, TypeCorrect, NeverPanics, ReadsKeepDefinitions, ConditionsAlwaysAgree, PTL
-----------------------------------------------------------------------------
(* What is left at the end.                                                *)

\* A read goes only with the definition of its variable.
GoneWithDefinition ==
  \A o \in Reads : home[o] = Gone => \E d \in Instrs \ present : Var(o) \in Target(d)

\* An operator stays the operator of its instruction, and its left side is its
\* first read until that one goes; what is a lone variable was one always.
ShapedAt(i) ==
  /\ op[i] = "binary" <=> prog.code[i].op = "binary"
  /\ op[i] = "binary" => lhs[i] = IF home[<<i, 1>>] = Gone THEN {} ELSE {<<i, 1>>}
  /\ op[i] = "copy" =>
       /\ prog.code[i].op = "copy"
       /\ \A o \in lhs[i] : prog.code[o[1]].op = "copy" /\ o[2] = 1
Shaped == \A i \in present : ShapedAt(i)

AddEdges == [d \in Instrs |-> AddTo(d)]
Kept == StaysFirst \subseteq present /\ IsClosed(AddEdges, present)

StopsDone == phase = "done" => Foldable = {}

\* Simplification has nothing to rewrite.
Plain == prog.soft = {} /\ soft = {}

ExactIInv ==
  /\ IInv /\ StopsDone
  /\ prog.soft = {} => Plain /\ GoneWithDefinition /\ Shaped /\ Kept

LEMMA FirstReads ==
  ASSUME prog \in Programs
  PROVE  \A i \in Instrs : prog.code[i].op # "other" =>
           <<i, 1>> \in Reads /\ Var(<<i, 1>>) = prog.code[i].reads[1]
BY SsaForm DEF Reads, Var, Instrs

\* The choice of an instruction to fold, in terms of the program and of the reads
\* that are gone.
LEMMA FoldableIs ==
  ASSUME IInv, GoneWithDefinition, Shaped
  PROVE  \A i \in present :
           i \in Foldable <=> OneReader(i) /\ (AddsToOwn(i) => home[<<i, 1>>] = Gone)
<1> TAKE i \in present
<1>1. i \in Instrs /\ prog \in Programs /\ TypeOK
  BY DEF IInv, TypeOK
<1>2. ASSUME NEW v \in Target(i) PROVE ReadsOfVar(v) = {p \in Reads : Var(p) = v}
  BY <1>1, Form DEF ReadsOfVar, GoneWithDefinition
<1>3. (\E v \in Target(i) : ReadOnce(v)) <=> OneReader(i)
  BY <1>2 DEF ReadOnce, OneReader
<1>4. IncrementsOwn(i) <=> AddsToOwn(i) /\ home[<<i, 1>>] # Gone
  <2>1. ShapedAt(i)
    BY DEF Shaped
  <2>2. CASE prog.code[i].op # "binary"
    BY <2>1, <2>2 DEF ShapedAt, IncrementsOwn, AddsToOwn
  <2>3. CASE prog.code[i].op = "binary"
    <3>1. Var(<<i, 1>>) = prog.code[i].reads[1] /\ op[i] = "binary"
      BY <1>1, <2>1, <2>3, FirstReads DEF ShapedAt
    <3>2. CASE home[<<i, 1>>] = Gone
      BY <2>1, <3>1, <3>2 DEF ShapedAt, IncrementsOwn
    <3>3. CASE home[<<i, 1>>] # Gone
      <4>1. lhs[i] = {<<i, 1>>}
        BY <2>1, <3>1, <3>3 DEF ShapedAt
      <4> QED BY <2>3, <3>1, <3>3, <4>1 DEF IncrementsOwn, AddsToOwn
    <3> QED BY <3>2, <3>3
  <2> QED BY <2>2, <2>3
<1> QED BY <1>3, <1>4 DEF Foldable

LEMMA InitExact == Init => ExactIInv
<1> SUFFICES ASSUME Init PROVE ExactIInv
  OBVIOUS
<1> USE DEF Init
<1>1. IInv /\ prog \in Programs
  BY InitIInv
<1>2. \A o \in Reads : home[o] = o[1] /\ home[o] # Gone
  BY <1>1, Form DEF Gone
<1>3. GoneWithDefinition
  BY <1>2 DEF GoneWithDefinition
<1>4. Shaped
  <2> SUFFICES ASSUME NEW i \in Instrs PROVE ShapedAt(i)
    BY DEF Shaped
  <2>1. prog.code[i].op # "other" => <<i, 1>> \in Reads /\ home[<<i, 1>>] # Gone
    BY <1>1, <1>2, FirstReads
  <2> QED BY <2>1 DEF ShapedAt, FirstRead
<1>5. Kept
  BY DEF Kept, IsClosed, StaysFirst, AddToNone, AddEdges, AddTo
<1> QED BY <1>1, <1>3, <1>4, <1>5 DEF ExactIInv, StopsDone, Plain

LEMMA FoldGone ==
  ASSUME IInv, GoneWithDefinition, NEW d, NEW o, NEW u, FoldsInto(d, o, u)
  PROVE  GoneWithDefinition'
<1> USE DEF FoldsInto
<1>1. /\ Reads' = Reads /\ Instrs' = Instrs
      /\ \A p : Var(p)' = Var(p)
      /\ \A i : Target(i)' = Target(i)
  BY DEF Reads, Instrs, Var, Target
<1>2. d \in Instrs /\ u # Gone
  BY Form DEF IInv, TypeOK, Gone
<1> SUFFICES ASSUME NEW p \in Reads, home'[p] = Gone
             PROVE  \E e \in Instrs \ present' : Var(p) \in Target(e)
  BY <1>1 DEF GoneWithDefinition
<1>3. CASE p = o
  BY <1>2, <1>3
<1>4. CASE p # o
  <2>1. home[p] = Gone
    BY <1>2, <1>4
  <2>2. PICK e \in Instrs \ present : Var(p) \in Target(e)
    BY <2>1 DEF GoneWithDefinition
  <2> QED BY <2>2
<1> QED BY <1>3, <1>4

\* Only a definition that is no operator's goes into a lone variable, and no lone
\* variable goes into an operator's left side.
LEMMA FoldShaped ==
  ASSUME \A p \in Programs : CopiesApart(p),
         IInv, Shaped, NEW d, NEW o, NEW u, FoldsInto(d, o, u)
  PROVE  Shaped'
<1> USE DEF FoldsInto
<1>1. prog' = prog /\ prog \in Programs /\ TypeOK /\ d \in present /\ u \in present
  BY DEF IInv
<1>2. d \in Instrs /\ u \in Instrs /\ d # Gone /\ u # Gone /\ u # d
  BY <1>1, Form DEF TypeOK, Gone
<1>3. ShapedAt(d) /\ ShapedAt(u)
  BY <1>1 DEF Shaped
<1> SUFFICES ASSUME NEW i \in present, i # d PROVE ShapedAt(i)'
  BY <1>1 DEF Shaped
<1>4. i \in Instrs /\ ShapedAt(i)
  BY <1>1 DEF Shaped, TypeOK
<1>5. op[i] = "binary" => <<i, 1>> \in Reads
  BY <1>1, <1>4, FirstReads DEF ShapedAt
<1>6. \A p \in Reads : p # o => (home'[p] = Gone <=> home[p] = Gone)
  BY <1>2
<1>7. CASE i # u
  <2>1. op'[i] = op[i] /\ lhs'[i] = lhs[i]
    BY <1>1, <1>4, <1>7 DEF TypeOK
  <2>2. op[i] = "binary" => <<i, 1>> # o
    <3> SUFFICES ASSUME op[i] = "binary", <<i, 1>> = o PROVE FALSE
      OBVIOUS
    <3>1. lhs[i] = {o}
      BY <1>2, <1>4 DEF ShapedAt
    <3>2. o \in Held(i)
      BY <1>1, <3>1 DEF TypeOK
    <3> QED BY <1>7, <3>2 DEF Held
  <2> QED BY <1>1, <1>4, <1>5, <1>6, <2>1, <2>2 DEF ShapedAt
<1>8. CASE i = u /\ lhs[u] # {o}
  <2>1. op'[i] = op[i] /\ lhs'[i] = lhs[i]
    BY <1>1, <1>4, <1>8 DEF TypeOK, OpAfter, LhsAfter
  <2>2. op[i] = "binary" => <<i, 1>> # o
    BY <1>2, <1>3, <1>8 DEF ShapedAt
  <2> QED BY <1>1, <1>4, <1>5, <1>6, <2>1, <2>2 DEF ShapedAt
<1>9. CASE i = u /\ lhs[u] = {o} /\ op[u] = "copy"
  <2>1. op'[i] = op[d] /\ lhs'[i] = lhs[d]
    BY <1>1, <1>4, <1>9 DEF TypeOK, OpAfter, LhsAfter
  <2>2. prog.code[u].op = "copy" /\ prog.code[o[1]].op = "copy" /\ o[2] = 1
    BY <1>3, <1>9 DEF ShapedAt
  <2>3. op[d] # "binary"
    <3> SUFFICES ASSUME prog.code[d].op = "binary" PROVE FALSE
      BY <1>3 DEF ShapedAt
    <3>1. o[1] \in Instrs /\ Target(d) = {Var(o)}
      BY <1>1, <1>2, Form
    <3>2. prog.code[d].target = {prog.code[o[1]].reads[1]}
      BY <2>2, <3>1 DEF Var, Target
    <3> QED BY <1>1, <1>2, <2>2, <3>1, <3>2 DEF CopiesApart, Instrs
  <2> QED BY <1>1, <1>3, <1>9, <2>1, <2>2, <2>3 DEF ShapedAt
<1>10. CASE i = u /\ lhs[u] = {o} /\ op[u] = "binary"
  <2>1. o = <<u, 1>> /\ prog.code[u].op = "binary"
    BY <1>3, <1>10 DEF ShapedAt
  <2>2. op[d] # "copy"
    <3> SUFFICES ASSUME prog.code[d].op = "copy" PROVE FALSE
      BY <1>3 DEF ShapedAt
    <3>1. Target(d) = {Var(o)}
      BY <1>1, <1>2, Form
    <3>2. prog.code[d].target = {prog.code[u].reads[1]}
      BY <2>1, <3>1 DEF Var, Target
    <3> QED BY <1>1, <1>2, <2>1, <3>2 DEF CopiesApart, Instrs
  <2>3. op'[i] = "binary" /\ lhs'[i] = {} /\ home'[<<i, 1>>] = Gone
    BY <1>1, <1>4, <1>10, <2>1, <2>2 DEF TypeOK, OpAfter, LhsAfter
  <2> QED BY <1>1, <1>10, <2>1, <2>3 DEF ShapedAt
<1>11. CASE i = u /\ lhs[u] = {o} /\ op[u] = "other"
  <2>1. op'[i] = "other"
    BY <1>1, <1>4, <1>11 DEF TypeOK, OpAfter
  <2> QED BY <1>1, <1>3, <1>11, <2>1 DEF ShapedAt
<1> QED BY <1>1, <1>2, <1>7, <1>8, <1>9, <1>10, <1>11 DEF TypeOK

\* What is chosen is no result that stays.
LEMMA FoldKept ==
  ASSUME IInv, GoneWithDefinition, Shaped, Kept,
         NEW CONSTANT d, d \in Foldable, NEW o, NEW u, FoldsInto(d, o, u)
  PROVE  Kept'
<1> USE DEF FoldsInto
<1>1. prog' = prog /\ prog \in Programs /\ TypeOK /\ d \in Instrs
  BY DEF IInv, TypeOK
<1>2. /\ Instrs' = Instrs /\ StaysFirst' = StaysFirst /\ AddEdges' = AddEdges
  BY DEF StaysFirst, AddToNone, AddEdges, AddTo, AddsToOwn, OneReader, Instrs, Reads, Var, Target
<1>3. OneReader(d) /\ (AddsToOwn(d) => home[<<d, 1>>] = Gone)
  BY FoldableIs
<1>4. ASSUME AddsToOwn(d)
      PROVE  \E e \in Instrs \ present : d \in AddTo(e)
  <2>1. <<d, 1>> \in Reads /\ Var(<<d, 1>>) = prog.code[d].reads[1]
    BY <1>1, <1>4, FirstReads DEF AddsToOwn
  <2> QED BY <1>1, <1>3, <1>4, <2>1 DEF GoneWithDefinition, AddTo
<1>5. d \notin StaysFirst
  BY <1>3, <1>4 DEF StaysFirst, AddToNone
<1>6. \A x \in present : d \notin AddTo(x)
  <2> SUFFICES ASSUME NEW x \in present, d \in AddTo(x) PROVE FALSE
    OBVIOUS
  <2>1. PICK e \in Instrs \ present : d \in AddTo(e)
    BY <1>4 DEF AddTo
  <2>2. x = e
    BY <1>1, <2>1, Form DEF AddTo, TypeOK
  <2> QED BY <2>1, <2>2
<1>7. ASSUME NEW x \in present' \cap Instrs PROVE AddTo(x) \subseteq present'
  BY <1>1, <1>6 DEF Kept, IsClosed, AddEdges
<1> QED BY <1>2, <1>5, <1>7 DEF Kept, IsClosed, AddEdges

LEMMA NextExact ==
  ASSUME \A p \in Programs : CopiesApart(p)
  PROVE  ExactIInv /\ [Next]_vars => ExactIInv'
<1> SUFFICES ASSUME ExactIInv, [Next]_vars PROVE ExactIInv'
  OBVIOUS
<1>1. IInv' /\ prog' = prog
  BY NextIInv, FoldIsSafe DEF ExactIInv, Next, vars, Simplify, FoldsInto, Stop, Finished
<1>2. StopsDone'
  <2>1. CASE \E d \in Instrs : Fold(d)
    BY <2>1, FoldIsSafe DEF ExactIInv, FoldsInto, StopsDone
  <2>2. CASE Simplify
    BY <2>2 DEF Simplify, StopsDone
  <2>3. CASE Stop \/ UNCHANGED vars
    <3>1. UNCHANGED <<prog, present, home, op, lhs>>
      BY <2>3 DEF Stop, vars
    <3>2. Foldable' = Foldable
      BY <3>1 DEF Foldable, IncrementsOwn, ReadOnce, ReadsOfVar, Reads, Var, Instrs, Target
    <3> QED BY <2>3, <3>2 DEF ExactIInv, StopsDone, Stop, vars
  <2> QED BY <2>1, <2>2, <2>3 DEF Next, Finished
<1> SUFFICES ASSUME prog.soft = {}
             PROVE  Plain' /\ GoneWithDefinition' /\ Shaped' /\ Kept'
  BY <1>1, <1>2 DEF ExactIInv
<1>3. Plain /\ GoneWithDefinition /\ Shaped /\ Kept
  BY DEF ExactIInv
<1>4. CASE \E d \in Instrs : Fold(d)
  <2>1. PICK d \in Instrs : Fold(d)
    BY <1>4
  <2>2. PICK o, u : FoldsInto(d, o, u)
    BY <2>1, FoldIsSafe DEF ExactIInv
  <2>3. d \in Foldable
    BY <2>1 DEF Fold
  <2>4. Plain'
    BY <1>1, <1>3, <2>2 DEF FoldsInto, Plain
  <2> QED BY <1>3, <2>2, <2>3, <2>4, FoldGone, FoldShaped, FoldKept DEF ExactIInv
<1>5. CASE UNCHANGED <<prog, present, home, op, lhs, soft>>
  <2>1. /\ Instrs' = Instrs /\ Reads' = Reads /\ StaysFirst' = StaysFirst
        /\ AddEdges' = AddEdges
    BY <1>5 DEF StaysFirst, AddToNone, AddEdges, AddTo, AddsToOwn, OneReader, Instrs, Reads,
         Var, Target
  <2>2. GoneWithDefinition'
    BY <1>3, <1>5, <2>1 DEF GoneWithDefinition, Var, Target
  <2>3. Shaped' /\ Plain'
    BY <1>3, <1>5 DEF Shaped, ShapedAt, Plain
  <2>4. Kept'
    BY <1>3, <1>5, <2>1 DEF Kept
  <2> QED BY <2>2, <2>3, <2>4
<1>6. CASE Simplify
  <2>1. Simplified /\ TypeOK
    BY <1>6, SimplifyIs DEF ExactIInv, IInv
  <2>2. \A o \in Reads : home'[o] = home[o]
    BY <1>3, <2>1 DEF Simplified, Plain
  <2>3. \A i \in Instrs : op'[i] = op[i] /\ lhs'[i] = lhs[i]
    BY <1>3, <2>1 DEF Simplified, Plain
  <2>4. UNCHANGED <<prog, present, soft>>
    BY <2>1 DEF Simplified
  <2>5. /\ Instrs' = Instrs /\ Reads' = Reads /\ StaysFirst' = StaysFirst
        /\ AddEdges' = AddEdges
    BY <2>4 DEF StaysFirst, AddToNone, AddEdges, AddTo, AddsToOwn, OneReader, Instrs, Reads,
         Var, Target
  <2>6. GoneWithDefinition'
    BY <1>3, <2>2, <2>4, <2>5 DEF GoneWithDefinition, Var, Target
  <2>7. ASSUME NEW i \in present PROVE ShapedAt(i)'
    <3>1. ShapedAt(i) /\ i \in Instrs
      BY <1>3, <2>1 DEF Shaped, TypeOK
    <3>2. op[i] = "binary" => <<i, 1>> \in Reads
      BY <3>1, FirstReads DEF ShapedAt, ExactIInv, IInv
    <3> QED BY <2>2, <2>3, <2>4, <3>1, <3>2 DEF ShapedAt
  <2> QED BY <1>3, <2>4, <2>5, <2>6, <2>7 DEF Shaped, Kept, Plain
<1> QED BY <1>4, <1>5, <1>6 DEF Next, Finished, Stop, vars

LEMMA DoneExactly == ExactIInv => FoldedExactly
<1> SUFFICES ASSUME ExactIInv, phase = "done", prog.soft = {} PROVE present = Stays
  BY DEF FoldedExactly
<1>1. prog \in Programs /\ TypeOK /\ Foldable = {} /\ present \subseteq Instrs /\ Instrs \subseteq Nat
  BY Form DEF ExactIInv, IInv, TypeOK, StopsDone
<1>2. Stays = Reach(AddEdges, StaysFirst) /\ IsFiniteSet(DOMAIN AddEdges)
  BY <1>1, SsaForm DEF Stays, AddEdges, Instrs
<1>3. StaysFirst \subseteq Stays /\ IsClosed(AddEdges, Stays)
  BY <1>2, ReachHolds, ReachClosed
<1>4. Stays \subseteq present
  BY <1>2, ReachLeast DEF ExactIInv, Kept
<1>5. present \subseteq Stays
  <2> SUFFICES ASSUME present \ Stays # {} PROVE FALSE
    OBVIOUS
  <2>1. present \ Stays \subseteq Nat
    BY <1>1
  <2>2. PICK m \in present \ Stays : \A x \in present \ Stays : m <= x
    BY <2>1, LeastNumber
  <2>3. m \notin StaysFirst /\ m \in Instrs /\ m \in Nat
    BY <1>1, <1>3, <2>2
  <2>4. OneReader(m)
    BY <2>3 DEF StaysFirst
  <2>5. AddsToOwn(m) /\ home[<<m, 1>>] # Gone
    BY <1>1, <2>2, <2>4, FoldableIs DEF ExactIInv
  <2>6. <<m, 1>> \in Reads /\ Var(<<m, 1>>) = prog.code[m].reads[1]
    BY <1>1, <2>3, <2>5, FirstReads DEF AddsToOwn
  <2>7. PICK e \in Instrs : m \in AddTo(e)
    BY <2>3, <2>5 DEF StaysFirst, AddToNone
  <2>8. Var(<<m, 1>>) \in Target(e)
    BY <2>6, <2>7 DEF AddTo
  <2>9. e < m
    <3>1. Var(<<m, 1>>) \notin {Input, Deref} \cup prog.given
      BY <1>1, <2>8, Form
    <3>2. \A o \in Reads : \/ Var(o) \in {Input, Deref} \cup prog.given
                           \/ \E d \in Instrs : d < o[1] /\ Var(o) \in Target(d)
      BY <1>1, Form
    <3>3. PICK d \in Instrs : d < m /\ Var(<<m, 1>>) \in Target(d)
      BY <2>6, <3>1, <3>2
    <3> QED BY <1>1, <2>8, <3>3, Form
  <2>10. e \in present
    <3>1. Var(<<m, 1>>) \notin {Input, Deref} \cup prog.given
      BY <1>1, <2>8, Form
    <3>2. PICK d \in present : Var(<<m, 1>>) \in Target(d)
      BY <2>5, <2>6, <3>1 DEF ExactIInv, IInv, ReadsDefined
    <3> QED BY <1>1, <2>8, <3>2, Form
  <2>11. e \in Stays
    BY <1>1, <2>2, <2>3, <2>9, <2>10
  <2>12. m \in Stays
    BY <1>3, <2>7, <2>11 DEF IsClosed, AddEdges
  <2> QED BY <2>2, <2>12
<1> QED BY <1>4, <1>5

\* Whatever the order of the hash map, the definitions that are left at the end
\* are those the program says before folding, for every function in SSA form in
\* which no copy is next to an operator and nothing is there to simplify.
THEOREM FoldsExactlyThose ==
  ASSUME \A p \in Programs : CopiesApart(p)
  PROVE  Spec => []FoldedExactly
<1>1. ExactIInv /\ [Next]_vars => ExactIInv'
  BY NextExact
<1> QED BY <1>1, InitExact, DoneExactly, PTL DEF Spec
=============================================================================
