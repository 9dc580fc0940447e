------------------------------ MODULE FoldedSsa ------------------------------
(***************************************************************************)
(* Folding of definitions into their only reader (folded_ssa/builder.rs).  *)
(*                                                                         *)
(* A program is one function in SSA form, its instructions numbered so that *)
(* definitions come before what they dominate:                             *)
(*   code[i]   the block of instruction i; target, {} or the singleton of  *)
(*             the variable an Assign defines; op, "copy" for a lone       *)
(*             variable, "binary" for an operator whose left side is one,  *)
(*             else "other"; reads, the variables it reads, that left side *)
(*             first, addresses of a write through a pointer included      *)
(*   branch    the If instructions whose condition is also in the NextKind *)
(*             of their block                                              *)
(*   soft      the instructions with a constant or a negation in them that *)
(*             may cancel: 0, 1, -1, - x, ! x                              *)
(*   given     the variables defined by the function's entry or by a phi   *)
(*   phis      the phi functions' inputs, <<predecessor, variable>>        *)
(* A variable is <<kind, version>>; Input and Deref stand for what an      *)
(* expression takes from the input or from memory through a pointer.       *)
(*                                                                         *)
(* Folding moves reads, it never makes one: a read is <<i, n>>, the n-th of *)
(* instruction i of the program, and `home` says which instruction holds   *)
(* it now.  Operators, constants and debug markers are left out: what      *)
(* `simplify` makes of a soft instruction is a choice.  Any of its reads   *)
(* may be dropped, as x is from x * 0, and any shape may be left, as the   *)
(* lone x of 0 + x or the right side of !(!(x < y)).  What is folded into  *)
(* an instruction may meet its operators, so it is soft from then on.      *)
(***************************************************************************)
EXTENDS Sequences, Reachability

CONSTANTS Programs, Input, Deref

\* SSA form (Ssa: SingleAssignment, DefinitionsDominate).
Defines(p, i, v) == v \in p.code[i].target
ReadsOf(p, i)    == {p.code[i].reads[n] : n \in DOMAIN p.code[i].reads}
ASSUME SsaForm ==
  \A p \in Programs :
    /\ DOMAIN p.code \subseteq Nat /\ IsFiniteSet(DOMAIN p.code)
    /\ p.branch \subseteq DOMAIN p.code /\ p.soft \subseteq DOMAIN p.code
    /\ \A i \in DOMAIN p.code :
         /\ \A v \in p.code[i].target :
              /\ p.code[i].target = {v} /\ v \notin {Input, Deref} \cup p.given
              /\ \A j \in DOMAIN p.code : Defines(p, j, v) => i = j
         /\ \A v \in ReadsOf(p, i) \ ({Input, Deref} \cup p.given) :
              \E d \in DOMAIN p.code : d < i /\ Defines(p, d, v)
         /\ p.code[i].op \in {"copy", "binary", "other"}
         /\ p.code[i].op # "other" => 1 \in DOMAIN p.code[i].reads

VARIABLES
  prog,
  present,   \* the instructions left
  home,      \* the instruction that holds each read, or Gone
  op, lhs,   \* the shape of each expression; its left side, {} or a read
  soft,      \* the instructions that simplification may rewrite
  cond,      \* reads of the condition in the NextKind of an If's block
  phase      \* simplify, fold, done, panic

vars == <<prog, present, home, op, lhs, soft, cond, phase>>

Gone == -1

Instrs    == DOMAIN prog.code
Target(i) == prog.code[i].target
Reads     == UNION {{<<i, n>> : n \in DOMAIN prog.code[i].reads} : i \in Instrs}
Var(o)    == prog.code[o[1]].reads[o[2]]
FirstRead(i) == IF prog.code[i].op = "other" THEN {} ELSE {<<i, 1>>}

Init ==
  /\ prog \in Programs
  /\ present = Instrs
  /\ home = [o \in Reads |-> o[1]]
  /\ op = [i \in Instrs |-> prog.code[i].op]
  /\ lhs = [i \in Instrs |-> FirstRead(i)]
  /\ soft = prog.soft
  /\ cond = [i \in prog.branch |-> {o \in Reads : o[1] = i}]
  /\ phase = "simplify"
-----------------------------------------------------------------------------
\* The reads instruction i holds, and those of variable v.
Held(i)    == {o \in Reads : home[o] = i}
ReadsOfVar(v) == {o \in Reads : home[o] # Gone /\ Var(o) = v}

\* The shapes an expression with these reads can have.
Shapes(held) ==
  {<<"other", {}>>} \cup {<<"binary", {o}>> : o \in {p \in held : Var(p) \notin {Input, Deref}}}
    \cup {<<"copy", {o}>> : o \in {p \in held : held = {p} /\ Var(p) \notin {Input, Deref}}}

\* A round first simplifies the expressions of all instructions, and folds only
\* if that changed nothing: the round after a change is one.  The condition in
\* the NextKind is no instruction's and stays as it is.
Simplify ==
  /\ phase = "simplify"
  /\ phase' = "fold"
  /\ \E drop \in SUBSET {o \in Reads : home[o] \in soft} :
       /\ home' = [o \in Reads |-> IF o \in drop THEN Gone ELSE home[o]]
       /\ \E shape \in [soft -> UNION {Shapes(Held(i)) : i \in soft}] :
            /\ \A i \in soft : shape[i] \in Shapes(Held(i) \ drop)
            /\ op'  = [i \in Instrs |-> IF i \in soft THEN shape[i][1] ELSE op[i]]
            /\ lhs' = [i \in Instrs |-> IF i \in soft THEN shape[i][2] ELSE lhs[i]]
  /\ UNCHANGED <<prog, present, soft, cond>>

\* [R-N]_X = [R-N]_Y + ..: the left side is another version of the target.
IncrementsOwn(i) ==
  op[i] = "binary" /\ \E o \in lhs[i], v \in Target(i) : Var(o)[1] = v[1] /\ Var(o) # v

\* Mutant of ReadOnce: a definition with a second reader is taken as well.
ReadTwice(v) == \E o, p \in Reads : ReadsOfVar(v) = {o, p}
ReadOnce(v)  == \E o \in Reads : ReadsOfVar(v) = {o}
Foldable == {i \in present : ~IncrementsOwn(i) /\ \E v \in Target(i) : ReadOnce(v)}

\* The left side of u once read o of it holds the expression of d.
\* Mutant of LhsAfter: it is the left side of d.
LhsOfAny(u, o, d)  == IF lhs[u] = {o} THEN lhs[d] ELSE lhs[u]
LhsAfter(u, o, d) ==
  IF lhs[u] # {o} THEN lhs[u]
  ELSE IF op[u] = "copy" \/ op[d] = "copy" THEN lhs[d] ELSE {}
OpAfter(u, o, d) == IF op[u] = "copy" /\ lhs[u] = {o} THEN op[d] ELSE op[u]

CondAfter(u, o, d) ==
  [i \in prog.branch |->
     IF prog.code[i].block = prog.code[u].block /\ \E p \in cond[i] : Var(p) = Var(o)
       THEN {p \in cond[i] : Var(p) # Var(o)} \cup Held(d) ELSE cond[i]]

\* d is removed; the reads it held move to u, in place of o.
\* Mutant of Folded: the new blocks are thrown away.
FoldedNothing(u, o, d) == [present |-> present, home |-> home]
Folded(u, o, d) ==
  [present |-> present \ {d},
   home    |-> [p \in Reads |-> IF p = o THEN Gone ELSE IF home[p] = d THEN u ELSE home[p]]]

\* One round: `current` is searched for the reader after the removal of d, and
\* the target of the reader is asserted to differ.
Fold(d) ==
  /\ phase = "fold" /\ d \in Foldable
  /\ \E v \in Target(d) : \E o \in ReadsOfVar(v) :
       LET u == home[o]
       IN  IF u \in present \ {d} /\ v \notin Target(u)
             THEN /\ present' = Folded(u, o, d).present
                  /\ home' = Folded(u, o, d).home
                  /\ op'  = [op  EXCEPT ![u] = OpAfter(u, o, d)]
                  /\ lhs' = [lhs EXCEPT ![u] = LhsAfter(u, o, d)]
                  /\ soft' = IF d \in soft THEN soft \cup {u} ELSE soft
                  /\ cond' = CondAfter(u, o, d)
                  /\ phase' = "simplify"
                  /\ UNCHANGED prog
             ELSE phase' = "panic" /\ UNCHANGED <<prog, present, home, op, lhs, soft, cond>>

Stop ==
  /\ phase = "fold" /\ Foldable = {}
  /\ phase' = "done"
  /\ UNCHANGED <<prog, present, home, op, lhs, soft, cond>>

Finished == phase \in {"done", "panic"} /\ UNCHANGED vars

Next == Simplify \/ (\E d \in Instrs : Fold(d)) \/ Stop \/ Finished

Spec == Init /\ [][Next]_vars

\* fixed_point_mut is a loop that never waits.
FairSpec == Spec /\ WF_vars(Next)
-----------------------------------------------------------------------------
\* Reads live in instructions that are left; shapes point at their own reads.
TypeOK ==
  /\ present \subseteq Instrs
  /\ home \in [Reads -> present \cup {Gone}]
  /\ op \in [Instrs -> {"copy", "binary", "other"}]
  /\ DOMAIN lhs = Instrs
  /\ \A i \in present : lhs[i] = {} \/ \E o \in Held(i) : lhs[i] = {o}
  /\ soft \subseteq Instrs
  /\ DOMAIN cond = prog.branch
  /\ phase \in {"simplify", "fold", "done", "panic"}

\* The reader that was counted is still there, and does not define what it
\* reads: definitions that have moved together never close a cycle
\* (builder.rs:148-154, 184).
NoPanic == phase # "panic"

\* Every read that is left is of an input, a phi function's result or a
\* definition that is left: a definition only goes with its last reader.
ReadsDefined ==
  \A o \in Reads : home[o] # Gone =>
    \/ Var(o) \in {Input, Deref} \cup prog.given
    \/ \E d \in present : Var(o) \in Target(d)

\* A block keeps its condition twice, in the If and in its NextKind, and control
\* flow structuring uses the second (control_flow_analyzer.rs:730).  The second
\* has all that the first reads, and is the same as long as simplification had
\* nothing to rewrite in the first: it never rewrites the second.
ConditionsAgree ==
  \A i \in prog.branch \cap present :
    /\ Held(i) \subseteq cond[i]
    /\ i \notin soft => cond[i] = Held(i)

\* The outcome does not depend on the order of the hash map.  What is left is
\* said by the program before folding: a definition without exactly one reader,
\* and one that adds to another version of its target, if that is no result of
\* an instruction or of one that stays.  Of programs where no copy is next to an
\* operator: t = x + 1; x = t is kept in one order of the hash map and folded in
\* another, whatever builder.rs:139 says of loop counters.  And of programs that
\* simplification leaves alone: 0 + x is no operator's result any more.
CopiesApart(p) ==
  \A i, j \in DOMAIN p.code :
    {p.code[i].op, p.code[j].op} = {"copy", "binary"} => p.code[j].target # {p.code[i].reads[1]}

OneReader(i) ==
  \E v \in Target(i), o \in Reads : {p \in Reads : Var(p) = v} = {o}
AddsToOwn(i) ==
  prog.code[i].op = "binary" /\
    \E v \in Target(i) : prog.code[i].reads[1][1] = v[1] /\ prog.code[i].reads[1] # v
AddTo(d)     == {i \in Instrs : AddsToOwn(i) /\ prog.code[i].reads[1] \in Target(d)}
AddToNone    == {i \in Instrs : AddsToOwn(i) /\ \A d \in Instrs : i \notin AddTo(d)}
StaysFirst   == AddToNone \cup {i \in Instrs : ~OneReader(i)}
Stays == Reach([d \in Instrs |-> AddTo(d)], StaysFirst)
FoldedExactly == phase = "done" /\ prog.soft = {} => present = Stays

\* Folding ends: each round removes an instruction.
EventuallyDone == <>(phase = "done")
-----------------------------------------------------------------------------
\* "every variable is defined before it is used" (ssa/types.rs:4-5) also of the
\* inputs of phi functions, whose reads nobody counts.
PhiInputsDefined ==
  phase = "done" =>
    \A q \in prog.phis : q[2] \in prog.given \/ \E d \in present : q[2] \in Target(d)

\* Folding is "eliminating temporary variables" (builder.rs:17): an assignment to
\* a global is not one of them, the functions that read it are elsewhere.
GlobalsStored ==
  phase = "done" =>
    \A i \in Instrs \ present : \A v \in Target(i) : v[1][1] # "M"

\* "Opcode 3 reads a single integer from input" (docs/machine_arch.md:39): inputs
\* are taken in the order of the instructions that took them.
InputsKeepOrder ==
  phase = "done" =>
    \A o, p \in Reads :
      /\ Var(o) = Input /\ Var(p) = Input /\ o[1] < p[1]
      /\ home[o] # Gone /\ home[p] # Gone
      => home[o] <= home[p]

\* "Also update NextKind condition operand if it uses the same variable"
\* (builder.rs:199): what a condition in a NextKind reads is defined.
ConditionsDefined ==
  phase = "done" =>
    \A i \in prog.branch : \A o \in cond[i] :
      Var(o) \in {Input, Deref} \cup prog.given \/ \E d \in present : Var(o) \in Target(d)

\* Folding keeps the code whole: it finds every reader, leaves no read without a
\* definition, and nothing that a condition reads out of its second copy.
FoldingSound == TypeOK /\ NoPanic /\ ReadsDefined /\ ConditionsAgree
=============================================================================
