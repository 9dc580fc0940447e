--------------------------- MODULE DataFlowProofs ---------------------------
(***************************************************************************)
(* Proofs about DataFlow, for any set of control flow graphs.              *)
(*                                                                         *)
(* A pass stops when a sweep changes nothing.  Three facts make that right: *)
(* a sweep that has changed nothing yet has left the equations of every    *)
(* visited block true (SweepInv); every set is contained in what its       *)
(* equation would now compute, so a visit can only grow it (Below); and    *)
(* every set is contained in every solution of the equations               *)
(* (BelowSolutions).  At the end of a pass the sets are therefore the      *)
(* least solution, the same for every visiting order.                      *)
(***************************************************************************)
EXTENDS DataFlow, ReachabilityProofs


\* A sweep that has changed nothing leaves the equations of visited blocks true.
SweepInv ==
  ~changed =>
    \A b \in Blocks \ todo :
      /\ pass = "returns" => FrEquation(b)
      /\ pass = "defs" => DefsEquation(b)
      /\ pass = "live" => LiveEquation(b)

\* No set is ahead of its equation.
Below ==
  \A b \in Blocks :
    /\ frOut[b] \subseteq frIn[b]
    /\ defsIn[b] \subseteq NewDefsIn(b)
    /\ defsOut[b] \subseteq DefsThrough(b, defsIn[b])
    /\ liveOut[b] \subseteq NewLiveOut(b)
    /\ liveIn[b] \subseteq LiveThrough(b, liveOut[b])

\* Passes 2 and 3 do not touch liveness.
LiveLast ==
  pass \in {"returns", "defs"} => \A b \in Blocks : liveIn[b] = {} /\ liveOut[b] = {}

\* What the equations of liveness, with Use, add up to along paths.
Origins == UNION {[at : {c}, pair : Use(c) \cup Expected(c)] : c \in Blocks}
LiveAt(b) ==
  {o.pair : o \in {o \in Origins : o.at \in Onward(prog, {b}, NotDefining(o.pair[1]))}}

IInv == TypeOK /\ Fixpoint /\ SweepInv /\ Below /\ LiveLast
-----------------------------------------------------------------------------
\* The references and definitions of one block have their types.
LEMMA BlockTypes ==
  ASSUME NEW b \in Blocks
  PROVE  /\ Gen(b) \in SUBSET Definitions
         /\ Use(b) \in SUBSET (AllKinds \X Instructions)
         /\ Use(b) \in SUBSET LivePairs
         /\ CallsReturningTo(prog, b) \in SUBSET Blocks
<1>1. b \in Blocks /\ (\A i \in Positions(b) : <<b, i>> \in Instructions)
  BY DEF Instructions
<1>2. GenKinds(b) \subseteq AllKinds /\ UseKinds(b) \subseteq AllKinds
  BY DEF AllKinds
<1>3. Gen(b) \in SUBSET Definitions
  BY <1>1, <1>2 DEF Gen, LastWrites, Definitions
<1>4. Use(b) \in SUBSET (AllKinds \X Instructions)
  BY <1>1, <1>2 DEF Use, LastUses
<1>5. CallsReturningTo(prog, b) \in SUBSET Blocks
  BY DEF CallsReturningTo, Preds, Blocks
<1> QED BY <1>3, <1>4, <1>5 DEF LivePairs

LEMMA InputTypes ==
  ASSUME TypeOK
  PROVE  InputDefs \in SUBSET Definitions /\ Outputs \in SUBSET LivePairs
<1>1. prog.entry \in Blocks
  BY ProgramsAssumption DEF TypeOK, Blocks
<1>2. InputDefs \in SUBSET Definitions
  BY <1>1 DEF InputDefs, Definitions, AllKinds
<1>3. Outputs \in SUBSET LivePairs
  BY DEF Outputs, LivePairs, AllKinds
<1> QED BY <1>2, <1>3

LEMMA SuccInBlocks ==
  ASSUME TypeOK, NEW b \in Blocks
  PROVE  Succ(prog, b) \subseteq Blocks
BY ProgramsAssumption DEF TypeOK, Blocks

\* What a visit computes has the type of what it replaces.
LEMMA ComputedTypes ==
  ASSUME TypeOK, NEW b \in Blocks
  PROVE  /\ NewFrIn(b) \in SUBSET Blocks /\ NewFrOut(b) \in SUBSET Blocks
         /\ NewDefsIn(b) \in SUBSET Definitions
         /\ DefsThrough(b, NewDefsIn(b)) \in SUBSET Definitions
         /\ NewLiveOut(b) \in SUBSET LivePairs
         /\ LiveThrough(b, NewLiveOut(b)) \in SUBSET LivePairs
<1>1. Preds(prog, b) \subseteq Blocks
  BY DEF Preds, Blocks
<1>2. NewFrIn(b) \in SUBSET Blocks
  BY <1>1 DEF NewFrIn, TypeOK
<1>3. NewFrOut(b) \in SUBSET Blocks
  BY <1>2 DEF NewFrOut, TypeOK
<1>4. NewDefsIn(b) \in SUBSET Definitions
  BY <1>1, InputTypes DEF NewDefsIn, DefsInFrom, TypeOK
<1>5. DefsThrough(b, NewDefsIn(b)) \in SUBSET Definitions
  BY <1>4, BlockTypes DEF DefsThrough
<1>6. NewLiveOut(b) \in SUBSET LivePairs
  BY SuccInBlocks, InputTypes DEF NewLiveOut, LiveOutFrom, TypeOK
<1>7. Arguments(b) \in SUBSET LivePairs
  BY DEF Arguments, TypeOK, LivePairs, Definitions
<1>8. LiveThrough(b, NewLiveOut(b)) \in SUBSET LivePairs
  BY <1>6, <1>7, BlockTypes DEF LiveThrough
<1> QED BY <1>2, <1>3, <1>4, <1>5, <1>6, <1>8

\* The right-hand sides are monotone.
LEMMA DefsMonotone ==
  ASSUME NEW b, NEW D, NEW E, D \subseteq E
  PROVE  DefsThrough(b, D) \subseteq DefsThrough(b, E)
BY DEF DefsThrough

LEMMA LiveMonotone ==
  ASSUME NEW b, NEW L, NEW K, L \subseteq K
  PROVE  LiveThrough(b, L) \subseteq LiveThrough(b, K)
BY DEF LiveThrough

LEMMA InFromMonotone ==
  ASSUME TypeOK, NEW b \in Blocks, NEW m, NEW n, \A c \in Blocks : m[c] \subseteq n[c]
  PROVE  /\ DefsInFrom(b, m) \subseteq DefsInFrom(b, n)
         /\ LiveOutFrom(b, m) \subseteq LiveOutFrom(b, n)
<1>1. Preds(prog, b) \subseteq Blocks
  BY DEF Preds, Blocks
<1>2. DefsInFrom(b, m) \subseteq DefsInFrom(b, n)
  BY <1>1 DEF DefsInFrom
<1>3. LiveOutFrom(b, m) \subseteq LiveOutFrom(b, n)
  BY SuccInBlocks DEF LiveOutFrom
<1> QED BY <1>2, <1>3
-----------------------------------------------------------------------------
\* What the program alone determines does not change while it does not.
LEMMA SameBlock ==
  ASSUME prog' = prog, NEW CONSTANT b
  PROVE  /\ Blocks' = Blocks
         /\ GenKinds(b)' = GenKinds(b) /\ UseKinds(b)' = UseKinds(b)
         /\ Gen(b)' = Gen(b) /\ Use(b)' = Use(b)
         /\ WritesAboveR(b)' = WritesAboveR(b)
<1>1. Positions(b)' = Positions(b)
  BY DEF Positions
<1>2. \A i : Writes(b, i)' = Writes(b, i) /\ Reads(b, i)' = Reads(b, i)
  BY DEF Writes, Reads
<1>3. GenKinds(b)' = GenKinds(b)
  BY <1>1, <1>2 DEF GenKinds
<1>4. LastWrites(b)' = LastWrites(b)
  BY <1>1, <1>2, <1>3 DEF LastWrites
<1>5. \A k : ReadsBeforeDef(b, k)' = ReadsBeforeDef(b, k)
  BY <1>1, <1>2 DEF ReadsBeforeDef
<1>6. UseKinds(b)' = UseKinds(b)
  BY <1>1, <1>2, <1>5 DEF UseKinds
<1>7. LastUses(b)' = LastUses(b)
  BY <1>1, <1>5, <1>6 DEF LastUses
<1>8. Gen(b)' = Gen(b) /\ Use(b)' = Use(b)
  BY <1>4, <1>7 DEF Gen, Use
<1> QED BY <1>3, <1>6, <1>8 DEF WritesAboveR, Blocks

LEMMA SameProgram ==
  ASSUME TypeOK, prog' = prog
  PROVE  /\ Blocks' = Blocks
         /\ InputDefs' = InputDefs /\ Outputs' = Outputs
         /\ AllKinds' = AllKinds /\ Instructions' = Instructions
         /\ Definitions' = Definitions /\ LivePairs' = LivePairs
<1>1. Blocks' = Blocks
  BY DEF Blocks
<1>2. \A b : GenKinds(b)' = GenKinds(b) /\ UseKinds(b)' = UseKinds(b) /\ Positions(b)' = Positions(b)
  BY SameBlock DEF Positions
<1>3. InputDefs' = InputDefs
  BY <1>1, <1>2 DEF InputDefs
<1>4. Outputs' = Outputs
  BY <1>1, <1>2 DEF Outputs
<1>5. AllKinds' = AllKinds
  BY <1>1, <1>2 DEF AllKinds
<1>6. Instructions' = Instructions
  BY <1>1, <1>2 DEF Instructions
<1> QED BY <1>1, <1>3, <1>4, <1>5, <1>6 DEF Definitions, LivePairs

\* The right-hand sides depend on the program and on the maps they are given.
LEMMA SameEquations ==
  ASSUME TypeOK, prog' = prog, NEW CONSTANT b \in Blocks
  PROVE  /\ NewDefsIn(b)' = DefsInFrom(b, defsOut')
         /\ DefsThrough(b, defsIn[b])' = DefsThrough(b, defsIn'[b])
         /\ NewLiveOut(b)' = LiveOutFrom(b, liveIn')
         /\ defsIn' = defsIn =>
              LiveThrough(b, liveOut[b])' = LiveThrough(b, liveOut'[b])
<1>1. NewDefsIn(b)' = DefsInFrom(b, defsOut')
  BY SameProgram DEF NewDefsIn, DefsInFrom
<1>2. DefsThrough(b, defsIn[b])' = DefsThrough(b, defsIn'[b])
  BY SameBlock DEF DefsThrough, CallKills
<1>3. NewLiveOut(b)' = LiveOutFrom(b, liveIn')
  BY SameProgram DEF NewLiveOut, LiveOutFrom
<1>4. ASSUME defsIn' = defsIn
      PROVE  LiveThrough(b, liveOut[b])' = LiveThrough(b, liveOut'[b])
  <2>1. Arguments(b)' = Arguments(b)
    BY <1>4 DEF Arguments
  <2> QED BY <2>1, SameBlock DEF LiveThrough
<1> QED BY <1>1, <1>2, <1>3, <1>4
-----------------------------------------------------------------------------
\* Every step leaves every set at least as large.
Grown ==
  /\ Grows(frIn) /\ Grows(frOut) /\ Grows(defsIn) /\ Grows(defsOut)
  /\ Grows(liveIn) /\ Grows(liveOut)

\* A visit of pass 2.
LEMMA ReturnsStep ==
  ASSUME IInv, NEW CONSTANT b \in Blocks, VisitReturns(b)
  PROVE  IInv' /\ Grown
<1>. USE DEF IInv
<1>1. /\ prog' = prog /\ pass = "returns" /\ pass' = "returns"
      /\ todo' = todo \ {b}
      /\ UNCHANGED <<defsIn, defsOut, liveIn, liveOut, accessed>>
  BY DEF VisitReturns, Visit
<1>2. /\ frIn' = [frIn EXCEPT ![b] = NewFrIn(b)]
      /\ frOut' = [frOut EXCEPT ![b] = NewFrOut(b)]
      /\ changed' = (changed \/ (NewFrIn(b) # frIn[b] \/ NewFrOut(b) # frOut[b]))
  BY DEF VisitReturns, Visit
<1>3. Blocks' = Blocks
  BY <1>1, SameProgram
<1>4. TypeOK'
  <2>1. /\ frIn' \in [Blocks -> SUBSET Blocks] /\ frOut' \in [Blocks -> SUBSET Blocks]
        /\ changed' \in BOOLEAN
    BY <1>2, ComputedTypes DEF TypeOK
  <2> QED BY <1>1, <2>1, SameProgram DEF TypeOK
<1>5. Grows(frIn) /\ Grows(frOut)
  BY <1>2 DEF Grows, TypeOK, NewFrIn, NewFrOut, Below
<1>6. Grown
  BY <1>1, <1>5 DEF Grown, Grows
<1>7. Below'
  <2> SUFFICES ASSUME NEW CONSTANT c \in Blocks
               PROVE  /\ frOut'[c] \subseteq frIn'[c]
                      /\ (defsIn[c] \subseteq NewDefsIn(c))'
                      /\ (defsOut[c] \subseteq DefsThrough(c, defsIn[c]))'
                      /\ (liveOut[c] \subseteq NewLiveOut(c))'
                      /\ (liveIn[c] \subseteq LiveThrough(c, liveOut[c]))'
    BY <1>3 DEF Below
  <2>1. frOut'[c] \subseteq frIn'[c]
    BY <1>2 DEF TypeOK, NewFrIn, NewFrOut, Below
  <2> QED BY <2>1, <1>1, SameEquations DEF Below, NewDefsIn, NewLiveOut
<1>8. SweepInv'
  <2> SUFFICES ASSUME ~changed', NEW CONSTANT c \in Blocks \ todo'
               PROVE  FrEquation(c)'
    BY <1>1, <1>3 DEF SweepInv
  <2>1. frIn' = frIn /\ frOut' = frOut /\ ~changed
    BY <1>2 DEF TypeOK
  <2>2. FrEquation(c)
    <3>1. CASE c = b
      BY <1>2, <3>1 DEF FrEquation, TypeOK
    <3>2. CASE c # b
      BY <1>1, <2>1, <3>2 DEF SweepInv
    <3> QED BY <3>1, <3>2
  <2> QED BY <2>1, <2>2, <1>1, SameBlock DEF FrEquation, NewFrIn, NewFrOut
<1> QED BY <1>1, <1>3, <1>4, <1>6, <1>7, <1>8 DEF Fixpoint, LiveLast

\* A visit of pass 3.
LEMMA DefsStep ==
  ASSUME IInv, NEW CONSTANT b \in Blocks, VisitDefs(b)
  PROVE  IInv' /\ Grown
<1>. USE DEF IInv
<1>. DEFINE in == NewDefsIn(b)
            out == DefsThrough(b, in)
<1>1. /\ prog' = prog /\ pass = "defs" /\ pass' = "defs"
      /\ todo' = todo \ {b}
      /\ UNCHANGED <<frIn, frOut, liveIn, liveOut, accessed>>
  BY DEF VisitDefs, Visit
<1>2. /\ defsIn' = [defsIn EXCEPT ![b] = in]
      /\ defsOut' = [defsOut EXCEPT ![b] = out]
      /\ changed' = (changed \/ (in # defsIn[b] \/ out # defsOut[b]))
  BY DEF VisitDefs, Visit
<1>3. Blocks' = Blocks
  BY <1>1, SameProgram
<1>4. TypeOK'
  <2>1. /\ defsIn' \in [Blocks -> SUBSET Definitions]
        /\ defsOut' \in [Blocks -> SUBSET Definitions]
        /\ changed' \in BOOLEAN
    BY <1>2, ComputedTypes DEF TypeOK
  <2> QED BY <1>1, <2>1, SameProgram DEF TypeOK
<1>5. /\ \A c \in Blocks : defsIn[c] \subseteq defsIn'[c]
      /\ \A c \in Blocks : defsOut[c] \subseteq defsOut'[c]
  <2>1. defsIn[b] \subseteq in
    BY DEF Below
  <2>2. defsOut[b] \subseteq out
    BY <2>1, DefsMonotone DEF Below
  <2> QED BY <1>2, <2>1, <2>2 DEF TypeOK
<1>6. Grown
  BY <1>1, <1>5 DEF Grown, Grows
<1>7. \A c \in Blocks : NewDefsIn(c) \subseteq NewDefsIn(c)'
  BY <1>1, <1>5, InFromMonotone, SameEquations DEF NewDefsIn
<1>8. Below'
  <2> SUFFICES ASSUME NEW CONSTANT c \in Blocks
               PROVE  /\ frOut'[c] \subseteq frIn'[c]
                      /\ (defsIn[c] \subseteq NewDefsIn(c))'
                      /\ (defsOut[c] \subseteq DefsThrough(c, defsIn[c]))'
                      /\ (liveOut[c] \subseteq NewLiveOut(c))'
                      /\ (liveIn[c] \subseteq LiveThrough(c, liveOut[c]))'
    BY <1>3 DEF Below
  <2>1. defsIn'[c] \subseteq NewDefsIn(c)'
    BY <1>2, <1>7 DEF Below, TypeOK
  <2>2. defsOut'[c] \subseteq DefsThrough(c, defsIn[c])'
    <3>1. defsOut'[c] \subseteq DefsThrough(c, defsIn'[c])
      BY <1>2, <1>5, DefsMonotone DEF Below, TypeOK
    <3> QED BY <3>1, <1>1, SameEquations
  <2>3. liveOut'[c] = {} /\ liveIn'[c] = {}
    BY <1>1 DEF LiveLast
  <2> QED BY <2>1, <2>2, <2>3, <1>1 DEF Below
<1>9. SweepInv'
  <2> SUFFICES ASSUME ~changed', NEW CONSTANT c \in Blocks \ todo'
               PROVE  DefsEquation(c)'
    BY <1>1, <1>3 DEF SweepInv
  <2>1. defsIn' = defsIn /\ defsOut' = defsOut /\ ~changed
    BY <1>2 DEF TypeOK
  <2>2. DefsEquation(c)
    <3>1. CASE c = b
      BY <1>2, <2>1, <3>1 DEF DefsEquation, TypeOK
    <3>2. CASE c # b
      BY <1>1, <2>1, <3>2 DEF SweepInv
    <3> QED BY <3>1, <3>2
  <2> QED BY <2>1, <2>2, <1>1, SameEquations DEF DefsEquation, NewDefsIn
<1>10. Fixpoint'
  <2> SUFFICES ASSUME NEW CONSTANT c \in Blocks
               PROVE  FrEquation(c)'
    BY <1>1, <1>3 DEF Fixpoint
  <2> QED BY <1>1, SameBlock DEF Fixpoint, FrEquation, NewFrIn, NewFrOut
<1> QED BY <1>1, <1>3, <1>4, <1>6, <1>8, <1>9, <1>10 DEF LiveLast

\* A visit of pass 4.
LEMMA LiveStep ==
  ASSUME IInv, NEW CONSTANT b \in Blocks, VisitLive(b)
  PROVE  IInv' /\ Grown
<1>. USE DEF IInv
<1>. DEFINE out == NewLiveOut(b)
            in == LiveThrough(b, out)
<1>1. /\ prog' = prog /\ pass = "live" /\ pass' = "live"
      /\ todo' = todo \ {b}
      /\ UNCHANGED <<frIn, frOut, defsIn, defsOut, accessed>>
  BY DEF VisitLive, Visit
<1>2. /\ liveOut' = [liveOut EXCEPT ![b] = out]
      /\ liveIn' = [liveIn EXCEPT ![b] = in]
      /\ changed' = (changed \/ (out # liveOut[b] \/ in # liveIn[b]))
  BY DEF VisitLive, Visit
<1>3. Blocks' = Blocks
  BY <1>1, SameProgram
<1>4. TypeOK'
  <2>1. /\ liveIn' \in [Blocks -> SUBSET LivePairs]
        /\ liveOut' \in [Blocks -> SUBSET LivePairs]
        /\ changed' \in BOOLEAN
    BY <1>2, ComputedTypes DEF TypeOK
  <2> QED BY <1>1, <2>1, SameProgram DEF TypeOK
<1>5. /\ \A c \in Blocks : liveOut[c] \subseteq liveOut'[c]
      /\ \A c \in Blocks : liveIn[c] \subseteq liveIn'[c]
  <2>1. liveOut[b] \subseteq out
    BY DEF Below
  <2>2. liveIn[b] \subseteq in
    BY <2>1, LiveMonotone DEF Below
  <2> QED BY <1>2, <2>1, <2>2 DEF TypeOK
<1>6. Grown
  BY <1>1, <1>5 DEF Grown, Grows
<1>7. \A c \in Blocks : NewLiveOut(c) \subseteq NewLiveOut(c)'
  BY <1>1, <1>5, InFromMonotone, SameEquations DEF NewLiveOut
<1>8. Below'
  <2> SUFFICES ASSUME NEW CONSTANT c \in Blocks
               PROVE  /\ frOut'[c] \subseteq frIn'[c]
                      /\ (defsIn[c] \subseteq NewDefsIn(c))'
                      /\ (defsOut[c] \subseteq DefsThrough(c, defsIn[c]))'
                      /\ (liveOut[c] \subseteq NewLiveOut(c))'
                      /\ (liveIn[c] \subseteq LiveThrough(c, liveOut[c]))'
    BY <1>3 DEF Below
  <2>1. liveOut'[c] \subseteq NewLiveOut(c)'
    BY <1>2, <1>7 DEF Below, TypeOK
  <2>2. liveIn'[c] \subseteq LiveThrough(c, liveOut[c])'
    <3>1. liveIn'[c] \subseteq LiveThrough(c, liveOut'[c])
      BY <1>2, <1>5, LiveMonotone DEF Below, TypeOK
    <3> QED BY <3>1, <1>1, SameEquations
  <2> QED BY <2>1, <2>2, <1>1, SameEquations DEF Below, NewDefsIn
<1>9. SweepInv'
  <2> SUFFICES ASSUME ~changed', NEW CONSTANT c \in Blocks \ todo'
               PROVE  LiveEquation(c)'
    BY <1>1, <1>3 DEF SweepInv
  <2>1. liveIn' = liveIn /\ liveOut' = liveOut /\ ~changed
    BY <1>2 DEF TypeOK
  <2>2. LiveEquation(c)
    <3>1. CASE c = b
      BY <1>2, <2>1, <3>1 DEF LiveEquation, TypeOK
    <3>2. CASE c # b
      BY <1>1, <2>1, <3>2 DEF SweepInv
    <3> QED BY <3>1, <3>2
  <2> QED BY <2>1, <2>2, <1>1, SameEquations DEF LiveEquation, NewLiveOut
<1>10. Fixpoint'
  <2> SUFFICES ASSUME NEW CONSTANT c \in Blocks
               PROVE  FrEquation(c)' /\ DefsEquation(c)'
    BY <1>1, <1>3 DEF Fixpoint
  <2>1. FrEquation(c)'
    <3>1. FrEquation(c)
      BY <1>1 DEF Fixpoint
    <3> QED BY <3>1, <1>1, SameBlock DEF FrEquation, NewFrIn, NewFrOut
  <2>2. DefsEquation(c)'
    BY <1>1, SameEquations DEF Fixpoint, DefsEquation, NewDefsIn
  <2> QED BY <2>1, <2>2
<1> QED BY <1>1, <1>4, <1>6, <1>8, <1>9, <1>10 DEF LiveLast

\* Nothing but `accessed` and the position of the sweep changes: the facts about
\* the sets of the three passes stay true.
LEMMA KeepEquations ==
  ASSUME IInv, UNCHANGED <<prog, frIn, frOut, defsIn, defsOut, liveIn, liveOut>>
  PROVE  /\ Below' /\ Grown /\ Blocks' = Blocks
         /\ \A c \in Blocks : /\ FrEquation(c)' = FrEquation(c)
                              /\ DefsEquation(c)' = DefsEquation(c)
                              /\ LiveEquation(c)' = LiveEquation(c)
<1>1. Blocks' = Blocks /\ TypeOK
  BY SameProgram DEF IInv
<1>2. \A c \in Blocks : /\ NewDefsIn(c)' = NewDefsIn(c)
                        /\ DefsThrough(c, defsIn[c])' = DefsThrough(c, defsIn[c])
                        /\ NewLiveOut(c)' = NewLiveOut(c)
                        /\ LiveThrough(c, liveOut[c])' = LiveThrough(c, liveOut[c])
  BY <1>1, SameEquations DEF NewDefsIn, NewLiveOut
<1>3. Below'
  BY <1>1, <1>2 DEF Below, IInv
<1>4. Grown
  BY DEF Grown, Grows
<1>5. \A c \in Blocks : FrEquation(c)' = FrEquation(c)
  BY <1>1, SameBlock DEF FrEquation, NewFrIn, NewFrOut
<1>6. \A c \in Blocks : DefsEquation(c)' = DefsEquation(c)
  BY <1>2 DEF DefsEquation
<1>7. \A c \in Blocks : LiveEquation(c)' = LiveEquation(c)
  BY <1>2 DEF LiveEquation
<1> QED BY <1>1, <1>3, <1>4, <1>5, <1>6, <1>7

\* A visit of pass 5.
LEMMA CallsStep ==
  ASSUME IInv, NEW CONSTANT b \in Blocks, VisitCalls(b)
  PROVE  IInv' /\ Grown
<1>1. /\ UNCHANGED <<prog, frIn, frOut, defsIn, defsOut, liveIn, liveOut>>
      /\ pass = "calls" /\ pass' = "calls" /\ todo' = todo \ {b}
      /\ changed' = (changed \/ FALSE)
  BY DEF VisitCalls, Visit
<1>2. TypeOK'
  <2>1. MemoryUsages(b) \in SUBSET (AllKinds \X Instructions)
    BY BlockTypes DEF MemoryUsages
  <2>2. accessed' \in [Blocks -> SUBSET (AllKinds \X Instructions)]
    BY <2>1 DEF VisitCalls, IInv, TypeOK
  <2> QED BY <1>1, <2>2, SameProgram DEF IInv, TypeOK
<1>3. Below' /\ Grown /\ Fixpoint'
  BY <1>1, KeepEquations DEF Fixpoint, IInv
<1> QED BY <1>1, <1>2, <1>3 DEF IInv, SweepInv, LiveLast

\* The end of a sweep: the pass is repeated, or its equations hold everywhere.
LEMMA EndStep ==
  ASSUME IInv, EndOfSweep
  PROVE  IInv' /\ Grown
<1>1. /\ UNCHANGED <<prog, frIn, frOut, defsIn, defsOut, liveIn, liveOut, accessed>>
      /\ todo = {} /\ todo' = Blocks /\ changed' = FALSE /\ pass # "done"
      /\ pass' = IF changed THEN pass ELSE Following[pass]
  BY DEF EndOfSweep, sets
<1>2. \/ changed /\ pass' = pass
      \/ ~changed /\ pass = "returns" /\ pass' = "defs"
      \/ ~changed /\ pass = "defs" /\ pass' = "live"
      \/ ~changed /\ pass = "live" /\ pass' = "calls"
      \/ ~changed /\ pass = "calls" /\ pass' = "done"
  BY <1>1 DEF IInv, TypeOK, Following
<1>3. TypeOK'
  BY <1>1, <1>2, SameProgram DEF IInv, TypeOK
<1>4. Below' /\ Grown /\ SweepInv'
  BY <1>1, KeepEquations DEF SweepInv
<1>5. Fixpoint
  BY DEF IInv
<1>6. /\ ~changed /\ pass = "returns" => \A c \in Blocks : FrEquation(c)
      /\ ~changed /\ pass = "defs" => \A c \in Blocks : DefsEquation(c)
      /\ ~changed /\ pass = "live" => \A c \in Blocks : LiveEquation(c)
  BY <1>1 DEF IInv, SweepInv
<1>7. Fixpoint'
  BY <1>1, <1>2, <1>5, <1>6, KeepEquations DEF Fixpoint
<1>8. LiveLast'
  BY <1>1, <1>2, KeepEquations DEF IInv, LiveLast
<1> QED BY <1>3, <1>4, <1>7, <1>8 DEF IInv

LEMMA StutterStep ==
  ASSUME IInv, UNCHANGED vars
  PROVE  IInv' /\ Grown
<1>1. UNCHANGED <<prog, pass, todo, changed, frIn, frOut, defsIn, defsOut, liveIn, liveOut, accessed>>
  BY DEF vars, sets
<1>2. TypeOK'
  BY <1>1, SameProgram DEF IInv, TypeOK
<1>3. Below' /\ Grown /\ SweepInv' /\ Fixpoint'
  BY <1>1, KeepEquations DEF IInv, SweepInv, Fixpoint
<1> QED BY <1>1, <1>2, <1>3, KeepEquations DEF IInv, LiveLast

LEMMA InitIInv == Init => IInv
<1> SUFFICES ASSUME Init PROVE IInv
  OBVIOUS
<1>1. TypeOK
  BY BlockTypes DEF Init, TypeOK, Empty
<1> QED BY <1>1 DEF Init, IInv, Empty, Fixpoint, SweepInv, Below, LiveLast

LEMMA NextIInv == IInv /\ [Next]_vars => IInv' /\ Grown
<1> SUFFICES ASSUME IInv, [Next]_vars PROVE IInv' /\ Grown
  OBVIOUS
<1>1. CASE \E b \in Blocks : VisitReturns(b)
  BY <1>1, ReturnsStep
<1>2. CASE \E b \in Blocks : VisitDefs(b)
  BY <1>2, DefsStep
<1>3. CASE \E b \in Blocks : VisitLive(b)
  BY <1>3, LiveStep
<1>4. CASE \E b \in Blocks : VisitCalls(b)
  BY <1>4, CallsStep
<1>5. CASE EndOfSweep
  BY <1>5, EndStep
<1>6. CASE UNCHANGED vars
  BY <1>6, StutterStep
<1> QED BY <1>1, <1>2, <1>3, <1>4, <1>5, <1>6 DEF Next, Finished
-----------------------------------------------------------------------------
\* The result of the analysis keeps its types (data_flow/block.rs:9-53).
THEOREM TypeCorrect == Spec => []TypeOK
<1>1. IInv => TypeOK
  BY DEF IInv
<1> QED BY <1>1, InitIInv, NextIInv, PTL DEF Spec

\* When a pass is over its equations hold at every block and keep holding, in
\* whatever orders its sweeps visited the blocks (analyzer.rs:138-160, 193-242,
\* 294-360).
THEOREM PassesEndInFixpoints == Spec => []Fixpoint
<1>1. IInv => Fixpoint
  BY DEF IInv
<1> QED BY <1>1, InitIInv, NextIInv, PTL DEF Spec

\* No visit ever takes a call, a definition or a live variable out of a set.
THEOREM SetsOnlyGrow == Spec => OnlyGrow
<1>1. IInv /\ [Next]_vars =>
        [Grows(frIn) /\ Grows(frOut) /\ Grows(defsIn) /\ Grows(defsOut)
           /\ Grows(liveIn) /\ Grows(liveOut)]_vars
  BY NextIInv DEF Grown
<1> QED BY <1>1, InitIInv, NextIInv, PTL DEF Spec, OnlyGrow
-----------------------------------------------------------------------------
(* The least solution.  A solution is a pair of maps closed under the      *)
(* equations of a pass; the sets never exceed any solution.                *)

FrSolution(in, out) ==
  \A b \in Blocks :
    /\ CallsReturningTo(prog, b) \subseteq in[b]
    /\ CallsReturningTo(prog, b) = {} => \A p \in Preds(prog, b) : out[p] \subseteq in[b]
    /\ ~WritesAboveR(b) => in[b] \subseteq out[b]
DefsSolution(in, out) ==
  \A b \in Blocks : /\ DefsInFrom(b, out) \subseteq in[b]
                    /\ DefsThrough(b, in[b]) \subseteq out[b]
LiveSolution(in, out) ==
  \A b \in Blocks : /\ LiveOutFrom(b, in) \subseteq out[b]
                    /\ LiveThrough(b, out[b]) \subseteq in[b]

Within(m, n) == \A b \in Blocks : m[b] \subseteq n[b]

FrBelowSolutions ==
  \A in, out : FrSolution(in, out) => Within(frIn, in) /\ Within(frOut, out)
DefsBelowSolutions ==
  \A in, out : DefsSolution(in, out) => Within(defsIn, in) /\ Within(defsOut, out)
LiveBelowSolutions ==
  \A in, out : LiveSolution(in, out) => Within(liveIn, in) /\ Within(liveOut, out)
BelowSolutions == FrBelowSolutions /\ DefsBelowSolutions /\ LiveBelowSolutions

LEMMA SameSolutions ==
  ASSUME TypeOK, prog' = prog, NEW CONSTANT in, NEW CONSTANT out
  PROVE  /\ FrSolution(in, out)' = FrSolution(in, out)
         /\ DefsSolution(in, out)' = DefsSolution(in, out)
         /\ defsIn' = defsIn => LiveSolution(in, out)' = LiveSolution(in, out)
<1>1. Blocks' = Blocks
  BY SameProgram
<1>2. FrSolution(in, out)' = FrSolution(in, out)
  BY <1>1, SameBlock DEF FrSolution
<1>3. \A b \in Blocks : DefsInFrom(b, out)' = DefsInFrom(b, out)
  BY SameProgram DEF DefsInFrom
<1>4. \A b \in Blocks : DefsThrough(b, in[b])' = DefsThrough(b, in[b])
  BY SameBlock DEF DefsThrough, CallKills
<1>5. DefsSolution(in, out)' = DefsSolution(in, out)
  BY <1>1, <1>3, <1>4 DEF DefsSolution
<1>6. ASSUME defsIn' = defsIn
      PROVE  LiveSolution(in, out)' = LiveSolution(in, out)
  <2>1. \A b \in Blocks : LiveOutFrom(b, in)' = LiveOutFrom(b, in)
    BY SameProgram DEF LiveOutFrom
  <2>2. \A b \in Blocks : Arguments(b)' = Arguments(b)
    BY <1>6 DEF Arguments
  <2>3. \A b \in Blocks : LiveThrough(b, out[b])' = LiveThrough(b, out[b])
    BY <2>2, SameBlock DEF LiveThrough
  <2> QED BY <1>1, <2>1, <2>3 DEF LiveSolution
<1> QED BY <1>2, <1>5, <1>6

LEMMA FrStaysBelow ==
  ASSUME IInv, FrBelowSolutions, [Next]_vars
  PROVE  FrBelowSolutions'
<1> SUFFICES ASSUME NEW CONSTANT in, NEW CONSTANT out, FrSolution(in, out)'
             PROVE  (Within(frIn, in) /\ Within(frOut, out))'
  BY DEF FrBelowSolutions
<1>1. prog' = prog /\ TypeOK /\ Blocks' = Blocks
  BY SameProgram DEF Next, VisitReturns, VisitDefs, VisitLive, VisitCalls, Visit,
     EndOfSweep, Finished, vars, IInv
<1>2. FrSolution(in, out) /\ Within(frIn, in) /\ Within(frOut, out)
  BY <1>1, SameSolutions DEF FrBelowSolutions
<1>3. CASE \E b \in Blocks : VisitReturns(b)
  <2> PICK b \in Blocks : VisitReturns(b)
    BY <1>3
  <2>1. NewFrIn(b) \subseteq in[b]
    BY <1>2 DEF NewFrIn, FrSolution, Within, Preds, Blocks
  <2>2. NewFrOut(b) \subseteq out[b]
    BY <1>2, <2>1 DEF NewFrOut, FrSolution, Within
  <2> QED BY <1>1, <1>2, <2>1, <2>2 DEF VisitReturns, Within, TypeOK
<1>4. CASE UNCHANGED <<frIn, frOut>>
  BY <1>1, <1>2, <1>4 DEF Within
<1> QED BY <1>3, <1>4 DEF Next, VisitDefs, VisitLive, VisitCalls, EndOfSweep,
     Finished, vars, sets

LEMMA DefsStaysBelow ==
  ASSUME IInv, DefsBelowSolutions, [Next]_vars
  PROVE  DefsBelowSolutions'
<1> SUFFICES ASSUME NEW CONSTANT in, NEW CONSTANT out, DefsSolution(in, out)'
             PROVE  (Within(defsIn, in) /\ Within(defsOut, out))'
  BY DEF DefsBelowSolutions
<1>1. prog' = prog /\ TypeOK /\ Blocks' = Blocks
  BY SameProgram DEF Next, VisitReturns, VisitDefs, VisitLive, VisitCalls, Visit,
     EndOfSweep, Finished, vars, IInv
<1>2. DefsSolution(in, out) /\ Within(defsIn, in) /\ Within(defsOut, out)
  BY <1>1, SameSolutions DEF DefsBelowSolutions
<1>3. CASE \E b \in Blocks : VisitDefs(b)
  <2> PICK b \in Blocks : VisitDefs(b)
    BY <1>3
  <2>1. NewDefsIn(b) \subseteq in[b]
    BY <1>1, <1>2, InFromMonotone DEF NewDefsIn, DefsSolution, Within
  <2>2. DefsThrough(b, NewDefsIn(b)) \subseteq out[b]
    BY <1>2, <2>1, DefsMonotone DEF DefsSolution
  <2> QED BY <1>1, <1>2, <2>1, <2>2 DEF VisitDefs, Within, TypeOK
<1>4. CASE UNCHANGED <<defsIn, defsOut>>
  BY <1>1, <1>2, <1>4 DEF Within
<1> QED BY <1>3, <1>4 DEF Next, VisitReturns, VisitLive, VisitCalls, EndOfSweep,
     Finished, vars, sets

LEMMA LiveStaysBelow ==
  ASSUME IInv, LiveBelowSolutions, [Next]_vars
  PROVE  LiveBelowSolutions'
<1> SUFFICES ASSUME NEW CONSTANT in, NEW CONSTANT out, LiveSolution(in, out)'
             PROVE  (Within(liveIn, in) /\ Within(liveOut, out))'
  BY DEF LiveBelowSolutions
<1>1. prog' = prog /\ TypeOK /\ Blocks' = Blocks
  BY SameProgram DEF Next, VisitReturns, VisitDefs, VisitLive, VisitCalls, Visit,
     EndOfSweep, Finished, vars, IInv
<1>2. CASE \E b \in Blocks : VisitDefs(b)
  <2>1. pass' \in {"returns", "defs"} /\ IInv'
    BY <1>2, NextIInv DEF VisitDefs, Visit
  <2> QED BY <2>1 DEF IInv, LiveLast, Within
<1>3. CASE defsIn' = defsIn
  <2>1. LiveSolution(in, out) /\ Within(liveIn, in) /\ Within(liveOut, out)
    BY <1>1, <1>3, SameSolutions DEF LiveBelowSolutions
  <2>2. CASE \E b \in Blocks : VisitLive(b)
    <3> PICK b \in Blocks : VisitLive(b)
      BY <2>2
    <3>1. NewLiveOut(b) \subseteq out[b]
      BY <1>1, <2>1, InFromMonotone DEF NewLiveOut, LiveSolution, Within
    <3>2. LiveThrough(b, NewLiveOut(b)) \subseteq in[b]
      BY <2>1, <3>1, LiveMonotone DEF LiveSolution
    <3> QED BY <1>1, <2>1, <3>1, <3>2 DEF VisitLive, Within, TypeOK
  <2>3. CASE UNCHANGED <<liveIn, liveOut>>
    BY <1>1, <2>1, <2>3 DEF Within
  <2> QED BY <2>2, <2>3, <1>3 DEF Next, VisitReturns, VisitDefs, VisitCalls, EndOfSweep,
     Finished, vars, sets
<1> QED BY <1>2, <1>3 DEF Next, VisitReturns, VisitLive, VisitCalls, EndOfSweep,
     Finished, vars, sets

\* The results of passes 2 to 4 lie within every solution of their equations.
\* With PassesEndInFixpoints they are the least solutions: what the analysis
\* reports does not depend on the order in which hash maps list the blocks.
THEOREM NothingSpurious == Spec => []BelowSolutions
<1>1. Init => BelowSolutions
  BY DEF Init, Empty, BelowSolutions, FrBelowSolutions, DefsBelowSolutions,
     LiveBelowSolutions, FrSolution, Within
<1>2. IInv /\ BelowSolutions /\ [Next]_vars => BelowSolutions'
  BY FrStaysBelow, DefsStaysBelow, LiveStaysBelow DEF BelowSolutions
<1> QED BY <1>1, <1>2, InitIInv, NextIInv, PTL DEF Spec

\* Every finished pass has solved its equations, in every order of the blocks.
THEOREM PassesAlwaysSound == Spec => []PassesSound
<1>1. TypeOK /\ Fixpoint => PassesSound
  BY DEF PassesSound
<1> QED BY <1>1, TypeCorrect, PassesEndInFixpoints, PTL
-----------------------------------------------------------------------------
(* Paths of the function.                                                  *)

LEMMA FiniteBlocks ==
  ASSUME TypeOK
  PROVE  IsFiniteSet(Blocks)
BY FunctionsAreFinite DEF TypeOK, Blocks

\* Onward is the least set that holds S and is closed under the edges out of Through.
LEMMA OnwardHolds ==
  ASSUME TypeOK, NEW S, NEW Through \in SUBSET Blocks
  PROVE  /\ S \subseteq Onward(prog, S, Through)
         /\ \A x \in Onward(prog, S, Through) \cap Through :
              Succ(prog, x) \subseteq Onward(prog, S, Through)
<1> DEFINE next == [b \in Through |-> Succ(prog, b)]
<1>1. IsFiniteSet(DOMAIN next)
  BY FiniteBlocks, FS_Subset
<1>2. DOMAIN next = Through /\ \A x \in Through : next[x] = Succ(prog, x)
  OBVIOUS
<1>3. Onward(prog, S, Through) = Reach(next, S)
  BY DEF Onward
<1> HIDE DEF next
<1>4. S \subseteq Reach(next, S) /\ IsClosed(next, Reach(next, S))
  BY <1>1, ReachHolds, ReachClosed
<1> QED BY <1>2, <1>3, <1>4 DEF IsClosed

LEMMA OnwardLeast ==
  ASSUME TypeOK, NEW S, NEW Through \in SUBSET Blocks, NEW C, S \subseteq C,
         \A x \in C \cap Through : Succ(prog, x) \subseteq C
  PROVE  Onward(prog, S, Through) \subseteq C
<1> DEFINE next == [b \in Through |-> Succ(prog, b)]
<1>1. IsFiniteSet(DOMAIN next)
  BY FiniteBlocks, FS_Subset
<1>2. DOMAIN next = Through /\ \A x \in Through : next[x] = Succ(prog, x)
  OBVIOUS
<1>3. Onward(prog, S, Through) = Reach(next, S)
  BY DEF Onward
<1> HIDE DEF next
<1>4. IsClosed(next, C)
  BY <1>2 DEF IsClosed
<1>5. Reach(next, S) \subseteq C
  BY <1>1, <1>4, ReachLeast
<1> QED BY <1>3, <1>5
-----------------------------------------------------------------------------
(* Pass 1: what is written is generated, what is read first is used.       *)

LEMMA GreatestNumber ==
  ASSUME NEW n \in Nat, NEW S \in SUBSET (1 .. n), S # {}
  PROVE  \E m \in S : \A x \in S : x <= m
<1> DEFINE T == {n - x : x \in S}
<1>1. T \subseteq Nat /\ T # {}
  <2>1. \A x \in S : x \in 1 .. n
    OBVIOUS
  <2>2. \A x \in S : n - x \in Nat
    BY <2>1
  <2> QED BY <2>2
<1>2. PICK t \in T : \A y \in T : t <= y
  <2> HIDE DEF T
  <2> QED BY <1>1, LeastNumber
<1>3. PICK m \in S : t = n - m
  BY <1>2
<1>4. \A x \in S : n - x \in T
  OBVIOUS
<1>5. \A x \in S : x <= m
  BY <1>2, <1>3, <1>4
<1> QED BY <1>5

LEMMA PositionsAreNumbers ==
  ASSUME TypeOK, NEW b \in Blocks
  PROVE  Len(prog.code[b]) \in Nat
BY FunctionsAreFinite DEF TypeOK, Blocks

LEMMA GenHasKind ==
  ASSUME TypeOK, NEW b \in Blocks, NEW k \in GenKinds(b)
  PROVE  \E d \in Gen(b) : d.kind = k
<1> DEFINE S == {i \in Positions(b) : k \in Writes(b, i)}
<1>1. S \in SUBSET (1 .. Len(prog.code[b])) /\ S # {}
  BY DEF GenKinds, Positions
<1>2. PICK m \in S : \A x \in S : x <= m
  <2> HIDE DEF S
  <2> QED BY <1>1, PositionsAreNumbers, GreatestNumber
<1>3. <<k, m>> \in LastWrites(b)
  BY <1>2 DEF LastWrites
<1>4. PICK w \in LastWrites(b) : w[1] = k
  BY <1>3
<1> DEFINE d == [source |-> <<b, w[2]>>, kind |-> w[1], block |-> b]
<1>5. d \in Gen(b) /\ d.kind = k
  BY <1>4 DEF Gen
<1> QED BY <1>5

LEMMA GenIsOfBlock ==
  ASSUME NEW b, NEW d \in Gen(b)
  PROVE  d.block = b /\ d.kind \in GenKinds(b)
BY DEF Gen, LastWrites

LEMMA UseHasKind ==
  ASSUME TypeOK, NEW b \in Blocks
  PROVE  Kinds(Use(b)) = UseKinds(b)
<1>1. \A u \in Use(b) : u[1] \in UseKinds(b)
  BY DEF Use, LastUses
<1>2. ASSUME NEW k \in UseKinds(b) PROVE \E u \in Use(b) : u[1] = k
  <2>1. ReadsBeforeDef(b, k) \in SUBSET (1 .. Len(prog.code[b])) /\ ReadsBeforeDef(b, k) # {}
    BY DEF UseKinds, ReadsBeforeDef, Positions
  <2>2. PICK m \in ReadsBeforeDef(b, k) : \A x \in ReadsBeforeDef(b, k) : x <= m
    BY <2>1, PositionsAreNumbers, GreatestNumber
  <2>3. <<k, m>> \in LastUses(b)
    <3>1. m \in Positions(b)
      BY <2>2 DEF ReadsBeforeDef
    <3> QED BY <2>2, <3>1 DEF LastUses
  <2>4. <<k, <<b, m>>>> \in Use(b)
    BY <2>3 DEF Use
  <2> QED BY <2>4
<1> QED BY <1>1, <1>2 DEF Kinds
-----------------------------------------------------------------------------
(* Pass 3 computes the definitions that reach a block.                     *)

\* The definitions that reach each block solve the equations of the pass.
LEMMA ReachingSolves ==
  ASSUME TypeOK
  PROVE  LET in == [b \in Blocks |-> Reaching(b)]
         IN  DefsSolution(in, [b \in Blocks |-> DefsThrough(b, in[b])])
<1> DEFINE in == [b \in Blocks |-> Reaching(b)]
           out == [b \in Blocks |-> DefsThrough(b, in[b])]
<1>1. \A k : Passing(k) \in SUBSET Blocks
  BY DEF Passing
<1>2. ASSUME NEW b \in Blocks, NEW d \in InputDefs, b = prog.entry
      PROVE  d \in Reaching(b)
  <2>1. b \in Onward(prog, {prog.entry}, Passing(d.kind))
    BY <1>1, <1>2, OnwardHolds
  <2> QED BY <2>1 DEF Reaching
<1>3. ASSUME NEW b \in Blocks, NEW p \in Preds(prog, b), NEW d \in Gen(p), ~CallKills(p, d.kind)
      PROVE  d \in Reaching(b)
  <2>1. p \in Blocks /\ b \in Succ(prog, p) /\ d.block = p
    BY GenIsOfBlock DEF Preds, Blocks
  <2>2. b \in Onward(prog, Succ(prog, d.block), Passing(d.kind))
    BY <1>1, <2>1, OnwardHolds
  <2> QED BY <1>3, <2>1, <2>2 DEF Reaching
<1>4. ASSUME NEW b \in Blocks, NEW p \in Preds(prog, b), NEW d \in Reaching(p),
             d.kind \notin GenKinds(p), ~CallKills(p, d.kind)
      PROVE  d \in Reaching(b)
  <2>1. p \in Passing(d.kind) /\ b \in Succ(prog, p)
    BY <1>4 DEF Passing, Preds, Blocks
  <2>2. \A S : p \in Onward(prog, S, Passing(d.kind)) => b \in Onward(prog, S, Passing(d.kind))
    BY <1>1, <2>1, OnwardHolds
  <2> QED BY <2>2 DEF Reaching
<1>5. ASSUME NEW b \in Blocks, NEW d \in DefsInFrom(b, out) PROVE d \in in[b]
  <2>1. CASE b = prog.entry /\ d \in InputDefs
    BY <1>2, <2>1
  <2>2. CASE \E p \in Preds(prog, b) : d \in out[p]
    <3>1. PICK p \in Preds(prog, b) : d \in out[p]
      BY <2>2
    <3>2. p \in Blocks
      BY DEF Preds, Blocks
    <3>3. d \in DefsThrough(p, Reaching(p))
      BY <3>1, <3>2
    <3>4. ~CallKills(p, d.kind) /\ (d \in Gen(p) \/ (d \in Reaching(p) /\ d.kind \notin GenKinds(p)))
      BY <3>3 DEF DefsThrough
    <3> QED BY <1>3, <1>4, <3>4
  <2> QED BY <2>1, <2>2 DEF DefsInFrom
<1>6. \A b \in Blocks : DefsThrough(b, in[b]) \subseteq out[b]
  OBVIOUS
<1> HIDE DEF in, out
<1>7. DefsSolution(in, out)
  BY <1>5, <1>6 DEF DefsSolution
<1> QED BY <1>7 DEF in, out

LEMMA DefsAreReaching ==
  ASSUME TypeOK, \A b \in Blocks : DefsEquation(b), DefsBelowSolutions
  PROVE  \A b \in Blocks : defsIn[b] = Reaching(b)
<1>1. \A k : Passing(k) \in SUBSET Blocks
  BY DEF Passing
<1>2. \A b \in Blocks : defsIn[b] \subseteq Reaching(b)
  <2> DEFINE in == [b \in Blocks |-> Reaching(b)]
             out == [b \in Blocks |-> DefsThrough(b, in[b])]
  <2>1. DefsSolution(in, out)
    BY ReachingSolves
  <2>2. \A b \in Blocks : in[b] = Reaching(b)
    OBVIOUS
  <2> HIDE DEF in, out
  <2>3. Within(defsIn, in)
    BY <2>1 DEF DefsBelowSolutions
  <2> QED BY <2>2, <2>3 DEF Within
<1>3. ASSUME NEW b \in Blocks, NEW s \in Succ(prog, b), NEW d \in DefsThrough(b, defsIn[b])
      PROVE  d \in defsIn[s]
  <2>1. s \in Blocks /\ b \in Preds(prog, s)
    BY SuccInBlocks DEF Preds, Blocks
  <2>2. d \in defsOut[b] /\ defsIn[s] = NewDefsIn(s)
    BY <2>1 DEF DefsEquation
  <2> QED BY <2>1, <2>2 DEF NewDefsIn, DefsInFrom
<1>4. ASSUME NEW d, NEW S, S \subseteq {x \in Blocks : d \in defsIn[x]}
      PROVE  Onward(prog, S, Passing(d.kind)) \subseteq {x \in Blocks : d \in defsIn[x]}
  <2> DEFINE C == {x \in Blocks : d \in defsIn[x]}
  <2>1. ASSUME NEW x \in C \cap Passing(d.kind), NEW s \in Succ(prog, x) PROVE s \in C
    <3>1. d \in DefsThrough(x, defsIn[x])
      BY DEF Passing, DefsThrough
    <3>2. s \in Blocks
      BY SuccInBlocks
    <3> QED BY <1>3, <3>1, <3>2
  <2> HIDE DEF C
  <2>2. \A x \in C \cap Passing(d.kind) : Succ(prog, x) \subseteq C
    BY <2>1
  <2>3. S \subseteq C
    BY <1>4 DEF C
  <2>4. Onward(prog, S, Passing(d.kind)) \subseteq C
    BY <1>1, <2>2, <2>3, OnwardLeast
  <2> QED BY <2>4 DEF C
<1>5. ASSUME NEW b \in Blocks, NEW d \in InputDefs,
             b \in Onward(prog, {prog.entry}, Passing(d.kind))
      PROVE  d \in defsIn[b]
  <2>1. prog.entry \in Blocks
    BY ProgramsAssumption DEF TypeOK, Blocks
  <2>2. d \in defsIn[prog.entry]
    BY <2>1 DEF DefsEquation, NewDefsIn, DefsInFrom
  <2>3. {prog.entry} \subseteq {x \in Blocks : d \in defsIn[x]}
    BY <2>1, <2>2
  <2> QED BY <1>4, <1>5, <2>3
<1>6. ASSUME NEW b \in Blocks, NEW g \in Blocks, NEW d \in Gen(g), ~CallKills(d.block, d.kind),
             b \in Onward(prog, Succ(prog, d.block), Passing(d.kind))
      PROVE  d \in defsIn[b]
  <2>1. d.block = g
    BY GenIsOfBlock
  <2>2. d \in DefsThrough(g, defsIn[g])
    BY <1>6, <2>1 DEF DefsThrough
  <2>3. Succ(prog, g) \subseteq {x \in Blocks : d \in defsIn[x]}
    BY <1>3, <2>2, SuccInBlocks
  <2> QED BY <1>4, <1>6, <2>1, <2>3
<1>7. \A b \in Blocks : Reaching(b) \subseteq defsIn[b]
  BY <1>5, <1>6 DEF Reaching
<1> QED BY <1>2, <1>7
-----------------------------------------------------------------------------
(* Pass 4 computes the pairs that are live at the start of a block.        *)

LEMMA OriginsAre ==
  ASSUME NEW c, NEW l
  PROVE  [at |-> c, pair |-> l] \in Origins <=>
           /\ c \in Blocks
           /\ l \in LiveThrough(c, IF c \in prog.ret THEN Outputs ELSE {})
<1> DEFINE o == [at |-> c, pair |-> l]
           Here(x) == Use(x) \cup Expected(x)
<1>1. o.at = c /\ o.pair = l
  OBVIOUS
<1>2. \A x : o \in [at : {x}, pair : Here(x)] <=> c = x /\ l \in Here(x)
  BY <1>1
<1>3. o \in Origins <=> \E x \in Blocks : o \in [at : {x}, pair : Here(x)]
  BY DEF Origins
<1>4. l \in Here(c) <=> l \in LiveThrough(c, IF c \in prog.ret THEN Outputs ELSE {})
  BY DEF LiveThrough, Expected
<1> HIDE DEF o, Here
<1> QED BY <1>2, <1>3, <1>4 DEF o

LEMMA OriginsAreRecords ==
  ASSUME NEW o \in Origins
  PROVE  o = [at |-> o.at, pair |-> o.pair]
BY DEF Origins

\* A pair is live at b if it comes from a block that b reaches without defining it.
LEMMA LiveAtIs ==
  ASSUME NEW b, NEW l
  PROVE  l \in LiveAt(b) <=>
           \E c : /\ [at |-> c, pair |-> l] \in Origins
                  /\ c \in Onward(prog, {b}, NotDefining(l[1]))
<1>1. ASSUME l \in LiveAt(b)
      PROVE  \E c : /\ [at |-> c, pair |-> l] \in Origins
                    /\ c \in Onward(prog, {b}, NotDefining(l[1]))
  <2>1. PICK o \in Origins : o.pair = l /\ o.at \in Onward(prog, {b}, NotDefining(l[1]))
    BY <1>1 DEF LiveAt
  <2>2. [at |-> o.at, pair |-> l] \in Origins
    BY <2>1, OriginsAreRecords
  <2> QED BY <2>1, <2>2
<1>2. ASSUME NEW c, [at |-> c, pair |-> l] \in Origins, c \in Onward(prog, {b}, NotDefining(l[1]))
      PROVE  l \in LiveAt(b)
  <2>1. PICK o \in Origins : o.at = c /\ o.pair = l
    BY <1>2
  <2> QED BY <1>2, <2>1 DEF LiveAt
<1> QED BY <1>1, <1>2

LEMMA LiveAtSolves ==
  ASSUME TypeOK
  PROVE  LET in == [b \in Blocks |-> LiveAt(b)]
         IN  LiveSolution(in, [b \in Blocks |-> LiveOutFrom(b, in)])
<1> DEFINE in == [b \in Blocks |-> LiveAt(b)]
           out == [b \in Blocks |-> LiveOutFrom(b, in)]
<1>1. \A k : NotDefining(k) \in SUBSET Blocks
  BY DEF NotDefining
<1>2. ASSUME NEW b \in Blocks, NEW l \in LiveThrough(b, IF b \in prog.ret THEN Outputs ELSE {})
      PROVE  l \in LiveAt(b)
  <2>1. b \in Onward(prog, {b}, NotDefining(l[1]))
    BY <1>1, OnwardHolds
  <2>2. [at |-> b, pair |-> l] \in Origins
    BY OriginsAre
  <2> QED BY <2>1, <2>2, LiveAtIs
<1>3. ASSUME NEW b \in Blocks, NEW s \in Succ(prog, b), NEW l \in LiveAt(s), l[1] \notin GenKinds(b)
      PROVE  l \in LiveAt(b)
  <2> DEFINE Through == NotDefining(l[1])
  <2>1. PICK c : [at |-> c, pair |-> l] \in Origins /\ c \in Onward(prog, {s}, Through)
    BY LiveAtIs
  <2>2. b \in Through /\ Through \in SUBSET Blocks
    BY <1>3 DEF NotDefining
  <2> HIDE DEF Through
  <2>3. /\ b \in Onward(prog, {b}, Through)
        /\ \A x \in Onward(prog, {b}, Through) \cap Through :
             Succ(prog, x) \subseteq Onward(prog, {b}, Through)
    BY <2>2, OnwardHolds
  <2>4. {s} \subseteq Onward(prog, {b}, Through)
    BY <2>2, <2>3
  <2>5. Onward(prog, {s}, Through) \subseteq Onward(prog, {b}, Through)
    BY <2>2, <2>3, <2>4, OnwardLeast
  <2> QED BY <2>1, <2>5, LiveAtIs DEF Through
<1>4. ASSUME NEW b \in Blocks, NEW l \in LiveThrough(b, out[b]) PROVE l \in in[b]
  <2>1. CASE l \in LiveThrough(b, IF b \in prog.ret THEN Outputs ELSE {})
    BY <1>2, <2>1
  <2>2. CASE l \notin LiveThrough(b, IF b \in prog.ret THEN Outputs ELSE {})
    <3>1. l \in LiveThrough(b, LiveOutFrom(b, in))
      OBVIOUS
    <3>2. l[1] \notin GenKinds(b) /\ \E s \in Succ(prog, b) : l \in in[s]
      BY <2>2, <3>1 DEF LiveThrough, LiveOutFrom
    <3>3. PICK s \in Succ(prog, b) : l \in in[s]
      BY <3>2
    <3>4. s \in Blocks
      BY SuccInBlocks
    <3> QED BY <1>3, <3>2, <3>3, <3>4
  <2> QED BY <2>1, <2>2
<1>5. \A b \in Blocks : LiveOutFrom(b, in) \subseteq out[b]
  OBVIOUS
<1> HIDE DEF in, out
<1>6. LiveSolution(in, out)
  BY <1>4, <1>5 DEF LiveSolution
<1> QED BY <1>6 DEF in, out

LEMMA LiveIsLiveAt ==
  ASSUME TypeOK, \A b \in Blocks : LiveEquation(b), LiveBelowSolutions
  PROVE  \A b \in Blocks : liveIn[b] = LiveAt(b)
<1>1. \A b \in Blocks : liveIn[b] \subseteq LiveAt(b)
  <2> DEFINE in == [b \in Blocks |-> LiveAt(b)]
             out == [b \in Blocks |-> LiveOutFrom(b, in)]
  <2>1. LiveSolution(in, out)
    BY LiveAtSolves
  <2>2. \A b \in Blocks : in[b] = LiveAt(b)
    OBVIOUS
  <2> HIDE DEF in, out
  <2>3. Within(liveIn, in)
    BY <2>1 DEF LiveBelowSolutions
  <2> QED BY <2>2, <2>3 DEF Within
<1>2. ASSUME NEW b \in Blocks, NEW l \in LiveThrough(b, IF b \in prog.ret THEN Outputs ELSE {})
      PROVE  l \in liveIn[b]
  <2>1. (IF b \in prog.ret THEN Outputs ELSE {}) \subseteq liveOut[b]
    BY DEF LiveEquation, NewLiveOut, LiveOutFrom
  <2>2. l \in LiveThrough(b, liveOut[b])
    BY <2>1, LiveMonotone
  <2> QED BY <2>2 DEF LiveEquation
<1>3. ASSUME NEW b \in Blocks, NEW s \in Succ(prog, b), NEW l \in liveIn[s], l[1] \notin GenKinds(b)
      PROVE  l \in liveIn[b]
  <2>1. l \in liveOut[b]
    BY DEF LiveEquation, NewLiveOut, LiveOutFrom
  <2>2. l \in LiveThrough(b, liveOut[b])
    BY <1>3, <2>1 DEF LiveThrough
  <2> QED BY <2>2 DEF LiveEquation
\* Where a pair is not live, none of its origins is reached.
<1>4. ASSUME NEW b \in Blocks, NEW l \in LiveAt(b) PROVE l \in liveIn[b]
  <2> DEFINE Through == NotDefining(l[1])
             C == {x \in Blocks : l \notin liveIn[x]}
  <2>1. PICK c : [at |-> c, pair |-> l] \in Origins /\ c \in Onward(prog, {b}, Through)
    BY LiveAtIs
  <2>2. c \notin C
    BY <1>2, <2>1, OriginsAre
  <2>3. ASSUME NEW x \in C \cap Through PROVE Succ(prog, x) \subseteq C
    <3>1. x \in Blocks /\ l[1] \notin GenKinds(x) /\ l \notin liveIn[x]
      BY DEF NotDefining
    <3>2. ASSUME NEW s \in Succ(prog, x) PROVE s \in Blocks /\ l \notin liveIn[s]
      BY <1>3, <3>1, SuccInBlocks
    <3> QED BY <3>2
  <2>4. Through \in SUBSET Blocks
    BY DEF NotDefining
  <2> SUFFICES ASSUME b \in C PROVE FALSE
    OBVIOUS
  <2> HIDE DEF C, Through
  <2>5. Onward(prog, {b}, Through) \subseteq C
    BY <2>3, <2>4, OnwardLeast
  <2> QED BY <2>1, <2>2, <2>5
<1> QED BY <1>1, <1>4

\* Use has reads of the block, and one of each reference that is read first.
LEMMA UseIsExposed ==
  ASSUME TypeOK, NEW c \in Blocks
  PROVE  /\ Use(c) \subseteq Exposed(c)
         /\ \A p \in Exposed(c) : \E u \in Use(c) : u[1] = p[1]
         /\ \A p \in Exposed(c) : p[2][1] = c
<1>1. ASSUME NEW u \in Use(c) PROVE u \in Exposed(c)
  <2>1. PICK w \in LastUses(c) : u = <<w[1], <<c, w[2]>>>>
    BY DEF Use
  <2>2. w[1] \in UseKinds(c) /\ w[2] \in ReadsBeforeDef(c, w[1])
    BY <2>1 DEF LastUses
  <2> QED BY <2>1, <2>2 DEF Exposed
<1>2. ASSUME NEW p \in Exposed(c) PROVE p[1] \in UseKinds(c) /\ p[2][1] = c
  BY DEF Exposed
<1>3. ASSUME NEW p \in Exposed(c) PROVE \E u \in Use(c) : u[1] = p[1]
  <2>1. p[1] \in Kinds(Use(c))
    BY <1>2, UseHasKind
  <2> QED BY <2>1 DEF Kinds
<1> QED BY <1>1, <1>2, <1>3

\* Of the reads that a path leads to, those Use keeps are live, one of each block.
LEMMA LiveAtReads ==
  ASSUME TypeOK, NEW b \in Blocks
  PROVE  /\ HandedOn(b) \subseteq LiveAt(b)
         /\ LiveAt(b) \subseteq ReadLater(b) \cup HandedOn(b)
         /\ \A p \in ReadLater(b) : \E q \in ReadLater(b) \cap LiveAt(b) :
              q[1] = p[1] /\ q[2][1] = p[2][1]
<1>1. ASSUME NEW c \in Blocks, NEW l \in Use(c) \cup Expected(c), LiveFrom(b, c, l[1])
      PROVE  l \in LiveAt(b)
  <2>1. [at |-> c, pair |-> l] \in Origins
    BY DEF Origins
  <2> QED BY <1>1, <2>1, LiveAtIs DEF LiveFrom
<1>2. HandedOn(b) \subseteq LiveAt(b)
  BY <1>1 DEF HandedOn
<1>3. ASSUME NEW l \in LiveAt(b) PROVE l \in ReadLater(b) \cup HandedOn(b)
  <2>1. PICK c : /\ [at |-> c, pair |-> l] \in Origins
                 /\ c \in Onward(prog, {b}, NotDefining(l[1]))
    BY LiveAtIs
  <2>2. c \in Blocks /\ l \in Use(c) \cup Expected(c)
    BY <2>1 DEF Origins
  <2>3. CASE l \in Use(c)
    BY <2>1, <2>2, <2>3, UseIsExposed DEF ReadLater, LiveFrom
  <2>4. CASE l \in Expected(c)
    BY <2>1, <2>2, <2>4 DEF HandedOn, LiveFrom
  <2> QED BY <2>2, <2>3, <2>4
<1>4. ASSUME NEW p \in ReadLater(b)
      PROVE  \E q \in ReadLater(b) \cap LiveAt(b) : q[1] = p[1] /\ q[2][1] = p[2][1]
  <2>1. PICK c \in Blocks : p \in Exposed(c) /\ LiveFrom(b, c, p[1])
    BY DEF ReadLater
  <2>2. PICK u \in Use(c) : u[1] = p[1]
    BY <2>1, UseIsExposed
  <2>3. u \in Exposed(c) /\ u[2][1] = c /\ p[2][1] = c
    BY <2>1, <2>2, UseIsExposed
  <2>4. u \in ReadLater(b)
    BY <2>1, <2>2, <2>3 DEF ReadLater
  <2>5. u \in LiveAt(b)
    BY <1>1, <2>1, <2>2
  <2> QED BY <2>2, <2>3, <2>4, <2>5
<1> QED BY <1>2, <1>3, <1>4
-----------------------------------------------------------------------------
(* Passes 2 and 5 credit the calls whose values reach a block.             *)

\* A block that calls return to is credited with those calls from the start.
Seeded == \A b \in Blocks : CallsReturningTo(prog, b) \subseteq frIn[b]

LEMMA SeededStep ==
  ASSUME IInv, Seeded, [Next]_vars
  PROVE  Seeded'
<1>1. prog' = prog /\ Blocks' = Blocks /\ Grown
  BY SameProgram, NextIInv DEF Next, VisitReturns, VisitDefs, VisitLive, VisitCalls, Visit,
     EndOfSweep, Finished, vars, IInv
<1> QED BY <1>1 DEF Seeded, Grown, Grows

LEMMA CallEdgesAre ==
  /\ DOMAIN CallEdges = {p \in Blocks : ~WritesAboveR(p)}
  /\ \A p \in DOMAIN CallEdges :
       CallEdges[p] = {b \in Succ(prog, p) : CallsReturningTo(prog, b) = {}}
BY DEF CallEdges

LEMMA ReachedByCallHolds ==
  ASSUME TypeOK, NEW c
  PROVE  /\ Succ(prog, c) \subseteq ReachedByCall(c)
         /\ \A p \in Blocks \cap ReachedByCall(c) : \A b \in Succ(prog, p) :
              ~WritesAboveR(p) /\ CallsReturningTo(prog, b) = {} => b \in ReachedByCall(c)
<1>1. IsFiniteSet(DOMAIN CallEdges)
  BY CallEdgesAre, FiniteBlocks, FS_Subset
<1>2. Succ(prog, c) \subseteq ReachedByCall(c) /\ IsClosed(CallEdges, ReachedByCall(c))
  BY <1>1, ReachHolds, ReachClosed DEF ReachedByCall
<1> QED BY <1>2, CallEdgesAre DEF IsClosed

LEMMA ReachedByCallLeast ==
  ASSUME TypeOK, NEW c, NEW C, Succ(prog, c) \subseteq C,
         \A p \in Blocks \cap C : \A b \in Succ(prog, p) :
           ~WritesAboveR(p) /\ CallsReturningTo(prog, b) = {} => b \in C
  PROVE  ReachedByCall(c) \subseteq C
<1>1. IsFiniteSet(DOMAIN CallEdges)
  BY CallEdgesAre, FiniteBlocks, FS_Subset
<1>2. IsClosed(CallEdges, C)
  BY CallEdgesAre DEF IsClosed
<1> QED BY <1>1, <1>2, ReachLeast DEF ReachedByCall

\* The calls that reach each block solve the equations of pass 2.
LEMMA FrIsReached ==
  ASSUME TypeOK, Seeded, \A b \in Blocks : FrEquation(b), FrBelowSolutions
  PROVE  \A b \in Blocks : frIn[b] = {c \in CallSites : b \in ReachedByCall(c)}
<1> DEFINE in == [b \in Blocks |-> {c \in CallSites : b \in ReachedByCall(c)}]
           out == [b \in Blocks |-> IF WritesAboveR(b) THEN {} ELSE in[b]]
<1>1. FrSolution(in, out)
  <2>1. ASSUME NEW b \in Blocks, NEW c \in CallsReturningTo(prog, b) PROVE c \in in[b]
    <3>1. c \in CallSites /\ b \in Succ(prog, c)
      BY DEF CallsReturningTo, Preds, CallSites, Blocks
    <3> QED BY <3>1, ReachedByCallHolds
  <2>2. ASSUME NEW b \in Blocks, CallsReturningTo(prog, b) = {},
               NEW p \in Preds(prog, b), NEW c \in out[p]
        PROVE  c \in in[b]
    <3>1. p \in Blocks /\ b \in Succ(prog, p)
      BY DEF Preds, Blocks
    <3>2. ~WritesAboveR(p) /\ c \in CallSites /\ p \in ReachedByCall(c)
      BY <3>1
    <3> QED BY <2>2, <3>1, <3>2, ReachedByCallHolds
  <2>3. \A b \in Blocks : ~WritesAboveR(b) => in[b] \subseteq out[b]
    OBVIOUS
  <2> HIDE DEF in, out
  <2> QED BY <2>1, <2>2, <2>3 DEF FrSolution
<1>2. \A b \in Blocks : frIn[b] \subseteq in[b]
  <2> HIDE DEF in, out
  <2> QED BY <1>1 DEF FrBelowSolutions, Within
<1>3. ASSUME NEW b \in Blocks, NEW c \in CallSites, b \in ReachedByCall(c) PROVE c \in frIn[b]
  <2> DEFINE C == {x \in Blocks : c \in frIn[x]}
  <2>1. ASSUME NEW s \in Succ(prog, c) PROVE s \in C
    <3>1. s \in Blocks
      BY SuccInBlocks DEF CallSites
    <3>2. c \in CallsReturningTo(prog, s)
      BY <3>1 DEF CallsReturningTo, CallSites, Preds, Blocks
    <3> QED BY <3>1, <3>2 DEF Seeded
  <2>2. ASSUME NEW p \in Blocks \cap C, NEW s \in Succ(prog, p),
               ~WritesAboveR(p), CallsReturningTo(prog, s) = {}
        PROVE  s \in C
    <3>1. s \in Blocks /\ p \in Preds(prog, s)
      BY SuccInBlocks DEF Preds, Blocks
    <3>2. c \in frOut[p]
      BY <2>2 DEF FrEquation, NewFrOut
    <3>3. c \in NewFrIn(s)
      BY <2>2, <3>1, <3>2 DEF NewFrIn
    <3> QED BY <3>1, <3>3 DEF FrEquation
  <2> HIDE DEF C
  <2>3. ReachedByCall(c) \subseteq C
    BY <2>1, <2>2, ReachedByCallLeast
  <2> QED BY <1>3, <2>3 DEF C
<1> QED BY <1>2, <1>3

\* The references that blocks of X read and that only the call c provides.
ReadOf(c, X) ==
  {k \in AllKinds : Returnable(k) /\ \E b \in X : k \in UseKinds(b) /\ frIn[b] = {c}}

\* Pass 5 has credited each call with what the visited blocks read.
CreditedSoFar ==
  /\ pass \in {"returns", "defs", "live"} => \A c \in Blocks : accessed[c] = {}
  /\ pass = "calls" => /\ ~changed
                       /\ \A c \in Blocks : Kinds(accessed[c]) = ReadOf(c, Blocks \ todo)
  /\ pass = "done" => \A c \in Blocks : Kinds(accessed[c]) = ReadOf(c, Blocks)

LEMMA SameReadOf ==
  ASSUME TypeOK, prog' = prog, frIn' = frIn
  PROVE  \A c : /\ ReadOf(c, Blocks)' = ReadOf(c, Blocks)
                /\ ReadOf(c, Blocks \ todo)' = ReadOf(c, Blocks \ todo')
<1>1. AllKinds' = AllKinds /\ Blocks' = Blocks
  BY SameProgram
<1>2. \A b : UseKinds(b)' = UseKinds(b)
  BY SameBlock
<1>3. \A c : ReadOf(c, Blocks)' = ReadOf(c, Blocks)
  BY <1>1, <1>2 DEF ReadOf, Returnable, IsOutgoing, IsGlobal
<1>4. \A c : ReadOf(c, Blocks \ todo)' = ReadOf(c, Blocks \ todo')
  BY <1>1, <1>2 DEF ReadOf, Returnable, IsOutgoing, IsGlobal
<1> QED BY <1>3, <1>4

LEMMA MemoryUsagesKinds ==
  ASSUME TypeOK, NEW b \in Blocks
  PROVE  Kinds(MemoryUsages(b)) = {k \in UseKinds(b) : Returnable(k)}
<1>1. Kinds(MemoryUsages(b)) = {k \in Kinds(Use(b)) : Returnable(k)}
  BY DEF Kinds, MemoryUsages
<1> QED BY <1>1, UseHasKind

LEMMA CreditStep ==
  ASSUME IInv, CreditedSoFar, NEW CONSTANT b \in Blocks, VisitCalls(b)
  PROVE  CreditedSoFar'
<1>1. /\ prog' = prog /\ frIn' = frIn /\ TypeOK /\ pass = "calls" /\ pass' = "calls"
      /\ todo' = todo \ {b} /\ b \in todo /\ changed' = (changed \/ FALSE) /\ todo \subseteq Blocks
  BY DEF VisitCalls, Visit, IInv, TypeOK
<1>2. Blocks' = Blocks
  BY <1>1, SameProgram
<1>3. Blocks \ todo' = (Blocks \ todo) \cup {b}
  BY <1>1
<1> DEFINE uses == MemoryUsages(b)
           New(c) == {k \in UseKinds(b) : Returnable(k) /\ frIn[b] = {c}}
<1>4. \A c \in Blocks : ReadOf(c, Blocks \ todo)' = ReadOf(c, Blocks \ todo) \cup New(c)
  <2> TAKE c \in Blocks
  <2>1. ReadOf(c, Blocks \ todo)' = ReadOf(c, (Blocks \ todo) \cup {b})
    BY <1>1, <1>3, SameReadOf
  <2>2. UseKinds(b) \subseteq AllKinds
    BY DEF AllKinds
  <2> QED BY <2>1, <2>2 DEF ReadOf
<1>5. \A c \in Blocks : Kinds(accessed'[c]) = Kinds(accessed[c]) \cup New(c)
  <2>1. IsFiniteSet(frIn[b]) /\ frIn[b] \subseteq Blocks
    BY <1>1, FiniteBlocks, FS_Subset DEF TypeOK
  <2>2. CASE uses # {} /\ Cardinality(frIn[b]) = 1
    <3>1. PICK d : frIn[b] = {d}
      BY <2>1, <2>2, FS_Singleton
    <3>2. d \in Blocks
      BY <2>1, <3>1
    <3>3. accessed' = [accessed EXCEPT ![d] = {p \in @ : p[1] \notin Kinds(uses)} \cup uses]
      BY <2>2, <3>1 DEF VisitCalls
    <3>4. Kinds(accessed'[d]) = Kinds(accessed[d]) \cup Kinds(uses)
      <4>1. accessed'[d] = {p \in accessed[d] : p[1] \notin Kinds(uses)} \cup uses
        BY <1>1, <3>2, <3>3 DEF TypeOK
      <4> HIDE DEF uses
      <4> QED BY <4>1 DEF Kinds
    <3>5. Kinds(uses) = New(d)
      BY <1>1, <3>1, MemoryUsagesKinds
    <3>6. \A c \in Blocks : c # d => accessed'[c] = accessed[c] /\ New(c) = {}
      BY <1>1, <3>1, <3>3 DEF TypeOK
    <3> HIDE DEF uses, New
    <3>7. \A c \in Blocks : c # d => Kinds(accessed'[c]) = Kinds(accessed[c]) \cup New(c)
      BY <3>6
    <3> QED BY <3>4, <3>5, <3>7
  <2>3. CASE ~(uses # {} /\ Cardinality(frIn[b]) = 1)
    <3>1. accessed' = accessed
      BY <2>3 DEF VisitCalls
    <3>2. ASSUME NEW c \in Blocks, frIn[b] = {c} PROVE New(c) = {}
      <4>1. Cardinality(frIn[b]) = 1
        BY <3>2, FS_Singleton
      <4>2. Kinds(uses) = {}
        BY <2>3, <4>1 DEF Kinds
      <4> QED BY <1>1, <4>2, MemoryUsagesKinds
    <3>3. \A c \in Blocks : New(c) = {}
      BY <3>2
    <3> HIDE DEF New
    <3> QED BY <3>1, <3>3
  <2> QED BY <2>2, <2>3
<1> HIDE DEF New
<1>6. \A c \in Blocks : Kinds(accessed[c])' = Kinds(accessed'[c])
  BY DEF Kinds
<1>7. ~changed /\ \A c \in Blocks : Kinds(accessed[c]) = ReadOf(c, Blocks \ todo)
  BY <1>1 DEF CreditedSoFar
<1>8. \A c \in Blocks : Kinds(accessed[c])' = ReadOf(c, Blocks \ todo)'
  BY <1>4, <1>5, <1>6, <1>7
<1> QED BY <1>1, <1>2, <1>7, <1>8 DEF CreditedSoFar

LEMMA CreditEnd ==
  ASSUME IInv, CreditedSoFar, EndOfSweep
  PROVE  CreditedSoFar'
<1>1. /\ prog' = prog /\ frIn' = frIn /\ accessed' = accessed /\ TypeOK
      /\ todo = {} /\ todo' = Blocks /\ changed' = FALSE /\ pass # "done"
      /\ pass' = IF changed THEN pass ELSE Following[pass]
  BY DEF EndOfSweep, sets, IInv
<1>2. Blocks' = Blocks
  BY <1>1, SameProgram
<1>3. \/ pass \in {"returns", "defs"} /\ pass' \in {"returns", "defs", "live"}
      \/ pass = "live" /\ pass' = "live"
      \/ pass = "live" /\ pass' = "calls"
      \/ pass = "calls" /\ pass' = "done"
  BY <1>1 DEF TypeOK, Following, CreditedSoFar
<1>4. CASE pass = "live" /\ pass' = "calls"
  <2>1. \A c \in Blocks : Kinds(accessed[c])' = {}
    BY <1>1, <1>4 DEF CreditedSoFar, Kinds
  <2>2. \A c \in Blocks : ReadOf(c, Blocks \ todo)' = {}
    BY <1>1, <1>2 DEF ReadOf
  <2> QED BY <1>1, <1>2, <1>4, <2>1, <2>2 DEF CreditedSoFar
<1>5. CASE pass = "calls" /\ pass' = "done"
  <2>1. \A c \in Blocks : Kinds(accessed[c]) = ReadOf(c, Blocks)
    <3>1. Blocks \ todo = Blocks
      BY <1>1
    <3> QED BY <1>5, <3>1 DEF CreditedSoFar
  <2>2. \A c \in Blocks : Kinds(accessed[c])' = Kinds(accessed[c])
    BY <1>1 DEF Kinds
  <2>3. \A c \in Blocks : ReadOf(c, Blocks)' = ReadOf(c, Blocks)
    BY <1>1, SameReadOf
  <2> QED BY <1>2, <1>5, <2>1, <2>2, <2>3 DEF CreditedSoFar
<1>6. CASE pass \in {"returns", "defs", "live"} /\ pass' \in {"returns", "defs", "live"}
  BY <1>1, <1>2, <1>6 DEF CreditedSoFar
<1> QED BY <1>3, <1>4, <1>5, <1>6

LEMMA CreditedKept ==
  ASSUME IInv, CreditedSoFar, UNCHANGED vars
  PROVE  CreditedSoFar'
<1>1. /\ prog' = prog /\ frIn' = frIn /\ accessed' = accessed /\ todo' = todo /\ TypeOK
      /\ pass' = pass /\ changed' = changed
  BY DEF vars, sets, IInv
<1>2. Blocks' = Blocks
  BY <1>1, SameProgram
<1>3. \A c \in Blocks : Kinds(accessed[c])' = Kinds(accessed[c])
  BY <1>1 DEF Kinds
<1>4. \A c \in Blocks : /\ ReadOf(c, Blocks)' = ReadOf(c, Blocks)
                        /\ ReadOf(c, Blocks \ todo)' = ReadOf(c, Blocks \ todo)
  BY <1>1, SameReadOf
<1> QED BY <1>1, <1>2, <1>3, <1>4 DEF CreditedSoFar

LEMMA CreditedStep ==
  ASSUME IInv, CreditedSoFar, [Next]_vars
  PROVE  CreditedSoFar'
<1>1. CASE \E b \in Blocks : VisitReturns(b) \/ VisitDefs(b) \/ VisitLive(b)
  <2>1. /\ prog' = prog /\ pass \in {"returns", "defs", "live"} /\ pass' = pass
        /\ accessed' = accessed /\ TypeOK
    BY <1>1 DEF VisitReturns, VisitDefs, VisitLive, Visit, IInv
  <2> QED BY <2>1, SameProgram DEF CreditedSoFar
<1>2. CASE \E b \in Blocks : VisitCalls(b)
  BY <1>2, CreditStep
<1>3. CASE EndOfSweep
  BY <1>3, CreditEnd
<1>4. CASE UNCHANGED vars
  BY <1>4, CreditedKept
<1> QED BY <1>1, <1>2, <1>3, <1>4 DEF Next, Finished

LEMMA CreditsAreExact ==
  ASSUME TypeOK, Seeded, Fixpoint, FrBelowSolutions, CreditedSoFar
  PROVE  CallSitesExact
<1> SUFFICES ASSUME pass = "done", NEW c \in CallSites
             PROVE  Kinds(accessed[c]) = Credited(c)
  BY DEF CallSitesExact
<1>1. \A b \in Blocks : frIn[b] = {d \in CallSites : b \in ReachedByCall(d)}
  BY FrIsReached DEF Fixpoint
<1>2. Kinds(accessed[c]) = ReadOf(c, Blocks)
  BY DEF CreditedSoFar, CallSites
<1>3. ReadOf(c, Blocks) = Credited(c)
  BY <1>1 DEF ReadOf, Credited
<1> QED BY <1>2, <1>3
-----------------------------------------------------------------------------
(* Every read of a local has a definition.                                 *)

LEMMA KindsAreReferences ==
  ASSUME TypeOK, NEW b \in Blocks, NEW k \in UseKinds(b), IsLocal(k)
  PROVE  k[2] \in Int
<1>1. PICK i \in Positions(b) : k \in Reads(b, i)
  BY DEF UseKinds
<1> QED BY <1>1, FunctionsAreFinite DEF TypeOK, Blocks, Positions, Reads, IsLocal

LEMMA LocalsAreDefined ==
  ASSUME TypeOK, \A b \in Blocks : DefsEquation(b),
         NEW b \in Onward(prog, {prog.entry}, Blocks), NEW k \in UseKinds(b), IsLocal(k)
  PROVE  \E d \in defsIn[b] : d.kind = k
<1> DEFINE C == {x \in Blocks : \E d \in defsIn[x] : d.kind = k}
<1>1. prog.entry \in Blocks
  BY ProgramsAssumption DEF TypeOK, Blocks
<1>2. b \in Blocks
  <2>1. Onward(prog, {prog.entry}, Blocks) \subseteq Blocks
    BY <1>1, SuccInBlocks, OnwardLeast
  <2> QED BY <2>1
<1>3. k[1] = "R" /\ k[2] < 0 /\ k[2] \in Int
  BY <1>2, KindsAreReferences DEF IsLocal
<1>4. \A x : ~CallKills(x, k)
  BY <1>3 DEF CallKills, IsOutgoing, IsGlobal
<1>5. prog.entry \in C
  <2> DEFINE d == [source |-> FunctionInput, kind |-> k, block |-> prog.entry]
  <2>1. d \in InputDefs /\ d.kind = k
    BY <1>2 DEF InputDefs
  <2>2. d \in defsIn[prog.entry]
    BY <1>1, <2>1 DEF DefsEquation, NewDefsIn, DefsInFrom
  <2> QED BY <1>1, <2>1, <2>2
<1>6. ASSUME NEW x \in C, NEW s \in Succ(prog, x) PROVE s \in C
  <2>1. s \in Blocks /\ x \in Preds(prog, s) /\ x \in Blocks
    BY SuccInBlocks DEF Preds, Blocks
  <2>2. \E d \in DefsThrough(x, defsIn[x]) : d.kind = k
    <3>1. CASE k \in GenKinds(x)
      <4>1. PICK d \in Gen(x) : d.kind = k
        BY <2>1, <3>1, GenHasKind
      <4> QED BY <1>4, <4>1 DEF DefsThrough
    <3>2. CASE k \notin GenKinds(x)
      BY <1>4, <3>2 DEF DefsThrough
    <3> QED BY <3>1, <3>2
  <2>3. PICK d \in defsOut[x] : d.kind = k
    BY <2>1, <2>2 DEF DefsEquation
  <2>4. d \in defsIn[s]
    BY <2>1 DEF DefsEquation, NewDefsIn, DefsInFrom
  <2> QED BY <2>1, <2>3, <2>4
<1> HIDE DEF C
<1>7. Onward(prog, {prog.entry}, Blocks) \subseteq C
  <2>1. \A x \in C \cap Blocks : Succ(prog, x) \subseteq C
    BY <1>6
  <2> QED BY <1>5, <2>1, OnwardLeast
<1> QED BY <1>7 DEF C

\* The calls, definitions and live pairs of each block, and the reads credited to
\* each call, are those the paths of the function give, in every order of the
\* blocks: what reaches along a path is found, and nothing else (analyzer.rs:124-430).
THEOREM FlowIsExact == Spec => []FlowExact
<1>1. Init => Seeded /\ CreditedSoFar
  BY DEF Init, Seeded, CreditedSoFar, Empty
<1>2. IInv /\ Seeded /\ CreditedSoFar /\ [Next]_vars => (Seeded /\ CreditedSoFar)'
  BY SeededStep, CreditedStep
<1>3. TypeOK /\ Fixpoint /\ BelowSolutions /\ Seeded /\ CreditedSoFar => FlowExact
  <2> SUFFICES ASSUME TypeOK, Fixpoint, BelowSolutions, Seeded, CreditedSoFar PROVE FlowExact
    OBVIOUS
  <2>1. DefsExact
    BY DefsAreReaching DEF DefsExact, Fixpoint, BelowSolutions
  <2>2. LiveExact
    <3> SUFFICES ASSUME pass \in {"calls", "done"}, NEW b \in Blocks
                 PROVE  /\ HandedOn(b) \subseteq liveIn[b]
                        /\ liveIn[b] \subseteq ReadLater(b) \cup HandedOn(b)
                        /\ \A p \in ReadLater(b) : \E q \in ReadLater(b) \cap liveIn[b] :
                             q[1] = p[1] /\ q[2][1] = p[2][1]
      BY DEF LiveExact
    <3>1. liveIn[b] = LiveAt(b)
      BY LiveIsLiveAt DEF Fixpoint, BelowSolutions
    <3> QED BY <3>1, LiveAtReads
  <2>3. CallSitesExact
    <3>1. CASE pass = "done"
      BY <3>1, CreditsAreExact DEF BelowSolutions
    <3>2. CASE pass # "done"
      BY <3>2 DEF CallSitesExact
    <3> QED BY <3>1, <3>2
  <2> QED BY <2>1, <2>2, <2>3 DEF FlowExact
<1> QED BY <1>1, <1>2, <1>3, InitIInv, NextIInv, TypeCorrect, PassesEndInFixpoints,
     NothingSpurious, PTL DEF Spec

\* Each read of a local that no write in its block precedes has a definition that
\* reaches it, on every block that can be reached (analyzer.rs:165-190).
THEOREM LocalReadsAlwaysDefined == Spec => []LocalReadsDefined
<1>1. TypeOK /\ Fixpoint => LocalReadsDefined
  BY LocalsAreDefined DEF LocalReadsDefined, Fixpoint
<1> QED BY <1>1, TypeCorrect, PassesEndInFixpoints, PTL
=============================================================================
