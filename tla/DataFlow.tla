------------------------------ MODULE DataFlow ------------------------------
(***************************************************************************)
(* DataFlowAnalyzer (data_flow/analyzer.rs) on one function: which calls'  *)
(* return values may reach a block, reaching definitions, liveness, and    *)
(* the values each call site is credited with returning.                   *)
(*                                                                         *)
(* Pass 1 looks at each block alone: Gen, Use and WritesAboveR are         *)
(* operators on the program.  Passes 2 to 4 sweep over the blocks until a  *)
(* sweep changes nothing, pass 5 is one sweep; all_block_ids is the key    *)
(* set of a HashMap, so a sweep visits the blocks in any order, and one    *)
(* step is the visit of one block.  A map from references to sets or to    *)
(* instructions is the set of its pairs.                                   *)
(***************************************************************************)
EXTENDS LirProgram

CONSTANT Programs

\* Control flow stays in the function: the builder asserts that the target of
\* every edge is a block it made (cfg/builder.rs:203-255).
ASSUME ProgramsAssumption ==
  \A f \in Programs :
    /\ f.entry \in f.blocks
    /\ \A b \in f.blocks : Succ(f, b) \subseteq f.blocks

\* A function has finitely many blocks, with a list of instructions each, and [R+n]
\* a number as offset.
ASSUME FunctionsAreFinite ==
  \A f \in Programs :
    /\ IsFiniteSet(f.blocks)
    /\ \A b \in f.blocks :
         /\ Len(f.code[b]) \in Nat
         /\ \A i \in 1 .. Len(f.code[b]) :
              \A k \in f.code[b][i].reads \cup f.code[b][i].write : k[1] = "R" => k[2] \in Int

VARIABLES
  prog,      \* the function analysed
  pass,      \* returns, defs, live, calls, done
  todo,      \* blocks the sweep has still to visit
  changed,   \* the `changed` flag of the sweep
  frIn, frOut,       \* function_returns_in/out: calling blocks
  defsIn, defsOut,   \* definitions [source, kind, block]
  liveIn, liveOut,   \* pairs <<kind, origin>>
  accessed           \* return_values_accessed: pairs <<kind, instruction>>

sets == <<frIn, frOut, defsIn, defsOut, liveIn, liveOut, accessed>>
vars == <<prog, pass, todo, changed, sets>>

Blocks == prog.blocks
-----------------------------------------------------------------------------
(* Pass 1.  An instruction is named <<block, position>>.                   *)

FunctionInput  == <<"input">>
FunctionOutput == <<"output">>

Writes(b, i) == prog.code[b][i].write
Reads(b, i)  == prog.code[b][i].reads
Positions(b) == 1 .. Len(prog.code[b])

GenKinds(b) == UNION {Writes(b, i) : i \in Positions(b)}

\* gen: the last instruction that writes k.
LastWrites(b) ==
  {w \in GenKinds(b) \X Positions(b) :
     /\ w[1] \in Writes(b, w[2])
     /\ \A j \in Positions(b) : w[1] \in Writes(b, j) => j <= w[2]}
Gen(b) == {[source |-> <<b, w[2]>>, kind |-> w[1], block |-> b] : w \in LastWrites(b)}

\* use_before_def: the last read of k that no write of k precedes, each
\* HashMap::insert replacing the one before.
ReadsBeforeDef(b, k) ==
  {i \in Positions(b) : k \in Reads(b, i) /\ \A j \in 1 .. i - 1 : k \notin Writes(b, j)}
UseKinds(b) ==
  {k \in UNION {Reads(b, i) : i \in Positions(b)} : ReadsBeforeDef(b, k) # {}}
LastUses(b) ==
  {u \in UseKinds(b) \X Positions(b) :
     /\ u[2] \in ReadsBeforeDef(b, u[1])
     /\ \A j \in ReadsBeforeDef(b, u[1]) : j <= u[2]}
Use(b) == {<<u[1], <<b, u[2]>>>> : u \in LastUses(b)}

WritesAboveR(b) == \E k \in GenKinds(b) : IsOutgoing(k)

Empty == [b \in Blocks |-> {}]

Init ==
  /\ prog \in Programs
  /\ pass = "returns" /\ todo = Blocks /\ changed = FALSE
  /\ frIn = [b \in Blocks |-> CallsReturningTo(prog, b)]
  /\ frOut = Empty
  /\ defsIn = Empty /\ defsOut = Empty
  /\ liveIn = Empty /\ liveOut = Empty
  /\ accessed = Empty

\* Mutants of Visit: `changed` is that of the last visit; it is always raised.
VisitForgets(p, b, c) ==
  /\ pass = p /\ b \in todo
  /\ todo' = todo \ {b}
  /\ changed' = c
  /\ UNCHANGED <<prog, pass>>
VisitRaises(p, b, c) ==
  /\ pass = p /\ b \in todo
  /\ todo' = todo \ {b}
  /\ changed' = TRUE
  /\ UNCHANGED <<prog, pass>>

\* The visit of b in the current sweep changes something iff c.
Visit(p, b, c) ==
  /\ pass = p /\ b \in todo
  /\ todo' = todo \ {b}
  /\ changed' = (changed \/ c)
  /\ UNCHANGED <<prog, pass>>
-----------------------------------------------------------------------------
(* Pass 2: function returns, forward.                                      *)

\* Mutant of NewFrIn: what reached a call reaches the block it returns to.
NewFrInThroughCalls(b) == frIn[b] \cup UNION {frOut[p] : p \in Preds(prog, b)}
NewFrIn(b) ==
  IF CallsReturningTo(prog, b) # {}
    THEN frIn[b]
    ELSE frIn[b] \cup UNION {frOut[p] : p \in Preds(prog, b)}
NewFrOut(b) == IF WritesAboveR(b) THEN frOut[b] ELSE NewFrIn(b)

VisitReturns(b) ==
  /\ Visit("returns", b, NewFrIn(b) # frIn[b] \/ NewFrOut(b) # frOut[b])
  /\ frIn'  = [frIn EXCEPT ![b] = NewFrIn(b)]
  /\ frOut' = [frOut EXCEPT ![b] = NewFrOut(b)]
  /\ UNCHANGED <<defsIn, defsOut, liveIn, liveOut, accessed>>
-----------------------------------------------------------------------------
(* Pass 3: reaching definitions, forward.                                  *)

\* Mutant of InputDefs: only what the entry block reads.
InputDefsOfEntry ==
  {[source |-> FunctionInput, kind |-> k, block |-> prog.entry] :
     k \in {k \in UseKinds(prog.entry) : IsLocal(k)}}
InputDefs ==
  {[source |-> FunctionInput, kind |-> k, block |-> prog.entry] :
     k \in {k \in UNION {UseKinds(b) : b \in Blocks} : IsLocal(k)}}

\* A block that calls a function lets no [R+n] and no global flow on.
CallKills(b, k) == IsCall(prog, b) /\ (IsOutgoing(k) \/ IsGlobal(k))

\* Mutant of DefsInFrom: of two definitions of a reference neither is kept.
DefsInUnique(b, out) ==
  LET D == (UNION {out[p] : p \in Preds(prog, b)})
             \cup (IF b = prog.entry THEN InputDefs ELSE {})
  IN  {d \in D : \A e \in D : e.kind = d.kind => e = d}
DefsInFrom(b, out) ==
  (UNION {out[p] : p \in Preds(prog, b)})
    \cup (IF b = prog.entry THEN InputDefs ELSE {})
NewDefsIn(b) == DefsInFrom(b, defsOut)
DefsThrough(b, D) ==
  {d \in {d \in D : d.kind \notin GenKinds(b)} \cup Gen(b) : ~CallKills(b, d.kind)}

VisitDefs(b) ==
  LET in  == NewDefsIn(b)
      out == DefsThrough(b, in)
  IN  /\ Visit("defs", b, in # defsIn[b] \/ out # defsOut[b])
      /\ defsIn'  = [defsIn EXCEPT ![b] = in]
      /\ defsOut' = [defsOut EXCEPT ![b] = out]
      /\ UNCHANGED <<frIn, frOut, liveIn, liveOut, accessed>>
-----------------------------------------------------------------------------
(* Pass 4: liveness, backward.                                             *)

\* What a caller may read when the function returns.
Outputs ==
  {<<k, FunctionOutput>> : k \in {k \in UNION {GenKinds(b) : b \in Blocks} : IsLocal(k)}}

\* What the function called at the end of b may read.
Arguments(b) ==
  IF IsCall(prog, b)
    THEN {<<d.kind, d.source>> : d \in {d \in defsIn[b] : IsOutgoing(d.kind)}}
    ELSE {}

LiveOutFrom(b, in) ==
  (UNION {in[s] : s \in Succ(prog, b)})
    \cup (IF b \in prog.ret THEN Outputs ELSE {})
NewLiveOut(b) == LiveOutFrom(b, liveIn)
LiveThrough(b, L) ==
  {l \in L \cup Arguments(b) : l[1] \notin GenKinds(b)} \cup Use(b)

VisitLive(b) ==
  LET out == NewLiveOut(b)
      in  == LiveThrough(b, out)
  IN  /\ Visit("live", b, out # liveOut[b] \/ in # liveIn[b])
      /\ liveOut' = [liveOut EXCEPT ![b] = out]
      /\ liveIn'  = [liveIn EXCEPT ![b] = in]
      /\ UNCHANGED <<frIn, frOut, defsIn, defsOut, accessed>>
-----------------------------------------------------------------------------
(* Pass 5: credit the reads of each block to the one call that reaches it. *)

Returnable(k) == IsOutgoing(k) \/ IsGlobal(k)
MemoryUsages(b) == {u \in Use(b) : Returnable(u[1])}
Kinds(P) == {p[1] : p \in P}

VisitCalls(b) ==
  LET uses == MemoryUsages(b)
  IN  /\ Visit("calls", b, FALSE)
      /\ IF uses # {} /\ Cardinality(frIn[b]) = 1
           THEN \E c \in frIn[b] :
                  accessed' = [accessed EXCEPT ![c] =
                     {p \in @ : p[1] \notin Kinds(uses)} \cup uses]
           ELSE UNCHANGED accessed
      /\ UNCHANGED <<frIn, frOut, defsIn, defsOut, liveIn, liveOut>>
-----------------------------------------------------------------------------
Following == [returns |-> "defs", defs |-> "live", live |-> "calls", calls |-> "done"]

EndOfSweep ==
  /\ pass # "done" /\ todo = {}
  /\ todo' = Blocks /\ changed' = FALSE
  /\ pass' = IF changed THEN pass ELSE Following[pass]
  /\ UNCHANGED <<prog, sets>>

Finished == pass = "done" /\ UNCHANGED vars

Next ==
  \/ \E b \in Blocks : VisitReturns(b)
  \/ \E b \in Blocks : VisitDefs(b)
  \/ \E b \in Blocks : VisitLive(b)
  \/ \E b \in Blocks : VisitCalls(b)
  \/ EndOfSweep
  \/ Finished

Spec == Init /\ [][Next]_vars

\* The analysis is a sequence of loops over in-memory maps and never waits.
FairSpec == Spec /\ WF_vars(Next)
-----------------------------------------------------------------------------
Instructions == UNION {{b} \X Positions(b) : b \in Blocks}
AllKinds == UNION {GenKinds(b) \cup UseKinds(b) : b \in Blocks}
Definitions ==
  [source : Instructions \cup {FunctionInput}, kind : AllKinds, block : Blocks]
LivePairs == AllKinds \X (Instructions \cup {FunctionInput, FunctionOutput})

\* The maps of the result keep the types of DataFlowBlock.
TypeOK ==
  /\ prog \in Programs
  /\ pass \in {"returns", "defs", "live", "calls", "done"}
  /\ todo \subseteq Blocks /\ changed \in BOOLEAN
  /\ frIn \in [Blocks -> SUBSET Blocks] /\ frOut \in [Blocks -> SUBSET Blocks]
  /\ defsIn \in [Blocks -> SUBSET Definitions]
  /\ defsOut \in [Blocks -> SUBSET Definitions]
  /\ liveIn \in [Blocks -> SUBSET LivePairs]
  /\ liveOut \in [Blocks -> SUBSET LivePairs]
  /\ accessed \in [Blocks -> SUBSET (AllKinds \X Instructions)]

\* The equations of the three iterated passes hold at block b.
FrEquation(b)   == frIn[b] = NewFrIn(b) /\ frOut[b] = NewFrOut(b)
DefsEquation(b) == defsIn[b] = NewDefsIn(b) /\ defsOut[b] = DefsThrough(b, defsIn[b])
LiveEquation(b) == liveOut[b] = NewLiveOut(b) /\ liveIn[b] = LiveThrough(b, liveOut[b])

\* A sweep that finds nothing to change has looked at each block before the
\* blocks visited after it: `changed` is only a correct test for a fixpoint if
\* every write that another block depends on raises it.  Once a pass is over its
\* equations hold at every block, and later passes leave them so.
Fixpoint ==
  /\ pass # "returns" => \A b \in Blocks : FrEquation(b)
  /\ pass \notin {"returns", "defs"} => \A b \in Blocks : DefsEquation(b)
  /\ pass \notin {"returns", "defs", "live"} => \A b \in Blocks : LiveEquation(b)

\* The sets of a block only grow, though each visit computes them anew: this is
\* what the loops rely on to end.
Grows(m) == \A b \in Blocks : m[b] \subseteq m'[b]
OnlyGrow ==
  [][Grows(frIn) /\ Grows(frOut) /\ Grows(defsIn) /\ Grows(defsOut)
       /\ Grows(liveIn) /\ Grows(liveOut)]_vars

\* The results are those the path definitions of reaching definitions and
\* liveness give, neither more nor less, for every visiting order.
Passing(k)  == {b \in Blocks : k \notin GenKinds(b) /\ ~CallKills(b, k)}
Reaching(b) ==
  {d \in InputDefs : b \in Onward(prog, {prog.entry}, Passing(d.kind))} \cup
  {d \in UNION {Gen(g) : g \in Blocks} :
     /\ ~CallKills(d.block, d.kind)
     /\ b \in Onward(prog, Succ(prog, d.block), Passing(d.kind))}

\* All reads that no write in their block precedes, not only the last of each.
Exposed(c)  == UNION {{<<k, <<c, i>>>> : i \in ReadsBeforeDef(c, k)} : k \in UseKinds(c)}
Expected(c) ==
  {p \in Arguments(c) \cup (IF c \in prog.ret THEN Outputs ELSE {}) : p[1] \notin GenKinds(c)}
NotDefining(k)     == {b \in Blocks : k \notin GenKinds(b)}
LiveFrom(b, c, k)  == c \in Onward(prog, {b}, NotDefining(k))
ReadLater(b)       == UNION {{p \in Exposed(c) : LiveFrom(b, c, p[1])} : c \in Blocks}
HandedOn(b)        == UNION {{p \in Expected(c) : LiveFrom(b, c, p[1])} : c \in Blocks}

DefsExact == pass \notin {"returns", "defs"} => \A b \in Blocks : defsIn[b] = Reaching(b)
\* A reference is live at b for each block whose read of it b's value may reach: what
\* is listed is such a read, or one by a callee or a caller, all of those are, and of
\* the reads of each block at least one.
LiveExact ==
  pass \in {"calls", "done"} => \A b \in Blocks :
    /\ HandedOn(b) \subseteq liveIn[b] /\ liveIn[b] \subseteq ReadLater(b) \cup HandedOn(b)
    /\ \A p \in ReadLater(b) : \E q \in ReadLater(b) \cap liveIn[b] : q[1] = p[1] /\ q[2][1] = p[2][1]

\* Each read of a local before its definition finds a definition that reaches
\* it, the function's input if no other: SSA conversion and the function call
\* analysis take a version of it for granted (function_call/analyzer.rs:77).
LocalReadsDefined ==
  pass \notin {"returns", "defs"} =>
    \A b \in Onward(prog, {prog.entry}, Blocks), k \in AllKinds :
      k \in UseKinds(b) /\ IsLocal(k) => \E d \in defsIn[b] : d.kind = k

\* A call site is credited exactly with the references, above R or global, that are
\* "accessed after the function call" (block.rs:53-55): in the blocks up to one that
\* writes above R or that another call returns to, if no other call's blocks meet
\* them there.  A global counts although it was overwritten behind the call.
CallEdges ==
  [p \in {p \in Blocks : ~WritesAboveR(p)} |->
     {b \in Succ(prog, p) : CallsReturningTo(prog, b) = {}}]
ReachedByCall(c) == Reach(CallEdges, Succ(prog, c))
CallSites == {b \in Blocks : IsCall(prog, b)}
Credited(c) ==
  {k \in AllKinds : Returnable(k) /\ \E b \in Blocks :
      k \in UseKinds(b) /\ {d \in CallSites : b \in ReachedByCall(d)} = {c}}
CallSitesExact ==
  pass = "done" => \A c \in CallSites : Kinds(accessed[c]) = Credited(c)

\* Not so: "the ID of the first instruction performing such a read" (block.rs:30-33).
UsesAreFirst ==
  \A b \in Blocks : \A u \in Use(b) : \A i \in ReadsBeforeDef(b, u[1]) : u[2][2] <= i
\* Not so: "each operand is associated with the points that it is read" (block.rs:18-20).
LiveAtEachRead == pass \in {"calls", "done"} => \A b \in Blocks : ReadLater(b) \subseteq liveIn[b]
\* Not so: "the unique function call that provided these values" (analyzer.rs:419-422),
\* as a global that was overwritten behind the call counts as provided by it.
CreditsProvided ==
  \A c \in CallSites : \A k \in Kinds(accessed[c]) : \E b \in Blocks :
    k \in UseKinds(b) /\ b \in Onward(prog, Succ(prog, c), NotDefining(k))

\* The analysis of a function ends: no visiting order makes a pass sweep forever.
EventuallyDone == <>(pass = "done")

\* A pass that is over has solved its equations, with sets of the right things.
PassesSound == TypeOK /\ Fixpoint

\* Each result is what the paths of the function say, for every visiting order.
FlowExact == DefsExact /\ LiveExact /\ CallSitesExact
=============================================================================
