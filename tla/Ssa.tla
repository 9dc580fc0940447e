-------------------------------- MODULE Ssa --------------------------------
(***************************************************************************)
(* SSA conversion of one function (ssa/converter.rs).                      *)
(*                                                                         *)
(* A program is a function of LirProgram with what data flow analysis      *)
(* found, as sets of references:                                           *)
(*   inputs        function inputs among the definitions into the entry    *)
(*   live[b]       the keys of live_in of b                                *)
(*   accessed[c]   the keys of return_values_accessed of a calling block   *)
(*                                                                         *)
(* Phi placement and version numbers need no sweep: they are the operators *)
(* PhiKinds, PhiVersion and WriteVersion.  compute_start_end_states loops over *)
(* the keys of a HashMap, in an order that is arbitrary but the same for   *)
(* every sweep; populate_reads_and_phis goes by block id.  HashOrders(S)   *)
(* is the set of the orders in which a map with the keys S may list them.  A *)
(* VersionRegistry is a function on the references it has a version for.   *)
(***************************************************************************)
EXTENDS LirProgram

CONSTANTS Programs, HashOrders(_)

\* The image scanner finds instructions by following control flow, and a function
\* starts with R += N, to which nothing jumps back (image_scanner/scanner.rs:195).
ASSUME ReachableBlocks ==
  \A f \in Programs :
    /\ Onward(f, {f.entry}, f.blocks) = f.blocks
    /\ Preds(f, f.entry) = {}

ASSUME OrdersAreListings ==
  \A f \in Programs : \A o \in HashOrders(f.blocks) :
    /\ o \in [1 .. Cardinality(f.blocks) -> f.blocks]
    /\ {o[i] : i \in DOMAIN o} = f.blocks

\* Block ids are addresses; a function has finitely many blocks and instructions.
ASSUME FunctionsAreFinite ==
  \A f \in Programs :
    \E top \in f.blocks \cup {Len(f.code[b]) : b \in f.blocks} :
      top \in Nat /\ f.blocks \subseteq 0 .. top /\ \A b \in f.blocks : Len(f.code[b]) \in 0 .. top

\* What data flow analysis found (DataFlow: InputDefs, LiveEquation): inputs are
\* locals, and what is live into a successor is live into the block or written in it.
ASSUME DataFlowResults ==
  \A f \in Programs :
    /\ \A k \in f.inputs : IsLocal(k)
    /\ \A b \in f.blocks : \A n \in Succ(f, b) : \A k \in f.live[n] \ f.live[b] :
         \E i \in 1 .. Len(f.code[b]) : k \in f.code[b][i].write

VARIABLES
  prog,      \* the function converted
  order,     \* block_ids of compute_start_end_states
  phase,     \* states, populate, done, panic
  at,        \* states: position in order of the next block to visit
  changed,   \* states: the `changed` flag of the sweep
  start, end,    \* start_state and end_state of each block
  placed,    \* phi_placements: references with a phi function in each block
  start0, end0,  \* initial_start_states, initial_end_states
  built      \* populated blocks: their phi functions and instructions

fixed == <<prog, order, placed, start0, end0>>
vars  == <<fixed, phase, at, changed, start, end, built>>

Blocks == prog.blocks
Writes(b, i) == prog.code[b][i].write
Reads(b, i)  == prog.code[b][i].reads
Positions(b) == 1 .. Len(prog.code[b])

\* A dereference has no versions.
Versionable(k) == k[1] # "D"
GenKinds(b) == {k \in UNION {Writes(b, i) : i \in Positions(b)} : Versionable(k)}
-----------------------------------------------------------------------------
(* Phi placement.                                                          *)

Dominates(d, b) == d = b \/ b \notin Onward(prog, {prog.entry}, Blocks \ {d})

\* Mutant of Frontier: b itself is not among the predecessors b dominates.
FrontierStrict(b) ==
  {n \in Blocks : /\ ~Dominates(b, n) \/ n = b
                  /\ \E d \in Preds(prog, n) \ {b} : Dominates(b, d)}
Frontier(b) ==
  {n \in Blocks : /\ ~Dominates(b, n) \/ n = b
                  /\ \E d \in Preds(prog, n) : Dominates(b, d)}

PhiKinds(n) ==
  {k \in UNION {GenKinds(b) : b \in {b \in Blocks : n \in Frontier(b)}} : k \in prog.live[n]}
    \cup {k \in UNION {prog.accessed[c] : c \in CallsReturningTo(prog, n)} : k[1] \in {"R", "M"}}
-----------------------------------------------------------------------------
(* Version numbers: one counter for each reference, in block order, phi    *)
(* functions before instructions.                                          *)

\* Instruction i of b, or its phi functions for i = 0, take a new version of k.
Defines(b, i, k) == IF i = 0 THEN k \in placed[b] ELSE k \in Writes(b, i)

AllSites == UNION {{b} \X (0 .. Len(prog.code[b])) : b \in Blocks}
Earlier(b, i, k) ==
  {s \in AllSites : Defines(s[1], s[2], k) /\ (s[1] < b \/ (s[1] = b /\ s[2] <= i))}

WriteVersionNoPhi(b, i, k) ==            \* mutant: phi functions not counted
  Cardinality({s \in Earlier(b, i, k) : s[2] > 0})
WriteVersion(b, i, k) == Cardinality(Earlier(b, i, k))
PhiVersion(b, k)      == WriteVersion(b, 0, k)
LastVersion(b, k)     == WriteVersion(b, Len(prog.code[b]), k)

Inputs(b) == IF b = prog.entry THEN prog.inputs ELSE {}

InitialStart(b) ==
  [k \in placed[b] \cup Inputs(b) |-> IF k \in placed[b] THEN PhiVersion(b, k) ELSE 0]
InitialEnd(b) ==
  [k \in (DOMAIN InitialStart(b)) \cup GenKinds(b) |->
     IF k \in GenKinds(b) THEN LastVersion(b, k) ELSE InitialStart(b)[k]]

Init ==
  /\ prog \in Programs
  /\ phase = "states" /\ at = 1 /\ changed = FALSE
  /\ placed = [b \in Blocks |-> PhiKinds(b)]
  /\ start0 = [b \in Blocks |-> InitialStart(b)] /\ start = start0
  /\ end0 = [b \in Blocks |-> InitialEnd(b)] /\ end = end0
  /\ built = [b \in {} |-> {}]
  /\ order \in HashOrders(Blocks)
-----------------------------------------------------------------------------
(* compute_start_end_states.  Predecessors are listed by block id: the last *)
(* one that has a version of a reference overrides the others.             *)

Suppliers(b, k) == {p \in Preds(prog, b) : k \in DOMAIN end[p]}
Incoming(b) == {k \in prog.live[b] \ placed[b] : Suppliers(b, k) # {}}
Supplied(b, k) ==
  LET last == CHOOSE p \in Suppliers(b, k) : \A q \in Suppliers(b, k) : q <= p
  IN  end[last][k]

Update(registry, b, K) ==
  [k \in (DOMAIN registry) \cup K |-> IF k \in K THEN Supplied(b, k) ELSE registry[k]]

VisitBlock ==
  /\ phase = "states" /\ at <= Len(order)
  /\ LET b    == order[at]
         in   == Update(start0[b], b, Incoming(b))
         out  == Update(end0[b], b, Incoming(b) \ DOMAIN end0[b])
     IN  /\ start' = [start EXCEPT ![b] = in]
         /\ end' = [end EXCEPT ![b] = out]
         /\ changed' = (changed \/ in # start[b] \/ out # end[b])
  /\ at' = at + 1
  /\ UNCHANGED <<fixed, phase, built>>

\* Mutant of EndOfSweep: `changed` is not reset.
EndOfSweepStale ==
  /\ phase = "states" /\ at > Len(order)
  /\ IF changed THEN UNCHANGED phase ELSE phase' = "populate"
  /\ at' = 1 /\ UNCHANGED changed
  /\ UNCHANGED <<fixed, start, end, built>>

EndOfSweep ==
  /\ phase = "states" /\ at > Len(order)
  /\ IF changed THEN UNCHANGED phase ELSE phase' = "populate"
  /\ at' = 1 /\ changed' = FALSE
  /\ UNCHANGED <<fixed, start, end, built>>
-----------------------------------------------------------------------------
(* populate_reads_and_phis.                                                *)

Version(registry, k) == IF k \in DOMAIN registry THEN registry[k] ELSE 0

ReadVersion(b, i, k) ==
  IF \E j \in 1 .. i - 1 : k \in Writes(b, j) THEN WriteVersion(b, i - 1, k)
  ELSE Version(start[b], k)

PhiInput(b, p, k) ==
  IF IsCall(prog, p) /\ IsOutgoing(k) THEN PhiVersion(b, k) ELSE Version(end[p], k)

SsaBlock(b) ==
  [phis |-> [k \in placed[b] |->
               [result |-> PhiVersion(b, k),
                inputs |-> [p \in Preds(prog, b) |-> PhiInput(b, p, k)]]],
   code |-> [i \in Positions(b) |->
               [reads |-> {<<k, ReadVersion(b, i, k)>> : k \in {k \in Reads(b, i) : Versionable(k)}},
                write |-> {<<k, WriteVersion(b, i, k)>> : k \in {k \in Writes(b, i) : Versionable(k)}}]]]

\* running_state when the instructions of b have been processed.
RunningState(b) ==
  [k \in (DOMAIN start[b]) \cup GenKinds(b) |->
     IF k \in GenKinds(b) THEN LastVersion(b, k) ELSE start[b][k]]

Populate(b) ==
  /\ phase = "populate" /\ b \notin DOMAIN built
  /\ \A c \in Blocks : c < b => c \in DOMAIN built
  /\ IF RunningState(b) = end[b]               \* assert_eq!
       THEN /\ built' = [c \in (DOMAIN built) \cup {b} |-> IF c = b THEN SsaBlock(b) ELSE built[c]]
            /\ phase' = IF DOMAIN built' = Blocks THEN "done" ELSE phase
       ELSE phase' = "panic" /\ UNCHANGED built
  /\ UNCHANGED <<fixed, at, changed, start, end>>

Finished == phase \in {"done", "panic"} /\ UNCHANGED vars

Next ==
  \/ VisitBlock
  \/ EndOfSweep
  \/ \E b \in Blocks : Populate(b)
  \/ Finished

Spec == Init /\ [][Next]_vars

\* The conversion is a sequence of loops over in-memory maps and never waits.
FairSpec == Spec /\ WF_vars(Next)
-----------------------------------------------------------------------------
Kinds == (UNION {GenKinds(b) \cup placed[b] : b \in Blocks}) \cup prog.inputs

\* Versions are numbers of the function's own references.
TypeOK ==
  /\ order \in [1 .. Cardinality(Blocks) -> Blocks]
  /\ phase \in {"states", "populate", "done", "panic"}
  /\ at \in 1 .. Cardinality(Blocks) + 1 /\ changed \in BOOLEAN
  /\ LET kinds == Kinds
         IsRegistry(r) == DOMAIN r \subseteq kinds /\ \A k \in DOMAIN r : r[k] \in Nat
     IN  \A b \in Blocks : IsRegistry(start[b]) /\ IsRegistry(end[b])
  /\ DOMAIN built \subseteq Blocks

\* The two ways to compute a block's end state agree: the version registry that
\* the sweep propagates and the one obtained by running the block's instructions
\* from its start state (converter.rs:709-710).
NoPanic == phase # "panic"

\* Definition sites <<block, position, reference, version>>; a phi is at 0.
PhiSites(b)  == {<<b, 0, k, built[b].phis[k].result>> : k \in placed[b]}
CodeSites(b) == UNION {{<<b, i, w[1], w[2]>> : w \in built[b].code[i].write} : i \in Positions(b)}
Sites        == UNION {PhiSites(b) \cup CodeSites(b) : b \in Blocks}

\* "every variable is assigned exactly once" (ssa/types.rs:5): version numbers
\* come from a counter that runs over blocks while the phi functions and the
\* writes that take them are found in two different passes.
SingleAssignment ==
  phase = "done" =>
    LET sites == Sites IN
    \A s, t \in sites : s[3] = t[3] /\ s[4] = t[4] => s = t /\ s[4] # 0

\* The versions <<reference, number>> that the instructions of b read and that its
\* phi functions take are the function's inputs or have a definition somewhere: a
\* registry never holds a number that nothing was given.
Read(b)  == UNION {built[b].code[i].reads : i \in Positions(b)}
Taken(b) == UNION {{<<k, built[b].phis[k].inputs[p]>> : p \in Preds(prog, b)} : k \in placed[b]}
UsesDefined ==
  phase = "done" =>
    LET sites == Sites IN
    \A b \in Blocks : \A u \in Read(b) \cup Taken(b) :
      u[2] = 0 \/ \E s \in sites : s[3] = u[1] /\ s[4] = u[2]

\* "every variable is defined before it is used" (ssa/types.rs:6): the version
\* an instruction reads, if not that of the function's entry, is defined earlier
\* in its block or in a block that dominates it; the version a phi takes from a
\* predecessor is defined in a block that dominates the predecessor.
DefinedBefore(sites, b, i, u) ==
  u[2] = 0 \/ \E s \in sites : /\ s[3] = u[1] /\ s[4] = u[2]
                               /\ s[1] = b => s[2] < i
                               /\ Dominates(s[1], b)
DefinitionsDominate ==
  phase = "done" =>
    LET sites == Sites IN
    \A b \in Blocks :
      /\ \A i \in Positions(b) : \A u \in built[b].code[i].reads : DefinedBefore(sites, b, i, u)
      /\ \A k \in placed[b], p \in Preds(prog, b) :
           \/ DefinedBefore(sites, p, Len(prog.code[p]) + 1, <<k, built[b].phis[k].inputs[p]>>)
           \/ IsCall(prog, p) /\ IsOutgoing(k)

\* A block sees, of a reference that is live and has no phi there, the version
\* of the nearest dominating block that defines one, whichever order the sweeps
\* took the blocks in and whichever predecessor came last.
Definers(b, k) == {c \in Blocks \ {b} : k \in DOMAIN end0[c] /\ Dominates(c, b)}
Nearest(b, k)  == CHOOSE c \in Definers(b, k) : \A d \in Definers(b, k) : Dominates(d, c)
NearestDefinition ==
  phase = "done" =>
    \A b \in Blocks \ {prog.entry} : \A k \in prog.live[b] \ placed[b] :
      Version(start[b], k) = IF Definers(b, k) = {} THEN 0 ELSE end0[Nearest(b, k)][k]

\* Where there is no phi, all predecessors hand over the same version: otherwise
\* "this implies an issue earlier" (converter.rs:590-591), and the one that
\* comes last wins.
MergesAgree ==
  phase = "done" =>
    \A b \in Blocks : \A k \in prog.live[b] \ placed[b], p \in Preds(prog, b) :
      Version(end[p], k) = Version(start[b], k)

\* A phi function is a definition as well, but phi functions are only placed in
\* the frontiers of blocks that write (converter.rs:288-308).  That of a block
\* with a phi function has them too in some functions, not in all (nested_branch).
PhisComplete ==
  \A b \in Blocks : \A k \in PhiKinds(b) : \A n \in Frontier(b) :
    k \in prog.live[n] => k \in PhiKinds(n)

\* The sweeps reach a fixpoint: conversion ends, for every order.
EventuallyDone == <>(phase \in {"done", "panic"})

\* SSA form: the assertion holds, each version has one definition, and each use
\* has one.
SsaForm == NoPanic /\ SingleAssignment /\ UsesDefined

\* That definition dominates the use, no nearer one is missed, and all
\* predecessors hand over the same.
UsesDominated == DefinitionsDominate /\ NearestDefinition /\ MergesAgree
=============================================================================
