----------------------------- MODULE SsaProofs -----------------------------
(***************************************************************************)
(* Proofs about Ssa, for any functions and any order of the sweeps.        *)
(*                                                                         *)
(* A version number is the number of definitions of the reference up to    *)
(* its own, so two definitions of one reference have different numbers     *)
(* (VersionsDiffer).  Every number in a registry is the number of some     *)
(* definition (IsVersion): it starts as one, and a sweep only copies.      *)
(* A visit computes both states of a block from scratch, and what running  *)
(* the block's instructions would leave is its end state (EndIsRunning);   *)
(* the entry block, into which nothing can flow, is where this needs care. *)
(*                                                                         *)
(* Dominance is avoiding: d dominates b if b is not reached without leaving *)
(* d, and what Reach says of that gives the order (Dominates...).  Where   *)
(* phi functions are complete, a definition that dominates a predecessor   *)
(* dominates the block or the block has a phi function (NoPhiDominated), so *)
(* that registries hold versions of the nearest definition (FromNearest); a *)
(* sweep that changed nothing has settled all blocks (SweepSettles), and   *)
(* then no definition is missed (Arrives).                                 *)
(***************************************************************************)
EXTENDS Ssa, ReachabilityProofs

\* A number some definition of k was given, or 0, the version at entry.
IsVersion(k, v) ==
  v = 0 \/ \E s \in AllSites : Defines(s[1], s[2], k) /\ v = WriteVersion(s[1], s[2], k)

Recorded(registry) == \A k \in DOMAIN registry : IsVersion(k, registry[k])

\* What is fixed before the sweeps.
Setup ==
  /\ prog \in Programs
  /\ \A b \in Blocks : \A k \in placed[b] : Versionable(k)
  /\ start0 = [b \in Blocks |-> InitialStart(b)]
  /\ end0 = [b \in Blocks |-> InitialEnd(b)]
  /\ order \in HashOrders(Blocks)

\* Running the instructions of a block from its start state gives its end state.
EndIsRunning == \A b \in Blocks : end[b] = RunningState(b)

StatesRecorded ==
  /\ DOMAIN start = Blocks /\ DOMAIN end = Blocks
  /\ \A b \in Blocks : Recorded(start[b]) /\ Recorded(end[b])

\* Blocks are populated once the sweeps have ended, from states that stay.
BuiltFromStates ==
  /\ phase = "states" => DOMAIN built = {}
  /\ phase = "done" => DOMAIN built = Blocks
  /\ \A b \in DOMAIN built : built[b] = SsaBlock(b)

IInv == Setup /\ TypeOK /\ EndIsRunning /\ StatesRecorded /\ BuiltFromStates /\ NoPanic
-----------------------------------------------------------------------------
(* Natural numbers, sites and versions.                                    *)

LEMMA MaximumExists ==
  ASSUME NEW n \in Nat, NEW S, S \subseteq 0 .. n, S # {}
  PROVE  \E m \in S : \A x \in S : x <= m
<1> DEFINE T == {d \in 0 .. n : n - d \in S}
<1>1. T \subseteq Nat
  OBVIOUS
<1>2. T # {}
  <2>1. PICK x \in S : TRUE
    OBVIOUS
  <2>2. x \in 0 .. n /\ n - (n - x) = x /\ n - x \in 0 .. n
    BY <2>1
  <2> QED BY <2>1, <2>2
<1>3. PICK d \in T : \A e \in T : ~ (<<e, d>> \in OpToRel(<, Nat))
  <2> HIDE DEF T
  <2> QED BY <1>1, <1>2, NatLessThanWellFounded, WFMin
<1>4. \A e \in T : ~ (e < d)
  BY <1>1, <1>3 DEF OpToRel
<1>5. n - d \in S
  OBVIOUS
<1>6. ASSUME NEW x \in S PROVE x <= n - d
  <2>1. x \in 0 .. n /\ n - (n - x) = x /\ n - x \in 0 .. n
    OBVIOUS
  <2>2. n - x \in T
    BY <2>1
  <2>3. ~ (n - x < d)
    BY <1>4, <2>2
  <2>4. x \in Int /\ d \in Int
    BY <2>1
  <2> QED BY <2>3, <2>4
<1> QED BY <1>5, <1>6

LEMMA FunctionSizes ==
  ASSUME prog \in Programs
  PROVE  \E top \in Nat : Blocks \subseteq 0 .. top /\ \A b \in Blocks : Len(prog.code[b]) \in 0 .. top
BY FunctionsAreFinite DEF Blocks

\* Pairs of a block and a position in it.
LEMMA SiteOf ==
  ASSUME NEW b, NEW i
  PROVE  <<b, i>> \in AllSites <=> b \in Blocks /\ i \in 0 .. Len(prog.code[b])
BY DEF AllSites

LEMMA SiteIsPair ==
  ASSUME NEW s \in AllSites
  PROVE  /\ s = <<s[1], s[2]>> /\ s[1] \in Blocks
         /\ s[2] \in 0 .. Len(prog.code[s[1]])
BY DEF AllSites

LEMMA SitesAreNumbers ==
  ASSUME prog \in Programs, NEW s \in AllSites
  PROVE  s[1] \in Nat /\ s[2] \in Nat
BY FunctionSizes, SiteIsPair

LEMMA SitesAreFinite ==
  ASSUME prog \in Programs
  PROVE  IsFiniteSet(AllSites)
<1>1. PICK top \in Nat : Blocks \subseteq 0 .. top /\ \A b \in Blocks : Len(prog.code[b]) \in 0 .. top
  BY FunctionSizes
<1>2. IsFiniteSet((0 .. top) \X (0 .. top))
  <2>1. IsFiniteSet(0 .. top)
    BY <1>1, FS_Interval
  <2> QED BY <2>1, FS_Product
<1>3. ASSUME NEW s \in AllSites PROVE s \in (0 .. top) \X (0 .. top)
  <2>1. s = <<s[1], s[2]>> /\ s[1] \in Blocks /\ s[2] \in 0 .. Len(prog.code[s[1]])
    BY SiteIsPair
  <2>2. s[1] \in 0 .. top /\ s[2] \in 0 .. top
    BY <1>1, <2>1
  <2> QED BY <2>1, <2>2
<1> QED BY <1>2, <1>3, FS_Subset

\* The sites counted in a version are finitely many.
LEMMA VersionsAreNumbers ==
  ASSUME prog \in Programs, NEW b, NEW i, NEW k
  PROVE  IsFiniteSet(Earlier(b, i, k)) /\ WriteVersion(b, i, k) \in Nat
<1>1. Earlier(b, i, k) \subseteq AllSites
  BY DEF Earlier
<1> QED BY <1>1, SitesAreFinite, FS_Subset, FS_CardinalityType DEF WriteVersion

\* A definition counts itself.
LEMMA VersionNotZero ==
  ASSUME prog \in Programs, NEW b, NEW i, NEW k,
         <<b, i>> \in AllSites, Defines(b, i, k)
  PROVE  WriteVersion(b, i, k) # 0
<1>1. <<b, i>> \in Earlier(b, i, k)
  BY SitesAreNumbers DEF Earlier
<1> QED BY <1>1, VersionsAreNumbers, FS_EmptySet DEF WriteVersion

\* A later definition has a higher number.
LEMMA VersionsGrow ==
  ASSUME prog \in Programs, NEW b, NEW i, NEW c, NEW j, NEW k,
         <<b, i>> \in AllSites, <<c, j>> \in AllSites, Defines(c, j, k),
         b < c \/ (b = c /\ i < j)
  PROVE  WriteVersion(b, i, k) < WriteVersion(c, j, k)
<1>1. b \in Nat /\ i \in Nat /\ c \in Nat /\ j \in Nat
  BY SitesAreNumbers
<1>2. Earlier(b, i, k) \subseteq Earlier(c, j, k)
  BY <1>1, SitesAreNumbers DEF Earlier
<1>3. <<c, j>> \in Earlier(c, j, k) /\ <<c, j>> \notin Earlier(b, i, k)
  BY <1>1 DEF Earlier
<1>4. IsFiniteSet(Earlier(c, j, k))
  BY VersionsAreNumbers
<1>5. Cardinality(Earlier(b, i, k)) < Cardinality(Earlier(c, j, k))
  BY <1>2, <1>3, <1>4, FS_Subset, VersionsAreNumbers, FS_CardinalityType
<1> QED BY <1>5 DEF WriteVersion

\* Two definitions of one reference have different numbers.
LEMMA VersionsDiffer ==
  ASSUME prog \in Programs, NEW b, NEW i, NEW c, NEW j, NEW k,
         <<b, i>> \in AllSites, <<c, j>> \in AllSites,
         Defines(b, i, k), Defines(c, j, k),
         WriteVersion(b, i, k) = WriteVersion(c, j, k)
  PROVE  b = c /\ i = j
<1>1. b \in Nat /\ i \in Nat /\ c \in Nat /\ j \in Nat
  BY SitesAreNumbers
<1>2. WriteVersion(b, i, k) \in Nat /\ WriteVersion(c, j, k) \in Nat
  BY VersionsAreNumbers
<1>3. ~(b < c \/ (b = c /\ i < j))
  BY <1>2, VersionsGrow
<1>4. ~(c < b \/ (c = b /\ j < i))
  BY <1>2, VersionsGrow
<1> QED BY <1>1, <1>3, <1>4

\* After some of its instructions, the number of a reference that they write is
\* that of the last one that writes it.
LEMMA LastWriteAt ==
  ASSUME prog \in Programs, NEW b \in Blocks, NEW i \in 0 .. Len(prog.code[b]), NEW k,
         \E j \in 1 .. i : k \in Writes(b, j)
  PROVE  \E m \in 1 .. i : k \in Writes(b, m) /\ WriteVersion(b, i, k) = WriteVersion(b, m, k)
<1>1. Len(prog.code[b]) \in Nat /\ b \in Nat
  BY FunctionSizes
<1> DEFINE S == {j \in 1 .. i : k \in Writes(b, j)}
<1>2. PICK m \in S : \A x \in S : x <= m
  <2>1. S \subseteq 0 .. i /\ S # {} /\ i \in Nat
    BY <1>1
  <2> HIDE DEF S
  <2> QED BY <2>1, MaximumExists
<1>3. m \in 1 .. i /\ k \in Writes(b, m) /\ \A x \in m + 1 .. i : k \notin Writes(b, x)
  BY <1>1, <1>2
<1>5. ASSUME NEW s \in AllSites PROVE s \in Earlier(b, i, k) <=> s \in Earlier(b, m, k)
  <2>1. s[1] \in Nat /\ s[2] \in Nat
    BY SitesAreNumbers
  <2>2. ASSUME s[1] = b, s[2] <= i, Defines(s[1], s[2], k) PROVE s[2] <= m
    <3>1. s[2] \in m + 1 .. i => s[2] # 0 /\ k \in Writes(b, s[2])
      BY <1>3, <2>1, <2>2 DEF Defines
    <3> QED BY <1>1, <1>3, <2>1, <2>2, <3>1
  <2> QED BY <1>1, <1>3, <2>1, <2>2 DEF Earlier
<1>6. Earlier(b, i, k) = Earlier(b, m, k)
  BY <1>5 DEF Earlier
<1>7. WriteVersion(b, i, k) = WriteVersion(b, m, k)
  BY <1>6 DEF WriteVersion
<1> QED BY <1>3, <1>7
LEMMA LastWrite ==
  ASSUME prog \in Programs, NEW b \in Blocks, NEW i \in 0 .. Len(prog.code[b]), NEW k,
         \E j \in 1 .. i : k \in Writes(b, j)
  PROVE  IsVersion(k, WriteVersion(b, i, k))
<1>1. PICK m \in 1 .. i : k \in Writes(b, m) /\ WriteVersion(b, i, k) = WriteVersion(b, m, k)
  BY LastWriteAt
<1>2. <<b, m>> \in AllSites /\ Defines(b, m, k)
  <2>1. Len(prog.code[b]) \in Nat
    BY FunctionSizes
  <2> QED BY <1>1, <2>1, SiteOf DEF Defines
<1> QED BY <1>1, <1>2 DEF IsVersion
-----------------------------------------------------------------------------
(* Registries.                                                             *)

LEMMA GenIsWritten ==
  ASSUME NEW b, NEW k \in GenKinds(b)
  PROVE  Versionable(k) /\ \E j \in 1 .. Len(prog.code[b]) : k \in Writes(b, j)
BY DEF GenKinds, Positions

LEMMA LastIsVersion ==
  ASSUME prog \in Programs, NEW b \in Blocks, NEW k \in GenKinds(b)
  PROVE  IsVersion(k, LastVersion(b, k))
<1>1. Len(prog.code[b]) \in 0 .. Len(prog.code[b])
  BY FunctionSizes
<1> QED BY <1>1, GenIsWritten, LastWrite DEF LastVersion

LEMMA PhiIsVersion ==
  ASSUME prog \in Programs, NEW b \in Blocks, NEW k \in placed[b]
  PROVE  IsVersion(k, PhiVersion(b, k))
<1>1. <<b, 0>> \in AllSites /\ Defines(b, 0, k)
  BY FunctionSizes, SiteOf DEF Defines
<1> QED BY <1>1 DEF IsVersion, PhiVersion

LEMMA InitialRecorded ==
  ASSUME prog \in Programs, NEW b \in Blocks
  PROVE  Recorded(InitialStart(b)) /\ Recorded(InitialEnd(b))
<1>1. Recorded(InitialStart(b))
  BY PhiIsVersion DEF Recorded, InitialStart, IsVersion
<1>2. ASSUME NEW k \in DOMAIN InitialEnd(b) PROVE IsVersion(k, InitialEnd(b)[k])
  <2>1. k \in (DOMAIN InitialStart(b)) \cup GenKinds(b)
    BY DEF InitialEnd
  <2>2. CASE k \in GenKinds(b)
    BY <2>2, LastIsVersion DEF InitialEnd
  <2>3. CASE k \notin GenKinds(b)
    BY <2>1, <2>3, <1>1 DEF InitialEnd, Recorded
  <2> QED BY <2>2, <2>3
<1> QED BY <1>1, <1>2 DEF Recorded

LEMMA LastSupplier ==
  ASSUME prog \in Programs, NEW b, NEW k \in Incoming(b)
  PROVE  \E p \in Suppliers(b, k) : \A q \in Suppliers(b, k) : q <= p
<1>1. PICK top \in Nat : Blocks \subseteq 0 .. top
  BY FunctionSizes
<1>2. Suppliers(b, k) \subseteq Blocks /\ Suppliers(b, k) # {}
  BY DEF Suppliers, Preds, Blocks, Incoming
<1> QED BY <1>1, <1>2, MaximumExists

\* What flows in comes from the end state of a predecessor that has it.
LEMMA SuppliedByOne ==
  ASSUME prog \in Programs, NEW b, NEW k \in Incoming(b)
  PROVE  \E p \in Preds(prog, b) :
           p \in Blocks /\ k \in DOMAIN end[p] /\ Supplied(b, k) = end[p][k]
<1>2. Suppliers(b, k) \subseteq Blocks
  BY DEF Suppliers, Preds, Blocks
<1>3. \E p \in Suppliers(b, k) : \A q \in Suppliers(b, k) : q <= p
  BY LastSupplier
<1> DEFINE last == CHOOSE p \in Suppliers(b, k) : \A q \in Suppliers(b, k) : q <= p
<1>4. last \in Suppliers(b, k)
  BY <1>3
<1>5. Supplied(b, k) = end[last][k]
  BY DEF Supplied
<1> HIDE DEF last
<1> QED BY <1>2, <1>4, <1>5 DEF Suppliers

\* A sweep copies versions.
LEMMA UpdateRecorded ==
  ASSUME prog \in Programs, StatesRecorded, NEW b, NEW r, Recorded(r),
         NEW K, K \subseteq Incoming(b)
  PROVE  Recorded(Update(r, b, K))
<1>1. ASSUME NEW k \in K PROVE IsVersion(k, Supplied(b, k))
  <2>1. PICK p \in Blocks : k \in DOMAIN end[p] /\ Supplied(b, k) = end[p][k]
    BY SuppliedByOne
  <2> QED BY <2>1 DEF StatesRecorded, Recorded
<1> QED BY <1>1 DEF Recorded, Update

\* Running a block's instructions leaves what the sweep leaves: what flows in
\* replaces nothing but the inputs of the entry block, and there nothing does.
LEMMA VisitMatches ==
  ASSUME prog \in Programs, NEW b \in Blocks
  PROVE  LET in == Update(InitialStart(b), b, Incoming(b))
         IN  Update(InitialEnd(b), b, Incoming(b) \ DOMAIN InitialEnd(b)) =
             [k \in (DOMAIN in) \cup GenKinds(b) |->
                IF k \in GenKinds(b) THEN LastVersion(b, k) ELSE in[k]]
<1> DEFINE in  == Update(InitialStart(b), b, Incoming(b))
           K   == Incoming(b) \ DOMAIN InitialEnd(b)
           out == Update(InitialEnd(b), b, K)
           run == [k \in (DOMAIN in) \cup GenKinds(b) |->
                     IF k \in GenKinds(b) THEN LastVersion(b, k) ELSE in[k]]
<1>1. Incoming(b) \cap DOMAIN InitialStart(b) = {}
  <2>1. b = prog.entry => Incoming(b) = {}
    BY ReachableBlocks DEF Incoming, Suppliers
  <2> QED BY <2>1 DEF InitialStart, Inputs, Incoming
<1>2. DOMAIN InitialEnd(b) = (DOMAIN InitialStart(b)) \cup GenKinds(b)
  BY DEF InitialEnd
<1>3. DOMAIN in = (DOMAIN InitialStart(b)) \cup Incoming(b)
  BY DEF Update
<1>4. DOMAIN out = (DOMAIN in) \cup GenKinds(b)
  BY <1>2, <1>3 DEF Update
<1>5. ASSUME NEW k \in (DOMAIN in) \cup GenKinds(b) PROVE out[k] = run[k]
  <2>1. CASE k \in GenKinds(b)
    BY <2>1, <1>2 DEF Update, InitialEnd
  <2>2. CASE k \notin GenKinds(b) /\ k \in Incoming(b)
    BY <2>2, <1>1, <1>2, <1>3 DEF Update
  <2>3. CASE k \notin GenKinds(b) /\ k \notin Incoming(b)
    BY <2>3, <1>2, <1>3 DEF Update, InitialEnd
  <2> QED BY <2>1, <2>2, <2>3
<1>6. /\ out = [k \in DOMAIN out |-> out[k]]
      /\ run = [k \in (DOMAIN in) \cup GenKinds(b) |-> run[k]]
  BY DEF Update
<1> HIDE DEF in, out, run
<1> SUFFICES out = run
  BY DEF in, out, run
<1> QED BY <1>4, <1>5, <1>6

-----------------------------------------------------------------------------
(* The function and its phi functions stay, and with them what depends on them. *)

LEMMA VersionsKept ==
  ASSUME prog' = prog, placed' = placed
  PROVE  /\ AllSites' = AllSites
         /\ \A b, i, k : Defines(b, i, k)' <=> Defines(b, i, k)
         /\ \A b, i, k : WriteVersion(b, i, k)' = WriteVersion(b, i, k)
<1>1. AllSites' = AllSites
  BY DEF AllSites, Blocks
<1>2. \A b, i, k : Defines(b, i, k)' <=> Defines(b, i, k)
  BY DEF Defines, Writes
<1>3. \A b, i, k : Earlier(b, i, k)' = Earlier(b, i, k)
  BY <1>1, <1>2 DEF Earlier
<1>4. \A b, i, k : WriteVersion(b, i, k)' = WriteVersion(b, i, k)
  BY <1>3 DEF WriteVersion
<1> QED BY <1>1, <1>2, <1>4

LEMMA IsVersionKept ==
  ASSUME prog' = prog, placed' = placed, NEW k, NEW v
  PROVE  IsVersion(k, v)' <=> IsVersion(k, v)
BY VersionsKept DEF IsVersion

LEMMA RecordedKept ==
  ASSUME prog' = prog, placed' = placed, NEW b
  PROVE  /\ Recorded(start'[b]) => Recorded(start[b])'
         /\ Recorded(end'[b]) => Recorded(end[b])'
BY IsVersionKept DEF Recorded

LEMMA GenKept ==
  ASSUME prog' = prog, placed' = placed
  PROVE  /\ Blocks' = Blocks /\ Kinds' = Kinds
         /\ \A b : GenKinds(b)' = GenKinds(b)
<1>1. Blocks' = Blocks
  BY DEF Blocks
<1>2. \A b : GenKinds(b)' = GenKinds(b)
  BY DEF GenKinds, Writes, Positions
<1>3. Kinds' = Kinds
  BY <1>1, <1>2 DEF Kinds
<1> QED BY <1>1, <1>2, <1>3

LEMMA LastKept ==
  ASSUME prog' = prog, placed' = placed
  PROVE  \A b, k : /\ LastVersion(b, k)' = LastVersion(b, k)
                   /\ PhiVersion(b, k)' = PhiVersion(b, k)
BY VersionsKept DEF LastVersion, PhiVersion

LEMMA InitialKept ==
  ASSUME prog' = prog, placed' = placed
  PROVE  \A b : InitialStart(b)' = InitialStart(b) /\ InitialEnd(b)' = InitialEnd(b)
<1>1. \A b : InitialStart(b)' = InitialStart(b)
  BY LastKept DEF InitialStart, Inputs
<1>2. \A b : InitialEnd(b)' = InitialEnd(b)
  BY <1>1, LastKept, GenKept DEF InitialEnd
<1> QED BY <1>1, <1>2

LEMMA RunningKept ==
  ASSUME prog' = prog, placed' = placed, NEW b
  PROVE  RunningState(b)' =
           [k \in (DOMAIN start'[b]) \cup GenKinds(b) |->
              IF k \in GenKinds(b) THEN LastVersion(b, k) ELSE start'[b][k]]
BY GenKept, LastKept DEF RunningState

\* A populated block stays what it was.
LEMMA SsaBlockKept ==
  ASSUME prog' = prog, placed' = placed, start' = start, end' = end, NEW b
  PROVE  SsaBlock(b)' = SsaBlock(b)
<1>1. \A p, k : PhiInput(b, p, k)' = PhiInput(b, p, k)
  BY LastKept DEF PhiInput, Version
<1>2. \A i, k : ReadVersion(b, i, k)' = ReadVersion(b, i, k)
  BY VersionsKept DEF ReadVersion, Version, Writes
<1> QED BY <1>1, <1>2, VersionsKept, LastKept DEF SsaBlock, Positions, Reads, Writes

LEMMA SetupKept ==
  ASSUME Setup, UNCHANGED fixed
  PROVE  Setup'
<1>1. \A b \in Blocks : InitialStart(b)' = InitialStart(b) /\ InitialEnd(b)' = InitialEnd(b)
  BY InitialKept DEF fixed
<1>2. start0' = [b \in Blocks |-> InitialStart(b)]'
  BY <1>1 DEF Setup, fixed, Blocks
<1>3. end0' = [b \in Blocks |-> InitialEnd(b)]'
  BY <1>1 DEF Setup, fixed, Blocks
<1> QED BY <1>2, <1>3 DEF Setup, fixed, Blocks
-----------------------------------------------------------------------------
(* The invariant.                                                          *)

\* A registry of the function's own references and of numbers.
OwnNumbers(registry) ==
  DOMAIN registry \subseteq Kinds /\ \A k \in DOMAIN registry : registry[k] \in Nat

LEMMA RecordedAreNumbers ==
  ASSUME prog \in Programs, NEW registry, Recorded(registry),
         NEW k \in DOMAIN registry
  PROVE  registry[k] \in Nat
BY VersionsAreNumbers DEF Recorded, IsVersion

LEMMA InitialKinds ==
  ASSUME NEW b \in Blocks
  PROVE  DOMAIN InitialStart(b) \subseteq Kinds /\ DOMAIN InitialEnd(b) \subseteq Kinds
<1>1. GenKinds(b) \cup placed[b] \cup Inputs(b) \subseteq Kinds
  BY DEF Kinds, Inputs
<1> QED BY <1>1 DEF InitialStart, InitialEnd

\* The order of the sweeps lists the blocks.
LEMMA OrderLists ==
  ASSUME Setup
  PROVE  /\ order \in [1 .. Cardinality(Blocks) -> Blocks]
         /\ Cardinality(Blocks) \in Nat /\ Len(order) = Cardinality(Blocks)
<1>1. order \in [1 .. Cardinality(Blocks) -> Blocks]
  BY OrdersAreListings DEF Setup, Blocks
<1>2. Cardinality(Blocks) \in Nat
  <2>1. PICK top \in Nat : Blocks \subseteq 0 .. top
    BY FunctionSizes DEF Setup
  <2>2. IsFiniteSet(0 .. top)
    BY <2>1, FS_Interval
  <2> QED BY <2>1, <2>2, FS_Subset, FS_CardinalityType
<1>3. order \in Seq(Blocks) /\ Len(order) = Cardinality(Blocks)
  BY <1>1, <1>2
<1> QED BY <1>1, <1>2, <1>3

\* Phi functions are for references that have versions.
LEMMA PhisVersionable ==
  ASSUME NEW b, NEW k \in PhiKinds(b)
  PROVE  Versionable(k)
BY DEF PhiKinds, GenKinds, Versionable

LEMMA InitIInv == Init => IInv
<1> SUFFICES ASSUME Init PROVE IInv
  OBVIOUS
<1>1. Setup
  BY PhisVersionable DEF Init, Setup
<1>2. \A b \in Blocks : start[b] = InitialStart(b) /\ end[b] = InitialEnd(b)
  BY DEF Init
<1>3. StatesRecorded
  BY <1>2, InitialRecorded DEF Init, StatesRecorded
<1>4. EndIsRunning
  BY <1>2 DEF EndIsRunning, RunningState, InitialEnd
<1>5. BuiltFromStates /\ NoPanic
  BY DEF Init, BuiltFromStates, NoPanic
<1>6. \A b \in Blocks : OwnNumbers(start[b]) /\ OwnNumbers(end[b])
  BY <1>2, <1>3, InitialKinds, RecordedAreNumbers DEF OwnNumbers, StatesRecorded, Init
<1>7. TypeOK
  <2>1. order \in [1 .. Cardinality(Blocks) -> Blocks] /\ at \in 1 .. Cardinality(Blocks) + 1
    BY <1>1, OrderLists DEF Init
  <2>2. phase = "states" /\ changed \in BOOLEAN /\ DOMAIN built \subseteq Blocks
    BY DEF Init
  <2> QED BY <1>6, <2>1, <2>2 DEF TypeOK, OwnNumbers
<1> QED BY <1>1, <1>3, <1>4, <1>5, <1>7 DEF IInv

\* Registries that stay are still typed.
LEMMA TypesKept ==
  ASSUME TypeOK, prog' = prog, placed' = placed, start' = start, end' = end
  PROVE  \A b \in Blocks' : OwnNumbers(start[b])' /\ OwnNumbers(end[b])'
BY GenKept DEF TypeOK, OwnNumbers

LEMMA VisitKeeps ==
  ASSUME IInv, VisitBlock
  PROVE  IInv'
<1>1. Setup'
  BY SetupKept DEF IInv, VisitBlock
<1>2. prog' = prog /\ placed' = placed /\ Blocks' = Blocks /\ prog \in Programs
  BY DEF VisitBlock, fixed, Blocks, IInv, Setup
<1> DEFINE b   == order[at]
           in  == Update(start0[b], b, Incoming(b))
           out == Update(end0[b], b, Incoming(b) \ DOMAIN end0[b])
<1>3. b \in Blocks
  BY OrderLists DEF IInv, VisitBlock, TypeOK
<1>4. start' = [start EXCEPT ![b] = in] /\ end' = [end EXCEPT ![b] = out]
  BY DEF VisitBlock
<1>5. /\ DOMAIN start' = Blocks /\ DOMAIN end' = Blocks
      /\ start'[b] = in /\ end'[b] = out
      /\ \A c \in Blocks \ {b} : start'[c] = start[c] /\ end'[c] = end[c]
  BY <1>3, <1>4 DEF IInv, StatesRecorded
<1>6. start0[b] = InitialStart(b) /\ end0[b] = InitialEnd(b)
  BY <1>3 DEF IInv, Setup
<1>7. Recorded(in) /\ Recorded(out)
  BY <1>2, <1>3, <1>6, InitialRecorded, UpdateRecorded DEF IInv
<1>8. DOMAIN in \subseteq Kinds /\ DOMAIN out \subseteq Kinds
  <2>1. Incoming(b) \subseteq Kinds
    <3> SUFFICES ASSUME NEW k \in Incoming(b) PROVE k \in Kinds
      OBVIOUS
    <3>1. PICK p \in Blocks : k \in DOMAIN end[p]
      BY <1>2, SuppliedByOne
    <3> QED BY <3>1 DEF IInv, TypeOK
  <2> QED BY <1>3, <1>6, <2>1, InitialKinds DEF Update
<1>9. out = [k \in (DOMAIN in) \cup GenKinds(b) |->
               IF k \in GenKinds(b) THEN LastVersion(b, k) ELSE in[k]]
  BY <1>2, <1>3, <1>6, VisitMatches
<1> HIDE DEF b, in, out
<1>10. StatesRecorded'
  <2>1. \A c \in Blocks : Recorded(start'[c]) /\ Recorded(end'[c])
    BY <1>3, <1>5, <1>7 DEF IInv, StatesRecorded
  <2> QED BY <1>2, <1>5, <2>1, RecordedKept DEF StatesRecorded
<1>11. EndIsRunning'
  <2> SUFFICES ASSUME NEW c \in Blocks PROVE end'[c] = RunningState(c)'
    BY <1>2 DEF EndIsRunning
  <2>1. CASE c = b
    BY <1>2, <1>5, <1>9, <2>1, RunningKept
  <2>2. CASE c # b
    <3>1. start'[c] = start[c] /\ end'[c] = end[c]
      BY <1>5, <2>2
    <3>2. end[c] = RunningState(c)
      BY DEF IInv, EndIsRunning
    <3> QED BY <1>2, <3>1, <3>2, RunningKept DEF RunningState
  <2> QED BY <2>1, <2>2
<1>12. BuiltFromStates' /\ NoPanic'
  BY DEF VisitBlock, IInv, BuiltFromStates, NoPanic
<1>13. \A c \in Blocks : OwnNumbers(start'[c]) /\ OwnNumbers(end'[c])
  BY <1>2, <1>3, <1>5, <1>7, <1>8, RecordedAreNumbers DEF IInv, TypeOK, OwnNumbers
<1>14. TypeOK'
  <2>1. /\ order' \in [1 .. Cardinality(Blocks') -> Blocks']
        /\ phase' \in {"states", "populate", "done", "panic"}
        /\ at' \in 1 .. Cardinality(Blocks') + 1
        /\ DOMAIN built' \subseteq Blocks'
    BY <1>2, OrderLists DEF VisitBlock, IInv, TypeOK, fixed
  <2>2. changed' \in BOOLEAN
    BY DEF VisitBlock, IInv, TypeOK
  <2>3. Kinds' = Kinds
    BY <1>2, GenKept
  <2> QED BY <1>2, <1>13, <2>1, <2>2, <2>3 DEF TypeOK, OwnNumbers
<1> QED BY <1>1, <1>10, <1>11, <1>12, <1>14 DEF IInv

\* The steps that leave the states alone keep what is said of them.
LEMMA StatesStay ==
  ASSUME IInv, UNCHANGED <<fixed, start, end>>
  PROVE  /\ Setup' /\ EndIsRunning' /\ StatesRecorded'
         /\ Blocks' = Blocks /\ Kinds' = Kinds
<1>1. prog' = prog /\ placed' = placed /\ start' = start /\ end' = end /\ Blocks' = Blocks
  BY DEF fixed, Blocks
<1>2. Setup'
  BY SetupKept DEF IInv
<1>3. EndIsRunning'
  BY <1>1, RunningKept DEF IInv, EndIsRunning, RunningState
<1>4. StatesRecorded'
  BY <1>1, RecordedKept DEF IInv, StatesRecorded
<1> QED BY <1>1, <1>2, <1>3, <1>4, GenKept

LEMMA SweepEndKeeps ==
  ASSUME IInv, EndOfSweep
  PROVE  IInv'
<1>1. Setup' /\ EndIsRunning' /\ StatesRecorded' /\ Blocks' = Blocks /\ Kinds' = Kinds
  BY StatesStay DEF EndOfSweep
<1>2. BuiltFromStates' /\ NoPanic'
  BY DEF EndOfSweep, IInv, BuiltFromStates, NoPanic
<1>3. 1 \in 1 .. Cardinality(Blocks) + 1
  BY OrderLists DEF IInv
<1>4. TypeOK'
  BY <1>1, <1>3 DEF EndOfSweep, IInv, TypeOK, fixed
<1> QED BY <1>1, <1>2, <1>4 DEF IInv

LEMMA PopulateKeeps ==
  ASSUME IInv, NEW b \in Blocks, Populate(b)
  PROVE  IInv'
<1>1. Setup' /\ EndIsRunning' /\ StatesRecorded' /\ Blocks' = Blocks /\ Kinds' = Kinds
  BY StatesStay DEF Populate
<1>2. RunningState(b) = end[b]
  BY DEF IInv, EndIsRunning
<1>3. /\ built' = [c \in (DOMAIN built) \cup {b} |-> IF c = b THEN SsaBlock(b) ELSE built[c]]
      /\ phase' = IF DOMAIN built' = Blocks THEN "done" ELSE phase
      /\ phase = "populate"
  BY <1>2 DEF Populate
<1>4. \A c \in DOMAIN built' : built'[c] = SsaBlock(c)
  BY <1>3 DEF IInv, BuiltFromStates
<1>5. \A c : SsaBlock(c)' = SsaBlock(c)
  BY SsaBlockKept DEF Populate, fixed
<1>6. BuiltFromStates' /\ NoPanic'
  BY <1>1, <1>3, <1>4, <1>5 DEF BuiltFromStates, NoPanic
<1>7. TypeOK'
  BY <1>1, <1>3 DEF Populate, IInv, TypeOK, fixed
<1> QED BY <1>1, <1>6, <1>7 DEF IInv

LEMMA StutterKeeps ==
  ASSUME IInv, UNCHANGED vars
  PROVE  IInv'
<1>1. Setup' /\ EndIsRunning' /\ StatesRecorded' /\ Blocks' = Blocks /\ Kinds' = Kinds
  BY StatesStay DEF vars
<1>2. \A c : SsaBlock(c)' = SsaBlock(c)
  BY SsaBlockKept DEF vars, fixed
<1>3. BuiltFromStates' /\ NoPanic'
  BY <1>1, <1>2 DEF vars, IInv, BuiltFromStates, NoPanic
<1>4. TypeOK'
  BY <1>1 DEF vars, fixed, IInv, TypeOK
<1> QED BY <1>1, <1>3, <1>4 DEF IInv

\* The two ways to compute a block's end state agree in every reachable state,
\* and what has been populated is SSA form of these states.
THEOREM IInvAlways == Spec => []IInv
<1>1. ASSUME IInv, [Next]_vars PROVE IInv'
  <2>1. CASE VisitBlock
    BY <1>1, <2>1, VisitKeeps
  <2>2. CASE EndOfSweep
    BY <1>1, <2>2, SweepEndKeeps
  <2>3. CASE \E b \in Blocks : Populate(b)
    BY <1>1, <2>3, PopulateKeeps
  <2>4. CASE Finished
    BY <1>1, <2>4, StutterKeeps DEF Finished
  <2>5. CASE UNCHANGED vars
    BY <1>1, <2>5, StutterKeeps
  <2> QED BY <1>1, <2>1, <2>2, <2>3, <2>4, <2>5 DEF Next
<1> QED BY InitIInv, <1>1, PTL DEF Spec
-----------------------------------------------------------------------------
(* SSA form.                                                               *)

\* A definition of the converted function is one that was counted.
LEMMA SitesAreCounted ==
  ASSUME IInv, phase = "done", NEW s \in Sites
  PROVE  /\ s = <<s[1], s[2], s[3], s[4]>> /\ <<s[1], s[2]>> \in AllSites
         /\ Defines(s[1], s[2], s[3]) /\ s[4] = WriteVersion(s[1], s[2], s[3])
<1>1. PICK b \in Blocks : s \in PhiSites(b) \cup CodeSites(b)
  BY DEF Sites
<1>2. built[b] = SsaBlock(b) /\ Len(prog.code[b]) \in Nat
  BY FunctionSizes DEF IInv, Setup, BuiltFromStates
<1>3. CASE s \in PhiSites(b)
  <2>1. PICK k \in placed[b] : s = <<b, 0, k, built[b].phis[k].result>>
    BY <1>3 DEF PhiSites
  <2>2. built[b].phis[k].result = WriteVersion(b, 0, k)
    BY <1>2, <2>1 DEF SsaBlock, PhiVersion
  <2>3. <<b, 0>> \in AllSites /\ Defines(b, 0, k)
    BY <1>2, <2>1, SiteOf DEF Defines
  <2> QED BY <2>1, <2>2, <2>3
<1>4. CASE s \in CodeSites(b)
  <2>1. PICK i \in Positions(b) : \E w \in built[b].code[i].write : s = <<b, i, w[1], w[2]>>
    BY <1>4 DEF CodeSites
  <2>2. built[b].code[i].write =
          {<<k, WriteVersion(b, i, k)>> : k \in {k \in Writes(b, i) : Versionable(k)}}
    BY <1>2, <2>1 DEF SsaBlock
  <2>3. PICK k \in Writes(b, i) : s = <<b, i, k, WriteVersion(b, i, k)>>
    BY <2>1, <2>2
  <2>4. i \in 0 .. Len(prog.code[b]) /\ i # 0
    BY <1>2, <2>1 DEF Positions
  <2>5. <<b, i>> \in AllSites /\ Defines(b, i, k)
    BY <2>3, <2>4, SiteOf DEF Defines
  <2> QED BY <2>3, <2>5
<1> QED BY <1>1, <1>3, <1>4

\* What was counted is a definition of the converted function.
LEMMA CountedAreSites ==
  ASSUME IInv, phase = "done", NEW b, NEW i, NEW k, Versionable(k),
         <<b, i>> \in AllSites, Defines(b, i, k)
  PROVE  <<b, i, k, WriteVersion(b, i, k)>> \in Sites
<1>1. b \in Blocks /\ i \in 0 .. Len(prog.code[b])
  BY SiteOf
<1>2. built[b] = SsaBlock(b) /\ Len(prog.code[b]) \in Nat
  BY <1>1, FunctionSizes DEF IInv, Setup, BuiltFromStates
<1>3. CASE i = 0
  <2>1. k \in placed[b]
    BY <1>3 DEF Defines
  <2>2. built[b].phis[k].result = WriteVersion(b, 0, k)
    BY <1>2, <2>1 DEF SsaBlock, PhiVersion
  <2>3. <<b, i, k, WriteVersion(b, i, k)>> \in PhiSites(b)
    BY <1>3, <2>1, <2>2 DEF PhiSites
  <2> QED BY <1>1, <2>3 DEF Sites
<1>4. CASE i # 0
  <2>1. k \in Writes(b, i) /\ i \in Positions(b)
    BY <1>1, <1>2, <1>4 DEF Defines, Positions
  <2>2. built[b].code[i].write =
          {<<q, WriteVersion(b, i, q)>> : q \in {q \in Writes(b, i) : Versionable(q)}}
    BY <1>2, <2>1 DEF SsaBlock
  <2>3. <<k, WriteVersion(b, i, k)>> \in built[b].code[i].write
    BY <2>1, <2>2
  <2>4. <<b, i, k, WriteVersion(b, i, k)>> \in
          {<<b, i, w[1], w[2]>> : w \in built[b].code[i].write}
    BY <2>3
  <2>5. <<b, i, k, WriteVersion(b, i, k)>> \in CodeSites(b)
    BY <2>1, <2>4 DEF CodeSites
  <2> QED BY <1>1, <2>5 DEF Sites
<1> QED BY <1>3, <1>4

LEMMA IInvSingle == IInv => SingleAssignment
<1> SUFFICES ASSUME IInv, phase = "done", NEW s \in Sites, NEW t \in Sites,
                    s[3] = t[3], s[4] = t[4]
             PROVE  s = t /\ s[4] # 0
  BY DEF SingleAssignment
<1>1. prog \in Programs
  BY DEF IInv, Setup
<1>2. /\ s = <<s[1], s[2], s[3], s[4]>> /\ <<s[1], s[2]>> \in AllSites
      /\ Defines(s[1], s[2], s[3]) /\ s[4] = WriteVersion(s[1], s[2], s[3])
  BY SitesAreCounted
<1>3. /\ t = <<t[1], t[2], t[3], t[4]>> /\ <<t[1], t[2]>> \in AllSites
      /\ Defines(t[1], t[2], s[3]) /\ s[4] = WriteVersion(t[1], t[2], s[3])
  BY SitesAreCounted
<1>4. s[1] = t[1] /\ s[2] = t[2]
  BY <1>1, <1>2, <1>3, VersionsDiffer
<1>5. s[4] # 0
  BY <1>1, <1>2, VersionNotZero
<1> QED BY <1>2, <1>3, <1>4, <1>5

\* A number that is a version has a definition.
LEMMA VersionsHaveSites ==
  ASSUME IInv, phase = "done", NEW k, NEW v, Versionable(k), IsVersion(k, v)
  PROVE  v = 0 \/ \E s \in Sites : s[3] = k /\ s[4] = v
<1>1. CASE v = 0
  BY <1>1
<1>2. CASE \E s \in AllSites : Defines(s[1], s[2], k) /\ v = WriteVersion(s[1], s[2], k)
  <2>1. PICK s \in AllSites : Defines(s[1], s[2], k) /\ v = WriteVersion(s[1], s[2], k)
    BY <1>2
  <2>2. <<s[1], s[2]>> \in AllSites
    BY SiteIsPair
  <2>3. <<s[1], s[2], k, v>> \in Sites
    BY <2>1, <2>2, CountedAreSites
  <2> QED BY <2>3
<1> QED BY <1>1, <1>2 DEF IsVersion

\* What reads find and phi functions take are versions.
LEMMA ReadsAreVersions ==
  ASSUME IInv, NEW b \in Blocks, NEW i \in Positions(b), NEW k
  PROVE  IsVersion(k, ReadVersion(b, i, k))
<1>1. prog \in Programs /\ Recorded(start[b])
  BY DEF IInv, Setup, StatesRecorded
<1>2. i - 1 \in 0 .. Len(prog.code[b])
  BY <1>1, FunctionSizes DEF Positions
<1>3. CASE \E j \in 1 .. i - 1 : k \in Writes(b, j)
  BY <1>1, <1>2, <1>3, LastWrite DEF ReadVersion
<1>4. CASE ~ \E j \in 1 .. i - 1 : k \in Writes(b, j)
  BY <1>1, <1>4 DEF ReadVersion, Version, Recorded, IsVersion
<1> QED BY <1>3, <1>4

LEMMA TakenAreVersions ==
  ASSUME IInv, NEW b \in Blocks, NEW k \in placed[b], NEW p \in Preds(prog, b)
  PROVE  IsVersion(k, PhiInput(b, p, k))
<1>1. prog \in Programs /\ p \in Blocks
  BY DEF IInv, Setup, Preds, Blocks
<1>2. IsVersion(k, Version(end[p], k))
  BY <1>1 DEF IInv, StatesRecorded, Recorded, Version, IsVersion
<1> QED BY <1>1, <1>2, PhiIsVersion DEF PhiInput

LEMMA IInvDefined == IInv => UsesDefined
<1> SUFFICES ASSUME IInv, phase = "done", NEW b \in Blocks, NEW u \in Read(b) \cup Taken(b)
             PROVE  u[2] = 0 \/ \E s \in Sites : s[3] = u[1] /\ s[4] = u[2]
  BY DEF UsesDefined
<1>1. built[b] = SsaBlock(b)
  BY DEF IInv, BuiltFromStates
<1>2. CASE u \in Read(b)
  <2>1. PICK i \in Positions(b) : u \in built[b].code[i].reads
    BY <1>2 DEF Read
  <2>2. built[b].code[i].reads =
          {<<k, ReadVersion(b, i, k)>> : k \in {k \in Reads(b, i) : Versionable(k)}}
    BY <1>1, <2>1 DEF SsaBlock
  <2>3. PICK k : Versionable(k) /\ u = <<k, ReadVersion(b, i, k)>>
    BY <2>1, <2>2
  <2>4. IsVersion(k, ReadVersion(b, i, k))
    BY <2>1, ReadsAreVersions
  <2> QED BY <2>3, <2>4, VersionsHaveSites
<1>3. CASE u \in Taken(b)
  <2>1. PICK k \in placed[b] : \E p \in Preds(prog, b) : u = <<k, built[b].phis[k].inputs[p]>>
    BY <1>3 DEF Taken
  <2>2. PICK p \in Preds(prog, b) : u = <<k, built[b].phis[k].inputs[p]>>
    BY <2>1
  <2>3. built[b].phis[k].inputs[p] = PhiInput(b, p, k)
    BY <1>1, <2>1, <2>2 DEF SsaBlock
  <2>4. IsVersion(k, PhiInput(b, p, k))
    BY <2>1, <2>2, TakenAreVersions
  <2>5. Versionable(k)
    BY <2>1 DEF IInv, Setup
  <2> QED BY <2>2, <2>3, <2>4, <2>5, VersionsHaveSites
<1> QED BY <1>2, <1>3

\* Registries hold numbers of the function's own references in every state.
THEOREM TypesAlways == Spec => []TypeOK
<1>1. IInv => TypeOK
  BY DEF IInv
<1> QED BY IInvAlways, <1>1, PTL

\* The conversion ends, if it ends, in SSA form, for every function and every
\* order of its blocks in the map: the assertion on the end states never fails
\* (converter.rs:710), two definitions of a reference have different versions, and
\* the version an instruction reads or a phi function takes, if not the one at
\* entry, has a definition.
THEOREM SsaFormAlways == Spec => []SsaForm
<1>1. IInv => SsaForm
  BY IInvSingle, IInvDefined DEF IInv, SsaForm
<1> QED BY IInvAlways, <1>1, PTL
-----------------------------------------------------------------------------
(* Dominance.                                                              *)

LEMMA GraphOf ==
  ASSUME prog \in Programs
  PROVE  /\ IsFiniteSet(Blocks) /\ prog.entry \in Blocks /\ Preds(prog, prog.entry) = {}
         /\ \A b \in Blocks : Succ(prog, b) \subseteq Blocks
<1> DEFINE edges == [b \in Blocks |-> Succ(prog, b)]
<1>1. IsFiniteSet(Blocks)
  <2>1. PICK top \in Nat : Blocks \subseteq 0 .. top
    BY FunctionSizes
  <2>2. IsFiniteSet(0 .. top)
    BY <2>1, FS_Interval
  <2> QED BY <2>1, <2>2, FS_Subset
<1>2. Reach(edges, {prog.entry}) = Blocks /\ DOMAIN edges = Blocks
  BY ReachableBlocks DEF Onward, Blocks
<1> HIDE DEF edges
<1>3. prog.entry \in Blocks
  BY <1>1, <1>2, ReachHolds
<1>4. IsClosed(edges, Blocks)
  BY <1>1, <1>2, ReachClosed
<1>5. \A b \in Blocks : Succ(prog, b) \subseteq Blocks
  BY <1>4 DEF IsClosed, edges
<1> QED BY <1>1, <1>3, <1>5, ReachableBlocks

\* The blocks reached without leaving d.
Avoiding(d) == Onward(prog, {prog.entry}, Blocks \ {d})

LEMMA AvoidingHolds ==
  ASSUME prog \in Programs, NEW d
  PROVE  /\ prog.entry \in Avoiding(d)
         /\ \A x \in Avoiding(d) \cap Blocks : x # d => Succ(prog, x) \subseteq Avoiding(d)
<1> DEFINE edges == [b \in Blocks \ {d} |-> Succ(prog, b)]
<1>1. IsFiniteSet(DOMAIN edges) /\ Avoiding(d) = Reach(edges, {prog.entry})
  BY GraphOf, FS_Subset DEF Avoiding, Onward
<1>2. \A x \in Blocks \ {d} : x \in DOMAIN edges /\ edges[x] = Succ(prog, x)
  OBVIOUS
<1> HIDE DEF edges
<1>3. prog.entry \in Avoiding(d) /\ IsClosed(edges, Avoiding(d))
  BY <1>1, ReachHolds, ReachClosed
<1> QED BY <1>2, <1>3 DEF IsClosed

LEMMA AvoidingLeast ==
  ASSUME prog \in Programs, NEW d, NEW X, prog.entry \in X,
         \A x \in X \cap Blocks : x # d => Succ(prog, x) \subseteq X
  PROVE  Avoiding(d) \subseteq X
<1> DEFINE edges == [b \in Blocks \ {d} |-> Succ(prog, b)]
<1>1. IsFiniteSet(DOMAIN edges) /\ Avoiding(d) = Reach(edges, {prog.entry})
  BY GraphOf, FS_Subset DEF Avoiding, Onward
<1>2. IsClosed(edges, X)
  BY DEF IsClosed
<1> HIDE DEF edges
<1> QED BY <1>1, <1>2, ReachLeast

LEMMA AllReached ==
  ASSUME prog \in Programs, NEW X, prog.entry \in X,
         \A x \in X \cap Blocks : Succ(prog, x) \subseteq X
  PROVE  Blocks \subseteq X
<1> DEFINE edges == [b \in Blocks |-> Succ(prog, b)]
<1>1. Reach(edges, {prog.entry}) = Blocks /\ IsFiniteSet(DOMAIN edges)
  BY GraphOf, ReachableBlocks DEF Onward, Blocks
<1>2. IsClosed(edges, X)
  BY DEF IsClosed
<1> HIDE DEF edges
<1> QED BY <1>1, <1>2, ReachLeast

LEMMA DominatesIs ==
  ASSUME NEW d, NEW b
  PROVE  Dominates(d, b) <=> d = b \/ b \notin Avoiding(d)
BY DEF Dominates, Avoiding

\* What dominates a block, and is not it, dominates its predecessors.
LEMMA DominatesPreds ==
  ASSUME prog \in Programs, NEW d, NEW b, Dominates(d, b), d # b, NEW p \in Preds(prog, b)
  PROVE  Dominates(d, p)
<1>1. p \in Blocks /\ b \in Succ(prog, p)
  BY DEF Preds, Blocks
<1> QED BY <1>1, DominatesIs, AvoidingHolds

LEMMA EntryDominates ==
  ASSUME prog \in Programs, NEW b
  PROVE  /\ Dominates(prog.entry, b)
         /\ \A d : Dominates(d, prog.entry) => d = prog.entry
<1>1. Avoiding(prog.entry) \subseteq {prog.entry}
  BY AvoidingLeast
<1>2. Dominates(prog.entry, b)
  BY <1>1, DominatesIs
<1>3. \A d : Dominates(d, prog.entry) => d = prog.entry
  BY AvoidingHolds, DominatesIs
<1> QED BY <1>2, <1>3

LEMMA DominatesTransitive ==
  ASSUME prog \in Programs, NEW d, NEW c, NEW b, Dominates(d, c), Dominates(c, b)
  PROVE  Dominates(d, b)
<1> SUFFICES ASSUME d # c, c # b, d # b, b \in Avoiding(d) PROVE FALSE
  BY DominatesIs
<1>1. c \notin Avoiding(d) /\ b \notin Avoiding(c)
  BY DominatesIs
<1> DEFINE X == Avoiding(c) \cap Avoiding(d)
<1>2. prog.entry \in X
  BY AvoidingHolds
<1>3. \A x \in X \cap Blocks : x # d => Succ(prog, x) \subseteq X
  BY <1>1, AvoidingHolds
<1> HIDE DEF X
<1>4. Avoiding(d) \subseteq X
  BY <1>2, <1>3, AvoidingLeast
<1> QED BY <1>1, <1>4 DEF X

LEMMA DominatesAntisymmetric ==
  ASSUME prog \in Programs, NEW c \in Blocks, NEW d \in Blocks, Dominates(c, d), Dominates(d, c)
  PROVE  c = d
<1> SUFFICES ASSUME c # d PROVE FALSE
  OBVIOUS
<1>1. c \notin Avoiding(d) /\ d \notin Avoiding(c)
  BY DominatesIs
<1> DEFINE X == Avoiding(c) \cap Avoiding(d)
<1>2. prog.entry \in X
  BY AvoidingHolds
<1>3. \A x \in X \cap Blocks : Succ(prog, x) \subseteq X
  BY <1>1, AvoidingHolds
<1> HIDE DEF X
<1>4. Blocks \subseteq X
  BY <1>2, <1>3, AllReached
<1> QED BY <1>1, <1>4 DEF X
-----------------------------------------------------------------------------
(* Where versions come from.                                               *)

Placed == placed = [b \in Blocks |-> PhiKinds(b)]

\* c is the nearest of the dominating blocks that define k.
Near(b, k, c) == c \in Definers(b, k) /\ \A d \in Definers(b, k) : Dominates(d, c)

\* A version in a registry is the block's own or that of the nearest definition.
StartsNear(b) ==
  \A k \in DOMAIN start[b] :
    \/ k \in DOMAIN start0[b] /\ start[b][k] = start0[b][k]
    \/ k \notin DOMAIN start0[b] /\ \E c : Near(b, k, c) /\ start[b][k] = end0[c][k]
EndsNear(b) ==
  \A k \in DOMAIN end[b] :
    \/ k \in DOMAIN end0[b] /\ end[b][k] = end0[b][k]
    \/ k \notin DOMAIN end0[b] /\ \E c : Near(b, k, c) /\ end[b][k] = end0[c][k]
FromNearest == \A b \in Blocks : StartsNear(b) /\ EndsNear(b)

OwnKept ==
  \A b \in Blocks : DOMAIN start0[b] \subseteq DOMAIN start[b] /\ DOMAIN end0[b] \subseteq DOMAIN end[b]

\* What a visit would compute is there already: of the blocks of a sweep that has
\* changed nothing so far, and at the end of all.
Settled(b) == start[b] = Update(start0[b], b, Incoming(b))
SweepSettles ==
  /\ phase = "states" /\ ~changed => \A j \in 1 .. at - 1 : Settled(order[j])
  /\ phase # "states" => \A b \in Blocks : Settled(b)

DomInv == IInv /\ Placed /\ OwnKept /\ SweepSettles /\ (PhisComplete => FromNearest)

\* Where there is no phi function, whatever of the reference's definitions dominates
\* a predecessor dominates the block: else the block is in its frontier.
LEMMA NoPhiDominated ==
  ASSUME IInv, Placed, PhisComplete,
         NEW b \in Blocks, NEW k \in prog.live[b] \ placed[b], NEW p \in Preds(prog, b),
         NEW c \in Blocks, k \in DOMAIN end0[c], Dominates(c, p)
  PROVE  Dominates(c, b) /\ c # b
<1>1. prog \in Programs /\ k \notin PhiKinds(b) /\ placed[c] = PhiKinds(c) /\ b # prog.entry
  BY GraphOf DEF IInv, Setup, Placed
<1>2. k \in placed[c] \cup Inputs(c) \cup GenKinds(c)
  BY DEF IInv, Setup, InitialEnd, InitialStart
<1>3. CASE c = prog.entry
  BY <1>1, <1>3, EntryDominates
<1>4. CASE c # prog.entry
  <2>1. k \in PhiKinds(c) \cup GenKinds(c)
    BY <1>1, <1>2, <1>4 DEF Inputs
  <2>2. ASSUME b \in Frontier(c) PROVE FALSE
    <3>1. CASE k \in PhiKinds(c)
      BY <1>1, <2>2, <3>1 DEF PhisComplete
    <3>2. CASE k \in GenKinds(c)
      BY <1>1, <2>2, <3>2 DEF PhiKinds
    <3> QED BY <2>1, <3>1, <3>2
  <2> QED BY <2>2 DEF Frontier
<1> QED BY <1>3, <1>4

\* All predecessors that have a version have that of the nearest definition.
LEMMA SuppliedNear ==
  ASSUME IInv, Placed, PhisComplete, FromNearest,
         NEW b \in Blocks, NEW k \in prog.live[b] \ placed[b], NEW p \in Preds(prog, b),
         k \in DOMAIN end[p]
  PROVE  \E c : Near(b, k, c) /\ end[p][k] = end0[c][k]
<1>1. prog \in Programs /\ p \in Blocks
  BY DEF IInv, Setup, Preds, Blocks
<1>2. \A d \in Definers(b, k) : d \in Blocks /\ k \in DOMAIN end0[d] /\ Dominates(d, p)
  BY <1>1, DominatesPreds DEF Definers
<1>3. CASE k \in DOMAIN end0[p] /\ end[p][k] = end0[p][k]
  <2>1. Dominates(p, p)
    BY DEF Dominates
  <2>2. p \in Definers(b, k)
    BY <1>1, <1>3, <2>1, NoPhiDominated DEF Definers
  <2> QED BY <1>2, <1>3, <2>2 DEF Near
<1>4. CASE k \notin DOMAIN end0[p] /\ \E c : Near(p, k, c) /\ end[p][k] = end0[c][k]
  <2>1. PICK c : Near(p, k, c) /\ end[p][k] = end0[c][k]
    BY <1>4
  <2>2. c \in Blocks /\ k \in DOMAIN end0[c] /\ Dominates(c, p)
    BY <2>1 DEF Near, Definers
  <2>3. c \in Definers(b, k)
    BY <2>2, NoPhiDominated DEF Definers
  <2>4. ASSUME NEW d \in Definers(b, k) PROVE Dominates(d, c)
    <3>1. d \in Definers(p, k)
      BY <1>2, <1>4 DEF Definers
    <3> QED BY <2>1, <3>1 DEF Near
  <2> QED BY <2>1, <2>3, <2>4 DEF Near
<1> QED BY <1>1, <1>3, <1>4 DEF FromNearest, EndsNear

LEMMA OriginsKept ==
  ASSUME UNCHANGED fixed
  PROVE  /\ \A b : PhiKinds(b)' = PhiKinds(b)
         /\ PhisComplete' <=> PhisComplete
         /\ \A b, k, c : Near(b, k, c)' <=> Near(b, k, c)
<1>1. prog' = prog /\ placed' = placed /\ end0' = end0 /\ Blocks' = Blocks
  BY DEF fixed, Blocks
<1>2. \A d, b : Dominates(d, b)' <=> Dominates(d, b)
  BY <1>1 DEF Dominates
<1>3. \A b : Frontier(b)' = Frontier(b)
  BY <1>1, <1>2 DEF Frontier
<1>4. \A b : PhiKinds(b)' = PhiKinds(b)
  BY <1>1, <1>3, GenKept DEF PhiKinds
<1>5. PhisComplete' <=> PhisComplete
  BY <1>1, <1>3, <1>4 DEF PhisComplete
<1>6. \A b, k : Definers(b, k)' = Definers(b, k)
  BY <1>1, <1>2 DEF Definers
<1>7. \A b, k, c : Near(b, k, c)' <=> Near(b, k, c)
  BY <1>2, <1>6 DEF Near
<1> QED BY <1>4, <1>5, <1>7

LEMMA InitDom == Init => DomInv
<1> SUFFICES ASSUME Init PROVE DomInv
  OBVIOUS
<1>1. IInv /\ Placed
  BY InitIInv DEF Init, Placed
<1>2. \A b \in Blocks : start[b] = start0[b] /\ end[b] = end0[b]
  BY DEF Init
<1>3. FromNearest /\ OwnKept
  BY <1>2 DEF FromNearest, StartsNear, EndsNear, OwnKept
<1>4. SweepSettles
  BY DEF Init, SweepSettles
<1> QED BY <1>1, <1>3, <1>4 DEF DomInv

\* The registries of a block after a visit.
LEMMA VisitStates ==
  ASSUME IInv, VisitBlock
  PROVE  \E b \in Blocks :
           LET in  == Update(start0[b], b, Incoming(b))
               out == Update(end0[b], b, Incoming(b) \ DOMAIN end0[b])
           IN  /\ b = order[at]
               /\ start' = [start EXCEPT ![b] = in] /\ end' = [end EXCEPT ![b] = out]
               /\ start'[b] = in /\ end'[b] = out
               /\ \A c \in Blocks \ {b} : start'[c] = start[c] /\ end'[c] = end[c]
               /\ changed' = (changed \/ in # start[b] \/ out # end[b])
<1> DEFINE b == order[at]
<1>1. b \in Blocks
  BY OrderLists DEF IInv, VisitBlock, TypeOK
<1>2. DOMAIN start = Blocks /\ DOMAIN end = Blocks
  BY DEF IInv, StatesRecorded
<1> QED BY <1>1, <1>2 DEF VisitBlock

LEMMA VisitNear ==
  ASSUME DomInv, PhisComplete, VisitBlock
  PROVE  FromNearest'
<1>1. IInv /\ Placed /\ FromNearest /\ prog \in Programs
  BY DEF DomInv, IInv, Setup
<1>2. PICK b \in Blocks :
        /\ start'[b] = Update(start0[b], b, Incoming(b))
        /\ end'[b] = Update(end0[b], b, Incoming(b) \ DOMAIN end0[b])
        /\ \A c \in Blocks \ {b} : start'[c] = start[c] /\ end'[c] = end[c]
  BY <1>1, VisitStates
<1>3. UNCHANGED fixed /\ Blocks' = Blocks
  BY DEF VisitBlock, fixed, Blocks
<1>4. ASSUME NEW k \in Incoming(b)
      PROVE  \E c : Near(b, k, c) /\ Supplied(b, k) = end0[c][k]
  <2>1. k \in prog.live[b] \ placed[b]
    BY DEF Incoming
  <2>2. PICK p \in Preds(prog, b) : k \in DOMAIN end[p] /\ Supplied(b, k) = end[p][k]
    BY <1>1, SuppliedByOne
  <2> QED BY <1>1, <2>1, <2>2, SuppliedNear
<1>5. Incoming(b) \cap DOMAIN start0[b] = {}
  <2>1. b = prog.entry => Incoming(b) = {}
    BY <1>1, GraphOf DEF Incoming, Suppliers
  <2>2. start0[b] = InitialStart(b)
    BY <1>1 DEF IInv, Setup
  <2> QED BY <2>1, <2>2 DEF InitialStart, Inputs, Incoming
<1>6. ASSUME NEW c \in Blocks
      PROVE  /\ \A k \in DOMAIN start'[c] :
                  \/ k \in DOMAIN start0[c] /\ start'[c][k] = start0[c][k]
                  \/ k \notin DOMAIN start0[c] /\ \E d : Near(c, k, d) /\ start'[c][k] = end0[d][k]
             /\ \A k \in DOMAIN end'[c] :
                  \/ k \in DOMAIN end0[c] /\ end'[c][k] = end0[c][k]
                  \/ k \notin DOMAIN end0[c] /\ \E d : Near(c, k, d) /\ end'[c][k] = end0[d][k]
  <2>1. CASE c # b
    BY <1>1, <1>2, <2>1 DEF FromNearest, StartsNear, EndsNear
  <2>2. CASE c = b
    BY <1>2, <1>4, <1>5, <2>2 DEF Update
  <2> QED BY <2>1, <2>2
<1>7. start0' = start0 /\ end0' = end0
  BY <1>3 DEF fixed
<1> QED BY <1>3, <1>6, <1>7, OriginsKept DEF FromNearest, StartsNear, EndsNear

LEMMA SettledKept ==
  ASSUME prog \in Programs, UNCHANGED fixed, \A c \in Blocks : start'[c] = start[c] /\ end'[c] = end[c],
         NEW b \in Blocks, Settled(b)
  PROVE  Settled(b)'
<1>1. prog' = prog /\ placed' = placed /\ start0' = start0
  BY DEF fixed
<1>2. \A k : Suppliers(b, k)' = Suppliers(b, k) /\ Suppliers(b, k) \subseteq Blocks
  BY <1>1 DEF Suppliers, Preds, Blocks
<1>3. Incoming(b)' = Incoming(b)
  BY <1>1, <1>2 DEF Incoming
<1>4. ASSUME NEW k \in Incoming(b) PROVE Supplied(b, k)' = Supplied(b, k)
  <2>1. \E p \in Suppliers(b, k) : \A q \in Suppliers(b, k) : q <= p
    BY <1>4, LastSupplier
  <2> DEFINE last == CHOOSE p \in Suppliers(b, k) : \A q \in Suppliers(b, k) : q <= p
  <2>2. last \in Blocks
    BY <1>2, <2>1
  <2>3. Supplied(b, k) = end[last][k]
    BY DEF Supplied
  <2>4. Suppliers(b, k)' = Suppliers(b, k)
    BY <1>2
  <2>5. Supplied(b, k)' = end'[last][k]
    BY <2>4, Zenon DEF Supplied
  <2> QED BY <2>2, <2>3, <2>5
<1>5. Update(start0[b], b, Incoming(b))' = Update(start0[b], b, Incoming(b))
  BY <1>1, <1>3, <1>4 DEF Update
<1> QED BY <1>5 DEF Settled

LEMMA VisitSettles ==
  ASSUME DomInv, VisitBlock
  PROVE  SweepSettles' /\ OwnKept'
<1>1. PICK b \in Blocks :
        LET in  == Update(start0[b], b, Incoming(b))
            out == Update(end0[b], b, Incoming(b) \ DOMAIN end0[b])
        IN  /\ b = order[at]
            /\ start' = [start EXCEPT ![b] = in] /\ end' = [end EXCEPT ![b] = out]
            /\ start'[b] = in /\ end'[b] = out
            /\ \A c \in Blocks \ {b} : start'[c] = start[c] /\ end'[c] = end[c]
            /\ changed' = (changed \/ in # start[b] \/ out # end[b])
  BY VisitStates DEF DomInv
<1>2. UNCHANGED fixed /\ Blocks' = Blocks /\ phase = "states" /\ phase' = phase /\ at' = at + 1
  BY DEF VisitBlock, fixed, Blocks
<1>3. OwnKept'
  <2>1. \A c \in Blocks : /\ DOMAIN start0[c] \subseteq DOMAIN start'[c]
                          /\ DOMAIN end0[c] \subseteq DOMAIN end'[c]
    BY <1>1 DEF DomInv, OwnKept, Update
  <2> QED BY <1>2, <2>1 DEF OwnKept, fixed
<1>4. ASSUME ~changed'
      PROVE  /\ \A c \in Blocks : start'[c] = start[c] /\ end'[c] = end[c]
             /\ ~changed /\ Settled(b)
  BY <1>1, <1>4 DEF Settled
<1>5. ASSUME ~changed', NEW j \in 1 .. at' - 1 PROVE Settled(order[j])'
  <2>1. at \in Nat /\ (j \in 1 .. at - 1 \/ j = at) /\ order[j] \in Blocks /\ order' = order
    <3>1. at \in 1 .. Cardinality(Blocks) /\ Cardinality(Blocks) \in Nat
      BY OrderLists DEF DomInv, IInv, TypeOK, VisitBlock
    <3>2. order \in [1 .. Cardinality(Blocks) -> Blocks]
      BY OrderLists DEF DomInv, IInv
    <3> QED BY <1>2, <1>5, <3>1, <3>2 DEF fixed
  <2>2. Settled(order[j])
    BY <1>1, <1>2, <1>4, <1>5, <2>1 DEF DomInv, SweepSettles
  <2>3. prog \in Programs
    BY DEF DomInv, IInv, Setup
  <2>4. \A c \in Blocks : Settled(c) => Settled(c)'
    BY <1>2, <1>4, <1>5, <2>3, SettledKept
  <2>5. Settled(order[j])'
    <3>1. PICK c \in Blocks : c = order[j]
      BY <2>1
    <3> QED BY <2>1, <2>2, <2>4, <3>1 DEF Settled
  <2> QED BY <2>5
<1> QED BY <1>2, <1>3, <1>5 DEF SweepSettles

\* The steps that leave the states alone.
LEMMA OriginsStay ==
  ASSUME DomInv, UNCHANGED <<fixed, start, end>>
  PROVE  Placed' /\ OwnKept' /\ (PhisComplete' => FromNearest')
<1>1. Blocks' = Blocks
  BY DEF fixed, Blocks
<1>2. Placed'
  BY <1>1, OriginsKept DEF DomInv, Placed, fixed
<1>3. OwnKept'
  BY <1>1 DEF DomInv, OwnKept, fixed
<1>4. ASSUME PhisComplete, FromNearest PROVE FromNearest'
  <2>1. start' = start /\ end' = end /\ start0' = start0 /\ end0' = end0
    BY DEF fixed
  <2>2. \A b \in Blocks : StartsNear(b)' /\ EndsNear(b)'
    BY <1>4, <2>1, OriginsKept DEF FromNearest, StartsNear, EndsNear
  <2> QED BY <1>1, <2>2 DEF FromNearest
<1>5. PhisComplete' => FromNearest'
  BY <1>4, OriginsKept DEF DomInv
<1> QED BY <1>2, <1>3, <1>5

LEMMA AllSettledStay ==
  ASSUME DomInv, UNCHANGED <<fixed, start, end>>, \A b \in Blocks : Settled(b)
  PROVE  \A b \in Blocks' : Settled(b)'
<1>1. prog \in Programs /\ Blocks' = Blocks
  BY DEF DomInv, IInv, Setup, fixed, Blocks
<1> QED BY <1>1, SettledKept

LEMMA NextDom ==
  ASSUME DomInv, [Next]_vars, IInv'
  PROVE  DomInv'
<1>1. CASE VisitBlock
  <2>1. UNCHANGED fixed /\ Blocks' = Blocks
    BY <1>1 DEF VisitBlock, fixed, Blocks
  <2>2. Placed'
    BY <2>1, OriginsKept DEF DomInv, Placed, fixed
  <2>3. PhisComplete' => FromNearest'
    BY <1>1, <2>1, OriginsKept, VisitNear
  <2> QED BY <1>1, <2>2, <2>3, VisitSettles DEF DomInv
<1>2. CASE EndOfSweep
  <2>1. UNCHANGED <<fixed, start, end>> /\ phase = "states" /\ at > Len(order) /\ at' = 1
        /\ phase' = IF changed THEN phase ELSE "populate"
    BY <1>2 DEF EndOfSweep
  <2>2. ASSUME ~changed PROVE \A b \in Blocks : Settled(b)
    <3>1. /\ order \in [1 .. Cardinality(Blocks) -> Blocks]
          /\ Cardinality(Blocks) \in Nat /\ Len(order) = Cardinality(Blocks)
      BY OrderLists DEF DomInv, IInv
    <3>2. \A j \in 1 .. Cardinality(Blocks) : Settled(order[j])
      BY <2>1, <2>2, <3>1 DEF DomInv, SweepSettles, IInv, TypeOK
    <3>3. {order[j] : j \in DOMAIN order} = Blocks
      BY OrdersAreListings DEF DomInv, IInv, Setup, Blocks
    <3> SUFFICES ASSUME NEW b \in Blocks PROVE Settled(b)
      OBVIOUS
    <3>4. PICK j \in 1 .. Cardinality(Blocks) : b = order[j]
      BY <3>1, <3>3
    <3> QED BY <3>2, <3>4
  <2>3. SweepSettles'
    <3>1. at' - 1 = 0 /\ \A j \in 1 .. 0 : FALSE
      BY <2>1
    <3>2. ASSUME phase' # "states" PROVE \A b \in Blocks' : Settled(b)'
      BY <2>1, <2>2, <3>2, AllSettledStay
    <3> QED BY <3>1, <3>2 DEF SweepSettles
  <2> QED BY <2>1, <2>3, OriginsStay DEF DomInv
<1>3. CASE (\E b \in Blocks : Populate(b)) \/ Finished \/ UNCHANGED vars
  <2>1. UNCHANGED <<fixed, start, end, at, changed>>
    BY <1>3 DEF Populate, Finished, vars
  <2>2. phase' = phase \/ (phase # "states" /\ phase' # "states")
    BY <1>3 DEF Populate, Finished, vars
  <2>3. ASSUME phase = "states", ~changed, NEW j \in 1 .. at - 1 PROVE Settled(order[j])'
    <3>1. prog \in Programs /\ at \in Nat /\ order[j] \in Blocks
      <4>1. at \in 1 .. Cardinality(Blocks) + 1 /\ Cardinality(Blocks) \in Nat
        BY OrderLists DEF DomInv, IInv, TypeOK
      <4> QED BY <4>1, OrderLists DEF DomInv, IInv, Setup
    <3>2. Settled(order[j])
      BY <2>3 DEF DomInv, SweepSettles
    <3>3. \A c \in Blocks : Settled(c) => Settled(c)'
      BY <2>1, <3>1, SettledKept
    <3>4. PICK c \in Blocks : c = order[j]
      BY <3>1
    <3>5. order' = order
      BY <2>1 DEF fixed
    <3> QED BY <3>2, <3>3, <3>4, <3>5 DEF Settled
  <2>4. SweepSettles'
    <3>1. ASSUME phase' # "states" PROVE \A b \in Blocks' : Settled(b)'
      BY <2>1, <2>2, <3>1, AllSettledStay DEF DomInv, SweepSettles
    <3>2. ASSUME phase' = "states", ~changed', NEW j \in 1 .. at' - 1 PROVE Settled(order[j])'
      BY <2>1, <2>2, <2>3, <3>2
    <3>3. order' = order
      BY <2>1 DEF fixed
    <3> QED BY <3>1, <3>2, <3>3 DEF SweepSettles
  <2> QED BY <2>1, <2>4, OriginsStay DEF DomInv
<1> QED BY <1>1, <1>2, <1>3 DEF Next

LEMMA DomAlways == Spec => []DomInv
<1>1. DomInv /\ [Next]_vars /\ IInv' => DomInv'
  BY NextDom
<1> QED BY InitDom, <1>1, IInvAlways, PTL DEF Spec
-----------------------------------------------------------------------------
(* Uses are dominated.                                                     *)

\* The number a block's own instructions leave has its definition in the block.
LEMMA WriteHasSite ==
  ASSUME IInv, phase = "done", NEW b \in Blocks, NEW i \in 0 .. Len(prog.code[b]), NEW k,
         Versionable(k), \E j \in 1 .. i : k \in Writes(b, j)
  PROVE  \E s \in Sites : s[1] = b /\ s[2] \in 1 .. i /\ s[3] = k /\ s[4] = WriteVersion(b, i, k)
<1>1. prog \in Programs
  BY DEF IInv, Setup
<1>2. PICK m \in 1 .. i : k \in Writes(b, m) /\ WriteVersion(b, i, k) = WriteVersion(b, m, k)
  BY <1>1, LastWriteAt
<1>3. <<b, m>> \in AllSites /\ Defines(b, m, k)
  <2>1. Len(prog.code[b]) \in Nat
    BY <1>1, FunctionSizes
  <2> QED BY <1>2, <2>1, SiteOf DEF Defines
<1>4. <<b, m, k, WriteVersion(b, m, k)>> \in Sites
  BY <1>3, CountedAreSites
<1> QED BY <1>2, <1>4

\* An initial end state holds the function's inputs and the block's definitions.
LEMMA OwnHasSite ==
  ASSUME IInv, phase = "done", NEW c \in Blocks, NEW k \in DOMAIN end0[c]
  PROVE  \/ end0[c][k] = 0
         \/ \E s \in Sites : /\ s[1] = c /\ s[2] \in 0 .. Len(prog.code[c])
                             /\ s[3] = k /\ s[4] = end0[c][k]
<1>1. prog \in Programs /\ end0[c] = InitialEnd(c) /\ Len(prog.code[c]) \in Nat
  BY FunctionSizes DEF IInv, Setup
<1>2. CASE k \in GenKinds(c)
  <2>1. Versionable(k) /\ \E j \in 1 .. Len(prog.code[c]) : k \in Writes(c, j)
    BY <1>2, GenIsWritten
  <2>2. end0[c][k] = WriteVersion(c, Len(prog.code[c]), k)
    BY <1>1, <1>2 DEF InitialEnd, LastVersion
  <2>3. Len(prog.code[c]) \in 0 .. Len(prog.code[c])
    BY <1>1
  <2>4. PICK s \in Sites : /\ s[1] = c /\ s[2] \in 1 .. Len(prog.code[c]) /\ s[3] = k
                           /\ s[4] = WriteVersion(c, Len(prog.code[c]), k)
    BY <2>1, <2>3, WriteHasSite
  <2>5. s[2] \in 0 .. Len(prog.code[c])
    BY <1>1, <2>4
  <2> QED BY <2>2, <2>4, <2>5
<1>3. CASE k \notin GenKinds(c) /\ k \in placed[c]
  <2>1. end0[c][k] = WriteVersion(c, 0, k)
    BY <1>1, <1>3 DEF InitialEnd, InitialStart, PhiVersion
  <2>2. <<c, 0>> \in AllSites /\ Defines(c, 0, k) /\ Versionable(k)
    BY <1>1, <1>3, SiteOf DEF Defines, IInv, Setup
  <2>3. <<c, 0, k, WriteVersion(c, 0, k)>> \in Sites
    BY <2>2, CountedAreSites
  <2>4. 0 \in 0 .. Len(prog.code[c])
    BY <1>1
  <2> QED BY <2>1, <2>3, <2>4
<1>4. CASE k \notin GenKinds(c) /\ k \notin placed[c]
  BY <1>1, <1>4 DEF InitialEnd, InitialStart
<1> QED BY <1>2, <1>3, <1>4

\* The version at the start of a block is dominated by its definition.
LEMMA StartDominated ==
  ASSUME DomInv, PhisComplete, phase = "done", NEW b \in Blocks, NEW k,
         NEW i \in Positions(b)
  PROVE  DefinedBefore(Sites, b, i, <<k, Version(start[b], k)>>)
<1> DEFINE u == <<k, Version(start[b], k)>>
<1>1. IInv /\ FromNearest /\ start0[b] = InitialStart(b) /\ prog \in Programs
  BY DEF DomInv, IInv, Setup
<1>2. CASE k \notin DOMAIN start[b]
  BY <1>2 DEF DefinedBefore, Version
<1>3. CASE k \in DOMAIN start[b] /\ k \in DOMAIN start0[b] /\ start[b][k] = start0[b][k]
  <2>1. CASE k \in placed[b]
    <3>1. start0[b][k] = WriteVersion(b, 0, k)
      BY <1>1, <2>1 DEF InitialStart, PhiVersion
    <3>2. <<b, 0>> \in AllSites /\ Defines(b, 0, k) /\ Versionable(k) /\ 0 < i
      BY <1>1, <2>1, FunctionSizes, SiteOf DEF Defines, IInv, Setup, Positions
    <3>3. <<b, 0, k, WriteVersion(b, 0, k)>> \in Sites
      BY <1>1, <3>2, CountedAreSites
    <3>4. \E s \in Sites : s[1] = b /\ s[2] = 0 /\ s[3] = k /\ s[4] = start[b][k]
      BY <1>3, <3>1, <3>3
    <3> QED BY <1>3, <3>2, <3>4 DEF DefinedBefore, Version, Dominates
  <2>2. CASE k \notin placed[b]
    BY <1>1, <1>3, <2>2 DEF InitialStart, DefinedBefore, Version
  <2> QED BY <2>1, <2>2
<1>4. CASE k \in DOMAIN start[b] /\ \E c : Near(b, k, c) /\ start[b][k] = end0[c][k]
  <2>1. PICK c : Near(b, k, c) /\ start[b][k] = end0[c][k]
    BY <1>4
  <2>2. c \in Blocks /\ c # b /\ k \in DOMAIN end0[c] /\ Dominates(c, b)
    BY <2>1 DEF Near, Definers
  <2>3. \/ start[b][k] = 0
        \/ \E s \in Sites : s[1] = c /\ s[3] = k /\ s[4] = start[b][k]
    BY <1>1, <2>1, <2>2, OwnHasSite
  <2> QED BY <1>4, <2>2, <2>3 DEF DefinedBefore, Version
<1> QED BY <1>1, <1>2, <1>3, <1>4 DEF FromNearest, StartsNear

\* So is the version at its end.
LEMMA EndDominated ==
  ASSUME DomInv, PhisComplete, phase = "done", NEW b \in Blocks, NEW k
  PROVE  DefinedBefore(Sites, b, Len(prog.code[b]) + 1, <<k, Version(end[b], k)>>)
<1>1. IInv /\ FromNearest /\ prog \in Programs /\ Len(prog.code[b]) \in Nat
  BY FunctionSizes DEF DomInv, IInv, Setup
<1>2. CASE k \notin DOMAIN end[b]
  BY <1>2 DEF DefinedBefore, Version
<1>3. ASSUME NEW c \in Blocks, k \in DOMAIN end[b], k \in DOMAIN end0[c],
             end[b][k] = end0[c][k], Dominates(c, b)
      PROVE  DefinedBefore(Sites, b, Len(prog.code[b]) + 1, <<k, Version(end[b], k)>>)
  <2>1. \/ end[b][k] = 0
        \/ \E s \in Sites : /\ s[1] = c /\ s[2] \in 0 .. Len(prog.code[c])
                            /\ s[3] = k /\ s[4] = end[b][k]
    BY <1>1, <1>3, OwnHasSite
  <2>2. \A s \in Sites : s[1] = b /\ s[2] \in 0 .. Len(prog.code[b]) => s[2] < Len(prog.code[b]) + 1
    BY <1>1
  <2> QED BY <1>3, <2>1, <2>2 DEF DefinedBefore, Version
<1>4. Dominates(b, b)
  BY DEF Dominates
<1> QED BY <1>1, <1>2, <1>3, <1>4 DEF FromNearest, EndsNear, Near, Definers

LEMMA CompleteDominates == DomInv /\ PhisComplete => DefinitionsDominate
<1> SUFFICES ASSUME DomInv, PhisComplete, phase = "done", NEW b \in Blocks
             PROVE  /\ \A i \in Positions(b) : \A u \in built[b].code[i].reads :
                         DefinedBefore(Sites, b, i, u)
                    /\ \A k \in placed[b], p \in Preds(prog, b) :
                         \/ DefinedBefore(Sites, p, Len(prog.code[p]) + 1,
                                          <<k, built[b].phis[k].inputs[p]>>)
                         \/ IsCall(prog, p) /\ IsOutgoing(k)
  BY DEF DefinitionsDominate
<1>1. IInv /\ prog \in Programs /\ built[b] = SsaBlock(b) /\ Len(prog.code[b]) \in Nat
  BY FunctionSizes DEF DomInv, IInv, Setup, BuiltFromStates
<1>2. ASSUME NEW i \in Positions(b), NEW u \in built[b].code[i].reads
      PROVE  DefinedBefore(Sites, b, i, u)
  <2>1. built[b].code[i].reads =
          {<<k, ReadVersion(b, i, k)>> : k \in {k \in Reads(b, i) : Versionable(k)}}
    BY <1>1 DEF SsaBlock
  <2>2. PICK k : Versionable(k) /\ u = <<k, ReadVersion(b, i, k)>>
    BY <2>1
  <2>3. CASE \E j \in 1 .. i - 1 : k \in Writes(b, j)
    <3>1. i - 1 \in 0 .. Len(prog.code[b]) /\ i \in Nat
      BY <1>1 DEF Positions
    <3>2. PICK s \in Sites : /\ s[1] = b /\ s[2] \in 1 .. i - 1 /\ s[3] = k
                             /\ s[4] = WriteVersion(b, i - 1, k)
      BY <1>1, <2>2, <2>3, <3>1, WriteHasSite
    <3>3. s[2] < i
      BY <3>1, <3>2
    <3>4. u[1] = k /\ u[2] = WriteVersion(b, i - 1, k)
      BY <2>2, <2>3 DEF ReadVersion
    <3> QED BY <3>2, <3>3, <3>4 DEF DefinedBefore, Dominates
  <2>4. CASE ~ \E j \in 1 .. i - 1 : k \in Writes(b, j)
    <3>1. u = <<k, Version(start[b], k)>>
      BY <2>2, <2>4 DEF ReadVersion
    <3> QED BY <3>1, StartDominated
  <2> QED BY <2>3, <2>4
<1>3. ASSUME NEW k \in placed[b], NEW p \in Preds(prog, b), ~(IsCall(prog, p) /\ IsOutgoing(k))
      PROVE  DefinedBefore(Sites, p, Len(prog.code[p]) + 1, <<k, built[b].phis[k].inputs[p]>>)
  <2>1. built[b].phis[k].inputs[p] = Version(end[p], k)
    BY <1>1, <1>3 DEF SsaBlock, PhiInput
  <2>2. p \in Blocks
    BY DEF Preds, Blocks
  <2> QED BY <2>1, <2>2, EndDominated
<1> QED BY <1>2, <1>3
-----------------------------------------------------------------------------
(* None nearer is missed.                                                  *)

\* When all blocks are settled, a version that leaves a block enters the next.
LEMMA FlowsOn ==
  ASSUME DomInv, phase = "done", NEW b \in Blocks, NEW k \in prog.live[b] \ placed[b],
         NEW p \in Preds(prog, b), k \in DOMAIN end[p]
  PROVE  k \in DOMAIN start[b]
<1>1. k \in Incoming(b)
  BY DEF Incoming, Suppliers
<1>2. Settled(b)
  BY DEF DomInv, SweepSettles
<1> QED BY <1>1, <1>2 DEF Settled, Update

LEMMA OwnVersionable ==
  ASSUME IInv, NEW d \in Blocks, NEW k \in DOMAIN end0[d]
  PROVE  Versionable(k)
<1>1. k \in placed[d] \cup prog.inputs \cup GenKinds(d)
  BY DEF IInv, Setup, InitialEnd, InitialStart, Inputs
<1>2. \A q \in prog.inputs : q[1] # "D"
  BY DataFlowResults DEF IsLocal, IInv, Setup
<1> QED BY <1>1, <1>2 DEF IInv, Setup, GenKinds, Versionable

\* A definition that dominates a block where the reference is live and has no phi
\* function arrives there: else it would not arrive at a predecessor either.
LEMMA Arrives ==
  ASSUME DomInv, phase = "done", NEW k, NEW d \in Blocks, k \in DOMAIN end0[d],
         NEW b \in Blocks, Dominates(d, b), d # b, k \in prog.live[b]
  PROVE  k \in DOMAIN start[b]
<1>1. IInv /\ prog \in Programs
  BY DEF DomInv, IInv, Setup
<1>2. \A x \in Blocks : /\ DOMAIN end[x] = (DOMAIN start[x]) \cup GenKinds(x)
                        /\ placed[x] \subseteq DOMAIN start[x]
                        /\ DOMAIN end0[x] \subseteq DOMAIN end[x]
  <2>1. \A x \in Blocks : start0[x] = InitialStart(x) /\ end[x] = RunningState(x)
    BY <1>1 DEF IInv, Setup, EndIsRunning
  <2>2. \A x \in Blocks : placed[x] \subseteq DOMAIN start0[x]
    BY <2>1 DEF InitialStart
  <2> QED BY <2>1, <2>2 DEF DomInv, OwnKept, RunningState
<1>3. Versionable(k)
  BY <1>1, OwnVersionable
<1> DEFINE Missing == {x \in Blocks : /\ k \in prog.live[x] /\ k \notin DOMAIN start[x]
                                      /\ Dominates(d, x) /\ d # x}
<1>4. ASSUME NEW x \in Missing, NEW p \in Preds(prog, x) PROVE p \in Missing
  <2>1. p \in Blocks /\ x \in Succ(prog, p) /\ x \in Blocks /\ k \notin placed[x]
    BY <1>2 DEF Preds, Blocks
  <2>2. k \notin DOMAIN end[p]
    BY <1>4, <2>1, FlowsOn
  <2>3. k \notin DOMAIN start[p] /\ k \notin GenKinds(p) /\ p # d
    BY <1>2, <2>1, <2>2
  <2>4. Dominates(d, p)
    BY <1>1, DominatesPreds
  <2>5. k \in prog.live[p]
    <3> SUFFICES ASSUME k \notin prog.live[p] PROVE FALSE
      OBVIOUS
    <3>1. \E i \in 1 .. Len(prog.code[p]) : k \in prog.code[p][i].write
      BY <1>1, <2>1, DataFlowResults DEF Blocks
    <3> QED BY <1>3, <2>3, <3>1 DEF GenKinds, Positions, Writes
  <2> QED BY <2>1, <2>3, <2>4, <2>5
<1>5. prog.entry \notin Missing
  BY <1>1, EntryDominates
<1>6. \A x \in Missing : x \in Blocks
  OBVIOUS
<1> SUFFICES b \notin Missing
  OBVIOUS
<1> HIDE DEF Missing
<1> DEFINE X == Blocks \ Missing
<1>7. prog.entry \in X
  BY <1>1, <1>5, GraphOf
<1>8. \A x \in X \cap Blocks : Succ(prog, x) \subseteq X
  <2> SUFFICES ASSUME NEW x \in Blocks, x \notin Missing, NEW y \in Succ(prog, x) PROVE y \in X
    OBVIOUS
  <2>1. y \in Blocks
    BY <1>1, GraphOf
  <2>2. x \in Preds(prog, y)
    BY DEF Preds, Blocks
  <2> QED BY <1>4, <2>1, <2>2
<1> HIDE DEF X
<1>9. Blocks \subseteq X
  BY <1>1, <1>7, <1>8, AllReached
<1> QED BY <1>9 DEF X

LEMMA NearIsNearest ==
  ASSUME prog \in Programs, NEW b, NEW k, NEW c, Near(b, k, c)
  PROVE  Nearest(b, k) = c
<1> DEFINE n == CHOOSE x \in Definers(b, k) : \A d \in Definers(b, k) : Dominates(d, x)
<1>1. n \in Definers(b, k) /\ \A d \in Definers(b, k) : Dominates(d, n)
  BY DEF Near
<1>2. Nearest(b, k) = n
  BY DEF Nearest
<1> HIDE DEF n
<1>3. n \in Blocks /\ c \in Blocks /\ Dominates(n, c) /\ Dominates(c, n)
  BY <1>1 DEF Near, Definers
<1> QED BY <1>2, <1>3, DominatesAntisymmetric

\* Where a block other than the entry has no phi function, what it starts with has
\* come in.
LEMMA StartIsNear ==
  ASSUME DomInv, PhisComplete, NEW b \in Blocks \ {prog.entry}, NEW k, k \notin placed[b],
         k \in DOMAIN start[b]
  PROVE  \E c : Near(b, k, c) /\ start[b][k] = end0[c][k]
<1>1. start0[b] = InitialStart(b) /\ FromNearest
  BY DEF DomInv, IInv, Setup
<1>2. k \notin DOMAIN start0[b]
  BY <1>1 DEF InitialStart, Inputs
<1> QED BY <1>1, <1>2 DEF FromNearest, StartsNear

LEMMA CompleteNearest == DomInv /\ PhisComplete => NearestDefinition
<1> SUFFICES ASSUME DomInv, PhisComplete, phase = "done",
                    NEW b \in Blocks \ {prog.entry}, NEW k \in prog.live[b] \ placed[b]
             PROVE  Version(start[b], k) =
                      IF Definers(b, k) = {} THEN 0 ELSE end0[Nearest(b, k)][k]
  BY DEF NearestDefinition
<1>1. prog \in Programs
  BY DEF DomInv, IInv, Setup
<1>2. CASE k \in DOMAIN start[b]
  <2>1. PICK c : Near(b, k, c) /\ start[b][k] = end0[c][k]
    BY <1>2, StartIsNear
  <2>2. Nearest(b, k) = c /\ Definers(b, k) # {}
    BY <1>1, <2>1, NearIsNearest DEF Near
  <2> QED BY <1>2, <2>1, <2>2 DEF Version
<1>3. CASE k \notin DOMAIN start[b]
  <2>1. Definers(b, k) = {}
    BY <1>3, Arrives DEF Definers
  <2> QED BY <1>3, <2>1 DEF Version
<1> QED BY <1>2, <1>3

LEMMA CompleteMerges == DomInv /\ PhisComplete => MergesAgree
<1> SUFFICES ASSUME DomInv, PhisComplete, phase = "done",
                    NEW b \in Blocks, NEW k \in prog.live[b] \ placed[b], NEW p \in Preds(prog, b)
             PROVE  Version(end[p], k) = Version(start[b], k)
  BY DEF MergesAgree
<1>1. IInv /\ Placed /\ FromNearest /\ prog \in Programs /\ p \in Blocks /\ b # prog.entry
  BY GraphOf DEF DomInv, IInv, Setup, Preds, Blocks
<1>2. CASE k \in DOMAIN end[p]
  <2>1. k \in DOMAIN start[b]
    BY <1>2, FlowsOn
  <2>2. PICK c : Near(b, k, c) /\ start[b][k] = end0[c][k]
    BY <1>1, <2>1, StartIsNear
  <2>3. PICK d : Near(b, k, d) /\ end[p][k] = end0[d][k]
    BY <1>1, <1>2, SuppliedNear
  <2>4. c = d
    BY <1>1, <2>2, <2>3, NearIsNearest
  <2> QED BY <1>2, <2>1, <2>2, <2>3, <2>4 DEF Version
<1>3. CASE k \notin DOMAIN end[p]
  <2>1. ASSUME k \in DOMAIN start[b] PROVE FALSE
    <3>1. PICK c : Near(b, k, c)
      BY <1>1, <2>1, StartIsNear
    <3>2. c \in Blocks /\ c # b /\ k \in DOMAIN end0[c] /\ Dominates(c, b)
      BY <3>1 DEF Near, Definers
    <3>3. Dominates(c, p)
      BY <1>1, <3>2, DominatesPreds
    <3>4. c # p /\ k \notin DOMAIN start[p] /\ k \notin GenKinds(p)
      <4>1. DOMAIN end0[p] \subseteq DOMAIN end[p]
        BY <1>1 DEF DomInv, OwnKept
      <4>2. DOMAIN end[p] = (DOMAIN start[p]) \cup GenKinds(p)
        <5>1. end[p] = RunningState(p)
          BY <1>1 DEF IInv, EndIsRunning
        <5> QED BY <5>1 DEF RunningState
      <4> QED BY <1>3, <3>2, <4>1, <4>2
    <3>5. k \in prog.live[p]
      <4> SUFFICES ASSUME k \notin prog.live[p] PROVE FALSE
        OBVIOUS
      <4>1. b \in Succ(prog, p)
        BY DEF Preds
      <4>2. \E i \in 1 .. Len(prog.code[p]) : k \in prog.code[p][i].write
        BY <1>1, <4>1, DataFlowResults DEF Blocks
      <4>3. Versionable(k)
        BY <1>1, <3>2, OwnVersionable
      <4> QED BY <3>4, <4>2, <4>3 DEF GenKinds, Positions, Writes
    <3> QED BY <1>1, <3>2, <3>3, <3>4, <3>5, Arrives
  <2> QED BY <1>3, <2>1 DEF Version
<1> QED BY <1>2, <1>3

\* Where the frontier of a block with a phi function has it too, each version is
\* defined in a block that dominates its use, the nearest that defines one, and all
\* predecessors hand over the same, for every function and every order of its blocks:
\* that phi functions are not placed for phi functions is the one way to lose this.
THEOREM CompletePhisDominate == Spec => [](PhisComplete => UsesDominated)
<1>1. DomInv => (PhisComplete => UsesDominated)
  BY CompleteDominates, CompleteNearest, CompleteMerges DEF UsesDominated
<1> QED BY DomAlways, <1>1, PTL
=============================================================================
