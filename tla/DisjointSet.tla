----------------------------- MODULE DisjointSet -----------------------------
(***************************************************************************)
(* A DisjointSet under any sequence of calls by a caller that keeps the    *)
(* identifiers it was given and uses them again, as variable_merger.rs     *)
(* does with `set_id` and `globals`.  The bookkeeping to get right is that *)
(* the two maps agree after every call although a join retires two         *)
(* identifiers at once, and that an identifier a caller kept can at worst  *)
(* be dead, never name somebody else's set.                                *)
(***************************************************************************)
EXTENDS DisjointSetOps

CONSTANT Elements

VARIABLES
  ds,      \* the disjoint set
  held,    \* history: every identifier a call has returned
  last     \* the identifier the last call returned; NoCall before it

vars == <<ds, held, last>>

NoCall == -1

Init == ds = EmptyDS /\ held = {} /\ last = NoCall

Returns(r) == ds' = r.ds /\ last' = r.id /\ held' = held \cup {r.id}

DoInsert(e)       == Returns(Insert(ds, e))
DoJoinSets(a, b)  == CanUse(ds, a) /\ CanUse(ds, b) /\ Returns(JoinSets(ds, a, b))
DoInsertJoin(a, e) == CanUse(ds, a) /\ Returns(InsertJoin(ds, a, e))
DoJoin(e1, e2)    == Returns(Join(ds, e1, e2))

Next ==
  \/ \E e \in Elements : DoInsert(e)
  \/ \E a, b \in Live(ds) : DoJoinSets(a, b)
  \/ \E a \in Live(ds), e \in Elements : DoInsertJoin(a, e)
  \/ \E e1, e2 \in Elements : DoJoin(e1, e2)

Spec == Init /\ [][Next]_vars
-----------------------------------------------------------------------------
\* The record has the maps of the struct, over elements of the caller.
TypeOK ==
  /\ ds = [element_to_set |-> ds.element_to_set,
           sets |-> ds.sets, next_id |-> ds.next_id]
  /\ Elems(ds) \subseteq Elements
  /\ ds.element_to_set \in [Elems(ds) -> Nat]
  /\ Live(ds) \subseteq Nat
  /\ ds.sets \in [Live(ds) -> SUBSET Elements]
  /\ ds.next_id \in Nat
  /\ held \subseteq Nat
  /\ last \in held \cup {NoCall}

\* find and iter tell the same story: an element is in exactly the set that
\* find names, that set is live, and no live set is empty.  join_sets rewrites
\* one entry of element_to_set per member and drops two sets; a missed member
\* would point into a set that is gone (disjoint_set.rs:50-65).
MapsAgree ==
  /\ \A e \in Elems(ds) : ds.element_to_set[e] \in Live(ds)
  /\ \A i \in Live(ds) :
       ds.sets[i] # {} /\ ds.sets[i] = {e \in Elems(ds) : ds.element_to_set[e] = i}

\* Every identifier in use or kept by a caller was handed out before, so the
\* next one is new to the maps and to every caller (disjoint_set.rs:41, 59).
IdsBelowNext == \A i \in Live(ds) \cup held : i < ds.next_id

\* The identifier a call returns can be used at once in the next one: the
\* merger chains insert_join on it without looking it up again
\* (variable_merger.rs:172-177, 196).
ReturnedIdLive == last # NoCall => CanUse(ds, last)

\* An identifier a caller kept may die, and a use of it then hits the assertion
\* of join_sets; it never comes back to life as another variable's set, and
\* while it lives the set it names only grows.
HeldIdsNeverSwitch ==
  [][\A i \in held : CanUse(ds, i)' =>
        CanUse(ds, i) /\ ds.sets[i] \subseteq ds'.sets[i]]_vars

\* The disjoint set implements a partition that changes by Unite only: every
\* call, whatever identifiers it retires, puts its arguments in one class and
\* leaves the others as they were.
Abstract == INSTANCE Partition WITH classes <- Classes(ds)
ImplementsPartition == Abstract!Spec

\* What a caller may count on between calls: the maps describe one partition, and
\* the identifier it was just given names a set.
SetsSound == TypeOK /\ MapsAgree /\ ReturnedIdLive
=============================================================================
