--------------------------- MODULE DisjointSetOps ---------------------------
(***************************************************************************)
(* The operations of the DisjointSet<T> used to cluster SSA variables      *)
(* (variable_analyzer/disjoint_set.rs).                                    *)
(*                                                                         *)
(* A disjoint set is a record                                              *)
(*   element_to_set  the HashMap<T, SetId>: a function on the elements     *)
(*                   inserted so far                                       *)
(*   sets            the HashMap<SetId, HashSet<T>>: a function on the     *)
(*                   live identifiers                                      *)
(*   next_id         the next identifier to hand out                       *)
(*                                                                         *)
(* An operation returns the record [ds |-> new state, id |-> SetId], the   *)
(* &mut self and the result of the Rust method.  join_sets and insert_join *)
(* assert that the identifiers they are given are live; the assertion is   *)
(* CanUse, and a caller that breaks it panics.                             *)
(***************************************************************************)
EXTENDS Integers, FiniteSets

EmptyDS == [element_to_set |-> [e \in {} |-> 0],
            sets           |-> [i \in {} |-> {}],
            next_id        |-> 0]

Live(ds)     == DOMAIN ds.sets             \* identifiers that may be used
Elems(ds)    == DOMAIN ds.element_to_set   \* elements inserted so far
Known(ds, e) == e \in Elems(ds)

CanUse(ds, id) == id \in Live(ds)

Result(ds, id) == [ds |-> ds, id |-> id]

\* element_to_set.extend / insert: every element of S now belongs to id.
Assign(ds, S, id) ==
  [e \in Elems(ds) \cup S |-> IF e \in S THEN id ELSE ds.element_to_set[e]]

\* sets without the retired identifiers, and with id |-> S.
Store(ds, retired, id, S) ==
  [i \in (Live(ds) \ retired) \cup {id} |-> IF i = id THEN S ELSE ds.sets[i]]

\* Mutant of Fresh: the next identifier is the number of sets.
FreshReusing(ds, retired, S) ==
  Result([element_to_set |-> Assign(ds, S, ds.next_id),
          sets           |-> Store(ds, retired, ds.next_id, S),
          next_id        |-> Cardinality(DOMAIN Store(ds, retired, ds.next_id, S))],
         ds.next_id)

\* Put S under an identifier that was never used before, and retire the
\* identifiers S was collected from.
Fresh(ds, retired, S) ==
  Result([element_to_set |-> Assign(ds, S, ds.next_id),
          sets           |-> Store(ds, retired, ds.next_id, S),
          next_id        |-> ds.next_id + 1],
         ds.next_id)

Insert(ds, e) ==
  IF Known(ds, e) THEN Result(ds, ds.element_to_set[e])
                  ELSE Fresh(ds, {}, {e})

\* Mutant of JoinSets: only the second set's members are re-pointed.
JoinSetsHalf(ds, id1, id2) ==
  IF id1 = id2 THEN Result(ds, id1)
  ELSE Result([Fresh(ds, {id1, id2}, ds.sets[id1] \cup ds.sets[id2]).ds EXCEPT
                 !.element_to_set = Assign(ds, ds.sets[id2], ds.next_id)],
              ds.next_id)

\* Requires CanUse of both identifiers.
JoinSets(ds, id1, id2) ==
  IF id1 = id2 THEN Result(ds, id1)
               ELSE Fresh(ds, {id1, id2}, ds.sets[id1] \cup ds.sets[id2])

\* Mutant of InsertJoin: an element that has a set leaves its companions there.
InsertJoinMoves(ds, id, e) ==
  LET from == {i \in Live(ds) : i # id /\ e \in ds.sets[i]}
  IN  Result([element_to_set |-> Assign(ds, {e}, id),
              sets |-> [i \in Live(ds) |-> IF i \in from THEN ds.sets[i] \ {e}
                          ELSE IF i = id THEN ds.sets[i] \cup {e} ELSE ds.sets[i]],
              next_id |-> ds.next_id],
             id)

\* Requires CanUse(ds, id).
InsertJoin(ds, id, e) ==
  IF Known(ds, e)
    THEN JoinSets(ds, id, ds.element_to_set[e])
    ELSE Result([element_to_set |-> Assign(ds, {e}, id),
                 sets           |-> Store(ds, {}, id, ds.sets[id] \cup {e}),
                 next_id        |-> ds.next_id],
                id)

Join(ds, e1, e2) ==
  IF Known(ds, e1)
    THEN InsertJoin(ds, ds.element_to_set[e1], e2)
    ELSE LET r1 == Insert(ds, e1)
             r2 == Insert(r1.ds, e2)
         IN  JoinSets(r2.ds, r1.id, r2.id)

\* The partition a disjoint set stands for.
Classes(ds) == {ds.sets[i] : i \in Live(ds)}
=============================================================================
