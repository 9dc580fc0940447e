------------------------------ MODULE Partition ------------------------------
(***************************************************************************)
(* What a disjoint set promises: a partition of the elements seen so far,  *)
(* that changes only by uniting the classes of the elements a caller asks  *)
(* to put together.  Identifiers do not appear.                            *)
(***************************************************************************)
CONSTANT Elements

VARIABLE classes

Init == classes = {}

\* The partition after a request to put the elements of S together: they (new
\* ones included) end up in one class with all that was already with one of
\* them; no other class changes.
United(cs, S) ==
  LET touched == {C \in cs : C \cap S # {}}
  IN  (cs \ touched) \cup {(UNION touched) \cup S}

Unite(S) == classes' = United(classes, S)

Next == \E e1, e2 \in Elements : Unite({e1, e2})

Spec == Init /\ [][Next]_classes
=============================================================================
