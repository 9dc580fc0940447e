---------------------------- MODULE Reachability ----------------------------
(***************************************************************************)
(* What is reached from a set along the edges of a graph.  An edge function *)
(* gives the successors of each of the nodes it has; a node it does not    *)
(* have may be reached but is not left.                                    *)
(***************************************************************************)
EXTENDS Integers, FiniteSets

Spread(next, X) == X \cup UNION {next[x] : x \in X \cap DOMAIN next}

\* Reached from S along at most n edges.
Rounds(next, S, n) ==
  LET R[i \in Nat] == IF i = 0 THEN S ELSE Spread(next, R[i - 1])
  IN  R[n]

\* Reached from S: a path that leaves no node twice has an edge for each node at
\* most, and one more round takes the nodes that are not left.
Reach(next, S) == Rounds(next, S, Cardinality(DOMAIN next) + 1)
=============================================================================
