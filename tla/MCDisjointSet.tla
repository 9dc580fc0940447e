--------------------------- MODULE MCDisjointSet ---------------------------
(* Instance of DisjointSet for TLC. Identifiers need no bound: an insertion *)
(* or a join consumes one, and there are at most |Elements| of the first and *)
(* |Elements| - 1 of the second.                                           *)
EXTENDS DisjointSet
=============================================================================
