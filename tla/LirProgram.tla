----------------------------- MODULE LirProgram -----------------------------
(***************************************************************************)
(* The control flow graph of one function over LIR instructions, as        *)
(* ControlFlowGraphBuilder leaves it, reduced to what data flow and SSA    *)
(* conversion read of it.                                                  *)
(*                                                                         *)
(* A MemoryReference is <<"R", n>> for [R+n], <<"M", a>> for a global,     *)
(* <<"P", i>> for a pointer into code, <<"D", e>> for a dereference.       *)
(*                                                                         *)
(* A function is a record                                                  *)
(*   blocks   its block ids, which are addresses                           *)
(*   entry    the entry block                                              *)
(*   ret      {} or the singleton of the return block                      *)
(*   code[b]  a sequence of [reads, write]: the references an instruction  *)
(*            reads (addresses of a write through a pointer included), and *)
(*            {} or the singleton of the one an Assign writes              *)
(*   next[b]  [kind, to]: kind is "goto" (Follows or Goto), "if", "call"   *)
(*            or "end" (Return or Halt); to is the sequence of successors, *)
(*            the target of a condition before its follower                *)
(***************************************************************************)
EXTENDS Integers, Sequences, FiniteSets, Reachability

IsGlobal(k)   == k[1] = "M"
IsOutgoing(k) == k[1] = "R" /\ k[2] > 0       \* is_outgoing_parameter
IsLocal(k)    == k[1] = "R" /\ k[2] < 0       \* is_local_or_parameter

Succ(f, b)   == {f.next[b].to[i] : i \in 1 .. Len(f.next[b].to)}
Preds(f, b)  == {p \in f.blocks : b \in Succ(f, p)}
IsCall(f, b) == f.next[b].kind = "call"

\* The calling blocks whose calls return to b.
CallsReturningTo(f, b) == {p \in Preds(f, b) : IsCall(f, p)}

\* The blocks reached from those of S by paths that leave only blocks of
\* Through: a path may end in any block.
Onward(f, S, Through) == Reach([b \in Through |-> Succ(f, b)], S)
=============================================================================
