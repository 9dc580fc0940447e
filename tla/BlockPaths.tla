------------------------------ MODULE BlockPaths ------------------------------
(***************************************************************************)
(* What the structured form of a function promises: to run the function's  *)
(* blocks in the order in which its graph runs them, whichever way the     *)
(* conditions go.                                                          *)
(*                                                                         *)
(* A function is a record                                                  *)
(*   next    how each block 1 .. n goes on (NextKind): <<"follows", b>>,   *)
(*           <<"goto", b>>, <<"call", b>>, <<"if", then, else>>,           *)
(*           <<"return">>, <<"halt">>, <<"unknown">>; block 1 is the entry *)
(*   silent  the blocks without statements, none of them a condition       *)
(*   values  whether the function returns any                              *)
(***************************************************************************)
EXTENDS Integers, Sequences, FiniteSets

CONSTANT Functions

VARIABLES
  fun,   \* the function
  at,    \* the block that has run last; Start, End or Halted
  took   \* the answer of that block's condition; "none"

vars == <<fun, at, took>>

Start  == 0
End    == -1
Halted == -2
Blocks(f)  == 1 .. Len(f.next)
Kind(f, b) == f.next[b][1]

\* The block that runs next from b on: blocks without statements are not seen.
RECURSIVE Land(_, _)
Land(f, b) ==
  IF b \notin f.silent THEN b
  ELSE CASE Kind(f, b) = "return" -> End
         [] Kind(f, b) = "halt"   -> Halted
         [] OTHER                 -> Land(f, f.next[b][2])

Init == fun \in Functions /\ at = Start /\ took = "none"

Decide ==
  /\ at \in Blocks(fun) /\ Kind(fun, at) = "if" /\ took = "none"
  /\ took' \in {"yes", "no"}
  /\ UNCHANGED <<fun, at>>

After(b, answer) ==
  CASE b = Start            -> Land(fun, 1)
    [] Kind(fun, b) = "return" -> End
    [] Kind(fun, b) = "halt"   -> Halted
    [] Kind(fun, b) = "if"     -> Land(fun, fun.next[b][IF answer = "yes" THEN 2 ELSE 3])
    [] OTHER                  -> Land(fun, fun.next[b][2])

Move ==
  /\ at \notin {End, Halted}
  /\ at \in Blocks(fun) /\ Kind(fun, at) = "if" => took # "none"
  /\ at' = After(at, took) /\ took' = "none"
  /\ UNCHANGED fun

Next == Decide \/ Move
Spec == Init /\ [][Next]_vars
=============================================================================
