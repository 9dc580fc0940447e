------------------------------- MODULE Image -------------------------------
(***************************************************************************)
(* The memory image the decompiler starts from, decoded.                   *)
(*                                                                         *)
(* An image is a sequence of items, each at an address of its own: the     *)
(* words of an instruction count as one, so that no operand is taken for an *)
(* opcode.  An item is [k, n]:                                             *)
(*   adjust  R += n                    link   [R] = n                      *)
(*   goto    goto n                    if     if .. goto n                 *)
(*   gotoR   goto [R]                  gotoM  goto an address in memory    *)
(*   arg     [R+n] = .., n > 0         plain  anything else that goes on   *)
(*   halt                              bad    not an instruction           *)
(*   adjustM R += an address in memory  ifM    if .. goto an address in memory *)
(*   writeI  a constant = ..                                               *)
(***************************************************************************)
EXTENDS Integers, Sequences

Kinds == {"adjust", "link", "goto", "if", "gotoR", "gotoM", "arg", "plain", "halt", "bad",
          "adjustM", "ifM", "writeI"}

Item(k, n) == [k |-> k, n |-> n]
Bad        == Item("bad", 0)
Jumps      == {"goto", "if"}
Gotos      == {"goto", "gotoR", "gotoM"}
\* They decode, and alone there is nothing in LIR for them.
Refused    == {"gotoR", "gotoM", "adjustM", "ifM", "writeI"}

\* NativeInstruction::parse; an address beyond the image is an error too.
At(im, a)      == IF a \in DOMAIN im THEN im[a] ELSE Bad
Decodes(im, a) == At(im, a).k # "bad"
End(a)         == a + 1

IsEntry(im, a) == At(im, a).k = "adjust" /\ At(im, a).n > 0

\* R -= size; goto [R].   [R] = the address behind the goto; goto f.
IsReturn(im, a, size) ==
  At(im, a).k = "adjust" /\ At(im, a).n = -size /\ At(im, End(a)).k = "gotoR"
IsCallPair(im, a) ==
  At(im, a).k = "link" /\ At(im, End(a)).k \in Gotos /\ At(im, a).n = End(End(a))

\* Where the instruction or pair at a goes on in its function.
Successors(im, a, size) ==
  LET i == At(im, a) IN
  IF IsReturn(im, a, size) \/ i.k = "bad" THEN {}
  ELSE IF IsCallPair(im, a) THEN {End(End(a))}
  ELSE (IF i.k \in Jumps THEN {i.n} ELSE {})
         \cup (IF i.k \in Gotos \cup {"halt"} THEN {} ELSE {End(a)})

\* The addresses it takes.
Extent(im, a, size) ==
  IF IsReturn(im, a, size) \/ IsCallPair(im, a) THEN {a, End(a)} ELSE {a}
=============================================================================
