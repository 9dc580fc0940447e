---------------------------- MODULE LirConverter ----------------------------
(***************************************************************************)
(* The conversion of a block of native instructions to LIR                 *)
(* (lir/converter.rs).  `list` is the sequence of the addresses of the     *)
(* block's instructions; pairs are two neighbours in it, wherever they are. *)
(***************************************************************************)
EXTENDS Image, FiniteSetsExt

Nth(im, list, i) == IF i \in DOMAIN list THEN im[list[i]] ELSE Bad

\* handle_special_instruction_pairs
ReturnPair(im, list, i) ==
  /\ Nth(im, list, i).k = "adjust" /\ Nth(im, list, i).n < 0
  /\ Nth(im, list, i + 1).k = "gotoR"
CallPair(im, list, i) ==
  /\ Nth(im, list, i).k = "link" /\ Nth(im, list, i + 1).k \in Gotos
  /\ Nth(im, list, i).n = End(list[i + 1])
PairStart(im, list, i) == ReturnPair(im, list, i) \/ CallPair(im, list, i)

\* The instructions that leave something: not the second of a pair, not R += n.
Kept(im, list) ==
  {i \in DOMAIN list :
     /\ ~PairStart(im, list, i - 1)
     /\ ~(im[list[i]].k = "adjust" /\ im[list[i]].n > 0)}

\* extract_arguments: the assignments before a call, read backwards from the
\* last, are [R+N], ..., [R+1].
BadArguments(im, list, i) ==
  LET before == {j \in Kept(im, list) : j < i}
      item(m) == LET j == CHOOSE j \in before : Cardinality({l \in before : l > j}) = m
                 IN  IF m < Cardinality(before) THEN im[list[j]] ELSE Bad
  IN  item(0).k = "arg" /\ \E m \in 1 .. item(0).n - 1 : item(m) # Item("arg", item(0).n - m)

\* The panics: an adjustment that is no return or not by a constant, a goto or a
\* condition whose target is not a constant, a constant as target of an assignment,
\* arguments that do not end at [R+1].
ConversionPanics(im, list) ==
  \E i \in Kept(im, list) :
    \/ im[list[i]].k = "adjust" /\ ~ReturnPair(im, list, i)
    \/ im[list[i]].k \in Refused
    \/ CallPair(im, list, i) /\ BadArguments(im, list, i)

\* The last instruction of the block: its kind, and the addresses it names.
LastLow(im, list) ==
  LET i == Max(Kept(im, list))
      item == im[list[i]]
  IN  IF ReturnPair(im, list, i) THEN [k |-> "return", to |-> <<>>]
      ELSE IF CallPair(im, list, i) THEN [k |-> "call", to |-> <<item.n>>]
      ELSE IF item.k = "goto" THEN [k |-> "goto", to |-> <<item.n>>]
      ELSE IF item.k = "if" THEN [k |-> "if", to |-> <<item.n, End(list[i])>>]
      ELSE [k |-> item.k, to |-> <<>>]
=============================================================================
