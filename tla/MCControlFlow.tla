---------------------------- MODULE MCControlFlow ----------------------------
(* Every graph of a few blocks, of which the last returns, for ControlFlow. *)
EXTENDS ControlFlow

Fn(next, silent, values) == [next |-> next, silent |-> silent, values |-> values]

\* Every function of four blocks, of which the last returns.
Ways(b, n) ==
  {<<"follows", b + 1>>} \cup {<<"goto", t>> : t \in 1 .. n} \cup {<<"if", t, b + 1>> : t \in (1 .. n) \ {b + 1}}
Graphs ==
  {f \in {Fn(<<v, w, x, <<"return">> >>, {4}, FALSE) : v \in Ways(1, 4), w \in Ways(2, 4), x \in Ways(3, 4)} :
     Reach(f, 1, None) = Blocks(f)}

\* Nothing is left to run after a loop, no branch of an if holds a loop or the
\* jump back of one.
Last(f, h) == Exit(f, h) \in {None, ReturnBlock(f)}
Branching(f, h) ==
  {b \in IfBlocks(f) : f.next[b][2] \notin {ReturnBlock(f)} \cup (IF b >= h THEN {h} ELSE {})}
InBranch(f, h) ==
  \E b \in Branching(f, h) :
    LET R == Reach(f, b, ImmediatePostDominator(f, b))
    IN  IF b < h THEN h \in R ELSE b < JumpBack(f, h) /\ JumpBack(f, h) \in R
Plain(f) == \A h \in Headers(f) : Last(f, h) /\ ~InBranch(f, h)

f(b) == <<"follows", b>>
g(b) == <<"goto", b>>
c(b) == <<"call", b>>
i(b, d) == <<"if", b, d>>
r == <<"return">>
h == <<"halt">>
Chosen ==
  { Fn(<<c(2), h>>, {}, FALSE), Fn(<<i(3, 2), h, r>>, {3}, FALSE),
    Fn(<<f(2), <<"unknown">>, r>>, {3}, FALSE),
    Fn(<<i(3, 2), g(4), f(4), r>>, {2, 4}, TRUE),            \* an empty else
    Fn(<<i(3, 2), g(4), f(4), r>>, {3, 4}, TRUE),               \* an empty then
    Fn(<<i(5, 2), i(4, 3), g(4), g(6), c(6), r>>, {4, 6}, TRUE), \* if in an else
    Fn(<<i(4, 2), f(3), g(7), i(6, 5), g(6), f(7), r>>, {7}, TRUE),
    Fn(<<f(2), i(4, 3), g(5), f(5), i(2, 6), r>>, {6}, FALSE), \* if in a do while
    Fn(<<f(2), i(6, 3), i(2, 4), c(5), g(2), r>>, {5, 6}, FALSE), \* while, continue
    Fn(<<f(2), f(3), i(3, 4), i(2, 5), r>>, {5}, FALSE),      \* a loop in a loop
    Fn(<<f(2), i(3, 3), f(4), r>>, {4}, FALSE) }              \* a jump to the next block

\* if (..) return; ...; return, with values.
EarlyReturn == {Fn(<<f(2), i(4, 3), f(4), r>>, {4}, v) : v \in BOOLEAN}

MCFunctions == {q \in Graphs : Plain(q)} \cup Chosen
=============================================================================
