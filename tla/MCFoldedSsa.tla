----------------------------- MODULE MCFoldedSsa -----------------------------
(* Functions in SSA form for FoldedSsa.                                    *)
EXTENDS FoldedSsa

X(n) == <<<<"R", -1>>, n>>
Y(n) == <<<<"R", -2>>, n>>
T(n) == <<<<"R", -3>>, n>>
M(n) == <<<<"M", 500>>, n>>

I(b, t, o, r) == [block |-> b, target |-> t, op |-> o, reads |-> r]

\* Input; one variable, copied or left of an operator; two of them.
Sources(S, copied) ==
  {<<"other", <<Input>>>>}
    \cup {<<"binary", <<v>>>> : v \in S}
    \cup {<<"copy", <<v>>>> : v \in copied}
    \cup {<<"binary", <<v, w>>>> : v, w \in S}

\* y = ..; x = ..; x = ..; if ..: a use of each earlier variable, or none.
Straight ==
  {[soft |-> {}, code |-> << I(1, {Y(1)}, a[1], a[2]), I(1, {X(1)}, b[1], b[2]),
                I(2, {X(2)}, c[1], c[2]), I(2, {}, d[1], d[2]) >>,
    branch |-> {4}, given |-> {X(0)}, phis |-> {}] :
     a \in Sources({X(0)}, {X(0)}), b \in Sources({X(0), Y(1)}, {Y(1)}),
     c \in Sources({X(1), Y(1)}, {Y(1)}), d \in Sources({X(1), X(2)}, {X(2)}) \cup {<<"binary", <<X(2), Y(1)>>>>}}

\* do { t = *p; *p = t + x; x = x + 1; } while x < y
Counter ==
  {[soft |-> {}, code |-> << I(1, {T(1)}, "copy", <<Y(0)>>), I(1, {T(2)}, "other", <<Deref, T(1)>>),
                I(1, {}, "other", <<T(2), X(1), Y(0)>>), I(1, {X(2)}, "binary", <<X(1)>>),
                I(1, {}, "binary", <<X(2), Y(0)>>) >>,
    branch |-> {5}, given |-> {X(0), X(1), Y(0)}, phis |-> {<<0, X(0)>>, <<1, X(2)>>}]}

\* y = input; t = 0; if y * t: and another use of y, before the If or after it.
\* The product is 0 once t is folded into it, and does not read y any more.
Vanishing(b) ==
  [code |-> << I(1, {Y(1)}, "other", <<Input>>), I(1, {T(1)}, "other", <<>>),
               I(1, {}, "binary", <<Y(1), T(1)>>), I(b, {}, "copy", <<Y(1)>>) >>,
   branch |-> {3}, soft |-> {2}, given |-> {}, phis |-> {}]

\* t = 0; x = t + y; x = x + 1; if x < 5: 0 + y is a lone y once t is folded.
Cancelled ==
  [code |-> << I(1, {T(1)}, "other", <<>>), I(1, {X(1)}, "binary", <<T(1), Y(0)>>),
               I(1, {X(2)}, "binary", <<X(1)>>), I(1, {}, "binary", <<X(2)>>) >>,
   branch |-> {4}, soft |-> {1}, given |-> {Y(0)}, phis |-> {}]

MCPrograms ==
  {p \in Straight : CopiesApart(p)} \cup Counter \cup {Vanishing(1), Vanishing(2), Cancelled}

ASSUME CopiesAreApart == \A p \in MCPrograms : CopiesApart(p)

\* For ConditionsDefined, which fails.
Vanishes == {Vanishing(2)}

\* while .. { x = input; output x }; output x
LastInput ==
  {[code |-> << I(2, {X(2)}, "other", <<Input>>), I(2, {}, "copy", <<X(2)>>),
                I(3, {}, "copy", <<X(1)>>) >>,
    branch |-> {}, soft |-> {}, given |-> {X(0), X(1)}, phis |-> {<<0, X(0)>>, <<2, X(2)>>}]}

\* [500] = input; output [500]; return
StoredGlobal ==
  {[code |-> << I(1, {M(1)}, "other", <<Input>>), I(1, {}, "copy", <<M(1)>>) >>,
    branch |-> {}, soft |-> {}, given |-> {}, phis |-> {}]}

\* x = input; y = input; output y; output x
TwoInputs ==
  {[code |-> << I(1, {X(1)}, "other", <<Input>>), I(1, {Y(1)}, "other", <<Input>>),
                I(1, {}, "copy", <<Y(1)>>), I(1, {}, "copy", <<X(1)>>) >>,
    branch |-> {}, soft |-> {}, given |-> {}, phis |-> {}]}
=============================================================================
