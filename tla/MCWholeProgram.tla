---------------------------- MODULE MCWholeProgram ----------------------------
(* Programs for Globals: a caller and a callee, in SSA form.               *)
EXTENDS Globals

\* A function as a straight line of <<"read", offset>>, <<"write", offset>> and
\* <<"call", target>>: versions count the writes, and a call writes what is read
\* first after it.
Mentions(body, o) == {i \in DOMAIN body : body[i][1] # "call" /\ body[i][2] = o}
Offsets(body)     == {body[i][2] : i \in {i \in DOMAIN body : body[i][1] # "call"}}
Least(S)          == CHOOSE n \in S : \A m \in S : n <= m
ReadFirst(body, from, o) ==
  LET later == {i \in Mentions(body, o) : i > from}
  IN  later # {} /\ body[Least(later)][1] = "read"
Version(body, i, o) ==
  Cardinality({j \in 1 .. i - 1 : \/ body[j] = <<"write", o>>
                                  \/ body[j][1] = "call" /\ o > 0 /\ ReadFirst(body, j, o)})
At(body, i) == {<<o, Version(body, i, o)>> : o \in Offsets(body)}
CallAt(body, i) ==
  [target |-> body[i][2], written |-> At(body, i),
   read |-> {<<o, Version(body, i + 1, o)>> : o \in {o \in Offsets(body) : o > 0 /\ ReadFirst(body, i, o)}}]
Built(k, body, es) ==
  [size   |-> k,
   inputs |-> {<<o, TRUE>> : o \in {o \in Offsets(body) : ReadFirst(body, 0, o)}},
   used   |-> {<<body[i][2], Version(body, i, body[i][2])>> :
                 i \in {i \in DOMAIN body : body[i][1] = "read"}},
   ret    |-> {At(body, Len(body) + 1)},
   calls  |-> LET cs == {i \in DOMAIN body : body[i][1] = "call"}
              IN  [n \in 1 .. Cardinality(cs) |->
                     CallAt(body, CHOOSE i \in cs : Cardinality({j \in cs : j <= i}) = n)],
   exprs  |-> es, places |-> <<>>,
   names  |-> [n \in 0 .. 2 |-> CASE n = 0 -> <<"stack", <<-1, 0>>>> [] n = 1 -> <<"global", 100>>
                                  [] n = 2 -> <<"stack", <<1, 1>>>>]]

R(o) == <<"read", o>>
W(o) == <<"write", o>>
C(f) == <<"call", f>>

\* Identity, x+1 twice over, a swap, one that reads nothing, one that writes
\* another cell than it reads.
Callees ==
  {[k |-> 2, body |-> <<R(-1), W(-1)>>], [k |-> 2, body |-> <<R(-1), W(-1), R(-1), W(-1)>>],
   [k |-> 3, body |-> <<R(-2), W(1), R(-1), W(-2), R(1), W(-1)>>],
   [k |-> 2, body |-> <<W(-1)>>], [k |-> 3, body |-> <<R(-2), W(-1)>>]}
\* What conversion leaves of a parameter where a phi function is missing: the
\* value at entry, or all of it, is used as the version after a write.
Overwritten(vs) == [Built(2, <<R(-1), W(-1)>>, <<>>) EXCEPT !.used = {<<-1, v>> : v \in vs}]
Callers ==
  {<<W(1), C(2), R(1)>>, <<W(1), W(1), W(2), C(2), R(2), R(1)>>, <<W(1), C(2), W(1), C(2), R(1)>>,
   <<W(1), C(2), R(3)>>, <<W(1), C(0), R(1)>>, <<W(1), C(7)>>, <<W(1), C(2)>>}

p == Var(0)
g == Var(1)
l == Var(2)
Sum(a, b)  == Binary("+", a, b)
Diff(a, b) == Binary("-", a, b)
\* What the converter and the folding write down.
Es ==
  {[role |-> "value", e |-> e] :
     e \in {Deref(Sum(p, Const(3))), Diff(p, Const(-2)), Sum(Const(0), p), Sum(p, Const(-1)),
            Sum(p, Binary("*", l, Const(-1))), Deref(Sum(p, Const(-1))), Sum(Deref(Sum(l, Const(1))), Sum(l, Const(2))), Diff(Binary("*", Const(1), p), Binary("*", l, Const(0))),
            Sum(Neg(p), l), Diff(Const(0), p), Binary("*", Diff(p, Const(0)), Const(-1)),
            Sum(Deref(Sum(g, Const(2))), Sum(g, Const(5)))}}
   \cup {[role |-> "cond", e |-> e] :
     e \in {Not(Binary("<", p, Const(0))), Not(Not(p)), Not(Not(Not(Binary("=", p, l)))),
            Not(Sum(p, Const(0)))}}
Field(x, n)  == [role |-> "value", e |-> Deref(Sum(x, Const(n)))]
Stored(x, n) == [role |-> "address", e |-> Sum(x, Const(n))]
Nested       == [role |-> "value", e |-> Deref(Sum(Deref(Sum(p, Const(1))), Const(1)))]

Two(f1, f2, lines) == [funs |-> <<f1, f2>>, lines |-> lines, image |-> <<2, 0, 1, 5, 2, -1, 2, 7>>]
Caller(body, es)   == Built(4, body, es)
Identity(es)       == Built(2, <<R(-1), W(-1)>>, es)

IntT     == Word(<<"Int", "">>)
Integer == Word(<<"Int", "eger">>)
Point   == Word(<<"", "Point">>)
Color   == Word(<<"", "Color">>)
Ptr(t)  == Of("Pointer", t)
F(f, args)    == [kind |-> "F", key |-> f, args |-> args]
V(x, type)    == [kind |-> "V", key |-> x, type |-> type]
G(a, type)    == [kind |-> "G", key |-> a, type |-> type]
T(t)          == [kind |-> "T", name |-> t.w]
S(t, fields)  == [kind |-> "S", name |-> t.w, args |-> fields]
X(x)          == [kind |-> "XPHI", key |-> x]
PointS        == S(Point, <<{IntT}, {Ptr(Point)}>>)

Files ==
  {<<F(2, a), PointS>> : a \in {<<{Ptr(Point)}>>, <<{Point}>>, <<{}, {Ptr(Point)}>>, <<{Integer}>>,
                                <<{Ptr(Color)}>>, <<{Ptr(Point)}, {Ptr(Integer)}>>}}
Types == {IntT, Integer, Point, Color, Ptr(Point), Ptr(Integer), Ptr(Color), Of("Array", Ptr(Point)),
          Ptr([k |-> "Function"])}
Lists ==
  {<<V("x", {t}), PointS, T(Color)>> : t \in Types}
  \cup {<<G(7, {t}), PointS, S(Point, <<{t}>>), G(7, {Point})>> : t \in Types \ {Color}}
  \cup {<<S(Point, <<{}, {u}>>), V("x", {Ptr(t)}), T(t), T(u), X("x")>> : t, u \in {Point, Color}}
  \cup {<<PointS, [kind |-> "?"]>>, <<S(Color, <<{Ptr(Integer)}>>)>>, <<V("x", {}), V("x", {Color}), T(Point)>>}

Cell(a, ty)  == [addr |-> a, cell |-> TRUE, type |-> ty]
Value(n, ty) == [addr |-> n, cell |-> FALSE, type |-> ty]
At1          == [k |-> "struct", id |-> 1]
Encoded      == Word(EncodedString)
Fn           == [k |-> "Function"]
Text         == Ptr([k |-> "custom", id |-> 2])
\* Addresses 4 and 7 are in the image of 8 cells, an array at 7 is not all in it;
\* the word at 3 points to a negative length.
PlaceLists ==
  {<<>>, <<Cell(4, IntT), Value(-1, IntT), Value(4, IntT)>>, <<Value(4, Of("Array", IntT)), Cell(4, IntT)>>,
   <<Value(4, Of("Array", At1)), Value(4, Fn)>>, <<Value(7, Of("Array", IntT)), Cell(5, IntT)>>,
   <<Value(4, Text)>>, <<Value(2, Text)>>, <<Value(3, Of("Array", At1))>>, <<Value(4, Of("Array", Fn)), Value(7, Text)>>, <<Cell(9, IntT)>>}
GlobalLists ==
  {<<S(Point, <<{Ptr(Fn)}, {Ptr(Encoded)}, {IntT}>>), T(Encoded), T(Point)>> \o gs :
     gs \in {<<>>, <<G(4, {Of("Array", Color)}), S(Color, <<{}>>), F(2, <<>>), G(5, {Point})>>,
              <<G(4, {Of("Array", IntT)}), F(1, <<>>), G(1, {})>>,
              <<G(7, {Of("Array", IntT)})>>, <<G(2, {Of("Array", Ptr(Encoded))})>>, <<G(2, {Point})>>,
              <<G(4, {Color}), S(Color, <<{}, {}, {Fn}, {Ptr(Encoded)}>>), F(2, <<>>)>>}}
Placed(f, ps) == [f EXCEPT !.places = ps]

MCPrograms ==
  {Two(Caller(b, <<>>), Built(c.k, c.body, <<>>), <<>>) : b \in Callers, c \in Callees}
  \cup {Two(Caller(<<W(1), C(2), R(1)>>, <<>>), Overwritten(vs), <<>>) : vs \in {{1, 2}, {0, 2}}}
  \cup {Two(Caller(<<W(1)>>, <<e>>), Identity(<<Field(p, 2)>>), <<>>) : e \in Es}
  \cup {Two(Caller(<<W(1)>>, <<Field(l, 1)>>), Identity(<<Field(p, 2)>>), d) : d \in Files}
  \cup {Two(Caller(<<W(1)>>, <<>>), Identity(<<>>), ls) : ls \in Lists}
  \cup {Two(Caller(<<W(1)>>, <<e, x>>), Identity(<<Field(g, n)>>), <<>>) :
          e \in {Field(g, 1), Stored(g, 4)}, x \in {Field(l, 2), Stored(l, 3), Nested, Field(g, 4)}, n \in {3, 9, 12}}
  \cup {Two(Placed(Caller(<<W(1)>>, <<>>), a), Placed(Identity(<<>>), b), ls) :
          a, b \in PlaceLists, ls \in GlobalLists}
=============================================================================
