------------------------------- MODULE MCSsa -------------------------------
(* Functions for Ssa, with the results of DataFlow for them.               *)
EXTENDS Ssa

None(f) == [b \in f.blocks |-> {}]
DF(f, defs) ==
  INSTANCE DataFlow WITH
    Programs <- {f}, prog <- f, pass <- "done", todo <- {}, changed <- FALSE,
    frIn <- None(f), frOut <- None(f), defsIn <- defs, defsOut <- None(f),
    liveIn <- None(f), liveOut <- None(f), accessed <- None(f)

Fst(S) == {p[1] : p \in S}

\* The function f with its data flow results, by their path definitions, which
\* are the results of the analysis (DefsExact, LiveExact, CallSitesExact).
Analysed(f) ==
  LET defs == [b \in f.blocks |-> DF(f, None(f))!Reaching(b)]
  IN  [blocks |-> f.blocks, entry |-> f.entry, ret |-> f.ret, code |-> f.code, next |-> f.next,
       inputs   |-> {d.kind : d \in DF(f, defs)!InputDefs},
       live     |-> [b \in f.blocks |-> Fst(DF(f, defs)!ReadLater(b) \cup DF(f, defs)!HandedOn(b))],
       accessed |-> [b \in f.blocks |-> IF IsCall(f, b) THEN DF(f, defs)!Credited(b) ELSE {}]]

I(r, w)    == [reads |-> r, write |-> w]
R(n)       == <<"R", n>>
M          == <<"M", 500>>
Nx(k, to)  == [kind |-> k, to |-> to]
Out(k)     == I({k}, {})
Set(k)     == I({}, {k})
Func(next, ret, code) ==
  [blocks |-> DOMAIN next, entry |-> 1, ret |-> ret, code |-> code, next |-> next]

X == R(-1)
Y == R(-2)

Bodies == {<<>>, <<Set(X)>>, <<I({X, M}, {X}), I({X}, {M})>>}

\* if .. then a else b; c
Diamond ==
  {Func(<<Nx("if", <<2, 3>>), Nx("goto", <<4>>), Nx("goto", <<4>>), Nx("end", <<>>)>>, {4},
        << <<Set(X), Out(Y)>>, a, b, <<I({X, M}, {Y}), Out(Y)>> >>) : a, b \in Bodies}

\* c; while .. { a; if .. { b } }; output
LoopWithBranch ==
  {Func(<<Nx("goto", <<2>>), Nx("if", <<3, 5>>), Nx("if", <<4, 2>>), Nx("goto", <<2>>),
          Nx("end", <<>>)>>, {5},
        << c, <<Out(X)>>, a, b, <<Out(X), Out(M)>> >>) :
     a \in {<<>>, <<I({X}, {Y})>>}, b \in Bodies, c \in Bodies}

\* A loop that calls: the argument [R+1] is set before the call, the return
\* value [R+1] is read after it, and [500] may be changed by either function.
LoopWithCall ==
  {Func(<<Nx("goto", <<2>>), Nx("call", <<3>>), Nx("if", <<2, 4>>), Nx("end", <<>>)>>, {4},
        << <<Set(X)>>, a \o <<I({X}, {R(1)})>>, <<I({X, R(1)}, {X})>> \o b, <<Out(X)>> >>) :
     a, b \in {<<>>, <<I({M}, {M})>>}}

AllOrders(S)  == {o \in [1 .. Cardinality(S) -> S] : {o[i] : i \in DOMAIN o} = S}
Descending(S) == {[i \in 1 .. Cardinality(S) |-> CHOOSE b \in S : Cardinality({c \in S : c > b}) = i - 1]}

MCPrograms == {Analysed(f) : f \in Diamond \cup LoopWithBranch \cup LoopWithCall}

\* x = 0; if .. { if .. { .. } else { x = 1 } }; output x: the inner join needs a
\* phi because of x = 1, the outer join because of the inner one.
NestedBranch ==
  {Analysed(Func(<<Nx("if", <<5, 2>>), Nx("if", <<4, 3>>), Nx("goto", <<4>>), Nx("goto", <<5>>),
                   Nx("end", <<>>)>>, {5},
        << <<Set(X)>>, <<>>, <<Set(X)>>, <<>>, <<Out(X)>> >>))}

\* g = 1; if .. { f() } else { .. }; while .. && .. { .. }; output g
CallThenLoop ==
  {Analysed(Func(<<Nx("if", <<2, 4>>), Nx("call", <<3>>), Nx("goto", <<5>>), Nx("goto", <<5>>),
                   Nx("if", <<6, 8>>), Nx("if", <<7, 8>>), Nx("goto", <<5>>), Nx("end", <<>>)>>, {8},
        << <<Set(M)>>, <<>>, <<>>, <<>>, <<>>, <<>>, <<>>, <<Out(M)>> >>))}
=============================================================================
