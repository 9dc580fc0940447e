----------------------------- MODULE MCDataFlow -----------------------------
(* Control flow graphs for DataFlow: a few shapes, and every way to fill some *)
(* of their blocks from short lists of instructions.                       *)
EXTENDS DataFlow

I(r, w)    == [reads |-> r, write |-> w]
R(n)       == <<"R", n>>
M          == <<"M", 500>>
Nx(k, to)  == [kind |-> k, to |-> to]
Branch     == I({R(-1)}, {})      \* if [R-1]
Out(k)     == I({k}, {})

Func(next, ret, code) ==
  [blocks |-> DOMAIN next, entry |-> 1, ret |-> ret, code |-> code, next |-> next]

\* [R-1] = ..; [R+1] = [R-1]; call: the block that calls, in three variants.
Calling == { <<I({R(-1)}, {R(1)})>>,
             <<I({M}, {R(1)}), I({}, {M})>>,
             <<>> }
\* What runs after the call.
After == { <<Out(R(1))>>,
           <<I({R(1)}, {R(-2)}), I({R(1), M}, {R(1)})>>,
           <<I({}, {M}), Branch>> }

\* 1 calls, returning to 2; 2 loops back to itself or goes on to 3, the return.
CallThenLoop ==
  {Func(<<Nx("call", <<2>>), Nx("if", <<2, 3>>), Nx("end", <<>>)>>, {3},
        <<c, a, z>>) :
     c \in Calling, a \in After, z \in After}

\* 1 branches to 2, which calls and returns to 4, or to 3; 3 joins at 4, which
\* calls and returns to 5.
TwoCalls ==
  {Func(<<Nx("if", <<2, 3>>), Nx("call", <<4>>), Nx("goto", <<4>>),
          Nx("call", <<5>>), Nx("end", <<>>)>>, {5},
        << <<I({}, {R(-1)}), Branch>>, c, a, d, <<Out(M), Out(R(1))>> >>) :
     c \in Calling, a \in {<<I({R(-2)}, {R(-1)})>>}, d \in Calling}

\* A loop around a call, whose argument is set before the loop; the function
\* returns from 4, or halts there.
LoopAroundCall ==
  {Func(<<Nx("goto", <<2>>), Nx("if", <<4, 3>>), Nx("call", <<2>>), Nx("end", <<>>)>>, r,
        << <<I({}, {R(1)}), I({R(-3)}, {R(-1)})>>, a, c, <<Out(R(-1))>> >>) :
     r \in {{4}, {}}, a \in After, c \in Calling}

\* The return value flows through blocks that do not call, to where two calls'
\* values meet.
ValuesMeet ==
  {Func(<<Nx("if", <<2, 3>>), Nx("call", <<4>>), Nx("call", <<5>>),
          Nx("goto", <<6>>), Nx("goto", <<6>>), Nx("end", <<>>)>>, {6},
        << <<Branch>>, <<>>, <<>>, a, b, <<Out(R(1))>> >>) :
     a \in After, b \in {<<Out(R(2))>>}}

MCPrograms == CallThenLoop \cup TwoCalls \cup LoopAroundCall \cup ValuesMeet
=============================================================================
