--------------------------- MODULE MCTypeInference ---------------------------
(* Small programs for TypeInference: several with the shapes of the tests in *)
(* type_inference_tests.rs.                                                *)
EXTENDS TypeInference

R(f, n, v) == <<f, "R", n, v>>
M(a, v)    == <<1, "M", a, v>>
Const(n)   == <<"const", n>>
Ref(x)     == <<"ref", x>>
Deref(e)   == <<"deref", e>>
Bin(o, a, b) == <<"bin", o, a, b>>
Fn(id, params, returns, code) == [id |-> id, params |-> params, returns |-> returns, code |-> code]
Nothing0 == [x \in {} |-> 0]
Program(fs, expected) ==
  [functions |-> fs, structs |-> <<>>, structOf |-> Nothing0, types |-> <<>>, excluded |-> {},
   contradictory |-> FALSE, expected |-> expected]
Expect(x, t) == [y \in {x} |-> t]

X == R(1, -1, 0)
Y == R(1, -2, 0)
Z == R(1, -3, 0)

\* [R-1] = [R-2] + [R-3]; one is printed, another multiplied.
Arithmetic ==
  {Program(<<Fn(1, <<>>, <<>>, <<<<"assign", X, Bin("+", Ref(Y), Ref(Z))>>, <<"out", Ref(a)>>,
                                 <<"if", Bin("<", Ref(b), Const(3))>> >>)>>,
           [x \in {X, Y, Z} |-> IF x = b THEN Int0 ELSE Char]) : a \in {X}, b \in {Y, Z}}
  \cup
  {Program(<<Fn(1, <<>>, <<>>, <<<<"assign", X, Bin("+", Ref(Y), Const(1))>>, <<"out", Deref(Ref(X))>> >>)>>,
           [x \in {X, Y} |-> Pointer(Char)])}

\* A condition that is a number is negated.
Negated ==
  {Program(<<Fn(1, <<>>, <<>>, <<<<"if", Ref(X)>>, <<"assign", Y, <<"minus", Ref(X)>> >> >>)>>,
           Expect(X, Int0))}

\* A loop: x1 = phi(x0, x2); x2 = x1 + 1; output *x1.
Loop ==
  {Program(<<Fn(1, <<X>>, <<>>,
             <<<<"phi", R(1, -1, 1), <<X, R(1, -1, 2)>> >>, <<"out", Deref(Ref(R(1, -1, 1)))>>,
               <<"assign", R(1, -1, 2), Bin("+", Ref(R(1, -1, 1)), Const(1))>> >>)>>,
           [x \in {X, R(1, -1, 1), R(1, -1, 2)} |-> Pointer(Char)])}

\* f1 passes the address of f9 to f5, which calls it with what it prints.
Indirect ==
  {Program(<<Fn(1, <<>>, <<>>, <<<<"assign", M(500, 1), Const(9)>>, <<"call", Const(5), <<Ref(M(500, 1))>>, <<>> >> >>),
             Fn(5, <<R(5, -1, 0)>>, <<>>,
                <<<<"out", Ref(R(5, -2, 0))>>, <<"call", Ref(R(5, -1, 0)), <<Ref(R(5, -2, 0))>>, <<>> >> >>),
             Fn(9, <<R(9, -1, 0)>>, <<>>, <<>>)>>,
           Expect(R(9, -1, 0), Char))}

\* f5 returns the character that f1 prints; what else f1 does is for no result.
Returned ==
  {Program(<<Fn(1, <<>>, <<>>, <<<<"call", Const(5), <<Const(3)>>, <<X>> >>, <<"out", Ref(X)>> >>),
             Fn(5, <<R(5, -2, 0)>>, <<R(5, -1, 0)>>, <<<<"assign", R(5, -1, 0), Ref(R(5, -1, 1))>>,
               <<"if", Bin("<", Ref(R(5, -2, 0)), Const(1))>> >>)>>,
           [x \in {X, R(5, -1, 0), R(5, -2, 0)} |-> IF x = R(5, -2, 0) THEN Int0 ELSE Char])}

\* Every operator; the phi function of a variable the user excludes.
Operators ==
  {[Program(<<Fn(1, <<>>, <<>>,
        <<<<"phi", R(1, -1, 1), <<X, Y>> >>, <<"assign", X, <<"input">> >>,
          <<"assign", Y, Bin("*", Ref(Z), <<"minus", Ref(R(1, -4, 0))>>)>>,
          <<"if", <<"not", Bin("==", Ref(Z), Const(0))>> >> >>)>>,
      [x \in {X, Y, Z} |-> IF x = X THEN Char ELSE Int0]) EXCEPT !.excluded = {R(1, -1, 1)}]}

\* Two versions of a global; the user says what it is.
Global ==
  {[Program(<<Fn(1, <<>>, <<>>, <<<<"assign", M(500, 1), Ref(X)>>, <<"assign", Y, Ref(M(500, 2))>> >>),
              Fn(5, <<R(5, -1, 0)>>, <<>>, <<>>)>>,
      [x \in {X, Y, R(5, -1, 0)} |-> IF x = R(5, -1, 0) THEN Pointer(Char) ELSE CustomType(1)])
    EXCEPT !.types = <<<<"arg", 5, 1, Pointer(Char)>>, <<"global", 500, CustomType(1)>> >>],
   [Program(<<Fn(1, <<>>, <<>>, <<<<"assign", X, Ref(Y)>> >>)>>, [x \in {X, Y} |-> Int0])
    EXCEPT !.types = <<<<"var", X, Int0>> >>]}

\* f1 passes what it is given to two functions.
Passed ==
  {Program(<<Fn(1, <<X>>, <<>>, <<<<"call", Const(5), <<Ref(X)>>, <<>> >>, <<"call", Const(7), <<Ref(X)>>, <<>> >> >>),
             Fn(5, <<R(5, -1, 0)>>, <<>>, <<>>), Fn(7, <<R(7, -1, 0)>>, <<>>, <<>>)>>,
           Expect(X, Generic(1)))}

\* f1 takes a pointer to a struct, reads its first field and the address of the
\* second: a pointer to a struct is not a pointer to the struct's first field.
Fields ==
  LET fields == <<Int0, Pointer(Char)>>
      P(code) == [Program(<<Fn(1, <<X>>, <<>>, code)>>,
                          [x \in {Y, Z} |-> IF x = Y THEN Int0 ELSE Pointer(Char)])
                  EXCEPT !.structs = <<fields>>, !.types = <<<<"arg", 1, 1, Pointer(Struct(1))>> >>]
  IN  {[P(<<<<"assign", Y, Deref(Ref(X))>>, <<"assign", Z, Bin("+", Ref(X), Const(1))>> >>)
        EXCEPT !.structOf = [x \in {X} |-> 1], !.contradictory = TRUE]}

Ascend(S)  == Ascending(S)
Descend(S) == Sorted(S, >)
Evens(S) == Sorted(S, LAMBDA i, j : (i % 2 = 0 /\ j % 2 = 1) \/ (i % 2 = j % 2 /\ i < j))
Orders(S) == {Ascend(S), Descend(S), Evens(S)}

\* A linked list is walked: x1 = phi(x0, x2); x2 = *x1.
LinkedList ==
  {Program(<<Fn(1, <<X>>, <<>>,
             <<<<"phi", R(1, -1, 1), <<X, R(1, -1, 2)>> >>,
               <<"assign", R(1, -1, 2), Deref(Ref(R(1, -1, 1)))>> >>)>>, Nothing0)}

MCPrograms ==
  Arithmetic \cup Negated \cup Loop \cup Indirect \cup Returned \cup Operators \cup Global
  \cup Passed \cup Fields
=============================================================================
