--------------------------- MODULE TypeConstraints ---------------------------
(***************************************************************************)
(* ConstraintStore (type_inference/constraints.rs) and the constraints     *)
(* generated for a program (constraints_generator.rs).                     *)
(*                                                                         *)
(* A program is a record                                                   *)
(*   functions  a sequence, in the order of their addresses, of            *)
(*              [id, params, returns, code]; code lists the blocks'        *)
(*              instructions, phi functions first                          *)
(*   structs    the fields' types of each user-defined struct              *)
(*   structOf   the struct each versioned reference points to, if known    *)
(*   types      the user's types: of variables <<"var", vmr, type>>, then  *)
(*              of arguments <<"arg", function id, position, type>>, then  *)
(*              of globals <<"global", address, type>>                     *)
(*   excluded   the results of the phi functions the user excludes         *)
(*                                                                         *)
(* An expression is <<"const", n>>, <<"ref", vmr>>, <<"deref", e>>,        *)
(* <<"bin", op, e, e>>, <<"not", e>>, <<"minus", e>> or <<"input">>.       *)
(* A versioned reference (vmr) is <<function, kind, offset, version>>.     *)
(***************************************************************************)
EXTENDS TypeBounds

Fold(Op(_, _), base, s) ==
  LET f[i \in 0 .. Len(s)] ==
        IF i = 0 THEN base ELSE LET before == f[i - 1] IN Op(before, s[i])
  IN  f[Len(s)]
Flatten(ss) == Fold(\o, <<>>, ss)

\* The elements of a small set in the order Less.
Sorted(S, Less(_, _)) ==
  [i \in 1 .. Cardinality(S) |-> CHOOSE x \in S : Cardinality({y \in S : Less(y, x)}) = i - 1]

EmptyStore == [cons |-> <<>>, index |-> {}]

\* Where a constraint comes from tells it from another between the same types.
Constraint(sub, sup, at, why) == [sub |-> sub, sup |-> sup, at |-> at, why |-> why, priority |-> 0]

\* The variables a constraint is found under: those of its types as resolved.
Involved(st, c) == VarsOf(Resolve(st, c.sub)) \cup VarsOf(Resolve(st, c.sup))

IdsOf(store, c) == {i \in 1 .. Len(store.cons) : store.cons[i] = c}

\* add_constraint
AddConstraint(store, st, c) ==
  IF IdsOf(store, c) # {} \/ c.sub = c.sup THEN store
  ELSE [cons  |-> Append(store.cons, c),
        index |-> store.index \cup (Involved(st, c) \X {Len(store.cons) + 1})]

Flip(c) == [c EXCEPT !.sub = c.sup, !.sup = c.sub]
AddEquality(store, st, c) == AddConstraint(AddConstraint(store, st, c), st, Flip(c))

ConstraintsOf(store, V) == {e[2] : e \in {e \in store.index : e[1] \in V}}

\* update_constraints_involving_type_var_id, for each variable of V.
Reindex(store, st, V) ==
  [store EXCEPT !.index =
     @ \cup UNION {Involved(st, store.cons[i]) \X {i} : i \in ConstraintsOf(store, V)}]
-----------------------------------------------------------------------------
(* The generator: its result so far.  vs is the stack of the variables of the *)
(* expressions processed and not used yet; `at` is the instruction.  Nothing *)
(* converges meanwhile: the constraints are listed in `cons` and added to the *)
(* store at the end.                                                       *)

EmptyResult ==
  [st |-> EmptyState, cons |-> <<>>, adds |-> <<>>, of |-> [x \in {} |-> 0],
   types |-> <<>>, at |-> <<0, 0>>, vs |-> <<>>]

NewVar(g, path, constant) == [g EXCEPT !.st = AddVar(@, path, constant)]
Newest(g) == Len(g.st.var)
\* The i-th variable of the stack from the top, and the top n replaced by v.
Top(g, i)        == g.vs[Len(g.vs) + 1 - i]
Replaced(g, n, v) == [g EXCEPT !.vs = Append(SubSeq(@, 1, Len(@) - n), v)]
Pushed(g, n, path, constant) == Replaced(NewVar(g, path, constant), n, Newest(g) + 1)

\* get_or_create_type_var_for_vmr
VmrVar(g, x, path) ==
  IF x \in DOMAIN g.of THEN Replaced(g, 0, g.of[x])
  ELSE [Pushed(g, 0, path, None) EXCEPT
          !.of = [y \in DOMAIN g.of \cup {x} |-> IF y = x THEN Newest(g) + 1 ELSE g.of[y]]]

Add(g, c)           == [g EXCEPT !.cons = Append(@, c)]
Sub(g, s, t, why)   == Add(g, Constraint(s, t, g.at, why))
Equal(g, s, t, why) == Add(Sub(g, s, t, why), Constraint(t, s, g.at, why))
Urgent(g, s, t, why) ==
  LET c == [Constraint(s, t, g.at, why) EXCEPT !.priority = 100] IN Add(Add(g, c), Flip(c))

Comparisons == {"<", ">", "<=", ">="}
Equations   == {"==", "!="}

\* try_field_access_constraint: a constant offset from a reference to a struct.
IsField(prog, a, b) ==
  a[1] = "ref" /\ a[2] \in DOMAIN prog.structOf /\ b[1] = "const" /\ b[2] >= 0
FieldType(prog, a, n) == prog.structs[prog.structOf[a[2]]][n + 1]

\* The result of an operator whose operands are the top of the stack of g.
Operator(prog, g, e, path) ==
  LET v == TypeVar(Top(g, 2))
      w == TypeVar(Top(g, 1))
      r == TypeVar(Newest(g) + 1)
      h == Pushed(g, 2, path, None)
  IN
  CASE e[2] \in {"+", "-"} ->
         IF IsField(prog, e[3], e[4])
           THEN Urgent(h, FieldType(prog, e[3], e[4][2]), r, "FieldAccess")
           ELSE [h EXCEPT !.adds = Append(@,
                   [at |-> g.at, lhs |-> Top(g, 2), rhs |-> Top(g, 1), res |-> Newest(g) + 1,
                    offset |-> IF e[4][1] = "const" THEN e[4][2] ELSE None])]
    [] e[2] = "*" ->
         Equal(Equal(Equal(h, v, Int0, "ArithmeticLHS"), w, Int0, "ArithmeticRHS"),
               r, Int0, "ArithmeticResult")
    [] e[2] \in Comparisons ->
         Equal(Equal(Equal(h, r, Bool, "ComparisonResult"), v, Int0, "ComparisonLHS"),
               w, Int0, "ComparisonRHS")
    [] e[2] \in Equations ->
         Equal(Equal(h, r, Bool, "ComparisonResult"), v, w, "EqualityComparisonSameType")

\* What is at the address e, whose variable is on top of the stack of g.
Dereference(prog, g, e, path) ==
  LET r == TypeVar(Newest(g) + 1)
      h == Pushed(g, 1, path, None)
  IN  Equal(IF e[1] = "ref" /\ e[2] \in DOMAIN prog.structOf
              THEN Urgent(h, FieldType(prog, e, 0), r, "FieldAccess") ELSE h,
            TypeVar(Top(g, 1)), Pointer(r), "DereferenceRequiresPointer")

Unary(g, path, operand, result, why) ==
  Sub(Sub(Pushed(g, 1, path, None), TypeVar(Top(g, 1)), operand, why[1]),
      TypeVar(Newest(g) + 1), result, why[2])

\* process_expression: the variable of the expression is pushed.
RECURSIVE Process(_, _, _, _)
Process(prog, g, e, path) ==
  CASE e[1] = "const" -> Sub(Pushed(g, 0, path, e[2]), TypeVar(Newest(g) + 1), NumericLiteral, "NumericLiteral")
    [] e[1] = "input" -> Sub(Pushed(g, 0, path, None), TypeVar(Newest(g) + 1), Char, "InputSourceType")
    [] e[1] = "ref"   -> VmrVar(g, e[2], path)
    [] e[1] = "deref" -> Dereference(prog, Process(prog, g, e[2], path), e[2], path)
    [] e[1] = "bin"   -> Operator(prog, Process(prog, Process(prog, g, e[3], path), e[4], path), e, path)
    [] e[1] = "not"   -> Unary(Process(prog, g, e[2], path), path, NumericLiteral, Bool,
                               <<"NotOperand", "NotResult">>)
    [] e[1] = "minus" -> Unary(Process(prog, g, e[2], path), path, Int0, Int0,
                               <<"UnaryMinusOperand", "UnaryMinusResult">>)

\* The variables of a sequence of expressions, or of references, in order.
ProcessAll(prog, g, es, path) == Fold(LAMBDA h, e : Process(prog, h, e, path), g, es)
VmrVars(g, xs, path) == Fold(LAMBDA h, x : VmrVar(h, x, path), g, xs)
\* n variables of the stack, the i-th from the top the last.
TupleOf(g, n, i) == Tuple([k \in 1 .. n |-> TypeVar(Top(g, n + i - k))])
-----------------------------------------------------------------------------
(* Functions, instructions and the user's types.                           *)

\* Of a function whose variables are on top of the stack, and were preceded by
\* those of the tuples of its arguments and returns, args and args + 1.
Declare(g, f, args) ==
  LET m == Len(f.returns)
  IN  [Equal(Equal(g, TypeVar(args), TupleOf(g, Len(f.params), m + 1), "CalleeFunctionArguments"),
             TypeVar(args + 1), TupleOf(g, m, 1), "CalleeFunctionReturns")
         EXCEPT !.types = Append(@, [id |-> f.id, args |-> TypeVar(args), rets |-> TypeVar(args + 1)])]

Signature(g, f) ==
  LET h == NewVar(NewVar([g EXCEPT !.at = <<f.id, 0>>], "FunctionDefArgTuple", None),
                  "FunctionDefRetTuple", None)
  IN  Declare(VmrVars(VmrVars(h, f.params, "FunctionDefArg"), f.returns, "FunctionDefRet"),
              f, Newest(g) + 1)

TypesOf(types, id) == {types[i] : i \in {i \in 1 .. Len(types) : types[i].id = id}}

PhiInput(g, x) == Equal(g, TypeVar(Top(g, 1)), TypeVar(g.of[x]), "PhiNodeOperand")
Phi(g, x, from) ==
  Fold(LAMBDA h, y : PhiInput(VmrVar(h, y, "PhiAssignmentArg"), x), VmrVar(g, x, "PhiAssignment"), from)

Assigned(g) == Equal(g, TypeVar(Top(g, 2)), TypeVar(Top(g, 1)), "Assignment")
Assign(prog, g, x, e) ==
  Assigned(VmrVar(Process(prog, g, e, "AssignmentSrc"), x, "AssignmentTargetVersioned"))

\* The value stored is below the address on the stack.
StoredAt(prog, g, pe) ==
  Equal(IF pe[1] = "bin" /\ pe[2] = "+" /\ IsField(prog, pe[3], pe[4])
          THEN Urgent(g, FieldType(prog, pe[3], pe[4][2]), TypeVar(Top(g, 2)), "FieldAccess") ELSE g,
        TypeVar(Top(g, 1)), Pointer(TypeVar(Top(g, 2))), "AssignmentToDereferenceTarget")
Store(prog, g, pe, e) ==
  StoredAt(prog, Process(prog, Process(prog, g, e, "AssignmentSrc"), pe, "AssignmentTargetDeref"), pe)

\* The address, n arguments and m results are on the stack, the variables of
\* the tuples of arguments and results are the newest.
Called(g, n, m) ==
  LET A == TypeVar(Newest(g) - 1)
      R == TypeVar(Newest(g))
  IN  Equal(Equal(Sub(g, TypeVar(Top(g, n + m + 1)), Function(A, R), "FunctionCallImpliesFunctionType"),
                  A, TupleOf(g, n, m + 1), "FunctionCallArguments"),
            TupleOf(g, m, 1), R, "FunctionCallReturns")
Bind(g, c) ==
  Sub(Sub(g, TypeVar(Newest(g) - 1), c.args, "FunctionCallArgumentsBinding"),
      c.rets, TypeVar(Newest(g)), "FunctionCallReturnsBinding")
CallVars(prog, g, e, args, rets) ==
  NewVar(NewVar(VmrVars(ProcessAll(prog, Process(prog, g, e, "CallAddress"), args, "CallArg"),
                        rets, "CallRet"),
                "CallArgTuple", None), "CallRetTuple", None)

\* A direct call is also bound to the callee's own arguments and returns.
Call(prog, g, e, args, rets) ==
  LET h == Called(CallVars(prog, g, e, args, rets), Len(args), Len(rets))
      callees == IF e[1] = "const" THEN TypesOf(g.types, e[2]) ELSE {}
  IN  IF callees = {} THEN h ELSE Bind(h, CHOOSE c \in callees : TRUE)

Condition(g) == Sub(g, TypeVar(Top(g, 1)), Truthy, "IfConditionOperand")
Output(g)    == Equal(g, TypeVar(Top(g, 1)), Char, "OutputValueType")

GenerateFor(prog, g, i) ==
  CASE i[1] = "phi"    -> IF i[2] \in prog.excluded THEN g ELSE Phi(g, i[2], i[3])
    [] i[1] = "assign" -> Assign(prog, g, i[2], i[3])
    [] i[1] = "store"  -> Store(prog, g, i[2], i[3])
    [] i[1] = "if"     -> Condition(Process(prog, g, i[2], "IfCond"))
    [] i[1] = "out"    -> Output(Process(prog, g, i[2], "Output"))
    [] i[1] = "call"   -> Call(prog, g, i[2], i[3], i[4])
    [] OTHER -> g

GenerateCode(prog, g, f) ==
  Fold(LAMBDA h, k : GenerateFor(prog, [h EXCEPT !.at = <<f.id, k>>, !.vs = <<>>], f.code[k]),
       g, [k \in 1 .. Len(f.code) |-> k])

\* The references to a global, in the order of their variables: the first is the
\* one the others are equal to.
GlobalVars(g, address) ==
  {g.of[x] : x \in {x \in DOMAIN g.of : x[2] = "M" /\ x[3] = address}}
Canonical(g, address) ==
  CHOOSE v \in GlobalVars(g, address) : \A w \in GlobalVars(g, address) : v <= w
Globals(g) == {x[3] : x \in {x \in DOMAIN g.of : x[2] = "M"}}
EqualGlobals(g) ==
  LET pairs == {p \in Globals(g) \X Vars(g.st) :
                  p[2] \in GlobalVars(g, p[1]) \ {Canonical(g, p[1])}}
  IN  Fold(LAMBDA acc, p : Equal(acc, TypeVar(Canonical(g, p[1])), TypeVar(p[2]), "GlobalVariable"),
                  [g EXCEPT !.at = <<0, 0>>],
                  Sorted(pairs, LAMBDA p, q : p[1] < q[1] \/ (p[1] = q[1] /\ p[2] < q[2])))

ParamOf(prog, id, n) == (CHOOSE f \in {prog.functions[i] : i \in 1 .. Len(prog.functions)} : f.id = id).params[n]
UserType(prog, g, u) ==
  CASE u[1] = "var" /\ u[2] \in DOMAIN g.of -> Urgent(g, TypeVar(g.of[u[2]]), u[3], "SymbolRenaming")
    [] u[1] = "arg" -> Urgent(g, TypeVar(g.of[ParamOf(prog, u[2], u[3])]), u[4], "SymbolRenaming")
    [] u[1] = "global" /\ u[2] \in Globals(g) ->
         Urgent(g, TypeVar(Canonical(g, u[2])), u[3], "SymbolRenaming")
    [] OTHER -> g

\* generate_all_constraints
Generate(prog) ==
  LET signed   == Fold(Signature, EmptyResult, prog.functions)
      coded    == Fold(LAMBDA g, f : GenerateCode(prog, g, f), signed, prog.functions)
  IN  Fold(LAMBDA g, u : UserType(prog, [g EXCEPT !.at = <<0, 0>>], u), EqualGlobals(coded),
           prog.types)
InStore(g) == Fold(LAMBDA store, c : AddConstraint(store, g.st, c), EmptyStore, g.cons)
=============================================================================
