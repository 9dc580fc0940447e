---------------------------- MODULE TypeInference ----------------------------
(***************************************************************************)
(* The solver of type inference (type_inference/solver.rs).                *)
(*                                                                         *)
(* A round collects the constraints of the variables that changed, applies *)
(* them and those they imply, classifies additions, and then decides some  *)
(* variables; rounds end when none could be decided, and generic types are *)
(* introduced.  Constraints are collected in a HashSet: HashOrders(S) is   *)
(* the set of the orders in which a set of ids S may be listed.            *)
(***************************************************************************)
EXTENDS TypeConstraints

CONSTANTS Programs, HashOrders(_)

VARIABLES
  prog,       \* the program
  st, store,  \* InferenceAlgorithmState and ConstraintStore
  given,      \* unclassified additions and function_types of the generator
  iteration,
  queue,      \* constraint_ids
  phase       \* collect, apply, solve, generic, done; panic, endless

vars == <<prog, st, store, given, iteration, queue, phase>>

Init ==
  /\ prog \in Programs
  /\ LET g == Generate(prog)
     IN  /\ st = g.st /\ store = InStore(g)
         /\ given = [adds |-> g.adds, types |-> g.types, of |-> g.of]
  /\ iteration = 0 /\ queue = <<>> /\ phase = "collect"
-----------------------------------------------------------------------------
(* A round: constraints are collected, and applied.                        *)

Urgency(o) ==
  SelectSeq(o, LAMBDA i : store.cons[i].priority > 0) \o
  SelectSeq(o, LAMBDA i : store.cons[i].priority = 0)

Collect ==
  /\ phase = "collect"
  /\ LET V == IF iteration = 0 THEN Vars(st) ELSE st.updated
     IN  /\ store' = Reindex(store, st, V)
         /\ st' = IF iteration = 0 THEN st ELSE [st EXCEPT !.updated = {}]
         /\ \E o \in HashOrders(ConstraintsOf(store, V)) : queue' = Urgency(o)
  /\ iteration' = iteration + 1
  /\ phase' = IF queue' = <<>> THEN "solve" ELSE "apply"
  /\ UNCHANGED <<prog, given>>

Bound(c) ==
  LET s == Resolve(st, c.sub)
      t == Resolve(st, c.sup)
      above == IF IsVar(s) THEN UpdateBound(st, s[2], "up", t) ELSE st
  IN  IF IsVar(t) THEN UpdateBound(above, t[2], "lo", s) ELSE above

\* The constraints on the parts of two types that constraint c implies.
Implied(c) ==
  LET s == Resolve(st, c.sub)
      t == Resolve(st, c.sup)
      C(x, y, why) == Constraint(x, y, c.at, why)
      Min(m, n) == IF m < n THEN m ELSE n
  IN  CASE Is(s, "Tuple") /\ Is(t, "Tuple") ->
             [i \in 1 .. Min(Len(s[2]), Len(t[2])) |-> C(s[2][i], t[2][i], "TupleElementSubtype")]
        [] Is(s, "Pointer") /\ Is(t, "Pointer") -> <<C(s[2], t[2], "PointerSubtype")>>
        [] Is(s, "Function") /\ Is(t, "Function") ->
             <<C(t[2], s[2], "FunctionParamsSubtype"), C(s[3], t[3], "FunctionReturnsSubtype")>>
        [] OTHER -> <<>>

\* Mutant of Push: a constraint found again is applied again.
PushAgain(acc, state, c, again) ==
  LET next == AddConstraint(acc.store, state, c)
      ids  == IdsOf(next, c)
  IN  [store |-> next,
       queue |-> IF ids # {} THEN Append(acc.queue, CHOOSE i \in ids : TRUE) ELSE acc.queue]

\* The store and the queue after constraint c has been added.
Push(acc, state, c, again) ==
  LET next == AddConstraint(acc.store, state, c)
      ids  == IdsOf(next, c)
      push == ids # {} /\ (again \/ Len(next.cons) > Len(acc.store.cons))
  IN  [store |-> next,
       queue |-> IF push THEN Append(acc.queue, CHOOSE i \in ids : TRUE) ELSE acc.queue]

\* Implied constraints are applied in the same round, also when they are old.
Apply ==
  /\ phase = "apply" /\ queue # <<>>
  /\ LET c    == store.cons[Head(queue)]
         done == Fold(LAMBDA acc, d : Push(acc, Bound(c), d, TRUE),
                             [store |-> store, queue |-> Tail(queue)], Implied(c))
     IN  st' = Bound(c) /\ store' = done.store /\ queue' = done.queue
  /\ UNCHANGED <<prog, given, iteration, phase>>
-----------------------------------------------------------------------------
(* Additions and subtractions, whose operands may be numbers or a pointer  *)
(* and an offset.                                                          *)

IfThen(c, cs) == IF c THEN cs ELSE <<>>

\* try_classify_add_expression, where the upper bound of the left operand that
\* is found to be a pointer first is p.
Classified(a, p) ==
  LET C(x, y, why) == Constraint(x, y, a.at, why)
      Both(x, y, why) == <<C(x, y, why), C(y, x, why)>>
      L == TypeVar(a.lhs)
      R == TypeVar(a.rhs)
      op1 == Resolve(st, L)
      op2 == Resolve(st, R)
      res == Resolve(st, TypeVar(a.res))
      Below(x, y) == Subtype(x, y, st.var) = "yes"
      int1 == Below(op1, Int0)
      int2 == Below(op2, Int0)
      pointer1 == Below(op1, Pointer(Any))
      like1 == Below(op1, Char) \/ pointer1
      like2 == Below(op2, Char) \/ Below(op2, Pointer(Any))
      known == Below(res, Int0) \/ Below(Char, res) \/ Below(res, Pointer(Any))
      toStruct == p # Nothing /\ Is(p[2], "Struct")
  IN  IfThen(int1 /\ int2, <<C(TypeVar(a.res), Int0, "ResultBothInt")>>)
      \o IfThen(known /\ int1, Both(R, res, "OperandToIntLikeResult"))
      \o IfThen(known /\ int2, Both(L, res, "OperandToIntLikeResult"))
      \o IfThen(like1, <<C(R, Int0, "OtherOperandMustBeInt")>>)
      \o IfThen(like1 /\ toStruct /\ a.offset # None,
                Both(res, Pointer(prog.structs[p[2][2]][a.offset + 1]), "FieldAccess"))
      \o IfThen(like1 /\ ~toStruct, Both(res, op1, "ResultMatchesOther"))
      \o IfThen(like2, <<C(L, Int0, "OtherOperandMustBeInt")>> \o Both(res, op2, "ResultMatchesOther"))
      \o IfThen(int1, Both(R, TypeVar(a.res), "IntOperandImpliesResult"))
      \o IfThen(int2, Both(L, TypeVar(a.res), "IntOperandImpliesResult"))
      \o IfThen(Below(res, Int0), <<C(L, Int0, "ResultBothInt"), C(R, Int0, "ResultBothInt")>>)

PointerBounds(a) ==
  LET P == {t \in Upper(st.var, a.lhs) : Is(t, "Pointer")}
  IN  IF P = {} THEN {Nothing} ELSE P

\* No addition is classified in the first round.
Classify ==
  /\ phase = "apply" /\ queue = <<>>
  /\ \E choice \in [1 .. Len(given.adds) -> UNION {PointerBounds(given.adds[i]) : i \in 1 .. Len(given.adds)}] :
       /\ \A i \in DOMAIN choice : choice[i] \in PointerBounds(given.adds[i])
       /\ LET cs == IF iteration = 1 THEN <<>>
                    ELSE Flatten([i \in DOMAIN choice |-> Classified(given.adds[i], choice[i])])
              after == Fold(LAMBDA acc, c : Push(acc, st, c, FALSE),
                                   [store |-> store, queue |-> <<>>], cs)
          IN  /\ store' = after.store /\ queue' = after.queue
              /\ phase' = IF after.queue = <<>> THEN "solve" ELSE "apply"
  /\ UNCHANGED <<prog, st, given, iteration>>
-----------------------------------------------------------------------------
(* try_solving: decide what can be decided.  It works on a state s.        *)

Open(s)       == {v \in Vars(s) : ~IsConverged(s, v)}
Meeting(s, v) == (s.var[v].lo \cap s.var[v].up) \ {TypeVar(v)}
Concrete(T)   == {t \in T : IsConcrete(t)}
Least(S)      == CHOOSE i \in S : \A j \in S : i <= j
Ascending(S)  == Sorted(S, <)

With(f, v, t) == [w \in DOMAIN f \cup {v} |-> IF w = v THEN t ELSE f[w]]

\* What a variable whose lower and upper bounds meet converges to: the one
\* concrete type, or a variable, the larger id to the smaller, or a type.
Decide(s, conv, v) ==
  LET T == Meeting(s, v)
      V == {t[2] : t \in {t \in T : IsVar(t)}}
      w == Least(V)
  IN  IF v \in DOMAIN conv THEN conv
      ELSE IF Cardinality(Concrete(T)) = 1 THEN With(conv, v, CHOOSE t \in Concrete(T) : TRUE)
      ELSE IF V # {} THEN IF IsConverged(s, w) \/ v > w THEN With(conv, v, TypeVar(w))
                          ELSE With(conv, w, TypeVar(v))
      ELSE IF T \ Concrete(T) # {} THEN With(conv, v, First(T \ Concrete(T)))
      ELSE conv

Decisions(s) == Fold(LAMBDA conv, v : Decide(s, conv, v), [v \in {} |-> Any], Ascending(Open(s)))

ConvergeDecided(s, conv) ==
  Fold(LAMBDA acc, v : LET t == Resolve(acc, conv[v])
                              IN  IF t = TypeVar(v) THEN acc ELSE Converge(acc, v, t),
              s, Ascending(DOMAIN conv))

\* Compound types: a variable below a function, tuple or pointer type becomes one,
\* of fresh variables.
Above(s, v, variant) == {t \in s.var[v].up : Is(t, variant)}
Variants == <<"Function", "Tuple", "Pointer">>
Refinable(s) == {v \in Open(s) : \E i \in 1 .. 3 : Above(s, v, Variants[i]) # {}}
VariantOf(s, v) == Variants[Least({i \in 1 .. 3 : Above(s, v, Variants[i]) # {}})]
Arity(s, v) ==
  LET lengths == {Len(t[2]) : t \in Above(s, v, "Tuple")}
  IN  CHOOSE n \in lengths : \A m \in lengths : m <= n

Pattern(s, v) ==
  LET n == Len(s.var)
      Fresh(t, i) == AddVar(t, "TupleRefinement", None)
  IN  CASE VariantOf(s, v) = "Function" ->
             [s |-> AddVar(AddVar(s, "FunctionArgsRefinement", None), "FunctionRetsRefinement", None),
              type |-> Function(TypeVar(n + 1), TypeVar(n + 2))]
        [] VariantOf(s, v) = "Tuple" ->
             [s |-> Fold(Fresh, s, [i \in 1 .. Arity(s, v) |-> i]),
              type |-> Tuple([i \in 1 .. Arity(s, v) |-> TypeVar(n + i)])]
        [] VariantOf(s, v) = "Pointer" ->
             [s |-> AddVar(s, "PointerRefinement", None), type |-> Pointer(TypeVar(n + 1))]

\* can_refine panics on a type that is both a lower and an upper bound.
RefinePanics(s, v) == \E t \in Meeting(s, v) : Is(t, VariantOf(s, v))

Refined(s, v) ==
  LET p == Pattern(s, v) IN Converge(AddDependency(p.s, v, p.type), v, p.type)

\* Mutant of Linked: an address is not linked to the function there.
LinkedNever(s, v) == store
\* handle_post_convergence: the constant is the address of a known function.
Linked(s, v) ==
  LET callees == IF s.node[v].constant = None \/ VariantOf(s, v) # "Function" THEN {}
                 ELSE TypesOf(given.types, s.node[v].constant)
  IN  IF callees = {} THEN store
      ELSE LET c == CHOOSE c \in callees : TRUE
           IN  AddEquality(store, Refined(s, v),
                 Constraint(Function(c.args, c.rets), TypeVar(v), <<0, v>>, "ConstIsFunctionPointer"))

\* effective_lub, effective_glb: no answer is {}.
Lub(B) == IF Cardinality(B) = 1 /\ Concrete(B) = B THEN B ELSE {}
\* Mutant of Glb: the bound all others are subtypes of.
GlbGreatest(s, B) == {t \in Concrete(B) : \A u \in B : Subtype(u, t, s.var) = "yes"}
Glb(s, B) ==
  IF Concrete(B) # B THEN {}
  ELSE {t \in B : \A u \in B : Subtype(t, u, s.var) = "yes"}
\* The type an open variable has by its bounds alone.
ByBounds(s, v) ==
  LET lub == Lub(s.var[v].lo \ {NumericLiteral})
      glb == Glb(s, s.var[v].up \ {NumericLiteral})
  IN  IF lub # {} THEN lub ELSE IF glb # {} THEN glb
      ELSE IF s.var[v].up = {NumericLiteral} THEN {Int0} ELSE {}
ByBoundsSet(s) == {v \in Open(s) : ByBounds(s, v) # {}}

Solve ==
  /\ phase = "solve"
  /\ LET decided == ConvergeDecided(st, Decisions(st))
         refine  == Least(Refinable(st))
         bound   == Least(ByBoundsSet(st))
         Goto(s) == /\ st' = s
                    /\ phase' = IF Endless(s) THEN "endless" ELSE IF s.twice THEN "panic" ELSE "collect"
     IN  CASE decided # st -> Goto(decided) /\ UNCHANGED store
           [] decided = st /\ Refinable(st) # {} ->
                IF RefinePanics(st, refine)
                  THEN phase' = "panic" /\ UNCHANGED <<st, store>>
                  ELSE Goto(Refined(st, refine)) /\ store' = Linked(st, refine)
           [] decided = st /\ Refinable(st) = {} /\ ByBoundsSet(st) # {} ->
                Goto(Converge(st, bound, CHOOSE t \in ByBounds(st, bound) : TRUE)) /\ UNCHANGED store
           [] OTHER -> phase' = "generic" /\ UNCHANGED <<st, store>>
  /\ UNCHANGED <<prog, given, iteration, queue>>
-----------------------------------------------------------------------------
(* Generic types: a variable with several upper bounds becomes one.        *)

Refinements == {"PointerRefinement", "TupleRefinement", "FunctionArgsRefinement",
                "FunctionRetsRefinement", "FunctionDefArg", "FunctionDefRet"}

RECURSIVE Potential(_)
Potential(t) ==
  CASE t \in {NumericLiteral, Nothing} \/ Is(t, "Struct") -> FALSE
    [] Is(t, "Function") \/ Is(t, "Tuple") -> \E p \in PartSet(t) : Potential(p)
    [] OTHER -> TRUE

Generics(B) == {t \in B : Is(t, "Generic")}
FitsGeneric(s, B) ==
  \E g \in Generics(B) : \A t \in B \ {g} :
    \E b \in s.generics[g[2]] : Subtype(t, b, s.var) = "yes"

IsOpportunity(s, v) ==
  LET B == s.var[v].up
      V == {t \in B : IsVar(t)}
  IN  CASE s.node[v].path = "PointerRefinement" ->
             Generics(B) # {} \/ Cardinality(V) > 1 \/ Cardinality(B \ (V \cup {Any})) >= 2
        [] s.node[v].path \in Refinements \ {"PointerRefinement"} ->
             Cardinality({t \in B : Potential(t)}) >= 2 \/ (B # {} /\ Generics(B) = B)
        [] OTHER -> Cardinality(Generics(B)) = 1 /\ Cardinality(B) > 1 /\ FitsGeneric(s, B)

\* The variable a PointerRefinement is the pointee of has converged already
\* (Refined), so that it is not updated a second time.
MakeGeneric(s, v, B) ==
  Converge([s EXCEPT !.generics = Append(@, B)], v, Generic(Len(s.generics) + 1))

Generalise ==
  /\ phase = "generic"
  /\ LET opportunities == {v \in Open(st) : IsOpportunity(st, v)}
     IN  IF opportunities = {} THEN phase' = "done" /\ UNCHANGED st
         ELSE /\ st' = Fold(LAMBDA acc, v : MakeGeneric(acc, v, st.var[v].up),
                                   st, Ascending(opportunities))
              /\ phase' = IF st'.twice THEN "panic" ELSE "generic"
  /\ UNCHANGED <<prog, store, given, iteration, queue>>
-----------------------------------------------------------------------------
Final   == {"done", "panic", "endless"}
Stopped == phase \in Final /\ UNCHANGED vars

Next == Collect \/ Apply \/ Classify \/ Solve \/ Generalise \/ Stopped

Spec == Init /\ [][Next]_vars

\* The solver is a sequence of loops over in-memory maps and never waits: weak
\* fairness of Next, where a step that changes the state is possible until the
\* end.
FairSpec == Spec /\ ([]<>(phase \in Final) \/ []<><<Next>>_vars)
-----------------------------------------------------------------------------
\* What TypeInferenceResult::get_type_for_id answers.
TypeOf(s, v) == IF IsConverged(s, v) THEN CHOOSE t \in s.var[v].ty : TRUE ELSE Any

\* resolve_type ends on every type: the worklist reaches "a fixed point ... or a
\* contradiction" (solver.rs:420).
Resolves == phase # "endless"

\* Results are read without resolving them (solver.rs:575, result.rs:143): once
\* a variable has converged, no bound and no type of another mentions it.  Only
\* the variables that were recorded as its dependents are rewritten.
Mentioned(s, v) == UNION {VarsOf(t) : t \in s.var[v].lo \cup s.var[v].up \cup s.var[v].ty}
NoStaleType ==
  phase # "endless" =>
    \A v \in Vars(st) : \A w \in Mentioned(st, v) : w # v => ~IsConverged(st, w)

\* Constraints are only applied in the rounds in which one of their variables
\* has changed.  When rounds end none is left: each constraint, with its types
\* resolved, is in the bounds of its variables, and those it implies are stored.
Recorded(c) ==
  LET s == Resolve(st, c.sub)
      t == Resolve(st, c.sup)
  IN  /\ IsVar(s) /\ s # t => t \in st.var[s[2]].up
      /\ IsVar(t) /\ s # t => s \in st.var[t[2]].lo
      /\ \A i \in 1 .. Len(Implied(c)) :
           LET d == Implied(c)[i]
           IN  d.sub # d.sup =>
                 \E j \in 1 .. Len(store.cons) :
                   /\ Resolve(st, store.cons[j].sub) = d.sub
                   /\ Resolve(st, store.cons[j].sup) = d.sup
NothingLeft ==
  phase = "generic" => \A i \in 1 .. Len(store.cons) : Recorded(store.cons[i])

\* No constraint is refuted by the types found, whatever order the constraints
\* were applied in, unless the program contradicts itself.
Refuted == {i \in 1 .. Len(store.cons) :
  Subtype(Resolve(st, store.cons[i].sub), Resolve(st, store.cons[i].sup), st.var) = "no"}
Sound == phase = "done" /\ ~prog.contradictory => Refuted = {}

\* The types the program was written with are found, for every order.
Expected ==
  phase = "done" =>
    \A x \in DOMAIN prog.expected :
      TypeOf(st, given.of[x]) = prog.expected[x]

\* Inference ends, and with types: no variable is made to converge twice, no
\* compound type is left in both bounds of a variable that is refined, and no
\* type is resolved for ever (solver.rs:420: "until a fixed point is reached").
EventuallyDone == <>(phase = "done")
=============================================================================
