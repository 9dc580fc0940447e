----------------------------- MODULE TypeBounds ------------------------------
(***************************************************************************)
(* InferenceAlgorithmState (type_inference/type_bounds_map.rs), a record   *)
(*   var       the variables' states, numbered from 1                      *)
(*   node[v]   what the solver reads of the TypeVarNode of v: the variant  *)
(*             of its path, and the number of the constant it is the type  *)
(*             of, or None                                                 *)
(*   deps      pairs <<u, v>>: v is among the dependents of u              *)
(*   updated   updated_type_vars                                           *)
(*   generics  upper bounds of the generic type variables                  *)
(*   twice     converge was called on a converged variable, and panicked   *)
(* The change log is left out.                                             *)
(***************************************************************************)
EXTENDS Types

None == -1

EmptyState ==
  [var |-> <<>>, node |-> <<>>, deps |-> {}, updated |-> {}, generics |-> <<>>, twice |-> FALSE]

Vars(st)         == 1 .. Len(st.var)
IsConverged(st, v) == st.var[v].ty # {}

\* resolve_type: converged variables are replaced as long as there are any.  It
\* does not end on a variable that occurs in its own type; here such a variable
\* is left where it is met again.
RECURSIVE ResolveIn(_, _, _)
ResolveIn(var, t, met) ==
  LET R(p) == ResolveIn(var, p, met)
  IN  CASE IsVar(t) ->
             IF var[t[2]].ty = {} \/ t[2] \in met THEN t
             ELSE ResolveIn(var, CHOOSE ty \in var[t[2]].ty : TRUE, met \cup {t[2]})
        [] Is(t, "Pointer")  -> Pointer(R(t[2]))
        [] Is(t, "Tuple")    -> Tuple([i \in 1 .. Len(t[2]) |-> R(t[2][i])])
        [] Is(t, "Function") -> Function(R(t[2]), R(t[3]))
        [] OTHER -> t
Resolve(st, t) == ResolveIn(st.var, t, {})

\* resolve_type does not end on some type: a converged variable occurs in it.
Endless(st) ==
  \E v \in Vars(st) :
    IsConverged(st, v) /\ \E t \in st.var[v].ty : \E w \in VarsOf(Resolve(st, t)) : IsConverged(st, w)

AddVar(st, path, constant) ==
  [st EXCEPT !.var  = Append(@, [lo |-> {}, up |-> {}, ty |-> {}]),
             !.node = Append(@, [path |-> path, constant |-> constant]),
             !.updated = @ \cup {Len(st.var) + 1}]

\* Mutant of AddDependency: the outermost variable only.
AddDependencyOuter(st, u, t) ==
  [st EXCEPT !.deps = @ \cup (IF IsVar(t) THEN {<<t[2], u>>} ELSE {})]
AddDependency(st, u, t) == [st EXCEPT !.deps = @ \cup (VarsOf(t) \X {u})]

\* update_bound_internal
UpdateBound(st, v, side, t) ==
  IF t = TypeVar(v) \/ IsConverged(st, v) \/ t \in st.var[v][side]
    THEN st
    ELSE AddDependency([st EXCEPT !.var[v][side] = @ \cup {t}, !.updated = @ \cup {v}], v, t)

\* get_all_dependents, v not included.
Dependents(st, v) ==
  LET R[n \in Nat] ==
        IF n = 0 THEN {v}
        ELSE LET S == R[n - 1] IN S \cup {e[2] : e \in {e \in st.deps : e[1] \in S}}
  IN  R[Len(st.var)] \ {v}

ResolveBounds(st, v, B) == {Resolve(st, b) : b \in B} \ {TypeVar(v)}

\* The state of v after a type variable it depends on has converged in st.
Rewritten(st, v) ==
  LET s == st.var[v]
  IN  [lo |-> ResolveBounds(st, v, s.lo), up |-> ResolveBounds(st, v, s.up),
       ty |-> {Resolve(st, t) : t \in s.ty}]

\* Mutant of Converge: a dependent that was rewritten is not marked updated.
ConvergeQuiet(st, v, t) ==
  LET own == [st EXCEPT !.var[v] = [lo |-> {}, up |-> {}, ty |-> {t}]]
      D   == Dependents(st, v)
  IN  [own EXCEPT
         !.deps    = @ \cup (VarsOf(t) \X D),
         !.var     = [w \in Vars(st) |-> IF w \in D THEN Rewritten(own, w) ELSE own.var[w]],
         !.twice   = @ \/ IsConverged(st, v)]

Converge(st, v, t) ==
  LET own == [st EXCEPT !.var[v] = [lo |-> {}, up |-> {}, ty |-> {t}], !.updated = @ \cup {v}]
      D   == Dependents(st, v)
  IN  [own EXCEPT
         !.deps    = @ \cup (VarsOf(t) \X D),
         !.var     = [w \in Vars(st) |-> IF w \in D THEN Rewritten(own, w) ELSE own.var[w]],
         !.updated = @ \cup {w \in D : ~IsConverged(st, w) /\ Rewritten(own, w) # st.var[w]},
         !.twice   = @ \/ IsConverged(st, v)]
=============================================================================
