-------------------------------- MODULE Types --------------------------------
(***************************************************************************)
(* The types of type inference (type_inference/types.rs), as terms whose   *)
(* first element names the variant.  Arrays, which only a user's           *)
(* definitions mention, are left out.                                      *)
(*                                                                         *)
(* Questions about a type variable are asked of a table `var` of the       *)
(* variables' states, TypeVarState: [lo, up, ty], where ty is {} for       *)
(* Bounds and the singleton of the type for Converged.                     *)
(***************************************************************************)
EXTENDS Integers, Sequences, FiniteSets

Any            == <<"Any">>
Truthy         == <<"Truthy">>
NumericLiteral == <<"NumericLiteral">>
Int0           == <<"Int">>
Bool           == <<"Bool">>
Char           == <<"Char">>
Nothing        == <<"Nothing">>
Pointer(t)     == <<"Pointer", t>>
Tuple(ts)      == <<"Tuple", ts>>
Function(p, r) == <<"Function", p, r>>
TypeVar(v)     == <<"TypeVar", v>>
Generic(g)     == <<"Generic", g>>
CustomType(c)  == <<"CustomType", c>>
Struct(s)      == <<"Struct", s>>

Is(t, variant) == t[1] = variant
IsVar(t)       == Is(t, "TypeVar")

\* The types a type is built from.
Parts(t) ==
  CASE Is(t, "Pointer")  -> <<t[2]>>
    [] Is(t, "Tuple")    -> t[2]
    [] Is(t, "Function") -> <<t[2], t[3]>>
    [] OTHER             -> <<>>
PartSet(t) == {Parts(t)[i] : i \in 1 .. Len(Parts(t))}

RECURSIVE VarsOf(_)
VarsOf(t) == IF IsVar(t) THEN {t[2]} ELSE UNION {VarsOf(p) : p \in PartSet(t)}

RECURSIVE IsVarFree(_)
IsVarFree(t) == ~IsVar(t) /\ ~Is(t, "Generic") /\ \A p \in PartSet(t) : IsVarFree(p)

RECURSIVE IsConcrete(_)
IsConcrete(t) ==
  /\ t \notin {Any, Nothing} /\ ~IsVar(t) /\ ~Is(t, "Generic")
  /\ \A p \in PartSet(t) : IsConcrete(p)

\* The derived order of the variants.
Rank(t) ==
  CHOOSE i \in 1 .. 13 :
    t[1] = <<"Any", "Truthy", "NumericLiteral", "Int", "Bool", "Char", "Pointer", "Tuple",
             "Function", "TypeVar", "Generic", "Nothing", "CustomType">>[i]
\* s comes before t in the derived order; structs come last.
RECURSIVE Before(_, _)
Before(s, t) ==
  LET p == Parts(s)
      q == Parts(t)
      differ == {i \in 1 .. Len(p) : i <= Len(q) /\ p[i] # q[i]}
  IN  CASE s[1] # t[1] /\ (Is(s, "Struct") \/ Is(t, "Struct")) -> Is(t, "Struct")
        [] s[1] # t[1] -> Rank(s) < Rank(t)
        [] s[1] \in {"TypeVar", "Generic", "CustomType", "Struct"} -> s[2] < t[2]
        [] differ = {} -> Len(p) < Len(q)
        [] OTHER -> LET i == CHOOSE i \in differ : \A j \in differ : i <= j
                    IN  Before(p[i], q[i])
First(S) == CHOOSE s \in S : \A t \in S \ {s} : Before(s, t)
-----------------------------------------------------------------------------
(* Subtyping has three answers: a variable's bounds may not tell.          *)

Lower(var, v) == IF var[v].ty # {} THEN var[v].ty ELSE var[v].lo
Upper(var, v) == IF var[v].ty # {} THEN var[v].ty ELSE var[v].up

Literals == {Int0, Bool, Char}
IsScalar(t) == t \in Literals \/ Is(t, "Pointer") \/ Is(t, "Function")

\* All hold, one is refuted, or neither is known.
AllOf(answers) ==
  IF "no" \in answers THEN "no" ELSE IF "maybe" \in answers THEN "maybe" ELSE "yes"
YesIf(c)      == IF c THEN "yes" ELSE "no"
YesOrMaybe(c) == IF c THEN "yes" ELSE "maybe"

RECURSIVE SubtypeSeen(_, _, _, _)
\* is_subtype_of: s <: t.
Subtype(s, t, var) == SubtypeSeen(s, t, var, {})
\* is_subtype_of_inner, where the pairs of `seen` are being asked.
SubtypeSeen(s, t, var, seen) ==
  LET now == seen \cup {<<s, t>>}
  IN
  CASE <<s, t>> \in seen -> "maybe"
    [] s = t \/ s = Nothing \/ t = Any -> "yes"
    [] t = Nothing -> IF IsVarFree(s) THEN "no" ELSE "maybe"
    [] s = Any     -> IF IsVarFree(t) THEN "no" ELSE "maybe"
    [] IsVar(s) -> YesOrMaybe(\E b \in Upper(var, s[2]) : SubtypeSeen(b, t, var, now) = "yes")
    [] IsVar(t) -> YesOrMaybe(\E b \in Lower(var, t[2]) : SubtypeSeen(s, b, var, now) = "yes")
    [] Is(s, "Generic") \/ Is(t, "Generic") -> "maybe"
    [] t = Truthy         -> YesIf(s = NumericLiteral \/ IsScalar(s))
    [] t = NumericLiteral -> YesIf(IsScalar(s))
    [] Is(s, "Function") /\ Is(t, "Pointer") -> YesIf(t[2] \in {NumericLiteral, Truthy, Any})
    [] Is(s, "Pointer") /\ Is(t, "Pointer") -> SubtypeSeen(s[2], t[2], var, {})
    [] Is(s, "Function") /\ Is(t, "Function") ->
         AllOf({SubtypeSeen(t[2], s[2], var, {}), SubtypeSeen(s[3], t[3], var, {})})
    [] Is(s, "Tuple") /\ Is(t, "Tuple") ->
         IF Len(s[2]) < Len(t[2]) THEN "no"
         ELSE AllOf({SubtypeSeen(s[2][i], t[2][i], var, {}) : i \in 1 .. Len(t[2])})
    [] OTHER -> "no"
=============================================================================
