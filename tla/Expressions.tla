----------------------------- MODULE Expressions -----------------------------
(***************************************************************************)
(* LIR expressions (lir/expression.rs): what they mean and how they are    *)
(* simplified.  An expression is                                           *)
(*   [op, n]     op = const; global, stack, pointer: [n], [R+n], the operand *)
(*               word at n; var: the variable number n                     *)
(*   [op, a]     op = deref: what a points to; not, neg                    *)
(*   [op, a, b]  op = + - * < <= > >= = #                                  *)
(* Input expressions are left out: the rules would drop one (_ * 0 is 0,   *)
(* expression.rs:378) or swap two (-a + b is b - a), a read of the input   *)
(* that a comparison of values does not show.                              *)
(***************************************************************************)
EXTENDS Integers

Const(n)         == [op |-> "const", n |-> n]
Global(n)        == [op |-> "global", n |-> n]
Stack(n)         == [op |-> "stack", n |-> n]
Pointer(n)       == [op |-> "pointer", n |-> n]
Var(n)           == [op |-> "var", n |-> n]
Deref(e)         == [op |-> "deref", a |-> e]
Not(e)           == [op |-> "not", a |-> e]
Neg(e)           == [op |-> "neg", a |-> e]
Binary(op, a, b) == [op |-> op, a |-> a, b |-> b]

Arithmetic  == {"+", "-", "*"}
Comparisons == {"<", "<=", ">", ">=", "=", "#"}
Opposite    == [c \in Comparisons |->
                  CASE c = "<"  -> ">=" [] c = "<=" -> ">"  [] c = ">" -> "<="
                    [] c = ">=" -> "<"  [] c = "="  -> "#"  [] c = "#" -> "="]

Bit(p) == IF p THEN 1 ELSE 0
Apply(op, x, y) ==
  CASE op = "+"  -> x + y
    [] op = "-"  -> x - y
    [] op = "*"  -> x * y
    [] op = "<"  -> Bit(x < y)
    [] op = "<=" -> Bit(x <= y)
    [] op = ">"  -> Bit(x > y)
    [] op = ">=" -> Bit(x >= y)
    [] op = "="  -> Bit(x = y)
    [] op = "#"  -> Bit(x # y)

\* The value of e in a memory where address a not in its domain holds 0.
Fetch(mem, a) == IF a \in DOMAIN mem THEN mem[a] ELSE 0
RECURSIVE Eval(_, _, _)
Eval(e, mem, r) ==
  CASE e.op = "const"   -> e.n
    [] e.op = "stack"   -> Fetch(mem, r + e.n)
    [] e.op \in {"global", "pointer", "var"} -> Fetch(mem, e.n)
    [] e.op = "deref"   -> Fetch(mem, Eval(e.a, mem, r))
    [] e.op = "not"     -> Bit(Eval(e.a, mem, r) = 0)
    [] e.op = "neg"     -> -Eval(e.a, mem, r)
    [] OTHER            -> Apply(e.op, Eval(e.a, mem, r), Eval(e.b, mem, r))
-----------------------------------------------------------------------------
(* simplify: a sequence of steps, each the first rule that fits; <<>> when *)
(* none does.  A rule that looks inside simplifies the operands wholly.    *)

Is(e, n)      == e = Const(n)
IsNegative(e) == e.op = "const" /\ e.n < 0
IsNeg(e)      == e.op = "neg"

RECURSIVE SimplifyOnce(_), Simplified(_)
Simplified(e) == LET s == SimplifyOnce(e) IN IF s = <<>> THEN e ELSE Simplified(s[1])
Inside(op, a, b) ==
  IF SimplifyOnce(a) = <<>> /\ SimplifyOnce(b) = <<>> THEN <<>>
  ELSE <<Binary(op, Simplified(a), Simplified(b))>>

SimplifySum(a, b) ==
  CASE Is(b, 0)      -> <<a>>
    [] Is(a, 0)      -> <<b>>
    [] IsNegative(b) -> <<Binary("-", a, Const(-b.n))>>
    [] IsNeg(a)      -> <<Binary("-", b, a.a)>>
    [] IsNeg(b)      -> <<Binary("-", a, b.a)>>
    [] OTHER         -> Inside("+", a, b)
\* Mutant of SimplifyDifference: the sign of what is subtracted stays.
SimplifyDifferenceSigned(a, b) ==
  CASE Is(b, 0)      -> <<a>>
    [] Is(a, 0)      -> <<b>>
    [] IsNegative(b) -> <<Binary("+", a, Const(-b.n))>>
    [] IsNeg(b)      -> <<Binary("+", a, b.a)>>
    [] OTHER         -> Inside("-", a, b)
SimplifyDifference(a, b) ==
  CASE Is(b, 0)      -> <<a>>
    [] Is(a, 0)      -> <<Neg(b)>>
    [] IsNegative(b) -> <<Binary("+", a, Const(-b.n))>>
    [] IsNeg(b)      -> <<Binary("+", a, b.a)>>
    [] OTHER         -> Inside("-", a, b)
SimplifyProduct(a, b) ==
  CASE Is(a, 0) \/ Is(b, 0) -> <<Const(0)>>
    [] Is(b, 1)             -> <<a>>
    [] Is(a, 1)             -> <<b>>
    [] Is(b, -1)            -> <<Neg(a)>>
    [] Is(a, -1)            -> <<Neg(b)>>
    [] OTHER                -> Inside("*", a, b)
SimplifyNot(a) ==
  CASE a.op \in Comparisons -> <<Binary(Opposite[a.op], Simplified(a.a), Simplified(a.b))>>
    [] a.op = "not"         -> <<Simplified(a.a)>>
    [] OTHER                -> LET s == SimplifyOnce(a)
                               IN  IF s = <<>> THEN <<>> ELSE <<Not(Simplified(a))>>
SimplifyOnce(e) ==
  CASE e.op = "+"   -> SimplifySum(e.a, e.b)
    [] e.op = "-"   -> SimplifyDifference(e.a, e.b)
    [] e.op = "*"   -> SimplifyProduct(e.a, e.b)
    [] e.op = "not" -> SimplifyNot(e.a)
    [] e.op = "neg" /\ e.a.op = "const" -> <<Const(-e.a.n)>>
    [] OTHER -> <<>>
=============================================================================
