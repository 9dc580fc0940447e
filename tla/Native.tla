-------------------------------- MODULE Native --------------------------------
(***************************************************************************)
(* A native instruction, parsed from the words of the image (native/       *)
(* instruction.rs), as a statement over LIR expressions, and lifted        *)
(* (lir/converter.rs).  The image is a function from 0 .. n-1 to words.    *)
(*                                                                         *)
(* Debug markers, the digits above the modes, are left out.                *)
(***************************************************************************)
EXTENDS Expressions, Sequences

Opcodes == (1 .. 9) \cup {99}
Operands(opcode) ==
  CASE opcode \in {1, 2, 7, 8} -> 3
    [] opcode \in {5, 6}       -> 2
    [] opcode \in {3, 4, 9}    -> 1
    [] opcode = 99             -> 0

\* The sign of the word stays with the remainder.
OpcodeOf(w)  == IF w < 0 THEN w ELSE w % 100
ModeOf(w, i) == (w \div <<100, 1000, 10000>>[i]) % 10

\* parse: the instruction is known, inside the image and has no other mode.
Parses(im, a) ==
  /\ a \in DOMAIN im /\ OpcodeOf(im[a]) \in Opcodes
  /\ a + Operands(OpcodeOf(im[a])) \in DOMAIN im
  /\ \A i \in 1 .. Operands(OpcodeOf(im[a])) : ModeOf(im[a], i) \in {0, 1, 2}
EndOf(im, a) == a + Operands(OpcodeOf(im[a])) + 1

\* Mutant of Operand: the address 0 is an address like any other.
OperandPlain(im, a, i) ==
  CASE ModeOf(im[a], i) = 1 -> Const(im[a + i])
    [] ModeOf(im[a], i) = 2 -> Stack(im[a + i])
    [] OTHER                -> Global(im[a + i])
\* An operand as an expression.  An address that is 0 in the image is one that
\* the program writes before it is used.
Operand(im, a, i) ==
  CASE ModeOf(im[a], i) = 1 -> Const(im[a + i])
    [] ModeOf(im[a], i) = 2 -> Stack(im[a + i])
    [] im[a + i] = 0        -> Deref(Pointer(a + i))
    [] OTHER                -> Global(im[a + i])

Assign(target, src) == [k |-> "assign", target |-> target, src |-> src]
Goto(to)            == [k |-> "goto", to |-> to]
If(cond, to)        == [k |-> "if", cond |-> cond, to |-> to]

\* simplify_instruction, as a statement over the operands.
Computed(opcode, x, y, target) ==
  CASE opcode = 1 /\ Is(x, 0) -> Assign(target, y)
    [] opcode = 1 /\ Is(y, 0) -> Assign(target, x)
    [] opcode = 2 /\ Is(x, 1) -> Assign(target, y)
    [] opcode = 2 /\ Is(y, 1) -> Assign(target, x)
    [] OTHER -> Assign(target, Binary(CASE opcode = 1 -> "+" [] opcode = 2 -> "*"
                                        [] opcode = 7 -> "<" [] opcode = 8 -> "=", x, y))
\* simplify_instruction; a jump on a false condition has LIR's negation.
Branch(opcode, cond, to) ==
  IF cond.op = "const" /\ ((cond.n # 0) <=> (opcode = 5)) THEN Goto(to)
  ELSE IF opcode = 5 THEN If(cond, to) ELSE If(Not(cond), to)

Parsed(im, a) ==
  LET opcode == OpcodeOf(im[a])
      arg(i) == Operand(im, a, i)
  IN  CASE opcode \in {1, 2, 7, 8} -> Computed(opcode, arg(1), arg(2), arg(3))
        [] opcode \in {5, 6}       -> Branch(opcode, arg(1), arg(2))
        [] opcode = 3              -> [k |-> "input", target |-> arg(1)]
        [] opcode = 4              -> [k |-> "output", src |-> arg(1)]
        [] opcode = 9              -> [k |-> "adjust", src |-> arg(1)]
        [] opcode = 99             -> [k |-> "halt"]

\* What from_native_instruction_pair makes of it, with the instruction behind it:
\* R += n is dropped, R -= n; goto [R] is a return, [R] = the address behind the
\* goto; goto f a call.  It panics where R is adjusted in another way, where the
\* target of a jump is not a constant and where that of an assignment is one.
IsConst(e) == e.op = "const"
Refuses(s) ==
  CASE s.k \in {"goto", "if"}      -> ~IsConst(s.to)
    [] s.k \in {"assign", "input"} -> IsConst(s.target)
    [] s.k = "adjust"              -> ~IsConst(s.src) \/ s.src.n <= 0
    [] OTHER                       -> FALSE
Lifted(im, a) ==
  LET s    == Parsed(im, a)
      next == Parsed(im, EndOf(im, a))
      paired == Parses(im, EndOf(im, a)) /\ next.k = "goto"
  IN  IF s.k = "adjust" /\ IsConst(s.src) /\ s.src.n < 0 /\ paired /\ next.to = Stack(0)
        THEN [k |-> "return"]
      ELSE IF s.k = "assign" /\ s.target = Stack(0) /\ paired /\ s.src = Const(EndOf(im, EndOf(im, a)))
        THEN [k |-> "call", to |-> next.to]
      ELSE IF Refuses(s) THEN [k |-> "panic"]
      ELSE IF s.k = "adjust" THEN [k |-> "dropped"]
      ELSE s
\* The statements that one instruction makes.
SingleKinds == {"assign", "input", "output", "goto", "if", "halt"}
=============================================================================
