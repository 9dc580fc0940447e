------------------------------- MODULE Assembler -------------------------------
(***************************************************************************)
(* The assembler (parser.rs): a text as a sequence of tokens, the ordered  *)
(* choice of the statements it can be read as, the two passes that give    *)
(* labels and pointers their addresses, and the words of the image.        *)
(*                                                                         *)
(* A token is [t, w, n]: a word or a sign w, a number or an address n, an  *)
(* argument of the kind t, values for the image, or the end of a line.  Other *)
(* white space, comments and debug markers are left out.  Mutants of a     *)
(* definition precede it.                                                  *)
(***************************************************************************)
EXTENDS Native

Token(t, w, n) == [t |-> t, w |-> w, n |-> n]
\* identifier, parse_memory, parse_immediate, parse_relative_mem, parse_label_ref:
\* any word is an argument, too, the pointer of that name.
ArgumentTokens == {"imm", "mem", "rel", "label", "deref", "word"}
Imm(n)         == Token("imm", "", n)
Mem(n)         == Token("mem", "", n)
NewLine        == Token("line", "", 0)
EndsLine(tok)  == tok.t = "line"
-----------------------------------------------------------------------------
(* Statements: what they look like, and at which operand of the instruction *)
(* each argument ends up.                                                  *)

Form(k, look, at) == [k |-> k, look |-> look, at |-> at]
Operation(k, sign) == Form(k, <<"arg", "=", "arg", sign, "arg">>, <<3, 1, 2>>)
Assignments ==
  <<Operation("add", "+"), Operation("mul", "*"), Operation("lt", "<"), Operation("eq", "=="),
    Form("assign", <<"arg", "=", "arg">>, <<3, 1>>)>>
Transfers ==
  <<Form("input", <<"INPUT", "arg">>, <<1>>), Form("output", <<"output", "arg">>, <<1>>),
    Form("output", <<"output", "(", "arg", ")">>, <<1>>)>>
Jumps ==
  <<Form("jt", <<"if", "arg", "goto", "arg">>, <<1, 2>>),
    Form("jf", <<"if", "!", "arg", "goto", "arg">>, <<1, 2>>), Form("goto", <<"goto", "arg">>, <<2>>)>>
Others ==
  <<Form("adjust", <<"R", "+=", "arg">>, <<1>>), Form("subtract", <<"R", "-=", "arg">>, <<1>>),
    Form("halt", <<"halt">>, <<>>), Form("data", <<"DATA", "values">>, <<>>)>>
Forms == Assignments \o Transfers \o Jumps \o Others

Takes(look, tok) ==
  CASE look = "arg"    -> tok.t \in ArgumentTokens
    [] look = "values" -> tok.t = "values"
    [] OTHER           -> tok.t \in {"word", "sign"} /\ tok.w = look
Fits(form, s, i) ==
  /\ i + Len(form.look) - 1 <= Len(s)
  /\ \A j \in DOMAIN form.look : Takes(form.look[j], s[i + j - 1])

\* parse_instruction: the first form that fits, whatever comes after it.
FormAt(s, i) == {n \in DOMAIN Forms : Fits(Forms[n], s, i) /\ \A m \in 1 .. n - 1 : ~Fits(Forms[m], s, i)}

\* The operands of the instruction, by position.
OperandsOf(form, s, i) ==
  LET args == SelectSeq([j \in DOMAIN form.look |-> j], LAMBDA j : form.look[j] = "arg")
  IN  [p \in {form.at[a] : a \in DOMAIN form.at} |->
         s[i + args[CHOOSE a \in DOMAIN form.at : form.at[a] = p] - 1]]

Line(label, form, s, i) ==
  [label |-> label, k |-> form.k, ops |-> OperandsOf(form, s, i),
   values |-> IF form.k = "data" THEN s[i + 1].n ELSE <<>>]

\* parse_line, as often as it succeeds: the lines, and where the rest begins.
LinesOf(s) ==
  LET after(i) == CHOOSE j \in i .. Len(s) + 1 :
                    /\ \A n \in i .. j - 1 : EndsLine(s[n])
                    /\ j <= Len(s) => ~EndsLine(s[j])
      labelled(i) == i < Len(s) /\ s[i].t = "word" /\ s[i + 1].w = ":"
      from[i \in 1 .. Len(s) + 1] ==
        LET at    == after(i)
            start == IF labelled(at) THEN after(at + 2) ELSE at
            forms == FormAt(s, start)
        IN  IF forms = {} THEN [lines |-> <<>>, rest |-> after(i)]
            ELSE LET form == Forms[CHOOSE n \in forms : TRUE]
                     more == from[start + Len(form.look)]
                     name == IF labelled(at) THEN s[at].w ELSE ""
                 IN  [more EXCEPT !.lines = <<Line(name, form, s, start)>> \o @]
  IN  from[1]
-----------------------------------------------------------------------------
(* The first pass: addresses.                                              *)

\* Mutant of SizeOf: an assignment has the size of what is written.
SizeOfWritten(line) ==
  CASE line.k = "data"   -> Len(line.values)
    [] line.k = "assign" -> 3
    [] line.k \in {"add", "mul", "lt", "eq"} -> 4
    [] line.k \in {"jt", "jf", "goto"}       -> 3
    [] line.k = "halt"   -> 1
    [] OTHER -> 2
\* instruction_kind_size: of the instruction that the statement becomes.
SizeOf(line) ==
  CASE line.k = "data" -> Len(line.values)
    [] line.k \in {"add", "mul", "lt", "eq", "assign"} -> 4
    [] line.k \in {"jt", "jf", "goto"} -> 3
    [] line.k = "halt" -> 1
    [] OTHER -> 2
OffsetsOf(lines) ==
  LET o[i \in 1 .. Len(lines) + 1] == IF i = 1 THEN 0 ELSE o[i - 1] + SizeOf(lines[i - 1])
  IN  o

\* The last definition of a name counts.
Last(S) == CHOOSE n \in S : \A m \in S : m <= n
Labels(lines) ==
  [x \in {lines[i].label : i \in DOMAIN lines} \ {""} |->
     OffsetsOf(lines)[Last({i \in DOMAIN lines : lines[i].label = x})]]
\* *p names the word of the image in which it stands.
Pointers(lines) ==
  LET derefs(i) == {p \in DOMAIN lines[i].ops : lines[i].ops[p].t = "deref"}
      places(x) == {OffsetsOf(lines)[q[1]] + q[2] :
                      q \in {q \in (DOMAIN lines) \X (1 .. 3) :
                                      q[2] \in derefs(q[1]) /\ lines[q[1]].ops[q[2]].w = x}}
  IN  [x \in UNION {{lines[i].ops[p].w : p \in derefs(i)} : i \in DOMAIN lines} |-> Last(places(x))]
-----------------------------------------------------------------------------
(* The second pass: operands get their values, and instructions are        *)
(* simplified as when they are read from an image.                         *)

Defined(tok, labels, pointers) ==
  /\ tok.t = "label" => tok.w \in DOMAIN labels
  /\ tok.t = "word"  => tok.w \in DOMAIN pointers
Resolve(tok, labels, pointers) ==
  CASE tok.t = "label" -> Imm(labels[tok.w])
    [] tok.t = "word"  -> Mem(pointers[tok.w])
    [] tok.t = "deref" -> Mem(0)
    [] OTHER           -> tok

Immediate(tok, n) == tok.t = "imm" /\ tok.n = n
AsAssign(src, target) == [k |-> "assign", ops |-> [p \in {1, 3} |-> IF p = 1 THEN src ELSE target]]
Simplify(k, ops) ==
  CASE k = "add" /\ Immediate(ops[1], 0) -> AsAssign(ops[2], ops[3])
    [] k = "add" /\ Immediate(ops[2], 0) -> AsAssign(ops[1], ops[3])
    [] k = "mul" /\ Immediate(ops[1], 1) -> AsAssign(ops[2], ops[3])
    [] k = "mul" /\ Immediate(ops[2], 1) -> AsAssign(ops[1], ops[3])
    [] \/ k = "jt" /\ ops[1].t = "imm" /\ ops[1].n # 0
       \/ k = "jf" /\ Immediate(ops[1], 0) -> [k |-> "goto", ops |-> [p \in {2} |-> ops[p]]]
    [] k = "subtract" -> [k |-> "adjust", ops |-> <<Imm(-ops[1].n)>>]
    [] OTHER -> [k |-> k, ops |-> ops]

OpcodeFor(k) ==
  CASE k \in {"add", "assign"} -> 1 [] k = "mul" -> 2 [] k = "input" -> 3 [] k = "output" -> 4
    [] k \in {"jt", "goto"} -> 5 [] k = "jf" -> 6 [] k = "lt" -> 7 [] k = "eq" -> 8
    [] k = "adjust" -> 9 [] k = "halt" -> 99
ModeFor(tok) == CASE tok.t = "mem" -> 0 [] tok.t = "imm" -> 1 [] tok.t = "rel" -> 2

\* compile: the operand that a synthetic instruction lacks is written out again.
Words(instruction) ==
  LET opcode == OpcodeFor(instruction.k)
      op(i)  == IF i \in DOMAIN instruction.ops THEN instruction.ops[i]
                ELSE Imm(IF instruction.k = "goto" THEN 1 ELSE 0)
      mode(i) == IF i <= Operands(opcode) THEN ModeFor(op(i)) ELSE 0
  IN  <<opcode + 100 * mode(1) + 1000 * mode(2) + 10000 * mode(3)>>
        \o [i \in 1 .. Operands(opcode) |-> op(i).n]

\* parse_program and compile either give an image or panic.
Compiles(s) ==
  LET parsed == LinesOf(s)
      lines  == parsed.lines
  IN  /\ lines # <<>> /\ parsed.rest > Len(s)
      /\ \A i \in DOMAIN lines : \A p \in DOMAIN lines[i].ops :
           /\ Defined(lines[i].ops[p], Labels(lines), Pointers(lines))
           /\ lines[i].k = "subtract" => lines[i].ops[p].t = "imm"
LineWords(line, labels, pointers) ==
  IF line.k = "data" THEN line.values
  ELSE Words(Simplify(line.k, [p \in DOMAIN line.ops |-> Resolve(line.ops[p], labels, pointers)]))
Compile(s) ==
  LET lines == LinesOf(s).lines
      from[i \in 1 .. Len(lines) + 1] ==
        IF i > Len(lines) THEN <<>>
        ELSE LineWords(lines[i], Labels(lines), Pointers(lines)) \o from[i + 1]
  IN  [a \in 0 .. Len(from[1]) - 1 |-> from[1][a + 1]]
-----------------------------------------------------------------------------
(* What a statement says, by the names in it and whatever the words are.   *)

Means(tok, labels, pointers) ==
  CASE tok.t = "imm"   -> Const(tok.n)
    [] tok.t = "mem"   -> Global(tok.n)
    [] tok.t = "rel"   -> Stack(tok.n)
    [] tok.t = "label" -> Const(labels[tok.w])
    [] tok.t = "word"  -> Global(pointers[tok.w])
    [] tok.t = "deref" -> Deref(Pointer(pointers[tok.w]))
Says(line, labels, pointers) ==
  LET e(p) == Means(line.ops[p], labels, pointers)
  IN  CASE line.k \in {"add", "mul", "lt", "eq"} -> Computed(OpcodeFor(line.k), e(1), e(2), e(3))
        [] line.k = "assign"   -> Assign(e(3), e(1))
        [] line.k \in {"jt", "jf"} -> Branch(OpcodeFor(line.k), e(1), e(2))
        [] line.k = "goto"     -> Goto(e(2))
        [] line.k = "input"    -> [k |-> "input", target |-> e(1)]
        [] line.k = "output"   -> [k |-> "output", src |-> e(1)]
        [] line.k = "adjust"   -> [k |-> "adjust", src |-> e(1)]
        [] line.k = "subtract" -> [k |-> "adjust", src |-> Const(-line.ops[1].n)]
        [] line.k = "halt"     -> [k |-> "halt"]
=============================================================================
