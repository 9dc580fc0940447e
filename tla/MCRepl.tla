-------------------------------- MODULE MCRepl --------------------------------
(* Programs for Repl: every instruction alone in a function, and some others. *)
EXTENDS Repl

Image(words) == [a \in 0 .. Len(words) - 1 |-> words[a + 1]]
GotoR == <<2105, 1, 0>>

\* Parameters, as <<mode, word>>: an address to be written, a cell, constants, [R+1].
Reads  == {<<0, 0>>, <<0, 4>>, <<1, 0>>, <<1, 1>>, <<2, 1>>}
Writes == {<<0, 0>>, <<0, 9>>, <<2, 1>>, <<1, 0>>}
Three ==
  {<<op + 100 * p[1] + 1000 * q[1] + 10000 * w[1], p[2], q[2], w[2]>> :
     op \in {1, 2, 7, 8}, p \in Reads, q \in Reads, w \in Writes}
\* Jumps behind the instruction, to itself, to [R], and to nowhere.
Two ==
  {<<op + 100 * p[1] + 1000 * q[1], p[2], q[2]>> :
     op \in {5, 6}, p \in Reads, q \in {<<1, 3>>, <<1, 0>>, <<2, 0>>, <<0, 9>>}}
One ==
  {<<op + 100 * p[1], p[2]>> : op \in {4, 9}, p \in Reads} \cup {<<3 + 100 * w[1], w[2]>> : w \in Writes}
Alone == {Image(i \o GotoR) : i \in Three \cup Two \cup One}

\* Put out an input, for ever.     Put out two inputs, and halt.
Echo == Image(<<3, 8, 4, 8, 1105, 1, 0>>)
Twice == Image(<<3, 20, 4, 20, 203, 1, 204, 1, 99>>)
\* R += 2; *p = [R-1]; p = [R-1]; .. ; R -= 2; goto [R]
Framed == Image(<<109, 2, 2101, 10, -1, 7, 1001, 0, 1, 20, 4, 20, 109, -2>> \o GotoR)
\* f: calls g at 16, which adds one to [R+1], and puts the result out.
Caller == Image(<<109, 2, 21101, 9, 0, 0, 1105, 1, 16, 204, 1, 109, -2>> \o GotoR
                \o <<109, 2, 22101, 1, -1, -1, 109, -2>> \o GotoR)
Sample == {Echo, Twice, Framed, Caller}


\* The same as texts of data.
Data(image) ==
  <<Token("word", "DATA", 0), Token("values", "", [i \in 1 .. Size(image) |-> image[i - 1]])>>
Raw(driver, image) == [driver |-> driver, text |-> Data(image), meant |-> <<>>]

\* Statements, as they are meant and as they are written.
Word(w)  == Token("word", w, 0)
Sign(w)  == Token("sign", w, 0)
Rel(n)   == Token("rel", "", n)
Label(x) == Token("label", x, 0)
Star(x)  == Token("deref", x, 0)
St(k, ops, text) == [line |-> [label |-> "", k |-> k, ops |-> ops, values |-> <<>>], text |-> text]
Named(x, s) == [line |-> [s.line EXCEPT !.label = x], text |-> <<Word(x), Sign(":"), NewLine>> \o s.text]
Op(k, sign, c, a, b) == St(k, <<a, b, c>>, <<c, Sign("="), a, Sign(sign), b>>)
Set(c, a)   == St("assign", [p \in {1, 3} |-> IF p = 1 THEN a ELSE c], <<c, Sign("="), a>>)
In(a)       == St("input", <<a>>, <<Word("INPUT"), a>>)
Out(a)      == St("output", <<a>>, <<Word("output"), a>>)
OutP(a)     == St("output", <<a>>, <<Word("output"), Sign("("), a, Sign(")")>>)
If1(a, b)   == St("jt", <<a, b>>, <<Word("if"), a, Word("goto"), b>>)
IfNot(a, b) == St("jf", <<a, b>>, <<Word("if"), Sign("!"), a, Word("goto"), b>>)
Go(b)       == St("goto", [p \in {2} |-> b], <<Word("goto"), b>>)
Up(a)       == St("adjust", <<a>>, <<Word("R"), Sign("+="), a>>)
Down(a)     == St("subtract", <<a>>, <<Word("R"), Sign("-="), a>>)
Stop        == St("halt", <<>>, <<Word("halt")>>)

Written(driver, ss) ==
  LET text[i \in 1 .. Len(ss) + 1] == IF i > Len(ss) THEN <<>> ELSE ss[i].text \o <<NewLine>> \o text[i + 1]
  IN  [driver |-> driver, text |-> <<NewLine>> \o text[1], meant |-> [i \in DOMAIN ss |-> ss[i].line]]
\* A text that is not meant to compile.
Broken(text) == [driver |-> "compile", text |-> text, meant |-> <<>>]

Args    == {Imm(0), Imm(1), Mem(9), Rel(-1), Label("f"), Label("e"), Star("q"), Word("p")}
Targets == {Mem(9), Star("q"), Word("p")}
Statements ==
  {Op(k[1], k[2], c, a, b) : k \in {<<"add", "+">>, <<"mul", "*">>, <<"lt", "<">>, <<"eq", "==">>},
                              c \in Targets, a \in Args, b \in Args}
  \cup {Set(c, a) : c \in Targets, a \in Args} \cup {In(c) : c \in Targets}
  \cup {Out(a) : a \in Args} \cup {OutP(a) : a \in Args} \cup {Up(a) : a \in Args} \cup {Down(Imm(1))}
  \cup {If1(a, b) : a \in Args, b \in Args} \cup {IfNot(a, b) : a \in Args, b \in Args}
  \cup {Go(b) : b \in Args} \cup {Stop}
Texts1 == {Written("compile", <<Named("f", Out(Star("p"))), s, Named("e", Go(Rel(0)))>>) : s \in Statements}
\* A walk through memory until it finds a 0, and a function called by name.
Walk ==
  <<Set(Word("p"), Imm(20)), Named("next", Set(Mem(9), Star("p"))), IfNot(Mem(9), Label("end")),
    Op("add", "+", Word("p"), Word("p"), Imm(1)), Out(Mem(9)), Go(Label("next")), Named("end", Go(Rel(0)))>>
Count ==
  <<Up(Imm(1)), Named("g", Op("lt", "<", Rel(2), Rel(0), Imm(7))), OutP(Rel(2)), Down(Imm(1)), Go(Rel(0))>>
\* A name that has no address, no instruction, an operand too many, R by a cell.
BrokenTexts ==
  {Go(Label("x")).text, Set(Word("x"), Imm(1)).text, <<Word("x"), Sign(":")>>, Stop.text \o <<Sign("+")>>,
   Down(Mem(9)).text, <<NewLine>>, <<Word("x"), Sign("="), NewLine, Imm(1)>>}

MCSessions ==
  {Raw("repl", p) : p \in Alone \cup Sample}
    \cup {Raw("run", p) : p \in {Twice, Image(<<104, 7, 3, 20, 1101, 1, 1, 4, 99>>)}}
    \cup Texts1 \cup {Written("repl", Walk), Written("repl", Count)} \cup {Broken(t) : t \in BrokenTexts}
MCSymbols == {<<"f", 0>>}
MCCalls   == {<<"address", 0, <<5>>>>, <<"name", "f", <<1>>>>, <<"address", -1, <<>>>>, <<"name", "g", <<>>>>}
MCSets    == {<<9, 3>>}
MCTexts   == {<<7>>, <<>>}
=============================================================================
