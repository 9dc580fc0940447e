--------------------------------- MODULE Repl ---------------------------------
(***************************************************************************)
(* The drivers of the assembler and the machine: the commands of the       *)
(* read-eval-print loop that call functions of a program (repl.rs, vm.rs   *)
(* FunctionCaller), run_program, which runs one from its start, and compile, *)
(* which only makes the image (main.rs).                                   *)
(*                                                                         *)
(* The state of the caller is kept from one command to the next.  The other *)
(* commands print.                                                         *)
(***************************************************************************)
EXTENDS IntcodeVm, Assembler, FiniteSets

CONSTANTS
  Sessions,      \* [driver |-> "repl", "run" or "compile", text |-> tokens,
                 \*  meant |-> the statements of the text, when they are checked]
  Symbols,       \* <<name, address>> of functions with a name
  Calls,         \* <<"address" or "name", .., args>>
  Sets,          \* <<address, value>> for Memset
  Texts,         \* lines of input
  MaxCommands,   \* commands of a session, lines of a run
  MaxSteps       \* of a call; 1000000 in the code

VARIABLES
  session,    \* [driver, program, meant]
  phase,      \* idle, calling; running; done, panic
  steps,      \* of the call
  answer,     \* CallResult, or "Exceeded maximum steps"
  commands,   \* how many there have been
  said,       \* what has been put out since the call or run began
  typed,      \* what was put in: all lines of a run, the last one of a prompt
  taken       \* what the input instructions have stored of it

replVars == <<session, phase, steps, answer, commands, said, typed, taken>>
vars == <<vmVars, replVars>>

Program       == session.program
ReturnAddress == 999999
Marker        == 10
Size(program) == Cardinality(DOMAIN program)
StackBase     == Size(Program) + 1000

NoAnswer == [kind |-> "none", outputs |-> <<>>, values |-> <<>>]
Answer(kind, values) == [kind |-> kind, outputs |-> outputs, values |-> values]

\* What is run is the image that compile has made of the text.
NoImage == <<>>
Start(s) ==
  [driver |-> s.driver, meant |-> s.meant, program |-> IF Compiles(s.text) THEN Compile(s.text) ELSE NoImage]
Init ==
  /\ session \in {Start(s) : s \in Sessions} /\ VmNew(Program)
  /\ phase = CASE Program = NoImage           -> "panic"
               [] session.driver = "run"     -> "running"
               [] session.driver = "repl"    -> "idle"
               [] session.driver = "compile" -> "done"
  /\ steps = 0 /\ answer = NoAnswer /\ commands = 0 /\ said = <<>>
  /\ typed = <<>> /\ taken = <<>>
-----------------------------------------------------------------------------
(* The commands.                                                           *)

Command == phase = "idle" /\ commands < MaxCommands /\ commands' = commands + 1

\* A number, or a name that some function has.
AddressesOf(call) ==
  IF call[1] = "address" THEN {call[2]} ELSE {s[2] : s \in {s \in Symbols : s[1] = call[2]}}
InProgram(a) == a >= 0 /\ a < Size(Program)

\* Mutant of ClearOutputs: nothing is cleared.
ClearOutputsNot == outputs
ClearOutputs    == <<>>

Arguments(args) ==
  [a \in {StackBase} \cup {StackBase + i : i \in 1 .. Len(args)} |->
     IF a = StackBase THEN ReturnAddress ELSE args[a - StackBase]]
Overlay(m, n) == [a \in DOMAIN m \cup DOMAIN n |-> IF a \in DOMAIN n THEN n[a] ELSE m[a]]

CallFunction ==
  /\ Command
  /\ \E call \in Calls : \E a \in AddressesOf(call) :
       /\ InProgram(a)
       /\ rb' = StackBase /\ memory' = Overlay(memory, Arguments(call[3]))
       /\ ip' = a /\ outputs' = ClearOutputs
  /\ phase' = "calling" /\ steps' = 0 /\ answer' = NoAnswer /\ said' = <<>>
  /\ UNCHANGED <<inputs, halted, session, typed, taken>>

\* A negative address, one beyond the program, or a name no function has.
RejectCall ==
  /\ Command
  /\ \E call \in Calls : \A a \in AddressesOf(call) : ~InProgram(a)
  /\ UNCHANGED <<vmVars, session, phase, steps, answer, said, typed, taken>>

Memset ==
  /\ Command
  /\ \E s \in Sets : memory' = Put(memory, s[1], s[2])
  /\ UNCHANGED <<ip, rb, inputs, outputs, halted, session, phase, steps, answer, said, typed, taken>>

SetInput ==
  /\ Command
  /\ \E text \in Texts : inputs' = Append(text, Marker)
  /\ typed' = inputs' /\ taken' = <<>>
  /\ UNCHANGED <<memory, ip, rb, outputs, halted, session, phase, steps, answer, said>>
-----------------------------------------------------------------------------
(* run_until_address: the limit is tested first, then the address.         *)

OutOfSteps == steps >= MaxSteps
AtReturn   == ip = ReturnAddress

\* The ghosts, for a step of the machine.
Recorded ==
  /\ said' = IF outputs' # outputs THEN Append(said, outputs'[Len(outputs')]) ELSE said
  /\ taken' = IF Opcode = 3 THEN Append(taken, memory'[Address(1)]) ELSE taken
  /\ UNCHANGED typed

Stepping == phase = "calling" /\ ~OutOfSteps /\ ~AtReturn /\ ~halted
\* Mutant of CallStep: the steps are not counted.
CallStepUncounted ==
  /\ Stepping /\ Step /\ Recorded
  /\ UNCHANGED <<session, phase, steps, answer, commands>>
CallStep ==
  /\ Stepping /\ Step /\ Recorded
  /\ steps' = IF halted' THEN steps ELSE steps + 1
  /\ UNCHANGED <<session, phase, answer, commands>>

Answered(kind, values) ==
  /\ phase' = "idle" /\ answer' = Answer(kind, values)
  /\ UNCHANGED <<vmVars, session, steps, commands, said, typed, taken>>
Exceeded == phase = "calling" /\ OutOfSteps /\ Answered("error", <<>>)
Returned ==
  /\ phase = "calling" /\ ~OutOfSteps /\ AtReturn
  /\ Answered("completed", [i \in 1 .. 10 |-> Get(StackBase + i)])
Stopped ==
  /\ phase = "calling" /\ ~OutOfSteps /\ ~AtReturn /\ halted
  /\ Answered("halted", <<>>)
-----------------------------------------------------------------------------
(* run_program: input is asked for when it is needed, output is printed after *)
(* each step.                                                              *)

ReadLine ==
  /\ phase = "running" /\ WaitingForInput /\ commands < MaxCommands
  /\ \E text \in Texts : inputs' = Append(text, Marker)
  /\ commands' = commands + 1 /\ typed' = typed \o inputs'
  /\ UNCHANGED <<memory, ip, rb, outputs, halted, session, phase, steps, answer, said, taken>>
EndOfInput ==
  /\ phase = "running" /\ WaitingForInput
  /\ phase' = "done"
  /\ UNCHANGED <<vmVars, session, steps, answer, commands, said, typed, taken>>

RunStep ==
  /\ phase = "running" /\ ~WaitingForInput /\ outputs = <<>>
  /\ Step /\ Recorded
  /\ UNCHANGED <<session, phase, steps, answer, commands>>
PopOutput ==
  /\ phase = "running" /\ outputs # <<>>
  /\ outputs' = Tail(outputs)
  /\ UNCHANGED <<memory, ip, rb, inputs, halted, replVars>>
RunEnds ==
  /\ phase = "running" /\ halted
  /\ phase' = "done"
  /\ UNCHANGED <<vmVars, session, steps, answer, commands, said, typed, taken>>

\* An opcode that is none, or a write to an immediate parameter.
Panic ==
  /\ \/ Stepping
     \/ phase = "running" /\ ~WaitingForInput /\ outputs = <<>> /\ ~halted
  /\ StepPanics
  /\ phase' = "panic"
  /\ UNCHANGED <<vmVars, session, steps, answer, commands, said, typed, taken>>
Ended == (phase \in {"done", "panic"} \/ (phase = "idle" /\ commands = MaxCommands)) /\ UNCHANGED vars

Machine == CallStep \/ Exceeded \/ Returned \/ Stopped \/ Panic
Next ==
  \/ CallFunction \/ RejectCall \/ Memset \/ SetInput
  \/ Machine
  \/ ReadLine \/ EndOfInput \/ RunStep \/ PopOutput \/ RunEnds
  \/ Ended

Spec == Init /\ [][Next]_vars
\* A call is a loop that nothing waits for.
FairSpec == Spec /\ WF_vars(Machine)
-----------------------------------------------------------------------------
\* A step of the machine does what the statement says that the decompiler lifts
\* the instruction to (native/instruction.rs:260-541, lir/converter.rs:77-148) or,
\* where it drops, pairs or refuses the instruction, what it was parsed as; unless
\* the program has changed the words of the instruction in another way than the
\* decompiler knows: by writing an address that was 0.
AsParsed(a) ==
  /\ Parses(Program, a) /\ Get(a) = Program[a]
  /\ \A i \in 1 .. Operands(Opcode) :
       \/ Get(a + i) = Program[a + i]
       \/ ModeOf(Program[a], i) = 0 /\ Program[a + i] = 0
Meaning(e) == Eval(e, memory, rb)
Place(e) ==
  CASE e.op = "global" -> e.n [] e.op = "stack" -> rb + e.n [] e.op = "deref" -> Meaning(e.a)
Does(s, end) ==
  /\ memory' = CASE s.k = "assign" -> Put(memory, Place(s.target), Meaning(s.src))
                 [] s.k = "input"  -> Put(memory, Place(s.target), IF inputs = <<>> THEN -1 ELSE Head(inputs))
                 [] OTHER -> memory
  /\ ip' = CASE s.k = "goto" -> Meaning(s.to)
             [] s.k = "if" /\ Meaning(s.cond) # 0 -> Meaning(s.to)
             [] s.k = "halt" -> ip
             [] OTHER -> end
  /\ rb' = IF s.k = "adjust" THEN rb + Meaning(s.src) ELSE rb
  /\ outputs' = IF s.k = "output" THEN Append(outputs, Meaning(s.src)) ELSE outputs
  /\ halted' = (s.k = "halt")
LiftedAgrees ==
  [][LET lifted == Lifted(Program, ip)
     IN  (CallStep \/ RunStep) /\ AsParsed(ip)
           => Does(IF lifted.k \in SingleKinds THEN lifted ELSE Parsed(Program, ip), EndOf(Program, ip))]_vars

\* The image says what the text meant: at the address of each statement the
\* instruction that the decompiler parses is the statement, with the
\* addresses of its labels and, for each pointer, the one word of the image that
\* the pointer stands for.  Not so for a pointer in two places, for the address 0,
\* which is read as a pointer, and when the constant of a sum or a product comes
\* first and is dropped: then the other operand moves.
Moves(lines, line) ==
  /\ line.k \in {"add", "mul"} /\ line.ops[2].t = "deref"
  /\ Means(line.ops[1], Labels(lines), Pointers(lines)) = Const(IF line.k = "add" THEN 0 ELSE 1)
Names(lines, name) ==
  {q \in (DOMAIN lines) \X (1 .. 3) :
     q[2] \in DOMAIN lines[q[1]].ops /\ lines[q[1]].ops[q[2]] = Token("deref", name, 0)}
Plain(lines) ==
  \A i \in DOMAIN lines :
    /\ ~Moves(lines, lines[i])
    /\ \A p \in DOMAIN lines[i].ops :
         /\ lines[i].ops[p] # Mem(0)
         /\ lines[i].ops[p].t = "deref" => Cardinality(Names(lines, lines[i].ops[p].w)) = 1
Assembled ==
  LET lines == session.meant
      at(i) == OffsetsOf(lines)[i]
  IN  lines # <<>> =>
        /\ Program # NoImage
        /\ Plain(lines) => \A i \in DOMAIN lines :
             lines[i].k # "data" =>
               /\ Parses(Program, at(i)) /\ EndOf(Program, at(i)) = at(i + 1)
               /\ Parsed(Program, at(i)) = Says(lines[i], Labels(lines), Pointers(lines))

\* A function that restores R gives its results where the caller looks for them,
\* and the outputs of an answer are those of its call alone.
AnswerOfCall ==
  /\ answer.kind = "completed" /\ phase = "idle" => rb = StackBase
  /\ answer.kind # "none" => answer.outputs = said

\* The characters put in are read once each and in order, over as many calls as
\* it takes.  A -1 is made up (vm.rs:196) only when all have been read, and only
\* by a prompt: run_program asks for the next line first.
InputsInOrder ==
  LET n    == IF Len(taken) < Len(typed) THEN Len(taken) ELSE Len(typed)
      more == Len(taken) - n
  IN  /\ taken = SubSeq(typed, 1, n) \o [i \in 1 .. more |-> -1]
      /\ inputs = SubSeq(typed, n + 1, Len(typed))
      /\ more > 0 => session.driver = "repl"

\* Every call is answered, also one that runs for ever.
EventuallyAnswered == phase = "calling" ~> phase \in {"idle", "panic"}
=============================================================================
