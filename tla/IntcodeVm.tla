------------------------------ MODULE IntcodeVm ------------------------------
(***************************************************************************)
(* The machine that runs Intcode words (vm.rs, IntcodeVm).                 *)
(*                                                                         *)
(* A negative address stands for its value modulo 2^64.  Values are small  *)
(* enough not to overflow.                                                 *)
(***************************************************************************)
EXTENDS Native

VARIABLES
  memory,            \* a function from the addresses that have been set
  ip, rb,            \* instruction_pointer, relative_base
  inputs, outputs,   \* the queues
  halted

vmVars == <<memory, ip, rb, inputs, outputs, halted>>

Get(a)       == Fetch(memory, a)
Put(m, a, v) == [x \in DOMAIN m \cup {a} |-> IF x = a THEN v ELSE m[x]]

Opcode   == OpcodeOf(Get(ip))
Mode(i)  == ModeOf(Get(ip), i)
Param(i) == Get(ip + i)
\* get_parameter_value, get_write_address: a mode that is none is mode 0.
Value(i) ==
  CASE Mode(i) = 1 -> Param(i)
    [] Mode(i) = 2 -> Get(rb + Param(i))
    [] OTHER       -> Get(Param(i))
Address(i) == IF Mode(i) = 2 THEN rb + Param(i) ELSE Param(i)

Target == CASE Opcode \in {1, 2, 7, 8} -> 3 [] Opcode = 3 -> 1 [] OTHER -> 0
StepPanics == Opcode \notin Opcodes \/ (Target # 0 /\ Mode(Target) = 1)

VmNew(program) ==
  /\ memory = program /\ ip = 0 /\ rb = 0
  /\ inputs = <<>> /\ outputs = <<>> /\ halted = FALSE
-----------------------------------------------------------------------------
(* step, with one action for each group of opcodes.                        *)

Compute ==
  /\ Opcode \in {1, 2, 7, 8}
  /\ memory' = Put(memory, Address(3),
                   CASE Opcode = 1 -> Value(1) + Value(2)
                     [] Opcode = 2 -> Value(1) * Value(2)
                     [] Opcode = 7 -> Bit(Value(1) < Value(2))
                     [] Opcode = 8 -> Bit(Value(1) = Value(2)))
  /\ ip' = ip + 4
  /\ UNCHANGED <<rb, inputs, outputs, halted>>

Input ==
  /\ Opcode = 3
  /\ memory' = Put(memory, Address(1), IF inputs = <<>> THEN -1 ELSE Head(inputs))
  /\ inputs' = IF inputs = <<>> THEN <<>> ELSE Tail(inputs)
  /\ ip' = ip + 2
  /\ UNCHANGED <<rb, outputs, halted>>

Output ==
  /\ Opcode = 4
  /\ outputs' = Append(outputs, Value(1))
  /\ ip' = ip + 2
  /\ UNCHANGED <<memory, rb, inputs, halted>>

Jump ==
  /\ Opcode \in {5, 6}
  /\ ip' = IF (Value(1) # 0) <=> (Opcode = 5) THEN Value(2) ELSE ip + 3
  /\ UNCHANGED <<memory, rb, inputs, outputs, halted>>

AdjustRelBase ==
  /\ Opcode = 9
  /\ rb' = rb + Value(1) /\ ip' = ip + 2
  /\ UNCHANGED <<memory, inputs, outputs, halted>>

Halt ==
  /\ Opcode = 99
  /\ halted' = TRUE
  /\ UNCHANGED <<memory, ip, rb, inputs, outputs>>

Step ==
  /\ ~halted /\ ~StepPanics
  /\ Compute \/ Input \/ Output \/ Jump \/ AdjustRelBase \/ Halt

\* Mutant of WaitingForInput: only a plain opcode is seen.
WaitingForInputPlain == ~halted /\ Get(ip) = 3 /\ inputs = <<>>
\* is_waiting_for_input
WaitingForInput == ~halted /\ Opcode = 3 /\ inputs = <<>>
=============================================================================
