# intcode-disasm: specifications

`intcode-disasm` reads a memory image of an Intcode machine and decompiles it.
The image is scanned for functions, every function becomes a control flow graph
of LIR instructions, and a chain of passes (data flow, SSA conversion, function
call analysis, folding, structures, types, variables, control flow) turns the
graph into a high-level program.

These modules specify the passes that carry the decompiler's logic, check them
with TLC on small programs, and prove the results that matter most for all
programs with TLAPS.  Paths are relative to `src/`; `v3/` abbreviates
`src/disasm/v3/`.

All passes share one difficulty. They are fixpoints and worklists over
`HashMap` and `HashSet`, and Rust seeds those anew in every process: the order
in which blocks, phi functions, definitions and cluster members are visited is
different on every run.  A unit test sees one order; the models take every
order, and the properties say what must not depend on it.

## 1. Inventory

| Component | State it keeps | Operations | What makes it correct |
|---|---|---|---|
| Disjoint set, `v3/variable_analyzer/disjoint_set.rs` | element→set id, set id→members, next id | `insert`, `join`, `join_sets`, `insert_join`, `find`, `iter` | both maps describe one partition; identifiers held by callers never come to mean another set |
| Variable merger, `variable_merger.rs` | the disjoint set, the set id of each global (across functions), name counters | clusters from phi functions, clusters from data flow, names | clusters are the connected components of the links; no cluster mixes locations; names are distinct; no panic |
| Data flow, `v3/data_flow/analyzer.rs` | per block: function returns, reaching definitions, live references; per call site: values used | three iterated passes, then the call-site pass | each pass ends, at the least fixpoint; a call is credited with what is read from it and nothing else |
| SSA conversion, `v3/ssa/converter.rs` | per block: phi placement, start and end registry of versions | place phi functions, number versions, sweep versions round the graph, populate | single assignment; definitions dominate uses; merges agree; the sweep ends |
| Folding, `v3/folded_ssa/builder.rs` | blocks of instructions | simplify, fold a definition read once into its reader, until nothing changes | no reader loses its definition; order does not matter; meaning is kept |
| Image scanner, `v3/image_scanner/scanner.rs` | worklists of functions and addresses, visited addresses, instructions of a function | take an address, decode, follow jumps and calls, join pairs into calls and returns | every reachable instruction is found once; the two assertions hold |
| Control flow graph, `v3/cfg/` | blocks, successors, predecessors | split instructions at leaders, connect blocks | successors and predecessors are inverse; one return block |
| LIR and native instructions, `v3/lir/`, `v3/native/` | none (pure) | decode, convert, simplify, list reads and writes | conversion and simplification keep the meaning |
| Function call analysis, `v3/function_call/analyzer.rs` | call sites, parameters and returns of functions | collect, match arguments, rewrite calls | every parameter of a callee is matched with the caller's slot of the same position |
| Structures, `v3/structure_analysis.rs` | sizes of global structures | collect additions to addresses | a size covers every field that is read |
| Type inference, `v3/type_inference/` | bounds of type variables, constraints, updated variables | generate constraints, propagate, unify, solve | bounds only tighten; the worklist ends; the order does not matter |
| Control flow structuring, `v3/control_flow/` | open loops and conditionals | walk the graph, emit loops, conditionals, breaks | every block is emitted once and in order |
| Globals of the output, `v3/control_flow/control_flow_analyzer.rs:58-570` | the listed globals by address | find in the expressions of each function, add those the user names, convert constants and cells | every cell read is listed; all functions show an address alike; the user's layout is kept |
| Machine, `src/disasm/vm.rs` | memory, registers, input queue, halted, waiting | step, run, call one function | as the machine architecture document says; calls are independent |
| Pipeline, `v3/analysis.rs`, `v3/model.rs` | results so far, as a chain of types | one transition per pass | a pass sees exactly what the passes before it produced |
| Symbols, `src/disasm/symbol_renaming.rs` | the file of user names | add, rename, save | a name set is the name read back |
| Assembler, `src/disasm/parser.rs` | offsets, labels, pointers | parse statements, two passes, write the words | the image says what the text means |
| Prompt and drivers, `src/disasm/repl.rs`, `src/main.rs` | the caller with its machine, what the user typed | call, set memory, give input, run, compile | every call is answered with what the machine did in it |
| Pretty printers, HLR, tool server, web front end, macros | text and views | conversion of data to text | layout and I/O: outside the scope |

How they interact: the pipeline calls the passes one after another, each
returning a new `Model` that adds one result to those before it
(`v3/model.rs:24-37`). There are no threads in the analysis and no callbacks
between passes.  Passes interact by the *data* they leave:

* SSA conversion takes `live_in` and `return_values_accessed` of data flow to
  decide where phi functions go;
* function call analysis takes the versions SSA conversion gave to the
  arguments and the returns;
* folding removes definitions that the phi functions of SSA conversion may
  still name;
* the variable merger takes what folding left, and phi functions that refer to
  what folding removed;
* inside the merger, the clusters of functions share the sets of globals.

Hard behaviours: hash-map order everywhere; loops that end only when nothing
changes; identifiers kept while the structure they point into is rewritten;
facts computed by one pass and asserted by another.  Nothing is persisted by
the analysis and nothing is sent, so there are no crashes to recover from and
no messages to lose.

## 2. Modules

| Module | Models | State and actions |
|---|---|---|
| `Image` | what an address of the image holds, and where control goes from it | operators only; a read past the end is no instruction |
| `ImageScanner` | `scan` and `scan_from` of the image scanner | `queue` is the stack of addresses, `seen` those taken, `found` the lists of the function at work; one action per turn of the two loops: take an address that is new, seen before, or undecodable, and finish a function |
| `LirConverter` | what `convert` makes of the instructions of a block: which of them remain, and the kind of the last | operators only |
| `CfgBuilder` | the graph builder, composed with the scanner it is fed by | `blocks` is one map for all functions as in the code; `CutBlock` and `LinkBlock` are one turn of the two loops of `process_function` |
| `LirProgram` | the graph that data flow and SSA conversion read | operators only |
| `DataFlow` | `analyze_function`: the three iterated passes and the call-site pass | the maps of `DataFlowBlock`; `todo` and `changed` are the sweep; one action per pass that visits one block, one that ends a sweep |
| `Ssa` | `convert_function` | `start`, `end` are the registries; `order` is the listing of the hash map, the same for each sweep; actions `VisitBlock`, `EndOfSweep`, `Populate` |
| `FoldedSsa` | the rounds of the folding pass, and the second copy of a block's condition | `present`, `home` (the instruction that holds each read), the shapes `op` and `lhs`, `soft` and `cond`; `Fold` folds one definition into the one instruction that reads it, any that can be: the reads are kept in a `HashMap`; `Simplify` comes before each fold, takes reads out of soft instructions and gives them any shape, and leaves `cond` alone |
| `Partition` | what a disjoint set promises | `classes`; one action that unites the classes of two elements |
| `DisjointSetOps` | the functions of `disjoint_set.rs`, on a record with the struct's fields | operators only, used by `DisjointSet` and `VariableMerger` |
| `DisjointSet` | a caller that makes any sequence of calls | `ds` is the struct; `held` the identifiers ever returned, `last` the latest; one action per public method that changes state |
| `VariableMerger` | `build_clusters` and `generate_cluster_name` | `ds`, `globals`, the position in the nest of loops (`fns`, `blocks`, `items`, `stage`, `left`), `names` and counters; one action per step of a loop body, the choice of the next block, read or representative is the hash order |
| `Types`, `TypeBounds`, `TypeConstraints` | types and their order; the variables with their bounds, dependents and convergence; the constraints a program gives | operators on records with the fields of `InferenceAlgorithmState` and `ConstraintStore` |
| `TypeInference` | `solve` | `st`, `store` and the work list of the round; actions collect, apply a constraint and what it implies, classify additions, decide variables, introduce generics |
| `BlockPaths` | what a structured function promises: the paths of the graph | one action per way a block goes on; `at` is the block that ran last, `took` the answer of its condition |
| `ControlFlow` | `find_loops`, `find_ifs` and `analyze_block` | `frames` is the stack of calls of `analyze_block`, one action per case of its `match`; then the statements are run, one action per kind |
| `Expressions` | LIR expressions, their meaning and `simplify_once` | operators only |
| `Native`, `IntcodeVm` | decoding of words (`Parsed`) and what LIR makes of an instruction or a pair (`Lifted`: a statement, a return, a call, nothing, or a panic); the machine and its input queue | `Native`: operators. `IntcodeVm`: memory, `ip`, `rb`, queue, outputs; a step executes one opcode |
| `Assembler` | `parser.rs`: tokens, the ordered choice of statements, two passes, `compile` | operators only |
| `Repl` | the call, input and memory commands of the prompt, `run_program` and `compile` | the machine's state and `phase`, `answer`; one action per command and one per turn of a driver's loop |
| `FunctionCalls` | `function_call/analyzer.rs` and `get_effective_return_values` | `callees`, `sites`, `effective`; one action per function and per call, in any order |
| `UserDefs` | `symbol_renaming.rs`: the file of names and types | `parsed`, `customs`, `structs` and the tables; one action per line of each pass; `pick` is the order of the two hash maps that are searched by name |
| `StructureAnalysis` | simplification while folding, and `structure_analysis.rs` | `exprs`, `registers`, `globals`, `globalAdds`; one action per expression and per function |
| `Globals` | discovery, completion and naming of globals in the output | `found` is `HlrGlobals`, `shown` the conversion of each function's constants and cells; one action per function for each loop |
| `Reachability` | what is reached along edges (`Reach`), used for paths in graphs, dominance, closures | operators only, by a recursive function |
| `ReachabilityProofs`, `DisjointSetProofs`, `VariableMergerProofs`, `DataFlowProofs`, `SsaProofs`, `FoldedSsaProofs`, `CfgBuilderProofs`, `FunctionCallsProofs` | | theorems and proofs |
| `MC...` | | the small programs and sets TLC uses |

Compositions. `Globals` EXTENDS `StructureAnalysis`, which EXTENDS
`FunctionCalls`, `Expressions` and `UserDefs`: the file of types is read, the
calls are analysed, expressions are simplified, structures sized and globals
listed, each step on what the one before left.  `Repl` EXTENDS `Assembler` and
`IntcodeVm`: a text is assembled and the machine runs the words, and the
property `LiftedAgrees` holds its steps against what `Native` lifts there.
`ControlFlow` implements `BlockPaths`: the refinement mapping forgets the
statements and keeps the block that runs.

`CfgBuilder` EXTENDS `ImageScanner`: its next-state relation is a step of the
scanner or, when that is done, a step of the builder.  `DisjointSet` implements
`Partition`: the refinement mapping sends the struct to the set of its classes,
and identifiers disappear.  `VariableMerger` is composed with the disjoint set
by calling the operators of `DisjointSetOps`, so that an identifier that was
retired makes the same panic as in the code.  `MCSsa` uses `DataFlow` to
produce the analysis results its programs carry (`Analysed`), by the path
definitions that `FlowExact` shows to be the
results of the analysis.

What is abstracted.

* In an image every instruction takes one address, and an address between two
  instructions is never a target; operands are not decoded as opcodes.  Only
  the kinds of instruction that the scanner tells apart remain.
* In data flow and SSA conversion an instruction is the set of references it
  reads and the one it writes; the operator and the constants are left out
  since no pass modelled here looks at them.
* In folding an expression is the sequence of what it reads, in order.  The
  instructions with a constant or a negation that may cancel are `soft`, as are
  those one is folded into; what simplification makes of a soft one is a choice:
  any of its reads may go, and any shape may be left.  `FoldedExactly` (every
  order leaves the same code) is about programs with no soft instruction, and in
  which no copy is next to an operator (`CopiesApart`): `t = x + 1; x = t`
  is kept in one order and folded in another.
* In `Expressions` there is no input expression.  The rules drop one (`_ * 0` is
  0, `expression.rs:378`) and swap two (`-a + b` is `b - a`), so a program may
  read less input, or in another order, than its image; `MeaningKept` compares
  values and does not see it.
* In type inference arrays are left out: only a user's definitions make them.
  Display, ranks for printing and the change log are left out.
* In structuring an expression is the block whose condition it is.
* Machine words are small integers; the host's 128-bit overflow is not reached.
* A text of the assembler is a sequence of tokens; white space other than line
  ends, comments and debug markers are left out.
* A file of names holds no names: a key stands for one.  Array lengths are left
  out there, and all are 2 where the image is laid out (`Globals.Length`).
* In `Globals` the inferred type of a constant or a cell is part of the input,
  and a text made of the image is the sequence of what it shows.
* Block ids are small numbers in address order.  Names are reduced to the
  category and the number.

`VariableMerger` and `Ssa` state a type invariant that documents their
variables; it is not among the properties of a run.

## 3. Runs

| Run | Question | Instance and why it is enough |
|---|---|---|
| `image_to_graphs` | is every reachable instruction found and nothing else, do the assertions of both passes hold, are blocks and edges exact, does it end | every function whose body is three pieces out of plain instruction, halt, direct call, indirect call with arguments, branch and jump to each piece; and images of data, a function, an entry that is none and a second function. Three pieces give loops, joins, code that is never reached and blocks that end at a jump's target |
| `data_flow` | do the passes end, at the least fixpoint, with the path definitions | 4 shapes of graph with loops, branches, one and two calls, with several bodies for each block, every visiting order of every sweep |
| `ssa` | is the result SSA form, do merges agree, does it end, does the assertion hold | diamonds, loops with a branch, loops with a call; all orders of the hash map (at most 5 blocks, 120 orders) |
| `folded_ssa` | does folding keep definitions for reads, does the second copy of a condition keep up with the first, is the order irrelevant, does it end | every function of four instructions over two variables with versions, a loop with a counter and a pointer, and three with a constant that cancels once folded, with every outcome of simplification. A chain of three folds needs four instructions |
| `disjoint_set` | do the maps agree, are identifiers safe, is it a partition | four elements: the least number for which two sets of two are joined. No bound on identifiers is needed: an insertion and a join consume one each, at most 4 + 3 |
| `variable_merger` | are clusters independent of hash order, are names distinct, what makes it panic | three programs: two functions that share a global and a loop with two phi functions; one with two pointers, the return address and a user name; one whose phi function of a global nothing mentions, where naming reaches `unreachable!()`. Every order of functions, blocks, reads and representatives |
| `type_inference` | does the solver end, do the types satisfy the constraints, is anything stale or left | nine kinds of small program: arithmetic, negation, loops, pointers, results, comparisons, globals, calls and structures. Each round's constraints come in rising, falling and mixed order; these three reach each pair of constraints in both orders |
| `control_flow` | do the statements take the paths of the graph, does structuring end | every graph of four blocks in which no loop is in a branch or has code behind it, and eleven larger ones. `MaxDepth` = 8 frames, more than any of them needs: a fuller stack is a panic, and none is |
| `repl` | do the words mean the text, do lifted and native instructions agree, is each call answered, is input read once and in order | each opcode with each mode and boundary value of its operands; each form of statement with each kind of argument; a walk through memory, a call by name, an endless loop. `MaxCommands` = 2 makes one call follow another, `MaxSteps` = 15 stands for 1000000 |
| `whole_program` | are parameters and results those of the callee, do structures cover what is read, is a global shown alike, in every order; is meaning kept, are types found | seven callers with five callees; twelve shapes of simplifiable sums and four of conditions; files with types used before they are defined, twice defined, misspelt; eight lists of constants and cells in both functions with five files, over an image of eight cells, so that a string and an array end past it |
| `nested_branch`, `folded_phi` | one statement each of the code's comments that the code does not keep | one program each, the smallest that shows it |

A property of a run is often a conjunction of named parts, which the modules
state one by one: `SetsSound` (types, the two maps agree, returned identifiers
live), `ClustersSound` (a panic has dead phi functions, globals live, no mixed
cluster), `PassesSound` (types, fixpoint), `FlowExact` (definitions, liveness,
call sites), `SsaForm` (no panic, one assignment, each use has a definition),
`UsesDominated` (that definition dominates the use, no nearer one is missed,
merges agree), `FoldingSound` (types, no panic, reads defined, and the second
copy of a condition reads all that the first does, the same where nothing was
simplified), `GraphsExact` (types, no panic, blocks, edges, reachability).

What the other properties say:

| Property | Module | Says |
|---|---|---|
| `HeldIdsNeverSwitch`, `ImplementsPartition` | `DisjointSet` | an identifier kept by a caller never comes to name another set; every call inserts or unites classes |
| `ClustersAreComponents`, `NamesDistinct` | `VariableMerger` | clusters are the connected components of the links of the program, for every hash order; no two variables of a function share a generated name |
| `LocalReadsDefined`, `OnlyGrow` | `DataFlow` | a local read before its definition finds one that reaches it; a pass never takes an element back |
| `MergesAgree` | `Ssa` | without a phi function all predecessors hand over one version |
| `FoldedExactly`, `PhiInputsDefined` | `FoldedSsa` | every order of folds leaves the same code, the one the program says before folding; the inputs of phi functions keep their definitions |
| `ScanClosed`, `ScanReaches` | `ImageScanner` | a function recognised has all that its entry reaches, and nothing else |
| `NoStaleType`, `NothingLeft`, `Sound`, `Expected` | `TypeInference` | no type mentions a variable that has converged; no constraint, nor what it implies, was forgotten; no constraint is refuted by the result; the types the program was written with are found |
| `ImplementsPaths`, `EventuallyStructured` | `ControlFlow` | the statements run the blocks in the order of the graph; structuring ends |
| `Assembled`, `LiftedAgrees`, `AnswerOfCall`, `InputsInOrder`, `EventuallyAnswered` | `Repl` | the words mean what the text says; a lifted instruction does what the machine does; a call leaves its results where they are looked for, and its outputs are its own; what is typed is read once and in order, over several calls, and -1 is made up only in a session of the prompt and when all was read; each call is answered |
| `UserTypesHold`, `ParametersFound`, `ReturnsLinked`, `StructuresHold`, `GlobalsHold`, `MeaningKept` | `UserDefs`, `FunctionCalls`, `StructureAnalysis`, `Globals` | each line has the type it names; the parameters of a callee are the cells it takes values from, each by the value at entry where that is used; results are found where caller and callee put them; structures have the fields read through them; what is shown of a global is what was found, and the listing stops only at an address out of the image or a word that points to a negative length; simplification keeps the values of expressions without inputs, and conditions |

The images of `image_to_graphs` are what a compiler leaves.  `Compiled` in
`CfgBuilder` says it: what an entry reaches, if all of it decodes, lies behind
the entry and is entered there only from outside; nothing jumps into a pair, as
its second word would be listed twice (`scanner.rs:201`) and the block there
would hold half a call; it has one return, as the scanner asserts
(`scanner.rs:234`), and has nothing that LIR refuses (`Refused`: R adjusted
in the middle or by a cell, a jump to an address in memory that is no call, a
write to a constant); and the arguments of a call, where one stands before
it, are all there with no jump between them, as the conversion of its block
expects (`lir/converter.rs`).  TLC evaluates it on the images of the run
(`ImagesAreCompiled`).  The passing run of `ssa` leaves out the two shapes for
which its properties fail: a join nested in a branch, and a loop of three
blocks entered with two versions.  The first is the run
`nested_branch`, the second is listed below.

The disagreements, with a run:

* `nested_branch`: phi functions are not counted as definitions when phi
  functions are placed, so the version of one predecessor is taken where two
  differ (`ssa/converter.rs:590`).
* `folded_phi`: folding removes a definition a phi function names
  (`folded_ssa/builder.rs:105`).

The lines quoted and what each run shows are under "findings" in
`PROJECT.json`.

Disagreements with a program and a property in the modules, but no run of their
own; the program as the constant, and the property as an invariant (the second
as a property of `FairSpec`), show them:

| Program | Property | What happens |
|---|---|---|
| `MCFoldedSsa!Vanishes` | `ConditionsDefined` | a condition reads `y * t`, `t` folds to 0 and simplification makes the product 0 in the `If` only: the copy in the `NextKind`, which structuring uses, still reads `y`, whose definition can then be folded into its other reader (`folded_ssa/builder.rs:76`, comment at `:199`) |
| `MCDataFlow!MCPrograms` | `UsesAreFirst` | `use_before_def` keeps the last read of a reference, where `data_flow/block.rs:30-33` says the first: `analyzer.rs:88` inserts again |
| `MCDataFlow!MCPrograms` | `LiveAtEachRead` | of several reads in a block the live pairs name one, where `block.rs:18-20` says that each operand is associated with the points it is read |
| `MCDataFlow!MCPrograms` | `CreditsProvided` | a call is credited with a global that is overwritten before it is read, where `analyzer.rs:419-422` speaks of the call that provided the value |
| `MCVariableMerger!MCDeadPhi` | `NoPanic` | `unreachable!()` in naming is reached by a phi function of a global that no folded instruction mentions (`variable_merger.rs:282`) |
| `MCSsa!CallThenLoop`, order `Descending` | `EventuallyDone` | the sweep over start and end states never ends (`ssa/converter.rs:552`) |
| `MCFoldedSsa!StoredGlobal` | `GlobalsStored` | the store to a global that its function reads once is folded away (`folded_ssa/builder.rs:142`) |
| `MCFoldedSsa!TwoInputs` | `InputsKeepOrder` | two `input`s change their order (`folded_ssa/builder.rs:193`) |
| `MCTypeInference!LinkedList` | `Resolves` | a recursive type keeps `resolve_type` from ending (`solver.rs:420` says that the solver ends in a fixpoint or a contradiction) |
| `MCControlFlow!EarlyReturn` | `NothingLost` | an early return loses its values: the statement is made and dropped (`control_flow_analyzer.rs:922`) |
| `MCWholeProgram!MCPrograms` | `ArgumentsLinked` | the caller's arguments are looked up by an offset that is not the key they are stored under (`function_call/analyzer.rs:70`, `result.rs:50`) |

Read in the code and modelled as it is:

* data flow: phi inputs after calls take the versions of
  the arguments (`ssa/converter.rs:662`); a counter copied out of a loop is
  folded into its increment (`folded_ssa/builder.rs:139`);
* scanning: the second instruction of a pair is not marked as seen, so a jump
  to it lists it twice (`scanner.rs:201`); a jump to before the entry lists
  instructions outside the span (`cfg/builder.rs:120`);
* types: dependents of a variable with bounds are always none, as a name is
  shadowed (`type_bounds_map.rs:718-730`); a field read through a structure the
  user gives takes the field's type where the classification takes a pointer to
  it; two different pointer types of the user stop the program;
* structuring: code behind a loop is dropped; the flag for a loop is not reset;
  a jump back from a branch falls out of it; three jumps out of a loop fail an
  assertion; a graph that is not reducible recurses without end;
* structures: a field only stored through a pointer counts as an addition; a sum
  with the constant first is missed; offsets are cast to `usize`, so a negative
  one is a huge size; sizes of globals depend on the order of functions where a
  later function adds an offset;
* user types: an identifier that begins with the name of a basic type is read
  as that type: a variable keeps it, a function loses all its arguments, a
  structure is an error;
* globals: where one function has a constant and another a cell at an address,
  the later in a hash map gives the type and value shown; any constant that is
  the address of a global is shown as the global; strings and arrays that end
  past the image stop the program, structures and integer arrays do not; a field
  or an element that points to a string of negative length -n at an address of at
  least n stops it, as the length is cast to `usize`
  (`control_flow_analyzer.rs:1285-1302`); a global
  that is only written is not listed;
* conversion: a jump, also a conditional one, to what is not a constant, an
  adjustment of R by what is not a positive constant unless it is a return's, and
  an assignment to a constant stop the program (`lir/converter.rs:182-250`);
  `LirConverter` and `Native` model it, no image of the passing run has one;
* machine: a machine that halted answers later calls at once; the step limit is
  tested before the target address; an input without a queue gives -1; a lifted
  operand word 0 is a pointer;
* assembler: for `x = 0 + *p` the first pass gives `p` the address of the
  operand that simplification moves away; a pointer named twice is the last;
  `R -=` of a cell and undefined names stop the program.

Deadlock is checked in all runs; the modules of passes that end have an
explicit `Finished` step.

Fairness. `FairSpec` is weak fairness of `Next` and nothing stronger: each pass
is one thread that runs a loop over finite maps in memory and never waits, so it
always takes its next step.  No fairness is assumed of the *choices*: the order
of the hash map may be the worst one.  `TypeInference` spells it out as "a final
phase or steps for ever", which is the same, as a step is possible in every
other phase, and spares TLC the enabling condition of the solver. `ControlFlow`
is fair for the analysis and not for the run of the statements, which may loop.
`Repl` is fair for the machine: a call is a loop that waits for nothing, while a
user need not type another line.  `Globals` and `VariableMerger` state no
liveness: they are loops over finite maps and each action takes one element.

## 4. Proofs

Each module of proofs is about one module, for every value of its constants:
any programs and any order of hash maps and sweeps, where the runs take a few.

`ReachabilityProofs` is what the others rest on.  `Reach(next, S)` is computed
in rounds by a recursive function; it holds `S` (`ReachHolds`), is closed under
`next` (`ReachClosed`) and lies in every closed set that holds `S`
(`ReachLeast`), for finitely many nodes.  The induction behind it needs no
operator as a parameter: a set of numbers with 0 and the successors of its
members is all of them (`NumberInduction`, from the least element of a set of
numbers).  So what is said of all paths is proved as what is said of the least
closed set.

`CfgBuilderProofs` is about both passes from the image to graphs.  The scanner
first, for every image:

* type correctness (`ScanTypeCorrect`);
* `ScanIsComplete`: a function recognised is closed under the successors of its
  instructions.  `ScanClosed` is about finished functions only and not inductive;
  the invariant `Pending` says what is true at every turn of the loop: what
  follows a taken address is taken or still on the stack, so an empty stack
  leaves nothing out;
* `ScanIsLeast`: at every moment the addresses taken lie in every closed set that
  holds the entry; from these `ScanOnlyReaches`: each address the scan takes, or
  rejects the function for, is reached from the entry.

Then, for every set of images as a compiler leaves them (`AllCompiled`):

* `ScanHandsOver`: each function handed on is `Right`, that is, its list is the
  code its entry reaches, in order and each instruction once, and its targets,
  jumps, calls, halts and return are those of that code.  The invariant `ScanInv`
  adds `Noting` to `Pending`: the notes so far are those of the addresses taken;
* `GraphsAlwaysExact`: the graph of a function is its code (`GraphsExact`), and
  neither pass fails.

`GraphsExact` is about finished graphs; the invariant `BuildInv` is about the
function at work.  `Cutting` says that the blocks made so far are the stretches
of the list between two heads, up to `next`, whatever else earlier functions left
in the one map of blocks; `Linking`, that all are made and the linked ones go on
where their last instructions do; `Graphs`, that the graphs made are exact.
`IsHead` says of a position whether a block begins there, from the list alone and
not from the loop's variables, so most of the argument has no steps in it:

* an instruction that is not before a head falls through to the next one or is
  the first of a pair (`InsideBlock`);
* where one before a head goes, there is a head (`TargetsAreHeads`), so that the
  asserted lookups find a block;
* no stretch between heads makes the conversion to LIR fail
  (`NoConversionPanic`): a call's pair is whole, and so are its arguments, which
  no head parts;
* a set of blocks closed under their edges is closed code, and so all of it
  (`ClosedBlocks`): every block is reached.

`DataFlowProofs`:

* `TypeCorrect`; `PassesAlwaysSound` is this and the next together;
* `PassesEndInFixpoints`: when a pass is over its equations hold everywhere, for
  every visiting order. The invariant `SweepInv` says: a block already visited in
  this sweep satisfies its equations unless `changed` was raised since;
* `SetsOnlyGrow`: a visit never removes an element, by monotonicity of the
  right-hand sides and the invariant that a set is below its recomputation;
* `NothingSpurious`: each set stays below every solution, so what a pass ends in
  is the *least* solution;
* `FlowIsExact`: that solution is what paths define (definitions that reach a
  block, references read later, what is read of each call).  For liveness the
  paths are those of all reads that no write in their block precedes, and not of
  the one each block lists (`LiveAtReads`).  The least solution is compared with
  `Reach`, one inclusion each; `Seeded` says that the block a call returns to
  has that call among its function returns at every moment, and `CreditedSoFar`
  that a call is credited with what the blocks passed so far read of it;
* `LocalReadsAlwaysDefined`: a local read before it is defined in its block finds
  the definition that reaches it.

`SsaProofs`:

* `SsaFormAlways`: conversion does not panic, gives each version one definition,
  and each use has a definition; `TypesAlways`.  A version number counts the
  definitions of its reference up to its own, so two definitions differ; a sweep
  only copies numbers (`StatesRecorded`); what running a block's instructions
  would leave is its end state (`EndIsRunning`);
* `CompletePhisDominate`: definitions dominate their uses, the nearest is the one
  used, and merges agree, *where* phi functions are complete (`PhisComplete`: the
  frontier of a block with a phi function has it too).  In general this is false,
  and run `nested_branch` shows it; the theorem says that the missing iteration
  of phi placement is the only way to lose it.  `PhisComplete` holds of every
  program of run `ssa` and fails of the one of `nested_branch`.  The argument:
  dominance is an order; a definition that dominates a predecessor dominates the
  block too or the block has a phi function; so registries hold nearest versions
  at every moment (`FromNearest`), and a sweep that changed nothing has settled
  all blocks (`SweepSettles`), so that no definition is missed.

`FoldedSsaProofs`: type correctness, that the assertions of the fold hold
(`NeverPanics`), that what is read is defined or an input of the function
(`ReadsKeepDefinitions`) and that the second copy of a condition has all the
reads of the first, and no other while nothing was simplified in it
(`ConditionsAlwaysAgree`), whatever simplification drops and leaves;
`AlwaysSound` is their conjunction.  The invariant `Ordered` is the one that
makes the others inductive: a fold moves reads forward only, so a definition is
never its own reader and the instruction it is folded into survives.
`FoldsExactlyThose`: the code left does not depend on the order of folds, where
simplification has nothing to do.  What stays is defined before folding
(`Stays`, the least set with the definitions that do not have exactly one
reader, and those that add to another version of their target where that version
is no instruction's result or stays too); `GoneWithDefinition` says that only
others have gone, `StopsDone` that none of these others is left when no fold is
possible.

`DisjointSetProofs`: type correctness, that
the maps agree (`MapsAlwaysAgree`), that new identifiers are unused (`FreshIds`)
and returned ones live (`ReturnedIdsLive`), that a held identifier never
switches (`HeldIdsSafe`), and that it implements `Partition` (`RefinesPartition`).
The inductive invariant is `TypeOK`, `MapsAgree`, `IdsBelowNext` and a bound on
the identifiers ever returned; `MapsAgree` alone is not inductive because a
fresh identifier must be known to be unused.  `SetsAlwaysSound` is the
conjunction that the run checks.  One lemma per method says what the
new record is; the theorems follow from the lemmas.

`VariableMergerProofs` uses these lemmas:

* `MergerFindsComponents`: when clustering ends the clusters are the connected
  components of the links, for every hash order.  Each call unites the classes of
  two linked variables only (`ClustersInv`), and no link is passed over;
* `MergerSound`: the sets that `globals` remembers across functions are live, no
  cluster mixes locations or, but for globals, functions, and a panic is that of
  naming, at a cluster of phi functions of a global that no instruction mentions.
  A set with a global that some instruction reads or writes is in `globals` when
  naming begins (`GlobalsFound`).  Naming does panic at one of the others:
  `MCVariableMerger!MCDeadPhi`;
* `MergerNamesApart`: no two variables of a function share a generated name.

`FunctionCallsProofs`: every entry of the maps is what its own function or call
gives, in every order (`CallsInvAlways`, with `PanicHasReason`: a panic is
caused by the program, not by the order); so a read after a call is linked to
what the callee left in that cell (`ReturnsAlwaysLinked`), and the parameters of
a callee are the cells above its caller's R that it takes values from, each by
the value at entry wherever the function uses that (`ParametersAlwaysFound`, for
every program).

Assumptions.  The named `ASSUME`s of the modules say what the passes before
deliver: finite functions whose successors are blocks (`ProgramsAssumption`,
`FunctionsAreFinite`), all reached from an entry with no predecessor
(`ReachableBlocks`), hash maps that list each key once (`OrdersAreListings`),
liveness that satisfies its equation (`DataFlowResults`, from `FlowExact`), one
definition before its reads (`SsaForm`), clusters' programs
(`ProgramsWellFormed`) and calls (`FunctionsAreWellFormed`).  Some theorems
have a hypothesis of their own, since the code does not guarantee it:
`FoldsExactlyThose` (`CopiesApart`), `ScanHandsOver` and
`GraphsAlwaysExact` (`AllCompiled`), `CompletePhisDominate` (`PhisComplete`).
TLC evaluates the named assumptions and all but the last of these hypotheses on
the programs of the runs; the last is a state predicate.

Only model-checked: termination and every other liveness property, which the
prover does not do; `UsesDominated` without its hypothesis, false in general;
`PhiInputsDefined`, false in general; what concerns `TypeInference`,
`ControlFlow`, `Repl`, `UserDefs`, `StructureAnalysis` and `Globals`: they reach
RECURSIVE operators on terms (types, expressions, statements), which the prover
does not take, and induction over terms.

## 5. Plan

Modelled in this order: disjoint set and merger, data flow, SSA conversion,
folding, scanner and graph; then types, structuring, machine and prompt, calls,
structures, user types, assembler, globals.

To be proved next: that bounds of `TypeBounds` only tighten, once its recursion
is written as recursive functions; the part of `GlobalsHold` that says found
globals are candidates.

To be modelled next: the composition of data flow, SSA conversion, folding and
merger on one program, which the disagreements above suggest.

## 6. Not modelled

* Characters, comments and debug markers of the assembler's text; names in the
  user's file, and the writing of that file.
* Printing commands of the prompt and the tool server (`mcp.rs`); the web front
  end and its bridge; HLR visitors and pretty printers: text and views, without
  state worth exploring.
* Conversion of binary and unary expressions to HLR: it is one to one.
* 128-bit overflow of the machine (`vm.rs:182`): a panic in a debug build, wrapped
  in a release build.
* Macros run at compile time.
