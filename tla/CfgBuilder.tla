----------------------------- MODULE CfgBuilder -----------------------------
(***************************************************************************)
(* From the image to control flow graphs: the image scanner, and when it is *)
(* done the graph builder (cfg/builder.rs) on each function it recognised, *)
(* in the order of their entries.                                          *)
(*                                                                         *)
(* process_function is two loops: the first cuts the function's list of    *)
(* instructions into blocks, the second finds how each block goes on and   *)
(* records it with the predecessors.  `blocks` is one map for all          *)
(* functions; the asserted lookups go to it.                               *)
(***************************************************************************)
EXTENDS ImageScanner, LirConverter

VARIABLES
  build,     \* scan, next, cut, link, done, panic
  fun,       \* the function at work
  next,      \* position in its instructions
  start,     \* current_block_start
  ids,       \* function_block_ids
  linked,    \* how many of them the second loop has done
  blocks,    \* [id -> block]
  preds,     \* predecessors_map
  graphs     \* the functions that are done

cfgVars == <<build, fun, next, start, ids, linked, blocks, preds, graphs>>
vars == <<scanVars, cfgVars>>

NoFunction == [start |-> None]

Init ==
  /\ ScanInit
  /\ build = "scan" /\ fun = NoFunction /\ next = 1 /\ start = 1
  /\ ids = <<>> /\ linked = 0 /\ blocks = <<>> /\ preds = {} /\ graphs = {}
-----------------------------------------------------------------------------
BeginBuild ==
  /\ scan = "done" /\ build = "scan"
  /\ build' = "next"
  /\ UNCHANGED <<scanVars, fun, next, start, ids, linked, blocks, preds, graphs>>

Unbuilt == {f \in functions : \A g \in graphs : g.id # f.start}

NextFunction ==
  /\ build = "next" /\ Unbuilt # {}
  /\ fun' = CHOOSE f \in Unbuilt : \A g \in Unbuilt : f.start <= g.start
  /\ build' = "cut"
  /\ next' = 1 /\ start' = fun'.start /\ ids' = <<>> /\ linked' = 0 /\ preds' = {}
  /\ UNCHANGED <<scanVars, blocks, graphs>>

\* block_boundaries
Boundaries ==
  {a \in fun.targets \cup {fun.start} \cup {End(h) : h \in fun.halts \cup fun.jumps}
         \cup {c.end : c \in fun.calls} \cup UNION {{r.start, r.end} : r \in fun.returns} :
     fun.start <= a /\ a < fun.end}

\* A block starts at the next address that has an instruction.
Offsets == {fun.instrs[i] : i \in DOMAIN fun.instrs}
BlockStart == Min({a \in Offsets \cup {fun.end} : a >= start} \cup {fun.end})

\* The number of the instruction its block ends with: the first that a boundary
\* follows, or after which the next one is a boundary; next - 1 when the first
\* instruction is itself the boundary of another block.
LastOfBlock ==
  LET L == fun.instrs
      stopBefore(i) == L[i] # BlockStart /\ L[i] \in Boundaries
  IN  IF stopBefore(next) THEN next - 1
      ELSE Min({i \in next .. Len(L) :
                  i = Len(L) \/ End(L[i]) \in Boundaries \/ stopBefore(i + 1)})

Block(list, end) == [instrs |-> list, end |-> end, kind |-> "unknown", to |-> <<>>]

\* The cutting ends with the instructions, or when none is left before the end.
CutBlock ==
  /\ build = "cut"
  /\ LET list == SubSeq(fun.instrs, next, LastOfBlock)
         end  == IF list = <<>> THEN BlockStart ELSE End(Last(list))
     IN  IF ConversionPanics(image, list)
           THEN build' = "panic" /\ UNCHANGED <<next, start, ids, blocks>>
           ELSE /\ blocks' = [b \in DOMAIN blocks \cup {BlockStart} |->
                               IF b = BlockStart THEN Block(list, end) ELSE blocks[b]]
                /\ ids' = Append(ids, BlockStart)
                /\ next' = LastOfBlock + 1
                /\ start' = end
                /\ build' = IF \/ LastOfBlock = Len(fun.instrs)
                               \/ Offsets \cap (end .. fun.end - 1) = {}
                             THEN "link" ELSE "cut"
  /\ UNCHANGED <<scanVars, fun, linked, preds, graphs>>

\* determine_next_kind, and the case of the block that held R += n only.
\* Mutant of NextKind: a halt goes on with the block behind it, if there is one.
NextKindHalts(b) ==
  IF Kept(image, blocks[b].instrs) = {} THEN [k |-> "follows", to |-> <<End(fun.start)>>]
  ELSE LET low == LastLow(image, blocks[b].instrs)
       IN  IF low.k \in {"return", "call", "goto", "if"} THEN low
           ELSE IF blocks[b].end \in DOMAIN blocks THEN [k |-> "follows", to |-> <<blocks[b].end>>]
           ELSE [k |-> "halt", to |-> <<>>]
NextKind(b) ==
  IF Kept(image, blocks[b].instrs) = {} THEN [k |-> "follows", to |-> <<End(fun.start)>>]
  ELSE LET low == LastLow(image, blocks[b].instrs)
       IN  IF low.k \in {"halt", "return", "call", "goto", "if"} THEN low
           ELSE IF blocks[b].end \in DOMAIN blocks THEN [k |-> "follows", to |-> <<blocks[b].end>>]
           ELSE [k |-> "halt", to |-> <<>>]

\* The entry kinds of the successors: of a condition, jump and follow.
EntryKind(kind, n) == IF kind = "if" THEN <<"jump", "fall">>[n] ELSE kind

LinkBlock ==
  /\ build = "link" /\ linked < Len(ids)
  /\ LET b == ids[linked + 1]
         k == NextKind(b)
     IN  IF /\ Kept(image, blocks[b].instrs) = {} => b = fun.start
            /\ \A n \in DOMAIN k.to : k.to[n] \in DOMAIN blocks
           THEN /\ preds' = preds \cup {<<k.to[n], EntryKind(k.k, n), b>> : n \in DOMAIN k.to}
                /\ blocks' = [blocks EXCEPT ![b].kind = k.k, ![b].to = k.to]
                /\ linked' = linked + 1
                /\ UNCHANGED build
           ELSE build' = "panic" /\ UNCHANGED <<preds, blocks, linked>>
  /\ UNCHANGED <<scanVars, fun, next, start, ids, graphs>>

\* Function::new copies the function's blocks out of the map.
FinishFunction ==
  /\ build = "link" /\ linked = Len(ids)
  /\ IF \A r \in fun.returns : r.start \in DOMAIN blocks
       THEN /\ graphs' = graphs \cup
                 {[id     |-> fun.start,
                   fn     |-> fun,
                   return |-> {r.start : r \in fun.returns},
                   blocks |-> [b \in Range(ids) |-> blocks[b]],
                   preds  |-> preds]}
            /\ build' = "next"
       ELSE build' = "panic" /\ UNCHANGED graphs
  /\ UNCHANGED <<scanVars, fun, next, start, ids, linked, blocks, preds>>

BuildDone ==
  /\ build = "next" /\ Unbuilt = {}
  /\ build' = "done"
  /\ UNCHANGED <<scanVars, fun, next, start, ids, linked, blocks, preds, graphs>>

Build ==
  \/ BeginBuild \/ NextFunction \/ CutBlock
  \/ LinkBlock \/ FinishFunction \/ BuildDone

Finished == (build \in {"done", "panic"} \/ scan = "panic") /\ UNCHANGED vars

Next == (ScanNext /\ UNCHANGED cfgVars) \/ Build \/ Finished

Spec == Init /\ [][Next]_vars

\* Each of the two passes is a loop that never waits.
FairSpec == Spec /\ WF_vars(Next)
-----------------------------------------------------------------------------
TypeOK ==
  /\ ScanTypeOK /\ pos \in Nat
  /\ build \in {"scan", "next", "cut", "link", "done", "panic"}
  /\ fun = NoFunction \/ fun \in functions
  /\ next \in Nat /\ start \in Nat /\ linked \in 0 .. Len(ids)
  /\ Range(ids) \subseteq DOMAIN blocks
  /\ \A p \in preds : p[1] \in DOMAIN blocks /\ p[3] \in Range(ids)
  /\ {g.fn : g \in graphs} \subseteq functions

\* The assertions of both passes hold: one return for each function, a block at
\* each address where control goes, returns and calls whole in their blocks
\* (scanner.rs:234; builder.rs:197-305; lir/converter.rs).
NoPanic == scan # "panic" /\ build # "panic"

\* The blocks cut a function into pieces that are entered at the top and left at
\* the bottom: each instruction is in one block, the first gives it its name, and
\* each but the last instruction or pair goes on to the next and nowhere else.
BlocksExact ==
  \A g \in graphs :
    /\ \A a \in Range(g.fn.instrs) :
         Cardinality({b \in DOMAIN g.blocks : a \in Range(g.blocks[b].instrs)}) = 1
    /\ \A b \in DOMAIN g.blocks :
         LET L == g.blocks[b].instrs IN
         /\ L # <<>> /\ L[1] = b /\ Range(L) \subseteq Range(g.fn.instrs)
         /\ \A i \in 1 .. Len(L) - 1 :
              \/ Successors(image, L[i], g.fn.size) = {L[i + 1]}
              \/ i = Len(L) - 1 /\ Extent(image, L[i], g.fn.size) = {L[i], L[i + 1]}

\* A block goes on where its last instruction or pair does, the predecessors are
\* the converse, and the return block is the one that returns.
LastStep(L, size) ==
  IF Len(L) > 1 /\ Extent(image, L[Len(L) - 1], size) = {L[Len(L) - 1], Last(L)}
    THEN L[Len(L) - 1] ELSE Last(L)
EdgesExact ==
  \A g \in graphs :
    /\ \A b \in DOMAIN g.blocks :
         Range(g.blocks[b].to)
           = Successors(image, LastStep(g.blocks[b].instrs, g.fn.size), g.fn.size)
    /\ {<<p[1], p[3]>> : p \in g.preds}
         = UNION {{<<t, b>> : t \in Range(g.blocks[b].to)} : b \in DOMAIN g.blocks}
    /\ g.return = {b \in DOMAIN g.blocks : g.blocks[b].kind = "return"}

\* Dominators (ssa/converter.rs:272) and structuring expect no other blocks than
\* those the entry reaches.
AllReachable ==
  \A g \in graphs : \A S \in SUBSET DOMAIN g.blocks :
    (g.id \in S /\ \A b \in S : Range(g.blocks[b].to) \subseteq S) => S = DOMAIN g.blocks

\* Code as a compiler leaves it.  What an entry reaches is a function if all of it
\* decodes: nothing jumps to before its entry, to the entry or into a pair; it has
\* one return, and R is adjusted at its entry and its return only; a jump to an
\* address in memory is a call, and no constant is written; and the arguments of a
\* call, if one stands right before it, are all there, without a jump between them.
Code(im, e) == Reach([a \in DOMAIN im |-> Successors(im, a, im[e].n)], {e})
IsPair(im, a, size) == IsReturn(im, a, size) \/ IsCallPair(im, a)

ArgumentsWhole(im, C, a) ==
  \A m \in 1 .. im[a - 1].n - 1 :
    /\ a - 1 - m \in C /\ im[a - 1 - m] = Item("arg", im[a - 1].n - m)
    /\ \A b \in C : im[b].k \in Jumps => im[b].n # a - m

CompiledFunction(im, e) ==
  LET C    == Code(im, e)
      size == im[e].n
  IN  /\ \A a \in C : e <= a /\ e \notin Successors(im, a, size)
      /\ \A a \in C : IsPair(im, a, size) => End(a) \notin C
      /\ \A a, b \in C : IsReturn(im, a, size) /\ IsReturn(im, b, size) => a = b
      /\ \A a \in C \ {e} : im[a].k = "adjust" => IsReturn(im, a, size)
      /\ \A a \in C : im[a].k \notin Refused
      /\ \A a \in C : IsCallPair(im, a) /\ a - 1 \in C /\ im[a - 1].k = "arg" =>
                       ArgumentsWhole(im, C, a)

Compiled(im) ==
  \A e \in DOMAIN im :
    IsEntry(im, e) /\ (\A a \in Code(im, e) : Decodes(im, a)) => CompiledFunction(im, e)

\* Both passes end: no address is taken twice, and each block takes instructions.
EventuallyDone == <>(build = "done" \/ build = "panic" \/ scan = "panic")

\* The graph of a function is its code, block by block and edge by edge, with
\* nothing besides, and building it trips over nothing the scan found.
GraphsExact == TypeOK /\ NoPanic /\ BlocksExact /\ EdgesExact /\ AllReachable
=============================================================================
