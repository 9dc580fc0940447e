--------------------------- MODULE VariableMerger ---------------------------
(***************************************************************************)
(* Clustering the SSA variables of a program into source variables         *)
(* (variable_analyzer/variable_merger.rs), on top of DisjointSetOps.       *)
(*                                                                         *)
(* A variable is a VersionedMemoryReference                                *)
(*   [kind |-> <<"R", n>> | <<"M", addr>> | <<"P", id>>, fn, version]      *)
(* for [R+n], a global and a pointer.  A program is what SSA conversion    *)
(* and folding left:                                                       *)
(*   vars        its SSA variables                                         *)
(*   fns         its functions                                             *)
(*   blocks[f]   the blocks of f                                           *)
(*   phis[b]     the phi functions of b: a sequence of [result, inputs]    *)
(*   code[b]     the folded instructions of b: a sequence of               *)
(*               [reads, target], target being {} or the one versioned     *)
(*               variable an Assign writes                                 *)
(*   params      parameter_entry_vars of all functions                     *)
(*   user        the names the user gave, a function on some variables     *)
(*                                                                         *)
(* Functions, blocks, phi inputs and sets are kept in hash maps, so each   *)
(* of those loops visits its elements in any order.  One step inserts one  *)
(* variable or joins one pair.                                             *)
(***************************************************************************)
EXTENDS DisjointSetOps, Sequences

CONSTANT Programs

Own(p, f)  == {v \in p.vars : v.fn = f}
ItemsOf(s) == {s[i] : i \in 1 .. Len(s)}

OneLocation(ph) == \A v \in ph.inputs : v.kind = ph.result.kind

\* A function mentions its own versions of a location only, and a phi function
\* takes versions of one location (ssa/converter.rs).
ASSUME ProgramsWellFormed ==
  \A p \in Programs :
    /\ \A v \in p.vars :
         /\ v = [kind |-> v.kind, fn |-> v.fn, version |-> v.version]
         /\ v.kind = <<v.kind[1], v.kind[2]>>
         /\ v.fn \in p.fns
    /\ \A f \in p.fns : \A b \in p.blocks[f] :
         /\ p.phis[b] \in Seq([result : Own(p, f), inputs : SUBSET Own(p, f)])
         /\ p.code[b] \in Seq([reads : SUBSET Own(p, f), target : SUBSET Own(p, f)])
         /\ \A ph \in ItemsOf(p.phis[b]) : OneLocation(ph)
         /\ \A c \in ItemsOf(p.code[b]) : \A t, u \in c.target : t = u

VARIABLES
  prog,      \* the program
  ds,        \* the disjoint set of variables
  globals,   \* HashMap<usize, SetId>: the set of each global address
  phase,     \* functions, phis, flow, naming, done, or panic
  fns,       \* functions still to process
  fn,        \* the function being processed
  blocks,    \* its blocks the current loop has still to visit
  items,     \* phi functions or instructions of the block still to process
  stage,     \* next, or the part of Head(items) in progress
  left,      \* variables of that part still to handle
  cur,       \* the `set_id` of initialize_clusters_from_phi_nodes
  key,       \* naming: the member each set is sorted by
  counter,   \* naming: the next numbers of each function
  names      \* naming: the name of each set named so far

position == <<phase, fns, fn, blocks, items, stage, left>>
naming   == <<key, counter, names>>
vars     == <<prog, ds, globals, position, cur, naming>>

IsMemory(v)   == v.kind[1] = "M"
IsPointer(v)  == v.kind[1] = "P"
Address(v)    == v.kind[2]
ReturnAddress == <<"R", 0>>

NoFunction == 0
NoSet      == -1

Init ==
  /\ prog \in Programs
  /\ ds = EmptyDS
  /\ globals = [a \in {} |-> NoSet]
  /\ phase = "functions" /\ fns = prog.fns /\ fn = NoFunction
  /\ blocks = {} /\ items = <<>> /\ stage = "next" /\ left = {}
  /\ cur = NoSet
  /\ key = [i \in {} |-> 0] /\ names = [i \in {} |-> 0]
  /\ counter = [f \in prog.fns |-> [ptr |-> 1, arg |-> 1]]

\* An assert! or unreachable!() of the code fails.
Panic ==
  /\ phase' = "panic"
  /\ UNCHANGED <<prog, ds, globals, fns, fn, blocks, items, stage, left, cur, naming>>
-----------------------------------------------------------------------------
(* The loops of build_clusters: for each function, all phi functions of all *)
(* its blocks, then all instructions of all its blocks.                    *)

StartFunction(f) ==
  /\ phase = "functions"
  /\ fns' = fns \ {f} /\ fn' = f
  /\ phase' = "phis" /\ blocks' = prog.blocks[f]
  /\ UNCHANGED <<prog, ds, globals, items, stage, left, cur, naming>>

BetweenBlocks == phase \in {"phis", "flow"} /\ items = <<>> /\ stage = "next"

EnterBlock(b) ==
  /\ BetweenBlocks
  /\ items' = IF phase = "phis" THEN prog.phis[b] ELSE prog.code[b]
  /\ blocks' = blocks \ {b}
  /\ UNCHANGED <<prog, ds, globals, phase, fns, fn, stage, left, cur, naming>>

EndOfBlocks ==
  /\ BetweenBlocks /\ blocks = {}
  /\ IF phase = "phis"
       THEN phase' = "flow" /\ blocks' = prog.blocks[fn]
       ELSE phase' = "functions" /\ UNCHANGED blocks
  /\ UNCHANGED <<prog, ds, globals, fns, fn, items, stage, left, cur, naming>>

ItemDone ==
  /\ items' = Tail(items) /\ stage' = "next" /\ left' = {}

AtItem(ph, st) == phase = ph /\ items # <<>> /\ stage = st
-----------------------------------------------------------------------------
(* initialize_clusters_from_phi_nodes.                                     *)

PhiTarget ==
  /\ AtItem("phis", "next")
  /\ LET r == Insert(ds, Head(items).result)
     IN  ds' = r.ds /\ cur' = r.id
  /\ stage' = "inputs" /\ left' = Head(items).inputs
  /\ UNCHANGED <<prog, globals, phase, fns, fn, blocks, items, naming>>

PhiInput(v) ==
  /\ AtItem("phis", "inputs")
  /\ IF CanUse(ds, cur)
       THEN /\ LET r == InsertJoin(ds, cur, v)
               IN  ds' = r.ds /\ cur' = r.id
            /\ left' = left \ {v}
            /\ UNCHANGED <<prog, globals, phase, fns, fn, blocks, items, stage, naming>>
       ELSE Panic

PhiDone ==
  /\ AtItem("phis", "inputs") /\ left = {}
  /\ ItemDone
  /\ UNCHANGED <<prog, ds, globals, phase, fns, fn, blocks, cur, naming>>
-----------------------------------------------------------------------------
(* merge_clusters_based_on_data_flow.                                      *)

\* What insert_var does to the disjoint set and to globals.
\* Mutant of SetGlobal: only the first set of an address is recorded.
SetGlobalOnce(a, id) ==
  [x \in (DOMAIN globals) \cup {a} |-> IF x \in DOMAIN globals THEN globals[x] ELSE id]
SetGlobal(a, id) == [x \in (DOMAIN globals) \cup {a} |-> IF x = a THEN id ELSE globals[x]]

\* Mutant of InsertMemory: versions of a global do not share a set.
InsertMemoryAlone(v) == Insert(ds, v)
InsertMemory(v) ==
  IF Address(v) \in DOMAIN globals
    THEN InsertJoin(ds, globals[Address(v)], v)
    ELSE Insert(ds, v)

StaleGlobal(v) ==
  /\ IsMemory(v) /\ Address(v) \in DOMAIN globals
  /\ ~CanUse(ds, globals[Address(v)])

InsertVar(v) ==
  IF v.kind = ReturnAddress THEN UNCHANGED <<ds, globals>>
  ELSE IF IsMemory(v)
    THEN LET r == InsertMemory(v)
         IN  ds' = Insert(r.ds, v).ds /\ globals' = SetGlobal(Address(v), r.id)
    ELSE ds' = Insert(ds, v).ds /\ UNCHANGED globals

StartInstruction ==
  /\ AtItem("flow", "next")
  /\ stage' = "reads" /\ left' = Head(items).reads
  /\ UNCHANGED <<prog, ds, globals, phase, fns, fn, blocks, items, cur, naming>>

Read(v) ==
  /\ AtItem("flow", "reads")
  /\ IF StaleGlobal(v) THEN Panic
     ELSE /\ InsertVar(v) /\ left' = left \ {v}
          /\ UNCHANGED <<prog, phase, fns, fn, blocks, items, stage, cur, naming>>

NoTarget ==
  /\ AtItem("flow", "reads") /\ left = {} /\ Head(items).target = {}
  /\ ItemDone
  /\ UNCHANGED <<prog, ds, globals, phase, fns, fn, blocks, cur, naming>>

Target(t) ==
  /\ AtItem("flow", "reads") /\ left = {}
  /\ IF StaleGlobal(t) THEN Panic
     ELSE /\ InsertVar(t)
          /\ stage' = "joins"
          /\ left' = {r \in Head(items).reads : r.kind = t.kind}
          /\ UNCHANGED <<prog, phase, fns, fn, blocks, items, cur, naming>>

JoinRead(t, r) ==
  /\ AtItem("flow", "joins")
  /\ ds' = Join(ds, t, r).ds
  /\ left' = left \ {r}
  /\ UNCHANGED <<prog, globals, phase, fns, fn, blocks, items, stage, cur, naming>>

InstructionDone ==
  /\ AtItem("flow", "joins") /\ left = {}
  /\ ItemDone
  /\ UNCHANGED <<prog, ds, globals, phase, fns, fn, blocks, cur, naming>>
-----------------------------------------------------------------------------
(* Naming: the sets are sorted by one member each, min_by_key's first of the *)
(* members with the least key in hash order, and named in that order.      *)

\* The derived Ord of VersionedMemoryReference.
Rank(v) == <<CASE v.kind[1] = "M" -> 0 [] v.kind[1] = "R" -> 1 [] OTHER -> 2,
             v.kind[2], v.fn, v.version>>
Before(u, v) ==
  \E i \in 1 .. 4 : /\ Rank(u)[i] < Rank(v)[i]
                    /\ \A j \in 1 .. i - 1 : Rank(u)[j] = Rank(v)[j]

StackKey(v) == IF v.kind[1] = "R" THEN <<1, v.kind[2]>> ELSE <<0, 0>>
KeyLeq(k, l) == k[1] < l[1] \/ (k[1] = l[1] /\ k[2] <= l[2])
SortMembers(C) == {v \in C : \A u \in C : KeyLeq(StackKey(v), StackKey(u))}

StartNaming ==
  /\ phase = "functions" /\ fns = {}
  /\ phase' = "naming"
  /\ key' \in {k \in [Live(ds) -> UNION Classes(ds)] :
                 \A i \in Live(ds) : k[i] \in SortMembers(ds.sets[i])}
  /\ UNCHANGED <<prog, ds, globals, fns, fn, blocks, items, stage, left, cur, counter, names>>

Unnamed == Live(ds) \ DOMAIN names

Name(i, rep, n) ==
  names' = [j \in (DOMAIN names) \cup {i} |-> IF j = i THEN [name |-> n, fn |-> rep.fn]
                                                       ELSE names[j]]

\* ptr1, ptr2, .. and arg1, arg2, .. of the function of rep.
NumberedTwice(i, rep, field) ==     \* mutant: the counter stays
  Name(i, rep, <<field, counter[rep.fn][field]>>) /\ UNCHANGED counter
Numbered(i, rep, field) ==
  /\ Name(i, rep, <<field, counter[rep.fn][field]>>)
  /\ counter' = [counter EXCEPT ![rep.fn][field] = @ + 1]

\* generate_cluster_name for the set i, whose first member in hash order is rep.
NameSet(i, rep) ==
  LET C         == ds.sets[i]
      userNames == {prog.user[v] : v \in C \cap DOMAIN prog.user}
      Least(v)  == \A u \in C \ {v} : Before(v, u)
  IN
  /\ phase = "naming"
  /\ \A j \in Unnamed \ {i} : Before(key[i], key[j])
  /\ \/ /\ \E n \in userNames : Name(i, rep, <<"user", n>>)
        /\ UNCHANGED <<phase, counter>>
     \/ /\ userNames = {}
        /\ \/ /\ i \in {globals[a] : a \in DOMAIN globals}
              /\ Name(i, rep, <<"Global", Address(rep)>>)
              /\ UNCHANGED <<phase, counter>>
           \/ /\ i \notin {globals[a] : a \in DOMAIN globals}
              /\ \/ /\ \E v \in C : IsPointer(v)
                    /\ Numbered(i, rep, "ptr") /\ UNCHANGED phase
                 \/ /\ \A v \in C : ~IsPointer(v)
                    /\ \E v \in C : IsMemory(v)          \* unreachable!()
                    /\ phase' = "panic" /\ UNCHANGED <<names, counter>>
                 \/ /\ \A v \in C : ~IsPointer(v) /\ ~IsMemory(v)
                    /\ IF C \cap prog.params # {}
                         THEN Numbered(i, rep, "arg")
                         ELSE /\ \E v \in C : Least(v) /\ Name(i, rep, <<"local", v.kind, v.version>>)
                              /\ UNCHANGED counter
                    /\ UNCHANGED phase
  /\ UNCHANGED <<prog, ds, globals, fns, fn, blocks, items, stage, left, cur, key>>

AllNamed ==
  /\ phase = "naming" /\ Unnamed = {}
  /\ phase' = "done"
  /\ UNCHANGED <<prog, ds, globals, fns, fn, blocks, items, stage, left, cur, naming>>

Finished == phase \in {"done", "panic"} /\ UNCHANGED vars
-----------------------------------------------------------------------------
Phis ==
  \/ PhiTarget
  \/ \E v \in left : PhiInput(v)
  \/ PhiDone

Flow ==
  \/ StartInstruction
  \/ \E v \in left : Read(v)
  \/ NoTarget
  \/ AtItem("flow", "reads") /\ \E t \in Head(items).target : Target(t)
  \/ AtItem("flow", "joins") /\ \E t \in Head(items).target, r \in left : JoinRead(t, r)
  \/ InstructionDone

Next ==
  \/ \E f \in fns : StartFunction(f)
  \/ \E b \in blocks : EnterBlock(b)
  \/ EndOfBlocks
  \/ Phis
  \/ Flow
  \/ StartNaming
  \/ \E i \in Unnamed : \E rep \in ds.sets[i] : NameSet(i, rep)
  \/ AllNamed
  \/ Finished

Spec == Init /\ [][Next]_vars
-----------------------------------------------------------------------------
\* The variables of the program, the maps and the loop position keep their types.
TypeOK ==
  /\ prog \in Programs
  /\ Elems(ds) \subseteq prog.vars
  /\ Live(ds) \subseteq Nat /\ ds.next_id \in Nat
  /\ ds.element_to_set \in [Elems(ds) -> Nat]
  /\ ds.sets \in [Live(ds) -> SUBSET prog.vars]
  /\ \A a \in DOMAIN globals : globals[a] \in Nat
  /\ phase \in {"functions", "phis", "flow", "naming", "done", "panic"}
  /\ fns \subseteq prog.fns /\ fn \in prog.fns \cup {NoFunction}
  /\ stage \in {"next", "inputs", "reads", "joins"}
  /\ left \subseteq prog.vars
  /\ DOMAIN names \subseteq Live(ds)

\* `globals` keeps identifiers across blocks and functions while joins retire
\* identifiers. Every one it holds is live and names variables of its address.
GlobalsLive ==
  \A a \in DOMAIN globals :
    /\ CanUse(ds, globals[a])
    /\ \A v \in ds.sets[globals[a]] : v.kind = <<"M", a>>

\* A cluster is one source variable: its members are versions of one location,
\* and of one function unless the location is a global.
ClustersHomogeneous ==
  \A C \in Classes(ds) : \A u, v \in C :
    u.kind = v.kind /\ (u.fn = v.fn \/ IsMemory(u))

\* Everything that asks for two variables to share a cluster.
BlocksOf(p) == UNION {p.blocks[f] : f \in p.fns}
PhisOf(p)   == UNION {ItemsOf(p.phis[b]) : b \in BlocksOf(p)}
CodeOf(p)   == UNION {ItemsOf(p.code[b]) : b \in BlocksOf(p)}
FlowVars(p) == UNION {c.reads \cup c.target : c \in CodeOf(p)}
PhiLinks(p)  == UNION {{ph.result} \X ph.inputs : ph \in PhisOf(p)}
FlowLinks(p) ==
  UNION {{l \in c.target \X c.reads : l[1].kind = l[2].kind} : c \in CodeOf(p)}
GlobalLinks(p) ==
  LET mem == {v \in FlowVars(p) : IsMemory(v)}
  IN  {l \in mem \X mem : l[1].kind = l[2].kind}
Links(p) == PhiLinks(p) \cup FlowLinks(p) \cup GlobalLinks(p)

\* A cluster of a global that no instruction mentions after folding: its phi
\* functions are linked to each other only.
DeadPhis(C) == C # {} /\ (\A v \in C : IsMemory(v)) /\ C \cap FlowVars(prog) = {}

\* No assertion of the disjoint set fails: set_id and globals are refreshed after
\* every join that retires the identifiers they held (variable_merger.rs:176,
\* 196).  The unreachable!() of naming (variable_merger.rs:282) is reached, and
\* only for a set of dead phi functions that is to be named.
PanicsOnDeadPhis ==
  phase = "panic" => \E i \in (DOMAIN key) \ DOMAIN names : DeadPhis(ds.sets[i])

\* When clustering ends the clusters are the connected components of those
\* links, whatever order the hash maps were visited in: linked variables are
\* together, and no cluster can be split without cutting a link.
ClustersAreComponents ==
  phase \in {"naming", "done"} =>
    LET links == Links(prog)
    IN  /\ \A l \in links : \E C \in Classes(ds) : l[1] \in C /\ l[2] \in C
        /\ \A C \in Classes(ds) : \A S \in (SUBSET C) \ {{}, C} :
             \E l \in links : l[1] \in C /\ l[2] \in C /\ (l[1] \in S) # (l[2] \in S)

\* No generated name stands for two variables of one function, and a global has
\* one name in the whole program, although sets are named in an order, and from
\* a representative, that depend on hashing.
NamesDistinct ==
  \A i, j \in DOMAIN names :
    /\ i # j /\ names[i].name = names[j].name /\ names[i].name[1] # "user"
       => names[i].fn # names[j].fn /\ names[i].name[1] # "Global"

\* "unreachable!()" (variable_merger.rs:282).
NoPanic == phase # "panic"

\* Clustering leaves nothing that naming trips over but dead phi functions of
\* globals: remembered sets of globals live, no set mixes kinds of memory.
ClustersSound == PanicsOnDeadPhis /\ GlobalsLive /\ ClustersHomogeneous
=============================================================================
