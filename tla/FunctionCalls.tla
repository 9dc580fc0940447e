----------------------------- MODULE FunctionCalls -----------------------------
(***************************************************************************)
(* Which variables of a callee are its parameters and results, and how they *)
(* go with the variables of its callers (function_call/analyzer.rs).       *)
(*                                                                         *)
(* A program is a record of functions, [funs |-> a function on their ids]. A *)
(* function in SSA form is a record                                        *)
(*   size     stack_size: R is that much higher in its body                *)
(*   inputs   <<offset, foreign>>: live_in of the entry block; foreign when *)
(*            the value may come from elsewhere than a call                *)
(*   used     <<offset, version>> in phi functions and reads               *)
(*   ret      {} or {end}, the <<offset, version>> at the end of its return *)
(*            block                                                        *)
(*   calls    a sequence of [target, written, read]: the function called, or *)
(*            Indirect; the <<offset, version>> at the end of the calling  *)
(*            block, and those read first after the call                   *)
(* An offset n stands for [R+n]; globals take no part.                     *)
(***************************************************************************)
EXTENDS Integers, Sequences, FiniteSets

CONSTANT Programs

Indirect == 0

\* Sizes and offsets are numbers, versions count from 0, and no function has the
\* number of an indirect call.
IsVariable(v) == v \in Int \X Nat
InNumbers(f) ==
  /\ f.size \in Int
  /\ \A i \in f.inputs : i[1] \in Int
  /\ \A v \in f.used \cup UNION f.ret : IsVariable(v)
  /\ \A c \in DOMAIN f.calls : \A v \in f.calls[c].written \cup f.calls[c].read : IsVariable(v)
ASSUME FunctionsAreWellFormed ==
  \A p \in Programs : \A f \in DOMAIN p.funs : f # Indirect /\ InNumbers(p.funs[f])

VARIABLES
  program,
  callees,     \* CalleeInfo of the functions analyzed
  sites,       \* CallSiteInfo of the calls <<function, number>> analyzed
  effective,   \* get_effective_return_values, asked for each function
  calls        \* callees, sites, ask; done, panic

callVars == <<program, callees, sites, effective, calls>>

Functions     == DOMAIN program.funs
Fun(f)        == program.funs[f]
Merge(f, x, v) == [y \in (DOMAIN f) \cup {x} |-> IF y = x THEN v ELSE f[y]]

CallsInit ==
  /\ program \in Programs
  /\ callees = [f \in {} |-> {}] /\ sites = [c \in {} |-> {}] /\ effective = [f \in {} |-> {}]
  /\ calls = "callees"
-----------------------------------------------------------------------------
\* Mutant of FindLowestVersionOf: any use of the parameter.
FindHighestVersionOf(f, o) ==
  {u \in Fun(f).used : u[1] = o /\ \A w \in Fun(f).used : w[1] = o => w[2] <= u[2]}
\* {} or {the use of [R+o] with the lowest version}
FindLowestVersionOf(f, o) ==
  {u \in Fun(f).used : u[1] = o /\ \A w \in Fun(f).used : w[1] = o => u[2] <= w[2]}

ParameterOffsets(f) == {i[1] : i \in {i \in Fun(f).inputs : i[1] < 0 /\ i[2]}}
\* <<number, variable>>
ParameterEntryVars(f) ==
  UNION {{o + Fun(f).size} \X FindLowestVersionOf(f, o) : o \in ParameterOffsets(f)}
\* Keyed by offset.
ReturnWrites(f) == {<<v[1], v>> : v \in {v \in UNION Fun(f).ret : v[1] < 0}}

AnalyzeCallee(f) ==
  /\ calls = "callees" /\ f \notin DOMAIN callees
  /\ IF \E o \in ParameterOffsets(f) : FindLowestVersionOf(f, o) = {}
       THEN calls' = "panic" /\ UNCHANGED callees
       ELSE /\ callees' = Merge(callees, f, [parameters |-> ParameterEntryVars(f),
                                             returns |-> ReturnWrites(f)])
            /\ calls' = IF DOMAIN callees' = Functions THEN "sites" ELSE calls
  /\ UNCHANGED <<program, sites, effective>>
-----------------------------------------------------------------------------
Sites      == UNION {{f} \X DOMAIN Fun(f).calls : f \in Functions}
Call(s)    == Fun(s[1]).calls[s[2]]
Written(s) == {v \in Call(s).written : v[1] > 0}

Looked(table, key) == {e[2] : e \in {e \in table : e[1] = key}}
\* <<variable of the caller, variable of the callee>>
\* Mutant of Linked: the frame of the callee is taken for the caller's.
LinkedFlat(variables, table, k) ==
  UNION {{v} \X Looked(table, v[1]) : v \in variables}
Linked(variables, table, k) ==
  UNION {{v} \X Looked(table, v[1] - k) : v \in variables}

\* build_call_site_maps
SiteOf(s) ==
  LET g == Call(s).target
      k == Fun(g).size
  IN  IF g = Indirect THEN [parameterMap |-> {}, returnMap |-> {}]
      ELSE [parameterMap |-> Linked(Written(s), callees[g].parameters, k),
            returnMap    |-> Linked(Call(s).read, callees[g].returns, k)]

\* A direct call goes to a function.
AnalyzeSite(s) ==
  /\ calls = "sites" /\ s \notin DOMAIN sites
  /\ IF Call(s).target \notin Functions \cup {Indirect} THEN calls' = "panic" /\ UNCHANGED sites
     ELSE sites' = Merge(sites, s, SiteOf(s)) /\ UNCHANGED calls
  /\ UNCHANGED <<program, callees, effective>>

SitesDone ==
  /\ calls = "sites" /\ DOMAIN sites = Sites
  /\ calls' = "ask"
  /\ UNCHANGED <<program, callees, sites, effective>>
-----------------------------------------------------------------------------
CallersOf(f) == {s \in Sites : Call(s).target = f}
\* <<offset, variable>>
EffectiveReturnValues(f) ==
  UNION {UNION {{v[1]} \X Looked(sites[s].returnMap, v) : v \in Call(s).read} : s \in CallersOf(f)}
\* A read that no map has is a panic.
Answered(s) == \A v \in Call(s).read : Looked(sites[s].returnMap, v) # {}

Ask(f) ==
  /\ calls = "ask" /\ f \notin DOMAIN effective
  /\ IF \E s \in CallersOf(f) : ~Answered(s)
       THEN calls' = "panic" /\ UNCHANGED effective
       ELSE /\ effective' = Merge(effective, f, EffectiveReturnValues(f))
            /\ calls' = IF DOMAIN effective' = Functions THEN "done" ELSE calls
  /\ UNCHANGED <<program, callees, sites>>

CallsNext ==
  \/ \E f \in Functions : AnalyzeCallee(f) \/ Ask(f)
  \/ \E s \in Sites : AnalyzeSite(s)
  \/ SitesDone

CallsSpec == CallsInit /\ [][CallsNext]_callVars
-----------------------------------------------------------------------------
\* Parameter number i of a function is the cell [R+i] of its callers, and one use
\* of that cell stands for it: of the value at entry where the function uses that
\* at all.  Only where conversion left no use of it (a phi function is missing,
\* run nested_branch) does a later version take its place.
ParametersFound ==
  calls = "done" =>
    \A f \in Functions :
      LET ps == callees[f].parameters
          Cell(p) == p[1] - Fun(f).size
      IN  /\ {Cell(p) : p \in ps} = ParameterOffsets(f)
          /\ \A p, q \in ps : p[1] = q[1] => p = q
          /\ \A p \in ps : /\ p[2] \in Fun(f).used /\ p[2][1] = Cell(p)
                            /\ <<Cell(p), 0>> \in Fun(f).used => p[2] = <<Cell(p), 0>>

\* Caller and callee speak of one cell: what the caller reads after the call is
\* what the callee left at that address, and the results of a function are the
\* cells some caller reads; none is missed where every function leaves what its
\* callers read and uses what it takes.
Complete ==
  /\ \A f \in Functions : \A o \in ParameterOffsets(f) : \E u \in Fun(f).used : u[1] = o
  /\ \A s \in Sites :
       /\ Call(s).target \in Functions
       /\ \A v \in Call(s).read : \E w \in UNION Fun(Call(s).target).ret :
            w[1] < 0 /\ w[1] + Fun(Call(s).target).size = v[1]
ReturnsLinked ==
  /\ calls = "panic" => ~Complete
  /\ calls = "done" =>
      /\ \A s \in Sites : Call(s).target # Indirect =>
         /\ \A v \in Call(s).read : \E m \in sites[s].returnMap : m[1] = v
         /\ \A m \in sites[s].returnMap :
              /\ m[2] \in UNION Fun(Call(s).target).ret
              /\ m[1][1] = m[2][1] + Fun(Call(s).target).size
      /\ \A f \in Functions : {e[1] : e \in effective[f]} = {v[1] : v \in UNION {Call(s).read : s \in CallersOf(f)}}

\* "Maps caller's argument write .. to callee's parameter entry" (result.rs:54).
ArgumentsLinked ==
  calls = "done" =>
    \A s \in Sites : Call(s).target # Indirect =>
      \A v \in Written(s) : \A p \in callees[Call(s).target].parameters :
        p[1] = v[1] => <<v, p[2]>> \in sites[s].parameterMap
=============================================================================
