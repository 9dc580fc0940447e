------------------------ MODULE FunctionCallsProofs ------------------------
(***************************************************************************)
(* Proofs about FunctionCalls, for any program and any order in which its  *)
(* functions and call sites are listed.                                    *)
(*                                                                         *)
(* Each phase reads what the phase before it wrote and leaves it alone, so *)
(* every entry of a map stays what the analysis of its function or call    *)
(* site computed (CalleesRight, SitesRight, AskedRight).  A panic has its  *)
(* reason in the program itself (PanicHasReason): a parameter without use, *)
(* a call of no function, or a read of a cell the callee does not leave.   *)
(***************************************************************************)
EXTENDS FunctionCalls, WellFoundedInduction, TLAPS

CalleeOf(f) == [parameters |-> ParameterEntryVars(f), returns |-> ReturnWrites(f)]

CalleesRight ==
  /\ \A f \in DOMAIN callees : f \in Functions /\ callees[f] = CalleeOf(f)
  /\ calls \in {"sites", "ask", "done"} => DOMAIN callees = Functions

SitesRight ==
  /\ \A s \in DOMAIN sites :
       s \in Sites /\ sites[s] = SiteOf(s) /\ Call(s).target \in Functions \cup {Indirect}
  /\ calls = "callees" => DOMAIN sites = {}
  /\ calls \in {"ask", "done"} => DOMAIN sites = Sites

AskedRight ==
  /\ \A f \in DOMAIN effective :
       /\ f \in Functions /\ effective[f] = EffectiveReturnValues(f)
       /\ \A s \in CallersOf(f) : Answered(s)
  /\ calls \in {"callees", "sites"} => DOMAIN effective = {}
  /\ calls = "done" => DOMAIN effective = Functions

PanicHasReason == calls = "panic" => ~Complete

CallsInv ==
  /\ program \in Programs /\ calls \in {"callees", "sites", "ask", "done", "panic"}
  /\ CalleesRight /\ SitesRight /\ AskedRight /\ PanicHasReason
-----------------------------------------------------------------------------
(* Operators.                                                              *)

LEMMA LeastExists ==
  ASSUME NEW S, S \subseteq Nat, S # {}
  PROVE  \E m \in S : \A x \in S : m <= x
<1>1. PICK m \in S : \A x \in S : ~ (<<x, m>> \in OpToRel(<, Nat))
  BY NatLessThanWellFounded, WFMin
<1>2. \A x \in S : ~ (x < m)
  BY <1>1 DEF OpToRel
<1> QED BY <1>2

\* Variables of the program are pairs of numbers.
LEMMA Variables ==
  ASSUME program \in Programs, NEW f \in Functions
  PROVE  /\ f # Indirect /\ Fun(f).size \in Int
         /\ \A o \in ParameterOffsets(f) : o \in Int /\ o < 0
         /\ \A u \in Fun(f).used : IsVariable(u)
         /\ \A v \in UNION Fun(f).ret : IsVariable(v)
<1>1. f # Indirect /\ InNumbers(Fun(f))
  BY FunctionsAreWellFormed DEF Functions, Fun
<1>2. \A o \in ParameterOffsets(f) : o \in Int /\ o < 0
  BY <1>1 DEF ParameterOffsets, InNumbers
<1> QED BY <1>1, <1>2 DEF InNumbers

LEMMA SiteIsPair ==
  ASSUME NEW s \in Sites
  PROVE  s[1] \in Functions /\ s[2] \in DOMAIN Fun(s[1]).calls
BY DEF Sites

LEMMA SiteVariables ==
  ASSUME program \in Programs, NEW s \in Sites, NEW v \in Call(s).read
  PROVE  IsVariable(v)
<1>1. s[1] \in Functions /\ s[2] \in DOMAIN Fun(s[1]).calls
  BY SiteIsPair
<1>2. InNumbers(Fun(s[1]))
  BY <1>1, FunctionsAreWellFormed DEF Functions, Fun
<1> QED BY <1>1, <1>2 DEF InNumbers, Call

\* A parameter that is used has a use with the lowest version.
LEMMA LowestExists ==
  ASSUME program \in Programs, NEW f \in Functions, NEW o,
         NEW u \in Fun(f).used, u[1] = o
  PROVE  FindLowestVersionOf(f, o) # {}
<1> DEFINE uses == {w \in Fun(f).used : w[1] = o}
           S    == {w[2] : w \in uses}
<1>1. S \subseteq Nat /\ S # {}
  BY Variables DEF IsVariable
<1>2. PICK m \in S : \A x \in S : m <= x
  <2> HIDE DEF S
  <2> QED BY <1>1, LeastExists
<1>3. PICK w \in uses : m = w[2]
  OBVIOUS
<1>4. w \in FindLowestVersionOf(f, o)
  BY <1>2, <1>3 DEF FindLowestVersionOf
<1> QED BY <1>4

LEMMA LinkedMember ==
  ASSUME NEW variables, NEW table, NEW k, NEW m
  PROVE  m \in Linked(variables, table, k) <=>
           \E v \in variables : \E e \in table : e[1] = v[1] - k /\ m = <<v, e[2]>>
<1>1. m \in Linked(variables, table, k) <=>
        \E v \in variables : m \in {v} \X Looked(table, v[1] - k)
  BY DEF Linked
<1>2. \A v : m \in {v} \X Looked(table, v[1] - k) <=>
               \E e \in table : e[1] = v[1] - k /\ m = <<v, e[2]>>
  BY DEF Looked
<1> QED BY <1>1, <1>2

LEMMA ReturnsMember ==
  ASSUME NEW f, NEW e
  PROVE  e \in ReturnWrites(f) <=>
           \E v \in UNION Fun(f).ret : v[1] < 0 /\ e = <<v[1], v>>
BY DEF ReturnWrites

\* The links of a call: variables of the caller and of the callee for one cell.
LEMMA ReturnLinks ==
  ASSUME program \in Programs, NEW s \in Sites, Call(s).target \in Functions,
         callees[Call(s).target] = CalleeOf(Call(s).target), NEW m
  PROVE  m \in SiteOf(s).returnMap <=>
           \E v \in Call(s).read : \E w \in UNION Fun(Call(s).target).ret :
             w[1] < 0 /\ v[1] = w[1] + Fun(Call(s).target).size /\ m = <<v, w>>
<1> DEFINE g == Call(s).target
           k == Fun(g).size
<1>1. k \in Int /\ g # Indirect
  BY Variables
<1>2. SiteOf(s).returnMap = Linked(Call(s).read, ReturnWrites(g), k)
  BY <1>1 DEF SiteOf, CalleeOf
<1>3. \A v \in Call(s).read : IsVariable(v)
  BY SiteVariables
<1>4. \A w \in UNION Fun(g).ret : IsVariable(w)
  BY Variables
<1> HIDE DEF k
<1>5. m \in Linked(Call(s).read, ReturnWrites(g), k) <=>
        \E v \in Call(s).read : \E e \in ReturnWrites(g) : e[1] = v[1] - k /\ m = <<v, e[2]>>
  BY LinkedMember
<1>6. ASSUME NEW v \in Call(s).read
      PROVE  (\E e \in ReturnWrites(g) : e[1] = v[1] - k /\ m = <<v, e[2]>>) <=>
             (\E w \in UNION Fun(g).ret : w[1] < 0 /\ v[1] = w[1] + k /\ m = <<v, w>>)
  <2> HIDE DEF g
  <2>1. v[1] \in Int /\ \A w \in UNION Fun(g).ret : w[1] \in Int
    BY <1>3, <1>4 DEF IsVariable
  <2>2. \A w \in UNION Fun(g).ret : w[1] = v[1] - k <=> v[1] = w[1] + k
    BY <1>1, <2>1
  <2>3. ASSUME NEW e \in ReturnWrites(g), e[1] = v[1] - k, m = <<v, e[2]>>
        PROVE  \E w \in UNION Fun(g).ret : w[1] < 0 /\ v[1] = w[1] + k /\ m = <<v, w>>
    <3>1. PICK w \in UNION Fun(g).ret : w[1] < 0 /\ e = <<w[1], w>>
      BY <2>3, ReturnsMember
    <3> QED BY <2>2, <2>3, <3>1
  <2>4. ASSUME NEW w \in UNION Fun(g).ret, w[1] < 0, v[1] = w[1] + k, m = <<v, w>>
        PROVE  \E e \in ReturnWrites(g) : e[1] = v[1] - k /\ m = <<v, e[2]>>
    <3>1. <<w[1], w>> \in ReturnWrites(g)
      BY <2>4, ReturnsMember
    <3> QED BY <2>2, <2>4, <3>1
  <2> QED BY <2>3, <2>4
<1> QED BY <1>2, <1>5, <1>6 DEF k

LEMMA LookedMember ==
  ASSUME NEW table, NEW key
  PROVE  Looked(table, key) # {} <=> \E e \in table : e[1] = key
BY DEF Looked
-----------------------------------------------------------------------------
(* The invariant.                                                          *)

\* The operators of a phase stay while what they read does.
LEMMA ProgramKept ==
  ASSUME program' = program
  PROVE  /\ Functions' = Functions /\ Sites' = Sites /\ (Complete <=> Complete')
         /\ \A f : CalleeOf(f)' = CalleeOf(f) /\ CallersOf(f)' = CallersOf(f)
         /\ \A s : Call(s)' = Call(s)
<1>1. Functions' = Functions
  BY DEF Functions
<1>2. \A f : Fun(f)' = Fun(f)
  BY DEF Fun
<1>3. Sites' = Sites /\ \A s : Call(s)' = Call(s)
  BY <1>1, <1>2 DEF Sites, Call
<1>4. \A f : CallersOf(f)' = CallersOf(f)
  BY <1>3 DEF CallersOf
<1>5. \A f, o : ParameterOffsets(f)' = ParameterOffsets(f)
                /\ FindLowestVersionOf(f, o)' = FindLowestVersionOf(f, o)
  BY <1>2 DEF ParameterOffsets, FindLowestVersionOf
<1>6. \A f : CalleeOf(f)' = CalleeOf(f)
  <2>1. \A f : ReturnWrites(f)' = ReturnWrites(f)
    BY <1>2 DEF ReturnWrites
  <2>2. \A f : ParameterEntryVars(f)' = ParameterEntryVars(f)
    BY <1>2, <1>5 DEF ParameterEntryVars
  <2> QED BY <2>1, <2>2 DEF CalleeOf
<1>7. Complete <=> Complete'
  BY <1>1, <1>2, <1>3, <1>5 DEF Complete
<1> QED BY <1>1, <1>3, <1>4, <1>6, <1>7

LEMMA SiteKept ==
  ASSUME program' = program, callees' = callees
  PROVE  \A s : SiteOf(s)' = SiteOf(s)
<1>1. \A s : Call(s)' = Call(s)
  BY ProgramKept
<1>2. \A s : Written(s)' = Written(s)
  BY <1>1 DEF Written
<1> QED BY <1>1, <1>2 DEF SiteOf, Fun

LEMMA AskKept ==
  ASSUME program' = program, sites' = sites
  PROVE  \A f : /\ EffectiveReturnValues(f)' = EffectiveReturnValues(f)
                /\ (\A s \in CallersOf(f) : Answered(s)) <=> (\A s \in CallersOf(f) : Answered(s))'
<1>1. /\ \A s : Call(s)' = Call(s)
      /\ \A f : CallersOf(f)' = CallersOf(f)
  BY ProgramKept
<1>2. \A s : Answered(s)' <=> Answered(s)
  BY <1>1 DEF Answered
<1> QED BY <1>1, <1>2 DEF EffectiveReturnValues

LEMMA CalleeStep ==
  ASSUME CallsInv, NEW f \in Functions, AnalyzeCallee(f)
  PROVE  CallsInv'
<1>1. program' = program /\ sites' = sites /\ effective' = effective /\ calls = "callees"
  BY DEF AnalyzeCallee
<1>2. /\ Functions' = Functions /\ (Complete <=> Complete')
      /\ \A g : CalleeOf(g)' = CalleeOf(g)
  BY <1>1, ProgramKept
<1>3. DOMAIN sites = {} /\ DOMAIN effective = {}
  BY <1>1 DEF CallsInv, SitesRight, AskedRight
<1>4. CASE \E o \in ParameterOffsets(f) : FindLowestVersionOf(f, o) = {}
  <2>1. calls' = "panic" /\ callees' = callees
    BY <1>4 DEF AnalyzeCallee
  <2>2. ~Complete
    BY <1>4, LowestExists DEF CallsInv, Complete
  <2>3. CalleesRight' /\ PanicHasReason'
    BY <1>2, <2>1, <2>2 DEF CallsInv, CalleesRight, PanicHasReason
  <2>4. SitesRight' /\ AskedRight'
    BY <1>1, <1>3, <2>1 DEF SitesRight, AskedRight
  <2> QED BY <1>1, <2>1, <2>3, <2>4 DEF CallsInv
<1>5. CASE ~ \E o \in ParameterOffsets(f) : FindLowestVersionOf(f, o) = {}
  <2>1. /\ callees' = Merge(callees, f, CalleeOf(f))
        /\ calls' = IF DOMAIN callees' = Functions THEN "sites" ELSE calls
    BY <1>5 DEF AnalyzeCallee, CalleeOf
  <2>2. \A g \in DOMAIN callees' : g \in Functions /\ callees'[g] = CalleeOf(g)
    BY <2>1 DEF Merge, CallsInv, CalleesRight
  <2>3. CalleesRight' /\ PanicHasReason'
    BY <1>1, <1>2, <2>1, <2>2 DEF CalleesRight, PanicHasReason
  <2>4. SitesRight' /\ AskedRight'
    BY <1>1, <1>3, <2>1 DEF SitesRight, AskedRight
  <2> QED BY <1>1, <2>1, <2>3, <2>4 DEF CallsInv
<1> QED BY <1>4, <1>5

LEMMA SiteStep ==
  ASSUME CallsInv, NEW s \in Sites, AnalyzeSite(s)
  PROVE  CallsInv'
<1>1. program' = program /\ callees' = callees /\ effective' = effective /\ calls = "sites"
  BY DEF AnalyzeSite
<1>2. /\ Functions' = Functions /\ Sites' = Sites /\ (Complete <=> Complete')
      /\ (\A g : CalleeOf(g)' = CalleeOf(g)) /\ (\A t : SiteOf(t)' = SiteOf(t) /\ Call(t)' = Call(t))
  BY <1>1, ProgramKept, SiteKept
<1>3. DOMAIN effective = {}
  BY <1>1 DEF CallsInv, AskedRight
<1>4. calls' \in {"sites", "panic"}
  BY <1>1 DEF AnalyzeSite
<1>5. CalleesRight' /\ AskedRight'
  BY <1>1, <1>2, <1>3, <1>4 DEF CallsInv, CalleesRight, AskedRight
<1>6. SitesRight'
  <2>1. \A t \in DOMAIN sites' :
          t \in Sites /\ sites'[t] = SiteOf(t) /\ Call(t).target \in Functions \cup {Indirect}
    BY DEF AnalyzeSite, Merge, CallsInv, SitesRight
  <2>2. \A t : Call(t)' = Call(t)
    BY <1>1, ProgramKept
  <2> QED BY <1>2, <1>4, <2>1, <2>2 DEF SitesRight
<1>7. PanicHasReason'
  BY <1>1, <1>2 DEF AnalyzeSite, PanicHasReason, Complete
<1> QED BY <1>1, <1>4, <1>5, <1>6, <1>7 DEF CallsInv

LEMMA SitesDoneStep ==
  ASSUME CallsInv, SitesDone
  PROVE  CallsInv'
<1>1. /\ program' = program /\ callees' = callees /\ sites' = sites /\ effective' = effective
      /\ calls = "sites" /\ calls' = "ask" /\ DOMAIN sites = Sites
  BY DEF SitesDone
<1>2. /\ Functions' = Functions /\ Sites' = Sites
      /\ (\A g : CalleeOf(g)' = CalleeOf(g)) /\ (\A t : SiteOf(t)' = SiteOf(t) /\ Call(t)' = Call(t))
  BY <1>1, ProgramKept, SiteKept
<1>3. CalleesRight' /\ SitesRight'
  BY <1>1, <1>2 DEF CallsInv, CalleesRight, SitesRight
<1>4. AskedRight' /\ PanicHasReason'
  BY <1>1 DEF CallsInv, AskedRight, PanicHasReason
<1> QED BY <1>1, <1>3, <1>4 DEF CallsInv

\* In a complete program every read is linked.
LEMMA CompleteAnswers ==
  ASSUME CallsInv, calls = "ask", Complete, NEW s \in Sites
  PROVE  Answered(s)
<1>1. /\ program \in Programs /\ Call(s).target \in Functions /\ sites[s] = SiteOf(s)
      /\ callees[Call(s).target] = CalleeOf(Call(s).target)
  BY DEF CallsInv, CalleesRight, SitesRight, Complete
<1>2. ASSUME NEW v \in Call(s).read PROVE Looked(sites[s].returnMap, v) # {}
  <2>1. PICK w \in UNION Fun(Call(s).target).ret :
          w[1] < 0 /\ w[1] + Fun(Call(s).target).size = v[1]
    BY DEF Complete
  <2>2. <<v, w>> \in SiteOf(s).returnMap
    BY <1>1, <2>1, ReturnLinks
  <2> QED BY <1>1, <2>2, LookedMember
<1> QED BY <1>2 DEF Answered

LEMMA AskStep ==
  ASSUME CallsInv, NEW f \in Functions, Ask(f)
  PROVE  CallsInv'
<1>1. program' = program /\ callees' = callees /\ sites' = sites /\ calls = "ask"
  BY DEF Ask
<1>2. /\ Functions' = Functions /\ Sites' = Sites /\ (Complete <=> Complete')
      /\ (\A g : CalleeOf(g)' = CalleeOf(g)) /\ (\A t : SiteOf(t)' = SiteOf(t) /\ Call(t)' = Call(t))
  BY <1>1, ProgramKept, SiteKept
<1>3. calls' \in {"ask", "done", "panic"}
  BY <1>1 DEF Ask
<1>4. CalleesRight' /\ SitesRight'
  BY <1>1, <1>2, <1>3 DEF CallsInv, CalleesRight, SitesRight
<1>5. AskedRight'
  <2>1. \A g \in DOMAIN effective' :
          /\ g \in Functions /\ effective'[g] = EffectiveReturnValues(g)
          /\ \A s \in CallersOf(g) : Answered(s)
    BY DEF Ask, Merge, CallsInv, AskedRight
  <2>2. \A g \in DOMAIN effective' : effective'[g] = EffectiveReturnValues(g)'
                                     /\ (\A s \in CallersOf(g) : Answered(s))'
    BY <1>1, <2>1, AskKept
  <2>3. calls' = "done" => DOMAIN effective' = Functions
    BY <1>1 DEF Ask
  <2> QED BY <1>2, <1>3, <2>1, <2>2, <2>3 DEF AskedRight
<1>6. PanicHasReason'
  <2>1. calls' = "panic" => \E s \in CallersOf(f) : ~Answered(s)
    BY <1>1 DEF Ask
  <2>2. CallersOf(f) \subseteq Sites
    BY DEF CallersOf
  <2> QED BY <1>1, <1>2, <2>1, <2>2, CompleteAnswers DEF PanicHasReason
<1> QED BY <1>1, <1>3, <1>4, <1>5, <1>6 DEF CallsInv

LEMMA CallsStutter ==
  ASSUME CallsInv, UNCHANGED callVars
  PROVE  CallsInv'
<1>1. /\ program' = program /\ callees' = callees /\ sites' = sites
      /\ effective' = effective /\ calls' = calls
  BY DEF callVars
<1>2. /\ Functions' = Functions /\ Sites' = Sites /\ (Complete <=> Complete')
      /\ (\A g : CalleeOf(g)' = CalleeOf(g)) /\ (\A t : SiteOf(t)' = SiteOf(t) /\ Call(t)' = Call(t))
  BY <1>1, ProgramKept, SiteKept
<1>3. CalleesRight' /\ SitesRight' /\ PanicHasReason'
  BY <1>1, <1>2 DEF CallsInv, CalleesRight, SitesRight, PanicHasReason
<1>4. AskedRight'
  <2>1. \A g \in DOMAIN effective : effective[g] = EffectiveReturnValues(g)'
                                    /\ (\A s \in CallersOf(g) : Answered(s))'
    BY <1>1, AskKept DEF CallsInv, AskedRight
  <2> QED BY <1>1, <1>2, <2>1 DEF CallsInv, AskedRight
<1> QED BY <1>1, <1>3, <1>4 DEF CallsInv

LEMMA CallsInvInit == CallsInit => CallsInv
BY DEF CallsInit, CallsInv, CalleesRight, SitesRight, AskedRight, PanicHasReason

\* Every entry of the maps is what its own function or call site gives, in every
\* reachable state and for every order of the analysis.
THEOREM CallsInvAlways == CallsSpec => []CallsInv
<1>1. ASSUME CallsInv, [CallsNext]_callVars PROVE CallsInv'
  <2>1. CASE \E f \in Functions : AnalyzeCallee(f) \/ Ask(f)
    BY <1>1, <2>1, CalleeStep, AskStep
  <2>2. CASE \E s \in Sites : AnalyzeSite(s)
    BY <1>1, <2>2, SiteStep
  <2>3. CASE SitesDone
    BY <1>1, <2>3, SitesDoneStep
  <2>4. CASE UNCHANGED callVars
    BY <1>1, <2>4, CallsStutter
  <2> QED BY <1>1, <2>1, <2>2, <2>3, <2>4 DEF CallsNext
<1> QED BY CallsInvInit, <1>1, PTL DEF CallsSpec
-----------------------------------------------------------------------------
(* What the analysis finds.                                                *)

LEMMA CallsInvLinks == CallsInv => ReturnsLinked
<1> SUFFICES ASSUME CallsInv, calls = "done"
             PROVE  /\ \A s \in Sites : Call(s).target # Indirect =>
                       /\ \A v \in Call(s).read : \E m \in sites[s].returnMap : m[1] = v
                       /\ \A m \in sites[s].returnMap :
                            /\ m[2] \in UNION Fun(Call(s).target).ret
                            /\ m[1][1] = m[2][1] + Fun(Call(s).target).size
                    /\ \A f \in Functions : {e[1] : e \in effective[f]} =
                         {v[1] : v \in UNION {Call(s).read : s \in CallersOf(f)}}
  BY DEF ReturnsLinked, CallsInv, PanicHasReason
<1>1. /\ program \in Programs /\ DOMAIN callees = Functions
      /\ \A f \in Functions : callees[f] = CalleeOf(f)
      /\ \A s \in Sites : sites[s] = SiteOf(s) /\ Call(s).target \in Functions \cup {Indirect}
      /\ \A f \in Functions : /\ effective[f] = EffectiveReturnValues(f)
                              /\ \A s \in CallersOf(f) : Answered(s)
  BY DEF CallsInv, CalleesRight, SitesRight, AskedRight
<1>2. ASSUME NEW s \in Sites, Call(s).target # Indirect
      PROVE  /\ \A v \in Call(s).read : \E m \in sites[s].returnMap : m[1] = v
             /\ \A m \in sites[s].returnMap :
                  /\ m[2] \in UNION Fun(Call(s).target).ret
                  /\ m[1][1] = m[2][1] + Fun(Call(s).target).size
  <2>1. CASE Call(s).target \in Functions
    <3>1. Answered(s)
      BY <1>1, <2>1 DEF CallersOf
    <3>2. \A v \in Call(s).read : \E m \in sites[s].returnMap : m[1] = v
      BY <3>1, LookedMember DEF Answered
    <3>3. ASSUME NEW m \in sites[s].returnMap
          PROVE  /\ m[2] \in UNION Fun(Call(s).target).ret
                 /\ m[1][1] = m[2][1] + Fun(Call(s).target).size
      <4>1. PICK v \in Call(s).read : \E w \in UNION Fun(Call(s).target).ret :
              w[1] < 0 /\ v[1] = w[1] + Fun(Call(s).target).size /\ m = <<v, w>>
        BY <1>1, <2>1, ReturnLinks
      <4> QED BY <4>1
    <3> QED BY <3>2, <3>3
  <2>2. CASE Call(s).target \notin Functions
    BY <1>1, <1>2, <2>2
  <2> QED BY <2>1, <2>2
<1>3. ASSUME NEW f \in Functions
      PROVE  {e[1] : e \in effective[f]} = {v[1] : v \in UNION {Call(s).read : s \in CallersOf(f)}}
  <2>1. \A e : e \in effective[f] <=>
          \E s \in CallersOf(f) : \E v \in Call(s).read :
            e \in {v[1]} \X Looked(sites[s].returnMap, v)
    BY <1>1 DEF EffectiveReturnValues
  <2>2. ASSUME NEW e \in effective[f]
        PROVE  \E s \in CallersOf(f) : \E v \in Call(s).read : e[1] = v[1]
    BY <2>1
  <2>3. ASSUME NEW s \in CallersOf(f), NEW v \in Call(s).read
        PROVE  \E e \in effective[f] : e[1] = v[1]
    <3>1. PICK x \in Looked(sites[s].returnMap, v) : TRUE
      BY <1>1 DEF Answered
    <3>2. <<v[1], x>> \in effective[f]
      BY <2>1, <3>1
    <3> QED BY <3>2
  <2> QED BY <2>2, <2>3
<1> QED BY <1>2, <1>3

\* The variable of a parameter is the value at entry.
LEMMA LowestIsEntry ==
  ASSUME program \in Programs, NEW f \in Functions, NEW o,
         <<o, 0>> \in Fun(f).used, NEW u \in FindLowestVersionOf(f, o)
  PROVE  u = <<o, 0>>
<1>1. u \in Fun(f).used /\ u[1] = o /\ u[2] <= 0
  BY DEF FindLowestVersionOf
<1>2. u \in Int \X Nat
  BY <1>1, Variables DEF IsVariable
<1> QED BY <1>1, <1>2

\* A function that was analyzed has a use of each of its parameters.
AllFound ==
  \A f \in DOMAIN callees : \A o \in ParameterOffsets(f) : FindLowestVersionOf(f, o) # {}

LEMMA AllFoundStep == AllFound /\ [CallsNext]_callVars => AllFound'
<1> SUFFICES ASSUME AllFound, [CallsNext]_callVars PROVE AllFound'
  OBVIOUS
<1>1. program' = program
  BY DEF CallsNext, callVars, AnalyzeCallee, Ask, AnalyzeSite, SitesDone
<1>2. \A f, o : ParameterOffsets(f)' = ParameterOffsets(f)
                /\ FindLowestVersionOf(f, o)' = FindLowestVersionOf(f, o)
  BY <1>1 DEF ParameterOffsets, FindLowestVersionOf, Fun
<1>3. CASE callees' = callees
  BY <1>2, <1>3 DEF AllFound
<1>4. ASSUME NEW f \in Functions, AnalyzeCallee(f), callees' # callees PROVE AllFound'
  <2>1. /\ DOMAIN callees' = (DOMAIN callees) \cup {f}
        /\ \A o \in ParameterOffsets(f) : FindLowestVersionOf(f, o) # {}
    BY <1>4 DEF AnalyzeCallee, Merge
  <2> QED BY <1>2, <2>1 DEF AllFound
<1> QED BY <1>3, <1>4 DEF CallsNext, callVars, Ask, AnalyzeSite, SitesDone

LEMMA ParameterMember ==
  ASSUME NEW f, NEW p
  PROVE  p \in ParameterEntryVars(f) <=>
           \E o \in ParameterOffsets(f) : \E u \in FindLowestVersionOf(f, o) : p = <<o + Fun(f).size, u>>
<1>1. p \in ParameterEntryVars(f) <=>
        \E o \in ParameterOffsets(f) : p \in {o + Fun(f).size} \X FindLowestVersionOf(f, o)
  BY DEF ParameterEntryVars
<1> QED BY <1>1

\* Two uses of a cell with the lowest version are one variable.
LEMMA LowestIsOne ==
  ASSUME program \in Programs, NEW f \in Functions, NEW o,
         NEW u \in FindLowestVersionOf(f, o), NEW w \in FindLowestVersionOf(f, o)
  PROVE  u = w
<1>1. u \in Fun(f).used /\ w \in Fun(f).used /\ u[1] = o /\ w[1] = o /\ u[2] <= w[2] /\ w[2] <= u[2]
  BY DEF FindLowestVersionOf
<1>2. u \in Int \X Nat /\ w \in Int \X Nat
  BY <1>1, Variables DEF IsVariable
<1> QED BY <1>1, <1>2

LEMMA CallsInvParameters ==
  ASSUME CallsInv, AllFound
  PROVE  ParametersFound
<1> SUFFICES ASSUME calls = "done", NEW f \in Functions
             PROVE  LET ps == callees[f].parameters
                        Cell(p) == p[1] - Fun(f).size
                    IN  /\ {Cell(p) : p \in ps} = ParameterOffsets(f)
                        /\ \A p, q \in ps : p[1] = q[1] => p = q
                        /\ \A p \in ps :
                             /\ p[2] \in Fun(f).used /\ p[2][1] = Cell(p)
                             /\ <<Cell(p), 0>> \in Fun(f).used => p[2] = <<Cell(p), 0>>
  BY DEF ParametersFound
<1> DEFINE ps == callees[f].parameters
           k  == Fun(f).size
<1>1. program \in Programs /\ ps = ParameterEntryVars(f) /\ f \in DOMAIN callees
  BY DEF CallsInv, CalleesRight, CalleeOf
<1>2. k \in Int /\ \A o \in ParameterOffsets(f) : o \in Int /\ (o + k) - k = o
  <2>1. k \in Int /\ \A o \in ParameterOffsets(f) : o \in Int
    BY <1>1, Variables
  <2> QED BY <2>1
<1> HIDE DEF ps, k
<1>3. \A p : p \in ps <=> \E o \in ParameterOffsets(f) : \E u \in FindLowestVersionOf(f, o) : p = <<o + k, u>>
  BY <1>1, ParameterMember DEF k
<1>4. \A p \in ps : p[1] - k \in ParameterOffsets(f) /\ p[2] \in FindLowestVersionOf(f, p[1] - k)
                     /\ p = <<p[1], p[2]>>
  BY <1>2, <1>3
<1>5. \A o \in ParameterOffsets(f) : \E p \in ps : p[1] - k = o
  <2> SUFFICES ASSUME NEW o \in ParameterOffsets(f) PROVE \E p \in ps : p[1] - k = o
    OBVIOUS
  <2>1. PICK u \in FindLowestVersionOf(f, o) : TRUE
    BY <1>1 DEF AllFound
  <2>2. <<o + k, u>> \in ps /\ <<o + k, u>>[1] - k = o
    BY <1>2, <1>3, <2>1
  <2> QED BY <2>2
<1>6. {p[1] - k : p \in ps} = ParameterOffsets(f)
  BY <1>4, <1>5
<1>7. ASSUME NEW p \in ps, NEW q \in ps, p[1] = q[1] PROVE p = q
  BY <1>1, <1>4, <1>7, LowestIsOne
<1>8. ASSUME NEW p \in ps
      PROVE  /\ p[2] \in Fun(f).used /\ p[2][1] = p[1] - k
             /\ <<p[1] - k, 0>> \in Fun(f).used => p[2] = <<p[1] - k, 0>>
  <2>1. p[2] \in Fun(f).used /\ p[2][1] = p[1] - k
    BY <1>4 DEF FindLowestVersionOf
  <2> QED BY <1>1, <1>4, <2>1, LowestIsEntry
<1> QED BY <1>6, <1>7, <1>8 DEF ps, k

\* A read after a call is linked to what the callee left in that cell, the results
\* of a function are the cells its callers read, and the analysis stops only for a
\* program that misses a use, a function or a result: for every program, whatever
\* order its functions and call sites come in.
THEOREM ReturnsAlwaysLinked == CallsSpec => []ReturnsLinked
BY CallsInvAlways, CallsInvLinks, PTL

\* The parameters of a function are the cells of its callers that it takes a value
\* from, one variable for each: the value at entry wherever the function uses it,
\* whichever of its blocks the search for the lowest version comes to first.
THEOREM ParametersAlwaysFound == CallsSpec => []ParametersFound
<1>1. CallsInit => AllFound
  BY DEF CallsInit, AllFound
<1>2. CallsInv /\ AllFound => ParametersFound
  BY CallsInvParameters
<1> QED BY CallsInvAlways, <1>1, <1>2, AllFoundStep, PTL DEF CallsSpec
=============================================================================
