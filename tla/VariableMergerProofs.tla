------------------------- MODULE VariableMergerProofs -------------------------
(***************************************************************************)
(* Proofs about VariableMerger, for any programs that are well formed.     *)
(*                                                                         *)
(* What the calls to the disjoint set do is taken from the lemmas of       *)
(* DisjointSetProofs and put here as facts about classes: a call merges the *)
(* classes of two variables.  A merge of two variables that a link joins   *)
(* keeps every class connected and of one kind; the rest of the proof says *)
(* that each loop of build_clusters merges such pairs only, leaves none    *)
(* out, and never holds an identifier that a merge retired.                *)
(***************************************************************************)
EXTENDS VariableMerger, TLAPS

AllVars == UNION {p.vars : p \in Programs}

D == INSTANCE DisjointSetProofs
       WITH Elements <- AllVars, ds <- ds, held <- {}, last <- NoSet

Good(d)           == D!WellFormed(d)
Merged(cs, x, y)  == D!Abstract!United(cs, {x, y})
Same(d, u, v)     == \E C \in Classes(d) : u \in C /\ v \in C

-----------------------------------------------------------------------------
(* The calls to the disjoint set.                                          *)

LEMMA SameOperators ==
  ASSUME NEW d, NEW a, NEW b
  PROVE  /\ D!Live(d) = Live(d) /\ D!Elems(d) = Elems(d) /\ D!Classes(d) = Classes(d)
         /\ D!Insert(d, a) = Insert(d, a)
         /\ D!JoinSets(d, a, b) = JoinSets(d, a, b)
         /\ D!InsertJoin(d, a, b) = InsertJoin(d, a, b)
<1>1. D!Live(d) = Live(d) /\ D!Elems(d) = Elems(d) /\ D!Classes(d) = Classes(d)
  BY DEF D!Live, Live, D!Elems, Elems, D!Classes, Classes
<1>2. D!Insert(d, a) = Insert(d, a)
  BY DEF D!Live, Live, D!Elems, Elems, D!Insert, Insert, D!Known, Known, D!Fresh, Fresh,
         D!Result, Result, D!Store, Store, D!Assign, Assign
<1>3. D!JoinSets(d, a, b) = JoinSets(d, a, b)
  BY DEF D!Live, Live, D!Elems, Elems, D!JoinSets, JoinSets, D!Fresh, Fresh,
         D!Result, Result, D!Store, Store, D!Assign, Assign
<1>4. D!InsertJoin(d, a, b) = InsertJoin(d, a, b)
  BY DEF D!Live, Live, D!Elems, Elems, D!InsertJoin, InsertJoin, D!JoinSets, JoinSets,
         D!Known, Known, D!Fresh, Fresh, D!Result, Result, D!Store, Store, D!Assign, Assign
<1> QED BY <1>1, <1>2, <1>3, <1>4

LEMMA SameJoin ==
  ASSUME NEW d, NEW a, NEW b
  PROVE  D!Join(d, a, b) = Join(d, a, b)
<1>1. D!Known(d, a) = Known(d, a)
  BY DEF D!Known, Known, D!Elems, Elems
<1>2. D!InsertJoin(d, d.element_to_set[a], b) = InsertJoin(d, d.element_to_set[a], b)
  BY SameOperators
<1>3. D!Insert(d, a) = Insert(d, a) /\ D!Insert(Insert(d, a).ds, b) = Insert(Insert(d, a).ds, b)
  BY SameOperators
<1>4. \A e, i, j : D!JoinSets(e, i, j) = JoinSets(e, i, j)
  BY SameOperators
<1> QED BY <1>1, <1>2, <1>3, <1>4 DEF D!Join, Join

\* What a well formed disjoint set is, in the terms of this module.
LEMMA GoodMeans ==
  ASSUME NEW d, Good(d)
  PROVE  /\ \A e \in Elems(d) : d.element_to_set[e] \in Live(d)
         /\ \A i \in Live(d) :
              d.sets[i] # {} /\ d.sets[i] = {e \in Elems(d) : d.element_to_set[e] = i}
         /\ \A i \in Live(d) : d.sets[i] \subseteq AllVars
         /\ Live(d) \subseteq Nat
BY DEF Good, D!WellFormed, D!Live, Live, D!Elems, Elems

\* The set that holds a variable is unique.
LEMMA OneSet ==
  ASSUME NEW d, Good(d), NEW i \in Live(d), NEW j \in Live(d), NEW e \in d.sets[i], e \in d.sets[j]
  PROVE  i = j
BY GoodMeans

LEMMA ClassesDisjoint ==
  ASSUME NEW d, Good(d), NEW C \in Classes(d), NEW E \in Classes(d), C \cap E # {}
  PROVE  C = E
BY OneSet DEF Classes

LEMMA InsertCall ==
  ASSUME NEW d, Good(d), NEW e \in AllVars
  PROVE  LET r == Insert(d, e)
         IN  /\ Good(r.ds) /\ r.id \in Live(r.ds) /\ e \in r.ds.sets[r.id]
             /\ Classes(r.ds) = Merged(Classes(d), e, e)
             /\ \A i \in Live(d) : i \in Live(r.ds) /\ r.ds.sets[i] = d.sets[i]
<1>1. D!GoodCall(d, Insert(d, e)) /\ e \in Insert(d, e).ds.sets[Insert(d, e).id]
  BY D!InsertGood, SameOperators DEF Good
<1>2. Classes(Insert(d, e).ds) = Merged(Classes(d), e, e)
  BY D!InsertUnites, SameOperators DEF Good, D!Unites, Merged
<1>3. \A i \in Live(d) : i \in Live(Insert(d, e).ds) /\ Insert(d, e).ds.sets[i] = d.sets[i]
  <2>1. d.next_id \notin Live(d)
    BY DEF Good, D!WellFormed, D!Live, Live
  <2> QED BY <2>1 DEF Insert, Fresh, Result, Store, Live
<1> QED BY <1>1, <1>2, <1>3, SameOperators DEF D!GoodCall, Good

LEMMA InsertJoinCall ==
  ASSUME NEW d, Good(d), NEW id \in Live(d), NEW e \in AllVars, NEW x \in d.sets[id]
  PROVE  LET r == InsertJoin(d, id, e)
         IN  /\ Good(r.ds) /\ r.id \in Live(r.ds)
             /\ e \in r.ds.sets[r.id] /\ d.sets[id] \subseteq r.ds.sets[r.id]
             /\ Classes(r.ds) = Merged(Classes(d), x, e)
             /\ \A i \in Live(d) \ {id} : e \notin d.sets[i] =>
                  i \in Live(r.ds) /\ r.ds.sets[i] = d.sets[i]
<1> DEFINE r == InsertJoin(d, id, e)
<1> SUFFICES /\ Good(r.ds) /\ r.id \in Live(r.ds)
             /\ e \in r.ds.sets[r.id] /\ d.sets[id] \subseteq r.ds.sets[r.id]
             /\ Classes(r.ds) = Merged(Classes(d), x, e)
             /\ \A i \in Live(d) \ {id} : e \notin d.sets[i] =>
                  i \in Live(r.ds) /\ r.ds.sets[i] = d.sets[i]
  OBVIOUS
<1>1. D!GoodCall(d, r)
  BY D!InsertJoinGood, SameOperators DEF Good
<1>2. Classes(r.ds) = Merged(Classes(d), x, e)
  BY D!InsertJoinUnites, SameOperators DEF Good, D!Unites, Merged
<1>3. d.next_id \notin Live(d)
  BY DEF Good, D!WellFormed, D!Live, Live
<1>4. CASE Known(d, e)
  <2> DEFINE j == d.element_to_set[e]
  <2>1. j \in Live(d) /\ e \in d.sets[j]
    BY <1>4, GoodMeans DEF Known
  <2>2. CASE id = j
    BY <1>1, <1>2, <1>4, <2>1, <2>2, SameOperators DEF InsertJoin, JoinSets, Result, Good, D!GoodCall
  <2>3. CASE id # j
    <3>1. r = Fresh(d, {id, j}, d.sets[id] \cup d.sets[j])
      BY <1>4, <2>3 DEF InsertJoin, JoinSets
    <3>2. /\ r.id = d.next_id /\ r.ds.sets[d.next_id] = d.sets[id] \cup d.sets[j]
          /\ \A i \in Live(d) \ {id, j} : i \in Live(r.ds) /\ r.ds.sets[i] = d.sets[i]
      BY <3>1, <1>3 DEF Fresh, Result, Store, Live
    <3> HIDE DEF r
    <3> QED BY <1>1, <1>2, <2>1, <3>2, SameOperators DEF Good, D!GoodCall
  <2> QED BY <2>2, <2>3
<1>5. CASE ~Known(d, e)
  <2>1. /\ r.id = id /\ r.ds.sets[id] = d.sets[id] \cup {e}
        /\ \A i \in Live(d) \ {id} : i \in Live(r.ds) /\ r.ds.sets[i] = d.sets[i]
    BY <1>5 DEF InsertJoin, Result, Store, Live
  <2> HIDE DEF r
  <2> QED BY <1>1, <1>2, <2>1, SameOperators DEF Good, D!GoodCall
<1> QED BY <1>4, <1>5

\* join of two variables that have sets: the sets of others stay.
LEMMA JoinCall ==
  ASSUME NEW d, Good(d), NEW t \in AllVars, NEW u \in AllVars
  PROVE  LET r == Join(d, t, u)
         IN  /\ Good(r.ds)
             /\ Classes(r.ds) = Merged(Classes(d), t, u)
             /\ \A i \in Live(d) : t \notin d.sets[i] /\ u \notin d.sets[i] =>
                  i \in Live(r.ds) /\ r.ds.sets[i] = d.sets[i]
             /\ \A i \in Live(d) : t \in d.sets[i] /\ u \in d.sets[i] => r.ds = d
<1> DEFINE r == Join(d, t, u)
<1>1. D!GoodCall(d, r)
  BY D!JoinGood, SameJoin DEF Good
<1>2. Classes(r.ds) = Merged(Classes(d), t, u)
  BY D!JoinUnites, SameOperators, SameJoin DEF Good, D!Unites, Merged
<1>3. \A i \in Live(d) : t \notin d.sets[i] /\ u \notin d.sets[i] =>
        i \in Live(r.ds) /\ r.ds.sets[i] = d.sets[i]
  <2> SUFFICES ASSUME NEW i \in Live(d), t \notin d.sets[i], u \notin d.sets[i]
               PROVE  i \in Live(r.ds) /\ r.ds.sets[i] = d.sets[i]
    OBVIOUS
  <2>1. CASE Known(d, t)
    <3> DEFINE k == d.element_to_set[t]
    <3>1. k \in Live(d) /\ t \in d.sets[k] /\ r = InsertJoin(d, k, u)
      BY <2>1, GoodMeans DEF Known, Join
    <3> HIDE DEF k, r
    <3> QED BY <3>1, InsertJoinCall
  <2>2. CASE ~Known(d, t)
    <3> DEFINE r1 == Insert(d, t)
               r2 == Insert(r1.ds, u)
    <3>1. /\ Good(r1.ds) /\ r1.id \in Live(r1.ds) /\ t \in r1.ds.sets[r1.id]
          /\ i \in Live(r1.ds) /\ r1.ds.sets[i] = d.sets[i]
      BY InsertCall
    <3>2. /\ Good(r2.ds) /\ r2.id \in Live(r2.ds) /\ u \in r2.ds.sets[r2.id]
          /\ i \in Live(r2.ds) /\ r2.ds.sets[i] = d.sets[i]
          /\ r1.id \in Live(r2.ds) /\ r2.ds.sets[r1.id] = r1.ds.sets[r1.id]
      <4> HIDE DEF r1
      <4> QED BY <3>1, InsertCall
    <3>3. i # r1.id /\ i # r2.id
      <4> HIDE DEF r1, r2
      <4> QED BY <3>1, <3>2
    <3>4. r2.ds.next_id \notin Live(r2.ds)
      BY <3>2 DEF Good, D!WellFormed, D!Live, Live
    <3>5. r = JoinSets(r2.ds, r1.id, r2.id)
      BY <2>2 DEF Join
    <3> HIDE DEF r, r1, r2
    <3> QED BY <3>2, <3>3, <3>4, <3>5 DEF JoinSets, Result, Fresh, Store, Live
  <2> QED BY <2>1, <2>2
<1>4. ASSUME NEW i \in Live(d), t \in d.sets[i], u \in d.sets[i]
      PROVE  r.ds = d
  <2>1. Known(d, t) /\ Known(d, u) /\ d.element_to_set[t] = i /\ d.element_to_set[u] = i
    BY <1>4, GoodMeans DEF Known
  <2> QED BY <2>1 DEF Join, InsertJoin, JoinSets, Result
<1> QED BY <1>1, <1>2, <1>3, <1>4 DEF D!GoodCall, Good

-----------------------------------------------------------------------------
(* Merging two classes.                                                    *)

Homogeneous(C) == \A u, v \in C : u.kind = v.kind /\ (u.fn = v.fn \/ IsMemory(u))

\* No proper part of C can be split off without cutting a link.
Crosses(L, C, S) == \E l \in L : l[1] \in C /\ l[2] \in C /\ ~(l[1] \in S <=> l[2] \in S)
Connected(L, C)  == \A S \in (SUBSET C) \ {{}, C} : Crosses(L, C, S)

Sound(L, C) == Homogeneous(C) /\ Connected(L, C)

\* Two variables that may be merged.
Joinable(L, x, y) ==
  /\ x.kind = y.kind /\ (x.fn = y.fn \/ IsMemory(x))
  /\ x = y \/ <<x, y>> \in L \/ <<y, x>> \in L

\* The class of x, be it new.
ClassOf(cs, x) == (UNION {C \in cs : x \in C}) \cup {x}

LEMMA ClassOfMembers ==
  ASSUME NEW cs, NEW x, NEW z
  PROVE  z \in ClassOf(cs, x) <=> z = x \/ \E C \in cs : x \in C /\ z \in C
BY DEF ClassOf

LEMMA MergedClasses ==
  ASSUME NEW cs, NEW x, NEW y
  PROVE  /\ \A C \in Merged(cs, x, y) : C \in cs \/ C = ClassOf(cs, x) \cup ClassOf(cs, y)
         /\ ClassOf(cs, x) \cup ClassOf(cs, y) \in Merged(cs, x, y)
         /\ \A C \in cs : x \notin C /\ y \notin C => C \in Merged(cs, x, y)
<1> DEFINE touched == {C \in cs : C \cap {x, y} # {}}
<1>1. (UNION touched) \cup {x, y} = ClassOf(cs, x) \cup ClassOf(cs, y)
  <2>1. \A z : z \in UNION touched <=> \E C \in cs : z \in C /\ (x \in C \/ y \in C)
    OBVIOUS
  <2> HIDE DEF touched
  <2>2. \A z : z \in (UNION touched) \cup {x, y} <=> z \in ClassOf(cs, x) \cup ClassOf(cs, y)
    BY <2>1 DEF ClassOf
  <2> QED BY <2>2
<1>2. \A C \in cs : C \in touched <=> x \in C \/ y \in C
  OBVIOUS
<1> HIDE DEF touched
<1>3. Merged(cs, x, y) = (cs \ touched) \cup {(UNION touched) \cup {x, y}}
  BY DEF Merged, D!Abstract!United, touched
<1> QED BY <1>1, <1>2, <1>3

\* Merging keeps together what was together.
LEMMA MergedTogether ==
  ASSUME NEW cs, NEW x, NEW y, NEW C \in cs
  PROVE  \E E \in Merged(cs, x, y) : C \subseteq E
<1>1. CASE x \in C \/ y \in C
  <2>1. C \subseteq ClassOf(cs, x) \cup ClassOf(cs, y)
    BY <1>1 DEF ClassOf
  <2> QED BY <2>1, MergedClasses
<1>2. CASE x \notin C /\ y \notin C
  BY <1>2, MergedClasses
<1> QED BY <1>1, <1>2

LEMMA ClassOfCases ==
  ASSUME NEW cs, \A C, E \in cs : C \cap E # {} => C = E, NEW x
  PROVE  ClassOf(cs, x) \in cs \/ ClassOf(cs, x) = {x}
<1>1. CASE \E C \in cs : x \in C
  <2>1. PICK C \in cs : x \in C
    BY <1>1
  <2>2. {E \in cs : x \in E} = {C}
    BY <2>1
  <2>3. ClassOf(cs, x) = C
    BY <2>1, <2>2 DEF ClassOf
  <2> QED BY <2>1, <2>3
<1>2. CASE ~\E C \in cs : x \in C
  BY <1>2 DEF ClassOf
<1> QED BY <1>1, <1>2

LEMMA Alone ==
  ASSUME NEW L, NEW x
  PROVE  Sound(L, {x})
<1>1. (SUBSET {x}) \ {{}, {x}} = {}
  OBVIOUS
<1> QED BY <1>1 DEF Sound, Homogeneous, Connected

\* Two connected classes and a link between them.
LEMMA LinkConnects ==
  ASSUME NEW L, NEW A, NEW B, Connected(L, A), Connected(L, B), NEW x \in A, NEW y \in B,
         x = y \/ <<x, y>> \in L \/ <<y, x>> \in L
  PROVE  Connected(L, A \cup B)
<1> SUFFICES ASSUME NEW S \in (SUBSET (A \cup B)) \ {{}, A \cup B}
             PROVE  Crosses(L, A \cup B, S)
  BY DEF Connected
<1>1. ASSUME NEW C, Connected(L, C), C \subseteq A \cup B, S \cap C # {}, S \cap C # C
      PROVE  Crosses(L, A \cup B, S)
  <2>1. Crosses(L, C, S \cap C)
    <3>1. S \cap C \in (SUBSET C) \ {{}, C}
      BY <1>1
    <3> QED BY <1>1, <3>1 DEF Connected
  <2> QED BY <1>1, <2>1 DEF Crosses
<1>2. CASE S \cap A # {} /\ S \cap A # A
  BY <1>1, <1>2
<1>3. CASE S \cap B # {} /\ S \cap B # B
  BY <1>1, <1>3
<1>4. CASE S \cap A \in {{}, A} /\ S \cap B \in {{}, B}
  <2>1. ~(x \in S <=> y \in S)
    <3>1. CASE S \cap A = {}
      BY <1>4, <3>1
    <3>2. CASE S \cap A = A
      BY <1>4, <3>2
    <3> QED BY <1>4, <3>1, <3>2
  <2>2. x # y
    BY <2>1
  <2>3. \/ <<x, y>> \in L /\ <<x, y>>[1] = x /\ <<x, y>>[2] = y
        \/ <<y, x>> \in L /\ <<y, x>>[1] = y /\ <<y, x>>[2] = x
    BY <2>2
  <2> QED BY <2>1, <2>3 DEF Crosses
<1> QED BY <1>2, <1>3, <1>4

\* A merge of two variables of one kind that a link joins keeps all classes sound.
LEMMA MergedSound ==
  ASSUME NEW L, NEW cs, \A C, E \in cs : C \cap E # {} => C = E, \A C \in cs : Sound(L, C),
         NEW x, NEW y, Joinable(L, x, y)
  PROVE  \A C \in Merged(cs, x, y) : Sound(L, C)
<1> DEFINE A == ClassOf(cs, x)
           B == ClassOf(cs, y)
<1>1. Sound(L, A) /\ Sound(L, B) /\ x \in A /\ y \in B
  <2>1. x \in A /\ y \in B
    BY DEF ClassOf
  <2>2. (A \in cs \/ A = {x}) /\ (B \in cs \/ B = {y})
    BY ClassOfCases
  <2>3. Sound(L, {x}) /\ Sound(L, {y})
    BY Alone
  <2> HIDE DEF A, B
  <2>4. Sound(L, A)
    <3>1. CASE A = {x}
      BY <3>1, <2>3
    <3>2. CASE A \in cs
      BY <3>2
    <3> QED BY <2>2, <3>1, <3>2
  <2>5. Sound(L, B)
    <3>1. CASE B = {y}
      BY <3>1, <2>3
    <3>2. CASE B \in cs
      BY <3>2
    <3> QED BY <2>2, <3>1, <3>2
  <2> QED BY <2>1, <2>4, <2>5
<1>2. Connected(L, A \cup B)
  <2> HIDE DEF A, B
  <2> QED BY <1>1, LinkConnects DEF Sound, Joinable
<1>3. Homogeneous(A \cup B)
  <2> HIDE DEF A, B
  <2>1. \A u \in A \cup B : u.kind = x.kind /\ (u.fn = x.fn \/ IsMemory(x))
    BY <1>1 DEF Sound, Homogeneous, IsMemory, Joinable
  <2> QED BY <2>1 DEF Homogeneous, IsMemory
<1> QED BY <1>2, <1>3, MergedClasses DEF Sound

-----------------------------------------------------------------------------
(* The sets and the remembered sets of globals, over links L, variables K  *)
(* that may have sets, and variables F that the instructions mention.      *)

SoundSets(L, K, d) == Good(d) /\ \A C \in Classes(d) : Sound(L, C) /\ C \subseteq K

SoundGlobals(F, d, g) ==
  \A a \in DOMAIN g :
    /\ g[a] \in Live(d)
    /\ \A v \in d.sets[g[a]] : v.kind = <<"M", a>>
    /\ \E v \in d.sets[g[a]] : v \in F

Placed(d, g, v) ==
  IsMemory(v) => Address(v) \in DOMAIN g /\ v \in d.sets[g[Address(v)]]

\* What is together stays together, and the sets of globals only grow.
Grows(d, g, d2, g2) ==
  /\ \A u, v : Same(d, u, v) => Same(d2, u, v)
  /\ \A a \in DOMAIN g : a \in DOMAIN g2 /\ d.sets[g[a]] \subseteq d2.sets[g2[a]]

LEMMA PlacedStays ==
  ASSUME NEW d, NEW g, NEW d2, NEW g2, Grows(d, g, d2, g2), NEW v, Placed(d, g, v)
  PROVE  Placed(d2, g2, v)
BY DEF Grows, Placed

\* A merge of two variables that a link joins.
LEMMA MergeKeeps ==
  ASSUME NEW L, NEW K, NEW d, SoundSets(L, K, d), NEW x \in K, NEW y \in K,
         Joinable(L, x, y),
         NEW d2, Good(d2), Classes(d2) = Merged(Classes(d), x, y)
  PROVE  /\ SoundSets(L, K, d2)
         /\ Same(d2, x, y)
         /\ \A u, v : Same(d, u, v) => Same(d2, u, v)
<1>1. \A C, E \in Classes(d) : C \cap E # {} => C = E
  BY ClassesDisjoint DEF SoundSets
<1>2. \A C \in Classes(d2) : Sound(L, C)
  <2> DEFINE cs == Classes(d)
  <2>1. \A C \in cs : Sound(L, C)
    BY DEF SoundSets
  <2>2. \A C, E \in cs : C \cap E # {} => C = E
    BY <1>1
  <2>3. Classes(d2) = Merged(cs, x, y)
    OBVIOUS
  <2> HIDE DEF cs
  <2> QED BY <2>1, <2>2, <2>3, MergedSound
<1> DEFINE A == ClassOf(Classes(d), x)
           B == ClassOf(Classes(d), y)
<1>a. x \in A /\ y \in B /\ A \subseteq K /\ B \subseteq K
  BY ClassOfMembers DEF SoundSets
<1>b. A \cup B \in Classes(d2) /\ \A C \in Classes(d2) : C \in Classes(d) \/ C = A \cup B
  BY MergedClasses
<1> HIDE DEF A, B
<1>3. \A C \in Classes(d2) : C \subseteq K
  BY <1>a, <1>b DEF SoundSets
<1>4. Same(d2, x, y)
  BY <1>a, <1>b DEF Same
<1>5. ASSUME NEW u, NEW v, Same(d, u, v)
      PROVE  Same(d2, u, v)
  <2>1. PICK C \in Classes(d) : u \in C /\ v \in C
    BY <1>5 DEF Same
  <2>2. PICK E \in Classes(d2) : C \subseteq E
    BY <2>1, MergedTogether
  <2> QED BY <2>1, <2>2 DEF Same
<1> QED BY <1>2, <1>3, <1>4, <1>5 DEF SoundSets

\* Globals whose sets a call does not touch.
LEMMA GlobalsUntouched ==
  ASSUME NEW F, NEW d, NEW g, SoundGlobals(F, d, g), NEW d2,
         \A a \in DOMAIN g : g[a] \in Live(d2) /\ d2.sets[g[a]] = d.sets[g[a]]
  PROVE  /\ SoundGlobals(F, d2, g)
         /\ \A a \in DOMAIN g : d.sets[g[a]] \subseteq d2.sets[g[a]]
BY DEF SoundGlobals

LEMMA InsertKeeps ==
  ASSUME NEW L, NEW K, NEW F, NEW d, NEW g, SoundSets(L, K, d), SoundGlobals(F, d, g),
         NEW e \in K, K \subseteq AllVars
  PROVE  LET r == Insert(d, e)
         IN  /\ SoundSets(L, K, r.ds) /\ SoundGlobals(F, r.ds, g) /\ Grows(d, g, r.ds, g)
             /\ r.id \in Live(r.ds) /\ e \in r.ds.sets[r.id]
             /\ \A i \in Live(d) : i \in Live(r.ds) /\ r.ds.sets[i] = d.sets[i]
<1> DEFINE r == Insert(d, e)
<1>1. /\ Good(r.ds) /\ r.id \in Live(r.ds) /\ e \in r.ds.sets[r.id]
      /\ Classes(r.ds) = Merged(Classes(d), e, e)
      /\ \A i \in Live(d) : i \in Live(r.ds) /\ r.ds.sets[i] = d.sets[i]
  BY InsertCall DEF SoundSets
<1> HIDE DEF r
<1>2. /\ SoundSets(L, K, r.ds)
      /\ \A u, v : Same(d, u, v) => Same(r.ds, u, v)
  <2>1. Joinable(L, e, e)
    BY DEF Joinable
  <2> QED BY <1>1, <2>1, MergeKeeps
<1>3. /\ SoundGlobals(F, r.ds, g)
      /\ \A a \in DOMAIN g : d.sets[g[a]] \subseteq r.ds.sets[g[a]]
  BY <1>1, GlobalsUntouched DEF SoundGlobals
<1>4. SoundSets(L, K, r.ds) /\ SoundGlobals(F, r.ds, g) /\ Grows(d, g, r.ds, g)
  BY <1>2, <1>3 DEF Grows
<1> QED BY <1>1, <1>4 DEF r

\* An input joins the set of its phi function, no variable of which a global has.
LEMMA PhiJoinKeeps ==
  ASSUME NEW L, NEW K, NEW F, NEW d, NEW g, SoundSets(L, K, d), SoundGlobals(F, d, g),
         K \subseteq AllVars, NEW id \in Live(d), NEW x \in d.sets[id], NEW e \in K,
         Joinable(L, x, e),
         \A a \in DOMAIN g : x \notin d.sets[g[a]] /\ e \notin d.sets[g[a]]
  PROVE  LET r == InsertJoin(d, id, e)
         IN  /\ SoundSets(L, K, r.ds) /\ SoundGlobals(F, r.ds, g) /\ Grows(d, g, r.ds, g)
             /\ r.id \in Live(r.ds) /\ e \in r.ds.sets[r.id] /\ d.sets[id] \subseteq r.ds.sets[r.id]
             /\ \A a \in DOMAIN g : r.ds.sets[g[a]] = d.sets[g[a]]
<1> DEFINE r == InsertJoin(d, id, e)
<1>1. /\ Good(r.ds) /\ r.id \in Live(r.ds)
      /\ e \in r.ds.sets[r.id] /\ d.sets[id] \subseteq r.ds.sets[r.id]
      /\ Classes(r.ds) = Merged(Classes(d), x, e)
      /\ \A i \in Live(d) \ {id} : e \notin d.sets[i] =>
                  i \in Live(r.ds) /\ r.ds.sets[i] = d.sets[i]
  BY InsertJoinCall DEF SoundSets
<1> HIDE DEF r
<1>2. x \in K
  BY DEF SoundSets, Classes
<1>3. /\ SoundSets(L, K, r.ds)
      /\ \A u, v : Same(d, u, v) => Same(r.ds, u, v)
  BY <1>1, <1>2, MergeKeeps
<1>4. \A a \in DOMAIN g : g[a] \in Live(r.ds) /\ r.ds.sets[g[a]] = d.sets[g[a]]
  BY <1>1 DEF SoundGlobals
<1>5. /\ SoundGlobals(F, r.ds, g)
      /\ \A a \in DOMAIN g : d.sets[g[a]] \subseteq r.ds.sets[g[a]]
  BY <1>4, GlobalsUntouched
<1>6. SoundSets(L, K, r.ds) /\ SoundGlobals(F, r.ds, g) /\ Grows(d, g, r.ds, g)
  BY <1>3, <1>5 DEF Grows
<1> QED BY <1>1, <1>4, <1>6 DEF r

\* Inserting a variable again changes nothing.
LEMMA InsertAgain ==
  ASSUME NEW d, Good(d), NEW i \in Live(d), NEW e \in d.sets[i]
  PROVE  Insert(d, e).ds = d
<1>1. Known(d, e)
  BY GoodMeans DEF Known
<1> QED BY <1>1 DEF Insert, Result

\* All versions of a global that instructions mention are linked.
GlobalsLinked(L, F) == \A u, w \in F : u.kind = w.kind /\ IsMemory(u) => <<u, w>> \in L

\* h is g with id for the address a.
Remembered(h, g, a, id) ==
  /\ DOMAIN h = (DOMAIN g) \cup {a} /\ h[a] = id
  /\ \A b \in (DOMAIN g) \ {a} : h[b] = g[b]

VersionOf(v, a) == v.kind = <<"M", a>>

MemoryCall(d, g, a, v) ==
  IF a \in DOMAIN g THEN InsertJoin(d, g[a], v) ELSE Insert(d, v)

\* v, a version of the global a, is handled, and h remembers its set.
Handles(L, K, F, d, g, v, a, h) ==
  /\ SoundSets(L, K, d) /\ SoundGlobals(F, d, g) /\ GlobalsLinked(L, F)
  /\ K \subseteq AllVars /\ v \in K /\ v \in F /\ VersionOf(v, a)
  /\ Remembered(h, g, a, MemoryCall(d, g, a, v).id)

\* A version of a global joins the set remembered for the address, if any.
LEMMA MemoryKeeps ==
  ASSUME NEW L, NEW K, NEW F, NEW d, NEW g, NEW v, NEW a, NEW h,
         Handles(L, K, F, d, g, v, a, h)
  PROVE  LET r == MemoryCall(d, g, a, v)
         IN  /\ SoundSets(L, K, r.ds) /\ SoundGlobals(F, r.ds, h) /\ Grows(d, g, r.ds, h)
             /\ Placed(r.ds, h, v)
             /\ Insert(r.ds, v).ds = r.ds
<1> DEFINE r == MemoryCall(d, g, a, v)
<1>r. r = IF a \in DOMAIN g THEN InsertJoin(d, g[a], v) ELSE Insert(d, v)
  BY DEF MemoryCall
<1>h. Remembered(h, g, a, r.id)
  BY DEF Handles
<1> HIDE DEF r
<1>k. /\ SoundSets(L, K, d) /\ SoundGlobals(F, d, g) /\ GlobalsLinked(L, F)
      /\ K \subseteq AllVars /\ v \in K /\ v \in F /\ VersionOf(v, a)
  BY DEF Handles
<1> USE <1>k
<1>1. IsMemory(v) /\ Address(v) = a /\ v.kind = <<"M", a>>
  BY DEF IsMemory, Address, VersionOf
<1>2. /\ SoundSets(L, K, r.ds)
      /\ \A u, w : Same(d, u, w) => Same(r.ds, u, w)
      /\ r.id \in Live(r.ds) /\ v \in r.ds.sets[r.id]
      /\ a \in DOMAIN g => d.sets[g[a]] \subseteq r.ds.sets[r.id]
      /\ \A b \in (DOMAIN g) \ {a} : g[b] \in Live(r.ds) /\ r.ds.sets[g[b]] = d.sets[g[b]]
  <2>1. CASE a \in DOMAIN g
    <3>1. PICK x \in d.sets[g[a]] : x \in F /\ x.kind = <<"M", a>>
      BY <2>1 DEF SoundGlobals
    <3>2. g[a] \in Live(d)
      BY <2>1 DEF SoundGlobals
    <3>3. r = InsertJoin(d, g[a], v)
      BY <2>1, <1>r
    <3>4. /\ Good(r.ds) /\ r.id \in Live(r.ds)
          /\ v \in r.ds.sets[r.id] /\ d.sets[g[a]] \subseteq r.ds.sets[r.id]
          /\ Classes(r.ds) = Merged(Classes(d), x, v)
          /\ \A i \in Live(d) \ {g[a]} : v \notin d.sets[i] =>
                  i \in Live(r.ds) /\ r.ds.sets[i] = d.sets[i]
      BY <3>2, <3>3, InsertJoinCall DEF SoundSets
    <3>5. x \in K /\ Joinable(L, x, v)
      <4>1. IsMemory(x) /\ <<x, v>> \in L
        BY <1>1, <3>1 DEF IsMemory, GlobalsLinked
      <4>2. x \in K
        BY <3>2 DEF SoundSets, Classes
      <4> QED BY <1>1, <3>1, <4>1, <4>2 DEF Joinable
    <3>6. /\ SoundSets(L, K, r.ds)
          /\ \A u, w : Same(d, u, w) => Same(r.ds, u, w)
      BY <3>4, <3>5, MergeKeeps
    <3>7. \A b \in (DOMAIN g) \ {a} : g[b] \in Live(d) \ {g[a]} /\ v \notin d.sets[g[b]]
      <4> SUFFICES ASSUME NEW b \in (DOMAIN g) \ {a}
                   PROVE  g[b] \in Live(d) \ {g[a]} /\ v \notin d.sets[g[b]]
        OBVIOUS
      <4>1. \A w \in d.sets[g[b]] : w.kind # <<"M", a>>
        <5>1. <<"M", b>> # <<"M", a>>
          OBVIOUS
        <5> QED BY <5>1 DEF SoundGlobals
      <4> QED BY <1>1, <4>1, <3>1 DEF SoundGlobals
    <3> QED BY <3>4, <3>6, <3>7
  <2>2. CASE a \notin DOMAIN g
    <3>1. r = Insert(d, v)
      BY <2>2, <1>r
    <3>2. /\ SoundSets(L, K, r.ds) /\ Grows(d, g, r.ds, g)
          /\ r.id \in Live(r.ds) /\ v \in r.ds.sets[r.id]
          /\ \A i \in Live(d) : i \in Live(r.ds) /\ r.ds.sets[i] = d.sets[i]
      BY <3>1, InsertKeeps
    <3> QED BY <2>2, <3>2 DEF Grows, SoundGlobals
  <2> QED BY <2>1, <2>2
<1>3. \A w \in r.ds.sets[r.id] : w.kind = <<"M", a>>
  <2>1. r.ds.sets[r.id] \in Classes(r.ds)
    BY <1>2 DEF Classes
  <2>2. Homogeneous(r.ds.sets[r.id])
    BY <1>2, <2>1 DEF SoundSets, Sound
  <2> QED BY <1>1, <1>2, <2>2 DEF Homogeneous
<1>4. SoundGlobals(F, r.ds, h)
  BY <1>2, <1>3, <1>h DEF SoundGlobals, Remembered
<1>5. Grows(d, g, r.ds, h)
  BY <1>2, <1>h DEF Grows, Remembered
<1>6. Placed(r.ds, h, v)
  BY <1>1, <1>2, <1>h DEF Placed, Remembered
<1>7. Insert(r.ds, v).ds = r.ds
  BY <1>2, InsertAgain DEF SoundSets
<1> QED BY <1>2, <1>4, <1>5, <1>6, <1>7 DEF r

\* A target joins a read of its kind, both in the set of the address if they
\* are versions of a global.
LEMMA JoinKeeps ==
  ASSUME NEW L, NEW K, NEW F, NEW d, NEW g, SoundSets(L, K, d), SoundGlobals(F, d, g),
         K \subseteq AllVars, NEW t \in K, NEW u \in K, Joinable(L, t, u),
         t.kind = <<t.kind[1], t.kind[2]>>, Placed(d, g, t), Placed(d, g, u)
  PROVE  LET r == Join(d, t, u)
         IN  /\ SoundSets(L, K, r.ds) /\ SoundGlobals(F, r.ds, g) /\ Grows(d, g, r.ds, g)
             /\ Same(r.ds, t, u)
<1> DEFINE r == Join(d, t, u)
<1>1. /\ Good(r.ds)
      /\ Classes(r.ds) = Merged(Classes(d), t, u)
      /\ \A i \in Live(d) : t \notin d.sets[i] /\ u \notin d.sets[i] =>
                  i \in Live(r.ds) /\ r.ds.sets[i] = d.sets[i]
      /\ \A i \in Live(d) : t \in d.sets[i] /\ u \in d.sets[i] => r.ds = d
  BY JoinCall DEF SoundSets
<1> HIDE DEF r
<1>2. /\ SoundSets(L, K, r.ds)
      /\ Same(r.ds, t, u)
      /\ \A v, w : Same(d, v, w) => Same(r.ds, v, w)
  BY <1>1, MergeKeeps
<1>3. \A a \in DOMAIN g : g[a] \in Live(r.ds) /\ r.ds.sets[g[a]] = d.sets[g[a]]
  <2>1. CASE IsMemory(t)
    <3>1. IsMemory(u) /\ Address(u) = Address(t)
      BY <2>1 DEF IsMemory, Address, Joinable
    <3>2. Address(t) \in DOMAIN g /\ t \in d.sets[g[Address(t)]] /\ u \in d.sets[g[Address(t)]]
      BY <2>1, <3>1 DEF Placed
    <3>3. r.ds = d
      BY <1>1, <3>2 DEF SoundGlobals
    <3> QED BY <3>3 DEF SoundGlobals
  <2>2. CASE ~IsMemory(t)
    <3> SUFFICES ASSUME NEW a \in DOMAIN g
                 PROVE  t \notin d.sets[g[a]] /\ u \notin d.sets[g[a]]
      BY <1>1 DEF SoundGlobals
    <3>1. t.kind # <<"M", a>>
      BY <2>2 DEF IsMemory
    <3> QED BY <3>1 DEF SoundGlobals, Joinable
  <2> QED BY <2>1, <2>2
<1>4. SoundGlobals(F, r.ds, g) /\ Grows(d, g, r.ds, g)
  BY <1>2, <1>3, GlobalsUntouched DEF Grows
<1> QED BY <1>2, <1>4 DEF r

-----------------------------------------------------------------------------
(* The programs.                                                           *)

PhisIn(p, f) == UNION {ItemsOf(p.phis[b]) : b \in p.blocks[f]}
CodeIn(p, f) == UNION {ItemsOf(p.code[b]) : b \in p.blocks[f]}

PhiItem(p, f)  == [result : Own(p, f), inputs : SUBSET Own(p, f)]
CodeItem(p, f) == [reads : SUBSET Own(p, f), target : SUBSET Own(p, f)]

\* The variables that some phi function or instruction mentions.
PhiVars(p)   == UNION {{ph.result} \cup ph.inputs : ph \in PhisOf(p)}
Mentioned(p) == PhiVars(p) \cup FlowVars(p)

LEMMA PartsOfProgram ==
  ASSUME NEW p \in Programs
  PROVE  /\ \A ph : ph \in PhisOf(p) <=> \E f \in p.fns : ph \in PhisIn(p, f)
         /\ \A c : c \in CodeOf(p) <=> \E f \in p.fns : c \in CodeIn(p, f)
<1>1. \A b : b \in BlocksOf(p) <=> \E f \in p.fns : b \in p.blocks[f]
  BY DEF BlocksOf
<1>2. \A ph : ph \in PhisOf(p) <=> \E b \in BlocksOf(p) : ph \in ItemsOf(p.phis[b])
  BY DEF PhisOf
<1>3. \A c : c \in CodeOf(p) <=> \E b \in BlocksOf(p) : c \in ItemsOf(p.code[b])
  BY DEF CodeOf
<1>4. \A f : \A ph : ph \in PhisIn(p, f) <=> \E b \in p.blocks[f] : ph \in ItemsOf(p.phis[b])
  BY DEF PhisIn
<1>5. \A f : \A c : c \in CodeIn(p, f) <=> \E b \in p.blocks[f] : c \in ItemsOf(p.code[b])
  BY DEF CodeIn
<1> QED BY <1>1, <1>2, <1>3, <1>4, <1>5

LEMMA ItemsInSet ==
  ASSUME NEW T, NEW s \in Seq(T)
  PROVE  ItemsOf(s) \subseteq T
BY DEF ItemsOf

LEMMA ItemsHeadTail ==
  ASSUME NEW T, NEW s \in Seq(T), s # <<>>
  PROVE  /\ Head(s) \in ItemsOf(s) /\ Head(s) \in T
         /\ Tail(s) \in Seq(T)
         /\ \A x : x \in ItemsOf(s) <=> x = Head(s) \/ x \in ItemsOf(Tail(s))
<1>1. Len(s) \in Nat /\ Len(s) # 0 /\ Len(Tail(s)) = Len(s) - 1 /\ Tail(s) \in Seq(T)
  OBVIOUS
<1>2. \A i \in 1 .. Len(Tail(s)) : Tail(s)[i] = s[i + 1]
  OBVIOUS
<1>3. Head(s) = s[1] /\ Head(s) \in ItemsOf(s) /\ Head(s) \in T
  BY <1>1 DEF ItemsOf
<1>4. \A x : x \in ItemsOf(Tail(s)) => x \in ItemsOf(s)
  BY <1>1, <1>2 DEF ItemsOf
<1>5. ASSUME NEW x \in ItemsOf(s), x # Head(s)
      PROVE  x \in ItemsOf(Tail(s))
  <2>1. PICK i \in 1 .. Len(s) : s[i] = x
    BY DEF ItemsOf
  <2>2. i # 1
    BY <1>3, <1>5, <2>1
  <2>3. i - 1 \in 1 .. Len(Tail(s)) /\ (i - 1) + 1 = i
    BY <1>1, <2>1, <2>2
  <2>4. Tail(s)[i - 1] = x
    BY <1>2, <2>1, <2>3
  <2> QED BY <2>3, <2>4 DEF ItemsOf
<1> QED BY <1>1, <1>3, <1>4, <1>5

LEMMA PhisWellFormed ==
  ASSUME NEW p \in Programs, NEW f \in p.fns
  PROVE  /\ \A b \in p.blocks[f] : /\ p.phis[b] \in Seq(PhiItem(p, f))
                                  /\ ItemsOf(p.phis[b]) \subseteq PhisIn(p, f)
         /\ \A ph \in PhisIn(p, f) :
              /\ ph \in PhiItem(p, f)
              /\ {ph.result} \cup ph.inputs \subseteq Mentioned(p)
              /\ \A v \in ph.inputs : Joinable(Links(p), ph.result, v)
<1>1. \A b \in p.blocks[f] : p.phis[b] \in Seq(PhiItem(p, f))
  BY ProgramsWellFormed DEF PhiItem
<1>2. \A b \in p.blocks[f] : ItemsOf(p.phis[b]) \subseteq PhisIn(p, f)
  BY DEF PhisIn
<1>3. ASSUME NEW ph \in PhisIn(p, f)
      PROVE  /\ ph \in PhiItem(p, f)
             /\ {ph.result} \cup ph.inputs \subseteq Mentioned(p)
             /\ \A v \in ph.inputs : Joinable(Links(p), ph.result, v)
  <2>1. PICK b \in p.blocks[f] : ph \in ItemsOf(p.phis[b])
    BY DEF PhisIn
  <2>2. ph \in PhiItem(p, f)
    BY <1>1, <2>1, ItemsInSet
  <2>3. ph \in PhisOf(p)
    BY PartsOfProgram
  <2>4. {ph.result} \cup ph.inputs \subseteq Mentioned(p)
    BY <2>3 DEF Mentioned, PhiVars
  <2>5. ASSUME NEW v \in ph.inputs
        PROVE  Joinable(Links(p), ph.result, v)
    <3>1. <<ph.result, v>> \in Links(p)
      BY <2>3 DEF Links, PhiLinks
    <3>2. v.kind = ph.result.kind
      <4>1. \A q \in ItemsOf(p.phis[b]) : OneLocation(q)
        BY ProgramsWellFormed
      <4> QED BY <2>1, <4>1 DEF OneLocation
    <3>3. v.fn = ph.result.fn
      BY <2>2 DEF PhiItem, Own
    <3> QED BY <3>1, <3>2, <3>3 DEF Joinable
  <2> QED BY <2>2, <2>4, <2>5
<1> QED BY <1>1, <1>2, <1>3

LEMMA CodeWellFormed ==
  ASSUME NEW p \in Programs, NEW f \in p.fns
  PROVE  /\ \A b \in p.blocks[f] : /\ p.code[b] \in Seq(CodeItem(p, f))
                                  /\ ItemsOf(p.code[b]) \subseteq CodeIn(p, f)
         /\ \A c \in CodeIn(p, f) :
              /\ c \in CodeItem(p, f)
              /\ c.reads \cup c.target \subseteq FlowVars(p)
              /\ \A t, u \in c.target : t = u
              /\ \A t \in c.target, v \in c.reads :
                   t.kind = v.kind => Joinable(Links(p), t, v)
<1>1. \A b \in p.blocks[f] : p.code[b] \in Seq(CodeItem(p, f))
  BY ProgramsWellFormed DEF CodeItem
<1>2. \A b \in p.blocks[f] : ItemsOf(p.code[b]) \subseteq CodeIn(p, f)
  BY DEF CodeIn
<1>3. ASSUME NEW c \in CodeIn(p, f)
      PROVE  /\ c \in CodeItem(p, f)
             /\ c.reads \cup c.target \subseteq FlowVars(p)
             /\ \A t, u \in c.target : t = u
             /\ \A t \in c.target, v \in c.reads :
                   t.kind = v.kind => Joinable(Links(p), t, v)
  <2>1. PICK b \in p.blocks[f] : c \in ItemsOf(p.code[b])
    BY DEF CodeIn
  <2>2. c \in CodeItem(p, f)
    BY <1>1, <2>1, ItemsInSet
  <2>3. c \in CodeOf(p)
    BY PartsOfProgram
  <2>4. c.reads \cup c.target \subseteq FlowVars(p)
    BY <2>3 DEF FlowVars
  <2>5. ASSUME NEW t \in c.target, NEW v \in c.reads, t.kind = v.kind
        PROVE  Joinable(Links(p), t, v)
    <3>1. <<t, v>> \in Links(p)
      <4>1. <<t, v>> \in {l \in c.target \X c.reads : l[1].kind = l[2].kind}
        BY <2>5
      <4> QED BY <2>3, <4>1 DEF Links, FlowLinks
    <3>3. v.fn = t.fn
      BY <2>2 DEF CodeItem, Own
    <3> QED BY <2>5, <3>1, <3>3 DEF Joinable
  <2>6. \A t, u \in c.target : t = u
    BY <2>1, ProgramsWellFormed
  <2> QED BY <2>2, <2>4, <2>5, <2>6
<1> QED BY <1>1, <1>2, <1>3

LEMMA VariablesWellFormed ==
  ASSUME NEW p \in Programs
  PROVE  /\ p.vars \subseteq AllVars
         /\ Mentioned(p) \subseteq p.vars /\ FlowVars(p) \subseteq Mentioned(p)
         /\ \A v \in p.vars : v.kind = <<v.kind[1], v.kind[2]>> /\ v.fn \in p.fns
         /\ \A u, w \in FlowVars(p) : u.kind = w.kind /\ IsMemory(u) => <<u, w>> \in Links(p)
<1>1. p.vars \subseteq AllVars
  BY DEF AllVars
<1>2. FlowVars(p) \subseteq Mentioned(p)
  BY DEF Mentioned
<1>3. FlowVars(p) \subseteq p.vars
  <2> SUFFICES ASSUME NEW v \in FlowVars(p)
               PROVE  v \in p.vars
    OBVIOUS
  <2>1. PICK c \in CodeOf(p) : v \in c.reads \cup c.target
    BY DEF FlowVars
  <2>2. PICK f \in p.fns : c \in CodeIn(p, f)
    BY <2>1, PartsOfProgram
  <2>3. c \in CodeItem(p, f)
    BY <2>2, CodeWellFormed
  <2> QED BY <2>1, <2>3 DEF CodeItem, Own
<1>4. PhiVars(p) \subseteq p.vars
  <2> SUFFICES ASSUME NEW v \in PhiVars(p)
               PROVE  v \in p.vars
    OBVIOUS
  <2>1. PICK ph \in PhisOf(p) : v \in {ph.result} \cup ph.inputs
    BY DEF PhiVars
  <2>2. PICK f \in p.fns : ph \in PhisIn(p, f)
    BY <2>1, PartsOfProgram
  <2>3. ph \in PhiItem(p, f)
    BY <2>2, PhisWellFormed
  <2> QED BY <2>1, <2>3 DEF PhiItem, Own
<1>5. \A v \in p.vars : v.kind = <<v.kind[1], v.kind[2]>> /\ v.fn \in p.fns
  BY ProgramsWellFormed
<1>6. ASSUME NEW u \in FlowVars(p), NEW w \in FlowVars(p), u.kind = w.kind, IsMemory(u)
      PROVE  <<u, w>> \in Links(p)
  <2>1. IsMemory(w)
    BY <1>6 DEF IsMemory
  <2>2. <<u, w>> \in GlobalLinks(p)
    BY <1>6, <2>1 DEF GlobalLinks
  <2> QED BY <2>2 DEF Links
<1> QED BY <1>1, <1>2, <1>3, <1>4, <1>5, <1>6 DEF Mentioned

-----------------------------------------------------------------------------
(* The inductive invariant.                                                *)

\* Where the loops of build_clusters are.
Place ==
  /\ prog \in Programs
  /\ fns \subseteq prog.fns
  /\ phase \in {"functions", "phis", "flow", "naming", "done", "panic"}
  /\ phase \in {"naming", "done", "panic"} => fns = {}
  /\ phase = "functions" => items = <<>> /\ stage = "next"
  /\ phase \in {"phis", "flow"} => fn \in prog.fns \ fns /\ blocks \subseteq prog.blocks[fn]
  /\ phase = "phis" => /\ items \in Seq(PhiItem(prog, fn))
                       /\ ItemsOf(items) \subseteq PhisIn(prog, fn)
  /\ phase = "flow" => /\ items \in Seq(CodeItem(prog, fn))
                       /\ ItemsOf(items) \subseteq CodeIn(prog, fn)

\* Sets hold variables of the functions that were started only, and sets of
\* globals none of the function whose phi functions are being merged: no merge of
\* phi functions can retire an identifier that `globals` remembers.
Started == {v \in Mentioned(prog) : v.fn \notin fns}

SetsSound ==
  /\ SoundSets(Links(prog), Started, ds)
  /\ SoundGlobals(FlowVars(prog), ds, globals)
  /\ phase = "phis" => \A a \in DOMAIN globals : \A v \in ds.sets[globals[a]] : v.fn # fn

\* What the part of Head(items) in progress has done.
PhiInProgress ==
  phase = "phis" /\ stage = "inputs" /\ items # <<>> =>
    /\ left \subseteq Head(items).inputs
    /\ cur \in Live(ds)
    /\ {Head(items).result} \cup (Head(items).inputs \ left) \subseteq ds.sets[cur]

InstructionInProgress ==
  phase = "flow" /\ items # <<>> =>
    /\ stage = "reads" =>
         /\ left \subseteq Head(items).reads
         /\ \A v \in Head(items).reads \ left : Placed(ds, globals, v)
    /\ stage = "joins" =>
         /\ left \subseteq Head(items).reads
         /\ \A v \in Head(items).reads \cup Head(items).target : Placed(ds, globals, v)
         /\ \A t \in Head(items).target : \A v \in left : t.kind = v.kind
         /\ \A t \in Head(items).target : \A v \in Head(items).reads \ left :
              t.kind = v.kind => Same(ds, t, v)

\* What is merged, except for what the loops have still to visit.
PhiWaits(f, ph) ==
  \/ f \in fns
  \/ /\ phase = "phis" /\ f = fn
     /\ ph \in ItemsOf(items) \/ \E b \in blocks : ph \in ItemsOf(prog.phis[b])

CodeWaits(f, c) ==
  \/ f \in fns
  \/ phase = "phis" /\ f = fn
  \/ /\ phase = "flow" /\ f = fn
     /\ c \in ItemsOf(items) \/ \E b \in blocks : c \in ItemsOf(prog.code[b])

PhiMerged(d, ph) == \A v \in ph.inputs : Same(d, ph.result, v)
CodeMerged(d, g, c) ==
  /\ \A v \in c.reads \cup c.target : Placed(d, g, v)
  /\ \A t \in c.target, v \in c.reads : t.kind = v.kind => Same(d, t, v)

NothingMissed ==
  /\ \A f \in prog.fns : \A ph \in PhisIn(prog, f) : PhiWaits(f, ph) \/ PhiMerged(ds, ph)
  /\ \A f \in prog.fns : \A c \in CodeIn(prog, f) : CodeWaits(f, c) \/ CodeMerged(ds, globals, c)

ClustersInv ==
  Place /\ SetsSound /\ PhiInProgress /\ InstructionInProgress /\ NothingMissed

LEMMA MergedStays ==
  ASSUME NEW d, NEW g, NEW d2, NEW g2, Grows(d, g, d2, g2)
  PROVE  /\ \A ph : PhiMerged(d, ph) => PhiMerged(d2, ph)
         /\ \A c : CodeMerged(d, g, c) => CodeMerged(d2, g2, c)
BY PlacedStays DEF PhiMerged, CodeMerged, Grows

LEMMA ClustersInvInit == Init => ClustersInv
<1> SUFFICES ASSUME Init PROVE ClustersInv
  OBVIOUS
<1>1. Place
  BY DEF Init, Place
<1>2. SetsSound
  <2>1. Good(ds)
    BY DEF Init, Good, D!WellFormed, D!Live, D!Elems, EmptyDS
  <2>2. Classes(ds) = {} /\ DOMAIN globals = {}
    BY DEF Init, EmptyDS, Classes, Live
  <2>3. phase # "phis"
    BY DEF Init
  <2> QED BY <2>1, <2>2, <2>3 DEF SetsSound, SoundSets, SoundGlobals
<1>3. PhiInProgress /\ InstructionInProgress
  BY DEF Init, PhiInProgress, InstructionInProgress
<1>4. NothingMissed
  BY DEF Init, NothingMissed, PhiWaits, CodeWaits
<1> QED BY <1>1, <1>2, <1>3, <1>4 DEF ClustersInv

\* Steps that leave the disjoint set and `globals` alone.
LEMMA StartFunctionKeeps ==
  ASSUME ClustersInv, NEW f \in fns, StartFunction(f)
  PROVE  ClustersInv'
<1> USE DEF ClustersInv, StartFunction
<1>1. Place'
  <2>1. items = <<>>
    BY DEF Place
  <2> QED BY <2>1 DEF Place, ItemsOf
<1>2. SetsSound'
  <2>1. Started \subseteq Started'
    BY DEF Started
  <2>2. SoundSets(Links(prog), Started, ds)'
    BY <2>1 DEF SetsSound, SoundSets
  <2>3. \A a \in DOMAIN globals : \A v \in ds.sets[globals[a]] : v.fn # f
    BY DEF SetsSound, SoundSets, SoundGlobals, Started, Classes
  <2> QED BY <2>2, <2>3 DEF SetsSound
<1>3. PhiInProgress' /\ InstructionInProgress'
  BY DEF PhiInProgress, InstructionInProgress, Place
<1>4. NothingMissed'
  <2>1. ASSUME NEW g \in prog.fns, NEW ph \in PhisIn(prog, g)
        PROVE  PhiWaits(g, ph)' \/ PhiMerged(ds, ph)
    <3>1. CASE g = f
      <4>1. \E b \in prog.blocks[f] : ph \in ItemsOf(prog.phis[b])
        BY <3>1 DEF PhisIn
      <4> QED BY <3>1, <4>1 DEF PhiWaits
    <3>2. CASE g # f
      BY <3>2 DEF NothingMissed, PhiWaits
    <3> QED BY <3>1, <3>2
  <2>2. ASSUME NEW g \in prog.fns, NEW c \in CodeIn(prog, g)
        PROVE  CodeWaits(g, c)' \/ CodeMerged(ds, globals, c)
    BY DEF NothingMissed, CodeWaits
  <2> QED BY <2>1, <2>2 DEF NothingMissed
<1> QED BY <1>1, <1>2, <1>3, <1>4

LEMMA EnterBlockKeeps ==
  ASSUME ClustersInv, NEW b \in blocks, EnterBlock(b)
  PROVE  ClustersInv'
<1> USE DEF ClustersInv, EnterBlock, BetweenBlocks
<1>1. Place'
  <2>1. b \in prog.blocks[fn]
    BY DEF Place
  <2>2. phase = "phis" => /\ prog.phis[b] \in Seq(PhiItem(prog, fn))
                          /\ ItemsOf(prog.phis[b]) \subseteq PhisIn(prog, fn)
    BY <2>1, PhisWellFormed DEF Place
  <2>3. phase = "flow" => /\ prog.code[b] \in Seq(CodeItem(prog, fn))
                          /\ ItemsOf(prog.code[b]) \subseteq CodeIn(prog, fn)
    BY <2>1, CodeWellFormed DEF Place
  <2> QED BY <2>2, <2>3 DEF Place
<1>2. SetsSound'
  BY DEF SetsSound, Started
<1>3. PhiInProgress' /\ InstructionInProgress'
  BY DEF PhiInProgress, InstructionInProgress, Place
<1>4. NothingMissed'
  <2>1. ItemsOf(items) = {}
    BY DEF ItemsOf
  <2>2. ASSUME NEW g \in prog.fns, NEW ph \in PhisIn(prog, g), PhiWaits(g, ph)
        PROVE  PhiWaits(g, ph)'
    BY <2>1, <2>2 DEF PhiWaits
  <2>3. ASSUME NEW g \in prog.fns, NEW c \in CodeIn(prog, g), CodeWaits(g, c)
        PROVE  CodeWaits(g, c)'
    BY <2>1, <2>3 DEF CodeWaits
  <2> QED BY <2>2, <2>3 DEF NothingMissed
<1> QED BY <1>1, <1>2, <1>3, <1>4

LEMMA EndOfBlocksKeeps ==
  ASSUME ClustersInv, EndOfBlocks
  PROVE  ClustersInv'
<1> USE DEF ClustersInv, EndOfBlocks, BetweenBlocks
<1>0. ItemsOf(items) = {}
  BY DEF ItemsOf
<1>1. Place'
  BY <1>0 DEF Place
<1>2. SetsSound'
  BY DEF SetsSound, Started
<1>3. PhiInProgress' /\ InstructionInProgress'
  BY DEF PhiInProgress, InstructionInProgress, Place
<1>4. NothingMissed'
  <2>2. ASSUME NEW g \in prog.fns, NEW ph \in PhisIn(prog, g), PhiWaits(g, ph)
        PROVE  PhiWaits(g, ph)'
    BY <1>0, <2>2 DEF PhiWaits
  <2>3. ASSUME NEW g \in prog.fns, NEW c \in CodeIn(prog, g), CodeWaits(g, c)
        PROVE  CodeWaits(g, c)'
    <3>1. c \in CodeIn(prog, g) => \E b \in prog.blocks[g] : c \in ItemsOf(prog.code[b])
      BY DEF CodeIn
    <3> QED BY <1>0, <2>3, <3>1 DEF CodeWaits
  <2> QED BY <2>2, <2>3 DEF NothingMissed
<1> QED BY <1>1, <1>2, <1>3, <1>4

LEMMA NamingKeeps ==
  ASSUME ClustersInv,
         \/ StartNaming
         \/ \E i \in Unnamed : \E rep \in ds.sets[i] : NameSet(i, rep)
         \/ AllNamed
         \/ Finished
  PROVE  ClustersInv'
<1>1. UNCHANGED <<prog, ds, globals, fns, fn, blocks, items, stage, left, cur>>
  BY DEF StartNaming, NameSet, AllNamed, Finished, vars, position, naming
<1>2. /\ phase \notin {"phis", "flow"} /\ fns = {}
      /\ phase' \in {"naming", "done", "panic"}
  BY DEF StartNaming, NameSet, AllNamed, Finished, vars, position, ClustersInv, Place
<1>3. Place' /\ SetsSound' /\ PhiInProgress' /\ InstructionInProgress'
  BY <1>1, <1>2 DEF ClustersInv, Place, SetsSound, Started, PhiInProgress, InstructionInProgress
<1>4. NothingMissed'
  BY <1>1, <1>2 DEF ClustersInv, NothingMissed, PhiWaits, CodeWaits
<1> QED BY <1>3, <1>4 DEF ClustersInv

\* Steps within one phi function or instruction.
LEMMA WithinItem ==
  ASSUME ClustersInv, phase \in {"phis", "flow"},
         UNCHANGED <<prog, phase, fns, fn, blocks, items>>,
         Grows(ds, globals, ds', globals')
  PROVE  Place' /\ NothingMissed'
<1>1. Place'
  BY DEF ClustersInv, Place
<1>2. NothingMissed'
  <2>1. ASSUME NEW f \in prog.fns, NEW ph \in PhisIn(prog, f)
        PROVE  PhiWaits(f, ph)' \/ PhiMerged(ds', ph)
    BY MergedStays DEF ClustersInv, NothingMissed, PhiWaits
  <2>2. ASSUME NEW f \in prog.fns, NEW c \in CodeIn(prog, f)
        PROVE  CodeWaits(f, c)' \/ CodeMerged(ds', globals', c)
    BY MergedStays DEF ClustersInv, NothingMissed, CodeWaits
  <2> QED BY <2>1, <2>2 DEF NothingMissed
<1> QED BY <1>1, <1>2

LEMMA PhiHead ==
  ASSUME ClustersInv, phase = "phis", items # <<>>
  PROVE  /\ Head(items) \in PhisIn(prog, fn) /\ fn \in prog.fns \ fns
         /\ Head(items) \in PhiItem(prog, fn)
         /\ {Head(items).result} \cup Head(items).inputs \subseteq Started
         /\ \A v \in Head(items).inputs : Joinable(Links(prog), Head(items).result, v)
         /\ \A v \in {Head(items).result} \cup Head(items).inputs :
              v.fn = fn /\ \A a \in DOMAIN globals : v \notin ds.sets[globals[a]]
<1>1. Head(items) \in PhisIn(prog, fn) /\ fn \in prog.fns \ fns
  BY ItemsHeadTail DEF ClustersInv, Place
<1>2. /\ Head(items) \in PhiItem(prog, fn)
      /\ {Head(items).result} \cup Head(items).inputs \subseteq Mentioned(prog)
      /\ \A v \in Head(items).inputs : Joinable(Links(prog), Head(items).result, v)
  BY <1>1, PhisWellFormed DEF ClustersInv, Place
<1>3. \A v \in {Head(items).result} \cup Head(items).inputs : v.fn = fn
  BY <1>2 DEF PhiItem, Own
<1>4. {Head(items).result} \cup Head(items).inputs \subseteq Started
  BY <1>1, <1>2, <1>3 DEF Started
<1> QED BY <1>1, <1>2, <1>3, <1>4 DEF ClustersInv, SetsSound

LEMMA InstructionHead ==
  ASSUME ClustersInv, phase = "flow", items # <<>>
  PROVE  /\ Head(items) \in CodeIn(prog, fn) /\ fn \in prog.fns \ fns
         /\ Head(items) \in CodeItem(prog, fn)
         /\ \A t, u \in Head(items).target : t = u
         /\ \A t \in Head(items).target, v \in Head(items).reads :
              t.kind = v.kind => Joinable(Links(prog), t, v)
         /\ Head(items).reads \cup Head(items).target \subseteq FlowVars(prog) \cap Started
<1>1. Head(items) \in CodeIn(prog, fn) /\ fn \in prog.fns \ fns
  BY ItemsHeadTail DEF ClustersInv, Place
<1>2. /\ Head(items) \in CodeItem(prog, fn)
      /\ Head(items).reads \cup Head(items).target \subseteq FlowVars(prog)
      /\ \A t, u \in Head(items).target : t = u
      /\ \A t \in Head(items).target, v \in Head(items).reads :
              t.kind = v.kind => Joinable(Links(prog), t, v)
  BY <1>1, CodeWellFormed DEF ClustersInv, Place
<1>3. \A v \in Head(items).reads \cup Head(items).target : v.fn = fn
  BY <1>2 DEF CodeItem, Own
<1>4. Head(items).reads \cup Head(items).target \subseteq Started
  BY <1>1, <1>2, <1>3, VariablesWellFormed DEF Started, ClustersInv, Place
<1> QED BY <1>1, <1>2, <1>4

LEMMA StartedKnown ==
  ASSUME ClustersInv
  PROVE  Started \subseteq AllVars /\ FlowVars(prog) \subseteq AllVars
BY VariablesWellFormed DEF Started, ClustersInv, Place

LEMMA PhiTargetKeeps ==
  ASSUME ClustersInv, PhiTarget
  PROVE  ClustersInv'
<1> DEFINE e == Head(items).result
           r == Insert(ds, e)
<1>1. /\ phase = "phis" /\ items # <<>>
      /\ ds' = r.ds /\ cur' = r.id /\ stage' = "inputs" /\ left' = Head(items).inputs
      /\ UNCHANGED <<prog, globals, phase, fns, fn, blocks, items>>
  BY DEF PhiTarget, AtItem
<1>2. e \in Started
  BY <1>1, PhiHead
<1>3. /\ SoundSets(Links(prog), Started, r.ds) /\ SoundGlobals(FlowVars(prog), r.ds, globals)
      /\ Grows(ds, globals, r.ds, globals)
      /\ r.id \in Live(r.ds) /\ e \in r.ds.sets[r.id]
      /\ \A i \in Live(ds) : i \in Live(r.ds) /\ r.ds.sets[i] = ds.sets[i]
  <2> HIDE DEF e
  <2> QED BY <1>2, InsertKeeps, StartedKnown DEF ClustersInv, SetsSound
<1> HIDE DEF r
<1>4. Place' /\ NothingMissed'
  BY <1>1, <1>3, WithinItem
<1>5. SetsSound'
  <2>1. \A a \in DOMAIN globals : r.ds.sets[globals[a]] = ds.sets[globals[a]]
    BY <1>3 DEF ClustersInv, SetsSound, SoundGlobals
  <2> QED BY <1>1, <1>3, <2>1 DEF ClustersInv, SetsSound, Started
<1>6. PhiInProgress' /\ InstructionInProgress'
  BY <1>1, <1>3 DEF PhiInProgress, InstructionInProgress
<1> QED BY <1>4, <1>5, <1>6 DEF ClustersInv

\* The assertion of insert_join never fails here.
LEMMA PhiInputKeeps ==
  ASSUME ClustersInv, NEW v \in left, PhiInput(v)
  PROVE  ClustersInv' /\ phase' # "panic"
<1> DEFINE e == Head(items).result
           r == InsertJoin(ds, cur, v)
<1>1. /\ phase = "phis" /\ items # <<>> /\ stage = "inputs"
      /\ left \subseteq Head(items).inputs /\ cur \in Live(ds)
      /\ e \in ds.sets[cur] /\ Head(items).inputs \ left \subseteq ds.sets[cur]
  BY DEF PhiInput, AtItem, ClustersInv, PhiInProgress
<1>2. /\ ds' = r.ds /\ cur' = r.id /\ left' = left \ {v}
      /\ UNCHANGED <<prog, globals, phase, fns, fn, blocks, items, stage>>
  BY <1>1 DEF PhiInput, CanUse
<1>3. /\ v \in Started /\ Joinable(Links(prog), e, v)
      /\ \A a \in DOMAIN globals : e \notin ds.sets[globals[a]] /\ v \notin ds.sets[globals[a]]
  BY <1>1, PhiHead
<1>4. /\ SoundSets(Links(prog), Started, r.ds) /\ SoundGlobals(FlowVars(prog), r.ds, globals)
      /\ Grows(ds, globals, r.ds, globals)
      /\ r.id \in Live(r.ds) /\ v \in r.ds.sets[r.id] /\ ds.sets[cur] \subseteq r.ds.sets[r.id]
      /\ \A a \in DOMAIN globals : r.ds.sets[globals[a]] = ds.sets[globals[a]]
  <2>1. e.fn = v.fn
    BY <1>1, PhiHead
  <2> HIDE DEF e
  <2> QED BY <1>1, <1>3, <2>1, PhiJoinKeeps, StartedKnown DEF ClustersInv, SetsSound
<1> HIDE DEF r
<1>5. Place' /\ NothingMissed'
  BY <1>1, <1>2, <1>4, WithinItem
<1>6. SetsSound'
  BY <1>2, <1>4 DEF ClustersInv, SetsSound, Started
<1>7. PhiInProgress' /\ InstructionInProgress'
  BY <1>1, <1>2, <1>4 DEF PhiInProgress, InstructionInProgress
<1> QED BY <1>1, <1>2, <1>5, <1>6, <1>7 DEF ClustersInv

\* The item in progress is finished and merged.
LEMMA ItemDoneKeeps ==
  ASSUME ClustersInv, phase \in {"phis", "flow"}, items # <<>>, ItemDone,
         UNCHANGED <<prog, ds, globals, phase, fns, fn, blocks>>,
         phase = "phis" => PhiMerged(ds, Head(items)),
         phase = "flow" => CodeMerged(ds, globals, Head(items))
  PROVE  ClustersInv'
<1>1. /\ items' = Tail(items)
      /\ \A x : x \in ItemsOf(items) <=> x = Head(items) \/ x \in ItemsOf(Tail(items))
      /\ phase = "phis" => Tail(items) \in Seq(PhiItem(prog, fn))
      /\ phase = "flow" => Tail(items) \in Seq(CodeItem(prog, fn))
  BY ItemsHeadTail DEF ClustersInv, Place, ItemDone
<1>2. Place'
  BY <1>1 DEF ClustersInv, Place
<1>3. SetsSound'
  BY DEF ClustersInv, SetsSound, Started
<1>4. PhiInProgress' /\ InstructionInProgress'
  BY DEF ItemDone, PhiInProgress, InstructionInProgress
<1>5. NothingMissed'
  <2>1. ASSUME NEW f \in prog.fns, NEW ph \in PhisIn(prog, f)
        PROVE  PhiWaits(f, ph)' \/ PhiMerged(ds, ph)
    BY <1>1 DEF ClustersInv, NothingMissed, PhiWaits
  <2>2. ASSUME NEW f \in prog.fns, NEW c \in CodeIn(prog, f)
        PROVE  CodeWaits(f, c)' \/ CodeMerged(ds, globals, c)
    BY <1>1 DEF ClustersInv, NothingMissed, CodeWaits
  <2> QED BY <2>1, <2>2 DEF NothingMissed
<1> QED BY <1>2, <1>3, <1>4, <1>5 DEF ClustersInv

LEMMA PhiDoneKeeps ==
  ASSUME ClustersInv, PhiDone
  PROVE  ClustersInv'
<1>1. phase = "phis" /\ items # <<>> /\ stage = "inputs" /\ left = {} /\ ItemDone
  BY DEF PhiDone, AtItem
<1>2. PhiMerged(ds, Head(items))
  <2>1. cur \in Live(ds) /\ {Head(items).result} \cup Head(items).inputs \subseteq ds.sets[cur]
    BY <1>1 DEF ClustersInv, PhiInProgress
  <2> QED BY <2>1 DEF PhiMerged, Same, Classes
<1> QED BY <1>1, <1>2, ItemDoneKeeps DEF PhiDone

LEMMA StartInstructionKeeps ==
  ASSUME ClustersInv, StartInstruction
  PROVE  ClustersInv'
<1>1. phase = "flow" /\ stage' = "reads" /\ left' = Head(items).reads
  BY DEF StartInstruction, AtItem
<1>2. UNCHANGED <<prog, ds, globals, phase, fns, fn, blocks, items, cur>>
  BY DEF StartInstruction
<1>3. Grows(ds, globals, ds', globals')
  BY <1>2 DEF Grows
<1>4. Place' /\ NothingMissed'
  BY <1>1, <1>2, <1>3, WithinItem
<1>5. SetsSound'
  BY <1>2 DEF ClustersInv, SetsSound, Started
<1>6. PhiInProgress' /\ InstructionInProgress'
  BY <1>1, <1>2 DEF PhiInProgress, InstructionInProgress
<1> QED BY <1>4, <1>5, <1>6 DEF ClustersInv

\* What insert_var does to a variable of the instruction in progress: the set
\* remembered for its address, if any, is live, and holds it in the end.
LEMMA InsertVarKeeps ==
  ASSUME ClustersInv, phase = "flow", items # <<>>,
         NEW v \in Head(items).reads \cup Head(items).target
  PROVE  /\ ~StaleGlobal(v)
         /\ InsertVar(v) =>
              /\ SoundSets(Links(prog), Started, ds')
              /\ SoundGlobals(FlowVars(prog), ds', globals')
              /\ Grows(ds, globals, ds', globals')
              /\ Placed(ds', globals', v)
<1>1. ~StaleGlobal(v)
  BY DEF StaleGlobal, CanUse, ClustersInv, SetsSound, SoundGlobals
<1>2. v \in FlowVars(prog) /\ v \in Started
  BY InstructionHead
<1>3. v.kind = <<v.kind[1], v.kind[2]>>
  BY <1>2, VariablesWellFormed DEF ClustersInv, Place
<1>4. /\ SoundSets(Links(prog), Started, ds) /\ SoundGlobals(FlowVars(prog), ds, globals)
  BY DEF ClustersInv, SetsSound
<1>5. SUFFICES ASSUME InsertVar(v)
               PROVE  /\ SoundSets(Links(prog), Started, ds')
                      /\ SoundGlobals(FlowVars(prog), ds', globals')
                      /\ Grows(ds, globals, ds', globals')
                      /\ Placed(ds', globals', v)
  BY <1>1
<1>6. CASE v.kind = ReturnAddress
  <2>1. ~IsMemory(v)
    BY <1>6 DEF ReturnAddress, IsMemory
  <2>2. UNCHANGED <<ds, globals>>
    BY <1>5, <1>6 DEF InsertVar
  <2> QED BY <1>4, <2>1, <2>2 DEF Grows, Placed
<1>7. CASE v.kind # ReturnAddress /\ IsMemory(v)
  <2> DEFINE a == Address(v)
             r == InsertMemory(v)
  <2>1. ds' = Insert(r.ds, v).ds /\ globals' = SetGlobal(a, r.id)
    BY <1>5, <1>7 DEF InsertVar
  <2>2. VersionOf(v, a)
    BY <1>3, <1>7 DEF IsMemory, Address, VersionOf
  <2>3. r = MemoryCall(ds, globals, a, v)
    BY DEF InsertMemory, MemoryCall
  <2>4. Remembered(globals', globals, a, r.id)
    BY <2>1 DEF SetGlobal, Remembered
  <2>5. GlobalsLinked(Links(prog), FlowVars(prog))
    BY VariablesWellFormed DEF ClustersInv, Place, GlobalsLinked
  <2> HIDE DEF a, r
  <2>6. /\ SoundSets(Links(prog), Started, r.ds)
        /\ SoundGlobals(FlowVars(prog), r.ds, globals')
        /\ Grows(ds, globals, r.ds, globals')
        /\ Placed(r.ds, globals', v)
        /\ Insert(r.ds, v).ds = r.ds
    <3> DEFINE L == Links(prog)
               K == Started
               F == FlowVars(prog)
               h == globals'
    <3>1. /\ SoundSets(L, K, ds) /\ SoundGlobals(F, ds, globals)
          /\ K \subseteq AllVars /\ v \in K /\ v \in F
          /\ GlobalsLinked(L, F) /\ Remembered(h, globals, a, r.id)
      BY <1>2, <1>4, <2>4, <2>5, StartedKnown
    <3> SUFFICES /\ SoundSets(L, K, r.ds) /\ SoundGlobals(F, r.ds, h)
                 /\ Grows(ds, globals, r.ds, h)
                 /\ Placed(r.ds, h, v) /\ Insert(r.ds, v).ds = r.ds
      OBVIOUS
    <3> DEFINE q == MemoryCall(ds, globals, a, v)
    <3> HIDE DEF L, K, F, h
    <3>2. Remembered(h, globals, a, q.id)
      BY <2>3, <3>1
    <3>3. /\ SoundSets(L, K, q.ds) /\ SoundGlobals(F, q.ds, h)
          /\ Grows(ds, globals, q.ds, h)
          /\ Placed(q.ds, h, v) /\ Insert(q.ds, v).ds = q.ds
      <4>1. Handles(L, K, F, ds, globals, v, a, h)
        BY <2>2, <3>1, <3>2 DEF Handles
      <4> QED BY <4>1, MemoryKeeps
    <3> QED BY <2>3, <3>3
  <2> QED BY <2>1, <2>6
<1>8. CASE v.kind # ReturnAddress /\ ~IsMemory(v)
  <2>1. ds' = Insert(ds, v).ds /\ UNCHANGED globals
    BY <1>5, <1>8 DEF InsertVar
  <2>2. /\ SoundSets(Links(prog), Started, ds')
        /\ SoundGlobals(FlowVars(prog), ds', globals)
        /\ Grows(ds, globals, ds', globals)
    BY <1>2, <1>4, <2>1, StartedKnown, InsertKeeps
  <2> QED BY <1>8, <2>1, <2>2 DEF Placed
<1> QED BY <1>6, <1>7, <1>8

LEMMA ReadKeeps ==
  ASSUME ClustersInv, NEW v \in left, Read(v)
  PROVE  ClustersInv' /\ phase' # "panic"
<1>1. phase = "flow" /\ items # <<>> /\ stage = "reads" /\ left \subseteq Head(items).reads
  BY DEF Read, AtItem, ClustersInv, InstructionInProgress
<1>2. ~StaleGlobal(v)
  BY <1>1, InsertVarKeeps
<1>3. /\ InsertVar(v) /\ left' = left \ {v}
      /\ UNCHANGED <<prog, phase, fns, fn, blocks, items, stage, cur>>
  BY <1>2 DEF Read
<1>4. /\ SoundSets(Links(prog), Started, ds')
      /\ SoundGlobals(FlowVars(prog), ds', globals')
      /\ Grows(ds, globals, ds', globals')
      /\ Placed(ds', globals', v)
  BY <1>1, <1>3, InsertVarKeeps
<1>5. Place' /\ NothingMissed'
  BY <1>1, <1>3, <1>4, WithinItem
<1>6. SetsSound'
  BY <1>1, <1>3, <1>4 DEF SetsSound, Started
<1>7. PhiInProgress' /\ InstructionInProgress'
  <2>1. \A u \in Head(items).reads \ left' : Placed(ds', globals', u)
    BY <1>1, <1>3, <1>4, PlacedStays DEF ClustersInv, InstructionInProgress
  <2> QED BY <1>1, <1>3, <2>1 DEF PhiInProgress, InstructionInProgress
<1> QED BY <1>1, <1>3, <1>5, <1>6, <1>7 DEF ClustersInv

LEMMA NoTargetKeeps ==
  ASSUME ClustersInv, NoTarget
  PROVE  ClustersInv'
<1>1. /\ phase = "flow" /\ items # <<>> /\ stage = "reads" /\ left = {}
      /\ Head(items).target = {} /\ ItemDone
  BY DEF NoTarget, AtItem
<1>2. CodeMerged(ds, globals, Head(items))
  BY <1>1 DEF CodeMerged, ClustersInv, InstructionInProgress
<1> QED BY <1>1, <1>2, ItemDoneKeeps DEF NoTarget

LEMMA TargetKeeps ==
  ASSUME ClustersInv, AtItem("flow", "reads"), NEW t \in Head(items).target, Target(t)
  PROVE  ClustersInv' /\ phase' # "panic"
<1>1. phase = "flow" /\ items # <<>> /\ stage = "reads" /\ left = {}
  BY DEF Target, AtItem
<1>2. ~StaleGlobal(t)
  BY <1>1, InsertVarKeeps
<1>3. /\ InsertVar(t) /\ stage' = "joins"
      /\ left' = {r \in Head(items).reads : r.kind = t.kind}
      /\ UNCHANGED <<prog, phase, fns, fn, blocks, items, cur>>
  BY <1>2 DEF Target
<1>4. /\ SoundSets(Links(prog), Started, ds')
      /\ SoundGlobals(FlowVars(prog), ds', globals')
      /\ Grows(ds, globals, ds', globals')
      /\ Placed(ds', globals', t)
  BY <1>1, <1>3, InsertVarKeeps
<1>5. Place' /\ NothingMissed'
  BY <1>1, <1>3, <1>4, WithinItem
<1>6. SetsSound'
  BY <1>1, <1>3, <1>4 DEF SetsSound, Started
<1>7. PhiInProgress' /\ InstructionInProgress'
  <2>1. \A u \in Head(items).target : u = t
    BY <1>1, InstructionHead
  <2>2. \A u \in Head(items).reads : Placed(ds', globals', u)
    BY <1>1, <1>4, PlacedStays DEF ClustersInv, InstructionInProgress
  <2> QED BY <1>1, <1>3, <1>4, <2>1, <2>2 DEF PhiInProgress, InstructionInProgress
<1> QED BY <1>1, <1>3, <1>5, <1>6, <1>7 DEF ClustersInv

LEMMA JoinReadKeeps ==
  ASSUME ClustersInv, AtItem("flow", "joins"), NEW t \in Head(items).target, NEW r \in left,
         JoinRead(t, r)
  PROVE  ClustersInv'
<1>1. /\ phase = "flow" /\ items # <<>> /\ stage = "joins"
      /\ left \subseteq Head(items).reads /\ t.kind = r.kind
      /\ Placed(ds, globals, t) /\ Placed(ds, globals, r)
  BY DEF AtItem, ClustersInv, InstructionInProgress
<1>2. /\ ds' = Join(ds, t, r).ds /\ left' = left \ {r}
      /\ UNCHANGED <<prog, globals, phase, fns, fn, blocks, items, stage, cur>>
  BY DEF JoinRead
<1>3. t \in Started /\ r \in Started /\ Joinable(Links(prog), t, r)
  BY <1>1, InstructionHead
<1>4. t.kind = <<t.kind[1], t.kind[2]>>
  BY <1>3, VariablesWellFormed DEF Started, ClustersInv, Place
<1>5. /\ SoundSets(Links(prog), Started, ds')
      /\ SoundGlobals(FlowVars(prog), ds', globals)
      /\ Grows(ds, globals, ds', globals)
      /\ Same(ds', t, r)
  BY <1>1, <1>2, <1>3, <1>4, JoinKeeps, StartedKnown DEF ClustersInv, SetsSound
<1>6. Place' /\ NothingMissed'
  BY <1>1, <1>2, <1>5, WithinItem
<1>7. SetsSound'
  BY <1>1, <1>2, <1>5 DEF SetsSound, Started
<1>8. PhiInProgress' /\ InstructionInProgress'
  <2>1. \A u \in Head(items).reads \cup Head(items).target : Placed(ds', globals', u)
    BY <1>1, <1>2, <1>5, PlacedStays DEF ClustersInv, InstructionInProgress
  <2>2. \A u \in Head(items).target : u = t
    BY <1>1, InstructionHead
  <2>3. \A v \in Head(items).reads \ left' : t.kind = v.kind => Same(ds', t, v)
    BY <1>1, <1>2, <1>5 DEF ClustersInv, InstructionInProgress, Grows
  <2>4. \A v \in left' : t.kind = v.kind
    BY <1>1, <1>2 DEF ClustersInv, InstructionInProgress
  <2> QED BY <1>1, <1>2, <2>1, <2>2, <2>3, <2>4 DEF PhiInProgress, InstructionInProgress
<1> QED BY <1>6, <1>7, <1>8 DEF ClustersInv

LEMMA InstructionDoneKeeps ==
  ASSUME ClustersInv, InstructionDone
  PROVE  ClustersInv'
<1>1. phase = "flow" /\ items # <<>> /\ stage = "joins" /\ left = {} /\ ItemDone
  BY DEF InstructionDone, AtItem
<1>2. CodeMerged(ds, globals, Head(items))
  BY <1>1 DEF CodeMerged, ClustersInv, InstructionInProgress
<1> QED BY <1>1, <1>2, ItemDoneKeeps DEF InstructionDone

LEMMA ClustersInvStep == ClustersInv /\ [Next]_vars => ClustersInv'
<1> SUFFICES ASSUME ClustersInv, [Next]_vars PROVE ClustersInv'
  OBVIOUS
<1>1. ASSUME NEW f \in fns, StartFunction(f) PROVE ClustersInv'
  BY <1>1, StartFunctionKeeps
<1>2. ASSUME NEW b \in blocks, EnterBlock(b) PROVE ClustersInv'
  BY <1>2, EnterBlockKeeps
<1>3. CASE EndOfBlocks
  BY <1>3, EndOfBlocksKeeps
<1>4. CASE Phis
  BY <1>4, PhiTargetKeeps, PhiInputKeeps, PhiDoneKeeps DEF Phis
<1>5. CASE Flow
  BY <1>5, StartInstructionKeeps, ReadKeeps, NoTargetKeeps, TargetKeeps, JoinReadKeeps,
     InstructionDoneKeeps DEF Flow
<1>6. CASE \/ StartNaming
           \/ \E i \in Unnamed : \E rep \in ds.sets[i] : NameSet(i, rep)
           \/ AllNamed
           \/ Finished
  BY <1>6, NamingKeeps
<1>7. CASE UNCHANGED vars
  <2>1. UNCHANGED <<prog, ds, globals, phase, fns, fn, blocks, items, stage, left, cur>>
    BY <1>7 DEF vars, position
  <2>2. Place' /\ SetsSound' /\ PhiInProgress' /\ InstructionInProgress'
    BY <2>1 DEF ClustersInv, Place, SetsSound, Started, PhiInProgress, InstructionInProgress
  <2>3. NothingMissed'
    BY <2>1 DEF ClustersInv, NothingMissed, PhiWaits, CodeWaits
  <2> QED BY <2>2, <2>3 DEF ClustersInv
<1> QED BY <1>1, <1>2, <1>3, <1>4, <1>5, <1>6, <1>7 DEF Next

LEMMA ClustersInvHolds == Spec => []ClustersInv
BY ClustersInvInit, ClustersInvStep, PTL DEF Spec

-----------------------------------------------------------------------------
(* What the invariant implies.                                             *)

LEMMA ClustersInvImplies ==
  ASSUME ClustersInv
  PROVE  GlobalsLive /\ ClustersHomogeneous
<1>1. GlobalsLive
  BY DEF ClustersInv, SetsSound, SoundGlobals, GlobalsLive, CanUse
<1>2. ClustersHomogeneous
  BY DEF ClustersInv, SetsSound, SoundSets, Sound, Homogeneous, ClustersHomogeneous
<1> QED BY <1>1, <1>2

\* When the loops are over nothing waits.
LEMMA AllMerged ==
  ASSUME ClustersInv, phase \in {"naming", "done", "panic"}
  PROVE  /\ \A ph \in PhisOf(prog) : PhiMerged(ds, ph)
         /\ \A c \in CodeOf(prog) : CodeMerged(ds, globals, c)
<1>1. fns = {} /\ phase \notin {"phis", "flow"} /\ prog \in Programs
  BY DEF ClustersInv, Place
<1>2. \A f, ph : ~PhiWaits(f, ph)
  BY <1>1 DEF PhiWaits
<1>3. \A f, c : ~CodeWaits(f, c)
  BY <1>1 DEF CodeWaits
<1> QED BY <1>1, <1>2, <1>3, PartsOfProgram DEF ClustersInv, NothingMissed

LEMMA LinkedTogether ==
  ASSUME ClustersInv, phase \in {"naming", "done", "panic"}, NEW l \in Links(prog)
  PROVE  Same(ds, l[1], l[2])
<1>1. CASE l \in PhiLinks(prog)
  <2>1. PICK ph \in PhisOf(prog) : l \in {ph.result} \X ph.inputs
    BY <1>1 DEF PhiLinks
  <2> QED BY <2>1, AllMerged DEF PhiMerged
<1>2. CASE l \in FlowLinks(prog)
  <2>1. PICK c \in CodeOf(prog) : l \in {m \in c.target \X c.reads : m[1].kind = m[2].kind}
    BY <1>2 DEF FlowLinks
  <2> QED BY <2>1, AllMerged DEF CodeMerged
<1>3. CASE l \in GlobalLinks(prog)
  <2>1. /\ l[1] \in FlowVars(prog) /\ l[2] \in FlowVars(prog)
        /\ IsMemory(l[1]) /\ IsMemory(l[2]) /\ l[1].kind = l[2].kind
    BY <1>3 DEF GlobalLinks
  <2>2. \A v \in FlowVars(prog) : Placed(ds, globals, v)
    BY AllMerged DEF FlowVars, CodeMerged
  <2>3. Address(l[1]) = Address(l[2])
    BY <2>1 DEF Address
  <2> QED BY <2>1, <2>2, <2>3 DEF Placed, Same, Classes, ClustersInv, SetsSound, SoundGlobals
<1> QED BY <1>1, <1>2, <1>3 DEF Links

LEMMA InvComponents ==
  ASSUME ClustersInv
  PROVE  ClustersAreComponents
<1> SUFFICES ASSUME phase \in {"naming", "done"}
             PROVE  /\ \A l \in Links(prog) : \E C \in Classes(ds) : l[1] \in C /\ l[2] \in C
                    /\ \A C \in Classes(ds) : \A S \in (SUBSET C) \ {{}, C} :
                         \E l \in Links(prog) :
                            l[1] \in C /\ l[2] \in C /\ (l[1] \in S) # (l[2] \in S)
  BY DEF ClustersAreComponents
<1>1. \A l \in Links(prog) : \E C \in Classes(ds) : l[1] \in C /\ l[2] \in C
  BY LinkedTogether DEF Same
<1>2. ASSUME NEW C \in Classes(ds), NEW S \in (SUBSET C) \ {{}, C}
      PROVE  \E l \in Links(prog) :
                 l[1] \in C /\ l[2] \in C /\ (l[1] \in S) # (l[2] \in S)
  <2>1. Crosses(Links(prog), C, S)
    BY DEF ClustersInv, SetsSound, SoundSets, Sound, Connected
  <2>2. PICK l \in Links(prog) : l[1] \in C /\ l[2] \in C /\ ~(l[1] \in S <=> l[2] \in S)
    BY <2>1 DEF Crosses
  <2>3. (l[1] \in S) # (l[2] \in S)
    BY <2>2
  <2> QED BY <2>2, <2>3
<1> QED BY <1>1, <1>2

-----------------------------------------------------------------------------
(* Naming does not trip over a cluster of a global that `globals` misses.  *)

LEMMA GlobalsFound ==
  ASSUME ClustersInv, phase = "naming", NEW i \in Live(ds),
         NEW w \in ds.sets[i], IsMemory(w), w \in FlowVars(prog)
  PROVE  \E a \in DOMAIN globals : globals[a] = i
<1>1. Good(ds)
  BY DEF ClustersInv, SetsSound, SoundSets
<1>2. Placed(ds, globals, w)
  BY AllMerged DEF FlowVars, CodeMerged
<1>3. Address(w) \in DOMAIN globals /\ w \in ds.sets[globals[Address(w)]]
  BY <1>2 DEF Placed
<1>4. globals[Address(w)] \in Live(ds)
  BY <1>3 DEF ClustersInv, SetsSound, SoundGlobals
<1> QED BY <1>1, <1>3, <1>4, OneSet

\* Every set that is not named yet is in the order of naming.
KeysLive == phase = "naming" => DOMAIN key = Live(ds)

LEMMA KeysLiveStep == KeysLive /\ [Next]_vars => KeysLive'
<1> SUFFICES ASSUME KeysLive, [Next]_vars, phase' = "naming" PROVE DOMAIN key' = Live(ds')
  BY DEF KeysLive, Live
<1>1. CASE StartNaming
  BY <1>1 DEF StartNaming
<1>2. ASSUME NEW i \in Unnamed, NEW rep \in ds.sets[i], NameSet(i, rep) PROVE DOMAIN key' = Live(ds')
  BY <1>2 DEF NameSet, KeysLive
<1>3. CASE UNCHANGED vars
  BY <1>3 DEF vars, position, naming, KeysLive
<1>4. ASSUME phase # "naming", ~StartNaming PROVE FALSE
  <2>1. ASSUME NEW f \in fns, StartFunction(f) PROVE FALSE
    BY <2>1 DEF StartFunction
  <2>2. ASSUME NEW b \in blocks, EnterBlock(b) PROVE FALSE
    BY <1>4, <2>2 DEF EnterBlock
  <2>3. CASE EndOfBlocks
    BY <1>4, <2>3 DEF EndOfBlocks
  <2>4. CASE Phis
    BY <1>4, <2>4 DEF Phis, PhiTarget, PhiInput, PhiDone, Panic
  <2>5. CASE Flow
    BY <1>4, <2>5 DEF Flow, StartInstruction, Read, NoTarget, Target, JoinRead, InstructionDone, Panic
  <2>6. CASE AllNamed \/ Finished \/ UNCHANGED vars
    BY <1>4, <2>6 DEF AllNamed, Finished, vars, position
  <2>7. ASSUME NEW i \in Unnamed, NEW rep \in ds.sets[i], NameSet(i, rep) PROVE FALSE
    BY <1>4, <2>7 DEF NameSet
  <2> QED BY <1>4, <2>1, <2>2, <2>3, <2>4, <2>5, <2>6, <2>7 DEF Next
<1>5. ASSUME phase = "naming" PROVE \/ \E i \in Unnamed : \E rep \in ds.sets[i] : NameSet(i, rep)
                                  \/ UNCHANGED vars
  BY <1>5 DEF Next, StartFunction, EnterBlock, BetweenBlocks, EndOfBlocks, Phis, PhiTarget, PhiInput,
     PhiDone, Flow, StartInstruction, Read, NoTarget, Target, JoinRead, InstructionDone, AtItem,
     StartNaming, AllNamed, Finished
<1> QED BY <1>1, <1>2, <1>3, <1>4, <1>5

LEMMA PanicStep ==
  ASSUME ClustersInv, KeysLive, PanicsOnDeadPhis, [Next]_vars
  PROVE  PanicsOnDeadPhis'
<1> SUFFICES ASSUME phase' = "panic"
             PROVE  \E i \in (DOMAIN key') \ DOMAIN names' : DeadPhis(ds.sets[i])'
  BY DEF PanicsOnDeadPhis, DeadPhis
<1>0. CASE phase = "panic"
  <2>1. UNCHANGED vars
    BY <1>0 DEF Next, StartFunction, EnterBlock, BetweenBlocks, EndOfBlocks, Phis, PhiTarget, PhiInput,
       PhiDone, Flow, StartInstruction, Read, NoTarget, Target, JoinRead, InstructionDone, AtItem,
       StartNaming, NameSet, AllNamed, Finished
  <2>2. UNCHANGED <<prog, ds, key, names>>
    BY <2>1 DEF vars, naming
  <2> QED BY <1>0, <2>2 DEF PanicsOnDeadPhis, DeadPhis, FlowVars, CodeOf, BlocksOf
<1> SUFFICES ASSUME phase # "panic" PROVE \E i \in (DOMAIN key') \ DOMAIN names' : DeadPhis(ds.sets[i])'
  BY <1>0
<1>1. ASSUME NEW f \in fns, StartFunction(f) PROVE FALSE
  BY <1>1 DEF StartFunction
<1>2. ASSUME NEW b \in blocks, EnterBlock(b) PROVE FALSE
  BY <1>2 DEF EnterBlock
<1>3. CASE EndOfBlocks
  BY <1>3 DEF EndOfBlocks
<1>4. CASE Phis
  BY <1>4, PhiInputKeeps DEF Phis, PhiTarget, PhiDone, NoPanic
<1>5. CASE Flow
  BY <1>5, ReadKeeps, TargetKeeps
  DEF Flow, StartInstruction, NoTarget, JoinRead, InstructionDone, NoPanic
<1>6. ASSUME NEW i \in Unnamed, NEW rep \in ds.sets[i], NameSet(i, rep)
      PROVE  i \in (DOMAIN key') \ DOMAIN names' /\ DeadPhis(ds.sets[i])'
  <2>1. /\ phase = "naming" /\ i \notin {globals[a] : a \in DOMAIN globals}
        /\ \E v \in ds.sets[i] : IsMemory(v)
        /\ UNCHANGED <<prog, ds, key, names>>
    BY <1>6 DEF NameSet
  <2>2. i \in Live(ds) /\ i \in DOMAIN key /\ i \notin DOMAIN names
    BY <2>1 DEF Unnamed, KeysLive
  <2>3. \A v \in ds.sets[i] : IsMemory(v)
    <3>1. ds.sets[i] \in Classes(ds)
      BY <2>2 DEF Classes
    <3>2. Homogeneous(ds.sets[i])
      BY <3>1 DEF ClustersInv, SetsSound, SoundSets, Sound
    <3> QED BY <2>1, <3>2 DEF Homogeneous, IsMemory
  <2>4. ds.sets[i] \cap FlowVars(prog) = {}
    BY <2>1, <2>2, <2>3, GlobalsFound
  <2>5. DeadPhis(ds.sets[i])
    BY <2>1, <2>3, <2>4 DEF DeadPhis
  <2>6. DeadPhis(ds.sets[i])'
    BY <2>1, <2>5 DEF DeadPhis, FlowVars, CodeOf, BlocksOf
  <2> QED BY <2>1, <2>2, <2>6
<1>7. CASE StartNaming \/ AllNamed \/ Finished \/ UNCHANGED vars
  BY <1>7 DEF StartNaming, AllNamed, Finished, vars, position
<1> QED BY <1>1, <1>2, <1>3, <1>4, <1>5, <1>6, <1>7 DEF Next

\* Clustering leaves nothing that naming trips over but dead phi functions: no
\* assertion of the disjoint set fails, the sets `globals` remembers live, no set
\* mixes locations or, but for globals, functions, and naming reaches
\* unreachable!() (variable_merger.rs:282) only for a set of phi functions of a
\* global that no instruction mentions.
THEOREM MergerSound == Spec => []ClustersSound
<1>1. Init => KeysLive /\ PanicsOnDeadPhis
  BY DEF Init, KeysLive, PanicsOnDeadPhis
<1>2. KeysLive /\ [Next]_vars => KeysLive'
  BY KeysLiveStep
<1>3. ClustersInv /\ KeysLive /\ PanicsOnDeadPhis /\ [Next]_vars => PanicsOnDeadPhis'
  BY PanicStep
<1>4. ClustersInv /\ PanicsOnDeadPhis => ClustersSound
  BY ClustersInvImplies DEF ClustersSound
<1> QED BY ClustersInvHolds, <1>1, <1>2, <1>3, <1>4, PTL DEF Spec

\* When clustering ends the clusters are the connected components of the links,
\* in whatever order the hash maps were visited (build_clusters).
THEOREM MergerFindsComponents == Spec => []ClustersAreComponents
BY ClustersInvHolds, InvComponents, PTL

-----------------------------------------------------------------------------
(* Names.                                                                  *)

\* Where the name of the set i comes from.
NameMade(i) ==
  LET n == names[i].name
  IN  \E rep \in ds.sets[i] :
        /\ names[i].fn = rep.fn
        /\ \/ n[1] = "user"
           \/ /\ \E a \in DOMAIN globals : globals[a] = i
              /\ n = <<"Global", Address(rep)>>
           \/ /\ n[1] \in {"ptr", "arg"} /\ n = <<n[1], n[2]>>
              /\ n[2] \in Nat /\ n[2] < counter[rep.fn][n[1]]
           \/ /\ ~IsMemory(rep)
              /\ \E v \in ds.sets[i] : n = <<"local", v.kind, v.version>>

NamesInv ==
  /\ phase \in {"functions", "phis", "flow"} => DOMAIN names = {}
  /\ DOMAIN names \subseteq Live(ds)
  /\ counter \in [prog.fns -> [ptr : Nat, arg : Nat]]
  /\ \A i \in DOMAIN names : names[i] = [name |-> names[i].name, fn |-> names[i].fn]
  /\ \A i \in DOMAIN names : NameMade(i)
  /\ \A i, j \in DOMAIN names :
       names[i].name[1] \in {"ptr", "arg"} /\ names[i] = names[j] => i = j

\* A set gets a name that is made for it, and that no other set has.
LEMMA NamedKeeps ==
  ASSUME NamesInv, NEW i \in Unnamed, NEW rep, NEW n, Name(i, rep, n),
         UNCHANGED <<prog, ds, globals>>, phase' = "naming",
         counter' \in [prog.fns -> [ptr : Nat, arg : Nat]],
         \A j \in DOMAIN names : NameMade(j) => NameMade(j)',
         NameMade(i)',
         n[1] \in {"ptr", "arg"} =>
           \A j \in DOMAIN names : names[j] # [name |-> n, fn |-> rep.fn]
  PROVE  NamesInv'
<1>1. /\ DOMAIN names' = (DOMAIN names) \cup {i} /\ i \notin DOMAIN names /\ i \in Live(ds)
      /\ names'[i] = [name |-> n, fn |-> rep.fn]
      /\ \A j \in DOMAIN names : names'[j] = names[j]
  BY DEF Name, Unnamed
<1>2. /\ \A j \in DOMAIN names' : names'[j] = [name |-> names'[j].name, fn |-> names'[j].fn]
      /\ DOMAIN names' \subseteq Live(ds)'
  BY <1>1 DEF NamesInv
<1>3. \A j \in DOMAIN names' : NameMade(j)'
  BY <1>1 DEF NamesInv
<1>4. ASSUME NEW j \in DOMAIN names', NEW k \in DOMAIN names',
             names'[j].name[1] \in {"ptr", "arg"}, names'[j] = names'[k]
      PROVE  j = k
  <2>1. CASE j # i /\ k # i
    BY <1>1, <1>4, <2>1 DEF NamesInv
  <2>2. CASE j = i /\ k # i
    BY <1>1, <1>4, <2>2
  <2>3. CASE j # i /\ k = i
    BY <1>1, <1>4, <2>3
  <2> QED BY <2>1, <2>2, <2>3
<1> QED BY <1>2, <1>3, <1>4 DEF NamesInv

LEMMA NumberedKeeps ==
  ASSUME ClustersInv, NamesInv, NEW i \in Unnamed, NEW rep \in ds.sets[i],
         NEW field \in {"ptr", "arg"}, Numbered(i, rep, field),
         UNCHANGED <<prog, ds, globals>>, phase' = "naming"
  PROVE  NamesInv'
<1> DEFINE n == <<field, counter[rep.fn][field]>>
<1>1. rep.fn \in prog.fns
  <2>1. rep \in Started
    BY DEF Unnamed, ClustersInv, SetsSound, SoundSets, Classes
  <2> QED BY <2>1, VariablesWellFormed DEF Started, ClustersInv, Place
<1>2. /\ Name(i, rep, n)
      /\ counter' = [counter EXCEPT ![rep.fn][field] = counter[rep.fn][field] + 1]
  BY DEF Numbered
<1>3. /\ counter \in [prog.fns -> [ptr : Nat, arg : Nat]]
      /\ \A f \in prog.fns : counter[f]["ptr"] \in Nat /\ counter[f]["arg"] \in Nat
  BY DEF NamesInv
<1>4. /\ counter' \in [prog.fns -> [ptr : Nat, arg : Nat]]
      /\ \A f \in prog.fns, g \in {"ptr", "arg"} : counter[f][g] <= counter'[f][g]
      /\ counter[rep.fn][field] < counter'[rep.fn][field]
  <2>1. CASE field = "ptr"
    BY <1>1, <1>2, <1>3, <2>1
  <2>2. CASE field = "arg"
    BY <1>1, <1>2, <1>3, <2>2
  <2> QED BY <2>1, <2>2
<1>5. /\ i \notin DOMAIN names /\ i \in Live(ds)
      /\ names'[i].name = n /\ names'[i].fn = rep.fn
      /\ \A j \in DOMAIN names : names'[j] = names[j]
  BY <1>2 DEF Name, Unnamed
<1>6. ASSUME NEW j \in DOMAIN names, NameMade(j)
      PROVE  NameMade(j)'
  <2>1. PICK q \in ds.sets[j] :
        /\ names[j].fn = q.fn
        /\ \/ names[j].name[1] = "user"
           \/ /\ \E a \in DOMAIN globals : globals[a] = j
              /\ names[j].name = <<"Global", Address(q)>>
           \/ /\ names[j].name[1] \in {"ptr", "arg"}
              /\ names[j].name = <<names[j].name[1], names[j].name[2]>>
              /\ names[j].name[2] \in Nat /\ names[j].name[2] < counter[q.fn][names[j].name[1]]
           \/ /\ ~IsMemory(q)
              /\ \E v \in ds.sets[j] : names[j].name = <<"local", v.kind, v.version>>
    BY <1>6 DEF NameMade
  <2>2. q.fn \in prog.fns
    <3>1. q \in Started
      BY DEF NamesInv, ClustersInv, SetsSound, SoundSets, Classes
    <3> QED BY <3>1, VariablesWellFormed DEF Started, ClustersInv, Place
  <2>3. ASSUME names[j].name[1] \in {"ptr", "arg"}, names[j].name[2] \in Nat,
               names[j].name[2] < counter[q.fn][names[j].name[1]]
        PROVE  names[j].name[2] < counter'[q.fn][names[j].name[1]]
    <3> DEFINE g == names[j].name[1]
               m == names[j].name[2]
    <3>1. g \in {"ptr", "arg"} /\ m \in Nat /\ m < counter[q.fn][g]
      BY <2>3
    <3>2. counter[q.fn][g] \in Nat /\ counter'[q.fn][g] \in Nat /\ counter[q.fn][g] <= counter'[q.fn][g]
      <4> HIDE DEF g
      <4> QED BY <1>3, <1>4, <2>2, <3>1
    <3> HIDE DEF g, m
    <3>3. m < counter'[q.fn][g]
      BY <3>1, <3>2
    <3> QED BY <3>3 DEF g, m
  <2> QED BY <1>5, <2>1, <2>3 DEF NameMade
<1>7. NameMade(i)'
  <2>1. counter[rep.fn][field] \in Nat
    BY <1>1, <1>3
  <2>2. rep \in ds.sets'[i]
    OBVIOUS
  <2>3. /\ names'[i].name[1] \in {"ptr", "arg"} /\ names'[i].name = <<names'[i].name[1], names'[i].name[2]>>
        /\ names'[i].name[2] \in Nat /\ names'[i].name[2] < counter'[rep.fn][names'[i].name[1]]
    BY <1>4, <1>5, <2>1
  <2> QED BY <1>5, <2>2, <2>3 DEF NameMade
<1>8. ASSUME NEW j \in DOMAIN names, names[j] = [name |-> n, fn |-> rep.fn]
      PROVE  FALSE
  <2>1. names[j].name[1] = field /\ names[j].name[2] = counter[rep.fn][field] /\ names[j].fn = rep.fn
    BY <1>8
  <2>2. names[j].name[2] < counter[rep.fn][field]
    BY <2>1 DEF NamesInv, NameMade
  <2>3. counter[rep.fn][field] \in Nat
    BY <1>1, <1>3
  <2> QED BY <2>1, <2>2, <2>3
<1> HIDE DEF n
<1> QED BY <1>2, <1>4, <1>6, <1>7, <1>8, NamedKeeps

LEMMA NameSetKeeps ==
  ASSUME ClustersInv, NamesInv, NEW i \in Unnamed, NEW rep \in ds.sets[i], NameSet(i, rep)
  PROVE  NamesInv'
<1>1. UNCHANGED <<prog, ds, globals>> /\ phase = "naming" /\ i \in Live(ds)
  BY DEF NameSet, Unnamed
<1>2. ASSUME NEW n, Name(i, rep, n), UNCHANGED <<phase, counter>>, NameMade(i)',
             n[1] \notin {"ptr", "arg"}
      PROVE  NamesInv'
  <2>1. \A j \in DOMAIN names : names'[j] = names[j]
    BY <1>2 DEF Name, Unnamed
  <2>2. \A j \in DOMAIN names : NameMade(j) => NameMade(j)'
    BY <1>1, <1>2, <2>1 DEF NameMade
  <2>3. counter' \in [prog.fns -> [ptr : Nat, arg : Nat]]
    BY <1>2 DEF NamesInv
  <2> QED BY <1>1, <1>2, <2>2, <2>3, NamedKeeps
<1>3. ASSUME NEW n, Name(i, rep, n)
      PROVE  names'[i].name = n /\ names'[i].fn = rep.fn
  BY <1>3 DEF Name
<1>4. ASSUME NEW n, Name(i, rep, <<"user", n>>), UNCHANGED <<phase, counter>>
      PROVE  NamesInv'
  <2>1. names'[i].name[1] = "user" /\ names'[i].fn = rep.fn
    BY <1>3, <1>4
  <2>2. NameMade(i)'
    BY <1>1, <2>1 DEF NameMade
  <2> QED BY <1>2, <1>4, <2>2
<1>5. CASE /\ i \in {globals[a] : a \in DOMAIN globals}
           /\ Name(i, rep, <<"Global", Address(rep)>>)
           /\ UNCHANGED <<phase, counter>>
  <2>1. names'[i].name = <<"Global", Address(rep)>> /\ names'[i].fn = rep.fn
    BY <1>3, <1>5
  <2>2. \E a \in DOMAIN globals : globals[a] = i
    BY <1>5
  <2>3. NameMade(i)'
    BY <1>1, <2>1, <2>2 DEF NameMade
  <2> QED BY <1>2, <1>5, <2>3
<1>6. CASE UNCHANGED <<names, counter>>
  BY <1>1, <1>6 DEF NamesInv, NameMade, NameSet
<1>7. ASSUME NEW field \in {"ptr", "arg"}, Numbered(i, rep, field), UNCHANGED phase
      PROVE  NamesInv'
  BY <1>1, <1>7, NumberedKeeps
<1>8. ASSUME NEW v \in ds.sets[i], \A u \in ds.sets[i] : ~IsMemory(u),
             Name(i, rep, <<"local", v.kind, v.version>>), UNCHANGED <<phase, counter>>
      PROVE  NamesInv'
  <2>1. /\ names'[i].name = <<"local", v.kind, v.version>> /\ names'[i].fn = rep.fn
        /\ ~IsMemory(rep)
    BY <1>3, <1>8
  <2>2. NameMade(i)'
    BY <1>1, <2>1 DEF NameMade
  <2> QED BY <1>2, <1>8, <2>2
<1> QED BY <1>4, <1>5, <1>6, <1>7, <1>8 DEF NameSet

LEMMA NamesInvInit == Init => NamesInv
<1> SUFFICES ASSUME Init PROVE NamesInv
  OBVIOUS
<1>1. DOMAIN names = {} /\ counter = [f \in prog.fns |-> [ptr |-> 1, arg |-> 1]]
  BY DEF Init
<1> QED BY <1>1 DEF NamesInv

\* The clusters are there before the first name is.
LEMMA NamesInvStep == ClustersInv /\ NamesInv /\ [Next]_vars => NamesInv'
<1> SUFFICES ASSUME ClustersInv, NamesInv, [Next]_vars PROVE NamesInv'
  OBVIOUS
<1>1. CASE UNCHANGED <<prog, names, counter>> /\ DOMAIN names = {}
  <2>1. DOMAIN names' = {} /\ prog' = prog /\ counter' = counter
    BY <1>1
  <2> QED BY <2>1 DEF NamesInv
<1>2. CASE UNCHANGED <<prog, ds, globals, names, counter>> /\ phase \notin {"phis", "flow"}
           /\ phase' \in {"functions", "naming", "done", "panic"} /\ (phase' = "functions" => phase = "functions")
  BY <1>2 DEF NamesInv, NameMade
<1>3. CASE phase \in {"functions", "phis", "flow"} /\ UNCHANGED <<prog, naming>>
  BY <1>1, <1>3 DEF naming, NamesInv
<1>4. ASSUME NEW f \in fns, StartFunction(f) PROVE NamesInv'
  BY <1>3, <1>4 DEF StartFunction
<1>5. ASSUME NEW b \in blocks, EnterBlock(b) PROVE NamesInv'
  BY <1>3, <1>5 DEF EnterBlock, BetweenBlocks
<1>6. CASE EndOfBlocks
  BY <1>3, <1>6 DEF EndOfBlocks, BetweenBlocks
<1>7. CASE Phis
  BY <1>3, <1>7 DEF Phis, PhiTarget, PhiInput, PhiDone, Panic, AtItem
<1>8. CASE Flow
  BY <1>3, <1>8 DEF Flow, StartInstruction, Read, NoTarget, Target, JoinRead, InstructionDone,
     Panic, AtItem
<1>9. CASE StartNaming
  <2>1. DOMAIN names = {} /\ UNCHANGED <<prog, names, counter>>
    BY <1>9 DEF StartNaming, NamesInv
  <2> QED BY <1>1, <2>1
<1>10. ASSUME NEW i \in Unnamed, NEW rep \in ds.sets[i], NameSet(i, rep) PROVE NamesInv'
  BY <1>10, NameSetKeeps
<1>11. CASE AllNamed
  BY <1>2, <1>11 DEF AllNamed, naming
<1>12. CASE UNCHANGED vars
  <2>1. UNCHANGED <<prog, ds, globals, phase, names, counter>>
    BY <1>12 DEF vars, position, naming
  <2> QED BY <2>1 DEF NamesInv, NameMade
<1>13. CASE Finished
  BY <1>12, <1>13 DEF Finished
<1> QED BY <1>4, <1>5, <1>6, <1>7, <1>8, <1>9, <1>10, <1>11, <1>12, <1>13 DEF Next

LEMMA NamesInvDistinct ==
  ASSUME ClustersInv, NamesInv
  PROVE  NamesDistinct
<1> SUFFICES ASSUME NEW i \in DOMAIN names, NEW j \in DOMAIN names,
                    i # j, names[i].name = names[j].name, names[i].name[1] # "user"
             PROVE  names[i].fn # names[j].fn /\ names[i].name[1] # "Global"
  BY DEF NamesDistinct
<1> DEFINE n == names[i].name
<1>0. /\ n = names[j].name /\ n[1] # "user" /\ Good(ds) /\ prog \in Programs
      /\ i \in Live(ds) /\ j \in Live(ds)
      /\ names[i] = [name |-> n, fn |-> names[i].fn]
      /\ names[j] = [name |-> n, fn |-> names[j].fn]
  BY DEF NamesInv, ClustersInv, SetsSound, SoundSets, Place
<1>1. PICK p \in ds.sets[i] :
        /\ names[i].fn = p.fn
        /\ \/ /\ \E a \in DOMAIN globals : globals[a] = i
              /\ n = <<"Global", Address(p)>>
           \/ n[1] \in {"ptr", "arg"}
           \/ /\ ~IsMemory(p)
              /\ \E v \in ds.sets[i] : n = <<"local", v.kind, v.version>>
  BY <1>0 DEF NamesInv, NameMade
<1>2. PICK q \in ds.sets[j] :
        /\ names[j].fn = q.fn
        /\ \/ /\ \E a \in DOMAIN globals : globals[a] = j
              /\ n = <<"Global", Address(q)>>
           \/ n[1] \in {"ptr", "arg"}
           \/ /\ ~IsMemory(q)
              /\ \E v \in ds.sets[j] : n = <<"local", v.kind, v.version>>
  BY <1>0 DEF NamesInv, NameMade
<1>3. CASE n[1] = "Global"
  <2>1. /\ \E a \in DOMAIN globals : globals[a] = i
        /\ n = <<"Global", Address(p)>>
    BY <1>1, <1>3
  <2>2. /\ \E a \in DOMAIN globals : globals[a] = j
        /\ n = <<"Global", Address(q)>>
    BY <1>2, <1>3
  <2>3. Address(p) = Address(q)
    BY <2>1, <2>2
  <2>4. globals[Address(p)] = i
    BY <2>1 DEF ClustersInv, SetsSound, SoundGlobals, Address
  <2>5. globals[Address(q)] = j
    BY <2>2 DEF ClustersInv, SetsSound, SoundGlobals, Address
  <2> QED BY <2>3, <2>4, <2>5
<1>4. CASE n[1] \in {"ptr", "arg"}
  <2>1. names[i] # names[j]
    BY <1>0, <1>4 DEF NamesInv
  <2> QED BY <1>0, <1>4, <2>1
<1>5. CASE n[1] \notin {"Global", "ptr", "arg"}
  <2>1. PICK v \in ds.sets[i] : n = <<"local", v.kind, v.version>>
    BY <1>1, <1>5
  <2>2. PICK w \in ds.sets[j] : n = <<"local", w.kind, w.version>>
    BY <1>2, <1>5
  <2>3. v.kind = w.kind /\ v.version = w.version
    BY <2>1, <2>2
  <2>4. v.fn = p.fn /\ w.fn = q.fn
    <3>1. Homogeneous(ds.sets[i]) /\ Homogeneous(ds.sets[j])
      BY <1>0 DEF ClustersInv, SetsSound, SoundSets, Sound, Classes
    <3>2. ~IsMemory(p) /\ ~IsMemory(q)
      BY <1>1, <1>2, <1>5
    <3> QED BY <3>1, <3>2 DEF Homogeneous
  <2>5. ASSUME v.fn = w.fn PROVE FALSE
    <3>1. v \in prog.vars /\ w \in prog.vars
      <4>1. v \in Started /\ w \in Started
        BY <1>0 DEF ClustersInv, SetsSound, SoundSets, Classes
      <4> QED BY <1>0, <4>1, VariablesWellFormed DEF Started
    <3>2. /\ v = [kind |-> v.kind, fn |-> v.fn, version |-> v.version]
          /\ w = [kind |-> w.kind, fn |-> w.fn, version |-> w.version]
      BY <1>0, <3>1, ProgramsWellFormed
    <3>3. v = w
      BY <2>3, <2>5, <3>2
    <3> QED BY <1>0, <3>3, OneSet
  <2> QED BY <1>1, <1>2, <1>5, <2>4, <2>5
<1> QED BY <1>3, <1>4, <1>5

\* No generated name stands for two variables of one function, and a global has
\* one name, in whatever order and from whatever members the clusters are named
\* (generate_cluster_name).
THEOREM MergerNamesApart == Spec => []NamesDistinct
<1>1. Spec => []NamesInv
  BY ClustersInvHolds, NamesInvInit, NamesInvStep, PTL DEF Spec
<1> QED BY <1>1, ClustersInvHolds, NamesInvDistinct, PTL
=============================================================================
