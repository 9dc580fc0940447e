-------------------------- MODULE DisjointSetProofs --------------------------
(***************************************************************************)
(* Proofs about DisjointSet, for any set of elements.                      *)
(*                                                                         *)
(* Every operation is built from Fresh (put a set under a new identifier)  *)
(* or grows one set, so the facts about a call are proved once for those   *)
(* two and carried to the four operations as lemmas about a disjoint set   *)
(* d; the theorems about Spec then have one line per action.               *)
(***************************************************************************)
EXTENDS DisjointSet, TLAPS

WellFormed(d) ==
  /\ d = [element_to_set |-> d.element_to_set,
          sets |-> d.sets, next_id |-> d.next_id]
  /\ Elems(d) \subseteq Elements
  /\ d.element_to_set \in [Elems(d) -> Nat]
  /\ Live(d) \subseteq Nat
  /\ d.sets \in [Live(d) -> SUBSET Elements]
  /\ d.next_id \in Nat
  /\ \A e \in Elems(d) : d.element_to_set[e] \in Live(d)
  /\ \A i \in Live(d) :
       d.sets[i] # {} /\ d.sets[i] = {e \in Elems(d) : d.element_to_set[e] = i}
  /\ \A i \in Live(d) : i < d.next_id

\* What every call promises about the state d it was made in.
GoodCall(d, r) ==
  /\ WellFormed(r.ds)
  /\ r.id \in Live(r.ds)
  /\ d.next_id <= r.ds.next_id
  /\ \A i \in Live(r.ds) : i < d.next_id =>
       i \in Live(d) /\ d.sets[i] \subseteq r.ds.sets[i]

-----------------------------------------------------------------------------
\* A call that changes nothing.
LEMMA KeepGood ==
  ASSUME NEW d, WellFormed(d), NEW i \in Live(d)
  PROVE  GoodCall(d, Result(d, i))
BY DEF GoodCall, Result, WellFormed

\* Putting S under a new identifier is good when S takes every element of the
\* retired sets and of no other set.
LEMMA FreshGood ==
  ASSUME NEW d, WellFormed(d), NEW retired \in SUBSET Live(d),
         NEW S \in SUBSET Elements, S # {},
         \A e \in Elems(d) : e \in S <=> d.element_to_set[e] \in retired
  PROVE  GoodCall(d, Fresh(d, retired, S))
<1> DEFINE n == d.next_id
           r == Fresh(d, retired, S)
<1>1. /\ r.ds.element_to_set = Assign(d, S, n)
      /\ r.ds.sets = Store(d, retired, n, S)
      /\ r.ds.next_id = n + 1
      /\ r.id = n
      /\ r.ds = [element_to_set |-> r.ds.element_to_set,
                 sets |-> r.ds.sets, next_id |-> r.ds.next_id]
  BY DEF Fresh, Result
<1>2. /\ Elems(r.ds) = Elems(d) \cup S
      /\ Live(r.ds) = (Live(d) \ retired) \cup {n}
  BY <1>1 DEF Elems, Live, Assign, Store
<1>3. /\ \A e \in Elems(r.ds) :
           r.ds.element_to_set[e] = IF e \in S THEN n ELSE d.element_to_set[e]
      /\ \A i \in Live(r.ds) : r.ds.sets[i] = IF i = n THEN S ELSE d.sets[i]
  BY <1>1, <1>2 DEF Assign, Store
<1>4. n \in Nat /\ n \notin Live(d)
  BY DEF WellFormed
<1>5. r.ds.element_to_set \in [Elems(r.ds) -> Nat]
  <2>1. \A e \in Elems(r.ds) : r.ds.element_to_set[e] \in Nat
    BY <1>2, <1>3, <1>4 DEF WellFormed
  <2>2. r.ds.element_to_set = [e \in Elems(r.ds) |-> r.ds.element_to_set[e]]
    BY <1>1, <1>2 DEF Assign
  <2> QED BY <2>1, <2>2
<1>6. r.ds.sets \in [Live(r.ds) -> SUBSET Elements]
  <2>1. \A i \in Live(r.ds) : r.ds.sets[i] \in SUBSET Elements
    BY <1>2, <1>3 DEF WellFormed
  <2>2. r.ds.sets = [i \in Live(r.ds) |-> r.ds.sets[i]]
    BY <1>1, <1>2 DEF Store
  <2> QED BY <2>1, <2>2
<1>7. \A e \in Elems(r.ds) : r.ds.element_to_set[e] \in Live(r.ds)
  BY <1>2, <1>3 DEF WellFormed
<1>8. \A i \in Live(r.ds) :
        /\ r.ds.sets[i] # {}
        /\ r.ds.sets[i] = {e \in Elems(r.ds) : r.ds.element_to_set[e] = i}
  <2> SUFFICES ASSUME NEW i \in Live(r.ds)
               PROVE  /\ r.ds.sets[i] # {}
                      /\ r.ds.sets[i] =
                           {e \in Elems(r.ds) : r.ds.element_to_set[e] = i}
    OBVIOUS
  <2>1. CASE i = n
    <3>1. \A e \in Elems(r.ds) : r.ds.element_to_set[e] = n <=> e \in S
      BY <1>2, <1>3, <1>4 DEF WellFormed
    <3> QED BY <2>1, <3>1, <1>2, <1>3
  <2>2. CASE i # n
    <3>1. i \in Live(d) /\ i \notin retired /\ r.ds.sets[i] = d.sets[i]
      BY <2>2, <1>2, <1>3
    <3>2. \A e \in Elems(r.ds) :
            r.ds.element_to_set[e] = i <=>
              (e \in Elems(d) /\ d.element_to_set[e] = i)
      BY <2>2, <3>1, <1>2, <1>3
    <3>3. d.sets[i] # {} /\ d.sets[i] = {e \in Elems(d) : d.element_to_set[e] = i}
      BY <3>1 DEF WellFormed
    <3> QED BY <3>1, <3>2, <3>3, <1>2
  <2> QED BY <2>1, <2>2
<1>9. \A i \in Live(r.ds) : i < r.ds.next_id
  <2>1. \A i \in Live(d) : i < n /\ i \in Nat
    BY DEF WellFormed
  <2> QED BY <2>1, <1>1, <1>2, <1>4
<1>10. WellFormed(r.ds)
  <2>1. /\ Elems(r.ds) \subseteq Elements
        /\ Live(r.ds) \subseteq Nat
        /\ r.ds.next_id \in Nat
    BY <1>1, <1>2, <1>4 DEF WellFormed
  <2> HIDE DEF r
  <2> QED BY <2>1, <1>1, <1>5, <1>6, <1>7, <1>8, <1>9 DEF WellFormed
<1>11. \A i \in Live(r.ds) : i < n =>
         i \in Live(d) /\ d.sets[i] \subseteq r.ds.sets[i]
  BY <1>2, <1>3, <1>4
<1>12. n <= r.ds.next_id /\ r.id \in Live(r.ds)
  BY <1>1, <1>2, <1>4
<1>13. GoodCall(d, r)
  <2> HIDE DEF r
  <2> QED BY <1>10, <1>11, <1>12 DEF GoodCall
<1> QED BY <1>13

\* Growing a live set by an element that was in none is good.
LEMMA GrowGood ==
  ASSUME NEW d, WellFormed(d), NEW id \in Live(d),
         NEW e \in Elements, e \notin Elems(d)
  PROVE  GoodCall(d, InsertJoin(d, id, e))
<1> DEFINE r == InsertJoin(d, id, e)
           S == d.sets[id] \cup {e}
<1>1. /\ r.ds.element_to_set = Assign(d, {e}, id)
      /\ r.ds.sets = Store(d, {}, id, S)
      /\ r.ds.next_id = d.next_id
      /\ r.id = id
      /\ r.ds = [element_to_set |-> r.ds.element_to_set,
                 sets |-> r.ds.sets, next_id |-> r.ds.next_id]
  BY DEF InsertJoin, Result, Known
<1>2. /\ Elems(r.ds) = Elems(d) \cup {e}
      /\ Live(r.ds) = Live(d)
  BY <1>1 DEF Elems, Live, Assign, Store
<1>3. /\ \A x \in Elems(r.ds) :
           r.ds.element_to_set[x] = IF x = e THEN id ELSE d.element_to_set[x]
      /\ \A i \in Live(r.ds) : r.ds.sets[i] = IF i = id THEN S ELSE d.sets[i]
  BY <1>1, <1>2 DEF Assign, Store
<1>4. r.ds.element_to_set \in [Elems(r.ds) -> Nat]
  <2>1. \A x \in Elems(r.ds) : r.ds.element_to_set[x] \in Nat
    BY <1>2, <1>3 DEF WellFormed
  <2>2. r.ds.element_to_set = [x \in Elems(r.ds) |-> r.ds.element_to_set[x]]
    BY <1>1, <1>2 DEF Assign
  <2> QED BY <2>1, <2>2
<1>5. r.ds.sets \in [Live(r.ds) -> SUBSET Elements]
  <2>1. \A i \in Live(r.ds) : r.ds.sets[i] \in SUBSET Elements
    BY <1>2, <1>3 DEF WellFormed
  <2>2. r.ds.sets = [i \in Live(r.ds) |-> r.ds.sets[i]]
    BY <1>1, <1>2 DEF Store
  <2> QED BY <2>1, <2>2
<1>6. \A x \in Elems(r.ds) : r.ds.element_to_set[x] \in Live(r.ds)
  BY <1>2, <1>3 DEF WellFormed
<1>7. \A i \in Live(r.ds) :
        /\ r.ds.sets[i] # {}
        /\ r.ds.sets[i] = {x \in Elems(r.ds) : r.ds.element_to_set[x] = i}
  <2> SUFFICES ASSUME NEW i \in Live(d)
               PROVE  /\ r.ds.sets[i] # {}
                      /\ r.ds.sets[i] =
                           {x \in Elems(r.ds) : r.ds.element_to_set[x] = i}
    BY <1>2
  <2>1. d.sets[i] # {} /\ d.sets[i] = {x \in Elems(d) : d.element_to_set[x] = i}
    BY DEF WellFormed
  <2>2. r.ds.sets[i] = IF i = id THEN d.sets[i] \cup {e} ELSE d.sets[i]
    BY <1>2, <1>3
  <2>3. \A x \in Elems(r.ds) :
          r.ds.element_to_set[x] = i <=>
            \/ x = e /\ i = id
            \/ x \in Elems(d) /\ d.element_to_set[x] = i
    BY <1>2, <1>3
  <2> HIDE DEF r
  <2> QED BY <2>1, <2>2, <2>3, <1>2
<1>8. \A i \in Live(r.ds) : i < r.ds.next_id
  BY <1>1, <1>2 DEF WellFormed
<1>9. WellFormed(r.ds)
  <2>1. /\ Elems(r.ds) \subseteq Elements
        /\ Live(r.ds) \subseteq Nat
        /\ r.ds.next_id \in Nat
    BY <1>1, <1>2 DEF WellFormed
  <2> HIDE DEF r
  <2> QED BY <2>1, <1>1, <1>4, <1>5, <1>6, <1>7, <1>8 DEF WellFormed
<1>10. \A i \in Live(r.ds) : i < d.next_id =>
         i \in Live(d) /\ d.sets[i] \subseteq r.ds.sets[i]
  BY <1>2, <1>3
<1>11. d.next_id <= r.ds.next_id /\ r.id \in Live(r.ds)
  BY <1>1, <1>2 DEF WellFormed
<1>12. GoodCall(d, r)
  <2> HIDE DEF r
  <2> QED BY <1>9, <1>10, <1>11 DEF GoodCall
<1> QED BY <1>12

-----------------------------------------------------------------------------
\* The four operations.
LEMMA InsertGood ==
  ASSUME NEW d, WellFormed(d), NEW e \in Elements
  PROVE  GoodCall(d, Insert(d, e)) /\ e \in Insert(d, e).ds.sets[Insert(d, e).id]
<1>1. CASE Known(d, e)
  <2>1. Insert(d, e) = Result(d, d.element_to_set[e])
    BY <1>1 DEF Insert
  <2>2. d.element_to_set[e] \in Live(d) /\ e \in d.sets[d.element_to_set[e]]
    BY <1>1 DEF WellFormed, Known
  <2> QED BY <2>1, <2>2, KeepGood DEF Result
<1>2. CASE ~Known(d, e)
  <2>1. Insert(d, e) = Fresh(d, {}, {e})
    BY <1>2 DEF Insert
  <2>2. GoodCall(d, Fresh(d, {}, {e}))
    BY <1>2, FreshGood DEF Known
  <2>3. e \in Fresh(d, {}, {e}).ds.sets[Fresh(d, {}, {e}).id]
    BY DEF Fresh, Result, Store
  <2> QED BY <2>1, <2>2, <2>3
<1> QED BY <1>1, <1>2

LEMMA JoinSetsGood ==
  ASSUME NEW d, WellFormed(d), NEW a \in Live(d), NEW b \in Live(d)
  PROVE  GoodCall(d, JoinSets(d, a, b))
<1>1. CASE a = b
  BY <1>1, KeepGood DEF JoinSets
<1>2. CASE a # b
  <2> DEFINE S == d.sets[a] \cup d.sets[b]
  <2>1. S \subseteq Elements /\ S # {}
    BY DEF WellFormed
  <2>2. \A e \in Elems(d) : e \in S <=> d.element_to_set[e] \in {a, b}
    BY DEF WellFormed
  <2>3. GoodCall(d, Fresh(d, {a, b}, S))
    <3> HIDE DEF S
    <3> QED BY <2>1, <2>2, FreshGood
  <2> QED BY <1>2, <2>3 DEF JoinSets
<1> QED BY <1>1, <1>2

LEMMA InsertJoinGood ==
  ASSUME NEW d, WellFormed(d), NEW id \in Live(d), NEW e \in Elements
  PROVE  GoodCall(d, InsertJoin(d, id, e))
<1>1. CASE Known(d, e)
  <2>1. InsertJoin(d, id, e) = JoinSets(d, id, d.element_to_set[e])
    BY <1>1 DEF InsertJoin
  <2>2. d.element_to_set[e] \in Live(d)
    BY <1>1 DEF WellFormed, Known
  <2> QED BY <2>1, <2>2, JoinSetsGood
<1>2. CASE ~Known(d, e)
  BY <1>2, GrowGood DEF Known
<1> QED BY <1>1, <1>2

LEMMA GoodCallsCompose ==
  ASSUME NEW d, NEW r, NEW s, WellFormed(d), GoodCall(d, r), GoodCall(r.ds, s)
  PROVE  GoodCall(d, s)
<1>1. /\ d.next_id \in Nat /\ r.ds.next_id \in Nat /\ s.ds.next_id \in Nat
      /\ Live(s.ds) \subseteq Nat
  BY DEF WellFormed, GoodCall
<1>2. d.next_id <= s.ds.next_id
  BY <1>1 DEF GoodCall
<1>3. \A i \in Live(s.ds) : i < d.next_id =>
        i \in Live(d) /\ d.sets[i] \subseteq s.ds.sets[i]
  <2> SUFFICES ASSUME NEW i \in Live(s.ds), i < d.next_id
               PROVE  i \in Live(d) /\ d.sets[i] \subseteq s.ds.sets[i]
    OBVIOUS
  <2>1. i \in Live(r.ds) /\ r.ds.sets[i] \subseteq s.ds.sets[i]
    BY <1>1 DEF GoodCall
  <2> QED BY <2>1 DEF GoodCall
<1> QED BY <1>2, <1>3 DEF GoodCall

LEMMA JoinGood ==
  ASSUME NEW d, WellFormed(d), NEW e1 \in Elements, NEW e2 \in Elements
  PROVE  GoodCall(d, Join(d, e1, e2))
<1>1. CASE Known(d, e1)
  <2>1. Join(d, e1, e2) = InsertJoin(d, d.element_to_set[e1], e2)
    BY <1>1 DEF Join
  <2>2. d.element_to_set[e1] \in Live(d)
    BY <1>1 DEF WellFormed, Known
  <2> QED BY <2>1, <2>2, InsertJoinGood
<1>2. CASE ~Known(d, e1)
  <2> DEFINE r1 == Insert(d, e1)
             r2 == Insert(r1.ds, e2)
             r3 == JoinSets(r2.ds, r1.id, r2.id)
  <2>1. Join(d, e1, e2) = r3
    BY <1>2 DEF Join
  <2>2. GoodCall(d, r1)
    BY InsertGood
  <2>3. WellFormed(r1.ds)
    BY <2>2 DEF GoodCall
  <2>4. GoodCall(r1.ds, r2)
    <3> HIDE DEF r1
    <3> QED BY <2>3, InsertGood
  <2>5. r1.id \in Live(r2.ds)
    <3>1. r1.id = d.next_id /\ r1.ds.next_id = d.next_id + 1
      BY <1>2 DEF Insert, Fresh, Result
    <3>2. e1 \in r1.ds.sets[r1.id] /\ r1.id \in Live(r1.ds)
      BY <2>2, InsertGood DEF GoodCall
    <3>3. \/ r2 = Result(r1.ds, r1.ds.element_to_set[e2])
          \/ r2 = Fresh(r1.ds, {}, {e2})
      BY DEF Insert
    <3> HIDE DEF r1, r2
    <3> QED BY <3>2, <3>3 DEF Fresh, Result, Store, Live
  <2>6. WellFormed(r2.ds) /\ r2.id \in Live(r2.ds)
    BY <2>4 DEF GoodCall
  <2>7. GoodCall(r2.ds, r3)
    <3> HIDE DEF r1, r2
    <3> QED BY <2>5, <2>6, JoinSetsGood
  <2>8. GoodCall(d, r3)
    <3> HIDE DEF r1, r2, r3
    <3>1. GoodCall(d, r2)
      BY <2>2, <2>4, GoodCallsCompose
    <3> QED BY <2>7, <3>1, GoodCallsCompose
  <2> QED BY <2>1, <2>8
<1> QED BY <1>1, <1>2

-----------------------------------------------------------------------------
\* Every action is a good call made in ds.
LEMMA NextIsGoodCall ==
  ASSUME WellFormed(ds), Next
  PROVE  \E r : GoodCall(ds, r) /\ Returns(r)
<1>1. CASE \E e \in Elements : DoInsert(e)
  BY <1>1, InsertGood DEF DoInsert
<1>2. CASE \E a, b \in Live(ds) : DoJoinSets(a, b)
  BY <1>2, JoinSetsGood DEF DoJoinSets
<1>3. CASE \E a \in Live(ds), e \in Elements : DoInsertJoin(a, e)
  BY <1>3, InsertJoinGood DEF DoInsertJoin
<1>4. CASE \E e1, e2 \in Elements : DoJoin(e1, e2)
  BY <1>4, JoinGood DEF DoJoin
<1> QED BY <1>1, <1>2, <1>3, <1>4 DEF Next

\* The inductive invariant: the disjoint set is well formed, the identifiers
\* callers keep were all handed out, and the last of them is live.
IInv ==
  /\ WellFormed(ds)
  /\ held \subseteq Nat
  /\ \A i \in held : i < ds.next_id
  /\ last \in held \cup {NoCall}
  /\ last # NoCall => last \in Live(ds)

LEMMA InitIInv == Init => IInv
BY DEF Init, IInv, WellFormed, EmptyDS, Elems, Live, NoCall

LEMMA NextIInv == IInv /\ [Next]_vars => IInv'
<1> SUFFICES ASSUME IInv, [Next]_vars PROVE IInv'
  OBVIOUS
<1>1. CASE Next
  <2>1. PICK r : GoodCall(ds, r) /\ Returns(r)
    BY <1>1, NextIsGoodCall DEF IInv
  <2>2. ds' = r.ds /\ last' = r.id /\ held' = held \cup {r.id}
    BY <2>1 DEF Returns
  <2>3. WellFormed(r.ds) /\ r.id \in Live(r.ds) /\ ds.next_id <= r.ds.next_id
    BY <2>1 DEF GoodCall
  <2>4. /\ ds.next_id \in Nat /\ r.ds.next_id \in Nat
        /\ r.id \in Nat /\ r.id < r.ds.next_id
    BY <2>3 DEF IInv, WellFormed
  <2>5. WellFormed(ds')
    BY <2>2, <2>3
  <2>6. \A i \in held' : i \in Nat /\ i < ds'.next_id
    BY <2>2, <2>3, <2>4 DEF IInv
  <2>7. last' \in held' /\ last' \in Live(ds')
    BY <2>2, <2>3
  <2> QED BY <2>5, <2>6, <2>7 DEF IInv
<1>2. CASE UNCHANGED vars
  BY <1>2 DEF vars, IInv
<1> QED BY <1>1, <1>2

LEMMA IInvImplies ==
  IInv => TypeOK /\ MapsAgree /\ IdsBelowNext /\ ReturnedIdLive
BY DEF IInv, WellFormed, TypeOK, MapsAgree, IdsBelowNext, ReturnedIdLive, CanUse

\* The record a DisjointSet holds always has its type (disjoint_set.rs:9-13).
THEOREM TypeCorrect == Spec => []TypeOK
BY InitIInv, NextIInv, IInvImplies, PTL DEF Spec

\* find and iter agree after every call, joins included.
THEOREM MapsAlwaysAgree == Spec => []MapsAgree
BY InitIInv, NextIInv, IInvImplies, PTL DEF Spec

\* The next identifier is new to the maps and to every caller.
THEOREM FreshIds == Spec => []IdsBelowNext
BY InitIInv, NextIInv, IInvImplies, PTL DEF Spec

\* The identifier a call returned satisfies the assertions of the next call.
THEOREM ReturnedIdsLive == Spec => []ReturnedIdLive
BY InitIInv, NextIInv, IInvImplies, PTL DEF Spec

\* An identifier a caller kept is dead or names a superset of what it named.
THEOREM HeldIdsSafe == Spec => HeldIdsNeverSwitch
<1>1. IInv /\ [Next]_vars =>
        [\A i \in held : CanUse(ds, i)' =>
            CanUse(ds, i) /\ ds.sets[i] \subseteq ds'.sets[i]]_vars
  <2> SUFFICES ASSUME IInv, Next, NEW i \in held, CanUse(ds, i)'
               PROVE  CanUse(ds, i) /\ ds.sets[i] \subseteq ds'.sets[i]
    OBVIOUS
  <2>1. PICK r : GoodCall(ds, r) /\ Returns(r)
    BY NextIsGoodCall DEF IInv
  <2>2. i \in Live(r.ds) /\ i < ds.next_id
    BY <2>1 DEF Returns, CanUse, IInv
  <2> QED BY <2>1, <2>2 DEF GoodCall, CanUse, Returns
<1> QED BY <1>1, InitIInv, NextIInv, PTL DEF Spec, HeldIdsNeverSwitch

-----------------------------------------------------------------------------
(***************************************************************************)
(* Refinement: every call is a Unite of the elements it was given.         *)
(***************************************************************************)
Unites(d, r, S) == Classes(r.ds) = Abstract!United(Classes(d), S)

\* Facts about the partition alone.
LEMMA UniteInside ==
  ASSUME NEW cs, NEW C \in cs, NEW S, S # {}, S \subseteq C,
         \A D \in cs : D \cap C # {} => D = C
  PROVE  Abstract!United(cs, S) = cs
<1>1. {D \in cs : D \cap S # {}} = {C}
  OBVIOUS
<1>2. UNION {C} = C
  OBVIOUS
<1> QED BY <1>1, <1>2 DEF Abstract!United

LEMMA AddThenUnite ==
  ASSUME NEW cs, NEW S, NEW x \in S, x \notin UNION cs
  PROVE  Abstract!United(cs \cup {{x}}, S) = Abstract!United(cs, S)
<1> DEFINE T == {C \in cs : C \cap S # {}}
<1>1. {C \in cs \cup {{x}} : C \cap S # {}} = T \cup {{x}}
  OBVIOUS
<1>2. (UNION (T \cup {{x}})) \cup S = (UNION T) \cup S
  OBVIOUS
<1>3. (cs \cup {{x}}) \ (T \cup {{x}}) = cs \ T
  OBVIOUS
<1> QED BY <1>1, <1>2, <1>3 DEF Abstract!United

\* Distinct live identifiers name disjoint sets.
LEMMA SetsDisjoint ==
  ASSUME NEW d, WellFormed(d), NEW i \in Live(d), NEW j \in Live(d),
         d.sets[i] \cap d.sets[j] # {}
  PROVE  i = j
<1>1. PICK e : e \in d.sets[i] /\ e \in d.sets[j]
  OBVIOUS
<1>2. d.element_to_set[e] = i /\ d.element_to_set[e] = j
  BY <1>1 DEF WellFormed
<1> QED BY <1>2

LEMMA UnknownInNoClass ==
  ASSUME NEW d, WellFormed(d), NEW e, ~Known(d, e)
  PROVE  e \notin UNION Classes(d)
BY DEF WellFormed, Known, Classes

LEMMA InsertAdds ==
  ASSUME NEW d, WellFormed(d), NEW e \in Elements
  PROVE  Classes(Insert(d, e).ds) =
           IF Known(d, e) THEN Classes(d) ELSE Classes(d) \cup {{e}}
<1>1. CASE Known(d, e)
  BY <1>1 DEF Insert, Result
<1>2. CASE ~Known(d, e)
  <2> DEFINE f == Store(d, {}, d.next_id, {e})
  <2>1. Insert(d, e).ds.sets = f
    BY <1>2 DEF Insert, Fresh, Result
  <2>2. /\ DOMAIN f = Live(d) \cup {d.next_id}
        /\ f[d.next_id] = {e}
        /\ \A i \in Live(d) : f[i] = d.sets[i]
    BY DEF Store, WellFormed
  <2>3. {f[i] : i \in DOMAIN f} = {d.sets[i] : i \in Live(d)} \cup {{e}}
    <3> HIDE DEF f
    <3> QED BY <2>2
  <2> QED BY <1>2, <2>1, <2>3 DEF Classes, Live
<1> QED BY <1>1, <1>2

LEMMA InsertUnites ==
  ASSUME NEW d, WellFormed(d), NEW e \in Elements
  PROVE  Unites(d, Insert(d, e), {e, e})
<1>1. CASE Known(d, e)
  <2> DEFINE i == d.element_to_set[e]
  <2>1. i \in Live(d) /\ e \in d.sets[i]
    BY <1>1 DEF WellFormed, Known
  <2>2. d.sets[i] \in Classes(d)
    BY <2>1 DEF Classes
  <2>3. \A D \in Classes(d) : D \cap d.sets[i] # {} => D = d.sets[i]
    BY <2>1, SetsDisjoint DEF Classes
  <2>4. Abstract!United(Classes(d), {e, e}) = Classes(d)
    <3> HIDE DEF i
    <3> QED BY <2>1, <2>2, <2>3, UniteInside
  <2> QED BY <1>1, <2>4, InsertAdds DEF Unites
<1>2. CASE ~Known(d, e)
  <2>1. {C \in Classes(d) : C \cap {e, e} # {}} = {}
    BY <1>2, UnknownInNoClass
  <2>2. Abstract!United(Classes(d), {e, e}) = Classes(d) \cup {{e}}
    <3>1. (UNION {}) \cup {e, e} = {e}
      OBVIOUS
    <3> QED BY <2>1, <3>1 DEF Abstract!United
  <2> QED BY <1>2, <2>2, InsertAdds DEF Unites
<1> QED BY <1>1, <1>2

LEMMA JoinSetsUnites ==
  ASSUME NEW d, WellFormed(d), NEW a \in Live(d), NEW b \in Live(d),
         NEW x \in d.sets[a], NEW y \in d.sets[b]
  PROVE  Unites(d, JoinSets(d, a, b), {x, y})
<1>1. d.sets[a] \in Classes(d) /\ d.sets[b] \in Classes(d)
  BY DEF Classes
<1>2. \A i \in Live(d) : d.sets[i] \cap {x, y} # {} <=> i \in {a, b}
  BY SetsDisjoint
<1>3. CASE a = b
  <2>1. \A D \in Classes(d) : D \cap d.sets[a] # {} => D = d.sets[a]
    BY SetsDisjoint DEF Classes
  <2>2. Abstract!United(Classes(d), {x, y}) = Classes(d)
    BY <1>1, <1>3, <2>1, UniteInside
  <2> QED BY <1>3, <2>2 DEF Unites, JoinSets, Result
<1>4. CASE a # b
  <2> DEFINE S == d.sets[a] \cup d.sets[b]
             f == Store(d, {a, b}, d.next_id, S)
  <2>1. JoinSets(d, a, b).ds.sets = f
    BY <1>4 DEF JoinSets, Fresh, Result
  <2>2. /\ DOMAIN f = (Live(d) \ {a, b}) \cup {d.next_id}
        /\ f[d.next_id] = S
        /\ \A i \in Live(d) \ {a, b} : f[i] = d.sets[i]
    BY DEF Store, WellFormed
  <2>3. {f[i] : i \in DOMAIN f} = {d.sets[i] : i \in Live(d) \ {a, b}} \cup {S}
    <3> HIDE DEF f, S
    <3> QED BY <2>2
  <2>4. {C \in Classes(d) : C \cap {x, y} # {}} = {d.sets[a], d.sets[b]}
    BY <1>1, <1>2 DEF Classes
  <2>5. Classes(d) \ {d.sets[a], d.sets[b]} = {d.sets[i] : i \in Live(d) \ {a, b}}
    <3>1. \A i \in Live(d) : d.sets[i] \in {d.sets[a], d.sets[b]} <=> i \in {a, b}
      BY SetsDisjoint
    <3> QED BY <3>1 DEF Classes
  <2>6. (UNION {d.sets[a], d.sets[b]}) \cup {x, y} = S
    OBVIOUS
  <2>7. Abstract!United(Classes(d), {x, y}) =
          {d.sets[i] : i \in Live(d) \ {a, b}} \cup {S}
    BY <2>4, <2>5, <2>6 DEF Abstract!United
  <2> QED BY <2>1, <2>3, <2>7 DEF Unites, Classes, Live
<1> QED BY <1>3, <1>4

LEMMA InsertJoinUnites ==
  ASSUME NEW d, WellFormed(d), NEW id \in Live(d), NEW e \in Elements,
         NEW x \in d.sets[id]
  PROVE  Unites(d, InsertJoin(d, id, e), {x, e})
<1>1. CASE Known(d, e)
  <2>1. /\ d.element_to_set[e] \in Live(d)
        /\ e \in d.sets[d.element_to_set[e]]
    BY <1>1 DEF WellFormed, Known
  <2> QED BY <1>1, <2>1, JoinSetsUnites DEF InsertJoin, Unites
<1>2. CASE ~Known(d, e)
  <2> DEFINE S == d.sets[id] \cup {e}
             f == Store(d, {}, id, S)
  <2>1. InsertJoin(d, id, e).ds.sets = f
    BY <1>2 DEF InsertJoin, Result
  <2>2. /\ DOMAIN f = Live(d)
        /\ f[id] = S
        /\ \A i \in Live(d) \ {id} : f[i] = d.sets[i]
    BY DEF Store
  <2>3. {f[i] : i \in DOMAIN f} = {d.sets[i] : i \in Live(d) \ {id}} \cup {S}
    <3> HIDE DEF f, S
    <3> QED BY <2>2
  <2>4. \A i \in Live(d) : d.sets[i] \cap {x, e} # {} <=> i = id
    <3>1. \A i \in Live(d) : e \notin d.sets[i]
      BY <1>2 DEF WellFormed, Known
    <3> QED BY <3>1, SetsDisjoint
  <2>5. {C \in Classes(d) : C \cap {x, e} # {}} = {d.sets[id]}
    BY <2>4 DEF Classes
  <2>6. Classes(d) \ {d.sets[id]} = {d.sets[i] : i \in Live(d) \ {id}}
    <3>1. \A i \in Live(d) : d.sets[i] = d.sets[id] <=> i = id
      BY SetsDisjoint
    <3> QED BY <3>1 DEF Classes
  <2>7. (UNION {d.sets[id]}) \cup {x, e} = S
    OBVIOUS
  <2>8. Abstract!United(Classes(d), {x, e}) =
          {d.sets[i] : i \in Live(d) \ {id}} \cup {S}
    BY <2>5, <2>6, <2>7 DEF Abstract!United
  <2> QED BY <2>1, <2>3, <2>8 DEF Unites, Classes, Live
<1> QED BY <1>1, <1>2

LEMMA JoinUnites ==
  ASSUME NEW d, WellFormed(d), NEW e1 \in Elements, NEW e2 \in Elements
  PROVE  Unites(d, Join(d, e1, e2), {e1, e2})
<1>1. CASE Known(d, e1)
  <2>1. /\ d.element_to_set[e1] \in Live(d)
        /\ e1 \in d.sets[d.element_to_set[e1]]
    BY <1>1 DEF WellFormed, Known
  <2>2. Join(d, e1, e2) = InsertJoin(d, d.element_to_set[e1], e2)
    BY <1>1 DEF Join
  <2> QED BY <2>1, <2>2, InsertJoinUnites
<1>2. CASE ~Known(d, e1)
  <2> DEFINE r1 == Insert(d, e1)
             d1 == r1.ds
             r2 == Insert(d1, e2)
             d2 == r2.ds
             r3 == JoinSets(d2, r1.id, r2.id)
  <2>1. Join(d, e1, e2) = r3
    BY <1>2 DEF Join
  <2>2. /\ WellFormed(d1) /\ r1.id \in Live(d1) /\ e1 \in d1.sets[r1.id]
        /\ d1.next_id = d.next_id + 1 /\ r1.id = d.next_id
    <3>1. d1.next_id = d.next_id + 1 /\ r1.id = d.next_id
      BY <1>2 DEF Insert, Fresh, Result
    <3>2. WellFormed(d1) /\ r1.id \in Live(d1) /\ e1 \in d1.sets[r1.id]
      BY InsertGood DEF GoodCall
    <3> QED BY <3>1, <3>2
  <2>3. /\ WellFormed(d2) /\ r2.id \in Live(d2) /\ e2 \in d2.sets[r2.id]
    <3> HIDE DEF d1
    <3> QED BY <2>2, InsertGood DEF GoodCall
  <2>4. r1.id \in Live(d2) /\ e1 \in d2.sets[r1.id]
    <3>1. \/ r2 = Result(d1, d1.element_to_set[e2])
          \/ r2 = Fresh(d1, {}, {e2})
      BY DEF Insert
    <3>2. r1.id # d1.next_id
      <4> HIDE DEF r1, d1
      <4> QED BY <2>2 DEF WellFormed
    <3> HIDE DEF r1, d1, r2
    <3> QED BY <2>2, <3>1, <3>2 DEF Fresh, Result, Store, Live
  <2>5. Classes(r3.ds) = Abstract!United(Classes(d2), {e1, e2})
    <3> HIDE DEF r1, d1, r2, d2
    <3> QED BY <2>3, <2>4, JoinSetsUnites DEF Unites
  <2>6. Classes(d1) = Classes(d) \cup {{e1}} /\ e1 \notin UNION Classes(d)
    BY <1>2, InsertAdds, UnknownInNoClass
  <2>7. Abstract!United(Classes(d2), {e1, e2}) =
          Abstract!United(Classes(d1), {e1, e2})
    <3>1. CASE Known(d1, e2)
      <4> HIDE DEF d1
      <4> QED BY <3>1, <2>2, InsertAdds
    <3>2. CASE ~Known(d1, e2)
      <4> HIDE DEF d1
      <4>1. Classes(d2) = Classes(d1) \cup {{e2}} /\ e2 \notin UNION Classes(d1)
        BY <3>2, <2>2, InsertAdds, UnknownInNoClass
      <4> QED BY <4>1, AddThenUnite
    <3> QED BY <3>1, <3>2
  <2>8. Abstract!United(Classes(d1), {e1, e2}) =
          Abstract!United(Classes(d), {e1, e2})
    <3> HIDE DEF d1
    <3> QED BY <2>6, AddThenUnite
  <2> HIDE DEF r3, d2, d1
  <2> QED BY <2>1, <2>5, <2>7, <2>8 DEF Unites
<1> QED BY <1>1, <1>2

LEMMA InitAbstract == Init => Abstract!Init
BY DEF Init, EmptyDS, Classes, Live, Abstract!Init

LEMMA NextAbstract == IInv /\ [Next]_vars => [Abstract!Next]_(Classes(ds))
<1> SUFFICES ASSUME IInv, [Next]_vars PROVE [Abstract!Next]_(Classes(ds))
  OBVIOUS
<1>1. ASSUME NEW e1 \in Elements, NEW e2 \in Elements, NEW r,
             Returns(r), Unites(ds, r, {e1, e2})
      PROVE  Abstract!Next
  <2>1. Classes(ds)' = Classes(r.ds)
    BY <1>1 DEF Returns, Classes, Live
  <2> QED BY <1>1, <2>1 DEF Unites, Abstract!Next, Abstract!Unite
<1>2. WellFormed(ds)
  BY DEF IInv
<1>3. \A i \in Live(ds) : \E x \in Elements : x \in ds.sets[i]
  BY <1>2 DEF WellFormed
<1>4. CASE \E e \in Elements : DoInsert(e)
  BY <1>1, <1>2, <1>4, InsertUnites DEF DoInsert
<1>5. CASE \E a, b \in Live(ds) : DoJoinSets(a, b)
  BY <1>1, <1>2, <1>3, <1>5, JoinSetsUnites DEF DoJoinSets
<1>6. CASE \E a \in Live(ds), e \in Elements : DoInsertJoin(a, e)
  BY <1>1, <1>2, <1>3, <1>6, InsertJoinUnites DEF DoInsertJoin
<1>7. CASE \E e1, e2 \in Elements : DoJoin(e1, e2)
  BY <1>1, <1>2, <1>7, JoinUnites DEF DoJoin
<1>8. CASE UNCHANGED vars
  BY <1>8 DEF vars, Classes, Live
<1> QED BY <1>4, <1>5, <1>6, <1>7, <1>8 DEF Next

\* A DisjointSet implements the partition: whatever sequence of calls is made,
\* its sets change only by uniting the classes of the elements of the call.
THEOREM RefinesPartition == Spec => ImplementsPartition
BY InitIInv, NextIInv, InitAbstract, NextAbstract, PTL
   DEF Spec, ImplementsPartition, Abstract!Spec

\* What a caller may count on between two calls holds after every sequence of
\* calls.
THEOREM SetsAlwaysSound == Spec => []SetsSound
<1>1. TypeOK /\ MapsAgree /\ ReturnedIdLive => SetsSound
  BY DEF SetsSound
<1> QED BY <1>1, TypeCorrect, MapsAlwaysAgree, ReturnedIdsLive, PTL
=============================================================================
