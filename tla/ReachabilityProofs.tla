------------------------- MODULE ReachabilityProofs -------------------------
(***************************************************************************)
(* What Reach computes, for the edges of finitely many nodes: the least    *)
(* set that holds its source and the successors of its own elements.       *)
(*                                                                         *)
(* Induction is over sets of numbers (NumberInduction), so that it needs no *)
(* operator as a parameter: the numbers for which a formula holds.  The    *)
(* recursive function of Rounds exists because it does up to every number  *)
(* (UptoExists), and these agree (UptoUnique).                             *)
(***************************************************************************)
EXTENDS Reachability, FiniteSetTheorems, WellFoundedInduction, TLAPS

LEMMA LeastNumber ==
  ASSUME NEW S, S \subseteq Nat, S # {}
  PROVE  \E m \in S : \A x \in S : m <= x
<1>1. PICK m \in S : \A x \in S : ~ (<<x, m>> \in OpToRel(<, Nat))
  BY NatLessThanWellFounded, WFMin
<1>2. \A x \in S : ~ (x < m)
  BY <1>1 DEF OpToRel
<1> QED BY <1>2

LEMMA NumberInduction ==
  ASSUME NEW T, 0 \in T, \A n \in Nat : n \in T => n + 1 \in T
  PROVE  \A n \in Nat : n \in T
<1> SUFFICES ASSUME Nat \ T # {} PROVE FALSE
  OBVIOUS
<1>1. PICK m \in Nat \ T : \A x \in Nat \ T : m <= x
  BY LeastNumber
<1>2. m - 1 \in Nat /\ ~(m <= m - 1) /\ (m - 1) + 1 = m
  BY <1>1
<1>3. m - 1 \in T
  BY <1>1, <1>2
<1> QED BY <1>1, <1>2, <1>3
-----------------------------------------------------------------------------
(* The recursive function of Rounds.                                       *)

IsRounds(next, S, r) == r = [i \in Nat |-> IF i = 0 THEN S ELSE Spread(next, r[i - 1])]
IsUpto(next, S, h, n) == h = [i \in 0 .. n |-> IF i = 0 THEN S ELSE Spread(next, h[i - 1])]

LEMMA UptoFirst ==
  ASSUME NEW next, NEW S, NEW n \in Nat, NEW h, IsUpto(next, S, h, n)
  PROVE  h[0] = S
<1>1. \A i \in 0 .. n : h[i] = IF i = 0 THEN S ELSE Spread(next, h[i - 1])
  BY DEF IsUpto
<1> QED BY <1>1

LEMMA UptoNext ==
  ASSUME NEW next, NEW S, NEW n \in Nat, NEW h, IsUpto(next, S, h, n)
  PROVE  \A i \in 1 .. n : h[i] = Spread(next, h[i - 1])
<1>1. \A j \in 0 .. n : h[j] = IF j = 0 THEN S ELSE Spread(next, h[j - 1])
  BY DEF IsUpto
<1> QED BY <1>1

LEMMA UptoUnique ==
  ASSUME NEW next, NEW S, NEW n \in Nat, NEW m \in Nat, NEW g, NEW h,
         IsUpto(next, S, g, n), IsUpto(next, S, h, m)
  PROVE  \A i \in Nat : i <= n /\ i <= m => g[i] = h[i]
<1> DEFINE T == {i \in Nat : i <= n /\ i <= m => g[i] = h[i]}
<1>1. 0 \in T
  <2>1. g[0] = S /\ h[0] = S
    BY UptoFirst
  <2> QED BY <2>1
<1>2. ASSUME NEW i \in Nat, i \in T PROVE i + 1 \in T
  <2> SUFFICES ASSUME i + 1 <= n, i + 1 <= m PROVE g[i + 1] = h[i + 1]
    OBVIOUS
  <2>1. i <= n /\ i <= m
    OBVIOUS
  <2>2. g[i] = h[i]
    BY <1>2, <2>1
  <2>3. g[i + 1] = Spread(next, g[i]) /\ h[i + 1] = Spread(next, h[i])
    <3>1. i + 1 \in 1 .. n /\ i + 1 \in 1 .. m /\ (i + 1) - 1 = i
      OBVIOUS
    <3>2. \A j \in 1 .. n : g[j] = Spread(next, g[j - 1])
      BY UptoNext
    <3>3. \A j \in 1 .. m : h[j] = Spread(next, h[j - 1])
      BY UptoNext
    <3> QED BY <3>1, <3>2, <3>3
  <2> QED BY <2>2, <2>3
<1> HIDE DEF T
<1>3. \A i \in Nat : i \in T
  BY <1>1, <1>2, NumberInduction
<1> QED BY <1>3 DEF T

LEMMA UptoExists ==
  ASSUME NEW next, NEW S
  PROVE  \A n \in Nat : \E h : IsUpto(next, S, h, n)
<1> DEFINE T == {n \in Nat : \E h : IsUpto(next, S, h, n)}
<1>1. 0 \in T
  <2> DEFINE h == [i \in 0 .. 0 |-> S]
  <2>1. h = [i \in 0 .. 0 |-> IF i = 0 THEN S ELSE Spread(next, h[i - 1])]
    OBVIOUS
  <2>2. IsUpto(next, S, h, 0)
    BY <2>1 DEF IsUpto
  <2> HIDE DEF h
  <2> QED BY <2>2
<1>2. ASSUME NEW n \in Nat, n \in T PROVE n + 1 \in T
  <2>1. PICK h : IsUpto(next, S, h, n)
    BY <1>2
  <2> DEFINE g == [i \in 0 .. n + 1 |-> IF i = n + 1 THEN Spread(next, h[n]) ELSE h[i]]
  <2>2. ASSUME NEW i \in 0 .. n + 1 PROVE g[i] = IF i = 0 THEN S ELSE Spread(next, g[i - 1])
    <3>1. CASE i = 0
      <4>1. h[0] = S /\ g[0] = h[0]
        BY <2>1, UptoFirst
      <4> QED BY <3>1, <4>1
    <3>2. CASE i \in 1 .. n
      <4>1. g[i] = h[i] /\ g[i - 1] = h[i - 1] /\ i # 0
        BY <3>2
      <4>2. \A j \in 1 .. n : h[j] = Spread(next, h[j - 1])
        BY <2>1, UptoNext
      <4>3. h[i] = Spread(next, h[i - 1])
        BY <3>2, <4>2
      <4> QED BY <4>1, <4>3
    <3>3. CASE i = n + 1
      <4>1. g[i] = Spread(next, h[n]) /\ g[i - 1] = h[n] /\ i # 0
        BY <3>3
      <4> QED BY <4>1
    <3> QED BY <3>1, <3>2, <3>3
  <2>3. g = [i \in 0 .. n + 1 |-> g[i]]
    OBVIOUS
  <2> HIDE DEF g
  <2>4. IsUpto(next, S, g, n + 1)
    BY <2>2, <2>3 DEF IsUpto
  <2> QED BY <2>4
<1> HIDE DEF T
<1>3. \A n \in Nat : n \in T
  BY <1>1, <1>2, NumberInduction
<1> QED BY <1>3 DEF T

LEMMA FunctionExists ==
  ASSUME NEW next, NEW S
  PROVE  \E r : IsRounds(next, S, r)
<1> DEFINE u == [n \in Nat |-> CHOOSE h : IsUpto(next, S, h, n)]
           r == [n \in Nat |-> u[n][n]]
<1>1. \A n \in Nat : IsUpto(next, S, u[n], n)
  BY UptoExists
<1> HIDE DEF u
<1>2. ASSUME NEW n \in Nat PROVE r[n] = IF n = 0 THEN S ELSE Spread(next, r[n - 1])
  <2>1. CASE n = 0
    BY <1>1, <2>1, UptoFirst
  <2>2. CASE n # 0
    <3>1. n - 1 \in Nat /\ n \in 1 .. n /\ n - 1 <= n /\ n <= n /\ n - 1 <= n - 1
      BY <2>2
    <3>2. u[n][n] = Spread(next, u[n][n - 1])
      <4>1. PICK h : h = u[n] /\ IsUpto(next, S, h, n)
        BY <1>1
      <4>2. \A j \in 0 .. n : h[j] = IF j = 0 THEN S ELSE Spread(next, h[j - 1])
        BY <4>1 DEF IsUpto
      <4> QED BY <2>2, <3>1, <4>1, <4>2
    <3>3. u[n][n - 1] = u[n - 1][n - 1]
      <4>1. IsUpto(next, S, u[n], n) /\ IsUpto(next, S, u[n - 1], n - 1)
        BY <1>1, <3>1
      <4> QED BY <3>1, <4>1, UptoUnique
    <3> QED BY <2>2, <3>1, <3>2, <3>3
  <2> QED BY <2>1, <2>2
<1>3. r = [n \in Nat |-> r[n]]
  OBVIOUS
<1> HIDE DEF r
<1>4. IsRounds(next, S, r)
  BY <1>2, <1>3 DEF IsRounds
<1> QED BY <1>4

\* The rounds one by one.
LEMMA RoundsSpread ==
  ASSUME NEW next, NEW S
  PROVE  /\ Rounds(next, S, 0) = S
         /\ \A n \in Nat : Rounds(next, S, n + 1) = Spread(next, Rounds(next, S, n))
<1> DEFINE r == CHOOSE r : IsRounds(next, S, r)
<1>1. IsRounds(next, S, r)
  BY FunctionExists
<1>2. \A n : Rounds(next, S, n) = r[n]
  BY DEF Rounds, IsRounds
<1> HIDE DEF r
<1>3. \A n \in Nat : r[n] = IF n = 0 THEN S ELSE Spread(next, r[n - 1])
  BY <1>1 DEF IsRounds
<1>4. r[0] = S
  BY <1>3
<1>5. \A n \in Nat : r[n + 1] = Spread(next, r[n])
  <2> TAKE n \in Nat
  <2>1. n + 1 \in Nat /\ n + 1 # 0 /\ (n + 1) - 1 = n
    OBVIOUS
  <2> QED BY <1>3, <2>1
<1> QED BY <1>2, <1>4, <1>5
-----------------------------------------------------------------------------
(* The least closed set.                                                   *)

IsClosed(next, X) == \A x \in X \cap DOMAIN next : next[x] \subseteq X

LEMMA SpreadClosed ==
  ASSUME NEW next, NEW X
  PROVE  /\ X \subseteq Spread(next, X)
         /\ Spread(next, X) = X <=> IsClosed(next, X)
BY DEF Spread, IsClosed

LEMMA RoundsLeast ==
  ASSUME NEW next, NEW S, NEW C, S \subseteq C, IsClosed(next, C)
  PROVE  \A n \in Nat : Rounds(next, S, n) \subseteq C
<1> DEFINE T == {n \in Nat : Rounds(next, S, n) \subseteq C}
<1>1. 0 \in T
  BY RoundsSpread
<1>2. ASSUME NEW n \in Nat, n \in T PROVE n + 1 \in T
  <2>1. Rounds(next, S, n + 1) = Spread(next, Rounds(next, S, n))
    BY RoundsSpread
  <2>2. Rounds(next, S, n) \subseteq C
    BY <1>2
  <2>3. Spread(next, Rounds(next, S, n)) \subseteq C
    BY <2>2 DEF Spread, IsClosed
  <2> QED BY <2>1, <2>3
<1> HIDE DEF T
<1>3. \A n \in Nat : n \in T
  BY <1>1, <1>2, NumberInduction
<1> QED BY <1>3 DEF T

LEMMA RoundsHold ==
  ASSUME NEW next, NEW S
  PROVE  \A n \in Nat : S \subseteq Rounds(next, S, n)
<1> DEFINE T == {n \in Nat : S \subseteq Rounds(next, S, n)}
<1>1. 0 \in T
  BY RoundsSpread
<1>2. ASSUME NEW n \in Nat, n \in T PROVE n + 1 \in T
  <2>1. Rounds(next, S, n + 1) = Spread(next, Rounds(next, S, n))
    BY RoundsSpread
  <2> QED BY <1>2, <2>1, SpreadClosed
<1> HIDE DEF T
<1>3. \A n \in Nat : n \in T
  BY <1>1, <1>2, NumberInduction
<1> QED BY <1>3 DEF T

LEMMA LargerSet ==
  ASSUME NEW X, NEW Y, IsFiniteSet(Y), X \subseteq Y, X # Y
  PROVE  Cardinality(Y) >= Cardinality(X) + 1
<1>1. /\ IsFiniteSet(X) /\ Cardinality(X) <= Cardinality(Y)
      /\ Cardinality(Y) = Cardinality(X) => Y = X
  BY FS_Subset
<1>2. Cardinality(X) \in Nat /\ Cardinality(Y) \in Nat
  BY <1>1, FS_CardinalityType
<1> QED BY <1>1, <1>2

\* A round that adds something follows one that added a node with successors: so
\* many rounds have added something, so many such nodes were there before the last.
LEMMA RoundsStop ==
  ASSUME NEW next, NEW S, IsFiniteSet(DOMAIN next)
  PROVE  \A i \in Nat : \/ Rounds(next, S, i + 1) = Rounds(next, S, i)
                        \/ Cardinality(Rounds(next, S, i) \cap DOMAIN next) >= i
<1> DEFINE R(i) == Rounds(next, S, i)
           L(i) == R(i) \cap DOMAIN next
           T == {i \in Nat : R(i + 1) = R(i) \/ Cardinality(L(i)) >= i}
<1>1. \A i \in Nat : R(i + 1) = Spread(next, R(i)) /\ R(i) \subseteq R(i + 1)
  <2> TAKE i \in Nat
  <2>1. R(i + 1) = Spread(next, R(i))
    BY RoundsSpread
  <2>2. R(i) \subseteq Spread(next, R(i))
    BY SpreadClosed
  <2> QED BY <2>1, <2>2
<1>2. \A i \in Nat : IsFiniteSet(L(i)) /\ Cardinality(L(i)) \in Nat
  BY FS_Subset, FS_CardinalityType
<1>3. 0 \in T
  BY <1>2
<1>4. ASSUME NEW i \in Nat, i \in T, R((i + 1) + 1) # R(i + 1)
      PROVE  Cardinality(L(i + 1)) >= i + 1
  <2>1. R(i + 1) = Spread(next, R(i)) /\ R((i + 1) + 1) = Spread(next, R(i + 1))
        /\ R(i) \subseteq R(i + 1)
    BY <1>1
  <2> HIDE DEF R
  <2>2. R(i + 1) # R(i)
    BY <1>4, <2>1
  <2>3. L(i) \subseteq L(i + 1) /\ L(i) # L(i + 1)
    <3>1. ASSUME L(i) = L(i + 1) PROVE Spread(next, R(i + 1)) \subseteq R(i + 1)
      BY <2>1, <3>1 DEF Spread
    <3>2. R(i + 1) \subseteq Spread(next, R(i + 1))
      BY SpreadClosed
    <3> QED BY <1>4, <2>1, <3>1, <3>2
  <2>4. Cardinality(L(i)) >= i
    BY <1>4, <2>2
  <2>5. IsFiniteSet(L(i + 1)) /\ Cardinality(L(i + 1)) \in Nat /\ Cardinality(L(i)) \in Nat
    BY <1>2
  <2> HIDE DEF L
  <2>6. Cardinality(L(i + 1)) >= Cardinality(L(i)) + 1
    BY <2>3, <2>5, LargerSet
  <2> QED BY <2>4, <2>5, <2>6
<1>5. ASSUME NEW i \in Nat, i \in T PROVE i + 1 \in T
  BY <1>4, <1>5
<1> HIDE DEF T
<1>6. \A i \in Nat : i \in T
  BY <1>3, <1>5, NumberInduction
<1> QED BY <1>6 DEF T
-----------------------------------------------------------------------------
\* Reach holds its source and is closed under the edges; every other set that is
\* contains it.
THEOREM ReachHolds ==
  ASSUME NEW next, NEW S, IsFiniteSet(DOMAIN next)
  PROVE  S \subseteq Reach(next, S)
<1>1. Cardinality(DOMAIN next) + 1 \in Nat
  BY FS_CardinalityType
<1> QED BY <1>1, RoundsHold DEF Reach

THEOREM ReachClosed ==
  ASSUME NEW next, NEW S, IsFiniteSet(DOMAIN next)
  PROVE  IsClosed(next, Reach(next, S))
<1> DEFINE n == Cardinality(DOMAIN next) + 1
           L == Rounds(next, S, n) \cap DOMAIN next
<1>1. Cardinality(DOMAIN next) \in Nat
  BY FS_CardinalityType
<1>2. IsFiniteSet(L) /\ Cardinality(L) <= Cardinality(DOMAIN next)
  BY FS_Subset
<1>3. Cardinality(L) \in Nat
  BY <1>2, FS_CardinalityType
<1>4. ~ (Cardinality(L) >= n)
  BY <1>1, <1>2, <1>3
<1>5. n \in Nat
  BY <1>1
<1>6. Rounds(next, S, n + 1) = Rounds(next, S, n)
  BY <1>4, <1>5, RoundsStop
<1>7. Rounds(next, S, n + 1) = Spread(next, Rounds(next, S, n))
  BY <1>5, RoundsSpread
<1> QED BY <1>6, <1>7, SpreadClosed DEF Reach

THEOREM ReachLeast ==
  ASSUME NEW next, NEW S, IsFiniteSet(DOMAIN next),
         NEW C, S \subseteq C, IsClosed(next, C)
  PROVE  Reach(next, S) \subseteq C
<1>1. Cardinality(DOMAIN next) + 1 \in Nat
  BY FS_CardinalityType
<1> QED BY <1>1, RoundsLeast DEF Reach
=============================================================================
