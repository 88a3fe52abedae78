--------------------------- MODULE InductionFacts ---------------------------
(***************************************************************************)
(* Induction over the naturals with the hypothesis given as a set, and     *)
(* what follows from it: a function defined by recursion on a counter      *)
(* exists, and the running total of a sequence of amounts.  Also what the  *)
(* proofs need of small cardinalities.                                     *)
(***************************************************************************)
EXTENDS WellFoundedInduction, FiniteSetTheorems, TLAPS

(* A set that holds 0 and the successor of each of its naturals.           *)
LEMMA Induct ==
  ASSUME NEW S, 0 \in S, \A n \in S \cap Nat : n + 1 \in S
  PROVE  Nat \subseteq S
<1> DEFINE T == Nat \ S
<1>1. SUFFICES ASSUME T # {} PROVE FALSE
  OBVIOUS
<1>2. IsWellFoundedOn(OpToRel(<, Nat), Nat)
  BY NatLessThanWellFounded
<1>3. PICK m \in T : \A k \in T : <<k, m>> \notin OpToRel(<, Nat)
  <2> HIDE DEF T
  <2>1. T \subseteq Nat
    BY DEF T
  <2> QED
    BY <1>1, <1>2, <2>1, WFMin, Zenon
<1>4. \A k \in T : ~(k < m)
  BY <1>3 DEF OpToRel
<1>5. m - 1 \in S \cap Nat
  BY <1>4
<1> QED
  BY <1>5

(* f goes from a by the steps of g, N of them.                             *)
Climbs(N, a, g, f) == f[0] = a /\ \A n \in 1..N : f[n] = g[<<n, f[n - 1]>>]

(* Recursion on a counter: some function takes the steps.                  *)
LEMMA RecursionExists ==
  ASSUME NEW N \in Nat, NEW X, NEW a \in X, NEW g \in [(1..N) \X X -> X]
  PROVE  \E f \in [0..N -> X] : Climbs(N, a, g, f)
<1> DEFINE Up(f, k) == f[0] = a /\ \A n \in 1..k : f[n] = g[<<n, f[n - 1]>>]
           S == {k \in Nat : k <= N => \E f \in [0..k -> X] : Up(f, k)}
<1>1. 0 \in S
  <2>1. [n \in 0..0 |-> a] \in [0..0 -> X] /\ Up([n \in 0..0 |-> a], 0)
    OBVIOUS
  <2> QED
    BY <2>1
<1>2. ASSUME NEW k \in S \cap Nat PROVE k + 1 \in S
  <2>1. SUFFICES ASSUME k + 1 <= N PROVE \E f \in [0..k + 1 -> X] : Up(f, k + 1)
    OBVIOUS
  <2>2. PICK f \in [0..k -> X] : Up(f, k)
    BY <2>1
  <2>3. f[k] \in X /\ k + 1 \in 1..N
    BY <2>1
  <2>4. g[<<k + 1, f[k]>>] \in X
    BY <2>3
  <2> DEFINE h == [n \in 0..k + 1 |-> IF n = k + 1 THEN g[<<k + 1, f[k]>>] ELSE f[n]]
  <2>5. h \in [0..k + 1 -> X]
    BY <2>4
  <2>6. Up(h, k + 1)
    <3>1. h[0] = a
      BY <2>2
    <3>2. ASSUME NEW n \in 1..k + 1 PROVE h[n] = g[<<n, h[n - 1]>>]
      <4>1. CASE n = k + 1
        <5>1. n - 1 = k /\ k \in 0..k + 1 /\ k # k + 1
          BY <4>1
        <5>2. h[n - 1] = f[k] /\ h[n] = g[<<k + 1, f[k]>>]
          BY <4>1, <5>1
        <5> QED
          BY <4>1, <5>2
      <4>2. CASE n # k + 1
        <5>1. n \in 1..k /\ n - 1 \in 0..k /\ h[n] = f[n] /\ h[n - 1] = f[n - 1]
          BY <4>2
        <5> QED
          BY <2>2, <5>1
      <4> QED
        BY <4>1, <4>2
    <3> QED
      BY <3>1, <3>2
  <2> HIDE DEF h
  <2> QED
    BY <2>5, <2>6
<1>3. N \in S
  <2> HIDE DEF S
  <2> QED
    BY <1>1, <1>2, Induct
<1> QED
  BY <1>3 DEF Climbs

(* Two functions that take the same steps from the same value agree.       *)
Alike(N, f, h) == f[0] = h[0] /\ \A n \in 1..N : f[n - 1] = h[n - 1] => f[n] = h[n]
Agree(N, f, h) == \A n \in 0..N : f[n] = h[n]

LEMMA RecursionAgrees == ASSUME NEW N \in Nat, NEW f, NEW h, Alike(N, f, h) PROVE Agree(N, f, h)
<1> USE DEF Alike, Agree
<1> DEFINE S == {k \in Nat : k <= N => f[k] = h[k]}
<1>1. 0 \in S
  OBVIOUS
<1>2. ASSUME NEW k \in S \cap Nat PROVE k + 1 \in S
  <2>1. k + 1 <= N => f[(k + 1) - 1] = h[(k + 1) - 1]
    OBVIOUS
  <2> QED
    BY <2>1
<1>3. Nat \subseteq S
  <2> HIDE DEF S
  <2> QED
    BY <1>1, <1>2, Induct
<1> QED
  BY <1>3

(* The running totals of the amounts c[1], c[2], ... c[N].                  *)
Totals(N, c) == CHOOSE h : h = [n \in 0..N |-> IF n = 0 THEN 0 ELSE h[n - 1] + c[n]]

LEMMA TotalsAdd ==
  ASSUME NEW N \in Nat, NEW c \in [1..N -> Nat]
  PROVE  /\ Totals(N, c) \in [0..N -> Nat] /\ Totals(N, c)[0] = 0
         /\ \A n \in 1..N : Totals(N, c)[n] = Totals(N, c)[n - 1] + c[n]
<1> DEFINE Adds(h) == h = [n \in 0..N |-> IF n = 0 THEN 0 ELSE h[n - 1] + c[n]]
           g == [p \in (1..N) \X Nat |-> p[2] + c[p[1]]]
<1>1. g \in [(1..N) \X Nat -> Nat]
  OBVIOUS
<1>2. PICK f \in [0..N -> Nat] : f[0] = 0 /\ \A n \in 1..N : f[n] = g[<<n, f[n - 1]>>]
  <2> HIDE DEF g
  <2>1. \E f \in [0..N -> Nat] : Climbs(N, 0, g, f)
    BY <1>1, RecursionExists
  <2> QED
    BY <2>1 DEF Climbs
<1>3. Adds(f)
  <2>1. ASSUME NEW n \in 0..N PROVE f[n] = IF n = 0 THEN 0 ELSE f[n - 1] + c[n]
    <3>1. CASE n = 0
      BY <1>2, <3>1
    <3>2. CASE n # 0
      <4>1. n \in 1..N /\ n - 1 \in 0..N
        BY <3>2
      <4>2. f[n - 1] \in Nat /\ f[n] = g[<<n, f[n - 1]>>]
        BY <1>2, <4>1
      <4>3. <<n, f[n - 1]>> \in (1..N) \X Nat
        BY <4>1, <4>2
      <4> QED
        BY <3>2, <4>2, <4>3
    <3> QED
      BY <3>1, <3>2
  <2> QED
    BY <2>1
<1> DEFINE h == Totals(N, c)
<1>4. Adds(h)
  <2> HIDE DEF Adds
  <2>1. h = CHOOSE e : Adds(e)
    BY DEF Totals, Adds
  <2> HIDE DEF h
  <2> QED
    BY <1>3, <2>1
<1> HIDE DEF h
<1>5. ASSUME NEW n \in 0..N PROVE h[n] = IF n = 0 THEN 0 ELSE h[n - 1] + c[n]
  BY <1>4, Zenon
<1>6. h[0] = 0 /\ \A n \in 1..N : h[n] = h[n - 1] + c[n]
  BY <1>5
<1>7. \A n \in 0..N : f[n] = h[n]
  <2>1. \A n \in 1..N : f[n - 1] = h[n - 1] => f[n] = h[n]
    <3>1. ASSUME NEW n \in 1..N PROVE f[n] = f[n - 1] + c[n]
      BY <1>3
    <3> QED
      BY <1>6, <3>1
  <2>2. f[0] = h[0]
    BY <1>2, <1>6
  <2>3. Agree(N, f, h)
    BY <2>1, <2>2, RecursionAgrees DEF Alike
  <2> QED
    BY <2>3 DEF Agree
<1>8. h = f
  <2>1. h = [n \in 0..N |-> h[n]]
    BY <1>4
  <2> QED
    BY <1>7, <2>1
<1> QED
  BY <1>2, <1>6, <1>8 DEF h

(* One amount more by k: every total from there on is more by k.           *)
LEMMA TotalsGrow ==
  ASSUME NEW N \in Nat, NEW c \in [1..N -> Nat], NEW d, NEW t \in 1..N, NEW k \in Nat,
         d = [c EXCEPT ![t] = @ + k]
  PROVE  Totals(N, d)[N] = Totals(N, c)[N] + k
<1> DEFINE m == [n \in 0..N |-> Totals(N, c)[n] + IF t <= n THEN k ELSE 0]
<1>1. d \in [1..N -> Nat] /\ \A n \in 1..N : d[n] = c[n] + IF n = t THEN k ELSE 0
  OBVIOUS
<1>2. /\ \A n \in 0..N : Totals(N, c)[n] \in Nat
      /\ Totals(N, c)[0] = 0
      /\ \A n \in 1..N : Totals(N, c)[n] = Totals(N, c)[n - 1] + c[n]
  BY TotalsAdd
<1>3. Totals(N, d)[0] = 0 /\ \A n \in 1..N : Totals(N, d)[n] = Totals(N, d)[n - 1] + d[n]
  BY <1>1, TotalsAdd
<1>4. m[0] = 0
  BY <1>2
<1>5. ASSUME NEW n \in 1..N PROVE m[n] = m[n - 1] + d[n]
  <2>1. n - 1 \in 0..N /\ n \in 0..N
    OBVIOUS
  <2>2. m[n - 1] = Totals(N, c)[n - 1] + (IF t <= n - 1 THEN k ELSE 0)
    BY <2>1
  <2>3. m[n] = Totals(N, c)[n] + (IF t <= n THEN k ELSE 0)
    BY <2>1
  <2>4. Totals(N, c)[n - 1] \in Nat /\ c[n] \in Nat
    BY <1>2, <2>1
  <2>5. Totals(N, c)[n] = Totals(N, c)[n - 1] + c[n] /\ d[n] = c[n] + IF n = t THEN k ELSE 0
    BY <1>1, <1>2
  <2> HIDE DEF m
  <2> QED
    BY <2>2, <2>3, <2>4, <2>5
<1>6. Agree(N, Totals(N, d), m)
  <2> HIDE DEF m
  <2>1. \A n \in 1..N : Totals(N, d)[n - 1] = m[n - 1] => Totals(N, d)[n] = m[n]
    <3> SUFFICES ASSUME NEW n \in 1..N, Totals(N, d)[n - 1] = m[n - 1]
                 PROVE  Totals(N, d)[n] = m[n]
      OBVIOUS
    <3>1. Totals(N, d)[n] = Totals(N, d)[n - 1] + d[n]
      BY <1>3
    <3>2. m[n] = m[n - 1] + d[n]
      BY <1>5
    <3> QED
      BY <3>1, <3>2, Zenon
  <2>2. Alike(N, Totals(N, d), m)
    BY <1>3, <1>4, <2>1, Zenon DEF Alike
  <2> QED
    BY <2>2, RecursionAgrees
<1>7. Totals(N, d)[N] = m[N]
  <2> HIDE DEF m
  <2>1. N \in 0..N
    OBVIOUS
  <2> QED
    BY <1>6, <2>1, Zenon DEF Agree
<1> QED
  BY <1>7

(* Nothing but zeroes add up to nothing.                                   *)
LEMMA TotalsOfNone ==
  ASSUME NEW N \in Nat, NEW c \in [1..N -> Nat], \A n \in 1..N : c[n] = 0
  PROVE  Totals(N, c)[N] = 0
<1> DEFINE z == [n \in 0..N |-> 0]
<1>1. Alike(N, Totals(N, c), z)
  <2>1. z[0] = 0 /\ \A n \in 1..N : z[n - 1] = 0 /\ z[n] = 0
    OBVIOUS
  <2> HIDE DEF z
  <2>2. ASSUME NEW n \in 1..N, Totals(N, c)[n - 1] = 0 PROVE Totals(N, c)[n] = 0
    <3>1. Totals(N, c)[n] = Totals(N, c)[n - 1] + c[n]
      BY TotalsAdd
    <3> QED
      BY <2>2, <3>1
  <2> QED
    BY <2>1, <2>2, TotalsAdd DEF Alike
<1>2. Agree(N, Totals(N, c), z)
  <2> HIDE DEF z
  <2> QED
    BY <1>1, RecursionAgrees
<1> QED
  BY <1>2 DEF Agree

(* A set no two of whose elements differ has at most one.                  *)
LEMMA AtMostOne ==
  ASSUME NEW S, \A x, y \in S : x = y
  PROVE  IsFiniteSet(S) /\ Cardinality(S) <= 1
<1>1. CASE S = {}
  BY <1>1, FS_EmptySet
<1>2. CASE S # {}
  <2>1. PICK x : S = {x}
    BY <1>2
  <2>2. IsFiniteSet({x}) /\ Cardinality({x}) = 1
    BY FS_Singleton, Zenon
  <2> QED
    BY <2>1, <2>2
<1> QED
  BY <1>1, <1>2
=============================================================================
