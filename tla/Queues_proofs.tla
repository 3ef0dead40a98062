---------------------------- MODULE Queues_proofs ----------------------------
(* What is left of a queue when some of its elements are taken out, in any   *)
(* queue and of any elements.                                                *)
EXTENDS Queues, FiniteSetTheorems, SequenceTheorems, WellFoundedInduction, TLAPS

(* Every set of numbers that is not empty has a least one.                   *)
LEMMA LeastNat ==
    ASSUME NEW S, S \subseteq Nat, S # {}
    PROVE  \E m \in S : \A k \in S : m <= k
<1>1. PICK m \in S : \A k \in S : ~(<<k, m>> \in OpToRel(<, Nat))
  BY NatLessThanWellFounded, WFMin
<1>2. \A k \in S : ~(k < m)
  BY <1>1 DEF OpToRel
<1> QED BY <1>2

(* The kept places are finitely many, and the rank numbers them in order.    *)
LEMMA RankGrows ==
    ASSUME NEW n \in Nat, NEW P \in SUBSET (1..n)
    PROVE  /\ IsFiniteSet(P) /\ Cardinality(P) \in Nat
           /\ \A i \in P : Rank(P, i) \in 1..Cardinality(P)
           /\ \A i, j \in P : i < j => Rank(P, i) < Rank(P, j)
<1>1. IsFiniteSet(P)
  <2>1. IsFiniteSet(1..n)
    BY FS_Interval
  <2> QED BY <2>1, FS_Subset
<1>2. Cardinality(P) \in Nat
  BY <1>1, FS_CardinalityType
<1> DEFINE Upto(i) == {j \in P : j <= i}
<1>3. \A i \in P : IsFiniteSet(Upto(i)) /\ Cardinality(Upto(i)) \in Nat /\ Cardinality(Upto(i)) <= Cardinality(P)
  BY <1>1, FS_Subset, FS_CardinalityType
<1>4. \A i \in P : Cardinality(Upto(i)) # 0
  <2> SUFFICES ASSUME NEW i \in P PROVE Cardinality(Upto(i)) # 0
    OBVIOUS
  <2>1. i \in Upto(i)
    OBVIOUS
  <2> QED BY <1>3, <2>1, FS_EmptySet
<1>5. \A i, j \in P : i < j => Cardinality(Upto(i)) < Cardinality(Upto(j))
  <2> SUFFICES ASSUME NEW i \in P, NEW j \in P, i < j PROVE Cardinality(Upto(i)) < Cardinality(Upto(j))
    OBVIOUS
  <2>1. i \in Nat /\ j \in Nat /\ \A l \in P : l \in Nat
    OBVIOUS
  <2>3. Upto(i) \subseteq Upto(j) /\ j \in Upto(j) /\ j \notin Upto(i)
    <3>1. \A l \in P : l <= i => l <= j
      BY <2>1
    <3>2. j <= j /\ ~(j <= i)
      BY <2>1
    <3> QED BY <3>1, <3>2
  <2>2. Cardinality(Upto(i)) <= Cardinality(Upto(j)) /\ Cardinality(Upto(i)) # Cardinality(Upto(j))
    BY <1>3, <2>3, FS_Subset
  <2> QED BY <1>3, <2>2
<1> QED BY <1>1, <1>2, <1>3, <1>4, <1>5 DEF Rank

(* Every rank is taken: the numbering leaves out no number.                  *)
LEMMA RankFills ==
    ASSUME NEW n \in Nat, NEW P \in SUBSET (1..n), NEW k \in 1..Cardinality(P)
    PROVE  \E i \in P : Rank(P, i) = k
<1> DEFINE N == 1..Cardinality(P)
           f == [i \in P |-> Rank(P, i)]
<1>1. f \in [P -> N]
  BY RankGrows
<1>2. \A i, j \in P : f[i] = f[j] => i = j
  <2> SUFFICES ASSUME NEW i \in P, NEW j \in P, f[i] = f[j], i # j PROVE FALSE
    OBVIOUS
  <2>1. i < j \/ j < i
    OBVIOUS
  <2>2. /\ Rank(P, i) \in 1..Cardinality(P) /\ Rank(P, j) \in 1..Cardinality(P)
        /\ Cardinality(P) \in Nat
        /\ i < j => Rank(P, i) < Rank(P, j)
        /\ j < i => Rank(P, j) < Rank(P, i)
    BY RankGrows
  <2>3. Rank(P, i) = Rank(P, j)
    OBVIOUS
  <2> HIDE DEF f
  <2> QED BY <2>1, <2>2, <2>3
<1>3. f \in Injection(P, N)
  BY <1>1, <1>2 DEF Injection, IsInjective
<1>4. IsFiniteSet(P) /\ IsFiniteSet(N) /\ Cardinality(N) = Cardinality(P)
  <2>1. IsFiniteSet(P) /\ Cardinality(P) \in Nat
    BY RankGrows
  <2>2. IsFiniteSet(N) /\ Cardinality(N) = IF 1 > Cardinality(P) THEN 0 ELSE Cardinality(P) - 1 + 1
    BY <2>1, FS_Interval
  <2> QED BY <2>1, <2>2
<1>5. f \in Surjection(P, N)
  BY <1>3, <1>4, FS_Injection
<1> QED BY <1>5 DEF Surjection

(* What is left are the elements that are not taken out, each from a place of *)
(* its own, in the same order.                                                *)
LEMMA WithoutPlaces ==
    ASSUME NEW S, NEW s \in Seq(S), NEW X
    PROVE  /\ Without(s, X) \in Seq(S)
           /\ \E p \in [DOMAIN Without(s, X) -> DOMAIN s] :
                /\ \A k \in DOMAIN Without(s, X) : Without(s, X)[k] = s[p[k]] /\ s[p[k]] \notin X
                /\ \A k, l \in DOMAIN Without(s, X) : k < l => p[k] < p[l]
                /\ \A i \in DOMAIN s : s[i] \notin X => \E k \in DOMAIN Without(s, X) : p[k] = i
<1> DEFINE P == KeptPlaces(s, X)
           m == Cardinality(P)
           p == [k \in 1..m |-> CHOOSE i \in P : Rank(P, i) = k]
           w == [k \in 1..m |-> s[p[k]]]
<1>1. Len(s) \in Nat /\ DOMAIN s = 1..Len(s) /\ P \in SUBSET (1..Len(s))
  BY DEF KeptPlaces
<1>2. /\ m \in Nat
      /\ \A i \in P : Rank(P, i) \in 1..m
      /\ \A i, j \in P : i < j => Rank(P, i) < Rank(P, j)
  BY <1>1, RankGrows
<1>3. \A k \in 1..m : p[k] \in P /\ Rank(P, p[k]) = k
  BY <1>1, RankFills
<1>4. Without(s, X) = w
  BY DEF Without
<1>5. \A i \in P : i \in DOMAIN s /\ s[i] \in S /\ s[i] \notin X
  BY <1>1 DEF KeptPlaces
<1> HIDE DEF P
<1>6. w \in [1..m -> S] /\ p \in [1..m -> DOMAIN s]
  BY <1>3, <1>5
<1>7. w \in Seq(S) /\ DOMAIN w = 1..m
  <2>1. \A n \in Nat : \A t \in [1..n -> S] : t \in Seq(S) /\ DOMAIN t = 1..n
    OBVIOUS
  <2> HIDE DEF w, m
  <2> QED BY <1>2, <1>6, <2>1
<1>8. \A k \in 1..m : w[k] = s[p[k]] /\ s[p[k]] \notin X
  BY <1>3, <1>5
<1> HIDE DEF p, m
<1>9. \A k, l \in 1..m : k < l => p[k] < p[l]
  <2> SUFFICES ASSUME NEW k \in 1..m, NEW l \in 1..m, k < l, ~(p[k] < p[l]) PROVE FALSE
    OBVIOUS
  <2>1. p[k] \in P /\ p[l] \in P /\ Rank(P, p[k]) = k /\ Rank(P, p[l]) = l
    BY <1>3
  <2>2. p[k] \in Nat /\ p[l] \in Nat
    <3>1. \A i \in P : i \in Nat
      BY <1>1
    <3> QED BY <2>1, <3>1
  <2>3. p[l] < p[k] \/ p[l] = p[k]
    BY <2>2
  <2> QED BY <1>2, <2>1, <2>3
<1>10. \A i \in DOMAIN s : s[i] \notin X => \E k \in 1..m : p[k] = i
  <2> SUFFICES ASSUME NEW i \in DOMAIN s, s[i] \notin X PROVE p[Rank(P, i)] = i /\ Rank(P, i) \in 1..m
    OBVIOUS
  <2>1. i \in P
    BY DEF P, KeptPlaces
  <2>2. Rank(P, i) \in 1..m
    BY <1>2, <2>1
  <2>3. p[Rank(P, i)] \in P /\ Rank(P, p[Rank(P, i)]) = Rank(P, i)
    BY <1>3, <2>2
  <2>4. ~(p[Rank(P, i)] < i) /\ ~(i < p[Rank(P, i)])
    BY <1>2, <2>1, <2>2, <2>3
  <2>5. i \in Nat /\ p[Rank(P, i)] \in Nat
    BY <1>1, <1>5, <2>1, <2>3
  <2> QED BY <2>2, <2>4, <2>5
<1> HIDE DEF w
<1>11. DOMAIN Without(s, X) = 1..m /\ Without(s, X) \in Seq(S)
  BY <1>4, <1>7
<1>12. p \in [DOMAIN Without(s, X) -> DOMAIN s]
  BY <1>6, <1>11
<1>13. /\ \A k \in DOMAIN Without(s, X) : Without(s, X)[k] = s[p[k]] /\ s[p[k]] \notin X
       /\ \A k, l \in DOMAIN Without(s, X) : k < l => p[k] < p[l]
       /\ \A i \in DOMAIN s : s[i] \notin X => \E k \in DOMAIN Without(s, X) : p[k] = i
  BY <1>4, <1>8, <1>9, <1>10, <1>11
<1> HIDE DEF p
<1> QED BY <1>11, <1>12, <1>13

(* As sets: the elements of X are taken out and no other.                    *)
LEMMA WithoutElements ==
    ASSUME NEW S, NEW s \in Seq(S), NEW X
    PROVE  {Without(s, X)[k] : k \in DOMAIN Without(s, X)} = {s[i] : i \in DOMAIN s} \ X
BY WithoutPlaces

(* An element that is there only once is not there twice afterwards.         *)
LEMMA WithoutRepeats ==
    ASSUME NEW S, NEW s \in Seq(S), NEW X,
           NEW k \in DOMAIN Without(s, X), NEW l \in DOMAIN Without(s, X), k # l
    PROVE  \E i, j \in DOMAIN s : i # j /\ s[i] = Without(s, X)[k] /\ s[j] = Without(s, X)[l]
<1>1. k < l \/ l < k
  BY WithoutPlaces
<1>2. PICK p \in [DOMAIN Without(s, X) -> DOMAIN s] :
                /\ \A x \in DOMAIN Without(s, X) : Without(s, X)[x] = s[p[x]]
                /\ \A x, y \in DOMAIN Without(s, X) : x < y => p[x] < p[y]
  BY WithoutPlaces
<1>3. p[k] \in Nat /\ p[l] \in Nat
  OBVIOUS
<1>4. p[k] # p[l]
  BY <1>1, <1>2, <1>3
<1> QED BY <1>2, <1>4

-----------------------------------------------------------------------------
(* What is in a queue, and what is there only once.                         *)

Has(s, x) == \E i \in DOMAIN s : s[i] = x
Once(s, x) == \A i, j \in DOMAIN s : s[i] = x /\ s[j] = x => i = j

LEMMA EmptyHasNothing == \A x : ~Has(<<>>, x) /\ Once(<<>>, x)
BY DEF Has, Once

LEMMA HasAppend ==
    ASSUME NEW S, NEW s \in Seq(S), NEW e \in S
    PROVE  /\ Append(s, e) \in Seq(S)
           /\ \A x : Has(Append(s, e), x) <=> Has(s, x) \/ x = e
           /\ \A x : Once(s, x) /\ ~(x = e /\ Has(s, x)) => Once(Append(s, e), x)
<1> DEFINE t == Append(s, e)
<1>1. /\ t \in Seq(S) /\ Len(t) = Len(s) + 1 /\ Len(s) \in Nat
      /\ DOMAIN s = 1..Len(s) /\ DOMAIN t = 1..Len(s) + 1
      /\ \A i \in 1..Len(s) : t[i] = s[i]
      /\ t[Len(s) + 1] = e
  BY AppendProperties, LenProperties
<1> HIDE DEF t
<1>2. \A i \in DOMAIN t : (i \in DOMAIN s /\ t[i] = s[i]) \/ (i = Len(s) + 1 /\ t[i] = e)
  BY <1>1
<1>3. \A i \in DOMAIN s : i \in DOMAIN t /\ t[i] = s[i]
  BY <1>1
<1>4. Len(s) + 1 \in DOMAIN t /\ t[Len(s) + 1] = e
  BY <1>1
<1>5. \A x : Has(t, x) <=> Has(s, x) \/ x = e
  BY <1>2, <1>3, <1>4 DEF Has
<1>6. \A x : Once(s, x) /\ ~(x = e /\ Has(s, x)) => Once(t, x)
  BY <1>2, <1>5 DEF Has, Once
<1> QED BY <1>1, <1>5, <1>6 DEF t

LEMMA HasTail ==
    ASSUME NEW S, NEW s \in Seq(S), s # <<>>
    PROVE  /\ Tail(s) \in Seq(S) /\ Head(s) \in S
           /\ Has(s, Head(s))
           /\ \A x : Has(Tail(s), x) => Has(s, x)
           /\ \A x : Has(s, x) => Has(Tail(s), x) \/ x = Head(s)
           /\ \A x : Once(s, x) => Once(Tail(s), x) /\ ~(x = Head(s) /\ Has(Tail(s), x))
<1> DEFINE t == Tail(s)
<1>1. /\ t \in Seq(S) /\ Head(s) \in S /\ Len(t) = Len(s) - 1 /\ Len(s) \in Nat \ {0}
      /\ DOMAIN s = 1..Len(s) /\ DOMAIN t = 1..Len(s) - 1
      /\ \A i \in 1..Len(s) - 1 : t[i] = s[i + 1]
      /\ s[1] = Head(s)
  BY HeadTailProperties, LenProperties, EmptySeq
<1> HIDE DEF t
<1>2. \A i \in DOMAIN t : i + 1 \in DOMAIN s /\ t[i] = s[i + 1] /\ i + 1 # 1 /\ i \in Nat
  BY <1>1
<1>3. \A i \in DOMAIN s : i = 1 \/ (i - 1 \in DOMAIN t /\ t[i - 1] = s[i])
  BY <1>1
<1>4. 1 \in DOMAIN s
  BY <1>1
<1>5. \A x : Has(t, x) => Has(s, x)
  BY <1>2 DEF Has
<1>6. \A x : Has(s, x) => Has(t, x) \/ x = Head(s)
  BY <1>1, <1>3 DEF Has
<1>7. ASSUME NEW x, Once(s, x) PROVE Once(t, x) /\ ~(x = Head(s) /\ Has(t, x))
  <2>1. ASSUME NEW i \in DOMAIN t, NEW j \in DOMAIN t, t[i] = x, t[j] = x PROVE i = j
    <3>1. i + 1 = j + 1
      BY <1>2, <1>7, <2>1 DEF Once
    <3> QED BY <1>2, <3>1
  <2>2. ASSUME x = Head(s), NEW i \in DOMAIN t, t[i] = x PROVE FALSE
    BY <1>1, <1>2, <1>4, <1>7, <2>2 DEF Once
  <2> QED BY <2>1, <2>2 DEF Once, Has
<1> QED BY <1>1, <1>4, <1>5, <1>6, <1>7 DEF Has, t

LEMMA HasWithout ==
    ASSUME NEW S, NEW s \in Seq(S), NEW X
    PROVE  /\ Without(s, X) \in Seq(S)
           /\ \A x : Has(Without(s, X), x) <=> Has(s, x) /\ x \notin X
           /\ \A x : Once(s, x) => Once(Without(s, X), x)
<1>1. \A x : Has(Without(s, X), x) <=> Has(s, x) /\ x \notin X
  BY WithoutElements DEF Has
<1>2. ASSUME NEW x, Once(s, x) PROVE Once(Without(s, X), x)
  BY <1>2, WithoutRepeats DEF Once
<1> QED BY <1>1, <1>2, WithoutPlaces
=============================================================================
