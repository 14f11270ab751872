----------------------------- MODULE DataLemmas -----------------------------
(***************************************************************************)
(* What filter and retain return: every element that is kept, once and in  *)
(* its place, and nothing else; what a sum over a set is; the least of     *)
(* some numbers; and what a pool of connections holds.                     *)
(***************************************************************************)
EXTENDS Filter, FiniteSetTheorems, TLAPS

(* Facts of arithmetic, for counters that are fields of records.           *)
LEMMA Counting ==
    /\ \A x \in Nat : x <= x /\ x >= x /\ x < x + 1 /\ x + 1 >= x /\ 1 <= x + 1 /\ x + 1 \in Nat /\ x - x = 0
    /\ \A x, y \in Nat : x <= y => x + 1 <= y + 1
    /\ \A x, y \in Nat : x < y => x < y + 1
    /\ \A x, y \in Nat : x <= y + (x - y)
  OBVIOUS

(* Three counters, of which each is within the next.                       *)
LEMMA CountingOn == \A x, y, z \in Nat : x <= y /\ y <= z => x + 1 <= z + 1
  OBVIOUS

(* Some of the first n positions are finitely many.                        *)
LEMMA PosFinite ==
    ASSUME NEW n \in Nat, NEW K \in SUBSET (1..n)
    PROVE  IsFiniteSet(K) /\ Cardinality(K) \in Nat /\ Cardinality(K) <= n
  <1>1. IsFiniteSet(1..n) /\ Cardinality(1..n) = n
    <2>1. /\ IsFiniteSet(1..n)
          /\ Cardinality(1..n) = IF 1 > n THEN 0 ELSE n - 1 + 1
      BY FS_Interval
    <2> QED
      BY <2>1
  <1>2. IsFiniteSet(K) /\ Cardinality(K) <= Cardinality(1..n)
    BY <1>1, FS_Subset, Zenon
  <1>3. Cardinality(K) \in Nat
    BY <1>2, FS_CardinalityType
  <1> QED
    BY <1>1, <1>2, <1>3

(* The rank of a position counts from one, and grows with the position.    *)
LEMMA RankGrows ==
    ASSUME NEW n \in Nat, NEW K \in SUBSET (1..n)
    PROVE  /\ \A k \in K : PosRank(K, k) \in 1..Cardinality(K)
           /\ \A k, l \in K : k < l => PosRank(K, k) < PosRank(K, l)
  <1> DEFINE Upto(k) == {j \in K : j <= k}
  <1>1. ASSUME NEW A \in SUBSET K, NEW B \in SUBSET A
        PROVE  /\ IsFiniteSet(A) /\ Cardinality(A) \in Nat /\ Cardinality(B) \in Nat
               /\ Cardinality(B) <= Cardinality(A) /\ (Cardinality(A) = Cardinality(B) => A = B)
    <2>1. A \in SUBSET (1..n) /\ B \in SUBSET (1..n)
      BY <1>1
    <2>2. IsFiniteSet(A) /\ Cardinality(A) \in Nat /\ Cardinality(B) \in Nat
      BY <2>1, PosFinite
    <2> QED
      BY <2>2, FS_Subset, Zenon
  <1>2. ASSUME NEW k \in K PROVE PosRank(K, k) \in 1..Cardinality(K)
    <2>1. Upto(k) \in SUBSET K /\ {k} \in SUBSET Upto(k)
      OBVIOUS
    <2>2. /\ Cardinality(Upto(k)) \in Nat /\ Cardinality(K) \in Nat /\ Cardinality(Upto(k)) <= Cardinality(K)
      BY <1>1, <2>1
    <2>3. Cardinality({k}) <= Cardinality(Upto(k)) /\ Cardinality({k}) = 1
      BY <1>1, <2>1, FS_Singleton
    <2> QED
      BY <2>2, <2>3 DEF PosRank
  <1>3. ASSUME NEW k \in K, NEW l \in K, k < l PROVE PosRank(K, k) < PosRank(K, l)
    <2>1. Upto(l) \in SUBSET K /\ Upto(k) \in SUBSET Upto(l) /\ l \in Upto(l) /\ l \notin Upto(k)
      <3>1. \A j \in K : j \in Nat
        OBVIOUS
      <3>2. \A i, j, m \in Nat : j < m => ~(m <= j) /\ m <= m /\ (i <= j => i <= m)
        OBVIOUS
      <3> QED
        BY <1>3, <3>1, <3>2, Zenon
    <2>2. /\ Cardinality(Upto(l)) \in Nat /\ Cardinality(Upto(k)) \in Nat
          /\ Cardinality(Upto(k)) <= Cardinality(Upto(l)) /\ Cardinality(Upto(l)) # Cardinality(Upto(k))
      BY <1>1, <2>1
    <2> QED
      BY <2>2 DEF PosRank
  <1> QED
    BY <1>2, <1>3

(* Every rank is that of exactly one position.                             *)
LEMMA RankOnto ==
    ASSUME NEW n \in Nat, NEW K \in SUBSET (1..n)
    PROVE  /\ \A k, l \in K : PosRank(K, k) = PosRank(K, l) => k = l
           /\ \A m \in 1..Cardinality(K) : \E k \in K : PosRank(K, k) = m
  <1> DEFINE f == [k \in K |-> PosRank(K, k)]
             R == 1..Cardinality(K)
  <1>1. IsFiniteSet(K) /\ Cardinality(K) \in Nat
    BY PosFinite
  <1>2. ASSUME NEW k \in K, NEW l \in K, PosRank(K, k) = PosRank(K, l) PROVE k = l
    <2>1. /\ PosRank(K, k) \in Nat /\ k \in Nat /\ l \in Nat
          /\ k < l => PosRank(K, k) < PosRank(K, l)
          /\ l < k => PosRank(K, l) < PosRank(K, k)
      <3>1. /\ \A i \in K : PosRank(K, i) \in 1..Cardinality(K)
            /\ \A i, j \in K : i < j => PosRank(K, i) < PosRank(K, j)
        BY RankGrows, Zenon
      <3> QED
        BY <1>1, <3>1
    <2> QED
      BY <1>2, <2>1
  <1>3. f \in Injection(K, R)
    <2>1. f \in [K -> R]
      BY RankGrows, Zenon
    <2>2. \A k, l \in K : f[k] = f[l] => k = l
      BY <1>2
    <2> QED
      BY <2>1, <2>2, Zenon DEF Injection, IsInjective
  <1>4. IsFiniteSet(R) /\ Cardinality(R) = Cardinality(K)
    <2>1. /\ IsFiniteSet(1..Cardinality(K))
          /\ Cardinality(1..Cardinality(K)) = IF 1 > Cardinality(K) THEN 0 ELSE Cardinality(K) - 1 + 1
      BY <1>1, FS_Interval
    <2> QED
      BY <1>1, <2>1
  <1> HIDE DEF f
  <1>5. f \in Surjection(K, R)
    BY <1>3, <1>4, FS_Injection
  <1>6. \A m \in R : \E k \in K : f[k] = m
    BY <1>5 DEF Surjection
  <1> QED
    BY <1>2, <1>6 DEF f

(* The result has one element for each position that is kept: at the rank  *)
(* of the position, the element of the position.                           *)
LEMMA FilterKeeps ==
    ASSUME NEW S, NEW s \in Seq(S), NEW K \in SUBSET DOMAIN s
    PROVE  /\ Filtered(s, K) \in Seq(S) /\ Len(Filtered(s, K)) = Cardinality(K)
           /\ Cardinality(K) \in Nat /\ IsFiniteSet(K)
           /\ \A k \in K : PosRank(K, k) \in 1..Cardinality(K) /\ Filtered(s, K)[PosRank(K, k)] = s[k]
           /\ \A m \in 1..Cardinality(K) : \E k \in K : PosRank(K, k) = m /\ Filtered(s, K)[m] = s[k]
  <1> DEFINE at(m) == CHOOSE k \in K : PosRank(K, k) = m
  <1>1. Len(s) \in Nat /\ DOMAIN s = 1..Len(s) /\ K \in SUBSET (1..Len(s))
    OBVIOUS
  <1>2. Cardinality(K) \in Nat /\ IsFiniteSet(K)
    BY <1>1, PosFinite
  <1>3. ASSUME NEW m \in 1..Cardinality(K) PROVE at(m) \in K /\ PosRank(K, at(m)) = m /\ Filtered(s, K)[m] = s[at(m)]
    <2>1. \E k \in K : PosRank(K, k) = m
      BY <1>1, RankOnto
    <2>2. at(m) \in K /\ PosRank(K, at(m)) = m
      BY <2>1, Zenon
    <2> QED
      BY <2>2 DEF Filtered
  <1>4. \A k \in DOMAIN s : s[k] \in S
    OBVIOUS
  <1>5. Filtered(s, K) \in [1..Cardinality(K) -> S]
    <2>1. \A m \in 1..Cardinality(K) : s[at(m)] \in S
      BY <1>3, <1>4
    <2> QED
      BY <2>1, Zenon DEF Filtered
  <1>6. Filtered(s, K) \in Seq(S) /\ Len(Filtered(s, K)) = Cardinality(K)
    <2>1. \A T : \A g \in [1..Cardinality(K) -> T] : g \in Seq(T) /\ Len(g) = Cardinality(K)
      BY <1>2
    <2> QED
      BY <1>5, <2>1
  <1>7. ASSUME NEW k \in K PROVE PosRank(K, k) \in 1..Cardinality(K) /\ Filtered(s, K)[PosRank(K, k)] = s[k]
    <2>1. PosRank(K, k) \in 1..Cardinality(K)
      BY <1>1, RankGrows, Zenon
    <2>2. at(PosRank(K, k)) = k
      BY <1>1, <1>3, <2>1, RankOnto
    <2> QED
      BY <1>3, <2>1, <2>2
  <1> QED
    BY <1>2, <1>3, <1>6, <1>7

(* The values that are kept.                                               *)
LEMMA FilterRange ==
    ASSUME NEW S, NEW s \in Seq(S), NEW K \in SUBSET DOMAIN s
    PROVE  {Filtered(s, K)[m] : m \in DOMAIN Filtered(s, K)} = {s[k] : k \in K}
  <1>1. DOMAIN Filtered(s, K) = 1..Cardinality(K)
    BY DEF Filtered
  <1> HIDE DEF Filtered
  <1>2. /\ \A k \in K : PosRank(K, k) \in 1..Cardinality(K) /\ Filtered(s, K)[PosRank(K, k)] = s[k]
        /\ \A m \in 1..Cardinality(K) : \E k \in K : PosRank(K, k) = m /\ Filtered(s, K)[m] = s[k]
    BY FilterKeeps
  <1> QED
    BY <1>1, <1>2

-----------------------------------------------------------------------------
(* Sums (of cores over the nodes, of counters over the workers).  The sum  *)
(* of f over S is the number of pairs of a member of S and one of its      *)
(* units.                                                                  *)
Units(f, S) == {p \in S \X Nat : p[2] \in 1..f[p[1]]}
Total(f, S) == Cardinality(Units(f, S))

NatOn(f, S) == \A n \in S : f[n] \in Nat

(* A smallest set: the induction over what has been added up.              *)
LEMMA SmallestSet ==
    ASSUME NEW S, IsFiniteSet(S), NEW B, B \subseteq SUBSET S, B # {}
    PROVE  \E X \in B : \A x \in X : X \ {x} \notin B
  <1>1. IsWellFoundedOn(StrictSubsetOrdering(S), SUBSET S)
    BY FS_FiniteSubsetsOfFinite, FS_StrictSubsetOrderingWellFounded, Zenon
  <1>2. PICK X \in B : \A Y \in B : ~(<<Y, X>> \in StrictSubsetOrdering(S))
    BY <1>1, WFMin, Zenon
  <1>3. ASSUME NEW x \in X, X \ {x} \in B PROVE FALSE
    <2>1. <<X \ {x}, X>> \in (SUBSET S) \X (SUBSET S) /\ X \ {x} # X /\ X \ {x} \subseteq X
      BY <1>3
    <2>2. <<X \ {x}, X>>[1] = X \ {x} /\ <<X \ {x}, X>>[2] = X
      OBVIOUS
    <2>3. <<X \ {x}, X>> \in StrictSubsetOrdering(S)
      BY <2>1, <2>2, Zenon DEF StrictSubsetOrdering
    <2> QED
      BY <1>2, <1>3, <2>3, Zenon
  <1> QED
    BY <1>3, Zenon

(* The units of one member and those of the others.                        *)
LEMMA UnitsSplit ==
    ASSUME NEW f, NEW X, NEW x \in X, f[x] \in Nat
    PROVE  /\ Units(f, X) = Units(f, X \ {x}) \cup ({x} \X (1..f[x]))
           /\ Units(f, X \ {x}) \cap ({x} \X (1..f[x])) = {}
           /\ IsFiniteSet({x} \X (1..f[x])) /\ Cardinality({x} \X (1..f[x])) = f[x]
  <1>1. \A k \in 1..f[x] : k \in Nat
    OBVIOUS
  <1>2. Units(f, X) = Units(f, X \ {x}) \cup ({x} \X (1..f[x]))
    BY <1>1 DEF Units
  <1>3. Units(f, X \ {x}) \cap ({x} \X (1..f[x])) = {}
    BY DEF Units
  <1>4. IsFiniteSet(1..f[x]) /\ Cardinality(1..f[x]) = f[x]
    <2>1. 1 \in Int /\ f[x] \in Int
      OBVIOUS
    <2>2. IsFiniteSet(1..f[x]) /\ Cardinality(1..f[x]) = IF 1 > f[x] THEN 0 ELSE f[x] - 1 + 1
      BY <2>1, FS_Interval, Zenon
    <2> QED
      BY <2>2
  <1>5. IsFiniteSet({x}) /\ Cardinality({x}) = 1
    BY FS_Singleton, Zenon
  <1>6. IsFiniteSet({x} \X (1..f[x])) /\ Cardinality({x} \X (1..f[x])) = f[x]
    <2>1. /\ IsFiniteSet({x} \X (1..f[x]))
          /\ Cardinality({x} \X (1..f[x])) = Cardinality({x}) * Cardinality(1..f[x])
      BY <1>4, <1>5, FS_Product
    <2>2. 1 * f[x] = f[x]
      OBVIOUS
    <2> QED
      BY <1>4, <1>5, <2>1, <2>2, Zenon
  <1> QED
    BY <1>2, <1>3, <1>6, Zenon

(* There are finitely many units.                                          *)
LEMMA UnitsFinite ==
    ASSUME NEW S, IsFiniteSet(S), NEW f, NatOn(f, S), NEW X \in SUBSET S
    PROVE  IsFiniteSet(Units(f, X)) /\ Total(f, X) \in Nat
  <1> DEFINE B == {Y \in SUBSET S : ~IsFiniteSet(Units(f, Y))}
  <1>1. ASSUME B # {} PROVE FALSE
    <2>1. PICK Y \in B : \A x \in Y : Y \ {x} \notin B
      BY <1>1, SmallestSet, Zenon
    <2>2. Y # {}
      <3>1. Units(f, {}) = {}
        BY DEF Units
      <3> QED
        BY <2>1, <3>1, FS_EmptySet, Zenon
    <2>3. PICK x \in Y : TRUE
      BY <2>2
    <2>4. IsFiniteSet(Units(f, Y \ {x}))
      BY <2>1, Zenon
    <2>5. f[x] \in Nat
      BY <2>1, Zenon DEF NatOn
    <2>6. Units(f, Y) = Units(f, Y \ {x}) \cup ({x} \X (1..f[x])) /\ IsFiniteSet({x} \X (1..f[x]))
      BY <2>5, UnitsSplit, Zenon
    <2>7. IsFiniteSet(Units(f, Y \ {x}) \cup ({x} \X (1..f[x])))
      BY <2>4, <2>6, FS_Union, Zenon
    <2> QED
      BY <2>1, <2>6, <2>7, Zenon
  <1>2. IsFiniteSet(Units(f, X))
    BY <1>1, Zenon
  <1> QED
    BY <1>2, FS_CardinalityType, Zenon DEF Total

(* One member after the other is added to the sum.                         *)
LEMMA TotalStep ==
    ASSUME NEW S, IsFiniteSet(S), NEW f, NatOn(f, S)
    PROVE  /\ Total(f, {}) = 0
           /\ \A X \in SUBSET S : Total(f, X) \in Nat /\ \A x \in X : Total(f, X) = f[x] + Total(f, X \ {x})
  <1>1. Total(f, {}) = 0
    <2>1. Units(f, {}) = {}
      BY DEF Units
    <2> QED
      BY <2>1, FS_EmptySet, Zenon DEF Total
  <1>2. \A X \in SUBSET S : IsFiniteSet(Units(f, X)) /\ Total(f, X) \in Nat
    BY UnitsFinite, Zenon
  <1>3. ASSUME NEW X \in SUBSET S, NEW x \in X PROVE Total(f, X) = f[x] + Total(f, X \ {x})
    <2> DEFINE A == Units(f, X \ {x})
               C == {x} \X (1..f[x])
    <2>1. f[x] \in Nat /\ X \ {x} \in SUBSET S
      BY Zenon DEF NatOn
    <2>2. Units(f, X) = A \cup C /\ A \cap C = {} /\ IsFiniteSet(C) /\ Cardinality(C) = f[x]
      BY <2>1, UnitsSplit, Zenon
    <2>3. IsFiniteSet(A) /\ Cardinality(A) \in Nat
      BY <1>2, <2>1, Zenon DEF Total
    <2> HIDE DEF A, C
    <2>4. Cardinality(A \cup C) = Cardinality(A) + Cardinality(C) - Cardinality(A \cap C)
      BY <2>2, <2>3, FS_Union, Zenon
    <2>5. Cardinality(A \cap C) = 0
      BY <2>2, FS_EmptySet, Zenon
    <2>6. Total(f, X) = Cardinality(A \cup C) /\ Total(f, X \ {x}) = Cardinality(A)
      BY <2>2, Zenon DEF Total, A
    <2> QED
      BY <2>1, <2>2, <2>3, <2>4, <2>5, <2>6
  <1> QED
    BY <1>1, <1>2, <1>3, Zenon

(* What MapThenSumSet computes: a sum that takes one member at a time.     *)
Adds(it, f, S) ==
    it = [s \in SUBSET S |-> IF s = {} THEN 0
                             ELSE f[CHOOSE x \in s : TRUE] + it[s \ {CHOOSE x \in s : TRUE}]]

(* The sum over a set does not depend on the order in which its members are*)
(* taken: it is the number of units.                                       *)
LEMMA SumIsTotal ==
    ASSUME NEW S, IsFiniteSet(S), NEW f, NatOn(f, S)
    PROVE  (CHOOSE it : it = [s \in SUBSET S |-> IF s = {} THEN 0
                              ELSE f[CHOOSE x \in s : TRUE] + it[s \ {CHOOSE x \in s : TRUE}]])[S]
           = Total(f, S)
  <1> DEFINE pick(s) == CHOOSE x \in s : TRUE
             by == [s \in SUBSET S |-> Total(f, s)]
             it == CHOOSE i : Adds(i, f, S)
  <1>1. /\ Total(f, {}) = 0
        /\ \A X \in SUBSET S : Total(f, X) \in Nat /\ \A x \in X : Total(f, X) = f[x] + Total(f, X \ {x})
    BY TotalStep
  <1>2. \A s : s # {} => pick(s) \in s
    BY Zenon
  <1>3. Adds(by, f, S)
    <2>1. ASSUME NEW s \in SUBSET S
          PROVE  by[s] = IF s = {} THEN 0 ELSE f[pick(s)] + by[s \ {pick(s)}]
      <3>1. s \ {pick(s)} \in SUBSET S
        BY Zenon
      <3>2. by[s] = Total(f, s) /\ by[s \ {pick(s)}] = Total(f, s \ {pick(s)})
        BY <3>1, Zenon
      <3>3. CASE s = {}
        BY <1>1, <3>2, <3>3, Zenon
      <3>4. CASE s # {}
        BY <1>1, <1>2, <3>2, <3>4, Zenon
      <3> QED
        BY <3>3, <3>4
    <2> QED
      BY <2>1, Zenon DEF Adds
  <1>4. Adds(it, f, S)
    BY <1>3, Zenon
  <1>5. \A s \in SUBSET S : it[s] = IF s = {} THEN 0 ELSE f[pick(s)] + it[s \ {pick(s)}]
    BY <1>4, Zenon DEF Adds
  <1> HIDE DEF it
  <1> DEFINE B == {s \in SUBSET S : it[s] # Total(f, s)}
  <1>6. ASSUME B # {} PROVE FALSE
    <2>1. PICK s \in B : \A x \in s : s \ {x} \notin B
      BY <1>6, SmallestSet, Zenon
    <2>2. s \in SUBSET S /\ it[s] # Total(f, s)
      BY <2>1, Zenon
    <2>3. s # {}
      BY <1>1, <1>5, <2>2, Zenon
    <2>4. pick(s) \in s /\ s \ {pick(s)} \in SUBSET S
      BY <1>2, <2>2, <2>3, Zenon
    <2>5. it[s \ {pick(s)}] = Total(f, s \ {pick(s)})
      BY <2>1, <2>4, Zenon
    <2>6. it[s] = f[pick(s)] + it[s \ {pick(s)}]
      BY <1>5, <2>2, <2>3, Zenon
    <2>7. Total(f, s) = f[pick(s)] + Total(f, s \ {pick(s)})
      BY <1>1, <2>2, <2>4, Zenon
    <2> QED
      BY <2>2, <2>5, <2>6, <2>7, Zenon
  <1>7. it[S] = Total(f, S)
    BY <1>6, Zenon
  <1> QED
    BY <1>7, Zenon DEF it, Adds

(* Equal terms have equal sums.                                            *)
LEMMA TotalSame ==
    ASSUME NEW S, NEW f, NEW g, \A n \in S : f[n] = g[n]
    PROVE  Total(f, S) = Total(g, S)
  <1>1. Units(f, S) = Units(g, S)
    <2>1. \A p \in S \X Nat : f[p[1]] = g[p[1]]
      OBVIOUS
    <2> QED
      BY <2>1, Zenon DEF Units
  <1> QED
    BY <1>1, Zenon DEF Total

(* Smaller terms have a smaller sum.                                       *)
LEMMA TotalMonotone ==
    ASSUME NEW S, IsFiniteSet(S), NEW f, NEW g, \A n \in S : f[n] \in Nat /\ g[n] \in Nat /\ f[n] <= g[n]
    PROVE  Total(f, S) <= Total(g, S)
  <1>1. Units(f, S) \subseteq Units(g, S)
    <2>1. \A p \in S \X Nat : p[2] \in 1..f[p[1]] => p[2] \in 1..g[p[1]]
      OBVIOUS
    <2> QED
      BY <2>1, Zenon DEF Units
  <1>2. IsFiniteSet(Units(g, S))
    BY UnitsFinite, Zenon DEF NatOn
  <1> QED
    BY <1>1, <1>2, FS_Subset, Zenon DEF Total

(* A common factor can be taken out of a sum.                              *)
LEMMA TotalScaled ==
    ASSUME NEW S, IsFiniteSet(S), NEW q \in Nat, NEW f, NEW g, \A n \in S : f[n] \in Nat /\ g[n] \in Nat /\ g[n] = q * f[n]
    PROVE  Total(g, S) = q * Total(f, S)
  <1> DEFINE B == {s \in SUBSET S : Total(g, s) # q * Total(f, s)}
  <1>1. /\ Total(f, {}) = 0 /\ Total(g, {}) = 0
        /\ \A X \in SUBSET S : Total(f, X) \in Nat /\ \A x \in X : Total(f, X) = f[x] + Total(f, X \ {x})
        /\ \A X \in SUBSET S : Total(g, X) \in Nat /\ \A x \in X : Total(g, X) = g[x] + Total(g, X \ {x})
    <2>1. NatOn(f, S) /\ NatOn(g, S)
      BY Zenon DEF NatOn
    <2>3. /\ Total(f, {}) = 0
          /\ \A X \in SUBSET S : Total(f, X) \in Nat /\ \A x \in X : Total(f, X) = f[x] + Total(f, X \ {x})
      BY <2>1, TotalStep
    <2>4. /\ Total(g, {}) = 0
          /\ \A X \in SUBSET S : Total(g, X) \in Nat /\ \A x \in X : Total(g, X) = g[x] + Total(g, X \ {x})
      BY <2>1, TotalStep
    <2> QED
      BY <2>3, <2>4, Zenon
  <1>2. ASSUME B # {} PROVE FALSE
    <2>1. PICK s \in B : \A x \in s : s \ {x} \notin B
      BY <1>2, SmallestSet, Zenon
    <2>2. s \in SUBSET S /\ Total(g, s) # q * Total(f, s)
      BY <2>1, Zenon
    <2>3. q * 0 = 0
      OBVIOUS
    <2>4. PICK x \in s : TRUE
      BY <1>1, <2>2, <2>3, Zenon
    <2>5. s \ {x} \in SUBSET S
      BY <2>2, Zenon
    <2>6. Total(g, s \ {x}) = q * Total(f, s \ {x})
      BY <2>1, <2>5, Zenon
    <2>7. Total(f, s) = f[x] + Total(f, s \ {x}) /\ Total(g, s) = q * f[x] + Total(g, s \ {x})
      BY <1>1, <2>2, Zenon
    <2>8. f[x] \in Nat /\ Total(f, s \ {x}) \in Nat
      BY <1>1, <2>2, <2>5, Zenon
    <2>9. \A a, b \in Nat : q * (a + b) = q * a + q * b
      OBVIOUS
    <2> QED
      BY <2>2, <2>6, <2>7, <2>8, <2>9, Zenon
  <1> QED
    BY <1>2, Zenon

(* A sum of terms that are no larger than two others together.             *)
LEMMA TotalBelow ==
    ASSUME NEW S, IsFiniteSet(S), NEW f, NEW g, NEW h, NatOn(f, S), NatOn(g, S), NatOn(h, S),
           \A n \in S : f[n] <= g[n] + h[n]
    PROVE  Total(f, S) <= Total(g, S) + Total(h, S)
  <1> DEFINE B == {s \in SUBSET S : ~(Total(f, s) <= Total(g, s) + Total(h, s))}
  <1>1. /\ Total(f, {}) = 0
        /\ \A X \in SUBSET S : Total(f, X) \in Nat /\ \A x \in X : Total(f, X) = f[x] + Total(f, X \ {x})
    BY TotalStep
  <1>2. /\ Total(g, {}) = 0
        /\ \A X \in SUBSET S : Total(g, X) \in Nat /\ \A x \in X : Total(g, X) = g[x] + Total(g, X \ {x})
    BY TotalStep
  <1>3. /\ Total(h, {}) = 0
        /\ \A X \in SUBSET S : Total(h, X) \in Nat /\ \A x \in X : Total(h, X) = h[x] + Total(h, X \ {x})
    BY TotalStep
  <1>4. ASSUME B # {} PROVE FALSE
    <2>1. PICK s \in B : \A x \in s : s \ {x} \notin B
      BY <1>4, SmallestSet, Zenon
    <2>2. s \in SUBSET S /\ ~(Total(f, s) <= Total(g, s) + Total(h, s))
      BY <2>1, Zenon
    <2>3. 0 <= 0 + 0
      OBVIOUS
    <2>4. PICK x \in s : TRUE
      BY <1>1, <1>2, <1>3, <2>2, <2>3, Zenon
    <2>5. s \ {x} \in SUBSET S /\ x \in S
      BY <2>2, Zenon
    <2> DEFINE F == Total(f, s \ {x})
               G == Total(g, s \ {x})
               H == Total(h, s \ {x})
    <2>6. F <= G + H
      BY <2>1, <2>5, Zenon
    <2>7. Total(f, s) = f[x] + F /\ Total(g, s) = g[x] + G /\ Total(h, s) = h[x] + H
      BY <1>1, <1>2, <1>3, <2>2, Zenon
    <2>8. F \in Nat /\ G \in Nat /\ H \in Nat
      BY <1>1, <1>2, <1>3, <2>5, Zenon
    <2>9. f[x] \in Nat /\ g[x] \in Nat /\ h[x] \in Nat /\ f[x] <= g[x] + h[x]
      BY <2>5, Zenon DEF NatOn
    <2> HIDE DEF F, G, H
    <2>10. f[x] + F <= (g[x] + G) + (h[x] + H)
      BY <2>6, <2>8, <2>9
    <2> QED
      BY <2>2, <2>7, <2>10, Zenon
  <1> QED
    BY <1>4, Zenon

-----------------------------------------------------------------------------
Below == {p \in Nat \X Nat : p[1] < p[2]}

(* A set of numbers has a least one.                                       *)
LEMMA LeastOne == ASSUME NEW S \in SUBSET Nat, S # {} PROVE \E x \in S : \A y \in S : x <= y
  <1>1. IsWellFoundedOn(Below, Nat)
    <2>1. OpToRel(<, Nat) = Below
      BY DEF OpToRel, Below
    <2> QED
      BY <2>1, NatLessThanWellFounded, Zenon
  <1>2. PICK x \in S : \A y \in S : ~ (<<y, x>> \in Below)
    BY <1>1, WFMin, Zenon
  <1>3. ASSUME NEW y \in S PROVE x <= y
    <2>1. x \in Nat /\ y \in Nat
      OBVIOUS
    <2>2. ~ (y < x)
      BY <1>2, <1>3, <2>1, Zenon DEF Below
    <2> QED
      BY <2>1, <2>2
  <1> QED
    BY <1>3

-----------------------------------------------------------------------------
(* A pool, a queue without duplicates: c waits in p.                       *)
InPool(p, c) == \E i \in 1..Len(p) : p[i] = c

(* Taking the first connection out of the pool (pop_front).                *)
LEMMA PoolTail ==
    ASSUME NEW S, NEW p \in Seq(S), p # <<>>, \A i, j \in 1..Len(p) : p[i] = p[j] => i = j
    PROVE  /\ Tail(p) \in Seq(S) /\ Head(p) \in S /\ InPool(p, Head(p)) /\ ~ InPool(Tail(p), Head(p))
           /\ \A i, j \in 1..Len(Tail(p)) : Tail(p)[i] = Tail(p)[j] => i = j
           /\ \A d : d # Head(p) => (InPool(Tail(p), d) <=> InPool(p, d))
  <1> DEFINE q == Tail(p)
  <1>1. /\ q \in Seq(S) /\ Len(p) \in Nat /\ Len(p) >= 1 /\ Len(q) = Len(p) - 1 /\ Head(p) = p[1] /\ p[1] \in S
        /\ \A i \in 1..Len(q) : q[i] = p[i + 1] /\ i + 1 \in 1..Len(p) /\ i + 1 # 1
    OBVIOUS
  <1> HIDE DEF q
  <1>2. 1 \in 1..Len(p) /\ \A i \in 1..Len(p) : i # 1 => i - 1 \in 1..Len(q) /\ (i - 1) + 1 = i
    BY <1>1
  <1>3. InPool(p, Head(p))
    BY <1>1, <1>2, Zenon DEF InPool
  <1>4. ~ InPool(q, Head(p))
    BY <1>1, <1>2, Zenon DEF InPool
  <1>5. \A i, j \in 1..Len(q) : q[i] = q[j] => i = j
    <2> SUFFICES ASSUME NEW i \in 1..Len(q), NEW j \in 1..Len(q), q[i] = q[j] PROVE i = j
      OBVIOUS
    <2>1. i + 1 = j + 1
      BY <1>1, Zenon
    <2> QED
      BY <1>1, <2>1
  <1>6. \A d : d # Head(p) => (InPool(q, d) <=> InPool(p, d))
    <2> SUFFICES ASSUME NEW d, d # Head(p) PROVE InPool(q, d) <=> InPool(p, d)
      OBVIOUS
    <2>1. InPool(q, d) => InPool(p, d)
      BY <1>1, Zenon DEF InPool
    <2>2. ASSUME InPool(p, d) PROVE InPool(q, d)
      <3>1. PICK i \in 1..Len(p) : p[i] = d
        BY <2>2, Zenon DEF InPool
      <3>2. i # 1
        BY <1>1, <3>1
      <3>3. i - 1 \in 1..Len(q) /\ q[i - 1] = p[i]
        BY <1>1, <1>2, <3>2
      <3> QED
        BY <3>1, <3>3, Zenon DEF InPool
    <2> QED
      BY <2>1, <2>2
  <1> QED
    BY <1>1, <1>3, <1>4, <1>5, <1>6 DEF q

(* Putting a connection in at the end of the pool (push_back).             *)
LEMMA PoolAppend ==
    ASSUME NEW S, NEW p \in Seq(S), NEW c \in S, ~ InPool(p, c), \A i, j \in 1..Len(p) : p[i] = p[j] => i = j
    PROVE  /\ Append(p, c) \in Seq(S) /\ InPool(Append(p, c), c)
           /\ \A i, j \in 1..Len(Append(p, c)) : Append(p, c)[i] = Append(p, c)[j] => i = j
           /\ \A d : d # c => (InPool(Append(p, c), d) <=> InPool(p, d))
  <1> DEFINE q == Append(p, c)
             n == Len(p) + 1
  <1>1. /\ q \in Seq(S) /\ Len(p) \in Nat /\ Len(q) = n /\ q[n] = c /\ n \in 1..Len(q)
        /\ \A i \in 1..Len(p) : q[i] = p[i] /\ i \in 1..Len(q)
        /\ \A i \in 1..Len(q) : i # n => i \in 1..Len(p)
    OBVIOUS
  <1> HIDE DEF q, n
  <1>2. InPool(q, c)
    BY <1>1, Zenon DEF InPool
  <1>3. \A i \in 1..Len(p) : p[i] # c
    BY Zenon DEF InPool
  <1>4. \A i, j \in 1..Len(q) : q[i] = q[j] => i = j
    <2> SUFFICES ASSUME NEW i \in 1..Len(q), NEW j \in 1..Len(q), q[i] = q[j] PROVE i = j
      OBVIOUS
    <2>1. CASE i = n \/ j = n
      BY <1>1, <1>3, <2>1
    <2>2. CASE i # n /\ j # n
      <3>1. i \in 1..Len(p) /\ j \in 1..Len(p) /\ p[i] = p[j]
        BY <1>1, <2>2
      <3> QED
        BY <3>1, Zenon
    <2> QED
      BY <2>1, <2>2
  <1>5. \A d : d # c => (InPool(q, d) <=> InPool(p, d))
    BY <1>1, Zenon DEF InPool
  <1> QED
    BY <1>1, <1>2, <1>4, <1>5 DEF q

=============================================================================
