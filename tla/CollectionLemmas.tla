---------------------------- MODULE CollectionLemmas ----------------------------
(***************************************************************************)
(* Facts about numbers, finite sets and their orders that the proofs of     *)
(* several components need.                                                 *)
(***************************************************************************)
EXTENDS Lists, FiniteSetTheorems, TLAPS

\* R is a strict linear order of S.
IsLinearOrder(R, S) ==
    /\ R \subseteq S \X S
    /\ \A x \in S : <<x, x>> \notin R
    /\ \A x, y, z \in S : <<x, y>> \in R /\ <<y, z>> \in R => <<x, z>> \in R
    /\ \A x, y \in S : x = y \/ <<x, y>> \in R \/ <<y, x>> \in R

\* Every set of numbers has a least one.
LEMMA LeastNumber ==
  ASSUME NEW T, T \subseteq Nat, T # {}
  PROVE  \E m \in T : \A n \in T : m <= n
<1> DEFINE R == OpToRel(<, Nat)
<1>1. R = {p \in Nat \X Nat : p[1] < p[2]}
  BY DEF OpToRel
<1>2. IsWellFoundedOn(R, Nat)
  BY NatLessThanWellFounded, Zenon
<1> HIDE DEF R
<1>3. PICK m \in T : \A n \in T : <<n, m>> \notin R
  BY <1>2, WFMin
<1>4. \A n \in T : ~ (n < m)
  BY <1>1, <1>3
<1> QED
  BY <1>3, <1>4

\* Induction over the numbers, for a set of them.
LEMMA NumberInduction ==
  ASSUME NEW S, 0 \in S, \A n \in Nat : n \in S => n + 1 \in S
  PROVE  Nat \subseteq S
<1> DEFINE T == Nat \ S
<1> SUFFICES ASSUME T # {} PROVE FALSE
  OBVIOUS
<1>1. PICK m \in T : \A n \in T : m <= n
  BY LeastNumber
<1>2. m # 0
  OBVIOUS
<1>3. m - 1 \in Nat /\ m - 1 \notin T
  BY <1>1, <1>2
<1>4. m - 1 \in S /\ (m - 1) + 1 = m
  BY <1>3
<1> QED
  BY <1>3, <1>4

\* A list has at most as many different elements as it has places.
LEMMA FewElements ==
  ASSUME NEW s, NEW n \in Nat
  PROVE  /\ IsFiniteSet({s[i] : i \in 1..n})
         /\ Cardinality({s[i] : i \in 1..n}) <= n
<1> DEFINE T == {s[i] : i \in 1..n}
           f == [i \in 1..n |-> s[i]]
<1>1. f \in Surjection(1..n, T)
  BY DEF Surjection
<1>2. IsFiniteSet(1..n) /\ Cardinality(1..n) = n
  BY FS_Interval
<1> HIDE DEF f, T
<1>3. IsFiniteSet(T) /\ Cardinality(T) <= Cardinality(1..n)
  BY <1>1, <1>2, FS_Surjection
<1> QED
  BY <1>2, <1>3 DEF T

\* A strict order of a finite set that is not empty has a minimal element.
LEMMA MinimalElement ==
  ASSUME NEW S, IsFiniteSet(S), S # {}, NEW R,
         \A x \in S : <<x, x>> \notin R,
         \A x, y, z \in S : <<x, y>> \in R /\ <<y, z>> \in R => <<x, z>> \in R
  PROVE  \E x \in S : \A y \in S : <<y, x>> \notin R
<1> DEFINE Below(x) == {y \in S : <<y, x>> \in R}
<1>1. \A x \in S : IsFiniteSet(Below(x)) /\ Cardinality(Below(x)) \in Nat
  BY FS_Subset, FS_CardinalityType
<1>2. \A x, y \in S : <<y, x>> \in R
         => Below(y) \subseteq Below(x) /\ y \in Below(x) /\ y \notin Below(y)
  OBVIOUS
<1>3. (\A y \in S : <<y, y>> \notin R) /\ \A x \in S : Below(x) \subseteq S
  OBVIOUS
<1> HIDE DEF Below
<1> DEFINE T == {Cardinality(Below(x)) : x \in S}
<1>4. T \subseteq Nat /\ T # {}
  BY <1>1
<1>5. PICK m \in T : \A n \in T : m <= n
  <2> HIDE DEF T
  <2> QED
    BY <1>4, LeastNumber
<1>6. PICK x \in S : m = Cardinality(Below(x))
  OBVIOUS
<1>7. ASSUME NEW y \in S, <<y, x>> \in R
      PROVE  FALSE
  <2>1. Below(y) \subseteq Below(x) /\ y \in Below(x) /\ y \notin Below(y)
    BY <1>2, <1>7
  <2>2. Cardinality(Below(x)) <= Cardinality(Below(y))
    BY <1>5, <1>6
  <2> HIDE DEF T
  <2>3. Cardinality(Below(y)) <= Cardinality(Below(x))
        /\ (Cardinality(Below(x)) = Cardinality(Below(y)) => Below(x) = Below(y))
    BY <1>1, <2>1, FS_Subset
  <2>4. Cardinality(Below(x)) = Cardinality(Below(y))
    BY <1>1, <2>2, <2>3
  <2> QED
    BY <2>1, <2>3, <2>4
<1> QED
  BY <1>7

\* The places of a list order its elements, when they are different.
LEMMA ListOrder ==
  ASSUME NEW I, I \subseteq Nat, NEW m, NEW N,
         \A i \in I : m[i] \in N, \A a \in N : \E i \in I : a = m[i],
         NEW R, R \subseteq N \X N,
         \A i, j \in I : <<m[i], m[j]>> \in R <=> i < j
  PROVE  IsLinearOrder(R, N)
<1>1. \A i \in I : i \in Nat
  OBVIOUS
<1>2. \A a \in N : <<a, a>> \notin R
  BY <1>1
<1>3. \A a, b, c \in N : <<a, b>> \in R /\ <<b, c>> \in R => <<a, c>> \in R
  <2>1. ASSUME NEW a \in N, NEW b \in N, NEW c \in N, <<a, b>> \in R, <<b, c>> \in R
        PROVE  <<a, c>> \in R
    <3>1. PICK i \in I, j \in I, k \in I : a = m[i] /\ b = m[j] /\ c = m[k]
      OBVIOUS
    <3>2. i < j /\ j < k
      BY <2>1, <3>1
    <3>3. i < k
      BY <3>2, <1>1
    <3> QED
      BY <3>1, <3>3
  <2> QED
    BY <2>1
<1>4. \A a, b \in N : a = b \/ <<a, b>> \in R \/ <<b, a>> \in R
  <2>1. ASSUME NEW a \in N, NEW b \in N
        PROVE  a = b \/ <<a, b>> \in R \/ <<b, a>> \in R
    <3>1. PICK i \in I, j \in I : a = m[i] /\ b = m[j]
      OBVIOUS
    <3>2. i = j \/ i < j \/ j < i
      BY <1>1
    <3> QED
      BY <3>1, <3>2
  <2> QED
    BY <2>1
<1> QED
  BY <1>2, <1>3, <1>4 DEF IsLinearOrder

\* A second linear order continues a first one.
LEMMA OrderExtended ==
  ASSUME NEW S, NEW N, S \cap N = {}, NEW R, NEW Q, IsLinearOrder(R, S), IsLinearOrder(Q, N)
  PROVE  IsLinearOrder(R \cup (S \X N) \cup Q, S \cup N)
<1> DEFINE T == R \cup (S \X N) \cup Q
<1>1. R \subseteq S \X S /\ Q \subseteq N \X N
  BY DEF IsLinearOrder
<1>2. T \subseteq (S \cup N) \X (S \cup N)
  BY <1>1
<1>3. \A a, b : <<a, b>> \in T <=> \/ a \in S /\ b \in S /\ <<a, b>> \in R
                                   \/ a \in S /\ b \in N
                                   \/ a \in N /\ b \in N /\ <<a, b>> \in Q
  BY <1>1
<1> HIDE DEF T
<1>4. \A a \in S \cup N : <<a, a>> \notin T
  BY <1>3 DEF IsLinearOrder
<1>5. \A a, b, c \in S \cup N : <<a, b>> \in T /\ <<b, c>> \in T => <<a, c>> \in T
  BY <1>3 DEF IsLinearOrder
<1>6. \A a, b \in S \cup N : a = b \/ <<a, b>> \in T \/ <<b, a>> \in T
  BY <1>3 DEF IsLinearOrder
<1>7. IsLinearOrder(T, S \cup N)
  BY <1>2, <1>4, <1>5, <1>6 DEF IsLinearOrder
<1> QED
  BY <1>7 DEF T

\* A linear order without one element, and with the element at the end again.
LEMMA OrderWithout ==
  ASSUME NEW S, NEW R, IsLinearOrder(R, S), NEW e,
         NEW Q, Q = {p \in R : e \notin {p[1], p[2]}}
  PROVE  /\ IsLinearOrder(Q, S \ {e})
         /\ \A a, b \in S \ {e} : <<a, b>> \in Q <=> <<a, b>> \in R
<1>1. R \subseteq S \X S
  BY DEF IsLinearOrder
<1>2. \A a, b : <<a, b>> \in Q <=> <<a, b>> \in R /\ a # e /\ b # e
  OBVIOUS
<1>3. Q \subseteq (S \ {e}) \X (S \ {e})
  <2>1. ASSUME NEW p \in Q PROVE p \in (S \ {e}) \X (S \ {e})
    <3>1. p \in S \X S /\ e # p[1] /\ e # p[2]
      BY <1>1
    <3> QED
      BY <3>1
  <2> QED
    BY <2>1
<1> QED
  BY <1>2, <1>3 DEF IsLinearOrder

LEMMA OrderMoved ==
  ASSUME NEW S, NEW R, IsLinearOrder(R, S), NEW e \in S,
         NEW Q, Q = {p \in R : e \notin {p[1], p[2]}} \cup ((S \ {e}) \X {e})
  PROVE  /\ IsLinearOrder(Q, S)
         /\ \A a, b \in S \ {e} : <<a, b>> \in Q <=> <<a, b>> \in R
         /\ \A a \in S \ {e} : <<a, e>> \in Q
<1> DEFINE P == {p \in R : e \notin {p[1], p[2]}}
<1>1. IsLinearOrder(P, S \ {e}) /\ \A a, b \in S \ {e} : <<a, b>> \in P <=> <<a, b>> \in R
  BY OrderWithout
<1>2. IsLinearOrder({}, {e})
  BY DEF IsLinearOrder
<1>3. Q = P \cup ((S \ {e}) \X {e}) \cup {} /\ S = (S \ {e}) \cup {e}
  OBVIOUS
<1> HIDE DEF P
<1>4. IsLinearOrder(Q, S)
  BY <1>1, <1>2, <1>3, OrderExtended
<1>5. P \subseteq (S \ {e}) \X (S \ {e})
  BY <1>1 DEF IsLinearOrder
<1> QED
  BY <1>1, <1>3, <1>4, <1>5

\* Two lists with the same elements at the same places are the same list.
LEMMA SameList ==
  ASSUME NEW S, NEW s \in Seq(S), NEW u \in Seq(S), Len(s) = Len(u),
         \A i \in 1..Len(s) : s[i] = u[i]
  PROVE  s = u
OBVIOUS

\* The n-th place is there, once, for every n up to the number of places; places
\* are numbered in their order.
LEMMA NthPlace ==
  ASSUME NEW K, K \subseteq Nat, IsFiniteSet(K)
  PROVE  /\ Cardinality(K) \in Nat
         /\ \A n \in 1..Cardinality(K) : Nth(K, n) \in K
         /\ \A m, n \in 1..Cardinality(K) : m < n => Nth(K, m) < Nth(K, n)
         /\ \A i \in K : \E n \in 1..Cardinality(K) : i = Nth(K, n)
<1> DEFINE c == Cardinality(K)
           Upto(i) == {j \in K : j <= i}
           rank == [i \in K |-> Cardinality(Upto(i))]
<1>0. /\ \A i \in K : i \in Nat
      /\ \A i, k \in K : i = k \/ i < k \/ k < i
      /\ \A i, j, k \in K : (j <= i /\ i < k => j <= k) /\ (i < k => ~(k <= i))
  <2>1. \A i \in K : i \in Nat
    OBVIOUS
  <2> QED
    BY <2>1
<1>1. c \in Nat
  BY FS_CardinalityType
<1>2. \A i \in K : Upto(i) \subseteq K /\ i \in Upto(i)
  BY <1>0
<1>3. ASSUME NEW i \in K, NEW k \in K, i < k
      PROVE  Upto(i) \subseteq Upto(k) /\ k \notin Upto(i)
  BY <1>0, <1>3
<1>4. \A n : Nth(K, n) = CHOOSE j \in K : Cardinality(Upto(j)) = n
  BY DEF Nth
<1> HIDE DEF Upto
<1>5. \A i \in K : /\ IsFiniteSet(Upto(i)) /\ rank[i] \in 1..c /\ rank[i] = Cardinality(Upto(i))
  <2>1. ASSUME NEW i \in K
        PROVE  IsFiniteSet(Upto(i)) /\ Cardinality(Upto(i)) \in 1..c
    <3>1. IsFiniteSet(Upto(i)) /\ Cardinality(Upto(i)) <= c
      BY <1>2, FS_Subset
    <3>2. Cardinality(Upto(i)) \in Nat /\ Cardinality(Upto(i)) # 0
      BY <1>2, <3>1, FS_EmptySet, FS_CardinalityType
    <3> QED
      BY <1>1, <3>1, <3>2
  <2> QED
    BY <2>1
<1>6. ASSUME NEW i \in K, NEW k \in K, i < k PROVE rank[i] < rank[k]
  <2>1. Upto(i) \subseteq Upto(k) /\ Upto(i) # Upto(k)
    BY <1>2, <1>3, <1>6
  <2>2. Cardinality(Upto(i)) <= Cardinality(Upto(k)) /\ Cardinality(Upto(i)) # Cardinality(Upto(k))
    BY <1>5, <2>1, FS_Subset
  <2>3. rank[i] \in Nat /\ rank[k] \in Nat /\ rank[i] <= rank[k] /\ rank[i] # rank[k]
    BY <1>1, <1>5, <2>2
  <2> QED
    BY <2>3
<1> HIDE DEF rank
<1>7. rank \in Surjection(K, 1..c)
  <2>1. \A i, k \in K : rank[i] = rank[k] => i = k
    <3>1. \A i, k \in K : i = k \/ i < k \/ k < i
      BY <1>0
    <3> QED
      BY <1>1, <1>5, <1>6, <3>1
  <2>2. rank \in [K -> 1..c]
    BY <1>5 DEF rank
  <2>3. rank \in Injection(K, 1..c)
    BY <2>1, <2>2 DEF Injection, IsInjective
  <2>4. IsFiniteSet(1..c) /\ Cardinality(1..c) = c
    BY <1>1, FS_Interval
  <2> QED
    BY <2>3, <2>4, FS_Injection
<1>8. ASSUME NEW n \in 1..c PROVE Nth(K, n) \in K /\ rank[Nth(K, n)] = n
  <2>1. \E i \in K : rank[i] = n
    BY <1>7 DEF Surjection
  <2>2. \E i \in K : Cardinality(Upto(i)) = n
    BY <1>5, <2>1
  <2>3. Nth(K, n) = CHOOSE j \in K : Cardinality(Upto(j)) = n
    BY <1>4, <2>2
  <2>4. Nth(K, n) \in K /\ Cardinality(Upto(Nth(K, n))) = n
    BY <2>2, <2>3, Zenon
  <2> QED
    BY <1>5, <2>4
<1>9. \A i \in K : i = Nth(K, rank[i])
  <2>1. ASSUME NEW i \in K PROVE i = Nth(K, rank[i])
    <3>1. Nth(K, rank[i]) \in K /\ rank[Nth(K, rank[i])] = rank[i]
      BY <1>5, <1>8
    <3>2. i = Nth(K, rank[i]) \/ i < Nth(K, rank[i]) \/ Nth(K, rank[i]) < i
      BY <1>0, <3>1, Zenon
    <3>3. ~(rank[i] < rank[i])
      BY <1>1, <1>5
    <3>4. ~(i < Nth(K, rank[i])) /\ ~(Nth(K, rank[i]) < i)
      BY <1>6, <3>1, <3>3
    <3> QED
      BY <3>2, <3>4
  <2> QED
    BY <2>1
<1>10. ASSUME NEW m \in 1..c, NEW n \in 1..c, m < n PROVE Nth(K, m) < Nth(K, n)
  <2>1. /\ Nth(K, m) \in K /\ rank[Nth(K, m)] = m
        /\ Nth(K, n) \in K /\ rank[Nth(K, n)] = n
    BY <1>8
  <2>2. Nth(K, m) = Nth(K, n) \/ Nth(K, m) < Nth(K, n) \/ Nth(K, n) < Nth(K, m)
    BY <2>1, <1>0, Zenon
  <2>3. Nth(K, n) < Nth(K, m) => n < m
    BY <1>6, <2>1
  <2> QED
    BY <1>10, <2>1, <2>2, <2>3
<1> QED
  BY <1>1, <1>5, <1>8, <1>9, <1>10

\* The elements that are kept, in the order in which they were.
LEMMA KeptElements ==
  ASSUME NEW S, NEW s \in Seq(S), NEW K, K \subseteq 1..Len(s)
  PROVE  /\ IsFiniteSet(K) /\ Cardinality(K) \in Nat
         /\ Kept(s, K) \in Seq(S) /\ Len(Kept(s, K)) = Cardinality(K)
         /\ \A n \in 1..Cardinality(K) : Nth(K, n) \in K /\ Kept(s, K)[n] = s[Nth(K, n)]
         /\ \A m, n \in 1..Cardinality(K) : m < n => Nth(K, m) < Nth(K, n)
         /\ \A i \in K : \E n \in 1..Cardinality(K) : i = Nth(K, n) /\ Kept(s, K)[n] = s[i]
<1>1. IsFiniteSet(1..Len(s))
  BY FS_Interval
<1>2. IsFiniteSet(K) /\ K \subseteq Nat
  <2>1. 1..Len(s) \subseteq Nat
    OBVIOUS
  <2> QED
    BY <1>1, <2>1, FS_Subset
<1>3. /\ Cardinality(K) \in Nat
      /\ \A n \in 1..Cardinality(K) : Nth(K, n) \in K
      /\ \A m, n \in 1..Cardinality(K) : m < n => Nth(K, m) < Nth(K, n)
      /\ \A i \in K : \E n \in 1..Cardinality(K) : i = Nth(K, n)
  BY <1>2, NthPlace
<1>4. ASSUME NEW n \in 1..Cardinality(K) PROVE Kept(s, K)[n] = s[Nth(K, n)] /\ s[Nth(K, n)] \in S
  <2>1. Nth(K, n) \in 1..Len(s)
    BY <1>3
  <2>2. Kept(s, K)[n] = s[Nth(K, n)]
    BY DEF Kept
  <2> QED
    BY <2>1, <2>2
<1>5. Kept(s, K) \in Seq(S) /\ Len(Kept(s, K)) = Cardinality(K)
  BY <1>3, <1>4 DEF Kept
<1> QED
  BY <1>2, <1>3, <1>4, <1>5

\* kept is what s has at the places K, in their order.
IsKept(kept, s, K, S) ==
    /\ kept \in Seq(S) /\ Len(kept) \in Nat /\ Len(kept) <= Len(s)
    /\ Len(kept) = Cardinality(K)
    /\ \A n \in 1..Len(kept) : Nth(K, n) \in K /\ kept[n] = s[Nth(K, n)]
    /\ \A m, n \in 1..Len(kept) : m < n => Nth(K, m) < Nth(K, n)
    /\ \A i \in K : \E n \in 1..Len(kept) : i = Nth(K, n)

LEMMA PlacesAreKept ==
  ASSUME NEW S, NEW s \in Seq(S), NEW K, K \subseteq 1..Len(s)
  PROVE  IsKept(Kept(s, K), s, K, S)
<1> DEFINE kept == Kept(s, K)
           c == Cardinality(K)
<1>1. Len(s) \in Nat /\ IsFiniteSet(1..Len(s)) /\ Cardinality(1..Len(s)) = Len(s)
  BY FS_Interval
<1>2. K \subseteq Nat /\ IsFiniteSet(K) /\ c \in Nat /\ c <= Len(s)
  <2>1. K \subseteq Nat
    OBVIOUS
  <2>2. IsFiniteSet(K) /\ c <= Cardinality(1..Len(s))
    BY <1>1, FS_Subset
  <2>3. c \in Nat
    BY <2>2, FS_CardinalityType
  <2> QED
    BY <1>1, <2>1, <2>2, <2>3
<1>3. kept \in Seq(S)
  BY KeptElements
<1>4. Len(kept) = c
  BY KeptElements
<1>5. \A n \in 1..c : kept[n] = s[Nth(K, n)]
  BY DEF Kept
<1> HIDE DEF kept, c
<1>6. c = Cardinality(K)
  BY DEF c
<1>7. \A n \in 1..c : Nth(K, n) \in K
  BY <1>2, <1>6, NthPlace
<1>8. \A m, n \in 1..c : m < n => Nth(K, m) < Nth(K, n)
  BY <1>2, <1>6, NthPlace
<1>9. \A i \in K : \E n \in 1..c : i = Nth(K, n)
  BY <1>2, <1>6, NthPlace
<1>10. IsKept(kept, s, K, S)
  BY <1>2, <1>3, <1>4, <1>5, <1>6, <1>7, <1>8, <1>9 DEF IsKept
<1> QED
  BY <1>10 DEF kept

\* The elements at the places are kept, one by one.
LEMMA KeptPlaces ==
  ASSUME NEW s, NEW K, IsFiniteSet(K), K \subseteq Nat
  PROVE  DOMAIN Kept(s, K) = 1..Cardinality(K)
BY DEF Kept

LEMMA KeptFrom ==
  ASSUME NEW s, NEW K, IsFiniteSet(K), K \subseteq Nat, NEW i \in K
  PROVE  \E n \in 1..Cardinality(K) : Kept(s, K)[n] = s[i]
<1>1. PICK n \in 1..Cardinality(K) : i = Nth(K, n)
  BY NthPlace
<1>2. Kept(s, K)[n] = s[Nth(K, n)]
  BY DEF Kept
<1> QED
  BY <1>1, <1>2

-------------------------------------------------------------------------------
\* S[k] is the sum of the first k numbers of f.
IsSum(S, f, n) ==
    /\ S \in [0..n -> Nat]
    /\ S[0] = 0
    /\ \A i \in 1..n : S[i] = S[i - 1] + f[i]

LEMMA SumExists ==
  ASSUME NEW n \in Nat, NEW f, \A i \in 1..n : f[i] \in Nat
  PROVE  \E S : IsSum(S, f, n)
<1> DEFINE T == {k \in Nat : k <= n => \E S : IsSum(S, f, k)}
<1>1. 0 \in T
  <2>1. IsSum([i \in 0..0 |-> 0], f, 0)
    BY DEF IsSum
  <2> QED
    BY <2>1
<1>2. ASSUME NEW k \in Nat, k \in T PROVE k + 1 \in T
  <2>1. SUFFICES ASSUME k + 1 <= n PROVE \E S : IsSum(S, f, k + 1)
    OBVIOUS
  <2>2. PICK S : IsSum(S, f, k)
    BY <1>2, <2>1
  <2> DEFINE U == [i \in 0..(k + 1) |-> IF i = k + 1 THEN S[k] + f[k + 1] ELSE S[i]]
  <2>3. f[k + 1] \in Nat /\ S[k] \in Nat
    BY <2>1, <2>2 DEF IsSum
  <2>4. U \in [0..(k + 1) -> Nat]
    <3>1. \A i \in 0..k : S[i] \in Nat
      BY <2>2 DEF IsSum
    <3> QED
      BY <2>3, <3>1
  <2>5. U[0] = 0 /\ U[k + 1] = U[k] + f[k + 1]
    BY <2>2 DEF IsSum
  <2>6. \A i \in 1..k : U[i] = U[i - 1] + f[i]
    BY <2>2 DEF IsSum
  <2>7. \A i \in 1..(k + 1) : i \in 1..k \/ i = k + 1
    OBVIOUS
  <2> HIDE DEF U
  <2>8. IsSum(U, f, k + 1)
    <3>1. \A i \in 1..(k + 1) : U[i] = U[i - 1] + f[i]
      <4>1. (k + 1) - 1 = k
        OBVIOUS
      <4> QED
        BY <2>5, <2>6, <2>7, <4>1
    <3> QED
      BY <2>4, <2>5, <3>1 DEF IsSum
  <2> QED
    BY <2>8
<1> HIDE DEF T
<1>3. Nat \subseteq T
  BY <1>1, <1>2, NumberInduction
<1> QED
  BY <1>3 DEF T

LEMMA SumUnique ==
  ASSUME NEW n \in Nat, NEW f, NEW S, NEW U, S[0] = U[0],
         \A i \in 1..n : S[i] = S[i - 1] + f[i],
         \A i \in 1..n : U[i] = U[i - 1] + f[i]
  PROVE  S[n] = U[n]
<1> DEFINE T == {i \in Nat : i <= n => S[i] = U[i]}
<1>1. 0 \in T
  OBVIOUS
<1>2. ASSUME NEW i \in Nat, i \in T PROVE i + 1 \in T
  <2>1. SUFFICES ASSUME i + 1 <= n PROVE S[i + 1] = U[i + 1]
    OBVIOUS
  <2>2. S[i] = U[i] /\ i + 1 \in 1..n /\ (i + 1) - 1 = i
    BY <1>2, <2>1
  <2> QED
    BY <2>2
<1> HIDE DEF T
<1>3. Nat \subseteq T
  BY <1>1, <1>2, NumberInduction
<1> QED
  BY <1>3 DEF T

LEMMA TotalIsSum ==
  ASSUME NEW n \in Nat, NEW f, NEW S, IsSum(S, f, n)
  PROVE  Total(f, n) = S[n]
<1> DEFINE sum == CHOOSE g : g = [i \in 0..n |-> IF i = 0 THEN 0 ELSE g[i - 1] + f[i]]
<1>1. Total(f, n) = sum[n]
  BY DEF Total
<1>2. S = [i \in 0..n |-> IF i = 0 THEN 0 ELSE S[i - 1] + f[i]]
  <2>1. S = [i \in 0..n |-> S[i]]
    BY DEF IsSum
  <2>2. \A i \in 0..n : S[i] = IF i = 0 THEN 0 ELSE S[i - 1] + f[i]
    BY DEF IsSum
  <2> QED
    BY <2>1, <2>2
<1>3. sum = [i \in 0..n |-> IF i = 0 THEN 0 ELSE sum[i - 1] + f[i]]
  BY <1>2
<1> HIDE DEF sum
<1>4. sum[0] = 0 /\ \A i \in 1..n : sum[i] = sum[i - 1] + f[i]
  BY <1>3
<1>5. S[0] = 0 /\ \A i \in 1..n : S[i] = S[i - 1] + f[i]
  BY DEF IsSum
<1>6. sum[0] = S[0]
  BY <1>4, <1>5
<1>7. sum[n] = S[n]
  BY <1>4, <1>5, <1>6, SumUnique
<1> QED
  BY <1>1, <1>7

\* The sum of no numbers, and of one number more.
LEMMA TotalGrows ==
  ASSUME NEW n \in Nat, NEW f, \A i \in 1..n : f[i] \in Nat
  PROVE  /\ Total(f, n) \in Nat
         /\ Total(f, 0) = 0
         /\ n > 0 => Total(f, n) = Total(f, n - 1) + f[n]
<1>1. PICK S : IsSum(S, f, n)
  BY SumExists
<1>2. Total(f, n) = S[n]
  BY <1>1, TotalIsSum
<1>3. Total(f, 0) = 0
  <2>1. IsSum([i \in 0..0 |-> 0], f, 0)
    BY DEF IsSum
  <2> QED
    BY <2>1, TotalIsSum
<1>4. ASSUME n > 0 PROVE Total(f, n) = Total(f, n - 1) + f[n]
  <2> DEFINE U == [i \in 0..(n - 1) |-> S[i]]
  <2>1. IsSum(U, f, n - 1)
    <3>1. U \in [0..(n - 1) -> Nat] /\ U[0] = 0
      BY <1>1, <1>4 DEF IsSum
    <3>2. \A i \in 1..(n - 1) : U[i] = U[i - 1] + f[i]
      BY <1>1, <1>4 DEF IsSum
    <3> QED
      BY <3>1, <3>2 DEF IsSum
  <2>2. U[n - 1] = S[n - 1] /\ n - 1 \in Nat
    BY <1>4
  <2> HIDE DEF U
  <2>3. Total(f, n - 1) = S[n - 1]
    BY <2>1, <2>2, TotalIsSum
  <2>4. S[n] = S[n - 1] + f[n]
    BY <1>1, <1>4 DEF IsSum
  <2> QED
    BY <1>2, <2>3, <2>4
<1>5. S[n] \in Nat
  BY <1>1 DEF IsSum
<1> QED
  BY <1>2, <1>3, <1>4, <1>5

\* The sum depends on nothing but the numbers that are added.
LEMMA TotalSame ==
  ASSUME NEW n \in Nat, NEW f, NEW g, \A i \in 1..n : f[i] \in Nat /\ g[i] = f[i]
  PROVE  Total(f, n) = Total(g, n)
<1>1. PICK S : IsSum(S, f, n)
  BY SumExists
<1>2. IsSum(S, g, n)
  BY <1>1 DEF IsSum
<1>3. Total(f, n) = S[n]
  BY <1>1, TotalIsSum
<1>4. Total(g, n) = S[n]
  BY <1>2, TotalIsSum
<1> QED
  BY <1>3, <1>4

\* The first number and the sum of the others.
LEMMA TotalFirst ==
  ASSUME NEW n \in Nat, NEW f, \A i \in 1..(n + 1) : f[i] \in Nat,
         NEW g, \A i \in 1..n : g[i] = f[i + 1]
  PROVE  Total(f, n + 1) = f[1] + Total(g, n)
<1>0. \A i \in 1..n : i + 1 \in 1..(n + 1)
  OBVIOUS
<1>1. PICK S : IsSum(S, f, n + 1)
  <2>1. n + 1 \in Nat
    OBVIOUS
  <2> QED
    BY <2>1, SumExists
<1>2. \A i \in 1..n : g[i] \in Nat
  BY <1>0
<1>3. PICK U : IsSum(U, g, n)
  BY <1>2, SumExists
<1> DEFINE T == {i \in Nat : i <= n => S[i + 1] = f[1] + U[i]}
<1>4. 0 \in T
  <2>1. 1 \in 1..(n + 1) /\ 1 - 1 = 0 /\ f[1] \in Nat
    OBVIOUS
  <2> QED
    BY <1>1, <1>3, <2>1 DEF IsSum
<1>5. ASSUME NEW i \in Nat, i \in T PROVE i + 1 \in T
  <2>1. SUFFICES ASSUME i + 1 <= n PROVE S[(i + 1) + 1] = f[1] + U[i + 1]
    OBVIOUS
  <2>2. S[i + 1] = f[1] + U[i]
    BY <1>5, <2>1
  <2>3. (i + 1) + 1 \in 1..(n + 1) /\ ((i + 1) + 1) - 1 = i + 1 /\ i + 1 \in 1..n /\ (i + 1) - 1 = i
        /\ i \in 0..n
    BY <2>1
  <2>4. S[(i + 1) + 1] = S[i + 1] + f[(i + 1) + 1] /\ U[i + 1] = U[i] + g[i + 1] /\ U[i] \in Nat
    BY <1>1, <1>3, <2>3 DEF IsSum
  <2>5. g[i + 1] = f[(i + 1) + 1] /\ f[(i + 1) + 1] \in Nat /\ f[1] \in Nat
    BY <2>3
  <2> QED
    BY <2>2, <2>4, <2>5
<1> HIDE DEF T
<1>6. n \in T
  BY <1>4, <1>5, NumberInduction
<1>7. S[n + 1] = f[1] + U[n]
  BY <1>6 DEF T
<1>8. Total(f, n + 1) = S[n + 1] /\ Total(g, n) = U[n]
  BY <1>1, <1>3, TotalIsSum
<1> QED
  BY <1>7, <1>8

\* The sum of one number more.
LEMMA TotalLast ==
  ASSUME NEW n \in Nat, NEW f, \A i \in 1..n : f[i] \in Nat,
         NEW g, \A i \in 1..n : g[i] = f[i], g[n + 1] \in Nat
  PROVE  /\ Total(f, n) \in Nat
         /\ Total(g, n + 1) = Total(f, n) + g[n + 1]
<1>1. Total(f, n) \in Nat
  BY TotalGrows
<1>2. Total(f, n) = Total(g, n)
  BY TotalSame
<1>3. n + 1 \in Nat /\ n + 1 > 0 /\ (n + 1) - 1 = n /\ \A i \in 1..(n + 1) : g[i] \in Nat
  OBVIOUS
<1>4. Total(g, n + 1) = Total(g, (n + 1) - 1) + g[n + 1]
  BY <1>3, TotalGrows
<1> QED
  BY <1>1, <1>2, <1>3, <1>4

\* Of finitely many things, one has the greatest number.
LEMMA GreatestNumber ==
  ASSUME NEW S, IsFiniteSet(S), S # {}, NEW f, \A x \in S : f[x] \in Nat
  PROVE  \E x \in S : \A y \in S : f[y] <= f[x]
<1> DEFINE R == {p \in S \X S : f[p[2]] < f[p[1]]}
<1>1. \A x, y \in S : <<x, y>> \in R <=> f[y] < f[x]
  OBVIOUS
<1> HIDE DEF R
<1>2. \A x \in S : <<x, x>> \notin R
  BY <1>1
<1>3. \A x, y, z \in S : <<x, y>> \in R /\ <<y, z>> \in R => <<x, z>> \in R
  <2>1. ASSUME NEW x \in S, NEW y \in S, NEW z \in S, <<x, y>> \in R, <<y, z>> \in R
        PROVE  <<x, z>> \in R
    <3>1. f[z] < f[y] /\ f[y] < f[x] /\ f[x] \in Nat /\ f[y] \in Nat /\ f[z] \in Nat
      BY <1>1, <2>1
    <3>2. f[z] < f[x]
      BY <3>1
    <3> QED
      BY <1>1, <3>2
  <2> QED
    BY <2>1
<1>4. PICK x \in S : \A y \in S : <<y, x>> \notin R
  BY <1>2, <1>3, MinimalElement
<1>5. ASSUME NEW y \in S PROVE f[y] <= f[x]
  <2>1. ~(f[x] < f[y]) /\ f[x] \in Nat /\ f[y] \in Nat
    BY <1>1, <1>4
  <2> QED
    BY <2>1
<1> QED
  BY <1>5

-------------------------------------------------------------------------------
\* J[i] is first with the first i parts behind it.
IsJoin(J, S, first, parts, n) ==
    /\ J \in [0..n -> Seq(S)]
    /\ J[0] = first
    /\ \A i \in 1..n : J[i] = J[i - 1] \o parts[i]

LEMMA JoinExists ==
  ASSUME NEW S, NEW n \in Nat, NEW first \in Seq(S), NEW parts, \A i \in 1..n : parts[i] \in Seq(S)
  PROVE  \E J : IsJoin(J, S, first, parts, n)
<1> DEFINE T == {k \in Nat : k <= n => \E J : IsJoin(J, S, first, parts, k)}
<1>1. 0 \in T
  <2>1. IsJoin([i \in 0..0 |-> first], S, first, parts, 0)
    BY DEF IsJoin
  <2> QED
    BY <2>1
<1>2. ASSUME NEW k \in Nat, k \in T PROVE k + 1 \in T
  <2>1. SUFFICES ASSUME k + 1 <= n PROVE \E J : IsJoin(J, S, first, parts, k + 1)
    OBVIOUS
  <2>2. PICK J : IsJoin(J, S, first, parts, k)
    BY <1>2, <2>1
  <2> DEFINE U == [i \in 0..(k + 1) |-> IF i = k + 1 THEN J[k] \o parts[k + 1] ELSE J[i]]
  <2>3. parts[k + 1] \in Seq(S) /\ J[k] \in Seq(S)
    BY <2>1, <2>2 DEF IsJoin
  <2>4. U \in [0..(k + 1) -> Seq(S)]
    <3>1. \A i \in 0..k : J[i] \in Seq(S)
      BY <2>2 DEF IsJoin
    <3>2. J[k] \o parts[k + 1] \in Seq(S)
      BY <2>3
    <3>3. \A i \in 0..(k + 1) : i = k + 1 \/ i \in 0..k
      OBVIOUS
    <3> QED
      BY <3>1, <3>2, <3>3
  <2>5. U[0] = first /\ U[k + 1] = U[k] \o parts[k + 1]
    <3>1. /\ 0 \in 0..(k + 1) /\ 0 # k + 1 /\ k \in 0..(k + 1) /\ k # k + 1
          /\ k + 1 \in 0..(k + 1)
      OBVIOUS
    <3>2. U[0] = J[0] /\ U[k] = J[k] /\ U[k + 1] = J[k] \o parts[k + 1]
      BY <3>1, Zenon
    <3> QED
      BY <2>2, <3>2 DEF IsJoin
  <2>6. \A i \in 1..k : U[i] = U[i - 1] \o parts[i]
    <3>1. \A i \in 1..k : i - 1 \in 0..k /\ i - 1 # k + 1 /\ i # k + 1 /\ i \in 0..(k + 1) /\ i - 1 \in 0..(k + 1)
      OBVIOUS
    <3>2. \A i \in 1..k : U[i] = J[i] /\ U[i - 1] = J[i - 1]
      BY <3>1
    <3> QED
      BY <2>2, <3>2 DEF IsJoin
  <2>7. \A i \in 1..(k + 1) : i \in 1..k \/ i = k + 1
    OBVIOUS
  <2> HIDE DEF U
  <2>8. IsJoin(U, S, first, parts, k + 1)
    <3>1. \A i \in 1..(k + 1) : U[i] = U[i - 1] \o parts[i]
      <4>1. (k + 1) - 1 = k
        OBVIOUS
      <4> QED
        BY <2>5, <2>6, <2>7, <4>1
    <3> QED
      BY <2>4, <2>5, <3>1 DEF IsJoin
  <2> QED
    BY <2>8
<1> HIDE DEF T
<1>3. Nat \subseteq T
  BY <1>1, <1>2, NumberInduction
<1> QED
  BY <1>3 DEF T

LEMMA JoinedIsJoin ==
  ASSUME NEW S, NEW n \in Nat, NEW first, NEW parts, NEW J, IsJoin(J, S, first, parts, n)
  PROVE  Joined(first, parts, n) = J[n]
<1> DEFINE joined == CHOOSE g : g = [i \in 0..n |-> IF i = 0 THEN first ELSE g[i - 1] \o parts[i]]
<1>1. Joined(first, parts, n) = joined[n]
  BY DEF Joined
<1>2. J = [i \in 0..n |-> IF i = 0 THEN first ELSE J[i - 1] \o parts[i]]
  <2>1. J = [i \in 0..n |-> J[i]]
    BY DEF IsJoin
  <2>2. \A i \in 0..n : J[i] = IF i = 0 THEN first ELSE J[i - 1] \o parts[i]
    <3>1. \A i \in 0..n : i = 0 \/ i \in 1..n
      OBVIOUS
    <3>2. J[0] = first /\ \A i \in 1..n : J[i] = J[i - 1] \o parts[i]
      BY Zenon DEF IsJoin
    <3>3. \A i \in 1..n : i # 0
      OBVIOUS
    <3> QED
      BY <3>1, <3>2, <3>3, Zenon
  <2> QED
    BY <2>1, <2>2
<1>3. joined = [i \in 0..n |-> IF i = 0 THEN first ELSE joined[i - 1] \o parts[i]]
  BY <1>2
<1> HIDE DEF joined
<1>4. joined[0] = first /\ \A i \in 1..n : joined[i] = joined[i - 1] \o parts[i]
  BY <1>3
<1>5. J[0] = first /\ \A i \in 1..n : J[i] = J[i - 1] \o parts[i]
  BY DEF IsJoin
<1> DEFINE T == {i \in Nat : i <= n => joined[i] = J[i]}
<1>6. 0 \in T
  BY <1>4, <1>5
<1>7. ASSUME NEW i \in Nat, i \in T PROVE i + 1 \in T
  <2>1. SUFFICES ASSUME i + 1 <= n PROVE joined[i + 1] = J[i + 1]
    OBVIOUS
  <2>2. joined[i] = J[i] /\ i + 1 \in 1..n /\ (i + 1) - 1 = i
    BY <1>7, <2>1
  <2>3. joined[i + 1] = joined[(i + 1) - 1] \o parts[i + 1]
    BY <1>4, <2>2, Zenon
  <2>4. J[i + 1] = J[(i + 1) - 1] \o parts[i + 1]
    BY <1>5, <2>2, Zenon
  <2> QED
    BY <2>2, <2>3, <2>4, Zenon
<1> HIDE DEF T
<1>8. n \in T
  BY <1>6, <1>7, NumberInduction
<1>9. joined[n] = J[n]
  BY <1>8 DEF T
<1> QED
  BY <1>1, <1>9

\* J is first, then the elements of the parts and no others, each once when the
\* parts have no element twice.
JoinOf(J, S, first, parts, n) ==
    /\ J \in Seq(S)
    /\ Len(first) <= Len(J)
    /\ \A k \in 1..Len(first) : J[k] = first[k]
    /\ \A k \in (Len(first) + 1)..Len(J) :
          \E i \in 1..n : \E j \in 1..Len(parts[i]) : J[k] = parts[i][j]
    /\ \A i \in 1..n : \A j \in 1..Len(parts[i]) :
          \E k \in (Len(first) + 1)..Len(J) : J[k] = parts[i][j]
    /\ (\A i, h \in 1..n : \A j \in 1..Len(parts[i]) : \A m \in 1..Len(parts[h]) :
           parts[i][j] = parts[h][m] => i = h /\ j = m)
       => \A k, l \in (Len(first) + 1)..Len(J) : J[k] = J[l] => k = l

LEMMA JoinedElements ==
  ASSUME NEW S, NEW n \in Nat, NEW first \in Seq(S),
         NEW parts, \A i \in 1..n : parts[i] \in Seq(S)
  PROVE  JoinOf(Joined(first, parts, n), S, first, parts, n)
<1> DEFINE J == Joined(first, parts, n)
<1>1. PICK G : IsJoin(G, S, first, parts, n)
  BY JoinExists
<1>2. J = G[n]
  BY <1>1, JoinedIsJoin
<1> HIDE DEF J
<1> DEFINE f == Len(first)
           Apart == \A i, h \in 1..n : \A j \in 1..Len(parts[i]) : \A m \in 1..Len(parts[h]) :
                       parts[i][j] = parts[h][m] => i = h /\ j = m
           Good(s, c) ==
              /\ s \in Seq(S)
              /\ f <= Len(s)
              /\ \A k \in 1..f : s[k] = first[k]
              /\ \A k \in (f + 1)..Len(s) :
                    \E i \in 1..c : \E j \in 1..Len(parts[i]) : s[k] = parts[i][j]
              /\ \A i \in 1..c : \A j \in 1..Len(parts[i]) :
                    \E k \in (f + 1)..Len(s) : s[k] = parts[i][j]
              /\ Apart => \A k, l \in (f + 1)..Len(s) : s[k] = s[l] => k = l
           T == {c \in Nat : c <= n => Good(G[c], c)}
<1>3. f \in Nat
  OBVIOUS
<1> HIDE DEF f
<1>4. 0 \in T
  <2>1. G[0] = first
    BY <1>1 DEF IsJoin
  <2>2. first \in Seq(S) /\ f = Len(first) /\ (f + 1)..f = {} /\ 1..0 = {}
    BY <1>3 DEF f
  <2>3. Good(first, 0)
    BY <1>3, <2>2
  <2> QED
    BY <2>1, <2>3
<1>5. ASSUME NEW c \in Nat, c \in T PROVE c + 1 \in T
  <2>1. SUFFICES ASSUME c + 1 <= n PROVE Good(G[c + 1], c + 1)
    OBVIOUS
  <2>2. Good(G[c], c)
    BY <1>5, <2>1
  <2> DEFINE s == G[c]
             p == parts[c + 1]
             u == G[c + 1]
  <2>3. u = s \o p
    <3>1. c + 1 \in 1..n /\ (c + 1) - 1 = c
      BY <2>1
    <3> QED
      BY <1>1, <3>1 DEF IsJoin
  <2>4. s \in Seq(S) /\ p \in Seq(S) /\ f <= Len(s)
    BY <2>1, <2>2
  <2> HIDE DEF s, p, u, Apart
  <2>5. /\ Len(s) \in Nat /\ Len(p) \in Nat
        /\ u \in Seq(S) /\ Len(u) = Len(s) + Len(p)
        /\ \A k \in 1..Len(s) : u[k] = s[k]
        /\ \A k \in 1..Len(p) : u[Len(s) + k] = p[k]
        /\ \A k \in (Len(s) + 1)..Len(u) : k - Len(s) \in 1..Len(p) /\ u[k] = p[k - Len(s)]
    BY <2>3, <2>4
  <2>6. f <= Len(u) /\ \A k \in 1..f : u[k] = first[k]
    <3>1. \A k \in 1..f : s[k] = first[k] /\ k \in 1..Len(s)
      BY <1>3, <2>2, <2>4, <2>5 DEF s
    <3> QED
      BY <1>3, <2>4, <2>5, <3>1
  <2>7. \A k \in (f + 1)..Len(u) : k \in (f + 1)..Len(s) \/ k \in (Len(s) + 1)..Len(u)
    BY <1>3, <2>5
  <2>8. /\ \A i \in 1..c : i \in 1..(c + 1)
        /\ \A i \in 1..(c + 1) : i \in 1..c \/ i = c + 1
        /\ c + 1 \in 1..(c + 1) /\ c + 1 \notin 1..c
        /\ \A i \in 1..(c + 1) : i \in 1..n
    BY <2>1
  <2>9. \A k \in (f + 1)..Len(s) : k \in (f + 1)..Len(u) /\ u[k] = s[k]
    BY <1>3, <2>5
  <2>10. \A k \in 1..Len(p) : Len(s) + k \in (f + 1)..Len(u)
    BY <1>3, <2>4, <2>5
  <2>11. \A k \in (f + 1)..Len(s) :
           \E i \in 1..c : \E j \in 1..Len(parts[i]) : s[k] = parts[i][j]
    BY <2>2 DEF s
  <2>12. \A k \in (f + 1)..Len(u) :
           \E i \in 1..(c + 1) : \E j \in 1..Len(parts[i]) : u[k] = parts[i][j]
    <3>1. ASSUME NEW k \in (f + 1)..Len(u)
          PROVE  \E i \in 1..(c + 1) : \E j \in 1..Len(parts[i]) : u[k] = parts[i][j]
      <4>1. CASE k \in (f + 1)..Len(s)
        <5>1. PICK i \in 1..c : \E j \in 1..Len(parts[i]) : s[k] = parts[i][j]
          BY <2>11, <4>1
        <5>2. i \in 1..(c + 1) /\ u[k] = s[k]
          BY <2>8, <2>9, <4>1
        <5> QED
          BY <5>1, <5>2
      <4>2. CASE k \in (Len(s) + 1)..Len(u)
        <5>1. k - Len(s) \in 1..Len(p) /\ u[k] = p[k - Len(s)]
          BY <2>5, <4>2
        <5> QED
          BY <2>8, <5>1 DEF p
      <4> QED
        BY <2>7, <4>1, <4>2
    <3> QED
      BY <3>1
  <2>13. \A i \in 1..(c + 1) : \A j \in 1..Len(parts[i]) :
           \E k \in (f + 1)..Len(u) : u[k] = parts[i][j]
    <3>1. ASSUME NEW i \in 1..(c + 1), NEW j \in 1..Len(parts[i])
          PROVE  \E k \in (f + 1)..Len(u) : u[k] = parts[i][j]
      <4>1. CASE i \in 1..c
        <5>1. PICK k \in (f + 1)..Len(s) : s[k] = parts[i][j]
          BY <2>2, <4>1 DEF s
        <5> QED
          BY <2>9, <5>1
      <4>2. CASE i = c + 1
        <5>1. j \in 1..Len(p) /\ parts[i][j] = p[j]
          BY <3>1, <4>2 DEF p
        <5>2. Len(s) + j \in (f + 1)..Len(u) /\ u[Len(s) + j] = p[j]
          BY <2>5, <2>10, <5>1
        <5> QED
          BY <5>1, <5>2
      <4> QED
        BY <2>8, <4>1, <4>2
    <3> QED
      BY <3>1
  <2>14. ASSUME Apart PROVE \A k, l \in (f + 1)..Len(u) : u[k] = u[l] => k = l
    <3>1. ASSUME NEW k \in (f + 1)..Len(s), NEW l \in (Len(s) + 1)..Len(u), u[k] = u[l]
          PROVE  FALSE
      <4>1. PICK i \in 1..c : \E j \in 1..Len(parts[i]) : s[k] = parts[i][j]
        BY <2>11
      <4>2. PICK j \in 1..Len(parts[i]) : s[k] = parts[i][j]
        BY <4>1
      <4>3. l - Len(s) \in 1..Len(p) /\ u[l] = p[l - Len(s)]
        BY <2>5
      <4>4. parts[i][j] = parts[c + 1][l - Len(s)] /\ l - Len(s) \in 1..Len(parts[c + 1])
        BY <2>9, <3>1, <4>2, <4>3 DEF p
      <4>5. i \in 1..n /\ c + 1 \in 1..n /\ i # c + 1
        BY <2>8
      <4> QED
        BY <2>14, <4>4, <4>5 DEF Apart
    <3>2. ASSUME NEW k \in (f + 1)..Len(s), NEW l \in (f + 1)..Len(s), u[k] = u[l]
          PROVE  k = l
      BY <2>2, <2>9, <2>14, <3>2 DEF s
    <3>3. ASSUME NEW k \in (Len(s) + 1)..Len(u), NEW l \in (Len(s) + 1)..Len(u), u[k] = u[l]
          PROVE  k = l
      <4>1. PICK j \in 1..Len(p) : j = k - Len(s) /\ u[k] = p[j]
        BY <2>5
      <4>2. PICK m \in 1..Len(p) : m = l - Len(s) /\ u[l] = p[m]
        BY <2>5
      <4>3. c + 1 \in 1..n
        BY <2>8
      <4>4. ASSUME NEW a \in 1..Len(p), NEW d \in 1..Len(p), p[a] = p[d] PROVE a = d
        BY <2>14, <4>3, <4>4 DEF Apart, p
      <4>5. j = m
        BY <3>3, <4>1, <4>2, <4>4
      <4> QED
        BY <2>5, <4>1, <4>2, <4>5
    <3> QED
      BY <2>7, <3>1, <3>2, <3>3
  <2>15. Good(u, c + 1)
    BY <2>5, <2>6, <2>12, <2>13, <2>14
  <2> QED
    BY <2>15 DEF u
<1> HIDE DEF T
<1>6. n \in T
  BY <1>4, <1>5, NumberInduction
<1>7. Good(J, n)
  BY <1>2, <1>6 DEF T
<1> QED
  BY <1>7 DEF f, J, JoinOf

-------------------------------------------------------------------------------
\* A list without repetitions is no longer than the set it is made of has
\* members, and holds them all when it is as long.
LEMMA DistinctList ==
  ASSUME NEW S, IsFiniteSet(S), NEW n \in Nat, NEW s \in [1..n -> S],
         \A i, j \in 1..n : s[i] = s[j] => i = j
  PROVE  /\ n <= Cardinality(S)
         /\ n = Cardinality(S) => \A x \in S : \E i \in 1..n : s[i] = x
<1>1. s \in Injection(1..n, S)
  BY DEF Injection, IsInjective
<1>2. Cardinality(1..n) = n
  BY FS_Interval
<1>3. n <= Cardinality(S) /\ (n = Cardinality(S) <=> s \in Surjection(1..n, S))
  BY <1>1, <1>2, FS_Injection
<1> QED
  BY <1>3 DEF Surjection

\* What the places K of a list without repetitions hold is as much as K.
LEMMA DistinctElements ==
  ASSUME NEW K, IsFiniteSet(K), NEW s,
         \A i, j \in K : s[i] = s[j] => i = j
  PROVE  /\ IsFiniteSet({s[i] : i \in K})
         /\ Cardinality({s[i] : i \in K}) = Cardinality(K)
<1> DEFINE T == {s[i] : i \in K}
           f == [i \in K |-> s[i]]
<1>1. f \in Surjection(K, T)
  BY DEF Surjection
<1>2. f \in Injection(K, T)
  BY DEF Injection, IsInjective
<1> HIDE DEF f, T
<1>3. IsFiniteSet(T) /\ Cardinality(T) = Cardinality(K)
  BY <1>1, <1>2, FS_Surjection
<1> QED
  BY <1>3 DEF T

\* Division keeps the order of what is divided.
LEMMA DivisionGrows ==
  ASSUME NEW m \in Nat, NEW n \in Nat, NEW d \in Nat \ {0}, m <= n
  PROVE  m \div d <= n \div d /\ m \div d \in Nat
BY SMTT(30)

\* It turns the order of the divisors round.
LEMMA DivisionFalls ==
  ASSUME NEW n \in Nat, NEW a \in Nat \ {0}, NEW b \in Nat \ {0}, a <= b
  PROVE  n \div b <= n \div a
BY SMTT(30)

\* Each place of a finite linear order is some member's.
LEMMA PlaceTaken ==
  ASSUME NEW S, IsFiniteSet(S), NEW R, IsLinearOrder(R, S), NEW n \in 1..Cardinality(S)
  PROVE  \E x \in S : Cardinality({y \in S : <<y, x>> \in R}) = n - 1
<1> DEFINE c == Cardinality(S)
           Below(x) == {y \in S : <<y, x>> \in R}
           rank == [x \in S |-> Cardinality(Below(x))]
<1>1. c \in Nat
  BY FS_CardinalityType
<1>2. \A x \in S : Below(x) \subseteq S /\ x \notin Below(x)
  BY DEF IsLinearOrder
<1>3. ASSUME NEW x \in S, NEW y \in S, <<x, y>> \in R
      PROVE  Below(x) \subseteq Below(y) /\ x \in Below(y)
  BY <1>3 DEF IsLinearOrder
<1>4. \A x, y \in S : x = y \/ <<x, y>> \in R \/ <<y, x>> \in R
  BY DEF IsLinearOrder
<1> HIDE DEF Below
<1>5. \A x \in S : /\ IsFiniteSet(Below(x)) /\ Cardinality(Below(x)) \in 0..(c - 1)
                   /\ rank[x] = Cardinality(Below(x))
  <2>1. ASSUME NEW x \in S
        PROVE  IsFiniteSet(Below(x)) /\ Cardinality(Below(x)) \in 0..(c - 1)
    <3>1. Below(x) \subseteq S /\ Below(x) # S
      BY <1>2
    <3>2. IsFiniteSet(Below(x)) /\ Cardinality(Below(x)) <= c /\ Cardinality(Below(x)) # c
      BY <3>1, FS_Subset
    <3>3. Cardinality(Below(x)) \in Nat
      BY <3>2, FS_CardinalityType
    <3> QED
      BY <1>1, <3>2, <3>3
  <2> QED
    BY <2>1
<1>6. ASSUME NEW x \in S, NEW y \in S, <<x, y>> \in R PROVE rank[x] # rank[y]
  <2>1. Below(x) \subseteq Below(y) /\ Below(x) # Below(y)
    BY <1>2, <1>3, <1>6
  <2>2. Cardinality(Below(x)) # Cardinality(Below(y))
    BY <1>5, <2>1, FS_Subset
  <2> QED
    BY <1>5, <2>2
<1>7. rank \in [S -> 0..(c - 1)]
  BY <1>5
<1> HIDE DEF rank
<1>8. rank \in Injection(S, 0..(c - 1))
  <2>1. \A x, y \in S : rank[x] = rank[y] => x = y
    BY <1>4, <1>6
  <2> QED
    BY <1>7, <2>1 DEF Injection, IsInjective
<1>9. IsFiniteSet(0..(c - 1)) /\ Cardinality(0..(c - 1)) = c
  <2> HIDE DEF c
  <2>1. 0 \in Int /\ c - 1 \in Int
    BY <1>1
  <2>2. /\ IsFiniteSet(0..(c - 1))
        /\ Cardinality(0..(c - 1)) = IF 0 > c - 1 THEN 0 ELSE (c - 1) - 0 + 1
    BY <2>1, FS_Interval
  <2>3. (IF 0 > c - 1 THEN 0 ELSE (c - 1) - 0 + 1) = c
    BY <1>1
  <2> QED
    BY <2>2, <2>3
<1>10. rank \in Surjection(S, 0..(c - 1))
  BY <1>8, <1>9, FS_Injection
<1>11. n - 1 \in 0..(c - 1)
  BY <1>1
<1>12. PICK x \in S : rank[x] = n - 1
  BY <1>10, <1>11 DEF Surjection
<1> QED
  BY <1>5, <1>12 DEF Below

PlacesTaken(R, S) ==
    \A n \in 1..Cardinality(S) :
        \E x \in S : Cardinality({y \in S : <<y, x>> \in R}) = n - 1

LEMMA AllPlacesTaken ==
  ASSUME NEW S, IsFiniteSet(S), NEW R, IsLinearOrder(R, S)
  PROVE  PlacesTaken(R, S)
BY PlaceTaken DEF PlacesTaken

\* Of two sums of as many addends, one that is nowhere less and somewhere more
\* is the greater.
LEMMA TotalLess ==
  ASSUME NEW n \in Nat, NEW f, NEW g,
         \A i \in 1..n : f[i] \in Nat /\ g[i] \in Nat /\ f[i] <= g[i],
         \E i \in 1..n : f[i] < g[i]
  PROVE  Total(f, n) < Total(g, n)
<1> DEFINE Less(k) == /\ Total(f, k) \in Nat /\ Total(g, k) \in Nat
                      /\ Total(f, k) <= Total(g, k)
                      /\ (\E i \in 1..k : f[i] < g[i]) => Total(f, k) < Total(g, k)
           T == {k \in Nat : k <= n => Less(k)}
<1>1. 0 \in T
  <2>1. Total(f, 0) = 0 /\ Total(g, 0) = 0
    BY TotalGrows
  <2> QED
    BY <2>1
<1>2. ASSUME NEW k \in Nat, k \in T PROVE k + 1 \in T
  <2>1. SUFFICES ASSUME k + 1 <= n PROVE Less(k + 1)
    OBVIOUS
  <2>2. Less(k)
    BY <1>2, <2>1
  <2>3. /\ f[k + 1] \in Nat /\ g[k + 1] \in Nat /\ f[k + 1] <= g[k + 1]
        /\ \A i \in 1..k : f[i] \in Nat /\ g[i] \in Nat
    BY <2>1
  <2>4. Total(f, k + 1) = Total(f, k) + f[k + 1]
    BY <2>3, TotalLast
  <2>5. Total(g, k + 1) = Total(g, k) + g[k + 1]
    BY <2>3, TotalLast
  <2>6. ASSUME \E i \in 1..(k + 1) : f[i] < g[i]
        PROVE  f[k + 1] < g[k + 1] \/ \E i \in 1..k : f[i] < g[i]
    <3>1. \A i \in 1..(k + 1) : i = k + 1 \/ i \in 1..k
      OBVIOUS
    <3> QED
      BY <2>6, <3>1
  <2> HIDE DEF T
  <2> QED
    BY <2>2, <2>3, <2>4, <2>5, <2>6
<1> HIDE DEF T, Less
<1>3. \A k \in Nat : k \in T => k + 1 \in T
  BY <1>2
<1>4. n \in T
  BY <1>1, <1>3, NumberInduction
<1>5. Less(n)
  BY <1>4 DEF T
<1> QED
  BY <1>5 DEF Less

-------------------------------------------------------------------------------
\* s lists members of S, none twice.
ListsOnce(s, S) ==
    \E n \in Nat : s \in [1..n -> S] /\ \A i, j \in 1..n : s[i] = s[j] => i = j

\* A list without repetitions is a sequence as long as its domain says.
LEMMA ListIsSequence ==
  ASSUME NEW S, NEW s, ListsOnce(s, S)
  PROVE  /\ s \in Seq(S) /\ Len(s) \in Nat /\ s \in [1..Len(s) -> S] /\ DOMAIN s = 1..Len(s)
         /\ \A i, j \in 1..Len(s) : s[i] = s[j] => i = j
<1>1. PICK n \in Nat : s \in [1..n -> S] /\ \A i, j \in 1..n : s[i] = s[j] => i = j
  BY DEF ListsOnce
<1>2. s \in Seq(S)
  BY <1>1
<1>3. DOMAIN s = 1..n /\ DOMAIN s = 1..Len(s) /\ Len(s) \in Nat
  BY <1>1, <1>2
<1>4. Len(s) = n
  BY <1>1, <1>3
<1> QED
  BY <1>1, <1>2, <1>3, <1>4

LEMMA NothingListed ==
  ASSUME NEW S
  PROVE  ListsOnce(<<>>, S) /\ Len(<<>>) = 0
<1>1. 0 \in Nat /\ <<>> \in [1..0 -> S] /\ \A i, j \in 1..0 : <<>>[i] = <<>>[j] => i = j
  OBVIOUS
<1> QED
  BY <1>1 DEF ListsOnce

\* What comes later in a linear order has more before it.
LEMMA RankGrows ==
  ASSUME NEW S, IsFiniteSet(S), NEW R, IsLinearOrder(R, S),
         NEW x \in S, NEW y \in S, <<x, y>> \in R
  PROVE  /\ Cardinality({z \in S : <<z, x>> \in R}) \in Nat
         /\ Cardinality({z \in S : <<z, y>> \in R}) \in Nat
         /\ Cardinality({z \in S : <<z, x>> \in R}) < Cardinality({z \in S : <<z, y>> \in R})
<1> DEFINE X == {z \in S : <<z, x>> \in R}
           Y == {z \in S : <<z, y>> \in R}
<1>1. X \subseteq Y /\ X # Y /\ X \subseteq S /\ Y \subseteq S
  <2>1. \A u, v, w \in S : <<u, v>> \in R /\ <<v, w>> \in R => <<u, w>> \in R
    BY DEF IsLinearOrder
  <2>2. x \in Y /\ x \notin X
    BY DEF IsLinearOrder
  <2>3. X \subseteq Y
    BY <2>1
  <2> QED
    BY <2>2, <2>3
<1> HIDE DEF X, Y
<1>2. IsFiniteSet(X) /\ IsFiniteSet(Y)
  BY <1>1, FS_Subset
<1>3. Cardinality(X) \in Nat /\ Cardinality(Y) \in Nat
  BY <1>2, FS_CardinalityType
<1>4. Cardinality(X) <= Cardinality(Y) /\ Cardinality(X) # Cardinality(Y)
  BY <1>1, <1>2, FS_Subset
<1>5. Cardinality(X) < Cardinality(Y)
  BY <1>3, <1>4
<1> QED
  BY <1>3, <1>5 DEF X, Y

\* s lists the members of S, each once.
ListsAll(s, S) ==
    /\ ListsOnce(s, S) /\ Len(s) = Cardinality(S)
    /\ \A x \in S : \E i \in 1..Cardinality(S) : s[i] = x

\* A linear order written out as a list has each member once.
LEMMA OrderedList ==
  ASSUME NEW S, IsFiniteSet(S), NEW R, IsLinearOrder(R, S), NEW f,
         f \in [1..Cardinality(S) -> S],
         \A i \in 1..Cardinality(S) : Cardinality({y \in S : <<y, f[i]>> \in R}) = i - 1
  PROVE  ListsAll(f, S)
<1> DEFINE c == Cardinality(S)
<1>1. c \in Nat
  BY FS_CardinalityType
<1>2. ASSUME NEW i \in 1..c, NEW j \in 1..c, f[i] = f[j]
      PROVE  i = j
  <2>1. /\ Cardinality({y \in S : <<y, f[i]>> \in R}) = i - 1
        /\ Cardinality({y \in S : <<y, f[j]>> \in R}) = j - 1
    OBVIOUS
  <2>2. Cardinality({y \in S : <<y, f[i]>> \in R}) = Cardinality({y \in S : <<y, f[j]>> \in R})
    BY <1>2, Zenon
  <2>3. i - 1 = j - 1
    BY <2>1, <2>2, Zenon
  <2> QED
    BY <2>3, <1>1
<1>3. \A i, j \in 1..c : f[i] = f[j] => i = j
  BY <1>2
<1>4. f \in [1..c -> S]
  OBVIOUS
<1> HIDE DEF c
<1>5. ListsOnce(f, S)
  BY <1>1, <1>3, <1>4 DEF ListsOnce
<1>6. Len(f) = c
  BY <1>1, <1>4
<1>7. \A x \in S : \E i \in 1..c : f[i] = x
  <2>1. c = Cardinality(S)
    BY DEF c
  <2>2. f \in Injection(1..c, S)
    BY <1>3, <1>4 DEF Injection, IsInjective
  <2>3. IsFiniteSet(1..c) /\ Cardinality(1..c) = c
    BY <1>1, FS_Interval
  <2>4. f \in Surjection(1..c, S)
    BY <2>1, <2>2, <2>3, FS_Injection
  <2> QED
    BY <2>4 DEF Surjection
<1> QED
  BY <1>5, <1>6, <1>7 DEF c, ListsAll

\* A list of members of a part lists members of the whole.
LEMMA ListsInto ==
  ASSUME NEW S, NEW T, S \subseteq T, NEW s, ListsOnce(s, S)
  PROVE  ListsOnce(s, T)
<1>1. PICK n \in Nat : s \in [1..n -> S] /\ \A i, j \in 1..n : s[i] = s[j] => i = j
  BY DEF ListsOnce
<1>2. s \in [1..n -> T]
  BY <1>1
<1> QED
  BY <1>1, <1>2 DEF ListsOnce

\* c is what b adds to a, cut at n.
CutJoin(c, a, b, S, n) ==
    /\ ListsOnce(c, S) /\ Len(c) \in Nat /\ Len(c) <= n /\ Len(a) <= Len(c)
    /\ \A i \in 1..Len(a) : c[i] = a[i]
    /\ \A i \in 1..Len(c) : i > Len(a) => \E j \in 1..Len(b) : c[i] = b[j]
    /\ Len(c) < n => \A j \in 1..Len(b) : \E i \in 1..Len(c) : c[i] = b[j]

LEMMA CutJoined ==
  ASSUME NEW S, NEW a, ListsOnce(a, S), NEW b, ListsOnce(b, S),
         \A i \in 1..Len(a), j \in 1..Len(b) : a[i] # b[j],
         NEW n \in Nat, Len(a) <= n
  PROVE  CutJoin(SubSeq(a \o b, 1, IF n < Len(a \o b) THEN n ELSE Len(a \o b)), a, b, S, n)
<1> DEFINE la == Len(a)
           lb == Len(b)
           whole == a \o b
           m == IF n < Len(whole) THEN n ELSE Len(whole)
           c == SubSeq(whole, 1, m)
<1>1. /\ a \in Seq(S) /\ la \in Nat /\ a \in [1..la -> S]
      /\ \A i, j \in 1..la : a[i] = a[j] => i = j
  BY ListIsSequence
<1>2. /\ b \in Seq(S) /\ lb \in Nat /\ b \in [1..lb -> S]
      /\ \A i, j \in 1..lb : b[i] = b[j] => i = j
  BY ListIsSequence
<1>3. /\ whole \in Seq(S) /\ Len(whole) = la + lb
      /\ \A i \in 1..(la + lb) : whole[i] = IF i <= la THEN a[i] ELSE b[i - la]
  BY <1>1, <1>2
<1>4. \A i \in 1..la, j \in 1..lb : a[i] # b[j]
  OBVIOUS
<1>5. la <= n
  OBVIOUS
<1> HIDE DEF la, lb, whole
<1>6. /\ m \in Nat /\ m <= n /\ la <= m /\ m <= la + lb
      /\ m < n => m = la + lb
  BY <1>1, <1>2, <1>3, <1>5
<1> HIDE DEF m
<1>7. c = [i \in 1..m |-> whole[i]]
  <2>1. c = [i \in 1..(m - 1 + 1) |-> whole[i + 1 - 1]]
    BY <1>1, <1>2, <1>3, <1>6
  <2> QED
    BY <1>6, <2>1
<1> HIDE DEF c
<1>8. /\ Len(c) = m
      /\ \A i \in 1..m : c[i] = IF i <= la THEN a[i] ELSE b[i - la]
  BY <1>1, <1>2, <1>3, <1>6, <1>7
<1>9. \A i \in 1..m : i > la => i - la \in 1..lb /\ c[i] = b[i - la]
  BY <1>1, <1>2, <1>6, <1>8
<1>10. \A i \in 1..la : i \in 1..m /\ c[i] = a[i]
  BY <1>1, <1>6, <1>8
<1>11. \A i \in 1..m : i \in 1..la \/ i > la
  BY <1>1, <1>6
<1>12. c \in [1..m -> S]
  <2>1. \A i \in 1..m : c[i] \in S
    BY <1>1, <1>2, <1>9, <1>10, <1>11
  <2> QED
    BY <1>7, <2>1
<1>13. ASSUME NEW i \in 1..m, NEW j \in 1..m, c[i] = c[j]
       PROVE  i = j
  <2>1. CASE i \in 1..la /\ j \in 1..la
    BY <1>1, <1>10, <1>13, <2>1
  <2>2. CASE i \in 1..la /\ j > la
    BY <1>4, <1>9, <1>10, <1>13, <2>2
  <2>3. CASE i > la /\ j \in 1..la
    BY <1>4, <1>9, <1>10, <1>13, <2>3
  <2>4. CASE i > la /\ j > la
    <3>1. i - la = j - la
      BY <1>2, <1>9, <1>13, <2>4
    <3> QED
      BY <1>1, <3>1
  <2> QED
    BY <1>11, <2>1, <2>2, <2>3, <2>4
<1>14. ListsOnce(c, S)
  BY <1>6, <1>12, <1>13 DEF ListsOnce
<1>15. m < n => \A j \in 1..lb : \E i \in 1..m : c[i] = b[j]
  <2> SUFFICES ASSUME m < n, NEW j \in 1..lb
               PROVE  \E i \in 1..m : c[i] = b[j]
    OBVIOUS
  <2>1. la + j \in 1..m /\ la + j > la /\ (la + j) - la = j
    BY <1>1, <1>2, <1>6
  <2> QED
    BY <1>9, <2>1
<1>16. \A i \in 1..m : i > la => \E j \in 1..lb : c[i] = b[j]
  BY <1>9
<1>17. CutJoin(c, a, b, S, n)
  BY <1>6, <1>8, <1>10, <1>14, <1>15, <1>16 DEF CutJoin, la, lb
<1> QED
  BY <1>17 DEF c, m, whole

\* A sum is no more than one whose addends are no less.
LEMMA TotalAtMost ==
  ASSUME NEW n \in Nat, NEW f, NEW g,
         \A i \in 1..n : f[i] \in Nat /\ g[i] \in Nat /\ f[i] <= g[i]
  PROVE  Total(f, n) \in Nat /\ Total(g, n) \in Nat /\ Total(f, n) <= Total(g, n)
<1> DEFINE T == {k \in Nat : k <= n => /\ Total(f, k) \in Nat /\ Total(g, k) \in Nat
                                       /\ Total(f, k) <= Total(g, k)}
<1>1. 0 \in T
  <2>1. Total(f, 0) = 0 /\ Total(g, 0) = 0
    BY TotalGrows
  <2> QED
    BY <2>1
<1>2. ASSUME NEW k \in Nat, k \in T PROVE k + 1 \in T
  <2> SUFFICES ASSUME k + 1 <= n
               PROVE  /\ Total(f, k + 1) \in Nat /\ Total(g, k + 1) \in Nat
                      /\ Total(f, k + 1) <= Total(g, k + 1)
    OBVIOUS
  <2>1. /\ k <= n /\ k + 1 \in Nat /\ k + 1 > 0 /\ (k + 1) - 1 = k
        /\ \A i \in 1..(k + 1) : i \in 1..n
    OBVIOUS
  <2>2. \A i \in 1..(k + 1) : f[i] \in Nat /\ g[i] \in Nat /\ f[i] <= g[i]
    BY <2>1
  <2>3. Total(f, k + 1) \in Nat /\ Total(f, k + 1) = Total(f, k) + f[k + 1]
    BY <2>1, <2>2, TotalGrows
  <2>4. Total(g, k + 1) \in Nat /\ Total(g, k + 1) = Total(g, k) + g[k + 1]
    BY <2>1, <2>2, TotalGrows
  <2>5. Total(f, k) \in Nat /\ Total(g, k) \in Nat /\ Total(f, k) <= Total(g, k)
    BY <1>2, <2>1
  <2>6. f[k + 1] \in Nat /\ g[k + 1] \in Nat /\ f[k + 1] <= g[k + 1]
    BY <2>2
  <2> QED
    BY <2>3, <2>4, <2>5, <2>6
<1>3. Nat \subseteq T
  <2> HIDE DEF T
  <2> QED
    BY <1>1, <1>2, NumberInduction
<1> QED
  BY <1>3

\* The sum of sums.
LEMMA TotalAdds ==
  ASSUME NEW n \in Nat, NEW f, NEW g, NEW h,
         \A i \in 1..n : f[i] \in Nat /\ g[i] \in Nat /\ h[i] = f[i] + g[i]
  PROVE  Total(h, n) = Total(f, n) + Total(g, n)
<1> DEFINE T == {k \in Nat : k <= n => /\ Total(f, k) \in Nat /\ Total(g, k) \in Nat
                                       /\ Total(h, k) = Total(f, k) + Total(g, k)}
<1>0. \A i \in 1..n : h[i] \in Nat
  OBVIOUS
<1>1. 0 \in T
  <2>1. Total(f, 0) = 0 /\ Total(g, 0) = 0 /\ Total(h, 0) = 0
    BY TotalGrows
  <2> QED
    BY <2>1
<1>2. ASSUME NEW k \in Nat, k \in T PROVE k + 1 \in T
  <2> SUFFICES ASSUME k + 1 <= n
               PROVE  /\ Total(f, k + 1) \in Nat /\ Total(g, k + 1) \in Nat
                      /\ Total(h, k + 1) = Total(f, k + 1) + Total(g, k + 1)
    OBVIOUS
  <2>1. /\ k <= n /\ k + 1 \in Nat /\ k + 1 > 0 /\ (k + 1) - 1 = k
        /\ \A i \in 1..(k + 1) : i \in 1..n
    OBVIOUS
  <2>2. \A i \in 1..(k + 1) : f[i] \in Nat /\ g[i] \in Nat /\ h[i] = f[i] + g[i] /\ h[i] \in Nat
    BY <1>0, <2>1
  <2>3. Total(f, k + 1) \in Nat /\ Total(f, k + 1) = Total(f, k) + f[k + 1]
    BY <2>1, <2>2, TotalGrows
  <2>4. Total(g, k + 1) \in Nat /\ Total(g, k + 1) = Total(g, k) + g[k + 1]
    BY <2>1, <2>2, TotalGrows
  <2>5. Total(h, k + 1) = Total(h, k) + h[k + 1]
    BY <2>1, <2>2, TotalGrows
  <2>6. Total(f, k) \in Nat /\ Total(g, k) \in Nat /\ Total(h, k) = Total(f, k) + Total(g, k)
    BY <1>2, <2>1
  <2>7. f[k + 1] \in Nat /\ g[k + 1] \in Nat /\ h[k + 1] = f[k + 1] + g[k + 1]
    BY <2>2
  <2> QED
    BY <2>3, <2>4, <2>5, <2>6, <2>7
<1>3. Nat \subseteq T
  <2> HIDE DEF T
  <2> QED
    BY <1>1, <1>2, NumberInduction
<1> QED
  BY <1>3
===============================================================================
