------------------------------- MODULE RoomProofs -------------------------------
(***************************************************************************)
(* How RoomMem and ModuleMem score memories: the matching with the gold is  *)
(* stable and one-to-one, and the counts made on it bound each other. How   *)
(* the jobs of an arm follow each other, so what a session sees when it is  *)
(* asked is what it may see, and a probe's row says no more than that.      *)
(* How ModuleMem fills the memory file of a module and cuts its log.        *)
(***************************************************************************)
EXTENDS RoomDelivery, ModuleArm, CollectionLemmas, FiniteSetTheorems, TLAPS

-------------------------------------------------------------------------------
(***************************************************************************)
(* WriteSide: the matching.                                                 *)
(***************************************************************************)

\* Memories, or gold ones: finitely many, told apart by their ids, with finitely
\* many sources and a statement whose words are known.
MemoriesListed(M) ==
    /\ IsFiniteSet(M)
    /\ \A v \in M : v.id \in Nat /\ IsFiniteSet(v.sources) /\ v.statement \in DOMAIN WordsOf
    /\ \A v, w \in M : v.id = w.id => v = w

LEMMA CandidatesFinite ==
  ASSUME NEW M, NEW G, MemoriesListed(M), MemoriesListed(G)
  PROVE  /\ IsFiniteSet(Candidates(M, G)) /\ Candidates(M, G) \subseteq M \X G
         /\ \A p \in Candidates(M, G) : p[1] \in M /\ p[2] \in G /\ p = <<p[1], p[2]>>
<1>1. IsFiniteSet(M \X G)
  BY FS_Product DEF MemoriesListed
<1>2. Candidates(M, G) \subseteq M \X G
  BY DEF Candidates
<1> QED
  BY <1>1, <1>2, FS_Subset

\* The sort key orders the pairs linearly.
LEMMA PairsOrdered ==
  ASSUME NEW M, NEW G, MemoriesListed(M), MemoriesListed(G),
         NEW C, C \subseteq M \X G,
         NEW R, R = {pq \in C \X C : Precedes(pq[1], pq[2])}
  PROVE  IsLinearOrder(R, C)
<1>1. ASSUME NEW p \in C
      PROVE  /\ Overlap(p) \in Nat /\ StatementOverlap(p) \in Nat
             /\ p[1].id \in Nat /\ p[2].id \in Nat
             /\ p[1] \in M /\ p[2] \in G /\ p = <<p[1], p[2]>>
  <2>1. p[1] \in M /\ p[2] \in G /\ p = <<p[1], p[2]>>
    OBVIOUS
  <2>2. /\ p[1].id \in Nat /\ p[2].id \in Nat
        /\ IsFiniteSet(p[1].sources) /\ p[1].statement \in DOMAIN WordsOf
    BY <2>1 DEF MemoriesListed
  <2>3. IsFiniteSet(p[1].sources \cap p[2].sources)
    BY <2>2, FS_Intersection
  <2>4. IsFiniteSet(WordsOf[p[1].statement] \cap WordsOf[p[2].statement])
    BY <2>2, FS_Intersection, WordsAssumption
  <2>5. Overlap(p) \in Nat
    BY <2>3, FS_CardinalityType DEF Overlap
  <2>6. StatementOverlap(p) \in Nat
    BY <2>4, FS_CardinalityType DEF StatementOverlap
  <2> QED
    BY <2>1, <2>2, <2>5, <2>6
<1> DEFINE o == [p \in C |-> Overlap(p)]
           w == [p \in C |-> StatementOverlap(p)]
           i == [p \in C |-> p[1].id]
           j == [p \in C |-> p[2].id]
           Before(p, q) == \/ o[p] > o[q]
                           \/ /\ o[p] = o[q]
                              /\ \/ w[p] > w[q]
                                 \/ /\ w[p] = w[q]
                                    /\ i[p] < i[q] \/ (i[p] = i[q] /\ j[p] < j[q])
<1>2. \A p \in C : o[p] \in Nat /\ w[p] \in Nat /\ i[p] \in Nat /\ j[p] \in Nat
  BY <1>1
<1>3. \A p, q \in C : <<p, q>> \in R <=> Before(p, q)
  BY DEF Precedes
<1>4. \A p, q \in C : i[p] = i[q] /\ j[p] = j[q] => p = q
  BY <1>1 DEF MemoriesListed
<1>5. R \subseteq C \X C
  OBVIOUS
<1> HIDE DEF o, w, i, j
<1>6. ASSUME NEW p \in C PROVE <<p, p>> \notin R
  BY <1>2, <1>3
<1>7. ASSUME NEW p \in C, NEW q \in C, NEW r \in C, <<p, q>> \in R, <<q, r>> \in R
      PROVE  <<p, r>> \in R
  <2>1. /\ o[p] \in Nat /\ o[q] \in Nat /\ o[r] \in Nat
        /\ w[p] \in Nat /\ w[q] \in Nat /\ w[r] \in Nat
        /\ i[p] \in Nat /\ i[q] \in Nat /\ i[r] \in Nat
        /\ j[p] \in Nat /\ j[q] \in Nat /\ j[r] \in Nat
    BY <1>2
  <2>2. Before(p, q) /\ Before(q, r)
    BY <1>3, <1>7
  <2>3. Before(p, r)
    BY <2>1, <2>2
  <2> QED
    BY <1>3, <2>3
<1>8. ASSUME NEW p \in C, NEW q \in C
      PROVE  p = q \/ <<p, q>> \in R \/ <<q, p>> \in R
  <2>1. /\ o[p] \in Nat /\ o[q] \in Nat /\ w[p] \in Nat /\ w[q] \in Nat
        /\ i[p] \in Nat /\ i[q] \in Nat /\ j[p] \in Nat /\ j[q] \in Nat
    BY <1>2
  <2>2. Before(p, q) \/ Before(q, p) \/ (i[p] = i[q] /\ j[p] = j[q])
    BY <2>1
  <2>3. <<p, q>> \in R \/ <<q, p>> \in R \/ (i[p] = i[q] /\ j[p] = j[q])
    BY <1>3, <2>2
  <2> QED
    BY <1>4, <2>3
<1> QED
  BY <1>5, <1>6, <1>7, <1>8 DEF IsLinearOrder

\* Of any pairs one comes before all others.
LEMMA BestExists ==
  ASSUME NEW M, NEW G, MemoriesListed(M), MemoriesListed(G),
         NEW T, T \subseteq M \X G, T # {}
  PROVE  BestOf(T) \in T /\ \A q \in T \ {BestOf(T)} : Precedes(BestOf(T), q)
<1> DEFINE R == {pq \in T \X T : Precedes(pq[1], pq[2])}
<1>1. IsLinearOrder(R, T)
  BY PairsOrdered
<1>2. IsFiniteSet(T)
  <2>1. IsFiniteSet(M \X G)
    BY FS_Product DEF MemoriesListed
  <2> QED
    BY <2>1, FS_Subset
<1>3. \A p, q \in T : <<p, q>> \in R => Precedes(p, q)
  OBVIOUS
<1> HIDE DEF R
<1>4. PICK p \in T : \A q \in T : <<q, p>> \notin R
  BY <1>1, <1>2, MinimalElement DEF IsLinearOrder
<1>5. \A q \in T \ {p} : Precedes(p, q)
  BY <1>1, <1>3, <1>4 DEF IsLinearOrder
<1>6. \E b \in T : \A q \in T \ {b} : Precedes(b, q)
  BY <1>5
<1> QED
  BY <1>6, Zenon DEF BestOf

\* What the greedy loop takes of the pairs that are left.
IsGreedy(g, P) ==
    g = [T \in P |-> IF T = {} THEN {} ELSE {BestOf(T)} \cup g[StillFree(T, BestOf(T))]]

\* The pairs that are left get fewer.
LEMMA FewerPairs ==
  ASSUME NEW M, NEW G, MemoriesListed(M), MemoriesListed(G),
         NEW T, T \subseteq M \X G, T # {}
  PROVE  /\ StillFree(T, BestOf(T)) \subseteq T /\ BestOf(T) \notin StillFree(T, BestOf(T))
         /\ IsFiniteSet(T) /\ IsFiniteSet(StillFree(T, BestOf(T)))
         /\ Cardinality(StillFree(T, BestOf(T))) < Cardinality(T)
<1> DEFINE F == StillFree(T, BestOf(T))
<1>1. BestOf(T) \in T
  BY BestExists
<1>2. F \subseteq T /\ BestOf(T) \notin F
  BY DEF StillFree
<1>3. IsFiniteSet(T)
  <2>1. IsFiniteSet(M \X G)
    BY FS_Product DEF MemoriesListed
  <2> QED
    BY <2>1, FS_Subset
<1>4. IsFiniteSet(F) /\ Cardinality(F) <= Cardinality(T) /\ Cardinality(F) # Cardinality(T)
  BY <1>1, <1>2, <1>3, FS_Subset
<1>5. Cardinality(F) \in Nat /\ Cardinality(T) \in Nat
  BY <1>3, <1>4, FS_CardinalityType
<1>6. Cardinality(F) < Cardinality(T)
  BY <1>4, <1>5
<1> QED
  BY <1>2, <1>3, <1>4, <1>6

\* The loop is well defined, since it ends.
LEMMA GreedyExists ==
  ASSUME NEW M, NEW G, MemoriesListed(M), MemoriesListed(G),
         NEW C, C \subseteq M \X G
  PROVE  \E g : IsGreedy(g, SUBSET C)
<1> DEFINE Small(n) == {T \in SUBSET C : Cardinality(T) <= n}
           next(T) == StillFree(T, BestOf(T))
           N == {n \in Nat : \E g : IsGreedy(g, Small(n))}
<1>1. IsFiniteSet(C) /\ \A T \in SUBSET C : Cardinality(T) \in Nat
  <2>1. IsFiniteSet(M \X G)
    BY FS_Product DEF MemoriesListed
  <2>2. IsFiniteSet(C)
    BY <2>1, FS_Subset
  <2> QED
    BY <2>2, FS_Subset, FS_CardinalityType
<1>2. \A T \in SUBSET C : T # {} => next(T) \in SUBSET C /\ Cardinality(next(T)) < Cardinality(T)
  BY FewerPairs
<1> HIDE DEF next
<1>3. 0 \in N
  <2> DEFINE g == [T \in Small(0) |-> {}]
  <2>1. \A T \in Small(0) : T = {}
    <3> SUFFICES ASSUME NEW T \in Small(0) PROVE T = {}
      OBVIOUS
    <3>1. IsFiniteSet(T) /\ Cardinality(T) = 0
      BY <1>1, FS_Subset
    <3> QED
      BY <3>1, FS_EmptySet
  <2>2. g = [T \in Small(0) |-> IF T = {} THEN {} ELSE {BestOf(T)} \cup g[next(T)]]
    BY <2>1
  <2>3. IsGreedy(g, Small(0))
    BY <2>2 DEF IsGreedy, next
  <2> QED
    BY <2>3
<1>4. ASSUME NEW n \in Nat, n \in N PROVE n + 1 \in N
  <2>1. PICK g : IsGreedy(g, Small(n))
    BY <1>4
  <2>2. g = [T \in Small(n) |-> IF T = {} THEN {} ELSE {BestOf(T)} \cup g[next(T)]]
    BY <2>1 DEF IsGreedy, next
  <2> DEFINE h == [T \in Small(n + 1) |-> IF T = {} THEN {} ELSE {BestOf(T)} \cup g[next(T)]]
  <2>3. \A T \in Small(n + 1) : T # {} => next(T) \in Small(n)
    BY <1>1, <1>2
  <2>4. \A T \in Small(n) : h[T] = g[T]
    <3>1. \A T \in Small(n) : T \in Small(n + 1)
      BY <1>1
    <3> QED
      BY <2>2, <3>1
  <2>5. h = [T \in Small(n + 1) |-> IF T = {} THEN {} ELSE {BestOf(T)} \cup h[next(T)]]
    BY <2>3, <2>4
  <2>6. IsGreedy(h, Small(n + 1))
    BY <2>5 DEF IsGreedy, next
  <2> HIDE DEF h, Small
  <2>7. \E f : IsGreedy(f, Small(n + 1))
    BY <2>6
  <2> QED
    BY <2>7
<1>5. Nat \subseteq N
  <2> HIDE DEF N
  <2> QED
    BY <1>3, <1>4, NumberInduction
<1>6. Cardinality(C) \in N
  BY <1>1, <1>5
<1>7. Small(Cardinality(C)) = SUBSET C
  <2>1. \A T \in SUBSET C : Cardinality(T) <= Cardinality(C)
    BY <1>1, FS_Subset
  <2> QED
    BY <2>1
<1> QED
  BY <1>6, <1>7

\* A set of pairs is a matching of T as the greedy loop makes them: it uses no
\* end twice, and what it leaves out is preceded by what took one of its ends.
IsMatching(S, T) ==
    /\ S \subseteq T
    /\ \A p, q \in S : p # q => p[1] # q[1] /\ p[2] # q[2]
    /\ \A p \in T \ S : \E q \in S : (q[1] = p[1] \/ q[2] = p[2]) /\ Precedes(q, p)

LEMMA GreedyMatchesMore ==
  ASSUME NEW M, NEW G, MemoriesListed(M), MemoriesListed(G),
         NEW T, T \subseteq M \X G, T # {}, NEW S, IsMatching(S, StillFree(T, BestOf(T)))
  PROVE  IsMatching({BestOf(T)} \cup S, T)
<1> DEFINE b == BestOf(T)
           F == StillFree(T, b)
<1>1. b \in T /\ \A q \in T \ {b} : Precedes(b, q)
  BY BestExists
<1>2. F \subseteq T /\ b \notin F
  BY FewerPairs
<1>3. \A q \in T : q \in F <=> q[1] # b[1] /\ q[2] # b[2]
  BY DEF StillFree
<1> HIDE DEF b, F
<1>4. /\ S \subseteq F
      /\ \A p, q \in S : p # q => p[1] # q[1] /\ p[2] # q[2]
      /\ \A p \in F \ S : \E q \in S : (q[1] = p[1] \/ q[2] = p[2]) /\ Precedes(q, p)
  BY DEF IsMatching, F, b
<1>5. {b} \cup S \subseteq T
  BY <1>1, <1>2, <1>4
<1>6. \A p, q \in {b} \cup S : p # q => p[1] # q[1] /\ p[2] # q[2]
  BY <1>2, <1>3, <1>4
<1>7. ASSUME NEW p \in T \ ({b} \cup S)
      PROVE  \E q \in {b} \cup S : (q[1] = p[1] \/ q[2] = p[2]) /\ Precedes(q, p)
  <2>1. CASE p \in F
    BY <1>4, <1>7, <2>1
  <2>2. CASE p \notin F
    <3>1. b[1] = p[1] \/ b[2] = p[2]
      BY <1>3, <2>2
    <3>2. Precedes(b, p)
      BY <1>1
    <3> QED
      BY <3>1, <3>2
  <2> QED
    BY <2>1, <2>2
<1> QED
  BY <1>5, <1>6, <1>7 DEF IsMatching, b

LEMMA GreedyMatches ==
  ASSUME NEW M, NEW G, MemoriesListed(M), MemoriesListed(G),
         NEW C, C \subseteq M \X G, NEW g, IsGreedy(g, SUBSET C)
  PROVE  IsMatching(g[C], C)
<1> DEFINE N == {n \in Nat : \A T \in SUBSET C : Cardinality(T) <= n => IsMatching(g[T], T)}
<1>1. IsFiniteSet(C) /\ \A T \in SUBSET C : IsFiniteSet(T) /\ Cardinality(T) \in Nat
  <2>1. IsFiniteSet(M \X G)
    BY FS_Product DEF MemoriesListed
  <2>2. IsFiniteSet(C)
    BY <2>1, FS_Subset
  <2> QED
    BY <2>2, FS_Subset, FS_CardinalityType
<1>2. \A T \in SUBSET C :
         g[T] = IF T = {} THEN {} ELSE {BestOf(T)} \cup g[StillFree(T, BestOf(T))]
  BY DEF IsGreedy
<1>3. IsMatching(g[{}], {})
  BY <1>2 DEF IsMatching
<1>4. 0 \in N
  <2>1. \A T \in SUBSET C : Cardinality(T) <= 0 => T = {}
    BY <1>1, FS_EmptySet
  <2> QED
    BY <1>3, <2>1
<1>5. ASSUME NEW n \in Nat, n \in N PROVE n + 1 \in N
  <2>1. ASSUME NEW T \in SUBSET C, Cardinality(T) <= n + 1, T # {}
        PROVE  IsMatching(g[T], T)
    <3> DEFINE F == StillFree(T, BestOf(T))
    <3>1. F \in SUBSET C /\ Cardinality(F) < Cardinality(T)
      BY <2>1, FewerPairs
    <3>2. g[T] = {BestOf(T)} \cup g[F]
      BY <1>2, <2>1
    <3> HIDE DEF F
    <3>3. Cardinality(F) \in Nat /\ Cardinality(T) \in Nat
      BY <1>1, <3>1
    <3>4. Cardinality(F) <= n
      BY <2>1, <3>1, <3>3
    <3>5. IsMatching(g[F], F)
      BY <1>5, <3>1, <3>4
    <3>6. IsMatching({BestOf(T)} \cup g[F], T)
      BY <2>1, <3>5, GreedyMatchesMore DEF F
    <3> QED
      BY <3>2, <3>6
  <2>2. \A T \in SUBSET C : Cardinality(T) <= n + 1 => IsMatching(g[T], T)
    BY <1>3, <2>1
  <2> QED
    BY <2>2
<1>6. Nat \subseteq N
  <2> HIDE DEF N
  <2> QED
    BY <1>4, <1>5, NumberInduction
<1>7. Cardinality(C) \in N /\ C \in SUBSET C
  BY <1>1, <1>6
<1> QED
  BY <1>1, <1>7

\* The matching of any memories with any gold ones is stable and one-to-one
\* (match_curated_to_gold).
LEMMA MatchingIsStable ==
  ASSUME NEW M, NEW G, MemoriesListed(M), MemoriesListed(G)
  PROVE  IsMatching(Matches(M, G), Candidates(M, G))
<1> DEFINE C == Candidates(M, G)
           greedy == CHOOSE g : g = [T \in SUBSET C |->
                        IF T = {} THEN {} ELSE {BestOf(T)} \cup g[StillFree(T, BestOf(T))]]
<1>1. Matches(M, G) = greedy[C]
  BY DEF Matches
<1>2. C \subseteq M \X G
  BY CandidatesFinite
<1>3. IsGreedy(greedy, SUBSET C)
  <2>1. \E g : IsGreedy(g, SUBSET C)
    BY <1>2, GreedyExists
  <2>2. \E g : g = [T \in SUBSET C |->
                        IF T = {} THEN {} ELSE {BestOf(T)} \cup g[StillFree(T, BestOf(T))]]
    BY <2>1 DEF IsGreedy
  <2>3. greedy = [T \in SUBSET C |->
                    IF T = {} THEN {} ELSE {BestOf(T)} \cup greedy[StillFree(T, BestOf(T))]]
    BY <2>2, Zenon
  <2> QED
    BY <2>3 DEF IsGreedy
<1> HIDE DEF C, greedy
<1>4. IsMatching(greedy[C], C)
  BY <1>2, <1>3, GreedyMatches
<1> QED
  BY <1>1, <1>4 DEF C

-------------------------------------------------------------------------------
(***************************************************************************)
(* WriteSide: the counts.                                                   *)
(***************************************************************************)

\* A part of a finite set counts as a number.
LEMMA PartCounts ==
  ASSUME NEW S, IsFiniteSet(S), NEW T, T \subseteq S
  PROVE  IsFiniteSet(T) /\ Cardinality(T) \in Nat /\ Cardinality(T) <= Cardinality(S)
BY FS_Subset, FS_CardinalityType

\* What is mapped to a finite set, different things to different ones, is not more.
LEMMA OneToOneCounts ==
  ASSUME NEW S, NEW T, IsFiniteSet(T), NEW f \in [S -> T],
         \A x, y \in S : f[x] = f[y] => x = y
  PROVE  IsFiniteSet(S) /\ Cardinality(S) \in Nat /\ Cardinality(S) <= Cardinality(T)
<1>1. f \in Injection(S, T)
  BY DEF Injection, IsInjective
<1> QED
  BY <1>1, FS_Injection, FS_CardinalityType

\* What a matching says of its ends.
LEMMA MatchEnds ==
  ASSUME NEW M, NEW G, MemoriesListed(M), MemoriesListed(G), NEW X, X = Matches(M, G)
  PROVE  /\ IsFiniteSet(X) /\ X \subseteq Candidates(M, G)
         /\ \A p \in X : p[1] \in M /\ p[2] \in G /\ p = <<p[1], p[2]>>
         /\ \A p, q \in X : p # q => p[1] # q[1] /\ p[2] # q[2]
<1>1. IsMatching(X, Candidates(M, G))
  BY MatchingIsStable
<1>2. X \subseteq Candidates(M, G)
  BY <1>1 DEF IsMatching
<1>3. IsFiniteSet(X)
  BY <1>2, CandidatesFinite, FS_Subset
<1> QED
  BY <1>1, <1>2, <1>3, CandidatesFinite DEF IsMatching

\* A memory is matched once or not at all.
LEMMA MatchedOrNot ==
  ASSUME NEW M, NEW G, MemoriesListed(M), MemoriesListed(G), NEW X, X = Matches(M, G)
  PROVE  Cardinality(X) + Cardinality(Unmatched(M, X)) = Cardinality(M)
<1> DEFINE end == [p \in X |-> p[1]]
           D == {end[p] : p \in X}
           U == Unmatched(M, X)
<1>1. /\ IsFiniteSet(X) /\ \A p \in X : p[1] \in M
      /\ \A p, q \in X : p # q => p[1] # q[1] /\ p[2] # q[2]
  BY MatchEnds
<1>2. D \subseteq M /\ U = M \ D
  BY <1>1 DEF Unmatched, GoldIn
<1>3. \A p, q \in X : end[p] = end[q] => p = q
  BY <1>1
<1> HIDE DEF end
<1>4. IsFiniteSet(D) /\ Cardinality(D) = Cardinality(X)
  BY <1>1, <1>3, DistinctElements
<1> HIDE DEF D, U
<1>5. IsFiniteSet(M)
  BY DEF MemoriesListed
<1>6. Cardinality(M \ D) = Cardinality(M) - Cardinality(M \cap D) /\ M \cap D = D
  BY <1>2, <1>5, FS_Difference
<1>7. Cardinality(M) \in Nat /\ Cardinality(D) \in Nat
  BY <1>4, <1>5, FS_CardinalityType
<1>8. Cardinality(U) = Cardinality(M) - Cardinality(D)
  BY <1>2, <1>6, Zenon
<1> QED
  BY <1>4, <1>7, <1>8 DEF U

LEMMA MatchedAreWanted ==
  ASSUME NEW M, NEW G, MemoriesListed(M), MemoriesListed(G), NEW X, X = Matches(M, G)
  PROVE  Cardinality(X) <= Cardinality(Wanted(M, G))
<1> DEFINE f == [p \in X |-> p[2]]
<1>1. /\ X \subseteq Candidates(M, G)
      /\ \A p \in X : p[2] \in G
      /\ \A p, q \in X : p # q => p[1] # q[1] /\ p[2] # q[2]
  BY MatchEnds
<1>2. \A p \in X : p[1] \in Wanting(M, G, p[2])
  BY <1>1 DEF Wanting
<1>3. f \in [X -> Wanted(M, G)] /\ \A p, q \in X : f[p] = f[q] => p = q
  BY <1>1, <1>2 DEF Wanted
<1>4. IsFiniteSet(Wanted(M, G))
  BY FS_Subset DEF Wanted, MemoriesListed
<1> HIDE DEF f
<1> QED
  BY <1>3, <1>4, OneToOneCounts

\* A superseded gold memory is found once at most, and a chain belongs to one.
LEMMA ChainsAreFound ==
  ASSUME NEW M, NEW G, MemoriesListed(M), MemoriesListed(G), NEW X, X = Matches(M, G),
         \A v \in M : v.status \in {"active", "superseded"}
  PROVE  LET correct == FoundAs(X, G, "superseded")
             stale   == FoundAs(X, G, "active")
             chain   == ChainPairs(X, G)
         IN  /\ IsFiniteSet(correct) /\ IsFiniteSet(stale) /\ IsFiniteSet(chain)
             /\ Cardinality(correct) + Cardinality(stale) <= Cardinality(Superseded(G))
             /\ Cardinality(chain) <= Cardinality(correct) + Cardinality(stale)
<1> DEFINE S == Superseded(G)
           correct == FoundAs(X, G, "superseded")
           stale   == FoundAs(X, G, "active")
           chain   == ChainPairs(X, G)
           E(g)    == ChainEnds(X, G, g)
<1>1. /\ \A p \in X : p[1] \in M /\ p[2] \in G /\ p = <<p[1], p[2]>>
      /\ \A p, q \in X : p # q => p[1] # q[1] /\ p[2] # q[2]
  BY MatchEnds
<1>2. IsFiniteSet(S) /\ S \subseteq G
  BY FS_Subset DEF MemoriesListed, Superseded
<1>3. \A g, v : v \in MatchedTo(X, g) <=> <<v, g>> \in X
  BY <1>1 DEF MatchedTo
<1>4. ASSUME NEW g, NEW v \in MatchedTo(X, g), NEW w \in MatchedTo(X, g) PROVE v = w
  <2>1. <<v, g>> \in X /\ <<w, g>> \in X /\ <<v, g>>[2] = <<w, g>>[2]
    BY <1>3
  <2>2. <<v, g>> = <<w, g>>
    BY <1>1, <2>1
  <2> QED
    BY <2>2
<1>5. ASSUME NEW g, NEW h, NEW v \in MatchedTo(X, g), v \in MatchedTo(X, h) PROVE g = h
  <2>1. <<v, g>> \in X /\ <<v, h>> \in X /\ <<v, g>>[1] = <<v, h>>[1]
    BY <1>3, <1>5
  <2>2. <<v, g>> = <<v, h>>
    BY <1>1, <2>1
  <2> QED
    BY <2>2
<1>6. correct \subseteq S /\ stale \subseteq S /\ correct \cap stale = {}
  BY <1>4 DEF FoundAs
<1>7. \A g \in S : \A v \in MatchedTo(X, g) : g \in correct \cup stale
  BY <1>1, <1>3 DEF FoundAs
<1>8. \A g, h, k : h \in SuccessorsOf(G, g) /\ k \in SuccessorsOf(G, g) => h = k
  BY DEF SuccessorsOf, MemoriesListed
<1>9. ASSUME NEW c \in chain PROVE \E g \in correct \cup stale : c \in E(g)
  <2>1. PICK g \in S : c \in ChainEnds(X, G, g)
    BY DEF ChainPairs
  <2>2. \E v : v \in MatchedTo(X, g)
    BY <2>1 DEF ChainEnds
  <2> QED
    BY <1>7, <2>1, <2>2
<1>10. ASSUME NEW g, NEW c \in E(g), NEW d \in E(g) PROVE c = d
  <2>1. PICK v \in MatchedTo(X, g), w \in UNION {MatchedTo(X, h) : h \in SuccessorsOf(G, g)} :
           c = <<v, w>>
    BY DEF ChainEnds
  <2>2. PICK x \in MatchedTo(X, g), y \in UNION {MatchedTo(X, h) : h \in SuccessorsOf(G, g)} :
           d = <<x, y>>
    BY DEF ChainEnds
  <2>3. v = x
    BY <1>4
  <2>4. w = y
    BY <1>4, <1>8
  <2> QED
    BY <2>1, <2>2, <2>3, <2>4
<1> HIDE DEF S, correct, stale, chain, E
<1>11. IsFiniteSet(correct) /\ IsFiniteSet(stale) /\ IsFiniteSet(correct \cup stale)
       /\ Cardinality(correct \cup stale)
             = Cardinality(correct) + Cardinality(stale) - Cardinality(correct \cap stale)
  BY <1>2, <1>6, FS_Subset, FS_Union
<1>12. Cardinality(correct \cap stale) = 0
  BY <1>6, FS_EmptySet
<1>13. Cardinality(correct) \in Nat /\ Cardinality(stale) \in Nat
  BY <1>11, FS_CardinalityType
<1>14. Cardinality(correct \cup stale) = Cardinality(correct) + Cardinality(stale)
  BY <1>11, <1>12, <1>13
<1>15. Cardinality(correct \cup stale) <= Cardinality(S)
  BY <1>2, <1>6, FS_Subset
<1> DEFINE f == [c \in chain |-> CHOOSE g \in correct \cup stale : c \in E(g)]
<1>16. \A c \in chain : f[c] \in correct \cup stale /\ c \in E(f[c])
  BY <1>9
<1>17. f \in [chain -> correct \cup stale]
  BY <1>16
<1>18. \A c, d \in chain : f[c] = f[d] => c = d
  BY <1>10, <1>16
<1> HIDE DEF f
<1>19. IsFiniteSet(chain) /\ Cardinality(chain) <= Cardinality(correct \cup stale)
  BY <1>11, <1>17, <1>18, OneToOneCounts
<1> QED
  BY <1>11, <1>14, <1>15, <1>19 DEF S, correct, stale, chain

\* The counts a room or a run is scored with.
ScoreKeys ==
    {"memories", "gold", "matched", "unmatched", "judged_noise", "noise_messages", "noise_cited",
     "noise_in_unmatched", "kind_matches", "scope_matches", "superseded_gold",
     "supersede_correct", "stale_active", "golds_with_matches", "duplicate_golds",
     "chain_pairs", "chain_key_consistent"}

ScoreSound(s) == s \in [ScoreKeys -> Nat] /\ CountsAgree(s)

LEMMA ScoreAgrees ==
  ASSUME NEW M, NEW G, MemoriesListed(M), MemoriesListed(G), NEW noise, IsFiniteSet(noise), NEW judged,
         \A v \in M : v.status \in {"active", "superseded"}
  PROVE  ScoreSound(ScoreWriteSide(M, G, noise, judged))
<1> DEFINE s  == ScoreWriteSide(M, G, noise, judged)
           X  == Matches(M, G)
           U  == Unmatched(M, X)
           UJ == U \cap judged
           N  == {m \in noise : FirstCiting(M, m) # {}}
           NU == {m \in N : FirstCiting(M, m) \subseteq U}
           K  == {p \in X : p[1].kind = p[2].kind}
           S  == {p \in X : ScopeForKind(p[1].kind) = ScopeForKind(p[2].kind)}
           O  == Superseded(G)
           A  == FoundAs(X, G, "superseded")
           B  == FoundAs(X, G, "active")
           W  == Wanted(M, G)
           D  == {g \in W : Cardinality(Active(Wanting(M, G, g))) > 1}
           C  == ChainPairs(X, G)
           T  == {c \in C : c[1].topic = c[2].topic}
<1>1. s = [memories |-> Cardinality(M), gold |-> Cardinality(G),
           matched |-> Cardinality(X), unmatched |-> Cardinality(U),
           judged_noise |-> Cardinality(UJ),
           noise_messages |-> Cardinality(noise), noise_cited |-> Cardinality(N),
           noise_in_unmatched |-> Cardinality(NU), kind_matches |-> Cardinality(K),
           scope_matches |-> Cardinality(S), superseded_gold |-> Cardinality(O),
           supersede_correct |-> Cardinality(A), stale_active |-> Cardinality(B),
           golds_with_matches |-> Cardinality(W), duplicate_golds |-> Cardinality(D),
           chain_pairs |-> Cardinality(C), chain_key_consistent |-> Cardinality(T)]
  BY Zenon DEF ScoreWriteSide
<1>2. /\ U \subseteq M /\ UJ \subseteq U /\ N \subseteq noise /\ NU \subseteq N
      /\ K \subseteq S /\ S \subseteq X /\ O \subseteq G /\ W \subseteq G /\ D \subseteq W
      /\ T \subseteq C
  BY DEF Unmatched, Superseded, Wanted
<1>3. /\ Cardinality(X) + Cardinality(U) = Cardinality(M)
      /\ Cardinality(X) <= Cardinality(W)
      /\ IsFiniteSet(X)
  BY MatchedOrNot, MatchedAreWanted, MatchEnds
<1>4. /\ IsFiniteSet(A) /\ IsFiniteSet(B) /\ IsFiniteSet(C)
      /\ Cardinality(A) + Cardinality(B) <= Cardinality(O)
      /\ Cardinality(C) <= Cardinality(A) + Cardinality(B)
  BY ChainsAreFound
<1>5. IsFiniteSet(M) /\ IsFiniteSet(G)
  BY DEF MemoriesListed
<1> HIDE DEF s, X, U, UJ, N, NU, K, S, O, A, B, W, D, C, T
<1>6. /\ IsFiniteSet(U) /\ IsFiniteSet(N) /\ IsFiniteSet(S) /\ IsFiniteSet(W)
  BY <1>2, <1>3, <1>5, FS_Subset
<1>7. /\ Cardinality(UJ) \in Nat /\ Cardinality(UJ) <= Cardinality(U)
      /\ Cardinality(N) \in Nat /\ Cardinality(N) <= Cardinality(noise)
      /\ Cardinality(NU) \in Nat /\ Cardinality(NU) <= Cardinality(N)
      /\ Cardinality(K) \in Nat /\ Cardinality(K) <= Cardinality(S)
      /\ Cardinality(S) \in Nat /\ Cardinality(S) <= Cardinality(X)
  BY <1>2, <1>3, <1>6, PartCounts
<1>8. /\ Cardinality(O) \in Nat
      /\ Cardinality(W) \in Nat /\ Cardinality(W) <= Cardinality(G)
      /\ Cardinality(D) \in Nat /\ Cardinality(D) <= Cardinality(W)
      /\ Cardinality(T) \in Nat /\ Cardinality(T) <= Cardinality(C)
  BY <1>2, <1>4, <1>5, <1>6, PartCounts
<1>9. /\ Cardinality(M) \in Nat /\ Cardinality(G) \in Nat /\ Cardinality(X) \in Nat
      /\ Cardinality(U) \in Nat /\ Cardinality(noise) \in Nat
      /\ Cardinality(A) \in Nat /\ Cardinality(B) \in Nat /\ Cardinality(C) \in Nat
  BY <1>3, <1>4, <1>5, <1>6, FS_CardinalityType
<1>10. s \in [ScoreKeys -> Nat]
  BY <1>1, <1>7, <1>8, <1>9 DEF ScoreKeys
<1>11. CountsAgree(s)
  BY <1>1, <1>3, <1>4, <1>7, <1>8 DEF CountsAgree
<1> QED
  BY <1>10, <1>11 DEF ScoreSound, s

\* Counts that bound each other room by room do so in sum.
LEMMA PoolAgrees ==
  ASSUME NEW ws, Len(ws) \in Nat \ {0}, DOMAIN ws = 1..Len(ws),
         \A i \in 1..Len(ws) : ScoreSound(ws[i])
  PROVE  /\ ScoreSound(Pool(ws))
         /\ \A a, b \in ScoreKeys :
               (\A i \in 1..Len(ws) : ws[i][a] = ws[i][b]) => Pool(ws)[a] = Pool(ws)[b]
<1> DEFINE n == Len(ws)
           p == Pool(ws)
           Of(a) == [i \in 1..n |-> ws[i][a]]
<1>1. \A i \in 1..n : ws[i] \in [ScoreKeys -> Nat] /\ CountsAgree(ws[i])
  BY DEF ScoreSound
<1>2. n \in Nat /\ 1 \in 1..n
  OBVIOUS
<1>3. UNION {DOMAIN ws[i] : i \in DOMAIN ws} = ScoreKeys
  <2>1. \A i \in 1..n : DOMAIN ws[i] = ScoreKeys
    BY <1>1
  <2> QED
    BY <1>2, <2>1
<1>4. p = [a \in ScoreKeys |-> Total(Of(a), n)]
  BY <1>3 DEF Pool
<1>5. ASSUME NEW a \in ScoreKeys PROVE \A i \in 1..n : Of(a)[i] \in Nat /\ Of(a)[i] = ws[i][a]
  BY <1>1
<1> HIDE DEF Of, p, n
<1>6. ASSUME NEW a \in ScoreKeys PROVE p[a] \in Nat /\ p[a] = Total(Of(a), n)
  BY <1>2, <1>4, <1>5, TotalGrows
<1>7. ASSUME NEW a \in ScoreKeys, NEW b \in ScoreKeys, \A i \in 1..n : ws[i][a] <= ws[i][b]
      PROVE  p[a] <= p[b]
  <2>1. \A i \in 1..n : Of(a)[i] \in Nat /\ Of(b)[i] \in Nat /\ Of(a)[i] <= Of(b)[i]
    BY <1>5, <1>7
  <2> QED
    BY <1>2, <1>6, <2>1, TotalAtMost
<1>8. ASSUME NEW a \in ScoreKeys, NEW b \in ScoreKeys
      PROVE  Total([i \in 1..n |-> ws[i][a] + ws[i][b]], n) = p[a] + p[b]
  <2> DEFINE h == [i \in 1..n |-> ws[i][a] + ws[i][b]]
  <2>1. \A i \in 1..n : Of(a)[i] \in Nat /\ Of(b)[i] \in Nat /\ h[i] = Of(a)[i] + Of(b)[i]
    BY <1>5
  <2> HIDE DEF h
  <2>2. Total(h, n) = Total(Of(a), n) + Total(Of(b), n)
    BY <1>2, <2>1, TotalAdds
  <2> QED
    BY <1>6, <2>2 DEF h
<1>9. ASSUME NEW a \in ScoreKeys, NEW b \in ScoreKeys, NEW c \in ScoreKeys,
             \A i \in 1..n : ws[i][a] + ws[i][b] = ws[i][c]
      PROVE  p[a] + p[b] = p[c]
  <2>1. \A i \in 1..n : Of(a)[i] \in Nat /\ Of(b)[i] \in Nat /\ Of(c)[i] = Of(a)[i] + Of(b)[i]
    BY <1>5, <1>9
  <2>2. Total(Of(c), n) = Total(Of(a), n) + Total(Of(b), n)
    BY <1>2, <2>1, TotalAdds
  <2> QED
    BY <1>6, <2>2
<1>10. ASSUME NEW a \in ScoreKeys, NEW b \in ScoreKeys, NEW c \in ScoreKeys,
              \A i \in 1..n : ws[i][a] + ws[i][b] <= ws[i][c]
       PROVE  p[a] + p[b] <= p[c]
  <2> DEFINE h == [i \in 1..n |-> ws[i][a] + ws[i][b]]
  <2>1. \A i \in 1..n : h[i] \in Nat /\ Of(c)[i] \in Nat /\ h[i] <= Of(c)[i]
    BY <1>1, <1>5, <1>10
  <2>2. Total(h, n) <= Total(Of(c), n)
    <3> HIDE DEF h
    <3> QED
      BY <1>2, <2>1, TotalAtMost
  <2> QED
    BY <1>6, <1>8, <2>2
<1>11. ASSUME NEW a \in ScoreKeys, NEW b \in ScoreKeys, NEW c \in ScoreKeys,
              \A i \in 1..n : ws[i][c] <= ws[i][a] + ws[i][b]
       PROVE  p[c] <= p[a] + p[b]
  <2> DEFINE h == [i \in 1..n |-> ws[i][a] + ws[i][b]]
  <2>1. \A i \in 1..n : h[i] \in Nat /\ Of(c)[i] \in Nat /\ Of(c)[i] <= h[i]
    BY <1>1, <1>5, <1>11
  <2>2. Total(Of(c), n) <= Total(h, n)
    <3> HIDE DEF h
    <3> QED
      BY <1>2, <2>1, TotalAtMost
  <2> QED
    BY <1>6, <1>8, <2>2
<1>12. CountsAgree(p)
  <2>1. \A i \in 1..n : /\ ws[i]["matched"] + ws[i]["unmatched"] = ws[i]["memories"]
                        /\ ws[i]["supersede_correct"] + ws[i]["stale_active"]
                              <= ws[i]["superseded_gold"]
                        /\ ws[i]["chain_pairs"]
                              <= ws[i]["supersede_correct"] + ws[i]["stale_active"]
    BY <1>1 DEF CountsAgree
  <2>2. \A i \in 1..n : /\ ws[i]["matched"] <= ws[i]["golds_with_matches"]
                        /\ ws[i]["golds_with_matches"] <= ws[i]["gold"]
                        /\ ws[i]["duplicate_golds"] <= ws[i]["golds_with_matches"]
                        /\ ws[i]["chain_key_consistent"] <= ws[i]["chain_pairs"]
                        /\ ws[i]["judged_noise"] <= ws[i]["unmatched"]
                        /\ ws[i]["noise_in_unmatched"] <= ws[i]["noise_cited"]
                        /\ ws[i]["noise_cited"] <= ws[i]["noise_messages"]
                        /\ ws[i]["kind_matches"] <= ws[i]["scope_matches"]
                        /\ ws[i]["scope_matches"] <= ws[i]["matched"]
    BY <1>1 DEF CountsAgree
  <2>3. {"memories", "gold", "matched", "unmatched", "judged_noise",
            "noise_messages", "noise_cited", "noise_in_unmatched", "kind_matches", "scope_matches",
            "superseded_gold", "supersede_correct", "stale_active", "golds_with_matches",
            "duplicate_golds", "chain_pairs", "chain_key_consistent"} \subseteq ScoreKeys
    BY DEF ScoreKeys
  <2>4. /\ p["matched"] + p["unmatched"] = p["memories"]
        /\ p["supersede_correct"] + p["stale_active"] <= p["superseded_gold"]
        /\ p["chain_pairs"] <= p["supersede_correct"] + p["stale_active"]
    <3>4. "matched" \in ScoreKeys /\ "unmatched" \in ScoreKeys /\ "memories" \in ScoreKeys
      BY <2>3
    <3>5. /\ "supersede_correct" \in ScoreKeys /\ "stale_active" \in ScoreKeys
          /\ "superseded_gold" \in ScoreKeys /\ "chain_pairs" \in ScoreKeys
      BY <2>3
    <3>6. \A i \in 1..n : ws[i]["matched"] + ws[i]["unmatched"] = ws[i]["memories"]
      BY <2>1
    <3>7. \A i \in 1..n :
             ws[i]["supersede_correct"] + ws[i]["stale_active"] <= ws[i]["superseded_gold"]
      BY <2>1
    <3>8. \A i \in 1..n :
             ws[i]["chain_pairs"] <= ws[i]["supersede_correct"] + ws[i]["stale_active"]
      BY <2>1
    <3>1. p["matched"] + p["unmatched"] = p["memories"]
      BY <1>9, <3>4, <3>6
    <3>2. p["supersede_correct"] + p["stale_active"] <= p["superseded_gold"]
      BY <1>10, <3>5, <3>7
    <3>3. p["chain_pairs"] <= p["supersede_correct"] + p["stale_active"]
      BY <1>11, <3>5, <3>8
    <3> QED
      BY <3>1, <3>2, <3>3
  <2>5. /\ p["matched"] <= p["golds_with_matches"]
        /\ p["golds_with_matches"] <= p["gold"]
        /\ p["duplicate_golds"] <= p["golds_with_matches"]
        /\ p["chain_key_consistent"] <= p["chain_pairs"]
        /\ p["judged_noise"] <= p["unmatched"]
        /\ p["noise_in_unmatched"] <= p["noise_cited"]
        /\ p["noise_cited"] <= p["noise_messages"]
        /\ p["kind_matches"] <= p["scope_matches"]
        /\ p["scope_matches"] <= p["matched"]
    BY <1>7, <2>2, <2>3
  <2> QED
    BY <2>4, <2>5 DEF CountsAgree
<1>13. p \in [ScoreKeys -> Nat]
  BY <1>4, <1>6
<1>14. ASSUME NEW a \in ScoreKeys, NEW b \in ScoreKeys, \A i \in 1..n : ws[i][a] = ws[i][b]
       PROVE  p[a] = p[b]
  <2>1. \A i \in 1..n : Of(a)[i] \in Nat /\ Of(b)[i] = Of(a)[i]
    BY <1>5, <1>14
  <2> QED
    BY <1>2, <1>6, <2>1, TotalSame
<1> QED
  BY <1>12, <1>13, <1>14 DEF ScoreSound, p, n

-------------------------------------------------------------------------------
(***************************************************************************)
(* The upper bound: gold memories that are their own curation.              *)
(***************************************************************************)

\* M is what view makes of G: memories with the ids, statements and sources of
\* the gold ones.
IsOwn(M, G, view) ==
    /\ view \in [G -> M] /\ M = {view[g] : g \in G}
    /\ \A g \in G : /\ view[g].id = g.id /\ view[g].statement = g.statement
                    /\ view[g].sources = g.sources /\ g.sources # {}

LEMMA OwnListed ==
  ASSUME NEW M, NEW G, NEW view, MemoriesListed(G), IsOwn(M, G, view)
  PROVE  /\ MemoriesListed(M)
         /\ \A g, h \in G : view[g] = view[h] => g = h
         /\ \A v \in M : \E g \in G : v = view[g]
<1>1. /\ IsFiniteSet(G)
      /\ \A v \in G : v.id \in Nat /\ IsFiniteSet(v.sources) /\ v.statement \in DOMAIN WordsOf
      /\ \A v, w \in G : v.id = w.id => v = w
  BY DEF MemoriesListed
<1>2. /\ \A g \in G : /\ view[g].id = g.id /\ view[g].statement = g.statement
                      /\ view[g].sources = g.sources
      /\ \A v \in M : \E g \in G : v = view[g]
  BY DEF IsOwn
<1>3. \A g, h \in G : view[g] = view[h] => g = h
  BY <1>1, <1>2
<1>4. IsFiniteSet({view[g] : g \in G})
  BY <1>1, <1>3, DistinctElements
<1>5. IsFiniteSet(M)
  BY <1>4, Zenon DEF IsOwn
<1>6. \A v \in M : v.id \in Nat /\ IsFiniteSet(v.sources) /\ v.statement \in DOMAIN WordsOf
  BY <1>1, <1>2
<1>7. \A v, w \in M : v.id = w.id => v = w
  BY <1>1, <1>2
<1> QED
  BY <1>2, <1>3, <1>5, <1>6, <1>7 DEF MemoriesListed

\* How the pair of a gold memory and its own curation stands to the pairs that
\* have one of its ends: none comes first unless its other end has the lower id.
LEMMA OwnPairs ==
  ASSUME NEW M, NEW G, NEW view, MemoriesListed(G), IsOwn(M, G, view), NEW g \in G, NEW h \in G
  PROVE  LET own   == <<view[g], g>>
             other == <<view[h], h>>
         IN  /\ own \in Candidates(M, G)
             /\ \A q \in {<<view[g], h>>, <<view[h], g>>} :
                   Precedes(q, own) /\ Precedes(own, other) => h = g
<1> DEFINE words(x) == WordsOf[x.statement]
           A == g.sources
           B == h.sources
           a == Cardinality(A)
           b == Cardinality(B)
           c == Cardinality(A \cap B)
           wa == Cardinality(words(g))
           wb == Cardinality(words(h))
           wc == Cardinality(words(g) \cap words(h))
<1>1. /\ IsFiniteSet(A) /\ IsFiniteSet(B) /\ A # {} /\ B # {}
      /\ IsFiniteSet(words(g)) /\ IsFiniteSet(words(h))
      /\ g.id \in Nat /\ h.id \in Nat /\ (g.id = h.id => g = h)
  BY WordsAssumption DEF MemoriesListed, IsOwn
<1>2. /\ view[g].id = g.id /\ view[g].statement = g.statement /\ view[g].sources = A
      /\ view[h].id = h.id /\ view[h].statement = h.statement /\ view[h].sources = B
      /\ view[g] \in M /\ view[h] \in M
  BY DEF IsOwn
<1>3. /\ a \in Nat /\ b \in Nat /\ c \in Nat /\ c <= a /\ c <= b /\ a > 0
  <2>1. IsFiniteSet(A \cap B) /\ Cardinality(A \cap B) <= Cardinality(A)
        /\ Cardinality(A \cap B) <= Cardinality(B)
    <3>1. A \cap B \subseteq A /\ A \cap B \subseteq B
      OBVIOUS
    <3> QED
      BY <1>1, <3>1, FS_Subset
  <2> QED
    BY <1>1, <2>1, FS_CardinalityType, FS_EmptySet
<1>4. wa \in Nat /\ wb \in Nat /\ wc \in Nat /\ wc <= wa /\ wc <= wb
  <2>1. words(g) \cap words(h) \subseteq words(g) /\ words(g) \cap words(h) \subseteq words(h)
    OBVIOUS
  <2>2. IsFiniteSet(words(g) \cap words(h)) /\ wc <= wa /\ wc <= wb
    BY <1>1, <2>1, FS_Subset
  <2> QED
    BY <1>1, <2>2, FS_CardinalityType
<1>5. /\ Overlap(<<view[g], g>>) = a /\ Overlap(<<view[h], h>>) = b
      /\ Overlap(<<view[g], h>>) = c /\ Overlap(<<view[h], g>>) = c
  <2>1. A \cap A = A /\ B \cap B = B /\ B \cap A = A \cap B
    OBVIOUS
  <2> QED
    BY <1>2, <2>1, Zenon DEF Overlap
<1>6. /\ StatementOverlap(<<view[g], g>>) = wa /\ StatementOverlap(<<view[h], h>>) = wb
      /\ StatementOverlap(<<view[g], h>>) = wc /\ StatementOverlap(<<view[h], g>>) = wc
  <2>1. /\ words(g) \cap words(g) = words(g) /\ words(h) \cap words(h) = words(h)
        /\ words(h) \cap words(g) = words(g) \cap words(h)
    OBVIOUS
  <2> QED
    BY <1>2, <2>1, Zenon DEF StatementOverlap
<1>7. <<view[g], g>> \in Candidates(M, G)
  BY <1>2, <1>3, <1>5 DEF Candidates
<1> HIDE DEF words, A, B, a, b, c, wa, wb, wc
<1>8. ASSUME Precedes(<<view[g], g>>, <<view[h], h>>)
      PROVE  a > b \/ (a = b /\ (wa > wb \/ (wa = wb /\ g.id <= h.id)))
  BY <1>1, <1>2, <1>5, <1>6, <1>8 DEF Precedes
<1>9. ASSUME Precedes(<<view[g], h>>, <<view[g], g>>) PROVE c = a /\ wc = wa /\ h.id < g.id
  BY <1>1, <1>2, <1>3, <1>4, <1>5, <1>6, <1>9 DEF Precedes
<1>10. ASSUME Precedes(<<view[h], g>>, <<view[g], g>>) PROVE c = a /\ wc = wa /\ h.id < g.id
  BY <1>1, <1>2, <1>3, <1>4, <1>5, <1>6, <1>10 DEF Precedes
<1>11. ASSUME NEW q \in {<<view[g], h>>, <<view[h], g>>},
              Precedes(q, <<view[g], g>>), Precedes(<<view[g], g>>, <<view[h], h>>)
       PROVE  h = g
  <2>1. c = a /\ wc = wa /\ h.id < g.id
    BY <1>9, <1>10, <1>11
  <2>2. a > b \/ (a = b /\ (wa > wb \/ (wa = wb /\ g.id <= h.id)))
    BY <1>8, <1>11
  <2> QED
    BY <1>1, <1>3, <1>4, <2>1, <2>2
<1> QED
  BY <1>7, <1>11

\* Every gold memory is matched to its own curation, and nothing else is.
LEMMA OwnMatched ==
  ASSUME NEW M, NEW G, NEW view, MemoriesListed(G), IsOwn(M, G, view)
  PROVE  Matches(M, G) = {<<view[g], g>> : g \in G}
<1> DEFINE X == Matches(M, G)
           D == {<<view[g], g>> : g \in G}
<1>1. /\ MemoriesListed(M) /\ \A g, h \in G : view[g] = view[h] => g = h
      /\ \A v \in M : \E g \in G : v = view[g]
  BY OwnListed
<1>2. IsMatching(X, Candidates(M, G))
  BY <1>1, MatchingIsStable
<1>3. /\ \A p, q \in X : p # q => p[1] # q[1] /\ p[2] # q[2]
      /\ \A p \in X : p[1] \in M /\ p[2] \in G /\ p = <<p[1], p[2]>>
  BY <1>1, MatchEnds
<1>4. /\ D \subseteq Candidates(M, G)
      /\ \A g, h \in G : \A q \in {<<view[g], h>>, <<view[h], g>>} :
            Precedes(q, <<view[g], g>>) /\ Precedes(<<view[g], g>>, <<view[h], h>>) => h = g
  BY OwnPairs
<1>5. Candidates(M, G) \subseteq M \X G
  BY <1>1, CandidatesFinite
<1> HIDE DEF X
<1>6. D \subseteq X
  <2> DEFINE T == D \ X
  <2> SUFFICES ASSUME T # {} PROVE FALSE
    OBVIOUS
  <2>1. T \subseteq M \X G
    BY <1>4, <1>5
  <2>2. BestOf(T) \in T /\ \A q \in T \ {BestOf(T)} : Precedes(BestOf(T), q)
    BY <1>1, <2>1, BestExists
  <2>3. PICK g \in G : BestOf(T) = <<view[g], g>> /\ <<view[g], g>> \notin X
    BY <2>2
  <2>4. PICK q \in X : (q[1] = view[g] \/ q[2] = g) /\ Precedes(q, <<view[g], g>>)
    <3>1. <<view[g], g>> \in Candidates(M, G) \ X
      BY <1>4, <2>3
    <3>2. <<view[g], g>>[1] = view[g] /\ <<view[g], g>>[2] = g
      OBVIOUS
    <3> QED
      BY <1>2, <3>1, <3>2 DEF IsMatching
  <2>5. PICK h \in G : q = <<view[g], h>> \/ q = <<view[h], g>>
    BY <1>1, <1>3, <2>4
  <2>6. h # g /\ <<view[h], h>> # q
    <3>1. h # g
      BY <2>3, <2>5
    <3> QED
      BY <1>1, <2>5, <3>1
  <2>7. <<view[h], h>> \notin X
    <3>1. <<view[h], h>>[1] = q[1] \/ <<view[h], h>>[2] = q[2]
      BY <2>5
    <3> QED
      BY <1>3, <2>6, <3>1
  <2>8. <<view[h], h>> \in T /\ <<view[h], h>> # <<view[g], g>>
    BY <2>6, <2>7
  <2>9. Precedes(<<view[g], g>>, <<view[h], h>>)
    BY <2>2, <2>3, <2>8
  <2> QED
    BY <1>4, <2>4, <2>5, <2>6, <2>9
<1>7. ASSUME NEW p \in X PROVE p \in D
  <2>1. p[2] \in G /\ <<view[p[2]], p[2]>> \in X
    BY <1>3, <1>6
  <2>2. <<view[p[2]], p[2]>>[2] = p[2]
    OBVIOUS
  <2>3. p = <<view[p[2]], p[2]>>
    BY <1>3, <2>1, <2>2
  <2> QED
    BY <2>1, <2>3
<1> QED
  BY <1>6, <1>7 DEF X

\* The counts of an upper bound: all gold memories found under their kind, all
\* supersedes known, all chains under one key.
ScoreExact(s) ==
    /\ s.matched = s.gold /\ s.kind_matches = s.matched
    /\ s.supersede_correct = s.superseded_gold
    /\ s.chain_key_consistent = s.chain_pairs

LEMMA OwnScored ==
  ASSUME NEW r, GoldsValid(r), NEW M, NEW view, NEW noise, NEW judged,
         MemoriesListed(r.golds), IsOwn(M, r.golds, view),
         \A g \in r.golds : /\ view[g].kind = g.kind /\ view[g].topic = g.topic
                            /\ g.superseded_by # 0 => view[g].status = "superseded"
  PROVE  ScoreExact(ScoreWriteSide(M, r.golds, noise, judged))
<1> DEFINE G == r.golds
           s == ScoreWriteSide(M, G, noise, judged)
           X == Matches(M, G)
           K == {p \in X : p[1].kind = p[2].kind}
           O == Superseded(G)
           A == FoundAs(X, G, "superseded")
           C == ChainPairs(X, G)
           T == {c \in C : c[1].topic = c[2].topic}
<1>1. X = {<<view[g], g>> : g \in G}
  BY OwnMatched
<1>2. /\ s.matched = Cardinality(X) /\ s.gold = Cardinality(G)
      /\ s.kind_matches = Cardinality(K)
      /\ s.superseded_gold = Cardinality(O) /\ s.supersede_correct = Cardinality(A)
      /\ s.chain_pairs = Cardinality(C) /\ s.chain_key_consistent = Cardinality(T)
  BY DEF ScoreWriteSide
<1>3. \A g \in G : MatchedTo(X, g) = {view[g]}
  <2> SUFFICES ASSUME NEW g \in G PROVE MatchedTo(X, g) = {view[g]}
    OBVIOUS
  <2>1. <<view[g], g>> \in X /\ <<view[g], g>>[1] = view[g] /\ <<view[g], g>>[2] = g
    BY <1>1
  <2>2. \A p \in X : p[2] = g => p[1] = view[g]
    BY <1>1
  <2> HIDE DEF X
  <2> QED
    BY <2>1, <2>2 DEF MatchedTo
<1>4. \A g, h \in G : g.id = h.id => g = h
  BY DEF MemoriesListed
<1>5. K = X
  BY <1>1
<1>6. A = O
  <2>1. \A g \in O : g \in G /\ view[g] \in MatchedTo(X, g) /\ view[g].status = "superseded"
    BY <1>3 DEF Superseded
  <2> HIDE DEF X, O
  <2>2. \A g \in O : \E v \in MatchedTo(X, g) : v.status = "superseded"
    BY <2>1
  <2> QED
    BY <2>2 DEF FoundAs, O
<1>7. T = C
  <2> SUFFICES ASSUME NEW c \in C PROVE c[1].topic = c[2].topic
    OBVIOUS
  <2>1. PICK g \in O : c \in ChainEnds(X, G, g)
    BY DEF ChainPairs
  <2>2. g \in G /\ g.superseded_by # 0
    BY DEF Superseded
  <2>3. PICK v \in MatchedTo(X, g), w \in UNION {MatchedTo(X, h) : h \in SuccessorsOf(G, g)} :
           c = <<v, w>>
    BY <2>1 DEF ChainEnds
  <2>4. PICK h \in SuccessorsOf(G, g) : w \in MatchedTo(X, h)
    BY <2>3
  <2>5. h \in G /\ h.id = g.superseded_by
    BY <2>4 DEF SuccessorsOf
  <2>6. PICK k \in SuccessorsOf(G, g) : k.topic = g.topic
    BY <2>2 DEF GoldsValid
  <2>7. k = h
    BY <1>4, <2>5, <2>6 DEF SuccessorsOf
  <2>8. v = view[g] /\ w = view[h]
    BY <1>3, <2>2, <2>3, <2>4, <2>5
  <2> QED
    BY <2>2, <2>3, <2>5, <2>6, <2>7, <2>8
<1>8. Cardinality(X) = Cardinality(G)
  <2> DEFINE f == [g \in G |-> <<view[g], g>>]
  <2>1. \A g, h \in G : f[g] = f[h] => g = h
    OBVIOUS
  <2>2. X = {f[g] : g \in G}
    BY <1>1
  <2>3. IsFiniteSet(G)
    BY DEF MemoriesListed
  <2> HIDE DEF f, X
  <2>4. Cardinality({f[g] : g \in G}) = Cardinality(G)
    BY <2>1, <2>3, DistinctElements
  <2> QED
    BY <2>2, <2>4, Zenon
<1> HIDE DEF s, X, K, O, A, C, T
<1> QED
  BY <1>2, <1>5, <1>6, <1>7, <1>8 DEF ScoreExact, s

\* The memories of a room of the oracle arm are listed and score exactly.
LEMMA OracleScored ==
  ASSUME NEW r, GoldsValid(r), NEW judged
  PROVE  /\ MemoriesListed(r.golds) /\ IsFiniteSet(r.noise)
         /\ MemoriesListed(OracleViews(r))
         /\ \A v \in OracleViews(r) : v.grounded /\ v.status \in {"active", "superseded"}
         /\ ScoreExact(ScoreWriteSide(OracleViews(r), r.golds, r.noise, judged))
<1> DEFINE G == r.golds
           M == OracleViews(r)
           view == [g \in G |->
               [id |-> g.id, kind |-> g.kind, topic |-> g.topic, statement |-> g.statement,
                sources |-> g.sources, grounded |-> TRUE,
                status |-> IF g.superseded_by # 0 THEN "superseded" ELSE "active",
                room |-> IF Pooled THEN r.id ELSE NoRoom]]
<1>1. /\ IsFiniteSet(G) /\ IsFiniteSet(r.messages) /\ r.noise \subseteq r.messages
      /\ \A g, h \in G : g.id = h.id => g = h
      /\ \A g \in G : /\ g.id \in Nat /\ g.statement \in DOMAIN WordsOf
                      /\ g.sources \subseteq r.messages /\ g.sources # {}
  BY DEF GoldsValid
<1>2. IsFiniteSet(r.noise) /\ \A g \in G : IsFiniteSet(g.sources)
  BY <1>1, FS_Subset
<1>3. MemoriesListed(G)
  BY <1>1, <1>2 DEF MemoriesListed
<1>4. M = {view[g] : g \in G}
  BY DEF OracleViews
<1>5. \A g \in G : /\ view[g].id = g.id /\ view[g].statement = g.statement
                   /\ view[g].sources = g.sources
                   /\ view[g].kind = g.kind /\ view[g].topic = g.topic
                   /\ view[g].grounded /\ view[g].status \in {"active", "superseded"}
                   /\ g.superseded_by # 0 => view[g].status = "superseded"
  OBVIOUS
<1>6. DOMAIN view = G /\ view = [g \in G |-> view[g]]
  OBVIOUS
<1> HIDE DEF view, M
<1>7. view \in [G -> M]
  BY <1>4, <1>6
<1>8. IsOwn(M, G, view)
  BY <1>1, <1>4, <1>5, <1>7 DEF IsOwn
<1>9. MemoriesListed(M)
  BY <1>3, <1>8, OwnListed
<1>10. \A v \in M : v.grounded /\ v.status \in {"active", "superseded"}
  BY <1>4, <1>5
<1>11. ScoreExact(ScoreWriteSide(M, G, r.noise, judged))
  BY <1>3, <1>5, <1>8, OwnScored
<1> QED
  BY <1>2, <1>3, <1>9, <1>10, <1>11 DEF M

-------------------------------------------------------------------------------
\* A missed conflict lies beside a stale memory: where the gold has one current
\* memory to a topic, one of the two was matched to a superseded one.
LEMMA MissedBesideStale ==
  ASSUME NEW M, NEW G, MemoriesListed(M), MemoriesListed(G), NEW X, X = Matches(M, G),
         OneCurrentPerTopic(G), MissedConflicts(M, G) # {}
  PROVE  \E g \in Superseded(G) : MatchedTo(X, g) \subseteq Active(M)
<1>1. /\ \A p \in X : p[1] \in M /\ p[2] \in G /\ p = <<p[1], p[2]>>
      /\ \A p, q \in X : p # q => p[1] # q[1] /\ p[2] # q[2]
  BY MatchEnds
<1>2. PICK pair \in MissedConflicts(M, G) : TRUE
  OBVIOUS
<1>3. PICK u \in pair, v \in pair :
         /\ pair \subseteq Active(M) /\ u.topic # v.topic
         /\ \E g \in GoldIn(X, u), h \in GoldIn(X, v) : g.topic = h.topic
  BY <1>2 DEF MissedConflicts
<1>4. PICK g \in GoldIn(X, u), h \in GoldIn(X, v) : g.topic = h.topic
  BY <1>3
<1>5. PICK p \in X, q \in X : p[1] = u /\ p[2] = g /\ q[1] = v /\ q[2] = h
  BY <1>4 DEF GoldIn
<1>6. g \in G /\ h \in G /\ g # h
  BY <1>1, <1>3, <1>5
<1>7. MatchedTo(X, g) = {u} /\ MatchedTo(X, h) = {v}
  BY <1>1, <1>5 DEF MatchedTo
<1>8. g \in Superseded(G) \/ h \in Superseded(G)
  BY <1>4, <1>6 DEF OneCurrentPerTopic
<1> QED
  BY <1>3, <1>7, <1>8

-------------------------------------------------------------------------------
(***************************************************************************)
(* RoomDelivery: the order of the jobs.                                     *)
(***************************************************************************)

StepNames == {"ingest", "curate", "deliver", "open", "share", "share_new", "write_side"}
JobSet ==
    (StepNames \X RoomNos)
        \cup UNION {{<<"probe", i, k>> : k \in DOMAIN RoomSeq[i].probes} : i \in RoomNos}

\* What an arm does with a room before it is scored, and with which others.
StepsOf(arm) ==
    CASE arm.name = "full_context" -> {}
      [] arm.name = "raw" -> {"ingest", "open"}
      [] arm.name = "raw_project" -> {"ingest", "share", "open", "share_new"}
      [] OTHER -> {"ingest", "curate", "open", "deliver", "share_new"}
                      \cup (IF arm.shared THEN {"share"} ELSE {})
ScoringSteps == {"write_side", "probe"}
Together(arm) ==
    arm.name = "raw_project" \/ (arm.shared /\ arm.name \in {"oracle", "curated"})
Related(arm, i, o) ==
    IF Together(arm) THEN RoomSeq[i].project = RoomSeq[o].project ELSE o = i
JobsFor(arm) == {j \in JobSet : j[1] \in StepsOf(arm) \cup ScoringSteps}

\* What is a job about.
LEMMA JobParts ==
  ASSUME NEW j \in JobSet
  PROVE  /\ j[2] \in RoomNos
         /\ j[1] # "probe" => j = <<j[1], j[2]>>
         /\ j[1] = "probe" => j[3] \in DOMAIN RoomSeq[j[2]].probes
<1>1. CASE j \in StepNames \X RoomNos
  BY <1>1 DEF StepNames
<1>2. CASE j \notin StepNames \X RoomNos
  <2>1. PICK i \in RoomNos : \E k \in DOMAIN RoomSeq[i].probes : j = <<"probe", i, k>>
    BY <1>2 DEF JobSet
  <2> QED
    BY <2>1
<1> QED
  BY <1>1, <1>2

\* It is too early to do x when the curation y is still to be done: x uses the
\* memories of its own room or of those that share with it.
TooEarly(arm, x, y) ==
    /\ y[1] = "curate"
    /\ \/ x[1] = "deliver" /\ x[2] = y[2]
       \/ x[1] \in {"share", "share_new"} \cup ScoringSteps /\ Related(arm, x[2], y[2])

\* s scores no room before all is done with it, and nothing in s is too early.
ReadyFirst(arm, s) ==
    \A k \in 1..Len(s) : s[k][1] \in ScoringSteps =>
        \A step \in StepsOf(arm) : \A o \in RoomNos :
            Related(arm, s[k][2], o) => \E m \in 1..(k - 1) : s[m] = <<step, o>>
InOrder(arm, s) == \A k, m \in 1..Len(s) : k < m => ~TooEarly(arm, s[k], s[m])
PlanRight(arm, s) == s \in Seq(JobsFor(arm)) /\ ReadyFirst(arm, s) /\ InOrder(arm, s)

\* Where the jobs of two lists are in their concatenation.
LEMMA PlacesAppended ==
  ASSUME NEW S, NEW a \in Seq(S), NEW b \in Seq(S), NEW c, c = a \o b
  PROVE  /\ c \in Seq(S) /\ Len(a) \in Nat /\ Len(b) \in Nat /\ Len(c) = Len(a) + Len(b)
         /\ \A k \in 1..Len(a) : k \in 1..Len(c) /\ c[k] = a[k]
         /\ \A m \in 1..Len(b) : m + Len(a) \in 1..Len(c) /\ c[m + Len(a)] = b[m]
         /\ \A k \in 1..Len(c) : \/ k \in 1..Len(a) /\ c[k] = a[k]
                                 \/ /\ k - Len(a) \in 1..Len(b) /\ c[k] = b[k - Len(a)]
                                    /\ k > Len(a)
<1>1. /\ c \in Seq(S) /\ Len(a) \in Nat /\ Len(b) \in Nat /\ Len(c) = Len(a) + Len(b)
      /\ \A k \in 1..Len(a) : c[k] = a[k]
      /\ \A k \in (Len(a) + 1)..Len(c) : c[k] = b[k - Len(a)]
  OBVIOUS
<1>2. ASSUME NEW m \in 1..Len(b) PROVE m + Len(a) \in 1..Len(c) /\ c[m + Len(a)] = b[m]
  <2>1. m + Len(a) \in (Len(a) + 1)..Len(c) /\ (m + Len(a)) - Len(a) = m
    BY <1>1
  <2> QED
    BY <1>1, <2>1
<1> QED
  BY <1>1, <1>2

LEMMA OrderAppended ==
  ASSUME NEW arm, NEW a \in Seq(JobsFor(arm)), NEW b \in Seq(JobsFor(arm)),
         InOrder(arm, a), InOrder(arm, b),
         \A k \in 1..Len(a) : \A m \in 1..Len(b) : ~TooEarly(arm, a[k], b[m])
  PROVE  InOrder(arm, a \o b)
<1> DEFINE c == a \o b
<1>1. /\ Len(a) \in Nat /\ Len(b) \in Nat /\ Len(c) = Len(a) + Len(b)
      /\ \A k \in 1..Len(c) : \/ k \in 1..Len(a) /\ c[k] = a[k]
                              \/ /\ k - Len(a) \in 1..Len(b) /\ c[k] = b[k - Len(a)]
                                 /\ k > Len(a)
  BY PlacesAppended
<1> HIDE DEF c
<1>2. ASSUME NEW k \in 1..Len(c), NEW m \in 1..Len(c), k < m PROVE ~TooEarly(arm, c[k], c[m])
  <2>1. CASE k \in 1..Len(a) /\ c[k] = a[k] /\ m \in 1..Len(a) /\ c[m] = a[m]
    <3>1. ~TooEarly(arm, a[k], a[m])
      BY <1>2, <2>1 DEF InOrder
    <3> QED
      BY <2>1, <3>1
  <2>2. CASE k \in 1..Len(a) /\ c[k] = a[k] /\ m - Len(a) \in 1..Len(b) /\ c[m] = b[m - Len(a)]
    <3>1. ~TooEarly(arm, a[k], b[m - Len(a)])
      BY <2>2
    <3> QED
      BY <2>2, <3>1
  <2>3. CASE /\ k - Len(a) \in 1..Len(b) /\ c[k] = b[k - Len(a)]
             /\ m - Len(a) \in 1..Len(b) /\ c[m] = b[m - Len(a)]
    <3>1. k - Len(a) < m - Len(a)
      BY <1>1, <1>2
    <3>2. ~TooEarly(arm, b[k - Len(a)], b[m - Len(a)])
      BY <2>3, <3>1 DEF InOrder
    <3> QED
      BY <2>3, <3>2
  <2>4. ~(k > Len(a) /\ m \in 1..Len(a))
    BY <1>1, <1>2
  <2> QED
    BY <1>1, <2>1, <2>2, <2>3, <2>4
<1> QED
  BY <1>2 DEF InOrder, c

LEMMA ReadyAppended ==
  ASSUME NEW arm, NEW a \in Seq(JobsFor(arm)), NEW b \in Seq(JobsFor(arm)), ReadyFirst(arm, a),
         \/ ReadyFirst(arm, b)
         \/ \A step \in StepsOf(arm) : \A o \in RoomNos : \A m \in 1..Len(b) :
               Related(arm, b[m][2], o) => \E k \in 1..Len(a) : a[k] = <<step, o>>
  PROVE  ReadyFirst(arm, a \o b)
<1> DEFINE c == a \o b
<1>1. /\ Len(a) \in Nat /\ Len(b) \in Nat /\ Len(c) = Len(a) + Len(b)
      /\ \A k \in 1..Len(a) : c[k] = a[k]
      /\ \A m \in 1..Len(b) : m + Len(a) \in 1..Len(c) /\ c[m + Len(a)] = b[m]
      /\ \A k \in 1..Len(c) : \/ k \in 1..Len(a) /\ c[k] = a[k]
                              \/ /\ k - Len(a) \in 1..Len(b) /\ c[k] = b[k - Len(a)]
                                 /\ k > Len(a)
  BY PlacesAppended
<1> HIDE DEF c
<1>2. ASSUME NEW k \in 1..Len(c), c[k][1] \in ScoringSteps, NEW step \in StepsOf(arm),
             NEW o \in RoomNos, Related(arm, c[k][2], o)
      PROVE  \E m \in 1..(k - 1) : c[m] = <<step, o>>
  <2>1. CASE k \in 1..Len(a) /\ c[k] = a[k]
    <3>1. PICK m \in 1..(k - 1) : a[m] = <<step, o>>
      BY <1>2, <2>1 DEF ReadyFirst
    <3>2. m \in 1..Len(a)
      BY <1>1, <2>1
    <3> QED
      BY <1>1, <3>1, <3>2
  <2>2. CASE k - Len(a) \in 1..Len(b) /\ c[k] = b[k - Len(a)] /\ k > Len(a)
    <3>1. CASE ReadyFirst(arm, b)
      <4>1. PICK m \in 1..(k - Len(a) - 1) : b[m] = <<step, o>>
        BY <1>2, <2>2, <3>1 DEF ReadyFirst
      <4>2. m \in 1..Len(b) /\ m + Len(a) \in 1..(k - 1)
        BY <1>1, <2>2
      <4> QED
        BY <1>1, <4>1, <4>2
    <3>2. CASE \E m \in 1..Len(a) : a[m] = <<step, o>>
      <4>1. PICK m \in 1..Len(a) : a[m] = <<step, o>>
        BY <3>2
      <4>2. m \in 1..(k - 1)
        BY <1>1, <2>2
      <4> QED
        BY <1>1, <4>1, <4>2
    <3> QED
      BY <1>2, <2>2, <3>1, <3>2
  <2> QED
    BY <1>1, <2>1, <2>2
<1> QED
  BY <1>2 DEF ReadyFirst, c

\* Lists behind each other are right when each is and none is too early for
\* another.
LEMMA RightJoined ==
  ASSUME NEW arm, NEW n \in Nat, NEW parts, \A i \in 1..n : PlanRight(arm, parts[i]),
         \A i, h \in 1..n : i < h =>
            \A k \in 1..Len(parts[i]) : \A m \in 1..Len(parts[h]) :
               ~TooEarly(arm, parts[i][k], parts[h][m])
  PROVE  PlanRight(arm, Joined(<<>>, parts, n))
<1> DEFINE S == JobsFor(arm)
<1>1. PICK J : IsJoin(J, S, <<>>, parts, n)
  <2>1. <<>> \in Seq(S) /\ \A i \in 1..n : parts[i] \in Seq(S)
    BY DEF PlanRight
  <2> HIDE DEF S
  <2> QED
    BY <2>1, JoinExists
<1>2. /\ J \in [0..n -> Seq(S)] /\ J[0] = <<>>
      /\ \A i \in 1..n : J[i] = J[i - 1] \o parts[i]
  BY <1>1 DEF IsJoin
<1> HIDE DEF S
<1> DEFINE Sound(k) == /\ PlanRight(arm, J[k])
                       /\ \A j \in 1..Len(J[k]) : \E i \in 1..k : \E m \in 1..Len(parts[i]) :
                             J[k][j] = parts[i][m]
           T == {k \in Nat : k <= n => Sound(k)}
<1>3. 0 \in T
  <2>1. /\ J[0] \in Seq(S) /\ Len(J[0]) = 0
    BY <1>2
  <2>2. \A k \in 1..Len(J[0]) : FALSE
    BY <2>1
  <2> QED
    BY <2>1, <2>2 DEF PlanRight, ReadyFirst, InOrder, S
<1>4. ASSUME NEW k \in Nat, k \in T PROVE k + 1 \in T
  <2> SUFFICES ASSUME k + 1 <= n PROVE Sound(k + 1)
    OBVIOUS
  <2> DEFINE a == J[k]
             b == parts[k + 1]
             c == J[k + 1]
  <2>1. k + 1 \in 1..n /\ (k + 1) - 1 = k /\ k \in 0..n
    OBVIOUS
  <2>2. c = a \o b
    BY <1>2, <2>1
  <2>3. PlanRight(arm, a) /\ PlanRight(arm, b)
    BY <1>4, <2>1
  <2>4. \A j \in 1..Len(a) : \E i \in 1..k : \E m \in 1..Len(parts[i]) : a[j] = parts[i][m]
    BY <1>4, <2>1
  <2>5. \A j \in 1..Len(a) : \A m \in 1..Len(b) : ~TooEarly(arm, a[j], b[m])
    <3> SUFFICES ASSUME NEW j \in 1..Len(a), NEW m \in 1..Len(b) PROVE ~TooEarly(arm, a[j], b[m])
      OBVIOUS
    <3>1. PICK i \in 1..k : \E h \in 1..Len(parts[i]) : a[j] = parts[i][h]
      BY <2>4
    <3>2. PICK h \in 1..Len(parts[i]) : a[j] = parts[i][h]
      BY <3>1
    <3>3. i \in 1..n /\ i < k + 1
      BY <2>1
    <3>4. ~TooEarly(arm, parts[i][h], b[m])
      BY <2>1, <3>3
    <3> QED
      BY <3>2, <3>4
  <2> HIDE DEF a, b, c, Sound
  <2>6. a \in Seq(S) /\ b \in Seq(S)
    BY <2>3 DEF PlanRight, S
  <2>7. /\ c \in Seq(S) /\ Len(a) \in Nat
        /\ \A j \in 1..Len(c) : \/ j \in 1..Len(a) /\ c[j] = a[j]
                                \/ /\ j - Len(a) \in 1..Len(b) /\ c[j] = b[j - Len(a)]
                                   /\ j > Len(a)
    BY <2>2, <2>6, PlacesAppended
  <2>8. PlanRight(arm, c)
    BY <2>2, <2>3, <2>5, <2>6, <2>7, OrderAppended, ReadyAppended DEF PlanRight, S
  <2>9. \A j \in 1..Len(c) : \E i \in 1..(k + 1) : \E m \in 1..Len(parts[i]) : c[j] = parts[i][m]
    <3> SUFFICES ASSUME NEW j \in 1..Len(c)
                 PROVE  \E i \in 1..(k + 1) : \E m \in 1..Len(parts[i]) : c[j] = parts[i][m]
      OBVIOUS
    <3>1. CASE j \in 1..Len(a) /\ c[j] = a[j]
      <4>1. PICK i \in 1..k : \E m \in 1..Len(parts[i]) : a[j] = parts[i][m]
        BY <2>4, <3>1
      <4> QED
        BY <3>1, <4>1
    <3>2. CASE j - Len(a) \in 1..Len(b) /\ c[j] = b[j - Len(a)]
      BY <3>2 DEF b
    <3> QED
      BY <2>7, <3>1, <3>2
  <2> QED
    BY <2>8, <2>9 DEF Sound, c
<1>5. Nat \subseteq T
  <2> HIDE DEF T
  <2> QED
    BY <1>3, <1>4, NumberInduction
<1>6. Joined(<<>>, parts, n) = J[n]
  BY <1>1, JoinedIsJoin
<1> QED
  BY <1>5, <1>6

LEMMA RoomsNumbered ==
  /\ Len(RoomSeq) \in Nat /\ RoomNos = 1..Len(RoomSeq)
  /\ Numbered \in Seq(RoomNos) /\ Len(Numbered) = Len(RoomSeq)
  /\ \A i \in RoomNos : Numbered[i] = i
<1>1. Len(RoomSeq) \in Nat /\ RoomNos = 1..Len(RoomSeq)
  BY RoomDeliveryAssumption DEF RoomNos
<1> QED
  BY <1>1 DEF Numbered

\* Where Each puts a step of a room.
LEMMA PlacesOfEach ==
  ASSUME NEW l \in {1, 2, 3, 5}, NEW n \in Nat
  PROVE  /\ l * n \in Nat
         /\ \A k \in 1..(l * n) : ((k - 1) % l) + 1 \in 1..l /\ ((k - 1) \div l) + 1 \in 1..n
         /\ \A a \in 1..l : \A b \in 1..n :
               /\ (b - 1) * l + a \in 1..(l * n)
               /\ (((b - 1) * l + a - 1) % l) + 1 = a
               /\ (((b - 1) * l + a - 1) \div l) + 1 = b
         /\ \A k, m \in 1..(l * n) :
               k < m /\ (k - 1) \div l = (m - 1) \div l => (k - 1) % l < (m - 1) % l
<1>1. CASE l = 1
  BY <1>1
<1>2. CASE l = 2
  BY <1>2
<1>3. CASE l = 3
  BY <1>3
<1>4. CASE l = 5
  BY <1>4
<1> QED
  BY <1>1, <1>2, <1>3, <1>4

\* s has every step for every room, and nothing else; the steps of one room are
\* in their order.
IsEach(s, S, steps, numbers) ==
    /\ s \in Seq(S)
    /\ \A k \in 1..Len(s) : \E a \in 1..Len(steps), b \in 1..Len(numbers) :
          s[k] = <<steps[a], numbers[b]>>
    /\ \A a \in 1..Len(steps) : \A b \in 1..Len(numbers) :
          \E k \in 1..Len(s) : s[k] = <<steps[a], numbers[b]>>
    /\ \A k, m \in 1..Len(s) : k < m =>
          \E a, c \in 1..Len(steps), b, d \in 1..Len(numbers) :
             /\ s[k] = <<steps[a], numbers[b]>> /\ s[m] = <<steps[c], numbers[d]>>
             /\ b = d => a < c

LEMMA EachIsEach ==
  ASSUME NEW S, NEW steps, NEW numbers, Len(steps) \in {0, 1, 2, 3, 5}, Len(numbers) \in Nat,
         \A a \in 1..Len(steps) : \A b \in 1..Len(numbers) : <<steps[a], numbers[b]>> \in S
  PROVE  IsEach(Each(steps, numbers), S, steps, numbers)
<1> DEFINE s == Each(steps, numbers)
           l == Len(steps)
           n == Len(numbers)
<1>2. CASE l = 0
  <2>1. l * n = 0
    BY <1>2
  <2>2. s = <<>>
    BY <2>1 DEF Each
  <2> HIDE DEF s
  <2> QED
    BY <1>2, <2>2 DEF IsEach, s
<1>3. CASE l \in {1, 2, 3, 5}
  <2> DEFINE m == l * n
             A(k) == ((k - 1) % l) + 1
             B(k) == ((k - 1) \div l) + 1
             K(a, b) == (b - 1) * l + a
  <2>1. l \in {1, 2, 3, 5} /\ n \in Nat
    BY <1>3
  <2>2. s = [k \in 1..m |-> <<steps[A(k)], numbers[B(k)]>>]
    BY DEF Each
  <2>3. /\ m \in Nat
        /\ \A k \in 1..m : A(k) \in 1..l /\ B(k) \in 1..n
        /\ \A a \in 1..l : \A b \in 1..n : K(a, b) \in 1..m /\ A(K(a, b)) = a /\ B(K(a, b)) = b
    <3> HIDE DEF l, n
    <3> QED
      BY <2>1, PlacesOfEach
  <2>4. \A k, j \in 1..m : k < j /\ B(k) = B(j) => A(k) < A(j)
    <3> HIDE DEF l, n
    <3> SUFFICES ASSUME NEW k \in 1..m, NEW j \in 1..m, k < j, B(k) = B(j) PROVE A(k) < A(j)
      OBVIOUS
    <3>1. /\ k - 1 \in Nat /\ j - 1 \in Nat
          /\ (k - 1) \div l \in Int /\ (j - 1) \div l \in Int
          /\ (k - 1) % l \in Int /\ (j - 1) % l \in Int
      BY <2>1, <2>3
    <3>2. (k - 1) \div l = (j - 1) \div l
      BY <3>1
    <3>3. (k - 1) % l < (j - 1) % l
      BY <2>1, <3>2, PlacesOfEach
    <3> QED
      BY <3>1, <3>3
  <2> HIDE DEF m, A, B, K, s, l, n
  <2>5. \A k \in 1..m : <<steps[A(k)], numbers[B(k)]>> \in S
    BY <2>3 DEF l, n
  <2>6. s \in Seq(S) /\ Len(s) = m
    <3>1. s \in [1..m -> S]
      BY <2>2, <2>5, Zenon
    <3> QED
      BY <2>3, <3>1
  <2>7. \A k \in 1..Len(s) : \E a \in 1..l, b \in 1..n : s[k] = <<steps[a], numbers[b]>>
    BY <2>2, <2>3, <2>6
  <2>8. \A a \in 1..l : \A b \in 1..n : \E k \in 1..Len(s) : s[k] = <<steps[a], numbers[b]>>
    BY <2>2, <2>3, <2>6
  <2>9. ASSUME NEW k \in 1..Len(s), NEW j \in 1..Len(s), k < j
        PROVE  \E a, c \in 1..l, b, d \in 1..n :
                  /\ s[k] = <<steps[a], numbers[b]>> /\ s[j] = <<steps[c], numbers[d]>>
                  /\ b = d => a < c
    <3>1. k \in 1..m /\ j \in 1..m
      BY <2>6
    <3>2. /\ s[k] = <<steps[A(k)], numbers[B(k)]>> /\ s[j] = <<steps[A(j)], numbers[B(j)]>>
          /\ A(k) \in 1..l /\ A(j) \in 1..l /\ B(k) \in 1..n /\ B(j) \in 1..n
      BY <2>2, <2>3, <3>1
    <3>3. B(k) = B(j) => A(k) < A(j)
      BY <2>4, <2>9, <3>1
    <3> QED
      BY <3>2, <3>3, Zenon
  <2> QED
    BY <2>6, <2>7, <2>8, <2>9 DEF IsEach, s, l, n
<1> QED
  BY <1>2, <1>3

\* A list of steps in which a curation comes before the use of its memories,
\* done with one room or, when it shares nothing, with several.
StepsInOrder(arm, steps, numbers) ==
    /\ Len(steps) \in {0, 1, 2, 3, 5} /\ Len(numbers) \in Nat
    /\ \A a \in 1..Len(steps) : steps[a] \in StepsOf(arm)
    /\ \A b, d \in 1..Len(numbers) :
          numbers[b] \in RoomNos /\ (numbers[b] = numbers[d] => b = d)
    /\ \A c \in 1..Len(steps) : steps[c] = "curate" =>
          \A a \in 1..Len(steps) :
             /\ a < c => steps[a] \notin {"deliver", "share", "share_new"}
             /\ Len(numbers) = 1 \/ steps[a] \notin {"share", "share_new"}

\* Of a list: it scores nothing, and does just these steps with these rooms.
DoesJust(s, steps, rooms) ==
    /\ \A k \in 1..Len(s) : s[k][1] \in steps /\ s[k][2] \in rooms
    /\ \A step \in steps : \A o \in rooms : \E k \in 1..Len(s) : s[k] = <<step, o>>

LEMMA StepsNamed ==
  ASSUME NEW arm
  PROVE  StepsOf(arm) \subseteq StepNames /\ \A step \in StepsOf(arm) : step \notin ScoringSteps
BY DEF StepsOf, StepNames, ScoringSteps

LEMMA EachRight ==
  ASSUME NEW arm, NEW steps, NEW numbers, StepsInOrder(arm, steps, numbers)
  PROVE  /\ PlanRight(arm, Each(steps, numbers))
         /\ DoesJust(Each(steps, numbers), {steps[a] : a \in 1..Len(steps)},
                     {numbers[b] : b \in 1..Len(numbers)})
<1> DEFINE s == Each(steps, numbers)
           S == JobsFor(arm)
<1>1. \A a \in 1..Len(steps) : \A b \in 1..Len(numbers) : <<steps[a], numbers[b]>> \in S
  <2> SUFFICES ASSUME NEW a \in 1..Len(steps), NEW b \in 1..Len(numbers)
               PROVE  <<steps[a], numbers[b]>> \in S
    OBVIOUS
  <2>1. steps[a] \in StepsOf(arm) /\ steps[a] \in StepNames /\ numbers[b] \in RoomNos
    BY StepsNamed DEF StepsInOrder
  <2> HIDE DEF S
  <2> DEFINE j == <<steps[a], numbers[b]>>
  <2>2. j[1] = steps[a] /\ j \in StepNames \X RoomNos
    BY <2>1
  <2> HIDE DEF j
  <2>3. j \in JobSet /\ j[1] \in StepsOf(arm)
    BY <2>1, <2>2 DEF JobSet
  <2> QED
    BY <2>3 DEF JobsFor, S, j
<1> HIDE DEF S
<1>2. IsEach(s, S, steps, numbers)
  BY <1>1, EachIsEach DEF StepsInOrder
<1> HIDE DEF s
<1>3. ASSUME NEW k \in 1..Len(s)
      PROVE  /\ \E a \in 1..Len(steps) : s[k][1] = steps[a]
             /\ \E b \in 1..Len(numbers) : s[k][2] = numbers[b]
  <2>1. PICK a \in 1..Len(steps), b \in 1..Len(numbers) : s[k] = <<steps[a], numbers[b]>>
    BY <1>2 DEF IsEach
  <2> QED
    BY <2>1
<1>4. ReadyFirst(arm, s)
  <2>1. \A k \in 1..Len(s) : s[k][1] \notin ScoringSteps
    BY <1>3, StepsNamed DEF StepsInOrder
  <2> QED
    BY <2>1 DEF ReadyFirst
<1>5. ASSUME NEW k \in 1..Len(s), NEW m \in 1..Len(s), k < m PROVE ~TooEarly(arm, s[k], s[m])
  <2>1. PICK a, c \in 1..Len(steps), b, d \in 1..Len(numbers) :
           /\ s[k] = <<steps[a], numbers[b]>> /\ s[m] = <<steps[c], numbers[d]>>
           /\ b = d => a < c
    BY <1>2, <1>5, ZenonT(60) DEF IsEach
  <2>2. /\ s[k][1] = steps[a] /\ s[k][2] = numbers[b]
        /\ s[m][1] = steps[c] /\ s[m][2] = numbers[d]
    BY <2>1
  <2> SUFFICES ASSUME TooEarly(arm, s[k], s[m]) PROVE FALSE
    OBVIOUS
  <2>3. steps[c] = "curate" /\ steps[a] \notin ScoringSteps
    BY <2>2, StepsNamed DEF TooEarly, StepsInOrder
  <2>4. CASE steps[a] = "deliver" /\ numbers[b] = numbers[d]
    <3>1. b = d
      BY <2>4 DEF StepsInOrder
    <3> QED
      BY <2>1, <2>3, <2>4, <3>1 DEF StepsInOrder
  <2>5. CASE steps[a] \in {"share", "share_new"}
    <3>1. Len(numbers) = 1
      BY <2>3, <2>5 DEF StepsInOrder
    <3>2. b = d
      BY <3>1
    <3> QED
      BY <2>1, <2>3, <2>5, <3>2 DEF StepsInOrder
  <2> QED
    BY <2>2, <2>3, <2>4, <2>5 DEF TooEarly
<1>6. PlanRight(arm, s)
  BY <1>2, <1>4, <1>5 DEF PlanRight, InOrder, IsEach, S
<1>7. DoesJust(s, {steps[a] : a \in 1..Len(steps)}, {numbers[b] : b \in 1..Len(numbers)})
  <2> DEFINE X == {steps[a] : a \in 1..Len(steps)}
             R == {numbers[b] : b \in 1..Len(numbers)}
  <2>1. \A a \in 1..Len(steps) : \A b \in 1..Len(numbers) :
           \E k \in 1..Len(s) : s[k] = <<steps[a], numbers[b]>>
    BY <1>2 DEF IsEach
  <2>2. \A k \in 1..Len(s) : s[k][1] \in X /\ s[k][2] \in R
    BY <1>3
  <2>3. \A step \in X : \A o \in R : \E k \in 1..Len(s) : s[k] = <<step, o>>
    <3> SUFFICES ASSUME NEW step \in X, NEW o \in R PROVE \E k \in 1..Len(s) : s[k] = <<step, o>>
      OBVIOUS
    <3>1. PICK a \in 1..Len(steps), b \in 1..Len(numbers) : step = steps[a] /\ o = numbers[b]
      OBVIOUS
    <3> QED
      BY <2>1, <3>1, Zenon
  <2> HIDE DEF X, R
  <2> QED
    BY <2>2, <2>3, Zenon DEF DoesJust, X, R
<1> QED
  BY <1>6, <1>7 DEF s

\* One list behind another, when the second curates nothing.
LEMMA RightAppended ==
  ASSUME NEW arm, NEW a, NEW b, NEW X, NEW Y, NEW R, "curate" \notin Y,
         PlanRight(arm, a), DoesJust(a, X, R), PlanRight(arm, b), DoesJust(b, Y, R)
  PROVE  PlanRight(arm, a \o b) /\ DoesJust(a \o b, X \cup Y, R)
<1> DEFINE c == a \o b
           S == JobsFor(arm)
<1>1. a \in Seq(S) /\ b \in Seq(S)
  BY DEF PlanRight
<1> HIDE DEF S
<1>2. /\ c \in Seq(S) /\ Len(a) \in Nat
      /\ \A k \in 1..Len(a) : k \in 1..Len(c) /\ c[k] = a[k]
      /\ \A m \in 1..Len(b) : m + Len(a) \in 1..Len(c) /\ c[m + Len(a)] = b[m]
      /\ \A k \in 1..Len(c) : \/ k \in 1..Len(a) /\ c[k] = a[k]
                              \/ /\ k - Len(a) \in 1..Len(b) /\ c[k] = b[k - Len(a)]
                                 /\ k > Len(a)
  BY <1>1, PlacesAppended
<1> HIDE DEF c
<1>3. \A k \in 1..Len(a) : \A m \in 1..Len(b) : ~TooEarly(arm, a[k], b[m])
  BY DEF DoesJust, TooEarly
<1>4. PlanRight(arm, c)
  BY <1>1, <1>2, <1>3, OrderAppended, ReadyAppended DEF PlanRight, S, c
<1>5. \A k \in 1..Len(c) : c[k][1] \in X \cup Y /\ c[k][2] \in R
  BY <1>2 DEF DoesJust
<1>6. ASSUME NEW step \in X \cup Y, NEW o \in R PROVE \E k \in 1..Len(c) : c[k] = <<step, o>>
  <2>1. CASE step \in X
    <3>1. PICK k \in 1..Len(a) : a[k] = <<step, o>>
      BY <2>1 DEF DoesJust
    <3> QED
      BY <1>2, <3>1
  <2>2. CASE step \in Y
    <3>1. PICK m \in 1..Len(b) : b[m] = <<step, o>>
      BY <2>2 DEF DoesJust
    <3> QED
      BY <1>2, <3>1
  <2> QED
    BY <2>1, <2>2
<1> QED
  BY <1>4, <1>5, <1>6 DEF DoesJust, c

\* Scoring comes when all is done with the rooms.
LEMMA RightThenScored ==
  ASSUME NEW arm, NEW a, NEW b \in Seq(JobsFor(arm)), NEW R \in SUBSET RoomNos,
         PlanRight(arm, a), DoesJust(a, StepsOf(arm), R),
         \A m \in 1..Len(b) : /\ b[m][1] \in ScoringSteps
                              /\ \A o \in RoomNos : Related(arm, b[m][2], o) => o \in R
  PROVE  PlanRight(arm, a \o b)
<1>1. a \in Seq(JobsFor(arm))
  BY DEF PlanRight
<1>2. \A m \in 1..Len(b) : b[m][1] # "curate"
  BY DEF ScoringSteps
<1>3. InOrder(arm, b) /\ \A k \in 1..Len(a) : \A m \in 1..Len(b) : ~TooEarly(arm, a[k], b[m])
  BY <1>2 DEF InOrder, TooEarly
<1>4. InOrder(arm, a \o b)
  BY <1>1, <1>3, OrderAppended DEF PlanRight
<1>5. \A step \in StepsOf(arm) : \A o \in RoomNos : \A m \in 1..Len(b) :
         Related(arm, b[m][2], o) => \E k \in 1..Len(a) : a[k] = <<step, o>>
  BY DEF DoesJust
<1>6. ReadyFirst(arm, a \o b)
  BY <1>1, <1>5, ReadyAppended DEF PlanRight
<1>7. a \o b \in Seq(JobsFor(arm))
  BY <1>1, PlacesAppended
<1> QED
  BY <1>4, <1>6, <1>7 DEF PlanRight

LEMMA ScoringListed ==
  ASSUME NEW arm, NEW i \in RoomNos
  PROVE  /\ Scoring(i) \in Seq(JobsFor(arm))
         /\ \A k \in 1..Len(Scoring(i)) : Scoring(i)[k][1] \in ScoringSteps /\ Scoring(i)[k][2] = i
<1> DEFINE S == JobsFor(arm)
           n == Len(RoomSeq[i].probes)
           a == <<<<"write_side", i>>>>
           b == ProbesOf(i)
<1>1. DOMAIN RoomSeq[i].probes = 1..n /\ n \in Nat
  BY RoomDeliveryAssumption
<1>2. b = [k \in 1..n |-> <<"probe", i, k>>]
  BY <1>1 DEF ProbesOf
<1>3. ASSUME NEW k \in 1..n
      PROVE  /\ <<"probe", i, k>> \in S
             /\ <<"probe", i, k>>[1] \in ScoringSteps /\ <<"probe", i, k>>[2] = i
  <2>3. k \in DOMAIN RoomSeq[i].probes
    BY <1>1
  <2>4. <<"probe", i, k>> \in {<<"probe", i, q>> : q \in DOMAIN RoomSeq[i].probes}
    BY <2>3
  <2>5. <<"probe", i, k>>
           \in UNION {{<<"probe", h, q>> : q \in DOMAIN RoomSeq[h].probes} : h \in RoomNos}
    BY <2>4, Zenon
  <2>1. <<"probe", i, k>> \in JobSet
    BY <2>5, Zenon DEF JobSet
  <2>2. <<"probe", i, k>>[1] = "probe" /\ <<"probe", i, k>>[2] = i
    OBVIOUS
  <2> QED
    BY <2>1, <2>2, Zenon DEF JobsFor, ScoringSteps
<1>4. /\ <<"write_side", i>> \in S
      /\ <<"write_side", i>>[1] \in ScoringSteps /\ <<"write_side", i>>[2] = i
  <2>1. <<"write_side", i>> \in StepNames \X RoomNos
    BY DEF StepNames
  <2>2. <<"write_side", i>>[1] = "write_side" /\ <<"write_side", i>>[2] = i
    OBVIOUS
  <2> QED
    BY <2>1, <2>2, Zenon DEF JobsFor, ScoringSteps, JobSet
<1> DEFINE j == <<"write_side", i>>
<1>5. j \in S /\ j[1] \in ScoringSteps /\ j[2] = i
  BY <1>4
<1> HIDE DEF S, n, j
<1>6. /\ <<j>> \in Seq(S) /\ Len(<<j>>) = 1 /\ <<j>>[1] = j
  BY <1>5
<1>7. /\ b \in Seq(S) /\ Len(b) = n
      /\ \A k \in 1..n : b[k][1] \in ScoringSteps /\ b[k][2] = i
  BY <1>1, <1>2, <1>3
<1>8. Scoring(i) = <<j>> \o b
  BY DEF Scoring, j
<1> HIDE DEF b
<1> DEFINE e == <<j>>
<1>9. e \in Seq(S) /\ \A k \in 1..Len(e) : e[k] = j
  BY <1>6
<1> HIDE DEF e
<1>10. /\ Scoring(i) \in Seq(S)
       /\ \A k \in 1..Len(Scoring(i)) :
             \/ k \in 1..Len(e) /\ Scoring(i)[k] = e[k]
             \/ /\ k - Len(e) \in 1..Len(b) /\ Scoring(i)[k] = b[k - Len(e)]
                /\ k > Len(e)
  BY <1>7, <1>8, <1>9, PlacesAppended DEF e
<1>11. \A k \in 1..Len(Scoring(i)) : Scoring(i)[k][1] \in ScoringSteps /\ Scoring(i)[k][2] = i
  BY <1>5, <1>7, <1>9, <1>10
<1> QED
  BY <1>10, <1>11 DEF S

LEMMA AllScoredListed ==
  ASSUME NEW arm
  PROVE  /\ AllScored \in Seq(JobsFor(arm))
         /\ \A k \in 1..Len(AllScored) : AllScored[k][1] \in ScoringSteps
<1> DEFINE parts == [i \in RoomNos |-> Scoring(i)]
           S == JobsFor(arm)
           n == Len(RoomSeq)
           J == Joined(<<>>, parts, n)
<1>1. n \in Nat /\ RoomNos = 1..n
  BY RoomsNumbered
<1>2. ASSUME NEW i \in 1..n
      PROVE  parts[i] \in Seq(S) /\ \A k \in 1..Len(parts[i]) : parts[i][k][1] \in ScoringSteps
  BY <1>1, ScoringListed
<1>3. AllScored = J
  BY DEF AllScored
<1> HIDE DEF parts, S, n
<1>4. <<>> \in Seq(S) /\ Len(<<>>) = 0
  OBVIOUS
<1>5. JoinOf(J, S, <<>>, parts, n)
  BY <1>1, <1>2, <1>4, JoinedElements
<1>6. /\ J \in Seq(S)
      /\ \A k \in 1..Len(J) : \E i \in 1..n : \E j \in 1..Len(parts[i]) : J[k] = parts[i][j]
  BY <1>4, <1>5 DEF JoinOf
<1> HIDE DEF J
<1>7. \A k \in 1..Len(J) : J[k][1] \in ScoringSteps
  BY <1>2, <1>6
<1> QED
  BY <1>3, <1>6, <1>7 DEF S

Arms == [name : ArmNames, shared : BOOLEAN]

\* One room, done alone.
LEMMA AloneRight ==
  ASSUME NEW arm \in Arms, ~Together(arm), NEW i \in RoomNos
  PROVE  /\ PlanRight(arm, Each(Alone(arm), <<i>>) \o Scoring(i))
         /\ \A k \in 1..Len(Each(Alone(arm), <<i>>) \o Scoring(i)) :
               (Each(Alone(arm), <<i>>) \o Scoring(i))[k][2] = i
<1> DEFINE r == <<i>>
           u == Scoring(i)
           w == <<"ingest", "curate", "open", "deliver", "share_new">>
<1>1. Len(r) = 1 /\ \A b \in 1..1 : r[b] = i
  OBVIOUS
<1>2. /\ Len(w) = 5 /\ w[1] = "ingest" /\ w[2] = "curate" /\ w[3] = "open" /\ w[4] = "deliver"
      /\ w[5] = "share_new" /\ \A a \in 1..5 : a \in {1, 2, 3, 4, 5}
  OBVIOUS
<1>3. PICK steps : steps = Alone(arm)
  OBVIOUS
<1> HIDE DEF r, w
<1>4. /\ Len(steps) \in {0, 2, 5} /\ StepsOf(arm) = {steps[a] : a \in 1..Len(steps)}
      /\ \A c \in 1..Len(steps) : steps[c] = "curate" =>
            \A a \in 1..Len(steps) : a < c => steps[a] \notin {"deliver", "share", "share_new"}
  <2>1. CASE arm.name = "full_context"
    <3>1. steps = <<>> /\ StepsOf(arm) = {}
      BY <1>3, <2>1 DEF Alone, StepsOf
    <3> QED
      BY <3>1
  <2>2. CASE arm.name = "raw"
    <3>1. steps = <<"ingest", "open">> /\ StepsOf(arm) = {"ingest", "open"}
      BY <1>3, <2>2 DEF Alone, StepsOf
    <3>2. Len(steps) = 2 /\ steps[1] = "ingest" /\ steps[2] = "open"
      BY <3>1
    <3>3. 1 \in 1..Len(steps) /\ 2 \in 1..Len(steps) /\ \A a \in 1..Len(steps) : a \in {1, 2}
      BY <3>2
    <3> QED
      BY <3>1, <3>2, <3>3
  <2>3. CASE arm.name \in {"oracle", "curated"}
    <3>1. ~arm.shared
      BY <2>3 DEF Together
    <3>2. steps = w /\ StepsOf(arm) = {"ingest", "curate", "open", "deliver", "share_new"}
      BY <1>3, <2>3, <3>1 DEF Alone, StepsOf, w
    <3>3. 1 \in 1..Len(w) /\ 2 \in 1..Len(w) /\ 3 \in 1..Len(w) /\ 4 \in 1..Len(w)
          /\ 5 \in 1..Len(w)
      BY <1>2
    <3>4. StepsOf(arm) = {steps[a] : a \in 1..Len(steps)}
      BY <1>2, <3>2, <3>3
    <3>5. \A c \in 1..Len(steps) : steps[c] = "curate" => c = 2
      BY <1>2, <3>2
    <3>6. \A a \in 1..Len(steps) : a < 2 => a = 1
      BY <1>2, <3>2
    <3>7. \A c \in 1..Len(steps) : steps[c] = "curate" =>
             \A a \in 1..Len(steps) : a < c => steps[a] \notin {"deliver", "share", "share_new"}
      BY <1>2, <3>2, <3>5, <3>6
    <3> QED
      BY <1>2, <3>2, <3>4, <3>7
  <2> QED
    BY <2>1, <2>2, <2>3 DEF Arms, ArmNames, Together
<1>5. StepsInOrder(arm, steps, r)
  BY <1>1, <1>4 DEF StepsInOrder
<1> DEFINE e == Each(steps, r)
           R == {r[b] : b \in 1..Len(r)}
<1>6. PlanRight(arm, e) /\ DoesJust(e, {steps[a] : a \in 1..Len(steps)}, R)
  BY <1>5, EachRight
<1>7. R = {i}
  BY <1>1
<1> HIDE DEF e, R
<1>8. PlanRight(arm, e) /\ DoesJust(e, StepsOf(arm), {i})
  BY <1>4, <1>6, <1>7
<1>9. u \in Seq(JobsFor(arm)) /\ \A k \in 1..Len(u) : u[k][1] \in ScoringSteps /\ u[k][2] = i
  BY ScoringListed
<1> HIDE DEF u
<1>10. {i} \in SUBSET RoomNos /\ \A o \in RoomNos : Related(arm, i, o) => o \in {i}
  BY DEF Related
<1>11. PlanRight(arm, e \o u)
  BY <1>8, <1>9, <1>10, RightThenScored
<1>12. \A k \in 1..Len(e) : e[k][2] = i
  BY <1>8 DEF DoesJust
<1>13. \A k \in 1..Len(e \o u) : (e \o u)[k][2] = i
  <2> DEFINE c == e \o u
  <2>1. e \in Seq(JobsFor(arm))
    BY <1>8 DEF PlanRight
  <2>2. \A k \in 1..Len(c) : \/ k \in 1..Len(e) /\ c[k] = e[k]
                             \/ /\ k - Len(e) \in 1..Len(u) /\ c[k] = u[k - Len(e)]
                                /\ k > Len(e)
    BY <1>9, <2>1, PlacesAppended
  <2> HIDE DEF c
  <2>3. \A k \in 1..Len(c) : c[k][2] = i
    BY <1>9, <1>12, <2>2
  <2> QED
    BY <2>3 DEF c
<1> QED
  BY <1>3, <1>11, <1>13 DEF e, u, r

\* The rooms of a project, and the projects of the rooms.
LEMMA ProjectsCover ==
  /\ \A project :
        /\ OfProject(project) \in Seq(RoomNos)
        /\ \A b, d \in 1..Len(OfProject(project)) :
              /\ RoomSeq[OfProject(project)[b]].project = project
              /\ OfProject(project)[b] = OfProject(project)[d] => b = d
  /\ Len(Projects) \in Nat /\ DOMAIN Projects = 1..Len(Projects)
  /\ \A p, q \in 1..Len(Projects) : Projects[p] = Projects[q] => p = q
  /\ \A i \in RoomNos : \E p \in 1..Len(Projects) :
        \E b \in 1..Len(OfProject(Projects[p])) : OfProject(Projects[p])[b] = i
<1>1. /\ Len(RoomSeq) \in Nat /\ RoomNos = 1..Len(RoomSeq)
      /\ Numbered \in Seq(RoomNos) /\ Len(Numbered) = Len(RoomSeq)
      /\ \A i \in RoomNos : Numbered[i] = i
  BY RoomsNumbered
<1> DEFINE F == {i \in RoomNos : \A k \in 1..(i - 1) : RoomSeq[k].project # RoomSeq[i].project}
           first == Kept(Numbered, F)
           c == Cardinality(F)
           P(project) == {i \in RoomNos : RoomSeq[i].project = project}
<1>2. IsKept(first, Numbered, F, RoomNos)
  <2>1. F \subseteq 1..Len(Numbered)
    BY <1>1
  <2> QED
    BY <1>1, <2>1, PlacesAreKept
<1>3. ASSUME NEW project PROVE IsKept(OfProject(project), Numbered, P(project), RoomNos)
  <2>1. P(project) \subseteq 1..Len(Numbered)
    BY <1>1
  <2>2. OfProject(project) = Kept(Numbered, P(project))
    BY DEF OfProject
  <2> HIDE DEF P
  <2>3. IsKept(Kept(Numbered, P(project)), Numbered, P(project), RoomNos)
    BY <1>1, <2>1, PlacesAreKept
  <2> QED
    BY <2>2, <2>3
<1>4. ASSUME NEW project, NEW i \in P(project)
      PROVE  \E b \in 1..Len(OfProject(project)) : OfProject(project)[b] = i
  <2>1. PICK b \in 1..Len(OfProject(project)) : i = Nth(P(project), b)
    BY <1>3 DEF IsKept
  <2>2. OfProject(project)[b] = Numbered[i]
    BY <1>3, <2>1 DEF IsKept
  <2> QED
    BY <1>1, <2>2
<1>5. /\ first \in Seq(RoomNos) /\ Len(first) \in Nat
      /\ \A i \in F : \E n \in 1..Len(first) : first[n] = i
  <2>1. /\ first \in Seq(RoomNos) /\ Len(first) \in Nat
        /\ \A n \in 1..Len(first) : first[n] = Numbered[Nth(F, n)]
        /\ \A i \in F : \E n \in 1..Len(first) : i = Nth(F, n)
    <3> HIDE DEF first, F
    <3> QED
      BY <1>2 DEF IsKept
  <2>2. \A i \in F : Numbered[i] = i
    BY <1>1
  <2> HIDE DEF first, F
  <2> QED
    BY <2>1, <2>2
<1> HIDE DEF first, F, P
<1>6. Projects = [i \in 1..Len(first) |-> RoomSeq[first[i]].project]
  <2>1. DOMAIN first = 1..Len(first)
    BY <1>5
  <2> QED
    BY <2>1 DEF Projects, first, F
<1>7. Len(Projects) = Len(first) /\ DOMAIN Projects = 1..Len(Projects)
  <2> DEFINE S == {RoomSeq[first[i]].project : i \in 1..Len(first)}
  <2>1. Projects \in [1..Len(first) -> S]
    BY <1>6
  <2> HIDE DEF S
  <2> QED
    BY <1>5, <2>1
<1>8. ASSUME NEW i \in RoomNos
      PROVE  \E p \in 1..Len(Projects) : Projects[p] = RoomSeq[i].project
  <2> DEFINE T == {k \in RoomNos : RoomSeq[k].project = RoomSeq[i].project}
  <2>1. PICK k \in T : \A l \in T : k <= l
    <3>1. T \subseteq Nat /\ T # {}
      BY <1>1
    <3> QED
      BY <3>1, LeastNumber
  <2>2. k \in F
    BY <1>1, <2>1 DEF F
  <2>3. PICK n \in 1..Len(first) : first[n] = k
    BY <1>5, <2>2
  <2> QED
    BY <1>6, <1>7, <2>1, <2>3
<1>9. ASSUME NEW i \in RoomNos
      PROVE  \E p \in 1..Len(Projects) :
                \E b \in 1..Len(OfProject(Projects[p])) : OfProject(Projects[p])[b] = i
  <2>1. PICK p \in 1..Len(Projects) : Projects[p] = RoomSeq[i].project
    BY <1>8
  <2>2. i \in P(Projects[p])
    BY <2>1 DEF P
  <2> QED
    BY <1>4, <2>2
<1>10. \A project : OfProject(project) \in Seq(RoomNos)
  BY <1>3 DEF IsKept
<1>11. ASSUME NEW project, NEW b \in 1..Len(OfProject(project)),
              NEW d \in 1..Len(OfProject(project))
       PROVE  /\ RoomSeq[OfProject(project)[b]].project = project
              /\ OfProject(project)[b] = OfProject(project)[d] => b = d
  <2> DEFINE K == P(project)
             s == OfProject(project)
  <2>1. IsKept(s, Numbered, K, RoomNos) /\ Len(s) \in Nat
    BY <1>3 DEF IsKept
  <2>2. K \subseteq RoomNos /\ \A k \in K : RoomSeq[k].project = project
    BY DEF P
  <2> HIDE DEF K, s
  <2>3. ASSUME NEW n \in 1..Len(s) PROVE s[n] = Nth(K, n) /\ Nth(K, n) \in K
    <3>1. s[n] = Numbered[Nth(K, n)] /\ Nth(K, n) \in K
      BY <2>1 DEF IsKept
    <3> QED
      BY <1>1, <2>2, <3>1
  <2>4. b \in 1..Len(s) /\ d \in 1..Len(s)
    BY DEF s
  <2>5. RoomSeq[s[b]].project = project
    BY <2>2, <2>3, <2>4
  <2>6. ASSUME s[b] = s[d] PROVE b = d
    <3>1. b < d => Nth(K, b) < Nth(K, d)
      BY <2>1, <2>4, Zenon DEF IsKept
    <3>2. d < b => Nth(K, d) < Nth(K, b)
      BY <2>1, <2>4, Zenon DEF IsKept
    <3>3. s[b] = Nth(K, b) /\ s[d] = Nth(K, d) /\ Nth(K, b) \in K
      BY <2>3, <2>4
    <3>4. Nth(K, b) \in Nat
      <4>1. K \subseteq Nat
        <5>1. K \subseteq RoomNos
          BY <2>2
        <5>2. RoomNos \subseteq Nat
          BY <1>1
        <5> QED
          BY <5>1, <5>2
      <4> QED
        BY <3>3, <4>1
    <3>5. Nth(K, b) = Nth(K, d)
      BY <2>6, <3>3
    <3> QED
      BY <2>1, <2>4, <3>1, <3>2, <3>4, <3>5
  <2> QED
    BY <2>5, <2>6 DEF s
<1>12. ASSUME NEW p \in 1..Len(Projects), NEW q \in 1..Len(Projects), Projects[p] = Projects[q]
       PROVE  p = q
  <2>1. \A n \in 1..Len(first) : first[n] = Nth(F, n) /\ Nth(F, n) \in F
    <3>1. \A n \in 1..Len(first) : first[n] = Numbered[Nth(F, n)] /\ Nth(F, n) \in F
      BY <1>2 DEF IsKept
    <3>2. F \subseteq RoomNos
      BY DEF F
    <3> QED
      BY <1>1, <3>1, <3>2
  <2>2. p \in 1..Len(first) /\ q \in 1..Len(first)
    BY <1>7
  <2> DEFINE x == first[p]
             y == first[q]
  <2>3. x \in F /\ y \in F /\ RoomSeq[x].project = RoomSeq[y].project
    BY <1>6, <1>12, <2>1, <2>2
  <2> HIDE DEF x, y
  <2>4. x = y
    <3>1. \A i \in F : i \in Nat \ {0} /\ \A k \in 1..(i - 1) : RoomSeq[k].project # RoomSeq[i].project
      BY <1>1 DEF F
    <3>2. ~(x < y) /\ ~(y < x)
      BY <2>3, <3>1
    <3> QED
      BY <2>3, <3>1, <3>2
  <2>5. p < q => Nth(F, p) < Nth(F, q)
    BY <1>2, <2>2, Zenon DEF IsKept
  <2>6. q < p => Nth(F, q) < Nth(F, p)
    BY <1>2, <2>2, Zenon DEF IsKept
  <2>7. Nth(F, p) = Nth(F, q) /\ Nth(F, p) \in Nat
    <3>1. F \subseteq Nat
      BY <1>1 DEF F
    <3> QED
      BY <2>1, <2>2, <2>4, <3>1 DEF x, y
  <2> QED
    BY <1>5, <2>2, <2>5, <2>6, <2>7
<1> QED
  BY <1>5, <1>7, <1>9, <1>10, <1>11, <1>12

\* Steps done with several rooms that share nothing in them.
InTurn(arm, steps) ==
    /\ Len(steps) \in {1, 2, 3}
    /\ \A a \in 1..Len(steps) : steps[a] \in StepsOf(arm)
    /\ \A c \in 1..Len(steps) : steps[c] = "curate" =>
          \A a \in 1..Len(steps) :
             /\ a < c => steps[a] \notin {"deliver", "share", "share_new"}
             /\ steps[a] \notin {"share", "share_new"}

RightAndJust(arm, s, steps, rooms) == PlanRight(arm, s) /\ DoesJust(s, steps, rooms)

LEMMA EachDoes ==
  ASSUME NEW arm, NEW steps, NEW numbers, StepsInOrder(arm, steps, numbers),
         NEW X, X = {steps[a] : a \in 1..Len(steps)},
         NEW R, R = {numbers[b] : b \in 1..Len(numbers)}
  PROVE  RightAndJust(arm, Each(steps, numbers), X, R)
<1> DEFINE Y == {steps[a] : a \in 1..Len(steps)}
           Q == {numbers[b] : b \in 1..Len(numbers)}
<1>1. PlanRight(arm, Each(steps, numbers)) /\ DoesJust(Each(steps, numbers), Y, Q)
  BY EachRight
<1>2. X = Y /\ R = Q
  OBVIOUS
<1> HIDE DEF Y, Q
<1> QED
  BY <1>1, <1>2 DEF RightAndJust

\* The rooms of a project, all before any is scored.
LEMMA BeforeScoringRight ==
  ASSUME NEW arm \in Arms, Together(arm), NEW numbers \in Seq(RoomNos),
         \A b, d \in 1..Len(numbers) : numbers[b] = numbers[d] => b = d
  PROVE  /\ PlanRight(arm, BeforeScoring(arm, numbers))
         /\ DoesJust(BeforeScoring(arm, numbers), StepsOf(arm),
                     {numbers[b] : b \in 1..Len(numbers)})
<1> DEFINE R == {numbers[b] : b \in 1..Len(numbers)}
<1>1. Len(numbers) \in Nat /\ \A b \in 1..Len(numbers) : numbers[b] \in RoomNos
  OBVIOUS
<1>R. R = {numbers[b] : b \in 1..Len(numbers)}
  OBVIOUS
<1> HIDE DEF R
<1>2. ASSUME NEW steps, InTurn(arm, steps), NEW X, X = {steps[a] : a \in 1..Len(steps)}
      PROVE  RightAndJust(arm, Each(steps, numbers), X, R)
  <2>1. StepsInOrder(arm, steps, numbers)
    BY <1>1, <1>2 DEF StepsInOrder, InTurn
  <2> QED
    BY <1>R, <1>2, <2>1, EachDoes
<1>3. ASSUME NEW x, x \in StepsOf(arm), x # "curate"
      PROVE  PlanRight(arm, Each(<<x>>, numbers)) /\ DoesJust(Each(<<x>>, numbers), {x}, R)
  <2> DEFINE s == <<x>>
  <2>1. Len(s) = 1 /\ \A a \in 1..1 : s[a] = x
    OBVIOUS
  <2> HIDE DEF s
  <2>2. {x} = {s[a] : a \in 1..Len(s)}
    BY <2>1
  <2>3. InTurn(arm, s)
    BY <1>3, <2>1 DEF InTurn
  <2>4. RightAndJust(arm, Each(s, numbers), {x}, R)
    BY <1>2, <2>2, <2>3
  <2> QED
    BY <2>4 DEF s, RightAndJust
<1>4. ASSUME NEW x, NEW y, x \in StepsOf(arm), y \in StepsOf(arm), x # "curate", y # "curate"
      PROVE  /\ PlanRight(arm, Each(<<x, y>>, numbers))
             /\ DoesJust(Each(<<x, y>>, numbers), {x, y}, R)
  <2> DEFINE s == <<x, y>>
  <2>1. /\ Len(s) = 2 /\ s[1] = x /\ s[2] = y /\ 1 \in 1..2 /\ 2 \in 1..2
        /\ \A a \in 1..2 : s[a] = x \/ s[a] = y
    OBVIOUS
  <2> HIDE DEF s
  <2>2. {x, y} = {s[a] : a \in 1..Len(s)}
    BY <2>1
  <2>3. InTurn(arm, s)
    BY <1>4, <2>1 DEF InTurn
  <2>4. RightAndJust(arm, Each(s, numbers), {x, y}, R)
    BY <1>2, <2>2, <2>3
  <2> QED
    BY <2>4 DEF s, RightAndJust
<1>5. CASE arm.name = "raw_project"
  <2>1. StepsOf(arm) = {"ingest", "share", "open", "share_new"}
    BY <1>5 DEF StepsOf
  <2> DEFINE e == Each(<<"ingest">>, numbers)
             f == Each(<<"share">>, numbers)
             g == Each(<<"open", "share_new">>, numbers)
  <2>2. BeforeScoring(arm, numbers) = (e \o f) \o g
    BY <1>5 DEF BeforeScoring
  <2>3. PlanRight(arm, e) /\ DoesJust(e, {"ingest"}, R)
    BY <1>3, <2>1
  <2>4. PlanRight(arm, f) /\ DoesJust(f, {"share"}, R)
    BY <1>3, <2>1
  <2>5. PlanRight(arm, g) /\ DoesJust(g, {"open", "share_new"}, R)
    BY <1>4, <2>1
  <2> HIDE DEF e, f, g
  <2>6. "curate" \notin {"share"} /\ "curate" \notin {"open", "share_new"}
    OBVIOUS
  <2>7. PlanRight(arm, e \o f) /\ DoesJust(e \o f, {"ingest"} \cup {"share"}, R)
    BY <2>3, <2>4, <2>6, RightAppended
  <2>8. /\ PlanRight(arm, (e \o f) \o g)
        /\ DoesJust((e \o f) \o g, ({"ingest"} \cup {"share"}) \cup {"open", "share_new"}, R)
    BY <2>5, <2>6, <2>7, RightAppended
  <2>9. ({"ingest"} \cup {"share"}) \cup {"open", "share_new"} = StepsOf(arm)
    BY <2>1
  <2> QED
    BY <2>2, <2>8, <2>9 DEF R
<1>6. CASE arm.name # "raw_project"
  <2>1. StepsOf(arm) = {"ingest", "curate", "open", "deliver", "share_new", "share"}
    BY <1>6 DEF StepsOf, Together
  <2> DEFINE w == <<"ingest", "curate", "deliver">>
             e == Each(w, numbers)
             f == Each(<<"open">>, numbers)
             g == Each(<<"share", "share_new">>, numbers)
  <2>2. BeforeScoring(arm, numbers) = (e \o f) \o g
    BY <1>6 DEF BeforeScoring
  <2>3. PlanRight(arm, e) /\ DoesJust(e, {"ingest", "curate", "deliver"}, R)
    <3>1. /\ Len(w) = 3 /\ w[1] = "ingest" /\ w[2] = "curate" /\ w[3] = "deliver"
          /\ 1 \in 1..3 /\ 2 \in 1..3 /\ 3 \in 1..3
          /\ \A a \in 1..3 : a = 1 \/ a = 2 \/ a = 3
      OBVIOUS
    <3> HIDE DEF w
    <3>2. {w[a] : a \in 1..Len(w)} = {"ingest", "curate", "deliver"}
      BY <3>1
    <3>3. \A c \in 1..3 : w[c] = "curate" => c = 2
      BY <3>1
    <3>4. \A a \in 1..3 : (a < 2 => a = 1) /\ w[a] \notin {"share", "share_new"}
      BY <3>1
    <3>5. \A a \in 1..3 : w[a] \in StepsOf(arm)
      BY <2>1, <3>1
    <3>6. \A c \in 1..Len(w) : w[c] = "curate" =>
             \A a \in 1..Len(w) : /\ a < c => w[a] \notin {"deliver", "share", "share_new"}
                                  /\ w[a] \notin {"share", "share_new"}
      BY <3>1, <3>3, <3>4
    <3>7. InTurn(arm, w)
      BY <3>1, <3>5, <3>6 DEF InTurn
    <3>8. RightAndJust(arm, e, {"ingest", "curate", "deliver"}, R)
      BY <1>2, <3>2, <3>7
    <3> HIDE DEF e
    <3> QED
      BY <3>8 DEF RightAndJust
  <2>4. PlanRight(arm, f) /\ DoesJust(f, {"open"}, R)
    BY <1>3, <2>1
  <2>5. PlanRight(arm, g) /\ DoesJust(g, {"share", "share_new"}, R)
    BY <1>4, <2>1
  <2> HIDE DEF e, f, g
  <2>6. "curate" \notin {"open"} /\ "curate" \notin {"share", "share_new"}
    OBVIOUS
  <2>7. /\ PlanRight(arm, e \o f)
        /\ DoesJust(e \o f, {"ingest", "curate", "deliver"} \cup {"open"}, R)
    BY <2>3, <2>4, <2>6, RightAppended
  <2>8. /\ PlanRight(arm, (e \o f) \o g)
        /\ DoesJust((e \o f) \o g,
                    ({"ingest", "curate", "deliver"} \cup {"open"}) \cup {"share", "share_new"}, R)
    BY <2>5, <2>6, <2>7, RightAppended
  <2>9. ({"ingest", "curate", "deliver"} \cup {"open"}) \cup {"share", "share_new"} = StepsOf(arm)
    BY <2>1
  <2> QED
    BY <2>2, <2>8, <2>9 DEF R
<1> QED
  BY <1>5, <1>6

\* In each arm no room is scored before all is done with it, and with those it
\* shares with, and nothing uses memories that are still to be curated.
LEMMA PlanOfRight ==
  ASSUME NEW arm \in Arms
  PROVE  PlanRight(arm, PlanOf(arm))
<1>1. CASE ~Together(arm)
  <2> DEFINE parts == [i \in RoomNos |-> Each(Alone(arm), <<i>>) \o Scoring(i)]
             n == Len(RoomSeq)
  <2>1. PlanOf(arm) = Joined(<<>>, parts, n)
    BY <1>1 DEF PlanOf, Together
  <2>2. n \in Nat /\ RoomNos = 1..n
    BY RoomsNumbered
  <2>3. \A i \in 1..n : PlanRight(arm, parts[i]) /\ \A k \in 1..Len(parts[i]) : parts[i][k][2] = i
    <3> SUFFICES ASSUME NEW i \in 1..n
                 PROVE  /\ PlanRight(arm, parts[i])
                        /\ \A k \in 1..Len(parts[i]) : parts[i][k][2] = i
      OBVIOUS
    <3> DEFINE s == Each(Alone(arm), <<i>>) \o Scoring(i)
    <3>1. i \in RoomNos /\ parts[i] = s
      BY <2>2
    <3>2. PlanRight(arm, s) /\ \A k \in 1..Len(s) : s[k][2] = i
      BY <1>1, <3>1, AloneRight
    <3> HIDE DEF s, parts
    <3> QED
      BY <3>1, <3>2
  <2> HIDE DEF parts, n
  <2>4. ASSUME NEW i \in 1..n, NEW h \in 1..n, i < h,
               NEW k \in 1..Len(parts[i]), NEW m \in 1..Len(parts[h])
        PROVE  ~TooEarly(arm, parts[i][k], parts[h][m])
    <3>1. parts[i][k][2] = i /\ parts[h][m][2] = h /\ i # h
      BY <2>2, <2>3, <2>4
    <3> QED
      BY <1>1, <3>1 DEF TooEarly, Related
  <2>5. PlanRight(arm, Joined(<<>>, parts, n))
    BY <2>2, <2>3, <2>4, RightJoined
  <2> QED
    BY <2>1, <2>5
<1>2. CASE Together(arm)
  <2> DEFINE parts == [i \in DOMAIN Projects |-> BeforeScoring(arm, OfProject(Projects[i]))]
             n == Len(Projects)
             J == Joined(<<>>, parts, n)
             R(i) == {OfProject(Projects[i])[b] : b \in 1..Len(OfProject(Projects[i]))}
  <2>1. PlanOf(arm) = J \o AllScored
    BY <1>2 DEF PlanOf, Together
  <2>2. /\ n \in Nat
        /\ \A i \in 1..n : parts[i] = BeforeScoring(arm, OfProject(Projects[i]))
        /\ \A i, h \in 1..n : Projects[i] = Projects[h] => i = h
        /\ \A i \in RoomNos : \E p \in 1..n : i \in R(p)
        /\ \A i \in 1..n : \A o \in R(i) : o \in RoomNos /\ RoomSeq[o].project = Projects[i]
    <3>1. /\ n \in Nat /\ DOMAIN Projects = 1..n
          /\ \A p, q \in 1..n : Projects[p] = Projects[q] => p = q
          /\ \A i \in RoomNos : \E p \in 1..n :
                \E b \in 1..Len(OfProject(Projects[p])) : OfProject(Projects[p])[b] = i
          /\ \A project :
                /\ OfProject(project) \in Seq(RoomNos)
                /\ \A b \in 1..Len(OfProject(project)) :
                      RoomSeq[OfProject(project)[b]].project = project
      BY ProjectsCover
    <3>2. \A i \in 1..n : parts[i] = BeforeScoring(arm, OfProject(Projects[i]))
      BY <3>1
    <3> HIDE DEF parts, n
    <3>3. ASSUME NEW i \in RoomNos PROVE \E p \in 1..n : i \in R(p)
      <4>1. PICK p \in 1..n : \E b \in 1..Len(OfProject(Projects[p])) : OfProject(Projects[p])[b] = i
        BY <3>1
      <4>2. i \in R(p)
        BY <4>1
      <4> HIDE DEF R
      <4> QED
        BY <4>2
    <3>4. ASSUME NEW i \in 1..n, NEW o \in R(i)
          PROVE  o \in RoomNos /\ RoomSeq[o].project = Projects[i]
      <4> DEFINE s == OfProject(Projects[i])
      <4>1. /\ s \in Seq(RoomNos)
            /\ \A b \in 1..Len(s) : RoomSeq[s[b]].project = Projects[i]
        BY <3>1
      <4>2. PICK b \in 1..Len(s) : o = s[b]
        OBVIOUS
      <4> HIDE DEF s
      <4> QED
        BY <4>1, <4>2
    <3> QED
      BY <3>1, <3>2, <3>3, <3>4
  <2> HIDE DEF parts, n
  <2>3. ASSUME NEW i \in 1..n
        PROVE  PlanRight(arm, parts[i]) /\ DoesJust(parts[i], StepsOf(arm), R(i))
    <3> DEFINE numbers == OfProject(Projects[i])
    <3>1. /\ numbers \in Seq(RoomNos)
          /\ \A b, d \in 1..Len(numbers) : numbers[b] = numbers[d] => b = d
      BY ProjectsCover
    <3> HIDE DEF numbers
    <3>2. /\ PlanRight(arm, BeforeScoring(arm, numbers))
          /\ DoesJust(BeforeScoring(arm, numbers), StepsOf(arm),
                      {numbers[b] : b \in 1..Len(numbers)})
      BY <1>2, <3>1, BeforeScoringRight
    <3>3. parts[i] = BeforeScoring(arm, numbers)
      BY <2>2 DEF numbers
    <3> QED
      BY <3>2, <3>3 DEF numbers
  <2> HIDE DEF R
  <2>4. ASSUME NEW i \in 1..n, NEW h \in 1..n, i < h,
               NEW k \in 1..Len(parts[i]), NEW m \in 1..Len(parts[h])
        PROVE  ~TooEarly(arm, parts[i][k], parts[h][m])
    <3> DEFINE x == parts[i][k][2]
               y == parts[h][m][2]
    <3>1. x \in R(i) /\ y \in R(h)
      BY <2>3 DEF DoesJust
    <3>2. RoomSeq[x].project # RoomSeq[y].project
      BY <2>2, <2>4, <3>1
    <3> QED
      BY <1>2, <3>2 DEF TooEarly, Related
  <2>5. PlanRight(arm, J)
    BY <2>2, <2>3, <2>4, RightJoined
  <2>6. DoesJust(J, StepsOf(arm), RoomNos)
    <3> DEFINE S == JobsFor(arm)
    <3>1. <<>> \in Seq(S) /\ Len(<<>>) = 0 /\ 0 + 1 = 1
      OBVIOUS
    <3>2. \A i \in 1..n : parts[i] \in Seq(S)
      BY <2>3 DEF PlanRight
    <3> HIDE DEF S
    <3>3. JoinOf(J, S, <<>>, parts, n)
      BY <2>2, <3>1, <3>2, JoinedElements
    <3> HIDE DEF J
    <3>4. /\ \A k \in 1..Len(J) : \E i \in 1..n : \E j \in 1..Len(parts[i]) : J[k] = parts[i][j]
          /\ \A i \in 1..n : \A j \in 1..Len(parts[i]) : \E k \in 1..Len(J) : J[k] = parts[i][j]
      BY <3>1, <3>3 DEF JoinOf
    <3>5. ASSUME NEW k \in 1..Len(J) PROVE J[k][1] \in StepsOf(arm) /\ J[k][2] \in RoomNos
      <4>1. PICK i \in 1..n : \E j \in 1..Len(parts[i]) : J[k] = parts[i][j]
        BY <3>4
      <4> QED
        BY <2>2, <2>3, <4>1 DEF DoesJust
    <3>6. ASSUME NEW step \in StepsOf(arm), NEW o \in RoomNos
          PROVE  \E k \in 1..Len(J) : J[k] = <<step, o>>
      <4>1. PICK i \in 1..n : o \in R(i)
        BY <2>2
      <4>2. PICK j \in 1..Len(parts[i]) : parts[i][j] = <<step, o>>
        BY <2>3, <4>1 DEF DoesJust
      <4>3. \E k \in 1..Len(J) : J[k] = parts[i][j]
        BY <3>4
      <4> QED
        BY <4>2, <4>3
    <3> QED
      BY <3>5, <3>6, Zenon DEF DoesJust
  <2> HIDE DEF J
  <2>7. PlanRight(arm, J \o AllScored)
    <3>1. RoomNos \in SUBSET RoomNos
      OBVIOUS
    <3> QED
      BY <2>5, <2>6, <3>1, AllScoredListed, RightThenScored
  <2> QED
    BY <2>1, <2>7
<1> QED
  BY <1>1, <1>2

-------------------------------------------------------------------------------
(***************************************************************************)
(* RoomDelivery: the inductive invariant.                                   *)
(***************************************************************************)

\* The jobs that are done: what the plan has before those that are left.
DoneJobs == Len(PlanOf(room_arm)) - Len(jobs)
PastJobs == {PlanOf(room_arm)[k] : k \in 1..DoneJobs}

OnPlan ==
    /\ jobs \in Seq(JobsFor(room_arm)) /\ DoneJobs \in Nat
    /\ \A k \in 1..Len(jobs) : jobs[k] = PlanOf(room_arm)[DoneJobs + k]

ViewsListed(memories) ==
    /\ MemoriesListed(memories)
    /\ \A v \in memories : v.status \in {"active", "superseded"}

\* Where the memories of a room are from, once there are any.
ViewsFrom(i, memories) ==
    /\ Curating
    /\ IF room_arm.name = "oracle"
         THEN memories = OracleViews(RoomSeq[i])
         ELSE \E output \in Outputs[RoomSeq[i].id] : memories \subseteq output

ViewsInv ==
    /\ DOMAIN views = {RoomSeq[i].id : i \in RoomNos}
    /\ \A i \in RoomNos :
          /\ ViewsListed(views[RoomSeq[i].id])
          /\ views[RoomSeq[i].id] = {} \/ ViewsFrom(i, views[RoomSeq[i].id])
          /\ room_arm.name = "oracle" /\ <<"curate", i>> \in PastJobs /\ room_outcome = "running"
                => views[RoomSeq[i].id] = OracleViews(RoomSeq[i])

ScoresInv ==
    /\ write_sides \in Seq([ScoreKeys -> Nat])
    /\ \A i \in 1..Len(write_sides) :
          /\ ScoreSound(write_sides[i])
          /\ room_arm.name = "oracle" => ScoreExact(write_sides[i])

\* What the steps done so far have attached to a room's session.
GivenOwn(past, i) ==
    (IF <<"ingest", i>> \in past THEN ActivityDocs(RoomSeq[i]) ELSE {})
        \cup (IF <<"deliver", i>> \in past
                THEN OwnDocs(RoomSeq[i], Active(views[RoomSeq[i].id])) ELSE {})
        \cup (IF <<"share", i>> \in past
                THEN ToShare(RoomSeq[i])
                       \ (ActivityDocs(RoomSeq[i]) \cup OwnDocs(RoomSeq[i], views[RoomSeq[i].id]))
                ELSE {})

\* And to the session of its new room.
GivenNew(past, i) ==
    IF <<"share_new", i>> \in past /\ HasNewRoomProbes(RoomSeq[i])
      THEN ToShare(RoomSeq[i]) ELSE {}

Given(past, i, new) == IF new THEN GivenNew(past, i) ELSE GivenOwn(past, i)

SessionsInv ==
    /\ \A s \in opened : \E i \in RoomNos :
          \/ s = SessionOf(RoomSeq[i], FALSE)
          \/ s = SessionOf(RoomSeq[i], TRUE) /\ HasNewRoomProbes(RoomSeq[i])
    /\ room_arm.name = "full_context" => opened = {}
    /\ room_outcome = "running" =>
          \A i \in RoomNos : \A new \in BOOLEAN : \A d :
             <<SessionOf(RoomSeq[i], new), d>> \in attached <=> d \in Given(PastJobs, i, new)

RoomsInv ==
    /\ room_arm \in Arms \cup {NoRow}
    /\ room_arm = NoRow =>
          /\ jobs = <<>> /\ opened = {} /\ attached = {} /\ write_sides = <<>>
          /\ room_row = NoRow /\ room_outcome = "none"
          /\ views = [id \in {RoomSeq[i].id : i \in RoomNos} |-> {}]
    /\ room_arm # NoRow => OnPlan /\ ViewsInv /\ ScoresInv /\ SessionsInv

\* What is said of the last probe's row.
RowRight ==
    /\ room_row.correct <=> (room_row.hit \/ room_row.source_hit)
    /\ RawLike => room_row.hit = room_row.source_hit
    /\ room_row.new /\ Curating => ~room_row.source_hit /\ ~room_row.stale
    /\ room_row.hit /\ Curating =>
          \E v \in Active(views[room_row.room]) :
              <<v.room, v.id>> \in room_row.wanted /\ (room_row.new => CrossScope(v))
    /\ room_arm.name = "full_context" => room_row.source_hit /\ ~room_row.stale

\* The last probe's row, whose room is curated no more.
RowInv ==
    room_row # NoRow =>
       /\ room_arm # NoRow
       /\ \E x \in PastJobs : x[1] = "probe" /\ RoomSeq[x[2]].id = room_row.room
       /\ RowRight

\* What the curations of the rooms of a project bring has another id in each.
IdsApart ==
    \A i, o \in RoomNos :
       i # o /\ RoomSeq[i].project = RoomSeq[o].project =>
          \A a \in Outputs[RoomSeq[i].id] : \A b \in Outputs[RoomSeq[o].id] :
             \A v \in a : \A w \in b : v.id # w.id

\* The next job is one of the arm's, not done too early, and where it scores a
\* room all is done with it.
NextJobRight(step, j) ==
    /\ j \in JobsFor(room_arm) /\ j[1] = step /\ j[2] \in RoomNos
    /\ step # "probe" => j = <<step, j[2]>>
    /\ step = "probe" => j[3] \in DOMAIN RoomSeq[j[2]].probes
    /\ step \in StepsOf(room_arm) \cup ScoringSteps
    /\ \A x \in PastJobs : ~TooEarly(room_arm, x, j)
    /\ step \in ScoringSteps =>
          \A before \in StepsOf(room_arm) : \A o \in RoomNos :
             Related(room_arm, j[2], o) => <<before, o>> \in PastJobs

LEMMA NextJob ==
  ASSUME room_arm \in Arms, OnPlan, NEW step, Doing(step)
  PROVE  /\ jobs # <<>> /\ room_outcome = "running"
         /\ NextJobRight(step, Head(jobs)) /\ Now = RoomSeq[Head(jobs)[2]]
<1> DEFINE P == PlanOf(room_arm)
           d == DoneJobs
           S == JobsFor(room_arm)
           j == Head(jobs)
<1>1. P \in Seq(S) /\ ReadyFirst(room_arm, P) /\ InOrder(room_arm, P)
  BY PlanOfRight DEF PlanRight
<1>2. jobs # <<>> /\ j[1] = step /\ room_outcome = "running"
  BY DEF Doing
<1>3. /\ jobs \in Seq(S) /\ d \in Nat /\ d = Len(P) - Len(jobs)
      /\ \A k \in 1..Len(jobs) : jobs[k] = P[d + k]
      /\ PastJobs = {P[k] : k \in 1..d}
  BY DEF OnPlan, DoneJobs, PastJobs
<1> HIDE DEF S, P, d
<1>4. Len(jobs) \in Nat \ {0} /\ j = jobs[1] /\ Len(P) \in Nat
  BY <1>1, <1>2, <1>3
<1>5. d + 1 \in 1..Len(P) /\ j = P[d + 1] /\ 1..d \subseteq 1..Len(P)
  BY <1>3, <1>4
<1> HIDE DEF j
<1>6. j \in S
  BY <1>1, <1>5
<1>7. j \in JobSet /\ j[1] \in StepsOf(room_arm) \cup ScoringSteps
  BY <1>6 DEF S, JobsFor
<1>8. ASSUME NEW x \in PastJobs PROVE ~TooEarly(room_arm, x, j)
  <2>1. PICK k \in 1..d : x = P[k]
    BY <1>3
  <2>2. k \in 1..Len(P) /\ k < d + 1
    BY <1>3, <1>5, <2>1
  <2>3. ~TooEarly(room_arm, P[k], P[d + 1])
    BY <1>1, <1>5, <2>2 DEF InOrder
  <2> QED
    BY <1>5, <2>1, <2>3
<1>9. ASSUME step \in ScoringSteps, NEW before \in StepsOf(room_arm), NEW o \in RoomNos,
             Related(room_arm, j[2], o)
      PROVE  <<before, o>> \in PastJobs
  <2>1. P[d + 1][1] \in ScoringSteps /\ Related(room_arm, P[d + 1][2], o)
    BY <1>2, <1>5, <1>9
  <2>2. PICK m \in 1..((d + 1) - 1) : P[m] = <<before, o>>
    BY <1>1, <1>5, <1>9, <2>1 DEF ReadyFirst
  <2>3. m \in 1..d
    BY <1>3, <2>2
  <2> QED
    BY <1>3, <2>2, <2>3
<1>10. /\ j[2] \in RoomNos /\ (step # "probe" => j = <<step, j[2]>>)
       /\ step = "probe" => j[3] \in DOMAIN RoomSeq[j[2]].probes
  BY <1>2, <1>7, JobParts
<1>11. NextJobRight(step, j)
  BY <1>2, <1>6, <1>7, <1>8, <1>9, <1>10, Zenon DEF NextJobRight, S
<1> QED
  BY <1>2, <1>11 DEF j, Now

\* And then it is done.
LEMMA JobDone ==
  ASSUME room_arm \in Arms, OnPlan, NEW step, Doing(step), Done, room_arm' = room_arm
  PROVE  OnPlan' /\ PastJobs' = PastJobs \cup {Head(jobs)}
<1> DEFINE P == PlanOf(room_arm)
           d == DoneJobs
           S == JobsFor(room_arm)
           j == Head(jobs)
<1>1. P \in Seq(S)
  BY PlanOfRight DEF PlanRight
<1>2. /\ jobs \in Seq(S) /\ d \in Nat /\ d = Len(P) - Len(jobs) /\ jobs # <<>>
      /\ \A k \in 1..Len(jobs) : jobs[k] = P[d + k]
      /\ PastJobs = {P[k] : k \in 1..d}
  BY DEF OnPlan, DoneJobs, PastJobs, Doing
<1>3. /\ DoneJobs' = Len(P) - Len(jobs') /\ PastJobs' = {P[k] : k \in 1..DoneJobs'}
      /\ jobs' = Tail(jobs)
      /\ OnPlan' <=> /\ jobs' \in Seq(S) /\ DoneJobs' \in Nat
                     /\ \A k \in 1..Len(jobs') : jobs'[k] = P[DoneJobs' + k]
  BY DEF DoneJobs, PastJobs, OnPlan, Done
<1> HIDE DEF S, P, d
<1>4. /\ Len(jobs) \in Nat \ {0} /\ j = jobs[1] /\ Len(P) \in Nat
      /\ jobs' \in Seq(S) /\ Len(jobs') = Len(jobs) - 1
      /\ \A k \in 1..Len(jobs') : jobs'[k] = jobs[k + 1]
  BY <1>1, <1>2, <1>3
<1>5. DoneJobs' = d + 1 /\ j = P[d + 1]
  BY <1>2, <1>3, <1>4
<1>6. ASSUME NEW k \in 1..Len(jobs') PROVE jobs'[k] = P[DoneJobs' + k]
  <2>1. k + 1 \in 1..Len(jobs) /\ d + (k + 1) = DoneJobs' + k
    BY <1>2, <1>4, <1>5
  <2>2. jobs[k + 1] = P[d + (k + 1)]
    BY <1>2, <2>1
  <2> QED
    BY <1>4, <2>1, <2>2
<1>7. OnPlan'
  BY <1>2, <1>3, <1>4, <1>5, <1>6
<1>8. \A k : k \in 1..(d + 1) <=> k \in 1..d \/ k = d + 1
  BY <1>2
<1>9. PastJobs' = PastJobs \cup {P[d + 1]}
  BY <1>2, <1>3, <1>5, <1>8
<1> QED
  BY <1>5, <1>7, <1>9

LEMMA PlanStarted ==
  ASSUME NEW arm \in Arms, StartRooms(arm)
  PROVE  OnPlan' /\ PastJobs' = {}
<1> DEFINE P == PlanOf(arm)
<1>1. P \in Seq(JobsFor(arm))
  BY PlanOfRight DEF PlanRight
<1>2. room_arm' = arm /\ jobs' = P
  BY DEF StartRooms
<1>3. DoneJobs' = Len(P) - Len(P) /\ PastJobs' = {P[k] : k \in 1..DoneJobs'}
  BY <1>2 DEF DoneJobs, PastJobs
<1>4. OnPlan' <=> /\ P \in Seq(JobsFor(arm)) /\ DoneJobs' \in Nat
                  /\ \A k \in 1..Len(P) : P[k] = P[DoneJobs' + k]
  BY <1>2 DEF OnPlan
<1> HIDE DEF P
<1>5. DoneJobs' = 0
  BY <1>1, <1>3
<1> QED
  BY <1>1, <1>3, <1>4, <1>5

\* What depends on the arm alone stays with it.
LEMMA ArmStays ==
  ASSUME room_arm' = room_arm
  PROVE  /\ Curating' <=> Curating
         /\ Pooled' <=> Pooled
         /\ \A r : \A new : SessionOf(r, new)' = SessionOf(r, new)
         /\ \A r : ActivityDocs(r)' = ActivityDocs(r)
         /\ \A r, v : MemoryDoc(r, v)' = MemoryDoc(r, v)
         /\ \A r : \A memories : OwnDocs(r, memories)' = OwnDocs(r, memories)
         /\ \A r : OracleViews(r)' = OracleViews(r)
         /\ \A i : \A memories : ViewsFrom(i, memories)' <=> ViewsFrom(i, memories)
<1>1. (Curating' <=> Curating) /\ (Pooled' <=> Pooled)
  BY DEF Curating, Pooled
<1>2. \A r : ServiceOf(r)' = ServiceOf(r)
  BY <1>1 DEF ServiceOf
<1>3. \A r : \A new : SessionOf(r, new)' = SessionOf(r, new)
  BY <1>2 DEF SessionOf
<1>4. \A r, message : ActivityDoc(r, message)' = ActivityDoc(r, message)
  BY <1>1, <1>2 DEF ActivityDoc
<1>5. \A r : ActivityDocs(r)' = ActivityDocs(r)
  BY <1>4 DEF ActivityDocs
<1>6. \A r, v : MemoryDoc(r, v)' = MemoryDoc(r, v)
  BY <1>2 DEF MemoryDoc
<1>7. \A r : \A memories : OwnDocs(r, memories)' = OwnDocs(r, memories)
  BY <1>6 DEF OwnDocs
<1>8. \A r : OracleViews(r)' = OracleViews(r)
  BY <1>1 DEF OracleViews
<1>9. \A i : \A memories : ViewsFrom(i, memories)' <=> ViewsFrom(i, memories)
  BY <1>1, <1>8 DEF ViewsFrom
<1> QED
  BY <1>1, <1>3, <1>5, <1>6, <1>7, <1>8, <1>9

\* The arms that share a service over the rooms of a project.
LEMMA PooledTogether ==
  ASSUME room_arm \in Arms
  PROVE  Pooled <=> Together(room_arm)
<1>1. room_arm.name \in {"raw", "raw_project", "oracle", "curated", "full_context"}
  BY DEF Arms, ArmNames
<1> QED
  BY <1>1 DEF Pooled, Curating, Together

\* The rooms that share with a room.
SharesWith(r) == IF Pooled THEN RoomsOf(r.project) ELSE {r}

LEMMA RoomsSharing ==
  ASSUME room_arm \in Arms, NEW i \in RoomNos
  PROVE  SharesWith(RoomSeq[i]) = {RoomSeq[o] : o \in {k \in RoomNos : Related(room_arm, i, k)}}
<1>1. CASE Pooled
  <2>1. \A o \in RoomNos : Related(room_arm, i, o) <=> RoomSeq[o].project = RoomSeq[i].project
    BY <1>1, PooledTogether DEF Related
  <2> QED
    BY <1>1, <2>1 DEF SharesWith, RoomsOf
<1>2. CASE ~Pooled
  <2>1. \A o \in RoomNos : Related(room_arm, i, o) <=> o = i
    BY <1>2, PooledTogether DEF Related
  <2> QED
    BY <1>2, <2>1 DEF SharesWith
<1> QED
  BY <1>1, <1>2

\* What a room shares stays unless a room that shares with it is curated.
LEMMA ShareStays ==
  ASSUME room_arm \in Arms, room_arm' = room_arm, NEW i \in RoomNos,
         \A o \in RoomNos : Related(room_arm, i, o) =>
             views'[RoomSeq[o].id] = views[RoomSeq[o].id]
  PROVE  ToShare(RoomSeq[i])' = ToShare(RoomSeq[i])
<1> DEFINE r == RoomSeq[i]
           D == SharesWith(r)
           Of(m) == {v \in Active(m) : CrossScope(v)}
<1>1. SharedDocs(r) = UNION {OwnDocs(o, Of(views[o.id])) : o \in D}
  BY DEF SharedDocs, SharesWith
<1>2. SharedDocs(r)' = UNION {OwnDocs(o, Of(views'[o.id])) : o \in D}
  <2>1. SharedDocs(r)' = UNION {OwnDocs(o, Of(views[o.id]))' : o \in D}
    BY ArmStays DEF SharedDocs, SharesWith
  <2>2. \A o : OwnDocs(o, Of(views[o.id]))' = OwnDocs(o, Of(views'[o.id]))
    BY ArmStays
  <2> QED
    BY <2>1, <2>2, ZenonT(60)
<1>3. \A o \in D : views'[o.id] = views[o.id]
  BY RoomsSharing
<1>4. SharedDocs(r)' = SharedDocs(r)
  <2> HIDE DEF D, Of, r
  <2> QED
    BY <1>1, <1>2, <1>3
<1>5. ProjectDocs(r)' = ProjectDocs(r)
  BY ArmStays DEF ProjectDocs
<1> QED
  BY <1>4, <1>5 DEF ToShare

\* So does what is given, unless its own room is curated either.
LEMMA GivenStays ==
  ASSUME room_arm \in Arms, room_arm' = room_arm, NEW past, NEW i \in RoomNos,
         <<"deliver", i>> \in past \/ <<"share", i>> \in past =>
             views'[RoomSeq[i].id] = views[RoomSeq[i].id],
         <<"share", i>> \in past \/ <<"share_new", i>> \in past =>
             ToShare(RoomSeq[i])' = ToShare(RoomSeq[i])
  PROVE  \A new \in BOOLEAN : Given(past, i, new)' = Given(past, i, new)
<1> DEFINE r == RoomSeq[i]
<1>1. ActivityDocs(r)' = ActivityDocs(r)
  BY ArmStays
<1>2. \A m : OwnDocs(r, m)' = OwnDocs(r, m)
  BY ArmStays
<1>3. /\ OwnDocs(r, Active(views[r.id]))' = OwnDocs(r, Active(views'[r.id]))
      /\ OwnDocs(r, views[r.id])' = OwnDocs(r, views'[r.id])
  BY <1>2
<1>4. GivenOwn(past, i)' = GivenOwn(past, i)
  BY <1>1, <1>3 DEF GivenOwn
<1>5. GivenNew(past, i)' = GivenNew(past, i)
  BY DEF GivenNew
<1> QED
  BY <1>4, <1>5 DEF Given

\* A run that does something has an arm.
LEMMA RunHasArm ==
  ASSUME RoomsInv, room_outcome # "none"
  PROVE  room_arm \in Arms /\ room_arm # NoRow /\ OnPlan /\ ViewsInv /\ ScoresInv /\ SessionsInv
BY DEF RoomsInv

\* Of a room, what its file and its curation satisfy.
LEMMA RoomsAreValid ==
  ASSUME NEW i \in RoomNos
  PROVE  /\ GoldsValid(RoomSeq[i]) /\ MemoriesListed(RoomSeq[i].golds)
         /\ ProbesValid(RoomSeq[i])
         /\ IsFiniteSet(RoomSeq[i].noise)
         /\ \A output \in Outputs[RoomSeq[i].id] : OutputValid(output)
         /\ \A k \in RoomNos : RoomSeq[k].id = RoomSeq[i].id => k = i
<1>1. /\ GoldsValid(RoomSeq[i]) /\ ProbesValid(RoomSeq[i])
      /\ \A output \in Outputs[RoomSeq[i].id] : OutputValid(output)
      /\ \A k \in RoomNos : RoomSeq[k].id = RoomSeq[i].id => k = i
  BY RoomDeliveryAssumption
<1>2. MemoriesListed(RoomSeq[i].golds) /\ IsFiniteSet(RoomSeq[i].noise)
  BY <1>1, OracleScored
<1> QED
  BY <1>1, <1>2

\* Another room and another kind of session is another session.
LEMMA SessionsDiffer ==
  ASSUME NEW i \in RoomNos, NEW k \in RoomNos, NEW a \in BOOLEAN, NEW b \in BOOLEAN,
         SessionOf(RoomSeq[i], a) = SessionOf(RoomSeq[k], b)
  PROVE  i = k /\ a = b
<1>1. RoomSeq[i].id = RoomSeq[k].id /\ a = b
  BY DEF SessionOf
<1> QED
  BY <1>1, RoomsAreValid

GivingSteps == {"ingest", "deliver", "share", "share_new"}

\* A job gives nothing to the sessions of another room, or if it is of another kind.
LEMMA OthersGiven ==
  ASSUME NEW past, NEW j, NEW k, j[1] \notin GivingSteps \/ j[2] # k
  PROVE  \A new : Given(past \cup {j}, k, new) = Given(past, k, new)
<1>1. \A step \in GivingSteps : <<step, k>> \in past \cup {j} <=> <<step, k>> \in past
  <2> SUFFICES ASSUME NEW step \in GivingSteps, <<step, k>> = j PROVE FALSE
    OBVIOUS
  <2>1. j[1] = step /\ j[2] = k
    OBVIOUS
  <2> QED
    BY <2>1
<1>2. GivenOwn(past \cup {j}, k) = GivenOwn(past, k)
  BY <1>1 DEF GivenOwn, GivingSteps
<1>3. GivenNew(past \cup {j}, k) = GivenNew(past, k)
  BY <1>1 DEF GivenNew, GivingSteps
<1> QED
  BY <1>2, <1>3 DEF Given

\* A step that does not curate leaves the memories alone.
LEMMA ViewsKept ==
  ASSUME RoomsInv, NEW step, step # "curate", Doing(step), Done, room_arm' = room_arm,
         views' = views, room_outcome' \in {room_outcome, "raised"}
  PROVE  ViewsInv'
<1>1. room_outcome = "running" /\ room_arm \in Arms /\ OnPlan /\ ViewsInv
  BY RunHasArm DEF Doing
<1>2. PastJobs' = PastJobs \cup {Head(jobs)} /\ Head(jobs)[1] = step
  BY <1>1, JobDone DEF Doing
<1>3. \A i : <<"curate", i>> \in PastJobs' <=> <<"curate", i>> \in PastJobs
  BY <1>2
<1>4. /\ \A i : OracleViews(RoomSeq[i])' = OracleViews(RoomSeq[i])
      /\ \A i : \A memories : ViewsFrom(i, memories)' <=> ViewsFrom(i, memories)
  BY ArmStays
<1>5. ASSUME NEW i \in RoomNos
      PROVE  /\ ViewsListed(views[RoomSeq[i].id])'
             /\ views'[RoomSeq[i].id] = {} \/ ViewsFrom(i, views[RoomSeq[i].id])'
             /\ room_arm'.name = "oracle" /\ <<"curate", i>> \in PastJobs' /\ room_outcome' = "running"
                   => views'[RoomSeq[i].id] = OracleViews(RoomSeq[i])'
  <2>1. ViewsListed(views[RoomSeq[i].id])' <=> ViewsListed(views[RoomSeq[i].id])
    BY DEF ViewsListed
  <2>2. ViewsFrom(i, views[RoomSeq[i].id])' <=> ViewsFrom(i, views[RoomSeq[i].id])
    BY <1>4 DEF ViewsFrom
  <2> QED
    BY <1>1, <1>3, <1>4, <2>1, <2>2 DEF ViewsInv
<1> QED
  BY <1>1, <1>5 DEF ViewsInv

\* A step that opens sessions and gives D to one of them.
LEMMA SessionsKept ==
  ASSUME RoomsInv, NEW step, step # "curate", Doing(step), Done, room_arm' = room_arm,
         views' = views, room_outcome' \in {room_outcome, "raised"},
         NEW which \in BOOLEAN, NEW D,
         \A s \in opened' : \/ s \in opened \/ s = SessionOf(Now, FALSE)
                            \/ s = SessionOf(Now, TRUE) /\ HasNewRoomProbes(Now),
         step \in {"ingest", "open"} \/ opened' = opened,
         room_outcome' = "running" => attached' = attached \cup ({SessionOf(Now, which)} \X D),
         \A new \in BOOLEAN : \A d :
            d \in Given(PastJobs \cup {Head(jobs)}, Head(jobs)[2], new) <=>
               \/ d \in Given(PastJobs, Head(jobs)[2], new)
               \/ new = which /\ d \in D
  PROVE  SessionsInv'
<1> DEFINE j == Head(jobs)
           i == j[2]
<1>1. room_outcome = "running" /\ room_arm \in Arms /\ OnPlan /\ SessionsInv
  BY RunHasArm DEF Doing
<1>2. PastJobs' = PastJobs \cup {j} /\ NextJobRight(step, j) /\ Now = RoomSeq[i]
  BY <1>1, JobDone, NextJob
<1>3. i \in RoomNos
  BY <1>2 DEF NextJobRight
<1> HIDE DEF j, i
<1>4. \A k \in RoomNos : \A new \in BOOLEAN : SessionOf(RoomSeq[k], new)' = SessionOf(RoomSeq[k], new)
  BY ArmStays
<1>5. ASSUME NEW s \in opened'
      PROVE  \E k \in RoomNos : \/ s = SessionOf(RoomSeq[k], FALSE)'
                                \/ s = SessionOf(RoomSeq[k], TRUE)' /\ HasNewRoomProbes(RoomSeq[k])
  <2>1. CASE s \in opened
    BY <1>1, <1>4, <2>1, ZenonT(60) DEF SessionsInv
  <2>2. CASE s \notin opened
    BY <1>2, <1>3, <1>4, <2>2
  <2> QED
    BY <2>1, <2>2
<1>6. ASSUME room_arm'.name = "full_context" PROVE opened' = {}
  <2>1. step \in ScoringSteps
    BY <1>2, <1>6 DEF NextJobRight, StepsOf
  <2>2. opened' = opened
    BY <2>1 DEF ScoringSteps
  <2> QED
    BY <1>1, <1>6, <2>2 DEF SessionsInv
<1>7. ASSUME room_outcome' = "running", NEW k \in RoomNos, NEW new \in BOOLEAN, NEW d
      PROVE  <<SessionOf(RoomSeq[k], new), d>>' \in attached' <=> d \in Given(PastJobs, k, new)'
  <2>1. PICK past : past = PastJobs \cup {j}
    OBVIOUS
  <2>2. Given(past, k, new)' = Given(past, k, new)
    <3>1. ToShare(RoomSeq[k])' = ToShare(RoomSeq[k])
      BY <1>1, ShareStays
    <3> QED
      BY <1>1, <3>1, GivenStays
  <2>3. Given(PastJobs, k, new)' = Given(past, k, new)
    <3>1. past = PastJobs'
      BY <1>2, <2>1
    <3>2. Given(PastJobs, k, new)' = Given(past, k, new)'
      BY <3>1 DEF Given, GivenOwn, GivenNew
    <3> QED
      BY <2>2, <3>2
  <2>4. <<SessionOf(RoomSeq[k], new), d>> \in attached <=> d \in Given(PastJobs, k, new)
    BY <1>1 DEF SessionsInv
  <2>5. attached' = attached \cup ({SessionOf(RoomSeq[i], which)} \X D)
    BY <1>2, <1>7
  <2>6. <<SessionOf(RoomSeq[k], new), d>>' = <<SessionOf(RoomSeq[k], new), d>>
    BY <1>4
  <2>7. CASE k = i
    <3>1. d \in Given(past, k, new) <=> d \in Given(PastJobs, k, new) \/ (new = which /\ d \in D)
      BY <2>1, <2>7 DEF i, j
    <3>2. SessionOf(RoomSeq[k], new) = SessionOf(RoomSeq[i], which) <=> new = which
      BY <1>3, <2>7, SessionsDiffer
    <3> QED
      BY <2>3, <2>4, <2>5, <2>6, <3>1, <3>2
  <2>8. CASE k # i
    <3>1. Given(past, k, new) = Given(PastJobs, k, new)
      BY <2>1, <2>8, OthersGiven DEF i
    <3>2. SessionOf(RoomSeq[k], new) # SessionOf(RoomSeq[i], which)
      BY <1>3, <2>8, SessionsDiffer
    <3> QED
      BY <2>3, <2>4, <2>5, <2>6, <3>1, <3>2
  <2> QED
    BY <2>7, <2>8
<1> QED
  BY <1>5, <1>6, <1>7 DEF SessionsInv

\* The arms' steps, without those that curate or score.
LEMMA JobKeeps ==
  ASSUME RoomsInv, NEW step, step # "curate", Doing(step), Done, room_arm' = room_arm,
         views' = views, room_outcome' \in {room_outcome, "raised"}, ScoresInv', SessionsInv'
  PROVE  RoomsInv'
<1>1. room_arm \in Arms /\ OnPlan /\ room_arm # NoRow
  BY RunHasArm DEF Doing
<1>2. OnPlan' /\ ViewsInv'
  BY <1>1, JobDone, ViewsKept
<1> QED
  BY <1>1, <1>2 DEF RoomsInv

\* What each step gives to the sessions of its room.
GivenBy(step, i, new) ==
    CASE step = "ingest" -> IF new THEN {} ELSE ActivityDocs(RoomSeq[i])
      [] step = "deliver" ->
            IF new THEN {} ELSE OwnDocs(RoomSeq[i], Active(views[RoomSeq[i].id]))
      [] step = "share" ->
            IF new THEN {}
              ELSE ToShare(RoomSeq[i])
                     \ (ActivityDocs(RoomSeq[i]) \cup OwnDocs(RoomSeq[i], views[RoomSeq[i].id]))
      [] step = "share_new" ->
            IF new /\ HasNewRoomProbes(RoomSeq[i]) THEN ToShare(RoomSeq[i]) ELSE {}

LEMMA StepGives ==
  ASSUME NEW past, NEW i, NEW step \in GivingSteps, NEW new \in BOOLEAN
  PROVE  Given(past \cup {<<step, i>>}, i, new) = Given(past, i, new) \cup GivenBy(step, i, new)
<1>1. \A other : <<other, i>> \in past \cup {<<step, i>>} <=> <<other, i>> \in past \/ other = step
  OBVIOUS
<1>2. step \in {"ingest", "deliver", "share", "share_new"}
  BY DEF GivingSteps
<1>3. CASE new
  <2>1. Given(past \cup {<<step, i>>}, i, new) = GivenNew(past \cup {<<step, i>>}, i)
        /\ Given(past, i, new) = GivenNew(past, i)
    BY <1>3 DEF Given
  <2>2. <<"share_new", i>> \in past \cup {<<step, i>>}
            <=> <<"share_new", i>> \in past \/ step = "share_new"
    BY <1>1
  <2>3. GivenBy(step, i, new) = IF step = "share_new" /\ HasNewRoomProbes(RoomSeq[i])
                                  THEN ToShare(RoomSeq[i]) ELSE {}
    BY <1>2, <1>3 DEF GivenBy
  <2> QED
    BY <2>1, <2>2, <2>3 DEF GivenNew
<1>4. CASE ~new
  <2> DEFINE A == ActivityDocs(RoomSeq[i])
             O == OwnDocs(RoomSeq[i], Active(views[RoomSeq[i].id]))
             X == ToShare(RoomSeq[i])
                     \ (ActivityDocs(RoomSeq[i]) \cup OwnDocs(RoomSeq[i], views[RoomSeq[i].id]))
  <2>1. /\ Given(past \cup {<<step, i>>}, i, new) = GivenOwn(past \cup {<<step, i>>}, i)
        /\ Given(past, i, new) = GivenOwn(past, i)
    BY <1>4 DEF Given
  <2>2. \A p : GivenOwn(p, i) = (IF <<"ingest", i>> \in p THEN A ELSE {})
                                  \cup (IF <<"deliver", i>> \in p THEN O ELSE {})
                                  \cup (IF <<"share", i>> \in p THEN X ELSE {})
    BY DEF GivenOwn
  <2>3. GivenBy(step, i, new) = (IF step = "ingest" THEN A ELSE {})
                                  \cup (IF step = "deliver" THEN O ELSE {})
                                  \cup (IF step = "share" THEN X ELSE {})
    BY <1>2, <1>4 DEF GivenBy
  <2> HIDE DEF A, O, X
  <2>4. /\ <<"ingest", i>> \in past \cup {<<step, i>>} <=> <<"ingest", i>> \in past \/ step = "ingest"
        /\ <<"deliver", i>> \in past \cup {<<step, i>>}
              <=> <<"deliver", i>> \in past \/ step = "deliver"
        /\ <<"share", i>> \in past \cup {<<step, i>>} <=> <<"share", i>> \in past \/ step = "share"
    BY <1>1
  <2> QED
    BY <2>1, <2>2, <2>3, <2>4
<1> QED
  BY <1>3, <1>4

\* A step that gives just what is its own.
LEMMA GivingKeeps ==
  ASSUME RoomsInv, NEW step \in GivingSteps, Doing(step), Done, room_arm' = room_arm,
         views' = views, room_outcome' \in {room_outcome, "raised"}, write_sides' = write_sides,
         NEW which \in BOOLEAN, NEW D,
         opened' = opened \/ (step = "ingest" /\ opened' = opened \cup {SessionOf(Now, FALSE)}),
         room_outcome' = "running" => attached' = attached \cup ({SessionOf(Now, which)} \X D),
         \A new \in BOOLEAN : GivenBy(step, Head(jobs)[2], new) = IF new = which THEN D ELSE {}
  PROVE  RoomsInv'
<1>1. room_outcome = "running" /\ room_arm \in Arms /\ OnPlan /\ ScoresInv
  BY RunHasArm DEF Doing
<1>2. step # "curate" /\ step # "probe"
  BY DEF GivingSteps
<1>3. Head(jobs) = <<step, Head(jobs)[2]>>
  BY <1>1, <1>2, NextJob, Zenon DEF NextJobRight
<1>4. ASSUME NEW new \in BOOLEAN, NEW d
      PROVE  d \in Given(PastJobs \cup {Head(jobs)}, Head(jobs)[2], new) <=>
                \/ d \in Given(PastJobs, Head(jobs)[2], new)
                \/ new = which /\ d \in D
  <2> DEFINE i == Head(jobs)[2]
  <2>1. Given(PastJobs \cup {<<step, i>>}, i, new)
            = Given(PastJobs, i, new) \cup GivenBy(step, i, new)
    BY StepGives
  <2>2. GivenBy(step, i, new) = IF new = which THEN D ELSE {}
    OBVIOUS
  <2>3. Head(jobs) = <<step, i>>
    BY <1>3
  <2> HIDE DEF i
  <2>4. d \in Given(PastJobs \cup {Head(jobs)}, i, new) <=> d \in Given(PastJobs, i, new) \/ (new = which /\ d \in D)
    BY <2>1, <2>2, <2>3, SMTT(60)
  <2> QED
    BY <2>4 DEF i
<1>5. SessionsInv'
  BY <1>2, <1>4, SessionsKept
<1>6. ScoresInv'
  BY <1>1 DEF ScoresInv
<1> QED
  BY <1>2, <1>5, <1>6, JobKeeps

LEMMA IngestRoomKeeps == RoomsInv /\ IngestRoom => RoomsInv'
<1> SUFFICES ASSUME RoomsInv, IngestRoom PROVE RoomsInv'
  OBVIOUS
<1>1. /\ Doing("ingest") /\ Done /\ room_arm' = room_arm /\ views' = views
      /\ write_sides' = write_sides /\ opened' = opened \cup {SessionOf(Now, FALSE)}
  BY DEF IngestRoom
<1>2. Now = RoomSeq[Head(jobs)[2]]
  BY DEF Now
<1>3. /\ room_outcome' \in {room_outcome, "raised"}
      /\ room_outcome' = "running" =>
            attached' = attached \cup ({SessionOf(Now, FALSE)} \X ActivityDocs(Now))
  <2> DEFINE docs == [d \in ActivityDocs(Now) |-> <<Now.id, d.id>>]
  <2>1. Store(docs, SessionOf(Now, FALSE)) /\ ActivityDocs(Now) = DOMAIN docs
    BY DEF IngestRoom
  <2> HIDE DEF docs
  <2> QED
    BY <2>1 DEF Store
<1>4. \A new \in BOOLEAN : GivenBy("ingest", Head(jobs)[2], new)
                              = IF new = FALSE THEN ActivityDocs(Now) ELSE {}
  BY <1>2 DEF GivenBy
<1> QED
  BY <1>1, <1>3, <1>4, GivingKeeps DEF GivingSteps

LEMMA DeliverMemoriesKeeps == RoomsInv /\ DeliverMemories => RoomsInv'
<1> SUFFICES ASSUME RoomsInv, DeliverMemories PROVE RoomsInv'
  OBVIOUS
<1> DEFINE D == OwnDocs(Now, Active(views[Now.id]))
<1>1. /\ Doing("deliver") /\ Done /\ room_arm' = room_arm /\ views' = views
      /\ write_sides' = write_sides /\ opened' = opened
  BY DEF DeliverMemories
<1>2. Now = RoomSeq[Head(jobs)[2]]
  BY DEF Now
<1>3. /\ room_outcome' \in {room_outcome, "raised"}
      /\ room_outcome' = "running" => attached' = attached \cup ({SessionOf(Now, FALSE)} \X D)
  <2> DEFINE docs == [d \in D |->
                         {v.statement : v \in {w \in Active(views[Now.id]) : MemoryDoc(Now, w) = d}}]
  <2>1. Store(docs, SessionOf(Now, FALSE)) /\ D = DOMAIN docs
    BY DEF DeliverMemories
  <2> HIDE DEF docs, D
  <2> QED
    BY <2>1 DEF Store
<1>4. \A new \in BOOLEAN : GivenBy("deliver", Head(jobs)[2], new) = IF new = FALSE THEN D ELSE {}
  BY <1>2 DEF GivenBy
<1> HIDE DEF D
<1> QED
  BY <1>1, <1>3, <1>4, GivingKeeps DEF GivingSteps

LEMMA ShareWithRoomKeeps == RoomsInv /\ ShareWithRoom => RoomsInv'
<1> SUFFICES ASSUME RoomsInv, ShareWithRoom PROVE RoomsInv'
  OBVIOUS
<1> DEFINE D == ToShare(Now) \ (ActivityDocs(Now) \cup OwnDocs(Now, views[Now.id]))
<1>1. /\ Doing("share") /\ Done /\ room_arm' = room_arm /\ views' = views
      /\ write_sides' = write_sides /\ opened' = opened /\ room_outcome' = room_outcome
      /\ attached' = attached \cup ({SessionOf(Now, FALSE)} \X D)
  BY DEF ShareWithRoom, AttachAll
<1>2. Now = RoomSeq[Head(jobs)[2]]
  BY DEF Now
<1>3. \A new \in BOOLEAN : GivenBy("share", Head(jobs)[2], new) = IF new = FALSE THEN D ELSE {}
  BY <1>2 DEF GivenBy
<1> HIDE DEF D
<1> QED
  BY <1>1, <1>3, GivingKeeps DEF GivingSteps

LEMMA ShareWithNewRoomKeeps == RoomsInv /\ ShareWithNewRoom => RoomsInv'
<1> SUFFICES ASSUME RoomsInv, ShareWithNewRoom PROVE RoomsInv'
  OBVIOUS
<1> DEFINE D == IF HasNewRoomProbes(Now) THEN ToShare(Now) ELSE {}
<1>1. /\ Doing("share_new") /\ Done /\ room_arm' = room_arm /\ views' = views
      /\ write_sides' = write_sides /\ opened' = opened /\ room_outcome' = room_outcome
  BY DEF ShareWithNewRoom
<1>2. Now = RoomSeq[Head(jobs)[2]]
  BY DEF Now
<1>3. attached' = attached \cup ({SessionOf(Now, TRUE)} \X D)
  <2>1. CASE HasNewRoomProbes(Now)
    BY <2>1 DEF ShareWithNewRoom, AttachAll
  <2>2. CASE ~HasNewRoomProbes(Now)
    <3>1. attached' = attached /\ D = {}
      BY <2>2 DEF ShareWithNewRoom
    <3> QED
      BY <3>1
  <2> QED
    BY <2>1, <2>2
<1>4. \A new \in BOOLEAN : GivenBy("share_new", Head(jobs)[2], new) = IF new = TRUE THEN D ELSE {}
  BY <1>2 DEF GivenBy
<1> HIDE DEF D
<1> QED
  BY <1>1, <1>3, <1>4, GivingKeeps DEF GivingSteps

\* A step that gives nothing.
LEMMA OtherKeeps ==
  ASSUME RoomsInv, NEW step \in {"open", "write_side", "probe"}, Doing(step), Done,
         room_arm' = room_arm, views' = views, room_outcome' = room_outcome, attached' = attached,
         \A s \in opened' : s \in opened \/ (s = SessionOf(Now, TRUE) /\ HasNewRoomProbes(Now)),
         step = "open" \/ opened' = opened, ScoresInv'
  PROVE  RoomsInv'
<1>1. room_outcome = "running" /\ room_arm \in Arms /\ OnPlan
  BY RunHasArm DEF Doing
<1>2. Head(jobs)[1] \notin GivingSteps
  BY DEF Doing, GivingSteps
<1>3. \A new : Given(PastJobs \cup {Head(jobs)}, Head(jobs)[2], new)
                  = Given(PastJobs, Head(jobs)[2], new)
  BY <1>2, OthersGiven
<1>4. PICK which \in BOOLEAN : which = FALSE
  OBVIOUS
<1>5. PICK D : D = {}
  OBVIOUS
<1>6. \A new \in BOOLEAN : \A d :
         d \in Given(PastJobs \cup {Head(jobs)}, Head(jobs)[2], new) <=>
            \/ d \in Given(PastJobs, Head(jobs)[2], new)
            \/ new = which /\ d \in D
  BY <1>3, <1>5
<1>7. /\ step # "curate" /\ (step \in {"ingest", "open"} \/ opened' = opened)
      /\ room_outcome' \in {room_outcome, "raised"}
      /\ attached' = attached \cup ({SessionOf(Now, which)} \X D)
  BY <1>5
<1>8. \A s \in opened' : \/ s \in opened \/ s = SessionOf(Now, FALSE)
                         \/ s = SessionOf(Now, TRUE) /\ HasNewRoomProbes(Now)
  OBVIOUS
<1>9. SessionsInv'
  BY <1>6, <1>7, <1>8, SessionsKept
<1> QED
  BY <1>7, <1>9, JobKeeps

LEMMA OpenNewRoomKeeps == RoomsInv /\ OpenNewRoom => RoomsInv'
<1> SUFFICES ASSUME RoomsInv, OpenNewRoom PROVE RoomsInv'
  OBVIOUS
<1>1. ScoresInv'
  BY RunHasArm DEF OpenNewRoom, Doing, ScoresInv
<1> QED
  BY <1>1, OtherKeeps DEF OpenNewRoom

LEMMA AskProbeKeeps == RoomsInv /\ AskProbe => RoomsInv'
<1> SUFFICES ASSUME RoomsInv, AskProbe PROVE RoomsInv'
  OBVIOUS
<1>1. /\ Doing("probe") /\ Done /\ room_arm' = room_arm /\ views' = views
      /\ write_sides' = write_sides /\ opened' = opened /\ attached' = attached
      /\ room_outcome' = room_outcome
  BY DEF AskProbe
<1>2. ScoresInv'
  BY <1>1, RunHasArm DEF Doing, ScoresInv
<1> QED
  BY <1>1, <1>2, OtherKeeps

LEMMA CurateRoomKeeps ==
  ASSUME RoomsInv, NEW output \in Outputs[Now.id], CurateRoom(output)
  PROVE  RoomsInv'
<1> DEFINE j == Head(jobs)
           i == j[2]
           r == RoomSeq[i]
           memories == IF room_arm.name = "oracle" THEN OracleViews(r) ELSE ReadBack(output)
<1>1. Doing("curate") /\ Done /\ room_arm' = room_arm /\ write_sides' = write_sides
      /\ opened' = opened /\ attached' = attached
  BY DEF CurateRoom
<1>2. /\ room_outcome = "running" /\ room_arm \in Arms /\ room_arm # NoRow /\ OnPlan
      /\ ViewsInv /\ ScoresInv /\ SessionsInv
  BY <1>1, RunHasArm DEF Doing
<1>3. /\ OnPlan' /\ PastJobs' = PastJobs \cup {j} /\ NextJobRight("curate", j) /\ Now = r
  BY <1>1, <1>2, JobDone, NextJob
<1>4. i \in RoomNos /\ j = <<"curate", i>> /\ "curate" \in StepsOf(room_arm)
      /\ \A x \in PastJobs : ~TooEarly(room_arm, x, j)
  BY <1>3 DEF NextJobRight, ScoringSteps
<1>5. Curating
  BY <1>2, <1>4 DEF StepsOf, Arms, ArmNames, Curating
<1>6. /\ DOMAIN views = {RoomSeq[k].id : k \in RoomNos} /\ r.id \in DOMAIN views
      /\ GoldsValid(r) /\ OutputValid(output)
      /\ \A k \in RoomNos : RoomSeq[k].id = r.id => k = i
  BY <1>2, <1>3, <1>4, RoomsAreValid DEF ViewsInv
<1>7. \/ /\ \A v, w \in memories : v.id = w.id => v = w
         /\ views' = [views EXCEPT ![r.id] = memories] /\ room_outcome' = room_outcome
      \/ views' = views /\ room_outcome' = "raised"
  BY <1>3 DEF CurateRoom
<1>8. \A k : OracleViews(RoomSeq[k])' = OracleViews(RoomSeq[k])
  BY <1>1, ArmStays
<1>9. \A k : \A m : ViewsFrom(k, m)' <=> ViewsFrom(k, m)
  BY <1>1, ArmStays
<1>10. CASE views' = views /\ room_outcome' = "raised"
  <2>1. \A k \in RoomNos : /\ ViewsListed(views'[RoomSeq[k].id])
                           /\ views'[RoomSeq[k].id] = {} \/ ViewsFrom(k, views[RoomSeq[k].id])'
    BY <1>1, <1>2, <1>9, <1>10 DEF ViewsInv, ViewsFrom
  <2>2. ViewsInv'
    BY <1>6, <1>10, <2>1 DEF ViewsInv
  <2>3. \A k \in RoomNos : \A new \in BOOLEAN : SessionOf(RoomSeq[k], new)' = SessionOf(RoomSeq[k], new)
    BY <1>1, ArmStays
  <2>4. SessionsInv'
    BY <1>1, <1>2, <1>10, <2>3, ZenonT(60) DEF SessionsInv
  <2>5. ScoresInv'
    BY <1>1, <1>2 DEF ScoresInv
  <2> QED
    BY <1>1, <1>2, <1>3, <2>2, <2>4, <2>5 DEF RoomsInv
<1>11. ASSUME \A v, w \in memories : v.id = w.id => v = w,
              views' = [views EXCEPT ![r.id] = memories], room_outcome' = room_outcome
       PROVE  RoomsInv'
  <2>1. ViewsListed(memories)
    <3>1. CASE room_arm.name = "oracle"
      BY <1>6, <3>1, OracleScored DEF ViewsListed
    <3>2. CASE room_arm.name # "oracle"
      <4>1. memories \subseteq output
        BY <3>2 DEF ReadBack
      <4>2. IsFiniteSet(memories)
        BY <1>6, <4>1, FS_Subset DEF OutputValid
      <4> HIDE DEF memories
      <4> QED
        BY <1>6, <1>11, <4>1, <4>2 DEF OutputValid, ViewsListed, MemoriesListed
    <3> QED
      BY <3>1, <3>2
  <2>2. ViewsFrom(i, memories)
    <3>1. output \in Outputs[r.id]
      BY <1>3
    <3>2. room_arm.name # "oracle" => memories \subseteq output
      BY DEF ReadBack
    <3> QED
      BY <1>5, <3>1, <3>2 DEF ViewsFrom
  <2>3. room_arm.name = "oracle" => memories = OracleViews(r)
    OBVIOUS
  <2> HIDE DEF memories, r, j, i
  <2>4. DOMAIN views' = DOMAIN views /\ views'[r.id] = memories
        /\ \A k \in RoomNos : k # i => views'[RoomSeq[k].id] = views[RoomSeq[k].id]
    BY <1>6, <1>11
  <2>5. ASSUME NEW k \in RoomNos
        PROVE  /\ ViewsListed(views[RoomSeq[k].id])'
               /\ views'[RoomSeq[k].id] = {} \/ ViewsFrom(k, views[RoomSeq[k].id])'
               /\ room_arm'.name = "oracle" /\ <<"curate", k>> \in PastJobs' /\ room_outcome' = "running"
                     => views'[RoomSeq[k].id] = OracleViews(RoomSeq[k])'
    <3> DEFINE m == views'[RoomSeq[k].id]
    <3>1. CASE k = i
      <4>1. m = memories
        BY <2>4, <3>1 DEF r
      <4>2. ViewsFrom(k, m)
        BY <2>2, <3>1, <4>1
      <4>3. ViewsFrom(k, views[RoomSeq[k].id])'
        BY <1>1, <1>8, <4>2 DEF ViewsFrom, Curating
      <4> QED
        BY <1>1, <1>8, <2>1, <2>3, <3>1, <4>1, <4>3 DEF r, ViewsListed
    <3>2. CASE k # i
      <4>1. m = views[RoomSeq[k].id]
        BY <2>4, <3>2
      <4>2. <<"curate", k>> \in PastJobs' <=> <<"curate", k>> \in PastJobs
        BY <1>3, <1>4, <3>2
      <4>3. ViewsFrom(k, views[RoomSeq[k].id])' <=> ViewsFrom(k, views[RoomSeq[k].id])
        BY <1>1, <1>8, <4>1 DEF ViewsFrom, Curating
      <4> QED
        BY <1>1, <1>2, <1>8, <1>11, <4>1, <4>2, <4>3 DEF ViewsInv, ViewsListed
    <3> QED
      BY <3>1, <3>2
  <2>6. ViewsInv'
    BY <1>6, <2>4, <2>5 DEF ViewsInv
  <2>7. ASSUME NEW k \in RoomNos, NEW new \in BOOLEAN
        PROVE  Given(PastJobs, k, new)' = Given(PastJobs, k, new)
    <3>1. PICK past : past = PastJobs'
      OBVIOUS
    <3>2. past = PastJobs \cup {j} /\ j[1] = "curate"
      BY <1>3, <1>4, <3>1
    <3>3. Related(room_arm, k, k) /\ j[2] = i
      BY DEF Related, i
    <3>4. ASSUME <<"deliver", k>> \in past \/ <<"share", k>> \in past
          PROVE  views'[RoomSeq[k].id] = views[RoomSeq[k].id]
      <4>1. <<"deliver", k>> \in PastJobs \/ <<"share", k>> \in PastJobs
        BY <3>2, <3>4
      <4>2. ~TooEarly(room_arm, <<"deliver", k>>, j) \/ ~TooEarly(room_arm, <<"share", k>>, j)
        BY <1>4, <4>1
      <4>3. k # i
        BY <3>2, <3>3, <4>2 DEF TooEarly
      <4> QED
        BY <2>4, <4>3
    <3>5. ASSUME <<"share", k>> \in past \/ <<"share_new", k>> \in past
          PROVE  ToShare(RoomSeq[k])' = ToShare(RoomSeq[k])
      <4>1. <<"share", k>> \in PastJobs \/ <<"share_new", k>> \in PastJobs
        BY <3>2, <3>5
      <4>2. ~TooEarly(room_arm, <<"share", k>>, j) \/ ~TooEarly(room_arm, <<"share_new", k>>, j)
        BY <1>4, <4>1
      <4>3. ~Related(room_arm, k, i)
        BY <3>2, <3>3, <4>2 DEF TooEarly
      <4>4. \A o \in RoomNos : Related(room_arm, k, o) =>
               views'[RoomSeq[o].id] = views[RoomSeq[o].id]
        BY <2>4, <4>3
      <4> QED
        BY <1>1, <1>2, <4>4, ShareStays
    <3>6. Given(past, k, new)' = Given(past, k, new)
      BY <1>1, <1>2, <3>4, <3>5, GivenStays
    <3>7. Given(PastJobs, k, new)' = Given(past, k, new)'
      BY <3>1 DEF Given, GivenOwn, GivenNew
    <3>8. Given(past, k, new) = Given(PastJobs, k, new)
      BY <3>2, OthersGiven DEF GivingSteps
    <3> QED
      BY <3>6, <3>7, <3>8
  <2>8. \A k \in RoomNos : \A new \in BOOLEAN : SessionOf(RoomSeq[k], new)' = SessionOf(RoomSeq[k], new)
    BY <1>1, ArmStays
  <2>9. SessionsInv'
    <3>1. \A s \in opened' : \E k \in RoomNos :
             \/ s = SessionOf(RoomSeq[k], FALSE)'
             \/ s = SessionOf(RoomSeq[k], TRUE)' /\ HasNewRoomProbes(RoomSeq[k])
      BY <1>1, <1>2, <2>8, ZenonT(60) DEF SessionsInv
    <3>2. room_arm'.name = "full_context" => opened' = {}
      BY <1>1, <1>2 DEF SessionsInv
    <3>3. ASSUME NEW k \in RoomNos, NEW new \in BOOLEAN, NEW d
          PROVE  <<SessionOf(RoomSeq[k], new), d>>' \in attached' <=> d \in Given(PastJobs, k, new)'
      <4>1. <<SessionOf(RoomSeq[k], new), d>> \in attached <=> d \in Given(PastJobs, k, new)
        BY <1>2 DEF SessionsInv
      <4> QED
        BY <1>1, <2>7, <2>8, <4>1
    <3> QED
      BY <3>1, <3>2, <3>3 DEF SessionsInv
  <2>10. ScoresInv'
    BY <1>1, <1>2 DEF ScoresInv
  <2> QED
    BY <1>1, <1>2, <1>3, <2>6, <2>9, <2>10 DEF RoomsInv
<1> QED
  BY <1>7, <1>10, <1>11

LEMMA StartRoomsKeeps ==
  ASSUME RoomsInv, NEW arm \in Arms, StartRooms(arm)
  PROVE  RoomsInv'
<1>1. /\ room_arm = NoRow /\ room_arm' = arm
      /\ opened' = opened /\ attached' = attached /\ views' = views /\ write_sides' = write_sides
  BY DEF StartRooms
<1>2. /\ opened' = {} /\ attached' = {} /\ write_sides' = <<>>
      /\ views' = [id \in {RoomSeq[i].id : i \in RoomNos} |-> {}]
  BY <1>1 DEF RoomsInv
<1>3. arm # NoRow
  BY RoomDeliveryAssumption DEF Arms
<1>4. OnPlan' /\ PastJobs' = {}
  BY PlanStarted
<1>5. ViewsListed({})
  BY FS_EmptySet DEF ViewsListed, MemoriesListed
<1>6. \A i \in RoomNos : ViewsListed(views'[RoomSeq[i].id]) /\ views'[RoomSeq[i].id] = {}
  BY <1>2, <1>5
<1>7. ViewsInv'
  BY <1>2, <1>4, <1>6 DEF ViewsInv
<1>8. \A i : \A new : Given(PastJobs, i, new)' = {}
  BY <1>4 DEF Given, GivenOwn, GivenNew
<1>9. SessionsInv'
  BY <1>2, <1>8 DEF SessionsInv
<1>10. ScoresInv'
  BY <1>2 DEF ScoresInv
<1> QED
  BY <1>1, <1>3, <1>4, <1>7, <1>9, <1>10 DEF RoomsInv

LEMMA ScoreRoomKeeps ==
  ASSUME RoomsInv, NEW judged, ScoreRoom(judged)
  PROVE  RoomsInv'
<1> DEFINE i == Head(jobs)[2]
           r == RoomSeq[i]
           s == ScoreWriteSide(views[r.id], r.golds, r.noise, judged)
<1>1. /\ Doing("write_side") /\ Done /\ room_arm' = room_arm /\ views' = views
      /\ opened' = opened /\ attached' = attached /\ room_outcome' = room_outcome
  BY DEF ScoreRoom
<1>2. /\ room_outcome = "running" /\ room_arm \in Arms /\ room_arm # NoRow /\ OnPlan
      /\ ViewsInv /\ ScoresInv
  BY <1>1, RunHasArm DEF Doing
<1>3. NextJobRight("write_side", Head(jobs)) /\ Now = r
  BY <1>1, <1>2, NextJob
<1>4. i \in RoomNos
  BY <1>3 DEF NextJobRight
<1>5. /\ write_sides' = Append(write_sides, s) \/ write_sides' = write_sides
      /\ Curating \/ write_sides' = write_sides
  BY <1>3 DEF ScoreRoom
<1>6. ViewsListed(views[r.id]) /\ MemoriesListed(r.golds) /\ IsFiniteSet(r.noise) /\ GoldsValid(r)
  BY <1>2, <1>4, RoomsAreValid DEF ViewsInv
<1>7. ScoreSound(s)
  BY <1>6, ScoreAgrees DEF ViewsListed
<1>8. ASSUME room_arm.name = "oracle" PROVE ScoreExact(s)
  <2>1. "curate" \in StepsOf(room_arm) /\ Related(room_arm, i, i)
    BY <1>8 DEF StepsOf, Related
  <2>2. <<"curate", i>> \in PastJobs
    BY <1>3, <1>4, <2>1 DEF NextJobRight, ScoringSteps
  <2>3. views[r.id] = OracleViews(r)
    BY <1>2, <1>4, <1>8, <2>2 DEF ViewsInv
  <2> QED
    BY <1>6, <2>3, OracleScored
<1> HIDE DEF s, r, i
<1>9. ScoresInv'
  <2>1. CASE write_sides' = write_sides
    BY <1>1, <1>2, <2>1 DEF ScoresInv
  <2>2. CASE write_sides' = Append(write_sides, s)
    <3>1. s \in [ScoreKeys -> Nat]
      BY <1>7 DEF ScoreSound
    <3> DEFINE ws == Append(write_sides, s)
    <3>2. /\ ws \in Seq([ScoreKeys -> Nat]) /\ Len(ws) = Len(write_sides) + 1
          /\ Len(write_sides) \in Nat
          /\ \A k \in 1..Len(write_sides) : ws[k] = write_sides[k]
          /\ ws[Len(write_sides) + 1] = s
      BY <1>2, <3>1 DEF ScoresInv
    <3> HIDE DEF ws
    <3>3. \A k \in 1..Len(ws) : k \in 1..Len(write_sides) \/ k = Len(write_sides) + 1
      BY <3>2
    <3>4. \A k \in 1..Len(ws) : ScoreSound(ws[k])
      BY <1>2, <1>7, <3>2, <3>3 DEF ScoresInv
    <3>5. room_arm.name = "oracle" => \A k \in 1..Len(ws) : ScoreExact(ws[k])
      BY <1>2, <1>8, <3>2, <3>3 DEF ScoresInv
    <3>6. write_sides' = ws
      BY <2>2 DEF ws
    <3> QED
      BY <1>1, <3>2, <3>4, <3>5, <3>6 DEF ScoresInv
  <2> QED
    BY <1>5, <2>1, <2>2
<1> QED
  BY <1>1, <1>9, OtherKeeps

LEMMA EndRoomsKeeps ==
  ASSUME RoomsInv, EndRooms
  PROVE  RoomsInv'
<1>1. /\ room_outcome = "running" /\ room_outcome' = "ended" /\ room_arm' = room_arm
      /\ jobs' = jobs /\ views' = views /\ opened' = opened /\ attached' = attached
      /\ write_sides' = IF write_sides = <<>> THEN <<>> ELSE <<Pool(write_sides)>>
  BY DEF EndRooms
<1>2. room_arm \in Arms /\ room_arm # NoRow /\ OnPlan /\ ViewsInv /\ ScoresInv /\ SessionsInv
  BY <1>1, RunHasArm
<1>3. OnPlan' /\ PastJobs' = PastJobs
  BY <1>1, <1>2 DEF OnPlan, DoneJobs, PastJobs
<1>4. ViewsInv'
  <2>1. \A i : \A m : ViewsFrom(i, m)' <=> ViewsFrom(i, m)
    BY <1>1, ArmStays
  <2>2. \A i \in RoomNos : /\ ViewsListed(views'[RoomSeq[i].id])
                           /\ views'[RoomSeq[i].id] = {} \/ ViewsFrom(i, views[RoomSeq[i].id])'
    BY <1>1, <1>2, <2>1 DEF ViewsInv, ViewsFrom
  <2> QED
    BY <1>1, <1>2, <2>2 DEF ViewsInv
<1>5. SessionsInv'
  <2>1. \A k \in RoomNos : \A new \in BOOLEAN : SessionOf(RoomSeq[k], new)' = SessionOf(RoomSeq[k], new)
    BY <1>1, ArmStays
  <2> QED
    BY <1>1, <1>2, <2>1, ZenonT(60) DEF SessionsInv
<1>6. ScoresInv'
  <2>1. CASE write_sides = <<>>
    BY <1>1, <2>1 DEF ScoresInv
  <2>2. CASE write_sides # <<>>
    <3> DEFINE p == Pool(write_sides)
               n == Len(write_sides)
    <3>1. /\ write_sides \in Seq([ScoreKeys -> Nat])
          /\ \A k \in 1..n : ScoreSound(write_sides[k])
          /\ room_arm.name = "oracle" => \A k \in 1..n : ScoreExact(write_sides[k])
      BY <1>2 DEF ScoresInv
    <3>2. n \in Nat \ {0} /\ DOMAIN write_sides = 1..n
      BY <2>2, <3>1
    <3>3. /\ ScoreSound(p)
          /\ \A a, b \in ScoreKeys :
                (\A k \in 1..n : write_sides[k][a] = write_sides[k][b]) => p[a] = p[b]
      BY <3>1, <3>2, PoolAgrees
    <3>4. write_sides' = <<p>>
      BY <1>1, <2>2
    <3> HIDE DEF p, n
    <3>5. ASSUME room_arm.name = "oracle" PROVE ScoreExact(p)
      <4>1. {"matched", "gold", "kind_matches", "supersede_correct", "superseded_gold",
             "chain_key_consistent", "chain_pairs"} \subseteq ScoreKeys
        BY DEF ScoreKeys
      <4>2. \A k \in 1..n :
               /\ write_sides[k]["matched"] = write_sides[k]["gold"]
               /\ write_sides[k]["kind_matches"] = write_sides[k]["matched"]
               /\ write_sides[k]["supersede_correct"] = write_sides[k]["superseded_gold"]
               /\ write_sides[k]["chain_key_consistent"] = write_sides[k]["chain_pairs"]
        BY <3>1, <3>5 DEF ScoreExact
      <4>3. p["matched"] = p["gold"] /\ p["kind_matches"] = p["matched"]
        BY <3>3, <4>1, <4>2
      <4>4. /\ p["supersede_correct"] = p["superseded_gold"]
            /\ p["chain_key_consistent"] = p["chain_pairs"]
        BY <3>3, <4>1, <4>2
      <4> QED
        BY <4>3, <4>4 DEF ScoreExact
    <3>6. p \in [ScoreKeys -> Nat]
      BY <3>3 DEF ScoreSound
    <3>7. /\ <<p>> \in Seq([ScoreKeys -> Nat]) /\ Len(<<p>>) = 1 /\ <<p>>[1] = p
      BY <3>6
    <3>8. /\ write_sides' \in Seq([ScoreKeys -> Nat])
          /\ \A k \in 1..Len(write_sides') : write_sides'[k] = p
      BY <3>4, <3>7
    <3> QED
      BY <1>1, <3>3, <3>5, <3>8 DEF ScoresInv
  <2> QED
    BY <2>1, <2>2
<1> QED
  BY <1>1, <1>2, <1>3, <1>4, <1>5, <1>6 DEF RoomsInv

LEMMA StutterKeeps ==
  ASSUME RoomsInv, UNCHANGED roomVars
  PROVE  RoomsInv'
<1>1. /\ room_arm' = room_arm /\ jobs' = jobs /\ opened' = opened /\ attached' = attached
      /\ views' = views /\ write_sides' = write_sides /\ room_row' = room_row
      /\ room_outcome' = room_outcome
  BY DEF roomVars
<1>2. CASE room_arm = NoRow
  BY <1>1, <1>2 DEF RoomsInv
<1>3. CASE room_arm # NoRow
  <2>1. room_arm \in Arms /\ OnPlan /\ ViewsInv /\ ScoresInv /\ SessionsInv
    BY <1>3 DEF RoomsInv
  <2>2. OnPlan' /\ PastJobs' = PastJobs
    BY <1>1, <2>1 DEF OnPlan, DoneJobs, PastJobs
  <2>3. ViewsInv'
    <3>1. \A i : \A m : ViewsFrom(i, m)' <=> ViewsFrom(i, m)
      BY <1>1, ArmStays
    <3>2. \A i : OracleViews(RoomSeq[i])' = OracleViews(RoomSeq[i])
      BY <1>1, ArmStays
    <3>3. \A i \in RoomNos : /\ ViewsListed(views'[RoomSeq[i].id])
                             /\ views'[RoomSeq[i].id] = {} \/ ViewsFrom(i, views[RoomSeq[i].id])'
      BY <1>1, <2>1, <3>1 DEF ViewsInv, ViewsFrom
    <3> QED
      BY <1>1, <2>1, <2>2, <3>2, <3>3 DEF ViewsInv
  <2>4. SessionsInv'
    <3>1. \A k \in RoomNos : \A new \in BOOLEAN : SessionOf(RoomSeq[k], new)' = SessionOf(RoomSeq[k], new)
      BY <1>1, ArmStays
    <3>2. ASSUME NEW k \in RoomNos, NEW new \in BOOLEAN
          PROVE  Given(PastJobs, k, new)' = Given(PastJobs, k, new)
      <4>1. PICK past : past = PastJobs
        OBVIOUS
      <4>2. ToShare(RoomSeq[k])' = ToShare(RoomSeq[k])
        BY <1>1, <2>1, ShareStays
      <4>3. Given(past, k, new)' = Given(past, k, new)
        BY <1>1, <2>1, <4>2, GivenStays
      <4>4. Given(PastJobs, k, new)' = Given(past, k, new)'
        BY <2>2, <4>1 DEF Given, GivenOwn, GivenNew
      <4> QED
        BY <4>1, <4>3, <4>4
    <3>3. ASSUME NEW k \in RoomNos, NEW new \in BOOLEAN, NEW d
          PROVE  <<SessionOf(RoomSeq[k], new), d>>' \in attached'
                     <=> <<SessionOf(RoomSeq[k], new), d>> \in attached
      BY <1>1, <3>1
    <3> QED
      BY <1>1, <2>1, <3>1, <3>2, <3>3, ZenonT(60) DEF SessionsInv
  <2>5. ScoresInv'
    BY <1>1, <2>1 DEF ScoresInv
  <2> QED
    BY <1>1, <1>3, <2>1, <2>2, <2>3, <2>4, <2>5 DEF RoomsInv
<1> QED
  BY <1>2, <1>3

LEMMA RoomsInvInit == RoomsInit => RoomsInv
BY DEF RoomsInit, RoomsInv

LEMMA RoomsInvKept == RoomsInv /\ [RoomsStep]_roomVars => RoomsInv'
<1> SUFFICES ASSUME RoomsInv, [RoomsStep]_roomVars PROVE RoomsInv'
  OBVIOUS
<1>1. ASSUME NEW arm \in Arms, StartRooms(arm) PROVE RoomsInv'
  BY <1>1, StartRoomsKeeps
<1>2. ASSUME NEW output \in IF Doing("curate") THEN Outputs[Now.id] ELSE {}, CurateRoom(output)
      PROVE  RoomsInv'
  BY <1>2, CurateRoomKeeps
<1>3. ASSUME NEW judged, ScoreRoom(judged) PROVE RoomsInv'
  BY <1>3, ScoreRoomKeeps
<1>4. CASE UNCHANGED roomVars
  BY <1>4, StutterKeeps
<1>5. ASSUME NEW name \in ArmNames, NEW shared \in BOOLEAN
      PROVE  [name |-> name, shared |-> shared] \in Arms
  BY DEF Arms
<1> QED
  BY <1>1, <1>2, <1>3, <1>4, <1>5, IngestRoomKeeps, DeliverMemoriesKeeps, OpenNewRoomKeeps,
     ShareWithRoomKeeps, ShareWithNewRoomKeeps, AskProbeKeeps, EndRoomsKeeps DEF RoomsStep

LEMMA RoomsInvSound == RoomsInv => WriteSideSound
<1> SUFFICES ASSUME RoomsInv PROVE WriteSideSound
  OBVIOUS
<1>1. room_arm # NoRow => ViewsInv /\ ScoresInv /\ OnPlan /\ room_arm \in Arms
  BY DEF RoomsInv
<1>2. \A i \in DOMAIN write_sides : i \in 1..Len(write_sides) /\ CountsAgree(write_sides[i])
  BY DEF RoomsInv, ScoresInv, ScoreSound
<1> DEFINE Stable == LET memories == views[Now.id]
                         matches  == Matches(memories, Now.golds)
                     IN  /\ StableMatching(memories, Now.golds, matches)
                         /\ OneCurrentPerTopic(Now.golds) /\ MissedConflicts(memories, Now.golds) # {}
                               => \E g \in Superseded(Now.golds) :
                                     MatchedTo(matches, g) \subseteq Active(memories)
           Upper(w) == /\ w.matched = w.gold
                       /\ w.kind_matches = w.matched
                       /\ w.supersede_correct = w.superseded_gold
                       /\ w.chain_key_consistent = w.chain_pairs
<1>3. ASSUME Doing("write_side") PROVE Stable
  <2> DEFINE M == views[Now.id]
             G == Now.golds
             X == Matches(M, G)
  <2>1. PICK i \in RoomNos : Now = RoomSeq[i]
    BY <1>3, RunHasArm, NextJob DEF Doing, NextJobRight
  <2>2. MemoriesListed(M) /\ MemoriesListed(G)
    BY <1>3, <2>1, RunHasArm, RoomsAreValid DEF Doing, ViewsInv, ViewsListed
  <2>3. StableMatching(M, G, X)
    BY <2>2, MatchingIsStable DEF IsMatching, StableMatching
  <2>4. OneCurrentPerTopic(G) /\ MissedConflicts(M, G) # {} =>
           \E g \in Superseded(G) : MatchedTo(X, g) \subseteq Active(M)
    BY <2>2, MissedBesideStale
  <2> QED
    BY <2>3, <2>4
<1>4. ASSUME room_arm # NoRow, room_arm.name = "oracle", NEW i \in DOMAIN write_sides
      PROVE  Upper(write_sides[i])
  <2>1. ScoreExact(write_sides[i])
    BY <1>1, <1>2, <1>4 DEF ScoresInv
  <2> QED
    BY <2>1 DEF ScoreExact
<1>5. WriteSideSound <=>
         /\ \A i \in DOMAIN write_sides : CountsAgree(write_sides[i])
         /\ Doing("write_side") => Stable
         /\ room_arm # NoRow /\ room_arm.name = "oracle" =>
               \A i \in DOMAIN write_sides : Upper(write_sides[i])
  BY Zenon DEF WriteSideSound
<1> HIDE DEF Stable, Upper
<1> QED
  BY <1>2, <1>3, <1>4, <1>5, Zenon

-------------------------------------------------------------------------------
(***************************************************************************)
(* RoomDelivery: what the sessions see.                                     *)
(***************************************************************************)

\* A memory document is of one room's memory.
LEMMA MemoriesApart ==
  ASSUME RoomsInv, IdsApart, room_arm # NoRow, NEW i \in RoomNos, NEW o \in RoomNos,
         Related(room_arm, i, o), NEW v \in views[RoomSeq[i].id], NEW w \in views[RoomSeq[o].id],
         v.id = w.id, v.room = w.room
  PROVE  i = o /\ v = w
<1>1. ViewsInv /\ room_arm \in Arms
  BY DEF RoomsInv
<1>2. CASE i = o
  BY <1>1, <1>2 DEF ViewsInv, ViewsListed, MemoriesListed
<1>3. ASSUME i # o PROVE FALSE
  <2>1. Pooled /\ RoomSeq[i].project = RoomSeq[o].project
    BY <1>1, <1>3, PooledTogether DEF Related
  <2>2. ViewsFrom(i, views[RoomSeq[i].id]) /\ ViewsFrom(o, views[RoomSeq[o].id])
    BY <1>1 DEF ViewsInv
  <2>3. CASE room_arm.name = "oracle"
    <3>1. v \in OracleViews(RoomSeq[i]) /\ w \in OracleViews(RoomSeq[o])
      BY <2>2, <2>3 DEF ViewsFrom
    <3>2. v.room = RoomSeq[i].id /\ w.room = RoomSeq[o].id
      BY <2>1, <3>1 DEF OracleViews
    <3> QED
      BY <1>3, <3>2, RoomsAreValid
  <2>4. CASE room_arm.name # "oracle"
    <3>1. PICK a \in Outputs[RoomSeq[i].id] : v \in a
      BY <2>2, <2>4 DEF ViewsFrom
    <3>2. PICK b \in Outputs[RoomSeq[o].id] : w \in b
      BY <2>2, <2>4 DEF ViewsFrom
    <3> QED
      BY <1>3, <2>1, <3>1, <3>2 DEF IdsApart
  <2> QED
    BY <2>3, <2>4
<1> QED
  BY <1>2, <1>3

\* What a room shares.
LEMMA SharedAre ==
  ASSUME room_arm \in Arms, NEW i \in RoomNos, NEW d
  PROVE  d \in SharedDocs(RoomSeq[i]) <=>
            \E o \in RoomNos : /\ Related(room_arm, i, o)
                               /\ \E v \in Active(views[RoomSeq[o].id]) :
                                     CrossScope(v) /\ d = MemoryDoc(RoomSeq[o], v)
<1> DEFINE r == RoomSeq[i]
<1>1. SharedDocs(r) = UNION {OwnDocs(o, {v \in Active(views[o.id]) : CrossScope(v)}) :
                                o \in SharesWith(r)}
  BY DEF SharedDocs, SharesWith
<1>2. d \in SharedDocs(r) <=>
         \E o \in SharesWith(r) : \E v \in Active(views[o.id]) : CrossScope(v) /\ d = MemoryDoc(o, v)
  BY <1>1 DEF OwnDocs
<1>3. SharesWith(r) = {RoomSeq[o] : o \in {k \in RoomNos : Related(room_arm, i, k)}}
  BY RoomsSharing
<1> HIDE DEF r
<1>4. d \in SharedDocs(r) <=>
         \E o \in RoomNos : /\ Related(room_arm, i, o)
                            /\ \E v \in Active(views[RoomSeq[o].id]) :
                                  CrossScope(v) /\ d = MemoryDoc(RoomSeq[o], v)
  BY <1>2, <1>3
<1> QED
  BY <1>4 DEF r

\* What a session may have, room number by room number.
LEMMA MayHaveIs ==
  ASSUME room_arm \in Arms, NEW i \in RoomNos, NEW new \in BOOLEAN, NEW d
  PROVE  MayHave(RoomSeq[i], new, d) <=>
            \/ d \in ActivityDocs(RoomSeq[i]) /\ ~new
            \/ d \in ProjectDocs(RoomSeq[i]) /\ room_arm.name = "raw_project"
            \/ d \in OwnDocs(RoomSeq[i], Active(views[RoomSeq[i].id])) /\ ~new
            \/ d \in SharedDocs(RoomSeq[i])
<1> DEFINE r == RoomSeq[i]
           Mine(o) == \E v \in Active(views[o.id]) :
                         /\ d = MemoryDoc(o, v)
                         /\ (o = r /\ ~new) \/ (CrossScope(v) /\ (o = r \/ Pooled))
<1>1. MayHave(r, new, d) <=>
         \/ d \in ActivityDocs(r) /\ ~new
         \/ d \in ProjectDocs(r) /\ room_arm.name = "raw_project"
         \/ \E o \in RoomsOf(r.project) : Mine(o)
  BY DEF MayHave
<1>2. r \in RoomsOf(r.project) /\ SharesWith(r) \subseteq RoomsOf(r.project)
  BY DEF RoomsOf, SharesWith
<1>3. d \in SharedDocs(r) <=>
         \E o \in SharesWith(r) : \E v \in Active(views[o.id]) : CrossScope(v) /\ d = MemoryDoc(o, v)
  BY DEF SharedDocs, SharesWith, OwnDocs
<1>4. d \in OwnDocs(r, Active(views[r.id])) <=> \E v \in Active(views[r.id]) : d = MemoryDoc(r, v)
  BY DEF OwnDocs
<1> HIDE DEF r
<1>5. ASSUME NEW o \in RoomsOf(r.project), Mine(o)
      PROVE  (d \in OwnDocs(r, Active(views[r.id])) /\ ~new) \/ d \in SharedDocs(r)
  <2>1. PICK v \in Active(views[o.id]) :
           /\ d = MemoryDoc(o, v)
           /\ (o = r /\ ~new) \/ (CrossScope(v) /\ (o = r \/ Pooled))
    BY <1>5
  <2>2. CASE o = r /\ ~new
    BY <1>4, <2>1, <2>2
  <2>3. CASE CrossScope(v) /\ (o = r \/ Pooled)
    <3>1. o \in SharesWith(r)
      BY <2>3 DEF SharesWith
    <3> QED
      BY <1>3, <2>1, <2>3, <3>1
  <2> QED
    BY <2>1, <2>2, <2>3
<1>6. ASSUME d \in OwnDocs(r, Active(views[r.id])), ~new PROVE Mine(r)
  BY <1>4, <1>6
<1>7. ASSUME d \in SharedDocs(r) PROVE \E o \in RoomsOf(r.project) : Mine(o)
  <2>1. PICK o \in SharesWith(r) :
           \E v \in Active(views[o.id]) : CrossScope(v) /\ d = MemoryDoc(o, v)
    BY <1>3, <1>7
  <2>2. o \in RoomsOf(r.project) /\ (o = r \/ Pooled)
    BY <1>2, <2>1 DEF SharesWith
  <2>3. Mine(o)
    BY <2>1, <2>2
  <2> QED
    BY <2>2, <2>3
<1> HIDE DEF Mine
<1>8. (\E o \in RoomsOf(r.project) : Mine(o)) <=>
         (d \in OwnDocs(r, Active(views[r.id])) /\ ~new) \/ d \in SharedDocs(r)
  BY <1>2, <1>5, <1>6, <1>7
<1>9. MayHave(r, new, d) <=>
         \/ d \in ActivityDocs(r) /\ ~new
         \/ d \in ProjectDocs(r) /\ room_arm.name = "raw_project"
         \/ d \in OwnDocs(r, Active(views[r.id])) /\ ~new
         \/ d \in SharedDocs(r)
  BY <1>1, <1>8
<1> QED
  BY <1>9 DEF r

LEMMA NoMemories ==
  ASSUME RoomsInv, room_arm \in Arms, room_arm # NoRow, ~Curating, NEW i \in RoomNos
  PROVE  views[RoomSeq[i].id] = {} /\ SharedDocs(RoomSeq[i]) = {}
<1>1. \A k \in RoomNos : views[RoomSeq[k].id] = {}
  BY DEF RoomsInv, ViewsInv, ViewsFrom
<1>2. \A d : d \notin SharedDocs(RoomSeq[i])
  BY <1>1, SharedAre DEF Active
<1> QED
  BY <1>1, <1>2

\* Once a room is scored its sessions have what they may have, and no more.
LEMMA SessionsSee ==
  ASSUME RoomsInv, IdsApart, Doing("write_side"), NEW s \in opened, NEW i \in RoomNos,
         Now = RoomSeq[i], s.room = RoomSeq[i].id, NEW d
  PROVE  <<s, d>> \in attached <=> MayHave(RoomSeq[i], s.new, d)
<1> DEFINE r == RoomSeq[i]
           A == ActivityDocs(r)
           O == OwnDocs(r, Active(views[r.id]))
           W == OwnDocs(r, views[r.id])
<1>1. /\ room_outcome = "running" /\ room_arm \in Arms /\ room_arm # NoRow /\ OnPlan
      /\ ViewsInv /\ SessionsInv
  BY RunHasArm DEF Doing
<1>2. /\ Head(jobs)[2] \in RoomNos /\ Now = RoomSeq[Head(jobs)[2]]
      /\ \A step \in StepsOf(room_arm) : \A o \in RoomNos :
            Related(room_arm, Head(jobs)[2], o) => <<step, o>> \in PastJobs
  BY <1>1, NextJob DEF NextJobRight, ScoringSteps
<1>3. Head(jobs)[2] = i
  BY <1>2, RoomsAreValid
<1>4. \A step \in StepsOf(room_arm) : <<step, i>> \in PastJobs
  BY <1>2, <1>3 DEF Related
<1>5. PICK new \in BOOLEAN : s = SessionOf(r, new) /\ (new => HasNewRoomProbes(r))
  <2>1. PICK k \in RoomNos : \/ s = SessionOf(RoomSeq[k], FALSE)
                             \/ s = SessionOf(RoomSeq[k], TRUE) /\ HasNewRoomProbes(RoomSeq[k])
    BY <1>1 DEF SessionsInv
  <2>2. s.room = RoomSeq[k].id
    BY <2>1 DEF SessionOf
  <2>3. k = i
    BY <2>2, RoomsAreValid
  <2> QED
    BY <2>1, <2>3
<1>6. s.new = new
  BY <1>5 DEF SessionOf
<1>7. room_arm.name \in {"raw", "raw_project", "oracle", "curated"}
  BY <1>1 DEF SessionsInv, Arms, ArmNames
<1>8. <<s, d>> \in attached <=> d \in Given(PastJobs, i, new)
  BY <1>1, <1>5 DEF SessionsInv
<1>9. MayHave(r, new, d) <=>
         \/ d \in A /\ ~new
         \/ d \in ProjectDocs(r) /\ room_arm.name = "raw_project"
         \/ d \in O /\ ~new
         \/ d \in SharedDocs(r)
  BY <1>1, MayHaveIs
<1>10. ToShare(r) = IF room_arm.name = "raw_project" THEN ProjectDocs(r) ELSE SharedDocs(r)
  BY DEF ToShare
<1>11. ~Curating => SharedDocs(r) = {} /\ O = {} /\ W = {}
  <2>1. ASSUME ~Curating PROVE views[r.id] = {} /\ SharedDocs(r) = {}
    BY <1>1, <2>1, NoMemories
  <2> QED
    BY <2>1 DEF OwnDocs, Active
<1>12. /\ room_arm.name \in {"oracle", "curated"} <=> Curating
       /\ room_arm.name = "raw_project" \/ Curating => "share_new" \in StepsOf(room_arm)
       /\ "ingest" \in StepsOf(room_arm)
       /\ Curating => "deliver" \in StepsOf(room_arm)
       /\ room_arm.name = "raw_project" \/ Pooled => "share" \in StepsOf(room_arm)
  BY <1>7 DEF Curating, StepsOf, Pooled
<1>13. CASE new
  <2>1. Given(PastJobs, i, new) =
           IF <<"share_new", i>> \in PastJobs THEN ToShare(r) ELSE {}
    BY <1>5, <1>13 DEF Given, GivenNew
  <2>2. CASE room_arm.name = "raw"
    BY <1>7, <1>8, <1>9, <1>10, <1>11, <1>12, <1>13, <2>1, <2>2, <1>6
  <2>3. CASE room_arm.name # "raw"
    <3>1. <<"share_new", i>> \in PastJobs
      BY <1>4, <1>7, <1>12, <2>3
    <3>2. room_arm.name = "raw_project" => SharedDocs(r) = {}
      BY <1>11, <1>12
    <3> QED
      BY <1>6, <1>8, <1>9, <1>10, <1>13, <2>1, <3>1, <3>2
  <2> QED
    BY <2>2, <2>3
<1>14. CASE ~new
  <2>1. Given(PastJobs, i, new) =
           (IF <<"ingest", i>> \in PastJobs THEN A ELSE {})
              \cup (IF <<"deliver", i>> \in PastJobs THEN O ELSE {})
              \cup (IF <<"share", i>> \in PastJobs THEN ToShare(r) \ (A \cup W) ELSE {})
    BY <1>14 DEF Given, GivenOwn
  <2>2. <<"ingest", i>> \in PastJobs
    BY <1>4, <1>12
  <2>3. CASE ~Curating
    <3>1. room_arm.name = "raw_project" => <<"share", i>> \in PastJobs
      BY <1>4, <1>12
    <3> HIDE DEF A, O, W, r
    <3> QED
      BY <1>6, <1>8, <1>9, <1>10, <1>11, <1>14, <2>1, <2>2, <2>3, <3>1 DEF r
  <2>4. CASE Curating
    <3>1. <<"deliver", i>> \in PastJobs /\ (Pooled => <<"share", i>> \in PastJobs)
      BY <1>4, <1>12, <2>4
    <3>2. ToShare(r) = SharedDocs(r) /\ room_arm.name # "raw_project"
      BY <1>10, <1>12, <2>4
    <3>3. ASSUME d \in SharedDocs(r), d \in W \/ ~Pooled PROVE d \in O
      <4>1. PICK o \in RoomNos : /\ Related(room_arm, i, o)
                                 /\ \E v \in Active(views[RoomSeq[o].id]) :
                                       CrossScope(v) /\ d = MemoryDoc(RoomSeq[o], v)
        BY <1>1, <3>3, SharedAre
      <4>2. PICK v \in Active(views[RoomSeq[o].id]) : d = MemoryDoc(RoomSeq[o], v)
        BY <4>1
      <4>3. CASE ~Pooled
        <5>1. o = i
          BY <1>1, <4>1, <4>3, PooledTogether DEF Related
        <5> QED
          BY <4>2, <5>1 DEF OwnDocs
      <4>4. CASE d \in W
        <5>1. PICK w \in views[r.id] : d = MemoryDoc(r, w)
          BY <4>4 DEF OwnDocs
        <5>2. w.id = v.id /\ w.room = v.room
          BY <4>2, <5>1 DEF MemoryDoc
        <5>3. v \in views[RoomSeq[o].id]
          BY <4>2 DEF Active
        <5>4. o = i
          BY <1>1, <4>1, <5>1, <5>2, <5>3, MemoriesApart
        <5> QED
          BY <4>2, <5>4 DEF OwnDocs
      <4> QED
        BY <3>3, <4>3, <4>4
    <3> HIDE DEF A, O, W, r
    <3>4. d \in Given(PastJobs, i, new) <=> d \in A \/ d \in O \/ d \in SharedDocs(r)
      BY <2>1, <2>2, <3>1, <3>2, <3>3
    <3> QED
      BY <1>6, <1>8, <1>9, <1>14, <3>2, <3>4 DEF r
  <2> QED
    BY <2>3, <2>4
<1> QED
  BY <1>13, <1>14

\* The parts of a probe's row.
AnswersOf(r, p) == {g \in r.golds : g.id \in p.answers}
SourcesOf(r, p) == UNION {g.sources : g \in AnswersOf(r, p)}
WantedBy(r, p, matches) == IdsOfViews(UNION {MatchedTo(matches, g) : g \in AnswersOf(r, p)})
MessagesIn(r, evidence) == UNION {MessageOf(r, item) : item \in evidence}
MemoriesIn(evidence) == UNION {MemoryOf(item) : item \in evidence}

\* What a row says of the evidence, whatever that is.
LEMMA RowSays ==
  ASSUME NEW r, NEW p, NEW matches, NEW evidence, NEW row, row = RowOf(r, p, matches, evidence)
  PROVE  /\ row.room = r.id /\ row.new = p.new /\ row.wanted = WantedBy(r, p, matches)
         /\ row.source_hit <=> SourcesOf(r, p) \cap MessagesIn(r, evidence) # {}
         /\ RawLike => row.hit = row.source_hit
         /\ ~RawLike => (row.hit <=> WantedBy(r, p, matches) \cap MemoriesIn(evidence) # {})
         /\ row.correct <=> row.hit \/ row.source_hit
         /\ row.stale => \E g \in r.golds : /\ g.superseded_by # 0
                                            /\ g.sources \cap MessagesIn(r, evidence) # {}
                                            /\ \E h \in SuccessorsOf(r.golds, g) :
                                                  h.sources \cap MessagesIn(r, evidence) = {}
<1> DEFINE S == SourcesOf(r, p)
           W == WantedBy(r, p, matches)
           M == MessagesIn(r, evidence)
           X == MemoriesIn(evidence)
<1>1. /\ row.room = r.id /\ row.new = p.new /\ row.wanted = W
      /\ row.source_hit = (S \cap M # {})
      /\ row.hit = IF RawLike THEN S \cap M # {} ELSE W \cap X # {}
      /\ row.correct = \E item \in evidence : \/ MessageOf(r, item) \cap S # {}
                                              \/ ~RawLike /\ MemoryOf(item) \cap W # {}
  BY DEF RowOf, SourcesOf, AnswersOf, WantedBy, MessagesIn, MemoriesIn
<1>2. row.stale = \E g \in Superseded(r.golds) :
         /\ g.topic \in {h.topic : h \in AnswersOf(r, p)} /\ g.sources \cap M # {}
         /\ \E h \in SuccessorsOf(r.golds, g) :
               ~(\/ h.sources \cap M # {}
                 \/ ~RawLike /\ IdsOfViews(MatchedTo(matches, h)) \cap X # {})
  BY DEF RowOf, AnswersOf, MessagesIn, MemoriesIn
<1>3. M = UNION {MessageOf(r, item) : item \in evidence} /\ X = UNION {MemoryOf(item) : item \in evidence}
  BY DEF MessagesIn, MemoriesIn
<1> HIDE DEF S, W, M, X
<1>4. (\E item \in evidence : MessageOf(r, item) \cap S # {}) <=> S \cap M # {}
  BY <1>3
<1>5. (\E item \in evidence : MemoryOf(item) \cap W # {}) <=> W \cap X # {}
  BY <1>3
<1>6. row.correct <=> row.hit \/ row.source_hit
  BY <1>1, <1>4, <1>5
<1>7. row.stale => \E g \in r.golds : /\ g.superseded_by # 0 /\ g.sources \cap M # {}
                                      /\ \E h \in SuccessorsOf(r.golds, g) : h.sources \cap M = {}
  BY <1>2 DEF Superseded
<1> QED
  BY <1>1, <1>6, <1>7 DEF S, W, M, X

\* A document of a session of a curated arm that is no message of it is an
\* active memory: of the room's own, or one that is shared with it.
LEMMA GivenMemories ==
  ASSUME RoomsInv, room_outcome = "running", Curating, NEW i \in RoomNos, NEW new \in BOOLEAN,
         NEW d, <<SessionOf(RoomSeq[i], new), d>> \in attached
  PROVE  \/ ~new /\ d.layer = "activity"
         \/ /\ d.layer = "memory"
            /\ \E o \in RoomNos : /\ Related(room_arm, i, o)
                                  /\ \E v \in Active(views[RoomSeq[o].id]) :
                                        /\ d = MemoryDoc(RoomSeq[o], v)
                                        /\ new => CrossScope(v)
<1> DEFINE r == RoomSeq[i]
           FromMemory == \E o \in RoomNos : /\ Related(room_arm, i, o)
                                            /\ \E v \in Active(views[RoomSeq[o].id]) :
                                                  /\ d = MemoryDoc(RoomSeq[o], v)
                                                  /\ new => CrossScope(v)
<1>1. room_arm \in Arms /\ room_arm # NoRow /\ SessionsInv
  BY RunHasArm
<1>2. d \in Given(PastJobs, i, new)
  BY <1>1 DEF SessionsInv
<1>3. ToShare(r) = SharedDocs(r)
  BY DEF ToShare, Curating
<1>4. ASSUME d \in SharedDocs(r) PROVE FromMemory
  BY <1>1, <1>4, SharedAre
<1>5. ASSUME ~new, d \in OwnDocs(r, Active(views[r.id])) PROVE FromMemory
  <2>1. Related(room_arm, i, i)
    BY DEF Related
  <2>2. PICK v \in Active(views[r.id]) : d = MemoryDoc(r, v)
    BY <1>5 DEF OwnDocs
  <2> QED
    BY <1>5, <2>1, <2>2
<1>6. FromMemory => d.layer = "memory"
  BY DEF MemoryDoc
<1>7. ASSUME d \in ActivityDocs(r) PROVE d.layer = "activity"
  BY <1>7 DEF ActivityDocs, ActivityDoc
<1> HIDE DEF FromMemory, r
<1>8. CASE new
  <2>1. d \in SharedDocs(r)
    BY <1>2, <1>3, <1>8 DEF Given, GivenNew, r
  <2> QED
    BY <1>4, <1>6, <2>1 DEF FromMemory
<1>9. CASE ~new
  <2>1. d \in ActivityDocs(r) \/ d \in OwnDocs(r, Active(views[r.id])) \/ d \in ToShare(r)
    BY <1>2, <1>9 DEF Given, GivenOwn, r
  <2>2. d.layer = "activity" \/ (d.layer = "memory" /\ FromMemory)
    BY <1>3, <1>4, <1>5, <1>6, <1>7, <1>9, <2>1
  <2> QED
    BY <1>9, <2>2 DEF FromMemory
<1> QED
  BY <1>8, <1>9

\* The row of a probe of a curated arm.
LEMMA CuratedRow ==
  ASSUME RoomsInv, IdsApart, room_outcome = "running", Curating, NEW i \in RoomNos,
         NEW p, p.new \in BOOLEAN, NEW evidence \in Evidence(RoomSeq[i], p.new),
         NEW matches, matches = Matches(views[RoomSeq[i].id], RoomSeq[i].golds),
         NEW row, row = RowOf(RoomSeq[i], p, matches, evidence)
  PROVE  /\ row.new => ~row.source_hit /\ ~row.stale
         /\ row.hit => \E v \in Active(views[RoomSeq[i].id]) :
                          <<v.room, v.id>> \in row.wanted /\ (row.new => CrossScope(v))
<1> DEFINE r == RoomSeq[i]
<1>1. room_arm \in Arms /\ room_arm # NoRow /\ ViewsInv /\ room_arm.name # "full_context"
  BY RunHasArm DEF Curating
<1>2. evidence \subseteq Attached(SessionOf(r, p.new))
                             \cup (IF p.new THEN {} ELSE MessageItems(r))
  BY <1>1 DEF Evidence
<1>3. ASSUME NEW item \in evidence, p.new \/ item.layer = "memory"
      PROVE  /\ item.layer = "memory"
             /\ \E o \in RoomNos : /\ Related(room_arm, i, o)
                                   /\ \E v \in Active(views[RoomSeq[o].id]) :
                                         /\ item = MemoryDoc(RoomSeq[o], v)
                                         /\ p.new => CrossScope(v)
  <2>1. item \notin MessageItems(r) \/ p.new
    BY <1>3 DEF MessageItems
  <2>2. <<SessionOf(r, p.new), item>> \in attached
    BY <1>2, <2>1 DEF Attached
  <2>3. "activity" # "memory"
    OBVIOUS
  <2>4. \/ ~p.new /\ item.layer = "activity"
        \/ /\ item.layer = "memory"
           /\ \E o \in RoomNos : /\ Related(room_arm, i, o)
                                 /\ \E v \in Active(views[RoomSeq[o].id]) :
                                       /\ item = MemoryDoc(RoomSeq[o], v)
                                       /\ p.new => CrossScope(v)
    BY <2>2, GivenMemories, SMTT(60)
  <2> QED
    BY <1>3, <2>3, <2>4
<1>4. ASSUME p.new PROVE MessagesIn(r, evidence) = {}
  <2>1. \A item \in evidence : MessageOf(r, item) = {}
    BY <1>3, <1>4 DEF MessageOf
  <2> QED
    BY <2>1 DEF MessagesIn
<1>5. /\ row.new = p.new /\ row.wanted = WantedBy(r, p, matches)
      /\ row.source_hit <=> SourcesOf(r, p) \cap MessagesIn(r, evidence) # {}
      /\ row.hit <=> WantedBy(r, p, matches) \cap MemoriesIn(evidence) # {}
      /\ row.stale => \E g \in r.golds : g.sources \cap MessagesIn(r, evidence) # {}
  BY RowSays DEF RawLike
<1>6. ASSUME row.hit
      PROVE  \E v \in Active(views[r.id]) :
                <<v.room, v.id>> \in row.wanted /\ (row.new => CrossScope(v))
  <2>1. PICK x : x \in WantedBy(r, p, matches) /\ x \in MemoriesIn(evidence)
    BY <1>5, <1>6
  <2>2. PICK item \in evidence : x \in MemoryOf(item)
    BY <2>1 DEF MemoriesIn
  <2>3. item.layer = "memory" /\ x = <<item.room, item.id>>
    BY <2>2 DEF MemoryOf
  <2>4. PICK g : \E w \in MatchedTo(matches, g) : x = <<w.room, w.id>>
    BY <2>1 DEF WantedBy, IdsOfViews
  <2>5. PICK w \in MatchedTo(matches, g) : x = <<w.room, w.id>>
    BY <2>4
  <2>6. w \in views[r.id]
    <3>1. PICK q \in matches : w = q[1]
      BY <2>5 DEF MatchedTo
    <3>2. MemoriesListed(views[r.id]) /\ MemoriesListed(r.golds)
      BY <1>1, RoomsAreValid DEF ViewsInv, ViewsListed
    <3>3. q[1] \in views[r.id]
      BY <3>1, <3>2, MatchEnds
    <3> QED
      BY <3>1, <3>3
  <2>7. PICK o \in RoomNos : /\ Related(room_arm, i, o)
                             /\ \E v \in Active(views[RoomSeq[o].id]) :
                                   /\ item = MemoryDoc(RoomSeq[o], v)
                                   /\ p.new => CrossScope(v)
    BY <1>3, <2>3
  <2>8. PICK v \in Active(views[RoomSeq[o].id]) :
           item = MemoryDoc(RoomSeq[o], v) /\ (p.new => CrossScope(v))
    BY <2>7
  <2>9. v.room = w.room /\ v.id = w.id /\ v \in views[RoomSeq[o].id]
    <3>1. item.room = v.room /\ item.id = v.id
      BY <2>8 DEF MemoryDoc
    <3> QED
      BY <2>3, <2>5, <2>8, <3>1 DEF Active
  <2>10. i = o /\ w = v
    BY <1>1, <2>6, <2>7, <2>9, MemoriesApart
  <2> QED
    BY <1>5, <2>1, <2>5, <2>8, <2>9, <2>10
<1> QED
  BY <1>4, <1>5, <1>6

\* And of the arm that hands over everything.
LEMMA FullRow ==
  ASSUME room_arm.name = "full_context", NEW i \in RoomNos, NEW p \in ToSet(RoomSeq[i].probes),
         NEW evidence \in Evidence(RoomSeq[i], p.new), NEW matches,
         NEW row, row = RowOf(RoomSeq[i], p, matches, evidence)
  PROVE  row.source_hit /\ ~row.stale
<1> DEFINE r == RoomSeq[i]
           M == MessagesIn(r, evidence)
<1>1. GoldsValid(r) /\ ProbesValid(r)
  BY RoomsAreValid
<1>2. evidence = ProjectDocs(r)
  BY DEF Evidence
<1>3. ASSUME NEW m \in r.messages PROVE m \in M
  <2>1. ActivityDoc(r, m) \in ProjectDocs(r)
    BY DEF ProjectDocs, RoomsOf, ActivityDocs
  <2>2. MessageOf(r, ActivityDoc(r, m)) = {m}
    BY DEF MessageOf, ActivityDoc
  <2> QED
    BY <1>2, <2>1, <2>2 DEF MessagesIn
<1>4. \A g \in r.golds : g.sources \cap M # {}
  BY <1>1, <1>3 DEF GoldsValid
<1>5. PICK g \in r.golds : g.id \in p.answers
  <2>1. p.answers # {} /\ \A a \in p.answers : \E g \in r.golds : g.id = a
    BY <1>1 DEF ProbesValid
  <2> QED
    BY <2>1
<1>6. SourcesOf(r, p) \cap M # {}
  <2>1. g.sources \subseteq SourcesOf(r, p)
    BY <1>5 DEF SourcesOf, AnswersOf
  <2> QED
    BY <1>4, <2>1
<1>7. \A f \in r.golds : \A h \in SuccessorsOf(r.golds, f) : h.sources \cap M # {}
  BY <1>4 DEF SuccessorsOf
<1>8. /\ row.source_hit <=> SourcesOf(r, p) \cap M # {}
      /\ row.stale => \E f \in r.golds :
                         \E h \in SuccessorsOf(r.golds, f) : h.sources \cap M = {}
  BY RowSays
<1> QED
  BY <1>6, <1>7, <1>8

\* The jobs done are jobs.
LEMMA PastAreJobs ==
  ASSUME room_arm \in Arms, OnPlan
  PROVE  PastJobs \subseteq JobsFor(room_arm) /\ \A x \in PastJobs : x[2] \in RoomNos
<1>1. PlanOf(room_arm) \in Seq(JobsFor(room_arm))
  BY PlanOfRight DEF PlanRight
<1>2. ASSUME NEW x \in PastJobs PROVE x \in JobsFor(room_arm)
  <2> DEFINE P == PlanOf(room_arm)
  <2>1. PICK k \in 1..DoneJobs : x = P[k]
    BY DEF PastJobs
  <2>2. DoneJobs = Len(P) - Len(jobs) /\ DoneJobs \in Nat /\ Len(jobs) \in Nat
    BY DEF OnPlan, DoneJobs
  <2> HIDE DEF P
  <2>3. k \in 1..Len(P)
    BY <1>1, <2>1, <2>2 DEF P
  <2> QED
    BY <1>1, <2>1, <2>3 DEF P
<1>3. \A x \in JobsFor(room_arm) : x[2] \in RoomNos
  BY JobParts DEF JobsFor
<1> QED
  BY <1>2, <1>3

\* A step that asks nothing, and curates no room that was asked.
LEMMA RowKept ==
  ASSUME RoomsInv, RowInv, room_row' = room_row, room_arm' = room_arm, PastJobs \subseteq PastJobs',
         room_row # NoRow => views'[room_row.room] = views[room_row.room]
  PROVE  RowInv'
<1>1. CASE room_row = NoRow
  BY <1>1 DEF RowInv
<1>2. CASE room_row # NoRow
  <2>1. RowRight'
    BY <1>2 DEF RowInv, RowRight, RawLike, Curating
  <2>2. \E x \in PastJobs' : x[1] = "probe" /\ RoomSeq[x[2]].id = room_row.room
    BY <1>2 DEF RowInv
  <2> QED
    BY <1>2, <2>1, <2>2 DEF RowInv
<1> QED
  BY <1>1, <1>2

LEMMA JobRowKept ==
  ASSUME RoomsInv, RowInv, NEW step, Doing(step), Done, room_row' = room_row,
         room_arm' = room_arm, views' = views
  PROVE  RowInv'
<1>1. room_arm \in Arms /\ OnPlan
  BY RunHasArm DEF Doing
<1>2. PastJobs \subseteq PastJobs'
  BY <1>1, JobDone
<1> QED
  BY <1>2, RowKept

LEMMA CurateRowKept ==
  ASSUME RoomsInv, RowInv, NEW output, CurateRoom(output)
  PROVE  RowInv'
<1> DEFINE j == Head(jobs)
<1>1. Doing("curate") /\ Done /\ room_arm' = room_arm /\ room_row' = room_row
  BY DEF CurateRoom
<1>2. room_arm \in Arms /\ OnPlan /\ ViewsInv
  BY <1>1, RunHasArm DEF Doing
<1>3. /\ PastJobs' = PastJobs \cup {j} /\ NextJobRight("curate", j) /\ Now = RoomSeq[j[2]]
  BY <1>1, <1>2, JobDone, NextJob
<1>4. \/ views' = views
      \/ \E m : views' = [views EXCEPT ![RoomSeq[j[2]].id] = m]
  BY <1>3 DEF CurateRoom
<1>5. ASSUME room_row # NoRow PROVE views'[room_row.room] = views[room_row.room]
  <2>1. PICK x \in PastJobs : x[1] = "probe" /\ RoomSeq[x[2]].id = room_row.room
    BY <1>5 DEF RowInv
  <2>2. x[2] \in RoomNos /\ j[2] \in RoomNos /\ j[1] = "curate" /\ ~TooEarly(room_arm, x, j)
    BY <1>2, <1>3, <2>1, PastAreJobs DEF NextJobRight
  <2>3. ~Related(room_arm, x[2], j[2])
    BY <2>1, <2>2 DEF TooEarly, ScoringSteps
  <2>4. x[2] # j[2]
    BY <2>3 DEF Related
  <2>5. RoomSeq[j[2]].id # room_row.room
    BY <2>1, <2>2, <2>4, RoomsAreValid
  <2>6. room_row.room \in DOMAIN views
    BY <1>2, <2>1, <2>2 DEF ViewsInv
  <2> HIDE DEF j
  <2> QED
    BY <1>4, <2>5, <2>6
<1> QED
  BY <1>1, <1>3, <1>5, RowKept

LEMMA AskedRow ==
  ASSUME RoomsInv, IdsApart, AskProbe
  PROVE  RowInv'
<1> DEFINE j == Head(jobs)
           i == j[2]
           r == RoomSeq[i]
           p == r.probes[j[3]]
           matches == Matches(views[r.id], r.golds)
<1>1. /\ Doing("probe") /\ Done /\ room_arm' = room_arm /\ views' = views
  BY DEF AskProbe
<1>2. room_outcome = "running" /\ room_arm \in Arms /\ room_arm # NoRow /\ OnPlan
  BY <1>1, RunHasArm DEF Doing
<1>3. /\ PastJobs' = PastJobs \cup {j} /\ NextJobRight("probe", j) /\ Now = r
  BY <1>1, <1>2, JobDone, NextJob
<1>4. i \in RoomNos /\ j[3] \in DOMAIN r.probes /\ j[1] = "probe"
  BY <1>3 DEF NextJobRight
<1>5. PICK evidence \in Evidence(r, p.new) : room_row' = RowOf(r, p, matches, evidence)
  BY <1>3 DEF AskProbe
<1>6. p \in ToSet(r.probes)
  BY <1>4 DEF ToSet
<1>7. p.new \in BOOLEAN
  BY <1>4, <1>6, RoomsAreValid DEF ProbesValid
<1> HIDE DEF j, i, p, matches
<1>8. /\ room_row'.room = r.id
      /\ room_row'.correct <=> (room_row'.hit \/ room_row'.source_hit)
      /\ RawLike => room_row'.hit = room_row'.source_hit
  <2>1. PICK row : row = room_row'
    OBVIOUS
  <2>2. row = RowOf(r, p, matches, evidence)
    BY <1>5, <2>1
  <2> HIDE DEF r
  <2>3. /\ row.room = r.id /\ (row.correct <=> (row.hit \/ row.source_hit))
        /\ RawLike => row.hit = row.source_hit
    BY <2>2, RowSays
  <2> QED
    BY <2>1, <2>3
<1>9. ASSUME Curating
      PROVE  /\ room_row'.new => ~room_row'.source_hit /\ ~room_row'.stale
             /\ room_row'.hit => \E v \in Active(views[r.id]) :
                   <<v.room, v.id>> \in room_row'.wanted /\ (room_row'.new => CrossScope(v))
  <2>1. PICK k : k = i
    OBVIOUS
  <2>2. PICK q : q = p
    OBVIOUS
  <2>3. PICK m : m = matches
    OBVIOUS
  <2>4. PICK row : row = room_row'
    OBVIOUS
  <2>5. k \in RoomNos /\ r = RoomSeq[k]
    BY <1>4, <2>1
  <2> HIDE DEF r
  <2>6. q.new \in BOOLEAN /\ evidence \in Evidence(RoomSeq[k], q.new)
    BY <1>5, <1>7, <2>2, <2>5
  <2>7. m = Matches(views[RoomSeq[k].id], RoomSeq[k].golds)
    BY <2>3, <2>5 DEF matches
  <2>8. row = RowOf(RoomSeq[k], q, m, evidence)
    BY <1>5, <2>2, <2>3, <2>4, <2>5
  <2>9. /\ row.new => ~row.source_hit /\ ~row.stale
        /\ row.hit => \E v \in Active(views[RoomSeq[k].id]) :
                         <<v.room, v.id>> \in row.wanted /\ (row.new => CrossScope(v))
    BY <1>2, <1>9, <2>5, <2>6, <2>7, <2>8, CuratedRow
  <2> QED
    BY <2>4, <2>5, <2>9
<1>10. ASSUME room_arm.name = "full_context" PROVE room_row'.source_hit /\ ~room_row'.stale
  <2>1. PICK row : row = room_row'
    OBVIOUS
  <2>2. row = RowOf(r, p, matches, evidence)
    BY <1>5, <2>1
  <2>3. row.source_hit /\ ~row.stale
    BY <1>4, <1>5, <1>6, <1>10, <2>2, FullRow
  <2> QED
    BY <2>1, <2>3
<1>11. (RawLike' <=> RawLike) /\ (Curating' <=> Curating)
  BY <1>1 DEF RawLike, Curating
<1>12. RowRight'
  BY <1>1, <1>8, <1>9, <1>10, <1>11 DEF RowRight
<1>13. \E x \in PastJobs' : x[1] = "probe" /\ RoomSeq[x[2]].id = room_row'.room
  BY <1>3, <1>4, <1>8 DEF i
<1> QED
  BY <1>1, <1>2, <1>12, <1>13 DEF RowInv

LEMMA RowInvKept == IdsApart /\ RoomsInv /\ RowInv /\ [RoomsStep]_roomVars => RowInv'
<1> SUFFICES ASSUME IdsApart, RoomsInv, RowInv, [RoomsStep]_roomVars PROVE RowInv'
  OBVIOUS
<1>1. ASSUME NEW arm, StartRooms(arm) PROVE RowInv'
  BY <1>1 DEF StartRooms, RoomsInv, RowInv
<1>2. ASSUME NEW output, CurateRoom(output) PROVE RowInv'
  BY <1>2, CurateRowKept
<1>3. ASSUME NEW judged, ScoreRoom(judged) PROVE RowInv'
  BY <1>3, JobRowKept DEF ScoreRoom
<1>4. CASE IngestRoom
  BY <1>4, JobRowKept DEF IngestRoom
<1>5. CASE DeliverMemories
  BY <1>5, JobRowKept DEF DeliverMemories
<1>6. CASE OpenNewRoom
  BY <1>6, JobRowKept DEF OpenNewRoom
<1>7. CASE ShareWithRoom
  BY <1>7, JobRowKept DEF ShareWithRoom
<1>8. CASE ShareWithNewRoom
  BY <1>8, JobRowKept DEF ShareWithNewRoom
<1>9. CASE AskProbe
  BY <1>9, AskedRow
<1>10. CASE EndRooms \/ UNCHANGED roomVars
  <2>1. room_arm' = room_arm /\ jobs' = jobs /\ views' = views /\ room_row' = room_row
    BY <1>10 DEF EndRooms, roomVars
  <2>2. PastJobs' = PastJobs
    BY <2>1 DEF PastJobs, DoneJobs
  <2> QED
    BY <2>1, <2>2, RowKept
<1> QED
  BY <1>1, <1>2, <1>3, <1>4, <1>5, <1>6, <1>7, <1>8, <1>9, <1>10 DEF RoomsStep

LEMMA SeesSound == IdsApart /\ RoomsInv /\ RowInv => RoomsSeeWhatTheyMay
<1> SUFFICES ASSUME IdsApart, RoomsInv, RowInv PROVE RoomsSeeWhatTheyMay
  OBVIOUS
<1>1. ASSUME NEW r \in ToSet(RoomSeq), NEW s \in opened, s.room = r.id, Doing("write_side"), Now = r,
             NEW d \in DOMAIN stored
      PROVE  <<s, d>> \in attached <=> MayHave(r, s.new, d)
  <2>1. PICK i \in RoomNos : r = RoomSeq[i]
    BY DEF ToSet, RoomNos
  <2> QED
    BY <1>1, <2>1, SessionsSee
<1>2. room_row # NoRow => RowRight
  BY DEF RowInv
<1> QED
  BY <1>1, <1>2 DEF RoomsSeeWhatTheyMay, RowRight

\* The write side of RoomMem is sound: for any rooms, curations, words and
\* arms, the matching is stable, the counts bound each other room by room and
\* pooled, a missed conflict lies beside a stale memory, and the oracle arm is
\* the upper bound (score_write_side, pool_write_side, conflict_flag_stats,
\* oracle_curated_memories).
THEOREM WriteSidesSound == RoomsSpec => []WriteSideSound
<1>1. RoomsInit => RoomsInv
  BY RoomsInvInit
<1>2. RoomsInv /\ [RoomsStep]_roomVars => RoomsInv'
  BY RoomsInvKept
<1>3. RoomsInv => WriteSideSound
  BY RoomsInvSound
<1> QED
  BY <1>1, <1>2, <1>3, PTL DEF RoomsSpec

\* What a session sees is what it may see, and what a probe's row says of it is
\* right: for any rooms and arms, and for any curations that give no two rooms
\* of a project a memory of the same id, as new_id makes them
\* (_build_shared_memory_project, _build_raw_project_context, _run_room_arm,
\* _score_probe).
THEOREM SessionsSeeWhatTheyMay ==
  ASSUME IdsApart
  PROVE  RoomsSpec => []RoomsSeeWhatTheyMay
<1>1. RoomsInit => RoomsInv /\ RowInv
  BY RoomsInvInit DEF RoomsInit, RowInv
<1>2. RoomsInv /\ RowInv /\ [RoomsStep]_roomVars => (RoomsInv /\ RowInv)'
  BY RoomsInvKept, RowInvKept
<1>3. RoomsInv /\ RowInv => RoomsSeeWhatTheyMay
  BY SeesSound
<1> QED
  BY <1>1, <1>2, <1>3, PTL DEF RoomsSpec

-------------------------------------------------------------------------------
(***************************************************************************)
(* ModuleArm: the order of the file, and the contracts it begins with.      *)
(***************************************************************************)

\* Memories as the file sorts them.
FileMemories(M) == MemoriesValid(M) /\ \A v \in M : v.version \in Nat

\* The sort key of the file orders memories linearly.
LEMMA FileOrdered ==
  ASSUME NEW M, FileMemories(M), NEW R, R = {vw \in M \X M : AheadInFile(vw[1], vw[2])}
  PROVE  IsLinearOrder(R, M)
<1> DEFINE l == [v \in M |-> IF IsLesson(v) THEN 0 ELSE 1]
           o == [v \in M |-> IF IsLesson(v) THEN v.occurrences ELSE 0]
           n == [v \in M |-> v.version]
           i == [v \in M |-> v.id]
           Before(v, w) == \/ l[v] < l[w]
                           \/ /\ l[v] = l[w]
                              /\ \/ o[v] > o[w]
                                 \/ /\ o[v] = o[w]
                                    /\ n[v] > n[w] \/ (n[v] = n[w] /\ i[v] < i[w])
<1>1. \A v \in M : l[v] \in {0, 1} /\ o[v] \in Nat /\ n[v] \in Nat /\ i[v] \in Nat
  BY DEF FileMemories, MemoriesValid
<1>2. \A v, w \in M : i[v] = i[w] => v = w
  BY DEF FileMemories, MemoriesValid
<1>3. \A v, w \in M : AheadInFile(v, w) <=> Before(v, w)
  <2>1. ASSUME NEW v \in M, NEW w \in M PROVE AheadInFile(v, w) <=> Before(v, w)
    <3>1. v.occurrences \in Nat /\ w.occurrences \in Nat
      BY DEF FileMemories, MemoriesValid
    <3>2. /\ l[v] = (IF IsLesson(v) THEN 0 ELSE 1) /\ l[w] = (IF IsLesson(w) THEN 0 ELSE 1)
          /\ o[v] = (IF IsLesson(v) THEN v.occurrences ELSE 0)
          /\ o[w] = (IF IsLesson(w) THEN w.occurrences ELSE 0)
          /\ n[v] = v.version /\ n[w] = w.version /\ i[v] = v.id /\ i[w] = w.id
      OBVIOUS
    <3> HIDE DEF l, o, n, i
    <3>3. IsLesson(v) \in BOOLEAN /\ IsLesson(w) \in BOOLEAN
      BY DEF IsLesson
    <3>4. CASE IsLesson(v) /\ IsLesson(w)
      <4>1. l[v] = 0 /\ l[w] = 0 /\ o[v] = v.occurrences /\ o[w] = w.occurrences
        BY <3>2, <3>4
      <4> QED
        BY <3>1, <3>2, <3>4, <4>1 DEF AheadInFile
    <3>5. CASE IsLesson(v) /\ ~IsLesson(w)
      <4>1. l[v] = 0 /\ l[w] = 1
        BY <3>2, <3>5
      <4>2. Before(v, w)
        BY <4>1
      <4>3. AheadInFile(v, w)
        BY <3>5 DEF AheadInFile
      <4> QED
        BY <4>2, <4>3
    <3>6. CASE ~IsLesson(v) /\ IsLesson(w)
      <4>1. l[v] = 1 /\ l[w] = 0
        BY <3>2, <3>6
      <4>2. ~Before(v, w)
        BY <4>1
      <4>3. ~AheadInFile(v, w)
        BY <3>3, <3>6 DEF AheadInFile
      <4> QED
        BY <4>2, <4>3
    <3>7. CASE ~IsLesson(v) /\ ~IsLesson(w)
      <4>1. l[v] = 1 /\ l[w] = 1 /\ o[v] = 0 /\ o[w] = 0
        BY <3>2, <3>7
      <4>2. IsLesson(v) = IsLesson(w)
        BY <3>3, <3>7
      <4> QED
        BY <3>2, <3>7, <4>1, <4>2 DEF AheadInFile
    <3> QED
      BY <3>4, <3>5, <3>6, <3>7
  <2> QED
    BY <2>1
<1>4. \A v, w \in M : <<v, w>> \in R <=> Before(v, w)
  <2>1. \A v, w \in M : <<v, w>> \in R <=> AheadInFile(v, w)
    OBVIOUS
  <2> QED
    BY <1>3, <2>1, Zenon
<1>5. R \subseteq M \X M
  OBVIOUS
<1> HIDE DEF l, o, n, i
<1>6. ASSUME NEW v \in M PROVE <<v, v>> \notin R
  BY <1>1, <1>4
<1>7. ASSUME NEW u \in M, NEW v \in M, NEW w \in M, <<u, v>> \in R, <<v, w>> \in R
      PROVE  <<u, w>> \in R
  <2>1. /\ l[u] \in {0, 1} /\ o[u] \in Nat /\ n[u] \in Nat /\ i[u] \in Nat
        /\ l[v] \in {0, 1} /\ o[v] \in Nat /\ n[v] \in Nat /\ i[v] \in Nat
        /\ l[w] \in {0, 1} /\ o[w] \in Nat /\ n[w] \in Nat /\ i[w] \in Nat
    BY <1>1
  <2>2. Before(u, v) /\ Before(v, w)
    BY <1>4, <1>7
  <2>3. Before(u, w)
    BY <2>1, <2>2
  <2> QED
    BY <1>4, <2>3
<1>8. ASSUME NEW v \in M, NEW w \in M
      PROVE  v = w \/ <<v, w>> \in R \/ <<w, v>> \in R
  <2>1. /\ l[v] \in {0, 1} /\ o[v] \in Nat /\ n[v] \in Nat /\ i[v] \in Nat
        /\ l[w] \in {0, 1} /\ o[w] \in Nat /\ n[w] \in Nat /\ i[w] \in Nat
    BY <1>1
  <2>2. Before(v, w) \/ Before(w, v) \/ i[v] = i[w]
    BY <2>1
  <2>3. <<v, w>> \in R \/ <<w, v>> \in R \/ i[v] = i[w]
    BY <1>4, <2>2
  <2> QED
    BY <1>2, <2>3
<1> QED
  BY <1>5, <1>6, <1>7, <1>8 DEF IsLinearOrder

\* Of any memories one comes ahead of all others, and none of them ahead of it.
LEMMA FirstInFile ==
  ASSUME NEW M, FileMemories(M), NEW T, T \subseteq M, T # {}
  PROVE  \E v \in T : \A w \in T \ {v} : AheadInFile(v, w)
<1>1. FileMemories(T)
  BY FS_Subset DEF FileMemories, MemoriesValid
<1> DEFINE R == {vw \in T \X T : AheadInFile(vw[1], vw[2])}
<1>2. IsLinearOrder(R, T)
  BY <1>1, FileOrdered
<1>3. IsFiniteSet(T)
  BY <1>1 DEF FileMemories, MemoriesValid
<1>4. \A v, w \in T : <<v, w>> \in R => AheadInFile(v, w)
  OBVIOUS
<1> HIDE DEF R
<1>5. PICK v \in T : \A w \in T : <<w, v>> \notin R
  BY <1>2, <1>3, MinimalElement DEF IsLinearOrder
<1> QED
  BY <1>2, <1>4, <1>5 DEF IsLinearOrder

\* Nothing is ahead of itself or of what is ahead of it.
LEMMA AheadOnce ==
  ASSUME NEW M, FileMemories(M), NEW v \in M, NEW w \in M, AheadInFile(v, w)
  PROVE  ~AheadInFile(w, v) /\ v # w
<1> DEFINE R == {vw \in M \X M : AheadInFile(vw[1], vw[2])}
<1>1. IsLinearOrder(R, M)
  BY FileOrdered
<1>2. (<<v, w>> \in R <=> AheadInFile(v, w)) /\ (<<w, v>> \in R <=> AheadInFile(w, v))
  OBVIOUS
<1> HIDE DEF R
<1> QED
  BY <1>1, <1>2 DEF IsLinearOrder

\* What _validate_module has seen to.
LEMMA ModulesAreValid ==
  ASSUME NEW mod \in Modules
  PROVE  /\ ModuleValid(mod) /\ MemoriesListed(mod.golds)
         /\ \A replay \in Replays[mod.id] :
               ReplayValid(mod, replay) /\ MemoriesListed(replay.memories)
<1>1. ModuleValid(mod) /\ \A replay \in Replays[mod.id] : ReplayValid(mod, replay)
  BY ModuleArmAssumption
<1>2. \A M : MemoriesValid(M) => MemoriesListed(M)
  BY DEF MemoriesValid, MemoriesListed
<1> QED
  BY <1>1, <1>2 DEF ModuleValid, ReplayValid

\* The gold as memories is sorted like what a replay left.
LEMMA FilesOrdered ==
  ASSUME NEW mod \in Modules, NEW arm \in ModuleArmNames, NEW replay \in Replays[mod.id]
  PROVE  /\ FileMemories(MemoriesFor(arm, mod, replay))
         /\ FileMemories(Active(MemoriesFor(arm, mod, replay)))
<1>1. /\ ModuleValid(mod) /\ ReplayValid(mod, replay)
  BY ModulesAreValid
<1>2. FileMemories(GoldMemories(mod))
  <2> DEFINE memory(g) ==
               [id |-> g.id, kind |-> g.kind, topic |-> g.topic, statement |-> g.statement,
                sources |-> g.sources, version |-> Max(g.sources), occurrences |-> g.occurrences,
                tokens |-> g.tokens,
                status |-> IF g.superseded_by # 0 THEN "superseded" ELSE "active"]
  <2>1. GoldMemories(mod) = {memory(g) : g \in mod.golds}
    BY DEF GoldMemories
  <2>2. IsFiniteSet(mod.golds)
    BY <1>1 DEF ModuleValid, MemoriesValid
  <2>3. IsFiniteSet({memory(g) : g \in mod.golds})
    <3> DEFINE T == {memory(g) : g \in mod.golds}
               f == [g \in mod.golds |-> memory(g)]
    <3> HIDE DEF memory
    <3>1. f \in Surjection(mod.golds, T)
      BY DEF Surjection
    <3> HIDE DEF f, T
    <3>2. IsFiniteSet(T)
      BY <2>2, <3>1, FS_Surjection
    <3> QED
      BY <3>2 DEF T
  <2>4. ASSUME NEW g \in mod.golds PROVE Max(g.sources) \in Nat
    <3>1. g.sources # {} /\ g.sources \subseteq DOMAIN mod.activities /\ IsFiniteSet(g.sources)
      BY <1>1 DEF ModuleValid, MemoriesValid
    <3>2. DOMAIN mod.activities \subseteq Nat
      BY <1>1 DEF ModuleValid
    <3>3. g.sources \subseteq Nat
      BY <3>1, <3>2
    <3>4. \E x \in g.sources : \A y \in g.sources : x >= y
      <4> DEFINE f == [x \in g.sources |-> x]
      <4>1. \A x \in g.sources : f[x] = x /\ f[x] \in Nat
        BY <3>3
      <4> HIDE DEF f
      <4>2. \E x \in g.sources : \A y \in g.sources : f[y] <= f[x]
        BY <3>1, <4>1, GreatestNumber
      <4> QED
        BY <3>3, <4>1, <4>2
    <3>5. Max(g.sources) \in g.sources
      BY <3>4 DEF Max
    <3> QED
      BY <3>3, <3>5
  <2>5. \A g \in mod.golds :
           /\ memory(g).id = g.id /\ memory(g).kind = g.kind /\ memory(g).sources = g.sources
           /\ memory(g).statement = g.statement /\ memory(g).occurrences = g.occurrences
           /\ memory(g).tokens = g.tokens /\ memory(g).version \in Nat
    BY <2>4
  <2> HIDE DEF memory
  <2>6. \A g \in mod.golds :
           /\ g.id \in Nat /\ g.occurrences \in Nat /\ g.tokens \in Nat /\ g.kind # "contract"
           /\ IsFiniteSet(g.sources) /\ g.statement \in DOMAIN WordsOf
    BY <1>1 DEF ModuleValid, MemoriesValid
  <2>7. \A g, h \in mod.golds : g.id = h.id => g = h
    BY <1>1 DEF ModuleValid, MemoriesValid
  <2>8. \A v \in GoldMemories(mod) : \E g \in mod.golds : v = memory(g)
    BY <2>1
  <2>9. \A v \in GoldMemories(mod) :
           /\ v.id \in Nat /\ v.occurrences \in Nat /\ v.tokens \in Nat /\ v.kind # "contract"
           /\ IsFiniteSet(v.sources) /\ v.statement \in DOMAIN WordsOf /\ v.version \in Nat
    BY <2>5, <2>6, <2>8
  <2>10. \A v, w \in GoldMemories(mod) : v.id = w.id => v = w
    BY <2>5, <2>7, <2>8
  <2> QED
    BY <2>1, <2>3, <2>9, <2>10 DEF FileMemories, MemoriesValid
<1>3. FileMemories({})
  BY FS_EmptySet DEF FileMemories, MemoriesValid
<1>4. FileMemories(replay.memories)
  BY <1>1 DEF ReplayValid, FileMemories
<1>5. FileMemories(MemoriesFor(arm, mod, replay))
  BY <1>2, <1>3, <1>4 DEF MemoriesFor
<1>6. \A M : FileMemories(M) => FileMemories(Active(M))
  <2>1. \A M : Active(M) \subseteq M
    BY DEF Active
  <2> QED
    BY <2>1, FS_Subset DEF FileMemories, MemoriesValid
<1> QED
  BY <1>5, <1>6
\* The activities of a module are a list.
LEMMA ActivitiesListed ==
  ASSUME NEW mod \in Modules, NEW A, A = mod.activities
  PROVE  /\ Len(A) \in Nat /\ DOMAIN A = 1..Len(A) /\ IsFiniteSet(1..Len(A))
         /\ \A n \in 1..Len(A) :
               A[n].contract \in Nat /\ A[n].version \in Nat /\ A[n].tokens \in Nat
         /\ Revisions(mod) \subseteq 1..Len(A) /\ FailuresOf(mod) \subseteq 1..Len(A)
<1> DEFINE E == [type : STRING, tokens : Nat, contract : Nat, version : Nat]
<1>1. A \in Seq(E)
  BY ModulesAreValid DEF ModuleValid
<1>2. \A e \in E : e.contract \in Nat /\ e.version \in Nat /\ e.tokens \in Nat
  OBVIOUS
<1> HIDE DEF E
<1>3. /\ Len(A) \in Nat /\ DOMAIN A = 1..Len(A) /\ \A n \in 1..Len(A) : A[n] \in E
  BY <1>1
<1>4. IsFiniteSet(1..Len(A))
  BY <1>3, FS_Interval
<1>5. Revisions(mod) \subseteq 1..Len(A) /\ FailuresOf(mod) \subseteq 1..Len(A)
  BY <1>3 DEF Revisions, FailuresOf
<1> QED
  BY <1>2, <1>3, <1>4, <1>5

\* Of the revisions of a contract one is current, and it is the newest.
LEMMA NewestRevision ==
  ASSUME NEW mod \in Modules, NEW n \in Revisions(mod)
  PROVE  \E m \in CurrentContracts(mod) :
            /\ mod.activities[m].contract = mod.activities[n].contract
            /\ mod.activities[m].version >= mod.activities[n].version
<1> DEFINE T == {m \in Revisions(mod) :
                    mod.activities[m].contract = mod.activities[n].contract}
<1>1. PICK A : A = mod.activities
  OBVIOUS
<1>2. /\ Revisions(mod) \subseteq 1..Len(A) /\ Len(A) \in Nat /\ IsFiniteSet(1..Len(A))
      /\ \A m \in 1..Len(A) : A[m].version \in Nat
  BY <1>1, ActivitiesListed
<1>3. IsFiniteSet(T)
  BY <1>2, FS_Subset
<1> DEFINE ver == [m \in T |-> A[m].version]
           R == {p \in T \X T : ver[p[1]] > ver[p[2]] \/ (ver[p[1]] = ver[p[2]] /\ p[1] < p[2])}
<1>4. \A l, m \in T : <<l, m>> \in R <=> ver[l] > ver[m] \/ (ver[l] = ver[m] /\ l < m)
  OBVIOUS
<1>5. \A m \in T : /\ m \in Revisions(mod) /\ A[m].contract = A[n].contract
                   /\ ver[m] = A[m].version /\ m \in Nat /\ ver[m] \in Nat
  BY <1>1, <1>2
<1>6. n \in T /\ \A m \in Revisions(mod) : A[m].contract = A[n].contract => m \in T
  BY <1>1
<1> HIDE DEF T, R, ver
<1>7. \A m \in T : <<m, m>> \notin R
  BY <1>4, <1>5
<1>8. ASSUME NEW k \in T, NEW l \in T, NEW m \in T, <<k, l>> \in R, <<l, m>> \in R
      PROVE  <<k, m>> \in R
  <2>1. /\ k \in Nat /\ l \in Nat /\ m \in Nat
        /\ ver[k] \in Nat /\ ver[l] \in Nat /\ ver[m] \in Nat
    BY <1>5
  <2>2. /\ ver[k] > ver[l] \/ (ver[k] = ver[l] /\ k < l)
        /\ ver[l] > ver[m] \/ (ver[l] = ver[m] /\ l < m)
    BY <1>4, <1>8
  <2> QED
    BY <1>4, <2>1, <2>2
<1>9. PICK m \in T : \A l \in T : <<l, m>> \notin R
  BY <1>3, <1>6, <1>7, <1>8, MinimalElement
<1>10. ASSUME NEW l \in T \ {m}
       PROVE  ver[l] < ver[m] \/ (ver[l] = ver[m] /\ m < l)
  <2>1. l \in Nat /\ m \in Nat /\ ver[l] \in Nat /\ ver[m] \in Nat
    BY <1>5
  <2>2. ~(ver[l] > ver[m] \/ (ver[l] = ver[m] /\ l < m))
    BY <1>4, <1>9
  <2> QED
    BY <2>1, <2>2
<1>11. m \in CurrentContracts(mod)
  <2>1. A[m].contract = A[n].contract
    BY <1>5
  <2>2. ASSUME NEW l \in Revisions(mod) \ {m}, A[l].contract = A[m].contract
        PROVE  A[l].version < A[m].version \/ (A[l].version = A[m].version /\ m < l)
    <3>1. l \in T \ {m}
      BY <1>6, <2>1, <2>2
    <3> QED
      BY <1>5, <1>10, <3>1
  <2> QED
    BY <1>1, <1>5, <2>2 DEF CurrentContracts
<1>12. A[m].version >= A[n].version
  BY <1>5, <1>6, <1>10
<1> QED
  BY <1>1, <1>5, <1>11, <1>12

\* An entry of the file: a contract, by the activity that revised it, or a memory.
ContractEntries(mod) == [kind : {"contract"}, id : DOMAIN mod.activities]
Entries(mod, memories) == ContractEntries(mod) \cup memories

\* What the file says of the contracts of a module.
ContractsSaid(mod, items) ==
    \A n \in Revisions(mod) : \E k \in DOMAIN items :
        LET item == items[k] IN
        /\ item.kind = "contract"
        /\ mod.activities[item.id].contract = mod.activities[n].contract
        /\ mod.activities[item.id].version >= mod.activities[n].version

\* The file begins with the contracts, each in its newest version (current_contracts).
LEMMA ContractsListed ==
  ASSUME NEW mod \in Modules
  PROVE  /\ ContractItems(mod) \in Seq(ContractEntries(mod))
         /\ ContractsSaid(mod, ContractItems(mod))
<1> DEFINE A == mod.activities
           I == {A[n].contract : n \in CurrentContracts(mod)}
           newest(c) == CHOOSE n \in CurrentContracts(mod) : A[n].contract = c
           ids == Ascending(I)
           items == [k \in DOMAIN ids |-> [kind |-> "contract", id |-> newest(ids[k])]]
<1>1. ContractItems(mod) = items
  BY DEF ContractItems
<1>2. /\ Len(A) \in Nat /\ DOMAIN A = 1..Len(A) /\ Revisions(mod) \subseteq 1..Len(A)
      /\ \A n \in 1..Len(A) : A[n].contract \in Nat /\ A[n].version \in Nat
  BY ActivitiesListed
<1>3. /\ CurrentContracts(mod) \subseteq Revisions(mod) /\ Revisions(mod) \subseteq 1..Len(A)
      /\ Len(A) \in Nat /\ DOMAIN A = 1..Len(A)
      /\ \A n \in DOMAIN A : A[n].contract \in Nat /\ A[n].version \in Nat
  BY <1>2 DEF CurrentContracts
<1>4. I \subseteq Nat /\ IsFiniteSet(I)
  <2>1. IsFiniteSet(1..Len(A))
    BY <1>3, FS_Interval
  <2>2. IsFiniteSet(CurrentContracts(mod))
    BY <1>3, <2>1, FS_Subset
  <2> DEFINE f == [n \in CurrentContracts(mod) |-> A[n].contract]
  <2>3. f \in Surjection(CurrentContracts(mod), I)
    BY DEF Surjection
  <2>4. I \subseteq Nat
    BY <1>3
  <2> HIDE DEF f, I
  <2> QED
    BY <2>2, <2>3, <2>4, FS_Surjection
<1>5. ASSUME NEW c \in I PROVE newest(c) \in CurrentContracts(mod) /\ A[newest(c)].contract = c
  <2>1. \E n \in CurrentContracts(mod) : A[n].contract = c
    OBVIOUS
  <2> QED
    BY <2>1
<1>6. ids = [k \in 1..Cardinality(I) |-> Nth(I, k)]
  BY DEF Ascending
<1>7. ASSUME NEW n \in CurrentContracts(mod), NEW m \in CurrentContracts(mod),
             A[m].contract = A[n].contract
      PROVE  m = n
  <2>1. n \in 1..Len(A) /\ m \in 1..Len(A) /\ n \in Revisions(mod) /\ m \in Revisions(mod)
    BY <1>3
  <2>2. A[n].version \in Nat /\ A[m].version \in Nat
    BY <1>3, <2>1
  <2>3. n # m => /\ A[m].version < A[n].version \/ (A[m].version = A[n].version /\ n < m)
                 /\ A[n].version < A[m].version \/ (A[n].version = A[m].version /\ m < n)
    BY <1>7, <2>1 DEF CurrentContracts
  <2> QED
    BY <2>1, <2>2, <2>3
<1> HIDE DEF ids, newest, I
<1>8. /\ Cardinality(I) \in Nat /\ DOMAIN ids = 1..Cardinality(I)
      /\ \A k \in 1..Cardinality(I) : ids[k] \in I
      /\ \A c \in I : \E k \in 1..Cardinality(I) : c = ids[k]
  BY <1>4, <1>6, NthPlace
<1>9. /\ DOMAIN items = 1..Cardinality(I)
      /\ \A k \in 1..Cardinality(I) :
            items[k].kind = "contract" /\ items[k].id = newest(ids[k])
  BY <1>8
<1>10. items \in Seq(ContractEntries(mod))
  <2>1. \A k \in 1..Cardinality(I) :
           [kind |-> "contract", id |-> newest(ids[k])] \in ContractEntries(mod)
    BY <1>3, <1>5, <1>8 DEF ContractEntries
  <2>2. items \in [1..Cardinality(I) -> ContractEntries(mod)]
    BY <1>8, <2>1
  <2> QED
    BY <1>8, <2>2
<1> HIDE DEF items
<1>11. ASSUME NEW n \in Revisions(mod)
       PROVE  \E k \in DOMAIN items :
                 /\ items[k].kind = "contract"
                 /\ A[items[k].id].contract = A[n].contract
                 /\ A[items[k].id].version >= A[n].version
  <2>1. PICK m \in CurrentContracts(mod) :
           A[m].contract = A[n].contract /\ A[m].version >= A[n].version
    BY NewestRevision
  <2>2. A[m].contract \in I
    BY DEF I
  <2>3. PICK k \in 1..Cardinality(I) : A[m].contract = ids[k]
    BY <1>8, <2>2
  <2>4. newest(ids[k]) \in CurrentContracts(mod) /\ A[newest(ids[k])].contract = A[m].contract
    BY <1>5, <2>2, <2>3
  <2>5. newest(ids[k]) = m
    BY <1>7, <2>4
  <2> QED
    BY <1>9, <2>1, <2>3, <2>5
<1>12. ContractsSaid(mod, items)
  BY <1>11 DEF ContractsSaid
<1> QED
  BY <1>1, <1>10, <1>12

\* A contract is not of the memories.
LEMMA ContractsApart ==
  ASSUME NEW mod, NEW M, FileMemories(M)
  PROVE  /\ \A e \in ContractEntries(mod) : e.kind = "contract"
         /\ \A v \in M : v.kind # "contract" /\ v.tokens \in Nat
         /\ \A e \in Entries(mod, M) : e.kind # "contract" => e \in M
BY DEF ContractEntries, Entries, FileMemories, MemoriesValid

\* What is appended to the file.
FileWith(items, v, longer) ==
    /\ Len(longer) = Len(items) + 1
    /\ DOMAIN longer = DOMAIN items \cup {Len(items) + 1} /\ Len(items) + 1 \notin DOMAIN items
    /\ \A k \in DOMAIN items : longer[k] = items[k]
    /\ longer[Len(items) + 1] = v
    /\ MemoryPlaces(longer) = MemoryPlaces(items) \cup {Len(items) + 1}

LEMMA FileAppended ==
  ASSUME NEW mod, NEW M, FileMemories(M), NEW items \in Seq(Entries(mod, M)), NEW v \in M
  PROVE  /\ Append(items, v) \in Seq(Entries(mod, M))
         /\ FileWith(items, v, Append(items, v))
BY ContractsApart DEF MemoryPlaces, Entries, FileWith

\* What it costs: the tokens at some places of the file, and of one more.
CostsMore(items, v, longer, K) ==
    /\ TokensAt(items, K) \in Nat
    /\ TokensAt(longer, K) = TokensAt(items, K)
    /\ TokensAt(longer, K \cup {Len(items) + 1}) = TokensAt(items, K) + v.tokens

LEMMA TokensAppended ==
  ASSUME NEW mod, NEW M, FileMemories(M), NEW items \in Seq(Entries(mod, M)), NEW v \in M,
         NEW K, K \subseteq MemoryPlaces(items)
  PROVE  CostsMore(items, v, Append(items, v), K)
<1>0. PICK longer : longer = Append(items, v)
  OBVIOUS
<1> DEFINE n == Len(items)
           f == [k \in DOMAIN items |-> IF k \in K THEN items[k].tokens ELSE 0]
           g == [k \in DOMAIN longer |-> IF k \in K THEN longer[k].tokens ELSE 0]
           h == [k \in DOMAIN longer |-> IF k \in K \cup {n + 1} THEN longer[k].tokens ELSE 0]
<1>1. /\ n \in Nat /\ Len(longer) = n + 1 /\ DOMAIN items = 1..n /\ DOMAIN longer = 1..(n + 1)
      /\ \A k \in 1..n : longer[k] = items[k]
      /\ longer[n + 1] = v /\ n + 1 \notin K
  <2>1. FileWith(items, v, longer)
    BY <1>0, FileAppended
  <2> QED
    BY <2>1 DEF FileWith, MemoryPlaces
<1>2. \A k \in K : items[k].tokens \in Nat
  <2>1. \A k \in K : items[k] \in Entries(mod, M) /\ items[k].kind # "contract"
    BY DEF MemoryPlaces
  <2> QED
    BY <2>1, ContractsApart
<1>3. v.tokens \in Nat
  BY ContractsApart
<1>4. \A k \in 1..n : f[k] \in Nat /\ g[k] = f[k] /\ h[k] = f[k]
  BY <1>1, <1>2
<1>5. g[n + 1] = 0 /\ h[n + 1] = v.tokens
  BY <1>1
<1>6. /\ TokensAt(items, K) = Total(f, n) /\ TokensAt(longer, K) = Total(g, n + 1)
      /\ TokensAt(longer, K \cup {n + 1}) = Total(h, n + 1)
  BY <1>1 DEF TokensAt
<1> HIDE DEF f, g, h
<1> HIDE DEF n
<1>7. (\A k \in 1..n : f[k] \in Nat) /\ \A k \in 1..n : g[k] = f[k]
  BY <1>4
<1>8. (\A k \in 1..n : f[k] \in Nat) /\ \A k \in 1..n : h[k] = f[k]
  BY <1>4
<1>9. g[n + 1] \in Nat /\ h[n + 1] \in Nat /\ n \in Nat
  BY <1>1, <1>3, <1>5
<1>10. Total(f, n) \in Nat /\ Total(g, n + 1) = Total(f, n) + g[n + 1]
  BY <1>7, <1>9, TotalLast
<1>11. Total(h, n + 1) = Total(f, n) + h[n + 1]
  BY <1>8, <1>9, TotalLast
<1> QED
  BY <1>0, <1>5, <1>6, <1>10, <1>11 DEF n, CostsMore

-------------------------------------------------------------------------------
(***************************************************************************)
(* ModuleArm: how a replay is scored.                                       *)
(***************************************************************************)

\* Parts of a finite set that share nothing count no more than the set.
LEMMA DisjointParts ==
  ASSUME NEW S, IsFiniteSet(S), NEW T, T \subseteq S, NEW U, U \subseteq S, T \cap U = {}
  PROVE  /\ IsFiniteSet(T \cup U) /\ Cardinality(T \cup U) = Cardinality(T) + Cardinality(U)
         /\ Cardinality(T) + Cardinality(U) <= Cardinality(S)
<1>1. IsFiniteSet(T) /\ IsFiniteSet(U) /\ Cardinality(T) \in Nat /\ Cardinality(U) \in Nat
  BY PartCounts
<1>2. IsFiniteSet(T \cup U) /\ Cardinality(T \cup U) <= Cardinality(S)
  BY PartCounts
<1>3. Cardinality(T \cup U) = Cardinality(T) + Cardinality(U) - Cardinality(T \cap U)
  BY <1>1, FS_Union
<1>4. Cardinality(T \cap U) = 0
  BY FS_EmptySet
<1> QED
  BY <1>1, <1>2, <1>3, <1>4

\* Some of the memories that are listed.
LEMMA ListedPart ==
  ASSUME NEW M, MemoriesListed(M), NEW N, N \subseteq M
  PROVE  MemoriesListed(N)
BY FS_Subset DEF MemoriesListed

\* The counts of a replay bound each other (_write_side).
LEMMA ReplayCounted ==
  ASSUME NEW mod \in Modules, NEW M, MemoriesListed(M)
  PROVE  ReplayCountsAgree(ReplayScore(mod, M), mod.golds)
<1> DEFINE G == mod.golds
           active == Active(M)
           current == {g \in G : g.superseded_by = 0}
           superseded == Superseded(G)
           X == Matches(active, current)
           lessons == {p \in X : IsLesson(p[2])}
           gold_lessons == {g \in G : IsLesson(g)}
           exact == {p \in lessons : p[1].occurrences = p[2].occurrences}
           over == {p \in lessons : p[1].occurrences > p[2].occurrences}
           repeated == {g \in G : IsLesson(g) /\ g.occurrences >= 2}
           recognized == {g \in repeated : \E v \in MatchedTo(X, g) : v.occurrences >= 2}
           others == {g \in superseded : ~IsLesson(g)}
           Y == Matches(active, superseded)
           r == ReplayScore(mod, M)
<1>1. /\ r.active_memories = Cardinality(active) /\ r.current_gold = Cardinality(current)
      /\ r.matched_current = Cardinality(X) /\ r.matched_lessons = Cardinality(lessons)
      /\ r.gold_lessons = Cardinality(gold_lessons) /\ r.exact = Cardinality(exact)
      /\ r.over = Cardinality(over) /\ r.repeated = Cardinality(repeated)
      /\ r.recognized = Cardinality(recognized) /\ r.superseded_gold = Cardinality(others)
      /\ r.stale_active = Cardinality(Y)
  BY DEF ReplayScore
<1>2. MemoriesListed(G)
  BY ModulesAreValid
<1>3. /\ active \subseteq M /\ current \subseteq G /\ superseded \subseteq G
      /\ gold_lessons \subseteq G /\ repeated \subseteq G /\ recognized \subseteq repeated
  BY DEF Active, Superseded
<1>4. /\ lessons \subseteq X /\ exact \subseteq lessons /\ over \subseteq lessons
  OBVIOUS
<1>5. (\A g \in superseded : ~IsLesson(g)) => others = superseded
  OBVIOUS
<1>6. /\ \A p \in lessons : IsLesson(p[2])
      /\ \A g \in G : IsLesson(g) => g \in gold_lessons
      /\ \A p \in exact : p[1].occurrences = p[2].occurrences
      /\ \A p \in over : p[1].occurrences > p[2].occurrences
  OBVIOUS
<1>7. X = Matches(active, current) /\ Y = Matches(active, superseded)
  OBVIOUS
<1> HIDE DEF active, current, superseded, X, lessons, gold_lessons, exact, over, repeated,
             recognized, Y, r, others
<1>8. MemoriesListed(active) /\ MemoriesListed(current) /\ MemoriesListed(superseded)
  BY <1>2, <1>3, ListedPart
<1>9. /\ IsFiniteSet(X) /\ \A p \in X : p[1] \in active /\ p[2] \in current
      /\ \A p, q \in X : p # q => p[1] # q[1] /\ p[2] # q[2]
  BY <1>7, <1>8, MatchEnds
<1>10. /\ IsFiniteSet(Y) /\ \A p \in Y : p[1] \in active /\ p[2] \in superseded
       /\ \A p, q \in Y : p # q => p[1] # q[1] /\ p[2] # q[2]
  BY <1>7, <1>8, MatchEnds
<1>11. IsFiniteSet(G) /\ IsFiniteSet(active) /\ IsFiniteSet(current) /\ IsFiniteSet(superseded)
  BY <1>2, <1>8 DEF MemoriesListed
<1>12. r.exact + r.over <= r.matched_lessons
  <2>1. exact \cap over = {}
    <3>1. \A g \in G : g.occurrences \in Nat
      BY ModulesAreValid DEF ModuleValid, MemoriesValid
    <3>2. \A p \in exact : p[2].occurrences \in Nat /\ p[1].occurrences = p[2].occurrences
      BY <1>3, <1>4, <1>6, <1>9, <3>1
    <3>3. \A x \in Nat : ~(x > x)
      OBVIOUS
    <3>4. \A p \in exact : p \notin over
      BY <1>6, <3>2, <3>3
    <3> QED
      BY <3>4
  <2>2. IsFiniteSet(lessons)
    BY <1>4, <1>9, FS_Subset
  <2>3. Cardinality(exact) + Cardinality(over) <= Cardinality(lessons)
    BY <1>4, <2>1, <2>2, DisjointParts
  <2> QED
    BY <1>1, <2>3
<1>13. r.recognized <= r.repeated
  <2>1. IsFiniteSet(repeated)
    BY <1>3, <1>11, FS_Subset
  <2>2. Cardinality(recognized) <= Cardinality(repeated)
    BY <1>3, <2>1, PartCounts
  <2> QED
    BY <1>1, <2>2
<1>14. r.matched_lessons <= r.gold_lessons
  <2> DEFINE f == [p \in lessons |-> p[2]]
  <2>1. f \in [lessons -> gold_lessons] /\ \A p, q \in lessons : f[p] = f[q] => p = q
    BY <1>3, <1>4, <1>6, <1>9
  <2>2. IsFiniteSet(gold_lessons)
    BY <1>3, <1>11, FS_Subset
  <2> HIDE DEF f
  <2>3. Cardinality(lessons) <= Cardinality(gold_lessons)
    BY <2>1, <2>2, OneToOneCounts
  <2> QED
    BY <1>1, <2>3
<1>15. r.matched_current <= r.current_gold
  <2> DEFINE f == [p \in X |-> p[2]]
  <2>1. f \in [X -> current] /\ \A p, q \in X : f[p] = f[q] => p = q
    BY <1>9
  <2> HIDE DEF f
  <2>2. Cardinality(X) <= Cardinality(current)
    BY <1>11, <2>1, OneToOneCounts
  <2> QED
    BY <1>1, <2>2
<1>16. r.matched_current <= r.active_memories
  <2> DEFINE f == [p \in X |-> p[1]]
  <2>1. f \in [X -> active] /\ \A p, q \in X : f[p] = f[q] => p = q
    BY <1>9
  <2> HIDE DEF f
  <2>2. Cardinality(X) <= Cardinality(active)
    BY <1>11, <2>1, OneToOneCounts
  <2> QED
    BY <1>1, <2>2
<1>17. (\A g \in superseded : ~IsLesson(g)) => r.stale_active <= r.superseded_gold
  <2> DEFINE f == [p \in Y |-> p[2]]
  <2>1. f \in [Y -> superseded] /\ \A p, q \in Y : f[p] = f[q] => p = q
    BY <1>10
  <2> HIDE DEF f
  <2>2. Cardinality(Y) <= Cardinality(superseded)
    BY <1>11, <2>1, OneToOneCounts
  <2> QED
    BY <1>1, <1>5, <2>2
<1> QED
  BY <1>12, <1>13, <1>14, <1>15, <1>16, <1>17 DEF ReplayCountsAgree, r, superseded

\* Every failure is assigned, dismissed or unaccounted for, and no pair of them
\* is misjudged when they are assigned as in the gold (accounting_metrics).
LEMMA FailuresAccounted ==
  ASSUME NEW mod \in Modules, NEW replay \in Replays[mod.id],
         NEW a, a = Accounting(mod, replay.target)
  PROVE  /\ AccountingAgrees(a)
         /\ replay.target = mod.lesson_of => a.pair_fp = 0 /\ a.pair_fn = 0
<1> DEFINE target == replay.target
           failures == FailuresOf(mod)
           dismissed == AssignedTo(target, NoLesson)
           unaccounted == AssignedTo(target, Unaccounted)
           no_lesson == AssignedTo(mod.lesson_of, NoLesson)
           wrongly == no_lesson \ (dismissed \cup unaccounted)
           pairs == {p \in SUBSET failures : Cardinality(p) = 2}
           together == {p \in pairs : SameLesson(target, p)}
           gold == {p \in pairs : SameLesson(mod.lesson_of, p)}
<1>1. /\ a.failures = Cardinality(failures) /\ a.unaccounted = Cardinality(unaccounted)
      /\ a.dismissed = Cardinality(dismissed)
      /\ a.dismissed_gold_lesson = Cardinality(dismissed \ no_lesson)
      /\ a.lesson_gold_dismiss = Cardinality(wrongly)
      /\ a.pair_fp = Cardinality(together \ gold) /\ a.pair_fn = Cardinality(gold \ together)
  BY DEF Accounting
<1>2. DOMAIN target = failures /\ DOMAIN mod.lesson_of = failures
  BY ModulesAreValid DEF ReplayValid, ModuleValid
<1>3. IsFiniteSet(failures)
  <2>1. PICK A : A = mod.activities
    OBVIOUS
  <2>2. failures \subseteq 1..Len(A) /\ IsFiniteSet(1..Len(A))
    BY <2>1, ActivitiesListed
  <2> QED
    BY <2>2, FS_Subset
<1>4. dismissed \subseteq failures /\ unaccounted \subseteq failures /\ no_lesson \subseteq failures
  BY <1>2 DEF AssignedTo
<1>5. dismissed \cap unaccounted = {}
  BY ModuleArmAssumption DEF AssignedTo
<1>6. ASSUME target = mod.lesson_of PROVE together \ gold = {} /\ gold \ together = {}
  BY <1>6
<1>7. /\ target = replay.target /\ wrongly \subseteq failures
      /\ wrongly \cap (dismissed \cup unaccounted) = {}
  <2>1. target = replay.target /\ wrongly = no_lesson \ (dismissed \cup unaccounted)
    OBVIOUS
  <2> HIDE DEF target, failures, dismissed, unaccounted, no_lesson, wrongly
  <2>2. wrongly \subseteq failures
    BY <1>4, <2>1
  <2>3. wrongly \cap (dismissed \cup unaccounted) = {}
    BY <2>1
  <2> QED
    BY <2>1, <2>2, <2>3
<1> HIDE DEF target, failures, dismissed, unaccounted, no_lesson, wrongly, together, gold
<1>8. /\ IsFiniteSet(dismissed \cup unaccounted)
      /\ Cardinality(dismissed \cup unaccounted)
            = Cardinality(dismissed) + Cardinality(unaccounted)
  BY <1>3, <1>4, <1>5, DisjointParts, SMTT(60)
<1>9. Cardinality(wrongly) + Cardinality(dismissed \cup unaccounted) <= Cardinality(failures)
  <2>1. dismissed \cup unaccounted \subseteq failures
    BY <1>4
  <2> QED
    BY <1>3, <1>7, <2>1, DisjointParts
<1>10. Cardinality(dismissed \ no_lesson) <= Cardinality(dismissed)
  <2>1. IsFiniteSet(dismissed)
    BY <1>3, <1>4, PartCounts
  <2>2. dismissed \ no_lesson \subseteq dismissed
    OBVIOUS
  <2> QED
    BY <2>1, <2>2, PartCounts
<1>11. /\ Cardinality(wrongly) \in Nat /\ Cardinality(dismissed) \in Nat
       /\ Cardinality(unaccounted) \in Nat /\ Cardinality(failures) \in Nat
  BY <1>3, <1>4, <1>7, PartCounts
<1>12. AccountingAgrees(a)
  <2>1. a.lesson_gold_dismiss + a.dismissed + a.unaccounted <= a.failures
    BY <1>1, <1>8, <1>9, <1>11
  <2>2. a.dismissed_gold_lesson <= a.dismissed
    BY <1>1, <1>10
  <2> QED
    BY <2>1, <2>2 DEF AccountingAgrees
<1>13. replay.target = mod.lesson_of => a.pair_fp = 0 /\ a.pair_fn = 0
  BY <1>1, <1>6, <1>7, FS_EmptySet
<1> QED
  BY <1>12, <1>13

-------------------------------------------------------------------------------
(***************************************************************************)
(* ModuleArm: the file, as the memories are considered one after another.   *)
(***************************************************************************)

FileOf(items) == {items[k] : k \in MemoryPlaces(items)}

FileOrder(items) ==
    \A i, k \in DOMAIN items : i < k =>
       \/ items[i].kind = "contract"
       \/ items[k].kind # "contract" /\ AheadInFile(items[i], items[k])

\* Whatever is left out does not fit behind what is ahead of it.
OmittedRightly(items, omitted) ==
    \A v \in omitted : TokensAt(items, PlacesBefore(items, v)) + v.tokens > PackBudget

\* Of the active memories S some are in the file and some left out, and all of
\* these come ahead of those that are still to be considered.
FileSoFar(mod, S, items, omitted, todo, spent) ==
    /\ items \in Seq(Entries(mod, S)) /\ ContractsSaid(mod, items) /\ FileOrder(items)
    /\ FileOf(items) \cup omitted \cup todo = S
    /\ FileOf(items) \cap omitted = {} /\ (FileOf(items) \cup omitted) \cap todo = {}
    /\ spent = TokensAt(items, MemoryPlaces(items)) /\ spent <= PackBudget
    /\ OmittedRightly(items, omitted)
    /\ \A v \in FileOf(items) \cup omitted, w \in todo : AheadInFile(v, w)

\* At first the file has no more than the contracts.
LEMMA FileBegun ==
  ASSUME NEW mod \in Modules, NEW S, FileMemories(S)
  PROVE  FileSoFar(mod, S, ContractItems(mod), {}, S, 0)
<1>1. PICK items : items = ContractItems(mod)
  OBVIOUS
<1>2. items \in Seq(ContractEntries(mod)) /\ ContractsSaid(mod, items)
  BY <1>1, ContractsListed
<1>3. /\ Len(items) \in Nat /\ DOMAIN items = 1..Len(items)
      /\ \A k \in DOMAIN items : items[k] \in ContractEntries(mod)
  BY <1>2
<1>4. \A k \in DOMAIN items : items[k].kind = "contract"
  BY <1>3 DEF ContractEntries
<1>5. MemoryPlaces(items) = {} /\ FileOf(items) = {} /\ FileOrder(items)
  BY <1>4 DEF MemoryPlaces, FileOf, FileOrder
<1>6. items \in Seq(Entries(mod, S))
  <2>1. \A k \in 1..Len(items) : items[k] \in Entries(mod, S)
    BY <1>3 DEF Entries
  <2> QED
    BY <1>2, <1>3, <2>1
<1>7. TokensAt(items, {}) = 0
  <2> DEFINE f == [k \in DOMAIN items |-> IF k \in {} THEN items[k].tokens ELSE 0]
  <2>1. \A k \in 1..Len(items) : f[k] = 0
    BY <1>3
  <2>2. TokensAt(items, {}) = Total(f, Len(items))
    BY DEF TokensAt
  <2> HIDE DEF f
  <2>3. Len(items) \in Nat /\ \A k \in 1..Len(items) : f[k] \in Nat /\ f[k] = f[k] + f[k]
    BY <1>3, <2>1
  <2>4. Total(f, Len(items)) \in Nat
    BY <2>3, TotalGrows
  <2>5. Total(f, Len(items)) = Total(f, Len(items)) + Total(f, Len(items))
    BY <2>3, TotalAdds
  <2> QED
    BY <2>2, <2>4, <2>5
<1>8. 0 <= PackBudget
  BY ModuleArmAssumption
<1> QED
  BY <1>1, <1>2, <1>5, <1>6, <1>7, <1>8 DEF FileSoFar, OmittedRightly

\* What is spent is a number.
LEMMA SpentInFile ==
  ASSUME NEW mod, NEW S, FileMemories(S), NEW items, NEW omitted, NEW todo, NEW spent,
         FileSoFar(mod, S, items, omitted, todo, spent)
  PROVE  spent \in Nat
<1>1. items \in Seq(Entries(mod, S)) /\ spent = TokensAt(items, MemoryPlaces(items))
  BY DEF FileSoFar
<1> DEFINE f == [k \in DOMAIN items |->
                    IF k \in MemoryPlaces(items) THEN items[k].tokens ELSE 0]
<1>2. Len(items) \in Nat /\ DOMAIN items = 1..Len(items)
  BY <1>1
<1>3. \A k \in MemoryPlaces(items) : items[k] \in Entries(mod, S) /\ items[k].kind # "contract"
  BY <1>1 DEF MemoryPlaces
<1>4. \A k \in MemoryPlaces(items) : items[k].tokens \in Nat
  BY <1>3, ContractsApart
<1>5. \A k \in 1..Len(items) : f[k] \in Nat
  BY <1>2, <1>4
<1>6. spent = Total(f, Len(items))
  BY <1>1 DEF TokensAt
<1> HIDE DEF f
<1> QED
  BY <1>2, <1>5, <1>6, TotalGrows

\* A memory that fits goes to the end of the file.
LEMMA FileGrows ==
  ASSUME NEW mod, NEW S, FileMemories(S), NEW items, NEW omitted, NEW todo, NEW spent,
         FileSoFar(mod, S, items, omitted, todo, spent),
         NEW v \in todo, \A w \in todo \ {v} : AheadInFile(v, w),
         spent + v.tokens <= PackBudget
  PROVE  FileSoFar(mod, S, Append(items, v), omitted, todo \ {v}, spent + v.tokens)
<1>1. /\ items \in Seq(Entries(mod, S)) /\ ContractsSaid(mod, items) /\ FileOrder(items)
      /\ FileOf(items) \cup omitted \cup todo = S
      /\ FileOf(items) \cap omitted = {} /\ (FileOf(items) \cup omitted) \cap todo = {}
      /\ spent = TokensAt(items, MemoryPlaces(items))
      /\ OmittedRightly(items, omitted)
      /\ \A u \in FileOf(items) \cup omitted, w \in todo : AheadInFile(u, w)
  BY DEF FileSoFar
<1>0. items \in Seq(Entries(mod, S))
  BY DEF FileSoFar
<1>2. v \in S
  BY <1>1
<1>3. PICK longer : longer = Append(items, v)
  OBVIOUS
<1>4. PICK n : n = Len(items)
  OBVIOUS
<1>5. /\ longer \in Seq(Entries(mod, S)) /\ n \in Nat /\ DOMAIN items = 1..n
      /\ DOMAIN longer = DOMAIN items \cup {n + 1} /\ n + 1 \notin DOMAIN items
      /\ \A k \in DOMAIN items : longer[k] = items[k]
      /\ longer[n + 1] = v
      /\ MemoryPlaces(longer) = MemoryPlaces(items) \cup {n + 1}
  <2>1. longer \in Seq(Entries(mod, S)) /\ FileWith(items, v, longer)
    BY <1>0, <1>2, <1>3, FileAppended
  <2>2. n \in Nat /\ DOMAIN items = 1..n
    BY <1>0, <1>4
  <2> QED
    BY <1>4, <2>1, <2>2 DEF FileWith
<1>6. MemoryPlaces(items) \subseteq DOMAIN items
  BY DEF MemoryPlaces
<1>7. FileOf(longer) = FileOf(items) \cup {v}
  BY <1>5, <1>6 DEF FileOf
<1>8. ContractsSaid(mod, longer)
  BY <1>1, <1>5 DEF ContractsSaid
<1>9. v.kind # "contract"
  BY <1>2, ContractsApart
<1>10. FileOrder(longer)
  <2>1. ASSUME NEW i \in DOMAIN longer, NEW k \in DOMAIN longer, i < k
        PROVE  \/ longer[i].kind = "contract"
               \/ longer[k].kind # "contract" /\ AheadInFile(longer[i], longer[k])
    <3>1. i \in DOMAIN items
      BY <1>5, <2>1
    <3>2. CASE k \in DOMAIN items
      BY <1>1, <1>5, <2>1, <3>1, <3>2 DEF FileOrder
    <3>3. CASE k = n + 1
      <4>1. longer[i] = items[i] /\ longer[k] = v
        BY <1>5, <3>1, <3>3
      <4>2. items[i].kind # "contract" => items[i] \in FileOf(items)
        BY <3>1 DEF FileOf, MemoryPlaces
      <4> QED
        BY <1>1, <1>9, <4>1, <4>2
    <3> QED
      BY <1>5, <3>2, <3>3
  <2> QED
    BY <2>1 DEF FileOrder
<1>11. TokensAt(longer, MemoryPlaces(longer)) = spent + v.tokens
  <2>1. PICK K : K = MemoryPlaces(items)
    OBVIOUS
  <2>2. CostsMore(items, v, longer, K)
    BY <1>0, <1>2, <1>3, <2>1, TokensAppended
  <2> QED
    BY <1>1, <1>4, <1>5, <2>1, <2>2 DEF CostsMore
<1>12. OmittedRightly(longer, omitted)
  <2>1. ASSUME NEW u \in omitted
        PROVE  TokensAt(longer, PlacesBefore(longer, u)) + u.tokens > PackBudget
    <3>1. u \in S /\ AheadInFile(u, v)
      BY <1>1
    <3>2. ~AheadInFile(v, u)
      BY <1>2, <3>1, AheadOnce
    <3>3. PlacesBefore(longer, u) = PlacesBefore(items, u)
      BY <1>5, <1>6, <3>2 DEF PlacesBefore
    <3>4. PICK K : K = PlacesBefore(items, u)
      OBVIOUS
    <3>5. K \subseteq MemoryPlaces(items)
      BY <3>4 DEF PlacesBefore
    <3>6. CostsMore(items, v, longer, K)
      BY <1>0, <1>2, <1>3, <3>5, TokensAppended
    <3>7. TokensAt(items, PlacesBefore(items, u)) + u.tokens > PackBudget
      BY <1>1 DEF OmittedRightly
    <3> QED
      BY <3>3, <3>4, <3>6, <3>7 DEF CostsMore
  <2> QED
    BY <2>1 DEF OmittedRightly
<1>13. /\ FileOf(longer) \cup omitted \cup (todo \ {v}) = S
       /\ FileOf(longer) \cap omitted = {}
       /\ (FileOf(longer) \cup omitted) \cap (todo \ {v}) = {}
  BY <1>1, <1>7
<1>14. \A u \in FileOf(longer) \cup omitted, w \in todo \ {v} : AheadInFile(u, w)
  BY <1>1, <1>7
<1>15. FileSoFar(mod, S, longer, omitted, todo \ {v}, spent + v.tokens)
  BY <1>5, <1>8, <1>10, <1>11, <1>12, <1>13, <1>14 DEF FileSoFar
<1> QED
  BY <1>3, <1>15

\* A memory that does not fit is left out.
LEMMA FileOmits ==
  ASSUME NEW mod, NEW S, FileMemories(S), NEW items, NEW omitted, NEW todo, NEW spent,
         FileSoFar(mod, S, items, omitted, todo, spent),
         NEW v \in todo, \A w \in todo \ {v} : AheadInFile(v, w),
         spent + v.tokens > PackBudget
  PROVE  FileSoFar(mod, S, items, omitted \cup {v}, todo \ {v}, spent)
<1>1. /\ items \in Seq(Entries(mod, S)) /\ ContractsSaid(mod, items) /\ FileOrder(items)
      /\ FileOf(items) \cup omitted \cup todo = S
      /\ FileOf(items) \cap omitted = {} /\ (FileOf(items) \cup omitted) \cap todo = {}
      /\ spent = TokensAt(items, MemoryPlaces(items)) /\ spent <= PackBudget
      /\ OmittedRightly(items, omitted)
      /\ \A u \in FileOf(items) \cup omitted, w \in todo : AheadInFile(u, w)
  BY DEF FileSoFar
<1>2. PlacesBefore(items, v) = MemoryPlaces(items)
  <2>1. \A k \in MemoryPlaces(items) : items[k] \in FileOf(items)
    BY DEF FileOf
  <2> QED
    BY <1>1, <2>1 DEF PlacesBefore
<1>3. OmittedRightly(items, omitted \cup {v})
  BY <1>1, <1>2 DEF OmittedRightly
<1>4. /\ FileOf(items) \cup (omitted \cup {v}) \cup (todo \ {v}) = S
      /\ FileOf(items) \cap (omitted \cup {v}) = {}
      /\ (FileOf(items) \cup (omitted \cup {v})) \cap (todo \ {v}) = {}
  BY <1>1
<1>5. \A u \in FileOf(items) \cup (omitted \cup {v}), w \in todo \ {v} : AheadInFile(u, w)
  BY <1>1
<1> QED
  BY <1>1, <1>3, <1>4, <1>5 DEF FileSoFar

-------------------------------------------------------------------------------
(***************************************************************************)
(* ModuleArm: the raw log, taken from its end.                              *)
(***************************************************************************)

LogCost(mod, items) ==
    Total([k \in DOMAIN items |-> mod.activities[items[k]].tokens], Len(items))

\* The activities taken are the last of the log; before them all are still to be
\* considered, or the one just before did not fit.
LogSoFar(mod, items, todo, spent) ==
    LET first == Len(mod.activities) - Len(items) + 1
    IN  /\ items \in Seq(Nat) /\ Len(items) <= Len(mod.activities)
        /\ \A k \in DOMAIN items : items[k] = first + k - 1
        /\ spent = LogCost(mod, items) /\ spent <= PackBudget
        /\ \/ todo = 1..(first - 1)
           \/ /\ todo = {}
              /\ first > 1 => spent + mod.activities[first - 1].tokens > PackBudget

\* At first nothing is taken.
LEMMA LogBegun ==
  ASSUME NEW mod \in Modules
  PROVE  LogSoFar(mod, << >>, DOMAIN mod.activities, 0)
<1>1. PICK A : A = mod.activities
  OBVIOUS
<1>2. Len(A) \in Nat /\ DOMAIN A = 1..Len(A)
  BY <1>1, ActivitiesListed
<1>3. LogCost(mod, << >>) = 0
  <2> DEFINE f == [k \in DOMAIN << >> |-> mod.activities[<< >>[k]].tokens]
  <2>1. Len(<< >>) = 0 /\ 0 \in Nat /\ \A k \in 1..0 : f[k] \in Nat
    OBVIOUS
  <2>2. LogCost(mod, << >>) = Total(f, 0)
    BY <2>1 DEF LogCost
  <2> HIDE DEF f
  <2> QED
    BY <2>1, <2>2, TotalGrows
<1>4. 0 <= PackBudget
  BY ModuleArmAssumption
<1> QED
  BY <1>1, <1>2, <1>3, <1>4 DEF LogSoFar

\* The newest activity that is left stands just before those taken.
LEMMA LogNext ==
  ASSUME NEW mod \in Modules, NEW items, NEW todo, NEW spent, LogSoFar(mod, items, todo, spent),
         todo # {}, NEW A, A = mod.activities, NEW first, first = Len(A) - Len(items) + 1
  PROVE  /\ first \in Nat /\ first > 1 /\ todo = 1..(first - 1)
         /\ first - 1 \in todo /\ \A m \in todo : m <= first - 1
<1>1. Len(A) \in Nat
  BY ActivitiesListed
<1>2. /\ items \in Seq(Nat) /\ Len(items) <= Len(A) /\ todo = 1..(first - 1)
  BY DEF LogSoFar
<1>3. first \in Nat /\ first > 1
  BY <1>1, <1>2
<1>4. first - 1 \in todo /\ \A m \in todo : m \in Nat /\ m <= first - 1
  BY <1>2, <1>3
<1> QED
  BY <1>2, <1>3, <1>4

LEMMA NewestInLog ==
  ASSUME NEW mod \in Modules, NEW items, NEW todo, NEW spent, LogSoFar(mod, items, todo, spent),
         NEW n \in todo, \A m \in todo : m <= n,
         NEW A, A = mod.activities, NEW first, first = Len(A) - Len(items) + 1
  PROVE  n = first - 1
<1>1. todo # {}
  OBVIOUS
<1>2. /\ first \in Nat /\ todo = 1..(first - 1) /\ first - 1 \in todo
      /\ \A m \in todo : m <= first - 1
  BY <1>1, LogNext, SMTT(60)
<1>3. n \in 1..(first - 1)
  BY <1>2, Zenon
<1>4. first - 1 <= n
  BY <1>2, Zenon
<1> QED
  BY <1>2, <1>3, <1>4

\* What is spent is a number, and so is what the next activity costs.
LEMMA SpentOnLog ==
  ASSUME NEW mod \in Modules, NEW items, NEW todo, NEW spent, LogSoFar(mod, items, todo, spent)
  PROVE  spent \in Nat /\ \A n \in todo : mod.activities[n].tokens \in Nat
<1>1. PICK A : A = mod.activities
  OBVIOUS
<1>2. PICK first : first = Len(A) - Len(items) + 1
  OBVIOUS
<1>3. /\ Len(A) \in Nat /\ \A m \in 1..Len(A) : A[m].tokens \in Nat
  BY <1>1, ActivitiesListed
<1>4. /\ items \in Seq(Nat) /\ Len(items) <= Len(A)
      /\ \A k \in DOMAIN items : items[k] = first + k - 1
      /\ spent = LogCost(mod, items) /\ todo \subseteq 1..(first - 1)
  BY <1>1, <1>2 DEF LogSoFar
<1>5. Len(items) \in Nat /\ DOMAIN items = 1..Len(items)
  BY <1>4
<1>6. todo \subseteq 1..Len(A)
  BY <1>2, <1>3, <1>4, <1>5
<1> DEFINE g == [k \in DOMAIN items |-> mod.activities[items[k]].tokens]
<1>7. ASSUME NEW k \in 1..Len(items) PROVE items[k] \in 1..Len(A)
  <2>1. items[k] = first + k - 1
    BY <1>4, <1>5
  <2> QED
    BY <1>2, <1>3, <1>4, <1>5, <2>1
<1>8. \A k \in 1..Len(items) : g[k] \in Nat
  BY <1>1, <1>3, <1>5, <1>7
<1>9. spent = Total(g, Len(items))
  BY <1>4 DEF LogCost
<1> HIDE DEF g
<1>10. spent \in Nat
  BY <1>5, <1>8, <1>9, TotalGrows
<1> QED
  BY <1>1, <1>3, <1>6, <1>10

\* An activity that fits is taken.
LEMMA LogGrows ==
  ASSUME NEW mod \in Modules, NEW items, NEW todo, NEW spent, LogSoFar(mod, items, todo, spent),
         NEW n \in todo, \A m \in todo : m <= n,
         spent + mod.activities[n].tokens <= PackBudget
  PROVE  LogSoFar(mod, <<n>> \o items, todo \ {n}, spent + mod.activities[n].tokens)
<1>1. PICK A : A = mod.activities
  OBVIOUS
<1>2. PICK first : first = Len(A) - Len(items) + 1
  OBVIOUS
<1>3. /\ Len(A) \in Nat /\ DOMAIN A = 1..Len(A) /\ \A m \in 1..Len(A) : A[m].tokens \in Nat
  BY <1>1, ActivitiesListed
<1>4. /\ items \in Seq(Nat) /\ Len(items) <= Len(A)
      /\ \A k \in DOMAIN items : items[k] = first + k - 1
      /\ spent = LogCost(mod, items)
  BY <1>1, <1>2 DEF LogSoFar
<1>5. first \in Nat /\ first > 1 /\ todo = 1..(first - 1) /\ n = first - 1
  <2>1. todo # {}
    OBVIOUS
  <2>2. first \in Nat /\ first > 1 /\ todo = 1..(first - 1)
    BY <1>1, <1>2, <2>1, LogNext
  <2>3. n = first - 1
    BY <1>1, <1>2, NewestInLog
  <2> QED
    BY <2>2, <2>3
<1>6. PICK longer : longer = <<n>> \o items
  OBVIOUS
<1>7. PICK size : size = Len(items)
  OBVIOUS
<1>8. /\ size \in Nat /\ n \in Nat /\ n \in 1..Len(A) /\ DOMAIN items = 1..size
  BY <1>2, <1>3, <1>4, <1>5, <1>7
<1>9. /\ longer \in Seq(Nat) /\ Len(longer) = size + 1 /\ DOMAIN longer = 1..(size + 1)
      /\ longer[1] = n /\ \A k \in 1..size : longer[k + 1] = items[k]
  <2>1. <<n>> \in Seq(Nat) /\ Len(<<n>>) = 1 /\ <<n>>[1] = n
    BY <1>8
  <2>2. longer \in Seq(Nat) /\ Len(longer) = size + 1 /\ DOMAIN longer = 1..(size + 1)
    BY <1>4, <1>6, <1>7, <1>8, <2>1
  <2>3. longer[1] = n
    BY <1>4, <1>6, <2>1
  <2>4. ASSUME NEW k \in 1..size PROVE longer[k + 1] = items[k]
    BY <1>4, <1>6, <1>7, <1>8, <2>1
  <2> QED
    BY <2>2, <2>3, <2>4
<1>10. ASSUME NEW k \in 1..(size + 1) PROVE longer[k] = (first - 1) + k - 1
  <2>1. CASE k = 1
    BY <1>5, <1>9, <2>1
  <2>2. CASE k # 1
    <3>1. k - 1 \in 1..size /\ (k - 1) + 1 = k
      BY <1>8, <2>2
    <3>2. longer[k] = items[k - 1] /\ items[k - 1] = first + (k - 1) - 1
      BY <1>4, <1>8, <1>9, <3>1
    <3> QED
      BY <1>5, <1>8, <3>2
  <2> QED
    BY <2>1, <2>2
<1>11. LogCost(mod, longer) = A[n].tokens + LogCost(mod, items)
  <2> DEFINE f == [k \in DOMAIN longer |-> mod.activities[longer[k]].tokens]
             g == [k \in DOMAIN items |-> mod.activities[items[k]].tokens]
  <2>1. LogCost(mod, longer) = Total(f, size + 1) /\ LogCost(mod, items) = Total(g, size)
    BY <1>7, <1>9 DEF LogCost
  <2>2. \A k \in 1..(size + 1) : longer[k] \in 1..Len(A)
    BY <1>2, <1>3, <1>5, <1>7, <1>8, <1>10
  <2>3. \A k \in 1..(size + 1) : f[k] \in Nat
    BY <1>1, <1>3, <1>9, <2>2
  <2>4. \A k \in 1..size : g[k] = f[k + 1]
    <3>1. \A k \in 1..size : k + 1 \in 1..(size + 1)
      BY <1>8
    <3> QED
      BY <1>8, <1>9, <3>1
  <2>5. f[1] = A[n].tokens
    BY <1>1, <1>8, <1>9
  <2> HIDE DEF f, g
  <2>6. Total(f, size + 1) = f[1] + Total(g, size)
    BY <1>8, <2>3, <2>4, TotalFirst
  <2> QED
    BY <2>1, <2>5, <2>6
<1>12. spent \in Nat
  BY SpentOnLog
<1>13. LogCost(mod, longer) = spent + A[n].tokens
  BY <1>3, <1>4, <1>8, <1>11, <1>12
<1>14. /\ Len(A) - Len(longer) + 1 = first - 1 /\ Len(longer) <= Len(A)
       /\ todo \ {n} = 1..((first - 1) - 1)
  <2>1. Len(A) - Len(longer) + 1 = first - 1 /\ Len(longer) <= Len(A)
    BY <1>2, <1>3, <1>5, <1>7, <1>8, <1>9
  <2>2. todo \ {n} = 1..((first - 1) - 1)
    BY <1>5
  <2> QED
    BY <2>1, <2>2
<1>15. LogSoFar(mod, longer, todo \ {n}, spent + A[n].tokens)
  BY <1>1, <1>9, <1>10, <1>13, <1>14 DEF LogSoFar
<1> QED
  BY <1>1, <1>6, <1>15

\* The first that does not fit ends it.
LEMMA LogEnds ==
  ASSUME NEW mod \in Modules, NEW items, NEW todo, NEW spent, LogSoFar(mod, items, todo, spent),
         NEW n \in todo, \A m \in todo : m <= n,
         spent + mod.activities[n].tokens > PackBudget
  PROVE  LogSoFar(mod, items, {}, spent)
<1>1. PICK A : A = mod.activities
  OBVIOUS
<1>2. PICK first : first = Len(A) - Len(items) + 1
  OBVIOUS
<1>3. n = first - 1
  BY <1>1, <1>2, NewestInLog
<1>4. first > 1 => spent + A[first - 1].tokens > PackBudget
  BY <1>1, <1>3
<1> QED
  BY <1>1, <1>2, <1>4 DEF LogSoFar

-------------------------------------------------------------------------------
(***************************************************************************)
(* ModuleArm: the invariant.                                                *)
(***************************************************************************)

\* A run has the memories its arm takes of what the replay left.
RunRight ==
    /\ mod_run.arm \in ModuleArmNames /\ mod_run.module \in Modules
    /\ \E replay \in Replays[mod_run.module.id] :
          /\ mod_run.target = replay.target
          /\ mod_run.memories = MemoriesFor(mod_run.arm, mod_run.module, replay)

FileInv ==
    FileSoFar(mod_run.module, Active(mod_run.memories), mod_items, mod_omitted, mod_todo,
              mod_spent)

LogInv == LogSoFar(mod_run.module, mod_items, mod_todo, mod_spent)

WriteInv ==
    mod_run.arm = "pack" =>
        mod_write = [replay |-> ReplayScore(mod_run.module, mod_run.memories),
                     accounting |-> Accounting(mod_run.module, mod_run.target)]

\* Until the tasks begin the file, or the log, is right as far as it goes; then
\* nothing is left to consider.
ModuleInv ==
    /\ mod_step \in {"none", "render", "log", "tasks"}
    /\ mod_step = "none" => mod_spent = 0 /\ mod_omitted = {}
    /\ mod_step # "none" =>
          RunRight /\ (FileArm => FileInv) /\ (mod_run.arm = "raw_log" => LogInv)
    /\ mod_step = "render" => FileArm
    /\ mod_step = "log" => mod_run.arm = "raw_log"
    /\ mod_step = "tasks" => mod_todo = {} /\ WriteInv

LEMMA ModuleInvInit == ModuleInit => ModuleInv
BY DEF ModuleInit, ModuleInv

\* The memories of a run's file, in their order.
LEMMA RunFiles ==
  ASSUME RunRight
  PROVE  /\ mod_run.module \in Modules
         /\ FileMemories(mod_run.memories) /\ FileMemories(Active(mod_run.memories))
<1>1. PICK replay \in Replays[mod_run.module.id] :
         mod_run.memories = MemoriesFor(mod_run.arm, mod_run.module, replay)
  BY DEF RunRight
<1> QED
  BY <1>1, FilesOrdered DEF RunRight

LEMMA BeginModuleKeeps ==
  ASSUME ModuleInv, NEW arm \in ModuleArmNames, NEW mod \in Modules,
         NEW replay \in Replays[mod.id], BeginModule(arm, mod, replay)
  PROVE  ModuleInv'
<1>1. mod_step = "none" /\ mod_spent' = 0 /\ mod_omitted' = {}
  BY DEF ModuleInv, BeginModule
<1>2. PICK memories : memories = MemoriesFor(arm, mod, replay)
  OBVIOUS
<1>3. mod_run' = [arm |-> arm, module |-> mod, memories |-> memories, target |-> replay.target]
  BY <1>2 DEF BeginModule
<1>4. /\ mod_run'.arm = arm /\ mod_run'.module = mod /\ mod_run'.memories = memories
      /\ mod_run'.target = replay.target
  BY <1>3
<1>5. RunRight'
  BY <1>2, <1>4 DEF RunRight
<1>6. FileMemories(Active(memories))
  BY <1>2, FilesOrdered
<1>7. CASE arm \in {"pack", "oracle_pack"}
  <2>1. mod_step' = "render" /\ mod_todo' = Active(memories) /\ mod_items' = ContractItems(mod)
    BY <1>2, <1>7 DEF BeginModule
  <2>2. FileSoFar(mod, Active(memories), ContractItems(mod), {}, Active(memories), 0)
    BY <1>6, FileBegun
  <2>3. FileInv'
    BY <1>1, <1>4, <2>1, <2>2 DEF FileInv
  <2> QED
    BY <1>4, <1>5, <1>7, <2>1, <2>3 DEF ModuleInv, FileArm
<1>8. CASE arm = "raw_log"
  <2>1. mod_step' = "log" /\ mod_todo' = DOMAIN mod.activities /\ mod_items' = << >>
    BY <1>8 DEF BeginModule
  <2>2. LogSoFar(mod, << >>, DOMAIN mod.activities, 0)
    BY LogBegun
  <2>3. LogInv'
    BY <1>1, <1>4, <2>1, <2>2 DEF LogInv
  <2> QED
    BY <1>4, <1>5, <1>8, <2>1, <2>3 DEF ModuleInv, FileArm
<1>9. CASE arm \in {"recent", "full_history"}
  <2>1. mod_step' = "tasks" /\ mod_todo' = {}
    BY <1>9 DEF BeginModule
  <2> QED
    BY <1>4, <1>5, <1>9, <2>1 DEF ModuleInv, FileArm, WriteInv
<1> QED
  BY <1>7, <1>8, <1>9 DEF ModuleArmNames

LEMMA ConsiderMemoryKeeps == ModuleInv /\ ConsiderMemory => ModuleInv'
<1> SUFFICES ASSUME ModuleInv, ConsiderMemory PROVE ModuleInv'
  OBVIOUS
<1>1. /\ mod_step = "render" /\ mod_todo # {} /\ RunRight /\ FileArm /\ FileInv
      /\ mod_run' = mod_run /\ mod_step' = mod_step
  BY DEF ModuleInv, ConsiderMemory
<1>2. PICK S : S = Active(mod_run.memories)
  OBVIOUS
<1>3. FileMemories(S) /\ mod_run.module \in Modules
  BY <1>1, <1>2, RunFiles
<1>4. FileSoFar(mod_run.module, S, mod_items, mod_omitted, mod_todo, mod_spent)
  BY <1>1, <1>2 DEF FileInv
<1>5. mod_todo \subseteq S
  BY <1>4 DEF FileSoFar
<1>6. PICK v : v = NextMemory
  OBVIOUS
<1>7. v \in mod_todo /\ \A w \in mod_todo \ {v} : AheadInFile(v, w)
  <2>1. \E u \in mod_todo : \A w \in mod_todo \ {u} : AheadInFile(u, w)
    BY <1>1, <1>3, <1>5, FirstInFile
  <2> QED
    BY <1>6, <2>1, Zenon DEF NextMemory
<1>8. mod_todo' = mod_todo \ {v}
  BY <1>6 DEF ConsiderMemory
<1>9. FileSoFar(mod_run.module, S, mod_items', mod_omitted', mod_todo', mod_spent')
  <2>1. CASE mod_spent + v.tokens > PackBudget
    <3>1. mod_omitted' = mod_omitted \cup {v} /\ mod_items' = mod_items /\ mod_spent' = mod_spent
      BY <1>6, <2>1 DEF ConsiderMemory
    <3>2. FileSoFar(mod_run.module, S, mod_items, mod_omitted \cup {v}, mod_todo \ {v}, mod_spent)
      BY <1>3, <1>4, <1>7, <2>1, FileOmits
    <3> QED
      BY <1>8, <3>1, <3>2
  <2>2. CASE ~(mod_spent + v.tokens > PackBudget)
    <3>1. /\ mod_items' = Append(mod_items, v) /\ mod_spent' = mod_spent + v.tokens
          /\ mod_omitted' = mod_omitted
      BY <1>6, <2>2 DEF ConsiderMemory
    <3>2. mod_spent + v.tokens <= PackBudget
      <4>1. v.tokens \in Nat
        BY <1>3, <1>5, <1>7, ContractsApart
      <4>2. mod_spent \in Nat
        BY <1>3, <1>4, SpentInFile
      <4> QED
        BY <2>2, <4>1, <4>2, ModuleArmAssumption
    <3>3. FileSoFar(mod_run.module, S, Append(mod_items, v), mod_omitted, mod_todo \ {v},
                    mod_spent + v.tokens)
      BY <1>3, <1>4, <1>7, <3>2, FileGrows
    <3> QED
      BY <1>8, <3>1, <3>3
  <2> QED
    BY <2>1, <2>2
<1>10. FileInv'
  BY <1>1, <1>2, <1>9 DEF FileInv
<1>11. RunRight' /\ FileArm' /\ mod_run'.arm # "raw_log" /\ mod_step' = "render"
  BY <1>1 DEF RunRight, FileArm
<1> QED
  BY <1>10, <1>11 DEF ModuleInv

LEMMA ConsiderActivityKeeps == ModuleInv /\ ConsiderActivity => ModuleInv'
<1> SUFFICES ASSUME ModuleInv, ConsiderActivity PROVE ModuleInv'
  OBVIOUS
<1>1. /\ mod_step = "log" /\ mod_todo # {} /\ RunRight /\ mod_run.arm = "raw_log" /\ LogInv
      /\ mod_run' = mod_run /\ mod_step' = mod_step
  BY DEF ModuleInv, ConsiderActivity
<1>2. PICK mod : mod = mod_run.module
  OBVIOUS
<1>3. mod \in Modules /\ LogSoFar(mod, mod_items, mod_todo, mod_spent)
  BY <1>1, <1>2 DEF RunRight, LogInv
<1>4. PICK n : n = NextActivity
  OBVIOUS
<1>5. n \in mod_todo /\ \A m \in mod_todo : m <= n
  <2>1. PICK A : A = mod.activities
    OBVIOUS
  <2>2. PICK first : first = Len(A) - Len(mod_items) + 1
    OBVIOUS
  <2>3. first - 1 \in mod_todo /\ \A m \in mod_todo : m <= first - 1
    BY <1>1, <1>3, <2>1, <2>2, LogNext
  <2> QED
    BY <1>4, <2>3 DEF NextActivity
<1>6. TokensOfActivity(n) = mod.activities[n].tokens
  BY <1>2 DEF TokensOfActivity
<1>7. LogSoFar(mod, mod_items', mod_todo', mod_spent')
  <2>1. CASE mod_spent + TokensOfActivity(n) > PackBudget
    <3>1. mod_todo' = {} /\ mod_items' = mod_items /\ mod_spent' = mod_spent
      BY <1>4, <2>1 DEF ConsiderActivity
    <3>2. LogSoFar(mod, mod_items, {}, mod_spent)
      BY <1>3, <1>5, <1>6, <2>1, LogEnds
    <3> QED
      BY <3>1, <3>2
  <2>2. CASE ~(mod_spent + TokensOfActivity(n) > PackBudget)
    <3>1. /\ mod_todo' = mod_todo \ {n} /\ mod_items' = <<n>> \o mod_items
          /\ mod_spent' = mod_spent + mod.activities[n].tokens
      BY <1>4, <1>6, <2>2 DEF ConsiderActivity
    <3>2. mod_spent + mod.activities[n].tokens <= PackBudget
      BY <1>3, <1>5, <1>6, <2>2, SpentOnLog, ModuleArmAssumption
    <3>3. LogSoFar(mod, <<n>> \o mod_items, mod_todo \ {n}, mod_spent + mod.activities[n].tokens)
      BY <1>3, <1>5, <3>2, LogGrows
    <3> QED
      BY <3>1, <3>3
  <2> QED
    BY <2>1, <2>2
<1>8. LogInv'
  BY <1>1, <1>2, <1>7 DEF LogInv
<1>9. RunRight' /\ ~FileArm' /\ mod_run'.arm = "raw_log" /\ mod_step' = "log"
  BY <1>1 DEF RunRight, FileArm
<1> QED
  BY <1>8, <1>9 DEF ModuleInv

\* When nothing is left to consider the replay of a curated arm is scored.
LEMMA EvidenceReadyKeeps == ModuleInv /\ EvidenceReady => ModuleInv'
<1> SUFFICES ASSUME ModuleInv, EvidenceReady PROVE ModuleInv'
  OBVIOUS
<1>1. /\ mod_step \in {"render", "log"} /\ mod_todo' = {} /\ mod_step' = "tasks"
      /\ mod_run' = mod_run /\ mod_items' = mod_items /\ mod_spent' = mod_spent
      /\ mod_omitted' = mod_omitted /\ mod_todo' = mod_todo
  BY DEF EvidenceReady
<1>2. RunRight /\ (FileArm => FileInv) /\ (mod_run.arm = "raw_log" => LogInv)
  BY <1>1 DEF ModuleInv
<1>3. RunRight' /\ (FileArm' => FileInv') /\ (mod_run'.arm = "raw_log" => LogInv')
  BY <1>1, <1>2 DEF RunRight, FileArm, FileInv, LogInv
<1>4. WriteInv'
  BY <1>1 DEF EvidenceReady, WriteInv
<1> QED
  BY <1>1, <1>3, <1>4 DEF ModuleInv

\* The tasks change nothing of the evidence, and the end of a run leaves
\* nothing of it.
LEMMA TasksKeep ==
  ASSUME ModuleInv, \/ \E labelled \in SUBSET Requirements :
                          RunTask([q \in labelled |-> "satisfied"])
                    \/ UNCHANGED modVars
  PROVE  ModuleInv'
<1>1. UNCHANGED <<mod_run, mod_step, mod_todo, mod_items, mod_spent, mod_omitted, mod_write>>
  BY DEF RunTask, modVars
<1>2. (RunRight' <=> RunRight) /\ (FileArm' <=> FileArm)
  BY <1>1 DEF RunRight, FileArm
<1>3. (FileInv' <=> FileInv) /\ (LogInv' <=> LogInv) /\ (WriteInv' <=> WriteInv)
  BY <1>1 DEF FileInv, LogInv, WriteInv
<1> QED
  BY <1>1, <1>2, <1>3 DEF ModuleInv

LEMMA FinishModuleKeeps == ModuleInv /\ FinishModule => ModuleInv'
BY DEF ModuleInv, FinishModule

LEMMA ModuleInvKept == ModuleInv /\ [ModuleNext]_modVars => ModuleInv'
<1> SUFFICES ASSUME ModuleInv, [ModuleNext]_modVars PROVE ModuleInv'
  OBVIOUS
<1>1. CASE StartModule
  BY <1>1, BeginModuleKeeps DEF StartModule
<1>2. CASE ConsiderMemory
  BY <1>2, ConsiderMemoryKeeps
<1>3. CASE ConsiderActivity
  BY <1>3, ConsiderActivityKeeps
<1>4. CASE EvidenceReady
  BY <1>4, EvidenceReadyKeeps
<1>5. CASE \E labelled \in SUBSET Requirements : RunTask([q \in labelled |-> "satisfied"])
  BY <1>5, TasksKeep
<1>6. CASE FinishModule
  BY <1>6, FinishModuleKeeps
<1>7. CASE UNCHANGED modVars
  BY <1>7, TasksKeep
<1> QED
  BY <1>1, <1>2, <1>3, <1>4, <1>5, <1>6, <1>7 DEF ModuleNext, ModuleStep

\* When the tasks begin the evidence and the scores are right.
LEMMA ModuleInvSound == ModuleInv => ModuleArmRight
<1> SUFFICES ASSUME ModuleInv, mod_step = "tasks" PROVE EvidenceRight /\ ReplayScoresAgree
  BY DEF ModuleArmRight
<1>1. /\ mod_todo = {} /\ WriteInv /\ RunRight
      /\ (FileArm => FileInv) /\ (mod_run.arm = "raw_log" => LogInv)
  BY DEF ModuleInv
<1>2. PICK mod : mod = mod_run.module
  OBVIOUS
<1>3. PICK S : S = Active(mod_run.memories)
  OBVIOUS
<1>4. mod \in Modules /\ FileMemories(mod_run.memories) /\ FileMemories(S)
  BY <1>1, <1>2, <1>3, RunFiles
<1>5. InFile = FileOf(mod_items)
  BY DEF InFile, FileOf
<1>6. ASSUME FileArm
      PROVE  /\ ContractsSaid(mod, mod_items)
             /\ InFile \cup mod_omitted = S /\ InFile \cap mod_omitted = {}
             /\ TokensAt(mod_items, MemoryPlaces(mod_items)) <= PackBudget
             /\ OmittedRightly(mod_items, mod_omitted) /\ FileOrder(mod_items)
  <2>1. FileSoFar(mod, S, mod_items, mod_omitted, {}, mod_spent)
    BY <1>1, <1>2, <1>3, <1>6 DEF FileInv
  <2> QED
    BY <1>5, <2>1 DEF FileSoFar
<1>7. ASSUME mod_run.arm = "raw_log"
      PROVE  LET first == Len(mod.activities) - Len(mod_items) + 1
             IN  /\ \A k \in DOMAIN mod_items : mod_items[k] = first + k - 1
                 /\ TokensOfLog <= PackBudget
                 /\ first > 1 => TokensOfLog + TokensOfActivity(first - 1) > PackBudget
  <2>1. LogSoFar(mod, mod_items, {}, mod_spent)
    BY <1>1, <1>2, <1>7 DEF LogInv
  <2>2. TokensOfLog = LogCost(mod, mod_items)
    BY <1>2 DEF TokensOfLog, LogCost, TokensOfActivity
  <2>3. PICK first : first = Len(mod.activities) - Len(mod_items) + 1
    OBVIOUS
  <2>4. /\ \A k \in DOMAIN mod_items : mod_items[k] = first + k - 1
        /\ mod_spent = TokensOfLog /\ mod_spent <= PackBudget
        /\ mod_items \in Seq(Nat)
        /\ \/ {} = 1..(first - 1)
           \/ first > 1 => mod_spent + mod.activities[first - 1].tokens > PackBudget
    BY <2>1, <2>2, <2>3 DEF LogSoFar
  <2>5. first \in Int
    <3>1. Len(mod.activities) \in Nat /\ Len(mod_items) \in Nat
      BY <1>4, <2>4, ActivitiesListed
    <3> QED
      BY <2>3, <3>1
  <2>6. {} = 1..(first - 1) => ~(first > 1)
    BY <2>5
  <2>7. TokensOfActivity(first - 1) = mod.activities[first - 1].tokens
    BY <1>2 DEF TokensOfActivity
  <2> QED
    BY <2>3, <2>4, <2>6, <2>7
<1>8. EvidenceRight
  <2>1. FileArm =>
          /\ ContractsSaid(mod, mod_items)
          /\ InFile \cup mod_omitted = Active(mod_run.memories) /\ InFile \cap mod_omitted = {}
          /\ TokensAt(mod_items, MemoryPlaces(mod_items)) <= PackBudget
          /\ OmittedRightly(mod_items, mod_omitted) /\ FileOrder(mod_items)
    BY <1>3, <1>6
  <2> QED
    BY <1>2, <1>7, <2>1 DEF EvidenceRight, ContractsSaid, OmittedRightly, FileOrder
<1>9. ReplayScoresAgree
  <2> SUFFICES ASSUME mod_run.arm = "pack"
               PROVE  /\ ReplayCountsAgree(mod_write.replay, mod_run.module.golds)
                      /\ AccountingAgrees(mod_write.accounting)
                      /\ mod_run.target = mod_run.module.lesson_of =>
                            mod_write.accounting.pair_fp = 0 /\ mod_write.accounting.pair_fn = 0
    BY DEF ReplayScoresAgree
  <2>1. PICK replay \in Replays[mod.id] : mod_run.target = replay.target
    BY <1>1, <1>2 DEF RunRight
  <2>2. /\ mod_write.replay = ReplayScore(mod, mod_run.memories)
        /\ mod_write.accounting = Accounting(mod, replay.target)
    BY <1>1, <1>2, <2>1 DEF WriteInv
  <2>3. MemoriesListed(mod_run.memories)
    BY <1>4 DEF FileMemories, MemoriesValid, MemoriesListed
  <2>4. ReplayCountsAgree(ReplayScore(mod, mod_run.memories), mod.golds)
    BY <1>4, <2>3, ReplayCounted
  <2>5. PICK a : a = Accounting(mod, replay.target)
    OBVIOUS
  <2>6. AccountingAgrees(a)
        /\ (replay.target = mod.lesson_of => a.pair_fp = 0 /\ a.pair_fn = 0)
    BY <1>4, <2>5, FailuresAccounted
  <2> QED
    BY <1>2, <2>1, <2>2, <2>4, <2>5, <2>6
<1> QED
  BY <1>8, <1>9

\* Whatever a replay left and whatever the budget: the file has every contract's
\* newest revision and the active memories in their order, and leaves out only
\* what does not fit behind those ahead of it; the raw log is the longest end of
\* the log that fits; and what is reported of the replay adds up
\* (_run_module_arm).
THEOREM ModuleEvidenceSound == ModuleSpec => []ModuleArmRight
<1>1. ModuleInit => ModuleInv
  BY ModuleInvInit
<1>2. ModuleInv /\ [ModuleNext]_modVars => ModuleInv'
  BY ModuleInvKept
<1>3. ModuleInv => ModuleArmRight
  BY ModuleInvSound
<1> QED
  BY <1>1, <1>2, <1>3, PTL DEF ModuleSpec
==============================================================================
