------------------------------ MODULE ServiceProofs ------------------------------
(***************************************************************************)
(* A recall fills its budget soundly; the embedding cache it shares with    *)
(* the other requests of its process never gives it a wrong vector; an     *)
(* audit judges the items that every list has first, and its report adds   *)
(* up: for any of the constants.                                           *)
(***************************************************************************)
EXTENDS MemoryOSService, EmbeddingCache, CollectionLemmas, FiniteSetTheorems,
        SequenceTheorems, TLAPS

-------------------------------------------------------------------------------
(***************************************************************************)
(* Recall: what is left out of an answer, and why.                         *)
(***************************************************************************)

RecallTypes ==
    /\ recall_pc \in {"idle", "rank", "fill", "done"}
    /\ recall.items \subseteq Items /\ recall.budget_tokens \in Nat /\ recall.k \in Nat
    /\ ranked \in Seq(recall.items) /\ dropped \in Seq(recall.items)
    /\ tokens_used \in Nat
    /\ recall_pc = "fill" => scores \in [recall.items -> Int]

\* Before the loop nothing is taken; between requests there is none.
StartInv ==
    /\ recall_pc \in {"idle", "rank"} => ranked = <<>> /\ dropped = <<>> /\ tokens_used = 0
    /\ recall_pc = "idle" => recall = NoRecall

\* The loop takes the items from the best to the worst.
OrderInv ==
    recall_pc = "fill" =>
        /\ \A x, y \in recall.items : Dominates(x, y) => Better(x, y)
        /\ \A x \in RangeOf(ranked) \cup RangeOf(dropped), y \in Pending : Better(x, y)

\* What was dropped does not fit in later either.
DroppedInv == recall_pc = "fill" => \A x \in RangeOf(dropped) : ~Fits(x)

RecallInv == RecallTypes /\ StartInv /\ OrderInv /\ DroppedInv /\ RecallSound

-------------------------------------------------------------------------------
\* A further element of a sequence.
LEMMA RangeOfAppend ==
  ASSUME NEW S, NEW s \in Seq(S), NEW x \in S
  PROVE  /\ RangeOf(Append(s, x)) = RangeOf(s) \cup {x}
         /\ Append(s, x) \in Seq(S) /\ Len(Append(s, x)) = Len(s) + 1
<1>1. DOMAIN s = 1..Len(s) /\ Len(s) \in Nat
  OBVIOUS
<1>2. /\ Append(s, x) \in Seq(S) /\ Len(Append(s, x)) = Len(s) + 1
      /\ DOMAIN Append(s, x) = 1..(Len(s) + 1)
      /\ \A i \in 1..Len(s) : Append(s, x)[i] = s[i]
      /\ Append(s, x)[Len(s) + 1] = x
  OBVIOUS
<1>3. \A q : q \in RangeOf(Append(s, x)) <=> \E i \in 1..(Len(s) + 1) : Append(s, x)[i] = q
  BY <1>2 DEF RangeOf
<1>4. \A q : q \in RangeOf(s) <=> \E i \in 1..Len(s) : s[i] = q
  BY <1>1 DEF RangeOf
<1>5. \A i : i \in 1..(Len(s) + 1) <=> (i \in 1..Len(s) \/ i = Len(s) + 1)
  BY <1>1
<1> QED
  BY <1>2, <1>3, <1>4, <1>5

\* The elements of a sequence are among those it is made of.
LEMMA RangeWithin ==
  ASSUME NEW S, NEW s \in Seq(S)
  PROVE  RangeOf(s) \subseteq S
BY DEF RangeOf

\* A reciprocal is a share, and less for a later rank.
LEMMA ReciprocalFalls ==
  ASSUME NEW i \in Nat, NEW j \in Nat, i <= j
  PROVE  Reciprocal(j) <= Reciprocal(i) /\ Reciprocal(i) \in Nat /\ Reciprocal(j) \in Nat
<1>1. Billion \in Nat /\ RRF_K + i \in Nat \ {0} /\ RRF_K + j \in Nat \ {0}
      /\ RRF_K + i <= RRF_K + j
  BY DEF Billion, RRF_K
<1>2. Billion \div (RRF_K + j) <= Billion \div (RRF_K + i)
  BY <1>1, DivisionFalls
<1>3. Billion \div (RRF_K + i) \in Nat /\ Billion \div (RRF_K + j) \in Nat
  BY <1>1, DivisionGrows
<1> QED
  BY <1>2, <1>3 DEF Reciprocal

\* A ranking is a list of items.
LEMMA RankingIsList ==
  ASSUME NEW s \in Rankings \cup {<<>>}
  PROVE  \E n \in Nat : s \in [1..n -> Items]
<1>1. CASE s = <<>>
  BY <1>1
<1>2. CASE s \in Rankings
  <2>1. s \in Arrangements(Items) /\ Cardinality(Items) \in Nat
    BY <1>2, RankFusionAssumption, FS_CardinalityType
  <2> QED
    BY <2>1 DEF Arrangements
<1> QED
  BY <1>1, <1>2

\* An item that a ranking has ahead of another gets no less from it.
LEMMA ShareGrows ==
  ASSUME NEW s \in Rankings \cup {<<>>}, NEW x, NEW y, RankedNoLater(x, y, s)
  PROVE  ShareOf(y, s) <= ShareOf(x, s) /\ ShareOf(x, s) \in Nat /\ ShareOf(y, s) \in Nat
<1>1. PICK n \in Nat : s \in [1..n -> Items]
  BY RankingIsList
<1>2. ASSUME NEW z, z \in RangeOf(s)
      PROVE  RankOf(z, s) \in Nat /\ ShareOf(z, s) = Reciprocal(RankOf(z, s))
  <2>1. \E i \in DOMAIN s : s[i] = z
    BY <1>2 DEF RangeOf
  <2>2. RankOf(z, s) \in DOMAIN s
    BY <2>1 DEF RankOf
  <2> QED
    BY <1>1, <1>2, <2>2 DEF ShareOf
<1>3. ASSUME NEW z, z \notin RangeOf(s)
      PROVE  ShareOf(z, s) = 0
  BY <1>3 DEF ShareOf
<1>4. \A z : ShareOf(z, s) \in Nat
  BY <1>2, <1>3, ReciprocalFalls
<1>5. CASE y \in RangeOf(s)
  <2>1. x \in RangeOf(s) /\ RankOf(x, s) < RankOf(y, s)
    BY <1>5 DEF RankedNoLater
  <2>2. RankOf(x, s) \in Nat /\ RankOf(y, s) \in Nat /\ RankOf(x, s) <= RankOf(y, s)
    BY <1>2, <1>5, <2>1
  <2>3. Reciprocal(RankOf(y, s)) <= Reciprocal(RankOf(x, s))
    BY <2>2, ReciprocalFalls
  <2> QED
    BY <1>2, <1>4, <1>5, <2>1, <2>3
<1>6. CASE y \notin RangeOf(s)
  BY <1>3, <1>4, <1>6
<1> QED
  BY <1>5, <1>6

\* A newer item gets no less for being recent.
LEMMA RecencyGrows ==
  ASSUME NEW items \in SUBSET Items, NEW x \in items, NEW y \in items,
         ItemSeq[x] > ItemSeq[y]
  PROVE  /\ Recency(y, items) <= Recency(x, items)
         /\ Recency(x, items) \in Nat /\ Recency(y, items) \in Nat
<1> DEFINE S == Seqs(items)
           before(z) == {s \in S : s < ItemSeq[z]}
<1>1. IsFiniteSet(S)
  <2> DEFINE f == [z \in items |-> ItemSeq[z]]
  <2>1. f \in Surjection(items, S)
    BY DEF Surjection, Seqs
  <2>2. IsFiniteSet(items)
    BY RankFusionAssumption, FS_Subset
  <2> QED
    BY <2>1, <2>2, FS_Surjection
<1>2. Cardinality(S) \in Nat
  BY <1>1, FS_CardinalityType
<1>3. /\ IsFiniteSet(before(x)) /\ IsFiniteSet(before(y))
      /\ Cardinality(before(x)) \in Nat /\ Cardinality(before(y)) \in Nat
  BY <1>1, FS_Subset, FS_CardinalityType
<1>4. before(y) \in SUBSET before(x)
  <2>1. \A z \in items : ItemSeq[z] \in Nat
    BY RankFusionAssumption
  <2>2. \A s \in S : s \in Nat
    BY <2>1 DEF Seqs
  <2>3. ItemSeq[x] \in Nat /\ ItemSeq[y] \in Nat
    BY <2>1
  <2> QED
    BY <2>2, <2>3
<1>5. Cardinality(before(y)) <= Cardinality(before(x))
  BY <1>3, <1>4, FS_Subset
<1>6. CASE Cardinality(S) <= 1
  BY <1>6 DEF Recency
<1>7. CASE ~(Cardinality(S) <= 1)
  <2> DEFINE d == Cardinality(S) - 1
             kx == Cardinality(before(x))
             ky == Cardinality(before(y))
  <2>1. d \in Nat \ {0}
    BY <1>2, <1>7
  <2>2. kx \in Nat /\ ky \in Nat /\ ky <= kx
    BY <1>3, <1>5
  <2>3. /\ Recency(x, items) = (RECENCY_MAX * kx) \div d
        /\ Recency(y, items) = (RECENCY_MAX * ky) \div d
    BY <1>7 DEF Recency
  <2> HIDE DEF d, kx, ky
  <2>4. /\ RECENCY_MAX * ky \in Nat /\ RECENCY_MAX * kx \in Nat
        /\ RECENCY_MAX * ky <= RECENCY_MAX * kx
    BY <2>2 DEF RECENCY_MAX
  <2>5. /\ (RECENCY_MAX * ky) \div d <= (RECENCY_MAX * kx) \div d
        /\ (RECENCY_MAX * ky) \div d \in Nat
    BY <2>1, <2>4, DivisionGrows
  <2>6. (RECENCY_MAX * kx) \div d \in Nat
    BY <2>1, <2>4, DivisionGrows
  <2> QED
    BY <2>3, <2>5, <2>6
<1> QED
  BY <1>6, <1>7

\* The better by every signal has no lower score.
LEMMA ScoreGrows ==
  ASSUME NEW r, r.items \in SUBSET Items, NEW x \in r.items, NEW y \in r.items,
         NEW lex \in Rankings \cup {<<>>}, NEW den \in Rankings \cup {<<>>},
         RankedNoLater(x, y, lex), RankedNoLater(x, y, den),
         y \in r.thread => x \in r.thread, y \in r.role => x \in r.role,
         ItemSeq[x] > ItemSeq[y]
  PROVE  Score(y, r, lex, den) <= Score(x, r, lex, den)
<1> DEFINE lx == ShareOf(x, lex)
           ly == ShareOf(y, lex)
           dx == ShareOf(x, den)
           dy == ShareOf(y, den)
           tx == IF x \in r.thread THEN THREAD_BONUS ELSE 0
           ty == IF y \in r.thread THEN THREAD_BONUS ELSE 0
           ox == IF x \in r.role THEN ROLE_BONUS ELSE 0
           oy == IF y \in r.role THEN ROLE_BONUS ELSE 0
           nx == Recency(x, r.items)
           ny == Recency(y, r.items)
<1>1. lx \in Nat /\ ly \in Nat /\ ly <= lx
  BY ShareGrows
<1>2. dx \in Nat /\ dy \in Nat /\ dy <= dx
  BY ShareGrows
<1>3. tx \in Nat /\ ty \in Nat /\ ty <= tx
  BY DEF THREAD_BONUS
<1>4. ox \in Nat /\ oy \in Nat /\ oy <= ox
  BY DEF ROLE_BONUS
<1>5. nx \in Nat /\ ny \in Nat /\ ny <= nx
  BY RecencyGrows
<1>6. /\ Score(x, r, lex, den) = (lx + dx + tx + ox + nx + 500) \div 1000
      /\ Score(y, r, lex, den) = (ly + dy + ty + oy + ny + 500) \div 1000
  BY DEF Score
<1> HIDE DEF lx, ly, dx, dy, tx, ty, ox, oy, nx, ny
<1>7. /\ lx + dx + tx + ox + nx + 500 \in Nat /\ ly + dy + ty + oy + ny + 500 \in Nat
      /\ ly + dy + ty + oy + ny + 500 <= lx + dx + tx + ox + nx + 500
  BY <1>1, <1>2, <1>3, <1>4, <1>5, SMTT(30)
<1> QED
  BY <1>6, <1>7, DivisionGrows

\* A share is a number.
LEMMA ShareIsNat ==
  ASSUME NEW s \in Rankings \cup {<<>>}, NEW x
  PROVE  ShareOf(x, s) \in Nat
<1>1. CASE x \in RangeOf(s)
  <2>1. PICK n \in Nat : s \in [1..n -> Items]
    BY RankingIsList
  <2>2. \E i \in DOMAIN s : s[i] = x
    BY <1>1 DEF RangeOf
  <2>3. RankOf(x, s) \in DOMAIN s
    BY <2>2 DEF RankOf
  <2>4. RankOf(x, s) \in Nat
    BY <2>1, <2>3
  <2>5. Reciprocal(RankOf(x, s)) \in Nat
    BY <2>4, ReciprocalFalls
  <2> QED
    BY <1>1, <2>5 DEF ShareOf
<1>2. CASE x \notin RangeOf(s)
  BY <1>2 DEF ShareOf
<1> QED
  BY <1>1, <1>2

\* So is the bonus for being recent.
LEMMA RecencyIsNat ==
  ASSUME NEW items \in SUBSET Items, NEW x \in items
  PROVE  Recency(x, items) \in Nat
<1> DEFINE S == Seqs(items)
           before == {s \in S : s < ItemSeq[x]}
<1>1. IsFiniteSet(S)
  <2> DEFINE f == [z \in items |-> ItemSeq[z]]
  <2>1. f \in Surjection(items, S)
    BY DEF Surjection, Seqs
  <2>2. IsFiniteSet(items)
    BY RankFusionAssumption, FS_Subset
  <2> QED
    BY <2>1, <2>2, FS_Surjection
<1>2. Cardinality(S) \in Nat /\ Cardinality(before) \in Nat
  BY <1>1, FS_Subset, FS_CardinalityType
<1>3. CASE Cardinality(S) <= 1
  BY <1>3 DEF Recency
<1>4. CASE ~(Cardinality(S) <= 1)
  <2> DEFINE d == Cardinality(S) - 1
             k == Cardinality(before)
  <2>1. d \in Nat \ {0} /\ k \in Nat
    BY <1>2, <1>4
  <2>2. Recency(x, items) = (RECENCY_MAX * k) \div d
    BY <1>4 DEF Recency
  <2> HIDE DEF d, k
  <2>3. RECENCY_MAX * k \in Nat
    BY <2>1 DEF RECENCY_MAX
  <2>4. (RECENCY_MAX * k) \div d \in Nat
    BY <2>1, <2>3, DivisionGrows
  <2> QED
    BY <2>2, <2>4
<1> QED
  BY <1>3, <1>4

\* And so is the score.
LEMMA ScoreIsInt ==
  ASSUME NEW r, r.items \in SUBSET Items, NEW x \in r.items,
         NEW lex \in Rankings \cup {<<>>}, NEW den \in Rankings \cup {<<>>}
  PROVE  Score(x, r, lex, den) \in Int
<1> DEFINE l == ShareOf(x, lex)
           d == ShareOf(x, den)
           t == IF x \in r.thread THEN THREAD_BONUS ELSE 0
           o == IF x \in r.role THEN ROLE_BONUS ELSE 0
           n == Recency(x, r.items)
<1>1. l \in Nat /\ d \in Nat
  BY ShareIsNat
<1>2. t \in Nat /\ o \in Nat
  BY DEF THREAD_BONUS, ROLE_BONUS
<1>3. n \in Nat
  BY RecencyIsNat
<1>4. Score(x, r, lex, den) = (l + d + t + o + n + 500) \div 1000
  BY DEF Score
<1> HIDE DEF l, d, t, o, n
<1>5. l + d + t + o + n + 500 \in Nat
  BY <1>1, <1>2, <1>3
<1> QED
  BY <1>4, <1>5, DivisionGrows

\* No two items are better than each other.
LEMMA BetterIsStrict ==
  ASSUME NEW x \in Items, NEW y \in Items, scores[x] \in Int, scores[y] \in Int,
         Better(x, y)
  PROVE  ~Better(y, x)
<1>1. x \in Nat /\ y \in Nat /\ ItemSeq[x] \in Nat /\ ItemSeq[y] \in Nat
  BY RankFusionAssumption
<1> QED
  BY <1>1 DEF Better

-------------------------------------------------------------------------------
\* Between requests.
LEMMA NothingIsSound ==
  /\ RecallInit => RecallInv
  /\ ForgetRecall => RecallInv'
<1>1. RangeOf(<<>>) = {} /\ NoRecall.items = {}
  BY DEF RangeOf, NoRecall
<1>2. NoRecall.budget_tokens = 1 /\ NoRecall.k = 1
  BY DEF NoRecall
<1>3. RecallInit => RecallInv
  BY <1>1, <1>2 DEF RecallInit, RecallInv, RecallTypes, StartInv, OrderInv, DroppedInv, RecallSound,
                    AccountedWithinBudget, LeftOutForSizeOnly
<1>4. ForgetRecall => RecallInv'
  BY <1>1, <1>2 DEF ForgetRecall, RecallInv, RecallTypes, StartInv, OrderInv, DroppedInv, RecallSound,
                    AccountedWithinBudget, LeftOutForSizeOnly
<1> QED
  BY <1>3, <1>4

\* A request comes in.
LEMMA AcceptKeeps ==
  ASSUME RecallInv, NEW r \in RecallRequests, AcceptRecall(r)
  PROVE  RecallInv'
<1>1. /\ recall_pc' = "rank" /\ recall' = r /\ ranked' = <<>> /\ dropped' = <<>>
      /\ tokens_used' = 0
  BY DEF AcceptRecall, RecallInv, StartInv
<1>2. r.items \subseteq Items /\ r.budget_tokens \in Nat /\ r.k \in Nat
  BY RecallAssumption
<1>3. RangeOf(<<>>) = {}
  BY DEF RangeOf
<1>4. RecallTypes' /\ StartInv' /\ OrderInv' /\ DroppedInv'
  BY <1>1, <1>2 DEF RecallTypes, StartInv, OrderInv, DroppedInv
<1>5. RecallSound'
  BY <1>1, <1>2, <1>3 DEF RecallSound, AccountedWithinBudget, LeftOutForSizeOnly
<1> QED
  BY <1>4, <1>5 DEF RecallInv

\* The items are ranked and scored.
LEMMA RankKeeps ==
  ASSUME RecallInv, RankItems
  PROVE  RecallInv'
<1> DEFINE den == IF dense' = Unranked THEN <<>> ELSE dense'
<1>1. /\ recall_pc = "rank" /\ recall_pc' = "fill" /\ recall' = recall
      /\ ranked' = <<>> /\ dropped' = <<>> /\ tokens_used' = 0
      /\ scores' = [x \in recall.items |-> Score(x, recall, lexical', den)]
      /\ lexical' \in Rankings \cup {<<>>} /\ dense' \in Rankings \cup {<<>>, Unranked}
  BY DEF RankItems, RankingsOf, RecallInv, StartInv
<1>2. den \in Rankings \cup {<<>>}
  BY <1>1
<1>3. RecallTypes
  BY DEF RecallInv
<1>4. recall.items \in SUBSET Items
  BY <1>3 DEF RecallTypes
<1> HIDE DEF den
<1>5. scores' \in [recall.items -> Int]
  BY <1>1, <1>2, <1>4, ScoreIsInt
<1>6. RecallTypes' /\ StartInv'
  BY <1>1, <1>3, <1>5 DEF RecallTypes, StartInv
<1>7. RangeOf(<<>>) = {}
  BY DEF RangeOf
<1>8. ASSUME NEW x \in recall.items, NEW y \in recall.items, Dominates(x, y)'
      PROVE  Better(x, y)'
  <2>1. /\ RankedNoLater(x, y, lexical') /\ RankedNoLater(x, y, dense')
        /\ y \in recall.thread => x \in recall.thread
        /\ y \in recall.role => x \in recall.role
        /\ ItemSeq[x] > ItemSeq[y]
    BY <1>1, <1>8 DEF Dominates, RankedNoLater
  <2>2. RankedNoLater(x, y, den)
    BY <1>7, <2>1 DEF den, RankedNoLater
  <2>3. Score(y, recall, lexical', den) <= Score(x, recall, lexical', den)
    BY <1>1, <1>2, <1>4, <2>1, <2>2, ScoreGrows
  <2>4. scores'[y] <= scores'[x] /\ scores'[x] \in Int /\ scores'[y] \in Int
    BY <1>1, <1>5, <2>3
  <2> QED
    BY <2>1, <2>4 DEF Better
<1>9. OrderInv' /\ DroppedInv'
  BY <1>1, <1>7, <1>8 DEF OrderInv, DroppedInv
<1>10. RecallSound'
  BY <1>1, <1>3, <1>7 DEF RecallTypes, RecallSound, AccountedWithinBudget, LeftOutForSizeOnly
<1> QED
  BY <1>6, <1>9, <1>10 DEF RecallInv

\* The next item is taken or dropped.
LEMMA ConsiderKeeps ==
  ASSUME RecallInv, ConsiderItem
  PROVE  RecallInv'
<1>1. PICK x \in Pending :
        /\ \A y \in Pending \ {x} : Better(x, y)
        /\ \/ /\ Fits(x)
              /\ ranked' = Append(ranked, x)
              /\ tokens_used' = tokens_used + Tokens[x]
              /\ UNCHANGED dropped
           \/ /\ ~Fits(x)
              /\ dropped' = Append(dropped, x)
              /\ UNCHANGED <<ranked, tokens_used>>
  BY DEF ConsiderItem
<1>2. /\ recall_pc = "fill" /\ recall_pc' = recall_pc /\ recall' = recall
      /\ scores' = scores /\ lexical' = lexical /\ dense' = dense
  BY DEF ConsiderItem
<1>3. RecallTypes /\ OrderInv /\ DroppedInv /\ RecallSound
  BY DEF RecallInv
<1>4. /\ ranked \in Seq(recall.items) /\ dropped \in Seq(recall.items)
      /\ recall.items \subseteq Items /\ recall.budget_tokens \in Nat /\ recall.k \in Nat
      /\ tokens_used \in Nat /\ scores \in [recall.items -> Int]
  BY <1>2, <1>3 DEF RecallTypes
<1>5. /\ x \in recall.items /\ x \notin RangeOf(ranked) /\ x \notin RangeOf(dropped)
  BY <1>1 DEF Pending
<1>6. /\ RangeOf(ranked) \subseteq recall.items /\ RangeOf(dropped) \subseteq recall.items
  BY <1>4, RangeWithin
<1>7. \A z \in recall.items : Tokens[z] \in Nat
  BY <1>4, RecallAssumption
<1>8. Len(ranked) \in Nat /\ Len(dropped) \in Nat
  BY <1>4
<1>9. /\ \A y, z \in recall.items : Dominates(y, z) => Better(y, z)
      /\ \A y \in RangeOf(ranked) \cup RangeOf(dropped), z \in Pending : Better(y, z)
  BY <1>2, <1>3 DEF OrderInv
<1>10. \A y \in RangeOf(dropped) : ~Fits(y)
  BY <1>2, <1>3 DEF DroppedInv
<1>11. /\ tokens_used <= recall.budget_tokens /\ Len(ranked) <= recall.k
       /\ RangeOf(ranked) \cap RangeOf(dropped) = {}
       /\ \A y \in RangeOf(dropped), z \in RangeOf(ranked) :
              Dominates(y, z) => Tokens[y] > Tokens[z]
  BY <1>3 DEF RecallSound, AccountedWithinBudget, LeftOutForSizeOnly
<1>12. /\ \A y, z : Better(y, z)' <=> Better(y, z)
       /\ \A y, z : Dominates(y, z)' <=> Dominates(y, z)
  BY <1>2 DEF Better, Dominates, RankedNoLater
\* What both branches need: the taken and dropped grow by x, in order.
<1>13. ASSUME RangeOf(ranked') \cup RangeOf(dropped')
                = RangeOf(ranked) \cup RangeOf(dropped) \cup {x}
       PROVE  OrderInv'
  <2>1. Pending' = Pending \ {x}
    BY <1>2, <1>13 DEF Pending
  <2>2. \A y \in RangeOf(ranked') \cup RangeOf(dropped'), z \in Pending' : Better(y, z)
    BY <1>1, <1>9, <1>13, <2>1
  <2>3. \A y, z \in recall'.items : Dominates(y, z)' => Better(y, z)'
    BY <1>2, <1>9, <1>12
  <2>4. \A y \in RangeOf(ranked') \cup RangeOf(dropped'), z \in Pending' : Better(y, z)'
    BY <1>12, <2>2
  <2> QED
    BY <2>3, <2>4 DEF OrderInv
<1>14. CASE /\ Fits(x) /\ ranked' = Append(ranked, x)
            /\ tokens_used' = tokens_used + Tokens[x] /\ dropped' = dropped
  <2>1. /\ RangeOf(ranked') = RangeOf(ranked) \cup {x} /\ RangeOf(dropped') = RangeOf(dropped)
        /\ ranked' \in Seq(recall.items) /\ Len(ranked') = Len(ranked) + 1
    BY <1>4, <1>5, <1>14, RangeOfAppend
  <2>2. Len(ranked) < recall.k /\ tokens_used + Tokens[x] <= recall.budget_tokens
    BY <1>14 DEF Fits
  <2>3. tokens_used' \in Nat /\ tokens_used' >= tokens_used /\ tokens_used' <= recall.budget_tokens
    BY <1>4, <1>5, <1>7, <1>14, <2>2
  <2>4. Len(ranked') <= recall.k
    BY <1>4, <1>8, <2>1, <2>2
  <2>5. RecallTypes' /\ StartInv'
    BY <1>2, <1>4, <1>14, <2>1, <2>3 DEF RecallTypes, StartInv
  <2>6. OrderInv'
    BY <1>13, <2>1
  <2>7. \A y \in RangeOf(dropped') : ~Fits(y)'
    <3> SUFFICES ASSUME NEW y \in RangeOf(dropped)
                 PROVE  ~Fits(y)'
      BY <2>1
    <3>1. Tokens[y] \in Nat /\ ~(Len(ranked) < recall.k
                                 /\ tokens_used + Tokens[y] <= recall.budget_tokens)
      BY <1>6, <1>7, <1>10 DEF Fits
    <3>2. ~(Len(ranked') < recall.k /\ tokens_used' + Tokens[y] <= recall.budget_tokens)
      BY <1>4, <1>8, <2>1, <2>3, <3>1
    <3> QED
      BY <1>2, <3>2 DEF Fits
  <2>8. DroppedInv'
    BY <2>7 DEF DroppedInv
  <2>9. \A y \in RangeOf(dropped) : Tokens[y] > Tokens[x]
    <3> SUFFICES ASSUME NEW y \in RangeOf(dropped)
                 PROVE  Tokens[y] > Tokens[x]
      OBVIOUS
    <3>1. Tokens[y] \in Nat /\ ~(tokens_used + Tokens[y] <= recall.budget_tokens)
      BY <1>6, <1>7, <1>10, <2>2 DEF Fits
    <3> QED
      BY <1>4, <1>5, <1>7, <2>2, <3>1
  <2>10. AccountedWithinBudget'
    BY <1>2, <1>5, <1>11, <2>1, <2>3, <2>4 DEF AccountedWithinBudget
  <2>11. LeftOutForSizeOnly'
    BY <1>11, <1>12, <2>1, <2>9 DEF LeftOutForSizeOnly
  <2> QED
    BY <2>5, <2>6, <2>8, <2>10, <2>11 DEF RecallInv, RecallSound
<1>15. CASE /\ ~Fits(x) /\ dropped' = Append(dropped, x)
            /\ ranked' = ranked /\ tokens_used' = tokens_used
  <2>1. /\ RangeOf(dropped') = RangeOf(dropped) \cup {x} /\ RangeOf(ranked') = RangeOf(ranked)
        /\ dropped' \in Seq(recall.items)
    BY <1>4, <1>5, <1>15, RangeOfAppend
  <2>2. RecallTypes' /\ StartInv'
    BY <1>2, <1>4, <1>15, <2>1 DEF RecallTypes, StartInv
  <2>3. OrderInv'
    BY <1>13, <2>1
  <2>4. \A y : Fits(y)' <=> Fits(y)
    BY <1>2, <1>15 DEF Fits
  <2>5. DroppedInv'
    BY <1>10, <1>15, <2>1, <2>4 DEF DroppedInv
  <2>6. \A z \in RangeOf(ranked) : ~Dominates(x, z)
    <3> SUFFICES ASSUME NEW z \in RangeOf(ranked), Dominates(x, z)
                 PROVE  FALSE
      OBVIOUS
    <3>1. z \in recall.items /\ z \in Items /\ x \in Items
      BY <1>4, <1>5, <1>6
    <3>2. scores[x] \in Int /\ scores[z] \in Int
      BY <1>4, <1>5, <3>1
    <3>3. Better(x, z)
      BY <1>5, <1>9, <3>1
    <3>4. Better(z, x)
      BY <1>1, <1>9
    <3> QED
      BY <3>1, <3>2, <3>3, <3>4, BetterIsStrict
  <2>7. AccountedWithinBudget'
    BY <1>2, <1>5, <1>11, <1>15, <2>1 DEF AccountedWithinBudget
  <2>8. LeftOutForSizeOnly'
    BY <1>11, <1>12, <2>1, <2>6 DEF LeftOutForSizeOnly
  <2> QED
    BY <2>2, <2>3, <2>5, <2>7, <2>8 DEF RecallInv, RecallSound
<1> QED
  BY <1>1, <1>14, <1>15

\* The answer is given.
LEMMA AnswerKeeps ==
  ASSUME RecallInv, AnswerRecall
  PROVE  RecallInv'
<1>1. /\ recall_pc = "fill" /\ recall_pc' = "done" /\ Pending = {} /\ recall' = recall
      /\ scores' = scores /\ lexical' = lexical /\ dense' = dense
      /\ ranked' = ranked /\ dropped' = dropped /\ tokens_used' = tokens_used
  BY DEF AnswerRecall
<1>2. RecallTypes /\ RecallSound
  BY DEF RecallInv
<1>3. RecallTypes' /\ StartInv' /\ OrderInv' /\ DroppedInv'
  BY <1>1, <1>2 DEF RecallTypes, StartInv, OrderInv, DroppedInv
<1>4. RangeOf(ranked) \cup RangeOf(dropped) = recall.items
  <2>1. RangeOf(ranked) \subseteq recall.items /\ RangeOf(dropped) \subseteq recall.items
    BY <1>2, RangeWithin DEF RecallTypes
  <2> QED
    BY <1>1, <2>1 DEF Pending
<1>5. AccountedWithinBudget'
  BY <1>1, <1>2, <1>4 DEF RecallSound, AccountedWithinBudget
<1>6. LeftOutForSizeOnly'
  BY <1>1, <1>2 DEF RecallSound, LeftOutForSizeOnly, Dominates, RankedNoLater
<1> QED
  BY <1>3, <1>5, <1>6 DEF RecallInv, RecallSound

\* The other route leaves all of it alone.
LEMMA SimilarKeeps ==
  ASSUME RecallInv, NEW r, NEW e, AnswerSimilar(r, e)
  PROVE  RecallInv'
<1>1. /\ recall_pc = "idle" /\ recall_pc' = "done" /\ recall' = recall /\ recall = NoRecall
      /\ ranked' = <<>> /\ dropped' = <<>> /\ tokens_used' = 0
  BY DEF AnswerSimilar, RecallInv, StartInv
<1>2. RangeOf(<<>>) = {} /\ NoRecall.items = {} /\ NoRecall.budget_tokens = 1 /\ NoRecall.k = 1
  BY DEF RangeOf, NoRecall
<1>3. RecallTypes' /\ StartInv' /\ OrderInv' /\ DroppedInv'
  BY <1>1, <1>2 DEF RecallTypes, StartInv, OrderInv, DroppedInv
<1>4. RecallSound'
  BY <1>1, <1>2 DEF RecallSound, AccountedWithinBudget, LeftOutForSizeOnly
<1> QED
  BY <1>3, <1>4 DEF RecallInv

\* Nothing happens.
LEMMA StutterKeeps ==
  ASSUME RecallInv, UNCHANGED recallVars
  PROVE  RecallInv'
<1>1. RecallTypes' /\ StartInv' /\ OrderInv' /\ DroppedInv'
  BY DEF recallVars, RecallInv, RecallTypes, StartInv, OrderInv, DroppedInv, Pending, Fits, Better,
         Dominates, RankedNoLater
<1>2. RecallSound'
  BY DEF recallVars, RecallInv, RecallSound, AccountedWithinBudget, LeftOutForSizeOnly, Dominates,
         RankedNoLater
<1> QED
  BY <1>1, <1>2 DEF RecallInv

\* RecallSound: a recall keeps within its budget and k, accounts for every item
\* once, and leaves an item out for one that is worse by every signal only when
\* it is larger.
THEOREM RecallsAreSound == RecallSpec => []RecallSound
<1>1. RecallInit => RecallInv
  BY NothingIsSound
<1>2. RecallInv /\ [RecallNext]_recallVars => RecallInv'
  <2> SUFFICES ASSUME RecallInv, [RecallNext]_recallVars
               PROVE  RecallInv'
    OBVIOUS
  <2>1. CASE \E r \in RecallRequests : AcceptRecall(r)
    BY <2>1, AcceptKeeps
  <2>2. CASE RankItems
    BY <2>2, RankKeeps
  <2>3. CASE ConsiderItem
    BY <2>3, ConsiderKeeps
  <2>4. CASE AnswerRecall
    BY <2>4, AnswerKeeps
  <2>5. CASE \E r \in SimilarRequests, e \in BOOLEAN : AnswerSimilar(r, e)
    BY <2>5, SimilarKeeps
  <2>6. CASE ForgetRecall
    BY <2>6, NothingIsSound
  <2>7. CASE UNCHANGED recallVars
    BY <2>7, StutterKeeps
  <2> QED
    BY <2>1, <2>2, <2>3, <2>4, <2>5, <2>6, <2>7 DEF RecallNext
<1>3. RecallInv => RecallSound
  BY DEF RecallInv
<1> QED
  BY <1>1, <1>2, <1>3, PTL DEF RecallSpec

-------------------------------------------------------------------------------
(***************************************************************************)
(* EmbeddingCache: vectors, lookups and evictions.                         *)
(***************************************************************************)

Labels == {"idle", "look", "embed", "update", "touch", "evict", "pop", "read"}
Faults == {"none", "provider", "lookup"}
Outcomes == {"dense", "lexical", "unavailable", "server_error"}
Served == {"recall", "similar", "audit"}
Answers == [route: Served, texts: Seq(Texts), vectors: Seq(Texts), outcome: Outcomes,
            fault: Faults, alone: BOOLEAN]

TypeOK ==
    /\ IsFiniteSet(Keys)
    /\ Keys \subseteq Texts
    /\ pc \in [Threads -> Labels]
    /\ request \in [Threads -> Requests \cup {Idle}]
    /\ \A t \in Threads : pc[t] # "idle" => request[t] \in Requests
    /\ at \in [Threads -> Nat]
    /\ missing \in [Threads -> Seq(Texts)]
    /\ batch \in [Threads -> Seq(Texts)]
    /\ taken \in [Threads -> Seq(Texts)]
    /\ alone \in [Threads -> BOOLEAN]
    /\ answers \subseteq Answers
    /\ started \in Nat

OwnTexts(t) == {request[t].texts[i] : i \in 1..Len(request[t].texts)}

\* Every text is cached with its own vector.
VectorsNamed == cache = [x \in Keys |-> x]

\* The order of the dict is a strict linear order of its keys.
LinearOrder == IsLinearOrder(older, Keys)

\* Where a thread stands in its loops, and what it carries between them.
Position(t) ==
    /\ pc[t] \in {"look", "embed", "update", "touch"} => at[t] \in 1..Len(request[t].texts)
    /\ pc[t] = "read" => at[t] \in 1..Len(request[t].texts) \/ request[t].texts = <<>>
    /\ pc[t] \notin {"look", "touch", "read"} => at[t] = 1
    /\ request[t].texts = <<>> => at[t] = 1
Carried(t) ==
    /\ \A i, j \in 1..Len(missing[t]) : missing[t][i] = missing[t][j] => i = j
    /\ pc[t] = "update" => batch[t] = missing[t]
    /\ Len(taken[t]) = IF pc[t] = "read" THEN at[t] - 1 ELSE 0
    /\ \A i \in 1..Len(taken[t]) : taken[t][i] = request[t].texts[i]

\* What a thread that nobody overlaps may rely on.
Younger(t, i) == \A y \in Keys \ OwnTexts(t) : <<y, request[t].texts[i]>> \in older
Secured(t) ==
    /\ pc[t] \in {"look", "embed", "update"} =>
          \A i \in 1..Len(request[t].texts) :
              pc[t] # "look" \/ i < at[t] => request[t].texts[i] \in Keys \cup ToSet(missing[t])
    /\ pc[t] \in {"touch", "evict", "pop", "read"} =>
          \A i \in 1..Len(request[t].texts) :
              /\ request[t].texts[i] \in Keys
              /\ pc[t] # "touch" \/ i < at[t] => Younger(t, i)
    /\ pc[t] = "pop" => Cardinality(Keys) > Len(request[t].texts)
Undisturbed(t) == Busy = {t} /\ Secured(t)

Popping == {t \in Threads : pc[t] = "pop"}

\* The cache is over its size only while some thread is yet to evict.
Cleared ==
    \/ \E a \in answers : a.fault = "lookup"
    \/ \E t \in Threads : pc[t] \in {"touch", "evict", "pop"}
    \/ \E t \in Threads : pc[t] = "read" /\ Cardinality(Keys) <= Len(request[t].texts)
    \/ Cardinality(Keys) <= Capacity
    \/ \E a \in answers : Cardinality(Keys) <= Len(a.texts)

CacheInv ==
    /\ TypeOK
    /\ VectorsNamed
    /\ LinearOrder
    /\ \A t \in Threads : Position(t) /\ Carried(t)
    /\ \A t \in Threads : alone[t] /\ pc[t] # "idle" => Undisturbed(t)
    /\ Cardinality(Popping) <= Cardinality(Keys)
    /\ Cleared
    /\ VectorsOfOwnTexts
    /\ LoneRequestIsDense

-------------------------------------------------------------------------------
LEMMA Basics ==
  /\ IsFiniteSet(Threads) /\ Capacity \in Nat /\ Cardinality(Threads) \in Nat
  /\ Cardinality(Threads) <= Capacity + 1 /\ MaxRequests \in Nat
  /\ \A r \in Requests : r.route \in Served /\ r.texts \in Seq(Texts)
                        /\ Len(r.texts) \in Nat /\ DOMAIN r.texts = 1..Len(r.texts)
  /\ Idle.texts = <<>> /\ Len(Idle.texts) = 0 /\ Idle.texts \in Seq(Texts)
<1>1. \A r \in Requests : r \in [route: Served, texts: Seq(Texts)]
  BY PoolAssumption DEF Served
<1>2. \A r \in Requests : r.route \in Served /\ r.texts \in Seq(Texts)
  BY <1>1
<1> QED
  BY <1>2, PoolAssumption, FS_CardinalityType DEF Idle

\* What a thread's request is.
LEMMA Asked ==
  ASSUME TypeOK, NEW t \in Threads
  PROVE  /\ request[t].texts \in Seq(Texts) /\ Len(request[t].texts) \in Nat
         /\ \A i \in 1..Len(request[t].texts) : request[t].texts[i] \in Texts
         /\ request[t].texts = <<>> <=> Len(request[t].texts) = 0
         /\ pc[t] # "idle" => request[t].route \in Served
         /\ at[t] \in Nat
<1>1. request[t] \in Requests \cup {Idle}
  BY DEF TypeOK
<1>2. request[t].texts \in Seq(Texts)
  BY <1>1, Basics
<1> QED
  BY <1>2, Basics DEF TypeOK

\* The record of an answer, and the state its thread is left in.
LEMMA Responded ==
  ASSUME CacheInv, NEW t \in Threads, pc[t] # "idle", NEW fault \in Faults, NEW vectors \in Seq(Texts),
         UNCHANGED <<cache, older>>, Respond(t, fault, vectors),
         fault = "none" => vectors = request[t].texts,
         alone[t] => fault # "lookup",
         fault = "none" /\ Cardinality(Keys) > Capacity
            => \/ Cardinality(Keys) <= Len(request[t].texts)
               \/ \E u \in Threads \ {t} : pc[u] \in {"touch", "evict", "pop"}
               \/ \E u \in Threads \ {t} : pc[u] = "read" /\ Cardinality(Keys) <= Len(request[u].texts)
               \/ \E a \in answers : Cardinality(Keys) <= Len(a.texts) \/ a.fault = "lookup",
         fault = "provider" => pc[t] = "embed"
  PROVE  CacheInv'
<1> DEFINE outcome == OutcomeOf(request[t].route, fault)
           a == [route |-> request[t].route, texts |-> request[t].texts, vectors |-> vectors,
                 outcome |-> outcome, fault |-> fault, alone |-> alone[t]]
<1>0. /\ TypeOK /\ VectorsNamed /\ LinearOrder /\ Cleared /\ VectorsOfOwnTexts /\ LoneRequestIsDense
      /\ \A u \in Threads : Position(u) /\ Carried(u)
      /\ \A u \in Threads : alone[u] /\ pc[u] # "idle" => Undisturbed(u)
  BY DEF CacheInv
<1>1. request[t].route \in Served /\ request[t].texts \in Seq(Texts)
  BY <1>0, Asked
<1>2. outcome \in Outcomes /\ (outcome = "dense" <=> fault = "none")
  <2>1. CASE fault = "none"
    BY <2>1 DEF OutcomeOf, Outcomes
  <2>2. CASE fault # "none" /\ request[t].route \in {"recall", "similar"}
    BY <2>2 DEF OutcomeOf, Outcomes
  <2>3. CASE fault # "none" /\ request[t].route = "audit"
    BY <2>3 DEF OutcomeOf, Outcomes, Faults
  <2> QED
    BY <1>1, <2>1, <2>2, <2>3 DEF Served
<1> HIDE DEF outcome
<1>3. a \in Answers
  BY <1>0, <1>1, <1>2 DEF Answers, TypeOK
<1>4. answers' = answers \cup {a}
  BY DEF Respond, outcome
<1>8. a.fault = fault /\ a.texts = request[t].texts /\ a.vectors = vectors
      /\ a.outcome = outcome /\ a.alone = alone[t]
  OBVIOUS
<1> HIDE DEF a
<1>5. /\ pc' = [pc EXCEPT ![t] = "idle"] /\ request' = [request EXCEPT ![t] = Idle]
      /\ at' = [at EXCEPT ![t] = 1] /\ missing' = [missing EXCEPT ![t] = <<>>]
      /\ batch' = [batch EXCEPT ![t] = <<>>] /\ taken' = [taken EXCEPT ![t] = <<>>]
      /\ alone' = [alone EXCEPT ![t] = TRUE] /\ started' = started
  BY DEF Respond
<1>6. /\ pc'[t] = "idle" /\ request'[t] = Idle /\ at'[t] = 1 /\ missing'[t] = <<>> /\ taken'[t] = <<>>
      /\ \A u \in Threads \ {t} :
            /\ pc'[u] = pc[u] /\ request'[u] = request[u] /\ at'[u] = at[u]
            /\ missing'[u] = missing[u] /\ batch'[u] = batch[u] /\ taken'[u] = taken[u]
            /\ alone'[u] = alone[u]
  BY <1>0, <1>5 DEF TypeOK
<1>7. Keys' = Keys
  BY DEF Keys
<1>a. TypeOK'
  <2>1. <<>> \in Seq(Texts)
    OBVIOUS
  <2>2. answers' \subseteq Answers
    BY <1>0, <1>3, <1>4 DEF TypeOK
  <2> QED
    BY <1>0, <1>5, <1>7, <2>1, <2>2 DEF TypeOK, Labels
<1>b. VectorsNamed' /\ LinearOrder'
  BY <1>0, <1>7 DEF VectorsNamed, LinearOrder
<1>c. ASSUME NEW u \in Threads PROVE Position(u)' /\ Carried(u)'
  <2>1. CASE u = t
    BY <2>1, <1>6, Basics DEF Position, Carried
  <2>2. CASE u # t
    <3>1. /\ pc'[u] = pc[u] /\ request'[u] = request[u] /\ at'[u] = at[u]
          /\ missing'[u] = missing[u] /\ batch'[u] = batch[u] /\ taken'[u] = taken[u]
      BY <2>2, <1>6
    <3>2. Position(u) /\ Carried(u)
      BY <1>0
    <3> QED
      BY <3>1, <3>2 DEF Position, Carried
  <2> QED
    BY <2>1, <2>2
<1>d. ASSUME NEW u \in Threads, alone'[u], pc'[u] # "idle" PROVE Undisturbed(u)'
  <2>1. u # t /\ alone[u] /\ pc[u] # "idle"
    BY <1>d, <1>6
  <2>2. Busy = {u}
    BY <1>0, <2>1 DEF Undisturbed
  <2> QED
    BY <2>1, <2>2 DEF Busy
<1>e. Cardinality(Popping') <= Cardinality(Keys')
  <2>1. Popping' = Popping \ {t}
    BY <1>6 DEF Popping
  <2>2. Popping \subseteq Threads
    BY DEF Popping
  <2>3. IsFiniteSet(Popping) /\ IsFiniteSet(Popping')
    BY <2>1, <2>2, Basics, FS_Subset
  <2>4. Cardinality(Popping') <= Cardinality(Popping)
    BY <2>1, <2>3, FS_Subset
  <2>5. Cardinality(Popping') \in Nat /\ Cardinality(Popping) \in Nat /\ Cardinality(Keys) \in Nat
    BY <1>0, <2>3, FS_CardinalityType DEF TypeOK
  <2> QED
    BY <2>4, <2>5, <1>7 DEF CacheInv
<1>f. Cleared'
  <2>1. CASE fault = "lookup"
    BY <2>1, <1>4, <1>8 DEF Cleared
  <2>2. CASE fault = "provider"
    <3>1. pc[t] = "embed"
      BY <2>2
    <3>2. CASE \E u \in Threads : pc[u] \in {"touch", "evict", "pop"}
      BY <3>1, <3>2, <1>6 DEF Cleared
    <3>3. CASE \E u \in Threads : pc[u] = "read" /\ Cardinality(Keys) <= Len(request[u].texts)
      <4>1. PICK u \in Threads : pc[u] = "read" /\ Cardinality(Keys) <= Len(request[u].texts)
        BY <3>3
      <4>2. u \in Threads \ {t}
        BY <4>1, <3>1
      <4>3. pc'[u] = "read" /\ Cardinality(Keys') <= Len(request'[u].texts)
        BY <4>1, <4>2, <1>6, <1>7
      <4> QED
        BY <4>3 DEF Cleared
    <3>4. CASE Cardinality(Keys) <= Capacity \/ \E b \in answers : Cardinality(Keys) <= Len(b.texts) \/ b.fault = "lookup"
      BY <3>4, <1>4, <1>7 DEF Cleared
    <3> QED
      BY <3>2, <3>3, <3>4, <1>0 DEF Cleared
  <2>3. CASE fault = "none"
    <3>1. Cardinality(Keys) \in Nat /\ Capacity \in Nat
      BY <1>0, Basics, FS_CardinalityType DEF TypeOK
    <3>2. CASE Cardinality(Keys) <= Capacity
      BY <3>2, <1>7 DEF Cleared
    <3>3. CASE Cardinality(Keys) <= Len(request[t].texts)
      BY <3>3, <1>4, <1>7, <1>8 DEF Cleared
    <3>4. CASE \E u \in Threads \ {t} : pc[u] \in {"touch", "evict", "pop"}
      BY <3>4, <1>6 DEF Cleared
    <3>5. CASE \E u \in Threads \ {t} : pc[u] = "read" /\ Cardinality(Keys) <= Len(request[u].texts)
      BY <3>5, <1>6, <1>7 DEF Cleared
    <3>6. CASE \E b \in answers : Cardinality(Keys) <= Len(b.texts) \/ b.fault = "lookup"
      BY <3>6, <1>4, <1>7 DEF Cleared
    <3> QED
      BY <2>3, <3>1, <3>2, <3>3, <3>4, <3>5, <3>6
  <2> QED
    BY <2>1, <2>2, <2>3 DEF Faults
<1>g. VectorsOfOwnTexts'
  BY <1>0, <1>2, <1>4, <1>8 DEF VectorsOfOwnTexts
<1>h. LoneRequestIsDense'
  BY <1>0, <1>4, <1>8 DEF LoneRequestIsDense, Faults
<1> QED
  BY <1>a, <1>b, <1>c, <1>d, <1>e, <1>f, <1>g, <1>h DEF CacheInv

\* A step of t that ends no request leaves the other threads as they are.
LEMMA StepKeeps ==
  ASSUME CacheInv, NEW t \in Threads, pc[t] # "idle", pc'[t] # "idle",
         UNCHANGED <<request, alone, answers>>,
         \A u \in Threads \ {t} :
            /\ pc'[u] = pc[u] /\ at'[u] = at[u] /\ missing'[u] = missing[u]
            /\ batch'[u] = batch[u] /\ taken'[u] = taken[u],
         TypeOK', VectorsNamed', LinearOrder', Position(t)', Carried(t)',
         Busy = {t} /\ Secured(t) => Secured(t)',
         Cardinality(Popping') <= Cardinality(Keys'), Cleared'
  PROVE  CacheInv'
<1>1. ASSUME NEW u \in Threads PROVE Position(u)' /\ Carried(u)'
  <2>1. CASE u = t
    BY <2>1
  <2>2. CASE u # t
    <3>1. /\ pc'[u] = pc[u] /\ request'[u] = request[u] /\ at'[u] = at[u]
          /\ missing'[u] = missing[u] /\ batch'[u] = batch[u] /\ taken'[u] = taken[u]
      BY <2>2
    <3>2. Position(u) /\ Carried(u)
      BY DEF CacheInv
    <3> QED
      BY <3>1, <3>2 DEF Position, Carried
  <2> QED
    BY <2>1, <2>2
<1>2. ASSUME NEW u \in Threads, alone'[u], pc'[u] # "idle" PROVE Undisturbed(u)'
  <2>1. alone[u] /\ pc[u] # "idle"
    BY <1>2
  <2>2. Busy = {u} /\ Secured(u)
    BY <2>1 DEF CacheInv, Undisturbed
  <2>3. u = t
    BY <2>2 DEF Busy
  <2>4. Busy' = Busy
    BY DEF Busy
  <2> QED
    BY <2>2, <2>3, <2>4 DEF Undisturbed
<1>3. VectorsOfOwnTexts' /\ LoneRequestIsDense'
  BY DEF CacheInv, VectorsOfOwnTexts, LoneRequestIsDense
<1> QED
  BY <1>1, <1>2, <1>3 DEF CacheInv

\* While no thread starts to pop and no key goes, the threads that pop find keys.
LEMMA PoppingKeeps ==
  ASSUME TypeOK, TypeOK', Popping' \subseteq Popping, Keys \subseteq Keys',
         Cardinality(Popping) <= Cardinality(Keys)
  PROVE  Cardinality(Popping') <= Cardinality(Keys')
<1>1. Popping \subseteq Threads
  BY DEF Popping
<1>2. IsFiniteSet(Popping) /\ IsFiniteSet(Popping')
  BY <1>1, Basics, FS_Subset
<1>3. Cardinality(Popping') <= Cardinality(Popping) /\ Cardinality(Keys) <= Cardinality(Keys')
  BY <1>2, FS_Subset DEF TypeOK
<1>4. /\ Cardinality(Popping) \in Nat /\ Cardinality(Popping') \in Nat
      /\ Cardinality(Keys) \in Nat /\ Cardinality(Keys') \in Nat
  BY <1>2, FS_CardinalityType DEF TypeOK
<1> QED
  BY <1>3, <1>4

\* A step over one key.
LEMMA LookKeeps ==
  ASSUME CacheInv, NEW t \in Threads, Look(t)
  PROVE  CacheInv'
<1> DEFINE n == Len(request[t].texts)
           x == Current(t)
<1>0. /\ TypeOK /\ VectorsNamed /\ LinearOrder /\ Cleared /\ Position(t) /\ Carried(t)
      /\ Cardinality(Popping) <= Cardinality(Keys)
  BY DEF CacheInv
<1>1. /\ pc[t] = "look" /\ at[t] \in 1..n /\ n \in Nat /\ x \in Texts
      /\ x = request[t].texts[at[t]] /\ request[t].texts # <<>>
  BY <1>0, Asked DEF Look, Position, Current
<1>2. missing[t] \in Seq(Texts) /\ Len(missing[t]) \in Nat /\ DOMAIN missing[t] = 1..Len(missing[t])
  BY <1>0 DEF TypeOK
<1>3. /\ missing' = [missing EXCEPT ![t] = missing'[t]]
      /\ missing'[t] = IF x \in Keys \cup ToSet(missing[t]) THEN missing[t] ELSE Append(missing[t], x)
  BY <1>0 DEF Look, TypeOK
<1>4. /\ missing'[t] \in Seq(Texts)
      /\ ToSet(missing[t]) \subseteq ToSet(missing'[t])
      /\ x \in Keys \cup ToSet(missing'[t])
      /\ \A i, j \in 1..Len(missing'[t]) : missing'[t][i] = missing'[t][j] => i = j
  <2>1. CASE x \in Keys \cup ToSet(missing[t])
    BY <2>1, <1>0, <1>2, <1>3 DEF Carried
  <2>2. CASE x \notin Keys \cup ToSet(missing[t])
    <3>1. missing'[t] = Append(missing[t], x)
      BY <2>2, <1>3
    <3>2. /\ missing'[t] \in Seq(Texts) /\ Len(missing'[t]) = Len(missing[t]) + 1
          /\ \A i \in 1..Len(missing[t]) : missing'[t][i] = missing[t][i]
          /\ missing'[t][Len(missing[t]) + 1] = x
          /\ DOMAIN missing'[t] = 1..(Len(missing[t]) + 1)
      BY <3>1, <1>1, <1>2
    <3>3. \A i \in 1..Len(missing[t]) : missing[t][i] # x
      BY <2>2, <1>2 DEF ToSet
    <3>4. ToSet(missing[t]) \subseteq ToSet(missing'[t]) /\ x \in ToSet(missing'[t])
      BY <3>2, <1>2 DEF ToSet
    <3>5. ASSUME NEW i \in 1..Len(missing'[t]), NEW j \in 1..Len(missing'[t]),
                 missing'[t][i] = missing'[t][j]
          PROVE  i = j
      <4>1. i \in 1..Len(missing[t]) \/ i = Len(missing[t]) + 1
        BY <3>2, <1>2
      <4>2. j \in 1..Len(missing[t]) \/ j = Len(missing[t]) + 1
        BY <3>2, <1>2
      <4>3. \A a, b \in 1..Len(missing[t]) : missing[t][a] = missing[t][b] => a = b
        BY <1>0 DEF Carried
      <4> QED
        BY <4>1, <4>2, <4>3, <3>2, <3>3, <3>5
    <3> QED
      BY <3>2, <3>4, <3>5
  <2> QED
    BY <2>1, <2>2
<1>5. /\ UNCHANGED <<cache, older, request, batch, taken, alone, answers, started>>
      /\ Keys' = Keys
  BY DEF Look, Keys
<1>6. \/ /\ at[t] < n /\ at' = [at EXCEPT ![t] = at[t] + 1] /\ pc' = pc
      \/ /\ at[t] = n /\ at' = [at EXCEPT ![t] = 1]
         /\ pc' = [pc EXCEPT ![t] = IF missing'[t] = <<>> THEN "touch" ELSE "embed"]
  BY <1>0, <1>1 DEF Look, Advance, Goto, TypeOK
<1>7. /\ pc' \in [Threads -> Labels] /\ at' \in [Threads -> Nat]
      /\ missing' \in [Threads -> Seq(Texts)]
      /\ \A u \in Threads \ {t} : pc'[u] = pc[u] /\ at'[u] = at[u] /\ missing'[u] = missing[u]
      /\ \/ at[t] < n /\ at'[t] = at[t] + 1 /\ pc'[t] = "look"
         \/ at[t] = n /\ at'[t] = 1 /\ pc'[t] = "touch" /\ missing'[t] = <<>>
         \/ at[t] = n /\ at'[t] = 1 /\ pc'[t] = "embed"
  <2>1. missing' \in [Threads -> Seq(Texts)]
    BY <1>0, <1>3, <1>4 DEF TypeOK
  <2>2. \A u \in Threads \ {t} : missing'[u] = missing[u]
    BY <1>0, <1>3 DEF TypeOK
  <2>3. CASE at[t] < n
    BY <2>1, <2>2, <2>3, <1>0, <1>1, <1>6, SMTT(30) DEF TypeOK
  <2>4. CASE at[t] = n
    <3>1. /\ at' = [at EXCEPT ![t] = 1]
          /\ pc' = [pc EXCEPT ![t] = IF missing'[t] = <<>> THEN "touch" ELSE "embed"]
      BY <2>4, <1>1, <1>6
    <3>2. pc' \in [Threads -> Labels] /\ at' \in [Threads -> Nat]
      BY <3>1, <1>0 DEF TypeOK, Labels
    <3>3. at'[t] = 1 /\ pc'[t] = IF missing'[t] = <<>> THEN "touch" ELSE "embed"
      BY <3>1, <1>0 DEF TypeOK
    <3>4. \A u \in Threads \ {t} : pc'[u] = pc[u] /\ at'[u] = at[u]
      BY <3>1, <1>0 DEF TypeOK
    <3> QED
      BY <2>1, <2>2, <2>4, <3>2, <3>3, <3>4
  <2> QED
    BY <2>3, <2>4, <1>1
<1>8. TypeOK'
  BY <1>0, <1>1, <1>5, <1>7 DEF TypeOK
<1>9. VectorsNamed' /\ LinearOrder'
  BY <1>0, <1>5 DEF VectorsNamed, LinearOrder
<1>10. Position(t)'
  BY <1>0, <1>1, <1>5, <1>7 DEF Position
<1>11. Carried(t)'
  BY <1>0, <1>1, <1>4, <1>5, <1>7 DEF Carried
<1>12. ASSUME Secured(t) PROVE Secured(t)'
  <2>1. \A i \in 1..n : i < at[t] => request[t].texts[i] \in Keys \cup ToSet(missing'[t])
    BY <1>12, <1>1, <1>4 DEF Secured
  <2>2. \A i \in 1..n : i <= at[t] => request[t].texts[i] \in Keys \cup ToSet(missing'[t])
    BY <2>1, <1>1, <1>4
  <2>3. missing'[t] = <<>> => ToSet(missing'[t]) = {}
    BY DEF ToSet
  <2> HIDE DEF x
  <2> QED
    BY <2>2, <2>3, <1>1, <1>5, <1>7 DEF Secured
<1>13. Popping' \subseteq Popping
  BY <1>1, <1>7 DEF Popping
<1>14. Cleared'
  BY <1>0, <1>1, <1>5, <1>7 DEF Cleared
<1>15. pc'[t] # "idle"
  BY <1>7
<1> QED
  BY <1>0, <1>1, <1>5, <1>7, <1>8, <1>9, <1>10, <1>11, <1>12, <1>13, <1>14, <1>15, StepKeeps, PoppingKeeps

\* The provider's batch has the right size: it is the batch of the missing texts.
LEMMA EmbedKeeps ==
  ASSUME CacheInv, NEW t \in Threads, NEW b \in Batches(missing[t]), Embed(t, b)
  PROVE  CacheInv'
<1>0. /\ TypeOK /\ VectorsNamed /\ LinearOrder /\ Cleared /\ Position(t) /\ Carried(t)
      /\ Cardinality(Popping) <= Cardinality(Keys)
  BY DEF CacheInv
<1>1. missing[t] \in Seq(Texts)
  BY <1>0 DEF TypeOK
<1>2. b = missing[t]
  <2>1. ASSUME NEW i \in DOMAIN missing[t], b = RemoveAt(missing[t], i)
        PROVE  Len(b) # Len(missing[t])
    <3>1. /\ SubSeq(missing[t], 1, i - 1) \in Seq(Texts) /\ Len(SubSeq(missing[t], 1, i - 1)) = i - 1
          /\ SubSeq(missing[t], i + 1, Len(missing[t])) \in Seq(Texts)
          /\ Len(SubSeq(missing[t], i + 1, Len(missing[t]))) = Len(missing[t]) - i
      BY <1>1
    <3> QED
      BY <2>1, <3>1, <1>1 DEF RemoveAt
  <2> QED
    BY <2>1 DEF Batches, Embed, Usable
<1>3. /\ pc[t] = "embed" /\ pc' = [pc EXCEPT ![t] = "update"] /\ batch' = [batch EXCEPT ![t] = b]
      /\ UNCHANGED <<cache, older, request, at, missing, taken, alone, answers, started>>
      /\ Keys' = Keys
  BY DEF Embed, Goto, Keys
<1>4. /\ pc'[t] = "update" /\ batch'[t] = missing[t]
      /\ \A u \in Threads \ {t} : pc'[u] = pc[u] /\ batch'[u] = batch[u]
  BY <1>0, <1>2, <1>3 DEF TypeOK
<1>5. TypeOK'
  BY <1>0, <1>1, <1>2, <1>3 DEF TypeOK, Labels
<1>6. VectorsNamed' /\ LinearOrder'
  BY <1>0, <1>3 DEF VectorsNamed, LinearOrder
<1>7. Position(t)'
  BY <1>0, <1>3, <1>4 DEF Position
<1>8. Carried(t)'
  BY <1>0, <1>3, <1>4 DEF Carried
<1>9. Secured(t) => Secured(t)'
  BY <1>3, <1>4 DEF Secured
<1>10. Popping' \subseteq Popping
  BY <1>4 DEF Popping
<1>11. Cleared'
  BY <1>0, <1>3, <1>4 DEF Cleared
<1> QED
  BY <1>0, <1>3, <1>4, <1>5, <1>6, <1>7, <1>8, <1>9, <1>10, <1>11, StepKeeps, PoppingKeeps

\* The provider fails: the request is answered, and the cache is what it was.
LEMMA EmbedFailsKeeps ==
  ASSUME CacheInv, NEW t \in Threads, EmbedFails(t)
  PROVE  CacheInv'
<1>1. pc[t] = "embed" /\ UNCHANGED <<cache, older>> /\ Respond(t, "provider", <<>>)
  BY DEF EmbedFails
<1>2. "provider" \in Faults /\ <<>> \in Seq(Texts)
  BY DEF Faults
<1> QED
  BY <1>1, <1>2, Responded

\* The new vectors are those of their texts, and their keys go to the end.
LEMMA UpdateKeeps ==
  ASSUME CacheInv, NEW t \in Threads, Update(t)
  PROVE  CacheInv'
<1> DEFINE m == missing[t]
           places == {i \in 1..Len(m) : m[i] \notin Keys}
           new == {m[i] : i \in places}
           renewed(x) == {i \in 1..Len(m) : m[i] = x}
           later == {p \in new \X new : \E i, j \in places : i < j /\ p = <<m[i], m[j]>>}
<1>0. /\ TypeOK /\ VectorsNamed /\ LinearOrder /\ Cleared /\ Position(t) /\ Carried(t)
      /\ Cardinality(Popping) <= Cardinality(Keys)
  BY DEF CacheInv
<1>1. /\ m \in Seq(Texts) /\ Len(m) \in Nat /\ \A i \in 1..Len(m) : m[i] \in Texts
      /\ DOMAIN m = 1..Len(m)
  BY <1>0 DEF TypeOK
<1>2. pc[t] = "update" /\ batch[t] = m
  BY <1>0 DEF Update, Carried
<1>3. /\ cache' = [x \in Keys \cup new |->
                     IF renewed(x) = {} THEN cache[x] ELSE m[CHOOSE i \in renewed(x) : TRUE]]
      /\ older' = older \cup (Keys \X new) \cup later
      /\ pc' = [pc EXCEPT ![t] = "touch"]
      /\ UNCHANGED <<request, at, missing, batch, taken, alone, answers, started>>
  BY <1>2 DEF Update, Goto
<1>4. Keys' = Keys \cup new
  BY <1>3 DEF Keys
<1>5. /\ new = {m[i] : i \in 1..Len(m)} \ Keys
      /\ IsFiniteSet(new) /\ new \subseteq Texts /\ Keys \cap new = {}
  <2>1. IsFiniteSet({m[i] : i \in 1..Len(m)})
    BY <1>1, FewElements
  <2>2. new = {m[i] : i \in 1..Len(m)} \ Keys
    OBVIOUS
  <2> QED
    BY <1>1, <2>1, <2>2, FS_Difference, ZenonT(30)
<1>6. ASSUME NEW x \in Keys' PROVE cache'[x] = x
  <2>1. CASE renewed(x) = {}
    <3>1. x \in Keys
      BY <2>1, <1>4
    <3> QED
      BY <2>1, <3>1, <1>0, <1>3 DEF VectorsNamed, Keys
  <2>2. CASE renewed(x) # {}
    <3>1. (CHOOSE i \in renewed(x) : TRUE) \in renewed(x)
      BY <2>2
    <3> QED
      BY <2>2, <3>1, <1>3, <1>4
  <2> QED
    BY <2>1, <2>2
<1>7. VectorsNamed'
  <2>1. cache' = [x \in Keys' |-> cache'[x]]
    BY <1>3, <1>4
  <2> QED
    BY <2>1, <1>6 DEF VectorsNamed
<1>8. LinearOrder'
  <2>1. IsLinearOrder(later, new)
    <3>1. places \subseteq Nat
      OBVIOUS
    <3>2. \A i, j \in places : m[i] = m[j] => i = j
      BY <1>0 DEF Carried
    <3>3. (\A i \in places : m[i] \in new) /\ \A a \in new : \E i \in places : a = m[i]
      OBVIOUS
    <3>4. later \subseteq new \X new
      OBVIOUS
    <3>5. \A i, j \in places : i < j => <<m[i], m[j]>> \in later
      BY <3>3
    <3>6. ASSUME NEW i \in places, NEW j \in places, <<m[i], m[j]>> \in later
          PROVE  i < j
      <4>1. PICK k \in places, l \in places : k < l /\ <<m[i], m[j]>> = <<m[k], m[l]>>
        BY <3>6
      <4>2. m[i] = m[k] /\ m[j] = m[l]
        BY <4>1
      <4>3. i = k /\ j = l
        BY <3>2, <4>2
      <4> QED
        BY <4>1, <4>3
    <3> HIDE DEF places, new, later, m
    <3>7. \A i, j \in places : <<m[i], m[j]>> \in later <=> i < j
      BY <3>5, <3>6
    <3> QED
      BY <3>1, <3>3, <3>4, <3>7, ListOrder
  <2> HIDE DEF new, later
  <2> QED
    BY <2>1, <1>0, <1>3, <1>4, <1>5, OrderExtended DEF LinearOrder
<1> HIDE DEF new, later, places, renewed
<1>9. pc'[t] = "touch" /\ \A u \in Threads \ {t} : pc'[u] = pc[u]
  BY <1>0, <1>3 DEF TypeOK
<1>10. TypeOK'
  <2>1. IsFiniteSet(Keys') /\ Keys' \subseteq Texts
    BY <1>0, <1>4, <1>5, FS_Union DEF TypeOK
  <2> QED
    BY <2>1, <1>0, <1>3, <1>9, <1>2 DEF TypeOK, Labels
<1>11. Position(t)'
  <2>1. at[t] = 1 /\ at[t] \in 1..Len(request[t].texts)
    BY <1>0, <1>2, Asked DEF Position
  <2> QED
    BY <2>1, <1>0, <1>3, <1>9 DEF Position
<1>12. Carried(t)'
  BY <1>0, <1>2, <1>3, <1>9 DEF Carried
<1>13. Secured(t) => Secured(t)'
  <2>1. Keys \cup ToSet(m) \subseteq Keys'
    BY <1>1, <1>4, <1>5 DEF ToSet
  <2>2. at[t] = 1
    BY <1>0, <1>2 DEF Position
  <2> HIDE DEF m
  <2> QED
    BY <2>1, <2>2, <1>2, <1>3, <1>9, <1>0, Asked DEF Secured, m
<1>14. Popping' \subseteq Popping
  BY <1>9 DEF Popping
<1>15. Cleared'
  BY <1>9 DEF Cleared
<1>16. UNCHANGED <<request, alone, answers>> /\ Keys \subseteq Keys'
       /\ \A u \in Threads \ {t} : /\ pc'[u] = pc[u] /\ at'[u] = at[u] /\ missing'[u] = missing[u]
                                   /\ batch'[u] = batch[u] /\ taken'[u] = taken[u]
  BY <1>3, <1>4, <1>9
<1>17. Cardinality(Popping') <= Cardinality(Keys')
  BY <1>0, <1>10, <1>14, <1>16, PoppingKeeps
<1>18. pc[t] # "idle" /\ pc'[t] # "idle"
  BY <1>2, <1>9
<1> QED
  BY <1>7, <1>8, <1>10, <1>11, <1>12, <1>13, <1>15, <1>16, <1>17, <1>18, StepKeeps

\* A key goes to the end of the order, or the request is over.
LEMMA TouchKeeps ==
  ASSUME CacheInv, NEW t \in Threads, Touch(t)
  PROVE  CacheInv'
<1> DEFINE n == Len(request[t].texts)
           x == Current(t)
<1>0. /\ TypeOK /\ VectorsNamed /\ LinearOrder /\ Cleared /\ Position(t) /\ Carried(t)
      /\ Cardinality(Popping) <= Cardinality(Keys)
      /\ alone[t] /\ pc[t] # "idle" => Undisturbed(t)
  BY DEF CacheInv
<1>1. /\ pc[t] = "touch" /\ at[t] \in 1..n /\ n \in Nat
      /\ x = request[t].texts[at[t]] /\ request[t].texts # <<>>
  BY <1>0, Asked DEF Touch, Position, Current
<1>2. CASE x \notin Keys
  <2>1. UNCHANGED <<cache, older>> /\ Respond(t, "lookup", <<>>)
    BY <1>2 DEF Touch
  <2>2. ~ alone[t]
    BY <1>0, <1>1, <1>2 DEF Undisturbed, Secured
  <2>3. "lookup" \in Faults /\ <<>> \in Seq(Texts)
    BY DEF Faults
  <2> QED
    BY <1>1, <2>1, <2>2, <2>3, Responded
<1>3. CASE x \in Keys
  <2>1. /\ older' = {p \in older : x \notin {p[1], p[2]}} \cup ((Keys \ {x}) \X {x})
        /\ UNCHANGED <<cache, request, missing, batch, taken, alone, answers, started>>
        /\ Advance(t, "evict") /\ Keys' = Keys
    BY <1>3 DEF Touch, Without, Keys
  <2>2. /\ IsLinearOrder(older', Keys)
        /\ \A a, b \in Keys \ {x} : <<a, b>> \in older' <=> <<a, b>> \in older
        /\ \A a \in Keys \ {x} : <<a, x>> \in older'
    <3>1. IsLinearOrder(older, Keys)
      BY <1>0 DEF LinearOrder
    <3> HIDE DEF x
    <3> QED
      BY <2>1, <3>1, <1>3, OrderMoved
  <2>3. /\ pc' \in [Threads -> Labels] /\ at' \in [Threads -> Nat]
        /\ \A u \in Threads \ {t} : pc'[u] = pc[u] /\ at'[u] = at[u]
        /\ \/ at[t] < n /\ at'[t] = at[t] + 1 /\ pc'[t] = "touch"
           \/ at[t] = n /\ at'[t] = 1 /\ pc'[t] = "evict"
    <3>1. CASE at[t] < n
      <4>1. at' = [at EXCEPT ![t] = at[t] + 1] /\ pc' = pc
        BY <2>1, <3>1, <1>0 DEF Advance, TypeOK
      <4> QED
        BY <3>1, <4>1, <1>0, <1>1 DEF TypeOK
    <3>2. CASE at[t] = n
      <4>1. at' = [at EXCEPT ![t] = 1] /\ pc' = [pc EXCEPT ![t] = "evict"]
        BY <2>1, <3>2, <1>0, <1>1 DEF Advance, Goto
      <4> QED
        BY <3>2, <4>1, <1>0 DEF TypeOK, Labels
    <3> QED
      BY <3>1, <3>2, <1>1
  <2>4. TypeOK'
    BY <1>0, <1>1, <2>1, <2>3 DEF TypeOK
  <2>5. VectorsNamed' /\ LinearOrder'
    BY <1>0, <2>1, <2>2 DEF VectorsNamed, LinearOrder
  <2>6. Position(t)'
    BY <1>0, <1>1, <2>1, <2>3 DEF Position
  <2>7. Carried(t)'
    BY <1>0, <1>1, <2>1, <2>3 DEF Carried
  <2>8. ASSUME Secured(t) PROVE Secured(t)'
    <3>1. \A i \in 1..n : /\ request[t].texts[i] \in Keys
                          /\ i < at[t] => Younger(t, i)
      BY <2>8, <1>1 DEF Secured
    <3>2. ASSUME NEW i \in 1..n, i <= at[t] PROVE Younger(t, i)'
      <4>1. ASSUME NEW y \in Keys \ OwnTexts(t) PROVE <<y, request[t].texts[i]>> \in older'
        <5>1. y # x
          BY <1>1 DEF OwnTexts
        <5>2. CASE request[t].texts[i] = x
          BY <5>1, <5>2, <2>2
        <5>3. CASE request[t].texts[i] # x
          <6>1. i < at[t]
            BY <3>2, <5>3, <1>1
          <6>2. <<y, request[t].texts[i]>> \in older
            BY <6>1, <3>1 DEF Younger
          <6> QED
            BY <5>1, <5>3, <6>2, <2>2, <3>1
        <5> QED
          BY <5>2, <5>3
      <4> QED
        BY <4>1, <2>1 DEF Younger, OwnTexts
    <3> HIDE DEF x
    <3>3. CASE at[t] < n
      <4>1. pc'[t] = "touch" /\ at'[t] = at[t] + 1
        BY <3>3, <2>3
      <4>2. \A i \in 1..n : i < at'[t] => Younger(t, i)'
        BY <3>2, <4>1, <1>1
      <4> QED
        BY <3>1, <4>1, <4>2, <2>1 DEF Secured
    <3>4. CASE at[t] = n
      <4>1. pc'[t] = "evict"
        BY <3>4, <2>3
      <4>2. \A i \in 1..n : Younger(t, i)'
        BY <3>2, <3>4
      <4> QED
        BY <3>1, <4>1, <4>2, <2>1 DEF Secured
    <3> QED
      BY <3>3, <3>4, <1>1
  <2>9. Popping' \subseteq Popping
    BY <1>1, <2>3 DEF Popping
  <2>10. Cleared'
    BY <2>3 DEF Cleared
  <2>11. Cardinality(Popping') <= Cardinality(Keys')
    BY <1>0, <2>1, <2>4, <2>9, PoppingKeeps
  <2>12. pc[t] # "idle" /\ pc'[t] # "idle"
    BY <1>1, <2>3
  <2> QED
    BY <2>1, <2>3, <2>4, <2>5, <2>6, <2>7, <2>8, <2>10, <2>11, <2>12, StepKeeps
<1> QED
  BY <1>2, <1>3

\* The check before a popitem: more keys than the pool has threads.
LEMMA EvictKeeps ==
  ASSUME CacheInv, NEW t \in Threads, Evict(t)
  PROVE  CacheInv'
<1> DEFINE n == Len(request[t].texts)
<1>0. /\ TypeOK /\ VectorsNamed /\ LinearOrder /\ Cleared /\ Position(t) /\ Carried(t)
      /\ Cardinality(Popping) <= Cardinality(Keys)
  BY DEF CacheInv
<1>1. /\ pc[t] = "evict" /\ n \in Nat /\ at[t] = 1 /\ Len(taken[t]) = 0
      /\ request[t].texts = <<>> <=> n = 0
      /\ Cardinality(Keys) \in Nat
  BY <1>0, Asked, FS_CardinalityType DEF Evict, Position, Carried, TypeOK
<1>2. /\ UNCHANGED <<cache, older, request, at, missing, batch, taken, alone, answers, started>>
      /\ Keys' = Keys
  BY DEF Evict, Keys
<1>3. /\ \A u \in Threads \ {t} : pc'[u] = pc[u]
      /\ pc' \in [Threads -> Labels]
      /\ \/ pc'[t] = "pop" /\ Cardinality(Keys) > n /\ Cardinality(Keys) > Capacity
         \/ pc'[t] = "read" /\ (Cardinality(Keys) <= n \/ Cardinality(Keys) <= Capacity)
  <2>1. /\ Limit(request[t].texts) \in Nat
        /\ Limit(request[t].texts) >= n /\ Limit(request[t].texts) >= Capacity
        /\ Limit(request[t].texts) \in {n, Capacity}
    BY <1>1, Basics DEF Limit, Larger
  <2>2. pc' = [pc EXCEPT ![t] = IF Cardinality(Keys) > Limit(request[t].texts) THEN "pop" ELSE "read"]
    BY DEF Evict, Goto
  <2>3. \A u \in Threads \ {t} : pc'[u] = pc[u]
    BY <2>2, <1>0 DEF TypeOK
  <2>4. pc' \in [Threads -> Labels]
    BY <2>2, <1>0 DEF TypeOK, Labels
  <2>5. pc'[t] = IF Cardinality(Keys) > Limit(request[t].texts) THEN "pop" ELSE "read"
    BY <2>2, <1>0 DEF TypeOK
  <2> QED
    BY <2>1, <2>3, <2>4, <2>5, <1>1, Basics
<1>4. TypeOK'
  BY <1>0, <1>2, <1>3, <1>1 DEF TypeOK
<1>5. VectorsNamed' /\ LinearOrder'
  BY <1>0, <1>2 DEF VectorsNamed, LinearOrder
<1>6. Position(t)'
  BY <1>0, <1>1, <1>2, <1>3 DEF Position
<1>7. Carried(t)'
  BY <1>0, <1>1, <1>2, <1>3 DEF Carried
<1>8. Secured(t) => Secured(t)'
  BY <1>1, <1>2, <1>3 DEF Secured, Younger, OwnTexts
<1>9. Cardinality(Popping') <= Cardinality(Keys')
  <2>1. CASE pc'[t] = "read"
    <3>1. Popping' \subseteq Popping
      BY <2>1, <1>3 DEF Popping
    <3> QED
      BY <3>1, <1>0, <1>2, <1>4, PoppingKeeps
  <2>2. CASE pc'[t] = "pop"
    <3>1. Cardinality(Popping') <= Cardinality(Threads)
      <4>1. Popping' \subseteq Threads
        BY DEF Popping
      <4> QED
        BY <4>1, Basics, FS_Subset
    <3>2. IsFiniteSet(Popping')
      BY Basics, FS_Subset DEF Popping
    <3>3. Cardinality(Popping') \in Nat
      BY <3>2, FS_CardinalityType
    <3> QED
      BY <2>2, <3>1, <3>3, <1>1, <1>2, <1>3, Basics
  <2> QED
    BY <2>1, <2>2, <1>3
<1>10. Cleared'
  <2>1. CASE pc'[t] = "pop"
    BY <2>1 DEF Cleared
  <2>2. CASE pc'[t] = "read"
    BY <2>2, <1>2, <1>3 DEF Cleared
  <2> QED
    BY <2>1, <2>2, <1>3
<1>11. pc[t] # "idle" /\ pc'[t] # "idle"
  BY <1>1, <1>3
<1> QED
  BY <1>2, <1>3, <1>4, <1>5, <1>6, <1>7, <1>8, <1>9, <1>10, <1>11, StepKeeps

\* The oldest key goes; it is none of a request that nobody overlaps.
LEMMA PopKeeps ==
  ASSUME CacheInv, NEW t \in Threads, Pop(t)
  PROVE  CacheInv'
<1> DEFINE n == Len(request[t].texts)
<1>0. /\ TypeOK /\ VectorsNamed /\ LinearOrder /\ Cleared /\ Position(t) /\ Carried(t)
      /\ Cardinality(Popping) <= Cardinality(Keys)
  BY DEF CacheInv
<1>1. PICK x \in Oldest : /\ cache' = [y \in Keys \ {x} |-> cache[y]]
                          /\ older' = {p \in older : x \notin {p[1], p[2]}}
  BY DEF Pop, Without
<1>2. /\ pc[t] = "pop" /\ pc' = [pc EXCEPT ![t] = "evict"]
      /\ UNCHANGED <<request, at, missing, batch, taken, alone, answers, started>>
      /\ n \in Nat /\ at[t] = 1
  BY <1>0, Asked DEF Pop, Goto, Position
<1>3. x \in Keys /\ (\A y \in Keys : <<y, x>> \notin older) /\ Keys' = Keys \ {x}
  BY <1>1 DEF Oldest, Keys
<1>4. pc'[t] = "evict" /\ \A u \in Threads \ {t} : pc'[u] = pc[u]
  BY <1>0, <1>2 DEF TypeOK
<1>5. /\ IsFiniteSet(Keys') /\ Cardinality(Keys') = Cardinality(Keys) - 1
      /\ Cardinality(Keys) \in Nat /\ Cardinality(Keys') \in Nat
  BY <1>0, <1>3, FS_RemoveElement, FS_CardinalityType DEF TypeOK
<1>6. TypeOK'
  BY <1>0, <1>2, <1>3, <1>4, <1>5 DEF TypeOK, Labels
<1>7. VectorsNamed'
  BY <1>0, <1>1, <1>3 DEF VectorsNamed
<1>8. LinearOrder' /\ \A a, b \in Keys' : <<a, b>> \in older' <=> <<a, b>> \in older
  <2>1. IsLinearOrder(older, Keys)
    BY <1>0 DEF LinearOrder
  <2>2. IsLinearOrder(older', Keys \ {x}) /\ \A a, b \in Keys \ {x} : <<a, b>> \in older' <=> <<a, b>> \in older
    BY <2>1, <1>1, OrderWithout
  <2> QED
    BY <2>2, <1>3 DEF LinearOrder
<1>9. Position(t)'
  BY <1>0, <1>2, <1>4 DEF Position
<1>10. Carried(t)'
  BY <1>0, <1>2, <1>4 DEF Carried
<1>11. ASSUME Secured(t) PROVE Secured(t)'
  <2>1. /\ \A i \in 1..n : request[t].texts[i] \in Keys /\ Younger(t, i)
        /\ Cardinality(Keys) > n
    BY <1>11, <1>2 DEF Secured
  <2>2. x \notin OwnTexts(t)
    <3>1. SUFFICES ASSUME x \in OwnTexts(t) PROVE FALSE
      OBVIOUS
    <3>2. PICK i \in 1..n : x = request[t].texts[i]
      BY <3>1 DEF OwnTexts
    <3>3. Keys \subseteq OwnTexts(t)
      BY <2>1, <3>2, <1>3 DEF Younger
    <3>4. IsFiniteSet(OwnTexts(t)) /\ Cardinality(OwnTexts(t)) <= n
      BY <1>2, FewElements DEF OwnTexts
    <3>5. Cardinality(Keys) <= Cardinality(OwnTexts(t)) /\ Cardinality(OwnTexts(t)) \in Nat
      BY <3>3, <3>4, FS_Subset, FS_CardinalityType
    <3> QED
      BY <3>4, <3>5, <2>1, <1>2, <1>5
  <2>3. \A i \in 1..n : request[t].texts[i] \in Keys'
    BY <2>1, <2>2, <1>3 DEF OwnTexts
  <2>4. \A i \in 1..n : Younger(t, i)'
    <3>1. ASSUME NEW i \in 1..n, NEW y \in Keys' \ OwnTexts(t) PROVE <<y, request[t].texts[i]>> \in older'
      BY <2>1, <2>3, <1>3, <1>8 DEF Younger
    <3> QED
      BY <3>1, <1>2 DEF Younger, OwnTexts
  <2> QED
    BY <2>3, <2>4, <1>2, <1>4 DEF Secured
<1>12. Cardinality(Popping') <= Cardinality(Keys')
  <2>1. Popping' = Popping \ {t} /\ t \in Popping
    BY <1>2, <1>4 DEF Popping
  <2>2. IsFiniteSet(Popping)
    BY Basics, FS_Subset DEF Popping
  <2>3. Cardinality(Popping') = Cardinality(Popping) - 1 /\ Cardinality(Popping) \in Nat
    BY <2>1, <2>2, FS_RemoveElement, FS_CardinalityType
  <2> QED
    BY <2>3, <1>0, <1>5
<1>13. Cleared'
  BY <1>4 DEF Cleared
<1>14. pc[t] # "idle" /\ pc'[t] # "idle"
  BY <1>2, <1>4
<1> QED
  BY <1>2, <1>4, <1>6, <1>7, <1>8, <1>9, <1>10, <1>11, <1>12, <1>13, <1>14, StepKeeps

\* A vector is read, or the request is over.
LEMMA ReadKeeps ==
  ASSUME CacheInv, NEW t \in Threads, Read(t)
  PROVE  CacheInv'
<1> DEFINE n == Len(request[t].texts)
           x == Current(t)
           found == Append(taken[t], cache[x])
<1>0. /\ TypeOK /\ VectorsNamed /\ LinearOrder /\ Cleared /\ Position(t) /\ Carried(t)
      /\ Cardinality(Popping) <= Cardinality(Keys)
      /\ alone[t] /\ pc[t] # "idle" => Undisturbed(t)
  BY DEF CacheInv
<1>1. /\ pc[t] = "read" /\ UNCHANGED <<cache, older>> /\ Keys' = Keys
      /\ request[t].texts \in Seq(Texts) /\ n \in Nat /\ (request[t].texts = <<>> <=> n = 0)
      /\ taken[t] \in Seq(Texts) /\ Len(taken[t]) = at[t] - 1
      /\ \A i \in 1..Len(taken[t]) : taken[t][i] = request[t].texts[i]
  BY <1>0, Asked DEF Read, Keys, TypeOK, Carried
<1>2. "none" \in Faults /\ "lookup" \in Faults /\ <<>> \in Seq(Texts)
  BY DEF Faults
<1>3. Cardinality(Keys) > Capacity
         => \/ Cardinality(Keys) <= n
            \/ \E u \in Threads \ {t} : pc[u] \in {"touch", "evict", "pop"}
            \/ \E u \in Threads \ {t} : pc[u] = "read" /\ Cardinality(Keys) <= Len(request[u].texts)
            \/ \E a \in answers : Cardinality(Keys) <= Len(a.texts) \/ a.fault = "lookup"
  <2>1. Cardinality(Keys) \in Nat /\ Capacity \in Nat
    BY <1>0, Basics, FS_CardinalityType DEF TypeOK
  <2>2. CASE \E u \in Threads : pc[u] \in {"touch", "evict", "pop"}
    BY <2>2, <1>1
  <2>3. CASE \E u \in Threads : pc[u] = "read" /\ Cardinality(Keys) <= Len(request[u].texts)
    BY <2>3
  <2> QED
    BY <2>1, <2>2, <2>3, <1>0 DEF Cleared
<1>4. CASE request[t].texts = <<>>
  <2>1. Respond(t, "none", <<>>)
    BY <1>4 DEF Read
  <2> QED
    BY <2>1, <1>1, <1>2, <1>3, <1>4, Responded
<1>5. CASE request[t].texts # <<>> /\ x \notin Keys
  <2>1. Respond(t, "lookup", <<>>)
    BY <1>5 DEF Read
  <2>2. at[t] \in 1..n /\ x = request[t].texts[at[t]]
    BY <1>0, <1>1, <1>5 DEF Position, Current
  <2>3. ~ alone[t]
    BY <2>2, <1>0, <1>1, <1>5 DEF Undisturbed, Secured
  <2> QED
    BY <2>1, <2>3, <1>1, <1>2, Responded
<1>6. CASE request[t].texts # <<>> /\ x \in Keys
  <2>1. at[t] \in 1..n /\ x = request[t].texts[at[t]]
    BY <1>0, <1>1, <1>6 DEF Position, Current
  <2>2. cache[x] = x /\ x \in Texts
    BY <1>0, <1>6 DEF VectorsNamed, Keys, TypeOK
  <2>3. /\ found \in Seq(Texts) /\ Len(found) = at[t]
        /\ \A i \in 1..at[t] : found[i] = request[t].texts[i]
    BY <1>1, <2>1, <2>2
  <2>4. CASE at[t] = n
    <3>1. Respond(t, "none", found)
      BY <2>4, <1>6 DEF Read
    <3>2. found = request[t].texts
      BY <2>3, <2>4, <1>1, SameList
    <3> HIDE DEF found
    <3> QED
      BY <3>1, <3>2, <2>3, <1>1, <1>2, <1>3, Responded
  <2>5. CASE at[t] # n
    <3> HIDE DEF found
    <3>1. /\ taken' = [taken EXCEPT ![t] = found] /\ at' = [at EXCEPT ![t] = at[t] + 1]
          /\ UNCHANGED <<pc, request, missing, batch, alone, answers, started>>
      BY <2>5, <1>0, <1>6 DEF Read, found, TypeOK
    <3>2. /\ at'[t] = at[t] + 1 /\ taken'[t] = found
          /\ \A u \in Threads \ {t} : at'[u] = at[u] /\ taken'[u] = taken[u]
      BY <3>1, <1>0 DEF TypeOK
    <3>3. TypeOK'
      <4>1. at[t] + 1 \in Nat
        BY <2>1
      <4> QED
        BY <4>1, <3>1, <2>3, <1>0, <1>1 DEF TypeOK
    <3>4. VectorsNamed' /\ LinearOrder'
      BY <1>0, <1>1 DEF VectorsNamed, LinearOrder
    <3>5. Position(t)'
      BY <3>1, <3>2, <2>1, <2>5, <1>0, <1>1 DEF Position
    <3>6. Carried(t)'
      <4>1. Len(taken'[t]) = at'[t] - 1 /\ \A i \in 1..Len(taken'[t]) : taken'[t][i] = request[t].texts[i]
        BY <3>2, <2>1, <2>3
      <4>2. missing'[t] = missing[t] /\ pc'[t] = "read" /\ request'[t] = request[t]
        BY <3>1, <1>1
      <4> QED
        BY <4>1, <4>2, <1>0 DEF Carried
    <3>7. Secured(t) => Secured(t)'
      BY <3>1, <1>1 DEF Secured, Younger, OwnTexts
    <3>8. Popping' = Popping
      BY <3>1 DEF Popping
    <3>9. Cleared'
      BY <3>1, <1>0, <1>1 DEF Cleared
    <3>10. Cardinality(Popping') <= Cardinality(Keys')
      BY <3>8, <1>0, <1>1
    <3>11. pc[t] # "idle" /\ pc'[t] # "idle"
      BY <3>1, <1>1
    <3> QED
      BY <3>1, <3>2, <3>3, <3>4, <3>5, <3>6, <3>7, <3>9, <3>10, <3>11, StepKeeps
  <2> QED
    BY <2>4, <2>5
<1> QED
  BY <1>4, <1>5, <1>6

\* A request begins: from here on nobody it finds under way is alone any more.
LEMMA BeginKeeps ==
  ASSUME CacheInv, NEW t \in Threads, NEW r \in Requests, Begin(t, r)
  PROVE  CacheInv'
<1>0. /\ TypeOK /\ VectorsNamed /\ LinearOrder /\ Cleared /\ VectorsOfOwnTexts /\ LoneRequestIsDense
      /\ Cardinality(Popping) <= Cardinality(Keys) /\ Position(t) /\ Carried(t)
      /\ \A u \in Threads : Position(u) /\ Carried(u)
  BY DEF CacheInv
<1>1. /\ pc[t] = "idle" /\ started' = started + 1
      /\ request' = [request EXCEPT ![t] = r]
      /\ alone' = [u \in Threads |-> IF u = t THEN Busy = {} ELSE alone[u] /\ u \notin Busy]
      /\ pc' = [pc EXCEPT ![t] = IF r.texts = <<>> THEN "evict" ELSE "look"]
      /\ UNCHANGED <<cache, older, at, missing, batch, taken, answers>>
      /\ Keys' = Keys
  BY DEF Begin, Goto, Keys
<1>2. /\ request'[t] = r /\ pc'[t] = IF r.texts = <<>> THEN "evict" ELSE "look"
      /\ \A u \in Threads \ {t} : pc'[u] = pc[u] /\ request'[u] = request[u]
      /\ at[t] = 1 /\ Len(r.texts) \in Nat /\ (r.texts = <<>> <=> Len(r.texts) = 0)
  BY <1>0, <1>1, Basics DEF TypeOK, Position
<1>3. TypeOK'
  <2>1. alone' \in [Threads -> BOOLEAN]
    <3>1. \A u \in Threads : alone[u] \in BOOLEAN
      BY <1>0 DEF TypeOK
    <3> QED
      BY <3>1, <1>1
  <2>2. pc' \in [Threads -> Labels]
    BY <1>0, <1>1 DEF TypeOK, Labels
  <2>3. request' \in [Threads -> Requests \cup {Idle}]
    BY <1>0, <1>1 DEF TypeOK
  <2> QED
    BY <2>1, <2>2, <2>3, <1>0, <1>1, <1>2 DEF TypeOK
<1>4. VectorsNamed' /\ LinearOrder'
  BY <1>0, <1>1 DEF VectorsNamed, LinearOrder
<1>5. ASSUME NEW u \in Threads PROVE Position(u)' /\ Carried(u)'
  <2>1. CASE u = t
    <3>1. Len(taken[t]) = 0
      BY <1>0, <1>1 DEF Carried
    <3> QED
      BY <2>1, <3>1, <1>0, <1>1, <1>2 DEF Position, Carried
  <2>2. CASE u # t
    <3>1. pc'[u] = pc[u] /\ request'[u] = request[u]
      BY <2>2, <1>2
    <3>2. Position(u) /\ Carried(u)
      BY <1>0
    <3> QED
      BY <3>1, <3>2, <1>1 DEF Position, Carried
  <2> QED
    BY <2>1, <2>2
<1>6. ASSUME NEW u \in Threads, alone'[u], pc'[u] # "idle" PROVE Undisturbed(u)'
  <2>1. u = t
    <3>1. SUFFICES ASSUME u # t PROVE FALSE
      OBVIOUS
    <3>2. u \notin Busy /\ pc[u] # "idle"
      BY <3>1, <1>1, <1>2, <1>6
    <3> QED
      BY <3>2 DEF Busy
  <2>2. Busy = {}
    BY <2>1, <1>1, <1>6
  <2>3. Busy' = {t}
    BY <2>1, <2>2, <1>2, <1>6 DEF Busy
  <2>4. Secured(t)'
    BY <1>1, <1>2 DEF Secured
  <2> QED
    BY <2>1, <2>3, <2>4 DEF Undisturbed
<1>7. Popping' \subseteq Popping
  BY <1>2 DEF Popping
<1>8. Cardinality(Popping') <= Cardinality(Keys')
  BY <1>0, <1>1, <1>3, <1>7, PoppingKeeps
<1>9. Cleared'
  <2>1. CASE \E u \in Threads : pc[u] \in {"touch", "evict", "pop"}
    BY <2>1, <1>1, <1>2 DEF Cleared
  <2>2. CASE \E u \in Threads : pc[u] = "read" /\ Cardinality(Keys) <= Len(request[u].texts)
    <3>1. PICK u \in Threads : pc[u] = "read" /\ Cardinality(Keys) <= Len(request[u].texts)
      BY <2>2
    <3>2. pc'[u] = "read" /\ Cardinality(Keys') <= Len(request'[u].texts)
      BY <3>1, <1>1, <1>2
    <3> QED
      BY <3>2 DEF Cleared
  <2> QED
    BY <2>1, <2>2, <1>0, <1>1 DEF Cleared
<1>10. VectorsOfOwnTexts' /\ LoneRequestIsDense'
  BY <1>0, <1>1 DEF VectorsOfOwnTexts, LoneRequestIsDense
<1> QED
  BY <1>3, <1>4, <1>5, <1>6, <1>8, <1>9, <1>10 DEF CacheInv

-------------------------------------------------------------------------------
LEMMA Start == CacheInit => CacheInv
<1> SUFFICES ASSUME CacheInit PROVE CacheInv
  OBVIOUS
<1> USE DEF CacheInit
<1>1. Keys = {} /\ Busy = {} /\ Popping = {}
  BY DEF Keys, Busy, Popping
<1>2. IsFiniteSet({}) /\ Cardinality({}) = 0
  BY FS_EmptySet
<1>3. TypeOK
  BY <1>1, <1>2 DEF TypeOK, Labels
<1>4. VectorsNamed /\ LinearOrder
  BY <1>1 DEF VectorsNamed, LinearOrder, IsLinearOrder
<1>5. \A t \in Threads : Position(t) /\ Carried(t)
  BY Basics DEF Position, Carried
<1>6. \A t \in Threads : pc[t] = "idle"
  OBVIOUS
<1>7. Cleared
  BY <1>1, <1>2, Basics DEF Cleared
<1>8. VectorsOfOwnTexts /\ LoneRequestIsDense
  BY DEF VectorsOfOwnTexts, LoneRequestIsDense
<1> QED
  BY <1>1, <1>2, <1>3, <1>4, <1>5, <1>6, <1>7, <1>8 DEF CacheInv

LEMMA StepsKeep ==
  ASSUME CacheInv, [CacheNext]_cacheVars
  PROVE  CacheInv'
<1>1. ASSUME NEW t \in Threads, Step(t) PROVE CacheInv'
  <2>1. CASE \E r \in Requests : Begin(t, r)
    BY <2>1, BeginKeeps
  <2>2. CASE Look(t)
    BY <2>2, LookKeeps
  <2>3. CASE \E b \in Batches(missing[t]) : Embed(t, b)
    BY <2>3, EmbedKeeps
  <2>4. CASE EmbedFails(t)
    BY <2>4, EmbedFailsKeeps
  <2>5. CASE Update(t)
    BY <2>5, UpdateKeeps
  <2>6. CASE Touch(t)
    BY <2>6, TouchKeeps
  <2>7. CASE Evict(t)
    BY <2>7, EvictKeeps
  <2>8. CASE Pop(t)
    BY <2>8, PopKeeps
  <2>9. CASE Read(t)
    BY <2>9, ReadKeeps
  <2> QED
    BY <1>1, <2>1, <2>2, <2>3, <2>4, <2>5, <2>6, <2>7, <2>8, <2>9 DEF Step
<1>2. CASE UNCHANGED cacheVars
  BY <1>2 DEF cacheVars, CacheInv, TypeOK, VectorsNamed, LinearOrder, Position, Carried, Undisturbed, Secured,
       Younger, OwnTexts, Popping, Cleared, VectorsOfOwnTexts, LoneRequestIsDense, Keys, Busy
<1> QED
  BY <1>1, <1>2 DEF CacheNext

LEMMA InvHolds == CacheSpec => []CacheInv
BY Start, StepsKeep, PTL DEF CacheSpec

\* A dense answer is computed from the vectors of exactly its own texts, in
\* their order, whatever other threads store, renew or evict between the steps
\* of _embed (recall.py:139).
THEOREM DenseFromOwnTexts == CacheSpec => []VectorsOfOwnTexts
<1>1. CacheInv => VectorsOfOwnTexts
  BY DEF CacheInv
<1> QED
  BY <1>1, InvHolds, PTL

\* A request that no other overlaps fails only with its provider: max(size,
\* len(keys)) in the eviction loop (recall.py:153) never lets it evict a key it
\* still has to read, because those it has touched are the youngest.
THEOREM LoneRequestSucceeds == CacheSpec => []LoneRequestIsDense
<1>1. CacheInv => LoneRequestIsDense
  BY DEF CacheInv
<1> QED
  BY <1>1, InvHolds, PTL

\* No popitem meets an empty dict while the pool has no more threads than the
\* cache has room (and one), and once every request is answered the cache is
\* back within its size or the largest request, unless a lookup failed.
THEOREM EvictionsKeepUp == CacheSpec => []CacheBounded
<1>1. ASSUME CacheInv PROVE CacheBounded
  <2>0. TypeOK /\ LinearOrder /\ Cleared /\ Cardinality(Popping) <= Cardinality(Keys)
    BY <1>1 DEF CacheInv
  <2>1. ASSUME NEW t \in Threads, pc[t] = "pop" PROVE Oldest # {}
    <3>1. t \in Popping /\ IsFiniteSet(Popping)
      BY <2>1, Basics, FS_Subset DEF Popping
    <3>2. Cardinality(Popping) # 0 /\ Cardinality(Popping) \in Nat /\ Cardinality(Keys) \in Nat
      BY <3>1, <2>0, FS_EmptySet, FS_CardinalityType DEF TypeOK
    <3>3. Keys # {} /\ IsFiniteSet(Keys)
      BY <3>2, <2>0, FS_EmptySet DEF TypeOK
    <3>4. \E x \in Keys : \A y \in Keys : <<y, x>> \notin older
      BY <3>3, <2>0, MinimalElement DEF LinearOrder, IsLinearOrder
    <3> QED
      BY <3>4 DEF Oldest
  <2>2. ASSUME Busy = {}, \A a \in answers : a.fault # "lookup"
        PROVE  \/ Cardinality(Keys) <= Capacity
               \/ \E a \in answers : Cardinality(Keys) <= Len(a.texts)
    <3>1. \A t \in Threads : pc[t] = "idle"
      BY <2>2 DEF Busy
    <3> QED
      BY <3>1, <2>0, <2>2 DEF Cleared
  <2> QED
    BY <2>1, <2>2 DEF CacheBounded
<1> QED
  BY <1>1, InvHolds, PTL

-------------------------------------------------------------------------------
(***************************************************************************)
(* Audit: what is judged, and what the report says of it.                  *)
(***************************************************************************)

AuditTypes ==
    /\ audit_pc \in {"idle", "expand", "retrieve", "judge", "verify", "done", "failed"}
    /\ audit.items \subseteq Items /\ Cardinality(audit.items) <= MAX_ITEMS
    /\ audit.k \in Nat /\ expansions \in Nat
    /\ ListsOnce(candidates, audit.items) /\ Len(candidates) <= audit.k

\* What was asked of the LLM so far, and that nothing is judged before it is
\* retrieved.
ProgressInv ==
    /\ audit_pc \in {"idle", "expand", "retrieve"} => candidates = <<>>
    /\ audit_pc \in {"idle", "expand", "retrieve", "judge"} => judge_reply = "none"
    /\ audit_pc \in {"retrieve", "judge", "verify", "done"} =>
          llm_calls = (IF audit.expand /\ audit.items # {} THEN 1 ELSE 0)
                        + (IF judge_reply = "none" THEN 0 ELSE 1)

AuditInv == AuditTypes /\ ProgressInv /\ ReportAddsUp /\ NoBetterLeftOut

-------------------------------------------------------------------------------
LEMMA ArrangementLists ==
  ASSUME NEW S, NEW s \in Arrangements(S), NEW T, RangeOf(s) \subseteq T
  PROVE  ListsOnce(s, T)
<1>1. PICK n \in 0..Cardinality(S) : /\ s \in [1..n -> S]
                                     /\ \A i, j \in 1..n : s[i] = s[j] => i = j
  BY DEF Arrangements
<1>2. n \in Nat
  OBVIOUS
<1>3. \A i \in 1..n : s[i] \in T
  BY <1>1 DEF RangeOf
<1>4. s \in [1..n -> T]
  BY <1>1, <1>3
<1> QED
  BY <1>1, <1>2, <1>4 DEF ListsOnce

\* What an audit ranks: the items of its request.
LEMMA RanksAreLists ==
  ASSUME NEW items, NEW s \in RanksOf(items)
  PROVE  ListsOnce(s, items)
<1>1. RangeOf(s) \subseteq items /\ s \in RankOrders
  BY DEF RanksOf
<1>2. PICK a \in Rankings, b \in Rankings : s \in FusedOrders(<<a, b>>)
  BY <1>1 DEF RankOrders
<1>3. \E S : s \in Arrangements(S)
  BY <1>2 DEF FusedOrders
<1> QED
  BY <1>1, <1>3, ArrangementLists

\* The newest items are listed once each.
LEMMA RecentLists ==
  ASSUME NEW items \in SUBSET Items
  PROVE  ListsOnce(Recent(items), items)
<1> DEFINE Ahead(x) == {y \in items : \/ ItemSeq[y] > ItemSeq[x]
                                      \/ ItemSeq[y] = ItemSeq[x] /\ y < x}
           R == {p \in items \X items : \/ ItemSeq[p[1]] > ItemSeq[p[2]]
                                        \/ ItemSeq[p[1]] = ItemSeq[p[2]] /\ p[1] < p[2]}
           n == Smaller(RECENT, Cardinality(items))
           At(i) == CHOOSE x \in items : Cardinality(Ahead(x)) = i - 1
<1>1. IsFiniteSet(items)
  BY RankFusionAssumption, FS_Subset
<1>2. n \in Nat /\ n <= Cardinality(items)
  <2>1. Cardinality(items) \in Nat /\ RECENT \in Nat
    BY <1>1, FS_CardinalityType, AuditAssumption
  <2> QED
    BY <2>1 DEF Smaller
<1>3. IsLinearOrder(R, items)
  <2>1. \A x \in items : x \in Nat /\ ItemSeq[x] \in Nat
    BY RankFusionAssumption
  <2>2. \A x, y : <<x, y>> \in R <=> /\ x \in items /\ y \in items
                                     /\ \/ ItemSeq[x] > ItemSeq[y]
                                        \/ ItemSeq[x] = ItemSeq[y] /\ x < y
    OBVIOUS
  <2>3. R \subseteq items \X items
    OBVIOUS
  <2> HIDE DEF R
  <2>4. \A x \in items : <<x, x>> \notin R
    BY <2>1, <2>2
  <2>5. \A x, y \in items : x = y \/ <<x, y>> \in R \/ <<y, x>> \in R
    <3>1. ASSUME NEW x \in items, NEW y \in items
          PROVE  \/ x = y \/ ItemSeq[x] > ItemSeq[y] \/ ItemSeq[y] > ItemSeq[x]
                 \/ ItemSeq[x] = ItemSeq[y] /\ x < y
                 \/ ItemSeq[y] = ItemSeq[x] /\ y < x
      BY <2>1
    <3> QED
      BY <2>2, <3>1, Zenon
  <2>6. ASSUME NEW x \in items, NEW y \in items, NEW z \in items,
               <<x, y>> \in R, <<y, z>> \in R
        PROVE  <<x, z>> \in R
    BY <2>1, <2>2, <2>6
  <2> QED
    BY <2>3, <2>4, <2>5, <2>6 DEF IsLinearOrder
<1>4. \A x \in items : Ahead(x) = {y \in items : <<y, x>> \in R}
  OBVIOUS
<1>5. Recent(items) = [i \in 1..n |-> At(i)]
  BY DEF Recent
<1> HIDE DEF Ahead, R, n
<1>6. ASSUME NEW i \in 1..n PROVE At(i) \in items /\ Cardinality(Ahead(At(i))) = i - 1
  <2>1. i \in 1..Cardinality(items)
    BY <1>1, <1>2, FS_CardinalityType
  <2>2. \E x \in items : Cardinality({y \in items : <<y, x>> \in R}) = i - 1
    BY <1>1, <1>3, <2>1, PlaceTaken
  <2>3. \E x \in items : Cardinality(Ahead(x)) = i - 1
    BY <1>4, <2>2
  <2> QED
    BY <2>3, Zenon
<1> HIDE DEF At
<1>7. Recent(items) \in [1..n -> items]
  BY <1>5, <1>6
<1>8. ASSUME NEW i \in 1..n, NEW j \in 1..n, Recent(items)[i] = Recent(items)[j]
      PROVE  i = j
  <2>1. At(i) = At(j)
    BY <1>5, <1>8
  <2>2. i - 1 = j - 1
    BY <1>6, <2>1
  <2> QED
    BY <1>2, <2>2
<1> QED
  BY <1>2, <1>7, <1>8 DEF ListsOnce

-------------------------------------------------------------------------------
\* Reciprocals of the ranks an audit deals with differ.
LEMMA ReciprocalFallsStrictly ==
  ASSUME NEW i \in 1..MAX_ITEMS, NEW j \in 1..MAX_ITEMS, i < j
  PROVE  Reciprocal(j) < Reciprocal(i)
<1> DEFINE a == RRF_K + i
           b == RRF_K + j
           p == Billion \div a
           q == Billion \div b
<1>1. /\ a \in Nat \ {0} /\ b \in Nat \ {0} /\ a + 1 <= b /\ b <= 2060
      /\ Billion = 1000000000
  BY DEF MAX_ITEMS, RRF_K, Billion
<1>2. p \in Nat /\ q \in Nat
  <2>1. Billion \in Nat
    BY DEF Billion
  <2> HIDE DEF a, b
  <2> QED
    BY <1>1, <2>1, DivisionGrows
<1>3. p * a <= Billion /\ Billion < p * a + a /\ q * b <= Billion /\ Billion < q * b + b
  <2> HIDE DEF a, b
  <2> QED
    BY <1>1
<1> HIDE DEF a, b, p, q
<1>4. q >= b
  <2>1. SUFFICES ASSUME q + 1 <= b PROVE FALSE
    BY <1>1, <1>2
  <2>2. (q + 1) * b <= b * b /\ b * b <= 2060 * 2060
    BY <1>1, <1>2, <2>1
  <2>3. (q + 1) * b = q * b + b
    BY <1>1, <1>2
  <2> QED
    BY <1>1, <1>2, <1>3, <2>2, <2>3
<1>5. q < p
  <2>1. SUFFICES ASSUME p + 1 <= q + 1 PROVE FALSE
    BY <1>2
  <2>2. (p + 1) * a <= (q + 1) * a /\ (p + 1) * a = p * a + a
    BY <1>1, <1>2, <2>1
  <2>3. (q + 1) * a <= (q + 1) * (b - 1) /\ (q + 1) * (b - 1) = q * b + b - q - 1
    BY <1>1, <1>2
  <2>4. Billion < q * b + b - q - 1
    BY <1>1, <1>2, <1>3, <2>2, <2>3
  <2> QED
    BY <1>1, <1>2, <1>3, <1>4, <2>4
<1> QED
  BY <1>5 DEF a, b, p, q, Reciprocal

\* A list gives its items shares that fall from rank to rank, and others none.
LEMMA SharesFall ==
  ASSUME NEW items, IsFiniteSet(items), Cardinality(items) <= MAX_ITEMS,
         NEW s, ListsOnce(s, items)
  PROVE  /\ \A z : ShareOf(z, s) \in Nat
         /\ \A z : z \notin RangeOf(s) => ShareOf(z, s) = 0
         /\ \A x, y \in RangeOf(s) : RankOf(x, s) < RankOf(y, s) => ShareOf(y, s) < ShareOf(x, s)
<1>1. PICK n \in Nat : s \in [1..n -> items] /\ \A i, j \in 1..n : s[i] = s[j] => i = j
  BY DEF ListsOnce
<1>2. n <= MAX_ITEMS
  <2>1. n <= Cardinality(items) /\ Cardinality(items) \in Nat
    BY <1>1, DistinctList, FS_CardinalityType
  <2> QED
    BY <2>1 DEF MAX_ITEMS
<1>3. ASSUME NEW z, z \in RangeOf(s)
      PROVE  RankOf(z, s) \in 1..MAX_ITEMS /\ ShareOf(z, s) = Reciprocal(RankOf(z, s))
  <2>1. \E i \in DOMAIN s : s[i] = z
    BY <1>3 DEF RangeOf
  <2>2. RankOf(z, s) \in DOMAIN s
    BY <2>1 DEF RankOf
  <2>3. RankOf(z, s) \in 1..n
    BY <1>1, <2>2
  <2>4. RankOf(z, s) \in 1..MAX_ITEMS
    BY <1>2, <2>3 DEF MAX_ITEMS
  <2> QED
    BY <1>3, <2>4 DEF ShareOf
<1>4. \A z : z \notin RangeOf(s) => ShareOf(z, s) = 0
  BY DEF ShareOf
<1>5. \A z : ShareOf(z, s) \in Nat
  <2>1. ASSUME NEW z, z \in RangeOf(s) PROVE ShareOf(z, s) \in Nat
    <3>1. RankOf(z, s) \in Nat /\ RankOf(z, s) <= RankOf(z, s)
      BY <1>3, <2>1
    <3>2. Reciprocal(RankOf(z, s)) \in Nat
      BY <3>1, ReciprocalFalls
    <3> QED
      BY <1>3, <2>1, <3>2
  <2> QED
    BY <1>4, <2>1
<1>6. ASSUME NEW x \in RangeOf(s), NEW y \in RangeOf(s), RankOf(x, s) < RankOf(y, s)
      PROVE  ShareOf(y, s) < ShareOf(x, s)
  <2>1. Reciprocal(RankOf(y, s)) < Reciprocal(RankOf(x, s))
    BY <1>3, <1>6, ReciprocalFallsStrictly
  <2> QED
    BY <1>3, <2>1
<1> QED
  BY <1>4, <1>5, <1>6

\* What a retrieval fuses: two or three lists of the items.
ListsOf(lists, items) ==
    /\ Len(lists) \in Nat /\ DOMAIN lists = 1..Len(lists)
    /\ \A i \in 1..Len(lists) : ListsOnce(lists[i], items)

LEMMA AheadGetsMore ==
  ASSUME NEW items, IsFiniteSet(items), Cardinality(items) <= MAX_ITEMS,
         NEW lists, ListsOf(lists, items), NEW x, NEW y, AheadInAll(x, y, lists)
  PROVE  /\ ShareSum(y, lists) < ShareSum(x, lists)
         /\ ShareSum(y, lists) \in Nat /\ ShareSum(x, lists) \in Nat
<1> DEFINE m == Len(lists)
           f == Shares(y, lists)
           g == Shares(x, lists)
<1>1. m \in Nat /\ DOMAIN lists = 1..m
  BY DEF ListsOf
<1>2. \A i \in 1..m : f[i] = ShareOf(y, lists[i]) /\ g[i] = ShareOf(x, lists[i])
  BY <1>1 DEF Shares
<1>3. ASSUME NEW i \in 1..m
      PROVE  /\ f[i] \in Nat /\ g[i] \in Nat /\ f[i] <= g[i]
             /\ y \in RangeOf(lists[i]) => f[i] < g[i]
  <2>1. ListsOnce(lists[i], items)
    BY DEF ListsOf
  <2>2. /\ \A z : ShareOf(z, lists[i]) \in Nat
        /\ \A z : z \notin RangeOf(lists[i]) => ShareOf(z, lists[i]) = 0
        /\ \A u, v \in RangeOf(lists[i]) :
              RankOf(u, lists[i]) < RankOf(v, lists[i]) =>
                  ShareOf(v, lists[i]) < ShareOf(u, lists[i])
    BY <2>1, SharesFall
  <2>3. ASSUME y \in RangeOf(lists[i]) PROVE ShareOf(y, lists[i]) < ShareOf(x, lists[i])
    BY <1>1, <2>2, <2>3 DEF AheadInAll
  <2> HIDE DEF f, g
  <2> QED
    BY <1>2, <2>2, <2>3
<1>4. \E i \in 1..m : f[i] < g[i]
  <2>1. PICK i \in 1..m : y \in RangeOf(lists[i])
    BY <1>1 DEF AheadInAll
  <2> QED
    BY <1>3, <2>1
<1> HIDE DEF f, g
<1>5. Total(f, m) < Total(g, m) /\ Total(f, m) \in Nat /\ Total(g, m) \in Nat
  <2>1. \A i \in 1..m : f[i] \in Nat /\ g[i] \in Nat /\ f[i] <= g[i]
    BY <1>3
  <2>2. Total(f, m) < Total(g, m)
    BY <1>1, <1>4, <2>1, TotalLess
  <2> QED
    BY <1>1, <2>1, <2>2, TotalGrows
<1> QED
  BY <1>5 DEF f, g, ShareSum

\* A fused order has everything once, and what is ahead of an item in every
\* list comes before it.
AheadFirst(s, lists) ==
    \A j \in 1..Len(s) : \A x :
        AheadInAll(x, s[j], lists) => \E i \in 1..Len(s) : i < j /\ s[i] = x

LEMMA FusedAheadFirst ==
  ASSUME NEW items, IsFiniteSet(items), Cardinality(items) <= MAX_ITEMS,
         NEW lists, ListsOf(lists, items), NEW s \in FusedOrders(lists)
  PROVE  ListsOnce(s, items) /\ AheadFirst(s, lists)
<1> DEFINE all == UNION {RangeOf(lists[i]) : i \in DOMAIN lists}
<1>1. /\ s \in Arrangements(all) /\ Len(s) = Cardinality(all)
      /\ \A i, j \in DOMAIN s : i < j => MayPrecede(s[i], s[j], lists)
  BY DEF FusedOrders
<1>2. DOMAIN lists = 1..Len(lists) /\ \A i \in DOMAIN lists : ListsOnce(lists[i], items)
  BY DEF ListsOf
<1>3. all \subseteq items
  <2>1. ASSUME NEW i \in DOMAIN lists PROVE RangeOf(lists[i]) \subseteq items
    <3>1. ListsOnce(lists[i], items)
      BY <1>2
    <3> QED
      BY <3>1 DEF ListsOnce, RangeOf
  <2> QED
    BY <2>1
<1>4. \A i \in DOMAIN lists : RangeOf(lists[i]) \subseteq all
  OBVIOUS
<1> HIDE DEF all
<1>5. IsFiniteSet(all)
  BY <1>3, FS_Subset
<1>6. ListsOnce(s, all)
  <2>1. RangeOf(s) \subseteq all
    BY <1>1 DEF Arrangements, RangeOf
  <2> QED
    BY <1>1, <2>1, ArrangementLists
<1>7. /\ Len(s) \in Nat /\ s \in [1..Len(s) -> all] /\ DOMAIN s = 1..Len(s)
      /\ \A i, j \in 1..Len(s) : s[i] = s[j] => i = j
  BY <1>6, ListIsSequence
<1>8. ListsOnce(s, items)
  BY <1>3, <1>7 DEF ListsOnce
<1>9. \A x \in all : \E i \in 1..Len(s) : s[i] = x
  BY <1>1, <1>5, <1>7, DistinctList
<1>10. ASSUME NEW j \in 1..Len(s), NEW x, AheadInAll(x, s[j], lists)
       PROVE  \E i \in 1..Len(s) : i < j /\ s[i] = x
  <2>1. PICK h \in DOMAIN lists : s[j] \in RangeOf(lists[h])
    BY <1>10 DEF AheadInAll
  <2>2. x \in RangeOf(lists[h]) /\ RankOf(x, lists[h]) < RankOf(s[j], lists[h])
    BY <1>10, <2>1 DEF AheadInAll
  <2>3. PICK i \in 1..Len(s) : s[i] = x
    BY <1>4, <1>9, <2>2
  <2>4. /\ ShareSum(s[j], lists) < ShareSum(x, lists)
        /\ ShareSum(s[j], lists) \in Nat /\ ShareSum(x, lists) \in Nat
    BY <1>10, AheadGetsMore
  <2>5. ~ (j < i)
    <3>1. ASSUME j < i PROVE MayPrecede(s[j], s[i], lists)
      BY <1>1, <1>7, <3>1
    <3>2. ~ MayPrecede(s[j], x, lists)
      BY <2>4 DEF MayPrecede
    <3> QED
      BY <2>3, <3>1, <3>2
  <2>6. i # j
    BY <2>3, <2>4
  <2>7. i < j
    BY <1>7, <2>5, <2>6
  <2> QED
    BY <2>3, <2>7
<1> QED
  BY <1>8, <1>10 DEF AheadFirst

\* The first k of a list.
LEMMA FirstOnes ==
  ASSUME NEW S, NEW s, ListsOnce(s, S), NEW k \in Nat
  PROVE  /\ ListsOnce(TopK(s, k), S) /\ Len(TopK(s, k)) <= k
         /\ Len(TopK(s, k)) <= Len(s)
         /\ \A i \in 1..Len(TopK(s, k)) : TopK(s, k)[i] = s[i]
<1> DEFINE n == Smaller(k, Len(s))
<1>1. /\ s \in Seq(S) /\ Len(s) \in Nat /\ s \in [1..Len(s) -> S]
      /\ \A i, j \in 1..Len(s) : s[i] = s[j] => i = j
  BY ListIsSequence
<1>2. n \in Nat /\ n <= k /\ n <= Len(s)
  BY <1>1 DEF Smaller
<1>3. TopK(s, k) = SubSeq(s, 1, n)
  BY DEF TopK
<1> HIDE DEF n
<1>4. SubSeq(s, 1, n) = [i \in 1..n |-> s[i]]
  BY <1>1, <1>2
<1>5. TopK(s, k) \in [1..n -> S] /\ \A i \in 1..n : TopK(s, k)[i] = s[i]
  <2>1. TopK(s, k) = [i \in 1..n |-> s[i]]
    BY <1>3, <1>4, Zenon
  <2>2. \A i \in 1..n : s[i] \in S
    BY <1>1, <1>2
  <2> QED
    BY <2>1, <2>2
<1>6. \A i, j \in 1..n : TopK(s, k)[i] = TopK(s, k)[j] => i = j
  BY <1>1, <1>2, <1>5
<1>7. ListsOnce(TopK(s, k), S)
  BY <1>2, <1>5, <1>6 DEF ListsOnce
<1>8. Len(TopK(s, k)) = n
  <2>1. DOMAIN TopK(s, k) = 1..Len(TopK(s, k)) /\ Len(TopK(s, k)) \in Nat
    BY <1>7, ListIsSequence
  <2>2. DOMAIN TopK(s, k) = 1..n
    BY <1>5
  <2>3. \A a, b \in Nat : 1..a = 1..b => a = b
    OBVIOUS
  <2> QED
    BY <1>2, <2>1, <2>2, <2>3
<1> QED
  BY <1>2, <1>5, <1>7, <1>8

\* The finite items of a request.
LEMMA FewItems ==
  ASSUME AuditTypes
  PROVE  IsFiniteSet(audit.items) /\ Cardinality(audit.items) \in Nat
<1>1. IsFiniteSet(audit.items)
  BY RankFusionAssumption, FS_Subset DEF AuditTypes
<1> QED
  BY <1>1, FS_CardinalityType

LEMMA AcceptAuditKeeps ==
  ASSUME AuditInv, NEW r \in AuditRequests, AcceptAudit(r)
  PROVE  AuditInv'
<1>1. audit_pc' = "expand" /\ audit' = r /\ candidates' = <<>> /\ judge_reply' = "none"
      /\ expansions' = expansions
  BY DEF AcceptAudit, AuditInv, ProgressInv
<1>2. ListsOnce(<<>>, r.items) /\ Len(<<>>) = 0
  BY NothingListed
<1>3. AuditTypes'
  BY <1>1, <1>2, AuditAssumption DEF AuditInv, AuditTypes
<1>4. ProgressInv'
  BY <1>1 DEF ProgressInv
<1>5. ReportAddsUp' /\ NoBetterLeftOut'
  BY <1>1 DEF ReportAddsUp, NoBetterLeftOut
<1> QED
  BY <1>3, <1>4, <1>5 DEF AuditInv

LEMMA AuditFailsKeeps ==
  ASSUME AuditInv, ProviderFails
  PROVE  AuditInv'
<1>1. audit_pc' = "failed"
      /\ UNCHANGED <<audit, expansions, by_rules, by_llm, candidates>>
  BY DEF ProviderFails
<1>2. AuditTypes'
  BY <1>1 DEF AuditInv, AuditTypes
<1>3. ProgressInv' /\ ReportAddsUp'
  BY <1>1 DEF ProgressInv, ReportAddsUp
<1>4. NoBetterLeftOut'
  BY <1>1 DEF AuditInv, NoBetterLeftOut
<1> QED
  BY <1>2, <1>3, <1>4 DEF AuditInv

LEMMA ExpandKeeps ==
  ASSUME AuditInv, NEW usable \in ReplyLengths, Expand(usable)
  PROVE  AuditInv'
<1>1. /\ audit_pc = "expand" /\ audit_pc' = "retrieve" /\ audit' = audit
      /\ candidates = <<>> /\ candidates' = <<>> /\ judge_reply' = "none"
  BY DEF Expand, AuditInv, ProgressInv
<1>2. expansions' \in Nat
  BY AuditAssumption DEF Expand, Smaller
<1>3. llm_calls' = IF audit.expand /\ audit.items # {} THEN 1 ELSE 0
  BY DEF Expand
<1>4. AuditTypes'
  BY <1>1, <1>2 DEF AuditInv, AuditTypes
<1>5. ProgressInv'
  BY <1>1, <1>3 DEF ProgressInv
<1>6. ReportAddsUp' /\ NoBetterLeftOut'
  BY <1>1 DEF ReportAddsUp, NoBetterLeftOut
<1> QED
  BY <1>4, <1>5, <1>6 DEF AuditInv

\* What is fused lists the items of the request.
LEMMA FusedListsAreLists ==
  ASSUME AuditTypes, Retrieve
  PROVE  ListsOf(FusedLists(expansions, by_rules', by_llm', Recent(audit.items)), audit.items)
<1> DEFINE newest == Recent(audit.items)
<1>1. ListsOnce(newest, audit.items)
  BY RecentLists DEF AuditTypes
<1>2. ListsOnce(by_rules', audit.items)
  <2>1. by_rules' = <<>> \/ by_rules' \in RanksOf(audit.items)
    BY DEF Retrieve
  <2> QED
    BY <2>1, NothingListed, RanksAreLists
<1>3. expansions > 0 => ListsOnce(by_llm', audit.items)
  <2>1. expansions > 0 => by_llm' \in RanksOf(audit.items)
    BY DEF Retrieve
  <2> QED
    BY <2>1, RanksAreLists
<1> HIDE DEF newest
<1>4. CASE expansions > 0
  <2>1. FusedLists(expansions, by_rules', by_llm', newest) = <<by_rules', by_llm', newest>>
    BY <1>4 DEF FusedLists
  <2> QED
    BY <1>1, <1>2, <1>3, <1>4, <2>1 DEF ListsOf, newest
<1>5. CASE ~ (expansions > 0)
  <2>1. FusedLists(expansions, by_rules', by_llm', newest) = <<by_rules', newest>>
    BY <1>5 DEF FusedLists
  <2> QED
    BY <1>1, <1>2, <2>1 DEF ListsOf, newest
<1> QED
  BY <1>4, <1>5

LEMMA RetrieveKeeps ==
  ASSUME AuditInv, Retrieve
  PROVE  AuditInv'
<1> DEFINE lists == FusedLists(expansions, by_rules', by_llm', Recent(audit.items))
<1>1. /\ audit_pc = "retrieve" /\ audit_pc' = "judge" /\ audit' = audit
      /\ expansions' = expansions /\ judge_reply' = judge_reply /\ llm_calls' = llm_calls
  BY DEF Retrieve
<1>2. PICK s \in FusedOrders(lists) : candidates' = TopK(s, audit.k)
  BY DEF Retrieve
<1>3. AuditTypes /\ ProgressInv
  BY DEF AuditInv
<1>4. ListsOf(lists, audit.items)
  BY <1>3, FusedListsAreLists
<1>5. /\ IsFiniteSet(audit.items) /\ Cardinality(audit.items) <= MAX_ITEMS /\ audit.k \in Nat
  BY <1>3, FewItems DEF AuditTypes
<1> HIDE DEF lists
<1>6. ListsOnce(s, audit.items) /\ AheadFirst(s, lists)
  BY <1>2, <1>4, <1>5, FusedAheadFirst
<1>7. /\ ListsOnce(candidates', audit.items) /\ Len(candidates') <= audit.k
      /\ Len(candidates') <= Len(s)
      /\ \A i \in 1..Len(candidates') : candidates'[i] = s[i]
  BY <1>2, <1>5, <1>6, FirstOnes
<1>8. AuditTypes'
  BY <1>1, <1>3, <1>7 DEF AuditTypes
<1>9. ProgressInv'
  BY <1>1, <1>3 DEF ProgressInv
<1>10. ReportAddsUp'
  BY <1>1 DEF ReportAddsUp
<1>11. NoBetterLeftOut'
  <2>1. ASSUME NEW y \in RangeOf(candidates'), NEW x, AheadInAll(x, y, lists)
        PROVE  x \in RangeOf(candidates')
    <3>1. DOMAIN candidates' = 1..Len(candidates') /\ Len(candidates') \in Nat /\ Len(s) \in Nat
      BY <1>6, <1>7, ListIsSequence
    <3>2. PICK j \in 1..Len(candidates') : candidates'[j] = y
      BY <3>1 DEF RangeOf
    <3>3. j \in 1..Len(s) /\ s[j] = y
      BY <1>7, <3>1, <3>2
    <3>4. PICK i \in 1..Len(s) : i < j /\ s[i] = x
      BY <1>6, <2>1, <3>3 DEF AheadFirst
    <3>5. i \in 1..Len(candidates') /\ candidates'[i] = x
      BY <1>7, <3>1, <3>4
    <3> QED
      BY <3>1, <3>5 DEF RangeOf
  <2>2. lists = IF expansions' > 0 THEN <<by_rules', by_llm', Recent(audit'.items)>>
                                   ELSE <<by_rules', Recent(audit'.items)>>
    BY <1>1 DEF lists, FusedLists
  <2> QED
    BY <2>1, <2>2 DEF NoBetterLeftOut
<1> QED
  BY <1>8, <1>9, <1>10, <1>11 DEF AuditInv

LEMMA SkipJudgeKeeps ==
  ASSUME AuditInv, SkipJudge
  PROVE  AuditInv'
<1>1. /\ audit_pc = "judge" /\ audit_pc' = "verify" /\ candidates = <<>>
      /\ UNCHANGED <<audit, expansions, candidates, judge_reply, llm_calls>>
  BY DEF SkipJudge
<1>2. AuditTypes'
  BY <1>1 DEF AuditInv, AuditTypes
<1>3. ProgressInv'
  BY <1>1 DEF AuditInv, ProgressInv
<1>4. ReportAddsUp' /\ NoBetterLeftOut'
  BY <1>1 DEF ReportAddsUp, NoBetterLeftOut
<1> QED
  BY <1>2, <1>3, <1>4 DEF AuditInv

LEMMA JudgeKeeps ==
  ASSUME AuditInv, NEW reply, reply # "none", NEW said, Judge(reply, said)
  PROVE  AuditInv'
<1>1. /\ audit_pc = "judge" /\ audit_pc' = "verify"
      /\ judge_reply' = reply /\ llm_calls' = llm_calls + 1
      /\ UNCHANGED <<audit, expansions, by_rules, by_llm, candidates>>
  BY DEF Judge
<1>2. AuditTypes'
  BY <1>1 DEF AuditInv, AuditTypes
<1>3. ProgressInv'
  BY <1>1 DEF AuditInv, ProgressInv
<1>4. ReportAddsUp'
  BY <1>1 DEF ReportAddsUp
<1>5. NoBetterLeftOut'
  BY <1>1 DEF AuditInv, NoBetterLeftOut
<1> QED
  BY <1>2, <1>3, <1>4, <1>5 DEF AuditInv

\* What the judge said of the candidates is flagged or counted.
LEMMA VerifyKeeps ==
  ASSUME AuditInv, Verify
  PROVE  AuditInv'
<1> DEFINE C == 1..Len(candidates)
           K == {i \in C : Dependent(candidates[i]) /\ Quoted(candidates[i])}
           F == {x \in RangeOf(candidates) : Dependent(x) /\ Quoted(x)}
           D == {x \in RangeOf(candidates) : Dependent(x) /\ ~Quoted(x)}
<1>1. /\ audit_pc = "verify" /\ audit_pc' = "done"
      /\ UNCHANGED <<audit, expansions, by_rules, by_llm, candidates, verdicts, judge_reply,
                     llm_calls>>
  BY DEF Verify
<1>2. AuditTypes /\ ProgressInv /\ ListsOnce(candidates, audit.items)
  BY DEF AuditInv, AuditTypes
<1>3. /\ candidates \in Seq(audit.items) /\ Len(candidates) \in Nat
      /\ DOMAIN candidates = C
      /\ \A i, j \in C : candidates[i] = candidates[j] => i = j
  BY <1>2, ListIsSequence
<1>4. RangeOf(candidates) = {candidates[i] : i \in C}
  BY <1>3 DEF RangeOf
<1>5. IsFiniteSet(C) /\ Cardinality(C) = Len(candidates)
  BY <1>3, FS_Interval, SMTT(30)
<1>6. IsFiniteSet(RangeOf(candidates)) /\ Cardinality(RangeOf(candidates)) = Len(candidates)
  <2>1. IsFiniteSet(C) /\ \A i, j \in C : candidates[i] = candidates[j] => i = j
    BY <1>3, <1>5
  <2> HIDE DEF C
  <2>2. /\ IsFiniteSet({candidates[i] : i \in C})
        /\ Cardinality({candidates[i] : i \in C}) = Cardinality(C)
    BY <2>1, DistinctElements
  <2> QED
    BY <1>4, <1>5, <2>2, Zenon
<1>7. flagged' = Kept(candidates, K) /\ dropped_quotes' = Cardinality(D)
  BY <1>3 DEF Verify
<1>8. K \subseteq C /\ \A i \in C : i \in K <=> Dependent(candidates[i]) /\ Quoted(candidates[i])
  OBVIOUS
<1>9. F = {candidates[i] : i \in K}
  BY <1>4
<1>10. /\ F \cap D = {} /\ F \cup D = {x \in RangeOf(candidates) : Dependent(x)}
       /\ F \subseteq RangeOf(candidates) /\ D \subseteq RangeOf(candidates)
       /\ \A x \in F : verdicts[x] = x
  BY DEF Quoted
<1> HIDE DEF K, F, D
<1>11. IsFiniteSet(K)
  BY <1>5, <1>8, FS_Subset
<1>12. Cardinality(F) = Cardinality(K) /\ IsFiniteSet(F)
  <2>1. \A i, j \in K : candidates[i] = candidates[j] => i = j
    BY <1>3, <1>8
  <2> QED
    BY <1>9, <1>11, <2>1, DistinctElements
<1>13. /\ flagged' \in Seq(audit.items) /\ Len(flagged') = Cardinality(K)
       /\ Cardinality(K) \in Nat
       /\ \A n \in 1..Cardinality(K) :
             Nth(K, n) \in K /\ flagged'[n] = candidates[Nth(K, n)]
  BY <1>3, <1>7, <1>8, KeptElements, ZenonT(30)
<1>14. RangeOf(flagged') \subseteq F
  <2>1. DOMAIN flagged' = 1..Cardinality(K)
    BY <1>13
  <2> QED
    BY <1>9, <1>13, <2>1 DEF RangeOf
<1>15. IsFiniteSet(D) /\ Cardinality(D) \in Nat
  BY <1>6, <1>10, FS_Subset, FS_CardinalityType
<1>16. Cardinality(F \cup D) = Cardinality(F) + Cardinality(D)
  <2>1. Cardinality(F \cup D) = Cardinality(F) + Cardinality(D) - Cardinality(F \cap D)
    BY <1>12, <1>15, FS_Union
  <2>2. Cardinality(F \cap D) = 0
    BY <1>10, FS_EmptySet
  <2> QED
    BY <1>12, <1>13, <1>15, <2>1, <2>2
<1>17. Len(flagged') + dropped_quotes'
          = Cardinality({x \in RangeOf(candidates) : Dependent(x)})
  BY <1>7, <1>10, <1>12, <1>13, <1>16
<1>18. AuditTypes'
  BY <1>1, <1>2 DEF AuditTypes
<1>19. ProgressInv'
  BY <1>1, <1>2 DEF ProgressInv
<1>20. NoBetterLeftOut'
  BY <1>1 DEF AuditInv, NoBetterLeftOut
<1>21. ReportAddsUp'
  <2>1. Len(candidates') <= audit'.k /\ Cardinality(RangeOf(candidates')) = Len(candidates')
    BY <1>1, <1>2, <1>6 DEF AuditTypes
  <2>2. RangeOf(candidates') \subseteq audit'.items
    BY <1>1, <1>3 DEF RangeOf
  <2>3. /\ RangeOf(flagged') \subseteq RangeOf(candidates')
        /\ \A x \in RangeOf(flagged') : verdicts'[x] = x
    BY <1>1, <1>10, <1>14
  <2>4. {x \in RangeOf(candidates') : Dependent(x)'} = {x \in RangeOf(candidates) : Dependent(x)}
    BY <1>1 DEF Dependent
  <2>5. Len(flagged') + dropped_quotes'
           = Cardinality({x \in RangeOf(candidates') : Dependent(x)'})
    BY <1>17, <2>4
  <2>6. llm_calls' = (IF audit'.expand /\ audit'.items # {} THEN 1 ELSE 0)
                       + (IF judge_reply' = "none" THEN 0 ELSE 1)
    BY <1>1, <1>2 DEF ProgressInv
  <2> QED
    BY <2>1, <2>2, <2>3, <2>5, <2>6, Zenon DEF ReportAddsUp
<1> QED
  BY <1>18, <1>19, <1>20, <1>21 DEF AuditInv

LEMMA NoAuditHolds ==
  ASSUME audit_pc = "idle", audit = NoAudit, expansions = 0, candidates = <<>>,
         judge_reply = "none"
  PROVE  AuditInv
<1>1. ListsOnce(<<>>, {}) /\ Len(<<>>) = 0
  BY NothingListed
<1>2. Cardinality({}) = 0
  BY FS_EmptySet
<1>3. AuditTypes
  BY <1>1, <1>2 DEF AuditTypes, NoAudit, MAX_ITEMS
<1>4. ProgressInv /\ ReportAddsUp /\ NoBetterLeftOut
  BY DEF ProgressInv, ReportAddsUp, NoBetterLeftOut
<1> QED
  BY <1>3, <1>4 DEF AuditInv

LEMMA ForgetAuditKeeps ==
  ASSUME ForgetAudit
  PROVE  AuditInv'
<1>1. ListsOnce(<<>>, {}) /\ Len(<<>>) = 0
  BY NothingListed
<1>2. Cardinality({}) = 0
  BY FS_EmptySet
<1>3. AuditTypes'
  BY <1>1, <1>2 DEF AuditTypes, NoAudit, MAX_ITEMS, ForgetAudit
<1>4. ProgressInv' /\ ReportAddsUp' /\ NoBetterLeftOut'
  BY DEF ProgressInv, ReportAddsUp, NoBetterLeftOut, ForgetAudit
<1> QED
  BY <1>3, <1>4 DEF AuditInv

LEMMA AuditStepsKeep ==
  ASSUME AuditInv, [AuditNext]_auditVars
  PROVE  AuditInv'
<1>1. CASE \E r \in AuditRequests : AcceptAudit(r)
  BY <1>1, AcceptAuditKeeps
<1>2. CASE AuditStep
  <2>1. CASE ProviderFails
    BY <2>1, AuditFailsKeeps
  <2>2. CASE \E n \in ReplyLengths : Expand(n)
    BY <2>2, ExpandKeeps
  <2>3. CASE Retrieve
    BY <2>3, RetrieveKeeps
  <2>4. CASE SkipJudge
    BY <2>4, SkipJudgeKeeps
  <2>5. CASE \E said \in [Items -> Verdicts] : Judge("usable", said)
    BY <2>5, JudgeKeeps
  <2>6. CASE Judge("unusable", Silence)
    BY <2>6, JudgeKeeps
  <2>7. CASE Verify
    BY <2>7, VerifyKeeps
  <2> QED
    BY <1>2, <2>1, <2>2, <2>3, <2>4, <2>5, <2>6, <2>7 DEF AuditStep
<1>3. CASE ForgetAudit
  BY <1>3, ForgetAuditKeeps
<1>4. CASE UNCHANGED auditVars
  <2>1. AuditTypes'
    BY <1>4 DEF AuditInv, AuditTypes, auditVars
  <2>2. ProgressInv'
    BY <1>4 DEF AuditInv, ProgressInv, auditVars
  <2>3. ReportAddsUp'
    BY <1>4 DEF AuditInv, ReportAddsUp, Dependent, auditVars
  <2>4. NoBetterLeftOut'
    BY <1>4 DEF AuditInv, NoBetterLeftOut, auditVars
  <2> QED
    BY <2>1, <2>2, <2>3, <2>4 DEF AuditInv
<1> QED
  BY <1>1, <1>2, <1>3, <1>4 DEF AuditNext

LEMMA AuditInvHolds == AuditSpec => []AuditInv
<1>1. AuditInit => AuditInv
  BY NoAuditHolds DEF AuditInit
<1>2. AuditInv /\ [AuditNext]_auditVars => AuditInv'
  BY AuditStepsKeep
<1> QED
  BY <1>1, <1>2, PTL DEF AuditSpec

\* Whatever the judge replies, of whatever items: at most k distinct items of
\* the request are judged, a flag names one of them and quotes that very item,
\* and each dependency claimed of a judged item is flagged or counted as
\* dropped (verify, audit.py:184).
THEOREM ReportsAddUp == AuditSpec => []ReportAddsUp
<1>1. AuditInv => ReportAddsUp
  BY DEF AuditInv
<1> QED
  BY <1>1, AuditInvHolds, PTL

\* No item is judged in place of one that every fused list has ahead of it: the
\* reciprocals of the ranks of at most 2000 items still differ when their sums
\* are compared, and the cut to k comes after the fusion (audit.py:100,
\* audit_graph.py:79).
THEOREM BestAreJudged == AuditSpec => []NoBetterLeftOut
<1>1. AuditInv => NoBetterLeftOut
  BY DEF AuditInv
<1> QED
  BY <1>1, AuditInvHolds, PTL

-------------------------------------------------------------------------------
(***************************************************************************)
(* The service: its requests are recalls and audits as above.              *)
(***************************************************************************)

LEMMA ServiceRunsParts ==
  /\ Spec => RecallSpec
  /\ Spec => AuditSpec
<1>1. Init => RecallInit /\ AuditInit
  BY DEF Init
<1>2. ASSUME [Next]_vars PROVE [RecallNext]_recallVars /\ [AuditNext]_auditVars
  <2>1. ASSUME NEW built \in BOOLEAN, RefuseAudit(built)
        PROVE  UNCHANGED <<recallVars, auditVars>>
    BY <2>1 DEF RefuseAudit
  <2>2. ASSUME NEW built \in BOOLEAN, NEW r \in AuditRequests, StartAudit(r, built)
        PROVE  AcceptAudit(r) /\ UNCHANGED recallVars
    BY <2>2 DEF StartAudit
  <2>3. ASSUME RunAudit PROVE AuditStep /\ UNCHANGED recallVars
    BY <2>3 DEF RunAudit
  <2>4. ASSUME NEW r \in RecallRequests, StartRecall(r)
        PROVE  AcceptRecall(r) /\ UNCHANGED auditVars
    BY <2>4 DEF StartRecall
  <2>5. ASSUME RunRecall
        PROVE  (RankItems \/ ConsiderItem \/ AnswerRecall) /\ UNCHANGED auditVars
    BY <2>5 DEF RunRecall
  <2>6. ASSUME NEW r \in SimilarRequests, NEW embedded \in BOOLEAN, RunSimilar(r, embedded)
        PROVE  AnswerSimilar(r, embedded) /\ UNCHANGED auditVars
    BY <2>6 DEF RunSimilar
  <2>7. ASSUME Finish
        PROVE  /\ ForgetAudit \/ UNCHANGED auditVars
               /\ ForgetRecall \/ UNCHANGED recallVars
    BY <2>7 DEF Finish
  <2>8. CASE UNCHANGED vars
    BY <2>8 DEF vars
  <2> QED
    BY <1>2, <2>1, <2>2, <2>3, <2>4, <2>5, <2>6, <2>7, <2>8 DEF Next, RecallNext, AuditNext
<1>3. [Next]_vars => [RecallNext]_recallVars /\ [AuditNext]_auditVars
  BY <1>2
<1> QED
  BY <1>1, <1>3, PTL DEF Spec, RecallSpec, AuditSpec

\* The service that takes one request after another, refuses audits without a
\* client and forgets each answer keeps what its recalls and audits promise
\* (engine.py:42): no step of the shell reaches into a request under way.
THEOREM RequestsAreSound == Spec => [](RecallSound /\ ReportAddsUp /\ NoBetterLeftOut)
BY ServiceRunsParts, RecallsAreSound, ReportsAddUp, BestAreJudged, PTL
===============================================================================
