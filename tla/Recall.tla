-------------------------------- MODULE Recall --------------------------------
(***************************************************************************)
(* One request of POST /recall and of POST /similar (Recaller, recall.py):  *)
(* BM25 and cosine rankings are fused with the caller's hints and a recency *)
(* bonus, then the items are taken, best first, into a budget of tokens.    *)
(* The vectors come from the cache of EmbeddingCache; what matters here is  *)
(* only whether they came.                                                  *)
(***************************************************************************)
EXTENDS RankFusion

CONSTANTS
    Tokens,           \* tokens of each item's text
    RecallRequests,   \* [items, thread, role, query, budget_tokens, k]: thread and
                      \* role are the items that match a given hint
    SimilarRequests   \* [items, cosines: millionths by pair, threshold]

ASSUME RecallAssumption ==
    /\ Tokens \in [Items -> Nat]
    /\ \A r \in RecallRequests :
          /\ r.items \subseteq Items
          /\ r.budget_tokens \in Nat \ {0} /\ r.k \in Nat \ {0}

VARIABLES
    recall_pc,     \* "idle", "rank", "fill" (the loop over scored), "done"
    recall,        \* the request
    lexical,       \* BM25 ranking
    dense,         \* cosine ranking, or Unranked without vectors
    scores,        \* the rounded score of each item
    ranked, dropped, tokens_used,
    pairs          \* answer of /similar, or Unavailable

recallVars == <<recall_pc, recall, lexical, dense, scores, ranked, dropped, tokens_used, pairs>>

Unranked == <<0>>
Unavailable == {<<0, 0>>}
NoRecall == [items |-> {}, thread |-> {}, role |-> {}, query |-> FALSE,
             budget_tokens |-> 1, k |-> 1]

\* Bonuses, in billionths.
THREAD_BONUS == 20000000
ROLE_BONUS == 10000000
RECENCY_MAX == 5000000

-------------------------------------------------------------------------------
Seqs(items) == {ItemSeq[x] : x \in items}

\* Mutant of Recency: the rank of the seq is taken from the other end.
RecencyOldest(x, items) ==
    IF Cardinality(Seqs(items)) <= 1 THEN 0
    ELSE (RECENCY_MAX * Cardinality({s \in Seqs(items) : s > ItemSeq[x]}))
            \div (Cardinality(Seqs(items)) - 1)

\* The newest seq gets all of it, the oldest nothing, linear by rank.
Recency(x, items) ==
    IF Cardinality(Seqs(items)) <= 1 THEN 0
    ELSE (RECENCY_MAX * Cardinality({s \in Seqs(items) : s < ItemSeq[x]}))
            \div (Cardinality(Seqs(items)) - 1)

\* round(score, SCORE_DECIMALS), in millionths.
Score(x, r, lex, den) ==
    (ShareOf(x, lex) + ShareOf(x, den)
       + (IF x \in r.thread THEN THREAD_BONUS ELSE 0)
       + (IF x \in r.role THEN ROLE_BONUS ELSE 0)
       + Recency(x, r.items) + 500) \div 1000

\* scored.sort: falling score, then newer, then id.
Better(x, y) ==
    \/ scores[x] > scores[y]
    \/ scores[x] = scores[y] /\ ItemSeq[x] > ItemSeq[y]
    \/ scores[x] = scores[y] /\ ItemSeq[x] = ItemSeq[y] /\ x < y

\* Rankings of the request's items.
RankingsOf(items) == {s \in Rankings : RangeOf(s) \subseteq items}

-------------------------------------------------------------------------------
AcceptRecall(r) ==
    /\ recall_pc = "idle"
    /\ recall_pc' = "rank"
    /\ recall' = r
    /\ UNCHANGED <<lexical, dense, scores, ranked, dropped, tokens_used, pairs>>

\* Without query words nothing is ranked by text; without a client or when it
\* fails the dense ranking is left out and the answer says so.
RankItems ==
    /\ recall_pc = "rank"
    /\ lexical' \in IF recall.query THEN RankingsOf(recall.items) ELSE {<<>>}
    /\ dense' \in {Unranked} \cup
                    IF recall.query THEN RankingsOf(recall.items) ELSE {<<>>}
    /\ scores' = [x \in recall.items |->
                    Score(x, recall, lexical', IF dense' = Unranked THEN <<>> ELSE dense')]
    /\ recall_pc' = "fill"
    /\ UNCHANGED <<recall, ranked, dropped, tokens_used, pairs>>

Pending == recall.items \ (RangeOf(ranked) \cup RangeOf(dropped))

\* Mutant of Fits: the item at hand is not counted.
FitsBefore(x) == Len(ranked) < recall.k /\ tokens_used <= recall.budget_tokens

Fits(x) ==
    /\ Len(ranked) < recall.k
    /\ tokens_used + Tokens[x] <= recall.budget_tokens

\* Mutant of ConsiderItem: what does not fit is looked at again.
ConsiderItemAgain ==
    /\ recall_pc = "fill"
    /\ \E x \in Pending :
          /\ \A y \in Pending \ {x} : Better(x, y)
          /\ \/ /\ Fits(x)
                /\ ranked' = Append(ranked, x)
                /\ tokens_used' = tokens_used + Tokens[x]
             \/ /\ ~Fits(x)
                /\ UNCHANGED <<ranked, tokens_used>>
    /\ UNCHANGED <<recall_pc, recall, lexical, dense, scores, dropped, pairs>>

\* One turn of the loop: what does not fit is dropped and the loop goes on.
ConsiderItem ==
    /\ recall_pc = "fill"
    /\ \E x \in Pending :
          /\ \A y \in Pending \ {x} : Better(x, y)
          /\ \/ /\ Fits(x)
                /\ ranked' = Append(ranked, x)
                /\ tokens_used' = tokens_used + Tokens[x]
                /\ UNCHANGED dropped
             \/ /\ ~Fits(x)
                /\ dropped' = Append(dropped, x)
                /\ UNCHANGED <<ranked, tokens_used>>
    /\ UNCHANGED <<recall_pc, recall, lexical, dense, scores, pairs>>

AnswerRecall ==
    /\ recall_pc = "fill"
    /\ Pending = {}
    /\ recall_pc' = "done"
    /\ UNCHANGED <<recall, lexical, dense, scores, ranked, dropped, tokens_used, pairs>>

\* similar: every pair once, its smaller id first, when its rounded cosine
\* reaches the threshold; without vectors the route says so.
AnswerSimilar(r, embedded) ==
    /\ recall_pc = "idle"
    /\ recall_pc' = "done"
    /\ pairs' = IF embedded
                  THEN {p \in r.items \X r.items :
                          p[1] < p[2] /\ r.cosines[p] >= r.threshold}
                  ELSE Unavailable
    /\ UNCHANGED <<recall, lexical, dense, scores, ranked, dropped, tokens_used>>

\* Nothing is kept between requests.
ForgetRecall ==
    /\ recall_pc = "done"
    /\ recall_pc' = "idle" /\ recall' = NoRecall
    /\ lexical' = <<>> /\ dense' = <<>> /\ scores' = <<>>
    /\ ranked' = <<>> /\ dropped' = <<>> /\ tokens_used' = 0
    /\ pairs' = {}

RecallInit ==
    /\ recall_pc = "idle" /\ recall = NoRecall
    /\ lexical = <<>> /\ dense = <<>> /\ scores = <<>>
    /\ ranked = <<>> /\ dropped = <<>> /\ tokens_used = 0
    /\ pairs = {}

RecallNext ==
    \/ \E r \in RecallRequests : AcceptRecall(r)
    \/ RankItems
    \/ ConsiderItem
    \/ AnswerRecall
    \/ \E r \in SimilarRequests, e \in BOOLEAN : AnswerSimilar(r, e)
    \/ ForgetRecall

RecallSpec == RecallInit /\ [][RecallNext]_recallVars

-------------------------------------------------------------------------------
\* Whatever signal one looks at, x has at least as much of it as y.
RankedNoLater(x, y, ranking) ==
    y \in RangeOf(ranking) =>
        x \in RangeOf(ranking) /\ RankOf(x, ranking) < RankOf(y, ranking)

Dominates(x, y) ==
    /\ RankedNoLater(x, y, lexical) /\ RankedNoLater(x, y, dense)
    /\ y \in recall.thread => x \in recall.thread
    /\ y \in recall.role => x \in recall.role
    /\ ItemSeq[x] > ItemSeq[y]

AccountedWithinBudget ==
    /\ tokens_used <= recall.budget_tokens
    /\ Len(ranked) <= recall.k
    /\ RangeOf(ranked) \cap RangeOf(dropped) = {}
    /\ recall_pc = "done" => RangeOf(ranked) \cup RangeOf(dropped) = recall.items

LeftOutForSizeOnly ==
    \A x \in RangeOf(dropped), y \in RangeOf(ranked) :
        Dominates(x, y) => Tokens[x] > Tokens[y]

\* The answer accounts for every item once and keeps within the budget it was
\* given, and within k; an item is left out for an item that is worse by every
\* signal only because it is larger: neither the fusion, nor the bonuses, nor
\* the loop's skipping may trade it for less (Recaller.recall).
RecallSound == AccountedWithinBudget /\ LeftOutForSizeOnly
===============================================================================
