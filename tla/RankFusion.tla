------------------------------ MODULE RankFusion ------------------------------
(***************************************************************************)
(* Reciprocal rank fusion as the stateless routes use it: a list of         *)
(* rankings, best first, becomes one.  /recall (recall.py) adds hints and   *)
(* recency to the fused score, /audit (audit.py) fuses twice.               *)
(*                                                                         *)
(* An item is a number; the order of numbers is the order of the ids.       *)
(* Scores are whole billionths, cut off: fine enough to tell apart all sums *)
(* that differ.                                                             *)
(***************************************************************************)
EXTENDS Lists

CONSTANTS
    Items,      \* ids of the messages a host can send
    ItemSeq,    \* the seq of each
    Rankings    \* what BM25 or the cosines make of one query: ids, best first

\* Sequences of distinct elements of S.
Arrangements(S) ==
    UNION {{s \in [1..n -> S] : \A i, j \in 1..n : s[i] = s[j] => i = j} :
              n \in 0..Cardinality(S)}

ASSUME RankFusionAssumption ==
    /\ IsFiniteSet(Items) /\ Items \subseteq Nat \ {0}
    /\ ItemSeq \in [Items -> Nat]
    /\ Rankings \subseteq Arrangements(Items)

RRF_K == 60
Billion == 1000000000

RangeOf(s) == {s[i] : i \in DOMAIN s}
RankOf(x, ranking) == CHOOSE i \in DOMAIN ranking : ranking[i] = x

\* Mutant of Reciprocal: the rank is not inverted.
ReciprocalRank(rank) == RRF_K + rank

\* 1 / (RRF_K + rank)
Reciprocal(rank) == Billion \div (RRF_K + rank)

\* What a ranking adds to the score of x: nothing when x is not in it.
ShareOf(x, ranking) ==
    IF x \in RangeOf(ranking) THEN Reciprocal(RankOf(x, ranking)) ELSE 0

Shares(x, rankings) == [i \in DOMAIN rankings |-> ShareOf(x, rankings[i])]

ShareSum(x, rankings) == Total(Shares(x, rankings), Len(rankings))

\* Sums of floats that are equal on paper differ in their last bit when three
\* or more addends come in another order; a tie of such sums goes either way.
MayPrecede(x, y, rankings) ==
    LET addends == {i \in DOMAIN rankings : ShareOf(x, rankings[i]) > 0}
    IN  \/ ShareSum(x, rankings) > ShareSum(y, rankings)
        \/ /\ ShareSum(x, rankings) = ShareSum(y, rankings)
           /\ \/ x < y
              \/ Cardinality(addends) > 2 /\ Shares(x, rankings) # Shares(y, rankings)

\* rrf: the ranked ids sorted by falling score, ties by id.
FusedOrders(rankings) ==
    LET ranked == UNION {RangeOf(rankings[i]) : i \in DOMAIN rankings}
    IN  {s \in Arrangements(ranked) :
            /\ Len(s) = Cardinality(ranked)
            /\ \A i, j \in DOMAIN s : i < j => MayPrecede(s[i], s[j], rankings)}

\* x is in every list that has y, and ahead of it there.
AheadInAll(x, y, rankings) ==
    /\ \E i \in DOMAIN rankings : y \in RangeOf(rankings[i])
    /\ \A i \in DOMAIN rankings : y \in RangeOf(rankings[i]) =>
          /\ x \in RangeOf(rankings[i])
          /\ RankOf(x, rankings[i]) < RankOf(y, rankings[i])
===============================================================================
