----------------------------- MODULE ArchivalSearch -----------------------------
(***************************************************************************)
(* Search over the archival passages a scope allows                         *)
(* (ArchivalPassageSearcher, archival_searcher.py) and the vectors it keeps *)
(* between searches (LocalArchivalVectorStore, archival_vector.py).  Every  *)
(* search indexes all its candidates one by one before it queries; the      *)
(* store forgets the vector used longest ago when it is full.               *)
(*                                                                         *)
(* Passages are numbers in the order of their ids.  The archive is never    *)
(* rewritten while a process searches it, except that a harness resets it   *)
(* and fills it anew: then a passage id may come back with another text.    *)
(***************************************************************************)
EXTENDS Lists

CONSTANTS
    Passages,           \* ids
    ArchivalSearches,   \* [candidates: ids in the order of the listing,
                        \*  text: the candidates' texts, mode: "text" or "hybrid"]
    LexicalRankings,    \* what BM25 can make of a query: ids, best first
    MaxVectors,         \* max_vectors
    ARCHIVAL_TOP_K,     \* top_k
    Wider               \* max(top_k * 2, 10)

ASSUME ArchivalSearchAssumption ==
    /\ Passages \subseteq Nat
    /\ \A s \in ArchivalSearches :
          /\ s.candidates \in Seq(Passages)
          /\ \A i, j \in DOMAIN s.candidates :
                s.candidates[i] = s.candidates[j] => i = j
    /\ \A r \in LexicalRankings :
          /\ r \in Seq(Passages)
          /\ \A i, j \in DOMAIN r : r[i] = r[j] => i = j
    /\ MaxVectors \in Nat \ {0} /\ ARCHIVAL_TOP_K \in Nat \ {0}
    /\ Wider \in Nat /\ Wider >= 2 * ARCHIVAL_TOP_K

VARIABLES
    archival_step,  \* "idle", "index", "query", "found"
    asking,          \* the search being run
    unindexed,      \* its candidates whose turn to be indexed is still to come
    unembedded,     \* its candidates whose embedding came back empty
    vectors,        \* the store: [id, text, zero], least recently used first
    hits            \* the answer

archivalVars == <<archival_step, asking, unindexed, unembedded, vectors, hits>>

NothingAsked == [candidates |-> <<>>, text |-> <<>>, mode |-> "text"]
Ids(s) == {s[i] : i \in DOMAIN s}
Cut(s, n) == SubSeq(s, 1, IF n < Len(s) THEN n ELSE Len(s))

-------------------------------------------------------------------------------
\* 1 / (rrf_k + rank), in billionths; nothing for a passage not in the list.
Contribution(p, ranking) ==
    IF p \in Ids(ranking)
      THEN 1000000000 \div (60 + CHOOSE i \in DOMAIN ranking : ranking[i] = p)
      ELSE 0

\* _rrf_fuse: falling sum, then what is in the embedding list, then the better
\* rank there (a passage not in it has no share of it), then the id.
FusedBefore(p, q, embedding, lexical) ==
    LET sum(r) == Contribution(r, embedding) + Contribution(r, lexical)
    IN  \/ sum(p) > sum(q)
        \/ /\ sum(p) = sum(q)
           /\ \/ Contribution(p, embedding) > Contribution(q, embedding)
              \/ Contribution(p, embedding) = Contribution(q, embedding) /\ p < q

InEither(embedding, lexical) == Ids(embedding) \cup Ids(lexical)

PlacesAhead(p, embedding, lexical) ==
    Cardinality({q \in InEither(embedding, lexical) : FusedBefore(q, p, embedding, lexical)})

Fused(embedding, lexical) ==
    [i \in 1..Cardinality(InEither(embedding, lexical)) |->
        CHOOSE p \in InEither(embedding, lexical) : PlacesAhead(p, embedding, lexical) = i - 1]

\* _lexical_fallback: the lexical hits, or the first candidates with no score.
Fallback(lexical) == IF lexical # <<>> THEN lexical ELSE asking.candidates

\* The rankings cosine similarity can give: every stored candidate whose vector
\* is not zero, and nothing for a zero query vector.
CosineRankings ==
    LET stored == {v.id : v \in {w \in Ids(vectors) :
                                    w.id \in Ids(asking.candidates) /\ ~w.zero}}
    IN  {r \in [1..Cardinality(stored) -> stored] : Ids(r) = stored} \cup {<<>>}

StoredText(p) == {v.text : v \in {w \in Ids(vectors) : w.id = p}}
WithoutVector(p) == Kept(vectors, {i \in DOMAIN vectors : vectors[i].id # p})

-------------------------------------------------------------------------------
\* Text mode is answered from BM25 alone; the hybrid mode indexes first.
SearchPassages(s, lexical) ==
    /\ archival_step = "idle"
    /\ asking' = s
    /\ IF s.mode = "text" \/ s.candidates = <<>>
         THEN /\ archival_step' = "found"
              /\ hits' = Cut(lexical, ARCHIVAL_TOP_K)
              /\ unindexed' = <<>>
         ELSE /\ archival_step' = "index"
              /\ hits' = <<>>
              /\ unindexed' = s.candidates
    /\ unembedded' = {}
    /\ UNCHANGED vectors

\* Mutant of Touch: a vector found in the store keeps its place there.
TouchNot(p) == vectors

\* needs_index says no: the vector was just used.
Touch(p) ==
    WithoutVector(p) \o Kept(vectors, {i \in DOMAIN vectors : vectors[i].id = p})

\* upsert_passage: to the end, and the oldest go while there are too many.
Upserted(v) ==
    LET grown == Append(WithoutVector(v.id), v)
    IN  SubSeq(grown, 1 + (IF Len(grown) > MaxVectors THEN Len(grown) - MaxVectors ELSE 0),
               Len(grown))

\* One turn of the loop of index_passages: the vector is there and is of this
\* text, or the provider is asked for it and may answer with nothing.
IndexPassage ==
    /\ archival_step = "index" /\ unindexed # <<>>
    /\ unindexed' = Tail(unindexed)
    /\ LET p == Head(unindexed)
       IN  IF asking.text[p] \in StoredText(p)
             THEN vectors' = Touch(p) /\ UNCHANGED unembedded
             ELSE \/ \E zero \in BOOLEAN :
                        vectors' = Upserted([id |-> p, text |-> asking.text[p], zero |-> zero])
                     /\ UNCHANGED unembedded
                  \/ unembedded' = unembedded \cup {p} /\ UNCHANGED vectors
    /\ UNCHANGED <<archival_step, asking, hits>>

Indexed ==
    /\ archival_step = "index" /\ unindexed = <<>>
    /\ archival_step' = "query"
    /\ UNCHANGED <<asking, unindexed, unembedded, vectors, hits>>

\* The provider fails, while indexing or for the query itself, or its vector
\* has another size: no vector hits, and the answer is the lexical one.
\* Without a vector index it is so from the start.
VectorsUnavailable(lexical) ==
    /\ archival_step \in {"index", "query"}
    /\ archival_step' = "found"
    /\ unindexed' = <<>>
    /\ hits' = Cut(Fallback(lexical), ARCHIVAL_TOP_K)
    /\ UNCHANGED <<asking, unembedded, vectors>>

\* query, and _rrf_fuse with the lexical list.
QueryVectors(cosine, lexical) ==
    /\ archival_step = "query"
    /\ archival_step' = "found"
    /\ hits' = Cut(IF cosine = <<>> THEN Fallback(lexical)
                   ELSE Fused(Cut(cosine, Wider), Cut(lexical, Wider)),
                   ARCHIVAL_TOP_K)
    /\ UNCHANGED <<asking, unindexed, unembedded, vectors>>

\* BM25 ranks candidates only.
LexicalOf(s) == {r \in LexicalRankings : Ids(r) \subseteq Ids(s.candidates)}

ArchivalStep ==
    \/ IndexPassage
    \/ Indexed
    \/ \E lexical \in LexicalOf(asking) :
          \/ VectorsUnavailable(lexical)
          \/ \E cosine \in CosineRankings : QueryVectors(cosine, lexical)

\* Only the store outlives a search.
ForgetArchival ==
    /\ archival_step' = "idle" /\ asking' = NothingAsked
    /\ unindexed' = <<>> /\ unembedded' = {} /\ hits' = <<>>
    /\ UNCHANGED vectors

ArchivalInit ==
    /\ archival_step = "idle" /\ asking = NothingAsked
    /\ unindexed = <<>> /\ unembedded = {} /\ hits = <<>>
    /\ vectors = <<>>

ArchivalNext ==
    \/ \E s \in ArchivalSearches : \E lexical \in LexicalOf(s) : SearchPassages(s, lexical)
    \/ ArchivalStep \/ ForgetArchival

ArchivalSpec == ArchivalInit /\ [][ArchivalNext]_archivalVars

-------------------------------------------------------------------------------
\* A search answers with passages of its scope, each once, at most top_k, and
\* in hybrid mode with something whenever there is something to answer with,
\* whatever the provider does.  The store keeps one vector per passage and no
\* more than it may, and indexing one candidate never costs another of the same
\* search its vector while all of them fit (ArchivalPassageSearcher.search,
\* LocalArchivalVectorStore).
ArchivalAnswers ==
    /\ Cardinality({v.id : v \in Ids(vectors)}) = Len(vectors)
    /\ Len(vectors) <= MaxVectors
    /\ archival_step = "query" /\ Len(asking.candidates) <= MaxVectors =>
          \A p \in Ids(asking.candidates) \ unembedded : StoredText(p) = {asking.text[p]}
    /\ archival_step = "found" =>
          /\ Cardinality(Ids(hits)) = Len(hits)
          /\ Ids(hits) \subseteq Ids(asking.candidates)
          /\ Len(hits) <= ARCHIVAL_TOP_K
          /\ asking.mode = "hybrid" /\ asking.candidates # <<>> => hits # <<>>
===============================================================================
