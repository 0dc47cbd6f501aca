----------------------------- MODULE EpisodeSearch -----------------------------
(***************************************************************************)
(* Recall over the messages of one session (RecallMemorySearcher,           *)
(* episode_searcher.py): the direct hits of the lexical and semantic lists, *)
(* among them an early message of a benchmark session, and around each hit  *)
(* its neighbours in the conversation.                                      *)
(*                                                                         *)
(* A message is its position in the session.  What the two lists, the       *)
(* boosts and the query make of a message is one score, 0 for a message     *)
(* that no list has; a score of 20 stands for 1.                            *)
(***************************************************************************)
EXTENDS Integers, Sequences, FiniteSets

CONSTANTS
    RecallSearches,     \* [bench: position -> benchmark session or NoSession,
                        \*  score: position -> score]
    NoSession,
    RECALL_TOP_K, NEIGHBORS_BEFORE, NEIGHBORS_AFTER

ASSUME EpisodeSearchAssumption ==
    /\ \A s \in RecallSearches :
          /\ DOMAIN s.bench \subseteq Nat \ {0} /\ IsFiniteSet(DOMAIN s.bench)
          /\ s.score \in [DOMAIN s.bench -> Nat]
    /\ RECALL_TOP_K \in Nat \ {0}
    /\ NEIGHBORS_BEFORE \in Nat /\ NEIGHBORS_AFTER \in Nat

VARIABLES
    recall_step,    \* "idle", "expand" (the loop over direct_selected), "found"
    search,         \* the search being run
    direct,         \* direct_selected: positions, best first
    selected,       \* the answer so far: positions
    turn            \* next hit of direct whose neighbours are added

episodeVars == <<recall_step, search, direct, selected, turn>>

NoSearch == [bench |-> <<>>, score |-> <<>>]
InSeq(s) == {s[i] : i \in DOMAIN s}
FirstOf(s, n) == SubSeq(s, 1, IF n < Len(s) THEN n ELSE Len(s))

-------------------------------------------------------------------------------
Hits(s) == {p \in DOMAIN s.bench : s.score[p] > 0}
BenchmarkHits(s) == {p \in Hits(s) : s.bench[p] # NoSession}

\* direct_hits.sort: falling score, the earlier message first among equals.
Before(s, p, q) == s.score[p] > s.score[q] \/ (s.score[p] = s.score[q] /\ p < q)
Ahead(s, P, p) == Cardinality({q \in P : Before(s, q, p)})
Ranked(s, P) == [i \in 1..Cardinality(P) |-> CHOOSE p \in P : Ahead(s, P, p) = i - 1]
Best(s) == {p \in Hits(s) : Ahead(s, Hits(s), p) < RECALL_TOP_K}

\* _can_replace_with_session_anchor: at 0.65 of the weakest score at least.
CanReplace(s, anchor, weakest) == 100 * s.score[anchor] >= 65 * s.score[weakest]

\* preserve_neighbors: some message of the session is of a benchmark session.
Preserve(s) == \E p \in DOMAIN s.bench : s.bench[p] # NoSession

\* Mutant of Diversified: the early message comes in addition.
DiversifiedMore(s) ==
    IF BenchmarkHits(s) = {} THEN Best(s)
    ELSE Best(s) \cup {CHOOSE p \in BenchmarkHits(s) : \A q \in BenchmarkHits(s) : p <= q}

\* _select_direct_hits: the earliest message of a benchmark session takes the
\* place of the weakest of the best hits, unless it is much weaker itself.
Diversified(s) ==
    IF BenchmarkHits(s) = {} THEN Best(s)
    ELSE LET anchor == CHOOSE p \in BenchmarkHits(s) :
                          \A q \in BenchmarkHits(s) : p <= q
             weakest == CHOOSE p \in Best(s) :
                          \A q \in Best(s) \ {p} : Before(s, q, p)
         IN  IF anchor \in Best(s) \/ ~CanReplace(s, anchor, weakest)
               THEN Best(s)
               ELSE (Best(s) \ {weakest}) \cup {anchor}

\* Only hits of benchmark sessions have a packet, and only they are expanded
\* when neighbours are preserved.
Expandable(s, hit) == Preserve(s) => s.bench[hit] # NoSession

NeighborLimit(s) ==
    IF Preserve(s) THEN RECALL_TOP_K * (1 + NEIGHBORS_BEFORE + NEIGHBORS_AFTER)
    ELSE RECALL_TOP_K

SameSession(s, p, q) ==
    s.bench[p] = NoSession \/ s.bench[q] = NoSession \/ s.bench[p] = s.bench[q]

Around(hit) == ((hit - NEIGHBORS_BEFORE)..(hit + NEIGHBORS_AFTER)) \ {hit}

\* The order they are looked at: nearest first, and the one before ahead of the
\* one after.
Distance(p, q) == IF p < q THEN q - p ELSE p - q
Nearer(hit, p, q) ==
    \/ Distance(hit, p) < Distance(hit, q)
    \/ Distance(hit, p) = Distance(hit, q) /\ p < q
Outward(hit, P) ==
    [i \in 1..Cardinality(P) |->
        CHOOSE p \in P : Cardinality({q \in P : Nearer(hit, q, p)}) = i - 1]

Beside(s, hit) == {p \in Around(hit) \cap DOMAIN s.bench : SameSession(s, hit, p)}

\* Mutant of Neighbors: what is selected already is added again.
NeighborsAgain(s, hit, seen) == Outward(hit, Beside(s, hit))

Neighbors(s, hit, seen) == Outward(hit, Beside(s, hit) \ seen)

-------------------------------------------------------------------------------
\* search, up to direct_selected.  A query without content words has no hits.
SearchEpisodes(s) ==
    /\ recall_step = "idle"
    /\ recall_step' = "expand"
    /\ search' = s
    /\ direct' = IF Preserve(s) THEN Ranked(s, Diversified(s)) ELSE Ranked(s, Best(s))
    /\ selected' = direct'
    /\ turn' = 1

\* One turn of the loop over direct_selected, with _add_neighbors.
ExpandHit ==
    /\ recall_step = "expand"
    /\ turn <= Len(direct) /\ Len(selected) < NeighborLimit(search)
    /\ turn' = turn + 1
    /\ selected' =
          IF Expandable(search, direct[turn])
            THEN FirstOf(selected \o Neighbors(search, direct[turn], InSeq(selected)),
                         NeighborLimit(search))
            ELSE selected
    /\ UNCHANGED <<recall_step, search, direct>>

ReturnHits ==
    /\ recall_step = "expand"
    /\ turn > Len(direct) \/ Len(selected) >= NeighborLimit(search)
    /\ recall_step' = "found"
    /\ UNCHANGED <<search, direct, selected, turn>>

EpisodeStep == ExpandHit \/ ReturnHits

\* Nothing is kept between searches.
ForgetSearch ==
    /\ recall_step' = "idle" /\ search' = NoSearch
    /\ direct' = <<>> /\ selected' = <<>> /\ turn' = 1

EpisodeInit ==
    /\ recall_step = "idle" /\ search = NoSearch
    /\ direct = <<>> /\ selected = <<>> /\ turn = 1

EpisodeNext == (\E s \in RecallSearches : SearchEpisodes(s)) \/ EpisodeStep \/ ForgetSearch

EpisodeSpec == EpisodeInit /\ [][EpisodeNext]_episodeVars

-------------------------------------------------------------------------------
\* p stands in the window of a direct hit of its own benchmark session.
InWindow(p) ==
    \E hit \in InSeq(direct) :
        /\ hit - NEIGHBORS_BEFORE <= p /\ p <= hit + NEIGHBORS_AFTER
        /\ SameSession(search, hit, p)

\* A recall answers with each message once, within its limit, and with no
\* message that neither matches nor stands next to a match of its own benchmark
\* session.  A match gives way to a weaker one only when that is the earliest
\* of the benchmark sessions, at 0.65 of the weaker ones' score at least, and
\* with room left the neighbours of every expanded hit are there
\* (RecallMemorySearcher.search).
RecallHitsSound ==
    recall_step = "found" =>
        /\ Cardinality(InSeq(selected)) = Len(selected)
        /\ Len(direct) <= RECALL_TOP_K /\ Len(selected) <= NeighborLimit(search)
        /\ \A p \in InSeq(selected) : p \in Hits(search) \/ InWindow(p)
        /\ \A p \in Hits(search) \ InSeq(direct), q \in InSeq(direct) :
              Before(search, p, q) =>
                  /\ search.bench[q] # NoSession
                  /\ \A r \in BenchmarkHits(search) : q <= r
                  /\ CanReplace(search, q, p)
        /\ Len(selected) < NeighborLimit(search) =>
              \A hit \in InSeq(direct) : Expandable(search, hit) =>
                  Beside(search, hit) \subseteq InSeq(selected)
===============================================================================
