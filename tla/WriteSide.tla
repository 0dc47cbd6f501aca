------------------------------- MODULE WriteSide -------------------------------
(***************************************************************************)
(* How RoomMem and ModuleMem score curated memories against the gold ones   *)
(* (roommem.py): a one-to-one matching, greedy over the pairs that share a  *)
(* source message, and the counts made on it.                               *)
(*                                                                          *)
(* A memory is [id, kind, topic, statement, sources, status], a gold memory *)
(* [id, kind, topic, statement, sources, superseded_by]; ids are numbers in *)
(* the order of the ids, 0 is None.                                         *)
(***************************************************************************)
EXTENDS Lists, FiniteSetsExt

CONSTANT WordsOf    \* statement -> its words, normalized

ASSUME WordsAssumption == \A s \in DOMAIN WordsOf : IsFiniteSet(WordsOf[s])

Overlap(pair) == Cardinality(pair[1].sources \cap pair[2].sources)
StatementOverlap(pair) ==
    Cardinality(WordsOf[pair[1].statement] \cap WordsOf[pair[2].statement])

\* curated_candidate_pairs
Candidates(memories, golds) == {pair \in memories \X golds : Overlap(pair) > 0}

\* The sort key of match_curated_to_gold.
Precedes(p, q) ==
    \/ Overlap(p) > Overlap(q)
    \/ /\ Overlap(p) = Overlap(q)
       /\ \/ StatementOverlap(p) > StatementOverlap(q)
          \/ /\ StatementOverlap(p) = StatementOverlap(q)
             /\ p[1].id < q[1].id \/ (p[1].id = q[1].id /\ p[2].id < q[2].id)

\* Mutant of StillFree: the gold memory of a match may be taken again.
StillFreeOneEnd(pairs, best) == {q \in pairs : q[1] # best[1]}

StillFree(pairs, best) == {q \in pairs : q[1] # best[1] /\ q[2] # best[2]}

BestOf(pairs) == CHOOSE p \in pairs : \A q \in pairs \ {p} : Precedes(p, q)

\* match_curated_to_gold: best first, skipping what is used at either end.
Matches(memories, golds) ==
    LET greedy[pairs \in SUBSET Candidates(memories, golds)] ==
            IF pairs = {} THEN {}
            ELSE {BestOf(pairs)} \cup greedy[StillFree(pairs, BestOf(pairs))]
    IN  greedy[Candidates(memories, golds)]

MatchedTo(matches, g) == {p[1] : p \in {q \in matches : q[2] = g}}
GoldIn(matches, v) == {p[2] : p \in {q \in matches : q[1] = v}}

ScopeForKind(kind) ==
    CASE kind = "rule" -> "project" [] kind = "preference" -> "user" [] OTHER -> "room"

Active(memories) == {v \in memories : v.status = "active"}
Superseded(golds) == {g \in golds : g.superseded_by # 0}
SuccessorsOf(golds, g) == {h \in golds : h.id = g.superseded_by}

\* What the two ends of a supersede between gold memories were matched to.
ChainEnds(matches, golds, g) ==
    {<<v, w>> : v \in MatchedTo(matches, g),
                w \in UNION {MatchedTo(matches, h) : h \in SuccessorsOf(golds, g)}}

ChainPairs(matches, golds) == UNION {ChainEnds(matches, golds, g) : g \in Superseded(golds)}

\* The superseded gold memories found in a memory of a status.
FoundAs(matches, golds, status) ==
    {g \in Superseded(golds) : \E v \in MatchedTo(matches, g) : v.status = status}

Unmatched(memories, matches) == {v \in memories : GoldIn(matches, v) = {}}

\* The memories that share a source with a gold memory.
Wanting(memories, golds, g) == {p[1] : p \in {q \in Candidates(memories, golds) : q[2] = g}}
Wanted(memories, golds) == {g \in golds : Wanting(memories, golds, g) # {}}

\* The first memory that cites a message, in the order they are listed.
FirstCiting(memories, m) ==
    {v \in memories : m \in v.sources /\ \A w \in memories : m \in w.sources => v.id <= w.id}

\* score_write_side; "noise" holds the noise messages, "judged" the memories
\* the judge calls noise among those without a match.
ScoreWriteSide(memories, golds, noise, judged) ==
    LET matches   == Matches(memories, golds)
        unmatched == Unmatched(memories, matches)
        chain     == ChainPairs(matches, golds)
        cited     == {m \in noise : FirstCiting(memories, m) # {}}
    IN  [memories |-> Cardinality(memories), gold |-> Cardinality(golds),
         matched |-> Cardinality(matches), unmatched |-> Cardinality(unmatched),
         judged_noise |-> Cardinality(unmatched \cap judged),
         noise_messages |-> Cardinality(noise), noise_cited |-> Cardinality(cited),
         noise_in_unmatched |->
             Cardinality({m \in cited : FirstCiting(memories, m) \subseteq unmatched}),
         kind_matches |-> Cardinality({p \in matches : p[1].kind = p[2].kind}),
         scope_matches |->
             Cardinality({p \in matches : ScopeForKind(p[1].kind) = ScopeForKind(p[2].kind)}),
         superseded_gold |-> Cardinality(Superseded(golds)),
         supersede_correct |-> Cardinality(FoundAs(matches, golds, "superseded")),
         stale_active |-> Cardinality(FoundAs(matches, golds, "active")),
         golds_with_matches |-> Cardinality(Wanted(memories, golds)),
         duplicate_golds |->
             Cardinality({g \in Wanted(memories, golds) :
                             Cardinality(Active(Wanting(memories, golds, g))) > 1}),
         chain_pairs |-> Cardinality(chain),
         chain_key_consistent |-> Cardinality({c \in chain : c[1].topic = c[2].topic})]

\* conflict_flag_stats: pairs of active memories under different keys whose
\* gold memories nevertheless share theirs.
MissedConflicts(memories, golds) ==
    LET matches == Matches(memories, golds)
    IN  {pair \in SUBSET Active(memories) :
            \E u, v \in pair : /\ pair = {u, v} /\ u.topic # v.topic
                               /\ \E g \in GoldIn(matches, u), h \in GoldIn(matches, v) :
                                     g.topic = h.topic}

\* pool_write_side: the sums over the rooms.
Pool(payloads) ==
    [key \in UNION {DOMAIN payloads[i] : i \in DOMAIN payloads} |->
        Total([i \in DOMAIN payloads |-> payloads[i][key]], Len(payloads))]

-------------------------------------------------------------------------------
\* A matching uses no end twice, and a pair it leaves out has an end in a pair
\* that comes first: no memory and gold memory would both rather have each other.
StableMatching(memories, golds, matches) ==
    /\ \A p, q \in matches : p # q => p[1] # q[1] /\ p[2] # q[2]
    /\ \A p \in Candidates(memories, golds) \ matches :
          \E q \in matches : (q[1] = p[1] \/ q[2] = p[2]) /\ Precedes(q, p)

OneCurrentPerTopic(golds) ==
    \A g, h \in golds \ Superseded(golds) : g.topic = h.topic => g = h

\* How the counts of a room bound each other.
CountsAgree(s) ==
    /\ s.matched + s.unmatched = s.memories
    /\ s.matched <= s.golds_with_matches /\ s.golds_with_matches <= s.gold
    /\ s.duplicate_golds <= s.golds_with_matches
    /\ s.supersede_correct + s.stale_active <= s.superseded_gold
    /\ s.chain_key_consistent <= s.chain_pairs
    /\ s.chain_pairs <= s.supersede_correct + s.stale_active
    /\ s.judged_noise <= s.unmatched
    /\ s.noise_in_unmatched <= s.noise_cited /\ s.noise_cited <= s.noise_messages
    /\ s.kind_matches <= s.scope_matches /\ s.scope_matches <= s.matched
===============================================================================
