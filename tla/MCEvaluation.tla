------------------------------ MODULE MCEvaluation ------------------------------
(***************************************************************************)
(* Instances of Evaluation for TLC: four messages, three passages (ids from *)
(* 11), two questions and one rewrite; two cases of the public benchmark    *)
(* and all baselines; three LLM calls, two of them repeats of one prompt;   *)
(* three rooms of two projects; a module of six activities.                 *)
(***************************************************************************)
EXTENDS Evaluation

CONSTANT None

-------------------------------------------------------------------------------
\* Recall.
FourMessages == 1..4

\* No benchmark session, one, two, and one that begins late.
Sessions ==
    {[p \in FourMessages |-> None],
     [p \in FourMessages |-> "d1"],
     [p \in FourMessages |-> IF p <= 2 THEN "d1" ELSE "d2"],
     [p \in FourMessages |-> IF p = 1 THEN None ELSE IF p = 2 THEN "d1" ELSE "d2"]}

SomeSearches ==
    [bench: Sessions, score: {f \in [FourMessages -> {0, 7, 10, 12}] : f[4] \in {0, 10}}]

\* The question matches the first message, the rewrite the last.
SearchOf ==
    [q \in Queries |->
        [bench |-> [p \in FourMessages |-> None],
         score |-> [p \in FourMessages |->
                       IF p = (IF q = "rewrite" THEN 4 ELSE 1) THEN 10 ELSE 0]]]

-------------------------------------------------------------------------------
\* Archival search: the question finds two passages, the rewrite one, and the
\* archive has been filled anew in between.
TextOf(t) == [p \in Passages |-> IF p = 11 THEN t ELSE "text"]

ScopedSearch ==
    [q \in Queries |->
        CASE q = "question" ->
                [candidates |-> <<12, 11>>, text |-> TextOf("old"), mode |-> "hybrid"]
          [] q = "rewrite" ->
                [candidates |-> <<11, 13>>, text |-> TextOf("new"), mode |-> "hybrid"]
          [] q = "listing" ->
                [candidates |-> <<11, 12, 13>>, text |-> TextOf("new"), mode |-> "text"]]

SomeArchivalSearches == {ScopedSearch[q] : q \in Queries}
SomeLexicalRankings == {<<>>, <<11>>}

-------------------------------------------------------------------------------
\* Contexts, built for themselves.
It(i, t) == [id |-> i, tokens |-> t]

SomeContexts ==
    [task: {1, 3}, asked: {0, 2, 5, 9, Dynamic},
     found: {<<>>, <<It(1, 2), It(2, 1)>>, <<It(2, 1), It(1, 2), It(3, 3)>>},
     passages: {<<>>, <<It(12, 2)>>, <<It(13, 4), It(11, 1)>>},
     messages: {<<>>, <<It(1, 2), It(2, 1), It(3, 3)>>}]

-------------------------------------------------------------------------------
\* Envelopes of contexts with messages, passages and an item that cannot be
\* proved, within bounds that bite one by one.
OfLayer(l, i, t) == [layer |-> l, id |-> i, tokens |-> t]

Recalled == {<<>>, <<OfLayer("recall", 1, 2)>>,
             <<OfLayer("recall", 2, 1), OfLayer("recall", 1, 2), OfLayer("recall", 3, 1)>>}
Archived == {<<>>, <<OfLayer("archival", 11, 1)>>,
             <<OfLayer("archival", 12, 1), OfLayer("archival", 11, 2), OfLayer("archival", 13, 1)>>}

SomeEnvelopes ==
    {[limits |-> [schema |-> schema, max_items |-> n, max_tokens |-> t, max_bytes |-> b,
                  superseded |-> old],
      items |-> <<OfLayer("task", 0, 1)>> \o r \o a \o <<OfLayer("recent", 3, 1)>>] :
        schema \in {"v1", "v2"}, n \in {1, 3}, t \in {2, 9}, b \in {1, 7, 50},
        old \in {{}, {2}, {1, 11}}, r \in Recalled, a \in Archived}

BytesOf == [i \in FourMessages \cup Passages |-> IF i \in {1, 12} THEN 3 ELSE 1]

-------------------------------------------------------------------------------
\* Probes: a room with a superseded value, with and without a rewriter.
TokensById == [i \in FourMessages \cup Passages |-> IF i \in {1, 12} THEN 2 ELSE 1]
SessionMessages == <<1, 2, 3, 4>>

QuotesIn == [i \in FourMessages \cup Passages |->
                IF i \in {1, 12} THEN {"old"} ELSE IF i = 11 THEN {"old", "new"} ELSE {}]

\* The old quote grounds a superseded memory only, or an active one as well.
OldIsOutdated == {[status |-> "superseded", topic |-> "t", quote |-> "old"],
                  [status |-> "active", topic |-> "t", quote |-> "new"]}
OldIsShared == {[status |-> "superseded", topic |-> "t", quote |-> "old"],
                [status |-> "active", topic |-> "t", quote |-> "old"]}

AskOf(question, b, llm, old) ==
    [question |-> question, task |-> 1, budget |-> b, max_rounds |-> 1, llm |-> llm,
     rows |-> old]

SomeProbes == {AskOf("question", 4, TRUE, OldIsOutdated),
               AskOf("question", 9, TRUE, OldIsOutdated),
               AskOf("listing", 6, FALSE, OldIsShared)}

-------------------------------------------------------------------------------
\* The public benchmark: a case asked in a new session, and one whose messages
\* do not all fit.
Case2 == [id |-> "case2", task |-> 1, new_session |-> FALSE,
          messages |-> <<It("a", 2), It("b", 1), It("c", 3), It("d", 1)>>]
Case1 == [id |-> "case1", task |-> 2, new_session |-> TRUE, messages |-> <<It("a", 1)>>]
TwoCases == <<Case1, Case2>>
BaselinesRun == <<"sliding_window", "naive_summary", "vector_rag", "memoryos_lite">>
RankedByBM25 == [c \in {"case1", "case2"} |-> IF c = "case2" THEN <<"c", "b", "a">> ELSE <<"a">>]

-------------------------------------------------------------------------------
CallOf(role, repeat) == [role |-> role, prompt |-> "p", repeat |-> repeat]
ThreeCalls == <<CallOf("curator", 0), CallOf("curator", 1), CallOf("judge", 0)>>

-------------------------------------------------------------------------------
\* Rooms: two of one project, whose gold ids are the same, and one of another.
Gold(i, kind, topic, statement, sources, by) ==
    [id |-> i, kind |-> kind, topic |-> topic, statement |-> statement, sources |-> sources,
     superseded_by |-> by]
View(i, kind, topic, statement, sources, status) ==
    [id |-> i, kind |-> kind, topic |-> topic, statement |-> statement, sources |-> sources,
     status |-> status, grounded |-> TRUE, room |-> NoRoom]
Asked(new, answers) == [new |-> new, answers |-> answers]

Room1 == [id |-> "r1", project |-> "p", messages |-> {1, 2, 3}, noise |-> {3},
          golds |-> {Gold(1, "rule", "t", "old", {1}, 2), Gold(2, "rule", "t", "new", {2}, 0)},
          probes |-> <<Asked(FALSE, {2}), Asked(TRUE, {2})>>]
Room2 == [id |-> "r2", project |-> "p", messages |-> {1}, noise |-> {},
          golds |-> {Gold(1, "fact", "u", "that", {1}, 0)},
          probes |-> <<Asked(FALSE, {1})>>]
Room3 == [id |-> "r3", project |-> "q", messages |-> {1}, noise |-> {},
          golds |-> {Gold(1, "preference", "u", "likes", {1}, 0)},
          probes |-> <<Asked(TRUE, {1})>>]
ThreeRooms == <<Room1, Room2, Room3>>

\* What a curation of the first room brings: any of four memories, or one that
\* quotes nothing; of the second, one whose id may be another room's.
Curated1 == {View(1, "rule", "t", "old", {1}, "superseded"),
             View(2, "rule", "t", "new", {2}, "active"),
             View(3, "fact", "v", "old", {1, 2}, "active"),
             View(4, "decision", "w", "new", {2, 3}, "active")}
Ungrounded == {[View(1, "rule", "t", "old", {1}, "active") EXCEPT !.grounded = FALSE]}
CuratedRooms ==
    [r \in {"r1", "r2", "r3"} |->
        CASE r = "r1" -> {Ungrounded} \cup SUBSET Curated1
          [] r = "r2" -> {{View(5, "preference", "u", "that", {1}, "active")},
                          {View(2, "fact", "u", "that", {1}, "active")}}
          [] r = "r3" -> {{View(7, "preference", "u", "likes", {1}, "active"),
                           View(8, "fact", "u", "likes", {1}, "active")}}]

Words == [s \in {"old", "new", "that", "likes"} |->
             IF s \in {"old", "new"} THEN {"value", s} ELSE {s}]

-------------------------------------------------------------------------------
\* A module: a contract whose older version comes later, two failures of one
\* lesson and one of none.
Act(type, t, contract, version) ==
    [type |-> type, tokens |-> t, contract |-> contract, version |-> version]
ModGold(i, kind, topic, statement, sources, by, occurrences) ==
    [id |-> i, kind |-> kind, topic |-> topic, statement |-> statement, sources |-> sources,
     superseded_by |-> by, occurrences |-> occurrences, tokens |-> 2]
ModMemory(i, kind, statement, sources, status, occurrences, t) ==
    [id |-> i, kind |-> kind, topic |-> "t", statement |-> statement, sources |-> sources,
     status |-> status, version |-> Max(sources), occurrences |-> occurrences, tokens |-> t]

TheModule ==
    [id |-> "mod",
     activities |-> <<Act("contract_revision", 2, 1, 2), Act("gate_failure", 1, 0, 0),
                      Act("contract_revision", 2, 1, 1), Act("gate_failure", 2, 0, 0),
                      Act("review_objection", 1, 0, 0), Act("message", 1, 0, 0)>>,
     golds |-> {ModGold(1, "decision", "t", "old", {1}, 2, 1),
                ModGold(2, "decision", "t", "new", {6}, 0, 1),
                ModGold(3, "lesson", "u", "that", {2, 4}, 0, 2)},
     lesson_of |-> [n \in {2, 4, 5} |-> IF n = 5 THEN NoLesson ELSE 3],
     tasks |-> <<{1, 2}, {1}>>, excluded |-> {2}]
OneModule == {TheModule}

ReplayedMemories ==
    {ModMemory(1, "decision", "old", {1, 6}, "active", 1, 2),
     ModMemory(2, "decision", "new", {6}, "superseded", 1, 1),
     ModMemory(3, "lesson", "that", {4}, "active", 1, 3),
     ModMemory(4, "lesson", "likes", {2, 5}, "active", 2, 1),
     ModMemory(5, "fact", "likes", {3}, "active", 1, 1)}

Target(x, y, z) == [n \in {2, 4, 5} |-> CASE n = 2 -> x [] n = 4 -> y [] n = 5 -> z]
Targets == {Target(3, 3, NoLesson), Target(3, 4, 3), Target(NoLesson, Unaccounted, 4)}

SomeReplays == [m \in {"mod"} |-> [memories: SUBSET ReplayedMemories, target: Targets]]
===============================================================================
