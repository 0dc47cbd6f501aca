# MemoryOS Lite in TLA+

MemoryOS Lite is a memory layer for LLM agents. This directory models the parts of it
that keep state, retry, race, fit things into budgets or must not lose anything, checks them
with TLC on small instances and proves the main results with TLAPS for all instances. Paths are
relative to the repository: `curator/`, `recall.py`, `audit.py`, `audit_graph.py`, `engine.py`
and `api/` are under `src/memoryos_lite/`; `session_curator.py`, `service.py`, `store_*.py`,
`retrieval/` and the composer are under `memoryos_eval/memory/`; `ask.py`, `roommem.py`,
`modulemem.py`, `public_benchmarks.py` and `baselines.py` are under `memoryos_eval/`.

- [1. The system](#1-the-system): inventory of the components
- [2. The modules](#2-the-modules): how each corresponds to the code
- [3. What is checked](#3-what-is-checked): runs, bounds, fairness
- [4. What is proved](#4-what-is-proved)
- [5. Where code and documents differ](#5-where-code-and-documents-differ)
- [6. Not modelled](#6-not-modelled)

## 1. The system

There are three programs. The *service* (`src/memoryos_lite`) is stateless but for caches:
HTTP routes `/curate`, `/recall`, `/similar` and `/audit` over an LLM and an embedding
provider. The *session memory* (`memoryos_eval/memory`) is a library with a SQLite store:
sessions, messages, a recall index of episodes, an archive of documents and a table of
curated memories; it calls the curate graph in process. The *evaluation programs*
(`memoryos_eval`) drive both over data sets and score what comes back.

| component | state | operations | interacts with |
|---|---|---|---|
| curate core: `curator/curate.py`, `graph.py`, `llm.py`, `grounding.py` | one request: reply, check, call and attempt counts | extract, check, repair, consolidate; provider attempts with retries | the LLM; the caller stores the result |
| session curator: `session_curator.py`, `store_curator.py` | messages, watermark, curated rows with supersede links; failure counts in memory | `run_session`: read a window, curate it, commit it, count a failure, skip | message stream, curate graph, store |
| embedding cache: `_embed` of `recall.py` and `audit.py` | an `OrderedDict` per process and class | look, embed, update, touch, evict, read | embedding provider; all requests of a process |
| recall ranking: `recall.py` | one request | lexical and dense ranking, fusion, hints, recency, budget, near-duplicate pairs | embedding cache |
| audit: `audit.py`, `audit_graph.py` | one request | expand, retrieve, judge, verify | LLM, embedding cache |
| engine and shell: `engine.py`, `api/app.py`, ... | the LLM client, built on first use | routing, the gate on the client, statuses | all of the service |
| session ingest: `service.py`, `store_sessions.py` | messages, episodes | find by idempotency key, add, index, replay, conflict | store, concurrent callers |
| archive: `service.py`, `archive_rag.py`, `store_archive.py` | documents, chunks, passages, attachments | ingest, attach, list a scope | store, concurrent callers |
| archival vectors: `archival_vector.py`, `archival_searcher.py` | bounded vector store of a service | index, query, fuse, fall back | embedding provider, archive |
| context composer: `context_composer.py`, `recall_pipeline.py`, `episode_searcher.py`, `source_evidence.py`, `budget.py` | one package under construction | search, plan, layers against a token budget, evidence envelope | sessions, archive |
| ask: `ask.py`, `retrieval/supersede.py` | one question: queries, found items, rounds | retrieve, grade, rewrite, fit | context composer, LLM |
| evaluation: `roommem.py`, `modulemem.py`, `public_benchmarks.py`, `baselines.py` | services per room, report files, disk cache of LLM calls | ingest, curate, deliver, probe, score; write and resume reports | all of the above |

Which behaviours are hard, and the properties that answer them:

- *Curation of a stream.* Windows fail, are retried, skipped; the process restarts with
  its failure counts forgotten; messages arrive while a run is on. No message may be
  curated twice or lost (`ConsumedExactlyOnce`), none may wait for ever
  (`EveryMessageConsumed`), none may be skipped before its window failed often enough
  (`SkipFollowsFailures`).
- *Versioned memories.* The run keeps its own copy of the active rows and the request
  carries only a part of them. Over any number of windows the copy is right
  (`RunAgreesWithStore`), a topic has one active row (`UniqueActive`), the newest
  (`NewestStaysActive`), and the links are a history (`SupersedeHistory`); all together,
  readers see whole batches only (`ImplementsLedger`).
- *Unreliable replies.* An LLM reply may be anything. Each failure of the window is
  accounted for exactly once (`AccountedOnce`), new versions are admissible, grounded and
  count each failure once (`VersionsSound`), conflicts name what the caller holds
  (`ConflictsNameMemories`), no attempt is hidden (`AttemptsTellAll`).
- *Requests sent again.* A host that crashes after storing an answer sends the window
  again (`EachFailureCountedOnce`, `ReplayIsNoop`).
- *Threads on one dict.* A cache entry found is gone when it is read, or two requests miss
  the same text (`VectorsOfOwnTexts`, `LoneRequestIsDense`, `CacheBounded`).
- *Two transactions and a race for a key.* A call may die between message and episode, and
  two first writers of a key race (`AnsweredIsIndexed`, `KeyBindsOneMessage`,
  `UnracedIndexIsExact`, `EveryMessageIndexed`, `EveryCallAnswered`).
- *Several statements without a snapshot.* Ingests of one document race, and a listing is
  read in four statements while documents come in (`DocumentBoundOnce`, `ListingIsSnapshot`).
- *Filling a budget.* What does not fit is passed over while smaller things that rank lower
  still go in, in six places of the code: a skip must be for size only, the counts must add
  up, and parts that plan against one budget must agree (`RecallSound`,
  `ContextWithinBudget`, `EvidenceAddsUp`, `CurrentBeforeOutdated`, `ModuleArmRight`).
- *Fusion of rankings.* Whatever three lists say, nothing goes out for something behind it
  everywhere (`NoBetterLeftOut`); a judge's claims are all accounted for (`ReportAddsUp`);
  anchors and neighbours never push a better hit out wrongly (`RecallHitsSound`).
- *A store at its limit.* Indexing one passage may evict another of the same search, and an
  archive filled anew brings an id back with another text (`ArchivalAnswers`).
- *A loop led by an LLM.* The ask loop ends whatever is rewritten (`AskBounded`).
- *Who may see what.* Rooms share services, sessions and ids: no memory of another project, and
  none of a superseded value, may reach a probe (`RoomsSeeWhatTheyMay`), and what is
  counted must follow from one matching (`WriteSideSound`).
- *Files of a process that dies.* A file is emptied before it is written: a run that is resumed
  must report what one without a death does (`ResumeIsTransparent`), and a reply that was paid
  for must never change (`RepliesStay`).

## 2. The modules

One module per component; `MemoryOSService` composes the two routes with state of their own,
`RoomArm` composes the five modules of a probe, and `Evaluation` puts the programs side by side.
`MC...` modules hold instances for TLC, `...Proofs` modules the theorems; `Lists` has the filter,
the sum and the concatenation of lists that several modules use, `CollectionLemmas` what the
proofs need of them.

| module | extends | is composed in |
|---|---|---|
| `SessionCurator`, `CuratedLedger` | | the first implements the second |
| `Curate` | `Lists` | `CurateGraph`, `CurateHost` |
| `EmbeddingCache`, `SessionIngest`, `Archive` | | |
| `RankFusion` | | `Recall`, `AuditGraph`, and these in `MemoryOSService` |
| `EpisodeSearch`, `ArchivalSearch`, `ContextComposer`, `AskGraph` | | `RoomArm` |
| `SourceEvidence` | `Lists` | `RoomArm` |
| `WriteSide` | `Lists` | `RoomDelivery`, `ModuleArm` |
| `RoomArm`, `RoomDelivery`, `ModuleArm`, `PublicBenchmark`, `ResponseCache` | | `Evaluation` |

### SessionCurator, CuratedLedger

`SessionCurator` is `Curator.run_session` for one session with the store behind it.

| TLA+ | code |
|---|---|
| `clock`, `stored` | messages built and messages committed. A message is numbered by its place in the `(created_at, id)` order; `Construct` and `CommitMessage` are apart because `ingest` builds the message before its transaction |
| `last_message_seq`, `last_error_code` | `CuratorStateRecord` |
| `rows` | table `curated_memories` in creation order; `lesson` is the kind class (lesson or not) |
| `pc`, `force`, `seq`, `total`, `run_counted`, `window`, `context`, `active` | locals of `run_session` and `_curate_window` |
| `window_failures` | `Curator._window_failures`, in memory |
| `StartRun`, `ReadWindow`, `EndRun` | the early return, the slices read by the loop, its conditions |
| `CurateWindow(writes)` | a checked reply, `_window_writes`, `apply_curator_window`, and the patch of the run's own dict |
| `FailWindow`, `SkipWindow` | `_register_window_failure` below and at `SKIP_AFTER_FAILURES` |
| `RequestRefused` | the `ValidationError` of a request that cannot be built |
| `Restart` | the process dies, or a host builds a new `Curator` |

The reply of the curate graph is any set of versions that `consolidate` can make of
proposals about the window (`PossibleWrites`). What it decides is translated (noop, stale,
lesson occurrence, which prior is superseded); how a reply is parsed is left to `Curate`.
The order in which rows of one window share a timestamp is left out, and so are the
cumulative counters, the traces and the returned run result. A session has one curator.

`CuratedLedger` is what the table promises its readers: messages are taken from the front
in whole batches, and each topic of each kind class has one current memory whose version
never goes back. `SessionCurator` implements it (`ImplementsLedger`), with `consumed` the
watermark and `current` the active row of the topic.

### Curate, CurateGraph, CurateHost

`Curate` holds the pure core: `CheckReply` (validation of one reply against its request)
and `Consolidate` (new versions, assignments, conflicts). A reply is the parsed JSON, with
unusable fields as `No...` values; a quote is the activity it grounds in
(`grounding.repair_quote`); a memory is its record, since its id is a hash of it. Where the
code breaks a tie by that hash, `CHOOSE` takes one of the equals.

`CurateGraph` is one request: `extract`, `check`, `repair`, `consolidate` around the
retrying client. Each provider attempt is an action: `Answer`, `Retry` (dropped
connection, 429, 5xx), `Fail` (timeout, refusal, retries exhausted). After the route of a
reply neither reply nor check is kept: the repair prompt shows them to the LLM, whose
next reply is any.

`CurateHost` is a host under the module profile: `curate_module` of `modulemem.py`, which ends its
windows at failures, or a host of `POST /curate` as `docs/specs/memoryos-service-contract.md` asks
for. It sends windows with what is active, stores the versions, then moves its position; a crash
or a lost answer repeats a window, with any reply. Only lessons accumulate, so its replies carry
lessons and assignments. `FewFailures` says that no window holds more failures than a lesson keeps
sources (8, `MAX_LESSON_SOURCES`): true of `curate_module`, and a duty of other hosts.
`curate_module` sends only the newest 60 active memories; the instances never have that many.

### EmbeddingCache

`_embed` of `Recaller` (routes recall, similar) or of `Retriever` (audit); `owner` says
whose. The routes are plain functions, which the server runs on a pool of threads, and the
dict has no lock. One operation on the dict is one action, as it is under the interpreter's lock:
`Look` (`key not in _vectors`), `Embed` or `EmbedFails` (the provider), `Update`,
`Touch` (`move_to_end`), `Evict` (the condition of the loop), `Pop`, `Read`. A vector is
named by the text it embeds, which makes a vector of the wrong text visible. The dict is
`cache`, from text to vector, and `older`, which of two keys comes first; `Oldest` is what
`popitem(last=False)` takes. `OutcomeOf` is what each route makes of a failed lookup or provider.

### RankFusion, Recall, AuditGraph, MemoryOSService

An item is a number, in the order of ids. `RankFusion` is reciprocal rank fusion in whole
billionths; what BM25 or the cosines make of a query is any of the `Rankings`. Where three or
more addends make equal sums, the last bit of the floats decides, so `FusedOrders` lets the tie
go either way.

`Recall` is `Recaller.recall` step by step: `RankItems` (either ranking may be missing, with no
query words or no vectors), `Score` with its bonuses and rounding, `ConsiderItem` for each turn of
the loop over `scored`, `AnswerRecall`; `AnswerSimilar` is the other route. `AuditGraph` has an
action per node, with `ProviderFails` for the error that leaves the graph from whichever node.
A verdict of the judge is none, no dependency, a bad quote, or a quote of some item, its own or
not. `MemoryOSService` adds the routes, the gate that builds the client on first use, and the
statuses.

### SessionIngest

`SessionMemoryService.ingest` for one session, callers in parallel, one statement per
action: `Find`, `Add` (with the unique index `Collides`), `Refind` after an
`IntegrityError`, the three reads and the transaction of `ensure_episodes_for_session`,
`Respond`. `Die` ends a call between any two statements, and the caller sends again. The SQLite
driver opens no transaction for a SELECT, so each read sees what is committed then. Episodes
are a set; `by` keeps apart the rows of two calls, as the random id does. Token counts
and traces are left out. `Die` also stands for a database that is locked.

### Archive

`ingest_archive_document`, `attach_archive` and `list_archival_passages_for_scope`, one SQL
statement per action for the same reason. A text is a name and a size, and the splitter gives its
windows as spans, so "stored whole" can be said. `Matches` is the comparison of text and identity
that tells a replay from a conflict. An insert that collides ends in the database's
`IntegrityError`, as the code does not catch it. A listing counts twice, then reads twice, and
fails when they disagree. `known` and `moment` are history: what the tables held when a call
began, and at its second count.

### EpisodeSearch, ArchivalSearch, ContextComposer, SourceEvidence, AskGraph, RoomArm

- `EpisodeSearch`: direct hits by score, the session anchor that may replace the weakest, and a
  loop that adds each hit's neighbours (`RecallMemorySearcher`). Scores are part of the search.
- `ArchivalSearch`: `index` and `query` of the vector store are apart, as the searcher indexes
  every candidate one by one first; an embedding may come back empty or fail, a vector is
  the text it was made of. `reset` and filling anew is a search whose passages have another text.
- `ContextComposer`: the budget (`DynamicBudget`), the plan of `RecallPipeline`, then the layers
  task, recall, archival and recent from one budget, one item at a time, and the package with its
  decisions and counts.
- `SourceEvidence`: order of selection of both versions (window, demotion), selection within the
  item, token and text bounds, and the shrinking to the byte bound.
- `AskGraph`: the graph's nodes, the outdated marks of `supersede.py`, then the fitting of items.
- `RoomArm`: a probe as `_run_room_arm` runs it: one context for the modes `plain` and `demote`,
  then `agentic`, whose every retrieval runs a context and an envelope of its own. The vector
  store lives on from probe to probe. Each part is also called by itself, with more requests.

### WriteSide, RoomDelivery, ModuleArm

`WriteSide` is the matching of curated to gold memories and the counts made on it. `RoomDelivery`
is `run_roommem` for one arm: `jobs` is what its nested loops still have to do, sessions and
documents are opened and attached as the arm's flags say, a probe's evidence is any subset
of what its session may see. `ModuleArm` is `_run_module_arm` for the arms that need no retrieval:
the pack of memories within `PackBudget`, the tails of the log, and the scores of a replay; sorting
is a choice of what comes next, `NextMemory`, and a sum of tokens is `Total` over the list.

### PublicBenchmark, ResponseCache

`PublicBenchmark` is `run_public_benchmark`: each baseline of each case is a step, and every file
is opened (`Torn`) in one step and written in the next. `BenchFault` is a death, after which only
files are left. `memoryos_lite` lowers the budget of the run's settings while it builds a context
and the reset of its store may be interrupted. `ResponseCache` is the two disk caches of
`roommem.py`: look, ask the provider, open, write. A reply carries the call it was made for.

## 3. What is checked

| run | instance | what it shows |
|---|---|---|
| `session_rows` | 3 messages, two of them in flight at once, windows of 1, 2 topics, 2 statements, activity orders that contradict arrival | `RunAgreesWithStore`, `UniqueActive`, `NewestStaysActive`, `SupersedeHistory` over windows that supersede, restate and go back |
| `session_stream` | 3 messages, windows of 2, one restart, forced and unforced runs, fair | `ConsumedExactlyOnce`, `SkipFollowsFailures`, `ImplementsLedger`, and that every message is curated or given up (`EveryMessageConsumed`) |
| `cut_prompt_unique` | room for 1 active row in the prompt | violation of `UniqueActive`: two active rows of a topic |
| `oversize_message` | first message refused, fair | violation of `EveryMessageConsumed`: all wait for ever |
| `curate_requests` | three profiles, windows of 1 or 2 activities, priors that meet or lead them, one repair under module, one retry | `AccountedOnce`, `VersionsSound`, `ConflictsNameMemories`, `AttemptsTellAll` for all replies of the bounds; no request gets stuck |
| `host_replay` | 3 failures in windows of 2, 2 topics, lessons that keep their last 2 sources | `EachFailureCountedOnce`, `ReplayIsNoop` under repeated windows |
| `shared_cache` | 2 threads, 4 texts, capacity 2, 3 requests, also larger than the cache | `VectorsOfOwnTexts`, `LoneRequestIsDense`, `CacheBounded` |
| `recall_repeat` | as before, `/recall` only | violation of `SameRequestSameAnswer`: one request, two answers |
| `ingest_calls` | 2 callers, one key or none, 2 bodies, 1 death, fair | `KeyBindsOneMessage`, `AnsweredIsIndexed`, `UnracedIndexIsExact`, and an answer and an episode for everybody (`EveryCallAnswered`, `EveryMessageIndexed`) |
| `service_requests` | 3 items, 2 of one seq, four rankings; 144 recalls with and without hints, 8 audits that keep one or two of three | `RecallSound`, `ReportAddsUp`, `NoBetterLeftOut`; every request is answered (`EveryRequestAnswered`) and none gets stuck |
| `archive_calls` | 3 callers, 5 ingests of 2 documents, 2 attachments, 2 listings, 1 death | `DocumentBoundOnce`, `ListingIsSnapshot` |
| `benchmark_asks` | the evaluation programs, one to a behaviour; see below; fair | eleven invariants, one or two to a module, and that everything ends (`EverythingEnds`) |

`benchmark_asks` holds, in turn: 512 recall searches over 4 messages of none, one or two benchmark
sessions; 3 archival searches over 3 passages in a store of 2 vectors; contexts over budgets from
0 to more than the limit; envelopes with bounds that bite one by one, in both versions; 3 probes
through all of these, with a rewrite that brings the archive back with another text; every arm of
RoomMem over 3 rooms of 2 projects, with any subset of 4 memories curated in the first; every
modelled arm of ModuleMem over 6 activities with any subset of 5 replayed memories; the public
benchmark over 2 cases and all 4 baselines with two deaths; 3 cached LLM calls with two deaths.

**Bounds.** Each bound is a constant that a guard uses: `MaxMessages`, `MaxWrites`
(versions of one reply) and `MaxRestarts` in `SessionCurator`; `ReplyBound` in
`CurateGraph`, `MaxLessons` and `MaxAssignments` in `CurateHost`; `MaxRequests` in
`EmbeddingCache`; `MaxDeaths` in `SessionIngest` and in `Archive`, `MaxBenchDeaths` in
`PublicBenchmark`, `MaxCacheDeaths` in `ResponseCache`. The others (`MaxVectors`,
`RECALL_TOP_K`, `CuratedLimit`, `PackBudget`, `WindowSize` and so on) are limits of the code, made
small enough to be hit. Why they are enough:

- A row of a topic is superseded at most once, so three windows of one message reach a row,
  its successor, and one that goes back or restates; the third window is where a run's
  stale copy would show. Two topics let a write touch the wrong one.
- Windows of 2 over 3 messages give full and partial windows and a window after a
  skip; `SkipAfterFailures` is the code's 3, so a count that survives a restart or a
  success is visible within one more failure.
- Replies of two assignments can assign one failure twice, leave one out, or name no failure.
  Two memories can collide on a topic key or with a prior. Two lessons of one
  topic key are given to the room profile, as a host that lost a supersede would send.
- A cache of 2 is overflowed by every pair of requests and by one alone; three
  requests suffice to fill, evict and read again. In a state where all threads are idle the
  fourth request begins as the second or third did.
- Two callers race once; one death puts a gap between any two statements. A third caller adds
  no new overlap of the statements of two, and the theorems of section 4 do not bound them. In
  `Archive` the third caller is there so that a listing meets an ingest and an attachment.
- Three items are the least in which one is taken, one skipped and a later one taken after all,
  which is where the budget loops could go wrong; budgets and sizes are chosen so that this
  happens in each of them.
- 4 messages and a limit of 2 give an anchor that replaces a hit, one that is too weak, and
  hits whose neighbours overlap. 3 passages overflow a store of 2 within one search; every
  eviction in a larger one is of the same kind.
- Rooms: two of one project, with equal gold ids, and one of another are the least in which a
  memory can go astray between rooms, between projects, and between ids. Room 1 brings one memory
  more than `CuratedLimit`.
- Two deaths let a resumed run die again, also while it rewrites the very file it resumed from.

**Deadlock** is checked in `curate_requests`, where an ended request stutters explicitly, and in
`service_requests`, where the next request can always come. The other systems may stop: their
bounds run out, all callers are answered, all programs have ended.

**Fairness.** `SessionCurator!FairSpec`: a host calls `run_session` again while messages wait (the
failure counts and `SKIP_AFTER_FAILURES` exist for such a host, and `tests/test_curator.py` plays
it; RoomMem calls once per room), a run that is called goes on, and an LLM call returns or times
out (`memoryos_curate_timeout_s`). `ReadWindow` is strongly fair: a partial window is read only
when the run is forced or its oldest message is old enough, which it is again and again, though
not on every call. Restarts are bounded, since each forgets the failures counted so far: a process
that restarts before the third failure every time never skips. `SessionIngest!FairSpec`: a
statement under way ends, and a caller without an answer sends again; deaths are bounded.
`MemoryOSService!FairSpec`: a request that was begun goes on, as each provider call returns or
times out; nobody has to send one. `Evaluation!FairSpec`: a program that is up goes on, and one
that died is started again; beginning another probe, dying and running a finished benchmark again
are left to chance. No fairness is assumed of a particular outcome.

Every property of a passing run has a mutant in `PROJECT.json`: a changed definition under
which TLC finds the property violated.

## 4. What is proved

For all constants that satisfy the named assumptions; no bound of section 3 enters.

**SessionCuratorProofs** (9 theorems).
- `Typing`, `WatermarkBounded`: the inductive invariant is `TypeInv`, the types together with
  "the watermark is a position of the stream". Neither is inductive by itself: the types of
  `seq` rest on how long the next window can be.
- `RunMirrorsStore`, `OneActivePerTopic`, `NewestStays`, `HistoryIsLinked` assume
  `EveryTopicPrompted`: the prompt has room for one row per topic of each kind class. The
  invariant is the conjunction `RowsInv` of the four. That the run's copy is
  the store's needs unique rows, so that nothing is cut (`AllActivePrompted`); unique rows
  need that the copy is right. The assumption is needed: `cut_prompt_unique` drops it.
- `ConsumedOnce`, `SkipAfterEnough` assume `SequentialIngest`, under which the stored
  messages are always a prefix (`StreamInv`) and positions are numbers. `HistoryInv` relates
  the histories to the watermark, and the failures counted for a
  position to those that befell its message. Section 5 says what happens without the assumption.
- `LedgerImplemented`: every step of the curator is a step of `CuratedLedger` or a stutter.

**CurateProofs** (7 theorems). About one request, for every set of requests, every reply and every
bound:
- `Typing`: calls stay within the repairs and retries within `RETRIES` (`CallInv`).
- `ClosedWorld`: `AccountedOnce`. The lemmas are about the operators: accepted assignments
  are distinct and about failures of the window (`AcceptedAreDistinct`), so the
  check of any reply accounts for each failure once, and consolidation keeps it
  (`AccountInv`).
- `VersionsAreSound`: `VersionsSound`. The check makes of any reply a set of assignments,
  proposals and conflicts that hang together (`CheckIsSound`); the invariant `VersionInv` carries
  that to the answer, and what consolidation makes of it is proved part by part. A lesson: its
  occurrences follow each other in the reply (`OccurrencesSound`), the sources of one are fresh
  when neither the prior version nor an earlier one cites them (`FreshAreUncited`), the list of
  sources is the prior's and then the fresh ones, each once (`AllSourcesElements`), and cut to its
  end it cites nothing else (`LessonSourcesGrounded`); under the module profile one occurrence is
  one failure, so what is added is what the prior does not cite (`LessonCounts`). Another memory:
  one proposal of a topic key wins (`OneWinner`).
- `ConflictsAreNamed`: `ConflictsNameMemories`. A topic key stands for one new version or a newest
  active memory (`ReferredIsHeld`), which needs that a row has one new version (`OneVersion`).
- `AttemptsListed`: the record of attempts.

About a host that is answered again and again, for any number of activities and topic keys and
windows and replies of any length, under `FewFailures`: `HostInv` says of each topic key that the
host holds one lesson, counting what was ever assigned to it, and of its sources that those of the
window under way come last, each once, none missing (`LessonRight`). The last part makes cutting
the list harmless: more than `MaxLessonSources` recent sources would be as many different failures
of one window (`CutKeepsRecent`).
- `FailuresCountedOnce`: `EachFailureCountedOnce`. A failure assigned again is cited, so it adds no
  occurrence; one that the host is done with cannot be assigned again.
- `ReplayAddsNothing`: `ReplayIsNoop`. The versions of an answer do not change which assignments
  of its reply are valid (`SameAnswerAgain`), and all of them are counted already (`NothingNew`).

**SessionIngestProofs** (3 theorems), for any number of callers, keys, bodies and deaths; the
first two for any overlap.
- `AnswersIndexed`: the invariant `IndexInv` says for each statement of
  `ensure_episodes_for_session` how near the call is to what it owes: after the first read its
  list has it, after the second what it takes for indexed is indexed, after the commit all is.
- `KeysBindOneMessage`: `KeyInv` (no two messages of a key, each call is
  bound to a message of its key and body, a message has one writer) and `AnswerInv` (an
  answer is what its call ended with).
- `UnracedExact`: `UnracedIndexIsExact`. `UnracedInv` says that one call at most is under way, that
  exactly the first n messages have an episode, each numbered like its message, and what each
  SELECT of the call has read of that. A death leaves n behind the messages and the next call
  catches up; what it numbers by counting is the message's own place (`NewEpisodesExact`).

**ArchiveProofs** (2 theorems), for any number of callers, documents, windows and deaths.
- `DocumentsBound`: `DocumentBoundOnce`. The invariant speaks of one call at a time: what it has
  read, written and answered, given the tables. A step of its own call keeps it by the case of the
  statement; a step of another only adds rows (`Grows`) and leaves the call's own variables alone
  (`Untouched`). That the windows of a text cover it is a lemma on `Split`, and needs no
  induction: each position lies in the window that begins at the multiple of `MaxChars` below it.
- `ListingsAreSnapshots`: `ListingIsSnapshot`. Passages are only ever added, so what is
  read contains what was counted before it; equal counts of a finite set and of a subset of it
  make them equal. This is the step that justifies the code's comparing of counts.

**ServiceProofs** (7 theorems), about one recall, the cache it shares, one audit, and requests in
turn.
- `RecallsAreSound`: `RecallSound`, for any items, hints, rankings and requests. An item that
  dominates another has no lower score (`ScoreGrows`, from the monotony of each addend and of
  integer division) and so precedes it in the sort. The loop's invariant is that what was taken or
  dropped precedes what is pending (`OrderInv`), and what was dropped would not fit now either
  (`DroppedInv`): the budget left and the places left only shrink.
- `DenseFromOwnTexts`: `VectorsOfOwnTexts`, as the next two for any threads, texts, requests and
  capacity. Every cached vector belongs to its text, a batch that is stored answers exactly what
  was missed, and what a request has read so far is a prefix of its texts.
- `LoneRequestSucceeds`: `LoneRequestIsDense`. A lone request has moved all its keys behind the
  others when it evicts; what is popped is the oldest, so one of its own keys goes only when no
  other is left, and then the dict is no longer than the request. This needs `older` to be a
  linear order at every step, whatever other threads did before (`OrderExtended`, `OrderMoved`,
  `OrderWithout`).
- `EvictionsKeepUp`: `CacheBounded`. The threads at `pop` are counted against what exceeds the
  limit. It assumes a pool of at most one thread more than the cache has places
  (`PoolAssumption`): the code has 8192 places (`recall.py:33`) and the server's pool some tens of
  threads.
- `ReportsAddUp`: `ReportAddsUp`, for any requests, rankings and replies. The candidates are the
  first of an order without repetitions (`ListsOnce`), so the places that are kept are as many as
  the items they hold, and these and the dropped ones are all that the judge called dependent.
- `BestAreJudged`: `NoBetterLeftOut`. An item that every list has ahead of another gets no less
  from any list and more from one (`SharesFall`, `TotalLess`), so no fused order has it later
  (`FusedAheadFirst`), and the first k of an order hold what comes before what they hold. It needs
  the bound of 2000 items on a request (`MAX_ITEMS`): reciprocals cut off at billionths are equal
  beyond some 31000 ranks. That the newest items are a list at all is `PlaceTaken`: each place of a
  finite linear order is some member's.
- `RequestsAreSound`: `RecallSound`, `ReportAddsUp` and `NoBetterLeftOut` of the composed `Spec`:
  each of its steps is a step of one part and leaves the variables of the other alone, or forgets
  an answer, so that it behaves like `RecallSpec` and like `AuditSpec`.

**EvaluationProofs** (10 theorems), about the parts of the evaluation programs.
- `BudgetHolds`, `PlannedIsIncluded`, `ContextAddsUp`: `ContextWithinBudget`, for any items,
  limits and budgets, and two of its conjuncts by themselves. That the recall layer drops nothing
  relates what the layer has used to what the plan had used when it took the same item, as sums
  over a prefix of the plan. `AccountInv` keeps four accounts at every item: the tokens of the
  items taken, of the layers closed, of what was requested and dropped, and the number of items
  seen.
- `AsksAreBounded`: `AskBounded`. Retrievals, queries and LLM calls are counted
  together (`CallsInv`), and why the graph stopped is kept beside what was found (`ReasonInv`).
- `CurrentComesFirst`: `CurrentBeforeOutdated`. Each passage is found once (`FoundInv`), what is
  to be fitted is what is current, then what is outdated (`FittingInv`), and a current one that
  was passed over costs more than is left, so more than any outdated one taken later
  (`AnswerInv`).
- `SameReplyForEver`: `RepliesStay`, for any calls, texts and deaths. A file
  that can be read holds a reply made for its key, each reply handed out for a call is in the file
  of the call, and a call in progress that will write was never answered before.
- `RowsSurviveDeaths`: `ResumeIsTransparent`, for any cases, baselines, texts and budgets. At
  every step the rows are the expected ones before the place the run has reached (`PlaceInv`),
  they are made with the full budget and the case's own store (`SettingsInv`), and a partial
  report that can be read holds the rows of whole cases (`ReportsInv`), whose number gives the
  case to go on with.
- `HitsAreSound`: `RecallHitsSound`, for any searches, distances and limits. What was selected
  lists hits and their neighbours, each once (`SelectedInv`), and for every hit whose turn is
  over either all its neighbours are there or the limit is reached (`NeighborsAdded`); that the
  direct hits are the best but for one boosted match is fixed when the search begins
  (`DirectInv`).
- `ArchiveAnswers`: `ArchivalAnswers`, for any searches, lexical rankings, stores and replies of
  the provider. While a search indexes, the candidates whose turn is over have the youngest
  vectors of the store (`Youngest`), so that what a full store drops is older than all of them
  as long as the candidates fit (`UpsertedYoungest`); that a passage with a vector of its text is
  moved to the end is what keeps this true (`TouchRenews`). Fusing two rankings gives a list of
  the passages of either, each once, as the fused order is linear (`FusedLists`).
- `EvidenceSound`: `EvidenceAddsUp`, for any limits and any context that has each message and each
  passage it recalls once (`EnvelopeValid`: the composer drops repetitions by their ids; that the
  contexts of the probes are such is what TLC sees in `RoomArm`). The order in which items are
  considered is a bijection onto the eligible ones (`Arranged`), made of three: the filter keeps
  their order (`EligibleArranged`), the demotion changes it only between current and superseded
  ones (`DemotedArranged`), and the window lets nothing overtake a derived item
  (`OrderMade`). For the last, the derived items that give their places are the last ones of the
  window, and as many as there are archival ones behind it or derived ones in it (`WindowMade`,
  where places are counted from the end, `AllFromEnd`); so the window holds
  all archival items or nothing else. What is chosen is always a first part of that order, and what
  is omitted is the rest (`EvidenceInv`).

**RoomProofs** (3 theorems), about the arms of RoomMem and ModuleMem.
- `WriteSidesSound`: `WriteSideSound`, for any rooms, curations, words and arms. The greedy loop
  is a recursive function over sets of pairs; that it is one rests on `StillFree` getting smaller
  (`GreedyExists`). What it makes is a matching that no pair would rather leave (`IsMatching`,
  `MatchingIsStable`), the counts made on it bound each other (`ScoreAgrees`), and so do their
  sums (`PoolAgrees`). In the oracle arm every gold memory is matched to its own view
  (`OwnMatched`): the first own pair to be missing would have been shut out by a pair ranked no
  later, whose other end has the lower id and is missing its own pair too, earlier. A missed
  conflict lies beside a stale memory (`MissedBesideStale`). In the oracle arm the scored room is
  curated, as the order of the jobs says (`RoomsInv`, below).
- `SessionsSeeWhatTheyMay`: `RoomsSeeWhatTheyMay`, for any rooms, golds, probes, arms and orders
  of delivery, and for curations that give no two rooms of a project a memory of one id
  (`IdsApart`). The hypothesis is what `new_id` and `deterministic_ids` do (`schemas.py:20-47`):
  the rooms of a project are curated under one counter of ids. It is a fact about what the LLM
  and the curator bring, so it is a hypothesis of the theorem and not an assumption of the module;
  the instance TLC checks has two rooms with one id on purpose, and the property holds there too.
  The argument has three parts. *The plan*: every list of jobs an arm makes scores no room before
  all its steps, and those of the rooms that share with it, are done, and does nothing with
  memories that a later job still curates (`ReadyFirst`, `InOrder`, `PlanOfRight`), so what is
  done is at any time a prefix of that plan (`OnPlan`, `PastJobs`). *The sessions*: which documents
  are attached to a session is a function of the jobs done and of the memories of the rooms
  (`Given`, `SessionsInv`); a curation changes none of it, as no session was given anything of the
  curated room before (`GivenStays`), and at the time of scoring it is what the room may have
  (`SessionsSee`). *The row*: what a probe's row says holds of what its session had, and the room
  of the row is curated no more (`RowInv`, `CuratedRow`, `FullRow`); here `IdsApart` is needed, as
  only the memories of the oracle arm carry their room in their id: those of two curated rooms
  are told apart by the ids alone.
- `ModuleEvidenceSound`: `ModuleArmRight`, for any modules, replays, budgets and assignments of
  failures. Of the assumptions one is a fact of the data set that the code does not check: gold
  ids tell the gold memories of a module apart. The sort key of the file is a linear order of any
  memories (`FileOrdered`), so there is a next one; each contract has a current revision and it is
  the newest (`NewestRevision`). The invariant says of the file as far as it goes (`FileSoFar`)
  what is to hold in the end and, as that is not inductive, that whatever was considered comes
  ahead of whatever is left: then a memory that is appended later costs nothing ahead of one left
  out earlier. For the log it says that the activities left are the ones before those taken, or
  that the one just before did not fit (`LogSoFar`). The counts of a replay follow from the
  matching (`ReplayCounted`) and from each failure having one assignment (`FailuresAccounted`).

**CollectionLemmas** has what these proofs need of finite sets, orders and lists: the n-th of a
set of numbers, the items of a list at a set of places (`Kept`, in `Lists`), sums of token counts
(`Total`), lists behind each other (`Joined`), oldest elements of linear orders. The facts that
need induction (`FewElements`, `SumUnique`, ...) are stated with sets of numbers, so that no
operator is a parameter.

Only model-checked: liveness (`EveryMessageConsumed`, `EveryRequestAnswered`, `EveryMessageIndexed`,
`EveryCallAnswered`, `EverythingEnds`). It rests on fairness, so on ENABLED, of which the provers
know nothing.

## 5. Where code and documents differ

Shown by a run:

- `cut_prompt_unique`: `_window_writes` retires "other same-topic rows" only if the version
  has a `supersedes_id`. When the active row was cut from the prompt, the topic ends with two.
- `oversize_message`: a request that cannot be built raises outside the `try`, so the window is
  neither curated nor counted as failed.
- `recall_repeat`: a request that races an eviction is ranked without embeddings.

Met on the way, without a run. In the service and the session memory:

- `store_curator.py:205`: the watermark is an offset into an order that a late commit may still
  change, so a message built before and committed after others is never curated. The comment
  above it calls the order stable; `SequentialIngest` is the assumption it needs.
- `curator/curate.py:685` keeps the last sources of a lesson in the order of the reply, which are
  not always the newest ones the comment at line 42 speaks of; and the guard against
  counting a failure twice reads the sources that are left, so a window sent again after eight more
  failures counts them anew. `FewFailures` of `CurateHost` excludes that.
- `curator/curate.py:599` says a proposal that became a noop maps to its active entry; one
  dropped because an agent declared its statement under another key maps to none, and its
  conflict is dropped (line 610).
- `session_curator.py:275` takes the rows created last for the prompt, not those with the
  newest versions.
- Two first writers of one key are answered with one message, but each adds an
  episode if their reads overlap (`store_sessions.py:164`): `UnracedIndexIsExact` therefore speaks
  of calls that do not overlap.
- The second of two first writers of an archive document gets the database's `IntegrityError`
  (`service.py:200`); `DocumentBoundOnce` says that only such a call gets it.
- `audit.py:145` moves keys outside the `try`: a key evicted by another request ends
  the audit with an error, where recall falls back to lexical ranking.
- `audit_graph.py:97` turns an unusable reply of the judge into an empty verdict, and line 76
  keeps no trace of whether the second ranking had vectors: an audit may be degraded silently.
- `archival_vector.py`: a passage that comes back with another text and whose embedding comes
  back empty keeps the vector of the old one.
- `source_evidence.py:368` says superseded items are dropped first; the window of version 2 is
  made before, so an item that is current may have been exchanged for a superseded passage.
- `context_composer.py:300`: `component_token_totals` counts each archival item twice.
  `service.py:553`: `recall_budget_dropped` leaves out what the pipeline itself has dropped.

In the evaluation programs:

- `public_benchmarks.py:326`: reports are emptied before they are written. A death in between
  leaves one that makes every later run fail until it is removed, and a resumed run's source
  mapping lacks the cases that were done before. `ResumeIsTransparent` is about rows only, and
  `EverythingEnds` excepts a torn report.
- `roommem.py:1686`: noise counts look at the first memory that cites a message only.
- `roommem.py`: in a new room, `stale` can never be true of a curated or oracle arm, and a gold
  memory of the room's own scope is never delivered.
- `modulemem.py:749` says an active memory that best matches a superseded decision is stale; the
  code matches against the superseded ones alone, so one that matches the successor better counts
  too. A task row can be satisfied and yet count as one with a violation.
- `modulemem.py:420` sends the newest 60 active memories only.

## 6. Not modelled

- *Left to the environment*: replies of an LLM, of judges, answerers and agents (any reply), the
  scores of lexical, dense and episode search (any ranking or score), whether a text covers a
  question, what text a quote occurs in.
- *Text*: prompts and wording (`curator/prompt.py`, `demo.py`), chunking beyond its windows,
  rendering of reports and summaries, tokenization.
- *Without state or order to get wrong*: configuration, middleware, logging and telemetry, command
  lines (`cli.py`, `collab.py`, `llm_judge.py`, `ask_demo.py`, `longmemeval_manifest.py`), loading
  and shape of data files (what `_validate_room` asks of gold memories and probes is an assumption
  of `RoomDelivery`).
- *Diagnostics*: traces, token counters and decision records, except where a property adds
  them up.
- `modulemem.py`: the retrieval arm, which is the search of `RoomArm` over other documents, and
  agents run as coders in a checkout.
- `store_legacy.py`: traces. The reset of a store is a step of `PublicBenchmark`.
