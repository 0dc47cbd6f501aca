---------------------------- MODULE SessionCurator ----------------------------
(***************************************************************************)
(* The stateful host of the curate graph for one session:                  *)
(* Curator.run_session over the message stream, the curated memory table   *)
(* and the curator watermark of the session store                          *)
(* (memoryos_eval/memory/session_curator.py and store_curator.py).         *)
(*                                                                         *)
(* A message is numbered by its place in the (created_at, id) order; the   *)
(* store serves the stream in that order.  A curated row is numbered by    *)
(* its creation order, so the dict `active` of the code, loaded in         *)
(* (created_at, id) order and extended at its end, is the set of its row   *)
(* numbers: its last entries are the largest numbers.  The LLM's checked   *)
(* reply is any set of proposals about the messages it was shown.          *)
(***************************************************************************)
EXTENDS Integers, Sequences, FiniteSets

CONSTANTS
    MaxMessages,        \* bound: messages ever ingested
    MaxInFlight,        \* ingest threads between Message() and its commit
    WindowMessages,     \* memoryos_curator_window_messages, capped
    ContextMessages,    \* CONTEXT_MESSAGES
    SkipAfterFailures,  \* SKIP_AFTER_FAILURES
    MaxActive,          \* memoryos_curator_max_active_in_prompt, capped
    Topics,             \* topic keys the LLM uses
    Statements,         \* statements the LLM uses
    ActivitySeq,        \* metadata activity_seq of each message, or NoSeq
    Oversize,           \* messages CurateActivity refuses (text too long)
    Forces,             \* the values of `force` the host passes
    MaxWrites,          \* bound: memory versions in one reply
    MaxRestarts         \* bound: restarts of the curator process

NoSeq == -1
NoRow == 0
Message == 1..MaxMessages
Errors == {"curator_schema_error", "curator_llm_error"}
NoError == "none"

ASSUME BoundsAssumption ==
    /\ MaxMessages \in Nat /\ MaxWrites \in Nat /\ MaxRestarts \in Nat
    /\ MaxInFlight \in Nat \ {0}

ASSUME SettingsAssumption ==
    /\ WindowMessages \in Nat \ {0}
    /\ ContextMessages \in Nat
    /\ SkipAfterFailures \in Nat \ {0}
    /\ MaxActive \in Nat \ {0}
    /\ Forces \subseteq BOOLEAN

ASSUME DataAssumption ==
    /\ IsFiniteSet(Topics)
    /\ ActivitySeq \in [Message -> Nat \cup {NoSeq}]
    /\ Oversize \subseteq Message

VARIABLES
    clock,            \* messages constructed so far
    stored,           \* messages committed to the messages table
    last_message_seq, \* CuratorStateRecord.last_message_seq, the watermark
    last_error_code,  \* CuratorStateRecord.last_error_code
    rows,             \* the curated_memories table, in creation order
    pc,               \* "idle", "loop" (head of the while), "llm" (in _curate_window)
    force, seq, total, run_counted,   \* locals of run_session
    window, context,  \* messages of the window under curation
    active,           \* the run's own copy of the active rows
    window_failures,  \* Curator._window_failures, by seq
    restarts,
    curated, skipped, \* history: how often a message was curated, skipped
    failed            \* history: failed attempts that contained a message

streamVars == <<clock, stored>>
stateVars  == <<last_message_seq, last_error_code>>
runVars    == <<pc, force, seq, total, run_counted, window, context, active>>
history    == <<curated, skipped, failed>>
vars == <<streamVars, stateVars, rows, runVars, window_failures, restarts, history>>

Row == [topic_key: Topics, lesson: BOOLEAN, statement: Statements, version: Nat,
        status: {"active", "superseded"}, supersedes_id: Nat, superseded_by_id: Nat]

Write == [topic_key: Topics, lesson: BOOLEAN, statement: Statements, version: Nat,
          supersedes_id: Nat]

-----------------------------------------------------------------------------
(* The message stream.                                                     *)

InFlight == (1..clock) \ stored

Position(m) == Cardinality({x \in stored : x <= m})

\* list_messages_for_curation: OFFSET after_seq LIMIT limit of the stream.
Slice(after, limit) ==
    {m \in stored : after < Position(m) /\ Position(m) <= after + limit}

\* ingest builds the Message, and with it created_at, before it is committed.
Construct ==
    /\ clock < MaxMessages
    /\ Cardinality(InFlight) < MaxInFlight
    /\ clock' = clock + 1
    /\ UNCHANGED <<stored, stateVars, rows, runVars, window_failures, restarts, history>>

CommitMessage(m) ==
    /\ m \in InFlight
    /\ stored' = stored \cup {m}
    /\ UNCHANGED <<clock, stateVars, rows, runVars, window_failures, restarts, history>>

-----------------------------------------------------------------------------
(* Rows, and the consolidation of a checked reply.                         *)

ActiveRows == {i \in DOMAIN rows : rows[i].status = "active"}

SameTopic(r, s) == r.topic_key = s.topic_key /\ r.lesson = s.lesson

\* The last MaxActive entries of the dict are the ones the request carries.
Prompted == {i \in active : Cardinality({j \in active : j > i}) < MaxActive}

\* _message_info: the consumer's activity order, else the stream position
\* counted from the first message shown.
Version(m) ==
    IF ActivitySeq[m] # NoSeq
      THEN ActivitySeq[m]
      ELSE seq - Cardinality(context)
             + Cardinality({x \in context \cup window : x <= m})

Proposals ==
    [topic_key: Topics, lesson: BOOLEAN, statement: Statements,
     version: {Version(m) : m \in context \cup window}]

\* Mutant of Priors: the topic is looked up with its statement.
PriorsSameStatement(p) ==
    LET known == {i \in Prompted : SameTopic(rows[i], p) /\ rows[i].statement = p.statement}
    IN  IF known = {} THEN {NoRow}
        ELSE {i \in known : \A j \in known : rows[j].version <= rows[i].version}

\* _newest: greatest (version, id); ids are random, so a tie goes either way.
Priors(p) ==
    LET known == {i \in Prompted : SameTopic(rows[i], p)}
    IN  IF known = {} THEN {NoRow}
        ELSE {i \in known : \A j \in known : rows[j].version <= rows[i].version}

\* Mutant of Kept: the version check that makes a proposal stale is lost.
KeptStale(p, prior) ==
    \/ prior = NoRow
    \/ p.lesson
    \/ rows[prior].statement # p.statement

\* What consolidate does with a proposal: a lesson that brings a new source is
\* one more occurrence; for other kinds a restatement is a noop and a proposal
\* older than the prior is stale.
Kept(p, prior) ==
    \/ prior = NoRow
    \/ p.lesson
    \/ rows[prior].statement # p.statement /\ p.version >= rows[prior].version

\* Mutant of Versioned: a lesson takes the version of its last source.
VersionedBackwards(p, prior) ==
    [topic_key |-> p.topic_key, lesson |-> p.lesson, statement |-> p.statement,
     version |-> p.version, supersedes_id |-> prior]

Versioned(p, prior) ==
    [topic_key |-> p.topic_key, lesson |-> p.lesson, statement |-> p.statement,
     version |-> IF p.lesson /\ prior # NoRow /\ rows[prior].version > p.version
                   THEN rows[prior].version ELSE p.version,
     supersedes_id |-> prior]

PossibleWrites ==
    UNION {{Versioned(p, i) : i \in {j \in Priors(p) : Kept(p, j)}} : p \in Proposals}

\* At most one new version per topic of each kind class leaves consolidate.
WindowWrites ==
    UNION {{w \in [1..n -> PossibleWrites] :
              \A i, j \in 1..n : SameTopic(w[i], w[j]) => i = j} : n \in 0..MaxWrites}

\* supersedes_id and also_supersedes of one write (_window_writes).
Targets(w) ==
    IF w.supersedes_id = NoRow THEN {}
    ELSE {w.supersedes_id} \cup {i \in active : SameTopic(rows[i], w)}

NewRow(w) ==
    [topic_key |-> w.topic_key, lesson |-> w.lesson, statement |-> w.statement,
     version |-> w.version, status |-> "active", supersedes_id |-> w.supersedes_id,
     superseded_by_id |-> NoRow]

Retire(r, by) == [r EXCEPT !.status = "superseded", !.superseded_by_id = by]

\* Row i after a commit; the writes are about different topics, so that at
\* most one of them targets it.
AfterCommit(i, writes) ==
    LET by == {k \in DOMAIN writes : i \in Targets(writes[k])}
    IN  IF rows[i].status = "active" /\ by # {}
          THEN Retire(rows[i], Len(rows) + (CHOOSE k \in by : TRUE))
          ELSE rows[i]

-----------------------------------------------------------------------------
(* Store transactions of the curator.                                      *)

\* apply_curator_window: one transaction for rows, links and watermark.
ApplyCuratorWindow(writes, upto, error) ==
    /\ rows' = [i \in 1..(Len(rows) + Len(writes)) |->
                  IF i <= Len(rows) THEN AfterCommit(i, writes)
                                    ELSE NewRow(writes[i - Len(rows)])]
    /\ last_message_seq' = upto
    /\ last_error_code' = IF run_counted /\ error = NoError THEN last_error_code ELSE error

\* Mutant of BumpCuratorState: no watermark is taken for watermark 0.
BumpCuratorStateToZero(error) ==
    /\ last_error_code' = error
    /\ last_message_seq' = 0
    /\ UNCHANGED rows

\* bump_curator_state: the watermark stays.
BumpCuratorState(error) ==
    /\ last_error_code' = error
    /\ UNCHANGED <<rows, last_message_seq>>

-----------------------------------------------------------------------------
(* run_session.                                                            *)

StopRun ==
    /\ pc' = "idle"
    /\ window' = {} /\ context' = {} /\ active' = {}
    /\ force' = FALSE /\ seq' = 0 /\ total' = 0 /\ run_counted' = FALSE

StartRun(f) ==
    /\ pc = "idle"
    /\ Cardinality(stored) > last_message_seq
    /\ pc' = "loop"
    /\ force' = f
    /\ seq' = last_message_seq
    /\ total' = Cardinality(stored)
    /\ run_counted' = FALSE
    /\ active' = ActiveRows
    /\ UNCHANGED <<window, context>>
    /\ UNCHANGED <<streamVars, stateVars, rows, window_failures, restarts, history>>

\* Mutant of ReadWindow: a partial window is never read, forced or not.
ReadWindowFull ==
    /\ pc = "loop"
    /\ seq < total
    /\ Cardinality(Slice(seq, WindowMessages)) = WindowMessages
    /\ window' = Slice(seq, WindowMessages) /\ context' = {}
    /\ pc' = "llm"
    /\ UNCHANGED <<force, seq, total, run_counted, active>>
    /\ UNCHANGED <<streamVars, stateVars, rows, window_failures, restarts, history>>

\* A window is curated when it is full, forced, or old enough (_idle_due).
ReadWindow ==
    /\ pc = "loop"
    /\ seq < total
    /\ window' = Slice(seq, WindowMessages)
    /\ context' = IF seq = 0 THEN {}
                  ELSE Slice(IF seq > ContextMessages THEN seq - ContextMessages ELSE 0,
                             IF seq > ContextMessages THEN ContextMessages ELSE seq)
    /\ pc' = "llm"
    /\ UNCHANGED <<force, seq, total, run_counted, active>>
    /\ UNCHANGED <<streamVars, stateVars, rows, window_failures, restarts, history>>

\* The loop ends, or a partial window is left for later.
EndRun ==
    /\ pc = "loop"
    /\ \/ seq >= total
       \/ /\ Cardinality(Slice(seq, WindowMessages)) < WindowMessages
          /\ ~force
    /\ StopRun
    /\ UNCHANGED <<streamVars, stateVars, rows, window_failures, restarts, history>>

RequestIsValid == (context \cup window) \cap Oversize = {}

\* CurateRequest is built outside the try of _curate_window and the except
\* clauses of run_session name no ValidationError: the run dies.
RequestRefused ==
    /\ pc = "llm"
    /\ ~RequestIsValid
    /\ StopRun
    /\ UNCHANGED <<streamVars, stateVars, rows, window_failures, restarts, history>>

Count(h, ms) == [m \in Message |-> IF m \in ms THEN h[m] + 1 ELSE h[m]]

\* Mutant of WindowEnd: a partial window counts as a full one.
WindowEndFull == seq + WindowMessages

WindowEnd == seq + Cardinality(window)

\* Mutant of ActiveAfter: the rows the window retired stay in the run's copy.
ActiveAfterKeeping(writes) == active \cup {Len(rows) + k : k \in DOMAIN writes}

ActiveAfter(writes) ==
    (active \ UNION {Targets(writes[k]) : k \in DOMAIN writes})
      \cup {Len(rows) + k : k \in DOMAIN writes}

CurateWindow(writes) ==
    /\ pc = "llm"
    /\ RequestIsValid
    /\ ApplyCuratorWindow(writes, WindowEnd, NoError)
    /\ run_counted' = TRUE
    /\ window_failures' = [window_failures EXCEPT ![seq] = 0]
    /\ active' = ActiveAfter(writes)
    /\ seq' = WindowEnd
    /\ pc' = "loop" /\ window' = {} /\ context' = {}
    /\ curated' = Count(curated, window)
    /\ UNCHANGED <<force, total, streamVars, restarts, skipped, failed>>

\* Mutant of Attempt: off by one.
AttemptOneMore == window_failures[seq] + 2

Attempt == window_failures[seq] + 1

\* _register_window_failure: the window is retried by a later run ...
FailWindow(error) ==
    /\ pc = "llm"
    /\ RequestIsValid
    /\ Attempt < SkipAfterFailures
    /\ window_failures' = [window_failures EXCEPT ![seq] = Attempt]
    /\ BumpCuratorState(error)
    /\ StopRun
    /\ failed' = Count(failed, window)
    /\ UNCHANGED <<streamVars, restarts, curated, skipped>>

\* ... until it is skipped: the watermark passes it with no writes.
SkipWindow(error) ==
    /\ pc = "llm"
    /\ RequestIsValid
    /\ Attempt >= SkipAfterFailures
    /\ window_failures' = [window_failures EXCEPT ![seq] = 0]
    /\ ApplyCuratorWindow(<<>>, WindowEnd, error)
    /\ StopRun
    /\ failed' = Count(failed, window)
    /\ skipped' = Count(skipped, window)
    /\ UNCHANGED <<streamVars, restarts, curated>>

\* The process dies, or the host builds a new Curator: only the store survives.
Restart ==
    /\ restarts < MaxRestarts
    /\ restarts' = restarts + 1
    /\ window_failures' = [s \in 0..MaxMessages |-> 0]
    /\ StopRun
    /\ UNCHANGED <<streamVars, stateVars, rows, history>>

-----------------------------------------------------------------------------
Init ==
    /\ clock = 0 /\ stored = {}
    /\ last_message_seq = 0 /\ last_error_code = NoError
    /\ rows = <<>>
    /\ pc = "idle" /\ force = FALSE /\ seq = 0 /\ total = 0 /\ run_counted = FALSE
    /\ window = {} /\ context = {} /\ active = {}
    /\ window_failures = [s \in 0..MaxMessages |-> 0]
    /\ restarts = 0
    /\ curated = [m \in Message |-> 0]
    /\ skipped = [m \in Message |-> 0]
    /\ failed = [m \in Message |-> 0]

CurateStep ==
    \/ RequestRefused
    \/ \E writes \in WindowWrites : CurateWindow(writes)
    \/ \E error \in Errors : FailWindow(error) \/ SkipWindow(error)

Next ==
    \/ Construct
    \/ \E m \in Message : CommitMessage(m)
    \/ \E f \in Forces : StartRun(f)
    \/ ReadWindow
    \/ EndRun
    \/ CurateStep
    \/ Restart

Spec == Init /\ [][Next]_vars

\* The host calls run_session again while messages wait, a run that is called
\* goes on, and an LLM call returns or times out. Strong for ReadWindow: a part
\* of a window is read only when the run is forced or its oldest message is old
\* enough (_idle_due), which sooner or later it is.
Fairness ==
    /\ WF_vars(\E f \in Forces : StartRun(f))
    /\ SF_vars(ReadWindow)
    /\ WF_vars(EndRun)
    /\ WF_vars(CurateStep)

FairSpec == Spec /\ Fairness

-----------------------------------------------------------------------------
(* Properties.                                                             *)

\* The request of a window never carries an active list that was cut: there is
\* room for one row per topic of each kind class.
EveryTopicPrompted == 2 * Cardinality(Topics) <= MaxActive

\* Messages are committed in the order of their created_at.
SequentialIngest == MaxInFlight = 1

\* Types of the store, of the run and of the history.
TypeOK ==
    /\ clock \in 0..MaxMessages /\ stored \subseteq 1..clock
    /\ last_message_seq \in 0..MaxMessages
    /\ last_error_code \in Errors \cup {NoError}
    /\ rows \in Seq(Row)
    /\ pc \in {"idle", "loop", "llm"}
    /\ force \in BOOLEAN /\ run_counted \in BOOLEAN
    /\ seq \in 0..MaxMessages /\ total \in 0..MaxMessages
    /\ window \subseteq stored /\ context \subseteq stored
    /\ active \subseteq DOMAIN rows
    /\ window_failures \in [0..MaxMessages -> 0..(SkipAfterFailures - 1)]
    /\ restarts \in 0..MaxRestarts
    /\ curated \in [Message -> Nat] /\ skipped \in [Message -> Nat]
    /\ failed \in [Message -> Nat]

\* The watermark is a position of the stream, a run works at the watermark, and
\* a window under curation is a non-empty part of what lies after it.
WatermarkInStream ==
    /\ last_message_seq <= Cardinality(stored)
    /\ pc # "idle" => seq = last_message_seq /\ total <= Cardinality(stored)
    /\ pc = "llm" => /\ window # {}
                     /\ seq + Cardinality(window) <= Cardinality(stored)
                     /\ Cardinality(context) <= seq

\* While a run is on, its own copy of the active rows and of the watermark are
\* the store's: run_session loads them once and maintains them by hand
\* through every window it commits.
RunAgreesWithStore ==
    pc # "idle" => active = ActiveRows /\ seq = last_message_seq

\* Consolidation keeps at most one active row per topic and kind class.
UniqueActive ==
    \A i, j \in ActiveRows : SameTopic(rows[i], rows[j]) => i = j

\* "The newest version per topic_key stays active": some active row of the
\* topic is at least as new as every row the topic ever had.
NewestStaysActive ==
    \A i \in DOMAIN rows :
        \E j \in ActiveRows : /\ SameTopic(rows[i], rows[j])
                              /\ rows[i].version <= rows[j].version

\* The supersede links are a history: a row is retired exactly when it is linked
\* to a later row of its own topic that is at least as new, and the row a link
\* names as superseded is retired and points forward no further than the row
\* that names it.
SupersedeHistory ==
    \A i \in DOMAIN rows :
        /\ (rows[i].status = "superseded") <=> (rows[i].superseded_by_id # NoRow)
        /\ rows[i].status = "superseded" =>
             LET j == rows[i].superseded_by_id
             IN  /\ j \in (i + 1)..Len(rows)
                 /\ SameTopic(rows[i], rows[j])
                 /\ rows[i].version <= rows[j].version
        /\ rows[i].supersedes_id # NoRow =>
             LET k == rows[i].supersedes_id
             IN  k \in 1..(i - 1) /\ rows[k].superseded_by_id = i

\* Every message before the watermark went through exactly one window that was
\* committed or skipped, and no message after it did: no message is lost or
\* curated twice, whatever the restarts.
ConsumedExactlyOnce ==
    \A m \in stored :
        curated[m] + skipped[m] = IF Position(m) <= last_message_seq THEN 1 ELSE 0

\* A window is given up only after SkipAfterFailures failed attempts at its
\* oldest message; a count of failures at another position, or before a
\* success, does not add to it.
SkipFollowsFailures ==
    [][ \A m \in Message :
          (skipped'[m] > skipped[m] /\ \A x \in window : m <= x)
             => failed'[m] >= SkipAfterFailures ]_vars

\* No message waits for ever: each is curated, or given up after the failures.
EveryMessageConsumed ==
    \A m \in Message : (m \in stored) ~> (curated[m] + skipped[m] > 0)

\* The current memory of a topic: its active row.
CurrentMemory(t, l) ==
    LET at == {i \in ActiveRows : rows[i].topic_key = t /\ rows[i].lesson = l}
    IN  IF at = {} THEN [statement |-> "unknown"]
        ELSE LET i == CHOOSE i \in at : TRUE
             IN  [statement |-> rows[i].statement, version |-> rows[i].version]

Ledger == INSTANCE CuratedLedger WITH
    arrived  <- Cardinality(stored),
    consumed <- last_message_seq,
    current  <- [k \in Topics \X BOOLEAN |-> CurrentMemory(k[1], k[2])]

\* Implementation: run by run, window by window, with failures, skips and
\* restarts, the session curator behaves as the ledger.
ImplementsLedger == Ledger!Spec

=============================================================================
