------------------------------ MODULE CurateGraph ------------------------------
(***************************************************************************)
(* One curate request: the repair loop of src/memoryos_lite/curator/       *)
(* graph.py (extract -> check -> repair | consolidate) around the retrying *)
(* LLM client of curator/llm.py.  Every provider attempt is one action;    *)
(* the provider answers with any reply built from the bounded items below, *)
(* drops the connection, times out or refuses.                             *)
(***************************************************************************)
EXTENDS Curate

CONSTANTS
    Requests,        \* the requests a caller may send
    RETRIES,         \* provider retries after a dropped connection, 429 or 5xx
    ReplyBound       \* bound, by profile: the topic keys and memory kinds of a
                     \* reply, the length of each part, the sources of a proposal

ASSUME GraphAssumption ==
    /\ RETRIES \in Nat
    /\ \A req \in Requests :
          /\ req.profile \in Profiles /\ req.max_repairs \in Nat
          /\ req.context \subseteq Activity /\ req.window \subseteq Activity
          /\ req.context \cap req.window = {} /\ req.window # {}
          /\ SentMemories(req.active)
          /\ ReplyBound[req.profile].topics \subseteq Topics

VARIABLES
    request,    \* CurateState.request
    step,       \* the node about to run, or how the request ended
    reply,      \* CurateState.reply; json is FALSE for REPLY_NOT_JSON
    llm_calls,  \* CurateState.llm_calls
    check,      \* CurateState.check
    attempts,   \* outcomes of the provider attempts (record_attempts)
    retries,    \* attempt index of the _invoke under way
    response    \* CurateState.response

vars == <<request, step, reply, llm_calls, check, attempts, retries, response>>

-------------------------------------------------------------------------------
\* Replies: one unusable entry stands for all of a part's unusable entries.

LessonItems(bound) ==
    [topic_key: bound.topics, statement: Statements]
    \cup {[topic_key |-> NoTopic, statement |-> NoStatement]}

AssignmentItems(bound) ==
    [activity_id: Activity \cup {NoActivity}, target: bound.topics \cup {Dismiss, NoTarget},
     grounded: {TRUE}]
    \cup [activity_id: Activity, target: bound.topics, grounded: {FALSE}]

MemoryItems(req, bound) ==
    [kind: bound.kinds, topic_key: bound.topics, statement: Statements,
     sources: SeqOf(Activity \cup {NoActivity}, bound.quotes),
     resolves: {{}} \cup {{m} : m \in IF req.profile = "collab" THEN req.active ELSE {}}]
    \cup [kind: bound.kinds, topic_key: {NoTopic}, statement: {NoStatement}, sources: {<<>>},
          resolves: {{}}]

ConflictItems(req, bound) ==
    LET sides == req.active \cup bound.topics IN
    [a: sides, b: sides, grounded: {TRUE}]
    \cup [a: bound.topics, b: req.active, grounded: {FALSE}]

Replies(req) ==
    LET bound == ReplyBound[req.profile] IN
    [json: {TRUE}, lessons: SeqOf(LessonItems(bound), bound.lessons),
     assignments: SeqOf(AssignmentItems(bound), bound.assignments),
     memories: SeqOf(MemoryItems(req, bound), bound.memories),
     conflicts: SeqOf(ConflictItems(req, bound), bound.conflicts)]
    \cup {NoReply}

NoResponse == [memories |-> {}, assignments |-> {}, unaccounted |-> {}, conflicts |-> {}]

-------------------------------------------------------------------------------
Asking == step \in {"extract", "repair"}

\* The attempt returns text: a JSON object or not (CuratorSchemaError).
Answer(r) ==
    /\ attempts' = Append(attempts, "ok")
    /\ retries' = 0
    /\ reply' = r
    /\ llm_calls' = llm_calls + 1
    /\ step' = "check"
    /\ UNCHANGED <<request, check, response>>

\* Mutant of Retry: a retried attempt is not recorded.
RetryUnrecorded ==
    /\ Asking
    /\ retries < RETRIES
    /\ retries' = retries + 1
    /\ UNCHANGED <<request, step, reply, llm_calls, check, response, attempts>>

\* A dropped connection, 429 or 5xx is tried again after the backoff.
Retry ==
    /\ Asking
    /\ retries < RETRIES
    /\ attempts' = Append(attempts, "error")
    /\ retries' = retries + 1
    /\ UNCHANGED <<request, step, reply, llm_calls, check, response>>

\* CuratorLLMError leaves the graph: a timeout, a refusal, or retries exhausted.
Fail(outcome) ==
    /\ Asking
    /\ attempts' = Append(attempts, outcome)
    /\ step' = "failed"
    /\ UNCHANGED <<request, reply, llm_calls, check, retries, response>>

Route(result) ==
    IF result.violations # {} /\ llm_calls - 1 < request.max_repairs
      THEN "repair" ELSE "consolidate"

\* The repair prompt carries the reply and its violations to the LLM, whose
\* next reply is any, so neither is kept past the route.
Check ==
    /\ step = "check"
    /\ LET result == CheckReply(request, reply) IN
       /\ step' = Route(result)
       /\ check' = IF Route(result) = "repair" THEN CheckNothing(request) ELSE result
    /\ reply' = NoReply
    /\ UNCHANGED <<request, llm_calls, attempts, retries, response>>

Finish ==
    /\ step = "consolidate"
    /\ response' = Consolidate(request, check)
    /\ step' = "done"
    /\ UNCHANGED <<request, reply, llm_calls, check, attempts, retries>>

\* The request is over; any other state without a step is a deadlock.
Ended ==
    /\ step \in {"done", "failed"}
    /\ UNCHANGED vars

Init ==
    /\ request \in Requests
    /\ step = "extract"
    /\ reply = NoReply
    /\ llm_calls = 0
    /\ check = CheckNothing(request)
    /\ attempts = <<>>
    /\ retries = 0
    /\ response = NoResponse

Next ==
    \/ Asking /\ \E r \in Replies(request) : Answer(r)
    \/ Retry
    \/ \E outcome \in {"timeout", "error"} : Fail(outcome)
    \/ Check
    \/ Finish
    \/ Ended

Spec == Init /\ [][Next]_vars

-------------------------------------------------------------------------------
Steps == {"extract", "repair", "check", "consolidate", "done", "failed"}

\* Types and bounds: the calls stay within the repairs, the retries of one call
\* within RETRIES, and violations are names of rules.
TypeOK ==
    /\ request \in Requests
    /\ step \in Steps
    /\ llm_calls \in 0..(request.max_repairs + 1)
    /\ Asking => llm_calls <= request.max_repairs
    /\ attempts \in Seq({"ok", "timeout", "error"})
    /\ retries \in 0..RETRIES
    /\ check.unaccounted \subseteq Failures(request)

\* Closed-world accounting: in every answer each failure of the window has
\* exactly one assignment or is listed as unaccounted, and nothing else is.
AccountedOnce ==
    step = "done" =>
        \A f \in Activity :
            LET mine == {a \in response.assignments : a.activity_id = f} IN
            IF f \in Failures(request)
              THEN Cardinality(mine) = IF f \in response.unaccounted THEN 0 ELSE 1
              ELSE mine = {} /\ f \notin response.unaccounted

NewVersions == {v.memory : v \in response.memories}

PriorOccurrences(v) == IF v.supersedes = {} THEN 0 ELSE (CHOOSE m \in v.supersedes : TRUE).occurrences

PriorCites(v) == UNION {ToSet(m.sources) : m \in v.supersedes}

\* Under the module profile a lesson version grows by the failures assigned to
\* its topic key that its prior version does not cite, at least one of them.
LessonsCountFailures ==
    step = "done" /\ request.profile = "module" =>
        \A v \in response.memories :
            v.memory.kind = "lesson" =>
                LET assigned == {a.activity_id : a \in {a \in response.assignments :
                                                          a.lesson = v.memory.topic_key}}
                    new == assigned \ PriorCites(v)
                IN  new # {} /\ v.memory.occurrences = PriorOccurrences(v) + Cardinality(new)

IsLesson(m) == m.kind = "lesson"

SameRow(m, n) == m.topic_key = n.topic_key /\ IsLesson(m) = IsLesson(n)

\* What the hosts rely on: one new version for a topic key and kind of row; it
\* supersedes a newest active one when there is one, never a newer one, and a
\* version other than a lesson restates nothing.
VersionsAdmissible ==
    step = "done" =>
        /\ \A m, n \in NewVersions : SameRow(m, n) => m = n
        /\ \A v \in response.memories :
              LET priors == {m \in request.active : SameRow(m, v.memory)} IN
              /\ v.supersedes \subseteq priors
              /\ priors # {} => v.supersedes # {}
              /\ \A m \in v.supersedes, n \in priors : n.version <= m.version
              /\ \A m \in priors : m.version <= v.memory.version
              /\ \A m \in v.supersedes :
                    ~IsLesson(m) => m.statement # v.memory.statement

\* Every new version is grounded: what it cites beyond its prior version is in
\* the request, and its version is the newest seq among them or the prior's.
VersionsGrounded ==
    step = "done" =>
        \A v \in response.memories :
            LET cites == ToSet(v.memory.sources)
                fresh == cites \ PriorCites(v)
            IN  /\ fresh \subseteq Known(request)
                /\ \A a \in fresh : SeqNo[a] <= v.memory.version
                /\ v.memory.version \in
                     {SeqNo[a] : a \in Known(request)} \cup {m.version : m \in v.supersedes}

\* What a host may rely on when it stores the new versions of an answer
\* (consolidate): they are admissible, grounded, and count each failure once.
VersionsSound == VersionsAdmissible /\ VersionsGrounded /\ LessonsCountFailures

\* A reported conflict names two different memories that the caller will hold,
\* one of them active already: MemoryOS never reports two new ones.
ConflictsNameMemories ==
    step = "done" =>
        \A pair \in response.conflicts :
            /\ Cardinality(pair) = 2
            /\ pair \subseteq request.active \cup NewVersions
            /\ pair \cap request.active # {}

Count(outcome) == Cardinality({i \in DOMAIN attempts : attempts[i] = outcome})

CallsRecorded ==
    /\ Count("ok") = llm_calls
    /\ \A i \in DOMAIN attempts :
          attempts[i] = "timeout" => i = Len(attempts) /\ step = "failed"
    /\ step # "failed" =>
          retries <= Count("error") /\ Count("error") <= RETRIES * llm_calls + retries

\* A request is answered or given up within the repairs its caller allows, and
\* no attempt at it is hidden: there is one "ok" attempt for each LLM call, a
\* timeout is the last attempt and ends the request, every retry of the call
\* under way is listed, and a call that is answered cost at most RETRIES errors
\* (build_graph, RetryingLLM).
AttemptsTellAll ==
    /\ llm_calls <= request.max_repairs + 1
    /\ CallsRecorded
===============================================================================
