------------------------------- MODULE CurateHost -------------------------------
(***************************************************************************)
(* A host of the curate graph under the module profile: it keeps the       *)
(* memories, sends its activities window by window with what is active,    *)
(* stores the new versions and moves its position.  curate_module of       *)
(* modulemem.py is one, which ends a window at a failure.  A host of POST  *)
(* /curate may crash between storing and moving (or lose the answer): it   *)
(* then sends the window again, longer if more has come in meanwhile, with *)
(* whatever the LLM replies then.  A reply carries lessons and assignments: *)
(* only lessons accumulate.                                                *)
(***************************************************************************)
EXTENDS Curate

CONSTANTS
    WindowSize,      \* activities sent at a time, at most
    MaxLessons,      \* bound: entries of "lessons"
    MaxAssignments   \* bound: entries of "assignments"

\* Activities are numbered in the host's order.
ASSUME HostAssumption ==
    /\ IsFiniteSet(Activity) /\ Activity = 1..Cardinality(Activity)
    /\ SeqNo = [a \in Activity |-> a]
    /\ WindowSize \in Nat \ {0}

\* CurateMemory: what the host comes to hold.
Lesson ==
    [kind: {"lesson"}, topic_key: Topics, statement: Statements, version: Nat,
     occurrences: Nat, sources: Seq(Activity), resolves: {{}}]

\* An id is neither a topic key nor none.
ASSUME MemoryAssumption == \A x \in Topics \cup {NoMemory} : x \notin Lesson

VARIABLES
    store,         \* the active memories the host keeps
    position,      \* the last activity the host is done with
    sent,          \* the end of the window that was stored last
    stored_reply,  \* the reply behind the versions stored for it, or NoReply
    assigned       \* history: the failures stored as assigned to each lesson

hostVars == <<store, position, sent, stored_reply, assigned>>

-------------------------------------------------------------------------------
Window(end) == {a \in Activity : position < a /\ a <= end}

\* Where a host may end a window; one that was stored is not cut.
Ends ==
    {e \in Activity : position < e /\ e <= position + WindowSize /\ sent <= e}

\* The request as the host sends it now.
HostRequest(end) ==
    [profile |-> "module", active |-> store,
     context |-> {a \in Activity : a = position}, window |-> Window(end)]

HostReplies(end) ==
    [json: {TRUE}, lessons: SeqOf([topic_key: Topics, statement: Statements], MaxLessons),
     assignments: SeqOf([activity_id: Window(end), target: Topics \cup {Dismiss}, grounded: {TRUE}],
                        MaxAssignments),
     memories: {<<>>}, conflicts: {<<>>}]
    \cup {NoReply}

Response(request, r) == Consolidate(request, CheckReply(request, r))

\* "memories are the new versions to store; supersedes_id names the active
\* memory each one replaces."
Stored(response) ==
    (store \ UNION {v.supersedes : v \in response.memories})
    \cup {v.memory : v \in response.memories}

CurateWindow(end, r) ==
    /\ LET response == Response(HostRequest(end), r) IN
       /\ store' = Stored(response)
       /\ assigned' = [t \in Topics |-> assigned[t] \cup
             {a.activity_id : a \in {a \in response.assignments : a.lesson = t}}]
    /\ sent' = end
    /\ stored_reply' = r
    /\ UNCHANGED position

Advance ==
    /\ sent > position
    /\ position' = sent
    /\ stored_reply' = NoReply
    /\ UNCHANGED <<store, sent, assigned>>

HostInit ==
    /\ store = {}
    /\ position = 0
    /\ sent = 0
    /\ stored_reply = NoReply
    /\ assigned = [t \in Topics |-> {}]

HostNext ==
    \/ \E end \in Ends : \E r \in HostReplies(end) : CurateWindow(end, r)
    \/ Advance

HostSpec == HostInit /\ [][HostNext]_hostVars

-------------------------------------------------------------------------------
\* A lesson keeps its last MaxLessonSources sources, and only what it still cites
\* is known to be counted: no window may hold more failures.  Those of
\* curate_module end with their first failure.
FewFailures ==
    \A p \in 0..Cardinality(Activity) :
        Cardinality({f \in Failure : p < f /\ f <= p + WindowSize}) <= MaxLessonSources

\* "occurrences is the number of failures assigned to it": whatever is sent
\* again and however it is answered then, the host holds one lesson on a topic
\* key with assigned failures, none on another, it counts each of them once,
\* and it is not older than any of them (consolidate).
EachFailureCountedOnce ==
    \A t \in Topics :
        LET held == {m \in store : m.topic_key = t}
        IN  IF assigned[t] = {}
              THEN held = {}
              ELSE \E m \in held :
                      /\ held = {m}
                      /\ m.occurrences = Cardinality(assigned[t])
                      /\ \A f \in assigned[t] : SeqNo[f] <= m.version

\* "A retried request is safe": the window sent again with what it stored, and
\* answered as before, brings no new version.
ReplayIsNoop ==
    sent > position => Response(HostRequest(sent), stored_reply).memories = {}
===============================================================================
