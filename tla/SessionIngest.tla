---------------------------- MODULE SessionIngest -----------------------------
(***************************************************************************)
(* SessionMemoryService.ingest for one session: the message and its recall *)
(* episode are committed in two transactions, callers that share an        *)
(* idempotency key (external_id) race for the first, and a call may die    *)
(* between any two statements and is then sent again.  A SELECT opens no   *)
(* transaction in SQLite's driver: each sees what is committed at that     *)
(* moment.                                                                 *)
(***************************************************************************)
EXTENDS Integers, FiniteSets, Sequences

CONSTANTS
    Callers,      \* threads that call ingest, each with one request
    Keys,         \* external ids
    NoKey,        \* external_id is None
    Bodies,       \* role, content and metadata of a message
    MaxDeaths     \* bound: calls that die

ASSUME CallersAssumption ==
    /\ IsFiniteSet(Callers) /\ NoKey \notin Keys /\ MaxDeaths \in Nat

VARIABLES
    messages,     \* table messages, in the order of commit; ids are places
    episodes,     \* table episodes: [message, position, by], by standing for the
                  \* random id: a call adds at most one row for a message
    request,      \* the request of each caller
    pc,           \* the caller's next statement
    existing,     \* message the call found under its key, 0 for none
    replayed,     \* whether the call met the message of another call
    listed,       \* ensure_episodes_for_session: the messages it read
    indexed,      \* ... those that had an episode
    position,     \* ... the greatest position
    answers,      \* history: the responses given
    begun,        \* history: messages stored when the call began
    raced,        \* history: two calls were under way at once
    deaths        \* calls that died, at most MaxDeaths

locals == <<existing, replayed, listed, indexed, position>>
vars == <<messages, episodes, request, pc, locals, answers, begun, raced, deaths>>

Request == [key: Keys \cup {NoKey}, body: Bodies]
Indexed == {e.message : e \in episodes}
UnderKey(k) == {i \in DOMAIN messages : messages[i].key = k /\ k # NoKey}
Under(k) == IF UnderKey(k) = {} THEN 0 ELSE CHOOSE i \in UnderKey(k) : TRUE
Greatest(s) == IF s = {} THEN 0 ELSE CHOOSE n \in s : \A x \in s : x <= n
UnderWay == {c \in Callers : pc[c] \notin {"idle", "done"}}
Goto(c, label) == pc' = [pc EXCEPT ![c] = label]

-------------------------------------------------------------------------------
\* The caller sends its request, again if an earlier call died.
Begin(c) ==
    /\ pc[c] = "idle"
    /\ Goto(c, IF request[c].key = NoKey THEN "add" ELSE "find")
    /\ begun' = [begun EXCEPT ![c] = Len(messages)]
    /\ raced' = (raced \/ UnderWay # {})
    /\ UNCHANGED <<messages, episodes, request, locals, answers, deaths>>

\* Mutant of Replay: a replay returns without a look at the index.
ReplayAtOnce(c, i, none) ==
    /\ existing' = [existing EXCEPT ![c] = i]
    /\ replayed' = [replayed EXCEPT ![c] = i # 0]
    /\ Goto(c, IF i = 0 THEN none ELSE IF messages[i].body = request[c].body
                                      THEN "respond" ELSE "conflict")

\* A stored message of the same key: a replay if the bodies agree, else a
\* conflict.  Without one the call goes on at none.
Replay(c, i, none) ==
    /\ existing' = [existing EXCEPT ![c] = i]
    /\ replayed' = [replayed EXCEPT ![c] = i # 0]
    /\ Goto(c, IF i = 0 THEN none ELSE IF messages[i].body = request[c].body
                                      THEN "list" ELSE "conflict")

\* get_message_by_external_id, before the message is written.
Find(c) ==
    /\ pc[c] = "find"
    /\ Replay(c, Under(request[c].key), "add")
    /\ UNCHANGED <<messages, episodes, request, listed, indexed, position, answers, begun,
                   raced, deaths>>

\* Mutant of Collides: the index has no unique constraint.
CollidesNever(k) == FALSE

\* Mutant of Collides: messages without a key collide like the others.
CollidesOnNull(k) == \E i \in DOMAIN messages : messages[i].key = k

\* The unique index (session_id, external_id); NULLs never collide.
Collides(k) == UnderKey(k) # {}

\* add_message commits, or its INSERT raises IntegrityError.
Add(c) ==
    /\ pc[c] = "add"
    /\ IF Collides(request[c].key)
         THEN /\ Goto(c, "refind")
              /\ UNCHANGED <<messages, existing>>
         ELSE /\ messages' = Append(messages, request[c])
              /\ existing' = [existing EXCEPT ![c] = Len(messages) + 1]
              /\ Goto(c, "list")
    /\ UNCHANGED <<episodes, request, replayed, listed, indexed, position, answers, begun,
                   raced, deaths>>

\* The winner of the race is read again; without one the call would raise the
\* database's IntegrityError.
Refind(c) ==
    /\ pc[c] = "refind"
    /\ Replay(c, Under(request[c].key), "integrity_error")
    /\ UNCHANGED <<messages, episodes, request, listed, indexed, position, answers, begun,
                   raced, deaths>>

-------------------------------------------------------------------------------
\* ensure_episodes_for_session: three SELECTs, then one transaction.
ListMessages(c) ==
    /\ pc[c] = "list"
    /\ listed' = [listed EXCEPT ![c] = DOMAIN messages]
    /\ Goto(c, "list_indexed")
    /\ UNCHANGED <<messages, episodes, request, existing, replayed, indexed, position, answers,
                   begun, raced, deaths>>

ListIndexed(c) ==
    /\ pc[c] = "list_indexed"
    /\ indexed' = [indexed EXCEPT ![c] = Indexed]
    /\ Goto(c, "max_position")
    /\ UNCHANGED <<messages, episodes, request, existing, replayed, listed, position, answers,
                   begun, raced, deaths>>

MaxPosition(c) ==
    /\ pc[c] = "max_position"
    /\ position' = [position EXCEPT ![c] = Greatest({e.position : e \in episodes})]
    /\ Goto(c, "index")
    /\ UNCHANGED <<messages, episodes, request, existing, replayed, listed, indexed, answers,
                   begun, raced, deaths>>

\* Mutant of NewEpisodes: positions are counted from the messages it adds.
NewEpisodesFromOne(c) ==
    LET lacking == listed[c] \ indexed[c]
        rank(m) == Cardinality({x \in lacking : x <= m})
    IN  {[message |-> m, position |-> rank(m), by |-> c] : m \in lacking}

\* Episodes for the listed messages without one, in the messages' order.
NewEpisodes(c) ==
    LET lacking == listed[c] \ indexed[c]
        rank(m) == Cardinality({x \in lacking : x <= m})
    IN  {[message |-> m, position |-> position[c] + rank(m), by |-> c] : m \in lacking}

IndexEpisodes(c) ==
    /\ pc[c] = "index"
    /\ episodes' = episodes \cup NewEpisodes(c)
    /\ Goto(c, "respond")
    /\ UNCHANGED <<messages, request, locals, answers, begun, raced, deaths>>

-------------------------------------------------------------------------------
Answer(c, outcome) ==
    /\ answers' = answers \cup
          {[caller |-> c, key |-> request[c].key, body |-> request[c].body, outcome |-> outcome,
            message |-> existing[c], begun |-> begun[c]]}
    /\ Goto(c, "done")
    /\ UNCHANGED <<messages, episodes, request, locals, begun, raced, deaths>>

\* The IngestResponse, or the error the call ends with.
Respond(c) ==
    \/ pc[c] = "respond" /\ Answer(c, IF replayed[c] THEN "replayed" ELSE "stored")
    \/ pc[c] = "conflict" /\ Answer(c, "conflict")

\* The call dies with its process or by an error of the database; what it has
\* committed stays, and the caller has no answer.
Die(c) ==
    /\ c \in UnderWay
    /\ deaths < MaxDeaths
    /\ deaths' = deaths + 1
    /\ Goto(c, "idle")
    /\ existing' = [existing EXCEPT ![c] = 0]
    /\ replayed' = [replayed EXCEPT ![c] = FALSE]
    /\ listed' = [listed EXCEPT ![c] = {}]
    /\ indexed' = [indexed EXCEPT ![c] = {}]
    /\ position' = [position EXCEPT ![c] = 0]
    /\ UNCHANGED <<messages, episodes, request, answers, begun, raced>>

Init ==
    /\ messages = <<>> /\ episodes = {}
    /\ request \in [Callers -> Request]
    /\ pc = [c \in Callers |-> "idle"]
    /\ existing = [c \in Callers |-> 0]
    /\ replayed = [c \in Callers |-> FALSE]
    /\ listed = [c \in Callers |-> {}]
    /\ indexed = [c \in Callers |-> {}]
    /\ position = [c \in Callers |-> 0]
    /\ answers = {}
    /\ begun = [c \in Callers |-> 0]
    /\ raced = FALSE
    /\ deaths = 0

\* The statements of one call.
Statement(c) ==
    \/ Find(c) \/ Add(c) \/ Refind(c)
    \/ ListMessages(c) \/ ListIndexed(c) \/ MaxPosition(c) \/ IndexEpisodes(c)
    \/ Respond(c)

Next == \E c \in Callers : Begin(c) \/ Statement(c) \/ Die(c)

Spec == Init /\ [][Next]_vars

\* A statement under way ends, and a caller without an answer sends again.
Fairness == \A c \in Callers : WF_vars(Begin(c) \/ Statement(c))

FairSpec == Spec /\ Fairness

-------------------------------------------------------------------------------
\* The same replay and conflict contract for callers that race for a key, meet
\* it later, or send again after a death: all of them are answered with one
\* message, only one of them as its first writer, and a call is a conflict
\* exactly when its body is another than the stored one.
KeyBindsOneMessage ==
    \A a \in answers :
        /\ a.message # 0
        /\ (a.outcome = "conflict") = (messages[a.message].body # a.body)
        /\ \A b \in answers :
              (a.key = b.key /\ a.key # NoKey) =>
                  /\ a.message = b.message
                  /\ (a.outcome = "stored" /\ b.outcome = "stored") => a = b

\* "the next idempotent retry must repair the missing index": a call that is
\* answered leaves no message without an episode that was stored before it
\* began, its own included, whoever died between the two transactions.
AnsweredIsIndexed ==
    \A a \in answers :
        a.outcome # "conflict" => ({a.message} \cup 1..a.begun) \subseteq Indexed

\* When no two calls overlap, deaths and repairs leave one episode for each
\* indexed message, numbered in the messages' order without gaps.
UnracedIndexIsExact ==
    ~raced => /\ \A e, f \in episodes : e.message = f.message => e = f
              /\ \A e \in episodes : e.position = e.message /\ 1..e.message \subseteq Indexed

\* Every caller that keeps sending is answered: no call ends in the database's
\* IntegrityError.
EveryCallAnswered == \A c \in Callers : <>(pc[c] = "done")

\* No durable message stays outside recall for ever.
EveryMessageIndexed ==
    \A m \in 1..(Cardinality(Callers) + MaxDeaths) :
        (m \in DOMAIN messages) ~> (m \in Indexed)
===============================================================================
