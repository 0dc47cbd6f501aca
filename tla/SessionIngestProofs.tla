------------------------- MODULE SessionIngestProofs --------------------------
(***************************************************************************)
(* What ingest promises its callers, for any number of callers, keys,      *)
(* bodies and deaths: answered messages are in the recall index, and an    *)
(* idempotency key binds one message.                                      *)
(***************************************************************************)
EXTENDS SessionIngest, FiniteSetTheorems, TLAPS

Labels == {"idle", "find", "add", "refind", "integrity_error", "list", "list_indexed",
           "max_position", "index", "respond", "conflict", "done"}

\* The labels at which a call has its message, stored or found, unrefused.
Bound == {"list", "list_indexed", "max_position", "index", "respond"}

\* What the answer of c promises to be indexed.
Owed(c) == {existing[c]} \cup 1..begun[c]

Types ==
    /\ messages \in Seq(Request)
    /\ request \in [Callers -> Request]
    /\ pc \in [Callers -> Labels]
    /\ existing \in [Callers -> Nat]
    /\ replayed \in [Callers -> BOOLEAN]
    /\ listed \in [Callers -> SUBSET Nat]
    /\ indexed \in [Callers -> SUBSET Nat]
    /\ begun \in [Callers -> Nat]
    /\ Indexed \subseteq Nat
    /\ answers \subseteq [caller: Callers, key: Keys \cup {NoKey}, body: Bodies,
                          outcome: {"stored", "replayed", "conflict"}, message: Nat,
                          begun: Nat]

\* A call works on messages that are stored.
CallInv ==
    \A c \in Callers :
        /\ begun[c] <= Len(messages) /\ existing[c] <= Len(messages)
        /\ pc[c] \in Bound \cup {"conflict"} => existing[c] # 0
        /\ pc[c] \in {"idle", "find", "add", "refind"} => existing[c] = 0 /\ ~replayed[c]

\* Each statement of ensure_episodes_for_session brings the index nearer to what
\* the call owes.
Progress(c) ==
    /\ pc[c] \in {"list_indexed", "max_position", "index"} => Owed(c) \subseteq listed[c]
    /\ pc[c] \in {"max_position", "index"} => indexed[c] \subseteq Indexed
    /\ pc[c] = "respond" => Owed(c) \subseteq Indexed

IndexInv == (\A c \in Callers : Progress(c)) /\ AnsweredIsIndexed

\* What a call works on is a message of its key, of its body unless refused.
BoundTo(c) ==
    /\ existing[c] # 0 => messages[existing[c]].key = request[c].key
    /\ pc[c] \in Bound => messages[existing[c]].body = request[c].body
    /\ pc[c] = "conflict" => messages[existing[c]].body # request[c].body

\* The call stored its message itself.
Writer(c) == existing[c] # 0 /\ ~replayed[c]

\* One message for a key, and one call at most that wrote it.
KeyInv ==
    /\ \A i, j \in DOMAIN messages :
          (messages[i].key = messages[j].key /\ messages[i].key # NoKey) => i = j
    /\ \A c \in Callers : BoundTo(c)
    /\ \A c, d \in Callers :
          (Writer(c) /\ Writer(d) /\ request[c].key = request[d].key /\ request[c].key # NoKey)
              => c = d

\* An answer is what its call ended with.
Faithful(a) ==
    /\ pc[a.caller] = "done" /\ a.message = existing[a.caller] /\ a.message # 0
    /\ a.key = request[a.caller].key /\ a.body = request[a.caller].body
    /\ a.begun = begun[a.caller]
    /\ a.outcome = "stored" => ~replayed[a.caller]
    /\ (a.outcome = "conflict") = (messages[a.message].body # a.body)

AnswerInv == \A a \in answers : Faithful(a)

Inv == Types /\ CallInv /\ IndexInv /\ KeyInv /\ AnswerInv

-------------------------------------------------------------------------------
\* get_message_by_external_id finds a stored message of the key, or none.
LEMMA UnderFinds ==
  ASSUME NEW k
  PROVE  \/ Under(k) = 0 /\ UnderKey(k) = {}
         \/ /\ Under(k) \in DOMAIN messages
            /\ messages[Under(k)].key = k /\ k # NoKey
BY DEF Under, UnderKey

\* A commit of episodes indexes the listed messages that lacked one.
LEMMA IndexGrows ==
  ASSUME NEW c, episodes' = episodes \cup NewEpisodes(c)
  PROVE  Indexed' = Indexed \cup (listed[c] \ indexed[c])
<1> DEFINE lacking == listed[c] \ indexed[c]
           row(m) == [message |-> m,
                      position |-> position[c] + Cardinality({x \in lacking : x <= m}),
                      by |-> c]
<1>1. NewEpisodes(c) = {row(m) : m \in lacking}
  BY DEF NewEpisodes
<1>2. \A m : row(m).message = m
  OBVIOUS
<1> HIDE DEF row
<1>3. {e.message : e \in NewEpisodes(c)} = lacking
  BY <1>1, <1>2
<1>4. Indexed' = {e.message : e \in episodes'}
  BY DEF Indexed
<1>5. QED
  BY <1>3, <1>4 DEF Indexed

\* A call ends in one of three ways.
LEMMA Responses ==
  ASSUME NEW c, Respond(c)
  PROVE  \/ pc[c] = "respond" /\ replayed[c] /\ Answer(c, "replayed")
         \/ pc[c] = "respond" /\ ~replayed[c] /\ Answer(c, "stored")
         \/ pc[c] = "conflict" /\ Answer(c, "conflict")
<1>1. CASE pc[c] = "respond" /\ replayed[c]
  BY <1>1 DEF Respond
<1>2. CASE pc[c] = "respond" /\ ~replayed[c]
  BY <1>2 DEF Respond
<1>3. CASE pc[c] # "respond"
  BY <1>3 DEF Respond
<1> QED
  BY <1>1, <1>2, <1>3

\* The steps of the system, one by one.
LEMMA Steps ==
  ASSUME [Next]_vars
  PROVE  \/ UNCHANGED vars
         \/ \E c \in Callers :
               Begin(c) \/ Find(c) \/ Add(c) \/ Refind(c) \/ ListMessages(c) \/ ListIndexed(c)
               \/ MaxPosition(c) \/ IndexEpisodes(c) \/ Respond(c) \/ Die(c)
BY DEF Next, Statement

-------------------------------------------------------------------------------
\* Preservation of the invariant, conjunct by conjunct.

\* The variables stay well typed.
LEMMA TypesKept ==
  ASSUME Types, [Next]_vars
  PROVE  Types'
<1>0. episodes' = episodes => Indexed' = Indexed
  BY DEF Indexed
<1>1. CASE UNCHANGED vars
  BY <1>0, <1>1 DEF vars, locals, Types, Labels
<1>2. ASSUME NEW c \in Callers, Begin(c)
      PROVE  Types'
  <2>1. Len(messages) \in Nat
    BY DEF Types
  <2>2. pc' \in [Callers -> Labels] /\ begun' \in [Callers -> Nat]
    BY <1>0, <1>2, <2>1 DEF Begin, Goto, Types, Labels
  <2>3. UNCHANGED <<messages, episodes, request, locals, answers>>
    BY <1>0, <1>2 DEF Begin
  <2> QED
    BY <1>0, <2>2, <2>3 DEF locals, Types
<1>3. ASSUME NEW c \in Callers, Find(c)
      PROVE  Types'
  <2>1. Under(request[c].key) \in Nat
    <3>1. Under(request[c].key) = 0 \/ Under(request[c].key) \in DOMAIN messages
      BY UnderFinds
    <3>2. DOMAIN messages \in SUBSET Nat
      BY DEF Types
    <3> QED
      BY <3>1, <3>2
  <2> QED
    BY <1>0, <1>3, <2>1 DEF Find, Replay, Goto, Types, Labels
<1>4. ASSUME NEW c \in Callers, Add(c)
      PROVE  Types'
  <2>1. CASE UnderKey(request[c].key) # {}
    BY <1>0, <1>4, <2>1 DEF Add, Collides, Goto, Types, Labels
  <2>2. CASE UnderKey(request[c].key) = {}
    <3>1. Len(messages) + 1 \in Nat /\ Append(messages, request[c]) \in Seq(Request)
      BY DEF Types
    <3> QED
      BY <1>0, <1>4, <2>2, <3>1 DEF Add, Collides, Goto, Types, Labels
  <2> QED
    BY <2>1, <2>2
<1>5. ASSUME NEW c \in Callers, Refind(c)
      PROVE  Types'
  <2>1. Under(request[c].key) \in Nat
    <3>1. Under(request[c].key) = 0 \/ Under(request[c].key) \in DOMAIN messages
      BY UnderFinds
    <3>2. DOMAIN messages \in SUBSET Nat
      BY DEF Types
    <3> QED
      BY <3>1, <3>2
  <2> QED
    BY <1>0, <1>5, <2>1 DEF Refind, Replay, Goto, Types, Labels
<1>6. ASSUME NEW c \in Callers, ListMessages(c)
      PROVE  Types'
  <2>1. DOMAIN messages \in SUBSET Nat
    BY DEF Types
  <2> QED
    BY <1>0, <1>6, <2>1 DEF ListMessages, Goto, Types, Labels
<1>7. ASSUME NEW c \in Callers, ListIndexed(c)
      PROVE  Types'
  BY <1>0, <1>7 DEF ListIndexed, Goto, Types, Labels
<1>8. ASSUME NEW c \in Callers, MaxPosition(c)
      PROVE  Types'
  BY <1>0, <1>8 DEF MaxPosition, Goto, Types, Labels
<1>9. ASSUME NEW c \in Callers, IndexEpisodes(c)
      PROVE  Types'
  <2>1. Indexed' = Indexed \cup (listed[c] \ indexed[c])
    BY <1>0, <1>9, IndexGrows DEF IndexEpisodes
  <2>2. Indexed' \subseteq Nat
    BY <2>1 DEF Types
  <2>3. pc' \in [Callers -> Labels]
    BY <1>0, <1>9 DEF IndexEpisodes, Goto, Types, Labels
  <2>4. UNCHANGED <<messages, request, locals, answers, begun>>
    BY <1>0, <1>9 DEF IndexEpisodes
  <2> QED
    BY <2>2, <2>3, <2>4 DEF locals, Types
<1>10. ASSUME NEW c \in Callers, Respond(c)
      PROVE  Types'
  <2>1. ASSUME NEW outcome \in {"stored", "replayed", "conflict"}, Answer(c, outcome)
        PROVE  Types'
    <3> DEFINE answer == [caller |-> c, key |-> request[c].key, body |-> request[c].body,
                          outcome |-> outcome, message |-> existing[c], begun |-> begun[c]]
    <3>1. request[c] \in Request /\ existing[c] \in Nat /\ begun[c] \in Nat
      BY <1>0, <1>10 DEF Types
    <3>2. answer \in [caller: Callers, key: Keys \cup {NoKey}, body: Bodies,
                      outcome: {"stored", "replayed", "conflict"}, message: Nat, begun: Nat]
      BY <1>0, <1>10, <2>1, <3>1 DEF Request
    <3>3. answers' = answers \cup {answer}
      BY <2>1 DEF Answer
    <3>4. pc' \in [Callers -> Labels]
      BY <1>0, <1>10, <2>1 DEF Answer, Goto, Types, Labels
    <3>5. UNCHANGED <<messages, episodes, request, locals, begun>>
      BY <2>1 DEF Answer
    <3> HIDE DEF answer
    <3> QED
      BY <1>0, <3>2, <3>3, <3>4, <3>5 DEF locals, Types
  <2>2. Answer(c, "stored") \/ Answer(c, "replayed") \/ Answer(c, "conflict")
    BY <1>0, <1>10, Responses
  <2> QED
    BY <2>1, <2>2
<1>11. ASSUME NEW c \in Callers, Die(c)
      PROVE  Types'
  BY <1>0, <1>11 DEF Die, UnderWay, Goto, Types, Labels
<1>12. QED
  BY <1>1, <1>2, <1>3, <1>4, <1>5, <1>6, <1>7, <1>8, <1>9, <1>10, <1>11, Steps

\* The table of messages only grows.
LEMMA MessagesKept ==
  ASSUME Types, [Next]_vars
  PROVE  /\ Len(messages) \in Nat /\ DOMAIN messages = 1..Len(messages)
         /\ Len(messages') \in Nat /\ DOMAIN messages' = 1..Len(messages')
         /\ Len(messages) <= Len(messages')
         /\ \A i \in DOMAIN messages : messages'[i] = messages[i]
         /\ request' = request
<1>1. messages \in Seq(Request) /\ messages' \in Seq(Request)
  BY TypesKept DEF Types
<1>2. ASSUME NEW c \in Callers, Add(c), ~Collides(request[c].key)
      PROVE  messages' = Append(messages, request[c])
  BY <1>2 DEF Add
<1>3. \/ messages' = messages
      \/ \E c \in Callers : messages' = Append(messages, request[c])
  BY <1>2, Steps DEF vars, Begin, Find, Add, Refind, ListMessages, ListIndexed, MaxPosition,
                     IndexEpisodes, Respond, Answer, Die
<1>4. request' = request
  BY Steps DEF vars, Begin, Find, Add, Refind, ListMessages, ListIndexed, MaxPosition,
               IndexEpisodes, Respond, Answer, Die
<1>5. \A c \in Callers : request[c] \in Request
  BY DEF Types
<1>6. QED
  BY <1>1, <1>3, <1>4, <1>5

\* A call keeps working on stored messages.
LEMMA CallKept ==
  ASSUME Types, CallInv, [Next]_vars
  PROVE  CallInv'
<1>0. Types'
  BY TypesKept
<1>1. CASE UNCHANGED vars
  BY <1>1 DEF vars, locals, Types, CallInv, Bound
<1>2. ASSUME NEW c \in Callers, Begin(c)
      PROVE  CallInv'
  BY <1>0, <1>2 DEF Begin, Goto, locals, Types, CallInv, Bound
<1>3. ASSUME NEW c \in Callers, Find(c)
      PROVE  CallInv'
  <2>1. Under(request[c].key) = 0 \/ Under(request[c].key) \in 1..Len(messages)
    <3>1. Under(request[c].key) = 0 \/ Under(request[c].key) \in DOMAIN messages
      BY UnderFinds
    <3>2. DOMAIN messages = 1..Len(messages)
      BY DEF Types
    <3> QED
      BY <3>1, <3>2
  <2> QED
    BY <1>0, <1>3, <2>1 DEF Find, Replay, Goto, Types, CallInv, Bound
<1>4. ASSUME NEW c \in Callers, Add(c)
      PROVE  CallInv'
  <2>1. CASE Collides(request[c].key)
    BY <1>0, <1>4, <2>1 DEF Add, Goto, Types, CallInv, Bound
  <2>2. CASE ~Collides(request[c].key)
    <3>1. Len(messages) \in Nat /\ Len(messages') = Len(messages) + 1
      BY <1>0, <1>4, <2>2 DEF Add, Types
    <3>2. /\ existing'[c] = Len(messages) + 1 /\ pc'[c] = "list"
          /\ \A d \in Callers : d # c => existing'[d] = existing[d] /\ pc'[d] = pc[d]
          /\ begun' = begun /\ replayed' = replayed
      BY <1>0, <1>4, <2>2 DEF Add, Goto, Types
    <3>3. \A d \in Callers : begun[d] \in Nat /\ existing[d] \in Nat
      BY DEF Types
    <3> QED
      BY <3>1, <3>2, <3>3 DEF CallInv, Bound
  <2> QED
    BY <2>1, <2>2
<1>5. ASSUME NEW c \in Callers, Refind(c)
      PROVE  CallInv'
  <2>1. Under(request[c].key) = 0 \/ Under(request[c].key) \in 1..Len(messages)
    <3>1. Under(request[c].key) = 0 \/ Under(request[c].key) \in DOMAIN messages
      BY UnderFinds
    <3>2. DOMAIN messages = 1..Len(messages)
      BY DEF Types
    <3> QED
      BY <3>1, <3>2
  <2> QED
    BY <1>0, <1>5, <2>1 DEF Refind, Replay, Goto, Types, CallInv, Bound
<1>6. ASSUME NEW c \in Callers, ListMessages(c)
      PROVE  CallInv'
  BY <1>0, <1>6 DEF ListMessages, Goto, Types, CallInv, Bound
<1>7. ASSUME NEW c \in Callers, ListIndexed(c)
      PROVE  CallInv'
  BY <1>0, <1>7 DEF ListIndexed, Goto, Types, CallInv, Bound
<1>8. ASSUME NEW c \in Callers, MaxPosition(c)
      PROVE  CallInv'
  BY <1>0, <1>8 DEF MaxPosition, Goto, Types, CallInv, Bound
<1>9. ASSUME NEW c \in Callers, IndexEpisodes(c)
      PROVE  CallInv'
  BY <1>0, <1>9 DEF IndexEpisodes, Goto, locals, Types, CallInv, Bound
<1>10. ASSUME NEW c \in Callers, Respond(c)
      PROVE  CallInv'
  <2>1. \E outcome : Answer(c, outcome)
    BY <1>0, <1>10, Responses
  <2> QED
    BY <1>0, <1>10, <2>1 DEF Answer, Goto, locals, Types, CallInv, Bound
<1>11. ASSUME NEW c \in Callers, Die(c)
      PROVE  CallInv'
  BY <1>0, <1>11 DEF Die, UnderWay, Goto, Types, CallInv, Bound
<1>12. QED
  BY <1>1, <1>2, <1>3, <1>4, <1>5, <1>6, <1>7, <1>8, <1>9, <1>10, <1>11, Steps

\* A step of one call leaves the variables of the others alone.
Untouched(d) ==
    /\ pc'[d] = pc[d] /\ existing'[d] = existing[d] /\ replayed'[d] = replayed[d]
    /\ listed'[d] = listed[d] /\ indexed'[d] = indexed[d] /\ begun'[d] = begun[d]

LEMMA OnlyItsOwn ==
  ASSUME Types, NEW c \in Callers, NEW d \in Callers, d # c,
         \/ Begin(c) \/ Find(c) \/ Add(c) \/ Refind(c) \/ ListMessages(c) \/ ListIndexed(c)
         \/ MaxPosition(c) \/ IndexEpisodes(c) \/ Respond(c) \/ Die(c)
  PROVE  Untouched(d)
<1>1. CASE Begin(c)
  BY <1>1 DEF Untouched, Begin, Goto, locals, Types
<1>2. CASE Find(c)
  BY <1>2 DEF Untouched, Find, Replay, Goto, Types
<1>3. CASE Add(c)
  BY <1>3 DEF Untouched, Add, Collides, Goto, Types
<1>4. CASE Refind(c)
  BY <1>4 DEF Untouched, Refind, Replay, Goto, Types
<1>5. CASE ListMessages(c)
  BY <1>5 DEF Untouched, ListMessages, Goto, Types
<1>6. CASE ListIndexed(c)
  BY <1>6 DEF Untouched, ListIndexed, Goto, Types
<1>7. CASE MaxPosition(c)
  BY <1>7 DEF Untouched, MaxPosition, Goto, Types
<1>8. CASE IndexEpisodes(c)
  BY <1>8 DEF Untouched, IndexEpisodes, Goto, locals, Types
<1>9. CASE Respond(c)
  <2>1. \E outcome : Answer(c, outcome)
    BY <1>9, Responses
  <2> QED
    BY <2>1 DEF Untouched, Answer, Goto, locals, Types
<1>10. CASE Die(c)
  BY <1>10 DEF Untouched, Die, UnderWay, Goto, Types
<1> QED
  BY <1>1, <1>2, <1>3, <1>4, <1>5, <1>6, <1>7, <1>8, <1>9, <1>10

\* The index only grows.
LEMMA IndexKept ==
  ASSUME [Next]_vars
  PROVE  Indexed \subseteq Indexed'
<1>1. \A c \in Callers : IndexEpisodes(c) => Indexed \subseteq Indexed'
  BY IndexGrows DEF IndexEpisodes
<1>2. episodes' = episodes => Indexed' = Indexed
  BY DEF Indexed
<1>3. QED
  BY <1>1, <1>2, Steps DEF vars, Begin, Find, Add, Refind, ListMessages, ListIndexed, MaxPosition,
                           Respond, Answer, Die

\* What a call has reached, the steps of others do not take back.
LEMMA ProgressKept ==
  ASSUME NEW d \in Callers, Progress(d), Untouched(d), Indexed \subseteq Indexed'
  PROVE  Progress(d)'
<1>1. Owed(d)' = Owed(d)
  BY DEF Untouched, Owed
<1> QED
  BY <1>1 DEF Untouched, Progress

\* Every call that reaches its answer has indexed what it owes.
LEMMA IndexInvKept ==
  ASSUME Types, CallInv, IndexInv, [Next]_vars
  PROVE  IndexInv'
<1>1. Types' /\ CallInv' /\ Indexed \subseteq Indexed'
  BY TypesKept, CallKept, IndexKept
<1>2. answers' = answers => AnsweredIsIndexed'
  BY <1>1 DEF IndexInv, AnsweredIsIndexed
<1>3. ASSUME NEW c \in Callers,
             \/ Begin(c) \/ Find(c) \/ Add(c) \/ Refind(c) \/ ListMessages(c)
             \/ ListIndexed(c) \/ MaxPosition(c) \/ IndexEpisodes(c) \/ Respond(c) \/ Die(c),
             Progress(c)', AnsweredIsIndexed'
      PROVE  IndexInv'
  BY <1>1, <1>3, OnlyItsOwn, ProgressKept DEF IndexInv
<1>4. CASE UNCHANGED vars
  <2>1. \A c \in Callers : Progress(c)' = Progress(c)
    BY <1>4 DEF Progress, Owed, Indexed, vars, locals
  <2>2. answers' = answers
    BY <1>4 DEF vars
  <2> QED
    BY <1>2, <2>1, <2>2 DEF IndexInv
<1>5. ASSUME NEW c \in Callers, Begin(c)
      PROVE  IndexInv'
  <2>1. pc'[c] \notin {"list_indexed", "max_position", "index", "respond"} /\ answers' = answers
    BY <1>5 DEF Begin, Goto, Types
  <2> QED
    BY <1>2, <1>3, <1>5, <2>1 DEF Progress
<1>6. ASSUME NEW c \in Callers, Find(c)
      PROVE  IndexInv'
  <2>1. pc'[c] \notin {"list_indexed", "max_position", "index", "respond"} /\ answers' = answers
    BY <1>6 DEF Find, Replay, Goto, Types
  <2> QED
    BY <1>2, <1>3, <1>6, <2>1 DEF Progress
<1>7. ASSUME NEW c \in Callers, Add(c)
      PROVE  IndexInv'
  <2>1. pc'[c] \notin {"list_indexed", "max_position", "index", "respond"} /\ answers' = answers
    BY <1>7 DEF Add, Goto, Types
  <2> QED
    BY <1>2, <1>3, <1>7, <2>1 DEF Progress
<1>8. ASSUME NEW c \in Callers, Refind(c)
      PROVE  IndexInv'
  <2>1. pc'[c] \notin {"list_indexed", "max_position", "index", "respond"} /\ answers' = answers
    BY <1>8 DEF Refind, Replay, Goto, Types
  <2> QED
    BY <1>2, <1>3, <1>8, <2>1 DEF Progress
<1>9. ASSUME NEW c \in Callers, ListMessages(c)
      PROVE  IndexInv'
  <2>1. /\ pc[c] = "list" /\ pc'[c] = "list_indexed" /\ listed'[c] = DOMAIN messages
        /\ existing' = existing /\ begun' = begun /\ answers' = answers
    BY <1>9 DEF ListMessages, Goto, Types
  <2>2. /\ existing[c] \in Nat \ {0} /\ existing[c] <= Len(messages)
        /\ begun[c] \in Nat /\ begun[c] <= Len(messages)
    BY <2>1 DEF Types, CallInv, Bound
  <2>3. DOMAIN messages = 1..Len(messages) /\ Len(messages) \in Nat
    BY DEF Types
  <2>4. Owed(c) \subseteq DOMAIN messages
    BY <2>2, <2>3 DEF Owed
  <2>5. Owed(c)' = Owed(c)
    BY <2>1 DEF Owed
  <2> QED
    BY <1>2, <1>3, <1>9, <2>1, <2>4, <2>5 DEF Progress
<1>10. ASSUME NEW c \in Callers, ListIndexed(c)
      PROVE  IndexInv'
  <2>1. /\ pc[c] = "list_indexed" /\ pc'[c] = "max_position" /\ indexed'[c] = Indexed
        /\ listed' = listed /\ existing' = existing /\ begun' = begun /\ answers' = answers
    BY <1>10 DEF ListIndexed, Goto, Types
  <2>2. Owed(c)' = Owed(c) /\ Owed(c) \subseteq listed[c]
    BY <2>1 DEF Owed, IndexInv, Progress
  <2> QED
    BY <1>1, <1>2, <1>3, <1>10, <2>1, <2>2 DEF Progress
<1>11. ASSUME NEW c \in Callers, MaxPosition(c)
      PROVE  IndexInv'
  <2>1. /\ pc[c] = "max_position" /\ pc'[c] = "index" /\ indexed' = indexed
        /\ listed' = listed /\ existing' = existing /\ begun' = begun /\ answers' = answers
    BY <1>11 DEF MaxPosition, Goto, Types
  <2>2. Owed(c)' = Owed(c) /\ Owed(c) \subseteq listed[c] /\ indexed[c] \subseteq Indexed
    BY <2>1 DEF Owed, IndexInv, Progress
  <2> QED
    BY <1>1, <1>2, <1>3, <1>11, <2>1, <2>2 DEF Progress
<1>12. ASSUME NEW c \in Callers, IndexEpisodes(c)
      PROVE  IndexInv'
  <2>1. /\ pc[c] = "index" /\ pc'[c] = "respond"
        /\ existing' = existing /\ begun' = begun /\ answers' = answers
    BY <1>12 DEF IndexEpisodes, Goto, locals, Types
  <2>2. Owed(c)' = Owed(c) /\ Owed(c) \subseteq listed[c] /\ indexed[c] \subseteq Indexed
    BY <2>1 DEF Owed, IndexInv, Progress
  <2>3. Indexed' = Indexed \cup (listed[c] \ indexed[c])
    BY <1>12, IndexGrows DEF IndexEpisodes
  <2>4. Owed(c) \subseteq Indexed'
    BY <2>2, <2>3
  <2> QED
    BY <1>2, <1>3, <1>12, <2>1, <2>2, <2>4 DEF Progress
<1>13. ASSUME NEW c \in Callers, Respond(c)
      PROVE  IndexInv'
  <2>1. ASSUME NEW outcome, Answer(c, outcome), outcome = "conflict" \/ pc[c] = "respond"
        PROVE  IndexInv'
    <3> DEFINE answer == [caller |-> c, key |-> request[c].key, body |-> request[c].body,
                          outcome |-> outcome, message |-> existing[c], begun |-> begun[c]]
    <3>1. /\ answers' = answers \cup {answer} /\ pc'[c] = "done"
          /\ answer.outcome = outcome /\ answer.message = existing[c] /\ answer.begun = begun[c]
      BY <2>1 DEF Answer, Goto, Types
    <3>2. outcome # "conflict" => ({answer.message} \cup 1..answer.begun) \subseteq Indexed'
      BY <1>1, <2>1, <3>1 DEF IndexInv, Progress, Owed
    <3>3. AnsweredIsIndexed'
      <4> HIDE DEF answer
      <4> QED
        BY <1>1, <3>1, <3>2 DEF IndexInv, AnsweredIsIndexed
    <3>4. Progress(c)'
      BY <3>1 DEF Progress
    <3> QED
      BY <1>3, <1>13, <3>3, <3>4
  <2> QED
    BY <1>13, <2>1, Responses
<1>14. ASSUME NEW c \in Callers, Die(c)
      PROVE  IndexInv'
  <2>1. pc'[c] \notin {"list_indexed", "max_position", "index", "respond"} /\ answers' = answers
    BY <1>14 DEF Die, Goto, Types
  <2> QED
    BY <1>2, <1>3, <1>14, <2>1 DEF Progress
<1>15. QED
  BY <1>4, <1>5, <1>6, <1>7, <1>8, <1>9, <1>10, <1>11, <1>12, <1>13, <1>14, Steps

\* The binding of a call survives the steps of others and its own statements
\* that neither find nor store a message.
LEMMA BoundKept ==
  ASSUME Types, CallInv, [Next]_vars, NEW d \in Callers, BoundTo(d),
         existing'[d] = existing[d],
         pc'[d] \in Bound => pc[d] \in Bound,
         pc'[d] = "conflict" => pc[d] = "conflict"
  PROVE  BoundTo(d)'
<1>1. /\ request' = request
      /\ \A i \in 1..Len(messages) : messages'[i] = messages[i]
  BY MessagesKept
<1>2. existing[d] \in Nat /\ Len(messages) \in Nat /\ existing[d] <= Len(messages)
  BY DEF Types, CallInv
<1>3. existing[d] # 0 => messages'[existing[d]] = messages[existing[d]]
  BY <1>1, <1>2
<1>4. pc[d] \in Bound \cup {"conflict"} => existing[d] # 0
  BY DEF CallInv
<1> QED
  BY <1>1, <1>3, <1>4 DEF BoundTo

\* No two messages share a key, and the writer of a message is one call.
LEMMA KeyInvKept ==
  ASSUME Types, CallInv, KeyInv, [Next]_vars
  PROVE  KeyInv'
<1>1. Types' /\ CallInv'
  BY TypesKept, CallKept
<1>2. request' = request
  BY MessagesKept
<1>3. ASSUME NEW c \in Callers,
             \/ Begin(c) \/ Find(c) \/ Add(c) \/ Refind(c) \/ ListMessages(c)
             \/ ListIndexed(c) \/ MaxPosition(c) \/ IndexEpisodes(c) \/ Respond(c) \/ Die(c),
             BoundTo(c)', messages' = messages, Writer(c)' => Writer(c)
      PROVE  KeyInv'
  <2>1. ASSUME NEW d \in Callers, d # c
        PROVE  BoundTo(d)' /\ (Writer(d)' = Writer(d))
    <3>1. Untouched(d)
      BY <1>3, <2>1, OnlyItsOwn
    <3>2. BoundTo(d)
      BY DEF KeyInv
    <3> QED
      BY <3>1, <3>2, BoundKept DEF Untouched, Writer
  <2> QED
    BY <1>2, <1>3, <2>1 DEF KeyInv
<1>4. CASE UNCHANGED vars
  BY <1>4 DEF vars, locals, KeyInv, BoundTo, Writer
<1>5. ASSUME NEW c \in Callers, Begin(c)
      PROVE  KeyInv'
  <2>2. /\ existing' = existing /\ replayed' = replayed /\ messages' = messages
        /\ pc'[c] # "conflict" /\ (pc'[c] \in Bound => pc[c] \in Bound)
    BY <1>5 DEF Begin, Goto, locals, Types, Bound
  <2>3. BoundTo(c)'
    BY <2>2, BoundKept DEF KeyInv, Bound
  <2> QED
    BY <1>3, <1>5, <2>2, <2>3 DEF Writer
<1>6. ASSUME NEW c \in Callers, Find(c)
      PROVE  KeyInv'
  <2> DEFINE i == Under(request[c].key)
  <2>1. i = 0 \/ (i \in DOMAIN messages /\ messages[i].key = request[c].key)
    BY UnderFinds
  <2>2. /\ existing'[c] = i /\ replayed'[c] = (i # 0) /\ messages' = messages
        /\ i = 0 => pc'[c] \notin Bound \cup {"conflict"}
        /\ i # 0 => pc'[c] = IF messages[i].body = request[c].body THEN "list" ELSE "conflict"
    BY <1>6 DEF Find, Replay, Goto, Types, Bound
  <2> HIDE DEF i
  <2>3. BoundTo(c)'
    BY <1>2, <2>1, <2>2 DEF BoundTo, Bound
  <2> QED
    BY <1>3, <1>6, <2>2, <2>3 DEF Writer
<1>7. ASSUME NEW c \in Callers, Add(c)
      PROVE  KeyInv'
  <2>1. CASE Collides(request[c].key)
    <3>1. /\ existing' = existing /\ replayed' = replayed /\ messages' = messages
          /\ pc'[c] = "refind"
      BY <1>7, <2>1 DEF Add, Goto, Types
    <3>2. BoundTo(c)'
      BY <3>1, BoundKept DEF KeyInv, Bound
    <3> QED
      BY <1>3, <1>7, <3>1, <3>2 DEF Writer
  <2>2. CASE ~Collides(request[c].key)
    <3> DEFINE k == request[c].key
               last == Len(messages) + 1
    <3>1. /\ messages' = Append(messages, request[c]) /\ existing'[c] = last
          /\ pc'[c] = "list" /\ replayed' = replayed
      BY <1>7, <2>2 DEF Add, Goto, Types
    <3>2. /\ Len(messages) \in Nat /\ DOMAIN messages = 1..Len(messages)
          /\ DOMAIN messages' = 1..last /\ messages'[last] = request[c]
          /\ \A i \in 1..Len(messages) : messages'[i] = messages[i]
      BY <3>1, MessagesKept DEF Types
    <3>3. \A i \in DOMAIN messages : messages[i].key = k => k = NoKey
      BY <2>2 DEF Collides, UnderKey
    <3> HIDE DEF k, last
    <3>4. \A i, j \in DOMAIN messages' :
             (messages'[i].key = messages'[j].key /\ messages'[i].key # NoKey) => i = j
      <4>1. \A i \in DOMAIN messages' : i \in DOMAIN messages \/ i = last
        BY <3>2 DEF last
      <4>2. \A i \in DOMAIN messages : messages'[i] = messages[i]
        BY <3>2
      <4>3. messages'[last].key = k
        BY <3>2 DEF k
      <4> QED
        BY <3>3, <4>1, <4>2, <4>3 DEF KeyInv
    <3>5. BoundTo(c)'
      BY <1>2, <3>1, <3>2 DEF BoundTo, Bound, last
    <3>6. ASSUME NEW d \in Callers, d # c
          PROVE  /\ BoundTo(d)' /\ (Writer(d)' = Writer(d))
                 /\ (Writer(d) /\ request[d].key = k) => k = NoKey
      <4>1. Untouched(d)
        BY <1>7, <3>6, OnlyItsOwn
      <4>2. BoundTo(d)
        BY DEF KeyInv
      <4>3. BoundTo(d)' /\ (Writer(d)' = Writer(d))
        BY <4>1, <4>2, BoundKept DEF Untouched, Writer
      <4>4. existing[d] # 0 => existing[d] \in DOMAIN messages
        BY <3>2 DEF Types, CallInv
      <4> QED
        BY <3>3, <4>2, <4>3, <4>4 DEF BoundTo, Writer
    <3> QED
      BY <1>2, <3>4, <3>5, <3>6 DEF KeyInv, k
  <2> QED
    BY <2>1, <2>2
<1>8. ASSUME NEW c \in Callers, Refind(c)
      PROVE  KeyInv'
  <2> DEFINE i == Under(request[c].key)
  <2>1. i = 0 \/ (i \in DOMAIN messages /\ messages[i].key = request[c].key)
    BY UnderFinds
  <2>2. /\ existing'[c] = i /\ replayed'[c] = (i # 0) /\ messages' = messages
        /\ i = 0 => pc'[c] \notin Bound \cup {"conflict"}
        /\ i # 0 => pc'[c] = IF messages[i].body = request[c].body THEN "list" ELSE "conflict"
    BY <1>8 DEF Refind, Replay, Goto, Types, Bound
  <2> HIDE DEF i
  <2>3. BoundTo(c)'
    BY <1>2, <2>1, <2>2 DEF BoundTo, Bound
  <2> QED
    BY <1>3, <1>8, <2>2, <2>3 DEF Writer
<1>9. ASSUME NEW c \in Callers, ListMessages(c)
      PROVE  KeyInv'
  <2>2. /\ existing' = existing /\ replayed' = replayed /\ messages' = messages
        /\ pc'[c] # "conflict" /\ (pc'[c] \in Bound => pc[c] \in Bound)
    BY <1>9 DEF ListMessages, Goto, locals, Types, Bound
  <2>3. BoundTo(c)'
    BY <2>2, BoundKept DEF KeyInv, Bound
  <2> QED
    BY <1>3, <1>9, <2>2, <2>3 DEF Writer
<1>10. ASSUME NEW c \in Callers, ListIndexed(c)
      PROVE  KeyInv'
  <2>2. /\ existing' = existing /\ replayed' = replayed /\ messages' = messages
        /\ pc'[c] # "conflict" /\ (pc'[c] \in Bound => pc[c] \in Bound)
    BY <1>10 DEF ListIndexed, Goto, locals, Types, Bound
  <2>3. BoundTo(c)'
    BY <2>2, BoundKept DEF KeyInv, Bound
  <2> QED
    BY <1>3, <1>10, <2>2, <2>3 DEF Writer
<1>11. ASSUME NEW c \in Callers, MaxPosition(c)
      PROVE  KeyInv'
  <2>2. /\ existing' = existing /\ replayed' = replayed /\ messages' = messages
        /\ pc'[c] # "conflict" /\ (pc'[c] \in Bound => pc[c] \in Bound)
    BY <1>11 DEF MaxPosition, Goto, locals, Types, Bound
  <2>3. BoundTo(c)'
    BY <2>2, BoundKept DEF KeyInv, Bound
  <2> QED
    BY <1>3, <1>11, <2>2, <2>3 DEF Writer
<1>12. ASSUME NEW c \in Callers, IndexEpisodes(c)
      PROVE  KeyInv'
  <2>2. /\ existing' = existing /\ replayed' = replayed /\ messages' = messages
        /\ pc'[c] # "conflict" /\ (pc'[c] \in Bound => pc[c] \in Bound)
    BY <1>12 DEF IndexEpisodes, Goto, locals, Types, Bound
  <2>3. BoundTo(c)'
    BY <2>2, BoundKept DEF KeyInv, Bound
  <2> QED
    BY <1>3, <1>12, <2>2, <2>3 DEF Writer
<1>13. ASSUME NEW c \in Callers, Respond(c)
      PROVE  KeyInv'
  <2>1. \E outcome : Answer(c, outcome)
    BY <1>13, Responses
  <2>2. /\ existing' = existing /\ replayed' = replayed /\ messages' = messages
        /\ pc'[c] = "done"
    BY <2>1 DEF Answer, Goto, locals, Types
  <2>3. BoundTo(c)'
    BY <2>2, BoundKept DEF KeyInv, Bound
  <2> QED
    BY <1>3, <1>13, <2>2, <2>3 DEF Writer
<1>14. ASSUME NEW c \in Callers, Die(c)
      PROVE  KeyInv'
  <2>1. existing'[c] = 0 /\ pc'[c] = "idle" /\ messages' = messages
    BY <1>14 DEF Die, Goto, Types
  <2> QED
    BY <1>3, <1>14, <2>1 DEF BoundTo, Writer, Bound
<1>15. QED
  BY <1>4, <1>5, <1>6, <1>7, <1>8, <1>9, <1>10, <1>11, <1>12, <1>13, <1>14, Steps

\* A call that has its answer is over.
LEMMA DoneStays ==
  ASSUME Types, [Next]_vars, NEW d \in Callers, pc[d] = "done"
  PROVE  Untouched(d)
<1>1. CASE UNCHANGED vars
  BY <1>1 DEF vars, locals, Untouched
<1>2. ASSUME NEW c \in Callers,
             \/ Begin(c) \/ Find(c) \/ Add(c) \/ Refind(c) \/ ListMessages(c)
             \/ ListIndexed(c) \/ MaxPosition(c) \/ IndexEpisodes(c) \/ Respond(c) \/ Die(c)
      PROVE  Untouched(d)
  <2>1. CASE c # d
    BY <1>2, <2>1, OnlyItsOwn
  <2>2. CASE c = d
    <3>1. ~Respond(d)
      BY Responses
    <3> QED
      BY <1>2, <2>2, <3>1 DEF Begin, Find, Add, Refind, ListMessages, ListIndexed, MaxPosition,
                              IndexEpisodes, Die, UnderWay
  <2> QED
    BY <2>1, <2>2
<1>3. QED
  BY <1>1, <1>2, Steps

\* Answers stay faithful to their calls, and the new one is.
LEMMA AnswerInvKept ==
  ASSUME Types, CallInv, KeyInv, AnswerInv, [Next]_vars
  PROVE  AnswerInv'
<1>1. /\ request' = request /\ DOMAIN messages = 1..Len(messages) /\ Len(messages) \in Nat
      /\ \A i \in DOMAIN messages : messages'[i] = messages[i]
  BY MessagesKept
<1>2. ASSUME NEW a \in answers
      PROVE  Faithful(a)'
  <2>1. a.caller \in Callers /\ Faithful(a)
    BY DEF Types, AnswerInv
  <2>2. Untouched(a.caller)
    BY <2>1, DoneStays DEF Faithful
  <2>3. a.message \in DOMAIN messages
    BY <1>1, <2>1 DEF Types, CallInv, Faithful
  <2> QED
    BY <1>1, <2>1, <2>2, <2>3 DEF Faithful, Untouched
<1>3. ASSUME NEW c \in Callers, NEW outcome, Answer(c, outcome),
             \/ outcome = "conflict" /\ pc[c] = "conflict"
             \/ outcome # "conflict" /\ pc[c] = "respond"
                /\ (outcome = "stored" => ~replayed[c])
      PROVE  AnswerInv'
  <2> DEFINE answer == [caller |-> c, key |-> request[c].key, body |-> request[c].body,
                        outcome |-> outcome, message |-> existing[c], begun |-> begun[c]]
  <2>1. answers' = answers \cup {answer}
    BY <1>3 DEF Answer
  <2>2. /\ pc'[c] = "done" /\ existing' = existing /\ replayed' = replayed
        /\ begun' = begun /\ messages' = messages
    BY <1>3 DEF Answer, Goto, locals, Types
  <2>3. existing[c] # 0 /\ BoundTo(c)
    BY <1>3 DEF CallInv, KeyInv, Bound
  <2>4. ASSUME NEW a, a = answer
        PROVE  Faithful(a)'
    BY <1>1, <1>3, <2>2, <2>3, <2>4 DEF Faithful, BoundTo, Bound
  <2> HIDE DEF answer
  <2> QED
    BY <1>2, <2>1, <2>4 DEF AnswerInv
<1>4. CASE answers' = answers
  BY <1>2, <1>4 DEF AnswerInv
<1>5. ASSUME NEW c \in Callers, Respond(c)
      PROVE  AnswerInv'
  BY <1>3, <1>5, Responses
<1>6. QED
  BY <1>4, <1>5, Steps DEF vars, Begin, Find, Add, Refind, ListMessages, ListIndexed,
                           MaxPosition, IndexEpisodes, Die

-------------------------------------------------------------------------------
LEMMA InitHolds == Init => Inv
<1> SUFFICES ASSUME Init
             PROVE  Inv
  OBVIOUS
<1>1. Indexed = {}
  BY DEF Init, Indexed
<1>2. Types
  BY <1>1 DEF Init, Types, Labels
<1>3. CallInv
  BY DEF Init, CallInv, Bound
<1>4. IndexInv
  BY DEF Init, IndexInv, Progress, AnsweredIsIndexed
<1>5. KeyInv
  BY DEF Init, KeyInv, BoundTo, Writer, Bound
<1>6. AnswerInv
  BY DEF Init, AnswerInv
<1> QED
  BY <1>2, <1>3, <1>4, <1>5, <1>6 DEF Inv

LEMMA StepHolds == Inv /\ [Next]_vars => Inv'
BY TypesKept, CallKept, IndexInvKept, KeyInvKept, AnswerInvKept DEF Inv

\* The invariant of every behaviour of ingest: what its statements have read and
\* reached, for any number of callers, keys, bodies and deaths.
THEOREM InvHolds == Spec => []Inv
BY InitHolds, StepHolds, PTL DEF Spec

\* What a service.ingest answer promises of the recall index: the message and
\* all that were stored before the call have an episode.
THEOREM AnswersIndexed == Spec => []AnsweredIsIndexed
<1>1. Inv => AnsweredIsIndexed
  BY DEF Inv, IndexInv
<1> QED
  BY <1>1, InvHolds, PTL

\* An idempotency key binds one message and one first writer, and a conflict is
\* answered exactly to another body.
THEOREM KeysBindOneMessage == Spec => []KeyBindsOneMessage
<1>1. ASSUME Inv
      PROVE  KeyBindsOneMessage
  <2>1. ASSUME NEW a \in answers, NEW b \in answers, a.key = b.key, a.key # NoKey
        PROVE  /\ a.message = b.message
               /\ (a.outcome = "stored" /\ b.outcome = "stored") => a = b
    <3>1. /\ a.caller \in Callers /\ b.caller \in Callers
          /\ Faithful(a) /\ Faithful(b)
      BY <1>1 DEF Inv, Types, AnswerInv
    <3>2. /\ a.message \in DOMAIN messages /\ messages[a.message].key = a.key
          /\ b.message \in DOMAIN messages /\ messages[b.message].key = b.key
      BY <1>1, <3>1 DEF Inv, Types, CallInv, KeyInv, BoundTo, Faithful
    <3>3. a.message = b.message
      BY <1>1, <2>1, <3>2 DEF Inv, KeyInv
    <3>4. ASSUME a.outcome = "stored", b.outcome = "stored"
          PROVE  a = b
      <4>1. a.caller = b.caller
        BY <1>1, <2>1, <3>1, <3>4 DEF Inv, KeyInv, Writer, Faithful
      <4>2. /\ a.key = b.key /\ a.body = b.body /\ a.begun = b.begun
            /\ a.message = b.message /\ a.outcome = b.outcome
        BY <3>1, <3>4, <4>1 DEF Faithful
      <4>3. \A x \in {a, b} :
               x \in [caller: Callers, key: Keys \cup {NoKey}, body: Bodies,
                      outcome: {"stored", "replayed", "conflict"}, message: Nat, begun: Nat]
        BY <1>1 DEF Inv, Types
      <4> QED
        BY <4>1, <4>2, <4>3
    <3> QED
      BY <3>3, <3>4
  <2>2. ASSUME NEW a \in answers
        PROVE  a.message # 0 /\ (a.outcome = "conflict") = (messages[a.message].body # a.body)
    BY <1>1 DEF Inv, AnswerInv, Faithful
  <2> QED
    BY <2>1, <2>2 DEF KeyBindsOneMessage
<1> QED
  BY <1>1, InvHolds, PTL

-------------------------------------------------------------------------------
\* Calls that do not overlap leave an exact index.

\* Where a call has read of the messages.
Reading == {"list_indexed", "max_position", "index"}

\* The first n messages have an episode each, at their own place.
Exact(n) ==
    /\ n \in Nat /\ n <= Len(messages)
    /\ Indexed = 1..n
    /\ \A e \in episodes : e.position = e.message
    /\ \A e, f \in episodes : e.message = f.message => e = f

\* What c has read is still so.
Read(c, n) ==
    /\ pc[c] \in Reading => listed[c] = 1..Len(messages)
    /\ pc[c] \in {"max_position", "index"} => indexed[c] = 1..n
    /\ pc[c] = "index" => position[c] = n

UnracedInv ==
    /\ DOMAIN position = Callers
    /\ ~raced => /\ \A c, d \in UnderWay : c = d
                 /\ \E n : Exact(n) /\ \A c \in Callers : Read(c, n)

\* Without overlap, no call but the one that takes the step is under way.
LEMMA Alone ==
  ASSUME Types, UnracedInv, ~raced', NEW c \in Callers,
         \/ Begin(c) \/ Find(c) \/ Add(c) \/ Refind(c) \/ ListMessages(c) \/ ListIndexed(c)
         \/ MaxPosition(c) \/ IndexEpisodes(c) \/ Respond(c) \/ Die(c)
  PROVE  /\ ~raced
         /\ \A d \in Callers : d # c => pc'[d] \in {"idle", "done"}
<1>1. CASE Begin(c)
  <2>1. ~raced /\ UnderWay = {}
    BY <1>1 DEF Begin
  <2>2. \A d \in Callers : d # c => pc'[d] = pc[d]
    BY <1>1 DEF Begin, Goto, Types
  <2> QED
    BY <2>1, <2>2 DEF UnderWay
<1>2. CASE ~Begin(c)
  <2>1. raced' = raced
    BY <1>2, Responses DEF Find, Add, Refind, ListMessages, ListIndexed, MaxPosition,
                           IndexEpisodes, Answer, Die
  <2>2. c \in UnderWay
    BY <1>2, Responses DEF Find, Add, Refind, ListMessages, ListIndexed, MaxPosition,
                           IndexEpisodes, Die, UnderWay
  <2>3. \A d \in Callers : d # c => d \notin UnderWay
    BY <2>1, <2>2 DEF UnracedInv
  <2>4. \A d \in Callers : d # c => pc'[d] = pc[d]
    BY OnlyItsOwn DEF Untouched
  <2> QED
    BY <2>1, <2>3, <2>4 DEF UnderWay
<1> QED
  BY <1>1, <1>2

\* The index stays exact when the call alone under way reads truly.
LEMMA ExactEnough ==
  ASSUME NEW c \in Callers, NEW n, DOMAIN position' = Callers, Exact(n)', Read(c, n)',
         \A d \in Callers : d # c => pc'[d] \in {"idle", "done"}
  PROVE  UnracedInv'
<1>1. \A d \in Callers : Read(d, n)'
  BY DEF Read, Reading
<1>2. \A d, e \in UnderWay' : d = e
  BY DEF UnderWay
<1> QED
  BY <1>1, <1>2 DEF UnracedInv

\* The greatest of the places up to n.
LEMMA GreatestPlace ==
  ASSUME NEW n \in Nat
  PROVE  Greatest(1..n) = n
<1>1. CASE n = 0
  BY <1>1 DEF Greatest
<1>2. CASE n # 0
  <2>1. 1..n # {} /\ n \in 1..n /\ \A x \in 1..n : x <= n
    BY <1>2
  <2>2. \A m \in 1..n : (\A x \in 1..n : x <= m) => m = n
    BY <2>1
  <2> QED
    BY <2>1, <2>2 DEF Greatest
<1> QED
  BY <1>1, <1>2

\* The episodes a call adds to an exact index, when it has read all of it.
LEMMA NewEpisodesExact ==
  ASSUME NEW c, NEW n \in Nat, NEW m \in Nat,
         listed[c] = 1..m, indexed[c] = 1..n, position[c] = n
  PROVE  NewEpisodes(c) = {[message |-> k, position |-> k, by |-> c] : k \in (n + 1)..m}
<1> DEFINE lacking == listed[c] \ indexed[c]
           rank(k) == Cardinality({x \in lacking : x <= k})
<1>1. lacking = (n + 1)..m
  OBVIOUS
<1>2. ASSUME NEW k \in (n + 1)..m
      PROVE  position[c] + rank(k) = k
  <2>1. {x \in lacking : x <= k} = (n + 1)..k
    BY <1>1
  <2>2. n + 1 \in Int /\ k \in Int /\ n + 1 <= k
    OBVIOUS
  <2>3. Cardinality((n + 1)..k) = k - (n + 1) + 1
    BY <2>2, FS_Interval
  <2>4. rank(k) = Cardinality((n + 1)..k)
    BY <2>1, Zenon
  <2> HIDE DEF rank, lacking
  <2> QED
    BY <2>2, <2>3, <2>4
<1>3. NewEpisodes(c) = {[message |-> k, position |-> position[c] + rank(k), by |-> c] :
                           k \in lacking}
  BY DEF NewEpisodes
<1> HIDE DEF lacking, rank
<1> QED
  BY <1>1, <1>2, <1>3

\* Every step keeps the index exact, or the calls overlap.
LEMMA UnracedKept ==
  ASSUME Types, UnracedInv, [Next]_vars
  PROVE  UnracedInv'
<1>0. Types' /\ (episodes' = episodes => Indexed' = Indexed)
  BY TypesKept DEF Indexed
<1>1. CASE UNCHANGED vars
  BY <1>0, <1>1 DEF vars, locals, UnracedInv, Exact, Read, UnderWay
<1>2. ASSUME NEW c \in Callers,
             \/ Begin(c) \/ Find(c) \/ Add(c) \/ Refind(c) \/ ListMessages(c)
             \/ ListIndexed(c) \/ MaxPosition(c) \/ IndexEpisodes(c) \/ Respond(c) \/ Die(c)
      PROVE  UnracedInv'
  <2>1. DOMAIN position' = Callers
    BY <1>2, Responses DEF Begin, Find, Add, Refind, ListMessages, ListIndexed, MaxPosition,
                           IndexEpisodes, Answer, Die, locals, UnracedInv
  <2>2. CASE raced'
    BY <2>1, <2>2 DEF UnracedInv
  <2>3. CASE ~raced'
    <3>1. /\ ~raced
          /\ \A d \in Callers : d # c => pc'[d] \in {"idle", "done"}
      BY <1>2, <2>3, Alone
    <3>2. PICK n : Exact(n) /\ Read(c, n)
      BY <3>1 DEF UnracedInv
    <3>3. /\ n \in Nat /\ Len(messages) \in Nat /\ Len(messages') \in Nat
          /\ Len(messages) <= Len(messages')
          /\ DOMAIN messages = 1..Len(messages)
      BY <3>2, MessagesKept DEF Exact
    <3>4. ASSUME episodes' = episodes
          PROVE  Exact(n)'
      BY <1>0, <3>2, <3>3, <3>4 DEF Exact
    <3>5. CASE episodes' = episodes /\ pc'[c] \notin Reading
      <4>1. Read(c, n)'
        BY <3>5 DEF Read, Reading
      <4> QED
        BY <2>1, <3>1, <3>4, <3>5, <4>1, ExactEnough
    <3>6. CASE ListMessages(c)
      <4>1. Read(c, n)'
        BY <3>3, <3>6 DEF Read, ListMessages, Goto, Types
      <4> QED
        BY <2>1, <3>1, <3>4, <3>6, <4>1, ExactEnough DEF ListMessages
    <3>7. CASE ListIndexed(c)
      <4>1. Read(c, n)'
        BY <3>2, <3>7 DEF Read, Reading, Exact, ListIndexed, Goto, Types
      <4> QED
        BY <2>1, <3>1, <3>4, <3>7, <4>1, ExactEnough DEF ListIndexed
    <3>8. CASE MaxPosition(c)
      <4>1. {e.position : e \in episodes} = 1..n
        BY <3>2 DEF Exact, Indexed
      <4>2. position'[c] = n
        BY <3>3, <3>8, <4>1, GreatestPlace DEF MaxPosition, UnracedInv
      <4>3. Read(c, n)'
        BY <3>2, <3>8, <4>2 DEF Read, Reading, MaxPosition, Goto, Types
      <4> QED
        BY <2>1, <3>1, <3>4, <3>8, <4>3, ExactEnough DEF MaxPosition
    <3>9. CASE IndexEpisodes(c)
      <4> DEFINE m == Len(messages)
                 row(k) == [message |-> k, position |-> k, by |-> c]
      <4>1. listed[c] = 1..m /\ indexed[c] = 1..n /\ position[c] = n /\ n <= m
        BY <3>2, <3>9 DEF Read, Reading, Exact, IndexEpisodes
      <4>2. NewEpisodes(c) = {row(k) : k \in (n + 1)..m}
        BY <3>3, <4>1, NewEpisodesExact
      <4>3. \A k : row(k).message = k /\ row(k).position = k
        OBVIOUS
      <4>4. episodes' = episodes \cup NewEpisodes(c) /\ messages' = messages
        BY <3>9 DEF IndexEpisodes
      <4>5. Indexed' = 1..n \cup (1..m \ 1..n)
        BY <3>2, <4>1, <4>4, IndexGrows DEF Exact
      <4>6. Indexed' = 1..m
        BY <3>3, <4>1, <4>5
      <4> HIDE DEF row
      <4>7. \A e \in episodes' : e.position = e.message
        BY <3>2, <4>2, <4>3, <4>4 DEF Exact
      <4>8. \A e \in episodes : e.message \in 1..n
        BY <3>2 DEF Exact, Indexed
      <4>9. \A e \in NewEpisodes(c) : e.message \in (n + 1)..m /\ e = row(e.message)
        BY <4>2, <4>3
      <4>10. \A k \in 1..n : k \notin (n + 1)..m
        BY <3>3
      <4>11. \A e, f \in episodes' : e.message = f.message => e = f
        BY <3>2, <4>4, <4>8, <4>9, <4>10 DEF Exact
      <4>12. Exact(m)'
        BY <3>3, <4>4, <4>6, <4>7, <4>11 DEF Exact
      <4>13. pc'[c] = "respond"
        BY <3>9 DEF IndexEpisodes, Goto, Types
      <4>14. Read(c, m)'
        BY <4>13 DEF Read, Reading
      <4> HIDE DEF m
      <4> QED
        BY <2>1, <3>1, <4>12, <4>14, ExactEnough
    <3>10. CASE Begin(c) \/ Find(c) \/ Add(c) \/ Refind(c) \/ Respond(c) \/ Die(c)
      <4>1. episodes' = episodes
        BY <3>10, Responses DEF Begin, Find, Add, Refind, Answer, Die
      <4>2. pc'[c] \notin Reading
        BY <3>10, Responses DEF Begin, Find, Add, Refind, Replay, Answer, Die, Goto, Types,
                                Reading
      <4> QED
        BY <3>5, <4>1, <4>2
    <3> QED
      BY <1>2, <3>6, <3>7, <3>8, <3>9, <3>10
  <2> QED
    BY <2>2, <2>3
<1> QED
  BY <1>1, <1>2, Steps

\* Calls that never overlap leave one episode for each indexed message, numbered
\* like the messages without gaps, whichever of them die: the three SELECTs of
\* ensure_episodes_for_session need no transaction as long as one call runs.
THEOREM UnracedExact == Spec => []UnracedIndexIsExact
<1>1. Init => UnracedInv
  <2> SUFFICES ASSUME Init
               PROVE  UnracedInv
    OBVIOUS
  <2>1. UnderWay = {} /\ Indexed = {} /\ 1..0 = {} /\ Len(messages) = 0
    BY DEF Init, UnderWay, Indexed
  <2>2. Exact(0)
    BY <2>1 DEF Init, Exact
  <2>3. \A c \in Callers : Read(c, 0)
    BY DEF Init, Read, Reading
  <2> QED
    BY <2>1, <2>2, <2>3 DEF Init, UnracedInv
<1>2. Inv /\ UnracedInv /\ [Next]_vars => UnracedInv'
  BY UnracedKept DEF Inv
<1>3. UnracedInv => UnracedIndexIsExact
  <2> SUFFICES ASSUME UnracedInv, ~raced
               PROVE  /\ \A e, f \in episodes : e.message = f.message => e = f
                      /\ \A e \in episodes : e.position = e.message
                                             /\ 1..e.message \subseteq Indexed
    BY DEF UnracedIndexIsExact
  <2>1. PICK n : Exact(n)
    BY DEF UnracedInv
  <2>2. \A e \in episodes : e.message \in 1..n
    BY <2>1 DEF Exact, Indexed
  <2>3. n \in Nat /\ \A k \in 1..n : 1..k \subseteq 1..n
    BY <2>1 DEF Exact
  <2> QED
    BY <2>1, <2>2, <2>3 DEF Exact
<1> QED
  BY <1>1, <1>2, <1>3, InvHolds, PTL DEF Spec
===============================================================================
