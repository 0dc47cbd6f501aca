------------------------------ MODULE RoomDelivery ------------------------------
(***************************************************************************)
(* How an arm of RoomMem (run_roommem, roommem.py) brings the rooms of its  *)
(* projects into services and scores what comes back.  A room is ingested,  *)
(* its memories are curated (or are the gold ones), the active ones become  *)
(* documents attached to the sessions that may see them, and each probe is  *)
(* asked in the room or in a new room of the project.                       *)
(*                                                                          *)
(* A session sees the documents attached to it and its own messages; which  *)
(* of them a question brings back is any subset (RoomArm has the search).   *)
(***************************************************************************)
EXTENDS WriteSide, Sequences, SequencesExt, TLC

CONSTANTS
    RoomSeq,        \* [id, project, messages, golds, noise, probes], in order
    Outputs,        \* room id -> what its curation may bring: sets of memories
    CuratedLimit,   \* memories of a room that are read back, newest first
    NoRoom, NoRow

RoomNos == DOMAIN RoomSeq
ArmNames == {"raw", "raw_project", "oracle", "curated", "full_context"}

\* What _validate_room and the schema ask of the gold memories of a room file,
\* whose scope is taken to be that of their kind: another id each, some sources,
\* these and the noise among the messages, and a successor of the same topic
\* that is said later.
GoldsValid(r) ==
    /\ IsFiniteSet(r.golds) /\ IsFiniteSet(r.messages)
    /\ \A g, h \in r.golds : g.id = h.id => g = h
    /\ r.noise \subseteq r.messages
    /\ \A g \in r.golds :
          /\ g.id \in Nat \ {0} /\ g.statement \in DOMAIN WordsOf
          /\ g.sources \subseteq r.messages /\ g.sources # {}
          /\ g.superseded_by # 0 =>
                \E h \in SuccessorsOf(r.golds, g) :
                    h # g /\ h.topic = g.topic /\ Min(g.sources) < Min(h.sources)

\* And of the probes: they have answers, which are gold and current, and in a
\* new room not a matter of the old one.
ProbesValid(r) ==
    \A p \in ToSet(r.probes) :
        /\ p.new \in BOOLEAN /\ p.answers # {}
        /\ \A a \in p.answers :
              \E g \in r.golds : /\ g.id = a /\ g.superseded_by = 0
                                 /\ p.new => ScopeForKind(g.kind) # "room"

\* The memories of a curated source, as their schema has them.
OutputValid(output) ==
    /\ IsFiniteSet(output)
    /\ \A v \in output : /\ v.id \in Nat /\ IsFiniteSet(v.sources)
                          /\ v.statement \in DOMAIN WordsOf
                          /\ v.status \in {"active", "superseded"}

\* load_rooms refuses a room id it has seen.
ASSUME RoomDeliveryAssumption ==
    /\ CuratedLimit \in Nat \ {0}
    /\ NoRow \notin [name : ArmNames, shared : BOOLEAN]
    /\ RoomSeq \in Seq(ToSet(RoomSeq))
    /\ \A i, k \in RoomNos : RoomSeq[i].id = RoomSeq[k].id => i = k
    /\ \A i \in RoomNos :
          /\ GoldsValid(RoomSeq[i]) /\ ProbesValid(RoomSeq[i])
          /\ RoomSeq[i].probes \in Seq(ToSet(RoomSeq[i].probes))
          /\ \A output \in Outputs[RoomSeq[i].id] : OutputValid(output)

VARIABLES
    room_arm,       \* [name, shared], or NoRow before the run
    jobs,           \* what is left to do, as <<step, room number>>; a probe with its place
    stored,         \* the documents of all services -> what they say
    opened,         \* sessions: [service, room, new]
    attached,       \* <<session, document>>
    views,          \* room id -> its memories
    write_sides,    \* the write side of each room scored so far
    room_row,       \* [new, room, hit, source_hit, stale, correct]: the last probe's
    room_outcome    \* "running", "raised", "ended"

roomVars == <<room_arm, jobs, stored, opened, attached, views, write_sides, room_row,
              room_outcome>>

-------------------------------------------------------------------------------
Curating == room_arm.name \in {"oracle", "curated"}
RawLike == ~Curating
\* One service for all rooms of a project; else one for each room.
Pooled == room_arm.name = "raw_project" \/ (room_arm.shared /\ Curating)

ServiceOf(r) == IF Pooled THEN <<r.project>> ELSE <<r.project, r.id>>
SessionOf(r, new) == [service |-> ServiceOf(r), room |-> r.id, new |-> new]
RoomsOf(project) == {RoomSeq[i] : i \in {k \in RoomNos : RoomSeq[k].project = project}}
HasNewRoomProbes(r) == \E p \in ToSet(r.probes) : p.new

\* Activity documents are qualified by their room where rooms share a service.
ActivityDoc(r, message) ==
    [service |-> ServiceOf(r), layer |-> "activity",
     room |-> IF Pooled \/ room_arm.name = "full_context" THEN r.id ELSE NoRoom, id |-> message]
ActivityDocs(r) == {ActivityDoc(r, message) : message \in r.messages}

MemoryDoc(r, v) ==
    [service |-> ServiceOf(r), layer |-> "memory", room |-> v.room, id |-> v.id]

CrossScope(v) == ScopeForKind(v.kind) \in {"project", "user"}
OwnDocs(r, memories) == {MemoryDoc(r, v) : v \in memories}

\* _qualified_oracle_views: gold ids are unique in a room only.
OracleViews(r) ==
    {[id |-> g.id, kind |-> g.kind, topic |-> g.topic, statement |-> g.statement,
      sources |-> g.sources, grounded |-> TRUE,
      status |-> IF g.superseded_by # 0 THEN "superseded" ELSE "active",
      room |-> IF Pooled THEN r.id ELSE NoRoom] : g \in r.golds}

\* list_curated_memories: the newest rows only.
ReadBack(memories) ==
    {v \in memories : Cardinality({w \in memories : w.id > v.id}) < CuratedLimit}

-------------------------------------------------------------------------------
Each(steps, numbers) ==
    [k \in 1..(Len(steps) * Len(numbers)) |->
        <<steps[((k - 1) % Len(steps)) + 1], numbers[((k - 1) \div Len(steps)) + 1]>>]

ProbesOf(i) == [k \in DOMAIN RoomSeq[i].probes |-> <<"probe", i, k>>]
Numbered == [i \in RoomNos |-> i]
Scoring(i) == <<<<"write_side", i>>>> \o ProbesOf(i)
OfProject(project) == Kept(Numbered, {i \in RoomNos : RoomSeq[i].project = project})

\* _rooms_by_project: in the order of their first rooms.
Projects ==
    LET first == Kept(Numbered, {i \in RoomNos : \A k \in 1..(i - 1) :
                                     RoomSeq[k].project # RoomSeq[i].project})
    IN  [i \in DOMAIN first |-> RoomSeq[first[i]].project]

\* What is done with the rooms of a project before any is scored, in a pooled arm.
BeforeScoring(arm, numbers) ==
    IF arm.name = "raw_project"
      THEN Each(<<"ingest">>, numbers) \o Each(<<"share">>, numbers)
               \o Each(<<"open", "share_new">>, numbers)
      ELSE Each(<<"ingest", "curate", "deliver">>, numbers)
               \o Each(<<"open">>, numbers) \o Each(<<"share", "share_new">>, numbers)

\* And with one room, in any other.
Alone(arm) ==
    CASE arm.name = "full_context" -> <<>>
      [] arm.name = "raw" -> <<"ingest", "open">>
      [] OTHER -> <<"ingest", "curate", "open", "deliver", "share_new">>

AllScored == Joined(<<>>, [i \in RoomNos |-> Scoring(i)], Len(RoomSeq))

\* The order of run_roommem: a pooled arm builds the contexts of all projects
\* and then scores its rooms, any other builds and scores room by room.
PlanOf(arm) ==
    IF arm.name = "raw_project" \/ (arm.shared /\ arm.name \in {"oracle", "curated"})
      THEN Joined(<<>>, [i \in DOMAIN Projects |-> BeforeScoring(arm, OfProject(Projects[i]))],
                  Len(Projects)) \o AllScored
      ELSE Joined(<<>>, [i \in RoomNos |-> Each(Alone(arm), <<i>>) \o Scoring(i)], Len(RoomSeq))

Doing(step) == room_outcome = "running" /\ jobs # <<>> /\ Head(jobs)[1] = step
Now == RoomSeq[Head(jobs)[2]]
Done == jobs' = Tail(jobs)

-------------------------------------------------------------------------------
StartRooms(arm) ==
    /\ room_arm = NoRow
    /\ room_arm' = arm
    /\ jobs' = PlanOf(arm)
    /\ room_outcome' = "running"
    /\ UNCHANGED <<stored, opened, attached, views, write_sides, room_row>>

\* ingest_archive_document refuses an id that is bound to something else.
Store(docs, session) ==
    IF \E d \in DOMAIN docs \cap DOMAIN stored : docs[d] # stored[d]
      THEN room_outcome' = "raised" /\ UNCHANGED <<stored, attached>>
      ELSE /\ stored' = docs @@ stored
           /\ attached' = attached \cup ({session} \X DOMAIN docs)
           /\ UNCHANGED room_outcome

\* _ingest_room: the room's session, its messages, and a document for each.
IngestRoom ==
    /\ Doing("ingest")
    /\ opened' = opened \cup {SessionOf(Now, FALSE)}
    /\ Store([d \in ActivityDocs(Now) |-> <<Now.id, d.id>>], SessionOf(Now, FALSE))
    /\ Done
    /\ UNCHANGED <<room_arm, views, write_sides, room_row>>

\* What a curated source hands over; _validate_curated_views raises on a source
\* that is not in the room or is not quoted.
CurateRoom(output) ==
    /\ Doing("curate")
    /\ LET memories == IF room_arm.name = "oracle" THEN OracleViews(Now) ELSE ReadBack(output)
       IN  IF /\ \A v \in memories : v.grounded
              /\ \A v, w \in memories : v.id = w.id => v = w
             THEN /\ views' = [views EXCEPT ![Now.id] = memories]
                  /\ UNCHANGED room_outcome
             ELSE room_outcome' = "raised" /\ UNCHANGED views
    /\ Done
    /\ UNCHANGED <<room_arm, stored, opened, attached, write_sides, room_row>>

\* The active memories become documents of their room's session.
DeliverMemories ==
    /\ Doing("deliver")
    /\ Store([d \in OwnDocs(Now, Active(views[Now.id])) |->
                 {v.statement : v \in {w \in Active(views[Now.id]) : MemoryDoc(Now, w) = d}}],
             SessionOf(Now, FALSE))
    /\ Done
    /\ UNCHANGED <<room_arm, opened, views, write_sides, room_row>>

OpenNewRoom ==
    /\ Doing("open")
    /\ opened' = IF HasNewRoomProbes(Now) THEN opened \cup {SessionOf(Now, TRUE)} ELSE opened
    /\ Done
    /\ UNCHANGED <<room_arm, stored, attached, views, write_sides, room_row, room_outcome>>

\* Mutant of SharedDocs: the scope of a memory is not looked at.
SharedDocsOfAnyScope(r) ==
    UNION {OwnDocs(o, Active(views[o.id])) :
              o \in IF Pooled THEN RoomsOf(r.project) ELSE {r}}

\* What the rooms of a project share: the project's and the user's memories.
SharedDocs(r) ==
    UNION {OwnDocs(o, {v \in Active(views[o.id]) : CrossScope(v)}) :
              o \in IF Pooled THEN RoomsOf(r.project) ELSE {r}}

ProjectDocs(r) == UNION {ActivityDocs(o) : o \in RoomsOf(r.project)}

ToShare(r) == IF room_arm.name = "raw_project" THEN ProjectDocs(r) ELSE SharedDocs(r)

AttachAll(session, docs) == attached' = attached \cup ({session} \X docs)

\* Every document but the room's own, which are attached already.
ShareWithRoom ==
    /\ Doing("share")
    /\ AttachAll(SessionOf(Now, FALSE),
                 ToShare(Now) \ (ActivityDocs(Now) \cup OwnDocs(Now, views[Now.id])))
    /\ Done
    /\ UNCHANGED <<room_arm, stored, opened, views, write_sides, room_row, room_outcome>>

ShareWithNewRoom ==
    /\ Doing("share_new")
    /\ IF HasNewRoomProbes(Now)
         THEN AttachAll(SessionOf(Now, TRUE), ToShare(Now))
         ELSE UNCHANGED attached
    /\ Done
    /\ UNCHANGED <<room_arm, stored, opened, views, write_sides, room_row, room_outcome>>

ScoreRoom(judged) ==
    /\ Doing("write_side")
    /\ judged \subseteq views[Now.id]
    /\ write_sides' = IF Curating
                        THEN Append(write_sides,
                                    ScoreWriteSide(views[Now.id], Now.golds, Now.noise, judged))
                        ELSE write_sides
    /\ Done
    /\ UNCHANGED <<room_arm, stored, opened, attached, views, room_row, room_outcome>>

-------------------------------------------------------------------------------
Attached(session) == {d \in DOMAIN stored : <<session, d>> \in attached}
MessageItems(r) ==
    {[service |-> ServiceOf(r), layer |-> "message", room |-> r.id, id |-> m] : m \in r.messages}

\* What a question may bring back; the arm full_context hands over everything.
Evidence(r, new) ==
    IF room_arm.name = "full_context" THEN {ProjectDocs(r)}
    ELSE SUBSET (Attached(SessionOf(r, new)) \cup (IF new THEN {} ELSE MessageItems(r)))

\* _activity_dataset_message_id: documents of other rooms are not this room's.
MessageOf(r, item) ==
    IF item.layer = "message" \/ (item.layer = "activity" /\ item.room \in {r.id, NoRoom})
      THEN {item.id} ELSE {}

MemoryOf(item) == IF item.layer = "memory" THEN {<<item.room, item.id>>} ELSE {}
IdsOfViews(memories) == {<<v.room, v.id>> : v \in memories}

\* _score_probe; "correct": some item is one an answer may rightly cite.
RowOf(r, p, matches, evidence) ==
    LET answers  == {g \in r.golds : g.id \in p.answers}
        topics   == {g.topic : g \in answers}
        sources  == UNION {g.sources : g \in answers}
        wanted   == IdsOfViews(UNION {MatchedTo(matches, g) : g \in answers})
        messages == UNION {MessageOf(r, item) : item \in evidence}
        memories == UNION {MemoryOf(item) : item \in evidence}
        present(g) == \/ g.sources \cap messages # {}
                      \/ ~RawLike /\ IdsOfViews(MatchedTo(matches, g)) \cap memories # {}
    IN  [room |-> r.id, new |-> p.new,
         source_hit |-> sources \cap messages # {},
         hit |-> IF RawLike THEN sources \cap messages # {} ELSE wanted \cap memories # {},
         stale |-> \E g \in Superseded(r.golds) :
                      /\ g.topic \in topics /\ g.sources \cap messages # {}
                      /\ \E h \in SuccessorsOf(r.golds, g) : ~present(h),
         correct |-> \E item \in evidence :
                         \/ MessageOf(r, item) \cap sources # {}
                         \/ ~RawLike /\ MemoryOf(item) \cap wanted # {},
         wanted |-> wanted]

AskProbe ==
    /\ Doing("probe")
    /\ LET p       == Now.probes[Head(jobs)[3]]
           matches == Matches(views[Now.id], Now.golds)
       IN  \E evidence \in Evidence(Now, p.new) : room_row' = RowOf(Now, p, matches, evidence)
    /\ Done
    /\ UNCHANGED <<room_arm, stored, opened, attached, views, write_sides, room_outcome>>

EndRooms ==
    /\ room_outcome = "running" /\ jobs = <<>>
    /\ room_outcome' = "ended"
    /\ write_sides' = IF write_sides = <<>> THEN <<>> ELSE <<Pool(write_sides)>>
    /\ UNCHANGED <<room_arm, jobs, stored, opened, attached, views, room_row>>

RoomsInit ==
    /\ room_arm = NoRow /\ jobs = <<>>
    /\ stored = <<>> /\ opened = {} /\ attached = {}
    /\ views = [id \in {RoomSeq[i].id : i \in RoomNos} |-> {}]
    /\ write_sides = <<>> /\ room_row = NoRow
    /\ room_outcome = "none"

RoomsStep ==
    \/ \E name \in ArmNames, shared \in BOOLEAN : StartRooms([name |-> name, shared |-> shared])
    \/ IngestRoom
    \/ \E output \in IF Doing("curate") THEN Outputs[Now.id] ELSE {} : CurateRoom(output)
    \/ DeliverMemories \/ OpenNewRoom \/ ShareWithRoom \/ ShareWithNewRoom
    \/ \E judged \in IF Doing("write_side") THEN SUBSET views[Now.id] ELSE {} : ScoreRoom(judged)
    \/ AskProbe \/ EndRooms

RoomsSpec == RoomsInit /\ [][RoomsStep]_roomVars

-------------------------------------------------------------------------------
\* What a session of a room is meant to see (_SharedMemoryProject, _RawProject).
MayHave(r, new, d) ==
    \/ d \in ActivityDocs(r) /\ ~new
    \/ d \in ProjectDocs(r) /\ room_arm.name = "raw_project"
    \/ \E o \in RoomsOf(r.project) : \E v \in Active(views[o.id]) :
          /\ d = MemoryDoc(o, v)
          /\ \/ o = r /\ ~new
             \/ CrossScope(v) /\ (o = r \/ Pooled)

\* When a room is scored, each of its sessions has just the documents it may
\* have: its own room's, the project's and the user's active memories of every
\* room that shares the service, never a superseded one, one of another
\* project, or a room's own in a new room (_build_shared_memory_project,
\* _build_raw_project_context, _run_room_arm).  So a probe that hits does so on
\* an active memory that was delivered, a probe in a new room of a curated arm
\* neither hits a source message nor is stale, and an answer can cite something
\* right exactly when the evidence hits.
RoomsSeeWhatTheyMay ==
    /\ \A r \in ToSet(RoomSeq) : \A s \in opened :
          (s.room = r.id /\ Doing("write_side") /\ Now = r) =>
              \A d \in DOMAIN stored : <<s, d>> \in attached <=> MayHave(r, s.new, d)
    /\ room_row # NoRow =>
          /\ room_row.correct <=> (room_row.hit \/ room_row.source_hit)
          /\ RawLike => room_row.hit = room_row.source_hit
          /\ room_row.new /\ Curating => ~room_row.source_hit /\ ~room_row.stale
          /\ room_row.hit /\ Curating =>
                \E v \in Active(views[room_row.room]) :
                    <<v.room, v.id>> \in room_row.wanted /\ (room_row.new => CrossScope(v))
          /\ room_arm.name = "full_context" => room_row.source_hit /\ ~room_row.stale

\* The write side of every room: the matching leaves no pair that would rather
\* be matched; the counts bound each other, room by room and pooled; where the
\* gold has one current memory to a topic, two active memories under different
\* keys miss a conflict only beside one that is stale; and the oracle arm is the
\* upper bound its docstring says, every gold memory found and every supersede
\* known (score_write_side, oracle_curated_memories).
WriteSideSound ==
    /\ \A i \in DOMAIN write_sides : CountsAgree(write_sides[i])
    /\ Doing("write_side") =>
          LET memories == views[Now.id]
              matches  == Matches(memories, Now.golds)
          IN  /\ StableMatching(memories, Now.golds, matches)
              /\ OneCurrentPerTopic(Now.golds) /\ MissedConflicts(memories, Now.golds) # {} =>
                    \E g \in Superseded(Now.golds) : MatchedTo(matches, g) \subseteq Active(memories)
    /\ room_arm # NoRow /\ room_arm.name = "oracle" =>
          \A i \in DOMAIN write_sides :
             /\ write_sides[i].matched = write_sides[i].gold
             /\ write_sides[i].kind_matches = write_sides[i].matched
             /\ write_sides[i].supersede_correct = write_sides[i].superseded_gold
             /\ write_sides[i].chain_key_consistent = write_sides[i].chain_pairs
===============================================================================
