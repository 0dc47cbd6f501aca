-------------------------------- MODULE Curate --------------------------------
(***************************************************************************)
(* The pure core of the curator (src/memoryos_lite/curator/curate.py): the *)
(* validation of one LLM reply against its request, and the consolidation  *)
(* of a checked reply into new memory versions.                            *)
(*                                                                         *)
(* A reply is parsed JSON: sequences of lessons, assignments, memory       *)
(* proposals and conflicts whose unusable fields hold the No... values.  A *)
(* quoted source is the activity it grounds in (grounding.repair_quote),   *)
(* or NoActivity.  A memory's id is derived from its content, so the       *)
(* record stands for its id.  `place` is an item's position in the reply.  *)
(* Wording and the diagnostics counters are left out.                      *)
(***************************************************************************)
EXTENDS Lists, SequencesExt, FiniteSetsExt

CONSTANTS
    Activity,          \* ids of the activities of a scope
    Failure,           \* those that are a review_objection or gate_failure
    SeqNo,             \* SeqNo[a]: the `seq` the host gave activity a
    Topics,            \* normalized topic keys
    Statements,        \* statements up to case and white space
    MaxSources,        \* MAX_SOURCES
    MaxLessonSources,  \* MAX_LESSON_SOURCES
    NoActivity, NoTopic, NoStatement, NoMemory,
    Dismiss, NoTarget  \* an assignment's target: dismissed, or unusable

ASSUME CurateAssumption ==
    /\ Failure \subseteq Activity /\ NoActivity \notin Activity
    /\ SeqNo \in [Activity -> Nat]
    /\ NoTopic \notin Topics /\ NoStatement \notin Statements
    /\ Dismiss \notin Topics /\ NoTarget \notin Topics \cup {Dismiss}
    /\ MaxSources \in Nat \ {0} /\ MaxLessonSources \in Nat \ {0}

Profiles == {"module", "room", "collab"}

\* PROFILE_MEMORY_KINDS
MemoryKinds ==
    [module |-> {"decision", "fact"},
     room   |-> {"fact", "decision", "rule", "preference", "lesson"},
     collab |-> {"decision", "convention", "assumption", "question", "lesson"}]

-------------------------------------------------------------------------------
\* The request.

\* CurateMemory: what a caller sends as active.  An id is not a topic key.
SentMemories(active) ==
    /\ IsFiniteSet(active)
    /\ \A m \in active :
          /\ m.topic_key \in Topics
          /\ m.version \in Nat /\ m.occurrences \in Nat
          /\ m.sources \in Seq(Activity)
          /\ m # NoMemory /\ m \notin Topics

Known(req) == req.context \cup req.window

Failures(req) == req.window \cap Failure

ActiveLessons(req) == {m \in req.active : m.kind = "lesson"}

ActiveOthers(req) == req.active \ ActiveLessons(req)

Questions(req) == {m \in req.active : m.kind = "question"}

-------------------------------------------------------------------------------
\* Validation of one reply (check_reply).

\* A reply that is not a JSON object.
NoReply ==
    [json |-> FALSE, lessons |-> <<>>, assignments |-> <<>>, memories |-> <<>>,
     conflicts |-> <<>>]

Usable(item) == item.topic_key # NoTopic /\ item.statement # NoStatement

\* The first usable entry of a topic key states the lesson (setdefault).
ParsedLessons(reply) ==
    LET places(t) == {i \in DOMAIN reply.lessons :
                        Usable(reply.lessons[i]) /\ reply.lessons[i].topic_key = t}
    IN  [t \in {t \in Topics : places(t) # {}} |-> reply.lessons[Min(places(t))].statement]

LessonKeys(req, reply) ==
    {m.topic_key : m \in ActiveLessons(req)} \cup DOMAIN ParsedLessons(reply)

ValidAssignment(req, reply, a) ==
    /\ a.activity_id \in Failures(req)
    /\ \/ a.target = Dismiss
       \/ a.target \in LessonKeys(req, reply) /\ a.grounded

\* The first valid assignment of each failure.
Accepted(req, reply) ==
    {i \in DOMAIN reply.assignments :
        /\ ValidAssignment(req, reply, reply.assignments[i])
        /\ \A j \in 1..(i - 1) :
              ~ /\ ValidAssignment(req, reply, reply.assignments[j])
                /\ reply.assignments[j].activity_id = reply.assignments[i].activity_id}

ParsedAssignments(req, reply) ==
    {[place |-> i, activity_id |-> reply.assignments[i].activity_id,
      lesson |-> IF reply.assignments[i].target = Dismiss
                   THEN NoTopic ELSE reply.assignments[i].target] : i \in Accepted(req, reply)}

\* Mutant of Unaccounted: a failure is accounted for once any item names it.
UnaccountedUnnamed(req, reply) ==
    Failures(req) \ {reply.assignments[i].activity_id : i \in DOMAIN reply.assignments}

Unaccounted(req, reply) ==
    Failures(req) \ {a.activity_id : a \in ParsedAssignments(req, reply)}

\* _drop_lessons_without_failures
KeptLessons(req, reply) ==
    DOMAIN ParsedLessons(reply) \cap {a.lesson : a \in ParsedAssignments(req, reply)}

ValidMemory(req, p) ==
    /\ p.kind \in MemoryKinds[req.profile]
    /\ Usable(p)
    /\ Len(p.sources) \in 1..MaxSources
    /\ ToSet(p.sources) \subseteq Known(req)
    /\ req.profile = "collab" => p.resolves \subseteq Questions(req)

\* The newest seq a proposal quotes.
ProposalVersion(p) == Max({SeqNo[a] : a \in ToSet(p.sources)})

ParsedMemories(req, reply) ==
    {[place |-> Len(reply.assignments) + i, kind |-> reply.memories[i].kind,
      topic_key |-> reply.memories[i].topic_key, statement |-> reply.memories[i].statement,
      sources |-> reply.memories[i].sources,
      version |-> ProposalVersion(reply.memories[i]),
      resolves |-> IF req.profile = "collab" THEN reply.memories[i].resolves ELSE {}] :
        i \in {i \in DOMAIN reply.memories : ValidMemory(req, reply.memories[i])}}

\* Mutant of ValidConflict: two new sides are accepted.
ValidConflictBothNew(req, reply, c) ==
    LET proposed == {p.topic_key : p \in ParsedMemories(req, reply)}
    IN  {c.a, c.b} \subseteq req.active \cup proposed /\ c.a # c.b /\ c.grounded

\* A conflict joins two different sides, each an active id or the topic key of a
\* memory proposed in this reply, and at most one of them new.
ValidConflict(req, reply, c) ==
    LET proposed == {p.topic_key : p \in ParsedMemories(req, reply)}
        sides == {c.a, c.b}
    IN  /\ sides \subseteq req.active \cup proposed
        /\ c.a # c.b
        /\ sides \cap req.active # {}
        /\ c.grounded

ParsedConflicts(req, reply) ==
    {{reply.conflicts[i].a, reply.conflicts[i].b} :
        i \in {i \in DOMAIN reply.conflicts : ValidConflict(req, reply, reply.conflicts[i])}}

\* The rules of check_reply, and whether the reply keeps each.
RulesKept(req, reply) ==
    [lessons |-> \A i \in DOMAIN reply.lessons : Usable(reply.lessons[i]),
     assignments |-> DOMAIN reply.assignments = Accepted(req, reply),
     accounted |-> Unaccounted(req, reply) = {},
     lesson_failures |-> DOMAIN ParsedLessons(reply) = KeptLessons(req, reply),
     memories |-> \A i \in DOMAIN reply.memories : ValidMemory(req, reply.memories[i]),
     conflicts |-> req.profile = "collab" =>
                     \A i \in DOMAIN reply.conflicts :
                        ValidConflict(req, reply, reply.conflicts[i])]

NotJson == "reply_not_json"

\* A reply that is not a JSON object carries nothing.
CheckNothing(req) ==
    [violations |-> {NotJson}, assignments |-> {}, lessons |-> <<>>, memories |-> {},
     conflicts |-> {}, unaccounted |-> Failures(req)]

CheckReply(req, reply) ==
    IF ~reply.json THEN CheckNothing(req)
    ELSE LET kept == RulesKept(req, reply) IN
         [violations |-> {r \in DOMAIN kept : ~kept[r]},
          assignments |-> ParsedAssignments(req, reply),
          lessons |-> [t \in KeptLessons(req, reply) |-> ParsedLessons(reply)[t]],
          memories |-> ParsedMemories(req, reply),
          conflicts |-> IF req.profile = "collab" THEN ParsedConflicts(req, reply) ELSE {},
          unaccounted |-> Unaccounted(req, reply)]

-------------------------------------------------------------------------------
\* Consolidation of a checked reply (consolidate).

\* _newest: greatest (version, id); the order of the ids is their hashes'.
Newest(memories) ==
    IF memories = {} THEN NoMemory
    ELSE CHOOSE m \in memories : \A n \in memories : n.version <= m.version

OfTopic(memories, t) == {m \in memories : m.topic_key = t}

\* Mutant of Supersedes: the version does not name what it replaces.
SupersedesNothing(prior) == {}

Supersedes(prior) == {prior} \ {NoMemory}

\* The occurrences of a lesson: the failures assigned to it, then the lesson
\* proposals on its topic key.
Occurrences(check, t) ==
    {[place |-> a.place, sources |-> <<a.activity_id>>, version |-> SeqNo[a.activity_id]] :
        a \in {a \in check.assignments : a.lesson = t}}
    \cup {[place |-> p.place, sources |-> p.sources, version |-> p.version] :
            p \in {p \in OfTopic(check.memories, t) : p.kind = "lesson"}}

Cited(prior) == IF prior = NoMemory THEN {} ELSE ToSet(prior.sources)

\* Mutant of FreshSources: what the prior version cites is counted again.
FreshSourcesAll(prior, occurrences, o) == o.sources

\* The sources of an occurrence that neither the prior version nor an earlier
\* occurrence of the reply cites.
FreshSources(prior, occurrences, o) ==
    LET earlier == {e \in occurrences : e.place < o.place}
        cited == Cited(prior) \cup UNION {ToSet(e.sources) : e \in earlier}
    IN  Kept(o.sources, {i \in DOMAIN o.sources : o.sources[i] \notin cited})

AddedOccurrences(prior, occurrences) ==
    {o \in occurrences : FreshSources(prior, occurrences, o) # <<>>}

LastOf(s, n) == SubSeq(s, IF n < Len(s) THEN Len(s) - n + 1 ELSE 1, Len(s))

\* The fresh sources of each occurrence follow the prior version's, in the order
\* of their places.
LessonSources(prior, occurrences) ==
    LET places == {o.place : o \in occurrences}
        at(n) == CHOOSE o \in occurrences : o.place = Nth(places, n)
        fresh == [n \in 1..Cardinality(places) |-> FreshSources(prior, occurrences, at(n))]
        before == IF prior = NoMemory THEN <<>> ELSE prior.sources
    IN  LastOf(Joined(before, fresh, Cardinality(places)), MaxLessonSources)

\* A lesson proposal states the lesson, the last one of its topic key; else the
\* entry of "lessons" does, else the prior version.
LessonStatement(check, prior, t) ==
    LET proposed == {p \in OfTopic(check.memories, t) : p.kind = "lesson"}
    IN  IF proposed # {}
          THEN (CHOOSE p \in proposed : \A q \in proposed : q.place <= p.place).statement
        ELSE IF t \in DOMAIN check.lessons THEN check.lessons[t]
        ELSE prior.statement

\* Mutant of LessonVersion: the version is the newest of this window only.
LessonVersionOfWindow(prior, added) == Max({o.version : o \in added})

LessonVersion(prior, added) ==
    Max({o.version : o \in added} \cup {m.version : m \in Supersedes(prior)})

NewLessons(req, check) ==
    LET prior(t) == Newest(OfTopic(ActiveLessons(req), t))
        added(t) == AddedOccurrences(prior(t), Occurrences(check, t))
        lesson(t) ==
            [kind |-> "lesson", topic_key |-> t,
             statement |-> LessonStatement(check, prior(t), t),
             version |-> LessonVersion(prior(t), added(t)),
             occurrences |-> Cardinality(added(t))
                             + (IF prior(t) = NoMemory THEN 0 ELSE prior(t).occurrences),
             sources |-> LessonSources(prior(t), Occurrences(check, t)),
             resolves |-> {}]
    IN  {[memory |-> lesson(t), supersedes |-> Supersedes(prior(t))] :
            t \in {t \in Topics : added(t) # {}}}

\* The winner of a topic key: the newest proposal, the last one of equals.
Winners(check) ==
    LET others == {p \in check.memories : p.kind # "lesson"}
    IN  {p \in others : \A q \in OfTopic(others, p.topic_key) :
            \/ q.version < p.version
            \/ q.version = p.version /\ q.place <= p.place}

\* Under collab a statement an agent declared itself is not proposed again.
Declared(req) ==
    IF req.profile = "collab" THEN {m.statement : m \in req.active} ELSE {}

\* Mutant of Fresher: a proposal older than the active memory replaces it.
FresherStale(req, prior, p) ==
    /\ prior # NoMemory => prior.statement # p.statement
    /\ p.statement \notin Declared(req)

\* Neither a restatement (a noop) nor older than the active memory (stale).
Fresher(req, prior, p) ==
    /\ prior # NoMemory => prior.statement # p.statement /\ prior.version <= p.version
    /\ p.statement \notin Declared(req)

NewOthers(req, check) ==
    LET prior(p) == Newest(OfTopic(ActiveOthers(req), p.topic_key))
    IN  {[memory |-> [kind |-> p.kind, topic_key |-> p.topic_key, statement |-> p.statement,
                      version |-> p.version, occurrences |-> 1, sources |-> p.sources,
                      resolves |-> p.resolves],
          supersedes |-> Supersedes(prior(p))] :
            p \in {p \in Winners(check) : Fresher(req, prior(p), p)}}

\* The id a topic key stands for in a conflict: its new version's, else its
\* newest active memory's.
ReferredId(req, lessons, others, t) ==
    LET new(versions) == OfTopic({v.memory : v \in versions}, t)
    IN  IF new(others) # {} THEN Newest(new(others))
        ELSE IF new(lessons) # {} THEN Newest(new(lessons))
        ELSE Newest(OfTopic(req.active, t))

\* _conflicts: pairs of distinct ids; a side without one drops the conflict.
ReportedConflicts(req, check, lessons, others) ==
    LET id(side) == IF side \in Topics THEN ReferredId(req, lessons, others, side) ELSE side
        pairs == {{id(side) : side \in c} : c \in check.conflicts}
    IN  {pair \in pairs : NoMemory \notin pair /\ Cardinality(pair) = 2}

Consolidate(req, check) ==
    LET lessons == NewLessons(req, check)
        others == NewOthers(req, check)
    IN  [memories |-> lessons \cup others,
         assignments |-> check.assignments,
         unaccounted |-> check.unaccounted,
         conflicts |-> ReportedConflicts(req, check, lessons, others)]
===============================================================================
