------------------------------ MODULE CurateProofs ------------------------------
(***************************************************************************)
(* Theorems about one curate request: closed-world accounting of failures, *)
(* the new versions and the conflicts of its answer, and the record of     *)
(* provider attempts, for every set of requests, every reply and every     *)
(* value of the bounds.                                                    *)
(*                                                                         *)
(* And about a host of the curate graph: that it counts each failure once, *)
(* and that a window sent again with its answer changes nothing, for every *)
(* number of activities and topic keys, however long the windows and the   *)
(* replies are, as long as no window holds more failures than a lesson     *)
(* keeps sources.                                                          *)
(***************************************************************************)
EXTENDS CurateGraph, CurateHost, CollectionLemmas, FiniteSetTheorems, TLAPS

-------------------------------------------------------------------------------
\* Greatest versions.

LEMMA FiniteImage ==
  ASSUME NEW S, IsFiniteSet(S), NEW f
  PROVE  IsFiniteSet({f[x] : x \in S})
<1> DEFINE T == {f[x] : x \in S}
           g == [x \in S |-> f[x]]
<1>1. g \in Surjection(S, T)
  BY DEF Surjection
<1> HIDE DEF g, T
<1>2. IsFiniteSet(T)
  BY <1>1, FS_Surjection
<1> QED
  BY <1>2 DEF T

LEMMA MaxIsGreatest ==
  ASSUME NEW S, IsFiniteSet(S), S # {}, S \subseteq Nat
  PROVE  Max(S) \in S /\ \A y \in S : y <= Max(S)
<1> DEFINE f == [x \in S |-> x]
<1>1. \A x \in S : f[x] = x /\ f[x] \in Nat
  OBVIOUS
<1> HIDE DEF f
<1>2. PICK x \in S : \A y \in S : f[y] <= f[x]
  BY <1>1, GreatestNumber
<1>3. \A y \in S : x >= y
  BY <1>1, <1>2
<1>4. Max(S) \in S /\ \A y \in S : Max(S) >= y
  BY <1>3, Zenon DEF Max
<1> QED
  BY <1>4

\* The newest of a caller's memories of one topic key, when it has one.
LEMMA NewestIsGreatest ==
  ASSUME NEW S, IsFiniteSet(S), \A m \in S : m.version \in Nat
  PROVE  /\ S = {} => Newest(S) = NoMemory
         /\ S # {} => Newest(S) \in S /\ \A n \in S : n.version <= Newest(S).version
<1>1. CASE S = {}
  BY <1>1 DEF Newest
<1>2. CASE S # {}
  <2> DEFINE f == [m \in S |-> m.version]
  <2>1. \A m \in S : f[m] = m.version /\ f[m] \in Nat
    OBVIOUS
  <2> HIDE DEF f
  <2>2. PICK m \in S : \A n \in S : f[n] <= f[m]
    BY <1>2, <2>1, GreatestNumber
  <2>3. \A n \in S : n.version <= m.version
    BY <2>1, <2>2
  <2>4. Newest(S) = CHOOSE k \in S : \A n \in S : n.version <= k.version
    BY <1>2 DEF Newest
  <2> QED
    BY <1>2, <2>3, <2>4, Zenon
<1> QED
  BY <1>1, <1>2

\* The version of a proposal is the greatest seq it quotes.
LEMMA ProposalVersionIsGreatest ==
  ASSUME NEW p, p.sources \in Seq(Activity), Len(p.sources) > 0
  PROVE  /\ ProposalVersion(p) \in Nat
         /\ \E a \in ToSet(p.sources) : ProposalVersion(p) = SeqNo[a]
         /\ \A a \in ToSet(p.sources) : SeqNo[a] <= ProposalVersion(p)
<1> DEFINE s == p.sources
           A == ToSet(s)
           V == {SeqNo[a] : a \in A}
<1>1. A = {s[i] : i \in 1..Len(s)} /\ Len(s) \in Nat
  BY DEF ToSet
<1>2. IsFiniteSet(A)
  <2> HIDE DEF A, s
  <2> QED
    BY <1>1, FewElements
<1>3. A \subseteq Activity /\ A # {}
  <2>1. \A i \in 1..Len(s) : s[i] \in Activity
    OBVIOUS
  <2>2. 1 \in 1..Len(s)
    BY <1>1
  <2> QED
    BY <1>1, <2>1, <2>2
<1>4. ProposalVersion(p) = Max(V)
  BY DEF ProposalVersion
<1> HIDE DEF A
<1>5. V \subseteq Nat /\ V # {}
  BY <1>3, CurateAssumption
<1>6. IsFiniteSet(V)
  BY <1>2, FiniteImage
<1>7. Max(V) \in V /\ \A y \in V : y <= Max(V)
  <2> HIDE DEF V
  <2> QED
    BY <1>5, <1>6, MaxIsGreatest
<1> QED
  BY <1>4, <1>5, <1>7 DEF A, s

-------------------------------------------------------------------------------
\* The check of one reply accounts for each failure.

Accounted(req, assignments, unaccounted) ==
    \A f \in Activity :
        LET mine == {a \in assignments : a.activity_id = f} IN
        IF f \in Failures(req)
          THEN Cardinality(mine) = IF f \in unaccounted THEN 0 ELSE 1
          ELSE mine = {} /\ f \notin unaccounted

\* Each failure of the request has at most one accepted assignment, and only
\* failures have one.
LEMMA AcceptedAreDistinct ==
    ASSUME NEW req, NEW answer, NEW n \in Nat, DOMAIN answer.assignments = 1..n
    PROVE  \A a \in ParsedAssignments(req, answer) :
              /\ a.activity_id \in Failures(req)
              /\ \A b \in ParsedAssignments(req, answer) :
                    a.activity_id = b.activity_id => a = b
<1> DEFINE item(i) == answer.assignments[i]
<1> DEFINE Entry(i) == [place |-> i, activity_id |-> item(i).activity_id,
                        lesson |-> IF item(i).target = Dismiss
                                     THEN NoTopic ELSE item(i).target]
<1>1. ParsedAssignments(req, answer) = {Entry(i) : i \in Accepted(req, answer)}
  BY DEF ParsedAssignments
<1>2. \A i \in Accepted(req, answer) :
         /\ i \in 1..n
         /\ ValidAssignment(req, answer, item(i))
         /\ \A j \in 1..(i - 1) :
               ~(ValidAssignment(req, answer, item(j)) /\ item(j).activity_id = item(i).activity_id)
  BY DEF Accepted
<1>3. \A i \in Accepted(req, answer) : item(i).activity_id \in Failures(req)
  BY <1>2 DEF ValidAssignment
<1>4. ASSUME NEW i \in Accepted(req, answer), NEW j \in Accepted(req, answer),
             item(i).activity_id = item(j).activity_id
      PROVE  i = j
  <2>1. i \in 1..n /\ j \in 1..n
    BY <1>2
  <2>2. ~(i < j)
    <3> SUFFICES ASSUME i < j PROVE FALSE
      OBVIOUS
    <3>1. i \in 1..(j - 1)
      BY <2>1
    <3> QED
      BY <3>1, <1>2, <1>4
  <2>3. ~(j < i)
    <3> SUFFICES ASSUME j < i PROVE FALSE
      OBVIOUS
    <3>1. j \in 1..(i - 1)
      BY <2>1
    <3> QED
      BY <3>1, <1>2, <1>4
  <2> QED
    BY <2>1, <2>2, <2>3
<1>5. \A i \in Accepted(req, answer) : Entry(i).activity_id = item(i).activity_id
  OBVIOUS
<1> HIDE DEF Entry
<1>6. ASSUME NEW a \in ParsedAssignments(req, answer)
      PROVE  \E i \in Accepted(req, answer) : a = Entry(i)
  BY <1>1
<1>7. ASSUME NEW a \in ParsedAssignments(req, answer)
      PROVE  a.activity_id \in Failures(req)
  BY <1>3, <1>5, <1>6
<1>8. ASSUME NEW a \in ParsedAssignments(req, answer), NEW b \in ParsedAssignments(req, answer),
             a.activity_id = b.activity_id
      PROVE  a = b
  <2>1. PICK i \in Accepted(req, answer) : a = Entry(i)
    BY <1>6
  <2>2. PICK j \in Accepted(req, answer) : b = Entry(j)
    BY <1>6
  <2>3. item(i).activity_id = item(j).activity_id
    BY <1>5, <1>8, <2>1, <2>2
  <2> QED
    BY <1>4, <2>1, <2>2, <2>3
<1> QED
  BY <1>7, <1>8

\* check_reply accounts for every failure of the request exactly once.
LEMMA CheckAccounts ==
    ASSUME NEW req, NEW answer, NEW n \in Nat, answer.json => DOMAIN answer.assignments = 1..n
    PROVE  /\ Accounted(req, CheckReply(req, answer).assignments,
                             CheckReply(req, answer).unaccounted)
           /\ CheckReply(req, answer).unaccounted \subseteq Failures(req)
<1> DEFINE result == CheckReply(req, answer)
<1>1. CASE ~answer.json
  <2>1. result.assignments = {} /\ result.unaccounted = Failures(req)
    BY <1>1 DEF CheckReply, CheckNothing
  <2>2. \A f : {a \in result.assignments : a.activity_id = f} = {}
    BY <2>1
  <2> QED
    BY <2>1, <2>2, FS_EmptySet DEF Accounted
<1>2. CASE answer.json
  <2>1. /\ result.assignments = ParsedAssignments(req, answer)
        /\ result.unaccounted =
              Failures(req) \ {a.activity_id : a \in ParsedAssignments(req, answer)}
    BY <1>2 DEF CheckReply, Unaccounted
  <2> HIDE DEF result
  <2> SUFFICES ASSUME NEW f \in Activity
               PROVE  LET mine == {a \in result.assignments : a.activity_id = f} IN
                      IF f \in Failures(req)
                        THEN Cardinality(mine) = IF f \in result.unaccounted THEN 0 ELSE 1
                        ELSE mine = {} /\ f \notin result.unaccounted
    BY <2>1 DEF Accounted, result
  <2> DEFINE mine == {a \in result.assignments : a.activity_id = f}
  <2>2. \A a \in result.assignments :
           /\ a.activity_id \in Failures(req)
           /\ \A b \in result.assignments : a.activity_id = b.activity_id => a = b
    BY <1>2, <2>1, AcceptedAreDistinct
  <2>3. CASE mine = {}
    <3>1. f \in Failures(req) => f \in result.unaccounted
      BY <2>1, <2>3
    <3>2. Cardinality(mine) = 0
      BY <2>3, FS_EmptySet
    <3> QED
      BY <2>1, <2>3, <3>1, <3>2
  <2>4. ASSUME NEW a \in mine
        PROVE  f \in Failures(req) /\ f \notin result.unaccounted /\ Cardinality(mine) = 1
    <3>1. f \in Failures(req) /\ f \notin result.unaccounted
      BY <2>1, <2>2, <2>4
    <3>2. mine = {a}
      BY <2>2, <2>4
    <3> QED
      BY <3>1, <3>2, FS_Singleton
  <2> QED
    BY <2>3, <2>4
<1> QED
  BY <1>1, <1>2

-------------------------------------------------------------------------------
\* What a checked reply offers to consolidation.

\* The memories of a request can be compared, those of a topic key are few.
Readable(req) ==
    /\ req.profile \in Profiles
    /\ Known(req) \subseteq Activity
    /\ \A m \in req.active :
          /\ m.topic_key \in Topics /\ m.version \in Nat /\ m.occurrences \in Nat
          /\ m.sources \in Seq(Activity)
          /\ m # NoMemory /\ m \notin Topics
    /\ \A t \in Topics : IsFiniteSet(OfTopic(req.active, t))

\* A reply is lists, of items that name activities and topic keys or none.
Shaped(answer) ==
    /\ \E n \in Nat : DOMAIN answer.assignments = 1..n /\ Len(answer.assignments) = n
    /\ \E n \in Nat : DOMAIN answer.memories = 1..n
    /\ \A i \in DOMAIN answer.memories :
          /\ answer.memories[i].topic_key \in Topics \cup {NoTopic}
          /\ answer.memories[i].sources \in Seq(Activity \cup {NoActivity})

SoundAssignments(req, assignments) ==
    /\ IsFiniteSet(assignments)
    /\ \A a \in assignments : a.place \in Nat /\ a.activity_id \in Failures(req)
    /\ \A a, b \in assignments :
          a.place = b.place \/ a.activity_id = b.activity_id => a = b

SoundProposal(req, p) ==
    /\ p.kind \in MemoryKinds[req.profile]
    /\ p.place \in Nat /\ p.topic_key \in Topics
    /\ p.sources \in Seq(Activity) /\ Len(p.sources) > 0
    /\ ToSet(p.sources) \subseteq Known(req)
    /\ p.version \in Nat
    /\ \E a \in ToSet(p.sources) : p.version = SeqNo[a]
    /\ \A a \in ToSet(p.sources) : SeqNo[a] <= p.version

SoundMemories(req, assignments, memories) ==
    /\ IsFiniteSet(memories)
    /\ \A p \in memories : SoundProposal(req, p)
    /\ \A p, q \in memories : p.place = q.place => p = q
    /\ \A p \in memories, a \in assignments : a.place < p.place

SoundConflict(req, memories, c) ==
    \E m \in req.active : \E side \in req.active \cup {p.topic_key : p \in memories} :
        c = {m, side}

SoundCheck(req, c) ==
    /\ SoundAssignments(req, c.assignments)
    /\ SoundMemories(req, c.assignments, c.memories)
    /\ \A pair \in c.conflicts : SoundConflict(req, c.memories, pair)

LEMMA AssignmentsSound ==
  ASSUME NEW req, NEW answer, NEW n \in Nat, DOMAIN answer.assignments = 1..n
  PROVE  /\ SoundAssignments(req, ParsedAssignments(req, answer))
         /\ \A a \in ParsedAssignments(req, answer) : a.place \in 1..n
<1> DEFINE item(i) == answer.assignments[i]
           Entry(i) == [place |-> i, activity_id |-> item(i).activity_id,
                        lesson |-> IF item(i).target = Dismiss THEN NoTopic ELSE item(i).target]
           A == ParsedAssignments(req, answer)
           entry == [i \in Accepted(req, answer) |-> Entry(i)]
<1>1. A = {entry[i] : i \in Accepted(req, answer)}
  BY DEF ParsedAssignments
<1>2. Accepted(req, answer) \subseteq 1..n
  BY DEF Accepted
<1>3. \A i \in Accepted(req, answer) : entry[i] = Entry(i) /\ entry[i].place = i
  OBVIOUS
<1> HIDE DEF entry, Entry, A
<1>4. IsFiniteSet(A)
  <2>1. IsFiniteSet(1..n)
    BY FS_Interval
  <2>2. IsFiniteSet(Accepted(req, answer))
    BY <1>2, <2>1, FS_Subset
  <2> QED
    BY <1>1, <2>2, FiniteImage
<1>5. \A a \in A : a.place \in Accepted(req, answer) /\ a = entry[a.place]
  BY <1>1, <1>3
<1>6. \A a \in A : a.place \in 1..n /\ a.place \in Nat
  BY <1>2, <1>5
<1>7. \A a \in A : /\ a.activity_id \in Failures(req)
                   /\ \A b \in A : a.activity_id = b.activity_id => a = b
  BY AcceptedAreDistinct DEF A
<1>8. \A a, b \in A : a.place = b.place => a = b
  BY <1>5
<1> QED
  BY <1>4, <1>6, <1>7, <1>8 DEF SoundAssignments, A

LEMMA ProposalSound ==
  ASSUME NEW req, Known(req) \subseteq Activity, NEW p, ValidMemory(req, p),
         p.topic_key \in Topics \cup {NoTopic}, p.sources \in Seq(Activity \cup {NoActivity}),
         NEW q, q.kind = p.kind, q.topic_key = p.topic_key, q.sources = p.sources,
         q.version = ProposalVersion(p), q.place \in Nat
  PROVE  SoundProposal(req, q)
<1>1. /\ p.kind \in MemoryKinds[req.profile] /\ p.topic_key # NoTopic
      /\ Len(p.sources) \in 1..MaxSources /\ ToSet(p.sources) \subseteq Known(req)
  BY DEF ValidMemory, Usable
<1>2. Len(p.sources) > 0
  BY <1>1, CurateAssumption
<1>3. p.sources \in Seq(Activity)
  <2>1. \A i \in 1..Len(p.sources) : p.sources[i] \in ToSet(p.sources)
    BY DEF ToSet
  <2>2. \A i \in 1..Len(p.sources) : p.sources[i] \in Activity
    BY <1>1, <2>1
  <2> QED
    BY <2>2
<1>4. /\ ProposalVersion(p) \in Nat
      /\ \E a \in ToSet(p.sources) : ProposalVersion(p) = SeqNo[a]
      /\ \A a \in ToSet(p.sources) : SeqNo[a] <= ProposalVersion(p)
  BY <1>2, <1>3, ProposalVersionIsGreatest
<1> QED
  BY <1>1, <1>2, <1>3, <1>4 DEF SoundProposal

LEMMA MemoriesSound ==
  ASSUME NEW req, Known(req) \subseteq Activity, NEW answer, Shaped(answer)
  PROVE  SoundMemories(req, ParsedAssignments(req, answer), ParsedMemories(req, answer))
<1> DEFINE item(i) == answer.memories[i]
           V == {i \in DOMAIN answer.memories : ValidMemory(req, item(i))}
           Entry(i) ==
              [place |-> Len(answer.assignments) + i, kind |-> item(i).kind,
               topic_key |-> item(i).topic_key, statement |-> item(i).statement,
               sources |-> item(i).sources, version |-> ProposalVersion(item(i)),
               resolves |-> IF req.profile = "collab" THEN item(i).resolves ELSE {}]
           entry == [i \in V |-> Entry(i)]
           M == ParsedMemories(req, answer)
<1>1. M = {entry[i] : i \in V}
  BY DEF ParsedMemories
<1>2. PICK n \in Nat : DOMAIN answer.assignments = 1..n /\ Len(answer.assignments) = n
  BY DEF Shaped
<1>3. PICK k \in Nat : DOMAIN answer.memories = 1..k
  BY DEF Shaped
<1>4. V \subseteq 1..k /\ \A i \in V : ValidMemory(req, item(i))
  BY <1>3
<1>5. \A i \in V : /\ item(i).topic_key \in Topics \cup {NoTopic}
                   /\ item(i).sources \in Seq(Activity \cup {NoActivity})
  BY DEF Shaped
<1>6. \A i \in V : /\ entry[i].place = n + i /\ entry[i].kind = item(i).kind
                   /\ entry[i].topic_key = item(i).topic_key
                   /\ entry[i].sources = item(i).sources
                   /\ entry[i].version = ProposalVersion(item(i))
  BY <1>2
<1> HIDE DEF entry, Entry, V, M
<1>7. IsFiniteSet(M)
  <2>1. IsFiniteSet(1..k)
    BY FS_Interval
  <2>2. IsFiniteSet(V)
    BY <1>4, <2>1, FS_Subset
  <2> QED
    BY <1>1, <2>2, FiniteImage
<1>8. \A i \in V : i \in Nat /\ n + i \in Nat /\ i > 0
  BY <1>4
<1>9. ASSUME NEW p \in M PROVE SoundProposal(req, p)
  <2>1. PICK i \in V : p = entry[i]
    BY <1>1
  <2>2. p.place \in Nat
    BY <1>6, <1>8, <2>1
  <2> QED
    BY <1>4, <1>5, <1>6, <2>1, <2>2, ProposalSound
<1>10. ASSUME NEW p \in M, NEW q \in M, p.place = q.place PROVE p = q
  <2>1. PICK i \in V, j \in V : p = entry[i] /\ q = entry[j]
    BY <1>1
  <2>2. n + i = n + j
    BY <1>6, <1>10, <2>1
  <2>3. i = j
    BY <1>8, <2>2
  <2> QED
    BY <2>1, <2>3
<1>11. ASSUME NEW p \in M, NEW a \in ParsedAssignments(req, answer) PROVE a.place < p.place
  <2>1. PICK i \in V : p = entry[i]
    BY <1>1
  <2>2. a.place \in 1..n
    BY <1>2, AssignmentsSound
  <2>3. p.place = n + i
    BY <1>6, <2>1
  <2> QED
    BY <1>8, <2>2, <2>3
<1> QED
  BY <1>7, <1>9, <1>10, <1>11 DEF SoundMemories, M

LEMMA ConflictsSound ==
  ASSUME NEW req, NEW answer, NEW pair \in ParsedConflicts(req, answer)
  PROVE  SoundConflict(req, ParsedMemories(req, answer), pair)
<1>1. PICK i \in DOMAIN answer.conflicts :
        /\ ValidConflict(req, answer, answer.conflicts[i])
        /\ pair = {answer.conflicts[i].a, answer.conflicts[i].b}
  BY DEF ParsedConflicts
<1> DEFINE a == answer.conflicts[i].a
           b == answer.conflicts[i].b
           proposed == {p.topic_key : p \in ParsedMemories(req, answer)}
<1>2. /\ {a, b} \subseteq req.active \cup proposed /\ {a, b} \cap req.active # {}
  BY <1>1 DEF ValidConflict
<1> HIDE DEF proposed
<1>3. \E m \in req.active : \E side \in req.active \cup proposed : {a, b} = {m, side}
  <2>1. CASE a \in req.active
    BY <1>2, <2>1
  <2>2. CASE b \in req.active
    BY <1>2, <2>2
  <2> QED
    BY <1>2, <2>1, <2>2
<1> QED
  BY <1>1, <1>3 DEF SoundConflict, proposed

\* check_reply hands on sound items only, whatever the reply.
LEMMA CheckIsSound ==
  ASSUME NEW req, Known(req) \subseteq Activity, NEW answer, Shaped(answer)
  PROVE  SoundCheck(req, CheckReply(req, answer))
<1> DEFINE c == CheckReply(req, answer)
<1>1. CASE ~answer.json
  <2>1. c.assignments = {} /\ c.memories = {} /\ c.conflicts = {}
    BY <1>1 DEF CheckReply, CheckNothing
  <2>2. IsFiniteSet({})
    BY FS_EmptySet
  <2> QED
    BY <2>1, <2>2 DEF SoundCheck, SoundAssignments, SoundMemories
<1>2. CASE answer.json
  <2>1. /\ c.assignments = ParsedAssignments(req, answer)
        /\ c.memories = ParsedMemories(req, answer)
        /\ c.conflicts = IF req.profile = "collab" THEN ParsedConflicts(req, answer) ELSE {}
    BY <1>2 DEF CheckReply
  <2>2. SoundAssignments(req, ParsedAssignments(req, answer))
    BY AssignmentsSound DEF Shaped
  <2>3. SoundMemories(req, ParsedAssignments(req, answer), ParsedMemories(req, answer))
    BY MemoriesSound
  <2>4. \A pair \in c.conflicts : SoundConflict(req, ParsedMemories(req, answer), pair)
    BY <2>1, ConflictsSound
  <2> QED
    BY <2>1, <2>2, <2>3, <2>4 DEF SoundCheck
<1> QED
  BY <1>1, <1>2

-------------------------------------------------------------------------------
\* The occurrences of a lesson and the sources they add.

\* Occurrences come one after the other, each with sources that its version is
\* not older than.
SoundOccurrences(req, occurrences) ==
    /\ IsFiniteSet(occurrences)
    /\ \A o \in occurrences :
          /\ o.place \in Nat
          /\ o.sources \in Seq(Activity) /\ Len(o.sources) > 0
          /\ ToSet(o.sources) \subseteq Known(req)
          /\ o.version \in Nat
          /\ \E a \in ToSet(o.sources) : o.version = SeqNo[a]
          /\ \A a \in ToSet(o.sources) : SeqNo[a] <= o.version
    /\ \A o, e \in occurrences : o.place = e.place => o = e

LEMMA OneSource ==
  ASSUME NEW a \in Activity
  PROVE  <<a>> \in Seq(Activity) /\ Len(<<a>>) = 1 /\ ToSet(<<a>>) = {a}
<1>1. <<a>> \in Seq(Activity) /\ Len(<<a>>) = 1 /\ DOMAIN <<a>> = {1} /\ <<a>>[1] = a
  OBVIOUS
<1> QED
  BY <1>1 DEF ToSet

LEMMA OccurrencesSound ==
  ASSUME NEW req, Known(req) \subseteq Activity, NEW c, SoundCheck(req, c), NEW t
  PROVE  SoundOccurrences(req, Occurrences(c, t))
<1> DEFINE A == {a \in c.assignments : a.lesson = t}
           P == {p \in OfTopic(c.memories, t) : p.kind = "lesson"}
           fromA == [a \in A |-> [place |-> a.place, sources |-> <<a.activity_id>>,
                                  version |-> SeqNo[a.activity_id]]]
           fromP == [p \in P |-> [place |-> p.place, sources |-> p.sources, version |-> p.version]]
           O == Occurrences(c, t)
<1>1. O = {fromA[a] : a \in A} \cup {fromP[p] : p \in P}
  BY DEF Occurrences
<1>2. A \subseteq c.assignments /\ P \subseteq c.memories
  BY DEF OfTopic
<1>3. \A a \in A : /\ fromA[a].place = a.place /\ fromA[a].sources = <<a.activity_id>>
                   /\ fromA[a].version = SeqNo[a.activity_id]
  OBVIOUS
<1>4. \A p \in P : /\ fromP[p].place = p.place /\ fromP[p].sources = p.sources
                   /\ fromP[p].version = p.version
  OBVIOUS
<1> HIDE DEF fromA, fromP, A, P, O
<1>5. IsFiniteSet(O)
  <2>1. IsFiniteSet(c.assignments) /\ IsFiniteSet(c.memories)
    BY DEF SoundCheck, SoundAssignments, SoundMemories
  <2>2. IsFiniteSet(A) /\ IsFiniteSet(P)
    BY <1>2, <2>1, FS_Subset
  <2>3. IsFiniteSet({fromA[a] : a \in A}) /\ IsFiniteSet({fromP[p] : p \in P})
    BY <2>2, FiniteImage
  <2> QED
    BY <1>1, <2>3, FS_Union
<1>6. \A a \in A : a.place \in Nat /\ a.activity_id \in Failures(req)
  BY <1>2 DEF SoundCheck, SoundAssignments
<1>7. \A a, b \in A : a.place = b.place => a = b
  BY <1>2 DEF SoundCheck, SoundAssignments
<1>8. /\ \A p \in P : SoundProposal(req, p)
      /\ \A p, q \in P : p.place = q.place => p = q
      /\ \A p \in P, a \in A : a.place < p.place
  BY <1>2 DEF SoundCheck, SoundMemories
<1>9. \A o \in O : (\E a \in A : o = fromA[a]) \/ (\E p \in P : o = fromP[p])
  BY <1>1
<1>10. ASSUME NEW a \in A
       PROVE  LET o == fromA[a] IN
              /\ o.place \in Nat
              /\ o.sources \in Seq(Activity) /\ Len(o.sources) > 0
              /\ ToSet(o.sources) \subseteq Known(req)
              /\ o.version \in Nat
              /\ \E x \in ToSet(o.sources) : o.version = SeqNo[x]
              /\ \A x \in ToSet(o.sources) : SeqNo[x] <= o.version
  <2> DEFINE f == a.activity_id
  <2>1. f \in Known(req) /\ f \in Activity
    BY <1>6 DEF Failures, Known
  <2>2. <<f>> \in Seq(Activity) /\ Len(<<f>>) = 1 /\ ToSet(<<f>>) = {f}
    BY <2>1, OneSource
  <2>3. SeqNo[f] \in Nat
    BY <2>1, CurateAssumption
  <2> HIDE DEF f
  <2>4. fromA[a].place \in Nat /\ fromA[a].sources = <<f>> /\ fromA[a].version = SeqNo[f]
    BY <1>3, <1>6 DEF f
  <2> QED
    BY <2>1, <2>2, <2>3, <2>4
<1>11. ASSUME NEW p \in P
       PROVE  LET o == fromP[p] IN
              /\ o.place \in Nat
              /\ o.sources \in Seq(Activity) /\ Len(o.sources) > 0
              /\ ToSet(o.sources) \subseteq Known(req)
              /\ o.version \in Nat
              /\ \E x \in ToSet(o.sources) : o.version = SeqNo[x]
              /\ \A x \in ToSet(o.sources) : SeqNo[x] <= o.version
  BY <1>4, <1>8 DEF SoundProposal
<1>12. ASSUME NEW o \in O, NEW e \in O, o.place = e.place PROVE o = e
  <2>1. CASE (\E a \in A : o = fromA[a]) /\ (\E a \in A : e = fromA[a])
    BY <1>3, <1>7, <1>12, <2>1
  <2>2. CASE (\E p \in P : o = fromP[p]) /\ (\E p \in P : e = fromP[p])
    BY <1>4, <1>8, <1>12, <2>2
  <2>3. ASSUME NEW a \in A, NEW p \in P PROVE fromA[a].place # fromP[p].place
    <3>1. a.place < p.place /\ a.place \in Nat /\ p.place \in Nat
      BY <1>6, <1>8 DEF SoundProposal
    <3> QED
      BY <1>3, <1>4, <3>1
  <2> QED
    BY <1>9, <1>12, <2>1, <2>2, <2>3
<1>13. \A o \in O :
          /\ o.place \in Nat
          /\ o.sources \in Seq(Activity) /\ Len(o.sources) > 0
          /\ ToSet(o.sources) \subseteq Known(req)
          /\ o.version \in Nat
          /\ \E x \in ToSet(o.sources) : o.version = SeqNo[x]
          /\ \A x \in ToSet(o.sources) : SeqNo[x] <= o.version
  BY <1>9, <1>10, <1>11
<1> QED
  BY <1>5, <1>12, <1>13 DEF SoundOccurrences, O

\* The fresh sources of an occurrence are its own ones that nothing before cites.
Uncited(prior, occurrences, o, x) ==
    /\ x \in ToSet(o.sources)
    /\ x \notin Cited(prior)
    /\ \A e \in occurrences : e.place < o.place => x \notin ToSet(e.sources)

LEMMA FreshAreUncited ==
  ASSUME NEW prior, NEW occurrences, NEW o, o.sources \in Seq(Activity), NEW x
  PROVE  /\ FreshSources(prior, occurrences, o) \in Seq(Activity)
         /\ x \in ToSet(FreshSources(prior, occurrences, o)) <=> Uncited(prior, occurrences, o, x)
<1> DEFINE s == o.sources
           earlier == {e \in occurrences : e.place < o.place}
           cited == Cited(prior) \cup UNION {ToSet(e.sources) : e \in earlier}
           K == {i \in DOMAIN s : s[i] \notin cited}
           fresh == FreshSources(prior, occurrences, o)
<1>1. fresh = Kept(s, K)
  BY DEF FreshSources
<1>2. \A y : y \in cited <=> \/ y \in Cited(prior)
                             \/ \E e \in occurrences : e.place < o.place /\ y \in ToSet(e.sources)
  OBVIOUS
<1> HIDE DEF cited
<1>3. s \in Seq(Activity) /\ DOMAIN s = 1..Len(s)
  OBVIOUS
<1>4. K \subseteq 1..Len(s) /\ \A i \in 1..Len(s) : i \in K <=> s[i] \notin cited
  BY <1>3
<1> HIDE DEF K, fresh, s
<1>5. IsFiniteSet(K) /\ K \subseteq Nat
  <2>1. IsFiniteSet(1..Len(s)) /\ 1..Len(s) \subseteq Nat
    BY <1>3, FS_Interval
  <2> QED
    BY <1>4, <2>1, FS_Subset
<1>6. fresh \in Seq(Activity)
  BY <1>1, <1>3, <1>4, KeptElements
<1>7. DOMAIN fresh = 1..Cardinality(K)
  BY <1>1, <1>5, KeptPlaces
<1>8. ASSUME x \in ToSet(fresh) PROVE x \in ToSet(s) /\ x \notin cited
  <2>1. PICK n \in 1..Cardinality(K) : x = fresh[n]
    BY <1>7, <1>8 DEF ToSet
  <2>2. Nth(K, n) \in K
    BY <1>5, NthPlace
  <2>3. x = s[Nth(K, n)]
    BY <1>1, <2>1 DEF Kept
  <2> QED
    BY <1>3, <1>4, <2>2, <2>3 DEF ToSet
<1>9. ASSUME x \in ToSet(s), x \notin cited PROVE x \in ToSet(fresh)
  <2>1. PICK i \in 1..Len(s) : x = s[i]
    BY <1>3, <1>9 DEF ToSet
  <2>2. i \in K
    BY <1>4, <1>9, <2>1
  <2>3. PICK n \in 1..Cardinality(K) : Kept(s, K)[n] = s[i]
    BY <1>5, <2>2, KeptFrom
  <2> QED
    BY <1>1, <1>7, <2>1, <2>3 DEF ToSet
<1> QED
  BY <1>2, <1>6, <1>8, <1>9 DEF fresh, s, Uncited

\* The last elements of a list, and where they were.
LEMMA LastElements ==
  ASSUME NEW S, NEW s \in Seq(S), NEW n \in Nat \ {0}
  PROVE  LET last == LastOf(s, n)
             cut == IF n < Len(s) THEN Len(s) - n ELSE 0
         IN  /\ last \in Seq(S) /\ Len(last) = Len(s) - cut
             /\ \A i \in 1..Len(last) : cut + i \in 1..Len(s) /\ last[i] = s[cut + i]
<1> DEFINE cut == IF n < Len(s) THEN Len(s) - n ELSE 0
<1>1. Len(s) \in Nat /\ cut \in 0..Len(s)
  OBVIOUS
<1>2. LastOf(s, n) = SubSeq(s, cut + 1, Len(s))
  BY DEF LastOf
<1> HIDE DEF cut
<1>3. /\ SubSeq(s, cut + 1, Len(s)) \in Seq(S) /\ Len(SubSeq(s, cut + 1, Len(s))) = Len(s) - cut
      /\ \A i \in 1..(Len(s) - cut) : SubSeq(s, cut + 1, Len(s))[i] = s[cut + i]
  <2>1. \A i \in 1..(Len(s) - cut) : cut + i \in 1..Len(s) /\ (cut + 1) + i - 1 = cut + i
    BY <1>1
  <2> QED
    BY <1>1, <2>1
<1>4. \A i \in 1..(Len(s) - cut) : cut + i \in 1..Len(s)
  BY <1>1
<1> QED
  BY <1>2, <1>3, <1>4 DEF cut

LEMMA FreshAreFew ==
  ASSUME NEW prior, NEW occurrences, NEW o, o.sources \in Seq(Activity)
  PROVE  Len(FreshSources(prior, occurrences, o)) <= Len(o.sources)
<1> DEFINE s == o.sources
           cited == Cited(prior) \cup UNION {ToSet(e.sources) : e \in {e \in occurrences : e.place < o.place}}
           K == {i \in DOMAIN s : s[i] \notin cited}
<1>1. FreshSources(prior, occurrences, o) = Kept(s, K)
  BY DEF FreshSources
<1>2. s \in Seq(Activity) /\ Len(s) \in Nat /\ K \subseteq 1..Len(s)
  OBVIOUS
<1> HIDE DEF K, s
<1>3. Len(Kept(s, K)) = Cardinality(K)
  BY <1>2, KeptElements
<1>4. IsFiniteSet(1..Len(s)) /\ Cardinality(1..Len(s)) = Len(s)
  <2>1. \A n \in Nat : IsFiniteSet(1..n) /\ Cardinality(1..n) = n
    BY FS_Interval
  <2> QED
    BY <1>2, <2>1
<1>5. Cardinality(K) <= Len(s)
  BY <1>2, <1>4, FS_Subset
<1> QED
  BY <1>1, <1>3, <1>5 DEF s

\* The prior version's sources and the fresh ones behind them, before the list
\* is cut to its last elements.
Before(prior) == IF prior = NoMemory THEN <<>> ELSE prior.sources

AllSources(prior, occurrences) ==
    LET places == {o.place : o \in occurrences}
        at(n) == CHOOSE o \in occurrences : o.place = Nth(places, n)
    IN  Joined(Before(prior),
               [n \in 1..Cardinality(places) |-> FreshSources(prior, occurrences, at(n))],
               Cardinality(places))

LEMMA SourcesAreTheLast ==
  ASSUME NEW prior, NEW occurrences
  PROVE  LessonSources(prior, occurrences) = LastOf(AllSources(prior, occurrences), MaxLessonSources)
BY DEF LessonSources, AllSources, Before

LEMMA CitedIsBefore ==
  ASSUME NEW prior, prior = NoMemory \/ prior.sources \in Seq(Activity), NEW x
  PROVE  /\ Before(prior) \in Seq(Activity)
         /\ x \in Cited(prior) <=> \E k \in 1..Len(Before(prior)) : x = Before(prior)[k]
<1>1. CASE prior = NoMemory
  BY <1>1 DEF Before, Cited
<1>2. CASE prior # NoMemory
  <2>1. prior.sources \in Seq(Activity) /\ DOMAIN prior.sources = 1..Len(prior.sources)
    BY <1>2
  <2>2. Before(prior) = prior.sources /\ Cited(prior) = ToSet(prior.sources)
    BY <1>2 DEF Before, Cited
  <2> QED
    BY <2>1, <2>2 DEF ToSet
<1> QED
  BY <1>1, <1>2

\* Which sources the list holds: the prior version's first, then the fresh ones
\* and no others, each once when the occurrences have one source each.
SourcesOf(all, b, prior, occurrences) ==
    /\ all \in Seq(Activity) /\ b \in Nat /\ b <= Len(all)
    /\ \A k \in 1..b : all[k] = Before(prior)[k]
    /\ \A k \in (b + 1)..Len(all) :
          \E o \in occurrences : all[k] \in ToSet(FreshSources(prior, occurrences, o))
    /\ \A o \in occurrences : \A x \in ToSet(FreshSources(prior, occurrences, o)) :
          \E k \in (b + 1)..Len(all) : all[k] = x
    /\ (\A o \in occurrences : Len(o.sources) = 1)
       => \A k, l \in (b + 1)..Len(all) : all[k] = all[l] => k = l

LEMMA AllSourcesElements ==
  ASSUME NEW req, NEW occurrences, SoundOccurrences(req, occurrences),
         NEW prior, prior = NoMemory \/ prior.sources \in Seq(Activity),
         NEW all, all = AllSources(prior, occurrences),
         NEW b, b = Len(Before(prior))
  PROVE  SourcesOf(all, b, prior, occurrences)
<1> DEFINE Fresh(o) == FreshSources(prior, occurrences, o)
           place == [o \in occurrences |-> o.place]
           places == {o.place : o \in occurrences}
           c == Cardinality(places)
           at(n) == CHOOSE o \in occurrences : o.place = Nth(places, n)
           parts == [n \in 1..c |-> Fresh(at(n))]
<1>1. all = Joined(Before(prior), parts, c)
  BY DEF AllSources
<1>2. /\ \A o \in occurrences : o.place \in Nat /\ o.sources \in Seq(Activity)
      /\ \A o, e \in occurrences : o.place = e.place => o = e
  BY DEF SoundOccurrences
<1>3. IsFiniteSet(places) /\ places \subseteq Nat
  <2>1. IsFiniteSet({place[o] : o \in occurrences})
    <3> HIDE DEF place
    <3> QED
      BY FiniteImage DEF SoundOccurrences
  <2>2. places = {place[o] : o \in occurrences}
    OBVIOUS
  <2> QED
    BY <1>2, <2>1, <2>2
<1>4. \A o \in occurrences : o.place \in places
  OBVIOUS
<1>5. \A y \in places : \E o \in occurrences : o.place = y
  OBVIOUS
<1> HIDE DEF places, place
<1>6. c \in Nat
  BY <1>3, NthPlace
<1>7. ASSUME NEW n \in 1..c PROVE at(n) \in occurrences /\ at(n).place = Nth(places, n)
  <2>1. Nth(places, n) \in places
    BY <1>3, NthPlace
  <2>2. \E o \in occurrences : o.place = Nth(places, n)
    BY <1>5, <2>1
  <2> QED
    BY <2>2
<1> HIDE DEF at
<1>8. \A n \in 1..c : parts[n] = Fresh(at(n))
  OBVIOUS
<1> HIDE DEF parts, Fresh, c
<1>9. ASSUME NEW o \in occurrences PROVE Fresh(o) \in Seq(Activity)
  BY <1>2, FreshAreUncited DEF Fresh
<1>10. \A n \in 1..c : parts[n] \in Seq(Activity)
  BY <1>7, <1>8, <1>9
<1>11. Before(prior) \in Seq(Activity)
  BY CitedIsBefore
<1>12. /\ all \in Seq(Activity)
       /\ b <= Len(all)
       /\ \A k \in 1..b : all[k] = Before(prior)[k]
       /\ \A k \in (b + 1)..Len(all) :
             \E i \in 1..c : \E j \in 1..Len(parts[i]) : all[k] = parts[i][j]
       /\ \A i \in 1..c : \A j \in 1..Len(parts[i]) :
             \E k \in (b + 1)..Len(all) : all[k] = parts[i][j]
       /\ (\A i, h \in 1..c : \A j \in 1..Len(parts[i]) : \A m \in 1..Len(parts[h]) :
              parts[i][j] = parts[h][m] => i = h /\ j = m)
          => \A k, l \in (b + 1)..Len(all) : all[k] = all[l] => k = l
  <2>1. JoinOf(Joined(Before(prior), parts, c), Activity, Before(prior), parts, c)
    BY <1>6, <1>10, <1>11, JoinedElements
  <2> QED
    BY <1>1, <2>1 DEF JoinOf
<1>13. b \in Nat
  BY <1>11
<1>14. ASSUME NEW n \in 1..c, NEW j \in 1..Len(parts[n])
       PROVE  at(n) \in occurrences /\ parts[n][j] \in ToSet(Fresh(at(n)))
  <2>1. parts[n] = Fresh(at(n)) /\ at(n) \in occurrences /\ parts[n] \in Seq(Activity)
    BY <1>7, <1>8, <1>10
  <2> QED
    BY <2>1 DEF ToSet
<1>15. ASSUME NEW k \in (b + 1)..Len(all)
       PROVE  \E o \in occurrences : all[k] \in ToSet(Fresh(o))
  <2>1. PICK i \in 1..c : \E j \in 1..Len(parts[i]) : all[k] = parts[i][j]
    BY <1>12
  <2> QED
    BY <1>14, <2>1
<1>16. ASSUME NEW o \in occurrences, NEW x \in ToSet(Fresh(o))
       PROVE  \E k \in (b + 1)..Len(all) : all[k] = x
  <2>1. PICK n \in 1..c : o.place = Nth(places, n)
    BY <1>3, <1>4, NthPlace DEF c
  <2>2. at(n) = o
    BY <1>2, <1>7, <2>1
  <2>3. parts[n] = Fresh(o) /\ parts[n] \in Seq(Activity)
    BY <1>8, <1>10, <2>2
  <2>4. PICK j \in 1..Len(parts[n]) : parts[n][j] = x
    BY <2>3 DEF ToSet
  <2>5. \E k \in (b + 1)..Len(all) : all[k] = parts[n][j]
    BY <1>12, <2>4, Zenon
  <2> QED
    BY <2>4, <2>5
<1>17. ASSUME NEW i \in 1..c, NEW h \in 1..c, i < h,
              NEW j \in 1..Len(parts[i]), NEW m \in 1..Len(parts[h])
       PROVE  parts[i][j] # parts[h][m]
  <2>1. /\ at(i) \in occurrences /\ parts[i][j] \in ToSet(Fresh(at(i)))
        /\ at(h) \in occurrences /\ parts[h][m] \in ToSet(Fresh(at(h)))
    BY <1>14
  <2>2. Nth(places, i) < Nth(places, h)
    BY <1>3, <1>17, NthPlace DEF c
  <2>6. at(i).place = Nth(places, i) /\ at(h).place = Nth(places, h)
    BY <1>7, Zenon
  <2>3. at(i).place < at(h).place
    BY <2>2, <2>6, Zenon
  <2>4. parts[i][j] \in ToSet(at(i).sources)
    BY <1>2, <2>1, FreshAreUncited DEF Fresh, Uncited
  <2>5. \A e \in occurrences : e.place < at(h).place => parts[h][m] \notin ToSet(e.sources)
    BY <1>2, <2>1, FreshAreUncited DEF Fresh, Uncited
  <2> QED
    BY <2>1, <2>3, <2>4, <2>5
<1>18. ASSUME \A o \in occurrences : Len(o.sources) = 1,
              NEW i \in 1..c, NEW h \in 1..c,
              NEW j \in 1..Len(parts[i]), NEW m \in 1..Len(parts[h]), parts[i][j] = parts[h][m]
       PROVE  i = h /\ j = m
  <2>1. ~(i < h) /\ ~(h < i)
    BY <1>17, <1>18
  <2>2. i = h
    BY <1>6, <2>1
  <2>3. Len(parts[i]) <= 1 /\ Len(parts[i]) \in Nat
    <3>1. at(i) \in occurrences /\ parts[i] = Fresh(at(i)) /\ parts[i] \in Seq(Activity)
      BY <1>7, <1>8, <1>10
    <3>2. Len(at(i).sources) = 1 /\ at(i).sources \in Seq(Activity)
      BY <1>2, <1>18, <3>1
    <3>3. Len(Fresh(at(i))) <= 1
      BY <3>2, FreshAreFew DEF Fresh
    <3> QED
      BY <3>1, <3>3
  <2> QED
    BY <2>2, <2>3
<1>19. (\A o \in occurrences : Len(o.sources) = 1)
       => \A k, l \in (b + 1)..Len(all) : all[k] = all[l] => k = l
  BY <1>12, <1>18
<1>20. /\ all \in Seq(Activity) /\ b <= Len(all)
       /\ \A k \in 1..b : all[k] = Before(prior)[k]
  BY <1>12
<1> QED
  BY <1>13, <1>15, <1>16, <1>19, <1>20 DEF Fresh, SourcesOf

LEMMA LessonSourcesGrounded ==
  ASSUME NEW req, NEW occurrences, SoundOccurrences(req, occurrences),
         NEW prior, prior = NoMemory \/ prior.sources \in Seq(Activity)
  PROVE  /\ LessonSources(prior, occurrences) \in Seq(Activity)
         /\ \A x \in ToSet(LessonSources(prior, occurrences)) :
               \/ x \in Cited(prior)
               \/ \E o \in occurrences : x \in ToSet(FreshSources(prior, occurrences, o))
<1> DEFINE all == AllSources(prior, occurrences)
           b == Len(Before(prior))
           last == LastOf(all, MaxLessonSources)
           cut == IF MaxLessonSources < Len(all) THEN Len(all) - MaxLessonSources ELSE 0
<1>1. /\ all \in Seq(Activity) /\ b \in Nat /\ b <= Len(all)
      /\ \A k \in 1..b : all[k] = Before(prior)[k]
      /\ \A k \in (b + 1)..Len(all) :
            \E o \in occurrences : all[k] \in ToSet(FreshSources(prior, occurrences, o))
  BY AllSourcesElements DEF SourcesOf
<1> HIDE DEF all, b
<1>2. /\ last \in Seq(Activity)
      /\ \A i \in 1..Len(last) : cut + i \in 1..Len(all) /\ last[i] = all[cut + i]
  BY <1>1, LastElements, CurateAssumption
<1> HIDE DEF last, cut
<1>3. \A k \in 1..Len(all) : k \in 1..b \/ k \in (b + 1)..Len(all)
  BY <1>1
<1>4. ASSUME NEW x \in ToSet(last)
      PROVE  x \in Cited(prior) \/ \E o \in occurrences : x \in ToSet(FreshSources(prior, occurrences, o))
  <2>1. PICK i \in 1..Len(last) : x = last[i]
    BY <1>2 DEF ToSet
  <2>2. PICK k \in 1..Len(all) : x = all[k]
    BY <1>2, <2>1
  <2>3. CASE k \in 1..b
    <3>1. x = Before(prior)[k] /\ k \in 1..Len(Before(prior))
      BY <1>1, <2>2, <2>3 DEF b
    <3> QED
      BY <3>1, CitedIsBefore
  <2>4. CASE k \in (b + 1)..Len(all)
    BY <1>1, <2>2, <2>4
  <2> QED
    BY <1>3, <2>3, <2>4
<1> QED
  BY <1>2, <1>4, SourcesAreTheLast DEF last, all

-------------------------------------------------------------------------------
\* One new version of a lesson.

PriorLesson(req, t) == Newest(OfTopic(ActiveLessons(req), t))

AddedTo(req, c, t) == AddedOccurrences(PriorLesson(req, t), Occurrences(c, t))

LessonOf(req, c, t) ==
    [kind |-> "lesson", topic_key |-> t,
     statement |-> LessonStatement(c, PriorLesson(req, t), t),
     version |-> LessonVersion(PriorLesson(req, t), AddedTo(req, c, t)),
     occurrences |-> Cardinality(AddedTo(req, c, t))
                     + (IF PriorLesson(req, t) = NoMemory THEN 0 ELSE PriorLesson(req, t).occurrences),
     sources |-> LessonSources(PriorLesson(req, t), Occurrences(c, t)),
     resolves |-> {}]

LEMMA NewLessonsAre ==
  ASSUME NEW req, NEW c
  PROVE  NewLessons(req, c) =
           {[memory |-> LessonOf(req, c, t), supersedes |-> Supersedes(PriorLesson(req, t))] :
              t \in {t \in Topics : AddedTo(req, c, t) # {}}}
BY DEF NewLessons, LessonOf, PriorLesson, AddedTo

\* The prior version is the newest active lesson of the topic key, if there is one.
LEMMA PriorIsNewest ==
  ASSUME NEW req, Readable(req), NEW t \in Topics, NEW prior, prior = PriorLesson(req, t)
  PROVE  /\ prior # NoMemory =>
              /\ prior \in req.active /\ prior.kind = "lesson" /\ prior.topic_key = t
              /\ prior.version \in Nat /\ prior.occurrences \in Nat
              /\ prior.sources \in Seq(Activity)
         /\ \A m \in req.active : m.kind = "lesson" /\ m.topic_key = t =>
              prior # NoMemory /\ m.version <= prior.version
<1> DEFINE S == OfTopic(ActiveLessons(req), t)
<1>1. S \subseteq OfTopic(req.active, t)
  BY DEF OfTopic, ActiveLessons
<1>2. IsFiniteSet(S)
  BY <1>1, FS_Subset DEF Readable
<1>3. \A m : m \in S <=> m \in req.active /\ m.kind = "lesson" /\ m.topic_key = t
  BY DEF OfTopic, ActiveLessons
<1>4. prior = Newest(S)
  BY DEF PriorLesson
<1> HIDE DEF S
<1>5. \A m \in S : m.version \in Nat /\ m # NoMemory /\ m.occurrences \in Nat /\ m.sources \in Seq(Activity)
  BY <1>3 DEF Readable
<1>6. /\ S = {} => Newest(S) = NoMemory
      /\ S # {} => Newest(S) \in S /\ \A n \in S : n.version <= Newest(S).version
  BY <1>2, <1>5, NewestIsGreatest
<1>7. CASE S = {}
  BY <1>3, <1>4, <1>6, <1>7
<1>8. CASE S # {}
  BY <1>3, <1>4, <1>5, <1>6, <1>8
<1> QED
  BY <1>7, <1>8

\* What a version supersedes, and what that cites.
LEMMA SupersededIsPrior ==
  ASSUME NEW prior
  PROVE  /\ \A m : m \in Supersedes(prior) <=> prior # NoMemory /\ m = prior
         /\ UNION {ToSet(m.sources) : m \in Supersedes(prior)} = Cited(prior)
<1>1. CASE prior = NoMemory
  BY <1>1 DEF Supersedes, Cited
<1>2. CASE prior # NoMemory
  <2>1. Supersedes(prior) = {prior}
    BY <1>2 DEF Supersedes
  <2> QED
    BY <1>2, <2>1 DEF Cited
<1> QED
  BY <1>1, <1>2

\* The version of a lesson is the newest of its added occurrences and its prior.
LEMMA LessonVersionIsGreatest ==
  ASSUME NEW added, IsFiniteSet(added), added # {}, \A o \in added : o.version \in Nat,
         NEW prior, prior # NoMemory => prior.version \in Nat
  PROVE  LET version == LessonVersion(prior, added) IN
         /\ version \in Nat
         /\ \A o \in added : o.version <= version
         /\ prior # NoMemory => prior.version <= version
         /\ (\E o \in added : version = o.version) \/ (prior # NoMemory /\ version = prior.version)
<1> DEFINE f == [o \in added |-> o.version]
           V == {o.version : o \in added}
           W == {m.version : m \in Supersedes(prior)}
<1>1. LessonVersion(prior, added) = Max(V \cup W)
  BY DEF LessonVersion
<1>2. V = {f[o] : o \in added}
  OBVIOUS
<1>3. IsFiniteSet(V)
  <2> HIDE DEF f, V
  <2> QED
    BY <1>2, FiniteImage
<1>4. W = IF prior = NoMemory THEN {} ELSE {prior.version}
  <2>1. CASE prior = NoMemory
    <3>1. Supersedes(prior) = {}
      BY <2>1 DEF Supersedes
    <3> QED
      BY <2>1, <3>1
  <2>2. CASE prior # NoMemory
    <3>1. Supersedes(prior) = {prior}
      BY <2>2 DEF Supersedes
    <3> QED
      BY <2>2, <3>1
  <2> QED
    BY <2>1, <2>2
<1>5. V \subseteq Nat /\ V # {} /\ (\A o \in added : o.version \in V)
      /\ \A y \in V : \E o \in added : y = o.version
  OBVIOUS
<1> HIDE DEF V, W
<1>6. IsFiniteSet(W) /\ W \subseteq Nat
  BY <1>4, FS_EmptySet, FS_Singleton
<1>7. IsFiniteSet(V \cup W) /\ V \cup W \subseteq Nat /\ V \cup W # {}
  BY <1>3, <1>5, <1>6, FS_Union
<1>8. Max(V \cup W) \in V \cup W /\ \A y \in V \cup W : y <= Max(V \cup W)
  BY <1>7, MaxIsGreatest
<1>9. /\ prior # NoMemory => prior.version \in W
      /\ \A y \in W : prior # NoMemory /\ y = prior.version
  BY <1>4
<1> QED
  BY <1>1, <1>5, <1>7, <1>8, <1>9

LEMMA AddedSound ==
  ASSUME NEW req, NEW occurrences, SoundOccurrences(req, occurrences), NEW prior,
         NEW added, added = AddedOccurrences(prior, occurrences)
  PROVE  /\ IsFiniteSet(added) /\ added \subseteq occurrences
         /\ \A o \in added : o.version \in Nat
         /\ \A o \in occurrences : \A x \in ToSet(FreshSources(prior, occurrences, o)) :
               o \in added /\ x \in ToSet(o.sources) /\ x \in Known(req) /\ SeqNo[x] <= o.version
<1>1. added \subseteq occurrences
  BY DEF AddedOccurrences
<1>2. IsFiniteSet(added)
  BY <1>1, FS_Subset DEF SoundOccurrences
<1>3. \A o \in added : o.version \in Nat
  BY <1>1 DEF SoundOccurrences
<1>4. ASSUME NEW o \in occurrences, NEW x \in ToSet(FreshSources(prior, occurrences, o))
      PROVE  o \in added /\ x \in ToSet(o.sources) /\ x \in Known(req) /\ SeqNo[x] <= o.version
  <2>1. o.sources \in Seq(Activity)
    BY DEF SoundOccurrences
  <2>2. x \in ToSet(o.sources)
    BY <1>4, <2>1, FreshAreUncited DEF Uncited
  <2>3. x \in Known(req) /\ SeqNo[x] <= o.version
    BY <2>2 DEF SoundOccurrences
  <2>4. FreshSources(prior, occurrences, o) # <<>>
    BY <1>4 DEF ToSet
  <2> QED
    BY <2>2, <2>3, <2>4 DEF AddedOccurrences
<1> QED
  BY <1>1, <1>2, <1>3, <1>4

\* What a new lesson cites beyond its prior version is in the request, and its
\* version is the greatest of the cited ones' and the prior version's.
LEMMA LessonGrounded ==
  ASSUME NEW req, Readable(req), NEW c, SoundCheck(req, c), NEW t \in Topics, AddedTo(req, c, t) # {},
         NEW prior, prior = PriorLesson(req, t), NEW lesson, lesson = LessonOf(req, c, t)
  PROVE  /\ lesson.version \in Nat
         /\ lesson.sources \in Seq(Activity)
         /\ prior # NoMemory => prior.version <= lesson.version
         /\ \/ \E a \in Known(req) : lesson.version = SeqNo[a]
            \/ prior # NoMemory /\ lesson.version = prior.version
         /\ \A x \in ToSet(lesson.sources) :
               x \in Cited(prior) \/ (x \in Known(req) /\ SeqNo[x] <= lesson.version)
<1> DEFINE occ == Occurrences(c, t)
           added == AddedTo(req, c, t)
<1>1. SoundOccurrences(req, occ)
  BY OccurrencesSound DEF Readable
<1>2. added = AddedOccurrences(prior, occ)
  BY DEF AddedTo
<1>3. /\ lesson.version = LessonVersion(prior, added)
      /\ lesson.sources = LessonSources(prior, occ)
  BY DEF LessonOf
<1>4. prior # NoMemory => prior.version \in Nat /\ prior.sources \in Seq(Activity)
  BY PriorIsNewest
<1> HIDE DEF occ
<1>5. /\ IsFiniteSet(added) /\ added \subseteq occ
      /\ \A o \in added : o.version \in Nat
      /\ \A o \in occ : \A x \in ToSet(FreshSources(prior, occ, o)) :
            o \in added /\ x \in ToSet(o.sources) /\ x \in Known(req) /\ SeqNo[x] <= o.version
  BY <1>1, <1>2, AddedSound
<1>6. added # {}
  OBVIOUS
<1> HIDE DEF added
<1>7. /\ lesson.version \in Nat
      /\ \A o \in added : o.version <= lesson.version
      /\ prior # NoMemory => prior.version <= lesson.version
      /\ \/ \E o \in added : lesson.version = o.version
         \/ prior # NoMemory /\ lesson.version = prior.version
  BY <1>3, <1>4, <1>5, <1>6, LessonVersionIsGreatest
<1>8. /\ lesson.sources \in Seq(Activity)
      /\ \A x \in ToSet(lesson.sources) :
            x \in Cited(prior) \/ \E o \in occ : x \in ToSet(FreshSources(prior, occ, o))
  BY <1>1, <1>3, <1>4, LessonSourcesGrounded
<1>9. ASSUME NEW x \in ToSet(lesson.sources), x \notin Cited(prior)
      PROVE  x \in Known(req) /\ SeqNo[x] <= lesson.version
  <2>1. PICK o \in occ : x \in ToSet(FreshSources(prior, occ, o))
    BY <1>8, <1>9
  <2>2. o \in added /\ x \in Known(req) /\ SeqNo[x] <= o.version
    BY <1>5, <2>1
  <2>3. o.version <= lesson.version /\ o.version \in Nat /\ SeqNo[x] \in Nat
    BY <1>5, <1>7, <2>2, CurateAssumption DEF Readable
  <2> QED
    BY <1>7, <2>2, <2>3
<1>10. ASSUME NEW o \in added PROVE \E a \in Known(req) : o.version = SeqNo[a]
  BY <1>1, <1>5 DEF SoundOccurrences
<1> QED
  BY <1>7, <1>8, <1>9, <1>10

\* The failures assigned to a topic key.
AssignedTo(c, t) == {a.activity_id : a \in {a \in c.assignments : a.lesson = t}}

\* No proposal adds to the lesson: only failures do.
OnlyFailures(c, t) == \A p \in c.memories : p.kind # "lesson" \/ p.topic_key # t

LEMMA OccurrencesOfFailures ==
  ASSUME NEW req, NEW c, SoundCheck(req, c), NEW t, OnlyFailures(c, t),
         NEW occ, occ = Occurrences(c, t)
  PROVE  /\ \A o \in occ : \E f \in AssignedTo(c, t) : o.sources = <<f>> /\ o.version = SeqNo[f]
         /\ \A f \in AssignedTo(c, t) : \E o \in occ : o.sources = <<f>> /\ o.version = SeqNo[f]
         /\ \A o, e \in occ : o.sources = e.sources => o = e
<1> DEFINE A == {a \in c.assignments : a.lesson = t}
           Entry(a) == [place |-> a.place, sources |-> <<a.activity_id>>,
                        version |-> SeqNo[a.activity_id]]
<1>1. {p \in OfTopic(c.memories, t) : p.kind = "lesson"} = {}
  BY DEF OnlyFailures, OfTopic
<1>2. occ = {Entry(a) : a \in A}
  <2> DEFINE P == {p \in OfTopic(c.memories, t) : p.kind = "lesson"}
             fromP(p) == [place |-> p.place, sources |-> p.sources, version |-> p.version]
  <2>1. occ = {Entry(a) : a \in A} \cup {fromP(p) : p \in P}
    BY DEF Occurrences
  <2>2. {fromP(p) : p \in P} = {}
    BY <1>1
  <2> HIDE DEF P, fromP, A, Entry
  <2> QED
    BY <2>1, <2>2
<1>3. \A a \in A : /\ Entry(a).sources = <<a.activity_id>>
                   /\ Entry(a).version = SeqNo[a.activity_id]
  OBVIOUS
<1>4. \A a, b \in A : a.activity_id = b.activity_id => a = b
  BY DEF SoundCheck, SoundAssignments
<1>5. AssignedTo(c, t) = {a.activity_id : a \in A}
  BY DEF AssignedTo
<1>6. \A x, y : <<x>> = <<y>> => x = y
  OBVIOUS
<1> HIDE DEF Entry, A
<1>7. ASSUME NEW o \in occ
      PROVE  \E f \in AssignedTo(c, t) : o.sources = <<f>> /\ o.version = SeqNo[f]
  <2>1. PICK a \in A : o = Entry(a)
    BY <1>2
  <2> QED
    BY <1>3, <1>5, <2>1
<1>8. ASSUME NEW f \in AssignedTo(c, t)
      PROVE  \E o \in occ : o.sources = <<f>> /\ o.version = SeqNo[f]
  <2>1. PICK a \in A : f = a.activity_id
    BY <1>5
  <2> QED
    BY <1>2, <1>3, <2>1
<1>9. ASSUME NEW o \in occ, NEW e \in occ, o.sources = e.sources PROVE o = e
  <2>1. PICK a \in A : o = Entry(a)
    BY <1>2
  <2>2. PICK b \in A : e = Entry(b)
    BY <1>2
  <2>3. a.activity_id = b.activity_id
    BY <1>3, <1>6, <1>9, <2>1, <2>2
  <2> QED
    BY <1>4, <2>1, <2>2, <2>3
<1> QED
  BY <1>7, <1>8, <1>9

LEMMA AssignedAreFailures ==
  ASSUME NEW req, NEW c, SoundCheck(req, c), NEW t
  PROVE  AssignedTo(c, t) \subseteq Failures(req)
BY DEF AssignedTo, SoundCheck, SoundAssignments

\* An assigned failure adds an occurrence when the prior version does not cite it.
LEMMA AddedAreUncited ==
  ASSUME NEW req, Readable(req), NEW c, SoundCheck(req, c), NEW t \in Topics, OnlyFailures(c, t),
         NEW occ, occ = Occurrences(c, t), NEW prior,
         NEW o \in occ, NEW f \in AssignedTo(c, t), o.sources = <<f>>
  PROVE  /\ o \in AddedOccurrences(prior, occ) <=> f \notin Cited(prior)
         /\ \A x : x \in ToSet(FreshSources(prior, occ, o)) <=> x = f /\ f \notin Cited(prior)
<1> DEFINE fresh == FreshSources(prior, occ, o)
<1>1. SoundOccurrences(req, occ)
  BY OccurrencesSound DEF Readable
<1>2. /\ \A e \in occ : \E g \in AssignedTo(c, t) : e.sources = <<g>>
      /\ \A e \in occ : e.sources = o.sources => e = o
  BY OccurrencesOfFailures
<1>3. AssignedTo(c, t) \subseteq Activity
  BY AssignedAreFailures DEF Readable, Failures, Known
<1>4. \A g \in Activity : <<g>> \in Seq(Activity) /\ ToSet(<<g>>) = {g}
  BY OneSource
<1>5. o.sources \in Seq(Activity) /\ ToSet(o.sources) = {f}
  BY <1>3, <1>4
<1>6. \A e \in occ : e.place < o.place => f \notin ToSet(e.sources)
  <2>1. ASSUME NEW e \in occ, e.place < o.place, f \in ToSet(e.sources) PROVE FALSE
    <3>1. PICK g \in AssignedTo(c, t) : e.sources = <<g>>
      BY <1>2
    <3>2. f = g
      BY <1>3, <1>4, <2>1, <3>1
    <3>3. e = o
      BY <1>2, <3>1, <3>2
    <3>4. o.place \in Nat
      BY <1>1 DEF SoundOccurrences
    <3> QED
      BY <2>1, <3>3, <3>4
  <2> QED
    BY <2>1
<1>7. ASSUME NEW e \in occ, NEW x
      PROVE  /\ FreshSources(prior, occ, e) \in Seq(Activity)
             /\ x \in ToSet(FreshSources(prior, occ, e)) <=> Uncited(prior, occ, e, x)
  <2>1. e.sources \in Seq(Activity)
    BY <1>1 DEF SoundOccurrences
  <2> QED
    BY <2>1, FreshAreUncited
<1>8. \A x : x \in ToSet(fresh) <=> x = f /\ f \notin Cited(prior)
  BY <1>5, <1>6, <1>7 DEF Uncited
<1>9. fresh # <<>> <=> \E x : x \in ToSet(fresh)
  <2>1. fresh \in Seq(Activity)
    BY <1>7
  <2> HIDE DEF fresh
  <2>2. ASSUME fresh # <<>> PROVE \E x : x \in ToSet(fresh)
    <3>1. 1 \in DOMAIN fresh
      BY <2>1, <2>2
    <3> QED
      BY <3>1 DEF ToSet
  <2>3. ASSUME NEW x \in ToSet(fresh) PROVE fresh # <<>>
    BY <2>3 DEF ToSet
  <2> QED
    BY <2>2, <2>3
<1>10. o \in AddedOccurrences(prior, occ) <=> fresh # <<>>
  BY DEF AddedOccurrences
<1> QED
  BY <1>8, <1>9, <1>10

\* A lesson grows by the assigned failures that its prior version does not cite.
LEMMA LessonCounts ==
  ASSUME NEW req, Readable(req), NEW c, SoundCheck(req, c), NEW t \in Topics, OnlyFailures(c, t),
         NEW prior, prior = PriorLesson(req, t),
         NEW new, new = AssignedTo(c, t) \ Cited(prior)
  PROVE  /\ IsFiniteSet(new)
         /\ Cardinality(AddedTo(req, c, t)) = Cardinality(new)
         /\ AddedTo(req, c, t) # {} <=> new # {}
<1> DEFINE occ == Occurrences(c, t)
           added == AddedTo(req, c, t)
           f == [o \in added |-> o.sources[1]]
<1>1. added = AddedOccurrences(prior, occ)
  BY DEF AddedTo
<1>2. SoundOccurrences(req, occ)
  BY OccurrencesSound DEF Readable
<1>3. IsFiniteSet(added) /\ added \subseteq occ
  <2> HIDE DEF added, occ
  <2> QED
    BY <1>1, <1>2, AddedSound
<1>4. /\ \A o \in occ : \E g \in AssignedTo(c, t) : o.sources = <<g>>
      /\ \A g \in AssignedTo(c, t) : \E o \in occ : o.sources = <<g>>
      /\ \A o, e \in occ : o.sources = e.sources => o = e
  BY OccurrencesOfFailures
<1>5. ASSUME NEW o \in occ, NEW g \in AssignedTo(c, t), o.sources = <<g>>
      PROVE  o \in added <=> g \in new
  <2>1. o \in AddedOccurrences(prior, occ) <=> g \notin Cited(prior)
    BY <1>5, AddedAreUncited
  <2> QED
    BY <1>1, <2>1
<1>6. \A x : <<x>>[1] = x
  OBVIOUS
<1>7. \A o \in added : f[o] = o.sources[1]
  OBVIOUS
<1> HIDE DEF added, occ
<1>8. \A o \in added : f[o] \in new /\ o.sources = <<f[o]>>
  <2>1. ASSUME NEW o \in added PROVE f[o] \in new /\ o.sources = <<f[o]>>
    <3>1. o \in occ
      BY <1>3
    <3>2. PICK g \in AssignedTo(c, t) : o.sources = <<g>>
      BY <1>4, <3>1
    <3>3. f[o] = g
      BY <1>6, <1>7, <3>2
    <3> QED
      BY <1>5, <3>1, <3>2, <3>3
  <2> QED
    BY <2>1
<1>9. f \in [added -> new]
  BY <1>8
<1>10. \A g \in new : \E o \in added : f[o] = g
  <2>1. ASSUME NEW g \in new PROVE \E o \in added : f[o] = g
    <3>1. g \in AssignedTo(c, t)
      OBVIOUS
    <3>2. PICK o \in occ : o.sources = <<g>>
      BY <1>4, <3>1
    <3>3. o \in added
      BY <1>5, <3>1, <3>2
    <3> QED
      BY <1>6, <1>7, <3>2, <3>3
  <2> QED
    BY <2>1
<1>11. \A o, e \in added : f[o] = f[e] => o = e
  <2>1. ASSUME NEW o \in added, NEW e \in added, f[o] = f[e] PROVE o = e
    <3>1. o.sources = e.sources
      BY <1>8, <2>1
    <3> QED
      BY <1>3, <1>4, <3>1
  <2> QED
    BY <2>1
<1> HIDE DEF f
<1>12. f \in Bijection(added, new)
  BY <1>9, <1>10, <1>11 DEF Bijection, Injection, Surjection, IsInjective
<1>13. ExistsBijection(added, new)
  BY <1>12 DEF ExistsBijection
<1>14. IsFiniteSet(new) /\ Cardinality(new) = Cardinality(added)
  BY <1>3, <1>13, FS_Bijection
<1>15. added # {} <=> new # {}
  BY <1>9, <1>10
<1> QED
  BY <1>14, <1>15 DEF added

-------------------------------------------------------------------------------
\* The versions of one answer.

PriorOther(req, p) == Newest(OfTopic(ActiveOthers(req), p.topic_key))

OtherOf(p) ==
    [kind |-> p.kind, topic_key |-> p.topic_key, statement |-> p.statement,
     version |-> p.version, occurrences |-> 1, sources |-> p.sources, resolves |-> p.resolves]

NewLesson(req, c, v) ==
    \E t \in Topics :
        /\ AddedTo(req, c, t) # {}
        /\ v.memory = LessonOf(req, c, t)
        /\ v.supersedes = Supersedes(PriorLesson(req, t))

NewOther(req, c, v) ==
    \E p \in Winners(c) :
        /\ Fresher(req, PriorOther(req, p), p)
        /\ v.memory = OtherOf(p)
        /\ v.supersedes = Supersedes(PriorOther(req, p))

LEMMA VersionsAre ==
  ASSUME NEW req, NEW c
  PROVE  /\ \A v \in NewLessons(req, c) : NewLesson(req, c, v)
         /\ \A v \in NewOthers(req, c) : NewOther(req, c, v)
         /\ Consolidate(req, c).memories = NewLessons(req, c) \cup NewOthers(req, c)
<1>1. ASSUME NEW v \in NewLessons(req, c) PROVE NewLesson(req, c, v)
  <2> DEFINE T == {t \in Topics : AddedTo(req, c, t) # {}}
             Version(t) == [memory |-> LessonOf(req, c, t),
                            supersedes |-> Supersedes(PriorLesson(req, t))]
  <2>1. NewLessons(req, c) = {Version(t) : t \in T}
    BY NewLessonsAre
  <2>2. \A t : /\ Version(t).memory = LessonOf(req, c, t)
               /\ Version(t).supersedes = Supersedes(PriorLesson(req, t))
    OBVIOUS
  <2> HIDE DEF Version
  <2>3. PICK t \in T : v = Version(t)
    BY <2>1
  <2> QED
    BY <2>2, <2>3 DEF NewLesson
<1>2. ASSUME NEW v \in NewOthers(req, c) PROVE NewOther(req, c, v)
  <2> DEFINE P == {p \in Winners(c) : Fresher(req, PriorOther(req, p), p)}
             Version(p) == [memory |-> OtherOf(p), supersedes |-> Supersedes(PriorOther(req, p))]
  <2>1. NewOthers(req, c) = {Version(p) : p \in P}
    BY DEF NewOthers, PriorOther, OtherOf
  <2>2. \A p : /\ Version(p).memory = OtherOf(p)
               /\ Version(p).supersedes = Supersedes(PriorOther(req, p))
    OBVIOUS
  <2> HIDE DEF Version
  <2>3. PICK p \in P : v = Version(p)
    BY <2>1
  <2> QED
    BY <2>2, <2>3 DEF NewOther
<1>3. Consolidate(req, c).memories = NewLessons(req, c) \cup NewOthers(req, c)
  BY DEF Consolidate
<1> QED
  BY <1>1, <1>2, <1>3

LEMMA PriorOtherIsNewest ==
  ASSUME NEW req, Readable(req), NEW p, p.topic_key \in Topics,
         NEW prior, prior = PriorOther(req, p)
  PROVE  /\ prior # NoMemory =>
              /\ prior \in req.active /\ prior.kind # "lesson" /\ prior.topic_key = p.topic_key
              /\ prior.version \in Nat
         /\ \A m \in req.active : m.kind # "lesson" /\ m.topic_key = p.topic_key =>
              prior # NoMemory /\ m.version <= prior.version
<1> DEFINE t == p.topic_key
           S == OfTopic(ActiveOthers(req), t)
<1>1. S \subseteq OfTopic(req.active, t)
  BY DEF OfTopic, ActiveOthers
<1>2. IsFiniteSet(S)
  BY <1>1, FS_Subset DEF Readable
<1>3. \A m : m \in S <=> m \in req.active /\ m.kind # "lesson" /\ m.topic_key = t
  BY DEF OfTopic, ActiveOthers, ActiveLessons
<1>4. prior = Newest(S)
  BY DEF PriorOther
<1> HIDE DEF S
<1>5. \A m \in S : m.version \in Nat /\ m # NoMemory
  BY <1>3 DEF Readable
<1>6. /\ S = {} => Newest(S) = NoMemory
      /\ S # {} => Newest(S) \in S /\ \A n \in S : n.version <= Newest(S).version
  BY <1>2, <1>5, NewestIsGreatest
<1>7. CASE S = {}
  BY <1>3, <1>4, <1>6, <1>7
<1>8. CASE S # {}
  BY <1>3, <1>4, <1>5, <1>6, <1>8
<1> QED
  BY <1>7, <1>8

\* The winner of a topic key is one proposal.
LEMMA OneWinner ==
  ASSUME NEW req, NEW c, SoundCheck(req, c), NEW p \in Winners(c), NEW q \in Winners(c)
  PROVE  /\ p \in c.memories /\ p.kind # "lesson" /\ SoundProposal(req, p)
         /\ p.topic_key = q.topic_key => p = q
<1>1. /\ p \in c.memories /\ p.kind # "lesson" /\ q \in c.memories /\ q.kind # "lesson"
      /\ p.topic_key = q.topic_key =>
            /\ q.version < p.version \/ (q.version = p.version /\ q.place <= p.place)
            /\ p.version < q.version \/ (p.version = q.version /\ p.place <= q.place)
  BY DEF Winners, OfTopic
<1>2. SoundProposal(req, p) /\ SoundProposal(req, q)
  BY <1>1 DEF SoundCheck, SoundMemories
<1>3. p.version \in Nat /\ q.version \in Nat /\ p.place \in Nat /\ q.place \in Nat
  BY <1>2 DEF SoundProposal
<1>4. p.topic_key = q.topic_key => p.place = q.place
  BY <1>1, <1>3
<1> QED
  BY <1>1, <1>2, <1>4 DEF SoundCheck, SoundMemories

\* What a new version is, of a lesson or not.
LEMMA NewLessonFacts ==
  ASSUME NEW req, Readable(req), NEW c, SoundCheck(req, c), NEW v, NewLesson(req, c, v)
  PROVE  \E t \in Topics :
            LET prior == PriorLesson(req, t) IN
            /\ AddedTo(req, c, t) # {}
            /\ v.memory = LessonOf(req, c, t)
            /\ v.memory.kind = "lesson" /\ v.memory.topic_key = t
            /\ \A m : m \in v.supersedes <=> prior # NoMemory /\ m = prior
            /\ UNION {ToSet(m.sources) : m \in v.supersedes} = Cited(prior)
<1>1. PICK t \in Topics : /\ AddedTo(req, c, t) # {}
                          /\ v.memory = LessonOf(req, c, t)
                          /\ v.supersedes = Supersedes(PriorLesson(req, t))
  BY DEF NewLesson
<1>2. v.memory.kind = "lesson" /\ v.memory.topic_key = t
  BY <1>1 DEF LessonOf
<1>3. /\ \A m : m \in v.supersedes <=> PriorLesson(req, t) # NoMemory /\ m = PriorLesson(req, t)
      /\ UNION {ToSet(m.sources) : m \in v.supersedes} = Cited(PriorLesson(req, t))
  BY <1>1, SupersededIsPrior
<1> QED
  BY <1>1, <1>2, <1>3

LEMMA NewOtherFacts ==
  ASSUME NEW req, Readable(req), NEW c, SoundCheck(req, c), NEW v, NewOther(req, c, v)
  PROVE  \E p \in Winners(c) :
            LET prior == PriorOther(req, p) IN
            /\ SoundProposal(req, p)
            /\ v.memory = OtherOf(p)
            /\ v.memory.kind = p.kind /\ p.kind # "lesson" /\ v.memory.topic_key = p.topic_key
            /\ v.memory.version = p.version /\ v.memory.sources = p.sources
            /\ v.memory.statement = p.statement
            /\ \A m : m \in v.supersedes <=> prior # NoMemory /\ m = prior
            /\ prior # NoMemory => prior.statement # p.statement /\ prior.version <= p.version
<1>1. PICK p \in Winners(c) : /\ Fresher(req, PriorOther(req, p), p)
                              /\ v.memory = OtherOf(p)
                              /\ v.supersedes = Supersedes(PriorOther(req, p))
  BY DEF NewOther
<1>2. SoundProposal(req, p) /\ p.kind # "lesson"
  BY OneWinner
<1>3. \A m : m \in v.supersedes <=> PriorOther(req, p) # NoMemory /\ m = PriorOther(req, p)
  BY <1>1, SupersededIsPrior
<1>4. PriorOther(req, p) # NoMemory =>
        PriorOther(req, p).statement # p.statement /\ PriorOther(req, p).version <= p.version
  BY <1>1 DEF Fresher
<1>5. /\ v.memory.kind = p.kind /\ v.memory.topic_key = p.topic_key
      /\ v.memory.version = p.version /\ v.memory.sources = p.sources
      /\ v.memory.statement = p.statement
  BY <1>1 DEF OtherOf
<1> QED
  BY <1>1, <1>2, <1>3, <1>4, <1>5

-------------------------------------------------------------------------------
\* What the versions of one answer promise the host.

VersionOf(req, c, v) == NewLesson(req, c, v) \/ NewOther(req, c, v)

\* What a version owes the active memories of its row: it replaces a newest one
\* when there is one, and a memory other than a lesson restates nothing.
Admissible(req, v) ==
    LET priors == {m \in req.active : SameRow(m, v.memory)} IN
    /\ v.supersedes \subseteq priors
    /\ priors # {} => v.supersedes # {}
    /\ \A m \in v.supersedes, n \in priors : n.version <= m.version
    /\ \A m \in priors : m.version <= v.memory.version
    /\ \A m \in v.supersedes : ~IsLesson(m) => m.statement # v.memory.statement

Grounded(req, v) ==
    LET fresh == ToSet(v.memory.sources) \ PriorCites(v)
    IN  /\ fresh \subseteq Known(req)
        /\ \A a \in fresh : SeqNo[a] <= v.memory.version
        /\ v.memory.version \in
             {SeqNo[a] : a \in Known(req)} \cup {m.version : m \in v.supersedes}

LEMMA LessonAdmissible ==
  ASSUME NEW req, Readable(req), NEW c, SoundCheck(req, c), NEW v, NewLesson(req, c, v)
  PROVE  Admissible(req, v) /\ Grounded(req, v)
<1>1. PICK t \in Topics :
         /\ AddedTo(req, c, t) # {}
         /\ v.memory = LessonOf(req, c, t)
         /\ v.memory.kind = "lesson" /\ v.memory.topic_key = t
         /\ \A m : m \in v.supersedes <=> PriorLesson(req, t) # NoMemory /\ m = PriorLesson(req, t)
         /\ UNION {ToSet(m.sources) : m \in v.supersedes} = Cited(PriorLesson(req, t))
  BY NewLessonFacts
<1> DEFINE prior == PriorLesson(req, t)
           priors == {m \in req.active : SameRow(m, v.memory)}
<1>2. /\ prior # NoMemory =>
            /\ prior \in req.active /\ prior.kind = "lesson" /\ prior.topic_key = t
            /\ prior.version \in Nat /\ prior.occurrences \in Nat
            /\ prior.sources \in Seq(Activity)
      /\ \A m \in req.active : m.kind = "lesson" /\ m.topic_key = t =>
            prior # NoMemory /\ m.version <= prior.version
  BY PriorIsNewest
<1>3. /\ v.memory.version \in Nat
      /\ prior # NoMemory => prior.version <= v.memory.version
      /\ \/ \E a \in Known(req) : v.memory.version = SeqNo[a]
         \/ prior # NoMemory /\ v.memory.version = prior.version
      /\ \A x \in ToSet(v.memory.sources) :
            x \in Cited(prior) \/ (x \in Known(req) /\ SeqNo[x] <= v.memory.version)
  BY <1>1, LessonGrounded
<1>4. \A m : m \in v.supersedes <=> prior # NoMemory /\ m = prior
  BY <1>1
<1>5. PriorCites(v) = Cited(prior)
  BY <1>1 DEF PriorCites
<1> HIDE DEF prior
<1>6. \A m : m \in priors <=> m \in req.active /\ m.kind = "lesson" /\ m.topic_key = t
  BY <1>1 DEF SameRow, IsLesson
<1> HIDE DEF priors
<1>7. \A m \in priors : prior # NoMemory /\ m.version \in Nat /\ m.version <= prior.version
  BY <1>2, <1>6 DEF Readable
<1>8. \A m \in priors : m.version <= v.memory.version
  BY <1>2, <1>3, <1>7
<1>9. Admissible(req, v)
  <2>1. v.supersedes \subseteq priors
    BY <1>2, <1>4, <1>6
  <2>2. priors # {} => v.supersedes # {}
    BY <1>4, <1>7
  <2>3. \A m \in v.supersedes, n \in priors : n.version <= m.version
    BY <1>4, <1>7
  <2>4. \A m \in v.supersedes : ~IsLesson(m) => m.statement # v.memory.statement
    BY <1>2, <1>4 DEF IsLesson
  <2> QED
    BY <1>8, <2>1, <2>2, <2>3, <2>4 DEF Admissible, priors
<1>10. v.memory.version \in {SeqNo[a] : a \in Known(req)} \cup {m.version : m \in v.supersedes}
  BY <1>3, <1>4
<1>11. Grounded(req, v)
  BY <1>3, <1>5, <1>10 DEF Grounded
<1> QED
  BY <1>9, <1>11

LEMMA OtherAdmissible ==
  ASSUME NEW req, Readable(req), NEW c, SoundCheck(req, c), NEW v, NewOther(req, c, v)
  PROVE  Admissible(req, v) /\ Grounded(req, v)
<1>1. PICK p \in Winners(c) :
         /\ SoundProposal(req, p)
         /\ v.memory.kind = p.kind /\ p.kind # "lesson" /\ v.memory.topic_key = p.topic_key
         /\ v.memory.version = p.version /\ v.memory.sources = p.sources
         /\ v.memory.statement = p.statement
         /\ \A m : m \in v.supersedes <=> PriorOther(req, p) # NoMemory /\ m = PriorOther(req, p)
         /\ PriorOther(req, p) # NoMemory =>
               PriorOther(req, p).statement # p.statement /\ PriorOther(req, p).version <= p.version
  BY NewOtherFacts
<1> DEFINE prior == PriorOther(req, p)
           priors == {m \in req.active : SameRow(m, v.memory)}
<1>2. p.topic_key \in Topics /\ p.version \in Nat
  BY <1>1 DEF SoundProposal
<1>3. /\ prior # NoMemory =>
            /\ prior \in req.active /\ prior.kind # "lesson" /\ prior.topic_key = p.topic_key
            /\ prior.version \in Nat
      /\ \A m \in req.active : m.kind # "lesson" /\ m.topic_key = p.topic_key =>
            prior # NoMemory /\ m.version <= prior.version
  BY <1>2, PriorOtherIsNewest
<1>4. /\ \A m : m \in v.supersedes <=> prior # NoMemory /\ m = prior
      /\ prior # NoMemory => prior.statement # p.statement /\ prior.version <= p.version
  BY <1>1
<1> HIDE DEF prior
<1>5. \A m : m \in priors <=> m \in req.active /\ m.kind # "lesson" /\ m.topic_key = p.topic_key
  BY <1>1 DEF SameRow, IsLesson
<1> HIDE DEF priors
<1>6. \A m \in priors : prior # NoMemory /\ m.version \in Nat /\ m.version <= prior.version
  BY <1>3, <1>5 DEF Readable
<1>7. \A m \in priors : m.version <= v.memory.version
  BY <1>1, <1>2, <1>3, <1>4, <1>6
<1>8. Admissible(req, v)
  <2>1. v.supersedes \subseteq priors
    BY <1>3, <1>4, <1>5
  <2>2. priors # {} => v.supersedes # {}
    BY <1>4, <1>6
  <2>3. \A m \in v.supersedes, n \in priors : n.version <= m.version
    BY <1>4, <1>6
  <2>4. \A m \in v.supersedes : m.statement # v.memory.statement
    BY <1>1, <1>4
  <2> QED
    BY <1>7, <2>1, <2>2, <2>3, <2>4 DEF Admissible, priors
<1>9. /\ ToSet(v.memory.sources) \subseteq Known(req)
      /\ \A a \in ToSet(v.memory.sources) : SeqNo[a] <= v.memory.version
      /\ \E a \in Known(req) : v.memory.version = SeqNo[a]
  BY <1>1 DEF SoundProposal
<1>10. Grounded(req, v)
  BY <1>9 DEF Grounded
<1> QED
  BY <1>8, <1>10

\* There is one new version of a row.
LEMMA OneVersion ==
  ASSUME NEW req, Readable(req), NEW c, SoundCheck(req, c),
         NEW v, VersionOf(req, c, v), NEW w, VersionOf(req, c, w), SameRow(v.memory, w.memory)
  PROVE  v.memory = w.memory
<1>1. v.memory.topic_key = w.memory.topic_key /\ IsLesson(v.memory) = IsLesson(w.memory)
  BY DEF SameRow
<1>2. \A u : NewLesson(req, c, u) => IsLesson(u.memory) /\ u.memory = LessonOf(req, c, u.memory.topic_key)
  <2> SUFFICES ASSUME NEW u, NewLesson(req, c, u)
               PROVE  IsLesson(u.memory) /\ u.memory = LessonOf(req, c, u.memory.topic_key)
    OBVIOUS
  <2>1. PICK t \in Topics : u.memory = LessonOf(req, c, t) /\ u.memory.kind = "lesson" /\ u.memory.topic_key = t
    BY NewLessonFacts
  <2> QED
    BY <2>1 DEF IsLesson
<1>3. \A u : NewOther(req, c, u) =>
               ~IsLesson(u.memory) /\ \E p \in Winners(c) : u.memory = OtherOf(p) /\ u.memory.topic_key = p.topic_key
  <2> SUFFICES ASSUME NEW u, NewOther(req, c, u)
               PROVE  ~IsLesson(u.memory) /\ \E p \in Winners(c) : u.memory = OtherOf(p) /\ u.memory.topic_key = p.topic_key
    OBVIOUS
  <2>1. PICK p \in Winners(c) : /\ u.memory = OtherOf(p) /\ u.memory.kind = p.kind
                                /\ p.kind # "lesson" /\ u.memory.topic_key = p.topic_key
    BY NewOtherFacts
  <2> QED
    BY <2>1 DEF IsLesson
<1>4. CASE NewLesson(req, c, v)
  <2>1. IsLesson(w.memory)
    BY <1>1, <1>2, <1>4
  <2>2. NewLesson(req, c, w)
    BY <1>3, <2>1 DEF VersionOf
  <2>3. /\ v.memory = LessonOf(req, c, v.memory.topic_key)
        /\ w.memory = LessonOf(req, c, w.memory.topic_key)
    BY <1>2, <1>4, <2>2
  <2> QED
    BY <1>1, <2>3
<1>5. CASE NewOther(req, c, v)
  <2>1. ~IsLesson(w.memory)
    BY <1>1, <1>3, <1>5
  <2>2. NewOther(req, c, w)
    BY <1>2, <2>1 DEF VersionOf
  <2>3. PICK p \in Winners(c) : v.memory = OtherOf(p) /\ v.memory.topic_key = p.topic_key
    BY <1>3, <1>5
  <2>4. PICK q \in Winners(c) : w.memory = OtherOf(q) /\ w.memory.topic_key = q.topic_key
    BY <1>3, <2>2
  <2>5. p = q
    BY <1>1, <2>3, <2>4, OneWinner
  <2> QED
    BY <2>3, <2>4, <2>5
<1> QED
  BY <1>4, <1>5 DEF VersionOf

\* Under the module profile nothing but failures adds to a lesson.
LEMMA CountedFailures ==
  ASSUME NEW req, Readable(req), NEW c, SoundCheck(req, c), req.profile = "module",
         NEW v, VersionOf(req, c, v), v.memory.kind = "lesson",
         NEW new, new = AssignedTo(c, v.memory.topic_key) \ PriorCites(v)
  PROVE  new # {} /\ v.memory.occurrences = PriorOccurrences(v) + Cardinality(new)
<1>1. NewLesson(req, c, v)
  <2>1. ~NewOther(req, c, v)
    BY NewOtherFacts
  <2> QED
    BY <2>1 DEF VersionOf
<1>2. PICK t \in Topics :
         /\ AddedTo(req, c, t) # {}
         /\ v.memory = LessonOf(req, c, t) /\ v.memory.topic_key = t
         /\ \A m : m \in v.supersedes <=> PriorLesson(req, t) # NoMemory /\ m = PriorLesson(req, t)
         /\ UNION {ToSet(m.sources) : m \in v.supersedes} = Cited(PriorLesson(req, t))
  BY <1>1, NewLessonFacts
<1> DEFINE prior == PriorLesson(req, t)
           before == IF prior = NoMemory THEN 0 ELSE prior.occurrences
<1>3. OnlyFailures(c, t)
  <2>1. \A p \in c.memories : p.kind \in MemoryKinds["module"]
    BY DEF SoundCheck, SoundMemories, SoundProposal
  <2> QED
    BY <2>1 DEF OnlyFailures, MemoryKinds
<1>4. new = AssignedTo(c, t) \ Cited(prior)
  BY <1>2 DEF PriorCites
<1>5. /\ Cardinality(AddedTo(req, c, t)) = Cardinality(new)
      /\ AddedTo(req, c, t) # {} <=> new # {}
  BY <1>3, <1>4, LessonCounts
<1>6. v.memory.occurrences = Cardinality(AddedTo(req, c, t)) + before
  BY <1>2 DEF LessonOf
<1>7. before \in Nat
  BY PriorIsNewest
<1>8. PriorOccurrences(v) = before
  <2>1. CASE prior = NoMemory
    BY <1>2, <2>1 DEF PriorOccurrences
  <2>2. CASE prior # NoMemory
    <3>1. v.supersedes = {prior}
      BY <1>2, <2>2
    <3> QED
      BY <2>2, <3>1 DEF PriorOccurrences
  <2> QED
    BY <2>1, <2>2
<1>9. Cardinality(AddedTo(req, c, t)) \in Nat
  <2>1. IsFiniteSet(new)
    BY <1>3, <1>4, LessonCounts
  <2> QED
    BY <1>5, <2>1, FS_CardinalityType
<1> HIDE DEF before, prior
<1>10. v.memory.occurrences = before + Cardinality(new)
  <2>1. \A k, b \in Nat : k + b = b + k
    OBVIOUS
  <2> QED
    BY <1>5, <1>6, <1>7, <1>9, <2>1, Zenon
<1>11. new # {}
  BY <1>2, <1>5
<1> QED
  BY <1>8, <1>10, <1>11

\* A topic key stands for a version the caller will hold, if for any.
LEMMA ReferredIsHeld ==
  ASSUME NEW req, Readable(req), NEW c, SoundCheck(req, c), NEW t \in Topics,
         NEW id, id = ReferredId(req, NewLessons(req, c), NewOthers(req, c), t), id # NoMemory
  PROVE  id \in req.active \/ \E v \in Consolidate(req, c).memories : id = v.memory
<1> DEFINE lessons == NewLessons(req, c)
           others == NewOthers(req, c)
           new(versions) == OfTopic({v.memory : v \in versions}, t)
<1>1. /\ \A v \in lessons : NewLesson(req, c, v) /\ IsLesson(v.memory)
      /\ \A v \in others : NewOther(req, c, v) /\ ~IsLesson(v.memory)
      /\ Consolidate(req, c).memories = lessons \cup others
  BY VersionsAre, NewLessonFacts, NewOtherFacts DEF IsLesson
<1>2. \A v \in lessons \cup others : VersionOf(req, c, v) /\ v.memory.version \in Nat
  <2>1. ASSUME NEW v \in lessons PROVE v.memory.version \in Nat
    <3>1. PICK s \in Topics : AddedTo(req, c, s) # {} /\ v.memory = LessonOf(req, c, s)
      BY <1>1, <2>1 DEF NewLesson
    <3> QED
      BY <3>1, LessonGrounded
  <2>2. ASSUME NEW v \in others PROVE v.memory.version \in Nat
    <3>1. PICK p \in Winners(c) : SoundProposal(req, p) /\ v.memory.version = p.version
      BY <1>1, <2>2, NewOtherFacts
    <3> QED
      BY <3>1 DEF SoundProposal
  <2> QED
    BY <1>1, <2>1, <2>2 DEF VersionOf
<1> HIDE DEF lessons, others
<1>3. ASSUME NEW S, S = lessons \/ S = others, new(S) # {}
      PROVE  \E v \in lessons \cup others : Newest(new(S)) = v.memory
  <2>1. \A m \in new(S) : \E v \in S : m = v.memory /\ v.memory.topic_key = t
    BY DEF OfTopic
  <2>2. (\A v \in S : v.memory.kind = "lesson") \/ (\A v \in S : v.memory.kind # "lesson")
    <3>1. CASE S = lessons
      BY <1>1, <3>1 DEF IsLesson
    <3>2. CASE S = others
      BY <1>1, <3>2 DEF IsLesson
    <3> QED
      BY <1>3, <3>1, <3>2
  <2>3. \A m, n \in new(S) : m = n /\ m.version \in Nat
    <3>1. TAKE m, n \in new(S)
    <3>2. PICK v \in S : m = v.memory /\ v.memory.topic_key = t
      BY <2>1
    <3>3. PICK w \in S : n = w.memory /\ w.memory.topic_key = t
      BY <2>1
    <3>4. SameRow(v.memory, w.memory)
      BY <2>2, <3>2, <3>3 DEF SameRow, IsLesson
    <3>5. VersionOf(req, c, v) /\ VersionOf(req, c, w) /\ v.memory.version \in Nat
      BY <1>2, <1>3
    <3>6. v.memory = w.memory
      BY <3>4, <3>5, OneVersion
    <3> QED
      BY <3>2, <3>3, <3>5, <3>6
  <2> HIDE DEF new
  <2>4. PICK m \in new(S) : \A n \in new(S) : n = m /\ n.version <= m.version
    BY <1>3, <2>3
  <2>5. Newest(new(S)) = CHOOSE k \in new(S) : \A n \in new(S) : n.version <= k.version
    BY <1>3 DEF Newest
  <2>6. Newest(new(S)) \in new(S)
    BY <2>4, <2>5, Zenon
  <2> QED
    BY <1>3, <2>1, <2>6
<1>4. CASE new(others) # {}
  BY <1>1, <1>3, <1>4 DEF ReferredId, others, lessons
<1>5. CASE new(others) = {} /\ new(lessons) # {}
  BY <1>1, <1>3, <1>5 DEF ReferredId, others, lessons
<1>6. CASE new(others) = {} /\ new(lessons) = {}
  <2>1. id = Newest(OfTopic(req.active, t))
    BY <1>6 DEF ReferredId, others, lessons
  <2>2. /\ IsFiniteSet(OfTopic(req.active, t))
        /\ \A m \in OfTopic(req.active, t) : m.version \in Nat /\ m \in req.active
    BY DEF Readable, OfTopic
  <2> QED
    BY <2>1, <2>2, NewestIsGreatest
<1> QED
  BY <1>4, <1>5, <1>6

\* A conflict that is reported names an active memory and another one.
LEMMA ReportedAreHeld ==
  ASSUME NEW req, Readable(req), NEW c, SoundCheck(req, c),
         NEW pair \in Consolidate(req, c).conflicts
  PROVE  /\ Cardinality(pair) = 2
         /\ pair \cap req.active # {}
         /\ \A m \in pair : m \in req.active \/ \E v \in Consolidate(req, c).memories : m = v.memory
<1> DEFINE id(side) == IF side \in Topics
                         THEN ReferredId(req, NewLessons(req, c), NewOthers(req, c), side) ELSE side
<1>1. /\ Cardinality(pair) = 2 /\ NoMemory \notin pair
      /\ \E sides \in c.conflicts : pair = {id(side) : side \in sides}
  BY DEF Consolidate, ReportedConflicts
<1>2. PICK sides \in c.conflicts : pair = {id(side) : side \in sides}
  BY <1>1
<1>3. PICK m \in req.active : \E side \in req.active \cup {p.topic_key : p \in c.memories} :
         sides = {m, side}
  BY DEF SoundCheck, SoundConflict
<1>4. PICK side \in req.active \cup {p.topic_key : p \in c.memories} : sides = {m, side}
  BY <1>3
<1>5. pair = {id(m), id(side)}
  BY <1>2, <1>4
<1>6. \A n \in req.active : id(n) = n
  BY DEF Readable
<1>7. side \in req.active \/ side \in Topics
  BY DEF SoundCheck, SoundMemories, SoundProposal
<1>8. CASE side \in req.active
  BY <1>1, <1>3, <1>5, <1>6, <1>8
<1>9. CASE side \in Topics
  <2>1. id(side) = ReferredId(req, NewLessons(req, c), NewOthers(req, c), side)
    BY <1>9
  <2>2. id(m) = m
    BY <1>6
  <2> HIDE DEF id
  <2>3. id(side) \in req.active \/ \E v \in Consolidate(req, c).memories : id(side) = v.memory
    BY <1>1, <1>5, <1>9, <2>1, ReferredIsHeld
  <2> QED
    BY <1>1, <1>3, <1>5, <2>2, <2>3
<1> QED
  BY <1>7, <1>8, <1>9

-------------------------------------------------------------------------------
\* Types, and the accounting of the check and of the response.

CallInv ==
    /\ TypeOK
    /\ reply \in Replies(request)

AccountInv ==
    /\ step = "consolidate" => Accounted(request, check.assignments, check.unaccounted)
    /\ step = "done" => Accounted(request, response.assignments, response.unaccounted)

LEMMA RepliesAreSequences ==
    ASSUME NEW req, NEW r \in Replies(req)
    PROVE  \E n \in Nat : DOMAIN r.assignments = 1..n
<1>1. CASE r = NoReply
  BY <1>1 DEF NoReply
<1>2. CASE r # NoReply
  <2> DEFINE bound == ReplyBound[req.profile]
  <2>1. r.assignments \in SeqOf(AssignmentItems(bound), bound.assignments)
    BY <1>2 DEF Replies
  <2>2. PICK n \in 0..bound.assignments :
            r.assignments \in [1..n -> AssignmentItems(bound)]
    BY <2>1 DEF SeqOf
  <2> QED
    BY <2>2
<1> QED
  BY <1>1, <1>2

LEMMA CallInvHolds == Spec => []CallInv
<1> USE GraphAssumption DEF Asking
<1>1. Init => CallInv
  <2> SUFFICES ASSUME Init PROVE CallInv
    OBVIOUS
  <2>1. check.unaccounted \subseteq Failures(request)
    BY DEF Init, CheckNothing
  <2>2. attempts \in Seq({"ok", "timeout", "error"})
    BY DEF Init
  <2> QED
    BY <2>1, <2>2 DEF Init, CallInv, TypeOK, Steps, Replies
<1>2. CallInv /\ [Next]_vars => CallInv'
  <2> SUFFICES ASSUME CallInv, [Next]_vars PROVE CallInv'
    OBVIOUS
  <2> USE DEF CallInv, TypeOK, Steps
  <2>1. ASSUME Asking, NEW r \in Replies(request), Answer(r) PROVE CallInv'
    BY <2>1 DEF Answer
  <2>2. CASE Retry
    BY <2>2 DEF Retry
  <2>3. ASSUME NEW outcome \in {"timeout", "error"}, Fail(outcome) PROVE CallInv'
    BY <2>3 DEF Fail
  <2>4. CASE Check
    <3> DEFINE result == CheckReply(request, reply)
    <3>1. result.unaccounted \subseteq Failures(request)
      BY RepliesAreSequences, CheckAccounts
    <3>2. CheckNothing(request).unaccounted \subseteq Failures(request)
      BY DEF CheckNothing
    <3>3. check'.unaccounted \subseteq Failures(request)
      BY <2>4, <3>1, <3>2 DEF Check
    <3>4. step' = Route(result) /\ UNCHANGED <<request, llm_calls, attempts, retries>>
      BY <2>4 DEF Check
    <3>5. reply' \in Replies(request)
      BY <2>4 DEF Check, Replies
    <3>6. step' \in Steps /\ (Asking' => llm_calls <= request.max_repairs)
      BY <3>4 DEF Route
    <3> QED
      BY <3>3, <3>4, <3>5, <3>6 DEF Failures
  <2>5. CASE Finish
    BY <2>5 DEF Finish
  <2>6. CASE Ended
    BY <2>6 DEF Ended, vars
  <2>7. CASE UNCHANGED vars
    BY <2>7 DEF vars
  <2> QED
    BY <2>1, <2>2, <2>3, <2>4, <2>5, <2>6, <2>7 DEF Next
<1> QED
  BY <1>1, <1>2, PTL DEF Spec

\* Types of a curate request: the calls stay within the repairs the caller
\* allows and the retries of one call within RETRIES (graph.py, llm.py).
THEOREM Typing == Spec => []TypeOK
BY CallInvHolds, PTL DEF CallInv

LEMMA AccountInvHolds == Spec => []AccountInv
<1>1. Init => AccountInv
  BY DEF Init, AccountInv
<1>2. CallInv /\ AccountInv /\ [Next]_vars => AccountInv'
  <2> SUFFICES ASSUME CallInv, AccountInv, [Next]_vars PROVE AccountInv'
    OBVIOUS
  <2> USE DEF AccountInv
  <2>1. ASSUME NEW r \in Replies(request), Answer(r) PROVE AccountInv'
    BY <2>1 DEF Answer
  <2>2. CASE Retry
    BY <2>2 DEF Retry, Asking
  <2>3. ASSUME NEW outcome \in {"timeout", "error"}, Fail(outcome) PROVE AccountInv'
    BY <2>3 DEF Fail
  <2>4. CASE Check
    <3> DEFINE result == CheckReply(request, reply)
    <3>1. Accounted(request, result.assignments, result.unaccounted)
      BY RepliesAreSequences, CheckAccounts DEF CallInv
    <3>2. /\ request' = request
          /\ step' = "consolidate" => check' = result
          /\ step' # "done"
      BY <2>4 DEF Check, Route
    <3> HIDE DEF result
    <3> QED
      BY <3>1, <3>2 DEF Accounted, Failures
  <2>5. CASE Finish
    <3>1. /\ response'.assignments = check.assignments
          /\ response'.unaccounted = check.unaccounted
      BY <2>5 DEF Finish, Consolidate
    <3>2. step = "consolidate" /\ step' = "done" /\ request' = request
      BY <2>5 DEF Finish
    <3> QED
      BY <3>1, <3>2 DEF Accounted, Failures
  <2>6. CASE Ended
    BY <2>6 DEF Ended, vars, Accounted, Failures
  <2>7. CASE UNCHANGED vars
    BY <2>7 DEF vars, Accounted, Failures
  <2> QED
    BY <2>1, <2>2, <2>3, <2>4, <2>5, <2>6, <2>7 DEF Next
<1> QED
  BY <1>1, <1>2, CallInvHolds, PTL DEF Spec

\* Closed-world accounting (check_reply, consolidate): whatever the LLM replied
\* and however often it was repaired, an answer accounts for every failure of
\* the window exactly once.
THEOREM ClosedWorld == Spec => []AccountedOnce
<1>1. AccountInv => AccountedOnce
  BY DEF AccountInv, Accounted, AccountedOnce
<1> QED
  BY <1>1, AccountInvHolds, PTL

-------------------------------------------------------------------------------
\* The versions and the conflicts of an answer.

LEMMA BoundedLists ==
  ASSUME NEW X, NEW n, NEW s \in SeqOf(X, n)
  PROVE  s \in Seq(X) /\ Len(s) \in Nat /\ DOMAIN s = 1..Len(s)
<1>1. PICK k \in 0..n : s \in [1..k -> X]
  BY DEF SeqOf
<1>2. k \in Nat
  BY <1>1
<1>3. s \in Seq(X)
  BY <1>1, <1>2
<1> QED
  BY <1>3

LEMMA RequestsReadable ==
  ASSUME NEW req \in Requests
  PROVE  Readable(req)
<1>1. SentMemories(req.active)
  BY GraphAssumption
<1>2. \A t \in Topics : IsFiniteSet(OfTopic(req.active, t))
  <2>1. TAKE t \in Topics
  <2>2. OfTopic(req.active, t) \subseteq req.active
    BY DEF OfTopic
  <2>3. IsFiniteSet(req.active)
    BY <1>1 DEF SentMemories
  <2> QED
    BY <2>2, <2>3, FS_Subset
<1>3. \A m \in req.active :
          /\ m.topic_key \in Topics /\ m.version \in Nat /\ m.occurrences \in Nat
          /\ m.sources \in Seq(Activity)
          /\ m # NoMemory /\ m \notin Topics
  BY <1>1 DEF SentMemories
<1>4. req.profile \in Profiles /\ Known(req) \subseteq Activity
  BY GraphAssumption DEF Known
<1> QED
  BY <1>2, <1>3, <1>4 DEF Readable

LEMMA RepliesShaped ==
  ASSUME NEW req \in Requests, NEW r \in Replies(req)
  PROVE  Shaped(r)
<1> DEFINE bound == ReplyBound[req.profile]
<1>1. bound.topics \subseteq Topics
  BY GraphAssumption
<1> HIDE DEF bound
<1>2. CASE r = NoReply
  <2>1. r.assignments = <<>> /\ r.memories = <<>>
    BY <1>2 DEF NoReply
  <2>2. DOMAIN r.assignments = 1..0 /\ Len(r.assignments) = 0 /\ DOMAIN r.memories = 1..0
    BY <2>1
  <2> QED
    BY <2>2 DEF Shaped
<1>3. CASE r # NoReply
  <2>1. /\ r.assignments \in SeqOf(AssignmentItems(bound), bound.assignments)
        /\ r.memories \in SeqOf(MemoryItems(req, bound), bound.memories)
    BY <1>3 DEF Replies, bound
  <2>2. /\ Len(r.assignments) \in Nat /\ DOMAIN r.assignments = 1..Len(r.assignments)
        /\ Len(r.memories) \in Nat /\ DOMAIN r.memories = 1..Len(r.memories)
        /\ r.memories \in Seq(MemoryItems(req, bound))
    BY <2>1, BoundedLists
  <2>3. ASSUME NEW item \in MemoryItems(req, bound)
        PROVE  /\ item.topic_key \in Topics \cup {NoTopic}
               /\ item.sources \in Seq(Activity \cup {NoActivity})
    <3>1. CASE item.sources = <<>> /\ item.topic_key = NoTopic
      BY <3>1
    <3>2. CASE /\ item.topic_key \in bound.topics
               /\ item.sources \in SeqOf(Activity \cup {NoActivity}, bound.quotes)
      BY <1>1, <3>2, BoundedLists
    <3> QED
      BY <2>3, <3>1, <3>2 DEF MemoryItems
  <2>4. \A i \in DOMAIN r.memories : r.memories[i] \in MemoryItems(req, bound)
    BY <2>2
  <2> QED
    BY <2>2, <2>3, <2>4 DEF Shaped
<1> QED
  BY <1>2, <1>3

VersionInv ==
    /\ step = "consolidate" => SoundCheck(request, check)
    /\ step = "done" => \E c : SoundCheck(request, c) /\ response = Consolidate(request, c)

LEMMA VersionInvHolds == Spec => []VersionInv
<1>1. Init => VersionInv
  BY DEF Init, VersionInv
<1>2. CallInv /\ VersionInv /\ [Next]_vars => VersionInv'
  <2> SUFFICES ASSUME CallInv, VersionInv, [Next]_vars PROVE VersionInv'
    OBVIOUS
  <2>1. ASSUME NEW r \in Replies(request), Answer(r) PROVE VersionInv'
    BY <2>1 DEF Answer, VersionInv
  <2>2. CASE Retry
    BY <2>2 DEF Retry, Asking, VersionInv
  <2>3. ASSUME NEW outcome \in {"timeout", "error"}, Fail(outcome) PROVE VersionInv'
    BY <2>3 DEF Fail, VersionInv
  <2>4. CASE Check
    <3> DEFINE result == CheckReply(request, reply)
    <3>1. request \in Requests /\ reply \in Replies(request)
      BY DEF CallInv, TypeOK
    <3>2. Shaped(reply) /\ Readable(request)
      BY <3>1, RepliesShaped, RequestsReadable
    <3>3. SoundCheck(request, result)
      BY <3>2, CheckIsSound DEF Readable
    <3>4. /\ request' = request
          /\ step' = "consolidate" => check' = result
          /\ step' # "done"
      BY <2>4 DEF Check, Route
    <3> HIDE DEF result
    <3> QED
      BY <3>3, <3>4 DEF VersionInv
  <2>5. CASE Finish
    <3>1. step = "consolidate" /\ step' = "done" /\ request' = request
          /\ response' = Consolidate(request, check)
      BY <2>5 DEF Finish
    <3>2. SoundCheck(request, check)
      BY <3>1 DEF VersionInv
    <3> QED
      BY <3>1, <3>2 DEF VersionInv
  <2>6. CASE UNCHANGED vars
    BY <2>6 DEF vars, VersionInv
  <2> QED
    BY <2>1, <2>2, <2>3, <2>4, <2>5, <2>6 DEF Next, Ended
<1> QED
  BY <1>1, <1>2, CallInvHolds, PTL DEF Spec

LEMMA SoundVersions ==
  ASSUME TypeOK, VersionInv
  PROVE  VersionsSound
<1> SUFFICES ASSUME step = "done" PROVE VersionsSound
  BY DEF VersionsSound, VersionsAdmissible, VersionsGrounded, LessonsCountFailures
<1>1. PICK c : SoundCheck(request, c) /\ response = Consolidate(request, c)
  BY DEF VersionInv
<1>2. Readable(request)
  BY RequestsReadable DEF TypeOK
<1>3. \A v \in response.memories : VersionOf(request, c, v)
  BY <1>1, VersionsAre DEF VersionOf
<1>4. \A v \in response.memories : Admissible(request, v) /\ Grounded(request, v)
  BY <1>1, <1>2, <1>3, LessonAdmissible, OtherAdmissible DEF VersionOf
<1>5. \A m, n \in NewVersions : SameRow(m, n) => m = n
  <2>1. SUFFICES ASSUME NEW v \in response.memories, NEW w \in response.memories,
                        SameRow(v.memory, w.memory)
                 PROVE  v.memory = w.memory
    BY DEF NewVersions
  <2> QED
    BY <1>1, <1>2, <1>3, <2>1, OneVersion
<1>6. VersionsAdmissible
  BY <1>4, <1>5 DEF VersionsAdmissible, Admissible
<1>7. VersionsGrounded
  BY <1>4 DEF VersionsGrounded, Grounded
<1>8. LessonsCountFailures
  <2>1. SUFFICES ASSUME request.profile = "module", NEW v \in response.memories,
                        v.memory.kind = "lesson",
                        NEW new, new = {a.activity_id : a \in {a \in response.assignments :
                                          a.lesson = v.memory.topic_key}} \ PriorCites(v)
                 PROVE  new # {} /\ v.memory.occurrences = PriorOccurrences(v) + Cardinality(new)
    BY DEF LessonsCountFailures
  <2>2. response.assignments = c.assignments
    BY <1>1 DEF Consolidate
  <2>3. new = AssignedTo(c, v.memory.topic_key) \ PriorCites(v)
    BY <2>1, <2>2 DEF AssignedTo
  <2> QED
    BY <1>1, <1>2, <1>3, <2>1, <2>3, CountedFailures
<1> QED
  BY <1>6, <1>7, <1>8 DEF VersionsSound

\* What a host may store of an answer (check_reply, consolidate): whatever the
\* LLM replied, there is one new version of a row, it replaces a newest active
\* memory of the row and no newer one, what it cites beyond that is in the
\* request, and under the module profile a lesson grows by exactly the failures
\* it did not cite before.
THEOREM VersionsAreSound == Spec => []VersionsSound
BY SoundVersions, VersionInvHolds, Typing, PTL

LEMMA NamedConflicts ==
  ASSUME TypeOK, VersionInv
  PROVE  ConflictsNameMemories
<1> SUFFICES ASSUME step = "done", NEW pair \in response.conflicts
             PROVE  /\ Cardinality(pair) = 2
                    /\ pair \subseteq request.active \cup NewVersions
                    /\ pair \cap request.active # {}
  BY DEF ConflictsNameMemories
<1>1. PICK c : SoundCheck(request, c) /\ response = Consolidate(request, c)
  BY DEF VersionInv
<1>2. Readable(request)
  BY RequestsReadable DEF TypeOK
<1>3. /\ Cardinality(pair) = 2
      /\ pair \cap request.active # {}
      /\ \A m \in pair : m \in request.active \/ \E v \in response.memories : m = v.memory
  BY <1>1, <1>2, ReportedAreHeld
<1> QED
  BY <1>3 DEF NewVersions

\* A conflict that is reported (check_reply, _conflicts) names two memories that
\* the caller will hold, and one that it holds already.
THEOREM ConflictsAreNamed == Spec => []ConflictsNameMemories
BY NamedConflicts, VersionInvHolds, Typing, PTL

-------------------------------------------------------------------------------
\* The record of provider attempts.

Outcomes == {"ok", "timeout", "error"}

LEMMA CountAppend ==
    ASSUME NEW s \in Seq(Outcomes), NEW e \in Outcomes, NEW o \in Outcomes,
           NEW q, q = Append(s, e)
    PROVE  /\ Cardinality({i \in DOMAIN s : s[i] = o}) \in Nat
           /\ Cardinality({i \in DOMAIN q : q[i] = o})
                 = Cardinality({i \in DOMAIN s : s[i] = o}) + IF e = o THEN 1 ELSE 0
<1> DEFINE old == {i \in DOMAIN s : s[i] = o}
           new == {i \in DOMAIN q : q[i] = o}
<1>1. /\ Len(s) \in Nat /\ DOMAIN s = 1..Len(s)
      /\ DOMAIN q = 1..(Len(s) + 1)
      /\ \A i \in 1..Len(s) : q[i] = s[i]
      /\ q[Len(s) + 1] = e
  OBVIOUS
<1>2. IsFiniteSet(old) /\ Cardinality(old) \in Nat
  <2>1. IsFiniteSet(1..Len(s))
    BY <1>1, FS_Interval
  <2>2. old \subseteq 1..Len(s)
    BY <1>1
  <2> QED
    BY <2>1, <2>2, FS_Subset, FS_CardinalityType
<1>3. new = IF e = o THEN old \cup {Len(s) + 1} ELSE old
  BY <1>1
<1>4. Len(s) + 1 \notin old
  BY <1>1
<1>5. Cardinality(old \cup {Len(s) + 1}) = Cardinality(old) + 1
  BY <1>2, <1>4, FS_AddElement
<1> HIDE DEF old, new
<1>6. Cardinality(new) = Cardinality(old) + IF e = o THEN 1 ELSE 0
  BY <1>2, <1>3, <1>5
<1> QED
  BY <1>2, <1>6 DEF new, old

\* A call more is RETRIES more errors allowed.
LEMMA OneCallMore ==
    ASSUME NEW n \in Nat PROVE RETRIES * (n + 1) = RETRIES * n + RETRIES /\ RETRIES * n \in Nat
BY GraphAssumption

LEMMA AttemptsRecorded == Spec => []CallsRecorded
<1> USE DEF Outcomes
<1>1. Init => CallsRecorded
  <2> SUFFICES ASSUME Init PROVE CallsRecorded
    OBVIOUS
  <2>1. attempts = <<>> /\ llm_calls = 0 /\ retries = 0
    BY DEF Init
  <2>2. \A o : {i \in DOMAIN attempts : attempts[i] = o} = {}
    BY <2>1
  <2>3. \A o : Count(o) = 0
    BY <2>2, FS_EmptySet DEF Count
  <2>4. RETRIES * 0 = 0
    BY GraphAssumption
  <2> QED
    BY <2>1, <2>3, <2>4 DEF CallsRecorded
<1>2. CallInv /\ CallsRecorded /\ [Next]_vars => CallsRecorded'
  <2> SUFFICES ASSUME CallInv, CallsRecorded, [Next]_vars PROVE CallsRecorded'
    OBVIOUS
  <2> USE DEF CallsRecorded
  <2>0. /\ attempts \in Seq(Outcomes) /\ llm_calls \in Nat /\ retries \in 0..RETRIES
        /\ RETRIES \in Nat
    BY GraphAssumption DEF CallInv, TypeOK
  <2>a. ASSUME NEW e \in Outcomes, attempts' = Append(attempts, e)
        PROVE  /\ Len(attempts) \in Nat
               /\ Len(attempts') = Len(attempts) + 1
               /\ DOMAIN attempts = 1..Len(attempts)
               /\ DOMAIN attempts' = 1..(Len(attempts) + 1)
               /\ \A i \in 1..Len(attempts) : attempts'[i] = attempts[i]
               /\ attempts'[Len(attempts) + 1] = e
               /\ \A o \in Outcomes :
                     Count(o) \in Nat /\ Count(o)' = Count(o) + IF e = o THEN 1 ELSE 0
    <3>1. \A o \in Outcomes :
             Count(o) \in Nat /\ Count(o)' = Count(o) + IF e = o THEN 1 ELSE 0
      <4> TAKE o \in Outcomes
      <4> HIDE DEF Outcomes, CallsRecorded
      <4> QED
        BY <2>0, <2>a, CountAppend DEF Count
    <3>2. /\ Len(attempts) \in Nat
          /\ Len(attempts') = Len(attempts) + 1
          /\ DOMAIN attempts = 1..Len(attempts)
          /\ DOMAIN attempts' = 1..(Len(attempts) + 1)
          /\ \A i \in 1..Len(attempts) : attempts'[i] = attempts[i]
          /\ attempts'[Len(attempts) + 1] = e
      BY <2>0, <2>a
    <3> QED
      BY <3>1, <3>2
  <2>b. ASSUME UNCHANGED attempts PROVE \A o : Count(o)' = Count(o)
    BY <2>b DEF Count
  <2>c. ASSUME step # "failed" PROVE \A i \in DOMAIN attempts : attempts[i] # "timeout"
    BY <2>c
  <2>1. ASSUME Asking, NEW r \in Replies(request), Answer(r) PROVE CallsRecorded'
    <3>1. attempts' = Append(attempts, "ok") /\ llm_calls' = llm_calls + 1 /\ retries' = 0
      BY <2>1 DEF Answer
    <3>2. step' = "check" /\ step # "failed"
      BY <2>1 DEF Answer, Asking
    <3>3. Count("ok")' = llm_calls'
      BY <2>0, <2>a, <3>1
    <3>4. \A i \in DOMAIN attempts' : attempts'[i] # "timeout"
      BY <2>a, <2>c, <3>1, <3>2
    <3>5. Count("error") \in Nat /\ Count("error")' = Count("error")
      BY <2>a, <3>1
    <3>6. Count("error")' <= RETRIES * llm_calls' + retries'
      <4>1. RETRIES * llm_calls' = RETRIES * llm_calls + RETRIES /\ RETRIES * llm_calls \in Nat
        BY <2>0, <3>1, OneCallMore
      <4>2. Count("error") <= RETRIES * llm_calls + retries
        BY <3>2
      <4> QED
        BY <2>0, <3>1, <3>5, <4>1, <4>2
    <3> QED
      BY <2>0, <3>1, <3>2, <3>3, <3>4, <3>5, <3>6
  <2>2. CASE Retry
    <3>1. /\ attempts' = Append(attempts, "error") /\ llm_calls' = llm_calls
          /\ retries' = retries + 1 /\ step' = step /\ step # "failed"
      BY <2>2 DEF Retry, Asking
    <3>2. Count("ok")' = llm_calls'
      BY <2>0, <2>a, <3>1
    <3>3. \A i \in DOMAIN attempts' : attempts'[i] # "timeout"
      BY <2>a, <2>c, <3>1
    <3>4. RETRIES * llm_calls' = RETRIES * llm_calls /\ RETRIES * llm_calls \in Nat
      BY <2>0, <3>1, OneCallMore
    <3>5. retries' <= Count("error")' /\ Count("error")' <= RETRIES * llm_calls' + retries'
      BY <2>0, <2>a, <3>1, <3>4
    <3> QED
      BY <3>1, <3>2, <3>3, <3>5
  <2>3. ASSUME NEW outcome \in {"timeout", "error"}, Fail(outcome) PROVE CallsRecorded'
    <3>1. /\ attempts' = Append(attempts, outcome) /\ llm_calls' = llm_calls
          /\ step' = "failed" /\ step # "failed"
      BY <2>3 DEF Fail, Asking
    <3>2. Count("ok")' = llm_calls'
      BY <2>0, <2>a, <3>1
    <3>3. \A i \in DOMAIN attempts' : attempts'[i] = "timeout" => i = Len(attempts')
      BY <2>a, <2>c, <3>1
    <3> QED
      BY <3>1, <3>2, <3>3
  <2>4. ASSUME UNCHANGED <<attempts, llm_calls, retries>>, step' = "failed" <=> step = "failed"
        PROVE  CallsRecorded'
    BY <2>b, <2>4
  <2>5. CASE Check
    BY <2>4, <2>5 DEF Check, Route
  <2>6. CASE Finish
    BY <2>4, <2>6 DEF Finish
  <2>7. CASE Ended
    BY <2>4, <2>7 DEF Ended, vars
  <2>8. CASE UNCHANGED vars
    BY <2>4, <2>8 DEF vars
  <2> QED
    BY <2>1, <2>2, <2>3, <2>5, <2>6, <2>7, <2>8 DEF Next
<1> QED
  BY <1>1, <1>2, CallInvHolds, PTL DEF Spec

\* Every provider attempt of a request is listed (llm.py _invoke, _attempt): one
\* "ok" for each LLM call, no more of these than the repairs allow, nothing after
\* a timeout, and no more errors than the retries of the calls allow.
THEOREM AttemptsListed == Spec => []AttemptsTellAll
<1>1. CallInv => llm_calls <= request.max_repairs + 1
  BY DEF CallInv, TypeOK
<1> QED
  BY <1>1, CallInvHolds, AttemptsRecorded, PTL DEF AttemptsTellAll

-------------------------------------------------------------------------------
\* The last sources of a lesson.

\* What the sources hold of the window under way comes last, and once.
RecentLast(s, p) ==
    \A i, j \in 1..Len(s) : i < j /\ s[i] > p => s[j] > p /\ s[j] # s[i]

Recent(p) == {f \in Failure : p < f /\ f <= p + WindowSize}

LEMMA ActivitiesAreNumbers ==
  /\ \A a \in Activity : a \in Nat /\ SeqNo[a] = a
  /\ Failure \subseteq Activity
<1>1. \A a \in 1..Cardinality(Activity) : a \in Nat
  OBVIOUS
<1> QED
  BY <1>1, HostAssumption, CurateAssumption

LEMMA RecentAreFew ==
  ASSUME FewFailures, NEW p \in Nat
  PROVE  IsFiniteSet(Recent(p)) /\ Cardinality(Recent(p)) <= MaxLessonSources
<1>1. WindowSize \in Nat /\ MaxLessonSources \in Nat
  BY HostAssumption, CurateAssumption
<1>2. IsFiniteSet(Recent(p))
  <2>1. IsFiniteSet(p..(p + WindowSize))
    BY <1>1, FS_Interval
  <2>2. Recent(p) \subseteq p..(p + WindowSize)
    BY ActivitiesAreNumbers DEF Recent
  <2> QED
    BY <2>1, <2>2, FS_Subset
<1>3. CASE p \in 0..Cardinality(Activity)
  BY <1>2, <1>3 DEF FewFailures, Recent
<1>4. CASE p \notin 0..Cardinality(Activity)
  <2>1. Recent(p) = {}
    <3>1. SUFFICES ASSUME NEW f \in Failure, p < f PROVE FALSE
      BY DEF Recent
    <3>2. f \in 1..Cardinality(Activity) /\ Cardinality(Activity) \in Nat
      BY HostAssumption, CurateAssumption, FS_CardinalityType
    <3>3. f <= Cardinality(Activity) /\ f \in Nat
      BY <3>2
    <3>4. Cardinality(Activity) < p
      BY <1>4, <3>2
    <3> QED
      BY <3>1, <3>2, <3>3, <3>4
  <2>2. Cardinality(Recent(p)) = 0
    BY <2>1, FS_EmptySet
  <2> QED
    BY <1>1, <1>2, <2>2
<1> QED
  BY <1>3, <1>4

\* Cutting a list to its last MaxLessonSources elements loses nothing recent.
LEMMA CutKeepsRecent ==
  ASSUME NEW all \in Seq(Activity), NEW p \in Nat, RecentLast(all, p),
         NEW F, IsFiniteSet(F), Cardinality(F) <= MaxLessonSources,
         \A k \in 1..Len(all) : all[k] > p => all[k] \in F,
         NEW last, last = LastOf(all, MaxLessonSources)
  PROVE  /\ last \in Seq(Activity) /\ RecentLast(last, p)
         /\ ToSet(last) \subseteq ToSet(all)
         /\ \A k \in 1..Len(all) : all[k] > p => all[k] \in ToSet(last)
<1> DEFINE M == MaxLessonSources
           cut == IF M < Len(all) THEN Len(all) - M ELSE 0
<1>1. M \in Nat \ {0} /\ Len(all) \in Nat /\ cut \in Nat
  BY CurateAssumption
<1>2. /\ last \in Seq(Activity) /\ Len(last) = Len(all) - cut /\ Len(last) \in Nat
      /\ \A i \in 1..Len(last) : cut + i \in 1..Len(all) /\ last[i] = all[cut + i]
  <2>1. /\ last \in Seq(Activity) /\ Len(last) = Len(all) - cut
        /\ \A i \in 1..Len(last) : cut + i \in 1..Len(all) /\ last[i] = all[cut + i]
    BY <1>1, LastElements, Zenon
  <2>2. Len(last) \in Nat
    BY <2>1
  <2> QED
    BY <2>1, <2>2
<1>3. ASSUME NEW k \in 1..Len(all), all[k] > p PROVE k > cut
  <2> SUFFICES ASSUME k <= cut PROVE FALSE
    BY <1>1
  <2>1. M < Len(all) /\ k <= Len(all) - M
    BY <1>1
  <2> DEFINE g == [j \in k..Len(all) |-> all[j]]
  <2>2. \A j \in k..Len(all) : all[j] > p /\ j \in 1..Len(all)
    <3>1. TAKE j \in k..Len(all)
    <3>2. j \in 1..Len(all) /\ (j = k \/ k < j)
      BY <1>1
    <3> QED
      BY <1>3, <3>2 DEF RecentLast
  <2>3. \A i, j \in k..Len(all) : all[i] = all[j] => i = j
    <3>1. TAKE i, j \in k..Len(all)
    <3>2. i < j \/ j < i \/ i = j
      OBVIOUS
    <3> QED
      BY <2>2, <3>2 DEF RecentLast
  <2>4. g \in Injection(k..Len(all), F)
    <3>1. g \in [k..Len(all) -> F]
      BY <2>2
    <3>2. \A j \in k..Len(all) : g[j] = all[j]
      OBVIOUS
    <3> HIDE DEF g
    <3>3. \A i, j \in k..Len(all) : g[i] = g[j] => i = j
      BY <2>3, <3>2
    <3> QED
      BY <3>1, <3>3 DEF Injection, IsInjective
  <2> HIDE DEF g
  <2>5. Cardinality(k..Len(all)) <= Cardinality(F)
    BY <2>4, FS_Injection
  <2>6. Cardinality(k..Len(all)) = Len(all) - k + 1
    BY <1>1, <2>1, FS_Interval
  <2>7. Cardinality(F) \in Nat
    BY FS_CardinalityType
  <2> QED
    BY <1>1, <2>1, <2>5, <2>6, <2>7
<1> HIDE DEF cut
<1>4. RecentLast(last, p)
  <2>1. SUFFICES ASSUME NEW i \in 1..Len(last), NEW j \in 1..Len(last), i < j, last[i] > p
                 PROVE  last[j] > p /\ last[j] # last[i]
    BY DEF RecentLast
  <2>2. cut + i \in 1..Len(all) /\ cut + j \in 1..Len(all) /\ cut + i < cut + j
    BY <1>1, <1>2, <2>1
  <2>3. last[i] = all[cut + i] /\ last[j] = all[cut + j]
    BY <1>2
  <2> QED
    BY <2>1, <2>2, <2>3 DEF RecentLast
<1>5. ToSet(last) \subseteq ToSet(all)
  <2>1. \A i \in 1..Len(last) : last[i] \in ToSet(all)
    BY <1>2 DEF ToSet
  <2> QED
    BY <1>2, <2>1 DEF ToSet
<1>6. ASSUME NEW k \in 1..Len(all), all[k] > p PROVE all[k] \in ToSet(last)
  <2>1. k > cut
    BY <1>3, <1>6
  <2>2. k - cut \in 1..Len(last) /\ cut + (k - cut) = k
    BY <1>1, <1>2, <2>1
  <2>3. last[k - cut] = all[k]
    BY <1>2, <2>2
  <2> QED
    BY <1>2, <2>2, <2>3 DEF ToSet
<1> QED
  BY <1>2, <1>4, <1>5, <1>6

\* The sources of a lesson after one more answer: what the window has brought to
\* it is last, each failure of the window that it ever counted among them.
LEMMA SourcesGrow ==
  ASSUME NEW req, Readable(req), NEW c, SoundCheck(req, c), NEW t \in Topics, OnlyFailures(c, t),
         NEW prior, prior = PriorLesson(req, t),
         NEW sources, sources = LessonSources(prior, Occurrences(c, t)),
         FewFailures, NEW p \in Nat, AssignedTo(c, t) \subseteq Recent(p),
         prior # NoMemory => /\ RecentLast(prior.sources, p)
                             /\ \A x \in ToSet(prior.sources) : x > p => x \in Recent(p)
  PROVE  /\ sources \in Seq(Activity) /\ RecentLast(sources, p)
         /\ ToSet(sources) \subseteq Cited(prior) \cup AssignedTo(c, t)
         /\ \A f \in Cited(prior) \cup AssignedTo(c, t) : f > p => f \in ToSet(sources)
<1> DEFINE occ == Occurrences(c, t)
           all == AllSources(prior, occ)
           b == Len(Before(prior))
           new == AssignedTo(c, t)
<1>1. SoundOccurrences(req, occ)
  BY OccurrencesSound DEF Readable
<1>2. prior = NoMemory \/ prior.sources \in Seq(Activity)
  BY PriorIsNewest
<1>3. sources = LastOf(all, MaxLessonSources)
  BY SourcesAreTheLast
<1>4. /\ \A o \in occ : \E f \in new : o.sources = <<f>>
      /\ \A f \in new : \E o \in occ : o.sources = <<f>>
  BY OccurrencesOfFailures
<1>5. \A o \in occ : Len(o.sources) = 1
  BY <1>4
<1>6. \A o \in occ : \A f \in new : o.sources = <<f>> =>
         \A x : x \in ToSet(FreshSources(prior, occ, o)) <=> x = f /\ f \notin Cited(prior)
  BY AddedAreUncited
<1> HIDE DEF occ, new
<1>7. /\ all \in Seq(Activity) /\ b \in Nat /\ b <= Len(all)
      /\ \A k \in 1..b : all[k] = Before(prior)[k]
      /\ \A k \in (b + 1)..Len(all) :
            \E o \in occ : all[k] \in ToSet(FreshSources(prior, occ, o))
      /\ \A o \in occ : \A x \in ToSet(FreshSources(prior, occ, o)) :
            \E k \in (b + 1)..Len(all) : all[k] = x
      /\ \A k, l \in (b + 1)..Len(all) : all[k] = all[l] => k = l
  <2>1. SourcesOf(all, b, prior, occ)
    BY <1>1, <1>2, AllSourcesElements
  <2> QED
    BY <1>5, <2>1 DEF SourcesOf
<1>8. /\ Before(prior) \in Seq(Activity)
      /\ \A x : x \in Cited(prior) <=> \E k \in 1..b : x = Before(prior)[k]
  BY <1>2, CitedIsBefore
<1>9. /\ RecentLast(Before(prior), p)
      /\ \A x \in Cited(prior) : x > p => x \in Recent(p)
  <2>1. CASE prior = NoMemory
    BY <2>1 DEF Before, Cited, RecentLast
  <2>2. CASE prior # NoMemory
    BY <2>2 DEF Before, Cited
  <2> QED
    BY <2>1, <2>2
<1> HIDE DEF all
<1>10. \A k \in 1..b : all[k] \in Cited(prior)
  BY <1>7, <1>8
<1>11. \A k \in (b + 1)..Len(all) : all[k] \in new /\ all[k] \notin Cited(prior)
  <2>1. TAKE k \in (b + 1)..Len(all)
  <2>2. PICK o \in occ : all[k] \in ToSet(FreshSources(prior, occ, o))
    BY <1>7
  <2>3. PICK f \in new : o.sources = <<f>>
    BY <1>4
  <2> QED
    BY <1>6, <2>2, <2>3
<1>12. \A f \in new : f \notin Cited(prior) => \E k \in (b + 1)..Len(all) : all[k] = f
  <2>1. SUFFICES ASSUME NEW f \in new, f \notin Cited(prior)
                 PROVE  \E k \in (b + 1)..Len(all) : all[k] = f
    OBVIOUS
  <2>2. PICK o \in occ : o.sources = <<f>>
    BY <1>4
  <2> QED
    BY <1>6, <1>7, <2>1, <2>2
<1>13. \A f \in new : f > p /\ f \in Recent(p)
  BY DEF new, Recent
<1>14. \A k \in 1..Len(all) : k \in 1..b \/ k \in (b + 1)..Len(all)
  BY <1>7
<1>15. RecentLast(all, p)
  <2>1. SUFFICES ASSUME NEW i \in 1..Len(all), NEW j \in 1..Len(all), i < j, all[i] > p
                 PROVE  all[j] > p /\ all[j] # all[i]
    BY DEF RecentLast
  <2>2. CASE j \in 1..b
    <3>1. i \in 1..b /\ b = Len(Before(prior))
      BY <1>7, <2>1, <2>2
    <3>2. all[i] = Before(prior)[i] /\ all[j] = Before(prior)[j]
      BY <1>7, <2>2, <3>1
    <3> QED
      BY <1>9, <2>1, <2>2, <3>1, <3>2 DEF RecentLast
  <2>3. CASE j \in (b + 1)..Len(all)
    <3>1. all[j] > p /\ all[j] \notin Cited(prior)
      BY <1>11, <1>13, <2>3
    <3>2. CASE i \in 1..b
      BY <1>10, <3>1, <3>2
    <3>3. CASE i \in (b + 1)..Len(all)
      BY <1>7, <2>1, <2>3, <3>1, <3>3
    <3> QED
      BY <1>14, <3>2, <3>3
  <2> QED
    BY <1>14, <2>2, <2>3
<1>16. \A k \in 1..Len(all) : all[k] \in Cited(prior) \cup new
  BY <1>10, <1>11, <1>14
<1>17. \A k \in 1..Len(all) : all[k] > p => all[k] \in Recent(p)
  BY <1>9, <1>13, <1>16
<1>18. IsFiniteSet(Recent(p)) /\ Cardinality(Recent(p)) <= MaxLessonSources
  BY RecentAreFew
<1>19. /\ sources \in Seq(Activity) /\ RecentLast(sources, p)
       /\ ToSet(sources) \subseteq ToSet(all)
       /\ \A k \in 1..Len(all) : all[k] > p => all[k] \in ToSet(sources)
  BY <1>3, <1>7, <1>15, <1>17, <1>18, CutKeepsRecent
<1>20. ToSet(sources) \subseteq Cited(prior) \cup new
  <2>1. ASSUME NEW x \in ToSet(all) PROVE x \in Cited(prior) \cup new
    <3>1. PICK k \in 1..Len(all) : x = all[k]
      BY <1>7 DEF ToSet
    <3> QED
      BY <1>16, <3>1
  <2> QED
    BY <1>19, <2>1
<1>21. ASSUME NEW f \in Cited(prior) \cup new, f > p PROVE f \in ToSet(sources)
  <2>1. \E k \in 1..Len(all) : all[k] = f
    <3>1. CASE f \in Cited(prior)
      <4>1. PICK k \in 1..b : f = Before(prior)[k]
        BY <1>8, <3>1
      <4> QED
        BY <1>7, <4>1
    <3>2. CASE f \in new /\ f \notin Cited(prior)
      <4>1. PICK k \in (b + 1)..Len(all) : all[k] = f
        BY <1>12, <3>2
      <4> QED
        BY <1>7, <4>1
    <3> QED
      BY <3>1, <3>2
  <2> QED
    BY <1>19, <1>21, <2>1
<1> QED
  BY <1>19, <1>20, <1>21 DEF new

-------------------------------------------------------------------------------
\* One request of the host, of what it holds, where it is and what it counted.

RequestOf(held, p, end) ==
    [profile |-> "module", active |-> held, context |-> {a \in Activity : a = p},
     window |-> {a \in Activity : p < a /\ a <= end}]

\* A lesson counts each failure once, and cites those of the window under way.
LessonRight(m, counted, p) ==
    /\ m.occurrences = Cardinality(counted)
    /\ \A f \in counted : f <= m.version
    /\ ToSet(m.sources) \subseteq counted
    /\ \A f \in counted : f > p => f \in ToSet(m.sources)
    /\ RecentLast(m.sources, p)

TopicRight(held, counted, p, t) ==
    /\ counted = {} => \A m \in held : m.topic_key # t
    /\ counted # {} => \E m \in held : /\ m.topic_key = t /\ LessonRight(m, counted, p)
                                       /\ \A n \in held : n.topic_key = t => n = m

\* What holds whenever the host sends a window.
HostRight(held, counted, p) ==
    /\ held \subseteq Lesson /\ p \in Nat
    /\ \A t \in Topics : /\ counted[t] \subseteq Failure
                         /\ \A f \in counted[t] : f <= p + WindowSize
                         /\ TopicRight(held, counted[t], p, t)

\* A reply with nothing but lessons and assignments.
Answerable(r) ==
    /\ Shaped(r) /\ r.memories = <<>>
    /\ \E n \in Nat : DOMAIN r.lessons = 1..n
    /\ \A i \in DOMAIN r.lessons : r.lessons[i].statement \in Statements

LEMMA RequestReadable ==
  ASSUME NEW held, NEW counted, NEW p, HostRight(held, counted, p), NEW end
  PROVE  /\ Readable(RequestOf(held, p, end))
         /\ Failures(RequestOf(held, p, end)) = {f \in Failure : p < f /\ f <= end}
<1> DEFINE req == RequestOf(held, p, end)
<1>1. req.profile = "module" /\ req.active = held /\ Known(req) \subseteq Activity
  BY DEF RequestOf, Known
<1>2. Failures(req) = {f \in Failure : p < f /\ f <= end}
  BY CurateAssumption DEF RequestOf, Failures
<1>3. ASSUME NEW m \in held
      PROVE  /\ m.topic_key \in Topics /\ m.version \in Nat /\ m.occurrences \in Nat
             /\ m.sources \in Seq(Activity)
             /\ m # NoMemory /\ m \notin Topics
  <2>1. m \in Lesson
    BY DEF HostRight
  <2>2. m # NoMemory /\ m \notin Topics
    BY <2>1, MemoryAssumption
  <2> QED
    BY <2>1, <2>2 DEF Lesson
<1>4. ASSUME NEW t \in Topics PROVE IsFiniteSet(OfTopic(held, t))
  <2>1. \E m : OfTopic(held, t) \subseteq {m}
    <3>1. CASE counted[t] = {}
      BY <3>1 DEF HostRight, TopicRight, OfTopic
    <3>2. CASE counted[t] # {}
      BY <3>2 DEF HostRight, TopicRight, OfTopic
    <3> QED
      BY <3>1, <3>2
  <2>2. PICK m : OfTopic(held, t) \subseteq {m}
    BY <2>1
  <2>3. IsFiniteSet({m})
    BY FS_Singleton
  <2> QED
    BY <2>2, <2>3, FS_Subset
<1> HIDE DEF req
<1>5. Readable(req)
  BY <1>1, <1>3, <1>4 DEF Readable, Profiles
<1> QED
  BY <1>2, <1>5 DEF req

LEMMA NothingProposed ==
  ASSUME NEW req, NEW r, r.memories = <<>>, NEW c, c = CheckReply(req, r)
  PROVE  /\ c.memories = {}
         /\ \A t : OnlyFailures(c, t)
         /\ Consolidate(req, c).memories = NewLessons(req, c)
<1>1. ParsedMemories(req, r) = {}
  BY DEF ParsedMemories
<1>2. c.memories = {}
  BY <1>1 DEF CheckReply, CheckNothing
<1>3. NewOthers(req, c) = {}
  <2>1. Winners(c) = {}
    BY <1>2 DEF Winners
  <2> QED
    BY <2>1 DEF NewOthers
<1> QED
  BY <1>2, <1>3, VersionsAre DEF OnlyFailures

\* The reply's own lessons are stated, and so is every topic key it assigns to.
LEMMA LessonsStated ==
  ASSUME NEW req, NEW r, Answerable(r), NEW c, c = CheckReply(req, r)
  PROVE  /\ \A t \in DOMAIN c.lessons : c.lessons[t] \in Statements
         /\ \A t \in Topics : AssignedTo(c, t) # {} =>
               /\ t \in LessonKeys(req, r)
               /\ t \in DOMAIN ParsedLessons(r) => t \in DOMAIN c.lessons
<1>1. ASSUME NEW t \in DOMAIN ParsedLessons(r) PROVE ParsedLessons(r)[t] \in Statements
  <2> DEFINE places == {i \in DOMAIN r.lessons :
                          Usable(r.lessons[i]) /\ r.lessons[i].topic_key = t}
  <2>1. places # {} /\ ParsedLessons(r)[t] = r.lessons[Min(places)].statement
    BY <1>1 DEF ParsedLessons
  <2>2. places \subseteq DOMAIN r.lessons /\ places \subseteq Nat
    BY DEF Answerable
  <2> HIDE DEF places
  <2>3. Min(places) \in places
    <3>1. PICK k \in places : \A j \in places : k <= j
      BY <2>1, <2>2, LeastNumber
    <3> QED
      BY <3>1, Zenon DEF Min
  <2> QED
    BY <2>1, <2>2, <2>3 DEF Answerable
<1>2. CASE ~r.json
  BY <1>2 DEF CheckReply, CheckNothing, AssignedTo
<1>3. CASE r.json
  <2>1. /\ c.assignments = ParsedAssignments(req, r)
        /\ c.lessons = [t \in KeptLessons(req, r) |-> ParsedLessons(r)[t]]
    BY <1>3 DEF CheckReply
  <2>2. \A t \in DOMAIN c.lessons : c.lessons[t] \in Statements
    BY <1>1, <2>1 DEF KeptLessons
  <2>3. ASSUME NEW t \in Topics, AssignedTo(c, t) # {}
        PROVE  /\ t \in LessonKeys(req, r)
               /\ t \in DOMAIN ParsedLessons(r) => t \in DOMAIN c.lessons
    <3>1. PICK a \in ParsedAssignments(req, r) : a.lesson = t
      BY <2>1, <2>3 DEF AssignedTo
    <3>2. PICK i \in Accepted(req, r) :
             a.lesson = IF r.assignments[i].target = Dismiss THEN NoTopic ELSE r.assignments[i].target
      BY DEF ParsedAssignments
    <3>3. ValidAssignment(req, r, r.assignments[i])
      BY DEF Accepted
    <3>4. t # NoTopic
      BY CurateAssumption
    <3>5. t \in LessonKeys(req, r)
      BY <3>1, <3>2, <3>3, <3>4 DEF ValidAssignment
    <3> QED
      BY <2>1, <3>1, <3>5 DEF KeptLessons
  <2> QED
    BY <2>2, <2>3
<1> QED
  BY <1>2, <1>3

-------------------------------------------------------------------------------
\* One answer, and what the host holds of a topic key afterwards.

Sent(held, counted, p, end, r, req, c) ==
    /\ FewFailures
    /\ HostRight(held, counted, p)
    /\ end \in Nat /\ end <= p + WindowSize
    /\ Answerable(r)
    /\ req = RequestOf(held, p, end)
    /\ c = CheckReply(req, r)

LEMMA SentIsSound ==
  ASSUME NEW held, NEW counted, NEW p, NEW end, NEW r, NEW req, NEW c,
         Sent(held, counted, p, end, r, req, c), NEW t \in Topics
  PROVE  /\ Readable(req) /\ SoundCheck(req, c) /\ OnlyFailures(c, t)
         /\ req.active = held
         /\ p \in Nat /\ AssignedTo(c, t) \subseteq Recent(p)
         /\ \A f \in AssignedTo(c, t) : f <= end
         /\ c.memories = {}
<1>1. Readable(req) /\ Failures(req) = {f \in Failure : p < f /\ f <= end} /\ p \in Nat
  BY RequestReadable DEF Sent, HostRight
<1>2. SoundCheck(req, c)
  BY <1>1, CheckIsSound DEF Sent, Answerable, Readable
<1>3. c.memories = {} /\ OnlyFailures(c, t)
  BY NothingProposed DEF Sent, Answerable
<1>4. req.active = held
  BY DEF Sent, RequestOf
<1>5. AssignedTo(c, t) \subseteq Failures(req)
  BY <1>2, AssignedAreFailures
<1>6. \A f \in Failures(req) : f \in Recent(p) /\ f <= end
  <2>1. SUFFICES ASSUME NEW f \in Failure, p < f, f <= end PROVE f <= p + WindowSize
    BY <1>1 DEF Recent
  <2>2. f \in Nat /\ end \in Nat /\ WindowSize \in Nat /\ end <= p + WindowSize
    BY ActivitiesAreNumbers, HostAssumption DEF Sent
  <2> QED
    BY <1>1, <2>1, <2>2
<1> QED
  BY <1>1, <1>2, <1>3, <1>4, <1>5, <1>6

\* The prior version is the lesson the host holds on the topic key, and cites
\* what it counted of the window under way.
LEMMA PriorIsHeld ==
  ASSUME NEW held, NEW counted, NEW p, NEW end, NEW r, NEW req, NEW c,
         Sent(held, counted, p, end, r, req, c), NEW t \in Topics,
         NEW prior, prior = PriorLesson(req, t)
  PROVE  /\ counted[t] = {} => prior = NoMemory
         /\ counted[t] # {} => /\ prior # NoMemory /\ prior \in held /\ prior.topic_key = t
                               /\ LessonRight(prior, counted[t], p)
         /\ \A m \in held : m.topic_key = t => m = prior
         /\ Cited(prior) \subseteq counted[t]
         /\ \A f \in counted[t] : f > p => f \in Cited(prior)
         /\ prior # NoMemory => prior \in Lesson
<1>1. Readable(req) /\ req.active = held
  BY SentIsSound
<1>2. /\ prior # NoMemory => prior \in held /\ prior.topic_key = t
      /\ \A m \in held : m.kind = "lesson" /\ m.topic_key = t => prior # NoMemory
  BY <1>1, PriorIsNewest
<1>3. held \subseteq Lesson /\ TopicRight(held, counted[t], p, t)
  BY DEF Sent, HostRight
<1>4. \A m \in held : m.kind = "lesson"
  BY <1>3 DEF Lesson
<1>5. CASE counted[t] = {}
  <2>1. \A m \in held : m.topic_key # t
    BY <1>3, <1>5 DEF TopicRight
  <2>2. prior = NoMemory
    BY <1>2, <2>1
  <2> QED
    BY <1>5, <2>1, <2>2 DEF Cited
<1>6. CASE counted[t] # {}
  <2>1. PICK m \in held : /\ m.topic_key = t /\ LessonRight(m, counted[t], p)
                          /\ \A n \in held : n.topic_key = t => n = m
    BY <1>3, <1>6 DEF TopicRight
  <2>2. prior # NoMemory /\ prior = m
    BY <1>2, <1>4, <2>1
  <2>3. Cited(prior) = ToSet(prior.sources)
    BY <2>2 DEF Cited
  <2> QED
    BY <1>3, <1>6, <2>1, <2>2, <2>3 DEF LessonRight
<1> QED
  BY <1>5, <1>6

\* Without a new version, the host counted what the answer assigns already.
LEMMA NothingNew ==
  ASSUME NEW held, NEW counted, NEW p, NEW end, NEW r, NEW req, NEW c,
         Sent(held, counted, p, end, r, req, c), NEW t \in Topics
  PROVE  AddedTo(req, c, t) = {} <=> AssignedTo(c, t) \subseteq counted[t]
<1> DEFINE prior == PriorLesson(req, t)
           new == AssignedTo(c, t) \ Cited(prior)
<1>1. Readable(req) /\ SoundCheck(req, c) /\ OnlyFailures(c, t) /\ AssignedTo(c, t) \subseteq Recent(p)
  BY SentIsSound
<1>2. AddedTo(req, c, t) # {} <=> new # {}
  BY <1>1, LessonCounts
<1>3. Cited(prior) \subseteq counted[t] /\ \A f \in counted[t] : f > p => f \in Cited(prior)
  BY PriorIsHeld
<1>4. \A f \in AssignedTo(c, t) : f > p
  BY <1>1 DEF Recent, Sent, HostRight
<1> HIDE DEF prior
<1> QED
  BY <1>2, <1>3, <1>4

\* A new version counts what the host counted and what the answer assigns.
LEMMA NewLessonRight ==
  ASSUME NEW held, NEW counted, NEW p, NEW end, NEW r, NEW req, NEW c,
         Sent(held, counted, p, end, r, req, c), NEW t \in Topics, AddedTo(req, c, t) # {},
         NEW lesson, lesson = LessonOf(req, c, t)
  PROVE  /\ lesson \in Lesson
         /\ lesson.topic_key = t
         /\ LessonRight(lesson, counted[t] \cup AssignedTo(c, t), p)
<1> DEFINE prior == PriorLesson(req, t)
           old == counted[t]
           assigns == AssignedTo(c, t)
           new == assigns \ Cited(prior)
           before == IF prior = NoMemory THEN 0 ELSE prior.occurrences
<1>1. /\ Readable(req) /\ SoundCheck(req, c) /\ OnlyFailures(c, t)
      /\ p \in Nat /\ assigns \subseteq Recent(p) /\ c.memories = {}
  BY SentIsSound
<1>2. /\ old = {} => prior = NoMemory
      /\ old # {} => prior # NoMemory /\ LessonRight(prior, old, p)
      /\ Cited(prior) \subseteq old
      /\ \A f \in old : f > p => f \in Cited(prior)
      /\ prior # NoMemory => prior \in Lesson
  BY PriorIsHeld
<1>3. /\ lesson.kind = "lesson" /\ lesson.topic_key = t /\ lesson.resolves = {}
      /\ lesson.statement = LessonStatement(c, prior, t)
      /\ lesson.version = LessonVersion(prior, AddedTo(req, c, t))
      /\ lesson.occurrences = Cardinality(AddedTo(req, c, t)) + before
      /\ lesson.sources = LessonSources(prior, Occurrences(c, t))
      /\ lesson = [kind |-> lesson.kind, topic_key |-> lesson.topic_key,
                   statement |-> lesson.statement, version |-> lesson.version,
                   occurrences |-> lesson.occurrences, sources |-> lesson.sources,
                   resolves |-> lesson.resolves]
  BY DEF LessonOf
<1>4. old \subseteq Failure /\ \A f \in old \cup assigns : f \in Nat /\ SeqNo[f] = f
  <2>1. old \subseteq Failure /\ assigns \subseteq Failure
    BY <1>1 DEF Sent, HostRight, Recent
  <2> QED
    BY <2>1, ActivitiesAreNumbers
<1>5. IsFiniteSet(old) /\ Cardinality(old) \in Nat
  <2>1. IsFiniteSet(Activity) /\ old \subseteq Activity
    BY <1>4, HostAssumption, CurateAssumption
  <2> QED
    BY <2>1, FS_Subset, FS_CardinalityType
<1>6. before = Cardinality(old)
  <2>1. CASE old = {}
    BY <1>2, <2>1, FS_EmptySet
  <2>2. CASE old # {}
    BY <1>2, <2>2 DEF LessonRight
  <2> QED
    BY <2>1, <2>2
<1>7. IsFiniteSet(new) /\ Cardinality(AddedTo(req, c, t)) = Cardinality(new) /\ new # {}
  <2>1. /\ IsFiniteSet(new)
        /\ Cardinality(AddedTo(req, c, t)) = Cardinality(new)
        /\ AddedTo(req, c, t) # {} <=> new # {}
    BY <1>1, LessonCounts
  <2> HIDE DEF new
  <2> QED
    BY <2>1
<1>8. \A f \in assigns : f > p
  BY <1>1 DEF Recent
<1>9. new = assigns \ old /\ old \cup assigns = old \cup new /\ old \cap new = {}
  <2> HIDE DEF prior, old, assigns
  <2> QED
    BY <1>2, <1>8
<1>10. Cardinality(old \cup assigns) = Cardinality(old) + Cardinality(new)
  <2>1. Cardinality(old \cup new) = Cardinality(old) + Cardinality(new) - Cardinality({})
    <3> HIDE DEF new, old
    <3> QED
      BY <1>5, <1>7, <1>9, FS_Union
  <2>2. Cardinality({}) = 0 /\ Cardinality(new) \in Nat
    BY <1>7, FS_EmptySet, FS_CardinalityType
  <2>3. \A k, n \in Nat : k + n - 0 = k + n
    OBVIOUS
  <2> HIDE DEF new, old, assigns
  <2> QED
    BY <1>5, <1>9, <2>1, <2>2, <2>3, Zenon
<1>11. lesson.occurrences = Cardinality(old \cup assigns) /\ lesson.occurrences \in Nat
  <2>1. Cardinality(new) \in Nat
    BY <1>7, FS_CardinalityType
  <2>2. lesson.occurrences = Cardinality(new) + Cardinality(old)
    BY <1>3, <1>6, <1>7
  <2> HIDE DEF new, old, assigns
  <2> QED
    BY <1>5, <1>10, <2>1, <2>2
<1>12. /\ lesson.version \in Nat
       /\ prior # NoMemory => prior.version <= lesson.version
       /\ \A x \in ToSet(lesson.sources) :
             x \in Cited(prior) \/ (x \in Known(req) /\ SeqNo[x] <= lesson.version)
  BY <1>1, LessonGrounded
<1>13. prior # NoMemory => /\ RecentLast(prior.sources, p)
                           /\ \A x \in ToSet(prior.sources) : x > p => x \in Recent(p)
  <2>1. SUFFICES ASSUME prior # NoMemory
                 PROVE  /\ RecentLast(prior.sources, p)
                        /\ \A x \in ToSet(prior.sources) : x > p => x \in Recent(p)
    OBVIOUS
  <2>2. LessonRight(prior, old, p)
    BY <1>2, <2>1
  <2>3. \A f \in old : f \in Failure /\ f <= p + WindowSize
    BY DEF Sent, HostRight
  <2>4. \A x \in ToSet(prior.sources) : x \in old
    BY <2>2 DEF LessonRight
  <2>5. \A x \in ToSet(prior.sources) : x > p => x \in Recent(p)
    <3>1. SUFFICES ASSUME NEW x \in ToSet(prior.sources), x > p PROVE x \in Recent(p)
      OBVIOUS
    <3>2. x \in Failure /\ x <= p + WindowSize /\ x \in Nat
      BY <1>4, <2>3, <2>4
    <3> QED
      BY <1>1, <3>1, <3>2 DEF Recent
  <2> QED
    BY <2>2, <2>5 DEF LessonRight
<1>14. /\ lesson.sources \in Seq(Activity) /\ RecentLast(lesson.sources, p)
       /\ ToSet(lesson.sources) \subseteq Cited(prior) \cup assigns
       /\ \A f \in Cited(prior) \cup assigns : f > p => f \in ToSet(lesson.sources)
  BY <1>1, <1>3, <1>13, SourcesGrow DEF Sent
<1>15. lesson.statement \in Statements
  <2>1. assigns # {}
    BY <1>7
  <2>2. /\ \A s \in DOMAIN c.lessons : c.lessons[s] \in Statements
        /\ t \in LessonKeys(req, r)
        /\ t \in DOMAIN ParsedLessons(r) => t \in DOMAIN c.lessons
    BY <2>1, LessonsStated DEF Sent
  <2>3. OfTopic(c.memories, t) = {}
    BY <1>1 DEF OfTopic
  <2>4. lesson.statement = IF t \in DOMAIN c.lessons THEN c.lessons[t] ELSE prior.statement
    BY <1>3, <2>3 DEF LessonStatement
  <2>5. CASE t \in DOMAIN c.lessons
    BY <2>2, <2>4, <2>5
  <2>6. CASE t \notin DOMAIN c.lessons
    <3>1. PICK m \in ActiveLessons(req) : m.topic_key = t
      BY <2>2, <2>6 DEF LessonKeys
    <3>2. prior # NoMemory
      BY <1>1, <3>1, PriorIsNewest DEF ActiveLessons
    <3>3. prior.statement \in Statements
      BY <1>2, <3>2 DEF Lesson
    <3> QED
      BY <2>4, <2>6, <3>3
  <2> QED
    BY <2>5, <2>6
<1> HIDE DEF old, assigns, prior
<1>16. lesson \in Lesson
  BY <1>3, <1>11, <1>12, <1>14, <1>15 DEF Lesson
<1>17. \A f \in old \cup assigns : f <= lesson.version
  <2>1. ASSUME NEW f \in old PROVE f <= lesson.version
    <3>1. prior # NoMemory /\ f <= prior.version /\ prior.version <= lesson.version
      BY <1>2, <1>12 DEF LessonRight
    <3>2. prior.version \in Nat
      BY <1>2, <3>1 DEF Lesson
    <3> QED
      BY <1>4, <1>12, <3>1, <3>2
  <2>2. ASSUME NEW f \in assigns, f \notin old PROVE f <= lesson.version
    <3>1. f \in ToSet(lesson.sources) /\ f \notin Cited(prior)
      BY <1>2, <1>8, <1>14, <2>2
    <3> QED
      BY <1>4, <1>12, <3>1
  <2> QED
    BY <2>1, <2>2
<1>18. \A f \in old \cup assigns : f > p => f \in ToSet(lesson.sources)
  BY <1>2, <1>14
<1>19. ToSet(lesson.sources) \subseteq old \cup assigns
  BY <1>2, <1>14
<1> QED
  BY <1>3, <1>11, <1>14, <1>16, <1>17, <1>18, <1>19 DEF LessonRight, old, assigns

\* What the host stores: a new version takes its prior version's place.
StoredOf(stored, held, req, c) ==
    \A m : m \in stored <=> \/ m \in held /\ AddedTo(req, c, m.topic_key) = {}
                           \/ \E t \in Topics : AddedTo(req, c, t) # {} /\ m = LessonOf(req, c, t)

LEMMA StoredAre ==
  ASSUME NEW held, NEW counted, NEW p, NEW end, NEW r, NEW req, NEW c,
         Sent(held, counted, p, end, r, req, c),
         NEW memories, memories = Consolidate(req, c).memories,
         NEW stored, stored = (held \ UNION {v.supersedes : v \in memories}) \cup {v.memory : v \in memories}
  PROVE  StoredOf(stored, held, req, c)
<1> SUFFICES ASSUME NEW m
             PROVE  m \in stored <=> \/ m \in held /\ AddedTo(req, c, m.topic_key) = {}
                                     \/ \E t \in Topics : AddedTo(req, c, t) # {} /\ m = LessonOf(req, c, t)
  BY DEF StoredOf
<1> DEFINE T == {t \in Topics : AddedTo(req, c, t) # {}}
           Version(t) == [memory |-> LessonOf(req, c, t), supersedes |-> Supersedes(PriorLesson(req, t))]
<1>1. memories = {Version(t) : t \in T}
  BY NothingProposed, NewLessonsAre DEF Sent, Answerable
<1>2. \A t : /\ Version(t).memory = LessonOf(req, c, t)
             /\ Version(t).supersedes = Supersedes(PriorLesson(req, t))
  OBVIOUS
<1> HIDE DEF Version
<1>3. m \in {v.memory : v \in memories} <=> \E t \in T : m = LessonOf(req, c, t)
  BY <1>1, <1>2
<1>4. m \in UNION {v.supersedes : v \in memories} <=> \E t \in T : m \in Supersedes(PriorLesson(req, t))
  BY <1>1, <1>2
<1>5. ASSUME m \in held
      PROVE  (\E t \in T : m \in Supersedes(PriorLesson(req, t))) <=> AddedTo(req, c, m.topic_key) # {}
  <2>1. m \in Lesson
    BY <1>5 DEF Sent, HostRight
  <2>2. m.topic_key \in Topics /\ m # NoMemory
    BY <2>1, MemoryAssumption DEF Lesson
  <2>3. ASSUME NEW t \in T, m \in Supersedes(PriorLesson(req, t)) PROVE t = m.topic_key
    <3>1. PriorLesson(req, t) # NoMemory /\ m = PriorLesson(req, t)
      BY <2>3, SupersededIsPrior
    <3>2. counted[t] # {}
      BY <3>1, PriorIsHeld
    <3> QED
      BY <3>1, <3>2, PriorIsHeld
  <2>4. m \in Supersedes(PriorLesson(req, m.topic_key))
    <3>1. m = PriorLesson(req, m.topic_key)
      BY <1>5, <2>2, PriorIsHeld
    <3> QED
      BY <2>2, <3>1, SupersededIsPrior
  <2> QED
    BY <2>2, <2>3, <2>4
<1>6. m \in stored <=> \/ m \in held /\ m \notin UNION {v.supersedes : v \in memories}
                       \/ m \in {v.memory : v \in memories}
  OBVIOUS
<1> QED
  BY <1>3, <1>4, <1>5, <1>6

\* Storing an answer keeps what the host holds right.
LEMMA StoredRight ==
  ASSUME NEW held, NEW counted, NEW p, NEW end, NEW r, NEW req, NEW c,
         Sent(held, counted, p, end, r, req, c),
         NEW memories, memories = Consolidate(req, c).memories,
         NEW stored, stored = (held \ UNION {v.supersedes : v \in memories}) \cup {v.memory : v \in memories},
         NEW after, \A t \in Topics : after[t] = counted[t] \cup AssignedTo(c, t)
  PROVE  HostRight(stored, after, p)
<1>1. \A m : m \in stored <=> \/ m \in held /\ AddedTo(req, c, m.topic_key) = {}
                              \/ \E t \in Topics : AddedTo(req, c, t) # {} /\ m = LessonOf(req, c, t)
  <2>1. StoredOf(stored, held, req, c)
    BY StoredAre, Zenon
  <2> QED
    BY <2>1 DEF StoredOf
<1>2. /\ held \subseteq Lesson /\ p \in Nat
      /\ \A t \in Topics : /\ counted[t] \subseteq Failure
                           /\ \A f \in counted[t] : f <= p + WindowSize
                           /\ TopicRight(held, counted[t], p, t)
  BY DEF Sent, HostRight
<1>3. \A t \in Topics : AddedTo(req, c, t) # {} =>
         /\ LessonOf(req, c, t) \in Lesson
         /\ LessonOf(req, c, t).topic_key = t
         /\ LessonRight(LessonOf(req, c, t), after[t], p)
  BY NewLessonRight
<1>4. stored \subseteq Lesson
  BY <1>1, <1>2, <1>3
<1>5. ASSUME NEW t \in Topics PROVE TopicRight(stored, after[t], p, t)
  <2>1. after[t] = counted[t] \cup AssignedTo(c, t)
    OBVIOUS
  <2>2. CASE AddedTo(req, c, t) = {}
    <3>1. after[t] = counted[t]
      BY <2>1, <2>2, NothingNew
    <3>2. \A m : m.topic_key = t => (m \in stored <=> m \in held)
      BY <1>1, <1>3, <2>2
    <3> QED
      BY <1>2, <3>1, <3>2 DEF TopicRight
  <2>3. CASE AddedTo(req, c, t) # {}
    <3> DEFINE lesson == LessonOf(req, c, t)
    <3>1. lesson \in stored /\ lesson.topic_key = t /\ LessonRight(lesson, after[t], p)
      BY <1>1, <1>3, <2>3
    <3>2. ASSUME NEW n \in stored, n.topic_key = t PROVE n = lesson
      <4>1. \/ n \in held /\ AddedTo(req, c, t) = {}
            \/ \E u \in Topics : AddedTo(req, c, u) # {} /\ n = LessonOf(req, c, u)
        BY <1>1, <3>2
      <4>2. PICK u \in Topics : AddedTo(req, c, u) # {} /\ n = LessonOf(req, c, u)
        BY <2>3, <4>1
      <4>3. u = t
        BY <1>3, <3>2, <4>2
      <4> QED
        BY <4>2, <4>3
    <3>3. after[t] # {}
      <4>1. ~ (AssignedTo(c, t) \subseteq counted[t])
        BY <2>3, NothingNew
      <4> QED
        BY <2>1, <4>1
    <3> QED
      BY <3>1, <3>2, <3>3 DEF TopicRight
  <2> QED
    BY <2>2, <2>3
<1>6. ASSUME NEW t \in Topics PROVE after[t] \subseteq Failure /\ \A f \in after[t] : f <= p + WindowSize
  <2>1. AssignedTo(c, t) \subseteq Recent(p)
    BY SentIsSound
  <2> QED
    BY <1>2, <2>1 DEF Recent
<1> QED
  BY <1>2, <1>4, <1>5, <1>6 DEF HostRight

\* What a reply assigns depends on the window and on the topic keys of lessons.
LEMMA SameAssignments ==
  ASSUME NEW req, NEW other, NEW r, Failures(req) = Failures(other),
         LessonKeys(req, r) = LessonKeys(other, r)
  PROVE  CheckReply(req, r).assignments = CheckReply(other, r).assignments
<1>1. \A a : ValidAssignment(req, r, a) <=> ValidAssignment(other, r, a)
  BY DEF ValidAssignment
<1>2. Accepted(req, r) = Accepted(other, r)
  BY <1>1 DEF Accepted
<1>3. ParsedAssignments(req, r) = ParsedAssignments(other, r)
  BY <1>2 DEF ParsedAssignments
<1>4. CASE ~r.json
  BY <1>4 DEF CheckReply, CheckNothing
<1>5. CASE r.json
  BY <1>3, <1>5 DEF CheckReply
<1> QED
  BY <1>4, <1>5

\* The new versions of an answer change none of them.
LEMMA SameAnswerAgain ==
  ASSUME NEW held, NEW counted, NEW p, NEW end, NEW r, NEW req, NEW c,
         Sent(held, counted, p, end, r, req, c),
         NEW memories, memories = Consolidate(req, c).memories,
         NEW stored, stored = (held \ UNION {v.supersedes : v \in memories}) \cup {v.memory : v \in memories},
         NEW again, again = CheckReply(RequestOf(stored, p, end), r),
         NEW t
  PROVE  AssignedTo(again, t) = AssignedTo(c, t)
<1> DEFINE other == RequestOf(stored, p, end)
<1>1. \A m : m \in stored <=> \/ m \in held /\ AddedTo(req, c, m.topic_key) = {}
                              \/ \E u \in Topics : AddedTo(req, c, u) # {} /\ m = LessonOf(req, c, u)
  <2>1. StoredOf(stored, held, req, c)
    BY StoredAre, Zenon
  <2> QED
    BY <2>1 DEF StoredOf
<1>2. \A m \in held : m.kind = "lesson" /\ m.topic_key \in Topics
  BY DEF Sent, HostRight, Lesson
<1>3. \A u \in Topics : LessonOf(req, c, u).kind = "lesson" /\ LessonOf(req, c, u).topic_key = u
  BY DEF LessonOf
<1>4. req.active = held /\ other.active = stored /\ req.window = other.window
  BY DEF Sent, RequestOf
<1>5. Failures(req) = Failures(other)
  BY <1>4 DEF Failures
<1> HIDE DEF other
<1>6. ASSUME NEW u \in Topics, AddedTo(req, c, u) # {} PROVE u \in LessonKeys(req, r)
  <2>1. AssignedTo(c, u) # {}
    BY <1>6, NothingNew
  <2> QED
    BY <2>1, LessonsStated DEF Sent
<1>7. \A m \in stored : m.kind = "lesson" /\ m.topic_key \in LessonKeys(req, r)
  BY <1>1, <1>2, <1>3, <1>4, <1>6 DEF LessonKeys, ActiveLessons
<1>8. \A m \in held : \E n \in stored : n.kind = "lesson" /\ n.topic_key = m.topic_key
  BY <1>1, <1>2, <1>3
<1>9. LessonKeys(other, r) = LessonKeys(req, r)
  <2>1. LessonKeys(other, r) \subseteq LessonKeys(req, r)
    BY <1>4, <1>7 DEF LessonKeys, ActiveLessons
  <2>2. LessonKeys(req, r) \subseteq LessonKeys(other, r)
    BY <1>4, <1>8 DEF LessonKeys, ActiveLessons
  <2> QED
    BY <2>1, <2>2
<1>10. again.assignments = c.assignments
  BY <1>5, <1>9, SameAssignments DEF Sent, other
<1> QED
  BY <1>10 DEF AssignedTo

-------------------------------------------------------------------------------
\* The host.

HostInv ==
    /\ FewFailures
    /\ HostRight(store, assigned, position)
    /\ sent \in Nat /\ position <= sent /\ sent <= position + WindowSize
    /\ \A t \in Topics : \A f \in assigned[t] : f <= sent
    /\ Answerable(stored_reply)
    /\ sent > position =>
          \A t \in Topics :
             AssignedTo(CheckReply(RequestOf(store, position, sent), stored_reply), t) \subseteq assigned[t]

LEMMA HostRequestIs == ASSUME NEW end PROVE HostRequest(end) = RequestOf(store, position, end)
BY DEF HostRequest, RequestOf, Window

LEMMA HostRepliesAnswerable ==
  ASSUME NEW end, NEW r \in HostReplies(end)
  PROVE  Answerable(r)
<1>1. CASE r = NoReply
  <2>1. r.assignments = <<>> /\ r.memories = <<>> /\ r.lessons = <<>>
    BY <1>1 DEF NoReply
  <2>2. /\ DOMAIN r.assignments = 1..0 /\ Len(r.assignments) = 0
        /\ DOMAIN r.memories = 1..0 /\ DOMAIN r.lessons = 1..0
    BY <2>1
  <2> QED
    BY <2>1, <2>2 DEF Answerable, Shaped
<1>2. CASE r # NoReply
  <2> DEFINE Items == [topic_key: Topics, statement: Statements]
             Targets == [activity_id: Window(end), target: Topics \cup {Dismiss}, grounded: {TRUE}]
  <2>1. /\ r.lessons \in SeqOf(Items, MaxLessons)
        /\ r.assignments \in SeqOf(Targets, MaxAssignments)
        /\ r.memories = <<>>
    BY <1>2 DEF HostReplies
  <2>2. \A x \in Items : x.statement \in Statements
    OBVIOUS
  <2> HIDE DEF Items, Targets
  <2>3. /\ Len(r.assignments) \in Nat /\ DOMAIN r.assignments = 1..Len(r.assignments)
        /\ Len(r.lessons) \in Nat /\ DOMAIN r.lessons = 1..Len(r.lessons)
        /\ r.lessons \in Seq(Items)
    BY <2>1, BoundedLists
  <2>4. DOMAIN r.memories = 1..0
    BY <2>1
  <2>5. \A i \in DOMAIN r.lessons : r.lessons[i].statement \in Statements
    BY <2>2, <2>3
  <2>6. Shaped(r)
    BY <2>3, <2>4 DEF Shaped
  <2> QED
    BY <2>1, <2>3, <2>5, <2>6 DEF Answerable
<1> QED
  BY <1>1, <1>2

LEMMA HostInvInit == HostInit /\ FewFailures => HostInv
<1> SUFFICES ASSUME HostInit, FewFailures PROVE HostInv
  OBVIOUS
<1>1. /\ store = {} /\ position = 0 /\ sent = 0 /\ stored_reply = NoReply
      /\ \A t \in Topics : assigned[t] = {}
  BY DEF HostInit
<1>2. HostRight(store, assigned, position)
  BY <1>1 DEF HostRight, TopicRight
<1>3. Answerable(stored_reply)
  BY <1>1, HostRepliesAnswerable DEF HostReplies
<1>4. WindowSize \in Nat
  BY HostAssumption
<1> QED
  BY <1>1, <1>2, <1>3, <1>4 DEF HostInv

LEMMA CurateWindowKeeps ==
  ASSUME HostInv, NEW end \in Ends, NEW r \in HostReplies(end), CurateWindow(end, r)
  PROVE  HostInv'
<1> DEFINE req == RequestOf(store, position, end)
           c == CheckReply(req, r)
           memories == Consolidate(req, c).memories
<1>1. /\ end \in Nat /\ position < end /\ end <= position + WindowSize /\ sent <= end
      /\ position \in Nat /\ sent \in Nat
  BY ActivitiesAreNumbers DEF Ends, HostInv, HostRight
<1>2. Answerable(r)
  BY HostRepliesAnswerable
<1>3. Sent(store, assigned, position, end, r, req, c)
  BY <1>1, <1>2 DEF Sent, HostInv
<1>4. Response(HostRequest(end), r) = Consolidate(req, c)
  BY HostRequestIs DEF Response
<1>5. /\ store' = (store \ UNION {v.supersedes : v \in memories}) \cup {v.memory : v \in memories}
      /\ position' = position /\ sent' = end /\ stored_reply' = r
  BY <1>4 DEF CurateWindow, Stored
<1>6. \A t \in Topics : assigned'[t] = assigned[t] \cup AssignedTo(c, t)
  <2>1. Consolidate(req, c).assignments = c.assignments
    BY DEF Consolidate
  <2>2. assigned' = [t \in Topics |-> assigned[t] \cup AssignedTo(c, t)]
    BY <1>4, <2>1 DEF CurateWindow, AssignedTo
  <2> QED
    BY <2>2
<1> HIDE DEF c, req, memories
<1>7. HostRight(store', assigned', position)
  BY <1>3, <1>5, <1>6, StoredRight DEF memories
<1>8. \A t \in Topics : \A f \in assigned'[t] : f <= end
  <2>1. SUFFICES ASSUME NEW t \in Topics, NEW f \in assigned'[t] PROVE f <= end
    OBVIOUS
  <2>2. CASE f \in assigned[t]
    <3>1. f <= sent /\ f \in Failure
      BY <2>2 DEF HostInv, HostRight
    <3>2. f \in Nat
      BY <3>1, ActivitiesAreNumbers
    <3> QED
      BY <1>1, <3>1, <3>2
  <2>3. CASE f \in AssignedTo(c, t)
    BY <1>3, <2>3, SentIsSound
  <2> QED
    BY <1>6, <2>1, <2>2, <2>3
<1>9. \A t \in Topics :
         AssignedTo(CheckReply(RequestOf(store', position, end), r), t) \subseteq assigned'[t]
  <2>1. TAKE t \in Topics
  <2>2. AssignedTo(CheckReply(RequestOf(store', position, end), r), t) = AssignedTo(c, t)
    BY <1>3, <1>5, SameAnswerAgain DEF memories
  <2> QED
    BY <1>6, <2>2
<1>10. FewFailures'
  BY DEF HostInv, FewFailures
<1> QED
  BY <1>1, <1>2, <1>5, <1>7, <1>8, <1>9, <1>10 DEF HostInv

LEMMA AdvanceKeeps ==
  ASSUME HostInv, Advance
  PROVE  HostInv'
<1>1. /\ position' = sent /\ sent' = sent /\ store' = store /\ assigned' = assigned
      /\ stored_reply' = NoReply
  BY DEF Advance
<1>2. /\ sent \in Nat /\ position \in Nat /\ position <= sent /\ WindowSize \in Nat
      /\ \A t \in Topics : /\ \A f \in assigned[t] : f <= sent /\ f \in Nat
                           /\ TopicRight(store, assigned[t], position, t)
  <2>1. \A t \in Topics : assigned[t] \subseteq Failure
    BY DEF HostInv, HostRight
  <2> QED
    BY <2>1, ActivitiesAreNumbers, HostAssumption DEF HostInv, HostRight
<1>3. ASSUME NEW t \in Topics PROVE TopicRight(store, assigned[t], sent, t)
  <2>1. ASSUME NEW m \in store, LessonRight(m, assigned[t], position)
        PROVE  LessonRight(m, assigned[t], sent)
    <3>1. \A f \in assigned[t] : ~ (f > sent)
      BY <1>2
    <3>2. ToSet(m.sources) \subseteq assigned[t]
      BY <2>1 DEF LessonRight
    <3>3. RecentLast(m.sources, sent)
      <4>1. m.sources \in Seq(Activity)
        BY DEF HostInv, HostRight, Lesson
      <4>2. \A i \in 1..Len(m.sources) : m.sources[i] \in ToSet(m.sources)
        BY <4>1 DEF ToSet
      <4> QED
        BY <3>1, <3>2, <4>2 DEF RecentLast
    <3> QED
      BY <2>1, <3>1, <3>3 DEF LessonRight
  <2> QED
    BY <1>2, <2>1 DEF TopicRight
<1>4. ASSUME NEW t \in Topics, NEW f \in assigned[t] PROVE f <= sent + WindowSize
  BY <1>2
<1>5. HostRight(store, assigned, sent)
  BY <1>2, <1>3, <1>4 DEF HostRight, HostInv
<1>6. Answerable(NoReply)
  BY HostRepliesAnswerable DEF HostReplies
<1>7. FewFailures'
  BY DEF HostInv, FewFailures
<1> QED
  BY <1>1, <1>2, <1>5, <1>6, <1>7 DEF HostInv

LEMMA HostInvHolds == HostSpec /\ FewFailures => []HostInv
<1>1. HostInv /\ [HostNext]_hostVars => HostInv'
  <2> SUFFICES ASSUME HostInv, [HostNext]_hostVars PROVE HostInv'
    OBVIOUS
  <2>1. ASSUME NEW end \in Ends, NEW r \in HostReplies(end), CurateWindow(end, r) PROVE HostInv'
    BY <2>1, CurateWindowKeeps
  <2>2. CASE Advance
    BY <2>2, AdvanceKeeps
  <2>3. CASE UNCHANGED hostVars
    BY <2>3 DEF hostVars, HostInv, FewFailures
  <2> QED
    BY <2>1, <2>2, <2>3 DEF HostNext
<1> QED
  BY <1>1, HostInvInit, PTL DEF HostSpec

LEMMA HeldLessonsRight == HostInv => EachFailureCountedOnce
<1> SUFFICES ASSUME HostInv, NEW t \in Topics,
                    NEW held, held = {m \in store : m.topic_key = t}
             PROVE  /\ assigned[t] = {} => held = {}
                    /\ assigned[t] # {} =>
                          \E m \in held : /\ held = {m}
                                          /\ m.occurrences = Cardinality(assigned[t])
                                          /\ \A f \in assigned[t] : SeqNo[f] <= m.version
  BY Zenon DEF EachFailureCountedOnce
<1>1. TopicRight(store, assigned[t], position, t) /\ assigned[t] \subseteq Failure
  BY DEF HostInv, HostRight
<1>2. CASE assigned[t] = {}
  BY <1>1, <1>2 DEF TopicRight
<1>3. CASE assigned[t] # {}
  <2>1. PICK m \in store : /\ m.topic_key = t /\ LessonRight(m, assigned[t], position)
                           /\ \A n \in store : n.topic_key = t => n = m
    BY <1>1, <1>3 DEF TopicRight
  <2>2. held = {m}
    BY <2>1
  <2>3. \A f \in assigned[t] : SeqNo[f] <= m.version
    BY <1>1, <2>1, ActivitiesAreNumbers DEF LessonRight
  <2> QED
    BY <1>3, <2>1, <2>2, <2>3 DEF LessonRight
<1> QED
  BY <1>2, <1>3

\* "occurrences is the number of failures assigned to it" (consolidate): however
\* often a host sends a window, however long it has grown by then and however it
\* is answered, every lesson counts each failure once.
THEOREM FailuresCountedOnce == HostSpec /\ FewFailures => []EachFailureCountedOnce
BY HostInvHolds, HeldLessonsRight, PTL

LEMMA NothingAddedAgain == HostInv => ReplayIsNoop
<1> SUFFICES ASSUME HostInv, sent > position
             PROVE  Response(HostRequest(sent), stored_reply).memories = {}
  BY DEF ReplayIsNoop
<1> DEFINE req == RequestOf(store, position, sent)
           c == CheckReply(req, stored_reply)
<1>1. Response(HostRequest(sent), stored_reply) = Consolidate(req, c)
  BY HostRequestIs DEF Response
<1>2. Sent(store, assigned, position, sent, stored_reply, req, c)
  BY DEF Sent, HostInv
<1>3. \A t \in Topics : AssignedTo(c, t) \subseteq assigned[t]
  BY DEF HostInv
<1> HIDE DEF c, req
<1>4. \A t \in Topics : AddedTo(req, c, t) = {}
  BY <1>2, <1>3, NothingNew
<1>5. NewLessons(req, c) = {}
  BY <1>4, NewLessonsAre
<1>6. Consolidate(req, c).memories = NewLessons(req, c)
  BY <1>2, NothingProposed DEF Sent, Answerable
<1> QED
  BY <1>1, <1>5, <1>6

\* "A retried request is safe" (consolidate): a window sent again with what its
\* answer stored, and answered as before, brings no new version.
THEOREM ReplayAddsNothing == HostSpec /\ FewFailures => []ReplayIsNoop
BY HostInvHolds, NothingAddedAgain, PTL
===============================================================================
