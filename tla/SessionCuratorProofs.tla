------------------------- MODULE SessionCuratorProofs -------------------------
(***************************************************************************)
(* Proofs about SessionCurator, for every value of its constants.          *)
(***************************************************************************)
EXTENDS SessionCurator, FiniteSetTheorems, TLAPS

(* The stream: positions are 1..Cardinality(stored), one per message.      *)

\* A slice of the stream is finite.
LEMMA StoredFinite ==
  ASSUME clock \in Nat, stored \in SUBSET (1..clock)
  PROVE  /\ IsFiniteSet(stored)
         /\ Cardinality(stored) \in Nat
         /\ \A S \in SUBSET stored : IsFiniteSet(S) /\ Cardinality(S) \in Nat
                                     /\ Cardinality(S) <= Cardinality(stored)
<1>1. IsFiniteSet(1..clock)
  BY FS_Interval
<1>2. IsFiniteSet(stored)
  BY <1>1, FS_Subset
<1>3. QED
  BY <1>2, FS_Subset, FS_CardinalityType

\* Positions order the messages as their numbers do.
LEMMA PositionOrder ==
  ASSUME clock \in Nat, stored \in SUBSET (1..clock),
         NEW m \in stored, NEW x \in stored, m < x
  PROVE  Position(m) < Position(x)
<1> DEFINE M == {y \in stored : y <= m}
<1> DEFINE X == {y \in stored : y <= x}
<1>a. m \in Int /\ x \in Int /\ stored \subseteq Int
  OBVIOUS
<1>b. X \in SUBSET stored /\ M \in SUBSET X
  <2>1. \A y \in stored : y <= m => y <= x
    BY <1>a
  <2>2. QED
    BY <2>1
<1>c. x \in X /\ x \notin M
  BY <1>a
<1>1. IsFiniteSet(X) /\ M \in SUBSET X /\ M # X
  BY <1>b, <1>c, StoredFinite
<1>2. /\ Cardinality(M) \in Nat /\ Cardinality(X) \in Nat
      /\ Cardinality(M) <= Cardinality(X) /\ Cardinality(M) # Cardinality(X)
  BY <1>1, FS_Subset, FS_CardinalityType
<1>3. QED
  BY <1>2 DEF Position

\* Every position from 1 to the length of the stream is that of one message.
LEMMA PositionBijection ==
  ASSUME clock \in Nat, stored \in SUBSET (1..clock)
  PROVE  /\ \A m \in stored : Position(m) \in 1..Cardinality(stored)
         /\ \A m, x \in stored : Position(m) = Position(x) => m = x
         /\ \A p \in 1..Cardinality(stored) : \E m \in stored : Position(m) = p
<1> DEFINE N == Cardinality(stored)
<1> DEFINE f == [m \in stored |-> Position(m)]
<1>1. IsFiniteSet(stored) /\ N \in Nat
  BY StoredFinite
<1>2. ASSUME NEW m \in stored
      PROVE  Position(m) \in 1..N
  <2> DEFINE M == {y \in stored : y <= m}
  <2>1. M \in SUBSET stored /\ m \in M
    OBVIOUS
  <2>2. IsFiniteSet(M) /\ Cardinality(M) \in Nat /\ Cardinality(M) <= N
    BY <2>1, StoredFinite
  <2>3. Cardinality(M) # 0
    BY <2>1, <2>2, FS_EmptySet
  <2>4. QED
    BY <2>2, <2>3, <1>1 DEF Position
<1>3. \A m, x \in stored : Position(m) = Position(x) => m = x
  BY <1>2, PositionOrder
<1>4. f \in Injection(stored, 1..N)
  <2>1. f \in [stored -> 1..N]
    BY <1>2
  <2>2. \A a, b \in stored : f[a] = f[b] => a = b
    BY <1>3
  <2>3. QED
    BY <2>1, <2>2 DEF Injection, IsInjective
<1>5. IsFiniteSet(1..N) /\ Cardinality(1..N) = N
  BY <1>1, FS_Interval
<1>6. f \in Surjection(stored, 1..N)
  BY <1>4, <1>5, FS_Injection
<1>7. \A p \in 1..N : \E m \in stored : f[m] = p
  BY <1>6 DEF Surjection
<1>8. QED
  BY <1>2, <1>3, <1>7

\* OFFSET and LIMIT: a slice is no longer than its limit and than what is
\* left of the stream, and empty only past its end.
LEMMA SliceBounds ==
  ASSUME clock \in Nat, stored \in SUBSET (1..clock),
         NEW after \in Nat, NEW limit \in Nat
  PROVE  /\ Slice(after, limit) \in SUBSET stored
         /\ Cardinality(Slice(after, limit)) \in Nat
         /\ Cardinality(Slice(after, limit)) <= limit
         /\ after <= Cardinality(stored)
              => after + Cardinality(Slice(after, limit)) <= Cardinality(stored)
         /\ after < Cardinality(stored) /\ limit > 0 => Slice(after, limit) # {}
<1> DEFINE S == Slice(after, limit)
<1> DEFINE N == Cardinality(stored)
<1> DEFINE f == [m \in S |-> Position(m)]
<1>1. S \in SUBSET stored /\ N \in Nat /\ Cardinality(S) \in Nat /\ IsFiniteSet(S)
  BY StoredFinite DEF Slice
<1>2. ASSUME NEW lo \in Int, NEW hi \in Int,
             \A m \in S : Position(m) \in lo..hi
      PROVE  Cardinality(S) <= IF lo > hi THEN 0 ELSE hi - lo + 1
  <2>1. f \in [S -> lo..hi]
    BY <1>2
  <2>2. \A a, b \in S : f[a] = f[b] => a = b
    BY <1>1, PositionBijection
  <2>3. f \in Injection(S, lo..hi)
    BY <2>1, <2>2 DEF Injection, IsInjective
  <2>4. QED
    BY <2>3, FS_Injection, FS_Interval
<1>3. Cardinality(S) <= limit
  <2>1. \A m \in S : Position(m) \in (after + 1)..(after + limit)
    BY <1>1, PositionBijection DEF Slice
  <2>2. QED
    BY <2>1, <1>2, <1>1
<1>4. after <= N => after + Cardinality(S) <= N
  <2>1. \A m \in S : Position(m) \in (after + 1)..N
    BY <1>1, PositionBijection DEF Slice
  <2>a. after + 1 \in Int /\ N \in Int
    BY <1>1
  <2> HIDE DEF S, N
  <2>2. Cardinality(S) <= IF after + 1 > N THEN 0 ELSE N - (after + 1) + 1
    BY <2>1, <2>a, <1>2
  <2>3. QED
    BY <2>2, <1>1
<1>5. ASSUME after < N, limit > 0
      PROVE  S # {}
  <2>1. PICK m \in stored : Position(m) = after + 1
    BY <1>1, <1>5, PositionBijection
  <2>2. m \in S
    BY <2>1, <1>5 DEF Slice
  <2>3. QED
    BY <2>2
<1>6. QED
  BY <1>1, <1>3, <1>4, <1>5

-----------------------------------------------------------------------------
(* Type correctness, with the bound on the watermark it rests on.          *)

TypeInv == TypeOK /\ WatermarkInStream

\* The version of a message shown to the LLM is a natural number: the first
\* position shown is at least 1.
LEMMA VersionType ==
  ASSUME TypeInv, pc = "llm", NEW m \in context \cup window
  PROVE  Version(m) \in Nat
<1>1. clock \in Nat /\ stored \in SUBSET (1..clock) /\ m \in Message
  BY BoundsAssumption DEF TypeInv, TypeOK, Message
<1>2. ActivitySeq[m] \in Nat \cup {NoSeq}
  BY <1>1, DataAssumption
<1>3. context \in SUBSET stored /\ context \cup window \in SUBSET stored
  BY DEF TypeInv, TypeOK
<1>4. /\ Cardinality(context) \in Nat
      /\ Cardinality({x \in context \cup window : x <= m}) \in Nat
  BY <1>1, <1>3, StoredFinite
<1>5. seq \in Nat /\ Cardinality(context) <= seq
  BY DEF TypeInv, TypeOK, WatermarkInStream
<1>6. QED
  BY <1>2, <1>4, <1>5 DEF Version

\* Every prior is a row the run knows, or none.
LEMMA PriorType ==
  ASSUME TypeOK, NEW p, NEW i \in Priors(p)
  PROVE  \/ i = NoRow
         \/ i \in Prompted /\ i \in active /\ i \in DOMAIN rows /\ rows[i] \in Row
            /\ SameTopic(rows[i], p)
<1>1. Prompted \subseteq active /\ active \subseteq DOMAIN rows
  BY DEF TypeOK, Prompted
<1>2. \A j \in DOMAIN rows : rows[j] \in Row
  BY DEF TypeOK
<1>3. QED
  BY <1>1, <1>2 DEF Priors

\* The memory versions a reply can bring are well typed.
LEMMA PossibleWritesType ==
  ASSUME TypeInv, pc = "llm"
  PROVE  PossibleWrites \subseteq Write
<1> SUFFICES ASSUME NEW p \in Proposals, NEW i \in Priors(p)
             PROVE  Versioned(p, i) \in Write
  BY DEF PossibleWrites
<1>1. /\ p.topic_key \in Topics /\ p.lesson \in BOOLEAN
      /\ p.statement \in Statements /\ p.version \in Nat
  BY VersionType DEF Proposals
<1>2. i = NoRow \/ (i \in DOMAIN rows /\ rows[i] \in Row)
  BY PriorType DEF TypeInv
<1>3. rows \in Seq(Row)
  BY DEF TypeInv, TypeOK
<1>4. i \in Nat
  BY <1>2, <1>3 DEF NoRow
<1>5. i # NoRow => rows[i].version \in Nat
  BY <1>2 DEF Row
<1>6. QED
  BY <1>1, <1>4, <1>5 DEF Versioned, Write

\* What a reply writes, one by one.
LEMMA WindowWritesType ==
  ASSUME TypeInv, pc = "llm", NEW writes \in WindowWrites
  PROVE  /\ writes \in Seq(Write)
         /\ Len(writes) \in Nat /\ DOMAIN writes = 1..Len(writes)
         /\ \A k \in DOMAIN writes : writes[k] \in PossibleWrites /\ writes[k] \in Write
         /\ \A j, k \in DOMAIN writes : SameTopic(writes[j], writes[k]) => j = k
<1>1. PICK n \in 0..MaxWrites :
         /\ writes \in [1..n -> PossibleWrites]
         /\ \A j, k \in 1..n : SameTopic(writes[j], writes[k]) => j = k
  BY DEF WindowWrites
<1>2. n \in Nat
  BY BoundsAssumption
<1>3. \A k \in 1..n : writes[k] \in PossibleWrites /\ writes[k] \in Write
  BY <1>1, PossibleWritesType
<1>4. writes \in [1..n -> Write]
  BY <1>1, <1>3
<1>5. writes \in Seq(Write) /\ Len(writes) = n /\ DOMAIN writes = 1..n
  BY <1>2, <1>4
<1>6. QED
  BY <1>1, <1>2, <1>3, <1>5

\* The table a commit leaves: the old rows, retired or not, then the new ones.
LEMMA CommittedRows ==
  ASSUME TypeInv, pc = "llm", NEW writes \in Seq(Write), NEW upto, NEW error,
         ApplyCuratorWindow(writes, upto, error)
  PROVE  /\ rows' \in Seq(Row)
         /\ Len(rows') = Len(rows) + Len(writes)
         /\ \A i \in 1..Len(rows) : rows'[i] = AfterCommit(i, writes)
         /\ \A k \in 1..Len(writes) : rows'[Len(rows) + k] = NewRow(writes[k])
<1> DEFINE L == Len(rows)
<1> DEFINE n == Len(writes)
<1>1. /\ rows \in Seq(Row) /\ L \in Nat /\ n \in Nat
      /\ DOMAIN writes = 1..n
      /\ \A i \in 1..L : rows[i] \in Row
      /\ \A k \in 1..n : writes[k] \in Write
  BY DEF TypeInv, TypeOK
<1>2. \A k \in 1..n : NewRow(writes[k]) \in Row
  BY <1>1 DEF NewRow, Row, Write, NoRow
<1>3. ASSUME NEW i \in 1..L
      PROVE  AfterCommit(i, writes) \in Row
  <2> DEFINE by == {k \in DOMAIN writes : i \in Targets(writes[k])}
  <2>1. CASE rows[i].status = "active" /\ by # {}
    <3>1. (CHOOSE k \in by : TRUE) \in 1..n
      BY <2>1, <1>1
    <3>2. L + (CHOOSE k \in by : TRUE) \in Nat
      BY <3>1, <1>1
    <3>3. rows[i] \in Row
      BY <1>1
    <3>4. Retire(rows[i], L + (CHOOSE k \in by : TRUE)) \in Row
      BY <3>2, <3>3 DEF Retire, Row
    <3>5. QED
      BY <2>1, <3>4 DEF AfterCommit
  <2>2. CASE ~(rows[i].status = "active" /\ by # {})
    BY <2>2, <1>1 DEF AfterCommit
  <2>3. QED
    BY <2>1, <2>2
<1>4. rows' = [i \in 1..(L + n) |-> IF i <= L THEN AfterCommit(i, writes)
                                              ELSE NewRow(writes[i - L])]
  BY DEF ApplyCuratorWindow
<1> HIDE DEF L, n
<1>5. \A i \in 1..(L + n) : rows'[i] \in Row
  <2> SUFFICES ASSUME NEW i \in 1..(L + n)
               PROVE  rows'[i] \in Row
    OBVIOUS
  <2>1. CASE i <= L
    <3>1. i \in 1..L
      BY <2>1, <1>1
    <3>2. rows'[i] = AfterCommit(i, writes)
      BY <1>4, <2>1
    <3>3. QED
      BY <3>1, <3>2, <1>3
  <2>2. CASE ~(i <= L)
    <3>1. i - L \in 1..n
      BY <2>2, <1>1
    <3>2. rows'[i] = NewRow(writes[i - L])
      BY <1>4, <2>2
    <3>3. QED
      BY <3>1, <3>2, <1>2
  <2>3. QED
    BY <2>1, <2>2
<1>6. rows' \in [1..(L + n) -> Row] /\ L + n \in Nat
  BY <1>1, <1>4, <1>5
<1>7. rows' \in Seq(Row) /\ Len(rows') = L + n
  BY <1>6
<1>8. \A i \in 1..L : rows'[i] = AfterCommit(i, writes)
  BY <1>1, <1>4
<1>9. \A k \in 1..n : rows'[L + k] = NewRow(writes[k])
  <2> SUFFICES ASSUME NEW k \in 1..n
               PROVE  rows'[L + k] = NewRow(writes[k])
    OBVIOUS
  <2>1. L + k \in 1..(L + n) /\ ~(L + k <= L) /\ (L + k) - L = k
    BY <1>1
  <2>2. QED
    BY <1>4, <2>1
<1>10. QED
  BY <1>7, <1>8, <1>9 DEF L, n

\* Counting a set of messages keeps a history a count per message.
LEMMA CountType ==
  ASSUME NEW h \in [Message -> Nat], NEW ms
  PROVE  Count(h, ms) \in [Message -> Nat]
BY DEF Count

\* A run that stops leaves well-typed locals.
LEMMA StopRunType ==
  ASSUME StopRun
  PROVE  /\ pc' \in {"idle", "loop", "llm"} /\ pc' = "idle"
         /\ force' \in BOOLEAN /\ run_counted' \in BOOLEAN
         /\ seq' \in 0..MaxMessages /\ total' \in 0..MaxMessages
         /\ window' \subseteq stored' /\ context' \subseteq stored'
         /\ active' \subseteq DOMAIN rows'
<1>1. 0 \in 0..MaxMessages
  BY BoundsAssumption
<1>2. QED
  BY <1>1 DEF StopRun

LEMMA TypeInit == Init => TypeInv
<1> SUFFICES ASSUME Init PROVE TypeInv
  OBVIOUS
<1>1. stored = {} /\ Cardinality({}) = 0
  BY FS_EmptySet DEF Init
<1>2. rows \in Seq(Row)
  BY DEF Init
<1>3. QED
  BY <1>1, <1>2, BoundsAssumption, SettingsAssumption
  DEF Init, TypeInv, TypeOK, WatermarkInStream, Errors, NoError, Message

LEMMA TypeStep == TypeInv /\ [Next]_vars => TypeInv'
<1> SUFFICES ASSUME TypeInv, [Next]_vars
             PROVE  TypeInv'
  OBVIOUS
<1> USE DEF streamVars, stateVars, runVars, history
<1>1. /\ clock \in Nat /\ stored \in SUBSET (1..clock) /\ IsFiniteSet(stored)
      /\ Cardinality(stored) \in Nat /\ Cardinality(stored) <= clock
      /\ clock <= MaxMessages
  <2>1. clock \in Nat /\ stored \in SUBSET (1..clock) /\ clock <= MaxMessages
    BY BoundsAssumption DEF TypeInv, TypeOK
  <2>2. IsFiniteSet(1..clock) /\ Cardinality(1..clock) = clock
    BY <2>1, FS_Interval
  <2>3. QED
    BY <2>1, <2>2, StoredFinite, FS_Subset
<1>2. CASE Construct
  <2>1. clock' \in 0..MaxMessages /\ stored' \subseteq 1..clock'
    BY <1>1, <1>2, BoundsAssumption DEF Construct
  <2>2. WatermarkInStream'
    BY <1>1, <1>2 DEF Construct, TypeInv, WatermarkInStream
  <2>3. TypeOK'
    BY <1>2, <2>1 DEF Construct, TypeInv, TypeOK
  <2>4. QED
    BY <2>2, <2>3 DEF TypeInv
<1>3. ASSUME NEW m \in Message, CommitMessage(m)
      PROVE  TypeInv'
  <2>1. /\ stored' \subseteq 1..clock
        /\ Cardinality(stored') = Cardinality(stored) + 1
    BY <1>1, <1>3, FS_AddElement DEF CommitMessage, InFlight
  <2>2. WatermarkInStream'
    <3>1. /\ Cardinality(stored') = Cardinality(stored) + 1
          /\ UNCHANGED <<last_message_seq, pc, seq, total, window, context>>
      BY <1>3, <2>1 DEF CommitMessage
    <3>2. pc = "llm" => seq \in Nat /\ Cardinality(window) \in Nat
      BY <1>1, StoredFinite DEF TypeInv, TypeOK
    <3>3. last_message_seq \in Nat /\ total \in Nat
      BY DEF TypeInv, TypeOK
    <3>4. QED
      BY <1>1, <3>1, <3>2, <3>3 DEF TypeInv, WatermarkInStream
  <2>3. TypeOK'
    BY <1>3, <2>1 DEF CommitMessage, TypeInv, TypeOK
  <2>4. QED
    BY <2>2, <2>3 DEF TypeInv
<1>4. ASSUME NEW f \in Forces, StartRun(f)
      PROVE  TypeInv'
  <2>1. f \in BOOLEAN /\ Cardinality(stored) \in 0..MaxMessages
    BY <1>1, SettingsAssumption, BoundsAssumption
  <2>2. ActiveRows \subseteq DOMAIN rows
    BY DEF ActiveRows
  <2>3. WatermarkInStream'
    BY <1>1, <1>4 DEF StartRun, TypeInv, WatermarkInStream
  <2>4. TypeOK'
    BY <1>4, <2>1, <2>2 DEF StartRun, TypeInv, TypeOK
  <2>5. QED
    BY <2>3, <2>4 DEF TypeInv
<1>5. CASE ReadWindow
  <2>1. seq \in Nat /\ seq < Cardinality(stored)
    BY <1>1, <1>5 DEF ReadWindow, TypeInv, TypeOK, WatermarkInStream
  <2>2. WindowMessages \in Nat /\ WindowMessages > 0 /\ ContextMessages \in Nat
    BY SettingsAssumption
  <2>3. /\ window' \in SUBSET stored /\ window' # {}
        /\ seq + Cardinality(window') <= Cardinality(stored)
    <3>1. window' = Slice(seq, WindowMessages)
      BY <1>5 DEF ReadWindow
    <3>2. /\ Slice(seq, WindowMessages) \in SUBSET stored
          /\ seq <= Cardinality(stored) =>
               seq + Cardinality(Slice(seq, WindowMessages)) <= Cardinality(stored)
          /\ seq < Cardinality(stored) /\ WindowMessages > 0
               => Slice(seq, WindowMessages) # {}
      BY <1>1, <2>1, <2>2, SliceBounds
    <3>3. QED
      BY <1>1, <2>1, <2>2, <3>1, <3>2
  <2>4. context' \in SUBSET stored /\ Cardinality(context') <= seq
    <3>1. CASE seq = 0
      BY <1>5, <3>1, FS_EmptySet DEF ReadWindow
    <3>2. CASE seq # 0 /\ seq > ContextMessages
      <4>1. context' = Slice(seq - ContextMessages, ContextMessages)
        BY <1>5, <3>2 DEF ReadWindow
      <4>2. seq - ContextMessages \in Nat
        BY <2>1, <2>2, <3>2
      <4>3. /\ context' \in SUBSET stored /\ Cardinality(context') \in Nat
            /\ Cardinality(context') <= ContextMessages
        BY <1>1, <2>2, <4>1, <4>2, SliceBounds
      <4>4. QED
        BY <2>1, <2>2, <3>2, <4>3
    <3>3. CASE seq # 0 /\ ~(seq > ContextMessages)
      <4>1. context' = Slice(0, seq)
        BY <1>5, <3>3 DEF ReadWindow
      <4>2. QED
        BY <1>1, <2>1, <4>1, SliceBounds
    <3>4. QED
      BY <3>1, <3>2, <3>3
  <2>5. WatermarkInStream'
    BY <1>1, <1>5, <2>3, <2>4 DEF ReadWindow, TypeInv, WatermarkInStream
  <2>6. TypeOK'
    BY <1>5, <2>3, <2>4 DEF ReadWindow, TypeInv, TypeOK
  <2>7. QED
    BY <2>5, <2>6 DEF TypeInv
<1>6. CASE EndRun
  <2>1. WatermarkInStream'
    BY <1>1, <1>6, StopRunType DEF EndRun, TypeInv, WatermarkInStream
  <2>3. TypeOK'
    BY <1>6, StopRunType DEF EndRun, TypeInv, TypeOK
  <2>4. QED
    BY <2>1, <2>3 DEF TypeInv
<1>7. CASE RequestRefused
  <2>1. WatermarkInStream'
    BY <1>1, <1>7, StopRunType DEF RequestRefused, TypeInv, WatermarkInStream
  <2>2. TypeOK'
    BY <1>7, StopRunType DEF RequestRefused, TypeInv, TypeOK
  <2>3. QED
    BY <2>1, <2>2 DEF TypeInv
<1>w. ASSUME pc = "llm"
      PROVE  /\ seq \in Nat /\ Cardinality(window) \in Nat
             /\ seq + Cardinality(window) \in 0..MaxMessages
             /\ seq + Cardinality(window) <= Cardinality(stored)
  <2>1. window \in SUBSET stored /\ seq \in Nat
    BY DEF TypeInv, TypeOK
  <2>2. Cardinality(window) \in Nat
    BY <1>1, <2>1, StoredFinite
  <2>3. QED
    BY <1>1, <1>w, <2>1, <2>2, BoundsAssumption DEF TypeInv, WatermarkInStream
<1>8. ASSUME NEW writes \in WindowWrites, CurateWindow(writes)
      PROVE  TypeInv'
  <2>1. pc = "llm" /\ ApplyCuratorWindow(writes, seq + Cardinality(window), NoError)
    BY <1>8 DEF CurateWindow, WindowEnd, ActiveAfter
  <2>2. /\ rows' \in Seq(Row) /\ Len(rows') = Len(rows) + Len(writes)
        /\ DOMAIN writes = 1..Len(writes) /\ Len(writes) \in Nat
    BY <2>1, WindowWritesType, CommittedRows
  <2>3. DOMAIN rows = 1..Len(rows) /\ DOMAIN rows' = 1..Len(rows') /\ Len(rows) \in Nat
    BY <2>2 DEF TypeInv, TypeOK
  <2>4. active' \subseteq DOMAIN rows'
    <3>1. active \subseteq 1..Len(rows)
      BY <2>3 DEF TypeInv, TypeOK
    <3>2. \A k \in DOMAIN writes : Len(rows) + k \in DOMAIN rows'
      BY <2>2, <2>3
    <3>3. DOMAIN rows \subseteq DOMAIN rows'
      BY <2>2, <2>3
    <3>4. active' \subseteq active \cup {Len(rows) + k : k \in DOMAIN writes}
      BY <1>8 DEF CurateWindow, WindowEnd, ActiveAfter
    <3>5. QED
      BY <2>3, <3>1, <3>2, <3>3, <3>4
  <2>5. /\ last_message_seq' = seq + Cardinality(window)
        /\ last_error_code' \in Errors \cup {NoError}
    BY <2>1 DEF ApplyCuratorWindow, TypeInv, TypeOK
  <2>6. curated' \in [Message -> Nat]
    BY <1>8, CountType DEF CurateWindow, WindowEnd, ActiveAfter, TypeInv, TypeOK
  <2>7. window_failures' \in [0..MaxMessages -> 0..(SkipAfterFailures - 1)]
    <3>1. 0 \in 0..(SkipAfterFailures - 1)
      BY SettingsAssumption
    <3>2. QED
      BY <1>8, <3>1 DEF CurateWindow, WindowEnd, ActiveAfter, TypeInv, TypeOK
  <2>8. WatermarkInStream'
    BY <1>1, <1>8, <1>w, <2>1, <2>5 DEF CurateWindow, WindowEnd, ActiveAfter, TypeInv, WatermarkInStream
  <2>9. TypeOK'
    BY <1>8, <1>w, <2>1, <2>2, <2>4, <2>5, <2>6, <2>7 DEF CurateWindow, WindowEnd, ActiveAfter, TypeInv, TypeOK
  <2>10. QED
    BY <2>8, <2>9 DEF TypeInv
<1>9. ASSUME NEW error \in Errors, FailWindow(error)
      PROVE  TypeInv'
  <2>1. failed' \in [Message -> Nat]
    BY <1>9, CountType DEF FailWindow, TypeInv, TypeOK
  <2>2. window_failures' \in [0..MaxMessages -> 0..(SkipAfterFailures - 1)]
    <3>1. CASE seq \in 0..MaxMessages
      <4>a. window_failures[seq] \in Int /\ window_failures[seq] >= 0
        BY <3>1, SettingsAssumption DEF TypeInv, TypeOK
      <4>b. Attempt < SkipAfterFailures /\ SkipAfterFailures \in Int
        BY <1>9, SettingsAssumption DEF FailWindow
      <4>1. Attempt \in 0..(SkipAfterFailures - 1)
        BY <4>a, <4>b DEF Attempt
      <4>2. QED
        BY <1>9, <4>1 DEF FailWindow, TypeInv, TypeOK
    <3>2. QED
      BY <3>1 DEF TypeInv, TypeOK
  <2>3. WatermarkInStream'
    BY <1>1, <1>9, StopRunType DEF FailWindow, BumpCuratorState, TypeInv, WatermarkInStream
  <2>4. TypeOK'
    BY <1>9, <2>1, <2>2, StopRunType DEF FailWindow, BumpCuratorState, TypeInv, TypeOK
  <2>5. QED
    BY <2>3, <2>4 DEF TypeInv
<1>10. ASSUME NEW error \in Errors, SkipWindow(error)
       PROVE  TypeInv'
  <2>1. /\ failed' \in [Message -> Nat] /\ skipped' \in [Message -> Nat]
    BY <1>10, CountType DEF SkipWindow, WindowEnd, TypeInv, TypeOK
  <2>2. window_failures' \in [0..MaxMessages -> 0..(SkipAfterFailures - 1)]
    <3>1. 0 \in 0..(SkipAfterFailures - 1)
      BY SettingsAssumption
    <3>2. QED
      BY <1>10, <3>1 DEF SkipWindow, WindowEnd, TypeInv, TypeOK
  <2>3. pc = "llm" /\ ApplyCuratorWindow(<<>>, seq + Cardinality(window), error)
    BY <1>10 DEF SkipWindow, WindowEnd
  <2>4. <<>> \in Seq(Write) /\ Len(<<>>) = 0
    OBVIOUS
  <2>5. rows' \in Seq(Row)
    BY <2>3, <2>4, CommittedRows
  <2>6. /\ last_message_seq' = seq + Cardinality(window)
        /\ last_error_code' \in Errors \cup {NoError}
    BY <2>3 DEF ApplyCuratorWindow, TypeInv, TypeOK
  <2>7. WatermarkInStream'
    BY <1>1, <1>10, <1>w, <2>3, <2>6, StopRunType DEF SkipWindow, WindowEnd, TypeInv, WatermarkInStream
  <2>8. TypeOK'
    BY <1>10, <1>w, <2>1, <2>2, <2>3, <2>5, <2>6, StopRunType
    DEF SkipWindow, WindowEnd, TypeInv, TypeOK
  <2>9. QED
    BY <2>7, <2>8 DEF TypeInv
<1>11. CASE Restart
  <2>1. WatermarkInStream'
    BY <1>1, <1>11, StopRunType DEF Restart, TypeInv, WatermarkInStream
  <2>2. /\ restarts' \in 0..MaxRestarts
        /\ window_failures' \in [0..MaxMessages -> 0..(SkipAfterFailures - 1)]
    BY <1>11, BoundsAssumption, SettingsAssumption DEF Restart, TypeInv, TypeOK
  <2>3. TypeOK'
    BY <1>11, <2>2, StopRunType DEF Restart, TypeInv, TypeOK
  <2>4. QED
    BY <2>1, <2>3 DEF TypeInv
<1>12. CASE UNCHANGED vars
  BY <1>12 DEF vars, TypeInv, TypeOK, WatermarkInStream
<1>13. QED
  BY <1>2, <1>3, <1>4, <1>5, <1>6, <1>7, <1>8, <1>9, <1>10, <1>11, <1>12
  DEF Next, CurateStep

\* Every reachable state is well typed and its watermark lies in the stream.
LEMMA TypeCorrect == Spec => []TypeInv
BY TypeInit, TypeStep, PTL DEF Spec

\* Every reachable state is well typed.
THEOREM Typing == Spec => []TypeOK
<1>1. TypeInv => TypeOK
  BY DEF TypeInv
<1>2. QED
  BY <1>1, TypeCorrect, PTL

\* The watermark never passes the end of the stream, a run works at the
\* watermark, and a window under curation is a non-empty part of what follows.
THEOREM WatermarkBounded == Spec => []WatermarkInStream
<1>1. TypeInv => WatermarkInStream
  BY DEF TypeInv
<1>2. QED
  BY <1>1, TypeCorrect, PTL

-----------------------------------------------------------------------------
(* The rows: consolidation sees every active row, so it keeps one active   *)
(* row per topic, the newest.                                              *)

RowsInv ==
    /\ RunAgreesWithStore
    /\ UniqueActive
    /\ NewestStaysActive
    /\ SupersedeHistory

\* With room for a row per topic of each kind class nothing is cut from the prompt.
LEMMA AllActivePrompted ==
  ASSUME TypeInv, active = ActiveRows, UniqueActive, EveryTopicPrompted
  PROVE  Prompted = active
<1> DEFINE K == Topics \X BOOLEAN
<1> DEFINE f == [i \in active |-> <<rows[i].topic_key, rows[i].lesson>>]
<1>1. \A i \in active : i \in Nat /\ i \in 1..Len(rows) /\ rows[i] \in Row
  BY DEF TypeInv, TypeOK
<1>2. IsFiniteSet(K) /\ Cardinality(K) = 2 * Cardinality(Topics)
  <2>1. IsFiniteSet(BOOLEAN) /\ Cardinality(BOOLEAN) = 2
    <3>2. IsFiniteSet({FALSE} \cup {TRUE}) /\ Cardinality({FALSE} \cup {TRUE}) = 2
      <4>1. IsFiniteSet({FALSE}) /\ Cardinality({FALSE}) = 1
        BY FS_Singleton
      <4>2. TRUE \notin {FALSE}
        OBVIOUS
      <4>3. Cardinality({FALSE} \cup {TRUE}) = Cardinality({FALSE}) + 1
        BY <4>1, <4>2, FS_AddElement, Zenon
      <4>4. IsFiniteSet({FALSE} \cup {TRUE})
        BY <4>1, <4>2, FS_AddElement, Zenon
      <4>5. 1 + 1 = 2
        OBVIOUS
      <4>6. QED
        BY <4>1, <4>3, <4>4, <4>5, Zenon
    <3>3. BOOLEAN = {FALSE} \cup {TRUE}
      OBVIOUS
    <3>4. QED
      BY <3>2, <3>3
  <2>2. IsFiniteSet(Topics) /\ Cardinality(Topics) \in Nat
    BY DataAssumption, FS_CardinalityType
  <2>3. IsFiniteSet(K) /\ Cardinality(K) = Cardinality(Topics) * Cardinality(BOOLEAN)
    BY <2>1, <2>2, FS_Product
  <2>4. QED
    BY <2>1, <2>2, <2>3
<1>3. f \in Injection(active, K)
  <2>1. f \in [active -> K]
    BY <1>1 DEF Row
  <2>2. ASSUME NEW i \in active, NEW j \in active, f[i] = f[j]
        PROVE  i = j
    <3>1. SameTopic(rows[i], rows[j])
      BY <2>2 DEF SameTopic
    <3>2. QED
      BY <3>1 DEF UniqueActive
  <2>3. QED
    BY <2>1, <2>2 DEF Injection, IsInjective
<1>4. IsFiniteSet(active) /\ Cardinality(active) <= Cardinality(K)
  BY <1>2, <1>3, FS_Injection
<1>5. Cardinality(active) \in Nat /\ Cardinality(active) <= MaxActive
  <2>1. Cardinality(active) \in Nat
    BY <1>4, FS_CardinalityType
  <2> HIDE DEF K
  <2>2. 2 * Cardinality(Topics) <= MaxActive
    BY DEF EveryTopicPrompted
  <2>3. Cardinality(Topics) \in Nat /\ MaxActive \in Nat
    BY DataAssumption, SettingsAssumption, FS_CardinalityType
  <2>4. Cardinality(active) <= 2 * Cardinality(Topics)
    BY <1>2, <1>4
  <2>5. QED
    BY <2>1, <2>2, <2>3, <2>4
<1>6. ASSUME NEW i \in active
      PROVE  Cardinality({j \in active : j > i}) < MaxActive
  <2> DEFINE S == {j \in active : j > i}
  <2>1. S \in SUBSET (active \ {i})
    BY <1>1
  <2>2. IsFiniteSet(active \ {i}) /\ Cardinality(active \ {i}) = Cardinality(active) - 1
    BY <1>4, FS_RemoveElement
  <2>3. IsFiniteSet(S) /\ Cardinality(S) <= Cardinality(active \ {i})
    BY <2>1, <2>2, FS_Subset
  <2>4. Cardinality(S) \in Nat
    BY <2>3, FS_CardinalityType
  <2>5. QED
    BY <1>5, <2>2, <2>3, <2>4, SettingsAssumption
<1>7. QED
  BY <1>6 DEF Prompted

\* A write supersedes the one active row of its topic, which is not newer, or
\* its topic has no active row.
LEMMA WriteSupersedesActive ==
  ASSUME TypeInv, pc = "llm", active = ActiveRows, UniqueActive, EveryTopicPrompted,
         NEW w \in PossibleWrites
  PROVE  /\ Targets(w) = {i \in active : SameTopic(rows[i], w)}
         /\ \A i \in active : SameTopic(rows[i], w) =>
               i = w.supersedes_id /\ rows[i].version <= w.version
         /\ w.supersedes_id # NoRow =>
               w.supersedes_id \in active /\ SameTopic(rows[w.supersedes_id], w)
<1>0. PICK p \in Proposals : \E i \in Priors(p) : Kept(p, i) /\ w = Versioned(p, i)
  BY DEF PossibleWrites
<1>1. PICK i \in Priors(p) : Kept(p, i) /\ w = Versioned(p, i)
  BY <1>0
<1>2. /\ w.topic_key = p.topic_key /\ w.lesson = p.lesson /\ w.supersedes_id = i
      /\ w.version = IF p.lesson /\ i # NoRow /\ rows[i].version > p.version
                       THEN rows[i].version ELSE p.version
  BY <1>1 DEF Versioned
<1>3. p.version \in Nat
  BY VersionType DEF Proposals
<1>4. \A j \in active : SameTopic(rows[j], w) <=> SameTopic(rows[j], p)
  BY <1>2 DEF SameTopic
<1>5. Prompted = active
  BY AllActivePrompted
<1>6. CASE i = NoRow
  <2>1. {j \in active : SameTopic(rows[j], p)} = {}
    <3>1. NoRow \notin active
      BY DEF NoRow, TypeInv, TypeOK
    <3>2. QED
      BY <1>5, <1>6, <3>1 DEF Priors
  <2>2. QED
    BY <1>2, <1>4, <1>6, <2>1 DEF Targets
<1>7. CASE i # NoRow
  <2>1. i \in active /\ SameTopic(rows[i], p) /\ rows[i] \in Row
    BY <1>7, PriorType DEF TypeInv
  <2>2. rows[i].version <= w.version
    <3>1. rows[i].version \in Nat
      BY <2>1 DEF Row
    <3>2. p.lesson \/ rows[i].version <= p.version
      BY <1>1, <1>3, <1>7, <3>1 DEF Kept
    <3>3. QED
      BY <1>2, <1>3, <1>7, <3>1, <3>2
  <2>3. \A j \in active : SameTopic(rows[j], w) => j = i
    <3>1. \A j \in active : SameTopic(rows[j], p) => SameTopic(rows[j], rows[i])
      BY <2>1 DEF SameTopic
    <3>2. QED
      BY <1>4, <2>1, <3>1 DEF UniqueActive
  <2>4. QED
    BY <1>2, <1>4, <1>7, <2>1, <2>2, <2>3 DEF Targets
<1>8. QED
  BY <1>6, <1>7

\* What a commit does to each row: the active row of a written topic is retired
\* by that write, every other row is left alone, and the new rows are active.
LEMMA CommitRowByRow ==
  ASSUME TypeInv, pc = "llm", active = ActiveRows, UniqueActive, EveryTopicPrompted,
         NEW writes \in WindowWrites, NEW upto, NEW error,
         ApplyCuratorWindow(writes, upto, error)
  PROVE  /\ \A i \in DOMAIN rows, k \in DOMAIN writes :
              i \in active /\ SameTopic(rows[i], writes[k])
                => rows'[i] = Retire(rows[i], Len(rows) + k)
         /\ \A i \in DOMAIN rows :
              (\A k \in DOMAIN writes : ~(i \in active /\ SameTopic(rows[i], writes[k])))
                => rows'[i] = rows[i]
         /\ \A k \in DOMAIN writes : rows'[Len(rows) + k] = NewRow(writes[k])
         /\ DOMAIN rows' = 1..(Len(rows) + Len(writes))
<1>1. /\ writes \in Seq(Write) /\ Len(writes) \in Nat /\ DOMAIN writes = 1..Len(writes)
      /\ \A k \in DOMAIN writes : writes[k] \in PossibleWrites
      /\ \A j, k \in DOMAIN writes : SameTopic(writes[j], writes[k]) => j = k
  BY WindowWritesType
<1>2. /\ rows' \in Seq(Row) /\ Len(rows') = Len(rows) + Len(writes)
      /\ \A i \in 1..Len(rows) : rows'[i] = AfterCommit(i, writes)
      /\ \A k \in 1..Len(writes) : rows'[Len(rows) + k] = NewRow(writes[k])
  BY <1>1, CommittedRows
<1>3. DOMAIN rows = 1..Len(rows) /\ DOMAIN rows' = 1..Len(rows')
  BY <1>2 DEF TypeInv, TypeOK
<1>4. \A k \in DOMAIN writes :
         Targets(writes[k]) = {i \in active : SameTopic(rows[i], writes[k])}
  BY <1>1, WriteSupersedesActive
<1>5. ASSUME NEW i \in DOMAIN rows, NEW k \in DOMAIN writes,
             i \in active, SameTopic(rows[i], writes[k])
      PROVE  rows'[i] = Retire(rows[i], Len(rows) + k)
  <2> DEFINE by == {x \in DOMAIN writes : i \in Targets(writes[x])}
  <2>1. \A x \in by : x = k
    <3>1. \A x \in by : SameTopic(rows[i], writes[x])
      BY <1>4
    <3>2. \A x \in by : SameTopic(writes[x], writes[k])
      BY <1>5, <3>1 DEF SameTopic
    <3>3. QED
      BY <1>1, <3>2
  <2>2. by = {k}
    BY <1>4, <1>5, <2>1
  <2>3. (CHOOSE x \in by : TRUE) = k
    BY <2>2
  <2>4. rows[i].status = "active"
    BY <1>5 DEF ActiveRows
  <2>5. AfterCommit(i, writes) = Retire(rows[i], Len(rows) + k)
    BY <2>2, <2>3, <2>4 DEF AfterCommit
  <2>6. QED
    BY <1>2, <1>3, <2>5
<1>6. ASSUME NEW i \in DOMAIN rows,
             \A k \in DOMAIN writes : ~(i \in active /\ SameTopic(rows[i], writes[k]))
      PROVE  rows'[i] = rows[i]
  <2>1. {x \in DOMAIN writes : i \in Targets(writes[x])} = {}
    BY <1>4, <1>6
  <2>2. AfterCommit(i, writes) = rows[i]
    BY <2>1 DEF AfterCommit
  <2>3. QED
    BY <1>2, <1>3, <2>2
<1>7. QED
  BY <1>1, <1>2, <1>3, <1>5, <1>6

\* A commit keeps one newest active row per topic and the supersede history,
\* and the run's copy follows the table.
LEMMA CommitKeepsRows ==
  ASSUME TypeInv, RowsInv, pc = "llm", EveryTopicPrompted,
         NEW writes \in WindowWrites, NEW upto, NEW error,
         ApplyCuratorWindow(writes, upto, error)
  PROVE  /\ ActiveRows' = (active \ UNION {Targets(writes[k]) : k \in DOMAIN writes})
                             \cup {Len(rows) + k : k \in DOMAIN writes}
         /\ UniqueActive' /\ NewestStaysActive' /\ SupersedeHistory'
<1> DEFINE L == Len(rows)
<1> DEFINE n == Len(writes)
<1> DEFINE Hit(i, k) == i \in active /\ SameTopic(rows[i], writes[k])
<1>1. active = ActiveRows /\ UniqueActive /\ NewestStaysActive /\ SupersedeHistory
  BY DEF RowsInv, RunAgreesWithStore
<1>2. /\ L \in Nat /\ n \in Nat /\ DOMAIN rows = 1..L /\ DOMAIN writes = 1..n
      /\ DOMAIN rows' = 1..(L + n)
  <2>1. TypeOK
    BY DEF TypeInv
  <2>2. L \in Nat /\ DOMAIN rows = 1..L
    BY <2>1 DEF TypeOK
  <2>3. n \in Nat /\ DOMAIN writes = 1..n
    BY WindowWritesType
  <2>4. DOMAIN rows' = 1..(L + n)
    BY <1>1, CommitRowByRow, ZenonT(30)
  <2> QED
    BY <2>2, <2>3, <2>4
<1>3. /\ \A k \in 1..n : writes[k] \in PossibleWrites /\ writes[k] \in Write
      /\ \A j, k \in 1..n : SameTopic(writes[j], writes[k]) => j = k
      /\ \A i \in 1..L : rows[i] \in Row
  <2>1. \A i \in 1..L : rows[i] \in Row
    BY <1>2 DEF TypeInv, TypeOK
  <2>2. /\ \A k \in DOMAIN writes : writes[k] \in PossibleWrites /\ writes[k] \in Write
        /\ \A j, k \in DOMAIN writes : SameTopic(writes[j], writes[k]) => j = k
    BY WindowWritesType
  <2> HIDE DEF L, n
  <2>3. QED
    BY <1>2, <2>1, <2>2
<1>4. \A k \in 1..n :
         /\ Targets(writes[k]) = {i \in active : SameTopic(rows[i], writes[k])}
         /\ \A i \in active : SameTopic(rows[i], writes[k]) =>
               i = writes[k].supersedes_id /\ rows[i].version <= writes[k].version
         /\ writes[k].supersedes_id # NoRow =>
               Hit(writes[k].supersedes_id, k)
  BY <1>1, <1>3, WriteSupersedesActive
<1>5. /\ \A i \in 1..L, k \in 1..n : Hit(i, k) => rows'[i] = Retire(rows[i], L + k)
      /\ \A i \in 1..L : (\A k \in 1..n : ~Hit(i, k)) => rows'[i] = rows[i]
      /\ \A k \in 1..n : rows'[L + k] = NewRow(writes[k])
  BY <1>1, <1>2, CommitRowByRow
<1>6. \A i \in active : i \in 1..L /\ rows[i].status = "active"
  BY <1>1, <1>2 DEF ActiveRows
<1>7. ASSUME NEW i \in 1..L, NEW k \in 1..n, Hit(i, k)
      PROVE  /\ rows'[i].status = "superseded"
             /\ rows'[i].superseded_by_id = L + k
             /\ rows[i].version <= writes[k].version
  <2>1. rows[i] \in Row /\ rows'[i] = Retire(rows[i], L + k)
    BY <1>3, <1>5, <1>7
  <2>2. rows'[i].status = "superseded" /\ rows'[i].superseded_by_id = L + k
    BY <2>1 DEF Retire, Row
  <2>3. QED
    BY <1>4, <1>7, <2>2 DEF Hit
<1>8. ASSUME NEW i \in 1..L
      PROVE  /\ rows'[i].topic_key = rows[i].topic_key
             /\ rows'[i].lesson = rows[i].lesson
             /\ rows'[i].version = rows[i].version
             /\ rows'[i].supersedes_id = rows[i].supersedes_id
  <2>1. CASE \A k \in 1..n : ~Hit(i, k)
    BY <1>5, <2>1
  <2>2. ASSUME NEW k \in 1..n, Hit(i, k)
        PROVE  /\ rows'[i].topic_key = rows[i].topic_key
               /\ rows'[i].lesson = rows[i].lesson
               /\ rows'[i].version = rows[i].version
               /\ rows'[i].supersedes_id = rows[i].supersedes_id
    <3>1. rows[i] \in Row /\ rows'[i] = Retire(rows[i], L + k)
      BY <1>3, <1>5, <2>2
    <3>2. QED
      BY <3>1 DEF Retire, Row
  <2>3. QED
    BY <2>1, <2>2
<1>9. ASSUME NEW k \in 1..n
      PROVE  /\ rows'[L + k].topic_key = writes[k].topic_key
             /\ rows'[L + k].lesson = writes[k].lesson
             /\ rows'[L + k].version = writes[k].version
             /\ rows'[L + k].status = "active"
             /\ rows'[L + k].supersedes_id = writes[k].supersedes_id
             /\ rows'[L + k].superseded_by_id = NoRow
  <2>1. rows'[L + k] = NewRow(writes[k])
    BY <1>5
  <2> HIDE DEF L, n, Hit
  <2>2. QED
    BY <2>1 DEF NewRow
<1>10. \A i \in 1..(L + n) : i \in 1..L \/ (\E k \in 1..n : i = L + k)
  <2> SUFFICES ASSUME NEW i \in 1..(L + n), i \notin 1..L
               PROVE  \E k \in 1..n : i = L + k
    OBVIOUS
  <2> HIDE DEF L, n
  <2>1. i - L \in 1..n /\ i = L + (i - L)
    BY <1>2
  <2>2. QED
    BY <2>1
<1> HIDE DEF L, n, Hit
<1>11. ActiveRows' = {i \in active : \A k \in 1..n : ~Hit(i, k)} \cup {L + k : k \in 1..n}
  <2> DEFINE A == {i \in active : \A k \in 1..n : ~Hit(i, k)}
  <2>1. ASSUME NEW i \in 1..L
        PROVE  rows'[i].status = "active" <=> i \in A
    <3>1. CASE \E k \in 1..n : Hit(i, k)
      BY <3>1, <1>7
    <3>2. CASE \A k \in 1..n : ~Hit(i, k)
      BY <3>2, <1>1, <1>2, <1>5 DEF ActiveRows
    <3>3. QED
      BY <3>1, <3>2
  <2>2. A \subseteq 1..L /\ \A k \in 1..n : L + k \in 1..(L + n) /\ L + k \notin 1..L
    BY <1>2, <1>6
  <2>3. 1..L \subseteq 1..(L + n)
    BY <1>2
  <2>4. ActiveRows' = {i \in 1..(L + n) : rows'[i].status = "active"}
    BY <1>2 DEF ActiveRows
  <2> HIDE DEF A
  <2>5. ASSUME NEW i
        PROVE  i \in ActiveRows' <=> i \in A \cup {L + k : k \in 1..n}
    <3>1. i \in 1..L => (i \in ActiveRows' <=> i \in A)
      BY <2>1, <2>3, <2>4
    <3>2. \A k \in 1..n : L + k \in ActiveRows'
      BY <1>9, <2>2, <2>4
    <3>3. i \in ActiveRows' => i \in 1..L \/ \E k \in 1..n : i = L + k
      BY <1>10, <2>4
    <3>4. QED
      BY <2>2, <3>1, <3>2, <3>3
  <2>6. QED
    BY <2>5 DEF A
<1>12. /\ \A i \in ActiveRows' : \/ i \in 1..L /\ i \in active /\ \A k \in 1..n : ~Hit(i, k)
                                 \/ \E k \in 1..n : i = L + k
       /\ \A k \in 1..n : L + k \in ActiveRows'
  BY <1>6, <1>11
<1>13. ActiveRows' = (active \ UNION {Targets(writes[k]) : k \in DOMAIN writes})
                       \cup {Len(rows) + k : k \in DOMAIN writes}
  <2>1. \A i \in active : (\A k \in 1..n : ~Hit(i, k))
                              <=> i \notin UNION {Targets(writes[k]) : k \in 1..n}
    BY <1>4 DEF Hit
  <2>2. QED
    BY <1>2, <1>11, <2>1 DEF L
<1>14. UniqueActive'
  <2> SUFFICES ASSUME NEW i \in ActiveRows', NEW j \in ActiveRows',
                      SameTopic(rows'[i], rows'[j])
               PROVE  i = j
    BY DEF UniqueActive, SameTopic
  <2>1. CASE i \in active /\ i \in 1..L /\ j \in active /\ j \in 1..L
    BY <1>1, <1>8, <2>1 DEF UniqueActive, SameTopic
  <2>2. ASSUME NEW k \in 1..n, i \in active, i \in 1..L, j = L + k,
               ~Hit(i, k)
        PROVE  FALSE
    BY <1>8, <1>9, <2>2 DEF Hit, SameTopic
  <2>3. ASSUME NEW k \in 1..n, j \in active, j \in 1..L, i = L + k,
               ~Hit(j, k)
        PROVE  FALSE
    BY <1>8, <1>9, <2>3 DEF Hit, SameTopic
  <2>4. ASSUME NEW k \in 1..n, NEW x \in 1..n, i = L + k, j = L + x
        PROVE  i = j
    <3>1. SameTopic(writes[k], writes[x])
      BY <1>9, <2>4 DEF SameTopic
    <3>2. QED
      BY <1>3, <2>4, <3>1
  <2>5. QED
    BY <1>12, <2>1, <2>2, <2>3, <2>4
<1>15. NewestStaysActive'
  <2> SUFFICES ASSUME NEW i \in 1..(L + n)
               PROVE  \E j \in ActiveRows' : /\ SameTopic(rows'[i], rows'[j])
                                             /\ rows'[i].version <= rows'[j].version
    BY <1>2 DEF NewestStaysActive, SameTopic
  <2>1. ASSUME NEW k \in 1..n, i = L + k
        PROVE  \E j \in ActiveRows' : /\ SameTopic(rows'[i], rows'[j])
                                      /\ rows'[i].version <= rows'[j].version
    <3>1. SameTopic(rows'[i], rows'[i])
      BY DEF SameTopic
    <3>2. rows'[i].version <= rows'[i].version
      BY <1>3, <1>9, <2>1 DEF Write
    <3>3. QED
      BY <1>12, <2>1, <3>1, <3>2
  <2>2. ASSUME i \in 1..L
        PROVE  \E j \in ActiveRows' : /\ SameTopic(rows'[i], rows'[j])
                                      /\ rows'[i].version <= rows'[j].version
    <3>1. PICK j \in active : SameTopic(rows[i], rows[j]) /\ rows[i].version <= rows[j].version
      BY <1>1, <1>2, <2>2 DEF NewestStaysActive
    <3>2. j \in 1..L /\ rows[i].version \in Nat /\ rows[j].version \in Nat
      BY <1>3, <1>6, <2>2 DEF Row
    <3>3. CASE \E k \in 1..n : Hit(j, k)
      <4>1. PICK k \in 1..n : Hit(j, k)
        BY <3>3
      <4>2. rows[j].version <= writes[k].version /\ writes[k].version \in Nat
        BY <1>3, <1>7, <3>2, <4>1 DEF Write
      <4>3. rows'[i].version <= rows'[L + k].version
        BY <1>8, <1>9, <2>2, <3>1, <3>2, <4>2
      <4>4. SameTopic(rows'[i], rows'[L + k])
        BY <1>8, <1>9, <2>2, <3>1, <4>1 DEF Hit, SameTopic
      <4>5. QED
        BY <1>12, <4>3, <4>4
    <3>4. CASE \A k \in 1..n : ~Hit(j, k)
      <4>1. j \in ActiveRows'
        BY <1>11, <3>4
      <4>2. SameTopic(rows'[i], rows'[j]) /\ rows'[i].version <= rows'[j].version
        BY <1>8, <2>2, <3>1, <3>2 DEF SameTopic
      <4>3. QED
        BY <4>1, <4>2
    <3>5. QED
      BY <3>3, <3>4
  <2>3. QED
    BY <1>10, <2>1, <2>2
<1>16. SupersedeHistory'
  <2> DEFINE OldLink(i) ==
        rows'[i].status = "superseded" =>
          /\ rows'[i].superseded_by_id \in (i + 1)..Len(rows')
          /\ SameTopic(rows'[i], rows'[rows'[i].superseded_by_id])
          /\ rows'[i].version <= rows'[rows'[i].superseded_by_id].version
  <2> DEFINE NewLink(i) ==
        rows'[i].supersedes_id # NoRow =>
          /\ rows'[i].supersedes_id \in 1..(i - 1)
          /\ rows'[rows'[i].supersedes_id].superseded_by_id = i
  <2> DEFINE Linked(i) ==
        (rows'[i].status = "superseded") <=> (rows'[i].superseded_by_id # NoRow)
  <2>l. Len(rows') = L + n
    BY <1>2, <1>3, WindowWritesType, CommittedRows DEF L, n
  <2> SUFFICES ASSUME NEW i \in 1..(L + n)
               PROVE  Linked(i) /\ OldLink(i) /\ NewLink(i)
    BY <1>2 DEF SupersedeHistory, SameTopic
  <2>h. ASSUME NEW x \in 1..L
        PROVE  /\ (rows[x].status = "superseded") <=> (rows[x].superseded_by_id # NoRow)
               /\ rows[x].status = "superseded" =>
                     /\ rows[x].superseded_by_id \in (x + 1)..L
                     /\ SameTopic(rows[x], rows[rows[x].superseded_by_id])
                     /\ rows[x].version <= rows[rows[x].superseded_by_id].version
               /\ rows[x].supersedes_id # NoRow =>
                     /\ rows[x].supersedes_id \in 1..(x - 1)
                     /\ rows[rows[x].supersedes_id].superseded_by_id = x
    BY <1>1, <1>2 DEF SupersedeHistory, L
  <2>1. ASSUME NEW k \in 1..n, i = L + k
        PROVE  Linked(i) /\ OldLink(i) /\ NewLink(i)
    <3>1. Linked(i) /\ OldLink(i)
      BY <1>9, <2>1
    <3>2. NewLink(i)
      <4> SUFFICES ASSUME rows'[i].supersedes_id # NoRow
                   PROVE  /\ rows'[i].supersedes_id \in 1..(i - 1)
                          /\ rows'[rows'[i].supersedes_id].superseded_by_id = i
        OBVIOUS
      <4> DEFINE s == writes[k].supersedes_id
      <4>1. rows'[i].supersedes_id = s
        BY <1>9, <2>1
      <4>2. Hit(s, k) /\ s \in 1..L
        BY <1>4, <1>6, <4>1 DEF Hit
      <4>3. rows'[s].superseded_by_id = L + k
        BY <1>7, <4>2
      <4> HIDE DEF s
      <4>4. s \in 1..(i - 1)
        BY <1>2, <2>1, <4>2
      <4>5. QED
        BY <2>1, <4>1, <4>3, <4>4
    <3>3. QED
      BY <3>1, <3>2
  <2>2. ASSUME i \in 1..L
        PROVE  Linked(i) /\ OldLink(i)
    <3>1. ASSUME NEW k \in 1..n, Hit(i, k)
          PROVE  Linked(i) /\ OldLink(i)
      <4>1. rows'[i].status = "superseded" /\ rows'[i].superseded_by_id = L + k
        BY <1>7, <2>2, <3>1
      <4>2. L + k # NoRow /\ L + k \in (i + 1)..(L + n)
        BY <1>2, <2>2 DEF NoRow
      <4>3. SameTopic(rows'[i], rows'[L + k])
        BY <1>8, <1>9, <2>2, <3>1 DEF Hit, SameTopic
      <4>4. rows'[i].version <= rows'[L + k].version
        BY <1>7, <1>8, <1>9, <2>2, <3>1
      <4>5. QED
        BY <2>l, <4>1, <4>2, <4>3, <4>4
    <3>2. ASSUME \A k \in 1..n : ~Hit(i, k)
          PROVE  Linked(i) /\ OldLink(i)
      <4>1. rows'[i] = rows[i]
        BY <1>5, <2>2, <3>2
      <4>2. Linked(i)
        BY <2>2, <2>h, <4>1
      <4>3. OldLink(i)
        <5> SUFFICES ASSUME rows[i].status = "superseded"
                     PROVE  OldLink(i)
          BY <4>1
        <5> DEFINE j == rows[i].superseded_by_id
        <5>1. j \in (i + 1)..L /\ SameTopic(rows[i], rows[j]) /\ rows[i].version <= rows[j].version
          BY <2>2, <2>h
        <5>2. rows'[i].superseded_by_id = j
          BY <4>1
        <5> HIDE DEF j
        <5>3. j \in 1..L /\ j \in (i + 1)..(L + n)
          BY <1>2, <2>2, <5>1
        <5>4. SameTopic(rows'[i], rows'[j]) /\ rows'[i].version <= rows'[j].version
          BY <1>8, <2>2, <5>1, <5>3 DEF SameTopic
        <5>5. QED
          BY <2>l, <5>2, <5>3, <5>4
      <4>4. QED
        BY <4>2, <4>3
    <3>3. QED
      BY <3>1, <3>2
  <2>3. ASSUME i \in 1..L
        PROVE  NewLink(i)
    <3> SUFFICES ASSUME rows'[i].supersedes_id # NoRow
                 PROVE  /\ rows'[i].supersedes_id \in 1..(i - 1)
                        /\ rows'[rows'[i].supersedes_id].superseded_by_id = i
      OBVIOUS
    <3> DEFINE s == rows[i].supersedes_id
    <3>1. rows'[i].supersedes_id = s
      BY <1>8, <2>3
    <3>2. s \in 1..(i - 1) /\ rows[s].superseded_by_id = i
      BY <2>3, <2>h, <3>1
    <3> HIDE DEF s
    <3>3. s \in 1..L /\ i # NoRow
      BY <1>2, <2>3, <3>2 DEF NoRow
    <3>4. rows[s].status = "superseded"
      BY <2>h, <3>2, <3>3
    <3>5. s \notin active
      BY <1>6, <3>4
    <3>6. rows'[s] = rows[s]
      BY <1>5, <3>3, <3>5 DEF Hit
    <3>7. QED
      BY <3>1, <3>2, <3>6
  <2>4. QED
    BY <1>10, <2>1, <2>2, <2>3
<1>17. QED
  BY <1>13, <1>14, <1>15, <1>16

LEMMA RowsInit == Init => RowsInv
<1> SUFFICES ASSUME Init PROVE RowsInv
  OBVIOUS
<1>1. rows = <<>> /\ pc = "idle" /\ DOMAIN rows = {}
  BY DEF Init
<1>2. QED
  BY <1>1
  DEF RowsInv, RunAgreesWithStore, UniqueActive, NewestStaysActive, SupersedeHistory, ActiveRows

\* A step that leaves the table alone leaves what is said of it alone.
LEMMA RowsUnchanged ==
  ASSUME RowsInv, UNCHANGED rows
  PROVE  /\ UniqueActive' /\ NewestStaysActive' /\ SupersedeHistory'
         /\ ActiveRows' = ActiveRows
BY DEF RowsInv, UniqueActive, NewestStaysActive, SupersedeHistory, ActiveRows, SameTopic

\* A reply may bring nothing.
LEMMA EmptyReply == <<>> \in WindowWrites
<1>1. 0 \in 0..MaxWrites /\ <<>> \in [1..0 -> PossibleWrites]
  BY BoundsAssumption
<1>2. \A i, j \in 1..0 : SameTopic(<<>>[i], <<>>[j]) => i = j
  OBVIOUS
<1>3. QED
  BY <1>1, <1>2 DEF WindowWrites

LEMMA RowsStep ==
  ASSUME EveryTopicPrompted
  PROVE  TypeInv /\ RowsInv /\ [Next]_vars => RowsInv'
<1> SUFFICES ASSUME TypeInv, RowsInv, [Next]_vars
             PROVE  RowsInv'
  OBVIOUS
<1> USE DEF streamVars, stateVars, runVars, history
<1>1. ASSUME UNCHANGED rows, RunAgreesWithStore'
      PROVE  RowsInv'
  BY <1>1, RowsUnchanged DEF RowsInv
<1>2. ASSUME UNCHANGED rows, UNCHANGED <<pc, active, seq, last_message_seq>>
      PROVE  RowsInv'
  <2>1. RunAgreesWithStore'
    BY <1>2, RowsUnchanged DEF RowsInv, RunAgreesWithStore
  <2>2. QED
    BY <1>1, <1>2, <2>1
<1>3. ASSUME UNCHANGED rows, StopRun
      PROVE  RowsInv'
  <2>1. RunAgreesWithStore'
    BY <1>3 DEF StopRun, RunAgreesWithStore
  <2>2. QED
    BY <1>1, <1>3, <2>1
<1>4. CASE Construct
  BY <1>2, <1>4 DEF Construct
<1>5. ASSUME NEW m \in Message, CommitMessage(m)
      PROVE  RowsInv'
  BY <1>2, <1>5 DEF CommitMessage
<1>6. ASSUME NEW f \in Forces, StartRun(f)
      PROVE  RowsInv'
  <2>1. RunAgreesWithStore'
    BY <1>6, RowsUnchanged DEF StartRun, RunAgreesWithStore
  <2>2. QED
    BY <1>1, <1>6, <2>1 DEF StartRun
<1>7. CASE ReadWindow
  <2>1. RunAgreesWithStore'
    BY <1>7, RowsUnchanged DEF ReadWindow, RowsInv, RunAgreesWithStore
  <2>2. QED
    BY <1>1, <1>7, <2>1 DEF ReadWindow
<1>8. CASE EndRun
  BY <1>3, <1>8 DEF EndRun
<1>9. CASE RequestRefused
  BY <1>3, <1>9 DEF RequestRefused
<1>10. ASSUME NEW writes \in WindowWrites, CurateWindow(writes)
       PROVE  RowsInv'
  <2>1. pc = "llm" /\ ApplyCuratorWindow(writes, seq + Cardinality(window), NoError)
    BY <1>10 DEF CurateWindow, WindowEnd, ActiveAfter
  <2>2. /\ ActiveRows' = (active \ UNION {Targets(writes[k]) : k \in DOMAIN writes})
                             \cup {Len(rows) + k : k \in DOMAIN writes}
        /\ UniqueActive' /\ NewestStaysActive' /\ SupersedeHistory'
    BY <2>1, CommitKeepsRows
  <2>3. RunAgreesWithStore'
    BY <1>10, <2>2 DEF CurateWindow, WindowEnd, ActiveAfter, ApplyCuratorWindow, RunAgreesWithStore
  <2>4. QED
    BY <2>2, <2>3 DEF RowsInv
<1>11. ASSUME NEW error \in Errors, FailWindow(error)
       PROVE  RowsInv'
  BY <1>3, <1>11 DEF FailWindow, BumpCuratorState
<1>12. ASSUME NEW error \in Errors, SkipWindow(error)
       PROVE  RowsInv'
  <2>1. pc = "llm" /\ ApplyCuratorWindow(<<>>, seq + Cardinality(window), error) /\ StopRun
    BY <1>12 DEF SkipWindow, WindowEnd
  <2>2. <<>> \in WindowWrites
    BY EmptyReply
  <2>3. UniqueActive' /\ NewestStaysActive' /\ SupersedeHistory'
    BY <2>1, <2>2, CommitKeepsRows
  <2>4. RunAgreesWithStore'
    BY <2>1 DEF StopRun, RunAgreesWithStore
  <2>5. QED
    BY <2>3, <2>4 DEF RowsInv
<1>13. CASE Restart
  BY <1>3, <1>13 DEF Restart
<1>14. CASE UNCHANGED vars
  BY <1>2, <1>14 DEF vars
<1>15. QED
  BY <1>4, <1>5, <1>6, <1>7, <1>8, <1>9, <1>10, <1>11, <1>12, <1>13, <1>14
  DEF Next, CurateStep

\* Where no active row is cut from the prompt, every reachable state has at most
\* one active row per topic and kind class, the newest of its topic, an acyclic
\* supersede history, and a run that works on exactly the store's active rows.
LEMMA RowsCorrect ==
  ASSUME EveryTopicPrompted
  PROVE  Spec => [](TypeInv /\ RowsInv)
<1>1. Init => TypeInv /\ RowsInv
  BY TypeInit, RowsInit
<1>2. (TypeInv /\ RowsInv) /\ [Next]_vars => (TypeInv /\ RowsInv)'
  BY TypeStep, RowsStep
<1>3. QED
  BY <1>1, <1>2, PTL DEF Spec

\* While a run is on, its hand-maintained copy of the active rows and of the
\* watermark is the store's (run_session, session_curator.py).
THEOREM RunMirrorsStore ==
  ASSUME EveryTopicPrompted
  PROVE  Spec => []RunAgreesWithStore
<1>1. TypeInv /\ RowsInv => RunAgreesWithStore
  BY DEF RowsInv
<1>2. QED
  BY <1>1, RowsCorrect, PTL

\* A topic of a kind class never has two active rows.
THEOREM OneActivePerTopic ==
  ASSUME EveryTopicPrompted
  PROVE  Spec => []UniqueActive
<1>1. TypeInv /\ RowsInv => UniqueActive
  BY DEF RowsInv
<1>2. QED
  BY <1>1, RowsCorrect, PTL

\* The active row of a topic is at least as new as every row it ever had.
THEOREM NewestStays ==
  ASSUME EveryTopicPrompted
  PROVE  Spec => []NewestStaysActive
<1>1. TypeInv /\ RowsInv => NewestStaysActive
  BY DEF RowsInv
<1>2. QED
  BY <1>1, RowsCorrect, PTL

\* The supersede links lead from each retired row to the row that retired it,
\* later, of the same topic and not older, and back.
THEOREM HistoryIsLinked ==
  ASSUME EveryTopicPrompted
  PROVE  Spec => []SupersedeHistory
<1>1. TypeInv /\ RowsInv => SupersedeHistory
  BY DEF RowsInv
<1>2. QED
  BY <1>1, RowsCorrect, PTL

-----------------------------------------------------------------------------
(* The stream, when messages are committed in the order of created_at:     *)
(* positions are the messages' own numbers, so a window is the next        *)
(* interval of them and the watermark splits the history in two.           *)

StreamInv ==
    /\ stored = 1..Cardinality(stored)
    /\ clock <= Cardinality(stored) + 1
    /\ pc = "llm" => window = (seq + 1)..(seq + Cardinality(window))

HistoryInv ==
    /\ \A m \in Message :
         curated[m] + skipped[m] = IF m <= last_message_seq THEN 1 ELSE 0
    /\ \A s \in 0..MaxMessages :
         s + 1 \in Message => window_failures[s] <= failed[s + 1]

\* A prefix of the numbers is its own order of positions.
LEMMA PrefixPositions ==
  ASSUME NEW n \in Nat, stored = 1..n
  PROVE  /\ Cardinality(stored) = n
         /\ \A m \in stored : Position(m) = m
<1>1. Cardinality(stored) = n
  BY FS_Interval
<1>2. ASSUME NEW m \in stored
      PROVE  Position(m) = m
  <2>1. m \in Nat /\ {x \in stored : x <= m} = 1..m
    OBVIOUS
  <2>2. Cardinality(1..m) = m
    BY <2>1, FS_Interval
  <2>3. QED
    BY <2>1, <2>2 DEF Position
<1>3. QED
  BY <1>1, <1>2

\* OFFSET and LIMIT of a prefix: the next interval.
LEMMA PrefixSlice ==
  ASSUME NEW n \in Nat, stored = 1..n,
         NEW after \in Nat, NEW limit \in Nat, after <= n
  PROVE  Slice(after, limit) = (after + 1)..(after + Cardinality(Slice(after, limit)))
<1> DEFINE hi == IF after + limit <= n THEN after + limit ELSE n
<1>1. \A m \in stored : Position(m) = m
  BY PrefixPositions
<1>2. Slice(after, limit) = (after + 1)..hi
  BY <1>1 DEF Slice
<1>3. hi \in Nat /\ after <= hi
  OBVIOUS
<1> HIDE DEF hi
<1>4. Cardinality((after + 1)..hi) = hi - after
  <2>1. Cardinality((after + 1)..hi) = IF after + 1 > hi THEN 0 ELSE hi - (after + 1) + 1
    BY <1>3, FS_Interval
  <2>2. QED
    BY <1>3, <2>1
<1>5. QED
  BY <1>2, <1>3, <1>4

LEMMA StreamInit == Init => StreamInv /\ HistoryInv
<1> SUFFICES ASSUME Init PROVE StreamInv /\ HistoryInv
  OBVIOUS
<1>1. stored = {} /\ Cardinality({}) = 0
  BY FS_EmptySet DEF Init
<1>2. StreamInv
  BY <1>1 DEF Init, StreamInv
<1>3. HistoryInv
  BY BoundsAssumption DEF Init, HistoryInv, Message
<1>4. QED
  BY <1>2, <1>3

LEMMA StreamStep ==
  ASSUME SequentialIngest
  PROVE  TypeInv /\ StreamInv /\ [Next]_vars => StreamInv'
<1> SUFFICES ASSUME TypeInv, StreamInv, [Next]_vars
             PROVE  StreamInv'
  OBVIOUS
<1> USE DEF streamVars, stateVars, runVars, history
<1> DEFINE n == Cardinality(stored)
<1>1. /\ clock \in Nat /\ stored \in SUBSET (1..clock) /\ n \in Nat
      /\ stored = 1..n /\ clock <= n + 1 /\ IsFiniteSet(stored)
  BY BoundsAssumption, StoredFinite DEF TypeInv, TypeOK, StreamInv
<1>2. ASSUME UNCHANGED streamVars, pc' # "llm"
      PROVE  StreamInv'
  BY <1>1, <1>2 DEF StreamInv
<1>3. CASE Construct
  <2>1. Cardinality(InFlight) < 1 /\ clock' = clock + 1
    BY <1>3 DEF Construct, SequentialIngest
  <2>2. IsFiniteSet(InFlight) /\ Cardinality(InFlight) \in Nat
    <3>1. IsFiniteSet(1..clock)
      BY <1>1, FS_Interval
    <3>2. QED
      BY <3>1, FS_Subset, FS_CardinalityType DEF InFlight
  <2>3. InFlight = {}
    BY <2>1, <2>2, FS_EmptySet
  <2>4. 1..clock \subseteq 1..n
    BY <1>1, <2>3 DEF InFlight
  <2> HIDE DEF n
  <2>5. clock <= n
    BY <1>1, <2>4
  <2>6. QED
    BY <1>1, <1>3, <2>1, <2>5 DEF Construct, StreamInv, n
<1>4. ASSUME NEW m \in Message, CommitMessage(m)
      PROVE  StreamInv'
  <2>1. m \in 1..clock /\ m \notin 1..n
    BY <1>1, <1>4 DEF CommitMessage, InFlight
  <2>2. m = n + 1
    <3> HIDE DEF n
    <3>1. QED
      BY <1>1, <2>1
  <2>3. stored' = 1..(n + 1)
    <3> HIDE DEF n
    <3>1. QED
      BY <1>1, <1>4, <2>2 DEF CommitMessage
  <2>4. Cardinality(stored') = n + 1
    BY <1>1, <2>3, FS_Interval
  <2>5. UNCHANGED <<clock, pc, window, seq>>
    BY <1>4 DEF CommitMessage
  <2>6. QED
    BY <1>1, <2>3, <2>4, <2>5 DEF StreamInv
<1>5. ASSUME NEW f \in Forces, StartRun(f)
      PROVE  StreamInv'
  BY <1>2, <1>5 DEF StartRun
<1>6. CASE ReadWindow
  <2>1. seq \in Nat /\ seq < n /\ WindowMessages \in Nat
    BY <1>1, <1>6, SettingsAssumption
    DEF ReadWindow, TypeInv, TypeOK, WatermarkInStream
  <2>2. Slice(seq, WindowMessages)
          = (seq + 1)..(seq + Cardinality(Slice(seq, WindowMessages)))
    BY <1>1, <2>1, PrefixSlice
  <2>3. QED
    BY <1>1, <1>6, <2>2 DEF ReadWindow, StreamInv
<1>7. CASE EndRun
  BY <1>2, <1>7 DEF EndRun, StopRun
<1>8. CASE RequestRefused
  BY <1>2, <1>8 DEF RequestRefused, StopRun
<1>9. ASSUME NEW writes \in WindowWrites, CurateWindow(writes)
      PROVE  StreamInv'
  BY <1>2, <1>9 DEF CurateWindow
<1>10. ASSUME NEW error \in Errors, FailWindow(error)
       PROVE  StreamInv'
  BY <1>2, <1>10 DEF FailWindow, StopRun
<1>11. ASSUME NEW error \in Errors, SkipWindow(error)
       PROVE  StreamInv'
  BY <1>2, <1>11 DEF SkipWindow, StopRun
<1>12. CASE Restart
  BY <1>2, <1>12 DEF Restart, StopRun
<1>13. CASE UNCHANGED vars
  BY <1>13 DEF vars, StreamInv
<1>14. QED
  BY <1>3, <1>4, <1>5, <1>6, <1>7, <1>8, <1>9, <1>10, <1>11, <1>12, <1>13
  DEF Next, CurateStep

\* What a window under curation is, with the history of its messages.
LEMMA WindowMessagesNext ==
  ASSUME TypeInv, StreamInv, HistoryInv, pc = "llm"
  PROVE  /\ seq \in Nat /\ Cardinality(window) \in Nat /\ Cardinality(window) > 0
         /\ seq = last_message_seq
         /\ window = (seq + 1)..WindowEnd /\ WindowEnd \in Nat /\ WindowEnd <= MaxMessages
         /\ window \subseteq Message
         /\ \A m \in window : curated[m] + skipped[m] = 0
         /\ seq + 1 \in window /\ seq + 1 \in Message /\ seq \in 0..MaxMessages
<1>1. /\ clock \in Nat /\ stored \in SUBSET (1..clock) /\ clock <= MaxMessages
      /\ window \in SUBSET stored /\ seq \in Nat /\ window # {}
      /\ MaxMessages \in Nat /\ seq \in 0..MaxMessages
  BY BoundsAssumption DEF TypeInv, TypeOK, WatermarkInStream
<1>2. IsFiniteSet(window) /\ Cardinality(window) \in Nat
  BY <1>1, StoredFinite
<1>3. Cardinality(window) > 0
  <2>1. Cardinality(window) # 0
    BY <1>1, <1>2, FS_EmptySet
  <2>2. QED
    BY <1>2, <2>1
<1>4. window = (seq + 1)..WindowEnd /\ WindowEnd = seq + Cardinality(window)
  BY DEF StreamInv, WindowEnd
<1>5. seq + 1 \in window
  BY <1>1, <1>2, <1>3, <1>4
<1>6. window \subseteq Message
  BY <1>1 DEF Message
<1>7. seq = last_message_seq
  BY DEF TypeInv, WatermarkInStream
<1>8. \A m \in window : curated[m] + skipped[m] = 0
  <2> SUFFICES ASSUME NEW m \in window
               PROVE  curated[m] + skipped[m] = 0
    OBVIOUS
  <2>1. m \in Message /\ ~(m <= last_message_seq)
    BY <1>1, <1>4, <1>6, <1>7
  <2>2. QED
    BY <2>1 DEF HistoryInv
<1>9. WindowEnd <= MaxMessages /\ WindowEnd \in Nat
  <2>1. WindowEnd \in window
    BY <1>1, <1>2, <1>3, <1>4
  <2>2. QED
    BY <1>1, <1>2, <1>4, <1>6, <2>1 DEF Message
<1>10. QED
  BY <1>1, <1>2, <1>3, <1>4, <1>5, <1>6, <1>7, <1>8, <1>9

\* A committed or skipped window moves its messages, and no other, from not
\* consumed to consumed once.
LEMMA ConsumeOnce ==
  ASSUME TypeInv, StreamInv, HistoryInv, pc = "llm", last_message_seq' = WindowEnd,
         \/ curated' = Count(curated, window) /\ skipped' = skipped
         \/ skipped' = Count(skipped, window) /\ curated' = curated
  PROVE  \A m \in Message :
           curated'[m] + skipped'[m] = IF m <= last_message_seq' THEN 1 ELSE 0
<1> SUFFICES ASSUME NEW m \in Message
             PROVE  curated'[m] + skipped'[m] = IF m <= last_message_seq' THEN 1 ELSE 0
  OBVIOUS
<1>1. curated[m] \in Nat /\ skipped[m] \in Nat /\ m \in Int
  BY BoundsAssumption DEF TypeInv, TypeOK, Message
<1>2. curated'[m] + skipped'[m]
        = IF m \in window THEN curated[m] + skipped[m] + 1 ELSE curated[m] + skipped[m]
  BY <1>1 DEF Count
<1>3. /\ seq \in Nat /\ seq = last_message_seq /\ seq <= WindowEnd /\ WindowEnd \in Nat
      /\ window = (seq + 1)..WindowEnd
      /\ \A x \in window : curated[x] + skipped[x] = 0
  BY WindowMessagesNext
<1>4. CASE m \in window
  BY <1>1, <1>2, <1>3, <1>4
<1>5. CASE m \notin window
  <2>1. curated[m] + skipped[m] = IF m <= last_message_seq THEN 1 ELSE 0
    BY DEF HistoryInv
  <2>2. (m <= last_message_seq) <=> (m <= WindowEnd)
    BY <1>1, <1>3, <1>5
  <2>3. QED
    BY <1>2, <1>5, <2>1, <2>2
<1>6. QED
  BY <1>4, <1>5

LEMMA HistoryStep ==
  TypeInv /\ StreamInv /\ HistoryInv /\ [Next]_vars => HistoryInv'
<1> SUFFICES ASSUME TypeInv, StreamInv, HistoryInv, [Next]_vars
             PROVE  HistoryInv'
  OBVIOUS
<1> USE DEF streamVars, stateVars, runVars, history
<1> DEFINE Once == \A m \in Message :
                     curated[m] + skipped[m] = IF m <= last_message_seq THEN 1 ELSE 0
<1> DEFINE Counted == \A s \in 0..MaxMessages :
                     s + 1 \in Message => window_failures[s] <= failed[s + 1]
<1>1. Once /\ Counted /\ (Once' /\ Counted' => HistoryInv')
  BY DEF HistoryInv
<1>2. ASSUME UNCHANGED <<history, last_message_seq, window_failures>>
      PROVE  HistoryInv'
  BY <1>2 DEF HistoryInv
<1>3. CASE Construct
  BY <1>2, <1>3 DEF Construct
<1>4. ASSUME NEW m \in Message, CommitMessage(m)
      PROVE  HistoryInv'
  BY <1>2, <1>4 DEF CommitMessage
<1>5. ASSUME NEW f \in Forces, StartRun(f)
      PROVE  HistoryInv'
  BY <1>2, <1>5 DEF StartRun
<1>6. CASE ReadWindow
  BY <1>2, <1>6 DEF ReadWindow
<1>7. CASE EndRun
  BY <1>2, <1>7 DEF EndRun
<1>8. CASE RequestRefused
  BY <1>2, <1>8 DEF RequestRefused
<1>t. \A s \in 0..MaxMessages : s + 1 \in Message =>
         /\ window_failures[s] \in Int /\ failed[s + 1] \in Nat
         /\ window_failures[s] <= failed[s + 1]
  <2>1. SkipAfterFailures \in Int
    BY SettingsAssumption
  <2>2. /\ window_failures \in [0..MaxMessages -> 0..(SkipAfterFailures - 1)]
        /\ failed \in [Message -> Nat]
    BY DEF TypeInv, TypeOK
  <2>3. \A s \in 0..MaxMessages : window_failures[s] \in Int
    BY <2>1, <2>2
  <2>4. QED
    BY <1>1, <2>2, <2>3
<1>r. ASSUME NEW h, h = failed \/ h = Count(failed, window), pc = "llm",
             failed' = h,
             window_failures' = [window_failures EXCEPT ![seq] = 0]
      PROVE  Counted'
  <2> SUFFICES ASSUME NEW s \in 0..MaxMessages, s + 1 \in Message
               PROVE  window_failures'[s] <= failed'[s + 1]
    OBVIOUS
  <2>1. failed'[s + 1] \in Nat /\ failed'[s + 1] >= failed[s + 1]
    BY <1>r, <1>t DEF Count
  <2>2. window_failures'[s] = IF s = seq THEN 0 ELSE window_failures[s]
    BY <1>r DEF TypeInv, TypeOK
  <2>3. QED
    BY <1>t, <2>1, <2>2
<1>9. ASSUME NEW writes \in WindowWrites, CurateWindow(writes)
      PROVE  HistoryInv'
  <2>1. /\ pc = "llm" /\ last_message_seq' = WindowEnd
        /\ curated' = Count(curated, window) /\ skipped' = skipped /\ failed' = failed
        /\ window_failures' = [window_failures EXCEPT ![seq] = 0]
    BY <1>9 DEF CurateWindow, ApplyCuratorWindow
  <2>2. Once'
    BY <2>1, ConsumeOnce
  <2>3. Counted'
    BY <2>1, <1>r
  <2>4. QED
    BY <1>1, <2>2, <2>3
<1>10. ASSUME NEW error \in Errors, FailWindow(error)
       PROVE  HistoryInv'
  <2>1. /\ pc = "llm" /\ UNCHANGED <<last_message_seq, curated, skipped>>
        /\ failed' = Count(failed, window)
        /\ window_failures' = [window_failures EXCEPT ![seq] = Attempt]
    BY <1>10 DEF FailWindow, BumpCuratorState
  <2>2. Once'
    BY <1>1, <2>1
  <2>3. seq + 1 \in window /\ seq \in Nat
    BY <2>1, WindowMessagesNext
  <2>4. Counted'
    <3> SUFFICES ASSUME NEW s \in 0..MaxMessages, s + 1 \in Message
                 PROVE  window_failures'[s] <= failed'[s + 1]
      OBVIOUS
    <3>1. failed'[s + 1] = IF s + 1 \in window THEN failed[s + 1] + 1 ELSE failed[s + 1]
      BY <2>1 DEF Count
    <3>2. window_failures'[s] = IF s = seq THEN window_failures[s] + 1 ELSE window_failures[s]
      BY <2>1 DEF TypeInv, TypeOK, Attempt
    <3>3. QED
      BY <1>t, <2>3, <3>1, <3>2
  <2>5. QED
    BY <1>1, <2>2, <2>4
<1>11. ASSUME NEW error \in Errors, SkipWindow(error)
       PROVE  HistoryInv'
  <2>1. /\ pc = "llm" /\ last_message_seq' = WindowEnd
        /\ skipped' = Count(skipped, window) /\ curated' = curated
        /\ failed' = Count(failed, window)
        /\ window_failures' = [window_failures EXCEPT ![seq] = 0]
    BY <1>11 DEF SkipWindow, ApplyCuratorWindow
  <2>2. Once'
    BY <2>1, ConsumeOnce
  <2>3. Counted'
    BY <2>1, <1>r
  <2>4. QED
    BY <1>1, <2>2, <2>3
<1>12. CASE Restart
  <2>1. Once'
    BY <1>1, <1>12 DEF Restart
  <2>2. Counted'
    BY <1>12, <1>t DEF Restart
  <2>3. QED
    BY <1>1, <2>1, <2>2
<1>13. CASE UNCHANGED vars
  BY <1>2, <1>13 DEF vars
<1>14. QED
  BY <1>3, <1>4, <1>5, <1>6, <1>7, <1>8, <1>9, <1>10, <1>11, <1>12, <1>13
  DEF Next, CurateStep

\* Every message before the watermark was curated or skipped, once, and none
\* after it: no message is lost or curated twice across retries and restarts.
THEOREM ConsumedOnce ==
  ASSUME SequentialIngest
  PROVE  Spec => []ConsumedExactlyOnce
<1>1. Init => TypeInv /\ StreamInv /\ HistoryInv
  BY TypeInit, StreamInit
<1>2. (TypeInv /\ StreamInv /\ HistoryInv) /\ [Next]_vars
         => (TypeInv /\ StreamInv /\ HistoryInv)'
  BY TypeStep, StreamStep, HistoryStep
<1>3. TypeInv /\ StreamInv /\ HistoryInv => ConsumedExactlyOnce
  <2> SUFFICES ASSUME TypeInv, StreamInv, HistoryInv, NEW m \in stored
               PROVE  curated[m] + skipped[m]
                        = IF Position(m) <= last_message_seq THEN 1 ELSE 0
    BY DEF ConsumedExactlyOnce
  <2>1. /\ clock \in Nat /\ stored \in SUBSET (1..clock) /\ clock <= MaxMessages
        /\ MaxMessages \in Nat /\ stored = 1..Cardinality(stored)
    BY BoundsAssumption DEF TypeInv, TypeOK, StreamInv
  <2>2. Cardinality(stored) \in Nat
    BY <2>1, StoredFinite
  <2>3. Position(m) = m
    BY <2>1, <2>2, PrefixPositions
  <2>4. m \in Message
    BY <2>1 DEF Message
  <2>5. QED
    BY <2>3, <2>4 DEF HistoryInv
<1>4. QED
  BY <1>1, <1>2, <1>3, PTL DEF Spec

\* A window is given up only after SkipAfterFailures failed attempts at its
\* oldest message.
THEOREM SkipAfterEnough ==
  ASSUME SequentialIngest
  PROVE  Spec => SkipFollowsFailures
<1> DEFINE Enough ==
      \A m \in Message :
        (skipped'[m] > skipped[m] /\ \A x \in window : m <= x)
          => failed'[m] >= SkipAfterFailures
<1>1. Init => TypeInv /\ StreamInv /\ HistoryInv
  BY TypeInit, StreamInit
<1>2. (TypeInv /\ StreamInv /\ HistoryInv) /\ [Next]_vars
         => (TypeInv /\ StreamInv /\ HistoryInv)'
  BY TypeStep, StreamStep, HistoryStep
<1>3. TypeInv /\ StreamInv /\ HistoryInv /\ [Next]_vars => [Enough]_vars
  <2> SUFFICES ASSUME TypeInv, StreamInv, HistoryInv, Next
               PROVE  Enough
    OBVIOUS
  <2> USE DEF streamVars, stateVars, runVars, history
  <2>1. ASSUME skipped' = skipped
        PROVE  Enough
    <3>1. \A m \in Message : skipped[m] \in Nat
      BY DEF TypeInv, TypeOK
    <3>2. QED
      BY <2>1, <3>1
  <2>2. ASSUME NEW error \in Errors, SkipWindow(error)
        PROVE  Enough
    <3> SUFFICES ASSUME NEW m \in Message, skipped'[m] > skipped[m],
                        \A x \in window : m <= x
                 PROVE  failed'[m] >= SkipAfterFailures
      OBVIOUS
    <3>1. /\ pc = "llm" /\ skipped' = Count(skipped, window)
          /\ failed' = Count(failed, window) /\ Attempt >= SkipAfterFailures
      BY <2>2 DEF SkipWindow
    <3>2. skipped[m] \in Nat /\ failed[m] \in Nat
      BY DEF TypeInv, TypeOK
    <3>3. m \in window
      BY <3>1, <3>2 DEF Count
    <3>4. /\ window = (seq + 1)..WindowEnd /\ seq \in 0..MaxMessages /\ WindowEnd \in Nat
          /\ seq + 1 \in window
      BY <3>1, WindowMessagesNext
    <3>5. m = seq + 1 /\ m \in Nat
      BY <3>3, <3>4
    <3>6. failed'[m] = failed[m] + 1
      BY <3>1, <3>3 DEF Count
    <3>7. window_failures[seq] <= failed[m] /\ window_failures[seq] \in Int
      <4>1. SkipAfterFailures \in Int
        BY SettingsAssumption
      <4>2. QED
        BY <3>4, <3>5, <4>1 DEF HistoryInv, TypeInv, TypeOK
    <3>8. QED
      BY <3>1, <3>2, <3>6, <3>7, SettingsAssumption DEF Attempt
  <2>3. ASSUME NEW m \in Message, CommitMessage(m) PROVE Enough
    BY <2>1, <2>3 DEF CommitMessage
  <2>4. ASSUME NEW f \in Forces, StartRun(f) PROVE Enough
    BY <2>1, <2>4 DEF StartRun
  <2>5. ASSUME NEW writes \in WindowWrites, CurateWindow(writes) PROVE Enough
    BY <2>1, <2>5 DEF CurateWindow
  <2>6. ASSUME NEW error \in Errors, FailWindow(error) PROVE Enough
    BY <2>1, <2>6 DEF FailWindow
  <2>7. CASE Construct \/ ReadWindow \/ EndRun \/ RequestRefused \/ Restart
    BY <2>1, <2>7 DEF Construct, ReadWindow, EndRun, RequestRefused, Restart
  <2>8. QED
    BY <2>2, <2>3, <2>4, <2>5, <2>6, <2>7 DEF Next, CurateStep
<1>4. QED
  BY <1>1, <1>2, <1>3, PTL DEF Spec, SkipFollowsFailures

-----------------------------------------------------------------------------
(* The refinement: the session curator implements the curated ledger.      *)

\* The current memory of a topic is its active row's, before and after a step.
LEMMA CurrentOfActive ==
  ASSUME UniqueActive, UniqueActive', NEW t, NEW l
  PROVE  /\ \A i \in ActiveRows : rows[i].topic_key = t /\ rows[i].lesson = l =>
              CurrentMemory(t, l)
                = [statement |-> rows[i].statement, version |-> rows[i].version]
         /\ (\A i \in ActiveRows : ~(rows[i].topic_key = t /\ rows[i].lesson = l)) =>
              CurrentMemory(t, l) = [statement |-> "unknown"]
         /\ \A i \in ActiveRows' : rows'[i].topic_key = t /\ rows'[i].lesson = l =>
              CurrentMemory(t, l)'
                = [statement |-> rows'[i].statement, version |-> rows'[i].version]
         /\ (\A i \in ActiveRows' : ~(rows'[i].topic_key = t /\ rows'[i].lesson = l)) =>
              CurrentMemory(t, l)' = [statement |-> "unknown"]
<1> DEFINE at == {i \in ActiveRows : rows[i].topic_key = t /\ rows[i].lesson = l}
<1> DEFINE att == {i \in ActiveRows' : rows'[i].topic_key = t /\ rows'[i].lesson = l}
<1>1. \A i, j \in at : i = j
  BY DEF UniqueActive, SameTopic
<1>2. \A i, j \in att : i = j
  BY DEF UniqueActive, SameTopic
<1>3. ASSUME NEW i \in at
      PROVE  (CHOOSE j \in at : TRUE) = i
  BY <1>1
<1>4. ASSUME NEW i \in att
      PROVE  (CHOOSE j \in att : TRUE) = i
  BY <1>2
<1>5. QED
  BY <1>3, <1>4 DEF CurrentMemory

\* A commit leaves the current memory of a topic alone or renews it.
LEMMA CommitRenews ==
  ASSUME TypeInv, RowsInv, EveryTopicPrompted, pc = "llm",
         NEW writes \in WindowWrites, NEW upto, NEW error,
         ApplyCuratorWindow(writes, upto, error),
         NEW t \in Topics, NEW l \in BOOLEAN
  PROVE  \/ CurrentMemory(t, l)' = CurrentMemory(t, l)
         \/ Ledger!Renews(CurrentMemory(t, l), CurrentMemory(t, l)')
<1> DEFINE At(i) == rows[i].topic_key = t /\ rows[i].lesson = l
<1> DEFINE Att(i) == rows'[i].topic_key = t /\ rows'[i].lesson = l
<1>1. /\ active = ActiveRows /\ UniqueActive
      /\ UniqueActive' /\ NewestStaysActive'
  BY CommitKeepsRows DEF RowsInv, RunAgreesWithStore
<1>2. /\ DOMAIN rows = 1..Len(rows) /\ Len(rows) \in Nat
      /\ DOMAIN writes = 1..Len(writes) /\ Len(writes) \in Nat
      /\ DOMAIN rows' = 1..(Len(rows) + Len(writes))
      /\ \A i \in DOMAIN rows : rows[i] \in Row
      /\ \A k \in DOMAIN writes : writes[k] \in Write /\ writes[k] \in PossibleWrites
  <2>1. DOMAIN rows = 1..Len(rows) /\ Len(rows) \in Nat /\ \A i \in DOMAIN rows : rows[i] \in Row
    BY DEF TypeInv, TypeOK
  <2>2. DOMAIN rows' = 1..(Len(rows) + Len(writes))
    BY <1>1, CommitRowByRow
  <2>3. QED
    BY <2>1, <2>2, WindowWritesType
<1>3. /\ \A i \in DOMAIN rows, k \in DOMAIN writes :
           i \in active /\ SameTopic(rows[i], writes[k])
             => rows'[i] = Retire(rows[i], Len(rows) + k)
      /\ \A i \in DOMAIN rows :
           (\A k \in DOMAIN writes : ~(i \in active /\ SameTopic(rows[i], writes[k])))
             => rows'[i] = rows[i]
      /\ \A k \in DOMAIN writes : rows'[Len(rows) + k] = NewRow(writes[k])
  BY <1>1, CommitRowByRow
<1>4. ASSUME NEW i \in DOMAIN rows
      PROVE  /\ Att(i) <=> At(i)
             /\ rows'[i].status = "active" => rows'[i] = rows[i]
  <2>1. CASE \A k \in DOMAIN writes : ~(i \in active /\ SameTopic(rows[i], writes[k]))
    BY <1>3, <2>1
  <2>2. ASSUME NEW k \in DOMAIN writes, i \in active, SameTopic(rows[i], writes[k])
        PROVE  (Att(i) <=> At(i)) /\ rows'[i].status = "superseded"
    <3>1. rows'[i] = Retire(rows[i], Len(rows) + k) /\ rows[i] \in Row
      BY <1>2, <1>3, <2>2
    <3>2. QED
      BY <3>1 DEF Retire, Row
  <2>3. QED
    BY <2>1, <2>2
<1>5. CASE \A i \in ActiveRows' : ~Att(i)
  <2>1. \A i \in ActiveRows : ~At(i)
    <3> SUFFICES ASSUME NEW i \in ActiveRows, At(i)
                 PROVE  FALSE
      OBVIOUS
    <3>1. i \in DOMAIN rows /\ i \in DOMAIN rows' /\ Att(i)
      BY <1>2, <1>4 DEF ActiveRows
    <3>2. PICK j \in ActiveRows' : SameTopic(rows'[i], rows'[j])
      BY <1>1, <3>1 DEF NewestStaysActive, SameTopic
    <3>3. Att(j)
      BY <3>1, <3>2 DEF SameTopic
    <3>4. QED
      BY <1>5, <3>3
  <2>2. QED
    BY <1>1, <1>5, <2>1, CurrentOfActive
<1>6. ASSUME NEW i \in ActiveRows', Att(i), i \in DOMAIN rows
      PROVE  CurrentMemory(t, l)' = CurrentMemory(t, l)
  <2>1. rows'[i].status = "active" /\ rows'[i] = rows[i] /\ i \in ActiveRows /\ At(i)
    BY <1>4, <1>6 DEF ActiveRows
  <2>2. QED
    BY <1>1, <1>6, <2>1, CurrentOfActive
<1>7. ASSUME NEW k \in DOMAIN writes, Len(rows) + k \in ActiveRows', Att(Len(rows) + k)
      PROVE  Ledger!Renews(CurrentMemory(t, l), CurrentMemory(t, l)')
  <2> DEFINE w == writes[k]
  <2>1. rows'[Len(rows) + k] = NewRow(w) /\ w \in Write /\ w \in PossibleWrites
    BY <1>2, <1>3
  <2>2. CurrentMemory(t, l)' = [statement |-> w.statement, version |-> w.version]
    <3>1. /\ rows'[Len(rows) + k].statement = w.statement
          /\ rows'[Len(rows) + k].version = w.version
      BY <2>1 DEF NewRow
    <3>2. QED
      BY <1>1, <1>7, <3>1, CurrentOfActive
  <2>3. CurrentMemory(t, l)' \in Ledger!Memory
    BY <2>1, <2>2 DEF Write, Ledger!Memory
  <2>4. ASSUME NEW i \in ActiveRows, At(i)
        PROVE  CurrentMemory(t, l).version <= w.version
    <3>1. w.topic_key = t /\ w.lesson = l
      BY <1>7, <2>1 DEF NewRow
    <3>2. SameTopic(rows[i], w)
      BY <2>4, <3>1 DEF SameTopic
    <3>3. rows[i].version <= w.version
      BY <1>1, <2>1, <3>2, WriteSupersedesActive
    <3>4. CurrentMemory(t, l).version = rows[i].version
      BY <1>1, <2>4, CurrentOfActive
    <3>5. QED
      BY <3>3, <3>4
  <2>5. (\A i \in ActiveRows : ~At(i)) => CurrentMemory(t, l) = Ledger!Unknown
    BY <1>1, CurrentOfActive DEF Ledger!Unknown
  <2>6. QED
    BY <2>2, <2>3, <2>4, <2>5 DEF Ledger!Renews
<1>8. \A i \in ActiveRows' : i \in DOMAIN rows \/ \E k \in DOMAIN writes : i = Len(rows) + k
  <2> SUFFICES ASSUME NEW i \in ActiveRows', i \notin DOMAIN rows
               PROVE  \E k \in DOMAIN writes : i = Len(rows) + k
    OBVIOUS
  <2>1. i \in 1..(Len(rows) + Len(writes))
    BY <1>2 DEF ActiveRows
  <2>2. i - Len(rows) \in DOMAIN writes /\ i = Len(rows) + (i - Len(rows))
    BY <1>2, <2>1
  <2>3. QED
    BY <2>2
<1>9. QED
  BY <1>5, <1>6, <1>7, <1>8

LEMMA LedgerInit == Init => Ledger!Init
<1> SUFFICES ASSUME Init PROVE Ledger!Init
  OBVIOUS
<1>1. stored = {} /\ Cardinality({}) = 0 /\ last_message_seq = 0
  BY FS_EmptySet DEF Init
<1>2. ActiveRows = {}
  BY DEF Init, ActiveRows
<1>3. \A t, l : CurrentMemory(t, l) = [statement |-> "unknown"]
  BY <1>2 DEF CurrentMemory
<1>4. QED
  BY <1>1, <1>3 DEF Ledger!Init, Ledger!Key, Ledger!Unknown

LEMMA LedgerStep ==
  ASSUME EveryTopicPrompted
  PROVE  TypeInv /\ RowsInv /\ RowsInv' /\ [Next]_vars => [Ledger!Next]_(Ledger!vars)
<1> SUFFICES ASSUME TypeInv, RowsInv, RowsInv', [Next]_vars
             PROVE  [Ledger!Next]_(Ledger!vars)
  OBVIOUS
<1> USE DEF streamVars, stateVars, runVars, history
<1> DEFINE cur == [k \in Topics \X BOOLEAN |-> CurrentMemory(k[1], k[2])]
<1>1. ASSUME UNCHANGED rows
      PROVE  cur' = cur
  <2>1. ActiveRows' = ActiveRows
    BY <1>1, RowsUnchanged
  <2>2. \A t, l : CurrentMemory(t, l)' = CurrentMemory(t, l)
    BY <1>1, <2>1 DEF CurrentMemory
  <2>3. QED
    BY <2>2
<1>2. ASSUME UNCHANGED <<rows, stored, last_message_seq>>
      PROVE  UNCHANGED Ledger!vars
  BY <1>1, <1>2 DEF Ledger!vars
<1>3. ASSUME NEW m \in Message, CommitMessage(m)
      PROVE  Ledger!Arrive
  <2>1. clock \in Nat /\ stored \in SUBSET (1..clock)
    BY BoundsAssumption DEF TypeInv, TypeOK
  <2>2. IsFiniteSet(stored)
    BY <2>1, StoredFinite
  <2>3. Cardinality(stored') = Cardinality(stored) + 1
    BY <1>3, <2>2, FS_AddElement DEF CommitMessage, InFlight
  <2>4. UNCHANGED <<rows, last_message_seq>>
    BY <1>3 DEF CommitMessage
  <2>5. QED
    BY <1>1, <2>3, <2>4 DEF Ledger!Arrive
<1>4. ASSUME pc = "llm", NEW writes \in WindowWrites, NEW error,
             ApplyCuratorWindow(writes, WindowEnd, error), UNCHANGED stored
      PROVE  Ledger!Consume
  <2>1. /\ clock \in Nat /\ stored \in SUBSET (1..clock) /\ window \in SUBSET stored
        /\ window # {} /\ seq \in Nat /\ seq = last_message_seq
        /\ WindowEnd = seq + Cardinality(window) /\ WindowEnd <= Cardinality(stored)
    BY <1>4, BoundsAssumption DEF TypeInv, TypeOK, WatermarkInStream, WindowEnd
  <2>2. IsFiniteSet(window) /\ Cardinality(window) \in Nat /\ Cardinality(window) # 0
    <3>1. IsFiniteSet(window) /\ Cardinality(window) \in Nat
      BY <2>1, StoredFinite
    <3>2. QED
      BY <2>1, <3>1, FS_EmptySet
  <2>3. last_message_seq < last_message_seq' /\ last_message_seq' <= Cardinality(stored')
    <3>1. last_message_seq' = WindowEnd
      BY <1>4 DEF ApplyCuratorWindow
    <3>2. QED
      BY <1>4, <2>1, <2>2, <3>1
  <2>4. \A k \in Ledger!Key : cur'[k] = cur[k] \/ Ledger!Renews(cur[k], cur'[k])
    <3> SUFFICES ASSUME NEW t \in Topics, NEW l \in BOOLEAN
                 PROVE  \/ CurrentMemory(t, l)' = CurrentMemory(t, l)
                        \/ Ledger!Renews(CurrentMemory(t, l), CurrentMemory(t, l)')
      BY DEF Ledger!Key
    <3>1. QED
      BY <1>4, CommitRenews
  <2>5. DOMAIN cur' = Ledger!Key /\ cur' = [k \in Ledger!Key |-> cur'[k]]
    BY DEF Ledger!Key
  <2>6. Cardinality(stored') = Cardinality(stored)
    BY <1>4
  <2>7. QED
    BY <2>3, <2>4, <2>5, <2>6 DEF Ledger!Consume
<1>5. ASSUME NEW writes \in WindowWrites, CurateWindow(writes)
      PROVE  Ledger!Consume
  <2>1. pc = "llm" /\ ApplyCuratorWindow(writes, WindowEnd, NoError) /\ UNCHANGED stored
    BY <1>5 DEF CurateWindow
  <2>2. QED
    BY <1>4, <2>1
<1>6. ASSUME NEW error \in Errors, SkipWindow(error)
      PROVE  Ledger!Consume
  <2>1. pc = "llm" /\ ApplyCuratorWindow(<<>>, WindowEnd, error) /\ UNCHANGED stored
    BY <1>6 DEF SkipWindow
  <2>2. <<>> \in WindowWrites
    BY EmptyReply
  <2>3. QED
    BY <1>4, <2>1, <2>2
<1>7. CASE Construct \/ ReadWindow \/ EndRun \/ RequestRefused \/ Restart
  BY <1>2, <1>7 DEF Construct, ReadWindow, EndRun, RequestRefused, Restart
<1>8. ASSUME NEW f \in Forces, StartRun(f)
      PROVE  UNCHANGED Ledger!vars
  BY <1>2, <1>8 DEF StartRun
<1>9. ASSUME NEW error \in Errors, FailWindow(error)
      PROVE  UNCHANGED Ledger!vars
  BY <1>2, <1>9 DEF FailWindow, BumpCuratorState
<1>10. CASE UNCHANGED vars
  BY <1>2, <1>10 DEF vars
<1>11. QED
  BY <1>3, <1>5, <1>6, <1>7, <1>8, <1>9, <1>10 DEF Next, CurateStep, Ledger!Next

\* Where nothing is cut from the prompt, the session curator implements the
\* ledger: every window is one atomic, monotonic batch for its readers.
THEOREM LedgerImplemented ==
  ASSUME EveryTopicPrompted
  PROVE  Spec => ImplementsLedger
<1>1. Init => Ledger!Init
  BY LedgerInit
<1>2. TypeInv /\ RowsInv /\ RowsInv' /\ [Next]_vars => [Ledger!Next]_(Ledger!vars)
  BY LedgerStep
<1>3. QED
  BY <1>1, <1>2, RowsCorrect, PTL DEF Spec, ImplementsLedger, Ledger!Spec

=============================================================================
