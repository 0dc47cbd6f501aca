----------------------------- MODULE ArchiveProofs -----------------------------
(***************************************************************************)
(* What the archive promises its callers, for any number of calls,          *)
(* documents, scopes and deaths: a document is stored once and whole, and a *)
(* listing that is answered is one state of the table.                      *)
(***************************************************************************)
EXTENDS Archive, FiniteSetTheorems, SequenceTheorems, TLAPS

Scopes == {a.scope : a \in AttachRequests}
Ingesting == {"lookup", "replay", "store"}
Reading == {"count_eligible", "count_excluded", "read_eligible", "read_excluded", "compare"}

\* The variables are functions of their index sets.
Shape ==
    /\ DOMAIN documents = Documents
    /\ DOMAIN pc = Calls /\ DOMAIN request = Calls /\ DOMAIN answer = Calls
    /\ DOMAIN ids = Calls /\ DOMAIN known = Calls /\ DOMAIN todo = Calls
    /\ DOMAIN resolved = Calls /\ DOMAIN moment = Calls
    /\ count \in [Calls -> [eligible: Nat, excluded: Nat]]
    /\ DOMAIN rows = Calls
    /\ \A c \in Calls : rows[c] = [eligible |-> rows[c].eligible,
                                   excluded |-> rows[c].excluded]
    /\ IsFiniteSet(passages)

\* A document is there whole or not at all.
TableInv ==
    \A d \in Documents :
        /\ Stored(d) => Whole(IdsOf(d), documents[d])
        /\ ~Stored(d) => IdsOf(d) = {}

\* What an ingest has found out stays true, whatever others store.
IngestInv(c) ==
    /\ answer[c] # "none" => pc[c] = "done"
    /\ pc[c] \in Ingesting => request[c] \in IngestRequests
    /\ \A d \in Documents : known[c].documents[d] # NoRow => Stored(d)
    /\ pc[c] = "replay" =>
          Stored(request[c].document) /\ Matches(documents[request[c].document], request[c])
    /\ pc[c] = "store" => known[c].documents[request[c].document] = NoRow
    /\ answer[c] \in {"stored", "replayed"} =>
          /\ request[c] \in IngestRequests /\ Stored(request[c].document)
          /\ Matches(documents[request[c].document], request[c])
          /\ ids[c] = IdsOf(request[c].document)
    /\ answer[c] = "conflict" =>
          /\ request[c] \in IngestRequests /\ Stored(request[c].document)
          /\ ~Matches(documents[request[c].document], request[c])
    /\ answer[c] = "integrity_error" =>
          /\ request[c] \in IngestRequests /\ Stored(request[c].document)
          /\ known[c].documents[request[c].document] = NoRow

StoredOnce ==
    \A c, d \in Calls :
        answer[c] = "stored" /\ answer[d] = "stored" /\ request[c].document = request[d].document
            => c = d

InMoment(c) == Eligible(moment[c], resolved[c], request[c].sources)
OutOfMoment(c) == Excluded(moment[c], resolved[c], request[c].sources)

\* What was counted is a part of what is there now.
Counted(c) ==
    /\ pc[c] = "count_excluded" =>
          \E e \in SUBSET InScope(c) : count[c].eligible = Cardinality(e)
    /\ pc[c] \in {"read_eligible", "read_excluded", "compare"} =>
          /\ moment[c] \subseteq passages
          /\ \E e \in SUBSET InMoment(c) : count[c].eligible = Cardinality(e)
          /\ count[c].excluded = Cardinality(OutOfMoment(c))
    /\ pc[c] \in {"read_excluded", "compare"} =>
          InMoment(c) \subseteq rows[c].eligible /\ rows[c].eligible \subseteq passages
    /\ pc[c] = "compare" =>
          OutOfMoment(c) \subseteq rows[c].excluded /\ rows[c].excluded \subseteq passages

\* Every attachment the call knew of is resolved or still to be looked for.
Resolving(c) ==
    /\ resolved[c] \subseteq request[c].archives \cup {a.archive : a \in attachments}
    /\ \A a \in known[c].attachments :
          (\E i \in DOMAIN request[c].scopes : request[c].scopes[i] = a.scope)
             => \/ a.archive \in resolved[c]
                \/ \E i \in DOMAIN todo[c] : todo[c][i] = a.scope

Divided(c) ==
    /\ rows[c].eligible = InMoment(c) /\ rows[c].excluded = OutOfMoment(c)
    /\ Resolving(c) /\ todo[c] = <<>>

ListInv(c) ==
    /\ known[c].attachments \subseteq attachments
    /\ pc[c] = "resolve" => todo[c] \in Seq(Scopes) /\ Resolving(c)
    /\ pc[c] \in Reading => todo[c] = <<>> /\ Resolving(c) /\ Counted(c)
    /\ answer[c] = "listed" => Divided(c)

Inv ==
    /\ Shape /\ TableInv /\ StoredOnce
    /\ \A c \in Calls : IngestInv(c) /\ ListInv(c)

-------------------------------------------------------------------------------
\* A document and its identity match the request that brought them.
LEMMA OwnRowMatches ==
  ASSUME NEW r \in IngestRequests
  PROVE  /\ Matches([text |-> r.text, size |-> r.size, identity |-> r.identity], r)
         /\ [text |-> r.text, size |-> r.size, identity |-> r.identity] # NoRow
         /\ r.document \in Documents
<1>1. r.text # "no row"
  BY ArchiveAssumption
<1>2. r.document \in Documents
  BY DEF Documents
<1>3. Matches([text |-> r.text, size |-> r.size, identity |-> r.identity], r)
  BY DEF Matches, SameIdentity
<1> QED
  BY <1>1, <1>2, <1>3 DEF NoRow

\* The passages of a document are finitely many.
LEMMA PassagesFinite ==
  ASSUME NEW r \in IngestRequests
  PROVE  IsFiniteSet(PassagesOf(r))
<1> DEFINE starts == {i \in 0..(r.size - 1) : i % MaxChars = 0}
           span(n) == <<n, IF n + MaxChars < r.size THEN n + MaxChars ELSE r.size>>
           f == [n \in starts |-> span(n)]
           row(s) == [document |-> r.document, span |-> s,
                      archive |-> ValueOf(r.identity, "archive_id"),
                      source |-> ValueOf(r.identity, "source_id")]
           g == [s \in Split(r.size) |-> row(s)]
<1>1. IsFiniteSet(starts)
  <2>1. r.size \in Nat
    BY ArchiveAssumption
  <2>2. IsFiniteSet(0..(r.size - 1))
    BY <2>1, FS_Interval
  <2> QED
    BY <2>2, FS_Subset
<1>2. f \in Surjection(starts, Split(r.size))
  <2>1. Split(r.size) = {span(n) : n \in starts}
    BY DEF Split
  <2> HIDE DEF span, starts
  <2> QED
    BY <2>1 DEF Surjection
<1>3. IsFiniteSet(Split(r.size))
  BY <1>1, <1>2, FS_Surjection
<1>4. g \in Surjection(Split(r.size), PassagesOf(r))
  <2>1. PassagesOf(r) = {row(s) : s \in Split(r.size)}
    BY DEF PassagesOf
  <2> HIDE DEF row
  <2> QED
    BY <2>1 DEF Surjection
<1> QED
  BY <1>3, <1>4, FS_Surjection

\* The windows of the splitter cover the text, and no more.
LEMMA WindowsAreWhole ==
  ASSUME NEW r \in IngestRequests
  PROVE  Whole(PassagesOf(r), [text |-> r.text, size |-> r.size, identity |-> r.identity])
<1> DEFINE M == MaxChars
           end(n) == IF n + M < r.size THEN n + M ELSE r.size
<1>1. r.size \in Nat /\ M \in Nat \ {0}
  BY ArchiveAssumption
<1>2. ASSUME NEW s \in Split(r.size)
      PROVE  \E p \in PassagesOf(r) : p.span = s
  <2> DEFINE p == [document |-> r.document, span |-> s,
                   archive |-> ValueOf(r.identity, "archive_id"),
                   source |-> ValueOf(r.identity, "source_id")]
  <2>1. p \in PassagesOf(r) /\ p.span = s
    BY DEF PassagesOf
  <2> QED
    BY <2>1
<1>3. \A p \in PassagesOf(r) : p.span \in Split(r.size)
  BY DEF PassagesOf
<1>4. ASSUME NEW x \in 0..(r.size - 1)
      PROVE  \E s \in Split(r.size) : x \in s[1]..(s[2] - 1)
  <2> DEFINE n == x - (x % M)
  <2>1. x % M \in 0..(M - 1)
    BY <1>1, SMTT(30)
  <2>2. n >= 0
    BY <1>1, SMTT(30)
  <2>3. n % M = 0
    BY <1>1, SMTT(30)
  <2>4. n \in 0..(r.size - 1) /\ x \in n..(end(n) - 1)
    <3> DEFINE k == x % M
    <3>1. k \in 0..(M - 1)
      BY <2>1
    <3>2. n = x - k
      OBVIOUS
    <3> HIDE DEF k, M, n
    <3> QED
      BY <1>1, <2>2, <3>1, <3>2
  <2> HIDE DEF n
  <2>5. <<n, end(n)>> \in Split(r.size)
    BY <2>3, <2>4 DEF Split
  <2>6. <<n, end(n)>>[1] = n /\ <<n, end(n)>>[2] = end(n)
    OBVIOUS
  <2> QED
    BY <2>4, <2>5, <2>6
<1>5. ASSUME NEW s \in Split(r.size)
      PROVE  s[1]..(s[2] - 1) \subseteq 0..(r.size - 1)
  <2>1. PICK n \in 0..(r.size - 1) : s = <<n, end(n)>>
    BY DEF Split
  <2>2. s[1] = n /\ s[2] = end(n)
    BY <2>1
  <2> QED
    BY <1>1, <2>2
<1>6. UNION {p.span[1]..(p.span[2] - 1) : p \in PassagesOf(r)} \subseteq 0..(r.size - 1)
  BY <1>3, <1>5
<1>7. 0..(r.size - 1) \subseteq UNION {p.span[1]..(p.span[2] - 1) : p \in PassagesOf(r)}
  <2> SUFFICES ASSUME NEW x \in 0..(r.size - 1)
               PROVE  \E p \in PassagesOf(r) : x \in p.span[1]..(p.span[2] - 1)
    OBVIOUS
  <2> QED
    BY <1>2, <1>4
<1> QED
  BY <1>6, <1>7 DEF Whole

-------------------------------------------------------------------------------
\* The tables only grow, and a stored document keeps its row and its passages.
Grows ==
    /\ passages \subseteq passages' /\ attachments \subseteq attachments'
    /\ \A d \in Documents : Stored(d) =>
          documents'[d] = documents[d] /\ IdsOf(d)' = IdsOf(d)

Untouched(c) ==
    /\ pc'[c] = pc[c] /\ request'[c] = request[c] /\ answer'[c] = answer[c]
    /\ ids'[c] = ids[c] /\ known'[c] = known[c] /\ todo'[c] = todo[c]
    /\ resolved'[c] = resolved[c] /\ moment'[c] = moment[c]
    /\ count'[c] = count[c] /\ rows'[c] = rows[c]

\* The index sets stay, and no step touches the variables of another call.
LEMMA OnlyItsOwn ==
  ASSUME Shape, NEW c \in Calls, Step(c)
  PROVE  /\ DOMAIN documents' = Documents
         /\ DOMAIN pc' = Calls /\ DOMAIN request' = Calls /\ DOMAIN answer' = Calls
         /\ DOMAIN ids' = Calls /\ DOMAIN known' = Calls /\ DOMAIN todo' = Calls
         /\ DOMAIN resolved' = Calls /\ DOMAIN moment' = Calls
         /\ DOMAIN count' = Calls /\ DOMAIN rows' = Calls
         /\ \A d \in Calls \ {c} : Untouched(d)
<1> USE DEF Shape, Untouched, Goto, Answer, tables, scan
<1>1. CASE (\E r \in IngestRequests : BeginIngest(c, r))
              \/ (\E r \in AttachRequests : BeginAttach(c, r))
  BY <1>1 DEF BeginIngest, BeginAttach, Begin
<1>2. CASE \E r \in ListRequests : BeginList(c, r)
  BY <1>2 DEF BeginList, Begin
<1>3. CASE Lookup(c)
  BY <1>3 DEF Lookup
<1>4. CASE Replay(c) \/ Store(c) \/ StoreRefused(c)
  BY <1>4 DEF Replay, Store, StoreRefused
<1>5. CASE Attach(c) \/ ReportAttachment(c)
  BY <1>5 DEF Attach, ReportAttachment
<1>6. CASE Resolve(c)
  BY <1>6 DEF Resolve
<1>7. CASE CountEligible(c) \/ CountExcluded(c)
  BY <1>7 DEF CountEligible, CountExcluded
<1>8. CASE ReadEligible(c) \/ ReadExcluded(c) \/ Compare(c) \/ Die(c)
  BY <1>8 DEF ReadEligible, ReadExcluded, Compare, Die
<1> QED
  BY <1>1, <1>2, <1>3, <1>4, <1>5, <1>6, <1>7, <1>8 DEF Step

\* Only Store and Attach change the tables.
LEMMA TablesStay ==
  ASSUME NEW c \in Calls, Step(c), ~Store(c), ~Attach(c)
  PROVE  UNCHANGED tables
BY DEF Step, BeginIngest, BeginAttach, BeginList, Begin, Lookup, Replay, StoreRefused,
       ReportAttachment, Resolve, CountEligible, CountExcluded, ReadEligible, ReadExcluded,
       Compare, Die, tables

\* The counts and rows stay records, the passages finite.
LEMMA ShapeKept ==
  ASSUME Shape, NEW c \in Calls, IngestInv(c), Step(c)
  PROVE  Shape'
<1>0. /\ count \in [Calls -> [eligible: Nat, excluded: Nat]]
      /\ \A d \in Calls : rows[d] = [eligible |-> rows[d].eligible,
                                     excluded |-> rows[d].excluded]
      /\ DOMAIN rows = Calls /\ IsFiniteSet(passages)
  BY DEF Shape
<1>1. IsFiniteSet(passages')
  <2>1. CASE Store(c)
    <3>1. request[c] \in IngestRequests /\ passages' = passages \cup PassagesOf(request[c])
      BY <2>1 DEF Store, IngestInv, Ingesting
    <3> QED
      BY <1>0, <3>1, PassagesFinite, FS_Union
  <2>2. CASE ~Store(c)
    <3>1. passages' = passages
      BY <2>2, TablesStay DEF Attach, tables
    <3> QED
      BY <1>0, <3>1
  <2> QED
    BY <2>1, <2>2
<1>2. count' \in [Calls -> [eligible: Nat, excluded: Nat]]
  <2>1. Cardinality(InScope(c)) \in Nat /\ Cardinality(OutOfScope(c)) \in Nat
    <3>1. InScope(c) \in SUBSET passages /\ OutOfScope(c) \in SUBSET passages
      BY DEF InScope, OutOfScope, Eligible, Excluded
    <3>2. IsFiniteSet(InScope(c)) /\ IsFiniteSet(OutOfScope(c))
      BY <1>0, <3>1, FS_Subset
    <3> QED
      BY <3>2, FS_CardinalityType
  <2>2. CASE CountEligible(c)
    <3>1. count' = [count EXCEPT ![c].eligible = Cardinality(InScope(c))]
      BY <2>2 DEF CountEligible
    <3> HIDE DEF InScope
    <3> QED
      BY <1>0, <2>1, <3>1
  <2>3. CASE CountExcluded(c)
    <3>1. count' = [count EXCEPT ![c].excluded = Cardinality(OutOfScope(c))]
      BY <2>3 DEF CountExcluded
    <3> QED
      BY <1>0, <2>1, <3>1
  <2>4. CASE ~CountEligible(c) /\ ~CountExcluded(c)
    <3>1. count' = count
      BY <2>4 DEF Step, BeginIngest, BeginAttach, BeginList, Begin, Lookup, Replay, Store,
             StoreRefused, Attach, ReportAttachment, Resolve, ReadEligible, ReadExcluded,
             Compare, Die, scan
    <3> QED
      BY <1>0, <3>1
  <2> QED
    BY <2>2, <2>3, <2>4
<1>3. \A d \in Calls : rows'[d] = [eligible |-> rows'[d].eligible,
                                  excluded |-> rows'[d].excluded]
  <2>1. CASE ReadEligible(c)
    <3>1. rows' = [rows EXCEPT ![c].eligible = InScope(c)]
      BY <2>1 DEF ReadEligible
    <3> QED
      BY <1>0, <3>1
  <2>2. CASE ReadExcluded(c)
    <3>1. rows' = [rows EXCEPT ![c].excluded = OutOfScope(c)]
      BY <2>2 DEF ReadExcluded
    <3> QED
      BY <1>0, <3>1
  <2>3. CASE ~ReadEligible(c) /\ ~ReadExcluded(c)
    <3>1. rows' = rows
      BY <2>3 DEF Step, BeginIngest, BeginAttach, BeginList, Begin, Lookup, Replay, Store,
             StoreRefused, Attach, ReportAttachment, Resolve, CountEligible, CountExcluded,
             Compare, Die, scan
    <3> QED
      BY <1>0, <3>1
  <2> QED
    BY <2>1, <2>2, <2>3
<1> QED
  BY <1>1, <1>2, <1>3, OnlyItsOwn DEF Shape

\* Storing a document that is not there adds it, whole, and touches no other.
LEMMA StoreAdds ==
  ASSUME Shape, TableInv, NEW c \in Calls, IngestInv(c), Store(c)
  PROVE  /\ request[c] \in IngestRequests /\ request[c].document \in Documents
         /\ ~Stored(request[c].document)
         /\ documents'[request[c].document] # NoRow
         /\ Matches(documents'[request[c].document], request[c])
         /\ IdsOf(request[c].document)' = PassagesOf(request[c])
         /\ Whole(PassagesOf(request[c]), documents'[request[c].document])
         /\ \A d \in Documents : d # request[c].document =>
               documents'[d] = documents[d] /\ IdsOf(d)' = IdsOf(d)
         /\ passages \subseteq passages' /\ attachments' = attachments
<1> DEFINE r == request[c]
           row == [text |-> r.text, size |-> r.size, identity |-> r.identity]
<1>1. r \in IngestRequests /\ pc[c] = "store"
  BY DEF Store, IngestInv, Ingesting
<1>2. r.document \in Documents /\ Matches(row, r) /\ row # NoRow
  BY <1>1, OwnRowMatches
<1>3. /\ ~Stored(r.document) /\ documents' = [documents EXCEPT ![r.document] = row]
      /\ passages' = passages \cup PassagesOf(r) /\ attachments' = attachments
      /\ request' = request
  BY DEF Store
<1>4. documents'[r.document] = row /\ \A d \in Documents : d # r.document =>
         documents'[d] = documents[d]
  BY <1>2, <1>3 DEF Shape
<1>5. \A p \in PassagesOf(r) : p.document = r.document
  BY DEF PassagesOf
<1>6. IdsOf(r.document) = {}
  BY <1>2, <1>3 DEF TableInv
<1>7. IdsOf(r.document)' = PassagesOf(r)
  BY <1>3, <1>5, <1>6 DEF IdsOf
<1>8. \A d \in Documents : d # r.document => IdsOf(d)' = IdsOf(d)
  BY <1>3, <1>5 DEF IdsOf
<1>9. Whole(PassagesOf(r), row)
  BY <1>1, WindowsAreWhole
<1> QED
  BY <1>1, <1>2, <1>3, <1>4, <1>7, <1>8, <1>9

\* No step takes back what a table held.
LEMMA TablesGrow ==
  ASSUME Shape, TableInv, NEW c \in Calls, IngestInv(c), Step(c)
  PROVE  Grows /\ TableInv'
<1>1. CASE Store(c)
  <2> DEFINE id == request[c].document
  <2>1. /\ id \in Documents /\ ~Stored(id)
        /\ documents'[id] # NoRow /\ IdsOf(id)' = PassagesOf(request[c])
        /\ Whole(PassagesOf(request[c]), documents'[id]) /\ request' = request
        /\ \A d \in Documents : d # id => documents'[d] = documents[d] /\ IdsOf(d)' = IdsOf(d)
        /\ passages \subseteq passages' /\ attachments' = attachments
    BY <1>1, StoreAdds DEF Store
  <2>2. Grows
    BY <2>1 DEF Grows
  <2>3. ASSUME NEW d \in Documents
        PROVE  (/\ Stored(d) => Whole(IdsOf(d), documents[d])
                /\ ~Stored(d) => IdsOf(d) = {})'
    <3>1. CASE d = id
      <4>1. documents'[d] # NoRow /\ Whole(IdsOf(d)', documents'[d])
        BY <2>1, <3>1 DEF IdsOf, Whole
      <4> QED
        BY <4>1 DEF Stored, Whole
    <3>2. CASE d # id
      <4>1. documents'[d] = documents[d] /\ IdsOf(d)' = IdsOf(d)
        BY <2>1, <3>2
      <4> QED
        BY <4>1 DEF TableInv, Stored, Whole
    <3> QED
      BY <3>1, <3>2
  <2>4. TableInv'
    BY <2>3 DEF TableInv
  <2> QED
    BY <2>2, <2>4
<1>2. CASE ~Store(c)
  <2>1. documents' = documents /\ passages' = passages /\ attachments \subseteq attachments'
    BY <1>2, TablesStay DEF Attach, tables
  <2>2. \A d : IdsOf(d)' = IdsOf(d)
    BY <2>1 DEF IdsOf
  <2>3. \A d : /\ Stored(d)' = Stored(d)
              /\ Whole(IdsOf(d), documents[d])' = Whole(IdsOf(d), documents[d])
    BY <2>1, <2>2 DEF Stored, Whole
  <2> QED
    BY <2>1, <2>2, <2>3 DEF Grows, TableInv
<1> QED
  BY <1>1, <1>2

\* What an ingest has found out survives the steps of the others.
LEMMA IngestOfOthers ==
  ASSUME NEW c \in Calls, IngestInv(c), Grows, Untouched(c)
  PROVE  IngestInv(c)'
<1>1. \A d \in Documents : Stored(d) => Stored(d)'
  BY DEF Grows, Stored
<1>2. \A r \in IngestRequests : r.document \in Documents
  BY DEF Documents
<1>3. pc[c] = "replay" => request[c] \in IngestRequests
  BY DEF IngestInv, Ingesting
<1> DEFINE id == request[c].document
<1>4. /\ pc'[c] = pc[c] /\ request'[c] = request[c] /\ answer'[c] = answer[c]
      /\ ids'[c] = ids[c] /\ known'[c] = known[c]
  BY DEF Untouched
<1>5. request[c] \in IngestRequests /\ Stored(id) =>
         /\ Stored(id)' /\ documents'[id] = documents[id] /\ IdsOf(id)' = IdsOf(id)
  BY <1>1, <1>2, <1>4 DEF Grows, Stored, IdsOf
<1>6. (request[c] \in IngestRequests /\ Stored(id)
          /\ Matches(documents[id], request[c]))
       => (Stored(id) /\ Matches(documents[id], request[c]))'
  BY <1>5, <1>4 DEF Matches, SameIdentity, Stored
<1>7. (request[c] \in IngestRequests /\ Stored(id)
          /\ ~Matches(documents[id], request[c]))
       => (Stored(id) /\ ~Matches(documents[id], request[c]))'
  BY <1>5, <1>4 DEF Matches, SameIdentity, Stored
<1>8. (answer[c] # "none" => pc[c] = "done")'
  BY <1>4 DEF IngestInv
<1>9. (pc[c] \in Ingesting => request[c] \in IngestRequests)'
  BY <1>4 DEF IngestInv
<1>10. (\A d \in Documents : known[c].documents[d] # NoRow => Stored(d))'
  BY <1>1, <1>4 DEF IngestInv
<1>11. (pc[c] = "replay" => Stored(id) /\ Matches(documents[id], request[c]))'
  BY <1>3, <1>4, <1>6 DEF IngestInv
<1>12. (pc[c] = "store" => known[c].documents[id] = NoRow)'
  BY <1>4 DEF IngestInv
<1>13. (answer[c] \in {"stored", "replayed"} =>
           /\ request[c] \in IngestRequests /\ Stored(id)
           /\ Matches(documents[id], request[c]) /\ ids[c] = IdsOf(id))'
  <2> SUFFICES ASSUME answer[c] \in {"stored", "replayed"}
               PROVE  (/\ request[c] \in IngestRequests /\ Stored(id)
                       /\ Matches(documents[id], request[c]) /\ ids[c] = IdsOf(id))'
    BY <1>4
  <2>1. /\ request[c] \in IngestRequests /\ Stored(id)
        /\ Matches(documents[id], request[c]) /\ ids[c] = IdsOf(id)
    BY DEF IngestInv
  <2> QED
    BY <1>5, <1>4, <1>6, <2>1 DEF IdsOf
<1>14. (answer[c] = "conflict" =>
           /\ request[c] \in IngestRequests /\ Stored(id)
           /\ ~Matches(documents[id], request[c]))'
  BY <1>4, <1>7 DEF IngestInv
<1>15. (answer[c] = "integrity_error" =>
           /\ request[c] \in IngestRequests /\ Stored(id)
           /\ known[c].documents[id] = NoRow)'
  BY <1>5, <1>4 DEF IngestInv, Stored
<1> QED
  BY <1>8, <1>9, <1>10, <1>11, <1>12, <1>13, <1>14, <1>15 DEF IngestInv

\* So does what a listing has counted and read.
LEMMA ListOfOthers ==
  ASSUME NEW c \in Calls, ListInv(c), Grows, Untouched(c)
  PROVE  ListInv(c)'
<1>1. Resolving(c) => Resolving(c)'
  BY DEF Resolving, Grows, Untouched
<1>2. /\ InScope(c) \subseteq InScope(c)' /\ InMoment(c)' = InMoment(c)
      /\ OutOfMoment(c)' = OutOfMoment(c)
  BY DEF InScope, InMoment, OutOfMoment, Eligible, Excluded, Grows, Untouched
<1>3. Counted(c) => Counted(c)'
  <2> SUFFICES ASSUME Counted(c) PROVE Counted(c)'
    OBVIOUS
  <2>1. (pc[c] = "count_excluded" =>
            \E e \in SUBSET InScope(c) : count[c].eligible = Cardinality(e))'
    BY <1>2 DEF Counted, Untouched
  <2>2. (pc[c] \in {"read_eligible", "read_excluded", "compare"} =>
            /\ moment[c] \subseteq passages
            /\ \E e \in SUBSET InMoment(c) : count[c].eligible = Cardinality(e)
            /\ count[c].excluded = Cardinality(OutOfMoment(c)))'
    BY <1>2 DEF Counted, Untouched, Grows
  <2>3. (pc[c] \in {"read_excluded", "compare"} =>
            InMoment(c) \subseteq rows[c].eligible /\ rows[c].eligible \subseteq passages)'
    BY <1>2 DEF Counted, Untouched, Grows
  <2>4. (pc[c] = "compare" =>
            OutOfMoment(c) \subseteq rows[c].excluded /\ rows[c].excluded \subseteq passages)'
    BY <1>2 DEF Counted, Untouched, Grows
  <2> QED
    BY <2>1, <2>2, <2>3, <2>4 DEF Counted
<1>4. Divided(c) => Divided(c)'
  BY <1>1, <1>2 DEF Divided, Untouched
<1> QED
  BY <1>1, <1>3, <1>4 DEF ListInv, Grows, Untouched

\* A call that is not answered yet has made no promise.
LEMMA OwnIngest ==
  ASSUME Shape, NEW c \in Calls, TableInv, IngestInv(c), Step(c)
  PROVE  IngestInv(c)'
<1> DEFINE id == request[c].document
<1>0. /\ DOMAIN pc = Calls /\ DOMAIN request = Calls /\ DOMAIN answer = Calls
      /\ DOMAIN ids = Calls /\ DOMAIN known = Calls
  BY DEF Shape
<1>1. \A d \in Documents : Stored(d) => Stored(d)' /\ documents'[d] = documents[d]
  BY TablesGrow DEF Grows, Stored
<1>2. \A r \in IngestRequests : r.document \in Documents
  BY DEF Documents
<1>3. pc[c] # "done" => answer[c] = "none"
  BY DEF IngestInv
<1>4. \A d \in Documents : known[c].documents[d] # NoRow => Stored(d)'
  BY <1>1 DEF IngestInv
<1>5. ASSUME NEW r, NEW label, Begin(c, r, label), label # "replay", label # "store",
             label = "lookup" => r \in IngestRequests
      PROVE  IngestInv(c)'
  <2>1. /\ pc'[c] = label /\ request'[c] = r /\ answer' = answer /\ pc[c] = "idle"
        /\ known'[c].documents = documents /\ documents' = documents
    BY <1>0, <1>5 DEF Begin, Goto, tables
  <2>2. answer'[c] = "none"
    BY <1>3, <2>1
  <2> QED
    BY <1>5, <2>1, <2>2 DEF IngestInv, Ingesting, Stored
<1>6. CASE Lookup(c)
  <2>1. /\ pc[c] = "lookup" /\ answer[c] = "none" /\ documents' = documents
        /\ request' = request /\ known' = known /\ request[c] \in IngestRequests
        /\ id \in Documents
    BY <1>2, <1>3, <1>6 DEF Lookup, tables, IngestInv, Ingesting
  <2>2. CASE ~Stored(id)
    <3>1. pc'[c] = "store" /\ answer'[c] = "none"
      BY <1>0, <1>6, <2>1, <2>2 DEF Lookup, Goto
    <3>2. known[c].documents[id] = NoRow
      BY <2>1, <2>2 DEF IngestInv
    <3> QED
      BY <1>4, <2>1, <3>1, <3>2 DEF IngestInv, Ingesting
  <2>3. CASE Stored(id) /\ Matches(documents[id], request[c])
    <3>1. pc'[c] = "replay" /\ answer'[c] = "none"
      BY <1>0, <1>6, <2>1, <2>3 DEF Lookup, Goto
    <3> QED
      BY <1>4, <2>1, <2>3, <3>1 DEF IngestInv, Ingesting, Stored, Matches, SameIdentity
  <2>4. CASE Stored(id) /\ ~Matches(documents[id], request[c])
    <3>1. pc'[c] = "done" /\ answer'[c] = "conflict"
      BY <1>0, <1>6, <2>1, <2>4 DEF Lookup, Answer
    <3> QED
      BY <1>4, <2>1, <2>4, <3>1 DEF IngestInv, Ingesting, Stored, Matches, SameIdentity
  <2> QED
    BY <2>2, <2>3, <2>4
<1>7. CASE Replay(c)
  <2>1. /\ pc[c] = "replay" /\ pc'[c] = "done" /\ answer'[c] = "replayed"
        /\ ids'[c] = IdsOf(id) /\ documents' = documents /\ passages' = passages
        /\ request' = request /\ known' = known
    BY <1>0, <1>7 DEF Replay, Answer, tables
  <2>2. /\ request[c] \in IngestRequests /\ Stored(id) /\ Matches(documents[id], request[c])
    BY <2>1 DEF IngestInv, Ingesting
  <2>3. ids'[c] = IdsOf(request[c].document)'
    BY <2>1 DEF IdsOf
  <2> QED
    BY <1>4, <2>1, <2>2, <2>3 DEF IngestInv, Ingesting, Stored, Matches, SameIdentity
<1>8. CASE Store(c)
  <2>1. /\ pc'[c] = "done" /\ answer'[c] = "stored" /\ ids'[c] = PassagesOf(request[c])
        /\ request' = request /\ known' = known
    BY <1>0, <1>8 DEF Store, Answer
  <2>2. /\ request[c] \in IngestRequests /\ documents'[id] # NoRow
        /\ Matches(documents'[id], request[c])
        /\ IdsOf(id)' = PassagesOf(request[c])
    BY <1>8, StoreAdds
  <2>3. ids'[c] = IdsOf(request[c].document)'
    BY <2>1, <2>2 DEF IdsOf
  <2> QED
    BY <1>4, <2>1, <2>2, <2>3 DEF IngestInv, Ingesting, Stored, Matches, SameIdentity
<1>9. CASE StoreRefused(c)
  <2>1. /\ pc[c] = "store" /\ Stored(id) /\ pc'[c] = "done" /\ answer'[c] = "integrity_error"
        /\ documents' = documents /\ request' = request /\ known' = known
    BY <1>0, <1>9 DEF StoreRefused, Answer, tables
  <2>2. request[c] \in IngestRequests /\ known[c].documents[id] = NoRow
    BY <2>1 DEF IngestInv, Ingesting
  <2> QED
    BY <1>4, <2>1, <2>2 DEF IngestInv, Ingesting, Stored
<1>10. ASSUME answer'[c] = answer[c], pc[c] # "done", pc'[c] \notin Ingesting,
              request' = request, known' = known
       PROVE  IngestInv(c)'
  BY <1>3, <1>4, <1>10 DEF IngestInv, Ingesting
<1>11. ASSUME NEW what, pc'[c] = "done", answer'[c] = what, request' = request, known' = known,
              what \in {"attached_empty", "attached", "listed", "changed", "lost"}
       PROVE  IngestInv(c)'
  BY <1>4, <1>11 DEF IngestInv, Ingesting
<1>12. CASE Attach(c) \/ Resolve(c) \/ CountEligible(c) \/ CountExcluded(c)
              \/ ReadEligible(c) \/ ReadExcluded(c)
  <2>1. /\ answer' = answer /\ pc[c] # "done" /\ request' = request /\ known' = known
        /\ pc'[c] \notin Ingesting
    BY <1>0, <1>12 DEF Attach, Resolve, CountEligible, CountExcluded, ReadEligible,
                       ReadExcluded, Goto, Ingesting
  <2> QED
    BY <1>10, <2>1
<1>13. CASE ReportAttachment(c) \/ Compare(c) \/ Die(c)
  <2>1. /\ pc'[c] = "done" /\ request' = request /\ known' = known
        /\ answer'[c] \in {"attached_empty", "attached", "listed", "changed", "lost"}
    BY <1>0, <1>13 DEF ReportAttachment, Compare, Die, Answer
  <2> QED
    BY <1>11, <2>1
<1> QED
  BY <1>5, <1>6, <1>7, <1>8, <1>9, <1>12, <1>13 DEF Step, BeginIngest, BeginAttach, BeginList

\* Two reads that agree with the counts before them are what was there between.
LEMMA SameSize ==
  ASSUME NEW S, IsFiniteSet(S), NEW T \in SUBSET S, NEW e \in SUBSET T,
         Cardinality(e) = Cardinality(S)
  PROVE  S = T
<1>1. S = e
  BY FS_Subset
<1> QED
  BY <1>1

\* A scope is looked up, or all of them have been.
LEMMA ResolveKeeps ==
  ASSUME Shape, NEW c \in Calls, IngestInv(c), ListInv(c), Resolve(c)
  PROVE  ListInv(c)'
<1>0. DOMAIN pc = Calls /\ DOMAIN todo = Calls /\ DOMAIN resolved = Calls
  BY DEF Shape
<1>1. /\ pc[c] = "resolve" /\ attachments' = attachments /\ known' = known
      /\ request' = request /\ answer' = answer
  BY DEF Resolve, tables
<1>2. /\ todo[c] \in Seq(Scopes) /\ Resolving(c) /\ known[c].attachments \subseteq attachments
      /\ answer[c] = "none"
  BY <1>1 DEF ListInv, IngestInv
<1>3. CASE todo[c] = <<>>
  <2>1. pc'[c] = "count_eligible" /\ todo' = todo /\ resolved' = resolved
    BY <1>0, <1>3 DEF Resolve, Goto
  <2>2. Resolving(c)'
    BY <1>1, <1>2, <2>1 DEF Resolving
  <2>3. Counted(c)'
    BY <2>1 DEF Counted
  <2> QED
    BY <1>1, <1>2, <1>3, <2>1, <2>2, <2>3 DEF ListInv, Reading
<1>4. CASE todo[c] # <<>>
  <2> DEFINE ours == {a.archive : a \in {b \in attachments : b.scope = Head(todo[c])}}
  <2>1. pc' = pc /\ todo'[c] = Tail(todo[c]) /\ resolved'[c] = resolved[c] \cup ours
    BY <1>0, <1>4 DEF Resolve
  <2>2. /\ Tail(todo[c]) \in Seq(Scopes) /\ Head(todo[c]) = todo[c][1]
        /\ Len(todo[c]) \in Nat \ {0} /\ DOMAIN todo[c] = 1..Len(todo[c])
        /\ DOMAIN Tail(todo[c]) = 1..(Len(todo[c]) - 1)
        /\ \A i \in 1..(Len(todo[c]) - 1) : Tail(todo[c])[i] = todo[c][i + 1]
    BY <1>2, <1>4
  <2>3. ASSUME NEW a \in known[c].attachments,
               \E i \in DOMAIN request[c].scopes : request[c].scopes[i] = a.scope
        PROVE  \/ a.archive \in resolved'[c]
               \/ \E i \in DOMAIN todo'[c] : todo'[c][i] = a.scope
    <3>1. \/ a.archive \in resolved[c]
          \/ \E i \in DOMAIN todo[c] : todo[c][i] = a.scope
      BY <1>2, <2>3 DEF Resolving
    <3>2. CASE a.archive \in resolved[c]
      BY <2>1, <3>2
    <3>3. ASSUME NEW i \in DOMAIN todo[c], todo[c][i] = a.scope
          PROVE  \/ a.archive \in resolved'[c]
                 \/ \E j \in DOMAIN todo'[c] : todo'[c][j] = a.scope
      <4>1. CASE i = 1
        <5>1. a \in attachments /\ a.scope = Head(todo[c])
          BY <1>2, <2>2, <3>3, <4>1
        <5> QED
          BY <2>1, <5>1
      <4>2. CASE i # 1
        <5>1. i - 1 \in 1..(Len(todo[c]) - 1) /\ (i - 1) + 1 = i
          BY <2>2, <4>2
        <5>2. Tail(todo[c])[i - 1] = a.scope
          BY <2>2, <3>3, <5>1
        <5> QED
          BY <2>1, <2>2, <5>1, <5>2
      <4> QED
        BY <4>1, <4>2
    <3> QED
      BY <3>1, <3>2, <3>3
  <2>4. resolved'[c] \subseteq request[c].archives \cup {a.archive : a \in attachments}
    BY <1>2, <2>1 DEF Resolving
  <2>5. Resolving(c)'
    BY <1>1, <2>3, <2>4 DEF Resolving
  <2> QED
    BY <1>1, <1>2, <2>1, <2>2, <2>5 DEF ListInv, Reading
<1> QED
  BY <1>3, <1>4

\* The four statements of a listing, and their comparison.
LEMMA ReadingKeeps ==
  ASSUME Shape, NEW c \in Calls, IngestInv(c), ListInv(c),
         \/ CountEligible(c) \/ CountExcluded(c) \/ ReadEligible(c) \/ ReadExcluded(c)
         \/ Compare(c)
  PROVE  ListInv(c)'
<1>0. /\ DOMAIN pc = Calls /\ DOMAIN moment = Calls /\ DOMAIN answer = Calls
      /\ count \in [Calls -> [eligible: Nat, excluded: Nat]] /\ DOMAIN rows = Calls
      /\ rows[c] = [eligible |-> rows[c].eligible, excluded |-> rows[c].excluded]
      /\ IsFiniteSet(passages)
  BY DEF Shape
<1>1. /\ pc[c] \in Reading /\ passages' = passages /\ attachments' = attachments
      /\ known' = known /\ request' = request /\ todo' = todo /\ resolved' = resolved
  BY DEF CountEligible, CountExcluded, ReadEligible, ReadExcluded, Compare, tables, scan, Reading
<1>2. /\ todo[c] = <<>> /\ Resolving(c) /\ Counted(c) /\ answer[c] = "none"
      /\ known[c].attachments \subseteq attachments
  BY <1>1 DEF ListInv, IngestInv, Reading
<1>3. Resolving(c)'
  BY <1>1, <1>2 DEF Resolving
<1>4. InScope(c)' = InScope(c)
  BY <1>1 DEF InScope, Eligible
<1>5. ASSUME answer' = answer, pc'[c] \in Reading, Counted(c)'
      PROVE  ListInv(c)'
  BY <1>1, <1>2, <1>3, <1>5 DEF ListInv, Reading
<1>6. CASE CountEligible(c)
  <2>1. /\ pc'[c] = "count_excluded" /\ answer' = answer
        /\ count' = [count EXCEPT ![c].eligible = Cardinality(InScope(c))]
    BY <1>0, <1>6 DEF CountEligible, Goto
  <2>2. count'[c].eligible = Cardinality(InScope(c))
    BY <1>0, <2>1
  <2>3. \E e \in SUBSET InScope(c)' : count'[c].eligible = Cardinality(e)
    BY <1>4, <2>2
  <2>4. Counted(c)'
    BY <2>1, <2>3 DEF Counted
  <2> QED
    BY <1>5, <2>1, <2>4 DEF Reading
<1>7. CASE CountExcluded(c)
  <2>1. /\ pc[c] = "count_excluded" /\ pc'[c] = "read_eligible" /\ answer' = answer
        /\ moment'[c] = passages
        /\ count' = [count EXCEPT ![c].excluded = Cardinality(OutOfScope(c))]
    BY <1>0, <1>7 DEF CountExcluded, Goto
  <2>2. /\ count'[c].eligible = count[c].eligible
        /\ count'[c].excluded = Cardinality(OutOfScope(c))
    BY <1>0, <2>1
  <2>3. InMoment(c)' = InScope(c) /\ OutOfMoment(c)' = OutOfScope(c)
    BY <1>1, <2>1 DEF InMoment, OutOfMoment, InScope, OutOfScope, Eligible, Excluded
  <2>4. \E e \in SUBSET InScope(c) : count[c].eligible = Cardinality(e)
    BY <1>2, <2>1 DEF Counted
  <2>5. Counted(c)'
    BY <1>1, <2>1, <2>2, <2>3, <2>4 DEF Counted
  <2> QED
    BY <1>5, <2>1, <2>5 DEF Reading
<1>8. pc[c] \in {"read_eligible", "read_excluded", "compare"} =>
         /\ moment[c] \subseteq passages
         /\ \E e \in SUBSET InMoment(c) : count[c].eligible = Cardinality(e)
         /\ count[c].excluded = Cardinality(OutOfMoment(c))
         /\ InMoment(c) \subseteq InScope(c) /\ OutOfMoment(c) \subseteq OutOfScope(c)
  BY <1>2 DEF Counted, InMoment, OutOfMoment, InScope, OutOfScope, Eligible, Excluded
<1>9. ASSUME moment' = moment
      PROVE  InMoment(c)' = InMoment(c) /\ OutOfMoment(c)' = OutOfMoment(c)
  BY <1>1, <1>9 DEF InMoment, OutOfMoment, Eligible, Excluded
<1>10. CASE ReadEligible(c)
  <2>1. /\ pc[c] = "read_eligible" /\ pc'[c] = "read_excluded" /\ answer' = answer
        /\ moment' = moment /\ count' = count
        /\ rows' = [rows EXCEPT ![c].eligible = InScope(c)]
    BY <1>0, <1>10 DEF ReadEligible, Goto
  <2>2. rows'[c].eligible = InScope(c)
    BY <1>0, <2>1
  <2>3. InScope(c) \subseteq passages
    BY DEF InScope, Eligible
  <2>4. InMoment(c)' = InMoment(c) /\ OutOfMoment(c)' = OutOfMoment(c)
    BY <1>9, <2>1
  <2>5. Counted(c)'
    BY <1>1, <1>8, <2>1, <2>2, <2>3, <2>4 DEF Counted
  <2> QED
    BY <1>5, <2>1, <2>5 DEF Reading
<1>11. CASE ReadExcluded(c)
  <2>1. /\ pc[c] = "read_excluded" /\ pc'[c] = "compare" /\ answer' = answer
        /\ moment' = moment /\ count' = count
        /\ rows' = [rows EXCEPT ![c].excluded = OutOfScope(c)]
    BY <1>0, <1>11 DEF ReadExcluded, Goto
  <2>2. rows'[c].excluded = OutOfScope(c) /\ rows'[c].eligible = rows[c].eligible
    BY <1>0, <2>1
  <2>3. OutOfScope(c) \subseteq passages
    BY DEF OutOfScope, Excluded
  <2>4. InMoment(c)' = InMoment(c) /\ OutOfMoment(c)' = OutOfMoment(c)
    BY <1>9, <2>1
  <2>5. InMoment(c) \subseteq rows[c].eligible /\ rows[c].eligible \subseteq passages
    BY <1>2, <2>1 DEF Counted
  <2>6. Counted(c)'
    BY <1>1, <1>8, <2>1, <2>2, <2>3, <2>4, <2>5 DEF Counted
  <2> QED
    BY <1>5, <2>1, <2>6 DEF Reading
<1>12. CASE Compare(c)
  <2>1. /\ pc[c] = "compare" /\ pc'[c] = "done" /\ moment' = moment /\ rows' = rows
        /\ answer'[c] = IF Agree(c) THEN "listed" ELSE "changed"
    BY <1>0, <1>12 DEF Compare, Answer, scan
  <2>2. /\ InMoment(c) \subseteq rows[c].eligible /\ rows[c].eligible \subseteq passages
        /\ OutOfMoment(c) \subseteq rows[c].excluded /\ rows[c].excluded \subseteq passages
    BY <1>2, <2>1 DEF Counted
  <2>3. IsFiniteSet(rows[c].eligible) /\ IsFiniteSet(rows[c].excluded)
    BY <1>0, <2>2, FS_Subset
  <2>4. ASSUME Agree(c)
        PROVE  rows[c].eligible = InMoment(c) /\ rows[c].excluded = OutOfMoment(c)
    <3>1. PICK e \in SUBSET InMoment(c) : count[c].eligible = Cardinality(e)
      BY <1>8, <2>1
    <3>2. Cardinality(e) = Cardinality(rows[c].eligible)
      BY <2>4, <3>1 DEF Agree
    <3>3. rows[c].eligible = InMoment(c)
      BY <2>2, <2>3, <3>1, <3>2, SameSize
    <3>4. Cardinality(OutOfMoment(c)) = Cardinality(rows[c].excluded)
      BY <1>8, <2>1, <2>4 DEF Agree
    <3>5. rows[c].excluded = OutOfMoment(c)
      BY <2>2, <2>3, <3>4, SameSize
    <3> QED
      BY <3>3, <3>5
  <2>5. InMoment(c)' = InMoment(c) /\ OutOfMoment(c)' = OutOfMoment(c)
    BY <1>9, <2>1
  <2>6. answer'[c] = "listed" => Divided(c)'
    BY <1>1, <1>2, <1>3, <2>1, <2>4, <2>5 DEF Divided
  <2> QED
    BY <1>1, <1>2, <2>1, <2>6 DEF ListInv, Reading
<1> QED
  BY <1>6, <1>7, <1>10, <1>11, <1>12

\* The other steps of a call leave no listing behind.
LEMMA OwnList ==
  ASSUME Shape, NEW c \in Calls, IngestInv(c), ListInv(c), Step(c)
  PROVE  ListInv(c)'
<1>0. /\ DOMAIN pc = Calls /\ DOMAIN answer = Calls /\ DOMAIN known = Calls
      /\ DOMAIN todo = Calls /\ DOMAIN resolved = Calls /\ DOMAIN request = Calls
  BY DEF Shape
<1>1. pc[c] # "done" => answer[c] = "none"
  BY DEF IngestInv
<1>2. ASSUME pc'[c] \notin Reading \cup {"resolve"}, answer'[c] # "listed", known' = known,
             attachments \subseteq attachments'
      PROVE  ListInv(c)'
  BY <1>2 DEF ListInv
<1>3. CASE (\E r \in IngestRequests : BeginIngest(c, r))
              \/ (\E r \in AttachRequests : BeginAttach(c, r))
  <2>1. /\ pc'[c] \in {"lookup", "attach"} /\ answer'[c] = "none"
        /\ known'[c].attachments = attachments /\ attachments' = attachments
    BY <1>0, <1>1, <1>3 DEF BeginIngest, BeginAttach, Begin, Goto, tables
  <2> QED
    BY <2>1 DEF ListInv, Reading
<1>4. ASSUME NEW r \in ListRequests, BeginList(c, r)
      PROVE  ListInv(c)'
  <2>1. /\ pc'[c] = "resolve" /\ answer'[c] = "none" /\ request'[c] = r
        /\ known'[c].attachments = attachments /\ attachments' = attachments
        /\ todo'[c] = r.scopes /\ resolved'[c] = r.archives
    BY <1>0, <1>1, <1>4 DEF BeginList, Begin, Goto, tables
  <2>2. r.scopes \in Seq(Scopes)
    BY ArchiveAssumption DEF Scopes
  <2>3. Resolving(c)'
    BY <2>1 DEF Resolving
  <2> QED
    BY <2>1, <2>2, <2>3 DEF ListInv, Reading
<1>5. CASE Lookup(c) \/ Replay(c) \/ Store(c) \/ StoreRefused(c) \/ ReportAttachment(c)
              \/ Die(c)
  <2>1. /\ pc'[c] \in {"store", "replay", "done"} /\ known' = known /\ attachments' = attachments
        /\ answer'[c] \in {answer[c], "conflict", "replayed", "stored", "integrity_error",
                           "attached_empty", "attached", "lost"}
        /\ pc[c] # "done"
    BY <1>0, <1>5 DEF Lookup, Replay, Store, StoreRefused, ReportAttachment, Die, Goto, Answer,
                      tables
  <2> QED
    BY <1>1, <1>2, <2>1 DEF Reading
<1>6. CASE Attach(c)
  <2>1. /\ pc'[c] = "attached" /\ answer' = answer /\ pc[c] = "attach" /\ known' = known
        /\ attachments \subseteq attachments'
    BY <1>0, <1>6 DEF Attach, Goto
  <2> QED
    BY <1>1, <1>2, <2>1 DEF Reading
<1> QED
  BY <1>3, <1>4, <1>5, <1>6, ResolveKeeps, ReadingKeeps DEF Step

\* One call at most stores a document.
LEMMA OnceKept ==
  ASSUME Inv, NEW c \in Calls, Step(c)
  PROVE  StoredOnce'
<1>0. Shape /\ StoredOnce /\ TableInv /\ \A d \in Calls : IngestInv(d)
  BY DEF Inv
<1>1. \A d \in Calls \ {c} : answer'[d] = answer[d] /\ request'[d] = request[d]
  BY <1>0, OnlyItsOwn DEF Untouched
<1>2. CASE Store(c)
  <2>1. request'[c] = request[c] /\ ~Stored(request[c].document)
    BY <1>2 DEF Store
  <2>2. \A d \in Calls : answer[d] = "stored" => Stored(request[d].document)
    BY <1>0 DEF IngestInv
  <2>3. \A d \in Calls \ {c} :
           answer'[d] = "stored" => request'[d].document # request'[c].document
    BY <1>1, <2>1, <2>2
  <2> QED
    BY <1>0, <1>1, <2>3 DEF StoredOnce
<1>3. CASE ~Store(c)
  <2>1. answer'[c] = "stored" => answer[c] = "stored" /\ request'[c] = request[c]
    <3>1. pc[c] # "done" => answer[c] = "none"
      BY <1>0 DEF IngestInv
    <3>2. DOMAIN answer = Calls
      BY <1>0 DEF Shape
    <3> QED
      BY <1>3, <3>1, <3>2 DEF Step, BeginIngest, BeginAttach, BeginList, Begin, Lookup, Replay,
             StoreRefused, Attach, ReportAttachment, Resolve, CountEligible, CountExcluded,
             ReadEligible, ReadExcluded, Compare, Die, Answer
  <2> QED
    BY <1>0, <1>1, <2>1 DEF StoredOnce
<1> QED
  BY <1>2, <1>3

-------------------------------------------------------------------------------
\* The strengthened invariant holds throughout.
LEMMA Serving == Spec => []Inv
<1>1. Init => Inv
  <2> SUFFICES ASSUME Init PROVE Inv
    OBVIOUS
  <2>1. Shape
    BY FS_EmptySet DEF Init, Shape, Nothing
  <2>2. TableInv
    BY DEF Init, TableInv, Stored, IdsOf
  <2>3. StoredOnce
    BY DEF Init, StoredOnce
  <2>4. \A c \in Calls : IngestInv(c)
    BY DEF Init, IngestInv, Ingesting
  <2>5. \A c \in Calls : ListInv(c)
    BY DEF Init, ListInv, Reading
  <2> QED
    BY <2>1, <2>2, <2>3, <2>4, <2>5 DEF Inv
<1>2. ASSUME Inv, NEW c \in Calls, Step(c)
      PROVE  Inv'
  <2>0. Shape /\ TableInv /\ StoredOnce /\ \A d \in Calls : IngestInv(d) /\ ListInv(d)
    BY <1>2 DEF Inv
  <2>1. Shape'
    BY <1>2, <2>0, ShapeKept
  <2>2. Grows /\ TableInv'
    BY <1>2, <2>0, TablesGrow
  <2>3. StoredOnce'
    BY <1>2, OnceKept
  <2>4. ASSUME NEW d \in Calls
        PROVE  IngestInv(d)' /\ ListInv(d)'
    <3>1. CASE d = c
      BY <1>2, <2>0, <3>1, OwnIngest, OwnList
    <3>2. CASE d # c
      <4>1. Untouched(d)
        BY <1>2, <2>0, <3>2, OnlyItsOwn
      <4> QED
        BY <2>0, <2>2, <4>1, IngestOfOthers, ListOfOthers
    <3> QED
      BY <3>1, <3>2
  <2> QED
    BY <2>1, <2>2, <2>3, <2>4 DEF Inv
<1>3. ASSUME Inv, UNCHANGED vars
      PROVE  Inv'
  <2>0. Shape /\ TableInv /\ StoredOnce /\ \A d \in Calls : IngestInv(d) /\ ListInv(d)
    BY <1>3 DEF Inv
  <2>1. /\ documents' = documents /\ passages' = passages /\ attachments' = attachments
        /\ pc' = pc /\ request' = request /\ answer' = answer /\ ids' = ids
        /\ todo' = todo /\ resolved' = resolved /\ count' = count /\ rows' = rows
        /\ moment' = moment /\ known' = known
    BY <1>3 DEF vars, tables, scan
  <2>2. Grows /\ \A d : IdsOf(d)' = IdsOf(d)
    BY <2>1 DEF Grows, IdsOf
  <2>3. Shape' /\ StoredOnce'
    BY <2>0, <2>1 DEF Shape, StoredOnce
  <2>4. TableInv'
    <3>1. \A d : /\ Stored(d)' = Stored(d)
                /\ Whole(IdsOf(d), documents[d])' = Whole(IdsOf(d), documents[d])
      BY <2>1, <2>2 DEF Stored, Whole
    <3> QED
      BY <2>0, <2>2, <3>1 DEF TableInv
  <2>5. \A d \in Calls : IngestInv(d)' /\ ListInv(d)'
    <3>1. \A d \in Calls : Untouched(d)
      BY <2>1 DEF Untouched
    <3> QED
      BY <2>0, <2>2, <3>1, IngestOfOthers, ListOfOthers
  <2> QED
    BY <2>3, <2>4, <2>5 DEF Inv
<1>4. Inv /\ [Next]_vars => Inv'
  BY <1>2, <1>3 DEF Next
<1> QED
  BY <1>1, <1>4, PTL DEF Spec

\* However ingests of one document overlap, die and are sent again: one stores
\* it, whole, and the others are answered by what it stored
\* (ingest_archive_document), for any number of calls and any texts.
THEOREM DocumentsBound == Spec => []DocumentBoundOnce
<1>1. Inv => DocumentBoundOnce
  <2> SUFFICES ASSUME Inv, NEW c \in Calls, NEW id \in Documents, Ingested(c, id)
               PROVE  /\ answer[c] \in {"stored", "replayed"} =>
                            /\ Matches(documents[id], request[c])
                            /\ ids[c] = IdsOf(id) /\ Whole(ids[c], documents[id])
                      /\ answer[c] = "conflict" =>
                            Stored(id) /\ ~Matches(documents[id], request[c])
                      /\ answer[c] = "integrity_error" =>
                            Stored(id) /\ known[c].documents[id] = NoRow
                      /\ answer[c] = "stored" =>
                            \A d \in Calls \ {c} : Ingested(d, id) => answer[d] # "stored"
    BY DEF DocumentBoundOnce
  <2>1. IngestInv(c) /\ request[c].document = id
    BY DEF Inv, Ingested
  <2>2. Stored(id) => Whole(IdsOf(id), documents[id])
    BY DEF Inv, TableInv
  <2>3. \A d \in Calls : answer[c] = "stored" /\ answer[d] = "stored"
                            /\ request[d].document = id => d = c
    BY <2>1 DEF Inv, StoredOnce
  <2> QED
    BY <2>1, <2>2, <2>3 DEF IngestInv, Ingested
<1> QED
  BY <1>1, Serving, PTL

\* An answered listing is one state of the table, although it was read in four
\* statements (list_archival_passages_for_scope), whatever is committed meanwhile.
THEOREM ListingsAreSnapshots == Spec => []ListingIsSnapshot
<1>1. Inv => ListingIsSnapshot
  <2> SUFFICES ASSUME Inv, NEW c \in Calls, answer[c] = "listed"
               PROVE  /\ rows[c].eligible = Eligible(moment[c], resolved[c], request[c].sources)
                      /\ rows[c].excluded = Excluded(moment[c], resolved[c], request[c].sources)
                      /\ \A a \in known[c].attachments :
                            (\E i \in DOMAIN request[c].scopes : request[c].scopes[i] = a.scope)
                                => a.archive \in resolved[c]
                      /\ resolved[c] \subseteq
                            request[c].archives \cup {a.archive : a \in attachments}
    BY DEF ListingIsSnapshot
  <2>1. Divided(c)
    BY DEF Inv, ListInv
  <2> QED
    BY <2>1 DEF Divided, Resolving, InMoment, OutOfMoment
<1> QED
  BY <1>1, Serving, PTL
===============================================================================
