-------------------------------- MODULE Archive --------------------------------
(***************************************************************************)
(* The archive of the session memory (service.py, archive_rag.py,           *)
(* store_archive.py): documents are ingested with their chunks and passages, *)
(* archives are attached to scopes, and the passages of a scope are listed.  *)
(*                                                                           *)
(* A call is a process; each of its SQL statements is a step, since SQLite   *)
(* holds no snapshot over the SELECTs of one transaction. A call may die     *)
(* between any two of them.                                                  *)
(***************************************************************************)
EXTENDS Integers, Sequences, FiniteSets

CONSTANTS
    Calls,            \* the callers of the service
    IngestRequests,   \* [document, text, size, identity]
    AttachRequests,   \* [archive, scope]
    ListRequests,     \* [archives, scopes: sequence, sources]
    MaxChars,         \* characters of a window of the splitter
    MaxDeaths         \* bound on the calls that die

\* An identity maps identity_kind and the ids of that kind to their values.
Text == {r.text : r \in IngestRequests}
Documents == {r.document : r \in IngestRequests}
Identities == {r.identity : r \in IngestRequests}
Requests == IngestRequests \cup AttachRequests \cup ListRequests

ASSUME ArchiveAssumption ==
    /\ MaxChars \in Nat \ {0} /\ MaxDeaths \in Nat
    /\ \A r \in IngestRequests : r.size \in Nat /\ r.text # "no row"
    /\ \A r \in ListRequests : r.scopes \in Seq({a.scope : a \in AttachRequests})

VARIABLES
    documents,     \* rows of archival_documents, by id
    passages,      \* rows of archival_passages, each with the span of its chunk
    attachments,   \* rows of archive_attachments
    pc, request, answer,
    ids,           \* passage ids an ingest is answered with
    todo,          \* scopes whose attachments are still to be read
    resolved,      \* archive ids found so far
    count,         \* [eligible, excluded] as counted
    rows,          \* [eligible, excluded] as read
    known,         \* history: attachments and documents when the call began
    moment,        \* history: the passages at the second count
    deaths

tables == <<documents, passages, attachments>>
scan == <<todo, resolved, count, rows, moment>>
vars == <<tables, pc, request, answer, ids, scan, known, deaths>>

NoRow == [text |-> "no row", size |-> 0, identity |-> <<>>]
Nothing == [eligible |-> {}, excluded |-> {}]

-------------------------------------------------------------------------------
\* FixedWindowArchiveSplitter.split without overlap, as [first, last) spans.
Split(size) ==
    {<<n, IF n + MaxChars < size THEN n + MaxChars ELSE size>> :
        n \in {i \in 0..(size - 1) : i % MaxChars = 0}}

ValueOf(identity, key) == IF key \in DOMAIN identity THEN identity[key] ELSE "none"

\* A passage belongs to an archive, or to a source and file.
PassagesOf(r) ==
    {[document |-> r.document, span |-> s,
      archive |-> ValueOf(r.identity, "archive_id"),
      source |-> ValueOf(r.identity, "source_id")] : s \in Split(r.size)}

\* What is stored under the keys of the identity asked for, and only those.
SameIdentity(stored, asked) ==
    \A key \in DOMAIN asked : key \in DOMAIN stored /\ stored[key] = asked[key]

Matches(row, r) == row.text = r.text /\ SameIdentity(row.identity, r.identity)

Stored(id) == documents[id] # NoRow
IdsOf(id) == {p \in passages : p.document = id}

Eligible(table, archives, sources) ==
    {p \in table : p.archive \in archives \/ p.source \in sources}
Excluded(table, archives, sources) == table \ Eligible(table, archives, sources)

Goto(c, label) == pc' = [pc EXCEPT ![c] = label]

Answer(c, what) ==
    /\ pc' = [pc EXCEPT ![c] = "done"]
    /\ answer' = [answer EXCEPT ![c] = what]

-------------------------------------------------------------------------------
Begin(c, r, label) ==
    /\ pc[c] = "idle"
    /\ request' = [request EXCEPT ![c] = r]
    /\ known' = [known EXCEPT ![c] = [attachments |-> attachments, documents |-> documents]]
    /\ Goto(c, label)
    /\ UNCHANGED <<tables, answer, ids, deaths>>

\* ingest_archive_document ----------------------------------------------------
BeginIngest(c, r) == Begin(c, r, "lookup") /\ UNCHANGED scan

\* Mutant of Lookup: a document that is there is taken for a replay.
LookupAnyText(c) ==
    /\ pc[c] = "lookup"
    /\ IF Stored(request[c].document) THEN Goto(c, "replay") ELSE Goto(c, "store")
    /\ UNCHANGED <<tables, request, answer, ids, scan, known, deaths>>

Lookup(c) ==
    /\ pc[c] = "lookup"
    /\ LET row == documents[request[c].document]
       IN  IF ~Stored(request[c].document)
             THEN Goto(c, "store") /\ UNCHANGED answer
             ELSE IF Matches(row, request[c])
             THEN Goto(c, "replay") /\ UNCHANGED answer
             ELSE Answer(c, "conflict")
    /\ UNCHANGED <<tables, request, ids, scan, known, deaths>>

Replay(c) ==
    /\ pc[c] = "replay"
    /\ Answer(c, "replayed")
    /\ ids' = [ids EXCEPT ![c] = IdsOf(request[c].document)]
    /\ UNCHANGED <<tables, request, scan, known, deaths>>

\* The document, its chunks and its passages in one transaction.
Store(c) ==
    /\ pc[c] = "store"
    /\ ~Stored(request[c].document)
    /\ documents' = [documents EXCEPT ![request[c].document] =
                       [text |-> request[c].text, size |-> request[c].size,
                        identity |-> request[c].identity]]
    /\ passages' = passages \cup PassagesOf(request[c])
    /\ ids' = [ids EXCEPT ![c] = PassagesOf(request[c])]
    /\ Answer(c, "stored")
    /\ UNCHANGED <<attachments, request, scan, known, deaths>>

\* Another call stored it since the lookup: the primary key refuses it.
StoreRefused(c) ==
    /\ pc[c] = "store"
    /\ Stored(request[c].document)
    /\ Answer(c, "integrity_error")
    /\ UNCHANGED <<tables, request, ids, scan, known, deaths>>

\* attach_archive --------------------------------------------------------------
BeginAttach(c, r) == Begin(c, r, "attach") /\ UNCHANGED scan

Attach(c) ==
    /\ pc[c] = "attach"
    /\ attachments' = attachments \cup {request[c]}
    /\ Goto(c, "attached")
    /\ UNCHANGED <<documents, passages, request, answer, ids, scan, known, deaths>>

\* The passages of the archive are counted after the attachment is committed.
ReportAttachment(c) ==
    /\ pc[c] = "attached"
    /\ Answer(c, IF Eligible(passages, {request[c].archive}, {}) = {}
                   THEN "attached_empty" ELSE "attached")
    /\ UNCHANGED <<tables, request, ids, scan, known, deaths>>

\* list_archival_passages_for_scope --------------------------------------------
BeginList(c, r) ==
    /\ Begin(c, r, "resolve")
    /\ todo' = [todo EXCEPT ![c] = r.scopes]
    /\ resolved' = [resolved EXCEPT ![c] = r.archives]
    /\ UNCHANGED <<count, rows, moment>>

\* resolve_attached_archive_ids: one scope after the other.
Resolve(c) ==
    /\ pc[c] = "resolve"
    /\ IF todo[c] = <<>>
         THEN Goto(c, "count_eligible") /\ UNCHANGED <<todo, resolved>>
         ELSE /\ resolved' = [resolved EXCEPT ![c] = @ \cup
                    {a.archive : a \in {b \in attachments : b.scope = Head(todo[c])}}]
              /\ todo' = [todo EXCEPT ![c] = Tail(@)]
              /\ UNCHANGED pc
    /\ UNCHANGED <<tables, request, answer, ids, count, rows, moment, known, deaths>>

InScope(c) == Eligible(passages, resolved[c], request[c].sources)
OutOfScope(c) == Excluded(passages, resolved[c], request[c].sources)

CountEligible(c) ==
    /\ pc[c] = "count_eligible"
    /\ count' = [count EXCEPT ![c].eligible = Cardinality(InScope(c))]
    /\ Goto(c, "count_excluded")
    /\ UNCHANGED <<tables, request, answer, ids, todo, resolved, rows, moment, known, deaths>>

CountExcluded(c) ==
    /\ pc[c] = "count_excluded"
    /\ count' = [count EXCEPT ![c].excluded = Cardinality(OutOfScope(c))]
    /\ moment' = [moment EXCEPT ![c] = passages]
    /\ Goto(c, "read_eligible")
    /\ UNCHANGED <<tables, request, answer, ids, todo, resolved, rows, known, deaths>>

ReadEligible(c) ==
    /\ pc[c] = "read_eligible"
    /\ rows' = [rows EXCEPT ![c].eligible = InScope(c)]
    /\ Goto(c, "read_excluded")
    /\ UNCHANGED <<tables, request, answer, ids, todo, resolved, count, moment, known, deaths>>

ReadExcluded(c) ==
    /\ pc[c] = "read_excluded"
    /\ rows' = [rows EXCEPT ![c].excluded = OutOfScope(c)]
    /\ Goto(c, "compare")
    /\ UNCHANGED <<tables, request, answer, ids, todo, resolved, count, moment, known, deaths>>

\* Mutant of Agree: only what is returned is compared.
AgreeOnEligible(c) == count[c].eligible = Cardinality(rows[c].eligible)

Agree(c) ==
    /\ count[c].eligible = Cardinality(rows[c].eligible)
    /\ count[c].excluded = Cardinality(rows[c].excluded)

\* A mismatch is raised as a RuntimeError.
Compare(c) ==
    /\ pc[c] = "compare"
    /\ Answer(c, IF Agree(c) THEN "listed" ELSE "changed")
    /\ UNCHANGED <<tables, request, ids, scan, known, deaths>>

-------------------------------------------------------------------------------
\* The process of a call ends before it is answered; what it committed stays.
Die(c) ==
    /\ pc[c] \notin {"idle", "done"}
    /\ deaths < MaxDeaths
    /\ deaths' = deaths + 1
    /\ Answer(c, "lost")
    /\ UNCHANGED <<tables, request, ids, scan, known>>

Init ==
    /\ documents = [d \in Documents |-> NoRow]
    /\ passages = {} /\ attachments = {}
    /\ pc = [c \in Calls |-> "idle"]
    /\ request = [c \in Calls |-> NoRow]
    /\ answer = [c \in Calls |-> "none"]
    /\ ids = [c \in Calls |-> {}]
    /\ todo = [c \in Calls |-> <<>>]
    /\ resolved = [c \in Calls |-> {}]
    /\ count = [c \in Calls |-> [eligible |-> 0, excluded |-> 0]]
    /\ rows = [c \in Calls |-> Nothing]
    /\ known = [c \in Calls |-> [attachments |-> {}, documents |-> documents]]
    /\ moment = [c \in Calls |-> {}]
    /\ deaths = 0

Step(c) ==
    \/ \E r \in IngestRequests : BeginIngest(c, r)
    \/ Lookup(c) \/ Replay(c) \/ Store(c) \/ StoreRefused(c)
    \/ \E r \in AttachRequests : BeginAttach(c, r)
    \/ Attach(c) \/ ReportAttachment(c)
    \/ \E r \in ListRequests : BeginList(c, r)
    \/ Resolve(c)
    \/ CountEligible(c) \/ CountExcluded(c) \/ ReadEligible(c) \/ ReadExcluded(c)
    \/ Compare(c)
    \/ Die(c)

Next == \E c \in Calls : Step(c)

Spec == Init /\ [][Next]_vars

-------------------------------------------------------------------------------
Ingested(c, id) == request[c] \in IngestRequests /\ request[c].document = id

\* The passages are a whole document: windows that meet and end with the text.
Whole(windows, row) ==
    UNION {p.span[1]..(p.span[2] - 1) : p \in windows} = 0..(row.size - 1)

\* However ingests of one document overlap, die and are sent again
\* (ingest_archive_document): one of them stores it, whole; the others are
\* answered with what it stored exactly if they bring the same text and
\* identity; a conflict is another document, and the only other error is that
\* of a call that began before the document was there.
DocumentBoundOnce ==
    \A c \in Calls, id \in Documents : Ingested(c, id) =>
        /\ answer[c] \in {"stored", "replayed"} =>
              /\ Matches(documents[id], request[c])
              /\ ids[c] = IdsOf(id) /\ Whole(ids[c], documents[id])
        /\ answer[c] = "conflict" =>
              Stored(id) /\ ~Matches(documents[id], request[c])
        /\ answer[c] = "integrity_error" =>
              Stored(id) /\ known[c].documents[id] = NoRow
        /\ answer[c] = "stored" =>
              \A d \in Calls \ {c} : Ingested(d, id) => answer[d] # "stored"

\* An answered listing splits the table as it was at one moment of the call,
\* though it was read in four statements (list_archival_passages_for_scope):
\* by the archives asked for, those attached before, and none never attached.
ListingIsSnapshot ==
    \A c \in Calls : answer[c] = "listed" =>
        /\ rows[c].eligible = Eligible(moment[c], resolved[c], request[c].sources)
        /\ rows[c].excluded = Excluded(moment[c], resolved[c], request[c].sources)
        /\ \A a \in known[c].attachments :
              (\E i \in DOMAIN request[c].scopes : request[c].scopes[i] = a.scope)
                  => a.archive \in resolved[c]
        /\ resolved[c] \subseteq request[c].archives \cup {a.archive : a \in attachments}
===============================================================================
