----------------------------- MODULE SourceEvidence -----------------------------
(***************************************************************************)
(* build_source_evidence (source_evidence.py): the items of a context that  *)
(* can be proved from their sources become a bounded envelope.  Version 1   *)
(* carries archival passages only; version 2 recalled messages as well, the *)
(* superseded ones behind the others, and keeps archival passages inside    *)
(* its window of max_items.                                                 *)
(***************************************************************************)
EXTENDS Integers, Sequences, SequencesExt, FiniteSets, Lists

CONSTANTS
    TextBytes,          \* bytes of an item's text, by id
    Provable,           \* ids with valid source refs, document and score
    MAX_ITEM_TEXT_BYTES, MAX_TOTAL_TEXT_BYTES,
    EnvelopeBytes,      \* bytes of an envelope without items
    ItemBytes,          \* bytes an item takes besides its text
    EnvelopeRequests    \* [limits, items]

\* _candidate and _v2_candidate: the layers each version projects.
Projected(schema) == IF schema = "v1" THEN {"archival"} ELSE {"recall", "archival"}

\* Limits that are accepted, and a context that has every message and every
\* passage it recalls once.
EnvelopeValid(l, s) ==
    /\ l.schema \in {"v1", "v2"} /\ {l.max_items, l.max_tokens, l.max_bytes} \subseteq Nat \ {0}
    /\ s \in Seq(Range(s)) /\ \A i \in DOMAIN s : s[i].tokens \in Nat
    /\ \A i, j \in DOMAIN s :
          {s[i].layer, s[j].layer} \subseteq Projected(l.schema) /\ s[i].id = s[j].id => i = j

ASSUME EvidenceAssumption ==
    /\ TextBytes \in [DOMAIN TextBytes -> Nat] /\ Provable \subseteq DOMAIN TextBytes
    /\ MAX_ITEM_TEXT_BYTES \in Nat /\ MAX_TOTAL_TEXT_BYTES \in Nat
    /\ EnvelopeBytes \in Nat /\ ItemBytes \in Nat
    /\ \A e \in EnvelopeRequests : EnvelopeValid(e.limits, e.items)

VARIABLES
    evidence_step,  \* "none", "select", "shrink", "answered", "refused"
    limits,         \* [schema: "v1" or "v2", max_items, max_tokens, max_bytes,
                    \*  superseded: ids whose text contains a superseded quote]
    items,          \* the items of the context: [layer, id, tokens]
    order,          \* selection_order
    index,          \* next item of order
    chosen,         \* selected
    evidence_tokens, evidence_bytes,
    omitted_count

evidenceVars == <<evidence_step, limits, items, order, index, chosen, evidence_tokens,
                  evidence_bytes, omitted_count>>

NoLimits == [schema |-> "v1", max_items |-> 1, max_tokens |-> 1, max_bytes |-> 1,
             superseded |-> {}]
Smaller(a, b) == IF a < b THEN a ELSE b

-------------------------------------------------------------------------------
\* What cannot be proved or is too long is left out.
EligibleItem(x, l) ==
    /\ x.layer \in Projected(l.schema)
    /\ x.id \in Provable
    /\ TextBytes[x.id] <= MAX_ITEM_TEXT_BYTES

Eligible(s, l) == Kept(s, {i \in DOMAIN s : EligibleItem(s[i], l)})

\* demote_superseded: a stable partition.
Demoted(s, l) ==
    LET old == {i \in DOMAIN s : s[i].id \in l.superseded}
    IN  Kept(s, DOMAIN s \ old) \o Kept(s, old)

\* Mutant of Window: archival items stay where the composer put them.
WindowAsIs(s, l) == [i \in 1..Smaller(l.max_items, Len(s)) |-> i]

\* The first max_items, the last derived ones of them replaced by the archival
\* ones that come after: the last by the last, and so on.
Window(s, l) ==
    LET n == Smaller(l.max_items, Len(s))
        derived == {i \in 1..n : s[i].layer # "archival"}
        tail == {i \in (n + 1)..Len(s) : s[i].layer = "archival"}
        from_end(i) == Cardinality({d \in derived : i <= d})
    IN  [i \in 1..n |-> IF i \in derived /\ from_end(i) <= Cardinality(tail)
                          THEN Nth(tail, Cardinality(tail) + 1 - from_end(i))
                          ELSE i]

\* selection_order of version 2: the window, then what is not in it.
SelectionOrder(s, l) ==
    LET window == Window(s, l)
        rest == DOMAIN s \ Range(window)
    IN  [i \in DOMAIN s |->
            s[IF i <= Len(window) THEN window[i] ELSE Nth(rest, i - Len(window))]]

BuildEvidence(l, context_items) ==
    /\ evidence_step = "none"
    /\ evidence_step' = "select"
    /\ limits' = l
    /\ items' = context_items
    /\ \E eligible \in {Eligible(context_items, l)} :
          /\ omitted_count' = Len(context_items) - Len(eligible)
          /\ \/ l.schema = "v1" /\ order' = eligible
             \/ /\ l.schema = "v2"
                /\ \E demoted \in {Demoted(eligible, l)} : order' = SelectionOrder(demoted, l)
    /\ index' = 1
    /\ UNCHANGED <<chosen, evidence_tokens, evidence_bytes>>

EnvelopeFits(x) ==
    /\ Len(chosen) < limits.max_items
    /\ evidence_tokens + x.tokens <= limits.max_tokens
    /\ evidence_bytes + TextBytes[x.id] <= MAX_TOTAL_TEXT_BYTES

SelectItem ==
    /\ evidence_step = "select" /\ index <= Len(order)
    /\ EnvelopeFits(order[index])
    /\ chosen' = Append(chosen, order[index])
    /\ evidence_tokens' = evidence_tokens + order[index].tokens
    /\ evidence_bytes' = evidence_bytes + TextBytes[order[index].id]
    /\ index' = index + 1
    /\ UNCHANGED <<evidence_step, limits, items, order, omitted_count>>

\* The first item that does not fit ends the loop, the rest is omitted.
EndSelection ==
    /\ evidence_step = "select"
    /\ index <= Len(order) => ~EnvelopeFits(order[index])
    /\ omitted_count' = omitted_count + Len(order) - (index - 1)
    /\ evidence_step' = "shrink"
    /\ UNCHANGED <<limits, items, order, index, chosen, evidence_tokens, evidence_bytes>>

\* len(_canonical_bytes(payload))
PayloadBytes(s) ==
    EnvelopeBytes + Total([i \in DOMAIN s |-> ItemBytes + TextBytes[s[i].id]], Len(s))

\* Mutant of PopItem: the item is dropped without being counted.
PopItemSilently ==
    /\ evidence_step = "shrink"
    /\ PayloadBytes(chosen) > limits.max_bytes /\ chosen # <<>>
    /\ chosen' = Front(chosen)
    /\ evidence_tokens' = evidence_tokens - Last(chosen).tokens
    /\ evidence_bytes' = evidence_bytes - TextBytes[Last(chosen).id]
    /\ UNCHANGED <<evidence_step, limits, items, order, index, omitted_count>>

\* The envelope is too large: the last item goes.
PopItem ==
    /\ evidence_step = "shrink"
    /\ PayloadBytes(chosen) > limits.max_bytes /\ chosen # <<>>
    /\ chosen' = Front(chosen)
    /\ omitted_count' = omitted_count + 1
    /\ evidence_tokens' = evidence_tokens - Last(chosen).tokens
    /\ evidence_bytes' = evidence_bytes - TextBytes[Last(chosen).id]
    /\ UNCHANGED <<evidence_step, limits, items, order, index>>

\* The validated envelope, or the error that not even an empty one fits.
AnswerEvidence ==
    /\ evidence_step = "shrink"
    /\ \/ PayloadBytes(chosen) <= limits.max_bytes /\ evidence_step' = "answered"
       \/ PayloadBytes(chosen) > limits.max_bytes /\ chosen = <<>>
            /\ evidence_step' = "refused"
    /\ UNCHANGED <<limits, items, order, index, chosen, evidence_tokens, evidence_bytes,
                   omitted_count>>

EvidenceStep == SelectItem \/ EndSelection \/ PopItem \/ AnswerEvidence

ForgetEvidence ==
    /\ evidence_step' = "none" /\ limits' = NoLimits /\ items' = <<>> /\ order' = <<>>
    /\ index' = 1 /\ chosen' = <<>> /\ evidence_tokens' = 0 /\ evidence_bytes' = 0
    /\ omitted_count' = 0

EvidenceInit ==
    /\ evidence_step = "none" /\ limits = NoLimits /\ items = <<>> /\ order = <<>>
    /\ index = 1 /\ chosen = <<>> /\ evidence_tokens = 0 /\ evidence_bytes = 0
    /\ omitted_count = 0

EvidenceNext ==
    \/ \E e \in EnvelopeRequests : BuildEvidence(e.limits, e.items)
    \/ EvidenceStep
    \/ evidence_step \in {"answered", "refused"} /\ ForgetEvidence

EvidenceSpec == EvidenceInit /\ [][EvidenceNext]_evidenceVars

-------------------------------------------------------------------------------
Chosen == {chosen[i].id : i \in DOMAIN chosen}
EligibleItems == {i \in DOMAIN items : EligibleItem(items[i], limits)}
Archival(S) == {i \in S : items[i].layer = "archival"}

\* An envelope accounts for every item of the context, chosen or omitted, and
\* keeps all its bounds; a version 2 envelope that took max_items holds as many
\* archival passages as there are, up to max_items; nobody is left out for a
\* later message of the same standing; and where anything current is left out,
\* no message that states a superseded value is in (build_source_evidence and
\* _build_source_evidence_v2).
EvidenceAddsUp ==
    evidence_step = "answered" =>
        /\ Len(chosen) + omitted_count = Len(items)
        /\ evidence_tokens = Total([i \in DOMAIN chosen |-> chosen[i].tokens], Len(chosen))
        /\ Len(chosen) <= limits.max_items
        /\ evidence_tokens <= limits.max_tokens
        /\ PayloadBytes(chosen) <= limits.max_bytes
        /\ limits.schema = "v2" /\ Len(chosen) = limits.max_items =>
              Cardinality({i \in DOMAIN chosen : chosen[i].layer = "archival"})
                = Smaller(limits.max_items, Cardinality(Archival(EligibleItems)))
        /\ \A i, j \in EligibleItems \ Archival(EligibleItems) :
              /\ i < j
              /\ items[i].id \in limits.superseded <=> items[j].id \in limits.superseded
              /\ items[j].id \in Chosen
              => items[i].id \in Chosen
        /\ limits.schema = "v2" =>
              \A i \in EligibleItems \ Archival(EligibleItems), j \in EligibleItems :
                  items[i].id \in limits.superseded /\ items[i].id \in Chosen
                    => items[j].id \in limits.superseded \cup Chosen
===============================================================================
