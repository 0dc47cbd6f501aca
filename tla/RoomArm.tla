-------------------------------- MODULE RoomArm --------------------------------
(***************************************************************************)
(* One probe of a RoomMem arm (_run_room_arm, roommem.py) and all that it   *)
(* calls: a context is built for the question once and becomes an envelope  *)
(* as it is ("plain") and one with the superseded items behind ("demote");  *)
(* then the question goes to the ask graph ("agentic"), whose every         *)
(* retrieval builds a context and an envelope of its own.  The service, and *)
(* with it the vectors of its archive, serves one probe after another.      *)
(*                                                                         *)
(* Besides, each part is called by itself, with more kinds of requests than *)
(* the probes make: a recall search, a context, an envelope.                *)
(***************************************************************************)
EXTENDS EpisodeSearch, ArchivalSearch, ContextComposer, SourceEvidence, AskGraph

CONSTANTS
    Probes,             \* AskRequests: what is asked of the arms
    RecallOf,           \* query -> a search over the messages
    ScopeOf,            \* query -> a search over the archive
    Tokens,             \* tokens of a message or a passage, by id
    Messages,           \* the session's, oldest first
    DEFAULT_MAX_ITEMS, DEFAULT_MAX_TOKENS, DEFAULT_MAX_BYTES

ASSUME RoomArmAssumption ==
    /\ Probes \subseteq AskRequests
    /\ \A q \in Queries : ScopeOf[q] \in ArchivalSearches
    /\ EnvelopeBytes <= DEFAULT_MAX_BYTES

VARIABLES
    stage,          \* "none", "recall", "context", "envelope": one part by itself;
                    \* "package", "modes": a probe
    probe,
    modes,          \* evidence_modes still to be run
    room_items,     \* the context's items, kept for all modes
    variants        \* [mode, ids: those of the answer, in order]

armVars == <<stage, probe, modes, room_items, variants>>
allVars == <<episodeVars, archivalVars, contextVars, evidenceVars, askVars, armVars>>

\* Every arm takes the defaults.
DefaultLimits(superseded) ==
    [schema |-> "v2", max_items |-> DEFAULT_MAX_ITEMS, max_tokens |-> DEFAULT_MAX_TOKENS,
     max_bytes |-> DEFAULT_MAX_BYTES, superseded |-> superseded]

SupersededIds(rows) == {id \in DOMAIN TextBytes : Outdated(id, rows)}

-------------------------------------------------------------------------------
\* build_context, for the package of a probe or for a retrieval of its ask.
Retrieving == stage = "package" \/ ask_step = "retrieve"
Query == IF ask_step = "retrieve" THEN queries[Len(queries)] ELSE probe.question

Costed(ids) == [i \in DOMAIN ids |-> [id |-> ids[i], tokens |-> Tokens[ids[i]]]]

RecallForContext ==
    /\ Retrieving /\ recall_step = "idle" /\ layer = "none" /\ evidence_step = "none"
    /\ SearchEpisodes(RecallOf[Query])
    /\ UNCHANGED <<archivalVars, contextVars, evidenceVars, askVars, armVars>>

ArchiveForContext ==
    /\ Retrieving /\ recall_step = "found"
    /\ \E lexical \in LexicalOf(ScopeOf[Query]) : SearchPassages(ScopeOf[Query], lexical)
    /\ UNCHANGED <<episodeVars, contextVars, evidenceVars, askVars, armVars>>

\* The searches touch nothing the composer has, so that they may come first.
ComposeContext ==
    /\ Retrieving /\ recall_step = "found" /\ archival_step = "found"
    /\ BuildContext([task |-> probe.task, asked |-> probe.budget,
                     found |-> Costed(selected), passages |-> Costed(hits),
                     messages |-> Costed(Messages)])
    /\ ForgetSearch /\ ForgetArchival
    /\ UNCHANGED <<evidenceVars, askVars, armVars>>

\* The searches and the composer go on until they have their answer.
PartStep ==
    \/ EpisodeStep
         /\ UNCHANGED <<archivalVars, contextVars, evidenceVars, askVars, armVars>>
    \/ ArchivalStep
         /\ UNCHANGED <<episodeVars, contextVars, evidenceVars, askVars, armVars>>
    \/ ComposerStep
         /\ UNCHANGED <<episodeVars, archivalVars, evidenceVars, askVars, armVars>>
    \/ EvidenceStep
         /\ UNCHANGED <<episodeVars, archivalVars, contextVars, askVars, armVars>>

-------------------------------------------------------------------------------
StartProbe(p) ==
    /\ stage = "none"
    /\ stage' = "package"
    /\ probe' = p
    /\ modes' = <<"plain", "demote", "agentic">>
    /\ UNCHANGED <<episodeVars, archivalVars, contextVars, evidenceVars, askVars,
                   room_items, variants>>

KeepPackage ==
    /\ stage = "package" /\ layer = "done"
    /\ stage' = "modes"
    /\ room_items' = included
    /\ ForgetContext
    /\ UNCHANGED <<episodeVars, archivalVars, evidenceVars, askVars, probe, modes, variants>>

\* The marks reach the envelope in mode "demote" only.
RunMode ==
    /\ stage = "modes" /\ modes # <<>> /\ evidence_step = "none" /\ ask_step = "none"
    /\ Head(modes) \in {"plain", "demote"}
    /\ \E old \in {IF Head(modes) = "demote" THEN SupersededIds(probe.rows) ELSE {}} :
          BuildEvidence(DefaultLimits(old), room_items)
    /\ UNCHANGED <<episodeVars, archivalVars, contextVars, askVars, armVars>>

RunAgentic ==
    /\ stage = "modes" /\ modes # <<>> /\ Head(modes) = "agentic" /\ ask_step = "none"
    /\ StartAsk(probe)
    /\ UNCHANGED <<episodeVars, archivalVars, contextVars, evidenceVars, armVars>>

\* The closure retrieve of ask_with: an envelope of the context.
EnvelopeForAsk ==
    /\ ask_step = "retrieve" /\ layer = "done"
    /\ \E old \in {SupersededIds(probe.rows)} : BuildEvidence(DefaultLimits(old), included)
    /\ ForgetContext
    /\ UNCHANGED <<episodeVars, archivalVars, askVars, armVars>>

RetrieveForAsk ==
    /\ ask_step = "retrieve" /\ evidence_step = "answered"
    /\ FindItems(chosen)
    /\ ForgetEvidence
    /\ UNCHANGED <<episodeVars, archivalVars, contextVars, armVars>>

RunAsk ==
    /\ AskStep
    /\ UNCHANGED <<episodeVars, archivalVars, contextVars, evidenceVars, armVars>>

IdsIn(s) == [i \in DOMAIN s |-> s[i].id]

\* The answer of a mode.
KeepVariant ==
    /\ stage = "modes" /\ modes # <<>>
    /\ \/ /\ evidence_step = "answered" /\ ask_step = "none"
          /\ variants' = Append(variants, [mode |-> Head(modes), ids |-> IdsIn(chosen)])
       \/ /\ ask_step = "answered"
          /\ variants' = Append(variants, [mode |-> "agentic", ids |-> IdsIn(answer)])
    /\ modes' = Tail(modes)
    /\ ForgetEvidence /\ ForgetAsk
    /\ UNCHANGED <<episodeVars, archivalVars, contextVars, stage, probe, room_items>>

\* The probe is scored, and the next one asked.
EndProbe ==
    /\ stage = "modes" /\ modes = <<>>
    /\ stage' = "none" /\ probe' = NoAsk /\ room_items' = <<>> /\ variants' = <<>>
    /\ UNCHANGED <<episodeVars, archivalVars, contextVars, evidenceVars, askVars, modes>>

-------------------------------------------------------------------------------
\* One part by itself.  None of these uses the vectors of the archive, so that a
\* service that has none yet is enough.
StartPart ==
    /\ stage = "none" /\ vectors = <<>>
    /\ \/ /\ stage' = "recall"
          /\ \E s \in RecallSearches : SearchEpisodes(s)
          /\ UNCHANGED <<contextVars, evidenceVars>>
       \/ /\ stage' = "context"
          /\ \E r \in ContextRequests : BuildContext(r)
          /\ UNCHANGED <<episodeVars, evidenceVars>>
       \/ /\ stage' = "envelope"
          /\ \E e \in EnvelopeRequests : BuildEvidence(e.limits, e.items)
          /\ UNCHANGED <<episodeVars, contextVars>>
    /\ UNCHANGED <<archivalVars, askVars, probe, modes, room_items, variants>>

EndPart ==
    /\ \/ stage = "recall" /\ recall_step = "found"
       \/ stage = "context" /\ layer = "done"
       \/ stage = "envelope" /\ evidence_step \in {"answered", "refused"}
    /\ stage' = "none"
    /\ ForgetSearch /\ ForgetContext /\ ForgetEvidence
    /\ UNCHANGED <<archivalVars, askVars, probe, modes, room_items, variants>>

ArmInit ==
    /\ EpisodeInit /\ ArchivalInit /\ ContextInit /\ EvidenceInit /\ AskInit
    /\ stage = "none" /\ probe = NoAsk /\ modes = <<>> /\ room_items = <<>>
    /\ variants = <<>>

ArmStep ==
    \/ RecallForContext \/ ArchiveForContext \/ ComposeContext \/ PartStep
    \/ KeepPackage \/ RunMode \/ RunAgentic \/ EnvelopeForAsk \/ RetrieveForAsk \/ RunAsk
    \/ KeepVariant \/ EndProbe \/ EndPart

ArmStart == StartPart \/ \E p \in Probes : StartProbe(p)
===============================================================================
