---------------------------- MODULE MemoryOSService ----------------------------
(***************************************************************************)
(* The stateless service shell (engine.py, api/app.py) around Recall and     *)
(* AuditGraph: a request of one of the routes, the HTTP status it ends with, *)
(* and the only thing that is kept, the LLM client built on first use.       *)
(* /curate passes the same gate as /audit; its graph is CurateGraph.         *)
(***************************************************************************)
EXTENDS Recall, AuditGraph

VARIABLES
    has_key,       \* an API key is configured
    curate_llm,    \* the JSON-mode client has been built
    route,         \* of the request at hand, or "none"
    status         \* HTTP status of its answer, or 0

vars == <<recallVars, auditVars, has_key, curate_llm, route, status>>
shellVars == <<has_key, curate_llm, route, status>>

\* _json_llm: the client is built on first use; a build that fails is tried
\* again by the next request.
Gate(built) == curate_llm' = (curate_llm \/ (has_key /\ built))

\* POST /audit is refused with 503 before the graph runs ...
RefuseAudit(built) ==
    /\ route = "none"
    /\ Gate(built)
    /\ ~curate_llm'
    /\ route' = "audit" /\ status' = 503
    /\ UNCHANGED <<recallVars, auditVars, has_key>>

\* ... or runs it.
StartAudit(r, built) ==
    /\ route = "none"
    /\ Gate(built)
    /\ curate_llm'
    /\ route' = "audit"
    /\ AcceptAudit(r)
    /\ UNCHANGED <<recallVars, has_key, status>>

RunAudit ==
    /\ route = "audit" /\ status = 0
    /\ audit_pc \notin {"idle", "done", "failed"}
    /\ AuditStep
    /\ status' = CASE audit_pc' = "done" -> 200
                   [] audit_pc' = "failed" -> 502
                   [] OTHER -> 0
    /\ UNCHANGED <<recallVars, has_key, curate_llm, route>>

StartRecall(r) ==
    /\ route = "none"
    /\ route' = "recall"
    /\ AcceptRecall(r)
    /\ UNCHANGED <<auditVars, has_key, curate_llm, status>>

RunRecall ==
    /\ route = "recall" /\ status = 0
    /\ RankItems \/ ConsiderItem \/ AnswerRecall
    /\ status' = IF recall_pc' = "done" THEN 200 ELSE 0
    /\ UNCHANGED <<auditVars, has_key, curate_llm, route>>

RunSimilar(r, embedded) ==
    /\ route = "none"
    /\ route' = "similar"
    /\ AnswerSimilar(r, embedded)
    /\ status' = IF pairs' = Unavailable THEN 503 ELSE 200
    /\ UNCHANGED <<auditVars, has_key, curate_llm>>

\* The answer is sent and everything but the client is forgotten.
Finish ==
    /\ status # 0
    /\ route' = "none" /\ status' = 0
    /\ IF audit_pc \in {"done", "failed"} THEN ForgetAudit ELSE UNCHANGED auditVars
    /\ IF recall_pc = "done" THEN ForgetRecall ELSE UNCHANGED recallVars
    /\ UNCHANGED <<has_key, curate_llm>>

Init ==
    /\ RecallInit /\ AuditInit
    /\ has_key \in BOOLEAN /\ curate_llm = FALSE
    /\ route = "none" /\ status = 0

Next ==
    \/ \E built \in BOOLEAN :
          \/ RefuseAudit(built)
          \/ \E r \in AuditRequests : StartAudit(r, built)
    \/ RunAudit
    \/ \E r \in RecallRequests : StartRecall(r)
    \/ RunRecall
    \/ \E r \in SimilarRequests, embedded \in BOOLEAN : RunSimilar(r, embedded)
    \/ Finish

Spec == Init /\ [][Next]_vars

\* A request that was begun goes on: every provider call returns or times out.
FairSpec == Spec /\ WF_vars(RunAudit \/ RunRecall \/ Finish)

-------------------------------------------------------------------------------
\* Every request is answered, whatever the LLM and the provider do: the loop
\* over the scored items ends and no node of the audit waits for another.
EveryRequestAnswered == route # "none" ~> route = "none"
===============================================================================
