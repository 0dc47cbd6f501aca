---------------------------- MODULE ContextComposer ----------------------------
(***************************************************************************)
(* One context for one task: SessionMemoryService.build_context sets the    *)
(* budget, V3ContextComposer.build fills the layers task, recall, archival  *)
(* and recent in that order from one budget, and the recall layer has been  *)
(* planned against the same budget by RecallPipeline before.                *)
(*                                                                         *)
(* An item is an id and the tokens of its text; which messages and passages *)
(* a query finds is the matter of EpisodeSearch and ArchivalSearch, here it *)
(* is part of the request.                                                  *)
(***************************************************************************)
EXTENDS Lists

CONSTANTS
    ContextRequests,    \* [task: tokens, asked: budget or Dynamic, found: the hits of
                        \*  the recall search, passages: those of the archival search,
                        \*  messages: the session's, oldest first]
    Dynamic,            \* no budget was asked for
    rot_safe_budget, hard_limit, recent_message_limit

Item == [id : Nat, tokens : Nat]

ASSUME ContextAssumption ==
    /\ rot_safe_budget \in Nat /\ hard_limit \in Nat /\ recent_message_limit \in Nat \ {0}
    /\ Dynamic \notin Nat
    /\ \A r \in ContextRequests :
          /\ r.task \in Nat /\ r.asked \in Nat \cup {Dynamic}
          /\ r.found \in Seq(Item) /\ r.passages \in Seq(Item) /\ r.messages \in Seq(Item)

VARIABLES
    layer,          \* "none", "task", "plan" (inside RecallPipeline), "recall",
                    \* "archival", "recent", "done"
    context,        \* the request
    budget,         \* effective_budget
    waiting,        \* items of the layer still to be looked at
    planned,        \* retrieved_evidence of RecallPipeline
    plan_used,      \* used of RecallPipeline.build_context
    plan_dropped,   \* how many hits it dropped
    used,           \* used of V3ContextComposer.build
    layer_used, layer_dropped,
    included,       \* package.items: [layer, id, tokens]
    decisions,      \* package.budget_decisions
    package         \* the answer, or NoPackage

contextVars == <<layer, context, budget, waiting, planned, plan_used, plan_dropped, used,
                 layer_used, layer_dropped, included, decisions, package>>

NoContext == [task |-> 0, asked |-> 0, found |-> <<>>, passages |-> <<>>, messages |-> <<>>]
NoPackage == [estimated_tokens |-> 0, candidate_budget_dropped |-> 0,
              recent_messages |-> <<>>, retrieved_evidence |-> <<>>, totals |-> <<>>]

Layers == {"task", "recall", "archival", "recent"}
Least(a, b) == IF a < b THEN a ELSE b
Most(a, b) == IF a < b THEN b ELSE a
TokensIn(s) == Total([i \in DOMAIN s |-> s[i].tokens], Len(s))

-------------------------------------------------------------------------------
\* DynamicBudget.compute: a longer task and more messages raise the budget.
DynamicBudget(task, messages) ==
    Least(rot_safe_budget + Least(task, 500) + Least(20 * messages, 400), hard_limit)

EffectiveBudget(r) ==
    IF r.asked = Dynamic THEN DynamicBudget(r.task, Len(r.messages))
    ELSE Least(r.asked, hard_limit)

\* The last recent_message_limit messages.
Recent(messages) ==
    SubSeq(messages, Most(1, Len(messages) - recent_message_limit + 1), Len(messages))

BuildContext(r) ==
    /\ layer = "none"
    /\ layer' = "task"
    /\ context' = r
    /\ budget' = EffectiveBudget(r)
    /\ waiting' = <<[id |-> 0, tokens |-> r.task]>>
    /\ UNCHANGED <<planned, plan_used, plan_dropped, used, layer_used, layer_dropped,
                   included, decisions, package>>

\* Mutant of Fits: the layer at hand is measured alone.
FitsLayer(item) == layer_used + item.tokens <= budget

Fits(item) == used + item.tokens <= budget

\* One turn of the loop of _try_add_layer.
TryItem ==
    /\ layer \in Layers /\ waiting # <<>>
    /\ waiting' = Tail(waiting)
    /\ \/ /\ Fits(Head(waiting))
          /\ used' = used + Head(waiting).tokens
          /\ layer_used' = layer_used + Head(waiting).tokens
          /\ included' = Append(included, [layer |-> layer, id |-> Head(waiting).id,
                                           tokens |-> Head(waiting).tokens])
          /\ UNCHANGED layer_dropped
       \/ /\ ~Fits(Head(waiting))
          /\ layer_dropped' = Append(layer_dropped, Head(waiting))
          /\ UNCHANGED <<used, layer_used, included>>
    /\ UNCHANGED <<layer, context, budget, planned, plan_used, plan_dropped, decisions, package>>

Requested(l) ==
    CASE l = "task" -> <<[id |-> 0, tokens |-> context.task]>>
      [] l = "recall" -> planned
      [] l = "archival" -> context.passages
      [] l = "recent" -> Recent(context.messages)

\* The LayerBudgetDecision that ends a layer.
Decision ==
    LET requested == TokensIn(Requested(layer))
    IN  [layer |-> layer, requested_tokens |-> requested,
         allocated_tokens |-> Least(requested, Most(0, budget - (used - layer_used))),
         used_tokens |-> layer_used, dropped |-> layer_dropped]

\* The task's layer ends and the recall pipeline starts from the task's tokens;
\* a task beyond the budget leaves it nothing to plan.
EndTask ==
    /\ layer = "task" /\ waiting = <<>>
    /\ decisions' = Append(decisions, Decision)
    /\ layer' = "plan"
    /\ plan_used' = context.task
    /\ IF context.task > budget
         THEN waiting' = <<>> /\ plan_dropped' = Len(context.found)
         ELSE waiting' = context.found /\ plan_dropped' = 0
    /\ layer_used' = 0 /\ layer_dropped' = <<>>
    /\ UNCHANGED <<context, budget, planned, used, included, package>>

\* Mutant of PlanFits: the pipeline does not count the task.
PlanFitsAlone(item) == plan_used - context.task + item.tokens <= budget

PlanFits(item) == plan_used + item.tokens <= budget

\* One turn of the loop over the hits in RecallPipeline.build_context.
PlanHit ==
    /\ layer = "plan" /\ waiting # <<>>
    /\ waiting' = Tail(waiting)
    /\ IF PlanFits(Head(waiting))
         THEN /\ planned' = Append(planned, Head(waiting))
              /\ plan_used' = plan_used + Head(waiting).tokens
              /\ UNCHANGED plan_dropped
         ELSE /\ plan_dropped' = plan_dropped + 1
              /\ UNCHANGED <<planned, plan_used>>
    /\ UNCHANGED <<layer, context, budget, used, layer_used, layer_dropped, included,
                   decisions, package>>

EndPlan ==
    /\ layer = "plan" /\ waiting = <<>>
    /\ layer' = "recall"
    /\ waiting' = planned
    /\ UNCHANGED <<context, budget, planned, plan_used, plan_dropped, used, layer_used,
                   layer_dropped, included, decisions, package>>

EndLayer(l, next) ==
    /\ layer = l /\ waiting = <<>>
    /\ decisions' = Append(decisions, Decision)
    /\ layer' = next
    /\ waiting' = Requested(next)
    /\ layer_used' = 0 /\ layer_dropped' = <<>>
    /\ UNCHANGED <<context, budget, planned, plan_used, plan_dropped, used, included, package>>

-------------------------------------------------------------------------------
Of(s, ls) == Kept(s, {i \in DOMAIN s : s[i].layer \in ls})

\* _refresh_component_accounting: an archival item has two rows, the selection
\* of its layer and the archival_selected of the eligibility report.
Totals(items) ==
    [l \in Layers |-> (IF l = "archival" THEN 2 ELSE 1) * TokensIn(Of(items, {l}))]

DroppedIn(ds) == Total([i \in DOMAIN ds |-> Len(ds[i].dropped)], Len(ds))

\* _context_package_from_v3; what the pipeline dropped itself is not in the count.
Package(items, ds) ==
    [estimated_tokens |-> used,
     candidate_budget_dropped |-> DroppedIn(ds),
     recent_messages |-> Of(items, {"recent"}),
     retrieved_evidence |-> Of(items, {"recall", "archival"}),
     totals |-> Totals(items)]

\* The last layer ends, the package is made and the trace written.
EndRecent ==
    /\ layer = "recent" /\ waiting = <<>>
    /\ decisions' = Append(decisions, Decision)
    /\ package' = Package(included, decisions')
    /\ layer' = "done"
    /\ layer_used' = 0 /\ layer_dropped' = <<>>
    /\ UNCHANGED <<context, budget, waiting, planned, plan_used, plan_dropped, used, included>>

ComposerStep ==
    \/ TryItem
    \/ EndTask
    \/ PlanHit
    \/ EndPlan
    \/ EndLayer("recall", "archival")
    \/ EndLayer("archival", "recent")
    \/ EndRecent

ForgetContext ==
    /\ layer' = "none" /\ context' = NoContext /\ budget' = 0 /\ waiting' = <<>>
    /\ planned' = <<>> /\ plan_used' = 0 /\ plan_dropped' = 0
    /\ used' = 0 /\ layer_used' = 0 /\ layer_dropped' = <<>>
    /\ included' = <<>> /\ decisions' = <<>> /\ package' = NoPackage

ContextInit ==
    /\ layer = "none" /\ context = NoContext /\ budget = 0 /\ waiting = <<>>
    /\ planned = <<>> /\ plan_used = 0 /\ plan_dropped = 0
    /\ used = 0 /\ layer_used = 0 /\ layer_dropped = <<>>
    /\ included = <<>> /\ decisions = <<>> /\ package = NoPackage

ContextNext ==
    \/ \E r \in ContextRequests : BuildContext(r)
    \/ ComposerStep
    \/ layer = "done" /\ ForgetContext

ContextSpec == ContextInit /\ [][ContextNext]_contextVars

-------------------------------------------------------------------------------
\* No layer takes what another has used, at any moment of the filling.
UsedWithinBudget == used <= budget

\* The recall layer takes in all that the pipeline has planned: the two count
\* the same budget from the same task.
RecallLayerDropsNothing == layer = "recall" => layer_dropped = <<>>

UsedIn(ds) == Total([i \in DOMAIN ds |-> ds[i].used_tokens], Len(ds))

\* The context stays within its budget, what RecallPipeline planned is never
\* dropped again by the composer, and at the end the reports agree: the
\* estimate is what the items cost, every decision stays within what it was
\* allocated, and each item that was asked for is in the package or counted as
\* dropped (V3ContextComposer.build, SessionMemoryService.build_context).
ContextWithinBudget ==
    /\ UsedWithinBudget
    /\ RecallLayerDropsNothing
    /\ layer = "done" =>
          /\ package.estimated_tokens = TokensIn(included)
          /\ package.estimated_tokens = UsedIn(decisions)
          /\ \A i \in DOMAIN decisions :
                /\ decisions[i].used_tokens <= decisions[i].allocated_tokens
                /\ decisions[i].used_tokens + TokensIn(decisions[i].dropped)
                     = decisions[i].requested_tokens
          /\ Len(included) + package.candidate_budget_dropped + plan_dropped
               = 1 + Len(context.found) + Len(context.passages)
                   + Len(Recent(context.messages))
===============================================================================
