---------------------------- MODULE EvaluationProofs ----------------------------
(***************************************************************************)
(* The parts of the evaluation programs, for any of their constants:        *)
(* contexts cost no more than their budget and add up, asks are bounded and *)
(* answer with what is current first, searches of messages and of the       *)
(* archive keep to what they may answer with, a disk cache of LLM calls     *)
(* gives a call the same reply for ever, and a benchmark that died goes on  *)
(* as if it had not.                                                        *)
(***************************************************************************)
EXTENDS EpisodeSearch, ArchivalSearch, ContextComposer, SourceEvidence, AskGraph, ResponseCache,
        PublicBenchmark, CollectionLemmas, FiniteSetTheorems, SequenceTheorems, TLAPS

-------------------------------------------------------------------------------
(***************************************************************************)
(* ContextComposer: a context never costs more than its budget, the recall *)
(* layer takes in what RecallPipeline planned, and the totals add up.      *)
(***************************************************************************)

ContextTypes ==
    /\ context.task \in Nat /\ context.found \in Seq(Item)
    /\ context.passages \in Seq(Item) /\ context.messages \in Seq(Item)
    /\ budget \in Nat /\ used \in Nat /\ plan_used \in Nat
    /\ waiting \in Seq(Item) /\ planned \in Seq(Item)

\* S[i] is what the task and the first i parts cost.
Sums(S, parts, task, limit) ==
    /\ S \in [0..Len(parts) -> Nat]
    /\ S[0] = task
    /\ \A i \in 1..Len(parts) : S[i] = S[i - 1] + parts[i].tokens
    /\ task <= limit => \A i \in 0..Len(parts) : S[i] <= limit

\* Nothing is planned after a task beyond the budget; any other is used.
TaskInv ==
    /\ context.task <= budget => used = context.task
    /\ context.task > budget => waiting = <<>> /\ planned = <<>>

PlanInv ==
    layer = "plan" =>
        /\ layer_dropped = <<>> /\ TaskInv
        /\ \E S : Sums(S, planned, context.task, budget) /\ plan_used = S[Len(planned)]

\* The layer has taken in all but the waiting ones of the planned items.
RecallInv ==
    layer = "recall" =>
        /\ layer_dropped = <<>>
        /\ context.task > budget => planned = <<>>
        /\ \E S : \E k \in 0..Len(planned) :
              /\ Sums(S, planned, context.task, budget)
              /\ Len(waiting) = Len(planned) - k
              /\ \A j \in 1..Len(waiting) : waiting[j] = planned[k + j]
              /\ context.task <= budget => used = S[k]

StartInv ==
    /\ layer = "none" => used = 0 /\ planned = <<>> /\ layer_dropped = <<>>
    /\ layer = "task" =>
          /\ planned = <<>>
          /\ \/ waiting = <<[id |-> 0, tokens |-> context.task]>> /\ used = 0
             \/ waiting = <<>> /\ (context.task <= budget => used = context.task)

ContextInv == ContextTypes /\ StartInv /\ PlanInv /\ RecallInv /\ UsedWithinBudget

-------------------------------------------------------------------------------
\* The budget of a request is a number of tokens.
LEMMA BudgetIsNat ==
  ASSUME NEW r \in ContextRequests
  PROVE  EffectiveBudget(r) \in Nat
<1>1. /\ r.task \in Nat /\ r.asked \in Nat \cup {Dynamic} /\ Len(r.messages) \in Nat
      /\ rot_safe_budget \in Nat /\ hard_limit \in Nat
  BY ContextAssumption
<1>2. DynamicBudget(r.task, Len(r.messages)) \in Nat
  BY <1>1, SMTT(30) DEF DynamicBudget, Least
<1> QED
  BY <1>1, <1>2 DEF EffectiveBudget, Least

\* The last messages are messages.
LEMMA RecentIsItems ==
  ASSUME NEW s \in Seq(Item)
  PROVE  Recent(s) \in Seq(Item)
<1>1. recent_message_limit \in Nat \ {0} /\ Len(s) \in Nat
  BY ContextAssumption
<1>2. Most(1, Len(s) - recent_message_limit + 1) \in 1..(Len(s) + 1)
  BY <1>1 DEF Most
<1> QED
  BY <1>1, <1>2, SubSeqProperties DEF Recent

\* The first of a sequence and what is left of it.
LEMMA HeadAndTail ==
  ASSUME NEW s \in Seq(Item), s # <<>>
  PROVE  /\ Head(s) \in Item /\ Head(s) = s[1] /\ Head(s).tokens \in Nat
         /\ Tail(s) \in Seq(Item)
         /\ Len(s) \in Nat \ {0} /\ Len(Tail(s)) = Len(s) - 1
         /\ \A j \in 1..Len(Tail(s)) : Tail(s)[j] = s[j + 1]
<1>1. Head(s) \in Item /\ Head(s) = s[1] /\ Tail(s) \in Seq(Item)
  BY HeadTailProperties
<1>2. Len(s) \in Nat \ {0} /\ Len(Tail(s)) = Len(s) - 1
  BY HeadTailProperties
<1>3. \A j \in 1..Len(Tail(s)) : Tail(s)[j] = s[j + 1]
  BY HeadTailProperties
<1> QED
  BY <1>1, <1>2, <1>3 DEF Item

-------------------------------------------------------------------------------
\* A context begins.
LEMMA BeginKeeps ==
  ASSUME ContextInv, NEW r \in ContextRequests, BuildContext(r)
  PROVE  ContextInv'
<1>0. ContextTypes /\ StartInv /\ layer = "none" /\ used = 0 /\ planned = <<>> /\ plan_used \in Nat
  BY DEF ContextInv, StartInv, BuildContext, ContextTypes
<1>1. /\ layer' = "task" /\ context' = r /\ budget' = EffectiveBudget(r)
      /\ waiting' = <<[id |-> 0, tokens |-> r.task]>>
      /\ planned' = <<>> /\ plan_used' = plan_used /\ used' = 0
  BY <1>0 DEF BuildContext
<1>2. /\ r.task \in Nat /\ r.found \in Seq(Item) /\ r.passages \in Seq(Item)
      /\ r.messages \in Seq(Item)
  BY ContextAssumption
<1>3. waiting' \in Seq(Item)
  BY <1>1, <1>2 DEF Item
<1>4. ContextTypes'
  BY <1>0, <1>1, <1>2, <1>3, BudgetIsNat DEF ContextTypes
<1>5. budget' \in Nat
  BY <1>4 DEF ContextTypes
<1>6. StartInv' /\ PlanInv' /\ RecallInv' /\ UsedWithinBudget'
  BY <1>1, <1>5 DEF StartInv, PlanInv, RecallInv, UsedWithinBudget
<1> QED
  BY <1>4, <1>6 DEF ContextInv

\* An item enters its layer, or is dropped: never in the recall layer.
LEMMA TryKeeps ==
  ASSUME ContextInv, TryItem
  PROVE  ContextInv'
<1>0. /\ ContextTypes /\ StartInv /\ RecallInv /\ UsedWithinBudget
      /\ layer \in Layers /\ waiting # <<>> /\ waiting' = Tail(waiting)
      /\ layer' = layer /\ context' = context /\ budget' = budget /\ planned' = planned
      /\ plan_used' = plan_used
  BY DEF ContextInv, TryItem
<1>1. /\ Head(waiting).tokens \in Nat /\ Head(waiting) = waiting[1]
      /\ waiting' \in Seq(Item) /\ Len(waiting) \in Nat \ {0}
      /\ Len(waiting') = Len(waiting) - 1
      /\ \A j \in 1..Len(waiting') : waiting'[j] = waiting[j + 1]
  BY <1>0, HeadAndTail DEF ContextTypes
<1>2. \/ /\ used + Head(waiting).tokens <= budget
         /\ used' = used + Head(waiting).tokens /\ layer_dropped' = layer_dropped
      \/ ~(used + Head(waiting).tokens <= budget) /\ used' = used
  BY DEF TryItem, Fits
<1>3. ContextTypes' /\ UsedWithinBudget'
  BY <1>0, <1>1, <1>2 DEF ContextTypes, UsedWithinBudget
<1>4. PlanInv'
  BY <1>0 DEF PlanInv, Layers
<1>5. StartInv'
  <2>1. layer # "none"
    BY <1>0 DEF Layers
  <2>2. CASE layer = "task"
    <3>1. waiting = <<[id |-> 0, tokens |-> context.task]>> /\ used = 0 /\ planned = <<>>
      BY <1>0, <2>2 DEF StartInv
    <3>2. waiting' = <<>> /\ Head(waiting).tokens = context.task
      BY <1>0, <3>1
    <3>3. context.task <= budget => used' = context.task
      BY <1>0, <1>2, <3>1, <3>2 DEF ContextTypes
    <3> QED
      BY <1>0, <2>2, <3>1, <3>2, <3>3 DEF StartInv
  <2>3. CASE layer # "task"
    BY <1>0, <2>1, <2>3 DEF StartInv
  <2> QED
    BY <2>2, <2>3
<1>6. RecallInv'
  <2> SUFFICES ASSUME layer = "recall" PROVE RecallInv'
    BY <1>0 DEF RecallInv
  <2>0. Len(planned) \in Nat
    BY <1>0 DEF ContextTypes
  <2>1. PICK S : \E k \in 0..Len(planned) :
              /\ Sums(S, planned, context.task, budget)
              /\ Len(waiting) = Len(planned) - k
              /\ \A j \in 1..Len(waiting) : waiting[j] = planned[k + j]
              /\ context.task <= budget => used = S[k]
    BY <1>0 DEF RecallInv
  <2>2. PICK k \in 0..Len(planned) :
              /\ Sums(S, planned, context.task, budget)
              /\ Len(waiting) = Len(planned) - k
              /\ \A j \in 1..Len(waiting) : waiting[j] = planned[k + j]
              /\ context.task <= budget => used = S[k]
    BY <2>1
  <2>3. k \in Nat /\ k + 1 \in 1..Len(planned)
    BY <1>1, <2>0, <2>2
  <2>4. context.task <= budget
    <3>1. planned # <<>>
      BY <2>0, <2>3
    <3> QED
      BY <1>0, <3>1 DEF RecallInv, ContextTypes
  <2>5. S[k + 1] = S[k] + planned[k + 1].tokens /\ S[k + 1] <= budget
    <3>1. S[k + 1] = S[(k + 1) - 1] + planned[k + 1].tokens /\ S[k + 1] <= budget
      BY <2>0, <2>2, <2>3, <2>4 DEF Sums
    <3>2. (k + 1) - 1 = k
      BY <2>3
    <3> QED
      BY <3>1, <3>2
  <2>6. waiting[1] = planned[k + 1]
    <3>1. 1 \in 1..Len(waiting)
      BY <1>1
    <3> QED
      BY <2>2, <3>1
  <2>7. used' = S[k + 1] /\ layer_dropped' = layer_dropped
    <3>1. used = S[k] /\ Head(waiting) = planned[k + 1]
      BY <1>1, <2>2, <2>4, <2>6
    <3>2. used + Head(waiting).tokens = S[k + 1]
      BY <2>5, <3>1
    <3>3. used + Head(waiting).tokens <= budget
      BY <2>5, <3>2
    <3> QED
      BY <1>2, <3>2, <3>3
  <2>8. ASSUME NEW j \in 1..Len(waiting')
        PROVE  waiting'[j] = planned[(k + 1) + j]
    <3>1. j + 1 \in 1..Len(waiting) /\ j \in Nat
      BY <1>1
    <3>2. waiting'[j] = waiting[j + 1] /\ waiting[j + 1] = planned[k + (j + 1)]
      BY <1>1, <2>2, <3>1
    <3>3. k + (j + 1) = (k + 1) + j
      BY <2>3, <3>1
    <3> QED
      BY <3>2, <3>3
  <2>9. Len(waiting') = Len(planned) - (k + 1) /\ k + 1 \in 0..Len(planned)
    BY <1>1, <2>0, <2>2, <2>3
  <2>10. Sums(S, planned', context.task', budget')
    BY <1>0, <2>2 DEF Sums
  <2>11. layer_dropped' = <<>> /\ (context.task > budget => planned = <<>>)
    BY <1>0, <2>7 DEF RecallInv
  <2>12. \E T : \E l \in 0..Len(planned) :
              /\ Sums(T, planned', context.task', budget')
              /\ Len(waiting') = Len(planned) - l
              /\ \A j \in 1..Len(waiting') : waiting'[j] = planned[l + j]
              /\ context.task <= budget => used' = T[l]
    BY <2>7, <2>8, <2>9, <2>10
  <2> QED
    BY <1>0, <2>11, <2>12 DEF RecallInv
<1> QED
  BY <1>3, <1>4, <1>5, <1>6 DEF ContextInv

\* The planning begins with the task's tokens.
LEMMA EndTaskKeeps ==
  ASSUME ContextInv, EndTask
  PROVE  ContextInv'
<1>0. /\ ContextTypes /\ StartInv /\ UsedWithinBudget /\ layer = "task" /\ waiting = <<>>
      /\ layer' = "plan" /\ plan_used' = context.task /\ layer_dropped' = <<>>
      /\ context' = context /\ budget' = budget /\ planned' = planned /\ used' = used
      /\ waiting' = IF context.task > budget THEN <<>> ELSE context.found
  BY DEF ContextInv, EndTask
<1>1. planned = <<>> /\ (context.task <= budget => used = context.task)
  BY <1>0 DEF StartInv
<1>2. ContextTypes' /\ UsedWithinBudget'
  BY <1>0 DEF ContextTypes, UsedWithinBudget
<1>3. TaskInv'
  BY <1>0, <1>1 DEF TaskInv, ContextTypes
<1>4. \E S : Sums(S, planned', context.task', budget') /\ plan_used' = S[Len(planned')]
  <2> DEFINE S0 == [i \in 0..0 |-> context.task]
  <2>1. planned' = <<>> /\ Len(planned') = 0
    BY <1>0, <1>1
  <2>2. S0 \in [0..0 -> Nat] /\ S0[0] = context.task
    BY <1>0 DEF ContextTypes
  <2>3. \A i \in 0..0 : S0[i] = context.task
    OBVIOUS
  <2> HIDE DEF S0
  <2>4. Sums(S0, planned', context.task', budget')
    BY <1>0, <2>1, <2>2, <2>3 DEF Sums
  <2> QED
    BY <1>0, <2>1, <2>2, <2>4
<1> QED
  BY <1>0, <1>2, <1>3, <1>4 DEF ContextInv, StartInv, PlanInv, RecallInv

\* A hit is planned if it fits.
LEMMA PlanKeeps ==
  ASSUME ContextInv, PlanHit
  PROVE  ContextInv'
<1>0. /\ ContextTypes /\ PlanInv /\ UsedWithinBudget /\ layer = "plan" /\ waiting # <<>>
      /\ waiting' = Tail(waiting) /\ layer' = layer /\ context' = context
      /\ budget' = budget /\ used' = used /\ layer_dropped' = layer_dropped
  BY DEF ContextInv, PlanHit
<1>1. /\ Head(waiting) \in Item /\ Head(waiting).tokens \in Nat /\ waiting' \in Seq(Item)
  BY <1>0, HeadAndTail DEF ContextTypes
<1>2. context.task <= budget /\ used = context.task /\ layer_dropped = <<>>
  BY <1>0 DEF PlanInv, TaskInv, ContextTypes
<1>3. PICK S : Sums(S, planned, context.task, budget) /\ plan_used = S[Len(planned)]
  BY <1>0 DEF PlanInv
<1>4. StartInv' /\ RecallInv' /\ UsedWithinBudget' /\ TaskInv' /\ layer_dropped' = <<>>
  BY <1>0, <1>2 DEF StartInv, RecallInv, UsedWithinBudget, TaskInv, ContextTypes
<1>5. CASE PlanFits(Head(waiting))
  <2> DEFINE n == Len(planned)
             T == [i \in 0..(n + 1) |-> IF i = n + 1 THEN plan_used' ELSE S[i]]
  <2>1. /\ planned' = Append(planned, Head(waiting))
        /\ plan_used' = plan_used + Head(waiting).tokens /\ plan_used' <= budget
    BY <1>5 DEF PlanHit, PlanFits
  <2>2. n \in Nat /\ plan_used' \in Nat /\ planned' \in Seq(Item)
    BY <1>0, <1>1, <2>1, SMTT(30) DEF ContextTypes
  <2>3. ContextTypes'
    BY <1>0, <1>1, <2>2 DEF ContextTypes
  <2>4. /\ Len(planned') = n + 1 /\ planned'[n + 1] = Head(waiting)
        /\ \A i \in 1..n : planned'[i] = planned[i]
    BY <1>0, <1>1, <2>1, AppendProperties DEF ContextTypes
  <2>5. /\ S \in [0..n -> Nat] /\ S[0] = context.task
        /\ \A i \in 1..n : S[i] = S[i - 1] + planned[i].tokens
        /\ \A i \in 0..n : S[i] <= budget
        /\ S[n] = plan_used
    BY <1>2, <1>3 DEF Sums
  <2>6. T[n + 1] = plan_used' /\ \A i \in 0..n : T[i] = S[i]
    BY <2>2
  <2>7. T \in [0..(n + 1) -> Nat]
    BY <2>2, <2>5
  <2> HIDE DEF T
  <2>8. ASSUME NEW i \in 1..(n + 1)
        PROVE  T[i] = T[i - 1] + planned'[i].tokens
    <3>1. CASE i = n + 1
      <4>1. i - 1 = n /\ n \in 0..n
        BY <2>2, <3>1
      <4>2. T[i - 1] = plan_used
        BY <2>5, <2>6, <4>1
      <4> QED
        BY <2>1, <2>4, <2>6, <3>1, <4>2
    <3>2. CASE i # n + 1
      <4>1. i \in 1..n /\ i \in 0..n /\ i - 1 \in 0..n
        BY <2>2, <3>2
      <4> QED
        BY <2>4, <2>5, <2>6, <4>1
    <3> QED
      BY <3>1, <3>2
  <2>9. ASSUME NEW i \in 0..(n + 1)
        PROVE  T[i] <= budget
    <3>1. i = n + 1 \/ i \in 0..n
      BY <2>2
    <3> QED
      BY <2>1, <2>5, <2>6, <3>1
  <2>10. T[0] = context.task
    <3>1. 0 \in 0..n
      BY <2>2
    <3> QED
      BY <2>5, <2>6, <3>1
  <2> HIDE DEF n
  <2>11. Sums(T, planned', context.task', budget')
    BY <1>0, <2>4, <2>7, <2>8, <2>9, <2>10 DEF Sums
  <2>12. PlanInv'
    BY <1>4, <2>4, <2>6, <2>11 DEF PlanInv
  <2> QED
    BY <1>4, <2>3, <2>12 DEF ContextInv
<1>6. CASE ~PlanFits(Head(waiting))
  <2>1. planned' = planned /\ plan_used' = plan_used
    BY <1>6 DEF PlanHit
  <2>2. ContextTypes' /\ Sums(S, planned', context.task', budget')
    BY <1>0, <1>1, <1>3, <2>1 DEF ContextTypes, Sums
  <2> QED
    BY <1>3, <1>4, <2>1, <2>2 DEF ContextInv, PlanInv
<1> QED
  BY <1>5, <1>6

\* What was planned waits for the recall layer.
LEMMA EndPlanKeeps ==
  ASSUME ContextInv, EndPlan
  PROVE  ContextInv'
<1>0. /\ ContextTypes /\ PlanInv /\ UsedWithinBudget /\ layer = "plan" /\ layer' = "recall"
      /\ waiting' = planned /\ context' = context /\ budget' = budget /\ planned' = planned
      /\ plan_used' = plan_used /\ used' = used /\ layer_dropped' = layer_dropped
  BY DEF ContextInv, EndPlan
<1>1. ContextTypes' /\ StartInv' /\ PlanInv' /\ UsedWithinBudget'
  BY <1>0 DEF ContextTypes, StartInv, PlanInv, UsedWithinBudget
<1>2. /\ layer_dropped = <<>> /\ (context.task <= budget => used = context.task)
      /\ context.task > budget => planned = <<>>
  BY <1>0 DEF PlanInv, TaskInv
<1>3. PICK S : Sums(S, planned, context.task, budget)
  BY <1>0 DEF PlanInv
<1>4. Len(planned) \in Nat /\ 0 \in 0..Len(planned) /\ Len(planned) = Len(planned) - 0
  BY <1>0 DEF ContextTypes
<1>5. \A j \in 1..Len(planned) : planned[j] = planned[0 + j]
  BY <1>4
<1>6. Sums(S, planned', context.task', budget') /\ S[0] = context.task
  BY <1>0, <1>3 DEF Sums
<1>7. \E T : \E k \in 0..Len(planned) :
            /\ Sums(T, planned', context.task', budget')
            /\ Len(waiting') = Len(planned) - k
            /\ \A j \in 1..Len(waiting') : waiting'[j] = planned[k + j]
            /\ context.task <= budget => used' = T[k]
  BY <1>0, <1>2, <1>4, <1>5, <1>6
<1>8. RecallInv'
  BY <1>0, <1>2, <1>7 DEF RecallInv
<1> QED
  BY <1>1, <1>8 DEF ContextInv

\* The layers after recall, and the end, only have the budget to keep.
LEMMA LaterKeeps ==
  ASSUME ContextInv,
         \/ EndLayer("recall", "archival") \/ EndLayer("archival", "recent") \/ EndRecent
         \/ (layer = "done" /\ ForgetContext) \/ UNCHANGED contextVars
  PROVE  ContextInv'
<1>0. ContextTypes /\ StartInv /\ PlanInv /\ RecallInv /\ UsedWithinBudget
  BY DEF ContextInv
<1>1. CASE EndLayer("recall", "archival")
  <2>1. /\ layer' = "archival" /\ waiting' = context.passages /\ context' = context
        /\ budget' = budget /\ planned' = planned /\ plan_used' = plan_used /\ used' = used
    BY <1>1 DEF EndLayer, Requested
  <2> QED
    BY <1>0, <2>1 DEF ContextInv, ContextTypes, StartInv, PlanInv, RecallInv, UsedWithinBudget
<1>2. CASE EndLayer("archival", "recent")
  <2>1. /\ layer' = "recent" /\ waiting' = Recent(context.messages) /\ context' = context
        /\ budget' = budget /\ planned' = planned /\ plan_used' = plan_used /\ used' = used
    BY <1>2 DEF EndLayer, Requested
  <2>2. waiting' \in Seq(Item)
    BY <1>0, <2>1, RecentIsItems DEF ContextTypes
  <2> QED
    BY <1>0, <2>1, <2>2 DEF ContextInv, ContextTypes, StartInv, PlanInv, RecallInv, UsedWithinBudget
<1>3. CASE EndRecent
  <2>1. /\ layer' = "done" /\ waiting' = waiting /\ context' = context
        /\ budget' = budget /\ planned' = planned /\ plan_used' = plan_used /\ used' = used
    BY <1>3 DEF EndRecent
  <2> QED
    BY <1>0, <2>1 DEF ContextInv, ContextTypes, StartInv, PlanInv, RecallInv, UsedWithinBudget
<1>4. CASE ForgetContext
  <2>1. /\ layer' = "none" /\ waiting' = <<>> /\ context' = NoContext /\ layer_dropped' = <<>>
        /\ budget' = 0 /\ planned' = <<>> /\ plan_used' = 0 /\ used' = 0
    BY <1>4 DEF ForgetContext
  <2> QED
    BY <2>1 DEF ContextInv, ContextTypes, StartInv, PlanInv, RecallInv, UsedWithinBudget, NoContext
<1>5. CASE UNCHANGED contextVars
  <2>1. /\ layer' = layer /\ waiting' = waiting /\ context' = context /\ budget' = budget
        /\ planned' = planned /\ plan_used' = plan_used /\ used' = used
        /\ layer_dropped' = layer_dropped
    BY <1>5 DEF contextVars
  <2>2. ContextTypes' /\ StartInv' /\ UsedWithinBudget'
    BY <1>0, <2>1 DEF ContextTypes, StartInv, UsedWithinBudget
  <2>3. PlanInv'
    BY <1>0, <2>1 DEF PlanInv, TaskInv
  <2>4. RecallInv'
    BY <1>0, <2>1 DEF RecallInv
  <2> QED
    BY <2>2, <2>3, <2>4 DEF ContextInv
<1> QED
  BY <1>1, <1>2, <1>3, <1>4, <1>5

-------------------------------------------------------------------------------
\* The strengthened invariant holds throughout.
LEMMA Filling == ContextSpec => []ContextInv
<1>1. ContextInit => ContextInv
  BY DEF ContextInit, NoContext, ContextInv, ContextTypes, StartInv, PlanInv, RecallInv,
         UsedWithinBudget
<1>2. ContextInv /\ [ContextNext]_contextVars => ContextInv'
  BY BeginKeeps, TryKeeps, EndTaskKeeps, PlanKeeps, EndPlanKeeps, LaterKeeps
     DEF ContextNext, ComposerStep
<1> QED
  BY <1>1, <1>2, PTL DEF ContextSpec

\* What the layers use together never exceeds the budget, at any moment
\* (V3ContextComposer.build).
THEOREM BudgetHolds == ContextSpec => []UsedWithinBudget
<1>1. ContextInv => UsedWithinBudget
  BY DEF ContextInv
<1> QED
  BY <1>1, Filling, PTL

\* What RecallPipeline planned is never dropped by the composer, although the
\* two loops count the budget apart (RecallPipeline.build_context,
\* V3ContextComposer.build).
THEOREM PlannedIsIncluded == ContextSpec => []RecallLayerDropsNothing
<1>1. ContextInv => RecallLayerDropsNothing
  BY DEF ContextInv, RecallInv, RecallLayerDropsNothing
<1> QED
  BY <1>1, Filling, PTL

-------------------------------------------------------------------------------
IncludedItem == [layer : Layers, id : Nat, tokens : Nat]
LayerDecision == [layer : Layers, requested_tokens : Nat, allocated_tokens : Nat,
                  used_tokens : Nat, dropped : Seq(Item)]

AccountTypes ==
    /\ context.task \in Nat /\ context.found \in Seq(Item)
    /\ context.passages \in Seq(Item) /\ context.messages \in Seq(Item)
    /\ budget \in Nat /\ used \in Nat /\ layer_used \in Nat /\ plan_dropped \in Nat
    /\ waiting \in Seq(Item) /\ planned \in Seq(Item) /\ layer_dropped \in Seq(Item)
    /\ included \in Seq(IncludedItem) /\ decisions \in Seq(LayerDecision)

\* What a layer asked for is taken, dropped or waiting.
LayerInv ==
    /\ layer \in Layers =>
          layer_used + TokensIn(layer_dropped) + TokensIn(waiting) = TokensIn(Requested(layer))
    /\ layer \notin Layers => layer_used = 0 /\ layer_dropped = <<>>

DecisionsInv ==
    \A i \in 1..Len(decisions) :
        /\ decisions[i].used_tokens <= decisions[i].allocated_tokens
        /\ decisions[i].used_tokens + TokensIn(decisions[i].dropped)
             = decisions[i].requested_tokens

UsedInv ==
    /\ used <= budget
    /\ used = TokensIn(included)
    /\ used = UsedIn(decisions) + layer_used

\* The items looked at so far, layer by layer.
ItemsSeen == Len(included) + DroppedIn(decisions) + Len(layer_dropped)
CountInv ==
    /\ layer = "task" => ItemsSeen + Len(waiting) = 1
    /\ layer = "plan" =>
          /\ ItemsSeen = 1
          /\ Len(planned) + plan_dropped + Len(waiting) = Len(context.found)
    /\ layer \in {"recall", "archival", "recent", "done"} =>
          Len(planned) + plan_dropped = Len(context.found)
    /\ layer = "recall" => ItemsSeen + Len(waiting) = 1 + Len(planned)
    /\ layer = "archival" =>
          ItemsSeen + Len(waiting) = 1 + Len(planned) + Len(context.passages)
    /\ layer = "recent" =>
          ItemsSeen + Len(waiting)
            = 1 + Len(planned) + Len(context.passages) + Len(Recent(context.messages))
    /\ layer = "done" =>
          ItemsSeen = 1 + Len(planned) + Len(context.passages) + Len(Recent(context.messages))

\* Between two contexts all is empty; at the end the package says what there is.
EndInv ==
    /\ layer = "none" =>
          /\ used = 0 /\ layer_used = 0 /\ waiting = <<>> /\ planned = <<>>
          /\ included = <<>> /\ decisions = <<>> /\ plan_dropped = 0
    /\ layer = "task" => planned = <<>> /\ plan_dropped = 0
    /\ layer = "done" =>
          /\ package.estimated_tokens = used
          /\ package.candidate_budget_dropped = DroppedIn(decisions)

AccountInv ==
    /\ layer \in Layers \cup {"none", "plan", "done"}
    /\ AccountTypes /\ LayerInv /\ DecisionsInv /\ UsedInv /\ CountInv /\ EndInv

-------------------------------------------------------------------------------
\* The tokens of no item, and of one item more.
LEMMA NoTokens == TokensIn(<<>>) = 0 /\ DroppedIn(<<>>) = 0 /\ UsedIn(<<>>) = 0
<1>1. ASSUME NEW f PROVE Total(f, 0) = 0
  <2>1. 0 \in Nat /\ \A i \in 1..0 : f[i] \in Nat
    OBVIOUS
  <2> QED
    BY <2>1, TotalGrows
<1>2. Len(<<>>) = 0
  OBVIOUS
<1> QED
  BY <1>1, <1>2, Zenon DEF TokensIn, DroppedIn, UsedIn

LEMMA MoreTokens ==
  ASSUME NEW S, \A y \in S : y.tokens \in Nat, NEW s \in Seq(S), NEW x \in S
  PROVE  /\ TokensIn(s) \in Nat
         /\ TokensIn(Append(s, x)) = TokensIn(s) + x.tokens
<1> DEFINE n == Len(s)
           u == Append(s, x)
           f == [i \in DOMAIN s |-> s[i].tokens]
           g == [i \in DOMAIN u |-> u[i].tokens]
<1>1. /\ n \in Nat /\ DOMAIN s = 1..n /\ \A i \in 1..n : s[i] \in S
  OBVIOUS
<1>2. /\ u \in Seq(S) /\ Len(u) = n + 1 /\ u[n + 1] = x
      /\ \A i \in 1..n : u[i] = s[i]
  BY AppendProperties
<1>3. DOMAIN u = 1..(n + 1)
  BY <1>2
<1> HIDE DEF n, u
<1>4. \A i \in 1..n : f[i] = s[i].tokens /\ f[i] \in Nat
  BY <1>1
<1>5. /\ \A i \in 1..n : g[i] = f[i]
      /\ g[n + 1] = x.tokens /\ g[n + 1] \in Nat
  BY <1>1, <1>2, <1>3
<1>6. TokensIn(s) = Total(f, n) /\ TokensIn(u) = Total(g, n + 1)
  BY <1>2, Zenon DEF TokensIn, n
<1> HIDE DEF f, g
<1>7. Total(f, n) \in Nat /\ Total(g, n + 1) = Total(f, n) + g[n + 1]
  BY <1>1, <1>4, <1>5, TotalLast
<1> QED
  BY <1>5, <1>6, <1>7 DEF u

\* The tokens of the first item and of those that follow it.
LEMMA FirstTokens ==
  ASSUME NEW s \in Seq(Item), s # <<>>
  PROVE  /\ TokensIn(s) = Head(s).tokens + TokensIn(Tail(s))
         /\ TokensIn(Tail(s)) \in Nat
<1> DEFINE u == Tail(s)
           n == Len(u)
           f == [i \in DOMAIN s |-> s[i].tokens]
           g == [i \in DOMAIN u |-> u[i].tokens]
<1>1. /\ Head(s) = s[1] /\ u \in Seq(Item) /\ Len(s) = n + 1 /\ n \in Nat
      /\ \A j \in 1..n : u[j] = s[j + 1]
  BY HeadAndTail
<1>2. DOMAIN s = 1..(n + 1) /\ DOMAIN u = 1..n /\ 1 \in 1..(n + 1)
  BY <1>1
<1>3. ASSUME NEW i \in 1..(n + 1) PROVE s[i].tokens \in Nat
  <2>1. i \in 1..Len(s)
    BY <1>1
  <2>2. s[i] \in Item
    BY <2>1, ElementOfSeq, Zenon
  <2> QED
    BY <2>2 DEF Item
<1> HIDE DEF u, n
<1>4. /\ \A i \in 1..(n + 1) : f[i] \in Nat
      /\ f[1] = Head(s).tokens
  BY <1>1, <1>2, <1>3
<1>5. ASSUME NEW i \in 1..n PROVE g[i] = f[i + 1] /\ g[i] \in Nat
  <2>1. i + 1 \in 1..(n + 1) /\ u[i] = s[i + 1]
    BY <1>1
  <2> QED
    BY <1>2, <1>3, <2>1
<1>6. TokensIn(s) = Total(f, n + 1) /\ TokensIn(u) = Total(g, n)
  BY <1>1, Zenon DEF TokensIn, n
<1> HIDE DEF f, g
<1>7. Total(f, n + 1) = f[1] + Total(g, n)
  BY <1>1, <1>4, <1>5, TotalFirst
<1>8. Total(g, n) \in Nat
  BY <1>1, <1>5, TotalGrows
<1> QED
  BY <1>4, <1>6, <1>7, <1>8 DEF u

\* What one decision more adds.
LEMMA MoreDecisions ==
  ASSUME NEW ds \in Seq(LayerDecision), NEW d \in LayerDecision
  PROVE  /\ DroppedIn(ds) \in Nat /\ UsedIn(ds) \in Nat
         /\ DroppedIn(Append(ds, d)) = DroppedIn(ds) + Len(d.dropped)
         /\ UsedIn(Append(ds, d)) = UsedIn(ds) + d.used_tokens
<1> DEFINE n == Len(ds)
           u == Append(ds, d)
           f == [i \in DOMAIN ds |-> Len(ds[i].dropped)]
           g == [i \in DOMAIN u |-> Len(u[i].dropped)]
           h == [i \in DOMAIN ds |-> ds[i].used_tokens]
           k == [i \in DOMAIN u |-> u[i].used_tokens]
<1>1. n \in Nat /\ DOMAIN ds = 1..n /\ \A i \in 1..n : ds[i] \in LayerDecision
  OBVIOUS
<1>2. /\ u \in Seq(LayerDecision) /\ Len(u) = n + 1 /\ u[n + 1] = d
      /\ \A i \in 1..n : u[i] = ds[i]
  BY AppendProperties
<1>3. DOMAIN u = 1..(n + 1) /\ n + 1 \in 1..(n + 1) /\ \A i \in 1..n : i \in 1..(n + 1)
  BY <1>1, <1>2
<1> HIDE DEF n, u
<1>4. ASSUME NEW x \in LayerDecision
      PROVE  Len(x.dropped) \in Nat /\ x.used_tokens \in Nat
  BY DEF LayerDecision
<1>5. /\ \A i \in 1..n : f[i] \in Nat /\ h[i] \in Nat /\ g[i] = f[i] /\ k[i] = h[i]
      /\ g[n + 1] = Len(d.dropped) /\ k[n + 1] = d.used_tokens
  BY <1>1, <1>2, <1>3, <1>4
<1>6. /\ DroppedIn(ds) = Total(f, n) /\ UsedIn(ds) = Total(h, n)
      /\ DroppedIn(u) = Total(g, n + 1) /\ UsedIn(u) = Total(k, n + 1)
  BY <1>2, Zenon DEF DroppedIn, UsedIn, n
<1> HIDE DEF f, g, h, k
<1>7. g[n + 1] \in Nat /\ k[n + 1] \in Nat
  BY <1>4, <1>5
<1>8. Total(f, n) \in Nat /\ Total(g, n + 1) = Total(f, n) + g[n + 1]
  BY <1>1, <1>5, <1>7, TotalLast
<1>9. Total(h, n) \in Nat /\ Total(k, n + 1) = Total(h, n) + k[n + 1]
  BY <1>1, <1>5, <1>7, TotalLast
<1> QED
  BY <1>5, <1>6, <1>8, <1>9 DEF u

-------------------------------------------------------------------------------
\* The account of a context begins with its task.
LEMMA BeginAccount ==
  ASSUME AccountInv, NEW r \in ContextRequests, BuildContext(r)
  PROVE  AccountInv'
<1> DEFINE task == [id |-> 0, tokens |-> r.task]
<1>1. /\ layer = "none" /\ layer' = "task" /\ context' = r /\ budget' = EffectiveBudget(r)
      /\ waiting' = <<task>> /\ planned' = planned /\ plan_dropped' = plan_dropped
      /\ used' = used /\ layer_used' = layer_used /\ layer_dropped' = layer_dropped
      /\ included' = included /\ decisions' = decisions
  BY DEF BuildContext
<1>2. /\ AccountTypes /\ used = 0 /\ layer_used = 0 /\ planned = <<>> /\ included = <<>>
      /\ decisions = <<>> /\ plan_dropped = 0 /\ layer_dropped = <<>>
  BY <1>1 DEF AccountInv, EndInv, LayerInv, Layers
<1>3. /\ r.task \in Nat /\ r.found \in Seq(Item) /\ r.passages \in Seq(Item)
      /\ r.messages \in Seq(Item)
  BY ContextAssumption
<1>4. task \in Item /\ <<task>> \in Seq(Item) /\ Len(<<task>>) = 1
  BY <1>3 DEF Item
<1>5. TokensIn(<<task>>) \in Nat
  <2>1. \A y \in Item : y.tokens \in Nat
    BY DEF Item
  <2> QED
    BY <1>4, <2>1, MoreTokens
<1>6. AccountTypes'
  BY <1>1, <1>2, <1>3, <1>4, BudgetIsNat DEF AccountTypes
<1>7. LayerInv'
  <2>1. Requested(layer)' = <<task>>
    BY <1>1 DEF Requested
  <2>2. layer_used' = 0 /\ TokensIn(layer_dropped)' = 0 /\ TokensIn(waiting)' = TokensIn(<<task>>)
    BY <1>1, <1>2, NoTokens
  <2>3. layer_used' + TokensIn(layer_dropped)' + TokensIn(waiting)' = TokensIn(Requested(layer))'
    BY <1>5, <2>1, <2>2
  <2> QED
    BY <1>1, <2>3 DEF LayerInv, Layers
<1>8. DecisionsInv'
  BY <1>1, <1>2 DEF DecisionsInv
<1>9. TokensIn(included)' = 0 /\ UsedIn(decisions)' = 0 /\ DroppedIn(decisions)' = 0
  BY <1>1, <1>2, NoTokens
<1>10. UsedInv'
  BY <1>1, <1>2, <1>6, <1>9 DEF UsedInv, AccountTypes
<1>11. CountInv'
  <2>1. Len(included)' = 0 /\ Len(layer_dropped)' = 0 /\ Len(waiting)' = 1
    BY <1>1, <1>2, <1>4
  <2> QED
    BY <1>1, <1>9, <2>1 DEF CountInv, ItemsSeen
<1>12. EndInv'
  BY <1>1, <1>2 DEF EndInv
<1> QED
  BY <1>1, <1>6, <1>7, <1>8, <1>10, <1>11, <1>12 DEF AccountInv, Layers

\* An item is taken or dropped, and counted once.
LEMMA TryAccount ==
  ASSUME AccountInv, TryItem
  PROVE  AccountInv'
<1> DEFINE x == Head(waiting)
           y == [layer |-> layer, id |-> x.id, tokens |-> x.tokens]
<1>1. /\ layer \in Layers /\ waiting # <<>> /\ waiting' = Tail(waiting)
      /\ layer' = layer /\ context' = context /\ budget' = budget /\ planned' = planned
      /\ plan_dropped' = plan_dropped /\ decisions' = decisions /\ package' = package
  BY DEF TryItem
<1>2. /\ AccountTypes /\ LayerInv /\ DecisionsInv /\ UsedInv /\ CountInv /\ EndInv
  BY DEF AccountInv
<1>3. /\ x \in Item /\ x.tokens \in Nat /\ x.id \in Nat /\ waiting' \in Seq(Item)
      /\ Len(waiting) \in Nat \ {0} /\ Len(waiting') = Len(waiting) - 1
  BY <1>1, <1>2, HeadAndTail DEF AccountTypes, Item
<1>4. TokensIn(waiting) = x.tokens + TokensIn(waiting') /\ TokensIn(waiting') \in Nat
  BY <1>1, <1>2, FirstTokens DEF AccountTypes
<1>5. (\A z \in Item : z.tokens \in Nat) /\ \A z \in IncludedItem : z.tokens \in Nat
  BY DEF Item, IncludedItem
<1>6. y \in IncludedItem /\ y.tokens = x.tokens
  BY <1>1, <1>3 DEF IncludedItem
<1>7. /\ used \in Nat /\ layer_used \in Nat /\ budget \in Nat
      /\ TokensIn(layer_dropped) \in Nat
      /\ TokensIn(included) \in Nat /\ TokensIn(Append(included, y)) = TokensIn(included) + x.tokens
      /\ TokensIn(Append(layer_dropped, x)) = TokensIn(layer_dropped) + x.tokens
  BY <1>2, <1>3, <1>5, <1>6, MoreTokens DEF AccountTypes
<1>8. /\ Append(included, y) \in Seq(IncludedItem) /\ Append(layer_dropped, x) \in Seq(Item)
      /\ Len(Append(included, y)) = Len(included) + 1 /\ Len(included) \in Nat
      /\ Len(Append(layer_dropped, x)) = Len(layer_dropped) + 1 /\ Len(layer_dropped) \in Nat
  BY <1>2, <1>3, <1>6, AppendProperties DEF AccountTypes
<1>9. /\ layer_used + TokensIn(layer_dropped) + TokensIn(waiting) = TokensIn(Requested(layer))
      /\ Requested(layer)' = Requested(layer)
  BY <1>1, <1>2 DEF LayerInv, Requested
<1>10. /\ DroppedIn(decisions) \in Nat /\ UsedIn(decisions) \in Nat
       /\ used <= budget /\ used = TokensIn(included) /\ used = UsedIn(decisions) + layer_used
  <2>1. decisions \in Seq(LayerDecision)
    BY <1>2 DEF AccountTypes
  <2>2. \E d : d \in LayerDecision
    <3>1. [layer |-> layer, requested_tokens |-> 0, allocated_tokens |-> 0, used_tokens |-> 0,
           dropped |-> <<>>] \in LayerDecision
      BY <1>1 DEF LayerDecision
    <3> QED
      BY <3>1
  <2> QED
    BY <1>2, <2>1, <2>2, MoreDecisions DEF UsedInv
<1>11. layer \notin {"none", "plan", "done"}
  BY <1>1 DEF Layers
<1>12. DecisionsInv' /\ EndInv'
  BY <1>1, <1>2, <1>11 DEF DecisionsInv, EndInv
<1> HIDE DEF x, y
<1>13. /\ x.tokens \in Nat /\ used \in Nat /\ layer_used \in Nat /\ budget \in Nat
       /\ TokensIn(layer_dropped) \in Nat /\ TokensIn(included) \in Nat
       /\ TokensIn(waiting) = x.tokens + TokensIn(waiting') /\ TokensIn(waiting') \in Nat
  BY <1>3, <1>4, <1>7
<1>14. CASE Fits(x)
  <2>1. /\ used' = used + x.tokens /\ layer_used' = layer_used + x.tokens
        /\ layer_dropped' = layer_dropped /\ used + x.tokens <= budget
    BY <1>14 DEF TryItem, x, Fits
  <2>2. included' = Append(included, y)
    BY <1>14 DEF TryItem, x, y
  <2>3. /\ included' \in Seq(IncludedItem) /\ Len(included') = Len(included) + 1
        /\ TokensIn(included') = TokensIn(included) + x.tokens
    BY <1>7, <1>8, <2>2, Zenon
  <2>4. used' \in Nat /\ layer_used' \in Nat
    BY <1>13, <2>1
  <2>5. AccountTypes'
    BY <1>1, <1>2, <1>3, <2>1, <2>3, <2>4 DEF AccountTypes
  <2>6. LayerInv'
    <3>1. TokensIn(layer_dropped') = TokensIn(layer_dropped)
      BY <2>1
    <3>2. layer_used' + TokensIn(layer_dropped') + TokensIn(waiting') = TokensIn(Requested(layer))
      BY <1>9, <1>13, <2>1, <3>1
    <3> QED
      BY <1>1, <1>9, <3>2 DEF LayerInv
  <2>7. UsedInv'
    <3>1. used' <= budget' /\ used' = TokensIn(included')
      BY <1>1, <1>10, <2>1, <2>3
    <3>2. UsedIn(decisions') = UsedIn(decisions)
      BY <1>1
    <3>3. used' = UsedIn(decisions') + layer_used'
      BY <1>10, <1>13, <2>1, <3>2
    <3> QED
      BY <3>1, <3>3 DEF UsedInv
  <2>8. CountInv'
    <3>1. DroppedIn(decisions') = DroppedIn(decisions) /\ Len(layer_dropped') = Len(layer_dropped)
      BY <1>1, <2>1
    <3>2. ItemsSeen' + Len(waiting') = ItemsSeen + Len(waiting)
      BY <1>3, <1>8, <1>10, <2>3, <3>1 DEF ItemsSeen
    <3> QED
      BY <1>1, <1>2, <1>11, <3>2 DEF CountInv
  <2> QED
    BY <1>1, <1>12, <2>5, <2>6, <2>7, <2>8 DEF AccountInv
<1>15. CASE ~Fits(x)
  <2>1. /\ used' = used /\ layer_used' = layer_used /\ included' = included
        /\ layer_dropped' = Append(layer_dropped, x)
    BY <1>15 DEF TryItem, x
  <2>2. AccountTypes'
    BY <1>1, <1>2, <1>3, <1>7, <1>8, <2>1 DEF AccountTypes
  <2>3. LayerInv'
    <3>1. layer_used' + TokensIn(layer_dropped') + TokensIn(waiting') = TokensIn(Requested(layer))
      BY <1>3, <1>4, <1>7, <1>9, <2>1
    <3> QED
      BY <1>1, <1>9, <3>1 DEF LayerInv
  <2>4. UsedInv'
    BY <1>1, <1>10, <2>1 DEF UsedInv
  <2>5. CountInv'
    <3>1. ItemsSeen' + Len(waiting') = ItemsSeen + Len(waiting)
      BY <1>1, <1>3, <1>8, <1>10, <2>1 DEF ItemsSeen
    <3> QED
      BY <1>1, <1>2, <1>11, <3>1 DEF CountInv
  <2> QED
    BY <1>1, <1>12, <2>2, <2>3, <2>4, <2>5 DEF AccountInv
<1> QED
  BY <1>14, <1>15

\* The decision that ends a layer says what the layer took and dropped.
LEMMA DecisionAccount ==
  ASSUME AccountInv, layer \in Layers, waiting = <<>>
  PROVE  /\ Decision \in LayerDecision
         /\ Decision.used_tokens = layer_used /\ Decision.dropped = layer_dropped
         /\ Decision.used_tokens <= Decision.allocated_tokens
         /\ Decision.used_tokens + TokensIn(Decision.dropped) = Decision.requested_tokens
<1> DEFINE asked == TokensIn(Requested(layer))
           room == Least(asked, Most(0, budget - (used - layer_used)))
<1>1. /\ used \in Nat /\ layer_used \in Nat /\ budget \in Nat /\ layer_dropped \in Seq(Item)
      /\ used <= budget /\ layer_used + TokensIn(layer_dropped) + TokensIn(waiting) = asked
  BY DEF AccountInv, AccountTypes, UsedInv, LayerInv
<1>2. TokensIn(waiting) = 0
  BY NoTokens
<1>3. TokensIn(layer_dropped) \in Nat
  <2>1. [id |-> 0, tokens |-> 0] \in Item /\ \A y \in Item : y.tokens \in Nat
    BY DEF Item
  <2> QED
    BY <1>1, <2>1, MoreTokens
<1>4. Decision = [layer |-> layer, requested_tokens |-> asked, allocated_tokens |-> room,
                  used_tokens |-> layer_used, dropped |-> layer_dropped]
  BY DEF Decision
<1> HIDE DEF asked
<1>5. layer_used + TokensIn(layer_dropped) = asked /\ asked \in Nat
  BY <1>1, <1>2, <1>3
<1>6. room \in Nat /\ layer_used <= room
  <2>1. budget - (used - layer_used) \in Nat /\ layer_used <= budget - (used - layer_used)
    BY <1>1
  <2>2. Most(0, budget - (used - layer_used)) = budget - (used - layer_used)
    BY <2>1 DEF Most
  <2>3. layer_used <= asked
    BY <1>1, <1>3, <1>5
  <2> QED
    BY <1>5, <2>1, <2>2, <2>3 DEF Least
<1> HIDE DEF room
<1>7. Decision \in LayerDecision
  BY <1>1, <1>4, <1>5, <1>6 DEF LayerDecision
<1> QED
  BY <1>4, <1>5, <1>6, <1>7

\* A layer ends: its decision joins the others and the next one has used nothing.
LEMMA LayerEnds ==
  ASSUME AccountInv, layer \in Layers, waiting = <<>>,
         decisions' = Append(decisions, Decision), layer_used' = 0, layer_dropped' = <<>>,
         used' = used, budget' = budget, included' = included
  PROVE  /\ decisions' \in Seq(LayerDecision) /\ layer_dropped' \in Seq(Item)
         /\ DecisionsInv' /\ UsedInv'
         /\ ItemsSeen' = ItemsSeen /\ ItemsSeen \in Nat
<1>1. /\ decisions \in Seq(LayerDecision) /\ layer_dropped \in Seq(Item) /\ DecisionsInv
      /\ used <= budget /\ used = TokensIn(included) /\ used = UsedIn(decisions) + layer_used
      /\ included \in Seq(IncludedItem) /\ layer_used \in Nat /\ used \in Nat
  BY DEF AccountInv, AccountTypes, UsedInv
<1>2. /\ Decision \in LayerDecision
      /\ Decision.used_tokens = layer_used /\ Decision.dropped = layer_dropped
      /\ Decision.used_tokens <= Decision.allocated_tokens
      /\ Decision.used_tokens + TokensIn(Decision.dropped) = Decision.requested_tokens
  BY DecisionAccount
<1> DEFINE d == Decision
<1> HIDE DEF d
<1>3. d = Decision
  BY DEF d
<1>4. /\ decisions' \in Seq(LayerDecision) /\ Len(decisions') = Len(decisions) + 1
      /\ Len(decisions) \in Nat /\ decisions'[Len(decisions) + 1] = d
      /\ \A i \in 1..Len(decisions) : decisions'[i] = decisions[i]
  BY <1>1, <1>2, <1>3, AppendProperties
<1>5. DecisionsInv'
  <2> SUFFICES ASSUME NEW i \in 1..(Len(decisions) + 1)
               PROVE  /\ decisions'[i].used_tokens <= decisions'[i].allocated_tokens
                      /\ decisions'[i].used_tokens + TokensIn(decisions'[i].dropped)
                           = decisions'[i].requested_tokens
    BY <1>4 DEF DecisionsInv
  <2>1. CASE i \in 1..Len(decisions)
    BY <1>1, <1>4, <2>1 DEF DecisionsInv
  <2>2. CASE i = Len(decisions) + 1
    <3>1. decisions'[i] = Decision
      BY <1>3, <1>4, <2>2
    <3> QED
      BY <1>2, <3>1
  <2> QED
    BY <1>4, <2>1, <2>2
<1>6. /\ DroppedIn(decisions) \in Nat /\ UsedIn(decisions) \in Nat
      /\ DroppedIn(Append(decisions, Decision)) = DroppedIn(decisions) + Len(Decision.dropped)
      /\ UsedIn(Append(decisions, Decision)) = UsedIn(decisions) + Decision.used_tokens
  BY <1>1, <1>2, MoreDecisions
<1>7. /\ DroppedIn(decisions') = DroppedIn(decisions) + Len(layer_dropped)
      /\ UsedIn(decisions') = UsedIn(decisions) + layer_used
  BY <1>2, <1>6, Zenon
<1>8. TokensIn(included') = TokensIn(included)
  OBVIOUS
<1>9. UsedInv'
  BY <1>1, <1>6, <1>7, <1>8 DEF UsedInv
<1>10. ItemsSeen' = ItemsSeen /\ ItemsSeen \in Nat
  <2>1. Len(layer_dropped') = 0 /\ Len(included') = Len(included) /\ Len(included) \in Nat
        /\ Len(layer_dropped) \in Nat
    BY <1>1
  <2> QED
    BY <1>6, <1>7, <2>1, SMTT(30) DEF ItemsSeen
<1>11. layer_dropped' \in Seq(Item)
  OBVIOUS
<1> QED
  BY <1>4, <1>5, <1>9, <1>10, <1>11

\* The task's layer ends.
LEMMA EndTaskAccount ==
  ASSUME AccountInv, EndTask
  PROVE  AccountInv'
<1>1. /\ layer = "task" /\ waiting = <<>> /\ layer' = "plan" /\ context' = context
      /\ budget' = budget /\ planned' = planned /\ used' = used /\ included' = included
      /\ layer_used' = 0 /\ layer_dropped' = <<>> /\ decisions' = Append(decisions, Decision)
      /\ \/ waiting' = <<>> /\ plan_dropped' = Len(context.found)
         \/ waiting' = context.found /\ plan_dropped' = 0
  BY DEF EndTask
<1>2. AccountTypes /\ CountInv /\ EndInv /\ layer \in Layers
  BY <1>1 DEF AccountInv, Layers
<1>3. /\ decisions' \in Seq(LayerDecision) /\ layer_dropped' \in Seq(Item)
      /\ DecisionsInv' /\ UsedInv' /\ ItemsSeen' = ItemsSeen /\ ItemsSeen \in Nat
  BY <1>1, <1>2, LayerEnds
<1>4. planned = <<>> /\ plan_dropped = 0 /\ Len(planned) = 0 /\ Len(waiting) = 0
      /\ Len(context.found) \in Nat
  BY <1>1, <1>2 DEF EndInv, AccountTypes
<1>5. AccountTypes'
  <2>1. waiting' \in Seq(Item) /\ plan_dropped' \in Nat
    BY <1>1, <1>2, <1>4 DEF AccountTypes
  <2> QED
    BY <1>1, <1>2, <1>3, <2>1 DEF AccountTypes
<1>6. LayerInv'
  BY <1>1 DEF LayerInv, Layers
<1>7. CountInv'
  <2>1. ItemsSeen' = 1
    BY <1>1, <1>2, <1>3, <1>4 DEF CountInv
  <2>2. Len(planned') + plan_dropped' + Len(waiting') = Len(context'.found)
    <3>1. Len(planned') = 0 /\ Len(<<>>) = 0
      BY <1>1, <1>4
    <3>2. CASE waiting' = <<>> /\ plan_dropped' = Len(context.found)
      BY <1>1, <1>4, <3>1, <3>2
    <3>3. CASE waiting' = context.found /\ plan_dropped' = 0
      BY <1>1, <1>4, <3>1, <3>3
    <3> QED
      BY <1>1, <3>2, <3>3
  <2> QED
    BY <1>1, <2>1, <2>2 DEF CountInv
<1>8. EndInv'
  BY <1>1 DEF EndInv
<1> QED
  BY <1>1, <1>3, <1>5, <1>6, <1>7, <1>8 DEF AccountInv

\* A hit is planned or dropped by the pipeline.
LEMMA PlanAccount ==
  ASSUME AccountInv, PlanHit
  PROVE  AccountInv'
<1>1. /\ layer = "plan" /\ waiting # <<>> /\ waiting' = Tail(waiting) /\ layer' = layer
      /\ context' = context /\ budget' = budget /\ used' = used /\ layer_used' = layer_used
      /\ layer_dropped' = layer_dropped /\ included' = included /\ decisions' = decisions
      /\ \/ planned' = Append(planned, Head(waiting)) /\ plan_dropped' = plan_dropped
         \/ planned' = planned /\ plan_dropped' = plan_dropped + 1
  BY DEF PlanHit
<1>2. AccountTypes /\ LayerInv /\ DecisionsInv /\ UsedInv /\ CountInv
  BY DEF AccountInv
<1>3. /\ Head(waiting) \in Item /\ waiting' \in Seq(Item)
      /\ Len(waiting) \in Nat \ {0} /\ Len(waiting') = Len(waiting) - 1
  BY <1>1, <1>2, HeadAndTail DEF AccountTypes
<1>4. /\ planned' \in Seq(Item) /\ plan_dropped' \in Nat
      /\ Len(planned') + plan_dropped' = Len(planned) + plan_dropped + 1
      /\ Len(planned) \in Nat /\ plan_dropped \in Nat /\ Len(planned') \in Nat
  <2>1. /\ Append(planned, Head(waiting)) \in Seq(Item)
        /\ Len(Append(planned, Head(waiting))) = Len(planned) + 1
        /\ Len(planned) \in Nat /\ plan_dropped \in Nat
    BY <1>2, <1>3, AppendProperties DEF AccountTypes
  <2>2. planned \in Seq(Item)
    BY <1>2 DEF AccountTypes
  <2>3. CASE planned' = Append(planned, Head(waiting)) /\ plan_dropped' = plan_dropped
    <3>1. planned' \in Seq(Item) /\ Len(planned') = Len(planned) + 1
      BY <2>1, <2>3, Zenon
    <3> QED
      BY <2>1, <2>3, <3>1
  <2>4. CASE planned' = planned /\ plan_dropped' = plan_dropped + 1
    <3>1. planned' \in Seq(Item) /\ Len(planned') = Len(planned)
      BY <2>2, <2>4
    <3> QED
      BY <2>1, <2>4, <3>1
  <2> QED
    BY <1>1, <2>3, <2>4
<1>5. AccountTypes'
  BY <1>1, <1>2, <1>3, <1>4 DEF AccountTypes
<1>6. LayerInv' /\ DecisionsInv' /\ UsedInv'
  BY <1>1, <1>2 DEF LayerInv, DecisionsInv, UsedInv, Layers
<1>7. CountInv'
  <2>1. ItemsSeen' = ItemsSeen
    BY <1>1 DEF ItemsSeen
  <2>2. ItemsSeen = 1 /\ Len(planned) + plan_dropped + Len(waiting) = Len(context.found)
    BY <1>1, <1>2 DEF CountInv
  <2>3. Len(planned') + plan_dropped' + Len(waiting') = Len(context'.found)
    BY <1>1, <1>3, <1>4, <2>2
  <2> QED
    BY <1>1, <2>1, <2>2, <2>3 DEF CountInv
<1>8. EndInv'
  BY <1>1 DEF EndInv
<1> QED
  BY <1>1, <1>5, <1>6, <1>7, <1>8 DEF AccountInv

\* The recall layer asks for what was planned.
LEMMA EndPlanAccount ==
  ASSUME AccountInv, EndPlan
  PROVE  AccountInv'
<1>1. /\ layer = "plan" /\ waiting = <<>> /\ waiting' = planned /\ layer' = "recall"
      /\ context' = context /\ budget' = budget /\ used' = used /\ layer_used' = layer_used
      /\ layer_dropped' = layer_dropped /\ included' = included /\ decisions' = decisions
      /\ planned' = planned /\ plan_dropped' = plan_dropped
  BY DEF EndPlan
<1>2. AccountTypes /\ LayerInv /\ DecisionsInv /\ UsedInv /\ CountInv
  BY DEF AccountInv
<1>3. layer_used = 0 /\ layer_dropped = <<>>
  BY <1>1, <1>2 DEF LayerInv, Layers
<1>4. AccountTypes'
  BY <1>1, <1>2 DEF AccountTypes
<1>5. LayerInv'
  <2>1. TokensIn(planned) \in Nat
    <3>1. [id |-> 0, tokens |-> 0] \in Item /\ \A y \in Item : y.tokens \in Nat
      BY DEF Item
    <3> QED
      BY <1>2, <3>1, MoreTokens DEF AccountTypes
  <2>2. Requested(layer)' = planned
    BY <1>1 DEF Requested
  <2>3. layer_used' = 0 /\ TokensIn(layer_dropped)' = 0 /\ TokensIn(waiting)' = TokensIn(planned)
    BY <1>1, <1>3, NoTokens
  <2>4. TokensIn(Requested(layer))' = TokensIn(planned)
    BY <1>1, <2>2
  <2> QED
    BY <1>1, <2>1, <2>3, <2>4 DEF LayerInv, Layers
<1>6. DecisionsInv' /\ UsedInv'
  BY <1>1, <1>2 DEF DecisionsInv, UsedInv
<1>7. CountInv'
  <2>1. ItemsSeen' = ItemsSeen /\ Len(waiting) = 0 /\ Len(planned) \in Nat /\ plan_dropped \in Nat
    BY <1>1, <1>2 DEF ItemsSeen, AccountTypes
  <2>2. ItemsSeen = 1 /\ Len(planned) + plan_dropped + Len(waiting) = Len(context.found)
    BY <1>1, <1>2 DEF CountInv
  <2> QED
    BY <1>1, <2>1, <2>2 DEF CountInv
<1>8. EndInv'
  BY <1>1 DEF EndInv
<1> QED
  BY <1>1, <1>4, <1>5, <1>6, <1>7, <1>8 DEF AccountInv, Layers

\* The layers of passages and of the last messages begin.
LEMMA EndLayerAccount ==
  ASSUME AccountInv, NEW l, NEW next, EndLayer(l, next),
         \/ l = "recall" /\ next = "archival"
         \/ l = "archival" /\ next = "recent"
  PROVE  AccountInv'
<1> DEFINE asked == IF next = "archival" THEN context.passages ELSE Recent(context.messages)
<1>1. /\ layer = l /\ waiting = <<>> /\ waiting' = Requested(next) /\ layer' = next
      /\ context' = context /\ budget' = budget /\ used' = used /\ included' = included
      /\ layer_used' = 0 /\ layer_dropped' = <<>> /\ decisions' = Append(decisions, Decision)
      /\ planned' = planned /\ plan_dropped' = plan_dropped
  BY DEF EndLayer
<1>2. AccountTypes /\ CountInv /\ layer \in Layers /\ next \in Layers
  BY <1>1 DEF AccountInv, Layers
<1>3. /\ decisions' \in Seq(LayerDecision) /\ layer_dropped' \in Seq(Item)
      /\ DecisionsInv' /\ UsedInv' /\ ItemsSeen' = ItemsSeen /\ ItemsSeen \in Nat
  BY <1>1, <1>2, LayerEnds
<1>4. Requested(next) = asked /\ Requested(next)' = asked
  BY <1>1 DEF Requested
<1>5. asked \in Seq(Item)
  BY <1>2, RecentIsItems DEF AccountTypes
<1>6. AccountTypes'
  BY <1>1, <1>2, <1>3, <1>4, <1>5 DEF AccountTypes
<1>7. LayerInv'
  <2>1. TokensIn(asked) \in Nat
    <3>1. [id |-> 0, tokens |-> 0] \in Item /\ \A y \in Item : y.tokens \in Nat
      BY DEF Item
    <3> QED
      BY <1>5, <3>1, MoreTokens
  <2>2. Requested(layer)' = asked
    BY <1>1, <1>4 DEF Requested
  <2> HIDE DEF asked
  <2>3. layer_used' = 0 /\ TokensIn(layer_dropped)' = 0 /\ TokensIn(waiting)' = TokensIn(asked)
    BY <1>1, <1>4, NoTokens
  <2>4. TokensIn(Requested(layer))' = TokensIn(asked)
    BY <2>2
  <2> QED
    BY <1>1, <1>2, <2>1, <2>3, <2>4 DEF LayerInv
<1>8. CountInv'
  <2>1. Len(waiting) = 0 /\ Len(planned) \in Nat /\ plan_dropped \in Nat /\ Len(asked) \in Nat
        /\ Len(context.passages) \in Nat
    BY <1>1, <1>2, <1>5 DEF AccountTypes
  <2>2. CASE next = "archival"
    <3>1. asked = context.passages /\ layer = "recall"
      BY <1>1, <2>2
    <3>2. ItemsSeen = 1 + Len(planned)
          /\ Len(planned) + plan_dropped = Len(context.found)
      BY <1>2, <1>3, <2>1, <3>1 DEF CountInv
    <3> QED
      BY <1>1, <1>3, <1>4, <2>1, <2>2, <3>1, <3>2 DEF CountInv
  <2>3. CASE next = "recent"
    <3>1. asked = Recent(context.messages) /\ layer = "archival"
      BY <1>1, <2>3
    <3>2. ItemsSeen = 1 + Len(planned) + Len(context.passages)
          /\ Len(planned) + plan_dropped = Len(context.found)
      BY <1>2, <1>3, <2>1, <3>1 DEF CountInv
    <3>3. Recent(context'.messages) = asked
      BY <1>1, <3>1
    <3> QED
      BY <1>1, <1>3, <1>4, <2>1, <2>3, <3>1, <3>2, <3>3 DEF CountInv
  <2> QED
    BY <2>2, <2>3
<1>9. EndInv'
  BY <1>1 DEF EndInv
<1> QED
  BY <1>1, <1>2, <1>3, <1>6, <1>7, <1>8, <1>9 DEF AccountInv

\* The package is made of the last layer's account.
LEMMA EndAccount ==
  ASSUME AccountInv, EndRecent
  PROVE  AccountInv'
<1>1. /\ layer = "recent" /\ waiting = <<>> /\ waiting' = waiting /\ layer' = "done"
      /\ context' = context /\ budget' = budget /\ used' = used /\ included' = included
      /\ layer_used' = 0 /\ layer_dropped' = <<>> /\ decisions' = Append(decisions, Decision)
      /\ planned' = planned /\ plan_dropped' = plan_dropped
  BY DEF EndRecent
<1>2. AccountTypes /\ CountInv /\ layer \in Layers
  BY <1>1 DEF AccountInv, Layers
<1>3. /\ decisions' \in Seq(LayerDecision) /\ layer_dropped' \in Seq(Item)
      /\ DecisionsInv' /\ UsedInv' /\ ItemsSeen' = ItemsSeen /\ ItemsSeen \in Nat
  BY <1>1, <1>2, LayerEnds
<1>4. AccountTypes'
  BY <1>1, <1>2, <1>3 DEF AccountTypes
<1>5. LayerInv'
  BY <1>1 DEF LayerInv, Layers
<1>6. CountInv'
  <2>1. Len(waiting) = 0
    BY <1>1
  <2>2. /\ ItemsSeen + Len(waiting)
            = 1 + Len(planned) + Len(context.passages) + Len(Recent(context.messages))
        /\ Len(planned) + plan_dropped = Len(context.found)
    BY <1>1, <1>2 DEF CountInv
  <2>3. ItemsSeen' = 1 + Len(planned') + Len(context'.passages) + Len(Recent(context'.messages))
    BY <1>1, <1>3, <2>1, <2>2
  <2> QED
    BY <1>1, <2>2, <2>3 DEF CountInv
<1>7. /\ package'.estimated_tokens = used
      /\ package'.candidate_budget_dropped = DroppedIn(decisions')
  BY DEF EndRecent, Package
<1>8. EndInv'
  BY <1>1, <1>7 DEF EndInv
<1> QED
  BY <1>1, <1>3, <1>4, <1>5, <1>6, <1>8 DEF AccountInv

\* No context.
LEMMA NoAccount ==
  /\ ContextInit => AccountInv
  /\ ForgetContext => AccountInv'
<1>1. TokensIn(<<>>) = 0 /\ UsedIn(<<>>) = 0
  BY NoTokens
<1>2. NoContext.task = 0 /\ NoContext.found = <<>> /\ NoContext.passages = <<>>
      /\ NoContext.messages = <<>>
  BY DEF NoContext
<1>3. ASSUME ContextInit PROVE AccountInv
  <2>1. /\ layer = "none" /\ context = NoContext /\ budget = 0 /\ waiting = <<>>
        /\ planned = <<>> /\ plan_dropped = 0 /\ used = 0 /\ layer_used = 0
        /\ layer_dropped = <<>> /\ included = <<>> /\ decisions = <<>>
    BY <1>3 DEF ContextInit
  <2>2. AccountTypes
    <3>1. /\ context.task = 0 /\ context.found = <<>> /\ context.passages = <<>>
          /\ context.messages = <<>>
      BY <1>2, <2>1
    <3> QED
      BY <2>1, <3>1 DEF AccountTypes
  <2>3. UsedInv
    BY <1>1, <2>1 DEF UsedInv
  <2> QED
    BY <2>1, <2>2, <2>3 DEF AccountInv, LayerInv, DecisionsInv, CountInv, EndInv, Layers
<1>4. ASSUME ForgetContext PROVE AccountInv'
  <2>1. /\ layer' = "none" /\ context' = NoContext /\ budget' = 0 /\ waiting' = <<>>
        /\ planned' = <<>> /\ plan_dropped' = 0 /\ used' = 0 /\ layer_used' = 0
        /\ layer_dropped' = <<>> /\ included' = <<>> /\ decisions' = <<>>
    BY <1>4 DEF ForgetContext
  <2>2. AccountTypes'
    <3>1. /\ context'.task = 0 /\ context'.found = <<>> /\ context'.passages = <<>>
          /\ context'.messages = <<>>
      BY <1>2, <2>1
    <3> QED
      BY <2>1, <3>1 DEF AccountTypes
  <2>3. UsedInv'
    BY <1>1, <2>1 DEF UsedInv
  <2> QED
    BY <2>1, <2>2, <2>3 DEF AccountInv, LayerInv, DecisionsInv, CountInv, EndInv, Layers
<1> QED
  BY <1>3, <1>4

\* Nothing happens to the context.
LEMMA SameAccount ==
  ASSUME AccountInv, UNCHANGED contextVars
  PROVE  AccountInv'
<1>1. /\ layer' = layer /\ context' = context /\ budget' = budget /\ waiting' = waiting
      /\ planned' = planned /\ plan_dropped' = plan_dropped /\ used' = used
      /\ layer_used' = layer_used /\ layer_dropped' = layer_dropped /\ included' = included
      /\ decisions' = decisions /\ package' = package
  BY DEF contextVars
<1>2. AccountTypes'
  BY <1>1 DEF AccountInv, AccountTypes
<1>3. LayerInv'
  <2>1. Requested(layer)' = Requested(layer)
    BY <1>1 DEF Requested
  <2> QED
    BY <1>1, <2>1 DEF AccountInv, LayerInv
<1>4. DecisionsInv' /\ UsedInv'
  BY <1>1 DEF AccountInv, DecisionsInv, UsedInv
<1>5. CountInv' /\ EndInv'
  BY <1>1 DEF AccountInv, CountInv, EndInv, ItemsSeen
<1> QED
  BY <1>1, <1>2, <1>3, <1>4, <1>5 DEF AccountInv

LEMMA Accounting == ContextSpec => []AccountInv
<1>1. ContextInit => AccountInv
  BY NoAccount
<1>2. AccountInv /\ [ContextNext]_contextVars => AccountInv'
  BY BeginAccount, TryAccount, EndTaskAccount, PlanAccount, EndPlanAccount, EndLayerAccount,
     EndAccount, NoAccount, SameAccount DEF ContextNext, ComposerStep
<1> QED
  BY <1>1, <1>2, PTL DEF ContextSpec

\* The whole of it: the budget holds, what was planned is included, and at the end
\* the estimate, the decisions and the counts of what was dropped add up to what
\* was asked for, for any items, limits and budgets (V3ContextComposer.build,
\* SessionMemoryService.build_context).
THEOREM ContextAddsUp == ContextSpec => []ContextWithinBudget
<1>1. ContextInv /\ AccountInv => ContextWithinBudget
  <2> SUFFICES ASSUME ContextInv, AccountInv PROVE ContextWithinBudget
    OBVIOUS
  <2>1. UsedWithinBudget /\ RecallLayerDropsNothing
    BY DEF ContextInv, RecallInv, RecallLayerDropsNothing
  <2>2. ASSUME layer = "done"
        PROVE  /\ package.estimated_tokens = TokensIn(included)
               /\ package.estimated_tokens = UsedIn(decisions)
               /\ Len(included) + package.candidate_budget_dropped + plan_dropped
                    = 1 + Len(context.found) + Len(context.passages)
                        + Len(Recent(context.messages))
    <3>1. /\ package.estimated_tokens = used
          /\ package.candidate_budget_dropped = DroppedIn(decisions)
          /\ layer_used = 0 /\ layer_dropped = <<>>
      BY <2>2 DEF AccountInv, EndInv, LayerInv, Layers
    <3>2. used = TokensIn(included) /\ used = UsedIn(decisions) + 0 /\ used \in Nat
      BY <3>1 DEF AccountInv, UsedInv, AccountTypes
    <3>3. /\ decisions \in Seq(LayerDecision) /\ Len(included) \in Nat /\ plan_dropped \in Nat
          /\ Len(planned) \in Nat /\ Len(context.found) \in Nat /\ Len(context.passages) \in Nat
      BY DEF AccountInv, AccountTypes
    <3>4. DroppedIn(decisions) \in Nat /\ UsedIn(decisions) \in Nat
      <4>1. [layer |-> "task", requested_tokens |-> 0, allocated_tokens |-> 0, used_tokens |-> 0,
             dropped |-> <<>>] \in LayerDecision
        BY DEF LayerDecision, Layers
      <4> QED
        BY <3>3, <4>1, MoreDecisions
    <3>5. Len(Recent(context.messages)) \in Nat
      BY RecentIsItems DEF AccountInv, AccountTypes
    <3>6. /\ ItemsSeen = 1 + Len(planned) + Len(context.passages) + Len(Recent(context.messages))
          /\ Len(planned) + plan_dropped = Len(context.found)
      BY <2>2 DEF AccountInv, CountInv
    <3>7. ItemsSeen = Len(included) + DroppedIn(decisions)
      <4>1. Len(layer_dropped) = 0
        BY <3>1
      <4> QED
        BY <3>3, <3>4, <4>1 DEF ItemsSeen
    <3>8. used = UsedIn(decisions)
      BY <3>2, <3>4
    <3>9. Len(included) + package.candidate_budget_dropped + plan_dropped
            = 1 + Len(context.found) + Len(context.passages) + Len(Recent(context.messages))
      <4>1. Len(included) + DroppedIn(decisions)
              = 1 + Len(planned) + Len(context.passages) + Len(Recent(context.messages))
        BY <3>6, <3>7
      <4>2. Len(included) + DroppedIn(decisions) + plan_dropped
              = 1 + Len(context.found) + Len(context.passages) + Len(Recent(context.messages))
        <5>1. PICK n \in Nat : n = Len(included)
          BY <3>3
        <5>2. PICK d \in Nat : d = DroppedIn(decisions)
          BY <3>4
        <5>3. PICK p \in Nat : p = Len(planned)
          BY <3>3
        <5>4. PICK a \in Nat : a = Len(context.passages)
          BY <3>3
        <5>5. PICK r \in Nat : r = Len(Recent(context.messages))
          BY <3>5
        <5>6. PICK q \in Nat : q = plan_dropped
          BY <3>3
        <5>7. p + q = Len(context.found) /\ n + d = 1 + p + a + r
          BY <3>6, <4>1, <5>1, <5>2, <5>3, <5>4, <5>5, <5>6
        <5>8. n + d + q = 1 + (p + q) + a + r
          BY <5>7
        <5> QED
          BY <5>1, <5>2, <5>4, <5>5, <5>6, <5>7, <5>8
      <4> QED
        BY <3>1, <4>2
    <3> QED
      BY <3>1, <3>2, <3>8, <3>9
  <2>3. \A i \in DOMAIN decisions :
            /\ decisions[i].used_tokens <= decisions[i].allocated_tokens
            /\ decisions[i].used_tokens + TokensIn(decisions[i].dropped)
                 = decisions[i].requested_tokens
    <3>1. DOMAIN decisions = 1..Len(decisions)
      BY DEF AccountInv, AccountTypes
    <3> QED
      BY <3>1 DEF AccountInv, DecisionsInv
  <2> QED
    BY <2>1, <2>2, <2>3 DEF ContextWithinBudget
<1> QED
  BY <1>1, Filling, Accounting, PTL

-------------------------------------------------------------------------------
(***************************************************************************)
(* AskGraph: an ask ends after a bounded number of LLM calls and retrievals,*)
(* says truly why, and what is current comes before what is outdated.      *)
(***************************************************************************)

Asked == {queries[i] : i \in DOMAIN queries}
Covered == \E i \in DOMAIN found : ~found[i].outdated /\ found[i].id \in Covering

AskTypes ==
    /\ ask_step \in {"none", "retrieve", "grade", "rewrite", "finalize", "fit", "answered"}
    /\ ask.max_rounds \in Nat /\ ask.budget \in Nat
    /\ queries \in Seq(Queries)
    /\ retrievals \in Nat /\ llm_calls \in Nat /\ enough \in BOOLEAN

QueriesInv == IsFiniteSet(Asked) /\ Cardinality(Asked) = Len(queries)

\* Every rewrite is paid for by a retrieval before it.
CallsInv ==
    /\ ask_step = "none" => retrievals = 0 /\ llm_calls = 0 /\ queries = <<>>
    /\ ask_step = "retrieve" => retrievals = llm_calls
    /\ ask_step \in {"grade", "rewrite"} => retrievals = llm_calls + 1
    /\ ask_step = "rewrite" => retrievals <= ask.max_rounds
    /\ retrievals <= llm_calls + 1 /\ llm_calls <= ask.max_rounds
    /\ ~ask.llm => llm_calls = 0

\* Why an ask will say that it stopped.
ReasonInv ==
    /\ ask_step \in {"none", "retrieve", "grade", "rewrite"} => stopped = Unknown
    /\ ask_step \in {"rewrite", "finalize", "fit", "answered"} => enough = Covered
    /\ ask_step = "rewrite" => ~enough /\ ask.llm
    /\ ask_step = "finalize" =>
          \/ stopped \in {"no_new_query", "rewrite_failed"} /\ ~enough
          \/ /\ stopped = Unknown
             /\ ~enough /\ ask.llm => retrievals = ask.max_rounds + 1
    /\ ask_step \in {"fit", "answered"} =>
          /\ stopped = "enough" <=> Covered
          /\ stopped = "no_rounds" => retrievals = ask.max_rounds + 1
          /\ stopped = "no_llm" => llm_calls = 0

AskInv == AskTypes /\ QueriesInv /\ CallsInv /\ ReasonInv

-------------------------------------------------------------------------------
\* The first query of an ask.
LEMMA StartKeeps ==
  ASSUME AskInv, NEW r \in AskRequests, StartAsk(r)
  PROVE  AskInv'
<1>0. /\ ask_step = "none" /\ ask_step' = "retrieve" /\ ask' = r /\ queries' = <<r.question>>
      /\ retrievals' = retrievals /\ llm_calls' = llm_calls /\ enough' = enough
      /\ stopped' = stopped
  BY DEF StartAsk
<1>1. r.question \in Queries /\ r.budget \in Nat /\ r.max_rounds \in Nat
  BY AskAssumption
<1>2. retrievals = 0 /\ llm_calls = 0 /\ stopped = Unknown
  BY <1>0 DEF AskInv, CallsInv, ReasonInv
<1>3. Asked' = {r.question}
  BY <1>0 DEF Asked
<1>4. QueriesInv'
  <2>1. IsFiniteSet({r.question}) /\ Cardinality({r.question}) = 1
    BY FS_Singleton
  <2>2. Len(queries') = 1
    BY <1>0
  <2> QED
    BY <1>3, <2>1, <2>2 DEF QueriesInv
<1>5. AskTypes'
  BY <1>0, <1>1 DEF AskInv, AskTypes
<1>6. CallsInv' /\ ReasonInv'
  BY <1>0, <1>1, <1>2 DEF CallsInv, ReasonInv
<1> QED
  BY <1>4, <1>5, <1>6 DEF AskInv

\* A retrieval counts once.
LEMMA FindKeeps ==
  ASSUME AskInv, NEW retrieved, FindItems(retrieved)
  PROVE  AskInv'
<1>1. /\ ask_step = "retrieve" /\ ask_step' = "grade" /\ retrievals' = retrievals + 1
      /\ ask' = ask /\ queries' = queries /\ llm_calls' = llm_calls /\ enough' = enough
      /\ stopped' = stopped
  BY DEF FindItems
<1> QED
  BY <1>1 DEF AskInv, AskTypes, QueriesInv, Asked, CallsInv, ReasonInv

\* The grade decides from what is found.
LEMMA GradeKeeps ==
  ASSUME AskInv, Grade
  PROVE  AskInv'
<1>1. /\ ask_step = "grade" /\ enough' = Covered /\ enough' \in BOOLEAN
      /\ ask_step' = IF ~enough' /\ ask.llm /\ retrievals <= ask.max_rounds
                     THEN "rewrite" ELSE "finalize"
      /\ ask' = ask /\ queries' = queries /\ found' = found /\ retrievals' = retrievals
      /\ llm_calls' = llm_calls /\ stopped' = stopped
  BY DEF Grade, RoundsLeft, Covered
<1>2. Covered' = Covered
  BY <1>1 DEF Covered
<1>3. AskTypes' /\ QueriesInv' /\ CallsInv'
  BY <1>1 DEF AskInv, AskTypes, QueriesInv, Asked, CallsInv
<1>4. ReasonInv'
  <2>1. stopped = Unknown /\ retrievals = llm_calls + 1 /\ llm_calls <= ask.max_rounds
        /\ retrievals \in Nat /\ llm_calls \in Nat /\ ask.max_rounds \in Nat
    BY <1>1 DEF AskInv, ReasonInv, CallsInv, AskTypes
  <2> HIDE DEF Covered
  <2>2. CASE ~enough' /\ ask.llm /\ retrievals <= ask.max_rounds
    BY <1>1, <1>2, <2>1, <2>2 DEF ReasonInv
  <2>3. CASE ~(~enough' /\ ask.llm /\ retrievals <= ask.max_rounds)
    <3>1. ask_step' = "finalize" /\ stopped' = Unknown /\ ask' = ask
          /\ retrievals' = retrievals
      BY <1>1, <2>1, <2>3
    <3>2. ~enough' /\ ask.llm => retrievals = ask.max_rounds + 1
      <4>1. ~enough' /\ ask.llm => ~(retrievals <= ask.max_rounds)
        BY <2>3
      <4> QED
        BY <2>1, <4>1
    <3>3. enough' = Covered'
      BY <1>1, <1>2
    <3> QED
      BY <3>1, <3>2, <3>3 DEF ReasonInv
  <2> QED
    BY <2>2, <2>3
<1> QED
  BY <1>3, <1>4 DEF AskInv

\* A rewrite is a query that was not asked before, or the last step.
LEMMA RewriteKeeps ==
  ASSUME AskInv, NEW query, Rewrite(query)
  PROVE  AskInv'
<1>1. /\ ask_step = "rewrite" /\ llm_calls' = llm_calls + 1 /\ ask' = ask /\ found' = found
      /\ retrievals' = retrievals /\ enough' = enough
  BY DEF Rewrite
<1>2. Covered' = Covered
  BY <1>1 DEF Covered
<1>3. /\ AskTypes /\ QueriesInv /\ stopped = Unknown /\ ~enough /\ ask.llm /\ enough = Covered
      /\ retrievals = llm_calls + 1 /\ retrievals <= ask.max_rounds
  BY <1>1 DEF AskInv, CallsInv, ReasonInv
<1>4. CASE query \in Queries \ Asked
  <2>1. queries' = Append(queries, query) /\ ask_step' = "retrieve" /\ stopped' = stopped
    BY <1>4 DEF Rewrite, Asked
  <2>2. queries' \in Seq(Queries) /\ Len(queries') = Len(queries) + 1
    BY <1>3, <1>4, <2>1 DEF AskTypes
  <2>3. Asked' = Asked \cup {query}
    <3>1. DOMAIN queries = 1..Len(queries) /\ Len(queries) \in Nat
      BY <1>3 DEF AskTypes
    <3>2. DOMAIN queries' = 1..(Len(queries) + 1)
      BY <2>2
    <3>3. /\ \A i \in 1..Len(queries) : queries'[i] = queries[i]
          /\ queries'[Len(queries) + 1] = query
      BY <1>3, <1>4, <2>1 DEF AskTypes
    <3>4. \A q : q \in Asked' <=> \E i \in 1..(Len(queries) + 1) : queries'[i] = q
      BY <3>2 DEF Asked
    <3>5. \A q : q \in Asked <=> \E i \in 1..Len(queries) : queries[i] = q
      BY <3>1 DEF Asked
    <3>6. \A i : i \in 1..(Len(queries) + 1) <=> (i \in 1..Len(queries) \/ i = Len(queries) + 1)
      BY <3>1
    <3> QED
      BY <3>3, <3>4, <3>5, <3>6
  <2>4. QueriesInv'
    <3>1. IsFiniteSet(Asked \cup {query})
          /\ Cardinality(Asked \cup {query}) = Cardinality(Asked) + 1
      BY <1>3, <1>4, FS_AddElement DEF QueriesInv
    <3> QED
      BY <1>3, <2>2, <2>3, <3>1 DEF QueriesInv
  <2>5. AskTypes' /\ CallsInv' /\ ReasonInv'
    BY <1>1, <1>3, <2>1, <2>2 DEF AskTypes, CallsInv, ReasonInv
  <2> QED
    BY <2>4, <2>5 DEF AskInv
<1>5. CASE query \notin Queries \ Asked
  <2>1. queries' = queries /\ ask_step' = "finalize" /\ stopped' = "no_new_query"
    BY <1>5 DEF Rewrite, Asked
  <2>2. AskTypes' /\ QueriesInv' /\ CallsInv'
    BY <1>1, <1>3, <2>1 DEF AskTypes, QueriesInv, Asked, CallsInv
  <2>3. ReasonInv'
    BY <1>1, <1>2, <1>3, <2>1 DEF ReasonInv, Unknown
  <2> QED
    BY <2>2, <2>3 DEF AskInv
<1> QED
  BY <1>4, <1>5

\* A rewrite that fails is paid for all the same.
LEMMA FailKeeps ==
  ASSUME AskInv, RewriteFails
  PROVE  AskInv'
<1>1. /\ ask_step = "rewrite" /\ llm_calls' = llm_calls + 1 /\ ask' = ask /\ found' = found
      /\ retrievals' = retrievals /\ enough' = enough /\ queries' = queries
      /\ ask_step' = "finalize" /\ stopped' = "rewrite_failed"
  BY DEF RewriteFails
<1>2. Covered' = Covered
  BY <1>1 DEF Covered
<1>3. /\ AskTypes /\ QueriesInv /\ ~enough /\ ask.llm /\ enough = Covered
      /\ retrievals = llm_calls + 1 /\ retrievals <= ask.max_rounds
  BY <1>1 DEF AskInv, CallsInv, ReasonInv
<1>4. AskTypes' /\ QueriesInv' /\ CallsInv'
  BY <1>1, <1>3 DEF AskTypes, QueriesInv, Asked, CallsInv
<1>5. ReasonInv'
  BY <1>1, <1>2, <1>3 DEF ReasonInv, Unknown
<1> QED
  BY <1>4, <1>5 DEF AskInv

\* The reason is given when the loop is over.
LEMMA FinalizeKeeps ==
  ASSUME AskInv, Finalize
  PROVE  AskInv'
<1>1. /\ ask_step = "finalize" /\ ask_step' = "fit" /\ ask' = ask /\ found' = found
      /\ queries' = queries /\ retrievals' = retrievals /\ enough' = enough
      /\ llm_calls' = llm_calls
      /\ stopped' = IF stopped # Unknown THEN stopped
                    ELSE IF enough THEN "enough"
                    ELSE IF ask.llm THEN "no_rounds" ELSE "no_llm"
  BY DEF Finalize
<1>2. Covered' = Covered
  BY <1>1 DEF Covered
<1>3. /\ enough = Covered
      /\ \/ stopped \in {"no_new_query", "rewrite_failed"} /\ ~enough
         \/ stopped = Unknown /\ (~enough /\ ask.llm => retrievals = ask.max_rounds + 1)
      /\ ~ask.llm => llm_calls = 0
  BY <1>1 DEF AskInv, ReasonInv, CallsInv
<1>4. AskTypes' /\ QueriesInv' /\ CallsInv'
  BY <1>1 DEF AskInv, AskTypes, QueriesInv, Asked, CallsInv
<1>5. ReasonInv'
  <2>1. /\ stopped' = "enough" <=> enough
        /\ stopped' = "no_rounds" => retrievals = ask.max_rounds + 1
        /\ stopped' = "no_llm" => llm_calls = 0
    BY <1>1, <1>3 DEF Unknown
  <2> QED
    BY <1>1, <1>2, <1>3, <2>1 DEF ReasonInv
<1> QED
  BY <1>4, <1>5 DEF AskInv

\* Fitting, the answer and the next ask.
LEMMA RestKeeps ==
  ASSUME AskInv, FitItem \/ AnswerAsk \/ UNCHANGED askVars
  PROVE  AskInv'
<1>1. /\ ask' = ask /\ found' = found /\ queries' = queries /\ retrievals' = retrievals
      /\ enough' = enough /\ llm_calls' = llm_calls /\ stopped' = stopped
      /\ \/ ask_step' = ask_step
         \/ ask_step = "fit" /\ ask_step' = "answered"
  BY DEF FitItem, AnswerAsk, askVars
<1>2. Covered' = Covered
  BY <1>1 DEF Covered
<1>3. AskTypes' /\ QueriesInv' /\ CallsInv'
  BY <1>1 DEF AskInv, AskTypes, QueriesInv, Asked, CallsInv
<1>4. ReasonInv'
  BY <1>1, <1>2 DEF AskInv, ReasonInv
<1> QED
  BY <1>3, <1>4 DEF AskInv

\* No ask.
LEMMA NoAskInv ==
  /\ AskInit => AskInv
  /\ ForgetAsk => AskInv'
<1>1. IsFiniteSet({}) /\ Cardinality({}) = 0
  BY FS_EmptySet
<1>2. AskInit => AskInv
  <2> SUFFICES ASSUME AskInit PROVE AskInv
    OBVIOUS
  <2>1. Asked = {} /\ Len(queries) = 0
    BY DEF AskInit, Asked
  <2>2. QueriesInv
    BY <1>1, <2>1 DEF QueriesInv
  <2>3. AskTypes
    <3>1. /\ ask_step = "none" /\ ask = NoAsk /\ queries = <<>>
          /\ retrievals = 0 /\ llm_calls = 0 /\ enough = FALSE
      BY DEF AskInit
    <3>2. NoAsk.max_rounds = 0 /\ NoAsk.budget = 0
      BY DEF NoAsk
    <3>3. enough \in BOOLEAN
      BY <3>1
    <3> QED
      BY <3>1, <3>2, <3>3 DEF AskTypes
  <2>4. CallsInv
    BY DEF AskInit, NoAsk, CallsInv
  <2>5. ReasonInv
    BY DEF AskInit, ReasonInv
  <2> QED
    BY <2>2, <2>3, <2>4, <2>5 DEF AskInv
<1>3. ForgetAsk => AskInv'
  <2> SUFFICES ASSUME ForgetAsk PROVE AskInv'
    OBVIOUS
  <2>1. Asked' = {} /\ Len(queries') = 0
    BY DEF ForgetAsk, Asked
  <2>2. QueriesInv'
    BY <1>1, <2>1 DEF QueriesInv
  <2>3. AskTypes'
    <3>1. /\ ask_step' = "none" /\ ask' = NoAsk /\ queries' = <<>>
          /\ retrievals' = 0 /\ llm_calls' = 0 /\ enough' = FALSE
      BY DEF ForgetAsk
    <3>2. NoAsk.max_rounds = 0 /\ NoAsk.budget = 0
      BY DEF NoAsk
    <3>3. enough' \in BOOLEAN
      BY <3>1
    <3> QED
      BY <3>1, <3>2, <3>3 DEF AskTypes
  <2>4. CallsInv'
    BY DEF ForgetAsk, NoAsk, CallsInv
  <2>5. ReasonInv'
    BY DEF ForgetAsk, ReasonInv
  <2> QED
    BY <2>2, <2>3, <2>4, <2>5 DEF AskInv
<1> QED
  BY <1>2, <1>3

-------------------------------------------------------------------------------
\* An ask costs at most max_rounds LLM calls and one retrieval more, every one
\* for another query, and says truly why it stopped (build_ask_graph), for any
\* retrieval and any rewriter.
THEOREM AsksAreBounded == AskSpec => []AskBounded
<1>1. AskInit => AskInv
  BY NoAskInv
<1>2. AskInv /\ [AskNext]_askVars => AskInv'
  BY StartKeeps, FindKeeps, GradeKeeps, RewriteKeeps, FailKeeps, FinalizeKeeps, RestKeeps,
     NoAskInv DEF AskNext, AskStep
<1>3. AskInv => AskBounded
  BY DEF AskInv, QueriesInv, Asked, CallsInv, ReasonInv, Covered, AskBounded
<1> QED
  BY <1>1, <1>2, <1>3, PTL DEF AskSpec

-------------------------------------------------------------------------------
Topics == {r.topic : r \in UNION {q.rows : q \in AskRequests}}
FoundItem == [id : DOMAIN Quotes, tokens : Nat, query : Queries, outdated : BOOLEAN,
              current : SUBSET Topics]

OnceEach(s) == \A i, j \in 1..Len(s) : s[i].id = s[j].id => i = j
CurrentFirst(s) == \A i, j \in 1..Len(s) : i < j /\ s[i].outdated => s[j].outdated

AskedInv ==
    ask_step # "none" => ask \in AskRequests /\ queries \in Seq(Queries) /\ queries # <<>>

FoundInv ==
    /\ found \in Seq(FoundItem) /\ OnceEach(found)
    /\ \A i \in 1..Len(found) : found[i].outdated => Outdated(found[i].id, ask.rows)
    /\ ask_step = "none" => found = <<>>

\* What is still to be fitted is found, not answered yet, and current before outdated.
FittingInv ==
    /\ fitting \in Seq(FoundItem) /\ OnceEach(fitting) /\ CurrentFirst(fitting)
    /\ \A j \in 1..Len(fitting) : \E i \in 1..Len(found) : fitting[j] = found[i]
    /\ \A i \in 1..Len(answer), j \in 1..Len(fitting) :
          answer[i].id # fitting[j].id /\ (answer[i].outdated => fitting[j].outdated)
    /\ ask_step \notin {"fit", "answered"} =>
          fitting = <<>> /\ answer = <<>> /\ spent = 0 /\ omitted = 0
    /\ ask_step = "answered" => fitting = <<>>

\* A current item that was looked at and is not in the answer.
PassedOver(i) ==
    /\ ~found[i].outdated
    /\ \A j \in 1..Len(answer) : answer[j].id # found[i].id
    /\ \A j \in 1..Len(fitting) : fitting[j].id # found[i].id

\* It does not fit any more, and only smaller outdated ones did.
AnswerInv ==
    /\ answer \in Seq(FoundItem) /\ OnceEach(answer) /\ CurrentFirst(answer)
    /\ ask.budget \in Nat /\ spent \in Nat /\ spent <= ask.budget /\ omitted \in Nat
    /\ ask_step \in {"fit", "answered"} =>
          /\ Len(answer) + omitted + Len(fitting) = Len(found)
          /\ \A i \in 1..Len(found) : PassedOver(i) =>
                /\ ask.budget < spent + found[i].tokens
                /\ \A j \in 1..Len(answer) :
                      answer[j].outdated => answer[j].tokens < found[i].tokens

OrderInv == AskedInv /\ FoundInv /\ FittingInv /\ AnswerInv

-------------------------------------------------------------------------------
\* Two parts one after the other: every place of the whole is one of a part.
LEMMA Concatenated ==
  ASSUME NEW S, NEW s \in Seq(S), NEW u \in Seq(S), NEW w, w = s \o u
  PROVE  /\ w \in Seq(S) /\ Len(w) = Len(s) + Len(u)
         /\ \A i \in 1..Len(s) : i \in 1..Len(w) /\ w[i] = s[i]
         /\ \A i \in 1..Len(u) : Len(s) + i \in 1..Len(w) /\ w[Len(s) + i] = u[i]
         /\ \A i \in 1..Len(w) :
               \/ i \in 1..Len(s)
               \/ \E k \in 1..Len(u) : i = Len(s) + k
<1>1. /\ w \in Seq(S) /\ Len(w) = Len(s) + Len(u)
      /\ \A i \in 1..(Len(s) + Len(u)) :
            w[i] = IF i <= Len(s) THEN s[i] ELSE u[i - Len(s)]
  BY ConcatProperties
<1>2. Len(s) \in Nat /\ Len(u) \in Nat
  OBVIOUS
<1>3. ASSUME NEW i \in 1..Len(u)
      PROVE  Len(s) + i \in 1..Len(w) /\ w[Len(s) + i] = u[i]
  <2>1. Len(s) + i \in 1..(Len(s) + Len(u)) /\ ~(Len(s) + i <= Len(s)) /\ (Len(s) + i) - Len(s) = i
    BY <1>2
  <2> QED
    BY <1>1, <2>1
<1>4. ASSUME NEW i \in 1..Len(w), i \notin 1..Len(s)
      PROVE  \E k \in 1..Len(u) : i = Len(s) + k
  <2>1. i - Len(s) \in 1..Len(u) /\ i = Len(s) + (i - Len(s))
    BY <1>1, <1>2, <1>4
  <2> QED
    BY <2>1
<1>5. \A i \in 1..Len(s) : i \in 1..Len(w) /\ w[i] = s[i]
  BY <1>1, <1>2
<1> QED
  BY <1>1, <1>3, <1>4, <1>5

\* Ordered has every found item once, the current ones first.
LEMMA OrderedItems ==
  ASSUME found \in Seq(FoundItem), OnceEach(found)
  PROVE  /\ Ordered \in Seq(FoundItem) /\ Len(Ordered) = Len(found)
         /\ OnceEach(Ordered) /\ CurrentFirst(Ordered)
         /\ \A j \in 1..Len(Ordered) : \E i \in 1..Len(found) : Ordered[j] = found[i]
         /\ \A i \in 1..Len(found) : \E j \in 1..Len(Ordered) : Ordered[j] = found[i]
<1> DEFINE A == {i \in 1..Len(found) : ~found[i].outdated}
           B == {i \in 1..Len(found) : found[i].outdated}
           a == Kept(found, A)
           b == Kept(found, B)
           n == Cardinality(A)
           m == Cardinality(B)
           w == a \o b
<1>0. DOMAIN found = 1..Len(found) /\ Len(found) \in Nat
  OBVIOUS
<1>1. Ordered = w
  BY <1>0 DEF Ordered
<1>2. A \subseteq 1..Len(found) /\ B \subseteq 1..Len(found) /\ A \cap B = {}
      /\ A \cup B = 1..Len(found)
      /\ (\A i \in A : ~found[i].outdated) /\ \A i \in B : found[i].outdated
  OBVIOUS
<1> HIDE DEF A, B
<1>3. /\ IsFiniteSet(A) /\ n \in Nat /\ a \in Seq(FoundItem) /\ Len(a) = n
      /\ \A i \in 1..n : Nth(A, i) \in A /\ a[i] = found[Nth(A, i)]
      /\ \A i, j \in 1..n : i < j => Nth(A, i) < Nth(A, j)
      /\ \A i \in A : \E j \in 1..n : a[j] = found[i]
  BY <1>2, KeptElements
<1>4. /\ IsFiniteSet(B) /\ m \in Nat /\ b \in Seq(FoundItem) /\ Len(b) = m
      /\ \A i \in 1..m : Nth(B, i) \in B /\ b[i] = found[Nth(B, i)]
      /\ \A i, j \in 1..m : i < j => Nth(B, i) < Nth(B, j)
      /\ \A i \in B : \E j \in 1..m : b[j] = found[i]
  BY <1>2, KeptElements
<1>5. n + m = Len(found)
  <2>1. Cardinality(A \cup B) = n + m - Cardinality(A \cap B)
    BY <1>3, <1>4, FS_Union
  <2>2. Cardinality({}) = 0
    BY FS_EmptySet
  <2>3. Cardinality(A \cap B) = 0
    BY <1>2, <2>2, Zenon
  <2>4. Cardinality(1..Len(found)) = Len(found)
    <3>1. 1 \in Int /\ Len(found) \in Int /\ Len(found) >= 0
      BY <1>0
    <3>2. Cardinality(1..Len(found)) = IF 1 > Len(found) THEN 0 ELSE Len(found) - 1 + 1
      BY <3>1, FS_Interval
    <3> QED
      BY <3>1, <3>2
  <2>5. Cardinality(A \cup B) = Len(found)
    BY <1>2, <2>4, Zenon
  <2> QED
    BY <1>3, <1>4, <2>1, <2>3, <2>5
<1>15. w = a \o b
  OBVIOUS
<1> HIDE DEF a, b, n, m, w
<1>6. /\ w \in Seq(FoundItem) /\ Len(w) = n + m
      /\ \A i \in 1..n : i \in 1..(n + m) /\ w[i] = a[i]
      /\ \A i \in 1..m : n + i \in 1..(n + m) /\ w[n + i] = b[i]
      /\ \A i \in 1..(n + m) : i \in 1..n \/ \E k \in 1..m : i = n + k
  <2>1. a \in Seq(FoundItem) /\ b \in Seq(FoundItem) /\ Len(a) = n /\ Len(b) = m
        /\ Len(a) \in Nat /\ Len(b) \in Nat
    BY <1>3, <1>4
  <2>2. w \in Seq(FoundItem)
    BY <1>15, <2>1, Concatenated
  <2>3. Len(w) = Len(a) + Len(b)
    <3>1. Len(a \o b) = Len(a) + Len(b)
      BY <2>1, ConcatProperties, Zenon
    <3> QED
      BY <1>15, <3>1, Zenon
  <2>4. \A i \in 1..Len(a) : i \in 1..Len(w) /\ w[i] = a[i]
    BY <1>15, <2>1, Concatenated
  <2>5. \A i \in 1..Len(b) : Len(a) + i \in 1..Len(w) /\ w[Len(a) + i] = b[i]
    BY <1>15, <2>1, Concatenated
  <2>6. ASSUME NEW i \in 1..(n + m), i \notin 1..n
        PROVE  \E k \in 1..m : i = n + k
    <3>1. i - n \in 1..m /\ i = n + (i - n)
      BY <1>3, <1>4, <2>6
    <3> QED
      BY <3>1
  <2> QED
    BY <2>1, <2>2, <2>3, <2>4, <2>5, <2>6
<1>7. ASSUME NEW i \in 1..n, NEW j \in 1..n
      PROVE  a[i].id = a[j].id => i = j
  <2>1. Nth(A, i) \in 1..Len(found) /\ Nth(A, j) \in 1..Len(found)
    BY <1>2, <1>3
  <2>2. a[i].id = a[j].id => Nth(A, i) = Nth(A, j)
    BY <1>3, <2>1 DEF OnceEach
  <2>3. i < j \/ j < i \/ i = j
    OBVIOUS
  <2>4. Nth(A, i) = Nth(A, j) => ~(Nth(A, i) < Nth(A, j)) /\ ~(Nth(A, j) < Nth(A, i))
    BY <2>1
  <2> QED
    BY <1>3, <2>2, <2>3, <2>4
<1>8. ASSUME NEW i \in 1..m, NEW j \in 1..m
      PROVE  b[i].id = b[j].id => i = j
  <2>1. Nth(B, i) \in 1..Len(found) /\ Nth(B, j) \in 1..Len(found)
    BY <1>2, <1>4
  <2>2. b[i].id = b[j].id => Nth(B, i) = Nth(B, j)
    BY <1>4, <2>1 DEF OnceEach
  <2>3. i < j \/ j < i \/ i = j
    OBVIOUS
  <2>4. Nth(B, i) = Nth(B, j) => ~(Nth(B, i) < Nth(B, j)) /\ ~(Nth(B, j) < Nth(B, i))
    BY <2>1
  <2> QED
    BY <1>4, <2>2, <2>3, <2>4
<1>9. ASSUME NEW i \in 1..n, NEW j \in 1..m
      PROVE  a[i].id # b[j].id
  <2>1. /\ Nth(A, i) \in A /\ Nth(B, j) \in B
        /\ Nth(A, i) \in 1..Len(found) /\ Nth(B, j) \in 1..Len(found)
    BY <1>2, <1>3, <1>4
  <2>2. Nth(A, i) # Nth(B, j)
    BY <1>2, <2>1
  <2>3. found[Nth(A, i)].id # found[Nth(B, j)].id
    BY <2>1, <2>2 DEF OnceEach
  <2> QED
    BY <1>3, <1>4, <2>3
<1>10. /\ \A i \in 1..n : ~a[i].outdated
       /\ \A i \in 1..m : b[i].outdated
  <2>1. ASSUME NEW i \in 1..n PROVE ~a[i].outdated
    <3>1. Nth(A, i) \in A /\ a[i] = found[Nth(A, i)]
      BY <1>3
    <3> QED
      BY <1>2, <3>1
  <2>2. ASSUME NEW i \in 1..m PROVE b[i].outdated
    <3>1. Nth(B, i) \in B /\ b[i] = found[Nth(B, i)]
      BY <1>4
    <3> QED
      BY <1>2, <3>1
  <2> QED
    BY <2>1, <2>2
<1>11. OnceEach(w)
  <2> SUFFICES ASSUME NEW i \in 1..(n + m), NEW j \in 1..(n + m),
                      w[i].id = w[j].id
               PROVE  i = j
    BY <1>6 DEF OnceEach
  <2>1. CASE i \in 1..n /\ j \in 1..n
    BY <1>6, <1>7, <2>1
  <2>2. CASE i \in 1..n /\ j \notin 1..n
    BY <1>6, <1>9, <2>2
  <2>3. CASE i \notin 1..n /\ j \in 1..n
    <3>1. PICK k \in 1..m : i = n + k
      BY <1>6, <2>3
    <3> QED
      BY <1>6, <1>9, <2>3, <3>1
  <2>4. CASE i \notin 1..n /\ j \notin 1..n
    <3>1. PICK k \in 1..m : i = n + k
      BY <1>6, <2>4
    <3>2. PICK l \in 1..m : j = n + l
      BY <1>6, <2>4
    <3> QED
      BY <1>6, <1>8, <3>1, <3>2
  <2> QED
    BY <2>1, <2>2, <2>3, <2>4
<1>12. CurrentFirst(w)
  <2> SUFFICES ASSUME NEW i \in 1..(n + m), NEW j \in 1..(n + m), i < j, w[i].outdated
               PROVE  w[j].outdated
    BY <1>6 DEF CurrentFirst
  <2>1. i \notin 1..n
    BY <1>6, <1>10
  <2>2. j \notin 1..n
    BY <1>3, <2>1
  <2> QED
    BY <1>6, <1>10, <2>2
<1>13. \A j \in 1..(n + m) : \E i \in 1..Len(found) : w[j] = found[i]
  <2> SUFFICES ASSUME NEW j \in 1..(n + m)
               PROVE  \E i \in 1..Len(found) : w[j] = found[i]
    OBVIOUS
  <2>1. CASE j \in 1..n
    <3>1. Nth(A, j) \in A /\ a[j] = found[Nth(A, j)] /\ w[j] = a[j]
      BY <1>3, <1>6, <2>1
    <3> QED
      BY <1>2, <3>1
  <2>2. ASSUME NEW k \in 1..m, j = n + k PROVE \E i \in 1..Len(found) : w[j] = found[i]
    <3>1. Nth(B, k) \in B /\ b[k] = found[Nth(B, k)] /\ w[j] = b[k]
      BY <1>4, <1>6, <2>2
    <3> QED
      BY <1>2, <3>1
  <2> QED
    BY <1>6, <2>1, <2>2
<1>14. \A i \in 1..Len(found) : \E j \in 1..(n + m) : w[j] = found[i]
  <2> SUFFICES ASSUME NEW i \in 1..Len(found)
               PROVE  \E j \in 1..(n + m) : w[j] = found[i]
    OBVIOUS
  <2>1. CASE i \in A
    <3>1. PICK j \in 1..n : a[j] = found[i]
      BY <1>3, <2>1
    <3> QED
      BY <1>6, <3>1
  <2>2. CASE i \in B
    <3>1. PICK j \in 1..m : b[j] = found[i]
      BY <1>4, <2>2
    <3> QED
      BY <1>6, <3>1
  <2> QED
    BY <1>2, <2>1, <2>2
<1> QED
  BY <1>1, <1>5, <1>6, <1>11, <1>12, <1>13, <1>14

-------------------------------------------------------------------------------
\* No item is found before an ask begins.
LEMMA StartKeepsOrder ==
  ASSUME OrderInv, NEW r \in AskRequests, StartAsk(r)
  PROVE  OrderInv'
<1>1. /\ ask_step = "none" /\ ask_step' = "retrieve" /\ ask' = r /\ queries' = <<r.question>>
      /\ found' = found /\ fitting' = fitting /\ answer' = answer /\ spent' = spent
      /\ omitted' = omitted
  BY DEF StartAsk
<1>2. /\ found = <<>> /\ fitting = <<>> /\ answer = <<>> /\ spent = 0 /\ omitted = 0
  BY <1>1 DEF OrderInv, FoundInv, FittingInv
<1>3. r.question \in Queries /\ r.budget \in Nat
  BY AskAssumption
<1>4. AskedInv'
  BY <1>1, <1>3 DEF AskedInv
<1>5. FoundInv'
  BY <1>1, <1>2 DEF FoundInv, OnceEach
<1>6. FittingInv'
  BY <1>1, <1>2 DEF FittingInv, OnceEach, CurrentFirst
<1>7. AnswerInv'
  BY <1>1, <1>2, <1>3 DEF AnswerInv, OnceEach, CurrentFirst
<1> QED
  BY <1>4, <1>5, <1>6, <1>7 DEF OrderInv

\* What is found is new.
LEMMA FindKeepsOrder ==
  ASSUME OrderInv, NEW retrieved \in Seq([id : DOMAIN Quotes, tokens : Nat]),
         FindItems(retrieved)
  PROVE  OrderInv'
<1> DEFINE new == Kept(retrieved, Unseen(retrieved))
           row(x) == [id |-> x.id, tokens |-> x.tokens, query |-> queries[Len(queries)],
                      outdated |-> Outdated(x.id, ask.rows), current |-> Current(x.id, ask.rows)]
           rows == [i \in DOMAIN new |-> row(new[i])]
           n == Cardinality(Unseen(retrieved))
<1>1. /\ ask_step = "retrieve" /\ ask_step' = "grade" /\ ask' = ask /\ queries' = queries
      /\ found' = found \o rows /\ fitting' = fitting /\ answer' = answer /\ spent' = spent
      /\ omitted' = omitted
  BY DEF FindItems
<1>2. /\ ask \in AskRequests /\ queries \in Seq(Queries) /\ queries # <<>>
      /\ found \in Seq(FoundItem) /\ OnceEach(found)
      /\ \A i \in 1..Len(found) : found[i].outdated => Outdated(found[i].id, ask.rows)
  BY <1>1 DEF OrderInv, AskedInv, FoundInv
<1>3. /\ Unseen(retrieved) \subseteq 1..Len(retrieved)
      /\ \A i \in Unseen(retrieved) :
            /\ \A j \in 1..Len(found) : found[j].id # retrieved[i].id
            /\ \A j \in 1..(i - 1) : retrieved[j].id # retrieved[i].id
  BY <1>2 DEF Unseen, FoundIds
<1>4. /\ n \in Nat /\ new \in Seq([id : DOMAIN Quotes, tokens : Nat]) /\ Len(new) = n
      /\ \A i \in 1..n : /\ Nth(Unseen(retrieved), i) \in Unseen(retrieved)
                         /\ new[i] = retrieved[Nth(Unseen(retrieved), i)]
      /\ \A i, j \in 1..n :
            i < j => Nth(Unseen(retrieved), i) < Nth(Unseen(retrieved), j)
  BY <1>3, KeptElements
<1>5. ASSUME NEW i \in 1..n, NEW j \in 1..n, i < j PROVE new[i].id # new[j].id
  <2> DEFINE k == Nth(Unseen(retrieved), i)
             l == Nth(Unseen(retrieved), j)
  <2>1. k < l /\ k \in Unseen(retrieved) /\ l \in Unseen(retrieved)
    BY <1>4, <1>5
  <2>2. new[i] = retrieved[k] /\ new[j] = retrieved[l]
    BY <1>4
  <2> HIDE DEF k, l, new
  <2>3. k \in 1..(l - 1)
    BY <1>3, <2>1
  <2> QED
    BY <1>3, <2>1, <2>2, <2>3
<1>6. ASSUME NEW i \in 1..n, NEW j \in 1..Len(found) PROVE found[j].id # new[i].id
  BY <1>3, <1>4
<1>7. queries[Len(queries)] \in Queries
  BY <1>2
<1> HIDE DEF new, n
<1>8. DOMAIN new = 1..n
  BY <1>4
<1>9. ASSUME NEW i \in 1..n PROVE row(new[i]) \in FoundItem
  <2>1. new[i].id \in DOMAIN Quotes /\ new[i].tokens \in Nat
    <3>1. i \in 1..Len(new)
      BY <1>4
    <3>2. new[i] \in [id : DOMAIN Quotes, tokens : Nat]
      BY <1>4, <3>1, ElementOfSeq, Zenon
    <3> QED
      BY <3>2
  <2>2. Current(new[i].id, ask.rows) \subseteq Topics
    BY <1>2 DEF Current, Topics
  <2>3. Outdated(new[i].id, ask.rows) \in BOOLEAN
    BY DEF Outdated
  <2> QED
    BY <1>7, <2>1, <2>2, <2>3 DEF FoundItem
<1>10. /\ \A i \in 1..n : /\ rows[i].id = new[i].id
                          /\ rows[i].outdated = Outdated(new[i].id, ask.rows)
       /\ rows \in Seq(FoundItem) /\ Len(rows) = n
  <2>1. rows = [i \in 1..n |-> row(new[i])]
    BY <1>8
  <2>2. \A i \in 1..n : rows[i].id = new[i].id /\ rows[i].outdated = Outdated(new[i].id, ask.rows)
    BY <2>1
  <2> HIDE DEF row
  <2>3. rows \in Seq(FoundItem) /\ Len(rows) = n
    BY <1>4, <1>9, <2>1
  <2> QED
    BY <2>2, <2>3
<1> HIDE DEF rows
<1>11. /\ found' \in Seq(FoundItem) /\ Len(found') = Len(found) + n /\ Len(found) \in Nat
       /\ \A i \in 1..Len(found) : found'[i] = found[i]
       /\ \A i \in 1..n : found'[Len(found) + i] = rows[i]
  <2>1. Len(found \o rows) = Len(found) + Len(rows)
    BY <1>2, <1>10, ConcatProperties, Zenon
  <2>2. found' \in Seq(FoundItem)
    BY <1>1, <1>2, <1>10, Concatenated
  <2>3. \A i \in 1..Len(found) : found'[i] = found[i]
    BY <1>1, <1>2, <1>10, Concatenated
  <2>4. \A i \in 1..Len(rows) : found'[Len(found) + i] = rows[i]
    BY <1>1, <1>2, <1>10, Concatenated
  <2>5. Len(found') = Len(found) + Len(rows)
    BY <1>1, <2>1, Zenon
  <2> QED
    BY <1>2, <1>10, <2>2, <2>3, <2>4, <2>5
<1>12. ASSUME NEW i \in 1..(Len(found) + n), i \notin 1..Len(found)
       PROVE  i - Len(found) \in 1..n /\ found'[i] = rows[i - Len(found)]
  <2>1. i - Len(found) \in 1..n /\ i = Len(found) + (i - Len(found))
    BY <1>4, <1>11, <1>12
  <2> QED
    BY <1>11, <2>1
<1>13. OnceEach(found')
  <2>1. ASSUME NEW i \in 1..(Len(found) + n), NEW j \in 1..(Len(found) + n),
               i < j, found'[i].id = found'[j].id
        PROVE  FALSE
    <3>1. CASE j \in 1..Len(found)
      <4>1. i \in 1..Len(found)
        BY <1>11, <2>1, <3>1
      <4> QED
        BY <1>2, <1>11, <2>1, <3>1, <4>1, SMTT(60) DEF OnceEach
    <3>2. CASE i \in 1..Len(found) /\ j \notin 1..Len(found)
      <4>1. found'[i].id = found[i].id
        BY <1>11, <3>2
      <4>2. j - Len(found) \in 1..n /\ found'[j].id = new[j - Len(found)].id
        BY <1>10, <1>12, <3>2
      <4>3. found[i].id # new[j - Len(found)].id
        BY <1>6, <3>2, <4>2
      <4> QED
        BY <2>1, <4>1, <4>2, <4>3
    <3>3. CASE i \notin 1..Len(found) /\ j \notin 1..Len(found)
      <4>1. /\ i - Len(found) \in 1..n /\ j - Len(found) \in 1..n
            /\ i - Len(found) < j - Len(found)
        BY <1>4, <1>11, <1>12, <2>1, <3>3
      <4>2. new[i - Len(found)].id = new[j - Len(found)].id
        BY <1>10, <1>12, <2>1, <3>3, <4>1
      <4> QED
        BY <1>5, <4>1, <4>2
    <3> QED
      BY <1>11, <2>1, <3>1, <3>2, <3>3
  <2>2. \A i, j \in 1..(Len(found) + n) : i = j \/ i < j \/ j < i
    BY <1>4, <1>11
  <2>3. \A i, j \in 1..(Len(found) + n) : found'[i].id = found'[j].id => i = j
    <3> SUFFICES ASSUME NEW i \in 1..(Len(found) + n), NEW j \in 1..(Len(found) + n),
                        found'[i].id = found'[j].id
                 PROVE  i = j
      OBVIOUS
    <3>1. ~(i < j) /\ ~(j < i)
      BY <2>1
    <3> QED
      BY <2>2, <3>1, Zenon
  <2> QED
    BY <1>11, <2>3 DEF OnceEach
<1>14. \A i \in 1..Len(found') : found'[i].outdated => Outdated(found'[i].id, ask'.rows)
  <2> SUFFICES ASSUME NEW i \in 1..(Len(found) + n), found'[i].outdated
               PROVE  Outdated(found'[i].id, ask.rows)
    BY <1>1, <1>11
  <2>1. CASE i \in 1..Len(found)
    BY <1>2, <1>11, <2>1
  <2>2. CASE i \notin 1..Len(found)
    BY <1>10, <1>12, <2>2
  <2> QED
    BY <2>1, <2>2
<1>15. fitting = <<>> /\ answer = <<>> /\ spent = 0 /\ omitted = 0 /\ ask.budget \in Nat
  BY <1>1 DEF OrderInv, FittingInv, AnswerInv
<1>16. AskedInv'
  BY <1>1, <1>2 DEF AskedInv
<1>17. FoundInv'
  BY <1>1, <1>11, <1>13, <1>14 DEF FoundInv
<1>18. FittingInv'
  BY <1>1, <1>15 DEF FittingInv, OnceEach, CurrentFirst
<1>19. AnswerInv'
  BY <1>1, <1>15 DEF AnswerInv, OnceEach, CurrentFirst
<1> QED
  BY <1>16, <1>17, <1>18, <1>19 DEF OrderInv

\* Grading and rewriting touch neither what is found nor the answer.
LEMMA LookKeepsOrder ==
  ASSUME OrderInv,
         Grade \/ RewriteFails \/ \E query \in Queries \cup {NoQuery} : Rewrite(query)
  PROVE  OrderInv'
<1>1. /\ ask' = ask /\ found' = found /\ fitting' = fitting /\ answer' = answer
      /\ spent' = spent /\ omitted' = omitted
      /\ ask_step \in {"grade", "rewrite"} /\ ask_step' \in {"retrieve", "rewrite", "finalize"}
  BY DEF Grade, RewriteFails, Rewrite
<1>2. queries' \in Seq(Queries) /\ queries' # <<>>
  <2>1. queries \in Seq(Queries) /\ queries # <<>>
    BY <1>1 DEF OrderInv, AskedInv
  <2>2. queries' = queries \/ \E query \in Queries : queries' = Append(queries, query)
    BY DEF Grade, RewriteFails, Rewrite
  <2>3. ASSUME NEW query \in Queries, queries' = Append(queries, query)
        PROVE  queries' \in Seq(Queries) /\ queries' # <<>>
    BY <2>1, <2>3
  <2> QED
    BY <2>1, <2>2, <2>3
<1>3. AskedInv'
  BY <1>1, <1>2 DEF OrderInv, AskedInv
<1>4. FoundInv'
  BY <1>1 DEF OrderInv, FoundInv
<1>5. FittingInv'
  BY <1>1 DEF OrderInv, FittingInv
<1>6. AnswerInv'
  BY <1>1 DEF OrderInv, AnswerInv
<1> QED
  BY <1>3, <1>4, <1>5, <1>6 DEF OrderInv

\* The items to be fitted are those found, the current ones first.
LEMMA FinalizeKeepsOrder ==
  ASSUME OrderInv, Finalize
  PROVE  OrderInv'
<1>1. /\ ask_step = "finalize" /\ ask_step' = "fit" /\ fitting' = Ordered
      /\ ask' = ask /\ found' = found /\ queries' = queries /\ answer' = answer
      /\ spent' = spent /\ omitted' = omitted
  BY DEF Finalize
<1>2. /\ AskedInv /\ FoundInv /\ answer = <<>> /\ spent = 0 /\ omitted = 0
      /\ ask.budget \in Nat /\ found \in Seq(FoundItem) /\ OnceEach(found)
  BY <1>1 DEF OrderInv, FoundInv, FittingInv, AnswerInv
<1>3. /\ Ordered \in Seq(FoundItem) /\ Len(Ordered) = Len(found)
      /\ OnceEach(Ordered) /\ CurrentFirst(Ordered)
      /\ \A j \in 1..Len(Ordered) : \E i \in 1..Len(found) : Ordered[j] = found[i]
      /\ \A i \in 1..Len(found) : \E j \in 1..Len(Ordered) : Ordered[j] = found[i]
  BY <1>2, OrderedItems
<1>4. AskedInv'
  BY <1>1, <1>2 DEF AskedInv
<1>5. FoundInv'
  BY <1>1, <1>2 DEF FoundInv
<1> HIDE DEF Ordered
<1>6. FittingInv'
  <2>1. OnceEach(fitting') /\ CurrentFirst(fitting') /\ fitting' \in Seq(FoundItem)
    BY <1>1, <1>3
  <2>2. \A j \in 1..Len(fitting') : \E i \in 1..Len(found') : fitting'[j] = found'[i]
    BY <1>1, <1>3
  <2>3. 1..Len(answer') = {}
    BY <1>1, <1>2
  <2> QED
    BY <1>1, <2>1, <2>2, <2>3 DEF FittingInv
<1>7. AnswerInv'
  <2>1. answer' \in Seq(FoundItem) /\ OnceEach(answer') /\ CurrentFirst(answer')
    BY <1>1, <1>2 DEF OnceEach, CurrentFirst
  <2>2. Len(answer') + omitted' + Len(fitting') = Len(found')
    BY <1>1, <1>2, <1>3
  <2>3. \A i \in 1..Len(found') : ~PassedOver(i)'
    BY <1>1, <1>3 DEF PassedOver
  <2> QED
    BY <1>1, <1>2, <2>1, <2>2, <2>3 DEF AnswerInv
<1> QED
  BY <1>4, <1>5, <1>6, <1>7 DEF OrderInv

\* The first item still to be fitted, and what follows it.
LEMMA FittingHead ==
  ASSUME OrderInv, fitting # <<>>
  PROVE  /\ Head(fitting) \in FoundItem /\ Head(fitting) = fitting[1]
         /\ Tail(fitting) \in Seq(FoundItem) /\ Len(fitting) \in Nat \ {0}
         /\ Len(Tail(fitting)) = Len(fitting) - 1
         /\ \A j \in 1..Len(Tail(fitting)) :
               /\ Tail(fitting)[j] = fitting[j + 1]
               /\ j + 1 \in 2..Len(fitting)
         /\ \A j \in 1..Len(fitting) :
               j = 1 \/ (j - 1 \in 1..Len(Tail(fitting)) /\ Tail(fitting)[j - 1] = fitting[j])
<1>1. fitting \in Seq(FoundItem)
  BY DEF OrderInv, FittingInv
<1>2. /\ Head(fitting) \in FoundItem /\ Head(fitting) = fitting[1]
      /\ Tail(fitting) \in Seq(FoundItem) /\ Len(fitting) \in Nat \ {0}
      /\ Len(Tail(fitting)) = Len(fitting) - 1
  BY <1>1, HeadTailProperties
<1>3. \A j \in 1..Len(Tail(fitting)) : Tail(fitting)[j] = fitting[j + 1]
  BY <1>1, HeadTailProperties
<1>4. ASSUME NEW j \in 1..Len(Tail(fitting))
      PROVE  j + 1 \in 2..Len(fitting)
  BY <1>2
<1>5. ASSUME NEW j \in 1..Len(fitting), j # 1
      PROVE  j - 1 \in 1..Len(Tail(fitting)) /\ Tail(fitting)[j - 1] = fitting[j]
  <2>1. j - 1 \in 1..Len(Tail(fitting)) /\ (j - 1) + 1 = j
    BY <1>2, <1>5
  <2> QED
    BY <1>3, <2>1
<1> QED
  BY <1>2, <1>3, <1>4, <1>5

\* An item is fitted or passed over, the outdated ones last.
LEMMA FitKeepsOrder ==
  ASSUME OrderInv, FitItem
  PROVE  OrderInv'
<1> DEFINE x == Head(fitting)
           n == Len(answer)
<1>1. /\ ask_step = "fit" /\ ask_step' = "fit" /\ fitting # <<>> /\ fitting' = Tail(fitting)
      /\ ask' = ask /\ found' = found /\ queries' = queries
  BY DEF FitItem
<1>2. /\ x \in FoundItem /\ x = fitting[1] /\ fitting' \in Seq(FoundItem)
      /\ Len(fitting) \in Nat \ {0} /\ Len(fitting') = Len(fitting) - 1
      /\ \A j \in 1..Len(fitting') : fitting'[j] = fitting[j + 1] /\ j + 1 \in 2..Len(fitting)
      /\ \A j \in 1..Len(fitting) :
            j = 1 \/ (j - 1 \in 1..Len(fitting') /\ fitting'[j - 1] = fitting[j])
  BY <1>1, FittingHead
<1>3. AskedInv /\ FoundInv /\ FittingInv /\ AnswerInv
  BY DEF OrderInv
<1>4. /\ x.tokens \in Nat /\ spent \in Nat /\ ask.budget \in Nat /\ omitted \in Nat
      /\ spent <= ask.budget /\ n \in Nat /\ answer \in Seq(FoundItem)
      /\ found \in Seq(FoundItem) /\ Len(found) \in Nat
      /\ n + omitted + Len(fitting) = Len(found)
  BY <1>1, <1>2, <1>3 DEF FoundInv, AnswerInv, FoundItem
<1>5. AskedInv' /\ FoundInv'
  BY <1>1, <1>3 DEF AskedInv, FoundInv
<1>6. /\ \A j \in 1..Len(fitting') : fitting'[j].id # x.id
      /\ \A j \in 1..Len(fitting') : x.outdated => fitting'[j].outdated
      /\ OnceEach(fitting') /\ CurrentFirst(fitting')
  <2>1. ASSUME NEW j \in 2..Len(fitting)
        PROVE  fitting[j].id # x.id /\ (x.outdated => fitting[j].outdated)
    <3>1. 1 \in 1..Len(fitting) /\ j \in 1..Len(fitting) /\ 1 < j /\ 1 # j
      BY <1>2
    <3>2. OnceEach(fitting) /\ CurrentFirst(fitting)
      BY <1>3 DEF FittingInv
    <3>3. fitting[j].id # fitting[1].id /\ (fitting[1].outdated => fitting[j].outdated)
      BY <3>1, <3>2 DEF OnceEach, CurrentFirst
    <3> QED
      BY <1>2, <3>3
  <2>2. OnceEach(fitting')
    <3> SUFFICES ASSUME NEW i \in 1..Len(fitting'), NEW j \in 1..Len(fitting'),
                        fitting'[i].id = fitting'[j].id
                 PROVE  i = j
      BY Zenon DEF OnceEach
    <3>1. /\ fitting[i + 1].id = fitting[j + 1].id
          /\ i + 1 \in 1..Len(fitting) /\ j + 1 \in 1..Len(fitting)
      BY <1>2, SMTT(60)
    <3>2. i + 1 = j + 1
      BY <1>3, <3>1 DEF FittingInv, OnceEach
    <3> QED
      BY <1>2, <3>2
  <2>3. CurrentFirst(fitting')
    <3> SUFFICES ASSUME NEW i \in 1..Len(fitting'), NEW j \in 1..Len(fitting'),
                        i < j, fitting'[i].outdated
                 PROVE  fitting'[j].outdated
      BY DEF CurrentFirst
    <3>1. /\ fitting'[i] = fitting[i + 1] /\ fitting'[j] = fitting[j + 1] /\ i + 1 < j + 1
          /\ i + 1 \in 1..Len(fitting) /\ j + 1 \in 1..Len(fitting)
      BY <1>2
    <3> QED
      BY <1>3, <3>1 DEF FittingInv, CurrentFirst
  <2> QED
    BY <1>2, <2>1, <2>2, <2>3
<1>7. ASSUME NEW j \in 1..Len(fitting')
      PROVE  \E i \in 1..Len(found') : fitting'[j] = found'[i]
  <2>1. fitting'[j] = fitting[j + 1] /\ j + 1 \in 1..Len(fitting)
    BY <1>2
  <2>2. \E i \in 1..Len(found) : fitting[j + 1] = found[i]
    BY <1>3, <2>1 DEF FittingInv
  <2> QED
    BY <1>1, <2>1, <2>2
<1>8. /\ \A i \in 1..n : answer[i].id # x.id /\ (answer[i].outdated => x.outdated)
      /\ \A i \in 1..n, j \in 1..Len(fitting') :
            answer[i].id # fitting'[j].id /\ (answer[i].outdated => fitting'[j].outdated)
  BY <1>2, <1>3 DEF FittingInv
<1>9. \A i \in 1..Len(found) : PassedOver(i) =>
          /\ ask.budget < spent + found[i].tokens
          /\ \A j \in 1..n : answer[j].outdated => answer[j].tokens < found[i].tokens
  BY <1>1, <1>3 DEF AnswerInv
<1>10. ASSUME NEW i \in 1..Len(found) PROVE found[i].tokens \in Nat
  <2>1. found[i] \in FoundItem
    BY <1>4, ElementOfSeq, Zenon
  <2> QED
    BY <2>1 DEF FoundItem
<1> HIDE DEF x, n
<1>11. CASE spent + x.tokens <= ask.budget
  <2>1. answer' = Append(answer, x) /\ spent' = spent + x.tokens /\ omitted' = omitted
    BY <1>11 DEF FitItem, x
  <2>2. /\ answer' \in Seq(FoundItem) /\ Len(answer') = n + 1 /\ answer'[n + 1] = x
        /\ \A i \in 1..n : answer'[i] = answer[i]
    BY <1>2, <1>4, <2>1, AppendProperties DEF n
  <2>3. \A i \in 1..(n + 1) : i \in 1..n \/ i = n + 1
    BY <1>4
  <2>4. OnceEach(answer') /\ CurrentFirst(answer')
    <3>1. OnceEach(answer) /\ CurrentFirst(answer)
      BY <1>3 DEF AnswerInv
    <3>2. OnceEach(answer')
      <4> SUFFICES ASSUME NEW i \in 1..(n + 1), NEW j \in 1..(n + 1),
                          answer'[i].id = answer'[j].id
                   PROVE  i = j
        BY <2>2 DEF OnceEach
      <4>1. CASE i \in 1..n /\ j \in 1..n
        BY <2>2, <3>1, <4>1 DEF OnceEach, n
      <4>2. CASE i = n + 1 \/ j = n + 1
        BY <1>8, <2>2, <2>3, <4>2
      <4> QED
        BY <2>3, <4>1, <4>2
    <3>3. CurrentFirst(answer')
      <4> SUFFICES ASSUME NEW i \in 1..(n + 1), NEW j \in 1..(n + 1), i < j,
                          answer'[i].outdated
                   PROVE  answer'[j].outdated
        BY <2>2 DEF CurrentFirst
      <4>1. i \in 1..n
        BY <1>4
      <4>2. CASE j \in 1..n
        BY <2>2, <3>1, <4>1, <4>2 DEF CurrentFirst, n
      <4>3. CASE j = n + 1
        BY <1>8, <2>2, <4>1, <4>3
      <4> QED
        BY <2>3, <4>2, <4>3
    <3> QED
      BY <3>2, <3>3
  <2>5. FittingInv'
    <3>1. \A i \in 1..(n + 1), j \in 1..Len(fitting') :
            answer'[i].id # fitting'[j].id /\ (answer'[i].outdated => fitting'[j].outdated)
      BY <1>6, <1>8, <2>2, <2>3
    <3> QED
      BY <1>1, <1>2, <1>6, <1>7, <2>2, <3>1 DEF FittingInv
  <2>6. ASSUME NEW i \in 1..Len(found), PassedOver(i)'
        PROVE  /\ ask.budget < spent' + found[i].tokens
               /\ \A j \in 1..(n + 1) :
                     answer'[j].outdated => answer'[j].tokens < found[i].tokens
    <3>1. /\ ~found[i].outdated
          /\ \A j \in 1..(n + 1) : answer'[j].id # found[i].id
          /\ \A j \in 1..Len(fitting') : fitting'[j].id # found[i].id
      BY <1>1, <2>2, <2>6 DEF PassedOver
    <3>2. /\ x.id # found[i].id
          /\ \A j \in 1..n : answer[j].id # found[i].id
      <4>1. n + 1 \in 1..(n + 1) /\ \A j \in 1..n : j \in 1..(n + 1)
        BY <1>4
      <4> QED
        BY <2>2, <3>1, <4>1
    <3>3. \A j \in 1..Len(fitting) : fitting[j].id # found[i].id
      BY <1>2, <3>1, <3>2
    <3>4. PassedOver(i)
      BY <3>1, <3>2, <3>3 DEF PassedOver, n
    <3>5. /\ ask.budget < spent + found[i].tokens
          /\ \A j \in 1..n : answer[j].outdated => answer[j].tokens < found[i].tokens
      BY <1>9, <3>4
    <3>6. found[i].tokens \in Nat
      BY <1>10
    <3>7. x.tokens < found[i].tokens /\ ask.budget < spent' + found[i].tokens
      <4>1. /\ x.tokens \in Nat /\ spent \in Nat /\ ask.budget \in Nat /\ found[i].tokens \in Nat
            /\ spent' = spent + x.tokens /\ spent + x.tokens <= ask.budget
        BY <1>4, <1>11, <2>1, <3>6
      <4>2. \A b, s, y, f \in Nat : b < s + f /\ s + y <= b => y < f /\ b < (s + y) + f
        OBVIOUS
      <4> QED
        BY <3>5, <4>1, <4>2
    <3> QED
      BY <2>2, <2>3, <3>5, <3>7
  <2>7. AnswerInv'
    <3>1. Len(answer') + omitted' + Len(fitting') = Len(found')
      BY <1>1, <1>2, <1>4, <2>1, <2>2
    <3>2. spent' \in Nat /\ spent' <= ask'.budget /\ omitted' \in Nat /\ ask'.budget \in Nat
      BY <1>1, <1>4, <1>11, <2>1
    <3> QED
      BY <1>1, <2>2, <2>4, <2>6, <3>1, <3>2 DEF AnswerInv
  <2> QED
    BY <1>5, <2>5, <2>7 DEF OrderInv
<1>12. CASE ~(spent + x.tokens <= ask.budget)
  <2>1. answer' = answer /\ spent' = spent /\ omitted' = omitted + 1
    BY <1>12 DEF FitItem, x
  <2>2. FittingInv'
    <3>1. \A i \in 1..Len(answer'), j \in 1..Len(fitting') :
            answer'[i].id # fitting'[j].id /\ (answer'[i].outdated => fitting'[j].outdated)
      BY <1>8, <2>1 DEF n
    <3> QED
      BY <1>1, <1>2, <1>6, <1>7, <3>1 DEF FittingInv
  <2>3. ASSUME NEW i \in 1..Len(found), PassedOver(i)'
        PROVE  /\ ask.budget < spent + found[i].tokens
               /\ \A j \in 1..n :
                     answer[j].outdated => answer[j].tokens < found[i].tokens
    <3>1. /\ ~found[i].outdated
          /\ \A j \in 1..n : answer[j].id # found[i].id
          /\ \A j \in 1..Len(fitting') : fitting'[j].id # found[i].id
      BY <1>1, <2>1, <2>3 DEF PassedOver, n
    <3>2. CASE x.id = found[i].id
      <4>1. PICK k \in 1..Len(found) : x = found[k]
        <5>1. 1 \in 1..Len(fitting)
          BY <1>2
        <5> QED
          BY <1>2, <1>3, <5>1 DEF FittingInv
      <4>2. k = i
        BY <1>3, <3>2, <4>1 DEF FoundInv, OnceEach
      <4>3. x = found[i]
        BY <4>1, <4>2
      <4>4. ask.budget < spent + found[i].tokens
        BY <1>4, <1>12, <4>3
      <4>5. \A j \in 1..n : ~answer[j].outdated
        BY <1>8, <3>1, <4>3
      <4> QED
        BY <4>4, <4>5
    <3>3. CASE x.id # found[i].id
      <4>1. \A j \in 1..Len(fitting) : fitting[j].id # found[i].id
        BY <1>2, <3>1, <3>3
      <4>2. PassedOver(i)
        BY <3>1, <4>1 DEF PassedOver, n
      <4> QED
        BY <1>9, <4>2
    <3> QED
      BY <3>2, <3>3
  <2>4. AnswerInv'
    <3>1. Len(answer') + omitted' + Len(fitting') = Len(found')
      BY <1>1, <1>2, <1>4, <2>1 DEF n
    <3>2. spent' \in Nat /\ spent' <= ask'.budget /\ omitted' \in Nat /\ ask'.budget \in Nat
      BY <1>1, <1>4, <2>1
    <3>3. OnceEach(answer') /\ CurrentFirst(answer') /\ answer' \in Seq(FoundItem)
      BY <1>3, <1>4, <2>1 DEF AnswerInv
    <3> QED
      BY <1>1, <2>1, <2>3, <3>1, <3>2, <3>3 DEF AnswerInv, n
  <2> QED
    BY <1>5, <2>2, <2>4 DEF OrderInv
<1> QED
  BY <1>11, <1>12

\* The answer is complete when nothing waits to be fitted.
LEMMA RestKeepsOrder ==
  ASSUME OrderInv, AnswerAsk \/ UNCHANGED askVars
  PROVE  OrderInv'
<1>1. /\ ask' = ask /\ found' = found /\ queries' = queries /\ fitting' = fitting
      /\ answer' = answer /\ spent' = spent /\ omitted' = omitted
      /\ \/ ask_step' = ask_step
         \/ ask_step = "fit" /\ ask_step' = "answered" /\ fitting = <<>>
  BY DEF AnswerAsk, askVars
<1>2. AskedInv' /\ FoundInv'
  BY <1>1 DEF OrderInv, AskedInv, FoundInv
<1>3. FittingInv'
  BY <1>1 DEF OrderInv, FittingInv
<1>4. AnswerInv'
  <2>1. \A i : PassedOver(i)' <=> PassedOver(i)
    BY <1>1 DEF PassedOver
  <2> QED
    BY <1>1, <2>1 DEF OrderInv, AnswerInv
<1> QED
  BY <1>2, <1>3, <1>4 DEF OrderInv

\* No ask.
LEMMA NoAskOrder ==
  /\ AskInit => OrderInv
  /\ ForgetAsk => OrderInv'
<1>1. ASSUME AskInit PROVE OrderInv
  <2>1. /\ ask_step = "none" /\ ask.budget = 0 /\ found = <<>> /\ fitting = <<>>
        /\ answer = <<>> /\ spent = 0 /\ omitted = 0
    BY <1>1 DEF AskInit, NoAsk
  <2> QED
    BY <2>1 DEF OrderInv, AskedInv, FoundInv, FittingInv, AnswerInv, OnceEach, CurrentFirst
<1>2. ASSUME ForgetAsk PROVE OrderInv'
  <2>1. /\ ask_step' = "none" /\ ask'.budget = 0 /\ found' = <<>> /\ fitting' = <<>>
        /\ answer' = <<>> /\ spent' = 0 /\ omitted' = 0
    BY <1>2 DEF ForgetAsk, NoAsk
  <2> QED
    BY <2>1 DEF OrderInv, AskedInv, FoundInv, FittingInv, AnswerInv, OnceEach, CurrentFirst
<1> QED
  BY <1>1, <1>2

\* What the invariant says of an answer.
LEMMA OrderOfAnswer == OrderInv => CurrentBeforeOutdated
<1> SUFFICES ASSUME OrderInv PROVE CurrentBeforeOutdated
  OBVIOUS
<1>1. FoundInv /\ FittingInv /\ AnswerInv
  BY DEF OrderInv
<1>2. DOMAIN answer = 1..Len(answer) /\ DOMAIN found = 1..Len(found)
  BY <1>1 DEF FoundInv, AnswerInv
<1>3. \A i, j \in DOMAIN answer :
          /\ answer[i].id = answer[j].id => i = j
          /\ i < j /\ answer[i].outdated => answer[j].outdated
  BY <1>1, <1>2 DEF AnswerInv, OnceEach, CurrentFirst
<1>4. ASSUME ask_step = "answered"
      PROVE  /\ Len(answer) + omitted = Len(found)
             /\ \A i \in DOMAIN found, j \in DOMAIN answer :
                   ~found[i].outdated /\ found[i].id \notin FoundIds(answer) /\ answer[j].outdated
                     => answer[j].tokens < found[i].tokens
  <2>1. fitting = <<>> /\ Len(fitting) = 0
    BY <1>1, <1>4 DEF FittingInv
  <2>2. Len(answer) + omitted = Len(found)
    <3>1. Len(answer) + omitted + 0 = Len(found) /\ Len(answer) \in Nat /\ omitted \in Nat
      BY <1>1, <1>4, <2>1 DEF AnswerInv
    <3> QED
      BY <3>1
  <2>3. ASSUME NEW i \in DOMAIN found, NEW j \in DOMAIN answer,
               ~found[i].outdated, found[i].id \notin FoundIds(answer), answer[j].outdated
        PROVE  answer[j].tokens < found[i].tokens
    <3>1. \A k \in 1..Len(answer) : answer[k].id # found[i].id
      BY <1>2, <2>3 DEF FoundIds
    <3>2. PassedOver(i)
      BY <2>1, <2>3, <3>1 DEF PassedOver
    <3> QED
      BY <1>1, <1>2, <1>4, <2>3, <3>2 DEF AnswerInv
  <2> QED
    BY <2>2, <2>3
<1>5. ASSUME NEW i \in DOMAIN found, found[i].outdated
      PROVE  \E row \in ask.rows : row.status = "superseded" /\ row.quote \in Quotes[found[i].id]
                /\ ~\E active \in ask.rows : active.status = "active" /\ active.quote = row.quote
  <2>1. Outdated(found[i].id, ask.rows)
    BY <1>1, <1>2, <1>5 DEF FoundInv
  <2>2. PICK mark \in Marks(ask.rows) : mark.quote \in Quotes[found[i].id]
    BY <2>1 DEF Outdated, Matching
  <2>3. PICK row \in ask.rows :
            /\ row.status = "superseded" /\ mark = [quote |-> row.quote, topic |-> row.topic]
            /\ \A active \in ask.rows : active.status = "active" => active.quote # row.quote
    BY <2>2 DEF Marks
  <2>4. mark.quote = row.quote
    BY <2>3
  <2> QED
    BY <2>2, <2>3, <2>4
<1>6. spent <= ask.budget
  BY <1>1 DEF AnswerInv
<1> QED
  BY <1>3, <1>4, <1>5, <1>6 DEF CurrentBeforeOutdated

\* An answer gives every item once and within the budget, current ones before
\* outdated ones, which only take the place of larger current ones, and nothing is
\* called outdated for what an active memory stands on (run_ask, retrieve_node,
\* superseded_quotes): for any items, sizes, budgets and memories.
THEOREM CurrentComesFirst == AskSpec => []CurrentBeforeOutdated
<1>1. AskInit => OrderInv
  BY NoAskOrder
<1>2. OrderInv /\ [AskNext]_askVars => OrderInv'
  BY StartKeepsOrder, FindKeepsOrder, LookKeepsOrder, FinalizeKeepsOrder, FitKeepsOrder,
     RestKeepsOrder, NoAskOrder DEF AskNext, AskStep
<1>3. OrderInv => CurrentBeforeOutdated
  BY OrderOfAnswer
<1> QED
  BY <1>1, <1>2, <1>3, PTL DEF AskSpec

-------------------------------------------------------------------------------
(***************************************************************************)
(* ResponseCache: a call gets the same reply for ever, for any list of calls,*)
(* any replies and any number of deaths.                                   *)
(***************************************************************************)

Reply == [for: AllCalls, text: Texts]
Working == {"look", "ask", "open", "write"}

CacheTypes ==
    /\ cache_step \in Working \cup {"down", "ended"}
    /\ call \in Nat
    /\ cache_step \in Working => call \in DOMAIN Calls
    /\ reply \in Reply
    /\ files \in [Keys -> Reply \cup {NoFile, TornFile}]
    /\ replied \in [AllCalls -> Seq(Reply)]

\* A readable file holds a reply to the call of its name.
FilesInv ==
    \A c \in AllCalls : files[KeyOf(c)] \in Reply => files[KeyOf(c)].for = c

\* What the provider replied belongs to the call at hand.
AtHandInv == cache_step \in {"open", "write"} => reply.for = Calls[call]

CacheInv == CacheTypes /\ FilesInv /\ AtHandInv /\ RepliesStay

-------------------------------------------------------------------------------
\* No two calls share a file.
LEMMA KeysDiffer ==
  ASSUME NEW c \in AllCalls, NEW d \in AllCalls, KeyOf(c) = KeyOf(d)
  PROVE  c = d
<1> DEFINE R == [role: STRING, prompt: STRING, repeat: Nat]
<1>1. Calls \in Seq(R)
  BY ResponseCacheAssumption
<1> HIDE DEF R
<1>2. \A i \in DOMAIN Calls : Calls[i] \in R
  BY <1>1
<1>3. c \in R /\ d \in R
  BY <1>2 DEF AllCalls
<1> QED
  BY <1>3 DEF KeyOf, R

\* What there is of calls, keys and replies.
LEMMA Basics ==
  /\ Len(Calls) \in Nat /\ DOMAIN Calls = 1..Len(Calls) /\ 1 \in DOMAIN Calls
  /\ \A i \in DOMAIN Calls : Calls[i] \in AllCalls
  /\ \A c \in AllCalls : KeyOf(c) \in Keys
  /\ NoFile \notin Reply /\ TornFile \notin Reply
  /\ NoReply \in Reply
<1>1. Len(Calls) \in Nat /\ DOMAIN Calls = 1..Len(Calls) /\ 1 \in DOMAIN Calls
  BY ResponseCacheAssumption
<1>2. \A i \in DOMAIN Calls : Calls[i] \in AllCalls
  BY DEF AllCalls
<1>3. \A c \in AllCalls : KeyOf(c) \in Keys
  BY DEF Keys
<1>4. NoFile \notin Reply /\ TornFile \notin Reply
  BY ResponseCacheAssumption DEF Reply, AllCalls
<1>5. (CHOOSE t \in Texts : TRUE) \in Texts
  BY ResponseCacheAssumption
<1>6. NoReply \in Reply
  BY <1>1, <1>2, <1>5 DEF NoReply, Reply
<1> QED
  BY <1>1, <1>2, <1>3, <1>4, <1>6

\* A reply handed out leaves the step well typed.
LEMMA HandedOut ==
  ASSUME CacheTypes, NEW r \in Reply, cache_step \in Working, HandOut(r)
  PROVE  /\ replied' \in [AllCalls -> Seq(Reply)]
         /\ replied'[Calls[call]] = Append(replied[Calls[call]], r)
         /\ \A c \in AllCalls : c # Calls[call] => replied'[c] = replied[c]
         /\ call' \in Nat
         /\ cache_step' \in {"look", "ended"}
         /\ cache_step' = "look" => call' \in DOMAIN Calls
<1>1. call \in DOMAIN Calls /\ Calls[call] \in AllCalls
  BY Basics DEF CacheTypes
<1>2. replied[Calls[call]] \in Seq(Reply)
  BY <1>1 DEF CacheTypes
<1>3. Append(replied[Calls[call]], r) \in Seq(Reply)
  BY <1>2
<1>4. replied' = [replied EXCEPT ![Calls[call]] = Append(replied[Calls[call]], r)]
  BY DEF HandOut
<1>5. /\ replied' \in [AllCalls -> Seq(Reply)]
      /\ replied'[Calls[call]] = Append(replied[Calls[call]], r)
      /\ \A c \in AllCalls : c # Calls[call] => replied'[c] = replied[c]
  BY <1>1, <1>3, <1>4 DEF CacheTypes
<1>6. call' = call + 1 /\ cache_step' = IF call < Len(Calls) THEN "look" ELSE "ended"
  BY DEF HandOut
<1> QED
  BY <1>1, <1>5, <1>6, Basics

\* The start.
LEMMA CacheStart == CacheInit => CacheInv
<1> SUFFICES ASSUME CacheInit PROVE CacheInv
  OBVIOUS
<1> USE DEF CacheInit
<1>1. CacheTypes
  BY Basics DEF CacheTypes
<1>2. FilesInv
  BY Basics DEF FilesInv
<1>3. AtHandInv
  BY DEF AtHandInv
<1>4. RepliesStay
  BY DEF RepliesStay
<1> QED
  BY <1>1, <1>2, <1>3, <1>4 DEF CacheInv

\* The reply of a file goes out once more.
LEMMA HitKeeps ==
  ASSUME CacheInv, Hit
  PROVE  CacheInv'
<1> DEFINE c0 == Calls[call]
<1>0. CacheTypes /\ FilesInv /\ AtHandInv /\ RepliesStay
  BY DEF CacheInv
<1>1. c0 \in AllCalls /\ KeyOf(c0) \in Keys
  BY <1>0, Basics DEF Hit, CacheTypes, Working
<1>2. files[KeyOf(c0)] \in Reply
  BY <1>0, <1>1 DEF CacheTypes, Hit, File
<1>3. files[KeyOf(c0)].for = c0
  BY <1>0, <1>1, <1>2 DEF FilesInv
<1>4. HandOut(files[KeyOf(c0)]) /\ cache_step \in Working /\ UNCHANGED <<files, reply>>
  BY DEF Hit, File, Working
<1>5. /\ replied' \in [AllCalls -> Seq(Reply)]
      /\ replied'[c0] = Append(replied[c0], files[KeyOf(c0)])
      /\ \A c \in AllCalls : c # c0 => replied'[c] = replied[c]
      /\ call' \in Nat
      /\ cache_step' \in {"look", "ended"}
      /\ cache_step' = "look" => call' \in DOMAIN Calls
  BY <1>0, <1>2, <1>4, HandedOut
<1>6. CacheTypes'
  BY <1>0, <1>4, <1>5 DEF CacheTypes, Working
<1>7. FilesInv' /\ AtHandInv'
  BY <1>0, <1>4, <1>5 DEF FilesInv, AtHandInv
<1>8. RepliesStay'
  <2> SUFFICES ASSUME NEW c \in AllCalls
               PROVE  /\ \A i \in DOMAIN replied'[c] :
                            replied'[c][i].for = c /\ replied'[c][i] = replied'[c][1]
                      /\ replied'[c] # <<>> => files'[KeyOf(c)] = replied'[c][1]
    BY <1>5 DEF RepliesStay
  <2>1. CASE c # c0
    BY <1>0, <1>4, <1>5, <2>1 DEF RepliesStay
  <2>2. CASE c = c0
    <3>1. replied[c0] \in Seq(Reply)
      BY <1>0, <1>1 DEF CacheTypes
    <3>2. CASE replied[c0] = <<>>
      <4>1. replied'[c0] = <<files[KeyOf(c0)]>>
        BY <1>5, <3>2
      <4> QED
        BY <1>3, <1>4, <2>2, <4>1
    <3>3. CASE replied[c0] # <<>>
      <4>1. /\ files[KeyOf(c0)] = replied[c0][1]
            /\ \A i \in DOMAIN replied[c0] :
                  replied[c0][i].for = c0 /\ replied[c0][i] = replied[c0][1]
        BY <1>0, <1>1, <3>3 DEF RepliesStay
      <4>2. Len(replied[c0]) \in Nat /\ Len(replied[c0]) > 0
        BY <3>1, <3>3
      <4>3. /\ Len(replied'[c0]) = Len(replied[c0]) + 1
            /\ \A i \in 1..Len(replied[c0]) : replied'[c0][i] = replied[c0][i]
            /\ replied'[c0][Len(replied[c0]) + 1] = files[KeyOf(c0)]
        BY <1>5, <3>1
      <4>4. DOMAIN replied'[c0] = 1..(Len(replied[c0]) + 1)
        BY <1>1, <1>5, <4>3
      <4>5. DOMAIN replied[c0] = 1..Len(replied[c0])
        BY <3>1
      <4>6. replied'[c0][1] = replied[c0][1]
        BY <4>2, <4>3
      <4>7. ASSUME NEW i \in DOMAIN replied'[c0]
            PROVE  replied'[c0][i].for = c0 /\ replied'[c0][i] = replied'[c0][1]
        <5>1. CASE i \in 1..Len(replied[c0])
          BY <4>1, <4>3, <4>5, <4>6, <5>1
        <5>2. CASE i = Len(replied[c0]) + 1
          BY <1>3, <4>1, <4>3, <4>6, <5>2
        <5> QED
          BY <4>2, <4>4, <5>1, <5>2
      <4> QED
        BY <1>4, <2>2, <4>1, <4>6, <4>7
    <3> QED
      BY <3>2, <3>3
  <2> QED
    BY <2>1, <2>2
<1> QED
  BY <1>6, <1>7, <1>8 DEF CacheInv

\* A file that is missing or torn belongs to a call nobody was ever answered.
LEMMA MissKeeps ==
  ASSUME CacheInv, Miss
  PROVE  CacheInv'
<1>0. CacheTypes /\ FilesInv /\ AtHandInv /\ RepliesStay
  BY DEF CacheInv
<1>1. Calls[call] \in AllCalls
  BY <1>0, Basics DEF Miss, CacheTypes, Working
<1>2. files[KeyOf(Calls[call])] \notin Reply
  BY Basics DEF Miss, File
<1>3. replied[Calls[call]] = <<>>
  <2> SUFFICES ASSUME replied[Calls[call]] # <<>> PROVE FALSE
    OBVIOUS
  <2>1. replied[Calls[call]] \in Seq(Reply)
    BY <1>0, <1>1 DEF CacheTypes
  <2>2. replied[Calls[call]][1] \in Reply
    BY <2>1
  <2> QED
    BY <1>0, <1>1, <1>2, <2>2 DEF RepliesStay
<1>4. CacheTypes' /\ FilesInv' /\ AtHandInv'
  BY <1>0 DEF Miss, CacheTypes, FilesInv, AtHandInv, Working
<1>5. RepliesStay'
  BY <1>0, <1>3 DEF Miss, RepliesStay
<1> QED
  BY <1>4, <1>5 DEF CacheInv

\* The file is emptied before it is written.
LEMMA OpenKeeps ==
  ASSUME CacheInv, OpenFile
  PROVE  CacheInv'
<1>0. CacheTypes /\ FilesInv /\ AtHandInv /\ RepliesStay
  BY DEF CacheInv
<1>1. Calls[call] \in AllCalls /\ KeyOf(Calls[call]) \in Keys
  BY <1>0, Basics DEF OpenFile, CacheTypes, Working
<1>2. \A c \in AllCalls : c # Calls[call] => files'[KeyOf(c)] = files[KeyOf(c)]
  BY <1>0, <1>1, Basics, KeysDiffer DEF OpenFile, CacheTypes
<1>3. files'[KeyOf(Calls[call])] = TornFile
  BY <1>0, <1>1 DEF OpenFile, CacheTypes
<1>4. CacheTypes'
  BY <1>0, <1>1 DEF OpenFile, CacheTypes, Working
<1>5. FilesInv'
  <2> SUFFICES ASSUME NEW c \in AllCalls, files'[KeyOf(c)] \in Reply
               PROVE  files'[KeyOf(c)].for = c
    BY DEF FilesInv, Reply
  <2>1. c # Calls[call]
    BY <1>3, Basics
  <2> QED
    BY <1>0, <1>2, <2>1 DEF FilesInv
<1>6. AtHandInv'
  BY <1>0 DEF OpenFile, AtHandInv
<1>7. RepliesStay'
  <2>1. cache_step = "open" /\ replied' = replied /\ call' = call
    BY DEF OpenFile
  <2> QED
    BY <1>0, <1>2, <2>1 DEF RepliesStay
<1> QED
  BY <1>4, <1>5, <1>6, <1>7 DEF CacheInv

\* The reply is kept and handed out, for the first time.
LEMMA WriteKeeps ==
  ASSUME CacheInv, WriteFile
  PROVE  CacheInv'
<1> DEFINE c0 == Calls[call]
<1>0. CacheTypes /\ FilesInv /\ AtHandInv /\ RepliesStay
  BY DEF CacheInv
<1>1. c0 \in AllCalls /\ KeyOf(c0) \in Keys
  BY <1>0, Basics DEF WriteFile, CacheTypes, Working
<1>2. /\ cache_step = "write" /\ HandOut(reply) /\ reply' = reply
      /\ files' = [files EXCEPT ![KeyOf(c0)] = reply]
  BY DEF WriteFile
<1>3. reply \in Reply /\ reply.for = c0
  BY <1>0, <1>2 DEF CacheTypes, AtHandInv
<1>4. \A c \in AllCalls : c # c0 => files'[KeyOf(c)] = files[KeyOf(c)]
  BY <1>0, <1>1, <1>2, Basics, KeysDiffer DEF CacheTypes
<1>5. files'[KeyOf(c0)] = reply
  BY <1>0, <1>1, <1>2 DEF CacheTypes
<1>6. /\ replied' \in [AllCalls -> Seq(Reply)]
      /\ replied'[c0] = Append(replied[c0], reply)
      /\ \A c \in AllCalls : c # c0 => replied'[c] = replied[c]
      /\ call' \in Nat
      /\ cache_step' \in {"look", "ended"}
      /\ cache_step' = "look" => call' \in DOMAIN Calls
  <2>1. cache_step \in Working
    BY <1>2 DEF Working
  <2> QED
    BY <1>0, <1>2, <1>3, <2>1, HandedOut
<1>7. replied[c0] = <<>>
  BY <1>0, <1>1, <1>2 DEF RepliesStay
<1>8. replied'[c0] = <<reply>>
  BY <1>6, <1>7
<1>9. CacheTypes'
  BY <1>0, <1>1, <1>2, <1>3, <1>6 DEF CacheTypes, Working
<1>10. FilesInv'
  BY <1>0, <1>3, <1>4, <1>5 DEF FilesInv
<1>11. AtHandInv'
  BY <1>6 DEF AtHandInv
<1>12. RepliesStay'
  <2> SUFFICES ASSUME NEW c \in AllCalls
               PROVE  /\ \A i \in DOMAIN replied'[c] :
                            replied'[c][i].for = c /\ replied'[c][i] = replied'[c][1]
                      /\ replied'[c] # <<>> => files'[KeyOf(c)] = replied'[c][1]
    BY <1>6 DEF RepliesStay
  <2>1. CASE c # c0
    BY <1>0, <1>4, <1>6, <2>1 DEF RepliesStay
  <2>2. CASE c = c0
    BY <1>3, <1>5, <1>8, <2>2
  <2> QED
    BY <2>1, <2>2
<1> QED
  BY <1>9, <1>10, <1>11, <1>12 DEF CacheInv

\* The steps that touch neither the files nor what was handed out.
LEMMA OthersKeep ==
  ASSUME CacheInv,
         \/ StartRun \/ ProviderFails \/ CacheFault \/ UNCHANGED cacheVars
         \/ \E text \in Texts : ProviderReplies(text)
  PROVE  CacheInv'
<1>0. CacheTypes /\ FilesInv /\ AtHandInv /\ RepliesStay
  BY DEF CacheInv
<1>1. files' = files /\ replied' = replied
  BY DEF StartRun, ProviderFails, CacheFault, RunDies, RunOnceMore, ProviderReplies, cacheVars
<1>2. FilesInv'
  BY <1>0, <1>1 DEF FilesInv
<1>3. CASE StartRun
  BY <1>0, <1>1, <1>2, <1>3, Basics
     DEF StartRun, CacheInv, CacheTypes, AtHandInv, RepliesStay, Working
<1>4. CASE ProviderFails
  <2>1. call \in DOMAIN Calls
    BY <1>0, <1>4 DEF ProviderFails, CacheTypes, Working
  <2>2. call' = call + 1 /\ cache_step' = IF call < Len(Calls) THEN "look" ELSE "ended"
    BY <1>4 DEF ProviderFails
  <2>3. CacheTypes'
    BY <1>0, <1>4, <2>1, <2>2, Basics DEF ProviderFails, CacheTypes, Working
  <2> QED
    BY <1>0, <1>1, <1>2, <2>2, <2>3 DEF CacheInv, AtHandInv, RepliesStay
<1>5. CASE CacheFault
  <2>1. cache_step' = "down" /\ call' = 1 /\ reply' = reply
    BY <1>5 DEF CacheFault, RunDies, RunOnceMore
  <2> QED
    BY <1>0, <1>1, <1>2, <2>1 DEF CacheInv, CacheTypes, AtHandInv, RepliesStay, Working
<1>6. CASE UNCHANGED cacheVars
  BY <1>0, <1>6 DEF cacheVars, CacheInv, CacheTypes, FilesInv, AtHandInv, RepliesStay
<1>7. ASSUME NEW text \in Texts, ProviderReplies(text)
      PROVE  CacheInv'
  <2>1. Calls[call] \in AllCalls
    BY <1>0, <1>7, Basics DEF ProviderReplies, CacheTypes, Working
  <2>2. reply' \in Reply /\ reply'.for = Calls[call]
    BY <1>7, <2>1 DEF ProviderReplies, Reply
  <2>3. cache_step = "ask" /\ cache_step' = "open" /\ call' = call
    BY <1>7 DEF ProviderReplies
  <2>4. CacheTypes'
    BY <1>0, <1>1, <2>2, <2>3 DEF CacheTypes, Working
  <2>5. RepliesStay'
    BY <1>0, <1>1, <2>3 DEF RepliesStay
  <2> QED
    BY <1>2, <2>2, <2>3, <2>4, <2>5 DEF CacheInv, AtHandInv
<1> QED
  BY <1>3, <1>4, <1>5, <1>6, <1>7

-------------------------------------------------------------------------------
\* A call is answered the same way every time it is made, by a reply made for
\* it, and never paid for again once it was answered, for every list of calls
\* and whatever dies (DiskCachedCuratorLLM, DiskCachedChatClient).
THEOREM SameReplyForEver == CacheSpec => []RepliesStay
<1>1. CacheInit => CacheInv
  BY CacheStart
<1>2. CacheInv /\ [CacheStep \/ CacheFault]_cacheVars => CacheInv'
  BY HitKeeps, MissKeeps, OpenKeeps, WriteKeeps, OthersKeep DEF CacheStep
<1>3. CacheInv => RepliesStay
  BY DEF CacheInv
<1> QED
  BY <1>1, <1>2, <1>3, PTL DEF CacheSpec

-------------------------------------------------------------------------------
(***************************************************************************)
(* PublicBenchmark: the rows of a run that died and was started again are   *)
(* those of a run in one go, for any cases, baselines, texts and budgets.   *)
(***************************************************************************)

\* The rows before baseline b of case c.
RowsBefore(c, b) == FirstRows((c - 1) * Len(Baselines) + (b - 1))

PlaceInv ==
    /\ bench_step \in {"baseline", "context", "case", "partial"} =>
          /\ position.case \in 1..Len(Cases) /\ position.baseline \in 1..Len(Baselines)
          /\ position = [case |-> position.case, baseline |-> position.baseline]
    /\ bench_step \in {"baseline", "context"} =>
          results = RowsBefore(position.case, position.baseline)
    /\ bench_step \in {"case", "partial"} => results = RowsBefore(position.case + 1, 1)
    /\ bench_step \in {"mapping", "write_mapping", "report", "returned"} =>
          results = ExpectedRows
    /\ bench_step \in {"down", "raised"} => results = <<>>

\* What a row is made from: the full budget, and a store that holds its case.
SettingsInv ==
    /\ bench_step \in {"baseline", "case", "partial"} => rot_safe_budget_set = Budget
    /\ bench_step = "context" => store_case = Case.id /\ Baseline = "memoryos_lite"

\* The reports that can be read hold whole cases, and all of them at the end.
ReportsInv ==
    /\ Readable(partial_report) =>
          \E m \in 0..Len(Cases) : partial_report = RowsBefore(m + 1, 1)
    /\ Readable(report) => report = ExpectedRows

BenchInv ==
    /\ bench_step \in {"down", "baseline", "context", "case", "partial", "mapping",
                       "write_mapping", "report", "returned", "raised"}
    /\ PlaceInv /\ SettingsInv /\ ReportsInv

-------------------------------------------------------------------------------
\* What a place of a row says of its case and its baseline.
LEMMA Quotients ==
  ASSUME NEW n \in Nat \ {0}, NEW c \in Nat, NEW b \in 0..(n - 1)
  PROVE  (c * n + b) \div n = c /\ (c * n + b) % n = b
<1>1. PICK q \in Nat : q = (c * n + b) \div n
  OBVIOUS
<1>2. PICK r \in 0..(n - 1) : r = (c * n + b) % n
  OBVIOUS
<1>3. c * n + b = n * q + r
  BY <1>1, <1>2
<1>4. q = c
  <2>1. CASE c < q
    <3>1. PICK d \in Nat : q = c + 1 + d
      <4>1. q - (c + 1) \in Nat /\ q = c + 1 + (q - (c + 1))
        BY <2>1
      <4> QED
        BY <4>1
    <3>2. n * q = c * n + n + n * d /\ n * d \in Nat
      BY <3>1
    <3> QED
      BY <1>3, <3>2
  <2>2. CASE q < c
    <3>1. PICK d \in Nat : c = q + 1 + d
      <4>1. c - (q + 1) \in Nat /\ c = q + 1 + (c - (q + 1))
        BY <2>2
      <4> QED
        BY <4>1
    <3>2. c * n = n * q + n + n * d /\ n * d \in Nat
      BY <3>1
    <3> QED
      BY <1>3, <3>2
  <2> QED
    BY <2>1, <2>2
<1> QED
  BY <1>1, <1>2, <1>3, <1>4

\* Cases and baselines are counted.
LEMMA Sizes ==
  /\ Len(Baselines) \in Nat \ {0} /\ Len(Cases) \in Nat
  /\ \A m \in Nat : m * Len(Baselines) \in Nat
  /\ \A m \in 0..Len(Cases) : m * Len(Baselines) \in 0..RowCount
<1>1. Len(Baselines) \in Nat \ {0} /\ Len(Cases) \in Nat
  BY PublicBenchmarkAssumption, EmptySeq DEF PublicBenchmarkAssumption
<1>2. ASSUME NEW n \in Nat, NEW k \in Nat, NEW m \in 0..k
      PROVE  m * n \in 0..(k * n)
  <2>1. PICK d \in Nat : k = m + d
    <3>1. k - m \in Nat /\ k = m + (k - m)
      OBVIOUS
    <3> QED
      BY <3>1
  <2>2. m * n \in Nat /\ d * n \in Nat /\ k * n = m * n + d * n
    BY <2>1
  <2> QED
    BY <2>2
<1> QED
  BY <1>1, <1>2 DEF RowCount

\* The next row of the case at hand follows the rows before it.
LEMMA NextRow ==
  ASSUME NEW c \in 1..Len(Cases), NEW b \in 1..Len(Baselines)
  PROVE  Append(RowsBefore(c, b), ExpectedRow(Cases[c], Baselines[b]))
           = IF b < Len(Baselines) THEN RowsBefore(c, b + 1) ELSE RowsBefore(c + 1, 1)
<1> DEFINE n == Len(Baselines)
           row(k) == ExpectedRow(Cases[1 + ((k - 1) \div n)], Baselines[1 + ((k - 1) % n)])
           rows == {row(k) : k \in Nat}
           m == (c - 1) * n + (b - 1)
<1>1. /\ n \in Nat \ {0} /\ c \in Nat \ {0} /\ b \in 1..n /\ c - 1 \in Nat /\ b - 1 \in 0..(n - 1)
      /\ (c - 1) * n \in Nat /\ m \in Nat
  <2>1. n \in Nat \ {0} /\ c \in Nat \ {0} /\ c - 1 \in Nat /\ b \in 1..n
    BY Sizes
  <2>2. (c - 1) * n \in Nat /\ b - 1 \in 0..(n - 1)
    BY <2>1, Sizes
  <2> QED
    BY <2>1, <2>2
<1>2. m \div n = c - 1 /\ m % n = b - 1
  <2> HIDE DEF n
  <2> QED
    BY <1>1, Quotients
<1>3. row(m + 1) = ExpectedRow(Cases[c], Baselines[b])
  <2>1. (m + 1) - 1 = m /\ 1 + (c - 1) = c /\ 1 + (b - 1) = b
    BY <1>1
  <2> QED
    BY <1>2, <2>1
<1>4. ASSUME NEW k \in Nat
      PROVE  /\ FirstRows(k) = [i \in 1..k |-> row(i)]
             /\ FirstRows(k) \in Seq(rows) /\ Len(FirstRows(k)) = k
             /\ \A i \in 1..k : FirstRows(k)[i] = row(i)
  <2>1. FirstRows(k) = [i \in 1..k |-> row(i)]
    BY DEF FirstRows
  <2>2. \A i \in 1..k : row(i) \in rows
    OBVIOUS
  <2> HIDE DEF row, rows
  <2> QED
    BY <2>1, <2>2
<1>5. row(m + 1) \in rows /\ m + 1 \in Nat
  <2>1. m + 1 \in Nat
    BY <1>1
  <2> HIDE DEF m, row
  <2> QED
    BY <2>1
<1>6. Append(FirstRows(m), row(m + 1)) = FirstRows(m + 1)
  <2> HIDE DEF row, rows, m
  <2>1. /\ Append(FirstRows(m), row(m + 1)) \in Seq(rows)
        /\ Len(Append(FirstRows(m), row(m + 1))) = m + 1
        /\ \A i \in 1..m : Append(FirstRows(m), row(m + 1))[i] = row(i)
        /\ Append(FirstRows(m), row(m + 1))[m + 1] = row(m + 1)
    <3>1. /\ FirstRows(m) \in Seq(rows) /\ Len(FirstRows(m)) = m /\ row(m + 1) \in rows
          /\ \A i \in 1..m : FirstRows(m)[i] = row(i)
      BY <1>1, <1>4, <1>5
    <3> QED
      BY <3>1, AppendProperties
  <2>2. /\ FirstRows(m + 1) \in Seq(rows) /\ Len(FirstRows(m + 1)) = m + 1
        /\ \A i \in 1..(m + 1) : FirstRows(m + 1)[i] = row(i)
    BY <1>4, <1>5
  <2>3. \A i \in 1..(m + 1) : Append(FirstRows(m), row(m + 1))[i] = FirstRows(m + 1)[i]
    BY <1>1, <2>1, <2>2
  <2> QED
    BY <2>1, <2>2, <2>3, SameList
<1>7. FirstRows(m) = RowsBefore(c, b)
  BY DEF RowsBefore
<1>8. FirstRows(m + 1) = IF b < n THEN RowsBefore(c, b + 1) ELSE RowsBefore(c + 1, 1)
  <2>1. CASE b < n
    <3>1. m + 1 = (c - 1) * n + ((b + 1) - 1)
      BY <1>1
    <3> QED
      BY <2>1, <3>1 DEF RowsBefore
  <2>2. CASE ~(b < n)
    <3>1. b = n /\ ((c + 1) - 1) * n + (1 - 1) = (c - 1) * n + n
      BY <1>1, <2>2
    <3>2. m + 1 = ((c + 1) - 1) * n + (1 - 1)
      BY <1>1, <3>1
    <3> QED
      BY <2>2, <3>2 DEF RowsBefore
  <2> QED
    BY <2>1, <2>2
<1> QED
  BY <1>3, <1>6, <1>7, <1>8

\* The rows of whole cases: none, all, and how many they are.
LEMMA WholeCases ==
  /\ RowsBefore(1, 1) = <<>>
  /\ RowsBefore(Len(Cases) + 1, 1) = ExpectedRows
  /\ \A m \in 0..Len(Cases) :
        /\ Len(RowsBefore(m + 1, 1)) \div Len(Baselines) = m
        /\ Len(RowsBefore(m + 1, 1)) % Len(Baselines) = 0
        /\ AsExpected(RowsBefore(m + 1, 1))
<1> DEFINE n == Len(Baselines)
<1>1. n \in Nat \ {0} /\ Len(Cases) \in Nat
  BY Sizes
<1>2. ASSUME NEW m \in 0..Len(Cases)
      PROVE  /\ RowsBefore(m + 1, 1) = FirstRows(m * n) /\ m * n \in 0..RowCount
             /\ Len(RowsBefore(m + 1, 1)) = m * n
  <2>1. ((m + 1) - 1) * n + (1 - 1) = m * n /\ m * n \in Nat /\ m * n \in 0..RowCount
    BY <1>1, Sizes
  <2>2. RowsBefore(m + 1, 1) = FirstRows(m * n)
    BY <2>1 DEF RowsBefore
  <2>3. Len(FirstRows(m * n)) = m * n
    <3>1. PICK k \in Nat : k = m * n
      BY <2>1
    <3>2. Len(FirstRows(k)) = k
      BY DEF FirstRows
    <3> QED
      BY <3>1, <3>2
  <2> QED
    BY <2>1, <2>2, <2>3
<1>3. RowsBefore(1, 1) = <<>>
  <2>1. 0 \in 0..Len(Cases) /\ 0 * n = 0 /\ 0 + 1 = 1
    BY <1>1
  <2>2. RowsBefore(1, 1) = FirstRows(0)
    BY <1>2, <2>1
  <2>3. FirstRows(0) = <<>>
    BY DEF FirstRows
  <2> QED
    BY <2>2, <2>3
<1>4. RowsBefore(Len(Cases) + 1, 1) = ExpectedRows
  BY <1>1, <1>2 DEF ExpectedRows, RowCount
<1>5. ASSUME NEW m \in 0..Len(Cases)
      PROVE  /\ Len(RowsBefore(m + 1, 1)) \div n = m
             /\ Len(RowsBefore(m + 1, 1)) % n = 0
             /\ AsExpected(RowsBefore(m + 1, 1))
  <2> HIDE DEF n
  <2>1. m \in Nat /\ 0 \in 0..(n - 1) /\ m * n \in Nat /\ m * n + 0 = m * n
    BY <1>1, <1>2
  <2>2. (m * n) \div n = m /\ (m * n) % n = 0
    BY <1>1, <2>1, Quotients
  <2> QED
    BY <1>2, <2>2 DEF AsExpected
<1> QED
  BY <1>3, <1>4, <1>5

\* The rows up to any place are as expected.
LEMMA RowsAsExpected ==
  ASSUME NEW c \in 1..Len(Cases), NEW b \in 1..Len(Baselines)
  PROVE  AsExpected(RowsBefore(c, b))
<1> DEFINE n == Len(Baselines)
<1>1. /\ n \in Nat \ {0} /\ c \in Nat \ {0} /\ c - 1 \in Nat /\ b \in 1..n
      /\ (c - 1) * n \in Nat /\ c * n \in 0..RowCount
  BY Sizes
<1>2. RowCount \in Nat
  BY Sizes DEF RowCount
<1>3. c * n = (c - 1) * n + n
  BY <1>1
<1>4. (c - 1) * n + (b - 1) \in 0..RowCount
  BY <1>1, <1>2, <1>3
<1> QED
  BY <1>4 DEF AsExpected, RowsBefore

-------------------------------------------------------------------------------
\* A process that starts goes on after the whole cases of the partial report.
LEMMA StartBenchKeeps ==
  ASSUME BenchInv, StartBench
  PROVE  BenchInv'
<1>0. PlaceInv /\ ReportsInv
  BY DEF BenchInv
<1>1. /\ rot_safe_budget_set' = Budget
      /\ partial_report' = partial_report /\ report' = report
  BY DEF StartBench
<1>2. ReportsInv'
  BY <1>0, <1>1 DEF ReportsInv, Readable
<1>3. CASE /\ report # Absent /\ report # Torn
           /\ results' = report /\ bench_step' = "returned"
  <2>1. results' = ExpectedRows
    BY <1>0, <1>3 DEF ReportsInv, Readable
  <2> QED
    BY <1>2, <1>3, <2>1 DEF BenchInv, PlaceInv, SettingsInv
<1>4. CASE /\ Resumable(partial_report) /\ results' = ResumedRows /\ position' = NextCase
           /\ bench_step' = StepAt(NextCase)
  <2>1. PICK m \in 0..Len(Cases) : ResumedRows = RowsBefore(m + 1, 1)
    <3>1. CASE partial_report = Absent
      <4>1. 0 \in 0..Len(Cases) /\ 0 + 1 = 1
        BY Sizes
      <4> QED
        BY <3>1, <4>1, WholeCases DEF ResumedRows
    <3>2. CASE partial_report # Absent
      BY <1>0, <1>4, <3>2 DEF ResumedRows, ReportsInv, Readable, Resumable
    <3> QED
      BY <3>1, <3>2
  <2>2. NextCase = [case |-> m + 1, baseline |-> 1]
    <3>1. Len(ResumedRows) \div Len(Baselines) = m
      BY <2>1, WholeCases
    <3> QED
      BY <3>1 DEF NextCase
  <2>3. /\ position'.case = m + 1 /\ position'.baseline = 1
        /\ position' = [case |-> m + 1, baseline |-> 1]
    BY <1>4, <2>2
  <2>4. 1 \in 1..Len(Baselines) /\ m \in Nat /\ Len(Cases) \in Nat
    BY Sizes
  <2>5. CASE m + 1 <= Len(Cases)
    <3>1. bench_step' = "baseline"
      BY <1>4, <2>2, <2>5 DEF StepAt
    <3>2. m + 1 \in 1..Len(Cases)
      BY <2>4, <2>5
    <3> QED
      BY <1>1, <1>2, <1>4, <2>1, <2>3, <2>4, <3>1, <3>2 DEF BenchInv, PlaceInv, SettingsInv
  <2>6. CASE ~(m + 1 <= Len(Cases))
    <3>1. bench_step' = "mapping"
      BY <1>4, <2>2, <2>6 DEF StepAt
    <3>2. m = Len(Cases)
      BY <2>4, <2>6
    <3>3. results' = ExpectedRows
      BY <1>4, <2>1, <3>2, WholeCases
    <3> QED
      BY <1>2, <3>1, <3>3 DEF BenchInv, PlaceInv, SettingsInv
  <2> QED
    BY <2>5, <2>6
<1>5. CASE results' = <<>> /\ bench_step' = "raised"
  BY <1>2, <1>5 DEF BenchInv, PlaceInv, SettingsInv
<1> QED
  BY <1>3, <1>4, <1>5 DEF StartBench

\* A row that is done is the next one expected.
LEMMA RowKeeps ==
  ASSUME BenchInv, RunBaseline \/ AnswerFromStore
  PROVE  BenchInv'
<1> DEFINE c == position.case
           b == position.baseline
<1>0. PlaceInv /\ SettingsInv /\ ReportsInv
  BY DEF BenchInv
<1>1. /\ bench_step \in {"baseline", "context"} /\ RowDone
      /\ partial_report' = partial_report /\ report' = report
  BY DEF RunBaseline, AnswerFromStore
<1>2. /\ c \in 1..Len(Cases) /\ b \in 1..Len(Baselines)
      /\ position = [case |-> c, baseline |-> b] /\ results = RowsBefore(c, b)
  BY <1>0, <1>1 DEF PlaceInv
<1>3. /\ results' = Append(results, ExpectedRow(Cases[c], Baselines[b]))
      /\ rot_safe_budget_set' = Budget
  <2>1. CASE RunBaseline
    <3>1. /\ rot_safe_budget_set = Budget /\ Baselines[b] # "memoryos_lite"
          /\ rot_safe_budget_set' = rot_safe_budget_set
      BY <1>0, <2>1 DEF RunBaseline, SettingsInv, Baseline
    <3> QED
      BY <2>1, <3>1 DEF RunBaseline, Case, Baseline, ExpectedRow
  <2>2. CASE AnswerFromStore
    <3>1. store_case = Cases[c].id /\ Baselines[b] = "memoryos_lite"
      BY <1>0, <2>2 DEF AnswerFromStore, SettingsInv, Case, Baseline
    <3> QED
      BY <2>2, <3>1 DEF AnswerFromStore, Case, Baseline, ExpectedRow, BudgetAfterContext
  <2> QED
    BY <2>1, <2>2
<1>4. results' = IF b < Len(Baselines) THEN RowsBefore(c, b + 1) ELSE RowsBefore(c + 1, 1)
  BY <1>2, <1>3, NextRow
<1>5. ReportsInv'
  BY <1>0, <1>1 DEF ReportsInv, Readable
<1>6. CASE b < Len(Baselines)
  <2>1. /\ position' = [position EXCEPT !.baseline = @ + 1] /\ bench_step' = "baseline"
    BY <1>1, <1>6 DEF RowDone
  <2>2. /\ position'.case = c /\ position'.baseline = b + 1
        /\ position' = [case |-> c, baseline |-> b + 1]
    BY <1>2, <2>1
  <2>3. b + 1 \in 1..Len(Baselines)
    BY <1>2, <1>6, Sizes
  <2> QED
    BY <1>2, <1>3, <1>4, <1>5, <1>6, <2>1, <2>2, <2>3
       DEF BenchInv, PlaceInv, SettingsInv
<1>7. CASE ~(b < Len(Baselines))
  <2>1. position' = position /\ bench_step' = "case"
    BY <1>1, <1>7 DEF RowDone
  <2> QED
    BY <1>2, <1>3, <1>4, <1>5, <1>7, <2>1 DEF BenchInv, PlaceInv, SettingsInv
<1> QED
  BY <1>6, <1>7

\* A case begins in its own store and ends in the partial report.
LEMMA CaseKeeps ==
  ASSUME BenchInv, FillStore \/ EndCase \/ WritePartialReport
  PROVE  BenchInv'
<1> DEFINE c == position.case
<1>0. PlaceInv /\ SettingsInv /\ ReportsInv
  BY DEF BenchInv
<1>1. report' = report /\ results' = results
  BY DEF FillStore, EndCase, WritePartialReport
<1>2. CASE FillStore
  <2>1. /\ bench_step = "baseline" /\ bench_step' = "context" /\ position' = position
        /\ store_case' = Case.id /\ Baseline = "memoryos_lite"
        /\ partial_report' = partial_report
    BY <1>2 DEF FillStore
  <2>2. ReportsInv'
    BY <1>0, <1>1, <2>1 DEF ReportsInv, Readable
  <2>3. store_case' = Case'.id /\ Baseline' = "memoryos_lite"
    BY <2>1 DEF Case, Baseline
  <2> QED
    BY <1>0, <1>1, <2>1, <2>2, <2>3 DEF BenchInv, PlaceInv, SettingsInv
<1>3. CASE EndCase
  <2>1. /\ bench_step = "case" /\ bench_step' = "partial" /\ position' = position
        /\ partial_report' = Torn /\ rot_safe_budget_set' = rot_safe_budget_set
    BY <1>3 DEF EndCase
  <2>2. ReportsInv'
    BY <1>0, <1>1, <2>1 DEF ReportsInv, Readable
  <2> QED
    BY <1>0, <1>1, <2>1, <2>2 DEF BenchInv, PlaceInv, SettingsInv
<1>4. CASE WritePartialReport
  <2>1. /\ bench_step = "partial" /\ partial_report' = results
        /\ position' = [case |-> c + 1, baseline |-> 1]
        /\ bench_step' = StepAt(position')
        /\ rot_safe_budget_set' = rot_safe_budget_set
    BY <1>4 DEF WritePartialReport
  <2>2. c \in 1..Len(Cases) /\ results = RowsBefore(c + 1, 1)
    BY <1>0, <2>1 DEF PlaceInv
  <2>3. c \in 0..Len(Cases) /\ c \in Nat /\ Len(Cases) \in Nat /\ 1 \in 1..Len(Baselines)
    BY <2>2, Sizes
  <2>4. ReportsInv'
    BY <1>0, <1>1, <2>1, <2>2, <2>3 DEF ReportsInv, Readable
  <2>5. position'.case = c + 1 /\ position'.baseline = 1
    BY <2>1
  <2>6. CASE c + 1 <= Len(Cases)
    <3>1. bench_step' = "baseline" /\ c + 1 \in 1..Len(Cases)
      BY <2>1, <2>3, <2>5, <2>6 DEF StepAt
    <3>2. rot_safe_budget_set' = Budget
      BY <1>0, <2>1 DEF SettingsInv
    <3> QED
      BY <1>1, <2>1, <2>2, <2>3, <2>4, <2>5, <3>1, <3>2 DEF BenchInv, PlaceInv, SettingsInv
  <2>7. CASE ~(c + 1 <= Len(Cases))
    <3>1. bench_step' = "mapping" /\ c = Len(Cases)
      BY <2>1, <2>3, <2>5, <2>7 DEF StepAt
    <3>2. results' = ExpectedRows
      BY <1>1, <2>2, <3>1, WholeCases
    <3> QED
      BY <2>4, <3>1, <3>2 DEF BenchInv, PlaceInv, SettingsInv
  <2> QED
    BY <2>6, <2>7
<1> QED
  BY <1>2, <1>3, <1>4

\* The end of a run, a death, another run, and what is not a step of the run.
LEMMA BenchRestKeeps ==
  ASSUME BenchInv,
         \/ OpenMapping \/ WriteMapping \/ WriteReport \/ Die \/ RunAgain
         \/ UNCHANGED benchVars
  PROVE  BenchInv'
<1>0. PlaceInv /\ SettingsInv /\ ReportsInv
  BY DEF BenchInv
<1>1. CASE OpenMapping \/ WriteMapping \/ WriteReport
  <2>1. /\ bench_step \in {"mapping", "write_mapping", "report"}
        /\ bench_step' \in {"write_mapping", "report", "returned"}
        /\ results' = results /\ partial_report' = partial_report
        /\ report' \in {report, Torn, results}
    BY <1>1 DEF OpenMapping, WriteMapping, WriteReport
  <2>2. results = ExpectedRows
    BY <1>0, <2>1 DEF PlaceInv
  <2>3. ReportsInv'
    BY <1>0, <2>1, <2>2 DEF ReportsInv, Readable
  <2> QED
    BY <2>1, <2>2, <2>3 DEF BenchInv, PlaceInv, SettingsInv
<1>2. CASE Die \/ RunAgain
  <2>1. /\ bench_step' = "down" /\ results' = <<>>
        /\ partial_report' = partial_report /\ report' = report
    BY <1>2 DEF Die, RunAgain, ProcessGone
  <2>2. ReportsInv'
    BY <1>0, <2>1 DEF ReportsInv, Readable
  <2> QED
    BY <2>1, <2>2 DEF BenchInv, PlaceInv, SettingsInv
<1>3. CASE UNCHANGED benchVars
  <2>1. /\ bench_step' = bench_step /\ results' = results /\ position' = position
        /\ store_case' = store_case /\ rot_safe_budget_set' = rot_safe_budget_set
        /\ partial_report' = partial_report /\ report' = report
    BY <1>3 DEF benchVars
  <2> QED
    BY <1>0, <2>1
       DEF BenchInv, PlaceInv, SettingsInv, ReportsInv, Readable, Case, Baseline
<1> QED
  BY <1>1, <1>2, <1>3

LEMMA Benching == BenchSpec => []BenchInv
<1>1. BenchInit => BenchInv
  BY DEF BenchInit, BenchInv, PlaceInv, SettingsInv, ReportsInv, Readable
<1>2. BenchInv /\ [BenchStep \/ BenchFault]_benchVars => BenchInv'
  BY StartBenchKeeps, RowKeeps, CaseKeeps, BenchRestKeeps DEF BenchStep, BenchFault
<1> QED
  BY <1>1, <1>2, PTL DEF BenchSpec

\* However often a run of the public benchmark died and was started again, its
\* rows, and those of its reports that can be read, are the rows of a run in one
\* go (run_public_benchmark, _completed_case_count).
THEOREM RowsSurviveDeaths == BenchSpec => []ResumeIsTransparent
<1>1. BenchInv => ResumeIsTransparent
  <2> SUFFICES ASSUME BenchInv PROVE ResumeIsTransparent
    OBVIOUS
  <2>0. PlaceInv /\ ReportsInv
    BY DEF BenchInv
  <2>1. Len(Cases) \in Nat /\ 0 \in 0..Len(Cases) /\ 0 + 1 = 1
    BY Sizes
  <2>2. AsExpected(results)
    <3>1. CASE bench_step \in {"baseline", "context"}
      BY <2>0, <3>1, RowsAsExpected DEF PlaceInv
    <3>2. CASE bench_step \in {"case", "partial"}
      <4>1. /\ position.case \in 0..Len(Cases)
            /\ results = RowsBefore(position.case + 1, 1)
        BY <2>0, <2>1, <3>2 DEF PlaceInv
      <4> QED
        BY <4>1, WholeCases
    <3>3. CASE bench_step \in {"mapping", "write_mapping", "report", "returned"}
      <4>1. results = RowsBefore(Len(Cases) + 1, 1) /\ Len(Cases) \in 0..Len(Cases)
        BY <2>0, <2>1, <3>3, WholeCases DEF PlaceInv
      <4> QED
        BY <4>1, WholeCases
    <3>4. CASE bench_step \in {"down", "raised"}
      <4>1. results = RowsBefore(0 + 1, 1)
        BY <2>0, <2>1, <3>4, WholeCases DEF PlaceInv
      <4> QED
        BY <2>1, <4>1, WholeCases
    <3> QED
      BY <3>1, <3>2, <3>3, <3>4 DEF BenchInv
  <2>3. bench_step = "returned" => results = ExpectedRows
    BY <2>0 DEF PlaceInv
  <2>4. ASSUME Readable(partial_report)
        PROVE  AsExpected(partial_report) /\ Len(partial_report) % Len(Baselines) = 0
    <3>1. PICK m \in 0..Len(Cases) : partial_report = RowsBefore(m + 1, 1)
      BY <2>0, <2>4 DEF ReportsInv
    <3> QED
      BY <3>1, WholeCases
  <2>5. Readable(report) => report = ExpectedRows
    BY <2>0 DEF ReportsInv
  <2> QED
    BY <2>2, <2>3, <2>4, <2>5 DEF ResumeIsTransparent
<1> QED
  BY <1>1, Benching, PTL

-------------------------------------------------------------------------------
(***************************************************************************)
(* EpisodeSearch: a recall answers with each message once, with matches and *)
(* their neighbours only, and leaves no match out for a weaker one but the  *)
(* earliest of the benchmark sessions.                                     *)
(***************************************************************************)

\* A match outside D gives way to a weaker one in D only when that is the
\* earliest of the benchmark sessions and strong enough.
GivesWay(s, D) ==
    \A p \in Hits(s) \ D, q \in D :
        Before(s, p, q) =>
            /\ s.bench[q] # NoSession
            /\ \A r \in BenchmarkHits(s) : q <= r
            /\ CanReplace(s, q, p)

\* The hits a search starts from.
StartsFrom(s, D) ==
    /\ D \subseteq Hits(s) /\ IsFiniteSet(D)
    /\ Cardinality(D) \in Nat /\ Cardinality(D) <= RECALL_TOP_K
    /\ GivesWay(s, D)

MatchOrder(s) == {p \in Hits(s) \X Hits(s) : Before(s, p[1], p[2])}

\* The neighbours of each hit that had its turn are in the answer.
NeighborsAdded ==
    Len(selected) < NeighborLimit(search) =>
        \A i \in 1..Len(direct) :
            i < turn /\ Expandable(search, direct[i]) =>
                Beside(search, direct[i]) \subseteq InSeq(selected)

DirectInv ==
    /\ search \in RecallSearches
    /\ ListsOnce(direct, Hits(search)) /\ Len(direct) <= RECALL_TOP_K
    /\ GivesWay(search, InSeq(direct))

SelectedInv ==
    /\ ListsOnce(selected, DOMAIN search.bench)
    /\ Len(selected) <= NeighborLimit(search)
    /\ \A p \in InSeq(selected) : p \in Hits(search) \/ InWindow(p)
    /\ turn \in Nat \ {0}
    /\ NeighborsAdded

EpisodeInv ==
    /\ recall_step \in {"idle", "expand", "found"}
    /\ recall_step # "idle" => DirectInv /\ SelectedInv
    /\ recall_step = "found" => turn > Len(direct) \/ Len(selected) >= NeighborLimit(search)

-------------------------------------------------------------------------------
LEMMA SearchTypes ==
  ASSUME NEW s \in RecallSearches
  PROVE  /\ DOMAIN s.bench \subseteq Nat \ {0} /\ IsFiniteSet(DOMAIN s.bench)
         /\ \A p \in DOMAIN s.bench : s.score[p] \in Nat /\ p \in Nat
         /\ Hits(s) \subseteq DOMAIN s.bench /\ IsFiniteSet(Hits(s))
         /\ BenchmarkHits(s) \subseteq Hits(s) /\ Hits(s) \subseteq Nat
         /\ \A p \in Hits(s) : p \in Nat /\ s.score[p] \in Nat
<1>1. /\ DOMAIN s.bench \subseteq Nat \ {0} /\ IsFiniteSet(DOMAIN s.bench)
      /\ s.score \in [DOMAIN s.bench -> Nat]
  BY EpisodeSearchAssumption
<1>2. Hits(s) \subseteq DOMAIN s.bench /\ BenchmarkHits(s) \subseteq Hits(s)
  BY DEF Hits, BenchmarkHits
<1>3. IsFiniteSet(Hits(s))
  BY <1>1, <1>2, FS_Subset
<1> QED
  BY <1>1, <1>2, <1>3

LEMMA MatchesOrdered ==
  ASSUME NEW s \in RecallSearches, NEW P, P \subseteq Hits(s)
  PROVE  IsLinearOrder({p \in P \X P : Before(s, p[1], p[2])}, P)
<1>1. \A p \in P : p \in Nat /\ s.score[p] \in Nat
  BY SearchTypes
<1>2. \A p \in P : ~Before(s, p, p)
  BY <1>1 DEF Before
<1>3. \A p, q, r \in P : Before(s, p, q) /\ Before(s, q, r) => Before(s, p, r)
  BY <1>1 DEF Before
<1>4. \A p, q \in P : p = q \/ Before(s, p, q) \/ Before(s, q, p)
  BY <1>1 DEF Before
<1> QED
  BY <1>2, <1>3, <1>4 DEF IsLinearOrder

\* The best matches are at most RECALL_TOP_K, and nothing outside them goes
\* before one of them.
LEMMA BestAreFew ==
  ASSUME NEW s \in RecallSearches
  PROVE  /\ Best(s) \subseteq Hits(s) /\ IsFiniteSet(Best(s))
         /\ Cardinality(Best(s)) \in Nat /\ Cardinality(Best(s)) <= RECALL_TOP_K
         /\ \A p \in Hits(s), q \in Best(s) : Before(s, p, q) => p \in Best(s)
         /\ Hits(s) # {} => Best(s) # {}
<1> DEFINE H == Hits(s)
           R == {p \in H \X H : Before(s, p[1], p[2])}
           Rank(p) == Cardinality({q \in H : <<q, p>> \in R})
<1>1. IsFiniteSet(H) /\ IsLinearOrder(R, H)
  BY SearchTypes, MatchesOrdered
<1>2. \A p \in H : {q \in H : <<q, p>> \in R} = {q \in H : Before(s, q, p)}
  OBVIOUS
<1>3. \A p \in H : Rank(p) = Ahead(s, H, p)
  BY <1>2 DEF Ahead
<1>4. \A p, q \in H : <<p, q>> \in R <=> Before(s, p, q)
  OBVIOUS
<1>5. Best(s) = {p \in H : Ahead(s, H, p) < RECALL_TOP_K}
  BY DEF Best
<1> HIDE DEF H, R
<1>6. \A p, q \in H : <<p, q>> \in R =>
          /\ Rank(p) \in Nat /\ Rank(q) \in Nat /\ Rank(p) < Rank(q)
  BY <1>1, RankGrows
<1>7. \A p \in H : IsFiniteSet({q \in H : <<q, p>> \in R}) /\ Rank(p) \in Nat
  <2>1. \A p \in H : {q \in H : <<q, p>> \in R} \subseteq H
    OBVIOUS
  <2>2. \A p \in H : IsFiniteSet({q \in H : <<q, p>> \in R})
    BY <1>1, <2>1, FS_Subset
  <2> QED
    BY <2>2, FS_CardinalityType
<1> HIDE DEF Rank
<1>8. RECALL_TOP_K \in Nat \ {0}
  BY EpisodeSearchAssumption
<1>9. \A p \in H : p \in Best(s) <=> Rank(p) < RECALL_TOP_K
  BY <1>3, <1>5
<1>10. Best(s) \subseteq H
  BY <1>5
<1>11. IsFiniteSet(Best(s)) /\ Cardinality(Best(s)) \in Nat
  BY <1>1, <1>10, FS_Subset, FS_CardinalityType
<1>12. ASSUME NEW p \in H, NEW q \in Best(s), Before(s, p, q)
       PROVE  p \in Best(s)
  <2>1. q \in H /\ Rank(q) < RECALL_TOP_K
    BY <1>9, <1>10
  <2>2. Rank(p) < Rank(q) /\ Rank(p) \in Nat /\ Rank(q) \in Nat
    BY <1>4, <1>6, <1>12, <2>1
  <2>3. Rank(p) < RECALL_TOP_K
    BY <1>8, <2>1, <2>2
  <2> QED
    BY <1>9, <2>3
<1>13. ASSUME H # {} PROVE Best(s) # {}
  <2>1. /\ \A x \in H : <<x, x>> \notin R
        /\ \A x, y, z \in H : <<x, y>> \in R /\ <<y, z>> \in R => <<x, z>> \in R
    BY <1>1 DEF IsLinearOrder
  <2>2. PICK p \in H : \A q \in H : <<q, p>> \notin R
    BY <1>1, <1>13, <2>1, MinimalElement
  <2>3. {q \in H : <<q, p>> \in R} = {}
    BY <2>2
  <2>4. Rank(p) = 0
    BY <2>3, FS_EmptySet DEF Rank
  <2> QED
    BY <1>8, <1>9, <2>4
<1>14. Cardinality(Best(s)) <= RECALL_TOP_K
  <2> DEFINE f == [p \in Best(s) |-> Rank(p)]
  <2>1. f \in [Best(s) -> 0..(RECALL_TOP_K - 1)]
    <3>1. ASSUME NEW p \in Best(s) PROVE Rank(p) \in 0..(RECALL_TOP_K - 1)
      <4>1. Rank(p) \in Nat /\ Rank(p) < RECALL_TOP_K
        BY <1>7, <1>9, <1>10
      <4> QED
        BY <1>8, <4>1
    <3> QED
      BY <3>1
  <2>2. ASSUME NEW p \in Best(s), NEW q \in Best(s), f[p] = f[q] PROVE p = q
    <3>1. p \in H /\ q \in H /\ Rank(p) = Rank(q) /\ Rank(p) \in Nat
      BY <1>7, <1>10, <2>2
    <3>2. ~(<<p, q>> \in R) /\ ~(<<q, p>> \in R)
      BY <1>6, <3>1
    <3> QED
      BY <1>1, <3>1, <3>2 DEF IsLinearOrder
  <2>3. f \in Injection(Best(s), 0..(RECALL_TOP_K - 1))
    BY <2>1, <2>2 DEF Injection, IsInjective
  <2>4. 0 \in Int /\ RECALL_TOP_K - 1 \in Int
    BY <1>8
  <2>5. /\ IsFiniteSet(0..(RECALL_TOP_K - 1))
        /\ Cardinality(0..(RECALL_TOP_K - 1)) = IF 0 > RECALL_TOP_K - 1 THEN 0
                                                ELSE (RECALL_TOP_K - 1) - 0 + 1
    BY <2>4, FS_Interval
  <2>6. (IF 0 > RECALL_TOP_K - 1 THEN 0 ELSE (RECALL_TOP_K - 1) - 0 + 1) = RECALL_TOP_K
    BY <1>8
  <2>7. Cardinality(Best(s)) <= Cardinality(0..(RECALL_TOP_K - 1))
    BY <2>3, <2>5, FS_Injection
  <2> QED
    BY <2>5, <2>6, <2>7
<1> QED
  BY <1>10, <1>11, <1>12, <1>13, <1>14 DEF H

\* The best matches leave nothing better out.
LEMMA BestStart ==
  ASSUME NEW s \in RecallSearches
  PROVE  StartsFrom(s, Best(s))
<1>1. GivesWay(s, Best(s))
  BY BestAreFew DEF GivesWay
<1> QED
  BY <1>1, BestAreFew DEF StartsFrom

\* The earliest message of a benchmark session that matches.
LEMMA AnchorEarliest ==
  ASSUME NEW s \in RecallSearches, BenchmarkHits(s) # {}
  PROVE  LET anchor == CHOOSE p \in BenchmarkHits(s) : \A q \in BenchmarkHits(s) : p <= q
         IN  anchor \in BenchmarkHits(s) /\ \A q \in BenchmarkHits(s) : anchor <= q
<1>1. BenchmarkHits(s) \subseteq Nat
  BY SearchTypes
<1>2. \E p \in BenchmarkHits(s) : \A q \in BenchmarkHits(s) : p <= q
  BY <1>1, LeastNumber
<1> QED
  BY <1>2, Zenon

\* The weakest of the best matches.
LEMMA WeakestLast ==
  ASSUME NEW s \in RecallSearches, Hits(s) # {}
  PROVE  LET weakest == CHOOSE p \in Best(s) : \A q \in Best(s) \ {p} : Before(s, q, p)
         IN  weakest \in Best(s) /\ \A q \in Best(s) \ {weakest} : Before(s, q, weakest)
<1> DEFINE B == Best(s)
           R == {p \in B \X B : Before(s, p[2], p[1])}
<1>1. /\ B \subseteq Hits(s) /\ IsFiniteSet(B) /\ B # {}
      /\ \A p \in B : p \in Nat /\ s.score[p] \in Nat
  BY BestAreFew, SearchTypes
<1>2. \A p, q \in B : <<p, q>> \in R <=> Before(s, q, p)
  OBVIOUS
<1> HIDE DEF B, R
<1>3. \A x \in B : <<x, x>> \notin R
  BY <1>1, <1>2 DEF Before
<1>4. \A x, y, z \in B : <<x, y>> \in R /\ <<y, z>> \in R => <<x, z>> \in R
  BY <1>1, <1>2 DEF Before
<1>5. PICK p \in B : \A q \in B : <<q, p>> \notin R
  BY <1>1, <1>3, <1>4, MinimalElement
<1>6. \A q \in B \ {p} : Before(s, q, p)
  <2>1. \A x, y \in B : x = y \/ Before(s, x, y) \/ Before(s, y, x)
    BY <1>1 DEF Before
  <2> QED
    BY <1>2, <1>5, <2>1, Zenon
<1>7. \E w \in Best(s) : \A q \in Best(s) \ {w} : Before(s, q, w)
  BY <1>6 DEF B
<1> QED
  BY <1>7, Zenon

\* With the earliest message in the place of the weakest, the search still
\* starts from at most RECALL_TOP_K matches, and only that message is weaker
\* than one left out.
LEMMA DiversifiedStart ==
  ASSUME NEW s \in RecallSearches
  PROVE  StartsFrom(s, Diversified(s))
<1>1. CASE BenchmarkHits(s) = {}
  BY <1>1, BestStart DEF Diversified
<1>2. CASE BenchmarkHits(s) # {}
  <2> DEFINE a == CHOOSE p \in BenchmarkHits(s) : \A q \in BenchmarkHits(s) : p <= q
             w == CHOOSE p \in Best(s) : \A q \in Best(s) \ {p} : Before(s, q, p)
             D == (Best(s) \ {w}) \cup {a}
  <2>1. Diversified(s) = IF a \in Best(s) \/ ~CanReplace(s, a, w) THEN Best(s) ELSE D
    BY <1>2 DEF Diversified
  <2>2. a \in BenchmarkHits(s) /\ \A q \in BenchmarkHits(s) : a <= q
    BY <1>2, AnchorEarliest
  <2>3. a \in Hits(s) /\ s.bench[a] # NoSession
    BY <2>2 DEF BenchmarkHits
  <2>4. w \in Best(s) /\ \A q \in Best(s) \ {w} : Before(s, q, w)
    BY <2>3, WeakestLast
  <2> HIDE DEF a, w
  <2>5. CASE a \in Best(s) \/ ~CanReplace(s, a, w)
    BY <2>1, <2>5, BestStart
  <2>6. CASE a \notin Best(s) /\ CanReplace(s, a, w)
    <3>1. Diversified(s) = D
      BY <2>1, <2>6
    <3>2. /\ Best(s) \subseteq Hits(s) /\ IsFiniteSet(Best(s)) /\ Cardinality(Best(s)) \in Nat
          /\ Cardinality(Best(s)) <= RECALL_TOP_K
          /\ \A p \in Hits(s), q \in Best(s) : Before(s, p, q) => p \in Best(s)
      BY BestAreFew
    <3>3. IsFiniteSet(Best(s) \ {w}) /\ Cardinality(Best(s) \ {w}) = Cardinality(Best(s)) - 1
      BY <2>4, <3>2, FS_RemoveElement
    <3>4. IsFiniteSet(D) /\ Cardinality(D) = Cardinality(Best(s) \ {w}) + 1
      BY <2>6, <3>3, FS_AddElement
    <3>5. Cardinality(D) \in Nat /\ Cardinality(D) <= RECALL_TOP_K
      BY <3>2, <3>3, <3>4
    <3>6. D \subseteq Hits(s)
      BY <2>3, <3>2
    <3>7. ASSUME NEW p \in Hits(s) \ D, NEW q \in D, Before(s, p, q)
          PROVE  q = a /\ CanReplace(s, a, p)
      <4>1. /\ p \in Nat /\ s.score[p] \in Nat /\ w \in Nat /\ s.score[w] \in Nat
            /\ q \in Nat /\ s.score[q] \in Nat /\ a \in Nat /\ s.score[a] \in Nat
        BY <2>3, <2>4, <3>2, <3>6, SearchTypes
      <4>2. q = a
        <5> SUFFICES ASSUME q # a PROVE FALSE
          OBVIOUS
        <5>1. q \in Best(s) /\ q # w
          OBVIOUS
        <5>2. p \in Best(s)
          BY <3>2, <3>7, <5>1
        <5>3. p = w /\ Before(s, q, w)
          BY <2>4, <5>1, <5>2
        <5> QED
          BY <3>7, <4>1, <5>3 DEF Before
      <4>3. s.score[p] <= s.score[w]
        <5>1. CASE p = w
          BY <4>1, <5>1
        <5>2. CASE p # w
          <6>1. p \notin Best(s)
            BY <5>2
          <6>2. ~Before(s, p, w)
            BY <2>4, <3>2, <6>1
          <6> QED
            BY <4>1, <6>2 DEF Before
        <5> QED
          BY <5>1, <5>2
      <4>4. CanReplace(s, a, p)
        BY <2>6, <4>1, <4>3 DEF CanReplace
      <4> QED
        BY <4>2, <4>4
    <3>8. GivesWay(s, D)
      <4>1. ASSUME NEW p \in Hits(s) \ D, NEW q \in D, Before(s, p, q)
            PROVE  /\ s.bench[q] # NoSession
                   /\ \A r \in BenchmarkHits(s) : q <= r
                   /\ CanReplace(s, q, p)
        BY <2>2, <2>3, <3>7, <4>1
      <4> HIDE DEF D
      <4> QED
        BY <4>1 DEF GivesWay
    <3> HIDE DEF D
    <3> QED
      BY <3>1, <3>4, <3>5, <3>6, <3>8 DEF StartsFrom
  <2> QED
    BY <2>5, <2>6
<1> QED
  BY <1>1, <1>2

\* Matches are listed once each, in their order.
LEMMA RankedLists ==
  ASSUME NEW s \in RecallSearches, NEW D, D \subseteq Hits(s), IsFiniteSet(D)
  PROVE  /\ ListsOnce(Ranked(s, D), D) /\ Len(Ranked(s, D)) = Cardinality(D)
         /\ InSeq(Ranked(s, D)) = D
<1> DEFINE R == {p \in D \X D : Before(s, p[1], p[2])}
           f == Ranked(s, D)
           c == Cardinality(D)
<1>1. IsLinearOrder(R, D)
  BY MatchesOrdered
<1>2. \A p \in D : {q \in D : <<q, p>> \in R} = {q \in D : Before(s, q, p)}
  OBVIOUS
<1>3. \A p \in D : Cardinality({q \in D : <<q, p>> \in R}) = Ahead(s, D, p)
  BY <1>2 DEF Ahead
<1> HIDE DEF R
<1>4. ASSUME NEW i \in 1..c
      PROVE  f[i] \in D /\ Cardinality({q \in D : <<q, f[i]>> \in R}) = i - 1
  <2>1. \E p \in D : Cardinality({q \in D : <<q, p>> \in R}) = i - 1
    BY <1>1, PlaceTaken
  <2>2. \E p \in D : Ahead(s, D, p) = i - 1
    BY <1>3, <2>1, Zenon
  <2>3. f[i] = CHOOSE p \in D : Ahead(s, D, p) = i - 1
    BY DEF Ranked
  <2>4. f[i] \in D /\ Ahead(s, D, f[i]) = i - 1
    BY <2>2, <2>3, Zenon
  <2> QED
    BY <1>3, <2>4, Zenon
<1>5. f = [i \in 1..c |-> f[i]]
  BY DEF Ranked
<1>6. f \in [1..c -> D]
  BY <1>4, <1>5
<1> HIDE DEF f
<1>7. \A i \in 1..c : Cardinality({q \in D : <<q, f[i]>> \in R}) = i - 1
  BY <1>4
<1>8. ListsAll(f, D)
  BY <1>1, <1>6, <1>7, OrderedList
<1>9. ListsOnce(f, D) /\ Len(f) = c /\ \A x \in D : \E i \in 1..c : f[i] = x
  BY <1>8 DEF ListsAll
<1>10. InSeq(f) = D
  <2>1. DOMAIN f = 1..c
    BY <1>6
  <2> QED
    BY <1>6, <1>9, <2>1 DEF InSeq
<1> QED
  BY <1>9, <1>10 DEF f

\* Neighbours are listed once each, outward from the hit.
LEMMA OutwardLists ==
  ASSUME NEW hit \in Nat, NEW P, P \subseteq Nat, IsFiniteSet(P)
  PROVE  ListsOnce(Outward(hit, P), P) /\ InSeq(Outward(hit, P)) = P
<1> DEFINE R == {p \in P \X P : Nearer(hit, p[1], p[2])}
           f == Outward(hit, P)
           c == Cardinality(P)
           Rank(p) == Cardinality({q \in P : Nearer(hit, q, p)})
<1>1. IsLinearOrder(R, P)
  <2>1. \A p \in P : p \in Nat
    OBVIOUS
  <2>2. \A p \in P : ~Nearer(hit, p, p)
    BY <2>1 DEF Nearer, Distance
  <2>3. \A p, q, r \in P : Nearer(hit, p, q) /\ Nearer(hit, q, r) => Nearer(hit, p, r)
    <3>1. \A p \in P : Distance(hit, p) \in Nat
      BY <2>1 DEF Distance
    <3> QED
      BY <2>1, <3>1 DEF Nearer
  <2>4. \A p, q \in P : p = q \/ Nearer(hit, p, q) \/ Nearer(hit, q, p)
    <3>1. \A p \in P : Distance(hit, p) \in Nat
      BY <2>1 DEF Distance
    <3> QED
      BY <2>1, <3>1 DEF Nearer
  <2> QED
    BY <2>2, <2>3, <2>4 DEF IsLinearOrder
<1>2. \A p \in P : {q \in P : <<q, p>> \in R} = {q \in P : Nearer(hit, q, p)}
  OBVIOUS
<1> DEFINE place == [i \in 1..c |-> CHOOSE p \in P : Rank(p) = i - 1]
<1>3. f = place
  BY Zenon DEF Outward
<1>4. \A p \in P : Cardinality({q \in P : <<q, p>> \in R}) = Rank(p)
  BY <1>2
<1> HIDE DEF R, Rank, f
<1>5. \A i \in 1..c : f[i] = CHOOSE p \in P : Rank(p) = i - 1
  BY <1>3
<1>6. \A n \in 1..c : \E p \in P : Cardinality({q \in P : <<q, p>> \in R}) = n - 1
  <2>1. PlacesTaken(R, P)
    BY <1>1, AllPlacesTaken
  <2> QED
    BY <2>1 DEF PlacesTaken
<1>7. ASSUME NEW i \in 1..c
      PROVE  f[i] \in P /\ Cardinality({q \in P : <<q, f[i]>> \in R}) = i - 1
  <2>1. \E p \in P : Cardinality({q \in P : <<q, p>> \in R}) = i - 1
    BY <1>6, Zenon
  <2>2. \E p \in P : Rank(p) = i - 1
    BY <1>4, <2>1, Zenon
  <2>3. f[i] = CHOOSE p \in P : Rank(p) = i - 1
    BY <1>5
  <2>4. f[i] \in P /\ Rank(f[i]) = i - 1
    BY <2>2, <2>3, Zenon
  <2> QED
    BY <1>4, <2>4, Zenon
<1>8. f \in [1..c -> P]
  BY <1>7, <1>3
<1>9. \A i \in 1..c : Cardinality({q \in P : <<q, f[i]>> \in R}) = i - 1
  BY <1>7
<1>10. ListsAll(f, P)
  BY <1>1, <1>8, <1>9, OrderedList
<1>11. ListsOnce(f, P) /\ \A x \in P : \E i \in 1..c : f[i] = x
  BY <1>10 DEF ListsAll
<1>12. DOMAIN f = 1..c
  BY <1>8
<1>13. InSeq(f) = P
  BY <1>8, <1>11, <1>12 DEF InSeq
<1> QED
  BY <1>11, <1>13 DEF f

\* The neighbours of a hit: messages of its session in its window.
LEMMA BesideStands ==
  ASSUME NEW s \in RecallSearches, NEW hit \in Hits(s)
  PROVE  /\ hit \in Nat /\ Beside(s, hit) \subseteq DOMAIN s.bench
         /\ Beside(s, hit) \subseteq Nat /\ IsFiniteSet(Beside(s, hit))
         /\ \A p \in Beside(s, hit) : /\ hit - NEIGHBORS_BEFORE <= p
                                      /\ p <= hit + NEIGHBORS_AFTER
                                      /\ SameSession(s, hit, p)
<1>1. hit \in Nat /\ DOMAIN s.bench \subseteq Nat /\ IsFiniteSet(DOMAIN s.bench)
  BY SearchTypes
<1>2. Beside(s, hit) \subseteq DOMAIN s.bench
  BY DEF Beside
<1>3. IsFiniteSet(Beside(s, hit))
  BY <1>1, <1>2, FS_Subset
<1>4. NEIGHBORS_BEFORE \in Nat /\ NEIGHBORS_AFTER \in Nat
  BY EpisodeSearchAssumption
<1>5. ASSUME NEW p \in Beside(s, hit)
      PROVE  /\ hit - NEIGHBORS_BEFORE <= p /\ p <= hit + NEIGHBORS_AFTER
             /\ SameSession(s, hit, p)
  <2>1. p \in Around(hit) /\ SameSession(s, hit, p)
    BY DEF Beside
  <2> QED
    BY <1>1, <1>4, <2>1 DEF Around
<1> QED
  BY <1>1, <1>2, <1>3, <1>5

\* A search may return what it starts from.
LEMMA LimitHolds ==
  ASSUME NEW s
  PROVE  NeighborLimit(s) \in Nat /\ RECALL_TOP_K <= NeighborLimit(s)
<1> DEFINE w == NEIGHBORS_BEFORE + NEIGHBORS_AFTER
<1>1. RECALL_TOP_K \in Nat /\ NEIGHBORS_BEFORE \in Nat /\ NEIGHBORS_AFTER \in Nat
  BY EpisodeSearchAssumption
<1>2. w \in Nat /\ 1 + NEIGHBORS_BEFORE + NEIGHBORS_AFTER = 1 + w
  BY <1>1
<1>3. \A k, m \in Nat : k * (1 + m) \in Nat /\ k <= k * (1 + m)
  <2>1. \A k, m \in Nat : k * (1 + m) = k + k * m /\ k * m \in Nat
    OBVIOUS
  <2> QED
    BY <2>1
<1> HIDE DEF w
<1>4. NeighborLimit(s) = IF Preserve(s) THEN RECALL_TOP_K * (1 + w) ELSE RECALL_TOP_K
  BY <1>2 DEF NeighborLimit
<1> QED
  BY <1>1, <1>2, <1>3, <1>4

LEMMA SearchStarts ==
  ASSUME EpisodeInv, NEW s \in RecallSearches, SearchEpisodes(s)
  PROVE  EpisodeInv'
<1> DEFINE D == IF Preserve(s) THEN Diversified(s) ELSE Best(s)
<1>1. /\ recall_step' = "expand" /\ search' = s /\ selected' = direct' /\ turn' = 1
      /\ direct' = Ranked(s, D)
  BY DEF SearchEpisodes
<1>2. StartsFrom(s, D)
  BY BestStart, DiversifiedStart
<1> HIDE DEF D
<1>3. /\ D \subseteq Hits(s) /\ IsFiniteSet(D) /\ Cardinality(D) \in Nat
      /\ Cardinality(D) <= RECALL_TOP_K /\ GivesWay(s, D)
  BY <1>2 DEF StartsFrom
<1>4. ListsOnce(direct', D) /\ Len(direct') = Cardinality(D) /\ InSeq(direct') = D
  BY <1>1, <1>3, RankedLists
<1>5. D \subseteq DOMAIN s.bench
  BY <1>3, SearchTypes
<1>6. ListsOnce(direct', Hits(s)) /\ ListsOnce(direct', DOMAIN s.bench)
  BY <1>3, <1>4, <1>5, ListsInto
<1>7. DirectInv'
  BY <1>1, <1>3, <1>4, <1>6 DEF DirectInv
<1>8. Len(selected') <= NeighborLimit(s)
  <2>1. NeighborLimit(s) \in Nat /\ RECALL_TOP_K <= NeighborLimit(s) /\ RECALL_TOP_K \in Nat
    BY LimitHolds, EpisodeSearchAssumption
  <2> QED
    BY <1>1, <1>3, <1>4, <2>1
<1>9. \A p \in InSeq(selected') : p \in Hits(search')
  BY <1>1, <1>3, <1>4
<1>10. NeighborsAdded'
  <2>1. \A i \in 1..Len(direct') : ~(i < turn')
    BY <1>1
  <2> QED
    BY <2>1 DEF NeighborsAdded
<1>11. SelectedInv'
  <2>1. ListsOnce(selected', DOMAIN search'.bench)
    BY <1>1, <1>6, Zenon
  <2>2. turn' \in Nat \ {0}
    BY <1>1
  <2> QED
    BY <1>1, <1>8, <1>9, <1>10, <2>1, <2>2 DEF SelectedInv
<1> QED
  BY <1>1, <1>7, <1>11 DEF EpisodeInv

\* A turn of the loop adds the neighbours of its hit, as far as there is room.
LEMMA HitExpanded ==
  ASSUME EpisodeInv, ExpandHit
  PROVE  EpisodeInv'
<1> DEFINE s == search
           hit == direct[turn]
           limit == NeighborLimit(search)
           New == Beside(s, hit) \ InSeq(selected)
           joined == selected \o Neighbors(s, hit, InSeq(selected))
<1>1. /\ recall_step = "expand" /\ turn <= Len(direct) /\ Len(selected) < limit
      /\ turn' = turn + 1
      /\ selected' = IF Expandable(s, hit) THEN FirstOf(joined, limit) ELSE selected
      /\ recall_step' = "expand" /\ search' = search /\ direct' = direct
  BY DEF ExpandHit
<1>2. DirectInv /\ SelectedInv
  BY <1>1 DEF EpisodeInv
<1>3. /\ s \in RecallSearches /\ direct \in Seq(Hits(s)) /\ Len(direct) \in Nat
      /\ DOMAIN direct = 1..Len(direct)
      /\ turn \in Nat \ {0} /\ limit \in Nat /\ Len(selected) \in Nat
      /\ DOMAIN selected = 1..Len(selected)
  BY <1>2, ListIsSequence, LimitHolds DEF DirectInv, SelectedInv
<1>4. hit \in Hits(s) /\ hit \in InSeq(direct)
  BY <1>1, <1>3 DEF InSeq
<1>5. DirectInv'
  BY <1>1, <1>2 DEF DirectInv
<1>6. CASE ~Expandable(s, hit)
  <2>1. selected' = selected
    BY <1>1, <1>6
  <2>2. NeighborsAdded'
    <3> SUFFICES ASSUME Len(selected) < limit, NEW i \in 1..Len(direct), i < turn + 1,
                        Expandable(s, direct[i])
                 PROVE  Beside(s, direct[i]) \subseteq InSeq(selected)
      BY <1>1, <2>1 DEF NeighborsAdded
    <3>1. i # turn
      BY <1>6
    <3>2. i < turn
      BY <1>3, <3>1
    <3> QED
      BY <1>2, <3>2 DEF SelectedInv, NeighborsAdded
  <2>3. SelectedInv'
    BY <1>1, <1>2, <1>3, <2>1, <2>2 DEF SelectedInv, InWindow
  <2> QED
    BY <1>1, <1>5, <2>3 DEF EpisodeInv
<1>7. CASE Expandable(s, hit)
  <2> DEFINE b == Outward(hit, New)
             S == DOMAIN s.bench
  <2>1. /\ hit \in Nat /\ Beside(s, hit) \subseteq S /\ Beside(s, hit) \subseteq Nat
        /\ IsFiniteSet(Beside(s, hit))
        /\ \A p \in Beside(s, hit) : /\ hit - NEIGHBORS_BEFORE <= p
                                     /\ p <= hit + NEIGHBORS_AFTER
                                     /\ SameSession(s, hit, p)
    BY <1>3, <1>4, BesideStands
  <2>2. New \subseteq Nat /\ IsFiniteSet(New) /\ New \subseteq S
    BY <2>1, FS_Subset
  <2>3. ListsOnce(b, New) /\ InSeq(b) = New
    BY <2>1, <2>2, OutwardLists
  <2>4. /\ ListsOnce(b, S) /\ DOMAIN b = 1..Len(b)
    BY <2>2, <2>3, ListsInto, ListIsSequence
  <2>5. ListsOnce(selected, S) /\ Len(selected) <= limit
    BY <1>1, <1>2, <1>3 DEF SelectedInv
  <2>6. \A i \in 1..Len(selected), j \in 1..Len(b) : selected[i] # b[j]
    <3>1. \A i \in 1..Len(selected) : selected[i] \in InSeq(selected)
      BY <1>3 DEF InSeq
    <3>2. \A j \in 1..Len(b) : b[j] \in New
      BY <2>3, <2>4 DEF InSeq
    <3> QED
      BY <3>1, <3>2
  <2>7. selected' = SubSeq(selected \o b, 1,
                           IF limit < Len(selected \o b) THEN limit ELSE Len(selected \o b))
    BY <1>1, <1>7 DEF Neighbors, FirstOf
  <2> HIDE DEF b, New, S, limit, hit
  <2>8. CutJoin(selected', selected, b, S, limit)
    BY <1>3, <2>4, <2>5, <2>6, <2>7, CutJoined
  <2>9. /\ ListsOnce(selected', S) /\ Len(selected') \in Nat /\ Len(selected') <= limit
        /\ Len(selected) <= Len(selected')
        /\ \A i \in 1..Len(selected) : selected'[i] = selected[i]
        /\ \A i \in 1..Len(selected') : i > Len(selected)
                => \E j \in 1..Len(b) : selected'[i] = b[j]
        /\ Len(selected') < limit
                => \A j \in 1..Len(b) : \E i \in 1..Len(selected') : selected'[i] = b[j]
    BY <2>8 DEF CutJoin
  <2>10. DOMAIN selected' = 1..Len(selected')
    BY <2>9, ListIsSequence
  <2>11. InSeq(selected) \subseteq InSeq(selected')
    <3>1. \A i \in 1..Len(selected) : i \in 1..Len(selected')
      BY <1>3, <2>9
    <3> QED
      BY <1>3, <2>9, <2>10, <3>1 DEF InSeq
  <2>12. InSeq(selected') \subseteq InSeq(selected) \cup New
    <3> SUFFICES ASSUME NEW i \in 1..Len(selected')
                 PROVE  selected'[i] \in InSeq(selected) \cup New
      BY <2>10 DEF InSeq
    <3>1. CASE i > Len(selected)
      BY <2>3, <2>4, <2>9, <3>1 DEF InSeq
    <3>2. CASE ~(i > Len(selected))
      <4>1. i \in 1..Len(selected)
        BY <1>3, <2>9, <3>2
      <4> QED
        BY <1>3, <2>9, <4>1 DEF InSeq
    <3> QED
      BY <3>1, <3>2
  <2>13. Len(selected') < limit => New \subseteq InSeq(selected')
    <3>1. New = {b[j] : j \in 1..Len(b)}
      BY <2>3, <2>4 DEF InSeq
    <3>2. InSeq(selected') = {selected'[i] : i \in 1..Len(selected')}
      BY <2>10 DEF InSeq
    <3> QED
      BY <2>9, <3>1, <3>2
  <2>14. ASSUME NEW p \in InSeq(selected')
         PROVE  p \in Hits(s) \/ InWindow(p)'
    <3>1. CASE p \in InSeq(selected)
      BY <1>1, <1>2, <3>1 DEF SelectedInv, InWindow
    <3>2. CASE p \in New
      <4>1. /\ hit - NEIGHBORS_BEFORE <= p /\ p <= hit + NEIGHBORS_AFTER
            /\ SameSession(s, hit, p)
        BY <2>1, <3>2 DEF New
      <4>2. InWindow(p)'
        BY <1>1, <1>4, <4>1 DEF InWindow
      <4> QED
        BY <4>2
    <3> QED
      BY <2>12, <3>1, <3>2
  <2>15. NeighborsAdded'
    <3> SUFFICES ASSUME Len(selected') < limit, NEW i \in 1..Len(direct), i < turn + 1,
                        Expandable(s, direct[i])
                 PROVE  Beside(s, direct[i]) \subseteq InSeq(selected')
      BY <1>1 DEF NeighborsAdded, limit
    <3>1. CASE i = turn
      <4>1. Beside(s, hit) \subseteq New \cup InSeq(selected)
        BY DEF New
      <4>2. Beside(s, hit) \subseteq InSeq(selected')
        BY <2>11, <2>13, <4>1
      <4> QED
        BY <3>1, <4>2 DEF hit
    <3>2. CASE i # turn
      <4>1. i < turn /\ Len(selected) < limit
        BY <1>1, <1>3, <3>2
      <4>2. Beside(s, direct[i]) \subseteq InSeq(selected)
        BY <1>2, <4>1 DEF SelectedInv, NeighborsAdded, limit
      <4> QED
        BY <2>11, <4>2
    <3> QED
      BY <3>1, <3>2
  <2>16. SelectedInv'
    <3>1. turn' \in Nat \ {0}
      BY <1>1, <1>3
    <3>2. ListsOnce(selected', DOMAIN search'.bench)
      BY <1>1, <2>9, Zenon DEF S
    <3>3. Len(selected') <= NeighborLimit(search')
      BY <1>1, <2>9, Zenon DEF limit
    <3>4. \A p \in InSeq(selected') : p \in Hits(search') \/ InWindow(p)'
      BY <1>1, <2>14
    <3> QED
      BY <2>15, <3>1, <3>2, <3>3, <3>4 DEF SelectedInv
  <2> QED
    BY <1>1, <1>5, <2>16 DEF EpisodeInv
<1> QED
  BY <1>6, <1>7

\* What is found is what RecallHitsSound promises.
LEMMA HitsFoundSound ==
  ASSUME EpisodeInv
  PROVE  RecallHitsSound
<1> SUFFICES ASSUME recall_step = "found" PROVE RecallHitsSound
  BY DEF RecallHitsSound
<1>1. DirectInv /\ SelectedInv /\ (turn > Len(direct) \/ Len(selected) >= NeighborLimit(search))
  BY DEF EpisodeInv
<1>2. /\ DOMAIN direct = 1..Len(direct) /\ Len(direct) \in Nat
      /\ DOMAIN selected = 1..Len(selected) /\ Len(selected) \in Nat
      /\ \A i, j \in 1..Len(selected) : selected[i] = selected[j] => i = j
  BY <1>1, ListIsSequence DEF DirectInv, SelectedInv
<1>3. Cardinality(InSeq(selected)) = Len(selected)
  <2> DEFINE I == 1..Len(selected)
  <2>1. IsFiniteSet(I) /\ Cardinality(I) = Len(selected)
    <3>1. \A n \in Nat : IsFiniteSet(1..n) /\ Cardinality(1..n) = n
      BY FS_Interval
    <3> QED
      BY <1>2, <3>1, Zenon
  <2>2. InSeq(selected) = {selected[i] : i \in I}
    BY <1>2 DEF InSeq
  <2>3. \A i, j \in I : selected[i] = selected[j] => i = j
    BY <1>2
  <2> HIDE DEF I
  <2>4. Cardinality({selected[i] : i \in I}) = Cardinality(I)
    BY <2>1, <2>3, DistinctElements
  <2> QED
    BY <2>1, <2>2, <2>4
<1>4. ASSUME Len(selected) < NeighborLimit(search), NEW hit \in InSeq(direct),
             Expandable(search, hit)
      PROVE  Beside(search, hit) \subseteq InSeq(selected)
  <2>1. PICK i \in 1..Len(direct) : hit = direct[i]
    BY <1>2 DEF InSeq
  <2>2. NeighborLimit(search) \in Nat /\ turn \in Nat
    BY <1>1, LimitHolds DEF SelectedInv
  <2>3. i < turn
    BY <1>1, <1>2, <1>4, <2>2
  <2> QED
    BY <1>1, <1>4, <2>1, <2>3 DEF SelectedInv, NeighborsAdded
<1> QED
  BY <1>1, <1>3, <1>4 DEF RecallHitsSound, DirectInv, SelectedInv, GivesWay

\* A recall answers with each message once, within its limit, and with matches
\* and their neighbours only; a match gives way to a weaker one only when that
\* is the earliest of the benchmark sessions and strong enough; and with room
\* left the neighbours of every expanded hit are there.
THEOREM HitsAreSound == EpisodeSpec => []RecallHitsSound
<1>1. EpisodeInit => EpisodeInv
  BY DEF EpisodeInit, EpisodeInv
<1>2. EpisodeInv /\ [EpisodeNext]_episodeVars => EpisodeInv'
  <2> SUFFICES ASSUME EpisodeInv, [EpisodeNext]_episodeVars PROVE EpisodeInv'
    OBVIOUS
  <2>1. ASSUME NEW s \in RecallSearches, SearchEpisodes(s) PROVE EpisodeInv'
    BY <2>1, SearchStarts
  <2>2. CASE ExpandHit
    BY <2>2, HitExpanded
  <2>3. CASE ReturnHits
    <3>1. /\ recall_step = "expand" /\ recall_step' = "found"
          /\ turn > Len(direct) \/ Len(selected) >= NeighborLimit(search)
          /\ UNCHANGED <<search, direct, selected, turn>>
      BY <2>3 DEF ReturnHits
    <3>2. DirectInv' /\ SelectedInv'
      BY <3>1 DEF EpisodeInv, DirectInv, SelectedInv, NeighborsAdded, InWindow
    <3> QED
      BY <3>1, <3>2 DEF EpisodeInv
  <2>4. CASE ForgetSearch
    BY <2>4 DEF ForgetSearch, EpisodeInv
  <2>5. CASE UNCHANGED episodeVars
    <3>1. UNCHANGED <<recall_step, search, direct, selected, turn>>
      BY <2>5 DEF episodeVars
    <3>2. /\ DirectInv => DirectInv'
          /\ SelectedInv => SelectedInv'
      BY <3>1 DEF DirectInv, SelectedInv, NeighborsAdded, InWindow
    <3> QED
      BY <3>1, <3>2 DEF EpisodeInv
  <2> QED
    BY <2>1, <2>2, <2>3, <2>4, <2>5 DEF EpisodeNext, EpisodeStep
<1>3. EpisodeInv => RecallHitsSound
  BY HitsFoundSound
<1> QED
  BY <1>1, <1>2, <1>3, PTL DEF EpisodeSpec

-------------------------------------------------------------------------------
(***************************************************************************)
(* ArchivalSearch: a search answers with passages of its scope, and the     *)
(* vectors of its candidates are the youngest of the store, so that none of *)
(* them is forgotten while it runs when all of them fit.                    *)
(***************************************************************************)

SearchTexts == {s.text[p] : s \in ArchivalSearches, p \in Passages}
StoredVector == [id : Passages, text : SearchTexts, zero : BOOLEAN]

\* One vector per passage, as many as the store may keep.
StoreOnce(V) ==
    /\ V \in Seq(StoredVector) /\ Len(V) <= MaxVectors
    /\ \A i, j \in 1..Len(V) : V[i].id = V[j].id => i = j

\* The passages of P have a vector of their text, younger than all others.
Youngest(V, P, text) ==
    \A p \in P : \E i \in 1..Len(V) :
        /\ V[i].id = p /\ V[i].text = text[p]
        /\ \A j \in i..Len(V) : V[j].id \in P

\* The candidates whose turn has come.
Turned(k) == {asking.candidates[i] : i \in 1..k}

IndexInv ==
    \E k \in 0..Len(asking.candidates) :
        /\ unindexed \in Seq(Passages) /\ Len(unindexed) = Len(asking.candidates) - k
        /\ \A j \in 1..Len(unindexed) : unindexed[j] = asking.candidates[k + j]
        /\ archival_step = "query" => k = Len(asking.candidates)
        /\ unembedded \subseteq Turned(k)
        /\ Len(asking.candidates) <= MaxVectors =>
              Youngest(vectors, Turned(k) \ unembedded, asking.text)

AnswerOf(s) ==
    /\ ListsOnce(hits, Ids(s.candidates)) /\ Len(hits) <= ARCHIVAL_TOP_K
    /\ s.mode = "hybrid" /\ s.candidates # <<>> => hits # <<>>

ArchivalInv ==
    /\ archival_step \in {"idle", "index", "query", "found"}
    /\ archival_step # "idle" => asking \in ArchivalSearches
    /\ StoreOnce(vectors)
    /\ archival_step \in {"index", "query"} => asking.candidates # <<>> /\ IndexInv
    /\ archival_step = "found" => AnswerOf(asking)

-------------------------------------------------------------------------------
LEMMA CandidatesListed ==
  ASSUME NEW s \in ArchivalSearches
  PROVE  /\ s.candidates \in Seq(Passages) /\ Len(s.candidates) \in Nat
         /\ DOMAIN s.candidates = 1..Len(s.candidates)
         /\ ListsOnce(s.candidates, Ids(s.candidates)) /\ Ids(s.candidates) \subseteq Nat
         /\ Ids(s.candidates) \subseteq Passages
<1>1. /\ s.candidates \in Seq(Passages) /\ Len(s.candidates) \in Nat
      /\ DOMAIN s.candidates = 1..Len(s.candidates)
      /\ \A i, j \in 1..Len(s.candidates) : s.candidates[i] = s.candidates[j] => i = j
  BY ArchivalSearchAssumption
<1>2. s.candidates \in [1..Len(s.candidates) -> Ids(s.candidates)]
  BY <1>1 DEF Ids
<1>3. ListsOnce(s.candidates, Ids(s.candidates))
  BY <1>1, <1>2 DEF ListsOnce
<1>4. Ids(s.candidates) \subseteq Passages /\ Passages \subseteq Nat
  BY <1>1, ArchivalSearchAssumption DEF Ids
<1> QED
  BY <1>1, <1>3, <1>4

\* The store without the vector of one passage.
LEMMA StoreWithout ==
  ASSUME StoreOnce(vectors), NEW p
  PROVE  \E K : /\ K = {i \in 1..Len(vectors) : vectors[i].id # p}
               /\ IsKept(WithoutVector(p), vectors, K, StoredVector)
<1> DEFINE K == {i \in 1..Len(vectors) : vectors[i].id # p}
<1>1. vectors \in Seq(StoredVector) /\ DOMAIN vectors = 1..Len(vectors)
  BY DEF StoreOnce
<1>2. K \subseteq 1..Len(vectors) /\ WithoutVector(p) = Kept(vectors, K)
  BY <1>1 DEF WithoutVector
<1> HIDE DEF K
<1>3. IsKept(Kept(vectors, K), vectors, K, StoredVector)
  BY <1>1, <1>2, PlacesAreKept
<1> QED
  BY <1>2, <1>3 DEF K

\* A vector that is new or renewed goes to the end of the others.
Renewed(v) == Append(WithoutVector(v.id), v)

LEMMA RenewedOnce ==
  ASSUME StoreOnce(vectors), NEW v \in StoredVector
  PROVE  /\ Renewed(v) \in Seq(StoredVector) /\ Len(Renewed(v)) \in Nat
         /\ Len(Renewed(v)) <= Len(vectors) + 1 /\ Len(Renewed(v)) >= 1
         /\ Renewed(v)[Len(Renewed(v))] = v
         /\ \A i, j \in 1..Len(Renewed(v)) : Renewed(v)[i].id = Renewed(v)[j].id => i = j
<1> DEFINE w == WithoutVector(v.id)
           g == Renewed(v)
<1>1. PICK K : /\ K = {i \in 1..Len(vectors) : vectors[i].id # v.id}
               /\ IsKept(w, vectors, K, StoredVector)
  BY StoreWithout
<1>2. /\ w \in Seq(StoredVector) /\ Len(w) \in Nat /\ Len(w) <= Len(vectors)
      /\ \A n \in 1..Len(w) : Nth(K, n) \in K /\ w[n] = vectors[Nth(K, n)]
      /\ \A m, n \in 1..Len(w) : m < n => Nth(K, m) < Nth(K, n)
  BY <1>1 DEF IsKept
<1>3. \A i \in K : i \in 1..Len(vectors) /\ vectors[i].id # v.id
  BY <1>1
<1>4. g = Append(w, v)
  BY DEF Renewed
<1> HIDE DEF w, g
<1>5. /\ g \in Seq(StoredVector) /\ Len(g) = Len(w) + 1 /\ g[Len(w) + 1] = v
      /\ \A i \in 1..Len(w) : g[i] = w[i]
  BY <1>2, <1>4
<1>6. Len(vectors) \in Nat /\ \A i, j \in 1..Len(vectors) : vectors[i].id = vectors[j].id => i = j
  BY DEF StoreOnce
<1>7. ASSUME NEW i \in 1..Len(g), NEW j \in 1..Len(g), g[i].id = g[j].id
      PROVE  i = j
  <2>1. \A k \in 1..Len(w) : /\ Nth(K, k) \in 1..Len(vectors) /\ g[k] = vectors[Nth(K, k)]
                            /\ g[k].id # v.id
    BY <1>2, <1>3, <1>5
  <2>2. CASE i \in 1..Len(w) /\ j \in 1..Len(w)
    <3>1. Nth(K, i) = Nth(K, j)
      BY <1>6, <1>7, <2>1, <2>2
    <3>2. Nth(K, i) \in Int
      BY <2>1, <2>2
    <3>3. ~(i < j) /\ ~(j < i)
      BY <1>2, <2>2, <3>1, <3>2
    <3> QED
      BY <2>2, <3>3
  <2>3. CASE i \in 1..Len(w) /\ j = Len(w) + 1
    BY <1>5, <1>7, <2>1, <2>3
  <2>4. CASE j \in 1..Len(w) /\ i = Len(w) + 1
    BY <1>5, <1>7, <2>1, <2>4
  <2>5. CASE i = Len(w) + 1 /\ j = Len(w) + 1
    BY <2>5
  <2> QED
    BY <1>2, <1>5, <2>2, <2>3, <2>4, <2>5
<1>8. /\ Len(g) \in Nat /\ Len(g) <= Len(vectors) + 1 /\ Len(g) >= 1 /\ g[Len(g)] = v
  BY <1>2, <1>5, <1>6
<1> QED
  BY <1>5, <1>7, <1>8 DEF g

\* A renewed vector is younger than those that were the youngest.
LEMMA RenewedYoungest ==
  ASSUME StoreOnce(vectors), NEW v \in StoredVector, NEW P, NEW text,
         Youngest(vectors, P, text), v.text = text[v.id]
  PROVE  Youngest(Renewed(v), P \cup {v.id}, text)
<1> DEFINE w == WithoutVector(v.id)
           g == Renewed(v)
           Q == P \cup {v.id}
<1>1. PICK K : /\ K = {i \in 1..Len(vectors) : vectors[i].id # v.id}
               /\ IsKept(w, vectors, K, StoredVector)
  BY StoreWithout
<1>2. /\ w \in Seq(StoredVector) /\ Len(w) \in Nat /\ Len(w) <= Len(vectors)
      /\ \A n \in 1..Len(w) : Nth(K, n) \in K /\ w[n] = vectors[Nth(K, n)]
      /\ \A m, n \in 1..Len(w) : m < n => Nth(K, m) < Nth(K, n)
      /\ \A i \in K : \E n \in 1..Len(w) : i = Nth(K, n)
  BY <1>1 DEF IsKept
<1>3. \A i \in 1..Len(vectors) : i \in K <=> vectors[i].id # v.id
  BY <1>1
<1>4. K \subseteq 1..Len(vectors) /\ Len(vectors) \in Nat
  BY <1>1 DEF StoreOnce
<1>5. g = Append(w, v)
  BY DEF Renewed
<1> HIDE DEF w, g
<1>6. /\ g \in Seq(StoredVector) /\ Len(g) = Len(w) + 1 /\ g[Len(w) + 1] = v
      /\ \A i \in 1..Len(w) : g[i] = w[i]
  BY <1>2, <1>5
<1>7. ASSUME NEW p \in Q
      PROVE  \E i \in 1..Len(g) : /\ g[i].id = p /\ g[i].text = text[p]
                                  /\ \A j \in i..Len(g) : g[j].id \in Q
  <2>1. CASE p = v.id
    <3>1. Len(g) \in 1..Len(g) /\ \A j \in Len(g)..Len(g) : j = Len(g)
      BY <1>2, <1>6
    <3>2. g[Len(g)] = v
      BY <1>6
    <3>3. g[Len(g)].id = p /\ g[Len(g)].text = text[p]
      BY <2>1, <3>2
    <3>4. \A j \in Len(g)..Len(g) : g[j].id \in Q
      BY <2>1, <3>1, <3>3
    <3> QED
      BY <3>1, <3>3, <3>4
  <2>2. CASE p # v.id
    <3>1. p \in P
      BY <2>2
    <3>2. PICK i \in 1..Len(vectors) : /\ vectors[i].id = p /\ vectors[i].text = text[p]
                                       /\ \A j \in i..Len(vectors) : vectors[j].id \in P
      BY <3>1 DEF Youngest
    <3>3. i \in K
      BY <1>3, <2>2, <3>2
    <3>4. PICK n \in 1..Len(w) : i = Nth(K, n)
      BY <1>2, <3>3
    <3>5. n \in 1..Len(g) /\ g[n] = vectors[i]
      BY <1>2, <1>6, <3>4
    <3>6. ASSUME NEW j \in n..Len(g) PROVE g[j].id \in Q
      <4>1. CASE j = Len(w) + 1
        BY <1>6, <4>1
      <4>2. CASE j # Len(w) + 1
        <5>1. j \in 1..Len(w) /\ (j = n \/ n < j)
          BY <1>2, <1>6, <3>4, <4>2
        <5>2. Nth(K, j) \in K /\ g[j] = vectors[Nth(K, j)]
          BY <1>2, <1>6, <5>1
        <5>3. Nth(K, j) = i \/ i < Nth(K, j)
          BY <1>2, <3>4, <5>1
        <5>4. Nth(K, j) \in 1..Len(vectors)
          BY <1>4, <5>2
        <5>5. Nth(K, j) \in i..Len(vectors)
          BY <1>4, <5>3, <5>4
        <5> QED
          BY <3>2, <5>2, <5>5
      <4> QED
        BY <4>1, <4>2
    <3> QED
      BY <3>2, <3>5, <3>6
  <2> QED
    BY <2>1, <2>2
<1>8. Youngest(g, Q, text)
  BY <1>7 DEF Youngest
<1> QED
  BY <1>8 DEF g

\* The oldest vector that is forgotten is none of the youngest when there are
\* no more of these than the store may keep.
LEMMA CutYoungest ==
  ASSUME NEW g \in Seq(StoredVector), Len(g) = MaxVectors + 1,
         \A i, j \in 1..Len(g) : g[i].id = g[j].id => i = j,
         NEW Q, IsFiniteSet(Q), Cardinality(Q) <= MaxVectors,
         NEW text, Youngest(g, Q, text)
  PROVE  Youngest(SubSeq(g, 2, Len(g)), Q, text)
<1> DEFINE c == SubSeq(g, 2, Len(g))
           n == MaxVectors + 1
<1>1. MaxVectors \in Nat \ {0} /\ n \in Nat /\ Len(g) = n
  BY ArchivalSearchAssumption
<1>2. Len(c) = MaxVectors /\ \A i \in 1..MaxVectors : c[i] = g[i + 1]
  BY <1>1
<1>3. ~(\A j \in 1..n : g[j].id \in Q)
  <2> SUFFICES ASSUME \A j \in 1..n : g[j].id \in Q PROVE FALSE
    OBVIOUS
  <2> DEFINE s == [j \in 1..n |-> g[j].id]
  <2>1. s \in [1..n -> Q] /\ \A i, j \in 1..n : s[i] = s[j] => i = j
    BY <1>1
  <2> HIDE DEF s, n
  <2>2. n <= Cardinality(Q)
    BY <1>1, <2>1, DistinctList, SMTT(30)
  <2>3. Cardinality(Q) \in Nat
    BY FS_CardinalityType
  <2> QED
    BY <1>1, <2>2, <2>3 DEF n
<1> HIDE DEF c
<1>4. ASSUME NEW p \in Q
      PROVE  \E i \in 1..Len(c) : /\ c[i].id = p /\ c[i].text = text[p]
                                  /\ \A j \in i..Len(c) : c[j].id \in Q
  <2>1. PICK k \in 1..n : /\ g[k].id = p /\ g[k].text = text[p]
                          /\ \A j \in k..n : g[j].id \in Q
    BY <1>1 DEF Youngest
  <2>2. k # 1
    BY <1>3, <2>1
  <2>3. k - 1 \in 1..MaxVectors /\ c[k - 1] = g[k]
    BY <1>1, <1>2, <2>2
  <2>4. \A j \in (k - 1)..MaxVectors : j + 1 \in k..n /\ c[j] = g[j + 1]
    BY <1>1, <1>2, <2>3
  <2> QED
    BY <1>2, <2>1, <2>3, <2>4
<1> QED
  BY <1>4 DEF Youngest, c

\* A vector that was used goes to the end and nothing is lost.
LEMMA TouchRenews ==
  ASSUME StoreOnce(vectors), NEW p, NEW t, t \in StoredText(p)
  PROVE  \E v \in StoredVector : /\ v.id = p /\ v.text = t /\ Touch(p) = Renewed(v)
                                 /\ Len(Renewed(v)) = Len(vectors)
<1>1. /\ vectors \in Seq(StoredVector) /\ Len(vectors) \in Nat
      /\ DOMAIN vectors = 1..Len(vectors)
      /\ \A i, j \in 1..Len(vectors) : vectors[i].id = vectors[j].id => i = j
  BY DEF StoreOnce
<1>2. PICK m \in 1..Len(vectors) : vectors[m].id = p /\ vectors[m].text = t
  BY <1>1 DEF StoredText, Ids
<1> DEFINE v == vectors[m]
           one == Kept(vectors, {m})
           w == WithoutVector(p)
<1>3. v \in StoredVector /\ v.id = p /\ v.text = t
  BY <1>1, <1>2
<1>4. {i \in DOMAIN vectors : vectors[i].id = p} = {m}
  BY <1>1, <1>2
<1>5. Touch(p) = w \o one
  BY <1>4 DEF Touch
<1>6. IsKept(one, vectors, {m}, StoredVector)
  <2>1. {m} \subseteq 1..Len(vectors)
    OBVIOUS
  <2> QED
    BY <1>1, <2>1, PlacesAreKept
<1> HIDE DEF one
<1>7. one \in Seq(StoredVector) /\ Len(one) = 1 /\ one[1] = v
  <2>1. Len(one) = Cardinality({m}) /\ one \in Seq(StoredVector)
        /\ \A n \in 1..Len(one) : Nth({m}, n) \in {m} /\ one[n] = vectors[Nth({m}, n)]
    BY <1>6 DEF IsKept
  <2>2. Cardinality({m}) = 1
    BY FS_Singleton
  <2>3. Len(one) = 1
    BY <2>1, <2>2, Zenon
  <2>4. 1 \in 1..Len(one)
    BY <2>3
  <2>5. Nth({m}, 1) = m /\ one[1] = vectors[Nth({m}, 1)]
    BY <2>1, <2>4
  <2> QED
    BY <2>1, <2>3, <2>5
<1>8. PICK K : /\ K = {i \in 1..Len(vectors) : vectors[i].id # p}
               /\ IsKept(w, vectors, K, StoredVector)
  BY StoreWithout
<1>9. w \in Seq(StoredVector) /\ Len(w) = Cardinality(K) /\ Len(w) \in Nat
  BY <1>8 DEF IsKept
<1>10. K = (1..Len(vectors)) \ {m}
  BY <1>1, <1>2, <1>8
<1>11. Cardinality(K) = Len(vectors) - 1
  <2>1. IsFiniteSet(1..Len(vectors)) /\ Cardinality(1..Len(vectors)) = Len(vectors)
    <3>1. 1 \in Int /\ Len(vectors) \in Int /\ Len(vectors) >= 0
      BY <1>1
    <3>2. /\ IsFiniteSet(1..Len(vectors))
          /\ Cardinality(1..Len(vectors)) = IF 1 > Len(vectors) THEN 0 ELSE Len(vectors) - 1 + 1
      BY <3>1, FS_Interval
    <3> QED
      BY <3>1, <3>2
  <2> QED
    BY <1>10, <2>1, FS_RemoveElement
<1> HIDE DEF w, v
<1>12. w \o one = Append(w, v)
  <2>1. one = <<v>>
    BY <1>7
  <2>2. Append(w, v) = w \o <<v>>
    BY <1>3, <1>9, AppendIsConcat
  <2> QED
    BY <2>1, <2>2
<1>13. Renewed(v) = Append(w, v)
  BY <1>3 DEF Renewed, w
<1>14. Len(Append(w, v)) = Len(vectors)
  <2>1. Len(Append(w, v)) = Len(w) + 1
    BY <1>3, <1>9
  <2>2. Len(w) = Len(vectors) - 1
    BY <1>9, <1>11, Zenon
  <2> QED
    BY <1>1, <2>1, <2>2
<1> QED
  BY <1>3, <1>5, <1>12, <1>13, <1>14

LEMMA UpsertedOnce ==
  ASSUME StoreOnce(vectors), NEW v \in StoredVector
  PROVE  StoreOnce(Upserted(v))
<1> DEFINE g == Renewed(v)
           d == IF Len(g) > MaxVectors THEN Len(g) - MaxVectors ELSE 0
           c == SubSeq(g, 1 + d, Len(g))
<1>1. /\ g \in Seq(StoredVector) /\ Len(g) \in Nat /\ Len(g) >= 1
      /\ \A i, j \in 1..Len(g) : g[i].id = g[j].id => i = j
  BY RenewedOnce
<1>2. MaxVectors \in Nat \ {0}
  BY ArchivalSearchAssumption
<1>3. Upserted(v) = c
  BY DEF Upserted, Renewed
<1> HIDE DEF g
<1>4. d \in Nat /\ d < Len(g) /\ Len(g) - d <= MaxVectors
  BY <1>1, <1>2
<1> HIDE DEF d
<1>5. /\ c \in Seq(StoredVector) /\ Len(c) = Len(g) - d
      /\ \A i \in 1..(Len(g) - d) : c[i] = g[i + d]
  BY <1>1, <1>4
<1>6. \A i \in 1..Len(c) : i \in Nat /\ i + d \in 1..Len(g) /\ c[i] = g[i + d]
  BY <1>1, <1>4, <1>5
<1> HIDE DEF c
<1>7. ASSUME NEW i \in 1..Len(c), NEW j \in 1..Len(c), c[i].id = c[j].id PROVE i = j
  <2>1. i + d = j + d
    BY <1>1, <1>6, <1>7
  <2> QED
    BY <1>4, <1>6, <2>1
<1>8. StoreOnce(c)
  BY <1>4, <1>5, <1>7 DEF StoreOnce
<1> QED
  BY <1>3, <1>8, Zenon

LEMMA UpsertedYoungest ==
  ASSUME StoreOnce(vectors), NEW v \in StoredVector, NEW P, NEW text,
         Youngest(vectors, P, text), v.text = text[v.id],
         IsFiniteSet(P \cup {v.id}), Cardinality(P \cup {v.id}) <= MaxVectors
  PROVE  Youngest(Upserted(v), P \cup {v.id}, text)
<1> DEFINE g == Renewed(v)
           Q == P \cup {v.id}
           d == IF Len(g) > MaxVectors THEN Len(g) - MaxVectors ELSE 0
<1>1. Youngest(g, Q, text)
  BY RenewedYoungest
<1>2. /\ g \in Seq(StoredVector) /\ Len(g) \in Nat /\ Len(g) >= 1
      /\ Len(g) <= Len(vectors) + 1
      /\ \A i, j \in 1..Len(g) : g[i].id = g[j].id => i = j
  BY RenewedOnce
<1>3. MaxVectors \in Nat \ {0} /\ Len(vectors) \in Nat /\ Len(vectors) <= MaxVectors
  BY ArchivalSearchAssumption DEF StoreOnce
<1>4. Upserted(v) = SubSeq(g, 1 + d, Len(g))
  BY DEF Upserted, Renewed
<1>5. IsFiniteSet(Q) /\ Cardinality(Q) <= MaxVectors
  OBVIOUS
<1> HIDE DEF g, Q
<1>6. CASE Len(g) > MaxVectors
  <2>1. Len(g) = MaxVectors + 1 /\ 1 + d = 2
    BY <1>2, <1>3, <1>6
  <2>2. Youngest(SubSeq(g, 2, Len(g)), Q, text)
    BY <1>1, <1>2, <1>5, <2>1, CutYoungest
  <2>3. Youngest(Upserted(v), Q, text)
    BY <1>4, <2>1, <2>2, Zenon
  <2> QED
    BY <2>3 DEF Q
<1>7. CASE ~(Len(g) > MaxVectors)
  <2>1. 1 + d = 1
    BY <1>7
  <2>2. SubSeq(g, 1, Len(g)) = g
    BY <1>2
  <2>3. Youngest(Upserted(v), Q, text)
    BY <1>1, <1>4, <2>1, <2>2, Zenon
  <2> QED
    BY <2>3 DEF Q
<1> QED
  BY <1>6, <1>7

\* Whatever the provider answers, the candidates whose turn has come and that
\* have a vector are the youngest of the store.
LEMMA PassageIndexed ==
  ASSUME ArchivalInv, IndexPassage
  PROVE  ArchivalInv'
<1> DEFINE p == Head(unindexed)
           n == Len(asking.candidates)
           v(zero) == [id |-> p, text |-> asking.text[p], zero |-> zero]
<1>1. /\ archival_step = "index" /\ unindexed # <<>> /\ unindexed' = Tail(unindexed)
      /\ archival_step' = archival_step /\ asking' = asking /\ hits' = hits
      /\ IF asking.text[p] \in StoredText(p)
           THEN vectors' = Touch(p) /\ unembedded' = unembedded
           ELSE \/ \E zero \in BOOLEAN : vectors' = Upserted(v(zero)) /\ unembedded' = unembedded
                \/ unembedded' = unembedded \cup {p} /\ vectors' = vectors
  BY DEF IndexPassage
<1>2. /\ asking \in ArchivalSearches /\ StoreOnce(vectors) /\ asking.candidates # <<>>
      /\ IndexInv
  BY <1>1 DEF ArchivalInv
<1>3. /\ asking.candidates \in Seq(Passages) /\ n \in Nat
      /\ \A i, j \in 1..n : asking.candidates[i] = asking.candidates[j] => i = j
  <2>1. ListsOnce(asking.candidates, Ids(asking.candidates))
    BY <1>2, CandidatesListed
  <2>2. \A i, j \in 1..n : asking.candidates[i] = asking.candidates[j] => i = j
    BY <2>1, ListIsSequence
  <2> QED
    BY <1>2, <2>2, CandidatesListed
<1>4. PICK k \in 0..n :
        /\ unindexed \in Seq(Passages) /\ Len(unindexed) = n - k
        /\ \A j \in 1..Len(unindexed) : unindexed[j] = asking.candidates[k + j]
        /\ unembedded \subseteq Turned(k)
        /\ n <= MaxVectors => Youngest(vectors, Turned(k) \ unembedded, asking.text)
  BY <1>2 DEF IndexInv
<1>5. /\ Len(unindexed) >= 1 /\ k + 1 \in 1..n /\ p = asking.candidates[k + 1] /\ p \in Passages
  BY <1>1, <1>3, <1>4
<1>6. /\ unindexed' \in Seq(Passages) /\ Len(unindexed') = n - (k + 1)
      /\ \A j \in 1..Len(unindexed') : unindexed'[j] = asking.candidates[(k + 1) + j]
  <2>1. unindexed' \in Seq(Passages) /\ Len(unindexed') = n - (k + 1)
    BY <1>1, <1>3, <1>4, <1>5
  <2>2. \A j \in 1..Len(unindexed') : unindexed'[j] = unindexed[j + 1] /\ j + 1 \in 1..Len(unindexed)
    BY <1>1, <1>3, <1>4, <1>5, <2>1
  <2>3. \A j \in 1..Len(unindexed') : k + (j + 1) = (k + 1) + j
    BY <1>3, <1>4, <2>1
  <2>4. \A j \in 1..Len(unindexed') : unindexed'[j] = asking.candidates[k + (j + 1)]
    BY <1>4, <2>2
  <2> QED
    BY <2>1, <2>3, <2>4
<1>7. Turned(k + 1) = Turned(k) \cup {p} /\ p \notin Turned(k)
  <2>1. 1..(k + 1) = (1..k) \cup {k + 1}
    BY <1>4
  <2>2. \A i \in 1..k : i \in 1..n /\ i # k + 1
    BY <1>3, <1>4
  <2> QED
    BY <1>3, <1>5, <2>1, <2>2 DEF Turned
<1>8. /\ IsFiniteSet((Turned(k) \ unembedded) \cup {p})
      /\ n <= MaxVectors => Cardinality((Turned(k) \ unembedded) \cup {p}) <= MaxVectors
  <2> DEFINE Q == (Turned(k) \ unembedded) \cup {p}
             T == Turned(k + 1)
  <2>1. Q \subseteq T
    BY <1>7
  <2>2. IsFiniteSet(T) /\ Cardinality(T) <= k + 1
    <3>1. k + 1 \in Nat
      BY <1>4
    <3> QED
      BY <3>1, FewElements DEF Turned
  <2> HIDE DEF Q, T
  <2>3. IsFiniteSet(Q) /\ Cardinality(Q) <= Cardinality(T)
    BY <2>1, <2>2, FS_Subset
  <2>4. Cardinality(Q) \in Nat /\ Cardinality(T) \in Nat /\ MaxVectors \in Nat
    BY <2>2, <2>3, FS_CardinalityType, ArchivalSearchAssumption
  <2>5. n <= MaxVectors => Cardinality(Q) <= MaxVectors
    BY <1>3, <1>5, <2>2, <2>3, <2>4
  <2> QED
    BY <2>3, <2>5 DEF Q
<1>9. asking.text[p] \in SearchTexts
  BY <1>2, <1>5 DEF SearchTexts
<1> HIDE DEF p
<1>10. StoreOnce(vectors') /\ unembedded' \subseteq Turned(k + 1)
       /\ (n <= MaxVectors => Youngest(vectors', Turned(k + 1) \ unembedded', asking.text))
  <2> DEFINE P == Turned(k) \ unembedded
  <2>1. CASE unembedded' = unembedded
    <3>1. Turned(k + 1) \ unembedded' = P \cup {p} /\ unembedded' \subseteq Turned(k + 1)
      BY <1>4, <1>7, <2>1
    <3>2. PICK u \in StoredVector :
            /\ u.id = p /\ u.text = asking.text[p]
            /\ \/ vectors' = Renewed(u) /\ Len(Renewed(u)) = Len(vectors)
               \/ vectors' = Upserted(u)
               \/ unembedded' = unembedded \cup {p}
      <4>1. CASE asking.text[p] \in StoredText(p)
        <5>1. \E u \in StoredVector : /\ u.id = p /\ u.text = asking.text[p]
                                      /\ Touch(p) = Renewed(u)
                                      /\ Len(Renewed(u)) = Len(vectors)
          BY <1>2, <4>1, TouchRenews
        <5> QED
          BY <1>1, <4>1, <5>1 DEF p
      <4>2. CASE asking.text[p] \notin StoredText(p)
        <5>1. \A zero \in BOOLEAN : /\ v(zero) \in StoredVector
                                    /\ v(zero).id = p /\ v(zero).text = asking.text[p]
          BY <1>5, <1>9 DEF StoredVector, p
        <5>2. CASE \E zero \in BOOLEAN : vectors' = Upserted(v(zero))
          BY <5>1, <5>2
        <5>3. CASE unembedded' = unembedded \cup {p}
          BY <5>1, <5>3
        <5> QED
          BY <1>1, <4>2, <5>2, <5>3 DEF p
      <4> QED
        BY <4>1, <4>2
    <3>3. unembedded' # unembedded \cup {p}
      BY <1>4, <1>7, <2>1
    <3>4. CASE vectors' = Renewed(u) /\ Len(Renewed(u)) = Len(vectors)
      <4>1. StoreOnce(vectors')
        BY <1>2, <3>4, RenewedOnce DEF StoreOnce
      <4>2. n <= MaxVectors => Youngest(vectors', P \cup {p}, asking.text)
        BY <1>2, <1>4, <3>2, <3>4, RenewedYoungest
      <4> QED
        BY <3>1, <4>1, <4>2
    <3>5. CASE vectors' = Upserted(u)
      <4>1. StoreOnce(vectors')
        BY <1>2, <3>5, UpsertedOnce
      <4>2. n <= MaxVectors => Youngest(vectors', P \cup {p}, asking.text)
        BY <1>2, <1>4, <1>8, <3>2, <3>5, UpsertedYoungest
      <4> QED
        BY <3>1, <4>1, <4>2
    <3> QED
      BY <3>2, <3>3, <3>4, <3>5
  <2>2. CASE unembedded' = unembedded \cup {p} /\ vectors' = vectors
    <3>1. Turned(k + 1) \ unembedded' = P /\ unembedded' \subseteq Turned(k + 1)
      BY <1>4, <1>7, <2>2
    <3> QED
      BY <1>2, <1>4, <2>2, <3>1
  <2> QED
    BY <1>1, <2>1, <2>2 DEF p
<1>11. Turned(k + 1)' = Turned(k + 1)
  BY <1>1 DEF Turned
<1>12. IndexInv'
  <2>1. k + 1 \in 0..n
    BY <1>5
  <2> QED
    BY <1>1, <1>6, <1>10, <1>11, <2>1 DEF IndexInv
<1> QED
  BY <1>1, <1>2, <1>10, <1>12 DEF ArchivalInv

\* The beginning of a list.
LEMMA CutLists ==
  ASSUME NEW S, NEW s, ListsOnce(s, S), NEW n \in Nat \ {0}
  PROVE  /\ ListsOnce(Cut(s, n), S) /\ Len(Cut(s, n)) <= n
         /\ s # <<>> => Cut(s, n) # <<>>
<1> DEFINE m == IF n < Len(s) THEN n ELSE Len(s)
           c == SubSeq(s, 1, m)
<1>1. /\ s \in Seq(S) /\ Len(s) \in Nat /\ s \in [1..Len(s) -> S]
      /\ \A i, j \in 1..Len(s) : s[i] = s[j] => i = j
  BY ListIsSequence
<1>2. Cut(s, n) = c
  BY DEF Cut
<1>3. m \in Nat /\ m <= n /\ m <= Len(s) /\ (Len(s) > 0 => m > 0)
  BY <1>1
<1> HIDE DEF m
<1>4. Len(c) = m /\ c \in [1..m -> S] /\ \A i \in 1..m : c[i] = s[i]
  <2>1. c \in Seq(S) /\ Len(c) = m
    BY <1>1, <1>3
  <2>2. \A i \in 1..m : c[i] = s[i]
    BY <1>1, <1>3
  <2> HIDE DEF c
  <2> QED
    BY <2>1, <2>2
<1> HIDE DEF c
<1>5. \A i \in 1..m : i \in 1..Len(s)
  BY <1>1, <1>3
<1>6. \A i, j \in 1..m : c[i] = c[j] => i = j
  BY <1>1, <1>4, <1>5
<1>7. ListsOnce(c, S)
  BY <1>3, <1>4, <1>6 DEF ListsOnce
<1>8. s # <<>> => c # <<>>
  <2> SUFFICES ASSUME s # <<>> PROVE c # <<>>
    OBVIOUS
  <2>1. Len(s) > 0
    BY <1>1
  <2>2. Len(c) > 0
    BY <1>3, <1>4, <2>1
  <2> QED
    BY <2>2
<1> QED
  BY <1>2, <1>3, <1>4, <1>7, <1>8

\* What reciprocal rank fusion makes of two rankings holds each passage of
\* either once.
LEMMA FusedLists ==
  ASSUME NEW e \in Seq(Nat), NEW l \in Seq(Nat)
  PROVE  /\ ListsOnce(Fused(e, l), InEither(e, l))
         /\ e # <<>> => Fused(e, l) # <<>>
<1> DEFINE P == InEither(e, l)
           R == {pq \in P \X P : FusedBefore(pq[1], pq[2], e, l)}
           f == Fused(e, l)
           c == Cardinality(P)
           Rank(p) == PlacesAhead(p, e, l)
<1>1. P \subseteq Nat /\ IsFiniteSet(P) /\ (e # <<>> => P # {})
  <2>1. /\ DOMAIN e = 1..Len(e) /\ DOMAIN l = 1..Len(l) /\ Len(e) \in Nat /\ Len(l) \in Nat
        /\ \A i \in 1..Len(e) : e[i] \in Nat
        /\ \A i \in 1..Len(l) : l[i] \in Nat
    OBVIOUS
  <2>2. Ids(e) = {e[i] : i \in 1..Len(e)} /\ Ids(l) = {l[i] : i \in 1..Len(l)}
    BY <2>1 DEF Ids
  <2>3. IsFiniteSet(Ids(e)) /\ IsFiniteSet(Ids(l))
    <3>1. IsFiniteSet({e[i] : i \in 1..Len(e)})
      BY <2>1, FewElements
    <3>2. IsFiniteSet({l[i] : i \in 1..Len(l)})
      BY <2>1, FewElements
    <3> QED
      BY <2>2, <3>1, <3>2, Zenon
  <2>4. IsFiniteSet(P)
    BY <2>3, FS_Union DEF InEither
  <2>5. P \subseteq Nat
    BY <2>1, <2>2 DEF InEither
  <2>6. e # <<>> => e[1] \in Ids(e)
    BY <2>1, <2>2
  <2> QED
    BY <2>4, <2>5, <2>6 DEF InEither
<1>2. ASSUME NEW r \in Seq(Nat), NEW p PROVE Contribution(p, r) \in Nat
  <2>1. CASE p \in Ids(r)
    <3> DEFINE i == CHOOSE k \in DOMAIN r : r[k] = p
               billion == 1000000000
    <3>1. \E k \in DOMAIN r : r[k] = p
      BY <2>1 DEF Ids
    <3>2. i \in DOMAIN r
      BY <3>1
    <3>3. Contribution(p, r) = billion \div (60 + i) /\ billion \in Nat
      BY <2>1, SMT DEF Contribution
    <3> HIDE DEF i, billion
    <3>4. i \in Nat
      BY <3>2
    <3>5. 60 + i \in Nat \ {0} /\ billion <= billion
      BY <3>3, <3>4
    <3>6. billion \div (60 + i) \in Nat
      BY <3>3, <3>5, DivisionGrows
    <3> QED
      BY <3>3, <3>6
  <2>2. CASE p \notin Ids(r)
    BY <2>2 DEF Contribution
  <2> QED
    BY <2>1, <2>2
<1>3. \A p, q \in P : FusedBefore(p, q, e, l) <=>
          \/ Contribution(p, e) + Contribution(p, l) > Contribution(q, e) + Contribution(q, l)
          \/ /\ Contribution(p, e) + Contribution(p, l) = Contribution(q, e) + Contribution(q, l)
             /\ \/ Contribution(p, e) > Contribution(q, e)
                \/ Contribution(p, e) = Contribution(q, e) /\ p < q
  BY SMT DEF FusedBefore
<1>4. \A p, q \in P : <<p, q>> \in R <=> FusedBefore(p, q, e, l)
  OBVIOUS
<1>5. \A p \in P : {q \in P : <<q, p>> \in R} = {q \in P : FusedBefore(q, p, e, l)}
  OBVIOUS
<1>6. R \subseteq P \X P
  OBVIOUS
<1>7. \A p \in P : Cardinality({q \in P : <<q, p>> \in R}) = Rank(p)
  BY <1>5 DEF PlacesAhead
<1> DEFINE place == [i \in 1..c |-> CHOOSE p \in P : Rank(p) = i - 1]
<1>8. f = place
  BY Zenon DEF Fused
<1> HIDE DEF P, R, Rank, f
<1> DEFINE u == [p \in P |-> Contribution(p, e)]
           x == [p \in P |-> Contribution(p, e) + Contribution(p, l)]
<1>9. /\ \A p \in P : u[p] \in Nat /\ x[p] \in Nat /\ p \in Nat
      /\ \A p, q \in P : FusedBefore(p, q, e, l) <=>
            \/ x[p] > x[q]
            \/ x[p] = x[q] /\ (u[p] > u[q] \/ (u[p] = u[q] /\ p < q))
  <2>1. \A p \in P : /\ u[p] = Contribution(p, e)
                     /\ x[p] = Contribution(p, e) + Contribution(p, l)
    OBVIOUS
  <2>2. \A p \in P : Contribution(p, e) \in Nat /\ Contribution(p, l) \in Nat /\ p \in Nat
    BY <1>1, <1>2
  <2> HIDE DEF u, x
  <2>3. \A p \in P : u[p] \in Nat /\ x[p] \in Nat /\ p \in Nat
    BY <2>1, <2>2
  <2>4. \A p, q \in P : FusedBefore(p, q, e, l) <=>
            \/ x[p] > x[q]
            \/ x[p] = x[q] /\ (u[p] > u[q] \/ (u[p] = u[q] /\ p < q))
    BY <1>3, <2>1
  <2> QED
    BY <2>3, <2>4
<1> HIDE DEF u, x
<1>10. IsLinearOrder(R, P)
  <2>1. \A p, q \in P : <<p, q>> \in R <=>
            \/ x[p] > x[q]
            \/ x[p] = x[q] /\ (u[p] > u[q] \/ (u[p] = u[q] /\ p < q))
    BY <1>9, <1>4
  <2>2. ASSUME NEW p \in P PROVE <<p, p>> \notin R
    <3>1. x[p] \in Nat /\ u[p] \in Nat /\ p \in Nat
      BY <1>9
    <3>2. ~(\/ x[p] > x[p]
            \/ x[p] = x[p] /\ (u[p] > u[p] \/ (u[p] = u[p] /\ p < p)))
      BY <3>1
    <3> QED
      BY <2>1, <3>2, Zenon
  <2>3. ASSUME NEW p \in P, NEW q \in P, NEW r \in P, <<p, q>> \in R, <<q, r>> \in R
        PROVE  <<p, r>> \in R
    <3>1. /\ x[p] \in Nat /\ x[q] \in Nat /\ x[r] \in Nat
          /\ u[p] \in Nat /\ u[q] \in Nat /\ u[r] \in Nat
          /\ p \in Nat /\ q \in Nat /\ r \in Nat
      BY <1>9
    <3>2. \/ x[p] > x[q]
          \/ x[p] = x[q] /\ (u[p] > u[q] \/ (u[p] = u[q] /\ p < q))
      BY <2>1, <2>3
    <3>3. \/ x[q] > x[r]
          \/ x[q] = x[r] /\ (u[q] > u[r] \/ (u[q] = u[r] /\ q < r))
      BY <2>1, <2>3
    <3>4. \/ x[p] > x[r]
          \/ x[p] = x[r] /\ (u[p] > u[r] \/ (u[p] = u[r] /\ p < r))
      BY <3>1, <3>2, <3>3
    <3> QED
      BY <2>1, <3>4
  <2>4. ASSUME NEW p \in P, NEW q \in P
        PROVE  p = q \/ <<p, q>> \in R \/ <<q, p>> \in R
    <3>1. /\ x[p] \in Nat /\ x[q] \in Nat /\ u[p] \in Nat /\ u[q] \in Nat
          /\ p \in Nat /\ q \in Nat
      BY <1>9
    <3>2. \/ p = q
          \/ x[p] > x[q]
          \/ x[p] = x[q] /\ (u[p] > u[q] \/ (u[p] = u[q] /\ p < q))
          \/ x[q] > x[p]
          \/ x[q] = x[p] /\ (u[q] > u[p] \/ (u[q] = u[p] /\ q < p))
      BY <3>1
    <3> QED
      BY <2>1, <3>2, Zenon
  <2> QED
    BY <1>6, <2>2, <2>3, <2>4 DEF IsLinearOrder
<1>11. PlacesTaken(R, P)
  BY <1>1, <1>10, AllPlacesTaken
<1>12. \A n \in 1..c : \E p \in P : Cardinality({q \in P : <<q, p>> \in R}) = n - 1
  BY <1>11 DEF PlacesTaken
<1>13. ASSUME NEW i \in 1..c
       PROVE  f[i] \in P /\ Cardinality({q \in P : <<q, f[i]>> \in R}) = i - 1
  <2>1. \E p \in P : Cardinality({q \in P : <<q, p>> \in R}) = i - 1
    BY <1>12, Zenon
  <2>2. \E p \in P : Rank(p) = i - 1
    BY <1>7, <2>1, Zenon
  <2>3. f[i] = CHOOSE p \in P : Rank(p) = i - 1
    BY <1>8
  <2>4. f[i] \in P /\ Rank(f[i]) = i - 1
    BY <2>2, <2>3, Zenon
  <2> QED
    BY <1>7, <2>4, Zenon
<1>14. f \in [1..c -> P]
  BY <1>8, <1>13
<1>15. \A i \in 1..c : Cardinality({q \in P : <<q, f[i]>> \in R}) = i - 1
  BY <1>13
<1>16. ListsAll(f, P)
  BY <1>1, <1>10, <1>14, <1>15, OrderedList
<1>17. ListsOnce(f, P) /\ \A p \in P : \E i \in 1..c : f[i] = p
  BY <1>16 DEF ListsAll
<1>18. e # <<>> => f # <<>>
  <2> SUFFICES ASSUME e # <<>> PROVE f # <<>>
    OBVIOUS
  <2>1. PICK p : p \in P
    BY <1>1
  <2>2. PICK i \in 1..c : f[i] = p
    BY <2>1, <1>17
  <2>3. DOMAIN f = 1..c
    BY <1>14
  <2>4. \A i0 \in DOMAIN <<>> : FALSE
    OBVIOUS
  <2> QED
    BY <2>2, <2>3, <2>4, Zenon
<1> QED
  BY <1>17, <1>18 DEF f, P

LEMMA LexicalListed ==
  ASSUME NEW s \in ArchivalSearches, NEW lexical \in LexicalOf(s)
  PROVE  ListsOnce(lexical, Ids(s.candidates)) /\ lexical \in Seq(Nat)
<1>1. /\ lexical \in Seq(Passages) /\ Len(lexical) \in Nat
      /\ \A i, j \in 1..Len(lexical) : lexical[i] = lexical[j] => i = j
      /\ DOMAIN lexical = 1..Len(lexical)
      /\ Ids(lexical) \subseteq Ids(s.candidates)
  BY ArchivalSearchAssumption DEF LexicalOf
<1>2. lexical \in [1..Len(lexical) -> Ids(s.candidates)]
  BY <1>1 DEF Ids
<1>3. ListsOnce(lexical, Ids(s.candidates))
  BY <1>1, <1>2 DEF ListsOnce
<1>4. lexical \in Seq(Nat)
  <2>1. Ids(s.candidates) \subseteq Nat
    BY CandidatesListed
  <2>2. lexical \in [1..Len(lexical) -> Nat]
    BY <1>2, <2>1
  <2> QED
    BY <1>1, <2>2
<1> QED
  BY <1>3, <1>4

\* The answer is the beginning of a list of candidates, one that is not empty
\* where an answer is owed.
LEMMA AnswerGiven ==
  ASSUME NEW r, ListsOnce(r, Ids(asking'.candidates)),
         asking'.mode = "hybrid" /\ asking'.candidates # <<>> => r # <<>>,
         hits' = Cut(r, ARCHIVAL_TOP_K)
  PROVE  AnswerOf(asking)'
<1>1. ARCHIVAL_TOP_K \in Nat \ {0}
  BY ArchivalSearchAssumption
<1>2. /\ ListsOnce(Cut(r, ARCHIVAL_TOP_K), Ids(asking'.candidates))
      /\ Len(Cut(r, ARCHIVAL_TOP_K)) <= ARCHIVAL_TOP_K
      /\ r # <<>> => Cut(r, ARCHIVAL_TOP_K) # <<>>
  BY <1>1, CutLists
<1>3. Ids(asking.candidates)' = Ids(asking'.candidates)
  BY DEF Ids
<1> QED
  BY <1>2, <1>3 DEF AnswerOf

LEMMA SearchPassagesSound ==
  ASSUME ArchivalInv, NEW s \in ArchivalSearches, NEW lexical \in LexicalOf(s),
         SearchPassages(s, lexical)
  PROVE  ArchivalInv'
<1>1. asking' = s /\ vectors' = vectors /\ unembedded' = {} /\ StoreOnce(vectors)
  BY DEF SearchPassages, ArchivalInv
<1>2. StoreOnce(vectors)'
  BY <1>1 DEF StoreOnce
<1>3. CASE s.mode = "text" \/ s.candidates = <<>>
  <2>1. archival_step' = "found" /\ hits' = Cut(lexical, ARCHIVAL_TOP_K)
    BY <1>3 DEF SearchPassages
  <2>2. ListsOnce(lexical, Ids(asking'.candidates))
    BY <1>1, LexicalListed
  <2>3. asking'.mode = "hybrid" /\ asking'.candidates # <<>> => lexical # <<>>
    BY <1>1, <1>3
  <2>4. AnswerOf(asking)'
    BY <2>1, <2>2, <2>3, AnswerGiven
  <2> QED
    BY <1>1, <1>2, <2>1, <2>4 DEF ArchivalInv
<1>4. CASE s.mode # "text" /\ s.candidates # <<>>
  <2>1. archival_step' = "index" /\ unindexed' = s.candidates
    BY <1>4 DEF SearchPassages
  <2>2. s.candidates \in Seq(Passages) /\ Len(s.candidates) \in Nat
    BY CandidatesListed
  <2>3. \A i \in 1..0 : FALSE
    OBVIOUS
  <2>4. Turned(0)' = {}
    BY <2>3 DEF Turned
  <2>5. Youngest(vectors, Turned(0) \ unembedded, asking.text)'
    BY <2>4 DEF Youngest
  <2>6. /\ 0 \in 0..Len(asking'.candidates)
        /\ unindexed' \in Seq(Passages) /\ Len(unindexed') = Len(asking'.candidates) - 0
        /\ \A j \in 1..Len(unindexed') : unindexed'[j] = asking'.candidates[0 + j]
        /\ archival_step' = "query" => 0 = Len(asking'.candidates)
        /\ unembedded' \subseteq Turned(0)'
    BY <1>1, <2>1, <2>2, <2>4
  <2>7. IndexInv'
    BY <2>5, <2>6 DEF IndexInv
  <2> QED
    BY <1>1, <1>2, <1>4, <2>1, <2>7 DEF ArchivalInv
<1> QED
  BY <1>3, <1>4

LEMMA IndexedSound ==
  ASSUME ArchivalInv, Indexed
  PROVE  ArchivalInv'
<1>1. /\ archival_step = "index" /\ unindexed = <<>> /\ archival_step' = "query"
      /\ UNCHANGED <<asking, unindexed, unembedded, vectors, hits>>
      /\ asking \in ArchivalSearches /\ asking.candidates # <<>> /\ IndexInv
  BY DEF Indexed, ArchivalInv
<1>2. PICK k \in 0..Len(asking.candidates) :
        /\ unindexed \in Seq(Passages) /\ Len(unindexed) = Len(asking.candidates) - k
        /\ \A j \in 1..Len(unindexed) : unindexed[j] = asking.candidates[k + j]
        /\ unembedded \subseteq Turned(k)
        /\ Len(asking.candidates) <= MaxVectors =>
              Youngest(vectors, Turned(k) \ unembedded, asking.text)
  BY <1>1 DEF IndexInv
<1>3. Len(asking.candidates) \in Nat
  BY <1>1, CandidatesListed
<1>4. Len(unindexed) = 0
  BY <1>1
<1>5. k = Len(asking.candidates)
  BY <1>2, <1>3, <1>4
<1>6. Turned(k)' = Turned(k)
  BY <1>1 DEF Turned
<1>7. Youngest(vectors, Turned(k) \ unembedded, asking.text)'
          = Youngest(vectors, Turned(k) \ unembedded, asking.text)
  BY <1>1, <1>6 DEF Youngest
<1>8. IndexInv'
  BY <1>1, <1>2, <1>5, <1>6, <1>7, ZenonT(30) DEF IndexInv
<1>9. StoreOnce(vectors)'
  BY <1>1 DEF StoreOnce, ArchivalInv
<1> QED
  BY <1>1, <1>8, <1>9 DEF ArchivalInv

\* What a search falls back on.
LEMMA FallbackListed ==
  ASSUME asking \in ArchivalSearches, NEW lexical \in LexicalOf(asking)
  PROVE  /\ ListsOnce(Fallback(lexical), Ids(asking.candidates))
         /\ asking.candidates # <<>> => Fallback(lexical) # <<>>
BY LexicalListed, CandidatesListed DEF Fallback

LEMMA UnavailableSound ==
  ASSUME ArchivalInv, NEW lexical \in LexicalOf(asking), VectorsUnavailable(lexical)
  PROVE  ArchivalInv'
<1>1. /\ archival_step' = "found" /\ hits' = Cut(Fallback(lexical), ARCHIVAL_TOP_K)
      /\ asking' = asking /\ vectors' = vectors /\ asking \in ArchivalSearches
      /\ StoreOnce(vectors)
  BY DEF VectorsUnavailable, ArchivalInv
<1>2. /\ ListsOnce(Fallback(lexical), Ids(asking'.candidates))
      /\ asking'.candidates # <<>> => Fallback(lexical) # <<>>
  BY <1>1, FallbackListed
<1>3. AnswerOf(asking)'
  BY <1>1, <1>2, AnswerGiven
<1> QED
  BY <1>1, <1>3 DEF ArchivalInv, StoreOnce

\* A ranking by cosine similarity ranks candidates.
LEMMA CosineRanked ==
  ASSUME asking \in ArchivalSearches, StoreOnce(vectors), NEW cosine \in CosineRankings
  PROVE  cosine \in Seq(Nat) /\ Ids(cosine) \subseteq Ids(asking.candidates)
<1> DEFINE stored == {v.id : v \in {w \in Ids(vectors) :
                                      w.id \in Ids(asking.candidates) /\ ~w.zero}}
<1>1. stored \subseteq Ids(asking.candidates) /\ Ids(asking.candidates) \subseteq Nat
  BY CandidatesListed
<1>2. IsFiniteSet(stored)
  <2>1. IsFiniteSet(Ids(asking.candidates))
    <3>1. /\ Ids(asking.candidates) = {asking.candidates[i] : i \in 1..Len(asking.candidates)}
          /\ Len(asking.candidates) \in Nat
      BY CandidatesListed DEF Ids
    <3> QED
      BY <3>1, FewElements
  <2> QED
    BY <1>1, <2>1, FS_Subset
<1>3. CosineRankings = {r \in [1..Cardinality(stored) -> stored] : Ids(r) = stored} \cup {<<>>}
  BY Zenon DEF CosineRankings
<1> HIDE DEF stored
<1>4. Cardinality(stored) \in Nat
  BY <1>2, FS_CardinalityType
<1>5. CASE cosine = <<>>
  BY <1>5 DEF Ids
<1>6. CASE cosine \in [1..Cardinality(stored) -> stored] /\ Ids(cosine) = stored
  BY <1>1, <1>4, <1>6
<1> QED
  BY <1>3, <1>5, <1>6

\* The beginning of any list.
LEMMA CutWithin ==
  ASSUME NEW S, NEW s \in Seq(S), NEW n \in Nat
  PROVE  /\ Cut(s, n) \in Seq(S) /\ Ids(Cut(s, n)) \subseteq Ids(s)
         /\ n > 0 /\ s # <<>> => Cut(s, n) # <<>>
<1> DEFINE m == IF n < Len(s) THEN n ELSE Len(s)
           c == SubSeq(s, 1, m)
<1>1. Cut(s, n) = c
  BY DEF Cut
<1>2. m \in Nat /\ m <= Len(s) /\ Len(s) \in Nat /\ (n > 0 /\ Len(s) > 0 => m > 0)
  OBVIOUS
<1> HIDE DEF m
<1>3. c \in Seq(S) /\ Len(c) = m /\ \A i \in 1..m : c[i] = s[i]
  BY <1>2
<1> HIDE DEF c
<1>4. Ids(c) \subseteq Ids(s)
  BY <1>2, <1>3 DEF Ids
<1>5. n > 0 /\ s # <<>> => c # <<>>
  <2> SUFFICES ASSUME n > 0, s # <<>> PROVE Len(c) > 0
    OBVIOUS
  <2> QED
    BY <1>2, <1>3
<1> QED
  BY <1>1, <1>3, <1>4, <1>5

LEMMA QuerySound ==
  ASSUME ArchivalInv, NEW lexical \in LexicalOf(asking), NEW cosine \in CosineRankings,
         QueryVectors(cosine, lexical)
  PROVE  ArchivalInv'
<1> DEFINE r == IF cosine = <<>> THEN Fallback(lexical)
                ELSE Fused(Cut(cosine, Wider), Cut(lexical, Wider))
<1>1. /\ archival_step' = "found" /\ hits' = Cut(r, ARCHIVAL_TOP_K)
      /\ asking' = asking /\ vectors' = vectors /\ asking \in ArchivalSearches
      /\ StoreOnce(vectors)
  BY DEF QueryVectors, ArchivalInv
<1>2. /\ ListsOnce(r, Ids(asking.candidates))
      /\ asking.candidates # <<>> => r # <<>>
  <2>1. CASE cosine = <<>>
    BY <1>1, <2>1, FallbackListed
  <2>2. CASE cosine # <<>>
    <3> DEFINE e == Cut(cosine, Wider)
               l == Cut(lexical, Wider)
    <3>1. Wider \in Nat /\ Wider > 0
      BY ArchivalSearchAssumption
    <3>2. cosine \in Seq(Nat) /\ Ids(cosine) \subseteq Ids(asking.candidates)
      BY <1>1, CosineRanked
    <3>3. lexical \in Seq(Nat) /\ Ids(lexical) \subseteq Ids(asking.candidates)
      BY <1>1, LexicalListed DEF LexicalOf
    <3>4. e \in Seq(Nat) /\ Ids(e) \subseteq Ids(asking.candidates) /\ e # <<>>
      BY <2>2, <3>1, <3>2, CutWithin
    <3>5. l \in Seq(Nat) /\ Ids(l) \subseteq Ids(asking.candidates)
      BY <3>1, <3>3, CutWithin
    <3>6. r = Fused(e, l)
      BY <2>2
    <3> HIDE DEF e, l, r
    <3>7. ListsOnce(Fused(e, l), InEither(e, l)) /\ Fused(e, l) # <<>>
      BY <3>4, <3>5, FusedLists
    <3>8. InEither(e, l) \subseteq Ids(asking.candidates)
      BY <3>4, <3>5 DEF InEither
    <3> QED
      BY <3>6, <3>7, <3>8, ListsInto
  <2> QED
    BY <2>1, <2>2
<1> HIDE DEF r
<1>3. /\ ListsOnce(r, Ids(asking'.candidates))
      /\ asking'.mode = "hybrid" /\ asking'.candidates # <<>> => r # <<>>
  BY <1>1, <1>2
<1>4. AnswerOf(asking)'
  BY <1>1, <1>3, AnswerGiven
<1> QED
  BY <1>1, <1>4 DEF ArchivalInv, StoreOnce

\* What is found is what ArchivalAnswers promises.
LEMMA AnswersFound ==
  ASSUME ArchivalInv
  PROVE  ArchivalAnswers
<1>1. \A n \in Nat : IsFiniteSet(1..n) /\ Cardinality(1..n) = n
  BY FS_Interval
<1>2. Cardinality({v.id : v \in Ids(vectors)}) = Len(vectors) /\ Len(vectors) <= MaxVectors
  <2> DEFINE I == 1..Len(vectors)
             name == [i \in I |-> vectors[i].id]
  <2>1. /\ vectors \in Seq(StoredVector) /\ Len(vectors) \in Nat /\ DOMAIN vectors = I
        /\ Len(vectors) <= MaxVectors
        /\ \A i, j \in I : name[i] = name[j] => i = j
    BY DEF ArchivalInv, StoreOnce
  <2>2. {v.id : v \in Ids(vectors)} = {name[i] : i \in I}
    BY <2>1 DEF Ids
  <2>3. IsFiniteSet(I) /\ Cardinality(I) = Len(vectors)
    BY <1>1, <2>1, Zenon
  <2>4. \A i, j \in I : name[i] = name[j] => i = j
    BY <2>1
  <2> HIDE DEF I, name
  <2>5. Cardinality({name[i] : i \in I}) = Cardinality(I)
    BY <2>3, <2>4, DistinctElements
  <2> QED
    BY <2>1, <2>2, <2>3, <2>5
<1>3. ASSUME archival_step = "query", Len(asking.candidates) <= MaxVectors,
             NEW p \in Ids(asking.candidates) \ unembedded
      PROVE  StoredText(p) = {asking.text[p]}
  <2>1. asking \in ArchivalSearches /\ IndexInv /\ StoreOnce(vectors)
    BY <1>3 DEF ArchivalInv
  <2>2. Youngest(vectors, Turned(Len(asking.candidates)) \ unembedded, asking.text)
    BY <1>3, <2>1 DEF IndexInv
  <2>3. p \in Turned(Len(asking.candidates)) \ unembedded
    BY <2>1, CandidatesListed DEF Ids, Turned
  <2>4. PICK i \in 1..Len(vectors) : vectors[i].id = p /\ vectors[i].text = asking.text[p]
    BY <2>2, <2>3 DEF Youngest
  <2>5. /\ \A j \in 1..Len(vectors) : vectors[j].id = p => j = i
        /\ DOMAIN vectors = 1..Len(vectors)
    BY <2>1, <2>4 DEF StoreOnce
  <2>6. {w \in Ids(vectors) : w.id = p} = {vectors[i]}
    BY <2>4, <2>5 DEF Ids
  <2> QED
    BY <2>4, <2>6 DEF StoredText
<1>4. ASSUME archival_step = "found"
      PROVE  /\ Cardinality(Ids(hits)) = Len(hits)
             /\ Ids(hits) \subseteq Ids(asking.candidates)
             /\ Len(hits) <= ARCHIVAL_TOP_K
             /\ asking.mode = "hybrid" /\ asking.candidates # <<>> => hits # <<>>
  <2> DEFINE I == 1..Len(hits)
  <2>1. AnswerOf(asking)
    BY <1>4 DEF ArchivalInv
  <2>2. /\ Len(hits) \in Nat /\ hits \in [I -> Ids(asking.candidates)] /\ DOMAIN hits = I
        /\ \A i, j \in I : hits[i] = hits[j] => i = j
    BY <2>1, ListIsSequence DEF AnswerOf
  <2>3. Ids(hits) = {hits[i] : i \in I}
    BY <2>2 DEF Ids
  <2>4. IsFiniteSet(I) /\ Cardinality(I) = Len(hits)
    BY <1>1, <2>2, Zenon
  <2>5. Ids(hits) \subseteq Ids(asking.candidates)
    BY <2>2, <2>3
  <2>6. \A i, j \in I : hits[i] = hits[j] => i = j
    BY <2>2
  <2> HIDE DEF I
  <2>7. Cardinality({hits[i] : i \in I}) = Cardinality(I)
    BY <2>4, <2>6, DistinctElements
  <2> QED
    BY <2>1, <2>3, <2>4, <2>5, <2>7 DEF AnswerOf
<1> QED
  BY <1>2, <1>3, <1>4 DEF ArchivalAnswers

\* A search answers with passages of its scope, each once, at most top_k, and
\* in hybrid mode with something whenever there is something to answer with,
\* whatever the provider does; the store keeps one vector per passage and no
\* more than it may, and indexing one candidate never costs another of the same
\* search its vector while all of them fit.
THEOREM ArchiveAnswers == ArchivalSpec => []ArchivalAnswers
<1>1. ArchivalInit => ArchivalInv
  <2> SUFFICES ASSUME ArchivalInit PROVE ArchivalInv
    OBVIOUS
  <2>1. archival_step = "idle" /\ vectors = <<>>
    BY DEF ArchivalInit
  <2>2. StoreOnce(vectors)
    BY <2>1, ArchivalSearchAssumption DEF StoreOnce
  <2> QED
    BY <2>1, <2>2 DEF ArchivalInv
<1>2. ArchivalInv /\ [ArchivalNext]_archivalVars => ArchivalInv'
  <2> SUFFICES ASSUME ArchivalInv, [ArchivalNext]_archivalVars PROVE ArchivalInv'
    OBVIOUS
  <2>1. ASSUME NEW s \in ArchivalSearches, NEW lexical \in LexicalOf(s),
               SearchPassages(s, lexical)
        PROVE  ArchivalInv'
    BY <2>1, SearchPassagesSound
  <2>2. CASE IndexPassage
    BY <2>2, PassageIndexed
  <2>3. CASE Indexed
    BY <2>3, IndexedSound
  <2>4. ASSUME NEW lexical \in LexicalOf(asking), VectorsUnavailable(lexical)
        PROVE  ArchivalInv'
    BY <2>4, UnavailableSound
  <2>5. ASSUME NEW lexical \in LexicalOf(asking), NEW cosine \in CosineRankings,
               QueryVectors(cosine, lexical)
        PROVE  ArchivalInv'
    BY <2>5, QuerySound
  <2>6. CASE ForgetArchival
    BY <2>6 DEF ForgetArchival, ArchivalInv, StoreOnce
  <2>7. CASE UNCHANGED archivalVars
    <3>1. UNCHANGED <<archival_step, asking, unindexed, unembedded, vectors, hits>>
      BY <2>7 DEF archivalVars
    <3>2. IndexInv => IndexInv'
      <4>1. \A k : Turned(k)' = Turned(k)
        BY <3>1 DEF Turned
      <4>2. \A k : Youngest(vectors, Turned(k) \ unembedded, asking.text)'
                    <=> Youngest(vectors, Turned(k) \ unembedded, asking.text)
        BY <3>1, <4>1 DEF Youngest
      <4> QED
        BY <3>1, <4>1, <4>2 DEF IndexInv
    <3>3. AnswerOf(asking) => AnswerOf(asking)'
      BY <3>1 DEF AnswerOf, Ids
    <3>4. StoreOnce(vectors) => StoreOnce(vectors)'
      BY <3>1 DEF StoreOnce
    <3> QED
      BY <3>1, <3>2, <3>3, <3>4 DEF ArchivalInv
  <2> QED
    BY <2>1, <2>2, <2>3, <2>4, <2>5, <2>6, <2>7 DEF ArchivalNext, ArchivalStep
<1>3. ArchivalInv => ArchivalAnswers
  BY AnswersFound
<1> QED
  BY <1>1, <1>2, <1>3, PTL DEF ArchivalSpec

-------------------------------------------------------------------------------
(***************************************************************************)
(* SourceEvidence: the order in which the items of a context are considered *)
(* is right, what is chosen is a first part of it, and the rest is counted. *)
(***************************************************************************)

\* What is counted from the end of a set of places.
LEMMA FromEnd ==
  ASSUME NEW K, K \subseteq Nat, IsFiniteSet(K), NEW k \in 1..Cardinality(K)
  PROVE  Cardinality({d \in K : Nth(K, k) <= d}) = Cardinality(K) + 1 - k
<1> DEFINE c == Cardinality(K)
           s == [j \in 1..c |-> Nth(K, j)]
<1>1. c \in Nat
  BY FS_CardinalityType
<1>2. /\ \A n \in 1..c : s[n] \in K /\ s[n] \in Nat
      /\ \A m, n \in 1..c : m < n => s[m] < s[n]
      /\ \A i \in K : \E n \in 1..c : i = s[n]
  BY NthPlace
<1> DEFINE Q == {d \in K : Nth(K, k) <= d}
<1>3. k \in 1..c /\ Nth(K, k) = s[k] /\ Q = {d \in K : s[k] <= d}
  OBVIOUS
<1> HIDE DEF c, s, Q
<1>4. \A m, n \in 1..c : s[m] <= s[n] <=> m <= n
  <2> SUFFICES ASSUME NEW m \in 1..c, NEW n \in 1..c PROVE s[m] <= s[n] <=> m <= n
    OBVIOUS
  <2>1. m \in Nat /\ n \in Nat /\ (m < n \/ n < m \/ m = n)
    BY <1>1
  <2> QED
    BY <1>2, <2>1
<1>5. IsFiniteSet(k..c) /\ Cardinality(k..c) = c - k + 1
  BY <1>1, <1>3, FS_Interval
<1> DEFINE J == {s[j] : j \in k..c}
<1>6. Cardinality(J) = Cardinality(k..c)
  <2>1. \A i, j \in k..c : i \in 1..c /\ j \in 1..c
    BY <1>1, <1>3
  <2>2. \A i, j \in k..c : s[i] = s[j] => i = j
    <3> SUFFICES ASSUME NEW i \in k..c, NEW j \in k..c, s[i] = s[j] PROVE i = j
      OBVIOUS
    <3>1. i \in 1..c /\ j \in 1..c /\ s[i] \in Nat /\ s[j] \in Nat
      BY <1>2, <2>1
    <3>2. i <= j /\ j <= i
      BY <1>4, <3>1
    <3> QED
      BY <1>1, <3>1, <3>2
  <2> QED
    BY <1>5, <2>2, DistinctElements
<1>7. J = Q
  <2>1. ASSUME NEW d \in K, s[k] <= d PROVE \E j \in k..c : d = s[j]
    <3>1. PICK j \in 1..c : d = s[j]
      BY <1>2
    <3>2. k <= j
      BY <1>3, <1>4, <2>1, <3>1
    <3> QED
      BY <1>1, <1>3, <3>1, <3>2
  <2>2. ASSUME NEW j \in k..c PROVE s[j] \in K /\ s[k] <= s[j]
    <3>1. j \in 1..c /\ k <= j
      BY <1>1, <1>3, <2>2
    <3> QED
      BY <1>2, <1>3, <1>4, <3>1
  <2> QED
    BY <1>3, <2>1, <2>2
<1> HIDE DEF J
<1>8. Cardinality(Q) = c + 1 - k
  BY <1>1, <1>3, <1>5, <1>6, <1>7
<1> QED
  BY <1>8 DEF c, Q

\* The same for all the places.
FromEndRight(K, c, F, N) ==
    /\ \A i \in K : F[i] \in 1..c /\ N[c + 1 - F[i]] = i
    /\ \A k \in 1..c : N[k] \in K /\ F[N[k]] = c + 1 - k
    /\ \A k, j \in 1..c : k < j => N[k] < N[j]

LEMMA AllFromEnd ==
  ASSUME NEW K, K \subseteq Nat, IsFiniteSet(K), NEW c, c = Cardinality(K),
         NEW F, F = [i \in K |-> Cardinality({d \in K : i <= d})],
         NEW N, N = [k \in 1..c |-> Nth(K, k)]
  PROVE  FromEndRight(K, c, F, N)
<1>1. /\ c \in Nat
      /\ \A n \in 1..c : N[n] \in K
      /\ \A m, n \in 1..c : m < n => N[m] < N[n]
      /\ \A i \in K : \E n \in 1..c : i = N[n]
  BY NthPlace
<1>2. ASSUME NEW k \in 1..c PROVE F[N[k]] = c + 1 - k
  <2>1. N[k] = Nth(K, k) /\ N[k] \in K
    BY <1>1
  <2>2. Cardinality({d \in K : Nth(K, k) <= d}) = c + 1 - k
    BY FromEnd
  <2> QED
    BY <2>1, <2>2
<1>3. ASSUME NEW i \in K PROVE F[i] \in 1..c /\ N[c + 1 - F[i]] = i
  <2>0. PICK k \in 1..c : i = N[k]
    BY <1>1
  <2>1. i = N[k] /\ F[i] = c + 1 - k
    BY <1>2, <2>0
  <2>2. c + 1 - F[i] = k /\ c + 1 - k \in 1..c
    BY <1>1, <2>1
  <2> QED
    BY <2>1, <2>2
<1> QED
  BY <1>1, <1>2, <1>3 DEF FromEndRight

\* The window takes as many archival items of the tail as it has derived ones
\* to give for them, the last ones.
WindowRight(w, s, n, derived, tail, given) ==
    /\ w \in [1..n -> 1..Len(s)] /\ given \subseteq derived
    /\ \A i \in 1..n : IF i \in given THEN w[i] \in tail ELSE w[i] = i
    /\ \A i, j \in 1..n : w[i] = w[j] => i = j
    /\ \A i \in derived : \A j \in given : j < i => i \in given
    /\ IsFiniteSet(given) /\ Cardinality(given) = Smaller(Cardinality(derived), Cardinality(tail))

LEMMA WindowMade ==
  ASSUME NEW S, NEW s \in Seq(S), NEW l, l.max_items \in Nat,
         NEW n, n = Smaller(l.max_items, Len(s)),
         NEW derived, derived = {i \in 1..n : s[i].layer # "archival"},
         NEW tail, tail = {i \in (n + 1)..Len(s) : s[i].layer = "archival"}
  PROVE  \E given : WindowRight(Window(s, l), s, n, derived, tail, given)
<1> DEFINE D == Cardinality(derived)
           T == Cardinality(tail)
           m == Smaller(D, T)
           from_end(i) == Cardinality({d \in derived : i <= d})
           given == {i \in derived : from_end(i) <= T}
           w == Window(s, l)
<1>1. n \in Nat /\ Len(s) \in Nat /\ n <= Len(s)
  BY DEF Smaller
<1>2. IsFiniteSet(1..n) /\ IsFiniteSet((n + 1)..Len(s))
  <2>1. n + 1 \in Int /\ Len(s) \in Int /\ 1 \in Int /\ n \in Int
    BY <1>1
  <2> QED
    BY <2>1, FS_Interval
<1>3. /\ derived \subseteq 1..n /\ tail \subseteq (n + 1)..Len(s)
      /\ \A i \in tail : i \in Nat /\ n < i /\ i <= Len(s)
      /\ derived \subseteq Nat /\ tail \subseteq Nat
      /\ IsFiniteSet(derived) /\ IsFiniteSet(tail)
  <2>1. derived \subseteq 1..n /\ tail \subseteq (n + 1)..Len(s)
    OBVIOUS
  <2>2. \A i \in (n + 1)..Len(s) : i \in Nat /\ n < i /\ i <= Len(s)
    BY <1>1
  <2>3. derived \subseteq Nat
    BY <1>1, <2>1
  <2>4. IsFiniteSet(derived) /\ IsFiniteSet(tail)
    BY <1>2, <2>1, FS_Subset
  <2> QED
    BY <2>1, <2>2, <2>3, <2>4
<1>4. w = [i \in 1..n |-> IF i \in given THEN Nth(tail, T + 1 - from_end(i)) ELSE i]
  BY DEF Window
<1> HIDE DEF w
<1>5. D \in Nat /\ T \in Nat /\ m \in Nat /\ m <= D /\ m <= T /\ (m = D \/ m = T)
  BY <1>3, FS_CardinalityType DEF Smaller
<1>9. /\ \A k \in 1..T : Nth(tail, k) \in tail
      /\ \A k, j \in 1..T : k < j => Nth(tail, k) < Nth(tail, j)
  BY <1>3, NthPlace
<1> DEFINE N == [k \in 1..D |-> Nth(derived, k)]
           F == [i \in derived |-> from_end(i)]
           X == [k \in 1..T |-> Nth(tail, k)]
<1>10. /\ \A i \in derived : F[i] \in 1..D /\ N[D + 1 - F[i]] = i
       /\ \A k \in 1..D : N[k] \in derived /\ F[N[k]] = D + 1 - k
       /\ \A k, j \in 1..D : k < j => N[k] < N[j]
  <2>1. /\ D = Cardinality(derived)
        /\ F = [i \in derived |-> Cardinality({d \in derived : i <= d})]
        /\ N = [k \in 1..D |-> Nth(derived, k)]
    OBVIOUS
  <2> HIDE DEF D, F, N
  <2>2. FromEndRight(derived, D, F, N)
    BY <1>3, <2>1, AllFromEnd
  <2> QED
    BY <2>2 DEF FromEndRight
<1>11. /\ \A k \in 1..T : X[k] \in tail
       /\ \A k, j \in 1..T : k < j => X[k] < X[j]
  BY <1>9
<1>12. given = {i \in derived : F[i] <= T}
  OBVIOUS
<1>13. \A i \in 1..n : w[i] = IF i \in given THEN X[T + 1 - F[i]] ELSE i
  <2> SUFFICES ASSUME NEW i \in 1..n PROVE w[i] = IF i \in given THEN X[T + 1 - F[i]] ELSE i
    OBVIOUS
  <2>1. CASE i \in given
    <3>1. i \in derived /\ F[i] = from_end(i) /\ F[i] <= T
      BY <2>1
    <3>2. F[i] \in 1..D
      BY <1>10, <3>1
    <3> HIDE DEF F
    <3>3. T + 1 - F[i] \in 1..T
      BY <1>5, <3>1, <3>2
    <3>4. w[i] = Nth(tail, T + 1 - F[i])
      BY <1>4, <2>1, <3>1
    <3> QED
      BY <2>1, <3>3, <3>4
  <2>2. CASE i \notin given
    BY <1>4, <2>2
  <2> QED
    BY <2>1, <2>2
<1>14. DOMAIN w = 1..n /\ w = [i \in 1..n |-> w[i]]
  BY <1>4
<1> HIDE DEF D, T, F, N, X, given
<1>15. \A i \in given : i \in derived /\ F[i] \in 1..D /\ T + 1 - F[i] \in 1..T
  <2>1. \A i \in given : i \in derived /\ F[i] \in 1..D /\ F[i] <= T
    BY <1>10, <1>12, Zenon
  <2>2. \A x \in 1..D : x <= T => T + 1 - x \in 1..T
    BY <1>5
  <2> QED
    BY <2>1, <2>2, Zenon
<1>16. \A i \in 1..n : IF i \in given THEN w[i] \in tail ELSE w[i] = i
  BY <1>11, <1>13, <1>15
<1>17. w \in [1..n -> 1..Len(s)]
  <2>1. \A i \in 1..n : w[i] \in 1..Len(s)
    <3> SUFFICES ASSUME NEW i \in 1..n PROVE w[i] \in 1..Len(s)
      OBVIOUS
    <3>1. i \in 1..Len(s) /\ \A x \in tail : x \in 1..Len(s)
      BY <1>1, <1>3
    <3> QED
      BY <1>16, <3>1
  <2> QED
    BY <1>14, <2>1
<1>18. ASSUME NEW i \in given, NEW j \in given, w[i] = w[j] PROVE i = j
  <2>1. i \in 1..n /\ j \in 1..n
    BY <1>3, <1>15
  <2>2. X[T + 1 - F[i]] = X[T + 1 - F[j]]
    BY <1>13, <1>18, <2>1
  <2>3. T + 1 - F[i] = T + 1 - F[j]
    <3>1. ASSUME NEW p \in 1..T, NEW q \in 1..T, X[p] = X[q] PROVE p = q
      <4>1. X[p] \in Nat /\ X[q] \in Nat
        BY <1>3, <1>11
      <4>2. p < q \/ q < p \/ p = q
        BY <1>5
      <4> QED
        BY <1>11, <3>1, <4>1, <4>2
    <3>2. T + 1 - F[i] \in 1..T /\ T + 1 - F[j] \in 1..T
      BY <1>15
    <3> QED
      BY <2>2, <3>1, <3>2
  <2>4. F[i] = F[j]
    <3>1. F[i] \in 1..D /\ F[j] \in 1..D
      BY <1>15
    <3>2. \A a, b \in 1..D : T + 1 - a = T + 1 - b => a = b
      BY <1>5
    <3> QED
      BY <2>3, <3>1, <3>2, Zenon
  <2> QED
    BY <1>10, <1>15, <2>4
<1>19. \A i, j \in 1..n : w[i] = w[j] => i = j
  <2> SUFFICES ASSUME NEW i \in 1..n, NEW j \in 1..n, w[i] = w[j] PROVE i = j
    OBVIOUS
  <2>1. \A x \in tail : x \notin 1..n
    BY <1>1, <1>3
  <2> QED
    BY <1>16, <1>18, <2>1
<1>20. \A i \in derived : \A j \in given : j < i => i \in given
  <2> SUFFICES ASSUME NEW i \in derived, NEW j \in given, j < i PROVE i \in given
    OBVIOUS
  <2> DEFINE a == D + 1 - F[i]
             b == D + 1 - F[j]
  <2>0. F[i] \in 1..D /\ F[j] \in 1..D /\ F[j] <= T /\ N[a] = i /\ N[b] = j
    <3>1. i \in derived /\ j \in derived /\ F[j] <= T
      BY <1>12, <1>15
    <3> QED
      BY <1>10, <3>1
  <2>1. /\ a \in 1..D /\ b \in 1..D /\ N[a] = i /\ N[b] = j
        /\ F[i] \in 1..D /\ F[j] \in 1..D /\ F[j] <= T
    <3>1. \A x \in 1..D : D + 1 - x \in 1..D
      BY <1>5
    <3> QED
      BY <2>0, <3>1
  <2> HIDE DEF a, b
  <2>2. i \in Nat /\ j \in Nat
    BY <1>3, <1>15
  <2>3. b <= a
    <3>1. a < b => N[a] < N[b]
      BY <1>10, <2>1
    <3> QED
      BY <1>5, <2>1, <2>2, <3>1
  <2>4. F[i] <= F[j]
    BY <1>5, <2>1, <2>3 DEF a, b
  <2> QED
    BY <1>5, <1>12, <2>1, <2>4
<1>21. IsFiniteSet(given) /\ Cardinality(given) = m
  <2> DEFINE J == (D - m + 1)..D
  <2>1. \A k \in J : k \in 1..D /\ D + 1 - k <= m
    BY <1>5
  <2>2. IsFiniteSet(J) /\ Cardinality(J) = m
    <3>1. D - m + 1 \in Int /\ D \in Int /\ D - m + 1 <= D + 1
      BY <1>5
    <3>2. IsFiniteSet(J) /\ Cardinality(J) = IF D - m + 1 > D THEN 0 ELSE D - (D - m + 1) + 1
      BY <3>1, FS_Interval
    <3> QED
      BY <1>5, <3>2
  <2>3. \A i, j \in J : N[i] = N[j] => i = j
    <3> SUFFICES ASSUME NEW i \in J, NEW j \in J, N[i] = N[j] PROVE i = j
      OBVIOUS
    <3>1. i \in 1..D /\ j \in 1..D
      BY <2>1
    <3>2. N[i] \in Nat /\ N[j] \in Nat /\ (i < j \/ j < i \/ i = j)
      BY <1>3, <1>5, <1>10, <3>1
    <3> QED
      BY <1>10, <3>1, <3>2
  <2>4. given = {N[k] : k \in J}
    <3>1. ASSUME NEW i \in given PROVE \E k \in J : i = N[k]
      <4>1. i \in derived /\ F[i] \in 1..D /\ F[i] <= T
        BY <1>12, <1>15
      <4>2. F[i] <= m /\ D + 1 - F[i] \in J
        BY <1>5, <4>1
      <4> QED
        BY <1>10, <4>1, <4>2
    <3>2. ASSUME NEW k \in J PROVE N[k] \in given
      <4>1. N[k] \in derived /\ F[N[k]] = D + 1 - k /\ D + 1 - k <= m
        BY <1>10, <2>1
      <4>2. F[N[k]] <= T
        BY <1>5, <2>1, <4>1
      <4> QED
        BY <1>12, <4>1, <4>2
    <3> QED
      BY <3>1, <3>2
  <2> HIDE DEF J
  <2> QED
    BY <2>2, <2>3, <2>4, DistinctElements
<1> QED
  <2>1. given \subseteq derived
    BY <1>12
  <2>2. WindowRight(w, s, n, derived, tail, given)
    BY <1>16, <1>17, <1>19, <1>20, <1>21, <2>1 DEF WindowRight, D, T, m
  <2> QED
    BY <2>2 DEF w

\* p holds the items of s at the places of E, once each: g says which is where.
Rearranges(p, s, E, g) ==
    /\ Len(p) \in Nat /\ DOMAIN p = 1..Len(p) /\ g \in [1..Len(p) -> E]
    /\ \A k \in 1..Len(p) : p[k] = s[g[k]]
    /\ \A i, j \in 1..Len(p) : g[i] = g[j] => i = j
    /\ \A x \in E : \E k \in 1..Len(p) : g[k] = x

\* u is s in another order, in which nothing overtakes what is derived, and the
\* first max_items have as many archival items as there are.
OrderRight(u, s, l, g) ==
    /\ Rearranges(u, s, 1..Len(s), g) /\ Len(u) = Len(s)
    /\ \A i, j \in 1..Len(s) : s[g[i]].layer # "archival" /\ g[j] < g[i] => j < i
    /\ l.max_items <= Len(s) =>
          Cardinality({k \in 1..l.max_items : u[k].layer = "archival"})
            = Smaller(l.max_items, Cardinality({x \in 1..Len(s) : s[x].layer = "archival"}))

LEMMA OrderMade ==
  ASSUME NEW S, NEW s \in Seq(S), NEW l, l.max_items \in Nat
  PROVE  \E g : OrderRight(SelectionOrder(s, l), s, l, g)
<1> DEFINE L == Len(s)
           n == Smaller(l.max_items, L)
           derived == {i \in 1..n : s[i].layer # "archival"}
           tail == {i \in (n + 1)..L : s[i].layer = "archival"}
           w == Window(s, l)
           rest == (1..L) \ Range(w)
           u == SelectionOrder(s, l)
<1>1. L \in Nat /\ n \in Nat /\ n <= L /\ DOMAIN s = 1..L /\ (l.max_items <= L => n = l.max_items)
  BY DEF Smaller
<1>2. PICK given : WindowRight(w, s, n, derived, tail, given)
  BY WindowMade
<1>3. DOMAIN w = 1..n /\ Len(w) = n /\ Range(w) = {w[i] : i \in 1..n} /\ Range(w) \subseteq 1..L
  <2>1. w \in [1..n -> 1..L]
    BY <1>2 DEF WindowRight
  <2> HIDE DEF w, n, L
  <2>2. DOMAIN w = 1..n
    BY <2>1
  <2>3. w \in Seq(1..L) /\ Len(w) = n
    BY <1>1, <2>1
  <2>4. Range(w) = {w[i] : i \in 1..n}
    BY <2>2 DEF Range
  <2>5. Range(w) \subseteq 1..L
    BY <2>1, <2>4
  <2> QED
    BY <2>2, <2>3, <2>4, <2>5
<1>4. u = [i \in 1..L |-> s[IF i <= n THEN w[i] ELSE Nth(rest, i - n)]]
  BY <1>1, <1>3 DEF SelectionOrder
<1>5. /\ given \subseteq derived
      /\ \A i \in 1..n : w[i] \in 1..L /\ (IF i \in given THEN w[i] \in tail ELSE w[i] = i)
      /\ \A i, j \in 1..n : w[i] = w[j] => i = j
      /\ \A i \in derived : \A j \in given : j < i => i \in given
      /\ IsFiniteSet(given) /\ Cardinality(given) = Smaller(Cardinality(derived), Cardinality(tail))
  BY <1>2 DEF WindowRight
<1>6. /\ \A i \in derived : i \in 1..n /\ s[i].layer # "archival"
      /\ \A i \in (1..n) \ derived : s[i].layer = "archival"
      /\ \A i \in tail : i \in (n + 1)..L /\ s[i].layer = "archival"
  OBVIOUS
<1>7. \A i \in (n + 1)..L : s[i].layer = "archival" => i \in tail
  OBVIOUS
<1> DEFINE R == Range(w)
<1> HIDE DEF u, w, rest, n, derived, tail, L
<1>8. IsFiniteSet(1..L) /\ Cardinality(1..L) = L /\ IsFiniteSet(1..n) /\ Cardinality(1..n) = n
  <2>1. 1 \in Int /\ L \in Int /\ n \in Int /\ L >= 0 /\ n >= 0
    BY <1>1
  <2>2. IsFiniteSet(1..L) /\ Cardinality(1..L) = IF 1 > L THEN 0 ELSE L - 1 + 1
    BY <2>1, FS_Interval
  <2>3. IsFiniteSet(1..n) /\ Cardinality(1..n) = IF 1 > n THEN 0 ELSE n - 1 + 1
    BY <2>1, FS_Interval
  <2> QED
    BY <2>1, <2>2, <2>3
<1>9. /\ rest \subseteq 1..L /\ rest \subseteq Nat /\ IsFiniteSet(rest) /\ Cardinality(rest) = L - n
      /\ \A x \in 1..L : x \in rest <=> \A i \in 1..n : x # w[i]
  <2>1. IsFiniteSet(R) /\ Cardinality(R) = n
    <3>1. \A i, j \in 1..n : w[i] = w[j] => i = j
      BY <1>5
    <3>2. R = {w[i] : i \in 1..n}
      BY <1>3 DEF R
    <3> DEFINE I == 1..n
    <3>3. IsFiniteSet(I) /\ Cardinality(I) = n /\ (\A i, j \in I : w[i] = w[j] => i = j)
          /\ R = {w[i] : i \in I}
      BY <1>8, <3>1, <3>2
    <3> HIDE DEF I, R
    <3>4. IsFiniteSet({w[i] : i \in I}) /\ Cardinality({w[i] : i \in I}) = Cardinality(I)
      BY <3>3, DistinctElements
    <3> QED
      BY <3>3, <3>4
  <2>2. rest = (1..L) \ R /\ R \subseteq 1..L
    BY <1>3 DEF rest
  <2>3. (1..L) \cap R = R
    BY <2>2
  <2>4. \A x \in 1..L : x \in rest <=> \A i \in 1..n : x # w[i]
    BY <1>3, <2>2
  <2> HIDE DEF R
  <2>5. IsFiniteSet(rest) /\ Cardinality(rest) = Cardinality(1..L) - Cardinality((1..L) \cap R)
    BY <1>8, <2>2, FS_Difference
  <2>6. rest \subseteq 1..L /\ rest \subseteq Nat
    BY <1>1, <2>2
  <2> QED
    BY <1>8, <2>1, <2>3, <2>4, <2>5, <2>6
<1> DEFINE N == [k \in 1..(L - n) |-> Nth(rest, k)]
           g == [i \in 1..L |-> IF i <= n THEN w[i] ELSE N[i - n]]
<1>10. /\ \A k \in 1..(L - n) : N[k] \in rest
       /\ \A k, m \in 1..(L - n) : k < m => N[k] < N[m]
       /\ \A x \in rest : \E k \in 1..(L - n) : N[k] = x
  BY <1>9, NthPlace
<1>11. \A i \in 1..L : (i <= n /\ i \in 1..n) \/ (~(i <= n) /\ i - n \in 1..(L - n) /\ i > n)
  BY <1>1
<1>12. u = [i \in 1..L |-> s[g[i]]]
  <2>1. \A i \in 1..L : (IF i <= n THEN w[i] ELSE Nth(rest, i - n)) = g[i]
    BY <1>11
  <2> HIDE DEF g
  <2> QED
    BY <1>4, <2>1
<1>13. /\ g \in [1..L -> 1..L]
       /\ \A i \in 1..n : i \in 1..L /\ g[i] = w[i]
       /\ \A k \in 1..(L - n) : k + n \in 1..L /\ g[k + n] = N[k]
       /\ \A i \in 1..L : i \in 1..n \/ \E k \in 1..(L - n) : i = k + n /\ g[i] = N[k]
  <2>1. \A i \in 1..n : i \in 1..L /\ i <= n
    BY <1>1
  <2>2. \A k \in 1..(L - n) : k + n \in 1..L /\ ~(k + n <= n) /\ (k + n) - n = k
    BY <1>1
  <2>3. \A k \in 1..(L - n) : g[k + n] = N[k]
    BY <2>2
  <2>4. \A i \in 1..n : g[i] = w[i]
    BY <2>1
  <2>5. \A i \in 1..L : i \in 1..n \/ \E k \in 1..(L - n) : i = k + n
    BY <1>1, <1>11
  <2>6. \A i \in 1..L : g[i] \in 1..L
    BY <1>5, <1>9, <1>10, <1>11
  <2>7. g \in [1..L -> 1..L]
    BY <2>6
  <2> HIDE DEF g, N
  <2> QED
    BY <2>1, <2>2, <2>3, <2>4, <2>5, <2>7
<1> HIDE DEF g, N
<1>14. \A k \in 1..(L - n) : \A i \in 1..n : N[k] # w[i]
  BY <1>9, <1>10
<1>15. \A k \in 1..(L - n) : N[k] \in 1..L /\ N[k] \in Nat
  BY <1>1, <1>9, <1>10
<1>16. ASSUME NEW i \in 1..L, NEW j \in 1..L, g[i] = g[j] PROVE i = j
  <2>1. CASE i \in 1..n /\ j \in 1..n
    BY <1>5, <1>13, <1>16, <2>1
  <2>2. ASSUME NEW k \in 1..(L - n), i = k + n, NEW m \in 1..(L - n), j = m + n PROVE i = j
    <3>1. N[k] = N[m] /\ k \in Nat /\ m \in Nat /\ N[k] \in Nat /\ N[m] \in Nat
      BY <1>1, <1>13, <1>15, <1>16, <2>2
    <3>2. k = m
      BY <1>10, <3>1
    <3> QED
      BY <2>2, <3>2
  <2> QED
    BY <1>13, <1>14, <1>16, <2>1, <2>2
<1>17. ASSUME NEW x \in 1..L PROVE \E k \in 1..L : g[k] = x
  <2>1. CASE x \in rest
    <3>1. PICK k \in 1..(L - n) : N[k] = x
      BY <1>10, <2>1, Zenon
    <3> QED
      BY <1>13, <3>1, Zenon
  <2>2. CASE x \notin rest
    BY <1>9, <1>13, <2>2
  <2> QED
    BY <2>1, <2>2
<1>18. ASSUME NEW i \in 1..L, NEW j \in 1..L, s[g[i]].layer # "archival", g[j] < g[i]
       PROVE  j < i
  <2>1. i \in Nat /\ j \in Nat
    BY <1>1
  <2>2. CASE i \in 1..n
    <3>1. i \notin given /\ w[i] = i /\ g[i] = i /\ i \in derived
      BY <1>5, <1>6, <1>13, <1>18, <2>2
    <3>2. CASE j \in 1..n
      <4>1. j \in given => w[j] \in tail /\ w[j] > n
        BY <1>1, <1>5, <1>6, <3>2
      <4>2. g[j] = w[j] /\ w[j] < i
        BY <1>13, <1>18, <3>1, <3>2
      <4>3. j \notin given
        <5>1. w[j] \in Nat /\ i \in Nat /\ i <= n
          BY <1>1, <1>5, <2>2, <3>2
        <5> QED
          BY <1>1, <4>1, <4>2, <5>1
      <4> QED
        BY <1>5, <3>2, <4>2, <4>3
    <3>3. ASSUME NEW k \in 1..(L - n), j = k + n PROVE FALSE
      <4>1. N[k] \in 1..L /\ N[k] < i /\ \A h \in 1..n : N[k] # w[h]
        BY <1>13, <1>14, <1>15, <1>18, <3>1, <3>3
      <4>2. N[k] \in 1..n
        BY <1>1, <2>2, <4>1
      <4>3. w[N[k]] # N[k]
        BY <4>1, <4>2
      <4>4. N[k] \in given
        BY <1>5, <4>2, <4>3
      <4> QED
        BY <1>5, <3>1, <4>1, <4>4
    <3> QED
      BY <1>13, <3>2, <3>3
  <2>3. ASSUME NEW k \in 1..(L - n), i = k + n PROVE j < i
    <3>1. CASE j \in 1..n
      BY <1>1, <2>3, <3>1
    <3>2. ASSUME NEW m \in 1..(L - n), j = m + n PROVE j < i
      <4>1. N[m] < N[k] /\ k \in Nat /\ m \in Nat /\ N[k] \in Nat /\ N[m] \in Nat
        <5>1. g[i] = N[k] /\ g[j] = N[m]
          BY <1>13, <2>3, <3>2
        <5>2. k \in Nat /\ m \in Nat
          BY <1>1
        <5> QED
          BY <1>15, <1>18, <5>1, <5>2
      <4>2. m < k
        BY <1>10, <4>1
      <4> QED
        BY <1>1, <2>3, <3>2, <4>1, <4>2
    <3> QED
      BY <1>13, <3>1, <3>2
  <2> QED
    BY <1>13, <2>2, <2>3
<1>19. ASSUME l.max_items <= L
       PROVE  Cardinality({k \in 1..l.max_items : u[k].layer = "archival"})
                = Smaller(l.max_items, Cardinality({x \in 1..L : s[x].layer = "archival"}))
  <2> DEFINE A == {k \in 1..n : u[k].layer = "archival"}
             B == {x \in 1..L : s[x].layer = "archival"}
             K == (1..n) \ derived
             D == Cardinality(derived)
             T == Cardinality(tail)
  <2>1. derived \subseteq 1..n /\ tail \subseteq 1..L /\ given \subseteq 1..n
    BY <1>1, <1>5, <1>6
  <2>2. /\ IsFiniteSet(derived) /\ IsFiniteSet(tail) /\ D \in Nat /\ T \in Nat /\ D <= n
        /\ IsFiniteSet(K) /\ Cardinality(K) = n - D
    <3>1. IsFiniteSet(derived) /\ IsFiniteSet(tail) /\ D <= Cardinality(1..n)
      BY <1>8, <2>1, FS_Subset
    <3>2. IsFiniteSet(K) /\ Cardinality(K) = Cardinality(1..n) - Cardinality((1..n) \cap derived)
      BY <1>8, FS_Difference
    <3>3. (1..n) \cap derived = derived
      BY <2>1
    <3> QED
      BY <1>8, <3>1, <3>2, <3>3, FS_CardinalityType
  <2>3. A = K \cup given /\ K \cap given = {}
    <3>1. \A k \in 1..n : u[k] = s[w[k]]
      BY <1>12, <1>13
    <3>2. \A k \in K : k \in 1..n /\ k \notin given /\ w[k] = k /\ s[k].layer = "archival"
      BY <1>5, <1>6
    <3>3. \A k \in given : k \in 1..n /\ s[w[k]].layer = "archival"
      BY <1>5, <1>6
    <3>4. \A k \in 1..n : k \in derived /\ k \notin given => s[w[k]].layer # "archival"
      BY <1>5, <1>6
    <3> QED
      BY <3>1, <3>2, <3>3, <3>4
  <2>4. B = K \cup tail /\ K \cap tail = {}
    <3>1. \A x \in 1..L : x \in 1..n \/ x \in (n + 1)..L
      BY <1>1
    <3>2. \A x \in tail : x \notin 1..n /\ x \in 1..L
      BY <1>1, <1>6
    <3>3. \A x \in 1..n : x \in 1..L
      BY <1>1
    <3> QED
      BY <1>6, <1>7, <3>1, <3>2, <3>3
  <2>5. n = l.max_items
    BY <1>1, <1>19
  <2> HIDE DEF A, B, K, D, T
  <2>6. Cardinality(A) = (n - D) + Smaller(D, T)
    <3>1. Cardinality(given) = Smaller(D, T) /\ IsFiniteSet(given)
      BY <1>5 DEF D, T
    <3>2. Cardinality(K \cup given) = Cardinality(K) + Cardinality(given) - Cardinality(K \cap given)
      BY <2>2, <3>1, FS_Union
    <3>3. Cardinality(K \cap given) = 0
      BY <2>3, FS_EmptySet
    <3>4. Smaller(D, T) \in Nat
      BY <2>2 DEF Smaller
    <3> QED
      BY <1>1, <2>2, <2>3, <3>1, <3>2, <3>3, <3>4
  <2>7. Cardinality(B) = (n - D) + T
    <3>1. Cardinality(K \cup tail) = Cardinality(K) + Cardinality(tail) - Cardinality(K \cap tail)
      BY <2>2, FS_Union
    <3>2. Cardinality(K \cap tail) = 0
      BY <2>4, FS_EmptySet
    <3>3. Cardinality(tail) = T
      BY DEF T
    <3> QED
      BY <1>1, <2>2, <2>4, <3>1, <3>2, <3>3
  <2>8. Cardinality(A) = Smaller(n, Cardinality(B))
    BY <1>1, <2>2, <2>6, <2>7 DEF Smaller
  <2> QED
    BY <2>5, <2>8 DEF A, B
<1>20. Len(u) = L /\ DOMAIN u = 1..L /\ \A k \in 1..L : u[k] = s[g[k]]
  <2>1. u \in [1..L -> S]
    BY <1>1, <1>12, <1>13
  <2>2. u \in Seq(S) /\ Len(u) = L
    BY <1>1, <2>1
  <2> QED
    BY <1>12, <2>2
<1>21. Rearranges(u, s, 1..L, g)
  BY <1>1, <1>13, <1>16, <1>17, <1>20 DEF Rearranges
<1>22. OrderRight(u, s, l, g)
  BY <1>18, <1>19, <1>20, <1>21 DEF OrderRight, L
<1> QED
  BY <1>22 DEF u

LEMMA RearrangesTwice ==
  ASSUME NEW s, NEW E, NEW p, NEW g, Rearranges(p, s, E, g),
         NEW q, NEW h, Rearranges(q, p, 1..Len(p), h),
         NEW G, G = [k \in 1..Len(q) |-> g[h[k]]]
  PROVE  Rearranges(q, s, E, G)
<1>1. /\ Len(p) \in Nat /\ DOMAIN p = 1..Len(p) /\ g \in [1..Len(p) -> E]
      /\ \A k \in 1..Len(p) : p[k] = s[g[k]]
      /\ \A i, j \in 1..Len(p) : g[i] = g[j] => i = j
      /\ \A x \in E : \E k \in 1..Len(p) : g[k] = x
  BY DEF Rearranges
<1>2. /\ Len(q) \in Nat /\ DOMAIN q = 1..Len(q) /\ h \in [1..Len(q) -> 1..Len(p)]
      /\ \A k \in 1..Len(q) : q[k] = p[h[k]]
      /\ \A i, j \in 1..Len(q) : h[i] = h[j] => i = j
      /\ \A x \in 1..Len(p) : \E k \in 1..Len(q) : h[k] = x
  BY DEF Rearranges
<1>3. \A k \in 1..Len(q) : h[k] \in 1..Len(p) /\ G[k] = g[h[k]]
  BY <1>2
<1>4. G \in [1..Len(q) -> E]
  BY <1>1, <1>3
<1>5. \A k \in 1..Len(q) : q[k] = s[G[k]]
  BY <1>1, <1>2, <1>3
<1>6. \A i, j \in 1..Len(q) : G[i] = G[j] => i = j
  BY <1>1, <1>2, <1>3
<1>7. \A x \in E : \E k \in 1..Len(q) : G[k] = x
  <2> SUFFICES ASSUME NEW x \in E PROVE \E k \in 1..Len(q) : G[k] = x
    OBVIOUS
  <2>1. PICK k \in 1..Len(p) : g[k] = x
    BY <1>1
  <2>2. PICK m \in 1..Len(q) : h[m] = k
    BY <1>2
  <2> QED
    BY <1>3, <2>1, <2>2
<1> QED
  BY <1>2, <1>4, <1>5, <1>6, <1>7 DEF Rearranges

LEMMA RearrangedCount ==
  ASSUME NEW s, NEW E, NEW p, NEW g, Rearranges(p, s, E, g), NEW A, NEW B,
         A = {k \in 1..Len(p) : p[k].layer = "archival"},
         B = {i \in E : s[i].layer = "archival"}
  PROVE  Cardinality(A) = Cardinality(B)
<1>1. /\ Len(p) \in Nat /\ g \in [1..Len(p) -> E]
      /\ \A k \in 1..Len(p) : p[k] = s[g[k]]
      /\ \A i, j \in 1..Len(p) : g[i] = g[j] => i = j
      /\ \A x \in E : \E k \in 1..Len(p) : g[k] = x
  BY DEF Rearranges
<1>2. IsFiniteSet(1..Len(p))
  <2>1. 1 \in Int /\ Len(p) \in Int
    BY <1>1
  <2> QED
    BY <2>1, FS_Interval
<1>3. A \subseteq 1..Len(p)
  OBVIOUS
<1>4. IsFiniteSet(A)
  BY <1>2, <1>3, FS_Subset
<1>5. \A i, j \in A : g[i] = g[j] => i = j
  BY <1>1, <1>3
<1>6. B = {g[k] : k \in A}
  <2>1. ASSUME NEW i \in B PROVE \E k \in A : i = g[k]
    <3>1. PICK k \in 1..Len(p) : g[k] = i
      BY <1>1
    <3> QED
      BY <1>1, <3>1
  <2>2. ASSUME NEW k \in A PROVE g[k] \in B
    BY <1>1, <1>3
  <2> QED
    BY <2>1, <2>2
<1>7. Cardinality({g[k] : k \in A}) = Cardinality(A)
  <2>1. PICK K : K = A
    OBVIOUS
  <2>2. IsFiniteSet(K) /\ \A i, j \in K : g[i] = g[j] => i = j
    BY <1>4, <1>5, <2>1
  <2>3. Cardinality({g[k] : k \in K}) = Cardinality(K)
    BY <2>2, DistinctElements, Zenon
  <2> QED
    BY <2>1, <2>3
<1> QED
  BY <1>6, <1>7

\* What the loop of the build keeps, in the order of the context.
EligibleRight(s, l, g) ==
    /\ Rearranges(Eligible(s, l), s, {i \in DOMAIN s : EligibleItem(s[i], l)}, g)
    /\ \A i, j \in 1..Len(Eligible(s, l)) : i < j => g[i] < g[j]

LEMMA EligibleArranged ==
  ASSUME NEW S, NEW s \in Seq(S), NEW l
  PROVE  Eligible(s, l) \in Seq(S) /\ \E g : EligibleRight(s, l, g)
<1> DEFINE E == {i \in DOMAIN s : EligibleItem(s[i], l)}
           c == Cardinality(E)
           e == Eligible(s, l)
           g == [k \in 1..c |-> Nth(E, k)]
<1>1. E \subseteq 1..Len(s) /\ Len(s) \in Nat
  OBVIOUS
<1>2. e = Kept(s, E)
  BY DEF Eligible
<1> HIDE DEF E, e
<1>0. IsKept(Kept(s, E), s, E, S)
  BY <1>1, PlacesAreKept
<1>3. /\ c \in Nat /\ Kept(s, E) \in Seq(S) /\ Len(Kept(s, E)) = c
      /\ \A n \in 1..c : Nth(E, n) \in E /\ Kept(s, E)[n] = s[Nth(E, n)]
      /\ \A m, n \in 1..c : m < n => Nth(E, m) < Nth(E, n)
      /\ \A i \in E : \E n \in 1..c : i = Nth(E, n)
  BY <1>0 DEF IsKept
<1> HIDE DEF c
<1>4. \A k \in 1..c : g[k] = Nth(E, k) /\ g[k] \in E
  BY <1>3
<1>5. g \in [1..c -> E]
  BY <1>4
<1> HIDE DEF g
<1>6. \A i, j \in 1..c : i < j => g[i] < g[j]
  BY <1>3, <1>4
<1>7. \A i, j \in 1..c : g[i] = g[j] => i = j
  <2> SUFFICES ASSUME NEW i \in 1..c, NEW j \in 1..c, g[i] = g[j] PROVE i = j
    OBVIOUS
  <2>0. \A x \in E : x \in Nat
    BY <1>1
  <2>1. g[i] \in Nat /\ g[j] \in Nat /\ (i < j \/ j < i \/ i = j)
    BY <1>3, <1>4, <2>0
  <2> QED
    BY <1>6, <2>1
<1>8. Len(e) = c /\ e \in Seq(S) /\ DOMAIN e = 1..c
  BY <1>2, <1>3
<1>9. \A k \in 1..c : e[k] = s[g[k]]
  BY <1>2, <1>3, <1>4
<1>10. \A x \in E : \E k \in 1..c : g[k] = x
  BY <1>3, <1>4
<1>11. Rearranges(e, s, E, g)
  BY <1>3, <1>5, <1>7, <1>8, <1>9, <1>10 DEF Rearranges
<1>12. EligibleRight(s, l, g)
  BY <1>6, <1>8, <1>11 DEF EligibleRight, E, e
<1> QED
  BY <1>8, <1>12 DEF e

\* The item at a comes before the one at b: it is current and the other is
\* superseded, or it is earlier and they have the same standing.
GoesBefore(s, l, a, b) ==
    \/ s[a].id \notin l.superseded /\ s[b].id \in l.superseded
    \/ a < b /\ (s[a].id \in l.superseded <=> s[b].id \in l.superseded)

DemotedRight(s, l, h) ==
    /\ Rearranges(Demoted(s, l), s, 1..Len(s), h) /\ Len(Demoted(s, l)) = Len(s)
    /\ \A k, m \in 1..Len(s) : GoesBefore(s, l, h[k], h[m]) => k < m

LEMMA DemotedArranged ==
  ASSUME NEW S, NEW s \in Seq(S), NEW l
  PROVE  Demoted(s, l) \in Seq(S) /\ \E h : DemotedRight(s, l, h)
<1> DEFINE L == Len(s)
           old == {i \in DOMAIN s : s[i].id \in l.superseded}
           new == DOMAIN s \ old
           a == Kept(s, new)
           b == Kept(s, old)
           ca == Cardinality(new)
           cb == Cardinality(old)
           d == Demoted(s, l)
           h == [k \in 1..L |-> IF k <= ca THEN Nth(new, k) ELSE Nth(old, k - ca)]
<1>1. /\ L \in Nat /\ DOMAIN s = 1..L /\ old \subseteq 1..L /\ new = (1..L) \ old
      /\ new \subseteq 1..L
      /\ \A i \in 1..L : i \in old <=> s[i].id \in l.superseded
  OBVIOUS
<1>2. d = a \o b
  BY DEF Demoted
<1> HIDE DEF old, new, d
<1>3. /\ ca \in Nat /\ a \in Seq(S) /\ Len(a) = ca
      /\ \A n \in 1..ca : Nth(new, n) \in new /\ a[n] = s[Nth(new, n)]
      /\ \A m, n \in 1..ca : m < n => Nth(new, m) < Nth(new, n)
      /\ \A i \in new : \E n \in 1..ca : i = Nth(new, n)
  <2>1. IsKept(a, s, new, S)
    BY <1>1, PlacesAreKept
  <2> QED
    BY <2>1 DEF IsKept
<1>4. /\ cb \in Nat /\ b \in Seq(S) /\ Len(b) = cb
      /\ \A n \in 1..cb : Nth(old, n) \in old /\ b[n] = s[Nth(old, n)]
      /\ \A m, n \in 1..cb : m < n => Nth(old, m) < Nth(old, n)
      /\ \A i \in old : \E n \in 1..cb : i = Nth(old, n)
  <2>1. IsKept(b, s, old, S)
    BY <1>1, PlacesAreKept
  <2> QED
    BY <2>1 DEF IsKept
<1>5. ca + cb = L
  <2>1. IsFiniteSet(1..L) /\ Cardinality(1..L) = L
    <3>1. 1 \in Int /\ L \in Int /\ L >= 0
      BY <1>1
    <3>2. IsFiniteSet(1..L) /\ Cardinality(1..L) = IF 1 > L THEN 0 ELSE L - 1 + 1
      BY <3>1, FS_Interval
    <3> QED
      BY <3>1, <3>2
  <2>2. Cardinality(new) = Cardinality(1..L) - Cardinality((1..L) \cap old)
    BY <1>1, <2>1, FS_Difference
  <2>3. (1..L) \cap old = old
    BY <1>1
  <2>4. Cardinality(new) = L - Cardinality(old)
    BY <2>1, <2>2, <2>3
  <2> QED
    BY <1>1, <1>3, <1>4, <2>4
<1> HIDE DEF a, b, ca, cb, L
<1>6. d \in Seq(S) /\ Len(d) = L /\ DOMAIN d = 1..L
      /\ \A k \in 1..L : d[k] = IF k <= ca THEN a[k] ELSE b[k - ca]
  <2>0. a \in Seq(S) /\ b \in Seq(S)
    BY <1>3, <1>4
  <2>1. a \o b \in Seq(S) /\ Len(a \o b) = ca + cb
    BY <1>3, <1>4, <2>0, ConcatProperties
  <2>2. \A k \in 1..(ca + cb) : (a \o b)[k] = IF k <= ca THEN a[k] ELSE b[k - ca]
    <3>1. \A k \in 1..(Len(a) + Len(b)) : (a \o b)[k] = IF k <= Len(a) THEN a[k] ELSE b[k - Len(a)]
      BY <2>0, ConcatProperties
    <3> QED
      BY <1>3, <1>4, <3>1
  <2>3. d \in Seq(S) /\ Len(d) = L /\ \A k \in 1..L : d[k] = IF k <= ca THEN a[k] ELSE b[k - ca]
    BY <1>2, <1>5, <2>1, <2>2
  <2> QED
    BY <2>3
<1>7. /\ \A n \in 1..ca : n \in 1..L /\ n <= ca
      /\ \A n \in 1..cb : n + ca \in 1..L /\ ~(n + ca <= ca) /\ (n + ca) - ca = n
      /\ \A k \in 1..L : k \in 1..ca \/ \E n \in 1..cb : k = n + ca
  <2>1. \A k \in 1..L : k \in 1..ca \/ (k - ca \in 1..cb /\ k = (k - ca) + ca)
    BY <1>3, <1>4, <1>5
  <2> QED
    BY <1>3, <1>4, <1>5, <2>1
<1>8. /\ \A n \in 1..ca : h[n] = Nth(new, n) /\ h[n] \in new
      /\ \A n \in 1..cb : h[n + ca] = Nth(old, n) /\ h[n + ca] \in old
  BY <1>3, <1>4, <1>7
<1>9. h = [k \in 1..L |-> h[k]]
  OBVIOUS
<1> HIDE DEF h
<1>10. \A k \in 1..L : h[k] \in 1..L /\ h[k] \in Nat
  <2>1. \A x \in 1..L : x \in Nat
    BY <1>1
  <2>2. \A k \in 1..L : h[k] \in new \/ h[k] \in old
    BY <1>7, <1>8
  <2> QED
    BY <1>1, <2>1, <2>2
<1>11. h \in [1..L -> 1..L]
  BY <1>9, <1>10
<1>12. \A k \in 1..L : d[k] = s[h[k]]
  <2> SUFFICES ASSUME NEW k \in 1..L PROVE d[k] = s[h[k]]
    OBVIOUS
  <2>1. CASE k \in 1..ca
    BY <1>3, <1>6, <1>7, <1>8, <2>1
  <2>2. ASSUME NEW n \in 1..cb, k = n + ca PROVE d[k] = s[h[k]]
    <3>1. d[k] = b[n] /\ h[k] = Nth(old, n)
      BY <1>6, <1>7, <1>8, <2>2
    <3> QED
      BY <1>4, <3>1
  <2> QED
    BY <1>7, <2>1, <2>2
<1>13. ASSUME NEW k \in 1..L, NEW m \in 1..L, k < m
       PROVE  ~GoesBefore(s, l, h[m], h[k]) /\ h[k] # h[m]
  <2>1. CASE k \in 1..ca /\ m \in 1..ca
    <3>1. h[k] < h[m] /\ h[k] \in new /\ h[m] \in new
      BY <1>3, <1>8, <1>13, <2>1
    <3>2. s[h[k]].id \notin l.superseded /\ s[h[m]].id \notin l.superseded
      BY <1>1, <3>1
    <3> QED
      BY <1>10, <3>1, <3>2 DEF GoesBefore
  <2>2. ASSUME NEW n \in 1..cb, m = n + ca, k \in 1..ca PROVE ~GoesBefore(s, l, h[m], h[k]) /\ h[k] # h[m]
    <3>1. h[k] \in new /\ h[m] \in old
      BY <1>8, <2>2
    <3>2. s[h[k]].id \notin l.superseded /\ s[h[m]].id \in l.superseded
      BY <1>1, <3>1
    <3> QED
      BY <3>2 DEF GoesBefore
  <2>3. ASSUME NEW n \in 1..cb, k = n + ca, m \in 1..ca PROVE FALSE
    BY <1>3, <1>13, <2>3
  <2>4. ASSUME NEW n \in 1..cb, m = n + ca, NEW o \in 1..cb, k = o + ca
        PROVE ~GoesBefore(s, l, h[m], h[k]) /\ h[k] # h[m]
    <3>1. o < n /\ h[k] = Nth(old, o) /\ h[m] = Nth(old, n)
      BY <1>3, <1>8, <1>13, <2>4
    <3>2. h[k] < h[m] /\ h[k] \in old /\ h[m] \in old
      BY <1>4, <3>1
    <3>3. s[h[k]].id \in l.superseded /\ s[h[m]].id \in l.superseded
      BY <1>1, <3>2
    <3> QED
      BY <1>10, <3>2, <3>3 DEF GoesBefore
  <2> QED
    BY <1>7, <2>1, <2>2, <2>3, <2>4
<1>14. \A k, m \in 1..L : k < m \/ m < k \/ k = m
  BY <1>1
<1>15. \A k, m \in 1..L : h[k] = h[m] => k = m
  BY <1>13, <1>14
<1>16. ASSUME NEW k \in 1..L, NEW m \in 1..L, GoesBefore(s, l, h[k], h[m]) PROVE k < m
  <2>1. k # m
    BY <1>10, <1>16 DEF GoesBefore
  <2> QED
    BY <1>13, <1>14, <1>16, <2>1
<1>17. ASSUME NEW x \in 1..L PROVE \E k \in 1..L : h[k] = x
  <2>1. CASE x \in new
    BY <1>3, <1>7, <1>8, <2>1
  <2>2. CASE x \in old
    BY <1>4, <1>7, <1>8, <2>2
  <2> QED
    BY <1>1, <2>1, <2>2
<1>18. Rearranges(d, s, 1..L, h)
  BY <1>1, <1>6, <1>11, <1>12, <1>15, <1>17 DEF Rearranges
<1>19. DemotedRight(s, l, h)
  BY <1>6, <1>16, <1>18 DEF DemotedRight, L, d
<1> QED
  BY <1>6, <1>19 DEF d

\* The order in which the items of s are considered: all that are eligible, once
\* each; nothing that is derived before what is ahead of it; and, in version 2,
\* as many archival items among the first max_items as there are.
Arranged(ord, s, l, G) ==
    /\ Rearranges(ord, s, {i \in DOMAIN s : EligibleItem(s[i], l)}, G)
    /\ \A k, m \in 1..Len(ord) :
          s[G[m]].layer # "archival" /\ GoesBefore(s, l, G[k], G[m]) => k < m
    /\ l.schema = "v2" /\ l.max_items <= Len(ord) =>
          Cardinality({k \in 1..l.max_items : ord[k].layer = "archival"})
            = Smaller(l.max_items, Cardinality({i \in {j \in DOMAIN s : EligibleItem(s[j], l)} :
                                                    s[i].layer = "archival"}))

LEMMA ArrangedMade ==
  ASSUME NEW S, NEW s \in Seq(S), NEW l, l.max_items \in Nat, l.schema \in {"v1", "v2"},
         NEW ord, ord = IF l.schema = "v1" THEN Eligible(s, l)
                        ELSE SelectionOrder(Demoted(Eligible(s, l), l), l)
  PROVE  \E G : Arranged(ord, s, l, G)
<1> DEFINE E == {i \in DOMAIN s : EligibleItem(s[i], l)}
           e == Eligible(s, l)
           d == Demoted(e, l)
           u == SelectionOrder(d, l)
           A == {i \in E : s[i].layer = "archival"}
<1>1. PICK g : EligibleRight(s, l, g)
  BY EligibleArranged
<1>2. /\ Rearranges(e, s, E, g) /\ e \in Seq(S)
      /\ \A i, j \in 1..Len(e) : i < j => g[i] < g[j]
  BY <1>1, EligibleArranged DEF EligibleRight
<1>3. /\ Len(e) \in Nat /\ g \in [1..Len(e) -> E] /\ DOMAIN s \subseteq Nat
      /\ \A k \in 1..Len(e) : e[k] = s[g[k]]
  BY <1>2 DEF Rearranges
<1>4. /\ \A i \in E : i \in DOMAIN s /\ EligibleItem(s[i], l)
  OBVIOUS
<1>5. CASE l.schema = "v1"
  <2>1. ord = e
    BY <1>5
  <2>2. \A i \in E : s[i].layer = "archival"
    BY <1>4, <1>5 DEF EligibleItem, Projected
  <2> HIDE DEF E, e
  <2>3. \A k \in 1..Len(ord) : s[g[k]].layer = "archival"
    BY <1>3, <2>1, <2>2
  <2>4. Arranged(ord, s, l, g)
    BY <1>2, <1>5, <2>1, <2>3 DEF Arranged, E
  <2> QED
    BY <2>4
<1>6. CASE l.schema = "v2"
  <2>1. ord = u
    BY <1>6
  <2> HIDE DEF E, e, d, u
  <2>2. PICK h : DemotedRight(e, l, h)
    BY <1>2, DemotedArranged
  <2>3. /\ Rearranges(d, e, 1..Len(e), h) /\ Len(d) = Len(e) /\ d \in Seq(S)
        /\ \A k, m \in 1..Len(e) : GoesBefore(e, l, h[k], h[m]) => k < m
    BY <1>2, <2>2, DemotedArranged DEF DemotedRight, d
  <2>4. PICK a : OrderRight(u, d, l, a)
    BY <2>3, OrderMade DEF u
  <2>5. /\ Rearranges(u, d, 1..Len(d), a) /\ Len(u) = Len(d)
        /\ \A i, j \in 1..Len(d) : d[a[i]].layer # "archival" /\ a[j] < a[i] => j < i
        /\ l.max_items <= Len(d) =>
              Cardinality({k \in 1..l.max_items : u[k].layer = "archival"})
                = Smaller(l.max_items, Cardinality({x \in 1..Len(d) : d[x].layer = "archival"}))
    BY <2>4 DEF OrderRight
  <2> DEFINE n == Len(e)
             f == [k \in 1..Len(d) |-> g[h[k]]]
             G == [k \in 1..Len(u) |-> f[a[k]]]
  <2>6. Rearranges(d, s, E, f)
    BY <1>2, <2>3, RearrangesTwice
  <2>7. Rearranges(u, s, E, G)
    BY <2>5, <2>6, RearrangesTwice
  <2>8. /\ n \in Nat /\ Len(e) = n /\ Len(d) = n /\ Len(u) = n
        /\ h \in [1..n -> 1..n] /\ a \in [1..n -> 1..n]
        /\ \A k \in 1..n : d[k] = e[h[k]] /\ d[k] = s[f[k]]
        /\ \A i, j \in 1..n : a[i] = a[j] => i = j
    BY <1>3, <2>3, <2>5, <2>6 DEF Rearranges
  <2>9. \A k \in 1..n : f[k] = g[h[k]] /\ G[k] = f[a[k]] /\ a[k] \in 1..n /\ h[k] \in 1..n
    BY <2>8
  <2> HIDE DEF n, f, G
  <2>10. Cardinality({x \in 1..n : d[x].layer = "archival"}) = Cardinality(A)
    <3> DEFINE B == {x \in 1..Len(d) : d[x].layer = "archival"}
    <3>1. B = {x \in 1..Len(d) : d[x].layer = "archival"} /\ A = {i \in E : s[i].layer = "archival"}
      OBVIOUS
    <3> HIDE DEF A, B
    <3>2. Cardinality(B) = Cardinality(A)
      BY <2>6, <3>1, RearrangedCount
    <3> QED
      BY <2>8, <3>2 DEF B
  <2>11. ASSUME NEW i \in 1..n, NEW j \in 1..n, GoesBefore(s, l, g[i], g[j]) PROVE GoesBefore(e, l, i, j)
    <3>1. e[i] = s[g[i]] /\ e[j] = s[g[j]]
      BY <1>3, <2>8
    <3>2. g[i] \in Nat /\ g[j] \in Nat /\ i \in Nat /\ j \in Nat
      <4>1. \A k \in 1..n : k \in Nat /\ g[k] \in E
        BY <1>3, <2>8
      <4>2. \A x \in E : x \in Nat
        BY <1>3, <1>4
      <4> QED
        BY <4>1, <4>2
    <3>3. (j < i => g[j] < g[i]) /\ (i = j => g[i] = g[j])
      BY <1>2, <2>8
    <3>4. g[i] < g[j] => i < j
      BY <3>2, <3>3
    <3> QED
      BY <2>11, <3>1, <3>4 DEF GoesBefore
  <2>12. ASSUME NEW k \in 1..n, NEW m \in 1..n,
                s[G[m]].layer # "archival", GoesBefore(s, l, G[k], G[m])
         PROVE  k < m
    <3>1. /\ G[k] = g[h[a[k]]] /\ G[m] = g[h[a[m]]] /\ a[k] \in 1..n /\ a[m] \in 1..n
          /\ h[a[k]] \in 1..n /\ h[a[m]] \in 1..n
      BY <2>9
    <3>2. GoesBefore(e, l, h[a[k]], h[a[m]])
      BY <2>11, <2>12, <3>1
    <3>3. a[k] < a[m]
      BY <2>3, <2>8, <3>1, <3>2
    <3>4. d[a[m]].layer # "archival"
      <4>1. d[a[m]] = s[f[a[m]]] /\ G[m] = f[a[m]]
        BY <2>8, <2>9, <3>1
      <4> QED
        BY <2>12, <4>1
    <3> QED
      BY <2>5, <2>8, <3>3, <3>4
  <2>13. Arranged(u, s, l, G)
    <3>1. l.max_items <= Len(u) => Cardinality({k \in 1..l.max_items : u[k].layer = "archival"})
                                     = Smaller(l.max_items, Cardinality(A))
      BY <2>5, <2>8, <2>10
    <3> QED
      BY <2>7, <2>8, <2>12, <3>1 DEF Arranged, E, A
  <2> QED
    BY <2>1, <2>13
<1> QED
  BY <1>5, <1>6

\* What is chosen: the first items of the order, and the tokens they take.
ChosenRight(c, t, ord, s, l) ==
    /\ c \in Seq(Range(s)) /\ Len(c) <= Len(ord) /\ Len(c) <= l.max_items
    /\ \A k \in 1..Len(c) : c[k] = ord[k]
    /\ t = Total([i \in DOMAIN c |-> c[i].tokens], Len(c)) /\ t <= l.max_tokens

LEMMA ChosenGrows ==
  ASSUME NEW c, NEW t, NEW ord, NEW s, NEW l, ChosenRight(c, t, ord, s, l),
         \A y \in Range(s) : y.tokens \in Nat, Len(ord) \in Nat,
         l.max_items \in Nat, l.max_tokens \in Nat,
         NEW x \in Range(s), Len(c) + 1 <= Len(ord), x = ord[Len(c) + 1],
         Len(c) < l.max_items, t + x.tokens <= l.max_tokens
  PROVE  ChosenRight(Append(c, x), t + x.tokens, ord, s, l) /\ Len(Append(c, x)) = Len(c) + 1
<1> DEFINE n == Len(c)
           b == Append(c, x)
           f == [i \in DOMAIN c |-> c[i].tokens]
           g == [i \in DOMAIN b |-> b[i].tokens]
<1>1. /\ c \in Seq(Range(s)) /\ n \in Nat /\ DOMAIN c = 1..n
      /\ \A k \in 1..n : c[k] = ord[k] /\ c[k] \in Range(s)
      /\ t = Total(f, n)
  BY DEF ChosenRight
<1>2. /\ b \in Seq(Range(s)) /\ Len(b) = n + 1 /\ DOMAIN b = 1..(n + 1)
      /\ \A i \in 1..n : b[i] = c[i]
      /\ b[n + 1] = x
  BY <1>1
<1>3. n < l.max_items /\ n + 1 <= Len(ord) /\ x = ord[n + 1] /\ t + x.tokens <= l.max_tokens
  OBVIOUS
<1>4. \A i \in 1..n : i \in 1..(n + 1)
  BY <1>1
<1>5. n + 1 \in 1..(n + 1)
  BY <1>1
<1>6. /\ \A i \in 1..n : f[i] \in Nat /\ g[i] = f[i]
      /\ g[n + 1] \in Nat /\ g[n + 1] = x.tokens
  BY <1>1, <1>2, <1>4, <1>5
<1>7. b = Append(c, x)
  OBVIOUS
<1> HIDE DEF n, b, f, g
<1>8. Total(g, n + 1) = Total(f, n) + g[n + 1]
  BY <1>1, <1>6, TotalLast
<1>9. t + x.tokens = Total(g, Len(b))
  BY <1>1, <1>2, <1>6, <1>8
<1>10. \A k \in 1..Len(b) : b[k] = ord[k]
  <2>1. \A k \in 1..(n + 1) : k \in 1..n \/ k = n + 1
    BY <1>1
  <2> QED
    BY <1>1, <1>2, <1>3, <2>1
<1>11. Len(b) <= Len(ord) /\ Len(b) <= l.max_items
  BY <1>1, <1>2, <1>3
<1>12. ChosenRight(b, t + x.tokens, ord, s, l)
  BY <1>2, <1>3, <1>9, <1>10, <1>11 DEF ChosenRight, g
<1> QED
  BY <1>2, <1>12 DEF b, n

LEMMA ChosenShrinks ==
  ASSUME NEW c, NEW t, NEW ord, NEW s, NEW l, ChosenRight(c, t, ord, s, l),
         \A y \in Range(s) : y.tokens \in Nat, Len(ord) \in Nat,
         l.max_items \in Nat, l.max_tokens \in Nat, c # <<>>
  PROVE  /\ ChosenRight(Front(c), t - Last(c).tokens, ord, s, l)
         /\ Len(Front(c)) = Len(c) - 1
<1> DEFINE n == Len(c) - 1
           b == Front(c)
           g == [i \in DOMAIN c |-> c[i].tokens]
           f == [i \in DOMAIN b |-> b[i].tokens]
<1>1. /\ c \in Seq(Range(s)) /\ n \in Nat /\ Len(c) = n + 1 /\ DOMAIN c = 1..(n + 1)
      /\ \A k \in 1..(n + 1) : c[k] = ord[k] /\ c[k] \in Range(s)
      /\ t = Total(g, n + 1) /\ t <= l.max_tokens
      /\ n + 1 <= Len(ord) /\ n + 1 <= l.max_items
  BY DEF ChosenRight
<1>2. /\ b \in Seq(Range(s)) /\ Len(b) = n /\ DOMAIN b = 1..n
      /\ \A i \in 1..n : b[i] = c[i]
  <2>1. b = SubSeq(c, 1, n)
    BY DEF Front
  <2> HIDE DEF b, n
  <2> QED
    BY <1>1, <2>1
<1>3. Last(c) = c[n + 1]
  BY <1>1 DEF Last
<1>4. \A i \in 1..n : i \in 1..(n + 1)
  BY <1>1
<1>5. n + 1 \in 1..(n + 1)
  BY <1>1
<1>6. /\ \A i \in 1..n : f[i] \in Nat /\ g[i] = f[i]
      /\ g[n + 1] \in Nat /\ g[n + 1] = Last(c).tokens
  BY <1>1, <1>2, <1>3, <1>4, <1>5
<1> HIDE DEF n, b, f, g
<1>7. Total(f, n) \in Nat /\ Total(g, n + 1) = Total(f, n) + g[n + 1]
  BY <1>1, <1>6, TotalLast
<1>8. t - Last(c).tokens = Total(f, Len(b)) /\ t - Last(c).tokens <= l.max_tokens
  BY <1>1, <1>2, <1>6, <1>7
<1>9. /\ \A k \in 1..Len(b) : b[k] = ord[k]
      /\ Len(b) <= Len(ord) /\ Len(b) <= l.max_items
  BY <1>1, <1>2, <1>4
<1>10. ChosenRight(b, t - Last(c).tokens, ord, s, l)
  BY <1>2, <1>8, <1>9 DEF ChosenRight, f
<1> QED
  BY <1>1, <1>2, <1>10 DEF b, n

\* From the build on, the order is right for the context, and what is chosen and
\* what is omitted are right for the order.
EvidenceInv ==
    /\ evidence_step \in {"none", "select", "shrink", "answered", "refused"}
    /\ evidence_step = "none" => index = 1 /\ chosen = <<>> /\ evidence_tokens = 0
    /\ evidence_step # "none" =>
          /\ EnvelopeValid(limits, items)
          /\ \E G : Arranged(order, items, limits, G)
          /\ ChosenRight(chosen, evidence_tokens, order, items, limits)
          /\ omitted_count = Len(items) - (IF evidence_step = "select" THEN Len(order)
                                                                       ELSE Len(chosen))
    /\ evidence_step = "select" => index = Len(chosen) + 1
    /\ evidence_step = "answered" => PayloadBytes(chosen) <= limits.max_bytes

\* What every step may use.
LEMMA EvidenceFacts ==
  ASSUME EvidenceInv, evidence_step # "none"
  PROVE  /\ Len(order) \in Nat /\ Len(items) \in Nat /\ Len(chosen) \in Nat
         /\ limits.max_items \in Nat /\ limits.max_tokens \in Nat
         /\ \A y \in Range(items) : y.tokens \in Nat
         /\ \A k \in 1..Len(order) : order[k] \in Range(items)
<1>1. /\ EnvelopeValid(limits, items)
      /\ ChosenRight(chosen, evidence_tokens, order, items, limits)
  BY DEF EvidenceInv
<1>2. PICK G : Arranged(order, items, limits, G)
  BY DEF EvidenceInv
<1>3. /\ Len(order) \in Nat
      /\ G \in [1..Len(order) -> {i \in DOMAIN items : EligibleItem(items[i], limits)}]
      /\ \A k \in 1..Len(order) : order[k] = items[G[k]]
  BY <1>2 DEF Arranged, Rearranges
<1>4. \A k \in 1..Len(order) : G[k] \in DOMAIN items /\ order[k] = items[G[k]]
  BY <1>3
<1>5. \A k \in 1..Len(order) : order[k] \in Range(items)
  BY <1>4 DEF Range
<1>6. items \in Seq(Range(items)) /\ (\A i \in DOMAIN items : items[i].tokens \in Nat)
      /\ {limits.max_items, limits.max_tokens, limits.max_bytes} \subseteq Nat \ {0}
  BY <1>1 DEF EnvelopeValid
<1>7. \A y \in Range(items) : y.tokens \in Nat
  BY <1>6 DEF Range
<1>8. chosen \in Seq(Range(items))
  BY <1>1 DEF ChosenRight
<1>9. Len(items) \in Nat /\ Len(chosen) \in Nat
  BY <1>6, <1>8
<1> QED
  BY <1>3, <1>5, <1>6, <1>7, <1>9

LEMMA EvidenceInitRight == EvidenceInit => EvidenceInv
BY DEF EvidenceInit, EvidenceInv

LEMMA EvidenceStepRight == EvidenceInv /\ [EvidenceNext]_evidenceVars => EvidenceInv'
<1> SUFFICES ASSUME EvidenceInv, [EvidenceNext]_evidenceVars PROVE EvidenceInv'
  OBVIOUS
<1>1. ASSUME NEW e \in EnvelopeRequests, BuildEvidence(e.limits, e.items) PROVE EvidenceInv'
  <2> DEFINE l == e.limits
             s == e.items
  <2>1. EnvelopeValid(l, s)
    BY EvidenceAssumption
  <2>2. /\ l.schema \in {"v1", "v2"} /\ l.max_items \in Nat /\ l.max_tokens \in Nat
        /\ s \in Seq(Range(s))
    BY <2>1 DEF EnvelopeValid
  <2>3. /\ evidence_step = "none" /\ evidence_step' = "select" /\ limits' = l /\ items' = s
        /\ omitted_count' = Len(s) - Len(Eligible(s, l))
        /\ order' = IF l.schema = "v1" THEN Eligible(s, l)
                    ELSE SelectionOrder(Demoted(Eligible(s, l), l), l)
        /\ index' = 1 /\ chosen' = chosen /\ evidence_tokens' = evidence_tokens
    BY <1>1 DEF BuildEvidence
  <2>4. chosen = <<>> /\ evidence_tokens = 0
    BY <2>3 DEF EvidenceInv
  <2> HIDE DEF l, s
  <2>5. PICK ord : ord = order'
    OBVIOUS
  <2>6. PICK G : Arranged(ord, s, l, G)
    BY <2>2, <2>3, <2>5, ArrangedMade
  <2>7. Len(ord) \in Nat /\ Len(ord) = Len(Eligible(s, l))
    <3>1. PICK h : EligibleRight(s, l, h)
      BY <2>2, EligibleArranged
    <3>2. Eligible(s, l) \in Seq(Range(s))
      BY <2>2, EligibleArranged
    <3>3. l.schema = "v1" => ord = Eligible(s, l)
      BY <2>3, <2>5
    <3>4. ASSUME l.schema = "v2" PROVE Len(ord) = Len(Eligible(s, l))
      <4> DEFINE d == Demoted(Eligible(s, l), l)
      <4>1. PICK m : DemotedRight(Eligible(s, l), l, m)
        BY <3>2, DemotedArranged
      <4>2. d \in Seq(Range(s)) /\ Len(d) = Len(Eligible(s, l))
        BY <3>2, <4>1, DemotedArranged DEF DemotedRight
      <4> HIDE DEF d
      <4>3. PICK a : OrderRight(SelectionOrder(d, l), d, l, a)
        BY <2>2, <4>2, OrderMade
      <4>4. Len(SelectionOrder(d, l)) = Len(d)
        BY <4>3 DEF OrderRight
      <4> QED
        BY <2>3, <2>5, <3>4, <4>2, <4>4 DEF d
    <3>5. Len(ord) \in Nat
      BY <2>6 DEF Arranged, Rearranges
    <3> QED
      BY <2>2, <3>3, <3>4, <3>5
  <2>8. ChosenRight(<<>>, 0, ord, s, l)
    <3>1. Total([i \in DOMAIN <<>> |-> <<>>[i].tokens], 0) = 0
      <4> DEFINE f == [i \in DOMAIN <<>> |-> <<>>[i].tokens]
      <4> HIDE DEF f
      <4>1. 0 \in Nat /\ \A i \in 1..0 : f[i] \in Nat
        OBVIOUS
      <4>2. Total(f, 0) = 0
        BY <4>1, TotalGrows
      <4> QED
        BY <4>2 DEF f
    <3> QED
      BY <2>2, <2>7, <3>1 DEF ChosenRight
  <2>9. /\ ChosenRight(chosen', evidence_tokens', order', items', limits')
        /\ EnvelopeValid(limits', items') /\ Arranged(order', items', limits', G)
        /\ omitted_count' = Len(items') - Len(order') /\ index' = Len(chosen') + 1
    BY <2>1, <2>3, <2>4, <2>5, <2>6, <2>7, <2>8
  <2> QED
    BY <2>3, <2>9 DEF EvidenceInv
<1>2. CASE SelectItem
  <2> DEFINE x == order[index]
  <2>1. /\ evidence_step = "select" /\ index <= Len(order)
        /\ Len(chosen) < limits.max_items
        /\ evidence_tokens + x.tokens <= limits.max_tokens
        /\ chosen' = Append(chosen, x) /\ evidence_tokens' = evidence_tokens + x.tokens
        /\ index' = index + 1 /\ evidence_step' = "select" /\ limits' = limits
        /\ items' = items /\ order' = order /\ omitted_count' = omitted_count
    BY <1>2 DEF SelectItem, EnvelopeFits
  <2>2. /\ index = Len(chosen) + 1
        /\ EnvelopeValid(limits, items)
        /\ ChosenRight(chosen, evidence_tokens, order, items, limits)
        /\ omitted_count = Len(items) - Len(order)
    BY <2>1 DEF EvidenceInv
  <2>3. PICK G : Arranged(order, items, limits, G)
    BY <2>1 DEF EvidenceInv
  <2>4. /\ Len(order) \in Nat /\ Len(items) \in Nat /\ Len(chosen) \in Nat
        /\ limits.max_items \in Nat /\ limits.max_tokens \in Nat
        /\ \A y \in Range(items) : y.tokens \in Nat
        /\ \A k \in 1..Len(order) : order[k] \in Range(items)
    BY <2>1, EvidenceFacts
  <2>5. x \in Range(items) /\ x = order[Len(chosen) + 1] /\ Len(chosen) + 1 <= Len(order)
    BY <2>1, <2>2, <2>4
  <2> HIDE DEF x
  <2>6. /\ ChosenRight(Append(chosen, x), evidence_tokens + x.tokens, order, items, limits)
        /\ Len(Append(chosen, x)) = Len(chosen) + 1
    BY <2>1, <2>2, <2>4, <2>5, ChosenGrows
  <2>7. /\ ChosenRight(chosen', evidence_tokens', order', items', limits')
        /\ EnvelopeValid(limits', items') /\ Arranged(order', items', limits', G)
        /\ omitted_count' = Len(items') - Len(order') /\ index' = Len(chosen') + 1
    BY <2>1, <2>2, <2>3, <2>6
  <2> QED
    BY <2>1, <2>7 DEF EvidenceInv
<1>3. CASE EndSelection
  <2>1. /\ evidence_step = "select" /\ evidence_step' = "shrink"
        /\ omitted_count' = omitted_count + Len(order) - (index - 1)
        /\ limits' = limits /\ items' = items /\ order' = order
        /\ chosen' = chosen /\ evidence_tokens' = evidence_tokens
    BY <1>3 DEF EndSelection
  <2>2. /\ index = Len(chosen) + 1
        /\ EnvelopeValid(limits, items)
        /\ ChosenRight(chosen, evidence_tokens, order, items, limits)
        /\ omitted_count = Len(items) - Len(order)
    BY <2>1 DEF EvidenceInv
  <2>3. PICK G : Arranged(order, items, limits, G)
    BY <2>1 DEF EvidenceInv
  <2>4. Len(order) \in Nat /\ Len(items) \in Nat /\ Len(chosen) \in Nat
    BY <2>1, EvidenceFacts
  <2>5. omitted_count' = Len(items) - Len(chosen)
    BY <2>1, <2>2, <2>4
  <2>6. /\ ChosenRight(chosen', evidence_tokens', order', items', limits')
        /\ EnvelopeValid(limits', items') /\ Arranged(order', items', limits', G)
        /\ omitted_count' = Len(items') - Len(chosen')
    BY <2>1, <2>2, <2>3, <2>5
  <2> QED
    BY <2>1, <2>6 DEF EvidenceInv
<1>4. CASE PopItem
  <2>1. /\ evidence_step = "shrink" /\ evidence_step' = "shrink" /\ chosen # <<>>
        /\ omitted_count' = omitted_count + 1
        /\ chosen' = Front(chosen) /\ evidence_tokens' = evidence_tokens - Last(chosen).tokens
        /\ limits' = limits /\ items' = items /\ order' = order
    BY <1>4 DEF PopItem
  <2>2. /\ EnvelopeValid(limits, items)
        /\ ChosenRight(chosen, evidence_tokens, order, items, limits)
        /\ omitted_count = Len(items) - Len(chosen)
    BY <2>1 DEF EvidenceInv
  <2>3. PICK G : Arranged(order, items, limits, G)
    BY <2>1 DEF EvidenceInv
  <2>4. /\ Len(order) \in Nat /\ Len(items) \in Nat /\ Len(chosen) \in Nat
        /\ limits.max_items \in Nat /\ limits.max_tokens \in Nat
        /\ \A y \in Range(items) : y.tokens \in Nat
    BY <2>1, EvidenceFacts
  <2>5. /\ ChosenRight(Front(chosen), evidence_tokens - Last(chosen).tokens, order, items, limits)
        /\ Len(Front(chosen)) = Len(chosen) - 1
    BY <2>1, <2>2, <2>4, ChosenShrinks
  <2>6. omitted_count' = Len(items) - Len(Front(chosen))
    BY <2>1, <2>2, <2>4, <2>5
  <2>7. /\ ChosenRight(chosen', evidence_tokens', order', items', limits')
        /\ EnvelopeValid(limits', items') /\ Arranged(order', items', limits', G)
        /\ omitted_count' = Len(items') - Len(chosen')
    BY <2>1, <2>2, <2>3, <2>5, <2>6
  <2> QED
    BY <2>1, <2>7 DEF EvidenceInv
<1>5. CASE AnswerEvidence
  <2>1. /\ evidence_step = "shrink" /\ evidence_step' \in {"answered", "refused"}
        /\ evidence_step' = "answered" => PayloadBytes(chosen) <= limits.max_bytes
        /\ limits' = limits /\ items' = items /\ order' = order /\ omitted_count' = omitted_count
        /\ chosen' = chosen /\ evidence_tokens' = evidence_tokens
    BY <1>5 DEF AnswerEvidence
  <2>2. /\ EnvelopeValid(limits, items)
        /\ ChosenRight(chosen, evidence_tokens, order, items, limits)
        /\ omitted_count = Len(items) - Len(chosen)
    BY <2>1 DEF EvidenceInv
  <2>3. PICK G : Arranged(order, items, limits, G)
    BY <2>1 DEF EvidenceInv
  <2>4. PayloadBytes(chosen)' = PayloadBytes(chosen)
    BY <2>1 DEF PayloadBytes
  <2>5. /\ ChosenRight(chosen', evidence_tokens', order', items', limits')
        /\ EnvelopeValid(limits', items') /\ Arranged(order', items', limits', G)
        /\ omitted_count' = Len(items') - Len(chosen')
        /\ evidence_step' = "answered" => PayloadBytes(chosen)' <= limits'.max_bytes
    BY <2>1, <2>2, <2>3, <2>4
  <2> QED
    BY <2>1, <2>5 DEF EvidenceInv
<1>6. CASE ForgetEvidence
  BY <1>6 DEF ForgetEvidence, EvidenceInv
<1>7. CASE UNCHANGED evidenceVars
  <2>1. /\ evidence_step' = evidence_step /\ limits' = limits /\ items' = items /\ order' = order
        /\ omitted_count' = omitted_count /\ index' = index
        /\ chosen' = chosen /\ evidence_tokens' = evidence_tokens
    BY <1>7 DEF evidenceVars
  <2>2. PayloadBytes(chosen)' = PayloadBytes(chosen)
    BY <2>1 DEF PayloadBytes
  <2> QED
    BY <2>1, <2>2 DEF EvidenceInv
<1> QED
  BY <1>1, <1>2, <1>3, <1>4, <1>5, <1>6, <1>7 DEF EvidenceNext, EvidenceStep

\* An item of the context is among the chosen ones if its id is.
LEMMA ChosenIs ==
  ASSUME EvidenceInv, evidence_step # "none",
         NEW G, Arranged(order, items, limits, G), NEW i \in EligibleItems
  PROVE  items[i].id \in Chosen <=> \E k \in 1..Len(chosen) : G[k] = i
<1>1. /\ EnvelopeValid(limits, items)
      /\ ChosenRight(chosen, evidence_tokens, order, items, limits)
  BY DEF EvidenceInv
<1>2. /\ Len(order) \in Nat /\ Len(chosen) \in Nat /\ DOMAIN chosen = 1..Len(chosen)
      /\ \A k \in 1..Len(chosen) : k \in 1..Len(order) /\ chosen[k] = order[k]
  <2>1. Len(order) \in Nat /\ Len(chosen) \in Nat
    BY EvidenceFacts
  <2>2. chosen \in Seq(Range(items)) /\ Len(chosen) <= Len(order)
        /\ \A k \in 1..Len(chosen) : chosen[k] = order[k]
    BY <1>1 DEF ChosenRight
  <2> QED
    BY <2>1, <2>2
<1>3. /\ G \in [1..Len(order) -> EligibleItems]
      /\ \A k \in 1..Len(order) : order[k] = items[G[k]]
      /\ \A x \in EligibleItems : \E k \in 1..Len(order) : G[k] = x
  BY DEF Arranged, Rearranges, EligibleItems
<1>4. \A x \in EligibleItems : x \in DOMAIN items /\ items[x].layer \in Projected(limits.schema)
  BY DEF EligibleItems, EligibleItem
<1>5. \A x, y \in EligibleItems : items[x].id = items[y].id => x = y
  BY <1>1, <1>4 DEF EnvelopeValid
<1>6. \A k \in 1..Len(chosen) : G[k] \in EligibleItems /\ chosen[k] = items[G[k]]
  BY <1>2, <1>3
<1>7. Chosen = {chosen[k].id : k \in 1..Len(chosen)}
  BY <1>2 DEF Chosen
<1>8. ASSUME items[i].id \in Chosen PROVE \E k \in 1..Len(chosen) : G[k] = i
  <2>1. PICK k \in 1..Len(chosen) : items[i].id = chosen[k].id
    BY <1>7, <1>8
  <2> QED
    BY <1>5, <1>6, <2>1
<1>9. ASSUME NEW k \in 1..Len(chosen), G[k] = i PROVE items[i].id \in Chosen
  BY <1>6, <1>7, <1>9
<1> QED
  BY <1>8, <1>9

LEMMA EvidenceAnswered == EvidenceInv => EvidenceAddsUp
<1> SUFFICES ASSUME EvidenceInv, evidence_step = "answered" PROVE EvidenceAddsUp
  BY DEF EvidenceAddsUp
<1> DEFINE n == Len(chosen)
           D == EligibleItems \ Archival(EligibleItems)
<1>1. /\ ChosenRight(chosen, evidence_tokens, order, items, limits)
      /\ omitted_count = Len(items) - n /\ PayloadBytes(chosen) <= limits.max_bytes
  BY DEF EvidenceInv
<1>2. PICK G : Arranged(order, items, limits, G)
  BY DEF EvidenceInv
<1>3. Len(order) \in Nat /\ Len(items) \in Nat /\ n \in Nat /\ limits.max_items \in Nat
  BY EvidenceFacts
<1>4. /\ chosen \in Seq(Range(items)) /\ n <= Len(order) /\ n <= limits.max_items
      /\ \A k \in 1..n : chosen[k] = order[k]
      /\ evidence_tokens = Total([i \in DOMAIN chosen |-> chosen[i].tokens], n)
      /\ evidence_tokens <= limits.max_tokens
  BY <1>1 DEF ChosenRight
<1>5. /\ G \in [1..Len(order) -> EligibleItems]
      /\ \A x \in EligibleItems : \E k \in 1..Len(order) : G[k] = x
      /\ \A k, m \in 1..Len(order) :
            items[G[m]].layer # "archival" /\ GoesBefore(items, limits, G[k], G[m]) => k < m
      /\ limits.schema = "v2" /\ limits.max_items <= Len(order) =>
            Cardinality({k \in 1..limits.max_items : order[k].layer = "archival"})
              = Smaller(limits.max_items, Cardinality(Archival(EligibleItems)))
  BY <1>2 DEF Arranged, Rearranges, EligibleItems, Archival
<1>6. \A x \in EligibleItems : items[x].id \in Chosen <=> \E k \in 1..n : G[k] = x
  BY <1>2, ChosenIs
<1>7. \A x \in D : x \in EligibleItems /\ items[x].layer # "archival"
  BY DEF Archival
<1>8. n + omitted_count = Len(items)
  BY <1>1, <1>3
<1>9. limits.schema = "v2" /\ n = limits.max_items =>
         Cardinality({i \in DOMAIN chosen : chosen[i].layer = "archival"})
           = Smaller(limits.max_items, Cardinality(Archival(EligibleItems)))
  <2>1. {i \in DOMAIN chosen : chosen[i].layer = "archival"}
          = {k \in 1..n : order[k].layer = "archival"}
    BY <1>4
  <2> QED
    BY <1>4, <1>5, <2>1
<1>10. ASSUME NEW i \in EligibleItems, NEW j \in D, GoesBefore(items, limits, i, j),
              items[j].id \in Chosen
       PROVE  items[i].id \in Chosen
  <2>1. PICK m \in 1..n : G[m] = j
    BY <1>6, <1>7, <1>10
  <2>2. PICK k \in 1..Len(order) : G[k] = i
    BY <1>5
  <2>3. m \in 1..Len(order)
    BY <1>3, <1>4
  <2>4. k < m
    BY <1>5, <1>7, <1>10, <2>1, <2>2, <2>3
  <2>5. k \in 1..n
    BY <1>3, <2>4
  <2> QED
    BY <1>6, <2>2, <2>5
<1>11. \A i, j \in D :
          /\ i < j
          /\ items[i].id \in limits.superseded <=> items[j].id \in limits.superseded
          /\ items[j].id \in Chosen
          => items[i].id \in Chosen
  BY <1>7, <1>10 DEF GoesBefore
<1>12. \A i \in D, j \in EligibleItems :
          items[i].id \in limits.superseded /\ items[i].id \in Chosen
            => items[j].id \in limits.superseded \cup Chosen
  BY <1>7, <1>10 DEF GoesBefore
<1> QED
  BY <1>1, <1>4, <1>8, <1>9, <1>11, <1>12 DEF EvidenceAddsUp

\* An envelope accounts for every item of the context, keeps its bounds, keeps
\* the archival passages it can, and leaves out nobody for who comes after them
\* (build_source_evidence and _build_source_evidence_v2, for every context that
\* recalls each message and each passage once).
THEOREM EvidenceSound == EvidenceSpec => []EvidenceAddsUp
<1>1. EvidenceInit => EvidenceInv
  BY EvidenceInitRight
<1>2. EvidenceInv /\ [EvidenceNext]_evidenceVars => EvidenceInv'
  BY EvidenceStepRight
<1>3. EvidenceInv => EvidenceAddsUp
  BY EvidenceAnswered
<1> QED
  BY <1>1, <1>2, <1>3, PTL DEF EvidenceSpec
===============================================================================
