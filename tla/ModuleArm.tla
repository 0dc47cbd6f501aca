------------------------------- MODULE ModuleArm -------------------------------
(***************************************************************************)
(* An arm of ModuleMem for one module (_run_module_arm, modulemem.py): the   *)
(* memories a replay left behind (CurateHost), or the gold ones, become the  *)
(* memory file of the owner, within a budget; other arms hand over the tail  *)
(* of the log or all of it.  The replay is scored against the gold, and the  *)
(* owner's tasks are put to the evidence.                                    *)
(*                                                                           *)
(* A module is [id, activities, golds, lesson_of, tasks, excluded]; an       *)
(* activity is [type, tokens, contract, version], numbered by its seq.  What *)
(* a replay may leave is any of "Replays": memories, with their status, and  *)
(* the target each failure was assigned.                                     *)
(***************************************************************************)
EXTENDS WriteSide

CONSTANTS
    Modules,         \* the modules of a run
    Replays,         \* module -> what curate_module may return: [memories, target]
    PackBudget, RecentActivities,
    NoLesson, Unaccounted, NoModule

ModuleArmNames == {"pack", "oracle_pack", "recent", "raw_log", "full_history"}
FAILURE_TYPES == {"review_objection", "gate_failure"}

FailuresOf(mod) == {n \in DOMAIN mod.activities : mod.activities[n].type \in FAILURE_TYPES}

\* Memories, or gold ones: told apart by their ids, and none of them a contract.
MemoriesValid(M) ==
    /\ IsFiniteSet(M)
    /\ \A v \in M :
          /\ v.id \in Nat /\ v.occurrences \in Nat /\ v.tokens \in Nat /\ v.kind # "contract"
          /\ IsFiniteSet(v.sources) /\ v.statement \in DOMAIN WordsOf
    /\ \A v, w \in M : v.id = w.id => v = w

\* What _validate_module sees to; a failure is given to at most one gold lesson.
ModuleValid(mod) ==
    /\ mod.activities \in Seq([type : STRING, tokens : Nat, contract : Nat, version : Nat])
    /\ MemoriesValid(mod.golds)
    /\ \A g \in mod.golds : g.sources # {} /\ g.sources \subseteq DOMAIN mod.activities
    /\ DOMAIN mod.lesson_of = FailuresOf(mod)

\* A failure is assigned, dismissed or unaccounted for (CurateGraph!AccountedOnce).
ReplayValid(mod, replay) ==
    /\ MemoriesValid(replay.memories) /\ \A v \in replay.memories : v.version \in Nat
    /\ DOMAIN replay.target = FailuresOf(mod)

ASSUME ModuleArmAssumption ==
    /\ PackBudget \in Nat /\ RecentActivities \in Nat \ {0} /\ NoLesson # Unaccounted
    /\ \A mod \in Modules :
          ModuleValid(mod) /\ \A replay \in Replays[mod.id] : ReplayValid(mod, replay)

VARIABLES
    mod_run,      \* [arm, module, memories, target], or NoModule
    mod_step,     \* "none", "render", "log", "tasks"
    mod_todo,     \* memories or activities that are still to be considered
    mod_items,    \* the evidence: memories or numbers of activities, in order
    mod_spent,    \* tokens of the items that are budgeted
    mod_omitted,  \* memories that did not fit
    mod_rows,     \* [task, requirement, label]
    mod_write     \* how the replay was scored, or <<>>

modVars == <<mod_run, mod_step, mod_todo, mod_items, mod_spent, mod_omitted, mod_rows, mod_write>>

-------------------------------------------------------------------------------
Revisions(mod) ==
    {n \in DOMAIN mod.activities : mod.activities[n].type = "contract_revision"}

\* Mutant of CurrentContracts: the last revision, whatever its version.
LastContracts(mod) ==
    {n \in Revisions(mod) : \A m \in Revisions(mod) :
        mod.activities[m].contract = mod.activities[n].contract => m <= n}

\* current_contracts: of one version, the first activity.
CurrentContracts(mod) ==
    {n \in Revisions(mod) : \A m \in Revisions(mod) \ {n} :
        mod.activities[m].contract = mod.activities[n].contract =>
           \/ mod.activities[m].version < mod.activities[n].version
           \/ mod.activities[m].version = mod.activities[n].version /\ n < m}

IsLesson(v) == v.kind = "lesson"

\* The order of render_module_memory: lessons by their failures, then what is
\* newest.
AheadInFile(v, w) ==
    \/ IsLesson(v) /\ ~IsLesson(w)
    \/ /\ IsLesson(v) = IsLesson(w)
       /\ \/ IsLesson(v) /\ v.occurrences > w.occurrences
          \/ /\ IsLesson(v) => v.occurrences = w.occurrences
             /\ v.version > w.version \/ (v.version = w.version /\ v.id < w.id)

\* What is looked at next: the best memory, or the newest activity.
NextMemory == CHOOSE v \in mod_todo : \A w \in mod_todo \ {v} : AheadInFile(v, w)
NextActivity == CHOOSE n \in mod_todo : \A m \in mod_todo : m <= n

TokensOfActivity(n) == mod_run.module.activities[n].tokens

Ascending(S) == [k \in 1..Cardinality(S) |-> Nth(S, k)]

ContractItems(mod) ==
    LET newest(c) == CHOOSE n \in CurrentContracts(mod) : mod.activities[n].contract = c
        ids       == Ascending({mod.activities[n].contract : n \in CurrentContracts(mod)})
    IN  [k \in DOMAIN ids |-> [kind |-> "contract", id |-> newest(ids[k])]]

\* _gold_memories: the gold as memories, each of the version of its last source.
GoldMemories(mod) ==
    {[id |-> g.id, kind |-> g.kind, topic |-> g.topic, statement |-> g.statement,
      sources |-> g.sources, version |-> Max(g.sources), occurrences |-> g.occurrences,
      tokens |-> g.tokens,
      status |-> IF g.superseded_by # 0 THEN "superseded" ELSE "active"] : g \in mod.golds}

\* Two failures of one lesson.
SameLesson(target, pair) ==
    LET targets == {target[n] : n \in pair}
    IN  Cardinality(targets) = 1 /\ targets \cap {NoLesson, Unaccounted} = {}

AssignedTo(target, t) == {n \in DOMAIN target : target[n] = t}

\* accounting_metrics: the failures' assignments against the gold lessons.
Accounting(mod, target) ==
    LET failures    == FailuresOf(mod)
        pairs       == {p \in SUBSET failures : Cardinality(p) = 2}
        together    == {p \in pairs : SameLesson(target, p)}
        gold        == {p \in pairs : SameLesson(mod.lesson_of, p)}
        dismissed   == AssignedTo(target, NoLesson)
        unaccounted == AssignedTo(target, Unaccounted)
        no_lesson   == AssignedTo(mod.lesson_of, NoLesson)
    IN  [failures |-> Cardinality(failures), unaccounted |-> Cardinality(unaccounted),
         dismissed |-> Cardinality(dismissed),
         dismissed_gold_lesson |-> Cardinality(dismissed \ no_lesson),
         lesson_gold_dismiss |-> Cardinality(no_lesson \ (dismissed \cup unaccounted)),
         pair_tp |-> Cardinality(together \cap gold),
         pair_fp |-> Cardinality(together \ gold), pair_fn |-> Cardinality(gold \ together)]

\* _write_side: the active memories against the current gold, and once more
\* against the superseded.
ReplayScore(mod, memories) ==
    LET current == {g \in mod.golds : g.superseded_by = 0}
        matches == Matches(Active(memories), current)
        lessons == {p \in matches : IsLesson(p[2])}
        repeated == {g \in mod.golds : IsLesson(g) /\ g.occurrences >= 2}
    IN  [active_memories |-> Cardinality(Active(memories)),
         current_gold |-> Cardinality(current), matched_current |-> Cardinality(matches),
         matched_lessons |-> Cardinality(lessons),
         gold_lessons |-> Cardinality({g \in mod.golds : IsLesson(g)}),
         exact |-> Cardinality({p \in lessons : p[1].occurrences = p[2].occurrences}),
         over |-> Cardinality({p \in lessons : p[1].occurrences > p[2].occurrences}),
         repeated |-> Cardinality(repeated),
         recognized |->
             Cardinality({g \in repeated : \E v \in MatchedTo(matches, g) : v.occurrences >= 2}),
         superseded_gold |-> Cardinality({g \in Superseded(mod.golds) : ~IsLesson(g)}),
         stale_active |-> Cardinality(Matches(Active(memories), Superseded(mod.golds)))]

-------------------------------------------------------------------------------
MemoriesFor(arm, mod, replay) ==
    CASE arm = "pack" -> replay.memories
      [] arm = "oracle_pack" -> GoldMemories(mod)
      [] OTHER -> {}

BeginModule(arm, mod, replay) ==
    /\ mod_step = "none"
    /\ LET memories   == MemoriesFor(arm, mod, replay)
           everything == DOMAIN mod.activities
           count      == Cardinality(everything)
       IN  /\ mod_run' = [arm |-> arm, module |-> mod, memories |-> memories,
                          target |-> replay.target]
           /\ mod_step' = CASE arm \in {"pack", "oracle_pack"} -> "render"
                            [] arm = "raw_log" -> "log"
                            [] OTHER -> "tasks"
           /\ mod_todo' = CASE arm \in {"pack", "oracle_pack"} -> Active(memories)
                            [] arm = "raw_log" -> everything
                            [] OTHER -> {}
           /\ mod_items' = CASE arm = "full_history" -> Ascending(everything)
                             [] arm = "recent" ->
                                  Ascending({n \in everything : n > count - RecentActivities})
                             [] arm = "raw_log" -> <<>>
                             [] OTHER -> ContractItems(mod)
    /\ UNCHANGED <<mod_spent, mod_omitted, mod_rows, mod_write>>

\* A memory that does not fit is left out; a smaller one may still follow.
ConsiderMemory ==
    /\ mod_step = "render" /\ mod_todo # {}
    /\ LET v == NextMemory
       IN  /\ mod_todo' = mod_todo \ {v}
           /\ IF mod_spent + v.tokens > PackBudget
                THEN /\ mod_omitted' = mod_omitted \cup {v}
                     /\ UNCHANGED <<mod_items, mod_spent>>
                ELSE /\ mod_items' = Append(mod_items, v)
                     /\ mod_spent' = mod_spent + v.tokens
                     /\ UNCHANGED mod_omitted
    /\ UNCHANGED <<mod_run, mod_step, mod_rows, mod_write>>

\* The log is kept from its end up to the first activity that does not fit.
ConsiderActivity ==
    /\ mod_step = "log" /\ mod_todo # {}
    /\ LET n == NextActivity
       IN  IF mod_spent + TokensOfActivity(n) > PackBudget
             THEN mod_todo' = {} /\ UNCHANGED <<mod_items, mod_spent>>
             ELSE /\ mod_todo' = mod_todo \ {n}
                  /\ mod_items' = <<n>> \o mod_items
                  /\ mod_spent' = mod_spent + TokensOfActivity(n)
    /\ UNCHANGED <<mod_run, mod_step, mod_omitted, mod_rows, mod_write>>

EvidenceReady ==
    /\ mod_step \in {"render", "log"} /\ mod_todo = {}
    /\ mod_step' = "tasks"
    /\ mod_write' = IF mod_run.arm = "pack"
                      THEN [replay |-> ReplayScore(mod_run.module, mod_run.memories),
                            accounting |-> Accounting(mod_run.module, mod_run.target)]
                      ELSE <<>>
    /\ UNCHANGED <<mod_run, mod_todo, mod_items, mod_spent, mod_omitted, mod_rows>>

TasksLeft ==
    DOMAIN mod_run.module.tasks
        \ (mod_run.module.excluded \cup {row.task : row \in mod_rows})

\* _run_tasks: a row for each requirement; what the judge does not label is
\* "not_addressed".  A task the seed cannot host is passed over.
RunTask(labels) ==
    /\ mod_step = "tasks" /\ TasksLeft # {}
    /\ LET t            == Min(TasksLeft)
           requirements == mod_run.module.tasks[t]
       IN  mod_rows' = mod_rows \cup
               {[task |-> t, requirement |-> q,
                 label |-> IF q \in DOMAIN labels THEN labels[q] ELSE "not_addressed"] :
                    q \in requirements}
    /\ UNCHANGED <<mod_run, mod_step, mod_todo, mod_items, mod_spent, mod_omitted, mod_write>>

FinishModule ==
    /\ mod_step = "tasks" /\ TasksLeft = {}
    /\ mod_run' = NoModule /\ mod_step' = "none"
    /\ mod_items' = <<>> /\ mod_spent' = 0 /\ mod_omitted' = {} /\ mod_rows' = {}
    /\ mod_write' = <<>>
    /\ UNCHANGED mod_todo

ModuleInit ==
    /\ mod_run = NoModule /\ mod_step = "none" /\ mod_todo = {} /\ mod_items = <<>>
    /\ mod_spent = 0 /\ mod_omitted = {} /\ mod_rows = {} /\ mod_write = <<>>

StartModule ==
    \E arm \in ModuleArmNames, mod \in Modules : \E replay \in Replays[mod.id] :
        BeginModule(arm, mod, replay)

Requirements == UNION {UNION {mod.tasks[t] : t \in DOMAIN mod.tasks} : mod \in Modules}

\* The judge labels any of the requirements.
ModuleStep ==
    \/ ConsiderMemory \/ ConsiderActivity \/ EvidenceReady
    \/ \E labelled \in SUBSET Requirements : RunTask([q \in labelled |-> "satisfied"])
    \/ FinishModule

ModuleNext == StartModule \/ ModuleStep

ModuleSpec == ModuleInit /\ [][ModuleNext]_modVars

-------------------------------------------------------------------------------
FileArm == mod_run.arm \in {"pack", "oracle_pack"}

MemoryPlaces(items) == {k \in DOMAIN items : items[k].kind # "contract"}
PlacesBefore(items, v) == {k \in MemoryPlaces(items) : AheadInFile(items[k], v)}
InFile == {mod_items[k] : k \in MemoryPlaces(mod_items)}

TokensAt(items, K) ==
    Total([k \in DOMAIN items |-> IF k \in K THEN items[k].tokens ELSE 0], Len(items))

TokensOfLog == Total([k \in DOMAIN mod_items |-> TokensOfActivity(mod_items[k])], Len(mod_items))

\* The file has the newest revision of every contract and then the active
\* memories in their order, within the budget: one is left out only if it does
\* not fit behind those kept ahead of it (render_module_memory).  The raw log
\* is the longest end of the log within the budget (_raw_log).
EvidenceRight ==
    /\ FileArm =>
         /\ \A n \in Revisions(mod_run.module) : \E k \in DOMAIN mod_items :
              LET item == mod_items[k] IN
              /\ item.kind = "contract"
              /\ mod_run.module.activities[item.id].contract = mod_run.module.activities[n].contract
              /\ mod_run.module.activities[item.id].version >= mod_run.module.activities[n].version
         /\ InFile \cup mod_omitted = Active(mod_run.memories) /\ InFile \cap mod_omitted = {}
         /\ TokensAt(mod_items, MemoryPlaces(mod_items)) <= PackBudget
         /\ \A v \in mod_omitted :
              TokensAt(mod_items, PlacesBefore(mod_items, v)) + v.tokens > PackBudget
         /\ \A i, k \in DOMAIN mod_items : i < k =>
              \/ mod_items[i].kind = "contract"
              \/ mod_items[k].kind # "contract" /\ AheadInFile(mod_items[i], mod_items[k])
    /\ mod_run.arm = "raw_log" =>
         LET first == Len(mod_run.module.activities) - Len(mod_items) + 1
         IN  /\ \A k \in DOMAIN mod_items : mod_items[k] = first + k - 1
             /\ TokensOfLog <= PackBudget
             /\ first > 1 => TokensOfLog + TokensOfActivity(first - 1) > PackBudget

\* Lessons recognized are lessons matched, and no more gold memories are matched
\* than there are (_write_side).
ReplayCountsAgree(replay, golds) ==
    /\ replay.exact + replay.over <= replay.matched_lessons
    /\ replay.recognized <= replay.repeated
    /\ replay.matched_lessons <= replay.gold_lessons
    /\ replay.matched_current <= replay.current_gold
    /\ replay.matched_current <= replay.active_memories
    /\ (\A g \in Superseded(golds) : ~IsLesson(g)) =>
          replay.stale_active <= replay.superseded_gold

\* Every failure is assigned, dismissed or unaccounted for (accounting_metrics).
AccountingAgrees(accounting) ==
    /\ accounting.lesson_gold_dismiss + accounting.dismissed + accounting.unaccounted
          <= accounting.failures
    /\ accounting.dismissed_gold_lesson <= accounting.dismissed

\* How the counts of a replay bound each other, and no pair of failures is
\* misjudged when each is assigned as the gold has it.
ReplayScoresAgree ==
    mod_run.arm = "pack" =>
        /\ ReplayCountsAgree(mod_write.replay, mod_run.module.golds)
        /\ AccountingAgrees(mod_write.accounting)
        /\ mod_run.target = mod_run.module.lesson_of =>
              mod_write.accounting.pair_fp = 0 /\ mod_write.accounting.pair_fn = 0

\* What the owner is given is right when the tasks begin, and what is reported
\* of the replay adds up (_run_module_arm).
ModuleArmRight == mod_step = "tasks" => EvidenceRight /\ ReplayScoresAgree
===============================================================================
