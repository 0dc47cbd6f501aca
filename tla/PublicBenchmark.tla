---------------------------- MODULE PublicBenchmark ----------------------------
(***************************************************************************)
(* run_public_benchmark (public_benchmarks.py): every case is put to every  *)
(* baseline, and after each case the rows so far are written to a partial   *)
(* report; a process that dies is started again and goes on after the cases *)
(* of that report, a run that is complete answers with its report.  A file  *)
(* is opened, which empties it, and then written, so that a death in        *)
(* between leaves one that cannot be read.                                  *)
(*                                                                         *)
(* An exception that no handler meets (a baseline that raises) ends the     *)
(* process as a death does.                                                 *)
(***************************************************************************)
EXTENDS Integers, Sequences, SequencesExt, FiniteSets

CONSTANTS
    Cases,          \* public_cases: [id, task: tokens, new_session: BOOLEAN,
                    \*                messages: <<[id, tokens]>>]
    Baselines,      \* expanded_baselines, in order
    BM25,           \* what BM25 ranks for a case: ids of its messages, by case id
    Budget,         \* run_settings.rot_safe_budget
    Absent, Torn,   \* a file that does not exist, one that cannot be read
    MaxBenchDeaths  \* bound on deaths of the process

ASSUME PublicBenchmarkAssumption ==
    /\ Cases \in Seq(Range(Cases))
    /\ \A i, j \in DOMAIN Cases : Cases[i].id = Cases[j].id => i = j
    /\ Baselines # <<>>
    /\ Baselines \in Seq({"sliding_window", "naive_summary", "vector_rag", "memoryos_lite"})
    /\ \A i, j \in DOMAIN Baselines : Baselines[i] = Baselines[j] => i = j
    /\ Budget \in Nat /\ MaxBenchDeaths \in Nat

VARIABLES
    bench_step,     \* "down", "baseline", "context" (memoryos_lite has filled its store),
                    \* "case", "partial", "mapping", "write_mapping", "report",
                    \* "returned", "raised"
    results,
    position,       \* [case, baseline]: what comes next
    store_case,         \* the store of the run: NoCase or the id of the case it holds
    rot_safe_budget_set,    \* run_settings.rot_safe_budget
    source_mapping,         \* ids of the cases collected by this process
    partial_report, report, mapping_file,
    bench_deaths

benchVars == <<bench_step, results, position, store_case, rot_safe_budget_set, source_mapping,
               partial_report, report, mapping_file, bench_deaths>>

NoCase == "none"
First == [case |-> 1, baseline |-> 1]
Case == Cases[position.case]
Baseline == Baselines[position.baseline]

-------------------------------------------------------------------------------
TokensOf(messages) == FoldSeq(LAMBDA x, sum : sum + x.tokens, 0, messages)
MessageIds(messages) == [i \in DOMAIN messages |-> messages[i].id]
AtMost(s, n) == SubSeq(s, 1, IF n < Len(s) THEN n ELSE Len(s))
LastOf(s, n) == SubSeq(s, IF n < Len(s) THEN Len(s) - n + 1 ELSE 1, Len(s))

\* _fit_ranked_messages and _fit_text_items_newest_first: what does not fit is
\* passed over, what comes later may still fit.
Fit(messages, used, budget) ==
    LET step(kept, x) == IF used + TokensOf(kept) + x.tokens <= budget
                           THEN Append(kept, x) ELSE kept
    IN  FoldLeft(step, <<>>, messages)

\* _fit_sliding_window: the newest messages up to the first that does not fit.
SlidingWindow(messages, used, budget) ==
    LET fits(n) == used + TokensOf(LastOf(messages, n)) <= budget
    IN  LastOf(messages, CHOOSE n \in 0..Len(messages) :
            /\ n = 0 \/ fits(n)
            /\ n < Len(messages) => ~fits(n + 1))

\* naive_summary: of the last two messages those that fit, and the first three
\* of the others as one text, if it fits beside them.
NaiveSummary(c, budget) ==
    LET remaining == IF budget > c.task THEN budget - c.task ELSE 0
        recent == Reverse(Fit(Reverse(LastOf(c.messages, 2)), 0, remaining))
        older == AtMost(c.messages, Len(c.messages) - Len(LastOf(c.messages, 2)))
        summary == AtMost(older, 3)
    IN  IF TokensOf(summary) > 0 /\ TokensOf(summary) <= remaining - TokensOf(recent)
          THEN summary \o recent ELSE recent

MessagesOf(c, ids) ==
    FlattenSeq([i \in DOMAIN ids |-> SelectSeq(c.messages, LAMBDA x : x.id = ids[i])])

\* The branches of _run_baseline that need no store: what the answer may use.
\* Only memoryos_lite knows anything in a new session.
Selected(baseline, c, budget) ==
    CASE c.new_session -> <<>>
      [] baseline = "sliding_window" ->
            SlidingWindow(c.messages, IF c.task < budget THEN c.task ELSE budget, budget)
      [] baseline = "naive_summary" -> NaiveSummary(c, budget)
      [] OTHER -> Fit(MessagesOf(c, BM25[c.id]), c.task, budget)

\* The row of a case and a baseline.  The answer and its verdict, which come from
\* an LLM or from a comparison of texts, are no part of it: an LLM that fails
\* makes the verdict "error" and the run goes on.
Row(c, baseline, evidence) ==
    [case |-> c.id, baseline |-> baseline, evidence |-> evidence]

-------------------------------------------------------------------------------
\* The rows a report holds and where a run goes on after them
\* (_completed_case_count); rows of half a case are refused.
Resumable(file) ==
    file # Torn /\ (file # Absent => Len(file) % Len(Baselines) = 0)
ResumedRows == IF partial_report = Absent THEN <<>> ELSE partial_report

\* Mutant of NextCase: the last case of the report is run again.
NextCaseAgain ==
    LET completed == Len(ResumedRows) \div Len(Baselines)
    IN  [case |-> IF completed = 0 THEN 1 ELSE completed, baseline |-> 1]

NextCase == [case |-> 1 + (Len(ResumedRows) \div Len(Baselines)), baseline |-> 1]

\* The step that comes at a position.
StepAt(p) == IF p.case <= Len(Cases) THEN "baseline" ELSE "mapping"

\* The process starts; an isolated run empties its store before it looks at
\* the reports.  One that cannot be read ends the process each time anew.
StartBench ==
    /\ bench_step = "down"
    /\ store_case' = NoCase
    /\ rot_safe_budget_set' = Budget
    /\ source_mapping' = {}
    /\ \/ /\ report # Absent /\ report # Torn
          /\ results' = report /\ position' = First
          /\ bench_step' = "returned"
       \/ /\ report = Absent /\ Resumable(partial_report)
          /\ results' = ResumedRows /\ position' = NextCase
          /\ bench_step' = StepAt(NextCase)
       \/ /\ report = Torn \/ (report = Absent /\ ~Resumable(partial_report))
          /\ results' = <<>> /\ position' = First
          /\ bench_step' = "raised"
    /\ UNCHANGED <<partial_report, report, mapping_file, bench_deaths>>

\* After a row: the next baseline, or the end of the case.
RowDone ==
    IF position.baseline < Len(Baselines)
      THEN /\ position' = [position EXCEPT !.baseline = @ + 1]
           /\ bench_step' = "baseline"
      ELSE /\ position' = position
           /\ bench_step' = "case"

RunBaseline ==
    /\ bench_step = "baseline" /\ Baseline # "memoryos_lite"
    /\ results' = Append(results, Row(Case, Baseline,
                                MessageIds(Selected(Baseline, Case, rot_safe_budget_set))))
    /\ RowDone
    /\ UNCHANGED <<store_case, rot_safe_budget_set, source_mapping, partial_report, report,
                   mapping_file, bench_deaths>>

\* memoryos_lite empties the store, fills it with the case's messages and lowers
\* the budgets of the settings for the time of build_context.
FillStore ==
    /\ bench_step = "baseline" /\ Baseline = "memoryos_lite"
    /\ store_case' = Case.id
    /\ rot_safe_budget_set' = 1
    /\ bench_step' = "context"
    /\ UNCHANGED <<results, position, source_mapping, partial_report, report, mapping_file,
                   bench_deaths>>

\* Mutant of BudgetAfterContext: there is no finally.
BudgetNotRestored == rot_safe_budget_set

BudgetAfterContext == Budget

\* What build_context may find are the messages the store holds.
AnswerFromStore ==
    /\ bench_step = "context"
    /\ results' = Append(results, Row(Case, Baseline, <<store_case>>))
    /\ rot_safe_budget_set' = BudgetAfterContext
    /\ RowDone
    /\ UNCHANGED <<store_case, source_mapping, partial_report, report, mapping_file,
                   bench_deaths>>

\* The mapping of the case is collected if the store holds it, and the partial
\* report is opened.
EndCase ==
    /\ bench_step = "case"
    /\ source_mapping' = source_mapping \cup ({store_case} \cap {Case.id})
    /\ partial_report' = Torn
    /\ bench_step' = "partial"
    /\ UNCHANGED <<results, position, store_case, rot_safe_budget_set, report, mapping_file,
                   bench_deaths>>

WritePartialReport ==
    /\ bench_step = "partial"
    /\ partial_report' = results
    /\ position' = [case |-> position.case + 1, baseline |-> 1]
    /\ bench_step' = StepAt(position')
    /\ UNCHANGED <<results, store_case, rot_safe_budget_set, source_mapping, report,
                   mapping_file, bench_deaths>>

OpenMapping ==
    /\ bench_step = "mapping"
    /\ mapping_file' = Torn
    /\ bench_step' = "write_mapping"
    /\ UNCHANGED <<results, position, store_case, rot_safe_budget_set, source_mapping,
                   partial_report, report, bench_deaths>>

\* The mapping is written and the report opened.
WriteMapping ==
    /\ bench_step = "write_mapping"
    /\ mapping_file' = source_mapping
    /\ report' = Torn
    /\ bench_step' = "report"
    /\ UNCHANGED <<results, position, store_case, rot_safe_budget_set, source_mapping,
                   partial_report, bench_deaths>>

WriteReport ==
    /\ bench_step = "report"
    /\ report' = results
    /\ bench_step' = "returned"
    /\ UNCHANGED <<results, position, store_case, rot_safe_budget_set, source_mapping,
                   partial_report, mapping_file, bench_deaths>>

\* What a process holds is lost; the files and the store stay.
ProcessGone == results' = <<>> /\ position' = First /\ source_mapping' = {}

Die ==
    /\ bench_step \notin {"down", "returned", "raised"}
    /\ bench_deaths < MaxBenchDeaths
    /\ bench_deaths' = bench_deaths + 1
    /\ bench_step' = "down"
    /\ ProcessGone
    /\ UNCHANGED <<store_case, rot_safe_budget_set, partial_report, report, mapping_file>>

\* The command is given once more.
RunAgain ==
    /\ bench_step \in {"returned", "raised"}
    /\ bench_step' = "down"
    /\ ProcessGone
    /\ UNCHANGED <<store_case, rot_safe_budget_set, partial_report, report, mapping_file,
                   bench_deaths>>

BenchStep ==
    \/ StartBench
    \/ RunBaseline
    \/ FillStore
    \/ AnswerFromStore
    \/ EndCase
    \/ WritePartialReport
    \/ OpenMapping
    \/ WriteMapping
    \/ WriteReport

BenchFault == Die \/ RunAgain

BenchInit ==
    /\ bench_step = "down" /\ results = <<>> /\ position = First
    /\ store_case = NoCase /\ rot_safe_budget_set = Budget /\ source_mapping = {}
    /\ partial_report = Absent /\ report = Absent /\ mapping_file = Absent
    /\ bench_deaths = 0

\* The public benchmark by itself.
BenchSpec == BenchInit /\ [][BenchStep \/ BenchFault]_benchVars

-------------------------------------------------------------------------------
\* The rows of a run without any death, with a fresh store: case by case, and for
\* each the baselines in order.
ExpectedRow(c, baseline) ==
    Row(c, baseline, IF baseline = "memoryos_lite" THEN <<c.id>>
                       ELSE MessageIds(Selected(baseline, c, Budget)))
RowCount == Len(Cases) * Len(Baselines)
FirstRows(n) ==
    [k \in 1..n |-> ExpectedRow(Cases[1 + ((k - 1) \div Len(Baselines))],
                                Baselines[1 + ((k - 1) % Len(Baselines))])]
ExpectedRows == FirstRows(RowCount)

AsExpected(s) == \E n \in 0..RowCount : s = FirstRows(n)

Readable(file) == file # Absent /\ file # Torn

\* However often the process died, the rows are those of one run in one go, in
\* the same order, none missing and none twice, each from its own case and with
\* the full budget, and a partial report that can be read ends with a case
\* (run_public_benchmark, _completed_case_count).
ResumeIsTransparent ==
    /\ AsExpected(results)
    /\ bench_step = "returned" => results = ExpectedRows
    /\ Readable(partial_report) =>
          AsExpected(partial_report) /\ Len(partial_report) % Len(Baselines) = 0
    /\ Readable(report) => report = ExpectedRows
===============================================================================
