------------------------------ MODULE AuditGraph ------------------------------
(***************************************************************************)
(* One request of POST /audit: the graph expand -> retrieve -> judge ->      *)
(* verify (audit_graph.py) over the rankings of audit.py.  The LLM replies   *)
(* anything; a reply is one of the kinds below.                              *)
(***************************************************************************)
EXTENDS RankFusion

CONSTANTS
    AuditRequests,  \* [items, k, expand, rules]: rules is the number of rule queries
    EXPANSIONS,     \* expansion queries used at most
    RECENT,         \* newest items of the third list
    ReplyLengths    \* usable queries an expansion reply may hold

\* A request with more items is refused before it is audited.
MAX_ITEMS == 2000

ASSUME AuditAssumption ==
    /\ EXPANSIONS \in Nat /\ RECENT \in Nat /\ ReplyLengths \subseteq Nat
    /\ \A r \in AuditRequests :
          /\ r.items \subseteq Items /\ Cardinality(r.items) <= MAX_ITEMS
          /\ r.k \in Nat \ {0} /\ r.rules \in Nat \ {0}

VARIABLES
    audit_pc,    \* "idle", "expand", "retrieve", "judge", "verify", "done", "failed"
    audit,       \* the request
    expansions,  \* how many expansion queries are used
    by_rules, by_llm,
    candidates, queries,
    dense_rules, dense_llm,  \* whether each ranking had vectors
    verdicts,    \* what the judge said of each item
    judge_reply, \* "none", "usable", "unusable"
    flagged, dropped_quotes, llm_calls

auditVars == <<audit_pc, audit, expansions, by_rules, by_llm, candidates, queries,
               dense_rules, dense_llm, verdicts, judge_reply, flagged, dropped_quotes,
               llm_calls>>

\* A verdict: none of the item, dep = 0, dep = 1 with an empty or too long
\* quote, or dep = 1 quoting the text of the item named.
NoVerdict == -3
NoDep == -2
BadQuote == -1
Verdicts == {NoVerdict, NoDep, BadQuote} \cup Items

NoAudit == [items |-> {}, k |-> 1, expand |-> FALSE, rules |-> 1]
Silence == [x \in Items |-> NoVerdict]

Smaller(m, n) == IF m < n THEN m ELSE n

-------------------------------------------------------------------------------
AcceptAudit(r) ==
    /\ audit_pc = "idle"
    /\ audit_pc' = "expand"
    /\ audit' = r
    /\ UNCHANGED <<expansions, by_rules, by_llm, candidates, queries, dense_rules,
                   dense_llm, verdicts, judge_reply, flagged, dropped_quotes, llm_calls>>

\* The provider failed: the error leaves the graph, whatever the node.
ProviderFails ==
    /\ \/ audit_pc = "expand" /\ audit.expand /\ audit.items # {}
       \/ audit_pc = "judge" /\ candidates # <<>>
    /\ audit_pc' = "failed"
    /\ UNCHANGED <<audit, expansions, by_rules, by_llm, candidates, queries, dense_rules,
                   dense_llm, verdicts, judge_reply, flagged, dropped_quotes, llm_calls>>

\* A reply that is no JSON object, or holds no list, gives no query.
Expand(usable) ==
    /\ audit_pc = "expand"
    /\ audit_pc' = "retrieve"
    /\ IF ~audit.expand \/ audit.items = {}
         THEN expansions' = 0 /\ llm_calls' = 0
         ELSE expansions' = Smaller(usable, EXPANSIONS) /\ llm_calls' = 1
    /\ UNCHANGED <<audit, by_rules, by_llm, candidates, queries, dense_rules, dense_llm,
                   verdicts, judge_reply, flagged, dropped_quotes>>

\* recent: the newest, ties by id.
Recent(items) ==
    LET ahead(x) == {y \in items : \/ ItemSeq[y] > ItemSeq[x]
                                   \/ ItemSeq[y] = ItemSeq[x] /\ y < x}
    IN  [i \in 1..Smaller(RECENT, Cardinality(items)) |->
            CHOOSE x \in items : Cardinality(ahead(x)) = i - 1]

\* Retriever.rank over two rankings of a query, one by BM25 and one dense; more
\* queries fuse to the same orders.
RankOrders == UNION {FusedOrders(<<a, b>>) : a, b \in Rankings}

RanksOf(items) == {s \in RankOrders : RangeOf(s) \subseteq items}

FusedLists(n, rules, llm, newest) ==
    IF n > 0 THEN <<rules, llm, newest>> ELSE <<rules, newest>>

TopK(s, k) == SubSeq(s, 1, Smaller(k, Len(s)))

\* The vectors of the two rankings are asked for one after the other.
Retrieve ==
    /\ audit_pc = "retrieve"
    /\ audit_pc' = "judge"
    /\ UNCHANGED expansions
    /\ by_rules' \in IF audit.items = {} THEN {<<>>} ELSE RanksOf(audit.items)
    /\ by_llm' \in IF expansions > 0 THEN RanksOf(audit.items) ELSE {<<>>}
    /\ dense_rules' \in IF audit.items = {} THEN {FALSE} ELSE BOOLEAN
    /\ dense_llm' \in IF expansions > 0 THEN BOOLEAN ELSE {dense_rules'}
    /\ LET lists == FusedLists(expansions, by_rules', by_llm', Recent(audit.items))
       IN  \E s \in FusedOrders(lists) : candidates' = TopK(s, audit.k)
    /\ queries' = audit.rules + expansions
    /\ UNCHANGED <<audit, verdicts, judge_reply, flagged, dropped_quotes, llm_calls>>

\* Without candidates the LLM is not asked.
SkipJudge ==
    /\ audit_pc = "judge" /\ candidates = <<>>
    /\ audit_pc' = "verify"
    /\ verdicts' = Silence
    /\ UNCHANGED <<audit, expansions, by_rules, by_llm, candidates, queries, dense_rules,
                   dense_llm, judge_reply, flagged, dropped_quotes, llm_calls>>

\* The judge may speak of any item; a reply that is no JSON object, or whose
\* "verdicts" is no object, counts as a reply without verdicts.
Judge(reply, said) ==
    /\ audit_pc = "judge" /\ candidates # <<>>
    /\ audit_pc' = "verify"
    /\ judge_reply' = reply
    /\ verdicts' = IF reply = "usable" THEN said ELSE Silence
    /\ llm_calls' = llm_calls + 1
    /\ UNCHANGED <<audit, expansions, by_rules, by_llm, candidates, queries, dense_rules,
                   dense_llm, flagged, dropped_quotes>>

Dependent(x) == verdicts[x] \notin {NoVerdict, NoDep}

\* Mutant of Quoted: the quote is looked for in all texts.
QuotedAnywhere(x) == verdicts[x] \in Items

\* The quote is short and an exact substring of the item's own text.
Quoted(x) == verdicts[x] = x

Verify ==
    /\ audit_pc = "verify"
    /\ audit_pc' = "done"
    /\ flagged' = Kept(candidates, {i \in DOMAIN candidates :
                           Dependent(candidates[i]) /\ Quoted(candidates[i])})
    /\ dropped_quotes' =
          Cardinality({x \in RangeOf(candidates) : Dependent(x) /\ ~Quoted(x)})
    /\ UNCHANGED <<audit, expansions, by_rules, by_llm, candidates, queries, dense_rules,
                   dense_llm, verdicts, judge_reply, llm_calls>>

ForgetAudit ==
    /\ audit_pc \in {"done", "failed"}
    /\ audit_pc' = "idle" /\ audit' = NoAudit
    /\ expansions' = 0 /\ by_rules' = <<>> /\ by_llm' = <<>>
    /\ candidates' = <<>> /\ queries' = 0 /\ dense_rules' = FALSE /\ dense_llm' = FALSE
    /\ verdicts' = Silence /\ judge_reply' = "none"
    /\ flagged' = <<>> /\ dropped_quotes' = 0 /\ llm_calls' = 0

AuditInit ==
    /\ audit_pc = "idle" /\ audit = NoAudit
    /\ expansions = 0 /\ by_rules = <<>> /\ by_llm = <<>>
    /\ candidates = <<>> /\ queries = 0 /\ dense_rules = FALSE /\ dense_llm = FALSE
    /\ verdicts = Silence /\ judge_reply = "none"
    /\ flagged = <<>> /\ dropped_quotes = 0 /\ llm_calls = 0

AuditStep ==
    \/ ProviderFails
    \/ \E n \in ReplyLengths : Expand(n)
    \/ Retrieve
    \/ SkipJudge
    \/ \E said \in [Items -> Verdicts] : Judge("usable", said)
    \/ Judge("unusable", Silence)
    \/ Verify

AuditNext ==
    \/ \E r \in AuditRequests : AcceptAudit(r)
    \/ AuditStep
    \/ ForgetAudit

AuditSpec == AuditInit /\ [][AuditNext]_auditVars

-------------------------------------------------------------------------------
\* The report adds up: at most k distinct items of the request are judged, a
\* flag names a judged item and quotes that very item, and every dependency the
\* judge claimed of a judged item is either flagged or counted as dropped
\* (verify in audit.py).
ReportAddsUp ==
    audit_pc = "done" =>
        /\ Len(candidates) <= audit.k
        /\ Cardinality(RangeOf(candidates)) = Len(candidates)
        /\ RangeOf(candidates) \subseteq audit.items
        /\ RangeOf(flagged) \subseteq RangeOf(candidates)
        /\ \A x \in RangeOf(flagged) : verdicts[x] = x
        /\ Len(flagged) + dropped_quotes =
              Cardinality({x \in RangeOf(candidates) : Dependent(x)})
        /\ llm_calls = (IF audit.expand /\ audit.items # {} THEN 1 ELSE 0)
                         + (IF judge_reply = "none" THEN 0 ELSE 1)

\* No item is judged in place of one that is ahead of it in every list that was
\* fused, the rules', the LLM's and the newest messages (retrieve in
\* audit_graph.py, rrf in audit.py).
NoBetterLeftOut ==
    candidates # <<>> =>
        LET lists == IF expansions > 0 THEN <<by_rules, by_llm, Recent(audit.items)>>
                                       ELSE <<by_rules, Recent(audit.items)>>
        IN  \A y \in RangeOf(candidates), x \in audit.items :
                AheadInAll(x, y, lists) => x \in RangeOf(candidates)
===============================================================================
