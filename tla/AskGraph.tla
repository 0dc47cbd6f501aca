-------------------------------- MODULE AskGraph --------------------------------
(***************************************************************************)
(* One ask (ask.py): retrieve, grade what was found, let an LLM rewrite the *)
(* query and retrieve again, a bounded number of times; then give the found *)
(* items to the caller, current ones first, within a budget of tokens.      *)
(*                                                                         *)
(* What a query retrieves comes from outside (FindItems): the source        *)
(* evidence of a context built for it.                                      *)
(***************************************************************************)
EXTENDS Lists

CONSTANTS
    AskRequests,    \* [question: a query, task: tokens, budget, max_rounds, llm: BOOLEAN,
                    \*  rows: the curated memories, [status, topic, quote]]
    Queries,        \* what an LLM may rewrite a question to
    NoQuery,        \* an empty or malformed reply
    Quotes,         \* the quotes that occur in an item's text, by its id
    Covering        \* items whose text covers half of the question's keywords

ASSUME AskAssumption ==
    /\ NoQuery \notin Queries
    /\ \A r \in AskRequests :
          /\ r.question \in Queries /\ r.task \in Nat
          /\ r.budget \in Nat /\ r.max_rounds \in Nat /\ r.llm \in BOOLEAN

VARIABLES
    ask_step,       \* "none", "retrieve", "grade", "rewrite", "finalize", "fit",
                    \* "answered"
    ask,            \* the request
    queries,        \* state["queries"]
    found,          \* state["found"]: [id, tokens, query, outdated, current]
    retrievals, llm_calls, enough, stopped,
    fitting,        \* items of ordered still to be fitted
    answer,         \* items of the response, in rank order
    spent, omitted

askVars == <<ask_step, ask, queries, found, retrievals, llm_calls, enough, stopped, fitting,
             answer, spent, omitted>>

NoAsk == [question |-> NoQuery, task |-> 0, budget |-> 0, max_rounds |-> 0, llm |-> FALSE,
          rows |-> {}]
Unknown == "unknown"

-------------------------------------------------------------------------------
\* Mutant of Marks: a quote that an active memory shares is marked too.
MarksOfAll(rows) == {[quote |-> r.quote, topic |-> r.topic] :
                        r \in {row \in rows : row.status = "superseded"}}

\* superseded_quotes: every quote that grounds only superseded memories, with
\* the topic it was about.
Marks(rows) ==
    {[quote |-> r.quote, topic |-> r.topic] :
        r \in {row \in rows : row.status = "superseded" /\
                  \A active \in rows : active.status = "active" => active.quote # row.quote}}

\* match_superseded: some mark's quote occurs in the text.
Matching(id, rows) == {mark \in Marks(rows) : mark.quote \in Quotes[id]}
Outdated(id, rows) == Matching(id, rows) # {}

\* The topics whose active statement may be given in its place.
Current(id, rows) == {m.topic : m \in Matching(id, rows)}
                        \cap {r.topic : r \in {row \in rows : row.status = "active"}}

FoundIds(s) == {s[i].id : i \in DOMAIN s}

StartAsk(r) ==
    /\ ask_step = "none"
    /\ ask_step' = "retrieve"
    /\ ask' = r
    /\ queries' = <<r.question>>
    /\ UNCHANGED <<found, retrievals, llm_calls, enough, stopped, fitting, answer, spent,
                   omitted>>

\* retrieve_node: the items not seen before, in an earlier retrieval or earlier in
\* this one, are marked and appended.
Unseen(retrieved) ==
    {i \in DOMAIN retrieved :
        /\ retrieved[i].id \notin FoundIds(found)
        /\ \A j \in 1..(i - 1) : retrieved[j].id # retrieved[i].id}

FindItems(retrieved) ==
    /\ ask_step = "retrieve"
    /\ LET new == Kept(retrieved, Unseen(retrieved))
       IN  found' = found \o [i \in DOMAIN new |->
                [id |-> new[i].id, tokens |-> new[i].tokens, query |-> queries[Len(queries)],
                 outdated |-> Outdated(new[i].id, ask.rows),
                 current |-> Current(new[i].id, ask.rows)]]
    /\ retrievals' = retrievals + 1
    /\ ask_step' = "grade"
    /\ UNCHANGED <<ask, queries, llm_calls, enough, stopped, fitting, answer, spent, omitted>>

\* Mutant of RoundsLeft: a rewrite is paid for that is never retrieved.
RoundsLeftAlways == TRUE

RoundsLeft == retrievals <= ask.max_rounds

\* grade and after_grade: only what is not outdated counts.
Grade ==
    /\ ask_step = "grade"
    /\ enough' = \E i \in DOMAIN found : ~found[i].outdated /\ found[i].id \in Covering
    /\ ask_step' = IF ~enough' /\ ask.llm /\ RoundsLeft THEN "rewrite" ELSE "finalize"
    /\ UNCHANGED <<ask, queries, found, retrievals, llm_calls, stopped, fitting, answer,
                   spent, omitted>>

\* rewrite: a query that was not asked before leads back to retrieve.
Rewrite(query) ==
    /\ ask_step = "rewrite"
    /\ llm_calls' = llm_calls + 1
    /\ \/ /\ query \in Queries \ {queries[i] : i \in DOMAIN queries}
          /\ queries' = Append(queries, query)
          /\ ask_step' = "retrieve"
          /\ UNCHANGED stopped
       \/ /\ query \notin Queries \ {queries[i] : i \in DOMAIN queries}
          /\ stopped' = "no_new_query"
          /\ ask_step' = "finalize"
          /\ UNCHANGED queries
    /\ UNCHANGED <<ask, found, retrievals, enough, fitting, answer, spent, omitted>>

RewriteFails ==
    /\ ask_step = "rewrite"
    /\ llm_calls' = llm_calls + 1
    /\ stopped' = "rewrite_failed"
    /\ ask_step' = "finalize"
    /\ UNCHANGED <<ask, queries, found, retrievals, enough, fitting, answer, spent, omitted>>

\* Mutant of Ordered: the order in which the items were found.
OrderedAsFound == found

\* Current items first, each part in the order found.
Ordered ==
    Kept(found, {i \in DOMAIN found : ~found[i].outdated})
        \o Kept(found, {i \in DOMAIN found : found[i].outdated})

Finalize ==
    /\ ask_step = "finalize"
    /\ stopped' = IF stopped # Unknown THEN stopped
                  ELSE IF enough THEN "enough"
                  ELSE IF ask.llm THEN "no_rounds" ELSE "no_llm"
    /\ fitting' = Ordered
    /\ ask_step' = "fit"
    /\ UNCHANGED <<ask, queries, found, retrievals, llm_calls, enough, answer, spent, omitted>>

\* One turn of the loop of run_ask over ordered.
FitItem ==
    /\ ask_step = "fit" /\ fitting # <<>>
    /\ fitting' = Tail(fitting)
    /\ IF spent + Head(fitting).tokens <= ask.budget
         THEN /\ answer' = Append(answer, Head(fitting))
              /\ spent' = spent + Head(fitting).tokens
              /\ UNCHANGED omitted
         ELSE /\ omitted' = omitted + 1
              /\ UNCHANGED <<answer, spent>>
    /\ UNCHANGED <<ask_step, ask, queries, found, retrievals, llm_calls, enough, stopped>>

AnswerAsk ==
    /\ ask_step = "fit" /\ fitting = <<>>
    /\ ask_step' = "answered"
    /\ UNCHANGED <<ask, queries, found, retrievals, llm_calls, enough, stopped, fitting,
                   answer, spent, omitted>>

\* The steps the graph takes by itself.
AskStep ==
    \/ Grade
    \/ \E query \in Queries \cup {NoQuery} : Rewrite(query)
    \/ RewriteFails
    \/ Finalize
    \/ FitItem
    \/ AnswerAsk

ForgetAsk ==
    /\ ask_step' = "none" /\ ask' = NoAsk /\ queries' = <<>> /\ found' = <<>>
    /\ retrievals' = 0 /\ llm_calls' = 0 /\ enough' = FALSE /\ stopped' = Unknown
    /\ fitting' = <<>> /\ answer' = <<>> /\ spent' = 0 /\ omitted' = 0

AskInit ==
    /\ ask_step = "none" /\ ask = NoAsk /\ queries = <<>> /\ found = <<>>
    /\ retrievals = 0 /\ llm_calls = 0 /\ enough = FALSE /\ stopped = Unknown
    /\ fitting = <<>> /\ answer = <<>> /\ spent = 0 /\ omitted = 0

\* Asks by themselves: a query may retrieve anything.
AskNext ==
    \/ \E r \in AskRequests : StartAsk(r)
    \/ \E retrieved \in Seq([id: DOMAIN Quotes, tokens: Nat]) : FindItems(retrieved)
    \/ AskStep
    \/ ask_step = "answered" /\ ForgetAsk

AskSpec == AskInit /\ [][AskNext]_askVars

-------------------------------------------------------------------------------
\* An ask costs at most max_rounds LLM calls and one retrieval more, every one
\* for another query, and it says truly why it stopped (build_ask_graph).
AskBounded ==
    /\ Cardinality({queries[i] : i \in DOMAIN queries}) = Len(queries)
    /\ llm_calls <= ask.max_rounds
    /\ retrievals <= llm_calls + 1
    /\ ask_step = "answered" =>
          /\ stopped = "enough" <=>
                \E i \in DOMAIN found : ~found[i].outdated /\ found[i].id \in Covering
          /\ stopped = "no_rounds" => retrievals = ask.max_rounds + 1
          /\ stopped = "no_llm" => llm_calls = 0

\* The answer has each item once and within the budget, counts the rest as
\* omitted, never ranks an outdated item before a current one, and takes an
\* outdated item in the place of a current one only when that is larger; an
\* item is not called outdated for a quote that an active memory stands on
\* (run_ask, superseded_quotes).
CurrentBeforeOutdated ==
    /\ spent <= ask.budget
    /\ \A i, j \in DOMAIN answer :
          /\ answer[i].id = answer[j].id => i = j
          /\ i < j /\ answer[i].outdated => answer[j].outdated
    /\ ask_step = "answered" =>
          /\ Len(answer) + omitted = Len(found)
          /\ \A i \in DOMAIN found, j \in DOMAIN answer :
                ~found[i].outdated /\ found[i].id \notin FoundIds(answer) /\ answer[j].outdated
                  => answer[j].tokens < found[i].tokens
    /\ \A i \in DOMAIN found : found[i].outdated =>
          \E row \in ask.rows : row.status = "superseded" /\ row.quote \in Quotes[found[i].id]
              /\ ~\E active \in ask.rows : active.status = "active" /\ active.quote = row.quote
===============================================================================
