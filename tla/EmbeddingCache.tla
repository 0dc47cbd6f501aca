---------------------------- MODULE EmbeddingCache ----------------------------
(***************************************************************************)
(* The embedding cache of Recaller (POST /recall, POST /similar) and of    *)
(* Retriever (POST /audit): an OrderedDict from text to vector that every   *)
(* request of the process shares.  The routes are plain functions, so the   *)
(* server runs them on a pool of threads: a request is a thread, and other  *)
(* threads run between any two of its operations on the dict.  One such     *)
(* operation is atomic, as it is under the interpreter's lock.              *)
(***************************************************************************)
EXTENDS Integers, FiniteSets, Sequences, SequencesExt

CONSTANTS
    Threads,       \* threads of the server's pool
    Texts,         \* texts of queries and items; the key of a text is its hash
    Requests,      \* what a request embeds: [route, texts]
    Capacity,      \* EMBEDDING_CACHE_SIZE
    MaxRequests    \* bound: requests of a behaviour

\* The pool is smaller than the cache: its threads cannot empty it together.
ASSUME PoolAssumption ==
    /\ IsFiniteSet(Threads) /\ Capacity \in Nat /\ Cardinality(Threads) <= Capacity + 1
    /\ MaxRequests \in Nat
    /\ Requests \subseteq [route: {"recall", "similar", "audit"}, texts: Seq(Texts)]

VARIABLES
    cache,      \* _vectors: the vector of each cached text; a vector is named by its text
    older,      \* the order of _vectors: <<x, y>> when x comes before y
    pc,         \* the thread's next operation
    request,    \* the thread's request
    at,         \* the key its loop has reached
    missing,    \* texts to embed, in the order they were missed
    batch,      \* the provider's vectors for them
    taken,      \* vectors read back from the cache
    alone,      \* no other request was under way since this one began
    answers,    \* history: what the requests were answered
    started,    \* requests begun, at most MaxRequests
    owner       \* whose cache it is: each has its own

cacheVars == <<cache, older, pc, request, at, missing, batch, taken, alone, answers, started, owner>>

Routes == [Recaller |-> {"recall", "similar"}, Retriever |-> {"audit"}]
Idle == [route |-> "none", texts |-> <<>>]
Larger(m, n) == IF m > n THEN m ELSE n
Busy == {t \in Threads : pc[t] # "idle"}
Keys == DOMAIN cache
Current(t) == request[t].texts[at[t]]

Goto(t, label) == pc' = [pc EXCEPT ![t] = label]

\* The loop of t moves to its next key, or ends and t goes on at label.
Advance(t, label) ==
    IF at[t] < Len(request[t].texts)
      THEN at' = [at EXCEPT ![t] = @ + 1] /\ UNCHANGED pc
      ELSE at' = [at EXCEPT ![t] = 1] /\ Goto(t, label)

-------------------------------------------------------------------------------
\* What the caller of _embed makes of a failure.  Recaller catches all of them;
\* Retriever only those of the provider, so a failed lookup ends in a 500.
OutcomeOf(route, fault) ==
    CASE fault = "none"                             -> "dense"
      [] fault # "none" /\ route = "recall"         -> "lexical"
      [] fault # "none" /\ route = "similar"        -> "unavailable"
      [] fault = "provider" /\ route = "audit"      -> "lexical"
      [] fault = "lookup" /\ route = "audit"        -> "server_error"

\* The request ends; its thread is free for the next.
Respond(t, fault, vectors) ==
    /\ answers' = answers \cup
          {[route |-> request[t].route, texts |-> request[t].texts, vectors |-> vectors,
            outcome |-> OutcomeOf(request[t].route, fault), fault |-> fault,
            alone |-> alone[t]]}
    /\ pc' = [pc EXCEPT ![t] = "idle"]
    /\ request' = [request EXCEPT ![t] = Idle]
    /\ at' = [at EXCEPT ![t] = 1]
    /\ missing' = [missing EXCEPT ![t] = <<>>]
    /\ batch' = [batch EXCEPT ![t] = <<>>]
    /\ taken' = [taken EXCEPT ![t] = <<>>]
    /\ alone' = [alone EXCEPT ![t] = TRUE]
    /\ UNCHANGED <<started, owner>>

\* The loops over the keys of a request without texts end at once.
Begin(t, r) ==
    /\ pc[t] = "idle"
    /\ r.route \in Routes[owner]
    /\ started < MaxRequests
    /\ started' = started + 1
    /\ request' = [request EXCEPT ![t] = r]
    /\ alone' = [u \in Threads |-> IF u = t THEN Busy = {}
                                   ELSE alone[u] /\ u \notin Busy]
    /\ Goto(t, IF r.texts = <<>> THEN "evict" ELSE "look")
    /\ UNCHANGED <<cache, older, at, missing, batch, taken, answers, owner>>

\* key not in self._vectors, for one key; missing is a dict, so a text that
\* occurs twice is embedded once.
Look(t) ==
    /\ pc[t] = "look"
    /\ missing' = [missing EXCEPT ![t] =
          IF Current(t) \in Keys \cup ToSet(@) THEN @ ELSE Append(@, Current(t))]
    /\ Advance(t, IF missing'[t] = <<>> THEN "touch" ELSE "embed")
    /\ UNCHANGED <<cache, older, request, batch, taken, alone, answers, started, owner>>

\* embed_batch returns a vector for each text, or raises (batch unused), or
\* returns a batch that lacks the vector of one text.
Batches(m) == {m} \cup {RemoveAt(m, i) : i \in DOMAIN m}

\* Mutant of Usable: the size of the batch is not compared, nor by zip.
UsableAny(m, b) == TRUE

Usable(m, b) == Len(b) = Len(m)

Embed(t, b) ==
    /\ pc[t] = "embed"
    /\ Usable(missing[t], b)
    /\ batch' = [batch EXCEPT ![t] = b]
    /\ Goto(t, "update")
    /\ UNCHANGED <<cache, older, request, at, missing, taken, alone, answers, started, owner>>

\* The provider raises, or its batch has the wrong size.
EmbedFails(t) ==
    /\ pc[t] = "embed"
    /\ Respond(t, "provider", <<>>)
    /\ UNCHANGED <<cache, older>>

\* OrderedDict.update(zip(missing, vectors)): a key another thread has stored
\* meanwhile keeps its place, the others go to the end.
Update(t) ==
    LET stored == 1..Len(batch[t])
        places == {i \in stored : missing[t][i] \notin Keys}
        new == {missing[t][i] : i \in places}
        renewed(x) == {i \in stored : missing[t][i] = x}
    IN  /\ pc[t] = "update"
        /\ cache' = [x \in Keys \cup new |->
              IF renewed(x) = {} THEN cache[x]
              ELSE batch[t][CHOOSE i \in renewed(x) : TRUE]]
        /\ older' = older \cup (Keys \X new) \cup
              {p \in new \X new : \E i, j \in places : i < j /\ p = <<missing[t][i], missing[t][j]>>}
        /\ Goto(t, "touch")
        /\ UNCHANGED <<request, at, missing, batch, taken, alone, answers, started, owner>>

\* The order without x.
Without(x) == {p \in older : x \notin {p[1], p[2]}}

\* move_to_end for one key; KeyError when another thread evicted it.
Touch(t) ==
    /\ pc[t] = "touch"
    /\ \/ /\ Current(t) \in Keys
          /\ older' = Without(Current(t)) \cup ((Keys \ {Current(t)}) \X {Current(t)})
          /\ Advance(t, "evict")
          /\ UNCHANGED <<cache, request, missing, batch, taken, alone, answers, started, owner>>
       \/ /\ Current(t) \notin Keys
          /\ Respond(t, "lookup", <<>>)
          /\ UNCHANGED <<cache, older>>

\* Mutant of Limit: the cache is cut to its size whatever the request holds.
LimitOfCache(texts) == Capacity

Limit(texts) == Larger(Capacity, Len(texts))

\* The condition of the while loop, evaluated before each popitem.
Evict(t) ==
    /\ pc[t] = "evict"
    /\ Goto(t, IF Cardinality(Keys) > Limit(request[t].texts) THEN "pop" ELSE "read")
    /\ UNCHANGED <<cache, older, request, at, missing, batch, taken, alone, answers, started, owner>>

\* The key nothing is older than.
Oldest == {x \in Keys : \A y \in Keys : <<y, x>> \notin older}

\* Mutant of Pop: an if instead of a while.
PopOnce(t) ==
    /\ pc[t] = "pop"
    /\ \E x \in Oldest :
          /\ cache' = [y \in Keys \ {x} |-> cache[y]]
          /\ older' = Without(x)
    /\ Goto(t, "read")
    /\ UNCHANGED <<request, at, missing, batch, taken, alone, answers, started, owner>>

\* popitem(last=False).
Pop(t) ==
    /\ pc[t] = "pop"
    /\ \E x \in Oldest :
          /\ cache' = [y \in Keys \ {x} |-> cache[y]]
          /\ older' = Without(x)
    /\ Goto(t, "evict")
    /\ UNCHANGED <<request, at, missing, batch, taken, alone, answers, started, owner>>

\* self._vectors[key] for one key; KeyError when another thread evicted it.
Read(t) ==
    /\ pc[t] = "read"
    /\ UNCHANGED <<cache, older>>
    /\ IF request[t].texts = <<>> THEN Respond(t, "none", <<>>)
       ELSE IF Current(t) \notin Keys THEN Respond(t, "lookup", <<>>)
       ELSE LET found == Append(taken[t], cache[Current(t)]) IN
            IF at[t] = Len(request[t].texts) THEN Respond(t, "none", found)
            ELSE /\ taken' = [taken EXCEPT ![t] = found]
                 /\ at' = [at EXCEPT ![t] = @ + 1]
                 /\ UNCHANGED <<pc, request, missing, batch, alone, answers, started, owner>>

-------------------------------------------------------------------------------
CacheInit ==
    /\ cache = <<>>
    /\ older = {}
    /\ pc = [t \in Threads |-> "idle"]
    /\ request = [t \in Threads |-> Idle]
    /\ at = [t \in Threads |-> 1]
    /\ missing = [t \in Threads |-> <<>>]
    /\ batch = [t \in Threads |-> <<>>]
    /\ taken = [t \in Threads |-> <<>>]
    /\ alone = [t \in Threads |-> TRUE]
    /\ answers = {}
    /\ started = 0
    /\ owner \in DOMAIN Routes

Step(t) ==
    \/ \E r \in Requests : Begin(t, r)
    \/ Look(t)
    \/ \E b \in Batches(missing[t]) : Embed(t, b)
    \/ EmbedFails(t)
    \/ Update(t)
    \/ Touch(t)
    \/ Evict(t)
    \/ Pop(t)
    \/ Read(t)

CacheNext == \E t \in Threads : Step(t)

CacheSpec == CacheInit /\ [][CacheNext]_cacheVars

-------------------------------------------------------------------------------
\* Whatever other threads add, renew or evict meanwhile, a dense answer is
\* computed from the vectors of exactly its own texts, in their order, a text
\* that occurs twice included.
VectorsOfOwnTexts == \A a \in answers : a.outcome = "dense" => a.vectors = a.texts

\* A request that no other overlaps is answered densely unless the provider
\* fails, however full the cache is, however large the request, and whatever
\* earlier races left behind: it never evicts a key it still has to read.
LoneRequestIsDense == \A a \in answers : a.alone => a.fault \in {"none", "provider"}

\* The pool's threads never pop an empty dict together, and evictions keep up:
\* unless a lookup failed, an idle process holds no more vectors than the cache's
\* size or the largest request.
CacheBounded ==
    /\ \A t \in Threads : pc[t] = "pop" => Oldest # {}
    /\ (Busy = {} /\ \A a \in answers : a.fault # "lookup")
          => \/ Cardinality(Keys) <= Capacity
             \/ \E a \in answers : Cardinality(Keys) <= Len(a.texts)

\* "/recall and /similar are deterministic: the same request gives a
\* byte-identical response", for requests whose provider calls succeeded.
SameRequestSameAnswer ==
    \A a, b \in answers :
        (/\ a.route = b.route /\ a.route # "audit" /\ a.texts = b.texts
         /\ "provider" \notin {a.fault, b.fault})
            => a.outcome = b.outcome
===============================================================================
