--------------------------- MODULE MCEmbeddingCache ---------------------------
(***************************************************************************)
(* Instances of EmbeddingCache for TLC: a cache that two requests overflow. *)
(***************************************************************************)
EXTENDS EmbeddingCache, TLC

CONSTANTS w1, w2, v, x, y, z

\* A single text, a text that occurs twice, two requests that overflow the cache
\* together by two vectors, and one that is larger than the cache by itself.
TextLists == {<<z>>, <<x, x>>, <<x, y>>, <<v, z>>, <<z, y, x>>}

CachedRequests ==
    [route: {"recall"}, texts: TextLists] \cup [route: {"similar", "audit"}, texts: {<<>>, <<z>>, <<x, y>>}]

RecallRequests == [route: {"recall"}, texts: TextLists]

ThreadSymmetry == Permutations(Threads)
===============================================================================
