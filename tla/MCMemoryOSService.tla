--------------------------- MODULE MCMemoryOSService ---------------------------
(***************************************************************************)
(* Instances of MemoryOSService for TLC: three items, two of them of one    *)
(* seq, the newest the smallest; audits that keep one or two of three.      *)
(***************************************************************************)
EXTENDS MemoryOSService

Three == 1..3
TwoOfOneSeq == [x \in Three |-> IF x = 3 THEN 2 ELSE 1]
TokensOf == [x \in Three |-> IF x = 3 THEN 1 ELSE x + 1]

\* Rankings of none, of one item, and of all.
SomeRankings == {<<>>, <<3, 1>>, <<1, 2, 3>>, <<3, 2, 1>>}

SomeRecalls ==
    [items: {{}, {1, 3}, Three}, thread: {{}, {2}}, role: {{}, {1, 2}}, query: BOOLEAN,
     budget_tokens: {2, 4, 6}, k: {1, 3}]

SomeSimilars ==
    [items: {{1}, Three}, threshold: {880000},
     cosines: {[p \in Three \X Three |-> IF p = <<1, 3>> THEN c ELSE 880000] :
                  c \in {879999, 880000}}]

SomeAudits == [items: {{}, Three}, k: {1, 2}, expand: BOOLEAN, rules: {1}]
===============================================================================
