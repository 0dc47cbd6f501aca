SPECIFICATION FairSpec
CONSTANTS
    Items <- Three
    ItemSeq <- TwoOfOneSeq
    Rankings <- SomeRankings
    Tokens <- TokensOf
    RecallRequests <- SomeRecalls
    SimilarRequests <- SomeSimilars
    AuditRequests <- SomeAudits
    EXPANSIONS = 1
    RECENT = 2
    ReplyLengths = {0, 1, 2}
INVARIANTS RecallSound ReportAddsUp NoBetterLeftOut
PROPERTIES EveryRequestAnswered
