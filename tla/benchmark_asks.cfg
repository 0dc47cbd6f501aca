SPECIFICATION FairSpec
CONSTANTS
    None = None
    RecallSearches <- SomeSearches
    NoSession <- None
    RECALL_TOP_K = 2
    NEIGHBORS_BEFORE = 2
    NEIGHBORS_AFTER = 1
    Passages = {11, 12, 13}
    ArchivalSearches <- SomeArchivalSearches
    LexicalRankings <- SomeLexicalRankings
    MaxVectors = 2
    ARCHIVAL_TOP_K = 2
    Wider = 4
    ContextRequests <- SomeContexts
    Dynamic = Dynamic
    rot_safe_budget = 3
    hard_limit = 8
    recent_message_limit = 2
    TextBytes <- BytesOf
    Provable = {1, 2, 4, 11, 12, 13}
    MAX_ITEM_TEXT_BYTES = 2000
    MAX_TOTAL_TEXT_BYTES = 6
    EnvelopeBytes = 2
    ItemBytes = 1
    AskRequests <- SomeProbes
    Queries = {"question", "rewrite", "listing"}
    NoQuery = NoQuery
    Quotes <- QuotesIn
    Covering = {13}
    Probes <- SomeProbes
    RecallOf <- SearchOf
    ScopeOf <- ScopedSearch
    Tokens <- TokensById
    Messages <- SessionMessages
    EnvelopeRequests <- SomeEnvelopes
    DEFAULT_MAX_ITEMS = 2
    DEFAULT_MAX_TOKENS = 8
    DEFAULT_MAX_BYTES = 50
    Cases <- TwoCases
    Baselines <- BaselinesRun
    BM25 <- RankedByBM25
    Budget = 6
    Absent = Absent
    Torn = Torn
    MaxBenchDeaths = 2
    Calls <- ThreeCalls
    Texts = {"x", "y"}
    NoFile = NoFile
    TornFile = TornFile
    MaxCacheDeaths = 2
    RoomSeq <- ThreeRooms
    Outputs <- CuratedRooms
    CuratedLimit = 3
    NoRoom = NoRoom
    NoRow = NoRow
    WordsOf <- Words
    Modules <- OneModule
    Replays <- SomeReplays
    PackBudget = 4
    RecentActivities = 2
    NoLesson = NoLesson
    Unaccounted = Unaccounted
    NoModule = NoModule
CHECK_DEADLOCK FALSE
INVARIANTS RecallHitsSound ArchivalAnswers ContextWithinBudget EvidenceAddsUp AskBounded CurrentBeforeOutdated RoomsSeeWhatTheyMay WriteSideSound ModuleArmRight ResumeIsTransparent RepliesStay
PROPERTIES EverythingEnds
