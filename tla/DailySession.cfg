SPECIFICATION Spec
CHECK_DEADLOCK FALSE
CONSTANTS
    t1 = t1
    t2 = t2
    t3 = t3
    t4 = t4
    t5 = t5
    t6 = t6
    t7 = t7
    NoRef = NoRef
    Intents = {}
    AuditRefs = {}
    Prices <- DoublingPrices
    StartCash = 300
    SmallAccountThreshold = 2000
    SmallAccountHardCapPct = 15
    MaxCompanyExposurePct = 20
    MaxSectorExposurePct = 30
    MinCandidateScore = 75
    MaxDeviationPct = 20
    Tickers = {t1, t2}
    MaxOpenPositions = 6
    MaxNewTradesPerWeek = 3
    WeekDays = 7
    MaxFills = 3
    MaxTrades = 3
    CandidateLists <- Candidates
    ReviewLists <- NoProposals
    DirectProposals <- Sales
    Tracking = TRUE
    Reruns = {TRUE, FALSE}
    MaxRuns = 2
    MaxDays = 2
    MaxCrashes = 1
INVARIANTS
    TypeOK
    AllowedMeansFilled
    SnapshotReconciles
    HeldIsWatched
    SnapshotIsBacked
PROPERTIES
    RecordedSessionNeverTrades
