SPECIFICATION LedgerSpec
CONSTANTS
    t1 = t1
    t2 = t2
    NoRef = NoRef
    Tickers = {t1, t2}
    Prices <- MCPrices
    Intents <- MCIntents
    AuditRefs <- Refs
    StartCash = 30
    MaxFills = 5
INVARIANTS
    TypeOK
    FillsOncePerReference
    ProfitIsCashFlow
    BooksBalance
