SPECIFICATION Spec
CONSTANTS
    t1 = t1
    t2 = t2
    NoRef = NoRef
    Tickers = {t1}
    Prices <- MCPrices
    Intents <- GuardedIntents
    AuditRefs <- Refs
    InitCash = 10
    InitHeld <- TwoShares
    EntryPoints = {"controller"}
    HaltLayers = {}
    FirstOrderTest = FALSE
    TestCap = 10
    MaxDeviationPct = 20
    MaxOrders = 2
    MaxArmings = 1
    MaxRestarts = 0
INVARIANT OpenSellsCovered
