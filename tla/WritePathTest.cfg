SPECIFICATION Spec
CONSTANTS
    t1 = t1
    t2 = t2
    NoRef = NoRef
    Tickers = {t1}
    Prices <- MCPrices
    Intents <- GuardedIntents
    AuditRefs <- Refs
    InitCash = 20
    InitHeld <- TwoShares
    EntryPoints = {"controller", "admin"}
    HaltLayers = {}
    FirstOrderTest = TRUE
    TestCap = 10
    MaxDeviationPct = 20
    MaxOrders = 2
    MaxArmings = 2
    MaxRestarts = 1
INVARIANTS
    OversellTakesTwo
PROPERTIES
    TestOrderWithinCap
    ImplementsPermits
