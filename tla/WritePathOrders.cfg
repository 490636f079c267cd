SPECIFICATION Spec
CONSTANTS
    t1 = t1
    t2 = t2
    NoRef = NoRef
    Tickers = {t1}
    Prices <- MCPrices
    Intents <- TradeIntents
    AuditRefs <- Refs
    InitCash = 10
    InitHeld <- NoShares
    EntryPoints = {"controller", "gateway", "admin"}
    HaltLayers = {"controller", "gateway", "broker"}
    FirstOrderTest = FALSE
    TestCap = 10
    MaxDeviationPct = 20
    MaxOrders = 2
    MaxArmings = 1
    MaxRestarts = 0
INVARIANTS
    TypeOK
    AtMostOncePerReference
    JournalNeverInvents
PROPERTIES
    EveryGateOpenAtSend
