CONSTANTS
    r1 = r1
    r2 = r2
    Runtimes = {r1, r2}
    Kinds <- Mixed
    NoSweep = NoSweep
    Funds = 10000
    Candles <- TwoCandles
    Mappings <- EntryAndExit
    CooldownBars = 0
    Scaling = {r2}
    MaxEntries = 2
    MaxOpenOrders = 3
    MaxNotional = 5000
    LastStep = 3
    MaxOrders = 3
    FeeBasisPoints = 5
    FlatFee = 20
    PolicyBasisPoints = 10
    PolicyFlatFee = 5
    SlippageBasisPoints = 10
    LotSize = 1
SPECIFICATION Spec
INVARIANTS
    TypeOK
    ReservedBacksLiveOrders
    SellsAreCovered
    DriftIsRounding
    
PROPERTY KillSwitchFreezesAccount
CHECK_DEADLOCK FALSE
