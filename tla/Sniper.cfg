SPECIFICATION Spec
CONSTANTS
    OrderCount = 1
    Markets = {"m1"}
    MarketOf <- OneMarket
    SpotOrders = {}
    SwiftOrders = {1}
    Filtered = {}
    IgnoreSwift = FALSE
    PerpValues = {p}
    SpotValues = {}
    None = None
    MakerBuys = {}
    OrderSlot <- Zero
    Duration <- One
    LastSlot = 2
    Holdings = {"within", "long"}
    Rounds = 2
    Tries = {t1, t2}
INVARIANTS
    NeverEarly
    WaitIsWatched
    EntriesAwaitStats
    OneFillPerTry
SYMMETRY TrySymmetry
CHECK_DEADLOCK FALSE
