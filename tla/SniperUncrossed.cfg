SPECIFICATION Spec
CONSTANTS
    OrderCount = 1
    Markets = {"m1"}
    MarketOf <- OneMarket
    SpotOrders = {}
    SwiftOrders = {}
    Filtered = {}
    IgnoreSwift = FALSE
    PerpValues = {p}
    SpotValues = {}
    None = None
    MakerBuys = {}
    OrderSlot <- Zero
    Duration <- Two
    LastSlot = 3
    Holdings = {"within", "short", "long"}
    Rounds = 2
    Tries = {t1}
INVARIANTS
    SendsOnlyCrossing
