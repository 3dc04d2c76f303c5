SPECIFICATION FairSpec
CONSTANTS
    OrderCount = 1
    Markets = {"m1"}
    MarketOf <- OneMarket
    SpotOrders = {1}
    SwiftOrders = {}
    Filtered = {}
    IgnoreSwift = FALSE
    PerpValues = {p}
    SpotValues = {s}
    None = None
    MakerBuys = {}
    OrderSlot <- Zero
    Duration <- Two
    LastSlot = 3
    Holdings = {"within"}
    Rounds = 2
    Tries = {t1}
INVARIANTS
    TypeOK
PROPERTIES
    TriesEnd
CHECK_DEADLOCK FALSE
