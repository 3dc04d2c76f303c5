SPECIFICATION FairSpec
CONSTANTS
    OrderCount = 2
    Markets = {"m1"}
    MarketOf <- SameMarket
    SpotOrders = {2}
    Filtered = {}
    PerpValues = {p}
    SpotValues = {s, z}
    Sideless = {z}
    None = None
    Duration <- OneAndTwo
    Slots <- TwoSlots
    Backlog = 1
INVARIANTS
    TypeOK
    EntriesAreTries
    FewWastedCalls
PROPERTIES
    OrdersComeUp
    TriesEnd
