SPECIFICATION Spec
CONSTANTS
    OrderCount = 2
    Markets = {"m1"}
    MarketOf <- SameMarket
    SpotOrders = {2}
    SwiftOrders = {}
    Filtered = {}
    IgnoreSwift = FALSE
    PerpValues = {p}
    SpotValues = {s}
    None = None
    Duration <- TwoEach
    Slots <- TwoSlots
INVARIANTS
    TypeOK
    OneTryPerSignature
    EntriesAreTries
    OneCallAfterClose
    OneFillPerTry
    OverlookedOncePerOrder
