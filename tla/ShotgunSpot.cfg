SPECIFICATION Spec
CONSTANTS
    OrderCount = 1
    Markets = {"m1"}
    MarketOf <- OneMarket
    SpotOrders = {1}
    SwiftOrders = {}
    Filtered = {}
    IgnoreSwift = FALSE
    PerpValues = {p}
    SpotValues = {s}
    None = None
    Duration <- Two
    Slots <- TwoSlots
INVARIANTS
    SpotParamsForSpotOrders
