SPECIFICATION Spec
CONSTANTS
    OrderCount = 1
    Markets = {"m1"}
    MarketOf <- OneMarket
    SpotOrders = {}
    Filtered = {}
    PerpValues = {p}
    SpotValues = {}
    Sideless = {}
    None = None
    Duration <- Two
    Slots <- TwoSlots
    Backlog = 1
PROPERTIES
    CrossingIsSent
