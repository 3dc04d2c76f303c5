SPECIFICATION SystemSpec
CONSTANTS
    MaxI64 = 3
    MarketKind = "Perp"
    MinOrderSize = 1
    OrderIds <- OneOrder
    Uuids = {1}
    NoOrder = NoOrder
    Params <- TwoParams
    Quotes <- OneQuote
    MaxOrder = 2
    OwnTrades <- NoTrades
    MaxLong = 0
    MinShort <- Short2
    BidCap = 1
    AskFloor = 2
    OrderCount = 1
    Market = "m1"
    SwiftOrders = {1}
    IgnoreSwift = TRUE
    None = None
    Duration <- Two
    Slots <- TwoSlots
    TakerDir <- Buys
    TakerSize <- Amount
    Unconfirmed = 1
INVARIANTS
    OneTryPerOrder
    OldParamsRunOut
PROPERTIES
    ImplementsShotgun
    TriesEnd
