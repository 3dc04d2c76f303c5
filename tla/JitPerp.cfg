SPECIFICATION Spec
CONSTANTS
    MaxI64 = 7
    MarketKind = "Perp"
    MinOrderSize = 2
    OrderIds = {o1, o2}
    Uuids = {u}
    NoOrder = NoOrder
    Params <- SteadyParams
    Quotes <- SteadyQuotes
    MaxOrder = 4
    OwnTrades <- NoTrades
    MaxLong = 4
    MinShort <- Short4
    BidCap = 4
    AskFloor = 4
INVARIANTS
    TypeOK
    NoDustOrder
    PricedToFill
    OkMeansProgress
    FairLedger
    NoLossWhenFlat
PROPERTIES
    KeepsMandate
SYMMETRY OrderSymmetry
