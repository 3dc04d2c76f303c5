SPECIFICATION ProgramSpec
CONSTANTS
    MaxI64 = 7
    MarketKind = "Perp"
    MinOrderSize = 2
    OrderIds = {o1}
    Uuids = {}
    NoOrder = NoOrder
    Params <- EdgeParams
    Quotes <- EdgeQuotes
    MaxOrder = 4
    OwnTrades <- AnyTrades
    MaxLong = 7
    MinShort <- Short8
    BidCap = 8
    AskFloor = 3
    Books <- SomeBooks
    Oracles = {0, 2}
    Balances <- SomeBalances
    MarginRatio <- Ratios
    MarginPrecision = 2
    BasePrecision = 1
    ErrorShare = 4
    ErrorCap = 1
    MaxFee = 1
    Extras <- SomeExtras
INVARIANTS
    ArbTypeOK
    LeansBack
    CollateralBears
    CrossedBookPays
PROPERTIES
    NeverPastLimit
