SPECIFICATION Spec
CONSTANTS
    MaxI64 = 12
    MarketKind = "Perp"
    MinOrderSize = 1
    Markets <- TwoMarkets
    JitMarkets <- JitIn
    Limits <- TwoLimits
    Sizes <- FewSizes
INVARIANTS
    RestingIsSafe
    ExcessIsBounded
PROPERTIES
    OutsideOnlyOldOrdersFill
