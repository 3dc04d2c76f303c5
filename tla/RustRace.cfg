SPECIFICATION Spec
CONSTANTS
    OrderCount = 1
    Markets = {"m1"}
    MarketOf <- OneMarket
    SwiftOrders = {1}
    Handlers = {h1, h2}
    Params = {p, r, z}
    Refusing = {r}
    Sideless = {z}
    Duration = 2
    None = None
INVARIANTS
    TypeOK
    StartsPerSignature
    FillsPerSignature
    StartsWithCheckedParams
SYMMETRY HandlerSymmetry
