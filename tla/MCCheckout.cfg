\* Two carts whose tokens are stored, three submissions, one coupon use left.
CONSTANTS
    Carts = {c1, c2}
    Skus = {s1}
    Requests = {r1, r2, r3}
    Prices = {1}
    OpeningPrice <- OneOfEach
    OpeningStock <- TwoOfEach
    UsageLimit = 1
    MinOrder = 1
    TokenStored = {c1, c2}
    Repriced = {}
    Edited = {}
    MaxFills = 2
    MaxQuantity = 2
SPECIFICATION Spec
CHECK_DEADLOCK FALSE
SYMMETRY AllSymmetry
INVARIANTS
    CouponWithinLimit
    TokensAgree
    OneOrderPerFill
    TotalsMatchLines
PROPERTY EmptiedIsOrdered
