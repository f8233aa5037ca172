\* A second purchase from the same cart.
CONSTANTS
    Carts = {c1}
    Skus = {s1}
    Requests = {r1, r2}
    Prices = {1}
    OpeningPrice <- OneOfEach
    OpeningStock <- TwoOfEach
    UsageLimit = 1
    MinOrder = 1
    TokenStored = {}
    Repriced = {}
    Edited = {}
    MaxFills = 2
    MaxQuantity = 1
SPECIFICATION Spec
CHECK_DEADLOCK FALSE
INVARIANT AnsweredWithOwnOrder
