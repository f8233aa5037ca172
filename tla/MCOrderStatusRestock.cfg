\* Two requests that loaded the order before either wrote cancel it.
CONSTANTS
    NoOrder = NoOrder
    Orders = {o1}
    Staff = {m1, m2}
    Quantity = 1
    OpeningStock = 1
SPECIFICATION OrdersSpec
CHECK_DEADLOCK FALSE
SYMMETRY Symmetry
INVARIANT RestockedAtMostOnce
