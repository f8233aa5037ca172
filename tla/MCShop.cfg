\* Every part of the shop with the smallest instance that shows its hazards.
CONSTANTS
    NoOrder = NoOrder
    Orders = {o1}
    Staff = {b1, b2}
    OpeningStock = 2
    Items = {i1}
    Quantity = 2
    Price = 1
    Tax = 1
    Bought <- EveryBought
    UnitPrice <- EveryPrice
    UnitTax <- EveryTax
    TotalTax <- EveryTax
    TaxIncluded = FALSE
    ShippingCost = 1
    ShippingTax = 1
    GrandTotal = 4
    MaxLine = 1
    MaxOverlaps = 1
    Returns = {r1, r2}
    Managers = {a1, a2}
    WarehouseIds = {w1, w2, w3}
    Main = w1
    Editors = {b1, b2}
    Closed = Closed
    MaxSections = 3
    MaxOrder = 3
    MaxSlots = 3
    MaxLocked = 1
    RowPresets <- Presets
    Bootstrap = 2
    PresetRows <- SideBySide
    Contents = {c1, c2}
    FirstContent = c1
    Designers = {b1, b2}
    MaxVersions = 2
    MaxHistory = 2
    Absent = Absent
    Skus = {a1, a2}
    Prices = {1, 2}
    OpeningPrice = 1
    Files <- ShortFiles
    Clerks = {b1, b2}
    BatchSize = 2
    ProductLimit = 1
    RowLimit = 4
    Unset = Unset
    Missing = Missing
    Resting = Resting
    Answered = Answered
    Goods = {b1, b2}
    InStock <- OneOfEach
    SignIns = {a1, a2}
    MaxItems = 3
    Waiting = Waiting
SPECIFICATION Spec
SYMMETRY Alike
CHECK_DEADLOCK FALSE
INVARIANTS
    OrdersSound
    SalesSound
    WarehousesSound
    PageSound
    VersionsSound
    ImportSound
    CartSound
PROPERTY
    ShopSteps
    ImplementsRefundLedger
