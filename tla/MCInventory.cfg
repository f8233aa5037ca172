\* Orders and transfers of several items beside warehouse adjustments, the
\* default warehouse fixed and provisioned.
CONSTANTS
    NoWarehouse = NoWarehouse
    Warehouses = {w1, w2}
    FirstDefault = w1
    Skus = {s1, s2}
    Orders = {o1, o2}
    Transfers = {t1}
    Clerks = {}
    DefaultChoices = {}
    Provisioned = {s1, s2}
    ReturnTo = {}
    Adjustable = {w1, w2}
    BulkEditable = {}
    OpeningQuantity = 1
    OpeningStock <- OpeningEverywhere
    MaxQuantity = 1
    MaxStock = 2
SPECIFICATION Spec
SYMMETRY Symmetry
INVARIANTS
    LedgerExact
    SplitWithTransit
