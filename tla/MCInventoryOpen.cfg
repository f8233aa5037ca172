\* Every operation: the default changes, counts are stale, stock is edited in bulk.
CONSTANTS
    NoWarehouse = NoWarehouse
    Warehouses = {w1, w2}
    FirstDefault = w1
    Skus = {s1}
    Orders = {o1}
    Transfers = {t1}
    Clerks = {k1}
    DefaultChoices = {w1, w2}
    Provisioned = {}
    ReturnTo = {w1, w2}
    Adjustable = {w2}
    BulkEditable = {s1}
    OpeningQuantity = 1
    OpeningStock <- OpeningEverywhere
    MaxQuantity = 1
    MaxStock = 2
SPECIFICATION Spec
INVARIANTS
    BalancesFollowLedger
    LedgersAgree
