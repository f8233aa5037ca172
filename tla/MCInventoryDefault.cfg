\* The default warehouse changes before an order; no transfers.
CONSTANTS
    NoWarehouse = NoWarehouse
    Warehouses = {w1, w2}
    FirstDefault = w1
    Skus = {s1}
    Orders = {o1}
    Transfers = {}
    Clerks = {}
    DefaultChoices = {w2}
    Provisioned = {s1}
    ReturnTo = {}
    Adjustable = {}
    BulkEditable = {}
    OpeningQuantity = 2
    OpeningStock <- OpeningEverywhere
    MaxQuantity = 1
    MaxStock = 3
SPECIFICATION Spec
INVARIANT SplitExact
