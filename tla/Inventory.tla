------------------------------ MODULE Inventory ------------------------------
(***************************************************************************)
(* The stock of one store: the sellable aggregate (Product.stock or        *)
(* ProductVariant.stock), its split over warehouses (WarehouseInventory),  *)
(* the ledger (StockMovement) and transfers between warehouses             *)
(* (src/apps/catalog/services: inventory, transfer and warehouse service). *)
(*                                                                         *)
(* A service function that locks the rows it works on is one action.  The  *)
(* product import does not: it loads the products of all its rows first    *)
(* and saves them one by one, so a clerk's import reads in one step and    *)
(* writes in another.  The ledger is kept as the sums of the deltas of its *)
(* rows.                                                                   *)
(***************************************************************************)
EXTENDS Integers, FiniteSets, Functions

CONSTANTS
    Warehouses,     \* the store's warehouses
    Skus,           \* products without variants, and variants
    Orders,         \* orders that may be placed
    Transfers,      \* warehouse transfers that may be created
    Clerks,         \* product imports
    FirstDefault,   \* the default warehouse to begin with
    DefaultChoices, \* warehouses the merchant may make the default
    OpeningStock,   \* Product.stock to begin with
    Provisioned,    \* SKUs whose balance at FirstDefault was provisioned
    ReturnTo,       \* warehouses a manager may choose for returned goods
    Adjustable,     \* warehouses adjust_warehouse_stock is used on
    BulkEditable,   \* SKUs whose stock the dashboard's bulk edit sets
    NoWarehouse,    \* no explicit choice of a warehouse
    MaxQuantity,    \* bound on the quantity of one item
    MaxStock        \* bound on the stock of one SKU

ASSUME DefaultAssumption == FirstDefault \in Warehouses /\ DefaultChoices \subseteq Warehouses
ASSUME ScenarioAssumption ==
    /\ Provisioned \subseteq Skus
    /\ BulkEditable \subseteq Skus
    /\ ReturnTo \subseteq Warehouses
    /\ Adjustable \subseteq Warehouses
    /\ NoWarehouse \notin Warehouses
ASSUME FiniteAssumption == IsFiniteSet(Warehouses) /\ IsFiniteSet(Transfers)
ASSUME BoundAssumption ==
    /\ MaxQuantity \in Nat /\ MaxStock \in Nat
    /\ OpeningStock \in [Skus -> 0..MaxStock]

VARIABLES
    stock,            \* the sellable aggregate of each SKU
    onHand,           \* WarehouseInventory.on_hand, or NoRow
    opening,          \* what a balance row was opened with, beside its movement
    warehouseLedger,  \* sum of the deltas of all movements of a warehouse
    stockLedger,      \* sum of the deltas of the movements of the aggregate
    default, active,  \* the default warehouse, and those not archived
    order,            \* the orders, as far as stock is concerned
    transfer,         \* the transfers
    count             \* the instance each import holds

ledgerVars == <<opening, warehouseLedger, stockLedger>>
stockVars  == <<stock, onHand, ledgerVars>>
vars == <<stockVars, default, active, order, transfer, count>>

NoRow == -1
NotCounting == [sku |-> "none", before |-> 0]

Quantities == [Skus -> 0..MaxQuantity]
Nothing == [s \in Skus |-> 0]

TransferStatus ==
    {"none", "draft", "requested", "in_transit", "received", "cancelled"}

NewOrder == [status |-> "none", items |-> Nothing, warehouse |-> NoWarehouse, restocked |-> FALSE]
NewTransfer == [status |-> "none", items |-> Nothing, source |-> NoWarehouse, destination |-> NoWarehouse]

TypeOK ==
    /\ stock \in [Skus -> Nat]
    /\ onHand \in [Warehouses -> [Skus -> Nat \cup {NoRow}]]
    /\ opening \in [Warehouses -> [Skus -> Nat]]
    /\ warehouseLedger \in [Warehouses -> [Skus -> Int]]
    /\ stockLedger \in [Skus -> Int]
    /\ default \in Warehouses
    /\ active \subseteq Warehouses
    /\ order \in [Orders ->
          [status : {"none", "placed", "canceled"}, items : Quantities,
           warehouse : Warehouses \cup {NoWarehouse}, restocked : BOOLEAN]]
    /\ transfer \in [Transfers ->
          [status : TransferStatus, items : Quantities,
           source : Warehouses \cup {NoWarehouse}, destination : Warehouses \cup {NoWarehouse}]]
    /\ count \in [Clerks -> [sku : Skus, before : Nat] \cup {NotCounting}]

Init ==
    /\ stock = OpeningStock
    /\ onHand = [w \in Warehouses |-> [s \in Skus |->
                   IF w = FirstDefault /\ s \in Provisioned THEN OpeningStock[s] ELSE NoRow]]
    /\ opening = [w \in Warehouses |-> [s \in Skus |->
                   IF w = FirstDefault /\ s \in Provisioned THEN OpeningStock[s] ELSE 0]]
    /\ warehouseLedger = [w \in Warehouses |-> Nothing]
    /\ stockLedger = Nothing
    /\ default = FirstDefault
    /\ active = Warehouses
    /\ order = [o \in Orders |-> NewOrder]
    /\ transfer = [t \in Transfers |-> NewTransfer]
    /\ count = [k \in Clerks |-> NotCounting]

-----------------------------------------------------------------------------
(* Balances and the ledger.  Deltas are functions of the SKU.              *)

Plus(f, g) == [s \in Skus |-> f[s] + g[s]]
Minus(f) == [s \in Skus |-> -f[s]]
Only(s, delta) == [x \in Skus |-> IF x = s THEN delta ELSE 0]

Quantity(row) == IF row = NoRow THEN 0 ELSE row

\* Fault: a row opened with the new aggregate moves by delta once more.
SyncedTwice(w, delta, aggregate) ==
    [s \in Skus |->
        IF delta[s] = 0 THEN onHand[w][s]
        ELSE IF onHand[w][s] = NoRow THEN aggregate[s] + delta[s]
        ELSE onHand[w][s] + delta[s]]

\* _sync_warehouse_balance: an existing row moves by delta, a missing one is
\* opened with the aggregate as it is after the change.
Synced(w, delta, aggregate) ==
    [s \in Skus |->
        IF delta[s] = 0 THEN onHand[w][s]
        ELSE IF onHand[w][s] = NoRow THEN aggregate[s]
        ELSE onHand[w][s] + delta[s]]

\* The check constraint on on_hand, and stock being a PositiveIntegerField:
\* a violation rolls the caller's transaction back.
DatabaseAccepts(aggregate, delta, rows) ==
    \A s \in Skus : aggregate[s] >= 0 /\ (delta[s] # 0 => rows[s] >= 0)

\* The effect of recording delta against warehouse w while the aggregate
\* becomes aggregate.
Record(w, delta, aggregate) ==
    LET rows == Synced(w, delta, aggregate) IN
    /\ DatabaseAccepts(aggregate, delta, rows)
    /\ stock' = aggregate
    /\ onHand' = [onHand EXCEPT ![w] = rows]
    /\ opening' = [opening EXCEPT ![w] = [s \in Skus |->
                     IF delta[s] # 0 /\ onHand[w][s] = NoRow
                     THEN aggregate[s] - delta[s] ELSE @[s]]]
    /\ warehouseLedger' = [warehouseLedger EXCEPT ![w] = Plus(@, delta)]
    /\ stockLedger' = Plus(stockLedger, delta)

\* The effect of a transfer's movements on one warehouse: existing rows only.
Carry(w, delta, rows) ==
    /\ onHand' = [onHand EXCEPT ![w] = rows]
    /\ warehouseLedger' = [warehouseLedger EXCEPT ![w] = Plus(@, delta)]
    /\ UNCHANGED <<stock, opening, stockLedger>>

-----------------------------------------------------------------------------
(* Orders.                                                                 *)

\* create_order_from_cart reserves, consumes and decrements every item in
\* one transaction on locked rows; _lock_and_revalidate_items refuses an
\* item that exceeds the aggregate.
PlaceOrder(o, items) ==
    /\ order[o].status = "none"
    /\ items # Nothing
    /\ \A s \in Skus : items[s] <= stock[s]
    /\ Record(default, Minus(items), Plus(stock, Minus(items)))
    /\ order' = [order EXCEPT ![o] = [status |-> "placed", items |-> items,
                                      warehouse |-> default, restocked |-> FALSE]]
    /\ UNCHANGED <<default, active, transfer, count>>

\* restock_order, into the warehouse that is the default by now.
CancelOrder(o) ==
    /\ order[o].status = "placed"
    /\ Record(default, order[o].items, Plus(stock, order[o].items))
    /\ order' = [order EXCEPT ![o].status = "canceled"]
    /\ UNCHANGED <<default, active, transfer, count>>

\* _resolve_restock_warehouse: the manager's choice, else the warehouse that
\* fulfilled the order while it is active, else the default.
RestockWarehouse(o, explicit) ==
    IF explicit # NoWarehouse THEN explicit
    ELSE IF order[o].warehouse \in active THEN order[o].warehouse
    ELSE default

\* Fault: everything ordered goes back into the aggregate, not what was
\* received.
RestockItemsAll(o, received, explicit) ==
    /\ order[o].status = "placed"
    /\ ~order[o].restocked
    /\ received # Nothing
    /\ \A s \in Skus : received[s] <= order[o].items[s]
    /\ Record(RestockWarehouse(o, explicit), received, Plus(stock, order[o].items))
    /\ order' = [order EXCEPT ![o].restocked = TRUE]
    /\ UNCHANGED <<default, active, transfer, count>>

\* restock_return_item and restock_refund_item: once per returned item.
RestockItems(o, received, explicit) ==
    /\ order[o].status = "placed"
    /\ ~order[o].restocked
    /\ received # Nothing
    /\ \A s \in Skus : received[s] <= order[o].items[s]
    /\ Record(RestockWarehouse(o, explicit), received, Plus(stock, received))
    /\ order' = [order EXCEPT ![o].restocked = TRUE]
    /\ UNCHANGED <<default, active, transfer, count>>

-----------------------------------------------------------------------------
(* Corrections.                                                            *)

\* The model's bound on corrections: MaxStock limits the stock of a SKU and
\* what its ledger has accumulated.
WithinBounds(s, delta) ==
    /\ stock[s] + delta <= MaxStock
    /\ stockLedger[s] + delta \in -MaxStock..MaxStock

\* The import loads the product or variant.
CountReads(k, s) ==
    /\ count' = [count EXCEPT ![k] = [sku |-> s, before |-> stock[s]]]
    /\ UNCHANGED <<stockVars, default, active, order, transfer>>

\* A row is applied: the instance is saved whole, then adjust_stock_manually
\* records the difference to the stock it held.  Without one, nothing is
\* recorded, and the aggregate is what the instance held all the same.
CountWrites(k, new) ==
    LET s == count[k].sku
        delta == new - count[k].before IN
    /\ count[k] # NotCounting
    /\ WithinBounds(s, delta)
    /\ Record(default, Only(s, delta), [stock EXCEPT ![s] = new])
    /\ count' = [count EXCEPT ![k].before = new]
    /\ UNCHANGED <<default, active, order, transfer>>

\* Fault: a missing row is opened with the aggregate, not empty.
AdjustWarehouseFromAggregate(w, s, delta) ==
    LET row == (IF onHand[w][s] = NoRow THEN stock[s] ELSE onHand[w][s]) + delta IN
    /\ stock[s] + delta >= 0
    /\ row >= 0
    /\ WithinBounds(s, delta)
    /\ stock' = [stock EXCEPT ![s] = @ + delta]
    /\ onHand' = [onHand EXCEPT ![w][s] = row]
    /\ warehouseLedger' = [warehouseLedger EXCEPT ![w][s] = @ + delta]
    /\ stockLedger' = [stockLedger EXCEPT ![s] = @ + delta]
    /\ UNCHANGED <<opening, default, active, order, transfer, count>>

\* adjust_warehouse_stock in both modes, on the locked target: the row is
\* created empty when missing, even when the change is then zero or refused.
AdjustWarehouse(w, s, delta) ==
    LET row == Quantity(onHand[w][s]) + delta IN
    /\ stock[s] + delta >= 0
    /\ row >= 0
    /\ WithinBounds(s, delta)
    /\ stock' = [stock EXCEPT ![s] = @ + delta]
    /\ onHand' = [onHand EXCEPT ![w][s] = row]
    /\ warehouseLedger' = [warehouseLedger EXCEPT ![w][s] = @ + delta]
    /\ stockLedger' = [stockLedger EXCEPT ![s] = @ + delta]
    /\ UNCHANGED <<opening, default, active, order, transfer, count>>

\* The dashboard's bulk stock edit, and its product form: no movement, no
\* balance.
BulkSetStock(s, new) ==
    /\ stock' = [stock EXCEPT ![s] = new]
    /\ UNCHANGED <<onHand, ledgerVars, default, active, order, transfer, count>>

-----------------------------------------------------------------------------
(* Warehouses and transfers.                                               *)

\* set_default_warehouse and archive_warehouse: guard and write as one step.
\* The code guards on the instance its caller read; requests that race for
\* the default warehouse are not modelled.
SetDefault(w) ==
    /\ w \in active
    /\ default' = w
    /\ UNCHANGED <<stockVars, active, order, transfer, count>>

Archive(w) ==
    /\ w # default
    /\ active' = active \ {w}
    /\ UNCHANGED <<stockVars, default, order, transfer, count>>

\* WarehouseTransfer.ALLOWED_TRANSITIONS, as the statuses each may follow.
MayFollow ==
    [ draft      |-> {"none"},
      requested  |-> {"draft"},
      in_transit |-> {"requested"},
      received   |-> {"in_transit"},
      cancelled  |-> {"draft", "requested", "in_transit"} ]

\* Every transition locks the transfer and checks its status first.
Advance(t, status) ==
    /\ transfer[t].status \in MayFollow[status]
    /\ transfer' = [transfer EXCEPT ![t].status = status]
    /\ UNCHANGED <<default, active, order, count>>

CreateTransfer(t, from, to, items) ==
    /\ transfer[t].status = "none"
    /\ from # to
    /\ items # Nothing
    /\ transfer' = [transfer EXCEPT ![t] = [status |-> "draft", items |-> items,
                                            source |-> from, destination |-> to]]
    /\ UNCHANGED <<stockVars, default, active, order, count>>

RequestTransfer(t) == Advance(t, "requested") /\ UNCHANGED stockVars

ShipTransfer(t) ==
    LET w == transfer[t].source
        items == transfer[t].items IN
    /\ Advance(t, "in_transit")
    /\ \A s \in Skus : items[s] <= Quantity(onHand[w][s])
    /\ Carry(w, Minus(items), [s \in Skus |->
          IF items[s] = 0 THEN onHand[w][s] ELSE onHand[w][s] - items[s]])

ReceiveTransfer(t) ==
    LET w == transfer[t].destination
        items == transfer[t].items IN
    /\ Advance(t, "received")
    /\ Carry(w, items, [s \in Skus |->
          IF items[s] = 0 THEN onHand[w][s] ELSE Quantity(onHand[w][s]) + items[s]])

\* Fault: the items go back to the source even if they never left it.
CancelTransferAlways(t) ==
    LET w == transfer[t].source
        items == transfer[t].items IN
    /\ Advance(t, "cancelled")
    /\ Carry(w, items, [s \in Skus |->
          IF items[s] = 0 THEN onHand[w][s] ELSE onHand[w][s] + items[s]])

\* What was shipped goes back to the source.
CancelTransfer(t) ==
    LET w == transfer[t].source
        items == transfer[t].items IN
    /\ Advance(t, "cancelled")
    /\ IF transfer[t].status = "in_transit"
       THEN Carry(w, items, [s \in Skus |->
               IF items[s] = 0 THEN onHand[w][s] ELSE onHand[w][s] + items[s]])
       ELSE UNCHANGED stockVars

-----------------------------------------------------------------------------
OrderStep ==
    \E o \in Orders :
        \/ \E items \in Quantities : PlaceOrder(o, items)
        \/ CancelOrder(o)
        \/ \E received \in Quantities, explicit \in (ReturnTo \cap active) \cup {NoWarehouse} :
              RestockItems(o, received, explicit)

CorrectionStep ==
    \/ \E k \in Clerks :
          \/ \E s \in Skus : CountReads(k, s)
          \/ \E new \in 0..MaxStock : CountWrites(k, new)
    \/ \E w \in Adjustable, s \in Skus, delta \in -MaxQuantity..MaxQuantity :
          AdjustWarehouse(w, s, delta)
    \/ \E s \in BulkEditable, new \in 0..MaxStock : BulkSetStock(s, new)

WarehouseStep ==
    \/ \E w \in DefaultChoices : SetDefault(w)
    \/ \E w \in Warehouses : Archive(w)

TransferStep ==
    \E t \in Transfers :
        \/ \E from, to \in Warehouses, items \in Quantities : CreateTransfer(t, from, to, items)
        \/ RequestTransfer(t)
        \/ ShipTransfer(t)
        \/ ReceiveTransfer(t)
        \/ CancelTransfer(t)

Next == OrderStep \/ CorrectionStep \/ WarehouseStep \/ TransferStep

Spec == Init /\ [][Next]_vars

-----------------------------------------------------------------------------
(* Properties.                                                             *)

TotalOnHand(s) == SumFunction([w \in Warehouses |-> Quantity(onHand[w][s])])

LedgerTotal(s) == SumFunction([w \in Warehouses |-> warehouseLedger[w][s]])

OnTheRoad(t, s) == IF transfer[t].status = "in_transit" THEN transfer[t].items[s] ELSE 0

InTransit(s) == SumFunction([t \in Transfers |-> OnTheRoad(t, s)])

\* StockMovement's docstring: the stock is what the ledger says it is.  Holds
\* for every operation that locks the row it changes.
LedgerExact == \A s \in Skus : stock[s] = OpeningStock[s] + stockLedger[s]

\* The rows of a warehouse move only by what the ledger records for it, and
\* stay that way under stale counts, bulk edits and any change of default.
BalancesFollowLedger ==
    \A w \in Warehouses, s \in Skus :
        onHand[w][s] # NoRow => onHand[w][s] = opening[w][s] + warehouseLedger[w][s]

\* Transfers neither create nor lose stock: what all warehouses recorded,
\* and what is on the road, is what the aggregate recorded.
LedgersAgree == \A s \in Skus : LedgerTotal(s) + InTransit(s) = stockLedger[s]

\* With a fixed default warehouse that was provisioned, and returns that go
\* back to where they came from, the split over the warehouses accounts for
\* the whole aggregate, counting goods on the road.
SplitWithTransit == \A s \in Skus : TotalOnHand(s) + InTransit(s) = stock[s]

\* WarehouseInventory's docstring: the on_hand of all warehouses adds up to
\* the stock.  Refuted while a transfer is under way, and whenever a row is
\* opened with the aggregate beside another: by the first order after a
\* change of default, or by a return to a warehouse the manager chose.
SplitExact == \A s \in Skus : TotalOnHand(s) = stock[s]

=============================================================================
