--------------------------- MODULE InventoryProofs ---------------------------
(***************************************************************************)
(* Proofs about Inventory, for any warehouses, SKUs, orders and transfers: *)
(* types, the balances that follow the ledger, and the exact ledger of the *)
(* operations that lock what they change.                                  *)
(***************************************************************************)
EXTENDS Inventory, FoldProofs, TLAPS

-----------------------------------------------------------------------------
(* Types.  What Record and Carry do to the stock is stated once.           *)

StockTypes ==
    /\ stock \in [Skus -> Nat]
    /\ onHand \in [Warehouses -> [Skus -> Nat \cup {NoRow}]]
    /\ opening \in [Warehouses -> [Skus -> Nat]]
    /\ warehouseLedger \in [Warehouses -> [Skus -> Int]]
    /\ stockLedger \in [Skus -> Int]

OrderType ==
    [status : {"none", "placed", "canceled"}, items : Quantities,
     warehouse : Warehouses \cup {NoWarehouse}, restocked : BOOLEAN]

TransferType ==
    [status : TransferStatus, items : Quantities,
     source : Warehouses \cup {NoWarehouse}, destination : Warehouses \cup {NoWarehouse}]

\* The arithmetic of deltas.
LEMMA Deltas ==
    ASSUME NEW f \in [Skus -> Int], NEW g \in [Skus -> Int], NEW s \in Skus, NEW d \in Int
    PROVE  /\ Plus(f, g) \in [Skus -> Int] /\ Minus(f) \in [Skus -> Int]
           /\ Only(s, d) \in [Skus -> Int]
  BY DEF Plus, Minus, Only

\* Quantities of items are functions into the integers.
LEMMA ItemsAreDeltas ==
    ASSUME NEW items \in Quantities
    PROVE  /\ items \in [Skus -> Int] /\ Minus(items) \in [Skus -> Int]
           /\ \A s \in Skus : items[s] \in Nat
  BY BoundAssumption DEF Quantities, Minus

\* A recorded movement keeps the types: the database refuses what is below
\* zero, and a row is opened with what the aggregate was before.
LEMMA RecordTypes ==
    ASSUME StockTypes, NEW w \in Warehouses,
           NEW delta \in [Skus -> Int], NEW aggregate \in [Skus -> Int],
           \A s \in Skus : delta[s] # 0 => aggregate[s] - delta[s] >= 0,
           Record(w, delta, aggregate)
    PROVE  StockTypes'
  <1> DEFINE rows == Synced(w, delta, aggregate)
  <1>1. stock' \in [Skus -> Nat]
    BY DEF Record, DatabaseAccepts
  <1>2. rows \in [Skus -> Nat \cup {NoRow}]
    <2> SUFFICES ASSUME NEW s \in Skus PROVE rows[s] \in Nat \cup {NoRow}
      BY DEF Synced
    <2>1. CASE delta[s] = 0
      BY <2>1 DEF Synced, StockTypes
    <2>2. CASE delta[s] # 0
      <3>1. rows[s] >= 0
        BY <2>2 DEF Record, DatabaseAccepts
      <3>2. rows[s] \in Int
        BY <2>2 DEF Synced, StockTypes, NoRow
      <3> QED
        BY <3>1, <3>2
    <2> QED
      BY <2>1, <2>2
  <1>3. onHand' \in [Warehouses -> [Skus -> Nat \cup {NoRow}]]
    BY <1>2 DEF Record, StockTypes
  <1>4. opening' \in [Warehouses -> [Skus -> Nat]]
    BY DEF Record, StockTypes
  <1>5. warehouseLedger' \in [Warehouses -> [Skus -> Int]] /\ stockLedger' \in [Skus -> Int]
    BY DEF Record, StockTypes, Plus
  <1> QED
    BY <1>1, <1>3, <1>4, <1>5 DEF StockTypes

\* A transfer's movement keeps them when the new rows are quantities.  A
\* transfer that is none yet has no warehouses, and moves nothing.
LEMMA CarryTypes ==
    ASSUME StockTypes, NEW w \in Warehouses \cup {NoWarehouse}, NEW delta \in [Skus -> Int],
           NEW rows, w \in Warehouses => rows \in [Skus -> Nat \cup {NoRow}],
           Carry(w, delta, rows)
    PROVE  StockTypes'
  <1>1. CASE w \in Warehouses
    BY <1>1 DEF Carry, StockTypes, Plus
  <1>2. CASE w \notin Warehouses
    BY <1>2 DEF Carry, StockTypes
  <1> QED
    BY <1>1, <1>2

\* The opening state.
LEMMA InitTypes == Init => TypeOK
  <1> SUFFICES ASSUME Init PROVE TypeOK
    OBVIOUS
  <1>1. NewOrder \in OrderType /\ NewTransfer \in TransferType
    BY BoundAssumption
    DEF NewOrder, NewTransfer, OrderType, TransferType, TransferStatus, Nothing, Quantities
  <1>2. StockTypes
    BY BoundAssumption DEF Init, StockTypes, Nothing
  <1>3. order \in [Orders -> OrderType] /\ transfer \in [Transfers -> TransferType]
    BY <1>1 DEF Init
  <1>4. /\ default \in Warehouses /\ active \subseteq Warehouses
        /\ count \in [Clerks -> [sku : Skus, before : Nat] \cup {NotCounting}]
    BY DefaultAssumption DEF Init
  <1> QED
    BY <1>2, <1>3, <1>4 DEF TypeOK, StockTypes, OrderType, TransferType

\* Orders: what is taken was checked, what returns is what was ordered.
LEMMA OrderTypes ==
    ASSUME TypeOK, OrderStep
    PROVE  TypeOK'
  <1>0. StockTypes /\ order \in [Orders -> OrderType]
    BY DEF TypeOK, StockTypes, OrderType
  <1>1. ASSUME NEW o \in Orders, NEW items \in Quantities, PlaceOrder(o, items)
        PROVE  TypeOK'
    <2>1. /\ Minus(items) \in [Skus -> Int]
          /\ Plus(stock, Minus(items)) \in [Skus -> Int]
          /\ \A s \in Skus : Plus(stock, Minus(items))[s] - Minus(items)[s] >= 0
      BY <1>0, ItemsAreDeltas DEF Plus, Minus, StockTypes
    <2>2. StockTypes'
      BY <1>0, <1>1, <2>1, RecordTypes DEF PlaceOrder, TypeOK
    <2>3. order' \in [Orders -> OrderType]
      BY <1>0, <1>1 DEF PlaceOrder, OrderType, TypeOK
    <2> QED
      BY <1>1, <2>2, <2>3 DEF PlaceOrder, TypeOK, StockTypes, OrderType
  <1>2. ASSUME NEW o \in Orders, CancelOrder(o)
        PROVE  TypeOK'
    <2>1. order[o].items \in Quantities
      BY <1>0 DEF OrderType
    <2>2. /\ order[o].items \in [Skus -> Int]
          /\ Plus(stock, order[o].items) \in [Skus -> Int]
          /\ \A s \in Skus : Plus(stock, order[o].items)[s] - order[o].items[s] >= 0
      BY <1>0, <2>1, ItemsAreDeltas DEF Plus, StockTypes
    <2>3. StockTypes'
      BY <1>0, <1>2, <2>2, RecordTypes DEF CancelOrder, TypeOK
    <2>4. order' \in [Orders -> OrderType]
      BY <1>0, <1>2 DEF CancelOrder, OrderType
    <2> QED
      BY <1>2, <2>3, <2>4 DEF CancelOrder, TypeOK, StockTypes, OrderType
  <1>3. ASSUME NEW o \in Orders, NEW received \in Quantities,
               NEW explicit \in (ReturnTo \cap active) \cup {NoWarehouse},
               RestockItems(o, received, explicit)
        PROVE  TypeOK'
    <2>1. RestockWarehouse(o, explicit) \in Warehouses
      BY ScenarioAssumption DEF RestockWarehouse, TypeOK
    <2>2. /\ received \in [Skus -> Int]
          /\ Plus(stock, received) \in [Skus -> Int]
          /\ \A s \in Skus : Plus(stock, received)[s] - received[s] >= 0
      BY <1>0, ItemsAreDeltas DEF Plus, StockTypes
    <2>3. StockTypes'
      BY <1>0, <1>3, <2>1, <2>2, RecordTypes DEF RestockItems
    <2>4. order' \in [Orders -> OrderType]
      BY <1>0, <1>3 DEF RestockItems, OrderType
    <2> QED
      BY <1>3, <2>3, <2>4 DEF RestockItems, TypeOK, StockTypes, OrderType
  <1> QED
    BY <1>1, <1>2, <1>3 DEF OrderStep

\* Corrections: a count writes a quantity over what it had read.
LEMMA CorrectionTypes ==
    ASSUME TypeOK, CorrectionStep
    PROVE  TypeOK'
  <1>0. StockTypes
    BY DEF TypeOK, StockTypes
  <1>1. ASSUME NEW k \in Clerks, NEW s \in Skus, CountReads(k, s)
        PROVE  TypeOK'
    BY <1>1 DEF CountReads, TypeOK, stockVars, ledgerVars
  <1>2. ASSUME NEW k \in Clerks, NEW new \in 0..MaxStock, CountWrites(k, new)
        PROVE  TypeOK'
    <2> DEFINE s == count[k].sku
               delta == new - count[k].before
               aggregate == [stock EXCEPT ![s] = new]
    <2>1. count[k] \in [sku : Skus, before : Nat] /\ new \in Nat
      BY <1>2, BoundAssumption DEF CountWrites, TypeOK
    <2>2. /\ Only(s, delta) \in [Skus -> Int] /\ aggregate \in [Skus -> Int]
          /\ \A x \in Skus : Only(s, delta)[x] # 0 => aggregate[x] - Only(s, delta)[x] >= 0
      BY <1>0, <2>1 DEF Only, StockTypes
    <2>3. Record(default, Only(s, delta), aggregate)
      BY <1>2 DEF CountWrites
    <2>4. default \in Warehouses
      BY DEF TypeOK
    <2>5. StockTypes'
      <3> HIDE DEF s, delta, aggregate
      <3> QED
        BY <1>0, <2>2, <2>3, <2>4, RecordTypes
    <2>6. count' \in [Clerks -> [sku : Skus, before : Nat] \cup {NotCounting}]
      BY <1>2, <2>1 DEF CountWrites, TypeOK
    <2> QED
      BY <1>2, <2>5, <2>6 DEF CountWrites, TypeOK, StockTypes
  <1>3. ASSUME NEW w \in Adjustable, NEW s \in Skus, NEW delta \in -MaxQuantity..MaxQuantity,
               AdjustWarehouse(w, s, delta)
        PROVE  TypeOK'
    <2>1. w \in Warehouses /\ delta \in Int
      BY ScenarioAssumption, BoundAssumption
    <2>2. StockTypes'
      BY <1>0, <1>3, <2>1 DEF AdjustWarehouse, StockTypes, Quantity, NoRow
    <2> QED
      BY <1>3, <2>2 DEF AdjustWarehouse, TypeOK, StockTypes
  <1>4. ASSUME NEW s \in BulkEditable, NEW new \in 0..MaxStock, BulkSetStock(s, new)
        PROVE  TypeOK'
    BY <1>4, BoundAssumption, ScenarioAssumption DEF BulkSetStock, TypeOK, ledgerVars
  <1> QED
    BY <1>1, <1>2, <1>3, <1>4 DEF CorrectionStep

\* What a transition of a transfer does to the transfer.
LEMMA AdvanceTypes ==
    ASSUME TypeOK, NEW t \in Transfers, NEW status \in TransferStatus, Advance(t, status)
    PROVE  /\ transfer' \in [Transfers -> TransferType]
           /\ UNCHANGED <<default, active, order, count>>
  BY DEF Advance, TypeOK, TransferType

\* Transfers: nothing is shipped that the source does not hold.
LEMMA TransferTypes ==
    ASSUME TypeOK, TransferStep
    PROVE  TypeOK'
  <1>0. StockTypes /\ transfer \in [Transfers -> TransferType]
    BY DEF TypeOK, StockTypes, TransferType
  <1> SUFFICES ASSUME NEW t \in Transfers,
                      \/ \E from, to \in Warehouses, items \in Quantities :
                            CreateTransfer(t, from, to, items)
                      \/ RequestTransfer(t)
                      \/ ShipTransfer(t)
                      \/ ReceiveTransfer(t)
                      \/ CancelTransfer(t)
               PROVE  TypeOK'
    BY DEF TransferStep
  <1> DEFINE from == transfer[t].source
             to == transfer[t].destination
             items == transfer[t].items
  <1>1. /\ items \in Quantities /\ items \in [Skus -> Int] /\ Minus(items) \in [Skus -> Int]
        /\ \A s \in Skus : items[s] \in Nat
        /\ from \in Warehouses \cup {NoWarehouse} /\ to \in Warehouses \cup {NoWarehouse}
    BY <1>0, ItemsAreDeltas DEF TransferType
  <1>2. CASE \E f, g \in Warehouses, i \in Quantities : CreateTransfer(t, f, g, i)
    BY <1>2 DEF CreateTransfer, TypeOK, TransferStatus, stockVars, ledgerVars
  <1>3. CASE RequestTransfer(t)
    BY <1>3, AdvanceTypes DEF RequestTransfer, TypeOK, TransferStatus, TransferType, stockVars, ledgerVars
  <1>4. CASE ShipTransfer(t)
    <2> DEFINE rows == [s \in Skus |-> IF items[s] = 0 THEN onHand[from][s]
                                       ELSE onHand[from][s] - items[s]]
    <2>1. Advance(t, "in_transit") /\ Carry(from, Minus(items), rows)
      BY <1>4 DEF ShipTransfer
    <2>2. from \in Warehouses => rows \in [Skus -> Nat \cup {NoRow}]
      BY <1>0, <1>1, <1>4 DEF ShipTransfer, Quantity, StockTypes, NoRow
    <2> HIDE DEF rows, from, to, items
    <2>3. StockTypes'
      BY <1>0, <1>1, <2>1, <2>2, CarryTypes
    <2> QED
      BY <2>1, <2>3, AdvanceTypes DEF TypeOK, StockTypes, TransferType, TransferStatus
  <1>5. CASE ReceiveTransfer(t)
    <2> DEFINE rows == [s \in Skus |-> IF items[s] = 0 THEN onHand[to][s]
                                       ELSE Quantity(onHand[to][s]) + items[s]]
    <2>1. Advance(t, "received") /\ Carry(to, items, rows)
      BY <1>5 DEF ReceiveTransfer
    <2>2. to \in Warehouses => rows \in [Skus -> Nat \cup {NoRow}]
      BY <1>0, <1>1 DEF Quantity, StockTypes, NoRow
    <2> HIDE DEF rows, from, to, items
    <2>3. StockTypes'
      BY <1>0, <1>1, <2>1, <2>2, CarryTypes
    <2> QED
      BY <2>1, <2>3, AdvanceTypes DEF TypeOK, StockTypes, TransferType, TransferStatus
  <1>6. CASE CancelTransfer(t)
    <2> DEFINE rows == [s \in Skus |-> IF items[s] = 0 THEN onHand[from][s]
                                       ELSE onHand[from][s] + items[s]]
    <2>1. Advance(t, "cancelled") /\ (Carry(from, items, rows) \/ UNCHANGED stockVars)
      BY <1>6 DEF CancelTransfer
    <2>2. from \in Warehouses => rows \in [Skus -> Nat \cup {NoRow}]
      BY <1>0, <1>1 DEF StockTypes, NoRow
    <2> HIDE DEF rows, from, to, items
    <2>3. StockTypes'
      <3>1. CASE Carry(from, items, rows)
        BY <1>0, <1>1, <2>2, <3>1, CarryTypes
      <3>2. CASE UNCHANGED stockVars
        BY <1>0, <3>2 DEF StockTypes, stockVars, ledgerVars
      <3> QED
        BY <2>1, <3>1, <3>2
    <2> QED
      BY <2>1, <2>3, AdvanceTypes DEF TypeOK, StockTypes, TransferType, TransferStatus
  <1> QED
    BY <1>2, <1>3, <1>4, <1>5, <1>6

\* Changing the default and archiving touch no stock.
LEMMA WarehouseTypes ==
    ASSUME TypeOK, WarehouseStep
    PROVE  TypeOK'
  <1>1. ASSUME NEW w \in DefaultChoices, SetDefault(w) PROVE TypeOK'
    BY <1>1, DefaultAssumption DEF SetDefault, TypeOK, stockVars, ledgerVars
  <1>2. ASSUME NEW w \in Warehouses, Archive(w) PROVE TypeOK'
    BY <1>2 DEF Archive, TypeOK, stockVars, ledgerVars
  <1> QED
    BY <1>1, <1>2 DEF WarehouseStep

\* Every step keeps the types.
LEMMA NextTypes == TypeOK /\ [Next]_vars => TypeOK'
  <1>1. TypeOK /\ UNCHANGED vars => TypeOK'
    BY DEF TypeOK, vars, stockVars, ledgerVars
  <1> QED
    BY <1>1, OrderTypes, CorrectionTypes, WarehouseTypes, TransferTypes DEF Next

\* Type correctness: no stock and no balance below zero, whatever the order
\* of sales, returns, imports, corrections and transfers.
THEOREM TypeCorrect == Spec => []TypeOK
  BY InitTypes, NextTypes, PTL DEF Spec

-----------------------------------------------------------------------------
(* Balances follow the ledger.                                             *)

\* Each row is what it was opened with and what the ledger recorded since;
\* where there is no row, nothing was recorded.
RowsFollow ==
    \A w \in Warehouses, s \in Skus :
        IF onHand[w][s] = NoRow
        THEN opening[w][s] = 0 /\ warehouseLedger[w][s] = 0
        ELSE onHand[w][s] = opening[w][s] + warehouseLedger[w][s]

\* Goods on the road left a row, which a cancellation finds again.
ShippedFromRow ==
    \A t \in Transfers, w \in Warehouses, s \in Skus :
        transfer[t].status = "in_transit" /\ transfer[t].source = w
            /\ transfer[t].items[s] # 0 => onHand[w][s] # NoRow

BalanceInv == TypeOK /\ RowsFollow /\ ShippedFromRow

\* No step takes a row away.
RowsStay ==
    \A w \in Warehouses, s \in Skus : onHand[w][s] # NoRow => onHand'[w][s] # NoRow

\* At first only provisioned rows exist, opened at the stock.
LEMMA InitBalances == Init => BalanceInv
  <1> SUFFICES ASSUME Init PROVE RowsFollow /\ ShippedFromRow
    BY InitTypes DEF BalanceInv
  <1>1. RowsFollow
    BY BoundAssumption DEF Init, RowsFollow, Nothing, NoRow
  <1>2. ShippedFromRow
    BY DEF Init, ShippedFromRow, NewTransfer
  <1> QED
    BY <1>1, <1>2

\* A recorded movement moves the row and its ledger alike, or opens the row
\* at what makes up the difference.
LEMMA RecordBalances ==
    ASSUME StockTypes, RowsFollow, NEW w \in Warehouses,
           NEW delta \in [Skus -> Int], NEW aggregate \in [Skus -> Int],
           Record(w, delta, aggregate)
    PROVE  RowsFollow' /\ RowsStay
  <1> DEFINE rows == Synced(w, delta, aggregate)
  <1>1. \A s \in Skus : delta[s] # 0 => rows[s] \in Int /\ rows[s] # NoRow
    BY DEF Record, DatabaseAccepts, Synced, StockTypes, NoRow
  <1>2. \A s \in Skus : delta[s] = 0 => rows[s] = onHand[w][s]
    BY DEF Synced
  <1>3. \A v \in Warehouses, s \in Skus :
          /\ onHand'[v][s] = IF v = w THEN rows[s] ELSE onHand[v][s]
          /\ opening'[v][s] = IF v = w /\ delta[s] # 0 /\ onHand[w][s] = NoRow
                              THEN aggregate[s] - delta[s] ELSE opening[v][s]
          /\ warehouseLedger'[v][s] = IF v = w THEN warehouseLedger[v][s] + delta[s]
                                      ELSE warehouseLedger[v][s]
    BY DEF Record, StockTypes, Plus
  <1>4. \A s \in Skus : delta[s] # 0 =>
          rows[s] = IF onHand[w][s] = NoRow THEN aggregate[s] ELSE onHand[w][s] + delta[s]
    BY DEF Synced
  <1> HIDE DEF rows
  <1>5. RowsStay
    BY <1>1, <1>2, <1>3 DEF RowsStay
  <1>6. RowsFollow'
    <2> SUFFICES ASSUME NEW v \in Warehouses, NEW s \in Skus
                 PROVE  IF onHand'[v][s] = NoRow
                        THEN opening'[v][s] = 0 /\ warehouseLedger'[v][s] = 0
                        ELSE onHand'[v][s] = opening'[v][s] + warehouseLedger'[v][s]
      BY DEF RowsFollow
    <2>0. /\ opening[v][s] \in Int /\ warehouseLedger[v][s] \in Int
          /\ onHand[v][s] # NoRow => onHand[v][s] \in Int
          /\ delta[s] \in Int /\ aggregate[s] \in Int
      BY DEF StockTypes
    <2>1. CASE v # w
      BY <1>3, <2>0, <2>1 DEF RowsFollow
    <2>4. CASE v = w /\ delta[s] = 0
      <3>1. /\ onHand'[v][s] = onHand[v][s] /\ opening'[v][s] = opening[v][s]
            /\ warehouseLedger'[v][s] = warehouseLedger[v][s]
        BY <1>2, <1>3, <2>0, <2>4
      <3> QED
        BY <3>1 DEF RowsFollow
    <2>2. CASE v = w /\ delta[s] # 0 /\ onHand[w][s] = NoRow
      BY <1>1, <1>3, <1>4, <2>0, <2>2 DEF RowsFollow
    <2>3. CASE v = w /\ delta[s] # 0 /\ onHand[w][s] # NoRow
      <3>1. /\ onHand'[v][s] = onHand[v][s] + delta[s] /\ opening'[v][s] = opening[v][s]
            /\ warehouseLedger'[v][s] = warehouseLedger[v][s] + delta[s]
        BY <1>3, <1>4, <2>3
      <3>2. onHand[v][s] = opening[v][s] + warehouseLedger[v][s]
        BY <2>3 DEF RowsFollow
      <3>3. onHand'[v][s] # NoRow
        BY <1>1, <1>3, <2>3
      <3> QED
        BY <2>0, <3>1, <3>2, <3>3
    <2> QED
      BY <2>1, <2>2, <2>3, <2>4
  <1> QED
    BY <1>5, <1>6

\* So does a transfer's movement between rows that exist, or one it creates.
LEMMA CarryBalances ==
    ASSUME StockTypes, RowsFollow, NEW w \in Warehouses \cup {NoWarehouse},
           NEW delta \in [Skus -> Int], NEW rows,
           w \in Warehouses =>
               /\ rows \in [Skus -> Nat \cup {NoRow}]
               /\ \A s \in Skus : IF delta[s] = 0 THEN rows[s] = onHand[w][s]
                                  ELSE rows[s] # NoRow /\ rows[s] = Quantity(onHand[w][s]) + delta[s],
           Carry(w, delta, rows)
    PROVE  RowsFollow' /\ RowsStay
  <1>1. CASE w \notin Warehouses
    BY <1>1 DEF Carry, RowsFollow, RowsStay, StockTypes
  <1>2. CASE w \in Warehouses
    <2>1. \A v \in Warehouses, s \in Skus :
            /\ onHand'[v][s] = IF v = w THEN rows[s] ELSE onHand[v][s]
            /\ opening'[v][s] = opening[v][s]
            /\ warehouseLedger'[v][s] = IF v = w THEN warehouseLedger[v][s] + delta[s]
                                        ELSE warehouseLedger[v][s]
      BY <1>2 DEF Carry, StockTypes, Plus
    <2>2. RowsStay
      BY <1>2, <2>1 DEF RowsStay
    <2>3. RowsFollow'
      BY <1>2, <2>1 DEF RowsFollow, StockTypes, Quantity
    <2> QED
      BY <2>2, <2>3
  <1> QED
    BY <1>1, <1>2

\* Steps that leave the transfers alone keep what they shipped accounted for.
LEMMA ShippedStays ==
    ASSUME ShippedFromRow, RowsStay, UNCHANGED transfer
    PROVE  ShippedFromRow'
  BY DEF ShippedFromRow, RowsStay

\* Steps that leave rows, openings and ledgers alone.
LEMMA RowsUnchanged ==
    ASSUME RowsFollow, UNCHANGED <<onHand, opening, warehouseLedger>>
    PROVE  RowsFollow' /\ RowsStay
  BY DEF RowsFollow, RowsStay

\* Orders go out of the default warehouse as it is.
FulfilledFromDefault ==
    \A o \in Orders : order[o].status = "placed" => order[o].warehouse = default

\* Every step on an order records one movement, by as much as the aggregate
\* changes; at the default, where nothing has ever left from elsewhere.
LEMMA OrderRecords ==
    ASSUME TypeOK, OrderStep
    PROVE  \E w \in Warehouses, delta \in [Skus -> Int] :
              /\ Record(w, delta, Plus(stock, delta))
              /\ UNCHANGED transfer
              /\ ReturnTo \subseteq {default} /\ FulfilledFromDefault => w = default
  <1>0. order \in [Orders -> OrderType] /\ default \in Warehouses
    BY DEF TypeOK, OrderType
  <1> DEFINE Goal == \E w \in Warehouses, delta \in [Skus -> Int] :
                        /\ Record(w, delta, Plus(stock, delta))
                        /\ UNCHANGED transfer
                        /\ ReturnTo \subseteq {default} /\ FulfilledFromDefault => w = default
  <1>1. ASSUME NEW o \in Orders, NEW items \in Quantities, PlaceOrder(o, items)
        PROVE  Goal
    <2>1. Minus(items) \in [Skus -> Int]
      BY ItemsAreDeltas
    <2> QED
      BY <1>0, <1>1, <2>1 DEF PlaceOrder
  <1>2. ASSUME NEW o \in Orders, CancelOrder(o)
        PROVE  Goal
    <2>1. order[o].items \in [Skus -> Int]
      BY <1>0, ItemsAreDeltas DEF OrderType
    <2> QED
      BY <1>0, <1>2, <2>1 DEF CancelOrder
  <1>3. ASSUME NEW o \in Orders, NEW received \in Quantities,
               NEW explicit \in (ReturnTo \cap active) \cup {NoWarehouse},
               RestockItems(o, received, explicit)
        PROVE  Goal
    <2>1. received \in [Skus -> Int]
      BY ItemsAreDeltas
    <2>2. RestockWarehouse(o, explicit) \in Warehouses
      BY ScenarioAssumption DEF RestockWarehouse, TypeOK
    <2>3. ReturnTo \subseteq {default} /\ FulfilledFromDefault =>
              RestockWarehouse(o, explicit) = default
      BY <1>3 DEF RestockItems, RestockWarehouse, FulfilledFromDefault
    <2> QED
      BY <1>3, <2>1, <2>2, <2>3 DEF RestockItems
  <1> QED
    BY <1>1, <1>2, <1>3 DEF OrderStep

\* The rows follow, and nothing on the road is touched.
LEMMA OrderBalances ==
    ASSUME BalanceInv, OrderStep
    PROVE  RowsFollow' /\ RowsStay /\ ShippedFromRow'
  <1>0. StockTypes /\ order \in [Orders -> OrderType] /\ default \in Warehouses
    BY DEF BalanceInv, TypeOK, StockTypes, OrderType
  <1>1. PICK w \in Warehouses, delta \in [Skus -> Int] :
          Record(w, delta, Plus(stock, delta)) /\ UNCHANGED transfer
    BY OrderRecords DEF BalanceInv
  <1>3. Plus(stock, delta) \in [Skus -> Int]
    BY <1>0 DEF Plus, StockTypes
  <1>2. RowsFollow' /\ RowsStay
    BY <1>0, <1>1, <1>3, RecordBalances DEF BalanceInv
  <1> QED
    BY <1>1, <1>2, ShippedStays DEF BalanceInv

\* Corrections move a row with its ledger, or touch neither.
LEMMA CorrectionBalances ==
    ASSUME BalanceInv, CorrectionStep
    PROVE  RowsFollow' /\ RowsStay /\ ShippedFromRow'
  <1>0. StockTypes /\ RowsFollow /\ ShippedFromRow /\ default \in Warehouses
    BY DEF BalanceInv, TypeOK, StockTypes
  <1>1. RowsFollow' /\ RowsStay /\ UNCHANGED transfer
    <2>1. ASSUME NEW k \in Clerks, NEW s \in Skus, CountReads(k, s)
          PROVE  RowsFollow' /\ RowsStay /\ UNCHANGED transfer
      BY <1>0, <2>1, RowsUnchanged DEF CountReads, stockVars, ledgerVars
    <2>2. ASSUME NEW k \in Clerks, NEW new \in 0..MaxStock, CountWrites(k, new)
          PROVE  RowsFollow' /\ RowsStay /\ UNCHANGED transfer
      <3> DEFINE delta == Only(count[k].sku, new - count[k].before)
                 aggregate == [stock EXCEPT ![count[k].sku] = new]
      <3>1. count[k] \in [sku : Skus, before : Nat] /\ new \in Nat
        BY <2>2, BoundAssumption DEF CountWrites, BalanceInv, TypeOK
      <3>2. delta \in [Skus -> Int] /\ aggregate \in [Skus -> Int]
        BY <1>0, <3>1 DEF Only, StockTypes
      <3>3. Record(default, delta, aggregate) /\ UNCHANGED transfer
        BY <2>2 DEF CountWrites
      <3> HIDE DEF delta, aggregate
      <3> QED
        BY <1>0, <3>2, <3>3, RecordBalances
    <2>3. ASSUME NEW w \in Adjustable, NEW s \in Skus, NEW delta \in -MaxQuantity..MaxQuantity,
                 AdjustWarehouse(w, s, delta)
          PROVE  RowsFollow' /\ RowsStay /\ UNCHANGED transfer
      <3>1. w \in Warehouses /\ delta \in Int
        BY ScenarioAssumption, BoundAssumption
      <3>2. /\ Quantity(onHand[w][s]) + delta \in Nat
            /\ \A v \in Warehouses, x \in Skus :
                 /\ onHand'[v][x] = IF v = w /\ x = s THEN Quantity(onHand[w][s]) + delta
                                    ELSE onHand[v][x]
                 /\ opening'[v][x] = opening[v][x]
                 /\ warehouseLedger'[v][x] = IF v = w /\ x = s THEN warehouseLedger[v][x] + delta
                                             ELSE warehouseLedger[v][x]
        BY <1>0, <2>3, <3>1 DEF AdjustWarehouse, StockTypes, Quantity, NoRow
      <3>3. RowsStay
        BY <3>2 DEF RowsStay, NoRow
      <3>4. RowsFollow'
        <4> SUFFICES ASSUME NEW v \in Warehouses, NEW x \in Skus
                     PROVE  IF onHand'[v][x] = NoRow
                            THEN opening'[v][x] = 0 /\ warehouseLedger'[v][x] = 0
                            ELSE onHand'[v][x] = opening'[v][x] + warehouseLedger'[v][x]
          BY DEF RowsFollow
        <4>1. CASE v # w \/ x # s
          BY <1>0, <3>2, <4>1 DEF RowsFollow
        <4>2. CASE v = w /\ x = s
          <5>1. /\ opening[w][s] \in Int /\ warehouseLedger[w][s] \in Int
                /\ Quantity(onHand[w][s]) = opening[w][s] + warehouseLedger[w][s]
            BY <1>0, <3>1 DEF RowsFollow, Quantity, StockTypes
          <5> QED
            BY <3>1, <3>2, <4>2, <5>1 DEF NoRow
        <4> QED
          BY <4>1, <4>2
      <3> QED
        BY <2>3, <3>3, <3>4 DEF AdjustWarehouse
    <2>4. ASSUME NEW s \in BulkEditable, NEW new \in 0..MaxStock, BulkSetStock(s, new)
          PROVE  RowsFollow' /\ RowsStay /\ UNCHANGED transfer
      BY <1>0, <2>4, RowsUnchanged DEF BulkSetStock, ledgerVars
    <2> QED
      BY <2>1, <2>2, <2>3, <2>4 DEF CorrectionStep
  <1> QED
    BY <1>0, <1>1, ShippedStays

\* A change of default, or an archived warehouse, moves no row.
LEMMA WarehouseBalances ==
    ASSUME BalanceInv, WarehouseStep
    PROVE  RowsFollow' /\ RowsStay /\ ShippedFromRow'
  <1>1. UNCHANGED <<onHand, opening, warehouseLedger, transfer>>
    BY DEF WarehouseStep, SetDefault, Archive, stockVars, ledgerVars
  <1> QED
    BY <1>1, RowsUnchanged, ShippedStays DEF BalanceInv

\* The transfers after an advance of t: only its status is new.
LEMMA AdvanceShipped ==
    ASSUME BalanceInv, NEW t \in Transfers, NEW status, Advance(t, status), RowsStay,
           status = "in_transit" =>
               \A s \in Skus : transfer[t].source \in Warehouses /\ transfer[t].items[s] # 0 =>
                   onHand[transfer[t].source][s] # NoRow
    PROVE  ShippedFromRow'
  <1>1. /\ \A u \in Transfers : /\ transfer'[u].source = transfer[u].source
                                /\ transfer'[u].items = transfer[u].items
                                /\ u # t => transfer'[u].status = transfer[u].status
        /\ transfer'[t].status = status
    BY DEF Advance, BalanceInv, TypeOK
  <1> QED
    BY <1>1 DEF ShippedFromRow, RowsStay, BalanceInv

\* Transfers move rows that exist; only receiving creates one, empty.
LEMMA TransferBalances ==
    ASSUME BalanceInv, TransferStep
    PROVE  RowsFollow' /\ RowsStay /\ ShippedFromRow'
  <1>0. StockTypes /\ transfer \in [Transfers -> TransferType] /\ RowsFollow /\ ShippedFromRow
    BY DEF BalanceInv, TypeOK, StockTypes, TransferType
  <1> SUFFICES ASSUME NEW t \in Transfers,
                      \/ \E f, g \in Warehouses, i \in Quantities : CreateTransfer(t, f, g, i)
                      \/ RequestTransfer(t)
                      \/ ShipTransfer(t)
                      \/ ReceiveTransfer(t)
                      \/ CancelTransfer(t)
               PROVE  RowsFollow' /\ RowsStay /\ ShippedFromRow'
    BY DEF TransferStep
  <1> DEFINE from == transfer[t].source
             to == transfer[t].destination
             items == transfer[t].items
  <1>1. /\ items \in Quantities /\ items \in [Skus -> Int] /\ Minus(items) \in [Skus -> Int]
        /\ \A s \in Skus : items[s] \in Nat /\ Minus(items)[s] = -items[s]
        /\ from \in Warehouses \cup {NoWarehouse} /\ to \in Warehouses \cup {NoWarehouse}
    BY <1>0, ItemsAreDeltas DEF TransferType, Minus
  <1>2. CASE \E f, g \in Warehouses, i \in Quantities : CreateTransfer(t, f, g, i)
    <2>1. RowsFollow' /\ RowsStay
      BY <1>0, <1>2, RowsUnchanged DEF CreateTransfer, stockVars, ledgerVars
    <2>2. \A u \in Transfers : transfer'[u].status = "in_transit" => transfer'[u] = transfer[u]
      BY <1>0, <1>2 DEF CreateTransfer
    <2> QED
      BY <1>0, <2>1, <2>2 DEF ShippedFromRow, RowsStay
  <1>3. CASE RequestTransfer(t)
    <2>1. RowsFollow' /\ RowsStay
      BY <1>0, <1>3, RowsUnchanged DEF RequestTransfer, stockVars, ledgerVars
    <2> QED
      BY <1>3, <2>1, AdvanceShipped DEF RequestTransfer
  <1>4. CASE ShipTransfer(t)
    <2> DEFINE rows == [s \in Skus |-> IF items[s] = 0 THEN onHand[from][s]
                                       ELSE onHand[from][s] - items[s]]
    <2>1. Advance(t, "in_transit") /\ Carry(from, Minus(items), rows)
      BY <1>4 DEF ShipTransfer
    <2>2. from \in Warehouses =>
            \A s \in Skus : items[s] # 0 => onHand[from][s] # NoRow
      BY <1>1, <1>4 DEF ShipTransfer, Quantity
    <2>3. from \in Warehouses =>
            /\ rows \in [Skus -> Nat \cup {NoRow}]
            /\ \A s \in Skus : IF Minus(items)[s] = 0 THEN rows[s] = onHand[from][s]
                               ELSE rows[s] # NoRow
                                    /\ rows[s] = Quantity(onHand[from][s]) + Minus(items)[s]
      BY <1>0, <1>1, <1>4 DEF ShipTransfer, Quantity, StockTypes, NoRow
    <2>4. RowsFollow' /\ RowsStay
      <3> HIDE DEF rows, from, to, items
      <3> QED
        BY <1>0, <1>1, <2>1, <2>3, CarryBalances
    <2> QED
      BY <2>1, <2>2, <2>4, AdvanceShipped
  <1>5. CASE ReceiveTransfer(t)
    <2> DEFINE rows == [s \in Skus |-> IF items[s] = 0 THEN onHand[to][s]
                                       ELSE Quantity(onHand[to][s]) + items[s]]
    <2>1. Advance(t, "received") /\ Carry(to, items, rows)
      BY <1>5 DEF ReceiveTransfer
    <2>2. to \in Warehouses =>
            /\ rows \in [Skus -> Nat \cup {NoRow}]
            /\ \A s \in Skus : IF items[s] = 0 THEN rows[s] = onHand[to][s]
                               ELSE rows[s] # NoRow
                                    /\ rows[s] = Quantity(onHand[to][s]) + items[s]
      BY <1>0, <1>1 DEF Quantity, StockTypes, NoRow
    <2>3. RowsFollow' /\ RowsStay
      <3> HIDE DEF rows, from, to, items
      <3> QED
        BY <1>0, <1>1, <2>1, <2>2, CarryBalances
    <2> QED
      BY <2>1, <2>3, AdvanceShipped
  <1>6. CASE CancelTransfer(t)
    <2> DEFINE rows == [s \in Skus |-> IF items[s] = 0 THEN onHand[from][s]
                                       ELSE onHand[from][s] + items[s]]
    <2>1. /\ Advance(t, "cancelled")
          /\ \/ transfer[t].status = "in_transit" /\ Carry(from, items, rows)
             \/ UNCHANGED stockVars
      BY <1>6 DEF CancelTransfer
    <2>2. RowsFollow' /\ RowsStay
      <3>1. CASE transfer[t].status = "in_transit" /\ Carry(from, items, rows)
        <4>1. from \in Warehouses =>
                \A s \in Skus : items[s] # 0 => onHand[from][s] # NoRow
          BY <1>0, <3>1 DEF ShippedFromRow
        <4>2. from \in Warehouses =>
                /\ rows \in [Skus -> Nat \cup {NoRow}]
                /\ \A s \in Skus : IF items[s] = 0 THEN rows[s] = onHand[from][s]
                                   ELSE rows[s] # NoRow
                                        /\ rows[s] = Quantity(onHand[from][s]) + items[s]
          BY <1>0, <1>1, <4>1 DEF Quantity, StockTypes, NoRow
        <4> HIDE DEF rows, from, to, items
        <4> QED
          BY <1>0, <1>1, <3>1, <4>2, CarryBalances
      <3>2. CASE UNCHANGED stockVars
        BY <1>0, <3>2, RowsUnchanged DEF stockVars, ledgerVars
      <3> QED
        BY <2>1, <3>1, <3>2
    <2> QED
      BY <2>1, <2>2, AdvanceShipped
  <1> QED
    BY <1>2, <1>3, <1>4, <1>5, <1>6

\* No step of any kind takes a row away.
LEMMA NextRows ==
    ASSUME BalanceInv, [Next]_vars
    PROVE  RowsFollow' /\ RowsStay /\ ShippedFromRow'
  <1>1. UNCHANGED vars => RowsFollow' /\ RowsStay /\ ShippedFromRow'
    BY DEF BalanceInv, RowsFollow, RowsStay, ShippedFromRow, vars, stockVars, ledgerVars
  <1> QED
    BY <1>1, OrderBalances, CorrectionBalances, WarehouseBalances, TransferBalances DEF Next

\* The strengthened invariant is inductive.
LEMMA NextBalances == BalanceInv /\ [Next]_vars => BalanceInv'
  BY NextRows, NextTypes DEF BalanceInv

\* Every balance is what its row was opened with and what the ledger recorded
\* for it, under stale imports, bulk edits and any change of the default.
THEOREM BalancesHold == Spec => []BalancesFollowLedger
  <1>1. BalanceInv => BalancesFollowLedger
    BY DEF BalanceInv, RowsFollow, BalancesFollowLedger
  <1> QED
    BY <1>1, InitBalances, NextBalances, PTL DEF Spec

-----------------------------------------------------------------------------
(* The ledger of the aggregate.                                            *)

\* A movement records what it does to the aggregate.
LEMMA RecordLedger ==
    ASSUME StockTypes, LedgerExact, NEW w, NEW delta \in [Skus -> Int],
           Record(w, delta, Plus(stock, delta))
    PROVE  LedgerExact'
  <1>1. \A s \in Skus : /\ stock'[s] = stock[s] + delta[s]
                        /\ stockLedger'[s] = stockLedger[s] + delta[s]
    BY DEF Record, Plus
  <1>2. \A s \in Skus : stock[s] \in Int /\ stockLedger[s] \in Int /\ OpeningStock[s] \in Int
    BY BoundAssumption DEF StockTypes
  <1> QED
    BY <1>1, <1>2 DEF LedgerExact

\* With neither imports nor bulk edits every step keeps the ledger exact.
LEMMA LedgerStep ==
    ASSUME Clerks = {}, BulkEditable = {}, TypeOK, LedgerExact, Next
    PROVE  LedgerExact'
  <1>0. StockTypes /\ order \in [Orders -> OrderType]
    BY DEF TypeOK, StockTypes, OrderType
  <1>1. ASSUME NEW o \in Orders, NEW items \in Quantities, PlaceOrder(o, items)
        PROVE  LedgerExact'
    BY <1>0, <1>1, ItemsAreDeltas, RecordLedger DEF PlaceOrder
  <1>2. ASSUME NEW o \in Orders, CancelOrder(o)
        PROVE  LedgerExact'
    <2>1. order[o].items \in [Skus -> Int]
      BY <1>0, ItemsAreDeltas DEF OrderType
    <2> QED
      BY <1>0, <1>2, <2>1, RecordLedger DEF CancelOrder
  <1>3. ASSUME NEW o \in Orders, NEW received \in Quantities, NEW explicit,
               RestockItems(o, received, explicit)
        PROVE  LedgerExact'
    BY <1>0, <1>3, ItemsAreDeltas, RecordLedger DEF RestockItems
  <1>4. ASSUME NEW w \in Adjustable, NEW s \in Skus, NEW delta \in -MaxQuantity..MaxQuantity,
               AdjustWarehouse(w, s, delta)
        PROVE  LedgerExact'
    <2>1. \A x \in Skus :
            /\ stock'[x] = IF x = s THEN stock[x] + delta ELSE stock[x]
            /\ stockLedger'[x] = IF x = s THEN stockLedger[x] + delta ELSE stockLedger[x]
      BY <1>0, <1>4 DEF AdjustWarehouse, StockTypes
    <2>2. /\ delta \in Int
          /\ \A x \in Skus : stock[x] \in Int /\ stockLedger[x] \in Int /\ OpeningStock[x] \in Int
      BY <1>0, BoundAssumption DEF StockTypes
    <2> QED
      BY <2>1, <2>2 DEF LedgerExact
  <1>5. CASE UNCHANGED <<stock, stockLedger>>
    BY <1>5 DEF LedgerExact
  <1>6. WarehouseStep \/ TransferStep => UNCHANGED <<stock, stockLedger>>
    BY DEF WarehouseStep, SetDefault, Archive, TransferStep, CreateTransfer, RequestTransfer,
           ShipTransfer, ReceiveTransfer, CancelTransfer, Carry, stockVars, ledgerVars
  <1> QED
    BY <1>1, <1>2, <1>3, <1>4, <1>5, <1>6 DEF Next, OrderStep, CorrectionStep

\* Where every change of the stock goes through a function that locks the
\* row, the aggregate is its opening value and the sum of its movements.
THEOREM LedgerHolds ==
    ASSUME Clerks = {}, BulkEditable = {}
    PROVE  Spec => []LedgerExact
  <1>1. Init => LedgerExact
    BY BoundAssumption DEF Init, LedgerExact, Nothing
  <1>2. TypeOK /\ LedgerExact /\ [Next]_vars => LedgerExact'
    <2>1. LedgerExact /\ UNCHANGED vars => LedgerExact'
      BY DEF LedgerExact, vars, stockVars, ledgerVars
    <2> QED
      BY <2>1, LedgerStep
  <1> QED
    BY <1>1, <1>2, TypeCorrect, PTL DEF Spec

-----------------------------------------------------------------------------
(* Totals over the warehouses, and the goods on the road.                  *)

\* A transfer that has been created goes from a warehouse to a warehouse.
EndsKnown ==
    \A t \in Transfers : transfer[t].status # "none" =>
        transfer[t].source \in Warehouses /\ transfer[t].destination \in Warehouses

\* One warehouse's ledger moves by delta: so does the total.
LEMMA LedgerMoves ==
    ASSUME StockTypes, NEW w \in Warehouses, NEW delta \in [Skus -> Int],
           \A v \in Warehouses, x \in Skus :
               warehouseLedger'[v][x] = IF v = w THEN warehouseLedger[v][x] + delta[x]
                                        ELSE warehouseLedger[v][x],
           NEW s \in Skus
    PROVE  LedgerTotal(s) \in Int /\ LedgerTotal(s)' = LedgerTotal(s) + delta[s]
  <1> DEFINE f == [v \in Warehouses |-> warehouseLedger[v][s]]
             g == [v \in Warehouses |-> warehouseLedger'[v][s]]
  <1>1. \A v \in Warehouses : warehouseLedger[v][s] \in Int
    BY DEF StockTypes
  <1>2. /\ f \in [Warehouses -> Int] /\ g \in [Warehouses -> Int] /\ delta[s] \in Int
        /\ g[w] = f[w] + delta[s] /\ \A v \in Warehouses : v # w => g[v] = f[v]
    BY <1>1
  <1>3. LedgerTotal(s) = SumFunction(f) /\ LedgerTotal(s)' = SumFunction(g)
    BY DEF LedgerTotal
  <1> HIDE DEF f, g
  <1> QED
    BY <1>2, <1>3, FiniteAssumption, SumMoves

\* One warehouse's rows move by delta, a missing row being empty.
LEMMA RowsMove ==
    ASSUME StockTypes, NEW w \in Warehouses, NEW delta \in [Skus -> Int],
           \A v \in Warehouses, x \in Skus :
               Quantity(onHand'[v][x]) = IF v = w THEN Quantity(onHand[v][x]) + delta[x]
                                         ELSE Quantity(onHand[v][x]),
           NEW s \in Skus
    PROVE  TotalOnHand(s) \in Int /\ TotalOnHand(s)' = TotalOnHand(s) + delta[s]
  <1> DEFINE f == [v \in Warehouses |-> Quantity(onHand[v][s])]
             g == [v \in Warehouses |-> Quantity(onHand'[v][s])]
  <1>1. \A v \in Warehouses : Quantity(onHand[v][s]) \in Int
    BY DEF StockTypes, Quantity
  <1>2. /\ f \in [Warehouses -> Int] /\ g \in [Warehouses -> Int] /\ delta[s] \in Int
        /\ g[w] = f[w] + delta[s] /\ \A v \in Warehouses : v # w => g[v] = f[v]
    BY <1>1
  <1>3. TotalOnHand(s) = SumFunction(f) /\ TotalOnHand(s)' = SumFunction(g)
    BY DEF TotalOnHand, Quantity
  <1> HIDE DEF f, g
  <1> QED
    BY <1>2, <1>3, FiniteAssumption, SumMoves

\* A transfer changes its status: what it carries joins or leaves the road.
LEMMA RoadMoves ==
    ASSUME TypeOK, NEW t \in Transfers, NEW status, Advance(t, status), NEW s \in Skus
    PROVE  /\ InTransit(s) \in Int
           /\ InTransit(s)' = InTransit(s) - OnTheRoad(t, s)
                                + (IF status = "in_transit" THEN transfer[t].items[s] ELSE 0)
  <1> DEFINE f == [u \in Transfers |-> OnTheRoad(u, s)]
             g == [u \in Transfers |-> OnTheRoad(u, s)']
             joins == IF status = "in_transit" THEN transfer[t].items[s] ELSE 0
             d == joins - OnTheRoad(t, s)
  <1>1. \A u \in Transfers : transfer[u].items \in Quantities
    BY DEF TypeOK
  <1>2. \A u \in Transfers : transfer[u].items[s] \in Int
    BY <1>1, ItemsAreDeltas
  <1>3. \A u \in Transfers : OnTheRoad(u, s) \in Int
    BY <1>2 DEF OnTheRoad
  <1>4. /\ transfer'[t].status = status /\ transfer'[t].items = transfer[t].items
        /\ \A u \in Transfers : u # t => transfer'[u] = transfer[u]
    BY DEF Advance, TypeOK
  <1>5. joins \in Int /\ OnTheRoad(t, s)' = joins
    BY <1>2, <1>4 DEF OnTheRoad
  <1>6. \A u \in Transfers : u # t => OnTheRoad(u, s)' = OnTheRoad(u, s)
    BY <1>4 DEF OnTheRoad
  <1>7. InTransit(s) = SumFunction(f) /\ InTransit(s)' = SumFunction(g)
    BY DEF InTransit
  <1>8. /\ f \in [Transfers -> Int] /\ g \in [Transfers -> Int]
        /\ f[t] = OnTheRoad(t, s) /\ g[t] = joins
        /\ \A u \in Transfers : u # t => g[u] = f[u]
    BY <1>3, <1>5, <1>6
  <1> HIDE DEF f, g, joins
  <1>9. d \in Int /\ g[t] = f[t] + d
    BY <1>3, <1>5, <1>8
  <1> HIDE DEF d
  <1>10. SumFunction(f) \in Int /\ SumFunction(g) = SumFunction(f) + d
    BY <1>8, <1>9, FiniteAssumption, SumMoves
  <1> QED
    BY <1>3, <1>5, <1>7, <1>10 DEF d, joins

\* Steps that leave the transfers on the road alone.
LEMMA RoadStays ==
    ASSUME \A t \in Transfers, s \in Skus : OnTheRoad(t, s)' = OnTheRoad(t, s), NEW s \in Skus
    PROVE  InTransit(s)' = InTransit(s)
  BY DEF InTransit

\* Every sum over the transfers is a number.
LEMMA RoadType ==
    ASSUME TypeOK, NEW s \in Skus
    PROVE  InTransit(s) \in Int
  <1> DEFINE f == [u \in Transfers |-> OnTheRoad(u, s)]
  <1>1. \A u \in Transfers : transfer[u].items \in Quantities
    BY DEF TypeOK
  <1>2. \A u \in Transfers : OnTheRoad(u, s) \in Int
    BY <1>1, ItemsAreDeltas DEF OnTheRoad
  <1>3. InTransit(s) = SumFunctionOnSet(f, Transfers) /\ \A u \in Transfers : f[u] \in Int
    BY <1>2 DEF InTransit, SumFunction
  <1> HIDE DEF f
  <1> QED
    BY <1>3, FiniteAssumption, SumType

\* A recorded movement, on the ledgers.
LEMMA RecordTotals ==
    ASSUME StockTypes, NEW w \in Warehouses, NEW delta \in [Skus -> Int], NEW aggregate,
           Record(w, delta, aggregate), NEW s \in Skus
    PROVE  /\ LedgerTotal(s) \in Int /\ LedgerTotal(s)' = LedgerTotal(s) + delta[s]
           /\ stockLedger'[s] = stockLedger[s] + delta[s]
  <1>1. \A v \in Warehouses, x \in Skus :
          warehouseLedger'[v][x] = IF v = w THEN warehouseLedger[v][x] + delta[x]
                                   ELSE warehouseLedger[v][x]
    BY DEF Record, StockTypes, Plus
  <1>2. stockLedger'[s] = stockLedger[s] + delta[s]
    BY DEF Record, Plus
  <1> QED
    BY <1>1, <1>2, LedgerMoves

\* A transfer's movement, on the ledgers and the rows.
LEMMA CarryTotals ==
    ASSUME StockTypes, NEW w \in Warehouses, NEW delta \in [Skus -> Int], NEW rows,
           Carry(w, delta, rows), NEW s \in Skus
    PROVE  /\ LedgerTotal(s) \in Int /\ LedgerTotal(s)' = LedgerTotal(s) + delta[s]
           /\ stockLedger'[s] = stockLedger[s] /\ stock'[s] = stock[s]
           /\ (\A x \in Skus : Quantity(rows[x]) = Quantity(onHand[w][x]) + delta[x]) =>
                 TotalOnHand(s) \in Int /\ TotalOnHand(s)' = TotalOnHand(s) + delta[s]
  <1>1. \A v \in Warehouses, x \in Skus :
          /\ warehouseLedger'[v][x] = IF v = w THEN warehouseLedger[v][x] + delta[x]
                                      ELSE warehouseLedger[v][x]
          /\ onHand'[v][x] = IF v = w THEN rows[x] ELSE onHand[v][x]
    BY DEF Carry, StockTypes, Plus
  <1>2. stockLedger'[s] = stockLedger[s] /\ stock'[s] = stock[s]
    BY DEF Carry
  <1>3. LedgerTotal(s) \in Int /\ LedgerTotal(s)' = LedgerTotal(s) + delta[s]
    BY <1>1, LedgerMoves
  <1>4. ASSUME \A x \in Skus : Quantity(rows[x]) = Quantity(onHand[w][x]) + delta[x]
        PROVE  TotalOnHand(s) \in Int /\ TotalOnHand(s)' = TotalOnHand(s) + delta[s]
    <2>1. \A v \in Warehouses, x \in Skus :
              Quantity(onHand'[v][x]) = IF v = w THEN Quantity(onHand[v][x]) + delta[x]
                                        ELSE Quantity(onHand[v][x])
      BY <1>1, <1>4
    <2> QED
      BY <2>1, RowsMove
  <1> QED
    BY <1>2, <1>3, <1>4

\* A warehouse adjustment, on the ledgers, the rows and the aggregate.
LEMMA AdjustTotals ==
    ASSUME StockTypes, NEW w \in Warehouses, NEW x \in Skus, NEW d \in Int,
           AdjustWarehouse(w, x, d), NEW s \in Skus
    PROVE  /\ LedgerTotal(s) \in Int /\ LedgerTotal(s)' = LedgerTotal(s) + Only(x, d)[s]
           /\ TotalOnHand(s) \in Int /\ TotalOnHand(s)' = TotalOnHand(s) + Only(x, d)[s]
           /\ stockLedger'[s] = stockLedger[s] + Only(x, d)[s]
           /\ stock'[s] = stock[s] + Only(x, d)[s]
  <1> DEFINE delta == Only(x, d)
  <1>1. delta \in [Skus -> Int]
    BY DEF Only
  <1>2. \A y \in Skus : delta[y] = IF y = x THEN d ELSE 0
    BY DEF Only
  <1> HIDE DEF delta
  <1>3. \A v \in Warehouses, y \in Skus :
          /\ warehouseLedger'[v][y] = IF v = w /\ y = x THEN warehouseLedger[v][y] + d
                                      ELSE warehouseLedger[v][y]
          /\ onHand'[v][y] = IF v = w /\ y = x THEN Quantity(onHand[w][x]) + d
                             ELSE onHand[v][y]
    BY DEF AdjustWarehouse, StockTypes
  <1>4. /\ stockLedger'[s] = stockLedger[s] + delta[s]
        /\ stock'[s] = stock[s] + delta[s]
    BY <1>2 DEF AdjustWarehouse, StockTypes
  <1>5. \A v \in Warehouses, y \in Skus :
          warehouseLedger'[v][y] = IF v = w THEN warehouseLedger[v][y] + delta[y]
                                   ELSE warehouseLedger[v][y]
    BY <1>2, <1>3 DEF StockTypes
  <1>6. \A v \in Warehouses, y \in Skus :
          Quantity(onHand'[v][y]) = IF v = w THEN Quantity(onHand[v][y]) + delta[y]
                                    ELSE Quantity(onHand[v][y])
    <2> SUFFICES ASSUME NEW v \in Warehouses, NEW y \in Skus
                 PROVE  Quantity(onHand'[v][y]) =
                            IF v = w THEN Quantity(onHand[v][y]) + delta[y]
                            ELSE Quantity(onHand[v][y])
      OBVIOUS
    <2>1. Quantity(onHand[v][y]) \in Int
      BY DEF StockTypes, Quantity
    <2>2. CASE v = w /\ y = x
      <3>1. onHand'[v][y] = Quantity(onHand[w][x]) + d /\ onHand'[v][y] >= 0
        BY <1>3, <2>2 DEF AdjustWarehouse
      <3>2. Quantity(onHand'[v][y]) = onHand'[v][y]
        BY <3>1 DEF Quantity, NoRow
      <3> QED
        BY <1>2, <2>2, <3>1, <3>2
    <2>3. CASE ~(v = w /\ y = x)
      BY <1>2, <1>3, <2>1, <2>3
    <2> QED
      BY <2>2, <2>3
  <1> QED
    BY <1>1, <1>4, <1>5, <1>6, LedgerMoves, RowsMove DEF delta


\* Steps that move no rows.
LEMMA TotalsStay ==
    ASSUME UNCHANGED <<onHand, warehouseLedger>>, NEW s \in Skus
    PROVE  LedgerTotal(s)' = LedgerTotal(s) /\ TotalOnHand(s)' = TotalOnHand(s)
  BY DEF LedgerTotal, TotalOnHand

\* A transfer only moves goods between the warehouses and the road.
LEMMA TransferTotals ==
    ASSUME BalanceInv, EndsKnown, TransferStep, NEW s \in Skus
    PROVE  /\ stockLedger'[s] = stockLedger[s] /\ stock'[s] = stock[s]
           /\ LedgerTotal(s)' + InTransit(s)' = LedgerTotal(s) + InTransit(s)
           /\ TotalOnHand(s)' + InTransit(s)' = TotalOnHand(s) + InTransit(s)
  <1>0. /\ TypeOK /\ StockTypes /\ transfer \in [Transfers -> TransferType]
        /\ ShippedFromRow
    BY DEF BalanceInv, TypeOK, StockTypes, TransferType
  <1> DEFINE Kept == /\ stockLedger'[s] = stockLedger[s] /\ stock'[s] = stock[s]
                     /\ LedgerTotal(s)' + InTransit(s)' = LedgerTotal(s) + InTransit(s)
                     /\ TotalOnHand(s)' + InTransit(s)' = TotalOnHand(s) + InTransit(s)
  <1> SUFFICES ASSUME NEW t \in Transfers,
                      \/ \E f, g \in Warehouses, i \in Quantities : CreateTransfer(t, f, g, i)
                      \/ RequestTransfer(t)
                      \/ ShipTransfer(t)
                      \/ ReceiveTransfer(t)
                      \/ CancelTransfer(t)
               PROVE  Kept
    BY DEF TransferStep
  <1> DEFINE from == transfer[t].source
             to == transfer[t].destination
             items == transfer[t].items
  <1>1. /\ items \in Quantities /\ items \in [Skus -> Int] /\ Minus(items) \in [Skus -> Int]
        /\ \A x \in Skus : items[x] \in Nat /\ Minus(items)[x] = -items[x]
    BY <1>0, ItemsAreDeltas DEF TransferType, Minus
  <1>2. InTransit(s) \in Int
    BY <1>0, RoadType
  <1>3. ASSUME UNCHANGED stockVars, \A u \in Transfers, x \in Skus : OnTheRoad(u, x)' = OnTheRoad(u, x)
        PROVE  Kept
    BY <1>3, TotalsStay, RoadStays DEF stockVars, ledgerVars
  <1>4. CASE \E f, g \in Warehouses, i \in Quantities : CreateTransfer(t, f, g, i)
    <2>1. \A u \in Transfers, x \in Skus : OnTheRoad(u, x)' = OnTheRoad(u, x)
      BY <1>0, <1>4 DEF CreateTransfer, OnTheRoad
    <2> QED
      BY <1>3, <1>4, <2>1 DEF CreateTransfer
  <1>5. CASE RequestTransfer(t)
    <2>1. \A u \in Transfers, x \in Skus : OnTheRoad(u, x)' = OnTheRoad(u, x)
      BY <1>0, <1>5 DEF RequestTransfer, Advance, MayFollow, OnTheRoad
    <2> QED
      BY <1>3, <1>5, <2>1 DEF RequestTransfer
  <1>6. CASE ShipTransfer(t)
    <2> DEFINE rows == [x \in Skus |-> IF items[x] = 0 THEN onHand[from][x]
                                       ELSE onHand[from][x] - items[x]]
    <2>1. Advance(t, "in_transit") /\ Carry(from, Minus(items), rows)
      BY <1>6 DEF ShipTransfer
    <2>2. transfer[t].status = "requested" /\ from \in Warehouses
      BY <1>6 DEF ShipTransfer, Advance, MayFollow, EndsKnown
    <2>3. \A x \in Skus : Quantity(rows[x]) = Quantity(onHand[from][x]) + Minus(items)[x]
      BY <1>0, <1>1, <1>6, <2>2 DEF ShipTransfer, Quantity, StockTypes, NoRow
    <2>4. OnTheRoad(t, s) = 0 /\ InTransit(s)' = InTransit(s) + items[s]
      <3>1. OnTheRoad(t, s) = 0
        BY <2>2 DEF OnTheRoad
      <3>2. InTransit(s)' = InTransit(s) - OnTheRoad(t, s) + items[s]
        BY <1>0, <2>1, RoadMoves
      <3> QED
        BY <1>2, <3>1, <3>2
    <2> HIDE DEF rows, from, to, items
    <2>5. /\ LedgerTotal(s) \in Int /\ LedgerTotal(s)' = LedgerTotal(s) + Minus(items)[s]
          /\ TotalOnHand(s) \in Int /\ TotalOnHand(s)' = TotalOnHand(s) + Minus(items)[s]
          /\ stockLedger'[s] = stockLedger[s] /\ stock'[s] = stock[s]
      BY <1>0, <1>1, <2>1, <2>2, <2>3, CarryTotals
    <2> QED
      BY <1>1, <1>2, <2>4, <2>5
  <1>7. CASE ReceiveTransfer(t)
    <2> DEFINE rows == [x \in Skus |-> IF items[x] = 0 THEN onHand[to][x]
                                       ELSE Quantity(onHand[to][x]) + items[x]]
    <2>1. Advance(t, "received") /\ Carry(to, items, rows)
      BY <1>7 DEF ReceiveTransfer
    <2>2. transfer[t].status = "in_transit" /\ to \in Warehouses
      BY <1>7 DEF ReceiveTransfer, Advance, MayFollow, EndsKnown
    <2>3. \A x \in Skus : Quantity(rows[x]) = Quantity(onHand[to][x]) + items[x]
      BY <1>0, <1>1, <2>2 DEF Quantity, StockTypes, NoRow
    <2>4. InTransit(s)' = InTransit(s) - items[s]
      <3>1. OnTheRoad(t, s) = items[s]
        BY <2>2 DEF OnTheRoad
      <3>2. InTransit(s)' = InTransit(s) - OnTheRoad(t, s) + 0
        BY <1>0, <2>1, RoadMoves
      <3> QED
        BY <1>1, <1>2, <3>1, <3>2
    <2> HIDE DEF rows, from, to, items
    <2>5. /\ LedgerTotal(s) \in Int /\ LedgerTotal(s)' = LedgerTotal(s) + items[s]
          /\ TotalOnHand(s) \in Int /\ TotalOnHand(s)' = TotalOnHand(s) + items[s]
          /\ stockLedger'[s] = stockLedger[s] /\ stock'[s] = stock[s]
      BY <1>0, <1>1, <2>1, <2>2, <2>3, CarryTotals
    <2> QED
      BY <1>1, <1>2, <2>4, <2>5
  <1>8. CASE CancelTransfer(t)
    <2> DEFINE rows == [x \in Skus |-> IF items[x] = 0 THEN onHand[from][x]
                                       ELSE onHand[from][x] + items[x]]
    <2>1. CASE transfer[t].status = "in_transit"
      <3>1. Advance(t, "cancelled") /\ Carry(from, items, rows)
        BY <1>8, <2>1 DEF CancelTransfer
      <3>2. from \in Warehouses
        BY <2>1 DEF EndsKnown
      <3>3. \A x \in Skus : items[x] # 0 => onHand[from][x] # NoRow
        BY <1>0, <2>1, <3>2 DEF ShippedFromRow
      <3>4. \A x \in Skus : Quantity(rows[x]) = Quantity(onHand[from][x]) + items[x]
        BY <1>0, <1>1, <3>2, <3>3 DEF Quantity, StockTypes, NoRow
      <3>5. InTransit(s)' = InTransit(s) - items[s]
        <4>1. OnTheRoad(t, s) = items[s]
          BY <2>1 DEF OnTheRoad
        <4>2. InTransit(s)' = InTransit(s) - OnTheRoad(t, s) + 0
          BY <1>0, <3>1, RoadMoves
        <4> QED
          BY <1>1, <1>2, <4>1, <4>2
      <3> HIDE DEF rows, from, to, items
      <3>6. /\ LedgerTotal(s) \in Int /\ LedgerTotal(s)' = LedgerTotal(s) + items[s]
            /\ TotalOnHand(s) \in Int /\ TotalOnHand(s)' = TotalOnHand(s) + items[s]
            /\ stockLedger'[s] = stockLedger[s] /\ stock'[s] = stock[s]
        BY <1>0, <1>1, <3>1, <3>2, <3>4, CarryTotals
      <3> QED
        BY <1>1, <1>2, <3>5, <3>6
    <2>2. CASE transfer[t].status # "in_transit"
      <3>1. UNCHANGED stockVars /\ Advance(t, "cancelled")
        BY <1>8, <2>2 DEF CancelTransfer
      <3>2. \A u \in Transfers, x \in Skus : OnTheRoad(u, x)' = OnTheRoad(u, x)
        BY <1>0, <2>2, <3>1 DEF Advance, OnTheRoad
      <3> QED
        BY <1>3, <3>1, <3>2
    <2> QED
      BY <2>1, <2>2
  <1> QED
    BY <1>4, <1>5, <1>6, <1>7, <1>8

\* Nothing is on the road, and nothing is recorded, to begin with.
LEMMA InitTotals ==
    ASSUME Init
    PROVE  /\ EndsKnown
           /\ \A s \in Skus : LedgerTotal(s) = 0 /\ InTransit(s) = 0 /\ stockLedger[s] = 0
  <1>1. EndsKnown
    BY DEF Init, EndsKnown, NewTransfer
  <1>2. ASSUME NEW s \in Skus PROVE LedgerTotal(s) = 0 /\ InTransit(s) = 0 /\ stockLedger[s] = 0
    <2> DEFINE f == [w \in Warehouses |-> warehouseLedger[w][s]]
               g == [t \in Transfers |-> OnTheRoad(t, s)]
    <2>1. \A w \in Warehouses : f[w] = 0
      BY DEF Init, Nothing
    <2>2. \A t \in Transfers : g[t] = 0
      BY DEF Init, NewTransfer, OnTheRoad
    <2>3. LedgerTotal(s) = SumFunction(f) /\ InTransit(s) = SumFunction(g)
      BY DEF LedgerTotal, InTransit
    <2>4. DOMAIN f = Warehouses /\ DOMAIN g = Transfers
      OBVIOUS
    <2>5. stockLedger[s] = 0
      BY DEF Init, Nothing
    <2> HIDE DEF f, g
    <2> QED
      BY <2>1, <2>2, <2>3, <2>4, <2>5, FiniteAssumption, SumZero
  <1> QED
    BY <1>1, <1>2

\* The ends of the transfers stay known.
LEMMA EndsStay ==
    ASSUME TypeOK, EndsKnown, [Next]_vars
    PROVE  EndsKnown'
  <1>1. CASE UNCHANGED transfer
    BY <1>1 DEF EndsKnown
  <1>2. CASE OrderStep
    BY <1>1, <1>2, OrderRecords
  <1>3. CASE CorrectionStep
    BY <1>1, <1>3 DEF CorrectionStep, CountReads, CountWrites, AdjustWarehouse, BulkSetStock
  <1>4. CASE WarehouseStep
    BY <1>1, <1>4 DEF WarehouseStep, SetDefault, Archive
  <1>5. CASE TransferStep
    <2> SUFFICES ASSUME NEW t \in Transfers,
                        \/ \E f, g \in Warehouses, i \in Quantities : CreateTransfer(t, f, g, i)
                        \/ \E status \in {"requested", "in_transit", "received", "cancelled"} :
                              Advance(t, status)
                 PROVE  EndsKnown'
      BY <1>5 DEF TransferStep, RequestTransfer, ShipTransfer, ReceiveTransfer, CancelTransfer
    <2>1. CASE \E f, g \in Warehouses, i \in Quantities : CreateTransfer(t, f, g, i)
      BY <2>1 DEF CreateTransfer, EndsKnown, TypeOK
    <2>2. CASE \E status \in {"requested", "in_transit", "received", "cancelled"} : Advance(t, status)
      <3>1. PICK status \in {"requested", "in_transit", "received", "cancelled"} : Advance(t, status)
        BY <2>2
      <3>2. transfer[t].status # "none"
        BY <3>1 DEF Advance, MayFollow
      <3> QED
        BY <3>1, <3>2 DEF Advance, EndsKnown, TypeOK
    <2> QED
      BY <2>1, <2>2
  <1>6. CASE UNCHANGED vars
    BY <1>1, <1>6 DEF vars
  <1> QED
    BY <1>2, <1>3, <1>4, <1>5, <1>6 DEF Next


\* What the warehouses recorded, with what is on the road, is what the
\* aggregate recorded.
LedgersInv == BalanceInv /\ EndsKnown /\ LedgersAgree

LEMMA NextLedgers ==
    ASSUME LedgersInv, [Next]_vars
    PROVE  LedgersAgree'
  <1> SUFFICES ASSUME NEW s \in Skus
               PROVE  LedgerTotal(s)' + InTransit(s)' = stockLedger'[s]
    BY DEF LedgersAgree
  <1>0. /\ TypeOK /\ StockTypes /\ BalanceInv /\ EndsKnown /\ default \in Warehouses
        /\ LedgerTotal(s) + InTransit(s) = stockLedger[s]
        /\ InTransit(s) \in Int /\ stockLedger[s] \in Int
    <2>1. TypeOK /\ BalanceInv /\ EndsKnown /\ LedgerTotal(s) + InTransit(s) = stockLedger[s]
      BY DEF LedgersInv, BalanceInv, LedgersAgree
    <2>2. StockTypes /\ default \in Warehouses
      BY <2>1 DEF TypeOK, StockTypes
    <2> QED
      BY <2>1, <2>2, RoadType DEF StockTypes
  <1>1. ASSUME NEW w \in Warehouses, NEW delta \in [Skus -> Int], NEW aggregate,
               Record(w, delta, aggregate), UNCHANGED transfer
        PROVE  LedgerTotal(s)' + InTransit(s)' = stockLedger'[s]
    <2>1. InTransit(s)' = InTransit(s)
      BY <1>1, RoadStays DEF OnTheRoad
    <2>2. /\ LedgerTotal(s) \in Int /\ LedgerTotal(s)' = LedgerTotal(s) + delta[s]
          /\ stockLedger'[s] = stockLedger[s] + delta[s]
      BY <1>0, <1>1, RecordTotals
    <2> QED
      BY <1>0, <2>1, <2>2
  <1>2. ASSUME UNCHANGED <<onHand, warehouseLedger, stockLedger, transfer>>
        PROVE  LedgerTotal(s)' + InTransit(s)' = stockLedger'[s]
    BY <1>0, <1>2, TotalsStay, RoadStays DEF OnTheRoad
  <1>3. CASE OrderStep
    BY <1>0, <1>1, <1>3, OrderRecords
  <1>4. CASE CorrectionStep
    <2>1. ASSUME NEW k \in Clerks, NEW x \in Skus, CountReads(k, x)
          PROVE  LedgerTotal(s)' + InTransit(s)' = stockLedger'[s]
      BY <1>2, <2>1 DEF CountReads, stockVars, ledgerVars
    <2>2. ASSUME NEW k \in Clerks, NEW new \in 0..MaxStock, CountWrites(k, new)
          PROVE  LedgerTotal(s)' + InTransit(s)' = stockLedger'[s]
      <3> DEFINE delta == Only(count[k].sku, new - count[k].before)
                 aggregate == [stock EXCEPT ![count[k].sku] = new]
      <3>1. count[k] \in [sku : Skus, before : Nat] /\ new \in Nat
        BY <1>0, <2>2, BoundAssumption DEF CountWrites, TypeOK
      <3>2. delta \in [Skus -> Int]
        BY <1>0, <3>1 DEF Only
      <3>3. Record(default, delta, aggregate) /\ UNCHANGED transfer
        BY <2>2 DEF CountWrites
      <3> HIDE DEF delta, aggregate
      <3> QED
        BY <1>0, <1>1, <3>2, <3>3
    <2>3. ASSUME NEW w \in Adjustable, NEW x \in Skus, NEW delta \in -MaxQuantity..MaxQuantity,
                 AdjustWarehouse(w, x, delta)
          PROVE  LedgerTotal(s)' + InTransit(s)' = stockLedger'[s]
      <3>1. w \in Warehouses /\ delta \in Int
        BY ScenarioAssumption, BoundAssumption
      <3>2. InTransit(s)' = InTransit(s)
        BY <2>3, RoadStays DEF OnTheRoad, AdjustWarehouse
      <3>3. /\ LedgerTotal(s) \in Int /\ LedgerTotal(s)' = LedgerTotal(s) + Only(x, delta)[s]
            /\ stockLedger'[s] = stockLedger[s] + Only(x, delta)[s]
        BY <1>0, <2>3, <3>1, AdjustTotals
      <3>4. Only(x, delta)[s] \in Int
        BY <3>1 DEF Only
      <3> QED
        BY <1>0, <3>2, <3>3, <3>4
    <2>4. ASSUME NEW x \in BulkEditable, NEW new \in 0..MaxStock, BulkSetStock(x, new)
          PROVE  LedgerTotal(s)' + InTransit(s)' = stockLedger'[s]
      BY <1>2, <2>4 DEF BulkSetStock, ledgerVars
    <2> QED
      BY <1>4, <2>1, <2>2, <2>3, <2>4 DEF CorrectionStep
  <1>5. CASE WarehouseStep
    BY <1>2, <1>5 DEF WarehouseStep, SetDefault, Archive, stockVars, ledgerVars
  <1>6. CASE TransferStep
    BY <1>0, <1>6, TransferTotals
  <1>7. CASE UNCHANGED vars
    BY <1>2, <1>7 DEF vars, stockVars, ledgerVars
  <1> QED
    BY <1>3, <1>4, <1>5, <1>6, <1>7 DEF Next

\* Transfers neither create nor lose stock, whatever else happens to it.
THEOREM LedgersHold == Spec => []LedgersAgree
  <1>1. Init => LedgersInv
    BY InitTotals, InitBalances DEF LedgersInv, LedgersAgree
  <1>2. LedgersInv /\ [Next]_vars => LedgersInv'
    BY NextLedgers, NextBalances, EndsStay DEF LedgersInv, BalanceInv
  <1>3. LedgersInv => LedgersAgree
    BY DEF LedgersInv
  <1> QED
    BY <1>1, <1>2, <1>3, PTL DEF Spec

-----------------------------------------------------------------------------
(* The split of the aggregate over the warehouses.                         *)

\* Orders go out of and come back to a default that has a row for every SKU.
DefaultSettled ==
    /\ default = FirstDefault
    /\ FulfilledFromDefault
    /\ \A s \in Skus : onHand[default][s] # NoRow

SplitInv == BalanceInv /\ EndsKnown /\ DefaultSettled /\ SplitWithTransit

\* A movement of existing rows, by as much as the aggregate changes.
LEMMA RecordSplit ==
    ASSUME StockTypes, NEW w \in Warehouses, NEW delta \in [Skus -> Int],
           \A x \in Skus : onHand[w][x] # NoRow,
           Record(w, delta, Plus(stock, delta)), NEW s \in Skus
    PROVE  /\ TotalOnHand(s) \in Int /\ TotalOnHand(s)' = TotalOnHand(s) + delta[s]
           /\ stock'[s] = stock[s] + delta[s]
  <1> DEFINE rows == Synced(w, delta, Plus(stock, delta))
  <1>1. \A x \in Skus : rows[x] = onHand[w][x] + delta[x] /\ rows[x] >= 0
    <2> SUFFICES ASSUME NEW x \in Skus
                 PROVE  rows[x] = onHand[w][x] + delta[x] /\ rows[x] >= 0
      OBVIOUS
    <2>1. onHand[w][x] \in Nat /\ delta[x] \in Int
      BY DEF StockTypes
    <2>2. CASE delta[x] = 0
      BY <2>1, <2>2 DEF Synced
    <2>3. CASE delta[x] # 0
      BY <2>1, <2>3 DEF Synced, Record, DatabaseAccepts
    <2> QED
      BY <2>2, <2>3
  <1>2. \A v \in Warehouses, x \in Skus :
          onHand'[v][x] = IF v = w THEN rows[x] ELSE onHand[v][x]
    BY DEF Record, StockTypes
  <1>3. stock'[s] = stock[s] + delta[s]
    BY DEF Record, Plus
  <1> HIDE DEF rows
  <1>4. \A v \in Warehouses, x \in Skus :
          Quantity(onHand'[v][x]) = IF v = w THEN Quantity(onHand[v][x]) + delta[x]
                                    ELSE Quantity(onHand[v][x])
    BY <1>1, <1>2 DEF Quantity, NoRow
  <1> QED
    BY <1>3, <1>4, RowsMove

\* With a default that stays, and returns that go back to it.
LEMMA NextSplit ==
    ASSUME Clerks = {}, BulkEditable = {}, DefaultChoices \subseteq {FirstDefault},
           ReturnTo \subseteq {FirstDefault}, SplitInv, [Next]_vars
    PROVE  DefaultSettled' /\ SplitWithTransit'
  <1>0. /\ TypeOK /\ StockTypes /\ BalanceInv /\ EndsKnown /\ DefaultSettled
        /\ default \in Warehouses /\ default = FirstDefault
        /\ order \in [Orders -> OrderType]
    <2>1. TypeOK /\ BalanceInv /\ EndsKnown /\ DefaultSettled
      BY DEF SplitInv, BalanceInv
    <2> QED
      BY <2>1 DEF TypeOK, StockTypes, OrderType, DefaultSettled
  <1>1. RowsStay
    BY <1>0, NextRows
  <1>2. default' = default
    BY <1>0 DEF Next, vars, OrderStep, CorrectionStep, WarehouseStep, TransferStep,
        PlaceOrder, CancelOrder, RestockItems, CountReads, CountWrites, AdjustWarehouse,
        BulkSetStock, SetDefault, Archive, Advance, CreateTransfer, RequestTransfer,
        ShipTransfer, ReceiveTransfer, CancelTransfer
  <1>3. FulfilledFromDefault'
    <2>1. CASE UNCHANGED order
      BY <1>0, <1>2, <2>1 DEF FulfilledFromDefault, DefaultSettled
    <2>2. CASE OrderStep
      BY <1>0, <1>2, <2>2 DEF FulfilledFromDefault, DefaultSettled, OrderStep, PlaceOrder,
         CancelOrder, RestockItems, OrderType
    <2> QED
      BY <2>1, <2>2 DEF Next, vars, CorrectionStep, WarehouseStep, TransferStep,
        CountReads, CountWrites, AdjustWarehouse,
        BulkSetStock, SetDefault, Archive, Advance, CreateTransfer, RequestTransfer,
        ShipTransfer, ReceiveTransfer, CancelTransfer
  <1>4. DefaultSettled'
    BY <1>0, <1>1, <1>2, <1>3 DEF DefaultSettled, RowsStay
  <1> SUFFICES ASSUME NEW s \in Skus
               PROVE  TotalOnHand(s)' + InTransit(s)' = stock'[s]
    BY <1>4 DEF SplitWithTransit
  <1>5. /\ TotalOnHand(s) + InTransit(s) = stock[s]
        /\ InTransit(s) \in Int /\ stock[s] \in Int
    BY <1>0, RoadType DEF SplitInv, SplitWithTransit, StockTypes
  <1>6. ASSUME UNCHANGED <<onHand, warehouseLedger, stock, transfer>>
        PROVE  TotalOnHand(s)' + InTransit(s)' = stock'[s]
    BY <1>5, <1>6, TotalsStay, RoadStays DEF OnTheRoad
  <1>7. CASE OrderStep
    <2>1. PICK w \in Warehouses, delta \in [Skus -> Int] :
              /\ Record(w, delta, Plus(stock, delta))
              /\ UNCHANGED transfer
              /\ ReturnTo \subseteq {default} /\ FulfilledFromDefault => w = default
      BY <1>0, <1>7, OrderRecords
    <2>2. \A x \in Skus : onHand[w][x] # NoRow
      BY <1>0, <2>1 DEF DefaultSettled
    <2>3. /\ TotalOnHand(s) \in Int /\ TotalOnHand(s)' = TotalOnHand(s) + delta[s]
          /\ stock'[s] = stock[s] + delta[s]
      BY <1>0, <2>1, <2>2, RecordSplit
    <2>4. InTransit(s)' = InTransit(s)
      BY <2>1, RoadStays DEF OnTheRoad
    <2> QED
      BY <1>5, <2>3, <2>4
  <1>8. CASE CorrectionStep
    <2>1. PICK w \in Adjustable, x \in Skus, delta \in -MaxQuantity..MaxQuantity :
              AdjustWarehouse(w, x, delta)
      BY <1>8 DEF CorrectionStep
    <2>2. w \in Warehouses /\ delta \in Int
      BY ScenarioAssumption, BoundAssumption
    <2>3. InTransit(s)' = InTransit(s)
      BY <2>1, RoadStays DEF OnTheRoad, AdjustWarehouse
    <2>4. /\ TotalOnHand(s) \in Int /\ TotalOnHand(s)' = TotalOnHand(s) + Only(x, delta)[s]
          /\ stock'[s] = stock[s] + Only(x, delta)[s]
      BY <1>0, <2>1, <2>2, AdjustTotals
    <2>5. Only(x, delta)[s] \in Int
      BY <2>2 DEF Only
    <2> QED
      BY <1>5, <2>3, <2>4, <2>5
  <1>9. CASE WarehouseStep
    BY <1>6, <1>9 DEF WarehouseStep, SetDefault, Archive, stockVars, ledgerVars
  <1>10. CASE TransferStep
    BY <1>0, <1>5, <1>10, TransferTotals
  <1>11. CASE UNCHANGED vars
    BY <1>6, <1>11 DEF vars, stockVars, ledgerVars
  <1> QED
    BY <1>7, <1>8, <1>9, <1>10, <1>11 DEF Next


\* At first the default holds everything.
LEMMA InitSplit ==
    ASSUME Provisioned = Skus, Init
    PROVE  DefaultSettled /\ SplitWithTransit
  <1>1. DefaultSettled
    BY BoundAssumption, DefaultAssumption DEF Init, DefaultSettled, FulfilledFromDefault, NewOrder, NoRow
  <1> SUFFICES ASSUME NEW s \in Skus
               PROVE  TotalOnHand(s) + InTransit(s) = stock[s]
    BY <1>1 DEF SplitWithTransit
  <1> DEFINE f == [w \in Warehouses |-> Quantity(onHand[w][s])]
             g == [w \in Warehouses |-> 0]
  <1>2. OpeningStock[s] \in Nat /\ OpeningStock[s] # NoRow
    BY BoundAssumption DEF NoRow
  <1>3. \A w \in Warehouses : f[w] = IF w = FirstDefault THEN OpeningStock[s] ELSE 0
    BY <1>2 DEF Init, Quantity, NoRow
  <1>4. /\ g \in [Warehouses -> Int] /\ f \in [Warehouses -> Int]
        /\ \A w \in Warehouses : g[w] = 0
        /\ DOMAIN g = Warehouses
        /\ f[FirstDefault] = g[FirstDefault] + OpeningStock[s]
        /\ \A w \in Warehouses : w # FirstDefault => f[w] = g[w]
    BY <1>2, <1>3, DefaultAssumption
  <1>5. TotalOnHand(s) = SumFunction(f)
    BY DEF TotalOnHand
  <1> HIDE DEF f, g
  <1>6. SumFunction(g) = 0
    BY <1>4, FiniteAssumption, SumZero
  <1>7. SumFunction(f) = SumFunction(g) + OpeningStock[s]
    BY <1>2, <1>4, FiniteAssumption, DefaultAssumption, SumMoves
  <1>8. stock[s] = OpeningStock[s]
    BY DEF Init
  <1> QED
    BY <1>2, <1>5, <1>6, <1>7, <1>8, InitTotals

\* With a default that was provisioned and stays, and returns that go back to
\* it, the warehouses and the road hold what the aggregate says.
THEOREM SplitHolds ==
    ASSUME Clerks = {}, BulkEditable = {}, DefaultChoices \subseteq {FirstDefault},
           ReturnTo \subseteq {FirstDefault}, Provisioned = Skus
    PROVE  Spec => []SplitWithTransit
  <1>1. Init => SplitInv
    BY InitSplit, InitTotals, InitBalances DEF SplitInv
  <1>2. SplitInv /\ [Next]_vars => SplitInv'
    <2>1. SplitInv => BalanceInv /\ TypeOK /\ EndsKnown
      BY DEF SplitInv, BalanceInv
    <2> QED
      BY <2>1, NextSplit, NextBalances, EndsStay DEF SplitInv
  <1>3. SplitInv => SplitWithTransit
    BY DEF SplitInv
  <1> QED
    BY <1>1, <1>2, <1>3, PTL DEF Spec


=============================================================================
