------------------------------ MODULE ShopProofs ------------------------------
(***************************************************************************)
(* Proofs about parts of a store that its staff and customers work on, for *)
(* any number of orders, warehouses and requests in flight: the stock that *)
(* the order history explains, the default warehouse, refunds and returns, *)
(* the cart, and the imports.                                              *)
(***************************************************************************)
EXTENDS OrderStatus, Warehouses, AfterSales, GuestCart, Imports,
         FoldProofs, FiniteSetTheorems, SequenceTheorems, TLAPS

-----------------------------------------------------------------------------
(* Order status, history and stock.                                        *)

\* A request holds an instance of an order that was placed.
LoadedArePlaced ==
    \A m \in Staff : loadedOrder[m] # NotLoaded =>
        /\ loadedOrder[m].order \in Orders /\ loadedOrder[m].status \in OrderStatus
        /\ orderStatus[loadedOrder[m].order] # "none"

\* The orders that were placed.
PlacedOrders == {o \in Orders : orderStatus[o] # "none"}

\* What makes OrdersSound inductive: stale instances are of placed orders, and
\* the cancellations in the history can be counted.
OrdersInv == OrdersSound /\ LoadedArePlaced /\ IsFiniteSet(Cancellations)

\* A cancellation is a row of an order that says canceled.
LEMMA RowsOfCancellations ==
    /\ \A row : row \in Cancellations <=> \E o \in Orders : row \in CanceledRows(o)
    /\ \A row : row \in Cancellations' <=> \E o \in Orders : row \in CanceledRows(o)'
    /\ \A o \in Orders : \A row :
          row \in CanceledRows(o) <=>
              \E i \in DOMAIN orderHistory[o] : row = <<o, i>> /\ orderHistory[o][i].to = "canceled"
    /\ \A o \in Orders : \A row :
          row \in CanceledRows(o)' <=>
              \E i \in DOMAIN orderHistory'[o] : row = <<o, i>> /\ orderHistory'[o][i].to = "canceled"
  <1>1. \A row : row \in Cancellations <=> \E o \in Orders : row \in CanceledRows(o)
    <2> HIDE DEF CanceledRows
    <2> QED
      BY DEF Cancellations
  <1>2. \A row : row \in Cancellations' <=> \E o \in Orders : row \in CanceledRows(o)'
    BY DEF Cancellations
  <1>3. \A o \in Orders : \A row :
          row \in CanceledRows(o) <=>
              \E i \in DOMAIN orderHistory[o] : row = <<o, i>> /\ orderHistory[o][i].to = "canceled"
    BY DEF CanceledRows
  <1>4. \A o \in Orders : \A row :
          row \in CanceledRows(o)' <=>
              \E i \in DOMAIN orderHistory'[o] : row = <<o, i>> /\ orderHistory'[o][i].to = "canceled"
    BY DEF CanceledRows
  <1> QED
    BY <1>1, <1>2, <1>3, <1>4

\* No order is placed, nothing is recorded.
LEMMA InitOrders == OrdersInit => OrdersInv
  <1> SUFFICES ASSUME OrdersInit PROVE OrdersInv
    OBVIOUS
  <1>1. OrdersTypeOK
    BY QuantityAssumption DEF OrdersInit, OrdersTypeOK
  <1>2. HistoryNamesStatus /\ LoadedArePlaced
    BY DEF OrdersInit, HistoryNamesStatus, LoadedArePlaced
  <1>3. Cancellations = {} /\ PlacedOrders = {}
    <2>1. \A o \in Orders : DOMAIN orderHistory[o] = {}
      BY DEF OrdersInit
    <2>2. \A row : row \notin Cancellations
      BY <2>1, RowsOfCancellations
    <2> QED
      BY <2>2 DEF OrdersInit, PlacedOrders
  <1>4. HistoryExplainsStock /\ IsFiniteSet(Cancellations)
    <2>1. IsFiniteSet(Cancellations) /\ Cardinality(Cancellations) = 0
      BY <1>3, FS_EmptySet
    <2>2. Cardinality(PlacedOrders) = 0
      BY <1>3, FS_EmptySet
    <2>3. itemStock = OpeningStock - Quantity * 0 + Quantity * 0
      BY QuantityAssumption DEF OrdersInit
    <2> QED
      BY <2>1, <2>2, <2>3 DEF HistoryExplainsStock, PlacedOrders
  <1> QED
    BY <1>1, <1>2, <1>4 DEF OrdersInv, OrdersSound

\* What Append does, as a function on positions.
LEMMA Appended ==
    ASSUME NEW S, NEW seq \in Seq(S), NEW e \in S
    PROVE  /\ Append(seq, e) \in Seq(S)
           /\ DOMAIN seq = 1..Len(seq) /\ Len(seq) \in Nat
           /\ DOMAIN Append(seq, e) = 1..(Len(seq) + 1)
           /\ Len(Append(seq, e)) = Len(seq) + 1
           /\ Append(seq, e)[Len(seq) + 1] = e
           /\ \A i \in 1..Len(seq) : Append(seq, e)[i] = seq[i]
  OBVIOUS

\* A row appended to the history of an order is a cancellation, or not.
LEMMA OneMoreRow ==
    ASSUME OrdersTypeOK, IsFiniteSet(Cancellations), NEW o \in Orders,
           NEW from \in OrderStatus \cup {NoStatus}, NEW to \in OrderStatus, AddHistory(o, from, to)
    PROVE  /\ orderHistory' \in [Orders -> Seq(HistoryEntry)]
           /\ orderHistory'[o] # <<>>
           /\ orderHistory'[o][Len(orderHistory'[o])].to = to
           /\ \A p \in Orders \ {o} : orderHistory'[p] = orderHistory[p]
           /\ IsFiniteSet(Cancellations')
           /\ Cardinality(Cancellations') =
                 Cardinality(Cancellations) + (IF to = "canceled" THEN 1 ELSE 0)
  <1> DEFINE n == Len(orderHistory[o]) + 1
             entry == [from |-> from, to |-> to]
             old == orderHistory[o]
             new == orderHistory'[o]
  <1>1. old \in Seq(HistoryEntry) /\ entry \in HistoryEntry /\ entry.to = to
    BY DEF OrdersTypeOK, HistoryEntry
  <1>2. orderHistory' = [orderHistory EXCEPT ![o] = Append(@, entry)]
    BY DEF AddHistory
  <1>3. orderHistory \in [Orders -> Seq(HistoryEntry)]
    BY DEF OrdersTypeOK
  <1> HIDE DEF entry
  <1>4. Append(old, entry) \in Seq(HistoryEntry)
    BY <1>1, Appended
  <1>5. /\ new = Append(old, entry)
        /\ \A p \in Orders \ {o} : orderHistory'[p] = orderHistory[p]
        /\ orderHistory' \in [Orders -> Seq(HistoryEntry)]
    BY <1>2, <1>3, <1>4
  <1> HIDE DEF old, new
  <1>6. /\ DOMAIN old = 1..Len(old) /\ Len(old) \in Nat
        /\ DOMAIN new = 1..(Len(old) + 1) /\ Len(new) = Len(old) + 1
        /\ new[Len(old) + 1] = entry
        /\ \A i \in 1..Len(old) : new[i] = old[i]
    BY <1>1, <1>5, Appended
  <1>7. /\ n = Len(old) + 1 /\ n \notin DOMAIN old
        /\ DOMAIN new = DOMAIN old \cup {n}
        /\ new[n].to = to /\ Len(new) = n
        /\ \A i \in DOMAIN old : new[i] = old[i]
    <2>1. n = Len(old) + 1
      BY DEF old
    <2> HIDE DEF n
    <2> QED
      BY <1>1, <1>6, <2>1
  <1> HIDE DEF n
  <1>8. \A row : row \in CanceledRows(o)' <=>
                   row \in CanceledRows(o) \/ (to = "canceled" /\ row = <<o, n>>)
    <2> SUFFICES ASSUME NEW row
                 PROVE  row \in CanceledRows(o)' <=>
                          row \in CanceledRows(o) \/ (to = "canceled" /\ row = <<o, n>>)
      OBVIOUS
    <2>1. row \in CanceledRows(o)' <=>
            \E i \in DOMAIN new : row = <<o, i>> /\ new[i].to = "canceled"
      BY RowsOfCancellations DEF new
    <2>2. row \in CanceledRows(o) <=>
            \E i \in DOMAIN old : row = <<o, i>> /\ old[i].to = "canceled"
      BY RowsOfCancellations DEF old
    <2> HIDE DEF n
    <2> QED
      BY <1>7, <2>1, <2>2
  <1>9. \A p \in Orders \ {o} : \A row : row \in CanceledRows(p)' <=> row \in CanceledRows(p)
    BY <1>5, RowsOfCancellations
  <1>10. \A row : row \in Cancellations' <=>
                   row \in Cancellations \/ (to = "canceled" /\ row = <<o, n>>)
    <2> SUFFICES ASSUME NEW row
                 PROVE  row \in Cancellations' <=>
                          row \in Cancellations \/ (to = "canceled" /\ row = <<o, n>>)
      OBVIOUS
    <2>1. row \in Cancellations' <=> \E p \in Orders : row \in CanceledRows(p)'
      BY RowsOfCancellations
    <2>2. row \in Cancellations <=> \E p \in Orders : row \in CanceledRows(p)
      BY RowsOfCancellations
    <2> QED
      BY <1>8, <1>9, <2>1, <2>2
  <1>11. <<o, n>> \notin Cancellations
    BY <1>7, RowsOfCancellations DEF old
  <1>12. IsFiniteSet(Cancellations') /\
         Cardinality(Cancellations') = Cardinality(Cancellations) + (IF to = "canceled" THEN 1 ELSE 0)
    <2>1. CASE to = "canceled"
      <3>1. Cancellations' = Cancellations \cup {<<o, n>>}
        BY <1>10, <2>1
      <3> QED
        BY <1>11, <2>1, <3>1, FS_AddElement
    <2>2. CASE to # "canceled"
      <3>1. Cancellations' = Cancellations
        BY <1>10, <2>2
      <3>2. Cardinality(Cancellations) \in Nat
        BY FS_CardinalityType
      <3> QED
        BY <2>2, <3>1, <3>2
    <2> QED
      BY <2>1, <2>2
  <1>13. new # <<>> /\ new[Len(new)].to = to
    BY <1>6, <1>7
  <1> QED
    BY <1>5, <1>12, <1>13 DEF new

\* The placed orders can be counted.
LEMMA PlacedFinite == IsFiniteSet(PlacedOrders) /\ Cardinality(PlacedOrders) \in Nat
  BY NoOrderAssumption, FS_Subset, FS_CardinalityType DEF PlacedOrders

\* The row that is written with a status names it.
LEMMA NamesStatus ==
    ASSUME OrdersInv, NEW o \in Orders, NEW from \in OrderStatus \cup {NoStatus},
           NEW to \in OrderStatus, AddHistory(o, from, to),
           orderStatus'[o] = to, \A p \in Orders \ {o} : orderStatus'[p] = orderStatus[p]
    PROVE  HistoryNamesStatus'
  <1>1. /\ orderHistory'[o] # <<>>
        /\ orderHistory'[o][Len(orderHistory'[o])].to = to
        /\ \A p \in Orders \ {o} : orderHistory'[p] = orderHistory[p]
    BY OneMoreRow DEF OrdersInv, OrdersSound
  <1>2. HistoryNamesStatus
    BY DEF OrdersInv, OrdersSound
  <1> SUFFICES ASSUME NEW p \in Orders, orderStatus'[p] # "none"
               PROVE  /\ orderHistory'[p] # <<>>
                      /\ orderHistory'[p][Len(orderHistory'[p])].to = orderStatus'[p]
    BY DEF HistoryNamesStatus
  <1>3. CASE p = o
    BY <1>1, <1>3
  <1>4. CASE p # o
    <2>1. orderHistory'[p] = orderHistory[p] /\ orderStatus'[p] = orderStatus[p]
      BY <1>1, <1>4
    <2> QED
      BY <1>2, <2>1 DEF HistoryNamesStatus
  <1> QED
    BY <1>3, <1>4

\* A change of a placed order by an instance, stale or not: one row more, and
\* the stock back exactly when the row says canceled.
LEMMA ChangeSound ==
    ASSUME OrdersInv, NEW o \in Orders, orderStatus[o] # "none",
           NEW from \in OrderStatus, NEW to \in OrderStatus, ChangeOrderStatus(o, from, to),
           \A m \in Staff : loadedOrder'[m] \in {loadedOrder[m], NotLoaded},
           loadedOrder' \in [Staff -> [order : Orders, status : OrderStatus] \cup {NotLoaded}]
    PROVE  OrdersInv'
  <1>1. AddHistory(o, from, to) /\ SetStatus(o, to) /\ to # "none"
    BY DEF ChangeOrderStatus, OrderStatus
  <1>2. /\ orderStatus' \in [Orders -> OrderStatus \cup {"none"}]
        /\ orderStatus'[o] = to
        /\ \A p \in Orders \ {o} : orderStatus'[p] = orderStatus[p]
    BY <1>1 DEF SetStatus, OrdersInv, OrdersSound, OrdersTypeOK
  <1>3. PlacedOrders' = PlacedOrders
    BY <1>1, <1>2 DEF PlacedOrders
  <1>4. LoadedArePlaced'
    BY <1>1, <1>2 DEF LoadedArePlaced, OrdersInv
  <1>5. HistoryNamesStatus'
    BY <1>1, <1>2, NamesStatus
  <1>6. itemStock' = itemStock + (IF to = "canceled" THEN Quantity ELSE 0) /\ itemStock \in Nat
    BY QuantityAssumption
    DEF ChangeOrderStatus, RestockOrder, OrdersInv, OrdersSound, OrdersTypeOK
  <1>7. OrdersTypeOK'
    BY <1>1, <1>2, <1>6, OneMoreRow, QuantityAssumption DEF OrdersInv, OrdersSound, OrdersTypeOK
  <1>8. HistoryExplainsStock' /\ IsFiniteSet(Cancellations')
    <2> DEFINE k == Cardinality(Cancellations)
               p == Cardinality(PlacedOrders)
    <2>1. /\ IsFiniteSet(Cancellations')
          /\ Cardinality(Cancellations') = k + (IF to = "canceled" THEN 1 ELSE 0)
      BY <1>1, OneMoreRow DEF OrdersInv, OrdersSound
    <2>2. k \in Nat /\ p \in Nat
      BY PlacedFinite, FS_CardinalityType DEF OrdersInv
    <2>3. itemStock = OpeningStock - Quantity * p + Quantity * k
      BY DEF OrdersInv, OrdersSound, HistoryExplainsStock, PlacedOrders
    <2>4. Cardinality(PlacedOrders') = p
      BY <1>3
    <2> HIDE DEF k, p
    <2>5. itemStock' = OpeningStock - Quantity * p
                         + Quantity * (k + (IF to = "canceled" THEN 1 ELSE 0))
      BY <1>6, <2>2, <2>3, QuantityAssumption
    <2> QED
      BY <2>1, <2>4, <2>5 DEF HistoryExplainsStock, PlacedOrders
  <1> QED
    BY <1>4, <1>5, <1>7, <1>8 DEF OrdersInv, OrdersSound

\* Placing an order takes its quantity and writes its first row.
LEMMA PlaceSound ==
    ASSUME OrdersInv, NEW o \in Orders, PlaceOrder(o)
    PROVE  OrdersInv'
  <1>1. /\ AddHistory(o, NoStatus, "pending") /\ SetStatus(o, "pending") /\ UNCHANGED loadedOrder
        /\ orderStatus[o] = "none" /\ "pending" \in OrderStatus
    BY DEF PlaceOrder, OrderStatus
  <1>2. /\ orderStatus' \in [Orders -> OrderStatus \cup {"none"}]
        /\ orderStatus'[o] = "pending"
        /\ \A p \in Orders \ {o} : orderStatus'[p] = orderStatus[p]
    BY <1>1 DEF SetStatus, OrdersInv, OrdersSound, OrdersTypeOK
  <1>3. Cardinality(PlacedOrders') = Cardinality(PlacedOrders) + 1
    <2>1. PlacedOrders' = PlacedOrders \cup {o} /\ o \notin PlacedOrders
      BY <1>1, <1>2 DEF PlacedOrders
    <2> QED
      BY <2>1, PlacedFinite, FS_AddElement
  <1>4. /\ IsFiniteSet(Cancellations')
        /\ Cardinality(Cancellations') = Cardinality(Cancellations)
    BY <1>1, OneMoreRow, FS_CardinalityType DEF OrdersInv, OrdersSound
  <1>5. itemStock' = itemStock - Quantity /\ itemStock \in Nat /\ itemStock' \in Nat
    <2>1. itemStock \in Nat
      BY DEF OrdersInv, OrdersSound, OrdersTypeOK
    <2>2. Quantity <= itemStock /\ itemStock' = itemStock - Quantity
      BY DEF PlaceOrder
    <2> QED
      BY <2>1, <2>2, QuantityAssumption
  <1>6. OrdersTypeOK'
    BY <1>1, <1>2, <1>5, OneMoreRow DEF OrdersInv, OrdersSound, OrdersTypeOK
  <1>7. HistoryNamesStatus' /\ LoadedArePlaced'
    <2>1. NoStatus \in OrderStatus \cup {NoStatus}
      OBVIOUS
    <2> QED
      BY <1>1, <1>2, <2>1, NamesStatus DEF OrdersInv, LoadedArePlaced
  <1>8. HistoryExplainsStock'
    <2> DEFINE k == Cardinality(Cancellations)
               p == Cardinality(PlacedOrders)
    <2>1. k \in Nat /\ p \in Nat
      BY PlacedFinite, FS_CardinalityType DEF OrdersInv
    <2>2. itemStock = OpeningStock - Quantity * p + Quantity * k
      BY DEF OrdersInv, OrdersSound, HistoryExplainsStock, PlacedOrders
    <2>3. Cardinality(PlacedOrders') = p + 1 /\ Cardinality(Cancellations') = k
      BY <1>3, <1>4
    <2> HIDE DEF k, p
    <2>4. itemStock' = OpeningStock - Quantity * (p + 1) + Quantity * k
      BY <1>5, <2>1, <2>2, QuantityAssumption
    <2> QED
      BY <2>3, <2>4 DEF HistoryExplainsStock, PlacedOrders
  <1> QED
    BY <1>4, <1>6, <1>7, <1>8 DEF OrdersInv, OrdersSound

\* Reading an order, and refusing a change of it, write nothing.
LEMMA RequestsOnly ==
    ASSUME OrdersInv, UNCHANGED <<orderStatus, orderHistory, itemStock>>,
           LoadedArePlaced',
           loadedOrder' \in [Staff -> [order : Orders, status : OrderStatus] \cup {NotLoaded}]
    PROVE  OrdersInv'
  <1>1. Cancellations' = Cancellations
    BY DEF Cancellations, CanceledRows
  <1> QED
    BY <1>1 DEF OrdersInv, OrdersSound, OrdersTypeOK, HistoryNamesStatus, HistoryExplainsStock

\* Every step keeps the orders sound.
LEMMA OrdersStep ==
    ASSUME OrdersInv, [OrdersNext]_orderVars
    PROVE  OrdersInv'
  <1>0. loadedOrder \in [Staff -> [order : Orders, status : OrderStatus] \cup {NotLoaded}]
    BY DEF OrdersInv, OrdersSound, OrdersTypeOK
  <1>1. ASSUME NEW o \in Orders, PaymentProcesses(o)
        PROVE  OrdersInv'
    <2>1. orderStatus[o] \in OrderStatus /\ "processing" \in OrderStatus
      BY <1>1 DEF PaymentProcesses, OrdersInv, OrdersSound, OrdersTypeOK, OrderStatus
    <2> QED
      BY <1>0, <1>1, <2>1, ChangeSound DEF PaymentProcesses
  <1>2. ASSUME NEW m \in Staff, NEW o \in Orders, LoadOrder(m, o)
        PROVE  OrdersInv'
    <2>1. orderStatus[o] \in OrderStatus
      BY <1>2 DEF LoadOrder, OrdersInv, OrdersSound, OrdersTypeOK
    <2>2. LoadedArePlaced'
      BY <1>0, <1>2, <2>1 DEF LoadOrder, LoadedArePlaced, OrdersInv
    <2> QED
      BY <1>0, <1>2, <2>1, <2>2, RequestsOnly DEF LoadOrder
  <1>3. ASSUME NEW m \in Staff, NEW to \in OrderStatus, SubmitChange(m, to)
        PROVE  OrdersInv'
    BY <1>0, <1>3, ChangeSound DEF SubmitChange, LoadedArePlaced, OrdersInv
  <1>4. ASSUME NEW m \in Staff, NEW to \in OrderStatus, RefuseChange(m, to)
        PROVE  OrdersInv'
    <2>1. LoadedArePlaced'
      BY <1>0, <1>4 DEF RefuseChange, LoadedArePlaced, OrdersInv
    <2> QED
      BY <1>0, <1>4, <2>1, RequestsOnly DEF RefuseChange
  <1>5. CASE UNCHANGED orderVars
    <2>1. LoadedArePlaced'
      BY <1>5 DEF orderVars, LoadedArePlaced, OrdersInv
    <2> QED
      BY <1>0, <1>5, <2>1, RequestsOnly DEF orderVars
  <1> QED
    BY <1>1, <1>2, <1>3, <1>4, <1>5, PlaceSound DEF OrdersNext

\* However stale the instances are that staff change orders with, the last row
\* of an order's history names its status, and the history explains the stock:
\* each cancellation it has returned one quantity, and nothing else did.
THEOREM OrdersAreSound == OrdersSpec => []OrdersSound
  <1>1. OrdersInv => OrdersSound
    BY DEF OrdersInv
  <1> QED
    BY <1>1, InitOrders, OrdersStep, PTL DEF OrdersSpec

-----------------------------------------------------------------------------
(* Warehouses.                                                             *)

\* A request is about a warehouse that exists.
FormsOpened == \A e \in Editors : form[e] # Closed => form[e].warehouse \in created

\* What makes WarehousesSound inductive.
WarehousesInv == WarehousesSound /\ FormsOpened

\* The default is one warehouse, or none.
LEMMA OneDefault ==
    ASSUME NEW S, NEW w, S = {} \/ S = {w}
    PROVE  Cardinality(S) <= 1
  BY FS_EmptySet, FS_Singleton

\* What is left of the default is at most as much.
LEMMA FewerDefaults ==
    ASSUME WarehouseTypeOK, NEW S \in SUBSET defaults
    PROVE  Cardinality(S) <= 1
  <1>1. IsFiniteSet(defaults)
    BY WarehousesAreNamed, FS_Subset DEF WarehouseTypeOK
  <1>2. Cardinality(S) <= Cardinality(defaults) /\ Cardinality(defaults) <= 1
    BY <1>1, FS_Subset DEF WarehouseTypeOK
  <1>3. Cardinality(S) \in Nat /\ Cardinality(defaults) \in Nat
    BY <1>1, FS_Subset, FS_CardinalityType
  <1> QED
    BY <1>2, <1>3

\* A store has no warehouse before the first is needed.
LEMMA InitWarehouses == WarehouseInit => WarehousesInv
  <1> SUFFICES ASSUME WarehouseInit PROVE WarehousesInv
    OBVIOUS
  <1>1. defaults = {} /\ created = {} /\ active = {}
    BY DEF WarehouseInit
  <1>2. Cardinality(defaults) <= 1
    BY <1>1, FS_EmptySet
  <1>3. form \in [Editors -> Instance \cup {Closed}] /\ outdated \in BOOLEAN /\ adopted \in BOOLEAN
    BY DEF WarehouseInit
  <1>4. FormsOpened
    BY DEF WarehouseInit, FormsOpened
  <1> QED
    BY <1>1, <1>2, <1>3, <1>4 DEF WarehousesInv, WarehousesSound, WarehouseTypeOK, DefaultServes

\* A step that leaves the forms or closes one keeps what they are about.
LEMMA ProvisionSound ==
    ASSUME WarehousesInv, Provision
    PROVE  WarehousesInv'
  <1>1. WarehouseTypeOK'
    BY OneDefault, WarehousesAreNamed
    DEF Provision, WarehousesInv, WarehousesSound, WarehouseTypeOK
  <1>2. DefaultServes'
    BY DEF Provision, DefaultServes
  <1>3. FormsOpened'
    BY DEF Provision, WarehousesInv, FormsOpened
  <1> QED
    BY <1>1, <1>2, <1>3 DEF WarehousesInv, WarehousesSound

\* A warehouse is created as the default only when it is active.
LEMMA CreateSound ==
    ASSUME WarehousesInv, NEW w \in WarehouseIds, NEW a \in BOOLEAN, NEW d \in BOOLEAN,
           Create(w, a, d)
    PROVE  WarehousesInv'
  <1>1. Cardinality(defaults') <= 1
    BY OneDefault
    DEF Create, DefaultsWith, WarehousesInv, WarehousesSound, WarehouseTypeOK
  <1>2. WarehouseTypeOK'
    BY <1>1 DEF Create, DefaultsWith, WarehousesInv, WarehousesSound, WarehouseTypeOK
  <1>3. DefaultServes'
    BY DEF Create, DefaultsWith, WarehousesInv, WarehousesSound, DefaultServes
  <1>4. FormsOpened'
    BY DEF Create, WarehousesInv, FormsOpened
  <1> QED
    BY <1>2, <1>3, <1>4 DEF WarehousesInv, WarehousesSound

\* The instance a form was read with is still right unless requests overlapped.
LEMMA CloseIsCurrent ==
    ASSUME WarehousesInv, NEW e \in Editors, CloseForm(e), form[e] # Closed
    PROVE  /\ form[e].warehouse \in created
           /\ form' \in [Editors -> Instance \cup {Closed}]
           /\ \A f \in Editors : form'[f] \in {form[f], Closed}
           /\ outdated' \in BOOLEAN
           /\ UNCHANGED <<created, adopted>>
           /\ ~outdated' => /\ ~outdated
                            /\ form[e].isDefault = (form[e].warehouse \in defaults)
                            /\ form[e].isActive = (form[e].warehouse \in active)
  <1>1. form \in [Editors -> Instance \cup {Closed}] /\ outdated \in BOOLEAN
    BY DEF WarehousesInv, WarehousesSound, WarehouseTypeOK
  <1>2. ~outdated' => ~outdated /\ form[e] = Row(form[e].warehouse)
    BY DEF CloseForm
  <1>3. form[e] = Row(form[e].warehouse) =>
            /\ form[e].isDefault = (form[e].warehouse \in defaults)
            /\ form[e].isActive = (form[e].warehouse \in active)
    BY DEF Row
  <1> QED
    BY <1>1, <1>2, <1>3 DEF CloseForm, WarehousesInv, FormsOpened

\* What a submitted form leaves: enough of it to be sound.
LEMMA SubmitSound ==
    ASSUME WarehousesInv, NEW e \in Editors, CloseForm(e), form[e] # Closed,
           active' \subseteq created, Cardinality(defaults') <= 1,
           defaults' \subseteq defaults \cup {form[e].warehouse},
           ~outdated' => \A w \in defaults' : w \in active' \/ (adopted /\ w = Main)
    PROVE  WarehousesInv'
  <1>1. /\ form[e].warehouse \in created
        /\ form' \in [Editors -> Instance \cup {Closed}]
        /\ \A f \in Editors : form'[f] \in {form[f], Closed}
        /\ outdated' \in BOOLEAN
        /\ UNCHANGED <<created, adopted>>
    BY CloseIsCurrent
  <1>2. WarehouseTypeOK'
    BY <1>1 DEF WarehousesInv, WarehousesSound, WarehouseTypeOK
  <1>3. DefaultServes'
    BY <1>1 DEF DefaultServes
  <1>4. FormsOpened'
    BY <1>1 DEF WarehousesInv, FormsOpened
  <1> QED
    BY <1>2, <1>3, <1>4 DEF WarehousesInv, WarehousesSound

\* update_warehouse keeps the default active, and keeps a default.
LEMMA UpdateSound ==
    ASSUME WarehousesInv, NEW e \in Editors, NEW a \in BOOLEAN, NEW ticked \in BOOLEAN,
           Update(e, a, ticked)
    PROVE  WarehousesInv' /\ (defaults # {} /\ ~outdated' => defaults' # {})
  <1> DEFINE w == form[e].warehouse
             still == StillDefault(form[e], ticked)
             others == IF ticked THEN {} ELSE defaults \ {w}
  <1>1. /\ form[e] # Closed /\ CloseForm(e)
        /\ still => a /\ others = {}
        /\ defaults' = IF still THEN {w} ELSE others
        /\ active' = IF a THEN active \cup {w} ELSE active \ {w}
    BY DEF Update
  <1>2. still <=> ticked \/ form[e].isDefault
    BY DEF StillDefault
  <1> HIDE DEF still
  <1>3. ~outdated' => (form[e].isDefault = (w \in defaults)) /\ ~outdated
    BY <1>1, CloseIsCurrent
  <1>4. w \in created /\ active \subseteq created
    BY <1>1, CloseIsCurrent DEF WarehousesInv, WarehousesSound, WarehouseTypeOK
  <1>5. Cardinality(defaults') <= 1
    <2>1. CASE still
      BY <1>1, <2>1, OneDefault
    <2>2. CASE ~still
      BY <1>1, <2>2, FewerDefaults DEF WarehousesInv, WarehousesSound
    <2> QED
      BY <2>1, <2>2
  <1>6. ~outdated' => \A d \in defaults' : d \in active' \/ (adopted /\ d = Main)
    BY <1>1, <1>2, <1>3 DEF WarehousesInv, WarehousesSound, DefaultServes
  <1>7. active' \subseteq created /\ defaults' \subseteq defaults \cup {w}
    BY <1>1, <1>4
  <1>8. defaults # {} /\ ~outdated' => defaults' # {}
    BY <1>1, <1>2, <1>3
  <1> QED
    BY <1>1, <1>5, <1>6, <1>7, <1>8, SubmitSound

\* set_default_warehouse makes an active warehouse the default.
LEMMA SetDefaultSound ==
    ASSUME WarehousesInv, NEW e \in Editors, SetDefault(e)
    PROVE  WarehousesInv' /\ defaults' # {}
  <1>1. /\ form[e] # Closed /\ CloseForm(e) /\ form[e].isActive
        /\ defaults' = {form[e].warehouse} /\ active' = active
    BY DEF SetDefault
  <1>2. ~outdated' => form[e].warehouse \in active
    BY <1>1, CloseIsCurrent
  <1>3. Cardinality(defaults') <= 1
    BY <1>1, OneDefault
  <1>4. active' \subseteq created
    BY <1>1 DEF WarehousesInv, WarehousesSound, WarehouseTypeOK
  <1> QED
    BY <1>1, <1>2, <1>3, <1>4, SubmitSound

\* archive_warehouse leaves the default alone.
LEMMA ArchiveSound ==
    ASSUME WarehousesInv, NEW e \in Editors, Archive(e)
    PROVE  WarehousesInv' /\ defaults' = defaults
  <1>1. /\ form[e] # Closed /\ CloseForm(e) /\ ~form[e].isDefault
        /\ active' = active \ {form[e].warehouse} /\ defaults' = defaults
    BY DEF Archive, MayArchive
  <1>2. ~outdated' => ~outdated /\ form[e].warehouse \notin defaults
    BY <1>1, CloseIsCurrent
  <1>3. Cardinality(defaults') <= 1 /\ active' \subseteq created
    BY <1>1 DEF WarehousesInv, WarehousesSound, WarehouseTypeOK
  <1>4. ~outdated' => \A d \in defaults' : d \in active' \/ (adopted /\ d = Main)
    BY <1>1, <1>2 DEF WarehousesInv, WarehousesSound, DefaultServes
  <1> QED
    BY <1>1, <1>3, <1>4, SubmitSound

\* Opening and refusing a form write no warehouse.
LEMMA FormsOnly ==
    ASSUME WarehousesInv, UNCHANGED <<created, active, defaults, outdated, adopted>>,
           NEW e \in Editors,
           (form[e] # Closed /\ form' = [form EXCEPT ![e] = Closed])
              \/ (\E w \in created : form' = [form EXCEPT ![e] = Row(w)])
    PROVE  WarehousesInv'
  <1>1. form \in [Editors -> Instance \cup {Closed}] /\ created \subseteq WarehouseIds
    BY DEF WarehousesInv, WarehousesSound, WarehouseTypeOK
  <1>2. \A w \in created : Row(w) \in Instance /\ Row(w).warehouse = w
    BY <1>1 DEF Row, Instance
  <1>3. form' \in [Editors -> Instance \cup {Closed}] /\ FormsOpened'
    BY <1>1, <1>2 DEF WarehousesInv, FormsOpened
  <1> QED
    BY <1>3 DEF WarehousesInv, WarehousesSound, WarehouseTypeOK, DefaultServes

\* Every step keeps the warehouses sound, and a default where there is one.
LEMMA WarehousesStep ==
    ASSUME WarehousesInv, [WarehouseNext]_warehouseVars
    PROVE  WarehousesInv' /\ (defaults # {} /\ ~outdated' => defaults' # {})
  <1>1. CASE Provision
    BY <1>1, ProvisionSound DEF Provision
  <1>2. ASSUME NEW w \in WarehouseIds, NEW a \in BOOLEAN, NEW d \in BOOLEAN, Create(w, a, d)
        PROVE  WarehousesInv' /\ (defaults # {} => defaults' # {})
    BY <1>2, CreateSound DEF Create, DefaultsWith
  <1>3. ASSUME NEW e \in Editors, NEW w \in WarehouseIds, OpenForm(e, w)
        PROVE  WarehousesInv' /\ defaults' = defaults
    BY <1>3, FormsOnly DEF OpenForm
  <1>4. ASSUME NEW e \in Editors, Refuse(e)
        PROVE  WarehousesInv' /\ defaults' = defaults
    BY <1>4, FormsOnly DEF Refuse
  <1>5. CASE UNCHANGED warehouseVars
    BY <1>5 DEF warehouseVars, WarehousesInv, WarehousesSound, WarehouseTypeOK, DefaultServes,
                FormsOpened, Row
  <1> QED
    BY <1>1, <1>2, <1>3, <1>4, <1>5, UpdateSound, SetDefaultSound, ArchiveSound
    DEF WarehouseNext

\* At most one warehouse is the default, and unless two requests about one
\* warehouse overlapped it works: orders are filled from it.
THEOREM WarehousesAreSound == WarehouseSpec => []WarehousesSound
  <1>1. WarehousesInv => WarehousesSound
    BY DEF WarehousesInv
  <1> QED
    BY <1>1, InitWarehouses, WarehousesStep, PTL DEF WarehouseSpec

\* Once a store has a default warehouse it keeps having one.
THEOREM DefaultIsKept == WarehouseSpec => DefaultKept
  <1>1. WarehousesInv /\ [WarehouseNext]_warehouseVars =>
            [defaults # {} /\ ~outdated' => defaults' # {}]_warehouseVars
    BY WarehousesStep
  <1> QED
    BY <1>1, InitWarehouses, WarehousesStep, PTL DEF WarehouseSpec, DefaultKept

-----------------------------------------------------------------------------
(* Refunds and returns: amounts.                                           *)

\* The states of a manager's request, and the statuses of a return.
WorkStates == {Idle} \cup Opened \cup Creating \cup Planned \cup Checked

\* The statuses that a return can have.
LEMMA ReturnStatuses ==
    DOMAIN ReturnTransitions = {"none", "requested", "under_review", "approved", "in_transit",
                                "received", "inspected", "rejected", "completed", "cancelled"}
  BY DEF ReturnTransitions

\* The step of a request says what it holds.
LEMMA WorkKinds ==
    ASSUME NEW w \in WorkStates
    PROVE  /\ w.step \in {"idle", "opened", "creating", "planned", "checked"}
           /\ w.step = "idle" <=> w = Idle
           /\ w.step = "opened" => w \in Opened
           /\ w.step = "creating" => w \in Creating
           /\ w.step = "planned" => w \in Planned
           /\ w.step = "checked" => w \in Checked
  BY DEF WorkStates, Idle, Opened, Creating, Planned, Checked

\* What is left of an amount.
LEMMA LeftOver ==
    ASSUME NEW a \in Nat, NEW b \in Nat
    PROVE  /\ Remaining(a, b) \in Nat /\ Least(a, b) \in Nat
           /\ Least(a, b) <= a /\ Least(a, b) <= b
           /\ Remaining(a, b) = 0 <=> b >= a
           /\ \A c \in Nat : c <= Remaining(a, b) /\ b <= a => b + c <= a
  BY DEF Remaining, Least

\* Rounding gives a number.
LEMMA Rounds ==
    ASSUME NEW n \in Nat, NEW d \in Nat \ {0}
    PROVE  Quantized(n, d) \in Nat
  <1>1. n \div d \in Nat
    OBVIOUS
  <1> QED
    BY <1>1 DEF Quantized

\* The product of numbers.
LEMMA ProductType ==
    ASSUME NEW a \in Nat, NEW b \in Nat
    PROVE  a * b \in Nat
  OBVIOUS

\* A factor that grows does not shrink the product.
LEMMA ProductOrder ==
    ASSUME NEW a \in Nat, NEW b \in Nat, NEW c \in Nat, b <= c
    PROVE  a * b <= a * c
  <1>1. a * (c - b) \in Nat
    <2> DEFINE d == c - b
    <2>1. d \in Nat
      OBVIOUS
    <2> HIDE DEF d
    <2>2. a * d \in Nat
      BY <2>1, ProductType
    <2> QED
      BY <2>2 DEF d
  <1>2. a * c = a * b + a * (c - b)
    OBVIOUS
  <1>3. a * b \in Nat
    BY ProductType
  <1> QED
    BY <1>1, <1>2, <1>3

\* The amounts of the order.
LEMMA Amounts ==
    /\ \A i \in Items : Bought[i] \in Nat /\ UnitPrice[i] \in Nat /\ UnitTax[i] \in Nat
                        /\ TotalTax[i] \in Nat
    /\ ShippingCost \in Nat /\ ShippingTax \in Nat /\ GrandTotal \in Nat
    /\ MaxLine \in Nat /\ MaxOverlaps \in Nat
  BY AmountsAssumption, BoundsAssumption

\* What a plan would pay back is a plan, and takes no more tax than is left.
LEMMA PlanFacts ==
    ASSUME SalesTypeOK, NEW lines \in Quantities, NEW shipping \in Nat
    PROVE  LET plan == PlanFor(lines, shipping)
           IN  /\ plan.total \in Nat => plan \in Plan
               /\ plan.total \in Int
               /\ \A i \in Items : plan.tax[i] <= Remaining(TotalTax[i], refundedTax[i])
               /\ plan.shippingTax <= Remaining(ShippingTax, refundedShippingTax)
  <1> DEFINE tax == [i \in Items |-> IF lines[i] = 0 THEN 0 ELSE LineTax(i, lines[i])]
             st == ShippingTaxOf(shipping)
  <1>1. /\ refundedTax \in Quantities /\ refundedShippingTax \in Nat
        /\ \A i \in Items : refundedTax[i] \in Nat /\ lines[i] \in Nat
    BY DEF SalesTypeOK, Quantities
  <1>2. \A i \in Items : tax[i] \in Nat /\ tax[i] <= Remaining(TotalTax[i], refundedTax[i])
    <2> SUFFICES ASSUME NEW i \in Items
                 PROVE  tax[i] \in Nat /\ tax[i] <= Remaining(TotalTax[i], refundedTax[i])
      OBVIOUS
    <2>1. Remaining(TotalTax[i], refundedTax[i]) \in Nat
      BY <1>1, Amounts, LeftOver
    <2>2. UnitTax[i] * lines[i] \in Nat
      BY <1>1, Amounts, ProductType
    <2>3. LineTax(i, lines[i]) \in Nat
          /\ LineTax(i, lines[i]) <= Remaining(TotalTax[i], refundedTax[i])
      BY <2>1, <2>2, LeftOver DEF LineTax
    <2> QED
      BY <2>1, <2>3
  <1>3. st \in Nat /\ st <= Remaining(ShippingTax, refundedShippingTax)
    <2>1. Remaining(ShippingTax, refundedShippingTax) \in Nat
      BY <1>1, Amounts, LeftOver
    <2>2. shipping * ShippingTax \in Nat
      BY Amounts, ProductType
    <2>3. ShippingCost > 0 => Quantized(shipping * ShippingTax, ShippingCost) \in Nat
      BY <2>2, Amounts, Rounds
    <2> QED
      BY <2>1, <2>3, LeftOver DEF ShippingTaxOf
  <1>4. tax \in Quantities
    BY <1>2 DEF Quantities
  <1> HIDE DEF tax, st
  <1>5. LinesTotal(lines, tax) \in Int
    <2> DEFINE f == [i \in Items |-> UnitPrice[i] * lines[i] + tax[i]]
    <2>1. \A i \in Items : f[i] \in Int
      <3> SUFFICES ASSUME NEW i \in Items PROVE UnitPrice[i] * lines[i] + tax[i] \in Int
        OBVIOUS
      <3>1. UnitPrice[i] * lines[i] \in Nat
        BY <1>1, Amounts, ProductType
      <3> QED
        BY <1>2, <3>1
    <2>2. LinesTotal(lines, tax) = SumFunctionOnSet(f, Items)
      BY DEF LinesTotal, SumFunction
    <2> HIDE DEF f
    <2> QED
      BY <2>1, <2>2, OrderIsFinite, SumType
  <1> DEFINE total == LinesTotal(lines, tax) + shipping + st
  <1>6. total \in Int
    BY <1>3, <1>5
  <1>7. PlanFor(lines, shipping) = [lines |-> lines, tax |-> tax, shipping |-> shipping,
                                    shippingTax |-> st, total |-> total]
    BY DEF PlanFor, tax, st
  <1> HIDE DEF total
  <1> QED
    BY <1>2, <1>3, <1>4, <1>6, <1>7 DEF Plan

-----------------------------------------------------------------------------
(* What the refunds keep true.                                             *)

Refunding(w) == w.step \in {"planned", "checked"}

\* While no request began beside another, at most one is under way.
Alone == overlaps = 0 => \A m, n \in Managers : Busy(m) /\ Busy(n) => m = n

\* A plan that what is left of the order still allows.
Fits(plan) ==
    /\ MayRefund(plan)
    /\ \A i \in Items : plan.tax[i] <= Remaining(TotalTax[i], refundedTax[i])
    /\ plan.shippingTax <= Remaining(ShippingTax, refundedShippingTax)

PlansFit == overlaps = 0 => \A m \in Managers : Refunding(work[m]) => Fits(work[m].plan)

\* A refund that will mark the order pays back the rest of it; and, while no two
\* requests overlap, every refund that does so will mark it.
RestIsMarked ==
    /\ \A m \in Managers : work[m].step = "checked" /\ work[m].mark =>
          refunded + work[m].plan.total >= GrandTotal
    /\ overlaps = 0 =>
          \A m \in Managers : work[m].step = "checked" /\ paymentStatus = "paid"
                               /\ refunded + work[m].plan.total >= GrandTotal => work[m].mark

RefundsInv ==
    /\ PaidBackWithinPaid /\ RefundedWithinBought /\ TaxPaidBackOnce /\ RefundedWhenAll
    /\ Alone /\ PlansFit /\ RestIsMarked

\* Manager m's request goes on to another state.
MovesOn(m, state) ==
    /\ state \in WorkStates
    /\ work' = [work EXCEPT ![m] = state]
    /\ overlaps' \in 0 .. MaxOverlaps
    /\ overlaps' = 0 => overlaps = 0 /\ \A n \in Managers : n # m => ~Busy(n)

\* The types of the requests under way.
LEMMA WorkTyped ==
    ASSUME SalesTypeOK
    PROVE  /\ work \in [Managers -> WorkStates] /\ overlaps \in 0 .. MaxOverlaps /\ overlaps \in Nat
           /\ \A m \in Managers : work[m] \in WorkStates
  <1>1. work \in [Managers -> WorkStates] /\ overlaps \in 0 .. MaxOverlaps
    BY DEF SalesTypeOK, WorkStates
  <1> QED
    BY <1>1, Amounts

\* A request begins.
LEMMA Began ==
    ASSUME SalesTypeOK, NEW m \in Managers, NEW state \in WorkStates, Begin(m, state)
    PROVE  MovesOn(m, state) /\ ~Busy(m)
  <1>1. work' = [work EXCEPT ![m] = state] /\ ~Busy(m)
    BY DEF Begin, Set
  <1>3. CASE \A n \in Managers \ {m} : ~Busy(n)
    <2>1. overlaps' = overlaps /\ \A n \in Managers : n # m => ~Busy(n)
      BY <1>3 DEF Begin
    <2> QED
      BY <1>1, <2>1, WorkTyped DEF MovesOn
  <1>4. CASE ~(\A n \in Managers \ {m} : ~Busy(n))
    <2>1. overlaps < MaxOverlaps /\ overlaps' = overlaps + 1
      BY <1>4 DEF Begin
    <2>2. overlaps' \in 0 .. MaxOverlaps /\ overlaps' # 0
      BY <2>1, WorkTyped, Amounts
    <2> QED
      BY <1>1, <2>2 DEF MovesOn
  <1> QED
    BY <1>3, <1>4

\* A request that is under way goes on.
LEMMA WentOn ==
    ASSUME SalesTypeOK, Alone, NEW m \in Managers, Busy(m), NEW state \in WorkStates,
           Set(m, state), UNCHANGED overlaps
    PROVE  MovesOn(m, state)
  <1>2. overlaps = 0 => \A n \in Managers : n # m => ~Busy(n)
    BY DEF Alone
  <1> QED
    BY <1>2, WorkTyped DEF MovesOn, Set

\* The types of what a request moves on to, and whose request it was.
LEMMA MovedTypes ==
    ASSUME SalesTypeOK, NEW m \in Managers, NEW state, MovesOn(m, state)
    PROVE  /\ work' \in [Managers -> {Idle} \cup Opened \cup Creating \cup Planned \cup Checked]
           /\ overlaps' \in 0 .. MaxOverlaps
           /\ Alone'
           /\ work'[m] = state
           /\ \A n \in Managers : n # m => work'[n] = work[n]
  <1>1. work' = [work EXCEPT ![m] = state] /\ state \in WorkStates
    BY DEF MovesOn
  <1>2. work' \in [Managers -> WorkStates]
    BY <1>1, WorkTyped
  <1>3. work'[m] = state /\ \A n \in Managers : n # m => work'[n] = work[n]
    BY <1>1, WorkTyped
  <1>4. Alone'
    BY <1>3 DEF Alone, Busy, MovesOn
  <1> QED
    BY <1>2, <1>3, <1>4 DEF WorkStates, MovesOn

\* A step that leaves the refunds alone, whatever request it begins or ends.
LEMMA RefundsUntouched ==
    ASSUME SalesTypeOK, RefundsInv, NEW m \in Managers, NEW state, MovesOn(m, state),
           UNCHANGED <<paymentStatus, refundVars>>,
           Refunding(state) /\ overlaps' = 0 => Fits(state.plan),
           state.step = "checked" /\ state.mark => refunded + state.plan.total >= GrandTotal,
           state.step = "checked" /\ overlaps' = 0 /\ paymentStatus = "paid"
               /\ refunded + state.plan.total >= GrandTotal => state.mark
    PROVE  RefundsInv'
  <1>1. /\ overlaps' = 0 => overlaps = 0
        /\ UNCHANGED <<paymentStatus, refunded, refundedQuantity, refundedTax, refundedShipping,
                       refundedShippingTax>>
    BY DEF MovesOn, refundVars
  <1>2. Alone' /\ work'[m] = state /\ \A n \in Managers : n # m => work'[n] = work[n]
    BY MovedTypes
  <1>3. PaidBackWithinPaid' /\ RefundedWithinBought' /\ TaxPaidBackOnce' /\ RefundedWhenAll'
    BY <1>1 DEF RefundsInv, PaidBackWithinPaid, PaidAmount, RefundedWithinBought, TaxPaidBackOnce,
                RefundedWhenAll
  <1>4. PlansFit'
    <2> SUFFICES ASSUME overlaps' = 0, NEW n \in Managers, Refunding(work'[n])
                 PROVE  Fits(work[n].plan)'
      BY DEF PlansFit, Refunding
    <2>1. Fits(work'[n].plan)
      BY <1>1, <1>2 DEF RefundsInv, PlansFit
    <2> QED
      BY <1>1, <2>1 DEF Fits, MayRefund, RefundableAmount, PaidAmount
  <1>5. RestIsMarked'
    BY <1>1, <1>2 DEF RefundsInv, RestIsMarked
  <1> QED
    BY <1>2, <1>3, <1>4, <1>5 DEF RefundsInv

\* The payment of the order: nothing can be refunded before it.
LEMMA RefundsAfterPay ==
    ASSUME SalesTypeOK, RefundsInv, Pay
    PROVE  RefundsInv'
  <1>1. /\ paymentStatus = "pending" /\ paymentStatus' = "paid"
        /\ UNCHANGED <<refunded, refundedQuantity, refundedTax, refundedShipping,
                       refundedShippingTax, work, overlaps>>
    BY DEF Pay, refundVars
  <1>2. PaidAmount = 0 /\ RefundableAmount = 0 /\ PaidAmount' = GrandTotal
    BY <1>1, Amounts DEF PaidAmount, RefundableAmount, Remaining, SalesTypeOK
  <1>3. overlaps = 0 => \A m \in Managers : ~Refunding(work[m])
    <2> SUFFICES ASSUME overlaps = 0, NEW m \in Managers, Refunding(work[m]) PROVE FALSE
      OBVIOUS
    <2>1. MayRefund(work[m].plan)
      BY DEF RefundsInv, PlansFit, Fits
    <2> QED
      BY <1>2, <2>1 DEF MayRefund
  <1>4. overlaps = 0 => refunded = 0
    BY <1>2 DEF RefundsInv, PaidBackWithinPaid, SalesTypeOK
  <1>5. PaidBackWithinPaid' /\ RefundedWithinBought' /\ TaxPaidBackOnce' /\ RefundedWhenAll'
    BY <1>1, <1>2, <1>4, Amounts
       DEF RefundsInv, PaidBackWithinPaid, RefundedWithinBought, TaxPaidBackOnce, RefundedWhenAll
  <1>6. Alone' /\ PlansFit'
    BY <1>1, <1>3 DEF RefundsInv, Alone, PlansFit, Busy, Refunding
  <1>7. RestIsMarked'
    BY <1>1, <1>3 DEF RefundsInv, RestIsMarked, Refunding
  <1> QED
    BY <1>5, <1>6, <1>7 DEF RefundsInv

\* The facts about a checked refund.
LEMMA CheckedFacts ==
    ASSUME SalesTypeOK, NEW m \in Managers, work[m].step = "checked"
    PROVE  LET plan == work[m].plan
           IN  /\ plan.total \in Nat /\ plan.shipping \in Nat /\ plan.shippingTax \in Nat
               /\ plan.lines \in Quantities /\ plan.tax \in Quantities
               /\ \A i \in Items : plan.lines[i] \in Nat /\ plan.tax[i] \in Nat
               /\ work[m].mark \in BOOLEAN /\ work[m].return \in Returns \cup {Direct}
  <1>1. work[m] \in Checked
    BY WorkTyped, WorkKinds
  <1>2. work[m].plan \in Plan /\ work[m].mark \in BOOLEAN /\ work[m].return \in Returns \cup {Direct}
    BY <1>1 DEF Checked
  <1> QED
    BY <1>2 DEF Plan, Quantities

\* The rows of a refund become visible.
LEMMA RefundsCommitted ==
    ASSUME SalesTypeOK, RefundsInv, NEW m \in Managers, work[m].step = "checked",
           AddRefund(work[m].plan, work[m].mark), MovesOn(m, Idle)
    PROVE  RefundsInv'
  <1> DEFINE plan == work[m].plan
             mark == work[m].mark
  <1>1. /\ plan.total \in Nat /\ plan.shipping \in Nat /\ plan.shippingTax \in Nat
        /\ \A i \in Items : plan.lines[i] \in Nat /\ plan.tax[i] \in Nat
    BY CheckedFacts
  <1>2. /\ refunded' = refunded + plan.total
        /\ \A i \in Items : refundedQuantity'[i] = refundedQuantity[i] + plan.lines[i]
        /\ \A i \in Items : refundedTax'[i] = refundedTax[i] + plan.tax[i]
        /\ refundedShipping' = refundedShipping + plan.shipping
        /\ refundedShippingTax' = refundedShippingTax + plan.shippingTax
        /\ paymentStatus' = IF mark THEN "refunded" ELSE paymentStatus
    BY DEF AddRefund
  <1>3. /\ refunded \in Nat /\ refundedShipping \in Nat /\ refundedShippingTax \in Nat
        /\ \A i \in Items : refundedQuantity[i] \in Nat /\ refundedTax[i] \in Nat
    BY DEF SalesTypeOK, Quantities
  <1>4. /\ overlaps' = 0 => overlaps = 0 /\ \A n \in Managers : n # m => work'[n] = Idle
        /\ Alone' /\ work'[m] = Idle /\ \A n \in Managers : n # m => work'[n] = work[n]
    <2>1. Alone' /\ work'[m] = Idle /\ \A n \in Managers : n # m => work'[n] = work[n]
      BY MovedTypes
    <2> QED
      BY <2>1 DEF MovesOn, Busy
  <1>5. overlaps' = 0 => Fits(plan)
    BY <1>4 DEF RefundsInv, PlansFit, Refunding
  <1>6. paymentStatus \in {"pending", "paid", "refunded"}
    BY DEF SalesTypeOK
  <1>7. mark => refunded + plan.total >= GrandTotal
    BY DEF RefundsInv, RestIsMarked
  <1>8. overlaps' = 0 /\ paymentStatus = "paid" /\ refunded + plan.total >= GrandTotal => mark
    BY <1>4 DEF RefundsInv, RestIsMarked
  <1> HIDE DEF plan, mark
  <1>9. PaidAmount \in Nat /\ (overlaps' = 0 => refunded <= PaidAmount)
    BY <1>4, Amounts DEF PaidAmount, RefundsInv, PaidBackWithinPaid
  <1>10. ASSUME overlaps' = 0
         PROVE  plan.total >= 1 /\ refunded + plan.total <= PaidAmount
    <2>1. plan.total >= 1 /\ plan.total <= Remaining(PaidAmount, refunded)
      <3>1. RefundableAmount \in Nat /\ plan.total \in 1 .. RefundableAmount
        BY <1>3, <1>5, <1>9, <1>10, LeftOver DEF Fits, MayRefund, RefundableAmount
      <3> QED
        BY <3>1 DEF RefundableAmount
    <2> QED
      BY <1>1, <1>3, <1>9, <1>10, <2>1, LeftOver
  <1>11. ASSUME overlaps' = 0
         PROVE  paymentStatus # "pending" /\ PaidAmount = GrandTotal /\ PaidAmount' = GrandTotal
    BY <1>1, <1>2, <1>3, <1>6, <1>10, <1>11 DEF PaidAmount
  <1>12. PaidBackWithinPaid'
    BY <1>2, <1>10, <1>11 DEF PaidBackWithinPaid
  <1>13. RefundedWithinBought'
    <2> SUFFICES ASSUME overlaps' = 0, NEW i \in Items PROVE refundedQuantity'[i] <= Bought[i]
      BY DEF RefundedWithinBought
    <2>1. plan.lines[i] = 0 \/ plan.lines[i] <= Bought[i] - refundedQuantity[i]
      BY <1>5 DEF Fits, MayRefund
    <2>2. refundedQuantity[i] <= Bought[i]
      BY <1>4 DEF RefundsInv, RefundedWithinBought
    <2>3. refundedQuantity'[i] = refundedQuantity[i] + plan.lines[i]
      BY <1>2
    <2> QED
      BY <1>1, <1>3, <2>1, <2>2, <2>3, Amounts
  <1>14. TaxPaidBackOnce'
    <2> SUFFICES ASSUME overlaps' = 0
                 PROVE  /\ \A i \in Items : refundedTax'[i] <= TotalTax[i]
                        /\ refundedShipping' <= ShippingCost
                        /\ refundedShippingTax' <= ShippingTax
      BY DEF TaxPaidBackOnce
    <2>1. /\ \A i \in Items : refundedTax[i] <= TotalTax[i]
          /\ refundedShipping <= ShippingCost
          /\ refundedShippingTax <= ShippingTax
      BY <1>4 DEF RefundsInv, TaxPaidBackOnce
    <2>2. /\ \A i \in Items : plan.tax[i] <= Remaining(TotalTax[i], refundedTax[i])
          /\ plan.shippingTax <= Remaining(ShippingTax, refundedShippingTax)
          /\ plan.shipping <= Remaining(ShippingCost, refundedShipping)
      BY <1>5 DEF Fits, MayRefund
    <2>3. ASSUME NEW i \in Items PROVE refundedTax'[i] <= TotalTax[i]
      <3>1. refundedTax[i] + plan.tax[i] <= TotalTax[i]
        BY ZenonT(30), <1>1, <1>3, <2>1, <2>2, Amounts, LeftOver
      <3> QED
        BY <1>2, <3>1
    <2>4. refundedShippingTax + plan.shippingTax <= ShippingTax
      BY <1>1, <1>3, <2>1, <2>2, Amounts, LeftOver
    <2>5. refundedShipping + plan.shipping <= ShippingCost
      BY <1>1, <1>3, <2>1, <2>2, Amounts, LeftOver
    <2> QED
      BY <1>2, <2>3, <2>4, <2>5
  <1>15. RefundedWhenAll'
    <2>1. paymentStatus = "refunded" => refunded >= GrandTotal
      BY DEF RefundsInv, RefundedWhenAll
    <2>2. paymentStatus' = "refunded" => refunded' >= GrandTotal
      BY <1>1, <1>2, <1>3, <1>7, <2>1, Amounts
    <2>3. ASSUME overlaps' = 0, refunded' = GrandTotal PROVE paymentStatus' = "refunded"
      BY <1>1, <1>2, <1>3, <1>6, <1>8, <1>11, <2>3, Amounts
    <2> QED
      BY <2>2, <2>3 DEF RefundedWhenAll
  <1>16. PlansFit'
    BY <1>4 DEF PlansFit, Refunding, Idle
  <1>17. RestIsMarked'
    <2>1. ASSUME NEW n \in Managers, work'[n].step = "checked", work'[n].mark
          PROVE  refunded' + work'[n].plan.total >= GrandTotal
      <3>1. n # m /\ work'[n] = work[n]
        BY <1>4, <2>1 DEF Idle
      <3>2. work[n].plan.total \in Nat
        BY <2>1, <3>1, CheckedFacts
      <3>3. refunded + work[n].plan.total >= GrandTotal
        BY <2>1, <3>1 DEF RefundsInv, RestIsMarked
      <3>4. refunded' + work[n].plan.total >= GrandTotal
        BY <1>1, <1>2, <1>3, <3>2, <3>3, Amounts
      <3> QED
        BY <3>1, <3>4
    <2>2. overlaps' = 0 => \A n \in Managers : work'[n].step # "checked"
      BY <1>4 DEF Idle
    <2> QED
      BY <2>1, <2>2 DEF RestIsMarked
  <1> QED
    BY <1>4, <1>12, <1>13, <1>14, <1>15, <1>16, <1>17 DEF RefundsInv

-----------------------------------------------------------------------------
(* What the returns keep true.                                             *)

LinesOf(row) == [i \in Items |-> IF i \in row.toRefund THEN row.received[i] ELSE 0]
AskedBack(row, i) == IF row.status \in {"none", "rejected", "cancelled"} THEN 0 ELSE row.requested[i]

\* A return with what was restocked for it: nothing arrives or is restocked that
\* was not asked for, and a completed return is settled.
RowSound(row, stock) ==
    /\ \A i \in Items : row.received[i] <= row.approved[i]
    /\ \A i \in Items : row.approved[i] <= row.requested[i]
    /\ \A i \in Items : stock[i] <= row.requested[i]
    /\ row.status = "completed" /\ LinesOf(row) # NoItems => row.refund
    /\ row.status = "completed" =>
          \A i \in row.restockable : row.received[i] > 0 => stock[i] > 0
    /\ row.status = "none" => row = NoReturn
    /\ row.status = "none" => stock = NoItems

RowsSound == \A r \in Returns : RowSound(return[r], restocked[r])

\* What the requests under way hold: only one of them creates a return, only one
\* pays it back, and that one not twice.
HoldersSound ==
    /\ \A m \in Managers : work[m].step = "opened" =>
          work[m].status # "none" /\ return[work[m].return].status # "none"
    /\ \A m \in Managers : work[m].step = "creating" => return[work[m].return].status = "none"
    /\ \A m, n \in Managers : work[m].step = "creating" /\ work[n].step = "creating"
                              /\ work[m].return = work[n].return => m = n
    /\ \A m \in Managers : Refunding(work[m]) /\ work[m].return \in Returns =>
          return[work[m].return].status # "none" /\ ~return[work[m].return].refund
    /\ \A m, n \in Managers : Refunding(work[m]) /\ Refunding(work[n])
                              /\ work[m].return = work[n].return /\ work[m].return \in Returns => m = n

\* While no two requests overlap, a request holds what the row says, only
\* completed returns are restocked, and what is asked back was bought.
InTurn ==
    overlaps = 0 =>
        /\ \A m \in Managers : work[m].step = "opened" =>
              work[m].status = return[work[m].return].status
        /\ \A m \in Managers : Refunding(work[m]) /\ work[m].return \in Returns =>
              return[work[m].return].status \notin FinalReturn
        /\ \A r \in Returns, i \in Items : restocked[r][i] > 0 => return[r].status = "completed"
        /\ \A i \in Items : ReservedQuantity(i) <= Bought[i]
        /\ \A m \in Managers : work[m].step = "creating" =>
              \A i \in Items : ReservedQuantity(i) + work[m].lines[i] <= Bought[i]

ReturnsInv == RowsSound /\ HoldersSound /\ InTurn

\* The state of a request that only reads.
MayHold(m, state) ==
    /\ state.step = "opened" =>
          return[state.return].status # "none" /\ state.status = return[state.return].status
    /\ state.step = "creating" =>
          /\ return[state.return].status = "none"
          /\ \A n \in Managers : n # m /\ work[n].step = "creating" => work[n].return # state.return
          /\ overlaps' = 0 => \A i \in Items : ReservedQuantity(i) + state.lines[i] <= Bought[i]
    /\ Refunding(state) /\ state.return \in Returns =>
          /\ return[state.return].status # "none" /\ ~return[state.return].refund
          /\ overlaps' = 0 => return[state.return].status \notin FinalReturn
          /\ \A n \in Managers : n # m /\ Refunding(work[n]) => work[n].return # state.return

\* A step that leaves the returns alone, whatever request it begins or ends.
LEMMA ReturnsUntouched ==
    ASSUME SalesTypeOK, ReturnsInv, NEW m \in Managers, NEW state, MovesOn(m, state),
           UNCHANGED <<return, restocked>>, MayHold(m, state)
    PROVE  ReturnsInv'
  <1>1. /\ overlaps' = 0 => overlaps = 0
        /\ UNCHANGED <<return, restocked>>
    BY DEF MovesOn
  <1>2. work'[m] = state /\ \A n \in Managers : n # m => work'[n] = work[n]
    BY MovedTypes
  <1>3. RowsSound'
    BY <1>1 DEF ReturnsInv, RowsSound
  <1>4. HoldersSound'
    <2>1. \A n \in Managers : work'[n].step = "opened" =>
             work'[n].status # "none" /\ return'[work'[n].return].status # "none"
      BY <1>1, <1>2 DEF ReturnsInv, HoldersSound, MayHold
    <2>2. \A n \in Managers : work'[n].step = "creating" => return'[work'[n].return].status = "none"
      BY <1>1, <1>2 DEF ReturnsInv, HoldersSound, MayHold
    <2>3. \A k, n \in Managers : work'[k].step = "creating" /\ work'[n].step = "creating"
                                 /\ work'[k].return = work'[n].return => k = n
      BY <1>1, <1>2 DEF ReturnsInv, HoldersSound, MayHold
    <2>4. \A n \in Managers : Refunding(work'[n]) /\ work'[n].return \in Returns =>
             return'[work'[n].return].status # "none" /\ ~return'[work'[n].return].refund
      BY <1>1, <1>2 DEF ReturnsInv, HoldersSound, MayHold
    <2>5. \A k, n \in Managers : Refunding(work'[k]) /\ Refunding(work'[n])
                          /\ work'[k].return = work'[n].return /\ work'[k].return \in Returns => k = n
      BY <1>1, <1>2 DEF ReturnsInv, HoldersSound, MayHold
    <2> QED
      BY <2>1, <2>2, <2>3, <2>4, <2>5 DEF HoldersSound, Refunding
  <1>5. InTurn'
    <2> SUFFICES ASSUME overlaps' = 0 PROVE InTurn'
      BY DEF InTurn
    <2>1. \A i \in Items : ReservedQuantity(i)' = ReservedQuantity(i)
      BY <1>1 DEF ReservedQuantity, Reserved
    <2>2. \A n \in Managers : work'[n].step = "opened" =>
             work'[n].status = return'[work'[n].return].status
      BY <1>1, <1>2 DEF ReturnsInv, InTurn, MayHold
    <2>3. \A n \in Managers : Refunding(work'[n]) /\ work'[n].return \in Returns =>
             return'[work'[n].return].status \notin FinalReturn
      BY <1>1, <1>2 DEF ReturnsInv, InTurn, MayHold
    <2>4. \A n \in Managers : work'[n].step = "creating" =>
              \A i \in Items : ReservedQuantity(i) + work'[n].lines[i] <= Bought[i]
      BY <1>1, <1>2 DEF ReturnsInv, InTurn, MayHold
    <2>5. \A i \in Items : ReservedQuantity(i) <= Bought[i]
      BY <1>1 DEF ReturnsInv, InTurn
    <2>6. \A r \in Returns, i \in Items : restocked'[r][i] > 0 => return'[r].status = "completed"
      BY <1>1 DEF ReturnsInv, InTurn
    <2> HIDE DEF ReservedQuantity
    <2> QED
      BY <2>1, <2>2, <2>3, <2>4, <2>5, <2>6 DEF InTurn, Refunding
  <1> QED
    BY <1>3, <1>4, <1>5 DEF ReturnsInv

\* The sum of what the returns reserve of an item follows the change of one row.
LEMMA ReservedMoves ==
    ASSUME SalesTypeOK, NEW r \in Returns, NEW row \in Return, NEW i \in Items,
           return' = [return EXCEPT ![r] = row]
    PROVE  /\ AskedBack(return[r], i) \in Nat /\ AskedBack(row, i) \in Nat
           /\ ReservedQuantity(i) \in Nat
           /\ ReservedQuantity(i)' = ReservedQuantity(i) + (AskedBack(row, i) - AskedBack(return[r], i))
  <1> DEFINE f == [s \in Returns |-> Reserved(s, i)]
             g == [s \in Returns |-> Reserved(s, i)']
  <1>1. return \in [Returns -> Return]
    BY DEF SalesTypeOK
  <1>2. \A s \in Returns : return'[s] = IF s = r THEN row ELSE return[s]
    BY <1>1
  <1>3. \A w \in Return : AskedBack(w, i) \in Nat
    BY DEF Return, Quantities, AskedBack
  <1>4. \A s \in Returns : f[s] = AskedBack(return[s], i) /\ g[s] = AskedBack(return'[s], i)
    BY DEF Reserved, AskedBack
  <1>5. \A s \in Returns : f[s] \in Nat /\ g[s] \in Nat
    BY <1>1, <1>2, <1>3, <1>4
  <1>6. ReservedQuantity(i) = SumFunction(f) /\ ReservedQuantity(i)' = SumFunction(g)
    BY DEF ReservedQuantity
  <1>7. f \in [Returns -> Int] /\ g \in [Returns -> Int]
    BY <1>5
  <1>8. f[r] = AskedBack(return[r], i) /\ g[r] = AskedBack(row, i)
        /\ \A s \in Returns : s # r => g[s] = f[s]
    BY <1>2, <1>4
  <1>9. SumFunction(f) = SumFunctionOnSet(f, Returns)
    BY DEF SumFunction
  <1> DEFINE d == AskedBack(row, i) - AskedBack(return[r], i)
  <1> HIDE DEF f, g
  <1>10. AskedBack(return[r], i) \in Nat /\ AskedBack(row, i) \in Nat
    BY <1>1, <1>3
  <1>11. d \in Int /\ g[r] = f[r] + d
    BY <1>8, <1>10
  <1> HIDE DEF d
  <1>12. SumFunction(g) = SumFunction(f) + d
    BY <1>7, <1>8, <1>11, OrderIsFinite, SumMoves
  <1>13. SumFunctionOnSet(f, Returns) \in Int /\ SumFunctionOnSet(f, Returns) >= 0
    BY <1>5, OrderIsFinite, SumType
  <1> QED
    BY <1>6, <1>9, <1>10, <1>12, <1>13 DEF d

\* A request that holds return r ends, and the row of r changes.
LEMMA ReturnSaved ==
    ASSUME SalesTypeOK, ReturnsInv, NEW m \in Managers, MovesOn(m, Idle),
           NEW r \in Returns, NEW row \in Return, NEW stock \in Quantities,
           return' = [return EXCEPT ![r] = row],
           restocked' = [restocked EXCEPT ![r] = stock],
           RowSound(row, stock), row.status # "none",
           \A n \in Managers : n # m /\ work[n].step = "creating" => work[n].return # r,
           row.refund = return[r].refund
              \/ \A n \in Managers : n # m /\ Refunding(work[n]) => work[n].return # r,
           overlaps' = 0 => \A i \in Items : stock[i] > 0 => row.status = "completed",
           overlaps' = 0 => \A i \in Items :
              ReservedQuantity(i) + (AskedBack(row, i) - AskedBack(return[r], i)) <= Bought[i]
    PROVE  ReturnsInv'
  <1>1. /\ overlaps' = 0 => overlaps = 0 /\ \A n \in Managers : n # m => work'[n] = Idle
        /\ work'[m] = Idle
        /\ \A n \in Managers : n # m => work'[n] = work[n]
    <2>1. work'[m] = Idle /\ \A n \in Managers : n # m => work'[n] = work[n]
      BY MovedTypes
    <2> QED
      BY <2>1 DEF MovesOn, Busy
  <1>2. /\ \A s \in Returns : return'[s] = IF s = r THEN row ELSE return[s]
        /\ \A s \in Returns : restocked'[s] = IF s = r THEN stock ELSE restocked[s]
    BY DEF SalesTypeOK
  <1>3. RowsSound'
    <2> SUFFICES ASSUME NEW s \in Returns PROVE RowSound(return'[s], restocked'[s])
      BY DEF RowsSound, RowSound, LinesOf
    <2>1. RowSound(return[s], restocked[s])
      BY DEF ReturnsInv, RowsSound
    <2> QED
      BY <1>2, <2>1
  <1>4. \A n \in Managers : work'[n].step \in {"opened", "creating", "planned", "checked"} =>
           n # m /\ work'[n] = work[n]
    BY <1>1 DEF Idle
  <1>5. HoldersSound'
    <2>1. \A n \in Managers : work'[n].step = "opened" =>
             work'[n].status # "none" /\ return'[work'[n].return].status # "none"
      <3> SUFFICES ASSUME NEW n \in Managers, work'[n].step = "opened"
                   PROVE  work'[n].status # "none" /\ return'[work'[n].return].status # "none"
        OBVIOUS
      <3>1. work'[n] = work[n]
        BY <1>4
      <3>2. work[n].return \in Returns
        BY <3>1, WorkTyped, WorkKinds DEF Opened
      <3> QED
        BY <1>2, <3>1, <3>2 DEF ReturnsInv, HoldersSound
    <2>2. \A n \in Managers : work'[n].step = "creating" => return'[work'[n].return].status = "none"
      <3> SUFFICES ASSUME NEW n \in Managers, work'[n].step = "creating"
                   PROVE  return'[work'[n].return].status = "none"
        OBVIOUS
      <3>1. n # m /\ work'[n] = work[n]
        BY <1>4
      <3>2. work[n].return \in Returns
        BY <3>1, WorkTyped, WorkKinds DEF Creating
      <3> QED
        BY <1>2, <3>1, <3>2 DEF ReturnsInv, HoldersSound
    <2>3. \A k, n \in Managers : work'[k].step = "creating" /\ work'[n].step = "creating"
                                 /\ work'[k].return = work'[n].return => k = n
      BY <1>4 DEF ReturnsInv, HoldersSound
    <2>4. \A n \in Managers : Refunding(work'[n]) /\ work'[n].return \in Returns =>
             return'[work'[n].return].status # "none" /\ ~return'[work'[n].return].refund
      <3> SUFFICES ASSUME NEW n \in Managers, Refunding(work'[n]), work'[n].return \in Returns
                   PROVE  return'[work'[n].return].status # "none" /\ ~return'[work'[n].return].refund
        OBVIOUS
      <3>1. n # m /\ work'[n] = work[n]
        BY <1>4 DEF Refunding
      <3>2. return[work[n].return].status # "none" /\ ~return[work[n].return].refund
        BY <3>1 DEF ReturnsInv, HoldersSound
      <3> QED
        BY <1>2, <3>1, <3>2
    <2>5. \A k, n \in Managers : Refunding(work'[k]) /\ Refunding(work'[n])
                          /\ work'[k].return = work'[n].return /\ work'[k].return \in Returns => k = n
      <3> SUFFICES ASSUME NEW k \in Managers, NEW n \in Managers, Refunding(work'[k]), Refunding(work'[n]),
                          work'[k].return = work'[n].return, work'[k].return \in Returns
                   PROVE  k = n
        OBVIOUS
      <3>1. work'[n] = work[n] /\ work'[k] = work[k]
        BY <1>4 DEF Refunding
      <3> QED
        BY <3>1 DEF ReturnsInv, HoldersSound
    <2> QED
      BY <2>1, <2>2, <2>3, <2>4, <2>5 DEF HoldersSound, Refunding
  <1>6. InTurn'
    <2> SUFFICES ASSUME overlaps' = 0 PROVE InTurn'
      BY DEF InTurn
    <2>1. \A n \in Managers : work'[n] = Idle
      BY <1>1
    <2>2. \A n \in Managers : work'[n].step = "idle"
      BY <2>1 DEF Idle
    <2>3. \A i \in Items : ReservedQuantity(i)' <= Bought[i]
      <3> SUFFICES ASSUME NEW i \in Items PROVE ReservedQuantity(i)' <= Bought[i]
        OBVIOUS
      <3>1. ReservedQuantity(i)' = ReservedQuantity(i) + (AskedBack(row, i) - AskedBack(return[r], i))
        BY ReservedMoves
      <3> QED
        BY <3>1
    <2>4. \A s \in Returns, i \in Items : restocked'[s][i] > 0 => return'[s].status = "completed"
      BY <1>1, <1>2 DEF ReturnsInv, InTurn
    <2> HIDE DEF ReservedQuantity
    <2> QED
      BY <2>2, <2>3, <2>4 DEF InTurn, Refunding
  <1> QED
    BY <1>3, <1>5, <1>6 DEF ReturnsInv

-----------------------------------------------------------------------------
(* The steps.                                                              *)

SalesInv == SalesTypeOK /\ RefundsInv /\ ReturnsInv

\* What a step of two states keeps.
FinalKept == overlaps' = 0 => \A r \in Returns : return[r].status \in FinalReturn
                                                 => return'[r].status = return[r].status

\* A request begins, or goes on, without a change of a row.
LEMMA ReadKeeps ==
    ASSUME SalesInv, NEW m \in Managers, NEW state, MovesOn(m, state), MayHold(m, state),
           UNCHANGED <<paymentStatus, refundVars, return, restocked>>,
           Refunding(state) /\ overlaps' = 0 => Fits(state.plan),
           state.step = "checked" /\ state.mark => refunded + state.plan.total >= GrandTotal,
           state.step = "checked" /\ overlaps' = 0 /\ paymentStatus = "paid"
               /\ refunded + state.plan.total >= GrandTotal => state.mark
    PROVE  SalesInv' /\ FinalKept
  <1>1. RefundsInv'
    BY RefundsUntouched DEF SalesInv
  <1>2. ReturnsInv'
    BY ReturnsUntouched DEF SalesInv
  <1>3. SalesTypeOK'
    BY MovedTypes DEF SalesInv, SalesTypeOK, refundVars
  <1> QED
    BY <1>1, <1>2, <1>3 DEF SalesInv, FinalKept

\* The request that is under way ends or was undone.
LEMMA Ended ==
    ASSUME SalesInv, NEW m \in Managers, Busy(m), Finish(m)
    PROVE  MovesOn(m, Idle)
  <1>1. Idle \in WorkStates
    BY DEF WorkStates
  <1> QED
    BY <1>1, WentOn DEF SalesInv, RefundsInv, Finish

\* An aborted request leaves everything as it was.
LEMMA AbortKeeps ==
    ASSUME SalesInv, NEW m \in Managers, Abort(m)
    PROVE  SalesInv' /\ FinalKept
  <1>1. MovesOn(m, Idle)
    BY Ended DEF Abort
  <1>2. MayHold(m, Idle) /\ ~Refunding(Idle) /\ Idle.step # "checked"
    BY DEF MayHold, Refunding, Idle
  <1>3. UNCHANGED <<paymentStatus, refundVars, return, restocked>>
    BY DEF Abort
  <1> QED
    BY <1>1, <1>2, <1>3, ReadKeeps

\* The payment of the order.
LEMMA PayKeeps ==
    ASSUME SalesInv, Pay
    PROVE  SalesInv' /\ FinalKept
  <1>1. RefundsInv'
    BY RefundsAfterPay DEF SalesInv
  <1>2. UNCHANGED <<return, restocked, work, overlaps>>
    BY DEF Pay
  <1>3. ReturnsInv'
    <2>1. RowsSound' /\ HoldersSound'
      BY <1>2 DEF SalesInv, ReturnsInv, RowsSound, HoldersSound, RowSound, LinesOf, Refunding
    <2>2. \A i \in Items : ReservedQuantity(i)' = ReservedQuantity(i)
      BY <1>2 DEF ReservedQuantity, Reserved
    <2>3. InTurn'
      <3> HIDE DEF ReservedQuantity
      <3> QED
        BY <1>2, <2>2 DEF SalesInv, ReturnsInv, InTurn, Refunding
    <2> QED
      BY <2>1, <2>3 DEF ReturnsInv
  <1>4. SalesTypeOK'
    BY DEF SalesInv, SalesTypeOK, Pay, refundVars
  <1> QED
    BY <1>1, <1>2, <1>3, <1>4 DEF SalesInv, FinalKept

\* A plan that passed the checks is a plan, and fits.
LEMMA PlanMade ==
    ASSUME SalesTypeOK, NEW lines \in Quantities, NEW shipping \in Nat,
           MayRefund(PlanFor(lines, shipping))
    PROVE  PlanFor(lines, shipping) \in Plan /\ Fits(PlanFor(lines, shipping))
  <1> DEFINE plan == PlanFor(lines, shipping)
  <1>1. /\ plan.total \in Nat => plan \in Plan
        /\ \A i \in Items : plan.tax[i] <= Remaining(TotalTax[i], refundedTax[i])
        /\ plan.shippingTax <= Remaining(ShippingTax, refundedShippingTax)
    BY PlanFacts
  <1> HIDE DEF plan
  <1>2. plan.total \in 1 .. RefundableAmount /\ MayRefund(plan)
    BY DEF plan, MayRefund
  <1>3. PaidAmount \in Nat /\ refunded \in Nat
    BY Amounts DEF PaidAmount, SalesTypeOK
  <1>4. RefundableAmount \in Nat
    BY <1>3, LeftOver DEF RefundableAmount
  <1>5. plan.total \in Nat
    BY <1>2, <1>4
  <1>6. Fits(plan) /\ plan \in Plan
    BY <1>1, <1>2, <1>5 DEF Fits
  <1> QED
    BY <1>6 DEF plan

\* A refund from the form is planned.
LEMMA PlanRefundKeeps ==
    ASSUME SalesInv, NEW m \in Managers, NEW lines \in Refundable, NEW shipping \in 0 .. ShippingCost,
           PlanRefund(m, lines, shipping)
    PROVE  SalesInv' /\ FinalKept
  <1> DEFINE plan == PlanFor(lines, shipping)
             state == [step |-> "planned", plan |-> plan, return |-> Direct]
  <1>1. lines \in Quantities /\ shipping \in Nat
    BY Amounts DEF Refundable, Quantities
  <1>2. MayRefund(plan) /\ Begin(m, state)
        /\ UNCHANGED <<paymentStatus, refundVars, return, restocked>>
    BY DEF PlanRefund
  <1>3. plan \in Plan /\ Fits(plan)
    BY <1>1, <1>2, PlanMade DEF SalesInv
  <1> HIDE DEF plan
  <1>4. state \in Planned
    BY <1>3 DEF Planned
  <1>5. state.step = "planned" /\ state.return = Direct /\ state.plan = plan
    OBVIOUS
  <1> HIDE DEF state
  <1>6. MovesOn(m, state)
    BY <1>2, <1>4, Began DEF WorkStates, SalesInv
  <1>7. MayHold(m, state)
    BY <1>5, DirectAssumption DEF MayHold
  <1> QED
    BY <1>2, <1>3, <1>5, <1>6, <1>7, ReadKeeps

\* A planned refund finds out whether it pays back the rest.
LEMMA CheckRemainderKeeps ==
    ASSUME SalesInv, NEW m \in Managers, CheckRemainder(m)
    PROVE  SalesInv' /\ FinalKept
  <1> DEFINE mark == paymentStatus = "paid" /\ Remaining(GrandTotal, refunded + work[m].plan.total) = 0
             state == [step |-> "checked", plan |-> work[m].plan, return |-> work[m].return, mark |-> mark]
  <1>1. /\ work[m].step = "planned" /\ Set(m, state) /\ UNCHANGED overlaps
        /\ UNCHANGED <<paymentStatus, refundVars, return, restocked>>
    BY DEF CheckRemainder
  <1>2. work[m] \in Planned
    BY <1>1, WorkTyped, WorkKinds DEF SalesInv
  <1>3. work[m].plan \in Plan /\ work[m].return \in Returns \cup {Direct}
    BY <1>2 DEF Planned
  <1>4. mark \in BOOLEAN
    OBVIOUS
  <1>5. mark <=> (paymentStatus = "paid" /\ refunded + work[m].plan.total >= GrandTotal)
    <2>1. refunded + work[m].plan.total \in Nat
      BY <1>3 DEF Plan, SalesInv, SalesTypeOK
    <2>2. (Remaining(GrandTotal, refunded + work[m].plan.total) = 0)
             <=> (refunded + work[m].plan.total >= GrandTotal)
      <3> DEFINE sum == refunded + work[m].plan.total
      <3>1. sum \in Nat
        BY <2>1
      <3> HIDE DEF sum
      <3>2. (Remaining(GrandTotal, sum) = 0) <=> (sum >= GrandTotal)
        BY <3>1, Amounts DEF Remaining
      <3> QED
        BY <3>2 DEF sum
    <2> QED
      BY <2>2
  <1> HIDE DEF mark
  <1>6. state \in Checked
    BY <1>3, <1>4 DEF Checked
  <1>7. /\ state.step = "checked" /\ state.plan = work[m].plan /\ state.return = work[m].return
        /\ state.mark = mark
    OBVIOUS
  <1> HIDE DEF state
  <1>8. Busy(m)
    BY <1>1 DEF Busy, Idle
  <1>9. MovesOn(m, state)
    BY <1>1, <1>6, <1>8, WentOn DEF WorkStates, SalesInv, RefundsInv
  <1>10. MayHold(m, state)
    BY <1>1, <1>7, <1>9 DEF MayHold, MovesOn, Refunding, SalesInv, ReturnsInv, HoldersSound, InTurn
  <1>11. overlaps' = 0 => Fits(work[m].plan)
    BY <1>1 DEF SalesInv, RefundsInv, PlansFit, Refunding
  <1> QED
    BY <1>1, <1>5, <1>7, <1>9, <1>10, <1>11, ReadKeeps

\* A return request is planned.
LEMMA PlanReturnKeeps ==
    ASSUME SalesInv, NEW m \in Managers, NEW r \in Returns, NEW lines \in Quantities,
           PlanReturn(m, r, lines)
    PROVE  SalesInv' /\ FinalKept
  <1> DEFINE state == [step |-> "creating", return |-> r, lines |-> lines]
  <1>1. /\ return[r].status = "none"
        /\ \A n \in Managers : work[n].step = "creating" => work[n].return # r
        /\ MayReturn(lines) /\ Begin(m, state)
        /\ UNCHANGED <<paymentStatus, refundVars, return, restocked>>
    BY DEF PlanReturn
  <1>2. state \in WorkStates /\ state.step = "creating" /\ state.return = r /\ state.lines = lines
    BY DEF WorkStates, Creating
  <1> HIDE DEF state
  <1>3. MovesOn(m, state)
    BY <1>1, <1>2, Began DEF SalesInv
  <1>4. \A i \in Items : ReservedQuantity(i) \in Int
    <2> SUFFICES ASSUME NEW i \in Items PROVE ReservedQuantity(i) \in Int
      OBVIOUS
    <2> DEFINE f == [s \in Returns |-> Reserved(s, i)]
    <2>1. \A s \in Returns : f[s] \in Int
      BY DEF Reserved, SalesInv, SalesTypeOK, Return, Quantities
    <2>2. ReservedQuantity(i) = SumFunctionOnSet(f, Returns)
      BY DEF ReservedQuantity, SumFunction
    <2> HIDE DEF f
    <2> QED
      BY <2>1, <2>2, OrderIsFinite, SumType
  <1>5. \A i \in Items : lines[i] \in Nat
    BY DEF Quantities
  <1>6. overlaps' = 0 => \A i \in Items : ReservedQuantity(i) + lines[i] <= Bought[i]
    <2> SUFFICES ASSUME overlaps' = 0, NEW i \in Items
                 PROVE  ReservedQuantity(i) + lines[i] <= Bought[i]
      OBVIOUS
    <2>1. ReservedQuantity(i) <= Bought[i]
      BY <1>3 DEF MovesOn, SalesInv, ReturnsInv, InTurn
    <2>2. lines[i] = 0 \/ lines[i] <= Bought[i] - ReservedQuantity(i)
      BY <1>1 DEF MayReturn
    <2> HIDE DEF ReservedQuantity
    <2> QED
      BY <1>4, <1>5, <2>1, <2>2, Amounts
  <1>7. MayHold(m, state)
    BY <1>1, <1>2, <1>6 DEF MayHold, Refunding
  <1>8. ~Refunding(state) /\ state.step # "checked"
    BY <1>2 DEF Refunding
  <1> QED
    BY <1>1, <1>3, <1>7, <1>8, ReadKeeps

\* A return is loaded.
LEMMA OpenReturnKeeps ==
    ASSUME SalesInv, NEW m \in Managers, NEW r \in Returns, OpenReturn(m, r)
    PROVE  SalesInv' /\ FinalKept
  <1> DEFINE state == [step |-> "opened", return |-> r, status |-> return[r].status]
  <1>1. /\ return[r].status # "none" /\ Begin(m, state)
        /\ UNCHANGED <<paymentStatus, refundVars, return, restocked>>
    BY DEF OpenReturn
  <1>2. state \in Opened
    BY DEF Opened, SalesInv, SalesTypeOK, Return
  <1>3. state.step = "opened" /\ state.return = r /\ state.status = return[r].status
    OBVIOUS
  <1> HIDE DEF state
  <1>4. MovesOn(m, state)
    BY <1>1, <1>2, Began DEF SalesInv, WorkStates
  <1>5. MayHold(m, state)
    BY <1>1, <1>3 DEF MayHold, Refunding
  <1>6. ~Refunding(state) /\ state.step # "checked"
    BY <1>3 DEF Refunding
  <1> QED
    BY <1>1, <1>4, <1>5, <1>6, ReadKeeps

-----------------------------------------------------------------------------
(* The steps that save a return.                                           *)

\* A request that may take the return on.
LEMMA TransitionFacts ==
    ASSUME SalesInv, NEW m \in Managers, NEW r \in Returns, NEW to, Transition(m, r, to)
    PROVE  /\ work[m].step = "opened" /\ work[m].return = r /\ Busy(m)
           /\ return[r] \in Return /\ restocked[r] \in Quantities
           /\ RowSound(return[r], restocked[r])
           /\ return[r].status # "none"
           /\ to \in DOMAIN ReturnTransitions /\ to # "none"
           /\ \A n \in Managers : work[n].step = "creating" => work[n].return # r
           /\ overlaps = 0 => return[r].status \notin FinalReturn
           /\ overlaps = 0 => \A i \in Items : ~(restocked[r][i] > 0)
  <1>1. work[m].step = "opened" /\ work[m].return = r /\ work[m].status \notin FinalReturn
        /\ to \in ReturnTransitions[work[m].status]
    BY DEF Transition
  <1>2. work[m] \in Opened /\ Busy(m)
    BY <1>1, WorkTyped, WorkKinds DEF SalesInv, Busy
  <1>3. return[r] \in Return /\ restocked[r] \in Quantities /\ RowSound(return[r], restocked[r])
    BY DEF SalesInv, SalesTypeOK, ReturnsInv, RowsSound
  <1>4. return[r].status # "none"
    BY <1>1 DEF SalesInv, ReturnsInv, HoldersSound
  <1>5. \A n \in Managers : work[n].step = "creating" => work[n].return # r
    BY <1>4 DEF SalesInv, ReturnsInv, HoldersSound
  <1>6. overlaps = 0 => return[r].status \notin FinalReturn
    BY <1>1 DEF SalesInv, ReturnsInv, InTurn
  <1>7. overlaps = 0 => \A i \in Items : ~(restocked[r][i] > 0)
    BY <1>6 DEF SalesInv, ReturnsInv, InTurn, FinalReturn
  <1>8. to \in DOMAIN ReturnTransitions /\ to # "none"
    <2>1. work[m].status \in DOMAIN ReturnTransitions
      BY <1>2 DEF Opened
    <2> QED
      BY <1>1, <2>1 DEF ReturnTransitions
  <1> QED
    BY <1>1, <1>2, <1>3, <1>4, <1>5, <1>6, <1>7, <1>8

\* The types of a row, for its parts.
LEMMA RowTypes ==
    ASSUME NEW row \in Return
    PROVE  /\ row.status \in DOMAIN ReturnTransitions
           /\ row.requested \in Quantities /\ row.approved \in Quantities /\ row.received \in Quantities
           /\ row.restockable \subseteq Items /\ row.toRefund \subseteq Items /\ row.refund \in BOOLEAN
           /\ \A i \in Items : /\ row.requested[i] \in Nat /\ row.approved[i] \in Nat
                               /\ row.received[i] \in Nat
  BY DEF Return, Quantities

\* Nothing more is reserved by a return that goes on.
LEMMA ReservedStays ==
    ASSUME SalesInv, overlaps = 0, NEW r \in Returns, NEW row \in Return, NEW i \in Items,
           return' = [return EXCEPT ![r] = row], row.requested = return[r].requested,
           return[r].status # "none", return[r].status \notin FinalReturn
    PROVE  ReservedQuantity(i) + (AskedBack(row, i) - AskedBack(return[r], i)) <= Bought[i]
  <1>1. return[r] \in Return
    BY DEF SalesInv, SalesTypeOK
  <1>2. AskedBack(return[r], i) = return[r].requested[i]
    BY DEF AskedBack, FinalReturn
  <1>3. return[r].requested[i] \in Nat
    BY <1>1, RowTypes
  <1>4. AskedBack(row, i) <= AskedBack(return[r], i)
    BY <1>2, <1>3 DEF AskedBack
  <1>5. AskedBack(return[r], i) \in Nat /\ AskedBack(row, i) \in Nat /\ ReservedQuantity(i) \in Nat
    BY ReservedMoves DEF SalesInv
  <1>6. ReservedQuantity(i) <= Bought[i]
    BY DEF SalesInv, ReturnsInv, InTurn
  <1> HIDE DEF ReservedQuantity, AskedBack
  <1> QED
    BY <1>4, <1>5, <1>6, Amounts

\* A request saves another row for the return, with the same request and refund.
LEMMA RowSaved ==
    ASSUME SalesInv, NEW m \in Managers, NEW r \in Returns, NEW to, Transition(m, r, to),
           NEW row \in Return, SaveReturn(m, r, row), row.status = to, to # "completed",
           row.requested = return[r].requested, row.refund = return[r].refund,
           \A i \in Items : row.received[i] <= row.approved[i],
           \A i \in Items : row.approved[i] <= row.requested[i]
    PROVE  SalesInv' /\ FinalKept
  <1>1. /\ return' = [return EXCEPT ![r] = row] /\ Finish(m)
        /\ UNCHANGED <<paymentStatus, refundVars, restocked>>
    BY DEF SaveReturn
  <1>2. MovesOn(m, Idle)
    BY <1>1, TransitionFacts, Ended
  <1>3. MayHold(m, Idle) /\ ~Refunding(Idle) /\ Idle.step # "checked"
    BY DEF MayHold, Refunding, Idle
  <1>4. RefundsInv'
    BY <1>1, <1>2, <1>3, RefundsUntouched DEF SalesInv
  <1>5. return[r] \in Return /\ restocked[r] \in Quantities /\ RowSound(return[r], restocked[r])
        /\ return[r].status # "none"
    BY TransitionFacts
  <1>6. RowSound(row, restocked[r])
    <2>1. \A i \in Items : restocked[r][i] <= row.requested[i]
      BY <1>5 DEF RowSound
    <2>2. row.status # "completed" /\ row.status # "none"
      BY TransitionFacts
    <2> QED
      BY <2>1, <2>2 DEF RowSound
  <1>7. overlaps' = 0 => overlaps = 0
    BY <1>2 DEF MovesOn
  <1>8. overlaps' = 0 => \A i \in Items :
           ReservedQuantity(i) + (AskedBack(row, i) - AskedBack(return[r], i)) <= Bought[i]
    <2> SUFFICES ASSUME overlaps' = 0, NEW i \in Items
                 PROVE  ReservedQuantity(i) + (AskedBack(row, i) - AskedBack(return[r], i)) <= Bought[i]
      OBVIOUS
    <2>1. overlaps = 0 /\ return[r].status \notin FinalReturn
      BY <1>7, TransitionFacts
    <2> QED
      BY <1>1, <1>5, <2>1, ReservedStays
  <1>9. restocked' = [restocked EXCEPT ![r] = restocked[r]]
    BY <1>1 DEF SalesInv, SalesTypeOK
  <1>10. /\ \A n \in Managers : n # m /\ work[n].step = "creating" => work[n].return # r
         /\ overlaps' = 0 => \A i \in Items : restocked[r][i] > 0 => row.status = "completed"
         /\ row.status # "none"
    BY <1>7, TransitionFacts
  <1>11. ReturnsInv'
    BY <1>1, <1>2, <1>5, <1>6, <1>8, <1>9, <1>10, ReturnSaved DEF SalesInv
  <1>12. SalesTypeOK'
    <2>1. return' \in [Returns -> Return]
      BY <1>1 DEF SalesInv, SalesTypeOK
    <2>2. UNCHANGED <<paymentStatus, refunded, refundedQuantity, refundedTax, refundedShipping,
                      refundedShippingTax, restocked>>
      BY <1>1 DEF refundVars
    <2> QED
      BY <1>2, <2>1, <2>2, MovedTypes DEF SalesInv, SalesTypeOK
  <1>13. FinalKept
    <2>1. overlaps' = 0 => return[r].status \notin FinalReturn
      BY <1>7, TransitionFacts
    <2> QED
      BY <1>1, <2>1 DEF FinalKept, SalesInv, SalesTypeOK
  <1> QED
    BY <1>4, <1>11, <1>12, <1>13 DEF SalesInv

\* A return is reviewed or rejected.
LEMMA ReviewKeeps ==
    ASSUME SalesInv, NEW m \in Managers, NEW r \in Returns, ReviewReturn(m, r) \/ RejectReturn(m, r)
    PROVE  SalesInv' /\ FinalKept
  <1>1. PICK to \in {"under_review", "rejected"} :
           Transition(m, r, to) /\ SaveReturn(m, r, [return[r] EXCEPT !.status = to])
    BY DEF ReviewReturn, RejectReturn
  <1> DEFINE row == [return[r] EXCEPT !.status = to]
  <1>2. return[r] \in Return /\ RowSound(return[r], restocked[r]) /\ to \in DOMAIN ReturnTransitions
    BY <1>1, TransitionFacts
  <1>3. row \in Return
    BY <1>2 DEF Return
  <1>4. /\ row.status = to /\ row.requested = return[r].requested /\ row.approved = return[r].approved
        /\ row.received = return[r].received /\ row.refund = return[r].refund
    BY <1>2 DEF Return
  <1>5. SaveReturn(m, r, row)
    BY <1>1
  <1> HIDE DEF row
  <1>6. /\ \A i \in Items : row.received[i] <= row.approved[i]
        /\ \A i \in Items : row.approved[i] <= row.requested[i]
    BY <1>2, <1>4 DEF RowSound
  <1> QED
    BY <1>1, <1>3, <1>4, <1>5, <1>6, RowSaved

\* A return is approved, for some of what it asked for.
LEMMA ApproveKeeps ==
    ASSUME SalesInv, NEW m \in Managers, NEW r \in Returns, NEW approved \in Quantities,
           ApproveReturn(m, r, approved)
    PROVE  SalesInv' /\ FinalKept
  <1> DEFINE row == [return[r] EXCEPT !.status = "approved", !.approved = approved]
  <1>1. /\ Transition(m, r, "approved") /\ \A i \in Items : approved[i] <= return[r].requested[i]
        /\ \A i \in Items : row.received[i] <= row.approved[i]
        /\ SaveReturn(m, r, row)
    BY DEF ApproveReturn, DatabaseAccepts
  <1>2. return[r] \in Return
    BY <1>1, TransitionFacts
  <1>3. row \in Return
    BY <1>2, ReturnStatuses DEF Return
  <1>4. /\ row.status = "approved" /\ row.requested = return[r].requested /\ row.approved = approved
        /\ row.refund = return[r].refund
    BY <1>2 DEF Return
  <1> HIDE DEF row
  <1>5. \A i \in Items : row.approved[i] <= row.requested[i]
    BY <1>1, <1>4
  <1> QED
    BY <1>1, <1>3, <1>4, <1>5, RowSaved

\* The goods of a return arrive.
LEMMA ReceiveKeeps ==
    ASSUME SalesInv, NEW m \in Managers, NEW r \in Returns, NEW received \in Quantities,
           ReceiveReturn(m, r, received)
    PROVE  SalesInv' /\ FinalKept
  <1> DEFINE row == [return[r] EXCEPT !.status = "received", !.received = received]
  <1>1. /\ Transition(m, r, "received") /\ \A i \in Items : received[i] <= return[r].approved[i]
        /\ SaveReturn(m, r, row)
    BY DEF ReceiveReturn
  <1>2. return[r] \in Return /\ RowSound(return[r], restocked[r])
    BY <1>1, TransitionFacts
  <1>3. row \in Return
    BY <1>2, ReturnStatuses DEF Return
  <1>4. /\ row.status = "received" /\ row.requested = return[r].requested /\ row.approved = return[r].approved
        /\ row.received = received /\ row.refund = return[r].refund
    BY <1>2 DEF Return
  <1> HIDE DEF row
  <1>5. /\ \A i \in Items : row.received[i] <= row.approved[i]
        /\ \A i \in Items : row.approved[i] <= row.requested[i]
    BY <1>1, <1>2, <1>4 DEF RowSound
  <1> QED
    BY <1>1, <1>3, <1>4, <1>5, RowSaved

\* The goods of a return are inspected.
LEMMA InspectKeeps ==
    ASSUME SalesInv, NEW m \in Managers, NEW r \in Returns, NEW present \in SUBSET Items,
           NEW restockable \in SUBSET present, NEW toRefund \in SUBSET present,
           InspectReturn(m, r, present, restockable, toRefund)
    PROVE  SalesInv' /\ FinalKept
  <1> DEFINE restock == (return[r].restockable \ present) \cup restockable
             refund == (return[r].toRefund \ present) \cup toRefund
             row == [return[r] EXCEPT !.status = "inspected", !.restockable = restock, !.toRefund = refund]
  <1>1. Transition(m, r, "inspected")
    BY DEF InspectReturn
  <1>2. return[r] \in Return /\ RowSound(return[r], restocked[r])
    BY <1>1, TransitionFacts
  <1>3. SaveReturn(m, r, row)
    BY <1>2 DEF InspectReturn, Return
  <1>4. restock \in SUBSET Items /\ refund \in SUBSET Items
    BY <1>2, RowTypes
  <1> HIDE DEF restock, refund
  <1>5. row \in Return
    BY <1>2, <1>4, ReturnStatuses DEF Return
  <1>6. /\ row.status = "inspected" /\ row.requested = return[r].requested
        /\ row.approved = return[r].approved /\ row.received = return[r].received
        /\ row.refund = return[r].refund
    BY <1>2 DEF Return
  <1> HIDE DEF row
  <1>7. /\ \A i \in Items : row.received[i] <= row.approved[i]
        /\ \A i \in Items : row.approved[i] <= row.requested[i]
    BY <1>2, <1>6 DEF RowSound
  <1> QED
    BY <1>1, <1>3, <1>5, <1>6, <1>7, RowSaved

\* The rows of a new return become visible.
LEMMA CommitReturnKeeps ==
    ASSUME SalesInv, NEW m \in Managers, CommitReturn(m)
    PROVE  SalesInv' /\ FinalKept
  <1> DEFINE r == work[m].return
             lines == work[m].lines
             row == [return[r] EXCEPT !.status = "requested", !.requested = lines]
  <1>1. work[m].step = "creating" /\ Finish(m) /\ UNCHANGED <<paymentStatus, refundVars, restocked>>
    BY DEF CommitReturn
  <1>2. work[m] \in Creating /\ Busy(m)
    BY <1>1, WorkTyped, WorkKinds DEF SalesInv, Busy
  <1>3. r \in Returns /\ lines \in Quantities
    BY <1>2 DEF Creating
  <1>4. return[r].status = "none" /\ return[r] \in Return
    BY <1>1, <1>3 DEF SalesInv, SalesTypeOK, ReturnsInv, HoldersSound
  <1>5. return[r] = NoReturn /\ restocked[r] = NoItems
    BY <1>3, <1>4 DEF SalesInv, ReturnsInv, RowsSound, RowSound
  <1>6. return' = [return EXCEPT ![r] = row]
    BY <1>3, <1>4 DEF CommitReturn, SalesInv, SalesTypeOK, Return
  <1>7. row \in Return
    BY <1>3, <1>4, ReturnStatuses DEF Return
  <1>8. /\ row.status = "requested" /\ row.requested = lines
        /\ row.approved = NoItems /\ row.received = NoItems /\ row.refund = return[r].refund
    BY <1>4, <1>5 DEF Return, NoReturn
  <1>9. \A n \in Managers : n # m /\ work[n].step = "creating" => work[n].return # r
    BY <1>1 DEF SalesInv, ReturnsInv, HoldersSound
  <1>10. overlaps = 0 => \A i \in Items : ReservedQuantity(i) + lines[i] <= Bought[i]
    BY <1>1 DEF SalesInv, ReturnsInv, InTurn
  <1> HIDE DEF row, r, lines
  <1>11. MovesOn(m, Idle)
    BY <1>1, <1>2, Ended
  <1>12. MayHold(m, Idle) /\ ~Refunding(Idle) /\ Idle.step # "checked"
    BY DEF MayHold, Refunding, Idle
  <1>13. RefundsInv'
    BY <1>1, <1>11, <1>12, RefundsUntouched DEF SalesInv
  <1>14. \A i \in Items : lines[i] \in Nat /\ NoItems[i] = 0
    BY <1>3 DEF Quantities, NoItems
  <1>15. RowSound(row, NoItems) /\ NoItems \in Quantities
    BY <1>8, <1>14 DEF RowSound, Quantities, NoItems
  <1>16. overlaps' = 0 => \A i \in Items :
            ReservedQuantity(i) + (AskedBack(row, i) - AskedBack(return[r], i)) <= Bought[i]
    <2> SUFFICES ASSUME overlaps' = 0, NEW i \in Items
                 PROVE  ReservedQuantity(i) + (AskedBack(row, i) - AskedBack(return[r], i)) <= Bought[i]
      OBVIOUS
    <2>1. AskedBack(row, i) = lines[i] /\ AskedBack(return[r], i) = 0
      BY <1>4, <1>8 DEF AskedBack
    <2>2. ReservedQuantity(i) \in Nat
      BY <1>3, <1>6, <1>7, ReservedMoves DEF SalesInv
    <2>3. ReservedQuantity(i) + lines[i] <= Bought[i]
      BY <1>10, <1>11 DEF MovesOn
    <2> HIDE DEF ReservedQuantity, AskedBack
    <2> QED
      BY <1>14, <2>1, <2>2, <2>3, Amounts
  <1>17. restocked' = [restocked EXCEPT ![r] = NoItems]
    BY <1>1, <1>3, <1>5 DEF SalesInv, SalesTypeOK
  <1>18. \A i \in Items : ~(NoItems[i] > 0)
    BY <1>14
  <1>19. ReturnsInv'
    BY ZenonT(30), <1>3, <1>6, <1>7, <1>8, <1>9, <1>11, <1>15, <1>16, <1>17, <1>18, ReturnSaved DEF SalesInv
  <1>20. SalesTypeOK'
    <2>1. return' \in [Returns -> Return]
      BY <1>6, <1>7 DEF SalesInv, SalesTypeOK
    <2>2. UNCHANGED <<paymentStatus, refunded, refundedQuantity, refundedTax, refundedShipping,
                      refundedShippingTax, restocked>>
      BY <1>1 DEF refundVars
    <2> QED
      BY <1>11, <2>1, <2>2, MovedTypes DEF SalesInv, SalesTypeOK
  <1>21. FinalKept
    BY <1>4, <1>6 DEF FinalKept, FinalReturn, SalesInv, SalesTypeOK
  <1> QED
    BY <1>13, <1>19, <1>20, <1>21 DEF SalesInv

\* A request completes the return: it restocks what arrived, and what is to be
\* paid back has a refund.
LEMMA ReturnCompleted ==
    ASSUME SalesInv, NEW m \in Managers, MovesOn(m, Idle), NEW r \in Returns, RestockReturn(r),
           NEW row \in Return, return' = [return EXCEPT ![r] = row],
           row.status = "completed", row.requested = return[r].requested,
           row.approved = return[r].approved, row.received = return[r].received,
           row.restockable = return[r].restockable, row.toRefund = return[r].toRefund,
           RefundLines(r) # NoItems => row.refund,
           row.refund = return[r].refund
              \/ \A n \in Managers : n # m /\ Refunding(work[n]) => work[n].return # r,
           return[r].status # "none",
           overlaps = 0 => return[r].status \notin FinalReturn
    PROVE  /\ ReturnsInv' /\ FinalKept
           /\ return' \in [Returns -> Return] /\ restocked' \in [Returns -> Quantities]
  <1> DEFINE stock == [i \in Items |-> IF i \in return[r].restockable /\ restocked[r][i] = 0
                                       THEN return[r].received[i] ELSE restocked[r][i]]
  <1>1. return[r] \in Return /\ restocked[r] \in Quantities /\ RowSound(return[r], restocked[r])
    BY DEF SalesInv, SalesTypeOK, ReturnsInv, RowsSound
  <1>2. restocked' = [restocked EXCEPT ![r] = stock]
    BY DEF RestockReturn, SalesInv, SalesTypeOK
  <1>3. \A i \in Items : /\ return[r].requested[i] \in Nat /\ return[r].approved[i] \in Nat
                         /\ return[r].received[i] \in Nat /\ restocked[r][i] \in Nat
    BY <1>1, RowTypes DEF Quantities
  <1>4. \A i \in Items : stock[i] \in Nat /\ stock[i] <= row.requested[i]
    <2>1. \A i \in Items : /\ return[r].received[i] <= return[r].approved[i]
                           /\ return[r].approved[i] <= return[r].requested[i]
                           /\ restocked[r][i] <= return[r].requested[i]
      BY <1>1 DEF RowSound
    <2> QED
      BY <1>3, <2>1
  <1>5. stock \in Quantities
    BY <1>4 DEF Quantities
  <1>6. \A i \in row.restockable : row.received[i] > 0 => stock[i] > 0
    BY <1>1, <1>3, RowTypes
  <1>7. LinesOf(row) = RefundLines(r)
    BY DEF LinesOf, RefundLines
  <1> HIDE DEF stock
  <1>8. RowSound(row, stock)
    BY <1>1, <1>4, <1>6, <1>7 DEF RowSound
  <1>9. overlaps' = 0 => overlaps = 0
    BY DEF MovesOn
  <1>10. overlaps' = 0 => \A i \in Items :
            ReservedQuantity(i) + (AskedBack(row, i) - AskedBack(return[r], i)) <= Bought[i]
    BY <1>9, ReservedStays
  <1>11. \A n \in Managers : n # m /\ work[n].step = "creating" => work[n].return # r
    BY DEF SalesInv, ReturnsInv, HoldersSound
  <1>12. ReturnsInv'
    BY <1>2, <1>5, <1>8, <1>10, <1>11, ReturnSaved DEF SalesInv
  <1>13. FinalKept
    BY <1>9 DEF FinalKept, SalesInv, SalesTypeOK
  <1>14. return' \in [Returns -> Return] /\ restocked' \in [Returns -> Quantities]
    BY <1>2, <1>5 DEF SalesInv, SalesTypeOK
  <1> QED
    BY <1>12, <1>13, <1>14

\* A return with nothing to pay back is completed.
LEMMA CompleteKeeps ==
    ASSUME SalesInv, NEW m \in Managers, NEW r \in Returns, CompleteReturn(m, r)
    PROVE  SalesInv' /\ FinalKept
  <1> DEFINE row == [return[r] EXCEPT !.status = "completed"]
  <1>1. /\ Transition(m, r, "completed") /\ Finish(m) /\ RestockReturn(r)
        /\ RefundLines(r) = NoItems \/ return[r].refund
        /\ UNCHANGED <<paymentStatus, refundVars>>
    BY DEF CompleteReturn
  <1>2. /\ return[r] \in Return /\ return[r].status # "none" /\ Busy(m)
        /\ overlaps = 0 => return[r].status \notin FinalReturn
    BY <1>1, TransitionFacts
  <1>3. return' = [return EXCEPT ![r] = row]
    BY DEF CompleteReturn, SalesInv, SalesTypeOK
  <1>4. row \in Return
    BY <1>2, ReturnStatuses DEF Return
  <1>5. /\ row.status = "completed" /\ row.requested = return[r].requested
        /\ row.approved = return[r].approved /\ row.received = return[r].received
        /\ row.restockable = return[r].restockable /\ row.toRefund = return[r].toRefund
        /\ row.refund = return[r].refund
    BY <1>2 DEF Return
  <1> HIDE DEF row
  <1>6. MovesOn(m, Idle)
    BY <1>1, <1>2, Ended
  <1>7. RefundLines(r) # NoItems => row.refund
    BY <1>1, <1>5
  <1>8. /\ ReturnsInv' /\ FinalKept
        /\ return' \in [Returns -> Return] /\ restocked' \in [Returns -> Quantities]
    BY <1>1, <1>2, <1>3, <1>4, <1>5, <1>6, <1>7, ReturnCompleted
  <1>9. RefundsInv'
    <2>1. ~Refunding(Idle) /\ Idle.step # "checked"
      BY DEF Refunding, Idle
    <2> QED
      BY <1>1, <1>6, <2>1, RefundsUntouched DEF SalesInv
  <1>10. SalesTypeOK'
    <2>1. UNCHANGED <<paymentStatus, refunded, refundedQuantity, refundedTax, refundedShipping,
                      refundedShippingTax>>
      BY <1>1 DEF refundVars
    <2> QED
      BY <1>6, <1>8, <2>1, MovedTypes DEF SalesInv, SalesTypeOK
  <1> QED
    BY <1>8, <1>9, <1>10 DEF SalesInv

\* The refund of a return is planned.
LEMMA PlanReturnRefundKeeps ==
    ASSUME SalesInv, NEW m \in Managers, NEW r \in Returns, PlanReturnRefund(m, r)
    PROVE  SalesInv' /\ FinalKept
  <1> DEFINE plan == PlanFor(RefundLines(r), 0)
             state == [step |-> "planned", plan |-> plan, return |-> r]
  <1>1. /\ Transition(m, r, "completed") /\ Unlocked(r) /\ ~return[r].refund
        /\ MayRefund(plan) /\ Set(m, state) /\ UNCHANGED overlaps
        /\ UNCHANGED <<paymentStatus, refundVars, return, restocked>>
    BY DEF PlanReturnRefund
  <1>2. /\ return[r] \in Return /\ return[r].status # "none" /\ Busy(m)
        /\ overlaps = 0 => return[r].status \notin FinalReturn
    BY <1>1, TransitionFacts
  <1>3. RefundLines(r) \in Quantities
    BY <1>2, RowTypes DEF RefundLines, Quantities
  <1>4. plan \in Plan /\ Fits(plan)
    BY <1>1, <1>3, PlanMade DEF SalesInv
  <1> HIDE DEF plan
  <1>5. state \in Planned
    BY <1>4 DEF Planned
  <1>6. state.step = "planned" /\ state.return = r /\ state.plan = plan
    OBVIOUS
  <1> HIDE DEF state
  <1>7. MovesOn(m, state)
    BY <1>1, <1>2, <1>5, WentOn DEF WorkStates, SalesInv, RefundsInv
  <1>8. MayHold(m, state)
    BY <1>1, <1>2, <1>6 DEF MayHold, Refunding, Unlocked
  <1> QED
    BY <1>1, <1>4, <1>6, <1>7, <1>8, ReadKeeps

\* The types of the sums after a refund.
LEMMA RefundAdded ==
    ASSUME SalesInv, NEW m \in Managers, work[m].step = "checked",
           AddRefund(work[m].plan, work[m].mark), Finish(m)
    PROVE  /\ MovesOn(m, Idle) /\ RefundsInv'
           /\ paymentStatus' \in {"pending", "paid", "refunded"}
           /\ refunded' \in Nat /\ refundedShipping' \in Nat /\ refundedShippingTax' \in Nat
           /\ refundedQuantity' \in Quantities /\ refundedTax' \in Quantities
  <1>1. Busy(m)
    BY DEF Busy, Idle
  <1>2. MovesOn(m, Idle)
    BY <1>1, Ended
  <1>3. RefundsInv'
    BY <1>2, RefundsCommitted DEF SalesInv
  <1> DEFINE plan == work[m].plan
  <1>4. /\ plan.total \in Nat /\ plan.shipping \in Nat /\ plan.shippingTax \in Nat
        /\ \A i \in Items : plan.lines[i] \in Nat /\ plan.tax[i] \in Nat
    BY CheckedFacts DEF SalesInv
  <1>5. /\ refunded \in Nat /\ refundedShipping \in Nat /\ refundedShippingTax \in Nat
        /\ \A i \in Items : refundedQuantity[i] \in Nat /\ refundedTax[i] \in Nat
        /\ paymentStatus \in {"pending", "paid", "refunded"}
    BY DEF SalesInv, SalesTypeOK, Quantities
  <1> HIDE DEF plan
  <1>6. /\ refunded + plan.total \in Nat /\ refundedShipping + plan.shipping \in Nat
        /\ refundedShippingTax + plan.shippingTax \in Nat
        /\ \A i \in Items : refundedQuantity[i] + plan.lines[i] \in Nat
        /\ \A i \in Items : refundedTax[i] + plan.tax[i] \in Nat
    BY <1>4, <1>5
  <1>7. /\ refunded' = refunded + plan.total
        /\ refundedQuantity' = [i \in Items |-> refundedQuantity[i] + plan.lines[i]]
        /\ refundedTax' = [i \in Items |-> refundedTax[i] + plan.tax[i]]
        /\ refundedShipping' = refundedShipping + plan.shipping
        /\ refundedShippingTax' = refundedShippingTax + plan.shippingTax
        /\ paymentStatus' \in {paymentStatus, "refunded"}
    BY DEF AddRefund, plan
  <1>8. refundedQuantity' \in Quantities /\ refundedTax' \in Quantities
    BY <1>6, <1>7 DEF Quantities
  <1> QED
    BY <1>2, <1>3, <1>5, <1>6, <1>7, <1>8

\* A refund from the form commits.
LEMMA CommitRefundKeeps ==
    ASSUME SalesInv, NEW m \in Managers, CommitRefund(m)
    PROVE  SalesInv' /\ FinalKept
  <1>1. /\ work[m].step = "checked" /\ AddRefund(work[m].plan, work[m].mark) /\ Finish(m)
        /\ UNCHANGED <<return, restocked>>
    BY DEF CommitRefund
  <1>2. /\ MovesOn(m, Idle) /\ RefundsInv'
        /\ paymentStatus' \in {"pending", "paid", "refunded"}
        /\ refunded' \in Nat /\ refundedShipping' \in Nat /\ refundedShippingTax' \in Nat
        /\ refundedQuantity' \in Quantities /\ refundedTax' \in Quantities
    BY <1>1, RefundAdded
  <1>3. MayHold(m, Idle)
    BY DEF MayHold, Refunding, Idle
  <1>4. ReturnsInv'
    BY <1>1, <1>2, <1>3, ReturnsUntouched DEF SalesInv
  <1>5. SalesTypeOK'
    BY <1>1, <1>2, MovedTypes DEF SalesInv, SalesTypeOK
  <1> QED
    BY <1>1, <1>2, <1>4, <1>5 DEF SalesInv, FinalKept

\* The refund of a return commits with the return.
LEMMA CommitReturnRefundKeeps ==
    ASSUME SalesInv, NEW m \in Managers, NEW r \in Returns, CommitReturnRefund(m, r)
    PROVE  SalesInv' /\ FinalKept
  <1> DEFINE row == [return[r] EXCEPT !.status = "completed", !.refund = TRUE]
  <1>1. /\ work[m].step = "checked" /\ work[m].return = r
        /\ AddRefund(work[m].plan, work[m].mark) /\ Finish(m) /\ RestockReturn(r)
    BY DEF CommitReturnRefund
  <1>2. /\ MovesOn(m, Idle) /\ RefundsInv'
        /\ paymentStatus' \in {"pending", "paid", "refunded"}
        /\ refunded' \in Nat /\ refundedShipping' \in Nat /\ refundedShippingTax' \in Nat
        /\ refundedQuantity' \in Quantities /\ refundedTax' \in Quantities
    BY <1>1, RefundAdded
  <1>3. /\ return[r] \in Return
        /\ \A n \in Managers : n # m /\ Refunding(work[n]) => work[n].return # r
    BY <1>1 DEF SalesInv, SalesTypeOK, ReturnsInv, HoldersSound, InTurn, Refunding
  <1>3a. return[r].status # "none" /\ (overlaps = 0 => return[r].status \notin FinalReturn)
    BY <1>1 DEF SalesInv, ReturnsInv, HoldersSound, InTurn, Refunding
  <1>4. return' = [return EXCEPT ![r] = row]
    BY <1>3 DEF CommitReturnRefund, SalesInv, SalesTypeOK, Return
  <1>5. row \in Return
    BY <1>3, ReturnStatuses DEF Return
  <1>6. /\ row.status = "completed" /\ row.requested = return[r].requested
        /\ row.approved = return[r].approved /\ row.received = return[r].received
        /\ row.restockable = return[r].restockable /\ row.toRefund = return[r].toRefund
        /\ row.refund
    BY <1>3 DEF Return
  <1> HIDE DEF row
  <1>7. /\ ReturnsInv' /\ FinalKept
        /\ return' \in [Returns -> Return] /\ restocked' \in [Returns -> Quantities]
    BY ZenonT(30), <1>1, <1>2, <1>3, <1>3a, <1>4, <1>5, <1>6, ReturnCompleted
  <1>8. SalesTypeOK'
    BY <1>2, <1>7, MovedTypes DEF SalesInv, SalesTypeOK
  <1> QED
    BY <1>2, <1>7, <1>8 DEF SalesInv

\* The quantities that a return may ask for are numbers.
LEMMA ReturnableTyped ==
    ASSUME NEW lines \in Returnable
    PROVE  lines \in Quantities
  <1> DEFINE S == {Bought[i] : i \in Items}
  <1>1. CASE Items = {}
    BY <1>1 DEF Returnable, Quantities
  <1>2. CASE Items # {}
    <2>1. IsFiniteSet(S)
      <3> DEFINE f == [i \in Items |-> Bought[i]]
      <3>1. f \in Surjection(Items, S)
        BY DEF Surjection
      <3> HIDE DEF f, S
      <3> QED
        BY <3>1, OrderIsFinite, FS_Surjection
    <2>2. S \subseteq Nat /\ S # {}
      BY <1>2, Amounts
    <2>3. Max(S) \in Nat
      <3> HIDE DEF S
      <3>1. \E x \in S : \A y \in S : x >= y
        BY <2>1, <2>2, GreatestMember
      <3>2. Max(S) \in S
        BY <3>1 DEF Max
      <3> QED
        BY <2>2, <3>2
    <2> DEFINE top == Max(S)
    <2>4. lines \in [Items -> 0 .. top]
      BY DEF Returnable
    <2>5. top \in Nat
      BY <2>3
    <2> HIDE DEF top
    <2>6. 0 .. top \subseteq Nat
      BY <2>5
    <2> QED
      BY <2>4, <2>6 DEF Quantities
  <1> QED
    BY <1>1, <1>2

-----------------------------------------------------------------------------
(* The theorems.                                                           *)

\* Nothing is refunded or returned in the beginning.
LEMMA SalesStarts ==
    ASSUME SalesInit
    PROVE  SalesInv
  <1>1. NoItems \in Quantities /\ \A i \in Items : NoItems[i] = 0
    BY DEF NoItems, Quantities
  <1>2. NoReturn \in Return
    BY <1>1, ReturnStatuses DEF NoReturn, Return
  <1>3. SalesTypeOK
    BY <1>1, <1>2, Amounts DEF SalesInit, SalesTypeOK
  <1>4. \A m \in Managers : work[m] = Idle /\ work[m].step = "idle"
    BY DEF SalesInit, Idle
  <1>5. RefundsInv
    <2>1. PaidBackWithinPaid /\ RefundedWithinBought /\ TaxPaidBackOnce /\ RefundedWhenAll
      BY <1>1, Amounts DEF SalesInit, PaidBackWithinPaid, PaidAmount, RefundedWithinBought,
                           TaxPaidBackOnce, RefundedWhenAll
    <2>2. Alone /\ PlansFit /\ RestIsMarked
      BY <1>4 DEF Alone, PlansFit, RestIsMarked, Busy, Refunding
    <2> QED
      BY <2>1, <2>2 DEF RefundsInv
  <1>6. RowsSound
    <2>1. RowSound(NoReturn, NoItems)
      BY <1>1 DEF RowSound, NoReturn
    <2>2. \A r \in Returns : return[r] = NoReturn /\ restocked[r] = NoItems
      BY DEF SalesInit
    <2> QED
      BY <2>1, <2>2 DEF RowsSound
  <1>7. HoldersSound
    BY <1>4 DEF HoldersSound, Refunding
  <1>8. InTurn
    <2>1. ASSUME NEW i \in Items PROVE ReservedQuantity(i) = 0
      <3> DEFINE f == [r \in Returns |-> Reserved(r, i)]
      <3>1. \A r \in Returns : f[r] = 0
        BY DEF SalesInit, Reserved, NoReturn
      <3>2. DOMAIN f = Returns /\ ReservedQuantity(i) = SumFunction(f)
        BY DEF ReservedQuantity
      <3> HIDE DEF f
      <3> QED
        BY <3>1, <3>2, OrderIsFinite, SumZero
    <2>2. \A i \in Items : ReservedQuantity(i) <= Bought[i]
      BY <2>1, Amounts
    <2>3. \A r \in Returns, i \in Items : ~(restocked[r][i] > 0)
      BY <1>1 DEF SalesInit
    <2> HIDE DEF ReservedQuantity
    <2> QED
      BY <1>4, <2>2, <2>3 DEF InTurn, Refunding
  <1> QED
    BY <1>3, <1>5, <1>6, <1>7, <1>8 DEF SalesInv, ReturnsInv

\* Every step keeps the invariants and what is final.
LEMMA SalesGoOn ==
    ASSUME SalesInv, [SalesNext]_salesVars
    PROVE  SalesInv' /\ FinalKept
  <1>1. CASE UNCHANGED salesVars
    <2>1. UNCHANGED <<paymentStatus, refunded, refundedQuantity, refundedTax, refundedShipping,
                      refundedShippingTax, return, restocked, work, overlaps>>
      BY <1>1 DEF salesVars, refundVars
    <2>2. SalesTypeOK'
      BY <2>1 DEF SalesInv, SalesTypeOK
    <2>3. RefundsInv'
      BY <2>1 DEF SalesInv, RefundsInv, PaidBackWithinPaid, PaidAmount, RefundedWithinBought,
                  TaxPaidBackOnce, RefundedWhenAll, Alone, Busy, PlansFit, Fits, MayRefund,
                  RefundableAmount, RestIsMarked, Refunding
    <2>4. \A i \in Items : ReservedQuantity(i)' = ReservedQuantity(i)
      BY <2>1 DEF ReservedQuantity, Reserved
    <2>5. RowsSound' /\ HoldersSound'
      BY <2>1 DEF SalesInv, ReturnsInv, RowsSound, HoldersSound, RowSound, LinesOf, Refunding
    <2>6. InTurn'
      <3> HIDE DEF ReservedQuantity
      <3> QED
        BY <2>1, <2>4 DEF SalesInv, ReturnsInv, InTurn, Refunding
    <2> QED
      BY <2>1, <2>2, <2>3, <2>5, <2>6 DEF SalesInv, ReturnsInv, FinalKept
  <1>2. CASE Pay
    BY <1>2, PayKeeps
  <1>3. CASE \E m \in Managers : RefundStep(m) \/ CommitReturn(m)
    <2>1. PICK m \in Managers : RefundStep(m) \/ CommitReturn(m)
      BY <1>3
    <2>2. CASE \E lines \in Refundable, shipping \in 0 .. ShippingCost : PlanRefund(m, lines, shipping)
      BY <2>2, PlanRefundKeeps
    <2>3. CASE CheckRemainder(m)
      BY <2>3, CheckRemainderKeeps
    <2>4. CASE CommitRefund(m)
      BY <2>4, CommitRefundKeeps
    <2>5. CASE Abort(m)
      BY <2>5, AbortKeeps
    <2>6. CASE CommitReturn(m)
      BY <2>6, CommitReturnKeeps
    <2> QED
      BY <2>1, <2>2, <2>3, <2>4, <2>5, <2>6 DEF RefundStep
  <1>4. CASE \E m \in Managers, r \in Returns : ReturnStep(m, r)
    <2>1. PICK m \in Managers, r \in Returns : ReturnStep(m, r)
      BY <1>4
    <2>2. CASE \E lines \in Returnable : PlanReturn(m, r, lines)
      BY <2>2, ReturnableTyped, PlanReturnKeeps
    <2>3. CASE OpenReturn(m, r)
      BY <2>3, OpenReturnKeeps
    <2>4. CASE ReviewReturn(m, r) \/ RejectReturn(m, r)
      BY <2>4, ReviewKeeps
    <2>5. CASE \E quantities \in Returnable :
                 ApproveReturn(m, r, quantities) \/ ReceiveReturn(m, r, quantities)
      BY <2>5, ReturnableTyped, ApproveKeeps, ReceiveKeeps
    <2>6. CASE \E present \in SUBSET Items : \E restockable, toRefund \in SUBSET present :
                  InspectReturn(m, r, present, restockable, toRefund)
      BY <2>6, InspectKeeps
    <2>7. CASE CompleteReturn(m, r)
      BY <2>7, CompleteKeeps
    <2>8. CASE PlanReturnRefund(m, r)
      BY <2>8, PlanReturnRefundKeeps
    <2>9. CASE CommitReturnRefund(m, r)
      BY <2>9, CommitReturnRefundKeeps
    <2> QED
      BY <2>1, <2>2, <2>3, <2>4, <2>5, <2>6, <2>7, <2>8, <2>9 DEF ReturnStep
  <1> QED
    BY <1>1, <1>2, <1>3, <1>4 DEF SalesNext

\* The invariants of the refunds and returns.
LEMMA SalesAreKept == SalesSpec => []SalesInv
  <1>1. SalesInit => SalesInv
    BY SalesStarts
  <1>2. SalesInv /\ [SalesNext]_salesVars => SalesInv'
    BY SalesGoOn
  <1> QED
    BY <1>1, <1>2, PTL DEF SalesSpec

\* The invariants of the refunds and returns imply what is promised of them.
\* With prices that include the tax a refund adds the tax a second time, so that
\* what is paid back for an item is bounded only without.
LEMMA SalesHold ==
    ASSUME ~TaxIncluded, SalesInv
    PROVE  SalesSound
  <1>1. ItemPaidBackWithinCost
    <2> SUFFICES ASSUME overlaps = 0, NEW i \in Items
                 PROVE  UnitPrice[i] * refundedQuantity[i] + refundedTax[i]
                        <= UnitPrice[i] * Bought[i] + TotalTax[i]
      BY DEF ItemPaidBackWithinCost
    <2>1. refundedQuantity[i] \in Nat /\ refundedTax[i] \in Nat
      BY DEF SalesInv, SalesTypeOK, Quantities
    <2>2. refundedQuantity[i] <= Bought[i] /\ refundedTax[i] <= TotalTax[i]
      BY DEF SalesInv, RefundsInv, RefundedWithinBought, TaxPaidBackOnce
    <2> DEFINE a == UnitPrice[i] * refundedQuantity[i]
               b == UnitPrice[i] * Bought[i]
    <2>3. a \in Nat /\ b \in Nat
      BY <2>1, Amounts, ProductType
    <2>4. a <= b
      BY <2>1, <2>2, Amounts, ProductOrder
    <2> HIDE DEF a, b
    <2>5. a + refundedTax[i] <= b + TotalTax[i]
      BY <2>1, <2>2, <2>3, <2>4, Amounts
    <2> QED
      BY <2>5 DEF a, b
  <1>2. RefundsWithinOrder
    BY <1>1 DEF SalesInv, RefundsInv, RefundsWithinOrder
  <1>3. ReturnPaidOnce
    BY DEF SalesInv, ReturnsInv, HoldersSound, ReturnPaidOnce, Refunding
  <1>4. RestockedWithinRequest
    BY DEF SalesInv, ReturnsInv, RowsSound, RowSound, RestockedWithinRequest
  <1>5. CompletedIsSettled
    <2>1. \A r \in Returns : RefundLines(r) = LinesOf(return[r])
      BY DEF RefundLines, LinesOf
    <2> QED
      BY <2>1 DEF SalesInv, ReturnsInv, RowsSound, RowSound, CompletedIsSettled
  <1>6. ReturnedWithinBought
    <2> SUFFICES ASSUME overlaps = 0, NEW i \in Items
                 PROVE  SumFunction([r \in Returns |-> restocked[r][i]]) <= Bought[i]
      BY DEF ReturnedWithinBought
    <2> DEFINE f == [r \in Returns |-> restocked[r][i]]
               g == [r \in Returns |-> Reserved(r, i)]
    <2>1. \A r \in Returns : restocked[r][i] \in Nat /\ return[r].requested[i] \in Nat
      BY DEF SalesInv, SalesTypeOK, Quantities, Return
    <2>2. \A r \in Returns : f[r] \in Int /\ g[r] \in Int /\ f[r] <= g[r]
      <3> SUFFICES ASSUME NEW r \in Returns PROVE f[r] \in Int /\ g[r] \in Int /\ f[r] <= g[r]
        OBVIOUS
      <3>1. restocked[r][i] <= return[r].requested[i]
        BY DEF SalesInv, ReturnsInv, RowsSound, RowSound
      <3>2. restocked[r][i] > 0 => return[r].status = "completed"
        BY DEF SalesInv, ReturnsInv, InTurn
      <3> QED
        BY <2>1, <3>1, <3>2 DEF Reserved
    <2>3. SumFunctionOnSet(f, Returns) \in Int /\ SumFunctionOnSet(g, Returns) \in Int
      <3> HIDE DEF f, g
      <3> QED
        BY <2>2, OrderIsFinite, SumType
    <2>4. SumFunction(f) = SumFunctionOnSet(f, Returns) /\ SumFunction(g) = SumFunctionOnSet(g, Returns)
      BY DEF SumFunction
    <2>5. DOMAIN f = Returns /\ DOMAIN g = Returns
      OBVIOUS
    <2>6. ReservedQuantity(i) = SumFunction(g) /\ ReservedQuantity(i) <= Bought[i]
      BY DEF ReservedQuantity, SalesInv, ReturnsInv, InTurn
    <2> HIDE DEF f, g
    <2>7. SumFunction(f) <= SumFunction(g)
      BY <2>2, <2>5, OrderIsFinite, SumLeq
    <2>8. SumFunction(f) <= Bought[i]
      BY <2>3, <2>4, <2>6, <2>7, Amounts
    <2> QED
      BY <2>8 DEF f
  <1> QED
    BY <1>2, <1>3, <1>4, <1>5, <1>6 DEF SalesSound, ReturnsSettled

\* Refunds never pay back more than the order paid for, and returns are paid
\* back and restocked within what they asked for, once.
THEOREM SalesAreSound ==
    ASSUME ~TaxIncluded
    PROVE  SalesSpec => []SalesSound
  <1>1. SalesInv => SalesSound
    BY SalesHold
  <1> QED
    BY <1>1, SalesAreKept, PTL

\* A return that is rejected or completed stays so while requests take turns.
THEOREM FinalReturnsStay == SalesSpec => FinalReturnStays
  <1>1. SalesInv /\ [SalesNext]_salesVars =>
           [overlaps' = 0 => \A r \in Returns : return[r].status \in FinalReturn
                                                => return'[r].status = return[r].status]_salesVars
    BY SalesGoOn DEF FinalKept
  <1> QED
    BY <1>1, SalesAreKept, PTL DEF SalesSpec, FinalReturnStays

-----------------------------------------------------------------------------
(* The refunds implement their ledger.                                     *)

\* A refund under way was planned for a paid order, and pays something back.
PlansArePaid ==
    \A m \in Managers : Refunding(work[m]) => paymentStatus # "pending" /\ work[m].plan.total >= 1

Repaid == {r \in Returns : return[r].refund}

\* The checks of a plan refuse an order that is not paid, and an empty refund.
LEMMA PlanIsPaid ==
    ASSUME SalesTypeOK, NEW plan, MayRefund(plan)
    PROVE  paymentStatus # "pending" /\ plan.total >= 1
  <1>1. refunded \in Nat /\ PaidAmount \in Nat
    BY Amounts DEF SalesTypeOK, PaidAmount
  <1>2. RefundableAmount \in Nat /\ (PaidAmount = 0 => RefundableAmount = 0)
    BY <1>1 DEF RefundableAmount, Remaining
  <1>3. plan.total \in 1 .. RefundableAmount
    BY DEF MayRefund
  <1>4. paymentStatus = "pending" => PaidAmount = 0
    BY DEF PaidAmount
  <1> QED
    BY <1>2, <1>3, <1>4

\* A step that leaves the sums alone, whatever request it begins or ends: the
\* ledger sees at most that a request began beside another.
LEMMA LedgerUnmoved ==
    ASSUME SalesInv, PlansArePaid, NEW m \in Managers, NEW state,
           work' = [work EXCEPT ![m] = state],
           Refunding(state) => paymentStatus # "pending" /\ state.plan.total >= 1,
           UNCHANGED <<paymentStatus, refunded>>, Repaid' = Repaid,
           overlaps' = 0 => overlaps = 0
    PROVE  PlansArePaid' /\ [Refunds!Next]_(Refunds!vars)
  <1>1. work'[m] = state /\ \A n \in Managers : n # m => work'[n] = work[n]
    BY WorkTyped DEF SalesInv
  <1>2. PlansArePaid'
    BY <1>1 DEF PlansArePaid, Refunding
  <1>3. {r \in Returns : return[r].refund}' = {r \in Returns : return[r].refund}
    BY DEF Repaid
  <1>4. CASE (overlaps' = 0) = (overlaps = 0)
    <2>1. UNCHANGED Refunds!vars
      BY <1>3, <1>4 DEF Refunds!vars
    <2> QED
      BY <1>2, <2>1
  <1>5. CASE overlaps = 0 /\ overlaps' # 0
    <2>1. Refunds!LoseTurn
      BY <1>3, <1>5 DEF Refunds!LoseTurn
    <2> QED
      BY <1>2, <2>1 DEF Refunds!Next
  <1> QED
    BY <1>2, <1>4, <1>5

\* A request that begins, with the returns as they were.
LEMMA LedgerReads ==
    ASSUME SalesInv, PlansArePaid, NEW m \in Managers, NEW state \in WorkStates, Begin(m, state),
           Refunding(state) => paymentStatus # "pending" /\ state.plan.total >= 1,
           UNCHANGED <<paymentStatus, refunded, return>>
    PROVE  PlansArePaid' /\ [Refunds!Next]_(Refunds!vars)
  <1>1. MovesOn(m, state)
    BY Began DEF SalesInv
  <1>2. work' = [work EXCEPT ![m] = state] /\ (overlaps' = 0 => overlaps = 0)
    BY <1>1 DEF MovesOn
  <1>3. Repaid' = Repaid
    BY DEF Repaid
  <1> QED
    BY <1>2, <1>3, LedgerUnmoved

\* A request that ends, and changed one return other than by paying it back.
LEMMA LedgerKeepsReturns ==
    ASSUME SalesInv, PlansArePaid, NEW m \in Managers, Finish(m), NEW r \in Returns, NEW row,
           return' = [return EXCEPT ![r] = row], row.refund = return[r].refund,
           UNCHANGED <<paymentStatus, refunded>>
    PROVE  PlansArePaid' /\ [Refunds!Next]_(Refunds!vars)
  <1>1. work' = [work EXCEPT ![m] = Idle] /\ overlaps' = overlaps /\ ~Refunding(Idle)
    BY DEF Finish, Set, Refunding, Idle
  <1>2. \A q \in Returns : return'[q].refund = return[q].refund
    BY DEF SalesInv, SalesTypeOK
  <1>3. Repaid' = Repaid
    BY <1>2 DEF Repaid
  <1> QED
    BY <1>1, <1>3, LedgerUnmoved

\* The rows of a refund become visible: a refund of the ledger.
LEMMA LedgerPaysBack ==
    ASSUME SalesInv, PlansArePaid, NEW m \in Managers, work[m].step = "checked",
           AddRefund(work[m].plan, work[m].mark), Finish(m),
           Repaid' = Repaid \/ \E r \in Returns \ Repaid : Repaid' = Repaid \cup {r}
    PROVE  PlansArePaid' /\ [Refunds!Next]_(Refunds!vars)
  <1>1. /\ MovesOn(m, Idle) /\ RefundsInv'
        /\ refunded' \in Nat /\ overlaps' = overlaps
    BY RefundAdded DEF Finish
  <1>2. work'[m] = Idle /\ \A n \in Managers : n # m => work'[n] = work[n]
    BY <1>1, MovedTypes DEF SalesInv
  <1>3. /\ refunded' = refunded + work[m].plan.total
        /\ paymentStatus' = IF work[m].mark THEN "refunded" ELSE paymentStatus
    BY DEF AddRefund
  <1>4. work[m].plan.total \in Nat /\ refunded \in Nat /\ work[m].mark \in BOOLEAN
    BY CheckedFacts DEF SalesInv, SalesTypeOK
  <1>5. paymentStatus # "pending" /\ work[m].plan.total >= 1
    BY DEF PlansArePaid, Refunding
  <1>6. paymentStatus' # "pending" /\ refunded' > refunded
    BY <1>3, <1>4, <1>5
  <1>7. PlansArePaid'
    BY <1>2, <1>6 DEF PlansArePaid, Refunding, Idle
  <1>8. overlaps = 0 => refunded' <= GrandTotal
    <2>1. overlaps = 0 => refunded' <= PaidAmount'
      BY <1>1 DEF RefundsInv, PaidBackWithinPaid
    <2>2. PaidAmount' = GrandTotal
      BY <1>3, <1>5 DEF PaidAmount, SalesInv, SalesTypeOK
    <2> QED
      BY <2>1, <2>2
  <1>9. paymentStatus = "refunded" => paymentStatus' = "refunded"
    BY <1>3
  <1>10. paymentStatus' = "refunded" => refunded' >= GrandTotal
    BY <1>1 DEF RefundsInv, RefundedWhenAll
  <1>11. overlaps = 0 /\ refunded' >= GrandTotal => paymentStatus' = "refunded"
    <2>1. overlaps = 0 /\ refunded' > 0 /\ refunded' = GrandTotal => paymentStatus' = "refunded"
      BY <1>1 DEF RefundsInv, RefundedWhenAll
    <2> QED
      BY <1>1, <1>4, <1>6, <1>8, <2>1, Amounts
  <1>12. \/ {r \in Returns : return[r].refund}' = {r \in Returns : return[r].refund}
         \/ \E r \in Returns \ {q \in Returns : return[q].refund} :
               {q \in Returns : return[q].refund}' = {q \in Returns : return[q].refund} \cup {r}
    BY DEF Repaid
  <1>13. /\ (paymentStatus # "pending")' = (paymentStatus # "pending")
         /\ (overlaps = 0)' = (overlaps = 0)
    BY <1>1, <1>5, <1>6
  <1>14. Refunds!PayBack
    BY <1>5, <1>6, <1>8, <1>9, <1>10, <1>11, <1>12, <1>13 DEF Refunds!PayBack
  <1> QED
    BY <1>7, <1>14 DEF Refunds!Next

\* The payment of the order credits the ledger.
LEMMA LedgerCredits ==
    ASSUME SalesInv, PlansArePaid, Pay
    PROVE  PlansArePaid' /\ [Refunds!Next]_(Refunds!vars)
  <1>1. /\ paymentStatus = "pending" /\ paymentStatus' = "paid"
        /\ UNCHANGED <<refunded, return, work, overlaps>>
    BY DEF Pay, refundVars
  <1>2. PlansArePaid'
    BY <1>1 DEF PlansArePaid, Refunding
  <1>3. {r \in Returns : return[r].refund}' = {r \in Returns : return[r].refund}
    BY <1>1
  <1>4. Refunds!Credit
    BY <1>1, <1>3 DEF Refunds!Credit
  <1> QED
    BY <1>2, <1>4 DEF Refunds!Next

\* The steps of a refund.
LEMMA RefundStepRefines ==
    ASSUME SalesInv, PlansArePaid, NEW m \in Managers, RefundStep(m)
    PROVE  PlansArePaid' /\ [Refunds!Next]_(Refunds!vars)
  <1>1. ASSUME NEW lines \in Refundable, NEW shipping \in 0 .. ShippingCost,
               PlanRefund(m, lines, shipping)
        PROVE  PlansArePaid' /\ [Refunds!Next]_(Refunds!vars)
    <2> DEFINE plan == PlanFor(lines, shipping)
               state == [step |-> "planned", plan |-> plan, return |-> Direct]
    <2>1. lines \in Quantities /\ shipping \in Nat
      BY Amounts DEF Refundable, Quantities
    <2>2. MayRefund(plan) /\ Begin(m, state) /\ UNCHANGED <<paymentStatus, refunded, return>>
      BY <1>1 DEF PlanRefund, refundVars
    <2>3. plan \in Plan
      BY <2>1, <2>2, PlanMade DEF SalesInv
    <2> HIDE DEF plan
    <2>4. state \in WorkStates /\ state.plan = plan
      BY <2>3 DEF WorkStates, Planned
    <2>5. paymentStatus # "pending" /\ plan.total >= 1
      BY <2>2, PlanIsPaid DEF SalesInv
    <2> HIDE DEF state
    <2> QED
      BY <2>2, <2>4, <2>5, LedgerReads
  <1>2. CASE CheckRemainder(m)
    <2> DEFINE mark == paymentStatus = "paid" /\ Remaining(GrandTotal, refunded + work[m].plan.total) = 0
               state == [step |-> "checked", plan |-> work[m].plan, return |-> work[m].return,
                         mark |-> mark]
    <2>1. work' = [work EXCEPT ![m] = state] /\ state.plan = work[m].plan
      BY <1>2 DEF CheckRemainder, Set
    <2> HIDE DEF mark, state
    <2>2. /\ work[m].step = "planned"
          /\ UNCHANGED <<paymentStatus, refunded, return, overlaps>>
      BY <1>2 DEF CheckRemainder, refundVars
    <2>3. Repaid' = Repaid
      BY <2>2 DEF Repaid
    <2>4. paymentStatus # "pending" /\ state.plan.total >= 1
      BY <2>1, <2>2 DEF PlansArePaid, Refunding
    <2> QED
      BY <2>1, <2>2, <2>3, <2>4, LedgerUnmoved
  <1>3. CASE CommitRefund(m)
    <2>1. /\ work[m].step = "checked" /\ AddRefund(work[m].plan, work[m].mark) /\ Finish(m)
          /\ Repaid' = Repaid
      BY <1>3 DEF CommitRefund, Repaid
    <2> QED
      BY <2>1, LedgerPaysBack
  <1>4. CASE Abort(m)
    <2>1. /\ work' = [work EXCEPT ![m] = Idle] /\ ~Refunding(Idle)
          /\ UNCHANGED <<paymentStatus, refunded, return, overlaps>>
      BY <1>4 DEF Abort, Finish, Set, refundVars, Refunding, Idle
    <2>2. Repaid' = Repaid
      BY <2>1 DEF Repaid
    <2> QED
      BY <2>1, <2>2, LedgerUnmoved
  <1> QED
    BY <1>1, <1>2, <1>3, <1>4 DEF RefundStep

\* The steps of a return.
LEMMA ReturnStepRefines ==
    ASSUME SalesInv, PlansArePaid, NEW m \in Managers, NEW r \in Returns, ReturnStep(m, r)
    PROVE  PlansArePaid' /\ [Refunds!Next]_(Refunds!vars)
  <1>1. return[r] \in Return /\ return[r].status \in DOMAIN ReturnTransitions
    BY DEF SalesInv, SalesTypeOK, Return
  <1>2. ASSUME NEW lines \in Returnable, PlanReturn(m, r, lines)
        PROVE  PlansArePaid' /\ [Refunds!Next]_(Refunds!vars)
    <2> DEFINE state == [step |-> "creating", return |-> r, lines |-> lines]
    <2>1. Begin(m, state) /\ UNCHANGED <<paymentStatus, refunded, return>>
      BY <1>2 DEF PlanReturn, refundVars
    <2>2. lines \in Quantities
      BY ReturnableTyped
    <2>3. state \in WorkStates /\ ~Refunding(state)
      BY <2>2 DEF WorkStates, Creating, Refunding
    <2> HIDE DEF state
    <2> QED
      BY <2>1, <2>3, LedgerReads
  <1>3. CASE OpenReturn(m, r)
    <2> DEFINE state == [step |-> "opened", return |-> r, status |-> return[r].status]
    <2>1. Begin(m, state) /\ UNCHANGED <<paymentStatus, refunded, return>>
      BY <1>3 DEF OpenReturn, refundVars
    <2>2. state \in WorkStates /\ ~Refunding(state)
      BY <1>1 DEF WorkStates, Opened, Refunding
    <2> HIDE DEF state
    <2> QED
      BY <2>1, <2>2, LedgerReads
  <1>4. ASSUME NEW row, SaveReturn(m, r, row), row.refund = return[r].refund
        PROVE  PlansArePaid' /\ [Refunds!Next]_(Refunds!vars)
    BY <1>4, LedgerKeepsReturns DEF SaveReturn, refundVars
  <1>5. CASE ReviewReturn(m, r) \/ RejectReturn(m, r)
    <2>1. PICK status \in {"under_review", "rejected"} :
             SaveReturn(m, r, [return[r] EXCEPT !.status = status])
      BY <1>5 DEF ReviewReturn, RejectReturn
    <2>2. [return[r] EXCEPT !.status = status].refund = return[r].refund
      BY <1>1 DEF Return
    <2> QED
      BY <1>4, <2>1, <2>2
  <1>6. ASSUME NEW quantities, ApproveReturn(m, r, quantities)
        PROVE  PlansArePaid' /\ [Refunds!Next]_(Refunds!vars)
    <2>1. PICK row : row = [return[r] EXCEPT !.status = "approved", !.approved = quantities]
      OBVIOUS
    <2>2. SaveReturn(m, r, row)
      BY <1>6, <2>1 DEF ApproveReturn
    <2>3. row.refund = return[r].refund
      BY <1>1, <2>1 DEF Return
    <2> QED
      BY <1>4, <2>2, <2>3
  <1>7. ASSUME NEW quantities, ReceiveReturn(m, r, quantities)
        PROVE  PlansArePaid' /\ [Refunds!Next]_(Refunds!vars)
    <2>1. PICK row : row = [return[r] EXCEPT !.status = "received", !.received = quantities]
      OBVIOUS
    <2>2. SaveReturn(m, r, row)
      BY <1>7, <2>1 DEF ReceiveReturn
    <2>3. row.refund = return[r].refund
      BY <1>1, <2>1 DEF Return
    <2> QED
      BY <1>4, <2>2, <2>3
  <1>8. ASSUME NEW present, NEW restockable, NEW toRefund,
               InspectReturn(m, r, present, restockable, toRefund)
        PROVE  PlansArePaid' /\ [Refunds!Next]_(Refunds!vars)
    <2>1. PICK row : row = [return[r] EXCEPT
                               !.status = "inspected",
                               !.restockable = (@ \ present) \cup restockable,
                               !.toRefund = (@ \ present) \cup toRefund]
      OBVIOUS
    <2>2. SaveReturn(m, r, row)
      BY <1>8, <2>1 DEF InspectReturn
    <2>3. row.refund = return[r].refund
      BY <1>1, <2>1 DEF Return
    <2> QED
      BY <1>4, <2>2, <2>3
  <1>9. CASE CompleteReturn(m, r)
    <2>1. PICK row : row = [return[r] EXCEPT !.status = "completed"]
      OBVIOUS
    <2>2. return' = [return EXCEPT ![r] = row] /\ Finish(m) /\ UNCHANGED <<paymentStatus, refunded>>
      BY <1>9, <2>1 DEF CompleteReturn, refundVars
    <2>3. row.refund = return[r].refund
      BY <1>1, <2>1 DEF Return
    <2> QED
      BY <2>2, <2>3, LedgerKeepsReturns
  <1>10. CASE PlanReturnRefund(m, r)
    <2> DEFINE plan == PlanFor(RefundLines(r), 0)
               state == [step |-> "planned", plan |-> plan, return |-> r]
    <2>1. /\ work' = [work EXCEPT ![m] = state] /\ MayRefund(plan)
          /\ UNCHANGED <<paymentStatus, refunded, return, overlaps>>
      BY <1>10 DEF PlanReturnRefund, Set, refundVars
    <2> HIDE DEF plan
    <2>2. paymentStatus # "pending" /\ plan.total >= 1
      BY <2>1, PlanIsPaid DEF SalesInv
    <2>3. state.plan = plan
      OBVIOUS
    <2> HIDE DEF state
    <2>4. Repaid' = Repaid
      BY <2>1 DEF Repaid
    <2> QED
      BY <2>1, <2>2, <2>3, <2>4, LedgerUnmoved
  <1>11. CASE CommitReturnRefund(m, r)
    <2>1. /\ work[m].step = "checked" /\ work[m].return = r
          /\ AddRefund(work[m].plan, work[m].mark) /\ Finish(m)
      BY <1>11 DEF CommitReturnRefund
    <2>2. ~return[r].refund
      BY <2>1 DEF SalesInv, ReturnsInv, HoldersSound, Refunding
    <2>3. return'[r].refund /\ \A q \in Returns : q # r => return'[q] = return[q]
      BY <1>1, <1>11 DEF CommitReturnRefund, SalesInv, SalesTypeOK, Return
    <2>4. r \in Returns \ Repaid /\ Repaid' = Repaid \cup {r}
      BY <2>2, <2>3 DEF Repaid
    <2> QED
      BY <2>1, <2>4, LedgerPaysBack
  <1> QED
    BY <1>2, <1>3, <1>5, <1>6, <1>7, <1>8, <1>9, <1>10, <1>11 DEF ReturnStep

\* Every step maps to a step of the ledger or to a stutter.
LEMMA LedgerGoesOn ==
    ASSUME SalesInv, PlansArePaid, [SalesNext]_salesVars
    PROVE  PlansArePaid' /\ [Refunds!Next]_(Refunds!vars)
  <1>1. CASE UNCHANGED salesVars
    <2>1. UNCHANGED <<paymentStatus, refunded, return, work, overlaps>>
      BY <1>1 DEF salesVars, refundVars
    <2>2. PlansArePaid'
      BY <2>1 DEF PlansArePaid, Refunding
    <2>3. UNCHANGED Refunds!vars
      BY <2>1 DEF Refunds!vars
    <2> QED
      BY <2>2, <2>3
  <1>2. ASSUME NEW m \in Managers, CommitReturn(m)
        PROVE  PlansArePaid' /\ [Refunds!Next]_(Refunds!vars)
    <2>1. work[m] \in Creating
      BY <1>2, WorkTyped, WorkKinds DEF CommitReturn, SalesInv
    <2>2. PICK r \in Returns : r = work[m].return
      BY <2>1 DEF Creating
    <2>3. PICK row : row = [return[r] EXCEPT !.status = "requested", !.requested = work[m].lines]
      OBVIOUS
    <2>4. return[r] \in Return
      BY DEF SalesInv, SalesTypeOK
    <2>5. return' = [return EXCEPT ![r] = row] /\ row.refund = return[r].refund
      BY <1>2, <2>2, <2>3, <2>4 DEF CommitReturn, SalesInv, SalesTypeOK, Return
    <2>6. Finish(m) /\ UNCHANGED <<paymentStatus, refunded>>
      BY <1>2 DEF CommitReturn, refundVars
    <2> QED
      BY <2>5, <2>6, LedgerKeepsReturns
  <1> QED
    BY <1>1, <1>2, LedgerCredits, RefundStepRefines, ReturnStepRefines DEF SalesNext

\* The refunds and returns implement the abstract ledger of the order's refunds:
\* an order is paid back only after it was paid, a return at most once, and the
\* order is marked refunded by the refund that pays back the rest of it.
THEOREM RefundsFollowLedger == SalesSpec => ImplementsRefundLedger
  <1>1. SalesInit => PlansArePaid /\ Refunds!Init
    <2> SUFFICES ASSUME SalesInit PROVE PlansArePaid /\ Refunds!Init
      OBVIOUS
    <2>1. PlansArePaid
      BY DEF SalesInit, PlansArePaid, Refunding, Idle
    <2>2. {r \in Returns : return[r].refund} = {}
      BY DEF SalesInit, NoReturn
    <2> QED
      BY <2>1, <2>2 DEF SalesInit, Refunds!Init
  <1>2. SalesInv /\ PlansArePaid /\ [SalesNext]_salesVars =>
           PlansArePaid' /\ [Refunds!Next]_(Refunds!vars)
    BY LedgerGoesOn
  <1> QED
    BY <1>1, <1>2, SalesAreKept, PTL DEF SalesSpec, ImplementsRefundLedger, Refunds!Spec

-----------------------------------------------------------------------------
(* A guest's cart that becomes a customer's.                               *)

\* A cart has one item of each good.
OneItemEach(rows) ==
    \A cart \in BothCarts : \A i, j \in In(cart, rows) : rows[i].good = rows[j].good => i = j

\* What an item counts for a good in some of the carts.
Counts(row, carts, g) == IF row.cart \in carts /\ row.good = g THEN row.quantity ELSE 0

\* What a merge looked up, for the types and for the rows it saw.
LookedUp(m) ==
    /\ DOMAIN m.pair = In("guest", m.saw)
    /\ \A i \in DOMAIN m.pair : m.pair[i] = Nowhere \/ m.pair[i] \in DOMAIN m.held
    /\ \A j \in DOMAIN m.held : j \in Nat \ {0} /\ m.held[j] \in Nat

InPairs(m) ==
    /\ \A i \in DOMAIN m.pair : m.pair[i] = Nowhere =>
          \A j \in In("own", m.saw) : m.saw[j].good # m.saw[i].good
    /\ \A i \in DOMAIN m.pair : m.pair[i] # Nowhere =>
          m.pair[i] \in In("own", m.saw) /\ m.saw[m.pair[i]].good = m.saw[i].good
    /\ \A j \in DOMAIN m.held : j \in In("own", m.saw) => m.held[j] = m.saw[j].quantity

MergesSound ==
    /\ DOMAIN merging = SignIns
    /\ \A r \in SignIns : merging[r] # Waiting =>
          /\ merging[r].at \in {"listed", "found"}
          /\ merging[r].saw \in Seq(CartItem)
          /\ merging[r].at = "found" => LookedUp(merging[r])
          /\ merging[r].at = "found" /\ ~entangled => InPairs(merging[r])

CartInv == CartTypeOK /\ UnitsKept /\ MergesSound

\* The rows of the table are numbered.
LEMMA RowsNumbered ==
    ASSUME NEW rows \in Seq(CartItem)
    PROVE  /\ Len(rows) \in Nat /\ DOMAIN rows = 1..Len(rows) /\ rows \in [1..Len(rows) -> CartItem]
           /\ IsFiniteSet(DOMAIN rows)
           /\ \A i \in DOMAIN rows : /\ i \in Nat \ {0} /\ rows[i] \in CartItem
                                     /\ rows[i].cart \in {"guest", "own", "no"}
                                     /\ rows[i].good \in Goods /\ rows[i].quantity \in Nat
  <1>1. Len(rows) \in Nat /\ DOMAIN rows = 1..Len(rows) /\ rows \in [1..Len(rows) -> CartItem]
    BY LenProperties
  <1>2. IsFiniteSet(DOMAIN rows)
    BY <1>1, FS_Interval
  <1>3. \A i \in DOMAIN rows : i \in Nat \ {0} /\ rows[i] \in CartItem
    BY <1>1
  <1> QED
    BY <1>1, <1>2, <1>3 DEF CartItem, BothCarts

\* Rows of the same number make a table.
LEMMA RowsAgain ==
    ASSUME NEW n \in Nat, NEW rows \in [1..n -> CartItem]
    PROVE  rows \in Seq(CartItem) /\ Len(rows) = n
  <1>1. rows \in Seq(CartItem)
    BY SeqDef
  <1> QED
    BY <1>1, LenProperties

\* The units of a good, as a sum over the rows.
LEMMA UnitsUnfold ==
    ASSUME items \in Seq(CartItem), NEW carts, NEW g
    PROVE  LET f == [i \in DOMAIN items |-> Counts(items[i], carts, g)]
           IN  /\ Units(carts, g) = SumFunction(f)
               /\ f \in [DOMAIN items -> Int]
               /\ SumFunction(f) \in Int
  <1> DEFINE f == [i \in DOMAIN items |-> Counts(items[i], carts, g)]
  <1>1. Units(carts, g) = SumFunction(f)
    BY DEF Units, Counts
  <1>2. \A i \in DOMAIN items : f[i] \in Int
    BY RowsNumbered DEF Counts
  <1>3. f \in [DOMAIN items -> Int]
    BY <1>2
  <1>4. SumFunction(f) = SumFunctionOnSet(f, DOMAIN items)
    BY DEF SumFunction
  <1>5. SumFunctionOnSet(f, DOMAIN items) \in Int
    <2> HIDE DEF f
    <2> QED
      BY <1>2, RowsNumbered, SumType
  <1> QED
    BY <1>1, <1>3, <1>4, <1>5

\* The item that is found is in the cart.
LEMMA FoundFacts ==
    ASSUME items \in Seq(CartItem), NEW cart, NEW g
    PROVE  /\ Found(cart, g) = Nowhere => \A i \in In(cart, items) : items[i].good # g
           /\ Found(cart, g) # Nowhere =>
                 Found(cart, g) \in In(cart, items) /\ items[Found(cart, g)].good = g
  <1> DEFINE rows == {i \in In(cart, items) : items[i].good = g}
  <1>1. rows \subseteq Nat /\ \A i \in rows : i # Nowhere
    BY RowsNumbered DEF In, Nowhere
  <1>2. CASE rows = {}
    BY <1>2 DEF Found
  <1>3. CASE rows # {}
    <2>1. \E m \in rows : \A k \in rows : m <= k
      <3> HIDE DEF rows
      <3> QED
        BY <1>1, <1>3, SmallestMember
    <2>2. Min(rows) \in rows
      BY <2>1 DEF Min
    <2>3. Found(cart, g) = Min(rows)
      BY <1>3 DEF Found
    <2> QED
      BY <1>1, <2>2, <2>3
  <1> QED
    BY <1>2, <1>3

\* One row changes.
LEMMA RowChanged ==
    ASSUME items \in Seq(CartItem), NEW i \in DOMAIN items, NEW row \in CartItem,
           items' = [items EXCEPT ![i] = row]
    PROVE  /\ items' \in Seq(CartItem) /\ Len(items') = Len(items) /\ DOMAIN items' = DOMAIN items
           /\ \A k \in DOMAIN items : items'[k] = IF k = i THEN row ELSE items[k]
  <1>1. Len(items) \in Nat /\ DOMAIN items = 1..Len(items) /\ items \in [1..Len(items) -> CartItem]
    BY RowsNumbered
  <1>2. items' \in [1..Len(items) -> CartItem]
    BY <1>1
  <1>3. items' \in Seq(CartItem) /\ Len(items') = Len(items) /\ DOMAIN items' = DOMAIN items
    BY <1>1, <1>2, RowsAgain
  <1>4. \A k \in DOMAIN items : items'[k] = IF k = i THEN row ELSE items[k]
    BY <1>1
  <1> QED
    BY <1>3, <1>4

\* The sum of a good changes with the row.
LEMMA UnitsChanged ==
    ASSUME items \in Seq(CartItem), NEW i \in DOMAIN items, NEW row \in CartItem,
           items' = [items EXCEPT ![i] = row], NEW carts, NEW g
    PROVE  /\ Units(carts, g) \in Int
           /\ Units(carts, g)' = Units(carts, g) + (Counts(row, carts, g) - Counts(items[i], carts, g))
  <1> DEFINE S == DOMAIN items
             f == [k \in DOMAIN items |-> Counts(items[k], carts, g)]
             h == [k \in DOMAIN items |-> Counts(items'[k], carts, g)]
  <1>1. Units(carts, g) = SumFunction(f) /\ f \in [S -> Int] /\ SumFunction(f) \in Int
    BY UnitsUnfold
  <1>2. /\ items' \in Seq(CartItem) /\ DOMAIN items' = S
        /\ \A k \in S : items'[k] = IF k = i THEN row ELSE items[k]
    BY RowChanged
  <1>3. Units(carts, g)' = SumFunction(h)
    BY <1>2 DEF Units, Counts
  <1>4. h \in [S -> Int]
    <2>1. \A k \in S : items'[k].quantity \in Nat
      BY <1>2, RowsNumbered
    <2>2. \A k \in S : Counts(items'[k], carts, g) \in Int
      BY <2>1 DEF Counts
    <2> QED
      BY <2>2
  <1>5. Counts(row, carts, g) \in Int /\ Counts(items[i], carts, g) \in Int
    <2>1. row.quantity \in Nat /\ items[i].quantity \in Nat
      BY RowsNumbered DEF CartItem
    <2> QED
      BY <2>1 DEF Counts
  <1>6. /\ f[i] = Counts(items[i], carts, g) /\ h[i] = Counts(row, carts, g)
        /\ \A k \in S : k # i => h[k] = f[k]
    BY <1>2
  <1>7. IsFiniteSet(S)
    BY RowsNumbered
  <1> DEFINE d == Counts(row, carts, g) - Counts(items[i], carts, g)
  <1>8. d \in Int
    BY <1>5
  <1>9. h[i] = f[i] + d
    BY <1>5, <1>6
  <1> HIDE DEF f, h, d
  <1>10. SumFunction(h) = SumFunction(f) + d
    <2>1. f \in [S -> Int] /\ \A k \in S : k # i => h[k] = f[k]
      BY <1>1, <1>6
    <2> QED
      BY ONLY <1>4, <1>7, <1>8, <1>9, <2>1, i \in DOMAIN items, SumMoves
  <1> QED
    BY <1>1, <1>3, <1>10 DEF d

\* A row is added.
LEMMA RowAdded ==
    ASSUME items \in Seq(CartItem), NEW row \in CartItem, items' = Append(items, row)
    PROVE  /\ items' \in Seq(CartItem) /\ Len(items') = Len(items) + 1
           /\ DOMAIN items' = DOMAIN items \cup {Len(items) + 1}
           /\ \A k \in DOMAIN items : items'[k] = items[k]
           /\ items'[Len(items) + 1] = row
           /\ \A carts, g : /\ Units(carts, g) \in Int
                            /\ Units(carts, g)' = Units(carts, g) + Counts(row, carts, g)
  <1> DEFINE S == DOMAIN items
             n == Len(items) + 1
  <1>1. Len(items) \in Nat /\ S = 1..Len(items) /\ IsFiniteSet(S)
    BY RowsNumbered
  <1>2. /\ items' \in Seq(CartItem) /\ Len(items') = n
        /\ \A k \in 1..Len(items) : items'[k] = items[k]
        /\ items'[n] = row
    BY AppendProperties
  <1>3. DOMAIN items' = 1..n
    BY <1>2, RowsNumbered
  <1>4. n \notin S /\ 1..n = S \cup {n}
    BY <1>1
  <1>5. ASSUME NEW carts, NEW g
        PROVE  /\ Units(carts, g) \in Int
               /\ Units(carts, g)' = Units(carts, g) + Counts(row, carts, g)
    <2> DEFINE f == [k \in S |-> Counts(items[k], carts, g)]
               h == [k \in S \cup {n} |-> Counts(items'[k], carts, g)]
    <2>1. Units(carts, g) = SumFunction(f) /\ f \in [S -> Int] /\ SumFunction(f) \in Int
      BY UnitsUnfold
    <2>2. Units(carts, g)' = SumFunction(h)
      BY <1>3, <1>4 DEF Units, Counts
    <2>3. SumFunction(f) = SumFunctionOnSet(f, S) /\ SumFunction(h) = SumFunctionOnSet(h, S \cup {n})
      BY DEF SumFunction
    <2>4. \A k \in S \cup {n} : h[k] \in Int
      <3>1. \A k \in S \cup {n} : items'[k].quantity \in Nat
        BY <1>2, <1>3, <1>4, RowsNumbered
      <3> QED
        BY <3>1 DEF Counts
    <2>5. \A k \in S : h[k] = f[k]
      BY <1>1, <1>2
    <2>6. h[n] = Counts(row, carts, g)
      BY <1>2
    <2> HIDE DEF f, h, n
    <2>7. SumFunctionOnSet(h, S) = SumFunctionOnSet(f, S)
      BY <1>1, <2>5, SumSame
    <2>8. SumFunctionOnSet(h, S \cup {n}) = SumFunctionOnSet(h, S) + h[n]
      BY <1>1, <1>4, <2>4, SumAdd
    <2> QED
      BY <2>1, <2>2, <2>3, <2>6, <2>7, <2>8
  <1> QED
    BY <1>1, <1>2, <1>3, <1>4, <1>5

\* The goods of the store.
LEMMA StockTyped == \A g \in Goods : InStock[g] \in Nat
  BY GoodsAssumption

\* A unit is put in a cart.
LEMMA AddKeeps ==
    ASSUME CartInv, NEW cart \in BothCarts, NEW g \in Goods, AddToCart(cart, g)
    PROVE  CartInv'
  <1> DEFINE i == Found(cart, g)
  <1>1. /\ wanted' = [wanted EXCEPT ![g] = @ + 1] /\ UNCHANGED <<merging, entangled>>
        /\ i = Nowhere =>
              /\ Len(items) < MaxItems
              /\ items' = Append(items, [cart |-> cart, good |-> g, quantity |-> 1])
        /\ i # Nowhere => items' = [items EXCEPT ![i].quantity = @ + 1]
    BY DEF AddToCart
  <1>2. items \in Seq(CartItem) /\ Len(items) <= MaxItems /\ wanted \in [Goods -> Int] /\ MaxItems \in Nat
    BY GoodsAssumption DEF CartInv, CartTypeOK
  <1>3. /\ i = Nowhere => \A k \in In(cart, items) : items[k].good # g
        /\ i # Nowhere => i \in In(cart, items) /\ items[i].good = g
    BY <1>2, FoundFacts
  <1>4. wanted' \in [Goods -> Int] /\ \A h \in Goods : wanted'[h] = wanted[h] + (IF h = g THEN 1 ELSE 0)
    BY <1>1, <1>2
  <1>5. MergesSound'
    BY <1>1 DEF CartInv, MergesSound, LookedUp, InPairs
  <1> HIDE DEF i
  <1>6. CASE i = Nowhere
    <2> DEFINE row == [cart |-> cart, good |-> g, quantity |-> 1]
    <2>1. /\ row \in CartItem /\ row.cart = cart /\ row.good = g /\ row.quantity = 1
      BY DEF CartItem
    <2>2. items' = Append(items, row)
      BY <1>1, <1>6
    <2> HIDE DEF row
    <2>3. /\ items' \in Seq(CartItem) /\ Len(items') = Len(items) + 1
          /\ DOMAIN items' = DOMAIN items \cup {Len(items) + 1}
          /\ \A k \in DOMAIN items : items'[k] = items[k]
          /\ items'[Len(items) + 1] = row
      BY <1>2, <2>1, <2>2, RowAdded
    <2>4. Len(items') <= MaxItems
      BY <1>1, <1>2, <1>6, <2>3, RowsNumbered
    <2>5. ~entangled' => OneItemEach(items')
      <3> SUFFICES ASSUME ~entangled, NEW c \in BothCarts, NEW j \in In(c, items'), NEW k \in In(c, items'),
                          items'[j].good = items'[k].good
                   PROVE  j = k
        BY <1>1 DEF OneItemEach
      <3>1. OneItemEach(items)
        BY DEF CartInv, CartTypeOK, OneItemEach
      <3>2. \A l \in In(c, items') : l \in In(c, items) \/ (l = Len(items) + 1 /\ c = cart)
        BY <2>1, <2>3 DEF In
      <3>3. \A l \in In(c, items) : items'[l] = items[l]
        BY <2>3 DEF In
      <3> QED
        BY <1>3, <1>6, <2>1, <2>3, <3>1, <3>2, <3>3 DEF OneItemEach
    <2>6. UnitsKept'
      <3> SUFFICES ASSUME ~entangled, NEW h \in Goods PROVE Units(BothCarts, h)' = wanted'[h]
        BY <1>1 DEF UnitsKept
      <3>1. Units(BothCarts, h) = wanted[h]
        BY DEF CartInv, UnitsKept
      <3>2. Units(BothCarts, h)' = Units(BothCarts, h) + Counts(row, BothCarts, h)
        BY <1>2, <2>1, <2>2, RowAdded
      <3>3. Counts(row, BothCarts, h) = IF h = g THEN 1 ELSE 0
        BY <2>1 DEF Counts
      <3> QED
        BY <1>4, <3>1, <3>2, <3>3
    <2> QED
      BY <1>1, <1>4, <1>5, <2>3, <2>4, <2>5, <2>6 DEF CartInv, CartTypeOK, OneItemEach
  <1>7. CASE i # Nowhere
    <2> DEFINE row == [items[i] EXCEPT !.quantity = @ + 1]
    <2>1. i \in DOMAIN items /\ items[i].cart = cart /\ items[i].good = g
      BY <1>3, <1>7 DEF In
    <2>2. items[i] \in CartItem /\ items[i].quantity \in Nat
      BY <1>2, <2>1, RowsNumbered
    <2>3. items' = [items EXCEPT ![i] = row]
      BY <1>1, <1>7
    <2>4. /\ row \in CartItem /\ row.cart = cart /\ row.good = g
          /\ row.quantity = items[i].quantity + 1
      <3> DEFINE n == items[i].quantity + 1
      <3>1. n \in Nat
        BY <2>2
      <3>2. row = [items[i] EXCEPT !.quantity = n]
        OBVIOUS
      <3> HIDE DEF n
      <3>3. [items[i] EXCEPT !.quantity = n] \in CartItem
        BY <2>2, <3>1 DEF CartItem
      <3>4. row.cart = cart /\ row.good = g /\ row.quantity = n
        BY <2>1, <2>2, <3>2 DEF CartItem
      <3> QED
        BY <3>2, <3>3, <3>4 DEF n
    <2> HIDE DEF row
    <2>5. /\ items' \in Seq(CartItem) /\ Len(items') = Len(items) /\ DOMAIN items' = DOMAIN items
          /\ \A k \in DOMAIN items : items'[k] = IF k = i THEN row ELSE items[k]
      BY <1>2, <2>1, <2>3, <2>4, RowChanged
    <2>6. ~entangled' => OneItemEach(items')
      <3>1. \A k \in DOMAIN items : items'[k].cart = items[k].cart /\ items'[k].good = items[k].good
        BY <2>1, <2>4, <2>5
      <3>2. \A c : In(c, items') = In(c, items)
        BY <2>5, <3>1 DEF In
      <3>3. ~entangled => OneItemEach(items)
        BY DEF CartInv, CartTypeOK, OneItemEach
      <3>4. \A c : \A k \in In(c, items) : k \in DOMAIN items
        BY DEF In
      <3> QED
        BY <1>1, <3>1, <3>2, <3>3, <3>4 DEF OneItemEach
    <2>7. UnitsKept'
      <3> SUFFICES ASSUME ~entangled, NEW h \in Goods PROVE Units(BothCarts, h)' = wanted'[h]
        BY <1>1 DEF UnitsKept
      <3>1. Units(BothCarts, h) = wanted[h] /\ wanted[h] \in Int
        BY <1>2 DEF CartInv, UnitsKept
      <3>2. Units(BothCarts, h)' = Units(BothCarts, h)
                 + (Counts(row, BothCarts, h) - Counts(items[i], BothCarts, h))
        BY <1>2, <2>1, <2>3, <2>4, UnitsChanged
      <3>3. Counts(row, BothCarts, h) - Counts(items[i], BothCarts, h) = IF h = g THEN 1 ELSE 0
        BY <2>1, <2>2, <2>4 DEF Counts
      <3> QED
        BY <1>4, <3>1, <3>2, <3>3
    <2> QED
      BY <1>1, <1>2, <1>4, <1>5, <2>5, <2>6, <2>7 DEF CartInv, CartTypeOK, OneItemEach
  <1> QED
    BY <1>6, <1>7

\* What the CartInv says of the rows.
LEMMA CartFacts ==
    ASSUME CartInv
    PROVE  /\ items \in Seq(CartItem) /\ Len(items) <= MaxItems /\ MaxItems \in Nat
           /\ wanted \in [Goods -> Int] /\ entangled \in BOOLEAN
           /\ ~entangled => OneItemEach(items)
           /\ ~entangled => \A g \in Goods : Units(BothCarts, g) = wanted[g]
           /\ MergesSound
  BY GoodsAssumption DEF CartInv, CartTypeOK, UnitsKept, OneItemEach

\* An item gets another quantity, or none.
LEMMA ChangeKeeps ==
    ASSUME CartInv, NEW i \in Numbers, NEW quantity \in Int, ChangeItem("guest", i, quantity) \/
                                                             ChangeItem("own", i, quantity),
           quantity >= 0
    PROVE  CartInv'
  <1> DEFINE g == items[i].good
             n == Min({quantity, InStock[g]})
             row == IF n = 0 THEN [items[i] EXCEPT !.cart = "no"] ELSE [items[i] EXCEPT !.quantity = n]
  <1>1. /\ i \in In("guest", items) \cup In("own", items)
        /\ items' = IF n = 0 THEN [items EXCEPT ![i].cart = "no"] ELSE [items EXCEPT ![i].quantity = n]
        /\ wanted' = [wanted EXCEPT ![g] = (@ + n) - items[i].quantity]
        /\ UNCHANGED <<merging, entangled>>
    BY DEF ChangeItem
  <1>2. i \in DOMAIN items /\ items[i].cart \in BothCarts
    BY <1>1 DEF In, BothCarts
  <1>3. items[i] \in CartItem /\ g \in Goods /\ items[i].quantity \in Nat
    BY <1>2, CartFacts, RowsNumbered
  <1>4. n \in Nat
    <2>1. InStock[g] \in Nat
      BY <1>3, StockTyped
    <2> DEFINE b == InStock[g]
    <2> HIDE DEF b, g
    <2>2. \E x \in {quantity, b} : \A y \in {quantity, b} : x =< y
      <3>1. CASE quantity <= b
        BY <2>1, <3>1 DEF b
      <3>2. CASE ~(quantity <= b)
        BY <2>1, <3>2 DEF b
      <3> QED
        BY <3>1, <3>2
    <2>3. n \in {quantity, b}
      BY <2>2 DEF Min, b
    <2> QED
      BY <2>1, <2>3 DEF b
  <1>5. items' = [items EXCEPT ![i] = row]
    BY <1>1
  <1> HIDE DEF n
  <1>6. /\ row \in CartItem /\ row.good = g
        /\ n = 0 => row.cart = "no" /\ row.quantity = items[i].quantity
        /\ n # 0 => row.cart = items[i].cart /\ row.quantity = n
    BY <1>3, <1>4 DEF CartItem
  <1>7. row.cart \in {items[i].cart, "no"}
    BY <1>6
  <1>8. \A h \in Goods : /\ wanted[h] \in Int
                         /\ h # g => wanted'[h] = wanted[h]
    BY <1>1, <1>3, CartFacts
  <1>9. wanted'[g] = (wanted[g] + n) - items[i].quantity
    BY <1>1, <1>3, CartFacts
  <1>10. wanted' \in [Goods -> Int]
    <2> DEFINE w == (wanted[g] + n) - items[i].quantity
    <2>1. w \in Int
      BY <1>3, <1>4, <1>8
    <2>2. wanted' = [wanted EXCEPT ![g] = w]
      BY <1>1
    <2> HIDE DEF w
    <2> QED
      BY <2>1, <2>2, CartFacts
  <1> HIDE DEF row
  <1>11. /\ items' \in Seq(CartItem) /\ Len(items') = Len(items) /\ DOMAIN items' = DOMAIN items
         /\ \A k \in DOMAIN items : items'[k] = IF k = i THEN row ELSE items[k]
    BY <1>2, <1>5, <1>6, CartFacts, RowChanged
  <1>12. ~entangled' => OneItemEach(items')
    <2>1. \A k \in DOMAIN items : items'[k].cart \in {items[k].cart, "no"} /\ items'[k].good = items[k].good
      BY <1>6, <1>7, <1>11
    <2>2. \A c \in BothCarts : \A k \in In(c, items') : k \in In(c, items) /\ items'[k].good = items[k].good
      BY <1>11, <2>1 DEF In, BothCarts
    <2>3. ~entangled => OneItemEach(items)
      BY CartFacts
    <2> QED
      BY <1>1, <2>2, <2>3 DEF OneItemEach
  <1>13. UnitsKept'
    <2> SUFFICES ASSUME ~entangled, NEW h \in Goods PROVE Units(BothCarts, h)' = wanted'[h]
      BY <1>1 DEF UnitsKept
    <2>1. Units(BothCarts, h) = wanted[h]
      BY CartFacts
    <2>2. Units(BothCarts, h)' = Units(BothCarts, h)
               + (Counts(row, BothCarts, h) - Counts(items[i], BothCarts, h))
      <3>1. row \in CartItem /\ i \in DOMAIN items /\ items \in Seq(CartItem)
        BY <1>2, <1>6, CartFacts
      <3> QED
        BY <1>5, <3>1, UnitsChanged
    <2>3. CASE h # g
      <3>1. Counts(row, BothCarts, h) = 0 /\ Counts(items[i], BothCarts, h) = 0
        BY <1>6, <2>3 DEF Counts
      <3> QED
        BY <1>8, <2>1, <2>2, <2>3, <3>1
    <2>4. CASE h = g
      <3>1. Counts(items[i], BothCarts, h) = items[i].quantity
        BY <1>2, <2>4 DEF Counts
      <3>2. Counts(row, BothCarts, h) = n
        BY <1>2, <1>6, <2>4 DEF Counts, BothCarts
      <3> QED
        BY <1>3, <1>4, <1>8, <1>9, <2>1, <2>2, <2>4, <3>1, <3>2
    <2> QED
      BY <2>3, <2>4
  <1>14. MergesSound'
    BY <1>1, CartFacts DEF MergesSound, LookedUp, InPairs
  <1> QED
    BY <1>1, <1>10, <1>11, <1>12, <1>13, <1>14, CartFacts DEF CartInv, CartTypeOK, OneItemEach

\* The customer's cart is ordered.
LEMMA OrderKeeps ==
    ASSUME CartInv, OrderCart
    PROVE  CartInv'
  <1> DEFINE S == DOMAIN items
             row(i) == [items[i] EXCEPT !.cart = IF @ = "own" THEN "no" ELSE @]
  <1>1. /\ items' = [i \in S |-> row(i)]
        /\ wanted' = [g \in Goods |-> wanted[g] - Units({"own"}, g)]
        /\ UNCHANGED <<merging, entangled>>
    BY DEF OrderCart
  <1>2. /\ items \in Seq(CartItem) /\ Len(items) \in Nat /\ S = 1..Len(items) /\ IsFiniteSet(S)
        /\ \A i \in S : items[i] \in CartItem
    BY CartFacts, RowsNumbered
  <1>3. \A i \in S : /\ row(i) \in CartItem /\ row(i).good = items[i].good
                     /\ row(i).quantity = items[i].quantity
                     /\ row(i).cart = IF items[i].cart = "own" THEN "no" ELSE items[i].cart
    BY <1>2 DEF CartItem
  <1> HIDE DEF row
  <1>4. /\ items' \in Seq(CartItem) /\ Len(items') = Len(items)
        /\ \A i \in S : items'[i] = row(i)
    <2>1. items' \in [1..Len(items) -> CartItem]
      BY <1>1, <1>2, <1>3
    <2> QED
      BY <1>1, <1>2, <2>1, RowsAgain
  <1>5. DOMAIN items' = S
    BY <1>1
  <1>6. ASSUME NEW g \in Goods
        PROVE  /\ Units({"own"}, g) \in Int
               /\ Units(BothCarts, g) = Units(BothCarts, g)' + Units({"own"}, g)
    <2> DEFINE f == [i \in S |-> Counts(items[i], BothCarts, g)]
               h == [i \in S |-> Counts(items'[i], BothCarts, g)]
               o == [i \in S |-> Counts(items[i], {"own"}, g)]
    <2>1. Units(BothCarts, g) = SumFunction(f) /\ Units({"own"}, g) = SumFunction(o)
      BY <1>2, UnitsUnfold
    <2>2. Units(BothCarts, g)' = SumFunction(h)
      BY <1>5 DEF Units, Counts
    <2>3. \A i \in S : items[i].quantity \in Nat /\ items[i].cart \in {"guest", "own", "no"}
      BY <1>2, RowsNumbered
    <2>4. \A i \in S : h[i] \in Int /\ o[i] \in Int /\ f[i] = h[i] + o[i]
      <3> SUFFICES ASSUME NEW i \in S PROVE h[i] \in Int /\ o[i] \in Int /\ f[i] = h[i] + o[i]
        OBVIOUS
      <3>1. /\ items'[i].good = items[i].good /\ items'[i].quantity = items[i].quantity
            /\ items'[i].cart = IF items[i].cart = "own" THEN "no" ELSE items[i].cart
        BY <1>3, <1>4
      <3>2. items[i].quantity \in Nat /\ items[i].cart \in {"guest", "own", "no"}
        BY <2>3
      <3> QED
        BY <3>1, <3>2 DEF Counts, BothCarts
    <2>5. DOMAIN f = S /\ DOMAIN h = S /\ DOMAIN o = S
      OBVIOUS
    <2> HIDE DEF f, h, o
    <2>6. SumFunction(f) = SumFunction(h) + SumFunction(o) /\ SumFunction(o) \in Int
      <3> DEFINE T == S
      <3>1. IsFiniteSet(T) /\ DOMAIN f = T /\ DOMAIN h = T /\ DOMAIN o = T
        BY <1>2, <2>5
      <3>2. \A i \in T : h[i] \in Int /\ o[i] \in Int /\ f[i] = h[i] + o[i]
        BY <2>4
      <3> HIDE DEF T
      <3> QED
        BY ONLY <3>1, <3>2, SumSplit
    <2> QED
      BY <2>1, <2>2, <2>6
  <1>7. wanted' \in [Goods -> Int]
    BY <1>1, <1>6, CartFacts
  <1>8. ~entangled' => OneItemEach(items')
    <2>1. \A c \in BothCarts : \A k \in In(c, items') : k \in In(c, items) /\ items'[k].good = items[k].good
      BY <1>3, <1>4, <1>5 DEF In, BothCarts
    <2> QED
      BY <1>1, <2>1, CartFacts DEF OneItemEach
  <1>9. UnitsKept'
    <2> SUFFICES ASSUME ~entangled, NEW g \in Goods PROVE Units(BothCarts, g)' = wanted'[g]
      BY <1>1 DEF UnitsKept
    <2>1. Units(BothCarts, g) = wanted[g] /\ wanted[g] \in Int
      BY CartFacts
    <2>2. wanted'[g] = wanted[g] - Units({"own"}, g)
      BY <1>1
    <2>3. Units(BothCarts, g)' \in Int
      <3>1. \A c, k : items' \in Seq(CartItem) => Units(c, k)' \in Int
        <4> SUFFICES ASSUME NEW c, NEW k PROVE Units(c, k)' \in Int
          BY <1>4
        <4> DEFINE h == [i \in S |-> Counts(items'[i], c, k)]
        <4>1. Units(c, k)' = SumFunction(h) /\ SumFunction(h) = SumFunctionOnSet(h, S)
          BY <1>5 DEF Units, Counts, SumFunction
        <4>2. \A i \in S : items'[i].quantity \in Nat
          BY <1>4, <1>5, RowsNumbered
        <4>3. \A i \in S : h[i] \in Int
          BY <4>2 DEF Counts
        <4> HIDE DEF h
        <4> QED
          BY <1>2, <4>1, <4>3, SumType
      <3> QED
        BY <1>4, <3>1
    <2> QED
      BY <1>6, <2>1, <2>2, <2>3
  <1>10. MergesSound'
    BY <1>1, CartFacts DEF MergesSound, LookedUp, InPairs
  <1> QED
    BY <1>1, <1>4, <1>7, <1>8, <1>9, <1>10, CartFacts DEF CartInv, CartTypeOK, OneItemEach

\* A merge lists the guest's items.
LEMMA ListKeeps ==
    ASSUME CartInv, NEW r \in SignIns, ListGuestItems(r)
    PROVE  CartInv'
  <1> DEFINE m == [at |-> "listed", saw |-> items]
  <1>1. merging' = [merging EXCEPT ![r] = m] /\ UNCHANGED <<items, wanted, entangled>>
    BY DEF ListGuestItems
  <1>2. m.at = "listed" /\ m.saw = items
    OBVIOUS
  <1> HIDE DEF m
  <1>3. DOMAIN merging' = SignIns /\ \A q \in SignIns : merging'[q] = IF q = r THEN m ELSE merging[q]
    BY <1>1, CartFacts DEF MergesSound
  <1>4. MergesSound'
    <2>1. \A q \in SignIns : merging'[q] # Waiting =>
             /\ merging'[q].at \in {"listed", "found"}
             /\ merging'[q].saw \in Seq(CartItem)
             /\ merging'[q].at = "found" => LookedUp(merging'[q])
             /\ merging'[q].at = "found" /\ ~entangled => InPairs(merging'[q])
      BY <1>2, <1>3, CartFacts DEF MergesSound
    <2> QED
      BY <1>1, <1>3, <2>1 DEF MergesSound, LookedUp, InPairs
  <1>5. CartTypeOK' /\ UnitsKept'
    <2>1. \A g \in Goods : Units(BothCarts, g)' = Units(BothCarts, g)
      BY <1>1 DEF Units
    <2> QED
      BY <1>1, <2>1 DEF CartInv, CartTypeOK, UnitsKept
  <1> QED
    BY <1>4, <1>5 DEF CartInv

\* A merge looks up the customer's items.
LEMMA LookUpKeeps ==
    ASSUME CartInv, NEW r \in SignIns, LookUpOwnItems(r)
    PROVE  CartInv'
  <1> DEFINE saw == merging[r].saw
             pair == [i \in In("guest", saw) |-> Found("own", saw[i].good)]
             held == [j \in In("own", items) |-> items[j].quantity]
             m == [at |-> "found", saw |-> saw, pair |-> pair, held |-> held]
  <1>1. /\ merging[r] # Waiting /\ merging[r].at = "listed"
        /\ merging' = [merging EXCEPT ![r] = m]
        /\ entangled' = (entangled \/ items # saw)
        /\ UNCHANGED <<items, wanted>>
    BY CartFacts DEF LookUpOwnItems, MergesSound
  <1>2. m.at = "found" /\ m.saw = saw /\ m.pair = pair /\ m.held = held
    OBVIOUS
  <1>3. saw \in Seq(CartItem)
    BY <1>1, CartFacts DEF MergesSound
  <1>4. DOMAIN pair = In("guest", saw) /\ DOMAIN held = In("own", items)
    OBVIOUS
  <1>5. \A i \in In("guest", saw) :
           /\ pair[i] = Nowhere => \A j \in In("own", items) : items[j].good # saw[i].good
           /\ pair[i] # Nowhere => pair[i] \in In("own", items) /\ items[pair[i]].good = saw[i].good
    BY CartFacts, FoundFacts
  <1>6. \A j \in In("own", items) : j \in Nat \ {0} /\ held[j] = items[j].quantity /\ held[j] \in Nat
    BY CartFacts, RowsNumbered DEF In
  <1> HIDE DEF m, pair, held, saw
  <1>7. LookedUp(m)
    BY <1>2, <1>4, <1>5, <1>6 DEF LookedUp
  <1>8. ~entangled' => InPairs(m)
    <2> SUFFICES ASSUME items = saw PROVE InPairs(m)
      BY <1>1
    <2>1. \A i \in DOMAIN pair : pair[i] = Nowhere => \A j \in In("own", saw) : saw[j].good # saw[i].good
      BY <1>4, <1>5
    <2>2. \A i \in DOMAIN pair : pair[i] # Nowhere =>
             pair[i] \in In("own", saw) /\ saw[pair[i]].good = saw[i].good
      BY <1>4, <1>5
    <2>3. \A j \in DOMAIN held : j \in In("own", saw) => held[j] = saw[j].quantity
      BY <1>6
    <2> QED
      BY <1>2, <2>1, <2>2, <2>3 DEF InPairs
  <1>9. DOMAIN merging' = SignIns /\ \A q \in SignIns : merging'[q] = IF q = r THEN m ELSE merging[q]
    BY <1>1, CartFacts DEF MergesSound
  <1>10. ~entangled' => ~entangled
    BY <1>1
  <1>11. MergesSound'
    <2>1. \A q \in SignIns : merging'[q] # Waiting =>
             /\ merging'[q].at \in {"listed", "found"}
             /\ merging'[q].saw \in Seq(CartItem)
             /\ merging'[q].at = "found" => LookedUp(merging'[q])
             /\ merging'[q].at = "found" /\ ~entangled' => InPairs(merging'[q])
      BY <1>2, <1>3, <1>7, <1>8, <1>9, <1>10, CartFacts DEF MergesSound
    <2> QED
      BY <1>9, <2>1 DEF MergesSound, LookedUp, InPairs
  <1>12. CartTypeOK' /\ UnitsKept'
    <2>1. \A g \in Goods : Units(BothCarts, g)' = Units(BothCarts, g)
      BY <1>1 DEF Units
    <2>2. entangled' \in BOOLEAN
      BY <1>1, CartFacts
    <2>3. ~entangled' => OneItemEach(items')
      BY <1>1, <1>10, CartFacts
    <2> QED
      BY <1>1, <1>10, <2>1, <2>2, <2>3 DEF CartInv, CartTypeOK, UnitsKept, OneItemEach
  <1> QED
    BY <1>11, <1>12 DEF CartInv

-----------------------------------------------------------------------------
\* What a merge makes of a row.
MergedRow(m, i) ==
    LET row == Merged(m)[i]
    IN  [row EXCEPT !.cart = IF @ = "guest" THEN "no" ELSE @]

LEMMA MergeTypes ==
    ASSUME items \in Seq(CartItem), NEW m, m.saw \in Seq(CartItem), LookedUp(m)
    PROVE  /\ WithoutGuest(Merged(m)) \in Seq(CartItem)
           /\ Len(WithoutGuest(Merged(m))) = Len(items)
           /\ DOMAIN WithoutGuest(Merged(m)) = DOMAIN items
           /\ \A i \in DOMAIN items : Merged(m)[i] \in CartItem
           /\ \A i \in DOMAIN items : WithoutGuest(Merged(m))[i] = MergedRow(m, i)
  <1>1. ASSUME NEW i \in DOMAIN items PROVE Merged(m)[i] \in CartItem
    <2>1. items[i] \in CartItem /\ i # 0
      BY RowsNumbered
    <2>2. CASE i \in DOMAIN m.pair /\ m.pair[i] = Nowhere
      <3>1. Merged(m)[i] = [items[i] EXCEPT !.cart = "own"]
        BY <2>2 DEF Merged
      <3> QED
        BY <2>1, <3>1 DEF CartItem, BothCarts
    <2>3. CASE ~(i \in DOMAIN m.pair /\ m.pair[i] = Nowhere) /\ i \in Range(m.pair)
      <3> DEFINE c == CHOOSE g \in DOMAIN m.pair : m.pair[g] = i
                 n == MergedQuantity(m.held[i], m.saw[c].quantity)
      <3>1. \E g \in DOMAIN m.pair : m.pair[g] = i
        BY <2>3 DEF Range
      <3>2. c \in DOMAIN m.pair /\ m.pair[c] = i
        BY <3>1
      <3>3. m.saw[c].quantity \in Nat
        BY <3>2, RowsNumbered DEF LookedUp, In
      <3>4. m.held[i] \in Nat
        BY <2>1, <3>2 DEF LookedUp, Nowhere
      <3>5. n \in Nat
        BY <3>3, <3>4 DEF MergedQuantity
      <3>6. Merged(m)[i] = [items[i] EXCEPT !.quantity = n]
        BY <2>3 DEF Merged
      <3> HIDE DEF n
      <3> QED
        BY <2>1, <3>5, <3>6 DEF CartItem
    <2>4. CASE ~(i \in DOMAIN m.pair /\ m.pair[i] = Nowhere) /\ i \notin Range(m.pair)
      <3>1. Merged(m)[i] = items[i]
        BY <2>4 DEF Merged
      <3> QED
        BY <2>1, <3>1
    <2> QED
      BY <2>2, <2>3, <2>4
  <1>2. DOMAIN Merged(m) = DOMAIN items
    BY DEF Merged
  <1> DEFINE rows == WithoutGuest(Merged(m))
  <1>3. DOMAIN rows = DOMAIN items /\ \A i \in DOMAIN items : rows[i] = MergedRow(m, i)
    BY <1>2 DEF WithoutGuest, MergedRow
  <1>4. \A i \in DOMAIN items : MergedRow(m, i) \in CartItem
    <2> SUFFICES ASSUME NEW i \in DOMAIN items PROVE MergedRow(m, i) \in CartItem
      OBVIOUS
    <2> DEFINE row == Merged(m)[i]
    <2>1. row \in CartItem
      BY <1>1
    <2> HIDE DEF row
    <2>2. [row EXCEPT !.cart = IF @ = "guest" THEN "no" ELSE @] \in CartItem
      BY <2>1 DEF CartItem, BothCarts
    <2> QED
      BY <2>2 DEF row, MergedRow
  <1>5. rows = [i \in DOMAIN items |-> rows[i]]
    BY <1>2, <1>3 DEF WithoutGuest
  <1>6. Len(items) \in Nat /\ DOMAIN items = 1..Len(items)
    BY RowsNumbered
  <1> HIDE DEF rows
  <1>7. rows \in [1..Len(items) -> CartItem]
    BY <1>3, <1>4, <1>5, <1>6
  <1>8. rows \in Seq(CartItem) /\ Len(rows) = Len(items)
    BY <1>6, <1>7, RowsAgain
  <1> QED
    BY <1>1, <1>3, <1>8 DEF rows

\* A merge that was not disturbed: which rows change, and how.
LEMMA MergeOfRows ==
    ASSUME items \in Seq(CartItem), OneItemEach(items), NEW m, m.saw = items, LookedUp(m), InPairs(m)
    PROVE  \A i \in DOMAIN items :
              /\ MergedRow(m, i).good = items[i].good
              /\ i \in In("guest", items) /\ m.pair[i] = Nowhere =>
                    MergedRow(m, i).cart = "own" /\ MergedRow(m, i).quantity = items[i].quantity
              /\ i \in In("guest", items) /\ m.pair[i] # Nowhere => MergedRow(m, i).cart = "no"
              /\ i \in In("own", items) => MergedRow(m, i).cart = "own"
              /\ i \in In("own", items) =>
                    \A k \in DOMAIN m.pair : m.pair[k] = i =>
                        MergedRow(m, i).quantity = items[i].quantity + items[k].quantity
              /\ i \in In("own", items) /\ i \notin Range(m.pair) =>
                    MergedRow(m, i).quantity = items[i].quantity
              /\ items[i].cart = "no" => MergedRow(m, i).cart = "no"
  <1> SUFFICES ASSUME NEW i \in DOMAIN items
               PROVE
              /\ MergedRow(m, i).good = items[i].good
              /\ i \in In("guest", items) /\ m.pair[i] = Nowhere =>
                    MergedRow(m, i).cart = "own" /\ MergedRow(m, i).quantity = items[i].quantity
              /\ i \in In("guest", items) /\ m.pair[i] # Nowhere => MergedRow(m, i).cart = "no"
              /\ i \in In("own", items) => MergedRow(m, i).cart = "own"
              /\ i \in In("own", items) =>
                    \A k \in DOMAIN m.pair : m.pair[k] = i =>
                        MergedRow(m, i).quantity = items[i].quantity + items[k].quantity
              /\ i \in In("own", items) /\ i \notin Range(m.pair) =>
                    MergedRow(m, i).quantity = items[i].quantity
              /\ items[i].cart = "no" => MergedRow(m, i).cart = "no"
    OBVIOUS
  <1>1. items[i] \in CartItem /\ Merged(m)[i] \in CartItem /\ i # 0
    BY RowsNumbered, MergeTypes
  <1>2. DOMAIN m.pair = In("guest", items)
    BY DEF LookedUp
  <1>3. \A k \in DOMAIN m.pair : m.pair[k] # Nowhere =>
           m.pair[k] \in In("own", items) /\ items[m.pair[k]].good = items[k].good
    BY DEF InPairs
  <1>4. i \in Range(m.pair) => i \in In("own", items)
    BY <1>1, <1>3 DEF Range, Nowhere
  <1>5. LET row == Merged(m)[i]
        IN  /\ MergedRow(m, i).good = row.good /\ MergedRow(m, i).quantity = row.quantity
            /\ MergedRow(m, i).cart = IF row.cart = "guest" THEN "no" ELSE row.cart
    <2> DEFINE row == Merged(m)[i]
    <2>1. row \in CartItem
      BY <1>1
    <2> HIDE DEF row
    <2> DEFINE new == [row EXCEPT !.cart = IF @ = "guest" THEN "no" ELSE @]
    <2>2. /\ new.good = row.good /\ new.quantity = row.quantity
          /\ new.cart = IF row.cart = "guest" THEN "no" ELSE row.cart
      BY <2>1 DEF CartItem
    <2>3. MergedRow(m, i) = new
      BY DEF MergedRow, row
    <2> HIDE DEF new
    <2> QED
      BY <2>2, <2>3 DEF row
  <1>6. i \in In("guest", items) => items[i].cart = "guest"
    BY DEF In
  <1>7. i \in In("own", items) => items[i].cart = "own"
    BY DEF In
  <1>8. items[i].cart = "guest" => i \in In("guest", items)
    BY DEF In
  <1>9. CASE i \in DOMAIN m.pair /\ m.pair[i] = Nowhere
    <2>1. Merged(m)[i] = [items[i] EXCEPT !.cart = "own"]
      BY <1>9 DEF Merged
    <2> DEFINE row == [items[i] EXCEPT !.cart = "own"]
    <2>2. row.good = items[i].good /\ row.quantity = items[i].quantity /\ row.cart = "own"
      BY <1>1 DEF CartItem
    <2>3. items[i].cart = "guest"
      BY <1>2, <1>6, <1>9
    <2>4. i \notin In("own", items)
      BY <1>7, <2>3
    <2> HIDE DEF row
    <2> QED
      BY <1>5, <1>9, <2>1, <2>2, <2>3, <2>4 DEF row
  <1>10. CASE ~(i \in DOMAIN m.pair /\ m.pair[i] = Nowhere) /\ i \in Range(m.pair)
    <2> DEFINE c == CHOOSE g \in DOMAIN m.pair : m.pair[g] = i
               n == MergedQuantity(m.held[i], m.saw[c].quantity)
    <2>1. c \in DOMAIN m.pair /\ m.pair[c] = i
      BY <1>10 DEF Range
    <2>2. i \in In("own", items) /\ items[i].cart = "own"
      BY <1>4, <1>7, <1>10
    <2>3. ASSUME NEW k \in DOMAIN m.pair, m.pair[k] = i PROVE k = c
      <3>1. items[k].good = items[i].good /\ items[c].good = items[i].good
        BY <1>1, <1>3, <2>1, <2>3 DEF Nowhere
      <3>2. k \in In("guest", items) /\ c \in In("guest", items)
        BY <1>2, <2>1
      <3> HIDE DEF c
      <3> QED
        BY <3>1, <3>2 DEF OneItemEach, BothCarts
    <2>4. m.held[i] = items[i].quantity
      <3>1. i \in DOMAIN m.held
        BY <1>1, <2>1 DEF LookedUp, Nowhere
      <3> QED
        BY <2>2, <3>1 DEF InPairs
    <2>5. n = items[i].quantity + items[c].quantity
      BY <2>4 DEF MergedQuantity
    <2>6. Merged(m)[i] = [items[i] EXCEPT !.quantity = n]
      BY <1>10 DEF Merged
    <2> HIDE DEF n, c
    <2> DEFINE row == [items[i] EXCEPT !.quantity = n]
    <2>7. row.good = items[i].good /\ row.quantity = n /\ row.cart = "own"
      BY <1>1, <2>2 DEF CartItem
    <2>8. i \notin In("guest", items)
      BY <1>6, <2>2
    <2>9. Merged(m)[i] = row
      BY <2>6
    <2> HIDE DEF row
    <2>10. \A k \in DOMAIN m.pair : m.pair[k] = i =>
              MergedRow(m, i).quantity = items[i].quantity + items[k].quantity
      BY <1>5, <2>3, <2>5, <2>7, <2>9
    <2> QED
      BY <1>5, <1>10, <2>2, <2>7, <2>8, <2>9, <2>10
  <1>11. CASE ~(i \in DOMAIN m.pair /\ m.pair[i] = Nowhere) /\ i \notin Range(m.pair)
    <2>1. Merged(m)[i] = items[i]
      BY <1>11 DEF Merged
    <2>2. \A k \in DOMAIN m.pair : m.pair[k] # i
      BY <1>11 DEF Range
    <2>3. i \in In("guest", items) => m.pair[i] # Nowhere
      BY <1>2, <1>11
    <2> QED
      BY <1>5, <1>6, <1>7, <2>1, <2>2, <2>3
  <1> QED
    BY <1>9, <1>10, <1>11

\* A merge that was not disturbed keeps the units of every good.
LEMMA MergeKeepsUnits ==
    ASSUME items \in Seq(CartItem), OneItemEach(items), NEW m, m.saw = items, LookedUp(m), InPairs(m),
           items' = WithoutGuest(Merged(m)), NEW g \in Goods
    PROVE  Units(BothCarts, g)' = Units(BothCarts, g)
  <1> DEFINE S == DOMAIN items
             f == [i \in S |-> Counts(items[i], BothCarts, g)]
             h == [i \in S |-> Counts(items'[i], BothCarts, g)]
  <1>1. /\ items' \in Seq(CartItem) /\ DOMAIN items' = S
        /\ \A i \in S : items'[i] = MergedRow(m, i)
    BY MergeTypes
  <1>2. IsFiniteSet(S) /\ \A i \in S : /\ items[i].quantity \in Nat /\ items'[i].quantity \in Nat
                                       /\ items[i].cart \in {"guest", "own", "no"}
    BY <1>1, RowsNumbered
  <1>3. Units(BothCarts, g) = SumFunction(f) /\ SumFunction(f) \in Int
    BY UnitsUnfold
  <1>4. Units(BothCarts, g)' = SumFunction(h)
    BY <1>1 DEF Units, Counts
  <1>5. /\ f \in [S -> Int] /\ h \in [S -> Int]
        /\ \A i \in S : f[i] \in Int /\ h[i] \in Int
    BY <1>2 DEF Counts
  <1>6. \A i \in S : items[i].cart \in BothCarts /\ items[i].good = g <=> f[i] = items[i].quantity
                     /\ items[i].cart \in BothCarts /\ items[i].good = g
    BY DEF Counts
  <1>7. DOMAIN m.pair = In("guest", items)
    BY DEF LookedUp
  <1>8. \A k \in DOMAIN m.pair : m.pair[k] # Nowhere =>
           m.pair[k] \in In("own", items) /\ items[m.pair[k]].good = items[k].good
    BY DEF InPairs
  <1>9. \A c \in BothCarts : \A i \in In(c, items) : i \in S /\ items[i].cart = c
    BY DEF In
  <1>10. \A i \in S : items[i].cart # "no" => i \in In("guest", items) \cup In("own", items)
    BY <1>2 DEF In
  <1>11. CASE \E k \in DOMAIN m.pair : items[k].good = g /\ m.pair[k] # Nowhere
    <2>1. PICK k \in DOMAIN m.pair : items[k].good = g /\ m.pair[k] # Nowhere
      BY <1>11
    <2> DEFINE j == m.pair[k]
    <2>2. /\ k \in In("guest", items) /\ j \in In("own", items) /\ items[j].good = g
          /\ k \in S /\ j \in S /\ items[k].cart = "guest" /\ items[j].cart = "own" /\ k # j
      BY <1>7, <1>8, <1>9, <2>1 DEF BothCarts
    <2>3. /\ items'[k].cart = "no"
          /\ items'[j].good = g /\ items'[j].cart = "own"
          /\ items'[j].quantity = items[j].quantity + items[k].quantity
      BY <1>1, <2>1, <2>2, MergeOfRows
    <2>4. f[k] = items[k].quantity /\ f[j] = items[j].quantity /\ h[k] = 0
          /\ h[j] = items[j].quantity + items[k].quantity
      BY <2>1, <2>2, <2>3 DEF Counts, BothCarts
    <2>5. ASSUME NEW i \in S, i # k, i # j PROVE h[i] = f[i]
      <3>1. items'[i].good = items[i].good
        BY <1>1, MergeOfRows
      <3>2. CASE items[i].good # g
        BY <3>1, <3>2 DEF Counts
      <3>3. CASE items[i].good = g
        <4>1. i \notin In("guest", items) /\ i \notin In("own", items)
          BY <2>1, <2>2, <2>5, <3>3 DEF OneItemEach, BothCarts
        <4>2. items[i].cart = "no"
          BY <1>10, <4>1
        <4>3. items'[i].cart = "no"
          BY <1>1, <4>2, MergeOfRows
        <4> QED
          BY <4>2, <4>3 DEF Counts, BothCarts
      <3> QED
        BY <3>2, <3>3
    <2> DEFINE mid == [f EXCEPT ![k] = 0]
    <2> HIDE DEF f, h, j
    <2>6. mid \in [S -> Int] /\ mid[k] = 0 /\ \A i \in S : i # k => mid[i] = f[i]
      BY <1>5, <2>2
    <2> HIDE DEF mid
    <2> DEFINE d == f[k]
    <2>7. d \in Int /\ -d \in Int /\ mid[k] = f[k] + (-d)
      BY <1>5, <2>2, <2>6
    <2>8. h[j] = mid[j] + d /\ \A i \in S : i # j => h[i] = mid[i]
      BY <2>2, <2>4, <2>5, <2>6
    <2> HIDE DEF d
    <2>9. SumFunction(mid) = SumFunction(f) + (-d)
      <3> DEFINE e == -d
      <3>1. e \in Int /\ mid[k] = f[k] + e
        BY <2>7
      <3> HIDE DEF e
      <3>2. SumFunction(mid) = SumFunction(f) + e
        <4>1. IsFiniteSet(S) /\ f \in [S -> Int] /\ mid \in [S -> Int] /\ k \in S
          BY <1>2, <1>5, <2>2, <2>6
        <4>2. \A i \in S : i # k => mid[i] = f[i]
          BY <2>6
        <4> QED
          BY ONLY <4>1, <4>2, <3>1, SumMoves
      <3> QED
        BY <3>2 DEF e
    <2>10. SumFunction(h) = SumFunction(mid) + d
      <3>1. IsFiniteSet(S) /\ h \in [S -> Int] /\ mid \in [S -> Int] /\ j \in S /\ d \in Int
        BY <1>2, <1>5, <2>2, <2>6, <2>7
      <3>2. h[j] = mid[j] + d /\ \A i \in S : i # j => h[i] = mid[i]
        BY <2>8
      <3> QED
        BY ONLY <3>1, <3>2, SumMoves
    <2> QED
      BY <1>3, <1>4, <2>7, <2>9, <2>10
  <1>12. CASE ~\E k \in DOMAIN m.pair : items[k].good = g /\ m.pair[k] # Nowhere
    <2>1. ASSUME NEW i \in S PROVE h[i] = f[i]
      <3>1. items'[i].good = items[i].good
        BY <1>1, MergeOfRows
      <3>2. CASE items[i].good # g
        BY <3>1, <3>2 DEF Counts
      <3>3. CASE items[i].good = g /\ i \in In("guest", items)
        <4>1. m.pair[i] = Nowhere
          BY <1>7, <1>12, <3>3
        <4>2. items'[i].cart = "own" /\ items'[i].quantity = items[i].quantity
          BY <1>1, <3>3, <4>1, MergeOfRows
        <4> QED
          BY <1>9, <3>1, <3>3, <4>2 DEF Counts, BothCarts
      <3>4. CASE items[i].good = g /\ i \in In("own", items)
        <4>1. i \notin Range(m.pair)
          <5> SUFFICES ASSUME NEW k \in DOMAIN m.pair, m.pair[k] = i PROVE FALSE
            BY DEF Range
          <5>1. i # Nowhere
            BY RowsNumbered DEF Nowhere
          <5>2. items[k].good = g
            BY <1>8, <3>4, <5>1
          <5> QED
            BY <1>12, <5>1, <5>2
        <4>2. items'[i].cart = "own" /\ items'[i].quantity = items[i].quantity
          BY <1>1, <3>4, <4>1, MergeOfRows
        <4> QED
          BY <1>9, <3>1, <3>4, <4>2 DEF Counts, BothCarts
      <3>5. CASE items[i].cart = "no"
        <4>1. items'[i].cart = "no"
          BY <1>1, <3>5, MergeOfRows
        <4> QED
          BY <3>5, <4>1 DEF Counts, BothCarts
      <3> QED
        BY <1>10, <3>2, <3>3, <3>4, <3>5
    <2>2. SumFunction(f) = SumFunctionOnSet(f, S) /\ SumFunction(h) = SumFunctionOnSet(h, S)
      BY DEF SumFunction
    <2> HIDE DEF f, h
    <2>3. SumFunctionOnSet(f, S) = SumFunctionOnSet(h, S)
      BY <1>2, <2>1, SumSame
    <2> QED
      BY <1>3, <1>4, <2>2, <2>3
  <1> QED
    BY <1>11, <1>12

\* A merge commits, or is rolled back.
LEMMA CommitMergeKeeps ==
    ASSUME CartInv, NEW r \in SignIns, CommitMerge(r)
    PROVE  CartInv'
  <1> DEFINE m == merging[r]
  <1>1. /\ m # Waiting /\ m.at = "found" /\ merging' = [merging EXCEPT ![r] = Waiting] /\ UNCHANGED wanted
        /\ \/ UNCHANGED <<items, entangled>>
           \/ items' = WithoutGuest(Merged(m)) /\ entangled' = (entangled \/ items # m.saw)
    BY DEF CommitMerge
  <1>2. /\ m.saw \in Seq(CartItem) /\ LookedUp(m)
        /\ ~entangled => InPairs(m)
    BY <1>1, CartFacts DEF MergesSound
  <1> HIDE DEF m
  <1>3. MergesSound'
    <2>1. DOMAIN merging' = SignIns /\ \A q \in SignIns : merging'[q] = IF q = r THEN Waiting ELSE merging[q]
      BY <1>1, CartFacts DEF MergesSound
    <2>2. ~entangled' => ~entangled
      BY <1>1
    <2>3. \A q \in SignIns : merging'[q] # Waiting =>
             /\ merging'[q].at \in {"listed", "found"}
             /\ merging'[q].saw \in Seq(CartItem)
             /\ merging'[q].at = "found" => LookedUp(merging'[q])
             /\ merging'[q].at = "found" /\ ~entangled' => InPairs(merging'[q])
      BY <2>1, <2>2, CartFacts DEF MergesSound
    <2> QED
      BY <2>1, <2>3 DEF MergesSound, LookedUp, InPairs
  <1>4. CASE UNCHANGED <<items, entangled>>
    <2>1. \A g \in Goods : Units(BothCarts, g)' = Units(BothCarts, g)
      BY <1>4 DEF Units
    <2>2. CartTypeOK' /\ UnitsKept'
      BY <1>1, <1>4, <2>1 DEF CartInv, CartTypeOK, UnitsKept
    <2> QED
      BY <1>3, <2>2 DEF CartInv
  <1>5. CASE items' = WithoutGuest(Merged(m)) /\ entangled' = (entangled \/ items # m.saw)
    <2>1. /\ items' \in Seq(CartItem) /\ Len(items') = Len(items) /\ DOMAIN items' = DOMAIN items
          /\ \A i \in DOMAIN items : items'[i] = MergedRow(m, i)
      BY <1>2, <1>5, CartFacts, MergeTypes
    <2>2. entangled' \in BOOLEAN
      BY <1>5, CartFacts
    <2>3. ASSUME ~entangled'
          PROVE  /\ ~entangled /\ m.saw = items /\ InPairs(m) /\ OneItemEach(items)
                 /\ items \in Seq(CartItem)
      BY <1>2, <1>5, <2>3, CartFacts
    <2>4. ASSUME ~entangled', NEW g \in Goods PROVE Units(BothCarts, g)' = wanted'[g]
      <3>1. Units(BothCarts, g)' = Units(BothCarts, g)
        BY <1>2, <1>5, <2>3, <2>4, MergeKeepsUnits
      <3>2. Units(BothCarts, g) = wanted[g]
        BY <2>3, <2>4, CartFacts
      <3> QED
        BY <1>1, <3>1, <3>2
    <2>5. ASSUME ~entangled' PROVE OneItemEach(items')
      <3>0. ~entangled /\ m.saw = items /\ InPairs(m) /\ OneItemEach(items) /\ items \in Seq(CartItem)
        BY <2>3, <2>5
      <3>1. \A i \in DOMAIN items :
              /\ items'[i].good = items[i].good
              /\ i \in In("guest", items) /\ m.pair[i] # Nowhere => items'[i].cart = "no"
              /\ items[i].cart = "no" => items'[i].cart = "no"
        BY <1>2, <2>1, <3>0, MergeOfRows
      <3>2. \A i \in In("guest", items) : m.pair[i] = Nowhere =>
               \A j \in In("own", items) : items[j].good # items[i].good
        BY <1>2, <3>0 DEF InPairs, LookedUp
      <3>3. \A i \in DOMAIN items : items'[i].cart # "guest"
        <4> SUFFICES ASSUME NEW i \in DOMAIN items PROVE items'[i].cart # "guest"
          OBVIOUS
        <4>1. Merged(m)[i] \in CartItem
          BY <1>2, <3>0, MergeTypes
        <4> DEFINE row == Merged(m)[i]
                   new == [row EXCEPT !.cart = IF @ = "guest" THEN "no" ELSE @]
        <4>2. row \in CartItem
          BY <4>1
        <4> HIDE DEF row
        <4>3. new.cart # "guest"
          BY <4>2 DEF CartItem
        <4> QED
          BY <2>1, <4>3 DEF MergedRow, row
      <3>4. \A i \in DOMAIN items : items[i].cart \in {"guest", "own", "no"}
        BY <3>0, RowsNumbered
      <3>5. \A i \in In("own", items') : /\ i \in In("own", items) \cup In("guest", items)
                                         /\ i \in In("guest", items) => m.pair[i] = Nowhere
                                         /\ items'[i].good = items[i].good
        BY <2>1, <3>1, <3>4 DEF In
      <3>6. In("guest", items') = {}
        BY <2>1, <3>3 DEF In
      <3> QED
        BY <3>0, <3>2, <3>5, <3>6 DEF OneItemEach, BothCarts
    <2>6. CartTypeOK' /\ UnitsKept'
      BY <1>1, <2>1, <2>2, <2>4, <2>5, CartFacts DEF CartTypeOK, UnitsKept, OneItemEach
    <2> QED
      BY <1>3, <2>6 DEF CartInv
  <1> QED
    BY <1>1, <1>4, <1>5

-----------------------------------------------------------------------------
\* The carts are empty in the beginning.
LEMMA CartsStart ==
    ASSUME GuestCartInit
    PROVE  CartInv
  <1>1. items = <<>> /\ items \in Seq(CartItem) /\ Len(items) = 0 /\ DOMAIN items = {}
    BY EmptySeq, RowsNumbered DEF GuestCartInit
  <1>2. \A g \in Goods : Units(BothCarts, g) = 0
    <2> SUFFICES ASSUME NEW g \in Goods PROVE Units(BothCarts, g) = 0
      OBVIOUS
    <2> DEFINE f == [i \in DOMAIN items |-> Counts(items[i], BothCarts, g)]
    <2>1. Units(BothCarts, g) = SumFunction(f)
      BY <1>1, UnitsUnfold
    <2>2. DOMAIN f = {} /\ IsFiniteSet({})
      BY <1>1, FS_EmptySet
    <2>3. \A y \in {} : f[y] = 0
      OBVIOUS
    <2> HIDE DEF f
    <2> QED
      BY <2>1, <2>2, <2>3, SumZero
  <1>3. CartTypeOK
    <2>1. \A cart : In(cart, items) = {}
      BY <1>1 DEF In
    <2>2. wanted \in [Goods -> Int]
      BY DEF GuestCartInit
    <2>4. entangled \in BOOLEAN
      BY DEF GuestCartInit
    <2>3. Len(items) <= MaxItems
      BY <1>1, GoodsAssumption
    <2> QED
      BY <1>1, <2>1, <2>2, <2>3, <2>4 DEF CartTypeOK
  <1>4. UnitsKept
    BY <1>2 DEF GuestCartInit, UnitsKept
  <1>5. MergesSound
    BY DEF GuestCartInit, MergesSound
  <1> QED
    BY <1>3, <1>4, <1>5 DEF CartInv

\* Every step keeps the invariant.
LEMMA CartsGoOn ==
    ASSUME CartInv, [GuestCartNext]_cartVars
    PROVE  CartInv'
  <1>1. CASE UNCHANGED cartVars
    <2>1. UNCHANGED <<items, merging, wanted, entangled>>
      BY <1>1 DEF cartVars
    <2>2. \A g \in Goods : Units(BothCarts, g)' = Units(BothCarts, g)
      BY <2>1 DEF Units
    <2>3. CartTypeOK' /\ UnitsKept'
      BY <2>1, <2>2 DEF CartInv, CartTypeOK, UnitsKept
    <2>4. MergesSound'
      BY <2>1 DEF CartInv, MergesSound, LookedUp, InPairs
    <2> QED
      BY <2>3, <2>4 DEF CartInv
  <1>2. CASE \E cart \in BothCarts, g \in Goods : AddToCart(cart, g)
    BY <1>2, AddKeeps
  <1>3. CASE \E cart \in BothCarts, i \in Numbers, n \in 0..Max(Range(InStock)) : ChangeItem(cart, i, n)
    <2>1. PICK cart \in BothCarts, i \in Numbers, n \in 0..Max(Range(InStock)) : ChangeItem(cart, i, n)
      BY <1>3
    <2>2. i \in In(cart, items)
      BY <2>1 DEF ChangeItem
    <2>3. Goods # {}
      BY <2>2, CartFacts, RowsNumbered DEF In
    <2> DEFINE T == Range(InStock)
    <2>4. T \subseteq Nat /\ T # {} /\ IsFiniteSet(T)
      <3>1. InStock \in [Goods -> Nat] /\ IsFiniteSet(Goods)
        BY GoodsAssumption
      <3>2. InStock \in Surjection(Goods, T)
        BY <3>1 DEF Surjection, Range
      <3>3. IsFiniteSet(T)
        BY <3>1, <3>2, FS_Surjection
      <3> QED
        BY <2>3, <3>1, <3>3 DEF Range
    <2>5. Max(T) \in Nat
      <3> HIDE DEF T
      <3>1. \E x \in T : \A y \in T : x >= y
        BY <2>4, GreatestMember
      <3>2. Max(T) \in T
        BY <3>1 DEF Max
      <3> QED
        BY <2>4, <3>2
    <2>6. n \in Int /\ n >= 0
      BY <2>5
    <2> QED
      BY <2>1, <2>6, ChangeKeeps DEF BothCarts
  <1>4. CASE OrderCart
    BY <1>4, OrderKeeps
  <1>5. CASE \E r \in SignIns : ListGuestItems(r) \/ LookUpOwnItems(r) \/ CommitMerge(r)
    BY <1>5, ListKeeps, LookUpKeeps, CommitMergeKeeps
  <1> QED
    BY <1>1, <1>2, <1>3, <1>4, <1>5 DEF GuestCartNext

\* No unit is lost or doubled when a guest's cart becomes a customer's, unless a
\* cart changed while the merge ran.
THEOREM CartsAreSound == GuestCartSpec => []CartSound
  <1>1. GuestCartInit => CartInv
    BY CartsStart
  <1>2. CartInv /\ [GuestCartNext]_cartVars => CartInv'
    BY CartsGoOn
  <1>3. CartInv => CartSound
    BY DEF CartInv, CartSound
  <1> QED
    BY <1>1, <1>2, <1>3, PTL DEF GuestCartSpec

-----------------------------------------------------------------------------
(* The rows of an import.  A fold over a sequence is defined over the      *)
(* subsets of its indices, the greatest index last.                        *)
RowRuns(before, seq, it) ==
    it = [s \in SUBSET DOMAIN seq |->
             IF s = {} THEN before ELSE RunRow(it[s \ {Max(s)}], seq[Max(s)])]

LEMMA FoldUnfold ==
    ASSUME NEW before, NEW seq
    PROVE  FoldLeft(RunRow, before, seq) = (CHOOSE it : RowRuns(before, seq, it))[DOMAIN seq]
  BY DEF FoldLeft, MapThenFoldSet, RowRuns

LEMMA RunsExists ==
    ASSUME NEW before, NEW seq, NEW n \in Nat, DOMAIN seq = 1..n
    PROVE  \E it : RowRuns(before, seq, it)
  <1> DEFINE S == 1..n
             Low(k) == {s \in SUBSET S : Cardinality(s) <= k}
             Runs0(k, it) == it = [s \in Low(k) |->
                 IF s = {} THEN before ELSE RunRow(it[s \ {Max(s)}], seq[Max(s)])]
             G == {k \in Nat : \E it : Runs0(k, it)}
  <1>0. IsFiniteSet(S) /\ Cardinality(S) \in Nat
    BY FS_Interval, FS_CardinalityType
  <1>1. \A s \in SUBSET S : IsFiniteSet(s) /\ Cardinality(s) \in Nat /\ Cardinality(s) <= Cardinality(S)
    BY <1>0, FS_Subset, FS_CardinalityType
  <1>2. ASSUME NEW s \in SUBSET S, s # {}
        PROVE  /\ s \ {Max(s)} \in SUBSET S
               /\ Cardinality(s \ {Max(s)}) = Cardinality(s) - 1
    <2>1. Max(s) \in s
      <3>1. IsFiniteSet(s) /\ s \subseteq Nat /\ s # {}
        BY <1>1, <1>2
      <3> QED
        BY <3>1, MaxIn
    <2> QED
      BY <1>1, <2>1, FS_RemoveElement
  <1> HIDE DEF S
  <1>3. 0 \in G
    <2> DEFINE it == [s \in Low(0) |-> before]
    <2>1. \A s \in Low(0) : s = {}
      BY <1>1, FS_EmptySet
    <2>2. Runs0(0, it)
      BY <2>1
    <2> QED
      BY <2>2
  <1>4. ASSUME NEW k \in Nat, k \in G PROVE k + 1 \in G
    <2>1. PICK it : Runs0(k, it)
      BY <1>4
    <2> DEFINE next == [s \in Low(k + 1) |->
                  IF s = {} THEN before ELSE RunRow(it[s \ {Max(s)}], seq[Max(s)])]
    <2>2. \A s \in Low(k) :
              it[s] = IF s = {} THEN before ELSE RunRow(it[s \ {Max(s)}], seq[Max(s)])
      BY <2>1
    <2>3. \A s \in Low(k) : s \in Low(k + 1)
      BY <1>1
    <2>4. ASSUME NEW s \in Low(k + 1), s # {} PROVE s \ {Max(s)} \in Low(k)
      <3>1. s \in SUBSET S /\ Cardinality(s) <= k + 1 /\ Cardinality(s) \in Nat
        BY <1>1
      <3>2. s \ {Max(s)} \in SUBSET S /\ Cardinality(s \ {Max(s)}) = Cardinality(s) - 1
        BY <1>2, <2>4, <3>1
      <3> QED
        BY <3>1, <3>2
    <2>5. \A s \in Low(k) : next[s] = it[s]
      BY <2>2, <2>3
    <2>6. \A s \in Low(k + 1) : next[s] =
              IF s = {} THEN before ELSE RunRow(next[s \ {Max(s)}], seq[Max(s)])
      BY <2>4, <2>5
    <2>7. next = [s \in Low(k + 1) |->
              IF s = {} THEN before ELSE RunRow(next[s \ {Max(s)}], seq[Max(s)])]
      BY <2>6
    <2> HIDE DEF next, Low
    <2>8. Runs0(k + 1, next)
      BY <2>7
    <2>9. \E i : Runs0(k + 1, i)
      BY <2>8
    <2> HIDE DEF Runs0
    <2> QED
      BY <2>9
  <1>5. Nat \subseteq G
    <2> HIDE DEF G
    <2> QED
      BY <1>3, <1>4, EveryNumber
  <1>6. Low(Cardinality(S)) = SUBSET S
    BY <1>1
  <1>7. PICK it : Runs0(Cardinality(S), it)
    BY <1>0, <1>5
  <1>8. RowRuns(before, seq, it)
    <2> HIDE DEF Low
    <2> QED
      BY <1>6, <1>7 DEF RowRuns, S
  <1> QED
    BY <1>8

\* The fold is where the rows, run one after the other, end.
LEMMA RowsRunInOrder ==
    ASSUME NEW before, NEW seq, NEW n \in Nat, DOMAIN seq = 1..n
    PROVE  \E r : /\ r[0] = before
                  /\ \A k \in Nat : k < n => r[k + 1] = RunRow(r[k], seq[k + 1])
                  /\ r[n] = FoldLeft(RunRow, before, seq)
  <1> DEFINE it == CHOOSE i : RowRuns(before, seq, i)
             r  == [k \in Nat |-> it[1..k]]
  <1>1. RowRuns(before, seq, it)
    BY RunsExists
  <1>2. FoldLeft(RunRow, before, seq) = it[1..n]
    BY FoldUnfold
  <1> HIDE DEF it
  <1>3. \A s \in SUBSET (1..n) :
            it[s] = IF s = {} THEN before ELSE RunRow(it[s \ {Max(s)}], seq[Max(s)])
    BY <1>1 DEF RowRuns
  <1>4. r[0] = before
    <2>1. 1..0 = {} /\ 1..0 \in SUBSET (1..n)
      OBVIOUS
    <2> QED
      BY <1>3, <2>1
  <1>5. ASSUME NEW k \in Nat, k < n PROVE r[k + 1] = RunRow(r[k], seq[k + 1])
    <2>1. /\ 1..(k + 1) \in SUBSET (1..n) /\ k + 1 \in 1..(k + 1) /\ 1..(k + 1) # {}
          /\ 1..(k + 1) \subseteq Nat /\ (1..(k + 1)) \ {k + 1} = 1..k
      BY <1>5
    <2>2. IsFiniteSet(1..(k + 1))
      BY FS_Interval
    <2>3. Max(1..(k + 1)) \in 1..(k + 1) /\ \A y \in 1..(k + 1) : Max(1..(k + 1)) >= y
      BY <2>1, <2>2, MaxIn
    <2>4. Max(1..(k + 1)) = k + 1
      BY <2>1, <2>3
    <2> QED
      BY <1>3, <2>1, <2>4
  <1>6. r[n] = FoldLeft(RunRow, before, seq)
    BY <1>2
  <1> HIDE DEF r
  <1> QED
    BY <1>4, <1>5, <1>6

Came    == {"created", "updated"}
Batches == [prices : PriceList, cache : PriceList, budget : Int, outcomes : Seq(Outcomes)]

\* What the cache knows is listed, and the budget is what the plan has left.
InStep(b) ==
    /\ Listed(b.cache) = Listed(b.prices)
    /\ b.budget = ProductLimit - Cardinality(Listed(b.prices)) /\ b.budget >= 0

LEMMA ListedIsFinite ==
    ASSUME NEW prices
    PROVE  IsFiniteSet(Listed(prices)) /\ Cardinality(Listed(prices)) \in Nat
<1>1. Listed(prices) \subseteq Skus
  BY DEF Listed
<1>2. IsFiniteSet(Listed(prices))
  BY <1>1, ImportAssumption, FS_Subset
<1>. QED
  BY <1>2, FS_CardinalityType

\* How one row leaves a batch: one outcome more, and no price changed but that
\* of its own product, if it came to pass.
RowDone(b, row, after) ==
    /\ after \in Batches
    /\ Len(after.outcomes) = Len(b.outcomes) + 1
    /\ \A i \in 1..Len(b.outcomes) : after.outcomes[i] = b.outcomes[i]
    /\ \A s \in Skus : \/ after.prices[s] = b.prices[s]
                       \/ s = row.sku /\ after.outcomes[Len(b.outcomes) + 1] \in Came
    /\ InStep(b) => InStep(after)

LEMMA OutcomeAdded ==
    ASSUME NEW q \in Seq(Outcomes), NEW o \in Outcomes
    PROVE  /\ Append(q, o) \in Seq(Outcomes) /\ Len(Append(q, o)) = Len(q) + 1
           /\ \A i \in 1..Len(q) : Append(q, o)[i] = q[i]
           /\ Append(q, o)[Len(q) + 1] = o
  OBVIOUS

LEMMA NothingButOutcome ==
    ASSUME NEW b \in Batches, NEW row \in FileRows, NEW o \in Outcomes,
           NEW cache \in PriceList, Listed(cache) = Listed(b.cache),
           NEW after, after = [b EXCEPT !.outcomes = Append(b.outcomes, o), !.cache = cache]
    PROVE  RowDone(b, row, after)
<1>1. /\ b.prices \in PriceList /\ b.budget \in Int /\ b.outcomes \in Seq(Outcomes)
      /\ b = [prices |-> b.prices, cache |-> b.cache, budget |-> b.budget, outcomes |-> b.outcomes]
  BY DEF Batches
<1>2. after = [prices |-> b.prices, cache |-> cache, budget |-> b.budget,
               outcomes |-> Append(b.outcomes, o)]
  BY <1>1
<1>3. after \in Batches
  BY <1>1, <1>2, OutcomeAdded DEF Batches
<1>4. /\ after.prices = b.prices /\ after.cache = cache /\ after.budget = b.budget
      /\ after.outcomes = Append(b.outcomes, o)
  BY <1>2
<1>5. InStep(b) => InStep(after)
  BY <1>4 DEF InStep
<1>. QED
  BY <1>1, <1>3, <1>4, <1>5, OutcomeAdded DEF RowDone

\* A product that came to pass: its price is one, in the cache and in the
\* catalogue, and the budget follows if it is new.
LEMMA ProductCame ==
    ASSUME NEW b \in Batches, NEW row \in FileRows, NEW o \in Came, NEW price \in Prices,
           NEW budget \in Int,
           InStep(b) => \/ b.cache[row.sku] # Missing /\ budget = b.budget
                        \/ /\ b.cache[row.sku] = Missing
                           /\ b.budget > 0 /\ budget = b.budget - 1,
           NEW after, after = [prices |-> [b.prices EXCEPT ![row.sku] = price],
                               cache |-> [b.cache EXCEPT ![row.sku] = price],
                               budget |-> budget, outcomes |-> Append(b.outcomes, o)]
    PROVE  RowDone(b, row, after)
<1>1. /\ b.prices \in PriceList /\ b.cache \in PriceList /\ b.budget \in Int
      /\ b.outcomes \in Seq(Outcomes) /\ row.sku \in Skus /\ o \in Outcomes /\ price # Missing
  BY ImportAssumption DEF Batches, FileRows, Came, Outcomes
<1>2. /\ after.prices = [b.prices EXCEPT ![row.sku] = price]
      /\ after.cache = [b.cache EXCEPT ![row.sku] = price]
      /\ after.budget = budget /\ after.outcomes = Append(b.outcomes, o)
  OBVIOUS
<1>3. /\ after.prices \in PriceList /\ after.cache \in PriceList
      /\ \A s \in Skus : s # row.sku => after.prices[s] = b.prices[s] /\ after.cache[s] = b.cache[s]
      /\ after.prices[row.sku] = price /\ after.cache[row.sku] = price
  BY <1>1, <1>2 DEF PriceList
<1>4. after \in Batches
  BY <1>1, <1>2, <1>3, OutcomeAdded DEF Batches
<1>5. ASSUME InStep(b) PROVE InStep(after)
  <2>1. /\ Listed(after.prices) = Listed(b.prices) \cup {row.sku}
        /\ Listed(after.cache) = Listed(b.cache) \cup {row.sku}
    BY <1>1, <1>3 DEF Listed
  <2>2. row.sku \in Listed(b.prices) <=> b.cache[row.sku] # Missing
    BY <1>1, <1>5 DEF InStep, Listed
  <2>3. IsFiniteSet(Listed(b.prices)) /\ Cardinality(Listed(b.prices)) \in Nat
    BY ListedIsFinite
  <2>4. ProductLimit \in Nat
    BY ImportAssumption
  <2>5. CASE b.cache[row.sku] # Missing
    <3>1. Listed(after.prices) = Listed(b.prices)
      BY <2>1, <2>2, <2>5
    <3>. QED
      BY <1>2, <1>5, <2>1, <2>5, <3>1 DEF InStep
  <2>6. CASE b.cache[row.sku] = Missing
    <3>1. Cardinality(Listed(after.prices)) = Cardinality(Listed(b.prices)) + 1
      BY <2>1, <2>2, <2>3, <2>6, FS_AddElement
    <3>2. Listed(after.cache) = Listed(after.prices)
      BY <1>5, <2>1 DEF InStep
    <3>3. b.budget > 0 /\ budget = b.budget - 1
          /\ b.budget = ProductLimit - Cardinality(Listed(b.prices))
      BY <1>5, <2>6 DEF InStep
    <3>. QED
      BY <1>1, <1>2, <2>3, <2>4, <3>1, <3>2, <3>3 DEF InStep
  <2>. QED
    BY <2>5, <2>6
<1>. QED
  BY <1>1, <1>2, <1>3, <1>4, <1>5, OutcomeAdded DEF RowDone

LEMMA SavedIs ==
    ASSUME NEW b \in Batches, NEW row, NEW price, NEW o
    PROVE  Saved(b, row, price, o) =
               [prices |-> [b.prices EXCEPT ![row.sku] = price],
                cache |-> [b.cache EXCEPT ![row.sku] = price],
                budget |-> b.budget, outcomes |-> Append(b.outcomes, o)]
<1> DEFINE q == Append(b.outcomes, o)
           c == [b.cache EXCEPT ![row.sku] = price]
           p == [b.prices EXCEPT ![row.sku] = price]
           b1 == [b EXCEPT !.outcomes = q]
           b2 == [b1 EXCEPT !.cache = c]
           b3 == [b2 EXCEPT !.prices = p]
<1>1. b = [prices |-> b.prices, cache |-> b.cache, budget |-> b.budget, outcomes |-> b.outcomes]
  BY DEF Batches
<1>2. Saved(b, row, price, o) = b3
  BY <1>1 DEF Saved
<1> HIDE DEF q, c, p
<1>3. b1 = [prices |-> b.prices, cache |-> b.cache, budget |-> b.budget, outcomes |-> q]
  BY <1>1
<1> HIDE DEF b1
<1>4. b2 = [prices |-> b.prices, cache |-> c, budget |-> b.budget, outcomes |-> q]
  BY <1>3
<1> HIDE DEF b2
<1>5. b3 = [prices |-> p, cache |-> c, budget |-> b.budget, outcomes |-> q]
  BY <1>4
<1>. QED
  BY <1>2, <1>5 DEF q, c, p

LEMMA RowStep ==
    ASSUME NEW b \in Batches, NEW row \in FileRows
    PROVE  RowDone(b, row, RunRow(b, row))
<1>1. /\ b.prices \in PriceList /\ b.cache \in PriceList /\ b.budget \in Int
      /\ b.outcomes \in Seq(Outcomes) /\ row.sku \in Skus /\ row.price \in Prices \cup {Unset}
      /\ b = [prices |-> b.prices, cache |-> b.cache, budget |-> b.budget, outcomes |-> b.outcomes]
  BY DEF Batches, FileRows
<1>2. b.cache[row.sku] \in Prices \cup {Missing} /\ Missing \notin Prices
  BY <1>1, ImportAssumption DEF PriceList
<1> DEFINE known == b.cache[row.sku] # Missing
           assigned == IF row.price = Unset THEN b.cache[row.sku] ELSE row.price
           Only(o) == [b EXCEPT !.outcomes = Append(@, o)]
<1>3. ASSUME NEW o \in Outcomes PROVE RowDone(b, row, Only(o))
  <2>1. Only(o) = [b EXCEPT !.outcomes = Append(b.outcomes, o), !.cache = b.cache]
    BY <1>1
  <2>. QED
    BY <1>1, <2>1, NothingButOutcome
<1>4. ASSUME NEW price, known => price \in Prices PROVE RowDone(b, row, Failed(b, row, price))
  <2> DEFINE cache == [b.cache EXCEPT ![row.sku] = IF @ = Missing THEN @ ELSE price]
  <2>1. cache \in PriceList /\ Listed(cache) = Listed(b.cache)
    BY <1>1, <1>2, <1>4 DEF PriceList, Listed
  <2>2. Failed(b, row, price) = [b EXCEPT !.outcomes = Append(b.outcomes, "failed"), !.cache = cache]
    BY <1>1 DEF Failed
  <2>3. "failed" \in Outcomes
    BY DEF Outcomes
  <2> HIDE DEF cache
  <2>. QED
    BY <2>1, <2>2, <2>3, NothingButOutcome
<1>5. ASSUME known PROVE assigned \in Prices
  BY <1>1, <1>2, <1>5
<1>6. ASSUME importJob.kind = "products", Valid(row, b.cache)
      PROVE  RowDone(b, row, ProductRow(b, row))
  <2> DEFINE clashes == ~known /\ b.prices[row.sku] # Missing
  <2>1. ~known => assigned \in Prices
    BY <1>1, <1>6 DEF Valid
  <2> HIDE DEF assigned
  <2>2. Saved(b, row, assigned, "updated") =
            [prices |-> [b.prices EXCEPT ![row.sku] = assigned],
             cache |-> [b.cache EXCEPT ![row.sku] = assigned],
             budget |-> b.budget, outcomes |-> Append(b.outcomes, "updated")]
    BY SavedIs
  <2>3. [Saved(b, row, assigned, "created") EXCEPT !.budget = BudgetLeft(b)] =
            [prices |-> [b.prices EXCEPT ![row.sku] = assigned],
             cache |-> [b.cache EXCEPT ![row.sku] = assigned],
             budget |-> b.budget - 1, outcomes |-> Append(b.outcomes, "created")]
    <3>1. Saved(b, row, assigned, "created") =
              [prices |-> [b.prices EXCEPT ![row.sku] = assigned],
               cache |-> [b.cache EXCEPT ![row.sku] = assigned],
               budget |-> b.budget, outcomes |-> Append(b.outcomes, "created")]
      BY SavedIs
    <3> DEFINE q == Append(b.outcomes, "created")
               c == [b.cache EXCEPT ![row.sku] = assigned]
               p == [b.prices EXCEPT ![row.sku] = assigned]
    <3> HIDE DEF q, c, p
    <3>2. Saved(b, row, assigned, "created") =
              [prices |-> p, cache |-> c, budget |-> b.budget, outcomes |-> q]
      BY <3>1 DEF q, c, p
    <3>3. [Saved(b, row, assigned, "created") EXCEPT !.budget = BudgetLeft(b)] =
              [prices |-> p, cache |-> c, budget |-> b.budget - 1, outcomes |-> q]
      BY <3>2 DEF BudgetLeft
    <3>. QED
      BY <3>3 DEF q, c, p
  <2>4. ProductRow(b, row) =
            IF ~known /\ b.budget <= 0 THEN Failed(b, row, Missing)
            ELSE IF ~row.sound \/ clashes THEN Failed(b, row, assigned)
            ELSE IF known THEN Saved(b, row, assigned, "updated")
            ELSE [Saved(b, row, assigned, "created") EXCEPT !.budget = BudgetLeft(b)]
    BY DEF ProductRow, assigned
  <2> HIDE DEF clashes
  <2>5. CASE ~known /\ b.budget <= 0
    BY <1>4, <2>4, <2>5
  <2>6. CASE ~(~known /\ b.budget <= 0) /\ (~row.sound \/ clashes)
    BY <1>4, <1>5, <2>4, <2>6
  <2>7. CASE ~(~known /\ b.budget <= 0) /\ ~(~row.sound \/ clashes) /\ known
    <3>1. ProductRow(b, row) = Saved(b, row, assigned, "updated") /\ "updated" \in Came
      BY <2>4, <2>7 DEF Came
    <3>. QED
      BY <1>1, <1>5, <2>2, <2>7, <3>1, ProductCame
  <2>8. CASE ~(~known /\ b.budget <= 0) /\ ~(~row.sound \/ clashes) /\ ~known
    <3>1. /\ "created" \in Came /\ b.budget - 1 \in Int /\ b.budget > 0
          /\ ProductRow(b, row) = [Saved(b, row, assigned, "created") EXCEPT !.budget = BudgetLeft(b)]
      BY <1>1, <2>4, <2>8 DEF Came
    <3>. QED
      BY <1>1, <2>1, <2>3, <2>8, <3>1, ProductCame
  <2>. QED
    BY <2>5, <2>6, <2>7, <2>8
<1>7. RunRow(b, row) =
          IF ~Valid(row, b.cache) THEN Only("invalid")
          ELSE IF importJob.kind = "products" THEN ProductRow(b, row)
          ELSE Only(IF row.sound THEN "updated" ELSE "failed")
  BY DEF RunRow, InventoryRow
<1>8. "invalid" \in Outcomes /\ (IF row.sound THEN "updated" ELSE "failed") \in Outcomes
  BY DEF Outcomes
<1> HIDE DEF Only
<1>. QED
  BY <1>3, <1>6, <1>7, <1>8

\* What some rows do to a batch.
BatchDone(b, seq, after) ==
    /\ after \in Batches
    /\ Len(after.outcomes) = Len(b.outcomes) + Len(seq)
    /\ \A i \in 1..Len(b.outcomes) : after.outcomes[i] = b.outcomes[i]
    /\ \A s \in Skus :
           \/ after.prices[s] = b.prices[s]
           \/ \E j \in 1..Len(seq) : /\ seq[j].sku = s
                                     /\ after.outcomes[Len(b.outcomes) + j] \in Came
    /\ InStep(b) => InStep(after)

LEMMA BatchRuns ==
    ASSUME NEW b \in Batches, NEW seq \in Seq(FileRows)
    PROVE  BatchDone(b, seq, FoldLeft(RunRow, b, seq))
<1> DEFINE n == Len(seq)
           m == Len(b.outcomes)
<1>1. n \in Nat /\ DOMAIN seq = 1..n /\ \A j \in 1..n : seq[j] \in FileRows
  OBVIOUS
<1>2. b.outcomes \in Seq(Outcomes) /\ m \in Nat
  BY DEF Batches
<1>3. PICK r : /\ r[0] = b
               /\ \A k \in Nat : k < n => r[k + 1] = RunRow(r[k], seq[k + 1])
               /\ r[n] = FoldLeft(RunRow, b, seq)
  BY <1>1, RowsRunInOrder
<1> HIDE DEF n, m
<1> DEFINE Good(k) ==
      /\ r[k] \in Batches
      /\ Len(r[k].outcomes) = m + k
      /\ \A i \in 1..m : r[k].outcomes[i] = b.outcomes[i]
      /\ \A s \in Skus : \/ r[k].prices[s] = b.prices[s]
                         \/ \E j \in 1..k : seq[j].sku = s /\ r[k].outcomes[m + j] \in Came
      /\ InStep(b) => InStep(r[k])
    G == {k \in Nat : k <= n => Good(k)}
<1>4. 0 \in G
  BY <1>2, <1>3 DEF m
<1>5. ASSUME NEW k \in Nat, k \in G PROVE k + 1 \in G
  <2>1. SUFFICES ASSUME k + 1 <= n PROVE Good(k + 1)
    OBVIOUS
  <2>2. k < n /\ Good(k) /\ k + 1 \in 1..n
    BY <1>1, <1>5, <2>1
  <2>3. r[k + 1] = RunRow(r[k], seq[k + 1])
    BY <1>3, <2>2
  <2>4. RowDone(r[k], seq[k + 1], r[k + 1])
    BY <1>1, <2>2, <2>3, RowStep
  <2>5. r[k] \in Batches /\ Len(r[k].outcomes) = m + k
    BY <2>2
  <2>6. /\ r[k + 1] \in Batches
        /\ Len(r[k + 1].outcomes) = m + k + 1
        /\ \A i \in 1..(m + k) : r[k + 1].outcomes[i] = r[k].outcomes[i]
        /\ \A s \in Skus : \/ r[k + 1].prices[s] = r[k].prices[s]
                           \/ s = seq[k + 1].sku /\ r[k + 1].outcomes[m + k + 1] \in Came
        /\ InStep(r[k]) => InStep(r[k + 1])
    BY <2>4, <2>5 DEF RowDone
  <2>7. \A i \in 1..m : r[k + 1].outcomes[i] = b.outcomes[i]
    BY <1>2, <2>2, <2>6
  <2>8. ASSUME NEW s \in Skus, r[k + 1].prices[s] # b.prices[s]
        PROVE  \E j \in 1..(k + 1) : seq[j].sku = s /\ r[k + 1].outcomes[m + j] \in Came
    <3>1. CASE r[k + 1].prices[s] = r[k].prices[s]
      <4>1. PICK j \in 1..k : seq[j].sku = s /\ r[k].outcomes[m + j] \in Came
        BY <2>2, <2>8, <3>1
      <4>2. m + j \in 1..(m + k) /\ j \in 1..(k + 1)
        BY <1>2
      <4>3. r[k + 1].outcomes[m + j] = r[k].outcomes[m + j]
        BY <2>6, <4>2
      <4>. QED
        BY <4>1, <4>2, <4>3
    <3>2. CASE r[k + 1].prices[s] # r[k].prices[s]
      <4>1. s = seq[k + 1].sku /\ r[k + 1].outcomes[m + k + 1] \in Came
        BY <2>6, <3>2
      <4>2. m + k + 1 = m + (k + 1) /\ k + 1 \in 1..(k + 1)
        BY <1>2
      <4>. QED
        BY <4>1, <4>2
    <3>. QED
      BY <3>1, <3>2
  <2>9. Len(r[k + 1].outcomes) = m + (k + 1)
    BY <1>2, <2>6
  <2>10. InStep(b) => InStep(r[k + 1])
    BY <2>2, <2>6
  <2> HIDE DEF G
  <2>. QED
    BY <2>6, <2>7, <2>8, <2>9, <2>10
<1>6. Good(n)
  <2> HIDE DEF Good
  <2>1. Nat \subseteq G
    <3> HIDE DEF G
    <3>. QED
      BY <1>4, <1>5, EveryNumber
  <2>. QED
    BY <1>1, <2>1
<1>7. r[n] = FoldLeft(RunRow, b, seq)
  BY <1>3
<1>. QED
  BY <1>6, <1>7 DEF BatchDone, n, m

LEMMA SmallerOfTwo ==
    ASSUME NEW a \in Nat, NEW b \in Nat
    PROVE  Min({a, b}) = IF a <= b THEN a ELSE b
<1> DEFINE x == IF a <= b THEN a ELSE b
<1>1. x \in {a, b} /\ \A y \in {a, b} : x =< y
  OBVIOUS
<1>2. \A z \in {a, b} : (\A y \in {a, b} : z =< y) => z = x
  OBVIOUS
<1> HIDE DEF x
<1>3. Min({a, b}) = x
  BY <1>1, <1>2 DEF Min
<1>. QED
  BY <1>3 DEF x

-----------------------------------------------------------------------------
(* The import.  While requests take turns one of them works on the rows,   *)
(* and the rows it has done are those applied.                             *)
JobIsThere == \A c \in Clerks : ~Idling(c) => importJob # Missing

RowsOfFile == \A c \in Clerks : Working(c) => Len(running[c].outcomes) <= Len(importJob.file)

Untouched ==
    importJob = Missing => \A s \in Skus : catalogue[s] \in {Missing, OpeningPrice}

OneAtWork ==
    ~disturbed => \A c \in Clerks : Working(c) =>
        /\ importJob.status = "processing"
        /\ \A d \in Clerks : Working(d) => c = d

Undone(i, outcomes) == ~(i <= Len(outcomes) /\ outcomes[i] \in Came)

RowsAreDone ==
    ~disturbed /\ ~interrupted /\ importJob # Missing =>
        /\ importJob.status \notin FINAL_STATUSES => importJob.rows = NoRows
        /\ importJob.status \in {"validating", "preview_ready"} =>
               \A i \in DOMAIN applications : applications[i] = 0
        /\ importJob.status = "processing" => \E c \in Clerks : Working(c)
        /\ \A c \in Clerks : Working(c) => \A i \in DOMAIN applications :
               applications[i] = IF Undone(i, running[c].outcomes) THEN 0 ELSE 1

PlanIsKept ==
    ~disturbed => \A c \in Clerks : Working(c) =>
        /\ consumed + Len(importJob.file) <= RowLimit
        /\ Listed(running[c].cache) = Listed(catalogue)
        /\ running[c].budget = ProductLimit - Cardinality(Listed(catalogue))

ImportsInv ==
    /\ ImportTypeOK /\ JobIsThere /\ RowsOfFile /\ Untouched /\ OneAtWork /\ RowsAreDone
    /\ PlanIsKept /\ RowsAppliedOnce /\ ReportTells /\ FailedLeavesNothing /\ WithinPlan

LEMMA JobFacts ==
    ASSUME ImportTypeOK, importJob # Missing
    PROVE  /\ importJob \in ImportJobs /\ importJob.file \in Seq(FileRows)
           /\ Len(importJob.file) \in Nat /\ DOMAIN importJob.file = 1..Len(importJob.file)
           /\ importJob.status \in JobStatuses /\ importJob.rows \in [Outcomes -> Nat]
           /\ applications \in [1..Len(importJob.file) -> Nat]
           /\ DOMAIN applications = 1..Len(importJob.file)
<1>1. importJob \in ImportJobs
  BY DEF ImportTypeOK
<1>2. importJob.file \in Seq(FileRows)
  BY <1>1, ImportAssumption DEF ImportJobs
<1>. QED
  BY <1>1, <1>2 DEF ImportJobs, ImportTypeOK

\* A request is one that asks, or one at the rows.
LEMMA RequestFacts ==
    ASSUME ImportTypeOK, NEW c \in Clerks
    PROVE  /\ running[c] \in {Resting, Answered} \cup Wishes \cup AtRows
           /\ Idling(c) <=> running[c] \in {Resting, Answered}
           /\ Working(c) <=> running[c] \in AtRows
           /\ ~Idling(c) /\ ~Working(c) <=> running[c] \in Wishes
           /\ running[c] \in AtRows => /\ running[c].outcomes \in Seq(Outcomes)
                                       /\ running[c].cache \in PriceList
                                       /\ running[c].budget \in Int
<1>1. running[c] \in {Resting, Answered} \cup Wishes \cup AtRows
  BY DEF ImportTypeOK
<1>2. /\ running[c] \in Wishes => running[c].at # "rows" /\ running[c] \notin {Resting, Answered}
      /\ running[c] \in AtRows => running[c].at = "rows" /\ running[c] \notin {Resting, Answered}
  BY ImportAssumption DEF Wishes, AtRows
<1>. QED
  BY <1>1, <1>2 DEF Idling, Working, AtRows

\* One request moves: what the others are at stays.
LEMMA OneMoves ==
    ASSUME ImportTypeOK, NEW c \in Clerks, NEW next,
           next \in {Answered} \cup Wishes \cup AtRows,
           running' = [running EXCEPT ![c] = next]
    PROVE  /\ running' \in [Clerks -> {Resting, Answered} \cup Wishes \cup AtRows]
           /\ running'[c] = next
           /\ \A d \in Clerks : d # c => /\ running'[d] = running[d]
                                         /\ (Working(d)' <=> Working(d)) /\ (Idling(d)' <=> Idling(d))
           /\ Working(c)' <=> next \in AtRows
           /\ Idling(c)' <=> next = Answered
<1>1. running \in [Clerks -> {Resting, Answered} \cup Wishes \cup AtRows]
  BY DEF ImportTypeOK
<1>2. /\ running' \in [Clerks -> {Resting, Answered} \cup Wishes \cup AtRows]
      /\ running'[c] = next
      /\ \A d \in Clerks : d # c => running'[d] = running[d]
  BY <1>1
<1>3. /\ next \in Wishes => next.at # "rows" /\ next \notin {Resting, Answered}
      /\ next \in AtRows => next.at = "rows" /\ next \notin {Resting, Answered}
  BY ImportAssumption DEF Wishes, AtRows
<1>4. Idling(c)' <=> next \in {Resting, Answered}
  BY <1>2 DEF Idling
<1>5. Working(c)' <=> next \in AtRows
  BY <1>2, <1>3, <1>4 DEF Working
<1>6. \A d \in Clerks : d # c => (Working(d)' <=> Working(d)) /\ (Idling(d)' <=> Idling(d))
  BY <1>2 DEF Working, Idling
<1>. QED
  BY <1>2, <1>3, <1>4, <1>5, <1>6

LEMMA ImportsStart ==
    ASSUME ImportsInit
    PROVE  ImportsInv
<1> USE DEF ImportsInit
<1>1. importJob = Missing /\ \A c \in Clerks : running[c] = Resting
  OBVIOUS
<1>2. \A c \in Clerks : Idling(c) /\ ~Working(c)
  BY <1>1 DEF Idling, Working
<1>3. RowLimit \in Nat /\ OpeningPrice \in Prices /\ consumed \in Nat /\ consumed <= RowLimit
  BY ImportAssumption
<1>4. ImportTypeOK
  BY <1>3 DEF ImportTypeOK, PriceList
<1>5. JobIsThere /\ RowsOfFile /\ Untouched /\ OneAtWork /\ RowsAreDone /\ PlanIsKept
  BY <1>1, <1>2 DEF JobIsThere, RowsOfFile, Untouched, OneAtWork, RowsAreDone, PlanIsKept
<1>6. RowsAppliedOnce /\ ReportTells /\ FailedLeavesNothing /\ WithinPlan
  BY <1>1, <1>3 DEF RowsAppliedOnce, ReportTells, FailedLeavesNothing, WithinPlan
<1>. QED
  BY <1>4, <1>5, <1>6 DEF ImportsInv

LEMMA UploadStep ==
    ASSUME ImportsInv, NEW kind \in Kinds, NEW mode \in Modes, NEW file \in Files,
           Upload(kind, mode, file)
    PROVE  ImportsInv'
<1> USE DEF ImportsInv
<1>1. PICK status \in {"validating", "preview_ready"} :
          importJob' = [kind |-> kind, mode |-> mode, file |-> file,
                        status |-> status, rows |-> NoRows]
  BY DEF Upload
<1>2. /\ importJob = Missing /\ applications' = [i \in DOMAIN file |-> 0]
      /\ UNCHANGED <<catalogue, running, consumed, disturbed, interrupted>>
  BY DEF Upload
<1>3. /\ importJob' \in ImportJobs /\ importJob' # Missing /\ importJob'.file = file
      /\ importJob'.status = status /\ importJob'.rows = NoRows
      /\ importJob'.status \notin FINAL_STATUSES /\ importJob'.status # "processing"
  BY <1>1, ImportAssumption DEF ImportJobs, JobStatuses, NoRows, FINAL_STATUSES
<1>4. \A c \in Clerks : Idling(c)' /\ ~Working(c)'
  BY <1>2 DEF JobIsThere, Idling, Working
<1>5. file \in Seq(FileRows)
  BY ImportAssumption
<1>6. /\ DOMAIN applications' = DOMAIN file
      /\ \A i \in DOMAIN applications' : applications'[i] = 0
      /\ applications' \in [DOMAIN file -> Nat]
  BY <1>2
<1>7. ImportTypeOK'
  BY <1>2, <1>3, <1>6 DEF ImportTypeOK
<1>8. JobIsThere' /\ RowsOfFile' /\ Untouched' /\ OneAtWork' /\ RowsAreDone' /\ PlanIsKept'
  BY <1>1, <1>3, <1>4, <1>6
     DEF JobIsThere, RowsOfFile, Untouched, OneAtWork, RowsAreDone, PlanIsKept
<1>9. FailedLeavesNothing'
  <2>1. \A s \in Skus : catalogue'[s] \in {Missing, OpeningPrice}
    BY <1>2 DEF Untouched
  <2>2. \A i \in DOMAIN applications' : importJob'.file[i].sku \in Skus
    <3>1. \A i \in DOMAIN file : file[i] \in FileRows
      BY <1>5
    <3>. QED
      BY <1>3, <1>6, <3>1 DEF FileRows
  <2>. QED
    BY <2>1, <2>2 DEF FailedLeavesNothing
<1>10. RowsAppliedOnce' /\ ReportTells' /\ WithinPlan'
  BY <1>2, <1>3, <1>6 DEF RowsAppliedOnce, ReportTells, WithinPlan, Listed
<1>. QED
  BY <1>7, <1>8, <1>9, <1>10

\* A request asks, or is refused: nothing but the request moves.
LEMMA RequestMoves ==
    ASSUME ImportsInv, NEW c \in Clerks, ~Working(c), importJob # Missing,
           UNCHANGED <<catalogue, importJob, applications, consumed, disturbed, interrupted>>,
           NEW next, next \in {Answered} \cup Wishes,
           running' = [running EXCEPT ![c] = next]
    PROVE  ImportsInv'
<1> USE DEF ImportsInv
<1>1. next \notin AtRows
  <2>1. \A x : x \in Wishes => x.at # "rows"
    BY DEF Wishes
  <2>2. \A x : x \in AtRows => x.at = "rows" /\ x # Answered
    BY ImportAssumption DEF AtRows
  <2>. QED
    BY <2>1, <2>2
<1>2. /\ running' \in [Clerks -> {Resting, Answered} \cup Wishes \cup AtRows]
      /\ \A d \in Clerks : d # c => running'[d] = running[d]
      /\ \A d \in Clerks : Working(d)' <=> Working(d)
  <2>1. /\ running' \in [Clerks -> {Resting, Answered} \cup Wishes \cup AtRows]
        /\ \A d \in Clerks : d # c => /\ running'[d] = running[d]
                                       /\ (Working(d)' <=> Working(d))
        /\ ~Working(c)'
    BY <1>1, OneMoves
  <2>. QED
    BY <2>1
<1>3. ImportTypeOK' /\ JobIsThere' /\ Untouched'
  BY <1>2 DEF ImportTypeOK, JobIsThere, Untouched
<1>4. RowsOfFile' /\ OneAtWork' /\ RowsAreDone' /\ PlanIsKept'
  BY <1>2 DEF RowsOfFile, OneAtWork, RowsAreDone, Undone, PlanIsKept, Listed
<1>5. RowsAppliedOnce' /\ ReportTells' /\ FailedLeavesNothing' /\ WithinPlan'
  BY DEF RowsAppliedOnce, ReportTells, FailedLeavesNothing, WithinPlan, Listed
<1>. QED
  BY <1>3, <1>4, <1>5

\* Nobody works on the rows of a job that a request found as it is, while
\* requests take turns and none broke off, unless it found it "processing".
LEMMA FoundAsItIs ==
    ASSUME ImportsInv, NEW c \in Clerks, running[c] \in Wishes, Unfinished(running[c].seen),
           disturbed' = (disturbed \/ Disturbs(c)), ~disturbed', ~interrupted
    PROVE  /\ importJob.status \notin FINAL_STATUSES /\ importJob.rows = NoRows
           /\ \A i \in DOMAIN applications : applications[i] = 0
           /\ \A d \in Clerks : ~Working(d)
<1> USE DEF ImportsInv
<1>1. ~disturbed /\ running[c].seen = importJob.status /\ \A d \in Clerks \ {c} : ~Working(d)
  BY DEF Disturbs
<1>2. ~Working(c) /\ importJob # Missing
  BY RequestFacts, ImportAssumption DEF JobIsThere
<1>3. importJob.status \notin FINAL_STATUSES
  BY <1>1 DEF Unfinished
<1>4. \A d \in Clerks : ~Working(d)
  BY <1>1, <1>2
<1>5. importJob.status \in {"validating", "preview_ready", "processing"}
  BY <1>2, <1>3, JobFacts DEF JobStatuses
<1>6. importJob.status # "processing"
  BY <1>1, <1>2, <1>4 DEF RowsAreDone
<1>. QED
  BY <1>1, <1>2, <1>3, <1>4, <1>5, <1>6 DEF RowsAreDone

LEMMA ExecuteStep ==
    ASSUME ImportsInv, NEW c \in Clerks, Execute(c)
    PROVE  ImportsInv'
<1> USE DEF ImportsInv
<1> DEFINE next == [at |-> "rows", cache |-> catalogue, outcomes |-> <<>>,
                    budget |-> ProductLimit - Cardinality(Listed(catalogue))]
<1>1. /\ running[c] \in Wishes /\ ~Working(c) /\ Unfinished(running[c].seen)
      /\ RowsFit(importJob.file)
      /\ importJob' = [importJob EXCEPT !.status = "processing"]
      /\ running' = [running EXCEPT ![c] = next]
      /\ disturbed' = (disturbed \/ Disturbs(c))
      /\ UNCHANGED <<catalogue, applications, consumed, interrupted>>
  <2>1. ~Idling(c) /\ running[c].at = "execute"
    BY DEF Execute, Submitted
  <2>2. ~Working(c)
    BY <2>1 DEF Working
  <2>. QED
    BY <2>1, <2>2, RequestFacts DEF Execute
<1>2. importJob # Missing
  BY <1>1, RequestFacts DEF JobIsThere
<1>3. /\ importJob' \in ImportJobs /\ importJob' # Missing /\ importJob'.file = importJob.file
      /\ importJob'.status = "processing" /\ importJob'.rows = importJob.rows
      /\ "processing" \notin FINAL_STATUSES
  <2>1. importJob \in ImportJobs
    BY <1>2, JobFacts
  <2>2. "processing" \in JobStatuses /\ "processing" \notin FINAL_STATUSES
    BY DEF JobStatuses, FINAL_STATUSES
  <2>3. /\ importJob' \in ImportJobs /\ importJob'.file = importJob.file
        /\ importJob'.status = "processing" /\ importJob'.rows = importJob.rows
    BY <1>1, <2>1, <2>2 DEF ImportJobs
  <2>. QED
    BY <2>2, <2>3, ImportAssumption
<1>4. /\ catalogue \in PriceList /\ ProductLimit \in Nat
      /\ Cardinality(Listed(catalogue)) \in Nat /\ consumed \in Nat
      /\ disturbed \in BOOLEAN
  BY ImportAssumption, ListedIsFinite DEF ImportTypeOK
<1>5. next \in AtRows
  BY <1>4 DEF AtRows
<1>6. next.outcomes = <<>> /\ next.cache = catalogue
      /\ next.budget = ProductLimit - Cardinality(Listed(catalogue))
  OBVIOUS
<1> HIDE DEF next
<1>7. /\ running' \in [Clerks -> {Resting, Answered} \cup Wishes \cup AtRows]
      /\ running'[c] = next
      /\ \A d \in Clerks : d # c => running'[d] = running[d] /\ (Working(d)' <=> Working(d))
  BY <1>1, <1>5, OneMoves
<1>8. disturbed' \in BOOLEAN
  BY <1>1, <1>4
<1>9. ImportTypeOK'
  <2>1. applications' \in [DOMAIN importJob'.file -> Nat]
    BY <1>1, <1>2, <1>3 DEF ImportTypeOK
  <2>. QED
    BY <1>1, <1>3, <1>7, <1>8, <2>1 DEF ImportTypeOK
<1>10. Len(importJob.file) \in Nat
  BY <1>2, JobFacts
<1>11. JobIsThere' /\ RowsOfFile' /\ Untouched'
  BY <1>2, <1>3, <1>6, <1>7, <1>10 DEF JobIsThere, RowsOfFile, Untouched
<1>12. ASSUME ~disturbed'
       PROVE  /\ ~disturbed /\ running[c].seen = importJob.status
              /\ \A d \in Clerks : Working(d)' => d = c
  BY <1>1, <1>7, <1>12 DEF Disturbs
<1>13. OneAtWork'
  BY <1>3, <1>12 DEF OneAtWork
<1>14. RowsAreDone'
  <2>1. SUFFICES ASSUME ~disturbed', ~interrupted
                 PROVE  /\ importJob'.rows = NoRows
                        /\ \E d \in Clerks : Working(d)'
                        /\ \A d \in Clerks : Working(d)' => \A i \in DOMAIN applications :
                               applications[i] = IF Undone(i, running'[d].outcomes) THEN 0 ELSE 1
    BY <1>1, <1>3 DEF RowsAreDone, Undone
  <2>2. importJob.rows = NoRows /\ \A i \in DOMAIN applications : applications[i] = 0
    BY <1>1, <2>1, FoundAsItIs
  <2>3. Working(c)'
    BY <1>1, <1>5, OneMoves
  <2>4. DOMAIN applications = 1..Len(importJob.file)
    BY <1>2, JobFacts
  <2>5. \A i \in DOMAIN applications : Undone(i, next.outcomes)
    BY <1>6, <2>4 DEF Undone
  <2>. QED
    BY <1>3, <1>7, <1>12, <2>1, <2>2, <2>3, <2>5
<1>15. PlanIsKept'
  BY <1>1, <1>3, <1>6, <1>7, <1>12 DEF PlanIsKept, RowsFit, Listed
<1>16. RowsAppliedOnce' /\ ReportTells' /\ WithinPlan'
  BY <1>1, <1>3, <1>12 DEF RowsAppliedOnce, ReportTells, WithinPlan, Listed
<1>17. FailedLeavesNothing'
  BY <1>1, <1>2, <1>3 DEF FailedLeavesNothing
<1>. QED
  BY <1>9, <1>11, <1>13, <1>14, <1>15, <1>16, <1>17

LEMMA CancelStep ==
    ASSUME ImportsInv, NEW c \in Clerks, CancelImport(c)
    PROVE  ImportsInv'
<1> USE DEF ImportsInv
<1>1. /\ running[c] \in Wishes /\ ~Working(c) /\ Unfinished(running[c].seen)
      /\ importJob' = [importJob EXCEPT !.status = "cancelled"]
      /\ running' = [running EXCEPT ![c] = Answered]
      /\ disturbed' = (disturbed \/ Disturbs(c))
      /\ UNCHANGED <<catalogue, applications, consumed, interrupted>>
  <2>1. ~Idling(c) /\ running[c].at = "cancel"
    BY DEF CancelImport, Submitted
  <2>2. ~Working(c)
    BY <2>1 DEF Working
  <2>. QED
    BY <2>1, <2>2, RequestFacts DEF CancelImport
<1>2. importJob # Missing
  BY <1>1, RequestFacts DEF JobIsThere
<1>3. /\ importJob' \in ImportJobs /\ importJob' # Missing /\ importJob'.file = importJob.file
      /\ importJob'.status = "cancelled" /\ importJob'.rows = importJob.rows
  <2>1. importJob \in ImportJobs
    BY <1>2, JobFacts
  <2>2. "cancelled" \in JobStatuses
    BY DEF JobStatuses, FINAL_STATUSES
  <2>3. /\ importJob' \in ImportJobs /\ importJob'.file = importJob.file
        /\ importJob'.status = "cancelled" /\ importJob'.rows = importJob.rows
    BY <1>1, <2>1, <2>2 DEF ImportJobs
  <2>. QED
    BY <2>3, ImportAssumption
<1>4. /\ running' \in [Clerks -> {Resting, Answered} \cup Wishes \cup AtRows]
      /\ \A d \in Clerks : d # c => running'[d] = running[d] /\ (Working(d)' <=> Working(d))
      /\ ~Working(c)'
  <2>1. Answered \notin AtRows
    BY ImportAssumption
  <2>. QED
    BY <1>1, <2>1, OneMoves
<1>5. ImportTypeOK'
  <2>1. applications' \in [DOMAIN importJob'.file -> Nat]
    BY <1>1, <1>2, <1>3 DEF ImportTypeOK
  <2>2. disturbed' \in BOOLEAN
    BY <1>1 DEF ImportTypeOK
  <2>. QED
    BY <1>1, <1>3, <1>4, <2>1, <2>2 DEF ImportTypeOK
<1>6. JobIsThere' /\ RowsOfFile' /\ Untouched'
  BY <1>2, <1>3, <1>4 DEF JobIsThere, RowsOfFile, Untouched
<1>7. ASSUME ~disturbed' PROVE ~disturbed /\ \A d \in Clerks : ~Working(d)'
  BY <1>1, <1>4, <1>7 DEF Disturbs
<1>8. OneAtWork' /\ PlanIsKept'
  BY <1>7 DEF OneAtWork, PlanIsKept
<1>9. RowsAreDone'
  BY <1>3, <1>7 DEF RowsAreDone, FINAL_STATUSES
<1>10. ReportTells'
  <2>1. SUFFICES ASSUME ~disturbed', ~interrupted
                 PROVE  LET applied == Cardinality({i \in DOMAIN applications : applications[i] > 0})
                        IN  /\ importJob'.rows["created"] + importJob'.rows["updated"] = applied
                            /\ applied = 0
    BY <1>1, <1>3 DEF ReportTells
  <2>2. importJob.rows = NoRows /\ \A i \in DOMAIN applications : applications[i] = 0
    BY <1>1, <2>1, FoundAsItIs
  <2>3. {i \in DOMAIN applications : applications[i] > 0} = {}
    BY <2>2
  <2>4. NoRows["created"] = 0 /\ NoRows["updated"] = 0
    BY DEF NoRows, Outcomes
  <2>. QED
    BY <1>3, <2>2, <2>3, <2>4, FS_EmptySet
<1>11. RowsAppliedOnce' /\ WithinPlan'
  BY <1>1, <1>7 DEF RowsAppliedOnce, WithinPlan, Listed
<1>12. FailedLeavesNothing'
  BY <1>1, <1>2, <1>3 DEF FailedLeavesNothing
<1>. QED
  BY <1>5, <1>6, <1>8, <1>9, <1>10, <1>11, <1>12

LEMMA BreakOffStep ==
    ASSUME ImportsInv, NEW c \in Clerks, BreakOff(c)
    PROVE  ImportsInv'
<1> USE DEF ImportsInv
<1>1. /\ Working(c) /\ running' = [running EXCEPT ![c] = Answered] /\ interrupted' = TRUE
      /\ UNCHANGED <<catalogue, importJob, applications, consumed, disturbed>>
  BY DEF BreakOff
<1>2. importJob # Missing
  BY <1>1 DEF JobIsThere, Working
<1>3. /\ running' \in [Clerks -> {Resting, Answered} \cup Wishes \cup AtRows]
      /\ \A d \in Clerks : d # c => running'[d] = running[d] /\ (Working(d)' <=> Working(d))
      /\ ~Working(c)'
  <2>1. Answered \notin AtRows
    BY ImportAssumption
  <2>. QED
    BY <1>1, <2>1, OneMoves
<1>4. ImportTypeOK' /\ JobIsThere' /\ RowsOfFile' /\ Untouched'
  BY <1>1, <1>2, <1>3 DEF ImportTypeOK, JobIsThere, RowsOfFile, Untouched
<1>5. OneAtWork' /\ PlanIsKept'
  BY <1>1, <1>3 DEF OneAtWork, PlanIsKept, Listed
<1>6. RowsAreDone' /\ RowsAppliedOnce' /\ ReportTells'
  BY <1>1 DEF RowsAreDone, RowsAppliedOnce, ReportTells
<1>7. FailedLeavesNothing' /\ WithinPlan'
  BY <1>1 DEF FailedLeavesNothing, WithinPlan, Listed
<1>. QED
  BY <1>4, <1>5, <1>6, <1>7

LEMMA AddProductStep ==
    ASSUME ImportsInv, NEW s \in Skus, AddProduct(s)
    PROVE  ImportsInv'
<1> USE DEF ImportsInv
<1>1. /\ catalogue[s] = Missing /\ Cardinality(Listed(catalogue)) < ProductLimit
      /\ catalogue' = [catalogue EXCEPT ![s] = OpeningPrice]
      /\ disturbed' = (disturbed \/ \E c \in Clerks : Working(c))
      /\ UNCHANGED <<importJob, running, applications, consumed, interrupted>>
  BY DEF AddProduct
<1>2. catalogue \in PriceList /\ OpeningPrice \in Prices /\ OpeningPrice # Missing
      /\ ProductLimit \in Nat /\ disturbed \in BOOLEAN
  BY ImportAssumption DEF ImportTypeOK
<1>3. /\ catalogue' \in PriceList /\ catalogue'[s] = OpeningPrice
      /\ \A t \in Skus : t # s => catalogue'[t] = catalogue[t]
  BY <1>1, <1>2 DEF PriceList
<1>4. \A c \in Clerks : (Working(c)' <=> Working(c)) /\ (Idling(c)' <=> Idling(c))
  BY <1>1 DEF Working, Idling
<1>5. ASSUME ~disturbed' PROVE ~disturbed /\ \A c \in Clerks : ~Working(c)'
  BY <1>1, <1>4, <1>5
<1>6. ImportTypeOK'
  BY <1>1, <1>2, <1>3 DEF ImportTypeOK
<1>7. JobIsThere' /\ RowsOfFile'
  BY <1>1, <1>4 DEF JobIsThere, RowsOfFile
<1>8. Untouched'
  BY <1>1, <1>3 DEF Untouched
<1>9. OneAtWork' /\ PlanIsKept'
  BY <1>5 DEF OneAtWork, PlanIsKept
<1>10. RowsAreDone' /\ RowsAppliedOnce' /\ ReportTells'
  BY <1>1, <1>4, <1>5 DEF RowsAreDone, RowsAppliedOnce, ReportTells
<1>11. FailedLeavesNothing'
  <2>1. SUFFICES ASSUME importJob # Missing, NEW i \in DOMAIN applications, applications[i] = 0,
                        \A j \in DOMAIN applications : j # i => importJob.file[j].sku # importJob.file[i].sku
                 PROVE  catalogue'[importJob.file[i].sku] \in {Missing, OpeningPrice}
    BY <1>1 DEF FailedLeavesNothing
  <2>2. catalogue[importJob.file[i].sku] \in {Missing, OpeningPrice}
    BY <2>1 DEF FailedLeavesNothing
  <2>3. importJob.file[i].sku \in Skus
    <3>1. importJob.file \in Seq(FileRows) /\ i \in 1..Len(importJob.file)
      BY <2>1, JobFacts
    <3>2. importJob.file[i] \in FileRows
      BY <3>1
    <3>. QED
      BY <3>2 DEF FileRows
  <2>. QED
    BY <1>3, <2>2, <2>3
<1>12. WithinPlan'
  <2>1. SUFFICES ASSUME ~disturbed
                 PROVE  Cardinality(Listed(catalogue')) <= ProductLimit /\ consumed <= RowLimit
    BY <1>1, <1>5 DEF WithinPlan, Listed
  <2>2. Listed(catalogue') = Listed(catalogue) \cup {s} /\ s \notin Listed(catalogue)
    BY <1>1, <1>2, <1>3 DEF Listed
  <2>3. IsFiniteSet(Listed(catalogue)) /\ Cardinality(Listed(catalogue)) \in Nat
    BY ListedIsFinite
  <2>4. Cardinality(Listed(catalogue')) = Cardinality(Listed(catalogue)) + 1
    BY <2>2, <2>3, FS_AddElement
  <2>. QED
    BY <1>1, <1>2, <2>1, <2>3, <2>4 DEF WithinPlan
<1>. QED
  BY <1>6, <1>7, <1>8, <1>9, <1>10, <1>11, <1>12

LEMMA RunBatchStep ==
    ASSUME ImportsInv, NEW c \in Clerks, RunBatch(c)
    PROVE  ImportsInv'
<1> USE DEF ImportsInv
<1> DEFINE done == Len(running[c].outcomes)
           size == Len(importJob.file)
           before == [prices |-> catalogue, cache |-> running[c].cache,
                      budget |-> running[c].budget, outcomes |-> running[c].outcomes]
<1>1. PICK end : end = Min({done + BatchSize, size})
  OBVIOUS
<1>2. PICK seq : seq = SubSeq(importJob.file, done + 1, end)
  OBVIOUS
<1>3. PICK after : after = FoldLeft(RunRow, before, seq)
  OBVIOUS
<1>4. /\ Working(c) /\ done < size
      /\ catalogue' = after.prices
      /\ running' = [running EXCEPT ![c].cache = after.cache, ![c].budget = after.budget,
                                    ![c].outcomes = after.outcomes]
      /\ applications' = [i \in DOMAIN importJob.file |->
             applications[i] + (IF i > done /\ i <= end /\ after.outcomes[i] \in Came THEN 1 ELSE 0)]
      /\ UNCHANGED <<importJob, consumed, disturbed, interrupted>>
  BY <1>1, <1>2, <1>3 DEF RunBatch, Came
<1>5. /\ importJob # Missing /\ running[c] \in AtRows
      /\ running[c].outcomes \in Seq(Outcomes) /\ running[c].cache \in PriceList
      /\ running[c].budget \in Int
  <2>1. ~Idling(c)
    BY <1>4 DEF Working
  <2>. QED
    BY <1>4, <2>1, RequestFacts DEF JobIsThere
<1>6. /\ importJob.file \in Seq(FileRows) /\ size \in Nat /\ DOMAIN importJob.file = 1..size
      /\ applications \in [1..size -> Nat] /\ DOMAIN applications = 1..size
  BY <1>5, JobFacts
<1>7. done \in Nat /\ end \in Nat /\ done < end /\ end <= size
  <2>1. done \in Nat
    BY <1>5
  <2>2. BatchSize \in Nat /\ BatchSize > 0
    BY ImportAssumption
  <2>3. done + BatchSize \in Nat
    BY <2>1, <2>2
  <2>4. end = IF done + BatchSize <= size THEN done + BatchSize ELSE size
    BY <1>1, <1>6, <2>3, SmallerOfTwo
  <2>. QED
    BY <1>4, <1>6, <2>1, <2>2, <2>4
<1> HIDE DEF done, size
<1>8. /\ seq \in Seq(FileRows) /\ Len(seq) = end - done
      /\ \A j \in 1..(end - done) : seq[j] = importJob.file[done + j]
  <2>1. \A i \in (done + 1)..end : importJob.file[i] \in FileRows
    <3>1. \A i \in 1..size : importJob.file[i] \in FileRows
      BY <1>6
    <3>. QED
      BY <1>6, <1>7, <3>1
  <2>2. /\ seq \in Seq(FileRows)
        /\ Len(seq) = (IF done + 1 <= end THEN end - (done + 1) + 1 ELSE 0)
        /\ \A j \in 1..(end - (done + 1) + 1) : seq[j] = importJob.file[(done + 1) + j - 1]
    BY <1>2, <1>7, <2>1, SubSeqProperties
  <2>3. \A j \in Int : (done + 1) + j - 1 = done + j
    BY <1>7
  <2>4. end - (done + 1) + 1 = end - done /\ done + 1 <= end
    BY <1>7
  <2>5. seq \in Seq(FileRows) /\ Len(seq) = end - done
    BY <2>2, <2>4
  <2>6. ASSUME NEW j \in 1..(end - done) PROVE seq[j] = importJob.file[done + j]
    <3>1. seq[j] = importJob.file[(done + 1) + j - 1]
      BY <2>2, <2>4
    <3>2. (done + 1) + j - 1 = done + j
      BY <2>3
    <3>. QED
      BY <3>1, <3>2
  <2>. QED
    BY <2>5, <2>6
<1>9. before \in Batches
  BY <1>5 DEF Batches, ImportTypeOK
<1>10. /\ before.prices = catalogue /\ before.cache = running[c].cache
       /\ before.budget = running[c].budget /\ before.outcomes = running[c].outcomes
  OBVIOUS
<1> HIDE DEF before
<1>11. BatchDone(before, seq, after)
  BY <1>3, <1>8, <1>9, BatchRuns
<1>12. /\ after.prices \in PriceList /\ after.cache \in PriceList /\ after.budget \in Int
       /\ after.outcomes \in Seq(Outcomes)
  BY <1>11 DEF BatchDone, Batches
<1>13. /\ Len(after.outcomes) = end
       /\ \A i \in 1..done : after.outcomes[i] = running[c].outcomes[i]
       /\ InStep(before) => InStep(after)
  <2>1. done + (end - done) = end
    BY <1>7
  <2>. QED
    BY <1>8, <1>10, <1>11, <2>1 DEF BatchDone, done
<1>14. \A s \in Skus : \/ after.prices[s] = catalogue[s]
                       \/ \E i \in (done + 1)..end : /\ importJob.file[i].sku = s
                                                     /\ after.outcomes[i] \in Came
  <2>1. SUFFICES ASSUME NEW s \in Skus, after.prices[s] # catalogue[s]
                 PROVE  \E i \in (done + 1)..end : /\ importJob.file[i].sku = s
                                                   /\ after.outcomes[i] \in Came
    OBVIOUS
  <2>2. PICK j \in 1..Len(seq) : seq[j].sku = s /\ after.outcomes[Len(before.outcomes) + j] \in Came
    BY <1>10, <1>11, <2>1 DEF BatchDone
  <2>3. j \in 1..(end - done) /\ done + j \in (done + 1)..end
    BY <1>7, <1>8
  <2>4. importJob.file[done + j].sku = s /\ after.outcomes[done + j] \in Came
    BY <1>8, <1>10, <2>2, <2>3 DEF done
  <2>. QED
    BY <2>3, <2>4
<1>15. PICK next : next = [at |-> "rows", cache |-> after.cache, outcomes |-> after.outcomes,
                           budget |-> after.budget]
  OBVIOUS
<1>16. /\ next \in AtRows /\ next.cache = after.cache /\ next.outcomes = after.outcomes
       /\ next.budget = after.budget
  BY <1>12, <1>15 DEF AtRows
<1>17. running' = [running EXCEPT ![c] = next]
  <2>1. running \in [Clerks -> {Resting, Answered} \cup Wishes \cup AtRows]
    BY DEF ImportTypeOK
  <2>2. PICK w : w = running[c]
    OBVIOUS
  <2>3. w = [at |-> "rows", cache |-> w.cache, outcomes |-> w.outcomes, budget |-> w.budget]
    BY <1>5, <2>2 DEF AtRows
  <2> DEFINE f1 == [running EXCEPT ![c] = [w EXCEPT !.cache = after.cache]]
             f2 == [f1 EXCEPT ![c] = [f1[c] EXCEPT !.budget = after.budget]]
             f3 == [f2 EXCEPT ![c] = [f2[c] EXCEPT !.outcomes = after.outcomes]]
  <2>4. running' = f3
    BY <1>4, <2>2
  <2>5. DOMAIN f1 = Clerks /\ f1[c] = [w EXCEPT !.cache = after.cache]
        /\ \A d \in Clerks : d # c => f1[d] = running[d]
    BY <2>1
  <2> HIDE DEF f1
  <2>6. f1[c] = [at |-> "rows", cache |-> after.cache, outcomes |-> w.outcomes, budget |-> w.budget]
    BY <2>3, <2>5
  <2>7. DOMAIN f2 = Clerks /\ f2[c] = [f1[c] EXCEPT !.budget = after.budget]
        /\ \A d \in Clerks : d # c => f2[d] = running[d]
    BY <2>5
  <2>8. f2 = [d \in Clerks |-> f2[d]]
    BY <2>5
  <2> HIDE DEF f2
  <2>9. f2[c] = [at |-> "rows", cache |-> after.cache, outcomes |-> w.outcomes,
                 budget |-> after.budget]
    BY <2>6, <2>7
  <2>10. [f2[c] EXCEPT !.outcomes = after.outcomes] = next
    BY <1>15, <2>9
  <2>11. f3 = [f2 EXCEPT ![c] = next]
    BY <2>10
  <2>. QED
    BY <2>1, <2>4, <2>7, <2>8, <2>11
<1>18. /\ running' \in [Clerks -> {Resting, Answered} \cup Wishes \cup AtRows]
       /\ running'[c] = next
       /\ \A d \in Clerks : d # c => running'[d] = running[d] /\ (Working(d)' <=> Working(d))
       /\ Working(c)'
  BY <1>16, <1>17, OneMoves
<1>19. /\ DOMAIN applications' = 1..size /\ applications' \in [1..size -> Nat]
       /\ \A i \in 1..size : applications'[i] = applications[i] +
              (IF i > done /\ i <= end /\ after.outcomes[i] \in Came THEN 1 ELSE 0)
  BY <1>4, <1>6 DEF done, size
<1>20. /\ importJob' = importJob /\ disturbed' = disturbed /\ interrupted' = interrupted
       /\ consumed' = consumed /\ catalogue' = after.prices
  BY <1>4
<1>21. ImportTypeOK'
  BY <1>6, <1>12, <1>18, <1>19, <1>20 DEF ImportTypeOK
<1>22. JobIsThere' /\ Untouched'
  BY <1>5, <1>20 DEF JobIsThere, Untouched
<1>23. RowsOfFile'
  BY <1>7, <1>13, <1>16, <1>18, <1>20 DEF RowsOfFile, size
<1>24. \A d \in Clerks : Working(d)' <=> Working(d)
  BY <1>4, <1>18
<1>25. OneAtWork'
  BY <1>20, <1>24 DEF OneAtWork
<1>26. ~disturbed => /\ importJob.status = "processing" /\ importJob.status \notin FINAL_STATUSES
                     /\ \A d \in Clerks : Working(d) => d = c
  BY <1>4 DEF OneAtWork, FINAL_STATUSES
<1>27. ASSUME ~disturbed, ~interrupted
       PROVE  \A i \in 1..size : applications'[i] = IF Undone(i, after.outcomes) THEN 0 ELSE 1
  <2>1. \A i \in 1..size : applications[i] = IF Undone(i, running[c].outcomes) THEN 0 ELSE 1
    BY <1>4, <1>5, <1>6, <1>27 DEF RowsAreDone
  <2>2. Len(running[c].outcomes) = done
    BY DEF done
  <2>3. SUFFICES ASSUME NEW i \in 1..size
                 PROVE  applications'[i] = IF Undone(i, after.outcomes) THEN 0 ELSE 1
    OBVIOUS
  <2>4. applications'[i] = applications[i] +
            (IF i > done /\ i <= end /\ after.outcomes[i] \in Came THEN 1 ELSE 0)
    BY <1>19
  <2>5. i <= done => after.outcomes[i] = running[c].outcomes[i] /\ i <= end /\ ~(i > done)
    BY <1>7, <1>13
  <2>6. i > done => applications[i] = 0
    BY <1>7, <2>1, <2>2 DEF Undone
  <2>7. i <= done \/ i > done
    BY <1>7
  <2>8. Undone(i, after.outcomes) <=> ~(i <= end /\ after.outcomes[i] \in Came)
    BY <1>13 DEF Undone
  <2>9. CASE i <= done
    <3>1. Undone(i, running[c].outcomes) <=> Undone(i, after.outcomes)
      BY <2>2, <2>5, <2>8, <2>9 DEF Undone
    <3>2. applications'[i] = applications[i]
      BY <1>6, <2>4, <2>5, <2>9
    <3>. QED
      BY <2>1, <3>1, <3>2
  <2>10. CASE i > done
    BY <2>4, <2>6, <2>8, <2>10
  <2>. QED
    BY <2>7, <2>9, <2>10
<1>28. RowsAreDone'
  <2>1. SUFFICES ASSUME ~disturbed, ~interrupted
                 PROVE  /\ importJob.rows = NoRows
                        /\ \E d \in Clerks : Working(d)'
                        /\ \A d \in Clerks : Working(d)' => \A i \in DOMAIN applications' :
                               applications'[i] = IF Undone(i, running'[d].outcomes) THEN 0 ELSE 1
    BY <1>20, <1>26 DEF RowsAreDone, Undone
  <2>2. importJob.rows = NoRows
    BY <1>5, <1>26, <2>1 DEF RowsAreDone
  <2>3. \A d \in Clerks : Working(d)' => d = c
    BY <1>24, <1>26, <2>1
  <2>. QED
    BY <1>16, <1>18, <1>19, <1>27, <2>1, <2>2, <2>3
<1>29. ASSUME ~disturbed PROVE InStep(after)
  <2>1. /\ Listed(running[c].cache) = Listed(catalogue)
        /\ running[c].budget = ProductLimit - Cardinality(Listed(catalogue))
        /\ Cardinality(Listed(catalogue)) <= ProductLimit
    BY <1>4, <1>29 DEF PlanIsKept, WithinPlan
  <2>2. ProductLimit \in Nat /\ Cardinality(Listed(catalogue)) \in Nat
    BY ImportAssumption, ListedIsFinite
  <2>3. running[c].budget >= 0
    BY <2>1, <2>2
  <2>4. InStep(before)
    BY <1>10, <2>1, <2>3 DEF InStep
  <2>. QED
    BY <1>13, <2>4
<1>30. PlanIsKept'
  <2>1. SUFFICES ASSUME ~disturbed
                 PROVE  /\ consumed + Len(importJob.file) <= RowLimit
                        /\ Listed(running'[c].cache) = Listed(catalogue')
                        /\ running'[c].budget = ProductLimit - Cardinality(Listed(catalogue'))
    <3>1. ~disturbed => \A d \in Clerks : Working(d)' => d = c
      BY <1>24, <1>26
    <3>. QED
      BY <1>20, <2>1, <3>1 DEF PlanIsKept, Listed
  <2>. QED
    BY <1>4, <1>16, <1>18, <1>20, <1>29, <2>1 DEF PlanIsKept, InStep
<1>31. RowsAppliedOnce'
  BY <1>19, <1>20, <1>27 DEF RowsAppliedOnce
<1>32. ReportTells'
  BY <1>20, <1>26 DEF ReportTells
<1>33. WithinPlan'
  <2>1. SUFFICES ASSUME ~disturbed
                 PROVE  Cardinality(Listed(after.prices)) <= ProductLimit /\ consumed <= RowLimit
    BY <1>20 DEF WithinPlan, Listed
  <2>2. ProductLimit \in Nat /\ Cardinality(Listed(after.prices)) \in Nat
    BY ImportAssumption, ListedIsFinite
  <2>. QED
    BY <1>12, <1>29, <2>1, <2>2 DEF InStep, WithinPlan
<1>34. FailedLeavesNothing'
  <2>1. SUFFICES ASSUME NEW i \in 1..size, applications'[i] = 0,
                        \A j \in 1..size : j # i => importJob.file[j].sku # importJob.file[i].sku
                 PROVE  after.prices[importJob.file[i].sku] \in {Missing, OpeningPrice}
    BY <1>19, <1>20 DEF FailedLeavesNothing
  <2>2. importJob.file[i].sku \in Skus
    <3>1. importJob.file[i] \in FileRows
      BY <1>6
    <3>. QED
      BY <3>1 DEF FileRows
  <2>3. applications[i] = 0 /\ ~(i > done /\ i <= end /\ after.outcomes[i] \in Came)
    BY <1>6, <1>19, <2>1
  <2>4. catalogue[importJob.file[i].sku] \in {Missing, OpeningPrice}
    BY <1>5, <1>6, <2>1, <2>3 DEF FailedLeavesNothing
  <2>5. ASSUME NEW j \in (done + 1)..end, importJob.file[j].sku = importJob.file[i].sku,
               after.outcomes[j] \in Came
        PROVE  FALSE
    <3>1. j \in 1..size /\ j > done /\ j <= end
      BY <1>6, <1>7
    <3>2. j = i
      BY <2>1, <2>5, <3>1
    <3>. QED
      BY <2>3, <2>5, <3>1, <3>2
  <2>. QED
    BY <1>14, <2>2, <2>4, <2>5
<1>. QED
  BY <1>21, <1>22, <1>23, <1>25, <1>28, <1>30, <1>31, <1>32, <1>33, <1>34

\* The outcomes counted: each row has one.
LEMMA CountsAdd ==
    ASSUME NEW q \in Seq(Outcomes)
    PROVE  LET n == Counted(q) IN
           /\ n \in [Outcomes -> Nat]
           /\ n["created"] + n["updated"] = Cardinality({i \in 1..Len(q) : q[i] \in Came})
           /\ n["created"] + n["updated"] + n["failed"] + n["invalid"] = Len(q)
<1> DEFINE n    == Counted(q)
           K(o) == {i \in 1..Len(q) : q[i] = o}
<1>1. Len(q) \in Nat /\ DOMAIN q = 1..Len(q) /\ \A i \in 1..Len(q) : q[i] \in Outcomes
  OBVIOUS
<1>2. IsFiniteSet(1..Len(q)) /\ Cardinality(1..Len(q)) = Len(q)
  <2>1. Cardinality(1..Len(q)) = IF 1 > Len(q) THEN 0 ELSE Len(q) - 1 + 1
    BY <1>1, FS_Interval
  <2>. QED
    BY <1>1, <2>1, FS_Interval
<1>3. ASSUME NEW s, s \subseteq 1..Len(q) PROVE IsFiniteSet(s) /\ Cardinality(s) \in Nat
  BY <1>2, <1>3, FS_Subset, FS_CardinalityType
<1>4. \A o : /\ K(o) \subseteq 1..Len(q) /\ IsFiniteSet(K(o)) /\ Cardinality(K(o)) \in Nat
  BY <1>3
<1>5. n = [o \in Outcomes |-> Cardinality(K(o))]
  BY <1>1 DEF Counted
<1> HIDE DEF n
<1>6. n \in [Outcomes -> Nat]
  BY <1>4, <1>5
<1>7. ASSUME NEW s, NEW t, s \subseteq 1..Len(q), t \subseteq 1..Len(q), s \cap t = {}
      PROVE  Cardinality(s \cup t) = Cardinality(s) + Cardinality(t)
  <2>1. IsFiniteSet(s) /\ IsFiniteSet(t) /\ Cardinality(s) \in Nat /\ Cardinality(t) \in Nat
    BY <1>3, <1>7
  <2>2. Cardinality(s \cup t) = Cardinality(s) + Cardinality(t) - Cardinality(s \cap t)
    BY <2>1, FS_Union
  <2>3. Cardinality(s \cap t) = 0
    BY <1>7, FS_EmptySet
  <2>. QED
    BY <2>1, <2>2, <2>3
<1>8. /\ n["created"] = Cardinality(K("created")) /\ n["updated"] = Cardinality(K("updated"))
      /\ n["failed"] = Cardinality(K("failed")) /\ n["invalid"] = Cardinality(K("invalid"))
  BY <1>5 DEF Outcomes
<1>9. Cardinality(K("created") \cup K("updated")) = n["created"] + n["updated"]
  <2>1. K("created") \cap K("updated") = {}
    OBVIOUS
  <2>. QED
    BY <1>4, <1>7, <1>8, <2>1
<1>10. Cardinality(K("failed") \cup K("invalid")) = n["failed"] + n["invalid"]
  <2>1. K("failed") \cap K("invalid") = {}
    OBVIOUS
  <2>. QED
    BY <1>4, <1>7, <1>8, <2>1
<1>11. {i \in 1..Len(q) : q[i] \in Came} = K("created") \cup K("updated")
  BY DEF Came
<1>12. Len(q) = n["created"] + n["updated"] + (n["failed"] + n["invalid"])
  <2> DEFINE s == K("created") \cup K("updated")
             u == K("failed") \cup K("invalid")
  <2>1. s \subseteq 1..Len(q) /\ u \subseteq 1..Len(q) /\ s \cap u = {}
    OBVIOUS
  <2>2. s \cup u = 1..Len(q)
    BY <1>1 DEF Outcomes
  <2>3. Cardinality(s \cup u) = Cardinality(s) + Cardinality(u)
    <3> HIDE DEF s, u
    <3>. QED
      BY <1>7, <2>1
  <2>. QED
    BY <1>2, <1>9, <1>10, <2>2, <2>3
<1>13. n["created"] \in Nat /\ n["updated"] \in Nat /\ n["failed"] \in Nat /\ n["invalid"] \in Nat
  BY <1>6 DEF Outcomes
<1>14. n["created"] + n["updated"] + n["failed"] + n["invalid"] = Len(q)
  BY <1>1, <1>12, <1>13
<1>15. n["created"] + n["updated"] = Cardinality({i \in 1..Len(q) : q[i] \in Came})
  BY <1>9, <1>11
<1>. QED
  BY <1>6, <1>14, <1>15 DEF n

\* What a status says of the counts.
LEMMA StatusTells ==
    ASSUME NEW n \in [Outcomes -> Nat]
    PROVE  /\ ImportStatus(n) \in {"completed", "completed_with_errors", "failed"}
           /\ ImportStatus(n) = "completed" => n["failed"] = 0 /\ n["invalid"] = 0
           /\ ImportStatus(n) = "failed" <=> n["created"] + n["updated"] = 0
<1>1. n["created"] \in Nat /\ n["updated"] \in Nat /\ n["failed"] \in Nat /\ n["invalid"] \in Nat
  BY DEF Outcomes
<1>2. PICK c, u, f, i \in Nat : c = n["created"] /\ u = n["updated"] /\ f = n["failed"] /\ i = n["invalid"]
  BY <1>1
<1>3. ImportStatus(n) = IF c + u + f + i = 0 THEN "failed"
                        ELSE IF f = 0 /\ i = 0 THEN "completed"
                        ELSE IF c + u = 0 THEN "failed" ELSE "completed_with_errors"
  BY <1>2 DEF ImportStatus
<1>4. c + u + f + i = 0 => c + u = 0
  <2>1. c \in Int /\ u \in Int /\ f \in Int /\ i \in Int /\ c >= 0 /\ u >= 0 /\ f >= 0 /\ i >= 0
    BY <1>2
  <2> HIDE <1>2
  <2>. QED
    BY <2>1
<1>5. c + u = 0 /\ f = 0 /\ i = 0 => c + u + f + i = 0
  BY <1>2
<1>. QED
  BY <1>2, <1>3, <1>4, <1>5

LEMMA FinishImportStep ==
    ASSUME ImportsInv, NEW c \in Clerks, FinishImport(c)
    PROVE  ImportsInv'
<1> USE DEF ImportsInv
<1> DEFINE q == running[c].outcomes
           size == Len(importJob.file)
<1>1. PICK n : n = Counted(q)
  OBVIOUS
<1>2. /\ Working(c) /\ Len(q) = size
      /\ importJob' = [importJob EXCEPT !.rows = n, !.status = ImportStatus(n)]
      /\ consumed' = consumed + size
      /\ running' = [running EXCEPT ![c] = Answered]
      /\ UNCHANGED <<catalogue, applications, disturbed, interrupted>>
  BY <1>1 DEF FinishImport
<1>3. importJob # Missing /\ q \in Seq(Outcomes)
  <2>1. ~Idling(c)
    BY <1>2 DEF Working
  <2>. QED
    BY <1>2, <2>1, RequestFacts DEF JobIsThere
<1>4. /\ n \in [Outcomes -> Nat]
      /\ n["created"] + n["updated"] = Cardinality({i \in 1..Len(q) : q[i] \in Came})
      /\ n["created"] + n["updated"] + n["failed"] + n["invalid"] = Len(q)
  BY <1>1, <1>3, CountsAdd
<1>5. /\ ImportStatus(n) \in {"completed", "completed_with_errors", "failed"}
      /\ ImportStatus(n) = "completed" => n["failed"] = 0 /\ n["invalid"] = 0
      /\ ImportStatus(n) = "failed" <=> n["created"] + n["updated"] = 0
  BY <1>4, StatusTells
<1>6. /\ importJob' \in ImportJobs /\ importJob' # Missing /\ importJob'.file = importJob.file
      /\ importJob'.status = ImportStatus(n) /\ importJob'.rows = n
      /\ importJob'.status \in FINAL_STATUSES
  <2>1. importJob \in ImportJobs
    BY <1>3, JobFacts
  <2>2. ImportStatus(n) \in JobStatuses /\ ImportStatus(n) \in FINAL_STATUSES
    BY <1>5 DEF JobStatuses, FINAL_STATUSES
  <2>3. /\ importJob' \in ImportJobs /\ importJob'.file = importJob.file
        /\ importJob'.status = ImportStatus(n) /\ importJob'.rows = n
    <3> HIDE DEF q, size
    <3>1. PICK st : st = ImportStatus(n)
      OBVIOUS
    <3>2. importJob' = [importJob EXCEPT !.rows = n, !.status = st] /\ st \in JobStatuses
      BY <1>2, <2>2, <3>1
    <3>3. importJob' = [kind |-> importJob.kind, mode |-> importJob.mode, file |-> importJob.file,
                        status |-> st, rows |-> n]
      BY <2>1, <3>2 DEF ImportJobs
    <3>. QED
      BY <1>4, <2>1, <3>1, <3>2, <3>3 DEF ImportJobs
  <2>. QED
    BY <2>2, <2>3, ImportAssumption
<1>7. /\ running' \in [Clerks -> {Resting, Answered} \cup Wishes \cup AtRows]
      /\ \A d \in Clerks : d # c => running'[d] = running[d] /\ (Working(d)' <=> Working(d))
      /\ ~Working(c)'
  <2>1. Answered \notin AtRows
    BY ImportAssumption
  <2>. QED
    BY <1>2, <2>1, OneMoves
<1>8. size \in Nat /\ consumed \in Nat /\ DOMAIN applications = 1..size
      /\ applications \in [1..size -> Nat]
  BY <1>3, JobFacts DEF ImportTypeOK
<1>9. ImportTypeOK'
  <2>1. applications' \in [DOMAIN importJob'.file -> Nat]
    BY <1>2, <1>3, <1>6 DEF ImportTypeOK
  <2>2. consumed' \in Nat
    BY <1>2, <1>8
  <2>. QED
    BY <1>2, <1>6, <1>7, <2>1, <2>2 DEF ImportTypeOK
<1>10. JobIsThere' /\ RowsOfFile' /\ Untouched'
  BY <1>2, <1>3, <1>6, <1>7 DEF JobIsThere, RowsOfFile, Untouched
<1>11. ASSUME ~disturbed PROVE \A d \in Clerks : ~Working(d)'
  BY <1>2, <1>7, <1>11 DEF OneAtWork
<1>12. OneAtWork' /\ PlanIsKept' /\ RowsAreDone'
  <2>1. OneAtWork' /\ PlanIsKept'
    BY <1>2, <1>11 DEF OneAtWork, PlanIsKept
  <2>2. RowsAreDone'
    BY <1>2, <1>6, <1>11 DEF RowsAreDone, FINAL_STATUSES
  <2>. QED
    BY <2>1, <2>2
<1>13. ReportTells'
  <2>1. SUFFICES ASSUME ~disturbed, ~interrupted
                 PROVE  LET applied == Cardinality({i \in DOMAIN applications : applications[i] > 0}) IN
                        /\ n["created"] + n["updated"] = applied
                        /\ ImportStatus(n) = "completed" => applied = size
                        /\ ImportStatus(n) \in {"failed", "cancelled"} <=> applied = 0
    BY <1>2, <1>6 DEF ReportTells
  <2>2. \A i \in 1..size : applications[i] = IF Undone(i, q) THEN 0 ELSE 1
    BY <1>2, <1>3, <1>8, <2>1 DEF RowsAreDone
  <2>3. \A i \in 1..size : applications[i] > 0 <=> q[i] \in Came
    BY <1>2, <1>8, <2>2 DEF Undone
  <2>4. {i \in DOMAIN applications : applications[i] > 0} = {i \in 1..Len(q) : q[i] \in Came}
    BY <1>2, <1>8, <2>3
  <2>5. n["created"] \in Nat /\ n["updated"] \in Nat /\ n["failed"] \in Nat /\ n["invalid"] \in Nat
    BY <1>4 DEF Outcomes
  <2>6. PICK applied : applied = Cardinality({i \in DOMAIN applications : applications[i] > 0})
    OBVIOUS
  <2>7. n["created"] + n["updated"] = applied
    BY <1>4, <2>4, <2>6
  <2>8. n["created"] + n["updated"] + n["failed"] + n["invalid"] = size
    BY <1>2, <1>4
  <2> HIDE DEF q, size
  <2>9. ImportStatus(n) = "completed" => applied = size
    BY <1>5, <2>5, <2>7, <2>8
  <2>10. ImportStatus(n) \in {"failed", "cancelled"} <=> applied = 0
    BY <1>5, <2>7
  <2>. QED
    BY <2>6, <2>7, <2>9, <2>10
<1>14. RowsAppliedOnce'
  BY <1>2 DEF RowsAppliedOnce
<1>15. FailedLeavesNothing'
  BY <1>2, <1>3, <1>6 DEF FailedLeavesNothing
<1>16. WithinPlan'
  BY <1>2 DEF WithinPlan, PlanIsKept, Listed
<1>. QED
  BY <1>9, <1>10, <1>12, <1>13, <1>14, <1>15, <1>16

LEMMA ImportsKept ==
    ASSUME ImportsInv, [ImportsNext]_importVars
    PROVE  ImportsInv'
<1>1. ASSUME NEW kind \in Kinds, NEW mode \in Modes, NEW file \in Files, Upload(kind, mode, file)
      PROVE  ImportsInv'
  BY <1>1, UploadStep
<1>2. ASSUME NEW s \in Skus, AddProduct(s) PROVE ImportsInv'
  BY <1>2, AddProductStep
<1>3. ASSUME NEW c \in Clerks, NEW wish \in {"execute", "cancel"}, Submit(c, wish) PROVE ImportsInv'
  <2>1. PICK next : next = [at |-> wish, seen |-> importJob.status]
    OBVIOUS
  <2>2. /\ running[c] = Resting /\ importJob # Missing /\ running' = [running EXCEPT ![c] = next]
        /\ UNCHANGED <<catalogue, importJob, applications, consumed, disturbed, interrupted>>
    BY <1>3, <2>1 DEF Submit
  <2>3. ~Working(c)
    BY <2>2 DEF Working, Idling
  <2>4. importJob.status \in JobStatuses
    BY <2>2, JobFacts DEF ImportsInv
  <2>5. next \in Wishes
    BY <2>1, <2>4 DEF Wishes
  <2>. QED
    BY <2>2, <2>3, <2>5, RequestMoves
<1>4. ASSUME NEW c \in Clerks, Execute(c) PROVE ImportsInv'
  BY <1>4, ExecuteStep
<1>5. ASSUME NEW c \in Clerks, CancelImport(c) PROVE ImportsInv'
  BY <1>5, CancelStep
<1>6. ASSUME NEW c \in Clerks, RefuseImport(c) PROVE ImportsInv'
  <2>1. /\ ~Idling(c) /\ ~Working(c) /\ running' = [running EXCEPT ![c] = Answered]
        /\ UNCHANGED <<catalogue, importJob, applications, consumed, disturbed, interrupted>>
    BY <1>6 DEF RefuseImport
  <2>2. importJob # Missing
    BY <2>1 DEF ImportsInv, JobIsThere
  <2>. QED
    BY <2>1, <2>2, RequestMoves
<1>7. ASSUME NEW c \in Clerks, RunBatch(c) PROVE ImportsInv'
  BY <1>7, RunBatchStep
<1>8. ASSUME NEW c \in Clerks, FinishImport(c) PROVE ImportsInv'
  BY <1>8, FinishImportStep
<1>9. ASSUME NEW c \in Clerks, BreakOff(c) PROVE ImportsInv'
  BY <1>9, BreakOffStep
<1>10. CASE UNCHANGED importVars
  <2>1. \A c \in Clerks : (Working(c)' <=> Working(c)) /\ (Idling(c)' <=> Idling(c))
    BY <1>10 DEF importVars, Working, Idling
  <2>2. ImportTypeOK' /\ JobIsThere' /\ RowsOfFile' /\ Untouched' /\ OneAtWork'
    BY <1>10, <2>1
       DEF importVars, ImportsInv, ImportTypeOK, JobIsThere, RowsOfFile, Untouched, OneAtWork
  <2>3. RowsAreDone' /\ PlanIsKept'
    BY <1>10, <2>1 DEF importVars, ImportsInv, RowsAreDone, Undone, PlanIsKept, Listed
  <2>4. RowsAppliedOnce' /\ ReportTells' /\ FailedLeavesNothing' /\ WithinPlan'
    BY <1>10
       DEF importVars, ImportsInv, RowsAppliedOnce, ReportTells, FailedLeavesNothing, WithinPlan, Listed
  <2>. QED
    BY <2>2, <2>3, <2>4 DEF ImportsInv
<1>. QED
  BY <1>1, <1>2, <1>3, <1>4, <1>5, <1>6, <1>7, <1>8, <1>9, <1>10 DEF ImportsNext

\* A job that is final stays as it is, while requests take turns.
LEMMA FinalJobKept ==
    ASSUME ImportsInv, [ImportsNext]_importVars,
           importJob # Missing, importJob.status \in FINAL_STATUSES, ~disturbed'
    PROVE  importJob' = importJob /\ applications' = applications
<1> DEFINE Stays == importJob' = importJob /\ applications' = applications
<1>1. CASE UNCHANGED importVars
  BY <1>1 DEF importVars
<1>2. ASSUME NEW kind \in Kinds, NEW mode \in Modes, NEW file \in Files, Upload(kind, mode, file)
      PROVE  Stays
  BY <1>2 DEF Upload
<1>3. ASSUME NEW s \in Skus, AddProduct(s) PROVE Stays
  BY <1>3 DEF AddProduct
<1>4. ASSUME NEW c \in Clerks, NEW wish \in {"execute", "cancel"}, Submit(c, wish) PROVE Stays
  BY <1>4 DEF Submit
<1>5. ASSUME NEW c \in Clerks, RefuseImport(c) \/ BreakOff(c) PROVE Stays
  BY <1>5 DEF RefuseImport, BreakOff
<1>6. ASSUME NEW c \in Clerks, Execute(c) \/ CancelImport(c) PROVE Stays
  <2>1. Unfinished(running[c].seen) /\ disturbed' = (disturbed \/ Disturbs(c))
    BY <1>6 DEF Execute, CancelImport
  <2>2. running[c].seen = importJob.status
    BY <2>1 DEF Disturbs
  <2>. QED
    BY <2>1, <2>2 DEF Unfinished
<1>7. ASSUME NEW c \in Clerks, RunBatch(c) \/ FinishImport(c) PROVE Stays
  <2>1. Working(c) /\ ~disturbed
    BY <1>7 DEF RunBatch, FinishImport
  <2>2. importJob.status = "processing"
    BY <2>1 DEF ImportsInv, OneAtWork
  <2>. QED
    BY <2>2 DEF FINAL_STATUSES
<1>. QED
  BY <1>1, <1>2, <1>3, <1>4, <1>5, <1>6, <1>7 DEF ImportsNext

\* An import does each row once, says what it did, leaves nothing of what
\* failed and keeps within the plan, whatever the file and the plan.
THEOREM ImportsAreSound == ImportsSpec => []ImportSound
<1>1. ImportsInv => ImportSound
  BY DEF ImportsInv, ImportSound
<1>. QED
  BY <1>1, ImportsStart, ImportsKept, PTL DEF ImportsSpec

\* A job that is final stays as it is, unless requests overlapped.
THEOREM FinalJobsStay == ImportsSpec => FinalJobStays
<1>1. ASSUME ImportsInv, [ImportsNext]_importVars
      PROVE  [importJob # Missing /\ importJob.status \in FINAL_STATUSES /\ ~disturbed'
              => importJob' = importJob /\ applications' = applications]_importVars
  BY <1>1, FinalJobKept
<1>. QED
  BY <1>1, ImportsStart, ImportsKept, PTL DEF ImportsSpec, FinalJobStays
===============================================================================
