----------------------------- MODULE OrderStatus -----------------------------
(***************************************************************************)
(* Orders for one item in the dashboard: change_order_status               *)
(* (src/apps/orders/services/order_service.py) called by several staff     *)
(* members and by the payment of the order.                                *)
(*                                                                         *)
(* order_detail loads the order, and change_order_status decides on the    *)
(* instance it is given: it neither locks nor re-reads the row.  A request *)
(* is therefore a read followed by a write.  The payment's transaction     *)
(* refreshes the order under its row lock, so it is one step.              *)
(***************************************************************************)
EXTENDS Naturals, Sequences, FiniteSetsExt, OrderRules

CONSTANTS
    Orders,        \* orders that may be placed
    Staff,         \* requests of staff members
    NoOrder,       \* the order of a request that has loaded none
    Quantity,      \* the quantity every order has of the item
    OpeningStock   \* the stock of the item before any order

ASSUME QuantityAssumption == Quantity \in Nat \ {0} /\ OpeningStock \in Nat
ASSUME NoOrderAssumption == NoOrder \notin Orders /\ IsFiniteSet(Orders)

VARIABLES
    orderStatus,    \* Order.status, "none" before the order is placed
    orderHistory,   \* the OrderStatusHistory rows of each order, oldest first
    itemStock,      \* the stock of the item
    loadedOrder     \* the Order instance each request holds

orderVars == <<orderStatus, orderHistory, itemStock, loadedOrder>>

NotLoaded == [order |-> NoOrder, status |-> "none"]

NoStatus == ""     \* from_status of the first row
HistoryEntry == [from : OrderStatus \cup {NoStatus}, to : OrderStatus]

OrdersTypeOK ==
    /\ orderStatus \in [Orders -> OrderStatus \cup {"none"}]
    /\ orderHistory \in [Orders -> Seq(HistoryEntry)]
    /\ itemStock \in Nat
    /\ loadedOrder \in [Staff -> [order : Orders, status : OrderStatus] \cup {NotLoaded}]

OrdersInit ==
    /\ orderStatus = [o \in Orders |-> "none"]
    /\ orderHistory = [o \in Orders |-> <<>>]
    /\ itemStock = OpeningStock
    /\ loadedOrder = [m \in Staff |-> NotLoaded]

-----------------------------------------------------------------------------
SetStatus(o, to) == orderStatus' = [orderStatus EXCEPT ![o] = to]

AddHistory(o, from, to) ==
    orderHistory' = [orderHistory EXCEPT ![o] = Append(@, [from |-> from, to |-> to])]

\* create_order_from_cart, as far as the order's status and stock go.
PlaceOrder(o) ==
    /\ orderStatus[o] = "none"
    /\ Quantity <= itemStock
    /\ itemStock' = itemStock - Quantity
    /\ SetStatus(o, "pending")
    /\ AddHistory(o, NoStatus, "pending")
    /\ UNCHANGED loadedOrder

\* restock_order: the product is locked and the whole quantity goes back.
\* There is no guard against an earlier restock of the same order.
RestockOrder == itemStock' = itemStock + Quantity

\* Fault: cancelling does not return the stock.
ChangeWithoutRestock(o, from, to) ==
    /\ MayChange(from, to)
    /\ SetStatus(o, to)
    /\ UNCHANGED itemStock
    /\ AddHistory(o, from, to)

\* change_order_status on an instance that holds from.
ChangeOrderStatus(o, from, to) ==
    /\ MayChange(from, to)
    /\ SetStatus(o, to)
    /\ IF to = "canceled" THEN RestockOrder ELSE UNCHANGED itemStock
    /\ AddHistory(o, from, to)

LoadOrder(m, o) ==
    /\ loadedOrder[m] = NotLoaded
    /\ orderStatus[o] # "none"
    /\ loadedOrder' = [loadedOrder EXCEPT ![m] = [order |-> o, status |-> orderStatus[o]]]
    /\ UNCHANGED <<orderStatus, orderHistory, itemStock>>

SubmitChange(m, to) ==
    /\ loadedOrder[m] # NotLoaded
    /\ ChangeOrderStatus(loadedOrder[m].order, loadedOrder[m].status, to)
    /\ loadedOrder' = [loadedOrder EXCEPT ![m] = NotLoaded]

\* The instance may not move to the status asked for: ValueError.
RefuseChange(m, to) ==
    /\ loadedOrder[m] # NotLoaded
    /\ ~MayChange(loadedOrder[m].status, to)
    /\ loadedOrder' = [loadedOrder EXCEPT ![m] = NotLoaded]
    /\ UNCHANGED <<orderStatus, orderHistory, itemStock>>

\* The payment was verified: the order moves on, or the payment rolls back.
PaymentProcesses(o) ==
    /\ orderStatus[o] # "none"
    /\ ChangeOrderStatus(o, orderStatus[o], "processing")
    /\ UNCHANGED loadedOrder

OrdersNext ==
    \/ \E o \in Orders :
          \/ PlaceOrder(o)
          \/ PaymentProcesses(o)
    \/ \E m \in Staff :
          \/ \E o \in Orders : LoadOrder(m, o)
          \/ \E to \in OrderStatus : SubmitChange(m, to) \/ RefuseChange(m, to)

OrdersSpec == OrdersInit /\ [][OrdersNext]_orderVars

-----------------------------------------------------------------------------
(* Properties.                                                             *)

\* Every change left exactly one history row: the last row of an order names
\* the status it has, however stale the request that changed it was.
HistoryNamesStatus ==
    \A o \in Orders :
        orderStatus[o] # "none" =>
            /\ orderHistory[o] # <<>>
            /\ orderHistory[o][Len(orderHistory[o])].to = orderStatus[o]

\* The history rows that record a cancellation.
CanceledRows(o) ==
    {<<o, i>> : i \in {j \in DOMAIN orderHistory[o] : orderHistory[o][j].to = "canceled"}}
Cancellations == UNION {CanceledRows(o) : o \in Orders}

\* Orders placed and cancellations recorded account for the stock: each
\* cancellation in the history, and nothing else, returned a quantity.
HistoryExplainsStock ==
    itemStock = OpeningStock - Quantity * Cardinality({o \in Orders : orderStatus[o] # "none"})
                + Quantity * Cardinality(Cancellations)

\* Status, history and stock change together, whatever instances the requests
\* hold.
OrdersSound == OrdersTypeOK /\ HistoryNamesStatus /\ HistoryExplainsStock

\* The comment above restock_order: the stock of an order is returned at most
\* once.  Refuted by two requests that loaded the order before either wrote.
RestockedAtMostOnce == itemStock <= OpeningStock

=============================================================================
