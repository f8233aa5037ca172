------------------------------ MODULE AfterSales ------------------------------
(***************************************************************************)
(* Refunds and return requests of one order                                *)
(* (src/apps/orders/services/refund_service.py, return_service.py), asked  *)
(* for by managers through the dashboard.                                  *)
(*                                                                         *)
(* A refund is planned on sums of the committed refunds, none of which is  *)
(* locked, and inserted later in the same transaction.  A return request   *)
(* moves on from the status its view loaded.  work[m] is the local state   *)
(* of manager m's request: between two of its steps any other request may  *)
(* commit.  overlaps, a history variable, counts how often a request began *)
(* while another was under way.  Refunds are inserted as SUCCEEDED, which  *)
(* is final, so their rows never change and are kept as sums.              *)
(***************************************************************************)
EXTENDS Integers, FiniteSets, FiniteSetsExt, Functions

CONSTANTS
    Items,          \* lines of the order
    Bought,         \* OrderItem.quantity
    UnitPrice,      \* OrderItem.unit_price
    UnitTax,        \* OrderItem.unit_tax
    TotalTax,       \* OrderItem.total_tax
    TaxIncluded,    \* whether the prices include the tax
    ShippingCost,   \* Order.shipping_cost
    ShippingTax,    \* Order.shipping_tax
    GrandTotal,     \* Order.grand_total
    MaxLine,        \* bound: units of an item in a refund from the form
    MaxOverlaps,    \* bound: requests that begin while another is under way
    Returns,        \* return requests that may be created
    Managers        \* concurrent requests of the dashboard

ASSUME OrderIsFinite == IsFiniteSet(Items) /\ IsFiniteSet(Returns)

ASSUME AmountsAssumption ==
    /\ Bought \in [Items -> Nat]
    /\ UnitPrice \in [Items -> Nat]
    /\ UnitTax \in [Items -> Nat]
    /\ TotalTax \in [Items -> Nat]
    /\ TaxIncluded \in BOOLEAN
    /\ ShippingCost \in Nat /\ ShippingTax \in Nat /\ GrandTotal \in Nat

VARIABLES
    paymentStatus,       \* Order.payment_status
    refunded,            \* approved_amount of the refunds, summed
    refundedQuantity,    \* RefundItem.quantity per item, summed
    refundedTax,         \* RefundItem.tax_amount per item, summed
    refundedShipping,    \* shipping_refund_amount, summed
    refundedShippingTax, \* shipping_tax_refund_amount, summed
    return,              \* the ReturnRequest rows with their items
    restocked,           \* StockMovement rows that refer to a ReturnItem
    work, overlaps

refundVars == <<refunded, refundedQuantity, refundedTax, refundedShipping, refundedShippingTax>>
salesVars == <<paymentStatus, refundVars, return, restocked, work, overlaps>>

ReturnTransitions ==
    [ none         |-> {"requested"},
      requested    |-> {"under_review", "approved", "rejected", "cancelled"},
      under_review |-> {"approved", "rejected", "cancelled"},
      approved     |-> {"in_transit", "received", "cancelled"},
      in_transit   |-> {"received", "cancelled"},
      received     |-> {"inspected", "cancelled"},
      inspected    |-> {"completed", "cancelled"},
      rejected     |-> {},
      completed    |-> {},
      cancelled    |-> {} ]

FinalReturn == {"rejected", "completed", "cancelled"}

Quantities == [Items -> Nat]
NoItems == [i \in Items |-> 0]

\* quantity_approved and quantity_received are null before they are set, and
\* every reader takes a null as nothing.  refund says that a Refund with the
\* idempotency key of the return exists; the row's own refund_id adds nothing
\* to it, since the key is looked up wherever refund_id is tested.
NoReturn == [status |-> "none", requested |-> NoItems, approved |-> NoItems, received |-> NoItems,
             restockable |-> {}, toRefund |-> {}, refund |-> FALSE]

Return == [status : DOMAIN ReturnTransitions, requested : Quantities, approved : Quantities,
           received : Quantities, restockable : SUBSET Items, toRefund : SUBSET Items, refund : BOOLEAN]

Plan == [lines : Quantities, tax : Quantities, shipping : Nat, shippingTax : Nat, total : Nat]

\* A request holds nothing, the instance of a return, the items of a return
\* about to be inserted, or a planned refund, which may belong to a return.
Idle == [step |-> "idle"]
Opened == [step : {"opened"}, return : Returns, status : DOMAIN ReturnTransitions]
Creating == [step : {"creating"}, return : Returns, lines : Quantities]
Direct == "direct"   \* a refund that belongs to no return
Planned == [step : {"planned"}, plan : Plan, return : Returns \cup {Direct}]
Checked == [step : {"checked"}, plan : Plan, return : Returns \cup {Direct}, mark : BOOLEAN]

ASSUME BoundsAssumption == MaxLine \in Nat /\ MaxOverlaps \in Nat

ASSUME DirectAssumption == Direct \notin Returns

SalesTypeOK ==
    /\ paymentStatus \in {"pending", "paid", "refunded"}
    /\ refunded \in Nat
    /\ refundedQuantity \in Quantities
    /\ refundedTax \in Quantities
    /\ refundedShipping \in Nat
    /\ refundedShippingTax \in Nat
    /\ return \in [Returns -> Return]
    /\ restocked \in [Returns -> Quantities]
    /\ work \in [Managers -> {Idle} \cup Opened \cup Creating \cup Planned \cup Checked]
    /\ overlaps \in 0 .. MaxOverlaps

SalesInit ==
    /\ paymentStatus = "pending"
    /\ refunded = 0
    /\ refundedQuantity = NoItems
    /\ refundedTax = NoItems
    /\ refundedShipping = 0
    /\ refundedShippingTax = 0
    /\ return = [r \in Returns |-> NoReturn]
    /\ restocked = [r \in Returns |-> NoItems]
    /\ work = [m \in Managers |-> Idle]
    /\ overlaps = 0

-----------------------------------------------------------------------------
(* Amounts.                                                                *)

Least(a, b) == IF a <= b THEN a ELSE b
Remaining(a, b) == IF a >= b THEN a - b ELSE 0   \* max(0, a - b)

PaidAmount == IF paymentStatus \in {"paid", "refunded"} THEN GrandTotal ELSE 0
RefundableAmount == Remaining(PaidAmount, refunded)
MaxShipping == Remaining(ShippingCost, refundedShipping)

\* Decimal.quantize(Decimal("1")) of n / d: half to even.
Quantized(n, d) ==
    LET floor == n \div d
        twice == 2 * (n % d) IN
    IF twice > d \/ (twice = d /\ floor % 2 = 1) THEN floor + 1 ELSE floor

\* The tax on a part of the shipping cost, never more than is left of it.
ShippingTaxOf(shipping) ==
    IF ShippingCost > 0 /\ shipping > 0
    THEN Least(Remaining(ShippingTax, refundedShippingTax), Quantized(shipping * ShippingTax, ShippingCost))
    ELSE 0

LineTax(i, quantity) ==
    Least(Remaining(TotalTax[i], refundedTax[i]), UnitTax[i] * quantity)

LinesTotal(lines, tax) == SumFunction([i \in Items |-> UnitPrice[i] * lines[i] + tax[i]])

\* What these lines and this part of the shipping would pay back now.
PlanFor(lines, shipping) ==
    LET tax == [i \in Items |-> IF lines[i] = 0 THEN 0 ELSE LineTax(i, lines[i])]
        shippingTax == ShippingTaxOf(shipping) IN
    [lines |-> lines, tax |-> tax, shipping |-> shipping, shippingTax |-> shippingTax,
     total |-> LinesTotal(lines, tax) + shipping + shippingTax]

\* Fault: what was refunded before is forgotten.
MayRefundAnew(plan) ==
    /\ plan.shipping <= ShippingCost
    /\ \A i \in Items : plan.lines[i] <= Bought[i]
    /\ plan.total \in 1 .. PaidAmount

\* The checks of plan_order_refund.
MayRefund(plan) ==
    /\ plan.shipping <= Remaining(ShippingCost, refundedShipping)
    /\ \A i \in Items : plan.lines[i] = 0 \/ plan.lines[i] <= Bought[i] - refundedQuantity[i]
    /\ plan.total \in 1 .. RefundableAmount

-----------------------------------------------------------------------------
(* Requests.                                                               *)

Busy(m) == work[m] # Idle

Set(m, state) == work' = [work EXCEPT ![m] = state]

\* A request begins; another one may be under way.
Begin(m, state) ==
    /\ ~Busy(m)
    /\ Set(m, state)
    /\ IF \A n \in Managers \ {m} : ~Busy(n) THEN UNCHANGED overlaps
       ELSE overlaps < MaxOverlaps /\ overlaps' = overlaps + 1

Finish(m) == Set(m, Idle) /\ UNCHANGED overlaps

\* complete_return holds the row locks of the items until it commits.
Unlocked(r) ==
    \A m \in Managers : work[m].step \in {"planned", "checked"} => work[m].return # r

\* The payment of the order is credited (GatewayPayment).
Pay ==
    /\ paymentStatus = "pending"
    /\ paymentStatus' = "paid"
    /\ UNCHANGED <<refundVars, return, restocked, work, overlaps>>

\* The request failed, was refused or was killed: its transaction is undone.
Abort(m) ==
    /\ Busy(m)
    /\ Finish(m)
    /\ UNCHANGED <<paymentStatus, refundVars, return, restocked>>

\* execute_order_refund, asked for in the refund form, up to its plan.
PlanRefund(m, lines, shipping) ==
    /\ \A i \in Items : lines[i] <= Bought[i]
    /\ LET plan == PlanFor(lines, shipping) IN
       /\ MayRefund(plan)
       /\ Begin(m, [step |-> "planned", plan |-> plan, return |-> Direct])
    /\ UNCHANGED <<paymentStatus, refundVars, return, restocked>>

\* Fault: the remainder is computed before the request's own rows are there.
CheckRemainderBefore(m) ==
    /\ work[m].step = "planned"
    /\ LET mark == paymentStatus = "paid" /\ Remaining(GrandTotal, refunded) = 0 IN
       Set(m, [step |-> "checked", plan |-> work[m].plan, return |-> work[m].return, mark |-> mark])
    /\ UNCHANGED <<paymentStatus, refundVars, return, restocked, overlaps>>

\* The rows are inserted, and refundable_amount is computed again: from the
\* refunds committed by now and the request's own.
CheckRemainder(m) ==
    /\ work[m].step = "planned"
    /\ LET mark == paymentStatus = "paid" /\ Remaining(GrandTotal, refunded + work[m].plan.total) = 0 IN
       Set(m, [step |-> "checked", plan |-> work[m].plan, return |-> work[m].return, mark |-> mark])
    /\ UNCHANGED <<paymentStatus, refundVars, return, restocked, overlaps>>

\* The rows of a planned refund become visible.
AddRefund(plan, mark) ==
    /\ refunded' = refunded + plan.total
    /\ refundedQuantity' = [i \in Items |-> refundedQuantity[i] + plan.lines[i]]
    /\ refundedTax' = [i \in Items |-> refundedTax[i] + plan.tax[i]]
    /\ refundedShipping' = refundedShipping + plan.shipping
    /\ refundedShippingTax' = refundedShippingTax + plan.shippingTax
    /\ paymentStatus' = IF mark THEN "refunded" ELSE paymentStatus

\* A refund from the form commits.  If it restocks, it refers to its own
\* RefundItem and never to a ReturnItem.
CommitRefund(m) ==
    /\ work[m].step = "checked"
    /\ work[m].return = Direct
    /\ AddRefund(work[m].plan, work[m].mark)
    /\ Finish(m)
    /\ UNCHANGED <<return, restocked>>

-----------------------------------------------------------------------------
(* Return requests.                                                        *)

\* What a return reserves of an item until it is rejected or cancelled.
Reserved(r, i) ==
    IF return[r].status \in {"none", "rejected", "cancelled"} THEN 0 ELSE return[r].requested[i]

ReservedQuantity(i) == SumFunction([r \in Returns |-> Reserved(r, i)])

\* create_return_request's check of each line.
MayReturn(lines) ==
    /\ lines # NoItems
    /\ \A i \in Items : lines[i] = 0 \/ lines[i] <= Bought[i] - ReservedQuantity(i)

\* create_return_request sums the earlier requests, which it does not lock.
PlanReturn(m, r, lines) ==
    /\ return[r].status = "none"
    /\ \A n \in Managers : work[n].step = "creating" => work[n].return # r
    /\ MayReturn(lines)
    /\ Begin(m, [step |-> "creating", return |-> r, lines |-> lines])
    /\ UNCHANGED <<paymentStatus, refundVars, return, restocked>>

CommitReturn(m) ==
    /\ work[m].step = "creating"
    /\ return' = [return EXCEPT ![work[m].return].status = "requested",
                                ![work[m].return].requested = work[m].lines]
    /\ Finish(m)
    /\ UNCHANGED <<paymentStatus, refundVars, restocked>>

\* The view of every later operation loads the return.
OpenReturn(m, r) ==
    /\ return[r].status # "none"
    /\ Begin(m, [step |-> "opened", return |-> r, status |-> return[r].status])
    /\ UNCHANGED <<paymentStatus, refundVars, return, restocked>>

\* Fault: the instance's status is not compared with the transitions.
TransitionUnchecked(m, r, to) ==
    /\ work[m].step = "opened"
    /\ work[m].return = r

\* _transition: decided on the instance, not on the row.
Transition(m, r, to) ==
    /\ work[m].step = "opened"
    /\ work[m].return = r
    /\ work[m].status \notin FinalReturn
    /\ to \in ReturnTransitions[work[m].status]

\* What the operations but complete_return end with.
SaveReturn(m, r, row) ==
    /\ return' = [return EXCEPT ![r] = row]
    /\ Finish(m)
    /\ UNCHANGED <<paymentStatus, refundVars, restocked>>

ReviewReturn(m, r) ==
    /\ Transition(m, r, "under_review")
    /\ SaveReturn(m, r, [return[r] EXCEPT !.status = "under_review"])

RejectReturn(m, r) ==
    /\ Transition(m, r, "rejected")
    /\ SaveReturn(m, r, [return[r] EXCEPT !.status = "rejected"])

\* The constraint return_item_received_lte_approved.
DatabaseAccepts(row) == \A i \in Items : row.received[i] <= row.approved[i]

ApproveReturn(m, r, approved) ==
    /\ Transition(m, r, "approved")
    /\ Unlocked(r)
    /\ \A i \in Items : approved[i] <= return[r].requested[i]
    /\ LET row == [return[r] EXCEPT !.status = "approved", !.approved = approved] IN
       DatabaseAccepts(row) /\ SaveReturn(m, r, row)

ReceiveReturn(m, r, received) ==
    /\ Transition(m, r, "received")
    /\ Unlocked(r)
    /\ \A i \in Items : received[i] <= return[r].approved[i]
    /\ SaveReturn(m, r, [return[r] EXCEPT !.status = "received", !.received = received])

\* Of the items the form shows, those to restock and those to pay back.
InspectReturn(m, r, present, restockable, toRefund) ==
    /\ Transition(m, r, "inspected")
    /\ Unlocked(r)
    /\ SaveReturn(m, r, [return[r] EXCEPT
            !.status = "inspected",
            !.restockable = (@ \ present) \cup restockable,
            !.toRefund = (@ \ present) \cup toRefund])

\* restock_return_item for every item in good condition that arrived and has
\* no movement yet; the movement carries the quantity received.
RestockReturn(r) ==
    restocked' = [restocked EXCEPT ![r] = [i \in Items |->
        IF i \in return[r].restockable /\ @[i] = 0 THEN return[r].received[i] ELSE @[i]]]

RefundLines(r) == [i \in Items |-> IF i \in return[r].toRefund THEN return[r].received[i] ELSE 0]

\* complete_return when there is nothing (more) to pay back: no item is to be
\* refunded, or there is a refund with the return's idempotency key.
CompleteReturn(m, r) ==
    /\ Transition(m, r, "completed")
    /\ Unlocked(r)
    /\ RefundLines(r) = NoItems \/ return[r].refund
    /\ RestockReturn(r)
    /\ return' = [return EXCEPT ![r].status = "completed"]
    /\ Finish(m)
    /\ UNCHANGED <<paymentStatus, refundVars>>

\* Fault: the refund of a return has no idempotency key.
PlanReturnRefundUnkeyed(m, r) ==
    /\ Transition(m, r, "completed")
    /\ Unlocked(r)
    /\ RefundLines(r) # NoItems
    /\ LET plan == PlanFor(RefundLines(r), 0) IN
       /\ MayRefund(plan)
       /\ Set(m, [step |-> "planned", plan |-> plan, return |-> r])
    /\ UNCHANGED <<paymentStatus, refundVars, return, restocked, overlaps>>

\* complete_return plans the refund of the return, holding the items' locks.
PlanReturnRefund(m, r) ==
    /\ Transition(m, r, "completed")
    /\ Unlocked(r)
    /\ RefundLines(r) # NoItems /\ ~return[r].refund
    /\ LET plan == PlanFor(RefundLines(r), 0) IN
       /\ MayRefund(plan)
       /\ Set(m, [step |-> "planned", plan |-> plan, return |-> r])
    /\ UNCHANGED <<paymentStatus, refundVars, return, restocked, overlaps>>

CommitReturnRefund(m, r) ==
    /\ work[m].step = "checked"
    /\ work[m].return = r
    /\ AddRefund(work[m].plan, work[m].mark)
    /\ RestockReturn(r)
    /\ return' = [return EXCEPT ![r].status = "completed", ![r].refund = TRUE]
    /\ Finish(m)

-----------------------------------------------------------------------------
Refundable == [Items -> 0 .. MaxLine]
Returnable == [Items -> 0 .. Max({Bought[i] : i \in Items})]

RefundStep(m) ==
    \/ \E lines \in Refundable, shipping \in 0 .. ShippingCost : PlanRefund(m, lines, shipping)
    \/ CheckRemainder(m)
    \/ CommitRefund(m)
    \/ Abort(m)

ReturnStep(m, r) ==
    \/ \E lines \in Returnable : PlanReturn(m, r, lines)
    \/ OpenReturn(m, r)
    \/ ReviewReturn(m, r)
    \/ RejectReturn(m, r)
    \/ \E quantities \in Returnable : ApproveReturn(m, r, quantities) \/ ReceiveReturn(m, r, quantities)
    \/ \E present \in SUBSET Items : \E restockable, toRefund \in SUBSET present :
          InspectReturn(m, r, present, restockable, toRefund)
    \/ CompleteReturn(m, r)
    \/ PlanReturnRefund(m, r)
    \/ CommitReturnRefund(m, r)

SalesNext ==
    \/ Pay
    \/ \E m \in Managers : RefundStep(m) \/ CommitReturn(m)
    \/ \E m \in Managers, r \in Returns : ReturnStep(m, r)

SalesSpec == SalesInit /\ [][SalesNext]_salesVars

-----------------------------------------------------------------------------
(* Properties.                                                             *)

\* While no two requests ran at the same time, no more was paid back than was
\* paid: plan_order_refund caps each refund at what is left.
PaidBackWithinPaid == overlaps = 0 => refunded <= PaidAmount

\* The same for the units of each item, however refunds from the form and
\* from returns are mixed.
RefundedWithinBought == overlaps = 0 => \A i \in Items : refundedQuantity[i] <= Bought[i]

\* The tax, the shipping cost and its tax are paid back at most once, although
\* each refund derives its share by rounding.
TaxPaidBackOnce ==
    overlaps = 0 =>
        /\ \A i \in Items : refundedTax[i] <= TotalTax[i]
        /\ refundedShipping <= ShippingCost
        /\ refundedShippingTax <= ShippingTax

\* What is paid back for an item is at most what the item cost.  With prices
\* that include the tax the refund adds the tax a second time.
ItemPaidBackWithinCost ==
    overlaps = 0 =>
        \A i \in Items : UnitPrice[i] * refundedQuantity[i] + refundedTax[i]
                         <= UnitPrice[i] * Bought[i] + IF TaxIncluded THEN 0 ELSE TotalTax[i]

\* The order is marked refunded only when all of it was paid back, even by
\* requests that overlap; and, if none did, as soon as all of it was.
RefundedWhenAll ==
    /\ paymentStatus = "refunded" => refunded >= GrandTotal
    /\ overlaps = 0 /\ refunded > 0 /\ refunded = GrandTotal => paymentStatus = "refunded"

\* What refunds pay back never exceeds what the order paid for, in money, in
\* units, in tax, in shipping and for each item, and the order is marked
\* refunded when it is.
RefundsWithinOrder ==
    /\ SalesTypeOK
    /\ PaidBackWithinPaid
    /\ RefundedWithinBought
    /\ TaxPaidBackOnce
    /\ ItemPaidBackWithinCost
    /\ RefundedWhenAll

\* A return is paid back once, however many stale or repeated requests
\* complete it: no refund of it is under way when it has one, or two at a time.
ReturnPaidOnce ==
    \A m \in Managers, r \in Returns :
        work[m].step \in {"planned", "checked"} /\ work[m].return = r =>
            ~return[r].refund /\ \A n \in Managers \ {m} : ~(work[n].step \in {"planned", "checked"} /\ work[n].return = r)

\* No more goods go back into the stock for a return than it asked for, even
\* if quantities are changed by a request that loaded the return earlier.
RestockedWithinRequest ==
    \A r \in Returns, i \in Items : restocked[r][i] <= return[r].requested[i]

\* A completed return is settled: what was to be paid back has a refund, and
\* what was to be restocked is in the stock.
CompletedIsSettled ==
    \A r \in Returns : return[r].status = "completed" =>
        /\ RefundLines(r) # NoItems => return[r].refund
        /\ \A i \in return[r].restockable : return[r].received[i] > 0 => restocked[r][i] > 0

\* While no two requests ran at the same time, all returns of an item together
\* put back at most what was bought.
ReturnedWithinBought ==
    overlaps = 0 => \A i \in Items : SumFunction([r \in Returns |-> restocked[r][i]]) <= Bought[i]

\* A return pays back and restocks what it asked for, once.
ReturnsSettled ==
    /\ ReturnPaidOnce
    /\ RestockedWithinRequest
    /\ CompletedIsSettled
    /\ ReturnedWithinBought

\* What is paid back and what is taken back, together.
SalesSound == RefundsWithinOrder /\ ReturnsSettled

\* While no two requests ran at the same time, a return that is rejected or
\* completed stays so (ReturnRequest.FINAL_STATUSES).
FinalReturnStays ==
    [][overlaps' = 0 => \A r \in Returns : return[r].status \in FinalReturn
                                           => return'[r].status = return[r].status]_salesVars

-----------------------------------------------------------------------------
(* The refunds implement the abstract ledger of RefundLedger: an order is  *)
(* paid once it left "pending", and a return is paid back once a refund    *)
(* with its idempotency key exists.                                        *)
Refunds == INSTANCE RefundLedger WITH
               Price  <- GrandTotal,
               paid   <- paymentStatus # "pending",
               back   <- refunded,
               marked <- paymentStatus = "refunded",
               repaid <- {r \in Returns : return[r].refund},
               inTurn <- overlaps = 0

\* Every step of the dashboard's requests pays money back as the ledger allows,
\* or changes nothing of it: execute_order_refund never pays back an unpaid
\* order, complete_return pays a return back at most once, and the order is
\* marked refunded by the refund that pays back the rest of it.
ImplementsRefundLedger == Refunds!Spec

===============================================================================
