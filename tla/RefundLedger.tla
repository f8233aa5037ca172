----------------------------- MODULE RefundLedger -----------------------------
(***************************************************************************)
(* What the refunds of one order promise, without plans, lines or requests *)
(* under way: money goes back only after the order was paid, each return   *)
(* is paid back at most once, and the order is marked refunded by a refund *)
(* that leaves nothing of it.  While the requests take turns, no more goes *)
(* back than was paid, and the refund that completes it marks the order.   *)
(* AfterSales is shown to implement it.                                    *)
(***************************************************************************)
EXTENDS Integers

CONSTANTS
    Price,      \* what the customer paid for the order
    Returns

VARIABLES
    paid,       \* whether the order has been paid
    back,       \* the money that went back
    marked,     \* whether the order is marked refunded
    repaid,     \* the returns that were paid back
    inTurn      \* whether no request began beside another so far

vars == <<paid, back, marked, repaid, inTurn>>

Init ==
    /\ paid = FALSE
    /\ back = 0
    /\ marked = FALSE
    /\ repaid = {}
    /\ inTurn = TRUE

Credit ==
    /\ ~paid
    /\ paid' = TRUE
    /\ UNCHANGED <<back, marked, repaid, inTurn>>

\* A refund, of a return or of none.
PayBack ==
    /\ paid
    /\ back' > back
    /\ inTurn => back' <= Price
    /\ marked => marked'
    /\ marked' /\ ~marked => back' >= Price
    /\ inTurn /\ back' >= Price => marked'
    /\ \/ UNCHANGED repaid
       \/ \E r \in Returns \ repaid : repaid' = repaid \cup {r}
    /\ UNCHANGED <<paid, inTurn>>

LoseTurn ==
    /\ inTurn
    /\ inTurn' = FALSE
    /\ UNCHANGED <<paid, back, marked, repaid>>

Next == Credit \/ PayBack \/ LoseTurn

Spec == Init /\ [][Next]_vars

=============================================================================
