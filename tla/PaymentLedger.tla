---------------------------- MODULE PaymentLedger ----------------------------
(***************************************************************************)
(* What the payment of one order promises, without callbacks, rows or      *)
(* retries: the gateway captures money for some of the order's attempts,   *)
(* and the shop credits the order once, only against captured money.       *)
(* GatewayPayment is shown to implement it.                                *)
(***************************************************************************)
CONSTANT Attempts

VARIABLES captured,   \* the attempts whose money the gateway has captured
          credited    \* whether the order has been marked paid

vars == <<captured, credited>>

Init ==
    /\ captured = {}
    /\ credited = FALSE

Capture ==
    /\ \E a \in Attempts \ captured : captured' = captured \cup {a}
    /\ UNCHANGED credited

Credit ==
    /\ ~credited
    /\ captured # {}
    /\ credited' = TRUE
    /\ UNCHANGED captured

Next == Capture \/ Credit

Spec == Init /\ [][Next]_vars

=============================================================================
