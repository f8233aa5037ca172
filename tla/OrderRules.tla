----------------------------- MODULE OrderRules -----------------------------
(***************************************************************************)
(* The status rules of an Order, shared by every module whose actions      *)
(* change orders (src/apps/orders/services/order_service.py).              *)
(***************************************************************************)

OrderStatus == {"pending", "processing", "shipped", "delivered", "canceled"}

FinalOrderStatus == {"delivered", "canceled"}

AllowedTransitions ==
    [ pending    |-> {"processing", "canceled"},
      processing |-> {"shipped", "canceled"},
      shipped    |-> {"delivered", "canceled"},
      delivered  |-> {},
      canceled   |-> {} ]

\* The three guards of change_order_status, as functions of the status the
\* caller's Order instance holds.
MayChange(from, to) ==
    /\ from \notin FinalOrderStatus
    /\ to # from
    /\ to \in AllowedTransitions[from]

=============================================================================
