--------------------------- MODULE GatewayPayment ---------------------------
(***************************************************************************)
(* Paying one order through a payment gateway                              *)
(* (src/apps/orders/services/gateway_payment_service.py).                  *)
(*                                                                         *)
(* Every initiate_payment call creates one PaymentAttempt, so a call and   *)
(* its attempt share a name in Attempts.  A callback is an HTTP request    *)
(* that runs process_callback_and_verify: it reads the attempt and the     *)
(* order without a lock, writes the attempt without a lock, calls the      *)
(* gateway, and only then opens a transaction.  Each statement outside a   *)
(* transaction commits on its own, so each is an action here; pc[c] and    *)
(* target[c] are the local state of request c.  Staff members change the   *)
(* order's status from an Order instance they read earlier.                *)
(***************************************************************************)
EXTENDS Naturals, OrderRules

CONSTANTS
    Attempts,     \* initiate_payment calls, and the attempts they create
    CodAttempts,  \* those made with the cash-on-delivery adapter
    Callbacks,    \* concurrent callback requests
    Staff,        \* dashboard users changing the order's status
    NoAttempt,    \* target of a request that handles no attempt
    MayCrash      \* whether a request may die between two statements

ASSUME CodAssumption == CodAttempts \subseteq Attempts
ASSUME NoAttemptAssumption == NoAttempt \notin Attempts
ASSUME MayCrashAssumption == MayCrash \in BOOLEAN

VARIABLES
    attempt,        \* PaymentAttempt.status; "none" before the row exists
    initiated,      \* how far the initiate_payment call of an attempt is
    gateway,        \* the gateway's own record of the attempt (external)
    paymentStatus,  \* Order.payment_status
    orderStatus,    \* Order.status
    transactions,   \* number of Transaction rows with status OK
    pc, target,     \* local state of the callback requests
    seen            \* Order.status each staff member last read

orderVars    == <<paymentStatus, orderStatus, transactions>>
callbackVars == <<pc, target>>
vars == <<attempt, initiated, gateway, orderVars, callbackVars, seen>>

FinalAttempt == {"succeeded", "failed", "canceled", "expired"}

AttemptStatus ==
    {"none", "created", "requesting", "redirect_ready", "pending"} \cup FinalAttempt

\* "closed": no session; "open": the customer may pay; "paid": the customer
\* paid, not yet verified; "captured": a verify call succeeded.
GatewayState == {"closed", "open", "paid", "captured"}

NotRead == "not_read"

TypeOK ==
    /\ attempt \in [Attempts -> AttemptStatus]
    /\ initiated \in [Attempts -> {"idle", "checked", "done"}]
    /\ gateway \in [Attempts -> GatewayState]
    /\ paymentStatus \in {"pending", "paid"}
    /\ orderStatus \in OrderStatus
    /\ transactions \in Nat
    /\ pc \in [Callbacks -> {"idle", "late", "pending", "verify", "failed", "commit"}]
    /\ target \in [Callbacks -> Attempts \cup {NoAttempt}]
    /\ seen \in [Staff -> OrderStatus \cup {NotRead}]

Init ==
    /\ attempt = [a \in Attempts |-> "none"]
    /\ initiated = [a \in Attempts |-> "idle"]
    /\ gateway = [a \in Attempts |-> "closed"]
    /\ paymentStatus = "pending"
    /\ orderStatus = "pending"
    /\ transactions = 0
    /\ pc = [c \in Callbacks |-> "idle"]
    /\ target = [c \in Callbacks |-> NoAttempt]
    /\ seen = [m \in Staff |-> NotRead]

-----------------------------------------------------------------------------
(* initiate_payment: one request per attempt.  The idempotency key the view *)
(* passes is a fresh nonce, so the lookup by key never finds a row.         *)

SetAttempt(a, status) == attempt' = [attempt EXCEPT ![a] = status]

\* The unpaid guard, on the Order the view read.
CheckUnpaid(a) ==
    /\ initiated[a] = "idle"
    /\ paymentStatus # "paid"
    /\ initiated' = [initiated EXCEPT ![a] = "checked"]
    /\ UNCHANGED <<attempt, gateway, orderVars, callbackVars, seen>>

CreateAttempt(a) ==
    /\ initiated[a] = "checked"
    /\ SetAttempt(a, "created")
    /\ initiated' = [initiated EXCEPT ![a] = "done"]
    /\ UNCHANGED <<gateway, orderVars, callbackVars, seen>>

\* Fault: cash on delivery credits the order at once.
RecordCodPays(a) ==
    /\ attempt[a] = "created"
    /\ a \in CodAttempts
    /\ SetAttempt(a, "succeeded")
    /\ paymentStatus' = "paid"
    /\ UNCHANGED <<initiated, gateway, orderStatus, transactions, callbackVars, seen>>

\* Cash on delivery: succeeded at once, the order stays unpaid.
RecordCod(a) ==
    /\ attempt[a] = "created"
    /\ a \in CodAttempts
    /\ SetAttempt(a, "succeeded")
    /\ UNCHANGED <<initiated, gateway, orderVars, callbackVars, seen>>

StartRequest(a) ==
    /\ attempt[a] = "created"
    /\ a \notin CodAttempts
    /\ SetAttempt(a, "requesting")
    /\ UNCHANGED <<initiated, gateway, orderVars, callbackVars, seen>>

\* The gateway opened a session; the customer is redirected to it.
RequestAccepted(a) ==
    /\ attempt[a] = "requesting"
    /\ SetAttempt(a, "redirect_ready")
    /\ gateway' = [gateway EXCEPT ![a] = "open"]
    /\ UNCHANGED <<initiated, orderVars, callbackVars, seen>>

\* GatewayError from create_payment: no track id, so no session to pay.
RequestFailed(a) ==
    /\ attempt[a] = "requesting"
    /\ SetAttempt(a, "failed")
    /\ UNCHANGED <<initiated, gateway, orderVars, callbackVars, seen>>

\* External: the customer pays on the gateway's page.
CustomerPays(a) ==
    /\ gateway[a] = "open"
    /\ gateway' = [gateway EXCEPT ![a] = "paid"]
    /\ UNCHANGED <<attempt, initiated, orderVars, callbackVars, seen>>

-----------------------------------------------------------------------------
(* process_callback_and_verify, one action per statement that reads or     *)
(* writes shared state.                                                    *)

Goto(c, label) == pc' = [pc EXCEPT ![c] = label]

Finish(c) ==
    /\ Goto(c, "idle")
    /\ target' = [target EXCEPT ![c] = NoAttempt]

\* One joined query reads attempt and order.  A final attempt returns at
\* once; otherwise the branch is chosen on the payment_status just read.  The
\* customer, or a refresh of his page, calls back once redirected.
ReadAttempt(c, a) ==
    /\ pc[c] = "idle"
    /\ gateway[a] # "closed"
    /\ attempt[a] \notin FinalAttempt
    /\ target' = [target EXCEPT ![c] = a]
    /\ Goto(c, IF paymentStatus = "paid" THEN "late" ELSE "pending")
    /\ UNCHANGED <<attempt, initiated, gateway, orderVars, seen>>

\* Fault: a late attempt on a PAID order is marked SUCCEEDED.
CancelLateSucceeds(c) ==
    /\ pc[c] = "late"
    /\ SetAttempt(target[c], "succeeded")
    /\ Finish(c)
    /\ UNCHANGED <<initiated, gateway, orderVars, seen>>

\* The order was paid when read: this attempt is canceled, without a lock.
CancelLate(c) ==
    /\ pc[c] = "late"
    /\ SetAttempt(target[c], "canceled")
    /\ Finish(c)
    /\ UNCHANGED <<initiated, gateway, orderVars, seen>>

\* Unlocked write of PENDING, whatever the row holds by now.
MarkPending(c) ==
    /\ pc[c] = "pending"
    /\ SetAttempt(target[c], "pending")
    /\ Goto(c, "verify")
    /\ UNCHANGED <<initiated, gateway, orderVars, target, seen>>

\* Fault: the callback's parameters are trusted instead of the gateway.
VerifySucceedsUnchecked(c) ==
    /\ pc[c] = "verify"
    /\ Goto(c, "commit")
    /\ UNCHANGED <<attempt, initiated, gateway, orderVars, target, seen>>

\* verify_payment succeeds when the customer paid, also for an attempt that
\* was verified before (Zibal result 201).
VerifySucceeds(c) ==
    /\ pc[c] = "verify"
    /\ gateway[target[c]] \in {"paid", "captured"}
    /\ gateway' = [gateway EXCEPT ![target[c]] = "captured"]
    /\ Goto(c, "commit")
    /\ UNCHANGED <<attempt, initiated, orderVars, target, seen>>

\* A configuration error, a GatewayError or a result without success.  A
\* timeout may hide a capture the gateway did make.
VerifyFails(c) ==
    /\ pc[c] = "verify"
    /\ \/ UNCHANGED gateway
       \/ /\ gateway[target[c]] = "paid"
          /\ gateway' = [gateway EXCEPT ![target[c]] = "captured"]
    /\ Goto(c, "failed")
    /\ UNCHANGED <<attempt, initiated, orderVars, target, seen>>

\* Unlocked write of FAILED, whatever the row holds by now.
MarkFailed(c) ==
    /\ pc[c] = "failed"
    /\ SetAttempt(target[c], "failed")
    /\ Finish(c)
    /\ UNCHANGED <<initiated, gateway, orderVars, seen>>

(* The transaction of the success path: the attempt is locked and read     *)
(* again, the order is updated only where payment_status is PENDING, and   *)
(* change_order_status moves it to PROCESSING or raises.                   *)

\* Fault: PENDING is taken for already processed.
CommitFindsPending(c) ==
    /\ attempt[target[c]] \in FinalAttempt \cup {"pending"}
    /\ UNCHANGED <<attempt, orderVars>>

\* The locked attempt turned final meanwhile.
CommitFinds(c) ==
    /\ attempt[target[c]] \in FinalAttempt
    /\ UNCHANGED <<attempt, orderVars>>

\* Fault: the row count of the conditional update is not looked at.
CommitAfterPaidRecords(c) ==
    /\ attempt[target[c]] \notin FinalAttempt
    /\ paymentStatus # "pending"
    /\ SetAttempt(target[c], "succeeded")
    /\ transactions' = transactions + 1
    /\ UNCHANGED <<paymentStatus, orderStatus>>

\* The conditional update touched no row: another attempt paid the order.
CommitAfterPaid(c) ==
    /\ attempt[target[c]] \notin FinalAttempt
    /\ paymentStatus # "pending"
    /\ SetAttempt(target[c], "succeeded")
    /\ UNCHANGED orderVars

\* Fault: the order is credited without its status transition.
CommitPaysOnly(c) ==
    /\ attempt[target[c]] \notin FinalAttempt
    /\ paymentStatus = "pending"
    /\ SetAttempt(target[c], "succeeded")
    /\ paymentStatus' = "paid"
    /\ transactions' = transactions + 1
    /\ UNCHANGED orderStatus

CommitPays(c) ==
    /\ attempt[target[c]] \notin FinalAttempt
    /\ paymentStatus = "pending"
    /\ MayChange(orderStatus, "processing")
    /\ SetAttempt(target[c], "succeeded")
    /\ paymentStatus' = "paid"
    /\ orderStatus' = "processing"
    /\ transactions' = transactions + 1

\* change_order_status raises ValueError: the whole transaction rolls back.
CommitRollsBack(c) ==
    /\ attempt[target[c]] \notin FinalAttempt
    /\ paymentStatus = "pending"
    /\ ~MayChange(orderStatus, "processing")
    /\ UNCHANGED <<attempt, orderVars>>

CommitSuccess(c) ==
    /\ pc[c] = "commit"
    /\ \/ CommitFinds(c)
       \/ CommitAfterPaid(c)
       \/ CommitPays(c)
       \/ CommitRollsBack(c)
    /\ Finish(c)
    /\ UNCHANGED <<initiated, gateway, seen>>

\* The worker serving the request is killed between two statements.
Crash(c) ==
    /\ MayCrash
    /\ pc[c] # "idle"
    /\ Finish(c)
    /\ UNCHANGED <<attempt, initiated, gateway, orderVars, seen>>

-----------------------------------------------------------------------------
(* change_order_status called from the dashboard.                          *)

StaffReads(m) ==
    /\ seen' = [seen EXCEPT ![m] = orderStatus]
    /\ UNCHANGED <<attempt, initiated, gateway, orderVars, callbackVars>>

\* Guards on the status read; the write does not look at the row again.
StaffChanges(m, to) ==
    /\ seen[m] # NotRead
    /\ MayChange(seen[m], to)
    /\ orderStatus' = to
    /\ seen' = [seen EXCEPT ![m] = NotRead]
    /\ UNCHANGED <<attempt, initiated, gateway, paymentStatus, transactions, callbackVars>>

-----------------------------------------------------------------------------
CallbackStep(c) ==
    \/ CancelLate(c)
    \/ MarkPending(c)
    \/ VerifySucceeds(c)
    \/ VerifyFails(c)
    \/ MarkFailed(c)
    \/ CommitSuccess(c)

Next ==
    \/ \E a \in Attempts :
          \/ CheckUnpaid(a)
          \/ CreateAttempt(a)
          \/ RecordCod(a)
          \/ StartRequest(a)
          \/ RequestAccepted(a)
          \/ RequestFailed(a)
          \/ CustomerPays(a)
    \/ \E c \in Callbacks :
          \/ \E a \in Attempts : ReadAttempt(c, a)
          \/ CallbackStep(c)
          \/ Crash(c)
    \/ \E m \in Staff :
          \/ StaffReads(m)
          \/ \E to \in OrderStatus : StaffChanges(m, to)

Spec == Init /\ [][Next]_vars

\* A request the server started runs to its end unless it crashes.
FairSpec == Spec /\ \A c \in Callbacks : WF_vars(CallbackStep(c))

-----------------------------------------------------------------------------
(* Properties.                                                             *)

\* The order is credited exactly once: it has one OK Transaction when it is
\* PAID and none before, however many attempts and duplicate callbacks reach
\* the transaction of the success path.
CreditedOnce == transactions = IF paymentStatus = "paid" THEN 1 ELSE 0

\* A PAID order is backed by money the gateway captured for one of its
\* attempts, whatever happened to the status of that attempt since.
PaidAgainstCapture ==
    paymentStatus = "paid" => \E a \in Attempts : gateway[a] = "captured"

\* SUCCEEDED is never shown for an online attempt whose money was not
\* captured: no stale write of another request can set it.
SucceededWasCaptured ==
    \A a \in Attempts \ CodAttempts :
        attempt[a] = "succeeded" => gateway[a] = "captured"

\* Paying and moving the order out of PENDING happen together: no crash,
\* rollback or stale staff write leaves a PAID order waiting for payment.
PaidIsProcessed == paymentStatus = "paid" => orderStatus # "pending"

\* A request that is about to commit its success works on captured money.
CommitIsCaptured ==
    \A c \in Callbacks : pc[c] = "commit" => gateway[target[c]] = "captured"

\* A running request handles an attempt whose customer was redirected.
RequestsAgree ==
    \A c \in Callbacks :
        pc[c] # "idle" => target[c] \in Attempts /\ gateway[target[c]] # "closed"

\* The initiating call is ahead of its row, the row ahead of the gateway.
GatewayAgrees ==
    \A a \in Attempts :
        /\ initiated[a] # "done" => attempt[a] = "none"
        /\ attempt[a] \in {"none", "created", "requesting"} => gateway[a] = "closed"

\* The inductive invariant: the safety properties, strengthened with what the
\* local state of the requests says about the rows and the gateway.
IInv ==
    /\ TypeOK
    /\ CreditedOnce
    /\ PaidAgainstCapture
    /\ SucceededWasCaptured
    /\ PaidIsProcessed
    /\ CommitIsCaptured
    /\ RequestsAgree
    /\ GatewayAgrees

\* GatewayPayment implements the abstract ledger: an order is credited once,
\* and only after the gateway captured money for one of its attempts.
Ledger == INSTANCE PaymentLedger WITH
              captured <- {a \in Attempts : gateway[a] = "captured"},
              credited <- paymentStatus = "paid"

ImplementsLedger == Ledger!Spec

\* Captured money is settled: without crashes and staff, a capture leads to
\* a PAID order or, when the answer was lost, to an attempt marked FAILED.
CaptureIsSettled ==
    \A a \in Attempts :
        gateway[a] = "captured" ~> paymentStatus = "paid" \/ attempt[a] = "failed"

\* process_callback_and_verify's docstring: on success the order is PAID.
\* Refuted: staff that moved the order out of PENDING make the transition
\* raise, and the transaction that would credit the money rolls back.
SuccessMarksPaid ==
    [][\A c \in Callbacks :
          CommitSuccess(c) /\ attempt[target[c]] \notin FinalAttempt
             => paymentStatus' = "paid"]_vars

=============================================================================
