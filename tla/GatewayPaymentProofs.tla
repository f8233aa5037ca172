------------------------ MODULE GatewayPaymentProofs ------------------------
(***************************************************************************)
(* Proofs about GatewayPayment, for any number of attempts, callback       *)
(* requests and staff members: the order is credited once, only against    *)
(* captured money, and the module implements PaymentLedger.                *)
(***************************************************************************)
EXTENDS GatewayPayment, TLAPS

\* Whatever status change_order_status starts from, it leaves PENDING behind.
LEMMA TransitionLeavesPending ==
    ASSUME NEW from \in OrderStatus, NEW to, MayChange(from, to)
    PROVE  to \in OrderStatus \ {"pending"}
  BY DEF OrderStatus, MayChange, FinalOrderStatus, AllowedTransitions

\* The initial state satisfies the inductive invariant.
LEMMA InitIInv == Init => IInv
  BY DEF Init, IInv, TypeOK, CreditedOnce, PaidAgainstCapture,
         SucceededWasCaptured, PaidIsProcessed, CommitIsCaptured,
         RequestsAgree, GatewayAgrees, AttemptStatus, FinalAttempt,
         GatewayState, OrderStatus, NotRead

\* The steps of initiate_payment, up to the customer's own payment.
LEMMA InitiationIInv ==
    ASSUME IInv, NEW a \in Attempts,
           \/ CheckUnpaid(a)
           \/ CreateAttempt(a)
           \/ RecordCod(a)
           \/ StartRequest(a)
           \/ RequestAccepted(a)
           \/ RequestFailed(a)
           \/ CustomerPays(a)
    PROVE  IInv'
  <1> USE DEF IInv, TypeOK, CreditedOnce, PaidAgainstCapture,
              SucceededWasCaptured, PaidIsProcessed, CommitIsCaptured,
              RequestsAgree, GatewayAgrees, AttemptStatus, FinalAttempt,
              GatewayState, SetAttempt, orderVars, callbackVars
  <1>1. CASE CheckUnpaid(a)
    BY <1>1 DEF CheckUnpaid
  <1>2. CASE CreateAttempt(a)
    BY <1>2 DEF CreateAttempt
  <1>3. CASE RecordCod(a)
    BY <1>3 DEF RecordCod
  <1>4. CASE StartRequest(a)
    BY <1>4 DEF StartRequest
  <1>5. CASE RequestAccepted(a)
    BY <1>5 DEF RequestAccepted
  <1>6. CASE RequestFailed(a)
    BY <1>6 DEF RequestFailed
  <1>7. CASE CustomerPays(a)
    BY <1>7 DEF CustomerPays
  <1> QED
    BY <1>1, <1>2, <1>3, <1>4, <1>5, <1>6, <1>7

\* The statements of a callback request that write outside a transaction, the
\* verify call between them, and a crash between any two.
LEMMA CallbackIInv ==
    ASSUME IInv, NEW c \in Callbacks,
           \/ \E a \in Attempts : ReadAttempt(c, a)
           \/ CancelLate(c)
           \/ MarkPending(c)
           \/ VerifySucceeds(c)
           \/ VerifyFails(c)
           \/ MarkFailed(c)
           \/ Crash(c)
    PROVE  IInv'
  <1> USE DEF IInv, TypeOK, CreditedOnce, PaidAgainstCapture,
              SucceededWasCaptured, PaidIsProcessed, CommitIsCaptured,
              RequestsAgree, GatewayAgrees, AttemptStatus, FinalAttempt,
              GatewayState, SetAttempt, Goto, Finish, orderVars
  <1>1. CASE \E a \in Attempts : ReadAttempt(c, a)
    BY <1>1, NoAttemptAssumption DEF ReadAttempt
  <1>2. CASE CancelLate(c)
    BY <1>2 DEF CancelLate
  <1>3. CASE MarkPending(c)
    BY <1>3 DEF MarkPending
  <1>4. CASE VerifySucceeds(c)
    BY <1>4 DEF VerifySucceeds
  <1>5. CASE VerifyFails(c)
    BY <1>5 DEF VerifyFails
  <1>6. CASE MarkFailed(c)
    BY <1>6 DEF MarkFailed
  <1>7. CASE Crash(c)
    BY <1>7 DEF Crash
  <1> QED
    BY <1>1, <1>2, <1>3, <1>4, <1>5, <1>6, <1>7

\* The transaction of the success path, one case per outcome.  Only
\* CommitPays credits the order, and it runs on captured money.
LEMMA CommitIInv ==
    ASSUME IInv, NEW c \in Callbacks, CommitSuccess(c)
    PROVE  IInv'
  <1> USE DEF IInv, TypeOK, CreditedOnce, PaidAgainstCapture,
              SucceededWasCaptured, PaidIsProcessed, CommitIsCaptured,
              RequestsAgree, GatewayAgrees, AttemptStatus, FinalAttempt,
              GatewayState, SetAttempt, Goto, Finish, orderVars, CommitSuccess
  <1>1. CASE CommitFinds(c)
    BY <1>1 DEF CommitFinds
  <1>2. CASE CommitAfterPaid(c)
    BY <1>2 DEF CommitAfterPaid
  <1>3. CASE CommitPays(c)
    BY <1>3 DEF CommitPays, OrderStatus
  <1>4. CASE CommitRollsBack(c)
    BY <1>4 DEF CommitRollsBack
  <1> QED
    BY <1>1, <1>2, <1>3, <1>4

\* Staff members write the order's status and nothing else.
LEMMA StaffIInv ==
    ASSUME IInv, NEW m \in Staff,
           StaffReads(m) \/ \E to \in OrderStatus : StaffChanges(m, to)
    PROVE  IInv'
  <1> USE DEF IInv, TypeOK, CreditedOnce, PaidAgainstCapture,
              SucceededWasCaptured, PaidIsProcessed, CommitIsCaptured,
              RequestsAgree, GatewayAgrees, orderVars, callbackVars
  <1>1. CASE StaffReads(m)
    BY <1>1 DEF StaffReads
  <1>2. CASE \E to \in OrderStatus : StaffChanges(m, to)
    <2>1. PICK to \in OrderStatus : StaffChanges(m, to)
      BY <1>2
    <2>2. seen[m] \in OrderStatus
      BY <2>1 DEF StaffChanges
    <2>3. orderStatus' \in OrderStatus \ {"pending"}
      BY <2>1, <2>2, TransitionLeavesPending DEF StaffChanges
    <2> QED
      BY <2>1, <2>3 DEF StaffChanges
  <1> QED
    BY <1>1, <1>2

\* Every step of the system preserves the inductive invariant.
LEMMA NextIInv == IInv /\ [Next]_vars => IInv'
  <1> SUFFICES ASSUME IInv, [Next]_vars
               PROVE  IInv'
    OBVIOUS
  <1>1. CASE \E a \in Attempts :
                \/ CheckUnpaid(a)
                \/ CreateAttempt(a)
                \/ RecordCod(a)
                \/ StartRequest(a)
                \/ RequestAccepted(a)
                \/ RequestFailed(a)
                \/ CustomerPays(a)
    BY <1>1, InitiationIInv
  <1>2. CASE \E c \in Callbacks :
                \/ \E a \in Attempts : ReadAttempt(c, a)
                \/ CallbackStep(c)
                \/ Crash(c)
    BY <1>2, CallbackIInv, CommitIInv DEF CallbackStep
  <1>3. CASE \E m \in Staff :
                \/ StaffReads(m)
                \/ \E to \in OrderStatus : StaffChanges(m, to)
    BY <1>3, StaffIInv
  <1>4. CASE UNCHANGED vars
    BY <1>4 DEF vars, orderVars, callbackVars, IInv, TypeOK, CreditedOnce,
                PaidAgainstCapture, SucceededWasCaptured, PaidIsProcessed,
                CommitIsCaptured, RequestsAgree, GatewayAgrees
  <1> QED
    BY <1>1, <1>2, <1>3, <1>4 DEF Next

\* The inductive invariant holds in every reachable state.
THEOREM Invariance == Spec => []IInv
  BY InitIInv, NextIInv, PTL DEF Spec

\* Every variable keeps its type: the model never leaves the statuses of
\* PaymentAttempt and Order.
THEOREM TypeCorrect == Spec => []TypeOK
  <1>1. IInv => TypeOK
    BY DEF IInv
  <1> QED
    BY <1>1, Invariance, PTL

\* The order is credited exactly once, whatever callbacks are duplicated,
\* interleaved or killed, for any number of attempts.
THEOREM CreditsOnce == Spec => []CreditedOnce
  <1>1. IInv => CreditedOnce
    BY DEF IInv
  <1> QED
    BY <1>1, Invariance, PTL

\* A PAID order is backed by money that the gateway captured.
THEOREM PaymentIsBacked == Spec => []PaidAgainstCapture
  <1>1. IInv => PaidAgainstCapture
    BY DEF IInv
  <1> QED
    BY <1>1, Invariance, PTL

\* An online attempt shown SUCCEEDED was captured: no callback that read the
\* attempt before it was final, and none that was cut off, says so wrongly.
THEOREM SuccessIsCaptured == Spec => []SucceededWasCaptured
  <1>1. IInv => SucceededWasCaptured
    BY DEF IInv
  <1> QED
    BY <1>1, Invariance, PTL

\* A PAID order has left PENDING, whatever staff write over it.
THEOREM PaymentIsProcessed == Spec => []PaidIsProcessed
  <1>1. IInv => PaidIsProcessed
    BY DEF IInv
  <1> QED
    BY <1>1, Invariance, PTL

\* The abstract view of a state: the captured attempts.
Captured == {a \in Attempts : gateway[a] = "captured"}

\* A step that takes no attempt into or out of "captured" and leaves the
\* payment status alone is a stuttering step of the ledger.
LEMMA Stutter ==
    ASSUME paymentStatus' = paymentStatus,
           \A a \in Attempts : gateway'[a] = "captured" <=> gateway[a] = "captured"
    PROVE  UNCHANGED Ledger!vars
  BY DEF Ledger!vars

\* A verify call captures the money of the request's attempt, or finds it
\* captured already.
LEMMA VerifyRefines ==
    ASSUME IInv, NEW c \in Callbacks, VerifySucceeds(c) \/ VerifyFails(c)
    PROVE  [Ledger!Next]_(Ledger!vars)
  <1>1. target[c] \in Attempts /\ gateway \in [Attempts -> GatewayState]
    BY DEF IInv, TypeOK, RequestsAgree, VerifySucceeds, VerifyFails
  <1>2. paymentStatus' = paymentStatus
    BY DEF VerifySucceeds, VerifyFails, orderVars
  <1>3. CASE gateway' = gateway
    BY <1>2, <1>3, Stutter
  <1>4. CASE gateway' = [gateway EXCEPT ![target[c]] = "captured"]
    <2>1. CASE gateway[target[c]] = "captured"
      BY <1>1, <1>2, <1>4, <2>1, Stutter
    <2>2. CASE gateway[target[c]] # "captured"
      <3>1. target[c] \in Attempts \ Captured
        BY <1>1, <2>2 DEF Captured
      <3>2. Captured' = Captured \cup {target[c]}
        BY <1>1, <1>4 DEF Captured
      <3> QED
        BY <1>2, <3>1, <3>2 DEF Captured, Ledger!Next, Ledger!Capture
    <2> QED
      BY <2>1, <2>2
  <1> QED
    BY <1>3, <1>4 DEF VerifySucceeds, VerifyFails

\* The transaction of the success path credits the order or changes nothing
\* the ledger sees.
LEMMA CommitRefines ==
    ASSUME IInv, NEW c \in Callbacks, CommitSuccess(c)
    PROVE  [Ledger!Next]_(Ledger!vars)
  <1>1. gateway' = gateway
    BY DEF CommitSuccess
  <1>2. CASE paymentStatus' = paymentStatus
    BY <1>1, <1>2, Stutter
  <1>3. CASE CommitPays(c)
    <2>1. target[c] \in Attempts /\ gateway[target[c]] = "captured"
      BY DEF IInv, CommitIsCaptured, RequestsAgree, CommitSuccess
    <2>2. Captured # {} /\ Captured' = Captured
      BY <1>1, <2>1 DEF Captured
    <2> QED
      BY <1>3, <2>2 DEF CommitPays, Captured, Ledger!Next, Ledger!Credit
  <1> QED
    BY <1>2, <1>3 DEF CommitSuccess, CommitFinds, CommitAfterPaid,
                      CommitRollsBack, orderVars

\* The initiating steps open and pay gateway sessions, and capture nothing.
LEMMA InitiationRefines ==
    ASSUME IInv, NEW a \in Attempts,
           \/ CheckUnpaid(a)
           \/ CreateAttempt(a)
           \/ RecordCod(a)
           \/ StartRequest(a)
           \/ RequestAccepted(a)
           \/ RequestFailed(a)
           \/ CustomerPays(a)
    PROVE  UNCHANGED Ledger!vars
  <1>1. paymentStatus' = paymentStatus
    BY DEF CheckUnpaid, CreateAttempt, RecordCod, StartRequest,
           RequestAccepted, RequestFailed, CustomerPays, orderVars
  <1>2. \A b \in Attempts : gateway'[b] = "captured" <=> gateway[b] = "captured"
    BY DEF IInv, TypeOK, GatewayAgrees, CheckUnpaid, CreateAttempt, RecordCod,
           StartRequest, RequestAccepted, RequestFailed, CustomerPays
  <1> QED
    BY <1>1, <1>2, Stutter

\* Every step maps to a step of the ledger or to a stutter.
LEMMA NextRefines ==
    ASSUME IInv, [Next]_vars
    PROVE  [Ledger!Next]_(Ledger!vars)
  <1>1. ASSUME NEW c \in Callbacks,
               \/ \E a \in Attempts : ReadAttempt(c, a)
               \/ CancelLate(c)
               \/ MarkPending(c)
               \/ MarkFailed(c)
               \/ Crash(c)
        PROVE  UNCHANGED Ledger!vars
    BY <1>1, Stutter DEF ReadAttempt, CancelLate, MarkPending, MarkFailed,
                         Crash, orderVars
  <1>2. ASSUME NEW m \in Staff,
               StaffReads(m) \/ \E to \in OrderStatus : StaffChanges(m, to)
        PROVE  UNCHANGED Ledger!vars
    BY <1>2, Stutter DEF StaffReads, StaffChanges, orderVars
  <1>3. CASE UNCHANGED vars
    BY <1>3, Stutter DEF vars, orderVars
  <1> QED
    BY <1>1, <1>2, <1>3, VerifyRefines, CommitRefines, InitiationRefines
       DEF Next, CallbackStep

\* GatewayPayment implements the abstract ledger: the order is credited at
\* most once, after the gateway captured money for one of its attempts.
THEOREM Refinement == Spec => ImplementsLedger
  <1>1. Init => Ledger!Init
    BY DEF Init, Ledger!Init
  <1>2. IInv /\ [Next]_vars => [Ledger!Next]_(Ledger!vars)
    BY NextRefines
  <1> QED
    BY <1>1, <1>2, Invariance, PTL DEF Spec, ImplementsLedger, Ledger!Spec

=============================================================================
