------------------------------ MODULE Billing ------------------------------
(***************************************************************************)
(* The billing of a store's subscription: apps/billing/services.  Invoices *)
(* are made by a plan change (plan_change_billing_service) or by the       *)
(* renewal command (renewal_service), paid through a provider or by hand   *)
(* (payment_flow_service, attempt_service, confirmation_service), voided   *)
(* by a cancellation (cancellation_service) and pursued by the dunning     *)
(* command (dunning_service).  A confirmed payment renews or activates the *)
(* subscription of the module Subscription, which this one extends.        *)
(*                                                                         *)
(* A service runs in one transaction and locks the invoice, so each is one *)
(* action; steps of their own are the queries with which the two commands  *)
(* pick what they work on.                                                 *)
(*                                                                         *)
(* Invoices of kind initial are left out: no code creates one.  Webhooks   *)
(* of another type than payment.succeeded are only marked ignored.         *)
(***************************************************************************)
EXTENDS Subscription, FiniteSets, Sequences

CONSTANTS
    MaxInvoices,   \* bound of the invoices of the subscription
    MaxUpgrades,   \* bound of those for a plan change
    MaxAttempts,   \* bound of the payment attempts
    MaxEfforts,    \* bound of the attempts and the controls used, together
    MaxInFlight,   \* bound of the instances fetched and not yet used
    Lead,          \* RASTISI_BILLING_RENEWAL_LEAD_DAYS
    Schedule       \* RASTISI_BILLING_DUNNING_SCHEDULE, days after the due date

ASSUME BillingBounds ==
    /\ MaxInvoices \in Nat /\ MaxUpgrades \in Nat /\ MaxAttempts \in Nat /\ MaxEfforts \in Nat /\ Lead \in Nat
    /\ Schedule \in Seq(Nat) /\ Len(Schedule) > 0

VARIABLES
    invoices,   \* SubscriptionInvoice by number
    attempts,   \* SubscriptionPaymentAttempt by number
    applied,    \* invoices with a SubscriptionEvent under their key
    scheduled,  \* target of the ScheduledPlanChange
    renewing,   \* the subscription the renewal command has fetched
    dunning,    \* SubscriptionDunningState by invoice
    listed      \* the invoice the dunning command has fetched

billVars == <<invoices, attempts, applied, scheduled, renewing, dunning, listed>>
billingVars == <<subVars, billVars>>

Invoices == 1 .. MaxInvoices
Attempts == 1 .. MaxAttempts

Payable == {"open", "payment_pending", "past_due"}
Unpaid  == {"draft"} \cup Payable

Invoice ==
    [kind : {"plan_change", "renewal"}, version : Versions,
     status : Payable \cup {"paid", "void", "uncollectible"},
     start : Dates, end : Dates, dueAt : Nat, paid : Nat, due : Nat]
Attempt ==
    [invoice : Invoices, amount : Nat, status : {"pending", "succeeded"}]

ASSUME NothingIsNoRow == Nothing \notin Invoices /\ Nothing \notin Invoice /\ Nothing \notin Attempt

Made == {i \in Invoices : invoices[i] /= Nothing}
Tried == {a \in Attempts : attempts[a] /= Nothing}

BillingInit ==
    /\ SubscriptionInit
    /\ invoices = [i \in Invoices |-> Nothing]
    /\ attempts = [a \in Attempts |-> Nothing]
    /\ applied  = {}
    /\ scheduled = Nothing
    /\ renewing  = Nothing
    /\ dunning   = [i \in Invoices |-> [status |-> "none", stage |-> 1]]
    /\ listed    = Nothing

---------------------------------------------------------------------------
(* Making an invoice: create_invoice and open_invoice.                     *)

NextFree(table) == {n \in DOMAIN table : table[n] = Nothing
                        /\ \A m \in DOMAIN table : table[m] = Nothing => n <= m}

Opened(kind, version, start, end) ==
    [kind |-> kind, version |-> version, status |-> "open", start |-> start,
     end |-> end, dueAt |-> IF start = NoTime THEN now ELSE start,
     paid |-> 0, due |-> Price[version]]

(* next_period_end *)
PeriodEnd(start, version) ==
    IF Interval[version] = 0 THEN NoTime ELSE start + Interval[version]

(* start_plan_change, with a valid token: an upgrade is invoiced, anything *)
(* else waits for the next renewal.                                        *)
StartPlanChange(target) ==
    /\ sub.current
    /\ IF Price[target] > Price[sub.version]
       THEN /\ Cardinality({i \in Made : invoices[i].kind = "plan_change"}) < MaxUpgrades
            /\ \E i \in NextFree(invoices) :
                  invoices' = [invoices EXCEPT ![i] =
                      Opened("plan_change", target, NoTime, NoTime)]
            /\ UNCHANGED scheduled
       ELSE scheduled' = target /\ UNCHANGED invoices
    /\ UNCHANGED <<subVars, attempts, applied, renewing, dunning, listed>>

(* _due_subscriptions: the renewal command fetches a subscription whose    *)
(* period is about to end.                                                 *)
FindRenewal ==
    /\ renewing = Nothing
    /\ sub.current /\ sub.status \in {"active", "grace_period", "past_due"}
    /\ ~sub.cancelAtEnd /\ sub.end /= NoTime /\ sub.end <= now + Lead
    /\ Interval[sub.version] > 0
    /\ renewing' = [version |-> sub.version, end |-> sub.end]
    /\ UNCHANGED <<subVars, invoices, attempts, applied, scheduled, dunning, listed>>

RenewalFrom(start) ==
    {i \in Made : invoices[i].kind = "renewal" /\ invoices[i].start = start}

(* Fault: the command does not look for the invoice it made before.        *)
RenewAnew(version, start) ==
    \E i \in NextFree(invoices) :
        invoices' = [invoices EXCEPT ![i] =
            Opened("renewal", version, start, PeriodEnd(start, version))]

(* One invoice for the period that begins at "start", made once.           *)
InvoiceRenewal(version, start) ==
    IF RenewalFrom(start) /= {} THEN UNCHANGED invoices
    ELSE \E i \in NextFree(invoices) :
            invoices' = [invoices EXCEPT ![i] =
                Opened("renewal", version, start, PeriodEnd(start, version))]

(* _generate_one: only a scheduled plan change makes the command read the  *)
(* subscription again; it raises when the subscription has ended, or has   *)
(* no period and the new version needs one.                                *)
GenerateRenewal ==
    /\ renewing /= Nothing
    /\ renewing' = Nothing
    /\ IF scheduled = Nothing
       THEN /\ InvoiceRenewal(renewing.version, renewing.end)
            /\ UNCHANGED <<sub, scheduled>>
       ELSE IF MayRenew(sub) /\ (sub.end = NoTime => Interval[scheduled] = 0)
       THEN /\ sub' = OnVersion(sub, scheduled)
            /\ scheduled' = Nothing
            /\ InvoiceRenewal(scheduled, sub.end)
       ELSE UNCHANGED <<sub, scheduled, invoices>>
    /\ UNCHANGED <<now, controls, due, extension, attempts, applied, dunning, listed>>

---------------------------------------------------------------------------
(* Paying an invoice.                                                      *)

AttemptOn(i) == [invoice |-> i, amount |-> invoices[i].due, status |-> "pending"]

(* start_payment, with create_attempt: the provider's session is made in   *)
(* the same transaction.                                                   *)
StartPayment(i) ==
    /\ i \in Made /\ invoices[i].status \in Payable
    /\ \E a \in NextFree(attempts) :
          attempts' = [attempts EXCEPT ![a] = AttemptOn(i)]
    /\ invoices' = [invoices EXCEPT ![i].status = "payment_pending"]
    /\ UNCHANGED <<subVars, applied, scheduled, renewing, dunning, listed>>

(* confirm_payment on an attempt: nothing left to do, an amount that is    *)
(* not the one due, an ended subscription (the exception of the            *)
(* subscription service rolls everything back), or a payment.              *)
Outcome(t, bills) ==
    IF t.status = "succeeded" \/ bills[t.invoice].status = "paid" THEN "settled"
    ELSE IF t.amount /= bills[t.invoice].due THEN "mismatch"
    ELSE IF MayRenew(sub) THEN "paid" ELSE "raised"

(* confirm_payment's writes on the invoice, with recompute_amount_due.     *)
Paid(bill, amount) ==
    LET rest == IF Price[bill.version] - (bill.paid + amount) > 0
                THEN Price[bill.version] - (bill.paid + amount) ELSE 0
    IN  [bill EXCEPT !.paid = @ + amount, !.due = rest,
                     !.status = IF rest = 0 THEN "paid" ELSE @]

(* Fault: a renewal runs from the day it is paid.                          *)
ActivateFromToday(i) ==
    LET bill == invoices[i]
    IN  sub' = IF bill.kind = "renewal"
               THEN Renewed(sub, PeriodEnd(now, bill.version))
               ELSE IF sub.status \in {"pending", "trialing"}
               THEN ActivatedUntil(OnVersion(sub, bill.version), PeriodEnd(now, bill.version))
               ELSE OnVersion(sub, bill.version)

(* _activate_or_renew.  Paying a plan change activates a trial only.       *)
ActivateOrRenew(i) ==
    LET bill == invoices[i]
    IN  sub' = IF bill.kind = "renewal"
               THEN IF i \in applied THEN sub ELSE Renewed(sub, bill.end)
               ELSE IF sub.status \in {"pending", "trialing"}
               THEN ActivatedUntil(OnVersion(sub, bill.version), PeriodEnd(now, bill.version))
               ELSE OnVersion(sub, bill.version)

Pay(a, t) ==
    /\ attempts' = [attempts EXCEPT ![a] = [t EXCEPT !.status = "succeeded"]]
    /\ invoices' = [invoices EXCEPT ![t.invoice] = Paid(@, t.amount)]
    /\ ActivateOrRenew(t.invoice)
    /\ applied' = applied \cup {t.invoice}

(* confirm_payment, called on the customer's return                        *)
(* (confirm_from_provider_verification) and by every delivery and retry of *)
(* a webhook (process_webhook_event), when the provider says the attempt   *)
(* is paid.  The provider may take the money whenever the customer pays,   *)
(* whatever has become of the invoice.  The event's own status only skips  *)
(* calls that would find the attempt settled.                              *)
Confirm(a) ==
    /\ a \in Tried
    /\ Outcome(attempts[a], invoices) = "paid"
    /\ Pay(a, attempts[a])
    /\ UNCHANGED <<now, controls, due, extension, scheduled, renewing, dunning, listed>>

(* mark_invoice_paid_manually: an attempt that is made and confirmed.      *)
MarkPaid(i) ==
    /\ i \in Made /\ invoices[i].status \in Payable
    /\ \E a \in NextFree(attempts) :
          /\ Outcome(AttemptOn(i), invoices) = "paid"
          /\ Pay(a, AttemptOn(i))
    /\ UNCHANGED <<now, controls, due, extension, scheduled, renewing, dunning, listed>>

---------------------------------------------------------------------------
(* Cancelling: cancel_subscription_billing.                                *)

VoidUnpaid ==
    invoices' = [i \in Invoices |->
        IF i \in Made /\ invoices[i].status \in Unpaid
        THEN [invoices[i] EXCEPT !.status = "void"] ELSE invoices[i]]

CancelNow ==
    /\ sub.current /\ MayBecome(sub, "cancelled")
    /\ sub' = Cancelled(sub)
    /\ VoidUnpaid
    /\ UNCHANGED <<now, controls, due, extension, attempts, applied, scheduled,
                   renewing, dunning, listed>>

CancelAtPeriodEnd ==
    /\ sub.current /\ MayRenew(sub)
    /\ sub' = [sub EXCEPT !.cancelAtEnd = TRUE]
    /\ VoidUnpaid
    /\ UNCHANGED <<now, controls, due, extension, attempts, applied, scheduled,
                   renewing, dunning, listed>>

---------------------------------------------------------------------------
(* Dunning.                                                                *)

(* _unpaid_past_due_invoices *)
ListOverdue(i) ==
    /\ listed = Nothing
    /\ i \in Made /\ invoices[i].status \in Payable
    /\ invoices[i].due > 0 /\ invoices[i].dueAt <= now
    /\ listed' = i
    /\ UNCHANGED <<subVars, invoices, attempts, applied, scheduled, renewing, dunning>>

(* _process_invoice goes on only with an invoice that is still unpaid.     *)
Pursued(i) == invoices[i].status \in Payable /\ invoices[i].due > 0

(* The first stage warns, the last one gives the invoice up and suspends   *)
(* the subscription.                                                       *)
Escalated(s, stage) ==
    LET warned == IF stage = 1 /\ s.status = "active"
                  THEN InGrace(s, GraceDays[s.version]) ELSE s
    IN  IF stage = Len(Schedule) /\ s.status \in {"active", "grace_period", "past_due"}
        THEN Suspended(warned) ELSE warned

PursuedStatus(status, stage) ==
    IF stage = Len(Schedule) THEN "uncollectible"
    ELSE IF stage = 1 THEN "past_due" ELSE status

Advance(i) ==
    LET stage == dunning[i].stage
    IN  /\ sub' = Escalated(sub, stage)
        /\ invoices' = [invoices EXCEPT ![i].status = PursuedStatus(@, stage)]
        /\ dunning' = [dunning EXCEPT ![i] =
              IF stage = Len(Schedule) THEN [@ EXCEPT !.status = "exhausted"]
              ELSE [status |-> "active", stage |-> stage + 1]]

(* _process_invoice, under the locks of the invoice and its dunning state. *)
Dun ==
    /\ listed /= Nothing
    /\ listed' = Nothing
    /\ IF ~Pursued(listed)
       THEN /\ dunning' = [dunning EXCEPT ![listed].status =
                  IF @ = "none" THEN @ ELSE "resolved"]
            /\ UNCHANGED <<sub, invoices>>
       ELSE IF dunning[listed].status \in {"none", "active"}
               /\ now >= invoices[listed].dueAt + Schedule[dunning[listed].stage]
       THEN Advance(listed)
       ELSE /\ dunning' = [dunning EXCEPT ![listed].status =
                  IF @ = "none" THEN "active" ELSE @]
            /\ UNCHANGED <<sub, invoices>>
    /\ UNCHANGED <<now, controls, due, extension, attempts, applied, scheduled, renewing>>

---------------------------------------------------------------------------
BillingStep ==
    \/ \E target \in Versions : StartPlanChange(target)
    \/ FindRenewal \/ GenerateRenewal
    \/ \E i \in Invoices : StartPayment(i) \/ MarkPaid(i) \/ ListOverdue(i)
    \/ \E a \in Attempts : Confirm(a)
    \/ CancelNow \/ CancelAtPeriodEnd
    \/ Dun

(* What a command or a view has fetched and will act on later.             *)
InFlight ==
    Cardinality({x \in {"due", "extension", "renewing", "listed"} :
        CASE x = "due"       -> due /= NoDecision
          [] x = "extension" -> extension /= Nothing
          [] x = "renewing"  -> renewing /= Nothing
          [] x = "listed"    -> listed /= Nothing})

BillingNext ==
    /\ BillingStep \/ (ServiceStep /\ UNCHANGED billVars)
    /\ InFlight' <= MaxInFlight
    /\ (controls + Cardinality(Tried))' <= MaxEfforts

BillingSpec == BillingInit /\ [][BillingNext]_billingVars

---------------------------------------------------------------------------
BillingTypeOK ==
    /\ now \in 0 .. MaxNow /\ controls \in 0 .. MaxControls
    /\ sub \in Subscriptions
    /\ due \in [action : {"none", "cancelled", "grace", "suspended", "expired"}, days : Nat]
    /\ extension \in Nat \cup {Nothing}
    /\ \A i \in Invoices : invoices[i] = Nothing \/ invoices[i] \in Invoice
    /\ \A a \in Attempts : attempts[a] = Nothing \/ attempts[a] \in Attempt
    /\ applied \subseteq Invoices
    /\ scheduled \in Versions \cup {Nothing}
    /\ renewing = Nothing \/ renewing \in [version : Versions, end : Nat]
    /\ dunning \in [Invoices -> [status : {"none", "active", "exhausted", "resolved"},
                                 stage : 1 .. Len(Schedule)]]
    /\ listed \in Invoices \cup {Nothing}

(* A subscription is the store's current one exactly until it ends         *)
(* (check_subscription_consistency, case 2).                               *)
CurrentUntilItEnds == sub.current <=> sub.status \notin Terminal

(* Whatever service, command or payment moves it, the status only takes    *)
(* the steps of ALLOWED_TRANSITIONS: renew_subscription does not use the   *)
(* table, and a late payment must not revive what has ended.               *)
OnlyAllowedTransitions ==
    [][sub'.status /= sub.status => sub'.status \in AllowedTransitions[sub.status]]_billingVars

SucceededOn(i) == {a \in Tried : attempts[a].invoice = i /\ attempts[a].status = "succeeded"}

(* The money of an invoice is that of exactly one succeeded attempt, and   *)
(* never more than its total, however often the provider reports and       *)
(* however many attempts it captured (check_billing_consistency, 1 and 2). *)
PaidByOneAttempt ==
    \A i \in Made :
        /\ invoices[i].paid <= Price[invoices[i].version]
        /\ Cardinality(SucceededOn(i)) = IF invoices[i].status = "paid" THEN 1 ELSE 0

(* One renewal invoice for a period, though the command works on what it   *)
(* fetched before and may run twice (check_billing_consistency, 7).        *)
OneRenewalPerPeriod ==
    \A i, j \in Made :
        invoices[i].kind = "renewal" /\ invoices[j].kind = "renewal"
            /\ invoices[i].start = invoices[j].start => i = j

(* The dunning command never gives up an invoice that was paid or voided   *)
(* between its query and its lock, and never one that it has not taken     *)
(* through the whole schedule.                                             *)
GivenUpAfterSchedule ==
    \A i \in Made :
        invoices[i].status = "uncollectible" =>
            /\ dunning[i] = [status |-> "exhausted", stage |-> Len(Schedule)]
            /\ SucceededOn(i) = {}
            /\ now >= invoices[i].dueAt + Schedule[Len(Schedule)]

PaidRenewals == {i \in Made : invoices[i].kind = "renewal" /\ invoices[i].status = "paid"}

(* The store has the days it paid for, and no others: as long as no        *)
(* administrator interferes, the period ends where the last renewal that   *)
(* was paid ends, however early, late or out of order the payments arrive. *)
PaidPeriodHonoured ==
    controls = 0 /\ PaidRenewals /= {} =>
        /\ \E i \in PaidRenewals : sub.end = invoices[i].end
        /\ \A i \in PaidRenewals : sub.end = NoTime \/ invoices[i].end <= sub.end

(* An invoice is paid once, a period invoiced once, nothing given up that  *)
(* was settled, the subscription is the current one until it ends, and the *)
(* store has the days it paid for.                                         *)
BillingSound ==
    /\ BillingTypeOK
    /\ CurrentUntilItEnds
    /\ PaidByOneAttempt
    /\ OneRenewalPerPeriod
    /\ GivenUpAfterSchedule
    /\ PaidPeriodHonoured
=============================================================================
