---------------------------- MODULE SmsCredits ----------------------------
(***************************************************************************)
(* The SMS credit of one store (sms/services/billing_policy_service.py,    *)
(* balance_service.py), the messages that use it (sms_service.py) and the  *)
(* outbox its Android device polls (gateway_views.py).                     *)
(*                                                                         *)
(* A dispatch takes credits in a transaction of its own, calls the         *)
(* provider with none open, and gives the credits back in another when the *)
(* provider refuses; a worker may be killed between any two.               *)
(* complete_purchase locks the purchase, not the balance: it writes a sum  *)
(* of what it read.  The provider is external.                             *)
(***************************************************************************)
EXTENDS Integers, FiniteSets, SequencesExt, Functions

CONSTANTS
    Texts,          \* rows of SmsLog that may be written
    Codes,          \* those that carry a one-time code
    UnitsOf,        \* billable_units of a text
    Senders,        \* workers that dispatch
    Purchases,      \* rows of SmsPackagePurchase
    PackageUnits,   \* credit_amount of a package
    OtpOverdraft,   \* otp_overdraft_limit
    OpeningCredits,
    Corrections,    \* deltas an administrator may enter
    MaxCorrections, \* how often (a bound of the model)
    MaxTries,       \* retries of texts and outbox items explored (a bound)
    Idle            \* no dispatch, no completion

ASSUME CreditsAreUnits ==
    /\ Codes \subseteq Texts /\ UnitsOf \in [Texts -> Nat \ {0}]
    /\ PackageUnits \in Nat \ {0} /\ OtpOverdraft \in Nat /\ OpeningCredits \in Nat
    /\ Corrections \subseteq Int \ {0}
ASSUME SmsBounds == MaxCorrections \in Nat /\ MaxTries \in Nat
ASSUME SmsIsFinite == IsFiniteSet(Senders) /\ IsFiniteSet(Texts) /\ IsFiniteSet(Purchases)

VARIABLES
    credits,        \* SmsBalance.credits
    purchaseStatus, \* SmsPackagePurchase.status
    completing,     \* the credits a completion of the purchase read
    textStatus,     \* SmsLog.status, "none" before the row exists
    dispatch,       \* per worker, its text and how far it is
    viaDevice,      \* ShopSettings.sms_backend is SmsRasti
    outbox,         \* SmsOutboxItem rows in the order of created_at
    itemStatus,     \* their status
    onDevice,       \* messages the device was given and has not sent yet
    acks,           \* answers of the device on their way
    accepted,       \* times the provider accepted a text
    sentByDevice,   \* times the device sent an item
    handedOut,      \* times an item was claimed
    corrected,      \* the administrator's corrections so far, in sum and number
    strandedUnits,  \* units taken by workers killed before they gave them back
    overwritten,    \* a completion wrote over another change of the balance
    tries           \* retries so far

creditVars == <<credits, purchaseStatus, completing, corrected, overwritten>>
outboxVars == <<outbox, itemStatus, onDevice, acks, sentByDevice, handedOut>>
smsVars == <<creditVars, outboxVars, textStatus, dispatch, viaDevice, accepted, strandedUnits, tries>>

(* The items a text may have, one for each dispatch the provider accepts.  *)
Items == (Texts \ Codes) \X (1..MaxTries + 1)

PurchaseStatus == {"none", "pending", "completed", "canceled"}
TextStatus     == {"none", "pending", "sent", "failed"}
ItemStatus     == TextStatus \cup {"sending"}
Corrected      == [sum : Int, down : Nat, count : 0..MaxCorrections]

Phases == {"calling", "refused", "refunded", "accepted"}
Dispatches == [text : Texts, at : Phases]

ASSUME IdleIsNothing == Idle \notin Int /\ Idle \notin Dispatches

SmsTypeOK ==
    /\ credits \in Int
    /\ purchaseStatus \in [Purchases -> PurchaseStatus]
    /\ completing \in [Purchases -> Int \cup {Idle}]
    /\ textStatus \in [Texts -> TextStatus]
    /\ dispatch \in [Senders -> Dispatches \cup {Idle}]
    /\ viaDevice \in BOOLEAN
    /\ outbox \in Seq(Items) /\ IsInjective(outbox)
    /\ itemStatus \in [Items -> ItemStatus]
    /\ onDevice \subseteq Items /\ acks \subseteq Items \X {"sent", "failed"}
    /\ accepted \in [Texts -> Nat] /\ sentByDevice \in [Items -> Nat] /\ handedOut \in [Items -> Nat]
    /\ corrected \in Corrected
    /\ strandedUnits \in Nat /\ overwritten \in BOOLEAN /\ tries \in 0..MaxTries

SmsInit ==
    /\ credits = OpeningCredits
    /\ purchaseStatus = [p \in Purchases |-> "none"] /\ completing = [p \in Purchases |-> Idle]
    /\ textStatus = [t \in Texts |-> "none"] /\ dispatch = [w \in Senders |-> Idle]
    /\ viaDevice \in BOOLEAN
    /\ outbox = <<>> /\ itemStatus = [i \in Items |-> "none"] /\ onDevice = {} /\ acks = {}
    /\ accepted = [t \in Texts |-> 0] /\ sentByDevice = [i \in Items |-> 0]
    /\ handedOut = [i \in Items |-> 0]
    /\ corrected = [sum |-> 0, down |-> 0, count |-> 0]
    /\ strandedUnits = 0 /\ overwritten = FALSE /\ tries = 0

---------------------------------------------------------------------------
(* Sending.                                                                *)

(* reserve_credits: what must be left.                                     *)
LeastAfter(t) == IF t \in Codes THEN -OtpOverdraft ELSE 0

Affordable(t) == credits - UnitsOf[t] >= LeastAfter(t)

Reserve(w, t) ==
    /\ credits' = credits - UnitsOf[t]
    /\ dispatch' = [dispatch EXCEPT ![w] = [text |-> t, at |-> "calling"]]

(* _dispatch up to the call of the provider.                               *)
Dispatch(w, t) ==
    /\ dispatch[w] = Idle /\ textStatus[t] = "none"
    /\ IF Affordable(t)
       THEN Reserve(w, t) /\ textStatus' = [textStatus EXCEPT ![t] = "pending"]
       ELSE textStatus' = [textStatus EXCEPT ![t] = "failed"] /\ UNCHANGED <<credits, dispatch>>
    /\ UNCHANGED <<purchaseStatus, completing, corrected, overwritten, outboxVars, viaDevice,
                   accepted, strandedUnits, tries>>

(* retry_failed_log, which does not lock the row: two may run at once.     *)
RetryText(w, t) ==
    /\ dispatch[w] = Idle /\ textStatus[t] = "failed" /\ t \notin Codes
    /\ tries < MaxTries /\ tries' = tries + 1
    /\ Affordable(t)
    /\ Reserve(w, t)
    /\ UNCHANGED <<textStatus, purchaseStatus, completing, corrected, overwritten, outboxVars,
                   viaDevice, accepted, strandedUnits>>

At(w, phase) == dispatch[w] # Idle /\ dispatch[w].at = phase
StepTo(w, phase) == dispatch' = [dispatch EXCEPT ![w].at = phase]

(* The provider accepts a text; for SmsRastiBackend, an item is queued.    *)
(* Codes always go to the platform's provider.                             *)
Accept(w) ==
    LET t == dispatch[w].text IN
    /\ At(w, "calling")
    /\ StepTo(w, "accepted")
    /\ accepted' = [accepted EXCEPT ![t] = @ + 1]
    /\ IF viaDevice /\ t \notin Codes
       THEN /\ outbox' = Append(outbox, <<t, accepted[t] + 1>>)
            /\ itemStatus' = [itemStatus EXCEPT ![<<t, accepted[t] + 1>>] = "pending"]
       ELSE UNCHANGED <<outbox, itemStatus>>
    /\ UNCHANGED <<creditVars, textStatus, viaDevice, onDevice, acks, sentByDevice, handedOut,
                   strandedUnits, tries>>

(* The provider refuses or does not answer.                                *)
Refuse(w) ==
    /\ At(w, "calling") /\ (viaDevice => dispatch[w].text \in Codes)
    /\ StepTo(w, "refused")
    /\ UNCHANGED <<creditVars, outboxVars, textStatus, viaDevice, accepted, strandedUnits, tries>>

(* refund_credits.                                                         *)
Refund(w) ==
    /\ At(w, "refused")
    /\ credits' = credits + UnitsOf[dispatch[w].text]
    /\ StepTo(w, "refunded")
    /\ UNCHANGED <<purchaseStatus, completing, corrected, overwritten, outboxVars, textStatus,
                   viaDevice, accepted, strandedUnits, tries>>

(* The row is saved, by a retry over what another wrote.                   *)
SaveText(w) ==
    /\ At(w, "accepted") \/ At(w, "refunded")
    /\ textStatus' = [textStatus EXCEPT ![dispatch[w].text] =
            IF At(w, "accepted") THEN "sent" ELSE "failed"]
    /\ dispatch' = [dispatch EXCEPT ![w] = Idle]
    /\ UNCHANGED <<creditVars, outboxVars, viaDevice, accepted, strandedUnits, tries>>

(* The worker is killed.  What it took is gone, the row stays as it is.    *)
KillSender(w) ==
    /\ dispatch[w] # Idle
    /\ dispatch' = [dispatch EXCEPT ![w] = Idle]
    /\ strandedUnits' = strandedUnits +
          IF At(w, "calling") \/ At(w, "refused") THEN UnitsOf[dispatch[w].text] ELSE 0
    /\ UNCHANGED <<creditVars, outboxVars, textStatus, viaDevice, accepted, tries>>

---------------------------------------------------------------------------
(* Buying and correcting.                                                  *)

Settings == <<outboxVars, textStatus, dispatch, viaDevice, accepted, strandedUnits, tries>>

(* request_purchase.                                                       *)
RequestPurchase(p) ==
    /\ purchaseStatus[p] = "none"
    /\ purchaseStatus' = [purchaseStatus EXCEPT ![p] = "pending"]
    /\ UNCHANGED <<credits, completing, corrected, overwritten, Settings>>

(* complete_purchase locks the purchase and reads the balance.             *)
CompletionReads(p) ==
    /\ purchaseStatus[p] = "pending" /\ completing[p] = Idle
    /\ completing' = [completing EXCEPT ![p] = credits]
    /\ UNCHANGED <<credits, purchaseStatus, corrected, overwritten, Settings>>

(* Fault: the purchase stays pending.                                      *)
CompletionWritesAgain(p) ==
    /\ completing[p] # Idle
    /\ credits' = completing[p] + PackageUnits
    /\ overwritten' = (overwritten \/ credits # completing[p])
    /\ completing' = [completing EXCEPT ![p] = Idle]
    /\ UNCHANGED <<purchaseStatus, corrected, Settings>>

(* It writes what it read and the package, and commits.                    *)
CompletionWrites(p) ==
    /\ completing[p] # Idle
    /\ credits' = completing[p] + PackageUnits
    /\ overwritten' = (overwritten \/ credits # completing[p])
    /\ purchaseStatus' = [purchaseStatus EXCEPT ![p] = "completed"]
    /\ completing' = [completing EXCEPT ![p] = Idle]
    /\ UNCHANGED <<corrected, Settings>>

(* cancel_purchase, behind the same lock.                                  *)
CancelPurchase(p) ==
    /\ purchaseStatus[p] = "pending" /\ completing[p] = Idle
    /\ purchaseStatus' = [purchaseStatus EXCEPT ![p] = "canceled"]
    /\ UNCHANGED <<credits, completing, corrected, overwritten, Settings>>

(* adjust_credit, with the balance locked; it may leave any balance.       *)
AdjustCredit(delta) ==
    /\ corrected.count < MaxCorrections
    /\ credits' = credits + delta
    /\ corrected' = [sum |-> corrected.sum + delta, count |-> corrected.count + 1,
                     down |-> corrected.down + IF delta < 0 THEN -delta ELSE 0]
    /\ UNCHANGED <<purchaseStatus, completing, overwritten, Settings>>

---------------------------------------------------------------------------
(* The device.  Requests and answers may be lost; its answers may come     *)
(* late and twice.  An item claimed 120 seconds ago may be claimed again.  *)

BesideOutbox == <<creditVars, textStatus, dispatch, viaDevice, accepted, strandedUnits>>

(* smsrasti_poll: the first of those pending or claimed too long ago.      *)
Poll(t, overdue, arrives) ==
    LET eligible == {u \in Items : itemStatus[u] = "pending"} \cup overdue IN
    /\ t \in eligible
    /\ \A i, j \in DOMAIN outbox : outbox[j] = t /\ i < j => outbox[i] \notin eligible
    /\ itemStatus' = [itemStatus EXCEPT ![t] = "sending"]
    /\ handedOut' = [handedOut EXCEPT ![t] = @ + 1]
    /\ onDevice' = IF arrives THEN onDevice \cup {t} ELSE onDevice
    /\ tries' = IF t \in overdue THEN tries + 1 ELSE tries
    /\ tries' <= MaxTries
    /\ UNCHANGED <<BesideOutbox, outbox, acks, sentByDevice>>

(* The device sends a message, or fails to, and answers.                   *)
DeviceActs(t, result) ==
    /\ t \in onDevice
    /\ onDevice' = onDevice \ {t}
    /\ sentByDevice' = [sentByDevice EXCEPT ![t] = @ + IF result = "sent" THEN 1 ELSE 0]
    /\ acks' = acks \cup {<<t, result>>}
    /\ UNCHANGED <<BesideOutbox, outbox, itemStatus, handedOut, tries>>

(* smsrasti_ack takes every answer, whatever the item's status.            *)
Acknowledge(a, again) ==
    /\ a \in acks
    /\ itemStatus' = [itemStatus EXCEPT ![a[1]] = a[2]]
    /\ acks' = IF again THEN acks ELSE acks \ {a}
    /\ UNCHANGED <<BesideOutbox, outbox, onDevice, sentByDevice, handedOut, tries>>

LoseAck(a) ==
    /\ a \in acks
    /\ acks' = acks \ {a}
    /\ UNCHANGED <<BesideOutbox, outbox, itemStatus, onDevice, sentByDevice, handedOut, tries>>

(* retry_smsrasti_outbox_item.                                             *)
RequeueItem(t) ==
    /\ itemStatus[t] = "failed" /\ tries < MaxTries
    /\ itemStatus' = [itemStatus EXCEPT ![t] = "pending"]
    /\ tries' = tries + 1
    /\ UNCHANGED <<BesideOutbox, outbox, onDevice, acks, sentByDevice, handedOut>>

SmsNext ==
    \/ \E w \in Senders :
          \/ \E t \in Texts : Dispatch(w, t) \/ RetryText(w, t)
          \/ Accept(w) \/ Refuse(w) \/ Refund(w) \/ SaveText(w) \/ KillSender(w)
    \/ \E p \in Purchases :
          RequestPurchase(p) \/ CompletionReads(p) \/ CompletionWrites(p) \/ CancelPurchase(p)
    \/ \E d \in Corrections : AdjustCredit(d)
    \/ \E t \in Items :
          \/ \E overdue \in SUBSET {u \in Items : itemStatus[u] = "sending"}, arrives \in BOOLEAN :
                Poll(t, overdue, arrives)
          \/ \E result \in {"sent", "failed"} : DeviceActs(t, result)
          \/ RequeueItem(t)
    \/ \E a \in acks : LoseAck(a) \/ \E again \in BOOLEAN : Acknowledge(a, again)

SmsSpec == SmsInit /\ [][SmsNext]_smsVars

---------------------------------------------------------------------------
(* Units taken by dispatches that neither kept nor returned them yet.      *)
UnitsHeld(w) == IF At(w, "calling") \/ At(w, "refused") THEN UnitsOf[dispatch[w].text] ELSE 0

UnitsInFlight == SumFunction([w \in Senders |-> UnitsHeld(w)])

UnitsUsed == SumFunction([t \in Texts |-> accepted[t] * UnitsOf[t]])

UnitsBought == PackageUnits * Cardinality({p \in Purchases : purchaseStatus[p] = "completed"})

(* Every credit is accounted for: a message costs its units each time the  *)
(* provider accepts it and nothing when it refuses, however dispatches,    *)
(* retries, purchases and corrections overlap; only a killed worker loses  *)
(* units, and only a purchase completed while the balance changes makes    *)
(* the account wrong.                                                      *)
CreditsAccounted ==
    overwritten \/
    credits + UnitsInFlight + UnitsUsed + strandedUnits
        = OpeningCredits + UnitsBought + corrected.sum

(* However the dispatches overlap, the debt stays within the overdraft and *)
(* what an administrator took away.                                        *)
DebtBounded == overwritten \/ credits >= -(OtpOverdraft + corrected.down)

(* An item is marked sent only when the device sent it, and is sent more   *)
(* than once only when it was handed out more than once.                   *)
SentByDevice ==
    \A t \in Items :
        /\ sentByDevice[t] <= handedOut[t]
        /\ itemStatus[t] = "sent" => sentByDevice[t] >= 1

SmsSound == SmsTypeOK /\ CreditsAccounted /\ DebtBounded /\ SentByDevice
=============================================================================
