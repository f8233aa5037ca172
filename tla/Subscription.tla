---------------------------- MODULE Subscription ----------------------------
(***************************************************************************)
(* The subscription of one store: apps/subscriptions/services/             *)
(* subscription_service.py and plan_change_service.py, with the views of   *)
(* the platform administrator that call them.                              *)
(*                                                                         *)
(* Every service locks the row (select_for_update) and decides on the      *)
(* status it then reads, so each is one action.  What is NOT read under    *)
(* the lock is what the callers carry across it: the periodic command      *)
(* evaluate_subscription_states decides on instances it has fetched        *)
(* before ("due"), the administrator's extension computes the new period   *)
(* from the instance of its request ("extension").  A plan change is       *)
(* confirmed with the token of an earlier page, which any save of the row  *)
(* makes invalid: so it is one step with the reading of that page.         *)
(*                                                                         *)
(* Times are whole days on the clock "now".  The row's "deadline" is        *)
(* trial_end_at of a trial and grace_period_end in grace, which no other   *)
(* status reads; current_period_start is written and decides nothing.      *)
(* pending and past_due are statuses no caller outside the tests leads to: *)
(* provisioning starts the trial or activates in the transaction that      *)
(* creates the row.                                                        *)
(***************************************************************************)
EXTENDS Integers

CONSTANTS
    Versions,    \* published plan versions
    Default,     \* the version provision_default_subscription gives
    Price,       \* display_price of a version
    Interval,    \* days of its billing_interval, 0 for NONE
    TrialDays,   \* trial_days of the default version
    GraceDays,   \* grace_period_days of a version
    ExtraDays,   \* days an administrator may add
    TrialEnds,   \* dates an administrator may end the trial on
    MaxNow,      \* bound of the clock
    MaxControls, \* bound of the uses of the controls below
    MaxEnd,      \* bound of the dates an administrator may set
    NoTime,      \* a date that is NULL
    Nothing      \* no row, no pending decision

ASSUME VersionsAreNamed == Default \in Versions /\ Nothing \notin Versions
ASSUME PlansAreNatural ==
    /\ Price \in [Versions -> Nat] /\ Interval \in [Versions -> Nat]
    /\ GraceDays \in [Versions -> Nat] /\ TrialDays \in Nat
    /\ ExtraDays \subseteq Nat \ {0} /\ TrialEnds \subseteq Nat
    /\ MaxNow \in Nat /\ MaxControls \in Nat /\ MaxEnd \in Nat
ASSUME NoTimeIsNoDate == NoTime \notin Int

VARIABLES
    now,        \* the day it is
    controls,   \* how often one of these controls was used
    sub,        \* the StoreSubscription row
    due,        \* what evaluate_subscription_states is about to do
    extension   \* the period end the administrator is about to write

subVars == <<now, controls, sub, due, extension>>

Terminal == {"cancelled", "expired"}

AllowedTransitions ==
    [pending      |-> {"trialing", "active", "cancelled"},
     trialing     |-> {"active", "grace_period", "expired", "cancelled"},
     active       |-> {"grace_period", "past_due", "suspended", "cancelled", "expired"},
     grace_period |-> {"active", "past_due", "suspended", "expired", "cancelled"},
     past_due     |-> {"active", "grace_period", "suspended", "expired", "cancelled"},
     suspended    |-> {"active", "expired", "cancelled"},
     cancelled    |-> {},
     expired      |-> {}]

Statuses == DOMAIN AllowedTransitions
Dates    == Nat \cup {NoTime}

Subscriptions ==
    [status : Statuses, current : BOOLEAN, version : Versions,
     deadline : Dates, end : Dates, cancelAtEnd : BOOLEAN]

NoDecision == [action |-> "none", days |-> 0]

(* provision_default_subscription: a trial when the version has days for   *)
(* one, else at once active, and then without a period.                    *)
SubscriptionInit ==
    /\ now = 0 /\ controls = 0
    /\ \E trial \in BOOLEAN :
          sub = [status      |-> IF trial /\ TrialDays > 0 THEN "trialing" ELSE "active",
                 current     |-> TRUE,
                 version     |-> Default,
                 deadline    |-> IF trial /\ TrialDays > 0 THEN TrialDays ELSE NoTime,
                 end         |-> NoTime,
                 cancelAtEnd |-> FALSE]
    /\ due = NoDecision
    /\ extension = Nothing

---------------------------------------------------------------------------
(* What the services make of the locked row.                               *)

(* _transition raises IllegalTransitionError unless this holds.            *)
MayBecome(s, to) == s.status = to \/ to \in AllowedTransitions[s.status]

(* _transition: a subscription that is there already keeps its dates; one  *)
(* that ends is no longer the current one of its store.                    *)
Become(s, changed, to) ==
    IF s.status = to THEN s
    ELSE [changed EXCEPT !.status = to, !.current = @ /\ to \notin Terminal]

ActivatedUntil(s, end) == Become(s, [s EXCEPT !.end = end, !.deadline = NoTime], "active")
InGrace(s, days)  == Become(s, [s EXCEPT !.deadline = now + days], "grace_period")
Suspended(s)      == Become(s, [s EXCEPT !.deadline = NoTime], "suspended")
Resumed(s)        == Become(s, [s EXCEPT !.deadline = NoTime], "active")
Cancelled(s)      == Become(s, [s EXCEPT !.deadline = NoTime, !.cancelAtEnd = FALSE], "cancelled")
Expired(s)        == Become(s, [s EXCEPT !.deadline = NoTime], "expired")

(* Fault: the end of the subscription is not looked at before a renewal.   *)
MayRenewAny(s) == TRUE

(* renew_subscription and change_plan_version refuse one that has ended.   *)
MayRenew(s) == s.status \notin Terminal

Renewed(s, end) == [s EXCEPT !.status = "active", !.end = end, !.deadline = NoTime]

OnVersion(s, v) == [s EXCEPT !.version = v]

---------------------------------------------------------------------------
(* The periodic command.                                                   *)

Passed(date) == date /= NoTime /\ date <= now

(* _due_action, in its order of precedence.                                *)
DueAction(s) ==
    IF s.cancelAtEnd /\ Passed(s.end) THEN "cancelled"
    ELSE IF s.status = "trialing" /\ Passed(s.deadline)
         THEN IF GraceDays[s.version] > 0 THEN "grace" ELSE "expired"
    ELSE IF s.status = "grace_period" /\ Passed(s.deadline) THEN "suspended"
    ELSE IF s.status \in {"active", "past_due"} /\ Passed(s.end) THEN "grace"
    ELSE "none"

(* The command fetches the subscription and finds it due.                  *)
FindDue ==
    /\ due = NoDecision
    /\ sub.current /\ DueAction(sub) /= "none"
    /\ due' = [action |-> DueAction(sub), days |-> GraceDays[sub.version]]
    /\ UNCHANGED <<now, controls, sub, extension>>

(* _apply_due_action: the service it calls locks the row of now, and       *)
(* raises when that no longer allows the transition.                       *)
Applied(s) ==
    CASE due.action = "cancelled" -> IF MayBecome(s, "cancelled") THEN Cancelled(s) ELSE s
      [] due.action = "grace"     -> IF MayBecome(s, "grace_period") THEN InGrace(s, due.days) ELSE s
      [] due.action = "suspended" -> IF MayBecome(s, "suspended") THEN Suspended(s) ELSE s
      [] due.action = "expired"   -> IF MayBecome(s, "expired") THEN Expired(s) ELSE s

ApplyDue ==
    /\ due /= NoDecision
    /\ sub' = Applied(sub)
    /\ due' = NoDecision
    /\ UNCHANGED <<now, controls, extension>>

---------------------------------------------------------------------------
(* The administrator's controls.                                           *)

Intervene == controls < MaxControls /\ controls' = controls + 1
Administer(s) == Intervene /\ sub' = s /\ UNCHANGED <<now, due, extension>>

AdminSuspend == MayBecome(sub, "suspended") /\ Administer(Suspended(sub))
AdminResume  == MayBecome(sub, "active")    /\ Administer(Resumed(sub))
AdminCancel  == MayBecome(sub, "cancelled") /\ Administer(Cancelled(sub))

ExtendTrial ==
    \E days \in ExtraDays :
        /\ sub.current /\ sub.status = "trialing"
        /\ sub.deadline + days <= MaxEnd
        /\ Administer([sub EXCEPT !.deadline = @ + days])

SetTrialEnd ==
    \E date \in TrialEnds :
        /\ sub.current /\ sub.status = "trialing"
        /\ Administer([sub EXCEPT !.deadline = date])

EndTrialNow ==
    /\ sub.current /\ sub.status = "trialing"
    /\ Administer(IF GraceDays[sub.version] > 0
                  THEN InGrace(sub, GraceDays[sub.version]) ELSE Expired(sub))

(* store_extend_subscription: the period is computed from the instance the *)
(* view has fetched ...                                                    *)
PlanExtension ==
    \E days \in ExtraDays :
        LET end == (IF sub.end = NoTime THEN now ELSE sub.end) + days
        IN  /\ extension = Nothing
            /\ sub.current /\ end <= MaxEnd
            /\ extension' = end
            /\ Intervene
            /\ UNCHANGED <<now, sub, due>>

(* ... and renew_subscription, which is given no idempotency key, writes   *)
(* it on the row of now.                                                   *)
Extend ==
    /\ extension /= Nothing
    /\ sub' = IF MayRenew(sub) THEN Renewed(sub, extension) ELSE sub
    /\ extension' = Nothing
    /\ UNCHANGED <<now, controls, due>>

---------------------------------------------------------------------------
(* The merchant's plan page: execute_plan_change, with a valid token.  The *)
(* plan changes at once and nothing is paid.                               *)
ExecutePlanChange ==
    \E target \in Versions :
        /\ sub.current /\ MayRenew(sub)
        /\ Administer(OnVersion(sub, target))

Tick ==
    /\ now < MaxNow
    /\ now' = now + 1
    /\ UNCHANGED <<controls, sub, due, extension>>

ServiceStep ==
    \/ FindDue \/ ApplyDue
    \/ AdminSuspend \/ AdminResume \/ AdminCancel
    \/ ExtendTrial \/ SetTrialEnd \/ EndTrialNow
    \/ PlanExtension \/ Extend
    \/ ExecutePlanChange
    \/ Tick
=============================================================================
