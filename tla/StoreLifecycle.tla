--------------------------- MODULE StoreLifecycle ---------------------------
(***************************************************************************)
(* The life of one store after provisioning: the wizard that publishes it  *)
(* (apps/portal/views.py), the suspension by the platform                  *)
(* (stores/services/store_status_service.py), the deletion its owner asks  *)
(* for (deletion_service.py) with the purge command, and what visitors get *)
(* to see of it (publication_service.py).                                  *)
(*                                                                         *)
(* Deletion is requested and cancelled on the locked row.  Suspension and  *)
(* the wizard work on the instance their view has read, and the purge on a *)
(* list it fetched first: these are two steps each.                        *)
(*                                                                         *)
(* Days are whole.  Of the subscription only counts what                   *)
(* get_subscription_access_state says of it, any of four answers.          *)
(***************************************************************************)
EXTENDS Integers, Sequences

CONSTANTS
    Retention,  \* deletion_retention_days
    MaxDay,     \* bound of the clock
    MaxActs,    \* bound of the platform's suspensions and activations
    NoDay,      \* a date that is NULL
    NoRequest   \* nothing read, nothing listed

ASSUME LifecycleNumbers ==
    /\ Retention \in Nat \ {0} /\ MaxDay \in Nat /\ MaxActs \in Nat
    /\ NoDay \notin Int

VARIABLES
    today,
    store,      \* the Store row
    verdict,    \* the suspension or activation the platform is writing
    wizard,     \* the stage of the wizard that is being saved
    purging,    \* the row as the purge command has listed it
    acts,       \* how often the platform acted
    overruled   \* the platform acted while the deletion was pending

lifeVars == <<today, store, verdict, wizard, purging, acts, overruled>>

StageOrder == <<"identity", "industry", "branding", "review">>
Stages     == {"identity", "industry", "branding", "review", "done"}

(* Each of which get_store_publication_state reads in its own way; a paid  *)
(* subscription that may grow is "active".                                 *)
AccessStates == {"none", "restricted", "trialing", "active"}

(* status_before_deletion of a store that is not to be deleted.            *)
NoStatus == ""

Stores ==
    [status : {"active", "suspended", "closed"}, before : {NoStatus, "active", "suspended"},
     requestedAt : Nat \cup {NoDay}, purgeAt : Nat \cup {NoDay},
     stage : Stages, onboarded : BOOLEAN, installed : BOOLEAN, exists : BOOLEAN]

LifeInit ==
    /\ today = 0
    /\ store = [status |-> "active", before |-> NoStatus, requestedAt |-> NoDay,
                purgeAt |-> NoDay, stage |-> "identity", onboarded |-> FALSE,
                installed |-> FALSE, exists |-> TRUE]
    /\ verdict = NoRequest /\ wizard = NoRequest /\ purging = NoRequest
    /\ acts = 0 /\ overruled = FALSE

Pending == store.requestedAt # NoDay

(* get_store_publication_state.                                            *)
PublicationState(s, a) ==
    IF s.status = "closed" THEN "inactive"
    ELSE IF s.status = "suspended" THEN "suspended"
    ELSE IF a = "none" THEN "active_paid"
    ELSE IF a = "restricted" THEN "restricted"
    ELSE IF ~s.onboarded THEN "trial_private"
    ELSE IF a = "trialing" THEN "trial_public" ELSE "active_paid"

NonPublic == {"trial_private", "restricted", "suspended", "inactive"}

(* is_publicly_visible.                                                    *)
Visible(access) == store.exists /\ PublicationState(store, access) \notin NonPublic

---------------------------------------------------------------------------
(* The owner.                                                              *)

(* Fault: the store stays open until it is purged.                         *)
RequestDeletionOpen ==
    /\ store.exists /\ ~Pending
    /\ store' = [store EXCEPT !.before = store.status,
                              !.requestedAt = today, !.purgeAt = today + Retention]
    /\ UNCHANGED <<today, verdict, wizard, purging, acts, overruled>>

(* request_deletion, once the slug is typed and the second step confirmed. *)
RequestDeletion ==
    /\ store.exists /\ ~Pending
    /\ store' = [store EXCEPT !.before = store.status, !.status = "closed",
                              !.requestedAt = today, !.purgeAt = today + Retention]
    /\ UNCHANGED <<today, verdict, wizard, purging, acts, overruled>>

(* Fault: a store that comes back is always active.                        *)
RestoredActive(s) == "active"

Restored(s) == IF s.before = NoStatus THEN "active" ELSE s.before

(* cancel_deletion.                                                        *)
CancelDeletion ==
    /\ store.exists /\ Pending
    /\ store' = [store EXCEPT !.status = Restored(store), !.before = NoStatus,
                              !.requestedAt = NoDay, !.purgeAt = NoDay]
    /\ overruled' = FALSE
    /\ UNCHANGED <<today, verdict, wizard, purging, acts>>

Position(stage) ==
    CHOOSE i \in 1..Len(StageOrder) : StageOrder[i] = stage

(* _advance_onboarding_stage: whether a store read at "current" moves on   *)
(* when "completed" is saved.  A store that is done has no position in the *)
(* order, and so moves as if it were before all of them.                   *)
Advances(current, completed) ==
    current = "done" \/ Position(completed) >= Position(current)

(* A stage of the wizard is posted: its view has read the store.           *)
PostStage(completed) ==
    /\ store.exists /\ wizard = NoRequest
    /\ wizard' = [completed |-> completed, current |-> store.stage,
                  installed |-> store.installed]
    /\ UNCHANGED <<today, store, verdict, purging, acts, overruled>>

(* onboarding_identity, onboarding_industry and onboarding_branding save   *)
(* what was entered and advance; a template is installed unless the store  *)
(* had one (or has one by now: uniqueness of the installation, after which *)
(* the stage is not advanced).                                             *)
SaveStage ==
    /\ wizard # NoRequest /\ wizard.completed \in {"identity", "industry", "branding"}
    /\ wizard' = NoRequest
    /\ \E install \in BOOLEAN :
          /\ install => wizard.completed = "industry" /\ ~wizard.installed
          /\ store' = IF ~store.exists \/ (install /\ store.installed) THEN store
                      ELSE [store EXCEPT
                              !.installed = @ \/ install,
                              !.stage = IF Advances(wizard.current, wizard.completed)
                                        THEN StageOrder[Position(wizard.completed) + 1]
                                        ELSE @]
    /\ UNCHANGED <<today, verdict, purging, acts, overruled>>

(* onboarding_review: the store is published.                              *)
Publish ==
    /\ wizard # NoRequest /\ wizard.completed = "review"
    /\ wizard' = NoRequest
    /\ store' = IF store.exists
                THEN [store EXCEPT !.onboarded = TRUE, !.stage = "done"] ELSE store
    /\ UNCHANGED <<today, verdict, purging, acts, overruled>>

---------------------------------------------------------------------------
(* The platform.                                                           *)

(* suspend_store and activate_store check the status they have read.       *)
MayDecide(to) == (to = "suspended") = (store.status # "suspended")

(* store_suspend and store_activate read the store.                        *)
Decide(to) ==
    /\ store.exists /\ verdict = NoRequest /\ acts < MaxActs
    /\ MayDecide(to)
    /\ verdict' = to
    /\ acts' = acts + 1
    /\ UNCHANGED <<today, store, wizard, purging, overruled>>

(* They write the status, whatever the row says by now.                    *)
WriteVerdict ==
    /\ verdict # NoRequest
    /\ verdict' = NoRequest
    /\ store' = IF store.exists THEN [store EXCEPT !.status = verdict] ELSE store
    /\ overruled' = (overruled \/ Pending)
    /\ UNCHANGED <<today, wizard, purging, acts>>

(* stores_due_for_purge.                                                   *)
Due == Pending /\ store.purgeAt <= today

(* purge_due_stores fetches its list.                                      *)
ListDue ==
    /\ store.exists /\ purging = NoRequest
    /\ Due
    /\ purging' = store
    /\ UNCHANGED <<today, store, verdict, wizard, acts, overruled>>

(* It deletes the stores of the list, one transaction each; a store that a *)
(* protected row refers to stays.                                          *)
Purge ==
    /\ purging # NoRequest
    /\ purging' = NoRequest
    /\ \E deleted \in BOOLEAN : store' = [store EXCEPT !.exists = ~deleted]
    /\ UNCHANGED <<today, verdict, wizard, acts, overruled>>

NextDay ==
    /\ today < MaxDay
    /\ today' = today + 1
    /\ UNCHANGED <<store, verdict, wizard, purging, acts, overruled>>

LifeNext ==
    \/ RequestDeletion \/ CancelDeletion
    \/ \E s \in Stages \ {"done"} : PostStage(s)
    \/ SaveStage \/ Publish
    \/ \E to \in {"suspended", "active"} : Decide(to)
    \/ WriteVerdict \/ ListDue \/ Purge \/ NextDay

LifeSpec == LifeInit /\ [][LifeNext]_lifeVars

---------------------------------------------------------------------------
LifeTypeOK ==
    /\ today \in 0..MaxDay /\ store \in Stores
    /\ verdict \in {"suspended", "active", NoRequest}
    /\ wizard \in [completed : Stages, current : Stages, installed : BOOLEAN] \cup {NoRequest}
    /\ purging \in Stores \cup {NoRequest}
    /\ acts \in 0..MaxActs /\ overruled \in BOOLEAN

(* From the request on nobody sees a store that is to be deleted, unless   *)
(* the platform suspended or activated it in the meantime.                 *)
DeletionIsPrivate ==
    Pending /\ ~overruled => \A access \in AccessStates : ~Visible(access)

(* A visitor sees a store with a subscription only once its owner has      *)
(* published it, and only as long as the subscription is good.             *)
SeenWhenPublished ==
    \A access \in AccessStates \ {"none"} :
        Visible(access) => store.onboarded /\ access # "restricted"

(* Visitors see what they may: nothing of a store about to be deleted, and *)
(* nothing its owner has not published.                                    *)
LifeSound == LifeTypeOK /\ DeletionIsPrivate /\ SeenWhenPublished

(* Nobody but the platform lifts a suspension: a deletion that is asked    *)
(* for and cancelled again leads back to it, unless the platform suspended *)
(* the store only after the request.                                       *)
SuspensionHolds ==
    [][store.status = "suspended" \/ store.before = "suspended" =>
          \/ store'.status = "suspended" \/ store'.before = "suspended"
          \/ verdict = "active" /\ verdict' = NoRequest
          \/ overruled]_lifeVars

(* A store is deleted only after the retention that follows a request of   *)
(* its owner, and if that request was cancelled, then no earlier than the  *)
(* day it would have been due.                                             *)
DeletedAfterRetention ==
    [][store.exists /\ ~store'.exists =>
          purging.requestedAt + Retention <= today]_lifeVars

(* Until it is published, the wizard of a store never moves back, whatever *)
(* stage its owner visits and saves again.                                 *)
WizardForward ==
    [][store.stage # "done" =>
          store'.stage = "done" \/ Position(store'.stage) >= Position(store.stage)]_lifeVars

(* What no step of the owner, the platform or the purge may do.            *)
LifeSteps == SuspensionHolds /\ DeletedAfterRetention /\ WizardForward
=============================================================================
