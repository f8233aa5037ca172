---------------------------- MODULE ProductEntry ----------------------------
(***************************************************************************)
(* How a product of a store comes into being and goes                      *)
(* (catalog/services/product_draft_service.py and the dashboard views      *)
(* product_create_entry, product_form, product_discard_draft): opening the *)
(* page creates a placeholder row, of which the store has one and which    *)
(* whoever opens the page next takes up; the first valid form makes it a   *)
(* product.  Abandoned placeholders are discarded or cleaned up.           *)
(*                                                                         *)
(* A request loads its row first and writes later.  The plan's limit is    *)
(* checked when a placeholder is created, without counting it, and never   *)
(* again.                                                                  *)
(***************************************************************************)
EXTENDS Naturals, FiniteSets

CONSTANTS
    ProductIds,     \* primary keys, handed out in order
    Clerical,       \* staff members, with one page each
    PlanLimit,      \* CATALOG_PRODUCTS
    Nowhere         \* no page open

ASSUME EntryAssumption ==
    /\ ProductIds \subseteq Nat /\ PlanLimit \in Nat
    /\ Nowhere \notin ProductIds
    /\ IsFiniteSet(Clerical) /\ Clerical # {}

VARIABLES
    placeholder,  \* Product.is_draft_placeholder, "none" or "deleted" without a row
    abandoned,    \* updated_at is older than the cutoff
    page,         \* the product a staff member's page edits, and whether as a new one
    asked,        \* what the staff member's request has read
    sweep,        \* the rows a running clean-up found
    lateFinish,   \* products finished after a request had found them unfinished
    thrownAway,   \* products deleted as if they were placeholders
    comeback      \* products that a late save created again

entryVars == <<placeholder, abandoned, page, asked, sweep,
               lateFinish, thrownAway, comeback>>

Row(p)   == placeholder[p] \in {"draft", "product"}
Drafts   == {p \in ProductIds : placeholder[p] = "draft"}
Products == {p \in ProductIds : placeholder[p] = "product"}
NextId(p) == placeholder[p] = "none" /\ \A q \in ProductIds : q < p => placeholder[q] # "none"

AtRest == [step |-> "none", product |-> Nowhere]
Doing(step, p) == [step |-> step, product |-> p]
Has(s, step) == asked[s].step = step
(* Requests that loaded a row as a placeholder and still go by that.       *)
Holders(p) == {s \in Clerical : Has(s, "discard") /\ asked[s].product = p}

EntryInit ==
    /\ placeholder = [p \in ProductIds |-> "none"]
    /\ abandoned = {}
    /\ page = [s \in Clerical |-> Nowhere]
    /\ asked = [s \in Clerical |-> AtRest]
    /\ sweep = {} /\ lateFinish = {} /\ thrownAway = {} /\ comeback = {}

HistoryUnchanged == UNCHANGED <<lateFinish, thrownAway, comeback>>
RowsUnchanged    == UNCHANGED <<placeholder, abandoned>> /\ HistoryUnchanged
Reply(s)         == asked' = [asked EXCEPT ![s] = AtRest]
Turn(s, p)       == page' = [page EXCEPT ![s] = p]

----------------------------------------------------------------------------
(* get_or_create_product_draft: the newest placeholder is taken up ...     *)
ResumeDraft(s, p) ==
    /\ Has(s, "none") /\ p \in Drafts /\ Turn(s, p)
    /\ abandoned' = abandoned \ {p}
    /\ UNCHANGED <<placeholder, asked, sweep>> /\ HistoryUnchanged

(* ... or one is permitted by the plan, and created.                       *)
MayGrow == Cardinality(Products) < PlanLimit

PermitDraft(s) ==
    /\ Has(s, "none") /\ Drafts = {} /\ MayGrow
    /\ asked' = [asked EXCEPT ![s] = Doing("create", Nowhere)]
    /\ UNCHANGED <<page, sweep>> /\ RowsUnchanged

(* An empty SKU is unique in a store: the second placeholder is refused.   *)
CreateDraft(s, p) ==
    /\ Has(s, "create") /\ Drafts = {} /\ NextId(p)
    /\ placeholder' = [placeholder EXCEPT ![p] = "draft"]
    /\ Turn(s, p) /\ Reply(s)
    /\ UNCHANGED <<abandoned, sweep>> /\ HistoryUnchanged

RefuseDraft(s) ==
    /\ Has(s, "create") /\ Drafts # {} /\ Reply(s)
    /\ UNCHANGED <<page, sweep>> /\ RowsUnchanged

EditProduct(s, p) ==
    /\ Has(s, "none") /\ p \in Products /\ Turn(s, p)
    /\ UNCHANGED <<asked, sweep>> /\ RowsUnchanged

----------------------------------------------------------------------------
(* product_form: the row is loaded, then saved.                            *)
SubmitForm(s) ==
    /\ Has(s, "none") /\ page[s] # Nowhere /\ Row(page[s])
    /\ asked' = [asked EXCEPT ![s] = Doing("save", page[s])]
    /\ UNCHANGED <<page, sweep>> /\ RowsUnchanged

(* _save_product: every column is written, and a row that is gone is       *)
(* inserted again.                                                         *)
SaveForm(s) ==
    LET p == asked[s].product IN
    /\ Has(s, "save")
    /\ placeholder' = [placeholder EXCEPT ![p] = "product"]
    /\ abandoned' = abandoned \ {p}
    /\ lateFinish' = IF placeholder[p] = "draft" /\ (Holders(p) # {} \/ p \in sweep)
                     THEN lateFinish \cup {p} ELSE lateFinish
    /\ comeback' = IF Row(p) THEN comeback ELSE comeback \cup {p}
    /\ Turn(s, p) /\ Reply(s)
    /\ UNCHANGED <<sweep, thrownAway>>

----------------------------------------------------------------------------
(* Deletion: on purpose, as a placeholder, or by the periodic clean-up.    *)

Removed(p) == placeholder' = [placeholder EXCEPT ![p] = "deleted"]

DeleteFinished(p) ==
    /\ p \in Products /\ Removed(p)
    /\ UNCHANGED <<abandoned, page, asked, sweep>> /\ HistoryUnchanged

(* Fault: the page's product is discarded whether it is finished or not.   *)
DiscardableRow(p) == Row(p)

(* product_discard_draft finds only placeholders.                          *)
Discardable(p) == p \in Drafts

StartDiscard(s) ==
    /\ Has(s, "none") /\ page[s] \in ProductIds /\ Discardable(page[s])
    /\ asked' = [asked EXCEPT ![s] = Doing("discard", page[s])]
    /\ UNCHANGED <<page, sweep>> /\ RowsUnchanged

ThrowAway(p) ==
    /\ placeholder' = [placeholder EXCEPT ![p] = IF Row(p) THEN "deleted" ELSE @]
    /\ thrownAway' = IF p \in Products THEN thrownAway \cup {p} ELSE thrownAway

FinishDiscard(s) ==
    /\ Has(s, "discard") /\ ThrowAway(asked[s].product)
    /\ Turn(s, Nowhere) /\ Reply(s)
    /\ UNCHANGED <<abandoned, sweep, lateFinish, comeback>>

(* cleanup_stale_product_drafts: a list, then one deletion after another.  *)
Abandon(p) ==
    /\ p \in Drafts \ abandoned /\ abandoned' = abandoned \cup {p}
    /\ UNCHANGED <<placeholder, page, asked, sweep>> /\ HistoryUnchanged

StartSweep ==
    /\ sweep = {} /\ sweep' = Drafts \cap abandoned
    /\ UNCHANGED <<page, asked>> /\ RowsUnchanged

SweepOne(p) ==
    /\ p \in sweep /\ sweep' = sweep \ {p} /\ ThrowAway(p)
    /\ UNCHANGED <<abandoned, page, asked, lateFinish, comeback>>

EntryNext ==
    \/ \E s \in Clerical :
           \/ \E p \in ProductIds : ResumeDraft(s, p) \/ CreateDraft(s, p) \/ EditProduct(s, p)
           \/ PermitDraft(s) \/ RefuseDraft(s) \/ SubmitForm(s) \/ SaveForm(s)
           \/ StartDiscard(s) \/ FinishDiscard(s)
    \/ \E p \in ProductIds : DeleteFinished(p) \/ Abandon(p) \/ SweepOne(p)
    \/ StartSweep

EntrySpec == EntryInit /\ [][EntryNext]_entryVars

----------------------------------------------------------------------------
EntryTypeOK ==
    /\ placeholder \in [ProductIds -> {"none", "draft", "product", "deleted"}]
    /\ page \in [Clerical -> ProductIds \cup {Nowhere}]
    /\ asked \in [Clerical -> [step : {"none", "create", "save", "discard"},
                                 product : ProductIds \cup {Nowhere}]]
    /\ abandoned \subseteq ProductIds /\ sweep \subseteq ProductIds

(* A store has at most one placeholder.                                    *)
OneDraft == Cardinality(Drafts) <= 1

(* A finished product is not thrown away as a placeholder unless it was    *)
(* finished while a discard or a clean-up that had found it unfinished was *)
(* under way, or a late save brought it back.                              *)
FinishedIsKept == thrownAway \subseteq lateFinish \cup comeback

(* The plan's limit is passed by as many products as there are other staff *)
(* whose placeholders were permitted meanwhile, and by late saves that     *)
(* bring a deleted product back.                                           *)
WithinPlan == Cardinality(Products \ comeback) <= PlanLimit + Cardinality(Clerical) - 1

(* The entry of products, as a whole: whatever two members of staff and    *)
(* the clean-up do at once, only the overlaps named above lose a finished  *)
(* product or pass the limit.                                              *)
EntrySound == EntryTypeOK /\ OneDraft /\ FinishedIsKept /\ WithinPlan
=============================================================================
