------------------------------ MODULE Imports ------------------------------
(***************************************************************************)
(* A CSV import of products or of stock: dashboard/services/               *)
(* import_service.py, called by import_upload, import_execute and          *)
(* import_cancel (dashboard/views.py).  There is no queue: the rows are    *)
(* applied while the request runs, one transaction per batch, from a cache *)
(* of the catalogue that was filled before the first batch.                *)
(*                                                                         *)
(* Of a product only its price is kept.  A row is "sound" when nothing     *)
(* fails after its values were assigned (full_clean, the stock, a          *)
(* reservation).                                                           *)
(***************************************************************************)
EXTENDS Integers, FiniteSets, Sequences, SequencesExt

CONSTANTS
    Skus,
    Prices,
    OpeningPrice,   \* of the products there are before the import
    Files,          \* the rows of each file that may be uploaded
    Clerks,         \* requests to execute or cancel the job
    BatchSize,
    ProductLimit,   \* the plan's CATALOG_PRODUCTS
    RowLimit,       \* the plan's CATALOG_IMPORT_ROWS_MONTHLY
    Unset,          \* an empty cell
    Missing,        \* no such product
    Resting,        \* a request to come
    Answered        \* a request that is over

VARIABLES
    catalogue,      \* the price of each product
    importJob,      \* the ImportJob, Missing before the upload
    running,        \* what each clerk's request is at
    applications,   \* how often each row of the file was applied
    consumed,       \* UsageRecord.used_quantity of CATALOG_IMPORT_ROWS_MONTHLY
    disturbed,      \* requests on the job, or on the catalogue, overlapped
    interrupted     \* an execution broke off

importVars == <<catalogue, importJob, running, applications, consumed, disturbed, interrupted>>

Kinds == {"products", "inventory"}
Modes == {"create_only", "update_only", "upsert"}
FINAL_STATUSES == {"completed", "completed_with_errors", "failed", "cancelled"}
JobStatuses == {"validating", "preview_ready", "processing"} \cup FINAL_STATUSES
Outcomes == {"invalid", "failed", "created", "updated"}

FileRows   == [sku : Skus, price : Prices \cup {Unset}, sound : BOOLEAN]
PriceList  == [Skus -> Prices \cup {Missing}]
ImportJobs == [kind : Kinds, mode : Modes, file : Files, status : JobStatuses,
               rows : [Outcomes -> Nat]]
Wishes     == [at : {"execute", "cancel"}, seen : JobStatuses]
AtRows     == [at : {"rows"}, cache : PriceList, outcomes : Seq(Outcomes), budget : Int]

ASSUME ImportAssumption ==
    /\ OpeningPrice \in Prices /\ Missing \notin Prices \cup ImportJobs
    /\ IsFiniteSet(Skus) /\ Files \subseteq Seq(FileRows)
    /\ {Resting, Answered} \cap (Wishes \cup AtRows) = {}
    /\ BatchSize \in Nat \ {0} /\ ProductLimit \in Nat /\ RowLimit \in Nat

Idling(c) == running[c] \in {Resting, Answered}
NoRows == [o \in Outcomes |-> 0]
Listed(prices) == {s \in Skus : prices[s] # Missing}
Working(c) == ~Idling(c) /\ running[c].at = "rows"

ImportsInit ==
    /\ catalogue \in [Skus -> {OpeningPrice, Missing}]
    /\ Cardinality(Listed(catalogue)) <= ProductLimit
    /\ importJob = Missing
    /\ running = [c \in Clerks |-> Resting]
    /\ applications = <<>>
    /\ consumed \in 0..RowLimit
    /\ disturbed = FALSE /\ interrupted = FALSE

---------------------------------------------------------------------------
(* create_import_job and run_preview.  The page offers to execute or       *)
(* cancel the job once its preview is ready; a preview that breaks off     *)
(* leaves it "validating" for good.                                        *)
Upload(kind, mode, file) ==
    /\ importJob = Missing
    /\ \E status \in {"validating", "preview_ready"} :
           importJob' = [kind |-> kind, mode |-> mode, file |-> file,
                         status |-> status, rows |-> NoRows]
    /\ applications' = [i \in DOMAIN file |-> 0]
    /\ UNCHANGED <<catalogue, running, consumed, disturbed, interrupted>>

(* A page that offered it, of whatever age, is submitted: the view reads   *)
(* the job.                                                                *)
Submit(c, wish) ==
    /\ running[c] = Resting
    /\ importJob # Missing /\ importJob.status # "validating"
    /\ running' = [running EXCEPT ![c] = [at |-> wish, seen |-> importJob.status]]
    /\ UNCHANGED <<catalogue, importJob, applications, consumed, disturbed, interrupted>>

Submitted(c, wish) == ~Idling(c) /\ running[c].at = wish

(* Another request has changed the job meanwhile, or is at its rows.       *)
Disturbs(c) ==
    \/ running[c].seen # importJob.status
    \/ \E d \in Clerks \ {c} : Working(d)

(* Fault: only a completed job counts as final.                            *)
UnfinishedButCompleted(status) == status # "completed"

Unfinished(status) == status \notin FINAL_STATUSES

(* check_import_row_budget.                                                *)
RowsFit(file) == consumed + Len(file) <= RowLimit

(* run_execution up to its first batch, with product_creation_budget.      *)
Execute(c) ==
    /\ Submitted(c, "execute")
    /\ Unfinished(running[c].seen) /\ RowsFit(importJob.file)
    /\ importJob' = [importJob EXCEPT !.status = "processing"]
    /\ running' = [running EXCEPT ![c] =
           [at |-> "rows", cache |-> catalogue, outcomes |-> <<>>,
            budget |-> ProductLimit - Cardinality(Listed(catalogue))]]
    /\ disturbed' = (disturbed \/ Disturbs(c))
    /\ UNCHANGED <<catalogue, applications, consumed, interrupted>>

(* cancel_import_job.                                                      *)
CancelImport(c) ==
    /\ Submitted(c, "cancel") /\ Unfinished(running[c].seen)
    /\ importJob' = [importJob EXCEPT !.status = "cancelled"]
    /\ running' = [running EXCEPT ![c] = Answered]
    /\ disturbed' = (disturbed \/ Disturbs(c))
    /\ UNCHANGED <<catalogue, applications, consumed, interrupted>>

(* An ImportServiceError, or the plan's limit on rows.                     *)
RefuseImport(c) ==
    /\ ~Idling(c) /\ ~Working(c)
    /\ \/ ~Unfinished(running[c].seen)
       \/ running[c].at = "execute" /\ ~RowsFit(importJob.file)
    /\ running' = [running EXCEPT ![c] = Answered]
    /\ UNCHANGED <<catalogue, importJob, applications, consumed, disturbed, interrupted>>

---------------------------------------------------------------------------
(* The rows.  "prices" is the catalogue within the transaction of a batch. *)

(* _validate_product_row and _validate_inventory_row look in the cache.    *)
Valid(row, cache) ==
    LET known == cache[row.sku] # Missing
    IN  IF importJob.kind = "inventory" THEN known
        ELSE /\ importJob.mode = "create_only" => ~known
             /\ importJob.mode = "update_only" => known
             /\ ~known => row.price # Unset

(* Fault: without the savepoint.                                           *)
FailedUnrolled(batch, row, assigned) ==
    [batch EXCEPT !.outcomes = Append(@, "failed"), !.prices[row.sku] = assigned]

(* A row that does not come to pass: its savepoint is rolled back, but the *)
(* instance in the cache keeps what it was assigned.                       *)
Failed(batch, row, assigned) ==
    [batch EXCEPT !.outcomes = Append(@, "failed"),
                  !.cache[row.sku] = IF @ = Missing THEN @ ELSE assigned]

Saved(batch, row, assigned, outcome) ==
    [batch EXCEPT !.outcomes = Append(@, outcome),
                  !.cache[row.sku] = assigned, !.prices[row.sku] = assigned]

(* What is left when this row has created a product.                       *)
BudgetLeft(batch) == batch.budget - 1

(* One row of _execute_product_batch, with _apply_product_row.  An update  *)
(* saves the whole instance of the cache; a product created meanwhile      *)
(* meets the unique SKU.                                                   *)
ProductRow(batch, row) ==
    LET known == batch.cache[row.sku] # Missing
        assigned == IF row.price = Unset THEN batch.cache[row.sku] ELSE row.price
        clashes == ~known /\ batch.prices[row.sku] # Missing
    IN  IF ~known /\ batch.budget <= 0 THEN Failed(batch, row, Missing)
        ELSE IF ~row.sound \/ clashes THEN Failed(batch, row, assigned)
        ELSE IF known THEN Saved(batch, row, assigned, "updated")
        ELSE [Saved(batch, row, assigned, "created") EXCEPT !.budget = BudgetLeft(batch)]

(* One row of _execute_inventory_batch: adjust_warehouse_stock.            *)
InventoryRow(batch, row) ==
    [batch EXCEPT !.outcomes = Append(@, IF row.sound THEN "updated" ELSE "failed")]

RunRow(batch, row) ==
    IF ~Valid(row, batch.cache) THEN [batch EXCEPT !.outcomes = Append(@, "invalid")]
    ELSE IF importJob.kind = "products" THEN ProductRow(batch, row)
    ELSE InventoryRow(batch, row)

(* One batch of run_import commits.                                        *)
RunBatch(c) ==
    LET done == Len(running[c].outcomes)
        end == Min({done + BatchSize, Len(importJob.file)})
        before == [prices |-> catalogue, cache |-> running[c].cache,
                   budget |-> running[c].budget, outcomes |-> running[c].outcomes]
        after == FoldLeft(RunRow, before, SubSeq(importJob.file, done + 1, end))
    IN  /\ Working(c) /\ done < Len(importJob.file)
        /\ catalogue' = after.prices
        /\ running' = [running EXCEPT ![c].cache = after.cache, ![c].budget = after.budget,
                                      ![c].outcomes = after.outcomes]
        /\ applications' = [i \in DOMAIN importJob.file |->
               applications[i] + (IF i > done /\ i <= end /\ after.outcomes[i] \in {"created", "updated"}
                                  THEN 1 ELSE 0)]
        /\ UNCHANGED <<importJob, consumed, disturbed, interrupted>>

Counted(outcomes) ==
    [o \in Outcomes |-> Cardinality({i \in DOMAIN outcomes : outcomes[i] = o})]

(* The status run_import ends with.                                        *)
ImportStatus(n) ==
    IF n["created"] + n["updated"] + n["failed"] + n["invalid"] = 0 THEN "failed"
    ELSE IF n["failed"] = 0 /\ n["invalid"] = 0 THEN "completed"
    ELSE IF n["created"] + n["updated"] = 0 THEN "failed"
    ELSE "completed_with_errors"

(* The end of run_import and consume_import_rows.                          *)
FinishImport(c) ==
    /\ Working(c) /\ Len(running[c].outcomes) = Len(importJob.file)
    /\ LET n == Counted(running[c].outcomes)
       IN importJob' = [importJob EXCEPT !.rows = n, !.status = ImportStatus(n)]
    /\ consumed' = consumed + Len(importJob.file)
    /\ running' = [running EXCEPT ![c] = Answered]
    /\ UNCHANGED <<catalogue, applications, disturbed, interrupted>>

(* The worker dies, or the request's time is up.                           *)
BreakOff(c) ==
    /\ Working(c)
    /\ running' = [running EXCEPT ![c] = Answered]
    /\ interrupted' = TRUE
    /\ UNCHANGED <<catalogue, importJob, applications, consumed, disturbed>>

(* A product is added by hand, within the plan's limit.                    *)
AddProduct(s) ==
    /\ catalogue[s] = Missing
    /\ Cardinality(Listed(catalogue)) < ProductLimit
    /\ catalogue' = [catalogue EXCEPT ![s] = OpeningPrice]
    /\ disturbed' = (disturbed \/ \E c \in Clerks : Working(c))
    /\ UNCHANGED <<importJob, running, applications, consumed, interrupted>>

ImportsNext ==
    \/ \E kind \in Kinds, mode \in Modes, file \in Files : Upload(kind, mode, file)
    \/ \E s \in Skus : AddProduct(s)
    \/ \E c \in Clerks :
        \/ \E wish \in {"execute", "cancel"} : Submit(c, wish)
        \/ Execute(c) \/ CancelImport(c) \/ RefuseImport(c)
        \/ RunBatch(c) \/ FinishImport(c) \/ BreakOff(c)

ImportsSpec == ImportsInit /\ [][ImportsNext]_importVars

---------------------------------------------------------------------------
(* Types.                                                                  *)
ImportTypeOK ==
    /\ catalogue \in PriceList /\ importJob \in ImportJobs \cup {Missing}
    /\ running \in [Clerks -> {Resting, Answered} \cup Wishes \cup AtRows]
    /\ importJob # Missing => applications \in [DOMAIN importJob.file -> Nat]
    /\ consumed \in Nat /\ disturbed \in BOOLEAN /\ interrupted \in BOOLEAN

(* No row of a job is applied a second time, unless two executions of the  *)
(* job overlapped or one broke off: a stock row would move the stock       *)
(* twice.  (run_execution decides on the instance its view has read, so of *)
(* two requests that read the job before either wrote both run.)           *)
RowsAppliedOnce ==
    ~disturbed /\ ~interrupted => \A i \in DOMAIN applications : applications[i] <= 1

(* A finished job tells what it did: as many rows applied as it counts,    *)
(* "completed" only when that is every row, and "failed" when it is none.  *)
ReportTells ==
    LET applied == Cardinality({i \in DOMAIN applications : applications[i] > 0})
    IN  importJob # Missing /\ importJob.status \in FINAL_STATUSES /\ ~disturbed /\ ~interrupted =>
            /\ importJob.rows["created"] + importJob.rows["updated"] = applied
            /\ importJob.status = "completed" => applied = Len(importJob.file)
            /\ importJob.status \in {"failed", "cancelled"} <=> applied = 0

(* A row that failed leaves nothing behind in a product no other row of    *)
(* the file is about.  (Another row saves the cached instance, and with it *)
(* what the failed row had assigned to it.)                                *)
FailedLeavesNothing ==
    importJob # Missing => \A i \in DOMAIN applications :
        LET row == importJob.file[i] IN
        (/\ applications[i] = 0
         /\ \A j \in DOMAIN applications : j # i => importJob.file[j].sku # row.sku)
        => catalogue[row.sku] \in {Missing, OpeningPrice}

(* An import makes no more products, and spends no more rows, than the     *)
(* plan has left, unless requests overlapped.                              *)
WithinPlan ==
    ~disturbed => Cardinality(Listed(catalogue)) <= ProductLimit /\ consumed <= RowLimit

(* An import does each row once, says what it did, leaves nothing of what  *)
(* failed and keeps within the plan.                                       *)
ImportSound ==
    /\ ImportTypeOK
    /\ RowsAppliedOnce
    /\ ReportTells
    /\ FailedLeavesNothing
    /\ WithinPlan

(* A job that is final stays as it is, unless requests overlapped.         *)
FinalJobStays ==
    [][importJob # Missing /\ importJob.status \in FINAL_STATUSES /\ ~disturbed'
         => importJob' = importJob /\ applications' = applications]_importVars

=============================================================================
