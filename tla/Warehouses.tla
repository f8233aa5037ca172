----------------------------- MODULE Warehouses -----------------------------
(***************************************************************************)
(* The warehouses of one store (catalog/services/warehouse_service.py) and *)
(* the dashboard views that call it.  A view reads the warehouse it is     *)
(* about (get_object_or_404) before the service opens its transaction, and *)
(* the service decides on, and saves, that instance.                       *)
(***************************************************************************)
EXTENDS Naturals, FiniteSets

CONSTANTS
    WarehouseIds,
    Main,           \* the warehouse of DEFAULT_WAREHOUSE_CODE
    Editors,        \* members with WAREHOUSE_MANAGE, one request each
    Closed          \* no request in flight

ASSUME WarehousesAreNamed == Main \in WarehouseIds /\ IsFiniteSet(WarehouseIds)

VARIABLES
    created,        \* the rows
    active,         \* those with is_active
    defaults,       \* those with is_default
    form,           \* the instance an editor's request has read
    outdated,       \* some request wrote what had changed after it read it
    adopted         \* provisioning has made an archived warehouse the default

warehouseVars == <<created, active, defaults, form, outdated, adopted>>

Instance == [warehouse : WarehouseIds, isDefault : BOOLEAN, isActive : BOOLEAN]

(* Types, and the constraint uniq_default_warehouse_per_store.             *)
WarehouseTypeOK ==
    /\ active \subseteq created /\ created \subseteq WarehouseIds
    /\ defaults \subseteq created /\ Cardinality(defaults) <= 1
    /\ form \in [Editors -> Instance \cup {Closed}]
    /\ outdated \in BOOLEAN /\ adopted \in BOOLEAN

WarehouseInit ==
    /\ created = {} /\ active = {} /\ defaults = {}
    /\ form = [e \in Editors |-> Closed]
    /\ outdated = FALSE /\ adopted = FALSE

Row(w) == [warehouse |-> w, isDefault |-> w \in defaults, isActive |-> w \in active]

(* provision_default_warehouse, by the first movement of stock.  A         *)
(* warehouse that the merchant has given the code "main" is taken as it    *)
(* is, archived or not.                                                    *)
Provision ==
    /\ defaults = {}
    /\ defaults' = {Main}
    /\ created' = created \cup {Main}
    /\ active' = IF Main \in created THEN active ELSE active \cup {Main}
    /\ adopted' = (adopted \/ Main \in created \ active)
    /\ UNCHANGED <<form, outdated>>

(* create_warehouse clears the earlier default before it inserts, because  *)
(* the constraint is checked at once.                                      *)
DefaultsWith(w, isDefault) == IF isDefault THEN {w} ELSE defaults

Create(w, isActive, isDefault) ==
    /\ w \notin created
    /\ isDefault => isActive
    /\ created' = created \cup {w}
    /\ active' = IF isActive THEN active \cup {w} ELSE active
    /\ defaults' = DefaultsWith(w, isDefault)
    /\ UNCHANGED <<form, outdated, adopted>>

OpenForm(e, w) ==
    /\ form[e] = Closed /\ w \in created
    /\ form' = [form EXCEPT ![e] = Row(w)]
    /\ UNCHANGED <<created, active, defaults, outdated, adopted>>

CloseForm(e) ==
    /\ form' = [form EXCEPT ![e] = Closed]
    /\ outdated' = (outdated \/ form[e] # Row(form[e].warehouse))
    /\ UNCHANGED <<created, adopted>>

(* Fault: a form that does not tick is_default takes the default away.     *)
StillDefaultAsTicked(seen, ticked) == ticked

(* _parse_warehouse_form passes is_default only when it is ticked, so the  *)
(* value the instance was read with stays.                                 *)
StillDefault(seen, ticked) == ticked \/ seen.isDefault

(* update_warehouse saves the whole instance; full_clean refuses a default *)
(* that is not active, and a second default.                               *)
Update(e, isActive, ticked) ==
    LET seen == form[e]
        w == seen.warehouse
        others == IF ticked THEN {} ELSE defaults \ {w}
    IN  /\ seen # Closed
        /\ StillDefault(seen, ticked) => isActive /\ others = {}
        /\ defaults' = IF StillDefault(seen, ticked) THEN {w} ELSE others
        /\ active' = IF isActive THEN active \cup {w} ELSE active \ {w}
        /\ CloseForm(e)

(* set_default_warehouse.                                                  *)
SetDefault(e) ==
    /\ form[e] # Closed /\ form[e].isActive
    /\ defaults' = {form[e].warehouse}
    /\ UNCHANGED active
    /\ CloseForm(e)

(* Fault: archive_warehouse does not ask whether it is the default.        *)
MayArchiveAny(seen) == TRUE

(* archive_warehouse.                                                      *)
MayArchive(seen) == ~seen.isDefault

Archive(e) ==
    /\ form[e] # Closed /\ MayArchive(form[e])
    /\ active' = active \ {form[e].warehouse}
    /\ UNCHANGED defaults
    /\ CloseForm(e)

(* A WarehouseError: the transaction is rolled back.                       *)
Refuse(e) ==
    /\ form[e] # Closed
    /\ form' = [form EXCEPT ![e] = Closed]
    /\ UNCHANGED <<created, active, defaults, outdated, adopted>>

WarehouseNext ==
    \/ Provision
    \/ \E w \in WarehouseIds, a, d \in BOOLEAN : Create(w, a, d)
    \/ \E e \in Editors :
        \/ \E w \in WarehouseIds : OpenForm(e, w)
        \/ \E a, d \in BOOLEAN : Update(e, a, d)
        \/ SetDefault(e)
        \/ Archive(e)
        \/ Refuse(e)

WarehouseSpec == WarehouseInit /\ [][WarehouseNext]_warehouseVars

---------------------------------------------------------------------------
(* Unless two requests about one warehouse overlapped, the default         *)
(* warehouse is one that still works: orders are filled from it and        *)
(* returns go back to it.  (When they overlap, one may archive the         *)
(* warehouse the other makes the default.)  The exception is an archived   *)
(* warehouse of the code "main" that provisioning found.                   *)
DefaultServes ==
    ~outdated => defaults \subseteq IF adopted THEN active \cup {Main} ELSE active

(* The warehouses are sound: at most one default, and it works.            *)
WarehousesSound == WarehouseTypeOK /\ DefaultServes

(* And once a store has a default warehouse it keeps having one.  (An      *)
(* update that overlaps set_default saves the old is_default back and      *)
(* leaves the store without.)                                              *)
DefaultKept == [][defaults # {} /\ ~outdated' => defaults' # {}]_warehouseVars

=============================================================================
