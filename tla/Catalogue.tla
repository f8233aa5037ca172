----------------------------- MODULE Catalogue -----------------------------
(***************************************************************************)
(* The catalogue of a store: the tree of categories, the attributes each   *)
(* category asks for (catalog/services/category_schema_service.py), and a  *)
(* product with its category, its attribute values and its publication     *)
(* (product_publish_service.py and the product form of the dashboard).     *)
(*                                                                         *)
(* A category's deletion is checked first and cascades to its children     *)
(* later; a change of a schema entry saves the whole row that was read;    *)
(* the clean-up of values works with the category the product had when the *)
(* request loaded it.  Every other request is one transaction.             *)
(*                                                                         *)
(* Names, slugs, images, the order of siblings and the display settings of *)
(* an entry are left out, and so are the values of a choice attribute: an  *)
(* assigned one cannot be deleted (PROTECT).                               *)
(***************************************************************************)
EXTENDS Naturals, FiniteSets

CONSTANTS
    Categories,     \* primary keys of the categories, handed out in order
    Attributes,
    Root,           \* the parent of a main category
    Unused,         \* no row yet
    Deleted,
    NoEntry,        \* no CategoryAttributeSchema row
    MaxSchemaEdits  \* changes of the catalogue explored (a bound of the model)

ASSUME CatalogueAssumption ==
    /\ Categories \subseteq Nat
    /\ {Root, Unused, Deleted} \cap Categories = {}
    /\ Root # Unused /\ Root # Deleted /\ Unused # Deleted
    /\ MaxSchemaEdits \in Nat

VARIABLES
    parent,      \* Category.parent
    schema,      \* CategoryAttributeSchema of each category and attribute
    kind,        \* Attribute.data_type: text or a choice of values
    assigned,    \* ProductAttributeValue of the product: the kind it was entered as
    item,        \* the product: its category and whether it is published
    deleting,    \* categories whose deletion was found permitted
    toggling,    \* schema rows read by a request that will change them
    cleaning,    \* the category read by a clean-up of values
    addedLate,   \* categories put below one whose deletion was permitted
    cascaded,    \* categories deleted with their parent
    grownUnder,  \* the product's category got a child
    relaxed,     \* published, or asked for more, past the product form
    schemaEdits

catalogueVars == <<parent, schema, kind, assigned, item, deleting, toggling, cleaning,
                   addedLate, cascaded, grownUnder, relaxed, schemaEdits>>

Kinds   == {"text", "choice"}
Entry   == [required : BOOLEAN, inherited : BOOLEAN]
NoValue == "none"

Exists(c)   == parent[c] \notin {Unused, Deleted}
Children(c) == {d \in Categories : parent[d] = c}
IsLeaf(c)   == Exists(c) /\ parent[c] # Root /\ Children(c) = {}

----------------------------------------------------------------------------
(* resolve_category_schema: a category's own entry, or that of its nearest *)
(* ancestor that hands it down.                                            *)
HandedDown(a) ==
    LET from[c \in {Root} \cup {d \in Categories : Exists(d)}] ==
            IF c = Root THEN NoEntry
            ELSE IF schema[c][a] # NoEntry /\ schema[c][a].inherited THEN schema[c][a]
            ELSE from[parent[c]]
    IN from

Resolved(c, a) ==
    IF schema[c][a] # NoEntry THEN schema[c][a] ELSE HandedDown(a)[parent[c]]

AsksFor(c) == {a \in Attributes : Resolved(c, a) # NoEntry}
Requires(c) == {a \in AsksFor(c) : Resolved(c, a).required}

(* format_attribute_value: a value entered as another type of data shows   *)
(* nothing.                                                                *)
Filled(value) == {a \in Attributes : value[a] = kind[a]}

(* validate_product_for_publish.                                           *)
Publishable(c, value) == Requires(c) \subseteq Filled(value)

CatalogueInit ==
    /\ parent = [c \in Categories |-> Unused]
    /\ schema = [c \in Categories |-> [a \in Attributes |-> NoEntry]]
    /\ kind = [a \in Attributes |-> "text"]
    /\ assigned = [a \in Attributes |-> NoValue]
    /\ item = [category |-> Unused, status |-> "draft"]
    /\ deleting = {} /\ toggling = {} /\ cleaning = Unused
    /\ addedLate = {} /\ cascaded = {} /\ grownUnder = FALSE /\ relaxed = FALSE
    /\ schemaEdits = 0

ProductUnchanged == UNCHANGED <<assigned, item, cleaning, relaxed>>
SchemaUnchanged  == UNCHANGED <<schema, kind, toggling>>
TreeUnchanged    == UNCHANGED <<parent, deleting, addedLate, cascaded, grownUnder>>
CountEdit        == schemaEdits < MaxSchemaEdits /\ schemaEdits' = schemaEdits + 1

----------------------------------------------------------------------------
(* The tree: groups, categories below them, subcategories below those.     *)

MayHold(p) ==
    \/ p = Root
    \/ p \in Categories /\ parent[p] = Root
    \/ p \in Categories /\ parent[p] \in Categories /\ parent[parent[p]] = Root

AddCategory(c, p) ==
    /\ CountEdit
    /\ parent[c] = Unused /\ \A d \in Categories : d < c => parent[d] # Unused
    /\ MayHold(p)
    /\ parent' = [parent EXCEPT ![c] = p]
    /\ addedLate' = IF p \in deleting \cup addedLate THEN addedLate \cup {c} ELSE addedLate
    /\ grownUnder' = (grownUnder \/ p = item.category)
    /\ SchemaUnchanged /\ ProductUnchanged /\ UNCHANGED <<deleting, cascaded>>

(* Fault: a category with subcategories is deleted.                        *)
MayDeleteParent(c) == Exists(c) /\ item.category # c

(* can_delete_category                                                     *)
MayDelete(c) == Exists(c) /\ Children(c) = {} /\ item.category # c

CheckDeletion(c) ==
    /\ MayDelete(c) /\ deleting' = deleting \cup {c}
    /\ SchemaUnchanged /\ ProductUnchanged
    /\ UNCHANGED <<parent, addedLate, cascaded, grownUnder, schemaEdits>>

(* Category.parent and CategoryAttributeSchema.category cascade, and       *)
(* Product.category protects: ProtectedError.                              *)
Below(c) == {c} \cup Children(c) \cup UNION {Children(d) : d \in Children(c)}

DeleteCategory(c) ==
    /\ c \in deleting /\ Exists(c) /\ item.category \notin Below(c)
    /\ parent' = [d \in Categories |-> IF d \in Below(c) THEN Deleted ELSE parent[d]]
    /\ schema' = [d \in Categories |->
           IF d \in Below(c) THEN [a \in Attributes |-> NoEntry] ELSE schema[d]]
    /\ cascaded' = cascaded \cup (Below(c) \ {c})
    /\ deleting' = deleting \ {c}
    /\ ProductUnchanged /\ UNCHANGED <<kind, toggling, addedLate, grownUnder, schemaEdits>>

AbandonDeletion(c) ==
    /\ c \in deleting /\ (Exists(c) => item.category \in Below(c))
    /\ deleting' = deleting \ {c}
    /\ SchemaUnchanged /\ ProductUnchanged
    /\ UNCHANGED <<parent, addedLate, cascaded, grownUnder, schemaEdits>>

----------------------------------------------------------------------------
(* The schema.  A published product is not looked at again.                *)

Published == item.status = "active"

AddEntry(c, a, e) ==
    /\ CountEdit
    /\ Exists(c) /\ schema[c][a] = NoEntry
    /\ schema' = [schema EXCEPT ![c][a] = e]
    /\ relaxed' = (relaxed \/ Published)
    /\ TreeUnchanged /\ UNCHANGED <<kind, toggling, assigned, item, cleaning>>

RemoveEntry(c, a) ==
    /\ CountEdit
    /\ Exists(c) /\ schema[c][a] # NoEntry
    /\ schema' = [schema EXCEPT ![c][a] = NoEntry]
    /\ relaxed' = (relaxed \/ Published)
    /\ TreeUnchanged /\ UNCHANGED <<kind, toggling, assigned, item, cleaning>>

ReadEntry(c, a) ==
    /\ Exists(c) /\ schema[c][a] # NoEntry /\ toggling = {}
    /\ toggling' = {[category |-> c, attribute |-> a, row |-> schema[c][a]]}
    /\ TreeUnchanged /\ ProductUnchanged /\ UNCHANGED <<schema, kind, schemaEdits>>

(* update_category_attribute saves every column of the row: it undoes what *)
(* changed meanwhile and creates a removed row anew, unless the category   *)
(* is gone.                                                                *)
SaveEntry(t) ==
    /\ CountEdit
    /\ t \in toggling /\ toggling' = {}
    /\ Exists(t.category)
    /\ schema' = [schema EXCEPT ![t.category][t.attribute] = [t.row EXCEPT !.required = ~@]]
    /\ relaxed' = (relaxed \/ Published)
    /\ TreeUnchanged /\ UNCHANGED <<kind, assigned, item, cleaning>>

DropEntry(t) ==
    /\ t \in toggling /\ toggling' = {} /\ ~Exists(t.category)
    /\ TreeUnchanged /\ ProductUnchanged /\ UNCHANGED <<schema, kind, schemaEdits>>

(* attribute_edit: the type of data changes under the values entered.      *)
ChangeKind(a, k) ==
    /\ CountEdit
    /\ kind[a] # k /\ kind' = [kind EXCEPT ![a] = k]
    /\ relaxed' = (relaxed \/ Published)
    /\ TreeUnchanged /\ UNCHANGED <<schema, toggling, assigned, item, cleaning>>

----------------------------------------------------------------------------
(* The product.                                                            *)

(* product_form: what the schema asks for is entered or cleared, values    *)
(* outside it stay; the whole is rolled back if it may not be published.   *)
SaveProduct(c, status, entered) ==
    LET value == [a \in Attributes |-> IF a \notin AsksFor(c) THEN assigned[a]
                                       ELSE IF a \in entered THEN kind[a] ELSE NoValue]
    IN
    /\ IsLeaf(c) /\ entered \subseteq AsksFor(c)
    /\ status = "active" => Publishable(c, value)
    /\ item' = [category |-> c, status |-> status]
    /\ assigned' = value
    /\ relaxed' = FALSE /\ grownUnder' = FALSE
    /\ SchemaUnchanged
    /\ UNCHANGED <<parent, deleting, addedLate, cascaded, cleaning, schemaEdits>>

(* bulk_set_product_status and bulk_assign_category check no schema.       *)
BulkChange(c, status) ==
    /\ CountEdit
    /\ item.category \in Categories
    /\ c # item.category => IsLeaf(c) /\ status = item.status
    /\ item' = [category |-> c, status |-> status]
    /\ relaxed' = TRUE
    /\ grownUnder' = (grownUnder /\ c = item.category)
    /\ SchemaUnchanged /\ UNCHANGED <<parent, deleting, addedLate, cascaded, assigned, cleaning>>

(* product_attribute_cleanup_orphans.                                      *)
StartCleaning ==
    /\ cleaning = Unused /\ item.category \in Categories
    /\ cleaning' = item.category
    /\ TreeUnchanged /\ SchemaUnchanged /\ UNCHANGED <<assigned, item, relaxed, schemaEdits>>

Clean ==
    /\ cleaning # Unused
    /\ assigned' = [a \in Attributes |->
           IF Exists(cleaning) /\ a \in AsksFor(cleaning) THEN assigned[a] ELSE NoValue]
    /\ relaxed' = (relaxed \/ cleaning # item.category)
    /\ cleaning' = Unused
    /\ TreeUnchanged /\ SchemaUnchanged /\ UNCHANGED <<item, schemaEdits>>

(* product_delete takes the values along.                                  *)
DeleteProduct ==
    /\ item.category \in Categories
    /\ item' = [category |-> Unused, status |-> "draft"]
    /\ assigned' = [a \in Attributes |-> NoValue]
    /\ grownUnder' = FALSE /\ relaxed' = FALSE
    /\ SchemaUnchanged
    /\ UNCHANGED <<parent, deleting, addedLate, cascaded, cleaning, schemaEdits>>

CatalogueNext ==
    \/ \E c \in Categories :
           \/ \E p \in Categories \cup {Root} : AddCategory(c, p)
           \/ CheckDeletion(c) \/ DeleteCategory(c) \/ AbandonDeletion(c)
           \/ \E a \in Attributes : \/ \E e \in Entry : AddEntry(c, a, e)
                                    \/ RemoveEntry(c, a) \/ ReadEntry(c, a)
           \/ \E status \in {"draft", "active"} :
                  \/ \E entered \in SUBSET Attributes : SaveProduct(c, status, entered)
                  \/ BulkChange(c, status)
    \/ \E t \in toggling : SaveEntry(t) \/ DropEntry(t)
    \/ \E a \in Attributes, k \in Kinds : ChangeKind(a, k)
    \/ StartCleaning \/ Clean \/ DeleteProduct

CatalogueSpec == CatalogueInit /\ [][CatalogueNext]_catalogueVars

----------------------------------------------------------------------------
CatalogueTypeOK ==
    /\ parent \in [Categories -> Categories \cup {Root, Unused, Deleted}]
    /\ schema \in [Categories -> [Attributes -> Entry \cup {NoEntry}]]
    /\ kind \in [Attributes -> Kinds]
    /\ assigned \in [Attributes -> Kinds \cup {NoValue}]
    /\ item.category \in Categories \cup {Unused} /\ item.status \in {"draft", "active"}

(* The tree keeps its three levels, and schema entries belong to           *)
(* categories that exist.                                                  *)
TreeSound ==
    /\ \A c \in Categories : Exists(c) /\ parent[c] # Root =>
           /\ Exists(parent[c])
           /\ parent[parent[c]] # Root => parent[parent[parent[c]]] = Root
    /\ \A c \in Categories, a \in Attributes : schema[c][a] # NoEntry => Exists(c)

(* No category is deleted with its parent unless it was put there after    *)
(* the deletion had been permitted.                                        *)
NothingSweptAway == cascaded \subseteq addedLate

(* The product's category exists, below a group, and is a leaf unless a    *)
(* subcategory was put below it since.                                     *)
ProductPlaced ==
    item.category \in Categories =>
        /\ Exists(item.category) /\ parent[item.category] # Root
        /\ ~grownUnder => Children(item.category) = {}

(* A product that was published by the form has all that its category      *)
(* requires, until the schema or the product is changed in bulk: neither   *)
(* clean-ups, nor deletions, nor another save take a required value away.  *)
PublishedComplete == Published /\ ~relaxed => Publishable(item.category, assigned)

(* The catalogue as a whole.                                               *)
CatalogueSound ==
    CatalogueTypeOK /\ TreeSound /\ NothingSweptAway /\ ProductPlaced /\ PublishedComplete
=============================================================================
