------------------------------ MODULE Variants ------------------------------
(***************************************************************************)
(* The options and variants of one variable product                        *)
(* (catalog/services/variant_engine_service.py, variant_service.py and the *)
(* dashboard views that call them), and the selector the storefront makes  *)
(* of them (storefront_variant_service.py).                                *)
(*                                                                         *)
(* A variant of the engine is identified by the set of its option values   *)
(* (combination_key), a legacy variant by nothing.  The services run in    *)
(* one transaction on what they read there, except update_variant and the  *)
(* bulk edit: they save every column of an instance read earlier.          *)
(*                                                                         *)
(* Axes keep their position, and a variant the text it was created with;   *)
(* the plan's limit of variants only refuses and is left out, and so are   *)
(* prices, stock, SKUs and which variant is the default.                   *)
(***************************************************************************)
EXTENDS Naturals, FiniteSets

CONSTANTS
    Axes,           \* options of the product
    OptionValues,   \* values that may be added, each to one option
    AxisOf,         \* the option of a value
    LabelsOf,       \* what a value may be called
    LegacyVariants, \* variants without combination_key that may be added
    MaxAxes,        \* MAX_OPTION_AXES
    MaxVariantEdits, \* edits explored beside additions and generations (a bound)
    VariantEditors, \* requests in flight that hold an instance
    Unread          \* no instance read

ASSUME OptionsAreNamed ==
    /\ AxisOf \in [OptionValues -> Axes]
    /\ IsFiniteSet(Axes) /\ IsFiniteSet(OptionValues) /\ IsFiniteSet(LegacyVariants)
    /\ \A k \in SUBSET OptionValues : k \notin LegacyVariants
    /\ MaxAxes \in Nat \ {0} /\ MaxVariantEdits \in Nat

VARIABLES
    axisState,      \* ProductOption.is_active, "none" before it is added
    valueState,     \* of a ProductOptionValue, "gone" after it was deleted
    valueLabel,     \* its label
    variantRow,     \* the ProductVariant rows: those of the engine and the legacy ones
    unlinkedRows,   \* rows of the engine without their VariantOptionValue rows
    variantForm,    \* the instance a request holds
    axisDropped,    \* an option was deactivated since the last generation
    staleSaved,     \* an instance was saved that had changed since it was read
    variantEdits    \* how many of those were made

variantVars == <<axisState, valueState, valueLabel, variantRow, unlinkedRows,
                 variantForm, axisDropped, staleSaved, variantEdits>>

(* Combinations: at most one value of each option.                         *)
Combinations ==
    {k \in SUBSET OptionValues \ {{}} : \A v, w \in k : AxisOf[v] = AxisOf[w] => v = w}

VariantIds == Combinations \cup LegacyVariants

NoVariant == [active |-> FALSE, obsolete |-> FALSE, exists |-> FALSE]
VariantRow == [active : BOOLEAN, obsolete : BOOLEAN, exists : {TRUE}] \cup {NoVariant}

AxisStates  == {"none", "active", "inactive"}
ValueStates == AxisStates \cup {"gone"}

VariantTypeOK ==
    /\ axisState \in [Axes -> AxisStates]
    /\ valueState \in [OptionValues -> ValueStates]
    /\ \A v \in OptionValues : valueLabel[v] \in LabelsOf[v] \cup {""}
    /\ variantRow \in [VariantIds -> VariantRow]
    /\ unlinkedRows \subseteq VariantIds \ LegacyVariants
    /\ variantForm \in [VariantEditors ->
            [row : VariantIds, seen : VariantRow] \cup {Unread}]
    /\ axisDropped \in BOOLEAN /\ staleSaved \in BOOLEAN /\ variantEdits \in 0..MaxVariantEdits

VariantInit ==
    /\ axisState = [x \in Axes |-> "none"]
    /\ valueState = [v \in OptionValues |-> "none"]
    /\ valueLabel = [v \in OptionValues |-> ""]
    /\ variantRow = [r \in VariantIds |-> NoVariant]
    /\ unlinkedRows = {}
    /\ variantForm = [e \in VariantEditors |-> Unread]
    /\ axisDropped = FALSE /\ staleSaved = FALSE /\ variantEdits = 0

NewVariant == [active |-> TRUE, obsolete |-> FALSE, exists |-> TRUE]

ActiveAxes == {x \in Axes : axisState[x] = "active"}
ActiveValues(x) == {v \in OptionValues : AxisOf[v] = x /\ valueState[v] = "active"}
HasLegacy == \E c \in LegacyVariants : variantRow[c].exists
OnSale(row) == {r \in VariantIds : row[r].active /\ ~row[r].obsolete}

(* What a customer may pick: one active value of every active option.      *)
WantedCombinations ==
    {k \in Combinations :
        /\ \A v \in k : valueState[v] = "active" /\ AxisOf[v] \in ActiveAxes
        /\ \A x \in ActiveAxes : \E v \in k : AxisOf[v] = x}

VariantsUnchanged == UNCHANGED <<variantRow, unlinkedRows, variantForm, staleSaved>>
OptionsUnchanged == UNCHANGED <<axisState, valueState, valueLabel>>

---------------------------------------------------------------------------
(* An edit counted for the bound.                                          *)
VariantEdit == variantEdits < MaxVariantEdits /\ variantEdits' = variantEdits + 1

(* Options and their values.                                               *)

(* add_product_option, whose values follow one by one.                     *)
AddOption(x) ==
    /\ axisState[x] = "none"
    /\ ~HasLegacy /\ Cardinality(ActiveAxes) < MaxAxes
    /\ axisState' = [axisState EXCEPT ![x] = "active"]
    /\ UNCHANGED <<valueState, valueLabel, axisDropped>>
    /\ VariantsUnchanged /\ UNCHANGED variantEdits

(* deactivate_product_option: the variants stay as they are.               *)
DeactivateOption(x) ==
    /\ VariantEdit
    /\ axisState[x] = "active"
    /\ axisState' = [axisState EXCEPT ![x] = "inactive"]
    /\ axisDropped' = TRUE
    /\ UNCHANGED <<valueState, valueLabel>>
    /\ VariantsUnchanged

(* activate_product_option.                                                *)
ActivateOption(x) ==
    /\ VariantEdit
    /\ axisState[x] = "inactive"
    /\ axisState' = [axisState EXCEPT ![x] = "active"]
    /\ UNCHANGED <<valueState, valueLabel, axisDropped>>
    /\ VariantsUnchanged

(* add_option_value: no other active value of the option is called so.     *)
AddValue(v, label) ==
    /\ valueState[v] = "none" /\ axisState[AxisOf[v]] # "none"
    /\ \A w \in ActiveValues(AxisOf[v]) : valueLabel[w] # label
    /\ valueState' = [valueState EXCEPT ![v] = "active"]
    /\ valueLabel' = [valueLabel EXCEPT ![v] = label]
    /\ UNCHANGED <<axisState, axisDropped>>
    /\ VariantsUnchanged /\ UNCHANGED variantEdits

Linked(v) == \E k \in Combinations \ unlinkedRows : v \in k /\ variantRow[k].exists

(* remove_option_value: a value that some variant is made of stays, only   *)
(* inactive.                                                               *)
RemoveValue(v) ==
    /\ VariantEdit
    /\ valueState[v] \in {"active", "inactive"}
    /\ valueState' = [valueState EXCEPT ![v] = IF Linked(v) THEN "inactive" ELSE "gone"]
    /\ UNCHANGED <<axisState, valueLabel, axisDropped>>
    /\ VariantsUnchanged

---------------------------------------------------------------------------
(* Variants.                                                               *)

(* attribute and value of a variant are the labels of its option values.   *)
TextOf(k) == {<<AxisOf[v], valueLabel[v]>> : v \in k}

(* uniq_active_variant_value_per_product: a row that becomes active must   *)
(* not read like one that is.  The text of a legacy variant is its own.    *)
MayBecomeActive(r) ==
    r \notin LegacyVariants =>
        \A k \in Combinations \ {r} : variantRow[k].active => TextOf(k) # TextOf(r)

NeverMade(k)  == ~variantRow[k].exists
MadeObsolete(k)  == variantRow[k].exists /\ variantRow[k].obsolete

(* Fault: combinations that are no longer wanted stay on sale.             *)
GeneratedBeside(k) ==
    IF k \in WantedCombinations /\ (NeverMade(k) \/ MadeObsolete(k)) THEN NewVariant ELSE variantRow[k]

(* A variant after generate_variants: wanted combinations are created or   *)
(* brought back, the others become obsolete.                               *)
Generated(k) ==
    IF k \in WantedCombinations
    THEN IF NeverMade(k) \/ MadeObsolete(k) THEN NewVariant ELSE variantRow[k]
    ELSE IF variantRow[k].exists /\ ~variantRow[k].obsolete
         THEN [variantRow[k] EXCEPT !.obsolete = TRUE, !.active = FALSE]
         ELSE variantRow[k]

(* generate_variants.  New variants are inserted before the unwanted ones  *)
(* become obsolete: one that reads like a variant still active, as after a *)
(* value was removed and added again, rolls everything back.               *)
Generate ==
    /\ ~HasLegacy /\ ActiveAxes # {}
    /\ \A x \in ActiveAxes : ActiveValues(x) # {}
    /\ \A k \in WantedCombinations : NeverMade(k) \/ MadeObsolete(k) => MayBecomeActive(k)
    /\ variantRow' = [r \in VariantIds |-> IF r \in LegacyVariants THEN variantRow[r] ELSE Generated(r)]
    /\ axisDropped' = FALSE
    /\ OptionsUnchanged
    /\ UNCHANGED <<unlinkedRows, variantForm, staleSaved, variantEdits>>

(* add_manual_variant: one combination, created or brought back.           *)
AddManual(k) ==
    /\ VariantEdit
    /\ k \in WantedCombinations
    /\ NeverMade(k) \/ ~variantRow[k].active \/ variantRow[k].obsolete
    /\ variantRow[k].active \/ MayBecomeActive(k)
    /\ variantRow' = [variantRow EXCEPT ![k] = NewVariant]
    /\ OptionsUnchanged
    /\ UNCHANGED <<unlinkedRows, variantForm, axisDropped, staleSaved>>

(* create_variant: from the page of the single-axis variants, or as the    *)
(* inactive copy duplicate_variant makes.                                  *)
AddLegacy(c, isActive) ==
    /\ VariantEdit
    /\ NeverMade(c)
    /\ variantRow' = [variantRow EXCEPT ![c] = [NewVariant EXCEPT !.active = isActive]]
    /\ OptionsUnchanged
    /\ UNCHANGED <<unlinkedRows, variantForm, axisDropped, staleSaved>>

(* product_variants_bulk_activate writes is_active of any row.             *)
BulkActivate(r, isActive) ==
    /\ VariantEdit
    /\ variantRow[r].exists /\ variantRow[r].active # isActive
    /\ isActive => MayBecomeActive(r)
    /\ variantRow' = [variantRow EXCEPT ![r].active = isActive]
    /\ OptionsUnchanged
    /\ UNCHANGED <<unlinkedRows, variantForm, axisDropped, staleSaved>>

(* delete_variant, unless an order refers to it.                           *)
DeleteVariant(r) ==
    /\ VariantEdit
    /\ variantRow[r].exists
    /\ variantRow' = [variantRow EXCEPT ![r] = NoVariant]
    /\ unlinkedRows' = unlinkedRows \ {r}
    /\ OptionsUnchanged
    /\ UNCHANGED <<variantForm, axisDropped, staleSaved>>

(* product_variant_edit, product_variant_toggle and the bulk edit read.    *)
ReadVariant(e, r) ==
    /\ variantForm[e] = Unread /\ variantRow[r].exists
    /\ variantForm' = [variantForm EXCEPT ![e] = [row |-> r, seen |-> variantRow[r]]]
    /\ OptionsUnchanged
    /\ UNCHANGED <<variantRow, unlinkedRows, axisDropped, staleSaved, variantEdits>>

(* update_variant saves the whole instance, whose row is inserted again if *)
(* it was deleted meanwhile, then without its option values.  An active    *)
(* row that reads like another is refused.                                 *)
SaveVariant(e, isActive) ==
    LET f == variantForm[e] IN
    /\ VariantEdit
    /\ f # Unread
    /\ isActive => MayBecomeActive(f.row)
    /\ variantRow' = [variantRow EXCEPT ![f.row] = [f.seen EXCEPT !.active = isActive]]
    /\ unlinkedRows' = IF NeverMade(f.row) THEN unlinkedRows \cup ({f.row} \ LegacyVariants)
                                         ELSE unlinkedRows
    /\ staleSaved' = (staleSaved \/ f.seen # variantRow[f.row])
    /\ variantForm' = [variantForm EXCEPT ![e] = Unread]
    /\ OptionsUnchanged
    /\ UNCHANGED axisDropped

(* A VariantError, or one of the constraints.                              *)
RefuseVariant(e) ==
    /\ variantForm[e] # Unread
    /\ variantForm' = [variantForm EXCEPT ![e] = Unread]
    /\ OptionsUnchanged
    /\ UNCHANGED <<variantRow, unlinkedRows, axisDropped, staleSaved, variantEdits>>

VariantNext ==
    \/ \E x \in Axes : AddOption(x) \/ DeactivateOption(x) \/ ActivateOption(x)
    \/ \E v \in OptionValues :
          \/ \E l \in LabelsOf[v] : AddValue(v, l)
          \/ RemoveValue(v)
    \/ Generate
    \/ \E k \in Combinations : AddManual(k)
    \/ \E c \in LegacyVariants, a \in BOOLEAN : AddLegacy(c, a)
    \/ \E r \in VariantIds :
          \/ \E a \in BOOLEAN : BulkActivate(r, a)
          \/ DeleteVariant(r)
    \/ \E e \in VariantEditors :
          \/ \E r \in VariantIds : ReadVariant(e, r)
          \/ \E a \in BOOLEAN : SaveVariant(e, a)
          \/ RefuseVariant(e)

VariantSpec == VariantInit /\ [][VariantNext]_variantVars

---------------------------------------------------------------------------
(* _multi_axis_context: the variants the storefront finds for a choice.    *)
FoundFor(choice) ==
    {k \in Combinations \ unlinkedRows : k \in OnSale(variantRow) /\ choice \subseteq k}

(* A customer's choice never stands for two variants: whatever is added,   *)
(* switched off, brought back, copied or deleted, the selector and the     *)
(* cart mean the same one.  The exceptions are the time between the        *)
(* removal of an option and the next generation, and an edit that saved a  *)
(* variant over the generation that made it obsolete.                      *)
SelectorExact ==
    ActiveAxes # {} /\ ~axisDropped /\ ~staleSaved =>
        \A choice \in WantedCombinations : Cardinality(FoundFor(choice)) <= 1

(* The text of the active variants tells them apart in the cart.           *)
TextsDiffer ==
    \A k, m \in Combinations :
        variantRow[k].active /\ variantRow[m].active /\ TextOf(k) = TextOf(m) => k = m

(* A value that a variant is made of is never deleted.                     *)
ValuesKept ==
    \A k \in Combinations \ unlinkedRows : variantRow[k].exists =>
        \A v \in k : valueState[v] \in {"active", "inactive"}

VariantsSound == VariantTypeOK /\ SelectorExact /\ TextsDiffer /\ ValuesKept
=============================================================================
