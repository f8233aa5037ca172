---------------------------- MODULE PageLayout ----------------------------
(***************************************************************************)
(* One page of a storefront draft in the visual builder:                   *)
(* storefront_builder/views.py with container_service.py, row_service.py   *)
(* and preset_service.py.                                                  *)
(*                                                                         *)
(* A page is laid out twice.  The older layout is the list of its sections *)
(* by "order", in which sections with one row_key form a row; the newer    *)
(* one, which the storefront shows, is a list of containers with cells,    *)
(* each empty or holding one section.  Every operation of the older layout *)
(* ends in rebuild_page_from_legacy_rows, which throws the containers away *)
(* and mirrors the rows; the operations on containers leave the rows as    *)
(* they are.  The requests of one editor follow each other, so each is one *)
(* action; refused requests change nothing and are left out.               *)
(*                                                                         *)
(* Sections are numbered in the order they were created: their primary     *)
(* keys break ties of "order".  Which numbers are taken does not matter,   *)
(* so a new section takes the next after the largest.  Every section is    *)
(* of a kind that may be removed and duplicated.  Containers have a lock   *)
(* too, which the operations respect and none of them ever sets.           *)
(***************************************************************************)
EXTENDS Integers, Sequences, FiniteSetsExt, SequencesExt

CONSTANTS
    MaxSections,    \* bound of the sections' numbers
    MaxOrder,       \* bound of their order
    MaxSlots,       \* bound of the cells of the page
    MaxLocked,      \* bound of the sections locked at a time
    RowPresets,     \* the spans of a row: storefront_section_row_layout
    Bootstrap,      \* how many sections the draft starts with
    PresetRows      \* <<row, span>> of the sections of a layout preset

VARIABLES
    secs,       \* StorefrontSection, by number
    conts,      \* StorefrontContainer in order, each the sequence of its cells
    cleared     \* storefront_cell_clear has deleted a member of a row

pageVars == <<secs, conts, cleared>>

GridUnits == 12
MaxCells  == 4
NoSection == 0
NoRow     == 0

ASSUME PageIsBounded ==
    /\ MaxSections \in Nat /\ MaxOrder \in Nat
    /\ MaxSlots \in Nat /\ MaxLocked \in Nat
    /\ Bootstrap \in 0..MaxSections

(* The spans of a row are whole, and so are the rows of a layout preset:   *)
(* neighbours that fill the width (the registry validates each run of one  *)
(* row_key, and no preset of it uses a row_key for two).                   *)
ASSUME LayoutsFill ==
    /\ RowPresets \subseteq Seq(1..GridUnits)
    /\ \A spans \in RowPresets : Len(spans) \in 2..MaxCells /\ SumFunction(spans) = GridUnits

ASSUME PresetIsWhole ==
    /\ PresetRows \in Seq(Nat \X (1..GridUnits)) /\ Len(PresetRows) <= MaxSections
    /\ \A s \in DOMAIN PresetRows : PresetRows[s][1] # NoRow =>
          LET row == {t \in DOMAIN PresetRows : PresetRows[t][1] = PresetRows[s][1]} IN
          /\ Cardinality(row) \in 2..MaxCells
          /\ SumFunctionOnSet([t \in DOMAIN PresetRows |-> PresetRows[t][2]], row) = GridUnits
          /\ \A a, b \in row : a..b \subseteq row

Section == [order : Nat, row : Nat, span : 1..GridUnits, locked : BOOLEAN]
Cell(span, s) == [span |-> span, section |-> s]
Single(s) == <<Cell(GridUnits, s)>>

(* A section of its own, not in a row.                                     *)
Standalone(order) ==
    [order |-> order, row |-> NoRow, span |-> GridUnits, locked |-> FALSE]

Ids == DOMAIN secs
Fresh == 1 + Max(Ids \cup {0})
NextOrder == 1 + Max({secs[s].order : s \in Ids} \cup {-1})
Slots == SumFunction([c \in DOMAIN conts |-> Len(conts[c])])
MayAppend == Fresh <= MaxSections /\ NextOrder <= MaxOrder
With(s, section) == [t \in Ids \cup {s} |-> IF t = s THEN section ELSE secs[t]]

(* order_by("order", "id"): a section comes i-th if i - 1 come before it.  *)
Before(ss, a, b) ==
    ss[a].order < ss[b].order \/ (ss[a].order = ss[b].order /\ a < b)

Ordered(ss) ==
    [i \in 1..Cardinality(DOMAIN ss) |->
        CHOOSE s \in DOMAIN ss : Cardinality({t \in DOMAIN ss : Before(ss, t, s)}) = i - 1]

Continues(ss, run, s) == ss[s].row # NoRow /\ ss[Last(run)].row = ss[s].row

(* The next section joins the last run, or begins one.                     *)
Joined(ss, runs, s) ==
    IF runs # <<>> /\ Continues(ss, Last(runs), s)
    THEN Append(Front(runs), Append(Last(runs), s))
    ELSE Append(runs, <<s>>)

(* _legacy_runs and _grouped_by_row_key.                                   *)
Runs(ss) == FoldLeft(LAMBDA runs, s : Joined(ss, runs, s), <<>>, Ordered(ss))

SpanOf(ss, s) == IF ss[s].row = NoRow THEN GridUnits ELSE ss[s].span

(* validate_page_row_layout.                                               *)
RowsValid(ss) ==
    \A run \in ToSet(Runs(ss)) : ss[Head(run)].row # NoRow =>
        /\ Len(run) \in 2..MaxCells
        /\ SumFunction([i \in DOMAIN run |-> ss[run[i]].span]) = GridUnits

(* rebuild_page_from_legacy_rows.                                          *)
Rebuilt(ss) ==
    LET runs == Runs(ss) IN
    [c \in DOMAIN runs |->
        [j \in DOMAIN runs[c] |-> Cell(SpanOf(ss, runs[c][j]), runs[c][j])]]

Placed(containers) ==
    (UNION {{containers[c][j].section : j \in DOMAIN containers[c]}
              : c \in DOMAIN containers}) \ {NoSection}

(* ensure_page_containers: a section without a cell gets a container at    *)
(* the end.  Every request begins with it.                                 *)
Ensured(ss, containers) ==
    IF containers = <<>> THEN Rebuilt(ss)
    ELSE LET missing == Ordered(Restrict(ss, DOMAIN ss \ Placed(containers)))
         IN  containers \o [i \in DOMAIN missing |-> Single(missing[i])]

PageInit ==
    /\ secs = [s \in 1..Bootstrap |-> Standalone(s - 1)]
    /\ conts = Rebuilt(secs)
    /\ cleared = FALSE

(* What an operation of the older layout writes.                           *)
WriteRows(ss) ==
    /\ secs' = ss
    /\ conts' = Rebuilt(ss)
    /\ UNCHANGED cleared

---------------------------------------------------------------------------
(* The older layout.                                                       *)

(* Fault: storefront_section_add does not validate the simulated page.     *)
AddableAnywhere(ss) == TRUE

Addable(ss) == RowsValid(ss)

(* storefront_section_add: at any position, and all orders are normalised. *)
SectionAdd(k) ==
    LET order == InsertAt(Ordered(secs), k, Fresh)
        ss == [s \in ToSet(order) |->
                  LET at == CHOOSE i \in DOMAIN order : order[i] = s
                  IN  IF s = Fresh THEN Standalone(at - 1)
                      ELSE [secs[s] EXCEPT !.order = at - 1]]
    IN  /\ Fresh <= MaxSections
        /\ Addable(ss)
        /\ WriteRows(ss)

Removable(s) == ~secs[s].locked /\ secs[s].row = NoRow

(* storefront_section_remove: the orders of the others keep their gap.     *)
SectionRemove(s) ==
    /\ Removable(s)
    /\ WriteRows(Restrict(secs, Ids \ {s}))

NoneLocked(members) == \A m \in members : ~secs[m].locked

(* storefront_section_row_layout, mode "full".                             *)
RowFull(s) ==
    LET members == {t \in Ids : secs[t].row = secs[s].row} IN
    /\ secs[s].row # NoRow
    /\ NoneLocked(members)
    /\ WriteRows([t \in Ids |->
           IF t \in members THEN [secs[t] EXCEPT !.row = NoRow, !.span = GridUnits]
           ELSE secs[t]])

(* The page after members were given the row and the spans, and the        *)
(* members that are left over were released.                               *)
Regrouped(members, row, spans, released) ==
    [t \in Ids |->
        IF t \in ToSet(members)
        THEN [secs[t] EXCEPT !.row = row,
                !.span = spans[CHOOSE i \in DOMAIN members : members[i] = t]]
        ELSE IF t \in released
        THEN [secs[t] EXCEPT !.row = NoRow, !.span = GridUnits]
        ELSE secs[t]]

(* A standalone section and the standalone ones after it become a row.     *)
RowGroup(s, spans) ==
    LET order == Ordered(secs)
        at == CHOOSE i \in DOMAIN order : order[i] = s
        members == SubSeq(order, at, at + Len(spans) - 1)
        key == CHOOSE r \in 1..MaxSections : \A t \in Ids : secs[t].row # r
        ss == Regrouped(members, key, spans, {})
    IN  /\ secs[s].row = NoRow
        /\ at + Len(spans) - 1 <= Len(order)
        /\ \A m \in ToSet(members) : secs[m].row = NoRow
        /\ NoneLocked(ToSet(members))
        /\ RowsValid(ss)
        /\ WriteRows(ss)

(* A row grows over the standalone sections that follow it, or releases    *)
(* its last members.                                                       *)
RowReshape(s, spans) ==
    LET order == Ordered(secs)
        row == secs[s].row
        current == Ordered(Restrict(secs, {t \in Ids : secs[t].row = row}))
        start == CHOOSE i \in DOMAIN order : order[i] = Head(current)
        members == SubSeq(order, start, start + Len(spans) - 1)
        ss == Regrouped(members, row, spans, ToSet(current) \ ToSet(members))
    IN  /\ row # NoRow
        /\ current = SubSeq(order, start, start + Len(current) - 1)
        /\ start + Len(spans) - 1 <= Len(order)
        /\ NoneLocked(ToSet(current) \cup ToSet(members))
        /\ \A m \in ToSet(members) \ ToSet(current) : secs[m].row = NoRow
        /\ ss # secs
        /\ RowsValid(ss)
        /\ WriteRows(ss)

(* storefront_section_lock_toggle.                                         *)
LockToggle(s) ==
    /\ ~secs[s].locked => Cardinality({t \in Ids : secs[t].locked}) < MaxLocked
    /\ secs' = [secs EXCEPT ![s].locked = ~@]
    /\ UNCHANGED <<conts, cleared>>

(* No locked section among those listed gets another order.                *)
Held(list) ==
    \A i \in DOMAIN list : secs[list[i]].locked => secs[list[i]].order = i - 1

(* storefront_section_reorder: the sections listed are numbered from 0,    *)
(* the others keep their order.                                            *)
Reorder(list) ==
    LET ss == [s \in Ids |->
                  IF s \in ToSet(list)
                  THEN [secs[s] EXCEPT !.order = (CHOOSE i \in DOMAIN list : list[i] = s) - 1]
                  ELSE secs[s]]
    IN  /\ Held(list)
        /\ RowsValid(ss)
        /\ WriteRows(ss)

(* storefront_section_move: the two orders are swapped.                    *)
Move(s, d) ==
    LET order == Ordered(secs)
        at == CHOOSE i \in DOMAIN order : order[i] = s
        other == order[at + d]
        ss == [secs EXCEPT ![s].order = secs[other].order,
                           ![other].order = secs[s].order]
    IN  /\ at + d \in DOMAIN order
        /\ ~secs[s].locked /\ ~secs[other].locked
        /\ RowsValid(ss)
        /\ WriteRows(ss)

(* Fault: a preset replaces locked sections as well.                       *)
ReplaceableAlways == TRUE

Replaceable == \A s \in Ids : ~secs[s].locked

(* storefront_apply_layout_preset.                                         *)
ApplyPreset ==
    /\ Replaceable
    /\ WriteRows([s \in DOMAIN PresetRows |->
           [order |-> s - 1, row |-> PresetRows[s][1], span |-> PresetRows[s][2],
            locked |-> FALSE]])

---------------------------------------------------------------------------
(* The containers.                                                         *)

EmptyCells(spans) == [j \in DOMAIN spans |-> Cell(spans[j], NoSection)]

(* storefront_container_add.                                               *)
ContainerAdd(spans) ==
    /\ Slots + Len(spans) <= MaxSlots
    /\ conts' = Append(conts, EmptyCells(spans))
    /\ UNCHANGED <<secs, cleared>>

(* The cells that would go hold nothing.                                   *)
Shrinkable(c, n) == \A j \in DOMAIN conts[c] : j > n => conts[c][j].section = NoSection

(* The cells that stay keep what they hold, the new ones are empty.        *)
LaidOut(cells, spans) ==
    [j \in DOMAIN spans |->
        Cell(spans[j], IF j <= Len(cells) THEN cells[j].section ELSE NoSection)]

(* change_container_layout.                                                *)
ContainerLayout(c, spans) ==
    /\ Slots + Len(spans) - Len(conts[c]) <= MaxSlots
    /\ Shrinkable(c, Len(spans))
    /\ conts' = [conts EXCEPT ![c] = LaidOut(@, spans)]
    /\ UNCHANGED <<secs, cleared>>

(* storefront_container_move.                                              *)
ContainerMove(c, d) ==
    /\ c + d \in DOMAIN conts
    /\ conts' = [conts EXCEPT ![c] = conts[c + d], ![c + d] = conts[c]]
    /\ UNCHANGED <<secs, cleared>>

(* storefront_container_remove.                                            *)
ContainerRemove(c) ==
    /\ \A j \in DOMAIN conts[c] : conts[c][j].section = NoSection
    /\ conts' = RemoveAt(conts, c)
    /\ UNCHANGED <<secs, cleared>>

(* storefront_cell_add_section.                                            *)
CellAdd(c, j) ==
    /\ MayAppend
    /\ conts[c][j].section = NoSection
    /\ secs' = With(Fresh, Standalone(NextOrder))
    /\ conts' = [conts EXCEPT ![c][j].section = Fresh]
    /\ UNCHANGED cleared

(* The same without a cell: the section gets a container of its own.       *)
SectionInContainer ==
    /\ MayAppend /\ Slots < MaxSlots
    /\ secs' = With(Fresh, Standalone(NextOrder))
    /\ conts' = Append(conts, Single(Fresh))
    /\ UNCHANGED cleared

(* StorefrontCell.section is set to NULL when the section is deleted.      *)
Vacated(c, j) == [conts EXCEPT ![c][j].section = NoSection]

(* storefront_cell_clear: the section is deleted, the cell stays.  Whether *)
(* it belonged to a row is not asked.                                      *)
CellClear(c, j) ==
    LET s == conts[c][j].section IN
    /\ s # NoSection /\ ~secs[s].locked
    /\ secs' = Restrict(secs, Ids \ {s})
    /\ conts' = Vacated(c, j)
    /\ cleared' = (cleared \/ secs[s].row # NoRow)

(* The copy of a section that has a cell gets a container of its own.      *)
PlaceCopy(s) == conts' = Append(conts, Single(s))

(* storefront_section_duplicate.                                           *)
Duplicate(s) ==
    /\ MayAppend /\ Slots < MaxSlots
    /\ secs' = With(Fresh, Standalone(NextOrder))
    /\ PlaceCopy(Fresh)
    /\ UNCHANGED cleared

---------------------------------------------------------------------------
PageNext ==
    \/ \E k \in 1..Cardinality(Ids) + 1 : SectionAdd(k)
    \/ \E s \in Ids :
          \/ SectionRemove(s) \/ RowFull(s) \/ LockToggle(s) \/ Duplicate(s)
          \/ \E spans \in RowPresets : RowGroup(s, spans) \/ RowReshape(s, spans)
          \/ \E d \in {-1, 1} : Move(s, d)
    \/ \E listed \in SUBSET Ids : \E list \in SetToSeqs(listed) : Reorder(list)
    \/ ApplyPreset
    \/ \E spans \in RowPresets \cup {<<GridUnits>>} :
          \/ ContainerAdd(spans)
          \/ \E c \in DOMAIN conts : ContainerLayout(c, spans)
    \/ \E c \in DOMAIN conts :
          \/ ContainerRemove(c)
          \/ \E d \in {-1, 1} : ContainerMove(c, d)
          \/ \E j \in DOMAIN conts[c] : CellAdd(c, j) \/ CellClear(c, j)
    \/ SectionInContainer

PageSpec == PageInit /\ [][PageNext]_pageVars

---------------------------------------------------------------------------
(* Types.                                                                  *)
PageTypeOK ==
    /\ Ids \subseteq 1..MaxSections
    /\ \A s \in Ids : secs[s] \in Section
    /\ \A c \in DOMAIN conts : \A j \in DOMAIN conts[c] :
           /\ conts[c][j].span \in 1..GridUnits
           /\ conts[c][j].section \in Ids \cup {NoSection}
    /\ cleared \in BOOLEAN

(* Through whichever of the two layouts the page is edited, every section  *)
(* keeps exactly one cell of the layout that customers see, so that the    *)
(* repair every request begins with has nothing to repair.                 *)
EverySectionPlaced ==
    /\ \A s \in Ids :
           Cardinality(UNION {{<<c, j>> : j \in {k \in DOMAIN conts[c] :
                                  conts[c][k].section = s}} : c \in DOMAIN conts}) = 1
    /\ conts # <<>> => Ensured(secs, conts) = conts

(* A row stays a row, of two to four neighbours that fill the width, until *)
(* one of its cells is cleared (storefront_cell_clear does not ask, though *)
(* storefront_section_remove refuses so as not to leave a broken row).     *)
RowsWhole == ~cleared => RowsValid(secs)

(* And every container fills the width with one to four cells.             *)
ContainersFill ==
    ~cleared =>
        \A c \in DOMAIN conts :
            /\ Len(conts[c]) \in 1..MaxCells
            /\ SumFunction([j \in DOMAIN conts[c] |-> conts[c][j].span]) = GridUnits

(* Both layouts of the page are whole, and neither has lost a section.     *)
PageSound ==
    /\ PageTypeOK
    /\ EverySectionPlaced
    /\ RowsWhole
    /\ ContainersFill

(* A locked section is not deleted, by a preset, a cell or a row either,   *)
(* and stays in its row with the width it has there.                       *)
LockedStays ==
    [][\A s \in Ids : secs[s].locked =>
          /\ s \in DOMAIN secs'
          /\ secs'[s].row = secs[s].row /\ secs'[s].span = secs[s].span]_pageVars

(* As long as none is added, a locked section keeps its order as well:     *)
(* neither the drag of another section nor a list of them moves it.        *)
LockedKeepsOrder ==
    [][DOMAIN secs' \subseteq Ids =>
          \A s \in Ids : secs[s].locked => secs'[s].order = secs[s].order]_pageVars

(* What no operation of either layout may do to a locked section.          *)
LockedHolds == LockedStays /\ LockedKeepsOrder
=============================================================================
