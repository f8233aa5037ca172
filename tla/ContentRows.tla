----------------------------- MODULE ContentRows -----------------------------
(***************************************************************************)
(* The rows of a store's content that its staff edits in the dashboard     *)
(* (content/models.py, dashboard/views.py): pages, social links, menus and *)
(* their items, trust badges and payment logos.  Rows of different tables  *)
(* do not meet, so a behaviour is about one of them.                       *)
(*                                                                         *)
(* A request loads a row, checks it, and saves it later: a form and the    *)
(* publishing of a page save all of it, a switch its flag only.  Saving a  *)
(* row that was deleted meanwhile inserts it again.  An upload is stored   *)
(* as the row is saved, and the file it replaces erased afterwards.        *)
(***************************************************************************)
EXTENDS Naturals, FiniteSets

CONSTANTS
    Tables,         \* the tables explored
    Rows,           \* primary keys, handed out in order
    Keys,           \* slugs of pages, locations of menus
    Uploads,        \* names of stored files, handed out in order
    Editors,        \* members of staff, with one request each
    MaxRowEdits,    \* requests explored (a bound)
    Nothing         \* no row, file or key

ASSUME ContentAssumption ==
    /\ Tables \subseteq {"page", "link", "menu", "item", "badge", "logo"}
    /\ Rows \subseteq Nat /\ Uploads \subseteq Nat /\ MaxRowEdits \in Nat
    /\ Nothing \notin Rows \cup Uploads \cup Keys

VARIABLES
    table,          \* the table of this behaviour
    content,        \* its rows
    stored,         \* files that exist
    named,          \* file names given out
    editing,        \* what a request has loaded and will write
    staleWrites,    \* rows saved that had changed since they were loaded
    crossed,        \* items saved with a parent that was no longer permitted
    alone,          \* no requests overlapped, and none was killed
    rowEdits

contentVars == <<table, content, stored, named, editing, staleWrites, crossed, alone, rowEdits>>

Blank == [state |-> "none", shown |-> FALSE, key |-> Nothing, image |-> Nothing, parent |-> Nothing]
Ready == [step |-> "none", row |-> Nothing, seen |-> Blank, new |-> Blank]

Live     == {r \in Rows : content[r].state = "live"}
NextRow(r) == content[r].state = "none" /\ \A q \in Rows : q < r => content[q].state # "none"
Hanging(r) == {q \in Live : content[q].parent = r}
Handles(e, step) == editing[e].step = step

ContentInit ==
    /\ table \in Tables
    /\ content = [r \in Rows |-> Blank]
    /\ stored = {} /\ named = {}
    /\ editing = [e \in Editors |-> Ready]
    /\ staleWrites = {} /\ crossed = {} /\ alone = TRUE /\ rowEdits = 0

----------------------------------------------------------------------------
(* Loading.  A row that is new, or exists.                                 *)
LoadRow(e, step, r, new) ==
    /\ Handles(e, "none") /\ rowEdits < MaxRowEdits /\ rowEdits' = rowEdits + 1
    /\ editing' = [editing EXCEPT ![e] =
                      [step |-> step, row |-> r, seen |-> content[r], new |-> new]]
    /\ alone' = (alone /\ \A f \in Editors : Handles(f, "none"))
    /\ UNCHANGED <<table, content, stored, staleWrites, crossed>>

Form(e, r, changed) ==
    /\ r \in Live \/ NextRow(r)
    /\ LoadRow(e, "save", r, [changed EXCEPT !.state = "live"])

(* Fault: an item that has items below it is let under another.           *)
MayHangAny(r, p) == p # Nothing => p # r /\ p \in Live /\ content[p].parent = Nothing

(* Which parents clean() lets an item have.                                *)
MayHang(r, p) ==
    p # Nothing => p # r /\ p \in Live /\ content[p].parent = Nothing /\ Hanging(r) = {}

(* A picture is kept, or replaced by the next upload.                      *)
Picture(r, i) ==
    \/ i = content[r].image /\ i # Nothing /\ UNCHANGED named
    \/ i \in Uploads \ named /\ (\A j \in Uploads : j < i => j \in named) /\ named' = named \cup {i}

PageForm(e, r) ==
    \E k \in Keys : table = "page" /\ Form(e, r, [content[r] EXCEPT !.key = k]) /\ UNCHANGED named
LinkForm(e, r) ==
    \E s \in BOOLEAN :
        table = "link" /\ Form(e, r, [content[r] EXCEPT !.shown = s]) /\ UNCHANGED named
MenuForm(e, r) ==
    \E k \in Keys, s \in BOOLEAN :
        table = "menu" /\ Form(e, r, [content[r] EXCEPT !.key = k, !.shown = s]) /\ UNCHANGED named
ItemForm(e, r) ==
    \E p \in Rows \cup {Nothing} :
        /\ table = "item" /\ MayHang(r, p) /\ UNCHANGED named
        /\ Form(e, r, [content[r] EXCEPT !.parent = p])
BadgeForm(e, r) ==
    \E s \in BOOLEAN, i \in Uploads :
        table = "badge" /\ Picture(r, i) /\ Form(e, r, [content[r] EXCEPT !.shown = s, !.image = i])
LogoForm(e, r) ==
    \E s \in BOOLEAN, i \in Uploads :
        table = "logo" /\ Picture(r, i) /\ Form(e, r, [content[r] EXCEPT !.shown = s, !.image = i])

Flipped(r) == [content[r] EXCEPT !.shown = ~@]

PublishPage(e, r) == table = "page" /\ r \in Live /\ LoadRow(e, "save", r, Flipped(r)) /\ UNCHANGED named

FlagForm(e, r, t) == table = t /\ r \in Live /\ LoadRow(e, "switch", r, Flipped(r)) /\ UNCHANGED named
ToggleLink(e, r)  == FlagForm(e, r, "link")
ToggleMenu(e, r)  == FlagForm(e, r, "menu")
ToggleItem(e, r)  == FlagForm(e, r, "item")
ToggleBadge(e, r) == FlagForm(e, r, "badge")
ToggleLogo(e, r)  == FlagForm(e, r, "logo")

Removal(e, r, t) == table = t /\ r \in Live /\ LoadRow(e, "delete", r, Blank) /\ UNCHANGED named
(* A menu that has items is refused, so these have none.                   *)
DeletePage(e, r)  == Removal(e, r, "page")
DeleteLink(e, r)  == Removal(e, r, "link")
DeleteMenu(e, r)  == Removal(e, r, "menu")
DeleteItem(e, r)  == Removal(e, r, "item")
DeleteBadge(e, r) == Removal(e, r, "badge")
DeleteLogo(e, r)  == Removal(e, r, "logo")

----------------------------------------------------------------------------
(* Writing.                                                                *)
Finish(e)  == editing' = [editing EXCEPT ![e] = Ready]
CleanUp(e) == editing' = [editing EXCEPT ![e].step = "clean"]

(* The constraints of the database, that a save runs into.                 *)
Fits(r, new) ==
    /\ new.key # Nothing => \A q \in Live \ {r} : content[q].key # new.key
    /\ new.parent # Nothing => new.parent \in Live

Save(e) ==
    LET r == editing[e].row  new == editing[e].new  old == editing[e].seen.image
    IN  /\ Handles(e, "save")
        /\ IF Fits(r, new)
           THEN /\ content' = [content EXCEPT ![r] = new]
                /\ stored' = stored \cup ({new.image} \ {Nothing, old})
                /\ staleWrites' = IF content[r] = editing[e].seen
                                  THEN staleWrites ELSE staleWrites \cup {r}
                /\ crossed' = IF MayHang(r, new.parent) THEN crossed \ {r} ELSE crossed \cup {r}
                /\ IF old \notin {Nothing, new.image} THEN CleanUp(e) ELSE Finish(e)
           ELSE Finish(e) /\ UNCHANGED <<content, stored, staleWrites, crossed>>
        /\ UNCHANGED <<table, named, alone, rowEdits>>

(* update_fields: of a row that is gone, an error.                         *)
SaveFlag(e) ==
    /\ Handles(e, "switch") /\ Finish(e)
    /\ content' = IF editing[e].row \in Live
                  THEN [content EXCEPT ![editing[e].row].shown = editing[e].new.shown] ELSE content
    /\ UNCHANGED <<table, stored, named, staleWrites, crossed, alone, rowEdits>>

(* An item with items below it is protected.                               *)
DeleteRow(e) ==
    LET r == editing[e].row
    IN  /\ Handles(e, "delete")
        /\ IF Hanging(r) # {} THEN Finish(e) /\ UNCHANGED content
           ELSE /\ content' = [content EXCEPT ![r].state = "gone"]
                /\ IF editing[e].seen.image = Nothing THEN Finish(e) ELSE CleanUp(e)
        /\ UNCHANGED <<table, stored, named, staleWrites, crossed, alone, rowEdits>>

(* on_commit: the file of the row as it was loaded.                        *)
EraseOld(e) ==
    /\ Handles(e, "clean") /\ Finish(e)
    /\ stored' = stored \ {editing[e].seen.image}
    /\ UNCHANGED <<table, content, named, staleWrites, crossed, alone, rowEdits>>

Kill(e) ==
    /\ ~Handles(e, "none") /\ Finish(e) /\ alone' = FALSE
    /\ UNCHANGED <<table, content, stored, named, staleWrites, crossed, rowEdits>>

ContentNext ==
    \E e \in Editors :
        \/ \E r \in Rows :
               \/ PageForm(e, r) \/ LinkForm(e, r) \/ MenuForm(e, r) \/ ItemForm(e, r)
               \/ BadgeForm(e, r) \/ LogoForm(e, r) \/ PublishPage(e, r)
               \/ ToggleLink(e, r) \/ ToggleMenu(e, r) \/ ToggleItem(e, r)
               \/ ToggleBadge(e, r) \/ ToggleLogo(e, r)
               \/ DeletePage(e, r) \/ DeleteLink(e, r) \/ DeleteMenu(e, r)
               \/ DeleteItem(e, r) \/ DeleteBadge(e, r) \/ DeleteLogo(e, r)
        \/ Save(e) \/ SaveFlag(e) \/ DeleteRow(e) \/ EraseOld(e) \/ Kill(e)

ContentSpec == ContentInit /\ [][ContentNext]_contentVars

----------------------------------------------------------------------------
ContentTypeOK ==
    /\ content \in [Rows -> [state : {"none", "live", "gone"}, shown : BOOLEAN,
                             key : Keys \cup {Nothing}, image : Uploads \cup {Nothing},
                             parent : Rows \cup {Nothing}]]
    /\ stored \subseteq named /\ named \subseteq Uploads

(* A badge or logo on the page has its picture, unless it was saved by a   *)
(* request that had loaded it before it changed.                           *)
ShownWithPicture ==
    \A r \in Live \ staleWrites : content[r].image \in stored \cup {Nothing}

(* Staff that work one after the other leave no file behind that no row    *)
(* names.                                                                  *)
NoLitter ==
    alone /\ (\A e \in Editors : Handles(e, "none"))
        => stored = {content[r].image : r \in Live} \ {Nothing}

(* Whatever is saved late or comes back: a page's address and a menu's     *)
(* place are its own, an item hangs below one that exists, and below the   *)
(* top level only where a save came after what it had checked changed.     *)
TwoLevels ==
    \A r \in Live :
        /\ content[r].key # Nothing => \A q \in Live \ {r} : content[q].key # content[r].key
        /\ content[r].parent # Nothing =>
               /\ content[r].parent \in Live
               /\ {r, content[r].parent} \cap crossed = {}
                      => content[content[r].parent].parent = Nothing

ContentSound == ContentTypeOK /\ ShownWithPicture /\ NoLitter /\ TwoLevels
=============================================================================
