--------------------------- MODULE LayoutVersions ---------------------------
(***************************************************************************)
(* The versions of a store's storefront layout and the undo history of the *)
(* draft: storefront_builder/services/layout_service.py and                *)
(* edit_history_service.py, with the views that call them.                 *)
(*                                                                         *)
(* A request on the layout reads the StorefrontLayout row and then, in one *)
(* transaction that locks nothing, changes what it has read; an edit is    *)
(* the wrapper _record_edit_history around a view, with a snapshot of the  *)
(* draft before it, the view's own look at what it edits, its write, and   *)
(* the snapshot after it.  Several designers may be at it.                 *)
(*                                                                         *)
(* The content of a version (its configurations, pages, sections and       *)
(* containers) is one value.                                               *)
(***************************************************************************)
EXTENDS Integers, Sequences, FiniteSets, SequencesExt

CONSTANTS
    Contents,     \* what a version may hold
    FirstContent, \* what apply_bootstrap_content and the industry's layout make
    Designers,    \* who edits, one request each
    MaxVersions,  \* bound of the versions ever made
    MaxHistory,   \* _MAX_HISTORY_ENTRIES
    Absent        \* no request

ASSUME LayoutIsBounded ==
    /\ FirstContent \in Contents
    /\ MaxVersions \in Nat /\ MaxHistory \in Nat \ {0}

VARIABLES
    versions,   \* StorefrontLayoutVersion, by number; a deleted one is Gone
    layout,     \* StorefrontLayout: its two pointers, 0 for NULL
    editing,    \* the request of each designer
    crossed,    \* a request on the layout acted on pointers that had changed
    raced,      \* versions published while an edit was about to write to them
    mixed       \* versions written by one request in the midst of another's

layoutVars == <<versions, layout, editing, crossed, raced, mixed>>

NoVersion == 0
Blank == "blank"    \* no content, no fingerprint
Content == Contents \cup {Blank}
Entry == [before : Content, after : Content, undone : BOOLEAN]

Gone == [status |-> "gone", content |-> Blank, fingerprint |-> Blank, history |-> <<>>]
Draft(content) ==
    [status |-> "draft", content |-> content, fingerprint |-> Blank, history |-> <<>>]

LayoutOps == {"open", "publish", "discard", "restore", "industry"}
LayoutRequest == [op : LayoutOps, seen : [draft : 0..MaxVersions, published : 0..MaxVersions],
                  source : 0..MaxVersions]
EditRequest == [op : {"begun", "looked", "written"}, draft : 1..MaxVersions,
                before : Content, target : 0..MaxVersions]

ASSUME AbsentIsNoRequest == Absent \notin LayoutRequest \cup EditRequest

LayoutVersionsInit ==
    /\ versions = <<>>
    /\ layout = [draft |-> NoVersion, published |-> NoVersion]
    /\ editing = [m \in Designers |-> Absent]
    /\ crossed = FALSE /\ raced = {} /\ mixed = {}

Exists(v) == v \in DOMAIN versions /\ versions[v].status # "gone"
IsDraft(v) == Exists(v) /\ versions[v].status = "draft"
Answer(m) == editing' = [editing EXCEPT ![m] = Absent]

---------------------------------------------------------------------------
(* Requests on the layout.                                                 *)

(* get_or_create_layout.  Only a version that is no draft is offered for   *)
(* restoring.                                                              *)
Ask(m, op, source) ==
    /\ editing[m] = Absent
    /\ op = "open" => layout.draft = NoVersion
    /\ IF op = "restore" THEN Exists(source) /\ ~IsDraft(source) ELSE source = NoVersion
    /\ editing' = [editing EXCEPT ![m] = [op |-> op, seen |-> layout, source |-> source]]
    /\ UNCHANGED <<versions, layout, crossed, raced, mixed>>

Asked(m, op) == editing[m] # Absent /\ editing[m].op = op

Acted(m) ==
    /\ crossed' = (crossed \/ editing[m].seen # layout)
    /\ Answer(m)

(* A pointer of the layout can be followed.                                *)
Readable(v) == v = NoVersion \/ Exists(v)

(* draft.delete(): its history goes with it, a pointer to it becomes NULL. *)
Deleted(v) == IF v = NoVersion THEN versions ELSE [versions EXCEPT ![v] = Gone]
Pointer(p, deleted) == IF p = deleted THEN NoVersion ELSE p

(* A new draft takes the place of the one that was seen.                   *)
NewDraft(m, content) ==
    LET old == editing[m].seen.draft IN
    /\ Len(versions) < MaxVersions
    /\ Readable(old)
    /\ versions' = Append(Deleted(old), Draft(content))
    /\ layout' = [draft |-> Len(versions) + 1,
                  published |-> IF old = NoVersion THEN layout.published
                                ELSE Pointer(layout.published, old)]
    /\ Acted(m)
    /\ UNCHANGED <<raced, mixed>>

(* get_or_create_draft when there is no draft: a clone of the published    *)
(* version, an empty one when there is none, the bootstrap the first time. *)
Open(m) ==
    /\ Asked(m, "open")
    /\ Readable(editing[m].seen.published)
    /\ NewDraft(m, IF ~\E v \in DOMAIN versions : Exists(v) THEN FirstContent
                   ELSE IF editing[m].seen.published = NoVersion THEN Blank
                   ELSE versions[editing[m].seen.published].content)

(* The restored version is cloned into a new draft.                        *)
Restored(m) == NewDraft(m, versions[editing[m].source].content)

(* restore_version.                                                        *)
Restore(m) ==
    /\ Asked(m, "restore") /\ Exists(editing[m].source)
    /\ Restored(m)

(* apply_industry_layout, confirmed when there is a published version.     *)
ApplyIndustry(m) ==
    /\ Asked(m, "industry")
    /\ NewDraft(m, FirstContent)

(* discard_draft.                                                          *)
Discard(m) ==
    LET old == editing[m].seen.draft IN
    /\ Asked(m, "discard") /\ Exists(old)
    /\ versions' = Deleted(old)
    /\ layout' = [draft |-> NoVersion, published |-> Pointer(layout.published, old)]
    /\ Acted(m)
    /\ UNCHANGED <<raced, mixed>>

(* The history of the draft is deleted, its fingerprint taken, and the     *)
(* version published before archived.                                      *)
Published(draft, previous) ==
    [v \in DOMAIN versions |->
        CASE v = draft /\ v # previous ->
               [versions[v] EXCEPT !.status = "published", !.history = <<>>,
                                   !.fingerprint = versions[v].content]
          [] v = previous -> [versions[v] EXCEPT !.status = "archived"]
          [] OTHER -> versions[v]]

(* publish.  A save of a version that is gone raises, and all is undone.   *)
Publish(m) ==
    LET seen == editing[m].seen IN
    /\ Asked(m, "publish")
    /\ Exists(seen.draft) /\ Readable(seen.published)
    /\ versions' = Published(seen.draft, seen.published)
    /\ layout' = [draft |-> NoVersion, published |-> seen.draft]
    /\ raced' = IF \E n \in Designers : Asked(n, "looked") /\ editing[n].target = seen.draft
                THEN raced \cup {seen.draft} ELSE raced
    /\ Acted(m)
    /\ UNCHANGED mixed

(* A request that finds nothing to do, or fails.                           *)
Dismiss(m) ==
    /\ editing[m] # Absent
    /\ \/ editing[m].op \in {"publish", "discard"} /\ ~Exists(editing[m].seen.draft)
       \/ editing[m].op \in {"open", "publish"} /\ ~Readable(editing[m].seen.published)
       \/ editing[m].op \in {"restore", "industry"} /\ ~Readable(editing[m].seen.draft)
       \/ editing[m].op = "restore" /\ ~Exists(editing[m].source)
       \/ editing[m].op \in {"open", "restore", "industry"} /\ Len(versions) = MaxVersions
       \/ editing[m].op = "begun" /\ ~IsDraft(layout.draft)
       \/ editing[m].op = "looked" /\ ~Exists(editing[m].target)
    /\ Answer(m)
    /\ UNCHANGED <<versions, layout, crossed, raced, mixed>>

---------------------------------------------------------------------------
(* Edits.                                                                  *)

(* Other designers are between their two snapshots of the version.         *)
AlsoEdited(m, v) ==
    \E n \in Designers \ {m} :
        /\ editing[n] # Absent /\ editing[n].op \in {"begun", "looked", "written"}
        /\ v \in {editing[n].draft, editing[n].target}

(* The snapshot before.                                                    *)
BeginEdit(m) ==
    /\ editing[m] = Absent /\ IsDraft(layout.draft)
    /\ editing' = [editing EXCEPT ![m] =
           [op |-> "begun", draft |-> layout.draft,
            before |-> versions[layout.draft].content, target |-> NoVersion]]
    /\ UNCHANGED <<versions, layout, crossed, raced, mixed>>

(* Fault: the view edits the version the wrapper has seen.                 *)
ScopedToSeen(m) == editing[m].draft

(* _get_scoped_section and the like find what they edit in a draft.        *)
Scoped(m) == layout.draft

LookForEdit(m) ==
    /\ Asked(m, "begun") /\ Exists(Scoped(m))
    /\ editing' = [editing EXCEPT ![m].op = "looked", ![m].target = Scoped(m)]
    /\ UNCHANGED <<versions, layout, crossed, raced, mixed>>

Touched(m, v) ==
    mixed' = IF AlsoEdited(m, v) THEN mixed \cup {v} ELSE mixed

(* The view writes, whatever has become of the version meanwhile.          *)
WriteEdit(m, content) ==
    LET v == editing[m].target IN
    /\ Asked(m, "looked") /\ Exists(v)
    /\ versions' = [versions EXCEPT ![v].content = content]
    /\ editing' = [editing EXCEPT ![m].op = "written"]
    /\ mixed' = IF AlsoEdited(m, v) \/ v # editing[m].draft THEN mixed \cup {v} ELSE mixed
    /\ UNCHANGED <<layout, crossed, raced>>

(* The positions of what is not undone, and the entries without the rest.  *)
Done(history) == {i \in DOMAIN history : ~history[i].undone}
Nth(S, k) == CHOOSE i \in S : Cardinality({j \in S : j <= i}) = k
Applied(history) ==
    [k \in 1..Cardinality(Done(history)) |-> history[Nth(Done(history), k)]]

(* The newest MaxHistory entries.                                          *)
Trimmed(history) == SubSeq(history, Max({1, Len(history) - MaxHistory + 1}), Len(history))

(* A new edit drops what could be redone, and the oldest entries.          *)
Recorded(history, entry) == Trimmed(Append(Applied(history), entry))

(* record_change, if the draft of the first snapshot still is one.         *)
RecordEdit(m) ==
    LET e == editing[m]
        after == versions[e.draft].content
    IN  /\ Asked(m, "written")
        /\ versions' =
               IF IsDraft(e.draft) /\ after # e.before
               THEN [versions EXCEPT ![e.draft].history =
                        Recorded(@, [before |-> e.before, after |-> after, undone |-> FALSE])]
               ELSE versions
        /\ mixed' = IF AlsoEdited(m, e.draft) THEN mixed \cup {e.draft} ELSE mixed
        /\ Answer(m)
        /\ UNCHANGED <<layout, crossed, raced>>

(* edit_history_service.undo: the last entry that is not undone.           *)
Undo(m) ==
    LET v == layout.draft
        h == versions[v].history
        n == Max(Done(h))
    IN  /\ editing[m] = Absent /\ IsDraft(v) /\ Done(h) # {}
        /\ versions' = [versions EXCEPT ![v].content = h[n].before,
                                        ![v].history[n].undone = TRUE]
        /\ Touched(m, v)
        /\ UNCHANGED <<layout, editing, crossed, raced>>

(* edit_history_service.redo: the first entry that is undone.              *)
Redo(m) ==
    LET v == layout.draft
        h == versions[v].history
        n == Min(DOMAIN h \ Done(h))
    IN  /\ editing[m] = Absent /\ IsDraft(v) /\ Done(h) # DOMAIN h
        /\ versions' = [versions EXCEPT ![v].content = h[n].after,
                                        ![v].history[n].undone = FALSE]
        /\ Touched(m, v)
        /\ UNCHANGED <<layout, editing, crossed, raced>>

---------------------------------------------------------------------------
LayoutVersionsNext ==
    \E m \in Designers :
        \/ \E op \in LayoutOps, v \in 0..MaxVersions : Ask(m, op, v)
        \/ Open(m) \/ Restore(m) \/ ApplyIndustry(m) \/ Discard(m) \/ Publish(m)
        \/ Dismiss(m)
        \/ BeginEdit(m) \/ LookForEdit(m) \/ RecordEdit(m)
        \/ \E c \in Contents : WriteEdit(m, c)
        \/ Undo(m) \/ Redo(m)

LayoutVersionsSpec == LayoutVersionsInit /\ [][LayoutVersionsNext]_layoutVars

---------------------------------------------------------------------------
(* Types; a history is never longer than the limit.                        *)
LayoutTypeOK ==
    /\ Len(versions) <= MaxVersions
    /\ \A v \in DOMAIN versions :
           /\ versions[v].status \in {"draft", "published", "archived", "gone"}
           /\ versions[v].content \in Content
           /\ Len(versions[v].history) <= MaxHistory
           /\ ToSet(versions[v].history) \subseteq Entry
    /\ layout \in [draft : 0..MaxVersions, published : 0..MaxVersions]
    /\ editing \in [Designers -> {Absent} \cup LayoutRequest \cup EditRequest]

(* As long as the requests on the layout did not overlap, the layout       *)
(* points to its one draft and its one published version.  (When they did, *)
(* two may be published, a draft may be lost sight of, and discard_draft   *)
(* may delete the version customers see.)                                  *)
PointersAgree ==
    ~crossed =>
        \A v \in DOMAIN versions :
            /\ versions[v].status = "draft" <=> v = layout.draft
            /\ versions[v].status = "published" <=> v = layout.published

(* A version that was published stays what it was published as, however    *)
(* often it is restored or edited further; only an edit that had found the *)
(* version while it was a draft still writes to it.                        *)
FingerprintHolds ==
    \A v \in DOMAIN versions \ raced :
        versions[v].status \in {"published", "archived"} /\ ~crossed =>
            versions[v].fingerprint = versions[v].content

(* The undo stack of a draft fits it, unless two designers edited it at    *)
(* once: what is done comes before what is undone, each entry starts where *)
(* the one before it ended, and the draft is what lies between the two.    *)
HistoryFitsDraft ==
    \A v \in DOMAIN versions \ mixed :
        LET h == versions[v].history
            n == Cardinality(Done(h))
        IN  /\ \A i \in DOMAIN h : h[i].undone <=> i > n
            /\ \A i \in DOMAIN h : i > 1 => h[i].before = h[i - 1].after
            /\ (IsDraft(v) /\ h # <<>>
                 /\ \A m \in Designers : Asked(m, "written") => editing[m].target # v)
                => versions[v].content = IF n = 0 THEN h[1].before ELSE h[n].after

(* Nothing can be undone in a version that was published.                  *)
NoUndoAfterPublish ==
    \A v \in DOMAIN versions :
        versions[v].status # "draft" => versions[v].history = <<>>

(* The versions are sound: the layout points to them, what was published   *)
(* is unchanged, and what can be undone fits the draft.                    *)
VersionsSound ==
    /\ LayoutTypeOK
    /\ PointersAgree
    /\ FingerprintHolds
    /\ HistoryFitsDraft
    /\ NoUndoAfterPublish
=============================================================================
