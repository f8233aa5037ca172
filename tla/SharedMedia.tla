----------------------------- MODULE SharedMedia -----------------------------
(***************************************************************************)
(* The slides and banners of a storefront (content/models.py: HeroSlide,   *)
(* PromotionalBanner, MediaAsset).  A placement names the file that        *)
(* templates show, and an asset, which placements of other versions may    *)
(* share; a copy of a placement shares the asset and names no file.        *)
(*                                                                         *)
(* The builder (storefront_builder/media_views.py) edits the placements of *)
(* the draft and deletes an asset when no placement refers to it.  The     *)
(* dashboard (views.py: hero_form, banner_form and the deletions) lists    *)
(* the placements of all versions, and erases files by their names.  No    *)
(* request is a transaction: it may die between two of its writes.         *)
(***************************************************************************)
EXTENDS Naturals, FiniteSets

CONSTANTS
    Placements,     \* primary keys, handed out in order
    Assets,         \* primary keys, handed out in order
    MediaFiles,     \* names of stored files, handed out in order
    Designers,      \* members of staff, with one request each
    MaxMediaEdits,  \* requests explored (a bound)
    NoMedia

ASSUME MediaAssumption ==
    /\ Placements \subseteq Nat /\ Assets \subseteq Nat /\ MediaFiles \subseteq Nat
    /\ MaxMediaEdits \in Nat /\ NoMedia \notin Placements \cup Assets \cup MediaFiles

VARIABLES
    placement,      \* HeroSlide and PromotionalBanner rows: version, file, asset
    assetFile,      \* MediaAsset.image of the assets that exist
    onDisk,         \* files that exist
    uploaded,       \* file names given out
    assetsMade,     \* primary keys of assets given out
    handling,       \* what a request has loaded and done
    snapshot,       \* the draft's placements before the last recorded change
    lateSaves,      \* placements that a request wrote to after another had changed them
    exposed,        \* files whose placements an undo created again
    byName,         \* files erased by name
    mediaEdits

mediaVars == <<placement, assetFile, onDisk, uploaded, assetsMade, handling, snapshot,
               lateSaves, exposed, byName, mediaEdits>>

NoPlacement == [at |-> "none", file |-> NoMedia, asset |-> NoMedia]
Places   == {"home", "draft", "published", "archived"}
Quiet       == [step |-> "none", row |-> NoMedia, seen |-> NoPlacement, new |-> NoMedia, own |-> FALSE]

Kept      == {r \in Placements : placement[r].at \in Places}
Draft     == {r \in Kept : placement[r].at = "draft"}
FreeRows  == {r \in Placements : placement[r].at = "none"}
NextUp(x, S, used) == x \in S \ used /\ \A y \in S : y < x => y \in used

(* is_referenced, and the PROTECT of the foreign keys.                     *)
Referenced(a) == \E r \in Kept : placement[r].asset = a

MediaInit ==
    /\ placement = [r \in Placements |-> NoPlacement]
    /\ assetFile = [a \in {} |-> NoMedia] /\ onDisk = {} /\ uploaded = {} /\ assetsMade = {}
    /\ handling = [d \in Designers |-> Quiet]
    /\ snapshot = {} /\ lateSaves = {} /\ exposed = {} /\ byName = {} /\ mediaEdits = 0

CountMedia == mediaEdits < MaxMediaEdits /\ mediaEdits' = mediaEdits + 1
RowsKept   == UNCHANGED <<placement, snapshot, lateSaves, exposed>>
DiskKept   == UNCHANGED <<assetFile, onDisk, assetsMade, byName>>

----------------------------------------------------------------------------
(* Loading a placement, for a form or a deletion, of the builder or not.   *)
Begins(d, step, r, seen, new, own) ==
    /\ handling[d].step = "none" /\ CountMedia
    /\ handling' = [handling EXCEPT ![d] =
                       [step |-> step, row |-> r, seen |-> seen, new |-> new, own |-> own]]
    /\ RowsKept /\ DiskKept

(* A form: with another picture, or without, if the placement names one.   *)
NewPicture(old, f) ==
    \/ f = old /\ f # NoMedia /\ UNCHANGED uploaded
    \/ NextUp(f, MediaFiles, uploaded) /\ uploaded' = uploaded \cup {f}

(* Another form that is under way inserts its placement first.             *)
NewRow(r) ==
    /\ r \in FreeRows /\ \A q \in FreeRows : q < r => \E d \in Designers : handling[d].row = q
    /\ \A d \in Designers : handling[d].row # r

FormFor(d, r, version, own) ==
    \E f \in MediaFiles :
        \/ r \in Kept /\ NewPicture(placement[r].file, f) /\ Begins(d, "save", r, placement[r], f, own)
        \/ /\ NewRow(r) /\ NewPicture(NoMedia, f)
           /\ Begins(d, "save", r, [NoPlacement EXCEPT !.at = version], f, own)

SectionMediaForm(d, r) == (r \in Kept => r \in Draft) /\ FormFor(d, r, "draft", TRUE)
HeroForm(d, r)         == FormFor(d, r, "home", FALSE)

SectionMediaDelete(d, r) ==
    r \in Draft /\ UNCHANGED uploaded /\ Begins(d, "delete", r, placement[r], NoMedia, TRUE)
HeroDelete(d, r) ==
    r \in Kept /\ UNCHANGED uploaded /\ Begins(d, "delete", r, placement[r], NoMedia, FALSE)

----------------------------------------------------------------------------
Goto(d, step) ==
    handling' = [handling EXCEPT ![d] = IF step = "none" THEN Quiet ELSE [@ EXCEPT !.step = step]]

(* The rest of a form: the old file goes if another took its place, and    *)
(* the builder makes an asset of the new one.                              *)
AfterSave(h) ==
    IF h.new = h.seen.file THEN "none"
    ELSE IF h.seen.file # NoMedia THEN "erase" ELSE IF h.own THEN "sync" ELSE "none"

(* The whole row is written; an asset that is gone is an IntegrityError.   *)
SavePlacement(d) ==
    LET h == handling[d]
    IN  /\ h.step = "save"
        /\ onDisk' = onDisk \cup (IF h.new = h.seen.file THEN {} ELSE {h.new})
        /\ IF h.seen.asset \in DOMAIN assetFile \cup {NoMedia}
           THEN /\ placement' = [placement EXCEPT ![h.row] = [h.seen EXCEPT !.file = h.new]]
                /\ lateSaves' = IF placement[h.row] \in {h.seen, NoPlacement}
                                THEN lateSaves ELSE lateSaves \cup {h.row}
                /\ Goto(d, AfterSave(h))
           ELSE Goto(d, "none") /\ UNCHANGED <<placement, lateSaves>>
        /\ UNCHANGED <<assetFile, uploaded, assetsMade, snapshot, exposed, byName, mediaEdits>>

EraseFile(d) ==
    LET h == handling[d]
    IN  /\ h.step = "erase"
        /\ onDisk' = onDisk \ {h.seen.file} /\ byName' = byName \cup {h.seen.file}
        /\ Goto(d, IF h.own /\ h.new # NoMedia THEN "sync" ELSE "none")
        /\ RowsKept /\ UNCHANGED <<assetFile, uploaded, assetsMade, mediaEdits>>

(* _sync_asset_references: of a row that is gone, an error.                *)
SyncAsset(d) ==
    LET h == handling[d]
    IN  \E a \in Assets :
        /\ h.step = "sync" /\ NextUp(a, Assets, assetsMade) /\ Goto(d, "none")
        /\ assetsMade' = assetsMade \cup {a}
        /\ assetFile' = [b \in DOMAIN assetFile \cup {a} |-> IF b = a THEN h.new ELSE assetFile[b]]
        /\ placement' = IF h.row \in Kept THEN [placement EXCEPT ![h.row].asset = a] ELSE placement
        /\ lateSaves' = IF placement[h.row].file = h.new THEN lateSaves ELSE lateSaves \cup {h.row}
        /\ UNCHANGED <<onDisk, uploaded, snapshot, exposed, byName, mediaEdits>>

RemovePlacement(d) ==
    LET h == handling[d]
    IN  /\ h.step = "delete"
        /\ placement' = [placement EXCEPT ![h.row].at = "gone", ![h.row].asset = NoMedia]
        /\ Goto(d, IF h.own /\ h.seen.asset # NoMedia THEN "check"
                   ELSE IF h.seen.file # NoMedia THEN "erase" ELSE "none")
        /\ UNCHANGED <<snapshot, lateSaves, exposed, uploaded, mediaEdits>> /\ DiskKept

(* delete_media_asset_if_unreferenced, whose check may be out of date when *)
(* the foreign keys protect the asset.                                     *)
CheckAsset(d) ==
    /\ handling[d].step = "check"
    /\ Goto(d, IF Referenced(handling[d].seen.asset) THEN "none" ELSE "drop")
    /\ RowsKept /\ DiskKept /\ UNCHANGED <<uploaded, mediaEdits>>

DropAsset(d) ==
    LET a == handling[d].seen.asset
    IN  /\ handling[d].step = "drop" /\ Goto(d, "none")
        /\ IF Referenced(a) \/ a \notin DOMAIN assetFile THEN UNCHANGED <<assetFile, onDisk>>
           ELSE /\ assetFile' = [b \in DOMAIN assetFile \ {a} |-> assetFile[b]]
                /\ onDisk' = onDisk \ {assetFile[a]}
        /\ RowsKept /\ UNCHANGED <<uploaded, assetsMade, byName, mediaEdits>>

KillRequest(d) ==
    /\ handling[d].step # "none" /\ Goto(d, "none")
    /\ RowsKept /\ DiskKept /\ UNCHANGED <<uploaded, mediaEdits>>

----------------------------------------------------------------------------
(* Copies, of those that have an asset.                                    *)
Copyable(S) == {r \in S : placement[r].asset # NoMedia}
SameAssets(S, p) ==
    \A r \in S : Cardinality({q \in DOMAIN p : p[q].asset = placement[r].asset})
                     = Cardinality({t \in S : placement[t].asset = placement[r].asset})

(* Fault: a copy names the file, too.                                      *)
ClonesWithFile(S, target) ==
    {p \in [target -> {[placement[r] EXCEPT !.at = "draft"] : r \in S}] : SameAssets(S, p)}

Clones(S, target) ==
    {p \in [target -> {[placement[r] EXCEPT !.at = "draft", !.file = NoMedia] : r \in S}] :
        SameAssets(S, p)}

(* Rows are inserted at the next keys.                                     *)
Lowest(n) == {r \in FreeRows : Cardinality({q \in FreeRows : q < r}) < n}
RoomFor(n) == Cardinality(FreeRows) >= n /\ \A d \in Designers : handling[d].row \notin FreeRows
Elsewhere  == UNCHANGED <<uploaded, handling>> /\ DiskKept

(* What the undo history keeps of a draft.                                *)
Recorded == {placement[r] : r \in Draft}

(* A section of the draft is duplicated: _clone_section_scoped_media.      *)
DuplicateSection ==
    LET S == Copyable(Draft)
    IN  /\ CountMedia /\ S # {} /\ RoomFor(Cardinality(S))
        /\ \E p \in Clones(S, Lowest(Cardinality(S))) :
               placement' = [r \in Placements |-> IF r \in DOMAIN p THEN p[r] ELSE placement[r]]
        /\ snapshot' = Recorded
        /\ UNCHANGED <<lateSaves, exposed>> /\ Elsewhere

(* The draft is published, and a new one opened: _clone_version_content.   *)
PublishAndReopen ==
    LET S == Copyable(Draft)
        onwards(v) == CASE v = "draft" -> "published" [] v = "published" -> "archived" [] OTHER -> v
    IN  /\ CountMedia /\ Draft # {} /\ RoomFor(Cardinality(S))
        /\ \E p \in Clones(S, Lowest(Cardinality(S))) :
               placement' = [r \in Placements |-> IF r \in DOMAIN p THEN p[r]
                                ELSE [placement[r] EXCEPT !.at = onwards(@)]]
        /\ snapshot' = {}
        /\ UNCHANGED <<lateSaves, exposed>> /\ Elsewhere

(* Deleting a section takes its placements along, and leaves their files.  *)
RemoveSection ==
    /\ CountMedia /\ Draft # {}
    /\ placement' = [r \in Placements |->
                        IF r \in Draft THEN [placement[r] EXCEPT !.at = "gone", !.asset = NoMedia]
                        ELSE placement[r]]
    /\ snapshot' = Recorded
    /\ UNCHANGED <<lateSaves, exposed>> /\ Elsewhere

(* restore_draft_state, _restore_media: all or, if an asset is gone,       *)
(* nothing.                                                                *)
UndoChange ==
    LET n == Cardinality(snapshot)
    IN  /\ CountMedia /\ snapshot # {} /\ RoomFor(n)
        /\ \A s \in snapshot : s.asset \in DOMAIN assetFile \cup {NoMedia}
        /\ \E p \in [Lowest(n) -> snapshot] :
               /\ \A s \in snapshot : \E r \in DOMAIN p : p[r] = s
               /\ placement' = [r \in Placements |-> IF r \in DOMAIN p THEN p[r]
                                   ELSE IF r \in Draft THEN [NoPlacement EXCEPT !.at = "gone"]
                                   ELSE placement[r]]
        /\ exposed' = exposed \cup {s.file : s \in snapshot}
        /\ snapshot' = {} /\ UNCHANGED lateSaves /\ Elsewhere

MediaNext ==
    \/ \E d \in Designers :
           \/ \E r \in Placements :
                  \/ SectionMediaForm(d, r) \/ HeroForm(d, r)
                  \/ SectionMediaDelete(d, r) \/ HeroDelete(d, r)
           \/ SavePlacement(d) \/ EraseFile(d) \/ SyncAsset(d) \/ RemovePlacement(d)
           \/ CheckAsset(d) \/ DropAsset(d) \/ KillRequest(d)
    \/ DuplicateSection \/ PublishAndReopen \/ RemoveSection \/ UndoChange

MediaSpec == MediaInit /\ [][MediaNext]_mediaVars

----------------------------------------------------------------------------
MediaTypeOK ==
    /\ \A r \in Placements : placement[r].at \in Places \cup {"none", "gone"}
    /\ DOMAIN assetFile \subseteq assetsMade /\ onDisk \subseteq uploaded

(* A placement refers to an asset that exists.                             *)
AssetsExist == \A r \in Kept : placement[r].asset \in DOMAIN assetFile \cup {NoMedia}

(* The picture that a placement shows exists, unless a request wrote to    *)
(* the placement what was out of date, or an undo made it again.           *)
ShownExists ==
    \A r \in Kept \ lateSaves : placement[r].file \in onDisk \cup exposed \cup {NoMedia}

(* As long as a placement of any version refers to an asset, its file is   *)
(* not erased, except by its name, by a form that put another in the place *)
(* of one and the same file, or by the dashboard's deletion.               *)
SharedFilesStay ==
    \A r \in Kept : placement[r].asset # NoMedia =>
        assetFile[placement[r].asset] \in onDisk \cup byName

MediaSound == MediaTypeOK /\ AssetsExist /\ ShownExists /\ SharedFilesStay
=============================================================================
