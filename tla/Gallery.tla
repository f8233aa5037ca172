------------------------------- MODULE Gallery -------------------------------
(***************************************************************************)
(* The pictures of a product (catalog/services/product_image_service.py    *)
(* and the dashboard views of product images): one is the cover, and they  *)
(* have an order.                                                          *)
(*                                                                         *)
(* Nothing here is locked and only reordering is a transaction: a request  *)
(* counts the pictures, loads one or lists them, and writes afterwards.    *)
(* A deletion erases the files, then the row, then makes the next picture  *)
(* the cover, and may stop after any of these.                             *)
(***************************************************************************)
EXTENDS Naturals, FiniteSets, Sequences, SequencesExt

CONSTANTS
    Pictures,       \* primary keys, handed out in order
    Keepers,        \* staff members, with one request each
    NoPicture

ASSUME GalleryAssumption ==
    Pictures \subseteq Nat /\ IsFiniteSet(Pictures) /\ NoPicture \notin Pictures

VARIABLES
    pictureRow,     \* "none", "kept" or "gone"
    cover,          \* is_cover
    place,          \* order
    files,          \* the pictures whose files exist
    errand,         \* what a staff member's request has read
    halfDeleted,    \* pictures whose deletion died after erasing the files
    undisturbed     \* no two requests overlapped and none died

galleryVars == <<pictureRow, cover, place, files, errand, halfDeleted, undisturbed>>

Shown  == {i \in Pictures : pictureRow[i] = "kept"}
Covers == {i \in Shown : i \in cover}
NextPicture(i) == pictureRow[i] = "none" /\ \A j \in Pictures : j < i => pictureRow[j] # "none"

(* The order of the page: by order, then by primary key.                   *)
Before(i, j) == place[i] < place[j] \/ (place[i] = place[j] /\ i < j)
First(S)     == IF S = {} THEN NoPicture ELSE CHOOSE i \in S : \A j \in S \ {i} : Before(i, j)

AtEase == [step |-> "none", picture |-> NoPicture, cover |-> FALSE, count |-> 0, swap |-> <<>>]
On(k, step) == errand[k].step = step

GalleryInit ==
    /\ pictureRow = [i \in Pictures |-> "none"]
    /\ cover = {} /\ files = {} /\ halfDeleted = {}
    /\ place = [i \in Pictures |-> 0]
    /\ errand = [k \in Keepers |-> AtEase]
    /\ undisturbed = TRUE

PicturesUnchanged == UNCHANGED <<pictureRow, cover, place, files, halfDeleted>>

Begin(k, read) ==
    /\ On(k, "none")
    /\ errand' = [errand EXCEPT ![k] = read]
    /\ undisturbed' = (undisturbed /\ \A l \in Keepers : On(l, "none"))
    /\ PicturesUnchanged

Continue(k, step) == errand' = [errand EXCEPT ![k].step = step] /\ UNCHANGED undisturbed
End(k)            == errand' = [errand EXCEPT ![k] = AtEase] /\ UNCHANGED undisturbed

----------------------------------------------------------------------------
(* add_product_image: the pictures are counted, the file is written, and   *)
(* the row says whether it is the first.                                   *)
StartUpload(k) ==
    \E i \in Pictures : pictureRow[i] = "none" /\
        Begin(k, [AtEase EXCEPT !.step = "upload", !.count = Cardinality(Shown)])

(* Fault: the second picture is a cover as well.                           *)
IsFirstOfTwo(count) == count <= 1

IsFirst(count) == count = 0

FinishUpload(k, i) ==
    /\ On(k, "upload") /\ NextPicture(i)
    /\ pictureRow' = [pictureRow EXCEPT ![i] = "kept"]
    /\ cover' = IF IsFirst(errand[k].count) THEN cover \cup {i} ELSE cover
    /\ place' = [place EXCEPT ![i] = errand[k].count]
    /\ files' = files \cup {i}
    /\ End(k) /\ UNCHANGED halfDeleted

----------------------------------------------------------------------------
(* delete_product_image: files, row, and the cover passes on.              *)
StartDeletion(k, i) ==
    /\ i \in Shown
    /\ Begin(k, [AtEase EXCEPT !.step = "erase", !.picture = i, !.cover = i \in cover])

EraseFiles(k) ==
    /\ On(k, "erase") /\ files' = files \ {errand[k].picture}
    /\ Continue(k, "remove") /\ UNCHANGED <<pictureRow, cover, place, halfDeleted>>

RemoveRow(k) ==
    LET i == errand[k].picture
        rest == Shown \ {i}
    IN  /\ On(k, "remove")
        /\ pictureRow' = [pictureRow EXCEPT ![i] = "gone"] /\ cover' = cover \ {i}
        /\ halfDeleted' = halfDeleted \ {i}
        /\ errand' = [errand EXCEPT ![k] =
               IF errand[k].cover /\ rest # {}
               THEN [AtEase EXCEPT !.step = "promote", !.picture = First(rest)] ELSE AtEase]
        /\ UNCHANGED <<place, files, undisturbed>>

(* A save of one column fails when the row is gone.                        *)
Promote(k) ==
    LET i == errand[k].picture IN
    /\ On(k, "promote")
    /\ cover' = IF i \in Shown THEN cover \cup {i} ELSE cover
    /\ End(k) /\ UNCHANGED <<pictureRow, place, files, halfDeleted>>

----------------------------------------------------------------------------
(* set_cover_image: the others first, then this one unless it was loaded   *)
(* as the cover.                                                           *)
StartCover(k, i) ==
    /\ i \in Shown
    /\ Begin(k, [AtEase EXCEPT !.step = "demote", !.picture = i, !.cover = i \in cover])

DemoteOthers(k) ==
    LET i == errand[k].picture IN
    /\ On(k, "demote") /\ cover' = cover \cap {i}
    /\ IF errand[k].cover THEN End(k) ELSE Continue(k, "promote")
    /\ UNCHANGED <<pictureRow, place, files, halfDeleted>>

----------------------------------------------------------------------------
(* move_product_image: the orders of two neighbours change places.         *)
Ahead(i, j, up) == IF up THEN Before(j, i) ELSE Before(i, j)

StartMove(k, i, up) ==
    \E other \in Shown :
        /\ i \in Shown /\ Ahead(i, other, up)
        /\ ~\E j \in Shown : Ahead(i, j, up) /\ Ahead(j, other, up)
        /\ Begin(k, [AtEase EXCEPT !.step = "move",
                                   !.swap = <<<<i, place[other]>>, <<other, place[i]>>>>])

FinishMove(k) ==
    LET moved == errand[k].swap IN
    /\ On(k, "move")
    /\ place' = [i \in Pictures |-> IF \E n \in 1..2 : moved[n][1] = i /\ i \in Shown
                                    THEN moved[CHOOSE n \in 1..2 : moved[n][1] = i][2]
                                    ELSE place[i]]
    /\ End(k) /\ UNCHANGED <<pictureRow, cover, files, halfDeleted>>

(* reorder_product_images: the pictures of the list that exist, in its     *)
(* order; the others keep their numbers.                                   *)
Earlier(list, i) ==
    {j \in Shown : \E m, n \in DOMAIN list : m < n /\ list[m] = j /\ list[n] = i}

Reorder(k, list) ==
    /\ On(k, "none")
    /\ place' = [i \in Pictures |-> IF i \in Shown \cap ToSet(list)
                                    THEN Cardinality(Earlier(list, i)) ELSE place[i]]
    /\ undisturbed' = (undisturbed /\ \A l \in Keepers : On(l, "none"))
    /\ UNCHANGED <<pictureRow, cover, files, errand, halfDeleted>>

(* The worker of a request dies.                                           *)
WorkerDies(k) ==
    /\ ~On(k, "none")
    /\ halfDeleted' = IF On(k, "remove") /\ errand[k].picture \in Shown
                      THEN halfDeleted \cup {errand[k].picture} ELSE halfDeleted
    /\ errand' = [errand EXCEPT ![k] = AtEase] /\ undisturbed' = FALSE
    /\ UNCHANGED <<pictureRow, cover, place, files>>

GalleryNext ==
    \E k \in Keepers :
        \/ StartUpload(k) \/ EraseFiles(k) \/ RemoveRow(k) \/ Promote(k)
        \/ DemoteOthers(k) \/ FinishMove(k) \/ WorkerDies(k)
        \/ \E i \in Pictures : \/ FinishUpload(k, i) \/ StartDeletion(k, i) \/ StartCover(k, i)
                               \/ \E up \in BOOLEAN : StartMove(k, i, up)
        \/ \E list \in SetToAllKPermutations(Pictures) : Reorder(k, list)

GallerySpec == GalleryInit /\ [][GalleryNext]_galleryVars

----------------------------------------------------------------------------
GalleryTypeOK ==
    /\ pictureRow \in [Pictures -> {"none", "kept", "gone"}]
    /\ cover \subseteq Shown /\ files \subseteq Pictures /\ halfDeleted \subseteq Shown
    /\ place \in [Pictures -> 0..Cardinality(Pictures)]
    /\ undisturbed \in BOOLEAN

(* As long as the staff work one after the other, a product with pictures  *)
(* has exactly one cover between two requests.                             *)
OneCover ==
    undisturbed /\ (\A k \in Keepers : On(k, "none"))
        => Cardinality(Covers) = IF Shown = {} THEN 0 ELSE 1

(* Whatever overlaps, a picture that is shown has its files, unless its    *)
(* deletion is under way or died halfway.                                  *)
ShownHasFiles ==
    \A i \in Shown \ files :
        i \in halfDeleted \/ \E k \in Keepers : On(k, "remove") /\ errand[k].picture = i

(* The gallery of a product as a whole.                                    *)
GallerySound == GalleryTypeOK /\ OneCover /\ ShownHasFiles
=============================================================================
