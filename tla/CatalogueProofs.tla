--------------------------- MODULE CatalogueProofs ---------------------------
(***************************************************************************)
(* What the staff of a store may count on, whatever their number and       *)
(* however their requests overlap: a store has one placeholder and         *)
(* finished products are not taken for one, a product has one cover,       *)
(* content and media keep their pictures, the tree of categories keeps     *)
(* what products need of it, what a template brought is all there, once,   *)
(* and a customer's choice stands for one variant.                         *)
(***************************************************************************)
EXTENDS Catalogue, ProductEntry, Gallery, ContentRows, SharedMedia, IndustryTemplates,
        Variants, FoldProofs, FiniteSetTheorems, TLAPS

----------------------------------------------------------------------------
(* The entry of products.                                                  *)

\* Where the limit counts: what is there and was not brought back, and what
\* is to become a product.
Counting == Drafts \cup (Products \ comeback)
Permitted == {s \in Clerical : Has(s, "create")}

\* A request to discard is about a row it had found, and so is the clean-up;
\* what was finished meanwhile, or came back, is on record.
HeldIsOnRecord ==
    /\ \A s \in Clerical : Has(s, "save") \/ Has(s, "discard") => asked[s].product \in ProductIds
    /\ \A s \in Clerical : Has(s, "discard") /\ asked[s].product \in Products
           => asked[s].product \in lateFinish \cup comeback
    /\ sweep \cap Products \subseteq lateFinish \cup comeback

EntryRecords ==
    /\ EntryTypeOK
    /\ lateFinish \subseteq ProductIds /\ comeback \subseteq ProductIds
    /\ \A p, q \in Drafts : p = q
    /\ FinishedIsKept
    /\ HeldIsOnRecord

LimitInv ==
    /\ IsFiniteSet(Products)
    /\ IsFiniteSet(Counting)
    /\ Cardinality(Counting) + Cardinality(Permitted) <= PlanLimit + Cardinality(Clerical) - 1

EntryInv == EntryRecords /\ LimitInv

\* The initial states satisfy the invariant.
LEMMA EntryInitial == EntryInit => EntryInv
  <1> SUFFICES ASSUME EntryInit PROVE EntryInv
    OBVIOUS
  <1> USE EntryAssumption
  <1>1. Drafts = {} /\ Products = {} /\ Permitted = {} /\ Counting = {}
    BY DEF EntryInit, Drafts, Products, Permitted, Counting, Has, AtRest
  <1>2. Cardinality(Clerical) \in Nat /\ Cardinality(Clerical) # 0
    BY FS_CardinalityType, FS_EmptySet
  <1>3. LimitInv
    BY <1>1, <1>2, FS_EmptySet, EntryAssumption DEF LimitInv
  <1>4. EntryTypeOK
    BY DEF EntryInit, EntryTypeOK, AtRest
  <1> QED
    BY <1>1, <1>3, <1>4 DEF EntryInit, EntryInv, EntryRecords, FinishedIsKept, HeldIsOnRecord, Has, AtRest

\* Types, placeholders and records are kept by every step.
LEMMA EntryStepRecords ==
    ASSUME EntryRecords, EntryNext
    PROVE  EntryRecords'
  <1> USE EntryAssumption DEF EntryRecords, EntryTypeOK, HeldIsOnRecord, FinishedIsKept, Drafts, Products,
          Has, Row, Holders, AtRest, Doing, HistoryUnchanged, RowsUnchanged, Reply, Turn
  <1>1. ASSUME NEW s \in Clerical, NEW p \in ProductIds, ResumeDraft(s, p) \/ EditProduct(s, p)
        PROVE  EntryRecords'
    BY ZenonT(30), <1>1 DEF ResumeDraft, EditProduct
  <1>2. ASSUME NEW s \in Clerical, NEW p \in ProductIds, CreateDraft(s, p)
        PROVE  EntryRecords'
    BY <1>2 DEF CreateDraft, NextId
  <1>3. ASSUME NEW s \in Clerical, PermitDraft(s) \/ RefuseDraft(s)
        PROVE  EntryRecords'
    <2>1. CASE PermitDraft(s)
      BY <2>1 DEF PermitDraft
    <2>2. CASE RefuseDraft(s)
      BY <2>2 DEF RefuseDraft
    <2> QED
      BY <1>3, <2>1, <2>2
  <1>9. ASSUME NEW s \in Clerical, SubmitForm(s)
        PROVE  EntryRecords'
    BY <1>9 DEF SubmitForm
  <1>10. ASSUME NEW s \in Clerical, StartDiscard(s)
         PROVE  EntryRecords'
    BY <1>10 DEF StartDiscard, Discardable
  <1>4. ASSUME NEW s \in Clerical, SaveForm(s)
        PROVE  EntryRecords'
    BY <1>4 DEF SaveForm
  <1>5. ASSUME NEW s \in Clerical, FinishDiscard(s)
        PROVE  EntryRecords'
    <2> DEFINE p == asked[s].product
    <2>1. p \in ProductIds /\ (placeholder[p] = "product" => p \in lateFinish \cup comeback)
      BY <1>5 DEF FinishDiscard, Products
    <2>2. EntryTypeOK' /\ UNCHANGED <<lateFinish, comeback>> /\ sweep' = sweep
      BY <1>5, <2>1 DEF FinishDiscard, ThrowAway
    <2>3. Drafts' \subseteq Drafts /\ Products' \subseteq Products
      BY <1>5, <2>1 DEF FinishDiscard, ThrowAway, Products
    <2>4. thrownAway' \subseteq thrownAway \cup (IF placeholder[p] = "product" THEN {p} ELSE {})
      BY <1>5, <2>1 DEF FinishDiscard, ThrowAway, Products
    <2>5. \A q \in Clerical : asked'[q] = asked[q] \/ asked'[q] = AtRest
      BY <1>5 DEF FinishDiscard
    <2>6. HeldIsOnRecord'
      BY <2>2, <2>3, <2>5
    <2> QED
      BY <2>1, <2>2, <2>3, <2>4, <2>6
  <1>6. ASSUME NEW p \in ProductIds, DeleteFinished(p) \/ Abandon(p)
        PROVE  EntryRecords'
    BY ZenonT(30), <1>6 DEF DeleteFinished, Abandon, Removed
  <1>7. ASSUME NEW p \in ProductIds, SweepOne(p)
        PROVE  EntryRecords'
    BY <1>7 DEF SweepOne, ThrowAway
  <1>8. ASSUME StartSweep
        PROVE  EntryRecords'
    BY <1>8 DEF StartSweep
  <1> QED
    BY <1>1, <1>2, <1>3, <1>4, <1>5, <1>6, <1>7, <1>8, <1>9, <1>10 DEF EntryNext

\* What counts changes by one row at most, and a row more is one permission
\* less; a permission is given only below the limit.
LEMMA EntryStepLimit ==
    ASSUME EntryInv, EntryNext
    PROVE  LimitInv'
  <1>0. EntryTypeOK /\ EntryTypeOK' /\ (\A p, q \in Drafts : p = q)
    BY EntryStepRecords DEF EntryInv, EntryRecords
  <1>1. IsFiniteSet(Clerical) /\ Permitted \subseteq Clerical /\ Permitted' \subseteq Clerical
    BY EntryAssumption DEF Permitted
  <1>2. /\ Cardinality(Clerical) \in Nat
        /\ IsFiniteSet(Permitted) /\ Cardinality(Permitted) \in Nat
        /\ IsFiniteSet(Permitted') /\ Cardinality(Permitted') \in Nat
        /\ Cardinality(Permitted') <= Cardinality(Clerical)
    BY <1>1, FS_Subset, FS_CardinalityType
  <1>3. IsFiniteSet(Counting) /\ Cardinality(Counting) \in Nat
    BY FS_CardinalityType DEF EntryInv, LimitInv
  <1>12. ASSUME NEW p, Products' \subseteq Products \cup {p}
         PROVE  IsFiniteSet(Products')
    <2>1. IsFiniteSet(Products \cup {p})
      BY FS_AddElement DEF EntryInv, LimitInv
    <2> QED
      BY <1>12, <2>1, FS_Subset
  <1>4. ASSUME Counting' \subseteq Counting, Permitted' \subseteq Permitted,
               \E p : Products' \subseteq Products \cup {p}
        PROVE  LimitInv'
    <2>1. /\ IsFiniteSet(Counting') /\ Cardinality(Counting') <= Cardinality(Counting)
          /\ Cardinality(Counting') \in Nat
          /\ Cardinality(Permitted') <= Cardinality(Permitted)
      BY <1>2, <1>3, <1>4, FS_Subset, FS_CardinalityType
    <2> QED
      BY <1>2, <1>3, <1>4, <1>12, <2>1, EntryAssumption DEF EntryInv, LimitInv
  <1> USE DEF Counting, Permitted, Drafts, Products, EntryTypeOK,
          Has, Row, Holders, AtRest, Doing, HistoryUnchanged, RowsUnchanged, Reply, Turn
  <1>5. ASSUME NEW s \in Clerical, PermitDraft(s)
        PROVE  LimitInv'
    <2>1. /\ Products' = Products /\ Counting' = Counting /\ Counting \subseteq Products
          /\ Cardinality(Products) < PlanLimit
      BY <1>5 DEF PermitDraft, MayGrow
    <2>2. Cardinality(Products) \in Nat /\ Cardinality(Counting) <= Cardinality(Products)
      <3>1. IsFiniteSet(Products)
        BY DEF EntryInv, LimitInv
      <3> HIDE DEF Products, Counting
      <3> QED
        BY <2>1, <3>1, FS_Subset, FS_CardinalityType
    <2>3. Cardinality(Counting) <= PlanLimit - 1
      BY <1>3, <2>1, <2>2, EntryAssumption
    <2>4. IsFiniteSet(Products') /\ IsFiniteSet(Counting')
      BY <2>1 DEF EntryInv, LimitInv
    <2>5. Cardinality(Counting') <= PlanLimit - 1
      BY <2>1, <2>3
    <2> HIDE DEF Counting, Permitted
    <2> QED
      BY <1>2, <1>3, <2>1, <2>4, <2>5, EntryAssumption DEF LimitInv
  <1>6. ASSUME NEW s \in Clerical, NEW p \in ProductIds, CreateDraft(s, p)
        PROVE  LimitInv'
    <2>1. s \in Permitted /\ Permitted' = Permitted \ {s}
      BY <1>0, <1>6 DEF CreateDraft
    <2>2. Counting' = Counting \cup {p} \/ Counting' = Counting
      BY <1>0, <1>6 DEF CreateDraft, NextId
    <2>3. Cardinality(Permitted') = Cardinality(Permitted) - 1
      BY <1>2, <2>1, FS_RemoveElement
    <2>4. /\ IsFiniteSet(Counting') /\ Cardinality(Counting') \in Nat
          /\ Cardinality(Counting') <= Cardinality(Counting) + 1
      <3> HIDE DEF Counting
      <3>1. IsFiniteSet(Counting \cup {p})
        BY <1>3, FS_AddElement
      <3>2. Cardinality(Counting \cup {p}) <= Cardinality(Counting) + 1
        BY <1>3, FS_AddElement
      <3> QED
        <4>1. CASE Counting' = Counting
          BY <1>3, <4>1
        <4>2. CASE Counting' = Counting \cup {p}
          BY <3>1, <3>2, <4>2, FS_CardinalityType
        <4> QED
          BY <2>2, <4>1, <4>2
    <2>5. Products' = Products
      BY <1>0, <1>6 DEF CreateDraft, NextId
    <2> HIDE DEF Counting, Permitted
    <2> QED
      BY <1>2, <1>3, <2>3, <2>4, <2>5, EntryAssumption DEF EntryInv, LimitInv
  <1>7. ASSUME NEW s \in Clerical, SaveForm(s)
        PROVE  LimitInv'
    <2>1. asked[s].product \in ProductIds
      BY <1>7 DEF SaveForm, EntryInv, EntryRecords, HeldIsOnRecord
    <2>2. Products' \subseteq Products \cup {asked[s].product}
      BY <1>0, <1>7, <2>1 DEF SaveForm
    <2>3. Counting' \subseteq Counting /\ Permitted' \subseteq Permitted
      BY <1>0, <1>7, <2>1 DEF SaveForm
    <2> QED
      BY <1>4, <2>1, <2>2, <2>3
  <1>8. ASSUME NEW s \in Clerical, FinishDiscard(s)
        PROVE  LimitInv'
    <2>1. asked[s].product \in ProductIds
      BY <1>8 DEF FinishDiscard, EntryInv, EntryRecords, HeldIsOnRecord
    <2>2. Products' \subseteq Products \cup {asked[s].product}
      BY <1>0, <1>8, <2>1 DEF FinishDiscard, ThrowAway
    <2>3. Counting' \subseteq Counting /\ Permitted' \subseteq Permitted
      BY <1>0, <1>8, <2>1 DEF FinishDiscard, ThrowAway
    <2> QED
      BY <1>4, <2>1, <2>2, <2>3
  <1>9. ASSUME NEW p \in ProductIds, SweepOne(p) \/ DeleteFinished(p) \/ Abandon(p)
        PROVE  LimitInv'
    BY <1>0, <1>4, <1>9 DEF SweepOne, ThrowAway, DeleteFinished, Abandon, Removed
  <1>10. ASSUME NEW s \in Clerical,
                \/ \E p \in ProductIds : ResumeDraft(s, p) \/ EditProduct(s, p)
                \/ RefuseDraft(s) \/ SubmitForm(s) \/ StartDiscard(s)
         PROVE  LimitInv'
    <2>1. Products' = Products /\ Counting' \subseteq Counting /\ Permitted' \subseteq Permitted
      BY <1>0, <1>10 DEF ResumeDraft, EditProduct, RefuseDraft, SubmitForm, StartDiscard
    <2> QED
      BY <1>4, <2>1
  <1>11. ASSUME StartSweep
         PROVE  LimitInv'
    <2>1. Products' = Products /\ Counting' \subseteq Counting /\ Permitted' \subseteq Permitted
      BY <1>0, <1>11 DEF StartSweep
    <2> QED
      BY <1>4, <2>1
  <1> QED
    BY <1>5, <1>6, <1>7, <1>8, <1>9, <1>10, <1>11 DEF EntryNext

\* A store has at most one placeholder; only what was finished while a discard
\* or the clean-up held it, or came back late, is thrown away as one; and the
\* plan's limit is passed by no more products than there are other members of
\* staff (get_or_create_product_draft, product_form, product_discard_draft,
\* cleanup_stale_product_drafts).
THEOREM EntryIsSound == EntrySpec => []EntrySound
  <1>1. EntryInv /\ UNCHANGED entryVars => EntryInv'
    <2> SUFFICES ASSUME EntryInv, UNCHANGED entryVars PROVE EntryInv'
      OBVIOUS
    <2>1. /\ Drafts' = Drafts /\ Products' = Products /\ Counting' = Counting
          /\ Permitted' = Permitted
      BY DEF entryVars, Drafts, Products, Counting, Permitted, Has
    <2>2. EntryRecords'
      BY <2>1 DEF entryVars, EntryInv, EntryRecords, EntryTypeOK, FinishedIsKept, HeldIsOnRecord, Has
    <2> QED
      BY <2>1, <2>2 DEF EntryInv, LimitInv
  <1>2. EntryInv /\ [EntryNext]_entryVars => EntryInv'
    BY <1>1, EntryStepRecords, EntryStepLimit DEF EntryInv
  <1>3. EntryInv => EntrySound
    <2> SUFFICES ASSUME EntryInv PROVE EntrySound
      OBVIOUS
    <2>1. Cardinality(Drafts) <= 1
      <3>1. Drafts = {} \/ \E p : Drafts = {p}
        BY DEF EntryInv, EntryRecords
      <3> QED
        <4>1. CASE Drafts = {}
          BY <4>1, FS_EmptySet
        <4>2. ASSUME NEW p, Drafts = {p} PROVE Cardinality(Drafts) <= 1
          <5>1. Cardinality({p}) = 1
            BY FS_Singleton
          <5> QED
            BY <4>2, <5>1
        <4> QED
          BY <3>1, <4>1, <4>2
    <2>2. Cardinality(Products \ comeback) <= PlanLimit + Cardinality(Clerical) - 1
      <3>1. /\ IsFiniteSet(Counting) /\ Products \ comeback \subseteq Counting
            /\ IsFiniteSet(Clerical) /\ Permitted \subseteq Clerical
        BY EntryAssumption DEF EntryInv, LimitInv, Counting, Permitted
      <3>2. /\ Cardinality(Products \ comeback) <= Cardinality(Counting)
            /\ Cardinality(Products \ comeback) \in Nat /\ Cardinality(Counting) \in Nat
            /\ Cardinality(Permitted) \in Nat /\ Cardinality(Clerical) \in Nat
        BY <3>1, FS_Subset, FS_CardinalityType
      <3> QED
        BY <3>2, EntryAssumption DEF EntryInv, LimitInv
    <2> QED
      BY <2>1, <2>2 DEF EntryInv, EntryRecords, EntrySound, OneDraft, WithinPlan
  <1> QED
    BY <1>2, <1>3, EntryInitial, PTL DEF EntrySpec
----------------------------------------------------------------------------
(* The pictures of a product.                                              *)

Numbers == 0..Cardinality(Pictures)
Errands == [step : {"none", "upload", "erase", "remove", "promote", "demote", "move"},
            picture : Pictures \cup {NoPicture}, cover : BOOLEAN,
            count : Numbers, swap : Seq(Pictures \X Numbers)]

CoverStands == IF Shown = {} THEN cover = {} ELSE \E i \in Shown : cover = {i}

ErrandsOK ==
    /\ errand \in [Keepers -> Errands]
    /\ \A k \in Keepers : On(k, "move") => Len(errand[k].swap) = 2

\* While requests take turns, one that has begun finds the pictures as it has
\* read them, and there is no cover only while it is being passed on.
TakingTurns ==
    undisturbed =>
        /\ \A k, l \in Keepers : ~On(k, "none") /\ ~On(l, "none") => k = l
        /\ (\A k \in Keepers : ~On(k, "promote")) => CoverStands
        /\ \A k \in Keepers :
               /\ On(k, "upload") => errand[k].count = Cardinality(Shown)
               /\ On(k, "erase") \/ On(k, "remove") \/ On(k, "demote") =>
                      /\ errand[k].picture \in Shown
                      /\ errand[k].cover <=> errand[k].picture \in cover
               /\ On(k, "promote") => errand[k].picture \in Shown /\ cover = {}

GalleryInv == GalleryTypeOK /\ ErrandsOK /\ ShownHasFiles /\ TakingTurns

\* Pictures that are shown have a first.
LEMMA FirstOfShown ==
    ASSUME place \in [Pictures -> Nat], NEW S, S \subseteq Pictures, S # {}
    PROVE  First(S) \in S
  <1>1. Pictures \subseteq Nat
    BY GalleryAssumption
  <1> DEFINE taken == {place[i] : i \in S}
  <1>2. taken \subseteq Nat /\ taken # {}
    OBVIOUS
  <1> HIDE DEF taken
  <1>3. PICK p \in taken : \A q \in taken : p <= q
    BY <1>2, SmallestMember
  <1> DEFINE here == {i \in S : place[i] = p}
  <1>4. here \subseteq Nat /\ here # {}
    BY <1>1, <1>3 DEF taken
  <1> HIDE DEF here
  <1>5. PICK i \in here : \A j \in here : i <= j
    BY <1>4, SmallestMember
  <1>6. i \in S /\ \A j \in S \ {i} : Before(i, j)
    <2>1. i \in S /\ i \in Nat /\ place[i] = p /\ p \in Nat
      BY <1>1, <1>2, <1>5 DEF here
    <2>2. ASSUME NEW j \in S, j # i PROVE Before(i, j)
      <3>1. place[j] \in taken /\ place[j] \in Nat /\ j \in Nat /\ p <= place[j]
        BY <1>1, <1>2, <1>3 DEF taken
      <3>2. CASE place[j] = p
        <4>1. i <= j
          BY <1>5, <3>2 DEF here
        <4> QED
          BY <2>1, <2>2, <3>1, <3>2, <4>1 DEF Before
      <3>3. CASE place[j] # p
        BY <2>1, <3>1, <3>3 DEF Before
      <3> QED
        BY <3>2, <3>3
    <2> QED
      BY <2>1, <2>2
  <1> QED
    BY <1>6 DEF First

\* The initial states satisfy the invariant.
LEMMA GalleryInitial == GalleryInit => GalleryInv
  <1> SUFFICES ASSUME GalleryInit PROVE GalleryInv
    OBVIOUS
  <1>1. Shown = {}
    BY DEF GalleryInit, Shown
  <1>2. Cardinality(Pictures) \in Nat
    BY GalleryAssumption, FS_CardinalityType
  <1>3. ErrandsOK
    BY <1>2 DEF GalleryInit, ErrandsOK, Errands, Numbers, AtEase, On
  <1>4. GalleryTypeOK
    BY <1>1, <1>2 DEF GalleryInit, GalleryTypeOK
  <1> QED
    BY <1>1, <1>3, <1>4
       DEF GalleryInit, GalleryInv, ShownHasFiles, TakingTurns, CoverStands, On, AtEase
\* The numbers that places take.
LEMMA NumbersAreNatural ==
    ASSUME GalleryTypeOK
    PROVE  /\ Cardinality(Pictures) \in Nat
           /\ IsFiniteSet(Shown) /\ Cardinality(Shown) \in Numbers
           /\ place \in [Pictures -> Numbers] /\ place \in [Pictures -> Nat]
  <1>1. /\ Cardinality(Pictures) \in Nat
        /\ IsFiniteSet(Shown) /\ Cardinality(Shown) \in Nat
        /\ Cardinality(Shown) <= Cardinality(Pictures)
    <2>1. Shown \in SUBSET Pictures
      BY DEF Shown
    <2> QED
      BY <2>1, GalleryAssumption, FS_Subset, FS_CardinalityType
  <1>2. Numbers \subseteq Nat
    BY <1>1 DEF Numbers
  <1> QED
    BY <1>1, <1>2 DEF GalleryTypeOK, Numbers

\* Types, and the requests' own records, are kept by every step.
LEMMA GalleryStepTypes ==
    ASSUME GalleryTypeOK, ErrandsOK, GalleryNext
    PROVE  GalleryTypeOK' /\ ErrandsOK'
  <1>1. /\ Cardinality(Pictures) \in Nat
        /\ Cardinality(Shown) \in Numbers
        /\ place \in [Pictures -> Numbers]
        /\ 0 \in Numbers
    BY NumbersAreNatural DEF Numbers
  <1>2. AtEase \in Errands
    BY <1>1 DEF AtEase, Errands
  <1> USE DEF GalleryTypeOK, On, PicturesUnchanged, Continue, End
  <1>3. ASSUME NEW k \in Keepers, NEW read \in Errands, Begin(k, read),
               read.step = "move" => Len(read.swap) = 2
        PROVE  GalleryTypeOK' /\ ErrandsOK'
    <2>1. GalleryTypeOK'
      BY <1>3 DEF Begin, Shown
    <2>2. ErrandsOK'
      BY <1>3 DEF Begin, ErrandsOK
    <2> QED
      BY <2>1, <2>2
  <1>18. \A i \in Pictures, c \in BOOLEAN, step \in {"erase", "demote"} :
             LET read == [AtEase EXCEPT !.step = step, !.picture = i, !.cover = c]
             IN  read \in Errands /\ read.step # "move"
    BY <1>1, <1>2 DEF AtEase, Errands
  <1>4. ASSUME NEW k \in Keepers, StartUpload(k)
        PROVE  GalleryTypeOK' /\ ErrandsOK'
    <2> DEFINE read == [AtEase EXCEPT !.step = "upload", !.count = Cardinality(Shown)]
    <2>1. read \in Errands /\ read.step # "move"
      BY <1>1, <1>2 DEF AtEase, Errands
    <2>2. Begin(k, read)
      BY <1>4 DEF StartUpload
    <2> HIDE DEF read
    <2> QED
      BY <1>3, <2>1, <2>2
  <1>5. ASSUME NEW k \in Keepers, NEW i \in Pictures, StartDeletion(k, i)
        PROVE  GalleryTypeOK' /\ ErrandsOK'
    <2> DEFINE read == [AtEase EXCEPT !.step = "erase", !.picture = i, !.cover = i \in cover]
    <2>3. (i \in cover) \in BOOLEAN
      OBVIOUS
    <2>1. read \in Errands /\ read.step # "move"
      BY <1>18, <2>3, Zenon
    <2>2. Begin(k, read)
      BY <1>5 DEF StartDeletion
    <2> HIDE DEF read
    <2> QED
      BY <1>3, <2>1, <2>2
  <1>6. ASSUME NEW k \in Keepers, NEW i \in Pictures, StartCover(k, i)
        PROVE  GalleryTypeOK' /\ ErrandsOK'
    <2> DEFINE read == [AtEase EXCEPT !.step = "demote", !.picture = i, !.cover = i \in cover]
    <2>3. (i \in cover) \in BOOLEAN
      OBVIOUS
    <2>1. read \in Errands /\ read.step # "move"
      BY <1>18, <2>3, Zenon
    <2>2. Begin(k, read)
      BY <1>6 DEF StartCover
    <2> HIDE DEF read
    <2> QED
      BY <1>3, <2>1, <2>2
  <1>7. ASSUME NEW k \in Keepers, NEW i \in Pictures, NEW up \in BOOLEAN, StartMove(k, i, up)
        PROVE  GalleryTypeOK' /\ ErrandsOK'
    <2>1. PICK other \in Shown :
              Begin(k, [AtEase EXCEPT !.step = "move",
                                      !.swap = <<<<i, place[other]>>, <<other, place[i]>>>>])
      BY <1>7 DEF StartMove
    <2> DEFINE swap == <<<<i, place[other]>>, <<other, place[i]>>>>
               read == [AtEase EXCEPT !.step = "move", !.swap = swap]
    <2>2. swap \in Seq(Pictures \X Numbers) /\ Len(swap) = 2
      BY <1>1, <2>1 DEF Shown
    <2>3. Begin(k, read)
      BY <2>1
    <2> HIDE DEF swap
    <2>4. read \in Errands /\ read.swap = swap
      BY <1>1, <1>2, <2>2 DEF AtEase, Errands
    <2> HIDE DEF read
    <2> QED
      BY <1>3, <2>2, <2>3, <2>4
  <1>8. ASSUME NEW k \in Keepers, errand' = [errand EXCEPT ![k] = AtEase]
        PROVE  ErrandsOK'
    BY <1>2, <1>8 DEF ErrandsOK, AtEase
  <1>9. ASSUME NEW k \in Keepers, NEW step \in {"remove", "promote"},
               errand' = [errand EXCEPT ![k].step = step]
        PROVE  ErrandsOK'
    BY ZenonT(30), <1>9 DEF ErrandsOK, Errands
  <1>10. ASSUME NEW k \in Keepers, NEW i \in Pictures, FinishUpload(k, i)
         PROVE  GalleryTypeOK' /\ ErrandsOK'
    <2>1. errand[k].count \in Numbers
      BY DEF ErrandsOK, Errands
    <2>2. Shown' = Shown \cup {i}
      BY <1>10 DEF FinishUpload, NextPicture, Shown
    <2>3. GalleryTypeOK'
      BY <1>1, <1>10, <2>1, <2>2 DEF FinishUpload, Numbers
    <2> QED
      BY <1>8, <1>10, <2>3 DEF FinishUpload
  <1>11. ASSUME NEW k \in Keepers, EraseFiles(k)
         PROVE  GalleryTypeOK' /\ ErrandsOK'
    BY <1>9, <1>11 DEF EraseFiles, Shown
  <1>12. ASSUME NEW k \in Keepers, RemoveRow(k)
         PROVE  GalleryTypeOK' /\ ErrandsOK'
    <2> DEFINE i == errand[k].picture
               rest == Shown \ {i}
    <2>1. Shown' = rest
      BY <1>12 DEF RemoveRow, Shown
    <2>2. GalleryTypeOK'
      BY <1>12, <2>1 DEF RemoveRow
    <2>3. rest # {} => First(rest) \in Pictures
      <3>1. rest \subseteq Pictures
        BY DEF Shown
      <3> HIDE DEF rest
      <3> QED
        BY <3>1, NumbersAreNatural, FirstOfShown
    <2>4. rest # {} => [AtEase EXCEPT !.step = "promote", !.picture = First(rest)] \in Errands
      <3> HIDE DEF rest
      <3> QED
        BY <1>2, <2>3 DEF AtEase, Errands
    <2>5. \/ errand' = [errand EXCEPT ![k] = AtEase]
          \/ /\ rest # {}
             /\ errand' = [errand EXCEPT ![k] =
                               [AtEase EXCEPT !.step = "promote", !.picture = First(rest)]]
      BY <1>12 DEF RemoveRow
    <2> HIDE DEF rest
    <2>6. ErrandsOK'
      BY <1>8, <2>4, <2>5 DEF ErrandsOK, AtEase
    <2> QED
      BY <2>2, <2>6
  <1>13. ASSUME NEW k \in Keepers, Promote(k)
         PROVE  GalleryTypeOK' /\ ErrandsOK'
    BY <1>8, <1>13 DEF Promote, Shown
  <1>14. ASSUME NEW k \in Keepers, DemoteOthers(k)
         PROVE  GalleryTypeOK' /\ ErrandsOK'
    BY <1>8, <1>9, <1>14 DEF DemoteOthers, Shown
  <1>15. ASSUME NEW k \in Keepers, FinishMove(k)
         PROVE  GalleryTypeOK' /\ ErrandsOK'
    <2> DEFINE moved == errand[k].swap
    <2>1. \A n \in 1..2 : moved[n][2] \in Numbers
      BY <1>15 DEF FinishMove, ErrandsOK, Errands
    <2>2. place' \in [Pictures -> Numbers]
      BY <1>1, <1>15, <2>1 DEF FinishMove
    <2>3. GalleryTypeOK'
      BY <1>15, <2>2 DEF FinishMove, Shown, Numbers
    <2> QED
      BY <1>8, <1>15, <2>3 DEF FinishMove
  <1>16. ASSUME NEW k \in Keepers, NEW list, Reorder(k, list)
         PROVE  GalleryTypeOK' /\ ErrandsOK'
    <2>1. \A i \in Pictures : Cardinality(Earlier(list, i)) \in Numbers
      <3> SUFFICES ASSUME NEW i \in Pictures PROVE Cardinality(Earlier(list, i)) \in Numbers
        OBVIOUS
      <3>1. Earlier(list, i) \in SUBSET Pictures
        BY DEF Earlier, Shown
      <3> QED
        BY <3>1, GalleryAssumption, FS_Subset, FS_CardinalityType DEF Numbers
    <2>2. place' \in [Pictures -> Numbers]
      BY <1>1, <1>16, <2>1 DEF Reorder
    <2> QED
      BY <1>16, <2>2 DEF Reorder, Shown, Numbers, ErrandsOK
  <1>17. ASSUME NEW k \in Keepers, WorkerDies(k)
         PROVE  GalleryTypeOK' /\ ErrandsOK'
    BY <1>8, <1>17 DEF WorkerDies, Shown
  <1> QED
    BY <1>4, <1>5, <1>6, <1>7, <1>10, <1>11, <1>12, <1>13, <1>14, <1>15, <1>16, <1>17 DEF GalleryNext
\* A picture loses its files only to a deletion, and that is on record until
\* the row goes as well.
LEMMA GalleryStepFiles ==
    ASSUME GalleryTypeOK, ErrandsOK, ShownHasFiles, GalleryNext
    PROVE  ShownHasFiles'
  <1> USE DEF GalleryTypeOK, On, PicturesUnchanged, Continue, End
  <1>1. ASSUME NEW k \in Keepers, ~On(k, "remove"),
               \A l \in Keepers \ {k} : errand'[l] = errand[l],
               Shown' \subseteq Shown, files' = files, halfDeleted' = halfDeleted
        PROVE  ShownHasFiles'
    BY <1>1 DEF ShownHasFiles
  <1>2. ASSUME NEW k \in Keepers, NEW read, Begin(k, read)
        PROVE  ShownHasFiles'
    BY <1>1, <1>2 DEF Begin, Shown, ErrandsOK
  <1>3. ASSUME NEW k \in Keepers, NEW i \in Pictures, FinishUpload(k, i)
        PROVE  ShownHasFiles'
    <2>1. Shown' = Shown \cup {i} /\ files' = files \cup {i}
      BY <1>3 DEF FinishUpload, NextPicture, Shown
    <2> QED
      BY <1>3, <2>1 DEF FinishUpload, ShownHasFiles, ErrandsOK
  <1>4. ASSUME NEW k \in Keepers, EraseFiles(k)
        PROVE  ShownHasFiles'
    <2>1. Shown' = Shown /\ files' = files \ {errand[k].picture} /\ halfDeleted' = halfDeleted
      BY <1>4 DEF EraseFiles, Shown
    <2>2. errand'[k].step = "remove" /\ errand'[k].picture = errand[k].picture
      BY <1>4 DEF EraseFiles, ErrandsOK, Errands
    <2>3. \A l \in Keepers \ {k} : errand'[l] = errand[l]
      BY <1>4 DEF EraseFiles, ErrandsOK
    <2>4. errand[k].step = "erase"
      BY <1>4 DEF EraseFiles
    <2> QED
      BY <2>1, <2>2, <2>3, <2>4 DEF ShownHasFiles
  <1>5. ASSUME NEW k \in Keepers, RemoveRow(k)
        PROVE  ShownHasFiles'
    <2>1. Shown' = Shown \ {errand[k].picture} /\ files' = files
          /\ halfDeleted' = halfDeleted \ {errand[k].picture}
      BY <1>5 DEF RemoveRow, Shown
    <2>2. \A l \in Keepers \ {k} : errand'[l] = errand[l]
      BY <1>5 DEF RemoveRow, ErrandsOK
    <2> QED
      BY <2>1, <2>2 DEF ShownHasFiles
  <1>6. ASSUME NEW k \in Keepers, Promote(k) \/ DemoteOthers(k) \/ FinishMove(k)
        PROVE  ShownHasFiles'
    <2>1. ~On(k, "remove")
      BY <1>6 DEF Promote, DemoteOthers, FinishMove
    <2>2. \A l \in Keepers \ {k} : errand'[l] = errand[l]
      BY <1>6 DEF Promote, DemoteOthers, FinishMove, ErrandsOK
    <2>3. Shown' = Shown /\ files' = files /\ halfDeleted' = halfDeleted
      BY <1>6 DEF Promote, DemoteOthers, FinishMove, Shown
    <2> QED
      BY <1>1, <2>1, <2>2, <2>3
  <1>7. ASSUME NEW k \in Keepers, NEW list, Reorder(k, list)
        PROVE  ShownHasFiles'
    BY <1>7 DEF Reorder, ShownHasFiles, Shown
  <1>8. ASSUME NEW k \in Keepers, WorkerDies(k)
        PROVE  ShownHasFiles'
    <2>1. Shown' = Shown /\ files' = files
      BY <1>8 DEF WorkerDies, Shown
    <2>2. \A l \in Keepers \ {k} : errand'[l] = errand[l]
      BY <1>8 DEF WorkerDies, ErrandsOK
    <2>3. CASE On(k, "remove") /\ errand[k].picture \in Shown
      BY <1>8, <2>1, <2>2, <2>3 DEF WorkerDies, ShownHasFiles
    <2>4. CASE ~(On(k, "remove") /\ errand[k].picture \in Shown)
      BY <1>8, <2>1, <2>2, <2>4 DEF WorkerDies, ShownHasFiles
    <2> QED
      BY <2>3, <2>4
  <1> QED
    BY <1>2, <1>3, <1>4, <1>5, <1>6, <1>7, <1>8
       DEF GalleryNext, StartUpload, StartDeletion, StartCover, StartMove

\* One request at a time keeps one cover.
LEMMA GalleryStepCover ==
    ASSUME GalleryTypeOK, ErrandsOK, TakingTurns, GalleryNext
    PROVE  TakingTurns'
  <1> SUFFICES ASSUME undisturbed' PROVE TakingTurns'
    BY DEF TakingTurns
  <1>0. IsFiniteSet(Shown) /\ Cardinality(Shown) \in Nat /\ (Cardinality(Shown) = 0 <=> Shown = {})
    <2>1. Cardinality(Shown) \in Nat /\ IsFiniteSet(Shown)
      BY NumbersAreNatural, FS_CardinalityType
    <2> QED
      BY <2>1, FS_EmptySet
  <1>1. undisturbed
    BY DEF GalleryNext, StartUpload, StartDeletion, StartCover, StartMove, Begin, FinishUpload,
           EraseFiles, RemoveRow, Promote, DemoteOthers, FinishMove, Reorder, WorkerDies,
           Continue, End
  <1>2. /\ \A k, l \in Keepers : ~On(k, "none") /\ ~On(l, "none") => k = l
        /\ (\A k \in Keepers : ~On(k, "promote")) => CoverStands
    BY <1>1 DEF TakingTurns
  <1>3. \A k \in Keepers :
            /\ On(k, "upload") => errand[k].count = Cardinality(Shown)
            /\ On(k, "erase") \/ On(k, "remove") \/ On(k, "demote") =>
                  /\ errand[k].picture \in Shown
                  /\ errand[k].cover <=> errand[k].picture \in cover
            /\ On(k, "promote") => errand[k].picture \in Shown /\ cover = {}
    BY <1>1 DEF TakingTurns
  \* A request begins when no other is there.
  <1>4. ASSUME NEW k \in Keepers, NEW read, Begin(k, read),
               read.step # "promote",
               read.step = "upload" => read.count = Cardinality(Shown),
               read.step \in {"erase", "remove", "demote"} =>
                  read.picture \in Shown /\ (read.cover <=> read.picture \in cover)
        PROVE  TakingTurns'
    <2>1. \A l \in Keepers : errand[l].step = "none"
      BY <1>4 DEF Begin, On
    <2>2. errand'[k] = read /\ \A l \in Keepers \ {k} : errand'[l].step = "none"
      BY <1>4, <2>1 DEF Begin, ErrandsOK
    <2>3. Shown' = Shown /\ cover' = cover
      BY <1>4 DEF Begin, PicturesUnchanged, Shown
    <2>4. CoverStands'
      BY <1>2, <2>1, <2>3 DEF On, CoverStands
    <2>5. \A l \in Keepers : On(l, "none")' \/ l = k
      BY <2>2 DEF On
    <2>6. \A l \in Keepers :
              /\ On(l, "upload")' => errand'[l].count = Cardinality(Shown')
              /\ (On(l, "erase") \/ On(l, "remove") \/ On(l, "demote"))' =>
                     /\ errand'[l].picture \in Shown'
                     /\ errand'[l].cover <=> errand'[l].picture \in cover'
              /\ ~On(l, "promote")'
      BY <1>4, <2>2, <2>3 DEF On
    <2> QED
      BY <2>4, <2>5, <2>6 DEF TakingTurns
  \* A request ends, and the cover stands.
  <1>5. ASSUME NEW k \in Keepers, ~On(k, "none"), CoverStands', errand' = [errand EXCEPT ![k] = AtEase]
        PROVE  TakingTurns'
    <2>1. \A l \in Keepers : errand'[l].step = "none"
      BY <1>2, <1>5 DEF On, ErrandsOK, AtEase
    <2> QED
      BY <1>5, <2>1 DEF TakingTurns, On
  \* It goes on.
  <1>6. ASSUME NEW k \in Keepers, ~On(k, "none"), NEW e, errand' = [errand EXCEPT ![k] = e],
               \/ /\ CoverStands' /\ e.step = "remove" /\ e.picture \in Shown'
                  /\ (e.cover <=> e.picture \in cover')
               \/ e.step = "promote" /\ e.picture \in Shown' /\ cover' = {}
        PROVE  TakingTurns'
    <2>1. errand'[k] = e /\ \A l \in Keepers \ {k} : errand'[l].step = "none"
      BY <1>2, <1>6 DEF On, ErrandsOK
    <2> QED
      BY <1>6, <2>1 DEF TakingTurns, On
  <1>7. ASSUME NEW k \in Keepers, StartUpload(k)
        PROVE  TakingTurns'
    <2> DEFINE read == [AtEase EXCEPT !.step = "upload", !.count = Cardinality(Shown)]
    <2>1. read.step = "upload" /\ read.count = Cardinality(Shown)
      BY DEF AtEase
    <2>2. Begin(k, read)
      BY <1>7 DEF StartUpload
    <2> HIDE DEF read
    <2> QED
      BY <1>4, <2>1, <2>2
  <1>8. ASSUME NEW k \in Keepers, NEW i \in Pictures, StartDeletion(k, i) \/ StartCover(k, i)
        PROVE  TakingTurns'
    <2>1. ASSUME NEW step \in {"erase", "demote"},
                 Begin(k, [AtEase EXCEPT !.step = step, !.picture = i, !.cover = i \in cover])
          PROVE  TakingTurns'
      <3> DEFINE read == [AtEase EXCEPT !.step = step, !.picture = i, !.cover = i \in cover]
      <3>1. read.step = step /\ read.picture = i
        BY DEF AtEase
      <3>2. read.cover <=> i \in cover
        BY DEF AtEase
      <3>3. Begin(k, read) /\ i \in Shown
        BY <1>8, <2>1 DEF StartDeletion, StartCover
      <3> HIDE DEF read
      <3> QED
        BY <1>4, <3>1, <3>2, <3>3
    <2> QED
      BY <1>8, <2>1 DEF StartDeletion, StartCover
  <1>9. ASSUME NEW k \in Keepers, NEW i \in Pictures, NEW up \in BOOLEAN, StartMove(k, i, up)
        PROVE  TakingTurns'
    <2>1. PICK other \in Shown :
              Begin(k, [AtEase EXCEPT !.step = "move",
                                      !.swap = <<<<i, place[other]>>, <<other, place[i]>>>>])
      BY <1>9 DEF StartMove
    <2> DEFINE read == [AtEase EXCEPT !.step = "move",
                                      !.swap = <<<<i, place[other]>>, <<other, place[i]>>>>]
    <2>2. read.step = "move" /\ Begin(k, read)
      BY <2>1 DEF AtEase
    <2> HIDE DEF read
    <2> QED
      BY <1>4, <2>2
  <1>10. ASSUME NEW k \in Keepers, NEW i \in Pictures, FinishUpload(k, i)
         PROVE  TakingTurns'
    <2>1. errand[k].count = Cardinality(Shown) /\ On(k, "upload")
      BY <1>3, <1>10 DEF FinishUpload
    <2>2. Shown' = Shown \cup {i} /\ i \notin Shown
      BY <1>10 DEF FinishUpload, NextPicture, Shown, GalleryTypeOK
    <2>3. \A l \in Keepers : ~On(l, "promote")
      BY <1>2, <2>1 DEF On
    <2>4. cover' = IF Shown = {} THEN cover \cup {i} ELSE cover
      BY <1>0, <1>10, <2>1 DEF FinishUpload, IsFirst
    <2>5. CoverStands'
      BY <1>2, <2>2, <2>3, <2>4 DEF CoverStands
    <2> QED
      BY <1>5, <1>10, <2>1, <2>5 DEF FinishUpload, End, On
  <1>11. ASSUME NEW k \in Keepers, EraseFiles(k)
         PROVE  TakingTurns'
    <2> DEFINE e == [errand[k] EXCEPT !.step = "remove"]
    <2>1. On(k, "erase") /\ errand[k] \in Errands
      BY <1>11 DEF EraseFiles, ErrandsOK
    <2>2. e.step = "remove" /\ e.picture = errand[k].picture /\ e.cover = errand[k].cover
      BY <2>1 DEF Errands
    <2>3. errand' = [errand EXCEPT ![k] = e]
      BY <1>11 DEF EraseFiles, Continue
    <2> HIDE DEF e
    <2>4. Shown' = Shown /\ cover' = cover
      BY <1>11 DEF EraseFiles, Shown
    <2>5. \A l \in Keepers : ~On(l, "promote")
      BY <1>2, <2>1 DEF On
    <2>6. CoverStands'
      BY <1>2, <2>4, <2>5 DEF CoverStands
    <2>7. e.picture \in Shown' /\ (e.cover <=> e.picture \in cover')
      BY <1>3, <2>1, <2>2, <2>4
    <2> QED
      BY <1>6, <2>1, <2>2, <2>3, <2>6, <2>7 DEF On
  <1>12. ASSUME NEW k \in Keepers, RemoveRow(k)
         PROVE  TakingTurns'
    <2> DEFINE i == errand[k].picture
               rest == Shown \ {i}
    <2>1. /\ On(k, "remove") /\ i \in Shown
          /\ errand[k].cover <=> i \in cover
      BY <1>3, <1>12 DEF RemoveRow
    <2>2. Shown' = rest /\ cover' = cover \ {i}
      BY <1>12 DEF RemoveRow, Shown, GalleryTypeOK
    <2>3. \A l \in Keepers : ~On(l, "promote")
      BY <1>2, <2>1 DEF On
    <2>4. PICK j \in Shown : cover = {j}
      BY <1>2, <2>1, <2>3 DEF CoverStands
    <2>5. CASE errand[k].cover /\ rest # {}
      <3> DEFINE e == [AtEase EXCEPT !.step = "promote", !.picture = First(rest)]
      <3>1. errand' = [errand EXCEPT ![k] = e]
        BY <1>12, <2>5 DEF RemoveRow
      <3>2. First(rest) \in rest
        <4>1. rest \subseteq Pictures /\ rest # {} /\ place \in [Pictures -> Nat]
          BY <2>5, NumbersAreNatural DEF Shown
        <4> HIDE DEF rest
        <4> QED
          BY <4>1, FirstOfShown
      <3>3. e.step = "promote" /\ e.picture = First(rest)
        BY DEF AtEase
      <3> HIDE DEF e
      <3>4. cover' = {}
        BY <2>1, <2>2, <2>4, <2>5
      <3> HIDE DEF rest
      <3> QED
        BY <1>6, <2>1, <2>2, <3>1, <3>2, <3>3, <3>4 DEF On
    <2>6. CASE ~(errand[k].cover /\ rest # {})
      <3>1. errand' = [errand EXCEPT ![k] = AtEase]
        BY <1>12, <2>6 DEF RemoveRow
      <3>2. CoverStands'
        BY <2>1, <2>2, <2>4, <2>6 DEF CoverStands
      <3> QED
        BY <1>5, <2>1, <3>1, <3>2 DEF On
    <2> QED
      BY <2>5, <2>6
  <1>13. ASSUME NEW k \in Keepers, Promote(k)
         PROVE  TakingTurns'
    <2>1. On(k, "promote") /\ errand[k].picture \in Shown /\ cover = {}
      BY <1>3, <1>13 DEF Promote
    <2>2. Shown' = Shown /\ cover' = {errand[k].picture}
      BY <1>13, <2>1 DEF Promote, Shown
    <2>3. CoverStands'
      BY <2>1, <2>2 DEF CoverStands
    <2> QED
      BY <1>5, <1>13, <2>1, <2>3 DEF Promote, End, On
  <1>14. ASSUME NEW k \in Keepers, DemoteOthers(k)
         PROVE  TakingTurns'
    <2> DEFINE i == errand[k].picture
               e == [errand[k] EXCEPT !.step = "promote"]
    <2>1. /\ On(k, "demote") /\ i \in Shown
          /\ errand[k].cover <=> i \in cover
      BY <1>3, <1>14 DEF DemoteOthers
    <2>2. Shown' = Shown /\ cover' = cover \cap {i}
      BY <1>14 DEF DemoteOthers, Shown
    <2>3. CASE errand[k].cover
      <3>1. errand' = [errand EXCEPT ![k] = AtEase]
        BY <1>14, <2>3 DEF DemoteOthers, End
      <3>2. CoverStands'
        BY <2>1, <2>2, <2>3 DEF CoverStands
      <3> QED
        BY <1>5, <2>1, <3>1, <3>2 DEF On
    <2>4. CASE ~errand[k].cover
      <3>1. errand' = [errand EXCEPT ![k] = e]
        BY <1>14, <2>4 DEF DemoteOthers, Continue
      <3>2. e.step = "promote" /\ e.picture = i
        BY DEF ErrandsOK, Errands
      <3> HIDE DEF e
      <3>3. cover' = {} /\ i \in Shown'
        BY <2>1, <2>2, <2>4
      <3> QED
        BY <1>6, <2>1, <3>1, <3>2, <3>3 DEF On
    <2> QED
      BY <2>3, <2>4
  <1>15. ASSUME NEW k \in Keepers, FinishMove(k)
         PROVE  TakingTurns'
    <2>1. On(k, "move") /\ Shown' = Shown /\ cover' = cover
      BY <1>15 DEF FinishMove, Shown
    <2>2. \A l \in Keepers : ~On(l, "promote")
      BY <1>2, <2>1 DEF On
    <2>3. CoverStands'
      BY <1>2, <2>1, <2>2 DEF CoverStands
    <2> QED
      BY <1>5, <1>15, <2>1, <2>3 DEF FinishMove, End, On
  <1>16. ASSUME NEW k \in Keepers, NEW list, Reorder(k, list)
         PROVE  TakingTurns'
    <2>1. Shown' = Shown /\ cover' = cover /\ errand' = errand
      BY <1>16 DEF Reorder, Shown
    <2> QED
      BY <1>2, <1>3, <2>1 DEF TakingTurns, CoverStands, On
  <1>17. ASSUME NEW k \in Keepers, WorkerDies(k)
         PROVE  TakingTurns'
    BY <1>17 DEF WorkerDies
  <1> QED
    BY <1>7, <1>8, <1>9, <1>10, <1>11, <1>12, <1>13, <1>14, <1>15, <1>16, <1>17 DEF GalleryNext

\* A gallery that the staff works on in turns has exactly one cover; whatever
\* overlaps, a picture that is shown has its files unless its deletion is
\* under way or died halfway (add_product_image, delete_product_image,
\* set_cover_image).
THEOREM GalleryIsSound == GallerySpec => []GallerySound
  <1>1. GalleryInv /\ UNCHANGED galleryVars => GalleryInv'
    <2> SUFFICES ASSUME GalleryInv, UNCHANGED galleryVars PROVE GalleryInv'
      OBVIOUS
    <2>1. Shown' = Shown
      BY DEF galleryVars, Shown
    <2> QED
      BY <2>1 DEF galleryVars, GalleryInv, GalleryTypeOK, ErrandsOK, ShownHasFiles, TakingTurns,
                  CoverStands, On
  <1>2. GalleryInv /\ [GalleryNext]_galleryVars => GalleryInv'
    BY <1>1, GalleryStepTypes, GalleryStepFiles, GalleryStepCover DEF GalleryInv
  <1>3. GalleryInv => GallerySound
    <2> SUFFICES ASSUME GalleryInv, undisturbed, \A k \in Keepers : On(k, "none")
                 PROVE  Cardinality(Covers) = IF Shown = {} THEN 0 ELSE 1
      BY DEF GalleryInv, GallerySound, OneCover
    <2>1. Covers = cover
      BY DEF GalleryInv, GalleryTypeOK, Covers
    <2>2. CoverStands
      BY DEF GalleryInv, TakingTurns, On
    <2>3. CASE Shown = {}
      BY <2>1, <2>2, <2>3, FS_EmptySet DEF CoverStands
    <2>4. CASE Shown # {}
      <3>1. PICK i \in Shown : cover = {i}
        BY <2>2, <2>4 DEF CoverStands
      <3>2. Cardinality({i}) = 1
        BY FS_Singleton
      <3> QED
        BY <2>1, <2>4, <3>1, <3>2
    <2> QED
      BY <2>3, <2>4
  <1> QED
    BY <1>2, <1>3, GalleryInitial, PTL DEF GallerySpec
----------------------------------------------------------------------------
(* Pages, links, menus, badges and logos.                                  *)

Records == [state : {"none", "live", "gone"}, shown : BOOLEAN, key : Keys \cup {Nothing},
            image : Uploads \cup {Nothing}, parent : Rows \cup {Nothing}]
Edits == [step : {"none", "save", "switch", "delete", "clean"}, row : Rows \cup {Nothing},
          seen : Records, new : Records]

EditsOK ==
    /\ editing \in [Editors -> Edits]
    /\ \A e \in Editors :
           /\ ~Handles(e, "none") => editing[e].row \in Rows
           /\ Handles(e, "none") => editing[e] = Ready
           /\ Handles(e, "save") => editing[e].seen.state # "gone" /\ editing[e].new.state = "live"
           /\ Handles(e, "delete") => editing[e].seen.state = "live"
           /\ Handles(e, "clean") => editing[e].seen.image # Nothing
    /\ \A r \in Rows : content[r].state = "none" => content[r].image = Nothing

\* A file belongs to the one row that it was uploaded for.
Holds(r, i) ==
    \/ content[r].image = i
    \/ \E e \in Editors : editing[e].row = r /\ i \in {editing[e].seen.image, editing[e].new.image}
ImagesOwned ==
    \A r \in Rows, i \in Uploads : Holds(r, i) =>
        i \in named /\ \A q \in Rows : Holds(q, i) => q = r

\* An upload that a form has not saved yet is known to this form alone.
UploadsAreNew ==
    \A f \in Editors :
        LET e == editing[f]
            i == e.new.image
        IN  Handles(f, "save") /\ i \notin {Nothing, e.seen.image} =>
                /\ content[e.row].image # i
                /\ \A g \in Editors \ {f} :
                       i \notin {editing[g].seen.image, editing[g].new.image}

\* The file that is to be erased is not the picture of the row, unless the
\* row was saved late.
CleanUpsDue ==
    \A e \in Editors : Handles(e, "clean") /\ editing[e].row \in Live \ staleWrites =>
        content[editing[e].row].image # editing[e].seen.image

\* Staff who take turns find the rows as they have read them, and the files
\* are those of the rows, with the one that is about to be erased.
OnShow == {content[r].image : r \in Live} \ {Nothing}
TurnsKept ==
    alone =>
        /\ \A e, f \in Editors : ~Handles(e, "none") /\ ~Handles(f, "none") => e = f
        /\ \A e \in Editors : ~Handles(e, "none") /\ ~Handles(e, "clean") =>
               editing[e].seen = content[editing[e].row]
        /\ (\A e \in Editors : ~Handles(e, "clean")) => stored = OnShow
        /\ \A e \in Editors : Handles(e, "clean") =>
               /\ editing[e].seen.image \notin OnShow
               /\ stored = OnShow \cup {editing[e].seen.image}

ContentInv ==
    /\ ContentTypeOK /\ EditsOK
    /\ ImagesOwned /\ UploadsAreNew
    /\ ShownWithPicture /\ CleanUpsDue
    /\ TurnsKept
    /\ TwoLevels

\* The initial states satisfy the invariant.
LEMMA ContentInitial == ContentInit => ContentInv
  <1> SUFFICES ASSUME ContentInit PROVE ContentInv
    OBVIOUS
  <1> USE ContentAssumption
  <1>1. Blank \in Records /\ Ready \in Edits
    BY DEF Blank, Records, Ready, Edits
  <1>2. Live = {}
    BY DEF ContentInit, Live, Blank
  <1>7. \A r \in Rows : content[r].image = Nothing
    BY DEF ContentInit, Blank
  <1>3. ContentTypeOK /\ EditsOK
    BY <1>1, <1>7 DEF ContentInit, ContentTypeOK, EditsOK, Records, Handles, Ready
  <1>4. ImagesOwned
    BY DEF ContentInit, ImagesOwned, Holds, Ready, Blank
  <1>5. UploadsAreNew /\ CleanUpsDue /\ ShownWithPicture /\ TwoLevels
    BY <1>2 DEF ContentInit, UploadsAreNew, CleanUpsDue, ShownWithPicture, TwoLevels, Handles, Ready
  <1>6. TurnsKept
    BY <1>2 DEF ContentInit, TurnsKept, OnShow, Handles, Ready
  <1> QED
    BY <1>3, <1>4, <1>5, <1>6 DEF ContentInv

\* What a request has loaded: a row that exists or is new, and a picture that
\* is the row's or was uploaded with the form.
Loads(e, r, step, new) ==
    /\ LoadRow(e, step, r, new)
    /\ new \in Records
    /\ step = "save" => new.state = "live" /\ content[r].state # "gone"
    /\ step = "delete" => content[r].state = "live"
    /\ \/ named' = named /\ new.image \in {content[r].image, Nothing}
       \/ new.image \in Uploads \ named /\ named' = named \cup {new.image}

\* The steps of a request.
LEMMA ContentCases ==
    ASSUME ContentTypeOK, ContentNext
    PROVE  \/ \E e \in Editors, r \in Rows, step \in {"save", "switch", "delete"}, new \in Records :
                  Loads(e, r, step, new)
           \/ \E e \in Editors : Save(e) \/ SaveFlag(e) \/ DeleteRow(e) \/ EraseOld(e) \/ Kill(e)
  <1>1. content \in [Rows -> Records]
    BY DEF ContentTypeOK, Records
  <1>2. ASSUME NEW e \in Editors, NEW r \in Rows, NEW changed \in Records,
               Form(e, r, changed),
               \/ named' = named /\ changed.image = content[r].image
               \/ changed.image \in Uploads \ named /\ named' = named \cup {changed.image}
        PROVE  \E new \in Records : Loads(e, r, "save", new)
    <2> DEFINE new == [changed EXCEPT !.state = "live"]
    <2>1. new \in Records /\ new.state = "live" /\ new.image = changed.image
      BY DEF Records
    <2>2. LoadRow(e, "save", r, new) /\ content[r].state # "gone"
      BY <1>1, <1>2 DEF Form, Live, NextRow
    <2> HIDE DEF new
    <2> QED
      BY <1>2, <2>1, <2>2 DEF Loads
  <1>3. ASSUME NEW e \in Editors, NEW r \in Rows,
               PageForm(e, r) \/ LinkForm(e, r) \/ MenuForm(e, r) \/ ItemForm(e, r)
        PROVE  \E new \in Records : Loads(e, r, "save", new)
    <2>1. ASSUME NEW k \in Keys, Form(e, r, [content[r] EXCEPT !.key = k]), named' = named
          PROVE  \E new \in Records : Loads(e, r, "save", new)
      <3> DEFINE changed == [content[r] EXCEPT !.key = k]
      <3>1. changed \in Records /\ changed.image = content[r].image
        BY <1>1 DEF Records
      <3> HIDE DEF changed
      <3> QED
        BY <1>2, <2>1, <3>1 DEF changed
    <2>2. ASSUME NEW s \in BOOLEAN, Form(e, r, [content[r] EXCEPT !.shown = s]), named' = named
          PROVE  \E new \in Records : Loads(e, r, "save", new)
      <3> DEFINE changed == [content[r] EXCEPT !.shown = s]
      <3>1. changed \in Records /\ changed.image = content[r].image
        BY <1>1 DEF Records
      <3> HIDE DEF changed
      <3> QED
        BY <1>2, <2>2, <3>1 DEF changed
    <2>3. ASSUME NEW k \in Keys, NEW s \in BOOLEAN,
                 Form(e, r, [content[r] EXCEPT !.key = k, !.shown = s]), named' = named
          PROVE  \E new \in Records : Loads(e, r, "save", new)
      <3> DEFINE changed == [content[r] EXCEPT !.key = k, !.shown = s]
      <3>1. changed \in Records /\ changed.image = content[r].image
        BY <1>1 DEF Records
      <3> HIDE DEF changed
      <3> QED
        BY <1>2, <2>3, <3>1 DEF changed
    <2>4. ASSUME NEW p \in Rows \cup {Nothing}, Form(e, r, [content[r] EXCEPT !.parent = p]),
                 named' = named
          PROVE  \E new \in Records : Loads(e, r, "save", new)
      <3> DEFINE changed == [content[r] EXCEPT !.parent = p]
      <3>1. changed \in Records /\ changed.image = content[r].image
        BY <1>1 DEF Records
      <3> HIDE DEF changed
      <3> QED
        BY <1>2, <2>4, <3>1 DEF changed
    <2> QED
      BY <1>3, <2>1, <2>2, <2>3, <2>4 DEF PageForm, LinkForm, MenuForm, ItemForm
  <1>4. ASSUME NEW e \in Editors, NEW r \in Rows, BadgeForm(e, r) \/ LogoForm(e, r)
        PROVE  \E new \in Records : Loads(e, r, "save", new)
    <2>1. PICK s \in BOOLEAN, i \in Uploads :
              Picture(r, i) /\ Form(e, r, [content[r] EXCEPT !.shown = s, !.image = i])
      BY <1>4 DEF BadgeForm, LogoForm
    <2> DEFINE changed == [content[r] EXCEPT !.shown = s, !.image = i]
    <2>2. changed \in Records /\ changed.image = i
      BY <1>1 DEF Records
    <2>3. Form(e, r, changed)
      BY <2>1
    <2> HIDE DEF changed
    <2> QED
      BY <1>2, <2>1, <2>2, <2>3 DEF Picture
  <1>5. ASSUME NEW e \in Editors, NEW r \in Live, NEW step \in {"save", "switch"},
               LoadRow(e, step, r, Flipped(r)), named' = named
        PROVE  \E new \in Records : Loads(e, r, step, new)
    <2>1. /\ Flipped(r) \in Records /\ Flipped(r).state = "live"
          /\ Flipped(r).image = content[r].image
      BY <1>1 DEF Flipped, Records, Live
    <2> QED
      BY <1>5, <2>1 DEF Loads, Live
  <1>6. ASSUME NEW e \in Editors, NEW r \in Live, LoadRow(e, "delete", r, Blank), named' = named
        PROVE  \E new \in Records : Loads(e, r, "delete", new)
    <2>1. Blank \in Records /\ Blank.image = Nothing
      BY DEF Blank, Records
    <2> QED
      BY <1>6, <2>1 DEF Loads, Live
  <1>7. Live \subseteq Rows
    BY DEF Live
  <1> QED
    BY <1>3, <1>4, <1>5, <1>6, <1>7
       DEF ContentNext, PublishPage, ToggleLink, ToggleMenu, ToggleItem, ToggleBadge, ToggleLogo,
           FlagForm, DeletePage, DeleteLink, DeleteMenu, DeleteItem, DeleteBadge, DeleteLogo, Removal
\* Types are kept.
LEMMA ContentStepTypes ==
    ASSUME ContentTypeOK, EditsOK, ImagesOwned, ContentNext
    PROVE  ContentTypeOK' /\ EditsOK'
  <1>1. content \in [Rows -> Records] /\ Ready \in Edits /\ named \subseteq Uploads
    BY DEF ContentTypeOK, Records, Ready, Edits, Blank
  <1>2. ASSUME NEW e \in Editors, NEW r \in Rows, NEW step \in {"save", "switch", "delete"},
               NEW new \in Records, Loads(e, r, step, new)
        PROVE  ContentTypeOK' /\ EditsOK'
    <2> DEFINE read == [step |-> step, row |-> r, seen |-> content[r], new |-> new]
    <2>1. /\ read \in Edits /\ read.step = step /\ read.row = r
          /\ read.seen = content[r] /\ read.new = new
      BY <1>1 DEF Edits
    <2>2. editing' = [editing EXCEPT ![e] = read]
      BY <1>2 DEF Loads, LoadRow
    <2>3. /\ step = "save" => content[r].state # "gone" /\ new.state = "live"
          /\ step = "delete" => content[r].state = "live"
      BY <1>2 DEF Loads
    <2> HIDE DEF read
    <2>6. content' = content
      BY <1>2 DEF Loads, LoadRow
    <2>4. EditsOK'
      BY <2>1, <2>2, <2>3, <2>6 DEF EditsOK, Handles
    <2>5. ContentTypeOK'
      BY <1>2 DEF Loads, LoadRow, ContentTypeOK
    <2> QED
      BY <2>4, <2>5
  <1>3. ASSUME NEW e \in Editors, Finish(e),
               \A r \in Rows : content'[r].state = "none" => content'[r].image = Nothing
        PROVE  EditsOK'
    BY <1>1, <1>3 DEF Finish, EditsOK, Handles, Ready
  <1>4. ASSUME NEW e \in Editors, CleanUp(e), ~Handles(e, "none"),
               editing[e].seen.image # Nothing,
               \A r \in Rows : content'[r].state = "none" => content'[r].image = Nothing
        PROVE  EditsOK'
    <2> DEFINE left == [editing[e] EXCEPT !.step = "clean"]
    <2>1. /\ left \in Edits /\ left.step = "clean" /\ left.row = editing[e].row
          /\ left.seen = editing[e].seen
      BY DEF EditsOK, Edits
    <2>2. editing' = [editing EXCEPT ![e] = left]
      BY <1>4 DEF CleanUp
    <2> HIDE DEF left
    <2> QED
      BY <1>4, <2>1, <2>2 DEF EditsOK, Handles
  <1>5. ASSUME NEW e \in Editors, Save(e)
        PROVE  ContentTypeOK' /\ EditsOK'
    <2> DEFINE r == editing[e].row
               new == editing[e].new
    <2>1. r \in Rows /\ new \in Records /\ Handles(e, "save") /\ ~Handles(e, "none")
      BY <1>5 DEF Save, EditsOK, Edits, Handles
    <2>2. new.image \in named \cup {Nothing}
      BY <2>1 DEF ImagesOwned, Holds, Records
    <2>3. content' \in [Rows -> Records]
      <3>1. content' = content \/ content' = [content EXCEPT ![r] = new]
        BY <1>5 DEF Save
      <3> HIDE DEF r, new
      <3> QED
        BY <1>1, <2>1, <3>1
    <2>4. stored' \subseteq stored \cup ({new.image} \ {Nothing}) /\ named' = named
      BY <1>5 DEF Save
    <2>5. Finish(e) \/ (CleanUp(e) /\ editing[e].seen.image # Nothing)
      BY <1>5 DEF Save
    <2>6. \A q \in Rows : content'[q].state = "none" => content'[q].image = Nothing
      <3>1. content' = content \/ content' = [content EXCEPT ![r] = new]
        BY <1>5 DEF Save
      <3>2. new.state = "live"
        BY <2>1 DEF EditsOK
      <3> HIDE DEF r, new
      <3> QED
        BY <1>1, <2>1, <3>1, <3>2 DEF EditsOK
    <2> QED
      BY <1>3, <1>4, <2>1, <2>2, <2>3, <2>4, <2>5, <2>6 DEF ContentTypeOK, Records
  <1>6. ASSUME NEW e \in Editors, SaveFlag(e)
        PROVE  ContentTypeOK' /\ EditsOK'
    <2>1. editing[e].row \in Rows /\ editing[e].new \in Records
      BY <1>6 DEF SaveFlag, EditsOK, Edits, Handles
    <2>2. content' \in [Rows -> Records]
      BY <1>1, <1>6, <2>1 DEF SaveFlag, Records
    <2>3. \A q \in Rows : content'[q].state = "none" => content'[q].image = Nothing
      BY <1>1, <1>6, <2>1 DEF SaveFlag, Records, EditsOK
    <2> QED
      BY <1>3, <1>6, <2>2, <2>3 DEF SaveFlag, ContentTypeOK, Records
  <1>7. ASSUME NEW e \in Editors, DeleteRow(e)
        PROVE  ContentTypeOK' /\ EditsOK'
    <2>1. editing[e].row \in Rows /\ ~Handles(e, "none")
      BY <1>7 DEF DeleteRow, EditsOK, Edits, Handles
    <2>2. content' \in [Rows -> Records]
      BY <1>1, <1>7, <2>1 DEF DeleteRow, Records
    <2>3. \A q \in Rows : content'[q].state = "none" => content'[q].image = Nothing
      BY <1>1, <1>7, <2>1 DEF DeleteRow, Records, EditsOK
    <2> QED
      BY <1>3, <1>4, <1>7, <2>1, <2>2, <2>3 DEF DeleteRow, ContentTypeOK, Records
  <1>8. ASSUME NEW e \in Editors, EraseOld(e) \/ Kill(e)
        PROVE  ContentTypeOK' /\ EditsOK'
    BY <1>3, <1>8 DEF EraseOld, Kill, ContentTypeOK, EditsOK
  <1> QED
    BY <1>2, <1>5, <1>6, <1>7, <1>8, ContentCases

\* What a step that is not a loading does to the requests and the rows.
LEMMA ContentWrites ==
    ASSUME ContentTypeOK, EditsOK, NEW e \in Editors,
           Save(e) \/ SaveFlag(e) \/ DeleteRow(e) \/ EraseOld(e) \/ Kill(e)
    PROVE  /\ ~Handles(e, "none")
           /\ \A f \in Editors \ {e} : editing'[f] = editing[f]
           /\ \/ editing'[e] = Ready
              \/ /\ Handles(e, "save") \/ Handles(e, "delete")
                 /\ editing'[e].step = "clean"
                 /\ editing'[e].row = editing[e].row
                 /\ editing'[e].seen = editing[e].seen
                 /\ editing'[e].new = editing[e].new
           /\ \A r \in Rows :
                  \/ content'[r].image = content[r].image
                  \/ Handles(e, "save") /\ r = editing[e].row /\ content'[r] = editing[e].new
           /\ named' = named
  <1>1. content \in [Rows -> Records] /\ editing \in [Editors -> Edits]
    BY DEF ContentTypeOK, Records, EditsOK
  <1>2. ~Handles(e, "none") /\ named' = named
    BY DEF Save, SaveFlag, DeleteRow, EraseOld, Kill, Handles
  <1>3. Finish(e) \/ (CleanUp(e) /\ (Handles(e, "save") \/ Handles(e, "delete")))
    BY DEF Save, SaveFlag, DeleteRow, EraseOld, Kill
  <1>4. \A f \in Editors \ {e} : editing'[f] = editing[f]
    BY <1>1, <1>3 DEF Finish, CleanUp
  <1>5. ASSUME Finish(e) PROVE editing'[e] = Ready
    BY <1>1, <1>5 DEF Finish
  <1>6. ASSUME CleanUp(e)
        PROVE  /\ editing'[e].step = "clean"
               /\ editing'[e].row = editing[e].row
               /\ editing'[e].seen = editing[e].seen
               /\ editing'[e].new = editing[e].new
    BY <1>1, <1>6 DEF CleanUp, Edits
  <1>7. \A r \in Rows :
            \/ content'[r].image = content[r].image
            \/ Handles(e, "save") /\ r = editing[e].row /\ content'[r] = editing[e].new
    <2>1. CASE Save(e)
      BY <1>1, <2>1 DEF Save
    <2>2. CASE SaveFlag(e)
      BY <1>1, <2>2 DEF SaveFlag, Records
    <2>3. CASE DeleteRow(e)
      BY <1>1, <2>3 DEF DeleteRow, Records
    <2>4. CASE EraseOld(e) \/ Kill(e)
      BY <2>4 DEF EraseOld, Kill
    <2> QED
      BY <2>1, <2>2, <2>3, <2>4
  <1> QED
    BY <1>2, <1>3, <1>4, <1>5, <1>6, <1>7
\* A file stays with its row, and an upload with its form.
LEMMA ContentStepImages ==
    ASSUME ContentTypeOK, EditsOK, ImagesOwned, UploadsAreNew, ContentNext
    PROVE  ImagesOwned' /\ UploadsAreNew'
  <1>1. content \in [Rows -> Records] /\ editing \in [Editors -> Edits] /\ named \subseteq Uploads
    BY DEF ContentTypeOK, Records, EditsOK
  <1>2. ASSUME NEW e \in Editors, NEW r \in Rows, NEW step \in {"save", "switch", "delete"},
               NEW new \in Records, Loads(e, r, step, new)
        PROVE  ImagesOwned' /\ UploadsAreNew'
    <2>1. /\ editing'[e].row = r /\ editing'[e].seen = content[r] /\ editing'[e].new = new
          /\ editing'[e].step = step
          /\ \A f \in Editors \ {e} : editing'[f] = editing[f]
          /\ content' = content
      BY <1>1, <1>2 DEF Loads, LoadRow
    <2>2. \/ named' = named /\ new.image \in {content[r].image, Nothing}
          \/ new.image \in Uploads \ named /\ named' = named \cup {new.image}
      BY <1>2 DEF Loads
    <2>3. ASSUME NEW q \in Rows, NEW i \in Uploads, Holds(q, i)'
          PROVE  Holds(q, i) \/ (q = r /\ i = new.image)
      BY <2>1, <2>3 DEF Holds
    <2>4. \A q \in Rows, i \in Uploads : Holds(q, i)' => Holds(q, i) \/ (q = r /\ i = new.image)
      BY <2>3
    <2>5. ImagesOwned'
      <3> SUFFICES ASSUME NEW q \in Rows, NEW i \in Uploads, Holds(q, i)'
                   PROVE  i \in named' /\ \A p \in Rows : Holds(p, i)' => p = q
        BY DEF ImagesOwned
      <3>1. CASE i \notin named
        <4>1. \A p \in Rows : ~Holds(p, i)
          BY <3>1 DEF ImagesOwned
        <4>2. i = new.image /\ \A p \in Rows : Holds(p, i)' => p = r
          BY <2>4, <4>1
        <4>3. i \in named'
          BY <2>2, <3>1, <4>1, <4>2, ContentAssumption DEF Holds
        <4> QED
          BY <4>2, <4>3
      <3>2. CASE i \in named
        <4>1. i \in named'
          BY <2>2, <3>2
        <4>2. i = new.image => Holds(r, i)
          BY <2>2, <3>2, ContentAssumption DEF Holds
        <4>3. \A p \in Rows : Holds(p, i)' => Holds(p, i)
          BY <2>4, <4>2
        <4> QED
          BY <4>1, <4>3 DEF ImagesOwned
      <3> QED
        BY <3>1, <3>2
    <2>6. UploadsAreNew'
      <3> SUFFICES ASSUME NEW f \in Editors, Handles(f, "save")',
                          NEW i, i = editing'[f].new.image,
                          i \notin {Nothing, editing'[f].seen.image}
                   PROVE  /\ content'[editing'[f].row].image # i
                          /\ \A g \in Editors \ {f} :
                                 i \notin {editing'[g].seen.image, editing'[g].new.image}
        BY DEF UploadsAreNew
      <3>1. CASE f = e
        <4>1. i \in Uploads \ named
          BY <2>1, <2>2, <3>1
        <4>2. \A q \in Rows : ~Holds(q, i)
          BY <4>1 DEF ImagesOwned
        <4>3. \A g \in Editors \ {e} :
                  editing[g].row \in Rows => i \notin {editing[g].seen.image, editing[g].new.image}
          BY <4>2 DEF Holds
        <4>4. content[r].image # i
          BY <4>2 DEF Holds
        <4>5. \A g \in Editors : Handles(g, "none") =>
                  i \notin {editing[g].seen.image, editing[g].new.image}
          BY <4>1, ContentAssumption DEF EditsOK, Ready, Blank
        <4>6. \A g \in Editors \ {e} : i \notin {editing[g].seen.image, editing[g].new.image}
          BY <4>3, <4>5 DEF EditsOK
        <4> QED
          BY <2>1, <3>1, <4>4, <4>6
      <3>2. CASE f # e
        <4> DEFINE p == editing[f].row
        <4>1. /\ editing'[f] = editing[f] /\ Handles(f, "save") /\ p \in Rows
              /\ i = editing[f].new.image /\ i # Nothing /\ i \in Uploads
          BY <1>1, <2>1, <3>2 DEF Handles, EditsOK, Edits, Records
        <4>2. /\ content[p].image # i
              /\ \A g \in Editors \ {f} : i \notin {editing[g].seen.image, editing[g].new.image}
          BY <4>1 DEF UploadsAreNew
        <4>3. Holds(p, i) /\ i \in named
          BY <4>1 DEF Holds, ImagesOwned
        <4>4. content[r].image # i
          BY <4>1, <4>2, <4>3 DEF Holds, ImagesOwned
        <4>5. new.image # i
          BY <2>2, <4>1, <4>3, <4>4
        <4> QED
          BY <2>1, <3>2, <4>1, <4>2, <4>4, <4>5
      <3> QED
        BY <3>1, <3>2
    <2> QED
      BY <2>5, <2>6
  <1>3. ASSUME NEW e \in Editors,
               Save(e) \/ SaveFlag(e) \/ DeleteRow(e) \/ EraseOld(e) \/ Kill(e)
        PROVE  ImagesOwned' /\ UploadsAreNew'
    <2>1. /\ ~Handles(e, "none")
          /\ \A f \in Editors \ {e} : editing'[f] = editing[f]
          /\ named' = named
      BY <1>3, ContentWrites
    <2>2. \/ editing'[e] = Ready
          \/ /\ editing'[e].step = "clean"
             /\ editing'[e].row = editing[e].row
             /\ editing'[e].seen = editing[e].seen
             /\ editing'[e].new = editing[e].new
      BY <1>3, ContentWrites
    <2>3. \A r \in Rows :
              \/ content'[r].image = content[r].image
              \/ Handles(e, "save") /\ r = editing[e].row /\ content'[r] = editing[e].new
      BY <1>3, ContentWrites
    <2>4. ASSUME NEW q \in Rows, NEW i \in Uploads, Holds(q, i)'
          PROVE  Holds(q, i)
      BY <2>1, <2>2, <2>3, <2>4, ContentAssumption DEF Holds, Ready, Blank
    <2>5. ImagesOwned'
      BY <2>1, <2>4 DEF ImagesOwned
    <2>6. UploadsAreNew'
      <3> SUFFICES ASSUME NEW f \in Editors, Handles(f, "save")',
                          NEW i, i = editing'[f].new.image,
                          i \notin {Nothing, editing'[f].seen.image}
                   PROVE  /\ content'[editing'[f].row].image # i
                          /\ \A g \in Editors \ {f} :
                                 i \notin {editing'[g].seen.image, editing'[g].new.image}
        BY DEF UploadsAreNew
      <3>1. f # e
        BY <2>2 DEF Handles, Ready
      <3>2. /\ editing'[f] = editing[f] /\ Handles(f, "save") /\ editing[f].row \in Rows
        BY <2>1, <3>1 DEF Handles, EditsOK
      <3>3. /\ content[editing[f].row].image # i
            /\ \A g \in Editors \ {f} : i \notin {editing[g].seen.image, editing[g].new.image}
        BY <3>2 DEF UploadsAreNew
      <3>4. content'[editing[f].row].image # i
        BY <2>3, <3>1, <3>2, <3>3
      <3>5. editing'[e].seen.image # i /\ editing'[e].new.image # i
        BY <2>2, <3>1, <3>3 DEF Ready, Blank
      <3> QED
        BY <2>1, <3>2, <3>3, <3>4, <3>5
    <2> QED
      BY <2>5, <2>6
  <1> QED
    BY <1>2, <1>3, ContentCases

\* The picture of a row that was not saved late is there, and is not the one
\* to be erased.
LEMMA ContentStepPictures ==
    ASSUME ContentTypeOK, EditsOK, ImagesOwned, UploadsAreNew, ShownWithPicture, CleanUpsDue,
           ContentNext
    PROVE  ShownWithPicture' /\ CleanUpsDue'
  <1>1. content \in [Rows -> Records] /\ editing \in [Editors -> Edits]
    BY DEF ContentTypeOK, Records, EditsOK
  <1>2. ASSUME NEW e \in Editors, NEW r \in Rows, NEW step \in {"save", "switch", "delete"},
               NEW new \in Records, Loads(e, r, step, new)
        PROVE  ShownWithPicture' /\ CleanUpsDue'
    <2>1. /\ editing'[e].step = step
          /\ \A f \in Editors \ {e} : editing'[f] = editing[f]
          /\ content' = content /\ stored' = stored /\ staleWrites' = staleWrites
      BY <1>1, <1>2 DEF Loads, LoadRow
    <2>2. Live' = Live
      BY <2>1 DEF Live
    <2> QED
      BY <2>1, <2>2 DEF ShownWithPicture, CleanUpsDue, Handles
  \* A step that inserts no row, puts no picture and erases none.
  <1>3. ASSUME NEW e \in Editors, Live' \subseteq Live, staleWrites' = staleWrites,
               stored \subseteq stored', \A r \in Rows : content'[r].image = content[r].image,
               \A f \in Editors \ {e} : editing'[f] = editing[f],
               Handles(e, "clean")' => editing'[e].row \notin Live'
        PROVE  ShownWithPicture' /\ CleanUpsDue'
    <2>1. Live \subseteq Rows /\ Live' \subseteq Rows
      BY DEF Live
    <2> QED
      BY <1>3, <2>1 DEF ShownWithPicture, CleanUpsDue, Handles
  <1>4. ASSUME NEW e \in Editors, Save(e)
        PROVE  ShownWithPicture' /\ CleanUpsDue'
    <2> DEFINE r == editing[e].row
               new == editing[e].new
               old == editing[e].seen.image
    <2>1. /\ Handles(e, "save") /\ r \in Rows /\ new \in Records
          /\ \A f \in Editors \ {e} : editing'[f] = editing[f]
          /\ new.state = "live"
      BY <1>1, <1>4 DEF Save, EditsOK, Edits, Handles, Finish, CleanUp
    <2>2. CASE ~Fits(r, new)
      <3>1. /\ content' = content /\ stored' = stored /\ staleWrites' = staleWrites
            /\ Finish(e)
        BY <1>4, <2>2 DEF Save
      <3>2. Live' = Live /\ editing'[e] = Ready
        BY <1>1, <3>1 DEF Live, Finish
      <3> QED
        BY <1>3, <2>1, <3>1, <3>2 DEF Handles, Ready
    <2>3. CASE Fits(r, new)
      <3>1. /\ content' = [content EXCEPT ![r] = new]
            /\ stored' = stored \cup ({new.image} \ {Nothing, old})
            /\ staleWrites' = IF content[r] = editing[e].seen
                              THEN staleWrites ELSE staleWrites \cup {r}
            /\ IF old \notin {Nothing, new.image} THEN CleanUp(e) ELSE Finish(e)
        BY <1>4, <2>3 DEF Save
      <3>2. content'[r] = new /\ \A q \in Rows \ {r} : content'[q] = content[q]
        BY <1>1, <2>1, <3>1
      <3>3. Live' = Live \cup {r}
        BY <2>1, <3>2 DEF Live
      <3>4. r \notin staleWrites' =>
                /\ content[r] = editing[e].seen /\ r \notin staleWrites
                /\ (r \in Live \/ content[r].image = Nothing)
        BY <1>1, <2>1, <3>1 DEF EditsOK, Live, Records
      <3>5. ShownWithPicture'
        <4> SUFFICES ASSUME NEW q \in Live' \ staleWrites'
                     PROVE  content'[q].image \in stored' \cup {Nothing}
          BY DEF ShownWithPicture
        <4>1. CASE q = r
          <5>1. content[r].image \in stored \cup {Nothing}
            BY <3>4, <4>1 DEF ShownWithPicture
          <5> QED
            BY <3>1, <3>2, <3>4, <4>1, <5>1
        <4>2. CASE q # r
          BY <3>1, <3>2, <3>3, <4>2 DEF ShownWithPicture, Live
        <4> QED
          BY <4>1, <4>2
      <3>6. CleanUpsDue'
        <4> SUFFICES ASSUME NEW f \in Editors, Handles(f, "clean")',
                            editing'[f].row \in Live' \ staleWrites'
                     PROVE  content'[editing'[f].row].image # editing'[f].seen.image
          BY DEF CleanUpsDue
        <4>1. CASE f = e
          <5>1. CleanUp(e) /\ old # new.image
            BY <1>1, <3>1, <4>1 DEF Handles, Finish, Ready
          <5>2. editing'[e].row = r /\ editing'[e].seen.image = old
            BY <1>1, <5>1 DEF CleanUp, Edits
          <5> QED
            BY <3>2, <4>1, <5>1, <5>2
        <4>2. CASE f # e
          <5>1. editing'[f] = editing[f] /\ Handles(f, "clean") /\ editing[f].seen.image # Nothing
            BY <2>1, <4>2 DEF Handles, EditsOK
          <5>2. CASE editing[f].row = r
            <6>1. content[r] = editing[e].seen /\ (r \in Live \/ content[r].image = Nothing)
              BY <3>4, <5>1, <5>2
            <6>2. content[r].image # editing[f].seen.image
              BY <3>4, <5>1, <5>2, <6>1 DEF CleanUpsDue
            <6>3. new.image \notin {Nothing, old} => new.image # editing[f].seen.image
              BY <2>1, <4>2 DEF UploadsAreNew
            <6> QED
              BY <3>2, <5>1, <5>2, <6>1, <6>2, <6>3
          <5>3. CASE editing[f].row # r
            <6>1. editing[f].row \in Live \ staleWrites
              BY <3>1, <3>3, <5>1, <5>3
            <6> QED
              BY <3>2, <5>1, <5>3, <6>1 DEF CleanUpsDue, Live
          <5> QED
            BY <5>2, <5>3
        <4> QED
          BY <4>1, <4>2
      <3> QED
        BY <3>5, <3>6
    <2> QED
      BY <2>2, <2>3
  <1>5. ASSUME NEW e \in Editors, SaveFlag(e)
        PROVE  ShownWithPicture' /\ CleanUpsDue'
    <2>1. Live' = Live /\ \A r \in Rows : content'[r].image = content[r].image
      BY <1>1, <1>5 DEF SaveFlag, Live, Records
    <2>2. editing'[e] = Ready /\ \A f \in Editors \ {e} : editing'[f] = editing[f]
      BY <1>1, <1>5 DEF SaveFlag, Finish
    <2> QED
      BY <1>3, <1>5, <2>1, <2>2 DEF SaveFlag, Handles, Ready
  <1>6. ASSUME NEW e \in Editors, DeleteRow(e)
        PROVE  ShownWithPicture' /\ CleanUpsDue'
    <2> DEFINE r == editing[e].row
    <2>1. r \in Rows /\ \A f \in Editors \ {e} : editing'[f] = editing[f]
      BY <1>1, <1>6 DEF DeleteRow, EditsOK, Handles, Finish, CleanUp
    <2>2. CASE Hanging(r) # {}
      <3>1. content' = content /\ Finish(e)
        BY <1>6, <2>2 DEF DeleteRow
      <3>2. Live' = Live /\ editing'[e] = Ready
        BY <1>1, <3>1 DEF Live, Finish
      <3> QED
        BY <1>3, <1>6, <2>1, <3>1, <3>2 DEF DeleteRow, Handles, Ready
    <2>3. CASE Hanging(r) = {}
      <3>1. content' = [content EXCEPT ![r].state = "gone"]
        BY <1>6, <2>3 DEF DeleteRow
      <3>2. Live' = Live \ {r} /\ \A q \in Rows : content'[q].image = content[q].image
        BY <1>1, <2>1, <3>1 DEF Live, Records
      <3>3. editing'[e] = Ready \/ editing'[e].row = r
        BY <1>1, <1>6, <2>3 DEF DeleteRow, Finish, CleanUp, Edits
      <3>4. Handles(e, "clean")' => editing'[e].row \notin Live'
        BY <3>2, <3>3 DEF Handles, Ready
      <3> QED
        BY <1>3, <1>6, <2>1, <3>2, <3>4 DEF DeleteRow
    <2> QED
      BY <2>2, <2>3
  <1>7. ASSUME NEW e \in Editors, EraseOld(e)
        PROVE  ShownWithPicture' /\ CleanUpsDue'
    <2> DEFINE r == editing[e].row
               old == editing[e].seen.image
    <2>1. /\ Handles(e, "clean") /\ r \in Rows /\ old \in Uploads
          /\ content' = content /\ staleWrites' = staleWrites /\ stored' = stored \ {old}
          /\ Live' = Live
      BY <1>1, <1>7 DEF EraseOld, EditsOK, Edits, Records, Handles, Live
    <2>2. editing'[e] = Ready /\ \A f \in Editors \ {e} : editing'[f] = editing[f]
      BY <1>1, <1>7 DEF EraseOld, Finish
    <2>3. \A q \in Live \ staleWrites : content[q].image # old
      <3> SUFFICES ASSUME NEW q \in Live \ staleWrites, content[q].image = old PROVE FALSE
        OBVIOUS
      <3>1. q \in Rows /\ Holds(q, old) /\ Holds(r, old)
        BY <2>1 DEF Holds, Live
      <3>2. q = r
        BY <2>1, <3>1 DEF ImagesOwned
      <3> QED
        BY <2>1, <3>2 DEF CleanUpsDue
    <2>4. ShownWithPicture'
      BY <2>1, <2>3 DEF ShownWithPicture
    <2>5. CleanUpsDue'
      BY <2>1, <2>2 DEF CleanUpsDue, Handles, Ready
    <2> QED
      BY <2>4, <2>5
  <1>8. ASSUME NEW e \in Editors, Kill(e)
        PROVE  ShownWithPicture' /\ CleanUpsDue'
    <2>1. editing'[e] = Ready /\ \A f \in Editors \ {e} : editing'[f] = editing[f]
      BY <1>1, <1>8 DEF Kill, Finish
    <2> QED
      BY <1>3, <1>8, <2>1 DEF Kill, Handles, Ready, Live
  <1> QED
    BY <1>2, <1>4, <1>5, <1>6, <1>7, <1>8, ContentCases
\* Staff who take turns leave the files of the rows, and no other.
LEMMA ContentStepTurns ==
    ASSUME ContentTypeOK, EditsOK, ImagesOwned, TurnsKept, ContentNext
    PROVE  TurnsKept'
  <1> SUFFICES ASSUME alone' PROVE TurnsKept'
    BY DEF TurnsKept
  <1>1. content \in [Rows -> Records] /\ editing \in [Editors -> Edits]
    BY DEF ContentTypeOK, Records, EditsOK
  <1>2. ASSUME NEW e \in Editors, NEW r \in Rows, NEW step \in {"save", "switch", "delete"},
               NEW new \in Records, Loads(e, r, step, new)
        PROVE  TurnsKept'
    <2>1. alone /\ \A f \in Editors : Handles(f, "none")
      BY <1>2 DEF Loads, LoadRow
    <2>2. /\ editing'[e].step = step /\ editing'[e].row = r /\ editing'[e].seen = content[r]
          /\ \A f \in Editors \ {e} : editing'[f] = editing[f]
          /\ content' = content /\ stored' = stored
      BY <1>1, <1>2 DEF Loads, LoadRow
    <2>3. stored = OnShow
      BY <2>1 DEF TurnsKept, Handles
    <2>4. OnShow' = OnShow
      BY <2>2 DEF OnShow, Live
    <2> QED
      BY <2>1, <2>2, <2>3, <2>4 DEF TurnsKept, Handles
  <1>3. ASSUME NEW e \in Editors,
               Save(e) \/ SaveFlag(e) \/ DeleteRow(e) \/ EraseOld(e) \/ Kill(e)
        PROVE  TurnsKept'
    <2> DEFINE r == editing[e].row
               new == editing[e].new
               old == editing[e].seen.image
    <2>1. alone /\ ~Kill(e)
      BY <1>3 DEF Save, SaveFlag, DeleteRow, EraseOld, Kill
    <2>2. ~Handles(e, "none") /\ \A f \in Editors \ {e} : editing'[f] = editing[f]
      BY <1>3, ContentWrites
    <2>3. r \in Rows /\ new \in Records /\ \A f \in Editors \ {e} : Handles(f, "none")
      BY <2>1, <2>2 DEF TurnsKept, EditsOK, Edits
    <2>4. ~Handles(e, "clean") => stored = OnShow /\ editing[e].seen = content[r]
      <3> SUFFICES ASSUME ~Handles(e, "clean") PROVE stored = OnShow /\ editing[e].seen = content[r]
        OBVIOUS
      <3>1. \A f \in Editors : ~Handles(f, "clean")
        BY <2>3 DEF Handles
      <3> QED
        BY <2>1, <2>2, <3>1 DEF TurnsKept
    \* It ends, or the old file remains to be erased.
    <2>5. ASSUME editing'[e] = Ready, stored' = OnShow' PROVE TurnsKept'
      <3>1. \A f \in Editors : editing'[f].step = "none"
        BY <2>2, <2>3, <2>5 DEF Handles, Ready
      <3> QED
        BY <2>5, <3>1 DEF TurnsKept, Handles
    <2>6. ASSUME CleanUp(e), old \notin OnShow', stored' = OnShow' \cup {old} PROVE TurnsKept'
      <3>1. editing'[e].step = "clean" /\ editing'[e].seen.image = old
        BY <1>1, <2>6 DEF CleanUp, Edits
      <3>2. \A f \in Editors \ {e} : editing'[f].step = "none"
        BY <2>2, <2>3 DEF Handles
      <3> QED
        BY <2>6, <3>1, <3>2 DEF TurnsKept, Handles
    <2>7. ASSUME Finish(e) PROVE editing'[e] = Ready
      BY <1>1, <2>7 DEF Finish
    \* No other row has the picture.
    <2>8. \A q \in Rows : content[q].image = content[r].image /\ q # r => content[q].image = Nothing
      BY <1>1, <2>3 DEF ImagesOwned, Holds, Records
    <2>9. CASE Save(e)
      <3>1. Handles(e, "save") /\ stored = OnShow /\ old = content[r].image
        BY <2>4, <2>9 DEF Save, Handles
      <3>2. CASE ~Fits(r, new)
        <4>1. content' = content /\ stored' = stored /\ Finish(e)
          BY <2>9, <3>2 DEF Save
        <4>2. OnShow' = OnShow
          BY <4>1 DEF OnShow, Live
        <4> QED
          BY <2>5, <2>7, <3>1, <4>1, <4>2
      <3>3. CASE Fits(r, new)
        <4>1. /\ content' = [content EXCEPT ![r] = new]
              /\ stored' = stored \cup ({new.image} \ {Nothing, old})
              /\ IF old \notin {Nothing, new.image} THEN CleanUp(e) ELSE Finish(e)
          BY <2>9, <3>3 DEF Save
        <4>2. content'[r] = new /\ new.state = "live" /\ \A q \in Rows \ {r} : content'[q] = content[q]
          BY <1>1, <2>3, <3>1, <4>1 DEF EditsOK
        <4>3. OnShow' = ({content[q].image : q \in Live \ {r}} \cup {new.image}) \ {Nothing}
          <5>1. Live' = Live \cup {r}
            BY <2>3, <4>2 DEF Live
          <5> QED
            BY <4>2, <5>1 DEF OnShow, Live
        <4>4. old \notin {content[q].image : q \in Live \ {r}} \ {Nothing}
          BY <2>8, <3>1 DEF Live
        <4>5. r \in Live \/ old = Nothing
          BY <1>1, <2>4, <3>1 DEF EditsOK, Live, Handles, Records
        <4>6. OnShow = ({content[q].image : q \in Live \ {r}} \cup {old}) \ {Nothing}
          BY <3>1, <4>5 DEF OnShow
        <4>7. CASE old \notin {Nothing, new.image}
          <5>1. old \notin OnShow' /\ stored' = OnShow' \cup {old}
            BY <3>1, <4>1, <4>3, <4>4, <4>6, <4>7
          <5> QED
            BY <2>6, <4>1, <4>7, <5>1
        <4>8. CASE old \in {Nothing, new.image}
          <5>1. stored' = OnShow'
            BY <3>1, <4>1, <4>3, <4>4, <4>6, <4>8
          <5> QED
            BY <2>5, <2>7, <4>1, <4>8, <5>1
        <4> QED
          BY <4>7, <4>8
      <3> QED
        BY <3>2, <3>3
    <2>10. CASE SaveFlag(e)
      <3>1. Live' = Live /\ \A q \in Rows : content'[q].image = content[q].image
        BY <1>1, <2>10 DEF SaveFlag, Live, Records
      <3>2. OnShow' = OnShow
        BY <3>1 DEF OnShow, Live
      <3> QED
        BY <2>4, <2>5, <2>7, <2>10, <3>2 DEF SaveFlag, Handles
    <2>11. CASE DeleteRow(e)
      <3>1. Handles(e, "delete") /\ stored = OnShow /\ old = content[r].image /\ stored' = stored
        BY <2>4, <2>11 DEF DeleteRow, Handles
      <3>2. CASE Hanging(r) # {}
        <4>1. content' = content /\ Finish(e)
          BY <2>11, <3>2 DEF DeleteRow
        <4>2. OnShow' = OnShow
          BY <4>1 DEF OnShow, Live
        <4> QED
          BY <2>5, <2>7, <3>1, <4>1, <4>2
      <3>3. CASE Hanging(r) = {}
        <4>1. /\ content' = [content EXCEPT ![r].state = "gone"]
              /\ IF old = Nothing THEN Finish(e) ELSE CleanUp(e)
          BY <2>11, <3>3 DEF DeleteRow
        <4>2. Live' = Live \ {r} /\ \A q \in Rows \ {r} : content'[q] = content[q]
          BY <1>1, <2>3, <4>1 DEF Live, Records
        <4>3. OnShow' = {content[q].image : q \in Live \ {r}} \ {Nothing}
          BY <4>2 DEF OnShow, Live
        <4>4. old \notin OnShow'
          BY <2>8, <3>1, <4>3 DEF Live
        <4>5. OnShow = ({content[q].image : q \in Live \ {r}} \cup {old}) \ {Nothing}
          <5>1. r \in Live
            BY <2>3, <2>4, <3>1 DEF EditsOK, Live, Handles
          <5> QED
            BY <3>1, <5>1 DEF OnShow
        <4>6. CASE old = Nothing
          BY <2>5, <2>7, <3>1, <4>1, <4>3, <4>5, <4>6
        <4>7. CASE old # Nothing
          BY <2>6, <3>1, <4>1, <4>3, <4>4, <4>5, <4>7
        <4> QED
          BY <4>6, <4>7
      <3> QED
        BY <3>2, <3>3
    <2>12. CASE EraseOld(e)
      <3>1. /\ Handles(e, "clean") /\ content' = content /\ stored' = stored \ {old}
            /\ Finish(e)
        BY <2>12 DEF EraseOld
      <3>2. stored = OnShow \cup {old} /\ old \notin OnShow
        BY <2>1, <3>1 DEF TurnsKept
      <3>3. OnShow' = OnShow
        BY <3>1 DEF OnShow, Live
      <3> QED
        BY <2>5, <2>7, <3>1, <3>2, <3>3
    <2> QED
      BY <1>3, <2>1, <2>9, <2>10, <2>11, <2>12
  <1> QED
    BY <1>2, <1>3, ContentCases
\* Addresses stay apart, and an item is hung below the top level only where
\* a save was late.
LEMMA ContentStepLevels ==
    ASSUME ContentTypeOK, EditsOK, TwoLevels, ContentNext
    PROVE  TwoLevels'
  <1>1. content \in [Rows -> Records] /\ editing \in [Editors -> Edits] /\ Live \subseteq Rows
    BY DEF ContentTypeOK, Records, EditsOK, Live
  <1>2. ASSUME content' = content, crossed' = crossed
        PROVE  TwoLevels'
    BY <1>2 DEF TwoLevels, Live
  <1>3. ASSUME NEW e \in Editors, NEW r \in Rows, NEW step \in {"save", "switch", "delete"},
               NEW new \in Records, Loads(e, r, step, new)
        PROVE  TwoLevels'
    BY <1>2, <1>3 DEF Loads, LoadRow
  <1>4. ASSUME NEW e \in Editors, Save(e)
        PROVE  TwoLevels'
    <2> DEFINE r == editing[e].row
               new == editing[e].new
    <2>1. r \in Rows /\ new \in Records /\ new.state = "live"
      BY <1>1, <1>4 DEF Save, EditsOK, Edits, Handles
    <2>2. CASE ~Fits(r, new)
      BY <1>2, <1>4, <2>2 DEF Save
    <2>3. CASE Fits(r, new)
      <3>1. /\ content' = [content EXCEPT ![r] = new]
            /\ crossed' = IF MayHang(r, new.parent) THEN crossed \ {r} ELSE crossed \cup {r}
        BY <1>4, <2>3 DEF Save
      <3>2. content'[r] = new /\ \A q \in Rows \ {r} : content'[q] = content[q]
        BY <1>1, <2>1, <3>1
      <3>3. Live' = Live \cup {r}
        BY <2>1, <3>2 DEF Live
      <3>4. /\ new.key # Nothing => \A q \in Live \ {r} : content[q].key # new.key
            /\ new.parent # Nothing => new.parent \in Live
        BY <2>3 DEF Fits
      <3> HIDE DEF r, new
      <3>5. ASSUME NEW q \in Live', content'[q].key # Nothing, NEW p \in Live' \ {q}
            PROVE  content'[p].key # content'[q].key
        <4>1. CASE q = r
          BY <1>1, <3>2, <3>3, <3>4, <3>5, <4>1
        <4>2. CASE p = r
          BY <1>1, <3>2, <3>3, <3>4, <3>5, <4>2
        <4>3. CASE q # r /\ p # r
          BY <1>1, <3>2, <3>3, <3>5, <4>3 DEF TwoLevels
        <4> QED
          BY <4>1, <4>2, <4>3
      <3>6. ASSUME NEW q \in Live', content'[q].parent # Nothing
            PROVE  content'[q].parent \in Live'
        BY <1>1, <3>2, <3>3, <3>4, <3>6 DEF TwoLevels
      <3>7. ASSUME NEW q \in Live', content'[q].parent # Nothing,
                   {q, content'[q].parent} \cap crossed' = {}
            PROVE  content'[content'[q].parent].parent = Nothing
        <4> DEFINE p == content'[q].parent
        <4>1. p \in Live' /\ p \in Rows /\ q \in Rows
          BY <1>1, <2>1, <3>3, <3>6, <3>7
        <4>2. CASE q = r
          <5>1. MayHang(r, p) /\ p = new.parent
            BY <3>1, <3>2, <3>7, <4>2
          <5>2. p # r /\ content[p].parent = Nothing
            BY <3>7, <5>1 DEF MayHang
          <5> QED
            BY <3>2, <4>1, <5>2
        <4>3. CASE q # r /\ p = r
          <5>1. q \in Hanging(r) /\ MayHang(r, new.parent)
            BY <3>1, <3>2, <3>3, <3>7, <4>1, <4>3 DEF Hanging
          <5>2. new.parent = Nothing
            BY <5>1 DEF MayHang
          <5> QED
            BY <3>2, <4>3, <5>2
        <4>4. CASE q # r /\ p # r
          <5>1. /\ q \in Live /\ content[q].parent = p /\ content'[p] = content[p]
                /\ {q, p} \cap crossed = {}
            BY <3>1, <3>2, <3>3, <3>7, <4>1, <4>4
          <5> QED
            BY <3>7, <5>1 DEF TwoLevels
        <4> QED
          BY <4>2, <4>3, <4>4
      <3> QED
        BY <3>5, <3>6, <3>7 DEF TwoLevels
    <2> QED
      BY <2>2, <2>3
  <1>5. ASSUME NEW e \in Editors, SaveFlag(e)
        PROVE  TwoLevels'
    <2>1. \A r \in Rows : /\ content'[r].state = content[r].state
                         /\ content'[r].key = content[r].key
                         /\ content'[r].parent = content[r].parent
      BY <1>1, <1>5 DEF SaveFlag, Records
    <2>2. Live' = Live /\ crossed' = crossed
      BY <1>5, <2>1 DEF Live, SaveFlag
    <2> QED
      BY <1>1, <2>1, <2>2 DEF TwoLevels
  <1>6. ASSUME NEW e \in Editors, DeleteRow(e)
        PROVE  TwoLevels'
    <2> DEFINE r == editing[e].row
    <2>1. r \in Rows /\ crossed' = crossed
      BY <1>6 DEF DeleteRow, EditsOK, Handles
    <2>2. CASE Hanging(r) # {}
      BY <1>2, <1>6, <2>2 DEF DeleteRow
    <2>3. CASE Hanging(r) = {}
      <3>1. content' = [content EXCEPT ![r].state = "gone"]
        BY <1>6, <2>3 DEF DeleteRow
      <3>2. Live' = Live \ {r} /\ \A q \in Rows : /\ content'[q].key = content[q].key
                                              /\ content'[q].parent = content[q].parent
        BY <1>1, <2>1, <3>1 DEF Live, Records
      <3>3. \A q \in Live : content[q].parent # r
        BY <2>3 DEF Hanging
      <3> QED
        BY <1>1, <2>1, <3>2, <3>3 DEF TwoLevels
    <2> QED
      BY <2>2, <2>3
  <1>7. ASSUME NEW e \in Editors, EraseOld(e) \/ Kill(e)
        PROVE  TwoLevels'
    BY <1>2, <1>7 DEF EraseOld, Kill
  <1> QED
    BY <1>3, <1>4, <1>5, <1>6, <1>7, ContentCases

\* A badge that was not saved late has its picture; staff who take turns
\* leave no file behind; addresses are unique, and items hang two levels deep
\* but for late saves (the forms, switches and deletions of content rows).
THEOREM ContentIsSound == ContentSpec => []ContentSound
  <1>1. ContentInv /\ UNCHANGED contentVars => ContentInv'
    <2> SUFFICES ASSUME ContentInv, UNCHANGED contentVars PROVE ContentInv'
      OBVIOUS
    <2>1. Live' = Live /\ OnShow' = OnShow /\ \A r, i : Holds(r, i)' <=> Holds(r, i)
      BY DEF contentVars, Live, OnShow, Holds
    <2>2. ContentTypeOK' /\ EditsOK'
      BY DEF contentVars, ContentInv, ContentTypeOK, EditsOK, Handles
    <2>3. ImagesOwned' /\ UploadsAreNew'
      BY <2>1 DEF contentVars, ContentInv, ImagesOwned, UploadsAreNew, Handles
    <2>4. ShownWithPicture' /\ CleanUpsDue' /\ TurnsKept' /\ TwoLevels'
      BY <2>1 DEF contentVars, ContentInv, ShownWithPicture, CleanUpsDue, TurnsKept, TwoLevels, Handles
    <2> QED
      BY <2>2, <2>3, <2>4 DEF ContentInv
  <1>2. ContentInv /\ [ContentNext]_contentVars => ContentInv'
    BY <1>1, ContentStepTypes, ContentStepImages, ContentStepPictures, ContentStepTurns,
       ContentStepLevels DEF ContentInv
  <1>3. ContentInv => ContentSound
    <2> SUFFICES ASSUME ContentInv, alone, \A e \in Editors : Handles(e, "none")
                 PROVE  stored = OnShow
      BY DEF ContentInv, ContentSound, NoLitter, OnShow
    <2> QED
      BY DEF ContentInv, TurnsKept, Handles
  <1> QED
    BY <1>2, <1>3, ContentInitial, PTL DEF ContentSpec
----------------------------------------------------------------------------
(* Slides and banners.                                                     *)

PlacementRecords == [at : Places \cup {"none", "gone"}, file : MediaFiles \cup {NoMedia},
                     asset : Assets \cup {NoMedia}]
Handlings == [step : {"none", "save", "erase", "sync", "delete", "check", "drop"},
              row : Placements \cup {NoMedia}, seen : PlacementRecords,
              new : MediaFiles \cup {NoMedia}, own : BOOLEAN]

\* The file that a request uploads.
Uploading(d) == handling[d].step \in {"save", "erase", "sync"}
                    /\ handling[d].new \notin {NoMedia, handling[d].seen.file}

MediaTyped ==
    /\ placement \in [Placements -> PlacementRecords]
    /\ handling \in [Designers -> Handlings]
    /\ uploaded \subseteq MediaFiles /\ snapshot \subseteq PlacementRecords
    /\ \A s \in snapshot : s.at \in Places
    /\ \A s \in snapshot : s.file \in uploaded \cup {NoMedia}
    /\ \A r \in Placements : placement[r].at = "none" => placement[r] = NoPlacement

\* What is known of a request that is at a step.
StepsOK ==
    \A d \in Designers :
        LET h == handling[d]
        IN  /\ h.step = "none" => h = Quiet
            /\ h.step # "none" => h.row \in Placements /\ h.seen.at \in Places
            /\ h.step = "save" => h.new # NoMedia
            /\ h.step = "save" /\ placement[h.row].at = "none" => h.seen.file = NoMedia
            /\ h.step = "erase" => h.seen.file # NoMedia
            /\ h.step = "erase" /\ h.new # NoMedia => h.new # h.seen.file
            /\ h.step = "sync" => h.new \notin {NoMedia, h.seen.file}
            /\ h.step = "delete" => h.new = NoMedia

\* A file belongs to the one placement it was uploaded for, unless an undo
\* made the placement again.
Owns(r, f) ==
    \/ placement[r].file = f
    \/ \E d \in Designers : handling[d].row = r /\ f \in {handling[d].seen.file, handling[d].new}
FilesOwned ==
    \A r \in Placements, f \in MediaFiles : Owns(r, f) =>
        f \in uploaded /\ (f \in exposed \/ \A q \in Placements : Owns(q, f) => q = r)

\* Before it is saved, the form alone knows it.
FilesAreNew ==
    \A d \in Designers :
        LET h == handling[d]
        IN  h.step = "save" /\ h.new # h.seen.file =>
                /\ \A r \in Placements : placement[r].file # h.new
                /\ \A s \in snapshot : s.file # h.new
                /\ \A g \in Designers \ {d} : h.new \notin {handling[g].seen.file, handling[g].new}

\* Assets have a file each, which nothing but an erasure by name takes.
AssetsApart ==
    /\ \A a \in DOMAIN assetFile : assetFile[a] \in uploaded \cap (onDisk \cup byName)
    /\ \A a, b \in DOMAIN assetFile : assetFile[a] = assetFile[b] => a = b
    /\ \A d \in Designers : Uploading(d) =>
           /\ \A a \in DOMAIN assetFile : assetFile[a] # handling[d].new
           /\ \A g \in Designers \ {d} : Uploading(g) => handling[g].new # handling[d].new
           /\ handling[d].step # "save" => handling[d].new \in onDisk \cup byName

\* The file that is to be erased is not what the placement shows, and the
\* file of an asset is shown by the placements of this asset only.
ErasuresDue ==
    \A d \in Designers :
        LET h == handling[d]
        IN  h.step = "erase" /\ h.row \in Kept \ lateSaves =>
                placement[h.row].file # h.seen.file \/ h.seen.file \in exposed
ShowsItsAsset ==
    \A r \in Kept \ lateSaves, a \in DOMAIN assetFile :
        placement[r].file = assetFile[a] => placement[r].asset = a \/ assetFile[a] \in exposed

MediaInv ==
    /\ MediaTypeOK /\ MediaTyped /\ StepsOK
    /\ FilesOwned /\ FilesAreNew /\ AssetsApart
    /\ ErasuresDue /\ ShowsItsAsset
    /\ AssetsExist /\ ShownExists

\* The initial states satisfy the invariant.
LEMMA MediaInitial == MediaInit => MediaInv
  <1> SUFFICES ASSUME MediaInit PROVE MediaInv
    OBVIOUS
  <1> USE MediaAssumption
  <1>1. NoPlacement \in PlacementRecords /\ Quiet \in Handlings
    BY DEF NoPlacement, PlacementRecords, Quiet, Handlings
  <1>2. Kept = {} /\ DOMAIN assetFile = {}
    BY DEF MediaInit, Kept, NoPlacement, Places
  <1>3. MediaTypeOK /\ MediaTyped
    BY <1>1, <1>2 DEF MediaInit, MediaTypeOK, MediaTyped, PlacementRecords
  <1>4. StepsOK /\ ErasuresDue
    BY DEF MediaInit, StepsOK, ErasuresDue, Quiet
  <1>5. FilesOwned /\ FilesAreNew
    BY DEF MediaInit, FilesOwned, FilesAreNew, Owns, Quiet, NoPlacement
  <1>6. AssetsApart /\ ShowsItsAsset /\ AssetsExist /\ ShownExists
    BY <1>2 DEF MediaInit, AssetsApart, Uploading, Quiet, ShowsItsAsset, AssetsExist, ShownExists
  <1> QED
    BY <1>3, <1>4, <1>5, <1>6 DEF MediaInv

\* What a request has loaded: a placement that exists, or a new one that no
\* other request inserts.
Opens(d, r, step, seen, new, own) ==
    /\ Begins(d, step, r, seen, new, own)
    /\ seen \in PlacementRecords /\ seen.at \in Places
    /\ \/ r \in Kept /\ seen = placement[r]
       \/ /\ r \in FreeRows /\ step = "save" /\ seen.file = NoMedia
          /\ \A g \in Designers : handling[g].row # r
    /\ \/ step = "delete" /\ new = NoMedia /\ uploaded' = uploaded
       \/ step = "save" /\ new = seen.file /\ new # NoMedia /\ uploaded' = uploaded
       \/ step = "save" /\ new \in MediaFiles \ uploaded /\ uploaded' = uploaded \cup {new}

\* The steps of a request, and those of a whole section or version.
LEMMA MediaCases ==
    ASSUME MediaTyped, MediaNext
    PROVE  \/ \E d \in Designers, r \in Placements, step \in {"save", "delete"},
                 seen \in PlacementRecords, new \in MediaFiles \cup {NoMedia}, own \in BOOLEAN :
                  Opens(d, r, step, seen, new, own)
           \/ \E d \in Designers : SavePlacement(d) \/ EraseFile(d) \/ SyncAsset(d)
                  \/ RemovePlacement(d) \/ CheckAsset(d) \/ DropAsset(d) \/ KillRequest(d)
           \/ DuplicateSection \/ PublishAndReopen \/ RemoveSection \/ UndoChange
  <1>1. placement \in [Placements -> PlacementRecords] /\ uploaded \subseteq MediaFiles
    BY DEF MediaTyped
  <1>2. ASSUME NEW d \in Designers, NEW r \in Placements, NEW version \in {"home", "draft"},
               NEW own \in BOOLEAN, FormFor(d, r, version, own)
        PROVE  \E seen \in PlacementRecords, new \in MediaFiles \cup {NoMedia} :
                   Opens(d, r, "save", seen, new, own)
    <2>1. PICK f \in MediaFiles :
              \/ /\ r \in Kept /\ NewPicture(placement[r].file, f)
                 /\ Begins(d, "save", r, placement[r], f, own)
              \/ /\ NewRow(r) /\ NewPicture(NoMedia, f)
                 /\ Begins(d, "save", r, [NoPlacement EXCEPT !.at = version], f, own)
      BY <1>2 DEF FormFor
    <2>2. CASE /\ r \in Kept /\ NewPicture(placement[r].file, f)
               /\ Begins(d, "save", r, placement[r], f, own)
      <3>1. placement[r] \in PlacementRecords /\ placement[r].at \in Places
        BY <1>1, <2>2 DEF Kept
      <3> QED
        BY <2>2, <3>1, MediaAssumption DEF Opens, NewPicture, NextUp
    <2>3. CASE /\ NewRow(r) /\ NewPicture(NoMedia, f)
               /\ Begins(d, "save", r, [NoPlacement EXCEPT !.at = version], f, own)
      <3> DEFINE seen == [NoPlacement EXCEPT !.at = version]
      <3>1. seen \in PlacementRecords /\ seen.at \in Places /\ seen.file = NoMedia
        BY DEF NoPlacement, PlacementRecords, Places
      <3>2. Begins(d, "save", r, seen, f, own)
        BY <2>3
      <3> HIDE DEF seen
      <3> QED
        BY <2>3, <3>1, <3>2 DEF Opens, NewPicture, NextUp, NewRow
    <2> QED
      BY <2>1, <2>2, <2>3
  <1>3. ASSUME NEW d \in Designers, NEW r \in Kept, NEW own \in BOOLEAN, uploaded' = uploaded,
               Begins(d, "delete", r, placement[r], NoMedia, own)
        PROVE  Opens(d, r, "delete", placement[r], NoMedia, own) /\ placement[r] \in PlacementRecords
    BY <1>1, <1>3 DEF Opens, Kept
  <1>4. Draft \subseteq Kept /\ Kept \subseteq Placements
    BY DEF Draft, Kept
  <1> QED
    BY <1>2, <1>3, <1>4
       DEF MediaNext, SectionMediaForm, HeroForm, SectionMediaDelete, HeroDelete

\* A request goes on to a step, with what it has loaded, or ends.
Proceeds(d, step) ==
    /\ handling' \in [Designers -> Handlings]
    /\ \A g \in Designers \ {d} : handling'[g] = handling[g]
    /\ \/ step = "none" /\ handling'[d] = Quiet
       \/ /\ step # "none" /\ handling'[d].step = step
          /\ handling'[d].row = handling[d].row /\ handling'[d].seen = handling[d].seen
          /\ handling'[d].new = handling[d].new

LEMMA MediaProceeds ==
    ASSUME MediaTyped, NEW d \in Designers,
           NEW step \in {"none", "erase", "sync", "check", "drop"}, Goto(d, step)
    PROVE  Proceeds(d, step)
  <1>1. handling \in [Designers -> Handlings] /\ Quiet \in Handlings
    BY DEF MediaTyped, Quiet, Handlings, NoPlacement, PlacementRecords
  <1>2. CASE step = "none"
    <2>1. handling' = [handling EXCEPT ![d] = Quiet]
      BY <1>2 DEF Goto
    <2> QED
      BY <1>1, <1>2, <2>1 DEF Proceeds
  <1>3. CASE step # "none"
    <2>1. handling' = [handling EXCEPT ![d] = [handling[d] EXCEPT !.step = step]]
      BY <1>1, <1>3 DEF Goto
    <2>2. [handling[d] EXCEPT !.step = step] \in Handlings
      BY <1>1 DEF Handlings
    <2>3. handling' \in [Designers -> Handlings]
      BY <1>1, <2>1, <2>2
    <2>4. handling'[d] = [handling[d] EXCEPT !.step = step]
      BY <1>1, <2>1
    <2>5. /\ handling'[d].step = step
          /\ handling'[d].row = handling[d].row /\ handling'[d].seen = handling[d].seen
          /\ handling'[d].new = handling[d].new
      BY <1>1, <2>4 DEF Handlings
    <2>6. \A g \in Designers \ {d} : handling'[g] = handling[g]
      BY <1>1, <2>1
    <2> QED
      BY <1>3, <2>3, <2>5, <2>6 DEF Proceeds
  <1> QED
    BY <1>2, <1>3

\* What a step of a request may do to the requests and to the placements:
\* only a form gives its placement another file.
Writes(d) ==
    /\ handling[d].step # "none"
    /\ handling' \in [Designers -> Handlings]
    /\ \A g \in Designers \ {d} : handling'[g] = handling[g]
    /\ \/ handling'[d] = Quiet
       \/ /\ handling'[d].step \in {"erase", "sync", "check", "drop"}
          /\ handling'[d].row = handling[d].row /\ handling'[d].seen = handling[d].seen
          /\ handling'[d].new = handling[d].new
          /\ handling'[d].step \in {"erase", "sync"} =>
                 \/ handling[d].step \in {"save", "erase"} /\ handling[d].new # handling[d].seen.file
                 \/ handling'[d].step = "erase" /\ handling[d].step = "delete"
          /\ handling'[d].step = "erase" => handling[d].seen.file # NoMedia
          /\ handling'[d].step = "sync" => handling[d].new # NoMedia
    /\ uploaded' = uploaded /\ exposed' = exposed /\ snapshot' = snapshot
    /\ lateSaves \subseteq lateSaves'
    /\ placement' \in [Placements -> PlacementRecords]
    /\ \A r \in Placements : placement'[r].at = "none" => placement'[r] = placement[r]
    /\ \A r \in Placements :
           \/ placement'[r].file = placement[r].file
           \/ handling[d].step = "save" /\ r = handling[d].row /\ placement'[r].file = handling[d].new

LEMMA MediaWrites ==
    ASSUME MediaTyped, StepsOK, NEW d \in Designers,
           SavePlacement(d) \/ EraseFile(d) \/ SyncAsset(d) \/ RemovePlacement(d)
               \/ CheckAsset(d) \/ DropAsset(d) \/ KillRequest(d)
    PROVE  Writes(d)
  <1> DEFINE h == handling[d]
  <1>1. /\ placement \in [Placements -> PlacementRecords] /\ handling \in [Designers -> Handlings]
        /\ h \in Handlings /\ h.seen \in PlacementRecords
    BY DEF MediaTyped, Handlings
  <1>2. h.step # "none" => h.row \in Placements /\ h.seen.at \in Places /\ h # Quiet
    BY DEF StepsOK, Quiet
  \* A step that leaves the placements alone.
  <1>3. ASSUME placement' = placement, uploaded' = uploaded, exposed' = exposed,
               snapshot' = snapshot, lateSaves \subseteq lateSaves', h.step # "none",
               NEW step \in {"none", "erase", "sync", "check", "drop"}, Goto(d, step),
               step = "sync" => h.step = "erase" /\ h.new # NoMedia,
               step # "erase"
        PROVE  Writes(d)
    <2>1. Proceeds(d, step)
      BY <1>3, MediaProceeds
    <2>2. step = "sync" => h.new # h.seen.file
      BY <1>3 DEF StepsOK
    <2> QED
      BY <1>1, <1>3, <2>1, <2>2 DEF Writes, Proceeds
  <1>4. CASE SavePlacement(d)
    <2>1. /\ h.step = "save" /\ h.row \in Placements /\ h.seen.at \in Places
          /\ h.new \in MediaFiles /\ h.new # NoMedia
          /\ uploaded' = uploaded /\ exposed' = exposed /\ snapshot' = snapshot
      BY <1>1, <1>2, <1>4 DEF SavePlacement, StepsOK, Handlings
    <2>2. CASE h.seen.asset \in DOMAIN assetFile \cup {NoMedia}
      <3> DEFINE w == [h.seen EXCEPT !.file = h.new]
      <3>1. /\ placement' = [placement EXCEPT ![h.row] = w] /\ Goto(d, AfterSave(h))
            /\ lateSaves \subseteq lateSaves'
        BY <1>4, <2>2 DEF SavePlacement
      <3>2. w \in PlacementRecords /\ w.file = h.new /\ w.at = h.seen.at
        BY <1>1, <2>1 DEF PlacementRecords
      <3> HIDE DEF w
      <3>3. /\ placement' \in [Placements -> PlacementRecords] /\ placement'[h.row] = w
            /\ \A r \in Placements \ {h.row} : placement'[r] = placement[r]
        BY <1>1, <2>1, <3>1, <3>2
      <3>4. w.at # "none"
        BY <2>1, <3>2 DEF Places
      <3>5. /\ AfterSave(h) \in {"none", "erase", "sync"}
            /\ AfterSave(h) # "none" => h.new # h.seen.file
            /\ AfterSave(h) = "erase" => h.seen.file # NoMedia
        BY DEF AfterSave
      <3>6. Proceeds(d, AfterSave(h))
        BY <3>1, <3>5, MediaProceeds
      <3>7. \A r \in Placements : placement'[r].at = "none" => placement'[r] = placement[r]
        BY <3>3, <3>4
      <3>8. \A r \in Placements : \/ placement'[r].file = placement[r].file
                                 \/ (r = h.row /\ placement'[r].file = h.new)
        BY <3>2, <3>3
      <3>9. \/ handling'[d] = Quiet
            \/ /\ handling'[d].step \in {"erase", "sync"}
               /\ handling'[d].row = h.row /\ handling'[d].seen = h.seen /\ handling'[d].new = h.new
               /\ h.new # h.seen.file
               /\ handling'[d].step = "erase" => h.seen.file # NoMedia
        BY <3>5, <3>6 DEF Proceeds
      <3> QED
        BY <2>1, <3>1, <3>3, <3>6, <3>7, <3>8, <3>9 DEF Writes, Proceeds
    <2>3. CASE h.seen.asset \notin DOMAIN assetFile \cup {NoMedia}
      BY <1>3, <1>4, <2>1, <2>3 DEF SavePlacement
    <2> QED
      BY <2>2, <2>3
  <1>5. CASE EraseFile(d)
    BY <1>3, <1>5 DEF EraseFile, RowsKept
  <1>6. CASE SyncAsset(d)
    <2>1. PICK a \in Assets :
              /\ h.step = "sync" /\ Goto(d, "none")
              /\ placement' = IF h.row \in Kept THEN [placement EXCEPT ![h.row].asset = a] ELSE placement
              /\ lateSaves \subseteq lateSaves'
              /\ uploaded' = uploaded /\ exposed' = exposed /\ snapshot' = snapshot
      BY <1>6 DEF SyncAsset
    <2>2. Proceeds(d, "none")
      BY <2>1, MediaProceeds
    <2>3. /\ placement' \in [Placements -> PlacementRecords]
          /\ \A r \in Placements : placement'[r].file = placement[r].file
          /\ \A r \in Placements : placement'[r].at = "none" => placement'[r] = placement[r]
      <3>1. CASE h.row \in Kept
        <4> DEFINE w == [placement[h.row] EXCEPT !.asset = a]
        <4>1. h.row \in Placements /\ placement' = [placement EXCEPT ![h.row] = w]
          BY <1>1, <2>1, <3>1 DEF Kept
        <4>2. w \in PlacementRecords /\ w.file = placement[h.row].file /\ w.at # "none"
          BY <1>1, <3>1, <4>1 DEF PlacementRecords, Kept, Places
        <4> HIDE DEF w
        <4> QED
          BY <1>1, <4>1, <4>2
      <3>2. CASE h.row \notin Kept
        BY <1>1, <2>1, <3>2
      <3> QED
        BY <3>1, <3>2
    <2> QED
      BY <1>1, <2>1, <2>2, <2>3 DEF Writes, Proceeds
  <1>7. CASE RemovePlacement(d)
    <2> DEFINE step == IF h.own /\ h.seen.asset # NoMedia THEN "check"
                       ELSE IF h.seen.file # NoMedia THEN "erase" ELSE "none"
    <2>1. /\ h.step = "delete" /\ h.row \in Placements
          /\ placement' = [placement EXCEPT ![h.row].at = "gone", ![h.row].asset = NoMedia]
          /\ Goto(d, step)
          /\ uploaded' = uploaded /\ exposed' = exposed /\ snapshot' = snapshot
          /\ lateSaves' = lateSaves
      BY <1>2, <1>7 DEF RemovePlacement
    <2>2. /\ step \in {"none", "erase", "check"}
          /\ step = "erase" => h.seen.file # NoMedia
      OBVIOUS
    <2> HIDE DEF step
    <2>3. Proceeds(d, step)
      BY <2>1, <2>2, MediaProceeds
    <2> DEFINE w == [placement[h.row] EXCEPT !.at = "gone", !.asset = NoMedia]
    <2>4. placement' = [placement EXCEPT ![h.row] = w]
      BY <1>1, <2>1
    <2>5. w \in PlacementRecords /\ w.file = placement[h.row].file /\ w.at = "gone"
      BY <1>1, <2>1 DEF PlacementRecords
    <2> HIDE DEF w
    <2>6. /\ placement' \in [Placements -> PlacementRecords]
          /\ \A r \in Placements : placement'[r].file = placement[r].file
          /\ \A r \in Placements : placement'[r].at = "none" => placement'[r] = placement[r]
      BY <1>1, <2>1, <2>4, <2>5
    <2> QED
      BY <2>1, <2>2, <2>3, <2>6 DEF Writes, Proceeds
  <1>8. CASE CheckAsset(d)
    BY <1>3, <1>8 DEF CheckAsset, RowsKept
  <1>9. CASE DropAsset(d)
    BY <1>3, <1>9 DEF DropAsset, RowsKept
  <1>10. CASE KillRequest(d)
    BY <1>3, <1>10 DEF KillRequest, RowsKept
  <1> QED
    BY <1>4, <1>5, <1>6, <1>7, <1>8, <1>9, <1>10

\* What a step on a whole section or version may do: new rows, which no
\* request has, name no file that an undo did not bring back; other rows keep
\* what they name, or are deleted.
Carries ==
    /\ handling' = handling /\ uploaded' = uploaded /\ lateSaves' = lateSaves /\ DiskKept
    /\ exposed \subseteq exposed'
    /\ placement' \in [Placements -> PlacementRecords]
    /\ \A r \in Placements : placement'[r].at = "none" => placement'[r] = placement[r]
    /\ \A r \in Placements :
           \/ /\ \A d \in Designers : handling[d].row # r
              /\ \/ placement'[r].file = NoMedia
                 \/ placement'[r].file \in exposed' \cap {s.file : s \in snapshot}
              /\ placement'[r].asset \in DOMAIN assetFile \cup {NoMedia}
           \/ /\ placement'[r].file = placement[r].file
              /\ placement'[r].asset = placement[r].asset
              /\ placement'[r].at \in Places => placement[r].at \in Places
           \/ /\ placement'[r].at = "gone"
              /\ placement'[r].file \in {placement[r].file, NoMedia}
    /\ snapshot' \subseteq PlacementRecords
    /\ \A s \in snapshot' : s.at \in Places /\ \E r \in Placements : s.file = placement[r].file

LEMMA MediaCarries ==
    ASSUME MediaTyped, FilesOwned, AssetsExist,
           DuplicateSection \/ PublishAndReopen \/ RemoveSection \/ UndoChange
    PROVE  Carries
  <1>1. /\ placement \in [Placements -> PlacementRecords] /\ snapshot \subseteq PlacementRecords
        /\ \A s \in snapshot : s.at \in Places /\ s.file \in uploaded \cup {NoMedia}
        /\ \A r \in Placements : placement[r].at = "none" => placement[r] = NoPlacement
    BY DEF MediaTyped
  <1>2. /\ Draft \subseteq Kept /\ Kept \subseteq Placements /\ FreeRows \subseteq Placements
        /\ \A n : Lowest(n) \subseteq FreeRows
        /\ Copyable(Draft) \subseteq Draft
        /\ \A r \in FreeRows : placement[r].at = "none"
        /\ \A r \in Draft : placement[r].at = "draft"
        /\ \A r \in Copyable(Draft) : placement[r].asset # NoMedia
    BY DEF Draft, Kept, FreeRows, Lowest, Copyable
  <1>3. /\ Recorded \subseteq PlacementRecords
        /\ \A s \in Recorded : s.at \in Places /\ \E r \in Placements : s.file = placement[r].file
    BY <1>1, <1>2 DEF Recorded, Kept
  <1>4. ASSUME NEW n, NEW p \in Clones(Copyable(Draft), Lowest(n)), NEW q \in DOMAIN p
        PROVE  /\ DOMAIN p \subseteq FreeRows
               /\ p[q] \in PlacementRecords /\ p[q].at = "draft" /\ p[q].file = NoMedia
               /\ p[q].asset \in DOMAIN assetFile \cup {NoMedia}
    <2>1. p \in [Lowest(n) -> {[placement[r] EXCEPT !.at = "draft", !.file = NoMedia] : r \in Copyable(Draft)}]
      BY <1>4 DEF Clones
    <2>2. PICK r \in Copyable(Draft) : p[q] = [placement[r] EXCEPT !.at = "draft", !.file = NoMedia]
      BY <2>1
    <2>3. placement[r] \in PlacementRecords /\ r \in Kept
      BY <1>1, <1>2
    <2>4. /\ p[q] \in PlacementRecords /\ p[q].at = "draft" /\ p[q].file = NoMedia
          /\ p[q].asset = placement[r].asset
      BY <2>2, <2>3 DEF PlacementRecords, Places
    <2> QED
      BY <1>2, <2>1, <2>3, <2>4 DEF AssetsExist
  <1>5. ASSUME NEW n, RoomFor(n), NEW r \in FreeRows PROVE \A d \in Designers : handling[d].row # r
    BY <1>5 DEF RoomFor
  <1>6. CASE DuplicateSection
    <2>1. RoomFor(Cardinality(Copyable(Draft)))
      BY <1>6 DEF DuplicateSection
    <2>2. PICK p \in Clones(Copyable(Draft), Lowest(Cardinality(Copyable(Draft)))) :
              placement' = [r \in Placements |-> IF r \in DOMAIN p THEN p[r] ELSE placement[r]]
      BY <1>6 DEF DuplicateSection
    <2>3. snapshot' = Recorded /\ exposed' = exposed /\ lateSaves' = lateSaves /\ Elsewhere
      BY <1>6 DEF DuplicateSection
    <2>4. \A q \in DOMAIN p : /\ q \in FreeRows /\ p[q] \in PlacementRecords
                             /\ p[q].at = "draft" /\ p[q].file = NoMedia
                             /\ p[q].asset \in DOMAIN assetFile \cup {NoMedia}
      BY <1>4
    <2>5. placement' \in [Placements -> PlacementRecords]
      BY <1>1, <2>2, <2>4
    <2>6. \A r \in Placements : placement'[r] = IF r \in DOMAIN p THEN p[r] ELSE placement[r]
      BY <2>2
    <2> QED
      BY <1>3, <1>5, <2>1, <2>3, <2>4, <2>5, <2>6 DEF Carries, Elsewhere
  <1>7. CASE PublishAndReopen
    <2> DEFINE onwards(v) == CASE v = "draft" -> "published" [] v = "published" -> "archived"
                               [] OTHER -> v
    <2>1. RoomFor(Cardinality(Copyable(Draft)))
      BY <1>7 DEF PublishAndReopen
    <2>2. PICK p \in Clones(Copyable(Draft), Lowest(Cardinality(Copyable(Draft)))) :
              placement' = [r \in Placements |-> IF r \in DOMAIN p THEN p[r]
                                ELSE [placement[r] EXCEPT !.at = onwards(@)]]
      BY <1>7 DEF PublishAndReopen
    <2>3. snapshot' = {} /\ exposed' = exposed /\ lateSaves' = lateSaves /\ Elsewhere
      BY <1>7 DEF PublishAndReopen
    <2>4. \A q \in DOMAIN p : /\ q \in FreeRows /\ p[q] \in PlacementRecords
                             /\ p[q].at = "draft" /\ p[q].file = NoMedia
                             /\ p[q].asset \in DOMAIN assetFile \cup {NoMedia}
      BY <1>4
    <2>5. \A v \in Places \cup {"none", "gone"} :
              /\ onwards(v) \in Places \cup {"none", "gone"}
              /\ onwards(v) \in Places => v \in Places
              /\ onwards(v) = "none" => v = "none"
      BY DEF Places
    <2>6. ASSUME NEW r \in Placements, r \notin DOMAIN p
          PROVE  /\ placement'[r] \in PlacementRecords
                 /\ placement'[r].at = onwards(placement[r].at)
                 /\ placement'[r].file = placement[r].file
                 /\ placement'[r].asset = placement[r].asset
                 /\ placement[r].at \in Places \cup {"none", "gone"}
      <3>1. placement[r] \in PlacementRecords /\ placement[r].at \in Places \cup {"none", "gone"}
        BY <1>1 DEF PlacementRecords
      <3>2. placement'[r] = [placement[r] EXCEPT !.at = onwards(placement[r].at)]
        BY <2>2, <2>6
      <3>3. onwards(placement[r].at) \in Places \cup {"none", "gone"}
        BY <2>5, <3>1
      <3> HIDE DEF onwards
      <3> QED
        BY <3>1, <3>2, <3>3 DEF PlacementRecords
    <2>7. \A r \in DOMAIN p : r \in Placements /\ placement'[r] = p[r]
      BY <1>2, <2>2, <2>4
    <2>8. placement' \in [Placements -> PlacementRecords]
      <3>1. \A r \in Placements : placement'[r] \in PlacementRecords
        BY <2>4, <2>6, <2>7
      <3> QED
        BY <2>2, <3>1
    <2> HIDE DEF onwards
    <2>9. \A r \in Placements : placement'[r].at = "none" => placement'[r] = placement[r]
      <3> SUFFICES ASSUME NEW r \in Placements, placement'[r].at = "none"
                   PROVE  placement'[r] = placement[r]
        OBVIOUS
      <3>1. r \notin DOMAIN p
        BY <2>4, <2>7
      <3>2. placement'[r].at = placement[r].at
        BY <2>5, <2>6, <3>1
      <3> QED
        BY <1>1, <2>6, <2>8, <3>1, <3>2 DEF PlacementRecords
    <2>10. \A r \in Placements \ DOMAIN p :
              /\ placement'[r].file = placement[r].file
              /\ placement'[r].asset = placement[r].asset
              /\ placement'[r].at \in Places => placement[r].at \in Places
      BY <2>5, <2>6
    <2> QED
      BY <1>5, <2>1, <2>3, <2>4, <2>7, <2>8, <2>9, <2>10 DEF Carries, Elsewhere
  <1>8. CASE RemoveSection
    <2>1. /\ placement' = [r \in Placements |->
                              IF r \in Draft THEN [placement[r] EXCEPT !.at = "gone", !.asset = NoMedia]
                              ELSE placement[r]]
          /\ snapshot' = Recorded /\ exposed' = exposed /\ lateSaves' = lateSaves /\ Elsewhere
      BY <1>8 DEF RemoveSection
    <2>2. ASSUME NEW r \in Draft
          PROVE  /\ placement'[r] \in PlacementRecords /\ placement'[r].at = "gone"
                 /\ placement'[r].file = placement[r].file
      <3>1. placement'[r] = [placement[r] EXCEPT !.at = "gone", !.asset = NoMedia]
        BY <1>2, <2>1
      <3>2. placement[r] \in PlacementRecords
        BY <1>1, <1>2
      <3> QED
        BY <3>1, <3>2 DEF PlacementRecords
    <2>3. \A r \in Placements \ Draft : placement'[r] = placement[r]
      BY <2>1
    <2>4. placement' \in [Placements -> PlacementRecords]
      <3>1. \A r \in Placements : placement'[r] \in PlacementRecords
        BY <1>1, <2>2, <2>3
      <3> QED
        BY <2>1, <3>1
    <2> QED
      BY <1>3, <2>1, <2>2, <2>3, <2>4 DEF Carries, Elsewhere
  <1>9. CASE UndoChange
    <2>1. /\ RoomFor(Cardinality(snapshot))
          /\ \A s \in snapshot : s.asset \in DOMAIN assetFile \cup {NoMedia}
          /\ exposed' = exposed \cup {s.file : s \in snapshot}
          /\ snapshot' = {} /\ lateSaves' = lateSaves /\ Elsewhere
      BY <1>9 DEF UndoChange
    <2>2. PICK p \in [Lowest(Cardinality(snapshot)) -> snapshot] :
              placement' = [r \in Placements |-> IF r \in DOMAIN p THEN p[r]
                                ELSE IF r \in Draft THEN [NoPlacement EXCEPT !.at = "gone"]
                                ELSE placement[r]]
      BY <1>9 DEF UndoChange
    <2>3. \A r \in DOMAIN p : r \in FreeRows /\ p[r] \in snapshot
      BY <1>2, <2>2
    <2> DEFINE w == [NoPlacement EXCEPT !.at = "gone"]
    <2>5. w \in PlacementRecords /\ w.at = "gone" /\ w.file = NoMedia
      BY DEF NoPlacement, PlacementRecords
    <2>6. \A r \in Placements : placement'[r] = IF r \in DOMAIN p THEN p[r]
                                               ELSE IF r \in Draft THEN w ELSE placement[r]
      BY <2>2
    <2> HIDE DEF w
    <2>7. placement' \in [Placements -> PlacementRecords]
      <3>1. \A r \in Placements : placement'[r] \in PlacementRecords
        BY <1>1, <2>3, <2>5, <2>6
      <3> QED
        BY <2>2, <3>1
    <2>8. \A r \in DOMAIN p : /\ r \in FreeRows /\ p[r] \in snapshot /\ p[r].at # "none"
                             /\ p[r].file \in exposed' \cap {s.file : s \in snapshot}
                             /\ p[r].asset \in DOMAIN assetFile \cup {NoMedia}
      BY <1>1, <2>1, <2>3 DEF Places
    <2> QED
      BY <1>5, <2>1, <2>5, <2>6, <2>7, <2>8 DEF Carries, Elsewhere
  <1> QED
    BY <1>6, <1>7, <1>8, <1>9

\* Types, and what is known of a request, are kept.
LEMMA MediaStepTypes ==
    ASSUME MediaTypeOK, MediaTyped, StepsOK, FilesOwned, AssetsExist, MediaNext
    PROVE  MediaTypeOK' /\ MediaTyped' /\ StepsOK'
  <1>1. /\ placement \in [Placements -> PlacementRecords] /\ handling \in [Designers -> Handlings]
        /\ uploaded \subseteq MediaFiles
        /\ \A r \in Placements : placement[r].at = "none" => placement[r] = NoPlacement
    BY DEF MediaTyped
  <1>2. ASSUME placement' \in [Placements -> PlacementRecords]
        PROVE  \A r \in Placements : placement'[r].at \in Places \cup {"none", "gone"}
    BY <1>2 DEF PlacementRecords
  <1>3. ASSUME NEW d \in Designers, NEW r \in Placements, NEW step \in {"save", "delete"},
               NEW seen \in PlacementRecords, NEW new \in MediaFiles \cup {NoMedia},
               NEW own \in BOOLEAN, Opens(d, r, step, seen, new, own)
        PROVE  MediaTypeOK' /\ MediaTyped' /\ StepsOK'
    <2> DEFINE w == [step |-> step, row |-> r, seen |-> seen, new |-> new, own |-> own]
    <2>1. /\ placement' = placement /\ snapshot' = snapshot /\ DiskKept
          /\ uploaded \subseteq uploaded' /\ uploaded' \subseteq MediaFiles
      BY <1>1, <1>3 DEF Opens, Begins, RowsKept
    <2>2. w \in Handlings
      BY DEF Handlings
    <2>3. handling' \in [Designers -> Handlings] /\ handling'[d] = w
          /\ \A g \in Designers \ {d} : handling'[g] = handling[g]
      BY <1>1, <1>3, <2>2 DEF Opens, Begins
    <2>4. MediaTypeOK' /\ MediaTyped'
      BY <2>1, <2>3 DEF MediaTypeOK, MediaTyped, DiskKept
    <2>5. seen.at \in Places /\ (placement[r].at = "none" => seen.file = NoMedia)
      BY <1>3 DEF Opens, Kept, Places
    <2>6. (step = "save" => new # NoMedia) /\ (step = "delete" => new = NoMedia)
      BY <1>1, <1>3, MediaAssumption DEF Opens
    <2>7. StepsOK'
      <3> SUFFICES ASSUME NEW g \in Designers
                   PROVE  LET h == handling'[g]
                          IN  /\ h.step = "none" => h = Quiet
                              /\ h.step # "none" => h.row \in Placements /\ h.seen.at \in Places
                              /\ h.step = "save" => h.new # NoMedia
                              /\ h.step = "save" /\ placement'[h.row].at = "none" => h.seen.file = NoMedia
                              /\ h.step = "erase" => h.seen.file # NoMedia
                              /\ h.step = "erase" /\ h.new # NoMedia => h.new # h.seen.file
                              /\ h.step = "sync" => h.new \notin {NoMedia, h.seen.file}
                              /\ h.step = "delete" => h.new = NoMedia
        BY DEF StepsOK
      <3>1. CASE g = d
        BY <2>1, <2>3, <2>5, <2>6, <3>1
      <3>2. CASE g # d
        BY <2>1, <2>3, <3>2 DEF StepsOK
      <3> QED
        BY <3>1, <3>2
    <2> QED
      BY <2>4, <2>7
  <1>4. ASSUME NEW d \in Designers,
               SavePlacement(d) \/ EraseFile(d) \/ SyncAsset(d) \/ RemovePlacement(d)
                   \/ CheckAsset(d) \/ DropAsset(d) \/ KillRequest(d)
        PROVE  MediaTypeOK' /\ MediaTyped' /\ StepsOK'
    <2>1. Writes(d)
      BY <1>4, MediaWrites
    <2>2. MediaTyped'
      BY <1>1, <2>1 DEF Writes, MediaTyped
    <2>3. StepsOK'
      <3> SUFFICES ASSUME NEW g \in Designers
                   PROVE  LET h == handling'[g]
                          IN  /\ h.step = "none" => h = Quiet
                              /\ h.step # "none" => h.row \in Placements /\ h.seen.at \in Places
                              /\ h.step = "save" => h.new # NoMedia
                              /\ h.step = "save" /\ placement'[h.row].at = "none" => h.seen.file = NoMedia
                              /\ h.step = "erase" => h.seen.file # NoMedia
                              /\ h.step = "erase" /\ h.new # NoMedia => h.new # h.seen.file
                              /\ h.step = "sync" => h.new \notin {NoMedia, h.seen.file}
                              /\ h.step = "delete" => h.new = NoMedia
        BY DEF StepsOK
      <3>1. CASE g = d
        <4>1. CASE handling'[d] = Quiet
          BY <3>1, <4>1 DEF Quiet
        <4>2. CASE handling'[d] # Quiet
          <5>1. /\ handling'[d].step \in {"erase", "sync", "check", "drop"}
                /\ handling'[d].row = handling[d].row /\ handling'[d].seen = handling[d].seen
                /\ handling'[d].new = handling[d].new
                /\ handling[d].row \in Placements /\ handling[d].seen.at \in Places
            BY <2>1, <4>2 DEF Writes, StepsOK
          <5>2. /\ handling'[d].step = "erase" =>
                       /\ handling[d].seen.file # NoMedia
                       /\ handling[d].new # NoMedia => handling[d].new # handling[d].seen.file
                /\ handling'[d].step = "sync" => handling[d].new \notin {NoMedia, handling[d].seen.file}
            BY <2>1, <4>2, <5>1 DEF Writes, StepsOK
          <5> QED
            BY <3>1, <5>1, <5>2
        <4> QED
          BY <4>1, <4>2
      <3>2. CASE g # d
        <4>1. handling'[g] = handling[g]
          BY <2>1, <3>2 DEF Writes
        <4>2. handling[g].step = "save" => handling[g].row \in Placements
          BY DEF StepsOK
        <4>3. \A r \in Placements : placement'[r].at = "none" => placement'[r] = placement[r]
          BY <2>1 DEF Writes
        <4> QED
          BY <4>1, <4>2, <4>3 DEF StepsOK
      <3> QED
        BY <3>1, <3>2
    <2>4. DOMAIN assetFile' \subseteq assetsMade' /\ onDisk' \subseteq uploaded
      <3>1. CASE SavePlacement(d)
        <4>1. /\ handling[d].step = "save"
              /\ onDisk' = onDisk \cup (IF handling[d].new = handling[d].seen.file THEN {} ELSE {handling[d].new})
              /\ assetFile' = assetFile /\ assetsMade' = assetsMade
          BY <3>1 DEF SavePlacement
        <4>2. /\ handling[d].row \in Placements /\ handling[d].new \in MediaFiles
          BY <1>1, <4>1 DEF StepsOK, Handlings
        <4>3. handling[d].new \in uploaded
          BY <4>2 DEF FilesOwned, Owns
        <4> QED
          BY <4>1, <4>3 DEF MediaTypeOK
      <3>2. CASE EraseFile(d)
        BY <3>2 DEF EraseFile, MediaTypeOK
      <3>3. CASE SyncAsset(d)
        <4>1. PICK a \in Assets :
                 /\ assetsMade' = assetsMade \cup {a}
                 /\ assetFile' = [b \in DOMAIN assetFile \cup {a} |->
                                     IF b = a THEN handling[d].new ELSE assetFile[b]]
                 /\ onDisk' = onDisk
          BY <3>3 DEF SyncAsset
        <4> QED
          BY <4>1 DEF MediaTypeOK
      <3>4. CASE RemovePlacement(d)
        BY <3>4 DEF RemovePlacement, DiskKept, MediaTypeOK
      <3>5. CASE CheckAsset(d)
        BY <3>5 DEF CheckAsset, DiskKept, MediaTypeOK
      <3>6. CASE DropAsset(d)
        BY <3>6 DEF DropAsset, MediaTypeOK
      <3>7. CASE KillRequest(d)
        BY <3>7 DEF KillRequest, DiskKept, MediaTypeOK
      <3> QED
        BY <1>4, <3>1, <3>2, <3>3, <3>4, <3>5, <3>6, <3>7
    <2>5. MediaTypeOK'
      BY <1>2, <2>1, <2>4 DEF MediaTypeOK, Writes
    <2> QED
      BY <2>2, <2>3, <2>5
  <1>5. ASSUME DuplicateSection \/ PublishAndReopen \/ RemoveSection \/ UndoChange
        PROVE  MediaTypeOK' /\ MediaTyped' /\ StepsOK'
    <2>1. Carries
      BY <1>5, MediaCarries
    <2>2. MediaTyped'
      <3>1. \A s \in snapshot' : s.file \in uploaded \cup {NoMedia}
        BY <1>1, <2>1 DEF Carries, FilesOwned, Owns, PlacementRecords
      <3> QED
        BY <1>1, <2>1, <3>1 DEF Carries, MediaTyped
    <2>3. MediaTypeOK'
      BY <1>2, <2>1 DEF Carries, MediaTypeOK, DiskKept
    <2>4. StepsOK'
      <3>1. handling' = handling
            /\ \A r \in Placements : placement'[r].at = "none" => placement'[r] = placement[r]
        BY <2>1 DEF Carries
      <3> QED
        BY <3>1 DEF StepsOK
    <2> QED
      BY <2>2, <2>3, <2>4
  <1> QED
    BY <1>3, <1>4, <1>5, MediaCases

\* A file stays with its placement; until it is saved, the form alone knows it.
LEMMA MediaStepFiles ==
    ASSUME MediaTypeOK, MediaTyped, StepsOK, FilesOwned, FilesAreNew, AssetsExist, MediaNext
    PROVE  FilesOwned' /\ FilesAreNew'
  <1>1. /\ placement \in [Placements -> PlacementRecords] /\ handling \in [Designers -> Handlings]
        /\ uploaded \subseteq MediaFiles
    BY DEF MediaTyped
  <1>2. ASSUME NEW d \in Designers, NEW r \in Placements, NEW step \in {"save", "delete"},
               NEW seen \in PlacementRecords, NEW new \in MediaFiles \cup {NoMedia},
               NEW own \in BOOLEAN, Opens(d, r, step, seen, new, own)
        PROVE  FilesOwned' /\ FilesAreNew'
    <2>1. /\ handling'[d].step = step /\ handling'[d].row = r
          /\ handling'[d].seen = seen /\ handling'[d].new = new
          /\ \A g \in Designers \ {d} : handling'[g] = handling[g]
          /\ placement' = placement /\ exposed' = exposed /\ snapshot' = snapshot
          /\ handling[d] = Quiet
      BY <1>1, <1>2 DEF Opens, Begins, RowsKept, StepsOK
    <2>2. /\ uploaded \subseteq uploaded' /\ (new \in MediaFiles => new \in uploaded' \/ new = seen.file)
          /\ seen.file \in {NoMedia, placement[r].file}
          /\ new \in {NoMedia, seen.file} \/ new \in MediaFiles \ uploaded
      BY <1>2, MediaAssumption DEF Opens
    <2>3. \A q \in Placements, f \in MediaFiles : Owns(q, f)' => Owns(q, f) \/ (q = r /\ f = new)
      BY <2>1, <2>2, MediaAssumption DEF Owns, Quiet
    <2>4. \A q \in Placements, f \in MediaFiles : Owns(q, f) => Owns(q, f)'
      BY <2>1, MediaAssumption DEF Owns, Quiet
    <2>5. FilesOwned'
      <3> SUFFICES ASSUME NEW q \in Placements, NEW f \in MediaFiles, Owns(q, f)'
                   PROVE  f \in uploaded' /\ (f \in exposed \/ \A p \in Placements : Owns(p, f)' => p = q)
        BY <2>1 DEF FilesOwned
      <3>1. CASE f \notin uploaded
        <4>1. \A p \in Placements : ~Owns(p, f)
          BY <3>1 DEF FilesOwned
        <4>2. f = new /\ \A p \in Placements : Owns(p, f)' => p = r
          BY <2>3, <4>1
        <4>3. f # seen.file
          BY <2>2, <4>1, MediaAssumption DEF Owns
        <4> QED
          BY <2>2, <2>3, <4>1, <4>2, <4>3
      <3>2. CASE f \in uploaded
        <4>1. f = new => Owns(r, f)
          BY <2>2, <3>2, MediaAssumption DEF Owns
        <4>2. \A p \in Placements : Owns(p, f)' => Owns(p, f)
          BY <2>3, <4>1
        <4> QED
          BY <2>2, <3>2, <4>2 DEF FilesOwned
      <3> QED
        BY <3>1, <3>2
    <2>6. FilesAreNew'
      <3> SUFFICES ASSUME NEW g \in Designers, handling'[g].step = "save",
                          NEW f, f = handling'[g].new, f # handling'[g].seen.file
                   PROVE  /\ \A q \in Placements : placement'[q].file # f
                          /\ \A s \in snapshot' : s.file # f
                          /\ \A e \in Designers \ {g} : f \notin {handling'[e].seen.file, handling'[e].new}
        BY DEF FilesAreNew
      <3>1. CASE g = d
        <4>1. f \in MediaFiles \ uploaded
          BY <1>2, <2>1, <3>1 DEF Opens
        <4>2. \A q \in Placements : ~Owns(q, f)
          BY <4>1 DEF FilesOwned
        <4>3. \A e \in Designers \ {d} :
                  handling[e].row \in Placements => f \notin {handling[e].seen.file, handling[e].new}
          BY <4>2 DEF Owns
        <4>5. \A s \in snapshot' : s.file # f
          BY <1>1, <2>1, <4>1, MediaAssumption DEF MediaTyped
        <4>4. \A e \in Designers : handling[e].row \notin Placements =>
                  f \notin {handling[e].seen.file, handling[e].new}
          BY <4>1, MediaAssumption DEF StepsOK, Quiet, NoPlacement
        <4> QED
          BY <2>1, <3>1, <4>2, <4>3, <4>4, <4>5 DEF Owns
      <3>2. CASE g # d
        <4> DEFINE p == handling[g].row
        <4>1. /\ handling'[g] = handling[g] /\ handling[g].step = "save" /\ p \in Placements
              /\ f = handling[g].new /\ f \in MediaFiles
          BY <1>1, <2>1, <3>2, MediaAssumption DEF StepsOK, Handlings
        <4>2. /\ \A q \in Placements : placement[q].file # f
              /\ \A s \in snapshot : s.file # f
              /\ \A e \in Designers \ {g} : f \notin {handling[e].seen.file, handling[e].new}
          BY <2>1, <3>2, <4>1 DEF FilesAreNew
        <4>3. Owns(p, f) /\ f \in uploaded
          BY <4>1 DEF Owns, FilesOwned
        <4>4. f \notin {seen.file, new}
          BY <2>2, <4>1, <4>2, <4>3, MediaAssumption
        <4> QED
          BY <2>1, <3>2, <4>1, <4>2, <4>4
      <3> QED
        BY <3>1, <3>2
    <2> QED
      BY <2>5, <2>6
  <1>3. ASSUME NEW d \in Designers,
               SavePlacement(d) \/ EraseFile(d) \/ SyncAsset(d) \/ RemovePlacement(d)
                   \/ CheckAsset(d) \/ DropAsset(d) \/ KillRequest(d)
        PROVE  FilesOwned' /\ FilesAreNew'
    <2>1. Writes(d) /\ handling[d].row \in Placements
      BY <1>3, MediaWrites DEF Writes, StepsOK
    <2>2. /\ \A g \in Designers \ {d} : handling'[g] = handling[g]
          /\ \/ handling'[d] = Quiet
             \/ /\ handling'[d].step # "save"
                /\ handling'[d].row = handling[d].row /\ handling'[d].seen = handling[d].seen
                /\ handling'[d].new = handling[d].new
          /\ uploaded' = uploaded /\ exposed' = exposed /\ snapshot' = snapshot
      BY <2>1 DEF Writes
    <2>3. \A r \in Placements :
              \/ placement'[r].file = placement[r].file
              \/ r = handling[d].row /\ placement'[r].file = handling[d].new
      BY <2>1 DEF Writes
    <2>4. ASSUME NEW q \in Placements, NEW f \in MediaFiles, Owns(q, f)'
          PROVE  Owns(q, f)
      BY <2>2, <2>3, <2>4, MediaAssumption DEF Owns, Quiet
    <2>5. FilesOwned'
      BY <2>2, <2>4 DEF FilesOwned
    <2>6. FilesAreNew'
      <3> SUFFICES ASSUME NEW g \in Designers, handling'[g].step = "save",
                          NEW f, f = handling'[g].new, f # handling'[g].seen.file
                   PROVE  /\ \A q \in Placements : placement'[q].file # f
                          /\ \A s \in snapshot' : s.file # f
                          /\ \A e \in Designers \ {g} : f \notin {handling'[e].seen.file, handling'[e].new}
        BY DEF FilesAreNew
      <3>1. g # d /\ handling'[g] = handling[g]
        BY <2>2 DEF Quiet
      <3>2. /\ \A q \in Placements : placement[q].file # f
            /\ \A s \in snapshot : s.file # f
            /\ \A e \in Designers \ {g} : f \notin {handling[e].seen.file, handling[e].new}
            /\ f # NoMedia
        BY <3>1 DEF FilesAreNew, StepsOK
      <3> QED
        BY <2>2, <2>3, <3>1, <3>2 DEF Quiet, NoPlacement
    <2> QED
      BY <2>5, <2>6
  <1>4. ASSUME DuplicateSection \/ PublishAndReopen \/ RemoveSection \/ UndoChange
        PROVE  FilesOwned' /\ FilesAreNew'
    <2>1. Carries
      BY <1>4, MediaCarries
    <2>2. handling' = handling /\ uploaded' = uploaded /\ exposed \subseteq exposed'
      BY <2>1 DEF Carries
    <2>3. \A r \in Placements :
              \/ placement'[r].file \in {NoMedia, placement[r].file}
              \/ placement'[r].file \in exposed' \cap {s.file : s \in snapshot}
      BY <2>1 DEF Carries
    <2>4. {s.file : s \in snapshot} \subseteq uploaded \cup {NoMedia}
      BY DEF MediaTyped
    <2>5. \A q \in Placements, f \in MediaFiles :
              Owns(q, f)' => Owns(q, f) \/ f \in exposed' \cap uploaded
      BY <2>2, <2>3, <2>4, MediaAssumption DEF Owns
    <2>6. FilesOwned'
      BY <2>2, <2>5 DEF FilesOwned
    <2>7. FilesAreNew'
      <3> SUFFICES ASSUME NEW g \in Designers, handling[g].step = "save",
                          NEW f, f = handling[g].new, f # handling[g].seen.file
                   PROVE  /\ \A q \in Placements : placement'[q].file # f
                          /\ \A s \in snapshot' : s.file # f
                          /\ \A e \in Designers \ {g} : f \notin {handling[e].seen.file, handling[e].new}
        BY <2>2 DEF FilesAreNew
      <3>1. /\ \A q \in Placements : placement[q].file # f
            /\ \A s \in snapshot : s.file # f
            /\ \A e \in Designers \ {g} : f \notin {handling[e].seen.file, handling[e].new}
            /\ f # NoMedia
        BY DEF FilesAreNew, StepsOK
      <3>2. \A s \in snapshot' : \E r \in Placements : s.file = placement[r].file
        BY <2>1 DEF Carries
      <3> QED
        BY <2>3, <3>1, <3>2
    <2> QED
      BY <2>6, <2>7
  <1> QED
    BY <1>2, <1>3, <1>4, MediaCases

\* Assets keep a file each, and the files that are uploaded stay apart.
LEMMA MediaStepAssets ==
    ASSUME MediaTypeOK, MediaTyped, StepsOK, FilesOwned, AssetsApart, AssetsExist, MediaNext
    PROVE  AssetsApart'
  <1>1. handling \in [Designers -> Handlings] /\ uploaded \subseteq MediaFiles
    BY DEF MediaTyped
  <1>2. ASSUME NEW d \in Designers, Uploading(d)
        PROVE  handling[d].row \in Placements /\ handling[d].new \in uploaded
    <2>1. handling[d].row \in Placements /\ handling[d].new \in MediaFiles
      BY <1>1, <1>2 DEF Uploading, StepsOK, Handlings
    <2> QED
      BY <2>1 DEF FilesOwned, Owns
  \* A step that makes no asset, and takes files by name only.
  <1>3. ASSUME assetFile' = assetFile, uploaded' = uploaded,
               onDisk \cup byName \subseteq onDisk' \cup byName',
               \A g \in Designers : Uploading(g)' =>
                   /\ Uploading(g) /\ handling'[g].new = handling[g].new
                   /\ \/ handling'[g].step = handling[g].step
                      \/ handling'[g].new \in onDisk' \cup byName'
        PROVE  AssetsApart'
    BY <1>3 DEF AssetsApart
  <1>4. ASSUME NEW d \in Designers, NEW r \in Placements, NEW step \in {"save", "delete"},
               NEW seen \in PlacementRecords, NEW new \in MediaFiles \cup {NoMedia},
               NEW own \in BOOLEAN, Opens(d, r, step, seen, new, own)
        PROVE  AssetsApart'
    <2>1. /\ handling'[d].step = step /\ handling'[d].seen = seen /\ handling'[d].new = new
          /\ \A g \in Designers \ {d} : handling'[g] = handling[g]
          /\ uploaded \subseteq uploaded' /\ assetFile' = assetFile
          /\ onDisk' = onDisk /\ byName' = byName
      BY <1>1, <1>4 DEF Opens, Begins, DiskKept
    <2>2. Uploading(d)' => step = "save" /\ new \notin uploaded
      BY <1>4, <2>1 DEF Opens, Uploading
    <2>3. \A g \in Designers \ {d} : Uploading(g)' <=> Uploading(g)
      BY <2>1 DEF Uploading
    <2>4. \A a \in DOMAIN assetFile' : assetFile'[a] \in uploaded' \cap (onDisk' \cup byName')
      BY <2>1 DEF AssetsApart
    <2>5. \A a, b \in DOMAIN assetFile' : assetFile'[a] = assetFile'[b] => a = b
      BY <2>1 DEF AssetsApart
    <2>6. ASSUME NEW g \in Designers, Uploading(g)'
          PROVE  /\ \A a \in DOMAIN assetFile' : assetFile'[a] # handling'[g].new
                 /\ \A e \in Designers \ {g} : Uploading(e)' => handling'[e].new # handling'[g].new
                 /\ handling'[g].step # "save" => handling'[g].new \in onDisk' \cup byName'
      <3>1. CASE g = d
        <4>1. \A a \in DOMAIN assetFile : assetFile[a] # new
          BY <2>2, <2>6, <3>1 DEF AssetsApart
        <4>2. \A e \in Designers \ {d} : Uploading(e) => handling[e].new # new
          BY <1>2, <2>2, <2>6, <3>1
        <4> QED
          BY <2>1, <2>2, <2>3, <2>6, <3>1, <4>1, <4>2
      <3>2. CASE g # d
        <4>1. Uploading(g) /\ handling'[g] = handling[g] /\ handling[g].new \in uploaded
          BY <1>2, <2>1, <2>3, <2>6, <3>2
        <4>2. /\ \A a \in DOMAIN assetFile : assetFile[a] # handling[g].new
              /\ \A e \in Designers \ {g} : Uploading(e) => handling[e].new # handling[g].new
              /\ handling[g].step # "save" => handling[g].new \in onDisk \cup byName
          BY <4>1 DEF AssetsApart
        <4> QED
          BY <2>1, <2>2, <2>3, <4>1, <4>2
      <3> QED
        BY <3>1, <3>2
    <2> QED
      BY <2>4, <2>5, <2>6 DEF AssetsApart
  <1>5. ASSUME NEW d \in Designers,
               SavePlacement(d) \/ EraseFile(d) \/ SyncAsset(d) \/ RemovePlacement(d)
                   \/ CheckAsset(d) \/ DropAsset(d) \/ KillRequest(d)
        PROVE  AssetsApart'
    <2> DEFINE h == handling[d]
    <2>1. /\ \A g \in Designers \ {d} : handling'[g] = handling[g]
          /\ uploaded' = uploaded /\ h.step # "none"
      BY <1>5, MediaWrites DEF Writes
    <2>2. Uploading(d)' => /\ Uploading(d) /\ h.step \in {"save", "erase"}
                           /\ handling'[d].new = h.new
      <3> SUFFICES ASSUME Uploading(d)'
                   PROVE  Uploading(d) /\ h.step \in {"save", "erase"} /\ handling'[d].new = h.new
        OBVIOUS
      <3>1. /\ handling'[d].step \in {"erase", "sync"}
            /\ handling'[d].new = h.new /\ handling'[d].seen = h.seen
            /\ h.new \notin {NoMedia, h.seen.file}
            /\ \/ h.step \in {"save", "erase"} \/ h.step = "delete"
        BY <1>5, MediaWrites DEF Writes, Uploading, Quiet
      <3>2. h.step # "delete"
        BY <3>1 DEF StepsOK
      <3> QED
        BY <3>1, <3>2 DEF Uploading
    <2>3. \A g \in Designers : Uploading(g)' => Uploading(g) /\ handling'[g].new = handling[g].new
      BY <2>1, <2>2 DEF Uploading
    <2>4. \A g \in Designers \ {d} : handling'[g].step = handling[g].step
      BY <2>1
    <2>5. CASE SavePlacement(d)
      <3>1. /\ onDisk' = onDisk \cup (IF h.new = h.seen.file THEN {} ELSE {h.new})
            /\ assetFile' = assetFile /\ byName' = byName
        BY <2>5 DEF SavePlacement
      <3>2. Uploading(d)' => h.new \in onDisk'
        BY <2>2, <3>1 DEF Uploading
      <3> QED
        BY <1>3, <2>1, <2>2, <2>3, <2>4, <3>1, <3>2
    <2>6. CASE EraseFile(d)
      <3>1. /\ onDisk' = onDisk \ {h.seen.file} /\ byName' = byName \cup {h.seen.file}
            /\ assetFile' = assetFile /\ h.step = "erase"
        BY <2>6 DEF EraseFile
      <3>2. Uploading(d) => h.new \in onDisk \cup byName
        BY <3>1 DEF AssetsApart
      <3> QED
        BY <1>3, <2>1, <2>2, <2>3, <2>4, <3>1, <3>2
    <2>7. CASE SyncAsset(d)
      <3>1. PICK a \in Assets :
               /\ h.step = "sync" /\ NextUp(a, Assets, assetsMade)
               /\ assetFile' = [b \in DOMAIN assetFile \cup {a} |->
                                   IF b = a THEN h.new ELSE assetFile[b]]
               /\ onDisk' = onDisk /\ byName' = byName
        BY <2>7 DEF SyncAsset
      <3>2. a \notin DOMAIN assetFile
        BY <3>1 DEF NextUp, MediaTypeOK
      <3>3. Uploading(d)
        BY <3>1 DEF Uploading, StepsOK
      <3>4. /\ h.new \in uploaded /\ h.new \in onDisk \cup byName
            /\ \A b \in DOMAIN assetFile : assetFile[b] # h.new
            /\ \A g \in Designers \ {d} : Uploading(g) => handling[g].new # h.new
        BY <1>2, <3>1, <3>3 DEF AssetsApart
      <3>5. ~Uploading(d)'
        BY <2>2, <3>1
      <3>6. /\ DOMAIN assetFile' = DOMAIN assetFile \cup {a} /\ assetFile'[a] = h.new
            /\ \A b \in DOMAIN assetFile : assetFile'[b] = assetFile[b]
        BY <3>1, <3>2
      <3>7. \A b \in DOMAIN assetFile' : assetFile'[b] \in uploaded' \cap (onDisk' \cup byName')
        BY <2>1, <3>1, <3>4, <3>6 DEF AssetsApart
      <3>8. \A b, c \in DOMAIN assetFile' : assetFile'[b] = assetFile'[c] => b = c
        BY <3>4, <3>6 DEF AssetsApart
      <3>9. \A g \in Designers : Uploading(g)' =>
                /\ g # d /\ Uploading(g) /\ handling'[g] = handling[g]
                /\ \A b \in DOMAIN assetFile' : assetFile'[b] # handling[g].new
        BY <2>1, <2>3, <3>4, <3>5, <3>6 DEF AssetsApart
      <3>10. \A g \in Designers : Uploading(g)' =>
                 /\ \A b \in DOMAIN assetFile' : assetFile'[b] # handling'[g].new
                 /\ \A e \in Designers \ {g} : Uploading(e)' => handling'[e].new # handling'[g].new
                 /\ handling'[g].step # "save" => handling'[g].new \in onDisk' \cup byName'
        <4> SUFFICES ASSUME NEW g \in Designers, Uploading(g)'
                     PROVE  /\ \A b \in DOMAIN assetFile' : assetFile'[b] # handling[g].new
                            /\ \A e \in Designers \ {g} :
                                   Uploading(e)' => handling'[e].new # handling[g].new
                            /\ handling[g].step # "save" => handling[g].new \in onDisk' \cup byName'
          BY <3>9
        <4>1. Uploading(g) /\ \A b \in DOMAIN assetFile' : assetFile'[b] # handling[g].new
          BY <3>9
        <4>2. /\ \A e \in Designers \ {g} : Uploading(e) => handling[e].new # handling[g].new
              /\ handling[g].step # "save" => handling[g].new \in onDisk \cup byName
          BY <4>1 DEF AssetsApart
        <4>3. \A e \in Designers : Uploading(e)' => Uploading(e) /\ handling'[e] = handling[e]
          BY <3>9
        <4> QED
          BY <3>1, <4>1, <4>2, <4>3
      <3> QED
        BY <3>7, <3>8, <3>10 DEF AssetsApart
    <2>8. CASE RemovePlacement(d)
      <3>1. assetFile' = assetFile /\ onDisk' = onDisk /\ byName' = byName /\ h.step = "delete"
        BY <2>8 DEF RemovePlacement, DiskKept
      <3> QED
        BY <1>3, <2>1, <2>2, <2>3, <2>4, <3>1
    <2>9. CASE CheckAsset(d)
      <3>1. assetFile' = assetFile /\ onDisk' = onDisk /\ byName' = byName /\ h.step = "check"
        BY <2>9 DEF CheckAsset, DiskKept
      <3> QED
        BY <1>3, <2>1, <2>2, <2>3, <2>4, <3>1
    <2>10. CASE DropAsset(d)
      <3> DEFINE a == h.seen.asset
      <3>1. ~Uploading(d)' /\ byName' = byName
        BY <2>2, <2>10 DEF DropAsset
      <3>2. CASE Referenced(a) \/ a \notin DOMAIN assetFile
        BY <1>3, <2>1, <2>3, <2>4, <2>10, <3>1, <3>2 DEF DropAsset
      <3>3. CASE ~(Referenced(a) \/ a \notin DOMAIN assetFile)
        <4>1. /\ assetFile' = [b \in DOMAIN assetFile \ {a} |-> assetFile[b]]
              /\ onDisk' = onDisk \ {assetFile[a]} /\ a \in DOMAIN assetFile
          BY <2>10, <3>3 DEF DropAsset
        <4>2. /\ DOMAIN assetFile' = DOMAIN assetFile \ {a}
              /\ \A b \in DOMAIN assetFile' : assetFile'[b] = assetFile[b]
          BY <4>1
        <4>3. \A b \in DOMAIN assetFile' : assetFile[b] # assetFile[a]
          BY <4>1, <4>2 DEF AssetsApart
        <4>4. \A b \in DOMAIN assetFile' : assetFile'[b] \in uploaded' \cap (onDisk' \cup byName')
          BY <2>1, <3>1, <4>1, <4>2, <4>3 DEF AssetsApart
        <4>5. \A b, c \in DOMAIN assetFile' : assetFile'[b] = assetFile'[c] => b = c
          BY <4>2 DEF AssetsApart
        <4>6. \A g \in Designers : Uploading(g)' =>
                  /\ g # d /\ Uploading(g) /\ handling'[g] = handling[g]
                  /\ handling[g].new # assetFile[a]
          BY <2>1, <2>3, <3>1, <4>1 DEF AssetsApart
        <4>7. \A g \in Designers : Uploading(g)' =>
                  /\ \A b \in DOMAIN assetFile' : assetFile'[b] # handling'[g].new
                  /\ \A e \in Designers \ {g} : Uploading(e)' => handling'[e].new # handling'[g].new
                  /\ handling'[g].step # "save" => handling'[g].new \in onDisk' \cup byName'
          BY <3>1, <4>1, <4>2, <4>6 DEF AssetsApart
        <4> QED
          BY <4>4, <4>5, <4>7 DEF AssetsApart
      <3> QED
        BY <3>2, <3>3
    <2>11. CASE KillRequest(d)
      <3>1. assetFile' = assetFile /\ onDisk' = onDisk /\ byName' = byName
        BY <2>11 DEF KillRequest, DiskKept
      <3>2. handling'[d] = Quiet
        BY <1>1, <2>11 DEF KillRequest, Goto
      <3>3. ~Uploading(d)'
        BY <3>2 DEF Uploading, Quiet
      <3> QED
        BY <1>3, <2>1, <2>3, <2>4, <3>1, <3>3
    <2> QED
      BY <1>5, <2>5, <2>6, <2>7, <2>8, <2>9, <2>10, <2>11
  <1>6. ASSUME DuplicateSection \/ PublishAndReopen \/ RemoveSection \/ UndoChange
        PROVE  AssetsApart'
    <2>1. Carries
      BY <1>6, MediaCarries
    <2>2. \A g \in Designers : Uploading(g)' <=> Uploading(g)
      BY <2>1 DEF Carries, Uploading
    <2> QED
      BY <1>3, <2>1, <2>2 DEF Carries, DiskKept
  <1> QED
    BY <1>4, <1>5, <1>6, MediaCases

\* Placements refer to assets that exist; a placement that no late request
\* wrote to shows a file that exists, its asset's if it is an asset's at all,
\* and none that is to be erased.
LEMMA MediaStepPictures ==
    ASSUME MediaTypeOK, MediaTyped, StepsOK, FilesOwned, FilesAreNew, AssetsApart,
           ErasuresDue, ShowsItsAsset, AssetsExist, ShownExists, MediaNext
    PROVE  ErasuresDue' /\ ShowsItsAsset' /\ AssetsExist' /\ ShownExists'
  <1>1. /\ placement \in [Placements -> PlacementRecords] /\ handling \in [Designers -> Handlings]
        /\ \A r \in Placements : placement[r].at = "none" => placement[r] = NoPlacement
        /\ Kept \subseteq Placements /\ Kept' \subseteq Placements
    BY DEF MediaTyped, Kept
  \* A step that gives no placement a file or an asset.
  <1>2. ASSUME Kept' \subseteq Kept, lateSaves \subseteq lateSaves', exposed' = exposed,
               \A r \in Kept' : /\ placement'[r].file = placement[r].file
                                /\ placement'[r].asset = placement[r].asset,
               \A d \in Designers :
                   \/ handling'[d].step = "erase" => handling'[d] = handling[d]
                   \/ handling'[d].row \notin Kept'
        PROVE  /\ ErasuresDue'
               /\ assetFile' = assetFile => ShowsItsAsset' /\ AssetsExist'
               /\ onDisk \subseteq onDisk' => ShownExists'
    BY <1>2 DEF ErasuresDue, ShowsItsAsset, AssetsExist, ShownExists
  <1>3. ASSUME NEW d \in Designers, NEW r \in Placements, NEW step \in {"save", "delete"},
               NEW seen \in PlacementRecords, NEW new \in MediaFiles \cup {NoMedia},
               NEW own \in BOOLEAN, Opens(d, r, step, seen, new, own)
        PROVE  ErasuresDue' /\ ShowsItsAsset' /\ AssetsExist' /\ ShownExists'
    <2>1. /\ handling'[d].step = step
          /\ \A g \in Designers \ {d} : handling'[g] = handling[g]
          /\ placement' = placement /\ lateSaves' = lateSaves /\ exposed' = exposed
          /\ assetFile' = assetFile /\ onDisk' = onDisk
      BY <1>1, <1>3 DEF Opens, Begins, RowsKept, DiskKept
    <2>2. Kept' = Kept
      BY <2>1 DEF Kept
    <2> QED
      BY <1>2, <2>1, <2>2
  <1>4. ASSUME NEW d \in Designers, SavePlacement(d)
        PROVE  ErasuresDue' /\ ShowsItsAsset' /\ AssetsExist' /\ ShownExists'
    <2> DEFINE h == handling[d]
               r == h.row
    <2>1. /\ h.step = "save" /\ r \in Placements /\ h.seen.at \in Places
          /\ h.new \in MediaFiles /\ h.new # NoMedia /\ h.seen \in PlacementRecords
          /\ assetFile' = assetFile /\ exposed' = exposed
          /\ onDisk' = onDisk \cup (IF h.new = h.seen.file THEN {} ELSE {h.new})
          /\ placement[r].at = "none" => h.seen.file = NoMedia
      BY <1>1, <1>4 DEF SavePlacement, StepsOK, Handlings
    <2>2. CASE h.seen.asset \notin DOMAIN assetFile \cup {NoMedia}
      <3>1. placement' = placement /\ lateSaves' = lateSaves /\ Goto(d, "none")
        BY <1>4, <2>2 DEF SavePlacement
      <3>2. handling'[d] = Quiet /\ \A g \in Designers \ {d} : handling'[g] = handling[g]
        BY <1>1, <3>1 DEF Goto
      <3>3. Kept' = Kept
        BY <3>1 DEF Kept
      <3> QED
        BY <1>2, <2>1, <3>1, <3>2, <3>3 DEF Quiet
    <2>3. CASE h.seen.asset \in DOMAIN assetFile \cup {NoMedia}
      <3> DEFINE w == [h.seen EXCEPT !.file = h.new]
      <3>1. /\ placement' = [placement EXCEPT ![r] = w] /\ Goto(d, AfterSave(h))
            /\ lateSaves' = IF placement[r] \in {h.seen, NoPlacement}
                            THEN lateSaves ELSE lateSaves \cup {r}
        BY <1>4, <2>3 DEF SavePlacement
      <3>2. w.file = h.new /\ w.at \in Places /\ w.asset = h.seen.asset
        BY <2>1 DEF PlacementRecords
      <3> HIDE DEF w
      <3>3. placement'[r] = w /\ \A q \in Placements \ {r} : placement'[q] = placement[q]
        BY <1>1, <2>1, <3>1
      <3>4. Kept' = Kept \cup {r}
        BY <2>1, <3>2, <3>3 DEF Kept
      <3>5. AfterSave(h) \in {"none", "erase", "sync"}
        BY DEF AfterSave
      <3>6. Proceeds(d, AfterSave(h))
        BY <3>1, <3>5, MediaProceeds
      \* The placement had the picture of the form, or the picture is new.
      <3>7. r \notin lateSaves' /\ h.new = h.seen.file => r \in Kept \ lateSaves /\ placement[r] = h.seen
        BY <2>1, <3>1 DEF Kept, NoPlacement
      <3>8. h.new # h.seen.file =>
                /\ \A a \in DOMAIN assetFile : assetFile[a] # h.new
                /\ \A g \in Designers \ {d} : handling[g].seen.file # h.new
        BY <2>1 DEF AssetsApart, FilesAreNew, Uploading
      <3>9. ErasuresDue'
        <4> SUFFICES ASSUME NEW g \in Designers, handling'[g].step = "erase",
                            handling'[g].row \in Kept' \ lateSaves'
                     PROVE  \/ placement'[handling'[g].row].file # handling'[g].seen.file
                            \/ handling'[g].seen.file \in exposed
          BY <2>1 DEF ErasuresDue
        <4>1. CASE g = d
          <5>1. /\ AfterSave(h) = "erase" /\ handling'[d].row = r /\ handling'[d].seen = h.seen
            BY <3>6, <4>1 DEF Proceeds, Quiet
          <5>2. h.new # h.seen.file
            BY <5>1 DEF AfterSave
          <5> QED
            BY <3>2, <3>3, <4>1, <5>1, <5>2
        <4>2. CASE g # d
          <5>1. handling'[g] = handling[g]
            BY <3>6, <4>2 DEF Proceeds
          <5>2. CASE handling[g].row # r
            BY <3>1, <3>3, <3>4, <5>1, <5>2 DEF ErasuresDue, Kept
          <5>3. CASE handling[g].row = r
            <6>1. CASE h.new = h.seen.file
              BY <3>2, <3>3, <3>7, <5>1, <5>3, <6>1 DEF ErasuresDue
            <6>2. CASE h.new # h.seen.file
              BY <3>2, <3>3, <3>8, <4>2, <5>1, <5>3, <6>2
            <6> QED
              BY <6>1, <6>2
          <5> QED
            BY <5>2, <5>3
        <4> QED
          BY <4>1, <4>2
      <3>10. ASSUME NEW q \in Kept' \ lateSaves'
             PROVE  /\ \A a \in DOMAIN assetFile :
                           placement'[q].file = assetFile[a] =>
                               placement'[q].asset = a \/ assetFile[a] \in exposed
                    /\ placement'[q].file \in onDisk' \cup exposed \cup {NoMedia}
        <4>1. CASE q # r
          <5>1. q \in Kept \ lateSaves /\ placement'[q] = placement[q]
            BY <1>1, <3>1, <3>3, <3>4, <3>10, <4>1
          <5> QED
            BY <2>1, <5>1 DEF ShowsItsAsset, ShownExists
        <4>2. CASE q = r /\ h.new = h.seen.file
          BY <2>1, <3>2, <3>3, <3>7, <3>10, <4>2 DEF ShowsItsAsset, ShownExists
        <4>3. CASE q = r /\ h.new # h.seen.file
          BY <2>1, <3>2, <3>3, <3>8, <4>3
        <4> QED
          BY <4>1, <4>2, <4>3
      <3>11. AssetsExist'
        <4>1. \A q \in Kept' : placement'[q].asset \in DOMAIN assetFile \cup {NoMedia}
          BY <1>1, <2>3, <3>2, <3>3, <3>4 DEF AssetsExist
        <4> QED
          BY <2>1, <4>1 DEF AssetsExist
      <3> QED
        BY <2>1, <3>9, <3>10, <3>11 DEF ShowsItsAsset, ShownExists
    <2> QED
      BY <2>2, <2>3
  <1>5. ASSUME NEW d \in Designers, EraseFile(d)
        PROVE  ErasuresDue' /\ ShowsItsAsset' /\ AssetsExist' /\ ShownExists'
    <2> DEFINE h == handling[d]
               step == IF h.own /\ h.new # NoMedia THEN "sync" ELSE "none"
    <2>1. /\ h.step = "erase" /\ h.row \in Placements /\ h.seen.file \in MediaFiles
          /\ placement' = placement /\ lateSaves' = lateSaves /\ exposed' = exposed
          /\ assetFile' = assetFile /\ onDisk' = onDisk \ {h.seen.file} /\ Goto(d, step)
      BY <1>1, <1>5 DEF EraseFile, RowsKept, StepsOK, Handlings, PlacementRecords
    <2>2. step \in {"sync", "none"}
      OBVIOUS
    <2> HIDE DEF step
    <2>3. Proceeds(d, step)
      BY <2>1, <2>2, MediaProceeds
    <2>4. handling'[d].step # "erase" /\ \A g \in Designers \ {d} : handling'[g] = handling[g]
      BY <2>2, <2>3 DEF Proceeds, Quiet
    <2>5. Kept' = Kept
      BY <2>1 DEF Kept
    <2>6. ErasuresDue' /\ ShowsItsAsset' /\ AssetsExist'
      BY <1>2, <2>1, <2>4, <2>5
    <2>7. ASSUME NEW q \in Kept \ lateSaves
          PROVE  placement[q].file \in onDisk' \cup exposed \cup {NoMedia}
      <3>1. CASE placement[q].file = h.seen.file
        <4>1. Owns(q, h.seen.file) /\ Owns(h.row, h.seen.file) /\ q \in Placements
          BY <1>1, <2>7, <3>1 DEF Owns
        <4>2. h.seen.file \in exposed \/ q = h.row
          BY <2>1, <4>1 DEF FilesOwned
        <4> QED
          BY <2>1, <2>7, <3>1, <4>2 DEF ErasuresDue
      <3>2. CASE placement[q].file # h.seen.file
        BY <2>1, <2>7, <3>2 DEF ShownExists
      <3> QED
        BY <3>1, <3>2
    <2>8. ShownExists'
      BY <2>1, <2>5, <2>7 DEF ShownExists
    <2> QED
      BY <2>6, <2>8
  <1>6. ASSUME NEW d \in Designers, SyncAsset(d)
        PROVE  ErasuresDue' /\ ShowsItsAsset' /\ AssetsExist' /\ ShownExists'
    <2> DEFINE h == handling[d]
    <2>1. PICK a \in Assets :
              /\ h.step = "sync" /\ NextUp(a, Assets, assetsMade) /\ Goto(d, "none")
              /\ assetFile' = [b \in DOMAIN assetFile \cup {a} |->
                                  IF b = a THEN h.new ELSE assetFile[b]]
              /\ placement' = IF h.row \in Kept THEN [placement EXCEPT ![h.row].asset = a] ELSE placement
              /\ lateSaves' = IF placement[h.row].file = h.new
                              THEN lateSaves ELSE lateSaves \cup {h.row}
              /\ onDisk' = onDisk /\ exposed' = exposed
      BY <1>6 DEF SyncAsset
    <2>2. /\ a \notin DOMAIN assetFile
          /\ DOMAIN assetFile' = DOMAIN assetFile \cup {a} /\ assetFile'[a] = h.new
          /\ \A b \in DOMAIN assetFile : assetFile'[b] = assetFile[b]
      BY <2>1 DEF NextUp, MediaTypeOK
    <2>3. /\ handling'[d] = Quiet /\ \A g \in Designers \ {d} : handling'[g] = handling[g]
          /\ h.row \in Placements /\ h.new \in MediaFiles
          /\ \A b \in DOMAIN assetFile : assetFile[b] # h.new
      BY <1>1, <2>1 DEF Goto, StepsOK, Handlings, AssetsApart, Uploading
    <2>4. /\ Kept' = Kept /\ \A q \in Placements : placement'[q].file = placement[q].file
          /\ \A q \in Placements \ {h.row} : placement'[q].asset = placement[q].asset
          /\ h.row \in Kept => placement'[h.row].asset = a
      <3>1. CASE h.row \in Kept
        <4> DEFINE w == [placement[h.row] EXCEPT !.asset = a]
        <4>1. placement' = [placement EXCEPT ![h.row] = w]
          BY <1>1, <2>1, <3>1
        <4>2. w.file = placement[h.row].file /\ w.at = placement[h.row].at /\ w.asset = a
          BY <1>1, <2>3 DEF PlacementRecords
        <4> HIDE DEF w
        <4>3. placement'[h.row] = w /\ \A q \in Placements \ {h.row} : placement'[q] = placement[q]
          BY <1>1, <2>3, <4>1
        <4>4. \A q \in Placements : placement'[q].at = placement[q].at
          BY <4>2, <4>3
        <4>5. Kept' = Kept
          BY <4>4 DEF Kept
        <4> QED
          BY <4>2, <4>3, <4>5
      <3>2. CASE h.row \notin Kept
        BY <2>1, <3>2 DEF Kept
      <3> QED
        BY <3>1, <3>2
    <2>5. ErasuresDue' /\ ShownExists'
      <3>1. lateSaves \subseteq lateSaves'
        BY <2>1
      <3> QED
        BY <1>1, <2>1, <2>3, <2>4, <3>1 DEF ErasuresDue, ShownExists, Quiet
    <2>6. AssetsExist'
      BY <1>1, <2>2, <2>4 DEF AssetsExist
    <2>7. ShowsItsAsset'
      <3>0. exposed' = exposed /\ \A q \in Kept' : q \in Kept /\ placement'[q].file = placement[q].file
        BY <1>1, <2>1, <2>4
      <3> SUFFICES ASSUME NEW q \in Kept \ lateSaves', NEW b \in DOMAIN assetFile',
                          placement[q].file = assetFile'[b]
                   PROVE  placement'[q].asset = b \/ assetFile'[b] \in exposed
        BY <3>0 DEF ShowsItsAsset
      <3>1. q \in Placements /\ q \notin lateSaves
        BY <1>1, <2>1
      <3>2. CASE b = a
        <4>1. Owns(q, h.new) /\ Owns(h.row, h.new)
          BY <2>2, <3>2 DEF Owns
        <4>2. q = h.row \/ h.new \in exposed
          BY <2>3, <3>1, <4>1 DEF FilesOwned
        <4> QED
          BY <2>2, <2>4, <3>2, <4>2
      <3>3. CASE b # a
        <4>1. b \in DOMAIN assetFile /\ assetFile'[b] = assetFile[b]
          BY <2>2, <3>3
        <4>2. CASE q = h.row
          BY <2>1, <2>3, <4>1, <4>2
        <4>3. CASE q # h.row
          BY <2>4, <3>1, <4>1, <4>3 DEF ShowsItsAsset
        <4> QED
          BY <4>2, <4>3
      <3> QED
        BY <3>2, <3>3
    <2> QED
      BY <2>5, <2>6, <2>7
  <1>7. ASSUME NEW d \in Designers, RemovePlacement(d)
        PROVE  ErasuresDue' /\ ShowsItsAsset' /\ AssetsExist' /\ ShownExists'
    <2> DEFINE h == handling[d]
               w == [placement[h.row] EXCEPT !.at = "gone", !.asset = NoMedia]
    <2>1. /\ h.step = "delete" /\ h.row \in Placements
          /\ placement' = [placement EXCEPT ![h.row] = w]
          /\ lateSaves' = lateSaves /\ exposed' = exposed
          /\ assetFile' = assetFile /\ onDisk' = onDisk
      BY <1>1, <1>7 DEF RemovePlacement, DiskKept, StepsOK
    <2>2. w.at = "gone"
      BY <1>1, <2>1 DEF PlacementRecords
    <2> HIDE DEF w
    <2>3. placement'[h.row] = w /\ \A q \in Placements \ {h.row} : placement'[q] = placement[q]
      BY <1>1, <2>1
    <2>4. Kept' = Kept \ {h.row}
      BY <2>2, <2>3 DEF Kept, Places
    <2>5. /\ \A g \in Designers \ {d} : handling'[g] = handling[g]
          /\ handling'[d] = Quiet \/ handling'[d].row = h.row
      BY <1>7, MediaWrites DEF Writes
    <2> QED
      BY <1>2, <2>1, <2>3, <2>4, <2>5 DEF Quiet
  <1>8. ASSUME NEW d \in Designers, CheckAsset(d) \/ KillRequest(d)
        PROVE  ErasuresDue' /\ ShowsItsAsset' /\ AssetsExist' /\ ShownExists'
    <2>1. /\ placement' = placement /\ lateSaves' = lateSaves /\ exposed' = exposed
          /\ assetFile' = assetFile /\ onDisk' = onDisk /\ (Goto(d, "none") \/ Goto(d, "drop"))
      BY <1>8 DEF CheckAsset, KillRequest, RowsKept, DiskKept
    <2>2. /\ \A g \in Designers \ {d} : handling'[g] = handling[g]
          /\ handling'[d].step # "erase"
      <3>1. Proceeds(d, "none") \/ Proceeds(d, "drop")
        BY <2>1, MediaProceeds
      <3> QED
        BY <3>1 DEF Proceeds, Quiet
    <2>3. Kept' = Kept
      BY <2>1 DEF Kept
    <2> QED
      BY <1>2, <2>1, <2>2, <2>3
  <1>9. ASSUME NEW d \in Designers, DropAsset(d)
        PROVE  ErasuresDue' /\ ShowsItsAsset' /\ AssetsExist' /\ ShownExists'
    <2> DEFINE a == handling[d].seen.asset
    <2>1. /\ placement' = placement /\ lateSaves' = lateSaves /\ exposed' = exposed
          /\ Goto(d, "none")
      BY <1>9 DEF DropAsset, RowsKept
    <2>2. handling'[d] = Quiet /\ \A g \in Designers \ {d} : handling'[g] = handling[g]
      BY <1>1, <2>1 DEF Goto
    <2>3. Kept' = Kept
      BY <2>1 DEF Kept
    <2>4. /\ ErasuresDue'
          /\ assetFile' = assetFile => ShowsItsAsset' /\ AssetsExist'
          /\ onDisk \subseteq onDisk' => ShownExists'
      BY <1>2, <2>1, <2>2, <2>3 DEF Quiet
    <2>5. CASE Referenced(a) \/ a \notin DOMAIN assetFile
      BY <1>9, <2>4, <2>5 DEF DropAsset
    <2>6. CASE ~(Referenced(a) \/ a \notin DOMAIN assetFile)
      <3>1. /\ DOMAIN assetFile' = DOMAIN assetFile \ {a} /\ a \in DOMAIN assetFile
            /\ \A b \in DOMAIN assetFile' : assetFile'[b] = assetFile[b]
            /\ onDisk' = onDisk \ {assetFile[a]}
        BY <1>9, <2>6 DEF DropAsset
      <3>2. \A r \in Kept : placement[r].asset # a
        BY <2>6 DEF Referenced
      <3>3. \A r \in Kept \ lateSaves : placement[r].file = assetFile[a] => assetFile[a] \in exposed
        BY <3>1, <3>2 DEF ShowsItsAsset
      <3>4. ShownExists'
        BY <2>1, <2>3, <3>1, <3>3 DEF ShownExists
      <3>5. AssetsExist'
        BY <2>1, <2>3, <3>1, <3>2 DEF AssetsExist
      <3>6. ShowsItsAsset'
        BY <2>1, <2>3, <3>1 DEF ShowsItsAsset
      <3> QED
        BY <2>4, <3>4, <3>5, <3>6
    <2> QED
      BY <2>5, <2>6
  <1>10. ASSUME DuplicateSection \/ PublishAndReopen \/ RemoveSection \/ UndoChange
        PROVE  ErasuresDue' /\ ShowsItsAsset' /\ AssetsExist' /\ ShownExists'
    <2>1. Carries
      BY <1>10, MediaCarries
    <2>2. /\ handling' = handling /\ lateSaves' = lateSaves /\ exposed \subseteq exposed'
          /\ assetFile' = assetFile /\ onDisk' = onDisk
      BY <2>1 DEF Carries, DiskKept
    <2>3. \A r \in Kept' :
              \/ /\ \A d \in Designers : handling[d].row # r
                 /\ placement'[r].file \in {NoMedia} \cup exposed'
                 /\ placement'[r].asset \in DOMAIN assetFile \cup {NoMedia}
              \/ /\ placement'[r].file = placement[r].file
                 /\ placement'[r].asset = placement[r].asset
                 /\ r \in Kept
      BY <2>1 DEF Carries, Kept, Places
    <2>4. \A a \in DOMAIN assetFile : assetFile[a] # NoMedia
      BY MediaAssumption DEF AssetsApart, MediaTyped
    <2>5. ErasuresDue'
      BY <2>2, <2>3 DEF ErasuresDue
    <2>6. ShowsItsAsset' /\ AssetsExist' /\ ShownExists'
      BY <2>2, <2>3, <2>4 DEF ShowsItsAsset, AssetsExist, ShownExists
    <2> QED
      BY <2>5, <2>6
  <1> QED
    BY <1>3, <1>4, <1>5, <1>6, <1>7, <1>8, <1>9, <1>10, MediaCases

\* Placements refer to assets that exist, and show pictures that exist unless
\* a form was late or an undo restored them; the file of an asset in use goes
\* by its name only (the forms, deletions, copies and undo of slides and banners).
THEOREM MediaIsSound == MediaSpec => []MediaSound
  <1>1. MediaInv /\ UNCHANGED mediaVars => MediaInv'
    <2> SUFFICES ASSUME MediaInv, UNCHANGED mediaVars PROVE MediaInv'
      OBVIOUS
    <2>1. /\ Kept' = Kept /\ \A r, f : Owns(r, f)' <=> Owns(r, f)
          /\ \A d : Uploading(d)' <=> Uploading(d)
      BY DEF mediaVars, Kept, Owns, Uploading
    <2>2. MediaTypeOK' /\ MediaTyped' /\ StepsOK'
      BY DEF mediaVars, MediaInv, MediaTypeOK, MediaTyped, StepsOK
    <2>3. FilesOwned' /\ FilesAreNew' /\ AssetsApart'
      BY <2>1 DEF mediaVars, MediaInv, FilesOwned, FilesAreNew, AssetsApart
    <2>4. ErasuresDue' /\ ShowsItsAsset' /\ AssetsExist' /\ ShownExists'
      BY <2>1 DEF mediaVars, MediaInv, ErasuresDue, ShowsItsAsset, AssetsExist, ShownExists
    <2> QED
      BY <2>2, <2>3, <2>4 DEF MediaInv
  <1>2. MediaInv /\ [MediaNext]_mediaVars => MediaInv'
    BY <1>1, MediaStepTypes, MediaStepFiles, MediaStepAssets, MediaStepPictures DEF MediaInv
  <1>3. MediaInv => MediaSound
    <2> SUFFICES ASSUME MediaInv, NEW r \in Kept, placement[r].asset # NoMedia
                 PROVE  assetFile[placement[r].asset] \in onDisk \cup byName
      BY DEF MediaInv, MediaSound, SharedFilesStay
    <2> QED
      BY DEF MediaInv, AssetsExist, AssetsApart
  <1> QED
    BY <1>2, <1>3, MediaInitial, PTL DEF MediaSpec

-----------------------------------------------------------------------------
(* The catalogue.                                                          *)

(* Types.                                                                  *)
CatalogueTypes ==
    /\ CatalogueTypeOK
    /\ item \in [category : Categories \cup {Unused}, status : {"draft", "active"}]
    /\ deleting \subseteq Categories /\ addedLate \subseteq Categories
    /\ cascaded \subseteq Categories
    /\ toggling \subseteq [category : Categories, attribute : Attributes, row : Entry]
    /\ cleaning \in Categories \cup {Unused}
    /\ grownUnder \in BOOLEAN /\ relaxed \in BOOLEAN

(* What is below a category whose deletion was permitted was put there     *)
(* since.                                                                  *)
DeletedWithLate ==
    \A c \in deleting : Exists(c) => Below(c) \ {c} \subseteq addedLate

(* A published product has a category.                                     *)
OnSaleIsPlaced == Published => item.category \in Categories

CatalogueInv ==
    /\ CatalogueTypes /\ TreeSound /\ NothingSweptAway /\ DeletedWithLate
    /\ ProductPlaced /\ OnSaleIsPlaced /\ PublishedComplete

(* The categories there are, with the root.                                *)
Nodes == {Root} \cup {d \in Categories : Exists(d)}

\* What a category hands down: its own entry, if that is handed down at all,
\* or what its parent hands down.
Handed(a) ==
    HandedDown(a) =
        [c \in Nodes |->
            IF c = Root THEN NoEntry
            ELSE IF schema[c][a] # NoEntry /\ schema[c][a].inherited THEN schema[c][a]
            ELSE HandedDown(a)[parent[c]]]

LEMMA HandsDown ==
    \A a \in Attributes : CatalogueTypeOK /\ TreeSound => Handed(a)
<1> SUFFICES ASSUME NEW a \in Attributes, CatalogueTypeOK, TreeSound
             PROVE  Handed(a)
  OBVIOUS
<1> DEFINE own(c) == schema[c][a] # NoEntry /\ schema[c][a].inherited
           top(c) == IF own(c) THEN schema[c][a] ELSE NoEntry
           mid(c) == IF own(c) THEN schema[c][a]
                     ELSE IF parent[c] = Root THEN NoEntry ELSE top(parent[c])
           f == [c \in Nodes |-> IF c = Root THEN NoEntry
                                  ELSE IF own(c) THEN schema[c][a]
                                  ELSE IF parent[c] = Root THEN NoEntry ELSE mid(parent[c])]
<1>1. \A c \in Nodes \ {Root} :
          /\ parent[c] \in Nodes
          /\ parent[c] # Root /\ parent[parent[c]] # Root
                 => parent[parent[parent[c]]] = Root
  BY CatalogueAssumption DEF Nodes, CatalogueTypeOK, TreeSound, Exists
<1>2. ASSUME NEW c \in Nodes, c # Root, ~own(c)
      PROVE  f[c] = f[parent[c]]
  <2>1. parent[c] \in Nodes
    BY <1>1, <1>2
  <2>2. CASE parent[c] = Root
    BY <1>2, <2>1, <2>2
  <2>3. CASE parent[c] # Root
    <3>1. /\ f[c] = mid(parent[c])
          /\ f[parent[c]] = IF own(parent[c]) THEN schema[parent[c]][a]
                            ELSE IF parent[parent[c]] = Root THEN NoEntry
                            ELSE mid(parent[parent[c]])
      BY <1>2, <2>1, <2>3
    <3>2. parent[parent[c]] # Root => mid(parent[parent[c]]) = top(parent[parent[c]])
      BY <1>1, <1>2, <2>1, <2>3
    <3>. QED
      BY <3>1, <3>2
  <2>. QED
    BY <2>2, <2>3
<1>3. f = [c \in Nodes |-> IF c = Root THEN NoEntry
                            ELSE IF own(c) THEN schema[c][a] ELSE f[parent[c]]]
  BY <1>2
<1>. QED
  BY <1>3 DEF Handed, HandedDown, Nodes

\* What is asked for in a category stays the same while the category, those
\* above it and their entries do.
LEMMA AskedTheSame ==
    ASSUME CatalogueTypeOK, TreeSound, CatalogueTypeOK', TreeSound',
           NEW c \in Categories, Exists(c), Exists(c)',
           \A d \in Categories :
               d = c \/ d = parent[c] \/ d = parent[parent[c]]
                   => parent'[d] = parent[d] /\ schema'[d] = schema[d]
    PROVE  Requires(c)' = Requires(c)
<1>1. \A a \in Attributes : Handed(a) /\ Handed(a)'
  <2>1. \A a \in Attributes : Handed(a)
    BY HandsDown
  <2>2. (\A a \in Attributes : CatalogueTypeOK /\ TreeSound => Handed(a))'
    BY HandsDown, PTL
  <2>. QED
    BY <2>1, <2>2
<1>2. /\ parent'[c] = parent[c] /\ schema'[c] = schema[c]
      /\ parent[c] # Root => /\ parent[c] \in Categories /\ Exists(parent[c])
                             /\ parent'[parent[c]] = parent[parent[c]]
                             /\ schema'[parent[c]] = schema[parent[c]]
  BY CatalogueAssumption DEF CatalogueTypeOK, TreeSound, Exists
<1>3. parent[c] # Root /\ parent[parent[c]] # Root =>
          /\ parent[parent[c]] \in Categories /\ Exists(parent[parent[c]])
          /\ parent[parent[parent[c]]] = Root
          /\ parent'[parent[parent[c]]] = Root
          /\ schema'[parent[parent[c]]] = schema[parent[parent[c]]]
  BY <1>2, CatalogueAssumption DEF CatalogueTypeOK, TreeSound, Exists
<1>4. ASSUME NEW a \in Attributes
      PROVE  HandedDown(a)'[parent[c]] = HandedDown(a)[parent[c]]
  <2> DEFINE old == HandedDown(a)
             new == HandedDown(a)'
  <2>1. \A d \in Nodes : old[d] =
            IF d = Root THEN NoEntry
            ELSE IF schema[d][a] # NoEntry /\ schema[d][a].inherited THEN schema[d][a]
            ELSE old[parent[d]]
    BY <1>1, <1>4 DEF Handed
  <2>2. \A d \in Nodes' : new[d] =
            IF d = Root THEN NoEntry
            ELSE IF schema'[d][a] # NoEntry /\ schema'[d][a].inherited THEN schema'[d][a]
            ELSE new[parent'[d]]
    BY <1>1, <1>4 DEF Handed
  <2>3. /\ Root \in Nodes /\ Root \in Nodes'
        /\ parent[c] # Root => parent[c] \in Nodes /\ parent[c] \in Nodes'
        /\ parent[c] # Root /\ parent[parent[c]] # Root =>
               parent[parent[c]] \in Nodes /\ parent[parent[c]] \in Nodes'
    BY <1>2, <1>3, CatalogueAssumption DEF Nodes, Exists
  <2>4. new[Root] = old[Root]
    BY <2>1, <2>2, <2>3
  <2>5. parent[c] # Root /\ parent[parent[c]] # Root =>
            new[parent[parent[c]]] = old[parent[parent[c]]]
    BY <2>1, <2>2, <2>3, <2>4, <1>3
  <2>6. parent[c] # Root => new[parent[c]] = old[parent[c]]
    BY <2>1, <2>2, <2>3, <2>4, <2>5, <1>2
  <2>. QED
    BY <2>4, <2>6
<1>5. \A a \in Attributes : Resolved(c, a)' = Resolved(c, a)
  BY <1>2, <1>4 DEF Resolved
<1>. QED
  BY <1>5 DEF Requires, AsksFor

\* Nothing that is asked of the product, or that it has, changes.
LEMMA StaysComplete ==
    ASSUME CatalogueInv, CatalogueTypeOK', TreeSound',
           UNCHANGED <<parent, schema, kind, assigned, item, relaxed>>
    PROVE  PublishedComplete'
<1> SUFFICES ASSUME Published, ~relaxed
             PROVE  Publishable(item.category, assigned)'
  BY DEF PublishedComplete, Published
<1>1. /\ item.category \in Categories /\ Exists(item.category) /\ Exists(item.category)'
      /\ CatalogueTypeOK /\ TreeSound
  BY DEF CatalogueInv, CatalogueTypes, OnSaleIsPlaced, ProductPlaced, Exists
<1>2. ASSUME NEW k \in Categories, k = item.category
      PROVE  Requires(k)' = Requires(k)
  BY <1>1, <1>2, AskedTheSame
<1>3. Requires(item.category)' = Requires(item.category)
  BY <1>1, <1>2
<1>. QED
  BY <1>3 DEF CatalogueInv, PublishedComplete, Publishable, Filled

---------------------------------------------------------------------------
LEMMA CatalogueStarts == CatalogueInit => CatalogueInv
<1> SUFFICES ASSUME CatalogueInit
             PROVE  CatalogueInv
  OBVIOUS
<1>. USE CatalogueAssumption DEF CatalogueInit
<1>1. CatalogueTypes
  BY DEF CatalogueTypes, CatalogueTypeOK, Kinds, NoValue
<1>2. TreeSound /\ NothingSweptAway /\ DeletedWithLate
  BY DEF TreeSound, NothingSweptAway, DeletedWithLate, Exists
<1>3. ProductPlaced /\ OnSaleIsPlaced /\ PublishedComplete
  BY DEF ProductPlaced, OnSaleIsPlaced, PublishedComplete, Published
<1>. QED
  BY <1>1, <1>2, <1>3 DEF CatalogueInv

\* A category that is added has nothing below it, and no parent that is gone.
LEMMA AddingKeepsCatalogue ==
    ASSUME CatalogueInv, NEW c \in Categories, NEW p \in Categories \cup {Root},
           AddCategory(c, p)
    PROVE  CatalogueInv'
<1>. USE CatalogueAssumption
<1>1. /\ parent' = [parent EXCEPT ![c] = p] /\ parent[c] = Unused
      /\ UNCHANGED <<schema, kind, assigned, item, cleaning, relaxed, toggling, deleting, cascaded>>
      /\ p \in Categories => Exists(p)
  BY DEF AddCategory, SchemaUnchanged, ProductUnchanged, MayHold, Exists, CatalogueInv,
         CatalogueTypes, CatalogueTypeOK
<1>2. CatalogueTypes'
  BY <1>1 DEF AddCategory, CatalogueInv, CatalogueTypes, CatalogueTypeOK
<1>3. /\ \A d \in Categories : parent[d] # c
      /\ \A d \in Categories \ {c} : parent'[d] = parent[d] /\ (Exists(d)' <=> Exists(d))
      /\ parent'[c] = p /\ Exists(c)' /\ ~Exists(c)
  BY <1>1 DEF CatalogueInv, CatalogueTypes, CatalogueTypeOK, TreeSound, Exists
<1>4. TreeSound'
  <2>1. ASSUME NEW d \in Categories, Exists(d)', parent'[d] # Root
        PROVE  /\ Exists(parent[d])'
               /\ parent'[parent'[d]] # Root => parent'[parent'[parent'[d]]] = Root
    <3>1. CASE d = c
      BY <1>1, <1>3, <2>1, <3>1 DEF AddCategory, MayHold, Exists, CatalogueInv,
             CatalogueTypes, CatalogueTypeOK, TreeSound
    <3>2. CASE d # c
      BY <1>1, <1>3, <2>1, <3>2 DEF CatalogueInv, CatalogueTypes, CatalogueTypeOK,
             TreeSound, Exists
    <3>. QED
      BY <3>1, <3>2
  <2>2. \A d \in Categories, a \in Attributes : schema'[d][a] # NoEntry => Exists(d)'
    BY <1>1, <1>3 DEF CatalogueInv, TreeSound
  <2>. QED
    BY <2>1, <2>2 DEF TreeSound
<1>5. NothingSweptAway' /\ DeletedWithLate'
  <2>1. addedLate \subseteq addedLate'
    BY DEF AddCategory
  <2>2. ASSUME NEW e \in deleting, Exists(e)', NEW d \in Below(e)', d # e
        PROVE  d \in addedLate'
    <3>1. CASE d = c
      <4>1. p = e \/ p \in Children(e) \/ \E q \in Children(e) : p \in Children(q)
        BY <1>3, <2>2, <3>1 DEF Below, Children, CatalogueInv, CatalogueTypes, CatalogueTypeOK
      <4>2. CASE p = e
        BY <3>1, <4>2 DEF AddCategory
      <4>3. CASE p # e
        <5>1. e # c
          BY <1>3, <4>1, <4>3 DEF Children
        <5>2. Exists(e) /\ p \in Below(e) \ {e}
          BY <1>3, <2>2, <4>1, <4>3, <5>1 DEF Below, CatalogueInv, CatalogueTypes
        <5>. QED
          BY <3>1, <5>2 DEF AddCategory, CatalogueInv, DeletedWithLate
      <4>. QED
        BY <4>2, <4>3
    <3>2. CASE d # c
      <4>1. \A q \in Categories : Children(q)' \ {c} \subseteq Children(q)
        BY <1>3 DEF Children
      <4>2. Children(c)' = {}
        BY <1>1, <1>3 DEF Children
      <4>3. e \in Categories /\ e # c
        BY <2>2, <4>2, <1>1 DEF Below, CatalogueInv, CatalogueTypes
      <4>4. d \in Children(e)' \/ \E q \in Children(e)' : d \in Children(q)'
        BY <2>2 DEF Below
      <4>5. \A q \in Children(e)' : q # c => q \in Children(e) /\ q \in Categories
        BY <4>1, <4>3 DEF Children
      <4>6. d \in Children(e) \/ \E q \in Children(e) : d \in Children(q)
        BY <3>2, <4>1, <4>2, <4>4, <4>5
      <4>7. d \in Below(e)
        BY <4>6 DEF Below
      <4>. QED
        BY <1>3, <2>1, <2>2, <4>3, <4>7 DEF CatalogueInv, DeletedWithLate
    <3>. QED
      BY <3>1, <3>2
  <2>. QED
    BY <1>1, <2>1, <2>2 DEF NothingSweptAway, DeletedWithLate, CatalogueInv
<1>6. ProductPlaced' /\ OnSaleIsPlaced'
  <2>1. OnSaleIsPlaced'
    BY <1>1 DEF OnSaleIsPlaced, Published, CatalogueInv
  <2>2. ASSUME item.category \in Categories
        PROVE  /\ item.category # c /\ Exists(item.category)'
               /\ parent'[item.category] # Root
    BY <1>1, <1>3, <2>2 DEF CatalogueInv, ProductPlaced
  <2>3. ASSUME item.category \in Categories, ~grownUnder'
        PROVE  Children(item.category)' = {}
    <3>1. p # item.category /\ Children(item.category) = {}
      BY <2>3 DEF AddCategory, CatalogueInv, ProductPlaced
    <3>. QED
      BY <1>1, <1>3, <3>1 DEF Children
  <2>. QED
    BY <1>1, <2>1, <2>2, <2>3 DEF ProductPlaced, Children
<1>7. PublishedComplete'
  <2> SUFFICES ASSUME Published, ~relaxed
               PROVE  Publishable(item.category, assigned)'
    BY <1>1 DEF PublishedComplete, Published
  <2>1. /\ item.category \in Categories /\ Exists(item.category) /\ Exists(item.category)'
        /\ parent[item.category] # Root
    BY <1>1, <1>3 DEF CatalogueInv, OnSaleIsPlaced, ProductPlaced
  <2>2. Requires(item.category)' = Requires(item.category)
    <3>1. \A d \in Categories :
              d = item.category \/ d = parent[item.category] \/ d = parent[parent[item.category]]
                  => parent'[d] = parent[d] /\ schema'[d] = schema[d]
      BY <1>1, <1>3, <2>1 DEF CatalogueInv, CatalogueTypes, CatalogueTypeOK, TreeSound, Exists
    <3>2. item' = item
      BY <1>1
    <3>3. CatalogueTypeOK /\ TreeSound /\ CatalogueTypeOK' /\ TreeSound'
      BY <1>2, <1>4 DEF CatalogueInv, CatalogueTypes
    <3>4. ASSUME NEW k \in Categories, k = item.category
          PROVE  Requires(k)' = Requires(k)
      BY <2>1, <3>1, <3>2, <3>3, <3>4, AskedTheSame
    <3>. QED
      BY <2>1, <3>2, <3>4
  <2>. QED
    BY <1>1, <2>2 DEF CatalogueInv, PublishedComplete, Publishable, Filled
<1>. QED
  BY <1>2, <1>4, <1>5, <1>6, <1>7 DEF CatalogueInv

\* A deletion takes along all that is below the category, and nothing above
\* the product's.
LEMMA DeletingKeepsCatalogue ==
    ASSUME CatalogueInv, NEW c \in Categories, DeleteCategory(c)
    PROVE  CatalogueInv'
<1>. USE CatalogueAssumption
<1>1. /\ parent' = [d \in Categories |-> IF d \in Below(c) THEN Deleted ELSE parent[d]]
      /\ schema' = [d \in Categories |->
             IF d \in Below(c) THEN [a \in Attributes |-> NoEntry] ELSE schema[d]]
      /\ cascaded' = cascaded \cup (Below(c) \ {c}) /\ deleting' = deleting \ {c}
      /\ UNCHANGED <<assigned, item, cleaning, relaxed, kind, toggling, addedLate, grownUnder>>
      /\ c \in deleting /\ Exists(c) /\ item.category \notin Below(c)
      /\ Below(c) \subseteq Categories
  BY DEF DeleteCategory, ProductUnchanged, Below, Children
<1>2. CatalogueTypes'
  BY <1>1 DEF CatalogueInv, CatalogueTypes, CatalogueTypeOK
<1>3. /\ \A d \in Categories \ Below(c) : parent'[d] = parent[d] /\ (Exists(d)' <=> Exists(d))
      /\ \A d \in Below(c) : parent'[d] = Deleted /\ ~Exists(d)'
  BY <1>1 DEF CatalogueInv, CatalogueTypes, CatalogueTypeOK, Exists
<1>4. ASSUME NEW d \in Categories \ Below(c), Exists(d)
      PROVE  parent[d] \notin Below(c)
  <2>1. parent[d] # c /\ parent[d] \notin Children(c)
    BY <1>4 DEF Below, Children
  <2>2. ASSUME NEW q \in Children(c), parent[d] \in Children(q)
        PROVE  FALSE
    <3>1. /\ parent[d] \in Categories /\ parent[parent[d]] = q
          /\ q \in Categories /\ parent[q] = c
      BY <2>2 DEF Children
    <3>. QED
      BY <1>4, <3>1 DEF CatalogueInv, TreeSound
  <2>. QED
    BY <2>1, <2>2 DEF Below
<1>5. TreeSound'
  <2>1. ASSUME NEW d \in Categories, Exists(d)', parent'[d] # Root
        PROVE  /\ Exists(parent[d])'
               /\ parent'[parent'[d]] # Root => parent'[parent'[parent'[d]]] = Root
    <3>1. d \notin Below(c) /\ Exists(d) /\ parent'[d] = parent[d] /\ parent[d] # Root
      BY <1>3, <2>1
    <3>2. parent[d] \in Categories \ Below(c) /\ Exists(parent[d])
      BY <1>4, <3>1 DEF CatalogueInv, CatalogueTypes, CatalogueTypeOK, TreeSound, Exists
    <3>3. parent'[parent[d]] = parent[parent[d]] /\ Exists(parent[d])'
      BY <1>3, <3>1, <3>2
    <3>4. ASSUME parent[parent[d]] # Root
          PROVE  parent'[parent[parent[d]]] = Root
      <4>1. /\ parent[parent[parent[d]]] = Root
            /\ parent[parent[d]] \in Categories \ Below(c)
        BY <1>4, <3>1, <3>2, <3>4 DEF CatalogueInv, CatalogueTypes, CatalogueTypeOK, TreeSound,
               Exists
      <4>. QED
        BY <1>3, <4>1
    <3>. QED
      BY <3>1, <3>3, <3>4
  <2>2. \A d \in Categories, a \in Attributes : schema'[d][a] # NoEntry => Exists(d)'
    BY <1>1, <1>3 DEF CatalogueInv, TreeSound
  <2>. QED
    BY <2>1, <2>2 DEF TreeSound
<1>6. NothingSweptAway'
  BY <1>1 DEF NothingSweptAway, CatalogueInv, DeletedWithLate
<1>7. \A d \in Categories : Children(d)' \subseteq Children(d)
  BY <1>1, <1>3 DEF Children
<1>8. DeletedWithLate'
  <2>1. ASSUME NEW e \in deleting', Exists(e)'
        PROVE  /\ e \in deleting /\ Exists(e)
               /\ Below(e)' \subseteq Below(e)
    <3>1. e \in deleting /\ e \in Categories
      BY <1>1, <2>1 DEF CatalogueInv, CatalogueTypes
    <3>2. Children(e)' \subseteq Children(e) /\ \A q \in Children(e)' : Children(q)' \subseteq Children(q)
      BY <1>7, <3>1 DEF Children
    <3>. QED
      BY <1>3, <2>1, <3>1, <3>2 DEF Below
  <2>. QED
    BY <1>1, <2>1 DEF DeletedWithLate, CatalogueInv
<1>9. ProductPlaced' /\ OnSaleIsPlaced'
  <2>1. OnSaleIsPlaced'
    BY <1>1 DEF OnSaleIsPlaced, Published, CatalogueInv
  <2>2. ASSUME item.category \in Categories
        PROVE  /\ Exists(item.category)' /\ parent'[item.category] # Root
               /\ ~grownUnder' => Children(item.category)' = {}
    BY <1>1, <1>3, <1>7, <2>2 DEF CatalogueInv, ProductPlaced
  <2>. QED
    BY <1>1, <2>1, <2>2 DEF ProductPlaced
<1>10. PublishedComplete'
  <2> SUFFICES ASSUME Published, ~relaxed
               PROVE  Publishable(item.category, assigned)'
    BY <1>1 DEF PublishedComplete, Published
  <2>1. /\ item.category \in Categories \ Below(c) /\ Exists(item.category)
        /\ Exists(item.category)' /\ parent[item.category] # Root
    BY <1>1, <1>3 DEF CatalogueInv, OnSaleIsPlaced, ProductPlaced
  <2>2. /\ parent[item.category] \in Categories \ Below(c) /\ Exists(parent[item.category])
        /\ parent[parent[item.category]] \notin Below(c)
    BY <1>4, <2>1 DEF CatalogueInv, CatalogueTypes, CatalogueTypeOK, TreeSound, Exists
  <2>3. \A d \in Categories :
              d = item.category \/ d = parent[item.category] \/ d = parent[parent[item.category]]
                  => parent'[d] = parent[d] /\ schema'[d] = schema[d]
    BY <1>1, <2>1, <2>2
  <2>4. CatalogueTypeOK /\ TreeSound /\ CatalogueTypeOK' /\ TreeSound'
    BY <1>2, <1>5 DEF CatalogueInv, CatalogueTypes
  <2>5. item' = item
    BY <1>1
  <2>6. ASSUME NEW k \in Categories, k = item.category
        PROVE  Requires(k)' = Requires(k)
    BY <2>1, <2>3, <2>4, <2>5, <2>6, AskedTheSame
  <2>7. Requires(item.category)' = Requires(item.category)
    BY <2>1, <2>5, <2>6
  <2>. QED
    BY <1>1, <2>7 DEF CatalogueInv, PublishedComplete, Publishable, Filled
<1>. QED
  BY <1>2, <1>5, <1>6, <1>8, <1>9, <1>10 DEF CatalogueInv

\* The two ends of a deletion that is not made change no row.
LEMMA CheckingKeepsCatalogue ==
    ASSUME CatalogueInv, NEW c \in Categories, CheckDeletion(c) \/ AbandonDeletion(c)
    PROVE  CatalogueInv'
<1>1. /\ UNCHANGED <<parent, schema, kind, toggling, assigned, item, cleaning, relaxed,
                     addedLate, cascaded, grownUnder>>
      /\ deleting' \subseteq deleting \cup {c}
      /\ c \in deleting' /\ c \notin deleting => Children(c) = {}
  BY DEF CheckDeletion, AbandonDeletion, MayDelete, SchemaUnchanged, ProductUnchanged
<1>2. CatalogueTypes' /\ TreeSound' /\ NothingSweptAway'
  BY <1>1 DEF CatalogueInv, CatalogueTypes, CatalogueTypeOK, TreeSound, NothingSweptAway,
              Exists
<1>3. DeletedWithLate'
  <2>1. Children(c) = {} => Below(c) = {c}
    BY DEF Below
  <2>2. \A e \in Categories : Below(e)' = Below(e) /\ Exists(e)' = Exists(e)
    BY <1>1 DEF Below, Children, Exists
  <2>3. deleting \subseteq Categories
    BY DEF CatalogueInv, CatalogueTypes
  <2>. QED
    BY <1>1, <2>1, <2>2, <2>3 DEF DeletedWithLate, CatalogueInv
<1>4. ProductPlaced' /\ OnSaleIsPlaced'
  BY <1>1 DEF CatalogueInv, ProductPlaced, OnSaleIsPlaced, Published, Exists, Children
<1>5. PublishedComplete'
  BY <1>1, <1>2, StaysComplete DEF CatalogueTypes
<1>. QED
  BY <1>2, <1>3, <1>4, <1>5 DEF CatalogueInv

\* A change of the schema, and of the type of an attribute.
LEMMA SchemaKeepsCatalogue ==
    ASSUME CatalogueInv,
           \/ \E c \in Categories, a \in Attributes :
                  (\E e \in Entry : AddEntry(c, a, e)) \/ RemoveEntry(c, a) \/ ReadEntry(c, a)
           \/ \E t \in toggling : SaveEntry(t) \/ DropEntry(t)
           \/ \E a \in Attributes, k \in Kinds : ChangeKind(a, k)
    PROVE  CatalogueInv'
<1>1. /\ UNCHANGED <<parent, deleting, addedLate, cascaded, grownUnder, assigned, item, cleaning>>
      /\ \/ UNCHANGED <<schema, kind, relaxed>>
         \/ relaxed' = (relaxed \/ Published)
  BY DEF AddEntry, RemoveEntry, ReadEntry, SaveEntry, DropEntry, ChangeKind, TreeUnchanged,
         ProductUnchanged
<1>2. CatalogueTypes' /\ (\A c \in Categories, a \in Attributes : schema'[c][a] # NoEntry => Exists(c))
  <2>1. ASSUME NEW c \in Categories, NEW a \in Attributes, NEW e \in Entry, AddEntry(c, a, e)
        PROVE  /\ CatalogueTypes'
               /\ \A d \in Categories, b \in Attributes : schema'[d][b] # NoEntry => Exists(d)
    BY <1>1, <2>1 DEF AddEntry, CatalogueInv, CatalogueTypes, CatalogueTypeOK, TreeSound
  <2>2. ASSUME NEW c \in Categories, NEW a \in Attributes, RemoveEntry(c, a)
        PROVE  /\ CatalogueTypes'
               /\ \A d \in Categories, b \in Attributes : schema'[d][b] # NoEntry => Exists(d)
    BY <1>1, <2>2 DEF RemoveEntry, CatalogueInv, CatalogueTypes, CatalogueTypeOK, TreeSound
  <2>3. ASSUME NEW c \in Categories, NEW a \in Attributes, ReadEntry(c, a)
        PROVE  /\ CatalogueTypes'
               /\ \A d \in Categories, b \in Attributes : schema'[d][b] # NoEntry => Exists(d)
    <3>1. schema[c][a] \in Entry
      BY <2>3 DEF ReadEntry, CatalogueInv, CatalogueTypes, CatalogueTypeOK
    <3>. QED
      BY <1>1, <2>3, <3>1 DEF ReadEntry, ProductUnchanged, CatalogueInv, CatalogueTypes,
             CatalogueTypeOK, TreeSound
  <2>4. ASSUME NEW t \in toggling, SaveEntry(t)
        PROVE  /\ CatalogueTypes'
               /\ \A d \in Categories, b \in Attributes : schema'[d][b] # NoEntry => Exists(d)
    <3>1. /\ t.category \in Categories /\ t.attribute \in Attributes
          /\ [t.row EXCEPT !.required = ~@] \in Entry
      BY DEF CatalogueInv, CatalogueTypes, Entry
    <3>. QED
      BY <1>1, <2>4, <3>1 DEF SaveEntry, CatalogueInv, CatalogueTypes, CatalogueTypeOK, TreeSound
  <2>5. ASSUME NEW t \in toggling, DropEntry(t)
        PROVE  /\ CatalogueTypes'
               /\ \A d \in Categories, b \in Attributes : schema'[d][b] # NoEntry => Exists(d)
    BY <1>1, <2>5 DEF DropEntry, ProductUnchanged, CatalogueInv, CatalogueTypes, CatalogueTypeOK,
           TreeSound
  <2>6. ASSUME NEW a \in Attributes, NEW k \in Kinds, ChangeKind(a, k)
        PROVE  /\ CatalogueTypes'
               /\ \A d \in Categories, b \in Attributes : schema'[d][b] # NoEntry => Exists(d)
    BY <1>1, <2>6 DEF ChangeKind, CatalogueInv, CatalogueTypes, CatalogueTypeOK, TreeSound
  <2>. QED
    BY <2>1, <2>2, <2>3, <2>4, <2>5, <2>6
<1>3. TreeSound'
  BY <1>1, <1>2 DEF TreeSound, Exists, CatalogueInv
<1>4. NothingSweptAway' /\ DeletedWithLate'
  BY <1>1 DEF NothingSweptAway, DeletedWithLate, Below, Children, Exists, CatalogueInv
<1>5. ProductPlaced' /\ OnSaleIsPlaced'
  BY <1>1 DEF CatalogueInv, ProductPlaced, OnSaleIsPlaced, Published, Exists, Children
<1>6. PublishedComplete'
  <2>1. CASE UNCHANGED <<schema, kind, relaxed>>
    BY <1>1, <1>2, <1>3, <2>1, StaysComplete DEF CatalogueTypes
  <2>2. CASE relaxed' = (relaxed \/ Published)
    BY <1>1, <2>2 DEF PublishedComplete, Published
  <2>. QED
    BY <1>1, <2>1, <2>2
<1>. QED
  BY <1>2, <1>3, <1>4, <1>5, <1>6 DEF CatalogueInv

\* A change of the product.
LEMMA ProductKeepsCatalogue ==
    ASSUME CatalogueInv,
           \/ \E c \in Categories, status \in {"draft", "active"} :
                  \/ \E entered \in SUBSET Attributes : SaveProduct(c, status, entered)
                  \/ BulkChange(c, status)
           \/ StartCleaning \/ Clean \/ DeleteProduct
    PROVE  CatalogueInv'
<1>. USE CatalogueAssumption
<1>1. UNCHANGED <<parent, schema, kind, toggling, deleting, addedLate, cascaded>>
  BY DEF SaveProduct, BulkChange, StartCleaning, Clean, DeleteProduct, TreeUnchanged,
         SchemaUnchanged
<1>2. CatalogueTypes'
  <2>1. ASSUME NEW c \in Categories, NEW status \in {"draft", "active"},
               NEW entered \in SUBSET Attributes, SaveProduct(c, status, entered)
        PROVE  CatalogueTypes'
    BY <1>1, <2>1 DEF SaveProduct, CatalogueInv, CatalogueTypes, CatalogueTypeOK, NoValue
  <2>2. ASSUME NEW c \in Categories, NEW status \in {"draft", "active"}, BulkChange(c, status)
        PROVE  CatalogueTypes'
    BY <1>1, <2>2 DEF BulkChange, CatalogueInv, CatalogueTypes, CatalogueTypeOK
  <2>3. CASE StartCleaning
    BY <1>1, <2>3 DEF StartCleaning, TreeUnchanged, CatalogueInv, CatalogueTypes, CatalogueTypeOK
  <2>4. CASE Clean
    BY <1>1, <2>4 DEF Clean, TreeUnchanged, CatalogueInv, CatalogueTypes, CatalogueTypeOK, NoValue
  <2>5. CASE DeleteProduct
    BY <1>1, <2>5 DEF DeleteProduct, CatalogueInv, CatalogueTypes, CatalogueTypeOK, NoValue
  <2>. QED
    BY <2>1, <2>2, <2>3, <2>4, <2>5
<1>3. TreeSound' /\ NothingSweptAway' /\ DeletedWithLate'
  <2>1. TreeSound' /\ NothingSweptAway'
    BY <1>1 DEF TreeSound, NothingSweptAway, Exists, CatalogueInv
  <2>2. DeletedWithLate'
    BY <1>1 DEF DeletedWithLate, Below, Children, Exists, CatalogueInv
  <2>. QED
    BY <2>1, <2>2
<1>4. \A c \in Categories : Children(c)' = Children(c) /\ Exists(c)' = Exists(c)
  BY <1>1 DEF Children, Exists
<1>5. ASSUME NEW c \in Categories, Exists(c)
      PROVE  Requires(c)' = Requires(c)
  <2>1. Exists(c)'
    BY <1>4, <1>5
  <2>2. CatalogueTypeOK /\ TreeSound /\ CatalogueTypeOK' /\ TreeSound'
    BY <1>2, <1>3 DEF CatalogueInv, CatalogueTypes
  <2>. QED
    BY <1>1, <1>5, <2>1, <2>2, AskedTheSame
<1>6. ASSUME NEW c \in Categories, NEW status \in {"draft", "active"},
             NEW entered \in SUBSET Attributes, SaveProduct(c, status, entered)
      PROVE  ProductPlaced' /\ OnSaleIsPlaced' /\ PublishedComplete'
  <2>1. /\ item' = [category |-> c, status |-> status] /\ IsLeaf(c)
        /\ status = "active" => Requires(c) \subseteq {a \in Attributes : assigned'[a] = kind[a]}
    BY <1>6 DEF SaveProduct, Publishable, Filled
  <2>2. ProductPlaced' /\ OnSaleIsPlaced'
    BY <1>1, <1>4, <2>1 DEF ProductPlaced, OnSaleIsPlaced, Published, IsLeaf
  <2>3. PublishedComplete'
    BY <1>1, <1>5, <2>1 DEF PublishedComplete, Published, Publishable, Filled, IsLeaf
  <2>. QED
    BY <2>2, <2>3
<1>7. ASSUME NEW c \in Categories, NEW status \in {"draft", "active"}, BulkChange(c, status)
      PROVE  ProductPlaced' /\ OnSaleIsPlaced' /\ PublishedComplete'
  BY <1>1, <1>4, <1>7 DEF BulkChange, CatalogueInv, ProductPlaced, OnSaleIsPlaced,
         PublishedComplete, Published, IsLeaf
<1>8. CASE StartCleaning
  <2>1. UNCHANGED <<assigned, item, relaxed, grownUnder>>
    BY <1>8 DEF StartCleaning, TreeUnchanged
  <2>2. ProductPlaced' /\ OnSaleIsPlaced'
    BY <1>1, <1>4, <2>1 DEF CatalogueInv, ProductPlaced, OnSaleIsPlaced, Published
  <2>3. PublishedComplete'
    BY <1>1, <1>2, <1>3, <2>1, StaysComplete DEF CatalogueTypes
  <2>. QED
    BY <1>2, <1>3, <2>2, <2>3 DEF CatalogueInv
<1>9. CASE Clean
  <2>1. UNCHANGED <<item, grownUnder>>
    BY <1>9 DEF Clean, TreeUnchanged
  <2>2. ProductPlaced' /\ OnSaleIsPlaced'
    BY <1>1, <1>4, <2>1 DEF CatalogueInv, ProductPlaced, OnSaleIsPlaced, Published
  <2>3. ASSUME Published, ~relaxed'
        PROVE  Requires(item.category) \subseteq {a \in Attributes : assigned'[a] = kind[a]}
    <3>1. cleaning = item.category /\ ~relaxed /\ item.category \in Categories
      BY <1>9, <2>3 DEF Clean, CatalogueInv, OnSaleIsPlaced
    <3>2. Exists(cleaning) /\ Requires(item.category) \subseteq AsksFor(cleaning)
      BY <3>1 DEF CatalogueInv, ProductPlaced, Requires
    <3>3. \A a \in AsksFor(cleaning) \cap Attributes : assigned'[a] = assigned[a]
      BY <1>9, <3>2 DEF Clean
    <3>4. Requires(item.category) \subseteq {a \in Attributes : assigned[a] = kind[a]}
      BY <2>3, <3>1 DEF CatalogueInv, PublishedComplete, Publishable, Filled
    <3>. QED
      BY <3>2, <3>3, <3>4
  <2>4. PublishedComplete'
    <3>1. Published => item.category \in Categories /\ Exists(item.category)
      BY DEF CatalogueInv, OnSaleIsPlaced, ProductPlaced
    <3>. QED
      BY <1>1, <1>5, <2>1, <2>3, <3>1 DEF PublishedComplete, Published, Publishable, Filled
  <2>. QED
    BY <1>2, <1>3, <2>2, <2>4 DEF CatalogueInv
<1>10. CASE DeleteProduct
  <2>1. item'.category = Unused /\ item'.status = "draft"
    BY <1>10 DEF DeleteProduct
  <2>. QED
    BY <1>2, <1>3, <2>1 DEF CatalogueInv, ProductPlaced, OnSaleIsPlaced, PublishedComplete,
           Published
<1>. QED
  BY <1>2, <1>3, <1>6, <1>7, <1>8, <1>9, <1>10 DEF CatalogueInv

\* The catalogue is as its rules say, whatever requests overlap: three levels,
\* nothing deleted but what was put in late, the product in a leaf but for late
\* subcategories, and complete unless it was published or changed in bulk.
THEOREM CatalogueIsSound == CatalogueSpec => []CatalogueSound
<1>1. CatalogueInv /\ [CatalogueNext]_catalogueVars => CatalogueInv'
  <2> SUFFICES ASSUME CatalogueInv, [CatalogueNext]_catalogueVars
               PROVE  CatalogueInv'
    OBVIOUS
  <2>1. CASE UNCHANGED catalogueVars
    <3>1. /\ UNCHANGED <<parent, schema, kind, assigned, item, deleting, toggling, cleaning>>
          /\ UNCHANGED <<addedLate, cascaded, grownUnder, relaxed, schemaEdits>>
      BY <2>1 DEF catalogueVars
    <3>2. CatalogueTypes' /\ TreeSound' /\ NothingSweptAway' /\ DeletedWithLate'
      BY <3>1 DEF CatalogueInv, CatalogueTypes, CatalogueTypeOK, TreeSound, NothingSweptAway,
             DeletedWithLate, Below, Children, Exists
    <3>3. ProductPlaced' /\ OnSaleIsPlaced'
      BY <3>1 DEF CatalogueInv, ProductPlaced, OnSaleIsPlaced, Published, Exists, Children
    <3>4. PublishedComplete'
      BY <3>1, <3>2, StaysComplete DEF CatalogueTypes
    <3>. QED
      BY <3>2, <3>3, <3>4 DEF CatalogueInv
  <2>2. CASE CatalogueNext
    BY <2>2, AddingKeepsCatalogue, DeletingKeepsCatalogue, CheckingKeepsCatalogue,
       SchemaKeepsCatalogue, ProductKeepsCatalogue DEF CatalogueNext
  <2>. QED
    BY <2>1, <2>2
<1>2. CatalogueInv => CatalogueSound
  BY DEF CatalogueInv, CatalogueTypes, CatalogueSound
<1>. QED
  BY CatalogueStarts, <1>1, <1>2, PTL DEF CatalogueSpec

----------------------------------------------------------------------------
(* The templates of a trade.                                               *)
Branch  == [code : Codes \cup {LeftOut}, at : Nat]
Work0   == [step : {"none", "install", "update"}, from : Nat, target : Nat,
            cats : SUBSET Codes, types : SUBSET Facets, links : SUBSET (Codes \X Facets)]

TemplateTypes ==
    /\ TemplatesTypeOK
    /\ family \in Families /\ shelf \in [Versions -> Shelf]
    /\ branches \in Seq(Branch) /\ Len(branches) <= MaxBranches
    /\ declined \in [cats : SUBSET Codes, types : SUBSET Facets]
    /\ dropped \subseteq Codes /\ owned \subseteq Facets
    /\ raced \in BOOLEAN
    /\ work \in [Installers -> Work0]

\* Only sound versions are on offer.
OfferedAreSound ==
    \A v \in Versions : shelf[v].readiness = "production_ready" => family[v].sound

\* All that a version has is in the store, was declined, or was deleted there.
Present(v) ==
    /\ \A c \in Cats(v) : Copies(c) # {} \/ c \in declined.cats \cup dropped
    /\ \A a \in Types(v) : facetType[a] # NoFacet \/ a \in declined.types

\* A request copies a sound version, or adds to a version that is present what
\* a later one has beyond it.
FitsVersions(w) ==
    /\ w.step # "none" => w.target \in Versions
    /\ w.step = "install" => family[w.target].sound
    /\ w.step = "update" =>
          /\ w.from \in Versions /\ w.from < w.target /\ Present(w.from)
          /\ w.cats \subseteq NewCats(w.from, w.target)
          /\ w.types \subseteq Types(w.target) \ Types(w.from)
          /\ w.links \subseteq family[w.target].links
RequestsFit == \A k \in Installers : FitsVersions(work[k])

InstalledPresent == (installed # 0 => Present(installed)) /\ (raced => installed # 0)

\* The store's categories come from versions up to the one installed, and one
\* that never went and came again is there once.
BranchesCopied ==
    ~raced =>
        /\ \A n \in Living : \E u \in Versions : u <= installed /\ branches[n].code \in Cats(u)
        /\ \A c \in Codes \ Returning : \A m, n \in Copies(c) : m = n

TemplatesInv ==
    /\ TemplateTypes /\ OfferedAreSound /\ RequestsFit /\ InstalledPresent
    /\ BranchesHang /\ BranchesCopied /\ CompletedIsInstalled /\ TypesAsReleased

LEMMA FamilyFacts ==
    ASSUME TemplateTypes
    PROVE  /\ Versions = 1..Len(family) /\ Len(family) \in Nat
           /\ \A v \in Versions : family[v] \in Content
           /\ \A v \in Versions, c \in Codes : family[v].parent[c] \in Codes /\ family[v].sound =>
                  family[v].parent[c] \in Cats(v)
           /\ Top \notin Codes /\ LeftOut \notin Codes /\ Top # LeftOut
           /\ NoFacet \notin DataTypes
<1>1. family \in Seq(Content)
  BY TemplatesAssumption DEF TemplateTypes
<1>2. Top \notin Codes /\ LeftOut \notin Codes /\ Top # LeftOut /\ NoFacet \notin DataTypes
  BY TemplatesAssumption DEF Top, LeftOut, NoFacet, DataTypes
<1>3. /\ Versions = 1..Len(family) /\ Len(family) \in Nat
      /\ \A v \in Versions : family[v] \in Content
  BY <1>1 DEF Versions
<1>4. \A v \in Versions, c \in Codes : family[v].parent[c] \in Codes /\ family[v].sound =>
          family[v].parent[c] \in Cats(v)
  BY TemplatesAssumption, <1>3 DEF TemplateTypes, Cats, Versions
<1>. QED
  BY <1>2, <1>3, <1>4

\* The newest of some rows is one of them.
LEMMA NewestIsOne ==
    ASSUME NEW rows, rows # {}, NEW N \in Nat, rows \subseteq 1..N
    PROVE  Newest(rows) \in rows
<1>1. \E n \in rows : \A m \in rows : m <= n
  <2> DEFINE ceiling == {N - n : n \in rows}
  <2>1. \A n \in rows : n \in Nat /\ n <= N /\ N - n \in Nat
    OBVIOUS
  <2>2. ceiling \subseteq Nat /\ ceiling # {}
    BY <2>1
  <2>3. PICK k \in ceiling : \A j \in ceiling : k <= j
    BY <2>2, SmallestMember
  <2>4. PICK n \in rows : k = N - n
    BY <2>3
  <2>5. ASSUME NEW m \in rows PROVE m <= n
    <3>1. N - n <= N - m
      BY <2>3, <2>4
    <3>. QED
      BY <2>1, <2>4, <3>1
  <2>. QED
    BY <2>4, <2>5
<1>. QED
  BY <1>1 DEF Newest

\* The rows after a copy: those before it, and one for each category copied,
\* below none, below a category of the store, or below another new one.
LEMMA CopiedRows ==
    ASSUME TemplateTypes, BranchesHang, NEW v \in Versions,
           NEW cats, cats \subseteq Cats(v), NEW new \in Orders(cats, v),
           Placeable(cats, v)
    PROVE  /\ Copied(new, v) \in Seq(Branch)
           /\ Cardinality(cats) \in Nat
           /\ Len(Copied(new, v)) = Len(branches) + Cardinality(cats)
           /\ \A n \in 1..Len(branches) : Copied(new, v)[n] = branches[n]
           /\ \A i \in 1..Cardinality(cats) :
                  /\ Copied(new, v)[Len(branches) + i].code = new[i]
                  /\ \/ Copied(new, v)[Len(branches) + i].at \in {0} \cup Living
                     \/ \E j \in 1..Cardinality(cats) :
                            Copied(new, v)[Len(branches) + i].at = Len(branches) + j
<1> DEFINE N == Cardinality(cats)
           added == {new[n] : n \in DOMAIN new}
           PlaceOf(c) == IF c = Top THEN 0
                     ELSE IF c \in added THEN Len(branches) + (CHOOSE n \in DOMAIN new : new[n] = c)
                     ELSE Newest(Copies(c))
           more == [n \in DOMAIN new |-> [code |-> new[n], at |-> PlaceOf(family[v].parent[new[n]])]]
<1>1. cats \subseteq Codes /\ IsFiniteSet(cats) /\ N \in Nat
  <2>1. cats \subseteq 1..98
    BY TemplatesAssumption DEF Cats
  <2>2. IsFiniteSet(1..98)
    <3>1. 1 \in Int /\ 98 \in Int
      OBVIOUS
    <3>. QED
      BY <3>1, FS_Interval, Zenon
  <2>3. IsFiniteSet(cats)
    BY <2>1, <2>2, FS_Subset
  <2>. QED
    BY <2>3, FS_CardinalityType DEF Cats
<1>2. new \in [1..N -> cats] /\ added = cats
  BY DEF Orders, Bijection, Injection, Surjection
<1>3. ASSUME NEW i \in 1..N
      PROVE  \/ PlaceOf(family[v].parent[new[i]]) \in {0} \cup Living
             \/ \E j \in 1..N : PlaceOf(family[v].parent[new[i]]) = Len(branches) + j
  <2> DEFINE p == family[v].parent[new[i]]
  <2>1. new[i] \in cats
    BY <1>2, <1>3
  <2>2. CASE p = Top
    BY <2>2
  <2>3. CASE p # Top /\ p \in cats
    <3>1. \E n \in DOMAIN new : new[n] = p
      BY <1>2, <2>3
    <3>2. (CHOOSE n \in DOMAIN new : new[n] = p) \in 1..N
      BY <1>2, <3>1
    <3>. QED
      BY <1>2, <2>3, <3>2
  <2>4. CASE p # Top /\ p \notin cats
    <3>1. Copies(p) # {}
      BY <2>1, <2>4 DEF Placeable
    <3>2. Copies(p) \subseteq 1..Len(branches) /\ Len(branches) \in Nat
      BY DEF Copies, Living, TemplateTypes
    <3>3. Newest(Copies(p)) \in Living
      BY <3>1, <3>2, NewestIsOne DEF Copies
    <3>. QED
      BY <1>2, <2>4, <3>3
  <2>. QED
    BY <2>2, <2>3, <2>4
<1>4. /\ branches \in Seq(Branch) /\ Len(branches) \in Nat /\ Living \subseteq Nat
  BY DEF TemplateTypes, Living
<1>5. ASSUME NEW i \in 1..N PROVE PlaceOf(family[v].parent[new[i]]) \in Nat
  <2> DEFINE r == PlaceOf(family[v].parent[new[i]])
  <2> HIDE DEF PlaceOf
  <2>1. r \in {0} \cup Living \/ \E j \in 1..N : r = Len(branches) + j
    BY <1>3
  <2> HIDE DEF r, N
  <2>2. CASE r \in {0} \cup Living
    <3>1. r = 0 \/ r \in Living
      BY <2>2
    <3>2. \A x : x \in Living => x \in Nat
      BY <1>4
    <3>3. 0 \in Nat
      OBVIOUS
    <3>. QED
      BY <3>1, <3>2, <3>3, Zenon DEF r
  <2>3. CASE \E j \in 1..N : r = Len(branches) + j
    BY <1>1, <1>4, <2>3 DEF r
  <2>. QED
    BY <2>1, <2>2, <2>3 DEF r
<1>6. more \in Seq(Branch) /\ Len(more) = N
  <2>1. \A i \in 1..N : new[i] \in Codes
    BY <1>1, <1>2
  <2> HIDE DEF PlaceOf
  <2>2. \A i \in 1..N : [code |-> new[i], at |-> PlaceOf(family[v].parent[new[i]])] \in Branch
    BY <1>5, <2>1 DEF Branch
  <2>3. more \in [1..N -> Branch]
    BY <1>2, <2>2
  <2>. QED
    BY <1>1, <2>3
<1>7. Copied(new, v) = branches \o more
  BY DEF Copied
<1> HIDE DEF PlaceOf
<1>8. \A i \in 1..N : more[i] = [code |-> new[i], at |-> PlaceOf(family[v].parent[new[i]])]
  BY <1>2
<1> HIDE DEF more, N
<1>9. /\ branches \o more \in Seq(Branch)
      /\ Len(branches \o more) = Len(branches) + N
      /\ \A n \in 1..Len(branches) : (branches \o more)[n] = branches[n]
      /\ \A i \in 1..N : (branches \o more)[Len(branches) + i] = more[i]
  BY <1>1, <1>4, <1>6
<1>10. \A i \in 1..N : (branches \o more)[Len(branches) + i].code = new[i]
                     /\ (branches \o more)[Len(branches) + i].at = PlaceOf(family[v].parent[new[i]])
  <2> DEFINE p(i) == PlaceOf(family[v].parent[new[i]])
  <2> HIDE DEF p
  <2>1. \A i \in 1..N : more[i] = [code |-> new[i], at |-> p(i)]
    BY <1>8 DEF p
  <2>2. ASSUME NEW i \in 1..N
        PROVE  /\ (branches \o more)[Len(branches) + i].code = new[i]
               /\ (branches \o more)[Len(branches) + i].at = p(i)
    <3>1. (branches \o more)[Len(branches) + i] = more[i]
      BY <1>9
    <3>2. more[i] = [code |-> new[i], at |-> p(i)]
      BY <2>1
    <3>. QED
      BY <3>1, <3>2
  <2>. QED
    BY <2>2 DEF p
<1>. QED
  BY <1>1, <1>3, <1>7, <1>9, <1>10 DEF N

----------------------------------------------------------------------------
(* What a copy changes: the store's categories stay as they are, those     *)
(* copied come after them, each once, and below living ones; attributes    *)
(* that are there stay, those copied are there.                            *)
BranchesKept == \A n \in Living : n \in Living' /\ branches'[n] = branches[n]
BranchesBrought(cats) ==
    /\ \A n \in Living' : n \in Living \/ (n > Len(branches) /\ branches'[n].code \in cats)
    /\ \A m, n \in Living' : m > Len(branches) /\ n > Len(branches)
                             /\ branches'[m].code = branches'[n].code => m = n
    /\ \A c \in cats : Copies(c)' # {}
FacetsBrought(types, v) ==
    /\ \A a \in Facets :
           \/ facetType'[a] = facetType[a]
           \/ (facetType[a] = NoFacet /\ facetType'[a] = family[v].type[a])
    /\ \A a \in types : facetType'[a] # NoFacet

LEMMA CopyBrings ==
    ASSUME TemplateTypes, BranchesHang, NEW v \in Versions,
           NEW cats, cats \subseteq Cats(v), NEW types, NEW links,
           Placeable(cats, v), Copy(cats, types, links, v)
    PROVE  /\ branches' \in Seq(Branch) /\ Len(branches') <= MaxBranches
           /\ \A n \in DOMAIN branches' :
                  branches'[n] \in [code : Codes \cup {LeftOut}, at : 0..MaxBranches]
           /\ BranchesKept /\ BranchesBrought(cats) /\ BranchesHang'
<1>1. PICK new \in Orders(cats, v) :
          branches' = Copied(new, v) /\ Len(Copied(new, v)) <= MaxBranches
  BY DEF Copy
<1> DEFINE N == Cardinality(cats)
<1>2. /\ branches' \in Seq(Branch) /\ N \in Nat
      /\ Len(branches') = Len(branches) + N
      /\ \A n \in 1..Len(branches) : branches'[n] = branches[n]
      /\ \A i \in 1..N :
             /\ branches'[Len(branches) + i].code = new[i]
             /\ \/ branches'[Len(branches) + i].at \in {0} \cup Living
                \/ \E j \in 1..N : branches'[Len(branches) + i].at = Len(branches) + j
  BY <1>1, CopiedRows
<1>3. /\ new \in [1..N -> cats]
      /\ \A c \in cats : \E i \in 1..N : new[i] = c
      /\ \A i, j \in 1..N : new[i] = new[j] => i = j
  <2>1. new \in Bijection(1..N, cats)
    BY DEF Orders
  <2>2. new \in Surjection(1..N, cats)
    BY <2>1 DEF Bijection
  <2>3. new \in Injection(1..N, cats)
    BY <2>1 DEF Bijection
  <2>. QED
    BY <2>2, <2>3 DEF Injection, Surjection, IsInjective
<1> HIDE DEF N
<1>4. /\ branches \in Seq(Branch) /\ Len(branches) \in Nat
      /\ DOMAIN branches = 1..Len(branches) /\ DOMAIN branches' = 1..Len(branches')
      /\ Len(branches') <= MaxBranches /\ MaxBranches \in Nat
  BY <1>1, <1>2, TemplatesAssumption DEF TemplateTypes
<1>5. cats \subseteq Codes /\ LeftOut \notin Codes
  BY FamilyFacts DEF Cats
<1>6. ASSUME NEW i \in 1..N
      PROVE  Len(branches) + i \in Living' /\ Len(branches) + i > Len(branches)
  <2>1. Len(branches) + i \in DOMAIN branches' /\ Len(branches) + i > Len(branches)
    BY <1>2, <1>4
  <2>2. branches'[Len(branches) + i].code \in cats
    BY <1>2, <1>3
  <2>. QED
    BY <2>1, <2>2, <1>5 DEF Living
<1>7. ASSUME NEW n \in 1..Len(branches')
      PROVE  n \in 1..Len(branches) \/ \E i \in 1..N : n = Len(branches) + i
  <2>1. CASE n <= Len(branches)
    BY <1>4, <2>1
  <2>2. CASE ~(n <= Len(branches))
    <3>1. n - Len(branches) \in 1..N /\ n = Len(branches) + (n - Len(branches))
      BY <1>2, <1>4, <2>2
    <3>. QED
      BY <3>1
  <2>. QED
    BY <2>1, <2>2
<1>8. BranchesKept
  <2>1. SUFFICES ASSUME NEW n \in Living
                 PROVE  n \in Living' /\ branches'[n] = branches[n]
    BY DEF BranchesKept
  <2>2. n \in 1..Len(branches) /\ branches[n].code # LeftOut
    BY <1>4 DEF Living
  <2>3. n \in DOMAIN branches' /\ branches'[n] = branches[n]
    BY <1>2, <1>4, <2>2
  <2>. QED
    BY <2>2, <2>3 DEF Living
<1>9. BranchesBrought(cats)
  <2>1. ASSUME NEW n \in Living'
        PROVE  n \in Living \/ \E i \in 1..N : n = Len(branches) + i
    <3>1. n \in 1..Len(branches') /\ branches'[n].code # LeftOut
      BY <1>4 DEF Living
    <3>2. CASE n \in 1..Len(branches)
      BY <3>1, <3>2, <1>2, <1>4 DEF Living
    <3>. QED
      BY <3>1, <3>2, <1>7
  <2>2. ASSUME NEW n \in Living'
        PROVE  n \in Living \/ (n > Len(branches) /\ branches'[n].code \in cats)
    <3>1. CASE \E i \in 1..N : n = Len(branches) + i
      <4>1. PICK i \in 1..N : n = Len(branches) + i
        BY <3>1
      <4>2. branches'[n].code = new[i] /\ new[i] \in cats
        BY <1>2, <1>3, <4>1
      <4>. QED
        BY <1>6, <4>1, <4>2
    <3>. QED
      BY <2>1, <3>1
  <2>3. ASSUME NEW n \in Living', n > Len(branches)
        PROVE  \E i \in 1..N : n = Len(branches) + i
    <3>1. n \notin Living
      BY <1>4, <2>3 DEF Living
    <3>. QED
      BY <2>1, <3>1
  <2>4. ASSUME NEW m \in Living', NEW n \in Living', m > Len(branches), n > Len(branches),
               branches'[m].code = branches'[n].code
        PROVE  m = n
    <3>1. PICK i \in 1..N, j \in 1..N : m = Len(branches) + i /\ n = Len(branches) + j
      BY <2>3, <2>4
    <3>2. new[i] = new[j]
      BY <1>2, <2>4, <3>1
    <3>. QED
      BY <1>3, <3>1, <3>2
  <2>5. ASSUME NEW c \in cats PROVE Copies(c)' # {}
    <3>1. PICK i \in 1..N : new[i] = c
      BY <1>3
    <3>2. Len(branches) + i \in Living' /\ branches'[Len(branches) + i].code = c
      BY <1>2, <1>6, <3>1
    <3>. QED
      BY <3>2 DEF Copies
  <2>. QED
    BY <2>2, <2>4, <2>5 DEF BranchesBrought
<1>10. BranchesHang'
  <2>1. SUFFICES ASSUME NEW n \in Living' PROVE branches'[n].at \in Living' \cup {0}
    BY DEF BranchesHang
  <2>2. CASE n \in Living
    BY <1>8, <2>2 DEF BranchesHang, BranchesKept
  <2>3. CASE n \notin Living
    <3>1. n \in 1..Len(branches') /\ branches'[n].code # LeftOut
      BY <1>4 DEF Living
    <3>2. n \notin 1..Len(branches)
      BY <3>1, <1>2, <1>4, <2>3 DEF Living
    <3>3. PICK i \in 1..N : n = Len(branches) + i
      BY <3>1, <3>2, <1>7
    <3>. QED
      BY <1>2, <1>6, <1>8, <3>3 DEF BranchesKept
  <2>. QED
    BY <2>2, <2>3
<1>11. ASSUME NEW n \in DOMAIN branches'
       PROVE  branches'[n] \in [code : Codes \cup {LeftOut}, at : 0..MaxBranches]
  <2>1. branches'[n] \in Branch
    BY <1>2, <1>4
  <2>2. branches'[n].at \in 0..MaxBranches
    <3>1. CASE n \in 1..Len(branches)
      <4>1. branches[n] \in [code : Codes \cup {LeftOut}, at : 0..MaxBranches]
        BY <1>4, <3>1 DEF TemplateTypes, TemplatesTypeOK
      <4>. QED
        BY <1>2, <3>1, <4>1
    <3>2. ASSUME NEW i \in 1..N, n = Len(branches) + i PROVE branches'[n].at \in 0..MaxBranches
      <4>1. Living \subseteq 0..MaxBranches
        BY <1>2, <1>4 DEF Living
      <4>2. \A j \in 1..N : Len(branches) + j \in 0..MaxBranches
        BY <1>2, <1>4
      <4>3. 0 \in 0..MaxBranches
        BY <1>4
      <4>. QED
        BY <1>2, <3>2, <4>1, <4>2, <4>3
    <3>. QED
      BY <1>4, <1>7, <3>1, <3>2
  <2>. QED
    BY <2>1, <2>2 DEF Branch
<1>. QED
  BY <1>2, <1>4, <1>8, <1>9, <1>10, <1>11

LEMMA FacetsCome ==
    ASSUME TemplateTypes, NEW v \in Versions,
           NEW cats, NEW types, types \subseteq Types(v), NEW links,
           Copy(cats, types, links, v)
    PROVE  /\ facetType' \in [Facets -> DataTypes \cup {NoFacet}]
           /\ FacetsBrought(types, v)
<1>1. facetType' = WithFacets(types, v)
  BY DEF Copy
<1>2. facetType \in [Facets -> DataTypes \cup {NoFacet}]
  BY DEF TemplateTypes, TemplatesTypeOK
<1>3. family[v].type \in [Facets -> DataTypes \cup {NoFacet}]
  BY FamilyFacts DEF Content
<1>4. types \subseteq Facets /\ \A a \in types : family[v].type[a] # NoFacet
  BY DEF Types
<1>5. \A a \in Facets : facetType'[a] =
          IF a \in types /\ facetType[a] = NoFacet THEN family[v].type[a] ELSE facetType[a]
  BY <1>1 DEF WithFacets
<1>6. facetType' \in [Facets -> DataTypes \cup {NoFacet}]
  <2>1. \A a \in Facets : facetType'[a] \in DataTypes \cup {NoFacet}
    BY <1>2, <1>3, <1>5
  <2>2. facetType' = [a \in Facets |-> facetType'[a]]
    BY <1>1 DEF WithFacets
  <2>. QED
    BY <2>1, <2>2
<1>7. \A a \in Facets :
          \/ facetType'[a] = facetType[a]
          \/ (facetType[a] = NoFacet /\ facetType'[a] = family[v].type[a])
  BY <1>5
<1>8. \A a \in types : facetType'[a] # NoFacet
  BY <1>4, <1>5
<1>. QED
  BY <1>6, <1>7, <1>8 DEF FacetsBrought

LEMMA LinksComeInRows ==
    ASSUME TemplateTypes, NEW v, NEW cats, NEW types, NEW links,
           links \subseteq Codes \X Facets, Copy(cats, types, links, v),
           branches' \in Seq(Branch), Len(branches') <= MaxBranches
    PROVE  linked' \subseteq SchemaRows
<1>1. PICK facets : linked' = linked \cup Links(links, branches', facets)
  BY DEF Copy
<1>2. DOMAIN branches' = 1..Len(branches') /\ Len(branches') \in Nat /\ MaxBranches \in Nat
  BY TemplatesAssumption
<1>3. ASSUME NEW l \in links, \E n \in DOMAIN branches' : branches'[n].code = l[1]
      PROVE  <<Newest({n \in DOMAIN branches' : branches'[n].code = l[1]}), l[2]>> \in SchemaRows
  <2> DEFINE rows == {n \in DOMAIN branches' : branches'[n].code = l[1]}
  <2>1. rows # {} /\ rows \subseteq 1..Len(branches')
    BY <1>2, <1>3
  <2>2. Newest(rows) \in rows
    BY <1>2, <2>1, NewestIsOne
  <2>3. Newest(rows) \in 1..MaxBranches
    BY <1>2, <2>1, <2>2
  <2>4. l[2] \in Facets
    OBVIOUS
  <2>. QED
    BY <2>3, <2>4 DEF SchemaRows
<1>4. linked \subseteq SchemaRows
  BY DEF TemplateTypes, TemplatesTypeOK
<1>5. Links(links, branches', facets) \subseteq SchemaRows
  BY <1>3 DEF Links
<1>. QED
  BY <1>1, <1>4, <1>5

\* What a version needs and the store has, the store keeps: categories and
\* attributes stay, or it is recorded that the store deleted them.
LEMMA PresentStays ==
    ASSUME TemplateTypes, UNCHANGED family, NEW v \in Versions, Present(v),
           \A c \in Codes : Copies(c) # {} => Copies(c)' # {} \/ c \in dropped',
           \A a \in Facets : facetType[a] # NoFacet => facetType'[a] # NoFacet,
           declined.cats \subseteq declined'.cats, declined.types \subseteq declined'.types,
           dropped \subseteq dropped'
    PROVE  Present(v)'
<1>1. Cats(v)' = Cats(v) /\ Types(v)' = Types(v) /\ Cats(v) \subseteq Codes /\ Types(v) \subseteq Facets
  BY DEF Cats, Types
<1>2. ASSUME NEW c \in Cats(v) PROVE Copies(c)' # {} \/ c \in declined'.cats \cup dropped'
  BY <1>1 DEF Present
<1>3. ASSUME NEW a \in Types(v) PROVE facetType'[a] # NoFacet \/ a \in declined'.types
  BY <1>1 DEF Present
<1>. QED
  BY <1>1, <1>2, <1>3 DEF Present

\* A copy keeps what is present, and all copies there are.
LEMMA CopyKeeps ==
    ASSUME TemplateTypes, BranchesKept, NEW types, NEW v, FacetsBrought(types, v)
    PROVE  /\ \A c : Copies(c) \subseteq Copies(c)'
           /\ \A a \in Facets : facetType[a] # NoFacet => facetType'[a] # NoFacet
<1>1. \A c : Copies(c) \subseteq Copies(c)'
  BY DEF BranchesKept, Copies
<1>2. \A a \in Facets : facetType[a] # NoFacet => facetType'[a] # NoFacet
  BY DEF FacetsBrought
<1>. QED
  BY <1>1, <1>2

LEMMA TemplatesStart ==
    ASSUME TemplatesInit
    PROVE  TemplatesInv
<1> USE DEF TemplatesInit
<1>1. family \in Seq(Content) /\ Len(family) \in Nat /\ Versions = 1..Len(family)
  BY TemplatesAssumption DEF Versions
<1>2. Living = {} /\ \A c : Copies(c) = {}
  BY DEF Living, Copies
<1>3. MaxBranches \in Nat
  BY TemplatesAssumption
<1>4. TemplatesTypeOK
  <2>1. \A v \in Versions : shelf[v] \in Shelf
    BY DEF Versions, Shelf
  <2>2. installed \in Installed /\ linked \subseteq SchemaRows
    BY DEF Installed
  <2>3. facetType \in [Facets -> DataTypes \cup {NoFacet}] /\ attempt \in [Versions -> Attempts]
    BY DEF Versions, Attempts
  <2>. QED
    BY <2>1, <2>2, <2>3 DEF TemplatesTypeOK
<1>5. TemplateTypes
  <2>1. branches \in Seq(Branch) /\ Len(branches) <= MaxBranches
    BY <1>3
  <2>2. work \in [Installers -> Work0]
    BY DEF Idle0, Work0
  <2>3. shelf \in [Versions -> Shelf]
    BY DEF Versions, Shelf
  <2>. QED
    BY <1>4, <2>1, <2>2, <2>3 DEF TemplateTypes
<1>6. OfferedAreSound
  BY DEF OfferedAreSound, Versions
<1>7. RequestsFit
  BY DEF RequestsFit, FitsVersions, Idle0
<1>8. InstalledPresent /\ BranchesHang /\ BranchesCopied
  BY <1>2 DEF InstalledPresent, BranchesHang, BranchesCopied
<1>9. CompletedIsInstalled /\ TypesAsReleased
  BY DEF CompletedIsInstalled, TypesAsReleased, Versions
<1>. QED
  BY <1>5, <1>6, <1>7, <1>8, <1>9 DEF TemplatesInv

----------------------------------------------------------------------------
(* One lemma for each action, or for a few that leave the store alone.     *)
LEMMA ShelfStep ==
    ASSUME TemplatesInv, GiveUp \/ \E v \in Versions : Release(v) \/ Switch(v)
    PROVE  TemplatesInv'
<1> USE DEF TemplatesInv
<1>1. UNCHANGED <<family, installed, branches, facetType, linked, attempt, work,
                  declined, dropped, owned, raced, ownEdits>>
  BY DEF Release, Switch, GiveUp, StoreUnchanged
<1>2. shelf \in [Versions -> Shelf] /\ OfferedAreSound
  BY DEF TemplateTypes
<1>3. Versions' = Versions
  BY <1>1 DEF Versions
<1>4. shelf' \in [Versions -> Shelf] /\ OfferedAreSound'
  <2>1. ASSUME NEW v \in Versions, Release(v) PROVE shelf' \in [Versions -> Shelf] /\ OfferedAreSound'
    BY <1>1, <1>2, <1>3, <2>1 DEF Release, Shelf, OfferedAreSound
  <2>2. ASSUME NEW v \in Versions, Switch(v) PROVE shelf' \in [Versions -> Shelf] /\ OfferedAreSound'
    BY <1>1, <1>2, <1>3, <2>2 DEF Switch, Shelf, OfferedAreSound
  <2>3. CASE GiveUp
    BY <1>1, <1>2, <1>3, <2>3 DEF GiveUp, Shelf, OfferedAreSound
  <2>. QED
    BY <2>1, <2>2, <2>3
<1>5. TemplateTypes'
  BY <1>1, <1>3, <1>4 DEF TemplateTypes, TemplatesTypeOK, Installed, SchemaRows, Attempts
<1>6. Living' = Living /\ \A c : Copies(c)' = Copies(c)
  BY <1>1 DEF Living, Copies
<1>7. \A v1, v2 : /\ Cats(v1)' = Cats(v1) /\ Types(v1)' = Types(v1)
                  /\ NewCats(v1, v2)' = NewCats(v1, v2)
                  /\ Present(v1)' = Present(v1)
  BY <1>1, <1>6 DEF Cats, Types, NewCats, Present
<1>8. Returning' = Returning
  BY <1>1, <1>7 DEF Returning, Cats
<1>9. RequestsFit'
  BY <1>1, <1>3, <1>7 DEF RequestsFit, FitsVersions
<1>10. InstalledPresent' /\ BranchesHang' /\ BranchesCopied'
  BY <1>1, <1>3, <1>6, <1>7, <1>8 DEF InstalledPresent, BranchesHang, BranchesCopied
<1>11. CompletedIsInstalled' /\ TypesAsReleased'
  BY <1>1, <1>3 DEF CompletedIsInstalled, TypesAsReleased
<1>. QED
  BY <1>4, <1>5, <1>9, <1>10, <1>11

\* A request begins, ends without a copy, or is lost: the store stays, and an
\* attempt is at most no longer completed.
LEMMA RequestStep ==
    ASSUME TemplatesInv, ShelfUnchanged,
           UNCHANGED <<installed, branches, facetType, linked, declined, dropped, owned,
                       raced, ownEdits>>,
           work' \in [Installers -> Work0], RequestsFit',
           attempt' \in [Versions -> Attempts],
           \A v \in Versions : attempt'[v] = "completed" => attempt[v] = "completed"
    PROVE  TemplatesInv'
<1> USE DEF TemplatesInv
<1>1. UNCHANGED <<family, shelf, switches>>
  BY DEF ShelfUnchanged
<1>3. Versions' = Versions
  BY <1>1 DEF Versions
<1>5. TemplateTypes'
  BY <1>1, <1>3 DEF TemplateTypes, TemplatesTypeOK, Installed, SchemaRows, Attempts
<1>6. Living' = Living /\ \A c : Copies(c)' = Copies(c)
  BY <1>1 DEF Living, Copies
<1>7. \A v1 : /\ Cats(v1)' = Cats(v1) /\ Types(v1)' = Types(v1)
              /\ Present(v1)' = Present(v1)
  BY <1>1, <1>6 DEF Cats, Types, Present
<1>8. Returning' = Returning
  BY <1>1, <1>7 DEF Returning, Cats
<1>10. InstalledPresent' /\ BranchesHang' /\ BranchesCopied'
  BY <1>1, <1>3, <1>6, <1>7, <1>8 DEF InstalledPresent, BranchesHang, BranchesCopied
<1>11. CompletedIsInstalled' /\ TypesAsReleased' /\ OfferedAreSound'
  BY <1>1, <1>3 DEF CompletedIsInstalled, TypesAsReleased, OfferedAreSound
<1>. QED
  BY <1>5, <1>10, <1>11

\* The requests of others fit when what is present stays so.
LEMMA OthersFit ==
    ASSUME RequestsFit, UNCHANGED family,
           \A v \in Versions : Present(v) => Present(v)',
           NEW k \in Installers, work' = [work EXCEPT ![k] = Idle0]
    PROVE  RequestsFit'
<1>1. Versions' = Versions /\ \A v1, v2 : Cats(v1)' = Cats(v1) /\ Types(v1)' = Types(v1)
                                          /\ NewCats(v1, v2)' = NewCats(v1, v2)
  BY DEF Versions, Cats, Types, NewCats
<1>2. SUFFICES ASSUME NEW j \in Installers PROVE FitsVersions(work[j])'
  BY DEF RequestsFit
<1>3. CASE work'[j] = Idle0
  BY <1>3 DEF FitsVersions, Idle0
<1>4. CASE work'[j] = work[j]
  <2>1. FitsVersions(work[j])
    BY DEF RequestsFit
  <2>. QED
    BY <1>1, <1>4, <2>1 DEF FitsVersions, Present, Versions, Cats, Types, NewCats
<1>5. work'[j] = Idle0 \/ work'[j] = work[j]
  OBVIOUS
<1>. QED
  BY <1>3, <1>4, <1>5

LEMMA RequestsStep ==
    ASSUME TemplatesInv, NEW k \in Installers,
           \/ \E v \in Versions : StartInstall(k, v) \/ StartUpdate(k, v)
           \/ FailUpdate(k) \/ LoseRequest(k)
    PROVE  TemplatesInv'
<1> USE DEF TemplatesInv
<1>1. /\ work \in [Installers -> Work0] /\ Versions \subseteq Nat /\ 0 \notin Versions
      /\ installed \in Versions \cup {0} /\ attempt \in [Versions -> Attempts]
      /\ RequestsFit
  BY FamilyFacts DEF TemplateTypes, TemplatesTypeOK, Installed
<1>2. FitsVersions(work[k]) /\ work[k] \in Work0
  BY <1>1 DEF RequestsFit
<1>3. Idle0 \in Work0 /\ Idle0.step = "none" /\ \A v : Present(v) => TRUE
  BY DEF Idle0, Work0
<1>4. CASE \E v \in Versions : StartInstall(k, v)
  <2>1. PICK v \in Versions : StartInstall(k, v)
    BY <1>4
  <2> DEFINE w == [Idle0 EXCEPT !.step = "install", !.target = v]
  <2>2. /\ work' = [work EXCEPT ![k] = w] /\ ShelfUnchanged
        /\ UNCHANGED <<installed, branches, facetType, linked, attempt, declined, dropped,
                       owned, raced, ownEdits>>
    BY <2>1 DEF StartInstall
  <2>3. w \in Work0 /\ w.step = "install" /\ w.target = v
    BY <1>1 DEF Idle0, Work0
  <2>4. family[v].sound
    BY <2>1 DEF StartInstall, Offerable, OfferedAreSound
  <2> HIDE DEF w
  <2>5. FitsVersions(w)
    BY <2>3, <2>4 DEF FitsVersions
  <2>6. work' \in [Installers -> Work0]
    BY <1>1, <2>2, <2>3
  <2>7. \A j \in Installers : FitsVersions(work'[j])
    BY <1>1, <2>2, <2>5 DEF RequestsFit
  <2>8. RequestsFit'
    BY <2>2, <2>7 DEF RequestsFit, ShelfUnchanged, FitsVersions, Present, Versions, Cats, Types,
                      NewCats, Copies, Living
  <2>. QED
    BY <1>1, <2>2, <2>6, <2>8, RequestStep
<1>5. CASE \E v \in Versions : StartUpdate(k, v)
  <2>1. PICK v \in Versions : StartUpdate(k, v)
    BY <1>5
  <2>2. PICK cats \in SUBSET NewCats(installed, v), types \in SUBSET NewTypes(installed, v),
             links \in SUBSET NewLinks(installed, v) :
             work' = [work EXCEPT ![k] = [step |-> "update", from |-> installed, target |-> v,
                                          cats |-> cats, types |-> types, links |-> links]]
    BY <2>1 DEF StartUpdate
  <2> DEFINE w == [step |-> "update", from |-> installed, target |-> v,
                   cats |-> cats, types |-> types, links |-> links]
  <2>3. /\ work' = [work EXCEPT ![k] = w] /\ ShelfUnchanged
        /\ UNCHANGED <<installed, branches, facetType, linked, declined, dropped,
                       owned, raced, ownEdits>>
        /\ attempt' = [attempt EXCEPT ![v] = "pending"]
        /\ installed # 0 /\ v > installed
    BY <2>1, <2>2 DEF StartUpdate
  <2>4. /\ cats \subseteq Codes /\ types \subseteq Facets
        /\ types \subseteq Types(v) \ Types(installed) /\ links \subseteq family[v].links
    BY DEF NewCats, NewTypes, NewLinks, Cats, Types
  <2>5. links \subseteq Codes \X Facets
    BY <2>4, FamilyFacts DEF Content
  <2>6. w \in Work0
    BY <1>1, <2>4, <2>5 DEF Work0
  <2>7. Present(installed) /\ installed \in Versions
    BY <1>1, <2>3 DEF InstalledPresent
  <2>8. FitsVersions(w)
    BY <1>1, <2>3, <2>4, <2>7 DEF FitsVersions
  <2> HIDE DEF w
  <2>9. work' \in [Installers -> Work0]
    BY <1>1, <2>3, <2>6
  <2>10. \A j \in Installers : FitsVersions(work'[j])
    BY <1>1, <2>3, <2>8 DEF RequestsFit
  <2>11. RequestsFit'
    BY <2>3, <2>10 DEF RequestsFit, ShelfUnchanged, FitsVersions, Present, Versions, Cats, Types,
                       NewCats, Copies, Living
  <2>12. /\ attempt' \in [Versions -> Attempts]
         /\ \A u \in Versions : attempt'[u] = "completed" => attempt[u] = "completed"
    BY <1>1, <2>3 DEF Attempts
  <2>. QED
    BY <2>3, <2>9, <2>11, <2>12, RequestStep
<1>6. CASE FailUpdate(k) \/ LoseRequest(k)
  <2>1. /\ work' = [work EXCEPT ![k] = Idle0] /\ ShelfUnchanged
        /\ UNCHANGED <<installed, branches, facetType, linked, declined, dropped,
                       owned, raced, ownEdits>>
        /\ attempt' = attempt \/ attempt' = [attempt EXCEPT ![work[k].target] = "failed"]
    BY <1>6 DEF FailUpdate, LoseRequest
  <2>2. work' \in [Installers -> Work0]
    BY <1>1, <1>3, <2>1
  <2>3. \A v \in Versions : Present(v)' = Present(v)
    BY <2>1 DEF Present, Cats, Types, Copies, Living, ShelfUnchanged
  <2>4. RequestsFit'
    BY <1>1, <2>1, <2>3, OthersFit DEF ShelfUnchanged
  <2>5. /\ attempt' \in [Versions -> Attempts]
        /\ \A u \in Versions : attempt'[u] = "completed" => attempt[u] = "completed"
    BY <1>1, <2>1 DEF Attempts
  <2>. QED
    BY <2>1, <2>2, <2>4, <2>5, RequestStep
<1>. QED
  BY <1>4, <1>5, <1>6

\* The store deletes a category.
LEMMA DropStep ==
    ASSUME TemplatesInv, NEW n \in DOMAIN branches, DropBranch(n)
    PROVE  TemplatesInv'
<1> USE DEF TemplatesInv
<1>1. /\ UNCHANGED <<family, shelf, installed, attempt, work, declined, raced, facetType, owned>>
      /\ n \in Living /\ \A m \in Living : branches[m].at # n
      /\ branches' = [branches EXCEPT ![n].code = LeftOut]
      /\ linked' = {l \in linked : l[1] # n}
      /\ dropped' = dropped \cup {branches[n].code}
  BY DEF DropBranch, OwnEdit, ShelfUnchanged
<1>2. /\ branches \in Seq(Branch) /\ Len(branches) <= MaxBranches
      /\ DOMAIN branches = 1..Len(branches)
      /\ \A m \in DOMAIN branches :
             branches[m] \in [code : Codes \cup {LeftOut}, at : 0..MaxBranches]
      /\ dropped \subseteq Codes
  BY DEF TemplateTypes, TemplatesTypeOK
<1>3. branches[n].code \in Codes
  BY <1>1, <1>2 DEF Living
<1>4. /\ DOMAIN branches' = DOMAIN branches /\ Len(branches') = Len(branches)
      /\ \A m \in DOMAIN branches : m # n => branches'[m] = branches[m]
      /\ branches'[n].code = LeftOut /\ branches'[n].at = branches[n].at
      /\ branches'[n] \in [code : Codes \cup {LeftOut}, at : 0..MaxBranches]
      /\ branches'[n] \in Branch
  BY <1>1, <1>2 DEF Branch
<1>5. branches' \in Seq(Branch) /\ \A m \in DOMAIN branches' :
          branches'[m] \in [code : Codes \cup {LeftOut}, at : 0..MaxBranches]
  BY <1>1, <1>2, <1>4
<1>6. Living' = Living \ {n} /\ \A c : Copies(c)' = Copies(c) \ {n}
  BY <1>1, <1>4 DEF Living, Copies
<1>7. Versions' = Versions
  BY <1>1 DEF Versions
<1>8. TemplateTypes'
  <2>1. dropped' \subseteq Codes
    BY <1>1, <1>2, <1>3
  <2>2. linked' \subseteq SchemaRows
    BY <1>1 DEF TemplateTypes, TemplatesTypeOK
  <2>. QED
    BY <1>1, <1>2, <1>4, <1>5, <1>7, <2>1, <2>2
       DEF TemplateTypes, TemplatesTypeOK, Installed, SchemaRows, Attempts
<1>9. \A c \in Codes : Copies(c) # {} => Copies(c)' # {} \/ c \in dropped'
  <2>1. ASSUME NEW c \in Codes, Copies(c) # {}, Copies(c)' = {} PROVE c \in dropped'
    <3>1. n \in Copies(c)
      BY <1>6, <2>1
    <3>. QED
      BY <1>1, <3>1 DEF Copies
  <2>. QED
    BY <2>1
<1>10. ASSUME NEW v \in Versions, Present(v) PROVE Present(v)'
  BY <1>1, <1>9, <1>10, PresentStays
<1>11. RequestsFit'
  BY <1>1, <1>10 DEF RequestsFit, FitsVersions, Versions, Present, Cats, Types, NewCats
<1>12. InstalledPresent'
  BY <1>1, <1>10 DEF InstalledPresent, TemplateTypes, TemplatesTypeOK, Installed
<1>13. BranchesHang'
  BY <1>1, <1>4, <1>6 DEF BranchesHang, Living
<1>14. Returning' = Returning
  BY <1>1 DEF Returning, Cats
<1>15. BranchesCopied'
  <2>1. \A u : Cats(u)' = Cats(u)
    BY <1>1 DEF Cats
  <2>2. \A m \in Living' : m \in Living /\ branches'[m] = branches[m]
    BY <1>4, <1>6 DEF Living
  <2>. QED
    BY <1>1, <1>6, <1>7, <1>14, <2>1, <2>2 DEF BranchesCopied
<1>16. CompletedIsInstalled' /\ TypesAsReleased' /\ OfferedAreSound'
  BY <1>1, <1>7 DEF CompletedIsInstalled, TypesAsReleased, OfferedAreSound
<1>. QED
  BY <1>8, <1>11, <1>12, <1>13, <1>15, <1>16

\* The store makes an attribute, or changes one.
LEMMA OwnFacetStep ==
    ASSUME TemplatesInv, NEW a \in Facets, NEW type \in DataTypes, OwnFacet(a, type)
    PROVE  TemplatesInv'
<1> USE DEF TemplatesInv
<1>1. /\ UNCHANGED <<family, shelf, installed, attempt, work, declined, raced, branches,
                     linked, dropped>>
      /\ facetType' = [facetType EXCEPT ![a] = type] /\ owned' = owned \cup {a}
  BY DEF OwnFacet, OwnEdit, ShelfUnchanged
<1>2. facetType \in [Facets -> DataTypes \cup {NoFacet}] /\ NoFacet \notin DataTypes
  BY FamilyFacts DEF TemplateTypes, TemplatesTypeOK
<1>3. /\ facetType' \in [Facets -> DataTypes \cup {NoFacet}]
      /\ \A b \in Facets : b # a => facetType'[b] = facetType[b]
      /\ \A b \in Facets : facetType[b] # NoFacet => facetType'[b] # NoFacet
  BY <1>1, <1>2
<1>4. Living' = Living /\ \A c : Copies(c)' = Copies(c)
  BY <1>1 DEF Living, Copies
<1>5. Versions' = Versions
  BY <1>1 DEF Versions
<1>6. TemplateTypes'
  BY <1>1, <1>3, <1>5 DEF TemplateTypes, TemplatesTypeOK, Installed, SchemaRows, Attempts
<1>7. ASSUME NEW v \in Versions, Present(v) PROVE Present(v)'
  BY <1>1, <1>3, <1>4, <1>7, PresentStays
<1>8. RequestsFit'
  BY <1>1, <1>7 DEF RequestsFit, FitsVersions, Versions, Present, Cats, Types, NewCats
<1>9. InstalledPresent'
  BY <1>1, <1>7 DEF InstalledPresent, TemplateTypes, TemplatesTypeOK, Installed
<1>10. BranchesHang' /\ BranchesCopied'
  BY <1>1, <1>4, <1>5 DEF BranchesHang, BranchesCopied, Returning, Cats
<1>11. CompletedIsInstalled' /\ OfferedAreSound'
  BY <1>1, <1>5 DEF CompletedIsInstalled, OfferedAreSound
<1>12. TypesAsReleased'
  BY <1>1, <1>3, <1>5 DEF TypesAsReleased
<1>. QED
  BY <1>6, <1>8, <1>9, <1>10, <1>11, <1>12

\* What a copy leaves true of the store, whatever it goes by.
LEMMA CopyStep ==
    ASSUME TemplatesInv, ShelfUnchanged, NEW k \in Installers,
           NEW v \in Versions, NEW cats, cats \subseteq Cats(v),
           NEW types, types \subseteq Types(v), NEW links, links \subseteq Codes \X Facets,
           Placeable(cats, v), Copy(cats, types, links, v),
           installed' = v, work' = [work EXCEPT ![k] = Idle0],
           attempt' \in [Versions -> Attempts],
           declined' \in [cats : SUBSET Codes, types : SUBSET Facets],
           declined.cats \subseteq declined'.cats, declined.types \subseteq declined'.types,
           UNCHANGED <<dropped, owned>>, raced' \in BOOLEAN
    PROVE  /\ TemplateTypes' /\ OfferedAreSound' /\ RequestsFit' /\ BranchesHang'
           /\ Versions' = Versions /\ \A u : Cats(u)' = Cats(u) /\ Types(u)' = Types(u)
           /\ BranchesKept /\ BranchesBrought(cats) /\ FacetsBrought(types, v)
           /\ \A u \in Versions : Present(u) => Present(u)'
<1> USE DEF TemplatesInv
<1>1. UNCHANGED <<family, shelf, switches>>
  BY DEF ShelfUnchanged
<1>2. Versions' = Versions /\ \A u : Cats(u)' = Cats(u) /\ Types(u)' = Types(u)
  BY <1>1 DEF Versions, Cats, Types
<1>3. /\ branches' \in Seq(Branch) /\ Len(branches') <= MaxBranches
      /\ \A n \in DOMAIN branches' :
             branches'[n] \in [code : Codes \cup {LeftOut}, at : 0..MaxBranches]
      /\ BranchesKept /\ BranchesBrought(cats) /\ BranchesHang'
  BY CopyBrings
<1>4. facetType' \in [Facets -> DataTypes \cup {NoFacet}] /\ FacetsBrought(types, v)
  BY FacetsCome
<1>5. linked' \subseteq SchemaRows
  BY <1>3, LinksComeInRows
<1>6. work' \in [Installers -> Work0]
  BY DEF TemplateTypes, Idle0, Work0
<1>7. TemplateTypes'
  <2>1. TemplatesTypeOK'
    BY <1>1, <1>2, <1>3, <1>4, <1>5
       DEF TemplateTypes, TemplatesTypeOK, Installed, SchemaRows, Attempts
  <2>. QED
    BY <1>1, <1>2, <1>3, <1>6, <2>1 DEF TemplateTypes
<1>8. OfferedAreSound'
  BY <1>1, <1>2 DEF OfferedAreSound
<1>9. ASSUME NEW u \in Versions, Present(u) PROVE Present(u)'
  <2>1. /\ \A c : Copies(c) \subseteq Copies(c)'
        /\ \A a \in Facets : facetType[a] # NoFacet => facetType'[a] # NoFacet
    BY <1>3, <1>4, CopyKeeps
  <2>2. \A c \in Codes : Copies(c) # {} => Copies(c)' # {} \/ c \in dropped'
    BY <2>1
  <2>. QED
    BY <1>1, <1>9, <2>1, <2>2, PresentStays
<1>10. RequestsFit'
  BY <1>1, <1>9, OthersFit
<1>. QED
  BY <1>2, <1>3, <1>4, <1>7, <1>8, <1>9, <1>10

\* What a sound version has can be placed, all of it.
LEMMA SoundIsPlaceable ==
    ASSUME TemplateTypes, NEW v \in Versions, family[v].sound
    PROVE  Placeable(Cats(v), v)
<1>1. SUFFICES ASSUME NEW c \in Cats(v) PROVE family[v].parent[c] \in Cats(v) \cup {Top}
  BY DEF Placeable
<1>2. c \in Codes /\ family[v].parent[c] \in Codes \cup {Top, LeftOut}
      /\ family[v].parent[c] # LeftOut
  BY FamilyFacts DEF Cats, Content
<1>. QED
  BY <1>2, FamilyFacts

LEMMA FinishInstallStep ==
    ASSUME TemplatesInv, NEW k \in Installers, FinishInstall(k)
    PROVE  TemplatesInv'
<1> USE DEF TemplatesInv
<1>0. PICK v : v = work[k].target
  OBVIOUS
<1>1. /\ work[k].step = "install" /\ work' = [work EXCEPT ![k] = Idle0] /\ ShelfUnchanged
      /\ UNCHANGED <<attempt, declined, dropped, owned, raced, ownEdits>>
  BY DEF FinishInstall, At
<1>2. /\ v \in Versions /\ family[v].sound
      /\ Versions \subseteq Nat /\ \A u \in Versions : u > 0
      /\ work \in [Installers -> Work0] /\ Idle0 \in Work0
      /\ attempt \in [Versions -> Attempts] /\ raced \in BOOLEAN
      /\ declined \in [cats : SUBSET Codes, types : SUBSET Facets]
  BY <1>0, <1>1, FamilyFacts
     DEF RequestsFit, FitsVersions, TemplateTypes, TemplatesTypeOK, Idle0, Work0
<1>3. CASE installed # 0 /\ UNCHANGED <<installed, branches, facetType, linked>>
  <2>1. \A u \in Versions : Present(u)' = Present(u)
    BY <1>1, <1>3 DEF Present, Cats, Types, Copies, Living, ShelfUnchanged
  <2>2. RequestsFit'
    BY <1>1, <2>1, OthersFit DEF ShelfUnchanged
  <2>3. work' \in [Installers -> Work0]
    BY <1>1, <1>2
  <2>. QED
    BY <1>1, <1>2, <1>3, <2>2, <2>3, RequestStep
<1>4. CASE /\ installed = 0 /\ installed' = v
           /\ Copy(Cats(v), Types(v), family[v].links, v)
  <2>1. family[v].links \subseteq Codes \X Facets
    BY <1>2, FamilyFacts DEF Content
  <2>2. Placeable(Cats(v), v)
    BY <1>2, SoundIsPlaceable
  <2>3. /\ TemplateTypes' /\ OfferedAreSound' /\ RequestsFit' /\ BranchesHang'
        /\ Versions' = Versions /\ \A u : Cats(u)' = Cats(u) /\ Types(u)' = Types(u)
        /\ BranchesKept /\ BranchesBrought(Cats(v)) /\ FacetsBrought(Types(v), v)
    BY <1>1, <1>2, <1>4, <2>1, <2>2, CopyStep
  <2>4. ~raced /\ ~raced'
    BY <1>1, <1>4 DEF InstalledPresent
  <2>5. Living = {}
    <3>1. \A n \in Living : \E u \in Versions : u <= 0
      BY <1>4, <2>4 DEF BranchesCopied
    <3>. QED
      BY <1>2, <3>1
  <2>6. Present(v)'
    BY <2>3 DEF Present, BranchesBrought, FacetsBrought
  <2>7. InstalledPresent'
    BY <1>4, <2>4, <2>6 DEF InstalledPresent, Present, Cats, Types, Copies, Living
  <2>8. BranchesCopied'
    <3>1. ASSUME NEW n \in Living'
          PROVE  \E u \in Versions : u <= installed' /\ branches'[n].code \in Cats(u)
      BY <1>2, <1>4, <2>3, <2>5 DEF BranchesBrought
    <3>2. ASSUME NEW c \in Codes, NEW m \in Copies(c)', NEW n \in Copies(c)' PROVE m = n
      <4>1. /\ m \in Living' /\ n \in Living'
            /\ branches'[m].code = c /\ branches'[n].code = c
        BY DEF Copies
      <4>. QED
        BY <2>3, <2>5, <4>1 DEF BranchesBrought
    <3>. QED
      BY <2>3, <3>1, <3>2 DEF BranchesCopied
  <2>9. CompletedIsInstalled'
    <3>1. \A u \in Versions : attempt[u] # "completed"
      BY <1>2, <1>4, <2>4 DEF CompletedIsInstalled
    <3>. QED
      BY <1>1, <2>3, <3>1 DEF CompletedIsInstalled
  <2>10. TypesAsReleased'
    <3>1. ASSUME NEW a \in Facets, a \notin owned, facetType'[a] # NoFacet
          PROVE  family[v].type[a] = facetType'[a]
      <4>1. facetType[a] = NoFacet
        <5>1. SUFFICES ASSUME facetType[a] # NoFacet PROVE FALSE
          OBVIOUS
        <5>2. PICK u \in Versions : raced \/ u <= installed
          BY <3>1, <5>1 DEF TypesAsReleased
        <5>. QED
          BY <1>2, <1>4, <2>4, <5>2
      <4>. QED
        BY <2>3, <3>1, <4>1 DEF FacetsBrought
    <3>2. v <= installed' /\ family' = family
      BY <1>1, <1>2, <1>4 DEF ShelfUnchanged
    <3>. QED
      BY <1>1, <1>2, <2>3, <3>1, <3>2 DEF TypesAsReleased
  <2>. QED
    BY <2>3, <2>7, <2>8, <2>9, <2>10
<1>. QED
  BY <1>0, <1>3, <1>4 DEF FinishInstall

LEMMA FinishUpdateStep ==
    ASSUME TemplatesInv, NEW k \in Installers, FinishUpdate(k)
    PROVE  TemplatesInv'
<1> USE DEF TemplatesInv
<1>0. PICK w : w = work[k]
  OBVIOUS
<1>1. /\ w.step = "update" /\ work' = [work EXCEPT ![k] = Idle0] /\ ShelfUnchanged
      /\ Placeable(w.cats, w.target) /\ Copy(w.cats, w.types, w.links, w.target)
      /\ installed' = w.target
      /\ attempt' = [attempt EXCEPT ![w.target] = "completed"]
      /\ declined' = [cats |-> declined.cats \cup (NewCats(w.from, w.target) \ w.cats),
                      types |-> declined.types
                                  \cup ((Types(w.target) \ Types(w.from)) \ w.types)]
      /\ raced' = (raced \/ installed # w.from)
      /\ UNCHANGED <<dropped, owned, ownEdits>>
  BY <1>0 DEF FinishUpdate, At
<1>2. /\ w \in Work0 /\ FitsVersions(w)
      /\ Versions \subseteq Nat /\ \A u \in Versions : u > 0
      /\ installed \in Nat
      /\ attempt \in [Versions -> Attempts] /\ raced \in BOOLEAN
      /\ declined \in [cats : SUBSET Codes, types : SUBSET Facets]
  BY <1>0, FamilyFacts DEF RequestsFit, TemplateTypes, TemplatesTypeOK, Installed
<1>3. /\ w.target \in Versions /\ w.from \in Versions /\ w.from < w.target
      /\ w.target \in Nat /\ w.from \in Nat
      /\ Present(w.from) /\ w.cats \subseteq Cats(w.target) \ Cats(w.from)
      /\ w.types \subseteq Types(w.target) \ Types(w.from)
      /\ w.links \subseteq Codes \X Facets
  BY <1>1, <1>2 DEF FitsVersions, NewCats, Work0
<1>4. /\ attempt' \in [Versions -> Attempts] /\ raced' \in BOOLEAN
      /\ declined' \in [cats : SUBSET Codes, types : SUBSET Facets]
      /\ declined.cats \subseteq declined'.cats /\ declined.types \subseteq declined'.types
  <2>1. Cats(w.target) \subseteq Codes /\ Types(w.target) \subseteq Facets
    BY DEF Cats, Types
  <2>. QED
    BY <1>1, <1>2, <1>3, <2>1 DEF Attempts, NewCats
<1>5. /\ TemplateTypes' /\ OfferedAreSound' /\ RequestsFit' /\ BranchesHang'
      /\ Versions' = Versions /\ \A u : Cats(u)' = Cats(u) /\ Types(u)' = Types(u)
      /\ BranchesKept /\ BranchesBrought(w.cats) /\ FacetsBrought(w.types, w.target)
      /\ \A u \in Versions : Present(u) => Present(u)'
  BY <1>1, <1>3, <1>4, CopyStep
<1>6. Present(w.target)'
  <2>1. Present(w.from)'
    BY <1>3, <1>5
  <2>2. ASSUME NEW c \in Cats(w.target) PROVE Copies(c)' # {} \/ c \in declined'.cats \cup dropped'
    <3>1. CASE c \in Cats(w.from)
      BY <1>5, <2>1, <3>1 DEF Present
    <3>2. CASE c \in w.cats
      BY <1>5, <3>2 DEF BranchesBrought
    <3>3. CASE c \notin Cats(w.from) /\ c \notin w.cats
      BY <1>1, <3>3 DEF NewCats
    <3>. QED
      BY <3>1, <3>2, <3>3
  <2>3. ASSUME NEW a \in Types(w.target) PROVE facetType'[a] # NoFacet \/ a \in declined'.types
    <3>1. CASE a \in Types(w.from)
      BY <1>5, <2>1, <3>1 DEF Present
    <3>2. CASE a \in w.types
      BY <1>5, <3>2 DEF FacetsBrought
    <3>3. CASE a \notin Types(w.from) /\ a \notin w.types
      BY <1>1, <3>3
    <3>. QED
      BY <3>1, <3>2, <3>3
  <2>. QED
    BY <1>5, <2>2, <2>3 DEF Present
<1>7. InstalledPresent'
  BY <1>1, <1>2, <1>3, <1>6 DEF InstalledPresent, Present, Cats, Types, Copies, Living
<1>8. ASSUME ~raced' PROVE ~raced /\ installed = w.from
  BY <1>1, <1>2, <1>8
<1>9. BranchesCopied'
  <2>1. SUFFICES ASSUME ~raced' PROVE
          /\ \A n \in Living' : \E u \in Versions : u <= installed' /\ branches'[n].code \in Cats(u)
          /\ \A c \in Codes \ Returning' : \A m, n \in Copies(c)' : m = n
    BY <1>5 DEF BranchesCopied
  <2>2. ~raced /\ installed = w.from
    BY <1>8, <2>1
  <2>3. ASSUME NEW n \in Living'
        PROVE  \E u \in Versions : u <= installed' /\ branches'[n].code \in Cats(u)
    <3>1. CASE n \in Living
      <4>1. PICK u \in Versions : u <= installed /\ branches[n].code \in Cats(u)
        BY <2>2, <3>1 DEF BranchesCopied
      <4>2. u <= installed' /\ branches'[n].code \in Cats(u)
        BY <1>1, <1>2, <1>3, <1>5, <2>2, <3>1, <4>1 DEF BranchesKept
      <4>. QED
        BY <4>2
    <3>2. CASE n \notin Living
      <4>1. branches'[n].code \in Cats(w.target)
        BY <1>3, <1>5, <3>2 DEF BranchesBrought
      <4>. QED
        BY <1>1, <1>3, <4>1
    <3>. QED
      BY <3>1, <3>2
  <2>4. Returning \subseteq Returning'
    BY <1>1, <1>2, <1>3, <1>5, <2>2 DEF Returning
  <2>5. ASSUME NEW c \in Codes \ Returning', NEW m \in Copies(c)', NEW n \in Copies(c)',
               m \in Living, n \notin Living
        PROVE  FALSE
    <3>1. branches'[m].code = c /\ branches'[n].code = c /\ n \in Living'
      BY DEF Copies
    <3>2. c \in Cats(w.target) \ Cats(w.from)
      BY <1>3, <1>5, <2>5, <3>1 DEF BranchesBrought
    <3>3. branches[m].code = c
      BY <1>5, <2>5, <3>1 DEF BranchesKept
    <3>4. PICK u \in Versions : u <= w.from /\ c \in Cats(u)
      BY <2>2, <2>5, <3>3 DEF BranchesCopied
    <3>5. u # w.from /\ u \in Nat /\ u > 0
      BY <1>2, <3>2, <3>4
    <3>6. u \in 1..w.target /\ w.from \in 1..w.target /\ w.target \in 1..w.target /\ u < w.from
      BY <1>2, <1>3, <3>4, <3>5
    <3>7. c \in (Cats(u) \ Cats(w.from)) \cap Cats(w.target)
      BY <3>2, <3>4
    <3>8. c \in Returning'
      BY <1>1, <1>3, <1>5, <3>6, <3>7 DEF Returning
    <3>. QED
      BY <3>8
  <2>6. ASSUME NEW c \in Codes \ Returning', NEW m \in Copies(c)', NEW n \in Copies(c)'
        PROVE  m = n
    <3>1. /\ m \in Living' /\ n \in Living'
          /\ branches'[m].code = c /\ branches'[n].code = c
      BY DEF Copies
    <3>2. CASE m \in Living /\ n \in Living
      <4>1. m \in Copies(c) /\ n \in Copies(c) /\ c \in Codes \ Returning
        BY <1>5, <2>4, <3>1, <3>2 DEF BranchesKept, Copies
      <4>. QED
        BY <2>2, <4>1 DEF BranchesCopied
    <3>3. CASE m \notin Living /\ n \notin Living
      BY <1>5, <3>1, <3>3 DEF BranchesBrought
    <3>. QED
      BY <2>5, <3>2, <3>3
  <2>. QED
    BY <2>3, <2>6
<1>10. CompletedIsInstalled'
  <2>1. SUFFICES ASSUME ~raced', NEW u \in Versions, attempt'[u] = "completed"
                 PROVE  u <= installed'
    BY <1>5 DEF CompletedIsInstalled
  <2>2. u = w.target \/ u <= w.from
    BY <1>1, <1>2, <1>3, <1>8, <2>1 DEF CompletedIsInstalled
  <2>. QED
    BY <1>1, <1>2, <1>3, <2>2
<1>11. TypesAsReleased'
  <2>1. family' = family
    BY <1>1 DEF ShelfUnchanged
  <2>2. SUFFICES ASSUME NEW a \in Facets, a \notin owned', facetType'[a] # NoFacet
                 PROVE  \E v \in Versions : (raced' \/ v <= installed')
                                            /\ family[v].type[a] = facetType'[a]
    BY <1>5, <2>1 DEF TypesAsReleased
  <2>3. CASE facetType'[a] = facetType[a]
    <3>1. PICK v \in Versions : (raced \/ v <= installed) /\ family[v].type[a] = facetType[a]
      BY <1>1, <2>2, <2>3 DEF TypesAsReleased
    <3>2. raced' \/ v <= installed'
      BY <1>1, <1>2, <1>3, <1>8, <3>1
    <3>. QED
      BY <2>3, <3>1, <3>2
  <2>4. CASE facetType[a] = NoFacet /\ facetType'[a] = family[w.target].type[a]
    BY <1>1, <1>3, <2>4
  <2>. QED
    BY <1>5, <2>3, <2>4 DEF FacetsBrought
<1>. QED
  BY <1>5, <1>7, <1>9, <1>10, <1>11

LEMMA TemplatesKept ==
    ASSUME TemplatesInv, [TemplatesNext]_templateVars
    PROVE  TemplatesInv'
<1>1. CASE GiveUp \/ \E v \in Versions : Release(v) \/ Switch(v)
  BY <1>1, ShelfStep
<1>3. ASSUME NEW k \in Installers,
             \/ \E v \in Versions : StartInstall(k, v) \/ StartUpdate(k, v)
             \/ FailUpdate(k) \/ LoseRequest(k)
      PROVE  TemplatesInv'
  BY <1>3, RequestsStep
<1>4. ASSUME NEW k \in Installers, FinishInstall(k) PROVE TemplatesInv'
  BY <1>4, FinishInstallStep
<1>5. ASSUME NEW k \in Installers, FinishUpdate(k) PROVE TemplatesInv'
  BY <1>5, FinishUpdateStep
<1>6. ASSUME NEW n \in DOMAIN branches, DropBranch(n) PROVE TemplatesInv'
  BY <1>6, DropStep
<1>7. ASSUME NEW a \in Facets, NEW type \in DataTypes, OwnFacet(a, type) PROVE TemplatesInv'
  BY <1>7, OwnFacetStep
<1>8. CASE UNCHANGED templateVars
  BY <1>8 DEF templateVars, TemplatesInv, TemplateTypes, TemplatesTypeOK, Installed, SchemaRows,
              Versions, OfferedAreSound, RequestsFit, FitsVersions, Present, Cats, Types, NewCats,
              Copies, Living, InstalledPresent, BranchesHang, BranchesCopied, Returning,
              CompletedIsInstalled, TypesAsReleased
<1>. QED
  BY <1>1, <1>3, <1>4, <1>5, <1>6, <1>7, <1>8 DEF TemplatesNext

\* Whatever staff members and the platform do meanwhile, an installation and
\* its updates leave the store's copy sound: nothing of the version it is at
\* forgotten, nothing copied twice, no category below one that is gone.
THEOREM TemplatesAreSound == TemplatesSpec => []TemplatesSound
<1>1. TemplatesInv => TemplatesSound
  <2>1. SUFFICES ASSUME TemplatesInv PROVE TemplatesSound
    OBVIOUS
  <2>2. CopiedOnce
    <3>1. SUFFICES ASSUME ~raced, NEW c \in Codes \ Returning PROVE Cardinality(Copies(c)) <= 1
      BY DEF CopiedOnce
    <3>2. \A m, n \in Copies(c) : m = n
      BY <2>1, <3>1 DEF TemplatesInv, BranchesCopied
    <3>3. Copies(c) = {} \/ \E n : Copies(c) = {n}
      BY <3>2
    <3>4. Cardinality(Copies(c)) \in {0, 1}
      BY <3>3, FS_EmptySet, FS_Singleton
    <3>. QED
      BY <3>4
  <2>3. NothingForgotten
    BY <2>1 DEF TemplatesInv, InstalledPresent, Present, NothingForgotten
  <2>. QED
    BY <2>1, <2>2, <2>3 DEF TemplatesInv, TemplateTypes, TemplatesSound
<1>. QED
  BY <1>1, TemplatesStart, TemplatesKept, PTL DEF TemplatesSpec

-----------------------------------------------------------------------------
(* Options and variants.                                                   *)

\* Active values of an option are called differently.
LabelsDiffer ==
    \A v, w \in OptionValues :
        /\ valueState[v] = "active" /\ valueState[w] = "active"
        /\ AxisOf[v] = AxisOf[w] /\ valueLabel[v] = valueLabel[w]
        => v = w

\* What a variant or a request's instance of one is made of was added once.
MadeOfAdded(k) == k \notin LegacyVariants => \A v \in k : valueState[v] # "none"
RowsMadeOfAdded == \A k \in Combinations : variantRow[k].exists => MadeOfAdded(k)
FormsWereRows ==
    \A e \in VariantEditors : variantForm[e] # Unread =>
        variantForm[e].seen.exists /\ MadeOfAdded(variantForm[e].row)

\* Between a generation and the next removal of an option the variants that
\* are not obsolete are of active options only.
CurrentAreOfActiveAxes ==
    ~axisDropped /\ ~staleSaved =>
        \A k \in Combinations : variantRow[k].exists /\ ~variantRow[k].obsolete =>
            \A v \in k : AxisOf[v] \in ActiveAxes

VariantTypes == VariantTypeOK /\ DOMAIN valueLabel = OptionValues
VariantsInv ==
    /\ VariantTypes /\ LabelsDiffer /\ RowsMadeOfAdded /\ FormsWereRows
    /\ CurrentAreOfActiveAxes /\ TextsDiffer /\ ValuesKept

\* A combination is no legacy variant.
LEMMA CombinationsApart ==
    ASSUME NEW k \in Combinations
    PROVE  k \in VariantIds /\ k \notin LegacyVariants /\ k \subseteq OptionValues
  BY OptionsAreNamed DEF Combinations, VariantIds

\* A row has the three fields, and one that is active exists.
LEMMA RowIs ==
    ASSUME NEW row \in VariantRow
    PROVE  /\ row = [active |-> row.active, obsolete |-> row.obsolete, exists |-> row.exists]
           /\ row.active \in BOOLEAN /\ row.obsolete \in BOOLEAN /\ row.exists \in BOOLEAN
           /\ row.active => row.exists
<1> DEFINE Loose == [active : BOOLEAN, obsolete : BOOLEAN, exists : BOOLEAN]
<1>1. row = NoVariant \/ row \in [active : BOOLEAN, obsolete : BOOLEAN, exists : {TRUE}]
  BY DEF VariantRow
<1>2. row \in Loose
  <2>1. NoVariant \in Loose
    BY DEF NoVariant
  <2>2. CASE row \in [active : BOOLEAN, obsolete : BOOLEAN, exists : {TRUE}]
    BY <2>2
  <2>. QED
    BY <1>1, <2>1, <2>2
<1>3. row.active => row.exists
  <2>1. CASE row = NoVariant
    BY <2>1 DEF NoVariant
  <2>2. CASE row \in [active : BOOLEAN, obsolete : BOOLEAN, exists : {TRUE}]
    BY <2>2
  <2>. QED
    BY <1>1, <2>1, <2>2
<1>4. row = [active |-> row.active, obsolete |-> row.obsolete, exists |-> row.exists]
  BY <1>2
<1>. QED
  BY <1>2, <1>3, <1>4

\* A row with another value of is_active, and of is_obsolete.
LEMMA RowUpdates ==
    ASSUME NEW a, NEW b, NEW c, NEW d, NEW row,
           row = [active |-> a, obsolete |-> b, exists |-> c]
    PROVE  /\ [row EXCEPT !.active = d] = [active |-> d, obsolete |-> b, exists |-> c]
           /\ [row EXCEPT !.obsolete = d] = [active |-> a, obsolete |-> d, exists |-> c]
  OBVIOUS

\* The rows that requests write.
LEMMA RowsAre ==
    ASSUME NEW a \in BOOLEAN, NEW row \in VariantRow, row.exists
    PROVE  /\ NewVariant \in VariantRow /\ NoVariant \in VariantRow
           /\ [NewVariant EXCEPT !.active = a] \in VariantRow
           /\ [NewVariant EXCEPT !.active = a].active = a
           /\ [row EXCEPT !.active = a] \in VariantRow
           /\ [row EXCEPT !.active = a].active = a
           /\ [row EXCEPT !.active = a].obsolete = row.obsolete
           /\ [row EXCEPT !.active = a].exists
           /\ [row EXCEPT !.obsolete = TRUE, !.active = FALSE] \in VariantRow
<1>1. PICK p, q, t, f : p = row.active /\ q = row.obsolete /\ t = TRUE /\ f = FALSE
  OBVIOUS
<1>2. row \in [active : BOOLEAN, obsolete : BOOLEAN, exists : {TRUE}]
  <2>1. row # NoVariant
    BY DEF NoVariant
  <2>. QED
    BY <2>1 DEF VariantRow
<1>3. row = [active |-> p, obsolete |-> q, exists |-> t]
  BY <1>1, <1>2
<1>4. p \in BOOLEAN /\ q \in BOOLEAN /\ t \in BOOLEAN /\ f \in BOOLEAN
  BY <1>1, <1>2
<1>5. [row EXCEPT !.active = a] = [active |-> a, obsolete |-> q, exists |-> t]
  <2>1. PICK r, x : r = row /\ x = a
    OBVIOUS
  <2>2. r = [active |-> p, obsolete |-> q, exists |-> t]
    BY <1>3, <2>1
  <2>3. [r EXCEPT !.active = x] = [active |-> x, obsolete |-> q, exists |-> t]
    BY <2>2, RowUpdates
  <2>. QED
    BY <2>1, <2>3
<1>6. [row EXCEPT !.obsolete = TRUE, !.active = FALSE]
          = [active |-> f, obsolete |-> t, exists |-> t]
  <2>1. PICK r, x : r = row /\ x = t
    OBVIOUS
  <2>2. r = [active |-> p, obsolete |-> q, exists |-> t]
    BY <1>3, <2>1
  <2>3. PICK u : u = [r EXCEPT !.obsolete = x]
    OBVIOUS
  <2>4. [r EXCEPT !.obsolete = x] = [active |-> p, obsolete |-> x, exists |-> t]
    BY <2>2, RowUpdates
  <2>5. u = [active |-> p, obsolete |-> t, exists |-> t]
    BY <2>1, <2>3, <2>4
  <2>6. [u EXCEPT !.active = f] = [active |-> f, obsolete |-> t, exists |-> t]
    BY <2>5, RowUpdates
  <2>. QED
    BY <1>1, <2>1, <2>3, <2>6
<1>7. NewVariant = [active |-> t, obsolete |-> f, exists |-> t]
  BY <1>1 DEF NewVariant
<1>8. [NewVariant EXCEPT !.active = a] = [active |-> a, obsolete |-> f, exists |-> t]
  BY <1>7, RowUpdates
<1>9. \A x, y \in BOOLEAN : [active |-> x, obsolete |-> y, exists |-> t] \in VariantRow
  BY <1>1 DEF VariantRow
<1>10. \A x, y \in BOOLEAN : /\ [active |-> x, obsolete |-> y, exists |-> t].active = x
                             /\ [active |-> x, obsolete |-> y, exists |-> t].obsolete = y
                             /\ [active |-> x, obsolete |-> y, exists |-> t].exists = t
  OBVIOUS
<1>11. NoVariant \in VariantRow
  BY DEF NoVariant, VariantRow
<1>12. /\ NewVariant \in VariantRow /\ [NewVariant EXCEPT !.active = a] \in VariantRow
       /\ [NewVariant EXCEPT !.active = a].active = a
  BY <1>4, <1>7, <1>8, <1>9, <1>10
<1>13. /\ [row EXCEPT !.active = a] \in VariantRow /\ [row EXCEPT !.active = a].active = a
       /\ [row EXCEPT !.active = a].obsolete = q /\ [row EXCEPT !.active = a].exists = t
  BY <1>4, <1>5, <1>9, <1>10
<1>14. [row EXCEPT !.obsolete = TRUE, !.active = FALSE] \in VariantRow
  BY <1>4, <1>6, <1>9
<1>. QED
  BY <1>1, <1>11, <1>12, <1>13, <1>14

LEMMA VariantsStart == VariantInit => VariantsInv
<1> SUFFICES ASSUME VariantInit PROVE VariantsInv
  OBVIOUS
<1>1. VariantTypes
  <2>1. variantEdits \in 0..MaxVariantEdits
    <3>1. variantEdits = 0 /\ MaxVariantEdits \in Nat
      BY OptionsAreNamed DEF VariantInit
    <3>. QED
      BY <3>1
  <2>2. axisDropped \in BOOLEAN /\ staleSaved \in BOOLEAN
    BY DEF VariantInit
  <2>. QED
    BY <2>1, <2>2
       DEF VariantInit, VariantTypes, VariantTypeOK, VariantRow, AxisStates, ValueStates
<1>2. \A k \in VariantIds : ~variantRow[k].exists /\ ~variantRow[k].active
  BY DEF VariantInit, NoVariant
<1>3. LabelsDiffer /\ FormsWereRows
  BY DEF VariantInit, LabelsDiffer, FormsWereRows
<1>. QED
  BY <1>1, <1>2, <1>3, CombinationsApart
     DEF VariantsInv, RowsMadeOfAdded, CurrentAreOfActiveAxes, TextsDiffer, ValuesKept

-----------------------------------------------------------------------------
(* The options change.                                                     *)

LEMMA EditsAreBounded ==
    ASSUME VariantsInv, variantEdits' = variantEdits \/ VariantEdit
    PROVE  variantEdits' \in 0..MaxVariantEdits
<1>1. variantEdits \in 0..MaxVariantEdits /\ MaxVariantEdits \in Nat
  BY OptionsAreNamed DEF VariantsInv, VariantTypes, VariantTypeOK
<1>. QED
  BY <1>1 DEF VariantEdit

\* An option is added, switched off or on.
LEMMA AxisStep ==
    ASSUME VariantsInv, NEW x \in Axes,
           AddOption(x) \/ DeactivateOption(x) \/ ActivateOption(x)
    PROVE  VariantsInv'
<1>1. /\ UNCHANGED <<valueState, valueLabel>> /\ VariantsUnchanged
      /\ variantEdits' \in 0..MaxVariantEdits /\ axisDropped' \in BOOLEAN
      /\ axisState' \in [Axes -> AxisStates]
  <2>1. UNCHANGED <<valueState, valueLabel>> /\ VariantsUnchanged
    BY DEF AddOption, DeactivateOption, ActivateOption
  <2>2. variantEdits' = variantEdits \/ VariantEdit
    BY DEF AddOption, DeactivateOption, ActivateOption
  <2>3. axisDropped' = axisDropped \/ axisDropped' = TRUE
    BY DEF AddOption, DeactivateOption, ActivateOption
  <2>4. axisState' \in [Axes -> AxisStates]
    BY DEF AddOption, DeactivateOption, ActivateOption, VariantsInv, VariantTypes, VariantTypeOK,
       AxisStates
  <2>. QED
    BY <2>1, <2>2, <2>3, <2>4, EditsAreBounded DEF VariantsInv, VariantTypes, VariantTypeOK
<1>2. ~axisDropped' => ~axisDropped /\ ActiveAxes \subseteq ActiveAxes'
  BY DEF AddOption, DeactivateOption, ActivateOption, VariantsInv, VariantTypes, VariantTypeOK,
     ActiveAxes
<1>3. VariantTypes'
  BY <1>1 DEF VariantsInv, VariantTypes, VariantTypeOK, VariantsUnchanged
<1>4. LabelsDiffer'
  BY <1>1 DEF VariantsInv, LabelsDiffer
<1>5. RowsMadeOfAdded' /\ FormsWereRows'
  BY <1>1 DEF VariantsInv, RowsMadeOfAdded, FormsWereRows, MadeOfAdded, VariantsUnchanged
<1>6. CurrentAreOfActiveAxes'
  BY <1>1, <1>2 DEF VariantsInv, CurrentAreOfActiveAxes, VariantsUnchanged
<1>7. TextsDiffer' /\ ValuesKept'
  BY <1>1 DEF VariantsInv, TextsDiffer, TextOf, ValuesKept, VariantsUnchanged
<1>. QED
  BY <1>3, <1>4, <1>5, <1>6, <1>7 DEF VariantsInv

\* A value is added: no variant is made of it yet.
LEMMA AddValueStep ==
    ASSUME VariantsInv, NEW v \in OptionValues, NEW label \in LabelsOf[v], AddValue(v, label)
    PROVE  VariantsInv'
<1>1. /\ UNCHANGED axisState /\ VariantsUnchanged /\ UNCHANGED <<axisDropped, variantEdits>>
      /\ valueState[v] = "none" /\ \A w \in ActiveValues(AxisOf[v]) : valueLabel[w] # label
      /\ valueState' = [valueState EXCEPT ![v] = "active"]
      /\ valueLabel' = [valueLabel EXCEPT ![v] = label]
  BY DEF AddValue
<1>2. /\ valueState \in [OptionValues -> ValueStates] /\ DOMAIN valueLabel = OptionValues
  BY DEF VariantsInv, VariantTypes, VariantTypeOK
<1>3. /\ valueState'[v] = "active" /\ valueLabel'[v] = label
      /\ \A w \in OptionValues : w # v => valueState'[w] = valueState[w] /\ valueLabel'[w] = valueLabel[w]
  BY <1>1, <1>2
<1>4. VariantTypes'
  BY <1>1, <1>2, <1>3 DEF VariantsInv, VariantTypes, VariantTypeOK, VariantsUnchanged, ValueStates, AxisStates
<1>5. LabelsDiffer'
  BY <1>1, <1>3 DEF VariantsInv, LabelsDiffer, ActiveValues
<1>6. \A w \in OptionValues : valueState[w] # "none" => /\ valueState'[w] = valueState[w]
                                                        /\ valueLabel'[w] = valueLabel[w]
  BY <1>1, <1>3
<1>7. ASSUME NEW k \in Combinations, variantRow[k].exists
      PROVE  TextOf(k)' = TextOf(k) /\ \A w \in k : valueState'[w] = valueState[w]
  <2>1. \A w \in k : w \in OptionValues /\ valueState[w] # "none"
    BY <1>7, CombinationsApart DEF VariantsInv, RowsMadeOfAdded, MadeOfAdded
  <2>2. \A w \in k : valueState'[w] = valueState[w] /\ valueLabel'[w] = valueLabel[w]
    BY <1>6, <2>1
  <2>. QED
    BY <2>2 DEF TextOf
<1>8. RowsMadeOfAdded'
  BY <1>1, <1>7, CombinationsApart DEF VariantsInv, RowsMadeOfAdded, MadeOfAdded, VariantsUnchanged
<1>9. FormsWereRows'
  <2>1. ASSUME NEW e \in VariantEditors, variantForm[e] # Unread
        PROVE  MadeOfAdded(variantForm[e].row)'
    <3>1. variantForm[e].row \in VariantIds /\ MadeOfAdded(variantForm[e].row)
      BY <2>1 DEF VariantsInv, VariantTypes, VariantTypeOK, FormsWereRows
    <3>2. ASSUME variantForm[e].row \notin LegacyVariants, NEW w \in variantForm[e].row
          PROVE  w \in OptionValues /\ valueState'[w] # "none"
      BY <1>6, <3>1, <3>2, CombinationsApart DEF VariantIds, MadeOfAdded
    <3>. QED
      BY <1>1, <3>2 DEF MadeOfAdded, VariantsUnchanged
  <2>. QED
    BY <1>1, <2>1 DEF VariantsInv, FormsWereRows, VariantsUnchanged
<1>10. CurrentAreOfActiveAxes'
  BY <1>1 DEF VariantsInv, CurrentAreOfActiveAxes, VariantsUnchanged, ActiveAxes
<1>11. TextsDiffer'
  <2>1. \A k \in Combinations : variantRow[k].active => variantRow[k].exists
    BY CombinationsApart, RowIs DEF VariantsInv, VariantTypes, VariantTypeOK
  <2>. QED
    BY <1>1, <1>7, <2>1 DEF VariantsInv, TextsDiffer, VariantsUnchanged
<1>12. ValuesKept'
  BY <1>1, <1>7 DEF VariantsInv, ValuesKept, VariantsUnchanged
<1>. QED
  BY <1>4, <1>5, <1>8, <1>9, <1>10, <1>11, <1>12 DEF VariantsInv

\* A value is removed, or switched off if some variant is made of it.
LEMMA RemoveValueStep ==
    ASSUME VariantsInv, NEW v \in OptionValues, RemoveValue(v)
    PROVE  VariantsInv'
<1> DEFINE after == IF Linked(v) THEN "inactive" ELSE "gone"
<1>1. /\ UNCHANGED <<axisState, valueLabel, axisDropped>> /\ VariantsUnchanged
      /\ variantEdits' \in 0..MaxVariantEdits
      /\ valueState[v] \in {"active", "inactive"}
      /\ valueState' = [valueState EXCEPT ![v] = after]
  BY EditsAreBounded DEF RemoveValue
<1>2. valueState \in [OptionValues -> ValueStates]
  BY DEF VariantsInv, VariantTypes, VariantTypeOK
<1>3. /\ valueState'[v] = after /\ after \in {"inactive", "gone"}
      /\ \A w \in OptionValues : w # v => valueState'[w] = valueState[w]
  BY <1>1, <1>2
<1>4. VariantTypes'
  BY <1>1, <1>2 DEF VariantsInv, VariantTypes, VariantTypeOK, VariantsUnchanged, ValueStates, AxisStates
<1>5. LabelsDiffer'
  BY <1>1, <1>3 DEF VariantsInv, LabelsDiffer
<1>6. \A w : w \in OptionValues /\ valueState[w] # "none" => valueState'[w] # "none"
  BY <1>3
<1>7. ASSUME NEW r \in VariantIds, MadeOfAdded(r) PROVE MadeOfAdded(r)'
  BY <1>6, <1>7, CombinationsApart DEF VariantIds, MadeOfAdded
<1>8. RowsMadeOfAdded'
  BY <1>1, <1>7, CombinationsApart DEF VariantsInv, RowsMadeOfAdded, VariantsUnchanged
<1>9. FormsWereRows'
  <2>1. \A e \in VariantEditors : variantForm[e] # Unread => variantForm[e].row \in VariantIds
    BY DEF VariantsInv, VariantTypes, VariantTypeOK
  <2>2. \A e \in VariantEditors : variantForm[e] # Unread => MadeOfAdded(variantForm[e].row)'
    BY <1>1, <1>7, <2>1 DEF VariantsInv, FormsWereRows, VariantsUnchanged, MadeOfAdded
  <2>. QED
    BY <1>1, <2>2 DEF VariantsInv, FormsWereRows, VariantsUnchanged
<1>10. CurrentAreOfActiveAxes' /\ TextsDiffer'
  BY <1>1 DEF VariantsInv, CurrentAreOfActiveAxes, VariantsUnchanged, ActiveAxes, TextsDiffer, TextOf
<1>11. ValuesKept'
  <2>1. ASSUME NEW k \in Combinations \ unlinkedRows, variantRow[k].exists, NEW w \in k
        PROVE  valueState'[w] \in {"active", "inactive"}
    <3>1. w \in OptionValues /\ valueState[w] \in {"active", "inactive"}
      BY <2>1, CombinationsApart DEF VariantsInv, ValuesKept
    <3>2. w = v => Linked(v)
      BY <2>1 DEF Linked
    <3>. QED
      BY <1>3, <3>1, <3>2
  <2>. QED
    BY <1>1, <2>1 DEF ValuesKept, VariantsUnchanged
<1>. QED
  BY <1>4, <1>5, <1>8, <1>9, <1>10, <1>11 DEF VariantsInv

-----------------------------------------------------------------------------
(* The variants change.                                                    *)

\* What holds of the rows when one of them has become another.
LEMMA RowChanges ==
    ASSUME VariantsInv, OptionsUnchanged, NEW r \in VariantIds, NEW row \in VariantRow,
           variantRow' = [variantRow EXCEPT ![r] = row],
           row.active => variantRow[r].active \/ MayBecomeActive(r),
           unlinkedRows \ {r} \subseteq unlinkedRows', row.exists => MadeOfAdded(r),
           row.exists /\ r \in Combinations \ unlinkedRows' =>
               \A v \in r : valueState[v] \in {"active", "inactive"},
           ~axisDropped' /\ ~staleSaved' =>
               /\ ~axisDropped /\ ~staleSaved
               /\ row.exists /\ ~row.obsolete /\ r \in Combinations =>
                      \A v \in r : AxisOf[v] \in ActiveAxes
    PROVE  /\ variantRow' \in [VariantIds -> VariantRow]
           /\ LabelsDiffer' /\ RowsMadeOfAdded' /\ CurrentAreOfActiveAxes'
           /\ TextsDiffer' /\ ValuesKept'
<1>1. variantRow \in [VariantIds -> VariantRow]
  BY DEF VariantsInv, VariantTypes, VariantTypeOK
<1>2. /\ variantRow' \in [VariantIds -> VariantRow] /\ variantRow'[r] = row
      /\ \A k \in VariantIds : k # r => variantRow'[k] = variantRow[k]
  BY <1>1
<1>3. UNCHANGED <<axisState, valueState, valueLabel>>
  BY DEF OptionsUnchanged
<1>4. LabelsDiffer'
  BY <1>3 DEF VariantsInv, LabelsDiffer
<1>5. \A k : MadeOfAdded(k) => MadeOfAdded(k)'
  BY <1>3 DEF MadeOfAdded
<1>6. RowsMadeOfAdded'
  BY <1>2, <1>5, CombinationsApart DEF VariantsInv, RowsMadeOfAdded
<1>7. CurrentAreOfActiveAxes'
  <2>1. ActiveAxes' = ActiveAxes
    BY <1>3 DEF ActiveAxes
  <2>. QED
    BY <1>2, <2>1, CombinationsApart DEF VariantsInv, CurrentAreOfActiveAxes
<1>8. TextsDiffer'
  <2>1. \A k : TextOf(k)' = TextOf(k)
    BY <1>3 DEF TextOf
  <2>2. ASSUME NEW k \in Combinations, NEW m \in Combinations, variantRow'[k].active,
               variantRow'[m].active, TextOf(k) = TextOf(m)
        PROVE  k = m
    <3>1. CASE variantRow[k].active /\ variantRow[m].active
      BY <2>2, <3>1 DEF VariantsInv, TextsDiffer
    <3>2. CASE ~variantRow[k].active
      <4>1. k = r /\ MayBecomeActive(k) /\ k \notin LegacyVariants
        BY <1>2, <2>2, <3>2, CombinationsApart
      <4>2. m # k => variantRow[m].active
        BY <1>2, <2>2, <4>1, CombinationsApart
      <4>. QED
        BY <2>2, <4>1, <4>2 DEF MayBecomeActive
    <3>3. CASE ~variantRow[m].active
      <4>1. m = r /\ MayBecomeActive(m) /\ m \notin LegacyVariants
        BY <1>2, <2>2, <3>3, CombinationsApart
      <4>2. m # k => variantRow[k].active
        BY <1>2, <2>2, <4>1, CombinationsApart
      <4>. QED
        BY <2>2, <4>1, <4>2 DEF MayBecomeActive
    <3>. QED
      BY <3>1, <3>2, <3>3
  <2>. QED
    BY <2>1, <2>2 DEF TextsDiffer
<1>9. ValuesKept'
  BY <1>2, <1>3, CombinationsApart DEF VariantsInv, ValuesKept
<1>. QED
  BY <1>2, <1>4, <1>6, <1>7, <1>8, <1>9

\* What holds of the instances in hand when one of them is read or let go.
LEMMA FormsRest ==
    ASSUME VariantsInv, OptionsUnchanged, NEW e, NEW g,
           variantForm' = variantForm \/ variantForm' = [variantForm EXCEPT ![e] = g],
           e \in VariantEditors /\ g # Unread =>
               /\ g \in [row : VariantIds, seen : VariantRow]
               /\ g.seen.exists /\ MadeOfAdded(g.row)
    PROVE  /\ variantForm' \in [VariantEditors ->
                  [row : VariantIds, seen : VariantRow] \cup {Unread}]
           /\ FormsWereRows'
<1>1. variantForm \in [VariantEditors -> [row : VariantIds, seen : VariantRow] \cup {Unread}]
  BY DEF VariantsInv, VariantTypes, VariantTypeOK
<1>2. /\ variantForm' \in [VariantEditors -> [row : VariantIds, seen : VariantRow] \cup {Unread}]
      /\ \A x \in VariantEditors :
             \/ variantForm'[x] = variantForm[x]
             \/ variantForm'[x] = g /\ e \in VariantEditors
  BY <1>1
<1>3. \A k : MadeOfAdded(k) => MadeOfAdded(k)'
  BY DEF MadeOfAdded, OptionsUnchanged
<1>4. ASSUME NEW x \in VariantEditors, variantForm'[x] # Unread
      PROVE  variantForm'[x].seen.exists /\ MadeOfAdded(variantForm'[x].row)
  BY <1>2, <1>4 DEF VariantsInv, FormsWereRows
<1>5. FormsWereRows'
  BY <1>3, <1>4 DEF FormsWereRows, MadeOfAdded, OptionsUnchanged
<1>. QED
  BY <1>2, <1>5

\* The types of what one change of a row leaves alone, or counts.
LEMMA TypesRest ==
    ASSUME VariantsInv, OptionsUnchanged, variantRow' \in [VariantIds -> VariantRow],
           variantForm' \in [VariantEditors -> [row : VariantIds, seen : VariantRow] \cup {Unread}],
           unlinkedRows' \subseteq VariantIds \ LegacyVariants,
           axisDropped' \in BOOLEAN, staleSaved' \in BOOLEAN,
           variantEdits' = variantEdits \/ VariantEdit
    PROVE  VariantTypes'
<1>1. variantEdits' \in 0..MaxVariantEdits
  BY EditsAreBounded
<1>. QED
  BY <1>1 DEF VariantsInv, VariantTypes, VariantTypeOK, OptionsUnchanged

\* What the invariant says of one row.
LEMMA RowExists ==
    ASSUME VariantsInv, NEW r \in VariantIds
    PROVE  /\ variantRow[r] \in VariantRow /\ variantRow[r].exists \in BOOLEAN
           /\ variantRow[r].exists => MadeOfAdded(r)
           /\ unlinkedRows \subseteq VariantIds \ LegacyVariants
           /\ axisDropped \in BOOLEAN /\ staleSaved \in BOOLEAN
<1>1. variantRow[r] \in VariantRow
  BY DEF VariantsInv, VariantTypes, VariantTypeOK
<1>2. variantRow[r].exists => MadeOfAdded(r)
  BY DEF VariantsInv, RowsMadeOfAdded, MadeOfAdded, VariantIds
<1>. QED
  BY <1>1, <1>2, RowIs DEF VariantsInv, VariantTypes, VariantTypeOK

\* A wanted combination is of active values of active options.
LEMMA Wanted ==
    ASSUME VariantsInv, NEW k \in WantedCombinations
    PROVE  /\ k \in Combinations /\ MadeOfAdded(k)
           /\ \A v \in k : valueState[v] = "active" /\ AxisOf[v] \in ActiveAxes
  BY DEF WantedCombinations, MadeOfAdded

LEMMA AddManualStep ==
    ASSUME VariantsInv, NEW k \in Combinations, AddManual(k)
    PROVE  VariantsInv'
<1>1. /\ VariantEdit /\ k \in WantedCombinations /\ OptionsUnchanged
      /\ variantRow[k].active \/ MayBecomeActive(k)
      /\ variantRow' = [variantRow EXCEPT ![k] = NewVariant]
      /\ UNCHANGED <<unlinkedRows, variantForm, axisDropped, staleSaved>>
  BY DEF AddManual
<1>2. k \in VariantIds /\ NewVariant \in VariantRow
  BY CombinationsApart DEF NewVariant, VariantRow
<1>3. /\ variantRow' \in [VariantIds -> VariantRow]
      /\ LabelsDiffer' /\ RowsMadeOfAdded' /\ CurrentAreOfActiveAxes' /\ TextsDiffer' /\ ValuesKept'
  BY <1>1, <1>2, Wanted, RowChanges
<1>4. variantForm' \in [VariantEditors -> [row : VariantIds, seen : VariantRow] \cup {Unread}]
      /\ FormsWereRows'
  BY <1>1, FormsRest
<1>5. VariantTypes'
  BY <1>1, <1>2, <1>3, <1>4, RowExists, TypesRest
<1>. QED
  BY <1>3, <1>4, <1>5 DEF VariantsInv

LEMMA AddLegacyStep ==
    ASSUME VariantsInv, NEW c \in LegacyVariants, NEW isActive \in BOOLEAN, AddLegacy(c, isActive)
    PROVE  VariantsInv'
<1> DEFINE new == [NewVariant EXCEPT !.active = isActive]
<1>1. /\ VariantEdit /\ OptionsUnchanged /\ variantRow' = [variantRow EXCEPT ![c] = new]
      /\ UNCHANGED <<unlinkedRows, variantForm, axisDropped, staleSaved>>
  BY DEF AddLegacy
<1>2. c \in VariantIds /\ c \notin Combinations /\ MadeOfAdded(c) /\ MayBecomeActive(c)
  BY CombinationsApart DEF VariantIds, MadeOfAdded, MayBecomeActive
<1>3. NewVariant \in VariantRow /\ NewVariant.exists
  BY DEF NewVariant, VariantRow
<1>4. new \in VariantRow
  BY <1>3, RowsAre
<1> HIDE DEF new
<1>5. /\ variantRow' \in [VariantIds -> VariantRow]
      /\ LabelsDiffer' /\ RowsMadeOfAdded' /\ CurrentAreOfActiveAxes' /\ TextsDiffer' /\ ValuesKept'
  BY <1>1, <1>2, <1>4, RowChanges
<1>6. variantForm' \in [VariantEditors -> [row : VariantIds, seen : VariantRow] \cup {Unread}]
      /\ FormsWereRows'
  BY <1>1, FormsRest
<1>7. VariantTypes'
  BY <1>1, <1>2, <1>5, <1>6, RowExists, TypesRest
<1>. QED
  BY <1>5, <1>6, <1>7 DEF VariantsInv

LEMMA BulkActivateStep ==
    ASSUME VariantsInv, NEW r \in VariantIds, NEW isActive \in BOOLEAN, BulkActivate(r, isActive)
    PROVE  VariantsInv'
<1> DEFINE row == [variantRow[r] EXCEPT !.active = isActive]
<1>1. /\ VariantEdit /\ OptionsUnchanged /\ variantRow[r].exists
      /\ isActive => MayBecomeActive(r)
      /\ variantRow' = [variantRow EXCEPT ![r].active = isActive]
      /\ UNCHANGED <<unlinkedRows, variantForm, axisDropped, staleSaved>>
  BY DEF BulkActivate
<1>2. variantRow[r] \in VariantRow /\ MadeOfAdded(r)
  BY <1>1, RowExists
<1>3. row \in VariantRow /\ row.active = isActive /\ row.obsolete = variantRow[r].obsolete
  BY <1>1, <1>2, RowsAre
<1>4. variantRow' = [variantRow EXCEPT ![r] = row]
  BY <1>1
<1> HIDE DEF row
<1>5. r \in Combinations \ unlinkedRows => \A v \in r : valueState[v] \in {"active", "inactive"}
  BY <1>1 DEF VariantsInv, ValuesKept
<1>6. ~axisDropped /\ ~staleSaved =>
          (~row.obsolete /\ r \in Combinations => \A v \in r : AxisOf[v] \in ActiveAxes)
  BY <1>1, <1>3 DEF VariantsInv, CurrentAreOfActiveAxes
<1>7. /\ variantRow' \in [VariantIds -> VariantRow]
      /\ LabelsDiffer' /\ RowsMadeOfAdded' /\ CurrentAreOfActiveAxes' /\ TextsDiffer' /\ ValuesKept'
  BY <1>1, <1>2, <1>3, <1>4, <1>5, <1>6, RowChanges
<1>8. variantForm' \in [VariantEditors -> [row : VariantIds, seen : VariantRow] \cup {Unread}]
      /\ FormsWereRows'
  BY <1>1, FormsRest
<1>9. VariantTypes'
  BY <1>1, <1>7, <1>8, RowExists, TypesRest
<1>. QED
  BY <1>7, <1>8, <1>9 DEF VariantsInv

LEMMA DeleteVariantStep ==
    ASSUME VariantsInv, NEW r \in VariantIds, DeleteVariant(r)
    PROVE  VariantsInv'
<1>1. /\ VariantEdit /\ OptionsUnchanged /\ variantRow' = [variantRow EXCEPT ![r] = NoVariant]
      /\ unlinkedRows' = unlinkedRows \ {r}
      /\ UNCHANGED <<variantForm, axisDropped, staleSaved>>
  BY DEF DeleteVariant
<1>2. NoVariant \in VariantRow /\ ~NoVariant.exists /\ ~NoVariant.active
  BY DEF NoVariant, VariantRow
<1>3. /\ variantRow' \in [VariantIds -> VariantRow]
      /\ LabelsDiffer' /\ RowsMadeOfAdded' /\ CurrentAreOfActiveAxes' /\ TextsDiffer' /\ ValuesKept'
  BY <1>1, <1>2, RowChanges
<1>4. variantForm' \in [VariantEditors -> [row : VariantIds, seen : VariantRow] \cup {Unread}]
      /\ FormsWereRows'
  BY <1>1, FormsRest
<1>5. VariantTypes'
  BY <1>1, <1>3, <1>4, RowExists, TypesRest
<1>. QED
  BY <1>3, <1>4, <1>5 DEF VariantsInv

LEMMA ReadVariantStep ==
    ASSUME VariantsInv, NEW e \in VariantEditors, NEW r \in VariantIds, ReadVariant(e, r)
    PROVE  VariantsInv'
<1> DEFINE read == [row |-> r, seen |-> variantRow[r]]
<1>1. /\ OptionsUnchanged /\ variantRow[r].exists
      /\ variantForm' = [variantForm EXCEPT ![e] = read]
      /\ UNCHANGED <<variantRow, unlinkedRows, axisDropped, staleSaved, variantEdits>>
  BY DEF ReadVariant
<1>2. /\ read \in [row : VariantIds, seen : VariantRow] /\ read.seen.exists
      /\ read.row = r /\ MadeOfAdded(r)
  BY <1>1, RowExists
<1> HIDE DEF read
<1>3. variantForm' \in [VariantEditors -> [row : VariantIds, seen : VariantRow] \cup {Unread}]
      /\ FormsWereRows'
  BY <1>1, <1>2, FormsRest
<1>4. variantRow' \in [VariantIds -> VariantRow]
  BY <1>1 DEF VariantsInv, VariantTypes, VariantTypeOK
<1>5. VariantTypes'
  BY <1>1, <1>3, <1>4, RowExists, TypesRest
<1>6. LabelsDiffer' /\ RowsMadeOfAdded' /\ CurrentAreOfActiveAxes' /\ TextsDiffer' /\ ValuesKept'
  BY <1>1 DEF VariantsInv, LabelsDiffer, RowsMadeOfAdded, MadeOfAdded, CurrentAreOfActiveAxes,
     ActiveAxes, TextsDiffer, TextOf, ValuesKept, OptionsUnchanged
<1>. QED
  BY <1>3, <1>5, <1>6 DEF VariantsInv

LEMMA RefuseVariantStep ==
    ASSUME VariantsInv, NEW e \in VariantEditors, RefuseVariant(e)
    PROVE  VariantsInv'
<1>1. /\ OptionsUnchanged /\ variantForm' = [variantForm EXCEPT ![e] = Unread]
      /\ UNCHANGED <<variantRow, unlinkedRows, axisDropped, staleSaved, variantEdits>>
  BY DEF RefuseVariant
<1>2. variantForm' \in [VariantEditors -> [row : VariantIds, seen : VariantRow] \cup {Unread}]
      /\ FormsWereRows'
  BY <1>1, FormsRest
<1>3. VariantTypes'
  BY <1>1, <1>2, TypesRest DEF VariantsInv, VariantTypes, VariantTypeOK
<1>4. LabelsDiffer' /\ RowsMadeOfAdded' /\ CurrentAreOfActiveAxes' /\ TextsDiffer' /\ ValuesKept'
  BY <1>1 DEF VariantsInv, LabelsDiffer, RowsMadeOfAdded, MadeOfAdded, CurrentAreOfActiveAxes,
     ActiveAxes, TextsDiffer, TextOf, ValuesKept, OptionsUnchanged
<1>. QED
  BY <1>2, <1>3, <1>4 DEF VariantsInv

\* An instance is saved over the row: if that is what was read, only
\* is_active changes.
LEMMA SaveVariantStep ==
    ASSUME VariantsInv, NEW e \in VariantEditors, NEW isActive \in BOOLEAN, SaveVariant(e, isActive)
    PROVE  VariantsInv'
<1>1. PICK r, seen : r = variantForm[e].row /\ seen = variantForm[e].seen
  OBVIOUS
<1> DEFINE row == [seen EXCEPT !.active = isActive]
<1>2. /\ VariantEdit /\ OptionsUnchanged /\ variantForm[e] # Unread
      /\ isActive => MayBecomeActive(r)
      /\ variantRow' = [variantRow EXCEPT ![r] = row]
      /\ unlinkedRows' = IF NeverMade(r) THEN unlinkedRows \cup ({r} \ LegacyVariants) ELSE unlinkedRows
      /\ staleSaved' = (staleSaved \/ seen # variantRow[r])
      /\ variantForm' = [variantForm EXCEPT ![e] = Unread]
      /\ UNCHANGED axisDropped
  BY <1>1 DEF SaveVariant
<1>3. r \in VariantIds /\ seen \in VariantRow /\ seen.exists /\ MadeOfAdded(r)
  BY <1>1, <1>2 DEF VariantsInv, VariantTypes, VariantTypeOK, FormsWereRows
<1>4. row \in VariantRow /\ row.active = isActive /\ row.obsolete = seen.obsolete
  BY <1>3, RowsAre
<1> HIDE DEF row
<1>5. r \in Combinations \ unlinkedRows' => \A v \in r : valueState[v] \in {"active", "inactive"}
  BY <1>2, CombinationsApart DEF NeverMade, VariantsInv, ValuesKept
<1>6. ~axisDropped' /\ ~staleSaved' =>
          /\ ~axisDropped /\ ~staleSaved
          /\ ~row.obsolete /\ r \in Combinations => \A v \in r : AxisOf[v] \in ActiveAxes
  BY <1>2, <1>3, <1>4 DEF VariantsInv, CurrentAreOfActiveAxes
<1>7. /\ variantRow' \in [VariantIds -> VariantRow]
      /\ LabelsDiffer' /\ RowsMadeOfAdded' /\ CurrentAreOfActiveAxes' /\ TextsDiffer' /\ ValuesKept'
  <2>1. unlinkedRows \ {r} \subseteq unlinkedRows'
    BY <1>2
  <2>. QED
    BY <1>2, <1>3, <1>4, <1>5, <1>6, <2>1, RowChanges
<1>8. variantForm' \in [VariantEditors -> [row : VariantIds, seen : VariantRow] \cup {Unread}]
      /\ FormsWereRows'
  BY <1>2, FormsRest
<1>9. VariantTypes'
  <2>1. unlinkedRows' \subseteq VariantIds \ LegacyVariants
    BY <1>2, <1>3, RowExists
  <2>2. axisDropped' \in BOOLEAN /\ staleSaved' \in BOOLEAN
    BY <1>2, <1>3, RowExists
  <2>. QED
    BY <1>2, <1>7, <1>8, <2>1, <2>2, TypesRest
<1>. QED
  BY <1>7, <1>8, <1>9 DEF VariantsInv

\* Wanted combinations that read alike are one.
LEMMA WantedReadDifferently ==
    ASSUME VariantsInv, NEW k \in WantedCombinations, NEW m \in WantedCombinations,
           TextOf(k) = TextOf(m)
    PROVE  k = m
<1>1. ASSUME NEW a \in WantedCombinations, NEW b \in WantedCombinations, TextOf(a) = TextOf(b),
             NEW v \in a
      PROVE  v \in b
  <2>1. <<AxisOf[v], valueLabel[v]>> \in TextOf(b)
    BY <1>1 DEF TextOf
  <2>2. PICK w \in b : AxisOf[w] = AxisOf[v] /\ valueLabel[w] = valueLabel[v]
    BY <2>1 DEF TextOf
  <2>3. v \in OptionValues /\ w \in OptionValues /\ valueState[v] = "active" /\ valueState[w] = "active"
    BY <1>1, Wanted, CombinationsApart
  <2>. QED
    BY <2>2, <2>3 DEF VariantsInv, LabelsDiffer
<1>2. \A v : v \in k <=> v \in m
  BY <1>1
<1>. QED
  BY <1>2, Wanted, CombinationsApart

\* A generation: new rows are wanted, what is not wanted is obsolete.
LEMMA GenerateStep ==
    ASSUME VariantsInv, Generate
    PROVE  VariantsInv'
<1>1. /\ OptionsUnchanged /\ axisDropped' = FALSE
      /\ \A k \in WantedCombinations : NeverMade(k) \/ MadeObsolete(k) => MayBecomeActive(k)
      /\ variantRow' = [r \in VariantIds |->
                            IF r \in LegacyVariants THEN variantRow[r] ELSE Generated(r)]
      /\ UNCHANGED <<unlinkedRows, variantForm, staleSaved, variantEdits>>
  BY DEF Generate
<1>2. \A k \in Combinations : variantRow'[k] = Generated(k)
  BY <1>1, CombinationsApart
<1>3. ASSUME NEW r \in VariantIds PROVE Generated(r) \in VariantRow
  <2>1. variantRow[r] \in VariantRow /\ variantRow[r].exists \in BOOLEAN
    BY RowExists
  <2>2. variantRow[r].exists =>
            [variantRow[r] EXCEPT !.obsolete = TRUE, !.active = FALSE] \in VariantRow
    BY <2>1, RowsAre
  <2>3. NewVariant \in VariantRow
    BY DEF NewVariant, VariantRow
  <2>. QED
    BY <2>1, <2>2, <2>3 DEF Generated
<1>4. variantRow' \in [VariantIds -> VariantRow]
  BY <1>1, <1>3, RowExists
<1>5. ASSUME NEW k \in Combinations
      PROVE  \/ /\ k \in WantedCombinations /\ variantRow'[k] = NewVariant
                /\ NeverMade(k) \/ MadeObsolete(k)
             \/ k \in WantedCombinations /\ variantRow'[k] = variantRow[k]
             \/ variantRow'[k] = variantRow[k] /\ (~variantRow[k].exists \/ variantRow[k].obsolete)
             \/ /\ variantRow[k].exists
                /\ variantRow'[k].obsolete /\ ~variantRow'[k].active
  <2>1. CASE k \in WantedCombinations
    BY <1>2, <2>1 DEF Generated
  <2>2. CASE k \notin WantedCombinations /\ variantRow[k].exists /\ ~variantRow[k].obsolete
    <3>1. variantRow'[k] = [variantRow[k] EXCEPT !.obsolete = TRUE, !.active = FALSE]
      BY <1>2, <2>2 DEF Generated
    <3>2. variantRow[k] \in VariantRow
      BY CombinationsApart, RowExists
    <3>3. variantRow[k] = [active |-> variantRow[k].active, obsolete |-> variantRow[k].obsolete,
                           exists |-> variantRow[k].exists]
      BY <3>2, RowIs
    <3>4. variantRow'[k].obsolete /\ ~variantRow'[k].active
      BY <3>1, <3>3
    <3>. QED
      BY <2>2, <3>4
  <2>3. CASE k \notin WantedCombinations /\ (~variantRow[k].exists \/ variantRow[k].obsolete)
    BY <1>2, <2>3 DEF Generated
  <2>. QED
    BY <2>1, <2>2, <2>3
<1>6. UNCHANGED <<axisState, valueState, valueLabel>>
  BY <1>1 DEF OptionsUnchanged
<1>7. LabelsDiffer'
  BY <1>6 DEF VariantsInv, LabelsDiffer
<1>8. \A k \in Combinations : variantRow'[k].exists => variantRow[k].exists \/ k \in WantedCombinations
  BY <1>5
<1>9. RowsMadeOfAdded'
  BY <1>6, <1>8, Wanted DEF VariantsInv, RowsMadeOfAdded, MadeOfAdded
<1>10. CurrentAreOfActiveAxes'
  <2>1. ActiveAxes' = ActiveAxes
    BY <1>6 DEF ActiveAxes
  <2>2. \A k \in Combinations : variantRow'[k].exists /\ ~variantRow'[k].obsolete
            => k \in WantedCombinations
    BY <1>5
  <2>. QED
    BY <2>1, <2>2, Wanted DEF CurrentAreOfActiveAxes
<1>11. TextsDiffer'
  <2>1. \A k : TextOf(k)' = TextOf(k)
    BY <1>6 DEF TextOf
  <2>2. ASSUME NEW k \in Combinations, variantRow'[k].active
        PROVE  \/ variantRow[k].active
               \/ k \in WantedCombinations /\ MayBecomeActive(k)
    BY <1>1, <1>5, <2>2
  <2>3. ASSUME NEW k \in Combinations, NEW m \in Combinations, variantRow'[k].active,
               variantRow'[m].active, TextOf(k) = TextOf(m)
        PROVE  k = m
    <3>1. CASE variantRow[k].active /\ variantRow[m].active
      BY <2>3, <3>1 DEF VariantsInv, TextsDiffer
    <3>2. CASE ~variantRow[k].active /\ ~variantRow[m].active
      BY <2>2, <2>3, <3>2, WantedReadDifferently
    <3>3. CASE variantRow[k].active /\ ~variantRow[m].active
      <4>1. m \notin LegacyVariants /\ MayBecomeActive(m)
        BY <2>2, <2>3, <3>3, CombinationsApart
      <4>. QED
        BY <2>3, <3>3, <4>1 DEF MayBecomeActive
    <3>4. CASE ~variantRow[k].active /\ variantRow[m].active
      <4>1. k \notin LegacyVariants /\ MayBecomeActive(k)
        BY <2>2, <2>3, <3>4, CombinationsApart
      <4>. QED
        BY <2>3, <3>4, <4>1 DEF MayBecomeActive
    <3>. QED
      BY <3>1, <3>2, <3>3, <3>4
  <2>. QED
    BY <2>1, <2>3 DEF TextsDiffer
<1>12. ValuesKept'
  BY <1>1, <1>6, <1>8, Wanted DEF VariantsInv, ValuesKept
<1>13. variantForm' \in [VariantEditors -> [row : VariantIds, seen : VariantRow] \cup {Unread}]
      /\ FormsWereRows'
  BY <1>1, FormsRest
<1>14. VariantTypes'
  <2>1. unlinkedRows' \subseteq VariantIds \ LegacyVariants /\ staleSaved' \in BOOLEAN
    BY <1>1 DEF VariantsInv, VariantTypes, VariantTypeOK
  <2>. QED
    BY <1>1, <1>4, <1>13, <2>1, TypesRest
<1>. QED
  BY <1>7, <1>9, <1>10, <1>11, <1>12, <1>13, <1>14 DEF VariantsInv

\* Every step keeps the invariant.
LEMMA VariantsKept ==
    ASSUME VariantsInv, [VariantNext]_variantVars
    PROVE  VariantsInv'
<1>1. CASE UNCHANGED variantVars
  <2>1. UNCHANGED <<axisState, valueState, valueLabel, variantRow, unlinkedRows, variantForm,
                    axisDropped, staleSaved, variantEdits>>
    BY <1>1 DEF variantVars
  <2>2. VariantTypes' /\ LabelsDiffer'
    BY <2>1 DEF VariantsInv, VariantTypes, VariantTypeOK, LabelsDiffer
  <2>3. RowsMadeOfAdded' /\ FormsWereRows'
    BY <2>1 DEF VariantsInv, RowsMadeOfAdded, MadeOfAdded, FormsWereRows
  <2>4. CurrentAreOfActiveAxes'
    BY <2>1 DEF VariantsInv, CurrentAreOfActiveAxes, ActiveAxes
  <2>5. TextsDiffer' /\ ValuesKept'
    BY <2>1 DEF VariantsInv, TextsDiffer, TextOf, ValuesKept
  <2>. QED
    BY <2>2, <2>3, <2>4, <2>5 DEF VariantsInv
<1>2. ASSUME NEW x \in Axes, AddOption(x) \/ DeactivateOption(x) \/ ActivateOption(x)
      PROVE  VariantsInv'
  BY <1>2, AxisStep
<1>3. ASSUME NEW v \in OptionValues, (\E l \in LabelsOf[v] : AddValue(v, l)) \/ RemoveValue(v)
      PROVE  VariantsInv'
  BY <1>3, AddValueStep, RemoveValueStep
<1>4. CASE Generate
  BY <1>4, GenerateStep
<1>5. ASSUME NEW k \in Combinations, AddManual(k) PROVE VariantsInv'
  BY <1>5, AddManualStep
<1>6. ASSUME NEW c \in LegacyVariants, NEW a \in BOOLEAN, AddLegacy(c, a) PROVE VariantsInv'
  BY <1>6, AddLegacyStep
<1>7. ASSUME NEW r \in VariantIds, (\E a \in BOOLEAN : BulkActivate(r, a)) \/ DeleteVariant(r)
      PROVE  VariantsInv'
  BY <1>7, BulkActivateStep, DeleteVariantStep
<1>8. ASSUME NEW e \in VariantEditors,
             \/ \E r \in VariantIds : ReadVariant(e, r)
             \/ \E a \in BOOLEAN : SaveVariant(e, a)
             \/ RefuseVariant(e)
      PROVE  VariantsInv'
  BY <1>8, ReadVariantStep, SaveVariantStep, RefuseVariantStep
<1>. QED
  BY <1>1, <1>2, <1>3, <1>4, <1>5, <1>6, <1>7, <1>8 DEF VariantNext

\* What is found for a choice is the choice itself.
LEMMA ChoiceFindsItself == VariantsInv => SelectorExact
<1> SUFFICES ASSUME VariantsInv, ~axisDropped /\ ~staleSaved, NEW choice \in WantedCombinations
             PROVE  Cardinality(FoundFor(choice)) <= 1
  BY DEF SelectorExact
<1>1. ASSUME NEW k \in FoundFor(choice) PROVE k = choice
  <2>1. /\ k \in Combinations /\ choice \in Combinations /\ choice \subseteq k
        /\ variantRow[k].active /\ ~variantRow[k].obsolete
    BY Wanted DEF FoundFor, OnSale
  <2>2. variantRow[k].exists
    BY <2>1, CombinationsApart, RowExists, RowIs
  <2>3. \A v \in k : AxisOf[v] \in ActiveAxes
    BY <2>1, <2>2 DEF VariantsInv, CurrentAreOfActiveAxes
  <2>4. ASSUME NEW v \in k PROVE v \in choice
    <3>1. PICK w \in choice : AxisOf[w] = AxisOf[v]
      BY <2>3 DEF WantedCombinations
    <3>. QED
      BY <2>1, <3>1 DEF Combinations
  <2>. QED
    BY <2>1, <2>4, CombinationsApart
<1>2. FoundFor(choice) \subseteq {choice}
  BY <1>1
<1>3. IsFiniteSet({choice}) /\ Cardinality({choice}) = 1
  BY FS_Singleton
<1>4. Cardinality(FoundFor(choice)) <= Cardinality({choice})
  BY <1>2, <1>3, FS_Subset
<1>. QED
  BY <1>3, <1>4

\* A customer's choice stands for one variant, variants on sale read
\* differently, and a value in use is kept, whatever the options.
THEOREM VariantsAreSound == VariantSpec => []VariantsSound
<1>1. VariantsInv => VariantsSound
  BY ChoiceFindsItself DEF VariantsInv, VariantTypes, VariantsSound
<1>. QED
  BY <1>1, VariantsStart, VariantsKept, PTL DEF VariantSpec
=============================================================================
