----------------------------- MODULE MCCatalogue -----------------------------
(***************************************************************************)
(* Eight parts of a store that its staff edits, one of them beneath running  *)
(* checkouts.  They share no variable, so each behaviour moves one of them *)
(* ("part") and leaves the others where they start.                        *)
(***************************************************************************)
EXTENDS Checkout, Variants, Catalogue, ProductEntry, Gallery, IndustryTemplates,
        ContentRows, SharedMedia, TLC

OneOfEach == [s \in Skus |-> 1]
TwoOfEach == [s \in Skus |-> 2]

(* Two axes, of one value and of two, one of which has two spellings.      *)
EachAxis      == [v \in OptionValues |-> v \div 10]
EachLabels    == [v \in OptionValues |-> IF v = 22 THEN {"r", "s"} ELSE {"r"}]

(* Three trades of three versions: categories come, hang below others and  *)
(* go; an attribute comes, goes and comes back as another type, or comes   *)
(* last.                                                                   *)
TheVersion(below, type, links) ==
    [parent |-> below, type |-> [a \in Facets |-> type], links |-> links, sound |-> TRUE]
LinksTo(c) == {c} \X Facets
EachFamily ==
    {<<TheVersion(<<0, 99>>, "no such attribute", {}), TheVersion(<<0, 1>>, "text", LinksTo(2)),
       TheVersion(<<0, 99>>, "text", LinksTo(1))>>,
     <<TheVersion(<<0, 1>>, "text", LinksTo(2)), TheVersion(<<0, 99>>, "text", {}),
       TheVersion(<<0, 1>>, "number", LinksTo(2))>>,
     <<TheVersion(<<0, 99>>, "no such attribute", {}),
       TheVersion(<<0, 1>>, "no such attribute", {}), TheVersion(<<0, 99>>, "text", {})>>}

Alike == Permutations(Requests)

VARIABLE part

packVars == <<part, vars, variantVars, catalogueVars, entryVars, galleryVars,
              templateVars, contentVars, mediaVars>>

PackInit ==
    /\ part \in {"checkout", "variants", "catalogue", "entry", "gallery",
                 "templates", "content", "media"}
    /\ Init /\ VariantInit /\ CatalogueInit /\ EntryInit /\ GalleryInit
    /\ TemplatesInit /\ ContentInit /\ MediaInit
    /\ part # "templates" => family = CHOOSE f \in Families : TRUE
    /\ part # "content" => table = CHOOSE t \in Tables : TRUE

PackNext ==
    /\ UNCHANGED part
    /\ \/ /\ part = "checkout" /\ Next
          /\ UNCHANGED <<variantVars, catalogueVars, entryVars, galleryVars,
                         templateVars, contentVars,
                         mediaVars>>
       \/ /\ part = "variants" /\ VariantNext
          /\ UNCHANGED <<vars, catalogueVars, entryVars, galleryVars,
                         templateVars, contentVars,
                         mediaVars>>
       \/ /\ part = "catalogue" /\ CatalogueNext
          /\ UNCHANGED <<vars, variantVars, entryVars, galleryVars,
                         templateVars, contentVars,
                         mediaVars>>
       \/ /\ part = "entry" /\ EntryNext
          /\ UNCHANGED <<vars, variantVars, catalogueVars, galleryVars,
                         templateVars, contentVars,
                         mediaVars>>
       \/ /\ part = "gallery" /\ GalleryNext
          /\ UNCHANGED <<vars, variantVars, catalogueVars, entryVars,
                         templateVars, contentVars,
                         mediaVars>>
       \/ /\ part = "templates" /\ TemplatesNext
          /\ UNCHANGED <<vars, variantVars, catalogueVars, entryVars,
                         galleryVars, contentVars,
                         mediaVars>>
       \/ /\ part = "content" /\ ContentNext
          /\ UNCHANGED <<vars, variantVars, catalogueVars, entryVars,
                         galleryVars, templateVars,
                         mediaVars>>
       \/ /\ part = "media" /\ MediaNext
          /\ UNCHANGED <<vars, variantVars, catalogueVars, entryVars,
                         galleryVars, templateVars,
                         contentVars>>

PackSpec == PackInit /\ [][PackNext]_packVars
=============================================================================
