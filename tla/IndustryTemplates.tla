------------------------- MODULE IndustryTemplates -------------------------
(***************************************************************************)
(* The templates of a trade (apps/catalog: industry_template_service.py,   *)
(* template_update_service.py, template_comparison_service.py and          *)
(* template_validation_service.py): the platform releases one version      *)
(* after another, a store copies one of them and may later take over what  *)
(* newer versions add.  The copy belongs to the store, which edits it.     *)
(*                                                                         *)
(* An installation and the application of an update are one transaction    *)
(* each.  What they go by is read before: the version that is installed,   *)
(* the newest one on offer, and what the store's attributes are.           *)
(*                                                                         *)
(* Options recommended for a category are treated as attributes linked to  *)
(* it, the values of an attribute as the attribute.  Names and display     *)
(* settings are left out: entries that only changed are shown and never    *)
(* applied, whether the store customised its copy or not.                  *)
(***************************************************************************)
EXTENDS Naturals, FiniteSets, Sequences, Functions

CONSTANTS
    Codes,          \* stable codes of categories; a parent's is smaller
    Facets,         \* stable codes of attributes
    Families,       \* the contents of the versions, one sequence per trade
    Installers,     \* staff members of the store, with one request each
    MaxOwnEdits,    \* changes the store makes itself (a bound of the model)
    MaxSwitches,    \* times the platform switches a version (a bound)
    MaxBranches     \* categories the store ever has (a bound)

(* A category's parent is another, none, or the category is left out.      *)
Top      == 0
LeftOut  == 99
DataTypes == {"text", "number"}
NoFacet  == "no such attribute"

Content == [parent : [Codes -> Codes \cup {Top, LeftOut}],
            type : [Facets -> DataTypes \cup {NoFacet}],
            links : SUBSET (Codes \X Facets), sound : BOOLEAN]

ASSUME TemplatesAssumption ==
    /\ Codes \subseteq 1..98
    /\ Families \subseteq Seq(Content)
    /\ \A f \in Families : \A v \in DOMAIN f : \A c \in Codes :
           f[v].parent[c] \in Codes =>
               /\ f[v].parent[c] < c
               /\ f[v].sound => f[v].parent[f[v].parent[c]] # LeftOut
    /\ MaxOwnEdits \in Nat /\ MaxSwitches \in Nat /\ MaxBranches \in Nat

VARIABLES
    family,      \* the rows of IndustryTemplate, by version
    shelf,       \* readiness and is_active of each version
    installed,   \* StoreIndustryInstallation.installed_version, 0 without one
    branches,    \* the store's categories: the code copied, the parent's row
    facetType,   \* the store's attributes by code: data_type
    linked,      \* CategoryAttributeSchema: rows of categories and attributes
    attempt,     \* StoreTemplateUpdate.status of each target version
    work,        \* what a request has read
    declined,    \* additions that an applied update was asked to leave out
    dropped,     \* codes of categories the store deleted
    owned,       \* attributes the store made or changed itself
    raced,       \* an update was applied after the installed version had moved
    ownEdits, switches

templateVars == <<family, shelf, installed, branches, facetType, linked, attempt, work,
                  declined, dropped, owned, raced, ownEdits, switches>>

Versions   == DOMAIN family
Cats(v)    == {c \in Codes : family[v].parent[c] # LeftOut}
Types(v)   == {a \in Facets : family[v].type[a] # NoFacet}
Living     == {n \in DOMAIN branches : branches[n].code # LeftOut}
Copies(c)  == {n \in Living : branches[n].code = c}
(* The dictionary by code keeps the last of several copies.                *)
Newest(rows) == CHOOSE n \in rows : \A m \in rows : m <= n

Idle0      == [step |-> "none", from |-> 0, target |-> 0,
               cats |-> {}, types |-> {}, links |-> {}]
At(k, step) == work[k].step = step

Attempts   == {"none", "pending", "completed", "failed"}
Installed  == Versions \cup {0}
SchemaRows == (1..MaxBranches) \X Facets
Shelf      == [readiness : {"draft", "validation_failed", "production_ready", "deprecated"},
               active : BOOLEAN]

TemplatesInit ==
    /\ family \in Families
    /\ shelf = [v \in DOMAIN family |-> [readiness |-> "draft", active |-> TRUE]]
    /\ installed = 0
    /\ branches = <<>> /\ linked = {}
    /\ facetType = [a \in Facets |-> NoFacet]
    /\ attempt = [v \in DOMAIN family |-> "none"]
    /\ work = [k \in Installers |-> Idle0]
    /\ declined = [cats |-> {}, types |-> {}] /\ dropped = {} /\ owned = {}
    /\ raced = FALSE /\ ownEdits = 0 /\ switches = 0

StoreUnchanged == UNCHANGED <<installed, branches, facetType, linked, attempt, work,
                              declined, dropped, owned, raced, ownEdits>>
ShelfUnchanged == UNCHANGED <<family, shelf, switches>>

----------------------------------------------------------------------------
(* The platform: seed_industry_templates and validate_and_persist release  *)
(* a version, which is offered when it is valid; a page switches versions  *)
(* on and off; a whole trade is given up.                                  *)
Release(v) ==
    /\ shelf[v].readiness = "draft" /\ \A u \in Versions : u < v => shelf[u].readiness # "draft"
    /\ shelf' = [shelf EXCEPT ![v].readiness =
                    IF family[v].sound THEN "production_ready" ELSE "validation_failed"]
    /\ UNCHANGED <<family, switches>> /\ StoreUnchanged

Switch(v) ==
    /\ shelf[v].readiness # "draft" /\ switches < MaxSwitches
    /\ shelf' = [shelf EXCEPT ![v].active = ~@]
    /\ switches' = switches + 1
    /\ UNCHANGED family /\ StoreUnchanged

GiveUp ==
    /\ switches < MaxSwitches
    /\ shelf' = [v \in Versions |-> [readiness |-> "deprecated", active |-> FALSE]]
    /\ switches' = switches + 1
    /\ UNCHANGED family /\ StoreUnchanged

(* is_offerable_for_new_installation; latest_production_version.           *)
Offerable(v) == shelf[v].active /\ shelf[v].readiness = "production_ready"
Latest(v)    == Offerable(v) /\ \A u \in Versions : Offerable(u) => u <= v

----------------------------------------------------------------------------
(* Copying: parents before children, then the attributes that the store    *)
(* does not have yet, whatever type its own are, then the links of which   *)
(* both ends exist.                                                        *)
Orders(cats, v) ==
    {new \in Bijection(1..Cardinality(cats), cats) :
        \A m, n \in DOMAIN new : family[v].parent[new[n]] = new[m] => m < n}

Copied(new, v) ==
    LET added == {new[n] : n \in DOMAIN new}
        Row(c) == IF c = Top THEN 0
                  ELSE IF c \in added THEN Len(branches) + (CHOOSE n \in DOMAIN new : new[n] = c)
                  ELSE Newest(Copies(c))
    IN  branches \o [n \in DOMAIN new |->
            [code |-> new[n], at |-> Row(family[v].parent[new[n]])]]

WithFacets(types, v) == [a \in Facets |->
    IF a \in types /\ facetType[a] = NoFacet THEN family[v].type[a] ELSE facetType[a]]

Links(links, rows, types) ==
    {<<Newest({n \in DOMAIN rows : rows[n].code = l[1]}), l[2]>> :
        l \in {k \in links : /\ \E n \in DOMAIN rows : rows[n].code = k[1]
                             /\ types[k[2]] # NoFacet}}

Copy(cats, types, links, v) ==
    \E new \in Orders(cats, v) :
    LET rows   == Copied(new, v)
        facets == WithFacets(types, v)
    IN  /\ Len(rows) <= MaxBranches
        /\ branches' = rows /\ facetType' = facets
        /\ linked' = linked \cup Links(links, rows, facets)

(* _apply_category_additions fails when a parent is neither in the store   *)
(* nor added along with its child.                                         *)
Placeable(cats, v) ==
    \A c \in cats : \/ family[v].parent[c] \in cats \cup {Top}
                    \/ Copies(family[v].parent[c]) # {}

----------------------------------------------------------------------------
(* install_industry_template: the store has no installation yet ...        *)
StartInstall(k, v) ==
    /\ At(k, "none") /\ installed = 0 /\ Offerable(v)
    /\ work' = [work EXCEPT ![k] = [Idle0 EXCEPT !.step = "install", !.target = v]]
    /\ ShelfUnchanged
    /\ UNCHANGED <<installed, branches, facetType, linked, attempt, declined, dropped,
                   owned, raced, ownEdits>>

(* ... and a second installation that comes later is rolled back.          *)
FinishInstall(k) ==
    LET v == work[k].target IN
    /\ At(k, "install")
    /\ work' = [work EXCEPT ![k] = Idle0]
    /\ \/ /\ installed = 0 /\ installed' = v
          /\ Copy(Cats(v), Types(v), family[v].links, v)
       \/ /\ installed # 0
          /\ UNCHANGED <<installed, branches, facetType, linked>>
    /\ ShelfUnchanged
    /\ UNCHANGED <<attempt, declined, dropped, owned, raced, ownEdits>>

----------------------------------------------------------------------------
(* plan_template_update: what the target has and the version installed     *)
(* has not; an attribute that the store has with another type is blocked.  *)
(* Fault: everything the target has and the store may be without.          *)
NewCatsOfTarget(from, target) == Cats(target)

NewCats(from, target) == Cats(target) \ Cats(from)
NewTypes(from, target) == {a \in Types(target) \ Types(from) :
                              facetType[a] \in {NoFacet, family[target].type[a]}}
NewLinks(from, target) == family[target].links \ family[from].links

(* apply_template_update, up to the transaction: the update has not been   *)
(* completed; what the staff member selects of the plan is recorded.       *)
StartUpdate(k, v) ==
    /\ At(k, "none") /\ installed # 0 /\ Latest(v) /\ v > installed
    /\ attempt[v] # "completed"
    /\ \E cats \in SUBSET NewCats(installed, v), types \in SUBSET NewTypes(installed, v),
          links \in SUBSET NewLinks(installed, v) :
          work' = [work EXCEPT ![k] = [step |-> "update", from |-> installed, target |-> v,
                                       cats |-> cats, types |-> types, links |-> links]]
    /\ attempt' = [attempt EXCEPT ![v] = "pending"]
    /\ ShelfUnchanged
    /\ UNCHANGED <<installed, branches, facetType, linked, declined, dropped, owned, raced, ownEdits>>

(* The transaction.                                                        *)
FinishUpdate(k) ==
    LET w == work[k] IN
    /\ At(k, "update") /\ Placeable(w.cats, w.target)
    /\ Copy(w.cats, w.types, w.links, w.target)
    /\ installed' = w.target
    /\ attempt' = [attempt EXCEPT ![w.target] = "completed"]
    /\ declined' = [cats |-> declined.cats \cup (NewCats(w.from, w.target) \ w.cats),
                    types |-> declined.types
                                \cup ((Types(w.target) \ Types(w.from)) \ w.types)]
    /\ raced' = (raced \/ installed # w.from)
    /\ work' = [work EXCEPT ![k] = Idle0]
    /\ ShelfUnchanged /\ UNCHANGED <<dropped, owned, ownEdits>>

FailUpdate(k) ==
    /\ At(k, "update") /\ ~Placeable(work[k].cats, work[k].target)
    /\ attempt' = [attempt EXCEPT ![work[k].target] = "failed"]
    /\ work' = [work EXCEPT ![k] = Idle0]
    /\ ShelfUnchanged
    /\ UNCHANGED <<installed, branches, facetType, linked, declined, dropped, owned, raced, ownEdits>>

(* The worker dies before the transaction; the attempt stays pending.      *)
LoseRequest(k) ==
    /\ ~At(k, "none")
    /\ work' = [work EXCEPT ![k] = Idle0]
    /\ ShelfUnchanged
    /\ UNCHANGED <<installed, branches, facetType, linked, attempt, declined, dropped,
                   owned, raced, ownEdits>>

----------------------------------------------------------------------------
(* The store deletes a category without children, and makes attributes or  *)
(* changes their type.                                                     *)
OwnEdit ==
    /\ ownEdits < MaxOwnEdits /\ ownEdits' = ownEdits + 1
    /\ ShelfUnchanged /\ UNCHANGED <<installed, attempt, work, declined, raced>>

DropBranch(n) ==
    /\ OwnEdit
    /\ n \in Living /\ \A m \in Living : branches[m].at # n
    /\ branches' = [branches EXCEPT ![n].code = LeftOut]
    /\ linked' = {l \in linked : l[1] # n}
    /\ dropped' = dropped \cup {branches[n].code}
    /\ UNCHANGED <<facetType, owned>>

OwnFacet(a, type) ==
    /\ OwnEdit
    /\ facetType[a] # type /\ facetType' = [facetType EXCEPT ![a] = type]
    /\ owned' = owned \cup {a}
    /\ UNCHANGED <<branches, linked, dropped>>

TemplatesNext ==
    \/ \E v \in Versions : Release(v) \/ Switch(v)
    \/ GiveUp
    \/ \E k \in Installers :
           \/ \E v \in Versions : StartInstall(k, v) \/ StartUpdate(k, v)
           \/ FinishInstall(k) \/ FinishUpdate(k) \/ FailUpdate(k) \/ LoseRequest(k)
    \/ \E n \in DOMAIN branches : DropBranch(n)
    \/ \E a \in Facets, type \in DataTypes : OwnFacet(a, type)

TemplatesSpec == TemplatesInit /\ [][TemplatesNext]_templateVars

----------------------------------------------------------------------------
TemplatesTypeOK ==
    /\ \A v \in Versions : shelf[v] \in Shelf
    /\ installed \in Installed /\ linked \subseteq SchemaRows
    /\ \A n \in DOMAIN branches : branches[n] \in [code : Codes \cup {LeftOut}, at : 0..MaxBranches]
    /\ facetType \in [Facets -> DataTypes \cup {NoFacet}]
    /\ attempt \in [Versions -> Attempts]

(* A category of the store is below one that exists.                       *)
BranchesHang == \A n \in Living : branches[n].at \in Living \cup {0}

(* Codes that a version up to the one installed leaves out and a later one *)
(* has again: the copy stayed in the store, and is not looked for.         *)
Returning == {c \in Codes : \E u, v, w \in 1..installed :
                 u < v /\ v < w /\ c \in (Cats(u) \ Cats(v)) \cap Cats(w)}

(* Unless an update was applied on top of another that its plan had not    *)
(* seen, a category is copied once, however often the store updates or     *)
(* tries again.                                                            *)
CopiedOnce == ~raced => \A c \in Codes \ Returning : Cardinality(Copies(c)) <= 1

(* Whatever overlaps, everything that the installed version has is in the  *)
(* store, unless an update was asked to leave it out or it was deleted.    *)
NothingForgotten ==
    installed # 0 =>
        /\ \A c \in Cats(installed) : Copies(c) # {} \/ c \in declined.cats \cup dropped
        /\ \A a \in Types(installed) : facetType[a] # NoFacet \/ a \in declined.types

(* The store is at the newest version whose update completed.              *)
CompletedIsInstalled ==
    ~raced => \A v \in Versions : attempt[v] = "completed" => v <= installed

(* An attribute a template brought has the type of some version of it, not *)
(* of a newer one than is installed, unless the store made or changed it.  *)
(* (An update applied late puts the installed version back, and leaves     *)
(* what the newer one brought.)                                            *)
TypesAsReleased ==
    \A a \in Facets \ owned : facetType[a] # NoFacet =>
        \E v \in Versions : (raced \/ v <= installed) /\ family[v].type[a] = facetType[a]

(* Installing and updating a template, as a whole.                         *)
TemplatesSound ==
    /\ TemplatesTypeOK /\ BranchesHang /\ CopiedOnce /\ NothingForgotten
    /\ CompletedIsInstalled /\ TypesAsReleased
=============================================================================
