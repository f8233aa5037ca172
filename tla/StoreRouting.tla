---------------------------- MODULE StoreRouting ----------------------------
(***************************************************************************)
(* Which store answers a request, and where: the two middlewares of        *)
(* stores/middleware.py and stores/resolution.py, over the hostnames of    *)
(* StoreDomains and the store of StoreLifecycle.                           *)
(*                                                                         *)
(* A request reads the hostname and its store first (StoreResolution-      *)
(* Middleware), asks the hostnames again for the canonical redirect, and   *)
(* then shows the page from the instance it has read: three steps, with    *)
(* the owner and the platform at work in between.  The redirect is a       *)
(* permanent one, so browsers remember it and follow it without asking.    *)
(***************************************************************************)
EXTENDS StoreDomains, StoreLifecycle

CONSTANTS
    Development,  \* a host of the development allowlist
    Alone,        \* the store is "akhlaghi" and the only one there is
    Debug,        \* settings.DEBUG: only local names can be opened
    NoVisit       \* no request, no target

VARIABLES
    visit,      \* the request on its way
    remembered  \* the redirect a browser has cached for a permanent name

routingVars == <<domainVars, lifeVars, visit, remembered>>

Addresses == Hosts \cup {Development}

(* No row has the name of a development host, which is looked at first.    *)
ASSUME VisitsAreNamed ==
    /\ Development \notin Hosts /\ NoVisit \notin Addresses
    /\ Alone \in BOOLEAN /\ Debug \in BOOLEAN

Visits ==
    [host : Addresses, found : BOOLEAN, status : {"active", "suspended", "closed"},
     onboarded : BOOLEAN, open : BOOLEAN,
     step : {"resolved", "local", "page", "refused", "missing"}]

RoutingInit ==
    /\ DomainInit /\ LifeInit
    /\ visit = NoVisit
    /\ remembered = [l \in Labels |-> NoVisit]

---------------------------------------------------------------------------
(* Hostnames to stores.                                                    *)

(* domain_is_eligible_for_routing.                                         *)
Eligible(h) == Routes(h) /\ store.exists /\ store.status = "active"

(* resolve_compatibility_store.                                            *)
CompatibilityStore == Alone /\ store.exists /\ store.status = "active"

(* resolve_store_for_hostname: a development host is never looked up.      *)
Resolves(h) == IF h = Development THEN CompatibilityStore ELSE Eligible(h)

(* StorefrontCanonicalRedirectMiddleware: the primary custom domain, for a *)
(* request that came in by a permanent name.                               *)
Canonical(h) ==
    LET targets == {c \in Customs : Primary(c) /\ Routes(c)}
    IN IF h \in Labels /\ Routes(h) /\ targets # {}
       THEN CHOOSE c \in targets : TRUE ELSE NoVisit

(* _is_dev_resolvable_hostname: a custom domain has a name of its own.     *)
Openable(h) == Debug => h \notin Customs

(* Fault: a hostname of the best kind is taken, whatever its row says.     *)
StorefrontUrlOfKind ==
    LET kinds == <<Customs, Labels, {Trial}>>
        of(k) == {h \in kinds[k] : Exists(h) /\ Openable(h)}
        best == {k \in 1..3 : of(k) # {} /\ \A j \in 1..(k - 1) : of(j) = {}}
    IN IF best = {} THEN {} ELSE UNION {of(k) : k \in best}

(* resolve_storefront_url_for_store: of the eligible hostnames those of    *)
(* the best kind, the primary one first.                                   *)
StorefrontUrl ==
    LET kinds == <<Customs, Labels, {Trial}>>
        of(k) == {h \in kinds[k] : Eligible(h) /\ Openable(h)}
        best == {k \in 1..3 : of(k) # {} /\ \A j \in 1..(k - 1) : of(j) = {}}
        urls == IF best = {} THEN {} ELSE UNION {of(k) : k \in best}
    IN IF \E h \in urls : Primary(h) THEN {h \in urls : Primary(h)} ELSE urls

---------------------------------------------------------------------------
(* A request.                                                              *)

(* The browser goes where it remembers it was sent.                        *)
Destination(h) ==
    IF h \in Labels /\ remembered[h] # NoVisit THEN remembered[h] ELSE h

(* StoreResolutionMiddleware; "open" records whether the store was there   *)
(* to be seen when the request came.                                       *)
Arrive(h) ==
    /\ visit = NoVisit
    /\ visit' = [host |-> Destination(h), found |-> Resolves(Destination(h)),
                 status |-> store.status, onboarded |-> store.onboarded,
                 open |-> store.exists /\ store.status = "active",
                 step |-> "resolved"]
    /\ UNCHANGED <<domainVars, lifeVars, remembered>>

(* The merchant's admin and the assets stay on the host they came by; a    *)
(* request without a store is passed on as it is.                          *)
Local(path) == path = "admin" \/ ~visit.found

(* The second middleware sends the browser on ...                          *)
Redirect(path) ==
    /\ visit # NoVisit /\ visit.step = "resolved"
    /\ ~Local(path) /\ Canonical(visit.host) # NoVisit
    /\ visit' = NoVisit
    /\ remembered' = [remembered EXCEPT ![visit.host] = Canonical(visit.host)]
    /\ UNCHANGED <<domainVars, lifeVars>>

(* ... or lets the request pass.                                           *)
PassOn(path) ==
    /\ visit # NoVisit /\ visit.step = "resolved"
    /\ Local(path) \/ Canonical(visit.host) = NoVisit
    /\ visit' = [visit EXCEPT !.step = "local"]
    /\ UNCHANGED <<domainVars, lifeVars, remembered>>

(* resolve_store_for_service: without a store of its own the request gets  *)
(* the compatibility store.                                                *)
Served == visit.found \/ CompatibilityStore

(* resolve_store_for_storefront in the view: the status and the onboarding *)
(* are those of the instance read on arrival, the subscription is asked    *)
(* for now.                                                                *)
Answer(access) ==
    /\ visit # NoVisit /\ visit.step = "local"
    /\ LET asRead == IF visit.found THEN [store EXCEPT !.status = visit.status,
                                                       !.onboarded = visit.onboarded]
                     ELSE store
           shown  == PublicationState(asRead, access) \notin NonPublic
       IN visit' = [visit EXCEPT !.open = IF visit.found THEN @ ELSE TRUE,
                                 !.step = IF ~Served THEN "missing"
                                          ELSE IF shown THEN "page" ELSE "refused"]
    /\ UNCHANGED <<domainVars, lifeVars, remembered>>

Leave ==
    /\ visit # NoVisit /\ visit.step \in {"page", "refused", "missing"}
    /\ visit' = NoVisit
    /\ UNCHANGED <<domainVars, lifeVars, remembered>>

RoutingNext ==
    \/ DomainNext /\ UNCHANGED <<lifeVars, visit, remembered>>
    \/ LifeNext /\ UNCHANGED <<domainVars, visit, remembered>>
    \/ \E h \in Addresses : Arrive(h)
    \/ \E path \in {"public", "admin"} : Redirect(path) \/ PassOn(path)
    \/ \E access \in AccessStates : Answer(access)
    \/ Leave

RoutingSpec == RoutingInit /\ [][RoutingNext]_routingVars

---------------------------------------------------------------------------
RoutingTypeOK ==
    /\ visit \in Visits \cup {NoVisit}
    /\ remembered \in [Labels -> Customs \cup {NoVisit}]

(* An active store always has a storefront link outside DEBUG, the link    *)
(* leads to the store, and a store that is not active has none: no order   *)
(* of claims, activations and retirements leaves the merchant without a    *)
(* way back.                                                               *)
LinkLeadsHome ==
    /\ \A h \in StorefrontUrl : Resolves(h)
    /\ store.exists /\ store.status = "active" /\ ~Debug => StorefrontUrl # {}

(* The canonical redirect ends after one step: its target serves the same  *)
(* store, is the link of the store, and does not send the visitor on.      *)
RedirectEnds ==
    \A h \in Addresses : Canonical(h) # NoVisit /\ Eligible(h) =>
        /\ Resolves(Canonical(h)) /\ Canonical(Canonical(h)) = NoVisit
        /\ ~Debug => Canonical(h) \in StorefrontUrl

(* What a browser remembers was proven and primary once: if it does not    *)
(* lead to the store any more, that hostname was retired or the store is   *)
(* closed to everyone.                                                     *)
RememberedWasGood ==
    \A l \in Labels : remembered[l] # NoVisit =>
        \/ Resolves(remembered[l])
        \/ domain[remembered[l]].retired
        \/ ~store.exists \/ store.status # "active"

(* Nobody is shown a page of a store that was suspended or closed already  *)
(* when the request arrived, nor of one that was not published by then.    *)
PagesOfOpenStores ==
    visit # NoVisit /\ visit.step = "page" => visit.open

(* Requests find the store by any hostname that is its own, and only then. *)
RoutingSound ==
    RoutingTypeOK /\ LinkLeadsHome /\ RedirectEnds /\ RememberedWasGood /\ PagesOfOpenStores
=============================================================================
