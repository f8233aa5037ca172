---------------------------- MODULE StoreDomains ----------------------------
(***************************************************************************)
(* The hostnames of one store: the trial name it is provisioned with, the  *)
(* permanent name its owner claims (stores/services/handle_service.py) and *)
(* the custom domains (domain_verification_service.py), with the portal    *)
(* views that call them.                                                   *)
(*                                                                         *)
(* A claim looks for an earlier one before it locks the store.  The two    *)
(* checks of a custom domain ask the network first and write what they     *)
(* found later, in a transaction of their own.  The other services decide  *)
(* on what they lock, or on a status that a constraint of the row protects *)
(* (a verified domain stays verified: only_verified_domains_have_          *)
(* verified_at), and are one action each.                                  *)
(*                                                                         *)
(* The network is part of the model: what TXT record a domain carries, and *)
(* whether it leads to the platform.  That a claim needs an active         *)
(* subscription only refuses it, and is left out.                          *)
(***************************************************************************)
EXTENDS Integers, FiniteSets

CONSTANTS
    Trial,      \* the hostname of GENERATED_TRIAL
    Labels,     \* hostnames of PLATFORM_SUBDOMAIN that are free
    Customs,    \* hostnames of CUSTOM_DOMAIN
    MaxAge,     \* RASTISI_CUSTOM_DOMAIN_READINESS_MAX_AGE_SECONDS
    MaxClock,   \* bound of the clock
    MaxTokens,  \* bound of the tokens issued to a domain
    MaxChecks,  \* bound of the portal requests in flight
    NoRow       \* no such hostname

ASSUME DomainsAreNamed ==
    /\ Trial \notin Labels \cup Customs /\ Labels \cap Customs = {}
    /\ IsFiniteSet(Labels) /\ IsFiniteSet(Customs)
    /\ MaxAge \in Nat /\ MaxClock \in Nat /\ MaxTokens \in Nat /\ MaxChecks \in Nat

VARIABLES
    clock,
    domain,     \* the StoreDomain row of a hostname
    txt,        \* the token the TXT record of a domain carries, 0 for none
    reachable,  \* whether a domain leads to the platform, with a certificate
    lastReached, \* when it last did
    asked       \* the portal requests in flight

domainVars == <<clock, domain, txt, reachable, lastReached, asked>>

Hosts == {Trial} \cup Labels \cup Customs
Times == -1..MaxClock

Rows ==
    [primary : BOOLEAN, retired : BOOLEAN,
     verification : {"unverified", "pending", "verified"}, token : 0..MaxTokens,
     ready : BOOLEAN, checkedAt : Times]

ASSUME NoRowIsNone == NoRow \notin Rows

Asked ==
    [kind : {"claim"}, host : Labels]
        \cup [kind : {"verify"}, host : Customs, token : 0..MaxTokens]
        \cup [kind : {"readiness"}, host : Customs, ready : BOOLEAN, at : Times]

Exists(h) == domain[h] # NoRow

Verified == [primary |-> TRUE, retired |-> FALSE, verification |-> "verified",
             token |-> 0, ready |-> FALSE, checkedAt |-> -1]

(* provision_trial_store.                                                  *)
DomainInit ==
    /\ clock = 0
    /\ domain = [h \in Hosts |-> IF h = Trial THEN Verified ELSE NoRow]
    /\ txt = [c \in Customs |-> 0]
    /\ reachable = [c \in Customs |-> FALSE]
    /\ lastReached = [c \in Customs |-> -1 - MaxAge]
    /\ asked = {}

Primary(h) == Exists(h) /\ domain[h].primary

(* domain_is_eligible_for_routing, the store being active.                 *)
Routes(h) ==
    Exists(h) /\ domain[h].verification = "verified" /\ ~domain[h].retired

Ask(request) ==
    /\ Cardinality(asked) < MaxChecks
    /\ asked' = asked \cup {request}
    /\ UNCHANGED <<clock, domain, txt, reachable, lastReached>>

---------------------------------------------------------------------------
(* The permanent name.                                                     *)

(* has_claimed_handle says no.                                             *)
Unclaimed == \A l \in Labels : ~Exists(l)

AskClaim(l) == Unclaimed /\ Ask([kind |-> "claim", host |-> l])

(* Fault: the old primary keeps its flag.                                  *)
NewPrimaryBeside(l) == [domain EXCEPT ![l] = Verified]

(* The name that was primary is retired, the new one is verified at once.  *)
NewPrimary(l) ==
    [h \in Hosts |->
        IF h = l THEN Verified
        ELSE IF Primary(h) THEN [domain[h] EXCEPT !.primary = FALSE, !.retired = TRUE]
        ELSE domain[h]]

(* claim_platform_handle from the lock on: a name that is taken rolls the  *)
(* retirement back.                                                        *)
Claim(request) ==
    /\ request \in asked /\ request.kind = "claim"
    /\ asked' = asked \ {request}
    /\ domain' = IF Exists(request.host) THEN domain ELSE NewPrimary(request.host)
    /\ UNCHANGED <<clock, txt, reachable, lastReached>>

(* rename_platform_handle_as_superuser: only of a name that is primary.    *)
Rename(l) ==
    /\ \E old \in Labels : Primary(old)
    /\ ~Exists(l)
    /\ domain' = NewPrimary(l)
    /\ UNCHANGED <<clock, txt, reachable, lastReached, asked>>

---------------------------------------------------------------------------
(* Custom domains.                                                         *)

(* request_custom_domain.                                                  *)
RequestCustom(c) ==
    /\ ~Exists(c)
    /\ domain' = [domain EXCEPT ![c] = [Verified EXCEPT !.primary = FALSE,
                                                        !.verification = "unverified"]]
    /\ UNCHANGED <<clock, txt, reachable, lastReached, asked>>

(* begin_dns_verification: a new token, also for a domain that had one.    *)
BeginVerification(c) ==
    /\ Exists(c) /\ domain[c].verification # "verified"
    /\ domain[c].token < MaxTokens
    /\ domain' = [domain EXCEPT ![c].token = @ + 1, ![c].verification = "pending"]
    /\ UNCHANGED <<clock, txt, reachable, lastReached, asked>>

(* The checks of check_dns_verification: the row is pending, and its TXT   *)
(* record carries the token it holds.                                      *)
RecordsMatch(c) ==
    domain[c].verification = "pending" /\ txt[c] = domain[c].token

(* check_dns_verification up to the lookup.                                *)
AskVerification(c) ==
    /\ Exists(c) /\ RecordsMatch(c)
    /\ Ask([kind |-> "verify", host |-> c, token |-> txt[c]])

(* It verifies the row, which may hold another token by now.               *)
Verify(request) ==
    /\ request \in asked /\ request.kind = "verify"
    /\ asked' = asked \ {request}
    /\ domain' = [domain EXCEPT ![request.host].verification = "verified"]
    /\ UNCHANGED <<clock, txt, reachable, lastReached>>

(* refresh_custom_domain_readiness up to the answers of the network.       *)
AskReadiness(c) ==
    /\ Exists(c) /\ domain[c].verification = "verified"
    /\ Ask([kind |-> "readiness", host |-> c, ready |-> reachable[c], at |-> clock])

(* It writes them, with the time of the answers.                           *)
WriteReadiness(request) ==
    /\ request \in asked /\ request.kind = "readiness"
    /\ asked' = asked \ {request}
    /\ domain' = [domain EXCEPT ![request.host].ready = request.ready,
                                ![request.host].checkedAt = request.at]
    /\ UNCHANGED <<clock, txt, reachable, lastReached>>

(* Fault: how old the check is is not looked at.                           *)
ReadyOnce(c) == domain[c].ready

(* custom_domain_is_ready_for_activation.                                  *)
Ready(c) == domain[c].ready /\ clock - domain[c].checkedAt <= MaxAge

(* retired_domain_is_never_primary.                                        *)
Accepted(row) == ~(row.primary /\ row.retired)

(* The rows after an activation: the permanent name stays in service, any  *)
(* other name that was primary is retired.                                 *)
Activated(c) ==
    [h \in Hosts |->
        IF h = c THEN [domain[c] EXCEPT !.primary = TRUE]
        ELSE IF Primary(h) THEN [domain[h] EXCEPT !.primary = FALSE,
                                                  !.retired = h \notin Labels]
        ELSE domain[h]]

(* activate_custom_domain: the row of a domain that was retired is refused *)
(* by its constraint, as nothing clears retired_at.                        *)
Activate(c) ==
    /\ Exists(c) /\ domain[c].verification = "verified"
    /\ Ready(c)
    /\ Accepted(Activated(c)[c])
    /\ domain' = Activated(c)
    /\ UNCHANGED <<clock, txt, reachable, lastReached, asked>>

---------------------------------------------------------------------------
(* The network.                                                            *)

(* The owner enters the token the portal shows.                            *)
PublishTxt(c) ==
    /\ Exists(c) /\ domain[c].token > txt[c]
    /\ txt' = [txt EXCEPT ![c] = domain[c].token]
    /\ UNCHANGED <<clock, domain, reachable, lastReached, asked>>

Connect(c) ==
    /\ ~reachable[c]
    /\ reachable' = [reachable EXCEPT ![c] = TRUE]
    /\ lastReached' = [lastReached EXCEPT ![c] = clock]
    /\ UNCHANGED <<clock, domain, txt, asked>>

Disconnect(c) ==
    /\ reachable[c]
    /\ reachable' = [reachable EXCEPT ![c] = FALSE]
    /\ UNCHANGED <<clock, domain, txt, lastReached, asked>>

Pass ==
    /\ clock < MaxClock
    /\ clock' = clock + 1
    /\ lastReached' = [c \in Customs |-> IF reachable[c] THEN clock + 1 ELSE lastReached[c]]
    /\ UNCHANGED <<domain, txt, reachable, asked>>

DomainNext ==
    \/ \E l \in Labels : AskClaim(l) \/ Rename(l)
    \/ \E c \in Customs :
          \/ RequestCustom(c) \/ BeginVerification(c)
          \/ AskVerification(c) \/ AskReadiness(c) \/ Activate(c)
          \/ PublishTxt(c) \/ Connect(c) \/ Disconnect(c)
    \/ \E r \in asked : Claim(r) \/ Verify(r) \/ WriteReadiness(r)
    \/ Pass

DomainSpec == DomainInit /\ [][DomainNext]_domainVars

---------------------------------------------------------------------------
DomainTypeOK ==
    /\ clock \in 0..MaxClock
    /\ domain \in [Hosts -> Rows \cup {NoRow}]
    /\ txt \in [Customs -> 0..MaxTokens]
    /\ reachable \in [Customs -> BOOLEAN]
    /\ lastReached \in [Customs -> (-1 - MaxAge)..MaxClock]
    /\ asked \subseteq Asked

(* A store always has exactly one primary hostname, and that one routes:   *)
(* no order of claims, renames and activations leaves it without an        *)
(* address, or runs into uniq_primary_domain_per_store.                    *)
OnePrimaryRoutes ==
    \E h \in Hosts : /\ Primary(h) /\ Routes(h)
                     /\ \A other \in Hosts : Primary(other) => other = h

(* A custom domain is verified only after its own DNS has carried a token  *)
(* issued for it.                                                          *)
VerifiedWasShown ==
    \A c \in Customs :
        Exists(c) /\ domain[c].verification = "verified" => txt[c] # 0

(* The hostnames are sound: one address that works, none unproven.         *)
DomainsSound == DomainTypeOK /\ OnePrimaryRoutes /\ VerifiedWasShown

(* A domain becomes primary only if it has led to the platform within the  *)
(* time a check is good for, however late and in whatever order the checks *)
(* of several requests write what they found.                              *)
ActivatedWasReachable ==
    [][\A c \in Customs : ~Primary(c) /\ Primary(c)' =>
          clock - lastReached[c] <= MaxAge]_domainVars

(* A hostname that was retired never routes again.                         *)
RetiredForGood ==
    [][\A h \in Hosts : Exists(h) /\ domain[h].retired => ~Routes(h)']_domainVars

(* A permanent name goes out of service only for another permanent name:   *)
(* putting a custom domain in front of it leaves it routing.               *)
HandleStays ==
    [][\A l \in Labels : Routes(l) /\ ~Routes(l)' =>
          \E new \in Labels : ~Exists(new) /\ Exists(new)']_domainVars

(* What no claim, check or activation may do to a hostname.                *)
DomainSteps == ActivatedWasReachable /\ RetiredForGood /\ HandleStays
=============================================================================
