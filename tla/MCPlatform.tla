---------------------------- MODULE MCPlatform ----------------------------
(***************************************************************************)
(* The team, the life, the hostnames, the billing and the SMS credits of   *)
(* one store.  They share no variable, so each behaviour moves one of them *)
(* ("part") and leaves the others where they start; the part "routing"     *)
(* moves the life and the hostnames together, under the requests they are  *)
(* asked for.                                                              *)
(***************************************************************************)
EXTENDS StoreTeam, StoreRouting, Billing, SmsCredits, TLC

(* A free version and a paid one with periods of a day; a day of grace;    *)
(* dunning on the due date and the day after.                              *)
Prices    == "free" :> 0 @@ "basic" :> 1
Intervals == "free" :> 0 @@ "basic" :> 1
Graces    == "free" :> 1 @@ "basic" :> 1
TwoStages == <<0, 1>>

(* A one-time code is one unit, another message two.                       *)
EachUnits == [t \in Texts |-> IF t \in Codes THEN 1 ELSE 2]
Deltas    == {-1, 2}

(* What may change places; "a" are requests about the team and names that  *)
(* may be claimed, in parts that share no variable.                        *)
Alike == Permutations(Users \ {Founder}) \cup Permutations(Requests)

(* The part "routing" keeps to one custom domain that stays connected, one *)
(* request to the portal at a time, one suspension, and the owner out of   *)
(* the wizard.                                                             *)
FewHosts ==
    /\ Cardinality({c \in Customs : Exists(c)'}) <= 1
    /\ \A c \in Customs : (reachable'[c] => Exists(c)') /\ (reachable[c] => reachable'[c])
    /\ Cardinality(asked') <= 1 /\ acts' <= 1
    /\ today' = today /\ clock' = clock /\ wizard' = wizard /\ purging' = purging

VARIABLE part

visitVars == <<visit, remembered>>

platformVars ==
    <<part, teamVars, lifeVars, domainVars, visitVars, billingVars, smsVars>>

Init == /\ part \in {"team", "life", "domains", "routing", "billing", "sms"}
        /\ TeamInit /\ RoutingInit /\ BillingInit /\ SmsInit
        /\ part # "billing" => sub.status = "active"
        /\ part # "sms" => ~viaDevice

Next ==
    /\ UNCHANGED part
    /\ \/ /\ part = "team" /\ TeamNext
          /\ UNCHANGED <<lifeVars, domainVars, visitVars, billingVars, smsVars>>
       \/ /\ part = "life" /\ LifeNext
          /\ UNCHANGED <<teamVars, domainVars, visitVars, billingVars, smsVars>>
       \/ /\ part = "domains" /\ DomainNext
          /\ UNCHANGED <<teamVars, lifeVars, visitVars, billingVars, smsVars>>
       \/ /\ part = "routing" /\ RoutingNext /\ FewHosts
          /\ UNCHANGED <<teamVars, billingVars, smsVars>>
       \/ /\ part = "billing" /\ BillingNext
          /\ UNCHANGED <<teamVars, lifeVars, domainVars, visitVars, smsVars>>
       \/ /\ part = "sms" /\ SmsNext
          /\ UNCHANGED <<teamVars, lifeVars, domainVars, visitVars, billingVars>>

Spec == Init /\ [][Next]_platformVars

----------------------------------------------------------------------------
(* The action properties of the parts: an owner leaves only by a transfer, *)
(* a store and its hostnames take only the steps of their life, and a      *)
(* subscription only the transitions the code allows.                      *)
PlatformSteps == OwnerIsReplaced /\ LifeSteps /\ DomainSteps /\ OnlyAllowedTransitions
=============================================================================
