----------------------------- MODULE StoreTeam -----------------------------
(***************************************************************************)
(* The team of one store: apps/stores/services/membership_service.py and   *)
(* ownership_transfer_service.py, with the dashboard and portal views that *)
(* call them.                                                              *)
(*                                                                         *)
(* The two services that move the ownership lock the rows they change and  *)
(* decide on them, so each is one action.  change_role, revoke_membership  *)
(* and reactivate_membership do not: they decide on the instance their     *)
(* view has read and write the columns they change, so a request is two    *)
(* actions, and whatever the others do happens in between.  Adding a       *)
(* member counts the seats first and locks the row later.                  *)
(*                                                                         *)
(* The uniqueness of the active owner (uniq_active_owner_per_store) is     *)
(* modelled where the code asks for it, in full_clean of a membership that *)
(* is reactivated; the transfers do not ask, and OneOwnerAtMost shows that *)
(* the constraint never has to refuse what they write.                     *)
(***************************************************************************)
EXTENDS Integers, FiniteSets

CONSTANTS
    Users,      \* who may become a member
    Founder,    \* the owner provisioning has made
    Roles,      \* of ASSIGNABLE_ROLES, the roles besides owner
    Demoted,    \* administrator, the role of a former owner
    Requests,   \* the requests in flight at a time
    SeatLimit,  \* the plan's limit of STAFF_MEMBERS, the founder's included
    MaxTransfers, \* bound of the transfers started
    Nobody      \* no member, no transfer, no request

ASSUME TeamIsNamed ==
    /\ Founder \in Users /\ Nobody \notin Users
    /\ Demoted \in Roles
    /\ Roles \subseteq {"administrator", "catalog_manager", "order_manager",
                       "content_editor", "analyst"}
    /\ SeatLimit \in Nat \ {0} /\ MaxTransfers \in Nat
    /\ IsFiniteSet(Users) /\ IsFiniteSet(Requests) /\ Requests # {}

VARIABLES
    role,       \* StoreMembership.role, of a user who has a row
    standing,   \* StoreMembership.status, "none" without a row
    transfer,   \* the pending StoreOwnershipTransfer
    transfers,  \* how many were started
    staffRequest, \* what a request of the dashboard has read
    unseated    \* users seated without a seat being counted for them

teamVars == <<role, standing, transfer, transfers, staffRequest, unseated>>

AnyRole  == Roles \cup {"owner"}
Status   == {"none", "active", "revoked"}
Transfer == [by : Users, to : Users, expired : BOOLEAN]

StaffRequest ==
    [kind : {"add", "role", "revoke", "reactivate"}, member : Users,
     role : AnyRole, assign : Roles, counted : BOOLEAN]

TeamInit ==
    /\ role = [u \in Users |-> IF u = Founder THEN "owner" ELSE Demoted]
    /\ standing = [u \in Users |-> IF u = Founder THEN "active" ELSE "none"]
    /\ transfer = Nobody /\ transfers = 0
    /\ staffRequest = [q \in Requests |-> Nobody]
    /\ unseated = {}

Active(u) == standing[u] = "active"
Owns(u)   == Active(u) /\ role[u] = "owner"
Seats     == {u \in Users : Active(u)}

(* enforce_can_add_staff.                                                  *)
SeatFree == Cardinality(Seats) < SeatLimit

---------------------------------------------------------------------------
(* The dashboard.                                                          *)

(* ROLE_PERMISSIONS, by kind: "owning" stands for the team, the domains    *)
(* and the subscription.                                                   *)
RolePermissions(r) ==
    CASE r = "owner"           -> {"owning", "settings", "catalog", "orders", "content", "reports"}
      [] r = "administrator"   -> {"settings", "catalog", "orders", "content", "reports"}
      [] r = "catalog_manager" -> {"catalog", "reports"}
      [] r = "order_manager"   -> {"orders", "reports"}
      [] r = "content_editor"  -> {"content"}
      [] r = "analyst"         -> {"reports"}

(* staff_required and permission_required: a membership that is active, of *)
(* a role that holds the permission.                                       *)
Holds(u, permission) == Active(u) /\ permission \in RolePermissions(role[u])

(* The team is changed by whoever holds STAFF_MANAGE.                      *)
Receive(q, request) ==
    /\ staffRequest[q] = Nobody
    /\ \E u \in Users : Holds(u, "owning")
    /\ staffRequest' = [staffRequest EXCEPT ![q] = request]
    /\ UNCHANGED <<role, standing, transfer, transfers, unseated>>

Read(kind, u, assign) ==
    [kind |-> kind, member |-> u, role |-> role[u], assign |-> assign,
     counted |-> ~Active(u)]

(* Fault: whoever holds the role may be given another.                     *)
MayManageAnyone(u) == standing[u] # "none"

(* The checks of change_role and revoke_membership.                        *)
MayManage(u) == standing[u] # "none" /\ role[u] # "owner"

(* add_staff_member up to the seat check.                                  *)
ReceiveAdd(q, u, as) ==
    /\ Active(u) \/ SeatFree
    /\ Receive(q, Read("add", u, as))

(* staff_change_role: the row is read and checked.                         *)
ReceiveRole(q, u, as) == MayManage(u) /\ Receive(q, Read("role", u, as))

(* staff_revoke.                                                           *)
ReceiveRevoke(q, u) ==
    /\ MayManage(u) /\ standing[u] # "revoked"
    /\ Receive(q, Read("revoke", u, Demoted))

(* staff_reactivate.                                                       *)
ReceiveReactivate(q, u) ==
    /\ standing[u] = "revoked" /\ SeatFree
    /\ Receive(q, Read("reactivate", u, Demoted))

Answered(q) ==
    /\ staffRequest' = [staffRequest EXCEPT ![q] = Nobody]
    /\ UNCHANGED <<transfer, transfers>>

(* add_staff_member under the lock: an active member is refused, a revoked *)
(* one takes the new role.                                                 *)
AddStaffMember(q) ==
    LET r == staffRequest[q] IN
    /\ r # Nobody /\ r.kind = "add"
    /\ Answered(q)
    /\ \/ /\ Active(r.member)
          /\ UNCHANGED <<role, standing, unseated>>
       \/ /\ ~Active(r.member)
          /\ role' = [role EXCEPT ![r.member] = r.assign]
          /\ standing' = [standing EXCEPT ![r.member] = "active"]
          /\ unseated' = IF r.counted THEN unseated \ {r.member}
                         ELSE unseated \cup {r.member}

(* Saves the column "role" of the instance, whatever the row says by now.  *)
ChangeRole(q) ==
    LET r == staffRequest[q] IN
    /\ r # Nobody /\ r.kind = "role"
    /\ Answered(q)
    /\ role' = [role EXCEPT ![r.member] = r.assign]
    /\ UNCHANGED <<standing, unseated>>

(* Saves the column "status" of the instance.                                *)
RevokeMembership(q) ==
    LET r == staffRequest[q] IN
    /\ r # Nobody /\ r.kind = "revoke"
    /\ Answered(q)
    /\ standing' = [standing EXCEPT ![r.member] = "revoked"]
    /\ unseated' = unseated \ {r.member}
    /\ UNCHANGED role

(* full_clean asks with the role the row had when it was read, the         *)
(* constraint with the role it has now: it is no second active owner.      *)
ValidReactivation(r) ==
    "owner" \in {r.role, role[r.member]} =>
        \A u \in Users : Owns(u) => u = r.member

(* Saves the column "status".                                                *)
ReactivateMembership(q) ==
    LET r == staffRequest[q] IN
    /\ r # Nobody /\ r.kind = "reactivate"
    /\ Answered(q)
    /\ \/ /\ ValidReactivation(r)
          /\ standing' = [standing EXCEPT ![r.member] = "active"]
          /\ unseated' = unseated \ {r.member}
       \/ /\ ~ValidReactivation(r)
          /\ UNCHANGED <<standing, unseated>>
    /\ UNCHANGED role

(* The checks of transfer_ownership, on the locked rows.                   *)
MayHandOver(from, to) == Owns(from) /\ Active(to) /\ to # from

(* staff_transfer_ownership: request.store_membership may be that of a     *)
(* member who has handed over meanwhile, which the service re-checks.      *)
TransferOwnership(from, to) ==
    /\ MayHandOver(from, to)
    /\ role' = [role EXCEPT ![from] = Demoted, ![to] = "owner"]
    /\ UNCHANGED <<standing, transfer, transfers, staffRequest, unseated>>

---------------------------------------------------------------------------
(* The portal.                                                             *)

(* initiate_transfer: one pending transfer at a time, by the active owner. *)
InitiateTransfer(by, to) ==
    /\ transfer = Nobody /\ transfers < MaxTransfers
    /\ Owns(by)
    /\ transfer' = [by |-> by, to |-> to, expired |-> FALSE]
    /\ transfers' = transfers + 1
    /\ UNCHANGED <<role, standing, staffRequest, unseated>>

(* TRANSFER_TTL_DAYS have passed; the row stays pending.                   *)
Lapse ==
    /\ transfer # Nobody /\ ~transfer.expired
    /\ transfer' = [transfer EXCEPT !.expired = TRUE]
    /\ UNCHANGED <<role, standing, transfers, staffRequest, unseated>>

(* cancel_ownership_transfer, by any active member.                        *)
CancelTransfer ==
    /\ transfer # Nobody /\ Seats # {}
    /\ transfer' = Nobody
    /\ UNCHANGED <<role, standing, transfers, staffRequest, unseated>>

(* Fault: the owner who is there already keeps the role.                   *)
AcceptedRolesBeside(to) == [role EXCEPT ![to] = "owner"]

(* The roles after accept_transfer: whoever is the owner by then becomes   *)
(* an administrator.                                                       *)
AcceptedRoles(to) ==
    [u \in Users |-> IF u = to THEN "owner"
                     ELSE IF Owns(u) THEN Demoted ELSE role[u]]

(* accept_transfer, once the target has entered the code sent to them: the *)
(* membership becomes active and no seat is counted.  A transfer that has  *)
(* expired is only marked.                                                 *)
AcceptTransfer ==
    /\ transfer # Nobody
    /\ transfer' = Nobody
    /\ UNCHANGED <<transfers, staffRequest>>
    /\ \/ /\ transfer.expired
          /\ UNCHANGED <<role, standing, unseated>>
       \/ /\ ~transfer.expired
          /\ role' = AcceptedRoles(transfer.to)
          /\ standing' = [standing EXCEPT ![transfer.to] = "active"]
          /\ unseated' = unseated \cup ({transfer.to} \ Seats)

---------------------------------------------------------------------------
TeamNext ==
    \/ \E q \in Requests, u \in Users :
          \/ \E as \in Roles : ReceiveAdd(q, u, as) \/ ReceiveRole(q, u, as)
          \/ ReceiveRevoke(q, u) \/ ReceiveReactivate(q, u)
    \/ \E q \in Requests :
          \/ AddStaffMember(q) \/ ChangeRole(q)
          \/ RevokeMembership(q) \/ ReactivateMembership(q)
    \/ \E u, v \in Users : TransferOwnership(u, v) \/ InitiateTransfer(u, v)
    \/ Lapse \/ CancelTransfer \/ AcceptTransfer

TeamSpec == TeamInit /\ [][TeamNext]_teamVars

---------------------------------------------------------------------------
TeamTypeOK ==
    /\ role \in [Users -> AnyRole]
    /\ standing \in [Users -> Status]
    /\ transfer \in Transfer \cup {Nobody}
    /\ transfers \in 0..MaxTransfers
    /\ staffRequest \in [Requests -> StaffRequest \cup {Nobody}]
    /\ unseated \subseteq Users

(* The store never has two active owners, however the transfers of the     *)
(* dashboard and of the portal follow each other: what they write never    *)
(* runs into the constraint uniq_active_owner_per_store.                   *)
OneOwnerAtMost == \A u, v \in Users : Owns(u) /\ Owns(v) => u = v

(* The seats taken exceed the plan's limit by no more than the requests    *)
(* that counted the same free seat, and the members for whom no seat was   *)
(* counted: those who came in by accepting the ownership, and those whom   *)
(* an addition found active that another request revoked meanwhile.        *)
SeatsBounded ==
    Cardinality(Seats \ unseated) <= SeatLimit + Cardinality(Requests) - 1

(* The team is sound: no second owner, no more seats than were counted.    *)
TeamSound == TeamTypeOK /\ OneOwnerAtMost /\ SeatsBounded

(* The active owner stops being it only for another active owner; the one  *)
(* exception is a request that read the membership when it was not the     *)
(* owner's yet, and takes the role or the seat from the owner it became.   *)
OwnerIsReplaced ==
    [][\A u \in Users : Owns(u) /\ ~Owns(u)' =>
          \/ \E v \in Users : Owns(v)'
          \/ \E q \in Requests :
                /\ staffRequest[q] # Nobody /\ staffRequest'[q] = Nobody
                /\ staffRequest[q].member = u /\ staffRequest[q].role # "owner"]_teamVars
=============================================================================
