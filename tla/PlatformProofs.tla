---------------------------- MODULE PlatformProofs ----------------------------
(***************************************************************************)
(* Proofs about the platform's side of a store, for any team, any number   *)
(* of requests in flight and any set of hostnames: one owner at most and   *)
(* no more seats than were counted, no visitor before publication or       *)
(* during a deletion, one primary hostname that works; and the money of    *)
(* the platform: the SMS credits of a store, for any texts, workers,       *)
(* purchases and corrections, and the billing of its subscription, for any *)
(* plans, schedule and numbers of invoices and attempts.                   *)
(***************************************************************************)
EXTENDS StoreTeam, StoreRouting, SmsCredits, Billing, FoldProofs, FiniteSetTheorems, TLAPS

-----------------------------------------------------------------------------
(* The team.                                                               *)

\* Requests that counted a free seat and have not taken it yet.
SeatSeekers ==
    {q \in Requests : /\ staffRequest[q] # Nobody /\ staffRequest[q].counted
                      /\ staffRequest[q].kind \in {"add", "reactivate"}}

\* Members a seat was counted for.
Seated == Seats \ unseated

\* What was checked when a request read the membership it is about.
RequestsChecked ==
    \A q \in Requests : staffRequest[q] # Nobody =>
        /\ staffRequest[q].kind \in {"role", "revoke"} => staffRequest[q].role # "owner"
        /\ staffRequest[q].kind = "reactivate" => staffRequest[q].counted

\* Every seat that is taken or being taken was free when it was counted, but
\* for those that were counted at the same time.
SeatsCounted ==
    Cardinality(Seated) + Cardinality(SeatSeekers) <= SeatLimit + Cardinality(Requests) - 1

\* What makes TeamSound inductive.
TeamInv == TeamTypeOK /\ OneOwnerAtMost /\ RequestsChecked /\ SeatsCounted

\* No role that can be assigned is the owner's.
LEMMA NoOwnerAssigned == "owner" \notin Roles /\ Demoted \in Roles /\ Roles \subseteq AnyRole
  BY TeamIsNamed DEF AnyRole

\* The sets that are counted are finite.
LEMMA Countable ==
    /\ IsFiniteSet(SeatSeekers) /\ Cardinality(SeatSeekers) \in Nat
    /\ Cardinality(SeatSeekers) <= Cardinality(Requests)
    /\ IsFiniteSet(Seats) /\ Cardinality(Seats) \in Nat
    /\ IsFiniteSet(Seated) /\ Cardinality(Seated) \in Nat
    /\ Cardinality(Seated) <= Cardinality(Seats)
    /\ Cardinality(Requests) \in Nat \ {0} /\ SeatLimit \in Nat \ {0}
  <1>1. SeatSeekers \in SUBSET Requests
    BY DEF SeatSeekers
  <1>2. Seats \in SUBSET Users /\ Seated \in SUBSET Seats
    BY DEF Seats, Seated
  <1>3. IsFiniteSet(Seats)
    BY <1>2, FS_Subset, TeamIsNamed
  <1>4. Cardinality(Requests) # 0
    BY FS_EmptySet, TeamIsNamed
  <1> QED
    BY <1>1, <1>2, <1>3, <1>4, FS_Subset, FS_CardinalityType, TeamIsNamed

\* The bound on the seats follows.
LEMMA CountedIsBounded == TeamInv => TeamSound
  BY Countable DEF TeamInv, TeamSound, SeatsCounted, SeatsBounded, Seated

\* The founder has the store to begin with.
LEMMA InitTeam == TeamInit => TeamInv
  <1> SUFFICES ASSUME TeamInit PROVE TeamInv
    OBVIOUS
  <1>1. TeamTypeOK
    BY TeamIsNamed DEF TeamInit, TeamTypeOK, AnyRole, Status
  <1>2. OneOwnerAtMost
    BY DEF TeamInit, OneOwnerAtMost, Owns, Active
  <1>3. RequestsChecked
    BY DEF TeamInit, RequestsChecked
  <1>4. Seated = {Founder} /\ SeatSeekers = {}
    BY TeamIsNamed DEF TeamInit, Seated, Seats, Active, SeatSeekers
  <1>5. Cardinality(Seated) = 1 /\ Cardinality(SeatSeekers) = 0
    BY <1>4, FS_EmptySet, FS_Singleton
  <1>6. SeatsCounted
    BY <1>5, Countable DEF SeatsCounted
  <1> QED
    BY <1>1, <1>2, <1>3, <1>6 DEF TeamInv

\* A request that reads a membership counts a seat only when one is free.
LEMMA ReceiveSound ==
    ASSUME TeamInv, NEW q \in Requests, NEW r \in StaffRequest, Receive(q, r),
           r.kind \in {"role", "revoke"} => r.role # "owner",
           r.kind = "reactivate" => r.counted,
           r.kind \in {"add", "reactivate"} /\ r.counted => SeatFree
    PROVE  TeamInv'
  <1>1. /\ staffRequest \in [Requests -> StaffRequest \cup {Nobody}]
        /\ staffRequest' = [staffRequest EXCEPT ![q] = r]
        /\ UNCHANGED <<role, standing, transfer, transfers, unseated>>
        /\ staffRequest[q] = Nobody
    BY DEF Receive, TeamInv, TeamTypeOK
  <1>2. TeamTypeOK'
    BY <1>1 DEF TeamInv, TeamTypeOK
  <1>3. OneOwnerAtMost' /\ Seated' = Seated
    BY <1>1 DEF TeamInv, OneOwnerAtMost, Owns, Active, Seated, Seats
  <1>4. RequestsChecked'
    BY <1>1 DEF TeamInv, RequestsChecked
  <1>5. SeatsCounted'
    <2>1. CASE r.kind \in {"add", "reactivate"} /\ r.counted
      <3>1. Cardinality(Seats) < SeatLimit
        BY <2>1 DEF SeatFree
      <3>2. SeatSeekers' \in SUBSET Requests
        BY DEF SeatSeekers
      <3>3. Cardinality(SeatSeekers') <= Cardinality(Requests) /\ Cardinality(SeatSeekers') \in Nat
        BY <3>2, FS_Subset, FS_CardinalityType, TeamIsNamed
      <3> QED
        BY <1>3, <3>1, <3>3, Countable DEF SeatsCounted
    <2>2. CASE ~(r.kind \in {"add", "reactivate"} /\ r.counted)
      <3>1. SeatSeekers' = SeatSeekers
        BY <1>1, <2>2 DEF SeatSeekers
      <3> QED
        BY <1>3, <3>1 DEF TeamInv, SeatsCounted
    <2> QED
      BY <2>1, <2>2
  <1> QED
    BY <1>2, <1>3, <1>4, <1>5 DEF TeamInv

\* What a request that is answered leaves of those that seek a seat.
LEMMA AnsweredSeekers ==
    ASSUME TeamTypeOK, RequestsChecked, NEW q \in Requests, staffRequest[q] # Nobody, Answered(q)
    PROVE  /\ staffRequest' \in [Requests -> StaffRequest \cup {Nobody}]
           /\ RequestsChecked'
           /\ SeatSeekers' = SeatSeekers \ {q}
           /\ UNCHANGED <<transfer, transfers>>
           /\ staffRequest[q] \in StaffRequest
           /\ staffRequest'[q] = Nobody
           /\ Cardinality(SeatSeekers') =
                 Cardinality(SeatSeekers) - (IF q \in SeatSeekers THEN 1 ELSE 0)
  <1>1. /\ staffRequest \in [Requests -> StaffRequest \cup {Nobody}]
        /\ staffRequest' = [staffRequest EXCEPT ![q] = Nobody]
        /\ UNCHANGED <<transfer, transfers>>
    BY DEF TeamTypeOK, Answered
  <1>2. SeatSeekers' = SeatSeekers \ {q}
    BY <1>1 DEF SeatSeekers
  <1>3. RequestsChecked'
    BY <1>1 DEF RequestsChecked
  <1>4. Cardinality(SeatSeekers') =
            Cardinality(SeatSeekers) - (IF q \in SeatSeekers THEN 1 ELSE 0)
    <2>1. CASE q \in SeatSeekers
      BY <1>2, <2>1, Countable, FS_RemoveElement
    <2>2. CASE q \notin SeatSeekers
      <3>1. SeatSeekers' = SeatSeekers
        BY <1>2, <2>2
      <3> QED
        BY <2>2, <3>1, Countable
    <2> QED
      BY <2>1, <2>2
  <1> QED
    BY <1>1, <1>2, <1>3, <1>4

\* A seat is taken by a request that counted one, or by nobody.
LEMMA SeatTaken ==
    ASSUME TeamInv, NEW q \in Requests, staffRequest[q] # Nobody, Answered(q), NEW m,
           \/ Seated' \subseteq Seated
           \/ q \in SeatSeekers /\ Seated' \subseteq Seated \cup {m}
    PROVE  SeatsCounted'
  <1>1. Cardinality(SeatSeekers') =
            Cardinality(SeatSeekers) - (IF q \in SeatSeekers THEN 1 ELSE 0)
    BY AnsweredSeekers DEF TeamInv
  <1>2. Cardinality(SeatSeekers) \in Nat /\ Cardinality(SeatSeekers') \in Nat
    BY Countable, <1>1, FS_EmptySet, FS_Subset, AnsweredSeekers, FS_CardinalityType DEF TeamInv
  <1>3. CASE Seated' \subseteq Seated
    <2>1. Cardinality(Seated') <= Cardinality(Seated) /\ Cardinality(Seated') \in Nat
      BY <1>3, Countable, FS_Subset, FS_CardinalityType
    <2> QED
      BY <1>1, <1>2, <2>1, Countable DEF TeamInv, SeatsCounted
  <1>4. CASE q \in SeatSeekers /\ Seated' \subseteq Seated \cup {m}
    <2>1. /\ IsFiniteSet(Seated \cup {m})
          /\ Cardinality(Seated \cup {m}) <= Cardinality(Seated) + 1
          /\ Cardinality(Seated \cup {m}) \in Nat
      <3>1. IsFiniteSet(Seated \cup {m})
        BY Countable, FS_AddElement
      <3>2. Cardinality(Seated \cup {m}) \in Nat
        BY <3>1, FS_CardinalityType
      <3>3. CASE m \in Seated
        <4>1. Seated \cup {m} = Seated
          BY <3>3
        <4> QED
          BY <3>1, <4>1, Countable
      <3>4. CASE m \notin Seated
        BY <3>1, <3>2, <3>4, Countable, FS_AddElement
      <3> QED
        BY <3>3, <3>4
    <2>2. /\ Cardinality(Seated') <= Cardinality(Seated \cup {m})
          /\ Cardinality(Seated') \in Nat
      BY <1>4, <2>1, FS_Subset, FS_CardinalityType
    <2> QED
      BY <1>1, <1>2, <1>4, <2>1, <2>2, Countable DEF TeamInv, SeatsCounted
  <1> QED
    BY <1>3, <1>4

\* A member who is added or given back the seat is no second owner.
LEMMA AddSound ==
    ASSUME TeamInv, NEW q \in Requests, AddStaffMember(q)
    PROVE  TeamInv'
  <1> DEFINE r == staffRequest[q]
             m == staffRequest[q].member
  <1>1. r # Nobody /\ r.kind = "add" /\ Answered(q)
    BY DEF AddStaffMember
  <1>2. r \in StaffRequest /\ m \in Users /\ r.assign \in Roles
    BY <1>1, AnsweredSeekers DEF TeamInv, StaffRequest
  <1>3. /\ RequestsChecked' /\ UNCHANGED <<transfer, transfers>>
        /\ staffRequest' \in [Requests -> StaffRequest \cup {Nobody}]
    BY <1>1, AnsweredSeekers DEF TeamInv
  <1>4. CASE Active(m) /\ UNCHANGED <<role, standing, unseated>>
    <2>1. TeamTypeOK'
      BY <1>3, <1>4 DEF TeamInv, TeamTypeOK
    <2>2. OneOwnerAtMost'
      BY <1>4 DEF TeamInv, OneOwnerAtMost, Owns, Active
    <2>3. Seated' = Seated
      BY <1>4 DEF Seated, Seats, Active
    <2>4. SeatsCounted'
      BY <1>1, <2>3, SeatTaken
    <2> QED
      BY <1>3, <2>1, <2>2, <2>4 DEF TeamInv
  <1>5. CASE ~(Active(m) /\ UNCHANGED <<role, standing, unseated>>)
    <2>1. /\ ~Active(m)
          /\ role' = [role EXCEPT ![m] = r.assign]
          /\ standing' = [standing EXCEPT ![m] = "active"]
          /\ unseated' = IF r.counted THEN unseated \ {m} ELSE unseated \cup {m}
      BY <1>5 DEF AddStaffMember
    <2>2. TeamTypeOK'
      BY <1>2, <1>3, <2>1, NoOwnerAssigned DEF TeamInv, TeamTypeOK, Status
    <2>3. OneOwnerAtMost'
      BY <1>2, <2>1, NoOwnerAssigned DEF TeamInv, TeamTypeOK, OneOwnerAtMost, Owns, Active
    <2>4. r.counted => q \in SeatSeekers
      BY <1>1 DEF SeatSeekers
    <2>5. IF r.counted THEN Seated' \subseteq Seated \cup {m} ELSE Seated' \subseteq Seated
      BY <1>2, <2>1 DEF Seated, Seats, Active, TeamInv, TeamTypeOK
    <2>6. SeatsCounted'
      BY <1>1, <2>4, <2>5, SeatTaken
    <2> QED
      BY <1>3, <2>2, <2>3, <2>6 DEF TeamInv
  <1> QED
    BY <1>4, <1>5

\* change_role and revoke_membership make no owner and take no seat.
LEMMA ManageSound ==
    ASSUME TeamInv, NEW q \in Requests, ChangeRole(q) \/ RevokeMembership(q)
    PROVE  TeamInv'
  <1> DEFINE r == staffRequest[q]
             m == staffRequest[q].member
  <1>1. r # Nobody /\ Answered(q)
    BY DEF ChangeRole, RevokeMembership
  <1>2. r \in StaffRequest /\ m \in Users /\ r.assign \in Roles
    BY <1>1, AnsweredSeekers DEF TeamInv, StaffRequest
  <1>3. /\ RequestsChecked' /\ UNCHANGED <<transfer, transfers>>
        /\ staffRequest' \in [Requests -> StaffRequest \cup {Nobody}]
    BY <1>1, AnsweredSeekers DEF TeamInv
  <1>4. \/ /\ role' = [role EXCEPT ![m] = r.assign]
           /\ UNCHANGED <<standing, unseated>>
        \/ /\ standing' = [standing EXCEPT ![m] = "revoked"]
           /\ unseated' = unseated \ {m}
           /\ UNCHANGED role
    BY DEF ChangeRole, RevokeMembership
  <1>5. TeamTypeOK'
    BY <1>2, <1>3, <1>4, NoOwnerAssigned DEF TeamInv, TeamTypeOK, Status
  <1>6. OneOwnerAtMost'
    BY <1>2, <1>4, NoOwnerAssigned DEF TeamInv, TeamTypeOK, OneOwnerAtMost, Owns, Active
  <1>7. Seated' \subseteq Seated
    BY <1>2, <1>4 DEF Seated, Seats, Active, TeamInv, TeamTypeOK
  <1>8. SeatsCounted'
    BY <1>1, <1>7, SeatTaken
  <1> QED
    BY <1>3, <1>5, <1>6, <1>8 DEF TeamInv

\* reactivate_membership makes no second owner, and takes the seat it counted.
LEMMA ReactivateSound ==
    ASSUME TeamInv, NEW q \in Requests, ReactivateMembership(q)
    PROVE  TeamInv'
  <1> DEFINE r == staffRequest[q]
             m == staffRequest[q].member
  <1>1. r # Nobody /\ r.kind = "reactivate" /\ Answered(q) /\ UNCHANGED role
    BY DEF ReactivateMembership
  <1>2. r \in StaffRequest /\ m \in Users
    BY <1>1, AnsweredSeekers DEF TeamInv, StaffRequest
  <1>3. /\ RequestsChecked' /\ UNCHANGED <<transfer, transfers>>
        /\ staffRequest' \in [Requests -> StaffRequest \cup {Nobody}]
    BY <1>1, AnsweredSeekers DEF TeamInv
  <1>4. q \in SeatSeekers
    BY <1>1 DEF SeatSeekers, TeamInv, RequestsChecked
  <1>5. \/ /\ ValidReactivation(r)
           /\ standing' = [standing EXCEPT ![m] = "active"]
           /\ unseated' = unseated \ {m}
        \/ UNCHANGED <<standing, unseated>>
    BY DEF ReactivateMembership
  <1>6. TeamTypeOK'
    BY <1>1, <1>2, <1>3, <1>5 DEF TeamInv, TeamTypeOK, Status
  <1>7. OneOwnerAtMost'
    BY <1>1, <1>2, <1>5
    DEF TeamInv, TeamTypeOK, OneOwnerAtMost, Owns, Active, ValidReactivation
  <1>8. Seated' \subseteq Seated \cup {m}
    BY <1>2, <1>5 DEF Seated, Seats, Active, TeamInv, TeamTypeOK
  <1>9. SeatsCounted'
    BY <1>1, <1>4, <1>8, SeatTaken
  <1> QED
    BY <1>3, <1>6, <1>7, <1>9 DEF TeamInv

\* The owner who hands over becomes an administrator.
LEMMA TransferSound ==
    ASSUME TeamInv, NEW from \in Users, NEW to \in Users, TransferOwnership(from, to)
    PROVE  TeamInv' /\ Owns(to)'
  <1>1. /\ Owns(from) /\ Active(to) /\ to # from
        /\ role' = [role EXCEPT ![from] = Demoted, ![to] = "owner"]
        /\ UNCHANGED <<standing, transfer, transfers, staffRequest, unseated>>
    BY DEF TransferOwnership, MayHandOver
  <1>2. TeamTypeOK'
    BY <1>1, NoOwnerAssigned DEF TeamInv, TeamTypeOK, AnyRole
  <1>3. OneOwnerAtMost' /\ Owns(to)'
    BY <1>1, NoOwnerAssigned DEF TeamInv, TeamTypeOK, OneOwnerAtMost, Owns, Active
  <1>4. Seated' = Seated /\ SeatSeekers' = SeatSeekers /\ RequestsChecked'
    BY <1>1 DEF Seated, Seats, Active, SeatSeekers, TeamInv, RequestsChecked
  <1> QED
    BY <1>2, <1>3, <1>4 DEF TeamInv, SeatsCounted

\* Who accepts the ownership is the only owner, without a seat counted.
LEMMA AcceptSound ==
    ASSUME TeamInv, AcceptTransfer
    PROVE  TeamInv' /\ (~transfer.expired => \E v \in Users : Owns(v)')
  <1>1. /\ transfer \in Transfer /\ transfer.to \in Users
        /\ transfer' = Nobody /\ UNCHANGED <<transfers, staffRequest>>
    BY DEF AcceptTransfer, TeamInv, TeamTypeOK, Transfer
  <1>2. RequestsChecked' /\ SeatSeekers' = SeatSeekers
    BY <1>1 DEF TeamInv, RequestsChecked, SeatSeekers
  <1>3. CASE transfer.expired /\ UNCHANGED <<role, standing, unseated>>
    <2>1. TeamTypeOK' /\ OneOwnerAtMost' /\ Seated' = Seated
      BY <1>1, <1>3 DEF TeamInv, TeamTypeOK, OneOwnerAtMost, Owns, Active, Seated, Seats
    <2> QED
      BY <1>2, <1>3, <2>1 DEF TeamInv, SeatsCounted
  <1>4. CASE /\ ~transfer.expired
             /\ role' = AcceptedRoles(transfer.to)
             /\ standing' = [standing EXCEPT ![transfer.to] = "active"]
             /\ unseated' = unseated \cup ({transfer.to} \ Seats)
    <2>1. TeamTypeOK'
      BY <1>1, <1>4, NoOwnerAssigned
      DEF TeamInv, TeamTypeOK, AcceptedRoles, AnyRole, Status
    <2> DEFINE new == transfer.to
    <2>a. /\ new \in Users /\ role'[new] = "owner" /\ standing'[new] = "active"
          /\ \A u \in Users \ {new} : ~(standing'[u] = "active" /\ role'[u] = "owner")
      BY <1>1, <1>4, NoOwnerAssigned
      DEF TeamInv, TeamTypeOK, Owns, Active, AcceptedRoles
    <2> HIDE DEF new
    <2>2. OneOwnerAtMost' /\ \E v \in Users : Owns(v)'
      BY <2>a DEF OneOwnerAtMost, Owns, Active
    <2>3. Seated' = Seated
      BY <1>1, <1>4 DEF TeamInv, TeamTypeOK, Seated, Seats, Active
    <2> QED
      BY <1>2, <2>1, <2>2, <2>3 DEF TeamInv, SeatsCounted
  <1> QED
    BY <1>3, <1>4 DEF AcceptTransfer

\* Starting, ending and letting lapse a transfer changes no membership.
LEMMA TransfersOnly ==
    ASSUME TeamInv, UNCHANGED <<role, standing, staffRequest, unseated>>,
           transfer' \in Transfer \cup {Nobody}, transfers' \in 0..MaxTransfers
    PROVE  TeamInv'
  BY DEF TeamInv, TeamTypeOK, OneOwnerAtMost, Owns, Active, RequestsChecked, SeatsCounted,
         Seated, Seats, SeatSeekers

\* A request that reads a membership makes the checks of its kind.
LEMMA ReadSound ==
    ASSUME TeamInv, NEW q \in Requests, NEW u \in Users,
           \/ \E as \in Roles : ReceiveAdd(q, u, as) \/ ReceiveRole(q, u, as)
           \/ ReceiveRevoke(q, u) \/ ReceiveReactivate(q, u)
    PROVE  TeamInv' /\ UNCHANGED <<role, standing>>
  <1>1. \A kind \in {"add", "role", "revoke", "reactivate"}, as \in Roles :
            /\ Read(kind, u, as) \in StaffRequest
            /\ Read(kind, u, as).kind = kind
            /\ Read(kind, u, as).role = role[u]
            /\ Read(kind, u, as).counted = ~Active(u)
    BY DEF TeamInv, TeamTypeOK, Read, StaffRequest, Active
  <1>2. ASSUME NEW as \in Roles, ReceiveAdd(q, u, as)
        PROVE  TeamInv' /\ UNCHANGED <<role, standing>>
    BY <1>1, <1>2, ReceiveSound DEF ReceiveAdd, Receive
  <1>3. ASSUME NEW as \in Roles, ReceiveRole(q, u, as)
        PROVE  TeamInv' /\ UNCHANGED <<role, standing>>
    BY <1>1, <1>3, ReceiveSound DEF ReceiveRole, MayManage, Receive
  <1>4. CASE ReceiveRevoke(q, u)
    BY <1>1, <1>4, NoOwnerAssigned, ReceiveSound DEF ReceiveRevoke, MayManage, Receive
  <1>5. CASE ReceiveReactivate(q, u)
    BY <1>1, <1>5, NoOwnerAssigned, ReceiveSound DEF ReceiveReactivate, Receive, Active
  <1> QED
    BY <1>2, <1>3, <1>4, <1>5

\* Every step keeps the team sound.
LEMMA TeamStep ==
    ASSUME TeamInv, [TeamNext]_teamVars
    PROVE  TeamInv'
  <1>0. transfer \in Transfer \cup {Nobody} /\ transfers \in 0..MaxTransfers /\ MaxTransfers \in Nat
    BY TeamIsNamed DEF TeamInv, TeamTypeOK
  <1>1. ASSUME NEW u \in Users, NEW v \in Users, InitiateTransfer(u, v)
        PROVE  TeamInv'
    BY <1>0, <1>1, TransfersOnly DEF InitiateTransfer, Transfer
  <1>2. CASE Lapse \/ CancelTransfer
    BY <1>0, <1>2, TransfersOnly DEF Lapse, CancelTransfer, Transfer
  <1>3. CASE UNCHANGED teamVars
    BY <1>0, <1>3, TransfersOnly DEF teamVars
  <1> QED
    BY <1>1, <1>2, <1>3, ReadSound, AddSound, ManageSound, ReactivateSound, TransferSound,
       AcceptSound DEF TeamNext

\* However requests and transfers interleave, a store has one owner at most,
\* and no more members than seats were counted for, but for the requests that
\* counted the same one.
THEOREM TeamIsSound == TeamSpec => []TeamSound
  BY InitTeam, TeamStep, CountedIsBounded, PTL DEF TeamSpec

\* The owner gives way to another, or to a request with an old reading.
LEMMA OwnerStep ==
    ASSUME TeamInv, TeamNext, NEW u \in Users, Owns(u), ~Owns(u)'
    PROVE  \/ \E v \in Users : Owns(v)'
           \/ \E q \in Requests :
                 /\ staffRequest[q] # Nobody /\ staffRequest'[q] = Nobody
                 /\ staffRequest[q].member = u /\ staffRequest[q].role # "owner"
  <1>0. ~UNCHANGED <<role, standing>>
    BY DEF Owns, Active
  <1>1. ASSUME NEW q \in Requests, AddStaffMember(q)
        PROVE  FALSE
    BY <1>0, <1>1 DEF AddStaffMember, TeamInv, TeamTypeOK, Owns, Active
  <1>2. ASSUME NEW q \in Requests, ChangeRole(q) \/ RevokeMembership(q)
        PROVE  /\ staffRequest[q] # Nobody /\ staffRequest'[q] = Nobody
               /\ staffRequest[q].member = u /\ staffRequest[q].role # "owner"
    <2>1. /\ staffRequest[q] # Nobody /\ Answered(q)
          /\ staffRequest[q].kind \in {"role", "revoke"}
      BY <1>2 DEF ChangeRole, RevokeMembership
    <2>2. staffRequest'[q] = Nobody /\ staffRequest[q].role # "owner"
      BY <2>1, AnsweredSeekers DEF TeamInv, RequestsChecked
    <2>3. staffRequest[q].member = u
      BY <1>2 DEF ChangeRole, RevokeMembership, Owns, Active, TeamInv, TeamTypeOK
    <2> QED
      BY <2>1, <2>2, <2>3
  <1>3. ASSUME NEW q \in Requests, ReactivateMembership(q)
        PROVE  FALSE
    BY <1>3 DEF ReactivateMembership, TeamInv, TeamTypeOK, Owns, Active
  <1>4. CASE AcceptTransfer
    <2>1. ~transfer.expired
      BY <1>0, <1>4 DEF AcceptTransfer
    <2> QED
      BY <1>4, <2>1, AcceptSound
  <1>5. ASSUME NEW v \in Users, NEW w \in Users, TransferOwnership(v, w)
        PROVE  Owns(w)'
    BY <1>5, TransferSound
  <1>6. ASSUME NEW v \in Users, NEW w \in Users, InitiateTransfer(v, w)
        PROVE  FALSE
    BY <1>0, <1>6 DEF InitiateTransfer
  <1>7. ~(Lapse \/ CancelTransfer)
    BY <1>0 DEF Lapse, CancelTransfer
  <1> QED
    BY <1>0, <1>1, <1>2, <1>3, <1>4, <1>5, <1>6, <1>7, ReadSound DEF TeamNext

\* The active owner stops being it only for another active owner, or for a
\* request that read the membership before it was the owner's.
THEOREM OwnerLeavesToOwner == TeamSpec => OwnerIsReplaced
  <1>1. TeamInv /\ [TeamNext]_teamVars =>
            [\A u \in Users : Owns(u) /\ ~Owns(u)' =>
                \/ \E v \in Users : Owns(v)'
                \/ \E q \in Requests :
                      /\ staffRequest[q] # Nobody /\ staffRequest'[q] = Nobody
                      /\ staffRequest[q].member = u /\ staffRequest[q].role # "owner"]_teamVars
    BY OwnerStep
  <1> QED
    BY <1>1, InitTeam, TeamStep, PTL DEF TeamSpec, OwnerIsReplaced

-----------------------------------------------------------------------------
(* The life of the store.                                                  *)

\* A store that is to be deleted is closed unless the platform wrote over it,
\* one that is not has no status to go back to; the deletion is due after the
\* retention; the wizard and the purge have read what they act on.
LifeInv ==
    /\ LifeTypeOK
    /\ ~Pending => store.status # "closed" /\ store.before = NoStatus
    /\ Pending /\ ~overruled => store.status = "closed"
    /\ Pending => store.requestedAt \in Nat /\ store.purgeAt = store.requestedAt + Retention
    /\ wizard # NoRequest => wizard.current = store.stage /\ wizard.completed # "done"
    /\ purging # NoRequest => /\ purging.requestedAt \in Nat
                              /\ purging.requestedAt + Retention <= today

\* The order of the wizard's stages.
LEMMA StagePositions ==
    /\ Position("identity") = 1 /\ StageOrder[2] = "industry"
    /\ Position("industry") = 2 /\ StageOrder[3] = "branding"
    /\ Position("branding") = 3 /\ StageOrder[4] = "review"
    /\ Position("review") = 4
  <1>1. /\ Len(StageOrder) = 4
        /\ StageOrder[1] = "identity" /\ StageOrder[2] = "industry"
        /\ StageOrder[3] = "branding" /\ StageOrder[4] = "review"
    BY DEF StageOrder
  <1>2. \A i \in 1..Len(StageOrder) : i \in {1, 2, 3, 4}
    BY <1>1
  <1> QED
    BY <1>1, <1>2 DEF Position

\* A stage that is saved leads to the next one.
LEMMA NextStage ==
    ASSUME NEW completed \in {"identity", "industry", "branding"}
    PROVE  /\ StageOrder[Position(completed) + 1] \in Stages \ {"done"}
           /\ Position(StageOrder[Position(completed) + 1]) = Position(completed) + 1
           /\ Position(completed) \in 1..3
  BY StagePositions DEF Stages

\* A visitor sees a store of which the status is active, the subscription
\* good and, where there is one, the owner has published.
LEMMA SeenIsPublished == LifeInv => LifeSound
  <1> SUFFICES ASSUME LifeInv PROVE LifeSound
    OBVIOUS
  <1>1. DeletionIsPrivate
    BY DEF LifeInv, DeletionIsPrivate, Visible, PublicationState, NonPublic
  <1>2. SeenWhenPublished
    BY DEF SeenWhenPublished, Visible, PublicationState, NonPublic, AccessStates
  <1> QED
    BY <1>1, <1>2 DEF LifeInv, LifeSound

\* A store is provisioned, nobody acts.
LEMMA InitLife == LifeInit => LifeInv
  <1> SUFFICES ASSUME LifeInit PROVE LifeInv
    OBVIOUS
  <1>1. store \in Stores /\ ~Pending /\ store.status = "active" /\ store.before = NoStatus
    BY DEF LifeInit, Stores, Stages, Pending
  <1>2. verdict = NoRequest /\ wizard = NoRequest /\ purging = NoRequest
    BY DEF LifeInit
  <1>3. today \in 0..MaxDay /\ acts \in 0..MaxActs /\ overruled = FALSE
    BY LifecycleNumbers DEF LifeInit
  <1> QED
    BY <1>1, <1>2, <1>3 DEF LifeInv, LifeTypeOK

\* The fields of a store.
LEMMA StoreFields ==
    ASSUME store \in Stores
    PROVE  /\ store.status \in {"active", "suspended", "closed"}
           /\ store.before \in {NoStatus, "active", "suspended"}
           /\ store.requestedAt \in Nat \cup {NoDay} /\ store.purgeAt \in Nat \cup {NoDay}
           /\ store.stage \in Stages /\ store.onboarded \in BOOLEAN
           /\ store.installed \in BOOLEAN /\ store.exists \in BOOLEAN
  BY DEF Stores

\* The owner asks for the deletion, or takes it back.
LEMMA DeletionSound ==
    ASSUME LifeInv, RequestDeletion \/ CancelDeletion
    PROVE  LifeInv'
  <1>1. store \in Stores /\ today \in Nat /\ today + Retention \in Nat
    BY LifecycleNumbers DEF LifeInv, LifeTypeOK
  <1>2. /\ UNCHANGED <<today, verdict, wizard, purging, acts>>
        /\ store'.stage = store.stage
    BY <1>1 DEF RequestDeletion, CancelDeletion, Stores
  <1>3. CASE RequestDeletion
    <2>1. store.status \in {"active", "suspended"}
      BY <1>1, <1>3, StoreFields DEF RequestDeletion, LifeInv
    <2>2. /\ store' \in Stores
          /\ store'.status = "closed" /\ store'.requestedAt = today
          /\ store'.purgeAt = today + Retention
      BY <1>1, <1>3, <2>1 DEF RequestDeletion, Stores
    <2>3. overruled' = overruled /\ today # NoDay
      BY <1>1, <1>3, LifecycleNumbers DEF RequestDeletion
    <2> QED
      BY <1>1, <1>2, <2>2, <2>3 DEF LifeInv, LifeTypeOK, Pending
  <1>4. CASE CancelDeletion
    <2>1. Restored(store) \in {"active", "suspended"}
      BY <1>1, StoreFields DEF Restored
    <2>2. /\ store' \in Stores
          /\ store'.status = Restored(store) /\ store'.requestedAt = NoDay
          /\ store'.before = NoStatus
      BY <1>1, <1>4, <2>1 DEF CancelDeletion, Stores
    <2>3. overruled' = FALSE
      BY <1>4 DEF CancelDeletion
    <2> QED
      BY <1>1, <1>2, <2>1, <2>2, <2>3 DEF LifeInv, LifeTypeOK, Pending
  <1> QED
    BY <1>3, <1>4

\* What the wizard, the platform and the purge leave of the deletion's dates.
LEMMA DatesStay ==
    ASSUME LifeInv, store' \in Stores,
           UNCHANGED <<store.requestedAt, store.purgeAt, store.before, store.status>>,
           UNCHANGED <<today, verdict, acts, overruled>>,
           wizard' = NoRequest \/ (wizard' = wizard /\ store'.stage = store.stage),
           purging' \in {purging, NoRequest}
    PROVE  LifeInv'
  BY DEF LifeInv, LifeTypeOK, Pending

\* The wizard saves a stage, or publishes.
LEMMA WizardSound ==
    ASSUME LifeInv, SaveStage \/ Publish
    PROVE  LifeInv'
  <1>1. store \in Stores /\ wizard # NoRequest /\ wizard' = NoRequest
    BY DEF LifeInv, LifeTypeOK, SaveStage, Publish
  <1>2. /\ store' \in Stores
        /\ UNCHANGED <<store.requestedAt, store.purgeAt, store.before, store.status>>
    <2>1. CASE Publish
      BY <1>1, <2>1 DEF Publish, Stores, Stages
    <2>2. CASE SaveStage
      <3>1. PICK install \in BOOLEAN :
              store' = IF ~store.exists \/ (install /\ store.installed) THEN store
                       ELSE [store EXCEPT
                               !.installed = @ \/ install,
                               !.stage = IF Advances(wizard.current, wizard.completed)
                                         THEN StageOrder[Position(wizard.completed) + 1]
                                         ELSE @]
        BY <2>2 DEF SaveStage
      <3>2. StageOrder[Position(wizard.completed) + 1] \in Stages
        BY <2>2, NextStage DEF SaveStage
      <3> QED
        BY <1>1, <3>1, <3>2 DEF Stores
    <2> QED
      BY <2>1, <2>2
  <1> QED
    BY <1>1, <1>2, DatesStay DEF SaveStage, Publish

\* The platform writes its verdict.
LEMMA VerdictSound ==
    ASSUME LifeInv, WriteVerdict
    PROVE  LifeInv'
  <1>1. /\ store \in Stores /\ verdict \in {"suspended", "active"} /\ overruled \in BOOLEAN
        /\ verdict' = NoRequest /\ overruled' = (overruled \/ Pending)
        /\ UNCHANGED <<today, wizard, purging, acts>>
    BY DEF LifeInv, LifeTypeOK, WriteVerdict
  <1>2. /\ store' \in Stores
        /\ store'.status \in {store.status, verdict}
        /\ UNCHANGED <<store.requestedAt, store.purgeAt, store.before, store.stage>>
    BY <1>1 DEF WriteVerdict, Stores
  <1> QED
    BY <1>1, <1>2 DEF LifeInv, LifeTypeOK, Pending

\* The purge deletes what it has listed.
LEMMA PurgeSound ==
    ASSUME LifeInv, ListDue \/ Purge
    PROVE  LifeInv'
  <1>1. CASE ListDue
    <2>1. /\ purging' = store /\ store.requestedAt \in Nat
          /\ store.requestedAt + Retention <= today
          /\ UNCHANGED <<today, store, verdict, wizard, acts, overruled>>
      BY <1>1 DEF ListDue, Due, LifeInv
    <2> QED
      BY <2>1 DEF LifeInv, LifeTypeOK, Pending
  <1>2. CASE Purge
    <2>1. PICK deleted \in BOOLEAN : store' = [store EXCEPT !.exists = ~deleted]
      BY <1>2 DEF Purge
    <2>2. store' \in Stores /\ store'.stage = store.stage
          /\ UNCHANGED <<store.requestedAt, store.purgeAt, store.before, store.status>>
      BY <2>1 DEF LifeInv, LifeTypeOK, Stores
    <2> QED
      BY <1>2, <2>2, DatesStay DEF Purge
  <1> QED
    BY <1>1, <1>2

\* Every step keeps the life sound.
LEMMA LifeStep ==
    ASSUME LifeInv, [LifeNext]_lifeVars
    PROVE  LifeInv'
  <1>1. ASSUME NEW s \in Stages \ {"done"}, PostStage(s)
        PROVE  LifeInv'
    BY <1>1 DEF PostStage, LifeInv, LifeTypeOK, Pending, Stores
  <1>2. ASSUME NEW to \in {"suspended", "active"}, Decide(to)
        PROVE  LifeInv'
    BY <1>2, LifecycleNumbers DEF Decide, LifeInv, LifeTypeOK, Pending
  <1>3. CASE NextDay
    BY <1>3, LifecycleNumbers DEF NextDay, LifeInv, LifeTypeOK, Pending
  <1>4. CASE UNCHANGED lifeVars
    BY <1>4 DEF lifeVars, LifeInv, LifeTypeOK, Pending
  <1> QED
    BY <1>1, <1>2, <1>3, <1>4, DeletionSound, WizardSound, VerdictSound, PurgeSound DEF LifeNext

\* Nobody sees a store that is to be deleted, and no one sees a store with a
\* subscription that its owner has not published.
THEOREM LifeIsSound == LifeSpec => []LifeSound
  BY InitLife, LifeStep, SeenIsPublished, PTL DEF LifeSpec

\* A suspension ends by the platform.
LEMMA SuspensionStep ==
    ASSUME LifeInv, LifeNext, store.status = "suspended" \/ store.before = "suspended"
    PROVE  \/ store'.status = "suspended" \/ store'.before = "suspended"
           \/ verdict = "active" /\ verdict' = NoRequest
           \/ overruled
  <1>1. store \in Stores /\ NoStatus # "suspended"
    BY DEF LifeInv, LifeTypeOK, NoStatus
  <1>2. CASE RequestDeletion
    BY <1>1, <1>2 DEF RequestDeletion, LifeInv, Stores
  <1>3. CASE CancelDeletion
    BY <1>1, <1>3 DEF CancelDeletion, LifeInv, Restored, Stores
  <1>4. CASE WriteVerdict
    BY <1>1, <1>4 DEF WriteVerdict, LifeInv, LifeTypeOK, Stores
  <1>5. CASE SaveStage \/ Publish \/ Purge
    BY <1>1, <1>5 DEF SaveStage, Publish, Purge, Stores
  <1>6. CASE UNCHANGED store
    BY <1>6
  <1> QED
    BY <1>2, <1>3, <1>4, <1>5, <1>6 DEF LifeNext, PostStage, Decide, ListDue, NextDay

\* A store is gone only after the retention.
LEMMA DeletionStep ==
    ASSUME LifeInv, LifeNext, store.exists, ~store'.exists
    PROVE  purging.requestedAt + Retention <= today
  <1>1. store \in Stores
    BY DEF LifeInv, LifeTypeOK
  <1>2. Purge
    BY <1>1 DEF LifeNext, RequestDeletion, CancelDeletion, PostStage, SaveStage, Publish,
                Decide, WriteVerdict, ListDue, NextDay, Stores
  <1> QED
    BY <1>2 DEF Purge, LifeInv

\* The wizard goes forward.
LEMMA WizardStep ==
    ASSUME LifeInv, LifeNext, store.stage # "done"
    PROVE  store'.stage = "done" \/ Position(store'.stage) >= Position(store.stage)
  <1>1. store \in Stores /\ store.stage \in Stages \ {"done"}
    BY DEF LifeInv, LifeTypeOK, Stores
  <1>2. \A s \in Stages \ {"done"} : Position(s) \in Nat
    BY StagePositions DEF Stages
  <1>3. CASE store'.stage = store.stage
    BY <1>1, <1>2, <1>3
  <1>4. CASE store'.stage # store.stage
    <2>1. SaveStage \/ Publish
      BY <1>1, <1>4 DEF LifeNext, RequestDeletion, CancelDeletion, PostStage, Decide,
                        WriteVerdict, ListDue, Purge, NextDay, Stores
    <2>2. CASE Publish
      BY <1>1, <1>4, <2>2 DEF Publish, Stores
    <2>3. CASE SaveStage
      <3>1. /\ wizard.completed \in {"identity", "industry", "branding"}
            /\ wizard.current = store.stage
        BY <2>3 DEF SaveStage, LifeInv
      <3>2. /\ store'.stage = StageOrder[Position(wizard.completed) + 1]
            /\ Advances(wizard.current, wizard.completed)
        BY <1>1, <1>4, <2>3 DEF SaveStage, Stores
      <3>3. Position(wizard.completed) >= Position(store.stage)
        BY <1>1, <3>1, <3>2 DEF Advances
      <3> QED
        BY <1>1, <1>2, <3>1, <3>2, <3>3, NextStage
    <2> QED
      BY <2>1, <2>2, <2>3
  <1> QED
    BY <1>3, <1>4

\* Only the platform lifts a suspension, a store is deleted only when its
\* retention is over, and the wizard never moves back.
THEOREM LifeTakesItsSteps == LifeSpec => LifeSteps
  <1>1. LifeInv /\ [LifeNext]_lifeVars =>
            [store.status = "suspended" \/ store.before = "suspended" =>
                \/ store'.status = "suspended" \/ store'.before = "suspended"
                \/ verdict = "active" /\ verdict' = NoRequest
                \/ overruled]_lifeVars
    BY SuspensionStep
  <1>2. LifeInv /\ [LifeNext]_lifeVars =>
            [store.exists /\ ~store'.exists =>
                purging.requestedAt + Retention <= today]_lifeVars
    BY DeletionStep
  <1>3. LifeInv /\ [LifeNext]_lifeVars =>
            [store.stage # "done" =>
                store'.stage = "done" \/ Position(store'.stage) >= Position(store.stage)]_lifeVars
    BY WizardStep
  <1> QED
    BY <1>1, <1>2, <1>3, InitLife, LifeStep, PTL
    DEF LifeSpec, LifeSteps, SuspensionHolds, DeletedAfterRetention, WizardForward

-----------------------------------------------------------------------------
(* The hostnames.                                                          *)

\* A primary hostname routes; a token is issued before a row is pending.
RowsKept ==
    \A h \in Hosts : Exists(h) =>
        /\ domain[h].primary => domain[h].verification = "verified" /\ ~domain[h].retired
        /\ domain[h].verification = "pending" => domain[h].token # 0

\* What is known of a custom domain was so once.
CustomsShown ==
    \A c \in Customs : Exists(c) =>
        /\ domain[c].verification = "verified" => txt[c] # 0
        /\ domain[c].ready => domain[c].checkedAt <= lastReached[c]

\* What the requests in flight are about to write is true, or was.
AskedShown ==
    \A r \in asked :
        /\ r.kind \in {"verify", "readiness"} => Exists(r.host)
        /\ r.kind = "verify" => txt[r.host] # 0
        /\ r.kind = "readiness" /\ r.ready => r.at <= lastReached[r.host]

\* The clock does not run behind the network.
ReachedBefore ==
    \A c \in Customs : lastReached[c] <= clock /\ (reachable[c] => lastReached[c] = clock)

\* There is exactly one primary hostname.
OnePrimary == \E h \in Hosts : Primary(h) /\ \A other \in Hosts : Primary(other) => other = h

\* What makes DomainsSound inductive.
DomainInv ==
    DomainTypeOK /\ OnePrimary /\ RowsKept /\ CustomsShown /\ AskedShown /\ ReachedBefore

\* The primary hostname is one that routes.
LEMMA DomainInvSound == DomainInv => DomainsSound
  <1> SUFFICES ASSUME DomainInv PROVE DomainsSound
    OBVIOUS
  <1>1. OnePrimaryRoutes
    BY DEF DomainInv, OnePrimary, RowsKept, OnePrimaryRoutes, Primary, Routes
  <1>2. VerifiedWasShown
    BY DEF DomainInv, CustomsShown, VerifiedWasShown
  <1> QED
    BY <1>1, <1>2 DEF DomainInv, DomainsSound

\* The bounds are numbers, and the kinds of hostnames do not overlap.
LEMMA DomainFacts ==
    /\ MaxAge \in Nat /\ MaxClock \in Nat /\ MaxTokens \in Nat
    /\ Labels \subseteq Hosts /\ Customs \subseteq Hosts /\ Trial \in Hosts
    /\ \A c \in Customs : c \notin Labels /\ c # Trial
    /\ Verified \in Rows /\ Verified.primary /\ ~Verified.retired
    /\ Verified.verification = "verified" /\ ~Verified.ready
    /\ NoRow \notin Rows
  BY DomainsAreNamed, NoRowIsNone DEF Hosts, Verified, Rows, Times

\* A row that exists is a row.
LEMMA RowFields ==
    ASSUME DomainTypeOK, NEW h \in Hosts, Exists(h)
    PROVE  /\ domain[h] \in Rows
           /\ domain[h].primary \in BOOLEAN /\ domain[h].retired \in BOOLEAN
           /\ domain[h].verification \in {"unverified", "pending", "verified"}
           /\ domain[h].token \in 0..MaxTokens /\ domain[h].ready \in BOOLEAN
           /\ domain[h].checkedAt \in Times
  BY DEF DomainTypeOK, Exists, Rows

\* The trial name comes first.
LEMMA InitDomains == ASSUME DomainInit PROVE DomainInv
  <1>1. /\ \A h \in Hosts : Exists(h) <=> h = Trial
        /\ domain[Trial] = Verified /\ asked = {} /\ clock = 0
    BY DomainFacts DEF DomainInit, Exists
  <1>2. DomainTypeOK
    BY DomainFacts DEF DomainInit, DomainTypeOK
  <1>3. OnePrimary
    BY <1>1, DomainFacts DEF OnePrimary, Primary
  <1>4. RowsKept /\ CustomsShown /\ AskedShown
    BY <1>1, DomainFacts DEF RowsKept, CustomsShown, AskedShown
  <1>5. ReachedBefore
    BY DomainFacts DEF DomainInit, ReachedBefore
  <1> QED
    BY <1>2, <1>3, <1>4, <1>5 DEF DomainInv

\* A request is sent, with what was found.
LEMMA AskSound ==
    ASSUME DomainInv, NEW r \in Asked, Ask(r),
           r.kind \in {"verify", "readiness"} => Exists(r.host),
           r.kind = "verify" => txt[r.host] # 0,
           r.kind = "readiness" /\ r.ready => r.at <= lastReached[r.host]
    PROVE  DomainInv'
  <1>1. asked' = asked \cup {r} /\ UNCHANGED <<clock, domain, txt, reachable, lastReached>>
    BY DEF Ask
  <1>2. DomainTypeOK'
    BY <1>1 DEF DomainInv, DomainTypeOK
  <1>3. AskedShown'
    BY <1>1 DEF DomainInv, AskedShown, Exists
  <1>4. OnePrimary' /\ RowsKept' /\ CustomsShown' /\ ReachedBefore'
    BY <1>1 DEF DomainInv, OnePrimary, Primary, RowsKept, CustomsShown, ReachedBefore, Exists
  <1> QED
    BY <1>2, <1>3, <1>4 DEF DomainInv

\* The row of a hostname is written, its flags left alone.
LEMMA RowWritten ==
    ASSUME DomainInv, NEW h \in Hosts, Exists(h), NEW row \in Rows, row # NoRow,
           domain' = [domain EXCEPT ![h] = row],
           UNCHANGED <<clock, txt, reachable, lastReached>>, asked' \subseteq asked,
           row.primary = domain[h].primary, row.retired = domain[h].retired,
           row.primary => row.verification = "verified",
           row.verification = "pending" => row.token # 0,
           h \in Customs /\ row.verification = "verified" => txt[h] # 0,
           h \in Customs /\ row.ready => row.checkedAt <= lastReached[h]
    PROVE  DomainInv'
  <1>1. /\ domain'[h] = row /\ \A g \in Hosts \ {h} : domain'[g] = domain[g]
        /\ \A g \in Hosts : Exists(g)' <=> Exists(g)
    BY DEF DomainInv, DomainTypeOK, Exists
  <1>2. DomainTypeOK'
    BY DEF DomainInv, DomainTypeOK
  <1>3. OnePrimary'
    <2>1. \A g \in Hosts : Primary(g)' <=> Primary(g)
      BY <1>1 DEF Primary
    <2> QED
      BY <2>1 DEF DomainInv, OnePrimary
  <1>4. RowsKept'
    BY <1>1 DEF DomainInv, RowsKept
  <1>5. CustomsShown'
    BY <1>1, DomainFacts DEF DomainInv, CustomsShown
  <1>6. AskedShown'
    <2> SUFFICES ASSUME NEW r \in asked
                 PROVE  /\ r.kind \in {"verify", "readiness"} => Exists(r.host)'
                        /\ r.kind = "verify" => txt'[r.host] # 0
                        /\ r.kind = "readiness" /\ r.ready => r.at <= lastReached'[r.host]
      BY DEF AskedShown
    <2>1. r.kind \in {"verify", "readiness"} => r.host \in Hosts
      BY DomainFacts DEF DomainInv, DomainTypeOK, Asked
    <2> QED
      BY <1>1, <2>1 DEF DomainInv, AskedShown
  <1>7. ReachedBefore'
    BY DEF DomainInv, ReachedBefore
  <1> QED
    BY <1>2, <1>3, <1>4, <1>5, <1>6, <1>7 DEF DomainInv

\* A permanent name becomes the primary one.
LEMMA NamePrimary ==
    ASSUME DomainInv, NEW l \in Labels, ~Exists(l), domain' = NewPrimary(l),
           UNCHANGED <<clock, txt, reachable, lastReached>>, asked' \subseteq asked
    PROVE  DomainInv'
  <1> DEFINE Retired(row) == [row EXCEPT !.primary = FALSE, !.retired = TRUE]
  <1>0. l \in Hosts /\ l \notin Customs
    BY DomainFacts
  <1>1. /\ domain'[l] = Verified
        /\ \A h \in Hosts \ {l} :
              domain'[h] = IF Primary(h) THEN Retired(domain[h]) ELSE domain[h]
    BY <1>0 DEF NewPrimary
  <1>2. ASSUME NEW row \in Rows
        PROVE  /\ Retired(row) \in Rows /\ ~Retired(row).primary
               /\ Retired(row).verification = row.verification
               /\ Retired(row).token = row.token /\ Retired(row).ready = row.ready
               /\ Retired(row).checkedAt = row.checkedAt
    BY DEF Rows
  <1> HIDE DEF Retired
  <1>3. \A h \in Hosts \ {l} : Exists(h) =>
            /\ domain'[h] \in Rows /\ Exists(h)'
            /\ domain'[h].primary = FALSE
            /\ domain'[h].verification = domain[h].verification
            /\ domain'[h].token = domain[h].token /\ domain'[h].ready = domain[h].ready
            /\ domain'[h].checkedAt = domain[h].checkedAt
    <2> SUFFICES ASSUME NEW h \in Hosts \ {l}, Exists(h)
                 PROVE  /\ domain'[h] \in Rows /\ domain'[h] # NoRow
                        /\ domain'[h].primary = FALSE
                        /\ domain'[h].verification = domain[h].verification
                        /\ domain'[h].token = domain[h].token
                        /\ domain'[h].ready = domain[h].ready
                        /\ domain'[h].checkedAt = domain[h].checkedAt
      BY DEF Exists
    <2>1. domain[h] \in Rows /\ domain[h].primary \in BOOLEAN
      BY RowFields DEF DomainInv
    <2>2. CASE Primary(h)
      BY <1>1, <1>2, <2>1, <2>2, DomainFacts
    <2>3. CASE ~Primary(h)
      BY <1>1, <2>1, <2>3, DomainFacts DEF Primary
    <2> QED
      BY <2>2, <2>3
  <1>4. \A h \in Hosts \ {l} : ~Exists(h) => ~Exists(h)' /\ domain'[h] = NoRow
    BY <1>1 DEF Primary, Exists
  <1>5. DomainTypeOK'
    <2>1. domain' \in [Hosts -> Rows \cup {NoRow}]
      <3>1. domain' = [h \in Hosts |-> domain'[h]]
        BY DEF NewPrimary
      <3>2. \A h \in Hosts : domain'[h] \in Rows \cup {NoRow}
        BY <1>1, <1>3, <1>4, DomainFacts
      <3> QED
        BY <3>1, <3>2
    <2> QED
      BY <2>1 DEF DomainInv, DomainTypeOK
  <1>6. OnePrimary'
    BY <1>0, <1>1, <1>3, <1>4, DomainFacts DEF OnePrimary, Primary, Exists
  <1>7. RowsKept'
    BY <1>1, <1>3, <1>4, DomainFacts DEF DomainInv, RowsKept
  <1>8. CustomsShown'
    BY <1>0, <1>3, <1>4, DomainFacts DEF DomainInv, CustomsShown
  <1>9. AskedShown'
    <2> SUFFICES ASSUME NEW r \in asked
                 PROVE  /\ r.kind \in {"verify", "readiness"} => Exists(r.host)'
                        /\ r.kind = "verify" => txt'[r.host] # 0
                        /\ r.kind = "readiness" /\ r.ready => r.at <= lastReached'[r.host]
      BY DEF AskedShown
    <2>1. r.kind \in {"verify", "readiness"} => r.host \in Hosts \ {l}
      BY <1>0, DomainFacts DEF DomainInv, DomainTypeOK, Asked
    <2> QED
      BY <1>3, <2>1 DEF DomainInv, AskedShown
  <1>10. ReachedBefore'
    BY DEF DomainInv, ReachedBefore
  <1> QED
    BY <1>5, <1>6, <1>7, <1>8, <1>9, <1>10 DEF DomainInv

\* A custom domain is put in front.
LEMMA ActivateSound ==
    ASSUME DomainInv, NEW c \in Customs, Activate(c)
    PROVE  DomainInv'
  <1> DEFINE Shown(row) == [row EXCEPT !.primary = TRUE]
             Behind(row, gone) == [row EXCEPT !.primary = FALSE, !.retired = gone]
  <1>0. c \in Hosts /\ Exists(c) /\ domain[c] \in Rows
        /\ domain[c].verification = "verified" /\ domain' = Activated(c)
        /\ UNCHANGED <<clock, txt, reachable, lastReached, asked>>
    BY DomainFacts, RowFields DEF Activate, DomainInv
  <1>1. /\ domain'[c] = Shown(domain[c])
        /\ \A h \in Hosts \ {c} :
              domain'[h] = IF Primary(h) THEN Behind(domain[h], h \notin Labels)
                           ELSE domain[h]
    BY <1>0 DEF Activated
  <1>2. ASSUME NEW row \in Rows, NEW gone \in BOOLEAN
        PROVE  /\ Behind(row, gone) \in Rows /\ ~Behind(row, gone).primary
               /\ Behind(row, gone).verification = row.verification
               /\ Behind(row, gone).token = row.token
               /\ Behind(row, gone).ready = row.ready
               /\ Behind(row, gone).checkedAt = row.checkedAt
               /\ Shown(row) \in Rows /\ Shown(row).primary
               /\ Shown(row).retired = row.retired
               /\ Shown(row).verification = row.verification
               /\ Shown(row).token = row.token /\ Shown(row).ready = row.ready
               /\ Shown(row).checkedAt = row.checkedAt
    BY DEF Rows
  <1> HIDE DEF Shown, Behind
  <1>3. /\ domain'[c] \in Rows /\ domain'[c].primary /\ Exists(c)'
        /\ domain'[c].retired = FALSE
        /\ domain'[c].verification = "verified"
        /\ domain'[c].ready = domain[c].ready
        /\ domain'[c].checkedAt = domain[c].checkedAt
    <2>1. domain'[c].retired = domain[c].retired
      BY <1>0, <1>1, <1>2
    <2>2. domain'[c] = Activated(c)[c]
      BY <1>0
    <2>3. ~(domain'[c].primary /\ domain'[c].retired)
      BY <2>2 DEF Activate, Accepted
    <2>4. /\ domain'[c] \in Rows /\ domain'[c].primary
          /\ domain'[c].verification = "verified"
          /\ domain'[c].ready = domain[c].ready
          /\ domain'[c].checkedAt = domain[c].checkedAt
      BY <1>0, <1>1, <1>2
    <2>5. domain[c].retired \in BOOLEAN
      BY <1>0, RowFields DEF DomainInv
    <2>6. Exists(c)'
      BY <2>4, DomainFacts DEF Exists
    <2> QED
      BY <2>1, <2>3, <2>4, <2>5, <2>6
  <1>4. \A h \in Hosts \ {c} : Exists(h) =>
            /\ domain'[h] \in Rows /\ Exists(h)'
            /\ domain'[h].primary = FALSE
            /\ domain'[h].verification = domain[h].verification
            /\ domain'[h].token = domain[h].token /\ domain'[h].ready = domain[h].ready
            /\ domain'[h].checkedAt = domain[h].checkedAt
    <2> SUFFICES ASSUME NEW h \in Hosts \ {c}, Exists(h)
                 PROVE  /\ domain'[h] \in Rows /\ domain'[h] # NoRow
                        /\ domain'[h].primary = FALSE
                        /\ domain'[h].verification = domain[h].verification
                        /\ domain'[h].token = domain[h].token
                        /\ domain'[h].ready = domain[h].ready
                        /\ domain'[h].checkedAt = domain[h].checkedAt
      BY DEF Exists
    <2>1. domain[h] \in Rows /\ domain[h].primary \in BOOLEAN
      BY RowFields DEF DomainInv
    <2>2. CASE Primary(h)
      <3> DEFINE gone == h \notin Labels
      <3>1. gone \in BOOLEAN /\ domain'[h] = Behind(domain[h], gone)
        BY <1>1, <2>2
      <3> HIDE DEF gone
      <3> QED
        BY <1>2, <2>1, <3>1, DomainFacts
    <2>3. CASE ~Primary(h)
      BY <1>1, <2>1, <2>3, DomainFacts DEF Primary
    <2> QED
      BY <2>2, <2>3
  <1>5. \A h \in Hosts \ {c} : ~Exists(h) => ~Exists(h)' /\ domain'[h] = NoRow
    BY <1>1 DEF Primary, Exists
  <1>6. DomainTypeOK'
    <2>1. domain' \in [Hosts -> Rows \cup {NoRow}]
      <3>1. domain' = [h \in Hosts |-> domain'[h]]
        BY <1>0 DEF Activated
      <3>2. \A h \in Hosts : domain'[h] \in Rows \cup {NoRow}
        BY <1>3, <1>4, <1>5
      <3> QED
        BY <3>1, <3>2
    <2> QED
      BY <1>0, <2>1 DEF DomainInv, DomainTypeOK
  <1>7. OnePrimary'
    BY <1>0, <1>3, <1>4, <1>5 DEF OnePrimary, Primary, Exists
  <1>8. RowsKept'
    BY <1>3, <1>4, <1>5 DEF DomainInv, RowsKept
  <1>9. CustomsShown'
    BY <1>0, <1>3, <1>4, <1>5, DomainFacts DEF DomainInv, CustomsShown
  <1>10. AskedShown'
    <2> SUFFICES ASSUME NEW r \in asked
                 PROVE  /\ r.kind \in {"verify", "readiness"} => Exists(r.host)'
                        /\ r.kind = "verify" => txt'[r.host] # 0
                        /\ r.kind = "readiness" /\ r.ready => r.at <= lastReached'[r.host]
      BY <1>0 DEF AskedShown
    <2>1. r.kind \in {"verify", "readiness"} => r.host \in Hosts
      BY <1>0, DomainFacts DEF DomainInv, DomainTypeOK, Asked
    <2> QED
      BY <1>0, <1>3, <1>4, <2>1 DEF DomainInv, AskedShown
  <1>11. ReachedBefore'
    BY <1>0 DEF DomainInv, ReachedBefore
  <1> QED
    BY <1>6, <1>7, <1>8, <1>9, <1>10, <1>11 DEF DomainInv

\* A custom domain is entered.
LEMMA CustomAdded ==
    ASSUME DomainInv, NEW c \in Customs, RequestCustom(c)
    PROVE  DomainInv'
  <1> DEFINE fresh == [Verified EXCEPT !.primary = FALSE, !.verification = "unverified"]
  <1>0. /\ fresh \in Rows /\ fresh.primary = FALSE /\ fresh.retired = FALSE
        /\ fresh.verification = "unverified" /\ fresh.ready = FALSE
    BY DomainFacts DEF Verified, Rows
  <1>1. /\ ~Exists(c) /\ domain' = [domain EXCEPT ![c] = fresh]
        /\ UNCHANGED <<clock, txt, reachable, lastReached, asked>>
    BY DEF RequestCustom
  <1> HIDE DEF fresh
  <1>2. /\ c \in Hosts /\ domain'[c] = fresh /\ Exists(c)'
        /\ \A h \in Hosts \ {c} : domain'[h] = domain[h]
    BY <1>0, <1>1, DomainFacts DEF DomainInv, DomainTypeOK, Exists
  <1>3. DomainTypeOK'
    BY <1>0, <1>1 DEF DomainInv, DomainTypeOK
  <1>4. OnePrimary'
    <2>1. \A h \in Hosts : Primary(h)' <=> Primary(h)
      BY <1>0, <1>1, <1>2 DEF Primary, Exists
    <2> QED
      BY <2>1 DEF DomainInv, OnePrimary
  <1>5. RowsKept'
    BY <1>0, <1>2 DEF DomainInv, RowsKept, Exists
  <1>6. CustomsShown'
    BY <1>0, <1>1, <1>2, DomainFacts DEF DomainInv, CustomsShown, Exists
  <1>7. AskedShown'
    <2>1. \A h \in Hosts : Exists(h) => Exists(h)'
      BY <1>2 DEF Exists
    <2>2. \A r \in asked : r.kind \in {"verify", "readiness"} => r.host \in Hosts
      BY DomainFacts DEF DomainInv, DomainTypeOK, Asked
    <2> QED
      BY <1>1, <2>1, <2>2 DEF DomainInv, AskedShown
  <1>8. ReachedBefore'
    BY <1>1 DEF DomainInv, ReachedBefore
  <1> QED
    BY <1>3, <1>4, <1>5, <1>6, <1>7, <1>8 DEF DomainInv

\* A token is issued.
LEMMA TokenIssued ==
    ASSUME DomainInv, NEW c \in Customs, BeginVerification(c)
    PROVE  DomainInv'
  <1> DEFINE next == domain[c].token + 1
             row == [domain[c] EXCEPT !.token = next, !.verification = "pending"]
  <1>1. /\ c \in Hosts /\ Exists(c) /\ domain[c] \in Rows
        /\ domain[c].verification # "verified" /\ domain[c].token < MaxTokens
        /\ domain[c].token \in 0..MaxTokens
        /\ UNCHANGED <<clock, txt, reachable, lastReached, asked>>
    BY DomainFacts, RowFields DEF BeginVerification, DomainInv
  <1>3. domain' = [domain EXCEPT ![c] = row]
    BY <1>1 DEF BeginVerification, DomainInv, DomainTypeOK
  <1>7. next \in 0..MaxTokens /\ next # 0
    BY <1>1, DomainFacts
  <1> HIDE DEF next
  <1>2. /\ row \in Rows /\ row.primary = domain[c].primary
        /\ row.retired = domain[c].retired /\ row.verification = "pending"
        /\ row.token = next /\ row.ready = domain[c].ready
        /\ row.checkedAt = domain[c].checkedAt
    BY <1>1, <1>7 DEF Rows
  <1> HIDE DEF row
  <1>4. row # NoRow /\ row.token # 0
    BY <1>2, <1>7, DomainFacts
  <1>5. ~domain[c].primary
    BY <1>1 DEF DomainInv, RowsKept
  <1>6. row.ready => row.checkedAt <= lastReached[c]
    BY <1>1, <1>2 DEF DomainInv, CustomsShown
  <1> QED
    BY <1>1, <1>2, <1>3, <1>4, <1>5, <1>6, RowWritten

\* A verification is written.
LEMMA VerifySound ==
    ASSUME DomainInv, NEW r \in asked, Verify(r)
    PROVE  DomainInv'
  <1> DEFINE c == r.host
             row == [domain[c] EXCEPT !.verification = "verified"]
  <1>0. r \in Asked /\ r.kind = "verify"
    BY DEF Verify, DomainInv, DomainTypeOK
  <1>1. c \in Customs /\ c \in Hosts
    BY <1>0, DomainFacts DEF Asked
  <1>2. Exists(c) /\ txt[c] # 0
    BY <1>0 DEF DomainInv, AskedShown
  <1>3. /\ domain[c] \in Rows
        /\ UNCHANGED <<clock, txt, reachable, lastReached>> /\ asked' \subseteq asked
    BY <1>1, <1>2, RowFields DEF Verify, DomainInv
  <1>4. /\ row \in Rows /\ row.primary = domain[c].primary
        /\ row.retired = domain[c].retired /\ row.verification = "verified"
        /\ row.ready = domain[c].ready /\ row.checkedAt = domain[c].checkedAt
    BY <1>3 DEF Rows
  <1>5. domain' = [domain EXCEPT ![c] = row]
    BY <1>1, <1>3 DEF Verify, DomainInv, DomainTypeOK
  <1> HIDE DEF row, c
  <1>6. row # NoRow
    BY <1>4, DomainFacts
  <1>7. row.ready => row.checkedAt <= lastReached[c]
    BY <1>1, <1>2, <1>4 DEF DomainInv, CustomsShown
  <1> QED
    BY <1>1, <1>2, <1>3, <1>4, <1>5, <1>6, <1>7, RowWritten

\* The answers of a readiness check are written.
LEMMA ReadinessSound ==
    ASSUME DomainInv, NEW r \in asked, WriteReadiness(r)
    PROVE  DomainInv'
  <1> DEFINE c == r.host
             row == [domain[c] EXCEPT !.ready = r.ready, !.checkedAt = r.at]
  <1>0. r \in Asked /\ r.kind = "readiness"
    BY DEF WriteReadiness, DomainInv, DomainTypeOK
  <1>1. c \in Customs /\ c \in Hosts /\ r.ready \in BOOLEAN /\ r.at \in Times
    BY <1>0, DomainFacts DEF Asked
  <1>2. Exists(c) /\ (r.ready => r.at <= lastReached[c])
    BY <1>0 DEF DomainInv, AskedShown
  <1>3. /\ domain[c] \in Rows
        /\ domain[c].verification \in {"unverified", "pending", "verified"}
        /\ UNCHANGED <<clock, txt, reachable, lastReached>> /\ asked' \subseteq asked
    BY <1>1, <1>2, RowFields DEF WriteReadiness, DomainInv
  <1>4. /\ row \in Rows /\ row.primary = domain[c].primary
        /\ row.retired = domain[c].retired
        /\ row.verification = domain[c].verification /\ row.token = domain[c].token
        /\ row.ready = r.ready /\ row.checkedAt = r.at
    BY <1>1, <1>3 DEF Rows
  <1>5. domain' = [domain EXCEPT ![c] = row]
    BY <1>1, <1>3 DEF WriteReadiness, DomainInv, DomainTypeOK
  <1> HIDE DEF row, c
  <1>6. row # NoRow
    BY <1>4, DomainFacts
  <1>7. /\ row.primary => row.verification = "verified"
        /\ row.verification = "pending" => row.token # 0
        /\ row.verification = "verified" => txt[c] # 0
    BY <1>1, <1>2, <1>4 DEF DomainInv, RowsKept, CustomsShown
  <1> QED
    BY <1>1, <1>2, <1>3, <1>4, <1>5, <1>6, <1>7, RowWritten

\* The network moves on.
LEMMA NetworkSound ==
    ASSUME DomainInv,
           \/ \E c \in Customs : PublishTxt(c) \/ Connect(c) \/ Disconnect(c)
           \/ Pass
    PROVE  DomainInv'
  <1> DEFINE Moved ==
               /\ clock' \in 0..MaxClock /\ clock' \in {clock, clock + 1}
               /\ txt' \in [Customs -> 0..MaxTokens]
               /\ reachable' \in [Customs -> BOOLEAN]
               /\ lastReached' \in [Customs -> (-1 - MaxAge)..MaxClock]
               /\ \A c \in Customs : txt[c] # 0 => txt'[c] # 0
               /\ \A c \in Customs : lastReached[c] <= lastReached'[c]
               /\ ReachedBefore'
  <1>0. /\ domain' = domain /\ asked' = asked
        /\ clock \in 0..MaxClock /\ asked \subseteq Asked
        /\ txt \in [Customs -> 0..MaxTokens] /\ reachable \in [Customs -> BOOLEAN]
        /\ lastReached \in [Customs -> (-1 - MaxAge)..MaxClock]
    BY DEF DomainInv, DomainTypeOK, PublishTxt, Connect, Disconnect, Pass
  <1>1. Moved
    <2>1. CASE Pass
      <3>1. /\ clock < MaxClock /\ clock' = clock + 1 /\ txt' = txt /\ reachable' = reachable
            /\ lastReached' = [c \in Customs |-> IF reachable[c] THEN clock + 1
                                                 ELSE lastReached[c]]
        BY <2>1 DEF Pass
      <3>2. \A c \in Customs : lastReached[c] <= clock
        BY DEF DomainInv, ReachedBefore
      <3>3. \A c \in Customs : lastReached'[c] =
                                  IF reachable[c] THEN clock + 1 ELSE lastReached[c]
        BY <3>1
      <3>4. lastReached' \in [Customs -> (-1 - MaxAge)..MaxClock]
        BY <1>0, <3>1, DomainFacts
      <3>5. \A c \in Customs : lastReached[c] \in Int
        BY <1>0, DomainFacts
      <3>6. ReachedBefore'
        BY <1>0, <3>1, <3>2, <3>3, <3>5 DEF ReachedBefore
      <3>7. \A c \in Customs : lastReached[c] <= lastReached'[c]
        BY <1>0, <3>2, <3>3, <3>5
      <3> QED
        BY <1>0, <3>1, <3>4, <3>6, <3>7, DomainFacts
    <2>2. ASSUME NEW c \in Customs, PublishTxt(c)
          PROVE  Moved
      <3>1. /\ Exists(c) /\ domain[c].token > txt[c]
            /\ txt' = [txt EXCEPT ![c] = domain[c].token]
            /\ UNCHANGED <<clock, reachable, lastReached>>
        BY <2>2 DEF PublishTxt
      <3>2. domain[c].token \in 0..MaxTokens
        BY <3>1, RowFields, DomainFacts DEF DomainInv
      <3>3. domain[c].token # 0
        BY <1>0, <3>1, <3>2, DomainFacts
      <3>4. /\ txt' \in [Customs -> 0..MaxTokens]
            /\ \A d \in Customs : txt[d] # 0 => txt'[d] # 0
        BY <1>0, <3>1, <3>2, <3>3
      <3>5. \A d \in Customs : lastReached[d] <= lastReached'[d]
        BY <1>0, <3>1, DomainFacts
      <3>6. ReachedBefore'
        BY <3>1 DEF DomainInv, ReachedBefore
      <3> QED
        BY <1>0, <3>1, <3>4, <3>5, <3>6
    <2>3. ASSUME NEW c \in Customs, Connect(c) \/ Disconnect(c)
          PROVE  Moved
      <3>1. /\ clock' = clock /\ txt' = txt
            /\ \/ reachable' = [reachable EXCEPT ![c] = TRUE]
                  /\ lastReached' = [lastReached EXCEPT ![c] = clock]
               \/ reachable' = [reachable EXCEPT ![c] = FALSE]
                  /\ lastReached' = lastReached
        BY <2>3 DEF Connect, Disconnect
      <3>2. \A d \in Customs : /\ lastReached[d] <= clock /\ lastReached[d] \in Int
                               /\ reachable[d] => lastReached[d] = clock
        BY <1>0, DomainFacts DEF DomainInv, ReachedBefore
      <3>5. clock \in (-1 - MaxAge)..MaxClock
        BY <1>0, DomainFacts
      <3>3. /\ reachable' \in [Customs -> BOOLEAN]
            /\ lastReached' \in [Customs -> (-1 - MaxAge)..MaxClock]
        BY <1>0, <3>1, <3>5
      <3>4. /\ ReachedBefore'
            /\ \A d \in Customs : lastReached[d] <= lastReached'[d]
        BY <1>0, <3>1, <3>2 DEF ReachedBefore
      <3> QED
        BY <1>0, <3>1, <3>3, <3>4
    <2> HIDE DEF Moved
    <2> QED
      BY <2>1, <2>2, <2>3
  <1>2. DomainTypeOK'
    BY <1>0, <1>1 DEF DomainInv, DomainTypeOK
  <1>3. OnePrimary' /\ RowsKept'
    BY <1>0 DEF DomainInv, OnePrimary, RowsKept, Primary, Exists
  <1>4. \A c \in Customs, n \in Times : n <= lastReached[c] => n <= lastReached'[c]
    <2>1. \A c \in Customs : lastReached[c] \in Int /\ lastReached'[c] \in Int
      BY <1>0, <1>1, DomainFacts
    <2> QED
      BY <1>1, <2>1 DEF Times
  <1>5. CustomsShown'
    <2>1. \A c \in Customs : Exists(c) => domain[c].checkedAt \in Times
      BY RowFields, DomainFacts DEF DomainInv
    <2> QED
      BY <1>0, <1>1, <1>4, <2>1 DEF DomainInv, CustomsShown, Exists
  <1>6. AskedShown'
    <2> SUFFICES ASSUME NEW r \in asked
                 PROVE  /\ r.kind \in {"verify", "readiness"} => Exists(r.host)'
                        /\ r.kind = "verify" => txt'[r.host] # 0
                        /\ r.kind = "readiness" /\ r.ready => r.at <= lastReached'[r.host]
      BY <1>0 DEF AskedShown
    <2>1. /\ r.kind \in {"verify", "readiness"} => r.host \in Customs
          /\ r.kind = "readiness" => r.at \in Times
      BY <1>0 DEF Asked
    <2> QED
      BY <1>0, <1>1, <1>4, <2>1 DEF DomainInv, AskedShown, Exists
  <1> QED
    BY <1>1, <1>2, <1>3, <1>5, <1>6 DEF DomainInv

\* Every step of the hostnames keeps the invariant.
LEMMA DomainStep == ASSUME DomainInv, [DomainNext]_domainVars PROVE DomainInv'
  <1>1. ASSUME NEW l \in Labels, AskClaim(l) PROVE DomainInv'
    <2> DEFINE r == [kind |-> "claim", host |-> l]
    <2>1. r \in Asked /\ Ask(r) /\ r.kind = "claim"
      BY <1>1 DEF AskClaim, Asked
    <2> HIDE DEF r
    <2> QED
      BY <2>1, AskSound
  <1>2. ASSUME NEW l \in Labels, Rename(l) PROVE DomainInv'
    BY <1>2, NamePrimary DEF Rename
  <1>3. ASSUME NEW c \in Customs, AskVerification(c) PROVE DomainInv'
    <2> DEFINE r == [kind |-> "verify", host |-> c, token |-> txt[c]]
    <2>1. c \in Hosts /\ Exists(c) /\ RecordsMatch(c)
      BY <1>3, DomainFacts DEF AskVerification
    <2>2. txt[c] # 0
      BY <2>1 DEF RecordsMatch, DomainInv, RowsKept
    <2>3. r \in Asked /\ Ask(r) /\ r.kind = "verify" /\ r.host = c
      BY <1>3 DEF AskVerification, Asked, DomainInv, DomainTypeOK
    <2> HIDE DEF r
    <2> QED
      BY <2>1, <2>2, <2>3, AskSound
  <1>4. ASSUME NEW c \in Customs, AskReadiness(c) PROVE DomainInv'
    <2> DEFINE r == [kind |-> "readiness", host |-> c, ready |-> reachable[c],
                     at |-> clock]
    <2>1. Exists(c) /\ clock \in Times
      BY <1>4, DomainFacts DEF AskReadiness, DomainInv, DomainTypeOK, Times
    <2>2. /\ r \in Asked /\ Ask(r) /\ r.kind = "readiness" /\ r.host = c
          /\ r.ready = reachable[c] /\ r.at = clock
      BY <1>4, <2>1 DEF AskReadiness, Asked, DomainInv, DomainTypeOK
    <2>3. reachable[c] => clock <= lastReached[c]
      BY <2>1, DomainFacts DEF DomainInv, ReachedBefore, Times
    <2> HIDE DEF r
    <2> QED
      BY <2>1, <2>2, <2>3, AskSound
  <1>5. ASSUME NEW r \in asked, Claim(r) PROVE DomainInv'
    <2>1. /\ r.host \in Labels /\ UNCHANGED <<clock, txt, reachable, lastReached>>
          /\ asked' \subseteq asked
      BY <1>5 DEF Claim, DomainInv, DomainTypeOK, Asked
    <2>2. CASE Exists(r.host)
      <3>1. domain' = domain
        BY <1>5, <2>2 DEF Claim
      <3>2. DomainTypeOK' /\ AskedShown'
        BY <2>1, <3>1 DEF DomainInv, DomainTypeOK, AskedShown, Exists
      <3>3. OnePrimary' /\ RowsKept' /\ CustomsShown' /\ ReachedBefore'
        BY <2>1, <3>1
           DEF DomainInv, OnePrimary, RowsKept, CustomsShown, ReachedBefore, Primary, Exists
      <3> QED
        BY <3>2, <3>3 DEF DomainInv
    <2>3. CASE ~Exists(r.host)
      <3>1. domain' = NewPrimary(r.host)
        BY <1>5, <2>3 DEF Claim
      <3> QED
        BY <2>1, <2>3, <3>1, NamePrimary
    <2> QED
      BY <2>2, <2>3
  <1>6. CASE UNCHANGED domainVars
    BY <1>6 DEF domainVars, DomainInv, DomainTypeOK, OnePrimary, RowsKept, CustomsShown,
                AskedShown, ReachedBefore, Primary, Exists
  <1>7. ASSUME DomainNext PROVE DomainInv'
    BY <1>1, <1>2, <1>3, <1>4, <1>5, <1>7, CustomAdded, TokenIssued, ActivateSound,
       VerifySound, ReadinessSound, NetworkSound DEF DomainNext
  <1> QED
    BY <1>6, <1>7

\* The invariant holds in every behaviour of the hostnames.
LEMMA DomainsHold == DomainSpec => []DomainInv
  <1> QED
    BY InitDomains, DomainStep, PTL DEF DomainSpec

\* A store always has exactly one primary hostname, and that one routes; a custom
\* domain is verified only after its DNS has carried a token issued for it.
THEOREM DomainsAreSound == DomainSpec => []DomainsSound
  <1> QED
    BY DomainsHold, DomainInvSound, PTL

\* How the rows change in a step: a name that was retired stays so, a name becomes
\* primary by a claim, a rename or an activation.
LEMMA RowSteps ==
    ASSUME DomainInv, DomainNext
    PROVE  \/ domain' = domain
           \/ \E l \in Labels : ~Exists(l) /\ domain' = NewPrimary(l)
           \/ \E c \in Customs : Activate(c)
           \/ \E h \in Customs :
                 /\ h \in Hosts /\ \A g \in Hosts \ {h} : domain'[g] = domain[g]
                 /\ domain'[h] \in Rows
                 /\ ~Exists(h) => ~domain'[h].primary
                 /\ Exists(h) => /\ domain'[h].primary = domain[h].primary
                                 /\ domain'[h].retired = domain[h].retired
  <1>1. CASE \E c \in Customs : RequestCustom(c)
    <2>1. PICK c \in Customs : RequestCustom(c)
      BY <1>1
    <2> DEFINE fresh == [Verified EXCEPT !.primary = FALSE, !.verification = "unverified"]
    <2>2. fresh \in Rows /\ fresh.primary = FALSE
      BY DomainFacts DEF Verified, Rows
    <2>3. ~Exists(c) /\ domain' = [domain EXCEPT ![c] = fresh]
      BY <2>1 DEF RequestCustom
    <2> HIDE DEF fresh
    <2>4. c \in Hosts /\ domain'[c] = fresh /\ \A g \in Hosts \ {c} : domain'[g] = domain[g]
      BY <2>3, DomainFacts DEF DomainInv, DomainTypeOK
    <2> QED
      BY <2>2, <2>3, <2>4
  <1>2. CASE \E c \in Customs : BeginVerification(c)
    <2>1. PICK c \in Customs : BeginVerification(c)
      BY <1>2
    <2>2. /\ c \in Hosts /\ Exists(c) /\ domain[c] \in Rows
          /\ domain[c].token \in 0..MaxTokens /\ domain[c].token < MaxTokens
          /\ domain' = [domain EXCEPT ![c].token = @ + 1, ![c].verification = "pending"]
      BY <2>1, DomainFacts, RowFields DEF BeginVerification, DomainInv
    <2>3. /\ domain'[c] = [domain[c] EXCEPT !.token = @ + 1, !.verification = "pending"]
          /\ \A g \in Hosts \ {c} : domain'[g] = domain[g]
      BY <2>2 DEF DomainInv, DomainTypeOK
    <2> DEFINE next == domain[c].token + 1
    <2>5. next \in 0..MaxTokens
      BY <2>2, DomainFacts
    <2>6. domain'[c] = [domain[c] EXCEPT !.token = next, !.verification = "pending"]
      BY <2>3
    <2> HIDE DEF next
    <2>7. domain[c] \in Rows
      BY <2>2
    <2>4. /\ domain'[c] \in Rows /\ domain'[c].primary = domain[c].primary
          /\ domain'[c].retired = domain[c].retired
      BY <2>5, <2>6, <2>7 DEF Rows
    <2> QED
      BY <2>2, <2>3, <2>4
  <1>3. CASE \E r \in asked : Verify(r)
    <2>1. PICK r \in asked : Verify(r)
      BY <1>3
    <2>2. r \in Asked /\ r.kind = "verify"
      BY <2>1 DEF Verify, DomainInv, DomainTypeOK
    <2>3. /\ r.host \in Customs /\ r.host \in Hosts /\ Exists(r.host)
          /\ domain' = [domain EXCEPT ![r.host].verification = "verified"]
      BY <2>1, <2>2, DomainFacts DEF Asked, Verify, DomainInv, AskedShown
    <2> DEFINE h == r.host
    <2>4. /\ domain'[h] = [domain[h] EXCEPT !.verification = "verified"]
          /\ \A g \in Hosts \ {h} : domain'[g] = domain[g]
      BY <2>3 DEF DomainInv, DomainTypeOK
    <2>5. domain[h] \in Rows
      BY <2>3, RowFields DEF DomainInv
    <2>6. /\ domain'[h] \in Rows /\ domain'[h].primary = domain[h].primary
          /\ domain'[h].retired = domain[h].retired
      BY <2>4, <2>5 DEF Rows
    <2> QED
      BY <2>3, <2>4, <2>6
  <1>4. CASE \E r \in asked : WriteReadiness(r)
    <2>1. PICK r \in asked : WriteReadiness(r)
      BY <1>4
    <2>2. r \in Asked /\ r.kind = "readiness"
      BY <2>1 DEF WriteReadiness, DomainInv, DomainTypeOK
    <2>3. /\ r.host \in Customs /\ r.host \in Hosts /\ Exists(r.host)
          /\ r.ready \in BOOLEAN /\ r.at \in Times
          /\ domain' = [domain EXCEPT ![r.host].ready = r.ready,
                                      ![r.host].checkedAt = r.at]
      BY <2>1, <2>2, DomainFacts DEF Asked, WriteReadiness, DomainInv, AskedShown
    <2> DEFINE h == r.host
    <2>4. /\ domain'[h] = [domain[h] EXCEPT !.ready = r.ready, !.checkedAt = r.at]
          /\ \A g \in Hosts \ {h} : domain'[g] = domain[g]
      BY <2>3 DEF DomainInv, DomainTypeOK
    <2>5. domain[h] \in Rows /\ r.ready \in BOOLEAN /\ r.at \in Times
      BY <2>3, RowFields DEF DomainInv
    <2>6. /\ domain'[h] \in Rows /\ domain'[h].primary = domain[h].primary
          /\ domain'[h].retired = domain[h].retired
      <3>1. domain'[h] = [domain[h] EXCEPT !.ready = r.ready, !.checkedAt = r.at]
        BY <2>4
      <3> HIDE DEF h
      <3> QED
        BY <2>5, <3>1 DEF Rows
    <2> QED
      BY <2>3, <2>4, <2>6
  <1>5. CASE \E r \in asked : Claim(r)
    BY <1>5 DEF Claim, DomainInv, DomainTypeOK, Asked
  <1>6. CASE \E l \in Labels : Rename(l)
    BY <1>6 DEF Rename
  <1>7. CASE \/ \E l \in Labels : AskClaim(l)
             \/ \E c \in Customs : AskVerification(c) \/ AskReadiness(c)
             \/ \E c \in Customs : PublishTxt(c) \/ Connect(c) \/ Disconnect(c)
             \/ Pass
    BY <1>7 DEF AskClaim, AskVerification, AskReadiness, Ask, PublishTxt, Connect,
                Disconnect, Pass
  <1> QED
    BY <1>1, <1>2, <1>3, <1>4, <1>5, <1>6, <1>7 DEF DomainNext

\* What no claim, check or activation may do to a hostname: a custom domain becomes
\* primary only if it led to the platform within the time a check is good for, a
\* retired name never routes again, and a permanent name goes out of service only
\* for another one.
THEOREM DomainsTakeTheirSteps == DomainSpec => DomainSteps
  <1> DEFINE Reached == \A c \in Customs : ~Primary(c) /\ Primary(c)' =>
                            clock - lastReached[c] <= MaxAge
             Retired == \A h \in Hosts : Exists(h) /\ domain[h].retired => ~Routes(h)'
             Stays == \A l \in Labels : Routes(l) /\ ~Routes(l)' =>
                          \E new \in Labels : ~Exists(new) /\ Exists(new)'
  <1>1. ASSUME DomainInv, DomainNext PROVE Reached
    <2> SUFFICES ASSUME NEW c \in Customs, ~Primary(c), Primary(c)'
                 PROVE  clock - lastReached[c] <= MaxAge
      OBVIOUS
    <2>0. c \in Hosts /\ c \notin Labels
      BY DomainFacts
    <2>1. ASSUME NEW d \in Customs, Activate(d) PROVE clock - lastReached[c] <= MaxAge
      <3>1. d = c
        <4>1. SUFFICES ASSUME d # c PROVE FALSE
          OBVIOUS
        <4>2. domain'[c] = domain[c]
          BY <2>0, <2>1, <4>1 DEF Activate, Activated
        <4> QED
          BY <4>2 DEF Primary, Exists
      <3>2. /\ Exists(c) /\ domain[c].ready /\ clock - domain[c].checkedAt <= MaxAge
            /\ domain[c].checkedAt <= lastReached[c]
        BY <1>1, <2>1, <3>1 DEF Activate, Ready, DomainInv, CustomsShown
      <3>3. clock \in Int /\ lastReached[c] \in Int /\ domain[c].checkedAt \in Int
        BY <1>1, <2>0, <3>2, RowFields, DomainFacts DEF DomainInv, DomainTypeOK, Times
      <3> QED
        BY <3>2, <3>3, DomainFacts
    <2>2. CASE domain' = domain
      BY <2>2 DEF Primary, Exists
    <2>3. ASSUME NEW l \in Labels, domain' = NewPrimary(l) PROVE FALSE
      <3>1. domain'[c] = domain[c]
        BY <2>0, <2>3 DEF NewPrimary
      <3> QED
        BY <3>1 DEF Primary, Exists
    <2>4. ASSUME NEW h \in Customs,
                 \A g \in Hosts \ {h} : domain'[g] = domain[g],
                 ~Exists(h) => ~domain'[h].primary,
                 Exists(h) => domain'[h].primary = domain[h].primary
          PROVE  FALSE
      BY <2>0, <2>4 DEF Primary, Exists
    <2> QED
      BY <1>1, <2>1, <2>2, <2>3, <2>4, RowSteps
  <1>2. ASSUME DomainInv, DomainNext PROVE Retired
    <2> SUFFICES ASSUME NEW h \in Hosts, Exists(h), domain[h].retired PROVE ~Routes(h)'
      OBVIOUS
    <2>1. domain[h] \in Rows /\ ~Primary(h)
      BY <1>2, RowFields DEF DomainInv, RowsKept, Primary
    <2>2. ASSUME NEW d \in Customs, Activate(d) PROVE ~Routes(h)'
      <3>1. CASE h = d
        <4>1. Activated(d)[d] = [domain[d] EXCEPT !.primary = TRUE]
          BY <2>2, <3>1 DEF Activated
        <4>2. Activated(d)[d].primary /\ Activated(d)[d].retired
          BY <2>1, <3>1, <4>1 DEF Rows
        <4> QED
          BY <2>2, <4>2 DEF Activate, Accepted
      <3>2. CASE h # d
        <4>1. domain'[h] = domain[h]
          BY <2>1, <2>2, <3>2 DEF Activate, Activated
        <4> QED
          BY <4>1 DEF Routes, Exists
      <3> QED
        BY <3>1, <3>2
    <2>3. ASSUME NEW l \in Labels, ~Exists(l), domain' = NewPrimary(l) PROVE ~Routes(h)'
      <3>1. domain'[h] = domain[h]
        BY <2>1, <2>3 DEF NewPrimary
      <3> QED
        BY <3>1 DEF Routes, Exists
    <2>4. CASE domain' = domain
      BY <2>4 DEF Routes, Exists
    <2>5. ASSUME NEW g \in Customs,
                 \A f \in Hosts \ {g} : domain'[f] = domain[f],
                 Exists(g) => domain'[g].retired = domain[g].retired
          PROVE  ~Routes(h)'
      BY <2>5 DEF Routes, Exists
    <2> QED
      BY <1>2, <2>2, <2>3, <2>4, <2>5, RowSteps
  <1>3. ASSUME DomainInv, DomainNext PROVE Stays
    <2> SUFFICES ASSUME NEW l \in Labels, Routes(l), ~Routes(l)'
                 PROVE  \E new \in Labels : ~Exists(new) /\ Exists(new)'
      OBVIOUS
    <2>0. l \in Hosts /\ l \notin Customs /\ domain[l] \in Rows
      BY <1>3, RowFields, DomainFacts DEF DomainInv, Routes
    <2>1. ASSUME NEW d \in Customs, Activate(d) PROVE FALSE
      <3>0. l # d /\ domain' = Activated(d)
        BY <2>0, <2>1 DEF Activate
      <3>1. CASE Primary(l)
        <4>1. domain'[l] = [domain[l] EXCEPT !.primary = FALSE, !.retired = FALSE]
          BY <2>0, <3>0, <3>1 DEF Activated
        <4>2. domain'[l] \in Rows /\ domain'[l].retired = FALSE
              /\ domain'[l].verification = domain[l].verification
          BY <2>0, <4>1 DEF Rows
        <4> QED
          BY <4>2, DomainFacts DEF Routes, Exists
      <3>2. CASE ~Primary(l)
        <4>1. domain'[l] = domain[l]
          BY <2>0, <3>0, <3>2 DEF Activated
        <4> QED
          BY <4>1 DEF Routes, Exists
      <3> QED
        BY <3>1, <3>2
    <2>2. ASSUME NEW new \in Labels, ~Exists(new), domain' = NewPrimary(new)
          PROVE  Exists(new)'
      BY <2>2, DomainFacts DEF NewPrimary, Exists
    <2>3. CASE domain' = domain
      BY <2>3 DEF Routes, Exists
    <2>4. ASSUME NEW g \in Customs, \A f \in Hosts \ {g} : domain'[f] = domain[f]
          PROVE  FALSE
      BY <2>0, <2>4 DEF Routes, Exists
    <2> QED
      BY <1>3, <2>1, <2>2, <2>3, <2>4, RowSteps
  <1>4. ASSUME DomainInv, UNCHANGED domainVars PROVE Reached /\ Retired /\ Stays
    <2>1. domain' = domain
      BY <1>4 DEF domainVars
    <2>2. \A h \in Hosts : (Primary(h)' <=> Primary(h)) /\ (Routes(h)' <=> Routes(h))
      BY <2>1 DEF Primary, Routes, Exists
    <2> QED
      BY <2>2, DomainFacts DEF Routes
  <1>5. DomainInv /\ [DomainNext]_domainVars
            => [Reached]_domainVars /\ [Retired]_domainVars /\ [Stays]_domainVars
    BY <1>1, <1>2, <1>3
  <1>6. DomainSpec => [][Reached]_domainVars /\ [][Retired]_domainVars /\ [][Stays]_domainVars
    <2> HIDE DEF Reached, Retired, Stays
    <2> QED
      BY <1>5, DomainsHold, PTL DEF DomainSpec
  <1> QED
    BY <1>6 DEF DomainSteps, ActivatedWasReachable, RetiredForGood, HandleStays

-----------------------------------------------------------------------------
(* The requests.                                                           *)

\* What a browser remembers was proven, and a request that found a store found an
\* open one.
VisitsProven ==
    /\ \A l \in Labels : remembered[l] # NoVisit =>
          Exists(remembered[l]) /\ domain[remembered[l]].verification = "verified"
    /\ visit # NoVisit => /\ visit.found => visit.open
                          /\ visit.step = "page" => visit.open

\* What makes RoutingSound inductive, over what is known of the hostnames and of
\* the life of the store.
RoutingInv == DomainInv /\ LifeInv /\ RoutingTypeOK /\ VisitsProven

\* The link of the store is a hostname that leads to it; there is one as soon as a
\* hostname may be routed, and a custom domain that is primary is preferred.
LEMMA StorefrontUrlFacts ==
    /\ \A h \in StorefrontUrl : h \in Hosts /\ Eligible(h)
    /\ ~Debug => /\ (\E h \in Hosts : Eligible(h)) => StorefrontUrl # {}
                 /\ \A c \in Customs : Eligible(c) /\ Primary(c) => c \in StorefrontUrl
  <1> DEFINE kinds == <<Customs, Labels, {Trial}>>
             of(k) == {h \in kinds[k] : Eligible(h) /\ Openable(h)}
             best == {k \in 1..3 : of(k) # {} /\ \A j \in 1..(k - 1) : of(j) = {}}
             urls == IF best = {} THEN {} ELSE UNION {of(k) : k \in best}
  <1>1. StorefrontUrl = IF \E h \in urls : Primary(h) THEN {h \in urls : Primary(h)} ELSE urls
    BY DEF StorefrontUrl
  <1>2. kinds[1] = Customs /\ kinds[2] = Labels /\ kinds[3] = {Trial}
    OBVIOUS
  <1>3. /\ of(1) = {h \in Customs : Eligible(h) /\ Openable(h)}
        /\ of(2) = {h \in Labels : Eligible(h) /\ Openable(h)}
        /\ of(3) = {h \in {Trial} : Eligible(h) /\ Openable(h)}
    BY <1>2
  <1>4. 1 \in best <=> of(1) # {}
    <2>1. 1..(1 - 1) = {} /\ 1 \in 1..3
      OBVIOUS
    <2> HIDE DEF of
    <2> QED
      BY <2>1
  <1>5. 2 \in best <=> of(2) # {} /\ of(1) = {}
    <2>1. 1..(2 - 1) = {1} /\ 2 \in 1..3
      OBVIOUS
    <2> HIDE DEF of
    <2> QED
      BY <2>1
  <1>6. 3 \in best <=> of(3) # {} /\ of(1) = {} /\ of(2) = {}
    <2>1. 1..(3 - 1) = {1, 2} /\ 3 \in 1..3
      OBVIOUS
    <2> HIDE DEF of
    <2> QED
      BY <2>1
  <1>7. \A k \in best : k = 1 \/ k = 2 \/ k = 3
    OBVIOUS
  <1>8. urls = UNION {of(k) : k \in best}
    <2> HIDE DEF of, best
    <2> QED
      OBVIOUS
  <1> HIDE DEF of, best, urls
  <1>9. \A h : h \in urls <=> \E k \in best : h \in of(k)
    BY <1>8
  <1>10. \A h \in urls : h \in Hosts /\ Eligible(h)
    BY <1>3, <1>7, <1>9, DomainFacts
  <1>11. \A h \in StorefrontUrl : h \in Hosts /\ Eligible(h)
    BY <1>1, <1>10
  <1>12. ASSUME ~Debug, NEW h \in Hosts, Eligible(h) PROVE StorefrontUrl # {}
    <2>1. Openable(h)
      BY <1>12 DEF Openable
    <2>2. h \in of(1) \/ h \in of(2) \/ h \in of(3)
      BY <1>3, <1>12, <2>1 DEF Hosts
    <2>3. \E k \in best : of(k) # {}
      BY <1>4, <1>5, <1>6, <2>2
    <2>4. urls # {}
      BY <1>9, <2>3
    <2> QED
      BY <1>1, <2>4
  <1>13. ASSUME ~Debug, NEW c \in Customs, Eligible(c), Primary(c) PROVE c \in StorefrontUrl
    <2>1. c \in of(1)
      BY <1>3, <1>13 DEF Openable
    <2>2. c \in urls
      BY <1>4, <1>9, <2>1
    <2> QED
      BY <1>1, <1>13, <2>2
  <1> QED
    BY <1>11, <1>12, <1>13

\* The canonical redirect of a permanent name goes to a primary custom domain that
\* routes.
LEMMA CanonicalFacts ==
    ASSUME NEW h, Canonical(h) # NoVisit
    PROVE  h \in Labels /\ Canonical(h) \in Customs
           /\ Primary(Canonical(h)) /\ Routes(Canonical(h))
  BY DEF Canonical

\* A development host is none of the store's.
LEMMA RoutingFacts ==
    /\ \A h \in Hosts : h # Development /\ (Resolves(h) <=> Eligible(h))
    /\ \A c \in Customs : c \in Hosts /\ c \in Addresses /\ c \notin Labels /\ c # NoVisit
    /\ Development \in Addresses /\ Hosts \subseteq Addresses
  BY VisitsAreNamed, DomainFacts DEF Resolves, Addresses

\* The invariant makes the requests sound.
LEMMA RoutingInvSound == RoutingInv => RoutingSound
  <1> SUFFICES ASSUME RoutingInv PROVE RoutingSound
    OBVIOUS
  <1>1. LinkLeadsHome
    <2>1. \A h \in StorefrontUrl : Resolves(h)
      BY StorefrontUrlFacts, RoutingFacts
    <2>2. \E h \in Hosts : Routes(h)
      BY DomainInvSound DEF RoutingInv, DomainsSound, OnePrimaryRoutes
    <2>3. store.exists /\ store.status = "active" /\ ~Debug => StorefrontUrl # {}
      BY <2>2, StorefrontUrlFacts DEF Eligible
    <2> QED
      BY <2>1, <2>3 DEF LinkLeadsHome
  <1>2. RedirectEnds
    <2> SUFFICES ASSUME NEW h \in Addresses, Canonical(h) # NoVisit, Eligible(h)
                 PROVE  /\ Resolves(Canonical(h)) /\ Canonical(Canonical(h)) = NoVisit
                        /\ ~Debug => Canonical(h) \in StorefrontUrl
      BY DEF RedirectEnds
    <2> DEFINE c == Canonical(h)
    <2>1. c \in Customs /\ Primary(c) /\ Routes(c)
      BY CanonicalFacts
    <2>2. Eligible(c)
      BY <2>1 DEF Eligible
    <2> HIDE DEF c
    <2>3. Canonical(c) = NoVisit
      BY <2>1, RoutingFacts DEF Canonical
    <2>4. Resolves(c) /\ (~Debug => c \in StorefrontUrl)
      BY <2>1, <2>2, RoutingFacts, StorefrontUrlFacts
    <2> QED
      BY <2>3, <2>4 DEF c
  <1>3. RememberedWasGood
    <2> SUFFICES ASSUME NEW l \in Labels, remembered[l] # NoVisit
                 PROVE  \/ Resolves(remembered[l])
                        \/ domain[remembered[l]].retired
                        \/ ~store.exists \/ store.status # "active"
      BY DEF RememberedWasGood
    <2>1. /\ Exists(remembered[l]) /\ domain[remembered[l]].verification = "verified"
          /\ remembered[l] \in Customs
      BY DEF RoutingInv, VisitsProven, RoutingTypeOK
    <2> QED
      BY <2>1, RoutingFacts DEF Eligible, Routes
  <1>4. PagesOfOpenStores
    BY DEF RoutingInv, VisitsProven, PagesOfOpenStores
  <1> QED
    BY <1>1, <1>2, <1>3, <1>4 DEF RoutingInv, RoutingSound

\* Nothing is asked for yet.
LEMMA InitRouting == ASSUME RoutingInit PROVE RoutingInv
  <1>1. DomainInv /\ LifeInv
    BY InitDomains, InitLife DEF RoutingInit
  <1>2. RoutingTypeOK /\ VisitsProven
    BY DEF RoutingInit, RoutingTypeOK, VisitsProven
  <1> QED
    BY <1>1, <1>2 DEF RoutingInv

\* A verified hostname stays one.
LEMMA VerifiedStays ==
    ASSUME DomainInv, DomainNext, NEW h \in Hosts, Exists(h),
           domain[h].verification = "verified"
    PROVE  Exists(h)' /\ domain'[h].verification = "verified"
  <1>0. domain[h] \in Rows
    BY RowFields DEF DomainInv
  <1>1. ASSUME NEW c \in Customs, RequestCustom(c) PROVE domain'[h] = domain[h]
    BY <1>1 DEF RequestCustom, DomainInv, DomainTypeOK, Exists
  <1>2. ASSUME NEW c \in Customs, BeginVerification(c) PROVE domain'[h] = domain[h]
    BY <1>2 DEF BeginVerification, DomainInv, DomainTypeOK
  <1>3. ASSUME NEW c \in Customs, Activate(c)
        PROVE  domain'[h] \in Rows /\ domain'[h].verification = "verified"
    BY <1>0, <1>3 DEF Activate, Activated, Rows
  <1>4. ASSUME NEW l \in Labels, ~Exists(l), domain' = NewPrimary(l)
        PROVE  domain'[h] \in Rows /\ domain'[h].verification = "verified"
    BY <1>0, <1>4, DomainFacts DEF NewPrimary, Rows
  <1>5. ASSUME NEW r \in asked, Verify(r)
        PROVE  domain'[h] \in Rows /\ domain'[h].verification = "verified"
    BY <1>0, <1>5 DEF Verify, DomainInv, DomainTypeOK, Rows
  <1>6. ASSUME NEW r \in asked, WriteReadiness(r)
        PROVE  domain'[h] \in Rows /\ domain'[h].verification = "verified"
    <2>1. r \in Asked /\ r.kind = "readiness"
      BY <1>6 DEF WriteReadiness, DomainInv, DomainTypeOK
    <2>2. r.ready \in BOOLEAN /\ r.at \in Times
      BY <2>1 DEF Asked
    <2>3. domain' = [domain EXCEPT ![r.host].ready = r.ready, ![r.host].checkedAt = r.at]
      BY <1>6 DEF WriteReadiness
    <2>4. CASE h = r.host
      <3>1. domain'[h] = [domain[h] EXCEPT !.ready = r.ready, !.checkedAt = r.at]
        BY <2>3, <2>4 DEF DomainInv, DomainTypeOK
      <3> QED
        BY <1>0, <2>2, <3>1 DEF Rows
    <2>5. CASE h # r.host
      BY <1>0, <2>3, <2>5 DEF DomainInv, DomainTypeOK
    <2> QED
      BY <2>4, <2>5
  <1>7. ASSUME NEW r \in asked, Claim(r)
        PROVE  domain'[h] \in Rows /\ domain'[h].verification = "verified"
    <2>1. r.host \in Labels
      BY <1>7 DEF Claim, DomainInv, DomainTypeOK, Asked
    <2> QED
      BY <1>0, <1>4, <1>7, <2>1 DEF Claim
  <1>8. ASSUME NEW l \in Labels, Rename(l)
        PROVE  domain'[h] \in Rows /\ domain'[h].verification = "verified"
    BY <1>4, <1>8 DEF Rename
  <1>9. ASSUME \/ \E l \in Labels : AskClaim(l)
               \/ \E c \in Customs : AskVerification(c) \/ AskReadiness(c)
               \/ \E c \in Customs : PublishTxt(c) \/ Connect(c) \/ Disconnect(c)
               \/ Pass
        PROVE  domain'[h] = domain[h]
    BY <1>9 DEF AskClaim, AskVerification, AskReadiness, Ask, PublishTxt, Connect,
                Disconnect, Pass
  <1>10. domain'[h] \in Rows /\ domain'[h].verification = "verified"
    BY <1>0, <1>1, <1>2, <1>3, <1>5, <1>6, <1>7, <1>8, <1>9 DEF DomainNext
  <1> QED
    BY <1>10, DomainFacts DEF Exists

\* Every step of the hostnames, of the store and of the requests keeps the
\* invariant.
LEMMA RoutingStep == ASSUME RoutingInv, [RoutingNext]_routingVars PROVE RoutingInv'
  <1> USE DEF RoutingInv
  <1>0. /\ visit \in Visits \cup {NoVisit}
        /\ remembered \in [Labels -> Customs \cup {NoVisit}]
        /\ store.status \in {"active", "suspended", "closed"}
        /\ store.onboarded \in BOOLEAN /\ store.exists \in BOOLEAN
    BY DEF RoutingTypeOK, LifeInv, LifeTypeOK, Stores
  <1>1. CASE DomainNext /\ UNCHANGED <<lifeVars, visit, remembered>>
    <2>1. DomainInv' /\ LifeInv'
      BY <1>1, DomainStep, LifeStep
    <2>2. \A l \in Labels : remembered[l] # NoVisit =>
             Exists(remembered[l])' /\ domain'[remembered[l]].verification = "verified"
      <3> SUFFICES ASSUME NEW l \in Labels, remembered[l] # NoVisit
                   PROVE  Exists(remembered[l])'
                          /\ domain'[remembered[l]].verification = "verified"
        OBVIOUS
      <3> DEFINE h == remembered[l]
      <3>1. h \in Hosts /\ Exists(h) /\ domain[h].verification = "verified"
        BY <1>0, RoutingFacts DEF VisitsProven
      <3>2. remembered' = remembered
        BY <1>1
      <3>3. domain'[h] # NoRow /\ domain'[h].verification = "verified"
        <4> HIDE DEF h
        <4> QED
          BY <1>1, <3>1, VerifiedStays DEF Exists
      <3> QED
        BY <3>2, <3>3 DEF Exists
    <2>3. RoutingTypeOK' /\ VisitsProven'
      BY <1>0, <1>1, <2>2 DEF RoutingTypeOK, VisitsProven, Exists
    <2> QED
      BY <2>1, <2>3
  <1>2. CASE LifeNext /\ UNCHANGED <<domainVars, visit, remembered>>
    <2>1. DomainInv' /\ LifeInv'
      BY <1>2, DomainStep, LifeStep
    <2>2. domain' = domain
      BY <1>2 DEF domainVars
    <2> QED
      BY <1>0, <1>2, <2>1, <2>2 DEF RoutingTypeOK, VisitsProven, Exists
  <1>3. ASSUME UNCHANGED <<domainVars, lifeVars>>
        PROVE  DomainInv' /\ LifeInv' /\ domain' = domain
    BY <1>3, DomainStep, LifeStep DEF domainVars
  <1>4. ASSUME NEW h \in Addresses, Arrive(h) PROVE RoutingInv'
    <2> DEFINE d == Destination(h)
    <2>1. d \in Addresses
      BY <1>0, RoutingFacts DEF Destination
    <2>2. Resolves(d) \in BOOLEAN /\ (Resolves(d) => store.exists /\ store.status = "active")
      BY DEF Resolves, CompatibilityStore, Eligible
    <2>3. (store.exists /\ store.status = "active") \in BOOLEAN
      OBVIOUS
    <2> HIDE DEF d
    <2>4. visit' = [host |-> d, found |-> Resolves(d), status |-> store.status,
                    onboarded |-> store.onboarded,
                    open |-> store.exists /\ store.status = "active", step |-> "resolved"]
      BY <1>4 DEF Arrive, d
    <2>5. /\ visit' \in Visits /\ visit'.found = Resolves(d) /\ visit'.step = "resolved"
          /\ visit'.open = (store.exists /\ store.status = "active")
      BY <1>0, <2>1, <2>2, <2>3, <2>4 DEF Visits
    <2>6. RoutingTypeOK'
      BY <1>0, <1>4, <2>5 DEF Arrive, RoutingTypeOK
    <2>7. VisitsProven'
      BY <1>3, <1>4, <2>2, <2>5 DEF Arrive, VisitsProven, Exists
    <2> QED
      BY <1>3, <1>4, <2>6, <2>7 DEF Arrive
  <1>5. ASSUME NEW path \in {"public", "admin"}, Redirect(path) PROVE RoutingInv'
    <2> DEFINE l == visit.host
               c == Canonical(l)
    <2>1. /\ l \in Labels /\ c \in Customs /\ Routes(c)
      BY <1>5, CanonicalFacts DEF Redirect
    <2>2. /\ visit' = NoVisit /\ remembered' = [remembered EXCEPT ![l] = c]
          /\ UNCHANGED <<domainVars, lifeVars>>
      BY <1>5 DEF Redirect
    <2> HIDE DEF l, c
    <2>3. RoutingTypeOK'
      BY <1>0, <2>1, <2>2 DEF RoutingTypeOK
    <2>4. VisitsProven'
      BY <1>0, <1>3, <2>1, <2>2 DEF VisitsProven, Routes, Exists
    <2> QED
      BY <1>3, <2>2, <2>3, <2>4
  <1>6. ASSUME NEW path \in {"public", "admin"}, PassOn(path) PROVE RoutingInv'
    <2>1. /\ visit \in Visits /\ visit' = [visit EXCEPT !.step = "local"]
          /\ UNCHANGED <<domainVars, lifeVars, remembered>>
      BY <1>0, <1>6 DEF PassOn
    <2>2. /\ visit' \in Visits /\ visit'.step = "local" /\ visit'.found = visit.found
          /\ visit'.open = visit.open
      BY <2>1 DEF Visits
    <2>3. visit # NoVisit /\ (visit.found => visit.open)
      BY <1>6 DEF PassOn, VisitsProven
    <2>4. RoutingTypeOK'
      BY <1>0, <2>1, <2>2 DEF RoutingTypeOK
    <2>5. VisitsProven'
      BY <1>3, <2>1, <2>2, <2>3 DEF VisitsProven, Exists
    <2> QED
      BY <1>3, <2>1, <2>4, <2>5
  <1>7. ASSUME NEW access \in AccessStates, Answer(access) PROVE RoutingInv'
    <2>1. /\ visit \in Visits /\ visit # NoVisit
          /\ UNCHANGED <<domainVars, lifeVars, remembered>>
      BY <1>0, <1>7 DEF Answer
    <2>2. PICK o \in BOOLEAN, s \in {"missing", "page", "refused"} :
             /\ visit' = [visit EXCEPT !.open = o, !.step = s]
             /\ o = (IF visit.found THEN visit.open ELSE TRUE)
      <3>1. (IF visit.found THEN visit.open ELSE TRUE) \in BOOLEAN
        BY <2>1 DEF Visits
      <3> QED
        BY <1>7, <3>1 DEF Answer
    <2>3. visit.found => visit.open
      BY <2>1 DEF VisitsProven
    <2>4. o = TRUE
      BY <2>1, <2>2, <2>3 DEF Visits
    <2>5. visit' \in Visits /\ visit'.open = TRUE
      BY <2>1, <2>2, <2>4 DEF Visits
    <2>6. RoutingTypeOK'
      BY <1>0, <2>1, <2>5 DEF RoutingTypeOK
    <2>7. VisitsProven'
      BY <1>3, <2>1, <2>5 DEF VisitsProven, Exists
    <2> QED
      BY <1>3, <2>1, <2>6, <2>7
  <1>8. CASE Leave
    <2>1. visit' = NoVisit /\ UNCHANGED <<domainVars, lifeVars, remembered>>
      BY <1>8 DEF Leave
    <2> QED
      BY <1>0, <1>3, <2>1 DEF RoutingTypeOK, VisitsProven, Exists
  <1>9. CASE UNCHANGED routingVars
    <2>1. UNCHANGED <<domainVars, lifeVars, visit, remembered>>
      BY <1>9 DEF routingVars
    <2> QED
      BY <1>0, <1>3, <2>1 DEF RoutingTypeOK, VisitsProven, Exists
  <1> QED
    BY <1>1, <1>2, <1>4, <1>5, <1>6, <1>7, <1>8, <1>9 DEF RoutingNext

\* Requests find the store by any hostname that is its own and only then, the link
\* back to the store leads there, the canonical redirect ends after one step, and
\* nobody is shown a page of a store that was closed when the request arrived.
THEOREM RoutingIsSound == RoutingSpec => []RoutingSound
  BY InitRouting, RoutingStep, RoutingInvSound, PTL DEF RoutingSpec

-----------------------------------------------------------------------------
(* What the dispatches, the purchases and the device keep true.            *)

\* The workers that wait for the provider's answer about a text.
Calling(t) == {w \in Senders : dispatch[w] # Idle /\ dispatch[w].text = t /\ dispatch[w].at = "calling"}

\* A text is offered to the provider once, and once more for each retry.
OfferedWithinTries ==
    \A t \in Texts :
        accepted[t] + Cardinality(Calling(t)) <= (IF textStatus[t] = "none" THEN 0 ELSE 1) + tries

\* The outbox holds items of texts the provider has accepted.
QueuedWhenAccepted == \A k \in DOMAIN outbox : outbox[k][2] <= accepted[outbox[k][1]]

\* A purchase is pending while it is being completed.
CompletingIsPending == \A p \in Purchases : completing[p] # Idle => purchaseStatus[p] = "pending"

\* What the device holds was handed to it and not sent since; what it says it
\* sent, it sent.
DeviceIsTrue ==
    /\ \A i \in onDevice : sentByDevice[i] < handedOut[i]
    /\ \A i \in Items : <<i, "sent">> \in acks => sentByDevice[i] >= 1

SmsInv ==
    /\ SmsSound
    /\ OfferedWithinTries /\ QueuedWhenAccepted
    /\ CompletingIsPending
    /\ DeviceIsTrue

\* The workers that call are counted.
LEMMA CallingIsCounted ==
    ASSUME NEW t
    PROVE  IsFiniteSet(Calling(t)) /\ Cardinality(Calling(t)) \in Nat
  <1>1. Calling(t) \subseteq Senders
    BY DEF Calling
  <1> QED
    BY <1>1, SmsIsFinite, FS_Subset, FS_CardinalityType

\* A worker that is not at the provider leaves the callers as they are, and
\* one that was is one less.
LEMMA CallEnds ==
    ASSUME SmsTypeOK, NEW w \in Senders, NEW new, dispatch' = [dispatch EXCEPT ![w] = new],
           new = Idle \/ new.at # "calling", NEW t \in Texts
    PROVE  /\ Cardinality(Calling(t)') <= Cardinality(Calling(t))
           /\ w \in Calling(t) => Cardinality(Calling(t)') = Cardinality(Calling(t)) - 1
           /\ Cardinality(Calling(t)') \in Nat
  <1>1. Calling(t)' = Calling(t) \ {w}
    BY DEF Calling, SmsTypeOK
  <1>2. /\ IsFiniteSet(Calling(t)) /\ Cardinality(Calling(t)) \in Nat
        /\ IsFiniteSet(Calling(t) \ {w}) /\ Cardinality(Calling(t) \ {w}) \in Nat
    BY CallingIsCounted, FS_Subset, FS_CardinalityType
  <1>3. Cardinality(Calling(t) \ {w}) =
            IF w \in Calling(t) THEN Cardinality(Calling(t)) - 1 ELSE Cardinality(Calling(t))
    BY <1>2, FS_RemoveElement
  <1> QED
    BY <1>1, <1>2, <1>3

\* A worker that calls is one more for its text.
LEMMA CallBegins ==
    ASSUME SmsTypeOK, NEW w \in Senders, dispatch[w] = Idle, NEW t \in Texts,
           dispatch' = [dispatch EXCEPT ![w] = [text |-> t, at |-> "calling"]],
           NEW u \in Texts
    PROVE  /\ Cardinality(Calling(u)') = Cardinality(Calling(u)) + IF u = t THEN 1 ELSE 0
           /\ Cardinality(Calling(u)') \in Nat
  <1>0. [text |-> t, at |-> "calling"] # Idle
    BY IdleIsNothing DEF Dispatches, Phases
  <1>1. Calling(u)' = IF u = t THEN Calling(u) \cup {w} ELSE Calling(u)
    BY <1>0 DEF Calling, SmsTypeOK
  <1>2. w \notin Calling(u)
    BY DEF Calling
  <1>3. IsFiniteSet(Calling(u)) /\ Cardinality(Calling(u)) \in Nat
    BY CallingIsCounted
  <1>4. Cardinality(Calling(u) \cup {w}) = Cardinality(Calling(u)) + 1
    BY <1>2, <1>3, FS_AddElement
  <1> QED
    BY <1>1, <1>3, <1>4

-----------------------------------------------------------------------------
(* Types.                                                                  *)

\* A worker's dispatch.
LEMMA DispatchTypes ==
    ASSUME SmsTypeOK, NEW w \in Senders, dispatch[w] # Idle
    PROVE  /\ dispatch[w].text \in Texts /\ dispatch[w].at \in Phases
           /\ \A at \in Phases : [dispatch[w] EXCEPT !.at = at] \in Dispatches
           /\ \A at \in Phases : [dispatch[w] EXCEPT !.at = at].text = dispatch[w].text
           /\ \A at \in Phases : [dispatch[w] EXCEPT !.at = at].at = at
  BY DEF SmsTypeOK, Dispatches

\* A text is queued once for each time it is accepted.
LEMMA OutboxGrows ==
    ASSUME SmsTypeOK, QueuedWhenAccepted, NEW t \in Texts \ Codes,
           accepted[t] + 1 \in 1..MaxTries + 1,
           outbox' = Append(outbox, <<t, accepted[t] + 1>>),
           accepted' = [accepted EXCEPT ![t] = @ + 1]
    PROVE  /\ outbox' \in Seq(Items) /\ IsInjective(outbox')
           /\ QueuedWhenAccepted'
           /\ <<t, accepted[t] + 1>> \in Items
  <1> DEFINE n == accepted[t] + 1
             new == <<t, n>>
             len == Len(outbox)
  <1>1. new \in Items
    BY DEF Items
  <1>2. /\ outbox \in Seq(Items) /\ IsInjective(outbox) /\ len \in Nat
        /\ DOMAIN outbox = 1..len
        /\ \A k \in 1..len : outbox[k] \in Items
    BY DEF SmsTypeOK
  <1>3. accepted[t] \in Nat /\ n > accepted[t] /\ n \in Nat
    BY DEF SmsTypeOK
  <1>4. /\ outbox' \in Seq(Items) /\ Len(outbox') = len + 1
        /\ DOMAIN outbox' = 1..(len + 1)
        /\ outbox'[len + 1] = new
        /\ \A k \in 1..len : outbox'[k] = outbox[k]
    BY <1>1, <1>2
  <1>5. \A u \in Texts : accepted[u] \in Nat /\ accepted'[u] = IF u = t THEN n ELSE accepted[u]
    BY DEF SmsTypeOK
  <1>6. \A k \in 1..len : outbox[k][2] <= accepted[outbox[k][1]] /\ outbox[k][1] \in Texts
                          /\ outbox[k][2] \in Nat
    BY <1>2 DEF QueuedWhenAccepted, Items
  <1>7. new[1] = t /\ new[2] = n /\ t \in Texts
    OBVIOUS
  <1> HIDE DEF n, new, len
  <1>8. \A k \in 1..len : outbox[k] # new
    BY <1>3, <1>6, <1>7
  <1>9. \A k \in 1..(len + 1) : k = len + 1 \/ k \in 1..len
    BY <1>2
  <1>10. IsInjective(outbox')
    <2> SUFFICES ASSUME NEW a \in 1..(len + 1), NEW b \in 1..(len + 1), outbox'[a] = outbox'[b]
                 PROVE  a = b
      BY <1>4 DEF IsInjective
    <2>1. CASE a \in 1..len /\ b \in 1..len
      BY <1>2, <1>4, <2>1 DEF IsInjective
    <2>2. CASE a = len + 1 \/ b = len + 1
      BY <1>4, <1>8, <1>9, <2>2
    <2> QED
      BY <1>9, <2>1, <2>2
  <1>11. QueuedWhenAccepted'
    <2> SUFFICES ASSUME NEW k \in 1..(len + 1)
                 PROVE  outbox'[k][2] <= accepted'[outbox'[k][1]]
      BY <1>4 DEF QueuedWhenAccepted
    <2>1. CASE k = len + 1
      BY <1>3, <1>4, <1>5, <1>7, <2>1
    <2>2. CASE k \in 1..len
      <3> DEFINE u == outbox[k][1]
                 m == outbox[k][2]
      <3>1. outbox'[k] = outbox[k] /\ u \in Texts /\ m \in Nat /\ m <= accepted[u]
        BY <1>4, <1>6, <2>2
      <3>2. accepted[u] \in Nat /\ accepted'[u] = IF u = t THEN n ELSE accepted[u]
        BY <1>5, <3>1
      <3> HIDE DEF u, m
      <3>3. m <= accepted'[u]
        BY <1>3, <3>1, <3>2
      <3> QED
        BY <3>1, <3>3 DEF u, m
    <2> QED
      BY <1>9, <2>1, <2>2
  <1> QED
    BY <1>1, <1>4, <1>10, <1>11 DEF new, n

\* Nothing but the dispatches and the retries changes.
LEMMA OfferedStays ==
    ASSUME OfferedWithinTries, UNCHANGED <<accepted, textStatus, dispatch>>,
           SmsTypeOK, SmsTypeOK', tries' >= tries
    PROVE  OfferedWithinTries'
  <1> SUFFICES ASSUME NEW t \in Texts
               PROVE  accepted[t] + Cardinality(Calling(t)) <=
                          (IF textStatus[t] = "none" THEN 0 ELSE 1) + tries'
    BY DEF OfferedWithinTries, Calling
  <1>1. accepted[t] \in Nat /\ Cardinality(Calling(t)) \in Nat /\ tries \in Nat /\ tries' \in Nat
    BY CallingIsCounted, SmsBounds DEF SmsTypeOK
  <1> QED
    BY <1>1 DEF OfferedWithinTries

\* Sending keeps the types.
LEMMA SenderTypes ==
    ASSUME SmsTypeOK, OfferedWithinTries, QueuedWhenAccepted, NEW w \in Senders,
           \/ \E t \in Texts : Dispatch(w, t) \/ RetryText(w, t)
           \/ Accept(w) \/ Refuse(w) \/ Refund(w) \/ SaveText(w) \/ KillSender(w)
    PROVE  SmsTypeOK' /\ OfferedWithinTries' /\ QueuedWhenAccepted'
  <1>0. /\ credits \in Int /\ tries \in Nat /\ \A t \in Texts : UnitsOf[t] \in Nat \ {0}
        /\ \A t \in Texts : accepted[t] \in Nat /\ Cardinality(Calling(t)) \in Nat
        /\ strandedUnits \in Nat
    BY CallingIsCounted, CreditsAreUnits, SmsBounds DEF SmsTypeOK
  <1>1. ASSUME NEW t \in Texts, (Dispatch(w, t) /\ Affordable(t)) \/ RetryText(w, t)
        PROVE  SmsTypeOK' /\ OfferedWithinTries' /\ QueuedWhenAccepted'
    <2>1. /\ dispatch[w] = Idle
          /\ dispatch' = [dispatch EXCEPT ![w] = [text |-> t, at |-> "calling"]]
          /\ credits' = credits - UnitsOf[t]
          /\ UNCHANGED <<accepted, outbox>>
      BY <1>1 DEF Dispatch, RetryText, Reserve, outboxVars
    <2>2. [text |-> t, at |-> "calling"] \in Dispatches
      BY DEF Dispatches, Phases
    <2>3. tries' \in 0..MaxTries /\ textStatus' \in [Texts -> TextStatus]
      <3>1. tries \in 0..MaxTries /\ textStatus \in [Texts -> TextStatus]
        BY DEF SmsTypeOK
      <3>2. tries' = tries \/ (tries < MaxTries /\ tries' = tries + 1)
        BY <1>1 DEF Dispatch, RetryText
      <3>3. textStatus' = textStatus \/ textStatus' = [textStatus EXCEPT ![t] = "pending"]
        BY <1>1 DEF Dispatch, RetryText
      <3>4. "pending" \in TextStatus
        BY DEF TextStatus
      <3>5. tries' \in 0..MaxTries
        BY <3>1, <3>2, SmsBounds
      <3> QED
        BY <3>1, <3>3, <3>4, <3>5
    <2>4. dispatch' \in [Senders -> Dispatches \cup {Idle}] /\ credits' \in Int
      BY <1>0, <2>1, <2>2 DEF SmsTypeOK
    <2>5. SmsTypeOK'
      BY <1>1, <2>3, <2>4 DEF Dispatch, RetryText, SmsTypeOK, creditVars, outboxVars
    <2>6. QueuedWhenAccepted'
      BY <2>1 DEF QueuedWhenAccepted
    <2>7. OfferedWithinTries'
      <3> SUFFICES ASSUME NEW u \in Texts
                   PROVE  accepted[u] + Cardinality(Calling(u)') <=
                              (IF textStatus'[u] = "none" THEN 0 ELSE 1) + tries'
        BY <2>1 DEF OfferedWithinTries
      <3>1. /\ Cardinality(Calling(u)') = Cardinality(Calling(u)) + IF u = t THEN 1 ELSE 0
            /\ Cardinality(Calling(u)') \in Nat
        BY <2>1, CallBegins
      <3>2. accepted[u] + Cardinality(Calling(u)) <=
                (IF textStatus[u] = "none" THEN 0 ELSE 1) + tries
        BY DEF OfferedWithinTries
      <3>3. CASE Dispatch(w, t)
        <4>1. textStatus[t] = "none" /\ tries' = tries
              /\ textStatus'[u] = IF u = t THEN "pending" ELSE textStatus[u]
          BY <1>1, <3>3 DEF Dispatch, RetryText, SmsTypeOK
        <4> QED
          BY <1>0, <3>1, <3>2, <4>1
      <3>4. CASE RetryText(w, t)
        <4>1. textStatus' = textStatus /\ tries' = tries + 1
          BY <3>4 DEF RetryText
        <4> QED
          BY <1>0, <3>1, <3>2, <4>1
      <3> QED
        BY <1>1, <3>3, <3>4
    <2> QED
      BY <2>5, <2>6, <2>7
  <1>2. ASSUME NEW t \in Texts, Dispatch(w, t), ~Affordable(t)
        PROVE  SmsTypeOK' /\ OfferedWithinTries' /\ QueuedWhenAccepted'
    <2>1. /\ textStatus' = [textStatus EXCEPT ![t] = "failed"]
          /\ textStatus[t] = "none" /\ UNCHANGED <<credits, dispatch>>
      BY <1>2 DEF Dispatch
    <2>2. SmsTypeOK'
      BY <1>2, <2>1 DEF Dispatch, SmsTypeOK, creditVars, outboxVars, TextStatus
    <2>3. QueuedWhenAccepted'
      BY <1>2 DEF QueuedWhenAccepted, Dispatch, outboxVars
    <2>4. OfferedWithinTries'
      <3> SUFFICES ASSUME NEW u \in Texts
                   PROVE  accepted[u] + Cardinality(Calling(u)) <=
                              (IF textStatus'[u] = "none" THEN 0 ELSE 1) + tries
        BY <1>2, <2>1 DEF OfferedWithinTries, Calling, Dispatch
      <3>1. textStatus'[u] = "none" => textStatus[u] = "none"
        BY <2>1 DEF SmsTypeOK
      <3> QED
        BY <1>0, <3>1 DEF OfferedWithinTries
    <2> QED
      BY <2>2, <2>3, <2>4
  <1>3. ASSUME NEW new, new = Idle \/ (new \in Dispatches /\ new.at # "calling"),
               dispatch[w] # Idle, dispatch' = [dispatch EXCEPT ![w] = new],
               \A t \in Texts : textStatus'[t] = "none" => textStatus[t] = "none",
               UNCHANGED <<accepted, tries>>
        PROVE  OfferedWithinTries'
    <2> SUFFICES ASSUME NEW t \in Texts
                 PROVE  accepted[t] + Cardinality(Calling(t)') <=
                            (IF textStatus'[t] = "none" THEN 0 ELSE 1) + tries
      BY <1>3 DEF OfferedWithinTries
    <2>1. Cardinality(Calling(t)') <= Cardinality(Calling(t)) /\ Cardinality(Calling(t)') \in Nat
      BY <1>3, CallEnds
    <2> QED
      BY <1>0, <1>3, <2>1 DEF OfferedWithinTries
  <1>4. CASE Accept(w)
    <2> DEFINE new == [dispatch[w] EXCEPT !.at = "accepted"]
    <2>0. PICK t \in Texts : t = dispatch[w].text
      BY <1>4, DispatchTypes DEF Accept, At
    <2>1. /\ dispatch[w] # Idle /\ dispatch[w].at = "calling"
          /\ dispatch' = [dispatch EXCEPT ![w] = new]
          /\ accepted' = [accepted EXCEPT ![t] = @ + 1]
          /\ UNCHANGED <<textStatus, tries>>
      BY <1>4, <2>0 DEF Accept, At, StepTo, SmsTypeOK
    <2>2. t \in Texts /\ new \in Dispatches /\ new.at # "calling"
      BY <2>1, DispatchTypes DEF Phases
    <2>3. w \in Calling(t)
      BY <2>0, <2>1 DEF Calling
    <2> HIDE DEF new
    <2>4. /\ Cardinality(Calling(t)') = Cardinality(Calling(t)) - 1
          /\ \A u \in Texts : /\ Cardinality(Calling(u)') <= Cardinality(Calling(u))
                              /\ Cardinality(Calling(u)') \in Nat
      BY <2>1, <2>2, <2>3, CallEnds
    <2>5. OfferedWithinTries'
      <3> SUFFICES ASSUME NEW u \in Texts
                   PROVE  accepted'[u] + Cardinality(Calling(u)') <=
                              (IF textStatus[u] = "none" THEN 0 ELSE 1) + tries
        BY <2>1 DEF OfferedWithinTries
      <3>1. accepted'[u] = IF u = t THEN accepted[u] + 1 ELSE accepted[u]
        BY <2>1 DEF SmsTypeOK
      <3> QED
        BY <1>0, <2>2, <2>4, <3>1 DEF OfferedWithinTries
    <2>6. accepted[t] + 1 \in 1..MaxTries + 1
      <3>1. accepted[t] + Cardinality(Calling(t)) <= 1 + tries
        BY <1>0, <2>2 DEF OfferedWithinTries
      <3>2. Cardinality(Calling(t)) >= 1
        BY <1>0, <2>2, <2>4
      <3>3. tries <= MaxTries /\ MaxTries \in Nat
        BY SmsBounds DEF SmsTypeOK
      <3> QED
        BY <1>0, <2>2, <3>1, <3>2, <3>3
    <2>7. accepted' \in [Texts -> Nat] /\ dispatch' \in [Senders -> Dispatches \cup {Idle}]
      BY <1>0, <2>1, <2>2 DEF SmsTypeOK
    <2>8. CASE viaDevice /\ t \notin Codes
      <3>1. /\ outbox' = Append(outbox, <<t, accepted[t] + 1>>)
            /\ itemStatus' = [itemStatus EXCEPT ![<<t, accepted[t] + 1>>] = "pending"]
        BY <1>4, <2>0, <2>8 DEF Accept
      <3>2. /\ outbox' \in Seq(Items) /\ IsInjective(outbox') /\ QueuedWhenAccepted'
            /\ <<t, accepted[t] + 1>> \in Items
        BY <2>1, <2>2, <2>6, <2>8, <3>1, OutboxGrows
      <3>3. itemStatus' \in [Items -> ItemStatus]
        BY <3>1, <3>2 DEF SmsTypeOK, ItemStatus, TextStatus
      <3> QED
        BY <1>4, <2>5, <2>7, <3>2, <3>3 DEF Accept, SmsTypeOK, creditVars, outboxVars
    <2>9. CASE ~(viaDevice /\ t \notin Codes)
      <3>1. UNCHANGED <<outbox, itemStatus>>
        BY <1>4, <2>0, <2>9 DEF Accept
      <3>2. SmsTypeOK'
        BY <1>4, <2>7, <3>1 DEF Accept, SmsTypeOK, creditVars, outboxVars
      <3>3. QueuedWhenAccepted'
        <4> SUFFICES ASSUME NEW k \in DOMAIN outbox
                     PROVE  outbox[k][2] <= accepted'[outbox[k][1]]
          BY <3>1 DEF QueuedWhenAccepted
        <4>1. outbox[k] \in Items
          BY DEF SmsTypeOK
        <4>2. /\ outbox[k][1] \in Texts /\ outbox[k][2] \in Nat
              /\ outbox[k][2] <= accepted[outbox[k][1]]
          BY <4>1 DEF Items, QueuedWhenAccepted
        <4>3. accepted'[outbox[k][1]] \in Nat /\ accepted'[outbox[k][1]] >= accepted[outbox[k][1]]
          BY SMTT(30), <1>0, <2>1, <2>7, <4>2 DEF SmsTypeOK
        <4> QED
          BY <1>0, <4>2, <4>3
      <3> QED
        BY <2>5, <3>2, <3>3
    <2> QED
      BY <2>8, <2>9
  <1>5. CASE Refuse(w) \/ Refund(w)
    <2> DEFINE next == IF Refuse(w) THEN "refused" ELSE "refunded"
               new == [dispatch[w] EXCEPT !.at = next]
    <2>1. /\ dispatch[w] # Idle
          /\ dispatch' = [dispatch EXCEPT ![w] = new]
          /\ UNCHANGED <<textStatus, accepted, tries, outbox>>
      BY <1>5 DEF Refuse, Refund, At, StepTo, SmsTypeOK, outboxVars
    <2>2. next \in Phases /\ next # "calling"
      BY DEF Phases
    <2>3. new \in Dispatches /\ new.at # "calling" /\ dispatch[w].text \in Texts
      <3> HIDE DEF next
      <3> QED
        BY <2>1, <2>2, DispatchTypes
    <2> HIDE DEF next, new
    <2>4. dispatch' \in [Senders -> Dispatches \cup {Idle}]
      BY <2>1, <2>3 DEF SmsTypeOK
    <2>5. credits' \in Int
      BY <1>0, <1>5, <2>3 DEF Refuse, Refund, creditVars
    <2>6. SmsTypeOK'
      BY <1>5, <2>4, <2>5 DEF Refuse, Refund, SmsTypeOK, creditVars, outboxVars
    <2> QED
      BY <1>3, <2>1, <2>3, <2>6 DEF QueuedWhenAccepted
  <1>6. CASE SaveText(w) \/ KillSender(w)
    <2>1. /\ dispatch[w] # Idle
          /\ dispatch' = [dispatch EXCEPT ![w] = Idle]
          /\ UNCHANGED <<accepted, tries, outbox>>
      BY <1>6 DEF SaveText, KillSender, At, outboxVars
    <2>2. dispatch[w].text \in Texts
      BY <2>1, DispatchTypes
    <2>3. /\ textStatus' \in [Texts -> TextStatus]
          /\ \A t \in Texts : textStatus'[t] = "none" => textStatus[t] = "none"
      BY <1>6, <2>2 DEF SaveText, KillSender, SmsTypeOK, TextStatus
    <2>4. strandedUnits' \in Nat
      BY <1>0, <1>6, <2>2 DEF SaveText, KillSender
    <2>5. dispatch' \in [Senders -> Dispatches \cup {Idle}]
      BY <2>1 DEF SmsTypeOK
    <2>6. SmsTypeOK'
      BY <1>6, <2>3, <2>4, <2>5 DEF SaveText, KillSender, SmsTypeOK, creditVars, outboxVars
    <2> QED
      BY <1>3, <2>1, <2>3, <2>6 DEF QueuedWhenAccepted
  <1> QED
    BY <1>1, <1>2, <1>4, <1>5, <1>6

\* Buying, correcting and the device keep the types, and touch no dispatch.
LEMMA BesideTypes ==
    ASSUME SmsTypeOK, OfferedWithinTries, QueuedWhenAccepted,
           \/ \E p \in Purchases :
                 RequestPurchase(p) \/ CompletionReads(p) \/ CompletionWrites(p) \/ CancelPurchase(p)
           \/ \E d \in Corrections : AdjustCredit(d)
           \/ \E i \in Items :
                 \/ \E overdue \in SUBSET {u \in Items : itemStatus[u] = "sending"}, arrives \in BOOLEAN :
                       Poll(i, overdue, arrives)
                 \/ \E result \in {"sent", "failed"} : DeviceActs(i, result)
                 \/ RequeueItem(i)
           \/ \E a \in acks : LoseAck(a) \/ \E again \in BOOLEAN : Acknowledge(a, again)
    PROVE  SmsTypeOK' /\ OfferedWithinTries' /\ QueuedWhenAccepted'
  <1>0. PackageUnits \in Nat /\ credits \in Int /\ tries \in 0..MaxTries /\ tries \in Nat
    BY CreditsAreUnits, SmsBounds DEF SmsTypeOK
  <1>1. ASSUME SmsTypeOK', UNCHANGED <<accepted, textStatus, dispatch, outbox>>, tries' >= tries
        PROVE  SmsTypeOK' /\ OfferedWithinTries' /\ QueuedWhenAccepted'
    BY <1>1, OfferedStays DEF QueuedWhenAccepted
  <1>2. ASSUME NEW p \in Purchases,
               RequestPurchase(p) \/ CompletionReads(p) \/ CompletionWrites(p) \/ CancelPurchase(p)
        PROVE  SmsTypeOK' /\ OfferedWithinTries' /\ QueuedWhenAccepted'
    <2>1. UNCHANGED Settings
      BY <1>2 DEF RequestPurchase, CompletionReads, CompletionWrites, CancelPurchase
    <2>2. purchaseStatus' \in [Purchases -> PurchaseStatus]
      BY <1>2 DEF RequestPurchase, CompletionReads, CompletionWrites, CancelPurchase, SmsTypeOK,
                  PurchaseStatus
    <2>3. completing' \in [Purchases -> Int \cup {Idle}]
      BY <1>0, <1>2 DEF RequestPurchase, CompletionReads, CompletionWrites, CancelPurchase, SmsTypeOK
    <2>4. credits' \in Int /\ overwritten' \in BOOLEAN /\ corrected' = corrected
      <3>1. completing[p] # Idle => completing[p] \in Int
        BY DEF SmsTypeOK
      <3>2. credits' \in Int /\ corrected' = corrected
        BY <1>0, <1>2, <3>1
        DEF RequestPurchase, CompletionReads, CompletionWrites, CancelPurchase
      <3>3. overwritten' \in BOOLEAN
        BY <1>2 DEF RequestPurchase, CompletionReads, CompletionWrites, CancelPurchase, SmsTypeOK
      <3> QED
        BY <3>2, <3>3
    <2>5. SmsTypeOK'
      BY <2>1, <2>2, <2>3, <2>4 DEF Settings, outboxVars, SmsTypeOK
    <2> QED
      BY <1>0, <1>1, <2>1, <2>5 DEF Settings, outboxVars
  <1>3. ASSUME NEW d \in Corrections, AdjustCredit(d)
        PROVE  SmsTypeOK' /\ OfferedWithinTries' /\ QueuedWhenAccepted'
    <2>1. UNCHANGED <<purchaseStatus, completing, overwritten, Settings>>
      BY <1>3 DEF AdjustCredit
    <2>2. d \in Int /\ corrected \in Corrected
      BY CreditsAreUnits DEF SmsTypeOK
    <2>3. credits' \in Int
      BY <1>0, <1>3, <2>2 DEF AdjustCredit
    <2>4. corrected' \in Corrected
      <3> DEFINE sum == corrected.sum + d
                 number == corrected.count + 1
                 down == corrected.down + IF d < 0 THEN -d ELSE 0
      <3>1. sum \in Int /\ down \in Nat /\ number \in 0..MaxCorrections
        BY <1>3, <2>2, SmsBounds DEF AdjustCredit, Corrected
      <3>2. corrected' = [sum |-> sum, count |-> number, down |-> down]
        BY <1>3 DEF AdjustCredit
      <3> HIDE DEF sum, number, down
      <3> QED
        BY <3>1, <3>2 DEF Corrected
    <2>5. SmsTypeOK'
      BY <2>1, <2>3, <2>4 DEF Settings, outboxVars, SmsTypeOK
    <2> QED
      BY <1>0, <1>1, <2>1, <2>5 DEF Settings, outboxVars
  <1>4. ASSUME NEW i \in Items,
               NEW overdue \in SUBSET {u \in Items : itemStatus[u] = "sending"}, NEW arrives \in BOOLEAN,
               Poll(i, overdue, arrives)
        PROVE  SmsTypeOK' /\ OfferedWithinTries' /\ QueuedWhenAccepted'
    <2>1. UNCHANGED <<BesideOutbox, outbox, acks, sentByDevice>>
      BY <1>4 DEF Poll
    <2>2. /\ itemStatus' \in [Items -> ItemStatus] /\ onDevice' \subseteq Items
          /\ handedOut' \in [Items -> Nat]
      BY <1>4 DEF Poll, SmsTypeOK, ItemStatus
    <2>3. tries' \in 0..MaxTries /\ tries' >= tries
      BY <1>0, <1>4, SmsBounds DEF Poll
    <2>4. SmsTypeOK'
      BY <2>1, <2>2, <2>3 DEF BesideOutbox, creditVars, SmsTypeOK
    <2> QED
      BY <1>1, <2>1, <2>3, <2>4 DEF BesideOutbox
  <1>5. ASSUME NEW i \in Items, NEW result \in {"sent", "failed"}, DeviceActs(i, result)
        PROVE  SmsTypeOK' /\ OfferedWithinTries' /\ QueuedWhenAccepted'
    <2>1. UNCHANGED <<BesideOutbox, outbox, itemStatus, handedOut, tries>>
      BY <1>5 DEF DeviceActs
    <2>2. onDevice' \subseteq Items /\ acks' \subseteq Items \X {"sent", "failed"}
      BY <1>5 DEF DeviceActs, SmsTypeOK
    <2>3. sentByDevice' \in [Items -> Nat]
      BY <1>5 DEF DeviceActs, SmsTypeOK
    <2>4. SmsTypeOK'
      BY <2>1, <2>2, <2>3 DEF BesideOutbox, creditVars, SmsTypeOK
    <2> QED
      BY <1>0, <1>1, <2>1, <2>4 DEF BesideOutbox
  <1>6. ASSUME NEW i \in Items, RequeueItem(i)
        PROVE  SmsTypeOK' /\ OfferedWithinTries' /\ QueuedWhenAccepted'
    <2>1. UNCHANGED <<BesideOutbox, outbox, onDevice, acks, sentByDevice, handedOut>>
      BY <1>6 DEF RequeueItem
    <2>2. itemStatus' \in [Items -> ItemStatus]
      BY <1>6 DEF RequeueItem, SmsTypeOK, ItemStatus, TextStatus
    <2>3. tries' \in 0..MaxTries /\ tries' >= tries
      BY <1>0, <1>6, SmsBounds DEF RequeueItem
    <2>4. SmsTypeOK'
      BY <2>1, <2>2, <2>3 DEF BesideOutbox, creditVars, SmsTypeOK
    <2> QED
      BY <1>1, <2>1, <2>3, <2>4 DEF BesideOutbox
  <1>7. ASSUME NEW a \in acks, LoseAck(a) \/ \E again \in BOOLEAN : Acknowledge(a, again)
        PROVE  SmsTypeOK' /\ OfferedWithinTries' /\ QueuedWhenAccepted'
    <2>1. UNCHANGED <<BesideOutbox, outbox, onDevice, sentByDevice, handedOut, tries>>
      BY <1>7 DEF LoseAck, Acknowledge
    <2>2. a[1] \in Items /\ a[2] \in {"sent", "failed"}
      BY DEF SmsTypeOK
    <2>3. itemStatus' \in [Items -> ItemStatus] /\ acks' \subseteq acks
      <3>1. acks' \in {acks, acks \ {a}}
        BY <1>7 DEF LoseAck, Acknowledge
      <3>2. itemStatus' = itemStatus \/ itemStatus' = [itemStatus EXCEPT ![a[1]] = a[2]]
        BY <1>7 DEF LoseAck, Acknowledge
      <3>3. itemStatus \in [Items -> ItemStatus] /\ a[2] \in ItemStatus
        BY <2>2 DEF SmsTypeOK, ItemStatus, TextStatus
      <3>4. itemStatus' \in [Items -> ItemStatus]
        BY <2>2, <3>2, <3>3
      <3> QED
        BY <3>1, <3>4
    <2>4. SmsTypeOK'
      BY <2>1, <2>3 DEF BesideOutbox, creditVars, SmsTypeOK
    <2> QED
      BY <1>0, <1>1, <2>1, <2>4 DEF BesideOutbox
  <1> QED
    BY <1>2, <1>3, <1>4, <1>5, <1>6, <1>7

-----------------------------------------------------------------------------
(* The account.                                                            *)

\* A worker's dispatch changes the units in flight by what it now holds.
LEMMA FlightMoves ==
    ASSUME SmsTypeOK, SmsTypeOK', NEW w \in Senders,
           \A v \in Senders : v # w => dispatch'[v] = dispatch[v]
    PROVE  /\ UnitsInFlight \in Int /\ UnitsHeld(w) \in Nat /\ UnitsHeld(w)' \in Nat
           /\ UnitsInFlight' = UnitsInFlight + (UnitsHeld(w)' - UnitsHeld(w))
  <1> DEFINE f == [v \in Senders |-> UnitsHeld(v)]
             g == [v \in Senders |-> UnitsHeld(v)']
  <1>1. \A v \in Senders : UnitsHeld(v) \in Nat /\ UnitsHeld(v)' \in Nat
    BY CreditsAreUnits DEF UnitsHeld, At, SmsTypeOK, Dispatches
  <1>2. \A v \in Senders : v # w => UnitsHeld(v)' = UnitsHeld(v)
    BY DEF UnitsHeld, At
  <1>3. UnitsInFlight = SumFunction(f) /\ UnitsInFlight' = SumFunction(g)
    BY DEF UnitsInFlight
  <1>4. /\ f \in [Senders -> Int] /\ g \in [Senders -> Int]
        /\ f[w] = UnitsHeld(w) /\ g[w] = UnitsHeld(w)'
        /\ \A v \in Senders : v # w => g[v] = f[v]
    BY <1>1, <1>2
  <1> DEFINE d == UnitsHeld(w)' - UnitsHeld(w)
  <1>5. d \in Int /\ g[w] = f[w] + d
    BY <1>1, <1>4
  <1> HIDE DEF f, g, d
  <1>6. SumFunction(f) \in Int /\ SumFunction(g) = SumFunction(f) + d
    BY <1>4, <1>5, SmsIsFinite, SumMoves
  <1> QED
    BY <1>1, <1>3, <1>6 DEF d

\* An accepted text uses its units once more.
LEMMA UseMoves ==
    ASSUME SmsTypeOK, NEW t \in Texts, accepted' = [accepted EXCEPT ![t] = @ + 1]
    PROVE  UnitsUsed \in Int /\ UnitsUsed' = UnitsUsed + UnitsOf[t]
  <1> DEFINE f == [u \in Texts |-> accepted[u] * UnitsOf[u]]
             g == [u \in Texts |-> accepted'[u] * UnitsOf[u]]
  <1>1. \A u \in Texts : accepted[u] \in Nat /\ UnitsOf[u] \in Nat
    BY CreditsAreUnits DEF SmsTypeOK
  <1>2. \A u \in Texts : accepted'[u] = IF u = t THEN accepted[u] + 1 ELSE accepted[u]
    BY DEF SmsTypeOK
  <1>3. UnitsUsed = SumFunction(f) /\ UnitsUsed' = SumFunction(g)
    BY DEF UnitsUsed
  <1>4. /\ f \in [Texts -> Int] /\ g \in [Texts -> Int]
        /\ g[t] = f[t] + UnitsOf[t]
        /\ \A u \in Texts : u # t => g[u] = f[u]
    BY <1>1, <1>2
  <1> HIDE DEF f, g
  <1> QED
    BY <1>1, <1>3, <1>4, SmsIsFinite, SumMoves

\* Sums that nothing changes.
LEMMA AccountStays ==
    ASSUME SmsTypeOK
    PROVE  /\ UNCHANGED dispatch => UnitsInFlight' = UnitsInFlight
           /\ UNCHANGED accepted => UnitsUsed' = UnitsUsed
           /\ UNCHANGED purchaseStatus => UnitsBought' = UnitsBought
           /\ UnitsInFlight \in Int /\ UnitsUsed \in Int /\ UnitsBought \in Int
  <1>1. UNCHANGED dispatch => UnitsInFlight' = UnitsInFlight
    BY DEF UnitsInFlight, UnitsHeld, At
  <1>2. UNCHANGED accepted => UnitsUsed' = UnitsUsed
    BY DEF UnitsUsed
  <1>3. UNCHANGED purchaseStatus => UnitsBought' = UnitsBought
    BY DEF UnitsBought
  <1>4. UnitsInFlight \in Int
    <2> DEFINE f == [v \in Senders |-> UnitsHeld(v)]
    <2>1. \A v \in Senders : f[v] \in Int
      BY CreditsAreUnits DEF UnitsHeld, At, SmsTypeOK, Dispatches
    <2>2. UnitsInFlight = SumFunctionOnSet(f, Senders)
      BY DEF UnitsInFlight, SumFunction
    <2> HIDE DEF f
    <2> QED
      BY <2>1, <2>2, SmsIsFinite, SumType
  <1>5. UnitsUsed \in Int
    <2> DEFINE f == [t \in Texts |-> accepted[t] * UnitsOf[t]]
    <2>1. \A t \in Texts : accepted[t] \in Nat /\ UnitsOf[t] \in Nat
      BY CreditsAreUnits DEF SmsTypeOK
    <2>2. \A t \in Texts : f[t] \in Int
      BY <2>1
    <2>3. UnitsUsed = SumFunctionOnSet(f, Texts)
      BY DEF UnitsUsed, SumFunction
    <2> HIDE DEF f
    <2> QED
      BY <2>2, <2>3, SmsIsFinite, SumType
  <1>6. UnitsBought \in Int
    <2>1. Cardinality({p \in Purchases : purchaseStatus[p] = "completed"}) \in Nat
      BY SmsIsFinite, FS_Subset, FS_CardinalityType
    <2> QED
      BY <2>1, CreditsAreUnits DEF UnitsBought
  <1> QED
    BY <1>1, <1>2, <1>3, <1>4, <1>5, <1>6

\* Purchases that are neither completed before nor after.
LEMMA BoughtStays ==
    ASSUME SmsTypeOK, NEW p \in Purchases, NEW status,
           purchaseStatus' = [purchaseStatus EXCEPT ![p] = status],
           purchaseStatus[p] # "completed"
    PROVE  UnitsBought' = UnitsBought + IF status = "completed" THEN PackageUnits ELSE 0
  <1> DEFINE S == {q \in Purchases : purchaseStatus[q] = "completed"}
             T == {q \in Purchases : purchaseStatus'[q] = "completed"}
  <1>1. T = IF status = "completed" THEN S \cup {p} ELSE S
    BY DEF SmsTypeOK
  <1>2. p \notin S /\ IsFiniteSet(S)
    BY SmsIsFinite, FS_Subset
  <1>3. UnitsBought = PackageUnits * Cardinality(S) /\ UnitsBought' = PackageUnits * Cardinality(T)
    BY DEF UnitsBought
  <1> HIDE DEF S, T
  <1>4. Cardinality(S) \in Nat /\ Cardinality(S \cup {p}) = Cardinality(S) + 1
    BY <1>2, FS_AddElement, FS_CardinalityType
  <1>5. PackageUnits * (Cardinality(S) + 1) = PackageUnits * Cardinality(S) + PackageUnits
    BY <1>4, CreditsAreUnits
  <1>6. PackageUnits * Cardinality(S) \in Int
    BY <1>4, CreditsAreUnits
  <1> QED
    BY <1>1, <1>3, <1>4, <1>5, <1>6

\* Every step keeps the account and the pending completions.
LEMMA NextAccount ==
    ASSUME SmsInv, SmsNext, SmsTypeOK'
    PROVE  CreditsAccounted' /\ CompletingIsPending'
  <1>0. /\ SmsTypeOK /\ CreditsAccounted /\ CompletingIsPending
        /\ credits \in Int /\ strandedUnits \in Nat /\ OpeningCredits \in Int /\ PackageUnits \in Int
        /\ corrected.sum \in Int
        /\ UnitsInFlight \in Int /\ UnitsUsed \in Int /\ UnitsBought \in Int
        /\ \A t \in Texts : UnitsOf[t] \in Nat
    <2>1. SmsTypeOK /\ CreditsAccounted /\ CompletingIsPending
      BY DEF SmsInv, SmsSound
    <2>2. UnitsInFlight \in Int /\ UnitsUsed \in Int /\ UnitsBought \in Int
      BY <2>1, AccountStays
    <2>3. credits \in Int /\ strandedUnits \in Nat /\ corrected.sum \in Int
      BY <2>1 DEF SmsTypeOK, Corrected
    <2> QED
      BY <2>1, <2>2, <2>3, CreditsAreUnits
  <1>1. ASSUME NEW w \in Senders,
               \/ \E t \in Texts : Dispatch(w, t) \/ RetryText(w, t)
               \/ Accept(w) \/ Refuse(w) \/ Refund(w) \/ SaveText(w) \/ KillSender(w)
        PROVE  CreditsAccounted' /\ CompletingIsPending'
    <2>1. UNCHANGED <<purchaseStatus, completing, overwritten, corrected>>
      BY <1>1 DEF Dispatch, RetryText, Accept, Refuse, Refund, SaveText, KillSender, creditVars
    <2>2. \A v \in Senders : v # w => dispatch'[v] = dispatch[v]
      BY <1>0, <1>1 DEF Dispatch, RetryText, Reserve, Accept, Refuse, Refund, SaveText, KillSender,
                        StepTo, SmsTypeOK
    <2>3. /\ UnitsHeld(w) \in Nat /\ UnitsHeld(w)' \in Nat
          /\ UnitsInFlight' = UnitsInFlight + (UnitsHeld(w)' - UnitsHeld(w))
      BY <1>0, <2>2, FlightMoves
    <2>4. UnitsBought' = UnitsBought
      BY <1>0, <2>1, AccountStays
    <2>5. UNCHANGED accepted => UnitsUsed' = UnitsUsed
      BY <1>0, AccountStays
    <2>6. SUFFICES credits' + UnitsInFlight' + UnitsUsed' + strandedUnits' =
                       credits + UnitsInFlight + UnitsUsed + strandedUnits
      BY <1>0, <2>1, <2>4 DEF CreditsAccounted, CompletingIsPending
    <2>7. ASSUME NEW t \in Texts, Dispatch(w, t) \/ RetryText(w, t)
          PROVE  credits' + UnitsInFlight' + UnitsUsed' + strandedUnits' =
                     credits + UnitsInFlight + UnitsUsed + strandedUnits
      <3>1. UNCHANGED <<accepted, strandedUnits>> /\ dispatch[w] = Idle
        BY <2>7 DEF Dispatch, RetryText
      <3>2. UnitsHeld(w) = 0
        BY <3>1 DEF UnitsHeld, At
      <3>3. CASE Reserve(w, t)
        <4>1. dispatch'[w] = [text |-> t, at |-> "calling"] /\ dispatch'[w] # Idle
          BY <1>0, <3>3, IdleIsNothing DEF Reserve, SmsTypeOK, Dispatches, Phases
        <4>2. UnitsHeld(w)' = UnitsOf[t]
          BY <4>1 DEF UnitsHeld, At
        <4>3. credits' = credits - UnitsOf[t]
          BY <3>3 DEF Reserve
        <4> QED
          BY <1>0, <2>3, <2>5, <3>1, <3>2, <4>2, <4>3
      <3>4. CASE UNCHANGED <<credits, dispatch>>
        BY <1>0, <2>5, <3>1, <3>4, AccountStays
      <3> QED
        BY <2>7, <3>3, <3>4 DEF Dispatch, RetryText
    <2>8. CASE Accept(w)
      <3> DEFINE t == dispatch[w].text
      <3>1. t \in Texts /\ dispatch[w] # Idle /\ dispatch[w].at = "calling"
        BY <1>0, <2>8, DispatchTypes DEF Accept, At
      <3>2. dispatch'[w] = [dispatch[w] EXCEPT !.at = "accepted"]
        BY <1>0, <2>8 DEF Accept, StepTo, SmsTypeOK
      <3>3. dispatch'[w].at = "accepted"
        BY <1>0, <3>1, <3>2, DispatchTypes DEF Phases
      <3>4. UnitsHeld(w) = UnitsOf[t] /\ UnitsHeld(w)' = 0
        BY <3>1, <3>3 DEF UnitsHeld, At
      <3>5. UNCHANGED <<credits, strandedUnits>> /\ accepted' = [accepted EXCEPT ![t] = @ + 1]
        BY <2>8 DEF Accept, creditVars
      <3>6. UnitsUsed' = UnitsUsed + UnitsOf[t]
        <4>1. \A u \in Texts : accepted' = [accepted EXCEPT ![u] = @ + 1] => UnitsUsed' = UnitsUsed + UnitsOf[u]
          BY <1>0, UseMoves
        <4> QED
          BY <3>1, <3>5, <4>1
      <3> HIDE DEF t
      <3> QED
        BY <1>0, <2>3, <3>1, <3>4, <3>5, <3>6
    <2>9. CASE Refuse(w)
      <3>1. /\ dispatch[w] # Idle /\ dispatch[w].at = "calling"
            /\ dispatch'[w] = [dispatch[w] EXCEPT !.at = "refused"]
            /\ UNCHANGED <<credits, accepted, strandedUnits>>
        BY <1>0, <2>9 DEF Refuse, At, StepTo, SmsTypeOK, creditVars
      <3>2. dispatch'[w].at = "refused" /\ dispatch'[w].text = dispatch[w].text /\ dispatch'[w] # Idle
        BY <1>0, <3>1, DispatchTypes, IdleIsNothing DEF Phases
      <3>3. UnitsHeld(w)' = UnitsHeld(w)
        BY <3>1, <3>2 DEF UnitsHeld, At
      <3> QED
        BY <1>0, <2>3, <2>5, <3>1, <3>3
    <2>10. CASE Refund(w)
      <3>1. /\ dispatch[w] # Idle /\ dispatch[w].at = "refused"
            /\ dispatch'[w] = [dispatch[w] EXCEPT !.at = "refunded"]
            /\ UNCHANGED <<accepted, strandedUnits>>
            /\ credits' = credits + UnitsOf[dispatch[w].text]
        BY <1>0, <2>10 DEF Refund, At, StepTo, SmsTypeOK
      <3>2. dispatch'[w].at = "refunded" /\ dispatch[w].text \in Texts
        BY <1>0, <3>1, DispatchTypes DEF Phases
      <3>3. UnitsHeld(w)' = 0 /\ UnitsHeld(w) = UnitsOf[dispatch[w].text]
        BY <3>1, <3>2 DEF UnitsHeld, At
      <3> QED
        BY <1>0, <2>3, <2>5, <3>1, <3>2, <3>3
    <2>11. CASE SaveText(w)
      <3>1. /\ dispatch[w].at \notin {"calling", "refused"} /\ dispatch'[w] = Idle
            /\ UNCHANGED <<credits, accepted, strandedUnits>>
        BY <1>0, <2>11 DEF SaveText, At, SmsTypeOK, creditVars
      <3>2. UnitsHeld(w)' = 0 /\ UnitsHeld(w) = 0
        BY <3>1 DEF UnitsHeld, At
      <3> QED
        BY <1>0, <2>3, <2>5, <3>1, <3>2
    <2>12. CASE KillSender(w)
      <3>1. /\ dispatch'[w] = Idle
            /\ UNCHANGED <<credits, accepted>>
            /\ strandedUnits' = strandedUnits + UnitsHeld(w)
        BY <1>0, <2>12 DEF KillSender, UnitsHeld, SmsTypeOK, creditVars
      <3>2. UnitsHeld(w)' = 0
        BY <3>1 DEF UnitsHeld, At
      <3> QED
        BY <1>0, <2>3, <2>5, <3>1, <3>2
    <2> QED
      BY <1>1, <2>7, <2>8, <2>9, <2>10, <2>11, <2>12
  <1>2. ASSUME NEW p \in Purchases,
               RequestPurchase(p) \/ CompletionReads(p) \/ CompletionWrites(p) \/ CancelPurchase(p)
        PROVE  CreditsAccounted' /\ CompletingIsPending'
    <2>1. UNCHANGED Settings /\ UNCHANGED corrected
      BY <1>2 DEF RequestPurchase, CompletionReads, CompletionWrites, CancelPurchase
    <2>2. UnitsInFlight' = UnitsInFlight /\ UnitsUsed' = UnitsUsed /\ UNCHANGED strandedUnits
      BY <1>0, <2>1, AccountStays DEF Settings
    <2>3. CompletingIsPending'
      BY <1>0, <1>2 DEF RequestPurchase, CompletionReads, CompletionWrites, CancelPurchase,
                        CompletingIsPending, SmsTypeOK
    <2>4. CASE CompletionReads(p)
      <3>1. UNCHANGED <<credits, overwritten, purchaseStatus>>
        BY <2>4 DEF CompletionReads
      <3> QED
        BY <1>0, <2>1, <2>2, <2>3, <3>1, AccountStays DEF CreditsAccounted
    <2>5. CASE RequestPurchase(p) \/ CancelPurchase(p)
      <3>1. /\ UNCHANGED <<credits, overwritten>>
            /\ purchaseStatus[p] # "completed"
            /\ \E status \in {"pending", "canceled"} :
                  purchaseStatus' = [purchaseStatus EXCEPT ![p] = status]
        BY <2>5 DEF RequestPurchase, CancelPurchase
      <3>2. UnitsBought' = UnitsBought
        <4>1. PICK status \in {"pending", "canceled"} :
                  purchaseStatus' = [purchaseStatus EXCEPT ![p] = status]
          BY <3>1
        <4>2. UnitsBought' = UnitsBought + IF status = "completed" THEN PackageUnits ELSE 0
          BY <1>0, <3>1, <4>1, BoughtStays
        <4> QED
          BY <1>0, <4>1, <4>2
      <3> QED
        BY <1>0, <2>1, <2>2, <2>3, <3>1, <3>2 DEF CreditsAccounted
    <2>6. CASE CompletionWrites(p)
      <3>1. /\ completing[p] # Idle /\ completing[p] \in Int
            /\ credits' = completing[p] + PackageUnits
            /\ overwritten' = (overwritten \/ credits # completing[p])
            /\ purchaseStatus' = [purchaseStatus EXCEPT ![p] = "completed"]
        BY <1>0, <2>6 DEF CompletionWrites, SmsTypeOK
      <3>2. purchaseStatus[p] # "completed"
        BY <1>0, <3>1 DEF CompletingIsPending
      <3>3. UnitsBought' = UnitsBought + PackageUnits
        BY <1>0, <3>1, <3>2, BoughtStays
      <3>4. CASE overwritten \/ credits # completing[p]
        BY <2>3, <3>1, <3>4 DEF CreditsAccounted
      <3>5. CASE ~overwritten /\ credits = completing[p]
        <4>1. credits' = credits + PackageUnits
          BY <3>1, <3>5
        <4>2. credits + UnitsInFlight + UnitsUsed + strandedUnits
                  = OpeningCredits + UnitsBought + corrected.sum
          BY <1>0, <3>5 DEF CreditsAccounted
        <4>3. credits' + UnitsInFlight' + UnitsUsed' + strandedUnits'
                  = OpeningCredits + UnitsBought' + corrected'.sum
          BY <1>0, <2>1, <2>2, <3>3, <4>1, <4>2
        <4> QED
          BY <2>3, <4>3 DEF CreditsAccounted
      <3> QED
        BY <3>4, <3>5
    <2> QED
      BY <1>2, <2>4, <2>5, <2>6
  <1>3. ASSUME NEW d \in Corrections, AdjustCredit(d)
        PROVE  CreditsAccounted' /\ CompletingIsPending'
    <2>1. UNCHANGED <<purchaseStatus, completing, overwritten, Settings>> /\ credits' = credits + d
          /\ corrected'.sum = corrected.sum + d /\ d \in Int
      BY <1>3, CreditsAreUnits DEF AdjustCredit
    <2>2. UnitsInFlight' = UnitsInFlight /\ UnitsUsed' = UnitsUsed /\ UnitsBought' = UnitsBought
          /\ UNCHANGED strandedUnits
      BY <1>0, <2>1, AccountStays DEF Settings
    <2> QED
      BY <1>0, <2>1, <2>2 DEF CreditsAccounted, CompletingIsPending
  <1>4. ASSUME UNCHANGED BesideOutbox
        PROVE  CreditsAccounted' /\ CompletingIsPending'
    BY <1>0, <1>4, AccountStays DEF BesideOutbox, creditVars, CreditsAccounted, CompletingIsPending
  <1> QED
    BY <1>1, <1>2, <1>3, <1>4
    DEF SmsNext, Poll, DeviceActs, RequeueItem, LoseAck, Acknowledge

-----------------------------------------------------------------------------
(* The debt.                                                               *)

\* What is taken from the balance leaves it above the overdraft.
LEMMA NextDebt ==
    ASSUME SmsInv, SmsNext, SmsTypeOK'
    PROVE  DebtBounded'
  <1>0. /\ SmsTypeOK /\ DebtBounded
        /\ credits \in Int /\ OtpOverdraft \in Nat /\ PackageUnits \in Nat /\ corrected.down \in Nat
        /\ \A t \in Texts : UnitsOf[t] \in Nat
    BY CreditsAreUnits DEF SmsInv, SmsSound, SmsTypeOK, Corrected
  <1>1. ASSUME UNCHANGED <<overwritten, corrected>>, credits' \in Int,
               credits' >= credits \/ credits' >= -OtpOverdraft
        PROVE  DebtBounded'
    BY <1>0, <1>1 DEF DebtBounded
  <1>2. ASSUME NEW w \in Senders, NEW t \in Texts, Dispatch(w, t) \/ RetryText(w, t)
        PROVE  DebtBounded'
    <2>1. UNCHANGED <<overwritten, corrected>>
      BY <1>2 DEF Dispatch, RetryText
    <2>2. UNCHANGED credits \/ (Affordable(t) /\ credits' = credits - UnitsOf[t])
      BY <1>2 DEF Dispatch, RetryText, Reserve
    <2> QED
      BY <1>0, <1>1, <2>1, <2>2 DEF Affordable, LeastAfter
  <1>3. ASSUME NEW w \in Senders, Refund(w)
        PROVE  DebtBounded'
    <2>1. dispatch[w].text \in Texts /\ credits' = credits + UnitsOf[dispatch[w].text]
          /\ UNCHANGED <<overwritten, corrected>>
      BY <1>0, <1>3, DispatchTypes DEF Refund, At
    <2>2. UnitsOf[dispatch[w].text] \in Nat
      BY <1>0, <2>1
    <2> QED
      BY <1>0, <1>1, <2>1, <2>2
  <1>4. ASSUME NEW p \in Purchases, CompletionWrites(p)
        PROVE  DebtBounded'
    <2>1. /\ completing[p] \in Int
          /\ credits' = completing[p] + PackageUnits
          /\ overwritten' = (overwritten \/ credits # completing[p])
          /\ UNCHANGED corrected
      BY <1>0, <1>4 DEF CompletionWrites, SmsTypeOK
    <2>2. CASE overwritten \/ credits # completing[p]
      BY <2>1, <2>2 DEF DebtBounded
    <2>3. CASE ~overwritten /\ credits = completing[p]
      BY <1>0, <2>1, <2>3 DEF DebtBounded
    <2> QED
      BY <2>2, <2>3
  <1>5. ASSUME NEW d \in Corrections, AdjustCredit(d)
        PROVE  DebtBounded'
    <2>1. /\ d \in Int /\ credits' = credits + d /\ UNCHANGED overwritten
          /\ corrected'.down = corrected.down + IF d < 0 THEN -d ELSE 0
      BY <1>5, CreditsAreUnits DEF AdjustCredit
    <2> QED
      BY <1>0, <2>1 DEF DebtBounded
  <1>6. ASSUME UNCHANGED <<credits, overwritten, corrected>>
        PROVE  DebtBounded'
    BY <1>0, <1>6 DEF DebtBounded
  <1> QED
    BY <1>2, <1>3, <1>4, <1>5, <1>6
    DEF SmsNext, Accept, Refuse, SaveText, KillSender, RequestPurchase, CompletionReads,
        CancelPurchase, Poll, DeviceActs, RequeueItem, LoseAck, Acknowledge, BesideOutbox,
        creditVars, Settings

-----------------------------------------------------------------------------
(* The device.                                                             *)

\* What is sent was handed out, and what is marked sent was sent.
LEMMA NextDevice ==
    ASSUME SmsInv, SmsNext, SmsTypeOK'
    PROVE  SentByDevice' /\ DeviceIsTrue'
  <1>0. /\ SmsTypeOK /\ SentByDevice /\ DeviceIsTrue
        /\ \A i \in Items : sentByDevice[i] \in Nat /\ handedOut[i] \in Nat
        /\ onDevice \subseteq Items
    BY DEF SmsInv, SmsSound, SmsTypeOK
  <1>1. ASSUME UNCHANGED <<sentByDevice, handedOut, onDevice, acks>>,
               \A i \in Items : itemStatus'[i] = "sent" => itemStatus[i] = "sent"
        PROVE  SentByDevice' /\ DeviceIsTrue'
    BY <1>0, <1>1 DEF SentByDevice, DeviceIsTrue
  <1>2. ASSUME NEW w \in Senders, Accept(w)
        PROVE  SentByDevice' /\ DeviceIsTrue'
    BY <1>0, <1>1, <1>2 DEF Accept, SmsTypeOK
  <1>3. ASSUME NEW i \in Items, NEW overdue \in SUBSET {u \in Items : itemStatus[u] = "sending"},
               NEW arrives \in BOOLEAN, Poll(i, overdue, arrives)
        PROVE  SentByDevice' /\ DeviceIsTrue'
    <2>1. /\ UNCHANGED <<sentByDevice, acks>>
          /\ \A j \in Items : /\ handedOut'[j] = IF j = i THEN handedOut[j] + 1 ELSE handedOut[j]
                              /\ itemStatus'[j] = "sent" => itemStatus[j] = "sent"
          /\ onDevice' \subseteq onDevice \cup {i}
      BY <1>0, <1>3 DEF Poll, SmsTypeOK
    <2> QED
      BY <1>0, <2>1 DEF SentByDevice, DeviceIsTrue
  <1>4. ASSUME NEW i \in Items, NEW result \in {"sent", "failed"}, DeviceActs(i, result)
        PROVE  SentByDevice' /\ DeviceIsTrue'
    <2>1. /\ UNCHANGED <<itemStatus, handedOut>>
          /\ i \in onDevice /\ onDevice' = onDevice \ {i}
          /\ acks' = acks \cup {<<i, result>>}
          /\ \A j \in Items : sentByDevice'[j] =
                IF j = i /\ result = "sent" THEN sentByDevice[j] + 1 ELSE sentByDevice[j]
      BY <1>0, <1>4 DEF DeviceActs, SmsTypeOK
    <2>2. sentByDevice[i] < handedOut[i]
      BY <1>0, <2>1 DEF DeviceIsTrue
    <2>3. \A j \in Items : sentByDevice'[j] >= sentByDevice[j] /\ sentByDevice'[j] \in Nat
      BY <1>0, <2>1
    <2>4. SentByDevice'
      <3> SUFFICES ASSUME NEW j \in Items
                   PROVE  /\ sentByDevice'[j] <= handedOut[j]
                          /\ itemStatus[j] = "sent" => sentByDevice'[j] >= 1
        BY <2>1 DEF SentByDevice
      <3>1. sentByDevice[j] <= handedOut[j] /\ (itemStatus[j] = "sent" => sentByDevice[j] >= 1)
        BY <1>0 DEF SentByDevice
      <3> QED
        BY <1>0, <2>1, <2>2, <2>3, <3>1
    <2>5. \A j \in onDevice' : sentByDevice'[j] < handedOut'[j]
      BY <1>0, <2>1 DEF DeviceIsTrue
    <2>6. \A j \in Items : <<j, "sent">> \in acks' => sentByDevice'[j] >= 1
      <3> SUFFICES ASSUME NEW j \in Items, <<j, "sent">> \in acks'
                   PROVE  sentByDevice'[j] >= 1
        OBVIOUS
      <3>1. <<j, "sent">> \in acks \/ (j = i /\ result = "sent")
        BY <2>1
      <3>2. CASE <<j, "sent">> \in acks
        BY <1>0, <2>3, <3>2 DEF DeviceIsTrue
      <3>3. CASE j = i /\ result = "sent"
        BY <1>0, <2>1, <3>3
      <3> QED
        BY <3>1, <3>2, <3>3
    <2> QED
      BY <2>4, <2>5, <2>6 DEF DeviceIsTrue
  <1>5. ASSUME NEW i \in Items, RequeueItem(i)
        PROVE  SentByDevice' /\ DeviceIsTrue'
    BY <1>0, <1>1, <1>5 DEF RequeueItem, SmsTypeOK
  <1>6. ASSUME NEW a \in acks, NEW again \in BOOLEAN, LoseAck(a) \/ Acknowledge(a, again)
        PROVE  SentByDevice' /\ DeviceIsTrue'
    <2>1. UNCHANGED <<sentByDevice, handedOut, onDevice>> /\ acks' \subseteq acks
      <3>1. acks' \in {acks, acks \ {a}}
        BY <1>6 DEF LoseAck, Acknowledge
      <3> QED
        BY <1>6, <3>1 DEF LoseAck, Acknowledge
    <2>2. a[1] \in Items /\ a = <<a[1], a[2]>>
      BY <1>0 DEF SmsTypeOK
    <2>3. itemStatus' = itemStatus \/ itemStatus' = [itemStatus EXCEPT ![a[1]] = a[2]]
      BY <1>6 DEF LoseAck, Acknowledge
    <2>4. \A j \in Items : itemStatus'[j] = "sent" =>
              itemStatus[j] = "sent" \/ <<j, "sent">> \in acks
      BY <1>0, <2>2, <2>3 DEF SmsTypeOK
    <2> QED
      BY <1>0, <2>1, <2>4 DEF SentByDevice, DeviceIsTrue
  <1>7. ASSUME UNCHANGED outboxVars
        PROVE  SentByDevice' /\ DeviceIsTrue'
    BY <1>1, <1>7 DEF outboxVars
  <1> QED
    BY <1>2, <1>3, <1>4, <1>5, <1>6, <1>7
    DEF SmsNext, Dispatch, RetryText, Refuse, Refund, SaveText, KillSender, RequestPurchase,
        CompletionReads, CompletionWrites, CancelPurchase, AdjustCredit, Settings

-----------------------------------------------------------------------------
(* The theorem.                                                            *)

\* Nothing was sent and nothing bought.
LEMMA InitSms == SmsInit => SmsInv
  <1> SUFFICES ASSUME SmsInit PROVE SmsInv
    OBVIOUS
  <1>1. SmsTypeOK
    <2>1. outbox \in Seq(Items) /\ IsInjective(outbox)
      BY DEF SmsInit, IsInjective
    <2>2. corrected \in Corrected /\ tries \in 0..MaxTries
      BY SmsBounds DEF SmsInit, Corrected
    <2>3. "none" \in PurchaseStatus /\ "none" \in TextStatus /\ "none" \in ItemStatus
      BY DEF PurchaseStatus, TextStatus, ItemStatus
    <2>4. credits \in Int /\ strandedUnits \in Nat
      BY CreditsAreUnits DEF SmsInit
    <2>8. viaDevice \in BOOLEAN /\ overwritten \in BOOLEAN
      BY DEF SmsInit
    <2>5. /\ completing \in [Purchases -> Int \cup {Idle}]
          /\ dispatch \in [Senders -> Dispatches \cup {Idle}]
          /\ onDevice \subseteq Items /\ acks \subseteq Items \X {"sent", "failed"}
      BY DEF SmsInit
    <2>6. /\ accepted \in [Texts -> Nat] /\ sentByDevice \in [Items -> Nat]
          /\ handedOut \in [Items -> Nat]
      BY DEF SmsInit
    <2>7. /\ purchaseStatus \in [Purchases -> PurchaseStatus] /\ textStatus \in [Texts -> TextStatus]
          /\ itemStatus \in [Items -> ItemStatus]
      BY <2>3 DEF SmsInit
    <2> QED
      BY <2>1, <2>2, <2>4, <2>5, <2>6, <2>7, <2>8 DEF SmsTypeOK
  <1>2. CreditsAccounted
    <2> DEFINE f == [w \in Senders |-> UnitsHeld(w)]
               g == [t \in Texts |-> accepted[t] * UnitsOf[t]]
               S == {p \in Purchases : purchaseStatus[p] = "completed"}
    <2>1. \A w \in Senders : f[w] = 0
      BY DEF SmsInit, UnitsHeld, At
    <2>2. \A t \in Texts : g[t] = 0
      <3>1. \A t \in Texts : UnitsOf[t] \in Nat
        BY CreditsAreUnits
      <3> QED
        BY <3>1 DEF SmsInit
    <2>3. S = {}
      BY DEF SmsInit
    <2>4. /\ UnitsInFlight = SumFunction(f) /\ UnitsUsed = SumFunction(g)
          /\ UnitsBought = PackageUnits * Cardinality(S)
          /\ DOMAIN f = Senders /\ DOMAIN g = Texts
      BY DEF UnitsInFlight, UnitsUsed, UnitsBought
    <2> HIDE DEF f, g, S
    <2>5. UnitsInFlight = 0 /\ UnitsUsed = 0 /\ UnitsBought = 0
      BY <2>1, <2>2, <2>3, <2>4, SmsIsFinite, SumZero, FS_EmptySet, CreditsAreUnits
    <2>6. credits = OpeningCredits /\ strandedUnits = 0 /\ corrected.sum = 0 /\ OpeningCredits \in Int
      BY CreditsAreUnits DEF SmsInit
    <2> QED
      BY <2>5, <2>6 DEF CreditsAccounted
  <1>3. DebtBounded
    BY CreditsAreUnits DEF SmsInit, DebtBounded
  <1>4. SentByDevice /\ DeviceIsTrue
    BY DEF SmsInit, SentByDevice, DeviceIsTrue
  <1>5. OfferedWithinTries
    <2>1. \A t \in Texts : Calling(t) = {}
      BY DEF SmsInit, Calling
    <2>2. \A t \in Texts : accepted[t] = 0 /\ Cardinality(Calling(t)) = 0 /\ tries = 0
      BY <2>1, FS_EmptySet DEF SmsInit
    <2> QED
      BY <2>2 DEF OfferedWithinTries
  <1>6. QueuedWhenAccepted /\ CompletingIsPending
    BY DEF SmsInit, QueuedWhenAccepted, CompletingIsPending
  <1> QED
    BY <1>1, <1>2, <1>3, <1>4, <1>5, <1>6 DEF SmsInv, SmsSound

\* Every credit of every store is accounted for, its debt is bounded, and what
\* the device reports as sent it sent, however dispatches, retries, killed
\* workers, purchases and corrections overlap.
THEOREM SmsIsSound == SmsSpec => []SmsSound
  <1>1. SmsInv /\ SmsNext => SmsInv'
    <2> SUFFICES ASSUME SmsInv, SmsNext PROVE SmsInv'
      OBVIOUS
    <2>1. SmsTypeOK /\ OfferedWithinTries /\ QueuedWhenAccepted
      BY DEF SmsInv, SmsSound
    <2>2. SmsTypeOK' /\ OfferedWithinTries' /\ QueuedWhenAccepted'
      BY <2>1, SenderTypes, BesideTypes DEF SmsNext
    <2> QED
      BY <2>2, NextAccount, NextDebt, NextDevice DEF SmsInv, SmsSound
  <1>2. SmsInv /\ UNCHANGED smsVars => SmsInv'
    BY DEF smsVars, creditVars, outboxVars, SmsInv, SmsSound, SmsTypeOK, CreditsAccounted,
           UnitsInFlight, UnitsHeld, At, UnitsUsed, UnitsBought, DebtBounded, SentByDevice,
           OfferedWithinTries, Calling, QueuedWhenAccepted, CompletingIsPending, DeviceIsTrue
  <1>3. SmsInv => SmsSound
    BY DEF SmsInv
  <1> QED
    BY <1>1, <1>2, <1>3, InitSms, PTL DEF SmsSpec

-----------------------------------------------------------------------------
(* The subscription's row.                                                 *)

\* A subscription row: the current one until it ends, and a trial has an end.
SubRow(s) ==
    /\ s \in Subscriptions
    /\ s.current <=> s.status \notin Terminal
    /\ s.status = "trialing" => s.deadline \in Nat

\* What a service may make of the row s.
Follows(s, t) ==
    /\ t.status # s.status => t.status \in AllowedTransitions[s.status]
    /\ t.status \in {"pending", "trialing"} => t.status = s.status

\* A row made of the row s that keeps its period.
Moves(s, t) == SubRow(t) /\ Follows(s, t) /\ t.end = s.end

\* The table of the transitions, status by status.
LEMMA TransitionTable ==
    /\ Statuses = {"pending", "trialing", "active", "grace_period", "past_due", "suspended",
                   "cancelled", "expired"}
    /\ AllowedTransitions["pending"] = {"trialing", "active", "cancelled"}
    /\ AllowedTransitions["trialing"] = {"active", "grace_period", "expired", "cancelled"}
    /\ AllowedTransitions["active"] =
           {"grace_period", "past_due", "suspended", "cancelled", "expired"}
    /\ AllowedTransitions["grace_period"] =
           {"active", "past_due", "suspended", "expired", "cancelled"}
    /\ AllowedTransitions["past_due"] =
           {"active", "grace_period", "suspended", "expired", "cancelled"}
    /\ AllowedTransitions["suspended"] = {"active", "expired", "cancelled"}
    /\ AllowedTransitions["cancelled"] = {}
    /\ AllowedTransitions["expired"] = {}
  BY DEF Statuses, AllowedTransitions

\* What has ended stays ended; whatever has not may become active.
LEMMA TransitionRules ==
    ASSUME NEW from \in Statuses
    PROVE  /\ from \in Terminal => AllowedTransitions[from] = {}
           /\ from \notin Terminal /\ from # "active" => "active" \in AllowedTransitions[from]
           /\ from \in {"active", "grace_period", "past_due"} =>
                  "suspended" \in AllowedTransitions[from]
           /\ from \in {"active", "trialing"} => "grace_period" \in AllowedTransitions[from]
           /\ from = "trialing" => "expired" \in AllowedTransitions[from]
  BY TransitionTable DEF Terminal

\* What _transition makes of a row is a row.
LEMMA Becoming ==
    ASSUME NEW s, SubRow(s), NEW c \in Subscriptions, c.status = s.status, c.current = s.current,
           NEW to \in Statuses, to \notin {"pending", "trialing"}, MayBecome(s, to)
    PROVE  /\ SubRow(Become(s, c, to)) /\ Follows(s, Become(s, c, to))
           /\ Become(s, c, to).status = to
           /\ Become(s, c, to).end = IF s.status = to THEN s.end ELSE c.end
           /\ Become(s, c, to).version = IF s.status = to THEN s.version ELSE c.version
  <1>1. CASE s.status = to
    BY <1>1 DEF Become, Follows
  <1>2. CASE s.status # to
    <2> DEFINE r == [c EXCEPT !.status = to, !.current = @ /\ to \notin Terminal]
    <2>1. to \in AllowedTransitions[s.status] /\ s.status \in Statuses
      BY <1>2 DEF MayBecome, SubRow, Subscriptions
    <2>2. s.status \notin Terminal
      BY <2>1, TransitionRules
    <2>3. s.current = TRUE
      BY <2>2 DEF SubRow, Subscriptions
    <2>4. /\ r \in Subscriptions
          /\ r.status = to /\ r.end = c.end /\ r.version = c.version
          /\ r.current = (c.current /\ to \notin Terminal)
      BY DEF Subscriptions
    <2>5. Become(s, c, to) = r
      BY <1>2 DEF Become
    <2> HIDE DEF r
    <2>6. r.current <=> r.status \notin Terminal
      BY <2>3, <2>4
    <2> QED
      BY <1>2, <2>1, <2>4, <2>5, <2>6 DEF SubRow, Follows
  <1> QED
    BY <1>1, <1>2

\* The services' transitions.
LEMMA Transitions ==
    ASSUME NEW s, SubRow(s), now \in Nat
    PROVE  /\ \A days \in Nat : MayBecome(s, "grace_period") => Moves(s, InGrace(s, days))
           /\ MayBecome(s, "suspended") => Moves(s, Suspended(s))
           /\ MayBecome(s, "active") => Moves(s, Resumed(s))
           /\ MayBecome(s, "cancelled") => Moves(s, Cancelled(s))
           /\ MayBecome(s, "expired") => Moves(s, Expired(s))
  <1>0. s \in Subscriptions /\ NoTime \in Dates /\ \A days \in Nat : now + days \in Dates
    BY DEF SubRow, Dates
  <1>1. ASSUME NEW days \in Nat, MayBecome(s, "grace_period") PROVE Moves(s, InGrace(s, days))
    <2> DEFINE c == [s EXCEPT !.deadline = now + days]
    <2>1. c \in Subscriptions /\ c.status = s.status /\ c.current = s.current /\ c.end = s.end
      <3> DEFINE d == now + days
      <3>1. d \in Dates
        BY <1>0
      <3> HIDE DEF d
      <3> QED
        BY <1>0, <3>1 DEF Subscriptions, d
    <2>2. InGrace(s, days) = Become(s, c, "grace_period")
      BY DEF InGrace
    <2> HIDE DEF c
    <2> QED
      BY <1>1, <2>1, <2>2, Becoming, TransitionTable DEF Moves
  <1> DEFINE c == [s EXCEPT !.deadline = NoTime]
             d == [s EXCEPT !.deadline = NoTime, !.cancelAtEnd = FALSE]
  <1>2. /\ c \in Subscriptions /\ c.status = s.status /\ c.current = s.current /\ c.end = s.end
        /\ d \in Subscriptions /\ d.status = s.status /\ d.current = s.current /\ d.end = s.end
    BY <1>0 DEF Subscriptions
  <1>3. /\ Suspended(s) = Become(s, c, "suspended") /\ Resumed(s) = Become(s, c, "active")
        /\ Cancelled(s) = Become(s, d, "cancelled") /\ Expired(s) = Become(s, c, "expired")
    BY DEF Suspended, Resumed, Cancelled, Expired
  <1> HIDE DEF c, d
  <1> QED
    BY <1>1, <1>2, <1>3, Becoming, TransitionTable DEF Moves

\* Renewing and changing the plan.
LEMMA Renewing ==
    ASSUME NEW s, SubRow(s), NEW end \in Dates, NEW v \in Versions, MayRenew(s)
    PROVE  /\ SubRow(Renewed(s, end)) /\ Follows(s, Renewed(s, end))
           /\ Renewed(s, end).end = end /\ Renewed(s, end).status = "active"
           /\ Moves(s, OnVersion(s, v))
           /\ s.status \in {"pending", "trialing"} =>
                  /\ SubRow(ActivatedUntil(OnVersion(s, v), end))
                  /\ Follows(s, ActivatedUntil(OnVersion(s, v), end))
                  /\ ActivatedUntil(OnVersion(s, v), end).status = "active"
  <1>0. s \in Subscriptions /\ NoTime \in Dates /\ s.status \in Statuses /\ s.status \notin Terminal
    BY DEF SubRow, Dates, Subscriptions, MayRenew
  <1>1. SubRow(Renewed(s, end)) /\ Renewed(s, end).end = end /\ Renewed(s, end).status = "active"
    <2> DEFINE r == Renewed(s, end)
    <2>1. r \in Subscriptions /\ r.status = "active" /\ r.current = s.current /\ r.end = end
      BY <1>0, TransitionTable DEF Subscriptions, Renewed
    <2> HIDE DEF r
    <2>2. SubRow(r)
      BY <1>0, <2>1 DEF SubRow, Terminal
    <2> QED
      BY <2>1, <2>2 DEF r
  <1>2. Follows(s, Renewed(s, end))
    BY <1>0, <1>1, TransitionRules DEF Follows
  <1> DEFINE t == OnVersion(s, v)
  <1>3. t \in Subscriptions /\ t.status = s.status /\ t.current = s.current /\ t.end = s.end
        /\ t.deadline = s.deadline
    BY <1>0 DEF OnVersion, Subscriptions
  <1> HIDE DEF t
  <1>4. Moves(s, t) /\ SubRow(t)
    BY <1>3 DEF Moves, Follows, SubRow
  <1>5. ASSUME s.status \in {"pending", "trialing"}
        PROVE  /\ SubRow(ActivatedUntil(t, end)) /\ Follows(s, ActivatedUntil(t, end))
               /\ ActivatedUntil(t, end).status = "active"
    <2> DEFINE c == [t EXCEPT !.end = end, !.deadline = NoTime]
    <2>1. c \in Subscriptions /\ c.status = t.status /\ c.current = t.current
      BY <1>0, <1>3 DEF Subscriptions
    <2>2. MayBecome(t, "active") /\ "active" \in Statuses
      BY <1>0, <1>3, TransitionRules, TransitionTable DEF MayBecome
    <2>3. ActivatedUntil(t, end) = Become(t, c, "active")
      BY DEF ActivatedUntil
    <2> HIDE DEF c
    <2>4. /\ SubRow(ActivatedUntil(t, end)) /\ Follows(t, ActivatedUntil(t, end))
          /\ ActivatedUntil(t, end).status = "active"
      BY <1>4, <2>1, <2>2, <2>3, Becoming
    <2> QED
      BY <1>3, <2>4 DEF Follows
  <1> QED
    BY <1>1, <1>2, <1>4, <1>5 DEF t

-----------------------------------------------------------------------------
(* What the billing keeps true.                                            *)

\* An invoice is owed in full until it is paid in full.
Owed ==
    \A i \in Made :
        IF invoices[i].status = "paid" THEN invoices[i].paid = Price[invoices[i].version]
        ELSE invoices[i].paid = 0 /\ invoices[i].due = Price[invoices[i].version]

\* One attempt paid each paid invoice, and none any other.
SettledOnce ==
    \A i \in Made :
        IF invoices[i].status = "paid" THEN \E a \in Attempts : SucceededOn(i) = {a}
        ELSE SucceededOn(i) = {}

\* Attempts are on invoices, and only paid ones have an event.
InvoicesKnown ==
    /\ \A a \in Tried : attempts[a].invoice \in Made
    /\ \A i \in applied : i \in Made /\ invoices[i].status = "paid"

\* The dunning command has not given up the invoice it is about to pursue.
ListedIsPursued == listed # Nothing => listed \in Made /\ invoices[listed].status # "uncollectible"

\* Nothing is renewed before the subscription is active.
TrialIsFirst ==
    sub.status \in {"pending", "trialing"} =>
        /\ renewing = Nothing
        /\ \A i \in Made : invoices[i].kind # "renewal"

\* As long as no administrator interferes: an unpaid renewal is the one of the next
\* period, what was paid for has been given, and a stale command finds its invoice.
PeriodOf(bill) ==
    /\ bill.start = NoTime => bill.end = NoTime
    /\ bill.start # NoTime /\ bill.end # NoTime => bill.start <= bill.end

InTurn(bill, end) ==
    /\ bill.status # "paid" => bill.start = end
    /\ bill.status = "paid" /\ end # NoTime => bill.end # NoTime /\ bill.end <= end

RenewalsFollow ==
    controls = 0 =>
        /\ extension = Nothing
        /\ \A i \in Made : invoices[i].kind = "renewal" =>
              PeriodOf(invoices[i]) /\ InTurn(invoices[i], sub.end)
        /\ PaidRenewals # {} => \E i \in PaidRenewals : sub.end = invoices[i].end
        /\ renewing # Nothing =>
              renewing.end = sub.end \/ RenewalFrom(renewing.end) # {}

\* Rows in every place, and a decision that is one.
RowsInPlace ==
    /\ DOMAIN invoices = Invoices /\ DOMAIN attempts = Attempts
    /\ due.action = "none" => due = NoDecision

BillInv ==
    /\ BillingTypeOK /\ SubRow(sub) /\ RowsInPlace
    /\ Owed /\ SettledOnce /\ InvoicesKnown
    /\ OneRenewalPerPeriod /\ GivenUpAfterSchedule /\ ListedIsPursued
    /\ TrialIsFirst /\ RenewalsFollow

-----------------------------------------------------------------------------
(* The subscription's row under each step.                                 *)

\* The services of the module Subscription.
LEMMA ServiceRows ==
    ASSUME BillInv, ServiceStep
    PROVE  /\ now' \in 0 .. MaxNow /\ now <= now' /\ controls' \in 0 .. MaxControls
           /\ due' \in [action : {"none", "cancelled", "grace", "suspended", "expired"}, days : Nat]
           /\ due'.action = "none" => due' = NoDecision
           /\ extension' \in Nat \cup {Nothing}
           /\ SubRow(sub') /\ Follows(sub, sub')
           /\ controls' = 0 => controls = 0 /\ sub'.end = sub.end /\ extension' = Nothing
  <1>0. /\ SubRow(sub) /\ now \in 0 .. MaxNow /\ controls \in 0 .. MaxControls
        /\ now \in Nat /\ controls \in Nat /\ MaxNow \in Nat /\ MaxControls \in Nat
        /\ due \in [action : {"none", "cancelled", "grace", "suspended", "expired"}, days : Nat]
        /\ due.action = "none" => due = NoDecision
        /\ extension \in Nat \cup {Nothing}
        /\ controls = 0 => extension = Nothing
    BY PlansAreNatural DEF BillInv, BillingTypeOK, RowsInPlace, RenewalsFollow
  <1>00. /\ now \in 0 .. MaxNow /\ controls \in 0 .. MaxControls
         /\ now \in Nat /\ controls \in Nat /\ MaxNow \in Nat /\ MaxControls \in Nat /\ now <= now
    BY <1>0
  <1>01. extension \in Nat \cup {Nothing} /\ (controls = 0 => extension = Nothing)
    BY <1>0
  <1>1. /\ sub \in Subscriptions /\ sub.version \in Versions /\ GraceDays[sub.version] \in Nat
        /\ sub.end \in Dates /\ sub.status \in Statuses /\ sub.deadline \in Dates
    BY <1>0, PlansAreNatural DEF SubRow, Subscriptions
  <1>2. NoDecision \in [action : {"none", "cancelled", "grace", "suspended", "expired"}, days : Nat]
    BY DEF NoDecision
  <1>3. ASSUME UNCHANGED <<now, due, extension>>, Intervene, SubRow(sub'), Follows(sub, sub')
        PROVE  /\ controls' \in 0 .. MaxControls /\ controls' # 0
               /\ now' \in 0 .. MaxNow /\ now <= now' /\ extension' \in Nat \cup {Nothing}
    <2>1. controls' = controls + 1 /\ controls < MaxControls
      BY <1>3 DEF Intervene
    <2>2. controls' \in 0 .. MaxControls /\ controls' # 0
      BY <1>00, <2>1
    <2> QED
      BY <1>00, <1>01, <1>3, <2>2
  <1>4. CASE FindDue
    <2>1. DueAction(sub) \in {"cancelled", "grace", "suspended", "expired"}
      BY <1>4 DEF FindDue, DueAction
    <2>2. due' = [action |-> DueAction(sub), days |-> GraceDays[sub.version]]
      BY <1>4 DEF FindDue
    <2>3. due' \in [action : {"none", "cancelled", "grace", "suspended", "expired"}, days : Nat]
          /\ due'.action # "none"
      BY <1>1, <2>1, <2>2
    <2>4. UNCHANGED <<now, controls, sub, extension>>
      BY <1>4 DEF FindDue
    <2> QED
      BY <1>0, <1>00, <1>01, <2>3, <2>4 DEF Follows
  <1>5. CASE ApplyDue
    <2>1. due.action \in {"cancelled", "grace", "suspended", "expired"} /\ due.days \in Nat
      BY <1>0, <1>5 DEF ApplyDue
    <2>2. sub' = sub \/ Moves(sub, sub')
      <3>1. sub' = Applied(sub)
        BY <1>5 DEF ApplyDue
      <3> QED
        BY <1>0, <2>1, <3>1, Transitions DEF Applied
    <2>3. SubRow(sub') /\ Follows(sub, sub') /\ sub'.end = sub.end
      BY <1>0, <2>2 DEF Moves, Follows
    <2>4. UNCHANGED <<now, controls, extension>> /\ due' = NoDecision
      BY <1>5 DEF ApplyDue
    <2> QED
      BY <1>00, <1>01, <1>2, <2>3, <2>4
  <1>6. CASE AdminSuspend \/ AdminResume \/ AdminCancel
    <2>1. UNCHANGED <<now, due, extension>> /\ Intervene
      BY <1>6 DEF AdminSuspend, AdminResume, AdminCancel, Administer
    <2>2. Moves(sub, sub')
      BY <1>0, <1>6, Transitions DEF AdminSuspend, AdminResume, AdminCancel, Administer
    <2> QED
      BY <1>0, <1>3, <2>1, <2>2 DEF Moves
  <1>7. CASE ExtendTrial \/ SetTrialEnd
    <2>1. UNCHANGED <<now, due, extension>> /\ Intervene
      BY <1>7 DEF ExtendTrial, SetTrialEnd, Administer
    <2>2. sub.status = "trialing" /\ \E d \in Nat : sub' = [sub EXCEPT !.deadline = d]
      <3>1. CASE ExtendTrial
        <4>1. PICK days \in ExtraDays :
                  sub.status = "trialing" /\ sub' = [sub EXCEPT !.deadline = @ + days]
          BY <3>1 DEF ExtendTrial, Administer
        <4>2. days \in Nat /\ sub.deadline \in Nat
          BY <1>0, <4>1, PlansAreNatural DEF SubRow
        <4>3. sub.deadline + days \in Nat
          BY <4>2
        <4>4. sub' = [sub EXCEPT !.deadline = sub.deadline + days]
          BY <4>1
        <4> QED
          BY <4>1, <4>3, <4>4
      <3>2. CASE SetTrialEnd
        BY <3>2, PlansAreNatural DEF SetTrialEnd, Administer
      <3> QED
        BY <1>7, <3>1, <3>2
    <2>3. PICK d \in Nat : sub' = [sub EXCEPT !.deadline = d]
      BY <2>2
    <2>4. /\ sub' \in Subscriptions /\ sub'.status = sub.status /\ sub'.current = sub.current
          /\ sub'.deadline = d
      BY <1>1, <2>3 DEF Subscriptions, Dates
    <2>5. SubRow(sub') /\ Follows(sub, sub')
      BY <1>0, <2>4 DEF SubRow, Follows
    <2> QED
      BY <1>0, <1>3, <2>1, <2>5
  <1>8. CASE EndTrialNow
    <2>1. UNCHANGED <<now, due, extension>> /\ Intervene
      BY <1>8 DEF EndTrialNow, Administer
    <2>2. MayBecome(sub, "grace_period") /\ MayBecome(sub, "expired")
      BY <1>1, <1>8, TransitionRules DEF EndTrialNow, MayBecome
    <2>3. Moves(sub, sub')
      BY <1>0, <1>1, <1>8, <2>2, Transitions DEF EndTrialNow, Administer
    <2> QED
      BY <1>0, <1>3, <2>1, <2>3 DEF Moves
  <1>9. CASE PlanExtension
    <2>1. UNCHANGED <<now, sub, due>> /\ Intervene
      BY <1>9 DEF PlanExtension
    <2>2. PICK days \in ExtraDays : extension' = (IF sub.end = NoTime THEN now ELSE sub.end) + days
      BY <1>9 DEF PlanExtension
    <2>3. days \in Nat /\ (IF sub.end = NoTime THEN now ELSE sub.end) \in Nat
      BY <1>0, <1>1, PlansAreNatural DEF Dates
    <2>4. extension' \in Nat
      BY <2>2, <2>3
    <2>5. controls' \in 0 .. MaxControls /\ controls' # 0
      BY <1>0, <2>1 DEF Intervene
    <2> QED
      BY <1>0, <2>1, <2>4, <2>5 DEF Follows
  <1>10. CASE Extend
    <2>1. UNCHANGED <<now, controls, due>> /\ extension' = Nothing /\ extension \in Nat /\ controls # 0
      BY <1>01, <1>10 DEF Extend
    <2>2. sub' = IF MayRenew(sub) THEN Renewed(sub, extension) ELSE sub
      BY <1>10 DEF Extend
    <2>3. SubRow(sub') /\ Follows(sub, sub')
      <3>1. extension \in Dates
        BY <2>1 DEF Dates
      <3> QED
        BY <1>0, <1>1, <2>2, <3>1, Renewing DEF Follows
    <2> QED
      BY <1>0, <2>1, <2>3
  <1>11. CASE ExecutePlanChange
    <2>1. UNCHANGED <<now, due, extension>> /\ Intervene
      BY <1>11 DEF ExecutePlanChange, Administer
    <2>2. PICK target \in Versions : MayRenew(sub) /\ sub' = OnVersion(sub, target)
      BY <1>11 DEF ExecutePlanChange, Administer
    <2>3. Moves(sub, sub')
      BY <1>0, <1>1, <2>2, Renewing
    <2> QED
      BY <1>0, <1>3, <2>1, <2>3 DEF Moves
  <1>12. CASE Tick
    <2>1. UNCHANGED <<controls, sub, due, extension>> /\ now < MaxNow /\ now' = now + 1
      BY <1>12 DEF Tick
    <2> QED
      <3>1. now' \in 0 .. MaxNow /\ now <= now'
        BY <1>00, <2>1
      <3> QED
        BY <1>0, <1>00, <1>01, <2>1, <3>1 DEF Follows
  <1> QED
    BY <1>4, <1>5, <1>6, <1>7, <1>8, <1>9, <1>10, <1>11, <1>12 DEF ServiceStep

\* A payment activates or renews.
LEMMA PaymentRows ==
    ASSUME BillInv, NEW i \in Made, i \notin applied, MayRenew(sub), ActivateOrRenew(i)
    PROVE  /\ SubRow(sub') /\ Follows(sub, sub')
           /\ invoices[i].kind = "renewal" => sub'.end = invoices[i].end /\ sub'.status = "active"
           /\ invoices[i].kind # "renewal" =>
                  sub'.end = sub.end \/ sub.status \in {"pending", "trialing"}
           /\ sub'.status \in {"pending", "trialing"} => sub.status \in {"pending", "trialing"}
  <1>1. invoices[i] \in Invoice /\ SubRow(sub) /\ now \in Nat
    BY DEF BillInv, BillingTypeOK, Made
  <1>2. invoices[i].end \in Dates /\ invoices[i].version \in Versions
    BY <1>1 DEF Invoice
  <1>3. PeriodEnd(now, invoices[i].version) \in Dates
    <2>1. Interval[invoices[i].version] \in Nat
      BY <1>2, PlansAreNatural
    <2> QED
      BY <1>1, <2>1 DEF PeriodEnd, Dates
  <1>4. CASE invoices[i].kind = "renewal"
    BY <1>1, <1>2, <1>4, Renewing DEF ActivateOrRenew
  <1>5. CASE invoices[i].kind # "renewal"
    <2>1. CASE sub.status \in {"pending", "trialing"}
      BY <1>1, <1>2, <1>3, <1>5, <2>1, Renewing DEF ActivateOrRenew
    <2>2. CASE sub.status \notin {"pending", "trialing"}
      <3>1. Moves(sub, sub')
        BY <1>1, <1>2, <1>5, <2>2, Renewing DEF ActivateOrRenew
      <3> QED
        BY <1>5, <2>2, <3>1 DEF Moves, Follows
    <2> QED
      BY <2>1, <2>2
  <1> QED
    BY <1>4, <1>5

\* Dunning suspends.
LEMMA DunningRows ==
    ASSUME SubRow(sub), now \in Nat, NEW stage
    PROVE  Moves(sub, Escalated(sub, stage))
  <1> DEFINE warned == IF stage = 1 /\ sub.status = "active"
                       THEN InGrace(sub, GraceDays[sub.version]) ELSE sub
  <1>0. sub.status \in Statuses /\ GraceDays[sub.version] \in Nat
    BY PlansAreNatural DEF SubRow, Subscriptions
  <1>1. Moves(sub, sub)
    BY DEF Moves, Follows
  <1>2. /\ Moves(sub, warned)
        /\ warned = sub \/ (sub.status = "active" /\ warned.status = "grace_period")
    <2>1. CASE stage = 1 /\ sub.status = "active"
      <3>1. MayBecome(sub, "grace_period")
        BY <1>0, <2>1, TransitionRules DEF MayBecome
      <3>2. Moves(sub, warned)
        BY <1>0, <2>1, <3>1, Transitions
      <3>3. warned.status = "grace_period"
        <4>1. [sub EXCEPT !.deadline = now + GraceDays[sub.version]] \in Subscriptions
          <5> DEFINE d == now + GraceDays[sub.version]
          <5>1. d \in Dates
            BY <1>0 DEF Dates
          <5> HIDE DEF d
          <5> QED
            BY <5>1 DEF SubRow, Subscriptions, d
        <4> QED
          BY <2>1, <4>1 DEF InGrace, Become, Subscriptions
      <3> QED
        BY <2>1, <3>2, <3>3
    <2>2. CASE ~(stage = 1 /\ sub.status = "active")
      BY <1>1, <2>2
    <2> QED
      BY <2>1, <2>2
  <1>3. Escalated(sub, stage) =
            IF stage = Len(Schedule) /\ sub.status \in {"active", "grace_period", "past_due"}
            THEN Suspended(warned) ELSE warned
    BY DEF Escalated
  <1> HIDE DEF warned
  <1>4. ASSUME sub.status \in {"active", "grace_period", "past_due"}
        PROVE  Moves(sub, Suspended(warned))
    <2>1. MayBecome(warned, "suspended") /\ "suspended" \in AllowedTransitions[sub.status]
      BY <1>0, <1>2, <1>4, TransitionRules, TransitionTable DEF MayBecome
    <2>2. Moves(warned, Suspended(warned)) /\ Suspended(warned).status = "suspended"
      <3>1. SubRow(warned)
        BY <1>2 DEF Moves
      <3>2. [warned EXCEPT !.deadline = NoTime] \in Subscriptions
        BY <3>1 DEF SubRow, Subscriptions, Dates
      <3>3. Suspended(warned).status = "suspended"
        BY <3>2 DEF Suspended, Become, Subscriptions
      <3> QED
        BY <2>1, <3>1, <3>3, Transitions
    <2> QED
      BY <1>2, <2>1, <2>2 DEF Moves, Follows
  <1> QED
    BY <1>2, <1>3, <1>4

-----------------------------------------------------------------------------
(* The invoices and the attempts under each step.                          *)

\* What no step changes of an invoice.
SameTerms(b, c) ==
    /\ b.kind = c.kind /\ b.version = c.version /\ b.start = c.start /\ b.end = c.end
    /\ b.dueAt = c.dueAt

\* The tables are in place, and the money is as it should be.
MoneyInv ==
    /\ DOMAIN invoices = Invoices /\ DOMAIN attempts = Attempts
    /\ \A i \in Invoices : invoices[i] = Nothing \/ invoices[i] \in Invoice
    /\ \A a \in Attempts : attempts[a] = Nothing \/ attempts[a] \in Attempt
    /\ applied \subseteq Invoices
    /\ Owed /\ SettledOnce /\ InvoicesKnown

\* Invoices get another status, none of them being paid, and an attempt may begin.
Restates ==
    /\ UNCHANGED applied /\ DOMAIN invoices' = Invoices
    /\ \A i \in Invoices : invoices'[i] # invoices[i] =>
          /\ i \in Made /\ invoices[i].status # "paid"
          /\ \E st \in Payable \cup {"void", "uncollectible"} :
                invoices'[i] = [invoices[i] EXCEPT !.status = st]
    /\ UNCHANGED attempts \/ \E a \in Attempts, i \in Made :
                                /\ attempts[a] = Nothing /\ invoices[i].status # "paid"
                                /\ attempts' = [attempts EXCEPT ![a] = AttemptOn(i)]

\* Another status.
LEMMA RestatedRow ==
    ASSUME NEW b \in Invoice, NEW st \in Payable \cup {"void", "uncollectible"}
    PROVE  LET c == [b EXCEPT !.status = st]
           IN  /\ c \in Invoice /\ SameTerms(b, c) /\ c.status = st
               /\ c.paid = b.paid /\ c.due = b.due
  BY DEF Invoice, SameTerms, Payable

\* A payment of what is due pays the invoice.
LEMMA PaidRow ==
    ASSUME NEW b \in Invoice, b.paid = 0, b.due = Price[b.version], NEW amount, amount = b.due
    PROVE  LET c == Paid(b, amount)
           IN  /\ c \in Invoice /\ SameTerms(b, c) /\ c.status = "paid"
               /\ c.paid = Price[b.version]
  <1>1. b.version \in Versions /\ Price[b.version] \in Nat
    BY PlansAreNatural DEF Invoice
  <1> DEFINE p == Price[b.version]
             r == IF p - (b.paid + amount) > 0 THEN p - (b.paid + amount) ELSE 0
  <1>2. r = 0 /\ b.paid + amount = p
    BY <1>1
  <1>3. Paid(b, amount) = [b EXCEPT !.paid = b.paid + amount, !.due = r,
                                    !.status = IF r = 0 THEN "paid" ELSE b.status]
    BY DEF Paid
  <1> HIDE DEF r
  <1>4. Paid(b, amount) = [b EXCEPT !.paid = p, !.due = 0, !.status = "paid"]
    BY <1>2, <1>3
  <1>5. p \in Nat
    BY <1>1
  <1> HIDE DEF p
  <1>6. /\ Paid(b, amount) \in Invoice /\ SameTerms(b, Paid(b, amount))
        /\ Paid(b, amount).status = "paid" /\ Paid(b, amount).paid = p
    BY <1>4, <1>5 DEF Invoice, SameTerms
  <1> QED
    BY <1>6 DEF p

\* An attempt is one of the invoice's amount.
LEMMA AttemptRow ==
    ASSUME MoneyInv, NEW i \in Made
    PROVE  /\ AttemptOn(i) \in Attempt /\ AttemptOn(i) # Nothing
           /\ AttemptOn(i).invoice = i /\ AttemptOn(i).status = "pending"
           /\ AttemptOn(i).amount = invoices[i].due
  <1>1. i \in Invoices /\ invoices[i] \in Invoice
    BY DEF MoneyInv, Made
  <1>2. invoices[i].due \in Nat
    BY <1>1 DEF Invoice
  <1>3. AttemptOn(i) \in Attempt /\ AttemptOn(i).invoice = i /\ AttemptOn(i).status = "pending"
        /\ AttemptOn(i).amount = invoices[i].due
    BY <1>1, <1>2 DEF AttemptOn, Attempt
  <1> QED
    BY <1>3, NothingIsNoRow

\* Steps that pay nothing.
LEMMA Restating ==
    ASSUME MoneyInv, Restates
    PROVE  /\ MoneyInv' /\ Made' = Made
           /\ \A i \in Made : SameTerms(invoices[i], invoices'[i])
           /\ \A i \in Made : (invoices'[i].status = "paid") <=> (invoices[i].status = "paid")
           /\ \A i \in Made : SucceededOn(i)' = SucceededOn(i)
  <1>1. ASSUME NEW i \in Invoices, i \in Made
        PROVE  /\ invoices[i] \in Invoice /\ invoices'[i] \in Invoice
               /\ SameTerms(invoices[i], invoices'[i])
               /\ invoices'[i].status = "paid" <=> invoices[i].status = "paid"
               /\ invoices'[i].paid = invoices[i].paid /\ invoices'[i].due = invoices[i].due
    <2>1. invoices[i] \in Invoice
      BY <1>1 DEF MoneyInv, Made
    <2>2. CASE invoices'[i] = invoices[i]
      BY <2>1, <2>2 DEF SameTerms
    <2>3. CASE invoices'[i] # invoices[i]
      <3>1. invoices[i].status # "paid" /\ \E st \in Payable \cup {"void", "uncollectible"} :
                invoices'[i] = [invoices[i] EXCEPT !.status = st]
        BY <2>3 DEF Restates
      <3>2. PICK st \in Payable \cup {"void", "uncollectible"} :
                invoices'[i] = [invoices[i] EXCEPT !.status = st]
        BY <3>1
      <3>3. st # "paid"
        BY DEF Payable
      <3> QED
        BY ZenonT(30), <2>1, <3>1, <3>2, <3>3, RestatedRow
    <2> QED
      BY <2>2, <2>3
  <1>2. \A i \in Invoices : i \notin Made => invoices'[i] = Nothing
    BY DEF Restates, Made
  <1>3. Made' = Made
    BY <1>1, <1>2, NothingIsNoRow DEF Made
  <1>4. Owed'
    BY <1>1, <1>3 DEF Owed, MoneyInv, SameTerms, Made
  <1>5. /\ DOMAIN attempts' = Attempts
        /\ \A a \in Attempts : attempts'[a] = attempts[a]
               \/ (attempts[a] = Nothing /\ attempts'[a] # Nothing /\ attempts'[a] \in Attempt
                     /\ attempts'[a].status = "pending" /\ attempts'[a].invoice \in Made)
    <2>1. CASE UNCHANGED attempts
      BY <2>1 DEF MoneyInv
    <2>2. CASE ~UNCHANGED attempts
      <3>1. PICK a \in Attempts, i \in Made :
                attempts[a] = Nothing /\ attempts' = [attempts EXCEPT ![a] = AttemptOn(i)]
        BY <2>2 DEF Restates
      <3> QED
        BY <3>1, AttemptRow DEF MoneyInv
    <2> QED
      BY <2>1, <2>2
  <1>6. \A i \in Made : SucceededOn(i)' = SucceededOn(i)
    BY <1>5 DEF SucceededOn, Tried
  <1>7. SettledOnce'
    BY <1>1, <1>3, <1>6 DEF SettledOnce, MoneyInv, Made
  <1>8. InvoicesKnown' /\ applied' \subseteq Invoices
    BY <1>1, <1>3, <1>5 DEF InvoicesKnown, MoneyInv, Restates, Tried
  <1>9. /\ \A i \in Invoices : invoices'[i] = Nothing \/ invoices'[i] \in Invoice
        /\ \A a \in Attempts : attempts'[a] = Nothing \/ attempts'[a] \in Attempt
        /\ DOMAIN invoices' = Invoices
    BY <1>1, <1>2, <1>5 DEF MoneyInv, Restates
  <1>10. MoneyInv'
    BY <1>4, <1>5, <1>7, <1>8, <1>9 DEF MoneyInv
  <1>11. \A i \in Made : i \in Invoices
    BY DEF Made
  <1> QED
    BY <1>1, <1>3, <1>6, <1>10, <1>11

\* A new invoice.
LEMMA Adding ==
    ASSUME MoneyInv, NEW i \in Invoices, invoices[i] = Nothing,
           NEW kind \in {"plan_change", "renewal"}, NEW version \in Versions,
           NEW start \in Dates, NEW end \in Dates, now \in Nat,
           invoices' = [invoices EXCEPT ![i] = Opened(kind, version, start, end)],
           UNCHANGED <<attempts, applied>>
    PROVE  /\ MoneyInv' /\ Made' = Made \cup {i} /\ i \notin Made
           /\ \A j \in Made : invoices'[j] = invoices[j]
           /\ \A j \in Made : SucceededOn(j)' = SucceededOn(j)
           /\ invoices'[i].kind = kind /\ invoices'[i].status = "open"
           /\ invoices'[i].start = start /\ invoices'[i].end = end
  <1> DEFINE b == Opened(kind, version, start, end)
  <1>1. /\ b \in Invoice /\ b.kind = kind /\ b.status = "open" /\ b.start = start /\ b.end = end
        /\ b.version = version /\ b.paid = 0 /\ b.due = Price[version]
    <2>1. (IF start = NoTime THEN now ELSE start) \in Nat
      BY DEF Dates
    <2>2. Price[version] \in Nat
      BY PlansAreNatural
    <2> QED
      BY <2>1, <2>2 DEF Opened, Invoice, Payable
  <1>2. b # Nothing
    BY <1>1, NothingIsNoRow
  <1>3. /\ invoices'[i] = b /\ DOMAIN invoices' = Invoices
        /\ \A j \in Invoices : j # i => invoices'[j] = invoices[j]
    BY DEF MoneyInv
  <1> HIDE DEF b
  <1>4. i \notin Made /\ Made' = Made \cup {i} /\ \A j \in Made : j # i
    BY <1>2, <1>3 DEF Made
  <1>5. \A j \in Made : invoices'[j] = invoices[j]
    BY <1>3, <1>4 DEF Made
  <1>6. \A j : SucceededOn(j)' = SucceededOn(j)
    BY DEF SucceededOn, Tried
  <1>7. SucceededOn(i) = {}
    BY <1>4 DEF SucceededOn, MoneyInv, InvoicesKnown
  <1>8. Owed'
    BY <1>1, <1>3, <1>4, <1>5 DEF Owed, MoneyInv
  <1>9. SettledOnce'
    BY <1>1, <1>3, <1>4, <1>5, <1>6, <1>7 DEF SettledOnce, MoneyInv
  <1>10. InvoicesKnown'
    BY <1>4, <1>5 DEF InvoicesKnown, MoneyInv, Tried
  <1>11. MoneyInv'
    BY <1>1, <1>3, <1>8, <1>9, <1>10 DEF MoneyInv
  <1> QED
    BY <1>1, <1>3, <1>4, <1>5, <1>6, <1>11

\* A payment.
LEMMA Paying ==
    ASSUME MoneyInv, NEW a \in Attempts, NEW t \in Attempt, t.status = "pending",
           t.invoice \in Made, invoices[t.invoice].status # "paid",
           t.amount = invoices[t.invoice].due, attempts[a] \in {Nothing, t}, Pay(a, t)
    PROVE  /\ MoneyInv' /\ Made' = Made
           /\ \A i \in Made : SameTerms(invoices[i], invoices'[i])
           /\ \A i \in Made : i # t.invoice =>
                 invoices'[i] = invoices[i] /\ SucceededOn(i)' = SucceededOn(i)
           /\ invoices'[t.invoice].status = "paid"
           /\ t.invoice \notin applied
  <1> DEFINE k == t.invoice
             u == [t EXCEPT !.status = "succeeded"]
             b == Paid(invoices[k], t.amount)
  <1>1. u \in Attempt /\ u.invoice = k /\ u.status = "succeeded" /\ u # Nothing
    BY NothingIsNoRow DEF Attempt
  <1>2. k \in Made /\ k \in Invoices /\ invoices[k] \in Invoice
        /\ invoices[k].paid = 0 /\ invoices[k].due = Price[invoices[k].version]
    BY DEF Made, MoneyInv, Owed
  <1>3. /\ b \in Invoice /\ SameTerms(invoices[k], b) /\ b.status = "paid" /\ b # Nothing
        /\ b.paid = Price[invoices[k].version]
    BY <1>2, PaidRow, NothingIsNoRow
  <1>4. /\ attempts' = [attempts EXCEPT ![a] = u] /\ invoices' = [invoices EXCEPT ![k] = b]
        /\ applied' = applied \cup {k}
    BY DEF Pay
  <1> HIDE DEF u, b
  <1>5. /\ DOMAIN attempts' = Attempts /\ DOMAIN invoices' = Invoices
        /\ invoices'[k] = b /\ \A j \in Invoices : j # k => invoices'[j] = invoices[j]
        /\ attempts'[a] = u /\ \A c \in Attempts : c # a => attempts'[c] = attempts[c]
    BY <1>2, <1>4 DEF MoneyInv
  <1>6. Made' = Made
    BY <1>2, <1>3, <1>5 DEF Made
  <1>7. \A i \in Made : i # k => SucceededOn(i)' = SucceededOn(i)
    BY <1>1, <1>5 DEF SucceededOn, Tried
  <1>8. SucceededOn(k)' = {a}
    <2>1. SucceededOn(k) = {}
      BY <1>2 DEF MoneyInv, SettledOnce
    <2> QED
      BY <1>1, <1>5, <2>1 DEF SucceededOn, Tried
  <1>9. Owed'
    BY <1>3, <1>5, <1>6 DEF Owed, MoneyInv, SameTerms, Made
  <1>10. SettledOnce'
    <2> SUFFICES ASSUME NEW i \in Made
                 PROVE  IF invoices'[i].status = "paid" THEN \E c \in Attempts : SucceededOn(i)' = {c}
                        ELSE SucceededOn(i)' = {}
      BY <1>6 DEF SettledOnce
    <2>1. CASE i = k
      BY <1>3, <1>5, <1>8, <2>1
    <2>2. CASE i # k
      BY <1>5, <1>7, <2>2 DEF MoneyInv, SettledOnce, Made
    <2> QED
      BY <2>1, <2>2
  <1>11. InvoicesKnown' /\ applied' \subseteq Invoices
    <2>1. \A c \in Tried' : attempts'[c].invoice \in Made
      BY <1>1, <1>2, <1>5 DEF Tried, MoneyInv, InvoicesKnown
    <2>2. \A i \in applied' : i \in Made /\ invoices'[i].status = "paid"
      BY <1>2, <1>3, <1>4, <1>5 DEF MoneyInv, InvoicesKnown
    <2> QED
      BY <1>6, <2>1, <2>2 DEF InvoicesKnown, Made
  <1>12. MoneyInv'
    BY <1>1, <1>3, <1>5, <1>9, <1>10, <1>11 DEF MoneyInv
  <1>13. \A i \in Made : SameTerms(invoices[i], invoices'[i])
    BY <1>3, <1>5 DEF SameTerms, Made
  <1>14. k \notin applied
    BY DEF MoneyInv, InvoicesKnown
  <1>15. \A i \in Made : i # k => invoices'[i] = invoices[i]
    BY <1>5 DEF Made
  <1> QED
    BY <1>3, <1>5, <1>6, <1>7, <1>12, <1>13, <1>14, <1>15

-----------------------------------------------------------------------------
(* The renewals under each kind of step.                                   *)

\* Nothing is made or paid.
LEMMA RenewalsKept ==
    ASSUME BillInv, Made' = Made,
           \A i \in Made : SameTerms(invoices[i], invoices'[i])
                            /\ (invoices'[i].status = "paid" <=> invoices[i].status = "paid"),
           controls' = 0 => controls = 0 /\ sub'.end = sub.end /\ extension' = Nothing,
           renewing' = Nothing \/ renewing' = renewing \/ renewing'.end = sub'.end
    PROVE  OneRenewalPerPeriod' /\ RenewalsFollow'
  <1>1. OneRenewalPerPeriod'
    BY DEF BillInv, OneRenewalPerPeriod, SameTerms
  <1>2. SUFFICES ASSUME controls' = 0 PROVE RenewalsFollow'
    BY <1>1 DEF RenewalsFollow
  <1>3. /\ extension' = Nothing /\ sub'.end = sub.end
        /\ \A i \in Made : invoices[i].kind = "renewal" =>
              PeriodOf(invoices[i]) /\ InTurn(invoices[i], sub.end)
        /\ PaidRenewals # {} => \E i \in PaidRenewals : sub.end = invoices[i].end
        /\ renewing # Nothing =>
              renewing.end = sub.end \/ RenewalFrom(renewing.end) # {}
    BY <1>2 DEF BillInv, RenewalsFollow
  <1>4. \A i \in Made : invoices'[i].kind = "renewal" =>
            PeriodOf(invoices'[i]) /\ InTurn(invoices'[i], sub'.end)
    BY <1>3 DEF PeriodOf, InTurn, SameTerms
  <1>5. PaidRenewals' = PaidRenewals /\ \A start : RenewalFrom(start)' = RenewalFrom(start)
    BY DEF PaidRenewals, RenewalFrom, SameTerms
  <1>6. PaidRenewals # {} => \E i \in PaidRenewals : sub'.end = invoices'[i].end
    BY <1>3 DEF PaidRenewals, SameTerms
  <1>7. renewing' # Nothing => renewing'.end = sub'.end \/ RenewalFrom(renewing.end)' # {}
    <2>1. CASE renewing' = Nothing \/ renewing'.end = sub'.end
      BY <2>1
    <2>2. CASE renewing' = renewing
      <3>1. RenewalFrom(renewing.end)' = RenewalFrom(renewing.end)
        BY <2>2 DEF RenewalFrom, SameTerms
      <3> QED
        BY <1>3, <2>2, <3>1
    <2> QED
      BY <2>1, <2>2
  <1> QED
    BY <1>3, <1>4, <1>5, <1>6, <1>7 DEF RenewalsFollow

\* An invoice is made.
LEMMA RenewalsMade ==
    ASSUME BillInv, NEW i \in Invoices, i \notin Made, Made' = Made \cup {i},
           \A j \in Made : invoices'[j] = invoices[j],
           invoices'[i].status = "open",
           invoices'[i].kind = "renewal" =>
               /\ RenewalFrom(invoices'[i].start) = {}
               /\ PeriodOf(invoices'[i])
               /\ controls = 0 => invoices'[i].start = sub.end,
           controls' = controls, sub'.end = sub.end, extension' = extension,
           renewing' = Nothing \/ renewing' = renewing
    PROVE  OneRenewalPerPeriod' /\ RenewalsFollow'
  <1>1. OneRenewalPerPeriod'
    <2> SUFFICES ASSUME NEW j \in Made', NEW k \in Made', invoices'[j].kind = "renewal",
                        invoices'[k].kind = "renewal", invoices'[j].start = invoices'[k].start
                 PROVE  j = k
      BY DEF OneRenewalPerPeriod
    <2>1. CASE j \in Made /\ k \in Made
      BY <2>1 DEF BillInv, OneRenewalPerPeriod
    <2>2. CASE j = i \/ k = i
      BY <2>2 DEF RenewalFrom
    <2> QED
      BY <2>1, <2>2
  <1>2. SUFFICES ASSUME controls' = 0 PROVE RenewalsFollow'
    BY <1>1 DEF RenewalsFollow
  <1>3. /\ extension' = Nothing /\ sub'.end = sub.end /\ controls = 0
        /\ \A j \in Made : invoices[j].kind = "renewal" =>
              PeriodOf(invoices[j]) /\ InTurn(invoices[j], sub.end)
        /\ PaidRenewals # {} => \E j \in PaidRenewals : sub.end = invoices[j].end
        /\ renewing # Nothing =>
              renewing.end = sub.end \/ RenewalFrom(renewing.end) # {}
    BY <1>2 DEF BillInv, RenewalsFollow
  <1>4. \A j \in Made' : invoices'[j].kind = "renewal" =>
            PeriodOf(invoices'[j]) /\ InTurn(invoices'[j], sub'.end)
    BY <1>3 DEF InTurn
  <1>5. PaidRenewals' = PaidRenewals /\ \A start : RenewalFrom(start) \subseteq RenewalFrom(start)'
    BY DEF PaidRenewals, RenewalFrom
  <1>6. PaidRenewals # {} => \E j \in PaidRenewals : sub'.end = invoices'[j].end
    BY <1>3 DEF PaidRenewals
  <1>7. renewing' # Nothing => renewing'.end = sub'.end \/ RenewalFrom(renewing.end)' # {}
    <2>1. CASE renewing' = Nothing
      BY <2>1
    <2>2. CASE renewing' = renewing
      <3>1. RenewalFrom(renewing.end) \subseteq RenewalFrom(renewing.end)'
        BY <2>2 DEF RenewalFrom
      <3> QED
        BY <1>3, <2>2, <3>1
    <2> QED
      BY <2>1, <2>2
  <1> QED
    BY <1>3, <1>4, <1>5, <1>6, <1>7 DEF RenewalsFollow

\* An invoice is paid: its period follows those that were paid before it.
LEMMA RenewalsPaid ==
    ASSUME BillInv, NEW k \in Made, Made' = Made,
           \A i \in Made : SameTerms(invoices[i], invoices'[i]),
           \A i \in Made : i # k => invoices'[i] = invoices[i],
           invoices[k].status # "paid", invoices'[k].status = "paid",
           controls' = controls, extension' = extension, renewing' = renewing,
           invoices[k].kind = "renewal" => sub'.end = invoices[k].end,
           invoices[k].kind # "renewal" =>
               sub'.end = sub.end \/ sub.status \in {"pending", "trialing"}
    PROVE  OneRenewalPerPeriod' /\ RenewalsFollow'
  <1>1. OneRenewalPerPeriod'
    BY DEF BillInv, OneRenewalPerPeriod, SameTerms
  <1>2. SUFFICES ASSUME controls' = 0 PROVE RenewalsFollow'
    BY <1>1 DEF RenewalsFollow
  <1>3. /\ extension' = Nothing /\ controls = 0
        /\ \A j \in Made : invoices[j].kind = "renewal" =>
              PeriodOf(invoices[j]) /\ InTurn(invoices[j], sub.end)
        /\ PaidRenewals # {} => \E j \in PaidRenewals : sub.end = invoices[j].end
        /\ renewing # Nothing =>
              renewing.end = sub.end \/ RenewalFrom(renewing.end) # {}
    BY <1>2 DEF BillInv, RenewalsFollow
  <1>4. \A start : RenewalFrom(start)' = RenewalFrom(start)
    BY DEF RenewalFrom, SameTerms
  <1>5. CASE invoices[k].kind # "renewal"
    <2>1. PaidRenewals' = PaidRenewals
      BY <1>5 DEF PaidRenewals, SameTerms
    <2>2. CASE sub'.end = sub.end
      <3>1. \A j \in Made : invoices'[j].kind = "renewal" =>
                PeriodOf(invoices'[j]) /\ InTurn(invoices'[j], sub'.end)
        BY <1>3, <1>5, <2>2 DEF SameTerms
      <3>2. PaidRenewals # {} => \E j \in PaidRenewals : sub'.end = invoices'[j].end
        BY <1>3, <2>2 DEF PaidRenewals, SameTerms
      <3> QED
        BY <1>3, <1>4, <2>1, <2>2, <3>1, <3>2 DEF RenewalsFollow
    <2>3. CASE sub.status \in {"pending", "trialing"}
      <3>1. renewing = Nothing /\ \A j \in Made : invoices[j].kind # "renewal"
        BY <2>3 DEF BillInv, TrialIsFirst
      <3>2. (\A j \in Made : invoices'[j].kind # "renewal") /\ PaidRenewals' = {}
        BY <3>1 DEF SameTerms, PaidRenewals
      <3> QED
        BY <1>3, <3>1, <3>2 DEF RenewalsFollow
    <2> QED
      BY <1>5, <2>2, <2>3
  <1>6. CASE invoices[k].kind = "renewal"
    <2>1. invoices[k].start = sub.end /\ PeriodOf(invoices[k]) /\ sub'.end = invoices[k].end
      BY <1>3, <1>6 DEF InTurn
    <2>2. \A j \in Made : j # k /\ invoices[j].kind = "renewal" =>
              invoices[j].status = "paid" /\ InTurn(invoices[j], sub.end) /\ PeriodOf(invoices[j])
      <3> SUFFICES ASSUME NEW j \in Made, j # k, invoices[j].kind = "renewal"
                   PROVE  invoices[j].status = "paid"
        BY <1>3
      <3>1. invoices[j].start # invoices[k].start
        BY <1>6 DEF BillInv, OneRenewalPerPeriod
      <3> QED
        BY <1>3, <2>1, <3>1 DEF InTurn
    <2>3. \A j \in Made : invoices[j].end \in Dates /\ invoices[j].start \in Dates
      BY DEF BillInv, BillingTypeOK, Made, Invoice
    <2>4. ASSUME NEW j \in Made, invoices'[j].kind = "renewal"
          PROVE  PeriodOf(invoices'[j]) /\ InTurn(invoices'[j], sub'.end)
      <3>1. CASE j = k
        <4>1. invoices'[k].end = invoices[k].end /\ invoices'[k].start = invoices[k].start
          BY DEF SameTerms
        <4>2. PeriodOf(invoices'[k])
          BY <2>1, <4>1 DEF PeriodOf
        <4>3. invoices[k].end \in Dates
          BY <2>3
        <4>4. invoices[k].end # NoTime => invoices[k].end <= invoices[k].end
          BY <4>3 DEF Dates
        <4> QED
          BY <2>1, <3>1, <4>1, <4>2, <4>4 DEF InTurn
      <3>2. CASE j # k
        <4>1. /\ invoices'[j] = invoices[j] /\ invoices[j].status = "paid"
              /\ InTurn(invoices[j], sub.end) /\ PeriodOf(invoices[j])
          BY <2>2, <2>4, <3>2
        <4>2. ASSUME invoices[k].end # NoTime
              PROVE  invoices[j].end # NoTime /\ invoices[j].end <= invoices[k].end
          <5>1. invoices[k].start # NoTime /\ invoices[k].start <= invoices[k].end
            BY <2>1, <4>2 DEF PeriodOf
          <5>2. invoices[j].end # NoTime /\ invoices[j].end <= invoices[k].start
            BY <2>1, <4>1, <5>1 DEF InTurn
          <5>3. invoices[j].end \in Nat /\ invoices[k].end \in Nat /\ invoices[k].start \in Nat
            BY <2>3, <4>2, <5>1, <5>2 DEF Dates
          <5> QED
            BY <5>1, <5>2, <5>3
        <4> QED
          BY <2>1, <4>1, <4>2 DEF InTurn
      <3> QED
        BY <3>1, <3>2
    <2>5. k \in PaidRenewals' /\ sub'.end = invoices'[k].end
      BY <1>6, <2>1 DEF PaidRenewals, SameTerms
    <2>6. renewing' # Nothing => RenewalFrom(renewing.end)' # {}
      <3>1. k \in RenewalFrom(sub.end)
        BY <1>6, <2>1 DEF RenewalFrom
      <3>2. RenewalFrom(renewing.end)' = RenewalFrom(renewing.end)
        BY DEF RenewalFrom, SameTerms
      <3> QED
        BY <1>3, <3>1, <3>2
    <2> QED
      BY <1>3, <2>4, <2>5, <2>6 DEF RenewalsFollow
  <1> QED
    BY <1>5, <1>6

-----------------------------------------------------------------------------
(* Each step keeps the invariant.                                          *)

\* What the commands and the administrator carry, and the dunning states.
DunningStates ==
    [Invoices -> [status : {"none", "active", "exhausted", "resolved"}, stage : 1 .. Len(Schedule)]]

CarriedOK ==
    /\ now \in 0 .. MaxNow /\ controls \in 0 .. MaxControls
    /\ due \in [action : {"none", "cancelled", "grace", "suspended", "expired"}, days : Nat]
    /\ due.action = "none" => due = NoDecision
    /\ extension \in Nat \cup {Nothing}
    /\ scheduled \in Versions \cup {Nothing}
    /\ renewing = Nothing \/ renewing \in [version : Versions, end : Nat]
    /\ dunning \in DunningStates
    /\ listed \in Invoices \cup {Nothing}

\* The invariant by its parts.
LEMMA Parts ==
    BillInv <=> /\ MoneyInv /\ CarriedOK /\ SubRow(sub)
                /\ OneRenewalPerPeriod /\ GivenUpAfterSchedule /\ ListedIsPursued
                /\ TrialIsFirst /\ RenewalsFollow
  BY DEF BillInv, MoneyInv, CarriedOK, BillingTypeOK, RowsInPlace, SubRow, DunningStates

\* The bounds are numbers, and so are the stages.
LEMMA Numbers ==
    ASSUME CarriedOK, MoneyInv
    PROVE  /\ now \in Nat /\ controls \in Nat /\ Len(Schedule) \in Nat /\ Len(Schedule) >= 1
           /\ \A n \in 1 .. Len(Schedule) : Schedule[n] \in Nat
           /\ \A i \in Made : invoices[i] \in Invoice /\ invoices[i].dueAt \in Nat
  <1>1. now \in Nat /\ controls \in Nat
    BY PlansAreNatural DEF CarriedOK
  <1>2. Len(Schedule) \in Nat /\ Len(Schedule) >= 1 /\ \A n \in 1 .. Len(Schedule) : Schedule[n] \in Nat
    BY BillingBounds
  <1>3. \A i \in Made : invoices[i] \in Invoice
    BY DEF MoneyInv, Made
  <1>4. \A i \in Made : invoices[i].dueAt \in Nat
    BY <1>3 DEF Invoice
  <1> QED
    BY <1>1, <1>2, <1>3, <1>4

\* Steps that make and pay nothing, whatever becomes of the statuses.
LEMMA QuietStep ==
    ASSUME BillInv, Restates, CarriedOK', SubRow(sub'), Follows(sub, sub'),
           controls' = 0 => controls = 0 /\ sub'.end = sub.end /\ extension' = Nothing,
           renewing' = Nothing \/ renewing' = renewing
               \/ (renewing'.end = sub'.end /\ sub.status \notin {"pending", "trialing"}),
           GivenUpAfterSchedule', ListedIsPursued'
    PROVE  BillInv'
  <1>1. /\ MoneyInv' /\ Made' = Made
        /\ \A i \in Made : SameTerms(invoices[i], invoices'[i])
                            /\ (invoices'[i].status = "paid" <=> invoices[i].status = "paid")
    <2>1. MoneyInv
      BY Parts
    <2>2. MoneyInv' /\ Made' = Made
      BY <2>1, Restating
    <2>3. \A i \in Made : SameTerms(invoices[i], invoices'[i])
      BY <2>1, Restating
    <2>4. \A i \in Made : (invoices'[i].status = "paid") <=> (invoices[i].status = "paid")
      BY <2>1, Restating
    <2> QED
      BY <2>2, <2>3, <2>4
  <1>2. OneRenewalPerPeriod' /\ RenewalsFollow'
    BY <1>1, RenewalsKept
  <1>3. TrialIsFirst'
    <2> SUFFICES ASSUME sub'.status \in {"pending", "trialing"}
                 PROVE  renewing' = Nothing /\ \A i \in Made : invoices'[i].kind # "renewal"
      BY <1>1 DEF TrialIsFirst
    <2>1. sub.status \in {"pending", "trialing"}
      BY DEF Follows
    <2>2. renewing = Nothing /\ \A i \in Made : invoices[i].kind # "renewal"
      BY <2>1 DEF BillInv, TrialIsFirst
    <2> QED
      BY <1>1, <2>1, <2>2 DEF SameTerms
  <1>4. MoneyInv' /\ CarriedOK' /\ SubRow(sub') /\ OneRenewalPerPeriod' /\ GivenUpAfterSchedule'
        /\ ListedIsPursued' /\ TrialIsFirst' /\ RenewalsFollow'
    BY <1>1, <1>2, <1>3
  <1> HIDE DEF BillInv, MoneyInv, CarriedOK
  <1> QED
    BY <1>4 DEF BillInv, MoneyInv, CarriedOK, BillingTypeOK, RowsInPlace, SubRow, DunningStates

\* What was given up stays as it was, and nothing else is given up.
LEMMA NothingGivenUp ==
    ASSUME BillInv, Made' = Made, now' \in Nat, now <= now', UNCHANGED dunning,
           \A i \in Made : invoices'[i].status = "uncollectible" =>
               invoices[i].status = "uncollectible" /\ SameTerms(invoices[i], invoices'[i])
                   /\ SucceededOn(i)' = SucceededOn(i),
           listed' = Nothing \/ listed' = listed
               \/ (listed' \in Made /\ invoices'[listed'].status # "uncollectible")
    PROVE  GivenUpAfterSchedule' /\ ListedIsPursued'
  <1>0. CarriedOK /\ MoneyInv
    BY Parts
  <1>1. ASSUME NEW i \in Made, invoices'[i].status = "uncollectible"
        PROVE  /\ dunning'[i] = [status |-> "exhausted", stage |-> Len(Schedule)]
               /\ SucceededOn(i)' = {}
               /\ now' >= invoices'[i].dueAt + Schedule[Len(Schedule)]
    <2>1. /\ dunning[i] = [status |-> "exhausted", stage |-> Len(Schedule)]
          /\ SucceededOn(i) = {}
          /\ now >= invoices[i].dueAt + Schedule[Len(Schedule)]
      BY <1>1 DEF BillInv, GivenUpAfterSchedule
    <2>2. invoices'[i].dueAt = invoices[i].dueAt /\ SucceededOn(i)' = SucceededOn(i)
      BY <1>1 DEF SameTerms
    <2>3. now \in Nat /\ invoices[i].dueAt \in Nat /\ Schedule[Len(Schedule)] \in Nat
      BY <1>0, Numbers
    <2>4. now' >= invoices[i].dueAt + Schedule[Len(Schedule)]
      BY <2>1, <2>3
    <2> QED
      BY <2>1, <2>2, <2>4
  <1>2. ListedIsPursued'
    BY DEF BillInv, ListedIsPursued
  <1> QED
    BY <1>1, <1>2 DEF GivenUpAfterSchedule

\* The services leave the invoices alone.
LEMMA ServiceKeeps ==
    ASSUME BillInv, ServiceStep, UNCHANGED billVars
    PROVE  BillInv'
  <1>1. UNCHANGED <<invoices, attempts, applied, scheduled, renewing, dunning, listed>>
    BY DEF billVars
  <1>2. CarriedOK /\ MoneyInv
    BY Parts
  <1>3. CarriedOK'
    BY <1>1, <1>2, ServiceRows DEF CarriedOK
  <1>4. Restates
    BY <1>1, <1>2 DEF Restates, MoneyInv
  <1>5. Made' = Made /\ \A i \in Made : SucceededOn(i)' = SucceededOn(i)
    BY <1>1 DEF Made, SucceededOn, Tried
  <1>6. now' \in Nat /\ now <= now'
    BY <1>3, ServiceRows, PlansAreNatural DEF CarriedOK
  <1>7. GivenUpAfterSchedule' /\ ListedIsPursued'
    BY <1>1, <1>5, <1>6, NothingGivenUp DEF SameTerms
  <1> QED
    BY <1>1, <1>3, <1>4, <1>7, ServiceRows, QuietStep

\* The commands' queries, a payment that begins and a cancellation.
LEMMA QueriesKeep ==
    ASSUME BillInv,
           FindRenewal \/ (\E i \in Invoices : StartPayment(i) \/ ListOverdue(i))
               \/ CancelNow \/ CancelAtPeriodEnd
    PROVE  BillInv' /\ Follows(sub, sub')
  <1>0. CarriedOK /\ MoneyInv /\ SubRow(sub) /\ now \in Nat
    BY Parts, Numbers
  <1>1. UNCHANGED <<now, controls, due, extension, applied, scheduled, dunning>>
    BY DEF FindRenewal, StartPayment, ListOverdue, CancelNow, CancelAtPeriodEnd, subVars
  <1>2. SubRow(sub') /\ Follows(sub, sub') /\ sub'.end = sub.end
    <2>1. CASE UNCHANGED sub
      BY <1>0, <2>1 DEF Follows
    <2>2. CASE CancelNow
      BY <1>0, <2>2, Transitions DEF CancelNow, Moves
    <2>3. CASE CancelAtPeriodEnd
      <3>1. sub' = [sub EXCEPT !.cancelAtEnd = TRUE]
        BY <2>3 DEF CancelAtPeriodEnd
      <3>2. /\ sub' \in Subscriptions /\ sub'.status = sub.status /\ sub'.current = sub.current
            /\ sub'.deadline = sub.deadline /\ sub'.end = sub.end
        BY <1>0, <3>1 DEF SubRow, Subscriptions
      <3> QED
        BY <1>0, <3>2 DEF SubRow, Follows
    <2> QED
      BY <2>1, <2>2, <2>3 DEF FindRenewal, StartPayment, ListOverdue, subVars
  <1>3. /\ renewing' = renewing
             \/ (renewing'.end = sub'.end /\ sub.status \notin {"pending", "trialing"})
        /\ renewing' = renewing \/ renewing' \in [version : Versions, end : Nat]
    <2>1. CASE FindRenewal
      <3>1. /\ renewing' = [version |-> sub.version, end |-> sub.end] /\ UNCHANGED sub
            /\ sub.end # NoTime /\ sub.status \notin {"pending", "trialing"}
        BY <2>1 DEF FindRenewal, subVars
      <3>2. sub.end \in Nat /\ sub.version \in Versions
        BY <1>0, <3>1 DEF SubRow, Subscriptions, Dates
      <3> QED
        BY <3>1, <3>2
    <2>2. CASE UNCHANGED renewing
      BY <2>2
    <2> QED
      BY <2>1, <2>2 DEF StartPayment, ListOverdue, CancelNow, CancelAtPeriodEnd
  <1>4. Restates /\ \A i \in Made : invoices'[i].status = "uncollectible" =>
                                        invoices[i].status = "uncollectible"
    <2>1. CASE UNCHANGED <<invoices, attempts>>
      BY <1>0, <1>1, <2>1 DEF Restates, MoneyInv
    <2>2. ASSUME NEW i \in Invoices, StartPayment(i)
          PROVE  Restates /\ \A j \in Made : invoices'[j].status = "uncollectible" =>
                                              invoices[j].status = "uncollectible"
      <3>1. /\ i \in Made /\ invoices[i].status \in Payable
            /\ invoices' = [invoices EXCEPT ![i].status = "payment_pending"]
            /\ \E a \in NextFree(attempts) : attempts' = [attempts EXCEPT ![a] = AttemptOn(i)]
        BY <2>2 DEF StartPayment
      <3>2. PICK a \in NextFree(attempts) : attempts' = [attempts EXCEPT ![a] = AttemptOn(i)]
        BY <3>1
      <3>3. a \in Attempts /\ attempts[a] = Nothing
        BY <1>0 DEF NextFree, MoneyInv
      <3>4. invoices[i].status # "paid" /\ "payment_pending" \in Payable
        BY <3>1 DEF Payable
      <3>5. /\ DOMAIN invoices' = Invoices
            /\ invoices'[i] = [invoices[i] EXCEPT !.status = "payment_pending"]
            /\ \A j \in Invoices : j # i => invoices'[j] = invoices[j]
        BY <1>0, <3>1 DEF MoneyInv
      <3>6. invoices'[i].status = "payment_pending"
        BY <1>0, <3>1, <3>4, <3>5, Numbers, RestatedRow
      <3>7. Restates
        BY <1>1, <3>1, <3>2, <3>3, <3>4, <3>5 DEF Restates
      <3>8. \A j \in Made : invoices'[j].status = "uncollectible" =>
                invoices[j].status = "uncollectible"
        BY <3>5, <3>6 DEF Made
      <3> QED
        BY <3>7, <3>8
    <2>3. CASE CancelNow \/ CancelAtPeriodEnd
      <3>1. VoidUnpaid /\ UNCHANGED attempts
        BY <2>3 DEF CancelNow, CancelAtPeriodEnd
      <3>2. \A i \in Invoices : invoices'[i] =
                IF i \in Made /\ invoices[i].status \in Unpaid
                THEN [invoices[i] EXCEPT !.status = "void"] ELSE invoices[i]
        BY <3>1 DEF VoidUnpaid
      <3>3. DOMAIN invoices' = Invoices
        BY <3>1 DEF VoidUnpaid
      <3>4. "paid" \notin Unpaid
        BY DEF Unpaid, Payable
      <3>5. Restates
        BY <1>1, <3>1, <3>2, <3>3, <3>4 DEF Restates
      <3>6. \A i \in Made : invoices'[i].status = "uncollectible" =>
                invoices[i].status = "uncollectible"
        <4> SUFFICES ASSUME NEW i \in Made, invoices'[i].status = "uncollectible"
                     PROVE  invoices[i].status = "uncollectible"
          OBVIOUS
        <4>1. invoices[i] \in Invoice /\ i \in Invoices
          BY <1>0, Numbers DEF Made
        <4>2. [invoices[i] EXCEPT !.status = "void"].status = "void"
          BY <4>1, RestatedRow
        <4> QED
          BY <3>2, <4>1, <4>2
      <3> QED
        BY <3>5, <3>6
    <2> QED
      BY <2>1, <2>2, <2>3 DEF FindRenewal, ListOverdue
  <1>5. /\ listed' = listed
             \/ (listed' \in Made /\ invoices'[listed'].status # "uncollectible")
        /\ listed' \in Invoices \cup {Nothing}
    <2>1. CASE UNCHANGED listed
      BY <1>0, <2>1 DEF CarriedOK
    <2>2. ASSUME NEW i \in Invoices, ListOverdue(i)
          PROVE  listed' \in Made /\ invoices'[listed'].status # "uncollectible"
      BY <2>2 DEF ListOverdue, Payable
    <2> QED
      BY <2>1, <2>2 DEF FindRenewal, StartPayment, CancelNow, CancelAtPeriodEnd, Made
  <1>6. CarriedOK'
    BY <1>0, <1>1, <1>3, <1>5 DEF CarriedOK
  <1>7. /\ Made' = Made
        /\ \A i \in Made : SameTerms(invoices[i], invoices'[i]) /\ SucceededOn(i)' = SucceededOn(i)
    <2>1. Restates
      BY <1>4
    <2>2. Made' = Made /\ \A i \in Made : SameTerms(invoices[i], invoices'[i])
      BY <1>0, <2>1, Restating
    <2>3. \A i \in Made : SucceededOn(i)' = SucceededOn(i)
      BY <1>0, <2>1, Restating
    <2> QED
      BY <2>2, <2>3
  <1>8. now' \in Nat /\ now <= now'
    BY <1>0, <1>1
  <1>9. GivenUpAfterSchedule' /\ ListedIsPursued'
    BY <1>1, <1>4, <1>5, <1>7, <1>8, NothingGivenUp
  <1>10. controls' = 0 => controls = 0 /\ sub'.end = sub.end /\ extension' = Nothing
    BY <1>1, <1>2 DEF BillInv, RenewalsFollow
  <1> QED
    BY <1>2, <1>3, <1>4, <1>6, <1>9, <1>10, QuietStep

\* Steps that make an invoice: a plan change's, or the renewal of the period that
\* begins where the subscription's ends.
LEMMA MakingStep ==
    ASSUME BillInv, NEW i \in NextFree(invoices), NEW kind \in {"plan_change", "renewal"},
           NEW version \in Versions, NEW start \in Dates, NEW end \in Dates,
           invoices' = [invoices EXCEPT ![i] = Opened(kind, version, start, end)],
           UNCHANGED <<now, controls, due, extension, attempts, applied, dunning, listed>>,
           scheduled' \in Versions \cup {Nothing},
           renewing' = Nothing \/ renewing' = renewing,
           SubRow(sub'), sub'.status = sub.status, sub'.end = sub.end,
           kind = "renewal" =>
               /\ RenewalFrom(start) = {} /\ sub.status \notin {"pending", "trialing"}
               /\ start = NoTime => end = NoTime
               /\ start # NoTime /\ end # NoTime => start <= end
               /\ controls = 0 => start = sub.end
    PROVE  BillInv'
  <1>0. CarriedOK /\ MoneyInv /\ now \in Nat /\ SubRow(sub)
    BY Parts, Numbers
  <1>1. i \in Invoices /\ invoices[i] = Nothing
    BY <1>0 DEF NextFree, MoneyInv
  <1>2. /\ MoneyInv' /\ Made' = Made \cup {i} /\ i \notin Made
        /\ \A j \in Made : invoices'[j] = invoices[j]
        /\ \A j \in Made : SucceededOn(j)' = SucceededOn(j)
        /\ invoices'[i].kind = kind /\ invoices'[i].status = "open"
        /\ invoices'[i].start = start /\ invoices'[i].end = end
    <2>1. UNCHANGED <<attempts, applied>>
      OBVIOUS
    <2>2. MoneyInv' /\ Made' = Made \cup {i} /\ i \notin Made
      BY <1>0, <1>1, <2>1, Adding
    <2>3. \A j \in Made : invoices'[j] = invoices[j]
      BY <1>0, <1>1, <2>1, Adding
    <2>4. \A j \in Made : SucceededOn(j)' = SucceededOn(j)
      BY DEF SucceededOn, Tried
    <2>5. /\ invoices'[i].kind = kind /\ invoices'[i].status = "open"
          /\ invoices'[i].start = start /\ invoices'[i].end = end
      <3>1. invoices'[i] = Opened(kind, version, start, end)
        BY <1>0, <1>1 DEF MoneyInv
      <3> QED
        BY <3>1 DEF Opened
    <2> QED
      BY <2>2, <2>3, <2>4, <2>5
  <1>3. CarriedOK'
    BY <1>0 DEF CarriedOK
  <1>4. OneRenewalPerPeriod' /\ RenewalsFollow'
    <2>1. PeriodOf(invoices'[i]) \/ kind # "renewal"
      BY <1>2 DEF PeriodOf
    <2> QED
      BY <1>1, <1>2, <2>1, RenewalsMade
  <1>5. GivenUpAfterSchedule' /\ ListedIsPursued'
    <2>1. ListedIsPursued'
      BY <1>2 DEF BillInv, ListedIsPursued
    <2>2. \A j \in Made' : invoices'[j].status = "uncollectible" =>
              j \in Made /\ invoices'[j] = invoices[j] /\ SucceededOn(j)' = SucceededOn(j)
      BY <1>2
    <2>3. GivenUpAfterSchedule'
      BY <2>2 DEF BillInv, GivenUpAfterSchedule
    <2> QED
      BY <2>1, <2>3
  <1>6. TrialIsFirst'
    BY <1>2 DEF BillInv, TrialIsFirst
  <1>7. MoneyInv' /\ CarriedOK' /\ SubRow(sub') /\ OneRenewalPerPeriod' /\ GivenUpAfterSchedule'
        /\ ListedIsPursued' /\ TrialIsFirst' /\ RenewalsFollow'
    BY <1>2, <1>3, <1>4, <1>5, <1>6
  <1> HIDE DEF BillInv, MoneyInv, CarriedOK
  <1> QED
    BY <1>7 DEF BillInv, MoneyInv, CarriedOK, BillingTypeOK, RowsInPlace, SubRow, DunningStates

\* A plan change is invoiced or waits.
LEMMA PlanChangeKeeps ==
    ASSUME BillInv, NEW target \in Versions, StartPlanChange(target)
    PROVE  BillInv' /\ Follows(sub, sub')
  <1>0. CarriedOK /\ MoneyInv /\ SubRow(sub) /\ now \in Nat
    BY Parts, Numbers
  <1>1. UNCHANGED <<now, controls, sub, due, extension, attempts, applied, renewing, dunning, listed>>
    BY DEF StartPlanChange, subVars
  <1>2. Follows(sub, sub')
    BY <1>1 DEF Follows
  <1>3. CASE Price[target] > Price[sub.version]
    <2>1. PICK i \in NextFree(invoices) :
              invoices' = [invoices EXCEPT ![i] = Opened("plan_change", target, NoTime, NoTime)]
      BY <1>3 DEF StartPlanChange
    <2>2. UNCHANGED scheduled /\ NoTime \in Dates
      BY <1>3 DEF StartPlanChange, Dates
    <2> QED
      BY <1>0, <1>1, <1>2, <2>1, <2>2, MakingStep DEF CarriedOK
  <1>4. CASE ~(Price[target] > Price[sub.version])
    <2>1. scheduled' = target /\ UNCHANGED invoices
      BY <1>4 DEF StartPlanChange
    <2>2. CarriedOK'
      BY <1>0, <1>1, <2>1 DEF CarriedOK
    <2>3. Restates
      BY <1>0, <1>1, <2>1 DEF Restates, MoneyInv
    <2>4. Made' = Made /\ \A i \in Made : SucceededOn(i)' = SucceededOn(i)
      BY <1>1, <2>1 DEF Made, SucceededOn, Tried
    <2>5. now' \in Nat /\ now <= now'
      BY <1>0, <1>1
    <2>6. GivenUpAfterSchedule' /\ ListedIsPursued'
      BY <1>1, <2>1, <2>4, <2>5, NothingGivenUp DEF SameTerms
    <2>7. controls' = 0 => controls = 0 /\ sub'.end = sub.end /\ extension' = Nothing
      BY <1>1 DEF BillInv, RenewalsFollow
    <2> QED
      BY <1>0, <1>1, <1>2, <2>2, <2>3, <2>6, <2>7, QuietStep
  <1> QED
    BY <1>3, <1>4

\* The renewal command makes the invoice of a period once.
LEMMA RenewalKeeps ==
    ASSUME BillInv, GenerateRenewal
    PROVE  BillInv' /\ Follows(sub, sub')
  <1>0. CarriedOK /\ MoneyInv /\ SubRow(sub) /\ now \in Nat
    BY Parts, Numbers
  <1>1. /\ UNCHANGED <<now, controls, due, extension, attempts, applied, dunning, listed>>
        /\ renewing # Nothing /\ renewing' = Nothing
        /\ renewing \in [version : Versions, end : Nat]
    BY <1>0 DEF GenerateRenewal, CarriedOK
  <1>2. sub.status \notin {"pending", "trialing"}
    BY <1>1 DEF BillInv, TrialIsFirst
  <1>3. sub.end \in Dates
    BY <1>0 DEF SubRow, Subscriptions
  <1>4. /\ SubRow(sub') /\ sub'.status = sub.status /\ sub'.end = sub.end /\ Follows(sub, sub')
        /\ scheduled' \in Versions \cup {Nothing}
    <2>1. CASE UNCHANGED <<sub, scheduled>>
      BY <1>0, <2>1 DEF Follows, CarriedOK
    <2>2. CASE scheduled # Nothing /\ MayRenew(sub) /\ sub' = OnVersion(sub, scheduled)
               /\ scheduled' = Nothing
      <3>1. scheduled \in Versions
        BY <1>0, <2>2 DEF CarriedOK
      <3>2. Moves(sub, OnVersion(sub, scheduled))
        BY <1>0, <1>3, <2>2, <3>1, Renewing
      <3>3. OnVersion(sub, scheduled).status = sub.status
        BY <1>0 DEF OnVersion, SubRow, Subscriptions
      <3> QED
        BY <2>2, <3>2, <3>3 DEF Moves
    <2> QED
      BY <2>1, <2>2 DEF GenerateRenewal
  <1>5. CASE UNCHANGED invoices
    <2>1. CarriedOK'
      BY <1>0, <1>1, <1>4 DEF CarriedOK
    <2>2. Restates
      BY <1>0, <1>1, <1>5 DEF Restates, MoneyInv
    <2>3. Made' = Made /\ \A i \in Made : SucceededOn(i)' = SucceededOn(i)
      BY <1>1, <1>5 DEF Made, SucceededOn, Tried
    <2>4. now' \in Nat /\ now <= now'
      BY <1>0, <1>1
    <2>5. GivenUpAfterSchedule' /\ ListedIsPursued'
      BY <1>1, <1>5, <2>3, <2>4, NothingGivenUp DEF SameTerms
    <2>6. controls' = 0 => controls = 0 /\ sub'.end = sub.end /\ extension' = Nothing
      BY <1>1, <1>4 DEF BillInv, RenewalsFollow
    <2> QED
      BY <1>1, <1>4, <2>1, <2>2, <2>5, <2>6, QuietStep
  <1>6. ASSUME NEW version \in Versions, NEW start \in Dates, InvoiceRenewal(version, start),
               start = NoTime => Interval[version] = 0, controls = 0 => start = sub.end \/ RenewalFrom(start) # {}
        PROVE  BillInv'
    <2>1. CASE RenewalFrom(start) # {}
      BY <1>5, <1>6, <2>1 DEF InvoiceRenewal
    <2>2. CASE RenewalFrom(start) = {}
      <3> DEFINE end == PeriodEnd(start, version)
      <3>1. PICK i \in NextFree(invoices) :
                invoices' = [invoices EXCEPT ![i] = Opened("renewal", version, start, end)]
        BY <1>6, <2>2 DEF InvoiceRenewal
      <3>2. Interval[version] \in Nat
        BY PlansAreNatural
      <3>3. /\ end \in Dates /\ (start = NoTime => end = NoTime)
            /\ (start # NoTime /\ end # NoTime => start <= end)
        <4>1. CASE Interval[version] = 0
          BY <4>1 DEF PeriodEnd, Dates
        <4>2. CASE Interval[version] # 0
          <5>1. start \in Nat /\ start # NoTime
            BY <1>6, <4>2 DEF Dates
          <5>2. end = start + Interval[version]
            BY <4>2 DEF PeriodEnd
          <5>3. end \in Nat /\ start <= end
            BY <3>2, <5>1, <5>2
          <5> QED
            BY <5>1, <5>3 DEF Dates
        <4> QED
          BY <4>1, <4>2
      <3> HIDE DEF end
      <3> QED
        BY <1>1, <1>2, <1>4, <1>6, <2>2, <3>1, <3>3, MakingStep
    <2> QED
      BY <2>1, <2>2
  <1>7. CASE scheduled = Nothing
    <2>1. InvoiceRenewal(renewing.version, renewing.end)
      BY <1>7 DEF GenerateRenewal
    <2>2. renewing.version \in Versions /\ renewing.end \in Nat
      BY <1>1
    <2>3. controls = 0 => renewing.end = sub.end \/ RenewalFrom(renewing.end) # {}
      BY <1>1 DEF BillInv, RenewalsFollow
    <2>4. renewing.end # NoTime /\ renewing.end \in Dates
      BY <2>2, NoTimeIsNoDate DEF Dates
    <2> QED
      BY <1>4, <1>6, <2>1, <2>2, <2>3, <2>4
  <1>8. CASE scheduled # Nothing /\ MayRenew(sub) /\ (sub.end = NoTime => Interval[scheduled] = 0)
    <2>1. InvoiceRenewal(scheduled, sub.end)
      BY <1>8 DEF GenerateRenewal
    <2>2. scheduled \in Versions
      BY <1>0, <1>8 DEF CarriedOK
    <2> QED
      BY <1>3, <1>4, <1>6, <1>8, <2>1, <2>2
  <1>9. CASE scheduled # Nothing /\ ~(MayRenew(sub) /\ (sub.end = NoTime => Interval[scheduled] = 0))
    BY <1>4, <1>5, <1>9 DEF GenerateRenewal
  <1> QED
    BY <1>7, <1>8, <1>9

\* A payment, by the provider's word or an administrator's.
LEMMA PaymentKeeps ==
    ASSUME BillInv, NEW a \in Attempts, NEW t \in Attempt, t.status = "pending",
           t.invoice \in Made, attempts[a] \in {Nothing, t}, Outcome(t, invoices) = "paid",
           Pay(a, t), UNCHANGED <<now, controls, due, extension, scheduled, renewing, dunning, listed>>
    PROVE  BillInv' /\ Follows(sub, sub')
  <1> DEFINE k == t.invoice
  <1>0. CarriedOK /\ MoneyInv /\ SubRow(sub) /\ now \in Nat
    BY Parts, Numbers
  <1>1. invoices[k].status # "paid" /\ t.amount = invoices[k].due /\ MayRenew(sub)
    BY DEF Outcome
  <1>2. /\ MoneyInv' /\ Made' = Made
        /\ \A i \in Made : SameTerms(invoices[i], invoices'[i])
        /\ \A i \in Made : i # k => invoices'[i] = invoices[i] /\ SucceededOn(i)' = SucceededOn(i)
        /\ invoices'[k].status = "paid" /\ k \notin applied
    BY <1>0, <1>1, Paying
  <1>3. ActivateOrRenew(k)
    BY DEF Pay
  <1>4. /\ SubRow(sub') /\ Follows(sub, sub')
        /\ invoices[k].kind = "renewal" => sub'.end = invoices[k].end /\ sub'.status = "active"
        /\ invoices[k].kind # "renewal" => sub'.end = sub.end \/ sub.status \in {"pending", "trialing"}
        /\ sub'.status \in {"pending", "trialing"} => sub.status \in {"pending", "trialing"}
    BY <1>1, <1>2, <1>3, PaymentRows
  <1>5. OneRenewalPerPeriod' /\ RenewalsFollow'
    <2>1. k \in Made
      OBVIOUS
    <2> HIDE DEF k
    <2> QED
      BY <1>1, <1>2, <1>4, <2>1, RenewalsPaid
  <1>6. CarriedOK'
    BY <1>0 DEF CarriedOK
  <1>7. TrialIsFirst'
    <2> SUFFICES ASSUME sub'.status \in {"pending", "trialing"}
                 PROVE  renewing = Nothing /\ \A i \in Made : invoices'[i].kind # "renewal"
      BY <1>2 DEF TrialIsFirst
    <2>1. renewing = Nothing /\ \A i \in Made : invoices[i].kind # "renewal"
      BY <1>4 DEF BillInv, TrialIsFirst
    <2> QED
      BY <1>2, <2>1 DEF SameTerms
  <1>8. GivenUpAfterSchedule' /\ ListedIsPursued'
    <2>1. \A i \in Made : invoices'[i].status = "uncollectible" => i # k
      BY <1>2
    <2>2. \A i \in Made : invoices'[i].status = "uncollectible" =>
              invoices[i].status = "uncollectible" /\ SameTerms(invoices[i], invoices'[i])
                  /\ SucceededOn(i)' = SucceededOn(i)
      BY <1>2, <2>1
    <2>3. now' \in Nat /\ now <= now'
      BY <1>0
    <2> QED
      BY <1>2, <2>2, <2>3, NothingGivenUp
  <1>9. MoneyInv' /\ CarriedOK' /\ SubRow(sub') /\ OneRenewalPerPeriod' /\ GivenUpAfterSchedule'
        /\ ListedIsPursued' /\ TrialIsFirst' /\ RenewalsFollow'
    BY <1>2, <1>4, <1>5, <1>6, <1>7, <1>8
  <1>10. BillInv'
    <2> HIDE DEF BillInv, MoneyInv, CarriedOK
    <2> QED
      BY <1>9 DEF BillInv, MoneyInv, CarriedOK, BillingTypeOK, RowsInPlace, SubRow, DunningStates
  <1> QED
    BY <1>4, <1>10

\* The confirmation of an attempt, and a payment that is marked by hand.
LEMMA ConfirmKeeps ==
    ASSUME BillInv, NEW n, Confirm(n) \/ MarkPaid(n)
    PROVE  BillInv' /\ Follows(sub, sub')
  <1>0. CarriedOK /\ MoneyInv
    BY Parts
  <1>1. UNCHANGED <<now, controls, due, extension, scheduled, renewing, dunning, listed>>
    BY DEF Confirm, MarkPaid
  <1>2. CASE Confirm(n)
    <2>1. n \in Tried /\ Outcome(attempts[n], invoices) = "paid" /\ Pay(n, attempts[n])
      BY <1>2 DEF Confirm
    <2>2. n \in Attempts /\ attempts[n] \in Attempt /\ attempts[n].invoice \in Made
      BY <1>0, <2>1 DEF Tried, MoneyInv, InvoicesKnown
    <2>3. attempts[n].status # "succeeded"
      BY <2>1 DEF Outcome
    <2>4. attempts[n].status = "pending"
      BY <2>2, <2>3 DEF Attempt
    <2> DEFINE t == attempts[n]
    <2>5. t \in Attempt /\ t.status = "pending" /\ t.invoice \in Made /\ attempts[n] \in {Nothing, t}
          /\ Outcome(t, invoices) = "paid" /\ Pay(n, t)
      BY <2>1, <2>2, <2>4
    <2> HIDE DEF t
    <2> QED
      BY <1>1, <2>2, <2>5, PaymentKeeps
  <1>3. CASE MarkPaid(n)
    <2>1. n \in Made /\ \E a \in NextFree(attempts) : Outcome(AttemptOn(n), invoices) = "paid"
                                                  /\ Pay(a, AttemptOn(n))
      BY <1>3 DEF MarkPaid
    <2>2. PICK a \in NextFree(attempts) : Outcome(AttemptOn(n), invoices) = "paid"
                                            /\ Pay(a, AttemptOn(n))
      BY <2>1
    <2>3. a \in Attempts /\ attempts[a] = Nothing
      BY <1>0 DEF NextFree, MoneyInv
    <2> DEFINE t == AttemptOn(n)
    <2>4. t \in Attempt /\ t.status = "pending" /\ t.invoice \in Made
      BY <1>0, <2>1, AttemptRow
    <2>5. attempts[a] \in {Nothing, t} /\ Outcome(t, invoices) = "paid" /\ Pay(a, t)
      BY <2>2, <2>3
    <2> HIDE DEF t
    <2> QED
      BY <1>1, <2>3, <2>4, <2>5, PaymentKeeps
  <1> QED
    BY <1>2, <1>3

\* The dunning command gives an invoice up at the end of the schedule.
LEMMA DunKeeps ==
    ASSUME BillInv, Dun
    PROVE  BillInv' /\ Follows(sub, sub')
  <1> DEFINE k == listed
             stage == dunning[k].stage
  <1>0. CarriedOK /\ MoneyInv /\ SubRow(sub) /\ now \in Nat
    BY Parts, Numbers
  <1>1. /\ UNCHANGED <<now, controls, due, extension, attempts, applied, scheduled, renewing>>
        /\ k # Nothing /\ listed' = Nothing
    BY DEF Dun
  <1>2. /\ k \in Made /\ k \in Invoices /\ invoices[k].status # "uncollectible"
        /\ invoices[k] \in Invoice /\ invoices[k].dueAt \in Nat
    BY <1>0, <1>1, Numbers DEF BillInv, ListedIsPursued, Made
  <1>3. /\ dunning \in DunningStates /\ stage \in 1 .. Len(Schedule)
        /\ Len(Schedule) \in Nat /\ Len(Schedule) >= 1 /\ Schedule[stage] \in Nat
        /\ dunning[k].status \in {"none", "active", "exhausted", "resolved"}
    BY <1>0, <1>2, Numbers DEF CarriedOK, DunningStates
  <1>4. CASE UNCHANGED <<sub, invoices>> /\ \E st \in {"none", "active", "exhausted", "resolved"} :
                 dunning' = [dunning EXCEPT ![k].status = st]
    <2>1. PICK st \in {"none", "active", "exhausted", "resolved"} :
              dunning' = [dunning EXCEPT ![k].status = st]
      BY <1>4
    <2>2. dunning' \in DunningStates /\ \A i \in Invoices : i # k => dunning'[i] = dunning[i]
      BY <1>2, <1>3, <2>1 DEF DunningStates
    <2>3. CarriedOK'
      BY <1>0, <1>1, <2>2 DEF CarriedOK
    <2>4. Restates
      BY <1>0, <1>1, <1>4 DEF Restates, MoneyInv
    <2>5. Made' = Made /\ \A i \in Made : SucceededOn(i)' = SucceededOn(i)
      BY <1>1, <1>4 DEF Made, SucceededOn, Tried
    <2>6. \A i \in Made : invoices[i].status = "uncollectible" => dunning'[i] = dunning[i]
      BY <1>2, <2>2 DEF Made
    <2>7. GivenUpAfterSchedule'
      BY <1>1, <1>4, <2>5, <2>6 DEF BillInv, GivenUpAfterSchedule
    <2>8. ListedIsPursued'
      BY <1>1 DEF ListedIsPursued
    <2>9. controls' = 0 => controls = 0 /\ sub'.end = sub.end /\ extension' = Nothing
      BY <1>1, <1>4 DEF BillInv, RenewalsFollow
    <2>10. SubRow(sub') /\ Follows(sub, sub')
      BY <1>0, <1>4 DEF Follows
    <2> QED
      BY <1>1, <2>3, <2>4, <2>7, <2>8, <2>9, <2>10, QuietStep
  <1>5. CASE Pursued(k) /\ now >= invoices[k].dueAt + Schedule[stage] /\ Advance(k)
    <2> DEFINE st == PursuedStatus(invoices[k].status, stage)
               d == IF stage = Len(Schedule) THEN [dunning[k] EXCEPT !.status = "exhausted"]
                    ELSE [status |-> "active", stage |-> stage + 1]
    <2>1. /\ sub' = Escalated(sub, stage)
          /\ invoices' = [invoices EXCEPT ![k].status = st]
          /\ dunning' = [dunning EXCEPT ![k] = d]
      BY <1>5 DEF Advance
    <2>2. invoices[k].status \in Payable
      BY <1>5 DEF Pursued
    <2>3. /\ st \in Payable \cup {"void", "uncollectible"} /\ invoices[k].status # "paid"
          /\ st = "uncollectible" => stage = Len(Schedule)
      BY <2>2 DEF PursuedStatus, Payable
    <2>4. /\ d \in [status : {"none", "active", "exhausted", "resolved"}, stage : 1 .. Len(Schedule)]
          /\ stage = Len(Schedule) => d = [status |-> "exhausted", stage |-> Len(Schedule)]
      <3>1. CASE stage = Len(Schedule)
        <4>1. dunning[k] = [status |-> dunning[k].status, stage |-> dunning[k].stage]
          BY <1>2, <1>3 DEF DunningStates
        <4>2. d = [status |-> "exhausted", stage |-> Len(Schedule)]
          BY <3>1, <4>1
        <4> QED
          BY <1>3, <3>1, <4>2
      <3>2. CASE stage # Len(Schedule)
        <4>1. stage + 1 \in 1 .. Len(Schedule)
          BY <1>3, <3>2
        <4> QED
          BY <3>2, <4>1
      <3> QED
        BY <3>1, <3>2
    <2> HIDE DEF st, d
    <2>5. dunning' \in DunningStates /\ dunning'[k] = d
          /\ \A i \in Invoices : i # k => dunning'[i] = dunning[i]
      BY <1>2, <1>3, <2>1, <2>4 DEF DunningStates
    <2>6. /\ DOMAIN invoices' = Invoices /\ invoices'[k] = [invoices[k] EXCEPT !.status = st]
          /\ \A i \in Invoices : i # k => invoices'[i] = invoices[i]
      BY <1>0, <1>2, <2>1 DEF MoneyInv
    <2>7. Restates
      BY <1>1, <1>2, <2>3, <2>6 DEF Restates
    <2>8. Made' = Made /\ \A i \in Made : SameTerms(invoices[i], invoices'[i])
      BY <1>0, <2>7, Restating
    <2>9. \A i \in Made : SucceededOn(i)' = SucceededOn(i)
      BY <1>1 DEF SucceededOn, Tried
    <2>10. invoices'[k].status = st
      BY <1>2, <2>3, <2>6, RestatedRow
    <2>11. GivenUpAfterSchedule'
      <3> SUFFICES ASSUME NEW i \in Made, invoices'[i].status = "uncollectible"
                   PROVE  /\ dunning'[i] = [status |-> "exhausted", stage |-> Len(Schedule)]
                          /\ SucceededOn(i)' = {}
                          /\ now' >= invoices'[i].dueAt + Schedule[Len(Schedule)]
        BY <2>8 DEF GivenUpAfterSchedule
      <3>1. CASE i = k
        <4>1. stage = Len(Schedule) /\ dunning'[k] = [status |-> "exhausted", stage |-> Len(Schedule)]
          BY <2>3, <2>4, <2>5, <2>10, <3>1
        <4>2. SucceededOn(k) = {}
          BY <1>0, <1>2, <2>3 DEF MoneyInv, SettledOnce
        <4>3. invoices'[k].dueAt = invoices[k].dueAt /\ now' = now
          BY <1>1, <1>2, <2>8 DEF SameTerms
        <4>4. now >= invoices[k].dueAt + Schedule[Len(Schedule)]
          BY <1>5, <4>1
        <4> HIDE DEF stage
        <4> QED
          BY <1>2, <2>9, <3>1, <4>1, <4>2, <4>3, <4>4
      <3>2. CASE i # k
        <4>1. invoices'[i] = invoices[i] /\ dunning'[i] = dunning[i] /\ SucceededOn(i)' = SucceededOn(i)
          BY <2>5, <2>6, <2>9, <3>2 DEF Made
        <4> QED
          BY <1>1, <4>1 DEF BillInv, GivenUpAfterSchedule
      <3> QED
        BY <3>1, <3>2
    <2>12. ListedIsPursued'
      BY <1>1 DEF ListedIsPursued
    <2>13. Moves(sub, sub')
      BY <1>0, <2>1, DunningRows
    <2>14. controls' = 0 => controls = 0 /\ sub'.end = sub.end /\ extension' = Nothing
      BY <1>1, <2>13 DEF BillInv, RenewalsFollow, Moves
    <2>15. CarriedOK'
      BY <1>0, <1>1, <2>5 DEF CarriedOK
    <2> QED
      BY <1>1, <2>7, <2>11, <2>12, <2>13, <2>14, <2>15, QuietStep DEF Moves
  <1>6. \/ /\ UNCHANGED <<sub, invoices>>
           /\ dunning' = [dunning EXCEPT ![k].status = IF @ = "none" THEN @ ELSE "resolved"]
        \/ /\ UNCHANGED <<sub, invoices>>
           /\ dunning' = [dunning EXCEPT ![k].status = IF @ = "none" THEN "active" ELSE @]
        \/ Pursued(k) /\ now >= invoices[k].dueAt + Schedule[stage] /\ Advance(k)
    BY DEF Dun
  <1>7. CASE /\ UNCHANGED <<sub, invoices>>
             /\ dunning' = [dunning EXCEPT ![k].status = IF @ = "none" THEN @ ELSE "resolved"]
    <2> DEFINE st == IF dunning[k].status = "none" THEN dunning[k].status ELSE "resolved"
    <2>1. st \in {"none", "active", "exhausted", "resolved"}
      BY <1>3
    <2>2. dunning' = [dunning EXCEPT ![k].status = st]
      BY <1>2, <1>3, <1>7 DEF DunningStates
    <2> HIDE DEF st
    <2> QED
      BY <1>4, <1>7, <2>1, <2>2
  <1>8. CASE /\ UNCHANGED <<sub, invoices>>
             /\ dunning' = [dunning EXCEPT ![k].status = IF @ = "none" THEN "active" ELSE @]
    <2> DEFINE st == IF dunning[k].status = "none" THEN "active" ELSE dunning[k].status
    <2>1. st \in {"none", "active", "exhausted", "resolved"}
      BY <1>3
    <2>2. dunning' = [dunning EXCEPT ![k].status = st]
      BY <1>2, <1>3, <1>8 DEF DunningStates
    <2> HIDE DEF st
    <2> QED
      BY <1>4, <1>8, <2>1, <2>2
  <1> QED
    BY <1>5, <1>6, <1>7, <1>8

-----------------------------------------------------------------------------
(* The theorems.                                                           *)

\* A trial or an active subscription, and nothing invoiced.
LEMMA InitBill == BillingInit => BillInv
  <1> SUFFICES ASSUME BillingInit PROVE BillInv
    OBVIOUS
  <1>1. Made = {} /\ Tried = {}
    BY DEF BillingInit, Made, Tried
  <1>2. MoneyInv
    BY <1>1 DEF MoneyInv, BillingInit, Owed, SettledOnce, InvoicesKnown
  <1>3. CarriedOK
    <2>1. now \in 0 .. MaxNow /\ controls \in 0 .. MaxControls
      BY PlansAreNatural DEF BillingInit, SubscriptionInit
    <2>2. due = NoDecision
          /\ due \in [action : {"none", "cancelled", "grace", "suspended", "expired"}, days : Nat]
      BY DEF BillingInit, SubscriptionInit, NoDecision
    <2>3. dunning \in DunningStates
      <3>1. 1 \in 1 .. Len(Schedule)
        BY BillingBounds
      <3> QED
        BY <3>1 DEF BillingInit, DunningStates
    <2> QED
      BY <2>1, <2>2, <2>3 DEF CarriedOK, BillingInit, SubscriptionInit
  <1>4. SubRow(sub)
    <2>1. PICK trial \in BOOLEAN :
              sub = [status      |-> IF trial /\ TrialDays > 0 THEN "trialing" ELSE "active",
                     current     |-> TRUE,
                     version     |-> Default,
                     deadline    |-> IF trial /\ TrialDays > 0 THEN TrialDays ELSE NoTime,
                     end         |-> NoTime,
                     cancelAtEnd |-> FALSE]
      BY DEF BillingInit, SubscriptionInit
    <2>2. TrialDays \in Nat /\ Default \in Versions
      BY PlansAreNatural, VersionsAreNamed
    <2>3. CASE trial /\ TrialDays > 0
      BY <2>1, <2>2, <2>3, TransitionTable DEF SubRow, Subscriptions, Dates, Terminal
    <2>4. CASE ~(trial /\ TrialDays > 0)
      BY <2>1, <2>2, <2>4, TransitionTable DEF SubRow, Subscriptions, Dates, Terminal
    <2> QED
      BY <2>3, <2>4
  <1>5. OneRenewalPerPeriod /\ GivenUpAfterSchedule /\ ListedIsPursued /\ TrialIsFirst
    BY <1>1 DEF OneRenewalPerPeriod, GivenUpAfterSchedule, ListedIsPursued, TrialIsFirst,
                BillingInit
  <1>6. RenewalsFollow
    BY <1>1 DEF RenewalsFollow, PaidRenewals, BillingInit, SubscriptionInit
  <1> QED
    BY <1>2, <1>3, <1>4, <1>5, <1>6, Parts

\* Every step keeps the invariant and takes a transition the code allows.
LEMMA NextBill ==
    BillInv /\ [BillingNext]_billingVars => BillInv' /\ Follows(sub, sub')
  <1> SUFFICES ASSUME BillInv, [BillingNext]_billingVars PROVE BillInv' /\ Follows(sub, sub')
    OBVIOUS
  <1>1. CASE BillingStep
    BY <1>1, PlanChangeKeeps, QueriesKeep, RenewalKeeps, ConfirmKeeps, DunKeeps DEF BillingStep
  <1>2. CASE ServiceStep /\ UNCHANGED billVars
    BY <1>2, ServiceKeeps, ServiceRows
  <1>3. CASE UNCHANGED billingVars
    <2>1. BillInv'
      BY <1>3 DEF billingVars, subVars, billVars, BillInv, BillingTypeOK, RowsInPlace, Owed, Made,
                  SettledOnce, SucceededOn, Tried, InvoicesKnown, OneRenewalPerPeriod,
                  GivenUpAfterSchedule, ListedIsPursued, TrialIsFirst, RenewalsFollow,
                  PaidRenewals, RenewalFrom
    <2> QED
      BY <1>3, <2>1 DEF billingVars, subVars, Follows
  <1> QED
    BY <1>1, <1>2, <1>3 DEF BillingNext

\* What the invariant says of the money and the period.
LEMMA BillSound == BillInv => BillingSound
  <1> SUFFICES ASSUME BillInv PROVE BillingSound
    OBVIOUS
  <1>1. PaidByOneAttempt
    <2> SUFFICES ASSUME NEW i \in Made
                 PROVE  /\ invoices[i].paid <= Price[invoices[i].version]
                        /\ Cardinality(SucceededOn(i)) = IF invoices[i].status = "paid" THEN 1 ELSE 0
      BY DEF PaidByOneAttempt
    <2>1. invoices[i] \in Invoice
      BY DEF BillInv, BillingTypeOK, Made
    <2>2. Price[invoices[i].version] \in Nat
      BY <2>1, PlansAreNatural DEF Invoice
    <2>3. invoices[i].paid = Price[invoices[i].version] \/ invoices[i].paid = 0
      BY DEF BillInv, Owed
    <2>4. CASE invoices[i].status = "paid"
      <3>1. PICK a \in Attempts : SucceededOn(i) = {a}
        BY <2>4 DEF BillInv, SettledOnce
      <3>2. Cardinality(SucceededOn(i)) = 1
        BY <3>1, FS_Singleton
      <3> QED
        BY <2>2, <2>3, <2>4, <3>2
    <2>5. CASE invoices[i].status # "paid"
      <3>1. SucceededOn(i) = {}
        BY <2>5 DEF BillInv, SettledOnce
      <3>2. Cardinality(SucceededOn(i)) = 0
        BY <3>1, FS_EmptySet
      <3> QED
        BY <2>2, <2>3, <2>5, <3>2
    <2> QED
      BY <2>4, <2>5
  <1>2. CurrentUntilItEnds
    BY DEF BillInv, SubRow, CurrentUntilItEnds
  <1>3. PaidPeriodHonoured
    <2> SUFFICES ASSUME controls = 0, PaidRenewals # {}
                 PROVE  /\ \E i \in PaidRenewals : sub.end = invoices[i].end
                        /\ \A i \in PaidRenewals : sub.end = NoTime \/ invoices[i].end <= sub.end
      BY DEF PaidPeriodHonoured
    <2>1. /\ \A i \in Made : invoices[i].kind = "renewal" => InTurn(invoices[i], sub.end)
          /\ \E i \in PaidRenewals : sub.end = invoices[i].end
      BY DEF BillInv, RenewalsFollow
    <2> QED
      BY <2>1 DEF PaidRenewals, InTurn
  <1> QED
    BY <1>1, <1>2, <1>3 DEF BillInv, BillingSound

\* An invoice is paid once, a period invoiced once, nothing given up that was
\* settled, and the store has the days it paid for, however commands, payments,
\* cancellations and the administrator overlap.
THEOREM BillingIsSound == BillingSpec => []BillingSound
  <1>1. BillInv /\ [BillingNext]_billingVars => BillInv'
    BY NextBill
  <1> QED
    BY <1>1, InitBill, BillSound, PTL DEF BillingSpec

\* The status of the subscription takes only the transitions the code allows.
THEOREM StatusIsAllowed == BillingSpec => OnlyAllowedTransitions
  <1>1. BillInv /\ [BillingNext]_billingVars => BillInv'
    BY NextBill
  <1>2. BillInv /\ [BillingNext]_billingVars =>
            [sub'.status /= sub.status => sub'.status \in AllowedTransitions[sub.status]]_billingVars
    BY NextBill DEF Follows
  <1> QED
    BY <1>1, <1>2, InitBill, PTL DEF BillingSpec, OnlyAllowedTransitions
=============================================================================
