----------------------- MODULE DashboardMembers_proofs -----------------------
(***************************************************************************)
(* Proofs about DashboardMembers, for any users, invitations, requests at  *)
(* once and limit.                                                         *)
(*                                                                         *)
(* MembersInvariant.  Unless the checks of an invitation overlap with      *)
(* another request that invites or accepts the same user, or the look-up   *)
(* of an earlier invitation fails, a user is one thing at a time: a        *)
(* member, about to be invited, or the user of one invitation that can     *)
(* still be accepted.                                                      *)
(*                                                                         *)
(* CountsHold.  Unless a seat was taken behind it, what a request has      *)
(* counted so far is no less than what there is of it.                     *)
(***************************************************************************)
EXTENDS DashboardMembers, FiniteSetTheorems, TLAPS

\* The requests that add a member for i or record that they did.
Accepting(q, i) == requests[q].at \in {"access", "add", "accepted"} /\ i \in IdsOf(requests[q])

\* An invitation that its user may still become a member by.
Open(i) == status[i] \in {"pending", "lapsed"} \/ \E q \in Requests : Accepting(q, i)

\* A request that saw no member and no invitation of its user.
Anew(q) == requests[q].at \in {"count", "create"}

\* Who was seen to be no member is none.
PendingOutside ==
  \A q \in Requests : requests[q].at = "pending" /\ requests[q].user \notin doubled =>
    requests[q].user \notin members

\* Who is about to be invited is not a member nor about to become one.
CreatingAlone ==
  \A q \in Requests : Anew(q) /\ requests[q].user \notin doubled =>
    /\ requests[q].user \notin members
    /\ \A i \in Invitations : user[i] = requests[q].user => ~Open(i)
    /\ \A r \in Requests \ {q} : Anew(r) => requests[r].user # requests[q].user

OneOpen ==
  \A i, j \in Invitations : i # j /\ user[i] = user[j] /\ Open(i) /\ Open(j) => user[i] \in doubled

\* What is about to be recorded happened, or its error is ignored.
RecordsJoined ==
  \A q \in Requests : requests[q].at = "accepted" => requests[q].id \in joined \cup dropped

MembersInvariant ==
  /\ TypeOK /\ PendingOutside /\ CreatingAlone /\ OneOpen /\ RecordsJoined
  /\ MembersHaveNoInvitation /\ AcceptedMeansJoined

-----------------------------------------------------------------------------
LEMMA RequestFields ==
  ASSUME NEW r \in Request
  PROVE  /\ r.at \in {"idle", "pending", "count", "create", "mail", "rollback", "close", "access", "add", "accepted"}
         /\ r.at = "idle" => r = NoRequest
         /\ r.at \in {"pending", "create"} => r = [at |-> r.at, user |-> r.user] /\ r.user \in Users
         /\ r.at = "count" => /\ r.user \in Users /\ r.left \in (SUBSET Seat) \ {{}} /\ r.taken \in Nat
                              /\ r = [at |-> "count", user |-> r.user, left |-> r.left, taken |-> r.taken]
         /\ r.at \in {"mail", "rollback", "close", "access"} => r = [at |-> r.at, id |-> r.id] /\ r.id \in Invitations
         /\ r.at = "add" => /\ r.ids \in (SUBSET Invitations) \ {{}} /\ r.strict \in BOOLEAN /\ r.had \in BOOLEAN
                            /\ r = [at |-> "add", ids |-> r.ids, strict |-> r.strict, had |-> r.had]
         /\ r.at = "accepted" => /\ r.id \in Invitations /\ r.ids \in SUBSET Invitations /\ r.strict \in BOOLEAN
                                 /\ r = [at |-> "accepted", id |-> r.id, ids |-> r.ids, strict |-> r.strict]
  BY DEF Request, NoRequest

LEMMA RequestKinds ==
  /\ NoRequest \in Request /\ NoRequest.at = "idle"
  /\ \A u \in Users, at \in {"pending", "create"} : [at |-> at, user |-> u] \in Request
  /\ \A u \in Users, left \in (SUBSET Seat) \ {{}}, taken \in Nat :
       [at |-> "count", user |-> u, left |-> left, taken |-> taken] \in Request
  /\ \A i \in Invitations, at \in {"mail", "rollback", "close", "access"} : [at |-> at, id |-> i] \in Request
  /\ \A ids \in (SUBSET Invitations) \ {{}}, strict, had \in BOOLEAN :
       [at |-> "add", ids |-> ids, strict |-> strict, had |-> had] \in Request
  /\ \A i \in Invitations, ids \in SUBSET Invitations, strict \in BOOLEAN :
       [at |-> "accepted", id |-> i, ids |-> ids, strict |-> strict] \in Request
  BY DEF Request, NoRequest

LEMMA SeatsAreFinite ==
  ASSUME TypeOK
  PROVE  /\ IsFiniteSet(Seated) /\ IsFiniteSet(members) /\ IsFiniteSet(Alive)
         /\ Cardinality(Seated) <= Cardinality(members) + Cardinality(Alive)
         /\ Cardinality(Seated) \in Nat /\ Cardinality(members) \in Nat /\ Cardinality(Alive) \in Nat
         /\ Limit \in Nat
<1> DEFINE T == {user[i] : i \in Alive}
           f == [i \in Alive |-> user[i]]
<1>1. IsFiniteSet(Users) /\ IsFiniteSet(Invitations) /\ Limit \in Nat
  BY MembersAssumption DEF MembersAssumption
<1>2. members \in SUBSET Users /\ Alive \in SUBSET Invitations
  BY DEF TypeOK, Alive
<1>3. IsFiniteSet(members) /\ IsFiniteSet(Alive)
  BY <1>1, <1>2, FS_Subset
<1>4. f \in Surjection(Alive, T)
  BY DEF Surjection
<1>5. IsFiniteSet(T) /\ Cardinality(T) <= Cardinality(Alive)
  BY <1>3, <1>4, FS_Surjection
<1>6. Seated = members \cup T
  BY DEF Seated
<1> HIDE DEF T, f
<1>7. /\ IsFiniteSet(Seated)
      /\ Cardinality(Seated) = Cardinality(members) + Cardinality(T) - Cardinality(members \cap T)
  BY <1>3, <1>5, <1>6, FS_Union
<1>8. IsFiniteSet(members \cap T)
  BY <1>3, FS_Intersection
<1>9. /\ Cardinality(members) \in Nat /\ Cardinality(Alive) \in Nat /\ Cardinality(T) \in Nat
      /\ Cardinality(members \cap T) \in Nat /\ Cardinality(Seated) \in Nat
  BY <1>3, <1>5, <1>7, <1>8, FS_CardinalityType
<1> QED
  BY <1>1, <1>3, <1>5, <1>7, <1>9

LEMMA MembersInit == Init => MembersInvariant
<1> SUFFICES ASSUME Init PROVE MembersInvariant
  OBVIOUS
<1>1. TypeOK
  <2>1. faults \in 0 .. MaxFaults
    BY MembersAssumption DEF MembersAssumption, Init
  <2>2. requests \in [Requests -> Request] /\ status \in [Invitations -> Status]
    BY RequestKinds DEF Init, Status
  <2> QED
    BY <2>1, <2>2 DEF Init, TypeOK
<1>2. \A q \in Requests : requests[q].at = "idle"
  BY RequestKinds DEF Init
<1>3. \A i \in Invitations : status[i] = "none"
  BY DEF Init
<1> QED
  BY <1>1, <1>2, <1>3
  DEF MembersInvariant, PendingOutside, CreatingAlone, Anew, OneOpen, Open, Accepting, RecordsJoined,
      MembersHaveNoInvitation, AcceptedMeansJoined, Alive

-----------------------------------------------------------------------------
(* Steps that open nothing: no invitation becomes acceptable, nobody is    *)
(* about to be invited who was not, and nobody becomes a member.           *)

Quiet ==
  /\ UNCHANGED user
  /\ members' \subseteq members
  /\ requests' \in [Requests -> Request] /\ status' \in [Invitations -> Status]
  /\ doubled' = doubled
  /\ joined \subseteq joined' /\ dropped \subseteq dropped'
  /\ joined' \subseteq Invitations /\ dropped' \subseteq Invitations
  /\ raced' \subseteq Requests /\ faults' \in 0 .. MaxFaults
  /\ \A i \in Invitations :
       /\ status'[i] \in {"pending", "lapsed"} => status[i] \in {"pending", "lapsed"}
       /\ status'[i] = "pending" => status[i] = "pending"
       /\ status'[i] = "accepted" => status[i] = "accepted" \/ i \in joined' \cup dropped'
  /\ \A q \in Requests : requests'[q] = requests[q] \/
       /\ Anew(q)' => Anew(q) /\ requests'[q].user = requests[q].user
       /\ requests'[q].at = "pending" => requests'[q].user \notin members
       /\ \A i \in Invitations : Accepting(q, i)' => Accepting(q, i) \/ status[i] = "pending"
       /\ requests'[q].at = "accepted" => requests'[q].id \in joined' \cup dropped'
       /\ requests[q].at = "accepted" =>
            status'[requests[q].id] # "pending" \/ requests[q].id \in dropped'

LEMMA QuietStep ==
  ASSUME MembersInvariant, Quiet
  PROVE  MembersInvariant'
<1>1. TypeOK'
  BY DEF MembersInvariant, TypeOK, Quiet
<1>2. \A i \in Invitations : Open(i)' => Open(i)
  <2> SUFFICES ASSUME NEW i \in Invitations, Open(i)' PROVE Open(i)
    OBVIOUS
  <2>1. CASE status'[i] \in {"pending", "lapsed"}
    BY <2>1 DEF Quiet, Open
  <2>2. CASE \E r \in Requests : Accepting(r, i)'
    <3>1. PICK r \in Requests : Accepting(r, i)'
      BY <2>2
    <3>2. CASE requests'[r] = requests[r]
      BY <3>1, <3>2 DEF Open, Accepting, IdsOf
    <3>3. CASE requests'[r] # requests[r]
      BY <3>1, <3>3 DEF Quiet, Open
    <3> QED
      BY <3>2, <3>3
  <2> QED
    BY <2>1, <2>2 DEF Open
<1>3. PendingOutside' /\ CreatingAlone'
  <2>1. PendingOutside'
    BY DEF MembersInvariant, PendingOutside, Quiet
  <2>2. \A q \in Requests : Anew(q)' => Anew(q) /\ requests'[q].user = requests[q].user
    BY DEF Quiet, Anew
  <2>3. CreatingAlone'
    BY <1>2, <2>2 DEF MembersInvariant, CreatingAlone, Quiet
  <2> QED
    BY <2>1, <2>3
<1>4. OneOpen'
  BY <1>2 DEF MembersInvariant, OneOpen, Quiet
<1>5. RecordsJoined'
  BY DEF MembersInvariant, RecordsJoined, Quiet
<1>6. MembersHaveNoInvitation'
  BY DEF MembersInvariant, MembersHaveNoInvitation, Alive, Quiet
<1>7. AcceptedMeansJoined'
  BY DEF MembersInvariant, AcceptedMeansJoined, Quiet
<1> QED
  BY <1>1, <1>3, <1>4, <1>5, <1>6, <1>7 DEF MembersInvariant

LEMMA InvitingEndsQuietly ==
  ASSUME MembersInvariant, NEW q \in Requests, EnqueueInvitation(q) \/ DeleteInvitation(q)
  PROVE  Quiet
<1>1. requests[q].at \in {"mail", "rollback"} /\ requests[q] \in Request
  BY DEF EnqueueInvitation, DeleteInvitation, MembersInvariant, TypeOK
<1>2. requests[q] = [at |-> requests[q].at, id |-> requests[q].id] /\ requests[q].id \in Invitations
  BY <1>1, RequestFields
<1>3. CASE EnqueueInvitation(q)
  <2>1. PICK r \in {NoRequest, [at |-> "rollback", id |-> requests[q].id]} :
          requests' = [requests EXCEPT ![q] = r]
    BY <1>2, <1>3 DEF EnqueueInvitation, Goto
  <2>2. r \in Request /\ r.at \in {"idle", "rollback"}
    <3>1. CASE r = NoRequest
      BY <3>1, RequestKinds
    <3>2. CASE r = [at |-> "rollback", id |-> requests[q].id]
      BY <1>2, <3>2 DEF Request
    <3> QED
      BY <3>1, <3>2
  <2> QED
    BY <1>1, <1>3, <2>1, <2>2, MembersAssumption
    DEF EnqueueInvitation, Fault, MembersInvariant, TypeOK, Quiet, Anew, Accepting, rows, history, MembersAssumption
<1>4. CASE DeleteInvitation(q)
  BY <1>1, <1>2, <1>4, RequestKinds
  DEF DeleteInvitation, Goto, SetStatus, MembersInvariant, TypeOK, Status, Quiet, Anew, Accepting, history
<1> QED
  BY <1>3, <1>4

LEMMA InvitingStartsQuietly ==
  ASSUME MembersInvariant, NEW q \in Requests, NEW u \in Users, InviteUser(q, u)
  PROVE  Quiet
<1> DEFINE r == [at |-> "pending", user |-> u]
<1>1. r \in Request /\ r.at = "pending" /\ r.user = u /\ u \notin members
  BY RequestKinds DEF InviteUser
<1>2. requests' = [requests EXCEPT ![q] = r] /\ UNCHANGED <<members, rows, faults, history>>
  BY DEF InviteUser, Goto
<1>3. requests[q].at = "idle"
  BY RequestKinds DEF InviteUser
<1> HIDE DEF r
<1> QED
  BY <1>1, <1>2, <1>3 DEF MembersInvariant, TypeOK, Quiet, Anew, Accepting, rows, history

LEMMA CountingIsQuiet ==
  ASSUME MembersInvariant, NEW q \in Requests, CountMembers(q) \/ CountInvitations(q)
  PROVE  Quiet
<1>1. PICK seat \in Seat, n \in Nat : Counted(q, seat, n)
  <2>1. Cardinality(members) \in Nat /\ Cardinality(Alive) \in Nat
    BY SeatsAreFinite DEF MembersInvariant
  <2> QED
    BY <2>1 DEF CountMembers, CountInvitations, Seat
<1> DEFINE left == requests[q].left \ {seat}
           taken == requests[q].taken + n
<1>2. /\ requests[q].at = "count" /\ seat \in requests[q].left
      /\ \/ /\ left # {} /\ UNCHANGED raced
            /\ Goto(q, [at |-> "count", user |-> requests[q].user, left |-> left, taken |-> taken])
         \/ left = {} /\ HasSeat(taken) /\ Goto(q, [at |-> "create", user |-> requests[q].user]) /\ UNCHANGED raced
         \/ left = {} /\ ~HasSeat(taken) /\ Goto(q, NoRequest) /\ raced' = raced \ {q}
      /\ UNCHANGED <<members, rows, faults, joined, doubled, dropped>>
  BY <1>1 DEF Counted
<1>3. /\ requests[q].user \in Users /\ left \in SUBSET Seat /\ taken \in Nat
      /\ requests[q] = [at |-> "count", user |-> requests[q].user, left |-> requests[q].left,
                        taken |-> requests[q].taken]
  BY <1>2, RequestFields DEF MembersInvariant, TypeOK
<1> HIDE DEF left, taken
<1>4. PICK s \in Request :
        /\ requests' = [requests EXCEPT ![q] = s]
        /\ s.at = "idle" \/ (s.at \in {"count", "create"} /\ s.user = requests[q].user)
  <2>1. CASE /\ left # {}
             /\ Goto(q, [at |-> "count", user |-> requests[q].user, left |-> left, taken |-> taken])
    <3> DEFINE s == [at |-> "count", user |-> requests[q].user, left |-> left, taken |-> taken]
    <3>1. s \in Request /\ s.at = "count" /\ s.user = requests[q].user
      BY <1>3, <2>1, RequestKinds
    <3>2. requests' = [requests EXCEPT ![q] = s]
      BY <2>1 DEF Goto
    <3> HIDE DEF s
    <3> QED
      BY <3>1, <3>2
  <2>2. CASE Goto(q, [at |-> "create", user |-> requests[q].user])
    BY <1>3, <2>2, RequestKinds DEF Goto
  <2>3. CASE Goto(q, NoRequest)
    BY <2>3, RequestKinds DEF Goto
  <2> QED
    BY <1>2, <2>1, <2>2, <2>3
<1>5. raced' \subseteq Requests
  BY <1>2 DEF MembersInvariant, TypeOK
<1> QED
  BY <1>2, <1>4, <1>5 DEF MembersInvariant, TypeOK, Quiet, Anew, Accepting, rows

LEMMA RefusingIsQuiet ==
  ASSUME MembersInvariant, NEW q \in Requests, requests[q].at = "pending", Goto(q, NoRequest),
         UNCHANGED <<members, rows, faults, history>>
  PROVE  Quiet
  BY RequestKinds DEF Goto, MembersInvariant, TypeOK, Quiet, Anew, Accepting, rows, history

LEMMA AcceptingStartsQuietly ==
  ASSUME MembersInvariant, NEW q \in Requests, NEW i \in Invitations, NEW u \in Users,
         AcceptInvitation(q, i) \/ AcceptAll(q, u) \/ FindAccess(q)
  PROVE  Quiet
<1>1. PICK r \in Request :
        /\ requests' = [requests EXCEPT ![q] = r] /\ r.at \in {"access", "add"}
        /\ \A j \in IdsOf(r) : Accepting(q, j) \/ status[j] = "pending"
  <2>1. CASE AcceptInvitation(q, i)
    BY <2>1, RequestKinds DEF AcceptInvitation, Goto, Alive, IdsOf
  <2>2. CASE AcceptAll(q, u)
    <3> DEFINE s == [at |-> "add", ids |-> AliveOf(u), strict |-> FALSE, had |-> FALSE]
    <3>1. AliveOf(u) \in (SUBSET Invitations) \ {{}}
      BY <2>2 DEF AcceptAll, AliveOf, Alive
    <3>2. s \in Request
      BY <3>1, RequestKinds
    <3>3. s.at = "add" /\ IdsOf(s) = AliveOf(u) /\ \A j \in AliveOf(u) : status[j] = "pending"
      BY DEF IdsOf, AliveOf, Alive
    <3>4. requests' = [requests EXCEPT ![q] = s]
      BY <2>2 DEF AcceptAll, Goto
    <3> HIDE DEF s
    <3> QED
      BY <3>2, <3>3, <3>4
  <2>3. CASE FindAccess(q)
    <3> DEFINE j == requests[q].id
    <3>1. requests[q].at = "access" /\ j \in Invitations
      BY <2>3, RequestFields DEF FindAccess, MembersInvariant, TypeOK
    <3>2. Accepting(q, j)
      BY <3>1 DEF Accepting, IdsOf
    <3>3. requests' = [requests EXCEPT ![q] = [at |-> "add", ids |-> {j}, strict |-> TRUE,
                                                had |-> user[j] \in members]]
      BY <2>3 DEF FindAccess, Goto
    <3>4. [at |-> "add", ids |-> {j}, strict |-> TRUE, had |-> user[j] \in members] \in Request
      <4>1. {j} \in (SUBSET Invitations) \ {{}} /\ (user[j] \in members) \in BOOLEAN
        BY <3>1
      <4> QED
        BY <4>1, RequestKinds
    <3> HIDE DEF j
    <3> QED
      BY <3>2, <3>3, <3>4 DEF IdsOf
  <2> QED
    BY <2>1, <2>2, <2>3
<1>2. \A j \in Invitations : Accepting(q, j)' => Accepting(q, j) \/ status[j] = "pending"
  BY <1>1 DEF Accepting, MembersInvariant, TypeOK
<1>3. requests[q].at \in {"idle", "access"} /\ UNCHANGED <<members, rows, faults, history>>
  BY RequestKinds DEF AcceptInvitation, AcceptAll, FindAccess
<1> QED
  BY <1>1, <1>2, <1>3 DEF MembersInvariant, TypeOK, Quiet, Anew, rows, history

LEMMA ClosingIsQuiet ==
  ASSUME MembersInvariant, NEW q \in Requests, NEW i \in Invitations,
         CloseInvitation(q, i) \/ MarkClosed(q)
  PROVE  Quiet
<1>1. requests[q] \in Request
  BY DEF MembersInvariant, TypeOK
<1>2. CASE CloseInvitation(q, i)
  BY <1>1, <1>2, RequestKinds
  DEF CloseInvitation, Goto, MembersInvariant, TypeOK, Quiet, Anew, Accepting, rows, history
<1>3. CASE MarkClosed(q)
  BY <1>1, <1>3, RequestKinds, RequestFields
  DEF MarkClosed, Goto, SetStatus, MembersInvariant, TypeOK, Status, Quiet, Anew, Accepting, history
<1> QED
  BY <1>2, <1>3

LEMMA OutsideIsQuiet ==
  ASSUME MembersInvariant, NEW i \in Invitations, NEW u \in Users,
         AcceptExpired(i) \/ Lapse(i) \/ RemoveMember(u)
  PROVE  Quiet
  BY DEF AcceptExpired, Lapse, RemoveMember, SetStatus, Alive, MembersInvariant, TypeOK, Status, Quiet,
         rows, history

LEMMA BreakingOffIsQuiet ==
  ASSUME MembersInvariant, NEW q \in Requests, BreakOff(q)
  PROVE  Quiet
<1>1. requests[q] \in Request
  BY DEF MembersInvariant, TypeOK
<1> QED
  BY <1>1, RequestKinds, RequestFields, MembersAssumption
  DEF BreakOff, Fault, Goto, MembersInvariant, TypeOK, Quiet, Anew, Accepting, rows, MembersAssumption

\* Where a request that accepts goes next: it accepts nothing else.
LEMMA AcceptingGoesOn ==
  ASSUME MembersInvariant, NEW q \in Requests, NEW i \in Invitations
  PROVE  LET r == requests[q] IN
         /\ r \in Request
         /\ r.at = "add" =>
              /\ ToStatus(q, i) \in Request /\ ToStatus(q, i).at = "accepted" /\ ToStatus(q, i).id = i
              /\ i \in r.ids => IdsOf(ToStatus(q, i)) \subseteq r.ids
              /\ LET s == ToNext([r EXCEPT !.ids = @ \ {i}]) IN
                 s \in Request /\ s.at \in {"idle", "add"} /\ (s.at = "add" => s.ids \subseteq r.ids)
         /\ r.at = "accepted" =>
              ToNext(r) \in Request /\ ToNext(r).at \in {"idle", "add"}
              /\ (ToNext(r).at = "add" => ToNext(r).ids \subseteq r.ids)
<1> DEFINE r == requests[q]
<1>1. r \in Request
  BY DEF MembersInvariant, TypeOK
<1>2. CASE r.at = "add"
  <2>1. /\ r.ids \in SUBSET Invitations /\ r.strict \in BOOLEAN /\ r.had \in BOOLEAN
        /\ r = [at |-> "add", ids |-> r.ids, strict |-> r.strict, had |-> r.had]
    BY <1>1, <1>2, RequestFields
  <2>2. ToStatus(q, i) = [at |-> "accepted", id |-> i, ids |-> r.ids \ {i}, strict |-> r.strict]
    BY DEF ToStatus
  <2>3. ToStatus(q, i) \in Request /\ ToStatus(q, i).at = "accepted" /\ ToStatus(q, i).id = i
    BY <2>1, <2>2, RequestKinds
  <2>4. i \in r.ids => IdsOf(ToStatus(q, i)) \subseteq r.ids
    BY <2>2 DEF IdsOf
  <2> DEFINE t == [r EXCEPT !.ids = @ \ {i}]
  <2>5. t.ids = r.ids \ {i} /\ t.strict = r.strict
    BY <2>1
  <2> HIDE DEF t
  <2>6. ToNext(t) \in Request /\ ToNext(t).at \in {"idle", "add"} /\ (ToNext(t).at = "add" => ToNext(t).ids \subseteq r.ids)
    BY <2>1, <2>5, RequestKinds DEF ToNext
  <2> QED
    BY <1>1, <1>2, <2>3, <2>4, <2>6 DEF t
<1>3. CASE r.at = "accepted"
  <2>1. r.ids \in SUBSET Invitations /\ r.strict \in BOOLEAN
    BY <1>1, <1>3, RequestFields
  <2>2. ToNext(r) \in Request /\ ToNext(r).at \in {"idle", "add"} /\ (ToNext(r).at = "add" => ToNext(r).ids \subseteq r.ids)
    BY <2>1, RequestKinds DEF ToNext
  <2> QED
    BY <1>1, <1>3, <2>2
<1> QED
  BY <1>1, <1>2, <1>3

LEMMA AcceptingStepsQuietly ==
  ASSUME MembersInvariant, NEW q \in Requests, NEW i \in Invitations,
         \/ SkipExpired(q, i) \/ AddRefused(q, i) \/ AddFails(q, i) \/ MarkAccepted(q)
         \/ AddMember(q, i) /\ UNCHANGED <<members, raced, doubled>>
  PROVE  Quiet
<1>1. CASE SkipExpired(q, i)
  <2>1. /\ requests[q].at = "add" /\ i \in requests[q].ids /\ status[i] = "lapsed"
        /\ status' = [status EXCEPT ![i] = "closed"]
        /\ UNCHANGED <<members, user, faults, history>>
    BY <1>1 DEF SkipExpired, SetStatus
  <2>2. PICK s \in {ToNext([requests[q] EXCEPT !.ids = @ \ {i}])} : requests' = [requests EXCEPT ![q] = s]
    BY <1>1 DEF SkipExpired, Goto
  <2>3. s \in Request /\ s.at \in {"idle", "add"} /\ (s.at = "add" => s.ids \subseteq requests[q].ids)
    BY <2>1, <2>2, AcceptingGoesOn
  <2>4. \A j \in Invitations : Accepting(q, j)' => Accepting(q, j)
    BY <2>1, <2>2, <2>3 DEF Accepting, IdsOf, MembersInvariant, TypeOK
  <2>5. status' \in [Invitations -> Status] /\ \A j \in Invitations : status'[j] \in {status[j], "closed"}
    BY <2>1 DEF MembersInvariant, TypeOK, Status
  <2> QED
    BY <2>1, <2>2, <2>3, <2>4, <2>5 DEF MembersInvariant, TypeOK, Quiet, Anew, history
<1>2. CASE AddRefused(q, i) \/ AddFails(q, i) \/ (AddMember(q, i) /\ UNCHANGED <<members, raced, doubled>>)
  <2>1. /\ requests[q].at = "add" /\ i \in requests[q].ids
        /\ UNCHANGED <<members, rows, raced, doubled>>
        /\ joined' \in {joined, joined \cup {i}} /\ dropped' \in {dropped, dropped \cup {i}}
    BY <1>2 DEF AddRefused, AddFails, AddMember, AtAdd
  <2>2. faults' \in 0 .. MaxFaults
    BY <1>2, MembersAssumption
    DEF AddRefused, AddFails, AddMember, Fault, MembersInvariant, TypeOK, MembersAssumption
  <2>3. PICK s \in {NoRequest, ToStatus(q, i)} :
          /\ requests' = [requests EXCEPT ![q] = s]
          /\ s = NoRequest \/ i \in joined' \cup dropped'
    BY <1>2 DEF AddRefused, AddFails, AddMember, Goto
  <2>4. /\ s \in Request /\ s.at \in {"idle", "accepted"}
        /\ s.at = "accepted" => s.id = i /\ i \in joined' \cup dropped' /\ IdsOf(s) \subseteq requests[q].ids
    <3>1. CASE s = NoRequest
      BY <3>1, RequestKinds
    <3>2. CASE s = ToStatus(q, i) /\ i \in joined' \cup dropped'
      BY <2>1, <3>2, AcceptingGoesOn
    <3> QED
      BY <2>3, <3>1, <3>2
  <2>5. \A j \in Invitations : Accepting(q, j)' => Accepting(q, j)
    <3>1. requests'[q] = s /\ IdsOf(requests[q]) = requests[q].ids
      BY <2>1, <2>3 DEF IdsOf, MembersInvariant, TypeOK
    <3> QED
      BY <2>1, <2>4, <3>1 DEF Accepting
  <2> QED
    BY <2>1, <2>2, <2>3, <2>4, <2>5 DEF MembersInvariant, TypeOK, Quiet, Anew, rows
<1>3. CASE MarkAccepted(q)
  <2>1. /\ requests[q].at = "accepted" /\ requests[q].id \in joined \cup dropped
        /\ requests[q].id \in Invitations
    BY <1>3, RequestFields DEF MarkAccepted, MembersInvariant, TypeOK, RecordsJoined
  <2>2. PICK r \in {NoRequest, ToNext(requests[q])} : requests' = [requests EXCEPT ![q] = r]
    BY <1>3 DEF MarkAccepted, Goto
  <2>3. r \in Request /\ r.at \in {"idle", "add"} /\ (r.at = "add" => r.ids \subseteq requests[q].ids)
    BY <2>1, <2>2, AcceptingGoesOn, RequestKinds
  <2>4. \A j \in Invitations : Accepting(q, j)' => Accepting(q, j)
    BY <2>1, <2>2, <2>3 DEF Accepting, IdsOf, MembersInvariant, TypeOK
  <2>5. /\ status' \in [Invitations -> Status]
        /\ \A j \in Invitations : status'[j] = status[j] \/ (j = requests[q].id /\ status'[j] = "accepted")
        /\ status'[requests[q].id] \in {"none", "accepted"}
    <3> DEFINE j == requests[q].id
    <3>1. status' = [status EXCEPT ![j] = "accepted"] \/ (status[j] = "none" /\ status' = status)
      BY <1>3 DEF MarkAccepted, SetStatus
    <3>2. j \in Invitations /\ status \in [Invitations -> Status] /\ "accepted" \in Status
      BY <2>1 DEF MembersInvariant, TypeOK, Status
    <3> HIDE DEF j
    <3>3. /\ status' \in [Invitations -> Status]
          /\ \A k \in Invitations : status'[k] = status[k] \/ (k = j /\ status'[k] = "accepted")
          /\ status'[j] \in {"none", "accepted"}
      BY <3>1, <3>2
    <3> QED
      BY <3>3 DEF j
  <2> QED
    BY <1>3, <2>1, <2>2, <2>3, <2>4, <2>5 DEF MarkAccepted, MembersInvariant, TypeOK, Quiet, Anew, history
<1> QED
  BY <1>1, <1>2, <1>3

-----------------------------------------------------------------------------
(* The steps that open something.                                          *)

\* Whose invitation is accepted becomes a member: any other invitation of the
\* same user would be open beside this one.
LEMMA AddMemberStep ==
  ASSUME MembersInvariant, NEW q \in Requests, NEW i \in Invitations, AddMember(q, i)
  PROVE  MembersInvariant'
<1>1. CASE UNCHANGED <<members, raced, doubled>>
  BY <1>1, AcceptingStepsQuietly, QuietStep
<1>2. CASE /\ members' = members \cup {user[i]} /\ raced' = raced \cup Missing(i)
           /\ doubled' = IF \E r \in Requests : requests[r].at = "pending" /\ requests[r].user = user[i]
                         THEN doubled \cup {user[i]} ELSE doubled
  <2>1. /\ requests[q].at = "add" /\ i \in requests[q].ids
        /\ requests' = [requests EXCEPT ![q] = ToStatus(q, i)]
        /\ joined' = joined \cup {i} /\ raced' \subseteq Requests
        /\ doubled \subseteq doubled' /\ doubled' \subseteq Users
        /\ UNCHANGED <<rows, faults, dropped>>
    BY <1>2 DEF AddMember, AtAdd, Goto, Missing, HasCounted, MembersInvariant, TypeOK
  <2>2. /\ ToStatus(q, i) \in Request /\ ToStatus(q, i).at = "accepted" /\ ToStatus(q, i).id = i
        /\ IdsOf(ToStatus(q, i)) \subseteq requests[q].ids
    BY <2>1, AcceptingGoesOn
  <2>3. TypeOK'
    BY <1>2, <2>1, <2>2 DEF MembersInvariant, TypeOK, rows
  <2>4. \A r \in Requests, j \in Invitations : Accepting(r, j)' => Accepting(r, j)
    BY <2>1, <2>2 DEF Accepting, IdsOf, MembersInvariant, TypeOK
  <2>5. \A j \in Invitations : Open(j)' => Open(j)
    BY <2>1, <2>4 DEF Open, rows
  <2>6. Open(i)
    BY <2>1 DEF Open, Accepting, IdsOf
  <2>7. PendingOutside' /\ CreatingAlone'
    <3>1. \A r \in Requests : requests'[r].at # "accepted" => requests'[r] = requests[r]
      BY <2>1, <2>2 DEF MembersInvariant, TypeOK
    <3>2. PendingOutside'
      BY <1>2, <2>1, <3>1 DEF MembersInvariant, PendingOutside
    <3>3. \A r \in Requests : Anew(r)' => Anew(r) /\ requests'[r].user = requests[r].user
      BY <3>1 DEF Anew
    <3>4. CreatingAlone'
      BY <1>2, <2>1, <2>5, <2>6, <3>3 DEF MembersInvariant, CreatingAlone, rows
    <3> QED
      BY <3>2, <3>4
  <2>8. OneOpen'
    BY <2>1, <2>5 DEF MembersInvariant, OneOpen, rows
  <2>9. RecordsJoined'
    BY <2>1, <2>2 DEF MembersInvariant, RecordsJoined, TypeOK
  <2>10. MembersHaveNoInvitation'
    <3> SUFFICES ASSUME NEW j \in Invitations, status[j] = "pending", user[j] \in members',
                        j \notin dropped, user[j] \notin doubled'
                 PROVE  \E r \in Requests : requests'[r].at = "accepted" /\ requests'[r].id = j
      BY <2>1 DEF MembersHaveNoInvitation, Alive, rows
    <3>1. CASE j = i
      BY <2>1, <2>2, <3>1 DEF MembersInvariant, TypeOK
    <3>2. CASE j # i
      <4>1. user[j] # user[i]
        BY <2>1, <2>6, <3>2 DEF MembersInvariant, OneOpen, Open
      <4>2. PICK r \in Requests : requests[r].at = "accepted" /\ requests[r].id = j
        BY <1>2, <2>1, <4>1 DEF MembersInvariant, MembersHaveNoInvitation, Alive
      <4> QED
        BY <2>1, <4>2 DEF MembersInvariant, TypeOK
    <3> QED
      BY <3>1, <3>2
  <2>11. AcceptedMeansJoined'
    BY <2>1 DEF MembersInvariant, AcceptedMeansJoined, rows
  <2> QED
    BY <2>3, <2>7, <2>8, <2>9, <2>10, <2>11 DEF MembersInvariant
<1> QED
  BY <1>1, <1>2 DEF AddMember

\* No invitation is seen: of a user who is not doubled there is none, no other
\* request invites the user anew, and none accepts for the user.
LEMMA SeesNoneStep ==
  ASSUME MembersInvariant, NEW q \in Requests, requests[q].at = "pending", SeesNone(q),
         faults' \in 0 .. MaxFaults
  PROVE  MembersInvariant'
<1> DEFINE u == requests[q].user
           r == [at |-> "count", user |-> u, left |-> Seat, taken |-> 0]
<1>1. /\ requests' = [requests EXCEPT ![q] = r]
      /\ doubled' = IF Sent(u) \/ InvitingAnew(u) \cup AcceptingFor(u) # {} THEN doubled \cup {u} ELSE doubled
      /\ UNCHANGED <<members, rows, joined, raced, dropped>>
  BY DEF SeesNone, Goto
<1>2. u \in Users /\ r \in Request
  <2>1. u \in Users
    BY RequestFields DEF MembersInvariant, TypeOK
  <2>2. Seat \in (SUBSET Seat) \ {{}} /\ 0 \in Nat
    BY DEF Seat
  <2> QED
    BY <2>1, <2>2, RequestKinds
<1>3. r.at = "count" /\ r.user = u
  OBVIOUS
<1>4. doubled \subseteq doubled' /\ doubled' \subseteq Users
  BY <1>1, <1>2 DEF MembersInvariant, TypeOK
<1>5. u \notin doubled' =>
        /\ u \notin members
        /\ \A i \in Invitations : user[i] = u => ~Open(i)
        /\ \A s \in Requests : Anew(s) => requests[s].user # u
  <2> SUFFICES ASSUME u \notin doubled'
               PROVE  /\ u \notin members
                      /\ \A i \in Invitations : user[i] = u => ~Open(i)
                      /\ \A s \in Requests : Anew(s) => requests[s].user # u
    OBVIOUS
  <2>1. ~Sent(u) /\ InvitingAnew(u) = {} /\ AcceptingFor(u) = {}
    BY <1>1
  <2>2. u \notin members
    BY <1>4 DEF MembersInvariant, PendingOutside
  <2>3. \A i \in Invitations : user[i] = u => ~Open(i)
    BY <2>1 DEF Sent, AcceptingFor, Open, Accepting
  <2>4. \A s \in Requests : Anew(s) => requests[s].user # u
    BY <2>1 DEF InvitingAnew, Anew
  <2> QED
    BY <2>2, <2>3, <2>4
<1> HIDE DEF u, r
<1>6. TypeOK'
  BY <1>1, <1>2, <1>4 DEF MembersInvariant, TypeOK, rows
<1>7. \A s \in Requests : requests'[s] = IF s = q THEN r ELSE requests[s]
  BY <1>1 DEF MembersInvariant, TypeOK
<1>8. \A s \in Requests, i \in Invitations : Accepting(s, i)' => Accepting(s, i)
  BY <1>3, <1>7 DEF Accepting
<1>9. \A i \in Invitations : Open(i)' => Open(i)
  BY <1>1, <1>8 DEF Open, rows
<1>10. PendingOutside'
  BY <1>1, <1>3, <1>4, <1>7 DEF MembersInvariant, PendingOutside
<1>11. CreatingAlone'
  <2> SUFFICES ASSUME NEW s \in Requests, Anew(s)', requests'[s].user \notin doubled'
               PROVE  /\ requests'[s].user \notin members
                      /\ \A i \in Invitations : user[i] = requests'[s].user => ~Open(i)
                      /\ \A p \in Requests \ {s} : Anew(p)' => requests'[p].user # requests'[s].user
    BY <1>1, <1>9 DEF CreatingAlone, rows
  <2>1. CASE s = q
    BY <1>3, <1>5, <1>7, <2>1 DEF Anew
  <2>2. CASE s # q
    <3>1. requests'[s] = requests[s] /\ Anew(s) /\ requests[s].user \notin doubled
      BY <1>4, <1>7, <2>2 DEF Anew
    <3>2. CASE requests[s].user = u
      BY <1>5, <3>1, <3>2
    <3>3. CASE requests[s].user # u
      BY <1>3, <1>7, <3>1, <3>3 DEF MembersInvariant, CreatingAlone, Anew
    <3> QED
      BY <3>2, <3>3
  <2> QED
    BY <2>1, <2>2
<1>12. OneOpen'
  BY <1>1, <1>4, <1>9 DEF MembersInvariant, OneOpen, rows
<1>13. RecordsJoined' /\ AcceptedMeansJoined'
  BY <1>1, <1>3, <1>7 DEF MembersInvariant, RecordsJoined, AcceptedMeansJoined, rows
<1>14. MembersHaveNoInvitation'
  BY <1>1, <1>4, <1>7 DEF MembersInvariant, MembersHaveNoInvitation, Alive, rows
<1> QED
  BY <1>6, <1>10, <1>11, <1>12, <1>13, <1>14 DEF MembersInvariant

LEMMA InviteStep ==
  ASSUME MembersInvariant, NEW q \in Requests, FindInvitation(q) \/ InvitationUnseen(q)
  PROVE  MembersInvariant'
<1>1. CASE SeesNone(q)
  <2>1. requests[q].at = "pending"
    BY DEF FindInvitation, InvitationUnseen
  <2>2. faults' \in 0 .. MaxFaults
    BY MembersAssumption DEF FindInvitation, InvitationUnseen, Fault, MembersInvariant, TypeOK, MembersAssumption
  <2> QED
    BY <1>1, <2>1, <2>2, SeesNoneStep
<1>2. CASE FindInvitation(q) /\ ~SeesNone(q)
  BY <1>2, RefusingIsQuiet, QuietStep DEF FindInvitation
<1> QED
  BY <1>1, <1>2 DEF InvitationUnseen

LEMMA CreateStep ==
  ASSUME MembersInvariant, NEW q \in Requests, NEW i \in Invitations, CreateInvitation(q, i)
  PROVE  MembersInvariant'
<1> DEFINE u == requests[q].user
           r == [at |-> "mail", id |-> i]
<1>1. /\ requests[q].at = "create" /\ u \in Users
      /\ r \in Request /\ requests' = [requests EXCEPT ![q] = r]
      /\ status[i] \in {"none", "accepted", "closed"} /\ status' = [status EXCEPT ![i] = "pending"]
      /\ user' = [user EXCEPT ![i] = u]
      /\ joined' = joined \ {i} /\ dropped' = dropped \ {i}
      /\ raced' \subseteq Requests
      /\ UNCHANGED <<members, faults, doubled>>
  BY RequestKinds, RequestFields DEF CreateInvitation, HasCounted, Goto, SetStatus, MembersInvariant, TypeOK
<1>2. \A s \in Requests : i \notin IdsOf(requests[s])
  BY DEF CreateInvitation
<1>3. u \notin doubled =>
        /\ u \notin members
        /\ \A j \in Invitations : user[j] = u => ~Open(j)
        /\ \A s \in Requests \ {q} : Anew(s) => requests[s].user # u
  BY <1>1 DEF MembersInvariant, CreatingAlone, Anew
<1> HIDE DEF u
<1>4. TypeOK'
  BY <1>1 DEF MembersInvariant, TypeOK, Status
<1>5. \A s \in Requests, j \in Invitations : Accepting(s, j)' => Accepting(s, j) /\ j # i
  BY <1>1, <1>2 DEF Accepting, IdsOf, MembersInvariant, TypeOK
<1>6. \A j \in Invitations : j # i => user'[j] = user[j] /\ status'[j] = status[j] /\ (Open(j)' => Open(j))
  BY <1>1, <1>5 DEF Open, MembersInvariant, TypeOK
<1>7. user'[i] = u /\ status'[i] = "pending"
  BY <1>1 DEF MembersInvariant, TypeOK
<1>8. PendingOutside' /\ CreatingAlone'
  <2>1. \A s \in Requests : requests'[s].at # "mail" => s # q /\ requests'[s] = requests[s]
    BY <1>1 DEF MembersInvariant, TypeOK
  <2>2. PendingOutside'
    BY <1>1, <2>1 DEF MembersInvariant, PendingOutside
  <2>3. SUFFICES ASSUME NEW s \in Requests, Anew(s)', requests'[s].user \notin doubled
                 PROVE  /\ requests'[s].user \notin members
                        /\ \A j \in Invitations : user'[j] = requests'[s].user => ~Open(j)'
                        /\ \A p \in Requests \ {s} : Anew(p)' => requests'[p].user # requests'[s].user
    BY <1>1, <2>2 DEF CreatingAlone
  <2>4. s # q /\ requests'[s] = requests[s] /\ Anew(s)
    BY <2>1, <2>3 DEF Anew
  <2>5. requests[s].user # u
    BY <1>1, <2>3, <2>4 DEF MembersInvariant, CreatingAlone, Anew, u
  <2>6. \A p \in Requests \ {s} : Anew(p)' => Anew(p) /\ requests'[p] = requests[p]
    BY <2>1 DEF Anew
  <2> QED
    BY <1>6, <1>7, <2>3, <2>4, <2>5, <2>6 DEF MembersInvariant, CreatingAlone
<1>9. OneOpen'
  BY <1>1, <1>3, <1>6, <1>7 DEF MembersInvariant, OneOpen
<1>10. RecordsJoined'
  BY <1>1, <1>2 DEF MembersInvariant, RecordsJoined, IdsOf, TypeOK
<1>11. MembersHaveNoInvitation'
  <2> SUFFICES ASSUME NEW j \in Invitations, status'[j] = "pending", user'[j] \in members,
                      j \notin dropped', user'[j] \notin doubled
               PROVE  \E s \in Requests : requests'[s].at = "accepted" /\ requests'[s].id = j
    BY <1>1 DEF MembersHaveNoInvitation, Alive
  <2>1. j # i
    BY <1>3, <1>7
  <2>2. PICK s \in Requests : requests[s].at = "accepted" /\ requests[s].id = j
    BY <1>1, <1>6, <2>1 DEF MembersInvariant, MembersHaveNoInvitation, Alive
  <2> QED
    BY <1>1, <2>2 DEF MembersInvariant, TypeOK
<1>12. AcceptedMeansJoined'
  BY <1>1, <1>6, <1>7 DEF MembersInvariant, AcceptedMeansJoined
<1> QED
  BY <1>4, <1>8, <1>9, <1>10, <1>11, <1>12 DEF MembersInvariant

-----------------------------------------------------------------------------
LEMMA MembersStep == MembersInvariant /\ [Next]_vars => MembersInvariant'
<1> SUFFICES ASSUME MembersInvariant, [Next]_vars PROVE MembersInvariant'
  OBVIOUS
<1>1. ASSUME NEW q \in Requests, NEW u \in Users, InviteUser(q, u) \/ AcceptAll(q, u)
      PROVE  MembersInvariant'
  <2>1. CASE InviteUser(q, u)
    BY <2>1, InvitingStartsQuietly, QuietStep
  <2>2. CASE AcceptAll(q, u)
    <3>1. PICK i \in Invitations : TRUE
      BY <2>2 DEF AcceptAll, AliveOf, Alive
    <3> QED
      BY <2>2, AcceptingStartsQuietly, QuietStep
  <2> QED
    BY <1>1, <2>1, <2>2
<1>2. ASSUME NEW q \in Requests, NEW i \in Invitations,
             \/ CreateInvitation(q, i) \/ AcceptInvitation(q, i) \/ CloseInvitation(q, i)
             \/ SkipExpired(q, i) \/ AddMember(q, i) \/ AddRefused(q, i) \/ AddFails(q, i)
      PROVE  MembersInvariant'
  <2>1. user[i] \in Users
    BY DEF MembersInvariant, TypeOK
  <2> QED
    BY <1>2, <2>1, CreateStep, AcceptingStartsQuietly, ClosingIsQuiet, AcceptingStepsQuietly, AddMemberStep, QuietStep
<1>3. ASSUME NEW q \in Requests,
             \/ FindInvitation(q) \/ InvitationUnseen(q) \/ CountMembers(q) \/ CountInvitations(q)
             \/ EnqueueInvitation(q) \/ DeleteInvitation(q) \/ FindAccess(q)
             \/ MarkAccepted(q) \/ MarkClosed(q) \/ BreakOff(q)
      PROVE  MembersInvariant'
  <2>1. CASE FindInvitation(q) \/ InvitationUnseen(q) \/ CountMembers(q) \/ CountInvitations(q)
    BY <2>1, InviteStep, CountingIsQuiet, QuietStep
  <2>2. CASE FindAccess(q)
    <3>1. requests[q].id \in Invitations
      BY <2>2, RequestFields DEF FindAccess, MembersInvariant, TypeOK
    <3>2. user[requests[q].id] \in Users
      BY <3>1 DEF MembersInvariant, TypeOK
    <3> QED
      BY <2>2, <3>1, <3>2, AcceptingStartsQuietly, QuietStep
  <2>3. CASE EnqueueInvitation(q) \/ DeleteInvitation(q) \/ BreakOff(q)
    BY <2>3, InvitingEndsQuietly, BreakingOffIsQuiet, QuietStep
  <2>4. CASE MarkAccepted(q) \/ MarkClosed(q)
    <3>1. requests[q].id \in Invitations
      BY <2>4, RequestFields DEF MarkAccepted, MarkClosed, MembersInvariant, TypeOK
    <3> QED
      BY <2>4, <3>1, AcceptingStepsQuietly, ClosingIsQuiet, QuietStep
  <2> QED
    BY <1>3, <2>1, <2>2, <2>3, <2>4
<1>4. ASSUME NEW i \in Invitations, AcceptExpired(i) \/ Lapse(i)
      PROVE  MembersInvariant'
  <2>1. user[i] \in Users
    BY DEF MembersInvariant, TypeOK
  <2> QED
    BY <1>4, <2>1, OutsideIsQuiet, QuietStep
<1>5. ASSUME NEW u \in Users, RemoveMember(u)
      PROVE  MembersInvariant'
  <2>1. Quiet
    BY <1>5 DEF RemoveMember, MembersInvariant, TypeOK, Quiet, rows, history
  <2> QED
    BY <2>1, QuietStep
<1>6. CASE UNCHANGED vars
  <2>1. Quiet
    BY <1>6 DEF vars, MembersInvariant, TypeOK, Quiet
  <2> QED
    BY <2>1, QuietStep
<1> QED
  BY <1>1, <1>2, <1>3, <1>4, <1>5, <1>6 DEF Next

\* The invariant holds of every behaviour.
THEOREM MembersSafe == Spec => []MembersInvariant
  BY MembersInit, MembersStep, PTL DEF Spec

\* Every variable keeps its type.
THEOREM MembersTypes == Spec => []TypeOK
<1>1. MembersInvariant => TypeOK
  BY DEF MembersInvariant
<1> QED
  BY <1>1, MembersSafe, PTL

\* Who is removed has no invitation left to come back with, whatever requests
\* overlapped, unless the checks of an invitation overlapped with another
\* invitation or an acceptance of the same user or failed to see one, or the
\* acceptance broke off.
THEOREM MembersKeepNoInvitation == Spec => []MembersHaveNoInvitation
<1>1. MembersInvariant => MembersHaveNoInvitation
  BY DEF MembersInvariant
<1> QED
  BY <1>1, MembersSafe, PTL

\* An invitation is used up by a membership or by an error that is ignored.
THEOREM MembersAcceptedJoined == Spec => []AcceptedMeansJoined
<1>1. MembersInvariant => AcceptedMeansJoined
  BY DEF MembersInvariant
<1> QED
  BY <1>1, MembersSafe, PTL

-----------------------------------------------------------------------------
(* The limit of members.                                                   *)

\* What was counted is no less than what there is, and a request that found a
\* seat still has it.
CountsHold ==
  \A q \in Requests \ raced : LET r == requests[q] IN
    /\ r.at = "count" /\ r.left = {"invitations"} => Cardinality(members) <= r.taken
    /\ r.at = "count" /\ r.left = {"members"} => Cardinality(Alive) <= r.taken
    /\ r.at = "create" => Cardinality(Seated) < Limit

\* The request begins to count.
Begins(q) == requests[q].at = "count" /\ requests[q].left = Seat

\* A step behind which every count still holds: a request that is not raced begins
\* to count, does not count, or what it has counted does not grow.
LEMMA CountsKept ==
  ASSUME TypeOK, TypeOK', CountsHold,
         \A q \in Requests \ raced' : Anew(q)' =>
           \/ Begins(q)'
           \/ /\ q \notin raced /\ requests'[q] = requests[q]
              /\ requests[q].at = "count" /\ requests[q].left = {"invitations"} => members' \subseteq members
              /\ requests[q].at = "count" /\ requests[q].left = {"members"} => Alive' \subseteq Alive
              /\ requests[q].at = "create" => Seated' \subseteq Seated
  PROVE  CountsHold'
<1>1. /\ IsFiniteSet(members) /\ IsFiniteSet(Alive) /\ IsFiniteSet(Seated)
      /\ Cardinality(members) \in Nat /\ Cardinality(Alive) \in Nat /\ Cardinality(Seated) \in Nat /\ Limit \in Nat
  BY SeatsAreFinite
<1>2. \A S, T : IsFiniteSet(T) /\ S \subseteq T =>
        Cardinality(S) \in Nat /\ Cardinality(S) <= Cardinality(T)
  BY FS_Subset, FS_CardinalityType
<1> SUFFICES ASSUME NEW q \in Requests \ raced'
             PROVE  LET r == requests'[q] IN
                    /\ r.at = "count" /\ r.left = {"invitations"} => Cardinality(members') <= r.taken
                    /\ r.at = "count" /\ r.left = {"members"} => Cardinality(Alive') <= r.taken
                    /\ r.at = "create" => Cardinality(Seated') < Limit
  BY DEF CountsHold
<1>3. CASE ~Anew(q)'
  BY <1>3 DEF Anew
<1>4. CASE Begins(q)'
  BY <1>4 DEF Begins, Seat
<1>5. CASE Anew(q)' /\ ~Begins(q)'
  <2> DEFINE r == requests[q]
  <2>1. /\ q \notin raced /\ requests'[q] = r
        /\ r.at = "count" /\ r.left = {"invitations"} => members' \subseteq members
        /\ r.at = "count" /\ r.left = {"members"} => Alive' \subseteq Alive
        /\ r.at = "create" => Seated' \subseteq Seated
    BY <1>5
  <2>2. /\ r.at = "count" /\ r.left = {"invitations"} => Cardinality(members) <= r.taken
        /\ r.at = "count" /\ r.left = {"members"} => Cardinality(Alive) <= r.taken
        /\ r.at = "create" => Cardinality(Seated) < Limit
    BY <2>1 DEF CountsHold
  <2>3. r.at = "count" => r.taken \in Nat
    BY RequestFields DEF TypeOK
  <2> HIDE DEF r
  <2>4. r.at = "count" /\ r.left = {"invitations"} => Cardinality(members') <= r.taken
    BY <1>1, <1>2, <2>1, <2>2, <2>3
  <2>5. r.at = "count" /\ r.left = {"members"} => Cardinality(Alive') <= r.taken
    BY <1>1, <1>2, <2>1, <2>2, <2>3
  <2>6. r.at = "create" => Cardinality(Seated') < Limit
    BY <1>1, <1>2, <2>1, <2>2
  <2> QED
    BY <2>1, <2>4, <2>5, <2>6
<1> QED
  BY <1>3, <1>4, <1>5

\* Most steps take no seat, and only begin to count.
LEMMA NoSeatTaken ==
  ASSUME TypeOK, TypeOK', CountsHold, members' \subseteq members, Alive' \subseteq Alive, UNCHANGED user,
         \A q \in Requests : Anew(q)' => Begins(q)' \/ (requests'[q] = requests[q] /\ (q \in raced => q \in raced'))
  PROVE  CountsHold'
<1>1. Seated' \subseteq Seated
  BY DEF Seated
<1> QED
  BY <1>1, CountsKept

LEMMA CountingHolds ==
  ASSUME TypeOK, TypeOK', CountsHold, NEW q \in Requests, CountMembers(q) \/ CountInvitations(q)
  PROVE  CountsHold'
<1>1. PICK seat \in Seat : \E n \in Nat :
        Counted(q, seat, n) /\ n = IF seat = "members" THEN Cardinality(members) ELSE Cardinality(Alive)
  BY SeatsAreFinite DEF CountMembers, CountInvitations, Seat
<1>2. PICK n \in Nat : Counted(q, seat, n) /\ n = IF seat = "members" THEN Cardinality(members) ELSE Cardinality(Alive)
  BY <1>1
<1> DEFINE r == requests[q]
           left == r.left \ {seat}
           taken == r.taken + n
<1>3. /\ r.at = "count" /\ seat \in r.left
      /\ \/ /\ left # {} /\ UNCHANGED raced
            /\ Goto(q, [at |-> "count", user |-> r.user, left |-> left, taken |-> taken])
         \/ left = {} /\ HasSeat(taken) /\ Goto(q, [at |-> "create", user |-> r.user]) /\ UNCHANGED raced
         \/ left = {} /\ ~HasSeat(taken) /\ Goto(q, NoRequest) /\ raced' = raced \ {q}
      /\ UNCHANGED <<members, rows>>
  BY <1>2 DEF Counted
<1>4. /\ r.left \in (SUBSET Seat) \ {{}} /\ r.taken \in Nat
      /\ r = [at |-> "count", user |-> r.user, left |-> r.left, taken |-> r.taken]
  BY <1>3, RequestFields DEF TypeOK
<1>5. UNCHANGED <<Alive, Seated>>
  BY <1>3 DEF Alive, Seated, rows
<1>6. ASSUME NEW p \in Requests \ raced', p # q
      PROVE  p \notin raced /\ requests'[p] = requests[p]
  BY <1>3, <1>6 DEF Goto, TypeOK
<1>7. ASSUME q \notin raced', Anew(q)'
      PROVE  /\ q \notin raced
             /\ \/ /\ left # {} /\ requests'[q].at = "count" /\ requests'[q].left = left
                   /\ requests'[q].taken = taken
                \/ left = {} /\ taken < Limit /\ requests'[q].at = "create"
  <2>1. requests'[q] # NoRequest
    BY <1>7 DEF Anew, NoRequest
  <2> HIDE DEF r, left, taken
  <2>2. CASE /\ left # {} /\ UNCHANGED raced
             /\ Goto(q, [at |-> "count", user |-> r.user, left |-> left, taken |-> taken])
    <3>1. requests'[q] = [at |-> "count", user |-> r.user, left |-> left, taken |-> taken]
      BY <2>2 DEF Goto, TypeOK
    <3> QED
      BY <1>7, <2>2, <3>1
  <2>3. CASE left = {} /\ HasSeat(taken) /\ Goto(q, [at |-> "create", user |-> r.user]) /\ UNCHANGED raced
    BY <1>7, <2>3 DEF Goto, HasSeat, TypeOK
  <2>4. CASE Goto(q, NoRequest)
    BY <2>1, <2>4 DEF Goto, TypeOK
  <2> QED
    BY <1>3, <2>2, <2>3, <2>4
<1> SUFFICES ASSUME NEW p \in Requests \ raced'
             PROVE  LET s == requests'[p] IN
                    /\ s.at = "count" /\ s.left = {"invitations"} => Cardinality(members') <= s.taken
                    /\ s.at = "count" /\ s.left = {"members"} => Cardinality(Alive') <= s.taken
                    /\ s.at = "create" => Cardinality(Seated') < Limit
  BY DEF CountsHold
<1>8. CASE p # q
  BY <1>3, <1>5, <1>6, <1>8 DEF CountsHold
<1>9. CASE p = q
  <2>1. CASE ~Anew(q)'
    BY <1>9, <2>1 DEF Anew
  <2>2. CASE Anew(q)' /\ left # {}
    <3>1. /\ requests'[q].at = "count" /\ requests'[q].left = left /\ requests'[q].taken = taken
      BY <1>7, <1>9, <2>2
    <3>2. left = {"invitations"} => seat = "members"
      BY <1>3, <1>4, <2>2 DEF Seat
    <3>3. left = {"members"} => seat = "invitations"
      BY <1>3, <1>4, <2>2 DEF Seat
    <3>4. taken >= n
      BY <1>4
    <3> QED
      BY <1>2, <1>3, <1>5, <1>9, <3>1, <3>2, <3>3, <3>4
  <2>3. CASE Anew(q)' /\ left = {}
    <3>1. q \notin raced /\ taken < Limit /\ requests'[q].at = "create"
      BY <1>7, <1>9, <2>3
    <3>2. r.left = {seat}
      BY <1>3, <2>3
    <3>3. Cardinality(members) + Cardinality(Alive) <= taken
      <4>1. Cardinality(members) \in Nat /\ Cardinality(Alive) \in Nat
        BY SeatsAreFinite
      <4>2. CASE seat = "invitations"
        <5>1. Cardinality(members) <= r.taken
          BY <1>3, <3>1, <3>2, <4>2 DEF CountsHold
        <5> QED
          BY <1>2, <1>4, <4>1, <4>2, <5>1
      <4>3. CASE seat = "members"
        <5>1. Cardinality(Alive) <= r.taken
          BY <1>3, <3>1, <3>2, <4>3 DEF CountsHold
        <5> QED
          BY <1>2, <1>4, <4>1, <4>3, <5>1
      <4> QED
        BY <4>2, <4>3 DEF Seat
    <3>4. Cardinality(Seated) < Limit
      BY <1>2, <1>4, <3>1, <3>3, SeatsAreFinite
    <3> QED
      BY <1>5, <1>9, <3>1, <3>4
  <2> QED
    BY <2>1, <2>2, <2>3
<1> QED
  BY <1>8, <1>9

\* Who has counted the invitations is raced by a new one; who has not is not
\* concerned.
LEMMA CreatingHolds ==
  ASSUME TypeOK, TypeOK', CountsHold, NEW q \in Requests, NEW i \in Invitations, CreateInvitation(q, i)
  PROVE  CountsHold'
<1>1. /\ requests' = [requests EXCEPT ![q] = [at |-> "mail", id |-> i]]
      /\ raced' = (raced \cup HasCounted("invitations")) \ {q} /\ members' = members
  BY DEF CreateInvitation, Goto
<1>2. ASSUME NEW p \in Requests \ raced', Anew(p)'
      PROVE  Begins(p)' \/ (p \notin raced /\ requests'[p] = requests[p] /\ requests[p].at = "count"
                            /\ requests[p].left = {"invitations"})
  <2>1. p # q /\ requests'[p] = requests[p]
    BY <1>1, <1>2 DEF Anew, TypeOK
  <2>2. p \notin raced /\ p \notin HasCounted("invitations")
    BY <1>1, <2>1
  <2>3. requests[p].at = "count" /\ "invitations" \in requests[p].left
    BY <1>2, <2>1, <2>2 DEF Anew, HasCounted
  <2>4. requests[p].left \in SUBSET Seat
    BY <2>3, RequestFields DEF TypeOK
  <2> QED
    BY <2>1, <2>2, <2>3, <2>4 DEF Begins, Seat
<1>3. {"invitations"} # {"members"}
  OBVIOUS
<1> QED
  BY <1>1, <1>2, <1>3, CountsKept

\* So is who misses the seat of a new member; who found a seat has counted it, as
\* that of an invitation.
LEMMA AddingHolds ==
  ASSUME TypeOK, TypeOK', CountsHold, NEW q \in Requests, NEW i \in Invitations, AddMember(q, i)
  PROVE  CountsHold'
<1>1. /\ requests' = [requests EXCEPT ![q] = ToStatus(q, i)]
      /\ \/ UNCHANGED <<members, raced>>
         \/ members' = members \cup {user[i]} /\ raced' = raced \cup Missing(i)
      /\ UNCHANGED rows
  BY DEF AddMember, Goto
<1>2. Alive' = Alive
  BY <1>1 DEF Alive, rows
<1>3. ASSUME NEW p \in Requests \ raced', Anew(p)'
      PROVE  /\ p \notin raced /\ requests'[p] = requests[p]
             /\ \/ members' = members
                \/ Begins(p)' \/ (requests[p].left = {"members"} /\ requests[p].at = "count")
                \/ i \in Alive /\ members' = members \cup {user[i]} /\ requests[p].at = "create"
  <2>1. p \notin raced /\ requests'[p] = requests[p]
    BY <1>1, <1>3 DEF Anew, ToStatus, TypeOK
  <2>2. SUFFICES ASSUME members' = members \cup {user[i]}, p \notin Missing(i)
                 PROVE  \/ Begins(p)' \/ (requests[p].left = {"members"} /\ requests[p].at = "count")
                        \/ i \in Alive /\ requests[p].at = "create"
    BY <1>1, <2>1
  <2>3. CASE requests[p].at = "create"
    BY <2>2, <2>3 DEF Missing, HasCounted
  <2>4. CASE requests[p].at = "count"
    <3>1. "members" \in requests[p].left
      BY <2>2, <2>4 DEF Missing, HasCounted
    <3>2. requests[p].left \in SUBSET Seat
      BY <2>4, RequestFields DEF TypeOK
    <3> QED
      BY <2>1, <2>4, <3>1, <3>2 DEF Begins, Seat
  <2> QED
    BY <1>3, <2>1, <2>3, <2>4 DEF Anew
<1>4. {"invitations"} # {"members"}
  OBVIOUS
<1>5. members' = members => Seated' = Seated
  BY <1>1, <1>2 DEF Seated, rows
<1>6. i \in Alive /\ members' = members \cup {user[i]} => Seated' = Seated
  BY <1>1, <1>2 DEF Seated, rows
<1> QED
  BY <1>2, <1>3, <1>4, <1>5, <1>6, CountsKept

LEMMA CountsStep == MembersInvariant /\ MembersInvariant' /\ CountsHold /\ [Next]_vars => CountsHold'
<1> SUFFICES ASSUME MembersInvariant, MembersInvariant', CountsHold, [Next]_vars PROVE CountsHold'
  OBVIOUS
<1>1. TypeOK /\ TypeOK' /\ NoRequest.at = "idle"
  BY DEF MembersInvariant, NoRequest
\* What a request does next, if it is not a count of its own.
<1>2. ASSUME NEW q \in Requests, NEW r, Goto(q, r),
             r.at \notin {"count", "create"} \/ (r.at = "count" /\ r.left = Seat),
             raced' = raced \/ (raced' = raced \ {q} /\ r.at = "idle"),
             members' \subseteq members, Alive' \subseteq Alive, UNCHANGED user
      PROVE  CountsHold'
  <2>1. \A p \in Requests : requests'[p] = IF p = q THEN r ELSE requests[p]
    BY <1>1, <1>2 DEF Goto, TypeOK
  <2>2. \A p \in Requests : Anew(p)' => Begins(p)' \/ (requests'[p] = requests[p] /\ (p \in raced => p \in raced'))
    BY <1>2, <2>1 DEF Anew, Begins
  <2> QED
    BY <1>1, <1>2, <2>2, NoSeatTaken
<1>3. \A i, s : s # "pending" /\ SetStatus(i, s) => Alive' \subseteq Alive
  BY <1>1 DEF SetStatus, Alive, TypeOK
<1>4. \A q \in Requests : requests[q] \in Request
  BY <1>1 DEF TypeOK
<1>5. UNCHANGED rows => Alive' = Alive /\ UNCHANGED user
  BY DEF Alive, rows
<1>6. \A q, i : ToStatus(q, i).at = "accepted"
  BY DEF ToStatus
<1>7. \A r : ToNext(r).at \in {"idle", "add"}
  BY <1>1 DEF ToNext
<1>8. ASSUME NEW q \in Requests, NEW u \in Users, InviteUser(q, u) \/ AcceptAll(q, u)
      PROVE  CountsHold'
  <2>1. CASE InviteUser(q, u)
    BY <1>2, <1>5, <2>1 DEF InviteUser, history
  <2>2. CASE AcceptAll(q, u)
    BY <1>2, <1>5, <2>2 DEF AcceptAll, history
  <2> QED
    BY <1>8, <2>1, <2>2
<1>9. ASSUME NEW q \in Requests, NEW i \in Invitations,
             \/ CreateInvitation(q, i) \/ AcceptInvitation(q, i) \/ CloseInvitation(q, i)
             \/ SkipExpired(q, i) \/ AddMember(q, i) \/ AddRefused(q, i) \/ AddFails(q, i)
      PROVE  CountsHold'
  <2>1. CASE CreateInvitation(q, i) \/ AddMember(q, i)
    BY <1>1, <2>1, CreatingHolds, AddingHolds
  <2>2. CASE AcceptInvitation(q, i)
    BY <1>2, <1>5, <2>2 DEF AcceptInvitation, history
  <2>3. CASE CloseInvitation(q, i)
    BY <1>2, <1>5, <2>3 DEF CloseInvitation, history
  <2>4. CASE SkipExpired(q, i)
    <3>1. PICK r : Goto(q, r) /\ r.at \in {"idle", "add"}
      BY <1>7, <2>4 DEF SkipExpired
    <3>2. Alive' \subseteq Alive
      BY <1>3, <2>4 DEF SkipExpired
    <3> QED
      BY <1>2, <2>4, <3>1, <3>2 DEF SkipExpired, history
  <2>5. CASE AddRefused(q, i) \/ AddFails(q, i)
    <3>1. PICK r : Goto(q, r) /\ r.at \in {"idle", "accepted"}
      BY <1>1, <1>6, <2>5 DEF AddRefused, AddFails
    <3>2. UNCHANGED <<members, rows, raced>>
      BY <2>5 DEF AddRefused, AddFails
    <3> QED
      BY <1>2, <1>5, <3>1, <3>2
  <2> QED
    BY <1>9, <2>1, <2>2, <2>3, <2>4, <2>5
<1>10. ASSUME NEW q \in Requests,
             \/ FindInvitation(q) \/ InvitationUnseen(q) \/ CountMembers(q) \/ CountInvitations(q)
             \/ EnqueueInvitation(q) \/ DeleteInvitation(q) \/ FindAccess(q)
             \/ MarkAccepted(q) \/ MarkClosed(q) \/ BreakOff(q)
      PROVE  CountsHold'
  <2>1. CASE CountMembers(q) \/ CountInvitations(q)
    BY <1>1, <2>1, CountingHolds
  <2>2. CASE FindInvitation(q) \/ InvitationUnseen(q)
    <3>1. PICK r : Goto(q, r) /\ (r.at = "idle" \/ (r.at = "count" /\ r.left = Seat))
      BY <1>1, <2>2 DEF FindInvitation, InvitationUnseen, SeesNone
    <3>2. UNCHANGED <<members, rows, raced>>
      BY <2>2 DEF FindInvitation, InvitationUnseen, SeesNone, history
    <3> QED
      BY <1>2, <1>5, <3>1, <3>2
  <2>3. CASE EnqueueInvitation(q)
    <3>1. requests[q].at = "mail" => [requests[q] EXCEPT !.at = "rollback"].at = "rollback"
      BY <1>4, RequestFields
    <3>2. PICK r : Goto(q, r) /\ r.at \in {"idle", "rollback"}
      BY <1>1, <2>3, <3>1 DEF EnqueueInvitation
    <3> QED
      BY <1>2, <1>5, <2>3, <3>2 DEF EnqueueInvitation, history
  <2>4. CASE DeleteInvitation(q)
    <3>1. Alive' \subseteq Alive
      BY <1>3, <2>4 DEF DeleteInvitation
    <3> QED
      BY <1>1, <1>2, <2>4, <3>1 DEF DeleteInvitation, history
  <2>5. CASE FindAccess(q)
    BY <1>2, <1>5, <2>5 DEF FindAccess, history
  <2>6. CASE MarkAccepted(q) \/ MarkClosed(q)
    <3>1. PICK r : Goto(q, r) /\ r.at \in {"idle", "add"}
      BY <1>1, <1>7, <2>6 DEF MarkAccepted, MarkClosed
    <3>2. Alive' \subseteq Alive
      <4>1. CASE UNCHANGED status
        BY <4>1 DEF Alive
      <4>2. CASE \E i, s : s # "pending" /\ SetStatus(i, s)
        BY <1>3, <4>2
      <4>3. UNCHANGED status \/ \E i, s : s # "pending" /\ SetStatus(i, s)
        BY <2>6 DEF MarkAccepted, MarkClosed
      <4> QED
        BY <4>1, <4>2, <4>3
    <3> QED
      BY <1>2, <2>6, <3>1, <3>2 DEF MarkAccepted, MarkClosed, history
  <2>7. CASE BreakOff(q)
    BY <1>1, <1>2, <1>5, <2>7 DEF BreakOff
  <2> QED
    BY <1>10, <2>1, <2>2, <2>3, <2>4, <2>5, <2>6, <2>7
<1>11. ASSUME UNCHANGED <<requests, raced, user>>, members' \subseteq members, Alive' \subseteq Alive
       PROVE  CountsHold'
  <2>1. \A q \in Requests : requests'[q] = requests[q] /\ (q \in raced => q \in raced')
    BY <1>11
  <2> QED
    BY <1>1, <1>11, <2>1, NoSeatTaken
<1>12. ASSUME NEW i \in Invitations, AcceptExpired(i) \/ Lapse(i)
       PROVE  CountsHold'
  <2>1. Alive' \subseteq Alive
    BY <1>3, <1>12 DEF AcceptExpired, Lapse
  <2> QED
    BY <1>11, <1>12, <2>1 DEF AcceptExpired, Lapse, history
<1>13. ASSUME NEW u \in Users, RemoveMember(u)
       PROVE  CountsHold'
  BY <1>5, <1>11, <1>13 DEF RemoveMember, history
<1>14. CASE UNCHANGED vars
  BY <1>5, <1>11, <1>14 DEF vars, rows
<1> QED
  BY <1>8, <1>9, <1>10, <1>12, <1>13, <1>14 DEF Next

\* The request that creates an invitation found a seat that is still free.
LEMMA CreatedWithinLimit ==
  ASSUME MembersInvariant, CountsHold, [Next]_vars,
         NEW q \in Requests \ raced, requests[q].at = "create", requests'[q].at = "mail"
  PROVE  Cardinality(Seated') <= Limit
<1>1. TypeOK /\ NoRequest.at = "idle"
  BY DEF MembersInvariant, NoRequest
<1>2. ASSUME NEW p \in Requests, NEW r, Goto(p, r), p # q \/ r.at # "mail"
      PROVE  FALSE
  BY <1>1, <1>2 DEF Goto, TypeOK
<1>3. ASSUME NEW p \in Requests, NEW u \in Users, InviteUser(p, u) \/ AcceptAll(p, u)
      PROVE  FALSE
  BY <1>1, <1>2, <1>3 DEF InviteUser, AcceptAll
<1>4. ASSUME NEW p \in Requests, NEW i \in Invitations,
             \/ AcceptInvitation(p, i) \/ CloseInvitation(p, i)
             \/ SkipExpired(p, i) \/ AddMember(p, i) \/ AddRefused(p, i) \/ AddFails(p, i)
      PROVE  FALSE
  BY <1>1, <1>2, <1>4
  DEF AcceptInvitation, CloseInvitation, SkipExpired, AddMember, AddRefused, AddFails, AtAdd
<1>5. ASSUME NEW p \in Requests,
             \/ FindInvitation(p) \/ InvitationUnseen(p) \/ CountMembers(p) \/ CountInvitations(p)
             \/ EnqueueInvitation(p) \/ DeleteInvitation(p) \/ FindAccess(p)
             \/ MarkAccepted(p) \/ MarkClosed(p) \/ BreakOff(p)
      PROVE  FALSE
  <2>1. \E r : Goto(p, r)
    BY <1>5
    DEF FindInvitation, InvitationUnseen, SeesNone, CountMembers, CountInvitations, Counted, EnqueueInvitation,
        DeleteInvitation, FindAccess, MarkAccepted, MarkClosed, BreakOff
  <2>2. CASE p # q
    BY <1>2, <2>1, <2>2
  <2>3. CASE p = q
    <3>1. BreakOff(q)
      BY <1>5, <2>3
      DEF FindInvitation, InvitationUnseen, CountMembers, CountInvitations, Counted, EnqueueInvitation,
          DeleteInvitation, FindAccess, MarkAccepted, MarkClosed
    <3> QED
      BY <1>1, <1>2, <3>1 DEF BreakOff
  <2> QED
    BY <2>2, <2>3
<1>6. requests' # requests
  OBVIOUS
<1>7. PICK i \in Invitations : CreateInvitation(q, i)
  <2>1. PICK p \in Requests, i \in Invitations : CreateInvitation(p, i)
    BY <1>3, <1>4, <1>5, <1>6 DEF Next, AcceptExpired, Lapse, RemoveMember, vars
  <2>2. p = q
    BY <1>2, <2>1 DEF CreateInvitation
  <2> QED
    BY <2>1, <2>2
<1>8. Seated' \in SUBSET (Seated \cup {requests[q].user})
  BY <1>1, <1>7 DEF CreateInvitation, SetStatus, Seated, Alive, TypeOK
<1>9. Cardinality(Seated) < Limit
  BY DEF CountsHold
<1>10. IsFiniteSet(Seated) /\ Cardinality(Seated) \in Nat /\ Limit \in Nat
  BY <1>1, SeatsAreFinite
<1> DEFINE u == requests[q].user
<1> HIDE DEF u
<1>11. /\ IsFiniteSet(Seated \cup {u})
       /\ Cardinality(Seated \cup {u}) <= Cardinality(Seated) + 1
       /\ Cardinality(Seated \cup {u}) \in Nat
  <2>1. /\ IsFiniteSet(Seated \cup {u})
        /\ Cardinality(Seated \cup {u}) = IF u \in Seated THEN Cardinality(Seated) ELSE Cardinality(Seated) + 1
    BY <1>10, FS_AddElement
  <2> QED
    BY <1>10, <2>1
<1>12. IsFiniteSet(Seated') /\ Cardinality(Seated') <= Cardinality(Seated \cup {u})
  BY <1>8, <1>11, FS_Subset DEF u
<1>13. Cardinality(Seated') \in Nat
  BY <1>12, FS_CardinalityType
<1> QED
  BY <1>9, <1>10, <1>11, <1>12, <1>13

\* An invitation is created within the limit of the plan, for any limit and any
\* requests at once, unless a seat was taken behind a count of its request.
THEOREM MembersLimit == Spec => LimitIsKept
<1>1. Init => CountsHold
  BY DEF Init, CountsHold, NoRequest
<1>2. MembersInvariant /\ CountsHold /\ [Next]_vars =>
        [\A q \in Requests \ raced :
           requests[q].at = "create" /\ requests'[q].at = "mail" => Cardinality(Seated') <= Limit]_vars
  BY CreatedWithinLimit
<1> QED
  BY <1>1, <1>2, CountsStep, MembersSafe, PTL DEF Spec, LimitIsKept
=============================================================================
