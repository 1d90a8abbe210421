-------------------------- MODULE DashboardMembers --------------------------
(***************************************************************************)
(* Who may see a dashboard: invitations (invitation.service.ts) and        *)
(* members (members.service.ts) of one dashboard with an owner.            *)
(*                                                                         *)
(* A request checks first and writes later, each query on its own, and     *)
(* several requests run at once.  An invitation belongs to an email; here  *)
(* every email is that of a registered user.  The owner and the roles of   *)
(* the members are left out: the owner's seat is taken off the limit.      *)
(***************************************************************************)
EXTENDS Naturals, FiniteSets

CONSTANTS
  Users,       \* those who can be invited
  Limit,       \* maxMembers, less the owner
  Requests,    \* bound: requests in progress at once
  Invitations, \* bound: rows of DashboardInvitation that still matter at once
  MaxFaults    \* bound: queries that fail, requests that break off

ASSUME MembersAssumption ==
  /\ IsFiniteSet(Users) /\ IsFiniteSet(Invitations)
  /\ Limit \in Nat /\ MaxFaults \in Nat

VARIABLES
  members,  \* users with a row in UserDashboard
  status,   \* status[i]: of the row i of DashboardInvitation
  user,     \* user[i]: whose email it has
  requests, \* requests[q]: what it is about to ask or write
  faults,   \* bounded by MaxFaults
  joined,   \* history: invitations whose acceptance found or made its user a member
  raced,    \* history: requests behind whose count a seat was taken
  doubled,  \* history: users invited beside another invitation or an acceptance
  dropped   \* history: invitations whose acceptance broke off, or whose failure was ignored

vars == <<members, status, user, requests, faults, joined, raced, doubled, dropped>>
history == <<joined, raced, doubled, dropped>>
rows == <<status, user>>

\* lapsed: pending in the table, with an expiresAt that has passed.
\* closed: declined, cancelled or marked as expired, which nothing tells apart.
Status == {"none", "pending", "lapsed", "accepted", "closed"}
NoRequest == [at |-> "idle"]
\* at: the next query.  left are the seats that remain to be counted, taken is
\* their number so far.  ids are the invitations that remain to be accepted; had
\* says that the user had access already, strict that an error ends the request.
Seat == {"members", "invitations"}
Request == {NoRequest}
  \cup [at : {"pending", "create"}, user : Users]
  \cup [at : {"count"}, user : Users, left : (SUBSET Seat) \ {{}}, taken : Nat]
  \cup [at : {"mail", "rollback", "close", "access"}, id : Invitations]
  \cup [at : {"add"}, ids : (SUBSET Invitations) \ {{}}, strict : BOOLEAN, had : BOOLEAN]
  \cup [at : {"accepted"}, id : Invitations, ids : SUBSET Invitations, strict : BOOLEAN]

TypeOK ==
  /\ members \subseteq Users
  /\ status \in [Invitations -> Status] /\ user \in [Invitations -> Users]
  /\ requests \in [Requests -> Request]
  /\ faults \in 0..MaxFaults
  /\ joined \subseteq Invitations /\ dropped \subseteq Invitations
  /\ raced \subseteq Requests /\ doubled \subseteq Users

Init ==
  /\ members = {}
  /\ status = [i \in Invitations |-> "none"]
  /\ user \in [Invitations -> Users]
  /\ requests = [q \in Requests |-> NoRequest]
  /\ faults = 0
  /\ joined = {} /\ raced = {} /\ doubled = {} /\ dropped = {}

Fault == faults < MaxFaults /\ faults' = faults + 1
Goto(q, r) == requests' = [requests EXCEPT ![q] = r]
SetStatus(i, s) == status' = [status EXCEPT ![i] = s]

\* findPendingInvitationsByDashboard and findPendingInvitationsByEmail.
Alive == {i \in Invitations : status[i] = "pending"}
AliveOf(u) == {i \in Alive : user[i] = u}
\* findInvitationByEmail: its status says pending, whatever expiresAt.
Sent(u) == \E i \in Invitations : status[i] \in {"pending", "lapsed"} /\ user[i] = u

\* The invitations a request still works on.
IdsOf(r) == IF r.at \in {"mail", "rollback", "close", "access"} THEN {r.id}
            ELSE IF r.at = "add" THEN r.ids
            ELSE IF r.at = "accepted" THEN {r.id} \cup r.ids
            ELSE {}

----------------------------------------------------------------------------
(* inviteUserToDashboard: is the user a member, is one invited already, and  *)
(* is a seat free, each by a query of its own.                              *)

\* Requests in progress that see no invitation of u and will create one.
InvitingAnew(u) == {q \in Requests : requests[q].at \in {"count", "create"} /\ requests[q].user = u}
\* Requests in progress that make u a member.
AcceptingFor(u) == {q \in Requests :
  requests[q].at \in {"access", "add", "accepted"} /\ \E i \in IdsOf(requests[q]) : user[i] = u}

InviteUser(q, u) ==
  /\ requests[q] = NoRequest
  /\ u \notin members
  /\ Goto(q, [at |-> "pending", user |-> u])
  /\ UNCHANGED <<members, rows, faults, history>>

\* No invitation of u is seen, whether there is one or not.
SeesNone(q) ==
  LET u == requests[q].user IN
  /\ Goto(q, [at |-> "count", user |-> u, left |-> Seat, taken |-> 0])
  /\ doubled' = IF Sent(u) \/ InvitingAnew(u) \cup AcceptingFor(u) # {} THEN doubled \cup {u} ELSE doubled
  /\ UNCHANGED <<members, rows, joined, raced, dropped>>

FindInvitation(q) ==
  /\ requests[q].at = "pending"
  /\ \/ ~Sent(requests[q].user) /\ SeesNone(q)
     \/ Sent(requests[q].user) /\ Goto(q, NoRequest) /\ UNCHANGED <<members, rows, history>>
  /\ UNCHANGED faults

\* The look-up of an earlier invitation fails, which counts as none.
InvitationUnseen(q) == Fault /\ requests[q].at = "pending" /\ SeesNone(q)

HasSeat(taken) == taken < Limit

\* The two queries run in parallel; the last of them decides.
Counted(q, seat, n) ==
  LET u == requests[q].user
      left == requests[q].left \ {seat}
      taken == requests[q].taken + n
  IN
  /\ requests[q].at = "count" /\ seat \in requests[q].left
  /\ \/ /\ left # {}
        /\ Goto(q, [at |-> "count", user |-> u, left |-> left, taken |-> taken]) /\ UNCHANGED raced
     \/ left = {} /\ HasSeat(taken) /\ Goto(q, [at |-> "create", user |-> u]) /\ UNCHANGED raced
     \/ left = {} /\ ~HasSeat(taken) /\ Goto(q, NoRequest) /\ raced' = raced \ {q}
  /\ UNCHANGED <<members, rows, faults, joined, doubled, dropped>>

CountMembers(q) == Counted(q, "members", Cardinality(members))

\* Fault: pending invitations take no seat.
CountNoInvitations(q) == Counted(q, "invitations", 0)

CountInvitations(q) == Counted(q, "invitations", Cardinality(Alive))

\* Requests that have counted these seats and did not create an invitation yet.
HasCounted(seat) == {q \in Requests :
  requests[q].at = "create" \/ (requests[q].at = "count" /\ seat \notin requests[q].left)}

\* A row i of the model stands for a new one once nothing refers to the last.
CreateInvitation(q, i) ==
  /\ requests[q].at = "create"
  /\ status[i] \in {"none", "accepted", "closed"}
  /\ \A r \in Requests : i \notin IdsOf(requests[r])
  /\ SetStatus(i, "pending")
  /\ user' = [user EXCEPT ![i] = requests[q].user]
  /\ Goto(q, [at |-> "mail", id |-> i])
  /\ joined' = joined \ {i} /\ dropped' = dropped \ {i}
  /\ raced' = (raced \cup HasCounted("invitations")) \ {q}
  /\ UNCHANGED <<members, faults, doubled>>

\* Nothing is sent for an invitation that is not pending any more.
EnqueueInvitation(q) ==
  /\ requests[q].at = "mail"
  /\ \/ Goto(q, NoRequest) /\ UNCHANGED faults
     \/ Fault /\ Goto(q, [requests[q] EXCEPT !.at = "rollback"])
  /\ UNCHANGED <<members, rows, history>>

DeleteInvitation(q) ==
  /\ requests[q].at = "rollback"
  /\ SetStatus(requests[q].id, "none")
  /\ Goto(q, NoRequest)
  /\ UNCHANGED <<members, user, faults, history>>

----------------------------------------------------------------------------
(* acceptInvitation, and acceptPendingInvitations for all of a user.        *)

\* The status is seen first, then whether the user has access already.
AcceptInvitation(q, i) ==
  /\ requests[q] = NoRequest
  /\ i \in Alive
  /\ Goto(q, [at |-> "access", id |-> i])
  /\ UNCHANGED <<members, rows, faults, history>>

FindAccess(q) ==
  LET i == requests[q].id IN
  /\ requests[q].at = "access"
  /\ Goto(q, [at |-> "add", ids |-> {i}, strict |-> TRUE, had |-> user[i] \in members])
  /\ UNCHANGED <<members, rows, faults, history>>

AcceptExpired(i) ==
  /\ status[i] = "lapsed"
  /\ SetStatus(i, "closed")
  /\ UNCHANGED <<members, user, requests, faults, history>>

AcceptAll(q, u) ==
  /\ requests[q] = NoRequest
  /\ AliveOf(u) # {}
  /\ Goto(q, [at |-> "add", ids |-> AliveOf(u), strict |-> FALSE, had |-> FALSE])
  /\ UNCHANGED <<members, rows, faults, history>>

\* Fault: acceptInvitation leaves the status as it is.
ToStatusOfPending(q, i) ==
  IF requests[q].strict THEN NoRequest
  ELSE [at |-> "accepted", id |-> i, ids |-> requests[q].ids \ {i}, strict |-> requests[q].strict]

\* Once the user of i is dealt with: on to the status of i.
ToStatus(q, i) == [at |-> "accepted", id |-> i, ids |-> requests[q].ids \ {i},
                   strict |-> requests[q].strict]
\* And then to the next invitation.
ToNext(r) == IF r.ids = {} THEN NoRequest
             ELSE [at |-> "add", ids |-> r.ids, strict |-> r.strict, had |-> FALSE]

\* acceptPendingInvitations looks at the time again before each.
AtAdd(q, i) ==
  /\ requests[q].at = "add" /\ i \in requests[q].ids
  /\ requests[q].strict \/ status[i] # "lapsed"

SkipExpired(q, i) ==
  LET r == requests[q] IN
  /\ r.at = "add" /\ i \in r.ids /\ ~r.strict /\ status[i] = "lapsed"
  /\ SetStatus(i, "closed")
  /\ Goto(q, ToNext([r EXCEPT !.ids = @ \ {i}]))
  /\ UNCHANGED <<members, user, faults, history>>

\* Requests that do not count the seat which the acceptance of i takes: i has ended,
\* or moves away before they count the invitations.
Missing(i) == {q \in HasCounted("members") : i \notin Alive \/ requests[q].at = "count"}

AddMember(q, i) ==
  /\ AtAdd(q, i)
  /\ \/ requests[q].had /\ UNCHANGED <<members, raced, doubled>>
     \/ /\ ~requests[q].had /\ user[i] \notin members
        /\ members' = members \cup {user[i]}
        /\ raced' = raced \cup Missing(i)
        /\ doubled' = IF \E r \in Requests : requests[r].at = "pending" /\ requests[r].user = user[i]
                      THEN doubled \cup {user[i]} ELSE doubled
  /\ Goto(q, ToStatus(q, i))
  /\ joined' = joined \cup {i}
  /\ UNCHANGED <<rows, faults, dropped>>

\* There is a row already: acceptInvitation throws, the other one goes on.
AddRefused(q, i) ==
  /\ AtAdd(q, i) /\ ~requests[q].had
  /\ user[i] \in members
  /\ \/ requests[q].strict /\ Goto(q, NoRequest) /\ UNCHANGED joined
     \/ ~requests[q].strict /\ Goto(q, ToStatus(q, i)) /\ joined' = joined \cup {i}
  /\ UNCHANGED <<members, rows, faults, raced, doubled, dropped>>

\* Fault: acceptInvitation swallows the error too.
AddFailsSilently(q, i) ==
  /\ Fault
  /\ AtAdd(q, i) /\ ~requests[q].had
  /\ Goto(q, ToStatus(q, i))
  /\ dropped' = IF requests[q].strict THEN dropped ELSE dropped \cup {i}
  /\ UNCHANGED <<members, rows, joined, raced, doubled>>

\* The query fails.  acceptPendingInvitations takes it for a row that is there.
AddFails(q, i) ==
  /\ Fault
  /\ AtAdd(q, i) /\ ~requests[q].had
  /\ \/ requests[q].strict /\ Goto(q, NoRequest) /\ UNCHANGED dropped
     \/ ~requests[q].strict /\ Goto(q, ToStatus(q, i)) /\ dropped' = dropped \cup {i}
  /\ UNCHANGED <<members, rows, joined, raced, doubled>>

\* An invitation that was deleted meanwhile makes the update throw.
MarkAccepted(q) ==
  LET r == requests[q] IN
  /\ r.at = "accepted"
  /\ \/ status[r.id] = "none" /\ Goto(q, NoRequest) /\ UNCHANGED status
     \/ status[r.id] # "none" /\ Goto(q, ToNext(r)) /\ SetStatus(r.id, "accepted")
  /\ UNCHANGED <<members, user, faults, history>>

----------------------------------------------------------------------------
(* declineInvitation and cancelInvitation, each for an invitation that was  *)
(* listed as pending; removeMemberFromDashboard and leaveDashboard.         *)

CloseInvitation(q, i) ==
  /\ requests[q] = NoRequest
  /\ i \in Alive
  /\ Goto(q, [at |-> "close", id |-> i])
  /\ UNCHANGED <<members, rows, faults, history>>

MarkClosed(q) ==
  /\ requests[q].at = "close"
  /\ \/ status[requests[q].id] = "none" /\ UNCHANGED status
     \/ status[requests[q].id] # "none" /\ SetStatus(requests[q].id, "closed")
  /\ Goto(q, NoRequest)
  /\ UNCHANGED <<members, user, faults, history>>

RemoveMember(u) ==
  /\ u \in members
  /\ members' = members \ {u}
  /\ UNCHANGED <<rows, requests, faults, history>>

----------------------------------------------------------------------------
\* INVITATION_EXPIRY_DAYS pass.
Lapse(i) ==
  /\ i \in Alive
  /\ SetStatus(i, "lapsed")
  /\ UNCHANGED <<members, user, requests, faults, history>>

\* A query fails, or the process dies.
BreakOff(q) ==
  /\ Fault
  /\ requests[q] # NoRequest
  /\ Goto(q, NoRequest)
  /\ dropped' = IF requests[q].at = "accepted" THEN dropped \cup {requests[q].id} ELSE dropped
  /\ raced' = raced \ {q}
  /\ UNCHANGED <<members, rows, joined, doubled>>

Next ==
  \/ \E q \in Requests :
       \/ \E u \in Users : InviteUser(q, u) \/ AcceptAll(q, u)
       \/ FindInvitation(q) \/ InvitationUnseen(q) \/ CountMembers(q) \/ CountInvitations(q)
       \/ \E i \in Invitations :
            \/ CreateInvitation(q, i) \/ AcceptInvitation(q, i) \/ CloseInvitation(q, i)
            \/ SkipExpired(q, i) \/ AddMember(q, i) \/ AddRefused(q, i) \/ AddFails(q, i)
       \/ EnqueueInvitation(q) \/ DeleteInvitation(q) \/ FindAccess(q)
       \/ MarkAccepted(q) \/ MarkClosed(q) \/ BreakOff(q)
  \/ \E i \in Invitations : AcceptExpired(i) \/ Lapse(i)
  \/ \E u \in Users : RemoveMember(u)

Spec == Init /\ [][Next]_vars

----------------------------------------------------------------------------
\* Those who take a seat: members and people invited.
Seated == members \cup {user[i] : i \in Alive}

\* An invitation is created within the plan, members and people invited taken
\* together, unless a seat was taken behind a count of the request: by another
\* invitation, by accepting one that had ended meanwhile, or by accepting one
\* between the count of the members and that of the invitations.
LimitIsKept ==
  [][\A q \in Requests \ raced :
       requests[q].at = "create" /\ requests'[q].at = "mail" => Cardinality(Seated') <= Limit]_vars

\* An invitation of a member is used up: who is removed or leaves has nothing
\* left to come back with.  Exceptions are an acceptance that is being
\* recorded or broke off before it was, a user invited by two requests at once
\* or after a look-up that failed, and one who became a member after the request
\* that invites saw no member, or by an acceptance under way when it saw no
\* invitation.
MembersHaveNoInvitation ==
  \A i \in Alive : user[i] \in members =>
    \/ i \in dropped \/ user[i] \in doubled
    \/ \E q \in Requests : requests[q].at = "accepted" /\ requests[q].id = i

\* Who is told that an invitation was accepted is or was a member; only an
\* error that acceptPendingInvitations swallows uses up an invitation in vain.
AcceptedMeansJoined ==
  \A i \in Invitations : status[i] = "accepted" => i \in joined \cup dropped

\* Whose invitation has expired can be sent a new one, as the page of an expired
\* invitation says.  The code refuses: the expired row still says pending.
ExpiredCanBeInvitedAgain ==
  \A u \in Users \ members : AliveOf(u) = {} => ~Sent(u)
============================================================================
