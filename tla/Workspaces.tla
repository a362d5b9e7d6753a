----------------------------- MODULE Workspaces -----------------------------
(***************************************************************************)
(* One workspace: its members and the invitations sent to one address      *)
(* (TenancyService, CleanupCronService), used by several clients at once.  *)
(* A request reads, decides and writes with separate statements:           *)
(*   add       findMember -> insert                                        *)
(*   update    findMemberById -> update by id                              *)
(*   remove    findMember -> update                                        *)
(*   invite    getWorkspace -> transaction: cancel the pending ones, insert*)
(*   cancel    findById -> update by id                                    *)
(*   accept    findByTokenHash -> findMember -> transaction: keycard,      *)
(*             member, update by id                                        *)
(*   enroll    keycard -> insert                                           *)
(* A transaction is READ COMMITTED: other requests see its writes when it  *)
(* commits, and wait until then to write a row it has written.             *)
(* Any user may redeem an invitation: the token decides, not the address.  *)
(* The sole-admin check of updateMember compares roleId, a uuid, with      *)
(* 'admin': it never applies, and roles are left out. Members that are     *)
(* suspended or removed are 'inactive': this service never tells them      *)
(* apart.                                                                  *)
(***************************************************************************)
EXTENDS Naturals, FiniteSets

CONSTANTS
    Users,
    Invitations,  \* ids of invitations: a bound on their number
    Clients       \* requests that can be in flight at the same time

ASSUME FiniteAssumption == IsFiniteSet(Clients) /\ IsFiniteSet(Invitations)

VARIABLES
    deleted,     \* the workspace has been deleted
    member,      \* status of the workspace_members row of every user
    keycards,    \* users with a tenant_members row
    invitation,  \* status of every invitation
    overdue,     \* invitations past their expiresAt
    redeemed,    \* history: the users that joined by an invitation
    request      \* of every client: the step it is before, and what it read

vars == <<deleted, member, keycards, invitation, overdue, redeemed, request>>
membership == <<member, keycards>>
invitations == <<invitation, overdue, redeemed>>

MemberStatuses == {"active", "inactive"}
InvitationStatuses == {"pending", "accepted", "cancelled", "expired"}
IsMember(u) == member[u] # "absent"  \* a row of any status, as findMember sees it
Pending == {i \in Invitations : invitation[i] = "pending"}
Created == {i \in Invitations : invitation[i] # "absent"}

Idle == [step |-> "idle"]
Requests ==
    {Idle}
    \cup [step : {"insertMember"}, user : Users]
    \cup [step : {"writeMember"}, user : Users, status : MemberStatuses]
    \cup [step : {"rotate"}]
    \cup [step : {"commitInvite"}, cancels : SUBSET Pending]
    \cup [step : {"cancel"}, invitation : Created]
    \cup [step : {"findMember"}, invitation : Created, user : Users]
    \cup [step : {"accept"}, invitation : Created, user : Users, existing : BOOLEAN]

Init ==
    /\ deleted = FALSE
    /\ member = [u \in Users |-> "absent"]
    /\ keycards \in SUBSET Users
    /\ invitation = [i \in Invitations |-> "absent"]
    /\ overdue = {}
    /\ redeemed = [i \in Invitations |-> {}]
    /\ request = [c \in Clients |-> Idle]

-----------------------------------------------------------------------------
(* The parts of a request.                                                 *)
At(c, step) == request[c].step = step
GoTo(c, r) == request' = [request EXCEPT ![c] = r]
Return(c) == GoTo(c, Idle)

(* A first step that only reads.                                           *)
Begin(c, r) ==
    /\ request[c] = Idle
    /\ GoTo(c, r)
    /\ UNCHANGED <<deleted, membership, invitations>>

(* Rows that a transaction under way has written.                          *)
Locked(c) == IF At(c, "commitInvite") THEN request[c].cancels ELSE {}
IsLocked(i) == \E c \in Clients : i \in Locked(c)

-----------------------------------------------------------------------------
(* Members.                                                                *)

AddMember(c, u) ==
    ~deleted /\ ~IsMember(u) /\ Begin(c, [step |-> "insertMember", user |-> u])

(* enrollMember, from signup: the keycard, and the member without a look.  *)
EnrollMember(c, u) ==
    /\ request[c] = Idle
    /\ keycards' = keycards \cup {u}
    /\ GoTo(c, [step |-> "insertMember", user |-> u])
    /\ UNCHANGED <<deleted, member, invitations>>

(* uq_workspace_member: a second row is refused.                           *)
InsertMember(c) ==
    /\ At(c, "insertMember")
    /\ member' = [member EXCEPT ![request[c].user] =
                     IF IsMember(request[c].user) THEN @ ELSE "active"]
    /\ Return(c)
    /\ UNCHANGED <<deleted, keycards, invitations>>

UpdateMember(c, u, s) ==
    /\ ~deleted /\ IsMember(u)
    /\ Begin(c, [step |-> "writeMember", user |-> u, status |-> s])

RemoveMember(c, u) ==
    /\ ~deleted /\ IsMember(u)
    /\ Begin(c, [step |-> "writeMember", user |-> u, status |-> "inactive"])

(* By id, or by workspace and user: the same row.                          *)
WriteMember(c) ==
    /\ At(c, "writeMember")
    /\ member' = [member EXCEPT ![request[c].user] = request[c].status]
    /\ Return(c)
    /\ UNCHANGED <<deleted, keycards, invitations>>

-----------------------------------------------------------------------------
(* Invitations.                                                            *)

InviteMember(c) == ~deleted /\ Begin(c, [step |-> "rotate"])

(* cancelExistingForEmail: the pending ones committed so far.              *)
Rotate(c) ==
    /\ At(c, "rotate")
    /\ \A i \in Pending : ~IsLocked(i)
    /\ GoTo(c, [step |-> "commitInvite", cancels |-> Pending])
    /\ UNCHANGED <<deleted, membership, invitations>>

(* The new invitation and its email, in the same transaction.              *)
CommitInvite(c, i) ==
    /\ At(c, "commitInvite") /\ invitation[i] = "absent"
    /\ invitation' = [j \in Invitations |->
          IF j = i THEN "pending"
          ELSE IF j \in request[c].cancels THEN "cancelled" ELSE invitation[j]]
    /\ Return(c)
    /\ UNCHANGED <<deleted, membership, overdue, redeemed>>

CancelInvitation(c, i) ==
    /\ ~deleted /\ invitation[i] = "pending"
    /\ Begin(c, [step |-> "cancel", invitation |-> i])

(* updateStatus: by id, whatever the status is by now.                     *)
Cancel(c) ==
    /\ At(c, "cancel") /\ ~IsLocked(request[c].invitation)
    /\ invitation' = [invitation EXCEPT ![request[c].invitation] = "cancelled"]
    /\ Return(c)
    /\ UNCHANGED <<deleted, membership, overdue, redeemed>>

(* Mutant: the status of the invitation is not looked at.                  *)
AcceptAnyInvitation(c, i, u) ==
    /\ invitation[i] # "absent" /\ i \notin overdue
    /\ Begin(c, [step |-> "findMember", invitation |-> i, user |-> u])

(* The workspace is not looked at: it may be deleted.                      *)
AcceptInvitation(c, i, u) ==
    /\ invitation[i] = "pending" /\ i \notin overdue
    /\ Begin(c, [step |-> "findMember", invitation |-> i, user |-> u])

FindMember(c) ==
    /\ At(c, "findMember")
    /\ GoTo(c, [step |-> "accept", invitation |-> request[c].invitation,
                user |-> request[c].user, existing |-> IsMember(request[c].user)])
    /\ UNCHANGED <<deleted, membership, invitations>>

(* Mutant: only a new member gets a keycard.                               *)
JoinNew(c, i, u) ==
    /\ keycards' = IF request[c].existing THEN keycards ELSE keycards \cup {u}
    /\ member' = [member EXCEPT ![u] = IF request[c].existing THEN @ ELSE "active"]
    /\ invitation' = [invitation EXCEPT ![i] = "accepted"]
    /\ redeemed' = [redeemed EXCEPT ![i] = @ \cup {u}]

(* The transaction of acceptInvitation commits.                            *)
Join(c, i, u) ==
    /\ keycards' = keycards \cup {u}
    /\ member' = [member EXCEPT ![u] = IF request[c].existing THEN @ ELSE "active"]
    /\ invitation' = [invitation EXCEPT ![i] = "accepted"]
    /\ redeemed' = [redeemed EXCEPT ![i] = @ \cup {u}]

(* A user added since findMember is refused by the unique index, and the   *)
(* transaction with it; a known one is left as it is, removed or suspended.*)
Accept(c) ==
    LET i == request[c].invitation
        u == request[c].user
    IN /\ At(c, "accept") /\ ~IsLocked(i)
       /\ IF IsMember(u) /\ ~request[c].existing
          THEN UNCHANGED <<keycards, member, invitation, redeemed>>
          ELSE Join(c, i, u)
       /\ Return(c)
       /\ UNCHANGED <<deleted, overdue>>

-----------------------------------------------------------------------------
(* The expiresAt of an invitation passes; only pending ones are asked.     *)
PassExpiry(i) ==
    /\ invitation[i] = "pending"
    /\ overdue' = overdue \cup {i}
    /\ UNCHANGED <<deleted, membership, invitation, redeemed, request>>

(* The daily cleanup; it waits for rows that are being written.            *)
ExpireInvitations ==
    /\ \A i \in Pending \cap overdue : ~IsLocked(i)
    /\ invitation' = [i \in Invitations |->
          IF i \in Pending \cap overdue THEN "expired" ELSE invitation[i]]
    /\ UNCHANGED <<deleted, membership, overdue, redeemed, request>>

(* getWorkspace and softDelete: writing it twice is writing it once.       *)
DeleteWorkspace ==
    /\ ~deleted
    /\ deleted' = TRUE
    /\ UNCHANGED <<membership, invitations, request>>

(* A statement fails or the API process stops; transactions roll back.     *)
Abort(c) ==
    /\ request[c] # Idle
    /\ Return(c)
    /\ UNCHANGED <<deleted, membership, invitations>>

-----------------------------------------------------------------------------
Membership(c) ==
    \/ \E u \in Users : AddMember(c, u) \/ EnrollMember(c, u) \/ RemoveMember(c, u)
    \/ \E u \in Users, s \in MemberStatuses : UpdateMember(c, u, s)
    \/ InsertMember(c) \/ WriteMember(c)

Inviting(c) ==
    \/ InviteMember(c) \/ Rotate(c) \/ Cancel(c) \/ FindMember(c) \/ Accept(c)
    \/ \E i \in Invitations : CommitInvite(c, i) \/ CancelInvitation(c, i)
    \/ \E i \in Invitations, u \in Users : AcceptInvitation(c, i, u)

Next ==
    \/ \E c \in Clients : Membership(c) \/ Inviting(c) \/ Abort(c)
    \/ \E i \in Invitations : PassExpiry(i)
    \/ ExpireInvitations
    \/ DeleteWorkspace

Spec == Init /\ [][Next]_vars
-----------------------------------------------------------------------------
(* Type correctness; requests name invitations that were created, and what *)
(* a transaction is about to cancel is still pending.                      *)
TypeOK ==
    /\ deleted \in BOOLEAN
    /\ member \in [Users -> MemberStatuses \cup {"absent"}]
    /\ keycards \subseteq Users
    /\ invitation \in [Invitations -> InvitationStatuses \cup {"absent"}]
    /\ overdue \subseteq Created
    /\ redeemed \in [Invitations -> SUBSET Users]
    /\ request \in [Clients -> Requests]

(* "Ensure the keycard exists - this is what fixes the ghost member bug":  *)
(* whoever redeems an invitation, though the check of the member is stale  *)
(* when the transaction begins, has a keycard and a row in the workspace.  *)
RedeemersAreMembers ==
    \A i \in Invitations : \A u \in redeemed[i] : u \in keycards /\ IsMember(u)

(* "Rotate on resend: cancel any existing pending invite": transactions    *)
(* that do not see each other leave one more each, and no more.            *)
PendingBounded == Cardinality(Pending) <= Cardinality(Clients)

(* A suspended or removed member is active again only by updateMember:     *)
(* no invitation, and no request that was under way, lets it in.           *)
SuspensionHolds ==
    [][\A u \in Users :
          member[u] = "inactive" /\ member'[u] = "active" =>
              \E c \in Clients : WriteMember(c) /\ request[c].user = u]_vars

(* "A partial failure would otherwise let the same invitation be redeemed  *)
(* twice": once is all. Not so for two requests at once.                   *)
RedeemedOnce == \A i \in Invitations : Cardinality(redeemed[i]) <= 1

(* "Ghost member": every member has a keycard. Not so after addMember.     *)
MembersHaveKeycards == \A u \in Users : member[u] = "active" => u \in keycards

(* "Invitation accepted": who joins is an active member. Not so for one    *)
(* that was suspended or removed before.                                   *)
RedeemingActivates ==
    [][\A i \in Invitations : \A u \in redeemed'[i] \ redeemed[i] :
          member'[u] = "active"]_vars
=============================================================================
