--------------------------- MODULE Tenancy_proofs ---------------------------
(***************************************************************************)
(* Proofs about the people of a tenant: Workspaces for every number of     *)
(* users, invitations and clients, with the requests of MCWorkspaces, which*)
(* adds a history variable to it; then AuthSessions and Provisioning, under*)
(* the names MCAuthSessions and MCProvisioning give them.                  *)
(***************************************************************************)
EXTENDS MCWorkspaces, MCAuthSessions, MCProvisioning, FiniteSetTheorems, TLAPS

(* No row is written by two transactions at once.                          *)
LocksDisjoint == \A c, d \in Clients : c # d => Locked(c) \cap Locked(d) = {}

IInv == TypeOK /\ LocksDisjoint

(* Every step is of one of the actions, or changes nothing.                *)
LEMMA NextCases ==
    ASSUME [Next]_vars
    PROVE  \/ \E c \in Clients, u \in Users :
                 AddMember(c, u) \/ EnrollMember(c, u) \/ RemoveMember(c, u)
           \/ \E c \in Clients, u \in Users, s \in MemberStatuses : UpdateMember(c, u, s)
           \/ \E c \in Clients : InsertMember(c) \/ WriteMember(c)
           \/ \E c \in Clients : InviteMember(c) \/ Rotate(c) \/ FindMember(c)
           \/ \E c \in Clients : Cancel(c)
           \/ \E c \in Clients : Accept(c)
           \/ \E c \in Clients, i \in Invitations : CommitInvite(c, i)
           \/ \E c \in Clients, i \in Invitations : CancelInvitation(c, i)
           \/ \E c \in Clients, i \in Invitations, u \in Users : AcceptInvitation(c, i, u)
           \/ \E c \in Clients : Abort(c)
           \/ \E i \in Invitations : PassExpiry(i)
           \/ ExpireInvitations
           \/ DeleteWorkspace
           \/ UNCHANGED vars
BY DEF Next, Membership, Inviting

-----------------------------------------------------------------------------
(* What a step does to the invitations: it leaves them, or changes rows    *)
(* that no other transaction has written.                                  *)
LEMMA InvitationsStep ==
    ASSUME TypeOK, [Next]_vars
    PROVE  /\ invitation' \in [Invitations -> InvitationStatuses \cup {"absent"}]
           /\ Created \subseteq Created'
<1> USE DEF TypeOK, Created, InvitationStatuses
<1>1. ASSUME UNCHANGED invitation
      PROVE  /\ invitation' \in [Invitations -> InvitationStatuses \cup {"absent"}]
             /\ Created \subseteq Created'
      BY <1>1
<1>2. ASSUME NEW c \in Clients, Cancel(c)
      PROVE  /\ invitation' \in [Invitations -> InvitationStatuses \cup {"absent"}]
             /\ Created \subseteq Created'
      BY <1>2 DEF Cancel
<1>3. ASSUME NEW c \in Clients, Accept(c)
      PROVE  /\ invitation' \in [Invitations -> InvitationStatuses \cup {"absent"}]
             /\ Created \subseteq Created'
      BY <1>3 DEF Accept, Join
<1>4. ASSUME NEW c \in Clients, NEW i \in Invitations, CommitInvite(c, i)
      PROVE  /\ invitation' \in [Invitations -> InvitationStatuses \cup {"absent"}]
             /\ Created \subseteq Created'
      BY <1>4 DEF CommitInvite
<1>5. CASE ExpireInvitations
      BY <1>5 DEF ExpireInvitations, Pending
<1>6. QED
      BY <1>1, <1>2, <1>3, <1>4, <1>5, NextCases
      DEF AddMember, EnrollMember, RemoveMember, UpdateMember, InsertMember, WriteMember,
          InviteMember, Rotate, FindMember, CancelInvitation, AcceptInvitation, Abort,
          PassExpiry, DeleteWorkspace, Begin, invitations, vars

(* The rows a transaction is about to cancel are pending.                  *)
LEMMA LockedPending ==
    ASSUME TypeOK, NEW d \in Clients
    PROVE  Locked(d) \subseteq Pending
BY DEF TypeOK, Locked, At, Requests, Idle

(* They stay pending until its transaction ends.                           *)
LEMMA LockedStay ==
    ASSUME IInv, [Next]_vars, NEW d \in Clients, request'[d] = request[d]
    PROVE  Locked(d) \subseteq Pending'
<1>1. Locked(d) \subseteq Pending
      BY LockedPending DEF IInv
<1>2. ASSUME UNCHANGED invitation
      PROVE  Locked(d) \subseteq Pending'
      BY <1>1, <1>2 DEF Pending
<1>3. ASSUME NEW c \in Clients, Cancel(c)
      PROVE  Locked(d) \subseteq Pending'
      BY <1>1, <1>3 DEF Cancel, IsLocked, Pending, IInv, TypeOK
<1>4. ASSUME NEW c \in Clients, Accept(c)
      PROVE  Locked(d) \subseteq Pending'
      BY <1>1, <1>4 DEF Accept, Join, IsLocked, Pending, IInv, TypeOK
<1>5. ASSUME NEW c \in Clients, NEW i \in Invitations, CommitInvite(c, i)
      PROVE  Locked(d) \subseteq Pending'
  <2>1. d # c
        BY <1>5 DEF CommitInvite, At, Return, GoTo, Idle, IInv, TypeOK
  <2>2. Locked(d) \cap request[c].cancels = {}
        BY <1>5, <2>1 DEF CommitInvite, IInv, LocksDisjoint, Locked
  <2>3. QED
        BY <1>1, <1>5, <2>2 DEF CommitInvite, Pending
<1>6. CASE ExpireInvitations
      BY <1>1, <1>6 DEF ExpireInvitations, IsLocked, Pending, IInv, TypeOK
<1>7. QED
      BY <1>2, <1>3, <1>4, <1>5, <1>6, NextCases
      DEF AddMember, EnrollMember, RemoveMember, UpdateMember, InsertMember, WriteMember,
          InviteMember, Rotate, FindMember, CancelInvitation, AcceptInvitation, Abort,
          PassExpiry, DeleteWorkspace, Begin, invitations, vars

(* So a request that a step leaves alone stays well-formed.                *)
LEMMA RequestStays ==
    ASSUME IInv, [Next]_vars, NEW d \in Clients, request'[d] = request[d]
    PROVE  request[d] \in Requests'
<1>1. request[d] \in Requests
      BY DEF IInv, TypeOK
<1>2. Created \subseteq Created'
      BY InvitationsStep DEF IInv
<1>3. CASE request[d].step = "commitInvite"
  <2>1. request[d].cancels \subseteq Pending'
        BY <1>3, LockedStay DEF Locked, At
  <2>2. request[d] \in [step : {"commitInvite"}, cancels : SUBSET Pending]
        BY <1>1, <1>3 DEF Requests, Idle
  <2>3. request[d] \in [step : {"commitInvite"}, cancels : SUBSET Pending']
        BY <2>1, <2>2
  <2>4. QED
        BY <2>3 DEF Requests
<1>4. CASE request[d].step # "commitInvite"
  <2>1. request[d] \notin [step : {"commitInvite"}, cancels : SUBSET Pending]
        BY <1>4
  <2>2. QED
        BY <1>1, <1>2, <2>1 DEF Requests
<1>5. QED
      BY <1>3, <1>4

(* Going to a well-formed step leaves the requests well-formed.            *)
LEMMA GoToOK ==
    ASSUME IInv, [Next]_vars, NEW c \in Clients, NEW r, GoTo(c, r), r \in Requests'
    PROVE  request' \in [Clients -> Requests']
<1>1. \A d \in Clients : d # c => request'[d] = request[d]
      BY DEF GoTo, IInv, TypeOK
<1>2. \A d \in Clients : request'[d] \in Requests'
      BY <1>1, RequestStays DEF GoTo, IInv, TypeOK
<1>3. QED
      BY <1>2 DEF GoTo, IInv, TypeOK

(* Every step leaves the requests well-formed.                             *)
LEMMA RequestsOK ==
    ASSUME IInv, [Next]_vars
    PROVE  request' \in [Clients -> Requests']
<1>1. Created \subseteq Created'
      BY InvitationsStep DEF IInv
<1>2. request \in [Clients -> Requests]
      BY DEF IInv, TypeOK
<1>3. ASSUME UNCHANGED request
      PROVE  request' \in [Clients -> Requests']
      BY <1>2, <1>3, RequestStays
<1>4. ASSUME NEW c \in Clients, Return(c)
      PROVE  request' \in [Clients -> Requests']
      BY <1>4, GoToOK DEF Return, Requests
<1>5. ASSUME NEW c \in Clients, NEW u \in Users, AddMember(c, u) \/ EnrollMember(c, u)
      PROVE  request' \in [Clients -> Requests']
  <2>1. [step |-> "insertMember", user |-> u] \in Requests'
        BY DEF Requests
  <2>2. QED
        BY <1>5, <2>1, GoToOK DEF AddMember, EnrollMember, Begin
<1>6. ASSUME NEW c \in Clients, NEW u \in Users, NEW s \in MemberStatuses,
             UpdateMember(c, u, s) \/ RemoveMember(c, u)
      PROVE  request' \in [Clients -> Requests']
  <2>1. /\ [step |-> "writeMember", user |-> u, status |-> s] \in Requests'
        /\ [step |-> "writeMember", user |-> u, status |-> "inactive"] \in Requests'
        BY DEF Requests, MemberStatuses
  <2>2. QED
        BY <1>6, <2>1, GoToOK DEF UpdateMember, RemoveMember, Begin
<1>7. ASSUME NEW c \in Clients, InviteMember(c)
      PROVE  request' \in [Clients -> Requests']
  <2>1. [step |-> "rotate"] \in Requests'
        BY DEF Requests
  <2>2. QED
        BY <1>7, <2>1, GoToOK DEF InviteMember, Begin
<1>8. ASSUME NEW c \in Clients, Rotate(c)
      PROVE  request' \in [Clients -> Requests']
  <2>1. Pending' = Pending
        BY <1>8 DEF Rotate, Pending, invitations
  <2>2. [step |-> "commitInvite", cancels |-> Pending] \in Requests'
        BY <2>1 DEF Requests
  <2>3. QED
        BY <1>8, <2>2, GoToOK DEF Rotate
<1>9. ASSUME NEW c \in Clients, NEW i \in Invitations, CancelInvitation(c, i)
      PROVE  request' \in [Clients -> Requests']
  <2>1. [step |-> "cancel", invitation |-> i] \in Requests'
        BY <1>1, <1>9 DEF Requests, CancelInvitation, Created
  <2>2. QED
        BY <1>9, <2>1, GoToOK DEF CancelInvitation, Begin
<1>10. ASSUME NEW c \in Clients, NEW i \in Invitations, NEW u \in Users,
              AcceptInvitation(c, i, u)
       PROVE  request' \in [Clients -> Requests']
  <2>1. [step |-> "findMember", invitation |-> i, user |-> u] \in Requests'
        BY <1>1, <1>10 DEF Requests, AcceptInvitation, Created
  <2>2. QED
        BY <1>10, <2>1, GoToOK DEF AcceptInvitation, Begin
<1>11. ASSUME NEW c \in Clients, FindMember(c)
       PROVE  request' \in [Clients -> Requests']
  <2> DEFINE r == [step |-> "accept", invitation |-> request[c].invitation,
                   user |-> request[c].user, existing |-> IsMember(request[c].user)]
  <2>1. request[c].invitation \in Created /\ request[c].user \in Users
        BY <1>2, <1>11 DEF FindMember, At, Requests, Idle
  <2>2. IsMember(request[c].user) \in BOOLEAN
        BY DEF IsMember
  <2>3. r \in [step : {"accept"}, invitation : Created', user : Users, existing : BOOLEAN]
        BY <1>1, <2>1, <2>2, Zenon
  <2>4. r \in Requests'
        BY <2>3, Zenon DEF Requests
  <2>5. GoTo(c, r)
        BY <1>11, Zenon DEF FindMember
  <2> HIDE DEF r
  <2>6. QED
        BY <2>4, <2>5, GoToOK
<1>12. QED
       BY <1>3, <1>4, <1>5, <1>6, <1>7, <1>8, <1>9, <1>10, <1>11, NextCases
       DEF InsertMember, WriteMember, Cancel, Accept, CommitInvite, Abort, PassExpiry,
           ExpireInvitations, DeleteWorkspace, MemberStatuses, vars

(* The members, keycards and redeemers of a step are users.                *)
LEMMA MembersOK ==
    ASSUME TypeOK, [Next]_vars
    PROVE  /\ member' \in [Users -> MemberStatuses \cup {"absent"}]
           /\ keycards' \subseteq Users
           /\ redeemed' \in [Invitations -> SUBSET Users]
<1> USE DEF TypeOK, MemberStatuses
<1> DEFINE OK == /\ member' \in [Users -> MemberStatuses \cup {"absent"}]
                 /\ keycards' \subseteq Users
                 /\ redeemed' \in [Invitations -> SUBSET Users]
<1>1. ASSUME UNCHANGED <<member, keycards, redeemed>>
      PROVE  OK
      BY <1>1
<1>2. ASSUME NEW c \in Clients, NEW u \in Users, EnrollMember(c, u)
      PROVE  OK
      BY <1>2 DEF EnrollMember, invitations
<1>3. ASSUME NEW c \in Clients, InsertMember(c)
      PROVE  OK
      BY <1>3 DEF InsertMember, invitations
<1>4. ASSUME NEW c \in Clients, WriteMember(c)
      PROVE  OK
  <2>1. request[c].status \in MemberStatuses
        BY <1>4 DEF WriteMember, At, Requests, Idle
  <2>2. QED
        BY <1>4, <2>1 DEF WriteMember, invitations
<1>5. ASSUME NEW c \in Clients, Accept(c)
      PROVE  OK
  <2>1. request[c].user \in Users
        BY <1>5 DEF Accept, At, Requests, Idle
  <2>2. QED
        BY <1>5, <2>1 DEF Accept, Join
<1>6. QED
      BY <1>1, <1>2, <1>3, <1>4, <1>5, NextCases
      DEF AddMember, RemoveMember, UpdateMember, InviteMember, Rotate, FindMember, Cancel,
          CommitInvite, CancelInvitation, AcceptInvitation, Abort, PassExpiry,
          ExpireInvitations, DeleteWorkspace, Begin, membership, invitations, vars

(* The type invariant survives every step.                                 *)
LEMMA TypeStep ==
    ASSUME IInv, [Next]_vars
    PROVE  TypeOK'
<1>1. request' \in [Clients -> Requests']
      BY RequestsOK
<1>2. /\ invitation' \in [Invitations -> InvitationStatuses \cup {"absent"}]
      /\ Created \subseteq Created'
      BY InvitationsStep DEF IInv
<1>3. /\ member' \in [Users -> MemberStatuses \cup {"absent"}]
      /\ keycards' \subseteq Users
      /\ redeemed' \in [Invitations -> SUBSET Users]
      BY MembersOK DEF IInv
<1>4. deleted' \in BOOLEAN
  <2>1. deleted \in BOOLEAN
        BY DEF IInv, TypeOK
  <2>2. deleted' = deleted \/ DeleteWorkspace
        BY NextCases
        DEF AddMember, EnrollMember, RemoveMember, UpdateMember, InsertMember, WriteMember,
            InviteMember, Rotate, FindMember, Cancel, Accept, CommitInvite,
            CancelInvitation, AcceptInvitation, Abort, PassExpiry, ExpireInvitations,
            Begin, vars
  <2>3. QED
        BY <2>1, <2>2, Zenon DEF DeleteWorkspace
<1>5. overdue' \subseteq Created'
  <2>1. overdue \subseteq Created
        BY DEF IInv, TypeOK
  <2>2. overdue' = overdue \/ \E i \in Invitations : PassExpiry(i)
        BY NextCases
        DEF AddMember, EnrollMember, RemoveMember, UpdateMember, InsertMember, WriteMember,
            InviteMember, Rotate, FindMember, Cancel, Accept, CommitInvite,
            CancelInvitation, AcceptInvitation, Abort, ExpireInvitations,
            DeleteWorkspace, Begin, invitations, vars
  <2>3. QED
        BY <1>2, <2>1, <2>2 DEF PassExpiry, Created
<1>6. QED
      BY <1>1, <1>2, <1>3, <1>4, <1>5 DEF TypeOK

(* Only Rotate locks rows, and it waits until nobody else has locked any.  *)
LEMMA LocksStep ==
    ASSUME IInv, [Next]_vars
    PROVE  LocksDisjoint'
<1>1. ASSUME \A d \in Clients : Locked(d)' \subseteq Locked(d)
      PROVE  LocksDisjoint'
  <2> SUFFICES ASSUME NEW d \in Clients, NEW e \in Clients, d # e
               PROVE  Locked(d)' \cap Locked(e)' = {}
      BY DEF LocksDisjoint
  <2>1. Locked(d) \cap Locked(e) = {}
        BY DEF IInv, LocksDisjoint
  <2>2. QED
        BY <1>1, <2>1
<1>2. ASSUME NEW c \in Clients, Rotate(c)
      PROVE  LocksDisjoint'
  <2>1. \A d \in Clients : Locked(d) = {}
        BY <1>2, LockedPending DEF Rotate, IsLocked, IInv, Pending
  <2>2. \A d \in Clients : d # c => Locked(d)' = Locked(d)
        BY <1>2 DEF Rotate, GoTo, Locked, At, IInv, TypeOK
  <2>3. QED
        BY <2>1, <2>2 DEF LocksDisjoint
<1>3. ASSUME NEW c \in Clients, NEW r, GoTo(c, r), r.step # "commitInvite"
      PROVE  LocksDisjoint'
  <2>1. \A d \in Clients : Locked(d)' \subseteq Locked(d)
        BY <1>3 DEF GoTo, Locked, At, IInv, TypeOK
  <2>2. QED
        BY <1>1, <2>1
<1>4. ASSUME UNCHANGED request
      PROVE  LocksDisjoint'
      BY <1>1, <1>4 DEF Locked, At
<1>5. ASSUME NEW c \in Clients, Return(c)
      PROVE  LocksDisjoint'
      BY <1>3, <1>5 DEF Return, Idle
<1>6. ASSUME NEW c \in Clients, NEW u \in Users, NEW s \in MemberStatuses,
             AddMember(c, u) \/ EnrollMember(c, u) \/ RemoveMember(c, u)
                \/ UpdateMember(c, u, s)
      PROVE  LocksDisjoint'
      BY <1>3, <1>6 DEF AddMember, EnrollMember, RemoveMember, UpdateMember, Begin
<1>7. ASSUME NEW c \in Clients, NEW i \in Invitations, NEW u \in Users,
             CancelInvitation(c, i) \/ AcceptInvitation(c, i, u)
      PROVE  LocksDisjoint'
      BY <1>3, <1>7 DEF CancelInvitation, AcceptInvitation, Begin
<1>8. ASSUME NEW c \in Clients, InviteMember(c) \/ FindMember(c)
      PROVE  LocksDisjoint'
      BY <1>3, <1>8 DEF InviteMember, FindMember, Begin
<1>9. ASSUME NEW c \in Clients, NEW i \in Invitations, CancelInvitation(c, i)
      PROVE  LocksDisjoint'
      BY <1>3, <1>9 DEF CancelInvitation, Begin
<1>10. QED
       BY <1>2, <1>4, <1>5, <1>6, <1>7, <1>8, <1>9, NextCases
       DEF InsertMember, WriteMember, Cancel, Accept, CommitInvite, Abort, PassExpiry,
           ExpireInvitations, DeleteWorkspace, MemberStatuses, vars

(* Types and locks hold initially and survive every step.                  *)
LEMMA IInvHolds == Spec => []IInv
<1>1. Init => IInv
  <2> SUFFICES ASSUME Init
               PROVE  IInv
      OBVIOUS
  <2>1. deleted \in BOOLEAN
        BY Zenon DEF Init
  <2>2. /\ member \in [Users -> MemberStatuses \cup {"absent"}]
        /\ invitation \in [Invitations -> InvitationStatuses \cup {"absent"}]
        /\ redeemed \in [Invitations -> SUBSET Users]
        /\ keycards \subseteq Users /\ overdue \subseteq Created
        BY DEF Init
  <2>3. request \in [Clients -> Requests]
        BY DEF Init, Requests
  <2>4. LocksDisjoint
        BY DEF Init, LocksDisjoint, Locked, At, Idle
  <2>5. QED
        BY <2>1, <2>2, <2>3, <2>4 DEF IInv, TypeOK
<1>2. IInv /\ [Next]_vars => IInv'
      BY TypeStep, LocksStep DEF IInv
<1>3. QED
      BY <1>1, <1>2, PTL DEF Spec

(* Type correctness; what a transaction is about to cancel is pending,     *)
(* since rows it has written wait for its end.                             *)
THEOREM TypeCorrect == Spec => []TypeOK
<1>1. IInv => TypeOK
      BY DEF IInv
<1>2. QED
      BY <1>1, IInvHolds, PTL

-----------------------------------------------------------------------------
(* What findMember has seen is still there: rows are never deleted.        *)
ExistingStay ==
    \A c \in Clients :
        request[c].step = "accept" /\ request[c].existing = TRUE =>
            member[request[c].user] # "absent"

(* A row of workspace_members, once there, stays.                          *)
LEMMA MembersStay ==
    ASSUME TypeOK, [Next]_vars, NEW u \in Users, IsMember(u)
    PROVE  IsMember(u)'
<1> USE DEF TypeOK, IsMember
<1>1. ASSUME UNCHANGED member
      PROVE  IsMember(u)'
      BY <1>1
<1>2. ASSUME NEW c \in Clients, InsertMember(c)
      PROVE  IsMember(u)'
      BY <1>2 DEF InsertMember
<1>3. ASSUME NEW c \in Clients, WriteMember(c)
      PROVE  IsMember(u)'
  <2>1. request[c].status # "absent"
        BY <1>3 DEF WriteMember, At, Requests, Idle, MemberStatuses
  <2>2. QED
        BY <1>3, <2>1 DEF WriteMember
<1>4. ASSUME NEW c \in Clients, Accept(c)
      PROVE  IsMember(u)'
      BY <1>4 DEF Accept, Join
<1>5. QED
      BY <1>1, <1>2, <1>3, <1>4, NextCases
      DEF AddMember, EnrollMember, RemoveMember, UpdateMember, InviteMember, Rotate,
          FindMember, Cancel, CommitInvite, CancelInvitation, AcceptInvitation, Abort,
          PassExpiry, ExpireInvitations, DeleteWorkspace, Begin, membership, vars

(* Only FindMember goes to "accept", with what it has just seen.           *)
LEMMA AcceptsStep ==
    ASSUME TypeOK, [Next]_vars, NEW d \in Clients, request'[d].step = "accept"
    PROVE  \/ request'[d] = request[d]
           \/ /\ request'[d].existing = IsMember(request'[d].user)
              /\ UNCHANGED member
<1> DEFINE Goal == \/ request'[d] = request[d]
                   \/ /\ request'[d].existing = IsMember(request'[d].user)
                      /\ UNCHANGED member
<1>1. ASSUME UNCHANGED request
      PROVE  Goal
      BY <1>1
<1>2. ASSUME NEW c \in Clients, NEW r, GoTo(c, r), r.step # "accept"
      PROVE  Goal
      BY <1>2 DEF GoTo, TypeOK
<1>3. ASSUME NEW c \in Clients, FindMember(c)
      PROVE  Goal
  <2> DEFINE r == [step |-> "accept", invitation |-> request[c].invitation,
                   user |-> request[c].user, existing |-> IsMember(request[c].user)]
  <2>1. r.existing = IsMember(r.user)
        BY Zenon
  <2>2. GoTo(c, r) /\ UNCHANGED member
        BY <1>3 DEF FindMember, membership
  <2> HIDE DEF r
  <2>3. CASE d = c
        BY <2>1, <2>2, <2>3 DEF GoTo, TypeOK
  <2>4. CASE d # c
        BY <2>2, <2>4 DEF GoTo, TypeOK
  <2>5. QED
        BY <2>3, <2>4
<1>4. ASSUME NEW c \in Clients, Return(c)
      PROVE  Goal
      BY <1>2, <1>4 DEF Return, Idle
<1>5. ASSUME NEW c \in Clients, NEW u \in Users,
             AddMember(c, u) \/ EnrollMember(c, u) \/ RemoveMember(c, u)
      PROVE  Goal
      BY <1>2, <1>5 DEF AddMember, EnrollMember, RemoveMember, Begin
<1>6. ASSUME NEW c \in Clients, NEW u \in Users, NEW s \in MemberStatuses,
             UpdateMember(c, u, s)
      PROVE  Goal
      BY <1>2, <1>6 DEF UpdateMember, Begin
<1>7. ASSUME NEW c \in Clients, InviteMember(c) \/ Rotate(c)
      PROVE  Goal
      BY <1>2, <1>7 DEF InviteMember, Rotate, Begin
<1>8. ASSUME NEW c \in Clients, NEW i \in Invitations, CancelInvitation(c, i)
      PROVE  Goal
      BY <1>2, <1>8 DEF CancelInvitation, Begin
<1>9. ASSUME NEW c \in Clients, NEW i \in Invitations, NEW u \in Users,
             AcceptInvitation(c, i, u)
      PROVE  Goal
      BY <1>2, <1>9 DEF AcceptInvitation, Begin
<1> HIDE DEF Goal
<1>10. Goal
       BY <1>1, <1>3, <1>4, <1>5, <1>6, <1>7, <1>8, <1>9, NextCases
       DEF InsertMember, WriteMember, Cancel, Accept, CommitInvite, Abort, PassExpiry,
           ExpireInvitations, DeleteWorkspace, vars
<1>11. QED
       BY <1>10 DEF Goal

(* What findMember saw stays so.                                           *)
LEMMA ExistingStep ==
    ASSUME TypeOK, TypeOK', ExistingStay, [Next]_vars
    PROVE  ExistingStay'
<1> SUFFICES ASSUME NEW d \in Clients, request'[d].step = "accept",
                    request'[d].existing = TRUE
             PROVE  member'[request'[d].user] # "absent"
    BY DEF ExistingStay
<1>1. request'[d].user \in Users
      BY DEF TypeOK, Requests, Idle
<1>2. CASE request'[d] = request[d]
      BY <1>1, <1>2, MembersStay DEF ExistingStay, IsMember
<1>3. CASE request'[d].existing = IsMember(request'[d].user) /\ UNCHANGED member
  <2>1. IsMember(request'[d].user)
        BY <1>3, Zenon
  <2>2. QED
        BY <1>3, <2>1 DEF IsMember
<1>4. QED
      BY <1>2, <1>3, AcceptsStep

(* A keycard is never taken away.                                          *)
LEMMA KeycardsStay ==
    ASSUME [Next]_vars
    PROVE  keycards \subseteq keycards'
BY NextCases
   DEF AddMember, EnrollMember, RemoveMember, UpdateMember, InsertMember, WriteMember,
       InviteMember, Rotate, FindMember, Cancel, Accept, Join, CommitInvite,
       CancelInvitation, AcceptInvitation, Abort, PassExpiry, ExpireInvitations,
       DeleteWorkspace, Begin, membership, vars

(* Who redeems gets a keycard, and has a row or gets one.                  *)
LEMMA JoinStep ==
    ASSUME TypeOK, ExistingStay, [Next]_vars, NEW c \in Clients, NEW i \in Invitations,
           NEW u \in Users, request[c].step = "accept", request[c].user = u, Join(c, i, u)
    PROVE  /\ u \in keycards'
           /\ member'[u] # "absent"
           /\ \A j \in Invitations : redeemed'[j] \subseteq redeemed[j] \cup {u}
<1>1. u \in keycards'
      BY DEF Join
<1>2. CASE request[c].existing = TRUE
  <2>1. IsMember(u)
        BY <1>2 DEF ExistingStay, IsMember
  <2>2. QED
        BY <1>1, <2>1, MembersStay DEF IsMember, Join, TypeOK
<1>3. CASE request[c].existing # TRUE
  <2>0. request[c] \in [step : {"accept"}, invitation : Created, user : Users,
                        existing : BOOLEAN]
        BY DEF TypeOK, Requests, Idle
  <2>1. request[c].existing = FALSE
    <3>1. request[c].existing \in BOOLEAN
          BY <2>0
    <3>2. QED
          BY <1>3, <3>1, Zenon
  <2>2. member'[u] = "active"
        BY <2>1 DEF Join, TypeOK
  <2>3. QED
        BY <1>1, <2>2 DEF Join, TypeOK
<1>4. QED
      BY <1>2, <1>3

(* Whoever redeemed stays a member with a keycard; who redeems becomes one.*)
LEMMA RedeemersStep ==
    ASSUME TypeOK, ExistingStay, RedeemersAreMembers, [Next]_vars
    PROVE  RedeemersAreMembers'
<1>1. \A j \in Invitations : \A v \in redeemed[j] : v \in keycards' /\ member'[v] # "absent"
      BY KeycardsStay, MembersStay DEF RedeemersAreMembers, TypeOK, IsMember
<1>2. CASE UNCHANGED redeemed
      BY <1>1, <1>2 DEF RedeemersAreMembers, IsMember
<1>3. ASSUME NEW c \in Clients, Accept(c)
      PROVE  RedeemersAreMembers'
  <2>1. request[c].step = "accept"
        BY <1>3 DEF Accept, At
  <2>2. request[c].user \in Users /\ request[c].invitation \in Invitations
        BY <2>1 DEF TypeOK, Requests, Idle, Created
  <2>3. CASE Join(c, request[c].invitation, request[c].user)
        BY <1>1, <2>1, <2>2, <2>3, JoinStep DEF RedeemersAreMembers, IsMember
  <2>4. QED
        BY <1>2, <1>3, <2>3 DEF Accept
<1>4. QED
      BY <1>2, <1>3, NextCases
      DEF AddMember, EnrollMember, RemoveMember, UpdateMember, InsertMember, WriteMember,
          InviteMember, Rotate, FindMember, Cancel, CommitInvite, CancelInvitation,
          AcceptInvitation, Abort, PassExpiry, ExpireInvitations, DeleteWorkspace, Begin,
          invitations, vars

(* However requests interleave: whoever redeems an invitation has a keycard*)
(* and a row in the workspace, though findMember may be stale by then.     *)
THEOREM RedeemersJoin == Spec => []RedeemersAreMembers
<1>1. Init => ExistingStay /\ RedeemersAreMembers
      BY DEF Init, ExistingStay, RedeemersAreMembers, At, Idle
<1>2. TypeOK /\ TypeOK' /\ ExistingStay /\ [Next]_vars => ExistingStay'
      BY ExistingStep
<1>3. TypeOK /\ ExistingStay /\ RedeemersAreMembers /\ [Next]_vars => RedeemersAreMembers'
      BY RedeemersStep
<1>4. QED
      BY <1>1, <1>2, <1>3, TypeCorrect, PTL DEF Spec

-----------------------------------------------------------------------------
(* The statement of SuspensionHolds about one step.                        *)
OnlyWritten ==
    \A u \in Users :
        member[u] = "inactive" /\ member'[u] = "active" =>
            \E c \in Clients : WriteMember(c) /\ request[c].user = u

(* Inserts only touch users without a row, and a join without a row that   *)
(* was there is refused.                                                   *)
LEMMA SuspensionStep ==
    ASSUME TypeOK, [Next]_vars
    PROVE  OnlyWritten
<1> SUFFICES ASSUME NEW u \in Users, member[u] = "inactive", member'[u] = "active"
             PROVE  \E c \in Clients : WriteMember(c) /\ request[c].user = u
    BY DEF OnlyWritten
<1>1. ASSUME NEW c \in Clients, InsertMember(c)
      PROVE  FALSE
      BY <1>1 DEF InsertMember, IsMember, TypeOK
<1>2. ASSUME NEW c \in Clients, WriteMember(c)
      PROVE  request[c].user = u
      BY <1>2 DEF WriteMember, TypeOK
<1>3. ASSUME NEW c \in Clients, Accept(c)
      PROVE  FALSE
      BY <1>3 DEF Accept, Join, IsMember, TypeOK
<1>4. member' # member
      OBVIOUS
<1>5. QED
      BY <1>1, <1>2, <1>3, <1>4, NextCases
      DEF AddMember, EnrollMember, RemoveMember, UpdateMember, InviteMember, Rotate,
          FindMember, Cancel, CommitInvite, CancelInvitation, AcceptInvitation, Abort,
          PassExpiry, ExpireInvitations, DeleteWorkspace, Begin, membership, vars

(* However requests interleave: who was suspended or removed is active     *)
(* again only by updateMember.                                             *)
THEOREM SuspensionIsFinal == Spec => SuspensionHolds
<1>1. TypeOK /\ [Next]_vars => [OnlyWritten]_vars
      BY SuspensionStep
<1>2. Spec => [][OnlyWritten]_vars
      BY <1>1, TypeCorrect, PTL DEF Spec
<1>3. QED
      BY <1>2 DEF SuspensionHolds, OnlyWritten

-----------------------------------------------------------------------------
(* Transactions that have found nothing to cancel, and add an invitation.  *)
Adding == {c \in Clients : request[c].step = "commitInvite" /\ request[c].cancels = {}}

PendingOrAdding == Cardinality(Pending) + Cardinality(Adding) <= Cardinality(Clients)

(* They are finitely many, and so are the pending invitations.             *)
LEMMA CountsAreNumbers ==
    /\ IsFiniteSet(Pending) /\ IsFiniteSet(Adding)
    /\ Cardinality(Pending) \in Nat /\ Cardinality(Adding) \in Nat
    /\ Cardinality(Clients) \in Nat
<1>1. IsFiniteSet(Pending) /\ IsFiniteSet(Adding)
      BY FiniteAssumption, FS_Subset DEF Pending, Adding
<1>2. QED
      BY <1>1, FiniteAssumption, FS_CardinalityType

(* The same in the next state.                                             *)
LEMMA CountsAreNumbersNext ==
    /\ IsFiniteSet(Pending') /\ IsFiniteSet(Adding')
    /\ Cardinality(Pending') \in Nat /\ Cardinality(Adding') \in Nat
<1>1. IsFiniteSet(Pending') /\ IsFiniteSet(Adding')
      BY FiniteAssumption, FS_Subset DEF Pending, Adding
<1>2. QED
      BY <1>1, FS_CardinalityType

(* Nothing is added.                                                       *)
LEMMA NothingAdded ==
    ASSUME PendingOrAdding, Pending' \subseteq Pending, Adding' \subseteq Adding
    PROVE  PendingOrAdding'
<1>1. /\ Cardinality(Pending') <= Cardinality(Pending)
      /\ Cardinality(Adding') <= Cardinality(Adding)
      BY CountsAreNumbers, FS_Subset
<1>2. QED
      BY <1>1, CountsAreNumbers, CountsAreNumbersNext DEF PendingOrAdding

(* One that was counted among the adding is counted among the pending.     *)
LEMMA OneAdds ==
    ASSUME TypeOK, PendingOrAdding, NEW c \in Clients, NEW i \in Invitations,
           CommitInvite(c, i), request[c].cancels = {}
    PROVE  PendingOrAdding'
<1>1. Pending' \subseteq Pending \cup {i}
      BY DEF CommitInvite, Pending
<1>2. c \in Adding /\ Adding' \subseteq Adding \ {c}
      BY DEF CommitInvite, Adding, At, Return, GoTo, Idle, TypeOK
<1>3. /\ IsFiniteSet(Pending \cup {i})
      /\ Cardinality(Pending \cup {i}) =
            IF i \in Pending THEN Cardinality(Pending) ELSE Cardinality(Pending) + 1
      BY CountsAreNumbers, FS_AddElement, Zenon
<1>4. Cardinality(Pending \cup {i}) <= Cardinality(Pending) + 1
      BY <1>3, CountsAreNumbers
<1>5. /\ IsFiniteSet(Adding \ {c})
      /\ Cardinality(Adding \ {c}) = Cardinality(Adding) - 1
      BY <1>2, CountsAreNumbers, FS_RemoveElement
<1>6. /\ Cardinality(Pending') <= Cardinality(Pending \cup {i})
      /\ Cardinality(Adding') <= Cardinality(Adding \ {c})
      BY <1>1, <1>2, <1>3, <1>5, FS_Subset
<1>7. Cardinality(Pending \cup {i}) \in Nat /\ Cardinality(Adding \ {c}) \in Nat
      BY <1>3, <1>5, FS_CardinalityType
<1>8. QED
      BY <1>4, <1>5, <1>6, <1>7, CountsAreNumbers, CountsAreNumbersNext
      DEF PendingOrAdding

(* One that cancels pending invitations adds one for them.                 *)
LEMMA OneReplaces ==
    ASSUME TypeOK, PendingOrAdding, NEW c \in Clients, NEW i \in Invitations,
           CommitInvite(c, i), request[c].cancels # {}
    PROVE  PendingOrAdding'
<1>1. PICK j \in Invitations : j \in request[c].cancels /\ j \in Pending
      BY LockedPending DEF CommitInvite, Locked, Pending
<1>2. i # j
      BY <1>1 DEF CommitInvite, Pending
<1>3. Pending' \subseteq (Pending \ {j}) \cup {i}
      BY <1>1, <1>2 DEF CommitInvite, Pending
<1>4. Adding' \subseteq Adding
      BY DEF CommitInvite, Adding, Return, GoTo, Idle, TypeOK
<1>5. /\ IsFiniteSet(Pending \ {j})
      /\ Cardinality(Pending \ {j}) = Cardinality(Pending) - 1
      BY <1>1, CountsAreNumbers, FS_RemoveElement
<1>6. /\ IsFiniteSet((Pending \ {j}) \cup {i})
      /\ Cardinality((Pending \ {j}) \cup {i}) =
            IF i \in Pending \ {j} THEN Cardinality(Pending \ {j})
            ELSE Cardinality(Pending \ {j}) + 1
      BY <1>5, FS_AddElement, Zenon
<1>7. Cardinality((Pending \ {j}) \cup {i}) <= Cardinality(Pending)
      BY <1>5, <1>6, CountsAreNumbers
<1>8. /\ Cardinality(Pending') <= Cardinality((Pending \ {j}) \cup {i})
      /\ Cardinality(Adding') <= Cardinality(Adding)
      BY <1>3, <1>4, <1>6, CountsAreNumbers, FS_Subset
<1>9. Cardinality((Pending \ {j}) \cup {i}) \in Nat
      BY <1>6, FS_CardinalityType
<1>10. QED
       BY <1>7, <1>8, <1>9, CountsAreNumbers, CountsAreNumbersNext DEF PendingOrAdding

(* A rotation finds invitations to cancel, or none are pending.            *)
LEMMA OneRotates ==
    ASSUME TypeOK, PendingOrAdding, NEW c \in Clients, Rotate(c)
    PROVE  PendingOrAdding'
<1>1. Pending' = Pending
      BY DEF Rotate, invitations, Pending
<1>2. CASE Pending = {}
  <2>1. Cardinality(Adding') <= Cardinality(Clients)
        BY FiniteAssumption, FS_Subset DEF Adding
  <2>2. Cardinality(Pending') = 0
        BY <1>1, <1>2, FS_EmptySet
  <2>3. QED
        BY <2>1, <2>2, CountsAreNumbers, CountsAreNumbersNext DEF PendingOrAdding
<1>3. CASE Pending # {}
  <2>1. Adding' \subseteq Adding
        BY <1>3 DEF Rotate, Adding, GoTo, TypeOK
  <2>2. QED
        BY <1>1, <2>1, NothingAdded
<1>4. QED
      BY <1>2, <1>3

(* Every other step leaves the counts or lowers them.                      *)
LEMMA CountStep ==
    ASSUME TypeOK, PendingOrAdding, [Next]_vars
    PROVE  PendingOrAdding'
<1>1. ASSUME NEW c \in Clients, NEW r, GoTo(c, r), r.step # "commitInvite",
             Pending' \subseteq Pending
      PROVE  PendingOrAdding'
  <2>1. Adding' \subseteq Adding
        BY <1>1 DEF GoTo, Adding, TypeOK
  <2>2. QED
        BY <1>1, <2>1, NothingAdded
<1>2. ASSUME NEW c \in Clients, Return(c), Pending' \subseteq Pending
      PROVE  PendingOrAdding'
      BY <1>1, <1>2 DEF Return, Idle
<1>3. ASSUME UNCHANGED request, Pending' \subseteq Pending
      PROVE  PendingOrAdding'
  <2>1. Adding' \subseteq Adding
        BY <1>3 DEF Adding
  <2>2. QED
        BY <1>3, <2>1, NothingAdded
<1>4. UNCHANGED invitation => Pending' \subseteq Pending
      BY DEF Pending
<1>5. ASSUME NEW c \in Clients, NEW r, Begin(c, r), r.step # "commitInvite"
      PROVE  PendingOrAdding'
      BY <1>1, <1>4, <1>5 DEF Begin, invitations
<1>6. ASSUME NEW c \in Clients, Cancel(c)
      PROVE  PendingOrAdding'
  <2>1. Pending' \subseteq Pending
        BY <1>6 DEF Cancel, Pending, TypeOK
  <2>2. QED
        BY <1>2, <1>6, <2>1 DEF Cancel
<1>7. ASSUME NEW c \in Clients, Accept(c)
      PROVE  PendingOrAdding'
  <2>1. Pending' \subseteq Pending
        BY <1>7 DEF Accept, Join, Pending, TypeOK
  <2>2. QED
        BY <1>2, <1>7, <2>1 DEF Accept
<1>8. CASE ExpireInvitations
  <2>1. Pending' \subseteq Pending
        BY <1>8 DEF ExpireInvitations, Pending
  <2>2. QED
        BY <1>3, <1>8, <2>1 DEF ExpireInvitations
<1>9. ASSUME NEW c \in Clients, NEW u \in Users,
             AddMember(c, u) \/ EnrollMember(c, u) \/ RemoveMember(c, u)
      PROVE  PendingOrAdding'
      BY <1>1, <1>4, <1>5, <1>9 DEF AddMember, EnrollMember, RemoveMember, invitations
<1>10. ASSUME NEW c \in Clients, NEW u \in Users, NEW s \in MemberStatuses,
              UpdateMember(c, u, s)
       PROVE  PendingOrAdding'
       BY <1>5, <1>10 DEF UpdateMember
<1>11. ASSUME NEW c \in Clients, InsertMember(c) \/ WriteMember(c) \/ Abort(c)
       PROVE  PendingOrAdding'
       BY <1>2, <1>4, <1>11 DEF InsertMember, WriteMember, Abort, invitations
<1>12. ASSUME NEW c \in Clients, InviteMember(c) \/ FindMember(c)
       PROVE  PendingOrAdding'
       BY <1>1, <1>4, <1>5, <1>12 DEF InviteMember, FindMember, invitations
<1>13. ASSUME NEW c \in Clients, NEW i \in Invitations, CancelInvitation(c, i)
       PROVE  PendingOrAdding'
       BY <1>5, <1>13 DEF CancelInvitation
<1>14. ASSUME NEW c \in Clients, NEW i \in Invitations, NEW u \in Users,
              AcceptInvitation(c, i, u)
       PROVE  PendingOrAdding'
       BY <1>5, <1>14 DEF AcceptInvitation
<1>15. ASSUME NEW i \in Invitations, PassExpiry(i)
       PROVE  PendingOrAdding'
       BY <1>3, <1>4, <1>15 DEF PassExpiry
<1>16. CASE DeleteWorkspace \/ UNCHANGED vars
       BY <1>3, <1>4, <1>16 DEF DeleteWorkspace, invitations, vars
<1>17. QED
       BY <1>6, <1>7, <1>8, <1>9, <1>10, <1>11, <1>12, <1>13, <1>14, <1>15, <1>16,
          OneAdds, OneReplaces, OneRotates, NextCases

(* However requests interleave: no more invitations are pending for one    *)
(* address than requests can be in flight.                                 *)
THEOREM PendingIsBounded == Spec => []PendingBounded
<1>1. Init => PendingOrAdding
  <2> SUFFICES ASSUME Init
               PROVE  PendingOrAdding
      OBVIOUS
  <2>1. Pending = {} /\ Adding = {}
        BY DEF Init, Pending, Adding, Idle
  <2>2. Cardinality(Pending) = 0 /\ Cardinality(Adding) = 0
        BY <2>1, FS_EmptySet
  <2>3. QED
        BY <2>2, CountsAreNumbers DEF PendingOrAdding
<1>2. TypeOK /\ PendingOrAdding /\ [Next]_vars => PendingOrAdding'
      BY CountStep
<1>3. PendingOrAdding => PendingBounded
      BY CountsAreNumbers DEF PendingOrAdding, PendingBounded
<1>4. QED
      BY <1>1, <1>2, <1>3, TypeCorrect, PTL DEF Spec
-----------------------------------------------------------------------------
(* Requests that come one after the other.                                 *)

(* The requests that will set the status of an invitation.                 *)
Redeeming == {"cancel", "findMember", "accept"}

(* While requests come one after the other, none of them has an invitation *)
(* that was accepted in the meantime.                                      *)
OneRequest ==
    /\ \A c, d \in Clients : c # d => request[c] = Idle \/ request[d] = Idle
    /\ \A c \in Clients :
          request[c].step \in Redeeming => invitation[request[c].invitation] # "accepted"
    /\ \A i \in Invitations :
          /\ redeemed[i] # {} <=> invitation[i] = "accepted"
          /\ \A u, v \in redeemed[i] : u = v

Sequential == overlapped \/ OneRequest

(* A request that names an invitation names one that was created.          *)
LEMMA RedeemingNames ==
    ASSUME TypeOK, NEW c \in Clients, request[c].step \in Redeeming
    PROVE  /\ request[c].invitation \in Invitations
           /\ invitation[request[c].invitation] # "absent"
           /\ request[c] # Idle
BY DEF TypeOK, Requests, Created, Idle, Redeeming

(* Every step that leaves requests one after the other keeps them so.      *)
LEMMA SequentialStep ==
    IInv /\ Sequential /\ [MCNext]_<<vars, overlapped>> => Sequential'
<1> SUFFICES ASSUME IInv, Sequential, [MCNext]_<<vars, overlapped>>, ~overlapped'
             PROVE  OneRequest'
    BY DEF Sequential
<1>0. TypeOK /\ [Next]_vars
    BY DEF MCNext, IInv
<1>1. CASE UNCHANGED <<vars, overlapped>>
    BY <1>1 DEF Sequential, OneRequest, vars
<1>2. CASE MCNext
  <2>1. OneRequest /\ Next
      BY <1>2 DEF MCNext, Sequential
  <2>2. \A c, d \in Clients : c # d => request'[c] = Idle \/ request'[d] = Idle
      BY <1>2 DEF MCNext, Overlap
  <2>3. ASSUME UNCHANGED <<invitation, redeemed>>,
               \A c \in Clients : \/ request'[c].step \in Redeeming =>
                                        /\ request[c].step \in Redeeming
                                        /\ request'[c].invitation = request[c].invitation
                                  \/ invitation[request'[c].invitation] = "pending"
        PROVE  OneRequest'
      BY <2>1, <2>2, <2>3 DEF OneRequest
  <2>4. ASSUME NEW c \in Clients, NEW r, GoTo(c, r), UNCHANGED <<invitation, redeemed>>,
               r.step \notin Redeeming \/ invitation[r.invitation] = "pending"
        PROVE  OneRequest'
      BY <1>0, <2>3, <2>4 DEF GoTo, TypeOK
  <2>5. ASSUME NEW c \in Clients, Cancel(c) \/ Accept(c) \/ \E i \in Invitations : CommitInvite(c, i)
        PROVE  /\ request'[c] = Idle /\ Idle.step \notin Redeeming
               /\ \A d \in Clients \ {c} : request'[d] = Idle
    <3>1. request[c] # Idle /\ request' = [request EXCEPT ![c] = Idle]
        BY <2>5 DEF Cancel, Accept, CommitInvite, At, Idle, Return, GoTo
    <3>2. Idle.step \notin Redeeming
        BY DEF Idle, Redeeming
    <3>3. QED
        BY <1>0, <2>1, <3>1, <3>2 DEF OneRequest, TypeOK
  <2>6. ASSUME NEW c \in Clients, Cancel(c) PROVE OneRequest'
    <3>1. /\ At(c, "cancel") /\ redeemed' = redeemed
          /\ invitation' = [invitation EXCEPT ![request[c].invitation] = "cancelled"]
        BY <2>6 DEF Cancel
    <3>2. invitation[request[c].invitation] # "accepted"
        BY <2>1, <3>1 DEF OneRequest, At, Redeeming
    <3>3. \A i \in Invitations : invitation'[i] = "accepted" <=> invitation[i] = "accepted"
        BY <1>0, <3>1, <3>2 DEF TypeOK
    <3>4. QED
        BY <2>1, <2>2, <2>5, <2>6, <3>1, <3>3 DEF OneRequest
  <2>7. ASSUME NEW c \in Clients, Accept(c) PROVE OneRequest'
    <3> DEFINE i == request[c].invitation
               u == request[c].user
    <3>1. At(c, "accept") /\ i \in Invitations /\ invitation[i] # "accepted" /\ redeemed[i] = {}
        BY <1>0, <2>1, <2>7, RedeemingNames DEF Accept, At, OneRequest, Redeeming
    <3>2. CASE UNCHANGED <<invitation, redeemed>>
        BY <2>1, <2>2, <2>5, <2>7, <3>2 DEF OneRequest
    <3>3. CASE Join(c, i, u)
      <4>1. /\ invitation'[i] = "accepted" /\ redeemed'[i] = {u}
            /\ \A j \in Invitations \ {i} : invitation'[j] = invitation[j] /\ redeemed'[j] = redeemed[j]
          BY <1>0, <3>1, <3>3 DEF Join, TypeOK
      <4>2. QED
          BY <2>1, <2>2, <2>5, <2>7, <4>1 DEF OneRequest
    <3>4. QED
        BY <2>7, <3>2, <3>3 DEF Accept
  <2>8. ASSUME NEW c \in Clients, NEW i \in Invitations, CommitInvite(c, i) PROVE OneRequest'
    <3>1. /\ invitation[i] = "absent" /\ redeemed' = redeemed
          /\ \A j \in request[c].cancels : invitation[j] = "pending"
          /\ invitation' = [j \in Invitations |->
                IF j = i THEN "pending"
                ELSE IF j \in request[c].cancels THEN "cancelled" ELSE invitation[j]]
      <4>1. Locked(c) = request[c].cancels
          BY <2>8 DEF CommitInvite, Locked
      <4>2. QED
          BY <1>0, <2>8, <4>1, LockedPending DEF CommitInvite, Pending
    <3>2. \A j \in Invitations : invitation'[j] = "accepted" <=> invitation[j] = "accepted"
        BY <3>1
    <3>3. QED
        BY <2>1, <2>2, <2>5, <2>8, <3>1, <3>2 DEF OneRequest
  <2>9. CASE ExpireInvitations
    <3>1. /\ UNCHANGED <<redeemed, request>>
          /\ \A j \in Invitations : invitation'[j] = "accepted" <=> invitation[j] = "accepted"
        BY <2>9 DEF ExpireInvitations, Pending
    <3>2. QED
        BY <1>0, <2>1, <2>2, <3>1, RedeemingNames DEF OneRequest
  <2>10. ASSUME NEW c \in Clients, FindMember(c) PROVE OneRequest'
    <3>1. /\ At(c, "findMember") /\ UNCHANGED <<invitation, redeemed>>
          /\ request'[c].invitation = request[c].invitation
          /\ \A d \in Clients \ {c} : request'[d] = request[d]
        BY <1>0, <2>10 DEF FindMember, GoTo, invitations, TypeOK
    <3>2. QED
        BY <2>3, <3>1 DEF At, Redeeming
  <2>11. ASSUME NEW c \in Clients, Abort(c) \/ InsertMember(c) \/ WriteMember(c) \/ Rotate(c)
         PROVE  OneRequest'
    <3>1. PICK r : GoTo(c, r) /\ r.step \notin Redeeming /\ UNCHANGED <<invitation, redeemed>>
        BY <2>11 DEF Abort, InsertMember, WriteMember, Rotate, Return, invitations, Idle, Redeeming
    <3>2. QED
        BY <2>4, <3>1
  <2>12. ASSUME NEW c \in Clients, NEW u \in Users,
                AddMember(c, u) \/ EnrollMember(c, u) \/ RemoveMember(c, u)
                \/ \E s \in MemberStatuses : UpdateMember(c, u, s)
         PROVE  OneRequest'
    <3>1. PICK r : GoTo(c, r) /\ r.step \notin Redeeming /\ UNCHANGED <<invitation, redeemed>>
        BY <2>12 DEF AddMember, EnrollMember, RemoveMember, UpdateMember, Begin, invitations, Redeeming
    <3>2. QED
        BY <2>4, <3>1
  <2>13. ASSUME NEW c \in Clients, InviteMember(c) PROVE OneRequest'
    <3>1. PICK r : GoTo(c, r) /\ r.step \notin Redeeming /\ UNCHANGED <<invitation, redeemed>>
        BY <2>13 DEF InviteMember, Begin, invitations, Redeeming
    <3>2. QED
        BY <2>4, <3>1
  <2>14. ASSUME NEW c \in Clients, NEW i \in Invitations,
                CancelInvitation(c, i) \/ \E u \in Users : AcceptInvitation(c, i, u)
         PROVE  OneRequest'
    <3>1. PICK r : GoTo(c, r) /\ r.invitation = i /\ UNCHANGED <<invitation, redeemed>>
        BY <2>14 DEF CancelInvitation, AcceptInvitation, Begin, invitations
    <3>2. invitation[i] = "pending"
        BY <2>14 DEF CancelInvitation, AcceptInvitation
    <3>3. QED
        BY <2>4, <3>1, <3>2
  <2>15. CASE DeleteWorkspace \/ \E i \in Invitations : PassExpiry(i)
    <3>1. UNCHANGED <<invitation, redeemed, request>>
        BY <2>15 DEF DeleteWorkspace, PassExpiry, invitations
    <3>2. QED
        BY <2>3, <3>1
  <2>16. CASE UNCHANGED vars
      BY <2>3, <2>16 DEF vars
  <2>17. QED
      BY <1>0, <2>6, <2>7, <2>8, <2>9, <2>10, <2>11, <2>12, <2>13, <2>14, <2>15, <2>16, NextCases
<1>3. QED
    BY <1>1, <1>2

(* "Invitation has already been used or cancelled": one user redeems an    *)
(* invitation, and it says so from then on, as long as no two requests are *)
(* in flight at once; wherever they fail, and whenever the cleanup runs.   *)
THEOREM RedeemedOneAtATime == MCSpec => []SequentialRedeem
<1>1. MCInit => Sequential
    BY DEF MCInit, Init, Sequential, OneRequest, Idle, Redeeming
<1>2. TypeOK /\ Sequential => SequentialRedeem
  <2>1. SUFFICES ASSUME TypeOK, OneRequest, NEW i \in Invitations
                 PROVE  /\ Cardinality(redeemed[i]) <= 1
                        /\ redeemed[i] # {} <=> invitation[i] = "accepted"
      BY DEF Sequential, SequentialRedeem
  <2>2. redeemed[i] = {} \/ \E u : redeemed[i] = {u}
      BY <2>1 DEF OneRequest
  <2>3. Cardinality(redeemed[i]) <= 1
    <3>1. CASE redeemed[i] = {}
        BY <3>1, FS_EmptySet
    <3>2. ASSUME NEW u, redeemed[i] = {u} PROVE Cardinality(redeemed[i]) = 1
      <4>1. Cardinality({u}) = 1
          BY FS_Singleton
      <4>2. QED
          BY <3>2, <4>1
    <3>3. QED
        BY <2>2, <3>1, <3>2
  <2>4. QED
      BY <2>1, <2>3 DEF OneRequest
<1>3. MCSpec => Spec
  <2>1. MCInit => Init
      BY DEF MCInit
  <2>2. [MCNext]_<<vars, overlapped>> => [Next]_vars
      BY DEF MCNext
  <2>3. QED
      BY <2>1, <2>2, PTL DEF MCSpec, Spec
<1>4. IInv => TypeOK
    BY DEF IInv
<1>5. QED
    BY <1>1, <1>2, <1>3, <1>4, IInvHolds, SequentialStep, PTL DEF MCSpec

-----------------------------------------------------------------------------
(* AuthSessions: what holds while one device is at work, for any number of *)
(* sessions, reset tokens and passwords.                                   *)

OneDevice == \A c, d \in Devices : c = d

(* A request is for a session that was created, and a family led by one.   *)
RequestedExist ==
    \A c \in Devices :
        authRequest[c].step \in {"revokeFamily", "rotate", "logout", "logoutAll", "switch"} =>
            state[authRequest[c].session] # "absent"
FamiliesAreLed == \A s \in SessionIds : family[s] # s => state[family[s]] # "absent"

(* What is about to be rotated is still live, and who is about to log in   *)
(* has shown a password of after the last reset: nobody else is at work.   *)
RotatedAreLive ==
    \A c \in Devices : authRequest[c].step = "rotate" => state[authRequest[c].session] = "live"
LoginsAreCurrent ==
    \A c \in Devices : authRequest[c].step = "login" => authRequest[c].from.password >= lastReset

OneLive ==
    \A s, r \in SessionIds : state[s] = "live" /\ state[r] = "live" /\ family[s] = family[r] => s = r

AuthInv ==
    /\ SessionsTypeOK
    /\ RequestedExist
    /\ FamiliesAreLed
    /\ RotatedAreLive
    /\ LoginsAreCurrent
    /\ OneLive
    /\ DetectedFamiliesStayDead
    /\ ResetEndsLogins

(* Steps by which no row comes about.                                      *)
NoNewSession ==
    /\ UNCHANGED <<family, long, sso, authMethod, origin>>
    /\ \A s \in SessionIds :
          /\ state'[s] = "absent" <=> state[s] = "absent"
          /\ state'[s] = "live" => state[s] = "live"
          /\ state[s] \in {"absent", "purged"} => state'[s] = state[s]

(* Row n comes about in family f, with what it goes back to; in the same   *)
(* transaction the rows in S are revoked.                                  *)
NewSession(n, f, from, S) ==
    /\ state[n] = "absent" /\ state'[n] = "live"
    /\ family'[n] = f /\ origin'[n] = from
    /\ \A s \in SessionIds \ {n} :
          /\ family'[s] = family[s] /\ origin'[s] = origin[s]
          /\ state'[s] = "absent" <=> state[s] = "absent"
          /\ state'[s] = "live" => state[s] = "live" /\ s \notin S

(* Steps of a device that only read.                                       *)
AuthReads(c) ==
    \/ \E method \in {"password", "sso"}, r \in BOOLEAN : Auth!Verify(c, method, r)
    \/ \E s \in SessionIds : Auth!FindSession(c, s)
    \/ \E s \in SessionIds, op \in {"logout", "logoutAll", "switch"} : Auth!UseAccessToken(c, s, op)
    \/ Auth!VerifyCurrent(c)
    \/ \E t \in ResetTokens : Auth!FindToken(c, t)
    \/ Auth!Abort(c)

(* The fields a request carries at each of its steps.                      *)
LEMMA AuthRequestShape ==
    ASSUME NEW r \in Auth!Requests
    PROVE  /\ r.step \in {"idle", "changePassword", "login", "revokeFamily", "rotate",
                          "logout", "logoutAll", "switch", "reset"}
           /\ r = Auth!Idle <=> r.step = "idle"
           /\ r.step = "login" => r.from \in Auth!Origins
           /\ r.step \in {"revokeFamily", "rotate", "logout", "logoutAll", "switch"} =>
                 r.session \in SessionIds
           /\ r.step \in {"logout", "logoutAll", "switch"} => r.todo \in (SUBSET {"deny", "write"}) \ {{}}
           /\ r.step \in {"logout", "logoutAll", "switch"} => 
                 r = [step |-> r.step, session |-> r.session, todo |-> r.todo]
           /\ r.step = "reset" => r.token \in ResetTokens
BY DEF Auth!Requests, Auth!Idle

(* Done leaves the request with what it was about, or ends it.             *)
LEMMA AuthDone ==
    ASSUME SessionsTypeOK, NEW c \in Devices, NEW promise, Auth!Access(c), Auth!Done(c, promise)
    PROVE  /\ authRequest' \in [Devices -> Auth!Requests]
           /\ \A d \in Devices \ {c} : authRequest'[d] = authRequest[d]
           /\ \/ authRequest'[c] = Auth!Idle
              \/ /\ authRequest'[c].step = authRequest[c].step
                 /\ authRequest'[c].session = authRequest[c].session
<1> DEFINE r == authRequest[c]
<1>1. authRequest \in [Devices -> Auth!Requests]
    BY DEF SessionsTypeOK, Auth!TypeOK
<1>2. /\ r \in Auth!Requests /\ promise \in r.todo
      /\ r.step \in {"logout", "logoutAll", "switch"}
      /\ r.session \in SessionIds
      /\ r.todo \in (SUBSET {"deny", "write"}) \ {{}}
      /\ r = [step |-> r.step, session |-> r.session, todo |-> r.todo]
    BY <1>1, AuthRequestShape DEF Auth!Access, Auth!Done
<1>3. CASE r.todo \ {promise} = {}
  <2>1. authRequest' = [authRequest EXCEPT ![c] = Auth!Idle]
      BY <1>3, <1>1 DEF Auth!Done
  <2>2. Auth!Idle \in Auth!Requests
      BY DEF Auth!Requests
  <2>3. QED
      BY <2>1, <2>2, <1>1
<1>4. CASE r.todo \ {promise} # {}
  <2>1. authRequest' = [authRequest EXCEPT ![c] = [r EXCEPT !.todo = r.todo \ {promise}]]
      BY <1>4, <1>1 DEF Auth!Done
  <2>2. [r EXCEPT !.todo = r.todo \ {promise}] = [step |-> r.step, session |-> r.session, todo |-> r.todo \ {promise}]
      BY <1>2
  <2>3. r.todo \ {promise} \in (SUBSET {"deny", "write"}) \ {{}}
      BY <1>2, <1>4
  <2>4. [step |-> r.step, session |-> r.session, todo |-> r.todo \ {promise}] \in Auth!Requests
      BY <1>2, <2>3 DEF Auth!Requests
  <2>5. QED
      BY <2>1, <2>2, <2>4, <1>1
<1>5. QED
    BY <1>3, <1>4

(* The types of the rows.                                                  *)
SessionTables ==
    /\ state \in [SessionIds -> {"absent", "live", "revoked", "purged"}]
    /\ family \in [SessionIds -> SessionIds]
    /\ \A s \in SessionIds : family[family[s]] = family[s]
    /\ expired \subseteq SessionIds
    /\ long \subseteq SessionIds /\ sso \subseteq SessionIds
    /\ authMethod \in [SessionIds -> Auth!Methods]
    /\ origin \in [SessionIds -> Auth!Origins]
    /\ \A s \in SessionIds : state[s] = "absent" => s \notin expired \cup long \cup sso

(* An insert keeps the types of the rows and adds one live session, in     *)
(* its own family or in one that exists.                                   *)
LEMMA AuthCreate ==
    ASSUME SessionTables, FamiliesAreLed, NEW n \in SessionIds, NEW f \in SessionIds,
           NEW from \in Auth!Origins, NEW isLong \in BOOLEAN, NEW isSso \in BOOLEAN,
           NEW method \in Auth!Methods, NEW S \in SUBSET SessionIds,
           Auth!Create(n, f, from, isLong, isSso, method), Auth!RevokeAndInsert(S, n),
           f = n \/ (state[f] # "absent" /\ family[f] = f)
    PROVE  SessionTables' /\ FamiliesAreLed' /\ NewSession(n, f, from, S)
<1>1. /\ state[n] = "absent" /\ expired' = expired
      /\ family' = [family EXCEPT ![n] = f] /\ origin' = [origin EXCEPT ![n] = from]
      /\ authMethod' = [authMethod EXCEPT ![n] = method]
      /\ long' \in SUBSET (long \cup {n}) /\ sso' \in SUBSET (sso \cup {n})
    BY DEF Auth!Create
<1>2. state' = [s \in SessionIds |->
          IF s = n THEN "live" ELSE IF s \in S /\ Auth!Exists(s) THEN "revoked" ELSE state[s]]
    BY DEF Auth!RevokeAndInsert
<1>3. NewSession(n, f, from, S)
    BY <1>1, <1>2 DEF SessionTables, NewSession, Auth!Exists
<1>4. \A s \in SessionIds \ {n} : family[s] # n
    BY <1>1 DEF SessionTables, FamiliesAreLed
<1>5. \A s \in SessionIds : family'[family'[s]] = family'[s]
    BY <1>1, <1>4 DEF SessionTables
<1>6. FamiliesAreLed'
    BY <1>1, <1>3, <1>4 DEF SessionTables, FamiliesAreLed, NewSession
<1>7. state' \in [SessionIds -> {"absent", "live", "revoked", "purged"}]
    BY <1>2 DEF SessionTables
<1>8. SessionTables'
  <2>1. /\ family' \in [SessionIds -> SessionIds]
        /\ authMethod' \in [SessionIds -> Auth!Methods]
        /\ origin' \in [SessionIds -> Auth!Origins]
        /\ expired' \subseteq SessionIds /\ long' \subseteq SessionIds /\ sso' \subseteq SessionIds
      BY <1>1 DEF SessionTables
  <2>2. ASSUME NEW s \in SessionIds, state'[s] = "absent"
        PROVE  s \notin expired' \cup long' \cup sso'
    <3>1. s # n /\ state[s] = "absent"
        BY <1>3, <2>2 DEF NewSession
    <3>2. QED
        BY <1>1, <3>1 DEF SessionTables
  <2>3. QED
      BY <1>5, <1>7, <2>1, <2>2 DEF SessionTables
<1>9. QED
    BY <1>3, <1>6, <1>8

(* A revocation adds no session and ends the ones it names.                *)
LEMMA AuthRevoke ==
    ASSUME SessionTables, NEW S \in SUBSET SessionIds, Auth!Revoke(S),
           UNCHANGED <<expired, family, long, sso, authMethod, origin>>
    PROVE  /\ SessionTables' /\ NoNewSession
           /\ \A s \in S : state'[s] # "live"
<1>1. state' = [s \in SessionIds |-> IF s \in S /\ Auth!Exists(s) THEN "revoked" ELSE state[s]]
    BY DEF Auth!Revoke
<1>2. NoNewSession /\ \A s \in S : state'[s] # "live"
    BY <1>1 DEF SessionTables, NoNewSession, Auth!Exists
<1>3. state' \in [SessionIds -> {"absent", "live", "revoked", "purged"}]
    BY <1>1 DEF SessionTables
<1>4. SessionTables'
    BY <1>2, <1>3 DEF SessionTables, NoNewSession
<1>5. QED
    BY <1>2, <1>4

(* The types of the module, part by part.                                  *)
LEMMA AuthTypes ==
    SessionsTypeOK <=>
        /\ SessionTables
        /\ denied \subseteq SessionIds /\ burnt \subseteq SessionIds
        /\ password \in 0..MaxPasswords /\ lastReset \in 0..password
        /\ resetToken \in [ResetTokens -> {"absent", "issued", "used", "expired"}]
        /\ uses \in [ResetTokens -> Nat]
        /\ authRequest \in [Devices -> Auth!Requests]
        /\ \A s \in SessionIds : state[s] = "absent" => s \notin denied \cup burnt
BY DEF SessionsTypeOK, Auth!TypeOK, SessionTables

(* What a read of a request leaves: the rows stay, and the request         *)
(* carries a session that exists, or the current password.                 *)
LEMMA AuthReadStep ==
    ASSUME SessionsTypeOK, NEW c \in Devices, AuthReads(c)
    PROVE  /\ UNCHANGED <<Auth!rowVars, denied, Auth!passwordVars, origin, burnt>>
           /\ authRequest' \in [Devices -> Auth!Requests]
           /\ \A d \in Devices \ {c} : authRequest'[d] = authRequest[d]
           /\ \/ authRequest'[c] = Auth!Idle
              \/ authRequest'[c].step \in {"changePassword", "reset"}
              \/ authRequest'[c].step = "login" /\ authRequest'[c].from.password = password
              \/ /\ authRequest'[c].step \in {"revokeFamily", "rotate", "logout", "logoutAll", "switch"}
                 /\ state[authRequest'[c].session] # "absent"
                 /\ authRequest'[c].step = "rotate" => state[authRequest'[c].session] = "live"
<1>0. authRequest \in [Devices -> Auth!Requests] /\ password \in 0..MaxPasswords
    BY AuthTypes
<1>1. CASE \E method \in {"password", "sso"}, r \in BOOLEAN : Auth!Verify(c, method, r)
  <2>1. PICK method \in {"password", "sso"}, r \in BOOLEAN : Auth!Verify(c, method, r)
      BY <1>1
  <2> DEFINE from == [password |-> password, method |-> method, remembered |-> r, switched |-> FALSE]
             q == [step |-> "login", from |-> from]
  <2>2. from \in Auth!Origins
      BY <1>0 DEF Auth!Origins, Auth!Methods
  <2>3. q \in Auth!Requests
      BY <2>2 DEF Auth!Requests
  <2>4. authRequest' = [authRequest EXCEPT ![c] = q]
        /\ UNCHANGED <<Auth!rowVars, denied, Auth!passwordVars, origin, burnt>>
      BY <2>1 DEF Auth!Verify, Auth!Begin
  <2>5. QED
      BY <1>0, <2>3, <2>4
<1>2. CASE \E s \in SessionIds : Auth!FindSession(c, s)
    BY <1>0, <1>2 DEF Auth!FindSession, Auth!Begin, Auth!Usable, Auth!Requests
<1>3. CASE \E s \in SessionIds, op \in {"logout", "logoutAll", "switch"} : Auth!UseAccessToken(c, s, op)
  <2>1. PICK s \in SessionIds, op \in {"logout", "logoutAll", "switch"} : Auth!UseAccessToken(c, s, op)
      BY <1>3
  <2> DEFINE q == [step |-> op, session |-> s, todo |-> {"deny", "write"}]
  <2>2. q \in Auth!Requests
    <3>1. {"deny", "write"} \in (SUBSET {"deny", "write"}) \ {{}}
        OBVIOUS
    <3>2. QED
        BY <3>1 DEF Auth!Requests
  <2>3. /\ authRequest' = [authRequest EXCEPT ![c] = q] /\ state[s] # "absent"
        /\ UNCHANGED <<Auth!rowVars, denied, Auth!passwordVars, origin, burnt>>
      BY <2>1 DEF Auth!UseAccessToken, Auth!Begin, Auth!Exists
  <2>4. QED
      BY <1>0, <2>2, <2>3 DEF Auth!rowVars
<1>4. CASE Auth!VerifyCurrent(c)
    BY <1>0, <1>4 DEF Auth!VerifyCurrent, Auth!Begin, Auth!Requests
<1>5. CASE \E t \in ResetTokens : Auth!FindToken(c, t)
    BY <1>0, <1>5 DEF Auth!FindToken, Auth!Begin, Auth!Requests
<1>6. CASE Auth!Abort(c)
    BY <1>0, <1>6 DEF Auth!Abort, Auth!Return, Auth!Requests
<1>7. QED
    BY <1>1, <1>2, <1>3, <1>4, <1>5, <1>6 DEF AuthReads

AuthWrites(c) ==
    \/ \E n \in SessionIds : Auth!Login(c, n) \/ Auth!Rotate(c, n) \/ Auth!SwitchTenant(c, n)
    \/ Auth!RevokeFamily(c) \/ Auth!Deny(c) \/ Auth!Logout(c)
    \/ Auth!ChangePassword(c) \/ Auth!ResetPassword(c)

AuthTime ==
    \/ \E t \in ResetTokens : Auth!ForgotPassword(t) \/ Auth!ExpireToken(t)
    \/ \E s \in SessionIds : Auth!Expire(s) \/ Auth!Purge(s)

(* A step reads, writes, or lets time pass.                                *)
LEMMA AuthCases == Auth!Next => (\E c \in Devices : AuthReads(c) \/ AuthWrites(c)) \/ AuthTime
BY DEF Auth!Next, Auth!Start, Auth!Continue, AuthReads, AuthWrites, AuthTime

(* What a write leaves of the request: it ends, or it still owes its       *)
(* other promise.                                                          *)
LEMMA AuthWriteStep ==
    ASSUME SessionsTypeOK, NEW c \in Devices, AuthWrites(c)
    PROVE  /\ authRequest' \in [Devices -> Auth!Requests]
           /\ \A d \in Devices \ {c} : authRequest'[d] = authRequest[d]
           /\ \/ authRequest'[c] = Auth!Idle
              \/ /\ authRequest[c].step \in {"logout", "logoutAll", "switch"}
                 /\ authRequest'[c].step = authRequest[c].step
                 /\ authRequest'[c].session = authRequest[c].session
<1>0. authRequest \in [Devices -> Auth!Requests] /\ Auth!Idle \in Auth!Requests
    BY AuthTypes DEF Auth!Requests
<1>1. CASE Auth!Return(c)
    BY <1>0, <1>1 DEF Auth!Return
<1>2. CASE Auth!Access(c) /\ \E promise \in {"deny", "write"} : Auth!Done(c, promise)
    BY <1>2, AuthDone DEF Auth!Access
<1>3. (\E n \in SessionIds : Auth!SwitchTenant(c, n)) \/ Auth!Deny(c) \/ Auth!Logout(c) =>
          Auth!Access(c) /\ \E promise \in {"deny", "write"} : Auth!Done(c, promise)
    BY DEF Auth!SwitchTenant, Auth!Deny, Auth!Logout, Auth!Access, Auth!At
<1>4. (\E n \in SessionIds : Auth!Login(c, n) \/ Auth!Rotate(c, n))
      \/ Auth!RevokeFamily(c) \/ Auth!ChangePassword(c) \/ Auth!ResetPassword(c) => Auth!Return(c)
    BY DEF Auth!Login, Auth!Rotate, Auth!RevokeFamily, Auth!ChangePassword, Auth!ResetPassword
<1>5. QED
    BY <1>1, <1>2, <1>3, <1>4 DEF AuthWrites

(* What steps do to the rows of sessions, and the passwords and reuse they *)
(* are measured by.                                                        *)
AuthRows ==
    \/ NoNewSession /\ UNCHANGED <<burnt, lastReset>>
    \/ \E s \in SessionIds :
          /\ NoNewSession /\ lastReset' = lastReset
          /\ state[s] # "absent" /\ burnt' = burnt \cup {family[s]}
          /\ \A r \in SessionIds : family[r] = family[s] => state'[r] # "live"
    \/ NoNewSession /\ burnt' = burnt /\ \A s \in SessionIds : state'[s] # "live"
    \/ /\ UNCHANGED <<burnt, lastReset>>
       /\ \E c \in Devices, n \in SessionIds :
             \/ /\ authRequest[c].step = "login"
                /\ NewSession(n, n, authRequest[c].from, {})
             \/ \E s \in SessionIds :
                   /\ authRequest[c].session = s /\ state[s] # "absent"
                   /\ \/ authRequest[c].step = "rotate" /\ NewSession(n, family[s], origin[s], {s})
                      \/ NewSession(n, n, [origin[s] EXCEPT !.switched = TRUE], {s})

(* Where a session goes back to is marked when it is handed on to another  *)
(* tenant, and is an origin still.                                         *)
LEMMA SwitchedOrigin ==
    ASSUME NEW from \in Auth!Origins
    PROVE  [from EXCEPT !.switched = TRUE] \in Auth!Origins
BY DEF Auth!Origins

(* What a step does to the rows of sessions.                               *)
LEMMA AuthRowsStep ==
    ASSUME SessionsTypeOK, RequestedExist, FamiliesAreLed, Auth!Next
    PROVE  SessionTables' /\ FamiliesAreLed' /\ AuthRows
<1> DEFINE Same == UNCHANGED <<state, family, long, sso, authMethod, origin>>
<1>0. SessionTables /\ authRequest \in [Devices -> Auth!Requests]
    BY AuthTypes
<1>1. ASSUME Same, expired' \subseteq SessionIds, UNCHANGED <<burnt, lastReset>>,
             \A s \in SessionIds : s \in expired' => s \in expired \/ state[s] # "absent"
      PROVE  SessionTables' /\ FamiliesAreLed' /\ AuthRows
    BY <1>0, <1>1 DEF SessionTables, FamiliesAreLed, AuthRows, NoNewSession
<1>2. ASSUME NEW c \in Devices, AuthReads(c) PROVE SessionTables' /\ FamiliesAreLed' /\ AuthRows
  <2>1. Same /\ UNCHANGED <<expired, burnt, lastReset>>
      BY <1>2, AuthReadStep DEF Auth!rowVars, Auth!passwordVars
  <2>2. QED
      BY <1>0, <1>1, <2>1 DEF SessionTables
<1>3. ASSUME NEW c \in Devices, Auth!Deny(c) \/ Auth!ChangePassword(c)
      PROVE  SessionTables' /\ FamiliesAreLed' /\ AuthRows
  <2>1. Same /\ UNCHANGED <<expired, burnt, lastReset>>
      BY <1>3 DEF Auth!Deny, Auth!ChangePassword, Auth!rowVars, Auth!passwordVars
  <2>2. QED
      BY <1>0, <1>1, <2>1 DEF SessionTables
<1>4. ASSUME \E t \in ResetTokens : Auth!ForgotPassword(t) \/ Auth!ExpireToken(t)
      PROVE  SessionTables' /\ FamiliesAreLed' /\ AuthRows
  <2>1. Same /\ UNCHANGED <<expired, burnt, lastReset>>
      BY <1>4 DEF Auth!ForgotPassword, Auth!ExpireToken, Auth!rowVars
  <2>2. QED
      BY <1>0, <1>1, <2>1 DEF SessionTables
<1>5. ASSUME NEW s \in SessionIds, Auth!Expire(s) PROVE SessionTables' /\ FamiliesAreLed' /\ AuthRows
  <2>1. /\ Same /\ UNCHANGED <<burnt, lastReset>>
        /\ expired' = expired \cup {s} /\ state[s] # "absent"
      BY <1>5 DEF Auth!Expire, Auth!Exists, Auth!passwordVars
  <2>2. QED
      BY <1>0, <1>1, <2>1 DEF SessionTables
<1>6. ASSUME NEW s \in SessionIds, Auth!Purge(s) PROVE SessionTables' /\ FamiliesAreLed' /\ AuthRows
  <2>1. /\ state[s] = "revoked" /\ state' = [state EXCEPT ![s] = "purged"]
        /\ UNCHANGED <<expired, family, long, sso, authMethod, origin, burnt, lastReset>>
      BY <1>6 DEF Auth!Purge, Auth!passwordVars
  <2>2. NoNewSession
      BY <1>0, <2>1 DEF NoNewSession, SessionTables
  <2>3. SessionTables' /\ FamiliesAreLed'
      BY <1>0, <2>1, <2>2 DEF NoNewSession, SessionTables, FamiliesAreLed
  <2>4. QED
      BY <2>1, <2>2, <2>3 DEF AuthRows
<1>7. ASSUME NEW c \in Devices, Auth!Logout(c) PROVE SessionTables' /\ FamiliesAreLed' /\ AuthRows
  <2>1. /\ authRequest[c].step \in {"logout", "logoutAll"}
        /\ \E S \in {{authRequest[c].session}, SessionIds} : Auth!Revoke(S)
        /\ UNCHANGED <<expired, family, long, sso, authMethod, origin, burnt, lastReset>>
      BY <1>7 DEF Auth!Logout, Auth!At, Auth!passwordVars
  <2>2. authRequest[c].session \in SessionIds
      BY <1>0, <2>1, AuthRequestShape
  <2>3. SessionTables' /\ NoNewSession
      BY <1>0, <2>1, <2>2, AuthRevoke
  <2>4. QED
      BY <2>1, <2>3, <1>0 DEF FamiliesAreLed, NoNewSession, AuthRows, SessionTables
<1>8. ASSUME NEW c \in Devices, Auth!RevokeFamily(c) PROVE SessionTables' /\ FamiliesAreLed' /\ AuthRows
  <2> DEFINE s == authRequest[c].session
             S == {r \in SessionIds : family[r] = family[s]}
  <2>1. /\ authRequest[c].step = "revokeFamily" /\ Auth!Revoke(S) /\ burnt' = burnt \cup {family[s]}
        /\ UNCHANGED <<expired, family, long, sso, authMethod, origin, lastReset>>
      BY <1>8 DEF Auth!RevokeFamily, Auth!At, Auth!passwordVars
  <2>2. s \in SessionIds /\ state[s] # "absent"
      BY <1>0, <2>1, AuthRequestShape DEF RequestedExist
  <2>3. SessionTables' /\ NoNewSession /\ \A r \in S : state'[r] # "live"
    <3> HIDE DEF S
    <3>1. S \in SUBSET SessionIds
        BY DEF S
    <3>2. QED
        BY <1>0, <2>1, <3>1, AuthRevoke
  <2>4. FamiliesAreLed'
      BY <2>3, <1>0 DEF FamiliesAreLed, NoNewSession, SessionTables
  <2>5. QED
      BY <2>1, <2>2, <2>3, <2>4 DEF AuthRows
<1>9. ASSUME NEW c \in Devices, Auth!ResetPassword(c) PROVE SessionTables' /\ FamiliesAreLed' /\ AuthRows
  <2>1. Auth!Revoke(SessionIds) /\ UNCHANGED <<expired, family, long, sso, authMethod, origin, burnt>>
      BY <1>9 DEF Auth!ResetPassword
  <2>2. SessionTables' /\ NoNewSession /\ \A r \in SessionIds : state'[r] # "live"
      BY <1>0, <2>1, AuthRevoke
  <2>3. QED
      BY <2>1, <2>2, <1>0 DEF FamiliesAreLed, NoNewSession, AuthRows, SessionTables
<1>10. ASSUME NEW c \in Devices, NEW n \in SessionIds, Auth!Login(c, n)
       PROVE  SessionTables' /\ FamiliesAreLed' /\ AuthRows
  <2> DEFINE from == authRequest[c].from
  <2>1. /\ authRequest[c].step = "login"
        /\ Auth!Create(n, n, from, from.remembered, from.method = "sso", from.method)
        /\ Auth!RevokeAndInsert({}, n) /\ UNCHANGED <<burnt, lastReset>>
      BY <1>10 DEF Auth!Login, Auth!At, Auth!passwordVars
  <2>2. from \in Auth!Origins
      BY <1>0, <2>1, AuthRequestShape
  <2>3. from.remembered \in BOOLEAN /\ (from.method = "sso") \in BOOLEAN /\ from.method \in Auth!Methods
      BY <2>2 DEF Auth!Origins
  <2> HIDE DEF from
  <2>4. SessionTables' /\ FamiliesAreLed' /\ NewSession(n, n, from, {})
      BY <1>0, <2>1, <2>2, <2>3, AuthCreate
  <2>5. QED
      BY <2>1, <2>4 DEF AuthRows, from
<1>11. ASSUME NEW c \in Devices, NEW n \in SessionIds, Auth!Rotate(c, n)
       PROVE  SessionTables' /\ FamiliesAreLed' /\ AuthRows
  <2> DEFINE s == authRequest[c].session
             method == IF s \in sso THEN "sso" ELSE "password"
  <2>1. /\ authRequest[c].step = "rotate"
        /\ Auth!Create(n, family[s], origin[s], TRUE, s \in sso, method)
        /\ Auth!RevokeAndInsert({s}, n) /\ UNCHANGED <<burnt, lastReset>>
      BY <1>11 DEF Auth!Rotate, Auth!At, Auth!passwordVars
  <2>2. s \in SessionIds /\ state[s] # "absent"
      BY <1>0, <2>1, AuthRequestShape DEF RequestedExist
  <2>3. /\ family[s] \in SessionIds /\ family[family[s]] = family[s] /\ origin[s] \in Auth!Origins
        /\ state[family[s]] # "absent" /\ method \in Auth!Methods /\ (s \in sso) \in BOOLEAN
      BY <1>0, <2>2 DEF SessionTables, FamiliesAreLed, Auth!Methods
  <2> HIDE DEF s, method
  <2>4. SessionTables' /\ FamiliesAreLed' /\ NewSession(n, family[s], origin[s], {s})
      BY <1>0, <2>1, <2>2, <2>3, AuthCreate
  <2>5. QED
      BY <2>1, <2>2, <2>4 DEF AuthRows, s
<1>12. ASSUME NEW c \in Devices, NEW n \in SessionIds, Auth!SwitchTenant(c, n)
       PROVE  SessionTables' /\ FamiliesAreLed' /\ AuthRows
  <2> DEFINE s == authRequest[c].session
             from == [origin[s] EXCEPT !.switched = TRUE]
  <2>1. /\ authRequest[c].step = "switch"
        /\ Auth!Create(n, n, from, TRUE, FALSE, authMethod[s])
        /\ Auth!RevokeAndInsert({s}, n) /\ UNCHANGED <<burnt, lastReset>>
      BY <1>12 DEF Auth!SwitchTenant, Auth!At, Auth!passwordVars
  <2>2. s \in SessionIds /\ state[s] # "absent"
      BY <1>0, <2>1, AuthRequestShape DEF RequestedExist
  <2>3. from \in Auth!Origins /\ authMethod[s] \in Auth!Methods
    <3> HIDE DEF s
    <3>1. origin[s] \in Auth!Origins /\ authMethod[s] \in Auth!Methods
        BY <1>0, <2>2 DEF SessionTables
    <3>2. QED
        BY <3>1, SwitchedOrigin
  <2>4. SessionTables' /\ FamiliesAreLed' /\ NewSession(n, n, from, {s})
    <3> HIDE DEF s, from
    <3>1. QED
        BY <1>0, <2>1, <2>2, <2>3, AuthCreate
  <2>5. QED
      BY <2>1, <2>2, <2>4 DEF AuthRows
<1>13. QED
    BY <1>2, <1>3, <1>4, <1>5, <1>6, <1>7, <1>8, <1>9, <1>10, <1>11, <1>12, AuthCases
       DEF AuthWrites, AuthTime

(* Every step keeps the types of the module.                               *)
LEMMA AuthTypeStep ==
    ASSUME SessionsTypeOK, RequestedExist, FamiliesAreLed, Auth!Next
    PROVE  SessionsTypeOK'
<1> USE AuthAssumption DEF Auth!BoundsAssumption
<1>1. SessionTables' /\ AuthRows
    BY AuthRowsStep
<1>2. authRequest' \in [Devices -> Auth!Requests]
  <2>1. AuthTime => authRequest' = authRequest
      BY DEF AuthTime, Auth!ForgotPassword, Auth!ExpireToken, Auth!Expire, Auth!Purge
  <2>2. QED
      BY <2>1, AuthCases, AuthReadStep, AuthWriteStep, AuthTypes
<1>3. burnt' \subseteq SessionIds /\ \A s \in SessionIds : state'[s] = "absent" => s \notin burnt'
  <2>1. \A s \in SessionIds : state'[s] = "absent" => state[s] = "absent"
      BY <1>1 DEF AuthRows, NoNewSession, NewSession
  <2>2. UNCHANGED burnt \/ \E s \in SessionIds : state[s] # "absent" /\ burnt' = burnt \cup {family[s]}
      BY <1>1 DEF AuthRows
  <2>3. \A s \in SessionIds : state[s] # "absent" => family[s] \in SessionIds /\ state[family[s]] # "absent"
      BY AuthTypes DEF SessionTables, FamiliesAreLed
  <2>4. QED
      BY <2>1, <2>2, <2>3, AuthTypes
<1>4. denied' \subseteq SessionIds /\ \A s \in SessionIds : state'[s] = "absent" => s \notin denied'
  <2>1. \A s \in SessionIds : state'[s] = "absent" => state[s] = "absent"
      BY <1>1 DEF AuthRows, NoNewSession, NewSession
  <2>2. ASSUME NEW c \in Devices, Auth!Deny(c) PROVE \E s \in SessionIds : state[s] # "absent" /\ denied' = denied \cup {s}
      BY <2>2, AuthTypes, AuthRequestShape DEF Auth!Deny, Auth!Access, RequestedExist
  <2>3. \/ UNCHANGED denied
        \/ \E c \in Devices : Auth!Deny(c)
    <3>1. AuthTime => UNCHANGED denied
        BY DEF AuthTime, Auth!ForgotPassword, Auth!ExpireToken, Auth!Expire, Auth!Purge
    <3>2. ASSUME NEW c \in Devices, AuthWrites(c) PROVE UNCHANGED denied \/ Auth!Deny(c)
        BY <3>2 DEF AuthWrites, Auth!Login, Auth!Rotate, Auth!SwitchTenant, Auth!RevokeFamily,
           Auth!Logout, Auth!ChangePassword, Auth!ResetPassword
    <3>3. QED
        BY <3>1, <3>2, AuthCases, AuthReadStep
  <2>4. QED
      BY <2>1, <2>2, <2>3, AuthTypes
<1>5. /\ password' \in 0..MaxPasswords /\ lastReset' \in 0..password'
      /\ resetToken' \in [ResetTokens -> {"absent", "issued", "used", "expired"}]
      /\ uses' \in [ResetTokens -> Nat]
  <2>1. ASSUME UNCHANGED Auth!passwordVars PROVE <1>5!:
      BY <2>1, AuthTypes DEF Auth!passwordVars
  <2>2. ASSUME NEW c \in Devices, Auth!ChangePassword(c) PROVE <1>5!:
      BY <2>2, AuthTypes DEF Auth!ChangePassword
  <2>3. ASSUME NEW c \in Devices, Auth!ResetPassword(c) PROVE <1>5!:
    <3>1. authRequest[c].token \in ResetTokens
        BY <2>3, AuthTypes, AuthRequestShape DEF Auth!ResetPassword, Auth!At
    <3>2. QED
        BY <2>3, <3>1, AuthTypes DEF Auth!ResetPassword
  <2>4. ASSUME NEW t \in ResetTokens, Auth!ForgotPassword(t) \/ Auth!ExpireToken(t) PROVE <1>5!:
      BY <2>4, AuthTypes DEF Auth!ForgotPassword, Auth!ExpireToken
  <2>5. \/ UNCHANGED Auth!passwordVars
        \/ \E c \in Devices : Auth!ChangePassword(c) \/ Auth!ResetPassword(c)
        \/ \E t \in ResetTokens : Auth!ForgotPassword(t) \/ Auth!ExpireToken(t)
    <3>1. ASSUME NEW s \in SessionIds, Auth!Expire(s) \/ Auth!Purge(s) PROVE UNCHANGED Auth!passwordVars
        BY <3>1 DEF Auth!Expire, Auth!Purge
    <3>2. ASSUME NEW c \in Devices, AuthWrites(c)
          PROVE  UNCHANGED Auth!passwordVars \/ Auth!ChangePassword(c) \/ Auth!ResetPassword(c)
        BY <3>2 DEF AuthWrites, Auth!Login, Auth!Rotate, Auth!SwitchTenant, Auth!RevokeFamily,
           Auth!Logout, Auth!Deny
    <3>3. QED
        BY <3>1, <3>2, AuthCases, AuthReadStep DEF AuthTime
  <2>6. QED
      BY <2>1, <2>2, <2>3, <2>4, <2>5
<1>6. QED
    BY <1>1, <1>2, <1>3, <1>4, <1>5 DEF SessionsTypeOK, Auth!TypeOK, SessionTables

(* The invariant holds of a user without sessions.                         *)
LEMMA AuthInit == Auth!Init => AuthInv
<1> SUFFICES ASSUME Auth!Init PROVE AuthInv
    OBVIOUS
<1>1. MaxPasswords \in Nat
    BY AuthAssumption DEF Auth!BoundsAssumption
<1>2. SessionsTypeOK
  <2>1. Auth!NoOrigin \in Auth!Origins
      BY <1>1 DEF Auth!NoOrigin, Auth!Origins, Auth!Methods
  <2>2. SessionTables
      BY <2>1 DEF Auth!Init, SessionTables, Auth!Methods
  <2>3. QED
      BY <1>1, <2>2, AuthTypes DEF Auth!Init, Auth!Requests
<1>3. RequestedExist /\ FamiliesAreLed /\ RotatedAreLive /\ LoginsAreCurrent /\ OneLive
    BY DEF Auth!Init, Auth!Idle, RequestedExist, FamiliesAreLed, RotatedAreLive, LoginsAreCurrent, OneLive
<1>4. DetectedFamiliesStayDead /\ ResetEndsLogins
    BY DEF Auth!Init, DetectedFamiliesStayDead, Auth!DetectedFamiliesStayDead,
       ResetEndsLogins, Auth!ResetEndsLogins
<1>5. QED
    BY <1>2, <1>3, <1>4 DEF AuthInv

(* The sessions requests carry are never deleted under them.               *)
LEMMA AuthRequestedStep ==
    ASSUME SessionsTypeOK, RequestedExist, FamiliesAreLed, Auth!Next
    PROVE  RequestedExist'
<1>1. AuthRows
    BY AuthRowsStep
<1>2. authRequest \in [Devices -> Auth!Requests]
    BY AuthTypes
<1>3. \A s \in SessionIds : state[s] # "absent" => state'[s] # "absent"
    BY <1>1 DEF AuthRows, NoNewSession, NewSession
<1>4. ASSUME AuthTime PROVE UNCHANGED authRequest
    BY <1>4 DEF AuthTime, Auth!ForgotPassword, Auth!ExpireToken, Auth!Expire, Auth!Purge
<1>5. ASSUME NEW c \in Devices, AuthReads(c) PROVE UNCHANGED state
    BY <1>5, AuthReadStep DEF Auth!rowVars
<1>6. \A c \in Devices : authRequest[c].step \in {"revokeFamily", "rotate", "logout", "logoutAll", "switch"} =>
          authRequest[c].session \in SessionIds
    BY <1>2, AuthRequestShape
<1>7. CASE AuthTime
    BY <1>7, <1>3, <1>4, <1>6 DEF RequestedExist
<1>8. ASSUME NEW c \in Devices, AuthReads(c) PROVE RequestedExist'
    BY <1>8, <1>3, <1>5, <1>6, AuthReadStep DEF RequestedExist, Auth!Idle
<1>9. ASSUME NEW c \in Devices, AuthWrites(c) PROVE RequestedExist'
    BY <1>9, <1>3, <1>6, AuthWriteStep DEF RequestedExist, Auth!Idle
<1>10. QED
    BY <1>7, <1>8, <1>9, AuthCases

(* What holds of the rows however many devices are at work.                *)
RowsInv == SessionsTypeOK /\ RequestedExist /\ FamiliesAreLed

LEMMA RowsInvariant == SessionsSpec => []RowsInv
<1>1. Auth!Init => RowsInv
    BY AuthInit DEF AuthInv, RowsInv
<1>2. RowsInv /\ UNCHANGED Auth!vars => RowsInv'
    BY DEF RowsInv, SessionsTypeOK, Auth!TypeOK, RequestedExist, FamiliesAreLed, Auth!vars, Auth!rowVars,
       Auth!passwordVars
<1>3. RowsInv /\ Auth!Next => RowsInv'
    BY AuthTypeStep, AuthRequestedStep, AuthRowsStep DEF RowsInv
<1>4. RowsInv /\ [Auth!Next]_Auth!vars => RowsInv'
    BY <1>2, <1>3
<1>5. QED
    BY <1>1, <1>4, PTL DEF SessionsSpec, Auth!Spec

(* The rows, the requests and the passwords have their types, however many *)
(* devices are at work: families are led by a session of their own, and no *)
(* request is for a session that was never created.                        *)
THEOREM SessionsTypeCorrect == SessionsSpec => []SessionsTypeOK
<1>1. RowsInv => SessionsTypeOK
    BY DEF RowsInv
<1>2. QED
    BY <1>1, RowsInvariant, PTL

(* However many devices are at work: no session comes back to life, be it  *)
(* by a refresh, a switch of tenants or a logout that is under way when it *)
(* is revoked, and no session moves to another family or login.            *)
THEOREM SessionsNeverRevive == SessionsSpec => SessionsOnlyEnd
<1>1. RowsInv /\ Auth!Next => Auth!NoRevival
  <2> SUFFICES ASSUME RowsInv, Auth!Next PROVE Auth!NoRevival
      OBVIOUS
  <2>1. AuthRows
      BY AuthRowsStep DEF RowsInv
  <2>2. CASE NoNewSession
      BY <2>2 DEF NoNewSession, Auth!NoRevival
  <2>3. ASSUME NEW n \in SessionIds, NEW f, NEW from, NEW S, NewSession(n, f, from, S)
        PROVE  Auth!NoRevival
      BY <2>3 DEF NewSession, Auth!NoRevival
  <2>4. QED
      BY <2>1, <2>2, <2>3 DEF AuthRows
<1>2. RowsInv /\ [Auth!Next]_Auth!vars => [Auth!NoRevival]_Auth!vars
    BY <1>1
<1>3. QED
    BY <1>2, RowsInvariant, PTL DEF SessionsSpec, Auth!Spec, SessionsOnlyEnd, Auth!SessionsOnlyEnd

(* The requests that have found a reset token and not used it yet.         *)
Resetting(t) == {c \in Devices : authRequest[c].step = "reset" /\ authRequest[c].token = t}

(* A token that can still be found was never used; whoever has found it    *)
(* may use it, and nobody finds it after its first use.                    *)
UsesCounted ==
    \A t \in ResetTokens :
        /\ resetToken[t] \in {"absent", "issued"} => uses[t] = 0
        /\ uses[t] + Cardinality(Resetting(t)) <= Cardinality(Devices)

(* The devices are finitely many, by the notion of either module.          *)
LEMMA DevicesFinite == IsFiniteSet(Devices) /\ Auth!Cardinality(Devices) = Cardinality(Devices)
BY AuthAssumption DEF Auth!ClientsAssumption, Auth!IsFiniteSet, IsFiniteSet, Auth!Cardinality, Cardinality

LEMMA ResettingFinite ==
    /\ Cardinality(Devices) \in Nat
    /\ \A t : /\ IsFiniteSet(Resetting(t))
             /\ Cardinality(Resetting(t)) \in Nat
             /\ Cardinality(Resetting(t)) <= Cardinality(Devices)
<1>1. IsFiniteSet(Devices)
    BY DevicesFinite
<1>2. ASSUME NEW t PROVE Resetting(t) \subseteq Devices
    BY DEF Resetting
<1>3. QED
    BY <1>1, <1>2, FS_Subset, FS_CardinalityType

LEMMA ResettingFiniteNext ==
    \A t : /\ IsFiniteSet(Resetting(t)')
          /\ Cardinality(Resetting(t)') \in Nat
          /\ Cardinality(Resetting(t)') <= Cardinality(Devices)
<1>1. IsFiniteSet(Devices)
    BY DevicesFinite
<1>2. ASSUME NEW t PROVE Resetting(t)' \subseteq Devices
    BY DEF Resetting
<1>3. QED
    BY <1>1, <1>2, FS_Subset, FS_CardinalityType

(* What a step does to the tokens.                                         *)
LEMMA TokenSteps ==
    ASSUME RowsInv, Auth!Next
    PROVE  \/ /\ uses' = uses
              /\ \A t \in ResetTokens :
                    /\ resetToken'[t] \in {"absent", "issued"} => resetToken[t] \in {"absent", "issued"}
                    /\ Resetting(t)' \subseteq Resetting(t) \/ resetToken[t] = "issued"
           \/ \E c \in Devices, t \in ResetTokens :
                 /\ uses' = [uses EXCEPT ![t] = @ + 1] /\ resetToken' = [resetToken EXCEPT ![t] = "used"]
                 /\ c \in Resetting(t)
                 /\ Resetting(t)' \subseteq Resetting(t) \ {c}
                 /\ \A u \in ResetTokens : Resetting(u)' \subseteq Resetting(u)
<1> DEFINE Stay == /\ uses' = uses
                   /\ \A t \in ResetTokens :
                         /\ resetToken'[t] \in {"absent", "issued"} => resetToken[t] \in {"absent", "issued"}
                         /\ Resetting(t)' \subseteq Resetting(t) \/ resetToken[t] = "issued"
<1>0. /\ SessionsTypeOK /\ authRequest \in [Devices -> Auth!Requests]
      /\ resetToken \in [ResetTokens -> {"absent", "issued", "used", "expired"}]
    BY AuthTypes DEF RowsInv
<1>1. ASSUME NEW c \in Devices, \A d \in Devices \ {c} : authRequest'[d] = authRequest[d],
             authRequest'[c].step # "reset", UNCHANGED <<uses, resetToken>>
      PROVE  Stay
    BY <1>1 DEF Resetting
<1>2. ASSUME NEW c \in Devices, AuthReads(c) PROVE Stay
  <2>1. UNCHANGED <<uses, resetToken>> /\ \A d \in Devices \ {c} : authRequest'[d] = authRequest[d]
      BY <1>0, <1>2, AuthReadStep DEF Auth!passwordVars
  <2>2. CASE authRequest'[c].step # "reset"
      BY <2>1, <2>2, <1>1
  <2>3. CASE authRequest'[c].step = "reset"
    <3>1. PICK t \in ResetTokens : Auth!FindToken(c, t)
        BY <1>0, <1>2, <2>3 DEF AuthReads, Auth!Verify, Auth!FindSession, Auth!UseAccessToken,
           Auth!VerifyCurrent, Auth!Abort, Auth!Begin, Auth!Return, Auth!Idle
    <3>2. resetToken[t] = "issued" /\ authRequest'[c].token = t
        BY <1>0, <3>1 DEF Auth!FindToken, Auth!Begin
    <3>3. QED
        BY <2>1, <3>2 DEF Resetting
  <2>4. QED
      BY <2>2, <2>3
<1>3. ASSUME NEW c \in Devices, AuthWrites(c), ~Auth!ResetPassword(c) PROVE Stay
  <2>1. UNCHANGED <<uses, resetToken>>
      BY <1>3 DEF AuthWrites, Auth!Login, Auth!Rotate, Auth!SwitchTenant, Auth!RevokeFamily, Auth!Deny,
         Auth!Logout, Auth!ChangePassword, Auth!passwordVars
  <2>2. authRequest'[c].step # "reset"
      BY <1>0, <1>3, AuthWriteStep DEF Auth!Idle
  <2>3. QED
      BY <1>0, <1>1, <1>3, <2>1, <2>2, AuthWriteStep
<1>4. CASE AuthTime
  <2>1. \/ UNCHANGED <<uses, resetToken, authRequest>>
        \/ \E t \in ResetTokens : Auth!ForgotPassword(t) \/ Auth!ExpireToken(t)
      BY <1>4 DEF AuthTime, Auth!Expire, Auth!Purge, Auth!passwordVars
  <2>2. CASE UNCHANGED <<uses, resetToken, authRequest>>
      BY <2>2 DEF Resetting
  <2>3. ASSUME NEW t \in ResetTokens, Auth!ForgotPassword(t) \/ Auth!ExpireToken(t) PROVE Stay
    <3>1. UNCHANGED <<uses, authRequest>>
        BY <2>3 DEF Auth!ForgotPassword, Auth!ExpireToken
    <3>2. \A u \in ResetTokens :
              resetToken'[u] \in {"absent", "issued"} => resetToken[u] \in {"absent", "issued"}
        BY <1>0, <2>3 DEF Auth!ForgotPassword, Auth!ExpireToken
    <3>3. QED
        BY <3>1, <3>2 DEF Resetting
  <2>4. QED
      BY <2>1, <2>2, <2>3
<1>5. ASSUME NEW c \in Devices, Auth!ResetPassword(c)
      PROVE  \E t \in ResetTokens :
                 /\ uses' = [uses EXCEPT ![t] = @ + 1] /\ resetToken' = [resetToken EXCEPT ![t] = "used"]
                 /\ c \in Resetting(t)
                 /\ Resetting(t)' \subseteq Resetting(t) \ {c}
                 /\ \A u \in ResetTokens : Resetting(u)' \subseteq Resetting(u)
  <2> DEFINE t == authRequest[c].token
  <2>1. authRequest[c].step = "reset" /\ authRequest' = [authRequest EXCEPT ![c] = Auth!Idle]
      BY <1>5 DEF Auth!ResetPassword, Auth!At, Auth!Return
  <2>2. t \in ResetTokens /\ c \in Resetting(t)
      BY <1>0, <2>1, AuthRequestShape DEF Resetting
  <2>3. authRequest'[c].step # "reset" /\ \A d \in Devices \ {c} : authRequest'[d] = authRequest[d]
      BY <1>0, <2>1 DEF Auth!Idle
  <2>4. \A u : Resetting(u)' \subseteq Resetting(u) \ {c}
      BY <2>3 DEF Resetting
  <2>5. uses' = [uses EXCEPT ![t] = @ + 1] /\ resetToken' = [resetToken EXCEPT ![t] = "used"]
      BY <1>5 DEF Auth!ResetPassword
  <2> HIDE DEF t
  <2>6. QED
      BY <2>2, <2>4, <2>5
<1>6. QED
    BY <1>2, <1>3, <1>4, <1>5, AuthCases DEF AuthWrites

LEMMA UsesStep ==
    ASSUME RowsInv, UsesCounted, Auth!Next
    PROVE  UsesCounted'
<1>0. /\ resetToken \in [ResetTokens -> {"absent", "issued", "used", "expired"}]
      /\ uses \in [ResetTokens -> Nat]
    BY AuthTypes DEF RowsInv
<1>1. CASE /\ uses' = uses
           /\ \A t \in ResetTokens :
                 /\ resetToken'[t] \in {"absent", "issued"} => resetToken[t] \in {"absent", "issued"}
                 /\ Resetting(t)' \subseteq Resetting(t) \/ resetToken[t] = "issued"
  <2>1. ASSUME NEW t \in ResetTokens
        PROVE  uses'[t] + Cardinality(Resetting(t)') <= Cardinality(Devices)
    <3>1. CASE resetToken[t] = "issued"
      <4>1. uses'[t] = 0
          BY <1>1, <3>1 DEF UsesCounted
      <4>2. QED
          BY <4>1, ResettingFinite, ResettingFiniteNext
    <3>2. CASE Resetting(t)' \subseteq Resetting(t)
      <4>1. Cardinality(Resetting(t)') <= Cardinality(Resetting(t))
          BY <3>2, ResettingFinite, FS_Subset
      <4>2. QED
          BY <1>0, <1>1, <4>1, ResettingFinite, ResettingFiniteNext DEF UsesCounted
    <3>3. QED
        BY <1>1, <3>1, <3>2
  <2>2. QED
      BY <1>1, <2>1 DEF UsesCounted
<1>2. ASSUME NEW c \in Devices, NEW t \in ResetTokens,
             uses' = [uses EXCEPT ![t] = @ + 1], resetToken' = [resetToken EXCEPT ![t] = "used"],
             c \in Resetting(t), Resetting(t)' \subseteq Resetting(t) \ {c},
             \A u \in ResetTokens : Resetting(u)' \subseteq Resetting(u)
      PROVE  UsesCounted'
  <2>1. /\ Cardinality(Resetting(t) \ {c}) = Cardinality(Resetting(t)) - 1
        /\ IsFiniteSet(Resetting(t) \ {c})
      BY <1>2, ResettingFinite, FS_RemoveElement
  <2>2. Cardinality(Resetting(t)') <= Cardinality(Resetting(t)) - 1
      BY <1>2, <2>1, FS_Subset
  <2>3. ASSUME NEW u \in ResetTokens PROVE Cardinality(Resetting(u)') <= Cardinality(Resetting(u))
      BY <1>2, <2>3, ResettingFinite, FS_Subset
  <2>4. ASSUME NEW u \in ResetTokens
        PROVE  /\ resetToken'[u] \in {"absent", "issued"} => uses'[u] = 0
               /\ uses'[u] + Cardinality(Resetting(u)') <= Cardinality(Devices)
    <3>1. CASE u = t
      <4>1. uses'[u] = uses[u] + 1 /\ resetToken'[u] = "used"
          BY <1>0, <1>2, <3>1
      <4>2. QED
          BY <1>0, <2>2, <3>1, <4>1, ResettingFinite, ResettingFiniteNext DEF UsesCounted
    <3>2. CASE u # t
      <4>1. uses'[u] = uses[u] /\ resetToken'[u] = resetToken[u]
          BY <1>0, <1>2, <3>2
      <4>2. QED
          BY <1>0, <2>3, <4>1, ResettingFinite, ResettingFiniteNext DEF UsesCounted
    <3>3. QED
        BY <3>1, <3>2
  <2>5. QED
      BY <2>4 DEF UsesCounted
<1>3. QED
    BY <1>1, <1>2, TokenSteps

(* "Reset token has already been used": the check and the write are two    *)
(* steps, so that the requests in flight when a token is used first can    *)
(* use it again, and no later one can: at most as many uses as requests    *)
(* can be in flight, which is one use as long as requests do not overlap.  *)
THEOREM ResetsAreBounded == SessionsSpec => []UsesBounded
<1>1. Auth!Init => UsesCounted
  <2> SUFFICES ASSUME Auth!Init, NEW t \in ResetTokens
               PROVE  uses[t] = 0 /\ uses[t] + Cardinality(Resetting(t)) <= Cardinality(Devices)
      BY DEF UsesCounted
  <2>1. uses[t] = 0
      BY DEF Auth!Init
  <2>2. QED
      BY <2>1, ResettingFinite
<1>2. RowsInv /\ UsesCounted /\ [Auth!Next]_Auth!vars => UsesCounted'
  <2>1. UsesCounted /\ UNCHANGED Auth!vars => UsesCounted'
      BY DEF UsesCounted, Resetting, Auth!vars, Auth!passwordVars
  <2>2. QED
      BY <2>1, UsesStep
<1>3. RowsInv /\ UsesCounted => UsesBounded
  <2> SUFFICES ASSUME RowsInv, UsesCounted, NEW t \in ResetTokens
               PROVE  uses[t] <= Cardinality(Devices)
      BY DevicesFinite DEF UsesBounded, Auth!UsesBounded
  <2>1. uses[t] \in Nat
      BY AuthTypes DEF RowsInv
  <2>2. QED
      BY <2>1, ResettingFinite DEF UsesCounted
<1>4. QED
    BY <1>1, <1>2, <1>3, RowsInvariant, PTL DEF SessionsSpec, Auth!Spec

(* Every step of a single device keeps the invariant.                      *)
LEMMA AuthInvStep ==
    ASSUME AuthInv, OneDevice, Auth!Next
    PROVE  AuthInv'
<1>0. SessionsTypeOK /\ RequestedExist /\ FamiliesAreLed
    BY DEF AuthInv
<1>1. SessionsTypeOK' /\ SessionTables' /\ FamiliesAreLed' /\ AuthRows
    BY <1>0, AuthTypeStep, AuthRowsStep
<1>2. /\ SessionTables /\ SessionTables' /\ authRequest \in [Devices -> Auth!Requests]
      /\ password \in Nat /\ lastReset \in Nat /\ lastReset <= password
  <2>1. MaxPasswords \in Nat
      BY AuthAssumption DEF Auth!BoundsAssumption
  <2>2. QED
      BY <1>0, <1>1, <2>1, AuthTypes
<1>4. ASSUME AuthTime PROVE /\ UNCHANGED <<authRequest, lastReset>>
                            /\ \A s \in SessionIds : state[s] = "live" => state'[s] = "live"
    BY <1>4, <1>2 DEF AuthTime, Auth!ForgotPassword, Auth!ExpireToken, Auth!Expire, Auth!Purge,
       Auth!passwordVars, Auth!rowVars, SessionTables
<1>5. ASSUME NEW c \in Devices, AuthReads(c) PROVE UNCHANGED <<state, lastReset>>
    BY <1>0, <1>5, AuthReadStep DEF Auth!rowVars, Auth!passwordVars
<1>6. \A c \in Devices : authRequest[c].step \in {"revokeFamily", "rotate", "logout", "logoutAll", "switch"} =>
          authRequest[c].session \in SessionIds
    BY <1>2, AuthRequestShape
<1>7. RequestedExist'
    BY <1>0, AuthRequestedStep
<1>8. RotatedAreLive' /\ LoginsAreCurrent'
  <2>1. CASE AuthTime
      BY <2>1, <1>4, <1>6 DEF AuthInv, RotatedAreLive, LoginsAreCurrent
  <2>2. ASSUME NEW c \in Devices, AuthReads(c) PROVE RotatedAreLive' /\ LoginsAreCurrent'
    <3>1. \A d \in Devices : d = c
        BY DEF OneDevice
    <3>2. authRequest'[c].step = "rotate" => state[authRequest'[c].session] = "live"
        BY <2>2, <1>0, AuthReadStep DEF Auth!Idle
    <3>3. authRequest'[c].step = "login" => authRequest'[c].from.password >= lastReset
        BY <2>2, <1>0, <1>2, AuthReadStep DEF Auth!Idle
    <3>4. QED
        BY <2>2, <3>1, <3>2, <3>3, <1>5 DEF RotatedAreLive, LoginsAreCurrent
  <2>3. ASSUME NEW c \in Devices, AuthWrites(c) PROVE RotatedAreLive' /\ LoginsAreCurrent'
      BY <2>3, <1>0, AuthWriteStep DEF RotatedAreLive, LoginsAreCurrent, OneDevice, Auth!Idle
  <2>4. QED
      BY <2>1, <2>2, <2>3, AuthCases
<1>9. /\ \A s \in SessionIds : family[s] \in SessionIds
      /\ \A s, n \in SessionIds : state[n] = "absent" /\ s # n => family[s] # n
      /\ \A s \in SessionIds : state[s] = "absent" => s \notin burnt
    BY <1>0, <1>2, AuthTypes DEF SessionTables, FamiliesAreLed
<1>10. OneLive'
  <2>1. CASE NoNewSession
      BY <2>1 DEF AuthInv, OneLive, NoNewSession
  <2>2. ASSUME NEW n \in SessionIds, NEW from, NEW S, NewSession(n, n, from, S) PROVE OneLive'
      BY <2>2, <1>9 DEF AuthInv, OneLive, NewSession
  <2>3. ASSUME NEW c \in Devices, NEW n \in SessionIds, NEW s \in SessionIds, NEW from,
               authRequest[c].step = "rotate", authRequest[c].session = s, NewSession(n, family[s], from, {s})
        PROVE  OneLive'
    <3>1. state[s] = "live"
        BY <2>3 DEF AuthInv, RotatedAreLive
    <3>2. QED
        BY <2>3, <3>1 DEF AuthInv, OneLive, NewSession
  <2>4. QED
      BY <1>1, <2>1, <2>2, <2>3 DEF AuthRows
<1>11. DetectedFamiliesStayDead'
  <2>0. \A s \in SessionIds : family[s] \in burnt => state[s] # "live"
      BY DEF AuthInv, DetectedFamiliesStayDead, Auth!DetectedFamiliesStayDead
  <2>1. CASE NoNewSession
    <3>1. \A s \in SessionIds : family'[s] \in burnt' => state'[s] # "live"
        BY <1>1, <2>0, <2>1 DEF AuthRows, NoNewSession, NewSession
    <3>2. QED
        BY <3>1 DEF DetectedFamiliesStayDead, Auth!DetectedFamiliesStayDead
  <2>2. ASSUME NEW n \in SessionIds, NEW f \in SessionIds, NEW from, NEW S, UNCHANGED burnt,
               NewSession(n, f, from, S), f \notin burnt
        PROVE  DetectedFamiliesStayDead'
    <3>1. \A s \in SessionIds : family'[s] \in burnt' => state'[s] # "live"
        BY <2>0, <2>2 DEF NewSession
    <3>2. QED
        BY <3>1 DEF DetectedFamiliesStayDead, Auth!DetectedFamiliesStayDead
  <2>3. ASSUME NEW n \in SessionIds, NEW from, NEW S, UNCHANGED burnt, NewSession(n, n, from, S)
        PROVE  DetectedFamiliesStayDead'
    <3>1. n \notin burnt
        BY <1>9, <2>3 DEF NewSession
    <3>2. QED
        BY <2>2, <2>3, <3>1
  <2>4. ASSUME NEW c \in Devices, NEW n \in SessionIds, NEW s \in SessionIds, authRequest[c].step = "rotate",
               authRequest[c].session = s, UNCHANGED burnt, NewSession(n, family[s], origin[s], {s})
        PROVE  DetectedFamiliesStayDead'
    <3>1. family[s] \in SessionIds /\ family[s] \notin burnt
        BY <1>9, <2>0, <2>4 DEF AuthInv, RotatedAreLive
    <3>2. QED
        BY <2>2, <2>4, <3>1
  <2>5. QED
      BY <1>1, <2>1, <2>3, <2>4 DEF AuthRows
<1>12. ResetEndsLogins'
  <2>0. \A s \in SessionIds : state[s] = "live" /\ ~origin[s].switched => origin[s].password >= lastReset
      BY DEF AuthInv, ResetEndsLogins, Auth!ResetEndsLogins
  <2>1. SUFFICES \A s \in SessionIds : state'[s] = "live" /\ ~origin'[s].switched => origin'[s].password >= lastReset'
      BY DEF ResetEndsLogins, Auth!ResetEndsLogins
  <2>2. CASE NoNewSession
      BY <1>1, <2>0, <2>2 DEF AuthRows, NoNewSession, NewSession
  <2>3. ASSUME lastReset' = lastReset, NEW n \in SessionIds, NEW f, NEW from, NEW S, NewSession(n, f, from, S),
               ~from.switched => from.password >= lastReset
        PROVE  \A s \in SessionIds : state'[s] = "live" /\ ~origin'[s].switched => origin'[s].password >= lastReset'
      BY <2>0, <2>3 DEF NewSession
  <2>4. \A s \in SessionIds : [origin[s] EXCEPT !.switched = TRUE].switched
      BY <1>2 DEF SessionTables, Auth!Origins
  <2>5. QED
      BY <1>1, <2>0, <2>2, <2>3, <2>4 DEF AuthRows, AuthInv, RotatedAreLive, LoginsAreCurrent
<1>13. QED
    BY <1>1, <1>7, <1>8, <1>10, <1>11, <1>12 DEF AuthInv

(* A single device never leaves the invariant.                             *)
LEMMA AuthInvariant == OneDevice => (SessionsSpec => []AuthInv)
<1> SUFFICES ASSUME OneDevice PROVE SessionsSpec => []AuthInv
    OBVIOUS
<1>1. AuthInv /\ UNCHANGED Auth!vars => AuthInv'
    BY DEF AuthInv, SessionsTypeOK, Auth!TypeOK, RequestedExist, FamiliesAreLed, RotatedAreLive, LoginsAreCurrent,
       OneLive, DetectedFamiliesStayDead, Auth!DetectedFamiliesStayDead, ResetEndsLogins,
       Auth!ResetEndsLogins, Auth!vars, Auth!rowVars, Auth!passwordVars
<1>2. AuthInv /\ [Auth!Next]_Auth!vars => AuthInv'
    BY <1>1, AuthInvStep
<1>3. QED
    BY AuthInit, <1>2, PTL DEF SessionsSpec, Auth!Spec

(* "... so we never end up with two live refresh tokens": a family has one *)
(* live session, while requests come one after the other and are cut off   *)
(* wherever they may be; for any number of sessions.                       *)
THEOREM FamiliesRotate == OneDevice => (SessionsSpec => []OneLivePerFamily)
<1>1. AuthInv => OneLivePerFamily
    BY DEF AuthInv, OneLive, OneLivePerFamily, Auth!OneLivePerFamily, Auth!Usable
<1>2. QED
    BY <1>1, AuthInvariant, PTL

(* A family whose token was reused has no live session any more, and gets  *)
(* none, under the same condition.                                         *)
THEOREM ReuseEndsFamilies == OneDevice => (SessionsSpec => []DetectedFamiliesStayDead)
<1>1. AuthInv => DetectedFamiliesStayDead
    BY DEF AuthInv
<1>2. QED
    BY <1>1, AuthInvariant, PTL

(* No live session goes back to a login with a password of before the last *)
(* reset, but for what switchTenant handed on, under the same condition.   *)
THEOREM ResetsEndLogins == OneDevice => (SessionsSpec => []ResetEndsLogins)
<1>1. AuthInv => ResetEndsLogins
    BY DEF AuthInv
<1>2. QED
    BY <1>1, AuthInvariant, PTL

-----------------------------------------------------------------------------
(* Provisioning: who is an admin and who can log in, for any number of     *)
(* users, tenants and requests.                                            *)

AccountTypes ==
    /\ tenants \subseteq Tenants /\ claim \in Accounts!Claims
    /\ founder \in [Tenants -> People \cup {Accounts!NoOne}]
    /\ account \subseteq People /\ identity \subseteq People
    /\ role \in [People \X Tenants -> SUBSET Accounts!Roles]
    /\ cuts \in Nat
    /\ joinRequest \in [Visitors -> Accounts!Requests]

(* The steps before the tenant is known, and those after, are different    *)
(* ones.                                                                   *)
LEMMA VisitSteps ==
    /\ \A step \in Accounts!Early : step \notin Accounts!Late /\ step # "idle" /\ step # "provision"
    /\ \A step \in Accounts!Late : step # "idle" /\ step # "provision"
    /\ \A r : r.step # "idle" => r # Accounts!Idle
<1>1. \A step \in Accounts!Early : step \notin Accounts!Late
    BY DEF Accounts!Early, Accounts!Late
<1>2. \A step \in Accounts!Early : step # "idle" /\ step # "provision"
    BY DEF Accounts!Early
<1>3. \A step \in Accounts!Late : step # "idle" /\ step # "provision"
    BY DEF Accounts!Late
<1>4. \A r : r.step # "idle" => r # Accounts!Idle
    BY DEF Accounts!Idle
<1>5. QED
    BY <1>1, <1>2, <1>3, <1>4

(* The fields a visit carries at each of its steps.                        *)
LEMMA VisitShape ==
    ASSUME NEW r \in Accounts!Requests
    PROVE  /\ r = Accounts!Idle <=> r.step = "idle"
           /\ r # Accounts!Idle => r.user \in People
           /\ r.step \in {"idle", "provision"} \cup Accounts!Early \cup Accounts!Late
           /\ r.step \in Accounts!Early => r = [step |-> r.step, user |-> r.user]
           /\ r.step = "provision" => r.claims \in BOOLEAN
           /\ r.step \in Accounts!Late =>
                 /\ r.tenant \in Tenants /\ r.slug \in Accounts!Roles /\ r.sso \in BOOLEAN
                 /\ r = Accounts!With(r.step, r.user, r.tenant, r.slug, r.sso)
<1>1. CASE r = Accounts!Idle
    BY <1>1 DEF Accounts!Idle, Accounts!Early, Accounts!Late
<1>2. CASE r \in [step : Accounts!Early, user : People]
  <2>1. r.step \in Accounts!Early /\ r.user \in People
      BY <1>2
  <2>2. r = [step |-> r.step, user |-> r.user]
      BY <1>2
  <2>3. r.step \notin Accounts!Late /\ r.step # "idle" /\ r.step # "provision" /\ r # Accounts!Idle
      BY <2>1, VisitSteps
  <2>4. QED
      BY <2>1, <2>2, <2>3
<1>3. CASE r \in [step : {"provision"}, user : People, claims : BOOLEAN]
  <2>1. r.step = "provision" /\ r.user \in People /\ r.claims \in BOOLEAN
      BY <1>3
  <2>2. QED
      BY <2>1 DEF Accounts!Idle, Accounts!Early, Accounts!Late
<1>4. CASE r \in [step : Accounts!Late, user : People, tenant : Tenants, slug : Accounts!Roles, sso : BOOLEAN]
  <2>1. /\ r.step \in Accounts!Late /\ r.user \in People /\ r.tenant \in Tenants
        /\ r.slug \in Accounts!Roles /\ r.sso \in BOOLEAN
      BY <1>4
  <2>2. r = Accounts!With(r.step, r.user, r.tenant, r.slug, r.sso)
      BY <1>4 DEF Accounts!With
  <2>3. r.step \notin Accounts!Early /\ r.step # "idle" /\ r.step # "provision" /\ r # Accounts!Idle
      BY <2>1, VisitSteps
  <2>4. QED
      BY <2>1, <2>2, <2>3
<1>5. QED
    BY <1>1, <1>2, <1>3, <1>4 DEF Accounts!Requests

(* The records of a visit whose tenant is known are visits.                *)
LEMMA LateVisit ==
    ASSUME NEW step \in Accounts!Late, NEW u \in People, NEW t \in Tenants,
           NEW slug \in Accounts!Roles, NEW federated \in BOOLEAN
    PROVE  Accounts!With(step, u, t, slug, federated) \in Accounts!Requests
BY DEF Accounts!Requests, Accounts!With, Accounts!Late

(* The records of a visit before its tenant is known are visits.           *)
LEMMA EarlyVisit ==
    ASSUME NEW step \in Accounts!Early, NEW u \in People
    PROVE  [step |-> step, user |-> u] \in Accounts!Requests
BY DEF Accounts!Requests

(* What a step of a visitor does to its request, which becomes q, and to   *)
(* the tables.                                                             *)
SameVisit(c, q) ==
    /\ q.user = joinRequest[c].user /\ q.tenant = joinRequest[c].tenant
    /\ q.slug = joinRequest[c].slug /\ q.sso = joinRequest[c].sso

TablesStay == UNCHANGED <<tenants, founder, account, identity, keycard, memberRow, role, cuts>>

(* A new request, or one that has found out where it leads.                *)
VisitReads(c, q) ==
    /\ TablesStay
    /\ joinRequest[c].step \in {"idle", "target", "claimed", "upsert", "touch"}
    /\ \/ q.step \in {"idle", "target", "claimed", "provision", "upsert", "create sso user", "identity"}
       \/ q.step \in {"user", "session"} /\ q.slug = "project_member" /\ ~q.sso
       \/ q.step \in {"keycard", "session"} /\ q.slug = "project_member" /\ q.sso
       \/ q.step = "elevate" /\ q.slug = "project_member" /\ q.sso /\ q.user \in PlatformAdmins

(* On past the role.                                                       *)
VisitGoesOn(c, q) ==
    LET step == joinRequest[c].step
        p == Accounts!Pair(c)
    IN  /\ TablesStay /\ SameVisit(c, q)
        /\ \/ step = "session" /\ q.step = "touch"
           \/ step = "role" /\ q.step = "insertRole" /\ role[p] = {}
           \/ step = "role" /\ q.step = "session" /\ role[p] # {}
           \/ step = "role" /\ q.step = "elevate" /\ role[p] # {} /\ q.user \in PlatformAdmins
           \/ step = "elevate" /\ q.step \in {"insertElevated", "session"}

VisitRefused(c, q) == TablesStay /\ Accounts!Refused(c) /\ q = Accounts!Idle

VisitFails(c, q) ==
    /\ UNCHANGED <<tenants, founder, account, identity, keycard, memberRow, role>>
    /\ cuts' = cuts + 1 /\ q = Accounts!Idle

VisitProvisions(c, q) ==
    /\ joinRequest[c].step = "provision" /\ q.step = "user" /\ q.user = joinRequest[c].user
    /\ q.slug = "workspace_admin" /\ ~q.sso
    /\ q.tenant \in Tenants \ tenants /\ tenants' = tenants \cup {q.tenant}
    /\ founder' = [founder EXCEPT ![q.tenant] = q.user]
    /\ UNCHANGED <<account, identity, keycard, memberRow, role, cuts>>

VisitCreatesUser(c, q) ==
    /\ q.user = joinRequest[c].user /\ q.user \notin account /\ account' = account \cup {q.user}
    /\ \/ joinRequest[c].step = "user" /\ q.step = "keycard" /\ SameVisit(c, q)
       \/ joinRequest[c].step = "create sso user" /\ q.step = "identity"
    /\ UNCHANGED <<tenants, founder, identity, keycard, memberRow, role, cuts>>

VisitLinks(c, q) ==
    /\ joinRequest[c].step = "identity" /\ q.step = "keycard"
    /\ q.user = joinRequest[c].user /\ q.slug = "project_member" /\ q.sso
    /\ identity' = identity \cup {q.user}
    /\ UNCHANGED <<tenants, founder, account, keycard, memberRow, role, cuts>>

VisitJoins(c, q) ==
    /\ SameVisit(c, q)
    /\ \/ /\ joinRequest[c].step = "keycard" /\ q.step = IF q.sso THEN "role" ELSE "member"
          /\ keycard' = keycard \cup {Accounts!Pair(c)} /\ memberRow' = memberRow
       \/ /\ joinRequest[c].step = "member" /\ q.step = "role"
          /\ memberRow' = memberRow \cup {Accounts!Pair(c)} /\ keycard' = keycard
    /\ UNCHANGED <<tenants, founder, account, identity, role, cuts>>

VisitAssigns(c, q) ==
    /\ SameVisit(c, q)
    /\ \E slug \in Accounts!Roles :
          /\ role' = [role EXCEPT ![Accounts!Pair(c)] = @ \cup {slug}]
          /\ \/ /\ joinRequest[c].step = "insertRole" /\ slug = q.slug
                /\ q.step = "session" \/ (q.step = "elevate" /\ q.user \in PlatformAdmins)
             \/ /\ joinRequest[c].step = "insertElevated" /\ slug = "workspace_admin"
                /\ q.step = "session"
    /\ UNCHANGED <<tenants, founder, account, identity, keycard, memberRow, cuts>>

VisitEffect(c, q) ==
    \/ VisitReads(c, q) \/ VisitGoesOn(c, q) \/ VisitRefused(c, q) \/ VisitFails(c, q)
    \/ VisitProvisions(c, q) \/ VisitCreatesUser(c, q) \/ VisitLinks(c, q)
    \/ VisitJoins(c, q) \/ VisitAssigns(c, q)

Visit(c) ==
    \/ \E u \in People :
          \/ Accounts!Signup(c, u) \/ Accounts!SsoUnknown(c, u)
          \/ \E t \in Tenants : Accounts!Login(c, u, t) \/ Accounts!SsoKnown(c, u, t)
    \/ Accounts!FindAutoJoinTarget(c) \/ Accounts!IsDomainClaimed(c) \/ Accounts!Refuse(c) \/ Accounts!CreateUser(c)
    \/ Accounts!CreateKeycard(c) \/ Accounts!EnrollMember(c) \/ Accounts!EnsureDefaultRole(c) \/ Accounts!CreateAssignment(c)
    \/ Accounts!UpsertBySsoIdentity(c) \/ Accounts!CreateSsoUser(c) \/ Accounts!LinkIdentity(c)
    \/ Accounts!IssueSession(c) \/ Accounts!Touch(c) \/ Accounts!Fail(c)
    \/ \E t \in Tenants : Accounts!ProvisionTenant(c, t)

(* A step opens a domain or moves one visit.                               *)
LEMMA VisitCases == Accounts!Next => Accounts!OpenDomain \/ \E c \in Visitors : Visit(c)
BY DEF Accounts!Next, Visit

(* A later step of the same request.                                       *)
LEMMA NextStep ==
    ASSUME AccountTypes, NEW c \in Visitors, joinRequest[c].step \in Accounts!Late, NEW step \in Accounts!Late
    PROVE  /\ [joinRequest[c] EXCEPT !.step = step] \in Accounts!Requests
           /\ [joinRequest[c] EXCEPT !.step = step].step = step
           /\ SameVisit(c, [joinRequest[c] EXCEPT !.step = step])
<1> DEFINE r == joinRequest[c]
<1>1. /\ r \in Accounts!Requests
      /\ r.user \in People /\ r.tenant \in Tenants /\ r.slug \in Accounts!Roles /\ r.sso \in BOOLEAN
      /\ r = Accounts!With(r.step, r.user, r.tenant, r.slug, r.sso)
    BY VisitShape DEF AccountTypes, Accounts!Late, Accounts!Idle
<1>2. [r EXCEPT !.step = step] = Accounts!With(step, r.user, r.tenant, r.slug, r.sso)
    BY <1>1 DEF Accounts!With
<1>3. QED
    BY <1>1, <1>2, LateVisit DEF SameVisit, Accounts!With

(* A provisioned user goes on to the keycard, as a project member.         *)
LEMMA ProvisionedVisit ==
    ASSUME NEW c \in Visitors, joinRequest[c].user \in People
    PROVE  /\ Accounts!Provisioned(c) \in Accounts!Requests
           /\ Accounts!Provisioned(c).step = "keycard" /\ Accounts!Provisioned(c).sso
           /\ Accounts!Provisioned(c).slug = "project_member"
           /\ Accounts!Provisioned(c).user = joinRequest[c].user
<1> DEFINE u == joinRequest[c].user
<1>1. Accounts!Provisioned(c) = Accounts!With("keycard", u, Home, "project_member", TRUE)
    BY DEF Accounts!Provisioned, Accounts!Account
<1>2. Home \in Tenants /\ "keycard" \in Accounts!Late /\ "project_member" \in Accounts!Roles
    BY AccountsAssumption DEF Accounts!HomeAssumption, Accounts!Late, Accounts!Roles
<1>3. Accounts!Provisioned(c) \in Accounts!Requests
    BY <1>1, <1>2, LateVisit
<1>4. QED
    BY <1>1, <1>3 DEF Accounts!With

(* Every step of a visit has one of the listed effects.                    *)
LEMMA VisitStep ==
    ASSUME AccountTypes, NEW c \in Visitors, Visit(c)
    PROVE  \E q \in Accounts!Requests :
              joinRequest' = [joinRequest EXCEPT ![c] = q] /\ VisitEffect(c, q)
<1> DEFINE r == joinRequest[c]
           Done(q) == joinRequest' = [joinRequest EXCEPT ![c] = q] /\ VisitEffect(c, q)
           All == <<Accounts!directory, Accounts!people, Accounts!membership, recent, cuts>>
<1>0. /\ r \in Accounts!Requests /\ Accounts!Idle \in Accounts!Requests
      /\ Accounts!Idle.step = "idle" /\ (r = Accounts!Idle <=> r.step = "idle")
    BY VisitShape DEF AccountTypes, Accounts!Requests, Accounts!Idle
<1>1. ASSUME UNCHANGED All PROVE TablesStay
    BY <1>1 DEF TablesStay, Accounts!directory, Accounts!people, Accounts!membership
<1>2. ASSUME NEW q \in Accounts!Requests, Accounts!GoTo(c, q), VisitEffect(c, q)
      PROVE  \E p \in Accounts!Requests : Done(p)
    BY <1>2 DEF Accounts!GoTo
<1>3. ASSUME NEW u \in People, Accounts!Signup(c, u) \/ Accounts!SsoUnknown(c, u)
      PROVE  \E q \in Accounts!Requests : Done(q)
  <2>1. PICK step \in {"target", "upsert"} : Accounts!Begin(c, [step |-> step, user |-> u])
      BY <1>3 DEF Accounts!Signup, Accounts!SsoUnknown
  <2> DEFINE q == [step |-> step, user |-> u]
  <2>2. q \in Accounts!Requests /\ q.step = step
      BY EarlyVisit DEF Accounts!Early
  <2>3. r = Accounts!Idle /\ Accounts!GoTo(c, q) /\ TablesStay
      BY <1>1, <2>1 DEF Accounts!Begin
  <2> HIDE DEF q
  <2>4. VisitReads(c, q)
      BY <1>0, <2>2, <2>3 DEF VisitReads
  <2>5. QED
      BY <1>2, <2>2, <2>3, <2>4 DEF VisitEffect
<1>4. ASSUME NEW u \in People, NEW t \in Tenants, Accounts!Login(c, u, t) \/ Accounts!SsoKnown(c, u, t)
      PROVE  \E q \in Accounts!Requests : Done(q)
  <2>1. PICK step \in {"session", "elevate"}, federated \in BOOLEAN :
            /\ Accounts!Begin(c, Accounts!With(step, u, t, "project_member", federated))
            /\ step = "elevate" => federated /\ u \in PlatformAdmins
      BY <1>4 DEF Accounts!Login, Accounts!SsoKnown
  <2> DEFINE q == Accounts!With(step, u, t, "project_member", federated)
  <2>2. /\ q \in Accounts!Requests /\ q.step = step /\ q.user = u
        /\ q.slug = "project_member" /\ q.sso = federated
    <3>1. q \in Accounts!Requests
        BY LateVisit DEF Accounts!Late, Accounts!Roles
    <3>2. QED
        BY <3>1 DEF Accounts!With
  <2>3. r = Accounts!Idle /\ Accounts!GoTo(c, q) /\ TablesStay
      BY <1>1, <2>1 DEF Accounts!Begin
  <2> HIDE DEF q
  <2>4. VisitReads(c, q)
      BY <1>0, <2>1, <2>2, <2>3 DEF VisitReads
  <2>5. QED
      BY <1>2, <2>2, <2>3, <2>4 DEF VisitEffect
<1>5. CASE Accounts!Fail(c)
  <2>1. Accounts!GoTo(c, Accounts!Idle) /\ VisitFails(c, Accounts!Idle)
      BY <1>5 DEF Accounts!Fail, Accounts!Return, VisitFails, Accounts!directory, Accounts!people, Accounts!membership
  <2>2. QED
      BY <1>0, <1>2, <2>1 DEF VisitEffect
<1>6. CASE Accounts!Refuse(c)
  <2>1. Accounts!GoTo(c, Accounts!Idle) /\ VisitRefused(c, Accounts!Idle)
      BY <1>1, <1>6 DEF Accounts!Refuse, Accounts!Read, VisitRefused
  <2>2. QED
      BY <1>0, <1>2, <2>1 DEF VisitEffect
<1>7. CASE Accounts!Touch(c)
  <2>1. /\ Accounts!GoTo(c, Accounts!Idle) /\ TablesStay /\ r.step = "touch"
      BY <1>7 DEF Accounts!Touch, Accounts!At, Accounts!Return, TablesStay, Accounts!directory, Accounts!people, Accounts!membership
  <2>2. QED
      BY <1>0, <1>2, <2>1 DEF VisitEffect, VisitReads
<1>8. ASSUME NEW u, Accounts!Account(c) = u, r.step \in {"target", "claimed", "upsert"} PROVE u \in People
    BY <1>0, <1>8, VisitShape DEF Accounts!Account
<1>9. CASE Accounts!FindAutoJoinTarget(c)
  <2> DEFINE claiming == [step |-> "claimed", user |-> r.user]
             joining == Accounts!With("user", r.user, claim.tenant, "project_member", FALSE)
  <2>1. r.step = "target" /\ r.user \in People /\ TablesStay /\ Accounts!GoTo(c, IF claim.open THEN joining ELSE claiming)
      BY <1>0, <1>1, <1>9, VisitShape
         DEF Accounts!FindAutoJoinTarget, Accounts!At, Accounts!Read, Accounts!Account
  <2>2. CASE claim.open
    <3>1. claim.tenant \in Tenants
        BY <2>2 DEF AccountTypes, Accounts!Claims, Accounts!NoClaim
    <3>2. joining \in Accounts!Requests
        BY <2>1, <3>1, LateVisit DEF Accounts!Late, Accounts!Roles
    <3>3. joining.step = "user" /\ joining.slug = "project_member" /\ ~joining.sso
        BY DEF Accounts!With
    <3> HIDE DEF joining
    <3>4. VisitReads(c, joining) /\ Accounts!GoTo(c, joining)
        BY <2>1, <2>2, <3>3 DEF VisitReads
    <3>5. QED
        BY <1>2, <3>2, <3>4 DEF VisitEffect
  <2>3. CASE ~claim.open
    <3>1. claiming \in Accounts!Requests /\ claiming.step = "claimed"
        BY <2>1, EarlyVisit DEF Accounts!Early
    <3>2. Accounts!GoTo(c, claiming)
        BY <2>1, <2>3
    <3> HIDE DEF claiming
    <3>3. VisitReads(c, claiming)
        BY <2>1, <3>1 DEF VisitReads
    <3>4. QED
        BY <1>2, <3>1, <3>2, <3>3 DEF VisitEffect
  <2>4. QED
      BY <2>2, <2>3
<1>10. CASE Accounts!IsDomainClaimed(c)
  <2> DEFINE q == [step |-> "provision", user |-> r.user, claims |-> claim = Accounts!NoClaim]
  <2>1. r.step = "claimed" /\ r.user \in People /\ TablesStay /\ Accounts!GoTo(c, q)
      BY <1>0, <1>1, <1>10, VisitShape
         DEF Accounts!IsDomainClaimed, Accounts!At, Accounts!Read, Accounts!Account
  <2>2. q \in Accounts!Requests /\ q.step = "provision"
      BY <2>1 DEF Accounts!Requests
  <2> HIDE DEF q
  <2>3. VisitReads(c, q)
      BY <2>1, <2>2 DEF VisitReads
  <2>4. QED
      BY <1>2, <2>1, <2>2, <2>3 DEF VisitEffect
<1>11. CASE Accounts!UpsertBySsoIdentity(c)
  <2>1. PICK step \in {"identity", "create sso user"} :
            /\ r.step = "upsert" /\ r.user \in People /\ TablesStay
            /\ \/ Accounts!GoTo(c, Accounts!Provisioned(c))
               \/ Accounts!GoTo(c, [step |-> step, user |-> r.user])
      BY <1>0, <1>1, <1>11, VisitShape
         DEF Accounts!UpsertBySsoIdentity, Accounts!At, Accounts!Read, Accounts!Account
  <2>2. CASE Accounts!GoTo(c, Accounts!Provisioned(c))
    <3>1. /\ Accounts!Provisioned(c) \in Accounts!Requests
          /\ Accounts!Provisioned(c).step = "keycard" /\ Accounts!Provisioned(c).sso
          /\ Accounts!Provisioned(c).slug = "project_member"
        BY <2>1, ProvisionedVisit
    <3>2. VisitReads(c, Accounts!Provisioned(c))
        BY <2>1, <3>1 DEF VisitReads
    <3>3. QED
        BY <1>2, <2>2, <3>1, <3>2 DEF VisitEffect
  <2>3. CASE Accounts!GoTo(c, [step |-> step, user |-> r.user])
    <3> DEFINE q == [step |-> step, user |-> r.user]
    <3>1. q \in Accounts!Requests /\ q.step = step
        BY <2>1, EarlyVisit DEF Accounts!Early
    <3>2. Accounts!GoTo(c, q)
        BY <2>3
    <3> HIDE DEF q
    <3>3. VisitReads(c, q)
        BY <2>1, <3>1 DEF VisitReads
    <3>4. QED
        BY <1>2, <3>1, <3>2, <3>3 DEF VisitEffect
  <2>4. QED
      BY <2>1, <2>2, <2>3
<1>12. ASSUME NEW t \in Tenants, Accounts!ProvisionTenant(c, t)
       PROVE  \E q \in Accounts!Requests : Done(q)
  <2> DEFINE q == Accounts!With("user", r.user, t, "workspace_admin", FALSE)
  <2>1. /\ r.step = "provision" /\ r.user \in People /\ t \notin tenants /\ Accounts!GoTo(c, q)
        /\ tenants' = tenants \cup {t} /\ founder' = [founder EXCEPT ![t] = r.user]
        /\ UNCHANGED <<account, identity, keycard, memberRow, role, cuts>>
      BY <1>0, <1>12, VisitShape
         DEF Accounts!ProvisionTenant, Accounts!At, Accounts!Account, Accounts!people, Accounts!membership
  <2>2. q \in Accounts!Requests
      BY <2>1, LateVisit DEF Accounts!Late, Accounts!Roles
  <2>3. q.step = "user" /\ q.user = r.user /\ q.tenant = t /\ q.slug = "workspace_admin" /\ ~q.sso
      BY DEF Accounts!With
  <2> HIDE DEF q
  <2>4. VisitProvisions(c, q)
      BY <2>1, <2>3 DEF VisitProvisions
  <2>5. QED
      BY <1>2, <2>1, <2>2, <2>4 DEF VisitEffect
<1>13. CASE Accounts!CreateSsoUser(c)
  <2> DEFINE q == [r EXCEPT !.step = "identity"]
  <2>1. /\ r.step = "create sso user" /\ r.user \notin account /\ Accounts!GoTo(c, q)
        /\ account' = account \cup {r.user}
        /\ UNCHANGED <<tenants, founder, identity, keycard, memberRow, role, cuts>>
      BY <1>13 DEF Accounts!CreateSsoUser, Accounts!At, Accounts!Account, Accounts!Then, Accounts!Refused,
         Accounts!directory, Accounts!membership
  <2>2. r.user \in People /\ r = [step |-> r.step, user |-> r.user]
      BY <1>0, <2>1, VisitShape DEF Accounts!Early
  <2>3. q = [step |-> "identity", user |-> r.user]
      BY <2>2
  <2>4. q \in Accounts!Requests /\ q.step = "identity" /\ q.user = r.user
      BY <2>2, <2>3, EarlyVisit DEF Accounts!Early
  <2> HIDE DEF q
  <2>5. VisitCreatesUser(c, q)
      BY <2>1, <2>4 DEF VisitCreatesUser
  <2>6. QED
      BY <1>2, <2>1, <2>4, <2>5 DEF VisitEffect
<1>14. CASE Accounts!LinkIdentity(c)
  <2>1. /\ r.step = "identity" /\ r.user \in People /\ Accounts!GoTo(c, Accounts!Provisioned(c))
        /\ identity' = identity \cup {r.user}
        /\ UNCHANGED <<tenants, founder, account, keycard, memberRow, role, cuts>>
      BY <1>0, <1>14, VisitShape DEF Accounts!LinkIdentity, Accounts!At, Accounts!Account,
         Accounts!directory, Accounts!membership
  <2>2. /\ Accounts!Provisioned(c) \in Accounts!Requests
        /\ Accounts!Provisioned(c).step = "keycard" /\ Accounts!Provisioned(c).sso
        /\ Accounts!Provisioned(c).slug = "project_member" /\ Accounts!Provisioned(c).user = r.user
      BY <2>1, ProvisionedVisit
  <2>3. VisitLinks(c, Accounts!Provisioned(c))
      BY <2>1, <2>2 DEF VisitLinks
  <2>4. QED
      BY <1>2, <2>1, <2>2, <2>3 DEF VisitEffect
<1>15. ASSUME NEW step \in Accounts!Late, r.step \in Accounts!Late, Accounts!Then(c, step),
              \A q : q.step = step /\ SameVisit(c, q) => VisitEffect(c, q)
       PROVE  \E q \in Accounts!Requests : Done(q)
  <2> DEFINE q == [r EXCEPT !.step = step]
  <2>1. q \in Accounts!Requests /\ q.step = step /\ SameVisit(c, q)
      BY <1>15, NextStep
  <2>2. Accounts!GoTo(c, q)
      BY <1>15 DEF Accounts!Then
  <2>3. QED
      BY <1>2, <1>15, <2>1, <2>2
<1>16. CASE Accounts!CreateUser(c)
  <2>1. /\ r.step = "user" /\ r.user \notin account /\ Accounts!Then(c, "keycard")
        /\ account' = account \cup {r.user}
        /\ UNCHANGED <<tenants, founder, identity, keycard, memberRow, role, cuts>>
      BY <1>16 DEF Accounts!CreateUser, Accounts!At, Accounts!Account, Accounts!Refused,
         Accounts!directory, Accounts!membership
  <2>2. \A q : q.step = "keycard" /\ SameVisit(c, q) => VisitCreatesUser(c, q)
      BY <2>1 DEF VisitCreatesUser, SameVisit
  <2>3. QED
      BY <1>15, <2>1, <2>2 DEF VisitEffect, Accounts!Late
<1>17. CASE Accounts!CreateKeycard(c) \/ Accounts!EnrollMember(c)
  <2>1. CASE Accounts!CreateKeycard(c)
    <3> DEFINE step == IF r.sso THEN "role" ELSE "member"
    <3>1. /\ r.step = "keycard" /\ Accounts!Then(c, step)
          /\ keycard' = keycard \cup {Accounts!Pair(c)}
          /\ UNCHANGED <<tenants, founder, account, identity, memberRow, role, cuts>>
        BY <2>1 DEF Accounts!CreateKeycard, Accounts!At, Accounts!directory, Accounts!people
    <3>2. \A q : q.step = step /\ SameVisit(c, q) => VisitJoins(c, q)
        BY <3>1 DEF VisitJoins, SameVisit
    <3>3. step \in Accounts!Late /\ r.step \in Accounts!Late
        BY <3>1 DEF Accounts!Late
    <3> HIDE DEF step
    <3>4. QED
        BY <1>15, <3>1, <3>2, <3>3 DEF VisitEffect
  <2>2. CASE Accounts!EnrollMember(c)
    <3>1. /\ r.step = "member" /\ Accounts!Then(c, "role")
          /\ memberRow' = memberRow \cup {Accounts!Pair(c)}
          /\ UNCHANGED <<tenants, founder, account, identity, keycard, role, cuts>>
        BY <2>2 DEF Accounts!EnrollMember, Accounts!At, Accounts!directory, Accounts!people
    <3>2. \A q : q.step = "role" /\ SameVisit(c, q) => VisitJoins(c, q)
        BY <3>1 DEF VisitJoins
    <3>3. QED
        BY <1>15, <3>1, <3>2 DEF VisitEffect, Accounts!Late
  <2>3. QED
      BY <1>17, <2>1, <2>2
<1>18. CASE Accounts!EnsureDefaultRole(c) \/ Accounts!IssueSession(c)
  <2> DEFINE p == Accounts!Pair(c)
  <2>1. PICK step \in Accounts!Late :
            /\ Accounts!Then(c, step) /\ UNCHANGED All
            /\ \/ r.step = "session" /\ step = "touch"
               \/ r.step = "role" /\ step = "insertRole" /\ role[p] = {}
               \/ r.step = "role" /\ step = "session" /\ role[p] # {}
               \/ r.step = "role" /\ step = "elevate" /\ role[p] # {} /\ r.user \in PlatformAdmins
               \/ r.step = "elevate" /\ step \in {"insertElevated", "session"}
    <3>1. CASE Accounts!At(c, "session") /\ Accounts!IssueSession(c)
      <4>1. "touch" \in Accounts!Late
          BY DEF Accounts!Late
      <4>2. QED
          BY <3>1, <4>1 DEF Accounts!IssueSession, Accounts!At, Accounts!Read, Accounts!Then
    <3>2. CASE Accounts!At(c, "role") /\ Accounts!EnsureDefaultRole(c)
      <4> DEFINE step == IF role[p] = {} THEN "insertRole" ELSE Accounts!AfterRole(c)
      <4>1. step \in Accounts!Late
          BY DEF Accounts!Late, Accounts!AfterRole
      <4>2. Accounts!Then(c, step) /\ UNCHANGED All /\ r.step = "role"
          BY <3>2 DEF Accounts!EnsureDefaultRole, Accounts!At, Accounts!Read, Accounts!Then
      <4>3. \/ step = "insertRole" /\ role[p] = {}
            \/ step = "session" /\ role[p] # {}
            \/ step = "elevate" /\ role[p] # {} /\ r.user \in PlatformAdmins
          BY DEF Accounts!AfterRole, Accounts!Elevated, Accounts!Account
      <4> HIDE DEF step
      <4>4. QED
          BY <4>1, <4>2, <4>3
    <3>3. CASE Accounts!At(c, "elevate") /\ Accounts!EnsureDefaultRole(c)
      <4> DEFINE step == IF role[p] = {} THEN "insertElevated" ELSE "session"
      <4>1. step \in Accounts!Late /\ step \in {"insertElevated", "session"}
          BY DEF Accounts!Late
      <4>2. Accounts!Then(c, step) /\ UNCHANGED All /\ r.step = "elevate"
          BY <3>3 DEF Accounts!EnsureDefaultRole, Accounts!At, Accounts!Read, Accounts!Then
      <4> HIDE DEF step
      <4>3. QED
          BY <4>1, <4>2
    <3>4. QED
        BY <1>18, <3>1, <3>2, <3>3 DEF Accounts!EnsureDefaultRole, Accounts!IssueSession
  <2>2. TablesStay
      BY <1>1, <2>1
  <2>3. \A q : q.step = step /\ SameVisit(c, q) => VisitGoesOn(c, q)
      BY <2>1, <2>2 DEF VisitGoesOn, SameVisit
  <2>4. r.step \in Accounts!Late
      BY <2>1 DEF Accounts!Late
  <2>5. QED
      BY <1>15, <2>1, <2>3, <2>4 DEF VisitEffect
<1>19. CASE Accounts!CreateAssignment(c)
  <2> DEFINE p == Accounts!Pair(c)
  <2>1. PICK step \in Accounts!Late, slug \in Accounts!Roles :
            /\ Accounts!Then(c, step)
            /\ role' = [role EXCEPT ![p] = @ \cup {slug}]
            /\ UNCHANGED <<tenants, founder, account, identity, keycard, memberRow, cuts>>
            /\ \/ /\ r.step = "insertRole" /\ slug = r.slug
                  /\ step = "session" \/ (step = "elevate" /\ r.user \in PlatformAdmins)
               \/ r.step = "insertElevated" /\ slug = "workspace_admin" /\ step = "session"
    <3>1. CASE Accounts!At(c, "insertRole") /\ Accounts!Assign(c, r.slug, Accounts!AfterRole(c))
      <4>1. r.slug \in Accounts!Roles
          BY <1>0, <3>1, VisitShape DEF Accounts!At, Accounts!Late
      <4>2. Accounts!AfterRole(c) \in Accounts!Late
          BY DEF Accounts!Late, Accounts!AfterRole
      <4>3. Accounts!AfterRole(c) = "session" \/ (Accounts!AfterRole(c) = "elevate" /\ r.user \in PlatformAdmins)
          BY DEF Accounts!AfterRole, Accounts!Elevated, Accounts!Account
      <4>4. QED
          BY <3>1, <4>1, <4>2, <4>3
             DEF Accounts!At, Accounts!Assign, Accounts!directory, Accounts!people
    <3>2. CASE Accounts!At(c, "insertElevated") /\ Accounts!Assign(c, "workspace_admin", "session")
      <4>1. "workspace_admin" \in Accounts!Roles /\ "session" \in Accounts!Late
          BY DEF Accounts!Roles, Accounts!Late
      <4>2. QED
          BY <3>2, <4>1 DEF Accounts!At, Accounts!Assign, Accounts!directory, Accounts!people
    <3>3. QED
        BY <1>19, <3>1, <3>2 DEF Accounts!CreateAssignment
  <2>2. \A q : q.step = step /\ SameVisit(c, q) => VisitAssigns(c, q)
      BY <2>1 DEF VisitAssigns, SameVisit
  <2>3. r.step \in Accounts!Late
      BY <2>1 DEF Accounts!Late
  <2>4. QED
      BY <1>15, <2>1, <2>2, <2>3 DEF VisitEffect
<1>20. QED
    BY <1>3, <1>4, <1>5, <1>6, <1>7, <1>9, <1>10, <1>11, <1>12, <1>13, <1>14, <1>16, <1>17, <1>18, <1>19
       DEF Visit

(* Steps keep the types the proofs below rest on.                          *)
LEMMA AccountTypeStep ==
    ASSUME AccountTypes, Accounts!Next
    PROVE  AccountTypes'
<1>1. claim' \in Accounts!Claims
  <2>1. CASE Accounts!OpenDomain
    <3>1. claim \in [tenant : Tenants, open : BOOLEAN]
        BY <2>1 DEF Accounts!OpenDomain, AccountTypes, Accounts!Claims
    <3>2. [claim EXCEPT !.open = TRUE] \in [tenant : Tenants, open : BOOLEAN]
        BY <3>1
    <3>3. QED
        BY <2>1, <3>2 DEF Accounts!OpenDomain, Accounts!Claims
  <2>2. ASSUME NEW c \in Visitors, NEW t \in Tenants, Accounts!ProvisionTenant(c, t) PROVE claim' \in Accounts!Claims
      BY <2>2 DEF Accounts!ProvisionTenant, AccountTypes, Accounts!Claims
  <2>3. ASSUME NEW c \in Visitors, Visit(c), ~\E t \in Tenants : Accounts!ProvisionTenant(c, t) PROVE claim' = claim
      BY <2>3 DEF Visit, Accounts!directory, Accounts!Begin, Accounts!Read, Accounts!Signup, Accounts!SsoUnknown,
         Accounts!Login, Accounts!SsoKnown, Accounts!FindAutoJoinTarget, Accounts!IsDomainClaimed, Accounts!Refuse,
         Accounts!CreateUser, Accounts!CreateKeycard, Accounts!EnrollMember, Accounts!EnsureDefaultRole,
         Accounts!CreateAssignment, Accounts!Assign, Accounts!UpsertBySsoIdentity, Accounts!CreateSsoUser,
         Accounts!LinkIdentity, Accounts!IssueSession, Accounts!Touch, Accounts!Fail
  <2>4. QED
      BY <2>1, <2>2, <2>3, VisitCases DEF AccountTypes
<1>2. CASE Accounts!OpenDomain
    BY <1>1, <1>2 DEF Accounts!OpenDomain, AccountTypes, Accounts!people, Accounts!membership
<1>3. ASSUME NEW c \in Visitors, NEW q \in Accounts!Requests,
             joinRequest' = [joinRequest EXCEPT ![c] = q], VisitEffect(c, q)
      PROVE  AccountTypes'
  <2> DEFINE r == joinRequest[c]
  <2>0. r \in Accounts!Requests
      BY DEF AccountTypes
  <2>1. joinRequest' \in [Visitors -> Accounts!Requests]
      BY <1>3 DEF AccountTypes
  <2>2. CASE UNCHANGED <<tenants, founder, account, identity, role>> /\ (cuts' = cuts \/ cuts' = cuts + 1)
      BY <1>1, <2>1, <2>2 DEF AccountTypes
  <2>3. CASE VisitProvisions(c, q)
    <3>1. q.user \in People
        BY <2>0, <2>3, VisitShape DEF VisitProvisions, Accounts!Idle
    <3>2. QED
        BY <1>1, <2>1, <2>3, <3>1 DEF VisitProvisions, AccountTypes
  <2>4. CASE VisitCreatesUser(c, q)
    <3>1. q.user \in People
        BY <2>0, <2>4, VisitShape DEF VisitCreatesUser, Accounts!Idle
    <3>2. QED
        BY <1>1, <2>1, <2>4, <3>1 DEF VisitCreatesUser, AccountTypes
  <2>5. CASE VisitLinks(c, q)
    <3>1. q.user \in People
        BY <2>0, <2>5, VisitShape DEF VisitLinks, Accounts!Idle
    <3>2. QED
        BY <1>1, <2>1, <2>5, <3>1 DEF VisitLinks, AccountTypes
  <2>6. CASE VisitAssigns(c, q)
    <3>1. Accounts!Pair(c) \in People \X Tenants
        BY <2>0, <2>6, VisitShape DEF VisitAssigns, Accounts!Pair, Accounts!Idle, Accounts!Late
    <3>2. QED
        BY <1>1, <2>1, <2>6, <3>1 DEF VisitAssigns, AccountTypes
  <2>7. QED
      BY <1>3, <2>2, <2>3, <2>4, <2>5, <2>6
         DEF VisitEffect, VisitReads, VisitGoesOn, VisitRefused, VisitFails, VisitJoins, TablesStay
<1>4. QED
    BY <1>2, <1>3, VisitCases, VisitStep

-----------------------------------------------------------------------------
(* Whoever is about to become an admin, or is one, has founded the tenant  *)
(* or is a platform admin; and what was founded is there, so that nobody   *)
(* else founds it.                                                         *)
AdminsToBe ==
    \A c \in Visitors :
        /\ /\ joinRequest[c].step \in Accounts!Late
           /\ joinRequest[c].slug = "workspace_admin"
           => /\ joinRequest[c].tenant \in tenants
              /\ founder[joinRequest[c].tenant] = joinRequest[c].user
        /\ joinRequest[c].step \in {"elevate", "insertElevated"} => joinRequest[c].user \in PlatformAdmins
Admins ==
    \A u \in People, t \in Tenants :
        "workspace_admin" \in role[<<u, t>>] =>
            \/ u \in PlatformAdmins
            \/ t \in tenants /\ founder[t] = u

AdminInv == AccountTypes /\ AdminsToBe /\ Admins

(* Every step keeps the invariant of administrators.                       *)
LEMMA AdminStep ==
    ASSUME AdminInv, Accounts!Next
    PROVE  AdminInv'
<1>1. AccountTypes /\ AccountTypes' /\ AdminsToBe /\ Admins
    BY AccountTypeStep DEF AdminInv
<1>2. CASE Accounts!OpenDomain
    BY <1>1, <1>2 DEF Accounts!OpenDomain, AdminInv, AdminsToBe, Admins, Accounts!membership
<1>3. ASSUME NEW c \in Visitors, NEW q \in Accounts!Requests,
             joinRequest' = [joinRequest EXCEPT ![c] = q], VisitEffect(c, q)
      PROVE  AdminInv'
  <2> DEFINE r == joinRequest[c]
  <2>0. /\ r \in Accounts!Requests /\ joinRequest \in [Visitors -> Accounts!Requests]
        /\ \A d \in Visitors : joinRequest'[d] = IF d = c THEN q ELSE joinRequest[d]
      BY <1>1, <1>3 DEF AccountTypes
  <2>1. ASSUME NEW t \in tenants PROVE t \in tenants' /\ founder'[t] = founder[t]
      BY <1>1, <1>3, <2>1 DEF VisitEffect, VisitReads, VisitGoesOn, VisitRefused, VisitFails, VisitProvisions,
         VisitCreatesUser, VisitLinks, VisitJoins, VisitAssigns, TablesStay, AccountTypes
  <2>2. /\ q.step \in Accounts!Late /\ q.slug = "workspace_admin"
           => q.tenant \in tenants' /\ founder'[q.tenant] = q.user
        /\ q.step \in {"elevate", "insertElevated"} => q.user \in PlatformAdmins
    <3>1. CASE VisitProvisions(c, q)
        BY <1>1, <3>1 DEF VisitProvisions, AccountTypes
    <3>2. ASSUME SameVisit(c, q), r.step \in Accounts!Late
          PROVE  q.slug = "workspace_admin" => q.tenant \in tenants' /\ founder'[q.tenant] = q.user
        BY <1>1, <2>1, <3>2 DEF SameVisit, AdminsToBe
    <3>3. CASE VisitGoesOn(c, q)
      <4>1. r.step \in Accounts!Late
          BY <3>3 DEF VisitGoesOn, Accounts!Late
      <4>2. q.step \in {"elevate", "insertElevated"} => q.user \in PlatformAdmins
          BY <1>1, <3>3 DEF VisitGoesOn, SameVisit, AdminsToBe
      <4>3. QED
          BY <3>2, <3>3, <4>1, <4>2 DEF VisitGoesOn
    <3>4. CASE VisitJoins(c, q) \/ VisitAssigns(c, q)
      <4>1. r.step \in Accounts!Late
          BY <3>4 DEF VisitJoins, VisitAssigns, Accounts!Late
      <4>2. q.step \in {"elevate", "insertElevated"} => q.user \in PlatformAdmins
          BY <3>4 DEF VisitJoins, VisitAssigns
      <4>3. QED
          BY <3>2, <3>4, <4>1, <4>2 DEF VisitJoins, VisitAssigns
    <3>5. CASE VisitCreatesUser(c, q)
      <4>1. CASE SameVisit(c, q) /\ r.step = "user" /\ q.step = "keycard"
          BY <3>2, <4>1 DEF Accounts!Late
      <4>2. CASE q.step = "identity"
          BY <4>2 DEF Accounts!Late
      <4>3. QED
          BY <3>5, <4>1, <4>2 DEF VisitCreatesUser
    <3>6. CASE VisitReads(c, q)
        BY <3>6 DEF VisitReads, Accounts!Late
    <3>7. CASE VisitRefused(c, q) \/ VisitFails(c, q) \/ VisitLinks(c, q)
        BY <3>7 DEF VisitRefused, VisitFails, VisitLinks, Accounts!Late, Accounts!Idle
    <3>8. QED
        BY <1>3, <3>1, <3>3, <3>4, <3>5, <3>6, <3>7 DEF VisitEffect
  <2>3. AdminsToBe'
      BY <1>1, <2>0, <2>1, <2>2 DEF AdminsToBe
  <2>4. Admins'
    <3>1. CASE role' = role
        BY <1>1, <2>1, <3>1 DEF Admins
    <3>2. CASE VisitAssigns(c, q)
      <4>1. r.user \in People /\ r.tenant \in Tenants /\ r.step \in Accounts!Late
          BY <2>0, <3>2, VisitShape DEF VisitAssigns, Accounts!Late, Accounts!Idle
      <4>2. PICK slug : /\ role' = [role EXCEPT ![<<r.user, r.tenant>>] = @ \cup {slug}]
                        /\ \/ slug = r.slug
                           \/ r.user \in PlatformAdmins
          BY <1>1, <3>2 DEF VisitAssigns, SameVisit, Accounts!Pair, AdminsToBe
      <4>3. slug = "workspace_admin" => \/ r.user \in PlatformAdmins
                                        \/ r.tenant \in tenants /\ founder[r.tenant] = r.user
          BY <1>1, <4>1, <4>2 DEF AdminsToBe
      <4>4. ASSUME NEW u \in People, NEW t \in Tenants, "workspace_admin" \in role'[<<u, t>>]
            PROVE  u \in PlatformAdmins \/ (t \in tenants /\ founder[t] = u)
        <5>1. CASE "workspace_admin" \in role[<<u, t>>]
            BY <1>1, <5>1 DEF Admins
        <5>2. CASE "workspace_admin" \notin role[<<u, t>>]
          <6>1. u = r.user /\ t = r.tenant /\ slug = "workspace_admin"
              BY <1>1, <4>1, <4>2, <4>4, <5>2 DEF AccountTypes
          <6>2. QED
              BY <4>3, <6>1
        <5>3. QED
            BY <5>1, <5>2
      <4>5. QED
          BY <2>1, <4>4 DEF Admins
    <3>3. QED
        BY <1>3, <3>1, <3>2 DEF VisitEffect, VisitReads, VisitGoesOn, VisitRefused, VisitFails, VisitProvisions,
           VisitCreatesUser, VisitLinks, VisitJoins, TablesStay
  <2>5. QED
      BY <1>1, <2>3, <2>4 DEF AdminInv
<1>4. QED
    BY <1>1, <1>2, <1>3, VisitCases, VisitStep

(* The types hold of the empty tables.                                     *)
LEMMA AccountInit == Accounts!Init => AccountTypes
<1>1. Home \in Tenants
    BY AccountsAssumption DEF Accounts!HomeAssumption
<1>2. QED
    BY <1>1 DEF Accounts!Init, AccountTypes, Accounts!Claims, Accounts!Requests

(* Who joins by a domain, or comes by SSO, never becomes an admin, however *)
(* requests for the same address and domain interleave, and wherever they  *)
(* are cut off: the admins of a tenant are the one it was provisioned for  *)
(* and the platform admins.                                                *)
THEOREM FoundersAreAdmins == AccountsSpec => []AdminsAreFounders
<1>1. Accounts!Init => AdminInv
    BY AccountInit DEF AdminInv, AdminsToBe, Admins, Accounts!Init, Accounts!Idle, Accounts!Late
<1>2. AdminInv /\ UNCHANGED Accounts!vars => AdminInv'
    BY DEF AdminInv, AccountTypes, AdminsToBe, Admins, Accounts!vars, Accounts!directory, Accounts!people,
       Accounts!membership
<1>3. AdminInv /\ [Accounts!Next]_Accounts!vars => AdminInv'
    BY <1>2, AdminStep
<1>4. AdminInv => AdminsAreFounders
    BY DEF AdminInv, Admins, AdminsAreFounders, Accounts!AdminsAreFounders
<1>5. QED
    BY <1>1, <1>3, <1>4, PTL DEF AccountsSpec, Accounts!Spec

-----------------------------------------------------------------------------
(* Who has a keycard with a role, and the requests that bring one.         *)
CanLogin(u) == \E t \in Accounts!Keycards(u) : role[<<u, t>>] # {}
For(c, u, steps) == joinRequest[c].step \in steps /\ joinRequest[c].user = u
Enrolls(c, u) == For(c, u, {"keycard", "member", "role", "insertRole"})

(* A signup that has created its user is the only one of that user: it is  *)
(* the one that makes the member.                                          *)
Registers(c) ==
    joinRequest[c].step \in {"keycard", "member"} /\ ~joinRequest[c].sso
OneSignup ==
    /\ \A c \in Visitors : Registers(c) =>
          joinRequest[c].user \in account /\ Accounts!Pair(c) \notin memberRow
    /\ \A c, d \in Visitors :
          Registers(c) /\ Registers(d) /\ joinRequest[c].user = joinRequest[d].user => c = d
    /\ \A c \in Visitors : joinRequest[c].step = "member" => ~joinRequest[c].sso
    /\ \A u \in People, t \in Tenants : <<u, t>> \in memberRow => u \in account
KeycardFirst ==
    \A c \in Visitors :
        joinRequest[c].step \in {"member", "role", "insertRole"} => Accounts!Pair(c) \in keycard
Served ==
    cuts = 0 =>
        /\ \A u \in identity : CanLogin(u) \/ \E c \in Visitors : Enrolls(c, u)
        /\ \A u \in account :
              \/ CanLogin(u)
              \/ \E c \in Visitors : Enrolls(c, u) \/ For(c, u, {"identity"})

LoginInv == AccountTypes /\ OneSignup /\ KeycardFirst /\ Served

(* The invariant of logins reads nothing but these tables.                 *)
LEMMA LoginStutter ==
    ASSUME OneSignup, KeycardFirst, Served,
           UNCHANGED <<account, identity, keycard, memberRow, role, cuts, joinRequest>>
    PROVE  OneSignup' /\ KeycardFirst' /\ Served'
<1>1. OneSignup'
    BY DEF OneSignup, Registers, Accounts!Pair
<1>2. KeycardFirst'
    BY DEF KeycardFirst, Accounts!Pair
<1>3. \A u : CanLogin(u)' = CanLogin(u)
    BY DEF CanLogin, Accounts!Keycards
<1>4. \A c, u, steps : For(c, u, steps)' = For(c, u, steps)
    BY DEF For
<1>5. Served'
    BY <1>3, <1>4 DEF Served, Enrolls
<1>6. QED
    BY <1>1, <1>2, <1>5

(* Every step keeps the invariant of logins.                               *)
LEMMA LoginStep ==
    ASSUME LoginInv, Accounts!Next
    PROVE  LoginInv'
<1>1. AccountTypes /\ AccountTypes' /\ OneSignup /\ KeycardFirst /\ Served
    BY AccountTypeStep DEF LoginInv
<1>2. CASE Accounts!OpenDomain
  <2>1. UNCHANGED <<account, identity, keycard, memberRow, role, cuts, joinRequest>>
      BY <1>2 DEF Accounts!OpenDomain, Accounts!membership, Accounts!people
  <2>2. QED
      BY <1>1, <2>1, LoginStutter DEF LoginInv
<1>3. ASSUME NEW c \in Visitors, NEW q \in Accounts!Requests,
             joinRequest' = [joinRequest EXCEPT ![c] = q], VisitEffect(c, q)
      PROVE  LoginInv'
  <2> DEFINE r == joinRequest[c]
  <2>0. /\ r \in Accounts!Requests /\ joinRequest \in [Visitors -> Accounts!Requests]
        /\ joinRequest'[c] = q
        /\ \A d \in Visitors \ {c} : joinRequest'[d] = joinRequest[d]
        /\ r.step # "idle" => r.user \in People
        /\ r.step \in Accounts!Late => r.tenant \in Tenants
      BY <1>1, <1>3, VisitShape DEF AccountTypes
  <2>1. /\ keycard \subseteq keycard' /\ account \subseteq account' /\ identity \subseteq identity'
        /\ \A u \in People, t \in Tenants : role[<<u, t>>] \subseteq role'[<<u, t>>]
    <3>1. CASE VisitAssigns(c, q)
        BY <1>1, <3>1 DEF VisitAssigns, AccountTypes
    <3>2. QED
        BY <1>3, <3>1 DEF VisitEffect, VisitReads, VisitGoesOn, VisitRefused, VisitFails, VisitProvisions,
           VisitCreatesUser, VisitLinks, VisitJoins, TablesStay
  <2>2. \A u \in People : CanLogin(u) => CanLogin(u)'
      BY <2>1 DEF CanLogin, Accounts!Keycards
  <2>3. KeycardFirst'
    <3>1. q.step \in {"member", "role", "insertRole"} => <<q.user, q.tenant>> \in keycard'
      <4>1. CASE VisitJoins(c, q)
          BY <1>1, <2>1, <4>1 DEF VisitJoins, SameVisit, KeycardFirst, Accounts!Pair
      <4>2. CASE VisitGoesOn(c, q)
          BY <1>1, <2>1, <4>2 DEF VisitGoesOn, SameVisit, KeycardFirst, Accounts!Pair
      <4>3. CASE ~VisitJoins(c, q) /\ ~VisitGoesOn(c, q)
        <5>1. CASE VisitRefused(c, q) \/ VisitFails(c, q)
            BY <5>1 DEF VisitRefused, VisitFails, Accounts!Idle
        <5>2. CASE VisitReads(c, q)
            BY <5>2 DEF VisitReads
        <5>3. CASE VisitProvisions(c, q) \/ VisitCreatesUser(c, q) \/ VisitLinks(c, q) \/ VisitAssigns(c, q)
            BY <5>3 DEF VisitProvisions, VisitCreatesUser, VisitLinks, VisitAssigns
        <5>4. QED
            BY <1>3, <4>3, <5>1, <5>2, <5>3 DEF VisitEffect
      <4>4. QED
          BY <4>1, <4>2, <4>3
    <3>2. QED
        BY <1>1, <2>0, <2>1, <3>1 DEF KeycardFirst, Accounts!Pair
  <2>4. OneSignup'
    <3> DEFINE Starts == VisitCreatesUser(c, q) /\ r.step = "user"
               Joins == VisitJoins(c, q)
    <3>1. \A d \in Visitors \ {c} : /\ Registers(d)' = Registers(d)
                                    /\ Accounts!Pair(d)' = Accounts!Pair(d)
        BY <2>0 DEF Registers, Accounts!Pair
    <3>2. CASE Starts
      <4>1. /\ q.user = r.user /\ q.user \notin account /\ account' = account \cup {q.user} /\ memberRow' = memberRow
            /\ q.step = "keycard"
          BY <3>2 DEF VisitCreatesUser
      <4>2. r.user \in People /\ r.tenant \in Tenants /\ q.tenant = r.tenant
          BY <2>0, <3>2 DEF VisitCreatesUser, SameVisit, Accounts!Late
      <4>3. <<q.user, q.tenant>> \notin memberRow
          BY <1>1, <4>1, <4>2 DEF OneSignup
      <4>4. \A d \in Visitors \ {c} : Registers(d) => joinRequest[d].user # q.user
          BY <1>1, <4>1 DEF OneSignup
      <4>5. QED
          BY <1>1, <2>0, <3>1, <4>1, <4>3, <4>4 DEF OneSignup, Registers, Accounts!Pair
    <3>3. CASE Joins
      <4>1. CASE r.step = "keycard"
        <5>1. /\ SameVisit(c, q) /\ memberRow' = memberRow /\ account' = account
              /\ q.step = IF q.sso THEN "role" ELSE "member"
            BY <3>3, <4>1 DEF VisitJoins
        <5>2. Registers(c)' => Registers(c)
            BY <2>0, <4>1, <5>1 DEF Registers, SameVisit
        <5>3. Accounts!Pair(c)' = Accounts!Pair(c) /\ q.user = r.user
            BY <2>0, <5>1 DEF SameVisit, Accounts!Pair
        <5>4. q.step = "member" => ~q.sso
            BY <5>1
        <5>5. QED
            BY <1>1, <2>0, <3>1, <5>1, <5>2, <5>3, <5>4 DEF OneSignup
      <4>2. CASE r.step = "member"
        <5>1. /\ SameVisit(c, q) /\ memberRow' = memberRow \cup {<<r.user, r.tenant>>} /\ account' = account
              /\ q.step = "role"
            BY <3>3, <4>2 DEF VisitJoins, Accounts!Pair
        <5>2. Registers(c) /\ ~Registers(c)' /\ r.user \in account
            BY <1>1, <2>0, <4>2, <5>1 DEF Registers, OneSignup
        <5>3. \A d \in Visitors \ {c} : Registers(d) => joinRequest[d].user # r.user
            BY <1>1, <5>2 DEF OneSignup
        <5>4. \A d \in Visitors \ {c} : Registers(d) => Accounts!Pair(d) \notin memberRow'
            BY <1>1, <5>1, <5>3 DEF OneSignup, Accounts!Pair
        <5>5. \A u \in People, t \in Tenants : <<u, t>> \in memberRow' => u \in account
            BY <1>1, <5>1, <5>2 DEF OneSignup
        <5>6. \A d \in Visitors : joinRequest'[d].step = "member" => ~joinRequest'[d].sso
            BY <1>1, <2>0, <5>1 DEF OneSignup
        <5>7. QED
            BY <1>1, <2>0, <3>1, <5>1, <5>2, <5>4, <5>5, <5>6 DEF OneSignup
      <4>3. QED
          BY <3>3, <4>1, <4>2 DEF VisitJoins
    <3>4. CASE ~Starts /\ ~Joins
      <4>1. memberRow' = memberRow /\ account \subseteq account'
          BY <1>3, <2>1, <3>4 DEF VisitEffect, VisitReads, VisitGoesOn, VisitRefused, VisitFails, VisitProvisions,
             VisitCreatesUser, VisitLinks, VisitAssigns, TablesStay
      <4>2. q.step \in {"keycard", "member"} => q.step = "keycard" /\ q.sso
        <5>1. CASE VisitRefused(c, q) \/ VisitFails(c, q)
            BY <5>1 DEF VisitRefused, VisitFails, Accounts!Idle
        <5>2. CASE VisitReads(c, q)
            BY <5>2 DEF VisitReads
        <5>3. CASE VisitGoesOn(c, q)
            BY <5>3 DEF VisitGoesOn
        <5>4. CASE VisitProvisions(c, q) \/ VisitLinks(c, q) \/ VisitAssigns(c, q)
            BY <5>4 DEF VisitProvisions, VisitLinks, VisitAssigns
        <5>5. CASE VisitCreatesUser(c, q)
            BY <3>4, <5>5 DEF VisitCreatesUser
        <5>6. QED
            BY <1>3, <3>4, <5>1, <5>2, <5>3, <5>4, <5>5 DEF VisitEffect
      <4>3. ~Registers(c)'
          BY <2>0, <4>2 DEF Registers
      <4>4. \A d \in Visitors : joinRequest'[d].step = "member" => ~joinRequest'[d].sso
          BY <1>1, <2>0, <4>2 DEF OneSignup
      <4>5. QED
          BY <1>1, <2>0, <3>1, <4>1, <4>3, <4>4 DEF OneSignup
    <3>5. QED
        BY <3>2, <3>3, <3>4
  <2>5. ASSUME cuts' = 0 PROVE cuts = 0 /\ ~VisitFails(c, q)
    <3>1. ~VisitFails(c, q)
        BY <1>1, <2>5 DEF AccountTypes, VisitFails
    <3>2. cuts' = cuts
        BY <1>3, <3>1 DEF VisitEffect, VisitReads, VisitGoesOn, VisitRefused, VisitProvisions,
           VisitCreatesUser, VisitLinks, VisitJoins, VisitAssigns, TablesStay
    <3>3. QED
        BY <2>5, <3>1, <3>2
  <2>6. ASSUME NEW d \in Visitors \ {c}, NEW u, NEW steps PROVE For(d, u, steps)' = For(d, u, steps)
      BY <2>0 DEF For
  <2>7. ASSUME ~VisitFails(c, q), NEW u \in People, Enrolls(c, u)
        PROVE  CanLogin(u)' \/ Enrolls(c, u)'
    <3> DEFINE p == <<r.user, r.tenant>>
    <3>1. /\ r.user = u /\ r.step \in {"keycard", "member", "role", "insertRole"}
          /\ r.tenant \in Tenants /\ Accounts!Pair(c) = p
        BY <2>0, <2>7 DEF Enrolls, For, Accounts!Late, Accounts!Pair
    <3>2. q.user = u /\ q.step \in {"keycard", "member", "role", "insertRole"} => Enrolls(c, u)'
        BY <2>0 DEF Enrolls, For
    <3>3. p \in keycard' /\ role'[p] # {} => CanLogin(u)'
        BY <3>1 DEF CanLogin, Accounts!Keycards
    <3>4. ~VisitRefused(c, q)
      <4>1. r.step # "member" => ~Accounts!Refused(c)
          BY <3>1 DEF Accounts!Refused, Accounts!At
      <4>2. r.step = "member" => ~Accounts!Refused(c)
          BY <1>1 DEF OneSignup, Registers, Accounts!Refused, Accounts!At
      <4>3. QED
          BY <4>1, <4>2 DEF VisitRefused
    <3>5. CASE r.step \in {"keycard", "member"}
      <4>1. VisitJoins(c, q)
          BY <1>3, <2>7, <3>4, <3>5 DEF VisitEffect, VisitReads, VisitGoesOn, VisitProvisions, VisitCreatesUser,
             VisitLinks, VisitAssigns
      <4>2. QED
          BY <3>1, <3>2, <4>1 DEF VisitJoins, SameVisit
    <3>6. CASE r.step = "role"
      <4>1. VisitGoesOn(c, q)
          BY <1>3, <2>7, <3>4, <3>6 DEF VisitEffect, VisitReads, VisitJoins, VisitProvisions, VisitCreatesUser,
             VisitLinks, VisitAssigns
      <4>2. p \in keycard
          BY <1>1, <3>1, <3>6 DEF KeycardFirst
      <4>3. \/ q.user = u /\ q.step = "insertRole"
            \/ role'[p] # {} /\ keycard' = keycard
          BY <3>1, <3>6, <4>1 DEF VisitGoesOn, SameVisit, TablesStay
      <4>4. QED
          BY <3>2, <3>3, <4>2, <4>3
    <3>7. CASE r.step = "insertRole"
      <4>1. VisitAssigns(c, q)
          BY <1>3, <2>7, <3>4, <3>7 DEF VisitEffect, VisitReads, VisitJoins, VisitProvisions, VisitCreatesUser,
             VisitLinks, VisitGoesOn
      <4>2. p \in keycard /\ p \in People \X Tenants
          BY <1>1, <3>1, <3>7 DEF KeycardFirst
      <4>3. PICK slug : role' = [role EXCEPT ![p] = @ \cup {slug}] /\ keycard' = keycard
          BY <3>1, <4>1 DEF VisitAssigns
      <4>4. slug \in role'[p]
          BY <1>1, <4>2, <4>3 DEF AccountTypes
      <4>5. QED
          BY <3>3, <4>2, <4>3, <4>4
    <3>8. QED
        BY <3>1, <3>5, <3>6, <3>7
  <2>8. ASSUME cuts' = 0, NEW u \in People, CanLogin(u) \/ \E d \in Visitors : Enrolls(d, u)
        PROVE  CanLogin(u)' \/ \E d \in Visitors : Enrolls(d, u)'
    <3>1. CASE CanLogin(u)
        BY <2>2, <3>1
    <3>2. ASSUME NEW d \in Visitors, Enrolls(d, u) PROVE CanLogin(u)' \/ Enrolls(d, u)'
        BY <2>5, <2>6, <2>7, <2>8, <3>2 DEF Enrolls
    <3>3. QED
        BY <2>8, <3>1, <3>2
  <2>9. Served'
    <3> SUFFICES ASSUME cuts' = 0
                 PROVE  /\ \A u \in identity' : CanLogin(u)' \/ \E d \in Visitors : Enrolls(d, u)'
                        /\ \A u \in account' :
                              \/ CanLogin(u)'
                              \/ \E d \in Visitors : Enrolls(d, u)' \/ For(d, u, {"identity"})'
        BY DEF Served
    <3>1. ASSUME NEW u \in identity' PROVE CanLogin(u)' \/ \E d \in Visitors : Enrolls(d, u)'
      <4>1. u \in People
          BY <1>1 DEF AccountTypes
      <4>2. CASE u \in identity
          BY <1>1, <2>5, <2>8, <4>1, <4>2 DEF Served
      <4>3. CASE u \notin identity
        <5>1. VisitLinks(c, q) /\ q.user = u
            BY <1>3, <3>1, <4>3 DEF VisitEffect, VisitReads, VisitGoesOn, VisitRefused, VisitFails,
               VisitProvisions, VisitCreatesUser, VisitLinks, VisitJoins, VisitAssigns, TablesStay
        <5>2. Enrolls(c, u)'
            BY <2>0, <5>1 DEF VisitLinks, Enrolls, For
        <5>3. QED
            BY <5>2
      <4>4. QED
          BY <4>2, <4>3
    <3>2. ASSUME NEW u \in account'
          PROVE  \/ CanLogin(u)'
                 \/ \E d \in Visitors : Enrolls(d, u)' \/ For(d, u, {"identity"})'
      <4>1. u \in People
          BY <1>1 DEF AccountTypes
      <4>2. CASE CanLogin(u) \/ \E d \in Visitors : Enrolls(d, u)
          BY <2>8, <4>1, <4>2
      <4>3. ASSUME NEW d \in Visitors, For(d, u, {"identity"})
            PROVE  CanLogin(u)' \/ \E e \in Visitors : Enrolls(e, u)' \/ For(e, u, {"identity"})'
        <5>1. CASE d # c
            BY <2>6, <4>3, <5>1
        <5>2. CASE d = c /\ VisitLinks(c, q)
          <6>1. Enrolls(c, u)'
              BY <2>0, <4>3, <5>2 DEF VisitLinks, Enrolls, For
          <6>2. QED
              BY <6>1
        <5>3. CASE d = c /\ VisitRefused(c, q)
          <6>1. u \in identity
              BY <4>3, <5>3 DEF VisitRefused, Accounts!Refused, Accounts!At, Accounts!Account, For
          <6>2. QED
              BY <2>1, <3>1, <6>1
        <5>4. d = c => VisitLinks(c, q) \/ VisitRefused(c, q)
            BY <1>3, <2>5, <4>3 DEF VisitEffect, VisitReads, VisitJoins, VisitProvisions, VisitCreatesUser,
               VisitAssigns, VisitGoesOn, For
        <5>5. QED
            BY <5>1, <5>2, <5>3, <5>4
      <4>4. CASE u \in account
          BY <1>1, <2>5, <4>2, <4>3, <4>4 DEF Served
      <4>5. CASE u \notin account
        <5>1. VisitCreatesUser(c, q) /\ q.user = u
            BY <1>3, <3>2, <4>5 DEF VisitEffect, VisitReads, VisitGoesOn, VisitRefused, VisitFails,
               VisitProvisions, VisitCreatesUser, VisitLinks, VisitJoins, VisitAssigns, TablesStay
        <5>2. Enrolls(c, u)' \/ For(c, u, {"identity"})'
            BY <2>0, <5>1 DEF VisitCreatesUser, Enrolls, For
        <5>3. QED
            BY <5>2
      <4>6. QED
          BY <4>4, <4>5
    <3>3. QED
        BY <3>1, <3>2
  <2>10. QED
      BY <1>1, <2>3, <2>4, <2>9 DEF LoginInv
<1>4. QED
    BY <1>1, <1>2, <1>3, VisitCases, VisitStep

(* While no request is cut off, who has an account can log in, with a      *)
(* keycard and a role there, once no request for it is in flight; however  *)
(* many signups and SSO logins for one address meet.                       *)
THEOREM AccountsAreUsable == AccountsSpec => []RegisteredCanLogin
<1>1. Accounts!Init => LoginInv
    BY AccountInit DEF LoginInv, OneSignup, KeycardFirst, Served, Registers, Accounts!Init, Accounts!Idle
<1>2. LoginInv /\ UNCHANGED Accounts!vars => LoginInv'
  <2>1. AccountTypes /\ UNCHANGED Accounts!vars => AccountTypes'
      BY DEF AccountTypes, Accounts!vars, Accounts!directory, Accounts!people, Accounts!membership
  <2>2. UNCHANGED Accounts!vars => UNCHANGED <<account, identity, keycard, memberRow, role, cuts, joinRequest>>
      BY DEF Accounts!vars, Accounts!people, Accounts!membership
  <2>3. QED
      BY <2>1, <2>2, LoginStutter DEF LoginInv
<1>3. LoginInv /\ [Accounts!Next]_Accounts!vars => LoginInv'
    BY <1>2, LoginStep
<1>4. LoginInv => RegisteredCanLogin
  <2> SUFFICES ASSUME LoginInv, NEW u \in account, ~(cuts > 0)
               PROVE  \/ \E c \in Visitors : joinRequest[c] # Accounts!Idle /\ Accounts!Account(c) = u
                      \/ \E t \in Accounts!Keycards(u) : role[<<u, t>>] # {}
      BY DEF RegisteredCanLogin, Accounts!RegisteredCanLogin
  <2>1. cuts = 0
      BY DEF LoginInv, AccountTypes
  <2>2. ASSUME NEW c \in Visitors, Enrolls(c, u) \/ For(c, u, {"identity"})
        PROVE  joinRequest[c] # Accounts!Idle /\ Accounts!Account(c) = u
      BY <2>2 DEF Enrolls, For, Accounts!Idle, Accounts!Account
  <2>3. QED
      BY <2>1, <2>2 DEF LoginInv, Served, CanLogin
<1>5. QED
    BY <1>1, <1>3, <1>4, PTL DEF AccountsSpec, Accounts!Spec
=============================================================================
