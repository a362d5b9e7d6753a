---------------------------- MODULE AccessRoles -----------------------------
(***************************************************************************)
(* One user's roles in one tenant (AccessService and its repositories) and *)
(* the access tokens that carry their permissions: read once when a token  *)
(* is minted, at login, refresh or switch, and looked at by PermissionGuard*)
(* until it expires. Every call is a few statements of its own, without a  *)
(* transaction. Routes is what the tokens are good for.                    *)
(*                                                                         *)
(* Time passes in ticks. The code does not bound the time between the read *)
(* and the signature; MaxWait does.                                        *)
(***************************************************************************)
EXTENDS Naturals, FiniteSets, Routes

CONSTANTS
    Ids,       \* role assignments, a bound on their number
    Roles,     \* system roles that are assigned
    Sessions,
    Clients,   \* requests that can be in flight at the same time
    TTL,       \* JWT_ACCESS_EXPIRY, in ticks
    MaxWait    \* bound on the ticks a mint takes

(* What is assumed of the constants.                                       *)
AccessAssumption ==
    /\ Roles \subseteq SystemRoles /\ "project_member" \in Roles
    /\ TTL \in Nat \ {0} /\ MaxWait \in Nat

VARIABLES
    assignment,   \* rows of user_role_assignments
    token,        \* of every session: its access token, and how old it is
    since,        \* history: ticks since the role was last in force
    request       \* of every client: the step it is before, and what it read

vars == <<assignment, token, since, request>>

Default == "workspace_member"
Old == TTL + MaxWait    \* bounds "since"
None == [role |-> "none"]
Idle == [step |-> "idle"]

(* A scope without an id, and a project.                                   *)
Scopes == {[type |-> "workspace", id |-> "NULL"], [type |-> "project", id |-> "p1"]}
Rows == [role : Roles, scope : Scopes]
Requests ==
    {Idle} \cup [step : {"exists", "insert"}, row : Rows]
    \cup [step : {"listed"}] \cup [step : {"delete"}, id : Ids]
    \cup [step : {"mint"}, session : Sessions]
    \cup [step : {"sign"}, session : Sessions, role : Roles \cup {Default}, waited : 0..MaxWait]

TypeOK ==
    /\ assignment \in [Ids -> Rows \cup {None}]
    /\ token \in [Sessions -> [role : Roles \cup {Default}, age : 0..TTL - 1] \cup {None}]
    /\ since \in [Roles \cup {Default} -> 0..Old]
    /\ request \in [Clients -> Requests]

Assigned == {i \in Ids : assignment[i] # None}

(* The roles that say what the user may do; the default one without any.   *)
InForce == IF Assigned = {} THEN {Default} ELSE {assignment[i].role : i \in Assigned}

Init ==
    /\ assignment = [i \in Ids |-> None] /\ token = [s \in Sessions |-> None]
    /\ since = [r \in Roles \cup {Default} |-> IF r = Default THEN 0 ELSE Old]
    /\ request = [c \in Clients |-> Idle]

At(c, step) == request[c].step = step
GoTo(c, r) == request' = [request EXCEPT ![c] = r]
Return(c) == GoTo(c, Idle)
Begin(c, r) == request[c] = Idle /\ GoTo(c, r) /\ UNCHANGED <<assignment, token, since>>

-----------------------------------------------------------------------------
(* Assignments.                                                            *)

AssignRole(c, row) == Begin(c, [step |-> "exists", row |-> row])

(* An id of NULL is no condition: any row of the scope's type is found.    *)
SameScope(scope, other) ==
    scope.type = other.type /\ (scope.id # "NULL" => scope.id = other.id)

FindExisting(c) ==
    /\ At(c, "exists")
    /\ LET row == request[c].row
           existing == {i \in Assigned : /\ assignment[i].role = row.role
                                         /\ SameScope(row.scope, assignment[i].scope)}
       IN  GoTo(c, IF existing = {} THEN [step |-> "insert", row |-> row] ELSE Idle)
    /\ UNCHANGED <<assignment, token, since>>

(* uq_ura_user_role_scope, to which no two NULLs are the same.             *)
Unique(row) == row.scope.id = "NULL" \/ \A i \in Assigned : assignment[i] # row

CreateAssignment(c) ==
    /\ At(c, "insert")
    /\ IF Unique(request[c].row)
       THEN \E i \in Ids \ Assigned : assignment' = [assignment EXCEPT ![i] = request[c].row]
       ELSE UNCHANGED assignment
    /\ since' = [r \in DOMAIN since |-> IF r \in InForce' THEN 0 ELSE since[r]]
    /\ Return(c)
    /\ UNCHANGED token

(* ensureDefaultRole, after an account came about.                         *)
EnsureDefaultRole(c) == Begin(c, [step |-> "listed"])

ListForUser(c) ==
    /\ At(c, "listed")
    /\ GoTo(c, IF Assigned # {} THEN Idle
               ELSE [step |-> "insert",
                     row |-> [role |-> "project_member", scope |-> [type |-> "workspace", id |-> "NULL"]]])
    /\ UNCHANGED <<assignment, token, since>>

(* revokeRole, by the id of a row that is found.                           *)
RevokeRole(c, i) == i \in Assigned /\ Begin(c, [step |-> "delete", id |-> i])

DeleteAssignment(c) ==
    /\ At(c, "delete")
    /\ assignment' = [assignment EXCEPT ![request[c].id] = None]
    /\ since' = [r \in DOMAIN since |-> IF r \in InForce' THEN 0 ELSE since[r]]
    /\ Return(c)
    /\ UNCHANGED token

-----------------------------------------------------------------------------
(* Tokens.                                                                 *)

Mint(c, s) == Begin(c, [step |-> "mint", session |-> s])

(* getUserRoleAndPermissions: a row of the workspace's scope if there is   *)
(* one, whichever comes first.                                             *)
Preferred(r) ==
    LET ofWorkspace == {i \in Assigned : assignment[i].scope.type = "workspace"}
    IN  r \in IF Assigned = {} THEN {Default}
              ELSE {assignment[i].role : i \in IF ofWorkspace # {} THEN ofWorkspace ELSE Assigned}

(* Mutant: a refresh takes over the permissions of the token it replaces.  *)
KeepPermissions(c) ==
    /\ At(c, "mint")
    /\ \E r \in Roles \cup {Default} :
          /\ IF token[request[c].session] = None THEN Preferred(r) ELSE r = token[request[c].session].role
          /\ GoTo(c, [step |-> "sign", session |-> request[c].session, role |-> r, waited |-> 0])
    /\ UNCHANGED <<assignment, token, since>>

GetUserRoleAndPermissions(c) ==
    /\ At(c, "mint")
    /\ \E r \in Roles \cup {Default} :
          /\ Preferred(r)
          /\ GoTo(c, [step |-> "sign", session |-> request[c].session, role |-> r, waited |-> 0])
    /\ UNCHANGED <<assignment, token, since>>

SignAccessToken(c) ==
    /\ At(c, "sign")
    /\ token' = [token EXCEPT ![request[c].session] = [role |-> request[c].role, age |-> 0]]
    /\ Return(c)
    /\ UNCHANGED <<assignment, since>>

(* A tick: tokens grow old and expire.                                     *)
Tick ==
    /\ \A c \in Clients : At(c, "sign") => request[c].waited < MaxWait
    /\ request' = [c \in Clients |->
                     IF At(c, "sign") THEN [request[c] EXCEPT !.waited = @ + 1] ELSE request[c]]
    /\ token' = [s \in Sessions |->
                   IF token[s] = None \/ token[s].age = TTL - 1 THEN None
                   ELSE [token[s] EXCEPT !.age = @ + 1]]
    /\ since' = [r \in DOMAIN since |->
                   IF r \in InForce THEN 0 ELSE IF since[r] < Old THEN since[r] + 1 ELSE Old]
    /\ UNCHANGED assignment

-----------------------------------------------------------------------------
Next ==
    \/ Tick
    \/ \E c \in Clients :
          \/ \E row \in Rows : AssignRole(c, row)
          \/ \E i \in Ids : RevokeRole(c, i)
          \/ \E s \in Sessions : Mint(c, s)
          \/ EnsureDefaultRole(c) \/ ListForUser(c)
          \/ FindExisting(c) \/ CreateAssignment(c) \/ DeleteAssignment(c)
          \/ GetUserRoleAndPermissions(c) \/ SignAccessToken(c)

Spec == Init /\ [][Next]_vars

-----------------------------------------------------------------------------
Needs == {r.needs : r \in Routes}
MayCall(role, needs) == Grants(Permissions(role), needs)

(* "stale permissions are bounded by the access-token TTL": what a token   *)
(* lets through, a role that was in force at most one lifetime, and the    *)
(* time of a mint, ago does too; whatever was assigned and revoked since.  *)
AccessIsRecent ==
    \A s \in Sessions, needs \in Needs :
        token[s] # None /\ MayCall(token[s].role, needs) =>
            \E r \in Roles \cup {Default} : since[r] < Old /\ MayCall(r, needs)

(* Refuted. No assignment is there twice, as the index on user, role and   *)
(* scope intends: after two requests at a time, a role that is revoked is  *)
(* still in force.                                                         *)
AssignedOnce ==
    \A i, j \in Assigned : i # j => assignment[i] # assignment[j]

(* Refuted. Roles add up: what some role in force allows, a new token does *)
(* too. It carries the permissions of one of them.                         *)
TokensCarryAllRoles ==
    [][\A c \in Clients, r \in Roles \cup {Default} :
          GetUserRoleAndPermissions(c) /\ request'[c].role = r =>
              \A other \in InForce, needs \in Needs : MayCall(other, needs) => MayCall(r, needs)]_vars
=============================================================================
