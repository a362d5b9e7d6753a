---------------------------- MODULE Provisioning ----------------------------
(***************************************************************************)
(* How accounts come about (AuthService.signup and ssoLogin, and what they *)
(* call in TenancyService, AccessService and the repositories): statements *)
(* of their own, but for the transaction that provisions a tenant.         *)
(*   signup  findByEmail -> find a tenant to join, or is the domain claimed*)
(*           -> [provision] -> user -> keycard -> member -> role -> session*)
(*   sso     findSsoIdentity -> memberships, or                            *)
(*           identity again -> user -> identity -> keycard -> role         *)
(*           -> elevate -> session                                         *)
(*   login   memberships -> session                                        *)
(* Every address is of one corporate domain, and every federated user has  *)
(* one Entra oid. The SSO connection is active, without a list of domains, *)
(* and leads to Home. A keycard is a row of tenant_members.                *)
(***************************************************************************)
EXTENDS Naturals, FiniteSets, Sequences, SequencesExt

CONSTANTS
    Users,            \* accounts, by their address
    PlatformAdmins,   \* PLATFORM_ADMIN_EMAILS
    Tenants,          \* a bound on their number
    Home,             \* the tenant of the SSO connection
    Clients,          \* requests that can be in flight at the same time
    MaxFailures       \* bound on requests that are cut off

HomeAssumption == Home \in Tenants /\ PlatformAdmins \subseteq Users /\ MaxFailures \in Nat

VARIABLES
    tenants,    \* tenants, with their workspace and subscription
    claim,      \* tenant_domains: whose the domain is, and whether one may join by it
    account,    \* rows of users
    identity,   \* users with a row of sso_identities
    keycard,    \* pairs of user and tenant
    member,     \* pairs of user and tenant: members of its workspace
    role,       \* role assignments of every user and tenant
    recent,     \* of every user: tenants with a last_active_at, the latest last
    founder,    \* history: who the tenant was provisioned for
    failures,
    request     \* of every client: the step it is before, and what it read

directory == <<tenants, claim, founder>>
people == <<account, identity>>
membership == <<keycard, member, role>>
vars == <<directory, people, membership, recent, failures, request>>

Roles == {"workspace_admin", "project_member"}
NoOne == "nobody"
NoClaim == [tenant |-> NoOne, open |-> FALSE]
Claims == {NoClaim} \cup [tenant : Tenants, open : BOOLEAN]

Idle == [step |-> "idle"]
Early == {"target", "claimed", "upsert", "create sso user", "identity"}
Late == {"user", "keycard", "member", "role", "insertRole", "elevate", "insertElevated", "session", "touch"}
Requests ==
    {Idle} \cup [step : Early, user : Users] \cup [step : {"provision"}, user : Users, claims : BOOLEAN]
    \cup [step : Late, user : Users, tenant : Tenants, slug : Roles, sso : BOOLEAN]

TypeOK ==
    /\ tenants \subseteq Tenants /\ claim \in Claims /\ founder \in [Tenants -> Users \cup {NoOne}]
    /\ account \subseteq Users /\ identity \subseteq account
    /\ keycard \subseteq account \X tenants /\ member \subseteq keycard
    /\ role \in [Users \X Tenants -> SUBSET Roles]
    /\ \A u \in Users : IsInjective(recent[u]) /\ ToSet(recent[u]) \subseteq Tenants
    /\ failures \in 0..MaxFailures
    /\ request \in [Clients -> Requests]

Init ==
    /\ tenants = {Home} /\ claim = NoClaim
    /\ founder = [t \in Tenants |-> NoOne]
    /\ account = {} /\ identity = {}
    /\ keycard = {} /\ member = {}
    /\ role = [ut \in Users \X Tenants |-> {}]
    /\ recent = [u \in Users |-> <<>>]
    /\ failures = 0
    /\ request = [c \in Clients |-> Idle]

-----------------------------------------------------------------------------
At(c, step) == request[c].step = step
GoTo(c, r) == request' = [request EXCEPT ![c] = r]
Then(c, step) == GoTo(c, [request[c] EXCEPT !.step = step])
Return(c) == GoTo(c, Idle)
Account(c) == request[c].user
Pair(c) == <<request[c].user, request[c].tenant>>
With(step, u, t, slug, sso) == [step |-> step, user |-> u, tenant |-> t, slug |-> slug, sso |-> sso]

Begin(c, r) ==
    /\ request[c] = Idle
    /\ GoTo(c, r)
    /\ UNCHANGED <<directory, people, membership, recent, failures>>

(* A later step that writes no more than the request.                      *)
Read(c, r) ==
    /\ GoTo(c, r)
    /\ UNCHANGED <<directory, people, membership, recent, failures>>

(* A statement fails or the process stops; what has been written stays.    *)
Fail(c) ==
    /\ request[c] # Idle /\ failures < MaxFailures
    /\ failures' = failures + 1
    /\ Return(c)
    /\ UNCHANGED <<directory, people, membership, recent>>

-----------------------------------------------------------------------------
(* Signup.                                                                 *)

Signup(c, u) == u \notin account /\ Begin(c, [step |-> "target", user |-> u])

(* Mutant: who joins gets the role of who founds.                          *)
JoinAsAdmin(c) ==
    /\ At(c, "target")
    /\ Read(c, IF claim.open THEN With("user", Account(c), claim.tenant, "workspace_admin", FALSE)
               ELSE [step |-> "claimed", user |-> Account(c)])

(* "1. verified + auto-join domain -> join that existing tenant as a       *)
(* member".                                                                *)
FindAutoJoinTarget(c) ==
    /\ At(c, "target")
    /\ Read(c, IF claim.open THEN With("user", Account(c), claim.tenant, "project_member", FALSE)
               ELSE [step |-> "claimed", user |-> Account(c)])

IsDomainClaimed(c) ==
    /\ At(c, "claimed")
    /\ Read(c, [step |-> "provision", user |-> Account(c), claims |-> claim = NoClaim])

(* "2. otherwise -> provision a NEW tenant; signer = admin". The index on  *)
(* the domain undoes the transaction when another has claimed it.          *)
ProvisionTenant(c, t) ==
    /\ At(c, "provision") /\ t \notin tenants
    /\ request[c].claims => claim = NoClaim
    /\ tenants' = tenants \cup {t}
    /\ claim' = IF request[c].claims THEN [tenant |-> t, open |-> FALSE] ELSE claim
    /\ founder' = [founder EXCEPT ![t] = Account(c)]
    /\ GoTo(c, With("user", Account(c), t, "workspace_admin", FALSE))
    /\ UNCHANGED <<people, membership, recent, failures>>

(* An insert that a unique index refuses ends the request.                 *)
Refused(c) ==
    \/ At(c, "provision") /\ request[c].claims /\ claim # NoClaim
    \/ At(c, "user") /\ Account(c) \in account
    \/ At(c, "create sso user") /\ Account(c) \in account
    \/ At(c, "identity") /\ Account(c) \in identity
    \/ At(c, "member") /\ Pair(c) \in member

Refuse(c) == Refused(c) /\ Read(c, Idle)

CreateUser(c) ==
    /\ At(c, "user") /\ ~Refused(c)
    /\ account' = account \cup {Account(c)}
    /\ Then(c, "keycard")
    /\ UNCHANGED <<directory, identity, membership, recent, failures>>

(* An admin verifies the domain and lets people join by it; no code of     *)
(* the repository does this yet.                                           *)
OpenDomain ==
    /\ claim # NoClaim /\ ~claim.open
    /\ claim' = [claim EXCEPT !.open = TRUE]
    /\ UNCHANGED <<tenants, founder, people, membership, recent, failures, request>>

-----------------------------------------------------------------------------
(* Membership and role.                                                    *)

(* Mutant: the keycard is left to provisionTenant, which has none.         *)
SkipKeycard(c) ==
    /\ At(c, "keycard")
    /\ keycard' = IF request[c].sso THEN keycard \cup {Pair(c)} ELSE keycard
    /\ Then(c, IF request[c].sso THEN "role" ELSE "member")
    /\ UNCHANGED <<directory, people, member, role, recent, failures>>

(* enrollMember from signup, tenantMemberCreate from SSO.                  *)
CreateKeycard(c) ==
    /\ At(c, "keycard")
    /\ keycard' = keycard \cup {Pair(c)}
    /\ Then(c, IF request[c].sso THEN "role" ELSE "member")
    /\ UNCHANGED <<directory, people, member, role, recent, failures>>

EnrollMember(c) ==
    /\ At(c, "member") /\ ~Refused(c)
    /\ member' = member \cup {Pair(c)}
    /\ Then(c, "role")
    /\ UNCHANGED <<directory, people, keycard, role, recent, failures>>

Elevated(c) == request[c].sso /\ Account(c) \in PlatformAdmins
AfterRole(c) == IF Elevated(c) THEN "elevate" ELSE "session"

(* ensureDefaultRole: "does nothing if the user already has an             *)
(* assignment".                                                            *)
EnsureDefaultRole(c) ==
    \/ At(c, "role") /\ Read(c, [request[c] EXCEPT !.step =
                                    IF role[Pair(c)] = {} THEN "insertRole" ELSE AfterRole(c)])
    \/ At(c, "elevate") /\ Read(c, [request[c] EXCEPT !.step =
                                       IF role[Pair(c)] = {} THEN "insertElevated" ELSE "session"])

Assign(c, slug, next) ==
    /\ role' = [role EXCEPT ![Pair(c)] = @ \cup {slug}]
    /\ Then(c, next)
    /\ UNCHANGED <<directory, people, keycard, member, recent, failures>>

CreateAssignment(c) ==
    \/ At(c, "insertRole") /\ Assign(c, request[c].slug, AfterRole(c))
    \/ At(c, "insertElevated") /\ Assign(c, "workspace_admin", "session")

IssueSession(c) ==
    /\ At(c, "session")
    /\ Read(c, [request[c] EXCEPT !.step = "touch"])

(* touchTenantMembership, which is not waited for.                         *)
Touch(c) ==
    /\ At(c, "touch")
    /\ recent' = [recent EXCEPT ![Account(c)] =
                     Append(SelectSeq(@, LAMBDA t : t # request[c].tenant), request[c].tenant)]
    /\ Return(c)
    /\ UNCHANGED <<directory, people, membership, failures>>

-----------------------------------------------------------------------------
(* Login and SSO.                                                          *)

Keycards(u) == {t \in Tenants : <<u, t>> \in keycard}
Untouched(u) == Keycards(u) \ ToSet(recent[u])

(* memberships[0]: ORDER BY last_active_at DESC puts NULL first.           *)
FirstMembership(u, t) ==
    t \in IF Untouched(u) # {} THEN Untouched(u)
          ELSE IF Keycards(u) = {} THEN {} ELSE {Last(recent[u])}

Login(c, u, t) ==
    /\ u \in account /\ FirstMembership(u, t)
    /\ Begin(c, With("session", u, t, "project_member", FALSE))

SsoKnown(c, u, t) ==
    /\ u \in identity /\ FirstMembership(u, t)
    /\ Begin(c, With(IF u \in PlatformAdmins THEN "elevate" ELSE "session", u, t, "project_member", TRUE))

SsoUnknown(c, u) == u \notin identity /\ Begin(c, [step |-> "upsert", user |-> u])

Provisioned(c) == With("keycard", Account(c), Home, "project_member", TRUE)

(* upsertBySsoIdentity: the identity, else the user by email, else neither.*)
UpsertBySsoIdentity(c) ==
    /\ At(c, "upsert")
    /\ Read(c, IF Account(c) \in identity THEN Provisioned(c)
               ELSE [step |-> IF Account(c) \in account THEN "identity" ELSE "create sso user",
                     user |-> Account(c)])

CreateSsoUser(c) ==
    /\ At(c, "create sso user") /\ ~Refused(c)
    /\ account' = account \cup {Account(c)}
    /\ Then(c, "identity")
    /\ UNCHANGED <<directory, identity, membership, recent, failures>>

LinkIdentity(c) ==
    /\ At(c, "identity") /\ ~Refused(c)
    /\ identity' = identity \cup {Account(c)}
    /\ GoTo(c, Provisioned(c))
    /\ UNCHANGED <<directory, account, membership, recent, failures>>

-----------------------------------------------------------------------------
Next ==
    \/ OpenDomain
    \/ \E c \in Clients :
          \/ \E u \in Users :
                \/ Signup(c, u) \/ SsoUnknown(c, u)
                \/ \E t \in Tenants : Login(c, u, t) \/ SsoKnown(c, u, t)
          \/ FindAutoJoinTarget(c) \/ IsDomainClaimed(c) \/ Refuse(c) \/ CreateUser(c)
          \/ CreateKeycard(c) \/ EnrollMember(c) \/ EnsureDefaultRole(c) \/ CreateAssignment(c)
          \/ UpsertBySsoIdentity(c) \/ CreateSsoUser(c) \/ LinkIdentity(c)
          \/ IssueSession(c) \/ Touch(c) \/ Fail(c)
          \/ \E t \in Tenants : ProvisionTenant(c, t)

Spec == Init /\ [][Next]_vars

-----------------------------------------------------------------------------
(* Who joins by a domain, or comes by SSO, never becomes an admin: the     *)
(* admins of a tenant are the one it was provisioned for and the platform  *)
(* admins, however requests for the same address and domain interleave.    *)
AdminsAreFounders ==
    \A u \in Users, t \in Tenants :
        "workspace_admin" \in role[<<u, t>>] => founder[t] = u \/ u \in PlatformAdmins

(* While no request is cut off, who has an account can log in: it has a    *)
(* keycard, and a role there, once no request for it is in flight; also    *)
(* when signup and SSO for one address meet.                               *)
RegisteredCanLogin ==
    \A u \in account :
        \/ failures > 0
        \/ \E c \in Clients : request[c] # Idle /\ Account(c) = u
        \/ \E t \in Keycards(u) : role[<<u, t>>] # {}

(* Refuted. The same when a request may be cut off: an account without a   *)
(* keycard can neither log in nor sign up again, and an identity without   *)
(* one is turned away by every later SSO login.                            *)
CutOffCanLogin ==
    \A u \in account :
        \/ \E c \in Clients : request[c] # Idle /\ Account(c) = u
        \/ Keycards(u) # {}

(* Refuted. A tenant has a member: not when a second signup for the        *)
(* address was faster to create the user.                                  *)
TenantsHaveMembers ==
    \A t \in tenants \ {Home} :
        \/ failures > 0
        \/ \E c \in Clients : request[c] # Idle /\ Account(c) = founder[t]
        \/ \E u \in Users : <<u, t>> \in keycard

(* Refuted. "pick the most-recently-active tenant": a keycard that was     *)
(* never used comes first.                                                 *)
LoginPicksMostRecent ==
    [][\A c \in Clients, u \in Users, t \in Tenants :
          Login(c, u, t) /\ recent[u] # <<>> => t = Last(recent[u])]_vars

(* Refuted. "Auto-elevate platform admins to workspace_admin on every SSO  *)
(* login": not the ones that have a role.                                  *)
PlatformAdminsAreElevated ==
    [][\A c \in Clients : IssueSession(c) /\ Elevated(c) => "workspace_admin" \in role[Pair(c)]]_vars
=============================================================================
