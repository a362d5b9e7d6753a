---------------------------- MODULE AuthSessions ----------------------------
(***************************************************************************)
(* AuthService: the sessions of one user, from login over the rotation of  *)
(* refresh tokens to logout and password reset. A session row stands for   *)
(* its refresh token and the access token issued with it.                  *)
(*                                                                         *)
(* A client runs one request at a time, one step per database transaction  *)
(* or Valkey command; a request may fail between steps. Access tokens may  *)
(* be used as long as the row exists: their expiry is not modelled.        *)
(***************************************************************************)
EXTENDS Naturals, FiniteSets

CONSTANTS
    Sessions,      \* ids of auth_sessions rows
    Clients,       \* requests in flight at once
    ResetTokens,   \* ids of password_reset_tokens rows
    MaxPasswords,  \* bound: how often the password is changed
    ValkeyFails    \* whether a lookup of the denylist may fail

BoundsAssumption == MaxPasswords \in Nat
ValkeyAssumption == ValkeyFails \in BOOLEAN
ClientsAssumption == IsFiniteSet(Clients)

VARIABLES
    state,       \* of every row: absent, live, revoked (is_revoked), purged
    expired,     \* rows past expires_at
    family,      \* family_id, a session of the family
    long,        \* rows created to last 30 days, not 24 hours
    sso,         \* rows with an sso_provider
    authMethod,  \* in the access token issued with the row
    denied,      \* rows whose access token is on the denylist
    password,    \* version of the password
    token,       \* of every reset token: absent, issued, used, expired
    request,     \* of every client
    origin,      \* history: the login every session goes back to
    burnt,       \* history: families revoked because of token reuse
    lastReset,   \* history: version of the password after the last reset
    uses         \* history: how often every reset token was used

rowVars == <<state, expired, family, long, sso, authMethod>>
passwordVars == <<password, lastReset, token, uses>>
vars == <<rowVars, denied, passwordVars, request, origin, burnt>>

Idle == [step |-> "idle"]
Exists(s) == state[s] \in {"live", "revoked"}
Usable(s) == state[s] = "live" /\ s \notin expired

NoOrigin == [password |-> 0, method |-> "password", remembered |-> FALSE, switched |-> FALSE]

Init ==
    /\ state = [s \in Sessions |-> "absent"]
    /\ expired = {} /\ long = {} /\ sso = {} /\ denied = {}
    /\ family = [s \in Sessions |-> s]
    /\ authMethod = [s \in Sessions |-> "password"]
    /\ password = 0 /\ lastReset = 0
    /\ token = [t \in ResetTokens |-> "absent"]
    /\ uses = [t \in ResetTokens |-> 0]
    /\ request = [c \in Clients |-> Idle]
    /\ origin = [s \in Sessions |-> NoOrigin]
    /\ burnt = {}

-----------------------------------------------------------------------------
Begin(c, r) == request[c] = Idle /\ request' = [request EXCEPT ![c] = r]
At(c, step) == request[c].step = step
Return(c) == request' = [request EXCEPT ![c] = Idle]

(* sessionRepo.create: row n of family f, for a login that began as from.  *)
Create(n, f, from, isLong, isSso, method) ==
    /\ state[n] = "absent"
    /\ family' = [family EXCEPT ![n] = f]
    /\ long' = IF isLong THEN long \cup {n} ELSE long
    /\ sso' = IF isSso THEN sso \cup {n} ELSE sso
    /\ authMethod' = [authMethod EXCEPT ![n] = method]
    /\ origin' = [origin EXCEPT ![n] = from]
    /\ UNCHANGED expired

(* update ... set is_revoked = true where the row is in S; row n is new.   *)
Revoke(S) == state' = [s \in Sessions |-> IF s \in S /\ Exists(s) THEN "revoked" ELSE state[s]]
RevokeAndInsert(S, n) ==
    state' = [s \in Sessions |->
                 IF s = n THEN "live" ELSE IF s \in S /\ Exists(s) THEN "revoked" ELSE state[s]]

-----------------------------------------------------------------------------
(* login, ssoLogin.                                                        *)

(* The credentials are good, membership and permissions are read.          *)
Verify(c, method, remembered) ==
    /\ method = "sso" => remembered
    /\ Begin(c, [step |-> "login",
                 from |-> [password |-> password, method |-> method,
                           remembered |-> remembered, switched |-> FALSE]])
    /\ UNCHANGED <<rowVars, denied, passwordVars, origin, burnt>>

Login(c, n) ==
    /\ At(c, "login")
    /\ LET from == request[c].from
           isSso == from.method = "sso"
       IN  Create(n, n, from, from.remembered, isSso, from.method)
    /\ RevokeAndInsert({}, n)
    /\ Return(c)
    /\ UNCHANGED <<denied, passwordVars, burnt>>

-----------------------------------------------------------------------------
(* refresh.                                                                *)

(* findByTokenHash and the checks: a revoked session costs the family, an  *)
(* expired one is refused, any other is rotated.                           *)
FindSession(c, s) ==
    /\ \/ state[s] = "revoked" /\ Begin(c, [step |-> "revokeFamily", session |-> s])
       \/ Usable(s) /\ Begin(c, [step |-> "rotate", session |-> s])
    /\ UNCHANGED <<rowVars, denied, passwordVars, origin, burnt>>

(* Mutant: only the session that was reused is revoked.                    *)
RevokeReused(c) ==
    /\ At(c, "revokeFamily")
    /\ Revoke({request[c].session})
    /\ burnt' = burnt \cup {family[request[c].session]}
    /\ Return(c)
    /\ UNCHANGED <<expired, family, long, sso, authMethod, denied, passwordVars, origin>>

RevokeFamily(c) ==
    /\ At(c, "revokeFamily")
    /\ LET f == family[request[c].session]
       IN  /\ Revoke({s \in Sessions : family[s] = f})
           /\ burnt' = burnt \cup {f}
    /\ Return(c)
    /\ UNCHANGED <<expired, family, long, sso, authMethod, denied, passwordVars, origin>>

(* Mutant: the old session is not revoked.                                 *)
RotateOnly(c, n) ==
    /\ At(c, "rotate")
    /\ LET s == request[c].session
           isSso == s \in sso
       IN  /\ Create(n, family[s], origin[s], TRUE, isSso, IF isSso THEN "sso" ELSE "password")
           /\ RevokeAndInsert({}, n)
    /\ Return(c)
    /\ UNCHANGED <<denied, passwordVars, burnt>>

(* The old session is revoked and the new one created in one transaction.  *)
Rotate(c, n) ==
    /\ At(c, "rotate")
    /\ LET s == request[c].session
           isSso == s \in sso
       IN  /\ Create(n, family[s], origin[s], TRUE, isSso, IF isSso THEN "sso" ELSE "password")
           /\ RevokeAndInsert({s}, n)
    /\ Return(c)
    /\ UNCHANGED <<denied, passwordVars, burnt>>

-----------------------------------------------------------------------------
(* logout, logoutAll, switchTenant: a request with an access token that is *)
(* not on the denylist, or whose lookup fails: the guard fails open. The   *)
(* two promises of Promise.all settle in any order. Whether the session    *)
(* behind the token is live is not looked at.                              *)

UseAccessToken(c, s, op) ==
    /\ Exists(s) /\ (s \notin denied \/ ValkeyFails)
    /\ Begin(c, [step |-> op, session |-> s, todo |-> {"deny", "write"}])
    /\ UNCHANGED <<rowVars, denied, passwordVars, origin, burnt>>

Done(c, promise) ==
    LET left == request[c].todo \ {promise}
    IN  /\ promise \in request[c].todo
        /\ request' = [request EXCEPT ![c] =
               IF left = {} THEN Idle ELSE [request[c] EXCEPT !.todo = left]]

Access(c) == request[c].step \in {"logout", "logoutAll", "switch"}

Deny(c) ==
    /\ Access(c) /\ Done(c, "deny")
    /\ denied' = denied \cup {request[c].session}
    /\ UNCHANGED <<rowVars, passwordVars, origin, burnt>>

Logout(c) ==
    /\ \/ At(c, "logout") /\ Revoke({request[c].session})
       \/ At(c, "logoutAll") /\ Revoke(Sessions)
    /\ Done(c, "write")
    /\ UNCHANGED <<expired, family, long, sso, authMethod, denied, passwordVars, origin, burnt>>

(* Revokes the session and begins a new family in another tenant, with the *)
(* auth method of the token but without an sso_provider.                   *)
SwitchTenant(c, n) ==
    /\ At(c, "switch") /\ Done(c, "write")
    /\ LET s == request[c].session
       IN  /\ Create(n, n, [origin[s] EXCEPT !.switched = TRUE], TRUE, FALSE, authMethod[s])
           /\ RevokeAndInsert({s}, n)
    /\ UNCHANGED <<denied, passwordVars, burnt>>

-----------------------------------------------------------------------------
(* changePassword, forgotPassword, resetPassword.                          *)

VerifyCurrent(c) ==
    /\ Begin(c, [step |-> "changePassword"])
    /\ UNCHANGED <<rowVars, denied, passwordVars, origin, burnt>>

ChangePassword(c) ==
    /\ At(c, "changePassword")
    /\ password < MaxPasswords /\ password' = password + 1
    /\ Return(c)
    /\ UNCHANGED <<rowVars, denied, lastReset, token, uses, origin, burnt>>

(* The token and the email that carries it, in one transaction.            *)
ForgotPassword(t) ==
    /\ token[t] = "absent"
    /\ token' = [token EXCEPT ![t] = "issued"]
    /\ UNCHANGED <<rowVars, denied, password, lastReset, uses, request, origin, burnt>>

(* The token is neither used nor expired; the new password is hashed.      *)
FindToken(c, t) ==
    /\ token[t] = "issued"
    /\ Begin(c, [step |-> "reset", token |-> t])
    /\ UNCHANGED <<rowVars, denied, passwordVars, origin, burnt>>

(* Mutant: the sessions stay.                                              *)
ResetKeepsSessions(c) ==
    /\ At(c, "reset")
    /\ password < MaxPasswords /\ password' = password + 1 /\ lastReset' = password'
    /\ token' = [token EXCEPT ![request[c].token] = "used"]
    /\ uses' = [uses EXCEPT ![request[c].token] = @ + 1]
    /\ Return(c)
    /\ UNCHANGED <<rowVars, denied, origin, burnt>>

(* One transaction: the password, the token, all sessions.                 *)
ResetPassword(c) ==
    /\ At(c, "reset")
    /\ password < MaxPasswords /\ password' = password + 1 /\ lastReset' = password'
    /\ token' = [token EXCEPT ![request[c].token] = "used"]
    /\ uses' = [uses EXCEPT ![request[c].token] = @ + 1]
    /\ Revoke(Sessions)
    /\ Return(c)
    /\ UNCHANGED <<expired, family, long, sso, authMethod, denied, origin, burnt>>

-----------------------------------------------------------------------------
(* A request fails between two steps.                                      *)
Abort(c) ==
    /\ request[c] # Idle
    /\ Return(c)
    /\ UNCHANGED <<rowVars, denied, passwordVars, origin, burnt>>

(* Time passes, and the cleanup job deletes revoked sessions long expired. *)
Expire(s) ==
    /\ Exists(s) /\ s \notin expired
    /\ expired' = expired \cup {s}
    /\ UNCHANGED <<state, family, long, sso, authMethod, denied, passwordVars, request, origin, burnt>>

ExpireToken(t) ==
    /\ token[t] = "issued"
    /\ token' = [token EXCEPT ![t] = "expired"]
    /\ UNCHANGED <<rowVars, denied, password, lastReset, uses, request, origin, burnt>>

Purge(s) ==
    /\ state[s] = "revoked" /\ s \in expired
    /\ state' = [state EXCEPT ![s] = "purged"]
    /\ UNCHANGED <<expired, family, long, sso, authMethod, denied, passwordVars, request, origin, burnt>>

-----------------------------------------------------------------------------
Start(c) ==
    \/ \E method \in {"password", "sso"}, r \in BOOLEAN : Verify(c, method, r)
    \/ \E s \in Sessions : FindSession(c, s)
    \/ \E s \in Sessions, op \in {"logout", "logoutAll", "switch"} : UseAccessToken(c, s, op)
    \/ VerifyCurrent(c)
    \/ \E t \in ResetTokens : FindToken(c, t)

Continue(c) ==
    \/ \E n \in Sessions : Login(c, n) \/ Rotate(c, n) \/ SwitchTenant(c, n)
    \/ RevokeFamily(c) \/ Deny(c) \/ Logout(c) \/ ChangePassword(c) \/ ResetPassword(c)
    \/ Abort(c)

Next ==
    \/ \E c \in Clients : Start(c) \/ Continue(c)
    \/ \E t \in ResetTokens : ForgotPassword(t) \/ ExpireToken(t)
    \/ \E s \in Sessions : Expire(s) \/ Purge(s)

Spec == Init /\ [][Next]_vars

-----------------------------------------------------------------------------
Methods == {"password", "sso"}
Origins == [password : 0..MaxPasswords, method : Methods, remembered : BOOLEAN, switched : BOOLEAN]
Requests ==
    {Idle, [step |-> "changePassword"]}
    \cup [step : {"login"}, from : Origins]
    \cup [step : {"revokeFamily", "rotate"}, session : Sessions]
    \cup [step : {"logout", "logoutAll", "switch"}, session : Sessions,
          todo : (SUBSET {"deny", "write"}) \ {{}}]
    \cup [step : {"reset"}, token : ResetTokens]

(* Type correctness; a family is led by a session of its own, and only a   *)
(* row that was created is requested.                                      *)
TypeOK ==
    /\ state \in [Sessions -> {"absent", "live", "revoked", "purged"}]
    /\ family \in [Sessions -> Sessions]
    /\ \A s \in Sessions : family[family[s]] = family[s]
    /\ expired \subseteq Sessions /\ denied \subseteq Sessions
    /\ long \subseteq Sessions /\ sso \subseteq Sessions /\ burnt \subseteq Sessions
    /\ authMethod \in [Sessions -> Methods]
    /\ password \in 0..MaxPasswords /\ lastReset \in 0..password
    /\ token \in [ResetTokens -> {"absent", "issued", "used", "expired"}]
    /\ uses \in [ResetTokens -> Nat]
    /\ request \in [Clients -> Requests]
    /\ origin \in [Sessions -> Origins]
    /\ \A s \in Sessions : state[s] = "absent" =>
          s \notin expired \cup long \cup sso \cup denied \cup burnt

(* "... so we never end up with two live refresh tokens": of one family,   *)
(* that is. With one request at a time, wherever it fails.                 *)
OneLivePerFamily ==
    \A s, r \in Sessions : Usable(s) /\ Usable(r) /\ family[s] = family[r] => s = r

(* A family whose token was reused has no live session any more.           *)
DetectedFamiliesStayDead == \A s \in Sessions : family[s] \in burnt => state[s] # "live"

(* "revoke every active session together. A partial failure here would     *)
(* otherwise leave old refresh tokens valid after a password reset": no    *)
(* live session goes back to a login older than the last reset ...         *)
ResetEndsSessions ==
    \A s \in Sessions : state[s] = "live" => origin[s].password >= lastReset

(* ... unless it was handed on by switchTenant.                            *)
ResetEndsLogins ==
    \A s \in Sessions :
        state[s] = "live" /\ ~origin[s].switched => origin[s].password >= lastReset

(* "Reset token has already been used": it is used once.                   *)
TokensUsedOnce == \A t \in ResetTokens : uses[t] <= 1

(* ... or as often as requests are in flight at once: the requests that    *)
(* looked at a token before its first use all go through.                  *)
UsesBounded == \A t \in ResetTokens : uses[t] <= Cardinality(Clients)

(* Sessions only end: what is revoked or purged is never live again, and a *)
(* row keeps its family and the login it goes back to.                     *)
NoRevival ==
    \A s \in Sessions : state[s] # "absent" =>
        /\ state'[s] = "live" => state[s] = "live"
        /\ state'[s] # "absent"
        /\ family'[s] = family[s] /\ origin'[s] = origin[s]
SessionsOnlyEnd == [][NoRevival]_vars

(* "Preserve the auth method across rotations", "Preserve authMethod       *)
(* across tenant switches".                                                *)
MethodPreserved ==
    \A s \in Sessions : state[s] # "absent" => authMethod[s] = origin[s].method

(* "rememberMe = 30d session; not remembered = 24h session".               *)
OnlyRememberedAreLong == \A s \in long : origin[s].remembered \/ origin[s].switched
=============================================================================
