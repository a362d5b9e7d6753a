--------------------------- MODULE MCAuthSessions ---------------------------
(* Instances of AuthSessions for TLC and for the proofs, under names that  *)
(* no other module has. Sessions, devices and reset tokens are each        *)
(* interchangeable.                                                        *)
EXTENDS Naturals, TLC

CONSTANTS
    SessionIds,   \* Sessions of AuthSessions
    Devices,      \* Clients of AuthSessions
    ResetTokens, MaxPasswords, ValkeyFails

VARIABLES
    state, expired, family, long, sso, authMethod, denied, password, resetToken,
    authRequest,  \* request of AuthSessions
    origin, burnt, lastReset, uses

Auth == INSTANCE AuthSessions
    WITH Sessions <- SessionIds, Clients <- Devices, token <- resetToken, request <- authRequest

ASSUME AuthAssumption == Auth!BoundsAssumption /\ Auth!ValkeyAssumption /\ Auth!ClientsAssumption

SessionsSpec == Auth!Spec

(* The properties of AuthSessions.                                         *)
SessionsTypeOK == Auth!TypeOK
OneLivePerFamily == Auth!OneLivePerFamily
DetectedFamiliesStayDead == Auth!DetectedFamiliesStayDead
ResetEndsSessions == Auth!ResetEndsSessions
ResetEndsLogins == Auth!ResetEndsLogins
TokensUsedOnce == Auth!TokensUsedOnce
UsesBounded == Auth!UsesBounded
SessionsOnlyEnd == Auth!SessionsOnlyEnd
MethodPreserved == Auth!MethodPreserved
OnlyRememberedAreLong == Auth!OnlyRememberedAreLong

SessionSymmetry == Permutations(SessionIds) \cup Permutations(Devices) \cup Permutations(ResetTokens)
=============================================================================
