----------------------- MODULE NotificationPreferences -----------------------
(***************************************************************************)
(* The notification preferences of one user: explicit rows per type, with  *)
(* '*' as the wildcard type, and what the worker makes of them.            *)
(*                                                                         *)
(* upsert and delete are single statements (INSERT ... ON CONFLICT DO      *)
(* UPDATE), so requests of several tabs interleave as whole actions.       *)
(***************************************************************************)
EXTENDS Naturals

CONSTANTS
    Types,      \* event types
    Wildcard    \* type '*'

(* What is assumed of the constants.                                       *)
WildcardAssumption == Wildcard \notin Types

Keys == Types \cup {Wildcard}
Channels == {"inApp", "email"}
Preferences == [Channels -> BOOLEAN]
NoRow == [c \in {} |-> TRUE]    \* a preference that says nothing

(* Bodies the request schema accepts: at least one channel is given.       *)
Bodies == UNION {[given -> BOOLEAN] : given \in (SUBSET Channels) \ {{}}}

VARIABLES
    rows,       \* notification_preferences: the row of every type
    asked       \* history: the channels the user set since the last reset

vars == <<rows, asked>>

Init ==
    /\ rows = [t \in Keys |-> NoRow]
    /\ asked = [t \in Keys |-> NoRow]

HasRow(t) == rows[t] # NoRow

(* The channels of body, and those of base where body does not say.        *)
Over(body, base) ==
    [c \in DOMAIN body \cup DOMAIN base |-> IF c \in DOMAIN body THEN body[c] ELSE base[c]]

AllEnabled == [c \in Channels |-> TRUE]

(* Mutant: DO UPDATE writes the insert defaults too.                       *)
StoredFromDefaults(t, body) == Over(body, AllEnabled)

(* The row after an upsert: an insert fills in true, an update keeps.      *)
Stored(t, body) == Over(body, IF HasRow(t) THEN rows[t] ELSE AllEnabled)

Upsert(t, body) ==
    /\ rows' = [rows EXCEPT ![t] = Stored(t, body)]
    /\ asked' = [asked EXCEPT ![t] = Over(body, @)]

Reset(t) ==
    /\ rows' = [rows EXCEPT ![t] = NoRow]
    /\ asked' = [asked EXCEPT ![t] = NoRow]

Next == \E t \in Keys : Reset(t) \/ \E body \in Bodies : Upsert(t, body)

Spec == Init /\ [][Next]_vars

-----------------------------------------------------------------------------
(* isEnabled: the row of the type, else the wildcard's, else enabled.      *)
IsEnabled(t, c) ==
    IF HasRow(t) THEN rows[t][c]
    ELSE IF HasRow(Wildcard) THEN rows[Wildcard][c] ELSE TRUE

(* The channels processRow of the notification relay delivers on: without  *)
(* the in-app notification it returns before it looks at the email channel.*)
Delivered(t) ==
    {c \in Channels : IsEnabled(t, "inApp") /\ IsEnabled(t, c)}
-----------------------------------------------------------------------------
(* Rows have both channels or are absent.                                  *)
TypeOK ==
    /\ rows \in [Keys -> Preferences \cup {NoRow}]
    /\ asked \in [Keys -> Bodies \cup {NoRow}]

(* A channel the user set for a type is delivered as set, whatever later   *)
(* requests say about the other channel, about other types or about '*'.   *)
ExplicitChoiceHolds ==
    \A t \in Types : \A c \in DOMAIN asked[t] : IsEnabled(t, c) = asked[t][c]

(* "Only updates the channels that are provided": a channel the request    *)
(* does not name is decided as before. Not so when the type has no row and *)
(* '*' has the channel off: the new row turns it on.                       *)
OnlyGivenChannelsChange ==
    [][\A t \in Types, body \in Bodies : Upsert(t, body) =>
          \A c \in Channels \ DOMAIN body : IsEnabled(t, c)' = IsEnabled(t, c)]_vars

(* "Deletes the explicit preference row; the type reverts to both channels *)
(* enabled." Not so while '*' has a channel off.                           *)
ResetEnablesBoth ==
    [][\A t \in Types : Reset(t) => \A c \in Channels : IsEnabled(t, c)']_vars

(* "Checks the user's email preference; if enabled [...] writes an         *)
(* email_outbox row": email is delivered exactly when it is enabled. Not   *)
(* so when in-app is off.                                                  *)
EmailFollowsPreference ==
    \A t \in Types : "email" \in Delivered(t) <=> IsEnabled(t, "email")
=============================================================================
