---------------------------- MODULE MCWorkspaces -----------------------------
(* Instances of Workspaces for TLC, with a history variable that tells     *)
(* requests that overlap from requests that come one after the other.      *)
(* Users, invitations and clients are each interchangeable.                *)
EXTENDS Workspaces, TLC

VARIABLE overlapped  \* history: two requests have been in flight at once

Overlap == \E c, d \in Clients : c # d /\ request'[c] # Idle /\ request'[d] # Idle

MCInit == Init /\ overlapped = FALSE
MCNext == Next /\ overlapped' = (overlapped \/ Overlap)
MCSpec == MCInit /\ [][MCNext]_<<vars, overlapped>>

(* "Invitation has already been used or cancelled": an invitation is       *)
(* redeemed by one user at most, and says so from then on, while requests  *)
(* come one after the other, the cleanup among them and wherever they end. *)
SequentialRedeem ==
    overlapped \/ \A i \in Invitations :
        /\ Cardinality(redeemed[i]) <= 1
        /\ redeemed[i] # {} <=> invitation[i] = "accepted"

Symmetry == Permutations(Users) \cup Permutations(Invitations) \cup Permutations(Clients)
=============================================================================
