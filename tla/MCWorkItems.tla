----------------------------- MODULE MCWorkItems -----------------------------
(* Instances of WorkItems for TLC, with a history variable that tells      *)
(* requests that overlap from requests that come one after the other.      *)
(* Items and clients are each interchangeable, statuses are told apart by  *)
(* their transitions.                                                      *)
EXTENDS WorkItems, TLC

CONSTANTS todo, doing, done  \* statuses

VARIABLE overlapped  \* history: two requests have been in flight at once

(* One way out of todo; with a third status a chain, and back from any.    *)
OneWay == {<<todo, doing>>}
Chain == {<<todo, doing>>, <<doing, done>>, <<AnyStatus, todo>>}

(* A change of the workflow is a request that begins and ends in one step. *)
Overlap ==
    \/ \E c, e \in Clients : c # e /\ request'[c] # Idle /\ request'[e] # Idle
    \/ workflowVars' # workflowVars /\ \E c \in Clients : request[c] # Idle

MCInit == Init /\ overlapped = FALSE
MCNext == Next /\ overlapped' = (overlapped \/ Overlap)
MCSpec == MCInit /\ [][MCNext]_<<vars, overlapped>>

(* "Cannot create work items in an archived project", "This status         *)
(* transition is not permitted": while requests come one after the other   *)
(* nothing is created in an archived or deleted project, and a status only *)
(* changes along the transitions of the project.                           *)
SequentialRequests ==
    [][~overlapped' => \A i \in Items :
          /\ number'[i] # number[i] => ~archived /\ ~projectDeleted
          /\ number[i] > 0 /\ status'[i] # status[i] => CanTransition(status[i], status'[i])
      ]_<<vars, overlapped>>

(* "diffing the persisted row": the entries of an item follow on from each *)
(* other and end with the status it has, wherever requests are cut off, as *)
(* long as they came one after the other.                                  *)
SequentialLog == overlapped \/ LogReplays

Symmetry == Permutations(Items) \cup Permutations(Clients)
=============================================================================
