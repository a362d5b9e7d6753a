----------------------------- MODULE MCSprints ------------------------------
(* Instances of Sprints for TLC, with a history variable that tells the    *)
(* requests whose check may be out of date from those whose check holds.   *)
(* Sprints, items and clients are each interchangeable.                    *)
EXTENDS Sprints, TLC

VARIABLE overtaken  \* history: the clients whose sprint has been written by
                    \* another request since they looked at it

Overtake ==
    overtaken' = {c \in Clients :
        /\ request'[c] # Idle /\ request[c] # Idle
        /\ c \in overtaken \/ status'[request[c].sprint] # status[request[c].sprint]}

MCInit == Init /\ overtaken = {}
MCNext == Next /\ Overtake
MCSpec == MCInit /\ [][MCNext]_<<vars, overtaken>>

(* "Sprint is not in planned state", "Only planned sprints can be deleted",*)
(* "Only active sprints can be completed": however requests interleave and *)
(* wherever they are cut off, the checks are enough unless the very sprint *)
(* was written between the check and the write; and then it is started     *)
(* again or deleted, never completed out of turn or back in planning.      *)
StraysAreOvertaken ==
    [][\A s \in Sprints : status'[s] # status[s] =>
          \/ <<status[s], status'[s]>> \in Flow
          \/ /\ <<status[s], status'[s]>> \in Strays
             /\ \E c \in overtaken : request[c].sprint = s /\ request'[c] = Idle
      ]_<<vars, overtaken>>

Symmetry == Permutations(Sprints) \cup Permutations(Items) \cup Permutations(Clients)
=============================================================================
