--------------------------- MODULE OutboxContract ---------------------------
(***************************************************************************)
(* What the transactional outbox of the worker promises about a table of   *)
(* outbox rows, whoever runs the relay and whatever fails on the way:      *)
(*                                                                         *)
(*   - a row is acknowledged ('sent') only after its handler returned      *)
(*     normally at least once, and it is acknowledged once;                *)
(*   - a row is given up ('failed') only after MaxAttempts failures, each  *)
(*     counted exactly once, and a settled row never changes again;        *)
(*   - the handlers of a batch run before its rows settle, all together;   *)
(*   - the post-commit task of a row runs at most once, and never before   *)
(*     the row is durably 'sent'.                                          *)
(*                                                                         *)
(* OutboxRelay (pods, locks, sessions, crashes) implements this module.    *)
(* It hides the pods, so a late handler of a pod that lost its database    *)
(* session may still run after the row is settled: Handle is enabled for   *)
(* every row that exists.                                                  *)
(***************************************************************************)
EXTENDS Naturals

CONSTANTS
    Rows,        \* identifiers of outbox rows, numbered in creation order
    MaxAttempts  \* failures after which a row is given up

VARIABLES
    status,      \* committed status of every row
    attempts,    \* committed number of failures of every row
    handled,     \* rows whose handler returned normally at least once
    notified     \* rows whose post-commit task ran

contractVars == <<status, attempts, handled, notified>>

Pending == {r \in Rows : status[r] = "pending"}

Init ==
    /\ status = [r \in Rows |-> "absent"]
    /\ attempts = [r \in Rows |-> 0]
    /\ handled = {}
    /\ notified = {}

(* A business transaction that wrote the row commits. *)
Insert(r) ==
    /\ status[r] = "absent"
    /\ status' = [status EXCEPT ![r] = "pending"]
    /\ UNCHANGED <<attempts, handled, notified>>

(* The handler of an existing row returns normally (again, possibly). *)
Handle(r) ==
    /\ status[r] # "absent"
    /\ handled' = handled \cup {r}
    /\ UNCHANGED <<status, attempts, notified>>

(* A batch commits: the rows of ok are acknowledged, those of ko count one *)
(* more failure and are given up when that was the last one allowed.       *)
Settle(ok, ko) ==
    /\ ok \subseteq Pending \cap handled
    /\ ko \subseteq Pending \ ok
    /\ attempts' = [r \in Rows |-> IF r \in ko THEN attempts[r] + 1 ELSE attempts[r]]
    /\ status' = [r \in Rows |-> IF r \in ok THEN "sent"
                                 ELSE IF r \in ko /\ attempts[r] + 1 >= MaxAttempts
                                      THEN "failed" ELSE status[r]]
    /\ UNCHANGED <<handled, notified>>

(* The post-commit task of a row runs. *)
Notify(r) ==
    /\ status[r] = "sent"
    /\ r \notin notified
    /\ notified' = notified \cup {r}
    /\ UNCHANGED <<status, attempts, handled>>

Next ==
    \/ \E r \in Rows : Insert(r) \/ Handle(r) \/ Notify(r)
    \/ \E ok, ko \in SUBSET Rows : Settle(ok, ko)

Spec == Init /\ [][Next]_contractVars

=============================================================================
