----------------------------- MODULE Reordering -----------------------------
(***************************************************************************)
(* The order of the backlog: PATCH work-items/reorder, which writes the    *)
(* ranks of a list of items in one transaction, and PATCH work-items/:id,  *)
(* which may write one. A row that was written stays locked until its      *)
(* transaction ends; when transactions wait for each other in a circle,    *)
(* PostgreSQL aborts one. Ranks are strings the client makes up.           *)
(***************************************************************************)
EXTENDS Naturals, Sequences, FiniteSets

CONSTANTS
    Items,      \* work items of one tenant
    Ranks,      \* ranks clients ask for
    Clients     \* requests that can be in flight at the same time

NoClient == "none"

(* What is assumed of the constants.                                       *)
ReorderingAssumption == 0 \notin Ranks /\ IsFiniteSet(Items) /\ NoClient \notin Clients

VARIABLES
    rank,       \* of every item, with what an open transaction has written
    lock,       \* of every row: the client whose transaction has written it
    deleted,    \* items with a deleted_at
    agreed,     \* history: the ranks of the transactions that ended, applied in that order
    aborted,    \* history: has a transaction been aborted?
    request     \* of every client: step, body, its UPDATEs to do, and what they replaced

vars == <<rank, lock, deleted, agreed, aborted, request>>

Idle == [step |-> "idle", body |-> <<>>, todo |-> <<>>, old |-> <<>>]

(* A body has an item and its rank per entry: the whole backlog in some    *)
(* order, or a single item.                                                *)
Entry == [item : Items, rank : Ranks]
Distinct(s) == \A i, j \in DOMAIN s : i # j => s[i].item # s[j].item
Bodies == {s \in UNION {[1..n -> Entry] : n \in {1, Cardinality(Items)}} : Distinct(s)}
Suffixes == UNION {{SubSeq(b, n, Len(b)) : n \in 1..Len(b) + 1} : b \in Bodies}

TypeOK ==
    /\ rank \in [Items -> Ranks \cup {0}] /\ agreed \in [Items -> Ranks \cup {0}]
    /\ lock \in [Items -> Clients \cup {NoClient}]
    /\ deleted \subseteq Items /\ aborted \in BOOLEAN
    /\ \A c \in Clients :
          /\ request[c].step \in {"idle", "read", "update", "delete"}
          /\ request[c].body \in Bodies \cup {<<>>} /\ request[c].todo \in Suffixes \cup {<<>>}
          /\ request[c].old \in Seq([item : Items, rank : Ranks \cup {0}])

Init ==
    /\ rank = [i \in Items |-> 0] /\ agreed = [i \in Items |-> 0]
    /\ lock = [i \in Items |-> NoClient]
    /\ deleted = {} /\ aborted = FALSE
    /\ request = [c \in Clients |-> Idle]

-----------------------------------------------------------------------------
At(c, step) == request[c].step = step
GoTo(c, r) == request' = [request EXCEPT ![c] = r]
Named(body) == {body[n].item : n \in DOMAIN body}

(* The ranks after those a body has are written over them.                 *)
Over(ranks, body) ==
    [i \in Items |-> IF i \in Named(body)
                     THEN body[CHOOSE n \in DOMAIN body : body[n].item = i].rank
                     ELSE ranks[i]]

(* reorderWorkItems, and updateWorkItem when the body has one item.        *)
Reorder(c, body) ==
    /\ request[c] = Idle
    /\ GoTo(c, [Idle EXCEPT !.step = "read", !.body = body])
    /\ UNCHANGED <<rank, lock, deleted, agreed, aborted>>

(* getWorkItem of every item, before the transaction.                      *)
GetWorkItems(c) ==
    /\ At(c, "read")
    /\ GoTo(c, IF Named(request[c].body) \cap deleted # {} THEN Idle
               ELSE [request[c] EXCEPT !.step = "update", !.todo = request[c].body])
    /\ UNCHANGED <<rank, lock, deleted, agreed, aborted>>

(* Mutant: the transaction is not handed down; every UPDATE is its own.    *)
UpdateAlone(c) ==
    /\ At(c, "update") /\ request[c].todo # <<>>
    /\ LET e == Head(request[c].todo)
       IN  /\ rank' = [rank EXCEPT ![e.item] = e.rank]
           /\ UNCHANGED lock
           /\ GoTo(c, [request[c] EXCEPT !.todo = Tail(@),
                                         !.old = Append(@, [item |-> e.item, rank |-> rank[e.item]])])
    /\ UNCHANGED <<deleted, agreed, aborted>>

(* The UPDATEs go over the connection of the transaction, one after the    *)
(* other as in the body, by id: a row that was deleted meanwhile too.      *)
UpdateRank(c) ==
    /\ At(c, "update") /\ request[c].todo # <<>>
    /\ LET e == Head(request[c].todo)
       IN  /\ lock[e.item] = NoClient
           /\ rank' = [rank EXCEPT ![e.item] = e.rank]
           /\ lock' = [lock EXCEPT ![e.item] = c]
           /\ GoTo(c, [request[c] EXCEPT !.todo = Tail(@),
                                         !.old = Append(@, [item |-> e.item, rank |-> rank[e.item]])])
    /\ UNCHANGED <<deleted, agreed, aborted>>

Unlock(c) == lock' = [i \in Items |-> IF lock[i] = c THEN NoClient ELSE lock[i]]

Commit(c) ==
    /\ At(c, "update") /\ request[c].todo = <<>>
    /\ Unlock(c)
    /\ agreed' = Over(agreed, request[c].body)
    /\ GoTo(c, Idle)
    /\ UNCHANGED <<rank, deleted, aborted>>

(* The client whose row this one waits for.                                *)
Blocker(c) ==
    IF At(c, "update") /\ request[c].todo # <<>> THEN lock[Head(request[c].todo).item] ELSE NoClient

Deadlocked(c) ==
    Blocker(c) # NoClient /\ Blocker(c) # c /\ Blocker(Blocker(c)) = c

RollBack(c) ==
    /\ rank' = Over(rank, request[c].old)
    /\ Unlock(c)
    /\ GoTo(c, Idle)

(* deadlock_timeout passed: this one of the two fails.                     *)
AbortDeadlock(c) ==
    /\ Deadlocked(c)
    /\ RollBack(c)
    /\ aborted' = TRUE
    /\ UNCHANGED <<deleted, agreed>>

(* The connection is lost, or the API ends, before the commit.             *)
Fail(c) ==
    /\ At(c, "update") /\ request[c].old # <<>>
    /\ RollBack(c)
    /\ UNCHANGED <<deleted, agreed, aborted>>

DeleteWorkItem(c, i) ==
    /\ request[c] = Idle /\ i \notin deleted
    /\ \E r \in Ranks : GoTo(c, [Idle EXCEPT !.step = "delete", !.body = <<[item |-> i, rank |-> r]>>])
    /\ UNCHANGED <<rank, lock, deleted, agreed, aborted>>

(* Its UPDATE waits for the row like any other.                            *)
SoftDelete(c) ==
    /\ At(c, "delete")
    /\ lock[request[c].body[1].item] = NoClient
    /\ deleted' = deleted \cup {request[c].body[1].item}
    /\ GoTo(c, Idle)
    /\ UNCHANGED <<rank, lock, agreed, aborted>>

-----------------------------------------------------------------------------
Next ==
    \E c \in Clients :
       \/ \E body \in Bodies : Reorder(c, body)
       \/ \E i \in Items : DeleteWorkItem(c, i)
       \/ GetWorkItems(c) \/ UpdateRank(c) \/ Commit(c) \/ AbortDeadlock(c) \/ Fail(c) \/ SoftDelete(c)

Spec == Init /\ [][Next]_vars

-----------------------------------------------------------------------------
(* "all rank UPDATEs are one atomic transaction": the ranks nobody is      *)
(* writing are those of the requests that ended well, one after the other  *)
(* as they did; of one that failed nothing is left. "agreed" is kept from  *)
(* the bodies alone and knows nothing of locks and UPDATEs.                *)
ReorderIsSerial == \A i \in Items : lock[i] = NoClient => rank[i] = agreed[i]

(* Refuted. No reorder fails because of another one: bodies that name the  *)
(* same items in another order wait for each other.                        *)
ReordersSucceed == ~aborted
=============================================================================
