------------------------- MODULE OutboxRelay_proofs -------------------------
(***************************************************************************)
(* Proofs about OutboxRelay for every table, set of pods, batch size,      *)
(* attempt limit and number of faults, and about NotificationRelay, which  *)
(* extends it: what is proved of the relay holds of the subclass.          *)
(***************************************************************************)
EXTENDS NotificationRelay, FiniteSetTheorems, TLAPS

(* How far a run is, and what its transaction holds at that point.         *)
TxShape ==
    \A p \in Pods :
        /\ session[p] = "none" <=> pc[p] \in {"idle", "begin"}
        /\ session[p] = "none" => tasks[p] = {} /\ \A r \in Rows : work[p][r] = "none"
        /\ \A r \in tasks[p] : work[p][r] = "sent"
        /\ \A r \in Rows : work[p][r] = "sent" => handled[r] > 0

(* A lock belongs to a live session that has the row in its batch.         *)
LocksOwned ==
    \A p \in Pods, r \in Rows :
        lock[r] = p => session[p] = "open" /\ work[p][r] # "none"

AttemptsBounded == \A r \in Rows : attempts[r] <= MaxAttempts

PostedSent == \A r \in Rows : posted[r] > 0 => status[r] = "sent"

(* A row in a batch exists, even in the batch of a pod that lost its       *)
(* session.                                                                *)
BatchExists == \A p \in Pods, r \in Rows : work[p][r] # "none" => status[r] # "absent"

(* BatchIsExclusive alone is not inductive: FetchBatch needs LocksOwned to *)
(* know that an unlocked row is in no live batch, and Commit needs TxShape *)
(* and PostedSent to know that the tasks it starts never ran.              *)
IInv ==
    /\ TypeOK
    /\ TxShape
    /\ LocksOwned
    /\ BatchIsExclusive
    /\ FailuresCounted
    /\ AttemptsBounded
    /\ PostCommitOnce
    /\ PostedSent
    /\ BatchExists
-----------------------------------------------------------------------------
(* An empty table and idle pods satisfy the strengthened invariant.        *)
LEMMA InitInv == Init => IInv
BY BoundsAssumption, PodsAssumption
   DEF Init, IInv, TypeOK, Statuses, Marks, TxShape, LocksOwned, BatchIsExclusive,
       FailuresCounted, AttemptsBounded, PostCommitOnce, PostedSent, BatchExists

(* Every step is of one of the actions, or changes nothing.                *)
LEMMA NextCases ==
    ASSUME [Next]_vars
    PROVE  \/ \E r \in Rows : Insert(r) \/ BecomeDue(r)
           \/ \E p \in Pods : Trigger(p) \/ Immediate(p) \/ FetchBatch(p) \/ Commit(p)
           \/ \E p \in Pods, r \in Rows :
                 HandlerThrows(p, r) \/ \E t \in BOOLEAN : HandlerReturns(p, r, t)
           \/ \E p \in Pods, r \in Rows : TaskRuns(p, r)
           \/ \E p \in Pods : BeginFails(p) \/ LoseSession(p) \/ TxFails(p)
                              \/ CommitUnknown(p) \/ Crash(p)
           \/ UNCHANGED vars
BY DEF Next, Environment, Relay, Handle, RunTasks, Failure

(* What the parts shared by the ends of a run do to the types.             *)
LEMMA FinallyType ==
    ASSUME TypeOK, NEW p \in Pods, Finally(p)
    PROVE  /\ pc' \in [Pods -> {"idle", "begin", "row", "commit"}]
           /\ wakeOnComplete' \in [Pods -> BOOLEAN]
           /\ immediate' \in [Pods -> BOOLEAN]
BY DEF TypeOK, Finally

(* Ending a transaction leaves well-typed transaction state and locks.     *)
LEMMA EndTxType ==
    ASSUME TypeOK, NEW p \in Pods, EndTx(p)
    PROVE  /\ session' \in [Pods -> {"none", "open", "lost"}]
           /\ work' \in [Pods -> [Rows -> Marks]]
           /\ seen' \in [Pods -> [Rows -> Nat]]
           /\ tasks' \in [Pods -> SUBSET Rows]
           /\ lock' \in [Rows -> Pods \cup {NoPod}]
BY DEF TypeOK, EndTx, ReleaseLocks, Marks

(* What COMMIT writes to the table is well typed.                          *)
LEMMA ApplyMarksType ==
    ASSUME TypeOK, NEW p \in Pods, ApplyMarks(p)
    PROVE  /\ status' \in [Rows -> Statuses]
           /\ attempts' \in [Rows -> Nat]
           /\ failures' \in [Rows -> Nat]
<1>1. attempts' \in [Rows -> Nat] /\ failures' \in [Rows -> Nat]
    BY DEF TypeOK, ApplyMarks
<1>2. ASSUME NEW r \in Rows
      PROVE  (CASE work[p][r] = "sent"   -> "sent"
                [] work[p][r] = "failed" -> IF seen[p][r] + 1 >= MaxAttempts
                                            THEN "failed" ELSE "pending"
                [] OTHER                 -> status[r]) \in Statuses
    BY DEF TypeOK, Statuses
<1>3. QED
    BY <1>1, <1>2 DEF ApplyMarks

(* markSent / markFailed keep the types, on a live and a lost session.     *)
LEMMA MarkRowType ==
    ASSUME TypeOK, NEW p \in Pods, NEW r \in Rows, NEW mark \in Marks,
           NEW newTasks \in SUBSET Rows, MarkRow(p, r, mark, newTasks)
    PROVE  /\ pc' \in [Pods -> {"idle", "begin", "row", "commit"}]
           /\ wakeOnComplete' \in [Pods -> BOOLEAN]
           /\ immediate' \in [Pods -> BOOLEAN]
           /\ session' \in [Pods -> {"none", "open", "lost"}]
           /\ work' \in [Pods -> [Rows -> Marks]]
           /\ seen' \in [Pods -> [Rows -> Nat]]
           /\ tasks' \in [Pods -> SUBSET Rows]
           /\ lock' \in [Rows -> Pods \cup {NoPod}]
<1>1. CASE session[p] = "open"
  <2>1. /\ work' = [work EXCEPT ![p][r] = mark]
        /\ tasks' = [tasks EXCEPT ![p] = newTasks]
        /\ pc' = [pc EXCEPT ![p] = IF Todo(p) = {r} THEN "commit" ELSE "row"]
        /\ UNCHANGED <<seen, session, lock, wakeOnComplete, immediate>>
      BY <1>1 DEF MarkRow
  <2>2. work[p] \in [Rows -> Marks]
      BY DEF TypeOK
  <2>3. QED
      BY <2>1, <2>2 DEF TypeOK
<1>2. CASE session[p] # "open"
    BY <1>2, FinallyType, EndTxType DEF MarkRow
<1>3. QED
    BY <1>1, <1>2

(* Every step of the relay keeps the types.                                *)
LEMMA TypeStep == TypeOK /\ [Next]_vars => TypeOK'
<1> SUFFICES ASSUME TypeOK, [Next]_vars PROVE TypeOK'
    OBVIOUS
<1>1. ASSUME NEW r \in Rows, Insert(r) \/ BecomeDue(r) PROVE TypeOK'
    BY <1>1 DEF TypeOK, Statuses, Insert, BecomeDue, podVars, txVars
<1>2. ASSUME NEW p \in Pods, Trigger(p) \/ Immediate(p) PROVE TypeOK'
    BY <1>2 DEF TypeOK, Trigger, Immediate, Call, tableVars, txVars
<1>3. ASSUME NEW p \in Pods, FetchBatch(p) PROVE TypeOK'
    BY <1>3 DEF TypeOK, Marks, FetchBatch, tableVars
<1>4. ASSUME NEW p \in Pods, NEW r \in Rows,
             HandlerThrows(p, r) \/ \E t \in BOOLEAN : HandlerReturns(p, r, t)
      PROVE TypeOK'
  <2>1. CASE HandlerThrows(p, r)
    <3>1. "failed" \in Marks /\ tasks[p] \in SUBSET Rows
        BY DEF TypeOK, Marks
    <3>2. QED
        BY <2>1, <3>1, MarkRowType DEF TypeOK, HandlerThrows, tableVars
  <2>2. ASSUME NEW t \in BOOLEAN, HandlerReturns(p, r, t) PROVE TypeOK'
    <3>1. /\ "sent" \in Marks
          /\ (IF t THEN tasks[p] \cup {r} ELSE tasks[p]) \in SUBSET Rows
        BY DEF TypeOK, Marks
    <3>2. handled' \in [Rows -> Nat]
        BY <2>2 DEF TypeOK, HandlerReturns
    <3>3. QED
        BY <2>2, <3>1, <3>2, MarkRowType DEF TypeOK, HandlerReturns, tableVars
  <2>3. QED
      BY <1>4, <2>1, <2>2
<1>5. ASSUME NEW p \in Pods, Commit(p) \/ CommitUnknown(p) PROVE TypeOK'
  <2>1. ApplyMarks(p) /\ EndTx(p) /\ Finally(p) /\ UNCHANGED <<due, handled, posted>>
      BY <1>5 DEF Commit, CommitUnknown
  <2>2. running' \in [Pods -> SUBSET Rows] /\ faults' \in Nat
    <3>1. CASE Commit(p)
        BY <3>1 DEF TypeOK, Commit
    <3>2. CASE CommitUnknown(p)
        BY <3>2 DEF TypeOK, CommitUnknown, Fault
    <3>3. QED
        BY <1>5, <3>1, <3>2
  <2>3. QED
      BY <2>1, <2>2, ApplyMarksType, EndTxType, FinallyType DEF TypeOK
<1>6. ASSUME NEW p \in Pods, NEW r \in Rows, TaskRuns(p, r) PROVE TypeOK'
    BY <1>6 DEF TypeOK, TaskRuns, tableVars, podVars, txVars
<1>7. ASSUME NEW p \in Pods, BeginFails(p) PROVE TypeOK'
    BY <1>7, FinallyType DEF TypeOK, BeginFails, Fault, tableVars, txVars
<1>8. ASSUME NEW p \in Pods, LoseSession(p) PROVE TypeOK'
    BY <1>8 DEF TypeOK, LoseSession, Fault, ReleaseLocks, tableVars, podVars, txVars
<1>9. ASSUME NEW p \in Pods, TxFails(p) PROVE TypeOK'
    BY <1>9, FinallyType, EndTxType DEF TypeOK, TxFails, Fault, tableVars
<1>10. ASSUME NEW p \in Pods, Crash(p) PROVE TypeOK'
    BY <1>10, EndTxType DEF TypeOK, Crash, Fault, tableVars
<1>11. CASE UNCHANGED vars
    BY <1>11 DEF TypeOK, vars
<1>12. QED
    BY <1>1, <1>2, <1>3, <1>4, <1>5, <1>6, <1>7, <1>8, <1>9, <1>10, <1>11, NextCases

(* TypeOK is an invariant: the table, the pods and their transactions keep *)
(* the shape the schema and the class declare.                             *)
THEOREM TypeCorrect == Spec => []TypeOK
<1>1. Init => TypeOK
    BY InitInv DEF IInv
<1>2. QED
    BY <1>1, TypeStep, PTL DEF Spec
-----------------------------------------------------------------------------
(* Locks and batches.                                                      *)
Batches == TxShape /\ LocksOwned /\ BatchIsExclusive

(* What EndTx leaves behind, pod by pod and row by row.                    *)
LEMMA EndTxEffect ==
    ASSUME TypeOK, NEW p \in Pods, EndTx(p)
    PROVE  /\ session'[p] = "none"
           /\ tasks'[p] = {}
           /\ \A r \in Rows : work'[p][r] = "none"
           /\ \A q \in Pods \ {p} : /\ session'[q] = session[q]
                                    /\ tasks'[q] = tasks[q]
                                    /\ work'[q] = work[q]
                                    /\ seen'[q] = seen[q]
           /\ \A r \in Rows : lock'[r] = IF lock[r] = p THEN NoPod ELSE lock[r]
BY DEF TypeOK, EndTx, ReleaseLocks

(* The finally block only changes the run that ends.                       *)
LEMMA FinallyEffect ==
    ASSUME TypeOK, NEW p \in Pods, Finally(p)
    PROVE  pc'[p] = "idle" /\ \A q \in Pods \ {p} : pc'[q] = pc[q]
BY DEF TypeOK, Finally

(* A step that ends the run of p keeps the batches of the other pods, if   *)
(* it does not touch the rows they hold.                                   *)
LEMMA RunEnds ==
    ASSUME TypeOK, Batches, NEW p \in Pods, EndTx(p),
           pc'[p] = "idle", \A q \in Pods \ {p} : pc'[q] = pc[q],
           \A r \in Rows : handled[r] > 0 => handled'[r] > 0,
           \A q \in Pods \ {p}, r \in Rows :
              lock[r] = q => status'[r] = status[r] /\ attempts'[r] = attempts[r]
    PROVE  Batches'
<1>1. TxShape'
  <2>1. ASSUME NEW q \in Pods \ {p}
        PROVE  /\ session'[q] = "none" <=> pc'[q] \in {"idle", "begin"}
               /\ session'[q] = "none" =>
                     tasks'[q] = {} /\ \A x \in Rows : work'[q][x] = "none"
               /\ \A x \in tasks'[q] : work'[q][x] = "sent"
               /\ \A x \in Rows : work'[q][x] = "sent" => handled'[x] > 0
      BY EndTxEffect DEF Batches, TxShape
  <2>2. /\ session'[p] = "none" /\ tasks'[p] = {} /\ pc'[p] = "idle"
        /\ \A x \in Rows : work'[p][x] = "none"
      BY EndTxEffect
  <2>3. QED
      BY <2>1, <2>2 DEF TxShape
<1>2. LocksOwned'
  <2>1. SUFFICES ASSUME NEW q \in Pods, NEW r \in Rows, lock'[r] = q
                 PROVE  session'[q] = "open" /\ work'[q][r] # "none"
      BY DEF LocksOwned
  <2>2. lock[r] = q /\ q # p
      BY <2>1, EndTxEffect, PodsAssumption
  <2>3. session[q] = "open" /\ work[q][r] # "none"
      BY <2>2 DEF Batches, LocksOwned
  <2>4. QED
      BY <2>2, <2>3, EndTxEffect
<1>3. BatchIsExclusive'
  <2>1. SUFFICES ASSUME NEW q \in Pods, NEW r \in Rows,
                        session'[q] = "open", work'[q][r] # "none"
                 PROVE  lock'[r] = q /\ status'[r] = "pending" /\ attempts'[r] = seen'[q][r]
      BY DEF BatchIsExclusive
  <2>2. q # p /\ session[q] = "open" /\ work[q][r] # "none" /\ seen'[q] = seen[q]
      BY <2>1, EndTxEffect
  <2>3. lock[r] = q /\ status[r] = "pending" /\ attempts[r] = seen[q][r]
      BY <2>2 DEF Batches, BatchIsExclusive
  <2>4. QED
      BY <2>2, <2>3, EndTxEffect
<1>4. QED
    BY <1>1, <1>2, <1>3 DEF Batches

(* The rows ApplyMarks writes are exactly those the pod has marked.        *)
LEMMA ApplyMarksEffect ==
    ASSUME TypeOK, NEW p \in Pods, ApplyMarks(p), NEW r \in Rows
    PROVE  /\ work[p][r] \in {"none", "todo"} =>
                 /\ status'[r] = status[r]
                 /\ attempts'[r] = attempts[r]
                 /\ failures'[r] = failures[r]
           /\ work[p][r] = "sent" =>
                 /\ status'[r] = "sent"
                 /\ attempts'[r] = attempts[r]
                 /\ failures'[r] = failures[r]
           /\ work[p][r] = "failed" =>
                 /\ status'[r] = IF seen[p][r] + 1 >= MaxAttempts THEN "failed" ELSE "pending"
                 /\ attempts'[r] = seen[p][r] + 1
                 /\ failures'[r] = failures[r] + 1
BY DEF TypeOK, ApplyMarks

(* Marking the current row keeps the batches exclusive.                    *)
LEMMA MarkStep ==
    ASSUME TypeOK, Batches, NEW p \in Pods, NEW r \in Rows, IsCurrent(p, r),
           NEW mark \in {"sent", "failed"}, NEW newTasks \in SUBSET Rows,
           MarkRow(p, r, mark, newTasks),
           newTasks = tasks[p] \/ (mark = "sent" /\ newTasks = tasks[p] \cup {r}),
           handled' \in [Rows -> Nat],
           \A q \in Rows : handled[q] > 0 => handled'[q] > 0,
           mark = "sent" => handled'[r] > 0,
           UNCHANGED <<status, attempts>>
    PROVE  Batches'
<1>1. CASE session[p] = "open"
  <2>1. /\ work' = [work EXCEPT ![p][r] = mark]
        /\ tasks' = [tasks EXCEPT ![p] = newTasks]
        /\ pc' = [pc EXCEPT ![p] = IF Todo(p) = {r} THEN "commit" ELSE "row"]
        /\ UNCHANGED <<seen, session, lock>>
      BY <1>1 DEF MarkRow
  <2>2. /\ pc'[p] \in {"row", "commit"}
        /\ work[p][r] = "todo"
        /\ work'[p][r] = mark
        /\ tasks'[p] = newTasks
        /\ \A q \in Rows \ {r} : work'[p][q] = work[p][q]
        /\ \A q \in Pods \ {p} : /\ work'[q] = work[q]
                                 /\ tasks'[q] = tasks[q]
                                 /\ pc'[q] = pc[q]
      BY <2>1 DEF TypeOK, IsCurrent, Todo
  <2>3. TxShape'
    <3>1. ASSUME NEW q \in Pods \ {p}
          PROVE  /\ session'[q] = "none" <=> pc'[q] \in {"idle", "begin"}
                 /\ session'[q] = "none" =>
                       tasks'[q] = {} /\ \A x \in Rows : work'[q][x] = "none"
                 /\ \A x \in tasks'[q] : work'[q][x] = "sent"
                 /\ \A x \in Rows : work'[q][x] = "sent" => handled'[x] > 0
        BY <2>1, <2>2 DEF Batches, TxShape
    <3>2. /\ session'[p] = "none" <=> pc'[p] \in {"idle", "begin"}
          /\ session'[p] = "none" =>
                tasks'[p] = {} /\ \A x \in Rows : work'[p][x] = "none"
        BY <1>1, <2>1, <2>2
    <3>3. \A x \in tasks'[p] : work'[p][x] = "sent"
        BY <2>2 DEF Batches, TxShape
    <3>4. \A x \in Rows : work'[p][x] = "sent" => handled'[x] > 0
        BY <2>2 DEF Batches, TxShape
    <3>5. QED
        BY <3>1, <3>2, <3>3, <3>4 DEF TxShape
  <2>4. \A q \in Pods, x \in Rows : work'[q][x] = "none" <=> work[q][x] = "none"
      BY <2>2
  <2>5. LocksOwned' /\ BatchIsExclusive'
      BY <2>1, <2>4 DEF Batches, LocksOwned, BatchIsExclusive
  <2>6. QED
      BY <2>3, <2>5 DEF Batches
<1>2. CASE session[p] # "open"
    BY <1>2, RunEnds, FinallyEffect DEF MarkRow
<1>3. QED
    BY <1>1, <1>2

(* Fetching a batch (SKIP LOCKED) keeps the batches exclusive.             *)
LEMMA FetchStep ==
    ASSUME TypeOK, Batches, NEW p \in Pods, FetchBatch(p)
    PROVE  Batches'
<1>1. PICK B \in SUBSET Eligible :
        /\ work' = [work EXCEPT ![p] = [r \in Rows |-> IF r \in B THEN "todo" ELSE "none"]]
        /\ seen' = [seen EXCEPT ![p] = [r \in Rows |-> IF r \in B THEN attempts[r] ELSE 0]]
        /\ lock' = [r \in Rows |-> IF r \in B THEN p ELSE lock[r]]
        /\ pc' = [pc EXCEPT ![p] = IF B = {} THEN "commit" ELSE "row"]
    BY DEF FetchBatch
<1>2. /\ pc[p] = "begin" /\ session[p] = "none" /\ tasks[p] = {}
      /\ session' = [session EXCEPT ![p] = "open"]
      /\ UNCHANGED <<status, attempts, tasks, handled>>
    BY DEF FetchBatch, tableVars, Batches, TxShape
<1>3. /\ session'[p] = "open" /\ pc'[p] \in {"row", "commit"}
      /\ \A r \in Rows : work'[p][r] = IF r \in B THEN "todo" ELSE "none"
      /\ \A r \in B : seen'[p][r] = attempts[r] /\ r \in Rows
      /\ \A r \in Rows : lock'[r] = IF r \in B THEN p ELSE lock[r]
      /\ \A q \in Pods \ {p} : /\ session'[q] = session[q]
                               /\ work'[q] = work[q]
                               /\ seen'[q] = seen[q]
                               /\ pc'[q] = pc[q]
    BY <1>1, <1>2 DEF TypeOK, Eligible
<1>4. \A r \in B : status[r] = "pending" /\ lock[r] = NoPod
    BY DEF Eligible
<1>5. TxShape'
    BY <1>2, <1>3 DEF Batches, TxShape
<1>6. LocksOwned'
  <2>1. SUFFICES ASSUME NEW q \in Pods, NEW r \in Rows, lock'[r] = q
                 PROVE  session'[q] = "open" /\ work'[q][r] # "none"
      BY DEF LocksOwned
  <2>2. CASE r \in B
      BY <2>1, <2>2, <1>3
  <2>3. CASE r \notin B
    <3>1. lock[r] = q /\ session[q] = "open" /\ work[q][r] # "none"
        BY <2>1, <2>3, <1>3 DEF Batches, LocksOwned
    <3>2. q # p
        BY <3>1, <1>2
    <3>3. QED
        BY <3>1, <3>2, <1>3
  <2>4. QED
      BY <2>2, <2>3
<1>7. BatchIsExclusive'
  <2>1. SUFFICES ASSUME NEW q \in Pods, NEW r \in Rows,
                        session'[q] = "open", work'[q][r] # "none"
                 PROVE  lock'[r] = q /\ status'[r] = "pending" /\ attempts'[r] = seen'[q][r]
      BY DEF BatchIsExclusive
  <2>2. CASE q = p
    <3>1. r \in B
        BY <2>1, <2>2, <1>3
    <3>2. QED
        BY <2>2, <3>1, <1>2, <1>3, <1>4
  <2>3. CASE q # p
    <3>1. lock[r] = q /\ status[r] = "pending" /\ attempts[r] = seen[q][r]
        BY <2>1, <2>3, <1>3 DEF Batches, BatchIsExclusive
    <3>2. r \notin B
        BY <3>1, <1>4, PodsAssumption
    <3>3. QED
        BY <2>3, <3>1, <3>2, <1>2, <1>3
  <2>4. QED
      BY <2>2, <2>3
<1>8. QED
    BY <1>5, <1>6, <1>7 DEF Batches

(* Rows locked by other pods are none of the business of a commit of p.    *)
LEMMA CommitStep ==
    ASSUME TypeOK, Batches, NEW p \in Pods, Commit(p) \/ CommitUnknown(p)
    PROVE  Batches'
<1>1. /\ session[p] = "open" /\ ApplyMarks(p) /\ EndTx(p) /\ Finally(p)
      /\ handled' = handled
    BY DEF Commit, CommitUnknown
<1>2. ASSUME NEW q \in Pods \ {p}, NEW r \in Rows, lock[r] = q
      PROVE  status'[r] = status[r] /\ attempts'[r] = attempts[r]
  <2>1. work[p][r] = "none"
      BY <1>1, <1>2 DEF Batches, BatchIsExclusive
  <2>2. QED
      BY <2>1, <1>1, ApplyMarksEffect
<1>3. QED
    BY <1>1, <1>2, RunEnds, FinallyEffect

(* Every step keeps the batches exclusive.                                 *)
LEMMA BatchesStep == TypeOK /\ Batches /\ [Next]_vars => Batches'
<1> SUFFICES ASSUME TypeOK, Batches, [Next]_vars PROVE Batches'
    OBVIOUS
<1>0. TypeOK'
    BY TypeStep
<1>1. ASSUME NEW r \in Rows, Insert(r) \/ BecomeDue(r) PROVE Batches'
  <2>1. UNCHANGED <<attempts, lock, session, pc, work, seen, tasks, handled>>
      BY <1>1 DEF Insert, BecomeDue, podVars, txVars
  <2>2. \A x \in Rows : status[x] = "pending" => status'[x] = "pending"
      BY <1>1 DEF TypeOK, Insert, BecomeDue
  <2>3. QED
      BY <2>1, <2>2 DEF Batches, TxShape, LocksOwned, BatchIsExclusive
<1>2. ASSUME NEW p \in Pods, Trigger(p) \/ Immediate(p) PROVE Batches'
  <2>1. /\ UNCHANGED <<status, attempts, lock, session, work, seen, tasks, handled>>
        /\ Call(p)
      BY <1>2 DEF Trigger, Immediate, tableVars, txVars
  <2>2. \A q \in Pods : pc'[q] \in {"idle", "begin"} <=> pc[q] \in {"idle", "begin"}
      BY <2>1 DEF TypeOK, Call
  <2>3. QED
      BY <2>1, <2>2 DEF Batches, TxShape, LocksOwned, BatchIsExclusive
<1>3. ASSUME NEW p \in Pods, FetchBatch(p) \/ Commit(p) \/ CommitUnknown(p) PROVE Batches'
    BY <1>3, FetchStep, CommitStep
<1>4. ASSUME NEW p \in Pods, NEW r \in Rows,
             HandlerThrows(p, r) \/ \E t \in BOOLEAN : HandlerReturns(p, r, t)
      PROVE Batches'
  <2>1. CASE HandlerThrows(p, r)
    <3>1. tasks[p] \in SUBSET Rows
        BY DEF TypeOK
    <3>2. QED
        BY <2>1, <3>1, <1>0, MarkStep DEF HandlerThrows, tableVars, TypeOK
  <2>2. ASSUME NEW t \in BOOLEAN, HandlerReturns(p, r, t) PROVE Batches'
    <3>1. (IF t THEN tasks[p] \cup {r} ELSE tasks[p]) \in SUBSET Rows
        BY DEF TypeOK
    <3>2. handled' \in [Rows -> Nat] /\ handled'[r] > 0
             /\ \A q \in Rows : handled[q] > 0 => handled'[q] > 0
        BY <2>2 DEF TypeOK, HandlerReturns
    <3>3. QED
        BY <2>2, <3>1, <3>2, MarkStep DEF HandlerReturns, tableVars
  <2>3. QED
      BY <1>4, <2>1, <2>2
<1>5. ASSUME NEW p \in Pods, NEW r \in Rows, TaskRuns(p, r) PROVE Batches'
    BY <1>5 DEF TaskRuns, tableVars, podVars, txVars,
                Batches, TxShape, LocksOwned, BatchIsExclusive
<1>6. ASSUME NEW p \in Pods, BeginFails(p) PROVE Batches'
  <2>1. UNCHANGED <<status, attempts, lock, session, work, seen, tasks, handled>>
      BY <1>6 DEF BeginFails, tableVars, txVars
  <2>2. \A q \in Pods : pc'[q] \in {"idle", "begin"} <=> pc[q] \in {"idle", "begin"}
      BY <1>6, FinallyEffect DEF BeginFails
  <2>3. QED
      BY <2>1, <2>2 DEF Batches, TxShape, LocksOwned, BatchIsExclusive
<1>7. ASSUME NEW p \in Pods, LoseSession(p) PROVE Batches'
  <2>1. /\ UNCHANGED <<status, attempts, pc, work, seen, tasks, handled>>
        /\ session[p] = "open" /\ session'[p] = "lost"
        /\ \A q \in Pods \ {p} : session'[q] = session[q]
        /\ \A r \in Rows : lock'[r] = IF lock[r] = p THEN NoPod ELSE lock[r]
      BY <1>7 DEF TypeOK, LoseSession, ReleaseLocks, tableVars, podVars, txVars
  <2>2. TxShape'
      BY <2>1 DEF Batches, TxShape
  <2>3. LocksOwned' /\ BatchIsExclusive'
      BY <2>1, PodsAssumption DEF Batches, LocksOwned, BatchIsExclusive
  <2>4. QED
      BY <2>2, <2>3 DEF Batches
<1>8. ASSUME NEW p \in Pods, TxFails(p) PROVE Batches'
    BY <1>8, RunEnds, FinallyEffect DEF TxFails, tableVars
<1>9. ASSUME NEW p \in Pods, Crash(p) PROVE Batches'
  <2>1. pc'[p] = "idle" /\ \A q \in Pods \ {p} : pc'[q] = pc[q]
      BY <1>9 DEF TypeOK, Crash
  <2>2. QED
      BY <1>9, <2>1, RunEnds DEF Crash, tableVars
<1>10. CASE UNCHANGED vars
    BY <1>10 DEF vars, Batches, TxShape, LocksOwned, BatchIsExclusive
<1>11. QED
    BY <1>1, <1>2, <1>3, <1>4, <1>5, <1>6, <1>7, <1>8, <1>9, <1>10, NextCases

(* In every reachable state the batches are exclusive and well typed.      *)
LEMMA BatchesInv == Spec => [](TypeOK /\ Batches)
<1>1. Init => TypeOK /\ Batches
    BY InitInv DEF IInv, Batches
<1>2. QED
    BY <1>1, TypeStep, BatchesStep, PTL DEF Spec

(* While the session of a pod lives, its batch is locked by it alone and   *)
(* is as it was fetched: FOR UPDATE SKIP LOCKED shares the table safely.   *)
THEOREM ExclusiveBatches == Spec => []BatchIsExclusive
BY BatchesInv, PTL DEF Batches
-----------------------------------------------------------------------------
(* Counting failures.                                                      *)
Counting == FailuresCounted /\ AttemptsBounded

(* Only producers and commits write the table.                             *)
LEMMA TableWrites ==
    ASSUME [Next]_vars
    PROVE  \/ UNCHANGED <<status, attempts, failures>>
           \/ \E r \in Rows : Insert(r)
           \/ \E p \in Pods : Commit(p) \/ CommitUnknown(p)
BY NextCases
   DEF BecomeDue, Trigger, Immediate, FetchBatch, HandlerThrows, HandlerReturns,
       TaskRuns, BeginFails, LoseSession, TxFails, Crash, tableVars, vars

(* Every step keeps attempts equal to the committed failures.              *)
LEMMA CountingStep == TypeOK /\ Batches /\ Counting /\ [Next]_vars => Counting'
<1> SUFFICES ASSUME TypeOK, Batches, Counting, [Next]_vars PROVE Counting'
    OBVIOUS
<1> USE DEF Counting, FailuresCounted, AttemptsBounded
<1>1. CASE UNCHANGED <<status, attempts, failures>>
    BY <1>1
<1>2. ASSUME NEW r \in Rows, Insert(r) PROVE Counting'
    BY <1>2 DEF Insert, TypeOK
<1>3. ASSUME NEW p \in Pods, Commit(p) \/ CommitUnknown(p) PROVE Counting'
  <2>1. session[p] = "open" /\ ApplyMarks(p)
      BY <1>3 DEF Commit, CommitUnknown
  <2>2. ASSUME NEW r \in Rows
        PROVE  /\ attempts'[r] = failures'[r]
               /\ status'[r] = "failed" <=> failures'[r] = MaxAttempts
               /\ attempts'[r] <= MaxAttempts
    <3>1. work[p][r] # "none" => status[r] = "pending" /\ attempts[r] = seen[p][r]
        BY <2>1 DEF Batches, BatchIsExclusive
    <3>2. /\ work[p][r] \in {"none", "todo", "sent", "failed"}
          /\ attempts[r] \in Nat /\ MaxAttempts \in Nat
        BY BoundsAssumption DEF TypeOK, Marks
    <3>3. QED
        BY <2>1, <3>1, <3>2, ApplyMarksEffect
  <2>3. QED
      BY <2>2
<1>4. QED
    BY <1>1, <1>2, <1>3, TableWrites

(* No failure is lost to a concurrent update or counted twice, and a row   *)
(* is given up after exactly maxAttempts of them.                          *)
THEOREM FailuresAreCounted == Spec => []FailuresCounted
<1>1. Init => Counting
    BY InitInv DEF IInv, Counting
<1>2. QED
    BY <1>1, BatchesInv, CountingStep, PTL DEF Spec, Counting
-----------------------------------------------------------------------------
(* Post-commit tasks.                                                      *)
Posting == PostCommitOnce /\ PostedSent

(* A commit acknowledges the rows whose tasks it starts, and a row that is *)
(* acknowledged stays so.                                                  *)
LEMMA SentIsFinal ==
    ASSUME TypeOK, Batches, [Next]_vars, NEW r \in Rows, status[r] = "sent"
    PROVE  status'[r] = "sent"
<1>1. ASSUME NEW q \in Rows, Insert(q) PROVE status'[r] = "sent"
    BY <1>1 DEF Insert, TypeOK
<1>2. ASSUME NEW p \in Pods, Commit(p) \/ CommitUnknown(p) PROVE status'[r] = "sent"
  <2>1. session[p] = "open" /\ ApplyMarks(p)
      BY <1>2 DEF Commit, CommitUnknown
  <2>2. work[p][r] = "none"
      BY <2>1 DEF Batches, BatchIsExclusive
  <2>3. QED
      BY <2>1, <2>2, ApplyMarksEffect
<1>3. QED
    BY <1>1, <1>2, TableWrites

(* Only commits start post-commit tasks, only TaskRuns and Crash end one.  *)
LEMMA TaskWrites ==
    ASSUME [Next]_vars
    PROVE  \/ UNCHANGED <<running, posted>>
           \/ \E p \in Pods : Commit(p) \/ Crash(p)
           \/ \E p \in Pods, r \in Rows : TaskRuns(p, r)
BY NextCases
   DEF Insert, BecomeDue, Trigger, Immediate, FetchBatch, HandlerThrows, HandlerReturns,
       BeginFails, LoseSession, TxFails, CommitUnknown, vars

(* Every step keeps post-commit tasks unique and behind their commit.      *)
LEMMA PostingStep == TypeOK /\ Batches /\ Posting /\ [Next]_vars => Posting'
<1> SUFFICES ASSUME TypeOK, Batches, Posting, [Next]_vars PROVE Posting'
    OBVIOUS
<1>1. CASE UNCHANGED <<running, posted>>
    BY <1>1, SentIsFinal DEF Posting, PostCommitOnce, PostedSent, TypeOK
<1>2. ASSUME NEW p \in Pods, Commit(p) PROVE Posting'
  <2>1. /\ session[p] = "open" /\ ApplyMarks(p) /\ posted' = posted
        /\ running'[p] = running[p] \cup tasks[p]
        /\ \A q \in Pods \ {p} : running'[q] = running[q]
      BY <1>2 DEF TypeOK, Commit
  <2>2. ASSUME NEW r \in tasks[p]
        PROVE  /\ r \in Rows
               /\ posted[r] = 0
               /\ status'[r] = "sent"
               /\ \A q \in Pods : r \notin running[q]
    <3>1. r \in Rows /\ work[p][r] = "sent" /\ status[r] = "pending" /\ posted[r] \in Nat
        BY <2>1 DEF TypeOK, Batches, TxShape, BatchIsExclusive
    <3>2. posted[r] = 0
        BY <3>1 DEF Posting, PostedSent
    <3>3. QED
        BY <2>1, <3>1, <3>2, ApplyMarksEffect DEF Posting, PostCommitOnce
  <2>3. PostedSent'
      BY <2>1, SentIsFinal DEF Posting, PostedSent
  <2>4. PostCommitOnce'
    <3>1. ASSUME NEW q \in Pods, NEW r \in running'[q]
          PROVE  /\ posted'[r] = 0
                 /\ status'[r] = "sent"
                 /\ \A o \in Pods \ {q} : r \notin running'[o]
      <4>1. CASE r \in running[q]
        <5>1. r \in Rows /\ posted[r] = 0 /\ status[r] = "sent"
                 /\ \A o \in Pods \ {q} : r \notin running[o]
            BY <4>1 DEF TypeOK, Posting, PostCommitOnce
        <5>2. r \notin tasks[p]
            BY <4>1, <2>2
        <5>3. QED
            BY <5>1, <5>2, <2>1, SentIsFinal
      <4>2. CASE r \notin running[q]
        <5>1. q = p /\ r \in tasks[p]
            BY <3>1, <4>2, <2>1
        <5>2. QED
            BY <5>1, <2>1, <2>2
      <4>3. QED
          BY <4>1, <4>2
    <3>2. QED
        BY <2>1, <3>1 DEF Posting, PostCommitOnce
  <2>5. QED
      BY <2>3, <2>4 DEF Posting
<1>3. ASSUME NEW p \in Pods, Crash(p) PROVE Posting'
  <2>1. /\ posted' = posted /\ running'[p] = {}
        /\ \A q \in Pods \ {p} : running'[q] = running[q]
      BY <1>3 DEF TypeOK, Crash
  <2>2. QED
      BY <2>1, SentIsFinal DEF Posting, PostCommitOnce, PostedSent, TypeOK
<1>4. ASSUME NEW p \in Pods, NEW r \in Rows, TaskRuns(p, r) PROVE Posting'
  <2>1. /\ r \in running[p] /\ status' = status
        /\ running'[p] = running[p] \ {r}
        /\ \A q \in Pods \ {p} : running'[q] = running[q]
        /\ posted'[r] = posted[r] + 1
        /\ \A x \in Rows \ {r} : posted'[x] = posted[x]
      BY <1>4 DEF TypeOK, TaskRuns, tableVars
  <2>2. posted[r] = 0 /\ status[r] = "sent" /\ \A q \in Pods \ {p} : r \notin running[q]
      BY <2>1 DEF Posting, PostCommitOnce
  <2>3. \A q \in Pods : r \notin running'[q]
      BY <2>1, <2>2
  <2>4. PostedSent'
      BY <2>1, <2>2 DEF Posting, PostedSent
  <2>5. \A x \in Rows : posted'[x] <= 1
      BY <2>1, <2>2 DEF Posting, PostCommitOnce
  <2>6. ASSUME NEW q \in Pods, NEW x \in running'[q]
        PROVE  /\ posted'[x] = 0
               /\ status'[x] = "sent"
               /\ \A o \in Pods \ {q} : x \notin running'[o]
    <3>1. x # r /\ x \in running[q] /\ x \in Rows
        BY <2>1, <2>3, <2>6 DEF TypeOK
    <3>2. posted[x] = 0 /\ status[x] = "sent" /\ \A o \in Pods \ {q} : x \notin running[o]
        BY <3>1 DEF Posting, PostCommitOnce
    <3>3. \A o \in Pods : x \notin running[o] => x \notin running'[o]
        BY <2>1
    <3>4. QED
        BY <3>1, <3>2, <3>3, <2>1
  <2>7. QED
      BY <2>4, <2>5, <2>6 DEF Posting, PostCommitOnce
<1>5. QED
    BY <1>1, <1>2, <1>3, <1>4, TaskWrites

(* In every reachable state tasks are unique and behind their commit.      *)
LEMMA PostingInv == Spec => []Posting
<1>1. Init => Posting
    BY InitInv DEF IInv, Posting
<1>2. QED
    BY <1>1, BatchesInv, PostingStep, PTL DEF Spec

(* The post-commit task of a row runs after the row is durably 'sent', and *)
(* at most once over all pods, crashes and redeliveries.                   *)
THEOREM PostCommitTasksRunOnce == Spec => []PostCommitOnce
BY PostingInv, PTL DEF Posting
-----------------------------------------------------------------------------
(* Repeated work is paid for by faults.                                    *)

(* Pods whose session is lost and that will hand the row to processRow all *)
(* the same.                                                               *)
LostTodo(r) == {p \in Pods : session[p] = "lost" /\ work[p][r] = "todo"}

(* The row will have to be handled once more: it is not settled, and no    *)
(* open transaction has it handled.                                        *)
Awaiting(r) ==
    IF status[r] \in {"absent", "pending"}
       /\ \A p \in Pods : ~(session[p] = "open" /\ work[p][r] = "sent")
    THEN 1 ELSE 0

(* DuplicatesNeedFaults is not inductive: a lost session lets two pods     *)
(* have the same row to handle. What is still to be handled counts with    *)
(* what has been.                                                          *)
HandledPaid ==
    \A r \in Rows :
        /\ IsFiniteSet(LostTodo(r))
        /\ handled[r] + Cardinality(LostTodo(r)) + Awaiting(r) <= 1 + faults

(* A row awaits one success at most.                                       *)
LEMMA AwaitingType ==
    ASSUME NEW r PROVE Awaiting(r) \in {0, 1} /\ Awaiting(r)' \in {0, 1}
BY DEF Awaiting

(* The account is balanced when the three numbers and the faults move so.  *)
LEMMA Balance ==
    ASSUME TypeOK, TypeOK', NEW r \in Rows,
           IsFiniteSet(LostTodo(r)),
           handled[r] + Cardinality(LostTodo(r)) + Awaiting(r) <= 1 + faults,
           NEW p \in Pods,
           \/ /\ LostTodo(r)' = LostTodo(r)
              /\ \/ handled'[r] = handled[r] /\ Awaiting(r)' <= Awaiting(r) /\ faults' >= faults
                 \/ handled'[r] = handled[r] + 1 /\ Awaiting(r)' = 0 /\ Awaiting(r) = 1 /\ faults' = faults
                 \/ handled'[r] = handled[r] /\ faults' = faults + 1
           \/ /\ LostTodo(r)' = LostTodo(r) \ {p}
              /\ \/ handled'[r] = handled[r] /\ Awaiting(r)' <= Awaiting(r) /\ faults' >= faults
                 \/ handled'[r] = handled[r] + 1 /\ p \in LostTodo(r) /\ Awaiting(r)' <= Awaiting(r) /\ faults' = faults
                 \/ handled'[r] = handled[r] /\ faults' = faults + 1
           \/ /\ LostTodo(r)' = LostTodo(r) \cup {p}
              /\ handled'[r] = handled[r] /\ Awaiting(r)' <= Awaiting(r) /\ faults' = faults + 1
    PROVE  /\ IsFiniteSet(LostTodo(r)')
           /\ handled'[r] + Cardinality(LostTodo(r)') + Awaiting(r)' <= 1 + faults'
<1>1. /\ handled[r] \in Nat /\ handled'[r] \in Nat /\ faults \in Nat /\ faults' \in Nat
      /\ Awaiting(r) \in {0, 1} /\ Awaiting(r)' \in {0, 1}
      /\ Cardinality(LostTodo(r)) \in Nat
    BY AwaitingType, FS_CardinalityType DEF TypeOK
<1>2. CASE LostTodo(r)' = LostTodo(r)
  <2>1. Cardinality(LostTodo(r)') = Cardinality(LostTodo(r)) /\ IsFiniteSet(LostTodo(r)')
      BY <1>2
  <2>2. ASSUME p \in LostTodo(r)' PROVE LostTodo(r)' # LostTodo(r) \ {p}
      BY <1>2, <2>2
  <2>3. ASSUME NEW n \in Nat, Cardinality(LostTodo(r)) = n, Cardinality(LostTodo(r)') = n
        PROVE  handled'[r] + n + Awaiting(r)' <= 1 + faults'
    <3>1. \/ handled'[r] = handled[r] /\ Awaiting(r)' <= Awaiting(r) /\ faults' >= faults
          \/ handled'[r] = handled[r] + 1 /\ Awaiting(r)' = 0 /\ Awaiting(r) = 1 /\ faults' = faults
          \/ handled'[r] = handled[r] /\ faults' = faults + 1
        BY <1>2, <2>2
    <3>2. QED
        BY <1>1, <2>3, <3>1
  <2>4. QED
      BY <1>1, <2>1, <2>3
<1>3. CASE LostTodo(r)' = LostTodo(r) \ {p} /\ p \in LostTodo(r)
  <2>1. /\ IsFiniteSet(LostTodo(r)')
        /\ Cardinality(LostTodo(r)') = Cardinality(LostTodo(r)) - 1
      BY <1>3, FS_RemoveElement
  <2>2. \/ handled'[r] = handled[r] /\ Awaiting(r)' <= Awaiting(r) /\ faults' >= faults
        \/ handled'[r] = handled[r] + 1 /\ Awaiting(r)' <= Awaiting(r) /\ faults' = faults
        \/ handled'[r] = handled[r] /\ faults' = faults + 1
      BY <1>3
  <2>3. ASSUME NEW n \in Nat, Cardinality(LostTodo(r)) = n
        PROVE  handled'[r] + (n - 1) + Awaiting(r)' <= 1 + faults'
      BY <1>1, <2>2, <2>3
  <2>4. QED
      BY <1>1, <2>1, <2>3
<1>4. CASE LostTodo(r)' = LostTodo(r) \cup {p} /\ p \notin LostTodo(r)
  <2>1. /\ IsFiniteSet(LostTodo(r)')
        /\ Cardinality(LostTodo(r)') = Cardinality(LostTodo(r)) + 1
      BY <1>4, FS_AddElement
  <2>2. handled'[r] = handled[r] /\ Awaiting(r)' <= Awaiting(r) /\ faults' = faults + 1
      BY <1>4
  <2>3. ASSUME NEW n \in Nat, Cardinality(LostTodo(r)) = n
        PROVE  handled'[r] + (n + 1) + Awaiting(r)' <= 1 + faults'
      BY <1>1, <2>2, <2>3
  <2>4. QED
      BY <1>1, <2>1, <2>3
<1>5. \/ LostTodo(r)' = LostTodo(r)
      \/ LostTodo(r)' = LostTodo(r) \ {p} /\ p \in LostTodo(r)
      \/ LostTodo(r)' = LostTodo(r) \cup {p} /\ p \notin LostTodo(r)
    OBVIOUS
<1>6. QED
    BY <1>2, <1>3, <1>4, <1>5

(* The end of a transaction takes its pod out of the account.              *)
LEMMA EndTxLedger ==
    ASSUME TypeOK, NEW p \in Pods, EndTx(p), NEW r \in Rows
    PROVE  /\ LostTodo(r)' = LostTodo(r) \ {p}
           /\ status'[r] = status[r] /\ ~(session[p] = "open" /\ work[p][r] = "sent")
                 => Awaiting(r)' = Awaiting(r)
BY EndTxEffect DEF LostTodo, Awaiting
(* Every step keeps the account of every row.                              *)
LEMMA PaidStep == TypeOK /\ Batches /\ HandledPaid /\ [Next]_vars => HandledPaid'
<1> SUFFICES ASSUME TypeOK, Batches, HandledPaid, [Next]_vars, NEW r \in Rows
             PROVE  /\ IsFiniteSet(LostTodo(r)')
                    /\ handled'[r] + Cardinality(LostTodo(r)') + Awaiting(r)' <= 1 + faults'
    BY DEF HandledPaid, LostTodo, Awaiting
<1> DEFINE Paid == /\ IsFiniteSet(LostTodo(r)')
                   /\ handled'[r] + Cardinality(LostTodo(r)') + Awaiting(r)' <= 1 + faults'
<1>0. /\ TypeOK' /\ IsFiniteSet(LostTodo(r))
      /\ handled[r] + Cardinality(LostTodo(r)) + Awaiting(r) <= 1 + faults
      /\ handled[r] \in Nat /\ faults \in Nat /\ Awaiting(r) \in {0, 1} /\ Awaiting(r)' \in {0, 1}
    BY TypeStep, AwaitingType DEF HandledPaid, TypeOK
<1> HIDE DEF Paid
<1>a. ASSUME NEW p \in Pods, LostTodo(r)' = LostTodo(r),
             handled'[r] = handled[r], Awaiting(r)' <= Awaiting(r), faults' >= faults
      PROVE  Paid
    BY <1>0, <1>a, Balance DEF Paid
<1>b. ASSUME NEW p \in Pods, LostTodo(r)' = LostTodo(r) \ {p},
             handled'[r] = handled[r], Awaiting(r)' <= Awaiting(r), faults' >= faults
      PROVE  Paid
    BY <1>0, <1>b, Balance DEF Paid
<1>c. ASSUME NEW p \in Pods, LostTodo(r)' = LostTodo(r) \ {p},
             handled'[r] = handled[r], faults' = faults + 1
      PROVE  Paid
    BY <1>0, <1>c, Balance DEF Paid
<1>d. ASSUME NEW p \in Pods, LostTodo(r)' = LostTodo(r) \ {p}, p \in LostTodo(r),
             handled'[r] = handled[r] + 1, Awaiting(r)' <= Awaiting(r), faults' = faults
      PROVE  Paid
    BY <1>0, <1>d, Balance DEF Paid
<1>e. ASSUME NEW p \in Pods, LostTodo(r)' = LostTodo(r) \cup {p},
             handled'[r] = handled[r], Awaiting(r)' <= Awaiting(r), faults' = faults + 1
      PROVE  Paid
    BY <1>0, <1>e, Balance DEF Paid
<1>1. ASSUME UNCHANGED <<session, work, handled, faults>>, Awaiting(r)' = Awaiting(r) PROVE Paid
  <2>1. LostTodo(r)' = LostTodo(r)
      BY <1>1 DEF LostTodo
  <2>2. HandledPaid /\ faults' = faults /\ handled' = handled
      BY <1>1
  <2>3. QED
      BY <1>1, <2>1, <2>2 DEF Paid, HandledPaid
<1>2. ASSUME NEW x \in Rows, Insert(x) \/ BecomeDue(x) PROVE Paid
  <2>1. UNCHANGED <<session, work, handled, faults>>
      BY <1>2 DEF Insert, BecomeDue, txVars
  <2>2. status[r] \in {"absent", "pending"} <=> status'[r] \in {"absent", "pending"}
      BY <1>2 DEF Insert, BecomeDue, TypeOK
  <2>3. Awaiting(r)' = Awaiting(r)
      BY <2>1, <2>2 DEF Awaiting
  <2>4. QED
      BY <1>1, <2>1, <2>3
<1>3. ASSUME NEW p \in Pods, Trigger(p) \/ Immediate(p) PROVE Paid
  <2>1. UNCHANGED <<status, session, work, handled, faults>>
      BY <1>3 DEF Trigger, Immediate, tableVars, txVars
  <2>2. Awaiting(r)' = Awaiting(r)
      BY <2>1 DEF Awaiting
  <2>3. QED
      BY <1>1, <2>1, <2>2
<1>4. ASSUME NEW p \in Pods, NEW x \in Rows, TaskRuns(p, x) PROVE Paid
  <2>1. UNCHANGED <<status, session, work, handled, faults>>
      BY <1>4 DEF TaskRuns, tableVars, txVars
  <2>2. Awaiting(r)' = Awaiting(r)
      BY <2>1 DEF Awaiting
  <2>3. QED
      BY <1>1, <2>1, <2>2
<1>5. ASSUME NEW p \in Pods, BeginFails(p) PROVE Paid
  <2>1. /\ UNCHANGED <<session, work, status>> /\ handled'[r] = handled[r] /\ faults' >= faults
      BY <1>0, <1>5 DEF BeginFails, Fault, tableVars, txVars
  <2>2. LostTodo(r)' = LostTodo(r) /\ Awaiting(r)' = Awaiting(r)
      BY <2>1 DEF LostTodo, Awaiting
  <2>3. QED
      BY <1>0, <1>a, <2>1, <2>2
<1>6. ASSUME NEW p \in Pods, FetchBatch(p) PROVE Paid
  <2>1. /\ session[p] = "none" /\ UNCHANGED <<status, handled, faults>>
        /\ session'[p] = "open" /\ work'[p][r] \in {"todo", "none"}
        /\ \A q \in Pods \ {p} : session'[q] = session[q] /\ work'[q] = work[q]
      BY <1>6 DEF FetchBatch, Batches, TxShape, TypeOK, tableVars
  <2>2. LostTodo(r)' = LostTodo(r) /\ Awaiting(r)' = Awaiting(r)
      BY <2>1 DEF LostTodo, Awaiting
  <2>3. QED
      BY <1>0, <1>a, <2>1, <2>2
<1>7. ASSUME NEW p \in Pods, NEW x \in Rows, NEW mark \in {"sent", "failed"}, NEW newTasks,
             IsCurrent(p, x), MarkRow(p, x, mark, newTasks), UNCHANGED <<status, faults>>,
             handled'[r] = IF mark = "sent" /\ x = r THEN handled[r] + 1 ELSE handled[r]
      PROVE  Paid
  <2>1. work[p][x] = "todo"
      BY <1>7 DEF IsCurrent, Todo
  <2>2. CASE session[p] = "open"
    <3>1. /\ UNCHANGED session
          /\ work'[p] = [work[p] EXCEPT ![x] = mark]
          /\ \A q \in Pods \ {p} : work'[q] = work[q]
        BY <1>7, <2>2 DEF MarkRow, TypeOK
    <3>2. \A y \in Rows : work'[p][y] = IF y = x THEN mark ELSE work[p][y]
        BY <3>1 DEF TypeOK
    <3>3. LostTodo(r)' = LostTodo(r)
        BY <2>2, <3>1 DEF LostTodo
    <3>4. CASE x = r /\ mark = "sent"
      <4>1. lock[r] = p /\ status[r] = "pending"
          BY <2>1, <2>2, <3>4 DEF Batches, BatchIsExclusive
      <4>2. \A q \in Pods : ~(session[q] = "open" /\ work[q][r] = "sent")
          BY <2>1, <3>4, <4>1 DEF Batches, BatchIsExclusive
      <4>3. Awaiting(r) = 1
          BY <4>1, <4>2 DEF Awaiting
      <4>4. Awaiting(r)' = 0
          BY <2>2, <3>1, <3>2, <3>4 DEF Awaiting
      <4>5. QED
          BY <1>0, <1>7, <3>3, <3>4, <4>3, <4>4, Balance DEF Paid
    <3>5. CASE ~(x = r /\ mark = "sent")
      <4>1. \A q \in Pods : work'[q][r] = "sent" <=> work[q][r] = "sent"
          BY <1>7, <2>1, <3>1, <3>2, <3>5
      <4>2. Awaiting(r)' = Awaiting(r)
          BY <1>7, <3>1, <4>1 DEF Awaiting
      <4>3. QED
          BY <1>0, <1>7, <1>a, <3>3, <3>5, <4>2
    <3>6. QED
        BY <3>4, <3>5
  <2>3. CASE session[p] # "open"
    <3>1. EndTx(p)
        BY <1>7, <2>3 DEF MarkRow
    <3>2. LostTodo(r)' = LostTodo(r) \ {p} /\ Awaiting(r)' = Awaiting(r)
        BY <1>7, <2>3, <3>1, EndTxLedger
    <3>3. CASE x = r /\ mark = "sent"
      <4>1. session[p] = "lost"
          BY <1>7, <2>3 DEF IsCurrent, Batches, TxShape, TypeOK
      <4>2. p \in LostTodo(r)
          BY <2>1, <3>3, <4>1 DEF LostTodo
      <4>3. QED
          BY <1>0, <1>7, <1>d, <3>2, <3>3, <4>2
    <3>4. CASE ~(x = r /\ mark = "sent")
        BY <1>0, <1>7, <1>b, <3>2, <3>4
    <3>5. QED
        BY <3>3, <3>4
  <2>4. QED
      BY <2>2, <2>3
<1>8. ASSUME NEW p \in Pods, NEW x \in Rows,
             HandlerThrows(p, x) \/ \E t \in BOOLEAN : HandlerReturns(p, x, t)
      PROVE  Paid
  <2>1. CASE HandlerThrows(p, x)
    <3>1. /\ IsCurrent(p, x) /\ MarkRow(p, x, "failed", tasks[p])
          /\ UNCHANGED <<status, faults, handled>>
        BY <2>1 DEF HandlerThrows, tableVars
    <3>2. QED
        BY <1>7, <3>1
  <2>2. ASSUME NEW t \in BOOLEAN, HandlerReturns(p, x, t) PROVE Paid
    <3>1. /\ IsCurrent(p, x) /\ \E T : MarkRow(p, x, "sent", T)
          /\ UNCHANGED <<status, faults>>
          /\ handled'[r] = IF x = r THEN handled[r] + 1 ELSE handled[r]
        BY <2>2 DEF HandlerReturns, tableVars, TypeOK
    <3>2. QED
        BY <1>7, <3>1
  <2>3. QED
      BY <1>8, <2>1, <2>2
<1>9. ASSUME NEW p \in Pods, Commit(p) \/ CommitUnknown(p) PROVE Paid
  <2>1. /\ session[p] = "open" /\ ApplyMarks(p) /\ EndTx(p)
        /\ handled'[r] = handled[r] /\ faults' >= faults
      BY <1>0, <1>9 DEF Commit, CommitUnknown, Fault
  <2>2. LostTodo(r)' = LostTodo(r) \ {p}
      BY <2>1, EndTxLedger
  <2>3. Awaiting(r)' <= Awaiting(r)
    <3>1. SUFFICES ASSUME Awaiting(r)' = 1 PROVE Awaiting(r) = 1
        BY <1>0
    <3>2. status'[r] \in {"absent", "pending"}
          /\ \A q \in Pods : ~(session'[q] = "open" /\ work'[q][r] = "sent")
        BY <3>1 DEF Awaiting
    <3>3. work[p][r] \in {"none", "todo", "sent", "failed"}
        BY DEF TypeOK, Marks
    <3>4. work[p][r] # "sent" /\ status[r] \in {"absent", "pending"}
      <4>1. CASE work[p][r] = "failed"
          BY <2>1, <4>1 DEF Batches, BatchIsExclusive
      <4>2. QED
          BY <2>1, <3>2, <3>3, <4>1, ApplyMarksEffect
    <3>5. \A q \in Pods : ~(session[q] = "open" /\ work[q][r] = "sent")
        BY <2>1, <3>2, <3>4, EndTxEffect
    <3>6. QED
        BY <3>4, <3>5 DEF Awaiting
  <2>4. QED
      BY <1>b, <2>1, <2>2, <2>3
<1>10. ASSUME NEW p \in Pods, LoseSession(p) PROVE Paid
  <2>1. /\ session[p] = "open" /\ session'[p] = "lost"
        /\ \A q \in Pods \ {p} : session'[q] = session[q]
        /\ UNCHANGED <<work, status>> /\ handled'[r] = handled[r] /\ faults' = faults + 1
      BY <1>10 DEF LoseSession, Fault, tableVars, txVars, TypeOK
  <2>2. CASE work[p][r] = "todo"
    <3>1. LostTodo(r)' = LostTodo(r) \cup {p}
        BY <2>1, <2>2 DEF LostTodo
    <3>2. Awaiting(r)' = Awaiting(r)
        BY <2>1, <2>2 DEF Awaiting
    <3>3. QED
        BY <1>0, <1>e, <2>1, <3>1, <3>2
  <2>3. CASE work[p][r] # "todo"
    <3>1. LostTodo(r)' = LostTodo(r)
        BY <2>1, <2>3 DEF LostTodo
    <3>2. QED
        BY <1>0, <2>1, <3>1, Balance DEF Paid
  <2>4. QED
      BY <2>2, <2>3
<1>11. ASSUME NEW p \in Pods, TxFails(p) \/ Crash(p) PROVE Paid
  <2>1. EndTx(p) /\ UNCHANGED status /\ handled'[r] = handled[r]
      BY <1>11 DEF TxFails, Crash, tableVars
  <2>2. LostTodo(r)' = LostTodo(r) \ {p}
      BY <2>1, EndTxLedger
  <2>3. CASE faults' = faults + 1
      BY <1>c, <2>1, <2>2, <2>3
  <2>4. CASE faults' # faults + 1
    <3>1. session[p] = "lost" /\ faults' = faults
        BY <1>11, <2>4 DEF TxFails, Crash, Fault
    <3>2. Awaiting(r)' = Awaiting(r)
        BY <2>1, <3>1, EndTxLedger
    <3>3. QED
        BY <1>0, <1>b, <2>1, <2>2, <3>1, <3>2
  <2>5. QED
      BY <2>3, <2>4
<1>12. ASSUME UNCHANGED vars PROVE Paid
  <2>1. UNCHANGED <<status, session, work, handled, faults>>
      BY <1>12 DEF vars
  <2>2. Awaiting(r)' = Awaiting(r)
      BY <2>1 DEF Awaiting
  <2>3. QED
      BY <1>1, <2>1, <2>2
<1>13. Paid
    BY <1>2, <1>3, <1>4, <1>5, <1>6, <1>8, <1>9, <1>10, <1>11, <1>12, NextCases
<1>14. QED
    BY <1>13 DEF Paid

(* processRow succeeds once per row, and each fault costs at most one more *)
(* success: no race of pods repeats work by itself.                        *)
THEOREM RepeatsArePaidByFaults == Spec => []DuplicatesNeedFaults
<1>1. Init => HandledPaid
  <2>1. SUFFICES ASSUME Init, NEW r \in Rows
                 PROVE  IsFiniteSet(LostTodo(r)) /\ handled[r] + Cardinality(LostTodo(r)) + Awaiting(r) <= 1 + faults
      BY DEF HandledPaid
  <2>2. LostTodo(r) = {} /\ handled[r] = 0 /\ faults = 0
      BY <2>1 DEF Init, LostTodo
  <2>3. QED
      BY <2>2, AwaitingType, FS_EmptySet
<1>2. TypeOK /\ HandledPaid => DuplicatesNeedFaults
  <2>1. SUFFICES ASSUME TypeOK, HandledPaid, NEW r \in Rows PROVE handled[r] <= 1 + faults
      BY DEF DuplicatesNeedFaults
  <2>2. /\ handled[r] \in Nat /\ faults \in Nat /\ Cardinality(LostTodo(r)) \in Nat /\ Awaiting(r) \in {0, 1}
        /\ handled[r] + Cardinality(LostTodo(r)) + Awaiting(r) <= 1 + faults
      BY <2>1, AwaitingType, FS_CardinalityType DEF HandledPaid, TypeOK
  <2>3. QED
      BY <2>2
<1>3. QED
    BY <1>1, <1>2, BatchesInv, PaidStep, PTL DEF Spec
-----------------------------------------------------------------------------
(* The relay implements the contract of the outbox.                        *)
Handled == {r \in Rows : handled[r] > 0}
Notified == {r \in Rows : posted[r] > 0}

(* Steps the contract does not see.                                        *)
LEMMA HiddenStep ==
    ASSUME UNCHANGED <<status, attempts, handled, posted>>
    PROVE  UNCHANGED Contract!contractVars
BY DEF Contract!contractVars

(* A commit of the relay is a Settle step of the contract.                 *)
LEMMA CommitSettles ==
    ASSUME TypeOK, Batches, NEW p \in Pods, Commit(p) \/ CommitUnknown(p)
    PROVE  Contract!Next
<1> DEFINE ok == {r \in Rows : work[p][r] = "sent"}
           ko == {r \in Rows : work[p][r] = "failed"}
<1>1. /\ session[p] = "open" /\ ApplyMarks(p)
      /\ UNCHANGED <<handled, posted>>
    BY DEF Commit, CommitUnknown
<1>2. \A r \in ok \cup ko : status[r] = "pending" /\ attempts[r] = seen[p][r]
    BY <1>1 DEF Batches, BatchIsExclusive
<1>3. \A r \in ok : handled[r] > 0
    BY DEF Batches, TxShape
<1>4. /\ ok \subseteq Contract!Pending \cap Handled
      /\ ko \subseteq Contract!Pending \ ok
    BY <1>2, <1>3 DEF Contract!Pending, Handled
<1>5. attempts' = [r \in Rows |-> IF r \in ko THEN attempts[r] + 1 ELSE attempts[r]]
    BY <1>1, <1>2 DEF ApplyMarks
<1>6. status' = [r \in Rows |-> IF r \in ok THEN "sent"
                                ELSE IF r \in ko /\ attempts[r] + 1 >= MaxAttempts
                                     THEN "failed" ELSE status[r]]
  <2>1. ASSUME NEW r \in Rows
        PROVE  status'[r] = IF r \in ok THEN "sent"
                            ELSE IF r \in ko /\ attempts[r] + 1 >= MaxAttempts
                                 THEN "failed" ELSE status[r]
    <3>1. work[p][r] \in {"none", "todo", "sent", "failed"}
        BY DEF TypeOK, Marks
    <3>2. QED
        BY <3>1, <1>1, <1>2, ApplyMarksEffect
  <2>2. status' = [r \in Rows |-> status'[r]]
      BY <1>1, ApplyMarksType DEF TypeOK
  <2>3. QED
      BY <2>1, <2>2
<1>7. Contract!Settle(ok, ko)
    BY <1>1, <1>4, <1>5, <1>6 DEF Contract!Settle, Handled
<1>8. ok \in SUBSET Rows /\ ko \in SUBSET Rows
    OBVIOUS
<1>9. QED
    BY <1>7, <1>8 DEF Contract!Next

(* A row never disappears, and a batch only grows by rows that exist.      *)
LEMMA BatchExistsStep == TypeOK /\ BatchExists /\ [Next]_vars => BatchExists'
<1> SUFFICES ASSUME TypeOK, BatchExists, [Next]_vars,
                    NEW p \in Pods, NEW r \in Rows, work'[p][r] # "none"
             PROVE  status'[r] # "absent"
    BY DEF BatchExists
<1>1. status[r] # "absent" => status'[r] # "absent"
  <2>1. ASSUME NEW q \in Rows, Insert(q), status[r] # "absent" PROVE status'[r] # "absent"
      BY <2>1 DEF Insert, TypeOK
  <2>2. ASSUME NEW q \in Pods, Commit(q) \/ CommitUnknown(q), status[r] # "absent"
        PROVE status'[r] # "absent"
    <3>1. ApplyMarks(q) /\ work[q][r] \in {"none", "todo", "sent", "failed"}
        BY <2>2 DEF Commit, CommitUnknown, TypeOK, Marks
    <3>2. QED
        BY <2>2, <3>1, ApplyMarksEffect
  <2>3. QED
      BY <2>1, <2>2, TableWrites
<1>2. work[p][r] # "none" \/ status[r] # "absent"
  <2>1. ASSUME NEW q \in Pods, FetchBatch(q) PROVE <1>2
    <3>1. PICK B \in SUBSET Eligible :
            work' = [work EXCEPT ![q] = [x \in Rows |-> IF x \in B THEN "todo" ELSE "none"]]
        BY <2>1 DEF FetchBatch
    <3>2. QED
        BY <3>1 DEF TypeOK, Eligible
  <2>2. ASSUME NEW q \in Pods, EndTx(q) PROVE <1>2
      BY <2>2, EndTxEffect
  <2>3. ASSUME NEW q \in Pods, NEW x \in Rows, IsCurrent(q, x), NEW mark,
               work' = [work EXCEPT ![q][x] = mark]
        PROVE <1>2
    <3>1. work[q][x] = "todo"
        BY <2>3 DEF IsCurrent, Todo
    <3>2. CASE p = q /\ r = x
        BY <3>1, <3>2
    <3>3. CASE p # q \/ r # x
        BY <2>3, <3>3 DEF TypeOK
    <3>4. QED
        BY <3>2, <3>3
  <2>4. ASSUME NEW q \in Pods, NEW x \in Rows,
               HandlerThrows(q, x) \/ \E t \in BOOLEAN : HandlerReturns(q, x, t)
        PROVE <1>2
      BY <2>2, <2>3, <2>4 DEF HandlerThrows, HandlerReturns, MarkRow
  <2>5. CASE work' = work
      BY <2>5
  <2>6. \/ work' = work
        \/ \E q \in Pods : FetchBatch(q) \/ EndTx(q)
        \/ \E q \in Pods, x \in Rows :
              HandlerThrows(q, x) \/ \E t \in BOOLEAN : HandlerReturns(q, x, t)
      BY NextCases
         DEF Insert, BecomeDue, Trigger, Immediate, TaskRuns, BeginFails, LoseSession,
             Commit, CommitUnknown, TxFails, Crash, txVars, vars
  <2>7. QED
      BY <2>1, <2>2, <2>4, <2>5, <2>6
<1>3. QED
    BY <1>1, <1>2 DEF BatchExists

(* In every reachable state a batch holds only rows that exist.            *)
LEMMA BatchExistsInv == Spec => []BatchExists
<1>1. Init => BatchExists
    BY InitInv DEF IInv
<1>2. QED
    BY <1>1, BatchesInv, BatchExistsStep, PTL DEF Spec

(* Every step of the relay is a step of the contract, or stutters.         *)
LEMMA ContractStep ==
    TypeOK /\ Batches /\ Posting /\ BatchExists /\ [Next]_vars
        => [Contract!Next]_(Contract!contractVars)
<1> SUFFICES ASSUME TypeOK, Batches, Posting, BatchExists, [Next]_vars
             PROVE  Contract!Next \/ UNCHANGED Contract!contractVars
    OBVIOUS
<1>1. ASSUME NEW r \in Rows, Insert(r) PROVE Contract!Next
    BY <1>1 DEF Insert, Contract!Next, Contract!Insert
<1>2. ASSUME NEW p \in Pods, NEW r \in Rows, NEW t \in BOOLEAN, HandlerReturns(p, r, t)
      PROVE Contract!Next
  <2>1. /\ UNCHANGED <<status, attempts, posted>>
        /\ handled' = [handled EXCEPT ![r] = @ + 1]
        /\ work[p][r] = "todo" /\ pc[p] = "row"
      BY <1>2 DEF HandlerReturns, IsCurrent, Todo, tableVars
  <2>2. Handled' = Handled \cup {r}
      BY <2>1 DEF TypeOK, Handled
  <2>3. status[r] # "absent"
      BY <2>1 DEF BatchExists
  <2>4. QED
      BY <2>1, <2>2, <2>3 DEF Contract!Next, Contract!Handle, Handled
<1>3. ASSUME NEW p \in Pods, NEW r \in Rows, TaskRuns(p, r) PROVE Contract!Next
  <2>1. /\ UNCHANGED <<status, attempts, handled>>
        /\ posted' = [posted EXCEPT ![r] = @ + 1]
        /\ status[r] = "sent" /\ posted[r] = 0
      BY <1>3 DEF TaskRuns, tableVars, Posting, PostCommitOnce
  <2>2. Notified' = Notified \cup {r} /\ r \notin Notified
      BY <2>1 DEF TypeOK, Notified
  <2>3. QED
      BY <2>1, <2>2 DEF Contract!Next, Contract!Notify, Notified
<1>4. ASSUME NEW p \in Pods, Commit(p) \/ CommitUnknown(p) PROVE Contract!Next
    BY <1>4, CommitSettles
<1>5. CASE UNCHANGED <<status, attempts, handled, posted>>
    BY <1>5, HiddenStep
<1>6. \/ UNCHANGED <<status, attempts, handled, posted>>
      \/ \E r \in Rows : Insert(r)
      \/ \E p \in Pods, r \in Rows, t \in BOOLEAN : HandlerReturns(p, r, t)
      \/ \E p \in Pods, r \in Rows : TaskRuns(p, r)
      \/ \E p \in Pods : Commit(p) \/ CommitUnknown(p)
    BY NextCases
       DEF BecomeDue, Trigger, Immediate, FetchBatch, HandlerThrows,
           BeginFails, LoseSession, TxFails, Crash, tableVars, vars
<1>7. QED
    BY <1>1, <1>2, <1>3, <1>4, <1>5, <1>6

(* Every behaviour of the relay is one the outbox contract allows: sent    *)
(* only after the handler ran, failed only after maxAttempts counted       *)
(* failures, settled for good, post-commit work once and after the commit. *)
THEOREM RelayImplementsContract == Spec => ContractSpec
<1>1. Init => Contract!Init
    BY DEF Init, Contract!Init
<1>2. QED
    BY <1>1, BatchesInv, PostingInv, BatchExistsInv, ContractStep, PTL DEF Spec, ContractSpec, Contract!Spec
-----------------------------------------------------------------------------
(* The notification relay is a relay.                                      *)

(* The actions of the subclass.                                            *)
LEMMA NCases ==
    ASSUME [NNext]_allVars
    PROVE  \/ Environment /\ UNCHANGED nVars
           \/ \E p \in Pods, r \in Rows :
                 Suppress(p, r) \/ SendInApp(p, r) \/ Deduplicated(p, r) \/ ReturnTask(p, r)
                 \/ ProcessRowThrows(p, r)
           \/ \E p \in Pods, r \in Rows : Push(p, r) \/ PushFails(p, r) \/ ScheduleEmail(p, r)
           \/ \E p \in Pods : Inherited(p) \/ Aborted(p)
           \/ UNCHANGED allVars
BY DEF NNext, ProcessRow, Task

(* Whatever the subclass does is a step of the class it extends, or is     *)
(* invisible to it.                                                        *)
LEMMA NStepIsStep == [NNext]_allVars => [Next]_vars
<1> SUFFICES ASSUME [NNext]_allVars PROVE [Next]_vars
    OBVIOUS
<1>1. CASE Environment /\ UNCHANGED nVars
    BY <1>1 DEF Next
<1>2. ASSUME NEW p \in Pods, NEW r \in Rows,
             Suppress(p, r) \/ Deduplicated(p, r) \/ ReturnTask(p, r) \/ ProcessRowThrows(p, r)
      PROVE  [Next]_vars
  <2>1. HandlerThrows(p, r) \/ \E t \in BOOLEAN : HandlerReturns(p, r, t)
      BY <1>2 DEF Suppress, Deduplicated, ReturnTask, ProcessRowThrows
  <2>2. QED
      BY <2>1 DEF Next, Relay, Handle
<1>3. ASSUME NEW p \in Pods, NEW r \in Rows, SendInApp(p, r) PROVE [Next]_vars
    BY <1>3 DEF SendInApp
<1>4. ASSUME NEW p \in Pods, NEW r \in Rows, Push(p, r) \/ PushFails(p, r) \/ ScheduleEmail(p, r)
      PROVE  [Next]_vars
  <2>1. TaskRuns(p, r) \/ UNCHANGED vars
      BY <1>4 DEF Push, PushFails, ScheduleEmail
  <2>2. QED
      BY <2>1 DEF Next, RunTasks
<1>5. ASSUME NEW p \in Pods, Inherited(p) \/ Aborted(p) PROVE [Next]_vars
    BY <1>5 DEF Inherited, Aborted, Next, Relay, Failure
<1>6. CASE UNCHANGED allVars
    BY <1>6 DEF allVars
<1>7. QED
    BY <1>1, <1>2, <1>3, <1>4, <1>5, <1>6, NCases

(* NotificationRelayService extends AbstractOutboxRelay: every theorem     *)
(* about the relay holds of it.                                            *)
THEOREM NotificationRelayIsARelay == NSpec => Spec
<1>1. NInit => Init
    BY DEF NInit
<1>2. QED
    BY <1>1, NStepIsStep, PTL DEF NSpec, Spec

(* A step of pod p leaves the runs of the other pods alone.                *)
LEMMA OwnRun ==
    ASSUME TypeOK, NEW p \in Pods, NEW q \in Pods \ {p},
           \/ \E r \in Rows : HandlerThrows(p, r) \/ \E t \in BOOLEAN : HandlerReturns(p, r, t)
           \/ \E r \in Rows : TaskRuns(p, r)
           \/ Trigger(p) \/ Immediate(p) \/ FetchBatch(p) \/ Commit(p) \/ LoseSession(p)
           \/ BeginFails(p) \/ TxFails(p) \/ CommitUnknown(p) \/ Crash(p)
    PROVE  /\ pc'[q] = pc[q] /\ work'[q] = work[q] /\ tasks'[q] = tasks[q]
           /\ running'[q] = running[q]
<1>1. ASSUME NEW r \in Rows, HandlerThrows(p, r) \/ \E t \in BOOLEAN : HandlerReturns(p, r, t)
      PROVE  /\ pc'[q] = pc[q] /\ work'[q] = work[q] /\ tasks'[q] = tasks[q]
             /\ running'[q] = running[q]
  <2>1. PICK mark, newTasks : MarkRow(p, r, mark, newTasks) /\ UNCHANGED running
      BY <1>1 DEF HandlerThrows, HandlerReturns
  <2>2. CASE session[p] = "open"
      BY <2>1, <2>2 DEF MarkRow, TypeOK
  <2>3. CASE session[p] # "open"
      BY <2>1, <2>3, EndTxEffect, FinallyEffect DEF MarkRow
  <2>4. QED
      BY <2>2, <2>3
<1>2. ASSUME \/ \E r \in Rows : TaskRuns(p, r)
             \/ Trigger(p) \/ Immediate(p) \/ FetchBatch(p) \/ LoseSession(p) \/ BeginFails(p)
      PROVE  /\ pc'[q] = pc[q] /\ work'[q] = work[q] /\ tasks'[q] = tasks[q]
             /\ running'[q] = running[q]
    BY <1>2 DEF TypeOK, TaskRuns, Trigger, Immediate, Call, FetchBatch, LoseSession, BeginFails,
                Finally, txVars, podVars
<1>3. ASSUME Commit(p) \/ CommitUnknown(p) \/ TxFails(p) \/ Crash(p)
      PROVE  /\ pc'[q] = pc[q] /\ work'[q] = work[q] /\ tasks'[q] = tasks[q]
             /\ running'[q] = running[q]
  <2>1. EndTx(p) /\ pc'[q] = pc[q] /\ running'[q] = running[q]
      BY <1>3 DEF TypeOK, Commit, CommitUnknown, TxFails, Crash, Finally
  <2>2. QED
      BY <2>1, EndTxEffect
<1>4. QED
    BY <1>1, <1>2, <1>3

(* Every step keeps the types of the subclass.                             *)
LEMMA NTypeStep == NTypeOK /\ [NNext]_allVars => NTypeOK'
<1> SUFFICES ASSUME NTypeOK, [NNext]_allVars PROVE NTypeOK'
    OBVIOUS
<1>0. TypeOK /\ TypeOK'
    BY NStepIsStep, TypeStep DEF NTypeOK
<1>1. CASE Environment /\ UNCHANGED nVars
    BY <1>0, <1>1 DEF NTypeOK, Environment, Insert, BecomeDue, podVars, nVars, pushVars
<1>2. ASSUME NEW p \in Pods, NEW r \in Rows,
             Suppress(p, r) \/ Deduplicated(p, r) \/ ReturnTask(p, r) \/ ProcessRowThrows(p, r)
      PROVE  NTypeOK'
  <2>1. HandlerThrows(p, r) \/ \E t \in BOOLEAN : HandlerReturns(p, r, t)
      BY <1>2 DEF Suppress, Deduplicated, ReturnTask, ProcessRowThrows
  <2>2. \A q \in Pods \ {p} : pc'[q] = pc[q]
      BY <1>0, <2>1, OwnRun
  <2>3. UNCHANGED <<inbox, pushed, emailing, emails, running>> /\ errors' \in Nat
      BY <1>2, <2>1 DEF Suppress, Deduplicated, ReturnTask, ProcessRowThrows, Error,
                 HandlerThrows, HandlerReturns, nVars, pushVars, NTypeOK
  <2>4. isNew' \in [Pods -> BOOLEAN] /\ ~isNew'[p] /\ \A q \in Pods \ {p} : isNew'[q] = isNew[q]
      BY <1>2 DEF Suppress, Deduplicated, ReturnTask, ProcessRowThrows, nVars, NTypeOK
  <2>5. suppressed' \subseteq Rows /\ wantsEmail' \subseteq Rows
      BY <1>2 DEF Suppress, Deduplicated, ReturnTask, ProcessRowThrows, nVars, NTypeOK
  <2>6. QED
      BY <1>0, <2>2, <2>3, <2>4, <2>5 DEF NTypeOK
<1>3. ASSUME NEW p \in Pods, NEW r \in Rows, SendInApp(p, r) PROVE NTypeOK'
    BY <1>0, <1>3 DEF NTypeOK, SendInApp, IsCurrent, vars, pushVars
<1>4. ASSUME NEW p \in Pods, NEW r \in Rows, Push(p, r) \/ PushFails(p, r) \/ ScheduleEmail(p, r)
      PROVE  NTypeOK'
  <2>1. UNCHANGED <<pc, isNew, inbox, suppressed, wantsEmail>>
      BY <1>4 DEF Push, PushFails, ScheduleEmail, TaskRuns, podVars, vars
  <2>2. pushed' \in [Rows -> Nat] /\ emails' \subseteq Rows /\ errors' \in Nat
      BY <1>4 DEF Push, PushFails, ScheduleEmail, Error, NTypeOK, pushVars
  <2>3. emailing' \in [Pods -> SUBSET Rows] /\ \A q \in Pods : emailing'[q] \subseteq running'[q]
    <3>1. CASE Push(p, r)
      <4>1. CASE r \in wantsEmail
        <5>1. /\ r \in running[p] /\ running' = running
              /\ emailing' = [emailing EXCEPT ![p] = @ \cup {r}]
            BY <3>1, <4>1 DEF Push, vars
        <5>2. QED
            BY <1>0, <5>1 DEF NTypeOK, TypeOK
      <4>2. CASE r \notin wantsEmail
        <5>1. r \in Rows \ emailing[p] /\ TaskRuns(p, r) /\ emailing' = emailing
            BY <3>1, <4>2 DEF Push
        <5>2. QED
            BY <1>0, <5>1 DEF TaskRuns, NTypeOK, TypeOK
      <4>3. QED
          BY <4>1, <4>2
    <3>2. CASE PushFails(p, r)
        BY <1>0, <3>2 DEF PushFails, TaskRuns, NTypeOK, TypeOK, pushVars
    <3>3. CASE ScheduleEmail(p, r)
        BY <1>0, <3>3 DEF ScheduleEmail, TaskRuns, NTypeOK, TypeOK
    <3>4. QED
        BY <1>4, <3>1, <3>2, <3>3
  <2>4. QED
      BY <1>0, <2>1, <2>2, <2>3 DEF NTypeOK
<1>5. ASSUME NEW p \in Pods, Inherited(p) PROVE NTypeOK'
  <2>1. \A q \in Pods \ {p} : pc'[q] = pc[q] /\ running'[q] = running[q]
      BY <1>0, <1>5, OwnRun DEF Inherited
  <2>2. pc[p] = "row" => pc'[p] = "row"
      BY <1>0, <1>5 DEF Inherited, Trigger, Immediate, Call, FetchBatch, Commit, LoseSession, podVars, TypeOK
  <2>3. running[p] \subseteq running'[p]
      BY <1>0, <1>5 DEF Inherited, Trigger, Immediate, FetchBatch, Commit, LoseSession, TypeOK
  <2>4. UNCHANGED nVars
      BY <1>5 DEF Inherited
  <2>5. QED
      BY <1>0, <2>1, <2>2, <2>3, <2>4 DEF NTypeOK, nVars, pushVars
<1>6. ASSUME NEW p \in Pods, Aborted(p) PROVE NTypeOK'
  <2>1. \A q \in Pods \ {p} : pc'[q] = pc[q] /\ running'[q] = running[q]
      BY <1>0, <1>6, OwnRun DEF Aborted
  <2>2. QED
      BY <1>0, <1>6, <2>1 DEF NTypeOK, Aborted
<1>7. CASE UNCHANGED allVars
    BY <1>0, <1>7 DEF NTypeOK, allVars, nVars, pushVars, vars
<1>8. QED
    BY <1>1, <1>2, <1>3, <1>4, <1>5, <1>6, <1>7, NCases

-----------------------------------------------------------------------------
(* Nothing is marked, sent or handed to a task that did not reach the      *)
(* inbox or was switched off.                                              *)
Delivered ==
    /\ \A p \in Pods, r \in Rows : work[p][r] = "sent" => r \in inbox \cup suppressed
    /\ \A p \in Pods, r \in Rows : isNew[p] /\ IsCurrent(p, r) => r \in inbox
    /\ \A p \in Pods : tasks[p] \cup running[p] \subseteq inbox
    /\ \A r \in Rows : status[r] = "sent" => r \in inbox \cup suppressed

(* A push is made of a row that is settled, by the one task that has it,   *)
(* and an email only of a row that was pushed.                             *)
Pushes ==
    /\ \A r \in Rows : pushed[r] <= 1
    /\ \A r \in Rows : pushed[r] > 0 => r \in inbox /\ status[r] = "sent"
    /\ \A p \in Pods : \A r \in running[p] : pushed[r] = IF r \in emailing[p] THEN 1 ELSE 0
    /\ \A r \in emails : pushed[r] = 1

(* In every reachable state the subclass has its types.                    *)
LEMMA NTypeInv == NSpec => []NTypeOK
<1>1. NInit => NTypeOK
    BY InitInv DEF NInit, NTypeOK, IInv, Init
<1>2. QED
    BY <1>1, NTypeStep, PTL DEF NSpec

(* What marking a row adds to the marks and the tasks.                     *)
LEMMA MarkEffect ==
    ASSUME TypeOK, NEW p \in Pods, NEW r \in Rows, NEW mark, NEW newTasks,
           MarkRow(p, r, mark, newTasks)
    PROVE  /\ \A q \in Pods, x \in Rows :
                 work'[q][x] = "sent" => \/ work[q][x] = "sent"
                                         \/ q = p /\ x = r /\ mark = "sent"
           /\ \A q \in Pods : tasks'[q] \subseteq tasks[q] \cup newTasks
<1>1. CASE session[p] = "open"
  <2>1. work' = [work EXCEPT ![p][r] = mark] /\ tasks' = [tasks EXCEPT ![p] = newTasks]
      BY <1>1 DEF MarkRow
  <2>2. QED
      BY <2>1 DEF TypeOK
<1>2. CASE session[p] # "open"
    BY <1>2, EndTxEffect DEF MarkRow
<1>3. QED
    BY <1>1, <1>2

(* The steps that handle no row mark none and collect no task.             *)
LEMMA QuietStep ==
    ASSUME TypeOK, NEW p \in Pods,
           \/ Environment
           \/ \E r \in Rows : TaskRuns(p, r)
           \/ Trigger(p) \/ Immediate(p) \/ FetchBatch(p) \/ Commit(p) \/ LoseSession(p)
           \/ BeginFails(p) \/ TxFails(p) \/ CommitUnknown(p) \/ Crash(p)
           \/ UNCHANGED vars
    PROVE  /\ \A q \in Pods, x \in Rows : work'[q][x] = "sent" => work[q][x] = "sent"
           /\ \A q \in Pods : tasks'[q] \cup running'[q] \subseteq tasks[q] \cup running[q]
<1>1. ASSUME \/ Environment
             \/ Trigger(p) \/ Immediate(p) \/ LoseSession(p) \/ BeginFails(p)
             \/ UNCHANGED vars
      PROVE  UNCHANGED <<work, tasks, running>>
    BY <1>1 DEF Environment, Insert, BecomeDue, Trigger, Immediate, LoseSession, BeginFails,
                txVars, vars
<1>2. ASSUME \E r \in Rows : TaskRuns(p, r)
      PROVE  UNCHANGED <<work, tasks>> /\ \A q \in Pods : running'[q] \subseteq running[q]
    BY <1>2 DEF TaskRuns, txVars, TypeOK
<1>3. ASSUME FetchBatch(p)
      PROVE  /\ UNCHANGED <<tasks, running>>
             /\ \A q \in Pods, x \in Rows : work'[q][x] = "sent" => work[q][x] = "sent"
    BY <1>3 DEF FetchBatch, TypeOK
<1>4. ASSUME Commit(p) \/ TxFails(p) \/ CommitUnknown(p) \/ Crash(p)
      PROVE  EndTx(p) /\ \A q \in Pods : running'[q] \subseteq tasks[q] \cup running[q]
    BY <1>4 DEF Commit, TxFails, CommitUnknown, Crash, TypeOK
<1>5. QED
    BY <1>1, <1>2, <1>3, <1>4, EndTxEffect

(* Only a commit makes a row 'sent', and only a row marked so.             *)
LEMMA SentWasMarked ==
    ASSUME TypeOK, [Next]_vars, NEW r \in Rows, status'[r] = "sent"
    PROVE  status[r] = "sent" \/ \E p \in Pods : work[p][r] = "sent"
<1>1. ASSUME NEW q \in Rows, Insert(q) PROVE status[r] = "sent"
    BY <1>1 DEF Insert, TypeOK
<1>2. ASSUME NEW p \in Pods, Commit(p) \/ CommitUnknown(p)
      PROVE  status[r] = "sent" \/ work[p][r] = "sent"
  <2>1. ApplyMarks(p) /\ work[p][r] \in {"none", "todo", "sent", "failed"}
      BY <1>2 DEF Commit, CommitUnknown, TypeOK, Marks
  <2>2. QED
      BY <2>1, ApplyMarksEffect
<1>3. QED
    BY <1>1, <1>2, TableWrites

(* The row a run is at is a matter of its own counter and marks.           *)
LEMMA CurrentStays ==
    ASSUME NEW q \in Pods, NEW x, pc'[q] = pc[q], work'[q] = work[q]
    PROVE  IsCurrent(q, x)' <=> IsCurrent(q, x)
BY DEF IsCurrent, Todo

(* Every step of the subclass delivers before it marks.                    *)
LEMMA DeliveredStep == NTypeOK /\ Delivered /\ [NNext]_allVars => Delivered'
<1> SUFFICES ASSUME NTypeOK, Delivered, [NNext]_allVars PROVE Delivered'
    OBVIOUS
<1>0. TypeOK /\ [Next]_vars
    BY NStepIsStep DEF NTypeOK
<1> DEFINE Marked == \A p \in Pods, r \in Rows : work[p][r] = "sent" => r \in inbox \cup suppressed
           New == \A p \in Pods, r \in Rows : isNew[p] /\ IsCurrent(p, r) => r \in inbox
           Tasked == \A p \in Pods : tasks[p] \cup running[p] \subseteq inbox
<1>1. inbox \subseteq inbox' /\ suppressed \subseteq suppressed'
    BY NCases DEF Suppress, SendInApp, Deduplicated, ReturnTask, ProcessRowThrows, Push, PushFails,
                  ScheduleEmail, Inherited, Aborted, allVars, nVars
<1>2. \A r \in Rows : status'[r] = "sent" => r \in inbox' \cup suppressed'
    BY <1>0, <1>1, SentWasMarked DEF Delivered
<1>3. ASSUME NEW p \in Pods, NEW r \in Rows, Suppress(p, r) \/ Deduplicated(p, r) \/ ReturnTask(p, r)
      PROVE  Marked' /\ New' /\ Tasked'
  <2>1. PICK t \in BOOLEAN : HandlerReturns(p, r, t) /\ (t => ReturnTask(p, r))
      BY <1>3 DEF Suppress, Deduplicated, ReturnTask
  <2>2. IsCurrent(p, r) /\ running' = running
        /\ MarkRow(p, r, "sent", IF t THEN tasks[p] \cup {r} ELSE tasks[p])
      BY <2>1 DEF HandlerReturns
  <2>3. r \in inbox' \cup suppressed' /\ (t => r \in inbox')
      BY <1>1, <1>3, <2>1, <2>2 DEF Suppress, Deduplicated, ReturnTask, Delivered
  <2>4. Marked'
      BY <1>0, <1>1, <2>2, <2>3, MarkEffect DEF Delivered
  <2>5. Tasked'
    <3>1. \A q \in Pods : tasks'[q] \subseteq tasks[q] \cup tasks[p] \cup (IF t THEN {r} ELSE {})
        BY <1>0, <2>2, MarkEffect
    <3>2. QED
        BY <1>1, <2>2, <2>3, <3>1 DEF Delivered
  <2>6. New'
    <3>1. ~isNew'[p] /\ \A q \in Pods \ {p} : isNew'[q] = isNew[q]
        BY <1>3 DEF Suppress, Deduplicated, ReturnTask, NTypeOK, nVars
    <3>2. \A q \in Pods \ {p} : pc'[q] = pc[q] /\ work'[q] = work[q]
        BY <1>0, <2>1, OwnRun
    <3>3. QED
        BY <1>1, <3>1, <3>2, CurrentStays DEF Delivered
  <2>7. QED
      BY <2>4, <2>5, <2>6
<1>4. ASSUME NEW p \in Pods, NEW r \in Rows, ProcessRowThrows(p, r)
      PROVE  Marked' /\ New' /\ Tasked'
  <2>1. MarkRow(p, r, "failed", tasks[p]) /\ running' = running /\ HandlerThrows(p, r)
      BY <1>4 DEF ProcessRowThrows, HandlerThrows
  <2>2. Marked'
      BY <1>0, <1>1, <2>1, MarkEffect DEF Delivered
  <2>3. Tasked'
      BY <1>0, <1>1, <2>1, MarkEffect DEF Delivered
  <2>4. ~isNew'[p] /\ \A q \in Pods \ {p} : isNew'[q] = isNew[q]
      BY <1>4 DEF ProcessRowThrows, NTypeOK
  <2>5. \A q \in Pods \ {p} : pc'[q] = pc[q] /\ work'[q] = work[q]
      BY <1>0, <2>1, OwnRun
  <2>6. New'
      BY <1>1, <2>4, <2>5, CurrentStays DEF Delivered
  <2>7. QED
      BY <2>2, <2>3, <2>6
<1>5. ASSUME NEW p \in Pods, NEW r \in Rows, SendInApp(p, r)
      PROVE  Marked' /\ New' /\ Tasked'
  <2>1. /\ IsCurrent(p, r) /\ r \in inbox' /\ UNCHANGED <<pc, work, tasks, running>>
        /\ \A q \in Pods \ {p} : isNew'[q] = isNew[q]
      BY <1>5 DEF SendInApp, vars, NTypeOK
  <2>2. \A x \in Rows : IsCurrent(p, x) => x = r
      BY <2>1, RowsAssumption DEF IsCurrent, Todo
  <2>3. \A q \in Pods, x \in Rows : IsCurrent(q, x)' <=> IsCurrent(q, x)
      BY <2>1, CurrentStays
  <2>4. QED
      BY <1>1, <2>1, <2>2, <2>3 DEF Delivered
<1>6. ASSUME NEW p \in Pods, NEW r \in Rows, Push(p, r) \/ PushFails(p, r) \/ ScheduleEmail(p, r)
      PROVE  Marked' /\ New' /\ Tasked'
  <2>1. TaskRuns(p, r) \/ UNCHANGED vars
      BY <1>6 DEF Push, PushFails, ScheduleEmail
  <2>2. UNCHANGED <<pc, work>>
      BY <2>1 DEF TaskRuns, vars, podVars, txVars
  <2>3. isNew' = isNew
      BY <1>6 DEF Push, PushFails, ScheduleEmail
  <2>4. Marked' /\ Tasked'
      BY <1>0, <1>1, <2>1, QuietStep DEF Delivered
  <2>5. New'
      BY <1>1, <2>2, <2>3, CurrentStays DEF Delivered
  <2>6. QED
      BY <2>4, <2>5
<1>7. ASSUME NEW p \in Pods, Inherited(p) PROVE Marked' /\ New' /\ Tasked'
  <2>1. Trigger(p) \/ Immediate(p) \/ FetchBatch(p) \/ Commit(p) \/ LoseSession(p)
      BY <1>7 DEF Inherited
  <2>2. Marked' /\ Tasked'
      BY <1>0, <1>1, <2>1, QuietStep DEF Delivered
  <2>3. \A q \in Pods \ {p} : pc'[q] = pc[q] /\ work'[q] = work[q]
      BY <1>0, <2>1, OwnRun
  <2>4. pc[p] = "row" => pc'[p] = pc[p] /\ work'[p] = work[p]
      BY <2>1 DEF Trigger, Immediate, Call, FetchBatch, Commit, LoseSession, podVars, txVars
  <2>5. isNew' = isNew /\ \A q \in Pods : isNew[q] => pc[q] = "row"
      BY <1>7 DEF Inherited, nVars, NTypeOK
  <2>6. New'
      BY <1>1, <2>3, <2>4, <2>5, CurrentStays DEF Delivered
  <2>7. QED
      BY <2>2, <2>6
<1>8. ASSUME NEW p \in Pods, Aborted(p) PROVE Marked' /\ New' /\ Tasked'
  <2>1. BeginFails(p) \/ TxFails(p) \/ CommitUnknown(p) \/ Crash(p)
      BY <1>8 DEF Aborted
  <2>2. Marked' /\ Tasked'
      BY <1>0, <1>1, <2>1, QuietStep DEF Delivered
  <2>3. \A q \in Pods \ {p} : pc'[q] = pc[q] /\ work'[q] = work[q]
      BY <1>0, <2>1, OwnRun
  <2>4. ~isNew'[p] /\ \A q \in Pods \ {p} : isNew'[q] = isNew[q]
      BY <1>8 DEF Aborted, NTypeOK
  <2>5. New'
      BY <1>1, <2>3, <2>4, CurrentStays DEF Delivered
  <2>6. QED
      BY <2>2, <2>5
<1>9. ASSUME (Environment /\ UNCHANGED nVars) \/ UNCHANGED allVars
      PROVE  Marked' /\ New' /\ Tasked'
  <2>1. UNCHANGED <<pc, work, tasks, running, isNew>>
      BY <1>9 DEF Environment, Insert, BecomeDue, podVars, txVars, nVars, allVars, vars
  <2>2. New'
      BY <1>1, <2>1, CurrentStays DEF Delivered
  <2>3. Marked' /\ Tasked'
      BY <1>1, <2>1 DEF Delivered
  <2>4. QED
      BY <2>2, <2>3
<1>10. Marked' /\ New' /\ Tasked'
    BY <1>3, <1>4, <1>5, <1>6, <1>7, <1>8, <1>9, NCases
<1>11. QED
    BY <1>2, <1>10 DEF Delivered

(* Every step of the subclass pushes a settled row, once.                  *)
LEMMA PushesStep ==
    NTypeOK /\ Batches /\ Posting /\ Delivered /\ Pushes /\ [NNext]_allVars => Pushes'
<1> SUFFICES ASSUME NTypeOK, Batches, Posting, Delivered, Pushes, [NNext]_allVars PROVE Pushes'
    OBVIOUS
<1>0. TypeOK /\ [Next]_vars
    BY NStepIsStep DEF NTypeOK
<1>1. inbox \subseteq inbox' /\ \A r \in Rows : status[r] = "sent" => status'[r] = "sent"
    BY <1>0, SentIsFinal, NCases DEF Suppress, SendInApp, Deduplicated, ReturnTask,
         ProcessRowThrows, Push, PushFails, ScheduleEmail, Inherited, Aborted, allVars, nVars
<1>2. ASSUME UNCHANGED <<pushed, emails>>,
             \A p \in Pods : \A r \in running'[p] :
                r \in running[p] /\ (r \in emailing'[p] <=> r \in emailing[p])
      PROVE  Pushes'
    BY <1>1, <1>2 DEF Pushes
<1>3. ASSUME UNCHANGED <<running, pushed, emailing, emails>> PROVE Pushes'
    BY <1>2, <1>3
<1>4. ASSUME NEW p \in Pods, NEW r \in Rows,
             Suppress(p, r) \/ SendInApp(p, r) \/ Deduplicated(p, r) \/ ReturnTask(p, r)
             \/ ProcessRowThrows(p, r)
      PROVE  Pushes'
  <2>1. HandlerThrows(p, r) \/ (\E t \in BOOLEAN : HandlerReturns(p, r, t)) \/ UNCHANGED vars
      BY <1>4 DEF Suppress, SendInApp, Deduplicated, ReturnTask, ProcessRowThrows
  <2>2. running' = running
      BY <2>1 DEF HandlerThrows, HandlerReturns, vars
  <2>3. UNCHANGED <<pushed, emailing, emails>>
      BY <1>4 DEF Suppress, SendInApp, Deduplicated, ReturnTask, ProcessRowThrows, nVars, pushVars
  <2>4. QED
      BY <1>3, <2>2, <2>3
<1>5. ASSUME NEW p \in Pods, NEW r \in Rows, Push(p, r) PROVE Pushes'
  <2>1. /\ r \in running[p] /\ r \notin emailing[p] /\ emails' = emails
        /\ pushed'[r] = pushed[r] + 1 /\ \A x \in Rows \ {r} : pushed'[x] = pushed[x]
      BY <1>5 DEF Push, NTypeOK
  <2>2. /\ pushed[r] = 0 /\ r \in inbox /\ status[r] = "sent"
        /\ \A q \in Pods \ {p} : r \notin running[q]
      BY <2>1 DEF Pushes, Delivered, Posting, PostCommitOnce
  <2>3. /\ \A q \in Pods \ {p} : running'[q] = running[q] /\ emailing'[q] = emailing[q]
        /\ \A x \in running'[p] : x \in running[p]
        /\ r \in running'[p] => r \in emailing'[p]
        /\ \A x \in Rows \ {r} : x \in emailing'[p] <=> x \in emailing[p]
    <3>1. CASE r \in wantsEmail
      <4>1. running' = running /\ emailing' = [emailing EXCEPT ![p] = @ \cup {r}]
          BY <1>5, <3>1 DEF Push, vars
      <4>2. QED
          BY <4>1 DEF NTypeOK
    <3>2. CASE r \notin wantsEmail
      <4>1. running' = [running EXCEPT ![p] = @ \ {r}] /\ emailing' = emailing
          BY <1>5, <3>2 DEF Push, TaskRuns
      <4>2. QED
          BY <1>0, <4>1 DEF TypeOK
    <3>3. QED
        BY <3>1, <3>2
  <2>4. \A x \in Rows : pushed'[x] <= 1 /\ (pushed'[x] > 0 => x \in inbox' /\ status'[x] = "sent")
      BY <1>1, <2>1, <2>2 DEF Pushes
  <2>5. ASSUME NEW q \in Pods, NEW x \in running'[q]
        PROVE  pushed'[x] = IF x \in emailing'[q] THEN 1 ELSE 0
    <3>1. x \in running[q] /\ x \in Rows
        BY <1>0, <2>3, <2>5 DEF TypeOK
    <3>2. pushed[x] = IF x \in emailing[q] THEN 1 ELSE 0
        BY <3>1 DEF Pushes
    <3>3. CASE x = r
        BY <2>1, <2>2, <2>3, <2>5, <3>1, <3>3
    <3>4. CASE x # r
        BY <2>1, <2>3, <3>1, <3>2, <3>4
    <3>5. QED
        BY <3>3, <3>4
  <2>6. \A x \in emails' : pushed'[x] = 1
      BY <2>1, <2>2 DEF Pushes, NTypeOK
  <2>7. QED
      BY <2>4, <2>5, <2>6 DEF Pushes
<1>6. ASSUME NEW p \in Pods, NEW r \in Rows, PushFails(p, r) PROVE Pushes'
  <2>1. UNCHANGED <<pushed, emailing, emails>> /\ running' = [running EXCEPT ![p] = @ \ {r}]
      BY <1>6 DEF PushFails, TaskRuns, pushVars
  <2>2. \A q \in Pods : running'[q] \subseteq running[q]
      BY <1>0, <2>1 DEF TypeOK
  <2>3. QED
      BY <1>2, <2>1, <2>2
<1>7. ASSUME NEW p \in Pods, NEW r \in Rows, ScheduleEmail(p, r) PROVE Pushes'
  <2>1. /\ pushed' = pushed /\ r \in emailing[p] /\ emails' \subseteq emails \cup {r}
        /\ running' = [running EXCEPT ![p] = @ \ {r}]
        /\ emailing' = [emailing EXCEPT ![p] = @ \ {r}]
      BY <1>7 DEF ScheduleEmail, TaskRuns
  <2>2. pushed[r] = 1
      BY <2>1 DEF NTypeOK, Pushes
  <2>3. \A q \in Pods : \A x \in running'[q] :
           x \in running[q] /\ (x \in emailing'[q] <=> x \in emailing[q])
      BY <1>0, <2>1 DEF TypeOK, NTypeOK
  <2>4. QED
      BY <1>1, <2>1, <2>2, <2>3 DEF Pushes
<1>8. ASSUME NEW p \in Pods, Commit(p), UNCHANGED nVars PROVE Pushes'
  <2>1. /\ session[p] = "open" /\ UNCHANGED <<pushed, emailing, emails>>
        /\ running'[p] = running[p] \cup tasks[p]
        /\ \A q \in Pods \ {p} : running'[q] = running[q]
      BY <1>0, <1>8 DEF Commit, nVars, pushVars, TypeOK
  <2>2. ASSUME NEW x \in tasks[p], x \notin running[p]
        PROVE  pushed[x] = 0 /\ x \notin emailing[p]
    <3>1. x \in Rows /\ work[p][x] = "sent" /\ status[x] = "pending"
        BY <1>0, <2>1 DEF TypeOK, Batches, TxShape, BatchIsExclusive
    <3>2. QED
        BY <2>2, <3>1 DEF Pushes, NTypeOK
  <2>3. \A q \in Pods : \A x \in running'[q] : pushed[x] = IF x \in emailing[q] THEN 1 ELSE 0
      BY <2>1, <2>2 DEF Pushes
  <2>4. QED
      BY <1>1, <2>1, <2>3 DEF Pushes
<1>9. ASSUME NEW p \in Pods, Inherited(p) PROVE Pushes'
  <2>1. UNCHANGED nVars /\ (Commit(p) \/ running' = running)
      BY <1>9 DEF Inherited, Trigger, Immediate, FetchBatch, LoseSession
  <2>2. QED
      BY <1>3, <1>8, <2>1 DEF nVars, pushVars
<1>10. ASSUME NEW p \in Pods, Aborted(p) PROVE Pushes'
  <2>1. /\ UNCHANGED <<pushed, emails>>
        /\ emailing' = [emailing EXCEPT ![p] = @ \cap running'[p]]
        /\ running' = running \/ running' = [running EXCEPT ![p] = {}]
      BY <1>10 DEF Aborted, BeginFails, TxFails, CommitUnknown, Crash
  <2>2. \A q \in Pods : \A x \in running'[q] :
           x \in running[q] /\ (x \in emailing'[q] <=> x \in emailing[q])
      BY <1>0, <2>1 DEF TypeOK, NTypeOK
  <2>3. QED
      BY <1>2, <2>1, <2>2
<1>11. CASE (Environment /\ UNCHANGED nVars) \/ UNCHANGED allVars
  <2>1. UNCHANGED <<running, pushed, emailing, emails>>
      BY <1>11 DEF Environment, Insert, BecomeDue, nVars, pushVars, allVars, vars
  <2>2. QED
      BY <1>3, <2>1
<1>12. QED
    BY <1>4, <1>5, <1>6, <1>7, <1>9, <1>10, <1>11, NCases

(* A row is marked 'sent' only with its notification in the inbox or       *)
(* switched off by the user; the browser hears of it at most once over all *)
(* retries, pods and crashes, when it is settled and can be read; an email *)
(* only follows a push.                                                    *)
THEOREM PushedOnceFromTheInbox == NSpec => []InboxThenPush
<1>1. NInit => Delivered /\ Pushes
    BY InitInv DEF NInit, IInv, Init, Delivered, Pushes
<1>2. NTypeOK /\ Delivered /\ Pushes => InboxThenPush
    BY DEF Delivered, Pushes, InboxThenPush
<1>3. QED
    BY <1>1, <1>2, NTypeInv, NotificationRelayIsARelay, BatchesInv, PostingInv,
       DeliveredStep, PushesStep, PTL DEF NSpec
=============================================================================
