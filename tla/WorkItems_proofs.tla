-------------------------- MODULE WorkItems_proofs --------------------------
(***************************************************************************)
(* Proofs about WorkItems for every number of items, clients and statuses: *)
(* the numbers of the items of a project never collide; and while requests *)
(* come one after the other (MCWorkItems), the activity log of an item     *)
(* replays its status, and what a request has checked holds when it writes.*)
(***************************************************************************)
EXTENDS MCWorkItems, SequenceTheorems, TLAPS

(* Every step is of one of the actions, or changes nothing.                *)
LEMMA NextCases ==
    ASSUME [Next]_vars
    PROVE  \/ \E c \in Clients, s \in StatusIds : CreateWorkItem(c, s)
           \/ \E c \in Clients, i \in Items : InsertItem(c, i) \/ DeleteWorkItem(c, i)
           \/ \E c \in Clients, i \in Items, s \in StatusIds : UpdateWorkItem(c, i, s)
           \/ \E c \in Clients : GenerateItemKey(c) \/ AssertTransitionAllowed(c) \/ Abort(c)
           \/ \E c \in Clients : IncrementCounter(c)
           \/ \E c \in Clients : WriteUpdate(c) \/ SoftDelete(c)
           \/ \E c \in Clients : ArchiveProject(c) \/ RestoreProject(c) \/ DeleteProject(c)
           \/ \E c \in Clients : UpdateProject(c) \/ SoftDeleteProject(c) \/ EditWorkflow(c)
           \/ UNCHANGED vars
BY DEF Next, Create, Edit, Project

-----------------------------------------------------------------------------
(* The records of requests are well-formed.                                *)
LEMMA RequestTypes ==
    /\ Idle \in Requests
    /\ \A step \in {"checkArchived", "increment", "insert"}, n \in 0..MaxNumber, s \in StatusIds :
          Numbering(step, n, s) \in Requests
    /\ \A step \in {"checkTransition", "update"}, i \in Items, s, t \in StatusIds :
          Moving(step, i, s, t) \in Requests
    /\ \A i \in Items : Deleting(i) \in Requests
    /\ \A step \in {"archive", "restore", "deleteProject"} : OnProject(step) \in Requests
BY DEF Requests, Numbering, Moving, Deleting, OnProject

(* What the step of a request says about its fields.                       *)
LEMMA RequestFields ==
    ASSUME NEW q \in Requests
    PROVE  /\ q.step \in {"checkArchived", "increment", "insert"} =>
                 q.number \in 0..MaxNumber /\ q.to \in StatusIds
           /\ q.step \in {"checkTransition", "update"} =>
                 q.item \in Items /\ q.from \in StatusIds /\ q.to \in StatusIds
           /\ q.step = "softDelete" => q.item \in Items
BY DEF Requests, Idle, OnProject

(* A request that goes on to a well-formed one that is not about to insert.*)
LEMMA Proceeds ==
    ASSUME TypeOK, NEW c \in Clients, NEW q \in Requests, q.step # "insert",
           GoTo(c, q), UNCHANGED lastNumber
    PROVE  /\ request' \in [Clients -> Requests]
           /\ \A d \in Clients : At(d, "insert")' => At(d, "insert") /\ request'[d] = request[d]
           /\ \A d \in Clients : At(d, "insert")' => request'[d].number \in 1..lastNumber'
BY DEF TypeOK, GoTo, At

(* Every step but taking a number and inserting the item: numbers stay as  *)
(* they are, and no other request gets to its insert.                      *)
NumbersStay ==
    /\ UNCHANGED <<number, lastNumber>>
    /\ request' \in [Clients -> Requests]
    /\ \A d \in Clients : At(d, "insert")' => At(d, "insert") /\ request'[d] = request[d]
    /\ \A d \in Clients : At(d, "insert")' => request'[d].number \in 1..lastNumber'

(* A step leaves the numbers, increments a counter or inserts an item.     *)
LEMMA OtherSteps ==
    ASSUME TypeOK, [Next]_vars
    PROVE  \/ NumbersStay
           \/ \E c \in Clients : IncrementCounter(c) \/ \E i \in Items : InsertItem(c, i)
<1> USE RequestTypes, RequestFields, Proceeds DEF NumbersStay
<1>1. ASSUME NEW c \in Clients, NEW q \in Requests, q.step # "insert", Begin(c, q)
      PROVE  NumbersStay
      BY <1>1 DEF Begin, itemVars
<1>2. ASSUME NEW c \in Clients, Return(c), UNCHANGED <<number, lastNumber>>
      PROVE  NumbersStay
      BY <1>2 DEF Return, Idle
<1>3. ASSUME NEW c \in Clients, NEW s \in StatusIds, CreateWorkItem(c, s)
      PROVE  NumbersStay
  <2>1. Numbering("checkArchived", 0, s) \in Requests
        BY BoundsAssumption DEF Numbering, Requests
  <2>2. QED
        BY <1>1, <1>3, <2>1 DEF CreateWorkItem, Numbering
<1>4. ASSUME NEW c \in Clients, NEW i \in Items, DeleteWorkItem(c, i)
      PROVE  NumbersStay
      BY <1>1, <1>4 DEF DeleteWorkItem, Deleting
<1>5. ASSUME NEW c \in Clients, NEW i \in Items, NEW s \in StatusIds, UpdateWorkItem(c, i, s)
      PROVE  NumbersStay
  <2>1. status[i] \in StatusIds
        BY DEF TypeOK
  <2>2. CASE s = status[i]
        BY <1>1, <1>5, <2>1, <2>2 DEF UpdateWorkItem, Moving
  <2>3. CASE s # status[i]
        BY <1>1, <1>5, <2>1, <2>3 DEF UpdateWorkItem, Moving
  <2>4. QED
        BY <2>2, <2>3
<1>6. ASSUME NEW c \in Clients, GenerateItemKey(c)
      PROVE  NumbersStay
  <2>1. request[c] \in Requests /\ request[c].step = "checkArchived"
        BY <1>6 DEF TypeOK, GenerateItemKey, At
  <2>2. request[c].to \in StatusIds
        BY <2>1
  <2>3. Numbering("increment", 0, request[c].to) \in Requests
        BY <2>2, BoundsAssumption
  <2>4. CASE projectDeleted \/ archived
        BY <1>2, <1>6, <2>4 DEF GenerateItemKey, itemVars
  <2>5. CASE ~(projectDeleted \/ archived)
        BY <1>6, <2>3, <2>5 DEF GenerateItemKey, Numbering, itemVars
  <2>6. QED
        BY <2>4, <2>5
<1>7. ASSUME NEW c \in Clients, AssertTransitionAllowed(c)
      PROVE  NumbersStay
  <2> DEFINE q == Moving("update", request[c].item, request[c].from, request[c].to)
  <2>1. request[c] \in Requests /\ request[c].step = "checkTransition"
        BY <1>7 DEF TypeOK, AssertTransitionAllowed, At
  <2>2. q \in Requests /\ q.step # "insert"
        BY <2>1 DEF Moving
  <2>3. GoTo(c, q) \/ Return(c)
        BY <1>7 DEF AssertTransitionAllowed
  <2>4. UNCHANGED <<number, lastNumber>>
        BY <1>7 DEF AssertTransitionAllowed, itemVars
  <2> HIDE DEF q
  <2>5. QED
        BY <1>2, <2>2, <2>3, <2>4
<1>8. ASSUME NEW c \in Clients,
             Abort(c) \/ WriteUpdate(c) \/ SoftDelete(c) \/ UpdateProject(c) \/ SoftDeleteProject(c)
      PROVE  NumbersStay
      BY <1>2, <1>8 DEF Abort, WriteUpdate, SoftDelete, UpdateProject, SoftDeleteProject, itemVars
<1>9. ASSUME NEW c \in Clients, ArchiveProject(c) \/ RestoreProject(c) \/ DeleteProject(c)
      PROVE  NumbersStay
      BY <1>1, <1>9 DEF ArchiveProject, RestoreProject, DeleteProject, OnProject
<1>10. ASSUME UNCHANGED <<number, lastNumber, request>>
       PROVE  NumbersStay
       BY <1>10 DEF TypeOK, At
<1>11. QED
       BY <1>3, <1>4, <1>5, <1>6, <1>7, <1>8, <1>9, <1>10, NextCases
       DEF EditWorkflow, itemVars, vars

-----------------------------------------------------------------------------
(* The number a request takes is the next one, above all in use.           *)
LEMMA TakesNext ==
    ASSUME TypeOK, KeysUnique, NEW c \in Clients, IncrementCounter(c)
    PROVE  /\ lastNumber' \in 0..MaxNumber
           /\ number' \in [Items -> 0..lastNumber']
           /\ request' \in [Clients -> Requests]
           /\ \A d \in Clients : At(d, "insert")' => request'[d].number \in 1..lastNumber'
           /\ KeysUnique'
<1>1. /\ lastNumber' = lastNumber + 1 /\ lastNumber' \in 1..MaxNumber
      /\ UNCHANGED number
      BY BoundsAssumption DEF IncrementCounter, TypeOK, itemVars
<1>2. request[c] \in Requests /\ request[c].step = "increment"
      BY DEF TypeOK, IncrementCounter, At
<1> DEFINE q == Numbering("insert", lastNumber', request[c].to)
<1>3. /\ q \in Requests /\ q.step = "insert" /\ q.number = lastNumber'
  <2>1. request[c].to \in StatusIds
        BY <1>2, RequestFields
  <2>2. QED
        BY <1>1, <2>1, BoundsAssumption DEF Numbering, Requests
<1>4. request' = [request EXCEPT ![c] = q]
      BY DEF IncrementCounter, GoTo
<1> HIDE DEF q
<1>5. \A d \in Clients : request'[d] = IF d = c THEN q ELSE request[d]
      BY <1>4 DEF TypeOK
<1>6. \A d \in Clients \ {c} : At(d, "insert") => request[d].number \in 1..lastNumber
      BY DEF TypeOK
<1>7. request' \in [Clients -> Requests]
      BY <1>3, <1>4 DEF TypeOK
<1>8. number' \in [Items -> 0..lastNumber']
      BY <1>1 DEF TypeOK
<1>9. \A d \in Clients : At(d, "insert")' => request'[d].number \in 1..lastNumber'
      BY <1>1, <1>3, <1>5, <1>6 DEF At, TypeOK
<1>10. KeysUnique'
  <2>1. \A i \in Items : number[i] \in 0..lastNumber
        BY DEF TypeOK
  <2>2. \A d \in Clients \ {c} : At(d, "insert")' => request'[d] = request[d] /\ At(d, "insert")
        BY <1>5 DEF At
  <2>3. request'[c].number = lastNumber'
        BY <1>3, <1>5
  <2>4. QED
    <3>1. \A d \in Inserting' \ {c} : d \in Inserting /\ request'[d] = request[d]
          BY <2>2 DEF Inserting
    <3>2. \A d \in Inserting' \ {c} : request'[d].number \in 1..lastNumber
          BY <1>6, <2>2 DEF Inserting
    <3>3. \A d, e \in Inserting' : request'[d].number = request'[e].number => d = e
          BY <1>1, <2>3, <3>1, <3>2 DEF KeysUnique, TypeOK
    <3>4. \A d \in Inserting', i \in Items : request'[d].number # number'[i]
      <4>1. lastNumber \in Nat
            BY BoundsAssumption DEF TypeOK
      <4>2. \A i \in Items : number'[i] # lastNumber'
            BY <1>1, <2>1, <4>1
      <4>3. \A d \in Inserting' \ {c}, i \in Items : request'[d].number # number'[i]
            BY <1>1, <3>1 DEF KeysUnique
      <4>4. QED
            BY <2>3, <4>2, <4>3
    <3>5. QED
          BY <1>1, <3>3, <3>4 DEF KeysUnique
<1>11. QED
       BY <1>1, <1>7, <1>8, <1>9, <1>10, BoundsAssumption

(* The number of the request becomes the number of the new item.           *)
LEMMA InsertUses ==
    ASSUME TypeOK, KeysUnique, NEW c \in Clients, NEW i \in Items, InsertItem(c, i)
    PROVE  /\ number' \in [Items -> 0..lastNumber']
           /\ status' \in [Items -> StatusIds]
           /\ request' \in [Clients -> Requests]
           /\ \A d \in Clients : At(d, "insert")' => request'[d].number \in 1..lastNumber'
           /\ KeysUnique'
<1>1. /\ At(c, "insert") /\ request[c] \in Requests /\ UNCHANGED lastNumber
      BY DEF InsertItem, TypeOK
<1>2. request[c].number \in 1..lastNumber /\ request[c].to \in StatusIds
      BY <1>1, RequestFields DEF TypeOK, At
<1>3. /\ number' = [number EXCEPT ![i] = request[c].number]
      /\ status' = [status EXCEPT ![i] = request[c].to]
      BY DEF InsertItem
<1>4. \A d \in Clients : request'[d] = IF d = c THEN Idle ELSE request[d]
      BY DEF InsertItem, Return, GoTo, TypeOK
<1>5. request' \in [Clients -> Requests]
      BY RequestTypes DEF InsertItem, Return, GoTo, TypeOK
<1>6. \A d \in Clients : At(d, "insert")' => d # c /\ At(d, "insert") /\ request'[d] = request[d]
      BY <1>4 DEF At, Idle
<1>7. number' \in [Items -> 0..lastNumber'] /\ status' \in [Items -> StatusIds]
      BY <1>1, <1>2, <1>3 DEF TypeOK
<1>8. \A d \in Clients : At(d, "insert")' => request'[d].number \in 1..lastNumber'
      BY <1>1, <1>6 DEF TypeOK
<1>9. KeysUnique'
  <2>1. \A j \in Items : number'[j] = IF j = i THEN request[c].number ELSE number[j]
        BY <1>3 DEF TypeOK
  <2>2. c \in Inserting
        BY <1>1 DEF Inserting
  <2>3. \A d \in Inserting' : d \in Inserting \ {c} /\ request'[d] = request[d]
        BY <1>6 DEF Inserting
  <2>4. QED
        BY <2>1, <2>2, <2>3 DEF KeysUnique
<1>10. QED
       BY <1>5, <1>7, <1>8, <1>9

(* An update appends well-formed entries.                                  *)
LEMMA UpdateTypes ==
    ASSUME TypeOK, NEW c \in Clients, WriteUpdate(c)
    PROVE  /\ status' \in [Items -> StatusIds]
           /\ activity' \in [Items -> Seq([old : StatusIds, new : StatusIds])]
<1> DEFINE q == request[c]  E == [old : StatusIds, new : StatusIds]
<1>1. q.item \in Items /\ q.from \in StatusIds /\ q.to \in StatusIds
      BY RequestFields DEF WriteUpdate, At, TypeOK
<1>2. Entries(q) \in Seq(E)
  <2> DEFINE e == [old |-> q.from, new |-> q.to]
  <2>1. e \in E
        BY <1>1
  <2> HIDE DEF e, E
  <2>2. <<>> \in Seq(E) /\ <<e>> \in Seq(E)
        BY <2>1
  <2>3. Entries(q) = <<>> \/ Entries(q) = <<e>>
        BY DEF Entries, e
  <2>4. QED
        BY <2>2, <2>3
<1>3. activity[q.item] \in Seq(E)
      BY <1>1 DEF TypeOK
<1> HIDE DEF E
<1>4. activity[q.item] \o Entries(q) \in Seq(E)
      BY <1>2, <1>3
<1>5. /\ status' = [status EXCEPT ![q.item] = q.to]
      /\ activity' = [activity EXCEPT ![q.item] = activity[q.item] \o Entries(q)]
      BY DEF WriteUpdate
<1>6. status \in [Items -> StatusIds] /\ activity \in [Items -> Seq(E)]
      BY DEF TypeOK, E
<1>7. status' \in [Items -> StatusIds] /\ activity' \in [Items -> Seq(E)]
      BY <1>1, <1>4, <1>5, <1>6
<1>8. QED
      BY <1>7 DEF E

(* Types and unique numbers survive every step.                            *)
LEMMA Step ==
    ASSUME TypeOK, KeysUnique, [Next]_vars
    PROVE  TypeOK' /\ KeysUnique'
<1>1. /\ lastNumber' \in 0..MaxNumber
      /\ number' \in [Items -> 0..lastNumber']
      /\ request' \in [Clients -> Requests]
      /\ \A c \in Clients : At(c, "insert")' => request'[c].number \in 1..lastNumber'
      /\ KeysUnique'
  <2>1. CASE NumbersStay
        BY <2>1 DEF NumbersStay, KeysUnique, Inserting, TypeOK
  <2>2. CASE \E c \in Clients : IncrementCounter(c)
        BY <2>2, TakesNext
  <2>3. CASE \E c \in Clients, i \in Items : InsertItem(c, i)
        BY <2>3, InsertUses DEF InsertItem, TypeOK
  <2>4. QED
        BY <2>1, <2>2, <2>3, OtherSteps
<1>2. /\ archived' \in BOOLEAN /\ projectDeleted' \in BOOLEAN
      /\ statuses' \subseteq StatusIds /\ transitions' \subseteq Transitions
  <2>1. CASE \E c \in Clients : EditWorkflow(c)
        BY <2>1 DEF EditWorkflow, TypeOK, projectVars
  <2>2. CASE \E c \in Clients : UpdateProject(c) \/ SoftDeleteProject(c)
        BY <2>2 DEF UpdateProject, SoftDeleteProject, TypeOK, workflowVars
  <2>3. CASE UNCHANGED <<projectVars, workflowVars>>
        BY <2>3 DEF TypeOK, projectVars, workflowVars
  <2>4. QED
        BY <2>1, <2>2, <2>3, NextCases
        DEF CreateWorkItem, InsertItem, DeleteWorkItem, UpdateWorkItem, GenerateItemKey,
            AssertTransitionAllowed, Abort, IncrementCounter, WriteUpdate, SoftDelete,
            ArchiveProject, RestoreProject, DeleteProject, Begin, vars
<1>3. /\ status' \in [Items -> StatusIds]
      /\ deleted' \subseteq Items
      /\ activity' \in [Items -> Seq([old : StatusIds, new : StatusIds])]
  <2>1. CASE \E c \in Clients : WriteUpdate(c)
        BY <2>1, UpdateTypes DEF WriteUpdate, TypeOK
  <2>2. CASE \E c \in Clients, i \in Items : InsertItem(c, i)
        BY <2>2, InsertUses DEF InsertItem, TypeOK
  <2>3. ASSUME NEW c \in Clients, SoftDelete(c)
        PROVE  /\ UNCHANGED <<status, activity>>
               /\ deleted' \subseteq Items
    <3>1. request[c].item \in Items
          BY <2>3, RequestFields DEF SoftDelete, At, TypeOK
    <3>2. QED
          BY <2>3, <3>1 DEF SoftDelete, TypeOK
  <2>4. CASE UNCHANGED <<status, deleted, activity>>
        BY <2>4 DEF TypeOK
  <2>5. \/ \E c \in Clients : WriteUpdate(c) \/ SoftDelete(c)
        \/ \E c \in Clients, i \in Items : InsertItem(c, i)
        \/ UNCHANGED <<status, deleted, activity>>
        BY NextCases
        DEF CreateWorkItem, DeleteWorkItem, UpdateWorkItem, GenerateItemKey,
            AssertTransitionAllowed, Abort, IncrementCounter, ArchiveProject, RestoreProject,
            DeleteProject, UpdateProject, SoftDeleteProject, EditWorkflow, Begin, itemVars, vars
  <2>6. QED
        BY <2>1, <2>2, <2>3, <2>4, <2>5 DEF TypeOK
<1>4. QED
      BY <1>1, <1>2, <1>3 DEF TypeOK

(* The new project has no items.                                           *)
LEMMA Initially == Init => TypeOK /\ KeysUnique
<1> DEFINE E == [old : StatusIds, new : StatusIds]
<1>1. <<>> \in Seq(E)
      OBVIOUS
<1> HIDE DEF E
<1>2. Init => activity \in [Items -> Seq(E)]
      BY <1>1 DEF Init
<1>3. Init => \A c \in Clients : ~At(c, "insert")
      BY DEF Init, At, Idle
<1>4. Init => request \in [Clients -> Requests]
      BY RequestTypes DEF Init
<1>5. Init => TypeOK
  <2> SUFFICES ASSUME Init
               PROVE  TypeOK
      OBVIOUS
  <2>1. lastNumber \in 0..MaxNumber /\ number \in [Items -> 0..lastNumber]
        BY BoundsAssumption DEF Init
  <2>2. activity \in [Items -> Seq([old : StatusIds, new : StatusIds])]
        BY <1>2 DEF E
  <2>3. /\ archived \in BOOLEAN /\ projectDeleted \in BOOLEAN /\ deleted \subseteq Items
        /\ statuses \subseteq StatusIds /\ transitions \subseteq Transitions
        /\ status \in [Items -> StatusIds]
        BY DEF Init
  <2>4. QED
        BY <1>3, <1>4, <2>1, <2>2, <2>3 DEF TypeOK
<1>6. Init => KeysUnique
      BY <1>3 DEF Init, KeysUnique, Inserting
<1>7. QED
      BY <1>5, <1>6

(* Type correctness of the project, its items and the requests in flight.  *)
THEOREM TypeCorrect == Spec => []TypeOK
<1>1. Spec => [](TypeOK /\ KeysUnique)
      BY Initially, Step, PTL DEF Spec
<1>2. QED
      BY <1>1, PTL

(* However many requests create items at once, and wherever they are cut   *)
(* off, no two items get the same number, and no insert ever collides.     *)
THEOREM NumbersNeverCollide == Spec => []KeysUnique
<1>1. Spec => [](TypeOK /\ KeysUnique)
      BY Initially, Step, PTL DEF Spec
<1>2. QED
      BY <1>1, PTL

-----------------------------------------------------------------------------
(* Requests that come one after the other.                                 *)

(* What a request has checked is so, when it is alone.                     *)
Fits(q) ==
    /\ q.step \in {"increment", "insert"} => ~archived /\ ~projectDeleted
    /\ q.step \in {"checkTransition", "update"} => number[q.item] > 0 /\ status[q.item] = q.from
    /\ q.step = "update" /\ q.from # q.to => CanTransition(q.from, q.to)

(* While requests come one after the other, each has what it read.         *)
OneRequest ==
    /\ \A c, d \in Clients : c # d => request[c] = Idle \/ request[d] = Idle
    /\ \A c \in Clients : Fits(request[c])
    /\ \A i \in Items : number[i] = 0 => activity[i] = <<>>
    /\ LogReplays

Sequential == overlapped \/ OneRequest

(* An entry that goes on from the last one, to the status of the item,     *)
(* keeps a log in order.                                                   *)
LEMMA LogGrows ==
    ASSUME NEW log \in Seq([old : StatusIds, new : StatusIds]),
           NEW s \in StatusIds, NEW t \in StatusIds,
           \A n \in 1..(Len(log) - 1) : log[n].new = log[n + 1].old,
           Len(log) > 0 => log[Len(log)].new = s,
           NEW longer, longer = log \o <<[old |-> s, new |-> t]>>
    PROVE  /\ \A n \in 1..(Len(longer) - 1) : longer[n].new = longer[n + 1].old
           /\ Len(longer) > 0 => longer[Len(longer)].new = t
<1> DEFINE e == [old |-> s, new |-> t]
<1>1. /\ Len(log) \in Nat /\ Len(longer) = Len(log) + 1
      /\ \A n \in 1..Len(log) : longer[n] = log[n]
      /\ longer[Len(log) + 1] = e
    OBVIOUS
<1>2. e.old = s /\ e.new = t
    OBVIOUS
<1> HIDE DEF e
<1>3. ASSUME NEW n \in 1..(Len(longer) - 1) PROVE longer[n].new = longer[n + 1].old
  <2>1. CASE n = Len(log)
      BY <1>1, <1>2, <2>1
  <2>2. CASE n # Len(log)
    <3>1. n \in 1..(Len(log) - 1) /\ n + 1 \in 1..Len(log) /\ n \in 1..Len(log)
        BY <1>1, <2>2
    <3>2. QED
        BY <1>1, <3>1
  <2>3. QED
      BY <2>1, <2>2
<1>4. longer[Len(longer)].new = t /\ Len(longer) > 0
    BY <1>1, <1>2
<1>5. QED
    BY <1>3, <1>4

(* A request that goes on alone: the others are idle.                      *)
LEMMA GoesOnAlone ==
    ASSUME TypeOK, OneRequest, NEW c \in Clients, NEW q, request[c] # Idle, GoTo(c, q), Fits(q)',
           \A i \in Items : number'[i] = 0 => activity'[i] = <<>>, LogReplays'
    PROVE  OneRequest'
<1>1. request'[c] = q /\ \A d \in Clients \ {c} : request'[d] = Idle
    BY DEF OneRequest, GoTo, TypeOK
<1>2. Fits(Idle)'
    BY DEF Fits, Idle
<1>3. \A d \in Clients : Fits(request[d])'
  <2>1. SUFFICES ASSUME NEW d \in Clients PROVE Fits(request[d])'
      OBVIOUS
  <2>2. CASE d = c
      BY <1>1, <2>2 DEF Fits
  <2>3. CASE d # c
      BY <1>1, <1>2, <2>3 DEF Fits
  <2>4. QED
      BY <2>2, <2>3
<1>4. QED
    BY <1>1, <1>3 DEF OneRequest

(* A request that begins, or changes the workflow, when no other is under  *)
(* way.                                                                    *)
LEMMA BeginsAlone ==
    ASSUME TypeOK, OneRequest, NEW c \in Clients, NEW q, Begin(c, q), Fits(q),
           \A d, e \in Clients : d # e => request'[d] = Idle \/ request'[e] = Idle
    PROVE  OneRequest'
<1>1. /\ UNCHANGED <<archived, projectDeleted, transitions, number, status, activity>>
      /\ request'[c] = q /\ \A d \in Clients \ {c} : request'[d] = request[d]
    BY DEF Begin, GoTo, projectVars, workflowVars, itemVars, TypeOK
<1>2. \A d \in Clients : Fits(request[d])'
  <2>1. SUFFICES ASSUME NEW d \in Clients PROVE Fits(request[d])'
      OBVIOUS
  <2>2. Fits(request'[d])
      BY <1>1 DEF OneRequest
  <2>3. QED
      BY <1>1, <2>2 DEF Fits, CanTransition
<1>3. LogReplays'
    BY <1>1 DEF OneRequest, LogReplays
<1>4. QED
    BY <1>1, <1>2, <1>3 DEF OneRequest

(* What the transaction of an update does to the log.                      *)
LEMMA UpdateIsLogged ==
    ASSUME TypeOK, OneRequest, NEW c \in Clients, WriteUpdate(c)
    PROVE  /\ \A i \in Items : number'[i] = 0 => activity'[i] = <<>>
           /\ LogReplays'
<1> DEFINE q == request[c]
<1>1. /\ q.item \in Items /\ q.from \in StatusIds /\ q.to \in StatusIds
      /\ status[q.item] = q.from /\ number[q.item] > 0
    BY RequestFields DEF WriteUpdate, At, OneRequest, Fits, TypeOK
<1>2. /\ status' = [status EXCEPT ![q.item] = q.to]
      /\ activity' = [activity EXCEPT ![q.item] = @ \o Entries(q)]
      /\ number' = number
    BY DEF WriteUpdate
<1> HIDE DEF q
<1>3. \A i \in Items : number'[i] = 0 => activity'[i] = <<>>
    BY <1>1, <1>2 DEF OneRequest, TypeOK
<1>4. \A i \in Items : i # q.item => activity'[i] = activity[i] /\ status'[i] = status[i]
    BY <1>2 DEF TypeOK
<1>5. status'[q.item] = q.to /\ activity'[q.item] = activity[q.item] \o Entries(q)
    BY <1>1, <1>2 DEF TypeOK
<1>6. activity[q.item] \in Seq([old : StatusIds, new : StatusIds])
    BY <1>1 DEF TypeOK
<1>7. LET log == activity[q.item] IN
      /\ \A n \in 1..(Len(log) - 1) : log[n].new = log[n + 1].old
      /\ Len(log) > 0 => log[Len(log)].new = q.from
    BY <1>1 DEF OneRequest, LogReplays
<1>8. LET log == activity'[q.item] IN
      /\ \A n \in 1..(Len(log) - 1) : log[n].new = log[n + 1].old
      /\ Len(log) > 0 => log[Len(log)].new = status'[q.item]
  <2>1. CASE q.from = q.to
    <3>1. activity'[q.item] = activity[q.item]
        BY <1>5, <1>6, <2>1, ConcatEmptySeq DEF Entries
    <3>2. QED
        BY <1>5, <1>7, <2>1, <3>1
  <2>2. CASE q.from # q.to
    <3>1. activity'[q.item] = activity[q.item] \o <<[old |-> q.from, new |-> q.to]>>
        BY <1>5, <2>2 DEF Entries
    <3>2. PICK log, f, t, longer : /\ log = activity[q.item] /\ f = q.from /\ t = q.to
                                  /\ longer = activity'[q.item]
        OBVIOUS
    <3>3. /\ log \in Seq([old : StatusIds, new : StatusIds])
          /\ f \in StatusIds /\ t \in StatusIds
          /\ longer = log \o <<[old |-> f, new |-> t]>>
        BY <1>1, <1>6, <3>1, <3>2
    <3>4. /\ \A n \in 1..(Len(log) - 1) : log[n].new = log[n + 1].old
          /\ Len(log) > 0 => log[Len(log)].new = f
        BY <1>7, <3>2
    <3>5. /\ \A n \in 1..(Len(longer) - 1) : longer[n].new = longer[n + 1].old
          /\ Len(longer) > 0 => longer[Len(longer)].new = t
        BY <3>3, <3>4, LogGrows
    <3>6. status'[q.item] = t
        BY <1>5, <3>2
    <3>7. QED
        BY <3>2, <3>5, <3>6
  <2>3. QED
      BY <2>1, <2>2
<1>9. LogReplays'
  <2>1. SUFFICES ASSUME NEW i \in Items
                 PROVE  LET log == activity'[i] IN
                        /\ \A n \in 1..(Len(log) - 1) : log[n].new = log[n + 1].old
                        /\ Len(log) > 0 => log[Len(log)].new = status'[i]
      BY DEF LogReplays
  <2>2. CASE i = q.item
      BY <1>8, <2>2
  <2>3. CASE i # q.item
      BY <1>4, <2>3 DEF OneRequest, LogReplays
  <2>4. QED
      BY <2>2, <2>3
<1>10. QED
    BY <1>3, <1>9

(* A new item has no log yet.                                              *)
LEMMA InsertIsUnlogged ==
    ASSUME TypeOK, OneRequest, NEW c \in Clients, NEW i \in Items, InsertItem(c, i)
    PROVE  /\ \A j \in Items : number'[j] = 0 => activity'[j] = <<>>
           /\ LogReplays'
<1>1. /\ number[i] = 0 /\ activity[i] = <<>> /\ activity' = activity
      /\ \A j \in Items \ {i} : number'[j] = number[j] /\ status'[j] = status[j]
    BY DEF InsertItem, TypeOK, OneRequest
<1>2. \A j \in Items : number'[j] = 0 => activity'[j] = <<>>
    BY <1>1 DEF OneRequest
<1>3. Len(activity[i]) = 0
    BY <1>1
<1>4. LogReplays'
  <2>1. SUFFICES ASSUME NEW j \in Items
                 PROVE  LET log == activity'[j] IN
                        /\ \A n \in 1..(Len(log) - 1) : log[n].new = log[n + 1].old
                        /\ Len(log) > 0 => log[Len(log)].new = status'[j]
      BY DEF LogReplays
  <2>2. CASE j = i
      BY <1>1, <1>3, <2>2
  <2>3. CASE j # i
      BY <1>1, <2>3 DEF OneRequest, LogReplays
  <2>4. QED
      BY <2>2, <2>3
<1>5. QED
    BY <1>2, <1>4

(* The steps of requests that have begun.                                  *)
LEMMA InFlightAlone ==
    ASSUME TypeOK, OneRequest, NEW c \in Clients,
           \/ GenerateItemKey(c) \/ IncrementCounter(c) \/ \E i \in Items : InsertItem(c, i)
           \/ AssertTransitionAllowed(c) \/ WriteUpdate(c) \/ SoftDelete(c)
           \/ UpdateProject(c) \/ SoftDeleteProject(c) \/ Abort(c)
    PROVE  OneRequest'
<1>1. Fits(request[c]) /\ request[c] \in Requests /\ request[c] # Idle
    BY DEF OneRequest, TypeOK, GenerateItemKey, IncrementCounter, InsertItem, WriteUpdate,
           AssertTransitionAllowed, SoftDelete, UpdateProject, SoftDeleteProject, Abort, At, Idle
<1>2. Fits(Idle)'
    BY DEF Fits, Idle
<1>3. ASSUME UNCHANGED <<number, status, activity>>
      PROVE  (\A i \in Items : number'[i] = 0 => activity'[i] = <<>>) /\ LogReplays'
    BY <1>3 DEF OneRequest, LogReplays
<1>4. ASSUME Return(c), \A i \in Items : number'[i] = 0 => activity'[i] = <<>>, LogReplays'
      PROVE  OneRequest'
    BY <1>1, <1>2, <1>4, GoesOnAlone DEF Return
<1>5. CASE GenerateItemKey(c)
  <2>1. UNCHANGED <<number, status, activity, archived, projectDeleted>>
      BY <1>5 DEF GenerateItemKey, itemVars, projectVars
  <2>2. CASE Return(c)
      BY <1>3, <1>4, <2>1, <2>2
  <2>3. CASE ~Return(c)
    <3>1. PICK q : q = Numbering("increment", 0, request[c].to)
        OBVIOUS
    <3>2. GoTo(c, q) /\ ~archived /\ ~projectDeleted
        BY <1>5, <2>3, <3>1 DEF GenerateItemKey
    <3>3. Fits(q)'
        BY <2>1, <3>1, <3>2 DEF Fits, Numbering
    <3>4. QED
        BY <1>1, <1>3, <2>1, <3>2, <3>3, GoesOnAlone
  <2>4. QED
      BY <2>2, <2>3
<1>6. CASE IncrementCounter(c)
  <2>1. UNCHANGED <<number, status, activity, archived, projectDeleted>>
      BY <1>6 DEF IncrementCounter, itemVars, projectVars
  <2>2. PICK q : q = Numbering("insert", lastNumber', request[c].to)
      OBVIOUS
  <2>3. GoTo(c, q) /\ ~archived /\ ~projectDeleted
      BY <1>1, <1>6, <2>2 DEF IncrementCounter, Fits, At
  <2>4. Fits(q)'
      BY <2>1, <2>2, <2>3 DEF Fits, Numbering
  <2>5. QED
      BY <1>1, <1>3, <2>1, <2>3, <2>4, GoesOnAlone
<1>7. ASSUME NEW i \in Items, InsertItem(c, i) PROVE OneRequest'
    BY <1>4, <1>7, InsertIsUnlogged DEF InsertItem
<1>8. CASE AssertTransitionAllowed(c)
  <2>1. UNCHANGED <<number, status, activity, transitions>>
      BY <1>8 DEF AssertTransitionAllowed, itemVars, workflowVars
  <2>2. CASE Return(c)
      BY <1>3, <1>4, <2>1, <2>2
  <2>3. CASE ~Return(c)
    <3>1. PICK q : q = Moving("update", request[c].item, request[c].from, request[c].to)
        OBVIOUS
    <3>2. GoTo(c, q) /\ CanTransition(request[c].from, request[c].to)
        BY <1>8, <2>3, <3>1 DEF AssertTransitionAllowed
    <3>3. number[request[c].item] > 0 /\ status[request[c].item] = request[c].from
        BY <1>1, <1>8 DEF AssertTransitionAllowed, At, Fits
    <3>4. /\ q.step = "update" /\ q.item = request[c].item
          /\ q.from = request[c].from /\ q.to = request[c].to
        BY <3>1 DEF Moving
    <3>5. number'[q.item] > 0 /\ status'[q.item] = q.from /\ CanTransition(q.from, q.to)'
        BY <2>1, <3>2, <3>3, <3>4 DEF CanTransition
    <3>6. Fits(q)'
        BY <3>4, <3>5 DEF Fits
    <3>7. QED
        BY <1>1, <1>3, <2>1, <3>2, <3>6, GoesOnAlone
  <2>4. QED
      BY <2>2, <2>3
<1>9. CASE WriteUpdate(c)
    BY <1>4, <1>9, UpdateIsLogged DEF WriteUpdate
<1>10. CASE SoftDelete(c) \/ UpdateProject(c) \/ SoftDeleteProject(c) \/ Abort(c)
    BY <1>3, <1>4, <1>10 DEF SoftDelete, UpdateProject, SoftDeleteProject, Abort, itemVars
<1>11. QED
    BY <1>5, <1>6, <1>7, <1>8, <1>9, <1>10

(* Nor does a request that begins, with nothing else under way.            *)
LEMMA StartsAlone ==
    ASSUME TypeOK, OneRequest, NEW c \in Clients,
           \A d, e \in Clients : d # e => request'[d] = Idle \/ request'[e] = Idle,
           \/ \E s \in StatusIds : CreateWorkItem(c, s)
           \/ \E i \in Items, s \in StatusIds : UpdateWorkItem(c, i, s)
           \/ \E i \in Items : DeleteWorkItem(c, i)
           \/ ArchiveProject(c) \/ RestoreProject(c) \/ DeleteProject(c)
    PROVE  OneRequest'
<1>1. PICK q : Begin(c, q) /\ Fits(q)
  <2>1. ASSUME NEW s \in StatusIds, CreateWorkItem(c, s) PROVE \E q : Begin(c, q) /\ Fits(q)
    <3>1. Begin(c, Numbering("checkArchived", 0, s)) /\ Fits(Numbering("checkArchived", 0, s))
        BY <2>1 DEF CreateWorkItem, Fits, Numbering
    <3>2. QED
        BY <3>1
  <2>2. ASSUME NEW i \in Items, NEW s \in StatusIds, UpdateWorkItem(c, i, s)
        PROVE  \E q : Begin(c, q) /\ Fits(q)
    <3>1. PICK q : q = Moving(IF s = status[i] THEN "update" ELSE "checkTransition",
                              i, status[i], s)
        OBVIOUS
    <3>2. /\ q.step = IF s = status[i] THEN "update" ELSE "checkTransition"
          /\ q.item = i /\ q.from = status[i] /\ q.to = s
        BY <3>1 DEF Moving
    <3>3. Begin(c, q) /\ number[i] > 0
        BY <2>2, <3>1 DEF UpdateWorkItem, Exists
    <3>4. Fits(q)
        BY <3>2, <3>3 DEF Fits
    <3>5. QED
        BY <3>3, <3>4
  <2>3. ASSUME NEW i \in Items, DeleteWorkItem(c, i) PROVE \E q : Begin(c, q) /\ Fits(q)
    <3>1. Begin(c, Deleting(i)) /\ Fits(Deleting(i))
        BY <2>3 DEF DeleteWorkItem, Fits, Deleting
    <3>2. QED
        BY <3>1
  <2>4. CASE ArchiveProject(c) \/ RestoreProject(c) \/ DeleteProject(c)
    <3>1. PICK p \in {"archive", "restore", "deleteProject"} : Begin(c, OnProject(p))
        BY <2>4 DEF ArchiveProject, RestoreProject, DeleteProject
    <3>2. Fits(OnProject(p))
        BY DEF Fits, OnProject
    <3>3. QED
        BY <3>1, <3>2
  <2>5. QED
      BY <2>1, <2>2, <2>3, <2>4
<1>2. QED
    BY <1>1, BeginsAlone

(* Every step that overlaps no other keeps the log in order.               *)
LEMMA SequentialStep ==
    ASSUME TypeOK, Sequential, [MCNext]_<<vars, overlapped>>
    PROVE  Sequential'
<1>1. SUFFICES ASSUME ~overlapped' PROVE OneRequest'
    BY DEF Sequential
<1>2. ASSUME UNCHANGED vars, ~overlapped PROVE OneRequest'
  <2>1. /\ UNCHANGED <<archived, projectDeleted, transitions, number, status, activity, request>>
        /\ OneRequest
      BY <1>2 DEF vars, projectVars, workflowVars, itemVars, Sequential
  <2>2. \A q : Fits(q) => Fits(q)'
      BY <2>1 DEF Fits, CanTransition
  <2>3. LogReplays'
      BY <2>1 DEF OneRequest, LogReplays
  <2>4. \A d \in Clients : Fits(request[d])'
    <3>1. SUFFICES ASSUME NEW d \in Clients PROVE Fits(request[d])'
        OBVIOUS
    <3>2. Fits(request[d])
        BY <2>1 DEF OneRequest
    <3>3. QED
        BY <2>1, <3>2 DEF Fits, CanTransition
  <2>5. QED
      BY <2>1, <2>3, <2>4 DEF OneRequest
<1>3. CASE UNCHANGED <<vars, overlapped>>
    BY <1>1, <1>2, <1>3
<1>4. CASE MCNext
  <2>1. ~overlapped /\ ~Overlap /\ [Next]_vars /\ OneRequest
      BY <1>1, <1>4 DEF MCNext, Sequential
  <2>2. \A d, e \in Clients : d # e => request'[d] = Idle \/ request'[e] = Idle
      BY <2>1 DEF Overlap
  <2>3. ASSUME NEW c \in Clients, EditWorkflow(c) PROVE OneRequest'
    <3>1. /\ \A d \in Clients : request[d] = Idle
          /\ UNCHANGED <<number, status, activity, request>>
        BY <2>1, <2>3 DEF EditWorkflow, Overlap, workflowVars, itemVars
    <3>2. \A d \in Clients : Fits(request[d])'
        BY <3>1 DEF Fits, Idle
    <3>3. LogReplays'
        BY <2>1, <3>1 DEF OneRequest, LogReplays
    <3>4. QED
        BY <2>1, <3>1, <3>2, <3>3 DEF OneRequest
  <2>4. QED
      BY <1>2, <2>1, <2>2, <2>3, NextCases, InFlightAlone, StartsAlone
<1>5. QED
    BY <1>3, <1>4

(* The steps of the instance with its history are steps of WorkItems.      *)
LEMMA Underlying == MCSpec => Spec
<1>1. MCInit => Init
    BY DEF MCInit
<1>2. [MCNext]_<<vars, overlapped>> => [Next]_vars
    BY DEF MCNext
<1>3. QED
    BY <1>1, <1>2, PTL DEF MCSpec, Spec

(* Requests that never overlap keep the log in order.                      *)
LEMMA SequentialInv == MCSpec => [](TypeOK /\ Sequential)
<1>1. MCInit => Sequential
  <2>0. SUFFICES ASSUME MCInit PROVE OneRequest
      BY DEF Sequential
  <2>1. request = [c \in Clients |-> Idle] /\ activity = [i \in Items |-> <<>>]
      BY <2>0, Zenon DEF MCInit, Init
  <2>2. /\ \A c \in Clients : request[c] = Idle
        /\ \A i \in Items : activity[i] = <<>>
      BY <2>1
  <2>3. Fits(Idle)
      BY DEF Fits, Idle
  <2>4. LogReplays
      BY <2>2 DEF LogReplays
  <2>5. QED
      BY <2>2, <2>3, <2>4 DEF OneRequest
<1>2. TypeOK /\ Sequential /\ [MCNext]_<<vars, overlapped>> => Sequential'
    BY SequentialStep
<1>3. QED
    BY <1>1, <1>2, Underlying, TypeCorrect, PTL DEF MCSpec

(* As long as requests come one after the other, whatever is cut off in    *)
(* between, the entries of an item follow on from each other and end with  *)
(* its status: diffing the row that was read and writing item and entries  *)
(* in one transaction is enough.                                           *)
THEOREM LogsReplay == MCSpec => []SequentialLog
<1>1. Sequential => SequentialLog
    BY DEF Sequential, OneRequest, SequentialLog
<1>2. QED
    BY <1>1, SequentialInv, PTL

(* What is created, and where a status goes, in one step.                  *)
LEMMA RequestsObeyed ==
    ASSUME TypeOK, Sequential, [MCNext]_<<vars, overlapped>>, ~overlapped', NEW i \in Items
    PROVE  /\ number'[i] # number[i] => ~archived /\ ~projectDeleted
           /\ number[i] > 0 /\ status'[i] # status[i] => CanTransition(status[i], status'[i])
<1>1. CASE UNCHANGED itemVars
    BY <1>1 DEF itemVars
<1>2. OneRequest /\ [Next]_vars
    BY DEF MCNext, Sequential
<1>3. ASSUME NEW c \in Clients, NEW j \in Items, InsertItem(c, j)
      PROVE  /\ number'[i] # number[i] => ~archived /\ ~projectDeleted
             /\ number[i] > 0 /\ status'[i] # status[i] => CanTransition(status[i], status'[i])
  <2>1. ~archived /\ ~projectDeleted
      BY <1>2, <1>3 DEF OneRequest, Fits, InsertItem, At
  <2>2. number[j] = 0 /\ (i # j => status'[i] = status[i])
      BY <1>3 DEF InsertItem, TypeOK
  <2>3. QED
      BY <2>1, <2>2
<1>4. ASSUME NEW c \in Clients, WriteUpdate(c)
      PROVE  /\ number'[i] = number[i]
             /\ number[i] > 0 /\ status'[i] # status[i] => CanTransition(status[i], status'[i])
  <2>1. Fits(request[c]) /\ request[c].step = "update" /\ number' = number
        /\ status' = [status EXCEPT ![request[c].item] = request[c].to]
      BY <1>2, <1>4 DEF OneRequest, WriteUpdate, At
  <2>2. /\ request[c].item # i => status'[i] = status[i]
        /\ request[c].item = i => status'[i] = request[c].to
      BY <2>1 DEF TypeOK
  <2>3. status[request[c].item] = request[c].from
      BY <2>1 DEF Fits
  <2>4. request[c].from # request[c].to => CanTransition(request[c].from, request[c].to)
      BY <2>1 DEF Fits
  <2>5. QED
      BY <2>1, <2>2, <2>3, <2>4
<1>5. ASSUME NEW c \in Clients, SoftDelete(c) PROVE UNCHANGED <<number, status>>
    BY <1>5 DEF SoftDelete
<1>6. QED
    BY <1>1, <1>2, <1>3, <1>4, <1>5, NextCases
    DEF CreateWorkItem, DeleteWorkItem, UpdateWorkItem, GenerateItemKey, AssertTransitionAllowed,
        Abort, IncrementCounter, ArchiveProject, RestoreProject, DeleteProject, UpdateProject,
        SoftDeleteProject, EditWorkflow, Begin, vars

(* As long as requests come one after the other, nothing is created in an  *)
(* archived or deleted project and statuses follow the transitions: the    *)
(* checks of one request hold until it writes.                             *)
THEOREM RequestsObeyTheProject == MCSpec => SequentialRequests
<1>1. TypeOK /\ Sequential /\ [MCNext]_<<vars, overlapped>> =>
      [~overlapped' => \A i \in Items :
          /\ number'[i] # number[i] => ~archived /\ ~projectDeleted
          /\ number[i] > 0 /\ status'[i] # status[i] => CanTransition(status[i], status'[i])
      ]_<<vars, overlapped>>
    BY RequestsObeyed
<1>2. QED
    BY <1>1, SequentialInv, PTL DEF MCSpec, SequentialRequests
=============================================================================
