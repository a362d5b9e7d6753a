--------------------------- MODULE Sprints_proofs ---------------------------
(***************************************************************************)
(* Proofs about Sprints for every number of sprints, items and clients.    *)
(***************************************************************************)
EXTENDS MCSprints, FiniteSetTheorems, TLAPS

(* Every step is of one of the actions, or changes nothing.                *)
LEMMA NextCases ==
    ASSUME [Next]_vars
    PROVE  \/ \E i \in Items : MoveOnBoard(i)
           \/ \E i \in Items, s \in Sprints \cup {Backlog} : AssignItem(i, s)
           \/ \E s \in Sprints : CreateSprint(s)
           \/ \E c \in Clients, s \in Sprints : StartSprint(c, s) \/ DeleteSprint(c, s)
           \/ \E c \in Clients, s \in Sprints, t \in Sprints \cup {Backlog} :
                 CompleteSprint(c, s, t)
           \/ \E c \in Clients : FindActive(c) \/ Activate(c) \/ Remove(c)
           \/ \E c \in Clients : ReadDone(c) \/ MoveItems(c) \/ Finish(c) \/ Abort(c)
           \/ UNCHANGED vars
BY DEF Next, Board, Planning

-----------------------------------------------------------------------------
(* No step forgets a sprint: what is created stays known.                  *)
LEMMA KnownGrows ==
    ASSUME TypeOK, [Next]_vars
    PROVE  Known \subseteq Known'
<1> USE DEF TypeOK, Known, Statuses, SetStatus, Exists
<1>1. CASE \E i \in Items : MoveOnBoard(i)
      BY <1>1 DEF MoveOnBoard
<1>2. CASE \E i \in Items, s \in Sprints \cup {Backlog} : AssignItem(i, s)
      BY <1>2 DEF AssignItem
<1>3. CASE \E s \in Sprints : CreateSprint(s)
      BY <1>3 DEF CreateSprint
<1>4. CASE \E c \in Clients, s \in Sprints : StartSprint(c, s) \/ DeleteSprint(c, s)
      BY <1>4 DEF StartSprint, DeleteSprint, Begin
<1>5. CASE \E c \in Clients, s \in Sprints, t \in Sprints \cup {Backlog} :
               CompleteSprint(c, s, t)
      BY <1>5 DEF CompleteSprint, Begin
<1>6. CASE \E c \in Clients : FindActive(c) \/ Activate(c) \/ Remove(c)
      BY <1>6 DEF FindActive, Activate, Remove
<1>7. CASE \E c \in Clients : ReadDone(c) \/ MoveItems(c) \/ Finish(c) \/ Abort(c)
      BY <1>7 DEF ReadDone, MoveItems, Finish, Abort
<1>8. CASE UNCHANGED vars
      BY <1>8 DEF vars
<1>9. QED
      BY <1>1, <1>2, <1>3, <1>4, <1>5, <1>6, <1>7, <1>8, NextCases

(* A step leaves every request well-formed.                                *)
LEMMA RequestsOK ==
    ASSUME TypeOK, [Next]_vars
    PROVE  (request \in [Clients -> Requests])'
<1>1. Known \subseteq Known'
      BY KnownGrows
<1>2. Requests \subseteq Requests'
      BY <1>1 DEF Requests, Steps, Idle
<1>3. request \in [Clients -> Requests]
      BY DEF TypeOK
<1>4. ASSUME UNCHANGED request
      PROVE  request' \in [Clients -> Requests']
      BY <1>2, <1>3, <1>4
<1>5. ASSUME NEW c \in Clients, Return(c)
      PROVE  request' \in [Clients -> Requests']
      BY <1>2, <1>3, <1>5 DEF Return, Requests
<1>6. ASSUME NEW c \in Clients, NEW step \in Steps, NEW s \in Known,
             NEW t \in Known \cup {Backlog}, Begin(c, step, s, t)
      PROVE  request' \in [Clients -> Requests']
  <2>1. Request(step, s, t) \in Requests
        BY DEF Request, Requests
  <2>2. QED
        BY <1>2, <1>3, <1>6, <2>1 DEF Begin
<1>7. ASSUME NEW c \in Clients, NEW step \in Steps, request[c].step \in Steps, GoTo(c, step)
      PROVE  request' \in [Clients -> Requests']
  <2>1. Request(step, request[c].sprint, request[c].target) \in Requests
        BY <1>3, <1>7 DEF Request, Requests, Idle, Steps
  <2>2. QED
        BY <1>2, <1>3, <1>7, <2>1 DEF GoTo
<1>8. CASE UNCHANGED request
      BY <1>4, <1>8
<1>9. ASSUME NEW c \in Clients, NEW s \in Sprints, StartSprint(c, s) \/ DeleteSprint(c, s)
      PROVE  request' \in [Clients -> Requests']
      BY <1>6, <1>9 DEF StartSprint, DeleteSprint, Known, Steps
<1>10. ASSUME NEW c \in Clients, NEW s \in Sprints, NEW t \in Sprints \cup {Backlog},
              CompleteSprint(c, s, t)
       PROVE  request' \in [Clients -> Requests']
       BY <1>6, <1>10 DEF CompleteSprint, Known, Exists, Steps
<1>11. ASSUME NEW c \in Clients, FindActive(c)
       PROVE  request' \in [Clients -> Requests']
       BY <1>5, <1>7, <1>11 DEF FindActive, At, Steps
<1>12. ASSUME NEW c \in Clients, Activate(c) \/ Remove(c) \/ Finish(c) \/ Abort(c)
       PROVE  request' \in [Clients -> Requests']
       BY <1>5, <1>12 DEF Activate, Remove, Finish, Abort
<1>13. ASSUME NEW c \in Clients, ReadDone(c)
       PROVE  request' \in [Clients -> Requests']
       BY <1>7, <1>13 DEF ReadDone, At, Steps
<1>14. ASSUME NEW c \in Clients, MoveItems(c)
       PROVE  request' \in [Clients -> Requests']
       BY <1>7, <1>14 DEF MoveItems, At, Steps
<1>15. QED
       BY <1>8, <1>9, <1>10, <1>11, <1>12, <1>13, <1>14, NextCases
       DEF MoveOnBoard, AssignItem, CreateSprint, vars

(* The type invariant survives every step.                                 *)
LEMMA TypeStep ==
    ASSUME TypeOK, [Next]_vars
    PROVE  TypeOK'
<1>1. Known \subseteq Known'
      BY KnownGrows
<1>2. request' \in [Clients -> Requests']
      BY RequestsOK
<1> USE <1>1, <1>2 DEF TypeOK, Statuses, SetStatus
<1>3. CASE \E i \in Items : MoveOnBoard(i)
      BY <1>3 DEF MoveOnBoard
<1>4. CASE \E i \in Items, s \in Sprints \cup {Backlog} : AssignItem(i, s)
      BY <1>4 DEF AssignItem, Known
<1>5. CASE \E s \in Sprints : CreateSprint(s)
      BY <1>5 DEF CreateSprint
<1>6. CASE \E c \in Clients, s \in Sprints : StartSprint(c, s) \/ DeleteSprint(c, s)
      BY <1>6 DEF StartSprint, DeleteSprint, Begin
<1>7. CASE \E c \in Clients, s \in Sprints, t \in Sprints \cup {Backlog} :
               CompleteSprint(c, s, t)
      BY <1>7 DEF CompleteSprint, Begin
<1>8. CASE \E c \in Clients : FindActive(c) \/ Activate(c) \/ Remove(c)
      BY <1>8 DEF FindActive, Activate, Remove
<1>9. ASSUME NEW c \in Clients, MoveItems(c)
      PROVE  TypeOK'
  <2>1. request[c].target \in Known \cup {Backlog}
        BY <1>9 DEF MoveItems, At, Requests, Idle
  <2>2. \A i \in Items : iteration'[i] \in Known \cup {Backlog}
        BY <1>9, <2>1 DEF MoveItems
  <2>3. iteration' \in [Items -> Sprints \cup {Backlog}]
        BY <1>9, <2>1 DEF MoveItems, Known
  <2>4. QED
        BY <1>9, <2>2, <2>3 DEF MoveItems
<1>10. CASE \E c \in Clients : ReadDone(c) \/ Finish(c) \/ Abort(c)
       BY <1>10 DEF ReadDone, Finish, Abort
<1>11. CASE UNCHANGED vars
       BY <1>11 DEF vars
<1>12. QED
       BY <1>3, <1>4, <1>5, <1>6, <1>7, <1>8, <1>9, <1>10, <1>11, NextCases

(* Type correctness of sprints, items and requests in flight.              *)
THEOREM TypeCorrect == Spec => []TypeOK
<1>1. Init => TypeOK
      BY DEF Init, TypeOK, Statuses, Requests, Known
<1>2. TypeOK /\ [Next]_vars => TypeOK'
      BY TypeStep
<1>3. QED
      BY <1>1, <1>2, PTL DEF Spec

-----------------------------------------------------------------------------
(* ActiveOrActivating does not grow when nothing enters the active or the  *)
(* activating.                                                             *)
LEMMA NoneEnters ==
    ASSUME ActiveOrActivating, Active' \subseteq Active, Activating' \subseteq Activating
    PROVE  ActiveOrActivating'
<1>1. IsFiniteSet(Activating)
      BY ClientsAssumption, FS_Subset DEF Activating
<1>2. /\ IsFiniteSet(Active')
      /\ Cardinality(Active') <= Cardinality(Active)
      BY FS_Subset DEF ActiveOrActivating
<1>3. Cardinality(Activating') <= Cardinality(Activating)
      BY <1>1, FS_Subset
<1>4. /\ Cardinality(Active) \in Nat /\ Cardinality(Activating) \in Nat
      /\ Cardinality(Active') \in Nat /\ Cardinality(Activating') \in Nat
      /\ Cardinality(Clients) \in Nat
  <2>1. IsFiniteSet(Activating')
        BY <1>1, FS_Subset
  <2>2. QED
        BY <1>1, <1>2, <2>1, ClientsAssumption, FS_CardinalityType DEF ActiveOrActivating
<1>5. QED
      BY <1>2, <1>3, <1>4 DEF ActiveOrActivating

(* Passing the check needs that no sprint is active, and there are no more *)
(* activating clients than clients.                                        *)
LEMMA CheckPassed ==
    ASSUME Active' = {}
    PROVE  ActiveOrActivating'
<1>1. IsFiniteSet(Active') /\ Cardinality(Active') = 0
      BY FS_EmptySet
<1>2. Cardinality(Activating') <= Cardinality(Clients)
      BY ClientsAssumption, FS_Subset DEF Activating
<1>3. Cardinality(Activating') \in Nat
      BY ClientsAssumption, FS_Subset, FS_CardinalityType DEF Activating
<1>4. QED
      BY <1>1, <1>2, <1>3 DEF ActiveOrActivating

(* A client that makes its sprint active is no longer activating.          *)
LEMMA OneActivates ==
    ASSUME TypeOK, ActiveOrActivating, NEW c \in Clients, Activate(c)
    PROVE  ActiveOrActivating'
<1> DEFINE s == request[c].sprint
<1>1. c \in Activating
      BY DEF Activate, At, Activating
<1>2. Activating' \subseteq Activating \ {c}
      BY DEF Activate, Return, Activating, TypeOK, Idle
<1>3. Active' \subseteq Active \cup {s}
      BY DEF Activate, SetStatus, Active, TypeOK
<1>4. IsFiniteSet(Active) /\ IsFiniteSet(Activating)
      BY ClientsAssumption, FS_Subset DEF Activating, ActiveOrActivating
<1>5. /\ IsFiniteSet(Active \cup {s})
      /\ Cardinality(Active \cup {s}) <= Cardinality(Active) + 1
  <2>1. Cardinality(Active) \in Nat
        BY <1>4, FS_CardinalityType
  <2>2. /\ IsFiniteSet(Active \cup {s})
        /\ Cardinality(Active \cup {s}) =
              IF s \in Active THEN Cardinality(Active) ELSE Cardinality(Active) + 1
        BY <1>4, FS_AddElement, Zenon
  <2>3. QED
        BY <2>1, <2>2
<1>6. /\ IsFiniteSet(Active')
      /\ Cardinality(Active') <= Cardinality(Active \cup {s})
      BY <1>3, <1>5, FS_Subset
<1>7. /\ IsFiniteSet(Activating \ {c})
      /\ Cardinality(Activating \ {c}) = Cardinality(Activating) - 1
      BY <1>1, <1>4, FS_RemoveElement
<1>8. /\ IsFiniteSet(Activating')
      /\ Cardinality(Activating') <= Cardinality(Activating \ {c})
      BY <1>2, <1>7, FS_Subset
<1>9. /\ Cardinality(Active) \in Nat /\ Cardinality(Activating) \in Nat
      /\ Cardinality(Active') \in Nat /\ Cardinality(Activating') \in Nat
      /\ Cardinality(Active \cup {s}) \in Nat /\ Cardinality(Clients) \in Nat
      BY <1>4, <1>5, <1>6, <1>8, ClientsAssumption, FS_CardinalityType
<1>10. QED
       BY <1>5, <1>6, <1>7, <1>8, <1>9 DEF ActiveOrActivating

(* Every other step adds neither an active sprint nor an activating client.*)
LEMMA CountStep ==
    ASSUME TypeOK, ActiveOrActivating, [Next]_vars
    PROVE  ActiveOrActivating'
<1> USE DEF TypeOK, Active, Activating
<1>1. ASSUME UNCHANGED <<status, request>>
      PROVE  ActiveOrActivating'
      BY <1>1, NoneEnters
<1>2. ASSUME NEW c \in Clients, NEW step \in Steps \ {"activate"}, NEW s, NEW t,
             Begin(c, step, s, t)
      PROVE  ActiveOrActivating'
      BY <1>2, NoneEnters DEF Begin, Request
<1>3. CASE \E s \in Sprints : CreateSprint(s)
      BY <1>3, NoneEnters DEF CreateSprint
<1>4. ASSUME NEW c \in Clients, NEW s \in Sprints, StartSprint(c, s) \/ DeleteSprint(c, s)
      PROVE  ActiveOrActivating'
      BY <1>2, <1>4 DEF StartSprint, DeleteSprint, Steps
<1>5. ASSUME NEW c \in Clients, NEW s \in Sprints, NEW t \in Sprints \cup {Backlog},
             CompleteSprint(c, s, t)
      PROVE  ActiveOrActivating'
      BY <1>2, <1>5 DEF CompleteSprint, Steps
<1>6. ASSUME NEW c \in Clients, FindActive(c)
      PROVE  ActiveOrActivating'
  <2>1. CASE Active = {}
        BY <1>6, <2>1, CheckPassed DEF FindActive
  <2>2. CASE Active # {}
        BY <1>6, <2>2, NoneEnters DEF FindActive, Return, Idle
  <2>3. QED
        BY <2>1, <2>2
<1>7. ASSUME NEW c \in Clients, Remove(c) \/ Finish(c) \/ Abort(c)
      PROVE  ActiveOrActivating'
      BY <1>7, NoneEnters DEF Remove, Finish, Abort, SetStatus, Return, Idle
<1>8. ASSUME NEW c \in Clients, ReadDone(c) \/ MoveItems(c)
      PROVE  ActiveOrActivating'
      BY <1>8, NoneEnters DEF ReadDone, MoveItems, GoTo, Request
<1>9. QED
      BY <1>1, <1>3, <1>4, <1>5, <1>6, <1>7, <1>8, OneActivates, NextCases
      DEF MoveOnBoard, AssignItem, vars

(* The counting argument, as an invariant.                                 *)
THEOREM ActiveCounted == Spec => []ActiveOrActivating
<1>1. Init => ActiveOrActivating
  <2>1. Init => Active = {} /\ Activating = {}
        BY DEF Init, Active, Activating, Idle
  <2>2. Cardinality(Clients) \in Nat
        BY ClientsAssumption, FS_CardinalityType
  <2>3. QED
        BY <2>1, <2>2, FS_EmptySet DEF ActiveOrActivating
<1>2. TypeOK /\ ActiveOrActivating /\ [Next]_vars => ActiveOrActivating'
      BY CountStep
<1>3. QED
      BY <1>1, <1>2, TypeCorrect, PTL DEF Spec

(* At most as many active sprints as clients: with one client at a time,   *)
(* at most one.                                                            *)
THEOREM ActiveIsBounded == Spec => []ActiveBounded
<1>1. ActiveOrActivating => ActiveBounded
  <2> SUFFICES ASSUME ActiveOrActivating
               PROVE  ActiveBounded
      OBVIOUS
  <2>1. IsFiniteSet(Activating)
        BY ClientsAssumption, FS_Subset DEF Activating
  <2>2. /\ Cardinality(Active) \in Nat /\ Cardinality(Activating) \in Nat
        /\ Cardinality(Clients) \in Nat
        BY <2>1, ClientsAssumption, FS_CardinalityType DEF ActiveOrActivating
  <2>3. QED
        BY <2>2 DEF ActiveOrActivating, ActiveBounded
<1>2. QED
      BY <1>1, ActiveCounted, PTL

-----------------------------------------------------------------------------
(* Where strays may lead: the sprint of a request that completes was       *)
(* active when the request began, and 'planned' is never written again.    *)
Completing == {"readDone", "moveItems", "finish"}
CompletingWasActive ==
    \A c \in Clients : request[c].step \in Completing =>
        status[request[c].sprint] \in {"active", "completed", "deleted"}

(* A write by id to a sprint that exists, and is not planned when the new  *)
(* status is 'completed', takes one of these steps.                        *)
ForwardSteps == Flow \cup Strays

Forward == \A s \in Sprints : status'[s] # status[s] => <<status[s], status'[s]>> \in ForwardSteps

(* A request past its first step names a sprint that was created.          *)
LEMMA RequestKnown ==
    ASSUME TypeOK, NEW c \in Clients, request[c].step \in Steps
    PROVE  request[c].sprint \in Known
BY DEF TypeOK, Requests, Idle, Steps

(* Every step takes the statuses forward.                                  *)
LEMMA ForwardStep ==
    ASSUME TypeOK, CompletingWasActive, [Next]_vars
    PROVE  Forward
<1> USE DEF Forward
<1>1. ASSUME UNCHANGED status
      PROVE  Forward
      BY <1>1
<1>2. CASE \E s \in Sprints : CreateSprint(s)
      BY <1>2 DEF CreateSprint, TypeOK, ForwardSteps, Flow, Strays
<1>3. ASSUME NEW c \in Clients, Activate(c)
      PROVE  Forward
  <2>1. status[request[c].sprint] \in Statuses \ {"absent"}
        BY <1>3, RequestKnown DEF Activate, At, Steps, Known, TypeOK
  <2>2. QED
        BY <1>3, <2>1 DEF Activate, SetStatus, Exists, TypeOK, Statuses, ForwardSteps, Flow, Strays
<1>4. ASSUME NEW c \in Clients, Remove(c)
      PROVE  Forward
  <2>1. status[request[c].sprint] \in Statuses \ {"absent"}
        BY <1>4, RequestKnown DEF Remove, At, Steps, Known, TypeOK
  <2>2. QED
        BY <1>4, <2>1 DEF Remove, SetStatus, Exists, TypeOK, Statuses, ForwardSteps, Flow, Strays
<1>5. ASSUME NEW c \in Clients, Finish(c)
      PROVE  Forward
  <2>1. status[request[c].sprint] \in {"active", "completed", "deleted"}
        BY <1>5 DEF Finish, At, CompletingWasActive, Completing
  <2>2. QED
        BY <1>5, <2>1 DEF Finish, SetStatus, Exists, TypeOK, ForwardSteps, Flow, Strays
<1>6. QED
      BY <1>1, <1>2, <1>3, <1>4, <1>5, NextCases
      DEF MoveOnBoard, AssignItem, StartSprint, DeleteSprint, CompleteSprint, Begin,
          FindActive, ReadDone, MoveItems, Abort, vars

(* Going forward, a sprint that was active is active, completed or deleted.*)
LEMMA ForwardKeeps ==
    ASSUME TypeOK, Forward, NEW s \in Sprints,
           status[s] \in {"active", "completed", "deleted"}
    PROVE  status'[s] \in {"active", "completed", "deleted"}
BY DEF Forward, ForwardSteps, Flow, Strays

(* A request that goes on completing names the same sprint; one that       *)
(* begins to complete has just seen it active.                             *)
LEMMA CompletingStep ==
    ASSUME TypeOK, CompletingWasActive, [Next]_vars
    PROVE  CompletingWasActive'
<1> SUFFICES ASSUME NEW d \in Clients, request'[d].step \in Completing
             PROVE  status'[request'[d].sprint] \in {"active", "completed", "deleted"}
    BY DEF CompletingWasActive
<1> DEFINE Same == request[d].step \in Completing /\ request'[d].sprint = request[d].sprint
<1>1. ASSUME Same
      PROVE  status'[request'[d].sprint] \in {"active", "completed", "deleted"}
  <2>1. request[d].sprint \in Sprints
        BY <1>1, RequestKnown DEF Completing, Steps, Known
  <2>2. status[request[d].sprint] \in {"active", "completed", "deleted"}
        BY <1>1 DEF CompletingWasActive
  <2>3. QED
        BY <1>1, <2>1, <2>2, ForwardStep, ForwardKeeps
<1>2. ASSUME NEW c \in Clients, NEW s \in Sprints, NEW t \in Sprints \cup {Backlog},
             CompleteSprint(c, s, t)
      PROVE  status'[request'[d].sprint] \in {"active", "completed", "deleted"}
  <2>1. CASE d = c
        BY <1>2, <2>1 DEF CompleteSprint, Begin, Request, TypeOK
  <2>2. CASE d # c
        BY <1>1, <1>2, <2>2 DEF CompleteSprint, Begin, TypeOK
  <2>3. QED
        BY <2>1, <2>2
<1>3. ASSUME NEW c \in Clients, NEW s \in Sprints, StartSprint(c, s) \/ DeleteSprint(c, s)
      PROVE  Same
      BY <1>3 DEF StartSprint, DeleteSprint, Begin, Request, TypeOK, Completing
<1>4. ASSUME NEW c \in Clients, Return(c)
      PROVE  Same
      BY <1>4 DEF Return, Idle, TypeOK, Completing
<1>5. ASSUME NEW c \in Clients, FindActive(c)
      PROVE  Same
  <2>1. CASE Return(c)
        BY <1>4, <2>1
  <2>2. CASE GoTo(c, "activate")
        BY <2>2 DEF GoTo, Request, TypeOK, Completing
  <2>3. QED
        BY <1>5, <2>1, <2>2 DEF FindActive
<1>6. ASSUME NEW c \in Clients, ReadDone(c) \/ MoveItems(c)
      PROVE  Same
      BY <1>6 DEF ReadDone, MoveItems, At, GoTo, Request, TypeOK, Completing
<1>7. ASSUME UNCHANGED request
      PROVE  Same
      BY <1>7
<1>8. ASSUME NEW c \in Clients, Activate(c) \/ Remove(c) \/ Finish(c) \/ Abort(c)
      PROVE  Same
      BY <1>4, <1>8 DEF Activate, Remove, Finish, Abort
<1> HIDE DEF Same
<1>9. CASE \E i \in Items : MoveOnBoard(i)
      BY <1>1, <1>7, <1>9 DEF MoveOnBoard
<1>10. CASE \E i \in Items, s \in Sprints \cup {Backlog} : AssignItem(i, s)
      BY <1>1, <1>7, <1>10 DEF AssignItem
<1>11. CASE \E s \in Sprints : CreateSprint(s)
      BY <1>1, <1>7, <1>11 DEF CreateSprint
<1>12. CASE UNCHANGED vars
      BY <1>1, <1>7, <1>12 DEF vars
<1>13. QED
      BY <1>1, <1>2, <1>3, <1>5, <1>6, <1>8, <1>9, <1>10, <1>11, <1>12, NextCases

(* The invariant of the statuses.                                          *)
LEMMA CompletingInv == Spec => [](TypeOK /\ CompletingWasActive)
<1>1. Init => CompletingWasActive
      BY DEF Init, CompletingWasActive, Completing, Idle
<1>2. TypeOK /\ CompletingWasActive /\ [Next]_vars => CompletingWasActive'
      BY CompletingStep
<1>3. QED
      BY <1>1, <1>2, TypeCorrect, PTL DEF Spec

-----------------------------------------------------------------------------
(* What a request has checked is still so while it is not overtaken.       *)
Fits(q) ==
    /\ q.step \in {"findActive", "activate", "remove"} => status[q.sprint] = "planned"
    /\ q.step \in Completing => status[q.sprint] = "active"

ChecksHold == \A c \in Clients \ overtaken : Fits(request[c])

(* A status changes by the flow, or by the write of an overtaken request.  *)
FlowOrStray ==
    \A s \in Sprints : status'[s] # status[s] =>
        \/ <<status[s], status'[s]>> \in Flow
        \/ /\ <<status[s], status'[s]>> \in Strays
           /\ \E c \in overtaken : request[c].sprint = s /\ request'[c] = Idle

(* A write whose check still holds takes a step of the flow, and any other *)
(* one takes the statuses forward.                                         *)
LEMMA WritesStep ==
    ASSUME TypeOK, CompletingWasActive, ChecksHold, [Next]_vars
    PROVE  FlowOrStray
<1>0. Forward /\ status \in [Sprints -> Statuses] /\ request \in [Clients -> Requests]
      BY ForwardStep DEF TypeOK
<1>1. CASE \E s \in Sprints : CreateSprint(s)
      BY <1>0, <1>1 DEF CreateSprint, FlowOrStray, Flow
<1>2. ASSUME NEW c \in Clients, Activate(c) \/ Remove(c) \/ Finish(c)
      PROVE  FlowOrStray
  <2>1. /\ \A s \in Sprints \ {request[c].sprint} : status'[s] = status[s]
        /\ request'[c] = Idle
        BY <1>0, <1>2 DEF Activate, Remove, Finish, SetStatus, Return
  <2>2. CASE c \in overtaken
        BY <1>0, <2>1, <2>2 DEF FlowOrStray, Forward, ForwardSteps
  <2>3. CASE c \notin overtaken
    <3>1. Fits(request[c])
          BY <2>3 DEF ChecksHold
    <3>2. CASE Activate(c)
          BY <1>0, <2>1, <3>1, <3>2 DEF Activate, At, SetStatus, Exists, Fits, FlowOrStray, Flow
    <3>3. CASE Remove(c)
          BY <1>0, <2>1, <3>1, <3>3 DEF Remove, At, SetStatus, Exists, Fits, FlowOrStray, Flow
    <3>4. CASE Finish(c)
          BY <1>0, <2>1, <3>1, <3>4
          DEF Finish, At, SetStatus, Exists, Fits, Completing, FlowOrStray, Flow
    <3>5. QED
          BY <1>2, <3>2, <3>3, <3>4
  <2>4. QED
        BY <2>2, <2>3
<1>3. CASE UNCHANGED status
      BY <1>3 DEF FlowOrStray
<1>4. QED
      BY <1>1, <1>2, <1>3, NextCases
      DEF MoveOnBoard, AssignItem, StartSprint, DeleteSprint, CompleteSprint, Begin,
          FindActive, ReadDone, MoveItems, Abort, vars

(* A request that begins has just seen its sprint; one that goes on without*)
(* being overtaken still has the sprint as it saw it.                      *)
LEMMA ChecksStep ==
    ASSUME TypeOK, ChecksHold, [Next]_vars, Overtake
    PROVE  ChecksHold'
<1> SUFFICES ASSUME NEW d \in Clients, d \notin overtaken' PROVE Fits(request[d])'
    BY DEF ChecksHold
<1>0. request \in [Clients -> Requests] /\ status \in [Sprints -> Statuses]
      BY DEF TypeOK
<1>1. CASE request'[d] = Idle
      BY <1>1 DEF Fits, Idle, Completing
<1>2. CASE request'[d] # Idle /\ request[d] # Idle
  <2>1. Fits(request[d]) /\ status'[request[d].sprint] = status[request[d].sprint]
        BY <1>2 DEF Overtake, ChecksHold
  <2>2. ASSUME request'[d] = request[d]
        PROVE  Fits(request[d])'
        BY <2>1, <2>2 DEF Fits
  <2>3. ASSUME NEW c \in Clients, FindActive(c) \/ ReadDone(c) \/ MoveItems(c)
        PROVE  Fits(request[d])'
    <3>1. CASE d # c
          BY <1>0, <2>2, <2>3, <3>1 DEF FindActive, ReadDone, MoveItems, GoTo, Return
    <3>2. CASE d = c /\ FindActive(c)
          BY <1>0, <1>2, <2>1, <3>2
          DEF FindActive, At, GoTo, Return, Request, Fits, Completing
    <3>3. CASE d = c /\ (ReadDone(c) \/ MoveItems(c))
          BY <1>0, <2>1, <3>3 DEF ReadDone, MoveItems, At, GoTo, Request, Fits, Completing
    <3>4. QED
          BY <2>3, <3>1, <3>2, <3>3
  <2>4. ASSUME NEW c \in Clients, NEW step, NEW s, NEW t, Begin(c, step, s, t)
        PROVE  Fits(request[d])'
        BY <1>0, <1>2, <2>2, <2>4 DEF Begin
  <2>5. ASSUME NEW c \in Clients, Return(c)
        PROVE  Fits(request[d])'
        BY <1>0, <1>2, <2>2, <2>5 DEF Return
  <2>6. ASSUME UNCHANGED request
        PROVE  Fits(request[d])'
        BY <2>2, <2>6
  <2>7. ASSUME NEW c \in Clients, Activate(c) \/ Remove(c) \/ Finish(c) \/ Abort(c)
        PROVE  Fits(request[d])'
        BY <2>5, <2>7 DEF Activate, Remove, Finish, Abort
  <2>8. ASSUME NEW c \in Clients, NEW s \in Sprints, StartSprint(c, s) \/ DeleteSprint(c, s)
        PROVE  Fits(request[d])'
        BY <2>4, <2>8 DEF StartSprint, DeleteSprint
  <2>9. ASSUME NEW c \in Clients, NEW s \in Sprints, NEW t \in Sprints \cup {Backlog},
               CompleteSprint(c, s, t)
        PROVE  Fits(request[d])'
        BY <2>4, <2>9 DEF CompleteSprint
  <2>10. QED
        BY <2>3, <2>6, <2>7, <2>8, <2>9, NextCases
        DEF MoveOnBoard, AssignItem, CreateSprint, vars
<1>3. CASE request'[d] # Idle /\ request[d] = Idle
  <2>1. ASSUME NEW c \in Clients, NEW s \in Sprints, StartSprint(c, s) \/ DeleteSprint(c, s)
        PROVE  Fits(request[d])'
    <3>1. d = c
          BY <1>0, <1>3, <2>1 DEF StartSprint, DeleteSprint, Begin
    <3>2. QED
          BY <1>0, <2>1, <3>1
          DEF StartSprint, DeleteSprint, Begin, Request, Fits, Completing
  <2>2. ASSUME NEW c \in Clients, NEW s \in Sprints, NEW t \in Sprints \cup {Backlog},
               CompleteSprint(c, s, t)
        PROVE  Fits(request[d])'
    <3>1. d = c
          BY <1>0, <1>3, <2>2 DEF CompleteSprint, Begin
    <3>2. QED
          BY <1>0, <2>2, <3>1 DEF CompleteSprint, Begin, Request, Fits, Completing
  <2>3. ASSUME NEW c \in Clients, FindActive(c) \/ Activate(c) \/ Remove(c)
        PROVE  FALSE
        BY <1>0, <1>3, <2>3 DEF FindActive, Activate, Remove, At, GoTo, Return, Idle
  <2>4. ASSUME NEW c \in Clients, ReadDone(c) \/ MoveItems(c) \/ Finish(c) \/ Abort(c)
        PROVE  FALSE
        BY <1>0, <1>3, <2>4 DEF ReadDone, MoveItems, Finish, Abort, At, GoTo, Return, Idle
  <2>5. CASE UNCHANGED request
        BY <1>3, <2>5
  <2>6. QED
        BY <2>1, <2>2, <2>3, <2>4, <2>5, NextCases
        DEF MoveOnBoard, AssignItem, CreateSprint, vars
<1>4. QED
      BY <1>1, <1>2, <1>3

(* "Sprint is not in planned state", "Only planned sprints can be deleted",*)
(* "Only active sprints can be completed": for any number of requests, a   *)
(* status leaves the flow only by the write of a request whose sprint was  *)
(* written since its check, and then forward.                              *)
THEOREM OnlyOvertakenRequestsStray == MCSpec => StraysAreOvertaken
<1>1. MCSpec => Spec
  <2>1. MCInit => Init
        BY DEF MCInit
  <2>2. [MCNext]_<<vars, overtaken>> => [Next]_vars
        BY DEF MCNext
  <2>3. QED
        BY <2>1, <2>2, PTL DEF MCSpec, Spec
<1>2. MCInit => ChecksHold
      BY DEF MCInit, Init, ChecksHold, Fits, Idle, Completing
<1>3. TypeOK /\ ChecksHold /\ [MCNext]_<<vars, overtaken>> => ChecksHold'
  <2>1. SUFFICES ASSUME TypeOK, ChecksHold, [MCNext]_<<vars, overtaken>> PROVE ChecksHold'
        OBVIOUS
  <2>2. CASE MCNext
        BY <2>1, <2>2, ChecksStep DEF MCNext
  <2>3. CASE UNCHANGED <<vars, overtaken>>
        BY <2>1, <2>3 DEF ChecksHold, Fits, vars
  <2>4. QED
        BY <2>1, <2>2, <2>3
<1>4. TypeOK /\ CompletingWasActive /\ ChecksHold /\ [MCNext]_<<vars, overtaken>>
      => [FlowOrStray]_<<vars, overtaken>>
      BY WritesStep DEF MCNext
<1>5. MCSpec => [][FlowOrStray]_<<vars, overtaken>>
      BY <1>1, <1>2, <1>3, <1>4, CompletingInv, PTL DEF MCSpec
<1>6. QED
      BY <1>5 DEF StraysAreOvertaken, FlowOrStray
=============================================================================
