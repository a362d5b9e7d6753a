---------------------- MODULE NotificationStream_proofs ----------------------
(***************************************************************************)
(* Proofs about NotificationStream for every number of tabs, connections   *)
(* and notifications.                                                      *)
(***************************************************************************)
EXTENDS NotificationStream, TLAPS

(* Every step is of one of the actions, or changes nothing.                *)
LEMMA NextCases ==
    ASSUME [Next]_vars
    PROVE  \/ \E n \in Notifications : Insert(n) \/ Push(n) \/ ReceiveMessage(n)
           \/ \E s \in Streams : Connect(s) \/ QueryMissed(s)
           \/ \E s \in Streams : Replay(s) \/ ReceiveAck(s)
           \/ \E s \in Streams : Disconnect(s)
           \/ Execute \/ CommandFails
           \/ UNCHANGED vars
BY DEF Next, Worker, Request, Receive

-----------------------------------------------------------------------------
(* Type correctness.                                                       *)

(* Every stream of a user belongs to one of its tabs.                      *)
LEMMA TabOfStream == ASSUME NEW s \in Streams PROVE TabOf(s) \in Tabs
BY DEF Streams, TabOf

(* What is sent to Valkey and back.                                        *)
LEMMA CommandsAndReplies ==
    ASSUME NEW s \in Streams
    PROVE  /\ Subscribe(s) \in Commands /\ Unsubscribe(s) \in Commands
           /\ Acked(s) \in Replies
BY DEF Subscribe, Unsubscribe, Acked, Commands, Replies

(* What is written to a stream are notifications.                          *)
LEMMA WriteOK ==
    ASSUME TypeOK, NEW s \in Streams, NEW ids \in SUBSET Notifications, Write(s, ids)
    PROVE  /\ cursor' \in [Tabs -> 0..MaxNotifications]
           /\ seen' \in [Tabs -> SUBSET Notifications]
<1>1. CASE s \in open /\ ids # {}
  <2>1. Notifications \subseteq 0..MaxNotifications
        BY BoundsAssumption DEF Notifications
  <2>2. PICK last \in ids : /\ seen' = [seen EXCEPT ![TabOf(s)] = @ \cup ids]
                            /\ cursor' = [cursor EXCEPT ![TabOf(s)] = last]
        BY <1>1 DEF Write
  <2>3. last \in 0..MaxNotifications
        BY <2>1
  <2>4. cursor' \in [Tabs -> 0..MaxNotifications]
        BY <2>2, <2>3 DEF TypeOK
  <2>5. seen' \in [Tabs -> SUBSET Notifications]
        BY <2>2 DEF TypeOK
  <2>6. QED
        BY <2>4, <2>5
<1>2. CASE ~(s \in open /\ ids # {})
      BY <1>2 DEF Write, tabVars, TypeOK
<1>3. QED
      BY <1>1, <1>2

(* A step keeps the types of streams, requests, wires and the store.       *)
LEMMA TypeStep ==
    ASSUME TypeOK, [Next]_vars
    PROVE  TypeOK'
<1> USE DEF TypeOK, PCs, dbVars, pubSubVars, requestVars, tabVars
<1>1. ASSUME NEW n \in Notifications, Insert(n)
      PROVE  TypeOK'
      BY <1>1 DEF Insert
<1>2. ASSUME NEW n \in Notifications, Push(n)
      PROVE  TypeOK'
  <2>1. wire' \in Seq(Replies)
        BY <1>2 DEF Push, Message, Replies
  <2>2. QED
        BY <1>2, <2>1 DEF Push
<1>3. ASSUME NEW n \in Notifications, ReceiveMessage(n)
      PROVE  TypeOK'
  <2>1. n \in 0..MaxNotifications
        BY BoundsAssumption DEF Notifications
  <2>2. /\ cursor' \in [Tabs -> 0..MaxNotifications]
        /\ seen' \in [Tabs -> SUBSET Notifications]
        BY <1>3, <2>1 DEF ReceiveMessage
  <2>3. wire' \in Seq(Replies)
        BY <1>3 DEF ReceiveMessage
  <2>4. QED
        BY <1>3, <2>2, <2>3 DEF ReceiveMessage
<1>4. ASSUME NEW s \in Streams, Connect(s)
      PROVE  TypeOK'
      BY <1>4, TabOfStream DEF Connect
<1>5. ASSUME NEW s \in Streams, QueryMissed(s)
      PROVE  TypeOK'
  <2>1. ListSince(from[s]) \subseteq Notifications
        BY DEF ListSince
  <2>2. QED
        BY <1>5, <2>1 DEF QueryMissed
<1>6. ASSUME NEW s \in Streams, Replay(s)
      PROVE  TypeOK'
  <2>1. /\ cursor' \in [Tabs -> 0..MaxNotifications]
        /\ seen' \in [Tabs -> SUBSET Notifications]
    <3>1. missed[s] \in SUBSET Notifications
          OBVIOUS
    <3>2. QED
          BY <1>6, <3>1, WriteOK DEF Replay
  <2>2. commands' \in Seq(Commands)
    <3>1. Append(commands, Subscribe(s)) \in Seq(Commands)
          BY CommandsAndReplies
    <3>2. QED
          BY <1>6, <3>1, Zenon DEF Replay
  <2>3. entry' \in BOOLEAN /\ handlers' \subseteq Streams /\ (handlers' # {} => entry')
    <3>1. CASE entry
          BY <1>6, <3>1 DEF Replay
    <3>2. CASE ~entry
          BY <1>6, <3>2 DEF Replay
    <3>3. QED
          BY <3>1, <3>2
  <2>4. pc' \in [Streams -> PCs]
        BY <1>6 DEF Replay
  <2>5. QED
        BY <1>6, <2>1, <2>2, <2>3, <2>4, Zenon DEF Replay
<1>7. ASSUME NEW s \in Streams, ReceiveAck(s)
      PROVE  TypeOK'
  <2>1. handlers' \subseteq Streams /\ (handlers' # {} => entry')
        BY <1>7, Zenon DEF ReceiveAck
  <2>2. pc' \in [Streams -> PCs] /\ wire' \in Seq(Replies)
        BY <1>7 DEF ReceiveAck
  <2>3. QED
        BY <1>7, <2>1, <2>2, Zenon DEF ReceiveAck
<1>8. ASSUME NEW s \in Streams, Disconnect(s)
      PROVE  TypeOK'
  <2>1. commands' \in Seq(Commands)
    <3>1. Append(commands, Unsubscribe(s)) \in Seq(Commands)
          BY CommandsAndReplies
    <3>2. QED
          BY <1>8, <3>1, Zenon DEF Disconnect, Leave
  <2>2. entry' \in BOOLEAN /\ handlers' \subseteq Streams /\ (handlers' # {} => entry')
    <3>1. CASE handlers = {s}
      <4>1. handlers \ {s} = {}
            BY <3>1
      <4>2. CASE Leave(s)
        <5>1. handlers' = {} /\ entry' = FALSE
              BY <3>1, <4>1, <4>2 DEF Leave
        <5>2. QED
              BY <5>1, Zenon
      <4>3. CASE UNCHANGED <<entry, handlers>>
            BY <4>3
      <4>4. QED
            BY <1>8, <4>2, <4>3 DEF Disconnect
    <3>2. CASE handlers # {s}
          BY <1>8, <3>2 DEF Disconnect, Leave
    <3>3. QED
          BY <3>1, <3>2
  <2>3. pc' \in [Streams -> PCs] /\ open' \subseteq Streams
        BY <1>8 DEF Disconnect
  <2>4. QED
        BY <1>8, <2>1, <2>2, <2>3, Zenon DEF Disconnect
<1>9. CASE Execute
  <2>1. commands' \in Seq(Commands) /\ Head(commands) \in Commands
        BY <1>9 DEF Execute
  <2>2. Append(wire, Acked(Head(commands).by)) \in Seq(Replies)
        BY <2>1, CommandsAndReplies DEF Commands
  <2>3. wire' \in Seq(Replies) /\ subscribed' \in BOOLEAN
        BY <1>9, <2>2, Zenon DEF Execute
  <2>4. QED
        BY <1>9, <2>1, <2>3, Zenon DEF Execute
<1>10. CASE CommandFails
  <2>1. Head(commands) \in Commands
        BY <1>10 DEF CommandFails
  <2>2. pc' \in [Streams -> PCs]
        BY <1>10, <2>1 DEF CommandFails, Commands
  <2>3. faults' \in 0..MaxFaults
        BY <1>10, BoundsAssumption DEF CommandFails
  <2>4. QED
        BY <1>10, <2>2, <2>3 DEF CommandFails
<1>11. CASE UNCHANGED vars
       BY <1>11 DEF vars
<1>12. QED
       BY <1>1, <1>2, <1>3, <1>4, <1>5, <1>6, <1>7, <1>8, <1>9, <1>10, <1>11, NextCases

(* Type correctness: the process never holds handlers without an entry.    *)
THEOREM TypeCorrect == Spec => []TypeOK
<1>1. Init => TypeOK
  <2> SUFFICES ASSUME Init PROVE TypeOK
      OBVIOUS
  <2>1. 0 \in 0..MaxNotifications /\ 0 \in 0..MaxFaults
        BY BoundsAssumption
  <2>2. commands \in Seq(Commands) /\ wire \in Seq(Replies)
        BY DEF Init
  <2>3. entry \in BOOLEAN /\ subscribed \in BOOLEAN /\ (handlers # {} => entry)
        BY Zenon DEF Init
  <2>4. QED
        BY <2>1, <2>2, <2>3, Zenon DEF Init, TypeOK, PCs
<1>2. TypeOK /\ [Next]_vars => TypeOK'
      BY TypeStep
<1>3. QED
      BY <1>1, <1>2, PTL DEF Spec

-----------------------------------------------------------------------------
(* The subscription.                                                       *)

(* A command that is sent is the last one.                                 *)
LEMMA LastSent ==
    ASSUME TypeOK, NEW command \in Commands, commands' = Append(commands, command)
    PROVE  commands' # <<>> /\ commands'[Len(commands')] = command
<1>1. commands \in Seq(Commands)
      BY DEF TypeOK
<1>2. /\ Len(commands) \in Nat /\ Len(commands') = Len(commands) + 1
      /\ commands'[Len(commands) + 1] = command
      BY <1>1
<1>3. Len(<<>>) = 0
      OBVIOUS
<1>4. QED
      BY <1>2, <1>3

(* Executing the first of several commands leaves the last one.            *)
LEMMA LastStays ==
    ASSUME TypeOK, commands # <<>>, commands' = Tail(commands), commands' # <<>>
    PROVE  commands'[Len(commands')] = commands[Len(commands)]
<1>1. /\ Len(commands) \in Nat /\ Len(commands') = Len(commands) - 1
      /\ \A i \in 1..Len(commands') : commands'[i] = commands[i + 1]
      BY DEF TypeOK
<1>2. Len(commands') \in Nat /\ Len(commands') # 0
  <2>1. commands' \in Seq(Commands)
        BY DEF TypeOK
  <2>2. QED
        BY <2>1
<1>3. QED
      BY <1>1, <1>2

(* A step keeps the replies on the wire in step with the store.            *)
LEMMA InStepStep ==
    ASSUME TypeOK, InStep, [Next]_vars
    PROVE  InStep'
<1> USE DEF InStep, dbVars, pubSubVars, requestVars, tabVars
<1>1. ASSUME UNCHANGED <<entry, subscribed, commands, faults>>
      PROVE  InStep'
      BY <1>1
<1>2. CASE \E n \in Notifications : Insert(n) \/ Push(n) \/ ReceiveMessage(n)
      BY <1>1, <1>2 DEF Insert, Push, ReceiveMessage
<1>3. CASE \E s \in Streams : Connect(s) \/ QueryMissed(s)
      BY <1>1, <1>3 DEF Connect, QueryMissed
<1>4. ASSUME NEW s \in Streams, Replay(s)
      PROVE  InStep'
  <2>1. CASE UNCHANGED <<entry, commands>>
        BY <1>1, <1>4, <2>1 DEF Replay
  <2>2. CASE entry' = TRUE /\ commands' = Append(commands, Subscribe(s))
    <3>1. commands' # <<>> /\ commands'[Len(commands')] = Subscribe(s)
          BY <2>2, LastSent, CommandsAndReplies
    <3>2. commands'[Len(commands')].op = "SUBSCRIBE"
          BY <3>1 DEF Subscribe
    <3>3. QED
          BY <2>2, <3>1, <3>2
  <2>3. QED
        BY <1>4, <2>1, <2>2 DEF Replay
<1>5. ASSUME NEW s \in Streams, ReceiveAck(s)
      PROVE  InStep'
      BY <1>1, <1>5 DEF ReceiveAck
<1>6. ASSUME NEW s \in Streams, Disconnect(s)
      PROVE  InStep'
  <2>1. CASE UNCHANGED <<entry, commands>>
        BY <1>1, <1>6, <2>1 DEF Disconnect
  <2>2. CASE entry' = FALSE /\ commands' = Append(commands, Unsubscribe(s))
    <3>1. commands' # <<>> /\ commands'[Len(commands')] = Unsubscribe(s)
          BY <2>2, LastSent, CommandsAndReplies
    <3>2. commands'[Len(commands')].op = "UNSUBSCRIBE"
          BY <3>1 DEF Unsubscribe
    <3>3. QED
          BY <2>2, <3>1, <3>2
  <2>3. QED
        BY <1>6, <2>1, <2>2 DEF Disconnect, Leave
<1>7. CASE Execute
  <2>1. UNCHANGED <<entry, faults>>
        BY <1>7 DEF Execute
  <2>2. CASE commands' # <<>>
        BY <1>7, <2>1, <2>2, LastStays DEF Execute
  <2>3. CASE commands' = <<>>
    <3>1. commands[Len(commands)] = Head(commands)
      <4>1. commands \in Seq(Commands) /\ commands # <<>> /\ commands' = Tail(commands)
            BY <1>7 DEF Execute, TypeOK
      <4>2. Len(commands') = Len(commands) - 1
            BY <4>1
      <4>3. Len(commands) = 1
        <5>1. Len(commands') = 0
              BY <2>3
        <5>2. Len(commands) \in Nat
              BY <4>1
        <5>3. QED
              BY <4>2, <5>1, <5>2
      <4>4. QED
            BY <4>1, <4>3
    <3>2. subscribed' <=> Head(commands).op = "SUBSCRIBE"
          BY <1>7 DEF Execute
    <3>3. QED
          BY <1>7, <2>1, <2>3, <3>1, <3>2 DEF Execute
  <2>4. QED
        BY <2>2, <2>3
<1>8. CASE CommandFails
  <2>1. faults' # 0
        BY <1>8 DEF CommandFails, TypeOK
  <2>2. QED
        BY <2>1
<1>9. CASE UNCHANGED vars
      BY <1>1, <1>9 DEF vars
<1>10. QED
       BY <1>2, <1>3, <1>4, <1>5, <1>6, <1>7, <1>8, <1>9, NextCases

(* The map of handlers and the subscription at Valkey agree once all       *)
(* commands are executed, for any number of streams, if none failed.       *)
THEOREM SubscriptionInStep == Spec => []InStep
<1>1. Init => InStep
      BY DEF Init, InStep
<1>2. TypeOK /\ InStep /\ [Next]_vars => InStep'
      BY InStepStep
<1>3. QED
      BY <1>1, <1>2, TypeCorrect, PTL DEF Spec

-----------------------------------------------------------------------------
(* Delivery.                                                               *)

(* A live stream has its handler in the map.                               *)
LiveIsRegistered == \A s \in Streams : pc[s] = "live" => s \in handlers

(* A step keeps live streams registered with the hub.                      *)
LEMMA RegisteredStep ==
    ASSUME TypeOK, LiveIsRegistered, [Next]_vars
    PROVE  LiveIsRegistered'
<1> USE DEF LiveIsRegistered, TypeOK, dbVars, pubSubVars, requestVars, tabVars
<1>1. CASE \E n \in Notifications : Insert(n) \/ Push(n) \/ ReceiveMessage(n)
      BY <1>1 DEF Insert, Push, ReceiveMessage
<1>2. CASE \E s \in Streams : Connect(s) \/ QueryMissed(s)
      BY <1>2 DEF Connect, QueryMissed
<1>3. CASE \E s \in Streams : Replay(s) \/ ReceiveAck(s)
      BY <1>3 DEF Replay, ReceiveAck
<1>4. CASE \E s \in Streams : Disconnect(s)
      BY <1>4 DEF Disconnect, Leave
<1>5. CASE Execute \/ CommandFails
      BY <1>5 DEF Execute, CommandFails
<1>6. CASE UNCHANGED vars
      BY <1>6 DEF vars
<1>7. QED
      BY <1>1, <1>2, <1>3, <1>4, <1>5, <1>6, NextCases

(* A stream owes nothing before it is there, and what it owes while its    *)
(* client is connected it owes as a registered stream.                     *)
OwedAreRegistered ==
    \A s \in Streams :
        /\ pc[s] = "new" => owed[s] = {}
        /\ s \in open /\ owed[s] # {} => s \in handlers

(* A step keeps the streams that are owed a push registered.               *)
LEMMA OwedStep ==
    ASSUME TypeOK, LiveIsRegistered, OwedAreRegistered, [Next]_vars
    PROVE  OwedAreRegistered'
<1> USE DEF OwedAreRegistered, TypeOK, dbVars, pubSubVars, requestVars, tabVars
<1>1. CASE \E n \in Notifications : Insert(n) \/ ReceiveMessage(n)
      BY <1>1 DEF Insert, ReceiveMessage
<1>2. CASE \E n \in Notifications : Push(n)
      BY <1>2 DEF Push, LiveIsRegistered
<1>3. CASE \E s \in Streams : Connect(s) \/ QueryMissed(s)
      BY <1>3 DEF Connect, QueryMissed
<1>4. CASE \E s \in Streams : Replay(s) \/ ReceiveAck(s)
      BY <1>4 DEF Replay, ReceiveAck
<1>5. CASE \E s \in Streams : Disconnect(s)
      BY <1>5 DEF Disconnect, Leave
<1>6. CASE Execute \/ CommandFails
      BY <1>6 DEF Execute, CommandFails
<1>7. CASE UNCHANGED vars
      BY <1>7 DEF vars
<1>8. QED
      BY <1>1, <1>2, <1>3, <1>4, <1>5, <1>6, <1>7, NextCases

(* What is on the wire stays there or is received.                         *)
LEMMA WireTail ==
    ASSUME TypeOK, NEW n \in Notifications, OnWire(n), wire' = Tail(wire), wire # <<>>
    PROVE  OnWire(n)' \/ Head(wire) = Message(n)
<1>1. PICK i \in DOMAIN wire : wire[i] = Message(n)
      BY DEF OnWire
<1>2. CASE i = 1
      BY <1>1, <1>2 DEF TypeOK
<1>3. CASE i # 1
  <2>1. i - 1 \in DOMAIN wire' /\ wire'[i - 1] = wire[i]
        BY <1>3 DEF TypeOK
  <2>2. QED
        BY <1>1, <2>1 DEF OnWire
<1>4. QED
      BY <1>2, <1>3

(* Writing a reply keeps what is on the wire and adds the reply.           *)
LEMMA WireAppend ==
    ASSUME TypeOK, NEW reply \in Replies, wire' = Append(wire, reply)
    PROVE  /\ \A n \in Notifications : OnWire(n) => OnWire(n)'
           /\ \A n \in Notifications : reply = Message(n) => OnWire(n)'
<1>1. /\ wire' \in Seq(Replies) /\ Len(wire') = Len(wire) + 1
      /\ \A i \in 1..Len(wire) : wire'[i] = wire[i]
      /\ wire'[Len(wire) + 1] = reply
      BY DEF TypeOK
<1>2. DOMAIN wire = 1..Len(wire) /\ DOMAIN wire' = 1..(Len(wire) + 1) /\ Len(wire) \in Nat
      BY <1>1 DEF TypeOK
<1>3. QED
      BY <1>1, <1>2 DEF OnWire

(* Nothing is taken back from a tab.                                       *)
LEMMA SeenGrows ==
    ASSUME TypeOK, [Next]_vars, NEW t \in Tabs
    PROVE  seen[t] \subseteq seen'[t]
<1> USE DEF TypeOK, dbVars, pubSubVars, requestVars, tabVars
<1>1. CASE \E n \in Notifications : Insert(n) \/ Push(n) \/ ReceiveMessage(n)
      BY <1>1 DEF Insert, Push, ReceiveMessage
<1>2. ASSUME NEW s \in Streams, Replay(s) PROVE seen[t] \subseteq seen'[t]
  <2>1. UNCHANGED seen \/ seen' = [seen EXCEPT ![TabOf(s)] = @ \cup missed[s]]
        BY <1>2 DEF Replay, Write
  <2>2. QED
        BY <2>1
<1>3. CASE UNCHANGED seen
      BY <1>3
<1>4. QED
      BY <1>1, <1>2, <1>3, NextCases
      DEF Connect, QueryMissed, ReceiveAck, Disconnect, Execute, CommandFails, vars

(* A step keeps every push on the wire, in the hub or in the replay.       *)
LEMMA ArriveStep ==
    ASSUME TypeOK, InStep, LiveIsRegistered, OwedAreRegistered, PushesArrive, [Next]_vars
    PROVE  PushesArrive'
<1> USE DEF dbVars, pubSubVars, requestVars, tabVars
<1> SUFFICES ASSUME faults' = 0, NEW s \in open', NEW n \in owed'[s]
             PROVE  n \in seen'[TabOf(s)] \/ OnWire(n)'
    BY DEF PushesArrive
<1>1. s \in Streams /\ n \in Notifications /\ TabOf(s) \in Tabs
      BY TypeStep, TabOfStream DEF TypeOK
<1>2. faults = 0
  <2>1. CASE CommandFails
        BY <2>1 DEF CommandFails, TypeOK
  <2>2. CASE UNCHANGED faults
        BY <2>2
  <2>3. QED
        BY <2>1, <2>2, NextCases
        DEF Insert, Push, ReceiveMessage, Connect, QueryMissed, Replay, ReceiveAck,
            Disconnect, Execute, vars
<1>3. ASSUME n \in owed[s], s \in open
      PROVE  n \in seen'[TabOf(s)] \/ OnWire(n)
      BY <1>1, <1>2, <1>3, SeenGrows DEF PushesArrive
<1>4. CASE owed' = owed /\ s \in open /\ wire' = wire
      BY <1>3, <1>4 DEF OnWire
<1>5. ASSUME NEW m \in Notifications, Push(m)
      PROVE  n \in seen'[TabOf(s)] \/ OnWire(n)'
  <2>1. CASE n \in owed[s]
    <3>1. OnWire(n) => OnWire(n)'
      <4>1. Message(m) \in Replies
            BY DEF Message, Replies
      <4>2. QED
            BY <1>1, <1>5, <4>1, WireAppend DEF Push, OnWire
    <3>2. QED
          BY <1>3, <1>5, <2>1, <3>1 DEF Push
  <2>2. CASE n \notin owed[s]
    <3>1. n = m /\ pc[s] = "live" /\ commands = <<>>
          BY <1>1, <1>5, <2>2 DEF Push, TypeOK
    <3>2. subscribed
          BY <1>1, <1>2, <3>1 DEF InStep, LiveIsRegistered, TypeOK
    <3>3. wire' = Append(wire, Message(n)) /\ Message(n) \in Replies
          BY <1>1, <1>5, <3>1, <3>2 DEF Push, Message, Replies
    <3>4. QED
          BY <1>1, <3>3, WireAppend
  <2>3. QED
        BY <2>1, <2>2
<1>6. ASSUME NEW m \in Notifications, ReceiveMessage(m)
      PROVE  n \in seen'[TabOf(s)] \/ OnWire(n)'
  <2>1. n \in owed[s] /\ s \in open /\ s \in handlers
        BY <1>1, <1>6 DEF ReceiveMessage, OwedAreRegistered
  <2>2. CASE OnWire(n)
    <3>1. OnWire(n)' \/ Head(wire) = Message(n)
          BY <1>1, <1>6, <2>2, WireTail DEF ReceiveMessage
    <3>2. ASSUME Head(wire) = Message(n)
          PROVE  n \in seen'[TabOf(s)]
      <4>1. n = m
            BY <1>6, <3>2 DEF ReceiveMessage, Message
      <4>2. QED
            BY <1>1, <1>6, <2>1, <4>1 DEF ReceiveMessage, TypeOK
    <3>3. QED
          BY <3>1, <3>2
  <2>3. QED
        BY <1>3, <2>1, <2>2
<1>7. ASSUME NEW r \in Streams, ReceiveAck(r)
      PROVE  n \in seen'[TabOf(s)] \/ OnWire(n)'
  <2>1. OnWire(n) => OnWire(n)' \/ Head(wire) = Message(n)
        BY <1>1, <1>7, WireTail DEF ReceiveAck
  <2>2. Head(wire) # Message(n)
        BY <1>7 DEF ReceiveAck, Acked, Message
  <2>3. QED
        BY <1>3, <1>7, <2>1, <2>2 DEF ReceiveAck
<1>8. ASSUME NEW r \in Streams, Connect(r)
      PROVE  n \in seen'[TabOf(s)] \/ OnWire(n)'
  <2>1. s \in open
        BY <1>1, <1>8 DEF Connect, OwedAreRegistered
  <2>2. QED
        BY <1>4, <1>8, <2>1 DEF Connect
<1>9. ASSUME NEW r \in Streams, QueryMissed(r) \/ Replay(r) \/ Disconnect(r)
      PROVE  n \in seen'[TabOf(s)] \/ OnWire(n)'
      BY <1>4, <1>9 DEF QueryMissed, Replay, Disconnect
<1>10. CASE Execute
  <2>1. OnWire(n) => OnWire(n)'
    <3>1. CASE UNCHANGED wire
          BY <3>1 DEF OnWire
    <3>2. CASE wire' = Append(wire, Acked(Head(commands).by))
      <4>1. Head(commands) \in Commands
            BY <1>10 DEF Execute, TypeOK
      <4>2. Acked(Head(commands).by) \in Replies
            BY <4>1, CommandsAndReplies DEF Commands
      <4>3. QED
            BY <1>1, <3>2, <4>2, WireAppend
    <3>3. QED
          BY <1>10, <3>1, <3>2 DEF Execute
  <2>2. QED
        BY <1>3, <1>10, <2>1 DEF Execute
<1>11. CASE UNCHANGED vars
       BY <1>4, <1>11 DEF vars
<1>12. QED
       BY <1>2, <1>4, <1>5, <1>6, <1>7, <1>8, <1>9, <1>10, <1>11, NextCases
       DEF Insert, CommandFails

(* A push that found a live stream and no command under way gets to the    *)
(* tab, however many streams there are, unless the tab closes first.       *)
THEOREM PushesAreDelivered == Spec => []PushesArrive
<1> DEFINE IInv == LiveIsRegistered /\ OwedAreRegistered /\ PushesArrive
<1>1. Init => IInv
      BY DEF Init, LiveIsRegistered, OwedAreRegistered, PushesArrive
<1>2. TypeOK /\ InStep /\ IInv /\ [Next]_vars => IInv'
      BY RegisteredStep, OwedStep, ArriveStep
<1>3. QED
      BY <1>1, <1>2, TypeCorrect, SubscriptionInStep, PTL DEF Spec
=============================================================================
