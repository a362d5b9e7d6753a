------------------------- MODULE NotificationStream -------------------------
(***************************************************************************)
(* The browser side of notifications: the SSE streams one user opens on    *)
(* one API process (NotificationSseController), and the subscription they  *)
(* share there (NotificationPubSubService). The process is one event loop: *)
(* a step lasts from one await to the next. Its subscriber connection to   *)
(* Valkey is a pair of queues, commands and wire.                          *)
(***************************************************************************)
EXTENDS Naturals, Sequences, FiniteSets

CONSTANTS
    Tabs,              \* the user's browser tabs, each with one EventSource
    Connections,       \* bound: connections a tab makes one after the other
    MaxNotifications,  \* bound: notifications of the user
    ReplayLimit,       \* notifications replayed at most (30 in the code)
    MaxFaults          \* bound: commands to Valkey that fail

ASSUME BoundsAssumption ==
    /\ Connections \in Nat \ {0} /\ MaxNotifications \in Nat
    /\ ReplayLimit \in Nat /\ MaxFaults \in Nat

(* A notification is its id; ids are UUIDv7 and grow with time.            *)
Notifications == 1..MaxNotifications

(* The n-th stream of a tab: one call of stream().                         *)
Streams == Tabs \X (1..Connections)
TabOf(s) == s[1]

VARIABLES
    inbox,       \* in_app_notifications of the user
    pushed,      \* notifications published to the user's channel
    entry,       \* this.handlers has the channel
    handlers,    \* the streams whose handlers it holds
    subscribed,  \* Valkey has the subscription
    commands,    \* sent to Valkey, not yet executed
    wire,        \* replies and messages from Valkey, not yet received
    pc,          \* of every stream: where stream() is
    open,        \* streams whose client is connected
    from,        \* the Last-Event-ID header of every stream, or 0
    missed,      \* the result of listMissed
    cursor,      \* of every tab: the id of its last event, or 0
    seen,        \* history: notifications every tab has received
    owed,        \* history: pushes a stream has to pass on
    faults

dbVars == <<inbox, pushed>>
pubSubVars == <<entry, handlers, subscribed, commands, wire>>
requestVars == <<pc, open, from, missed>>
tabVars == <<cursor, seen>>
vars == <<dbVars, pubSubVars, requestVars, tabVars, owed, faults>>

Init ==
    /\ inbox = {} /\ pushed = {}
    /\ entry = FALSE /\ handlers = {} /\ subscribed = FALSE
    /\ commands = <<>> /\ wire = <<>>
    /\ pc = [s \in Streams |-> "new"]
    /\ open = {}
    /\ from = [s \in Streams |-> 0]
    /\ missed = [s \in Streams |-> {}]
    /\ cursor = [t \in Tabs |-> 0]
    /\ seen = [t \in Tabs |-> {}]
    /\ owed = [s \in Streams |-> {}]
    /\ faults = 0

Subscribe(s) == [op |-> "SUBSCRIBE", by |-> s]
Unsubscribe(s) == [op |-> "UNSUBSCRIBE", by |-> s]
Commands == [op : {"SUBSCRIBE", "UNSUBSCRIBE"}, by : Streams]

Acked(s) == <<"ack", s>>
Message(n) == <<"message", n>>
Replies == ({"ack"} \X Streams) \cup ({"message"} \X Notifications)

-----------------------------------------------------------------------------
(* The worker.                                                             *)

(* A relay writes a notification; several pods need not keep the order.    *)
Insert(n) ==
    /\ n \notin inbox
    /\ inbox' = inbox \cup {n}
    /\ UNCHANGED <<pushed, pubSubVars, requestVars, tabVars, owed, faults>>

(* notifyUser publishes it, once. A stream has to pass it on if subscribe  *)
(* has returned and no command of the process is under way.                *)
Push(n) ==
    /\ n \in inbox \ pushed
    /\ pushed' = pushed \cup {n}
    /\ wire' = IF subscribed THEN Append(wire, Message(n)) ELSE wire
    /\ owed' = [s \in Streams |->
                  IF pc[s] = "live" /\ commands = <<>>
                  THEN owed[s] \cup {n} ELSE owed[s]]
    /\ UNCHANGED <<inbox, entry, handlers, subscribed, commands, requestVars, tabVars, faults>>

-----------------------------------------------------------------------------
(* stream() of the controller, with subscribe() of the pub/sub service.    *)

(* The tab (re)connects: stream() counts the unread notifications.         *)
Connect(s) ==
    /\ pc[s] = "new"
    /\ \A r \in Streams : TabOf(r) = TabOf(s) =>
          r \notin open /\ (r[2] < s[2] => pc[r] # "new")
    /\ pc' = [pc EXCEPT ![s] = "query"]
    /\ open' = open \cup {s}
    /\ from' = [from EXCEPT ![s] = cursor[TabOf(s)]]
    /\ UNCHANGED <<dbVars, pubSubVars, missed, tabVars, owed, faults>>

(* listSince: the first ReplayLimit notifications after an id.             *)
ListSince(id) ==
    {n \in inbox : n > id /\ Cardinality({m \in inbox : id < m /\ m < n}) < ReplayLimit}

(* listMissed runs in the database, if there is a Last-Event-ID at all.    *)
QueryMissed(s) ==
    /\ pc[s] = "query"
    /\ missed' = [missed EXCEPT ![s] = IF from[s] = 0 THEN {} ELSE ListSince(from[s])]
    /\ pc' = [pc EXCEPT ![s] = "replay"]
    /\ UNCHANGED <<dbVars, pubSubVars, open, from, tabVars, owed, faults>>

(* The tab of an open stream receives what is written, in ascending order. *)
Write(s, ids) ==
    IF s \in open /\ ids # {}
    THEN \E last \in ids :
            /\ \A n \in ids : n <= last
            /\ seen' = [seen EXCEPT ![TabOf(s)] = @ \cup ids]
            /\ cursor' = [cursor EXCEPT ![TabOf(s)] = last]
    ELSE UNCHANGED tabVars

(* Mutant: an existing entry is not looked for, every stream subscribes.   *)
ReplayAlwaysNewEntry(s) ==
    /\ pc[s] = "replay"
    /\ Write(s, missed[s])
    /\ entry' = TRUE /\ handlers' = {}
    /\ commands' = Append(commands, Subscribe(s))
    /\ pc' = [pc EXCEPT ![s] = "ack"]
    /\ UNCHANGED <<dbVars, subscribed, wire, open, from, missed, owed, faults>>

(* What was missed is written, then subscribe() is called: the first       *)
(* stream of the channel sends SUBSCRIBE and waits, the others do not.     *)
Replay(s) ==
    /\ pc[s] = "replay"
    /\ Write(s, missed[s])
    /\ \/ /\ entry
          /\ handlers' = handlers \cup {s}
          /\ pc' = [pc EXCEPT ![s] = "live"]
          /\ UNCHANGED <<entry, commands>>
       \/ /\ ~entry
          /\ entry' = TRUE
          /\ commands' = Append(commands, Subscribe(s))
          /\ pc' = [pc EXCEPT ![s] = "ack"]
          /\ UNCHANGED handlers
    /\ UNCHANGED <<dbVars, subscribed, wire, open, from, missed, owed, faults>>

(* The reply to SUBSCRIBE: handlers.get(channel)!.add(handler), a          *)
(* TypeError if the entry has gone meanwhile.                              *)
ReceiveAck(s) ==
    /\ wire # <<>> /\ Head(wire) = Acked(s)
    /\ wire' = Tail(wire)
    /\ \/ /\ entry
          /\ handlers' = handlers \cup {s}
          /\ pc' = [pc EXCEPT ![s] = "live"]
       \/ /\ ~entry
          /\ pc' = [pc EXCEPT ![s] = "error"]
          /\ UNCHANGED handlers
    /\ UNCHANGED <<dbVars, entry, subscribed, commands, open, from, missed, tabVars, owed, faults>>

(* The 'message' listener: every handler writes to its stream.             *)
ReceiveMessage(n) ==
    /\ wire # <<>> /\ Head(wire) = Message(n)
    /\ wire' = Tail(wire)
    /\ LET reached == {TabOf(s) : s \in handlers \cap open}
       IN  /\ seen' = [t \in Tabs |-> IF t \in reached THEN seen[t] \cup {n} ELSE seen[t]]
           /\ cursor' = [t \in Tabs |-> IF t \in reached THEN n ELSE cursor[t]]
    /\ UNCHANGED <<dbVars, entry, handlers, subscribed, commands, requestVars, owed, faults>>

(* Mutant: the last handler to go leaves without an UNSUBSCRIBE.           *)
LeaveSilently(s) ==
    /\ handlers' = handlers \ {s}
    /\ entry' = (handlers # {s})
    /\ UNCHANGED commands

(* The returned unsubscribe function.                                      *)
Leave(s) ==
    /\ handlers' = handlers \ {s}
    /\ IF handlers = {s}
       THEN entry' = FALSE /\ commands' = Append(commands, Unsubscribe(s))
       ELSE UNCHANGED <<entry, commands>>

(* The client disconnects. The listener of 'close' unsubscribes, but it is *)
(* registered only once subscribe() has returned.                          *)
Disconnect(s) ==
    /\ s \in open
    /\ open' = open \ {s}
    /\ \/ pc[s] = "live" /\ Leave(s) /\ pc' = [pc EXCEPT ![s] = "done"]
       \/ pc[s] # "live" /\ UNCHANGED <<entry, handlers, commands, pc>>
    /\ UNCHANGED <<dbVars, subscribed, wire, from, missed, tabVars, owed, faults>>

-----------------------------------------------------------------------------
(* Valkey.                                                                 *)

Execute ==
    /\ commands # <<>>
    /\ commands' = Tail(commands)
    /\ \/ /\ Head(commands).op = "SUBSCRIBE"
          /\ subscribed' = TRUE
          /\ wire' = Append(wire, Acked(Head(commands).by))
       \/ /\ Head(commands).op = "UNSUBSCRIBE"
          /\ subscribed' = FALSE
          /\ UNCHANGED wire
    /\ UNCHANGED <<dbVars, entry, handlers, requestVars, tabVars, owed, faults>>

(* A command fails: the promise of SUBSCRIBE is rejected, and stream()     *)
(* with it; UNSUBSCRIBE's rejection is ignored.                            *)
CommandFails ==
    /\ faults < MaxFaults /\ faults' = faults + 1
    /\ commands # <<>>
    /\ commands' = Tail(commands)
    /\ pc' = IF Head(commands).op = "SUBSCRIBE"
             THEN [pc EXCEPT ![Head(commands).by] = "error"] ELSE pc
    /\ UNCHANGED <<dbVars, entry, handlers, subscribed, wire, open, from, missed, tabVars, owed>>

-----------------------------------------------------------------------------
Worker == \E n \in Notifications : Insert(n) \/ Push(n)

Request(s) == Connect(s) \/ QueryMissed(s) \/ Replay(s) \/ Disconnect(s)

Receive == (\E s \in Streams : ReceiveAck(s)) \/ (\E n \in Notifications : ReceiveMessage(n))

Next == Worker \/ (\E s \in Streams : Request(s)) \/ Receive \/ Execute \/ CommandFails

Spec == Init /\ [][Next]_vars

-----------------------------------------------------------------------------
PCs == {"new", "query", "replay", "ack", "live", "error", "done"}

(* Type correctness; handlers are kept in an entry.                        *)
TypeOK ==
    /\ inbox \subseteq Notifications /\ pushed \subseteq inbox
    /\ entry \in BOOLEAN /\ handlers \subseteq Streams /\ subscribed \in BOOLEAN
    /\ handlers # {} => entry
    /\ commands \in Seq(Commands) /\ wire \in Seq(Replies)
    /\ pc \in [Streams -> PCs]
    /\ open \subseteq Streams
    /\ from \in [Streams -> 0..MaxNotifications]
    /\ missed \in [Streams -> SUBSET Notifications]
    /\ cursor \in [Tabs -> 0..MaxNotifications]
    /\ seen \in [Tabs -> SUBSET Notifications]
    /\ owed \in [Streams -> SUBSET Notifications]
    /\ faults \in 0..MaxFaults

(* However the streams of a process come and go between the awaits of      *)
(* subscribe(): the last command sent to Valkey agrees with the map of     *)
(* handlers, so that without failures Valkey has the subscription just     *)
(* while the map has the channel.                                          *)
InStep ==
    faults = 0 =>
        /\ commands = <<>> => (subscribed <=> entry)
        /\ commands # <<>> => (commands[Len(commands)].op = "SUBSCRIBE" <=> entry)

OnWire(n) == \E i \in DOMAIN wire : wire[i] = Message(n)

(* A notification pushed while a stream was live, with no command under    *)
(* way, reaches its tab or is on its way there as long as the client stays *)
(* connected, whatever the other streams of the process do.                *)
PushesArrive ==
    faults = 0 =>
        \A s \in open : \A n \in owed[s] : n \in seen[TabOf(s)] \/ OnWire(n)

-----------------------------------------------------------------------------
(* What the comments of the code say, and is not so.                       *)

(* "Multiple handlers can be registered for the same channel — they share  *)
(* one Valkey SUBSCRIBE.": registering one does not fail.                  *)
SubscribeSucceeds == faults = 0 => \A s \in Streams : pc[s] # "error"

(* The same after a failure: who shares the subscription has one.          *)
SharedSubscription ==
    \A s \in handlers \cap open : commands = <<>> => subscribed

(* "Graceful cleanup on client disconnect.", "call it on cleanup (SSE      *)
(* disconnect, module destroy) to free resources": a stream whose client   *)
(* has gone leaves no handler behind.                                      *)
ClosedStreamsLeaveNothing == handlers \subseteq open

(* "the server replays missed notifications before entering live-push      *)
(* mode": a reconnected tab gets all that is newer than its Last-Event-ID. *)
NothingMissedOnReconnect ==
    \A s \in handlers \cap open : from[s] # 0 /\ wire = <<>> =>
        {n \in pushed : n > from[s]} \subseteq seen[TabOf(s)]
=============================================================================
