------------------------- MODULE ClusterSync_proofs -------------------------
(***************************************************************************)
(* Proofs about the replication of realtime subscriptions in a cluster,    *)
(* for any nodes and rooms, and whatever the bounds and the network: type  *)
(* correctness, and the exactness of the views that nodes keep of each     *)
(* other.                                                                  *)
(***************************************************************************)
EXTENDS ClusterSync, FullState_proofs

\* The parts of TypeOK.
JoinRecord ==
  [node : SUBSET Nodes, targets : SUBSET Nodes, ids : [Nodes -> Nat \cup {-1}],
   hello : Nat, answer : [Nodes -> Nat \cup {-1}], waiting : SUBSET Nodes,
   retried : BOOLEAN]

LogsTyped ==
  /\ log \in [Nodes -> Seq(Message)]
  /\ hist \in [Nodes -> Seq(OwnView)]
  /\ \A p \in Nodes : Len(hist[p]) = Len(log[p])
  /\ fs \in [Nodes -> State]

SubsTyped == sub \in [Nodes -> [Nodes -> Subscriber]]

OthersTyped ==
  /\ phase \in [Nodes -> Phase]
  /\ removing \in [Nodes -> SUBSET Removal]
  /\ join \in JoinRecord
  /\ broken \in [Nodes -> SUBSET Nodes]

CountsTyped == lost \in Nat /\ crashed \in SUBSET Nodes

\* What a subscriber buffered was published.
Buffered(s, p) == \A i \in 1..Len(s.buf) : s.buf[i] \in 1..Len(log[p])

BufferedExist == \A q, p \in Nodes : Buffered(sub[q][p], p)

\* A buffered id leads to a message only if it exists.
TypeInv ==
  /\ LogsTyped
  /\ SubsTyped
  /\ OthersTyped
  /\ CountsTyped
  /\ BufferedExist

\* Logs only grow.
Grows ==
  \A x \in Nodes :
    /\ Len(log[x]) <= Len(log'[x])
    /\ \A k \in 1..Len(log[x]) : log'[x][k] = log[x][k] /\ hist'[x][k] = hist[x][k]

-----------------------------------------------------------------------------
LEMMA TypeInvIsTypeOK == TypeInv => TypeOK
  BY DEF TypeInv, TypeOK, LogsTyped, SubsTyped, OthersTyped, CountsTyped, JoinRecord

LEMMA RecordTypes ==
  /\ NoSubscriber \in Subscriber /\ NewSubscriber \in Subscriber
  /\ NoSubscriber.buf = <<>> /\ NewSubscriber.buf = <<>>
  /\ NoJoin \in JoinRecord
<1>1. <<>> \in Seq(Nat)
  OBVIOUS
<1>2. NoSubscriber \in Subscriber /\ NoSubscriber.buf = <<>>
  BY <1>1 DEF NoSubscriber, Subscriber, SubState
<1>3. NewSubscriber \in Subscriber /\ NewSubscriber.buf = NoSubscriber.buf
  BY <1>2 DEF NewSubscriber, Subscriber, SubState
<1>5. NoJoin \in JoinRecord
  BY DEF NoJoin, JoinRecord
<1>6. QED
  BY <1>2, <1>3, <1>5

LEMMA SyncedType ==
  ASSUME NEW id \in Nat, NEW next \in Nat
  PROVE  /\ [SyncedSubscriber(id) EXCEPT !.next = next] \in Subscriber
         /\ [SyncedSubscriber(id) EXCEPT !.next = next].state = "SANE"
         /\ [SyncedSubscriber(id) EXCEPT !.next = next].last = id
         /\ [SyncedSubscriber(id) EXCEPT !.next = next].buf = <<>>
         /\ [SyncedSubscriber(id) EXCEPT !.next = next].syncing = FALSE
<1>1. NoSubscriber \in Subscriber /\ NoSubscriber.syncing = FALSE
  BY RecordTypes DEF NoSubscriber
<1>2. NoSubscriber.buf = <<>>
  BY RecordTypes
<1>3. QED
  BY <1>1, <1>2 DEF SyncedSubscriber, Subscriber, SubState

LEMMA MessageParts ==
  ASSUME NEW m \in Message
  PROVE  /\ m.type \in RoomMessages => m.room \in Rooms
         /\ m.type \in {"NodeEvicted", "NodeShutdown"} => m.node \in Nodes
         /\ \/ m.type \in RoomMessages
            \/ m.type \in {"NodeEvicted", "NodeShutdown", "Heartbeat"}
  BY DEF Message, RoomMessages

LEMMA OwnViewType ==
  ASSUME NEW st \in State, NEW p \in Nodes
  PROVE  EntriesOf(st, p) \in OwnView
  BY DEF EntriesOf, State, OwnView

LEMMA InitType == Init => TypeInv
<1> SUFFICES ASSUME Init PROVE TypeInv
  OBVIOUS
<1>1. LogsTyped
  BY DEF Init, LogsTyped, EmptyState, State
<1>3. /\ [SyncedSubscriber(0) EXCEPT !.next = 1] \in Subscriber
      /\ [SyncedSubscriber(0) EXCEPT !.next = 1].buf = <<>>
  <2>1. 0 \in Nat /\ 1 \in Nat
    OBVIOUS
  <2>2. QED
    BY <2>1, SyncedType
<1>4. \A q, p \in Nodes : sub[q][p] \in Subscriber /\ sub[q][p].buf = <<>>
  BY <1>3, RecordTypes DEF Init
<1>5. SubsTyped
  BY <1>3, RecordTypes DEF Init, SubsTyped
<1>6. BufferedExist
  BY <1>4 DEF BufferedExist, Buffered
<1>7. OthersTyped /\ CountsTyped
  BY RecordTypes DEF Init, OthersTyped, CountsTyped, Phase
<1>8. QED
  BY <1>1, <1>5, <1>6, <1>7 DEF TypeInv
-----------------------------------------------------------------------------
\* Publisher.send: the log and the history of one node grow by one message.
LEMMA PublishType ==
  ASSUME LogsTyped, NEW p \in Nodes, NEW m \in Message, NEW st \in State,
         Publish(p, m, st)
  PROVE  LogsTyped' /\ Grows
<1>1. /\ log[p] \in Seq(Message) /\ hist[p] \in Seq(OwnView)
      /\ Len(hist[p]) = Len(log[p])
  BY DEF LogsTyped
<1>2. EntriesOf(st, p) \in OwnView
  BY OwnViewType
<1>3. /\ Append(log[p], m) \in Seq(Message)
      /\ Len(Append(log[p], m)) = Len(log[p]) + 1
      /\ \A k \in 1..Len(log[p]) : Append(log[p], m)[k] = log[p][k]
  BY <1>1
<1>4. /\ Append(hist[p], EntriesOf(st, p)) \in Seq(OwnView)
      /\ Len(Append(hist[p], EntriesOf(st, p))) = Len(log[p]) + 1
      /\ \A k \in 1..Len(log[p]) : Append(hist[p], EntriesOf(st, p))[k] = hist[p][k]
  BY <1>1, <1>2
<1>5. /\ log' = [log EXCEPT ![p] = Append(log[p], m)]
      /\ hist' = [hist EXCEPT ![p] = Append(hist[p], EntriesOf(st, p))]
      /\ fs' = [fs EXCEPT ![p] = st]
  BY DEF Publish
<1>6. LogsTyped'
  BY <1>3, <1>4, <1>5 DEF LogsTyped
<1>7. \A x \in Nodes : Len(log[x]) \in Nat
  BY DEF LogsTyped
<1>8. Grows
  BY <1>3, <1>4, <1>5, <1>7 DEF Grows, LogsTyped
<1>9. QED
  BY <1>6, <1>8

LEMMA AnnounceType ==
  ASSUME LogsTyped, NEW p \in Nodes, NEW m \in Message, Announce(p, m)
  PROVE  LogsTyped' /\ Grows
  BY PublishType DEF Announce, LogsTyped

\* A step that publishes nothing.
LEMMA QuietType ==
  ASSUME LogsTyped, UNCHANGED <<log, hist>>, fs' \in [Nodes -> State]
  PROVE  LogsTyped' /\ Grows
  BY DEF LogsTyped, Grows

LEMMA StillBuffered ==
  ASSUME LogsTyped, LogsTyped', Grows, NEW s, NEW p \in Nodes, Buffered(s, p)
  PROVE  \A i \in 1..Len(s.buf) : s.buf[i] \in 1..Len(log'[p])
<1>1. Len(log[p]) \in Nat /\ Len(log'[p]) \in Nat /\ Len(log[p]) <= Len(log'[p])
  BY DEF LogsTyped, Grows
<1>2. QED
  BY <1>1 DEF Buffered

\* A step that changes one subscriber.
LEMMA SubChanged ==
  ASSUME LogsTyped, LogsTyped', Grows, SubsTyped, BufferedExist,
         NEW q \in Nodes, NEW p \in Nodes, NEW s \in Subscriber, Buffered(s, p),
         sub' = [sub EXCEPT ![q][p] = s]
  PROVE  SubsTyped' /\ BufferedExist'
<1>1. SubsTyped'
  BY DEF SubsTyped
<1>2. ASSUME NEW x \in Nodes, NEW y \in Nodes
      PROVE  \A i \in 1..Len(sub'[x][y].buf) : sub'[x][y].buf[i] \in 1..Len(log'[y])
  <2>1. CASE x = q /\ y = p
    BY <2>1, StillBuffered DEF SubsTyped
  <2>2. CASE ~(x = q /\ y = p)
    <3>1. sub'[x][y] = sub[x][y] /\ Buffered(sub[x][y], y)
      BY <2>2 DEF SubsTyped, BufferedExist
    <3>2. QED
      BY <3>1, StillBuffered
  <2>3. QED
    BY <2>1, <2>2
<1>3. QED
  BY <1>1, <1>2 DEF BufferedExist, Buffered

\* A step that changes all subscribers of one node, with nothing buffered.
LEMMA SubsReset ==
  ASSUME LogsTyped, LogsTyped', Grows, SubsTyped, BufferedExist,
         NEW q \in Nodes, NEW f \in [Nodes -> Subscriber],
         \A p \in Nodes : f[p].buf = <<>>,
         sub' = [sub EXCEPT ![q] = f]
  PROVE  SubsTyped' /\ BufferedExist'
<1>1. SubsTyped'
  BY DEF SubsTyped
<1>2. ASSUME NEW x \in Nodes, NEW y \in Nodes
      PROVE  \A i \in 1..Len(sub'[x][y].buf) : sub'[x][y].buf[i] \in 1..Len(log'[y])
  <2>1. CASE x = q
    <3>1. sub'[x][y].buf = <<>>
      BY <2>1 DEF SubsTyped
    <3>2. QED
      BY <3>1
  <2>2. CASE x # q
    <3>1. sub'[x][y] = sub[x][y] /\ Buffered(sub[x][y], y)
      BY <2>2 DEF SubsTyped, BufferedExist
    <3>2. QED
      BY <3>1, StillBuffered
  <2>3. QED
    BY <2>1, <2>2
<1>3. QED
  BY <1>1, <1>2 DEF BufferedExist, Buffered

LEMMA SubsKept ==
  ASSUME LogsTyped, LogsTyped', Grows, SubsTyped, BufferedExist, sub' = sub
  PROVE  SubsTyped' /\ BufferedExist'
<1>1. ASSUME NEW x \in Nodes, NEW y \in Nodes
      PROVE  \A i \in 1..Len(sub'[x][y].buf) : sub'[x][y].buf[i] \in 1..Len(log'[y])
  BY StillBuffered DEF BufferedExist
<1>2. QED
  BY <1>1 DEF SubsTyped, BufferedExist, Buffered
-----------------------------------------------------------------------------
LEMMA GoneType ==
  ASSUME LogsTyped, LogsTyped', Grows, SubsTyped, OthersTyped, BufferedExist,
         NEW q \in Nodes, Gone(q)
  PROVE  /\ SubsTyped' /\ BufferedExist'
         /\ phase' \in [Nodes -> Phase]
         /\ removing' \in [Nodes -> SUBSET Removal]
         /\ join' \in JoinRecord
<1>1. SubsTyped' /\ BufferedExist'
  <2>1. [p \in Nodes |-> NoSubscriber] \in [Nodes -> Subscriber]
    BY RecordTypes
  <2>2. \A p \in Nodes : [x \in Nodes |-> NoSubscriber][p].buf = <<>>
    BY RecordTypes
  <2>3. sub' = [sub EXCEPT ![q] = [p \in Nodes |-> NoSubscriber]]
    BY DEF Gone
  <2>4. QED
    BY <2>1, <2>2, <2>3, SubsReset
<1>2. /\ phase' \in [Nodes -> Phase]
      /\ removing' \in [Nodes -> SUBSET Removal]
  BY DEF Gone, OthersTyped, Phase
<1>3. join' \in JoinRecord
  BY RecordTypes DEF Gone, OthersTyped
<1>4. QED
  BY <1>1, <1>2, <1>3

LEMMA StopType ==
  ASSUME TypeInv, NEW q \in Nodes, Stop(q)
  PROVE  LogsTyped' /\ Grows /\ SubsTyped' /\ OthersTyped' /\ BufferedExist'
<1>1. [type |-> "NodeShutdown", node |-> q] \in Message
  BY DEF Message
<1>2. LogsTyped' /\ Grows
  BY <1>1, AnnounceType DEF Stop, TypeInv
<1>3. QED
  BY <1>2, GoneType DEF Stop, TypeInv, OthersTyped

LEMMA FailToStartType ==
  ASSUME TypeInv, NEW q \in Nodes, FailToStart(q)
  PROVE  TypeInv' /\ Grows
<1>1. LogsTyped' /\ Grows
  BY QuietType DEF FailToStart, TypeInv, LogsTyped
<1>2. SubsTyped' /\ OthersTyped' /\ BufferedExist'
  BY <1>1, GoneType DEF FailToStart, TypeInv, OthersTyped
<1>3. CountsTyped'
  BY DEF FailToStart, TypeInv, CountsTyped
<1>4. QED
  BY <1>1, <1>2, <1>3 DEF TypeInv

LEMMA BeginRemovalType ==
  ASSUME OthersTyped, NEW q \in Nodes, NEW removal \in Removal,
         BeginRemoval(q, removal)
  PROVE  removing' \in [Nodes -> SUBSET Removal]
  BY DEF OthersTyped, BeginRemoval

\* A handler writes a state.
LEMMA AppliedType ==
  ASSUME NEW st \in State, NEW p \in Nodes, NEW m \in Message, NEW id \in Nat
  PROVE  Applied(st, p, m, id) \in State
<1>1. CASE m.type = "NewRealtimeRoom" /\ CanAddRoom(st, m.room, p)
  <2>1. m.room \in Rooms /\ [subs |-> 0, mid |-> id] \in Entry
    BY <1>1, MessageParts, NewEntry DEF RoomMessages
  <2>2. QED
    BY <1>1, <2>1, AddRoomEntries DEF Applied
<1>2. CASE m.type = "Subscription" /\ Known(st, m.room, p)
  <2>1. m.room \in Rooms
    BY <1>2, MessageParts DEF RoomMessages
  <2>2. QED
    BY <1>2, <2>1, SubscriptionEntries DEF Applied
<1>3. CASE m.type = "Unsubscription" /\ Known(st, m.room, p)
  <2>1. m.room \in Rooms
    BY <1>3, MessageParts DEF RoomMessages
  <2>2. QED
    BY <1>3, <2>1, SubscriptionEntries DEF Applied
<1>4. CASE m.type = "RemoveRealtimeRoom"
  <2>1. m.room \in Rooms
    BY <1>4, MessageParts DEF RoomMessages
  <2>2. QED
    BY <1>4, <2>1, RemoveRoomEntries DEF Applied
<1>5. CASE /\ ~(m.type = "NewRealtimeRoom" /\ CanAddRoom(st, m.room, p))
           /\ ~(m.type = "Subscription" /\ Known(st, m.room, p))
           /\ ~(m.type = "Unsubscription" /\ Known(st, m.room, p))
           /\ m.type # "RemoveRealtimeRoom"
  BY <1>5 DEF Applied
<1>6. QED
  BY <1>1, <1>2, <1>3, <1>4, <1>5

LEMMA DesyncType ==
  ASSUME LogsTyped, OthersTyped, NEW q \in Nodes, NEW p \in Nodes, NEW st \in State,
         Desync(q, p, st)
  PROVE  /\ LogsTyped' /\ Grows
         /\ broken' \in [Nodes -> SUBSET Nodes]
         /\ removing' \in [Nodes -> SUBSET Removal]
<1>1. SelfEviction(q) \in Message
  BY DEF SelfEviction, Message
<1>2. LogsTyped' /\ Grows
  BY <1>1, PublishType DEF Desync
<1>3. QED
  BY <1>2 DEF Desync, OthersTyped

LEMMA HandleType ==
  ASSUME TypeInv, NEW q \in Nodes, NEW p \in Nodes, NEW m \in Message,
         NEW id \in Nat, NEW s \in Subscriber, Buffered(s, p),
         Handle(q, p, m, id, s)
  PROVE  LogsTyped' /\ Grows /\ SubsTyped' /\ OthersTyped' /\ BufferedExist'
<1> USE DEF TypeInv
<1>1. CASE /\ m.type \in RoomMessages
           /\ sub' = [sub EXCEPT ![q][p] = s]
           /\ Throws(fs[q], p, m, id)
           /\ Desync(q, p, Applied(fs[q], p, m, id))
           /\ UNCHANGED <<phase, join>>
  <2>1. Applied(fs[q], p, m, id) \in State
    BY AppliedType DEF LogsTyped
  <2>2. LogsTyped' /\ Grows /\ OthersTyped'
    BY <1>1, <2>1, DesyncType DEF OthersTyped
  <2>3. QED
    BY <1>1, <2>2, SubChanged
<1>2. CASE /\ m.type \in RoomMessages
           /\ sub' = [sub EXCEPT ![q][p] = s]
           /\ fs' = [fs EXCEPT ![q] = Applied(fs[q], p, m, id)]
           /\ UNCHANGED <<log, hist, removing, broken>>
           /\ UNCHANGED <<phase, join>>
  <2>1. Applied(fs[q], p, m, id) \in State
    BY AppliedType DEF LogsTyped
  <2>2. fs' \in [Nodes -> State]
    BY <1>2, <2>1 DEF LogsTyped
  <2>3. LogsTyped' /\ Grows /\ OthersTyped'
    BY <1>2, <2>2, QuietType DEF OthersTyped
  <2>4. QED
    BY <1>2, <2>3, SubChanged
<1>3. CASE Stop(q)
  BY <1>3, StopType
<1>4. CASE /\ m.type \in {"NodeEvicted", "NodeShutdown"}
           /\ sub' = [sub EXCEPT ![q][p] = s]
           /\ BeginRemoval(q, [node |-> m.node, broadcast |-> FALSE, by |-> p])
           /\ UNCHANGED <<phase, join, log, hist, fs, broken>>
  <2>1. [node |-> m.node, broadcast |-> FALSE, by |-> p] \in Removal
    BY <1>4, MessageParts DEF Removal
  <2>2. LogsTyped' /\ Grows
    BY <1>4, QuietType DEF LogsTyped
  <2>3. OthersTyped'
    BY <1>4, <2>1, BeginRemovalType DEF OthersTyped
  <2>4. QED
    BY <1>4, <2>2, <2>3, SubChanged
<1>5. CASE /\ sub' = [sub EXCEPT ![q][p] = s]
           /\ UNCHANGED <<phase, join, removing, log, hist, fs, broken>>
  <2>1. LogsTyped' /\ Grows /\ OthersTyped'
    BY <1>5, QuietType DEF LogsTyped, OthersTyped
  <2>2. QED
    BY <1>5, <2>1, SubChanged
<1>6. QED
  BY <1>1, <1>2, <1>3, <1>4, <1>5 DEF Handle

\* The counters of a subscriber that takes a message.
LEMMA CountedType ==
  ASSUME NEW s \in Subscriber
  PROVE  LET counted == [s EXCEPT !.last = @ + 1]
             heard == [counted EXCEPT !.heard = TRUE] IN
         /\ counted \in Subscriber /\ counted.state = s.state
         /\ counted.last = s.last + 1 /\ counted.buf = s.buf
         /\ counted.syncing = s.syncing
         /\ heard \in Subscriber /\ heard.state = s.state
         /\ heard.last = s.last + 1 /\ heard.buf = s.buf
         /\ heard.syncing = s.syncing
<1> DEFINE counted == [s EXCEPT !.last = @ + 1]
           heard == [counted EXCEPT !.heard = TRUE]
<1>1. /\ counted \in Subscriber /\ counted.state = s.state
      /\ counted.last = s.last + 1 /\ counted.buf = s.buf
      /\ counted.syncing = s.syncing
  BY DEF Subscriber
<1>2. /\ heard \in Subscriber /\ heard.state = counted.state
      /\ heard.last = counted.last /\ heard.buf = counted.buf
      /\ heard.syncing = counted.syncing
  <2> HIDE DEF counted
  <2>1. QED
    BY <1>1 DEF Subscriber
<1>3. QED
  BY <1>1, <1>2

LEMMA ProcessType ==
  ASSUME TypeInv, NEW q \in Nodes, NEW p \in Nodes, NEW id \in 1..Len(log[p]),
         NEW s \in Subscriber, Buffered(s, p), Process(q, p, id, s)
  PROVE  LogsTyped' /\ Grows /\ SubsTyped' /\ OthersTyped' /\ BufferedExist'
<1> DEFINE counted == [s EXCEPT !.last = @ + 1]
           heard == [counted EXCEPT !.heard = TRUE]
<1>1. /\ counted \in Subscriber /\ Buffered(counted, p)
      /\ heard \in Subscriber /\ Buffered(heard, p)
  BY CountedType DEF Buffered
<1>2. CASE /\ sub' = [sub EXCEPT ![q][p] = s]
           /\ UNCHANGED <<phase, join, removing, log, hist, fs, broken>>
  <2>1. LogsTyped' /\ Grows /\ OthersTyped'
    BY <1>2, QuietType DEF TypeInv, LogsTyped, OthersTyped
  <2>2. QED
    BY <1>2, <2>1, SubChanged DEF TypeInv
<1>3. CASE /\ sub' = [sub EXCEPT ![q][p] = counted]
           /\ Desync(q, p, fs[q])
           /\ UNCHANGED <<phase, join>>
  <2>1. LogsTyped' /\ Grows /\ OthersTyped'
    BY <1>3, DesyncType DEF TypeInv, LogsTyped, OthersTyped
  <2>2. QED
    BY <1>1, <1>3, <2>1, SubChanged DEF TypeInv
<1>4. CASE Handle(q, p, log[p][id], id, heard)
  <2>1. log[p][id] \in Message /\ id \in Nat
    BY DEF TypeInv, LogsTyped
  <2>2. QED
    BY <1>1, <1>4, <2>1, HandleType
<1>5. QED
  BY <1>2, <1>3, <1>4 DEF Process
-----------------------------------------------------------------------------
\* Steps that publish one message and change nothing else.
LEMMA LocalPublishType ==
  ASSUME TypeInv, NEW p \in Nodes, NEW m \in Message, NEW st \in State,
         Publish(p, m, st),
         UNCHANGED <<phase, sub, removing, join, lost, crashed, broken>>
  PROVE  TypeInv' /\ Grows
<1>1. LogsTyped' /\ Grows
  BY PublishType DEF TypeInv
<1>2. SubsTyped' /\ BufferedExist'
  BY <1>1, SubsKept DEF TypeInv
<1>3. QED
  BY <1>1, <1>2 DEF TypeInv, OthersTyped, CountsTyped

LEMMA OwnMessageTypes ==
  ASSUME NEW p \in Nodes, NEW r \in Rooms
  PROVE  /\ \A t \in RoomMessages : [type |-> t, room |-> r] \in Message
         /\ [type |-> "Heartbeat"] \in Message
         /\ [type |-> "NodeEvicted", node |-> p] \in Message
  BY DEF Message, RoomMessages

LEMMA ClientsType ==
  ASSUME TypeInv, NEW p \in Nodes, NEW r \in Rooms,
         OpenRoom(p, r) \/ Subscribe(p, r) \/ Unsubscribe(p, r) \/ CloseRoom(p, r)
  PROVE  TypeInv' /\ Grows
<1>1. fs[p] \in State /\ NextId(p) \in Nat
  BY DEF TypeInv, LogsTyped, NextId
<1>2. \A t \in RoomMessages : [type |-> t, room |-> r] \in Message
  BY OwnMessageTypes
<1>3. CASE OpenRoom(p, r)
  <2>1. [subs |-> 0, mid |-> NextId(p)] \in Entry
    BY <1>1, NewEntry
  <2>2. AddRoom(fs[p], r, p, [subs |-> 0, mid |-> NextId(p)]) \in State
    BY <1>1, <2>1, AddRoomEntries
  <2>3. QED
    BY <1>2, <1>3, <2>2, LocalPublishType DEF OpenRoom, RoomMessages
<1>4. CASE Subscribe(p, r)
  <2>1. AddSubscription(fs[p], r, p, NextId(p)) \in State
    BY <1>1, <1>4, SubscriptionEntries DEF Subscribe
  <2>2. QED
    BY <1>2, <1>4, <2>1, LocalPublishType DEF Subscribe, RoomMessages
<1>5. CASE Unsubscribe(p, r)
  <2>1. RemoveSubscription(fs[p], r, p, NextId(p)) \in State
    BY <1>1, <1>5, SubscriptionEntries DEF Unsubscribe
  <2>2. QED
    BY <1>2, <1>5, <2>1, LocalPublishType DEF Unsubscribe, RoomMessages
<1>6. CASE CloseRoom(p, r)
  <2>1. RemoveRoom(fs[p], r, p) \in State
    BY <1>1, RemoveRoomEntries
  <2>2. QED
    BY <1>2, <1>6, <2>1, LocalPublishType DEF CloseRoom, RoomMessages
<1>7. QED
  BY <1>3, <1>4, <1>5, <1>6

LEMMA HeartbeatType ==
  ASSUME TypeInv, NEW p \in Nodes, Heartbeat(p)
  PROVE  TypeInv' /\ Grows
<1>1. [type |-> "Heartbeat"] \in Message /\ fs[p] \in State
  BY DEF Message, TypeInv, LogsTyped
<1>2. QED
  BY <1>1, LocalPublishType DEF Heartbeat, Announce

LEMMA FinishRemovalType ==
  ASSUME TypeInv, NEW q \in Nodes, FinishRemoval(q)
  PROVE  TypeInv' /\ Grows
<1>1. PICK removal \in removing[q] :
        LET p == removal.node IN
        /\ removing' = [removing EXCEPT ![q] = @ \ {removal}]
        /\ sub' = [sub EXCEPT ![q][p] = NoSubscriber]
        /\ \/ Publish(q, [type |-> "NodeEvicted", node |-> p], RemoveNode(fs[q], p))
           \/ /\ fs' = [fs EXCEPT ![q] = RemoveNode(@, p)]
              /\ UNCHANGED <<log, hist>>
        /\ UNCHANGED <<phase, join, lost, crashed, broken>>
  BY DEF FinishRemoval
<1>2. removal \in Removal /\ removal.node \in Nodes
  BY DEF TypeInv, OthersTyped, Removal
<1>3. RemoveNode(fs[q], removal.node) \in State
  BY <1>2, RemoveNodeEntries DEF TypeInv, LogsTyped
<1>4. LogsTyped' /\ Grows
  <2>1. CASE Publish(q, [type |-> "NodeEvicted", node |-> removal.node],
                     RemoveNode(fs[q], removal.node))
    BY <1>2, <1>3, <2>1, PublishType DEF TypeInv, Message
  <2>2. CASE /\ fs' = [fs EXCEPT ![q] = RemoveNode(@, removal.node)]
             /\ UNCHANGED <<log, hist>>
    BY <1>3, <2>2, QuietType DEF TypeInv, LogsTyped
  <2>3. QED
    BY <1>1, <2>1, <2>2
<1>5. SubsTyped' /\ BufferedExist'
  <2>1. Buffered(NoSubscriber, removal.node)
    BY RecordTypes DEF Buffered
  <2>2. QED
    BY <1>1, <1>2, <1>4, <2>1, SubChanged, RecordTypes DEF TypeInv
<1>6. QED
  BY <1>1, <1>4, <1>5 DEF TypeInv, OthersTyped, CountsTyped

LEMMA DiscoverType ==
  ASSUME TypeInv, NEW q \in Nodes, NEW targets \in SUBSET (Nodes \ {q}),
         NEW retried \in BOOLEAN, Discover(q, targets, retried),
         UNCHANGED <<log, hist, fs, removing, lost, crashed, broken>>
  PROVE  TypeInv' /\ Grows
<1>1. LogsTyped' /\ Grows
  BY QuietType DEF TypeInv, LogsTyped
<1>2. /\ \A p \in Nodes : /\ [NewSubscriber EXCEPT !.next = NextId(p)] \in Subscriber
                          /\ [NewSubscriber EXCEPT !.next = NextId(p)].buf = <<>>
  <2>1. \A p \in Nodes : NextId(p) \in Nat
    BY DEF TypeInv, LogsTyped, NextId
  <2>2. QED
    BY <2>1, RecordTypes DEF Subscriber
<1>3. SubsTyped' /\ BufferedExist'
  <2>1. CASE sub' = [sub EXCEPT ![q] = [p \in Nodes |-> NoSubscriber]]
    <3>1. [p \in Nodes |-> NoSubscriber] \in [Nodes -> Subscriber]
      BY RecordTypes
    <3>2. \A p \in Nodes : [x \in Nodes |-> NoSubscriber][p].buf = <<>>
      BY RecordTypes
    <3>3. QED
      BY <1>1, <2>1, <3>1, <3>2, SubsReset DEF TypeInv
  <2>2. CASE sub' = [sub EXCEPT ![q] = [p \in Nodes |->
                      IF p \notin targets THEN NoSubscriber
                      ELSE IF SlowLinks THEN NewSubscriber
                      ELSE [NewSubscriber EXCEPT !.next = NextId(p)]]]
    <3> DEFINE f == [p \in Nodes |->
                      IF p \notin targets THEN NoSubscriber
                      ELSE IF SlowLinks THEN NewSubscriber
                      ELSE [NewSubscriber EXCEPT !.next = NextId(p)]]
    <3>1. f \in [Nodes -> Subscriber] /\ \A p \in Nodes : f[p].buf = <<>>
      BY <1>2, RecordTypes
    <3>2. sub' = [sub EXCEPT ![q] = f]
      BY <2>2
    <3>3. QED
      <4> HIDE DEF f
      <4>1. QED
        BY <1>1, <3>1, <3>2, SubsReset DEF TypeInv
  <2>3. QED
    BY <2>1, <2>2 DEF Discover
<1>4. OthersTyped'
  <2>1. phase' \in [Nodes -> Phase]
    BY DEF Discover, TypeInv, OthersTyped, Phase
  <2>2. [NoJoin EXCEPT !.node = {q}, !.targets = targets, !.waiting = targets,
                       !.retried = retried] \in JoinRecord
    BY RecordTypes DEF JoinRecord
  <2>3. join' \in JoinRecord
    BY <2>2, RecordTypes DEF Discover
  <2>4. QED
    BY <2>1, <2>3 DEF TypeInv, OthersTyped
<1>5. QED
  BY <1>1, <1>3, <1>4 DEF TypeInv, CountsTyped

LEMMA StopActionType ==
  ASSUME TypeInv, NEW q \in Nodes, Stop(q), UNCHANGED <<lost, crashed>>
  PROVE  TypeInv' /\ Grows
  BY StopType DEF TypeInv, CountsTyped

\* Steps that change one subscriber and neither publish nor touch a full state.
LEMMA SubscriberStepType ==
  ASSUME TypeInv, NEW q \in Nodes, NEW p \in Nodes, NEW s \in Subscriber,
         s.buf = sub[q][p].buf \/ s.buf = <<>>,
         sub' = [sub EXCEPT ![q][p] = s], UNCHANGED <<log, hist, fs>>
  PROVE  LogsTyped' /\ Grows /\ SubsTyped' /\ BufferedExist'
<1>1. LogsTyped' /\ Grows
  BY QuietType DEF TypeInv, LogsTyped
<1>2. Buffered(s, p)
  BY DEF TypeInv, BufferedExist, Buffered
<1>3. QED
  BY <1>1, <1>2, SubChanged DEF TypeInv

\* The socket delivers, or drops, the next message.
LEMMA AdvancedType ==
  ASSUME NEW t \in Subscriber
  PROVE  LET s == [t EXCEPT !.next = @ + 1] IN
         /\ s \in Subscriber /\ s.buf = t.buf /\ s.buf \in Seq(Nat)
         /\ s.state = t.state /\ s.last = t.last /\ s.syncing = t.syncing
  BY DEF Subscriber

LEMMA ConnectType ==
  ASSUME TypeInv, NEW q \in Nodes, NEW p \in Nodes, Connect(q, p)
  PROVE  TypeInv' /\ Grows
<1> DEFINE s == [sub[q][p] EXCEPT !.next = NextId(p)]
<1>1. sub[q][p] \in Subscriber /\ NextId(p) \in Nat
  BY DEF TypeInv, SubsTyped, LogsTyped, NextId
<1>2. s \in Subscriber /\ s.buf = sub[q][p].buf
  BY <1>1 DEF Subscriber
<1>3. sub' = [sub EXCEPT ![q][p] = s]
  BY DEF Connect
<1> HIDE DEF s
<1>4. LogsTyped' /\ Grows /\ SubsTyped' /\ BufferedExist'
  BY <1>2, <1>3, SubscriberStepType DEF Connect
<1>5. QED
  BY <1>4 DEF Connect, TypeInv, OthersTyped, CountsTyped

LEMMA LoseType ==
  ASSUME TypeInv, NEW q \in Nodes, NEW p \in Nodes, Lose(q, p)
  PROVE  TypeInv' /\ Grows
<1> DEFINE s == [sub[q][p] EXCEPT !.next = @ + 1]
<1>1. sub[q][p] \in Subscriber
  BY DEF TypeInv, SubsTyped
<1>2. s \in Subscriber /\ s.buf = sub[q][p].buf
  BY <1>1, AdvancedType
<1>3. sub' = [sub EXCEPT ![q][p] = s]
  BY DEF Lose
<1>4. LogsTyped' /\ Grows /\ SubsTyped' /\ BufferedExist'
  <2> HIDE DEF s
  <2>1. QED
    BY <1>2, <1>3, SubscriberStepType DEF Lose
<1>5. QED
  BY <1>4 DEF Lose, TypeInv, OthersTyped, CountsTyped

LEMMA ReceiveType ==
  ASSUME TypeInv, NEW q \in Nodes, NEW p \in Nodes, Receive(q, p)
  PROVE  TypeInv' /\ Grows
<1> DEFINE s == [sub[q][p] EXCEPT !.next = @ + 1]
           id == sub[q][p].next
           b == [s EXCEPT !.buf = Append(@, id)]
<1>1. sub[q][p] \in Subscriber /\ id \in 1..Len(log[p]) /\ Len(log[p]) \in Nat
  BY DEF TypeInv, SubsTyped, LogsTyped, Receive, Deliverable
<1>2. s \in Subscriber /\ s.buf = sub[q][p].buf /\ s.buf \in Seq(Nat)
  BY <1>1, AdvancedType
<1>3. Buffered(s, p)
  BY <1>2 DEF TypeInv, BufferedExist, Buffered
<1>4. CASE /\ sub' = [sub EXCEPT ![q][p] = b]
           /\ UNCHANGED <<phase, join, removing, log, hist, fs, broken>>
           /\ UNCHANGED <<lost, crashed>>
  <2>1. LogsTyped' /\ Grows
    BY <1>4, QuietType DEF TypeInv, LogsTyped
  <2>2. Append(s.buf, id) \in Seq(Nat)
    BY <1>1, <1>2
  <2>3. b \in Subscriber /\ b.buf = Append(s.buf, id)
    <3> HIDE DEF s, id
    <3>1. QED
      BY <1>2, <2>2 DEF Subscriber
  <2>4. Buffered(b, p)
    <3> HIDE DEF s, id, b
    <3>1. QED
      BY <1>1, <1>2, <1>3, <2>3 DEF Buffered
  <2>5. SubsTyped' /\ BufferedExist'
    <3> HIDE DEF b
    <3>1. QED
      BY <1>4, <2>1, <2>3, <2>4, SubChanged DEF TypeInv
  <2>6. QED
    BY <1>4, <2>1, <2>5 DEF TypeInv, OthersTyped, CountsTyped
<1>5. CASE Process(q, p, id, s) /\ UNCHANGED <<lost, crashed>>
  <2> HIDE DEF s, id
  <2>1. LogsTyped' /\ Grows /\ SubsTyped' /\ OthersTyped' /\ BufferedExist'
    BY <1>1, <1>2, <1>3, <1>5, ProcessType
  <2>2. QED
    BY <1>5, <2>1 DEF TypeInv, CountsTyped
<1>6. QED
  BY <1>4, <1>5 DEF Receive

LEMMA CheckHeartbeatType ==
  ASSUME TypeInv, NEW q \in Nodes, NEW p \in Nodes, CheckHeartbeat(q, p)
  PROVE  TypeInv' /\ Grows
<1> DEFINE s == sub[q][p]
           sane == [s EXCEPT !.state = "SANE", !.heard = FALSE]
           missing == [s EXCEPT !.state = "MISSING_HEARTBEAT"]
           evicted == [s EXCEPT !.state = "EVICTED"]
<1>1. s \in Subscriber
  BY DEF TypeInv, SubsTyped
<1>2. /\ sane \in Subscriber /\ sane.buf = s.buf
      /\ missing \in Subscriber /\ missing.buf = s.buf
      /\ evicted \in Subscriber /\ evicted.buf = s.buf
  <2> HIDE DEF s
  <2>1. QED
    BY <1>1 DEF Subscriber, SubState
<1>3. /\ \/ sub' = [sub EXCEPT ![q][p] = sane]
         \/ sub' = [sub EXCEPT ![q][p] = missing]
         \/ sub' = [sub EXCEPT ![q][p] = evicted]
      /\ \/ UNCHANGED removing
         \/ BeginRemoval(q, [node |-> p, broadcast |-> TRUE, by |-> q])
      /\ UNCHANGED <<phase, log, hist, fs, join, lost, crashed, broken>>
  <2>1. /\ [sub EXCEPT ![q][p].state = "SANE", ![q][p].heard = FALSE]
             = [sub EXCEPT ![q][p] = sane]
    BY DEF TypeInv, SubsTyped
  <2>2. QED
    BY <2>1 DEF CheckHeartbeat
<1>4. removing' \in [Nodes -> SUBSET Removal]
  <2>1. [node |-> p, broadcast |-> TRUE, by |-> q] \in Removal
    BY DEF Removal
  <2>2. QED
    BY <1>3, <2>1, BeginRemovalType DEF TypeInv, OthersTyped
<1> HIDE DEF s, sane, missing, evicted
<1>5. LogsTyped' /\ Grows /\ SubsTyped' /\ BufferedExist'
  BY <1>2, <1>3, SubscriberStepType DEF s
<1>6. QED
  BY <1>3, <1>4, <1>5 DEF TypeInv, OthersTyped, CountsTyped

LEMMA GetFullStateType ==
  ASSUME TypeInv, NEW q \in Nodes, NEW d \in Nodes, GetFullState(q, d)
  PROVE  TypeInv' /\ Grows
<1> DEFINE known(p) == p = d \/ sub[d][p].state # "NONE"
           idOf(p) == IF p = d THEN Len(log[d]) ELSE sub[d][p].last
           ids == [p \in Nodes |-> IF known(p) THEN idOf(p) ELSE -1]
<1>1. CASE FailToStart(q)
  BY <1>1, FailToStartType
<1>2. CASE /\ phase' = [phase EXCEPT ![q] = "loaded"]
           /\ fs' = [fs EXCEPT ![q] = Load(@, fs[d])]
           /\ join' = [join EXCEPT !.ids = ids, !.hello = Len(log[q])]
           /\ broken' = [broken EXCEPT
                ![q] = @ \cup broken[d] \cup {p \in join.targets : ~known(p)}]
           /\ UNCHANGED <<log, hist, sub, removing, lost, crashed>>
  <2>1. Load(fs[q], fs[d]) \in State
    BY LoadEntries DEF TypeInv, LogsTyped
  <2>2. LogsTyped' /\ Grows
    BY <1>2, <2>1, QuietType DEF TypeInv, LogsTyped
  <2>3. SubsTyped' /\ BufferedExist'
    BY <1>2, <2>2, SubsKept DEF TypeInv
  <2>4. ids \in [Nodes -> Nat \cup {-1}] /\ Len(log[q]) \in Nat
    BY DEF TypeInv, LogsTyped, SubsTyped, Subscriber
  <2>5. join' \in JoinRecord
    <3> HIDE DEF ids
    <3>1. QED
      BY <1>2, <2>4 DEF TypeInv, OthersTyped, JoinRecord
  <2>6. phase' \in [Nodes -> Phase]
    BY <1>2 DEF TypeInv, OthersTyped, Phase
  <2>7. broken' \in [Nodes -> SUBSET Nodes]
    <3>1. {p \in join.targets : ~known(p)} \subseteq Nodes
      BY DEF TypeInv, OthersTyped, JoinRecord
    <3> HIDE DEF known
    <3>2. QED
      BY <1>2, <3>1 DEF TypeInv, OthersTyped
  <2>8. QED
    BY <1>2, <2>2, <2>3, <2>5, <2>6, <2>7 DEF TypeInv, OthersTyped, CountsTyped
<1>3. QED
  BY <1>1, <1>2 DEF GetFullState

LEMMA HandleHandshakeType ==
  ASSUME TypeInv, NEW p \in Nodes, NEW q \in Nodes, HandleHandshake(p, q)
  PROVE  TypeInv' /\ Grows
<1> DEFINE n == IF SlowLinks THEN 0 ELSE NextId(q)
           s == IF sub[p][q].state # "NONE" THEN sub[p][q]
                ELSE [SyncedSubscriber(join.hello) EXCEPT !.next = n]
<1>1. n \in Nat /\ join.hello \in Nat /\ sub[p][q] \in Subscriber
  BY DEF TypeInv, SubsTyped, LogsTyped, OthersTyped, JoinRecord, NextId
<1>2. s \in Subscriber /\ (s.buf = sub[p][q].buf \/ s.buf = <<>>)
  <2> DEFINE new == [SyncedSubscriber(join.hello) EXCEPT !.next = n]
  <2>1. new \in Subscriber /\ new.buf = <<>>
    <3> HIDE DEF n
    <3>1. QED
      BY <1>1, SyncedType
  <2>2. s = sub[p][q] \/ s = new
    OBVIOUS
  <2> HIDE DEF s, new
  <2>3. QED
    BY <1>1, <2>1, <2>2
<1>3. sub' = [sub EXCEPT ![p][q] = s]
  BY DEF HandleHandshake
<1>4. LogsTyped' /\ Grows /\ SubsTyped' /\ BufferedExist'
  <2>1. UNCHANGED <<log, hist, fs>>
    BY DEF HandleHandshake
  <2> HIDE DEF s
  <2>2. QED
    BY <1>2, <1>3, <2>1, SubscriberStepType
<1>5. PICK inTime \in BOOLEAN :
        join' = [join EXCEPT !.waiting = @ \ {p},
                             !.answer[p] = IF inTime THEN Len(log[p]) ELSE -1]
  BY DEF HandleHandshake
<1>6. join' \in JoinRecord
  <2>1. Len(log[p]) \in Nat
    BY DEF TypeInv, LogsTyped
  <2>2. QED
    BY <1>5, <2>1 DEF TypeInv, OthersTyped, JoinRecord
<1>7. QED
  BY <1>4, <1>6 DEF HandleHandshake, TypeInv, OthersTyped, CountsTyped

LEMMA HandshakeTimeoutType ==
  ASSUME TypeInv, NEW q \in Nodes, NEW p \in Nodes, HandshakeTimeout(q, p)
  PROVE  TypeInv' /\ Grows
<1>1. LogsTyped' /\ Grows
  BY QuietType DEF HandshakeTimeout, TypeInv, LogsTyped
<1>2. SubsTyped' /\ BufferedExist'
  BY <1>1, SubsKept DEF HandshakeTimeout, TypeInv
<1>3. join' \in JoinRecord
  BY DEF HandshakeTimeout, TypeInv, OthersTyped, JoinRecord
<1>4. QED
  BY <1>1, <1>2, <1>3 DEF HandshakeTimeout, TypeInv, OthersTyped, CountsTyped

LEMMA SettleType ==
  ASSUME TypeInv, NEW q \in Nodes, NEW p \in Nodes, Settle(q, p)
  PROVE  TypeInv' /\ Grows
<1> DEFINE s == sub[q][p]
           from == SyncFrom(p)
           synced == [s EXCEPT !.last = from, !.syncing = TRUE]
           settled == /\ join' = IF join.targets = {p} THEN NoJoin
                                 ELSE [join EXCEPT !.targets = @ \ {p}]
                      /\ phase' = [phase EXCEPT ![q] =
                                    IF join.targets = {p} THEN "joined" ELSE @]
                      /\ UNCHANGED <<log, hist, fs, removing, crashed, broken>>
<1>1. CASE FailToStart(q)
  BY <1>1, FailToStartType
<1>2. ASSUME settled, UNCHANGED lost
      PROVE  OthersTyped' /\ CountsTyped'
  <2>1. [join EXCEPT !.targets = @ \ {p}] \in JoinRecord
    BY DEF TypeInv, OthersTyped, JoinRecord
  <2>2. join' \in JoinRecord
    BY <1>2, <2>1, RecordTypes
  <2>3. phase' \in [Nodes -> Phase]
    BY <1>2 DEF TypeInv, OthersTyped, Phase
  <2>4. QED
    BY <1>2, <2>2, <2>3 DEF TypeInv, OthersTyped, CountsTyped
<1>3. CASE settled /\ UNCHANGED lost /\ sub' = [sub EXCEPT ![q][p] = NoSubscriber]
  BY <1>2, <1>3, RecordTypes, SubscriberStepType DEF TypeInv
<1>4. CASE /\ settled /\ UNCHANGED lost /\ join.answer[p] # -1
           /\ sub' = [sub EXCEPT ![q][p].last = from, ![q][p].syncing = TRUE]
  <2>1. from \in Nat
    BY <1>4 DEF SyncFrom, TypeInv, OthersTyped, JoinRecord
  <2>2. synced \in Subscriber /\ synced.buf = s.buf
    <3>1. s \in Subscriber
      BY DEF TypeInv, SubsTyped
    <3> HIDE DEF s, from
    <3>2. QED
      BY <2>1, <3>1 DEF Subscriber
  <2>3. sub' = [sub EXCEPT ![q][p] = synced]
    BY <1>4 DEF TypeInv, SubsTyped
  <2>4. LogsTyped' /\ Grows /\ SubsTyped' /\ BufferedExist'
    <3> HIDE DEF synced, from
    <3>1. QED
      BY <1>4, <2>2, <2>3, SubscriberStepType
  <2>5. QED
    BY <1>2, <1>4, <2>4 DEF TypeInv
<1>5. QED
  BY <1>1, <1>3, <1>4 DEF Settle

LEMMA SyncBufferedType ==
  ASSUME TypeInv, NEW q \in Nodes, NEW p \in Nodes, SyncBuffered(q, p)
  PROVE  TypeInv' /\ Grows
<1> DEFINE s == sub[q][p]
           t == [s EXCEPT !.buf = Tail(@)]
           done == [s EXCEPT !.state = "SANE", !.syncing = FALSE]
<1>1. s \in Subscriber /\ s.buf \in Seq(Nat) /\ Buffered(s, p)
  BY DEF TypeInv, SubsTyped, BufferedExist, Subscriber
<1>2. CASE /\ s.buf # <<>>
           /\ Process(q, p, Head(s.buf), t)
           /\ UNCHANGED <<lost, crashed>>
  <2>1. /\ Head(s.buf) = s.buf[1] /\ 1 \in 1..Len(s.buf)
        /\ Tail(s.buf) \in Seq(Nat) /\ Len(Tail(s.buf)) = Len(s.buf) - 1
        /\ \A i \in 1..Len(Tail(s.buf)) :
             i + 1 \in 1..Len(s.buf) /\ Tail(s.buf)[i] = s.buf[i + 1]
    BY <1>1, <1>2
  <2>2. t \in Subscriber /\ t.buf = Tail(s.buf)
    <3> HIDE DEF s
    <3>1. QED
      BY <1>1, <2>1 DEF Subscriber
  <2>3. Buffered(t, p) /\ Head(s.buf) \in 1..Len(log[p])
    <3> HIDE DEF s, t
    <3>1. QED
      BY <1>1, <2>1, <2>2 DEF Buffered
  <2>4. LogsTyped' /\ Grows /\ SubsTyped' /\ OthersTyped' /\ BufferedExist'
    <3> HIDE DEF s, t
    <3>1. QED
      BY <1>2, <2>2, <2>3, ProcessType
  <2>5. QED
    BY <1>2, <2>4 DEF TypeInv, CountsTyped
<1>3. CASE /\ s.buf = <<>>
           /\ sub' = [sub EXCEPT ![q][p].state = "SANE", ![q][p].syncing = FALSE]
           /\ UNCHANGED <<phase, log, hist, fs, removing, join, broken>>
           /\ UNCHANGED <<lost, crashed>>
  <2>1. done \in Subscriber /\ done.buf = s.buf
    <3> HIDE DEF s
    <3>1. QED
      BY <1>1 DEF Subscriber, SubState
  <2>2. sub' = [sub EXCEPT ![q][p] = done]
    BY <1>3 DEF TypeInv, SubsTyped
  <2>3. LogsTyped' /\ Grows /\ SubsTyped' /\ BufferedExist'
    <3> HIDE DEF done
    <3>1. QED
      BY <1>3, <2>1, <2>2, SubscriberStepType
  <2>4. QED
    BY <1>3, <2>3 DEF TypeInv, OthersTyped, CountsTyped
<1>4. QED
  BY <1>2, <1>3 DEF SyncBuffered

LEMMA NextType == TypeInv /\ [Next]_vars => TypeInv' /\ Grows
<1> SUFFICES ASSUME TypeInv, [Next]_vars PROVE TypeInv' /\ Grows
  OBVIOUS
<1>1. CASE UNCHANGED vars
  <2>1. LogsTyped' /\ Grows
    BY <1>1, QuietType DEF TypeInv, LogsTyped, vars
  <2>2. SubsTyped' /\ BufferedExist'
    BY <1>1, <2>1, SubsKept DEF TypeInv, vars
  <2>3. QED
    BY <1>1, <2>1, <2>2 DEF TypeInv, OthersTyped, CountsTyped, vars
<1>2. ASSUME NEW p \in Nodes, LocalStep(p)
      PROVE  TypeInv' /\ Grows
  <2>1. CASE \E r \in Rooms : OpenRoom(p, r) \/ Subscribe(p, r) \/ Unsubscribe(p, r)
                              \/ CloseRoom(p, r)
    BY <2>1, ClientsType
  <2>2. CASE Heartbeat(p)
    BY <2>2, HeartbeatType
  <2>3. CASE Shutdown(p)
    BY <2>3, StopActionType DEF Shutdown
  <2>4. CASE Crash(p)
    BY <2>4, FailToStartType DEF Crash
  <2>5. CASE FinishRemoval(p)
    BY <2>5, FinishRemovalType
  <2>6. CASE StartHandshake(p)
    BY <2>6, DiscoverType DEF StartHandshake
  <2>7. CASE RetryHandshake(p)
    BY <2>7, DiscoverType, StopActionType DEF RetryHandshake
  <2>8. QED
    BY <1>2, <2>1, <2>2, <2>3, <2>4, <2>5, <2>6, <2>7 DEF LocalStep
<1>3. ASSUME NEW q \in Nodes, NEW p \in Nodes, RemoteStep(q, p)
      PROVE  TypeInv' /\ Grows
  BY <1>3, ConnectType, ReceiveType, LoseType, CheckHeartbeatType, GetFullStateType,
     HandleHandshakeType, HandshakeTimeoutType, SettleType, SyncBufferedType
     DEF RemoteStep
<1>4. QED
  BY <1>1, <1>2, <1>3 DEF Next

\* TypeInv, which adds to the types that every buffered id is that of a message.
THEOREM TypesCorrect == Spec => []TypeInv
  BY InitType, NextType, PTL DEF Spec

\* Type correctness of the cluster, for any nodes, rooms, network and bounds.
THEOREM TypeCorrect == Spec => []TypeOK
  BY TypesCorrect, TypeInvIsTypeOK, PTL
-----------------------------------------------------------------------------
(***************************************************************************)
(* The exactness of the views.  The invariant follows a node from its      *)
(* start to the state where it follows the others.                         *)
(***************************************************************************)
NoEntries == [r \in Rooms |-> NoEntry]

\* The own entries of a node after its k-th message, from its history.
After(h, k) == IF k = 0 THEN NoEntries ELSE h[k]

\* What a message does to its sender's own entries.
Stepped(own, m, id) ==
  CASE m.type = "NewRealtimeRoom" /\ own[m.room] = NoEntry ->
         [own EXCEPT ![m.room] = [subs |-> 0, mid |-> id]]
    [] m.type = "Subscription" /\ own[m.room] # NoEntry ->
         [own EXCEPT ![m.room] = Bump(own[m.room], 1, id)]
    [] m.type = "Unsubscription" /\ own[m.room] # NoEntry ->
         [own EXCEPT ![m.room] = Bump(own[m.room], -1, id)]
    [] m.type = "RemoveRealtimeRoom" -> [own EXCEPT ![m.room] = NoEntry]
    [] OTHER -> own

\* The log of a node explains how its own entries came to be what they are.
LogInv ==
  \A p \in Nodes :
    /\ \A k \in 1..Len(log[p]) :
         After(hist[p], k) = Stepped(After(hist[p], k - 1), log[p][k], k)
    /\ EntriesOf(fs[p], p) = After(hist[p], Len(log[p]))

\* A node whose handshake is not over has no rooms and said nothing of rooms.
Fresh == {"off", "buffering", "loaded"}

NewcomerInv ==
  \A p \in Nodes : phase[p] \in Fresh =>
    /\ \A q \in Nodes : EntriesOf(fs[q], p) = NoEntries
    /\ \A k \in 1..Len(log[p]) : log[p][k].type \notin RoomMessages
    /\ \A k \in 0..Len(log[p]) : After(hist[p], k) = NoEntries

\* A node knows of no room before it has loaded a full state.
EmptyInv ==
  \A q, p \in Nodes :
    phase[q] \in {"off", "buffering"} /\ q # p => EntriesOf(fs[q], p) = NoEntries

Unsettled(q, p) == Joining(q) /\ p \in join.targets

\* A node has no subscriber to itself, nor synchronises one it does not have, and
\* its handshake leaves subscribers alone until it settles them.
PairSane(q, p) ==
  /\ q = p => sub[q][p].state = "NONE"
  /\ sub[q][p].state = "NONE" => ~sub[q][p].syncing
  /\ Unsettled(q, p) /\ sub[q][p].state # "NONE" =>
       sub[q][p].state = "BUFFERING" /\ ~sub[q][p].syncing
  /\ phase[q] = "buffering" /\ sub[q][p].state # "NONE" => p \in join.targets

NodeSane(q) ==
  /\ Joining(q) => phase[q] \in {"buffering", "loaded"} /\ join.hello <= Len(log[q])
  /\ phase[q] = "buffering" => Joining(q)
  /\ \A removal \in removing[q] : removal.node # q

\* The message of p that q's view of p corresponds to: the one its full state came
\* with, as long as q has not settled its subscriber.
Position(q, p) == IF Unsettled(q, p) THEN join.ids[p] ELSE sub[q][p].last

PairExact(q, p) ==
  /\ phase[q] \in {"loaded", "joined"}
  /\ sub[q][p].state # "NONE"
  /\ p \notin broken[q]
  => /\ Position(q, p) \in 0..Len(log[p])
     /\ EntriesOf(fs[q], p) = After(hist[p], Position(q, p))

SyncInv ==
  /\ LogInv
  /\ NewcomerInv
  /\ EmptyInv
  /\ \A q \in Nodes : NodeSane(q)
  /\ \A q, p \in Nodes : PairSane(q, p)
  /\ \A q, p \in Nodes : PairExact(q, p)

\* What any step does to the log and the own entries of a node: nothing, or one
\* message and what it says.
Silent(x) ==
  log'[x] = log[x] /\ hist'[x] = hist[x] /\ EntriesOf(fs'[x], x) = EntriesOf(fs[x], x)

Says(x, m) ==
  /\ log'[x] = Append(log[x], m)
  /\ hist'[x] = Append(hist[x], EntriesOf(fs'[x], x))
  /\ EntriesOf(fs'[x], x) = Stepped(EntriesOf(fs[x], x), m, Len(log[x]) + 1)
  /\ m.type \in RoomMessages => phase[x] = "joined"

LogStep == \A x \in Nodes : Silent(x) \/ \E m \in Message : Says(x, m)
-----------------------------------------------------------------------------
\* The same message does the same to the sender's entries in any full state, and
\* nothing to those of the other nodes.
LEMMA AppliedEntries ==
  ASSUME NEW st \in State, NEW p \in Nodes, NEW m \in Message, NEW id \in Nat
  PROVE  /\ EntriesOf(Applied(st, p, m, id), p) = Stepped(EntriesOf(st, p), m, id)
         /\ \A n \in Nodes \ {p} :
              EntriesOf(Applied(st, p, m, id), n) = EntriesOf(st, n)
<1> DEFINE r == m.room
           own == EntriesOf(st, p)
<1>0. r \in Rooms => own[r] = st[r][p]
  BY DEF EntriesOf
<1>1. CASE m.type = "NewRealtimeRoom" /\ CanAddRoom(st, r, p)
  <2>1. r \in Rooms /\ [subs |-> 0, mid |-> id] \in Entry
    BY <1>1, MessageParts, NewEntry DEF RoomMessages
  <2>2. Applied(st, p, m, id) = AddRoom(st, r, p, [subs |-> 0, mid |-> id])
    BY <1>1 DEF Applied
  <2>3. Stepped(own, m, id) = [own EXCEPT ![r] = [subs |-> 0, mid |-> id]]
    BY <1>0, <1>1, <2>1 DEF Stepped, CanAddRoom
  <2>4. \A q \in Rooms, n \in Nodes :
          Applied(st, p, m, id)[q][n] =
            IF q = r /\ n = p THEN [subs |-> 0, mid |-> id] ELSE st[q][n]
    BY <2>1, <2>2, AddRoomEntries
  <2>5. QED
    BY <2>1, <2>3, <2>4 DEF EntriesOf
<1>2. CASE m.type = "Subscription" /\ Known(st, r, p)
  <2>1. r \in Rooms
    BY <1>2, MessageParts DEF RoomMessages
  <2>2. Applied(st, p, m, id) = AddSubscription(st, r, p, id)
    BY <1>2 DEF Applied
  <2>3. Stepped(own, m, id) = [own EXCEPT ![r] = Bump(st[r][p], 1, id)]
    BY <1>0, <1>2, <2>1 DEF Stepped, Known
  <2>4. QED
    BY <1>2, <2>1, <2>2, <2>3, SubscriptionEntries DEF EntriesOf
<1>3. CASE m.type = "Unsubscription" /\ Known(st, r, p)
  <2>1. r \in Rooms
    BY <1>3, MessageParts DEF RoomMessages
  <2>2. Applied(st, p, m, id) = RemoveSubscription(st, r, p, id)
    BY <1>3 DEF Applied
  <2>3. Stepped(own, m, id) = [own EXCEPT ![r] = Bump(st[r][p], -1, id)]
    BY <1>0, <1>3, <2>1 DEF Stepped, Known
  <2>4. QED
    BY <1>3, <2>1, <2>2, <2>3, SubscriptionEntries, SMTT(20) DEF EntriesOf
<1>4. CASE m.type = "RemoveRealtimeRoom"
  <2>1. r \in Rooms
    BY <1>4, MessageParts DEF RoomMessages
  <2>2. Applied(st, p, m, id) = RemoveRoom(st, r, p)
    BY <1>4 DEF Applied
  <2>3. Stepped(own, m, id) = [own EXCEPT ![r] = NoEntry]
    BY <1>4 DEF Stepped
  <2>4. \A q \in Rooms, n \in Nodes :
          Applied(st, p, m, id)[q][n] =
            IF q = r /\ n = p THEN NoEntry ELSE st[q][n]
    BY <2>1, <2>2, RemoveRoomEntries
  <2>5. QED
    BY <2>1, <2>3, <2>4 DEF EntriesOf
<1>5. CASE /\ ~(m.type = "NewRealtimeRoom" /\ CanAddRoom(st, r, p))
           /\ ~(m.type = "Subscription" /\ Known(st, r, p))
           /\ ~(m.type = "Unsubscription" /\ Known(st, r, p))
           /\ m.type # "RemoveRealtimeRoom"
  <2>1. Applied(st, p, m, id) = st
    BY <1>5 DEF Applied
  <2>2. m.type \in {"NewRealtimeRoom", "Subscription", "Unsubscription"} =>
          r \in Rooms
    BY MessageParts DEF RoomMessages
  <2>3. Stepped(own, m, id) = own
    BY <1>0, <1>5, <2>2 DEF Stepped, CanAddRoom, Known
  <2>4. QED
    BY <2>1, <2>3
<1>6. QED
  BY <1>1, <1>2, <1>3, <1>4, <1>5

LEMMA QuietMessage ==
  ASSUME NEW own, NEW m, m.type \notin RoomMessages, NEW id
  PROVE  Stepped(own, m, id) = own
  BY DEF Stepped, RoomMessages

LEMMA OwnKept ==
  ASSUME TypeInv, Grows, NEW x \in Nodes, NEW k \in 0..Len(log[x])
  PROVE  After(hist'[x], k) = After(hist[x], k)
  BY DEF After, Grows, TypeInv, LogsTyped

LEMMA LogStepInv ==
  ASSUME TypeInv, LogInv, LogStep, Grows
  PROVE  LogInv'
<1> SUFFICES ASSUME NEW p \in Nodes
             PROVE  /\ \A k \in 1..Len(log'[p]) :
                         After(hist'[p], k) =
                           Stepped(After(hist'[p], k - 1), log'[p][k], k)
                    /\ EntriesOf(fs'[p], p) = After(hist'[p], Len(log'[p]))
  BY DEF LogInv
<1>0. /\ log[p] \in Seq(Message) /\ hist[p] \in Seq(OwnView)
      /\ Len(hist[p]) = Len(log[p]) /\ Len(log[p]) \in Nat
  BY DEF TypeInv, LogsTyped
<1>1. /\ \A k \in 1..Len(log[p]) :
           After(hist[p], k) = Stepped(After(hist[p], k - 1), log[p][k], k)
      /\ EntriesOf(fs[p], p) = After(hist[p], Len(log[p]))
  BY DEF LogInv
<1>2. \A k \in 1..Len(log[p]) :
        After(hist'[p], k) = Stepped(After(hist'[p], k - 1), log'[p][k], k)
  <2>1. ASSUME NEW k \in 1..Len(log[p])
        PROVE  After(hist'[p], k) = Stepped(After(hist'[p], k - 1), log'[p][k], k)
    <3>1. k \in 0..Len(log[p]) /\ k - 1 \in 0..Len(log[p])
      BY <1>0
    <3>2. After(hist'[p], k) = After(hist[p], k)
      BY <3>1, OwnKept
    <3>3. After(hist'[p], k - 1) = After(hist[p], k - 1)
      BY <3>1, OwnKept
    <3>4. log'[p][k] = log[p][k]
      BY DEF Grows
    <3>5. QED
      BY <1>1, <3>2, <3>3, <3>4
  <2>2. QED
    BY <2>1
<1>3. After(hist'[p], Len(log[p])) = After(hist[p], Len(log[p]))
  <2>1. Len(log[p]) \in 0..Len(log[p])
    BY <1>0
  <2>2. QED
    BY <2>1, OwnKept
<1>4. CASE Silent(p)
  BY <1>1, <1>2, <1>3, <1>4 DEF Silent
<1>5. ASSUME NEW m \in Message, Says(p, m)
      PROVE  /\ \A k \in 1..Len(log'[p]) :
                  After(hist'[p], k) =
                    Stepped(After(hist'[p], k - 1), log'[p][k], k)
             /\ EntriesOf(fs'[p], p) = After(hist'[p], Len(log'[p]))
  <2> DEFINE n == Len(log[p]) + 1
  <2>1. /\ Len(log'[p]) = n /\ log'[p][n] = m /\ n \in Nat /\ n # 0 /\ n - 1 = Len(log[p])
        /\ hist'[p][n] = EntriesOf(fs'[p], p)
    BY <1>0, <1>5 DEF Says
  <2>2. After(hist'[p], n) = EntriesOf(fs'[p], p)
    BY <2>1 DEF After
  <2>3. After(hist'[p], n) = Stepped(After(hist'[p], n - 1), log'[p][n], n)
    BY <1>1, <1>3, <1>5, <2>1, <2>2 DEF Says
  <2>4. \A k \in 1..n : k = n \/ k \in 1..Len(log[p])
    BY <1>0
  <2>5. QED
    BY <1>2, <2>1, <2>2, <2>3, <2>4
<1>6. QED
  BY <1>4, <1>5 DEF LogStep

\* A newcomer's own entries.
LEMMA NewcomerSilent ==
  ASSUME LogStep, NewcomerInv, NEW p \in Nodes, phase[p] \in Fresh
  PROVE  EntriesOf(fs'[p], p) = NoEntries
<1>1. EntriesOf(fs[p], p) = NoEntries
  BY DEF NewcomerInv
<1>2. ASSUME NEW m \in Message, Says(p, m) PROVE EntriesOf(fs'[p], p) = NoEntries
  <2>1. m.type \notin RoomMessages
    BY <1>2 DEF Says, Fresh
  <2>2. QED
    BY <1>1, <1>2, <2>1, QuietMessage DEF Says
<1>3. QED
  BY <1>1, <1>2 DEF LogStep, Silent

LEMMA NewcomerStep ==
  ASSUME TypeInv, NewcomerInv, LogStep, Grows,
         \A p \in Nodes : phase'[p] \in Fresh => phase[p] \in Fresh,
         \A q, p \in Nodes : phase[p] \in Fresh /\ q # p =>
           EntriesOf(fs'[q], p) = NoEntries
  PROVE  NewcomerInv'
<1> SUFFICES ASSUME NEW p \in Nodes, phase'[p] \in Fresh
             PROVE  /\ \A q \in Nodes : EntriesOf(fs'[q], p) = NoEntries
                    /\ \A k \in 1..Len(log'[p]) : log'[p][k].type \notin RoomMessages
                    /\ \A k \in 0..Len(log'[p]) : After(hist'[p], k) = NoEntries
  BY DEF NewcomerInv
<1>0. /\ log[p] \in Seq(Message) /\ hist[p] \in Seq(OwnView)
      /\ Len(hist[p]) = Len(log[p]) /\ Len(log[p]) \in Nat
  BY DEF TypeInv, LogsTyped
<1>1. phase[p] \in Fresh
  OBVIOUS
<1>2. EntriesOf(fs'[p], p) = NoEntries
  BY <1>1, NewcomerSilent
<1>3. \A k \in 0..Len(log[p]) : After(hist'[p], k) = NoEntries
  BY <1>1, OwnKept DEF NewcomerInv
<1>4. \A k \in 1..Len(log[p]) : log'[p][k].type \notin RoomMessages
  BY <1>1 DEF NewcomerInv, Grows
<1>5. CASE Silent(p)
  BY <1>1, <1>2, <1>3, <1>4, <1>5 DEF Silent
<1>6. ASSUME NEW m \in Message, Says(p, m)
      PROVE  /\ \A k \in 1..Len(log'[p]) : log'[p][k].type \notin RoomMessages
             /\ \A k \in 0..Len(log'[p]) : After(hist'[p], k) = NoEntries
  <2> DEFINE n == Len(log[p]) + 1
  <2>1. /\ Len(log'[p]) = n /\ log'[p][n] = m /\ n \in Nat /\ n # 0
        /\ hist'[p][n] = EntriesOf(fs'[p], p)
    BY <1>0, <1>6 DEF Says
  <2>2. After(hist'[p], n) = NoEntries
    BY <1>2, <2>1 DEF After
  <2>3. m.type \notin RoomMessages
    BY <1>1, <1>6 DEF Says, Fresh
  <2>4. /\ \A k \in 1..n : k = n \/ k \in 1..Len(log[p])
        /\ \A k \in 0..n : k = n \/ k \in 0..Len(log[p])
    BY <1>0
  <2>5. QED
    BY <1>3, <1>4, <2>1, <2>2, <2>3, <2>4
<1>7. QED
  BY <1>1, <1>2, <1>5, <1>6 DEF LogStep
-----------------------------------------------------------------------------
\* A view that does not move stays exact while the sender goes on.
LEMMA PairKept ==
  ASSUME TypeInv, LogsTyped', Grows, NEW q \in Nodes, NEW p \in Nodes,
         PairExact(q, p),
         phase'[q] \in {"loaded", "joined"} => phase[q] \in {"loaded", "joined"},
         sub'[q][p].state # "NONE" => sub[q][p].state # "NONE",
         broken[q] \subseteq broken'[q],
         phase'[q] # "down" => Position(q, p)' = Position(q, p),
         EntriesOf(fs'[q], p) = EntriesOf(fs[q], p)
  PROVE  PairExact(q, p)'
<1> SUFFICES ASSUME phase'[q] \in {"loaded", "joined"}, sub'[q][p].state # "NONE",
                    p \notin broken'[q]
             PROVE  /\ Position(q, p)' \in 0..Len(log'[p])
                    /\ EntriesOf(fs'[q], p) = After(hist'[p], Position(q, p)')
  BY DEF PairExact
<1>1. /\ Position(q, p) \in 0..Len(log[p])
      /\ EntriesOf(fs[q], p) = After(hist[p], Position(q, p))
  BY DEF PairExact
<1>2. Position(q, p)' = Position(q, p)
  OBVIOUS
<1>3. /\ Len(log[p]) \in Nat /\ Len(log'[p]) \in Nat /\ Len(log[p]) <= Len(log'[p])
  BY DEF TypeInv, LogsTyped, Grows
<1>4. After(hist'[p], Position(q, p)) = After(hist[p], Position(q, p))
  BY <1>1, OwnKept
<1>5. QED
  BY <1>1, <1>2, <1>3, <1>4

\* A step of one subscriber: whatever q does on a message of p, a timer or an
\* internal step of its subscriber to p.
LEMMA OneSubscriberStep ==
  ASSUME TypeInv, LogsTyped', Grows, SyncInv, LogStep,
         NEW q \in Nodes, NEW p \in Nodes, NEW s \in Subscriber,
         sub[q][p].state # "NONE", s.state # "NONE",
         sub' = [sub EXCEPT ![q][p] = s],
         UNCHANGED <<phase, join>>,
         \A x \in Nodes : \A removal \in removing'[x] : removal.node # x,
         \A x \in Nodes : broken[x] \subseteq broken'[x],
         \A x, y \in Nodes : x # y /\ ~(x = q /\ y = p) =>
           EntriesOf(fs'[x], y) = EntriesOf(fs[x], y),
         phase[p] \in Fresh \/ phase[q] \in {"off", "buffering"} =>
           EntriesOf(fs'[q], p) = EntriesOf(fs[q], p),
         Unsettled(q, p) => s.state = "BUFFERING" /\ ~s.syncing,
         PairExact(q, p)'
  PROVE  SyncInv'
<1>1. LogInv'
  BY LogStepInv DEF SyncInv
<1>2. NewcomerInv'
  <2>1. ASSUME NEW x \in Nodes, NEW y \in Nodes, phase[y] \in Fresh, x # y
        PROVE  EntriesOf(fs'[x], y) = NoEntries
    <3>1. EntriesOf(fs[x], y) = NoEntries
      BY <2>1 DEF SyncInv, NewcomerInv
    <3>2. EntriesOf(fs'[x], y) = EntriesOf(fs[x], y)
      BY <2>1
    <3>3. QED
      BY <3>1, <3>2
  <2>2. NewcomerInv /\ phase' = phase
    BY DEF SyncInv
  <2>3. QED
    BY <2>1, <2>2, NewcomerStep
<1>3. EmptyInv'
  BY DEF SyncInv, EmptyInv
<1>4. ASSUME NEW x \in Nodes PROVE NodeSane(x)'
  <2>1. NodeSane(x)
    BY DEF SyncInv
  <2>2. Len(log[x]) <= Len(log'[x])
    BY DEF Grows
  <2>3. Len(log[x]) \in Nat /\ Len(log'[x]) \in Nat /\ join.hello \in Nat
    BY DEF TypeInv, LogsTyped, OthersTyped, JoinRecord
  <2>4. QED
    BY <2>1, <2>2, <2>3 DEF NodeSane, Joining
<1>5. ASSUME NEW x \in Nodes, NEW y \in Nodes PROVE PairSane(x, y)'
  <2>1. PairSane(x, y) /\ PairSane(q, p)
    BY DEF SyncInv
  <2>2. CASE x = q /\ y = p
    <3>1. sub'[x][y] = s
      BY <2>2 DEF TypeInv, SubsTyped
    <3>2. QED
      BY <2>1, <2>2, <3>1 DEF PairSane, Unsettled, Joining
  <2>3. CASE ~(x = q /\ y = p)
    <3>1. sub'[x][y] = sub[x][y]
      BY <2>3 DEF TypeInv, SubsTyped
    <3>2. QED
      BY <2>1, <3>1 DEF PairSane, Unsettled, Joining
  <2>4. QED
    BY <2>2, <2>3
<1>6. ASSUME NEW x \in Nodes, NEW y \in Nodes PROVE PairExact(x, y)'
  <2>1. CASE x = q /\ y = p
    BY <2>1
  <2>2. CASE ~(x = q /\ y = p)
    <3>1. sub'[x][y] = sub[x][y]
      BY <2>2 DEF TypeInv, SubsTyped
    <3>2. PairExact(x, y) /\ PairSane(x, y)
      BY DEF SyncInv
    <3>3. CASE x = y
      BY <3>1, <3>2, <3>3 DEF PairExact, PairSane
    <3>4. CASE x # y
      <4>1. EntriesOf(fs'[x], y) = EntriesOf(fs[x], y)
        BY <2>2, <3>4
      <4>2. Position(x, y)' = Position(x, y)
        BY <3>1 DEF Position, Unsettled, Joining
      <4>3. QED
        BY <3>1, <3>2, <4>1, <4>2, PairKept
    <3>5. QED
      BY <3>3, <3>4
  <2>3. QED
    BY <2>1, <2>2
<1>7. QED
  BY <1>1, <1>2, <1>3, <1>4, <1>5, <1>6 DEF SyncInv

\* A step that publishes and changes the sender's own entries only.
LEMMA OwnStep ==
  ASSUME TypeInv, LogsTyped', Grows, SyncInv, LogStep,
         UNCHANGED <<phase, sub, join, removing, broken>>,
         \A x, y \in Nodes : x # y => EntriesOf(fs'[x], y) = EntriesOf(fs[x], y)
  PROVE  SyncInv'
<1>1. LogInv'
  BY LogStepInv DEF SyncInv
<1>2. NewcomerInv'
  <2>1. ASSUME NEW x \in Nodes, NEW y \in Nodes, phase[y] \in Fresh, x # y
        PROVE  EntriesOf(fs'[x], y) = NoEntries
    BY <2>1 DEF SyncInv, NewcomerInv
  <2>2. NewcomerInv
    BY DEF SyncInv
  <2>3. QED
    BY <2>1, <2>2, NewcomerStep
<1>3. EmptyInv'
  BY DEF SyncInv, EmptyInv
<1>4. ASSUME NEW x \in Nodes PROVE NodeSane(x)'
  <2>1. NodeSane(x) /\ Len(log[x]) <= Len(log'[x])
    BY DEF SyncInv, Grows
  <2>2. Len(log[x]) \in Nat /\ Len(log'[x]) \in Nat /\ join.hello \in Nat
    BY DEF TypeInv, LogsTyped, OthersTyped, JoinRecord
  <2>3. QED
    BY <2>1, <2>2 DEF NodeSane, Joining
<1>5. ASSUME NEW x \in Nodes, NEW y \in Nodes PROVE PairSane(x, y)'
  <2>1. PairSane(x, y)
    BY DEF SyncInv
  <2>2. QED
    BY <2>1 DEF PairSane, Unsettled, Joining
<1>6. ASSUME NEW x \in Nodes, NEW y \in Nodes PROVE PairExact(x, y)'
  <2>1. PairExact(x, y) /\ PairSane(x, y)
    BY DEF SyncInv
  <2>2. CASE x = y
    BY <2>1, <2>2 DEF PairExact, PairSane
  <2>3. CASE x # y
    <3>1. Position(x, y)' = Position(x, y)
      BY DEF Position, Unsettled, Joining
    <3>2. QED
      BY <2>1, <2>3, <3>1, PairKept
  <2>4. QED
    BY <2>2, <2>3
<1>7. QED
  BY <1>1, <1>2, <1>3, <1>4, <1>5, <1>6 DEF SyncInv

\* The end of a process.
LEMMA GoneStep ==
  ASSUME TypeInv, LogsTyped', Grows, SyncInv, LogStep, NEW q \in Nodes, Gone(q),
         UNCHANGED <<fs, broken>>
  PROVE  SyncInv'
<1>0. /\ phase' = [phase EXCEPT ![q] = "down"]
      /\ sub' = [sub EXCEPT ![q] = [p \in Nodes |-> NoSubscriber]]
      /\ removing' = [removing EXCEPT ![q] = {}]
      /\ join' = IF Joining(q) THEN NoJoin ELSE join
  BY DEF Gone
<1>1. LogInv'
  BY LogStepInv DEF SyncInv
<1>2. \A x \in Nodes : phase'[x] = IF x = q THEN "down" ELSE phase[x]
  BY <1>0 DEF TypeInv, OthersTyped
<1>3. NewcomerInv'
  <2>1. ASSUME NEW x \in Nodes, NEW y \in Nodes, phase[y] \in Fresh, x # y
        PROVE  EntriesOf(fs'[x], y) = NoEntries
    BY <2>1 DEF SyncInv, NewcomerInv
  <2>2. \A x \in Nodes : phase'[x] \in Fresh => phase[x] \in Fresh
    BY <1>2 DEF Fresh
  <2>3. NewcomerInv
    BY DEF SyncInv
  <2>4. QED
    BY <2>1, <2>2, <2>3, NewcomerStep
<1>4. EmptyInv'
  BY <1>2 DEF SyncInv, EmptyInv
<1>5. \A x \in Nodes : /\ x # q => Joining(x)' = Joining(x)
                       /\ Joining(x)' => x # q /\ Joining(x) /\ join' = join
  BY <1>0 DEF Joining, NoJoin
<1>6. ASSUME NEW x \in Nodes PROVE NodeSane(x)'
  <2>1. NodeSane(x) /\ Len(log[x]) <= Len(log'[x])
    BY DEF SyncInv, Grows
  <2>2. Len(log[x]) \in Nat /\ Len(log'[x]) \in Nat /\ join.hello \in Nat
    BY DEF TypeInv, LogsTyped, OthersTyped, JoinRecord
  <2>3. removing'[x] \subseteq removing[x]
    BY <1>0 DEF TypeInv, OthersTyped
  <2>4. QED
    BY <1>2, <1>5, <2>1, <2>2, <2>3 DEF NodeSane
<1>7. \A x, y \in Nodes : sub'[x][y] = IF x = q THEN NoSubscriber ELSE sub[x][y]
  BY <1>0 DEF TypeInv, SubsTyped
<1>8. NoSubscriber.state = "NONE" /\ ~NoSubscriber.syncing
  BY DEF NoSubscriber
<1>9. ASSUME NEW x \in Nodes, NEW y \in Nodes PROVE PairSane(x, y)'
  <2>1. PairSane(x, y)
    BY DEF SyncInv
  <2>2. CASE x = q
    BY <1>7, <1>8, <2>2 DEF PairSane
  <2>3. CASE x # q
    <3>1. sub'[x][y] = sub[x][y] /\ phase'[x] = phase[x]
      BY <1>2, <1>7, <2>3
    <3>2. phase[x] = "buffering" => Joining(x)
      BY DEF SyncInv, NodeSane
    <3>3. Unsettled(x, y)' => Unsettled(x, y)
      BY <1>5 DEF Unsettled
    <3>4. phase[x] = "buffering" => join' = join
      BY <1>5, <2>3, <3>2
    <3>5. QED
      BY <2>1, <3>1, <3>3, <3>4 DEF PairSane
  <2>4. QED
    BY <2>2, <2>3
<1>10. ASSUME NEW x \in Nodes, NEW y \in Nodes PROVE PairExact(x, y)'
  <2>1. CASE x = q
    BY <1>2, <2>1 DEF PairExact
  <2>2. CASE x # q
    <3>1. Unsettled(x, y)' = Unsettled(x, y) /\ (Unsettled(x, y) => join' = join)
      BY <1>5, <2>2 DEF Unsettled
    <3>2. Position(x, y)' = Position(x, y)
      BY <1>7, <2>2, <3>1 DEF Position
    <3>3. PairExact(x, y)
      BY DEF SyncInv
    <3>4. QED
      BY <1>2, <1>7, <2>2, <3>2, <3>3, PairKept
  <2>3. QED
    BY <2>1, <2>2
<1>11. QED
  BY <1>1, <1>3, <1>4, <1>6, <1>9, <1>10 DEF SyncInv
-----------------------------------------------------------------------------
LEMMA SilentStep ==
  ASSUME UNCHANGED <<log, hist>>,
         \A x \in Nodes : EntriesOf(fs'[x], x) = EntriesOf(fs[x], x)
  PROVE  LogStep
  BY DEF LogStep, Silent

LEMMA SaysStep ==
  ASSUME LogsTyped, NEW p \in Nodes, NEW m \in Message, NEW st \in State,
         Publish(p, m, st),
         EntriesOf(st, p) = Stepped(EntriesOf(fs[p], p), m, Len(log[p]) + 1),
         m.type \in RoomMessages => phase[p] = "joined"
  PROVE  LogStep
<1>1. /\ log'[p] = Append(log[p], m)
      /\ hist'[p] = Append(hist[p], EntriesOf(st, p))
      /\ fs'[p] = st
  BY DEF Publish, LogsTyped
<1>2. Says(p, m)
  BY <1>1 DEF Says
<1>3. \A x \in Nodes : x # p => Silent(x)
  BY DEF Publish, LogsTyped, Silent
<1>4. QED
  BY <1>2, <1>3 DEF LogStep

LEMMA EmptyEntries == \A p \in Nodes : EntriesOf(EmptyState, p) = NoEntries
  BY DEF EntriesOf, EmptyState, NoEntries

LEMMA InitSync == Init => SyncInv
<1> SUFFICES ASSUME Init PROVE SyncInv
  OBVIOUS
<1>1. \A p \in Nodes : /\ log[p] = <<>> /\ hist[p] = <<>> /\ fs[p] = EmptyState
                       /\ Len(log[p]) = 0
                       /\ phase[p] = IF p \in Seeds THEN "joined" ELSE "off"
                       /\ removing[p] = {} /\ ~Joining(p)
  BY DEF Init, Joining, NoJoin
<1>2. \A h : After(h, 0) = NoEntries
  BY DEF After
<1>3. LogInv
  BY <1>1, <1>2, EmptyEntries DEF LogInv
<1>4. NewcomerInv /\ EmptyInv
  BY <1>1, <1>2, EmptyEntries DEF NewcomerInv, EmptyInv
<1>5. \A q \in Nodes : NodeSane(q)
  BY <1>1 DEF NodeSane
<1>6. /\ NoSubscriber.state = "NONE" /\ ~NoSubscriber.syncing
      /\ [SyncedSubscriber(0) EXCEPT !.next = 1].last = 0
      /\ [SyncedSubscriber(0) EXCEPT !.next = 1].state = "SANE"
  <2>1. 0 \in Nat /\ 1 \in Nat
    OBVIOUS
  <2>2. QED
    BY <2>1, SyncedType DEF NoSubscriber
<1>7. \A q, p \in Nodes :
        sub[q][p] = IF q \in Seeds /\ p \in Seeds \ {q}
                    THEN [SyncedSubscriber(0) EXCEPT !.next = 1] ELSE NoSubscriber
  BY DEF Init
<1>8. ASSUME NEW q \in Nodes, NEW p \in Nodes PROVE PairSane(q, p) /\ PairExact(q, p)
  <2>1. phase[q] # "buffering" /\ ~Unsettled(q, p)
    BY <1>1 DEF Unsettled
  <2>2. CASE q \in Seeds /\ p \in Seeds \ {q}
    <3>1. sub[q][p] = [SyncedSubscriber(0) EXCEPT !.next = 1]
      BY <1>7, <2>2
    <3>2. q # p /\ sub[q][p].state = "SANE" /\ sub[q][p].last = 0
      BY <1>6, <2>2, <3>1
    <3>3. PairSane(q, p)
      BY <2>1, <3>2 DEF PairSane
    <3>4. Position(q, p) = 0 /\ Len(log[p]) = 0
      BY <1>1, <2>1, <3>2 DEF Position
    <3>5. EntriesOf(fs[q], p) = After(hist[p], 0)
      BY <1>1, <1>2, EmptyEntries
    <3>6. QED
      BY <3>3, <3>4, <3>5 DEF PairExact
  <2>3. CASE ~(q \in Seeds /\ p \in Seeds \ {q})
    <3>1. sub[q][p] = NoSubscriber
      BY <1>7, <2>3
    <3>2. QED
      BY <1>6, <2>1, <3>1 DEF PairSane, PairExact
  <2>4. QED
    BY <2>2, <2>3
<1>9. QED
  BY <1>3, <1>4, <1>5, <1>8 DEF SyncInv

\* A client of p changes its rooms: p does to its own entries what the others do
\* when they receive the message.
LEMMA ClientSync ==
  ASSUME TypeInv, SyncInv, NEW p \in Nodes, NEW m \in Message, phase[p] = "joined",
         Publish(p, m, Applied(fs[p], p, m, NextId(p))),
         UNCHANGED <<phase, sub, removing, join, broken>>
  PROVE  SyncInv'
<1> DEFINE st == Applied(fs[p], p, m, NextId(p))
<1>1. fs[p] \in State /\ NextId(p) \in Nat /\ LogsTyped
  BY DEF TypeInv, LogsTyped, NextId
<1>2. st \in State
  BY <1>1, AppliedType
<1>3. /\ EntriesOf(st, p) = Stepped(EntriesOf(fs[p], p), m, NextId(p))
      /\ \A n \in Nodes \ {p} : EntriesOf(st, n) = EntriesOf(fs[p], n)
  BY <1>1, AppliedEntries
<1> HIDE DEF st
<1>4. Publish(p, m, st)
  BY DEF st
<1>5. LogsTyped' /\ Grows
  BY <1>1, <1>2, <1>4, PublishType
<1>6. LogStep
  <2>1. EntriesOf(st, p) = Stepped(EntriesOf(fs[p], p), m, Len(log[p]) + 1)
    BY <1>3 DEF NextId
  <2>2. QED
    BY <1>1, <1>2, <1>4, <2>1, SaysStep
<1>7. \A x, y \in Nodes : x # y => EntriesOf(fs'[x], y) = EntriesOf(fs[x], y)
  BY <1>1, <1>3, <1>4 DEF Publish, LogsTyped
<1>8. QED
  BY <1>5, <1>6, <1>7, OwnStep

LEMMA ClientsSync ==
  ASSUME TypeInv, SyncInv, NEW p \in Nodes, NEW r \in Rooms,
         OpenRoom(p, r) \/ Subscribe(p, r) \/ Unsubscribe(p, r) \/ CloseRoom(p, r)
  PROVE  SyncInv'
<1>1. \A t \in RoomMessages : [type |-> t, room |-> r] \in Message
  BY OwnMessageTypes
<1>2. phase[p] = "joined" /\ UNCHANGED <<phase, sub, removing, join, broken>>
  BY DEF OpenRoom, Subscribe, Unsubscribe, CloseRoom, CanPublish
<1>3. CASE OpenRoom(p, r)
  <2> DEFINE m == [type |-> "NewRealtimeRoom", room |-> r]
  <2>1. m \in Message
    BY <1>1 DEF RoomMessages
  <2>2. Applied(fs[p], p, m, NextId(p)) =
          AddRoom(fs[p], r, p, [subs |-> 0, mid |-> NextId(p)])
    BY <1>3 DEF OpenRoom, Applied
  <2>3. Publish(p, m, Applied(fs[p], p, m, NextId(p)))
    BY <1>3, <2>2 DEF OpenRoom
  <2> HIDE DEF m
  <2>4. QED
    BY <1>2, <2>1, <2>3, ClientSync
<1>4. CASE Subscribe(p, r)
  <2> DEFINE m == [type |-> "Subscription", room |-> r]
  <2>1. m \in Message
    BY <1>1 DEF RoomMessages
  <2>2. Applied(fs[p], p, m, NextId(p)) = AddSubscription(fs[p], r, p, NextId(p))
    BY <1>4 DEF Subscribe, Applied
  <2>3. Publish(p, m, Applied(fs[p], p, m, NextId(p)))
    BY <1>4, <2>2 DEF Subscribe
  <2> HIDE DEF m
  <2>4. QED
    BY <1>2, <2>1, <2>3, ClientSync
<1>5. CASE Unsubscribe(p, r)
  <2> DEFINE m == [type |-> "Unsubscription", room |-> r]
  <2>1. m \in Message
    BY <1>1 DEF RoomMessages
  <2>2. Applied(fs[p], p, m, NextId(p)) = RemoveSubscription(fs[p], r, p, NextId(p))
    BY <1>5 DEF Unsubscribe, Applied
  <2>3. Publish(p, m, Applied(fs[p], p, m, NextId(p)))
    BY <1>5, <2>2 DEF Unsubscribe
  <2> HIDE DEF m
  <2>4. QED
    BY <1>2, <2>1, <2>3, ClientSync
<1>6. CASE CloseRoom(p, r)
  <2> DEFINE m == [type |-> "RemoveRealtimeRoom", room |-> r]
  <2>1. m \in Message
    BY <1>1 DEF RoomMessages
  <2>2. Applied(fs[p], p, m, NextId(p)) = RemoveRoom(fs[p], r, p)
    BY <1>6 DEF Applied
  <2>3. Publish(p, m, Applied(fs[p], p, m, NextId(p)))
    BY <1>6, <2>2 DEF CloseRoom
  <2> HIDE DEF m
  <2>4. QED
    BY <1>2, <2>1, <2>3, ClientSync
<1>7. QED
  BY <1>3, <1>4, <1>5, <1>6

\* A message that says nothing of rooms.
LEMMA AnnounceStep ==
  ASSUME TypeInv, NEW p \in Nodes, NEW m \in Message, m.type \notin RoomMessages,
         Announce(p, m)
  PROVE  LogsTyped' /\ Grows /\ LogStep /\ fs' = fs
<1>1. fs[p] \in State /\ LogsTyped
  BY DEF TypeInv, LogsTyped
<1>2. Publish(p, m, fs[p])
  BY DEF Announce
<1>3. EntriesOf(fs[p], p) = Stepped(EntriesOf(fs[p], p), m, Len(log[p]) + 1)
  BY QuietMessage
<1>4. LogStep
  BY <1>1, <1>2, <1>3, SaysStep
<1>5. QED
  BY <1>1, <1>2, <1>4, PublishType DEF Publish, LogsTyped

LEMMA HeartbeatSync ==
  ASSUME TypeInv, SyncInv, NEW p \in Nodes, Heartbeat(p)
  PROVE  SyncInv'
<1> DEFINE m == [type |-> "Heartbeat"]
<1>1. m \in Message /\ m.type \notin RoomMessages
  BY DEF Message, RoomMessages
<1>2. Announce(p, m) /\ UNCHANGED <<phase, sub, join, removing, broken>>
  BY DEF Heartbeat
<1> HIDE DEF m
<1>3. LogsTyped' /\ Grows /\ LogStep /\ fs' = fs
  BY <1>1, <1>2, AnnounceStep
<1>4. QED
  BY <1>2, <1>3, OwnStep

LEMMA StopSync ==
  ASSUME TypeInv, SyncInv, NEW q \in Nodes, Stop(q)
  PROVE  SyncInv'
<1> DEFINE m == [type |-> "NodeShutdown", node |-> q]
<1>1. m \in Message /\ m.type \notin RoomMessages
  BY DEF Message, RoomMessages
<1>2. Announce(q, m) /\ Gone(q) /\ UNCHANGED broken
  BY DEF Stop
<1> HIDE DEF m
<1>3. LogsTyped' /\ Grows /\ LogStep /\ fs' = fs
  BY <1>1, <1>2, AnnounceStep
<1>4. QED
  BY <1>2, <1>3, GoneStep

LEMMA FailToStartSync ==
  ASSUME TypeInv, SyncInv, NEW q \in Nodes, FailToStart(q)
  PROVE  SyncInv'
<1>1. Gone(q) /\ UNCHANGED <<log, hist, fs, broken>>
  BY DEF FailToStart
<1>2. LogsTyped' /\ Grows
  BY <1>1, QuietType DEF TypeInv, LogsTyped
<1>3. LogStep
  BY <1>1, SilentStep
<1>4. QED
  BY <1>1, <1>2, <1>3, GoneStep

LEMMA RemovedEntries ==
  ASSUME NEW st \in State, NEW p \in Nodes
  PROVE  /\ EntriesOf(RemoveNode(st, p), p) = NoEntries
         /\ \A n \in Nodes \ {p} : EntriesOf(RemoveNode(st, p), n) = EntriesOf(st, n)
  BY RemoveNodeEntries DEF EntriesOf, NoEntries

\* evictNode takes the subscriber and the entries of a node away together.
LEMMA FinishRemovalSync ==
  ASSUME TypeInv, SyncInv, NEW q \in Nodes, FinishRemoval(q)
  PROVE  SyncInv'
<1>1. PICK removal \in removing[q] :
        LET p == removal.node IN
        /\ removing' = [removing EXCEPT ![q] = @ \ {removal}]
        /\ sub' = [sub EXCEPT ![q][p] = NoSubscriber]
        /\ \/ Publish(q, [type |-> "NodeEvicted", node |-> p], RemoveNode(fs[q], p))
           \/ /\ fs' = [fs EXCEPT ![q] = RemoveNode(@, p)]
              /\ UNCHANGED <<log, hist>>
        /\ UNCHANGED <<phase, join, broken>>
  BY DEF FinishRemoval
<1> DEFINE p == removal.node
           st == RemoveNode(fs[q], p)
           m == [type |-> "NodeEvicted", node |-> p]
<1>2. p \in Nodes /\ p # q /\ fs[q] \in State /\ LogsTyped
  <2>1. NodeSane(q) /\ removal \in Removal
    BY DEF SyncInv, TypeInv, OthersTyped
  <2>2. QED
    BY <2>1 DEF NodeSane, Removal, TypeInv, LogsTyped
<1>3. m \in Message /\ m.type \notin RoomMessages
  BY <1>2 DEF Message, RoomMessages
<1>4. /\ EntriesOf(st, p) = NoEntries
      /\ \A n \in Nodes \ {p} : EntriesOf(st, n) = EntriesOf(fs[q], n)
      /\ st \in State
  BY <1>2, RemovedEntries, RemoveNodeEntries
<1>5. EntriesOf(st, q) = Stepped(EntriesOf(fs[q], q), m, Len(log[q]) + 1)
  BY <1>2, <1>3, <1>4, QuietMessage
<1>6. /\ removing' = [removing EXCEPT ![q] = @ \ {removal}]
      /\ sub' = [sub EXCEPT ![q][p] = NoSubscriber]
      /\ Publish(q, m, st) \/ (fs' = [fs EXCEPT ![q] = st] /\ UNCHANGED <<log, hist>>)
      /\ UNCHANGED <<phase, join, broken>>
  BY <1>1
<1> HIDE DEF p, st, m
<1>7. \A x \in Nodes : fs'[x] = IF x = q THEN st ELSE fs[x]
  BY <1>2, <1>6 DEF Publish, LogsTyped
<1>8. LogsTyped' /\ Grows /\ LogStep
  <2>1. CASE Publish(q, m, st)
    BY <1>2, <1>3, <1>4, <1>5, <2>1, PublishType, SaysStep
  <2>2. CASE fs' = [fs EXCEPT ![q] = st] /\ UNCHANGED <<log, hist>>
    <3>1. fs' \in [Nodes -> State]
      BY <1>2, <1>4, <2>2 DEF LogsTyped
    <3>2. \A x \in Nodes : EntriesOf(fs'[x], x) = EntriesOf(fs[x], x)
      BY <1>2, <1>4, <1>7
    <3>3. QED
      BY <1>2, <2>2, <3>1, <3>2, QuietType, SilentStep
  <2>3. QED
    BY <1>6, <2>1, <2>2
<1>9. \A x, y \in Nodes :
        EntriesOf(fs'[x], y) =
          IF x = q /\ y = p THEN NoEntries ELSE EntriesOf(fs[x], y)
  BY <1>4, <1>7
<1>10. \A x, y \in Nodes :
         sub'[x][y] = IF x = q /\ y = p THEN NoSubscriber ELSE sub[x][y]
  BY <1>2, <1>6 DEF TypeInv, SubsTyped
<1>11. LogInv'
  BY <1>8, LogStepInv DEF SyncInv
<1>12. NewcomerInv'
  <2>1. \A x, y \in Nodes : phase[y] \in Fresh /\ x # y =>
          EntriesOf(fs'[x], y) = NoEntries
    BY <1>9 DEF SyncInv, NewcomerInv
  <2>2. NewcomerInv /\ phase' = phase
    BY <1>6 DEF SyncInv
  <2>3. QED
    BY <1>8, <2>1, <2>2, NewcomerStep
<1>13. EmptyInv'
  BY <1>6, <1>9 DEF SyncInv, EmptyInv
<1>14. ASSUME NEW x \in Nodes PROVE NodeSane(x)'
  <2>1. NodeSane(x) /\ Len(log[x]) <= Len(log'[x])
    BY <1>8 DEF SyncInv, Grows
  <2>2. Len(log[x]) \in Nat /\ Len(log'[x]) \in Nat /\ join.hello \in Nat
    BY <1>8 DEF TypeInv, LogsTyped, OthersTyped, JoinRecord
  <2>3. removing'[x] \subseteq removing[x]
    BY <1>6 DEF TypeInv, OthersTyped
  <2>4. QED
    BY <1>6, <2>1, <2>2, <2>3 DEF NodeSane, Joining
<1>15. ASSUME NEW x \in Nodes, NEW y \in Nodes PROVE PairSane(x, y)'
  <2>1. PairSane(x, y) /\ NoSubscriber.state = "NONE" /\ ~NoSubscriber.syncing
    BY DEF SyncInv, NoSubscriber
  <2>2. QED
    BY <1>6, <1>10, <2>1 DEF PairSane, Unsettled, Joining
<1>16. ASSUME NEW x \in Nodes, NEW y \in Nodes PROVE PairExact(x, y)'
  <2>1. CASE x = q /\ y = p
    BY <1>10, <2>1 DEF PairExact, NoSubscriber
  <2>2. CASE ~(x = q /\ y = p)
    <3>1. Position(x, y)' = Position(x, y)
      BY <1>6, <1>10, <2>2 DEF Position, Unsettled, Joining
    <3>2. PairExact(x, y)
      BY DEF SyncInv
    <3>3. QED
      BY <1>6, <1>8, <1>9, <1>10, <2>2, <3>1, <3>2, PairKept
  <2>3. QED
    BY <2>1, <2>2
<1>17. QED
  BY <1>11, <1>12, <1>13, <1>14, <1>15, <1>16 DEF SyncInv
-----------------------------------------------------------------------------
\* A step of a subscriber that leaves its position where it is.
LEMMA QuietSubscriberStep ==
  ASSUME TypeInv, SyncInv, NEW q \in Nodes, NEW p \in Nodes, NEW s \in Subscriber,
         sub[q][p].state # "NONE", s.state # "NONE", s.last = sub[q][p].last,
         sub' = [sub EXCEPT ![q][p] = s],
         UNCHANGED <<phase, join, log, hist, fs, broken>>,
         \A x \in Nodes : \A removal \in removing'[x] : removal.node # x,
         Unsettled(q, p) => s.state = "BUFFERING" /\ ~s.syncing
  PROVE  SyncInv'
<1>1. LogsTyped' /\ Grows
  BY QuietType DEF TypeInv, LogsTyped
<1>2. LogStep
  BY SilentStep
<1>3. PairExact(q, p)'
  <2>1. sub'[q][p] = s
    BY DEF TypeInv, SubsTyped
  <2>2. Position(q, p)' = Position(q, p)
    BY <2>1 DEF Position, Unsettled, Joining
  <2>3. PairExact(q, p)
    BY DEF SyncInv
  <2>4. QED
    BY <1>1, <2>2, <2>3, PairKept
<1>4. QED
  BY <1>1, <1>2, <1>3, OneSubscriberStep

LEMMA NoSelfRemoval ==
  ASSUME SyncInv, UNCHANGED removing
  PROVE  \A x \in Nodes : \A removal \in removing'[x] : removal.node # x
  BY DEF SyncInv, NodeSane

LEMMA BeginRemovalSync ==
  ASSUME TypeInv, SyncInv, NEW q \in Nodes, NEW removal \in Removal,
         BeginRemoval(q, removal)
  PROVE  \A x \in Nodes : \A r \in removing'[x] : r.node # x
<1>1. \A x \in Nodes : \A r \in removing[x] : r.node # x
  BY DEF SyncInv, NodeSane
<1>2. removal.node \in Nodes
  BY DEF Removal
<1>3. sub[q][q].state = "NONE"
  BY DEF SyncInv, PairSane
<1>4. QED
  BY <1>1, <1>2, <1>3 DEF BeginRemoval, TypeInv, OthersTyped

LEMMA ConnectSync ==
  ASSUME TypeInv, SyncInv, NEW q \in Nodes, NEW p \in Nodes, Connect(q, p)
  PROVE  SyncInv'
<1> DEFINE s == [sub[q][p] EXCEPT !.next = NextId(p)]
<1>1. sub[q][p] \in Subscriber /\ NextId(p) \in Nat
  BY DEF TypeInv, SubsTyped, LogsTyped, NextId
<1>2. /\ s \in Subscriber /\ s.state = sub[q][p].state /\ s.last = sub[q][p].last
      /\ s.syncing = sub[q][p].syncing
  BY <1>1 DEF Subscriber
<1>3. sub' = [sub EXCEPT ![q][p] = s]
  BY DEF Connect
<1>4. /\ sub[q][p].state # "NONE"
      /\ UNCHANGED <<phase, join, log, hist, fs, broken, removing>>
  BY DEF Connect
<1>5. Unsettled(q, p) => s.state = "BUFFERING" /\ ~s.syncing
  BY <1>2, <1>4 DEF SyncInv, PairSane
<1> HIDE DEF s
<1>6. QED
  BY <1>2, <1>3, <1>4, <1>5, NoSelfRemoval, QuietSubscriberStep

LEMMA LoseSync ==
  ASSUME TypeInv, SyncInv, NEW q \in Nodes, NEW p \in Nodes, Lose(q, p)
  PROVE  SyncInv'
<1> DEFINE s == [sub[q][p] EXCEPT !.next = @ + 1]
<1>1. sub[q][p] \in Subscriber
  BY DEF TypeInv, SubsTyped
<1>2. /\ s \in Subscriber /\ s.state = sub[q][p].state /\ s.last = sub[q][p].last
      /\ s.syncing = sub[q][p].syncing
  BY <1>1, AdvancedType
<1>3. sub' = [sub EXCEPT ![q][p] = s]
  BY DEF Lose
<1>4. /\ sub[q][p].state # "NONE"
      /\ UNCHANGED <<phase, join, log, hist, fs, broken, removing>>
  BY DEF Lose
<1>5. Unsettled(q, p) => s.state = "BUFFERING" /\ ~s.syncing
  BY <1>2, <1>4 DEF SyncInv, PairSane
<1> HIDE DEF s
<1>6. QED
  BY <1>2, <1>3, <1>4, <1>5, NoSelfRemoval, QuietSubscriberStep

\* A handshake that lasts less than the heartbeat's timer: no subscriber changes
\* state before it is settled.
LEMMA CheckHeartbeatSync ==
  ASSUME TypeInv, SyncInv, ~SlowHandshake, NEW q \in Nodes, NEW p \in Nodes,
         CheckHeartbeat(q, p)
  PROVE  SyncInv'
<1> DEFINE s == sub[q][p]
           sane == [s EXCEPT !.state = "SANE", !.heard = FALSE]
           missing == [s EXCEPT !.state = "MISSING_HEARTBEAT"]
           evicted == [s EXCEPT !.state = "EVICTED"]
           removal == [node |-> p, broadcast |-> TRUE, by |-> q]
<1>1. s \in Subscriber
  BY DEF TypeInv, SubsTyped
<1>2. /\ sane \in Subscriber /\ sane.last = s.last /\ sane.state # "NONE"
      /\ missing \in Subscriber /\ missing.last = s.last /\ missing.state # "NONE"
      /\ evicted \in Subscriber /\ evicted.last = s.last /\ evicted.state # "NONE"
  BY <1>1 DEF Subscriber, SubState
<1>3. /\ s.state \in {"SANE", "MISSING_HEARTBEAT"}
      /\ UNCHANGED <<phase, join, log, hist, fs, broken>>
  BY DEF CheckHeartbeat
<1>4. ~Unsettled(q, p)
  BY <1>3 DEF SyncInv, PairSane
<1>5. removal \in Removal
  BY DEF Removal
<1>6. \/ sub' = [sub EXCEPT ![q][p] = sane] /\ UNCHANGED removing
      \/ sub' = [sub EXCEPT ![q][p] = missing] /\ UNCHANGED removing
      \/ sub' = [sub EXCEPT ![q][p] = evicted] /\ BeginRemoval(q, removal)
  <2>1. [sub EXCEPT ![q][p].state = "SANE", ![q][p].heard = FALSE]
          = [sub EXCEPT ![q][p] = sane]
    BY DEF TypeInv, SubsTyped
  <2>2. QED
    BY <2>1 DEF CheckHeartbeat
<1> HIDE DEF s, sane, missing, evicted, removal
<1>7. \A x \in Nodes : \A r \in removing'[x] : r.node # x
  BY <1>5, <1>6, NoSelfRemoval, BeginRemovalSync
<1>8. sub[q][p].state # "NONE" /\ s = sub[q][p]
  BY <1>3 DEF s
<1>9. QED
  BY <1>2, <1>3, <1>4, <1>6, <1>7, <1>8, QuietSubscriberStep
-----------------------------------------------------------------------------
(***************************************************************************)
(* Handling a message.                                                     *)
(***************************************************************************)

\* The message that follows the one q's view of p stands for brings the view to
\* what p had about itself once it had sent that message.
LEMMA HandledExact ==
  ASSUME TypeInv, SyncInv, NEW q \in Nodes, NEW p \in Nodes, NEW id \in 1..Len(log[p]),
         phase[q] \in {"loaded", "joined"}, ~Unsettled(q, p),
         sub[q][p].state # "NONE", id = sub[q][p].last + 1,
         UNCHANGED <<phase, join, log, hist, broken>>,
         sub'[q][p].last = id,
         EntriesOf(fs'[q], p) = Stepped(EntriesOf(fs[q], p), log[p][id], id)
  PROVE  PairExact(q, p)'
<1>1. ~Unsettled(q, p)'
  BY DEF Unsettled, Joining
<1>2. Position(q, p)' = id /\ Position(q, p) = sub[q][p].last
  BY <1>1 DEF Position
<1>3. id \in Nat /\ Len(log[p]) \in Nat /\ id \in 0..Len(log[p])
  BY DEF TypeInv, LogsTyped
<1>4. sub[q][p].last = id - 1
  BY <1>3 DEF TypeInv, SubsTyped, Subscriber
<1>5. ASSUME p \notin broken[q]
      PROVE  EntriesOf(fs'[q], p) = After(hist[p], id)
  <2>1. EntriesOf(fs[q], p) = After(hist[p], id - 1)
    BY <1>2, <1>4, <1>5 DEF SyncInv, PairExact
  <2>2. After(hist[p], id) = Stepped(After(hist[p], id - 1), log[p][id], id)
    BY DEF SyncInv, LogInv
  <2>3. QED
    BY <2>1, <2>2
<1>6. QED
  BY <1>2, <1>3, <1>5 DEF PairExact

\* The handler of a message, or the detection of a gap: the subscriber s of q to p
\* has moved on, and q's entries for p may have changed.
LEMMA HandlerStep ==
  ASSUME TypeInv, LogsTyped', Grows, SyncInv, LogStep,
         NEW q \in Nodes, NEW p \in Nodes, NEW s \in Subscriber,
         phase[q] \in {"loaded", "joined"}, ~Unsettled(q, p),
         sub[q][p].state # "NONE", s.state # "NONE",
         sub' = [sub EXCEPT ![q][p] = s],
         UNCHANGED <<phase, join>>,
         \A x \in Nodes : \A removal \in removing'[x] : removal.node # x,
         \A x \in Nodes : broken[x] \subseteq broken'[x],
         \A x \in Nodes \ {q} : fs'[x] = fs[x],
         \A y \in Nodes \ {p} : EntriesOf(fs'[q], y) = EntriesOf(fs[q], y),
         phase[p] \in Fresh => EntriesOf(fs'[q], p) = EntriesOf(fs[q], p),
         PairExact(q, p)'
  PROVE  SyncInv'
<1>1. \A x, y \in Nodes : x # y /\ ~(x = q /\ y = p) =>
        EntriesOf(fs'[x], y) = EntriesOf(fs[x], y)
  OBVIOUS
<1>2. phase[p] \in Fresh \/ phase[q] \in {"off", "buffering"} =>
        EntriesOf(fs'[q], p) = EntriesOf(fs[q], p)
  OBVIOUS
<1>3. QED
  BY <1>1, <1>2, OneSubscriberStep

\* A desync of q with p.
LEMMA DesyncSync ==
  ASSUME TypeInv, SyncInv, NEW q \in Nodes, NEW p \in Nodes, NEW s \in Subscriber,
         NEW st \in State,
         phase[q] \in {"loaded", "joined"}, ~Unsettled(q, p),
         sub[q][p].state # "NONE", s.state # "NONE",
         sub' = [sub EXCEPT ![q][p] = s],
         Desync(q, p, st),
         UNCHANGED <<phase, join>>,
         \A y \in Nodes \ {p} : EntriesOf(st, y) = EntriesOf(fs[q], y),
         phase[p] \in Fresh => EntriesOf(st, p) = EntriesOf(fs[q], p)
  PROVE  SyncInv'
<1> DEFINE m == SelfEviction(q)
<1>1. m \in Message /\ m.type \notin RoomMessages
  BY DEF SelfEviction, Message, RoomMessages
<1>2. /\ Publish(q, m, st) /\ UNCHANGED removing
      /\ broken' = [broken EXCEPT ![q] = @ \cup {p}]
  BY DEF Desync
<1>3. q # p
  BY DEF SyncInv, PairSane
<1> HIDE DEF m
<1>4. LogsTyped' /\ Grows
  BY <1>1, <1>2, PublishType DEF TypeInv
<1>5. LogStep
  <2>1. EntriesOf(st, q) = Stepped(EntriesOf(fs[q], q), m, Len(log[q]) + 1)
    BY <1>1, <1>3, QuietMessage
  <2>2. QED
    BY <1>1, <1>2, <2>1, SaysStep DEF TypeInv
<1>6. fs'[q] = st /\ \A x \in Nodes \ {q} : fs'[x] = fs[x]
  BY <1>2 DEF Publish, TypeInv, LogsTyped
<1>7. p \in broken'[q] /\ \A x \in Nodes : broken[x] \subseteq broken'[x]
  BY <1>2 DEF TypeInv, OthersTyped
<1>8. PairExact(q, p)'
  BY <1>7 DEF PairExact
<1>9. QED
  BY <1>2, <1>4, <1>5, <1>6, <1>7, <1>8, NoSelfRemoval, HandlerStep

\* A message that says nothing of rooms.
LEMMA QuietHandledSync ==
  ASSUME TypeInv, SyncInv, NEW q \in Nodes, NEW p \in Nodes, NEW id \in 1..Len(log[p]),
         NEW s \in Subscriber,
         phase[q] \in {"loaded", "joined"}, ~Unsettled(q, p),
         sub[q][p].state # "NONE", s.state # "NONE",
         id = sub[q][p].last + 1, s.last = id,
         sub' = [sub EXCEPT ![q][p] = s],
         UNCHANGED <<phase, join, log, hist, fs, broken>>,
         \A x \in Nodes : \A removal \in removing'[x] : removal.node # x,
         log[p][id].type \notin RoomMessages
  PROVE  SyncInv'
<1>1. LogsTyped' /\ Grows
  BY QuietType DEF TypeInv, LogsTyped
<1>2. LogStep
  BY SilentStep
<1>3. PairExact(q, p)'
  <2>1. sub'[q][p].last = id
    BY DEF TypeInv, SubsTyped
  <2>2. EntriesOf(fs'[q], p) = Stepped(EntriesOf(fs[q], p), log[p][id], id)
    BY QuietMessage
  <2>3. QED
    BY <2>1, <2>2, HandledExact
<1>4. QED
  BY <1>1, <1>2, <1>3, HandlerStep

LEMMA HandleSync ==
  ASSUME TypeInv, SyncInv, NEW q \in Nodes, NEW p \in Nodes, NEW id \in 1..Len(log[p]),
         NEW s \in Subscriber,
         phase[q] \in {"loaded", "joined"}, ~Unsettled(q, p),
         sub[q][p].state # "NONE", s.state # "NONE",
         id = sub[q][p].last + 1, s.last = id,
         Handle(q, p, log[p][id], id, s)
  PROVE  SyncInv'
<1> DEFINE m == log[p][id]
           st == Applied(fs[q], p, m, id)
           removal == [node |-> m.node, broadcast |-> FALSE, by |-> p]
<1>1. m \in Message /\ id \in Nat /\ fs[q] \in State
  BY DEF TypeInv, LogsTyped
<1>2. /\ st \in State
      /\ EntriesOf(st, p) = Stepped(EntriesOf(fs[q], p), m, id)
      /\ \A n \in Nodes \ {p} : EntriesOf(st, n) = EntriesOf(fs[q], n)
  BY <1>1, AppliedType, AppliedEntries, SMTT(20)
<1>3. \/ /\ m.type \in RoomMessages
         /\ sub' = [sub EXCEPT ![q][p] = s]
         /\ Desync(q, p, st)
         /\ UNCHANGED <<phase, join>>
      \/ /\ sub' = [sub EXCEPT ![q][p] = s]
         /\ fs' = [fs EXCEPT ![q] = st]
         /\ UNCHANGED <<log, hist, removing, broken, phase, join>>
      \/ Stop(q)
      \/ /\ m.type \in {"NodeEvicted", "NodeShutdown"}
         /\ sub' = [sub EXCEPT ![q][p] = s]
         /\ BeginRemoval(q, removal)
         /\ UNCHANGED <<phase, join, log, hist, fs, broken>>
      \/ /\ m.type = "Heartbeat"
         /\ sub' = [sub EXCEPT ![q][p] = s]
         /\ UNCHANGED <<phase, join, removing, log, hist, fs, broken>>
  BY DEF Handle
<1>4. m.type \in {"NodeEvicted", "NodeShutdown"} => removal \in Removal
  BY <1>1, MessageParts DEF Removal
<1>5. m.type \in {"NodeEvicted", "NodeShutdown", "Heartbeat"} =>
        m.type \notin RoomMessages
  BY DEF RoomMessages
<1>6. phase[p] \in Fresh => m.type \notin RoomMessages
  BY SMTT(20) DEF SyncInv, NewcomerInv
<1> HIDE DEF st, removal
<1>7. CASE /\ m.type \in RoomMessages
           /\ sub' = [sub EXCEPT ![q][p] = s]
           /\ Desync(q, p, st)
           /\ UNCHANGED <<phase, join>>
  BY <1>2, <1>6, <1>7, DesyncSync
<1>8. CASE /\ sub' = [sub EXCEPT ![q][p] = s]
           /\ fs' = [fs EXCEPT ![q] = st]
           /\ UNCHANGED <<log, hist, removing, broken, phase, join>>
  <2>1. \A x \in Nodes : \A r \in removing'[x] : r.node # x
    BY <1>8, NoSelfRemoval
  <2>2. fs'[q] = st /\ (\A x \in Nodes \ {q} : fs'[x] = fs[x]) /\ sub'[q][p] = s
    BY <1>8 DEF TypeInv, LogsTyped, SubsTyped
  <2>3. q # p
    BY DEF SyncInv, PairSane
  <2>4. LogsTyped' /\ Grows
    <3>1. fs' \in [Nodes -> State]
      BY <1>2, <1>8 DEF TypeInv, LogsTyped
    <3>2. QED
      BY <1>8, <3>1, QuietType DEF TypeInv
  <2>5. LogStep
    <3>1. \A x \in Nodes : EntriesOf(fs'[x], x) = EntriesOf(fs[x], x)
      BY <1>2, <2>2, <2>3
    <3>2. QED
      BY <1>8, <3>1, SilentStep
  <2>6. PairExact(q, p)'
    <3>1. EntriesOf(fs'[q], p) = Stepped(EntriesOf(fs[q], p), log[p][id], id)
      BY <1>2, <2>2
    <3>2. sub'[q][p].last = id
      BY <2>2
    <3>3. QED
      BY <1>8, <3>1, <3>2, HandledExact
  <2>7. phase[p] \in Fresh => EntriesOf(fs'[q], p) = EntriesOf(fs[q], p)
    BY <1>2, <1>6, <2>2, QuietMessage
  <2>8. \A y \in Nodes \ {p} : EntriesOf(fs'[q], y) = EntriesOf(fs[q], y)
    BY <1>2, <2>2
  <2>9. QED
    BY <1>8, <2>1, <2>2, <2>4, <2>5, <2>6, <2>7, <2>8, HandlerStep
<1>9. CASE /\ m.type \in {"NodeEvicted", "NodeShutdown"}
           /\ sub' = [sub EXCEPT ![q][p] = s]
           /\ BeginRemoval(q, removal)
           /\ UNCHANGED <<phase, join, log, hist, fs, broken>>
  <2>1. \A x \in Nodes : \A r \in removing'[x] : r.node # x
    BY <1>4, <1>9, BeginRemovalSync
  <2>2. log[p][id].type \notin RoomMessages
    BY <1>5, <1>9
  <2>3. QED
    BY <1>9, <2>1, <2>2, QuietHandledSync
<1>10. CASE /\ m.type = "Heartbeat"
            /\ sub' = [sub EXCEPT ![q][p] = s]
            /\ UNCHANGED <<phase, join, removing, log, hist, fs, broken>>
  <2>1. \A x \in Nodes : \A r \in removing'[x] : r.node # x
    BY <1>10, NoSelfRemoval
  <2>2. log[p][id].type \notin RoomMessages
    BY <1>5, <1>10
  <2>3. QED
    BY <1>10, <2>1, <2>2, QuietHandledSync
<1>11. QED
  BY <1>3, <1>7, <1>8, <1>9, <1>10, StopSync

LEMMA ProcessSync ==
  ASSUME TypeInv, SyncInv, NEW q \in Nodes, NEW p \in Nodes, NEW id \in 1..Len(log[p]),
         NEW s \in Subscriber,
         Alive(q), ~Unsettled(q, p), sub[q][p].state # "NONE",
         s.state = sub[q][p].state, s.last = sub[q][p].last,
         Process(q, p, id, s)
  PROVE  SyncInv'
<1> DEFINE counted == [s EXCEPT !.last = @ + 1]
           heard == [counted EXCEPT !.heard = TRUE]
<1>1. /\ counted \in Subscriber /\ counted.state = s.state
      /\ heard \in Subscriber /\ heard.state = s.state /\ heard.last = s.last + 1
  BY CountedType
<1>2. phase[q] \in {"loaded", "joined"}
  BY DEF SyncInv, PairSane, Unsettled, NodeSane, Alive
<1>3. fs[q] \in State
  BY DEF TypeInv, LogsTyped
<1>4. \/ /\ sub' = [sub EXCEPT ![q][p] = s]
         /\ UNCHANGED <<phase, join, removing, log, hist, fs, broken>>
      \/ /\ sub' = [sub EXCEPT ![q][p] = counted]
         /\ Desync(q, p, fs[q])
         /\ UNCHANGED <<phase, join>>
      \/ InSequence(s, id) /\ Handle(q, p, log[p][id], id, heard)
  BY DEF Process
<1> HIDE DEF counted, heard
<1>5. CASE /\ sub' = [sub EXCEPT ![q][p] = s]
           /\ UNCHANGED <<phase, join, removing, log, hist, fs, broken>>
  BY <1>5, NoSelfRemoval, QuietSubscriberStep
<1>6. CASE /\ sub' = [sub EXCEPT ![q][p] = counted]
           /\ Desync(q, p, fs[q])
           /\ UNCHANGED <<phase, join>>
  BY <1>1, <1>2, <1>3, <1>6, DesyncSync
<1>7. CASE InSequence(s, id) /\ Handle(q, p, log[p][id], id, heard)
  <2>1. id = sub[q][p].last + 1 /\ heard.last = id
    BY <1>1, <1>7 DEF InSequence
  <2>2. QED
    BY <1>1, <1>2, <1>7, <2>1, HandleSync
<1>8. QED
  BY <1>4, <1>5, <1>6, <1>7

LEMMA ReceiveSync ==
  ASSUME TypeInv, SyncInv, NEW q \in Nodes, NEW p \in Nodes, Receive(q, p)
  PROVE  SyncInv'
<1> DEFINE s == [sub[q][p] EXCEPT !.next = @ + 1]
           id == sub[q][p].next
           b == [s EXCEPT !.buf = Append(@, id)]
<1>1. /\ sub[q][p] \in Subscriber /\ id \in 1..Len(log[p]) /\ Len(log[p]) \in Nat
      /\ Alive(q)
  BY DEF TypeInv, SubsTyped, LogsTyped, Receive, Deliverable
<1>2. /\ s \in Subscriber /\ s.buf \in Seq(Nat) /\ s.state = sub[q][p].state
      /\ s.last = sub[q][p].last /\ s.syncing = sub[q][p].syncing
  BY <1>1, AdvancedType
<1>3. /\ b \in Subscriber /\ b.state = s.state /\ b.last = s.last
      /\ b.syncing = s.syncing
  <2>1. Append(s.buf, id) \in Seq(Nat)
    BY <1>1, <1>2
  <2> HIDE DEF s, id
  <2>2. QED
    BY <1>2, <2>1 DEF Subscriber
<1>4. \/ /\ s.state = "BUFFERING"
         /\ sub' = [sub EXCEPT ![q][p] = b]
         /\ UNCHANGED <<phase, join, removing, log, hist, fs, broken>>
      \/ s.state \in {"SANE", "MISSING_HEARTBEAT"} /\ Process(q, p, id, s)
  BY DEF Receive
<1>5. sub[q][p].state # "NONE" /\ Unsettled(q, p) =>
        sub[q][p].state = "BUFFERING" /\ ~sub[q][p].syncing
  BY DEF SyncInv, PairSane
<1> HIDE DEF s, id, b
<1>6. CASE /\ s.state = "BUFFERING"
           /\ sub' = [sub EXCEPT ![q][p] = b]
           /\ UNCHANGED <<phase, join, removing, log, hist, fs, broken>>
  <2>1. \A x \in Nodes : \A removal \in removing'[x] : removal.node # x
    BY <1>6, NoSelfRemoval
  <2>2. b.state = "BUFFERING" /\ b.last = sub[q][p].last /\ sub[q][p].state # "NONE"
    BY <1>2, <1>3, <1>6
  <2>3. Unsettled(q, p) => ~b.syncing
    BY <1>2, <1>3, <1>5, <2>2
  <2>4. QED
    BY <1>3, <1>6, <2>1, <2>2, <2>3, QuietSubscriberStep
<1>7. CASE s.state \in {"SANE", "MISSING_HEARTBEAT"} /\ Process(q, p, id, s)
  <2>1. sub[q][p].state # "NONE" /\ ~Unsettled(q, p)
    BY <1>2, <1>5, <1>7
  <2>2. QED
    BY <1>1, <1>2, <1>7, <2>1, ProcessSync
<1>8. QED
  BY <1>4, <1>6, <1>7

LEMMA SyncBufferedSync ==
  ASSUME TypeInv, SyncInv, NEW q \in Nodes, NEW p \in Nodes, SyncBuffered(q, p)
  PROVE  SyncInv'
<1> DEFINE s == sub[q][p]
           t == [s EXCEPT !.buf = Tail(@)]
           done == [s EXCEPT !.state = "SANE", !.syncing = FALSE]
<1>1. s \in Subscriber /\ s.buf \in Seq(Nat) /\ Buffered(s, p)
  BY DEF TypeInv, SubsTyped, BufferedExist, Subscriber
<1>2. Alive(q) /\ s.state # "NONE" /\ ~Unsettled(q, p)
  BY DEF SyncBuffered, SyncInv, PairSane
<1>3. CASE s.buf # <<>> /\ Process(q, p, Head(s.buf), t)
  <2>1. Head(s.buf) \in 1..Len(log[p]) /\ Tail(s.buf) \in Seq(Nat)
    <3>1. Head(s.buf) = s.buf[1] /\ 1 \in 1..Len(s.buf) /\ Tail(s.buf) \in Seq(Nat)
      BY <1>1, <1>3
    <3>2. QED
      BY <1>1, <3>1 DEF Buffered
  <2>2. t \in Subscriber /\ t.state = s.state /\ t.last = s.last
    <3> HIDE DEF s
    <3>1. QED
      BY <1>1, <2>1 DEF Subscriber
  <2> HIDE DEF t
  <2>3. QED
    BY <1>2, <1>3, <2>1, <2>2, ProcessSync
<1>4. CASE /\ sub' = [sub EXCEPT ![q][p].state = "SANE", ![q][p].syncing = FALSE]
           /\ UNCHANGED <<phase, log, hist, fs, removing, join, broken>>
  <2>1. done \in Subscriber /\ done.state = "SANE" /\ done.last = s.last
    <3> HIDE DEF s
    <3>1. QED
      BY <1>1 DEF Subscriber, SubState
  <2>2. sub' = [sub EXCEPT ![q][p] = done]
    BY <1>4 DEF TypeInv, SubsTyped
  <2> HIDE DEF done
  <2>3. QED
    BY <1>2, <1>4, <2>1, <2>2, NoSelfRemoval, QuietSubscriberStep
<1>5. QED
  BY <1>3, <1>4 DEF SyncBuffered
-----------------------------------------------------------------------------
(***************************************************************************)
(* The handshake.                                                          *)
(***************************************************************************)

\* A step of the joining node q, on its own subscribers, full state and phase.
LEMMA JoinerStep ==
  ASSUME TypeInv, LogsTyped', Grows, SyncInv, NEW q \in Nodes,
         UNCHANGED <<log, hist, removing>>,
         phase[q] \in Fresh, phase'[q] \in {"buffering", "loaded", "joined"},
         \A x \in Nodes \ {q} :
           /\ ~Joining(x) /\ ~Joining(x)'
           /\ phase'[x] = phase[x] /\ sub'[x] = sub[x] /\ fs'[x] = fs[x]
           /\ broken'[x] = broken[x],
         \A y \in Nodes : phase[y] \in Fresh => EntriesOf(fs'[q], y) = NoEntries,
         \A y \in Nodes \ {q} :
           phase'[q] = "buffering" => EntriesOf(fs'[q], y) = NoEntries,
         NodeSane(q)',
         \A y \in Nodes : PairSane(q, y)',
         \A y \in Nodes : PairExact(q, y)'
  PROVE  SyncInv'
<1>1. LogStep
  <2>1. EntriesOf(fs[q], q) = NoEntries
    BY DEF SyncInv, NewcomerInv
  <2>2. \A x \in Nodes : EntriesOf(fs'[x], x) = EntriesOf(fs[x], x)
    BY <2>1
  <2>3. QED
    BY <2>2, SilentStep
<1>2. LogInv'
  BY <1>1, LogStepInv DEF SyncInv
<1>3. NewcomerInv'
  <2>1. \A x \in Nodes : phase'[x] \in Fresh => phase[x] \in Fresh
    OBVIOUS
  <2>2. \A x, y \in Nodes : phase[y] \in Fresh /\ x # y =>
          EntriesOf(fs'[x], y) = NoEntries
    BY DEF SyncInv, NewcomerInv
  <2>3. NewcomerInv
    BY DEF SyncInv
  <2>4. QED
    BY <1>1, <2>1, <2>2, <2>3, NewcomerStep
<1>4. EmptyInv'
  BY DEF SyncInv, EmptyInv
<1>5. ASSUME NEW x \in Nodes PROVE NodeSane(x)'
  <2>1. CASE x = q
    BY <2>1
  <2>2. CASE x # q
    <3>1. NodeSane(x)
      BY DEF SyncInv
    <3>2. QED
      BY <2>2, <3>1 DEF NodeSane
  <2>3. QED
    BY <2>1, <2>2
<1>6. ASSUME NEW x \in Nodes, NEW y \in Nodes PROVE PairSane(x, y)' /\ PairExact(x, y)'
  <2>1. CASE x = q
    BY <2>1
  <2>2. CASE x # q
    <3>1. PairSane(x, y) /\ PairExact(x, y) /\ NodeSane(x)
      BY DEF SyncInv
    <3>2. ~Unsettled(x, y) /\ ~Unsettled(x, y)'
      BY <2>2 DEF Unsettled
    <3>3. PairSane(x, y)'
      BY <2>2, <3>1, <3>2 DEF PairSane, NodeSane
    <3>4. Position(x, y)' = Position(x, y)
      BY <2>2, <3>2 DEF Position
    <3>5. PairExact(x, y)'
      BY <2>2, <3>1, <3>4, PairKept
    <3>6. QED
      BY <3>3, <3>5
  <2>3. QED
    BY <2>1, <2>2
<1>7. QED
  BY <1>2, <1>3, <1>4, <1>5, <1>6 DEF SyncInv

LEMMA NewSubscriberParts ==
  ASSUME NEW next \in Nat
  PROVE  /\ [NewSubscriber EXCEPT !.next = next].state = "BUFFERING"
         /\ ~[NewSubscriber EXCEPT !.next = next].syncing
         /\ NewSubscriber.state = "BUFFERING" /\ ~NewSubscriber.syncing
         /\ NoSubscriber.state = "NONE" /\ ~NoSubscriber.syncing
<1>1. NoSubscriber \in Subscriber
  BY RecordTypes
<1>2. NewSubscriber \in Subscriber
  BY RecordTypes
<1>3. NewSubscriber.state = "BUFFERING" /\ ~NewSubscriber.syncing
  BY <1>1 DEF NewSubscriber, NoSubscriber
<1>4. QED
  BY <1>2, <1>3 DEF Subscriber, NoSubscriber

\* Discovering the other nodes.
LEMMA DiscoverSync ==
  ASSUME TypeInv, SyncInv, NEW q \in Nodes, NEW targets \in SUBSET (Nodes \ {q}),
         NEW retried \in BOOLEAN, Discover(q, targets, retried),
         phase[q] \in {"off", "buffering"}, join.node \subseteq {q},
         UNCHANGED <<log, hist, fs, removing, broken>>
  PROVE  SyncInv'
<1>1. LogsTyped' /\ Grows
  BY QuietType DEF TypeInv, LogsTyped
<1>2. \A x \in Nodes \ {q} : ~Joining(x)
  BY DEF Joining
<1>3. \A x \in Nodes \ {q} : phase'[x] = phase[x] /\ sub'[x] = sub[x]
  BY DEF Discover, TypeInv, OthersTyped, SubsTyped
<1>4. \A y \in Nodes \ {q} : EntriesOf(fs[q], y) = NoEntries
  BY DEF SyncInv, EmptyInv
<1>5. \A y \in Nodes : phase[y] \in Fresh => EntriesOf(fs[q], y) = NoEntries
  BY DEF SyncInv, NewcomerInv
<1>6. phase[q] \in Fresh
  BY DEF Fresh
<1>7. \A removal \in removing[q] : removal.node # q
  BY DEF SyncInv, NodeSane
<1>8. \A p \in Nodes : NextId(p) \in Nat /\ 0 <= Len(log[p])
  BY DEF TypeInv, LogsTyped, NextId
<1>9. CASE targets = {}
  <2>1. /\ phase'[q] = "joined" /\ join' = NoJoin
        /\ \A y \in Nodes : sub'[q][y] = NoSubscriber
    <3>1. /\ phase' = [phase EXCEPT ![q] = "joined"] /\ join' = NoJoin
          /\ sub' = [sub EXCEPT ![q] = [p \in Nodes |-> NoSubscriber]]
      BY <1>9 DEF Discover
    <3>2. QED
      BY <3>1 DEF TypeInv, OthersTyped, SubsTyped
  <2>2. \A x \in Nodes : ~Joining(x)'
    BY <2>1 DEF Joining, NoJoin
  <2>3. NodeSane(q)'
    BY <1>7, <2>1, <2>2 DEF NodeSane
  <2>4. \A y \in Nodes : PairSane(q, y)' /\ PairExact(q, y)'
    <3>1. NoSubscriber.state = "NONE" /\ ~NoSubscriber.syncing
      BY DEF NoSubscriber
    <3>2. QED
      BY <2>1, <3>1 DEF PairSane, PairExact
  <2>5. QED
    BY <1>1, <1>2, <1>3, <1>5, <1>6, <2>1, <2>2, <2>3, <2>4, JoinerStep
<1>10. CASE targets # {}
  <2>1. /\ phase'[q] = "buffering"
        /\ join' = [NoJoin EXCEPT !.node = {q}, !.targets = targets,
                                  !.waiting = targets, !.retried = retried]
        /\ \A y \in Nodes : sub'[q][y] = IF y \notin targets THEN NoSubscriber
                                         ELSE IF SlowLinks THEN NewSubscriber
                                         ELSE [NewSubscriber EXCEPT !.next = NextId(y)]
    BY <1>10 DEF Discover, TypeInv, OthersTyped, SubsTyped
  <2>2. join'.node = {q} /\ join'.targets = targets /\ join'.hello = 0
    BY <2>1, RecordTypes DEF NoJoin
  <2>3. \A x \in Nodes \ {q} : ~Joining(x)'
    BY <2>2 DEF Joining
  <2>4. NodeSane(q)'
    BY <1>7, <1>8, <2>1, <2>2 DEF NodeSane, Joining
  <2>5. ASSUME NEW y \in Nodes PROVE PairSane(q, y)' /\ PairExact(q, y)'
    <3>1. /\ y \in targets => sub'[q][y].state = "BUFFERING" /\ ~sub'[q][y].syncing
          /\ y \notin targets => sub'[q][y].state = "NONE" /\ ~sub'[q][y].syncing
      <4> DEFINE connected == [NewSubscriber EXCEPT !.next = NextId(y)]
      <4>1. connected.state = "BUFFERING" /\ ~connected.syncing
        BY <1>8, NewSubscriberParts
      <4>2. /\ NewSubscriber.state = "BUFFERING" /\ ~NewSubscriber.syncing
            /\ NoSubscriber.state = "NONE" /\ ~NoSubscriber.syncing
        BY <1>8, NewSubscriberParts
      <4>3. sub'[q][y] = IF y \notin targets THEN NoSubscriber
                         ELSE IF SlowLinks THEN NewSubscriber ELSE connected
        BY <2>1
      <4> HIDE DEF connected
      <4>4. QED
        BY <4>1, <4>2, <4>3
    <3>2. PairSane(q, y)'
      BY <2>2, <3>1 DEF PairSane, Unsettled
    <3>3. QED
      BY <2>1, <3>2 DEF PairExact
  <2>6. QED
    BY <1>1, <1>2, <1>3, <1>4, <1>5, <1>6, <2>1, <2>3, <2>4, <2>5, JoinerStep
<1>11. QED
  BY <1>9, <1>10

LEMMA StartHandshakeSync ==
  ASSUME TypeInv, SyncInv, NEW q \in Nodes, StartHandshake(q)
  PROVE  SyncInv'
<1>1. PICK targets \in SUBSET (Nodes \ {q}) : Discover(q, targets, FALSE)
  BY DEF StartHandshake
<1>2. join.node \subseteq {q} /\ phase[q] = "off"
  BY DEF StartHandshake, NoJoin
<1>3. UNCHANGED <<log, hist, fs, removing, broken>> /\ FALSE \in BOOLEAN
  BY DEF StartHandshake
<1>4. QED
  BY <1>1, <1>2, <1>3, DiscoverSync

LEMMA RetryHandshakeSync ==
  ASSUME TypeInv, SyncInv, NEW q \in Nodes, RetryHandshake(q)
  PROVE  SyncInv'
<1>1. CASE Stop(q)
  BY <1>1, StopSync
<1>2. CASE ~Stop(q)
  <2>1. PICK targets \in SUBSET (Nodes \ {q}) : Discover(q, targets, TRUE)
    BY <1>2 DEF RetryHandshake
  <2>2. join.node \subseteq {q} /\ phase[q] = "buffering"
    BY DEF RetryHandshake, Joining
  <2>3. UNCHANGED <<log, hist, fs, removing, broken>> /\ TRUE \in BOOLEAN
    BY <1>2 DEF RetryHandshake
  <2>4. QED
    BY <2>1, <2>2, <2>3, DiscoverSync
<1>3. QED
  BY <1>1, <1>2

LEMMA LoadedEntries ==
  ASSUME NEW st \in State, NEW loaded \in State, NEW p \in Nodes,
         EntriesOf(st, p) = NoEntries
  PROVE  EntriesOf(Load(st, loaded), p) = EntriesOf(loaded, p)
<1>1. \A r \in Rooms : st[r][p] = NoEntry
  BY DEF EntriesOf, NoEntries
<1>2. QED
  BY <1>1, LoadEntries DEF EntriesOf

\* The full state of d: exact for d itself, and for the nodes d follows exactly.
LEMMA GetFullStateSync ==
  ASSUME TypeInv, SyncInv, NEW q \in Nodes, NEW d \in Nodes, GetFullState(q, d)
  PROVE  SyncInv'
<1> DEFINE known(p) == p = d \/ sub[d][p].state # "NONE"
           idOf(p) == IF p = d THEN Len(log[d]) ELSE sub[d][p].last
           ids == [p \in Nodes |-> IF known(p) THEN idOf(p) ELSE -1]
<1>1. Joining(q) /\ phase[q] = "buffering" /\ phase[d] = "joined"
  BY DEF GetFullState
<1>2. CASE /\ phase' = [phase EXCEPT ![q] = "loaded"]
           /\ fs' = [fs EXCEPT ![q] = Load(@, fs[d])]
           /\ join' = [join EXCEPT !.ids = ids, !.hello = Len(log[q])]
           /\ broken' = [broken EXCEPT
                ![q] = @ \cup broken[d] \cup {p \in join.targets : ~known(p)}]
           /\ UNCHANGED <<log, hist, sub, removing>>
  <2>1. fs[q] \in State /\ fs[d] \in State
    BY DEF TypeInv, LogsTyped
  <2>2. LogsTyped' /\ Grows
    <3>1. fs' \in [Nodes -> State]
      BY <1>2, <2>1, LoadEntries DEF TypeInv, LogsTyped
    <3>2. QED
      BY <1>2, <3>1, QuietType DEF TypeInv
  <2>3. \A p \in Nodes : EntriesOf(fs[q], p) = NoEntries
    BY <1>1 DEF SyncInv, EmptyInv, NewcomerInv, Fresh
  <2>4. \A p \in Nodes : EntriesOf(fs'[q], p) = EntriesOf(fs[d], p)
    BY <1>2, <2>1, <2>3, LoadedEntries DEF TypeInv, LogsTyped
  <2>5. \A p \in Nodes : phase[p] \in Fresh => EntriesOf(fs'[q], p) = NoEntries
    BY <2>4 DEF SyncInv, NewcomerInv
  <2>6. /\ join'.node = join.node /\ join'.targets = join.targets
        /\ join'.ids = ids /\ join'.hello = Len(log[q])
    <3> HIDE DEF ids
    <3>1. QED
      BY <1>2 DEF TypeInv, OthersTyped, JoinRecord
  <2>7. /\ phase'[q] = "loaded" /\ Joining(q)'
        /\ \A x \in Nodes \ {q} :
             /\ ~Joining(x) /\ ~Joining(x)'
             /\ phase'[x] = phase[x] /\ sub'[x] = sub[x] /\ fs'[x] = fs[x]
             /\ broken'[x] = broken[x]
    BY <1>1, <1>2, <2>6 DEF Joining, TypeInv, OthersTyped, LogsTyped
  <2>8. NodeSane(q)'
    <3>1. \A removal \in removing[q] : removal.node # q
      BY DEF SyncInv, NodeSane
    <3>2. Len(log[q]) <= Len(log[q])
      BY DEF TypeInv, LogsTyped
    <3>3. QED
      BY <1>2, <2>6, <2>7, <3>1, <3>2 DEF NodeSane
  <2>9. ASSUME NEW p \in Nodes PROVE PairSane(q, p)' /\ PairExact(q, p)'
    <3>1. PairSane(q, p) /\ sub' = sub
      BY <1>2 DEF SyncInv
    <3>2. Unsettled(q, p)' = (p \in join.targets)
      BY <2>6, <2>7 DEF Unsettled
    <3>3. Unsettled(q, p) = (p \in join.targets)
      BY <1>1 DEF Unsettled
    <3>4. PairSane(q, p)'
      BY <2>7, <3>1, <3>2, <3>3 DEF PairSane
    <3>5. ASSUME sub[q][p].state # "NONE", p \notin broken'[q]
          PROVE  /\ Position(q, p)' \in 0..Len(log[p])
                 /\ EntriesOf(fs'[q], p) = After(hist[p], Position(q, p)')
      <4>1. p \in join.targets
        BY <1>1, <3>1, <3>5 DEF PairSane
      <4>2. known(p) /\ p \notin broken[d]
        BY <1>2, <3>5, <4>1 DEF TypeInv, OthersTyped
      <4>3. Position(q, p)' = idOf(p)
        BY <2>6, <3>2, <4>1, <4>2 DEF Position
      <4>4. CASE p = d
        <5>1. Len(log[d]) \in 0..Len(log[d])
          BY DEF TypeInv, LogsTyped
        <5>2. EntriesOf(fs[d], d) = After(hist[d], Len(log[d]))
          BY DEF SyncInv, LogInv
        <5>3. QED
          BY <2>4, <4>3, <4>4, <5>1, <5>2
      <4>5. CASE p # d
        <5>1. sub[d][p].state # "NONE" /\ idOf(p) = sub[d][p].last
          BY <4>2, <4>5
        <5>2. ~Joining(d)
          BY <1>1 DEF SyncInv, NodeSane
        <5>3. Position(d, p) = sub[d][p].last
          BY <5>2 DEF Position, Unsettled
        <5>4. PairExact(d, p)
          BY DEF SyncInv
        <5>5. QED
          BY <1>1, <2>4, <4>2, <4>3, <5>1, <5>3, <5>4 DEF PairExact
      <4>6. QED
        BY <4>4, <4>5
    <3>6. PairExact(q, p)'
      BY <1>2, <3>1, <3>5 DEF PairExact
    <3>7. QED
      BY <3>4, <3>6
  <2>10. phase[q] \in Fresh /\ UNCHANGED <<log, hist, removing>>
    BY <1>1, <1>2 DEF Fresh
  <2> HIDE DEF known, idOf, ids
  <2>11. QED
    BY <2>2, <2>5, <2>7, <2>8, <2>9, <2>10, JoinerStep
<1>3. QED
  BY <1>2, FailToStartSync DEF GetFullState

\* p takes q in: q has no rooms yet, and the subscriber starts where q's log stood.
LEMMA HandleHandshakeSync ==
  ASSUME TypeInv, SyncInv, NEW p \in Nodes, NEW q \in Nodes, HandleHandshake(p, q)
  PROVE  SyncInv'
<1> DEFINE n == IF SlowLinks THEN 0 ELSE NextId(q)
           s == IF sub[p][q].state # "NONE" THEN sub[p][q]
                ELSE [SyncedSubscriber(join.hello) EXCEPT !.next = n]
<1>1. /\ Joining(q) /\ phase[q] = "loaded" /\ phase[p] = "joined" /\ p # q
      /\ UNCHANGED <<phase, log, hist, fs, removing, broken>>
  BY DEF HandleHandshake
<1>2. sub' = [sub EXCEPT ![p][q] = s]
  BY DEF HandleHandshake
<1>3. n \in Nat /\ join.hello \in Nat
  BY DEF TypeInv, LogsTyped, OthersTyped, JoinRecord, NextId
<1>4. sub[p][q].state = "NONE" => s.state = "SANE" /\ s.last = join.hello /\ ~s.syncing
  <2> HIDE DEF n
  <2>1. QED
    BY <1>3, SyncedType
<1>5. sub[p][q].state # "NONE" => s = sub[p][q]
  OBVIOUS
<1>6. /\ join'.node = join.node /\ join'.targets = join.targets
      /\ join'.ids = join.ids /\ join'.hello = join.hello
  BY DEF HandleHandshake, TypeInv, OthersTyped, JoinRecord
<1> HIDE DEF n, s
<1>7. \A x, y \in Nodes : sub'[x][y] = IF x = p /\ y = q THEN s ELSE sub[x][y]
  BY <1>2 DEF TypeInv, SubsTyped
<1>8. LogsTyped' /\ Grows /\ LogStep
  BY <1>1, QuietType, SilentStep DEF TypeInv, LogsTyped
<1>9. LogInv' /\ NewcomerInv' /\ EmptyInv'
  BY <1>1 DEF SyncInv, LogInv, NewcomerInv, EmptyInv
<1>10. ASSUME NEW x \in Nodes PROVE NodeSane(x)'
  <2>1. NodeSane(x)
    BY DEF SyncInv
  <2>2. QED
    BY <1>1, <1>6, <2>1 DEF NodeSane, Joining
<1>11. ~Joining(p)
  BY <1>1 DEF SyncInv, NodeSane
<1>12. ASSUME NEW x \in Nodes, NEW y \in Nodes PROVE PairSane(x, y)'
  <2>1. PairSane(x, y)
    BY DEF SyncInv
  <2>2. Unsettled(x, y)' = Unsettled(x, y)
    BY <1>6 DEF Unsettled, Joining
  <2>3. CASE x = p /\ y = q
    BY <1>1, <1>4, <1>5, <1>7, <1>11, <2>1, <2>2, <2>3 DEF PairSane, Unsettled
  <2>4. CASE ~(x = p /\ y = q)
    BY <1>1, <1>6, <1>7, <2>1, <2>2, <2>4 DEF PairSane
  <2>5. QED
    BY <2>3, <2>4
<1>13. ASSUME NEW x \in Nodes, NEW y \in Nodes PROVE PairExact(x, y)'
  <2>1. PairExact(x, y)
    BY DEF SyncInv
  <2>2. Unsettled(x, y)' = Unsettled(x, y)
    BY <1>6 DEF Unsettled, Joining
  <2>3. CASE sub'[x][y] = sub[x][y]
    <3>1. Position(x, y)' = Position(x, y)
      BY <1>6, <2>2, <2>3 DEF Position
    <3>2. QED
      BY <1>1, <1>8, <2>1, <2>3, <3>1, PairKept
  <2>4. CASE sub'[x][y] # sub[x][y]
    <3>1. x = p /\ y = q /\ sub'[x][y] = s /\ sub[p][q].state = "NONE"
      BY <1>5, <1>7, <2>4
    <3>2. Position(x, y)' = join.hello
      BY <1>4, <1>11, <2>2, <3>1 DEF Position, Unsettled
    <3>3. join.hello \in 0..Len(log[q])
      BY <1>1, <1>3 DEF SyncInv, NodeSane, TypeInv, LogsTyped
    <3>4. EntriesOf(fs[p], q) = NoEntries /\ After(hist[q], join.hello) = NoEntries
      BY <1>1, <3>3 DEF SyncInv, NewcomerInv, Fresh
    <3>5. QED
      BY <1>1, <3>1, <3>2, <3>3, <3>4 DEF PairExact
  <2>5. QED
    BY <2>3, <2>4
<1>14. QED
  BY <1>9, <1>10, <1>12, <1>13 DEF SyncInv

LEMMA HandshakeTimeoutSync ==
  ASSUME TypeInv, SyncInv, NEW q \in Nodes, NEW p \in Nodes, HandshakeTimeout(q, p)
  PROVE  SyncInv'
<1>1. UNCHANGED <<phase, log, hist, fs, sub, removing, broken>>
  BY DEF HandshakeTimeout
<1>2. /\ join'.node = join.node /\ join'.targets = join.targets
      /\ join'.ids = join.ids /\ join'.hello = join.hello
  BY DEF HandshakeTimeout, TypeInv, OthersTyped, JoinRecord
<1>3. LogInv' /\ NewcomerInv' /\ EmptyInv'
  BY <1>1 DEF SyncInv, LogInv, NewcomerInv, EmptyInv
<1>4. \A x \in Nodes : NodeSane(x)'
  BY <1>1, <1>2 DEF SyncInv, NodeSane, Joining
<1>5. ASSUME NEW x \in Nodes, NEW y \in Nodes PROVE PairSane(x, y)' /\ PairExact(x, y)'
  <2>1. PairSane(x, y) /\ PairExact(x, y)
    BY DEF SyncInv
  <2>2. Unsettled(x, y)' = Unsettled(x, y)
    BY <1>2 DEF Unsettled, Joining
  <2>3. Position(x, y)' = Position(x, y)
    BY <1>1, <1>2, <2>2 DEF Position
  <2>4. QED
    BY <1>1, <1>2, <2>1, <2>2, <2>3 DEF PairSane, PairExact
<1>6. QED
  BY <1>3, <1>4, <1>5 DEF SyncInv

\* The end of the handshake with p: q synchronises from the id its full state came
\* with, or forgets p.
LEMMA SettleSync ==
  ASSUME TypeInv, SyncInv, NEW q \in Nodes, NEW p \in Nodes, Settle(q, p)
  PROVE  SyncInv'
<1> DEFINE from == SyncFrom(p)
           synced == [sub[q][p] EXCEPT !.last = from, !.syncing = TRUE]
<1>1. Joining(q) /\ phase[q] = "loaded" /\ p \in join.targets
  BY DEF Settle
<1>2. ASSUME NEW t \in Subscriber, sub' = [sub EXCEPT ![q][p] = t],
             t = NoSubscriber \/ (/\ sub[q][p].state # "NONE"
                                  /\ t.state = sub[q][p].state /\ t.last = from),
             join' = IF join.targets = {p} THEN NoJoin
                     ELSE [join EXCEPT !.targets = @ \ {p}],
             phase' = [phase EXCEPT ![q] = IF join.targets = {p} THEN "joined" ELSE @],
             UNCHANGED <<log, hist, fs, removing, broken>>
      PROVE  SyncInv'
  <2>1. LogsTyped' /\ Grows
    BY <1>2, QuietType DEF TypeInv, LogsTyped
  <2>2. phase'[q] = IF join.targets = {p} THEN "joined" ELSE "loaded"
    BY <1>1, <1>2 DEF TypeInv, OthersTyped
  <2>3. join.targets # {p} => /\ join'.node = {q} /\ join'.targets = join.targets \ {p}
                              /\ join'.ids = join.ids /\ join'.hello = join.hello
    BY <1>1, <1>2 DEF Joining, TypeInv, OthersTyped, JoinRecord
  <2>4. join.targets = {p} => join'.node = {}
    BY <1>2 DEF NoJoin
  <2>5. \A x \in Nodes \ {q} :
          /\ ~Joining(x) /\ ~Joining(x)'
          /\ phase'[x] = phase[x] /\ sub'[x] = sub[x] /\ fs'[x] = fs[x]
          /\ broken'[x] = broken[x]
    BY <1>1, <1>2, <2>3, <2>4 DEF Joining, TypeInv, OthersTyped, SubsTyped
  <2>6. NodeSane(q)'
    <3>1. NodeSane(q)
      BY DEF SyncInv
    <3>2. QED
      BY <1>1, <1>2, <2>2, <2>3, <2>4, <3>1 DEF NodeSane, Joining
  <2>7. /\ \A y \in Nodes : Unsettled(q, y)' <=> Unsettled(q, y) /\ y # p
        /\ Unsettled(q, p)
    BY <1>1, <2>3, <2>4 DEF Unsettled, Joining
  <2>8. /\ sub'[q][p] = t
        /\ \A y \in Nodes \ {p} : sub'[q][y] = sub[q][y]
    BY <1>2 DEF TypeInv, SubsTyped
  <2>9. NoSubscriber.state = "NONE" /\ ~NoSubscriber.syncing
    BY DEF NoSubscriber
  <2>10. ASSUME NEW y \in Nodes PROVE PairSane(q, y)'
    <3>1. PairSane(q, y)
      BY DEF SyncInv
    <3>2. CASE y = p
      BY <1>2, <2>2, <2>7, <2>8, <2>9, <3>1, <3>2 DEF PairSane
    <3>3. CASE y # p
      BY <2>2, <2>7, <2>8, <3>1, <3>3 DEF PairSane
    <3>4. QED
      BY <3>2, <3>3
  <2>11. ASSUME NEW y \in Nodes PROVE PairExact(q, y)'
    <3>1. PairExact(q, y)
      BY DEF SyncInv
    <3>2. CASE y = p
      <4>1. CASE t = NoSubscriber
        BY <2>8, <2>9, <3>2, <4>1 DEF PairExact
      <4>2. ASSUME sub[q][p].state # "NONE", t.last = from, p \notin broken[q]
            PROVE  Position(q, p)' = Position(q, p)
        <5>1. Position(q, p) = join.ids[p] /\ Position(q, p) \in 0..Len(log[p])
          BY <1>1, <2>7, <3>1, <3>2, <4>2 DEF PairExact, Position
        <5>2. join.ids[p] # -1
          BY <5>1 DEF TypeInv, LogsTyped
        <5>3. from = join.ids[p]
          BY <5>2 DEF SyncFrom
        <5>4. QED
          BY <2>7, <2>8, <4>2, <5>1, <5>3 DEF Position
      <4>3. QED
        BY <1>1, <1>2, <2>8, <3>1, <3>2, <4>1, <4>2 DEF PairExact
    <3>3. CASE y # p
      <4>1. Unsettled(q, y)' <=> Unsettled(q, y)
        BY <2>7, <3>3
      <4>2. Unsettled(q, y) => join'.ids = join.ids
        BY <2>3, <3>3 DEF Unsettled
      <4>3. Position(q, y)' = Position(q, y)
        BY <2>8, <3>3, <4>1, <4>2 DEF Position
      <4>4. QED
        BY <1>1, <1>2, <2>8, <3>1, <3>3, <4>3 DEF PairExact
    <3>4. QED
      BY <3>2, <3>3
  <2>12. /\ \A y \in Nodes : phase[y] \in Fresh => EntriesOf(fs'[q], y) = NoEntries
         /\ phase[q] \in Fresh
    BY <1>1, <1>2 DEF SyncInv, NewcomerInv, Fresh
  <2>13. phase'[q] \in {"buffering", "loaded", "joined"} /\ phase'[q] # "buffering"
    BY <2>2
  <2>14. UNCHANGED <<log, hist, removing>>
    BY <1>2
  <2>15. QED
    BY <2>1, <2>5, <2>6, <2>10, <2>11, <2>12, <2>13, <2>14, JoinerStep
<1>3. CASE FailToStart(q)
  BY <1>3, FailToStartSync
<1>4. CASE /\ ~FailToStart(q)
           /\ sub' = [sub EXCEPT ![q][p] = NoSubscriber]
  <2>1. NoSubscriber \in Subscriber
    BY RecordTypes
  <2>2. QED
    BY <1>2, <1>4, <2>1 DEF Settle
<1>5. CASE /\ ~FailToStart(q) /\ sub[q][p].state # "NONE" /\ join.answer[p] # -1
           /\ sub' = [sub EXCEPT ![q][p].last = from, ![q][p].syncing = TRUE]
  <2>1. from \in Nat
    BY <1>5 DEF SyncFrom, TypeInv, OthersTyped, JoinRecord
  <2>2. sub[q][p] \in Subscriber
    BY DEF TypeInv, SubsTyped
  <2>3. synced \in Subscriber /\ synced.state = sub[q][p].state /\ synced.last = from
    <3> HIDE DEF from
    <3>1. QED
      BY <2>1, <2>2 DEF Subscriber
  <2>4. sub' = [sub EXCEPT ![q][p] = synced]
    BY <1>5 DEF TypeInv, SubsTyped
  <2>5. /\ join' = IF join.targets = {p} THEN NoJoin
                   ELSE [join EXCEPT !.targets = @ \ {p}]
        /\ phase' = [phase EXCEPT ![q] = IF join.targets = {p} THEN "joined" ELSE @]
        /\ UNCHANGED <<log, hist, fs, removing, broken>>
    BY <1>5 DEF Settle
  <2> HIDE DEF synced, from
  <2>6. QED
    BY <1>2, <1>5, <2>3, <2>4, <2>5
<1>6. QED
  BY <1>3, <1>4, <1>5 DEF Settle
-----------------------------------------------------------------------------
LEMMA NextSync ==
  ASSUME TypeInv, SyncInv, ~SlowHandshake, [Next]_vars
  PROVE  SyncInv'
<1>1. CASE UNCHANGED vars
  BY <1>1 DEF vars, SyncInv, LogInv, NewcomerInv, EmptyInv, NodeSane, PairSane,
              PairExact, Position, Unsettled, Joining
<1>2. ASSUME NEW p \in Nodes, LocalStep(p)
      PROVE  SyncInv'
  <2>1. CASE \E r \in Rooms : OpenRoom(p, r) \/ Subscribe(p, r) \/ Unsubscribe(p, r)
                              \/ CloseRoom(p, r)
    BY <2>1, ClientsSync
  <2>2. CASE Shutdown(p)
    BY <2>2, StopSync DEF Shutdown
  <2>3. CASE Crash(p)
    BY <2>3, FailToStartSync DEF Crash
  <2>4. QED
    BY <1>2, <2>1, <2>2, <2>3, HeartbeatSync, FinishRemovalSync, StartHandshakeSync,
       RetryHandshakeSync DEF LocalStep
<1>3. ASSUME NEW q \in Nodes, NEW p \in Nodes, RemoteStep(q, p)
      PROVE  SyncInv'
  BY <1>3, ConnectSync, ReceiveSync, LoseSync, CheckHeartbeatSync, GetFullStateSync,
     HandleHandshakeSync, HandshakeTimeoutSync, SettleSync, SyncBufferedSync
     DEF RemoteStep
<1>4. QED
  BY <1>1, <1>2, <1>3 DEF Next

\* A node that follows another has a view of it that is exact at the message its
\* subscriber stands for.
LEMMA FollowingExact ==
  ASSUME TypeInv, SyncInv
  PROVE  ViewMatchesSender
<1> SUFFICES ASSUME NEW q \in Nodes, NEW p \in Nodes, Following(q, p), p \notin broken[q]
             PROVE  EntriesOf(fs[q], p) = OwnEntries(p, sub[q][p].last)
  BY DEF ViewMatchesSender
<1>1. sub[q][p].state # "NONE" /\ ~Unsettled(q, p) /\ Alive(q)
  BY DEF Following, Unsettled
<1>2. phase[q] \in {"loaded", "joined"}
  BY <1>1 DEF SyncInv, PairSane, NodeSane, Unsettled, Alive
<1>3. Position(q, p) = sub[q][p].last
  BY <1>1 DEF Position
<1>4. EntriesOf(fs[q], p) = After(hist[p], sub[q][p].last)
  BY <1>1, <1>2, <1>3 DEF SyncInv, PairExact
<1>5. QED
  BY <1>4 DEF After, OwnEntries, NoEntries

\* The replication is exact (ViewMatchesSender) for any nodes, rooms, messages lost or
\* delayed, crashes and shutdowns, as long as a handshake ends before the timer of
\* checkHeartbeat, which would take its subscribers out of BUFFERING, fires.
THEOREM ViewsExact ==
  ASSUME ~SlowHandshake
  PROVE  Spec => []ViewMatchesSender
<1>1. TypeInv /\ SyncInv /\ [Next]_vars => (TypeInv /\ SyncInv)'
  BY NextType, NextSync
<1>2. Init => TypeInv /\ SyncInv
  BY InitType, InitSync
<1>3. TypeInv /\ SyncInv => ViewMatchesSender
  BY FollowingExact
<1>4. QED
  BY <1>1, <1>2, <1>3, PTL DEF Spec
-----------------------------------------------------------------------------
(***************************************************************************)
(* What a node announces of its own rooms.  HotelClerk takes no other      *)
(* steps than those of RoomEntries; neither does anything a cluster does.  *)
(* The ids are shared with the messages that say nothing of rooms.         *)
(***************************************************************************)
Entries(p) == INSTANCE RoomEntries WITH own <- EntriesOf(fs[p], p), sent <- Len(log[p])

\* x says nothing of rooms.
Quiet(x) ==
  \/ log'[x] = log[x]
  \/ \E m : m.type \notin RoomMessages /\ log'[x] = Append(log[x], m)

LEMMA QuietPublish ==
  ASSUME LogsTyped, NEW q \in Nodes, NEW m, m.type \notin RoomMessages, NEW st,
         Publish(q, m, st), NEW x \in Nodes
  PROVE  Quiet(x)
<1>1. log' = [log EXCEPT ![q] = Append(@, m)]
  BY DEF Publish
<1>2. QED
  BY <1>1 DEF Quiet, LogsTyped

LEMMA QuietTypes ==
  ASSUME NEW p
  PROVE  /\ [type |-> "Heartbeat"].type \notin RoomMessages
         /\ [type |-> "NodeEvicted", node |-> p].type \notin RoomMessages
         /\ [type |-> "NodeShutdown", node |-> p].type \notin RoomMessages
  BY DEF RoomMessages

LEMMA QuietStop ==
  ASSUME LogsTyped, NEW q \in Nodes, Stop(q), NEW x \in Nodes
  PROVE  Quiet(x)
  BY QuietPublish, QuietTypes DEF Stop, Announce

LEMMA QuietDesync ==
  ASSUME LogsTyped, NEW q \in Nodes, NEW p, NEW st, Desync(q, p, st), NEW x \in Nodes
  PROVE  Quiet(x)
  BY QuietPublish, QuietTypes DEF Desync, SelfEviction

LEMMA QuietProcess ==
  ASSUME LogsTyped, NEW q \in Nodes, NEW p \in Nodes, NEW id, NEW s,
         Process(q, p, id, s), NEW x \in Nodes
  PROVE  Quiet(x)
<1>1. \/ log' = log
      \/ Stop(q)
      \/ \E st : Desync(q, p, st)
  <2>1. CASE \E t : Handle(q, p, log[p][id], id, t)
    BY <2>1 DEF Handle
  <2>2. QED
    BY <2>1 DEF Process
<1>2. QED
  BY <1>1, QuietStop, QuietDesync DEF Quiet

\* Only the clients of a node make it speak of rooms.
LEMMA NextQuiet ==
  ASSUME LogsTyped, [Next]_vars, NEW x \in Nodes
  PROVE  \/ Quiet(x)
         \/ \E r \in Rooms : \/ OpenRoom(x, r) \/ Subscribe(x, r)
                             \/ Unsubscribe(x, r) \/ CloseRoom(x, r)
<1>1. CASE UNCHANGED vars
  BY <1>1 DEF vars, Quiet
<1>2. ASSUME NEW p \in Nodes, NEW r \in Rooms, p # x,
             OpenRoom(p, r) \/ Subscribe(p, r) \/ Unsubscribe(p, r) \/ CloseRoom(p, r)
      PROVE  Quiet(x)
  BY <1>2 DEF OpenRoom, Subscribe, Unsubscribe, CloseRoom, Publish, LogsTyped, Quiet
<1>3. ASSUME NEW p \in Nodes, Heartbeat(p)
      PROVE  Quiet(x)
  BY <1>3, QuietPublish, QuietTypes DEF Heartbeat, Announce
<1>4. ASSUME NEW p \in Nodes, FinishRemoval(p)
      PROVE  Quiet(x)
  <2>1. \/ log' = log
        \/ \E n, st : Publish(p, [type |-> "NodeEvicted", node |-> n], st)
    BY <1>4 DEF FinishRemoval
  <2>2. QED
    BY <2>1, QuietPublish, QuietTypes DEF Quiet
<1>5. ASSUME NEW p \in Nodes, Crash(p) \/ StartHandshake(p)
      PROVE  Quiet(x)
  BY <1>5 DEF Crash, FailToStart, StartHandshake, Quiet
<1>6. ASSUME NEW p \in Nodes, Shutdown(p) \/ RetryHandshake(p)
      PROVE  Quiet(x)
  <2>1. log' = log \/ Stop(p)
    BY <1>6 DEF Shutdown, RetryHandshake
  <2>2. QED
    BY <2>1, QuietStop DEF Quiet
<1>7. ASSUME NEW q \in Nodes, NEW p \in Nodes, RemoteStep(q, p)
      PROVE  Quiet(x)
  <2>1. CASE Receive(q, p)
    BY <2>1, QuietProcess DEF Receive, Quiet
  <2>2. CASE SyncBuffered(q, p)
    BY <2>2, QuietProcess DEF SyncBuffered, Quiet
  <2>3. CASE Connect(q, p) \/ Lose(q, p) \/ CheckHeartbeat(q, p) \/ HandleHandshake(p, q)
             \/ HandshakeTimeout(q, p)
    BY <2>3 DEF Connect, Lose, CheckHeartbeat, HandleHandshake, HandshakeTimeout, Quiet
  <2>4. CASE GetFullState(q, p) \/ Settle(q, p)
    BY <2>4 DEF GetFullState, Settle, FailToStart, Quiet
  <2>5. QED
    BY <1>7, <2>1, <2>2, <2>3, <2>4 DEF RemoteStep
<1>8. QED
  BY <1>1, <1>2, <1>3, <1>4, <1>5, <1>6, <1>7 DEF Next, LocalStep

\* A node that says nothing of rooms keeps its own entries.
LEMMA QuietKeepsEntries ==
  ASSUME TypeInv, TypeInv', Grows, SyncInv, SyncInv', NEW x \in Nodes, Quiet(x)
  PROVE  EntriesOf(fs[x], x)' = EntriesOf(fs[x], x)
<1> DEFINE k == Len(log[x])
<1>1. /\ k \in Nat /\ k \in 0..k /\ log[x] \in Seq(Message)
      /\ EntriesOf(fs[x], x) = After(hist[x], k)
      /\ EntriesOf(fs'[x], x) = After(hist'[x], Len(log'[x]))
      /\ \A i \in 1..Len(log'[x]) :
           After(hist'[x], i) = Stepped(After(hist'[x], i - 1), log'[x][i], i)
  BY DEF TypeInv, LogsTyped, SyncInv, LogInv
<1>2. After(hist'[x], k) = After(hist[x], k)
  BY <1>1, OwnKept
<1>3. CASE log'[x] = log[x]
  BY <1>1, <1>2, <1>3
<1>4. ASSUME NEW m, m.type \notin RoomMessages, log'[x] = Append(log[x], m)
      PROVE  EntriesOf(fs'[x], x) = EntriesOf(fs[x], x)
  <2>1. /\ Len(log'[x]) = k + 1 /\ k + 1 \in 1..Len(log'[x])
        /\ log'[x][k + 1] = m /\ (k + 1) - 1 = k
    BY <1>1, <1>4
  <2>2. After(hist'[x], k + 1) = Stepped(After(hist'[x], k), m, k + 1)
    BY <1>1, <2>1
  <2> HIDE DEF k
  <2>3. After(hist'[x], k + 1) = After(hist'[x], k)
    BY <1>4, <2>2, QuietMessage
  <2>4. QED
    BY <1>1, <1>2, <2>1, <2>3
<1>5. QED
  BY <1>3, <1>4 DEF Quiet

\* One entry of p changes, and one message is sent.
LEMMA EntryStep ==
  ASSUME TypeInv, NEW p \in Nodes, NEW r \in Rooms, NEW m, NEW st \in State, NEW e,
         Publish(p, m, st),
         \A q \in Rooms : st[q][p] = IF q = r THEN e ELSE fs[p][q][p]
  PROVE  /\ EntriesOf(fs[p], p)' = [EntriesOf(fs[p], p) EXCEPT ![r] = e]
         /\ Len(log[p])' = Len(log[p]) + 1
         /\ EntriesOf(fs[p], p)[r] = fs[p][r][p]
<1>1. fs'[p] = st /\ log'[p] = Append(log[p], m)
  BY DEF Publish, TypeInv, LogsTyped
<1>2. log[p] \in Seq(Message)
  BY DEF TypeInv, LogsTyped
<1>3. Len(log[p])' = Len(log[p]) + 1
  BY <1>1, <1>2
<1>4. EntriesOf(fs[p], p)' = [q \in Rooms |-> IF q = r THEN e ELSE fs[p][q][p]]
  BY <1>1 DEF EntriesOf
<1>5. QED
  BY <1>3, <1>4 DEF EntriesOf

LEMMA ClientsAnnounce ==
  ASSUME TypeInv, NEW p \in Nodes, NEW r \in Rooms,
         OpenRoom(p, r) \/ Subscribe(p, r) \/ Unsubscribe(p, r) \/ CloseRoom(p, r)
  PROVE  Entries(p)!Next
<1> DEFINE id == Len(log[p]) + 1
<1>1. fs[p] \in State /\ NextId(p) = id /\ id \in Nat
  BY DEF TypeInv, LogsTyped, NextId
<1> HIDE DEF id
<1>2. CASE OpenRoom(p, r)
  <2> DEFINE e == [subs |-> 0, mid |-> id]
             st == AddRoom(fs[p], r, p, e)
  <2>1. st \in State /\ \A q \in Rooms : st[q][p] = IF q = r THEN e ELSE fs[p][q][p]
    BY <1>1, NewEntry, AddRoomEntries
  <2>2. fs[p][r][p] = NoEntry /\ \E m : Publish(p, m, st)
    BY <1>1, <1>2 DEF OpenRoom, CanAddRoom
  <2> HIDE DEF st
  <2>3. Entries(p)!Open(r)
    BY <2>1, <2>2, EntryStep DEF Entries!Open, id
  <2>4. QED
    BY <2>3 DEF Entries!Next
<1>3. CASE Subscribe(p, r)
  <2> DEFINE e == Bump(fs[p][r][p], 1, id)
             st == AddSubscription(fs[p], r, p, id)
  <2>1. fs[p][r][p] # NoEntry /\ \E m : Publish(p, m, st)
    BY <1>1, <1>3 DEF Subscribe, Known
  <2>2. st \in State /\ \A q \in Rooms : st[q][p] = IF q = r THEN e ELSE fs[p][q][p]
    BY <1>1, <2>1, SubscriptionEntries DEF Known
  <2> HIDE DEF st
  <2>3. e = Entries(p)!Bump(fs[p][r][p], 1, id)
    BY DEF Entries!Bump, Bump
  <2> HIDE DEF e
  <2>4. /\ EntriesOf(fs[p], p)' = [EntriesOf(fs[p], p) EXCEPT ![r] = e]
        /\ Len(log[p])' = id /\ EntriesOf(fs[p], p)[r] = fs[p][r][p]
    BY <2>1, <2>2, EntryStep DEF id
  <2>5. Entries(p)!Subscribe(r)
    BY <2>1, <2>3, <2>4 DEF Entries!Subscribe, id
  <2>6. QED
    BY <2>5 DEF Entries!Next
<1>4. CASE Unsubscribe(p, r)
  <2> DEFINE e == Bump(fs[p][r][p], -1, id)
             st == RemoveSubscription(fs[p], r, p, id)
  <2>1. fs[p][r][p] # NoEntry /\ fs[p][r][p].subs > 0 /\ \E m : Publish(p, m, st)
    BY <1>1, <1>4 DEF Unsubscribe, Known
  <2>2. st \in State /\ \A q \in Rooms : st[q][p] = IF q = r THEN e ELSE fs[p][q][p]
    BY <1>1, <2>1, SubscriptionEntries DEF Known
  <2> HIDE DEF st
  <2>3. e = Entries(p)!Bump(fs[p][r][p], -1, id)
    BY DEF Entries!Bump, Bump
  <2> HIDE DEF e
  <2>4. /\ EntriesOf(fs[p], p)' = [EntriesOf(fs[p], p) EXCEPT ![r] = e]
        /\ Len(log[p])' = id /\ EntriesOf(fs[p], p)[r] = fs[p][r][p]
    BY <2>1, <2>2, EntryStep DEF id
  <2>5. Entries(p)!Unsubscribe(r)
    BY <2>1, <2>3, <2>4 DEF Entries!Unsubscribe, id
  <2>6. QED
    BY <2>5 DEF Entries!Next
<1>5. CASE CloseRoom(p, r)
  <2> DEFINE st == RemoveRoom(fs[p], r, p)
  <2>1. fs[p][r][p] # NoEntry /\ \E m : Publish(p, m, st)
    BY <1>5 DEF CloseRoom, Known
  <2>2. st \in State /\ \A q \in Rooms : st[q][p] = IF q = r THEN NoEntry ELSE fs[p][q][p]
    BY <1>1, RemoveRoomEntries
  <2> HIDE DEF st
  <2>3. Entries(p)!Close(r)
    BY <2>1, <2>2, EntryStep DEF Entries!Close
  <2>4. QED
    BY <2>3 DEF Entries!Next
<1>6. QED
  BY <1>2, <1>3, <1>4, <1>5

\* Whatever happens in the cluster, the entries a node has about itself start empty and
\* change only by a step of RoomEntries, with one message that announces it: neither a
\* full state, nor an eviction, nor a message of another node touches them.
THEOREM EntriesAnnounced ==
  ASSUME ~SlowHandshake, NEW p \in Nodes
  PROVE  Spec => Entries(p)!Init /\ [][Entries(p)!Next]_(EntriesOf(fs[p], p))
<1>1. Init => TypeInv /\ SyncInv /\ Entries(p)!Init
  <2>1. Init => Entries(p)!Init
    BY DEF Init, Entries!Init, EntriesOf, EmptyState
  <2>2. QED
    BY <2>1, InitType, InitSync
<1>2. TypeInv /\ SyncInv /\ [Next]_vars =>
        (TypeInv /\ SyncInv)' /\ [Entries(p)!Next]_(EntriesOf(fs[p], p))
  <2> SUFFICES ASSUME TypeInv, SyncInv, [Next]_vars
               PROVE  /\ (TypeInv /\ SyncInv)'
                      /\ Entries(p)!Next \/ EntriesOf(fs[p], p)' = EntriesOf(fs[p], p)
    OBVIOUS
  <2>1. TypeInv' /\ Grows /\ SyncInv'
    BY NextType, NextSync
  <2>2. CASE Quiet(p)
    BY <2>1, <2>2, QuietKeepsEntries
  <2>3. CASE \E r \in Rooms : \/ OpenRoom(p, r) \/ Subscribe(p, r)
                              \/ Unsubscribe(p, r) \/ CloseRoom(p, r)
    BY <2>1, <2>3, ClientsAnnounce
  <2>4. QED
    BY <2>1, <2>2, <2>3, NextQuiet DEF TypeInv
<1>3. QED
  BY <1>1, <1>2, PTL DEF Spec
=============================================================================
