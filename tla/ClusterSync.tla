---------------------------- MODULE ClusterSync ----------------------------
(***************************************************************************)
(* How Kuzzle nodes join a cluster, replicate their realtime subscriptions *)
(* to each other, notice lost messages and dead nodes, and evict them      *)
(* (lib/cluster: node.js, publisher.js, subscriber.js, command.js).        *)
(*                                                                         *)
(* Every node numbers the sync messages it publishes 1, 2, 3...  A remote  *)
(* node reads them through a subscriber, in order, and keeps a view of the *)
(* sender's subscriptions in its own full state.  A node that joins gets   *)
(* the full state from one remote node, chosen at random, and the other    *)
(* nodes' message ids that this state corresponds to.                      *)
(***************************************************************************)
EXTENDS FullState, Sequences

CONSTANTS
  Seeds,            \* nodes that already form a cluster in the initial state
  Joiners,          \* nodes that may start and join it
  Publishers,       \* nodes whose clients subscribe (bounds the runs, not the code)
  MaxPublished,     \* bound: a node's clients act while its log is shorter
  MaxBeats,         \* bound: a node beats while its log is shorter
  MaxLog,           \* bound: length of a node's log, its announcements included
  MaxSubs,          \* bound: subscribers of a node in a room
  MaxLost,          \* bound: messages lost between two nodes, over a behaviour
  MaxCrashes,       \* bound: nodes that crash, over a behaviour
  SlowHandshake,    \* may a handshake outlast heartbeatDelay * 1.5?
  SlowLinks,        \* may a message be delayed past a handshake?
  MayShutDown       \* may a node be stopped by its operator?

ASSUME BoundsAssumption ==
  /\ MaxPublished \in Nat /\ MaxBeats \in Nat /\ MaxLog \in Nat /\ MaxSubs \in Nat
  /\ MaxLost \in Nat /\ MaxCrashes \in Nat
  /\ {SlowHandshake, SlowLinks, MayShutDown} \subseteq BOOLEAN
  /\ Seeds \subseteq Nodes /\ Joiners \subseteq Nodes \ Seeds
  /\ Publishers \subseteq Nodes

VARIABLES
  phase,     \* life of each node, see Phase
  log,       \* log[p]: the messages p has published; the index is the messageId
  hist,      \* history: hist[p][k] is p's own entries just after its k-th message
  fs,        \* fs[q]: the full state of q
  sub,       \* sub[q][p]: the subscriber of q to p, see Subscriber
  removing,  \* removing[q]: evictNode calls of q waiting for their ID card save
  join,      \* the handshake in progress (the cluster mutex allows only one)
  lost,      \* number of messages lost so far
  crashed,   \* nodes that died without a word: their ID cards may still be there
  broken     \* history: broken[q] are the nodes q has lost synchronisation with

vars == <<phase, log, hist, fs, sub, removing, join, lost, crashed, broken>>
-----------------------------------------------------------------------------
(***************************************************************************)
(* "off": not started; "buffering": subscribed to the nodes it discovered; *)
(* "loaded": full state loaded, introducing itself to the other nodes;     *)
(* "joined": handshake done; "down": stopped or killed.                    *)
(***************************************************************************)
Phase == {"off", "buffering", "loaded", "joined", "down"}

Alive(p) == phase[p] \in {"buffering", "loaded", "joined"}

Message ==
  [type : {"NewRealtimeRoom", "Subscription", "Unsubscription",
           "RemoveRealtimeRoom"}, room : Rooms]
  \cup [type : {"NodeEvicted", "NodeShutdown"}, node : Nodes]
  \cup [type : {"Heartbeat"}]

(***************************************************************************)
(* A ClusterSubscriber.  state is its stateEnum, or "NONE" when remoteNodes *)
(* has no subscriber for that node; last is lastMessageId; buf the ids it   *)
(* buffered; syncing says that sync() was called and is draining them;      *)
(* next is the id the socket delivers next, 0 until the subscription is     *)
(* effective on the remote publisher; heard says that a message was         *)
(* processed since the last checkHeartbeat, which runs every                *)
(* heartbeatDelay * 1.5: that is what lastHeartbeat tells it.               *)
(***************************************************************************)
SubState == {"NONE", "BUFFERING", "SANE", "MISSING_HEARTBEAT", "EVICTED"}

Subscriber ==
  [state : SubState, last : Nat, buf : Seq(Nat), syncing : BOOLEAN,
   next : Nat, heard : BOOLEAN]

NoSubscriber ==
  [state |-> "NONE", last |-> 0, buf |-> <<>>, syncing |-> FALSE,
   next |-> 0, heard |-> FALSE]

NewSubscriber == [NoSubscriber EXCEPT !.state = "BUFFERING"]

\* addNode on an established node: init() then sync(lastMessageId), with
\* nothing buffered in between.
SyncedSubscriber(id) == [NoSubscriber EXCEPT !.state = "SANE", !.last = id]

Remotes(q) == {p \in Nodes : sub[q][p].state # "NONE"}

\* An evictNode call: the node to remove, whether to tell the others, and the
\* subscriber whose message loop awaits the call (q itself for a timer).
Removal == [node : Nodes, broadcast : BOOLEAN, by : Nodes]

NoJoin ==
  [node |-> {}, targets |-> {}, ids |-> [p \in Nodes |-> -1], hello |-> 0,
   answer |-> [p \in Nodes |-> -1], waiting |-> {}, retried |-> FALSE]

Joining(q) == join.node = {q}

\* The entries p had about itself once it had sent k messages.
OwnEntries(p, k) ==
  IF k = 0 THEN [r \in Rooms |-> NoEntry] ELSE hist[p][k]

Init ==
  /\ phase = [p \in Nodes |-> IF p \in Seeds THEN "joined" ELSE "off"]
  /\ log = [p \in Nodes |-> <<>>]
  /\ hist = [p \in Nodes |-> <<>>]
  /\ fs = [p \in Nodes |-> EmptyState]
  /\ sub = [q \in Nodes |-> [p \in Nodes |->
              IF q \in Seeds /\ p \in Seeds \ {q}
              THEN [SyncedSubscriber(0) EXCEPT !.next = 1] ELSE NoSubscriber]]
  /\ removing = [p \in Nodes |-> {}]
  /\ join = NoJoin
  /\ lost = 0
  /\ crashed = {}
  /\ broken = [p \in Nodes |-> {}]
-----------------------------------------------------------------------------
(***************************************************************************)
(* Publishing.  ClusterPublisher.send gives the message the next id; the   *)
(* caller applies the same change to the node's own entries with that id,  *)
(* in the same synchronous block.                                          *)
(***************************************************************************)
NextId(p) == Len(log[p]) + 1

\* p publishes one message and has st as full state from then on.
Publish(p, m, st) ==
  /\ log' = [log EXCEPT ![p] = Append(@, m)]
  /\ hist' = [hist EXCEPT ![p] = Append(@, EntriesOf(st, p))]
  /\ fs' = [fs EXCEPT ![p] = st]

\* The same for a message that says nothing of rooms.
Announce(p, m) == Publish(p, m, fs[p])

\* evictSelf: the node tells the others to evict it, and does nothing else.
SelfEviction(p) == [type |-> "NodeEvicted", node |-> p]

HasEvictedSelf(p) == \E i \in 1..Len(log[p]) : log[p][i] = SelfEviction(p)

CanPublish(p) ==
  p \in Publishers /\ phase[p] = "joined" /\ Len(log[p]) < MaxPublished

\* What the clients of p do to its rooms: the steps of RoomEntries, which
\* HotelClerk implements.
\* onNewRealtimeRoom.
OpenRoom(p, r) ==
  /\ CanPublish(p) /\ CanAddRoom(fs[p], r, p)
  /\ Publish(p, [type |-> "NewRealtimeRoom", room |-> r],
             AddRoom(fs[p], r, p, [subs |-> 0, mid |-> NextId(p)]))
  /\ UNCHANGED <<phase, sub, removing, join, lost, crashed, broken>>

\* onNewSubscription.
Subscribe(p, r) ==
  /\ CanPublish(p) /\ Known(fs[p], r, p) /\ fs[p][r][p].subs < MaxSubs
  /\ Publish(p, [type |-> "Subscription", room |-> r],
             AddSubscription(fs[p], r, p, NextId(p)))
  /\ UNCHANGED <<phase, sub, removing, join, lost, crashed, broken>>

\* onUnsubscription.
Unsubscribe(p, r) ==
  /\ CanPublish(p) /\ Known(fs[p], r, p) /\ fs[p][r][p].subs > 0
  /\ Publish(p, [type |-> "Unsubscription", room |-> r],
             RemoveSubscription(fs[p], r, p, NextId(p)))
  /\ UNCHANGED <<phase, sub, removing, join, lost, crashed, broken>>

\* removeRealtimeRoom.
CloseRoom(p, r) ==
  /\ CanPublish(p) /\ Known(fs[p], r, p)
  /\ Publish(p, [type |-> "RemoveRealtimeRoom", room |-> r],
             RemoveRoom(fs[p], r, p))
  /\ UNCHANGED <<phase, sub, removing, join, lost, crashed, broken>>

\* startHeartbeat's timer; it runs as soon as the ID card exists.
Heartbeat(p) ==
  /\ Alive(p) /\ Len(log[p]) < MaxBeats
  /\ phase[p] = "loaded" => SlowHandshake
  /\ Announce(p, [type |-> "Heartbeat"])
  /\ UNCHANGED <<phase, sub, removing, join, lost, crashed, broken>>
-----------------------------------------------------------------------------
(***************************************************************************)
(* Leaving.                                                                *)
(***************************************************************************)

\* The process of q is gone; its handshake, if any, goes with it.
Gone(q) ==
  /\ phase' = [phase EXCEPT ![q] = "down"]
  /\ sub' = [sub EXCEPT ![q] = [p \in Nodes |-> NoSubscriber]]
  /\ removing' = [removing EXCEPT ![q] = {}]
  /\ join' = IF Joining(q) THEN NoJoin ELSE join

\* kuzzle.shutdown, as far as the cluster is concerned: the subscribers are
\* disposed of, NodeShutdown is sent, the publisher closed once it is emptied.
Stop(q) ==
  /\ Gone(q)
  /\ Announce(q, [type |-> "NodeShutdown", node |-> q])
  /\ UNCHANGED broken

\* Node.init throws: Kuzzle cannot start.
FailToStart(q) ==
  /\ Gone(q)
  /\ crashed' = crashed \cup {q}
  /\ UNCHANGED <<log, hist, fs, lost, broken>>

Shutdown(q) ==
  /\ MayShutDown /\ phase[q] = "joined"
  /\ Stop(q)
  /\ UNCHANGED <<lost, crashed>>

Crash(q) ==
  /\ Alive(q) /\ Cardinality(crashed) < MaxCrashes
  /\ FailToStart(q)

\* Mutant: a node already marked as evicted is taken for a removed one.
BeginRemovalOfUnmarked(q, removal) ==
  removing' = [removing EXCEPT ![q] =
                 IF sub[q][removal.node].state \in {"NONE", "MISSING_HEARTBEAT"}
                 THEN @ ELSE @ \cup {removal}]

\* evictNode, up to the ID card save it awaits: a node that has no subscriber
\* any more is left alone.
BeginRemoval(q, removal) ==
  removing' = [removing EXCEPT ![q] =
                 IF sub[q][removal.node].state = "NONE" THEN @
                 ELSE @ \cup {removal}]

\* evictNode, after that save.
FinishRemoval(q) ==
  \E removal \in removing[q] :
    LET p == removal.node IN
    /\ removing' = [removing EXCEPT ![q] = @ \ {removal}]
    /\ sub' = [sub EXCEPT ![q][p] = NoSubscriber]
    /\ \/ /\ removal.broadcast
          /\ Publish(q, [type |-> "NodeEvicted", node |-> p],
                     RemoveNode(fs[q], p))
       \/ /\ ~removal.broadcast
          /\ fs' = [fs EXCEPT ![q] = RemoveNode(@, p)]
          /\ UNCHANGED <<log, hist>>
    /\ UNCHANGED <<phase, join, lost, crashed, broken>>
-----------------------------------------------------------------------------
(***************************************************************************)
(* Receiving.                                                              *)
(***************************************************************************)

\* handleNewRealtimeRoom, handleSubscription, handleUnsubscription and
\* handleRealtimeRoomRemoval: the new full state, and whether the handler throws.
RoomMessages ==
  {"NewRealtimeRoom", "Subscription", "Unsubscription", "RemoveRealtimeRoom"}

\* Mutant: a room removed by its node is kept.
AppliedKeepingRooms(st, p, m, id) ==
  CASE m.type = "NewRealtimeRoom" /\ CanAddRoom(st, m.room, p) ->
         AddRoom(st, m.room, p, [subs |-> 0, mid |-> id])
    [] m.type = "Subscription" /\ Known(st, m.room, p) ->
         AddSubscription(st, m.room, p, id)
    [] m.type = "Unsubscription" /\ Known(st, m.room, p) ->
         RemoveSubscription(st, m.room, p, id)
    [] OTHER -> st

Applied(st, p, m, id) ==
  CASE m.type = "NewRealtimeRoom" /\ CanAddRoom(st, m.room, p) ->
         AddRoom(st, m.room, p, [subs |-> 0, mid |-> id])
    [] m.type = "Subscription" /\ Known(st, m.room, p) ->
         AddSubscription(st, m.room, p, id)
    [] m.type = "Unsubscription" /\ Known(st, m.room, p) ->
         RemoveSubscription(st, m.room, p, id)
    [] m.type = "RemoveRealtimeRoom" -> RemoveRoom(st, m.room, p)
    [] OTHER -> st

Throws(st, p, m, id) ==
  \/ m.type = "NewRealtimeRoom" /\ ~CanAddRoom(st, m.room, p)
  \/ m.type \in {"Subscription", "Unsubscription"} /\ ~Known(st, m.room, p)
  \/ /\ m.type = "Unsubscription" /\ Known(st, m.room, p)
     /\ Applied(st, p, m, id)[m.room][p].subs < 0

\* A desync with p found by q.
Desync(q, p, st) ==
  /\ Len(log[q]) < MaxLog
  /\ Publish(q, SelfEviction(q), st)
  /\ broken' = [broken EXCEPT ![q] = @ \cup {p}]
  /\ UNCHANGED removing

\* The handler of message m, the id-th of p, with s as q's subscriber after it.
Handle(q, p, m, id, s) ==
  \/ /\ m.type \in RoomMessages
     /\ sub' = [sub EXCEPT ![q][p] = s]
     /\ LET st == Applied(fs[q], p, m, id) IN
        \/ Throws(fs[q], p, m, id) /\ Desync(q, p, st)
        \/ /\ ~Throws(fs[q], p, m, id)
           /\ fs' = [fs EXCEPT ![q] = st]
           /\ UNCHANGED <<log, hist, removing, broken>>
     /\ UNCHANGED <<phase, join>>
  \/ /\ m.type = "NodeEvicted" /\ m.node = q
     /\ Stop(q)
  \/ /\ \/ m.type = "NodeShutdown"
        \/ m.type = "NodeEvicted" /\ m.node # q
     /\ sub' = [sub EXCEPT ![q][p] = s]
     /\ BeginRemoval(q, [node |-> m.node, broadcast |-> FALSE, by |-> p])
     /\ UNCHANGED <<phase, join, log, hist, fs, broken>>
  \/ /\ m.type = "Heartbeat"
     /\ sub' = [sub EXCEPT ![q][p] = s]
     /\ UNCHANGED <<phase, join, removing, log, hist, fs, broken>>

\* validateMessage: a buffered message that the full state already covers, and
\* a message that is the next one.
StaleStrictly(s, id) == s.state = "BUFFERING" /\ s.last > id \* mutant

Stale(s, id) == s.state = "BUFFERING" /\ s.last >= id

AnyLater(s, id) == s.last < id \* mutant: a gap is not noticed

InSequence(s, id) == s.last + 1 = id

\* processData and validateMessage, on the message of p numbered id.
Process(q, p, id, s) ==
  LET counted == [s EXCEPT !.last = @ + 1]
      ignored == /\ sub' = [sub EXCEPT ![q][p] = s]
                 /\ UNCHANGED <<phase, join, removing, log, hist, fs, broken>>
  IN \/ s.state = "EVICTED" /\ ignored
     \/ s.state # "EVICTED" /\ Stale(s, id) /\ ignored
     \/ /\ s.state # "EVICTED" /\ ~Stale(s, id) /\ ~InSequence(s, id)
        /\ sub' = [sub EXCEPT ![q][p] = counted]
        /\ Desync(q, p, fs[q])
        /\ UNCHANGED <<phase, join>>
     \/ /\ s.state # "EVICTED" /\ ~Stale(s, id) /\ InSequence(s, id)
        /\ Handle(q, p, log[p][id], id, [counted EXCEPT !.heard = TRUE])

\* The subscription becomes effective on the publisher of p: what p sent before
\* is not for q.
Connect(q, p) ==
  /\ Alive(q) /\ Alive(p)
  /\ sub[q][p].state # "NONE" /\ sub[q][p].next = 0
  /\ sub' = [sub EXCEPT ![q][p].next = NextId(p)]
  /\ UNCHANGED <<phase, log, hist, fs, removing, join, lost, crashed, broken>>

\* There is a message of p for q, and q's loop on p is not awaiting a handler.
Deliverable(q, p) ==
  /\ Alive(q)
  /\ sub[q][p].next \in 1..Len(log[p])
  /\ \A removal \in removing[q] : removal.by # p

\* listen
Receive(q, p) ==
  LET s == [sub[q][p] EXCEPT !.next = @ + 1]
      id == sub[q][p].next
  IN /\ Deliverable(q, p)
     /\ \/ /\ s.state = "BUFFERING"
           /\ sub' = [sub EXCEPT ![q][p] = [s EXCEPT !.buf = Append(@, id)]]
           /\ UNCHANGED <<phase, join, removing, log, hist, fs, broken>>
        \/ /\ s.state \in {"SANE", "MISSING_HEARTBEAT"}
           /\ Process(q, p, id, s)
     /\ UNCHANGED <<lost, crashed>>

\* A message that never reaches q (a publisher drops what a slow or reconnecting
\* subscriber cannot take).
Lose(q, p) ==
  /\ Deliverable(q, p) /\ sub[q][p].state # "NONE" /\ lost < MaxLost
  /\ lost' = lost + 1
  /\ sub' = [sub EXCEPT ![q][p].next = @ + 1]
  /\ UNCHANGED <<phase, log, hist, fs, removing, join, crashed, broken>>

\* checkHeartbeat.  Two rounds of silence evict a node.
CheckHeartbeat(q, p) ==
  LET s == sub[q][p] IN
  /\ Alive(q)
  /\ s.state \in {"BUFFERING", "SANE", "MISSING_HEARTBEAT"}
  /\ s.state = "BUFFERING" => SlowHandshake
  /\ Alive(p) => SlowLinks \/ SlowHandshake
  /\ \/ /\ s.heard
        /\ sub' = [sub EXCEPT ![q][p].state = "SANE", ![q][p].heard = FALSE]
        /\ UNCHANGED removing
     \/ /\ ~s.heard /\ s.state # "MISSING_HEARTBEAT"
        /\ sub' = [sub EXCEPT ![q][p].state = "MISSING_HEARTBEAT"]
        /\ UNCHANGED removing
     \/ /\ ~s.heard /\ s.state = "MISSING_HEARTBEAT"
        /\ sub' = [sub EXCEPT ![q][p].state = "EVICTED"]
        /\ BeginRemoval(q, [node |-> p, broadcast |-> TRUE, by |-> q])
  /\ UNCHANGED <<phase, log, hist, fs, join, lost, crashed, broken>>
-----------------------------------------------------------------------------
(***************************************************************************)
(* The handshake of a joining node q.  It holds the cluster's handshake    *)
(* mutex, taken here to keep joining nodes apart: one at a time.           *)
(***************************************************************************)

\* Nodes whose ID card can be found: those of dead nodes are there until they
\* expire.
Discoverable(targets) ==
  LET joined == {p \in Nodes : phase[p] = "joined"}
  IN joined \subseteq targets /\ targets \subseteq joined \cup crashed

\* A subscriber is created and its socket connected for every discovered node.
Discover(q, targets, retried) ==
  IF targets = {}
  THEN /\ phase' = [phase EXCEPT ![q] = "joined"]
       /\ join' = NoJoin
       /\ sub' = [sub EXCEPT ![q] = [p \in Nodes |-> NoSubscriber]]
  ELSE /\ phase' = [phase EXCEPT ![q] = "buffering"]
       /\ join' = [NoJoin EXCEPT !.node = {q}, !.targets = targets,
                                 !.waiting = targets, !.retried = retried]
       /\ sub' = [sub EXCEPT ![q] = [p \in Nodes |->
                    IF p \notin targets THEN NoSubscriber
                    ELSE IF SlowLinks THEN NewSubscriber
                    ELSE [NewSubscriber EXCEPT !.next = NextId(p)]]]

StartHandshake(q) ==
  /\ q \in Joiners /\ phase[q] = "off" /\ join = NoJoin
  /\ \E targets \in SUBSET (Nodes \ {q}) :
       Discoverable(targets) /\ Discover(q, targets, FALSE)
  /\ UNCHANGED <<log, hist, fs, removing, lost, crashed, broken>>

\* No discovered node gave its full state: look again, once, then give up.
RetryHandshake(q) ==
  /\ Joining(q) /\ phase[q] = "buffering"
  /\ \A d \in join.targets : phase[d] # "joined"
  /\ \/ /\ ~join.retried
        /\ \E targets \in SUBSET (Nodes \ {q}) :
             Discoverable(targets) /\ Discover(q, targets, TRUE)
        /\ UNCHANGED <<log, hist, fs, removing, broken>>
     \/ join.retried /\ Stop(q)
  /\ UNCHANGED <<lost, crashed>>

\* getFullState answered by d (sendFullState), and loadFullState: the state, and
\* the message id of each node it corresponds to.
GetFullState(q, d) ==
  LET known(p) == p = d \/ sub[d][p].state # "NONE"
      idOf(p) == IF p = d THEN Len(log[d]) ELSE sub[d][p].last
  IN /\ Joining(q) /\ phase[q] = "buffering"
     /\ d \in join.targets /\ phase[d] = "joined"
     /\ \/ SlowLinks  \* d has got what was sent before q was subscribed
        \/ \A p \in join.targets : known(p) =>
             sub[q][p].next - Len(sub[q][p].buf) <= idOf(p) + 1
     /\ \/ /\ CanLoad(fs[q], fs[d])
           /\ phase' = [phase EXCEPT ![q] = "loaded"]
           /\ fs' = [fs EXCEPT ![q] = Load(@, fs[d])]
           /\ join' = [join EXCEPT
                !.ids = [p \in Nodes |-> IF known(p) THEN idOf(p) ELSE -1],
                !.hello = Len(log[q])]
           /\ broken' = [broken EXCEPT
                ![q] = @ \cup broken[d] \cup {p \in join.targets : ~known(p)}]
           /\ UNCHANGED <<log, hist, sub, removing, lost, crashed>>
        \/ ~CanLoad(fs[q], fs[d]) /\ FailToStart(q)

\* p takes q in (handleHandshake, addNode) and answers with its own message id;
\* q gives up waiting for an answer that takes too long.
HandleHandshake(p, q) ==
  /\ Joining(q) /\ phase[q] = "loaded" /\ p \in join.waiting
  /\ phase[p] = "joined"
  /\ sub' = [sub EXCEPT ![p][q] =
       IF @.state # "NONE" THEN @
       ELSE [SyncedSubscriber(join.hello) EXCEPT
               !.next = IF SlowLinks THEN 0 ELSE NextId(q)]]
  /\ \E inTime \in IF SlowHandshake THEN BOOLEAN ELSE {TRUE} :
       join' = [join EXCEPT !.waiting = @ \ {p},
                            !.answer[p] = IF inTime THEN Len(log[p]) ELSE -1]
  /\ UNCHANGED <<phase, log, hist, fs, removing, lost, crashed, broken>>

HandshakeTimeoutNever(q, p) == FALSE \* mutant: q waits for all answers

\* Mutant: a handshake is not given the time that a live node needs to answer.
HandshakeTimeoutEarly(q, p) ==
  /\ Joining(q) /\ phase[q] = "loaded" /\ p \in join.waiting
  /\ join' = [join EXCEPT !.waiting = @ \ {p}]
  /\ UNCHANGED <<phase, log, hist, fs, sub, removing, lost, crashed, broken>>

HandshakeTimeout(q, p) ==
  /\ Joining(q) /\ phase[q] = "loaded" /\ p \in join.waiting
  /\ phase[p] = "down"
  /\ join' = [join EXCEPT !.waiting = @ \ {p}]
  /\ UNCHANGED <<phase, log, hist, fs, sub, removing, lost, crashed, broken>>

\* sync() takes the id the full state came with for p, or the one p answered
\* with when the full state came with none.
SyncFromPrevious(p) == join.ids[p] - 1 \* mutant

SyncFromAnswer(p) == join.answer[p] \* mutant: the full state's ids are ignored

SyncFrom(p) == IF join.ids[p] # -1 THEN join.ids[p] ELSE join.answer[p]

\* The last loop of handshake, for remote node p: unsubscribe from a node that
\* did not answer, start synchronising with one that did.
Settle(q, p) ==
  LET s == sub[q][p]
      from == SyncFrom(p)
      settled == /\ join' = IF join.targets = {p} THEN NoJoin
                            ELSE [join EXCEPT !.targets = @ \ {p}]
                 /\ phase' = [phase EXCEPT ![q] =
                               IF join.targets = {p} THEN "joined" ELSE @]
                 /\ UNCHANGED <<log, hist, fs, removing, crashed, broken>>
  IN /\ Joining(q) /\ phase[q] = "loaded"
     /\ join.waiting = {} /\ p \in join.targets
     /\ \/ /\ s.state = "NONE"
           /\ FailToStart(q)
        \/ /\ s.state # "NONE" /\ join.answer[p] = -1
           /\ sub' = [sub EXCEPT ![q][p] = NoSubscriber]
           /\ settled
        \/ /\ s.state # "NONE" /\ join.answer[p] # -1
           /\ SlowLinks \/ s.next > from
           /\ sub' = [sub EXCEPT ![q][p].last = from, ![q][p].syncing = TRUE]
           /\ settled
     /\ UNCHANGED lost

\* sync: one buffered message at a time, then the subscriber is SANE.
SyncBuffered(q, p) ==
  LET s == sub[q][p] IN
  /\ Alive(q) /\ s.syncing
  /\ \/ /\ s.buf # <<>>
        /\ Process(q, p, Head(s.buf), [s EXCEPT !.buf = Tail(@)])
     \/ /\ s.buf = <<>>
        /\ sub' = [sub EXCEPT ![q][p].state = "SANE", ![q][p].syncing = FALSE]
        /\ UNCHANGED <<phase, log, hist, fs, removing, join, broken>>
  /\ UNCHANGED <<lost, crashed>>
-----------------------------------------------------------------------------
LocalStep(p) ==
  \/ \E r \in Rooms : OpenRoom(p, r) \/ Subscribe(p, r) \/ Unsubscribe(p, r)
                      \/ CloseRoom(p, r)
  \/ Heartbeat(p) \/ Shutdown(p) \/ Crash(p)
  \/ FinishRemoval(p) \/ StartHandshake(p) \/ RetryHandshake(p)

RemoteStep(q, p) ==
  \/ Connect(q, p) \/ Receive(q, p) \/ Lose(q, p) \/ CheckHeartbeat(q, p)
  \/ GetFullState(q, p) \/ HandleHandshake(p, q) \/ HandshakeTimeout(q, p)
  \/ Settle(q, p) \/ SyncBuffered(q, p)

Next == \/ \E p \in Nodes : LocalStep(p)
        \/ \E q, p \in Nodes : RemoteStep(q, p)

Spec == Init /\ [][Next]_vars

\* Sockets deliver, timers fire, Redis answers: nothing the node itself started
\* is left undone.  Publishing, crashing and stopping are up to the environment.
Fairness ==
  /\ \A p \in Nodes : /\ WF_vars(FinishRemoval(p))
                       /\ WF_vars(RetryHandshake(p))
  /\ \A q, p \in Nodes :
       /\ WF_vars(Connect(q, p)) /\ WF_vars(Receive(q, p))
       /\ WF_vars(CheckHeartbeat(q, p)) /\ WF_vars(SyncBuffered(q, p))
       /\ WF_vars(HandleHandshake(p, q)) /\ WF_vars(HandshakeTimeout(q, p))
       /\ WF_vars(Settle(q, p))
  /\ \A q \in Nodes : WF_vars(\E d \in Nodes : GetFullState(q, d))

FairSpec == Spec /\ Fairness
-----------------------------------------------------------------------------
(***************************************************************************)
(* Properties.                                                             *)
(***************************************************************************)

OwnView == [Rooms -> Entry \cup {NoEntry}]

\* Type invariant.
TypeOK ==
  /\ phase \in [Nodes -> Phase]
  /\ log \in [Nodes -> Seq(Message)]
  /\ hist \in [Nodes -> Seq(OwnView)]
  /\ \A p \in Nodes : Len(hist[p]) = Len(log[p])
  /\ fs \in [Nodes -> State]
  /\ sub \in [Nodes -> [Nodes -> Subscriber]]
  /\ removing \in [Nodes -> SUBSET Removal]
  /\ join \in [node : SUBSET Nodes, targets : SUBSET Nodes,
               ids : [Nodes -> Nat \cup {-1}], hello : Nat,
               answer : [Nodes -> Nat \cup {-1}], waiting : SUBSET Nodes,
               retried : BOOLEAN]
  /\ lost \in Nat
  /\ crashed \in SUBSET Nodes
  /\ broken \in [Nodes -> SUBSET Nodes]

\* q has taken a position in the messages of p: it is past sync() for p.
Following(q, p) ==
  /\ p # q /\ Alive(q) /\ sub[q][p].state # "NONE"
  /\ ~(Joining(q) /\ p \in join.targets)

\* The replication is exact: what a node believes of a remote node's subscriptions
\* is what that node itself believed when it sent the last message that counted,
\* whatever was lost, delayed, buffered or loaded from a third node; only nodes
\* that noticed a desync, or took their state from one that did, are excepted.
ViewMatchesSender ==
  \A q, p \in Nodes :
    Following(q, p) /\ p \notin broken[q] =>
      EntriesOf(fs[q], p) = OwnEntries(p, sub[q][p].last)

\* Everything published was received and handled by everybody.
Quiescent ==
  /\ join = NoJoin
  /\ \A q \in Nodes : removing[q] = {}
  /\ \A q, p \in Nodes : Alive(q) /\ sub[q][p].state # "NONE" =>
       /\ sub[q][p].next = NextId(p)
       /\ sub[q][p].buf = <<>> /\ ~sub[q][p].syncing

\* Every live node answers realtime:count the same: the number of subscriptions the
\* clients of the live nodes hold.
SameCounts ==
  \A q \in Nodes, r \in Rooms : Alive(q) =>
    CountSubscriptions(fs[q], r)
      = SumFunction([p \in Nodes |->
                      IF Alive(p) THEN Subscribers(fs[p][r][p]) ELSE 0])

\* Once the messages are delivered the counts of the live nodes agree.
CountsAgree == Quiescent => SameCounts

\* A node declares itself out-of-sync only if a message really was lost.
NoFalseAlarm == (\E q \in Nodes : HasEvictedSelf(q)) => lost > 0

\* A node that has joined keeps entries for nodes it follows, and no others.
NoGhostEntries ==
  \A q, p \in Nodes :
    phase[q] = "joined" /\ p # q /\ sub[q][p].state = "NONE" =>
      \A r \in Rooms : fs[q][r][p] = NoEntry

\* A joining node that gave up waiting for another keeps the entries it was given for
\* it without following it, but only if that one is dead.
GhostsAreDead ==
  \A q, p \in Nodes :
    /\ phase[q] \in {"loaded", "joined"} /\ p # q /\ sub[q][p].state = "NONE"
    /\ phase[p] # "down"
    => \A r \in Rooms : fs[q][r][p] = NoEntry

\* A subscriber handles no message before sync() is called on it: until then the
\* local node is initialising and messages are only stored.
BufferedUntilSync ==
  \A q, p \in Nodes :
    Joining(q) /\ p \in join.targets => sub[q][p].last = 0

\* A dead node is eventually forgotten by every live one.
DeadForgotten ==
  \A q, p \in Nodes :
    phase[p] = "down" ~> ~Alive(q) \/ (sub[q][p].state = "NONE"
                                      /\ \A r \in Rooms : fs[q][r][p] = NoEntry)

\* A handshake ends, one way or the other, even if other nodes die meanwhile.
HandshakeEnds ==
  \A q \in Nodes : phase[q] = "buffering" ~> phase[q] \in {"joined", "down"}

\* A node that detects a desync ends up dead.
DesyncIsFatal ==
  \A q \in Nodes : HasEvictedSelf(q) ~> phase[q] = "down"
=============================================================================
