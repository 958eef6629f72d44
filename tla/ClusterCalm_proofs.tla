------------------------- MODULE ClusterCalm_proofs -------------------------
(***************************************************************************)
(* Proofs about the nodes of a cluster that live and about those that do   *)
(* not, for any nodes, rooms and bounds.                                   *)
(*                                                                         *)
(* While no message is lost, nobody is taken for dead or out-of-sync by    *)
(* mistake and everybody counts the same, whoever joins, stops or crashes, *)
(* as long as a handshake is faster than the heartbeat timer and a         *)
(* subscription is effective before the full state is asked for.           *)
(*                                                                         *)
(* Whatever is lost or delayed, a node keeps no entries of a live node     *)
(* that it does not follow.                                                *)
(***************************************************************************)
EXTENDS ClusterSync_proofs, FiniteSetTheorems

Dead(n) == phase[n] = "down"

\* A message its receivers accept, own being the sender's entries before it.
Legal(own, m, id) ==
  /\ m.type = "NewRealtimeRoom" => own[m.room] = NoEntry
  /\ m.type \in {"Subscription", "Unsubscription"} => own[m.room] # NoEntry
  /\ m.type = "Unsubscription" => Stepped(own, m, id)[m.room].subs >= 0

\* A node is said to be gone only if it is, and not by itself.
Obituary(p, m) ==
  m.type \in {"NodeEvicted", "NodeShutdown"} =>
    /\ Dead(m.node)
    /\ m.type = "NodeEvicted" => m.node # p

TruthfulInv ==
  \A p \in Nodes : \A k \in 1..Len(log[p]) :
    /\ Legal(After(hist[p], k - 1), log[p][k], k)
    /\ Obituary(p, log[p][k])

LifeInv ==
  /\ \A p \in crashed : Dead(p)
  /\ \A q \in Nodes : phase[q] = "loaded" => Joining(q)
  /\ \A q \in Nodes : \A removal \in removing[q] : Dead(removal.node)

\* The first message that a subscriber still holds, or is to receive.
Start(s) == s.next - Len(s.buf)

\* A subscriber misses nothing: what it holds is a piece of the log without gaps,
\* which begins no later than the message it is to handle next.
InStep(s, p) ==
  /\ s.next \in 1..(Len(log[p]) + 1)
  /\ Start(s) >= 1
  /\ \A i \in 1..Len(s.buf) : s.buf[i] = Start(s) + i - 1
  /\ s.state \in {"SANE", "MISSING_HEARTBEAT", "EVICTED"} =>
       ~s.syncing /\ s.buf = <<>> /\ s.last + 1 = s.next
  /\ s.syncing => Start(s) <= s.last + 1 /\ s.last + 1 <= s.next

PairCalm(q, p) ==
  sub[q][p].state # "NONE" =>
    /\ InStep(sub[q][p], p)
    /\ phase[p] \in {"loaded", "joined", "down"}
    /\ sub[q][p].state = "BUFFERING" /\ ~sub[q][p].syncing => Unsettled(q, p)
    /\ sub[q][p].state = "EVICTED" => Dead(p)

\* A full state lacks the entries of dead nodes only, which do not answer.
BrokenCalm(q, p) ==
  p \in broken[q] =>
    /\ Dead(p) /\ phase[q] \notin {"off", "buffering"}
    /\ \/ sub[q][p].state = "NONE"
       \/ Unsettled(q, p) /\ phase[q] = "loaded" /\ join.answer[p] = -1

KnowsJoined(q, p) ==
  phase[q] = "joined" /\ phase[p] = "joined" /\ q # p => sub[q][p].state # "NONE"

\* The handshake of q: it has a subscriber to every joined node d, and d has one to
\* q once d has answered.
JoinCalm(q) ==
  Joining(q) =>
    /\ join.targets # {} /\ join.waiting \subseteq join.targets
    /\ \A p \in join.targets : phase[p] \in {"joined", "down"}
    /\ phase[q] = "buffering" =>
         join.waiting = join.targets /\ \A p \in Nodes : join.answer[p] = -1
    /\ phase[q] = "loaded" /\ join.waiting # {} => join.hello = Len(log[q])
    /\ \A d \in Nodes : phase[d] = "joined" =>
         /\ sub[q][d].state # "NONE"
         /\ d \in join.waiting \/ (join.answer[d] # -1 /\ sub[d][q].state # "NONE")

\* What q stores for p begins no later than the message its view of p corresponds to.
StoresEnough(q, p) ==
  Unsettled(q, p) /\ phase[q] = "loaded" /\ sub[q][p].state # "NONE" =>
    /\ join.ids[p] # -1 => Start(sub[q][p]) <= join.ids[p] + 1
    /\ join.answer[p] # -1 => Start(sub[q][p]) <= join.answer[p] + 1

\* Until all nodes have answered, a newcomer handles nothing.
Waits(q) == phase[q] = "off" \/ (Joining(q) /\ join.waiting # {})

WaitCalm(q) ==
  Waits(q) =>
    /\ removing[q] = {}
    /\ \A p \in Nodes : sub[q][p].state # "NONE" => Unsettled(q, p)

Calm ==
  /\ TruthfulInv
  /\ LifeInv
  /\ \A q, p \in Nodes : /\ PairCalm(q, p) /\ BrokenCalm(q, p)
                         /\ KnowsJoined(q, p) /\ StoresEnough(q, p)
  /\ \A q \in Nodes : JoinCalm(q) /\ WaitCalm(q)
-----------------------------------------------------------------------------
(***************************************************************************)
(* What any step does to the logs, and what it must leave to a subscriber. *)
(***************************************************************************)

\* x says nothing, or one thing that is legal and true.
Speaks(x) ==
  \/ log'[x] = log[x]
  \/ \E m \in Message :
       /\ log'[x] = Append(log[x], m)
       /\ Legal(EntriesOf(fs[x], x), m, Len(log[x]) + 1)
       /\ Obituary(x, m)'

DeathsLast == \A x \in Nodes : Dead(x) => Dead(x)'

LEMMA TruthfulStep ==
  ASSUME TypeInv, SyncInv, TruthfulInv, Grows, DeathsLast, \A x \in Nodes : Speaks(x)
  PROVE  TruthfulInv'
<1> SUFFICES ASSUME NEW p \in Nodes, NEW k \in 1..Len(log'[p])
             PROVE  /\ Legal(After(hist'[p], k - 1), log'[p][k], k)
                    /\ Obituary(p, log[p][k])'
  BY DEF TruthfulInv
<1>1. /\ log[p] \in Seq(Message) /\ Len(log[p]) \in Nat
      /\ EntriesOf(fs[p], p) = After(hist[p], Len(log[p]))
  BY DEF TypeInv, LogsTyped, SyncInv, LogInv
<1>2. CASE k \in 1..Len(log[p])
  <2>1. log'[p][k] = log[p][k] /\ k - 1 \in 0..Len(log[p])
    BY <1>1, <1>2 DEF Grows
  <2>2. After(hist'[p], k - 1) = After(hist[p], k - 1)
    BY <2>1, OwnKept
  <2>3. Legal(After(hist[p], k - 1), log[p][k], k) /\ Obituary(p, log[p][k])
    BY <1>2 DEF TruthfulInv
  <2>4. log[p][k].type \in {"NodeEvicted", "NodeShutdown"} => log[p][k].node \in Nodes
    BY <1>1, <1>2, MessageParts
  <2>5. Obituary(p, log[p][k])'
    BY <2>1, <2>3, <2>4 DEF Obituary, DeathsLast
  <2>6. QED
    BY <2>1, <2>2, <2>3, <2>5
<1>3. CASE k \notin 1..Len(log[p])
  <2>1. log'[p] # log[p]
    BY <1>3
  <2>2. PICK m \in Message : /\ log'[p] = Append(log[p], m)
                             /\ Legal(EntriesOf(fs[p], p), m, Len(log[p]) + 1)
                             /\ Obituary(p, m)'
    BY <2>1 DEF Speaks
  <2>3. k = Len(log[p]) + 1 /\ log'[p][k] = m
    BY <1>1, <1>3, <2>2
  <2>4. k - 1 = Len(log[p]) /\ Len(log[p]) \in 0..Len(log[p])
    BY <1>1, <2>3
  <2>5. After(hist'[p], k - 1) = EntriesOf(fs[p], p)
    BY <1>1, <2>4, OwnKept
  <2>6. QED
    BY <2>2, <2>3, <2>5
<1>4. QED
  BY <1>2, <1>3

\* A subscriber that is left alone, or removed.
LEMMA PairCalmKept ==
  ASSUME TypeInv, LogsTyped', Grows, NEW q \in Nodes, NEW p \in Nodes, PairCalm(q, p),
         sub'[q][p] = sub[q][p] \/ sub'[q][p].state = "NONE",
         phase[p] \in {"loaded", "joined", "down"} =>
           phase'[p] \in {"loaded", "joined", "down"},
         Dead(p) => Dead(p)',
         sub'[q][p].state # "NONE" /\ Unsettled(q, p) => Unsettled(q, p)'
  PROVE  PairCalm(q, p)'
<1> SUFFICES ASSUME sub'[q][p].state # "NONE"
             PROVE  PairCalm(q, p)'
  BY DEF PairCalm
<1>1. sub'[q][p] = sub[q][p]
  OBVIOUS
<1>2. sub[q][p] \in Subscriber /\ Len(log[p]) \in Nat /\ Len(log'[p]) \in Nat
  BY DEF TypeInv, SubsTyped, LogsTyped
<1>3. Len(log[p]) <= Len(log'[p])
  BY DEF Grows
<1>4. InStep(sub[q][p], p)
  BY <1>1 DEF PairCalm
<1>5. sub[q][p].next \in Nat
  BY <1>2 DEF Subscriber
<1> DEFINE s == sub[q][p]
<1>6. InStep(s, p)'
  <2>1. s' = s
    BY <1>1
  <2> HIDE DEF s
  <2>2. InStep(s, p) /\ s.next \in Nat
    BY <1>4, <1>5 DEF s
  <2>3. QED
    BY <1>2, <1>3, <2>1, <2>2 DEF InStep, Start
<1>7. QED
  BY <1>1, <1>6 DEF PairCalm

-----------------------------------------------------------------------------
(***************************************************************************)
(* The steps of a cluster whose nodes keep their phases.                   *)
(***************************************************************************)

\* A subscriber is left alone, or removed with a dead node, or moves on in step.
Steady(q, p) ==
  \/ sub'[q][p] = sub[q][p]
  \/ sub'[q][p].state = "NONE" /\ Dead(p)
  \/ /\ sub[q][p].state # "NONE" /\ sub'[q][p].state # "NONE"
     /\ PairCalm(q, p)' /\ StoresEnough(q, p)'

LEMMA SteadyStep ==
  ASSUME TypeInv, LogsTyped', Grows, SyncInv, Calm,
         UNCHANGED <<phase, join, crashed, broken>>,
         \A x \in Nodes : Speaks(x),
         \A x \in Nodes : Joining(x) /\ phase[x] = "loaded" /\ join.waiting # {} =>
           log'[x] = log[x],
         \A x \in Nodes : \A removal \in removing'[x] :
           removal \in removing[x] \/ (Dead(removal.node) /\ ~Waits(x)),
         \A x, y \in Nodes : Steady(x, y)
  PROVE  Calm'
<1>1. TruthfulInv'
  <2>1. DeathsLast
    BY DEF DeathsLast, Dead
  <2>2. QED
    BY <2>1, TruthfulStep DEF Calm
<1>2. LifeInv'
  BY DEF Calm, LifeInv, Dead, Joining
<1>3. ASSUME NEW x \in Nodes, NEW y \in Nodes
      PROVE  PairCalm(x, y)' /\ StoresEnough(x, y)'
  <2>1. PairCalm(x, y) /\ StoresEnough(x, y)
    BY DEF Calm
  <2>2. CASE sub'[x][y] = sub[x][y] \/ sub'[x][y].state = "NONE"
    <3>1. PairCalm(x, y)'
      BY <2>1, <2>2, PairCalmKept DEF Unsettled, Joining, Dead
    <3>2. StoresEnough(x, y)'
      BY <2>1, <2>2 DEF StoresEnough, Unsettled, Joining, Start
    <3>3. QED
      BY <3>1, <3>2
  <2>3. QED
    BY <2>2 DEF Steady
<1>4. \A x, y \in Nodes : /\ sub'[x][y].state # "NONE" => sub[x][y].state # "NONE"
                          /\ ~Dead(y) => (sub'[x][y].state = "NONE" <=> sub[x][y].state = "NONE")
  BY DEF Steady
<1>5. ASSUME NEW x \in Nodes, NEW y \in Nodes
      PROVE  BrokenCalm(x, y)' /\ KnowsJoined(x, y)'
  <2>1. BrokenCalm(x, y) /\ KnowsJoined(x, y)
    BY DEF Calm
  <2>2. QED
    BY <1>4, <2>1 DEF BrokenCalm, KnowsJoined, Unsettled, Joining, Dead
<1>6. ASSUME NEW x \in Nodes PROVE JoinCalm(x)' /\ WaitCalm(x)'
  <2>1. JoinCalm(x) /\ WaitCalm(x)
    BY DEF Calm
  <2>2. JoinCalm(x)'
    <3> SUFFICES ASSUME Joining(x) PROVE JoinCalm(x)'
      BY DEF JoinCalm, Joining
    <3>1. phase[x] \in {"buffering", "loaded"}
      BY DEF SyncInv, NodeSane
    <3>2. \A d \in Nodes : phase[d] = "joined" =>
            /\ sub'[x][d].state # "NONE"
            /\ d \in join.waiting \/ (join.answer[d] # -1 /\ sub'[d][x].state # "NONE")
      BY <1>4, <2>1, <3>1 DEF JoinCalm, Dead
    <3>3. QED
      BY <2>1, <3>2 DEF JoinCalm, Joining
  <2>3. WaitCalm(x)'
    <3>1. Waits(x)' <=> Waits(x)
      BY DEF Waits, Joining
    <3>2. Waits(x) => removing'[x] = {}
      BY <2>1 DEF WaitCalm, Calm, TypeInv, OthersTyped
    <3>3. QED
      BY <1>4, <2>1, <3>1, <3>2 DEF WaitCalm, Unsettled, Joining
  <2>4. QED
    BY <2>2, <2>3
<1>7. QED
  BY <1>1, <1>2, <1>3, <1>5, <1>6 DEF Calm
-----------------------------------------------------------------------------
LEMMA SilentSpeaks ==
  ASSUME log' = log
  PROVE  \A x \in Nodes : Speaks(x)
  BY DEF Speaks

LEMMA PublishSpeaks ==
  ASSUME TypeInv, NEW p \in Nodes, NEW m \in Message, NEW st, Publish(p, m, st),
         Legal(EntriesOf(fs[p], p), m, Len(log[p]) + 1), Obituary(p, m)'
  PROVE  /\ \A x \in Nodes : Speaks(x)
         /\ \A x \in Nodes \ {p} : log'[x] = log[x]
  BY DEF Publish, Speaks, TypeInv, LogsTyped

\* A message that says nothing of rooms is acceptable to everybody.
LEMMA QuietLegal ==
  ASSUME NEW own, NEW m, NEW id, m.type \notin RoomMessages
  PROVE  Legal(own, m, id)
  BY DEF Legal, RoomMessages

\* A step that publishes and changes no subscriber.
LEMMA PublishCalm ==
  ASSUME TypeInv, TypeInv', Grows, SyncInv, Calm, NEW p \in Nodes, NEW m \in Message,
         NEW st, Publish(p, m, st),
         Legal(EntriesOf(fs[p], p), m, Len(log[p]) + 1), Obituary(p, m)',
         ~(Joining(p) /\ phase[p] = "loaded"),
         UNCHANGED <<phase, sub, removing, join, crashed, broken>>
  PROVE  Calm'
<1>1. /\ \A x \in Nodes : Speaks(x)
      /\ \A x \in Nodes \ {p} : log'[x] = log[x]
  BY PublishSpeaks
<1>2. \A x \in Nodes : Joining(x) /\ phase[x] = "loaded" /\ join.waiting # {} =>
        log'[x] = log[x]
  BY <1>1
<1>3. \A x, y \in Nodes : Steady(x, y)
  BY DEF Steady
<1>4. QED
  BY <1>1, <1>2, <1>3, SteadyStep DEF TypeInv

\* What the clients of p do is acceptable to the nodes that see it.
LEMMA ClientsCalm ==
  ASSUME TypeInv, TypeInv', Grows, SyncInv, Calm, NEW p \in Nodes, NEW r \in Rooms,
         OpenRoom(p, r) \/ Subscribe(p, r) \/ Unsubscribe(p, r) \/ CloseRoom(p, r)
  PROVE  Calm'
<1> DEFINE own == EntriesOf(fs[p], p)
           id == Len(log[p]) + 1
<1>1. \A t \in RoomMessages : /\ [type |-> t, room |-> r] \in Message
                              /\ Obituary(p, [type |-> t, room |-> r])'
  BY OwnMessageTypes DEF Obituary, RoomMessages
<1>2. /\ phase[p] = "joined"
      /\ UNCHANGED <<phase, sub, removing, join, crashed, broken>>
  BY DEF OpenRoom, Subscribe, Unsubscribe, CloseRoom, CanPublish
<1>3. own[r] = fs[p][r][p] /\ own[r] \in Entry \cup {NoEntry} /\ own \in OwnView
  BY OwnViewType DEF EntriesOf, TypeInv, LogsTyped, State, OwnView
<1>4. id \in Nat
  BY DEF TypeInv, LogsTyped
<1> HIDE DEF own, id
<1>5. ASSUME NEW t \in RoomMessages, NEW st, Publish(p, [type |-> t, room |-> r], st),
             Legal(own, [type |-> t, room |-> r], id)
      PROVE  Calm'
  <2> DEFINE m == [type |-> t, room |-> r]
  <2>1. m \in Message /\ Obituary(p, m)' /\ Publish(p, m, st) /\ Legal(own, m, id)
    BY <1>1, <1>5
  <2> HIDE DEF m
  <2>2. QED
    BY <1>2, <2>1, PublishCalm DEF own, id
<1>6. CASE OpenRoom(p, r)
  <2>1. Legal(own, [type |-> "NewRealtimeRoom", room |-> r], id)
    BY <1>3, <1>6 DEF OpenRoom, CanAddRoom, Legal
  <2>2. QED
    BY <1>5, <1>6, <2>1 DEF OpenRoom, RoomMessages
<1>7. CASE Subscribe(p, r)
  <2>1. Legal(own, [type |-> "Subscription", room |-> r], id)
    BY <1>3, <1>7 DEF Subscribe, Known, Legal
  <2>2. QED
    BY <1>5, <1>7, <2>1 DEF Subscribe, RoomMessages
<1>8. CASE Unsubscribe(p, r)
  <2> DEFINE m == [type |-> "Unsubscription", room |-> r]
  <2>1. own[r] # NoEntry /\ own[r] \in Entry /\ own[r].subs > 0
    BY <1>3, <1>8 DEF Unsubscribe, Known
  <2>2. Stepped(own, m, id) = [own EXCEPT ![r] = Bump(own[r], -1, id)]
    BY <2>1 DEF Stepped
  <2>3. Stepped(own, m, id)[r] = Bump(own[r], -1, id)
    BY <1>3, <2>2 DEF OwnView
  <2>4. Bump(own[r], -1, id).subs >= 0
    BY <1>4, <2>1 DEF Bump, Entry
  <2>5. Legal(own, m, id)
    BY <2>1, <2>3, <2>4 DEF Legal
  <2>6. QED
    BY <1>5, <1>8, <2>5 DEF Unsubscribe, RoomMessages
<1>9. CASE CloseRoom(p, r)
  <2>1. Legal(own, [type |-> "RemoveRealtimeRoom", room |-> r], id)
    BY DEF Legal
  <2>2. QED
    BY <1>5, <1>9, <2>1 DEF CloseRoom, RoomMessages
<1>10. QED
  BY <1>6, <1>7, <1>8, <1>9

LEMMA HeartbeatCalm ==
  ASSUME TypeInv, TypeInv', Grows, SyncInv, Calm, ~SlowHandshake, NEW p \in Nodes,
         Heartbeat(p)
  PROVE  Calm'
<1> DEFINE m == [type |-> "Heartbeat"]
<1>1. m \in Message /\ m.type \notin RoomMessages /\ Obituary(p, m)'
  BY DEF Message, RoomMessages, Obituary
<1>2. /\ Publish(p, m, fs[p]) /\ phase[p] # "loaded"
      /\ UNCHANGED <<phase, sub, removing, join, crashed, broken>>
  BY DEF Heartbeat, Announce
<1> HIDE DEF m
<1>3. QED
  BY <1>1, <1>2, QuietLegal, PublishCalm

\* evictNode removes a dead node, and says so if it is told to.
LEMMA FinishRemovalCalm ==
  ASSUME TypeInv, TypeInv', Grows, SyncInv, Calm, NEW q \in Nodes, FinishRemoval(q)
  PROVE  Calm'
<1>1. PICK removal \in removing[q] :
        LET p == removal.node IN
        /\ removing' = [removing EXCEPT ![q] = @ \ {removal}]
        /\ sub' = [sub EXCEPT ![q][p] = NoSubscriber]
        /\ \/ Publish(q, [type |-> "NodeEvicted", node |-> p], RemoveNode(fs[q], p))
           \/ UNCHANGED log
        /\ UNCHANGED <<phase, join, crashed, broken>>
  BY DEF FinishRemoval
<1> DEFINE p == removal.node
           m == [type |-> "NodeEvicted", node |-> p]
<1>2. p \in Nodes /\ p # q /\ Dead(p)
  <2>1. NodeSane(q) /\ removal \in Removal /\ LifeInv
    BY DEF SyncInv, TypeInv, OthersTyped, Calm
  <2>2. QED
    BY <2>1 DEF NodeSane, Removal, LifeInv
<1>3. m \in Message /\ m.type \notin RoomMessages
  BY <1>2 DEF Message, RoomMessages
<1>4. Obituary(q, m)'
  BY <1>1, <1>2 DEF Obituary, Dead
<1>5. /\ removing' = [removing EXCEPT ![q] = @ \ {removal}]
      /\ sub' = [sub EXCEPT ![q][p] = NoSubscriber]
      /\ Publish(q, m, RemoveNode(fs[q], p)) \/ UNCHANGED log
      /\ UNCHANGED <<phase, join, crashed, broken>>
  BY <1>1
<1> HIDE DEF p, m
<1>6. /\ \A x \in Nodes : Speaks(x)
      /\ \A x \in Nodes \ {q} : log'[x] = log[x]
  BY <1>3, <1>4, <1>5, QuietLegal, PublishSpeaks, SilentSpeaks
<1>7. ~Waits(q)
  BY DEF Calm, WaitCalm
<1>8. \A x \in Nodes : Joining(x) /\ phase[x] = "loaded" /\ join.waiting # {} =>
        log'[x] = log[x]
  BY <1>6, <1>7 DEF Waits
<1>9. \A x \in Nodes : removing'[x] \subseteq removing[x]
  BY <1>5 DEF TypeInv, OthersTyped
<1>10. \A x, y \in Nodes : Steady(x, y)
  BY <1>2, <1>5 DEF Steady, TypeInv, SubsTyped, NoSubscriber
<1>11. QED
  BY <1>5, <1>6, <1>8, <1>9, <1>10, SteadyStep DEF TypeInv
-----------------------------------------------------------------------------
(***************************************************************************)
(* Receiving: no message is out of sequence, none is refused, and none     *)
(* tells its receiver to stop.                                             *)
(***************************************************************************)

\* A step of the subscriber of q to p that publishes nothing.
LEMMA SubscriberCalm ==
  ASSUME TypeInv, TypeInv', Grows, SyncInv, Calm, NEW q \in Nodes, NEW p \in Nodes,
         NEW s \in Subscriber, sub[q][p].state # "NONE", s.state # "NONE",
         sub' = [sub EXCEPT ![q][p] = s],
         UNCHANGED <<phase, log, join, crashed, broken>>,
         InStep(s, p),
         s.state = "BUFFERING" /\ ~s.syncing => Unsettled(q, p),
         s.state = "EVICTED" => Dead(p),
         Unsettled(q, p) => Start(s) = Start(sub[q][p]),
         \A x \in Nodes : \A removal \in removing'[x] :
           removal \in removing[x] \/ (Dead(removal.node) /\ ~Waits(x))
  PROVE  Calm'
<1>1. \A x \in Nodes : Speaks(x)
  BY SilentSpeaks
<1>2. /\ sub'[q][p] = s
      /\ \A x, y \in Nodes : ~(x = q /\ y = p) => sub'[x][y] = sub[x][y]
  BY DEF TypeInv, SubsTyped
<1>3. PairCalm(q, p)'
  <2>1. InStep(sub[q][p], p)'
    BY <1>2 DEF InStep, Start
  <2>2. PairCalm(q, p)
    BY DEF Calm
  <2>3. QED
    BY <1>2, <2>1, <2>2 DEF PairCalm, Unsettled, Joining, Dead
<1>4. StoresEnough(q, p)'
  <2>1. StoresEnough(q, p)
    BY DEF Calm
  <2>2. QED
    BY <1>2, <2>1 DEF StoresEnough, Unsettled, Joining, Start
<1>5. \A x, y \in Nodes : Steady(x, y)
  BY <1>2, <1>3, <1>4 DEF Steady
<1>6. QED
  BY <1>1, <1>5, SteadyStep DEF TypeInv

\* The removal of a dead node by a node that handles messages or runs its timers.
LEMMA RemovalOfDead ==
  ASSUME TypeInv, NEW q \in Nodes, NEW removal \in Removal, BeginRemoval(q, removal),
         Dead(removal.node), ~Waits(q)
  PROVE  \A x \in Nodes : \A r \in removing'[x] :
           r \in removing[x] \/ (Dead(r.node) /\ ~Waits(x))
  BY DEF BeginRemoval, TypeInv, OthersTyped

\* A node that has settled its subscriber to p handles messages.
LEMMA SettledActs ==
  ASSUME Calm, NEW q \in Nodes, NEW p \in Nodes,
         sub[q][p].state # "NONE", ~Unsettled(q, p)
  PROVE  ~Waits(q) /\ p \notin broken[q]
  BY DEF Calm, WaitCalm, BrokenCalm

LEMMA LoweredEntry ==
  ASSUME NEW st \in State, NEW r \in Rooms, NEW n \in Nodes, NEW mid \in Nat,
         Known(st, r, n)
  PROVE  RemoveSubscription(st, r, n, mid)[r][n].subs \in Int
<1>1. st[r][n] \in Entry
  BY DEF State, Known
<1>2. Bump(st[r][n], -1, mid) \in Entry
  BY <1>1, BumpType
<1>3. RemoveSubscription(st, r, n, mid)[r][n] = Bump(st[r][n], -1, mid)
  BY SubscriptionEntries
<1>4. QED
  BY <1>2, <1>3 DEF Entry

\* The next message of p is one that q can apply.
LEMMA NeverThrows ==
  ASSUME TypeInv, SyncInv, Calm, NEW q \in Nodes, NEW p \in Nodes,
         NEW id \in 1..Len(log[p]), phase[q] \in {"loaded", "joined"},
         sub[q][p].state # "NONE", ~Unsettled(q, p), id = sub[q][p].last + 1
  PROVE  ~Throws(fs[q], p, log[p][id], id)
<1> DEFINE m == log[p][id]
           own == EntriesOf(fs[q], p)
           st == Applied(fs[q], p, m, id)
<1>1. m \in Message /\ id \in Nat /\ fs[q] \in State /\ sub[q][p].last = id - 1
  <2>1. sub[q][p].last \in Nat /\ Len(log[p]) \in Nat
    BY DEF TypeInv, LogsTyped, SubsTyped, Subscriber
  <2>2. m \in Message /\ fs[q] \in State
    BY DEF TypeInv, LogsTyped
  <2>3. QED
    BY <2>1, <2>2
<1>2. own = After(hist[p], id - 1)
  <2>1. p \notin broken[q]
    BY SettledActs
  <2>2. Position(q, p) = id - 1
    BY <1>1 DEF Position
  <2>3. QED
    BY <2>1, <2>2 DEF SyncInv, PairExact
<1>3. Legal(own, m, id)
  BY <1>2 DEF Calm, TruthfulInv
<1>4. EntriesOf(st, p) = Stepped(own, m, id)
  BY <1>1, AppliedEntries
<1>5. m.type \in RoomMessages => /\ m.room \in Rooms
                                 /\ own[m.room] = fs[q][m.room][p]
                                 /\ EntriesOf(st, p)[m.room] = st[m.room][p]
  BY <1>1, MessageParts DEF EntriesOf
<1>6. m.type = "Unsubscription" /\ Known(fs[q], m.room, p) => st[m.room][p].subs \in Int
  <2> SUFFICES ASSUME m.type = "Unsubscription", Known(fs[q], m.room, p)
               PROVE  st[m.room][p].subs \in Int
    OBVIOUS
  <2> DEFINE r == m.room
  <2>1. st = RemoveSubscription(fs[q], r, p, id) /\ r \in Rooms /\ Known(fs[q], r, p)
    BY <1>5 DEF Applied, RoomMessages
  <2>2. QED
    BY <1>1, <2>1, LoweredEntry
<1> HIDE DEF m, own, st
<1>7. ~Throws(fs[q], p, m, id)
  BY <1>3, <1>4, <1>5, <1>6 DEF Throws, Legal, CanAddRoom, Known, RoomMessages, st
<1>8. QED
  BY <1>7 DEF m

LEMMA HandleCalm ==
  ASSUME TypeInv, TypeInv', Grows, SyncInv, Calm, NEW q \in Nodes, NEW p \in Nodes,
         NEW id \in 1..Len(log[p]), NEW s \in Subscriber,
         phase[q] \in {"loaded", "joined"}, sub[q][p].state # "NONE",
         ~Unsettled(q, p), id = sub[q][p].last + 1,
         s.state \notin {"NONE", "EVICTED"}, InStep(s, p),
         s.state = "BUFFERING" => s.syncing,
         UNCHANGED crashed,
         Handle(q, p, log[p][id], id, s)
  PROVE  Calm'
<1> DEFINE m == log[p][id]
           removal == [node |-> m.node, broadcast |-> FALSE, by |-> p]
<1>1. ~Throws(fs[q], p, m, id)
  BY NeverThrows
<1>2. m \in Message
  BY DEF TypeInv, LogsTyped
<1>3. Obituary(p, m)
  BY DEF Calm, TruthfulInv
<1>4. ~(m.type = "NodeEvicted" /\ m.node = q)
  BY <1>3 DEF Obituary, Dead
<1>5. \/ /\ sub' = [sub EXCEPT ![q][p] = s]
         /\ UNCHANGED <<phase, log, join, broken, removing>>
      \/ /\ m.type \in {"NodeEvicted", "NodeShutdown"}
         /\ sub' = [sub EXCEPT ![q][p] = s]
         /\ BeginRemoval(q, removal)
         /\ UNCHANGED <<phase, log, join, broken>>
  BY <1>1, <1>4 DEF Handle
<1>6. m.type \in {"NodeEvicted", "NodeShutdown"} =>
        removal \in Removal /\ Dead(removal.node)
  BY <1>2, <1>3, MessageParts DEF Removal, Obituary
<1>7. ~Waits(q)
  BY SettledActs
<1> HIDE DEF m, removal
<1>8. \A x \in Nodes : \A r \in removing'[x] :
        r \in removing[x] \/ (Dead(r.node) /\ ~Waits(x))
  BY <1>5, <1>6, <1>7, RemovalOfDead
<1>9. sub' = [sub EXCEPT ![q][p] = s] /\ UNCHANGED <<phase, log, join, crashed, broken>>
  BY <1>5
<1>10. QED
  BY <1>8, <1>9, SubscriberCalm

\* A message that was stored too early is dropped; any other is the next one.
LEMMA ProcessCalm ==
  ASSUME TypeInv, TypeInv', Grows, SyncInv, Calm, NEW q \in Nodes, NEW p \in Nodes,
         NEW id \in 1..Len(log[p]), NEW s \in Subscriber,
         Alive(q), sub[q][p].state # "NONE", ~Unsettled(q, p),
         s.state = sub[q][p].state, s.last = sub[q][p].last,
         s.state \notin {"NONE", "EVICTED"},
         s.state = "BUFFERING" => s.syncing,
         Stale(s, id) => InStep(s, p),
         ~Stale(s, id) => /\ InSequence(s, id)
                          /\ InStep([[s EXCEPT !.last = @ + 1] EXCEPT !.heard = TRUE], p),
         UNCHANGED crashed,
         Process(q, p, id, s)
  PROVE  Calm'
<1> DEFINE heard == [[s EXCEPT !.last = @ + 1] EXCEPT !.heard = TRUE]
<1>1. heard \in Subscriber /\ heard.state = s.state /\ heard.syncing = s.syncing
  BY CountedType
<1>2. phase[q] \in {"loaded", "joined"}
  BY DEF SyncInv, PairSane, Unsettled, NodeSane, Alive
<1>3. \/ /\ Stale(s, id) /\ sub' = [sub EXCEPT ![q][p] = s]
         /\ UNCHANGED <<phase, join, removing, log, hist, fs, broken>>
      \/ ~Stale(s, id) /\ Handle(q, p, log[p][id], id, heard)
  BY DEF Process
<1>4. ~Stale(s, id) => InSequence(s, id) /\ InStep(heard, p)
  OBVIOUS
<1> HIDE DEF heard
<1>5. CASE /\ Stale(s, id) /\ sub' = [sub EXCEPT ![q][p] = s]
           /\ UNCHANGED <<phase, join, removing, log, hist, fs, broken>>
  BY <1>5, SubscriberCalm
<1>6. CASE ~Stale(s, id) /\ Handle(q, p, log[p][id], id, heard)
  <2>1. id = sub[q][p].last + 1
    BY <1>4, <1>6 DEF InSequence
  <2>2. QED
    BY <1>1, <1>2, <1>4, <1>6, <2>1, HandleCalm
<1>7. QED
  BY <1>3, <1>5, <1>6
\* A subscriber that has one message less to wait for, once it has counted it.
LEMMA CountedInStep ==
  ASSUME NEW s \in Subscriber, NEW p,
         s.next \in 1..(Len(log[p]) + 1), Start(s) >= 1,
         \A i \in 1..Len(s.buf) : s.buf[i] = Start(s) + i - 1,
         s.state \in {"SANE", "MISSING_HEARTBEAT", "EVICTED"} =>
           ~s.syncing /\ s.buf = <<>> /\ s.last + 2 = s.next,
         s.syncing => Start(s) <= s.last + 2 /\ s.last + 2 <= s.next
  PROVE  InStep([[s EXCEPT !.last = @ + 1] EXCEPT !.heard = TRUE], p)
<1> DEFINE counted == [s EXCEPT !.last = @ + 1]
           heard == [counted EXCEPT !.heard = TRUE]
<1>1. counted \in Subscriber /\ counted.next = s.next
  BY DEF Subscriber
<1>2. heard.next = counted.next
  <2> HIDE DEF counted
  <2>1. QED
    BY <1>1 DEF Subscriber
<1>3. /\ heard.state = s.state /\ heard.last = s.last + 1 /\ heard.buf = s.buf
      /\ heard.syncing = s.syncing
  BY CountedType
<1>4. s.last \in Nat /\ s.next \in Nat
  BY DEF Subscriber
<1> HIDE DEF heard
<1>5. InStep(heard, p)
  BY <1>1, <1>2, <1>3, <1>4 DEF InStep, Start
<1>6. QED
  BY <1>5 DEF heard

LEMMA ReceiveCalm ==
  ASSUME TypeInv, TypeInv', Grows, SyncInv, Calm, NEW q \in Nodes, NEW p \in Nodes,
         Receive(q, p)
  PROVE  Calm'
<1> DEFINE c == sub[q][p]
           s == [c EXCEPT !.next = @ + 1]
           id == c.next
           b == [s EXCEPT !.buf = Append(@, id)]
<1>1. /\ c \in Subscriber /\ id \in 1..Len(log[p]) /\ Len(log[p]) \in Nat
      /\ Alive(q) /\ c.last \in Nat /\ c.next \in Nat /\ c.buf \in Seq(Nat)
  <2>1. c \in Subscriber
    BY DEF TypeInv, SubsTyped
  <2>2. id \in 1..Len(log[p]) /\ Len(log[p]) \in Nat /\ Alive(q)
    BY DEF TypeInv, LogsTyped, Receive, Deliverable
  <2>3. QED
    BY <2>1, <2>2 DEF Subscriber
<1>2. /\ s \in Subscriber /\ s.buf = c.buf /\ s.state = c.state
      /\ s.last = c.last /\ s.syncing = c.syncing
  BY <1>1, AdvancedType
<1>3. s.next = c.next + 1
  BY <1>1 DEF Subscriber
<1>4. /\ b \in Subscriber /\ b.state = s.state /\ b.last = s.last
      /\ b.syncing = s.syncing /\ b.next = s.next /\ b.buf = Append(c.buf, id)
  <2>1. Append(s.buf, id) \in Seq(Nat)
    BY <1>1, <1>2
  <2> HIDE DEF s, id
  <2>2. QED
    BY <1>2, <2>1 DEF Subscriber
<1>5. \/ /\ s.state = "BUFFERING"
         /\ sub' = [sub EXCEPT ![q][p] = b]
         /\ UNCHANGED <<phase, join, removing, log, hist, fs, broken>>
      \/ s.state \in {"SANE", "MISSING_HEARTBEAT"} /\ Process(q, p, id, s)
  BY DEF Receive
<1>6. UNCHANGED crashed
  BY DEF Receive
<1>7. c.state # "NONE" => PairCalm(q, p) /\ InStep(c, p)
  BY DEF Calm, PairCalm
<1>8. c.state # "NONE" /\ Unsettled(q, p) => c.state = "BUFFERING"
  BY DEF SyncInv, PairSane
<1> HIDE DEF s, b
<1>9. CASE /\ s.state = "BUFFERING"
           /\ sub' = [sub EXCEPT ![q][p] = b]
           /\ UNCHANGED <<phase, join, removing, log, hist, fs, broken>>
  <2>1. c.state = "BUFFERING" /\ InStep(c, p)
    BY <1>2, <1>7, <1>9
  <2> HIDE DEF c, id
  <2>2. /\ Len(b.buf) = Len(c.buf) + 1 /\ Len(c.buf) \in Nat /\ Start(b) = Start(c)
        /\ Start(c) \in Int /\ c.next = Start(c) + Len(c.buf)
    <3>1. Len(c.buf) \in Nat /\ c.next \in Nat
      BY <1>1
    <3>2. Len(b.buf) = Len(c.buf) + 1
      BY <1>1, <1>4
    <3>3. b.next = c.next + 1
      BY <1>3, <1>4
    <3>4. QED
      BY <3>1, <3>2, <3>3 DEF Start
  <2>3. \A i \in 1..Len(b.buf) : b.buf[i] = Start(c) + i - 1
    <3>1. id = Start(c) + Len(c.buf)
      BY <2>2 DEF id
    <3>2. \A i \in 1..Len(c.buf) : b.buf[i] = c.buf[i]
      BY <1>1, <1>4
    <3>3. b.buf[Len(c.buf) + 1] = id
      BY <1>1, <1>4
    <3>4. \A i \in 1..Len(c.buf) : c.buf[i] = Start(c) + i - 1
      BY <2>1 DEF InStep
    <3>5. SUFFICES ASSUME NEW i \in 1..Len(b.buf)
                   PROVE  b.buf[i] = Start(c) + i - 1
      OBVIOUS
    <3>6. CASE i \in 1..Len(c.buf)
      BY <3>2, <3>4, <3>6
    <3>7. CASE i = Len(c.buf) + 1
      BY <2>2, <3>1, <3>3, <3>7
    <3>8. QED
      BY <2>2, <3>5, <3>6, <3>7
  <2>4. InStep(b, p)
    <3>1. b.next \in 1..(Len(log[p]) + 1)
      BY <1>1, <1>3, <1>4 DEF id
    <3>2. Start(b) >= 1
      BY <2>1, <2>2 DEF InStep
    <3>3. \A i \in 1..Len(b.buf) : b.buf[i] = Start(b) + i - 1
      BY <2>2, <2>3
    <3>4. b.state = "BUFFERING"
      BY <1>4, <1>9
    <3>5. b.syncing => Start(b) <= b.last + 1 /\ b.last + 1 <= b.next
      <4>1. /\ b.last = c.last /\ b.syncing = c.syncing /\ b.next = c.next + 1
            /\ c.last \in Int /\ c.next \in Int
        BY <1>1, <1>2, <1>3, <1>4
      <4>2. QED
        BY <2>1, <2>2, <4>1 DEF InStep
    <3>6. QED
      BY <3>1, <3>2, <3>3, <3>4, <3>5 DEF InStep
  <2>5. b.state = "BUFFERING" /\ (~b.syncing => Unsettled(q, p))
    BY <1>2, <1>4, <1>7, <2>1 DEF c, PairCalm
  <2>6. QED
    BY <1>4, <1>6, <1>9, <2>1, <2>2, <2>4, <2>5, SubscriberCalm DEF c
<1>10. CASE s.state \in {"SANE", "MISSING_HEARTBEAT"} /\ Process(q, p, id, s)
  <2>1. /\ InStep(c, p) /\ ~Unsettled(q, p) /\ c.state \in {"SANE", "MISSING_HEARTBEAT"}
    BY <1>2, <1>7, <1>8, <1>10
  <2>2. c.buf = <<>> /\ ~c.syncing /\ c.last + 1 = id
    BY <2>1 DEF InStep
  <2>3. ~Stale(s, id) /\ InSequence(s, id)
    BY <1>2, <1>10, <2>2 DEF Stale, InSequence
  <2>4. /\ s.next \in 1..(Len(log[p]) + 1) /\ s.next = Start(s) /\ s.last + 2 = s.next
    <3>1. s.buf = <<>> /\ s.last = c.last /\ s.next = id + 1
      BY <1>2, <1>3, <2>2
    <3>2. s.next \in 1..(Len(log[p]) + 1) /\ s.next \in Int
      BY <1>1, <3>1
    <3>3. Start(s) = s.next
      BY <3>1, <3>2 DEF Start
    <3>4. QED
      BY <1>1, <2>2, <3>1, <3>2, <3>3
  <2>5. InStep([[s EXCEPT !.last = @ + 1] EXCEPT !.heard = TRUE], p)
    <3>1. s.buf = <<>> /\ ~s.syncing /\ Start(s) >= 1
      BY <1>2, <2>2, <2>4
    <3>2. \A i \in 1..Len(s.buf) : s.buf[i] = Start(s) + i - 1
      BY <3>1
    <3>3. QED
      BY <1>2, <2>4, <3>1, <3>2, CountedInStep
  <2>6. QED
    BY <1>1, <1>2, <1>6, <1>10, <2>1, <2>3, <2>5, ProcessCalm
<1>11. QED
  BY <1>5, <1>9, <1>10

LEMMA SyncBufferedCalm ==
  ASSUME TypeInv, TypeInv', Grows, SyncInv, Calm, NEW q \in Nodes, NEW p \in Nodes,
         SyncBuffered(q, p)
  PROVE  Calm'
<1> DEFINE c == sub[q][p]
           t == [c EXCEPT !.buf = Tail(@)]
           done == [c EXCEPT !.state = "SANE", !.syncing = FALSE]
           id == Head(c.buf)
<1>1. /\ c \in Subscriber /\ c.buf \in Seq(Nat) /\ Buffered(c, p)
      /\ c.last \in Nat /\ c.next \in Nat /\ Len(c.buf) \in Nat
  <2>1. c \in Subscriber /\ Buffered(c, p)
    BY DEF TypeInv, SubsTyped, BufferedExist
  <2> HIDE DEF c
  <2>2. QED
    BY <2>1 DEF Subscriber
<1>2. /\ Alive(q) /\ c.syncing /\ c.state # "NONE" /\ ~Unsettled(q, p)
      /\ UNCHANGED crashed
  BY DEF SyncBuffered, SyncInv, PairSane
<1>3. InStep(c, p) /\ c.state = "BUFFERING"
  BY <1>1, <1>2 DEF Calm, PairCalm, InStep, Subscriber, SubState
<1>4. c.next = Start(c) + Len(c.buf) /\ Start(c) \in Int
  BY <1>1 DEF Start
<1>5. CASE c.buf # <<>> /\ Process(q, p, id, t)
  <2>1. /\ id = c.buf[1] /\ 1 \in 1..Len(c.buf)
        /\ Tail(c.buf) \in Seq(Nat) /\ Len(Tail(c.buf)) = Len(c.buf) - 1
        /\ \A i \in 1..Len(Tail(c.buf)) :
             i + 1 \in 1..Len(c.buf) /\ Tail(c.buf)[i] = c.buf[i + 1]
    BY <1>1, <1>5
  <2>2. id \in 1..Len(log[p]) /\ id = Start(c)
    BY <1>1, <1>3, <1>4, <2>1 DEF Buffered, InStep
  <2>3. /\ t \in Subscriber /\ t.buf = Tail(c.buf) /\ t.state = c.state
        /\ t.last = c.last /\ t.syncing = c.syncing /\ t.next = c.next
    <3> HIDE DEF c
    <3>1. QED
      BY <1>1, <2>1 DEF Subscriber
  <2> HIDE DEF c, t, id
  <2>4. Start(t) = Start(c) + 1 /\ Len(t.buf) \in Nat /\ Len(c.buf) >= 1
    BY <1>1, <1>4, <2>1, <2>3 DEF Start
  <2>5. \A i \in 1..Len(t.buf) : t.buf[i] = Start(t) + i - 1
    BY <1>1, <1>3, <1>4, <2>1, <2>3, <2>4 DEF InStep
  <2>6. /\ c.next \in 1..(Len(log[p]) + 1) /\ Start(c) >= 1
        /\ Start(c) <= c.last + 1 /\ c.last + 1 <= c.next
    BY <1>2, <1>3 DEF InStep
  <2>7. Stale(t, id) <=> c.last >= Start(c)
    BY <1>3, <2>2, <2>3 DEF Stale
  <2>8. Stale(t, id) => InStep(t, p)
    BY <1>1, <1>2, <1>3, <1>4, <2>3, <2>4, <2>5, <2>6, <2>7 DEF InStep
  <2>9. ~Stale(t, id) => c.last + 1 = Start(c)
    BY <1>1, <1>4, <2>6, <2>7
  <2>10. ~Stale(t, id) => InStep([[t EXCEPT !.last = @ + 1] EXCEPT !.heard = TRUE], p)
    <3>1. ~Stale(t, id) => Start(t) <= t.last + 2 /\ t.last + 2 <= t.next
      BY <1>1, <1>4, <2>3, <2>4, <2>9
    <3>2. Start(t) >= 1
      BY <1>4, <2>4, <2>6
    <3>3. QED
      BY <1>3, <2>3, <2>5, <2>6, <3>1, <3>2, CountedInStep
  <2>11. ~Stale(t, id) => InSequence(t, id)
    BY <2>2, <2>3, <2>9 DEF InSequence
  <2>12. sub[q][p].state = t.state /\ sub[q][p].last = t.last /\ t.state = "BUFFERING"
    BY <1>3, <2>3 DEF c
  <2>13. QED
    BY <1>2, <1>5, <2>2, <2>3, <2>8, <2>10, <2>11, <2>12, ProcessCalm
<1>6. CASE /\ c.buf = <<>>
           /\ sub' = [sub EXCEPT ![q][p].state = "SANE", ![q][p].syncing = FALSE]
           /\ UNCHANGED <<phase, log, hist, fs, removing, join, broken>>
  <2>1. /\ done \in Subscriber /\ done.state = "SANE" /\ done.last = c.last
        /\ done.next = c.next /\ done.buf = c.buf /\ done.syncing = FALSE
    <3> HIDE DEF c
    <3>1. QED
      BY <1>1 DEF Subscriber, SubState
  <2>2. sub' = [sub EXCEPT ![q][p] = done]
    <3>1. [sub EXCEPT ![q][p].state = "SANE", ![q][p].syncing = FALSE]
            = [sub EXCEPT ![q][p] = done]
      BY DEF TypeInv, SubsTyped
    <3>2. QED
      BY <1>6, <3>1
  <2>3. /\ Start(c) = c.next /\ c.last + 1 <= c.next /\ Start(c) <= c.last + 1
    BY <1>1, <1>2, <1>3, <1>4, <1>6 DEF InStep
  <2> HIDE DEF c, done
  <2>4. InStep(done, p)
    BY <1>1, <1>3, <1>6, <2>1, <2>3 DEF InStep, Start
  <2>5. QED
    BY <1>2, <1>6, <2>1, <2>2, <2>4, SubscriberCalm DEF c
<1>7. QED
  BY <1>5, <1>6 DEF SyncBuffered

\* The timer finds only dead nodes silent.
LEMMA CheckHeartbeatCalm ==
  ASSUME TypeInv, TypeInv', Grows, SyncInv, Calm, ~SlowHandshake, ~SlowLinks,
         NEW q \in Nodes, NEW p \in Nodes, CheckHeartbeat(q, p)
  PROVE  Calm'
<1> DEFINE c == sub[q][p]
           sane == [c EXCEPT !.state = "SANE", !.heard = FALSE]
           missing == [c EXCEPT !.state = "MISSING_HEARTBEAT"]
           evicted == [c EXCEPT !.state = "EVICTED"]
           removal == [node |-> p, broadcast |-> TRUE, by |-> q]
<1>1. c \in Subscriber
  BY DEF TypeInv, SubsTyped
<1>2. \A s \in {sane, missing, evicted} :
        /\ s \in Subscriber /\ s.last = c.last /\ s.buf = c.buf /\ s.next = c.next
        /\ s.syncing = c.syncing /\ s.state \in {"SANE", "MISSING_HEARTBEAT", "EVICTED"}
  BY <1>1 DEF Subscriber, SubState
<1>3. /\ c.state \in {"SANE", "MISSING_HEARTBEAT"} /\ ~Alive(p)
      /\ UNCHANGED <<phase, log, join, crashed, broken>>
  BY DEF CheckHeartbeat
<1>4. ~Unsettled(q, p)
  BY <1>3 DEF SyncInv, PairSane
<1>5. Dead(p) /\ InStep(c, p)
  BY <1>3 DEF Calm, PairCalm, Alive, Dead
<1>6. ~Waits(q)
  BY <1>3, <1>4, SettledActs
<1>7. removal \in Removal /\ removal.node = p
  BY DEF Removal
<1>8. \E s \in {sane, missing, evicted} :
        /\ sub' = [sub EXCEPT ![q][p] = s]
        /\ UNCHANGED removing \/ BeginRemoval(q, removal)
  <2>1. [sub EXCEPT ![q][p].state = "SANE", ![q][p].heard = FALSE]
          = [sub EXCEPT ![q][p] = sane]
    BY DEF TypeInv, SubsTyped
  <2>2. QED
    BY <2>1 DEF CheckHeartbeat
<1> HIDE DEF sane, missing, evicted, removal
<1>9. PICK s \in {sane, missing, evicted} :
        /\ sub' = [sub EXCEPT ![q][p] = s]
        /\ UNCHANGED removing \/ BeginRemoval(q, removal)
  BY <1>8
<1>10. InStep(s, p)
  <2> HIDE DEF c
  <2>1. QED
    BY <1>2, <1>3, <1>5 DEF InStep, Start
<1>11. \A x \in Nodes : \A r \in removing'[x] :
         r \in removing[x] \/ (Dead(r.node) /\ ~Waits(x))
  BY <1>5, <1>6, <1>7, <1>9, RemovalOfDead
<1>12. QED
  BY <1>2, <1>3, <1>4, <1>5, <1>9, <1>10, <1>11, SubscriberCalm
-----------------------------------------------------------------------------
(***************************************************************************)
(* The ends of processes, and the handshake.                               *)
(***************************************************************************)
LEMMA GoneCalm ==
  ASSUME TypeInv, TypeInv', Grows, SyncInv, Calm, NEW q \in Nodes, Gone(q),
         \A x \in Nodes : Speaks(x), \A x \in Nodes \ {q} : log'[x] = log[x],
         crashed' \subseteq crashed \cup {q}, UNCHANGED broken
  PROVE  Calm'
<1>1. /\ phase' = [phase EXCEPT ![q] = "down"]
      /\ sub' = [sub EXCEPT ![q] = [p \in Nodes |-> NoSubscriber]]
      /\ removing' = [removing EXCEPT ![q] = {}]
      /\ join' = IF Joining(q) THEN NoJoin ELSE join
  BY DEF Gone
<1>2. \A x \in Nodes : /\ phase'[x] = IF x = q THEN "down" ELSE phase[x]
                       /\ removing'[x] = IF x = q THEN {} ELSE removing[x]
  BY <1>1 DEF TypeInv, OthersTyped
<1>3. \A x \in Nodes : Dead(x)' <=> Dead(x) \/ x = q
  BY <1>2 DEF Dead
<1>4. /\ \A x, y \in Nodes : x # q => sub'[x][y] = sub[x][y]
      /\ \A y \in Nodes : sub'[q][y].state = "NONE"
  BY <1>1 DEF TypeInv, SubsTyped, NoSubscriber
<1>5. /\ ~Joining(q)'
      /\ \A x \in Nodes \ {q} : (Joining(x)' <=> Joining(x))
                                /\ (Joining(x) => join' = join)
  BY <1>1 DEF Joining, NoJoin
<1>6. \A x, y \in Nodes : x # q => (Unsettled(x, y)' <=> Unsettled(x, y))
  BY <1>5 DEF Unsettled
<1>7. TruthfulInv'
  <2>1. DeathsLast
    BY <1>3 DEF DeathsLast
  <2>2. QED
    BY <2>1, TruthfulStep DEF Calm
<1>8. LifeInv'
  <2>1. LifeInv
    BY DEF Calm
  <2>2. \A x \in Nodes : removing[x] \subseteq Removal
    BY DEF TypeInv, OthersTyped
  <2>3. \A x \in Nodes : \A removal \in removing[x] : removal.node \in Nodes
    BY <2>2 DEF Removal
  <2>4. \A x \in Nodes : \A removal \in removing'[x] : Dead(removal.node)'
    BY <1>2, <1>3, <2>1, <2>3 DEF LifeInv
  <2>5. crashed \subseteq Nodes
    BY DEF TypeInv, CountsTyped
  <2>6. QED
    BY <1>2, <1>3, <1>5, <2>1, <2>4, <2>5 DEF LifeInv
<1>9. ASSUME NEW x \in Nodes, NEW y \in Nodes
      PROVE  PairCalm(x, y)' /\ BrokenCalm(x, y)' /\ KnowsJoined(x, y)' /\ StoresEnough(x, y)'
  <2>1. PairCalm(x, y) /\ BrokenCalm(x, y) /\ KnowsJoined(x, y) /\ StoresEnough(x, y)
    BY DEF Calm
  <2>2. PairCalm(x, y)'
    BY <1>2, <1>3, <1>4, <1>6, <2>1, PairCalmKept DEF TypeInv
  <2>3. BrokenCalm(x, y)'
    <3>1. CASE x = q
      BY <1>2, <1>3, <1>4, <2>1, <3>1 DEF BrokenCalm
    <3>2. CASE x # q
      BY <1>2, <1>3, <1>4, <1>5, <1>6, <2>1, <3>2 DEF BrokenCalm, Unsettled
    <3>3. QED
      BY <3>1, <3>2
  <2>4. KnowsJoined(x, y)'
    BY <1>2, <1>4, <2>1 DEF KnowsJoined
  <2>5. StoresEnough(x, y)'
    <3>1. CASE x = q
      BY <1>5, <3>1 DEF StoresEnough, Unsettled
    <3>2. CASE x # q
      BY <1>2, <1>4, <1>5, <1>6, <2>1, <3>2 DEF StoresEnough, Unsettled, Start
    <3>3. QED
      BY <3>1, <3>2
  <2>6. QED
    BY <2>2, <2>3, <2>4, <2>5
<1>10. ASSUME NEW x \in Nodes PROVE JoinCalm(x)' /\ WaitCalm(x)'
  <2>1. JoinCalm(x) /\ WaitCalm(x)
    BY DEF Calm
  <2>2. CASE x = q
    BY <1>2, <1>5, <2>2 DEF JoinCalm, WaitCalm, Waits
  <2>3. CASE x # q
    <3>1. ASSUME Joining(x) PROVE JoinCalm(x)'
      <4>1. join' = join /\ phase'[x] = phase[x] /\ log'[x] = log[x]
        BY <1>2, <1>5, <2>3, <3>1
      <4>2. phase[x] \in {"buffering", "loaded"} /\ join.targets \subseteq Nodes
        BY <3>1 DEF SyncInv, NodeSane, TypeInv, OthersTyped, JoinRecord
      <4>3. \A d \in Nodes : phase'[d] = "joined" => phase[d] = "joined" /\ d # q
        BY <1>2
      <4>4. \A p \in join.targets : phase'[p] \in {"joined", "down"}
        BY <1>2, <2>1, <3>1, <4>2 DEF JoinCalm
      <4>5. \A d \in Nodes : phase'[d] = "joined" =>
              /\ sub'[x][d].state # "NONE"
              /\ d \in join.waiting \/ (join.answer[d] # -1 /\ sub'[d][x].state # "NONE")
        BY <1>4, <2>1, <2>3, <3>1, <4>3 DEF JoinCalm
      <4>6. QED
        BY <2>1, <3>1, <4>1, <4>4, <4>5 DEF JoinCalm
    <3>2. JoinCalm(x)'
      BY <1>5, <2>3, <3>1 DEF JoinCalm
    <3>3. Waits(x)' <=> Waits(x)
      BY <1>2, <1>5, <2>3 DEF Waits
    <3>4. WaitCalm(x)'
      BY <1>2, <1>4, <1>6, <2>1, <2>3, <3>3 DEF WaitCalm
    <3>5. QED
      BY <3>2, <3>4
  <2>4. QED
    BY <2>2, <2>3
<1>11. QED
  BY <1>7, <1>8, <1>9, <1>10 DEF Calm

LEMMA StopCalm ==
  ASSUME TypeInv, TypeInv', Grows, SyncInv, Calm, NEW q \in Nodes, Stop(q),
         UNCHANGED crashed
  PROVE  Calm'
<1> DEFINE m == [type |-> "NodeShutdown", node |-> q]
<1>1. m \in Message /\ m.type \notin RoomMessages
  BY DEF Message, RoomMessages
<1>2. Publish(q, m, fs[q]) /\ Gone(q) /\ UNCHANGED broken
  BY DEF Stop, Announce
<1>3. Obituary(q, m)'
  BY <1>2 DEF Obituary, Dead, Gone, TypeInv, OthersTyped
<1> HIDE DEF m
<1>4. /\ \A x \in Nodes : Speaks(x)
      /\ \A x \in Nodes \ {q} : log'[x] = log[x]
  BY <1>1, <1>2, <1>3, QuietLegal, PublishSpeaks
<1>5. QED
  BY <1>2, <1>4, GoneCalm

LEMMA FailToStartCalm ==
  ASSUME TypeInv, TypeInv', Grows, SyncInv, Calm, NEW q \in Nodes, FailToStart(q)
  PROVE  Calm'
<1>1. /\ Gone(q) /\ crashed' = crashed \cup {q} /\ UNCHANGED <<log, broken>>
  BY DEF FailToStart
<1>2. QED
  BY <1>1, SilentSpeaks, GoneCalm

\* A step of the joining node q on its own subscribers, phase and handshake.
LEMMA NewcomerCalm ==
  ASSUME TypeInv, TypeInv', Grows, SyncInv, Calm, NEW q \in Nodes,
         UNCHANGED <<log, removing, crashed>>,
         phase[q] \in Fresh, phase'[q] \in {"buffering", "loaded", "joined"},
         phase[q] = "loaded" => phase'[q] # "buffering",
         phase'[q] = "loaded" => Joining(q)',
         \A x \in Nodes \ {q} :
           /\ ~Joining(x) /\ ~Joining(x)'
           /\ phase'[x] = phase[x] /\ sub'[x] = sub[x] /\ broken'[x] = broken[x],
         \A y \in Nodes : /\ PairCalm(q, y)' /\ BrokenCalm(q, y)' /\ StoresEnough(q, y)'
                          /\ KnowsJoined(q, y)' /\ KnowsJoined(y, q)',
         JoinCalm(q)', WaitCalm(q)'
  PROVE  Calm'
<1>1. \A x \in Nodes : Dead(x)' <=> Dead(x)
  BY DEF Dead, Fresh
<1>2. TruthfulInv'
  <2>1. DeathsLast
    BY <1>1 DEF DeathsLast
  <2>2. QED
    BY <2>1, SilentSpeaks, TruthfulStep DEF Calm
<1>3. LifeInv'
  <2>1. LifeInv /\ crashed \subseteq Nodes
    BY DEF Calm, TypeInv, CountsTyped
  <2>2. \A x \in Nodes : removing[x] \subseteq Removal
    BY DEF TypeInv, OthersTyped
  <2>3. \A x \in Nodes : \A removal \in removing[x] : removal.node \in Nodes
    BY <2>2 DEF Removal
  <2>4. QED
    BY <1>1, <2>1, <2>3 DEF LifeInv
<1>4. ASSUME NEW x \in Nodes, NEW y \in Nodes
      PROVE  PairCalm(x, y)' /\ BrokenCalm(x, y)' /\ KnowsJoined(x, y)' /\ StoresEnough(x, y)'
  <2>1. CASE x = q
    BY <2>1
  <2>2. CASE x # q
    <3>1. PairCalm(x, y) /\ BrokenCalm(x, y) /\ KnowsJoined(x, y)
      BY DEF Calm
    <3>2. ~Unsettled(x, y) /\ ~Unsettled(x, y)'
      BY <2>2 DEF Unsettled
    <3>3. phase[y] \in {"loaded", "joined", "down"} => phase'[y] \in {"loaded", "joined", "down"}
      BY DEF Fresh
    <3>4. PairCalm(x, y)'
      BY <1>1, <2>2, <3>1, <3>2, <3>3, PairCalmKept DEF TypeInv
    <3>5. BrokenCalm(x, y)'
      BY <1>1, <2>2, <3>1, <3>2 DEF BrokenCalm
    <3>6. KnowsJoined(x, y)'
      BY <2>2, <3>1 DEF KnowsJoined
    <3>7. QED
      BY <3>2, <3>4, <3>5, <3>6 DEF StoresEnough
  <2>3. QED
    BY <2>1, <2>2
<1>5. ASSUME NEW x \in Nodes PROVE JoinCalm(x)' /\ WaitCalm(x)'
  <2>1. CASE x = q
    BY <2>1
  <2>2. CASE x # q
    <3>1. WaitCalm(x) /\ ~Joining(x) /\ ~Joining(x)'
      BY <2>2 DEF Calm
    <3>2. QED
      BY <2>2, <3>1 DEF JoinCalm, WaitCalm, Waits, Unsettled
  <2>3. QED
    BY <2>1, <2>2
<1>6. QED
  BY <1>2, <1>3, <1>4, <1>5 DEF Calm

LEMMA DiscoverCalm ==
  ASSUME TypeInv, TypeInv', Grows, SyncInv, Calm, ~SlowLinks, NEW q \in Nodes,
         NEW targets \in SUBSET (Nodes \ {q}), NEW retried,
         Discoverable(targets), Discover(q, targets, retried),
         phase[q] \in {"off", "buffering"}, join.node \subseteq {q},
         UNCHANGED <<log, removing, crashed, broken>>
  PROVE  Calm'
<1>1. \A x \in Nodes \ {q} : ~Joining(x)
  BY DEF Joining
<1>2. \A x \in Nodes \ {q} : phase'[x] = phase[x] /\ sub'[x] = sub[x]
  BY DEF Discover, TypeInv, OthersTyped, SubsTyped
<1>3. /\ \A d \in Nodes : phase[d] = "joined" => d \in targets
      /\ \A p \in targets : p \in Nodes /\ p # q /\ (phase[p] = "joined" \/ Dead(p))
  BY DEF Discoverable, Calm, LifeInv
<1>4. /\ broken[q] = {} /\ removing[q] = {}
  <2>1. Waits(q)
    BY DEF SyncInv, NodeSane, Waits, Calm, JoinCalm
  <2>2. \A p \in Nodes : p \notin broken[q]
    BY DEF Calm, BrokenCalm
  <2>3. broken[q] \subseteq Nodes
    BY DEF TypeInv, OthersTyped
  <2>4. QED
    BY <2>1, <2>2, <2>3 DEF Calm, WaitCalm
<1>5. \A x \in Nodes : phase[x] = "loaded" => Joining(x)
  BY DEF Calm, LifeInv
<1>6. phase[q] \in Fresh /\ phase[q] # "loaded"
  BY DEF Fresh
<1>7. \A y \in Nodes : ~(phase[y] = "joined" /\ sub[y][q].state # "NONE")
  BY DEF Calm, PairCalm
<1>8. CASE targets = {}
  <2>1. /\ phase'[q] = "joined" /\ join' = NoJoin
        /\ \A y \in Nodes : sub'[q][y].state = "NONE"
    <3>1. /\ phase' = [phase EXCEPT ![q] = "joined"] /\ join' = NoJoin
          /\ sub' = [sub EXCEPT ![q] = [p \in Nodes |-> NoSubscriber]]
      BY <1>8 DEF Discover
    <3>2. QED
      BY <3>1 DEF TypeInv, OthersTyped, SubsTyped, NoSubscriber
  <2>2. \A x \in Nodes : ~Joining(x)'
    BY <2>1 DEF Joining, NoJoin
  <2>3. \A y \in Nodes \ {q} : phase'[y] # "joined"
    BY <1>2, <1>3, <1>8
  <2>4. ASSUME NEW y \in Nodes
        PROVE  /\ PairCalm(q, y)' /\ BrokenCalm(q, y)' /\ StoresEnough(q, y)'
               /\ KnowsJoined(q, y)' /\ KnowsJoined(y, q)'
    BY <1>4, <2>1, <2>2, <2>3
       DEF PairCalm, BrokenCalm, StoresEnough, KnowsJoined, Unsettled
  <2>5. JoinCalm(q)' /\ WaitCalm(q)'
    BY <2>1, <2>2 DEF JoinCalm, WaitCalm, Waits
  <2>6. QED
    BY <1>1, <1>2, <1>6, <2>1, <2>2, <2>4, <2>5, NewcomerCalm
<1>9. CASE targets # {}
  <2>1. /\ phase'[q] = "buffering"
        /\ join' = [NoJoin EXCEPT !.node = {q}, !.targets = targets,
                                  !.waiting = targets, !.retried = retried]
        /\ \A y \in Nodes : sub'[q][y] = IF y \notin targets THEN NoSubscriber
                                         ELSE [NewSubscriber EXCEPT !.next = NextId(y)]
    BY <1>9 DEF Discover, TypeInv, OthersTyped, SubsTyped
  <2>2. /\ join'.node = {q} /\ join'.targets = targets /\ join'.waiting = targets
        /\ join'.answer = [p \in Nodes |-> -1]
    BY <2>1, RecordTypes DEF NoJoin, JoinRecord
  <2>3. Joining(q)' /\ \A x \in Nodes \ {q} : ~Joining(x)'
    BY <2>2 DEF Joining
  <2>4. \A y \in Nodes : Unsettled(q, y)' <=> y \in targets
    BY <2>2, <2>3 DEF Unsettled
  <2>5. ASSUME NEW y \in Nodes
        PROVE  /\ y \notin targets => sub'[q][y].state = "NONE"
               /\ y \in targets => /\ sub'[q][y].state = "BUFFERING" /\ ~sub'[q][y].syncing
                                   /\ sub'[q][y].buf = <<>>
                                   /\ sub'[q][y].next = Len(log[y]) + 1
    <3> DEFINE connected == [NewSubscriber EXCEPT !.next = NextId(y)]
    <3>1. NextId(y) \in Nat
      BY DEF TypeInv, LogsTyped, NextId
    <3>2. connected.state = "BUFFERING" /\ ~connected.syncing
      BY <3>1, NewSubscriberParts
    <3>3. connected.buf = <<>> /\ connected.next = NextId(y)
      BY <3>1, RecordTypes DEF Subscriber
    <3> HIDE DEF connected
    <3>4. sub'[q][y] = IF y \notin targets THEN NoSubscriber ELSE connected
      BY <2>1 DEF connected
    <3>5. QED
      BY <3>2, <3>3, <3>4 DEF NextId, NoSubscriber
  <2>6. ASSUME NEW y \in Nodes PROVE PairCalm(q, y)'
    <3> SUFFICES ASSUME y \in targets PROVE PairCalm(q, y)'
      BY <2>5 DEF PairCalm
    <3> DEFINE s == sub'[q][y]
    <3>1. /\ s.state = "BUFFERING" /\ ~s.syncing /\ s.buf = <<>>
          /\ s.next = Len(log'[y]) + 1 /\ Len(log'[y]) \in Nat
      BY <2>5 DEF TypeInv, LogsTyped
    <3>2. InStep(sub[q][y], y)'
      <4> HIDE DEF s
      <4>1. /\ s.next \in 1..(Len(log'[y]) + 1)
            /\ s.next - Len(s.buf) >= 1
            /\ \A i \in 1..Len(s.buf) : s.buf[i] = s.next - Len(s.buf) + i - 1
        BY <3>1
      <4>2. QED
        BY <3>1, <4>1 DEF InStep, Start, s
    <3>3. phase'[y] \in {"joined", "down"}
      BY <1>2, <1>3 DEF Dead
    <3>4. QED
      BY <2>4, <3>1, <3>2, <3>3 DEF PairCalm
  <2>7. ASSUME NEW y \in Nodes
        PROVE  /\ BrokenCalm(q, y)' /\ StoresEnough(q, y)'
               /\ KnowsJoined(q, y)' /\ KnowsJoined(y, q)'
    BY <1>4, <2>1 DEF BrokenCalm, StoresEnough, KnowsJoined
  <2>8. JoinCalm(q)'
    <3>1. \A p \in targets : phase'[p] \in {"joined", "down"}
      BY <1>2, <1>3 DEF Dead
    <3>2. \A d \in Nodes : phase'[d] = "joined" => d \in targets /\ sub'[q][d].state # "NONE"
      BY <1>2, <1>3, <2>1, <2>5
    <3>3. QED
      BY <1>9, <2>1, <2>2, <3>1, <3>2 DEF JoinCalm
  <2>9. WaitCalm(q)'
    BY <1>4, <2>4, <2>5 DEF WaitCalm
  <2>10. QED
    BY <1>1, <1>2, <1>6, <2>1, <2>3, <2>6, <2>7, <2>8, <2>9, NewcomerCalm
<1>10. QED
  BY <1>8, <1>9

LEMMA StartHandshakeCalm ==
  ASSUME TypeInv, TypeInv', Grows, SyncInv, Calm, ~SlowLinks, NEW q \in Nodes,
         StartHandshake(q)
  PROVE  Calm'
<1>1. PICK targets \in SUBSET (Nodes \ {q}) :
        Discoverable(targets) /\ Discover(q, targets, FALSE)
  BY DEF StartHandshake
<1>2. join.node \subseteq {q} /\ phase[q] = "off"
  BY DEF StartHandshake, NoJoin
<1>3. UNCHANGED <<log, removing, crashed, broken>>
  BY DEF StartHandshake
<1>4. QED
  BY <1>1, <1>2, <1>3, DiscoverCalm

LEMMA RetryHandshakeCalm ==
  ASSUME TypeInv, TypeInv', Grows, SyncInv, Calm, ~SlowLinks, NEW q \in Nodes,
         RetryHandshake(q)
  PROVE  Calm'
<1>1. UNCHANGED crashed
  BY DEF RetryHandshake
<1>2. CASE Stop(q)
  BY <1>1, <1>2, StopCalm
<1>3. CASE ~Stop(q)
  <2>1. PICK targets \in SUBSET (Nodes \ {q}) :
          Discoverable(targets) /\ Discover(q, targets, TRUE)
    BY <1>3 DEF RetryHandshake
  <2>2. join.node \subseteq {q} /\ phase[q] = "buffering"
    BY DEF RetryHandshake, Joining
  <2>3. UNCHANGED <<log, removing, broken>>
    BY <1>3 DEF RetryHandshake
  <2>4. QED
    BY <1>1, <2>1, <2>2, <2>3, DiscoverCalm
<1>4. QED
  BY <1>2, <1>3

\* The full state of d: what it lacks is about dead nodes, and it goes at least as
\* far as q's subscribers need.
LEMMA GetFullStateCalm ==
  ASSUME TypeInv, TypeInv', Grows, SyncInv, Calm, ~SlowLinks, NEW q \in Nodes,
         NEW d \in Nodes, GetFullState(q, d)
  PROVE  Calm'
<1> DEFINE known(p) == p = d \/ sub[d][p].state # "NONE"
           idOf(p) == IF p = d THEN Len(log[d]) ELSE sub[d][p].last
           ids == [p \in Nodes |-> IF known(p) THEN idOf(p) ELSE -1]
<1>1. /\ Joining(q) /\ phase[q] = "buffering" /\ phase[d] = "joined" /\ d # q
      /\ \A p \in join.targets : known(p) =>
           sub[q][p].next - Len(sub[q][p].buf) <= idOf(p) + 1
  BY DEF GetFullState
<1>2. CASE /\ phase' = [phase EXCEPT ![q] = "loaded"]
           /\ join' = [join EXCEPT !.ids = ids, !.hello = Len(log[q])]
           /\ broken' = [broken EXCEPT
                ![q] = @ \cup broken[d] \cup {p \in join.targets : ~known(p)}]
           /\ UNCHANGED <<log, sub, removing, crashed>>
  <2>1. /\ join'.node = join.node /\ join'.targets = join.targets /\ join'.ids = ids
        /\ join'.waiting = join.waiting /\ join'.answer = join.answer
        /\ join'.hello = Len(log[q])
    <3> HIDE DEF ids
    <3>1. QED
      BY <1>2 DEF TypeInv, OthersTyped, JoinRecord
  <2>2. /\ phase'[q] = "loaded" /\ Joining(q)'
        /\ \A x \in Nodes \ {q} :
             /\ ~Joining(x) /\ ~Joining(x)'
             /\ phase'[x] = phase[x] /\ sub'[x] = sub[x] /\ broken'[x] = broken[x]
    BY <1>1, <1>2, <2>1 DEF Joining, TypeInv, OthersTyped
  <2>3. \A y \in Nodes : Unsettled(q, y)' <=> Unsettled(q, y)
    BY <1>1, <2>1, <2>2 DEF Unsettled
  <2>4. /\ JoinCalm(q) /\ WaitCalm(q) /\ Waits(q)
        /\ join.waiting = join.targets /\ \A p \in Nodes : join.answer[p] = -1
    BY <1>1 DEF Calm, JoinCalm, Waits
  <2>5. ASSUME NEW y \in Nodes, sub[q][y].state # "NONE" PROVE Unsettled(q, y)
    BY <2>4, <2>5 DEF WaitCalm
  <2>6. ASSUME NEW y \in Nodes PROVE PairCalm(q, y)'
    <3>1. PairCalm(q, y) /\ sub' = sub
      BY <1>2 DEF Calm
    <3>2. phase[y] \in {"loaded", "joined", "down"} => phase'[y] \in {"loaded", "joined", "down"}
      BY <2>2
    <3>3. Dead(y) => Dead(y)'
      BY <1>1, <2>2 DEF Dead
    <3>4. QED
      BY <2>3, <3>1, <3>2, <3>3, PairCalmKept DEF TypeInv
  <2>7. ASSUME NEW y \in Nodes PROVE BrokenCalm(q, y)'
    <3> SUFFICES ASSUME y \in broken'[q] PROVE BrokenCalm(q, y)'
      BY DEF BrokenCalm
    <3>1. broken[q] = {}
      <4>1. \A p \in Nodes : p \notin broken[q]
        BY <1>1 DEF Calm, BrokenCalm
      <4>2. QED
        BY <4>1 DEF TypeInv, OthersTyped
    <3>2. y \in broken[d] \/ (y \in join.targets /\ ~known(y))
      BY <1>2, <3>1 DEF TypeInv, OthersTyped
    <3>3. Dead(y)
      <4>1. CASE y \in broken[d]
        BY <4>1 DEF Calm, BrokenCalm
      <4>2. CASE y \in join.targets /\ ~known(y)
        <5>1. phase[y] \in {"joined", "down"}
          BY <1>1, <2>4, <4>2 DEF JoinCalm
        <5>2. KnowsJoined(d, y)
          BY DEF Calm
        <5>3. QED
          BY <1>1, <4>2, <5>1, <5>2 DEF KnowsJoined, Dead
      <4>3. QED
        BY <3>2, <4>1, <4>2
    <3>4. Dead(y)'
      BY <1>1, <2>2, <3>3 DEF Dead
    <3>5. sub'[q][y].state = "NONE" \/ Unsettled(q, y)'
      BY <1>2, <2>3, <2>5
    <3>6. QED
      BY <2>1, <2>2, <2>4, <3>4, <3>5 DEF BrokenCalm
  <2>8. ASSUME NEW y \in Nodes PROVE StoresEnough(q, y)'
    <3> SUFFICES ASSUME Unsettled(q, y) PROVE StoresEnough(q, y)'
      BY <2>3 DEF StoresEnough
    <3>1. y \in join.targets
      BY DEF Unsettled
    <3>2. join'.ids[y] # -1 => known(y) /\ join'.ids[y] = idOf(y)
      BY <2>1
    <3>3. join'.ids[y] # -1 => sub[q][y].next - Len(sub[q][y].buf) <= join'.ids[y] + 1
      BY <1>1, <3>1, <3>2
    <3>4. sub' = sub /\ join'.answer[y] = -1
      BY <1>2, <2>1, <2>4
    <3> HIDE DEF known, idOf, ids
    <3>5. QED
      BY <3>3, <3>4 DEF StoresEnough, Start
  <2>9. ASSUME NEW y \in Nodes PROVE KnowsJoined(q, y)' /\ KnowsJoined(y, q)'
    BY <2>2 DEF KnowsJoined
  <2>10. JoinCalm(q)'
    <3>1. sub' = sub /\ log' = log
      BY <1>2
    <3>2. \A p \in join.targets : phase'[p] \in {"joined", "down"}
      BY <1>1, <2>2, <2>4 DEF JoinCalm, TypeInv, OthersTyped, JoinRecord
    <3>3. \A p \in Nodes : phase'[p] = "joined" => phase[p] = "joined"
      BY <2>2
    <3> HIDE DEF known, idOf, ids
    <3>4. QED
      BY <1>1, <2>1, <2>2, <2>4, <3>1, <3>2, <3>3 DEF JoinCalm
  <2>11. WaitCalm(q)'
    BY <1>2, <2>3, <2>4, <2>5 DEF WaitCalm
  <2>12. phase[q] \in Fresh
    BY <1>1 DEF Fresh
  <2> HIDE DEF known, idOf, ids
  <2>13. QED
    BY <1>1, <1>2, <2>2, <2>6, <2>7, <2>8, <2>9, <2>10, <2>11, <2>12, NewcomerCalm
<1>3. QED
  BY <1>2, FailToStartCalm DEF GetFullState

\* p answers: it knows q from what q has said so far.
LEMMA HandleHandshakeCalm ==
  ASSUME TypeInv, TypeInv', Grows, SyncInv, Calm, ~SlowLinks, ~SlowHandshake,
         NEW p \in Nodes, NEW q \in Nodes, HandleHandshake(p, q)
  PROVE  Calm'
<1> DEFINE s == IF sub[p][q].state # "NONE" THEN sub[p][q]
                ELSE [SyncedSubscriber(join.hello) EXCEPT !.next = NextId(q)]
<1>1. /\ Joining(q) /\ phase[q] = "loaded" /\ phase[p] = "joined" /\ p # q
      /\ p \in join.waiting
      /\ UNCHANGED <<phase, log, removing, crashed, broken>>
  BY DEF HandleHandshake
<1>2. sub' = [sub EXCEPT ![p][q] = s]
  BY DEF HandleHandshake
<1>3. /\ join'.node = join.node /\ join'.targets = join.targets
      /\ join'.ids = join.ids /\ join'.hello = join.hello
      /\ join'.waiting = join.waiting \ {p}
      /\ \A y \in Nodes : join'.answer[y] = IF y = p THEN Len(log[p]) ELSE join.answer[y]
  BY DEF HandleHandshake, TypeInv, OthersTyped, JoinRecord
<1>4. JoinCalm(q) /\ WaitCalm(q) /\ ~Joining(p)
  BY <1>1 DEF Calm, SyncInv, NodeSane
<1>5. join.hello = Len(log[q]) /\ Len(log[q]) \in Nat /\ Len(log[p]) \in Nat
  BY <1>1, <1>4 DEF JoinCalm, TypeInv, LogsTyped
<1>6. sub[p][q].state = "NONE" =>
        /\ s.state = "SANE" /\ s.last = Len(log[q]) /\ s.buf = <<>> /\ ~s.syncing
        /\ s.next = Len(log[q]) + 1
  <2>1. NextId(q) \in Nat /\ NextId(q) = Len(log[q]) + 1
    BY <1>5 DEF NextId
  <2> DEFINE n == NextId(q)
             new == [SyncedSubscriber(join.hello) EXCEPT !.next = n]
  <2> HIDE DEF n
  <2>2. /\ new.state = "SANE" /\ new.last = join.hello /\ new.buf = <<>> /\ ~new.syncing
        /\ new.next = n
    <3>1. n \in Nat /\ join.hello \in Nat
      BY <1>5, <2>1 DEF n
    <3>2. new \in Subscriber /\ new.state = "SANE" /\ new.last = join.hello
          /\ new.buf = <<>> /\ ~new.syncing
      BY <3>1, SyncedType
    <3>3. new.next = n
      BY DEF SyncedSubscriber, NoSubscriber
    <3>4. QED
      BY <3>2, <3>3
  <2>3. QED
    BY <1>5, <2>1, <2>2 DEF n
<1>7. sub[p][q].state # "NONE" => s = sub[p][q]
  OBVIOUS
<1> HIDE DEF s
<1>8. \A x, y \in Nodes : sub'[x][y] = IF x = p /\ y = q THEN s ELSE sub[x][y]
  BY <1>2 DEF TypeInv, SubsTyped
<1>9. /\ \A x \in Nodes : Joining(x)' <=> Joining(x)
      /\ \A x, y \in Nodes : Unsettled(x, y)' <=> Unsettled(x, y)
      /\ \A x \in Nodes : Dead(x)' <=> Dead(x)
  BY <1>1, <1>3 DEF Unsettled, Joining, Dead
<1>10. s.state # "NONE"
  BY <1>6, <1>7
<1>11. TruthfulInv' /\ LifeInv'
  <2>1. TruthfulInv'
    BY <1>1, <1>9, SilentSpeaks, TruthfulStep DEF Calm, DeathsLast
  <2>2. QED
    BY <1>1, <1>9, <2>1 DEF Calm, LifeInv, Dead
<1>12. ASSUME NEW x \in Nodes, NEW y \in Nodes PROVE PairCalm(x, y)'
  <2>1. PairCalm(x, y)
    BY DEF Calm
  <2>2. CASE sub'[x][y] = sub[x][y]
    BY <1>1, <1>9, <2>1, <2>2, PairCalmKept DEF TypeInv
  <2>3. CASE sub'[x][y] # sub[x][y]
    <3>1. x = p /\ y = q /\ sub'[x][y] = s /\ sub[p][q].state = "NONE"
      BY <1>7, <1>8, <2>3
    <3>2. InStep(sub[p][q], q)'
      <4>1. /\ s.next \in 1..(Len(log[q]) + 1) /\ s.next - Len(s.buf) >= 1
            /\ \A i \in 1..Len(s.buf) : s.buf[i] = s.next - Len(s.buf) + i - 1
        BY <1>5, <1>6, <3>1
      <4>2. QED
        BY <1>1, <1>6, <3>1, <4>1 DEF InStep, Start
    <3>3. QED
      BY <1>1, <1>6, <3>1, <3>2 DEF PairCalm
  <2>4. QED
    BY <2>2, <2>3
<1>13. ASSUME NEW x \in Nodes, NEW y \in Nodes
       PROVE  BrokenCalm(x, y)' /\ KnowsJoined(x, y)'
  <2>1. BrokenCalm(x, y) /\ KnowsJoined(x, y) /\ (x = q => x # p)
    BY <1>1 DEF Calm
  <2>2. KnowsJoined(x, y)'
    BY <1>1, <1>8, <1>10, <2>1 DEF KnowsJoined
  <2>3. BrokenCalm(x, y)'
    <3> SUFFICES ASSUME y \in broken[x] PROVE BrokenCalm(x, y)'
      BY <1>1 DEF BrokenCalm
    <3>1. y # p /\ y # q
      BY <1>1, <2>1 DEF BrokenCalm, Dead
    <3>2. QED
      BY <1>1, <1>3, <1>8, <1>9, <2>1, <3>1 DEF BrokenCalm
  <2>4. QED
    BY <2>2, <2>3
<1>14. ASSUME NEW x \in Nodes, NEW y \in Nodes PROVE StoresEnough(x, y)'
  <2> SUFFICES ASSUME Unsettled(x, y), phase[x] = "loaded", sub'[x][y].state # "NONE"
               PROVE  StoresEnough(x, y)'
    BY <1>1, <1>9 DEF StoresEnough
  <2>1. x # p /\ sub'[x][y] = sub[x][y]
    BY <1>4, <1>8 DEF Unsettled
  <2>2. StoresEnough(x, y)
    BY DEF Calm
  <2>3. CASE y # p
    BY <1>3, <2>1, <2>2, <2>3 DEF StoresEnough, Start
  <2>4. CASE y = p
    <3>1. InStep(sub[x][y], y)
      BY <2>1 DEF Calm, PairCalm
    <3> DEFINE c == sub[x][y]
    <3>a. c \in Subscriber
      BY DEF TypeInv, SubsTyped
    <3>b. c.next \in Nat /\ c.buf \in Seq(Nat)
      BY <3>a DEF Subscriber
    <3>c. c.next \in 1..(Len(log[p]) + 1)
      BY <2>4, <3>1 DEF InStep
    <3>d. join'.answer[p] = Len(log[p])
      BY <1>3 DEF TypeInv, OthersTyped, JoinRecord
    <3>e. Len(log[p]) \in Nat
      BY <1>5
    <3>3. Start(c) <= join'.answer[p] + 1
      <4>1. Len(c.buf) \in Nat
        BY <3>b
      <4> HIDE DEF c
      <4>2. QED
        BY <3>b, <3>c, <3>d, <3>e, <4>1 DEF Start
    <3>4. QED
      BY <1>3, <2>1, <2>2, <2>4, <3>3 DEF StoresEnough, Start
  <2>5. QED
    BY <2>3, <2>4
<1>15. ASSUME NEW x \in Nodes PROVE JoinCalm(x)' /\ WaitCalm(x)'
  <2>1. CASE x # q
    <3>1. ~Joining(x)
      BY <1>1, <2>1 DEF Joining
    <3>2. WaitCalm(x)
      BY DEF Calm
    <3>3. phase[x] = "off" => x # p
      BY <1>1
    <3>4. QED
      BY <1>1, <1>8, <1>9, <3>1, <3>2, <3>3 DEF JoinCalm, WaitCalm, Waits
  <2>2. CASE x = q
    <3>1. \A d \in Nodes : sub'[q][d] = sub[q][d]
      BY <1>1, <1>8
    <3>2. JoinCalm(q)'
      <4>1. \A d \in Nodes : phase'[d] = "joined" =>
              /\ sub'[q][d].state # "NONE"
              /\ d \in join'.waiting \/ (join'.answer[d] # -1 /\ sub'[d][q].state # "NONE")
        BY <1>1, <1>3, <1>4, <1>5, <1>8, <1>10, <3>1 DEF JoinCalm
      <4>2. QED
        BY <1>1, <1>3, <1>4, <1>5, <4>1 DEF JoinCalm
    <3>3. WaitCalm(q)'
      BY <1>1, <1>3, <1>4, <1>9, <3>1 DEF WaitCalm, Waits
    <3>4. QED
      BY <2>2, <3>2, <3>3
  <2>3. QED
    BY <2>1, <2>2
<1>16. QED
  BY <1>11, <1>12, <1>13, <1>14, <1>15 DEF Calm

LEMMA HandshakeTimeoutCalm ==
  ASSUME TypeInv, TypeInv', Grows, SyncInv, Calm, NEW q \in Nodes, NEW p \in Nodes,
         HandshakeTimeout(q, p)
  PROVE  Calm'
<1>1. /\ Joining(q) /\ phase[q] = "loaded" /\ Dead(p)
      /\ UNCHANGED <<phase, log, sub, removing, crashed, broken>>
  BY DEF HandshakeTimeout, Dead
<1>2. /\ join'.node = join.node /\ join'.targets = join.targets
      /\ join'.ids = join.ids /\ join'.hello = join.hello
      /\ join'.answer = join.answer /\ join'.waiting = join.waiting \ {p}
  BY DEF HandshakeTimeout, TypeInv, OthersTyped, JoinRecord
<1>3. JoinCalm(q) /\ WaitCalm(q)
  BY DEF Calm
<1>4. /\ \A x \in Nodes : Joining(x)' <=> Joining(x)
      /\ \A x, y \in Nodes : Unsettled(x, y)' <=> Unsettled(x, y)
      /\ \A x \in Nodes : Dead(x)' <=> Dead(x)
  BY <1>1, <1>2 DEF Unsettled, Joining, Dead
<1>5. TruthfulInv' /\ LifeInv'
  <2>1. TruthfulInv'
    BY <1>1, <1>4, SilentSpeaks, TruthfulStep DEF Calm, DeathsLast
  <2>2. QED
    BY <1>1, <1>4, <2>1 DEF Calm, LifeInv, Dead
<1>6. ASSUME NEW x \in Nodes, NEW y \in Nodes
      PROVE  PairCalm(x, y)' /\ BrokenCalm(x, y)' /\ KnowsJoined(x, y)' /\ StoresEnough(x, y)'
  <2>1. PairCalm(x, y) /\ BrokenCalm(x, y) /\ KnowsJoined(x, y) /\ StoresEnough(x, y)
    BY DEF Calm
  <2>2. PairCalm(x, y)'
    BY <1>1, <1>4, <2>1, PairCalmKept DEF TypeInv
  <2>3. QED
    BY <1>1, <1>2, <1>4, <2>1, <2>2 DEF BrokenCalm, KnowsJoined, StoresEnough, Start
<1>7. ASSUME NEW x \in Nodes PROVE JoinCalm(x)' /\ WaitCalm(x)'
  <2>1. CASE x # q
    <3>1. ~Joining(x) /\ WaitCalm(x)
      BY <1>1, <2>1 DEF Joining, Calm
    <3>2. QED
      BY <1>1, <1>4, <3>1 DEF JoinCalm, WaitCalm, Waits
  <2>2. CASE x = q
    <3>1. JoinCalm(q)'
      BY <1>1, <1>2, <1>3 DEF JoinCalm, Dead
    <3>2. WaitCalm(q)'
      BY <1>1, <1>2, <1>3, <1>4 DEF WaitCalm, Waits
    <3>3. QED
      BY <2>2, <3>1, <3>2
  <2>3. QED
    BY <2>1, <2>2
<1>8. QED
  BY <1>5, <1>6, <1>7 DEF Calm

\* q synchronises with a node that answered from a message that it has, or is to
\* receive, and forgets one that did not answer: that one is dead.
LEMMA SettleCalm ==
  ASSUME TypeInv, TypeInv', Grows, SyncInv, Calm, ~SlowLinks, NEW q \in Nodes,
         NEW p \in Nodes, Settle(q, p)
  PROVE  Calm'
<1> DEFINE from == SyncFrom(p)
           synced == [sub[q][p] EXCEPT !.last = from, !.syncing = TRUE]
<1>1. /\ Joining(q) /\ phase[q] = "loaded" /\ p \in join.targets /\ join.waiting = {}
  BY DEF Settle
<1>2. JoinCalm(q) /\ StoresEnough(q, p) /\ PairSane(q, p)
  BY DEF Calm, SyncInv
<1>3. Unsettled(q, p)
  BY <1>1 DEF Unsettled
<1>4. ASSUME NEW t \in Subscriber, sub' = [sub EXCEPT ![q][p] = t],
             \/ t.state = "NONE" /\ join.answer[p] = -1
             \/ /\ t.state = "BUFFERING" /\ t.syncing /\ InStep(t, p)
                /\ sub[q][p].state # "NONE" /\ join.answer[p] # -1,
             join' = IF join.targets = {p} THEN NoJoin
                     ELSE [join EXCEPT !.targets = @ \ {p}],
             phase' = [phase EXCEPT ![q] = IF join.targets = {p} THEN "joined" ELSE @],
             UNCHANGED <<log, removing, crashed, broken>>
      PROVE  Calm'
  <2>1. phase'[q] = IF join.targets = {p} THEN "joined" ELSE "loaded"
    BY <1>1, <1>4 DEF TypeInv, OthersTyped
  <2>2. join.targets # {p} =>
          /\ join'.node = {q} /\ join'.targets = join.targets \ {p}
          /\ join'.ids = join.ids /\ join'.hello = join.hello
          /\ join'.answer = join.answer /\ join'.waiting = {}
    BY <1>1, <1>4 DEF Joining, TypeInv, OthersTyped, JoinRecord
  <2>3. join.targets = {p} => join'.node = {}
    BY <1>4 DEF NoJoin
  <2>4. \A x \in Nodes \ {q} :
          /\ ~Joining(x) /\ ~Joining(x)'
          /\ phase'[x] = phase[x] /\ sub'[x] = sub[x] /\ broken'[x] = broken[x]
    BY <1>1, <1>4, <2>2, <2>3 DEF Joining, TypeInv, OthersTyped, SubsTyped
  <2>5. \A y \in Nodes : Unsettled(q, y)' <=> Unsettled(q, y) /\ y # p
    BY <1>1, <2>2, <2>3 DEF Unsettled, Joining
  <2>6. sub'[q][p] = t /\ \A y \in Nodes \ {p} : sub'[q][y] = sub[q][y]
    BY <1>4 DEF TypeInv, SubsTyped
  <2>7. \A x \in Nodes : Dead(x)' <=> Dead(x)
    BY <1>1, <2>1, <2>4 DEF Dead
  <2>8. phase'[q] = "loaded" => Joining(q)'
    BY <2>1, <2>2 DEF Joining
  <2>9. \A d \in Nodes : phase[d] = "joined" =>
          /\ d # q /\ sub[q][d].state # "NONE" /\ join.answer[d] # -1
          /\ sub[d][q].state # "NONE" /\ sub'[q][d].state # "NONE"
    BY <1>1, <1>2, <1>4, <2>6 DEF JoinCalm
  <2>10. ASSUME NEW y \in Nodes
         PROVE  /\ PairCalm(q, y)' /\ BrokenCalm(q, y)' /\ StoresEnough(q, y)'
                /\ KnowsJoined(q, y)' /\ KnowsJoined(y, q)'
    <3>1. PairCalm(q, y) /\ BrokenCalm(q, y) /\ StoresEnough(q, y)
      BY DEF Calm
    <3>2. phase[y] \in {"loaded", "joined", "down"} => phase'[y] \in {"loaded", "joined", "down"}
      BY <2>1, <2>4
    <3>3. PairCalm(q, y)'
      <4>1. CASE y = p /\ t.state # "NONE"
        <5>1. InStep(sub[q][p], p)'
          BY <1>4, <2>6, <4>1 DEF InStep, Start
        <5>2. QED
          BY <1>4, <2>6, <3>1, <3>2, <4>1, <5>1 DEF PairCalm
      <4>2. CASE ~(y = p /\ t.state # "NONE")
        BY <2>5, <2>6, <2>7, <3>1, <3>2, <4>2, PairCalmKept DEF TypeInv
      <4>3. QED
        BY <4>1, <4>2
    <3>4. BrokenCalm(q, y)'
      <4> SUFFICES ASSUME y \in broken[q] PROVE BrokenCalm(q, y)'
        BY <1>4 DEF BrokenCalm
      <4>1. phase'[q] \notin {"off", "buffering"} /\ Dead(y)'
        BY <2>1, <2>7, <3>1 DEF BrokenCalm
      <4>2. CASE y = p
        BY <1>4, <2>6, <3>1, <4>1, <4>2 DEF BrokenCalm
      <4>3. CASE y # p
        <5>1. Unsettled(q, y) => phase'[q] = "loaded" /\ join'.answer = join.answer
          BY <2>1, <2>2, <4>3 DEF Unsettled
        <5>2. QED
          BY <2>5, <2>6, <3>1, <4>1, <4>3, <5>1 DEF BrokenCalm
      <4>4. QED
        BY <4>2, <4>3
    <3>5. StoresEnough(q, y)'
      <4> SUFFICES ASSUME Unsettled(q, y), y # p PROVE StoresEnough(q, y)'
        BY <2>5 DEF StoresEnough
      <4>1. join'.ids = join.ids /\ join'.answer = join.answer /\ sub'[q][y] = sub[q][y]
        BY <2>2, <2>6 DEF Unsettled
      <4>2. QED
        BY <1>1, <3>1, <4>1 DEF StoresEnough, Start
    <3>6. KnowsJoined(q, y)' /\ KnowsJoined(y, q)'
      BY <2>4, <2>9 DEF KnowsJoined
    <3>7. QED
      BY <3>3, <3>4, <3>5, <3>6
  <2>11. JoinCalm(q)'
    <3> SUFFICES ASSUME join.targets # {p} PROVE JoinCalm(q)'
      BY <2>3 DEF JoinCalm, Joining
    <3>1. \A d \in Nodes : phase'[d] = "joined" =>
            sub'[q][d].state # "NONE" /\ join.answer[d] # -1 /\ sub'[d][q].state # "NONE"
      BY <2>1, <2>4, <2>9
    <3>2. \A y \in join'.targets : phase'[y] \in {"joined", "down"}
      BY <1>1, <1>2, <2>1, <2>2, <2>4 DEF JoinCalm, TypeInv, OthersTyped, JoinRecord
    <3>3. join'.targets # {}
      BY <1>1, <2>2
    <3>4. QED
      BY <2>1, <2>2, <3>1, <3>2, <3>3 DEF JoinCalm
  <2>12. WaitCalm(q)'
    BY <2>1, <2>2, <2>3 DEF WaitCalm, Waits, Joining
  <2>13. phase[q] \in Fresh /\ phase'[q] \in {"loaded", "joined"}
    BY <1>1, <2>1 DEF Fresh
  <2>14. QED
    BY <1>1, <1>4, <2>4, <2>8, <2>10, <2>11, <2>12, <2>13, NewcomerCalm
<1>5. CASE FailToStart(q)
  BY <1>5, FailToStartCalm
<1>6. CASE /\ ~FailToStart(q) /\ join.answer[p] = -1
           /\ sub' = [sub EXCEPT ![q][p] = NoSubscriber]
  <2>1. NoSubscriber \in Subscriber /\ NoSubscriber.state = "NONE"
    BY RecordTypes DEF NoSubscriber
  <2>2. QED
    BY <1>4, <1>6, <2>1 DEF Settle
<1>7. CASE /\ ~FailToStart(q) /\ sub[q][p].state # "NONE" /\ join.answer[p] # -1
           /\ sub[q][p].next > from
           /\ sub' = [sub EXCEPT ![q][p].last = from, ![q][p].syncing = TRUE]
  <2> DEFINE c == sub[q][p]
  <2>1. from \in Nat
    BY <1>7 DEF SyncFrom, TypeInv, OthersTyped, JoinRecord
  <2>2. c \in Subscriber
    BY DEF TypeInv, SubsTyped
  <2>3. /\ synced \in Subscriber /\ synced.state = c.state /\ synced.last = from
        /\ synced.syncing = TRUE /\ synced.next = c.next /\ synced.buf = c.buf
    <3> DEFINE new == [c EXCEPT !.last = from, !.syncing = TRUE]
    <3> HIDE DEF from, c
    <3>1. new \in Subscriber
      BY <2>1, <2>2 DEF Subscriber
    <3>2. /\ new.state = c.state /\ new.last = from
          /\ new.syncing = TRUE /\ new.next = c.next /\ new.buf = c.buf
      BY <2>1, <2>2 DEF Subscriber
    <3>3. synced = new
      BY DEF c
    <3> HIDE DEF new, synced
    <3>4. QED
      BY <3>1, <3>2, <3>3
  <2>4. sub' = [sub EXCEPT ![q][p] = synced]
    <3>1. sub \in [Nodes -> [Nodes -> Subscriber]]
      BY DEF TypeInv, SubsTyped
    <3>2. QED
      BY <1>7, <3>1
  <2>5. /\ join' = IF join.targets = {p} THEN NoJoin
                   ELSE [join EXCEPT !.targets = @ \ {p}]
        /\ phase' = [phase EXCEPT ![q] = IF join.targets = {p} THEN "joined" ELSE @]
        /\ UNCHANGED <<log, removing, crashed, broken>>
    BY <1>7 DEF Settle
  <2>6. c.state = "BUFFERING" /\ InStep(c, p)
    BY <1>2, <1>3, <1>7 DEF PairSane, Calm, PairCalm
  <2>7. Start(c) <= from + 1
    BY <1>1, <1>2, <1>3, <1>7 DEF StoresEnough, SyncFrom
  <2>8. InStep(synced, p)
    <3>1. c.next \in Nat /\ c.next > from
      BY <1>7, <2>2 DEF Subscriber
    <3>2. from + 1 <= c.next
      BY <2>1, <3>1
    <3> HIDE DEF from, c, synced
    <3>3. QED
      BY <2>3, <2>6, <2>7, <3>2 DEF InStep, Start
  <2> HIDE DEF synced, from
  <2>9. QED
    BY <1>4, <1>7, <2>3, <2>4, <2>5, <2>6, <2>8
<1>8. QED
  BY <1>5, <1>6, <1>7 DEF Settle
-----------------------------------------------------------------------------
LEMMA InitCalm == Init => Calm
<1> SUFFICES ASSUME Init PROVE Calm
  OBVIOUS
<1>1. \A p \in Nodes : /\ Len(log[p]) = 0 /\ removing[p] = {} /\ broken[p] = {}
                       /\ phase[p] \in {"joined", "off"}
                       /\ (phase[p] = "joined" <=> p \in Seeds) /\ ~Joining(p)
  BY DEF Init, Joining, NoJoin
<1>2. \A q, p \in Nodes : ~Unsettled(q, p)
  BY <1>1 DEF Unsettled
<1>3. TruthfulInv /\ LifeInv
  BY <1>1 DEF Init, TruthfulInv, LifeInv
<1> DEFINE follows == [SyncedSubscriber(0) EXCEPT !.next = 1]
<1>4. /\ follows.state = "SANE" /\ follows.last = 0 /\ follows.buf = <<>>
      /\ follows.syncing = FALSE /\ follows.next = 1
  BY DEF SyncedSubscriber, NoSubscriber
<1>5. \A q, p \in Nodes :
        sub[q][p] = IF q \in Seeds /\ p \in Seeds \ {q} THEN follows ELSE NoSubscriber
  BY DEF Init
<1>6. NoSubscriber.state = "NONE"
  BY DEF NoSubscriber
<1> HIDE DEF follows
<1>7. ASSUME NEW q \in Nodes, NEW p \in Nodes
      PROVE  PairCalm(q, p) /\ BrokenCalm(q, p) /\ KnowsJoined(q, p) /\ StoresEnough(q, p)
  <2>1. BrokenCalm(q, p) /\ StoresEnough(q, p)
    BY <1>1, <1>2 DEF BrokenCalm, StoresEnough
  <2>2. KnowsJoined(q, p)
    BY <1>1, <1>4, <1>5 DEF KnowsJoined
  <2>3. PairCalm(q, p)
    <3> SUFFICES ASSUME sub[q][p].state # "NONE" PROVE PairCalm(q, p)
      BY DEF PairCalm
    <3>1. sub[q][p] = follows /\ phase[p] = "joined"
      BY <1>1, <1>5, <1>6
    <3>2. InStep(follows, p)
      BY <1>1, <1>4 DEF InStep, Start
    <3>3. QED
      BY <1>4, <3>1, <3>2 DEF PairCalm
  <2>4. QED
    BY <2>1, <2>2, <2>3
<1>8. ASSUME NEW q \in Nodes PROVE JoinCalm(q) /\ WaitCalm(q)
  <2>1. JoinCalm(q)
    BY <1>1 DEF JoinCalm
  <2>2. WaitCalm(q)
    BY <1>1, <1>5, <1>6 DEF WaitCalm, Waits
  <2>3. QED
    BY <2>1, <2>2
<1>9. QED
  BY <1>3, <1>7, <1>8 DEF Calm

\* A subscription is effective from the start, unless links are slow.
LEMMA ConnectNever ==
  ASSUME TypeInv, Calm, NEW q \in Nodes, NEW p \in Nodes
  PROVE  ~Connect(q, p)
  BY DEF Connect, Calm, PairCalm, InStep

LEMMA LoseCounts ==
  ASSUME TypeInv, NEW q \in Nodes, NEW p \in Nodes, Lose(q, p)
  PROVE  lost' # 0 /\ lost < MaxLost
  BY DEF Lose, TypeInv, CountsTyped

LEMMA UnchangedCalm ==
  ASSUME Calm, UNCHANGED vars
  PROVE  Calm'
<1>1. TruthfulInv' /\ LifeInv'
  BY DEF Calm, vars, TruthfulInv, LifeInv, Obituary, Dead, Legal, After, Joining
<1>2. ASSUME NEW q \in Nodes, NEW p \in Nodes
      PROVE  PairCalm(q, p)' /\ BrokenCalm(q, p)' /\ KnowsJoined(q, p)' /\ StoresEnough(q, p)'
  BY DEF Calm, vars, PairCalm, BrokenCalm, KnowsJoined, StoresEnough, InStep, Start,
         Unsettled, Joining, Dead
<1>3. ASSUME NEW q \in Nodes PROVE JoinCalm(q)' /\ WaitCalm(q)'
  BY DEF Calm, vars, JoinCalm, WaitCalm, Waits, Unsettled, Joining
<1>4. QED
  BY <1>1, <1>2, <1>3 DEF Calm

LEMMA NextCalm ==
  ASSUME TypeInv, SyncInv, Calm, ~SlowHandshake, ~SlowLinks, [Next]_vars, lost' = 0
  PROVE  Calm'
<1>1. TypeInv' /\ Grows
  BY NextType
<1>2. ASSUME NEW p \in Nodes, LocalStep(p)
      PROVE  Calm'
  <2>1. CASE \E r \in Rooms : OpenRoom(p, r) \/ Subscribe(p, r) \/ Unsubscribe(p, r)
                              \/ CloseRoom(p, r)
    BY <1>1, <2>1, ClientsCalm
  <2>2. CASE Shutdown(p)
    BY <1>1, <2>2, StopCalm DEF Shutdown
  <2>3. CASE Crash(p)
    BY <1>1, <2>3, FailToStartCalm DEF Crash
  <2>4. QED
    BY <1>1, <1>2, <2>1, <2>2, <2>3, HeartbeatCalm, FinishRemovalCalm,
       StartHandshakeCalm, RetryHandshakeCalm DEF LocalStep
<1>3. ASSUME NEW q \in Nodes, NEW p \in Nodes, RemoteStep(q, p)
      PROVE  Calm'
  BY <1>1, <1>3, ConnectNever, LoseCounts, ReceiveCalm, CheckHeartbeatCalm,
     GetFullStateCalm, HandleHandshakeCalm, HandshakeTimeoutCalm, SettleCalm,
     SyncBufferedCalm DEF RemoteStep
<1>4. QED
  BY <1>2, <1>3, UnchangedCalm DEF Next

\* Losses are counted for ever.
LEMMA LostGrows ==
  ASSUME TypeInv, [Next]_vars
  PROVE  lost <= lost'
<1>1. lost \in Nat
  BY DEF TypeInv, CountsTyped
<1>2. ASSUME NEW p \in Nodes, LocalStep(p)
      PROVE  lost' = lost
  BY <1>2 DEF LocalStep, OpenRoom, Subscribe, Unsubscribe, CloseRoom, Heartbeat, Shutdown,
     Crash, FailToStart, FinishRemoval, StartHandshake, RetryHandshake
<1>3. ASSUME NEW q \in Nodes, NEW p \in Nodes, RemoteStep(q, p)
      PROVE  lost' = lost \/ lost' = lost + 1
  BY <1>3 DEF RemoteStep, Connect, Receive, Lose, CheckHeartbeat, GetFullState,
     FailToStart, HandleHandshake, HandshakeTimeout, Settle, SyncBuffered
<1>4. QED
  BY <1>1, <1>2, <1>3 DEF Next, vars

CalmInv == TypeInv /\ SyncInv /\ (lost = 0 => Calm)

LEMMA CalmInvariant ==
  ASSUME ~SlowHandshake, ~SlowLinks
  PROVE  Spec => []CalmInv
<1>1. Init => CalmInv
  BY InitType, InitSync, InitCalm DEF CalmInv
<1>2. CalmInv /\ [Next]_vars => CalmInv'
  <2> SUFFICES ASSUME CalmInv, [Next]_vars PROVE CalmInv'
    OBVIOUS
  <2>1. TypeInv' /\ SyncInv' /\ lost <= lost' /\ lost \in Nat
    BY NextType, NextSync, LostGrows DEF CalmInv, TypeInv, CountsTyped
  <2>2. lost' = 0 => Calm'
    BY <2>1, NextCalm DEF CalmInv
  <2>3. QED
    BY <2>1, <2>2 DEF CalmInv
<1>3. QED
  BY <1>1, <1>2, PTL DEF Spec

\* No node declares itself out-of-sync as long as all messages arrive (NoFalseAlarm),
\* whoever joins, stops, crashes or is evicted: whatever the order in which timers,
\* answers and stored messages are handled, each subscriber gets the messages it
\* expects, and the full state accepts what they say.  Handshakes are assumed to end
\* before checkHeartbeat fires, and messages to be delayed less than a handshake.
THEOREM NoFalseAlarms ==
  ASSUME ~SlowHandshake, ~SlowLinks
  PROVE  Spec => []NoFalseAlarm
<1>1. CalmInv => NoFalseAlarm
  <2> SUFFICES ASSUME CalmInv, NEW q \in Nodes, NEW i \in 1..Len(log[q]),
                      log[q][i] = SelfEviction(q), ~(lost > 0)
               PROVE  FALSE
    BY DEF NoFalseAlarm, HasEvictedSelf
  <2>1. Calm
    BY DEF CalmInv, TypeInv, CountsTyped
  <2>2. Obituary(q, SelfEviction(q))
    BY <2>1 DEF Calm, TruthfulInv
  <2>3. QED
    BY <2>2 DEF Obituary, SelfEviction
<1>2. QED
  BY <1>1, CalmInvariant, PTL
-----------------------------------------------------------------------------
(***************************************************************************)
(* What realtime:count answers.                                            *)
(***************************************************************************)

\* No live node keeps entries of a dead one.
DeadCleared ==
  \A q, p \in Nodes : Alive(q) /\ Dead(p) => EntriesOf(fs[q], p) = NoEntries

\* Once nothing is in flight, a live node has for another what that one has itself.
LEMMA SettledViews ==
  ASSUME TypeInv, SyncInv, Calm, Quiescent, NEW q \in Nodes, NEW p \in Nodes,
         Alive(q), Alive(p)
  PROVE  EntriesOf(fs[q], p) = EntriesOf(fs[p], p)
<1> SUFFICES ASSUME q # p PROVE EntriesOf(fs[q], p) = EntriesOf(fs[p], p)
  OBVIOUS
<1>1. \A x, y \in Nodes : ~Joining(x) /\ ~Unsettled(x, y)
  BY DEF Quiescent, NoJoin, Joining, Unsettled
<1>2. phase[q] = "joined" /\ phase[p] = "joined"
  BY <1>1 DEF Alive, SyncInv, NodeSane, Calm, LifeInv
<1> DEFINE c == sub[q][p]
<1>3. c.state # "NONE" /\ InStep(c, p) /\ c \in Subscriber /\ Len(log[p]) \in Nat
  BY <1>2 DEF Calm, KnowsJoined, PairCalm, TypeInv, SubsTyped, LogsTyped
<1>4. c.state # "BUFFERING" /\ c.next = Len(log[p]) + 1
  BY <1>1, <1>3 DEF Quiescent, Calm, PairCalm, NextId
<1>5. c.last = Len(log[p])
  <2>1. c.state \in {"SANE", "MISSING_HEARTBEAT", "EVICTED"} /\ c.last \in Nat
    BY <1>3, <1>4 DEF Subscriber, SubState
  <2>2. QED
    BY <1>3, <1>4, <2>1 DEF InStep
<1>6. p \notin broken[q]
  BY <1>2 DEF Calm, BrokenCalm, Dead
<1>7. Position(q, p) = Len(log[p])
  BY <1>1, <1>5 DEF Position
<1>8. EntriesOf(fs[q], p) = After(hist[p], Len(log[p]))
  BY <1>2, <1>3, <1>6, <1>7 DEF SyncInv, PairExact
<1>9. QED
  BY <1>8 DEF SyncInv, LogInv

LEMMA SettledCounts ==
  ASSUME TypeInv, SyncInv, Calm, Quiescent, DeadCleared
  PROVE  SameCounts
<1> SUFFICES ASSUME NEW q \in Nodes, NEW r \in Rooms, Alive(q)
             PROVE  CountSubscriptions(fs[q], r)
                      = SumFunction([p \in Nodes |->
                          IF Alive(p) THEN Subscribers(fs[p][r][p]) ELSE 0])
  BY DEF SameCounts
<1>1. ASSUME NEW p \in Nodes
      PROVE  Subscribers(fs[q][r][p]) = IF Alive(p) THEN Subscribers(fs[p][r][p]) ELSE 0
  <2>1. CASE Alive(p)
    <3>1. EntriesOf(fs[q], p)[r] = EntriesOf(fs[p], p)[r]
      BY <2>1, SettledViews
    <3>2. QED
      BY <2>1, <3>1 DEF EntriesOf
  <2>2. CASE ~Alive(p)
    <3>1. EntriesOf(fs[q], p) = NoEntries
      <4>1. phase[p] \in {"off", "down"}
        BY <2>2 DEF Alive, TypeInv, OthersTyped, Phase
      <4>2. QED
        BY <4>1 DEF DeadCleared, Dead, SyncInv, NewcomerInv, Fresh
    <3>2. EntriesOf(fs[q], p)[r] = NoEntry
      BY <3>1 DEF NoEntries
    <3>3. QED
      BY <2>2, <3>2 DEF EntriesOf, Subscribers
  <2>3. QED
    BY <2>1, <2>2
<1>2. [p \in Nodes |-> Subscribers(fs[q][r][p])]
        = [p \in Nodes |-> IF Alive(p) THEN Subscribers(fs[p][r][p]) ELSE 0]
  BY <1>1
<1>3. QED
  BY <1>2 DEF CountSubscriptions

\* The counts agree whatever joins, shutdowns, evictions and crashes there were: if all
\* messages have arrived and are handled, and the nodes that died are forgotten, every
\* live node answers realtime:count with the number of subscriptions that the clients
\* of the live nodes hold, though it only ever saw their messages.
THEOREM SettledCountsAgree ==
  ASSUME ~SlowHandshake, ~SlowLinks
  PROVE  Spec => [](lost = 0 /\ Quiescent /\ DeadCleared => SameCounts)
<1>1. CalmInv => (lost = 0 /\ Quiescent /\ DeadCleared => SameCounts)
  BY SettledCounts DEF CalmInv
<1>2. QED
  BY <1>1, CalmInvariant, PTL

-----------------------------------------------------------------------------
(***************************************************************************)
(* A cluster that nobody leaves.                                           *)
(***************************************************************************)
NoDeaths == \A p \in Nodes : ~Dead(p)

Deathless == lost = 0 /\ NoDeaths

LEMMA InitDeathless == Init => Deathless
  BY DEF Init, Deathless, NoDeaths, Dead

LEMMA NobodyEvicted ==
  ASSUME TypeInv, Calm, NoDeaths, NEW p \in Nodes, NEW k \in 1..Len(log[p])
  PROVE  log[p][k].type \notin {"NodeEvicted", "NodeShutdown"}
<1>1. log[p][k] \in Message /\ Obituary(p, log[p][k])
  BY DEF Calm, TruthfulInv, TypeInv, LogsTyped
<1>2. QED
  BY <1>1, MessageParts DEF Obituary, NoDeaths

LEMMA HandleKeepsPhase ==
  ASSUME TypeInv, Calm, NoDeaths, NEW q \in Nodes, NEW p \in Nodes, NEW s,
         NEW id \in 1..Len(log[p]), Process(q, p, id, s)
  PROVE  phase' = phase
<1>1. log[p][id].type \notin {"NodeEvicted", "NodeShutdown"}
  BY NobodyEvicted
<1>2. QED
  BY <1>1 DEF Process, Handle

\* The handshake of a node can only fail if another node is dead.
LEMMA HandshakeKeepsAll ==
  ASSUME TypeInv, SyncInv, Calm, NoDeaths, NEW q \in Nodes, NEW p \in Nodes,
         GetFullState(q, p) \/ Settle(q, p)
  PROVE  phase'[q] # "down" /\ \A x \in Nodes \ {q} : phase'[x] = phase[x]
<1>1. CASE GetFullState(q, p)
  <2>1. phase[q] = "buffering"
    BY <1>1 DEF GetFullState
  <2>2. \A n \in Nodes : EntriesOf(fs[q], n) = NoEntries
    BY <2>1 DEF SyncInv, NewcomerInv, EmptyInv, Fresh
  <2>3. \A n \in Nodes, r \in Rooms : fs[q][r][n] = EntriesOf(fs[q], n)[r]
    BY DEF EntriesOf
  <2>4. CanLoad(fs[q], fs[p])
    BY <2>2, <2>3 DEF CanLoad, NoEntries
  <2>5. phase' = [phase EXCEPT ![q] = "loaded"]
    BY <1>1, <2>4 DEF GetFullState
  <2>6. QED
    BY <2>5 DEF TypeInv, OthersTyped
<1>2. CASE Settle(q, p)
  <2>1. Joining(q) /\ phase[q] = "loaded" /\ p \in join.targets
    BY <1>2 DEF Settle
  <2>2. phase[p] = "joined"
    BY <2>1 DEF Calm, JoinCalm, NoDeaths, Dead
  <2>3. sub[q][p].state # "NONE"
    BY <2>1, <2>2 DEF Calm, JoinCalm
  <2>4. phase' = [phase EXCEPT ![q] = IF join.targets = {p} THEN "joined" ELSE @]
    BY <1>2, <2>3 DEF Settle
  <2>5. QED
    BY <2>1, <2>4 DEF TypeInv, OthersTyped
<1>3. QED
  BY <1>1, <1>2

LEMMA RetryKeepsAll ==
  ASSUME TypeInv, SyncInv, Calm, NoDeaths, NEW q \in Nodes
  PROVE  ~RetryHandshake(q)
<1> SUFFICES ASSUME RetryHandshake(q) PROVE FALSE
  OBVIOUS
<1>1. Joining(q) /\ \A d \in join.targets : phase[d] # "joined"
  BY DEF RetryHandshake
<1>2. join.targets # {} /\ \A d \in join.targets : phase[d] \in {"joined", "down"}
  BY <1>1 DEF Calm, JoinCalm
<1>3. join.targets \subseteq Nodes
  BY DEF TypeInv, OthersTyped, JoinRecord
<1>4. QED
  BY <1>1, <1>2, <1>3 DEF NoDeaths, Dead

LEMMA NextDeathless ==
  ASSUME TypeInv, SyncInv, Calm, Deathless, MaxLost = 0, MaxCrashes = 0, ~MayShutDown,
         [Next]_vars
  PROVE  Deathless'
<1>1. NoDeaths
  BY DEF Deathless
<1>2. ASSUME NEW q \in Nodes, NEW p \in Nodes, Lose(q, p)
      PROVE  FALSE
  BY <1>2, LoseCounts DEF Deathless
<1>3. ASSUME NEW q \in Nodes, Crash(q)
      PROVE  FALSE
  <2>1. crashed = {}
    BY <1>1 DEF Calm, LifeInv, NoDeaths, TypeInv, CountsTyped
  <2>2. Cardinality(crashed) = 0
    BY <2>1, FS_EmptySet
  <2>3. QED
    BY <1>3, <2>2 DEF Crash
<1>4. ASSUME NEW p \in Nodes, LocalStep(p)
      PROVE  lost' = lost /\ NoDeaths'
  <2>1. CASE StartHandshake(p)
    BY <1>1, <2>1 DEF StartHandshake, Discover, NoDeaths, Dead, TypeInv, OthersTyped
  <2>2. CASE ~StartHandshake(p)
    BY <1>1, <1>3, <1>4, <2>2, RetryKeepsAll DEF LocalStep, OpenRoom, Subscribe,
       Unsubscribe, CloseRoom, Heartbeat, Shutdown, FinishRemoval, NoDeaths, Dead
  <2>3. QED
    BY <2>1, <2>2
<1>5. ASSUME NEW q \in Nodes, NEW p \in Nodes, RemoteStep(q, p)
      PROVE  lost' = lost /\ NoDeaths'
  <2>1. CASE Receive(q, p)
    <3>1. sub[q][p].next \in 1..Len(log[p])
      BY <2>1 DEF Receive, Deliverable
    <3>2. phase' = phase
      BY <1>1, <2>1, <3>1, HandleKeepsPhase DEF Receive
    <3>3. QED
      BY <1>1, <2>1, <3>2 DEF Receive, NoDeaths, Dead
  <2>2. CASE SyncBuffered(q, p)
    <3>1. sub[q][p].buf # <<>> => Head(sub[q][p].buf) \in 1..Len(log[p])
      BY DEF TypeInv, SubsTyped, Subscriber, BufferedExist, Buffered
    <3>2. phase' = phase
      BY <1>1, <2>2, <3>1, HandleKeepsPhase DEF SyncBuffered
    <3>3. QED
      BY <1>1, <2>2, <3>2 DEF SyncBuffered, NoDeaths, Dead
  <2>3. CASE GetFullState(q, p) \/ Settle(q, p)
    <3>1. NoDeaths'
      BY <1>1, <2>3, HandshakeKeepsAll DEF NoDeaths, Dead
    <3>2. lost' = lost
      BY <2>3 DEF GetFullState, Settle, FailToStart
    <3>3. QED
      BY <3>1, <3>2
  <2>4. CASE Connect(q, p) \/ CheckHeartbeat(q, p) \/ HandleHandshake(p, q)
             \/ HandshakeTimeout(q, p)
    BY <1>1, <2>4 DEF Connect, CheckHeartbeat, HandleHandshake, HandshakeTimeout,
       NoDeaths, Dead
  <2>5. QED
    BY <1>2, <1>5, <2>1, <2>2, <2>3, <2>4 DEF RemoteStep
<1>6. CASE UNCHANGED vars
  BY <1>6 DEF vars, Deathless, NoDeaths, Dead
<1>7. QED
  BY <1>4, <1>5, <1>6 DEF Next, Deathless

\* In a cluster where no message is lost and no node crashes or is shut down, nobody
\* ever leaves: the handshakes of all the nodes that join succeed, no node is taken
\* for dead or told to evict itself.
THEOREM NobodyLeaves ==
  ASSUME ~SlowHandshake, ~SlowLinks, MaxLost = 0, MaxCrashes = 0, ~MayShutDown
  PROVE  Spec => []NoDeaths
<1>1. CalmInv /\ Deathless /\ [Next]_vars => Deathless'
  BY NextDeathless DEF CalmInv, Deathless
<1>2. Deathless => NoDeaths
  BY DEF Deathless
<1>3. QED
  BY <1>1, <1>2, CalmInvariant, InitDeathless, PTL DEF Spec

\* In such a cluster the counts of all nodes agree once the messages are delivered
\* (CountsAgree), whoever joined meanwhile and from whom it took its full state.
THEOREM CountsAgreeAlways ==
  ASSUME ~SlowHandshake, ~SlowLinks, MaxLost = 0, MaxCrashes = 0, ~MayShutDown
  PROVE  Spec => []CountsAgree
<1>1. CalmInv /\ Deathless /\ [Next]_vars => Deathless'
  BY NextDeathless DEF CalmInv, Deathless
<1>2. CalmInv /\ Deathless => CountsAgree
  BY SettledCounts DEF CalmInv, Deathless, NoDeaths, DeadCleared, CountsAgree
<1>3. QED
  BY <1>1, <1>2, CalmInvariant, InitDeathless, PTL DEF Spec
-----------------------------------------------------------------------------
(***************************************************************************)
(* Entries of nodes that one does not follow.  These facts depend neither  *)
(* on the network nor on losses.                                           *)
(***************************************************************************)

\* Nothing is drained without a subscriber.
Idle == \A x, y \in Nodes : sub[x][y].state = "NONE" => ~sub[x][y].syncing

\* A running node keeps its entries of a node it does not follow, or has none.
HeldStep(x, y) ==
  /\ sub'[x][y].state = "NONE" => ~sub'[x][y].syncing
  /\ \/ x = y
     \/ sub'[x][y].state # "NONE"
     \/ sub[x][y].state = "NONE" /\ EntriesOf(fs'[x], y) = EntriesOf(fs[x], y)
     \/ EntriesOf(fs'[x], y) = NoEntries
     \/ phase'[x] = "down"
     \/ phase[x] \in {"off", "buffering"}

Held == \A x, y \in Nodes : HeldStep(x, y)

LEMMA LeftHeld ==
  ASSUME Idle, NEW x \in Nodes, NEW y \in Nodes, sub'[x][y] = sub[x][y],
         x # y => EntriesOf(fs'[x], y) = EntriesOf(fs[x], y)
  PROVE  HeldStep(x, y)
  BY DEF Idle, HeldStep

\* Steps that leave all subscribers alone.
LEMMA PublishHeld ==
  ASSUME TypeInv, Idle, NEW p \in Nodes, NEW m, NEW st, Publish(p, m, st),
         \A y \in Nodes \ {p} : EntriesOf(st, y) = EntriesOf(fs[p], y),
         UNCHANGED sub
  PROVE  Held
<1>1. \A x \in Nodes : fs'[x] = IF x = p THEN st ELSE fs[x]
  BY DEF Publish, TypeInv, LogsTyped
<1>2. QED
  BY <1>1, LeftHeld DEF Held

LEMMA ClientsHeld ==
  ASSUME TypeInv, Idle, NEW p \in Nodes, NEW r \in Rooms,
         OpenRoom(p, r) \/ Subscribe(p, r) \/ Unsubscribe(p, r) \/ CloseRoom(p, r)
  PROVE  Held
<1>1. fs[p] \in State /\ NextId(p) \in Nat
  BY DEF TypeInv, LogsTyped, NextId
<1>2. UNCHANGED sub
  BY DEF OpenRoom, Subscribe, Unsubscribe, CloseRoom
<1>3. CASE OpenRoom(p, r)
  <2> DEFINE st == AddRoom(fs[p], r, p, [subs |-> 0, mid |-> NextId(p)])
  <2>1. [subs |-> 0, mid |-> NextId(p)] \in Entry
    BY <1>1, NewEntry
  <2>2. \A y \in Nodes \ {p} : EntriesOf(st, y) = EntriesOf(fs[p], y)
    BY <1>1, <2>1, AddRoomEntries DEF EntriesOf
  <2>3. QED
    BY <1>2, <1>3, <2>2, PublishHeld DEF OpenRoom
<1>4. CASE Subscribe(p, r)
  <2> DEFINE st == AddSubscription(fs[p], r, p, NextId(p))
  <2>1. \A y \in Nodes \ {p} : EntriesOf(st, y) = EntriesOf(fs[p], y)
    BY <1>1, <1>4, SubscriptionEntries DEF EntriesOf, Subscribe
  <2>2. QED
    BY <1>2, <1>4, <2>1, PublishHeld DEF Subscribe
<1>5. CASE Unsubscribe(p, r)
  <2> DEFINE st == RemoveSubscription(fs[p], r, p, NextId(p))
  <2>1. \A y \in Nodes \ {p} : EntriesOf(st, y) = EntriesOf(fs[p], y)
    BY <1>1, <1>5, SubscriptionEntries DEF EntriesOf, Unsubscribe
  <2>2. QED
    BY <1>2, <1>5, <2>1, PublishHeld DEF Unsubscribe
<1>6. CASE CloseRoom(p, r)
  <2> DEFINE st == RemoveRoom(fs[p], r, p)
  <2>1. \A y \in Nodes \ {p} : EntriesOf(st, y) = EntriesOf(fs[p], y)
    BY <1>1, RemoveRoomEntries DEF EntriesOf
  <2>2. QED
    BY <1>2, <1>6, <2>1, PublishHeld DEF CloseRoom
<1>7. QED
  BY <1>3, <1>4, <1>5, <1>6

LEMMA GoneHeld ==
  ASSUME TypeInv, Idle, NEW q \in Nodes, Gone(q), fs' = fs
  PROVE  Held
<1>1. \A x \in Nodes : phase'[q] = "down" /\ (x # q => sub'[x] = sub[x])
  BY DEF Gone, TypeInv, OthersTyped, SubsTyped
<1>2. \A y \in Nodes : sub'[q][y].syncing = FALSE
  BY DEF Gone, TypeInv, SubsTyped, NoSubscriber
<1>3. ASSUME NEW x \in Nodes, NEW y \in Nodes PROVE HeldStep(x, y)
  <2>1. CASE x = q
    BY <1>1, <1>2, <2>1 DEF HeldStep
  <2>2. CASE x # q
    BY <1>1, <2>2, LeftHeld
  <2>3. QED
    BY <2>1, <2>2
<1>4. QED
  BY <1>3 DEF Held

LEMMA StopHeld ==
  ASSUME TypeInv, Idle, NEW q \in Nodes, Stop(q) \/ FailToStart(q)
  PROVE  Held
<1>1. fs' = fs
  BY DEF Stop, FailToStart, Announce, Publish, TypeInv, LogsTyped
<1>2. QED
  BY <1>1, GoneHeld DEF Stop, FailToStart

\* A node that evicts another forgets what it knew of it.
LEMMA FinishRemovalHeld ==
  ASSUME TypeInv, Idle, NEW q \in Nodes, FinishRemoval(q)
  PROVE  Held
<1>1. PICK removal \in removing[q] :
        LET p == removal.node IN
        /\ sub' = [sub EXCEPT ![q][p] = NoSubscriber]
        /\ \/ Publish(q, [type |-> "NodeEvicted", node |-> p], RemoveNode(fs[q], p))
           \/ fs' = [fs EXCEPT ![q] = RemoveNode(@, p)]
  BY DEF FinishRemoval
<1> DEFINE p == removal.node
<1>2. p \in Nodes /\ fs[q] \in State
  BY DEF TypeInv, OthersTyped, LogsTyped, Removal
<1>3. \A x \in Nodes : fs'[x] = IF x = q THEN RemoveNode(fs[q], p) ELSE fs[x]
  BY <1>1 DEF Publish, TypeInv, LogsTyped
<1>4. /\ EntriesOf(fs'[q], p) = NoEntries
      /\ \A y \in Nodes \ {p} : EntriesOf(fs'[q], y) = EntriesOf(fs[q], y)
  BY <1>2, <1>3, RemovedEntries
<1>5. \A x, y \in Nodes :
        sub'[x][y] = IF x = q /\ y = p THEN NoSubscriber ELSE sub[x][y]
  BY <1>1, <1>2 DEF TypeInv, SubsTyped
<1> HIDE DEF p
<1>6. ASSUME NEW x \in Nodes, NEW y \in Nodes PROVE HeldStep(x, y)
  <2>1. CASE x = q /\ y = p
    BY <1>4, <1>5, <2>1 DEF HeldStep, NoSubscriber
  <2>2. CASE ~(x = q /\ y = p)
    BY <1>3, <1>4, <1>5, <2>2, LeftHeld
  <2>3. QED
    BY <2>1, <2>2
<1>7. QED
  BY <1>6 DEF Held

\* A step of one subscriber, that stays, and of its node's entries for its messages.
LEMMA SubscriberHeld ==
  ASSUME TypeInv, Idle, NEW q \in Nodes, NEW p \in Nodes, NEW s,
         s.state # "NONE" \/ (s.state = sub[q][p].state /\ s.syncing = sub[q][p].syncing
                              /\ fs' = fs),
         sub' = [sub EXCEPT ![q][p] = s],
         \A x \in Nodes \ {q} : fs'[x] = fs[x],
         \A y \in Nodes \ {p} : EntriesOf(fs'[q], y) = EntriesOf(fs[q], y)
  PROVE  Held
<1>1. \A x, y \in Nodes : sub'[x][y] = IF x = q /\ y = p THEN s ELSE sub[x][y]
  BY DEF TypeInv, SubsTyped
<1>2. ASSUME NEW x \in Nodes, NEW y \in Nodes PROVE HeldStep(x, y)
  <2>1. CASE x = q /\ y = p
    BY <1>1, <2>1 DEF HeldStep, Idle
  <2>2. CASE ~(x = q /\ y = p)
    BY <1>1, <2>2, LeftHeld
  <2>3. QED
    BY <2>1, <2>2
<1>3. QED
  BY <1>2 DEF Held

LEMMA ProcessHeld ==
  ASSUME TypeInv, Idle, NEW q \in Nodes, NEW p \in Nodes, NEW id \in 1..Len(log[p]),
         NEW s \in Subscriber, s.state # "NONE", Process(q, p, id, s)
  PROVE  Held
<1> DEFINE counted == [s EXCEPT !.last = @ + 1]
           heard == [counted EXCEPT !.heard = TRUE]
           m == log[p][id]
           st == Applied(fs[q], p, m, id)
<1>1. counted.state # "NONE" /\ heard.state # "NONE"
  BY CountedType
<1>2. \A y \in Nodes \ {p} : EntriesOf(st, y) = EntriesOf(fs[q], y)
  <2>1. fs[q] \in State /\ m \in Message /\ id \in Nat
    BY DEF TypeInv, LogsTyped
  <2>2. QED
    BY <2>1, AppliedEntries
<1>3. \/ Stop(q)
      \/ /\ \E t \in {s, counted, heard} : sub' = [sub EXCEPT ![q][p] = t]
         /\ fs' = fs \/ fs' = [fs EXCEPT ![q] = st] \/ fs' = [fs EXCEPT ![q] = fs[q]]
  BY DEF Process, Handle, Desync, Publish
<1> HIDE DEF counted, heard, st
<1>4. CASE ~Stop(q)
  <2>1. PICK t \in {s, counted, heard} : sub' = [sub EXCEPT ![q][p] = t]
    BY <1>3, <1>4
  <2>2. /\ \A x \in Nodes \ {q} : fs'[x] = fs[x]
        /\ fs'[q] \in {fs[q], st}
    BY <1>3, <1>4 DEF TypeInv, LogsTyped
  <2>3. \A y \in Nodes \ {p} : EntriesOf(fs'[q], y) = EntriesOf(fs[q], y)
    BY <1>2, <2>2
  <2>4. t.state # "NONE"
    BY <1>1
  <2>5. QED
    BY <2>1, <2>2, <2>3, <2>4, SubscriberHeld
<1>5. QED
  BY <1>4, StopHeld

LEMMA ReceiveHeld ==
  ASSUME TypeInv, Idle, NEW q \in Nodes, NEW p \in Nodes, Receive(q, p)
  PROVE  Held
<1> DEFINE c == sub[q][p]
           s == [c EXCEPT !.next = @ + 1]
           id == c.next
           b == [s EXCEPT !.buf = Append(@, id)]
<1>1. c \in Subscriber
  BY DEF TypeInv, SubsTyped
<1>2. s \in Subscriber /\ s.state = c.state
  BY <1>1, AdvancedType
<1>3. b.state = s.state
  <2> HIDE DEF s, id
  <2>1. QED
    BY <1>2 DEF Subscriber
<1>4. id \in 1..Len(log[p])
  BY DEF Receive, Deliverable
<1>5. \/ /\ s.state = "BUFFERING" /\ sub' = [sub EXCEPT ![q][p] = b] /\ fs' = fs
      \/ s.state \in {"SANE", "MISSING_HEARTBEAT"} /\ Process(q, p, id, s)
  BY DEF Receive
<1> HIDE DEF s, b, c, id
<1>6. CASE s.state = "BUFFERING" /\ sub' = [sub EXCEPT ![q][p] = b] /\ fs' = fs
  <2>1. b.state # "NONE"
    BY <1>3, <1>6
  <2>2. QED
    BY <1>6, <2>1, SubscriberHeld
<1>7. CASE s.state \in {"SANE", "MISSING_HEARTBEAT"} /\ Process(q, p, id, s)
  BY <1>2, <1>4, <1>7, ProcessHeld
<1>8. QED
  BY <1>5, <1>6, <1>7

LEMMA SyncBufferedHeld ==
  ASSUME TypeInv, Idle, NEW q \in Nodes, NEW p \in Nodes, SyncBuffered(q, p)
  PROVE  Held
<1> DEFINE c == sub[q][p]
           t == [c EXCEPT !.buf = Tail(@)]
           done == [c EXCEPT !.state = "SANE", !.syncing = FALSE]
<1>1. c \in Subscriber /\ c.state # "NONE"
  BY DEF SyncBuffered, Idle, TypeInv, SubsTyped
<1>2. CASE c.buf # <<>> /\ Process(q, p, Head(c.buf), t)
  <2>1. Head(c.buf) \in 1..Len(log[p])
    <3>1. Buffered(c, p)
      BY DEF TypeInv, BufferedExist
    <3>2. c.buf \in Seq(Nat)
      BY <1>1 DEF Subscriber
    <3>3. 1 \in 1..Len(c.buf) /\ Head(c.buf) = c.buf[1]
      BY <1>2, <3>2
    <3>4. QED
      BY <3>1, <3>3 DEF Buffered
  <2>2. Tail(c.buf) \in Seq(Nat)
    BY <1>1, <1>2 DEF Subscriber
  <2>3. t \in Subscriber /\ t.state # "NONE"
    BY <1>1, <2>2 DEF Subscriber
  <2> HIDE DEF t
  <2>4. QED
    BY <1>2, <2>1, <2>3, ProcessHeld
<1>3. CASE sub' = [sub EXCEPT ![q][p].state = "SANE", ![q][p].syncing = FALSE] /\ fs' = fs
  <2>1. sub' = [sub EXCEPT ![q][p] = done]
    BY <1>3 DEF TypeInv, SubsTyped
  <2>2. done.state # "NONE"
    BY <1>1 DEF Subscriber
  <2> HIDE DEF done
  <2>3. QED
    BY <1>3, <2>1, <2>2, SubscriberHeld
<1>4. QED
  BY <1>2, <1>3 DEF SyncBuffered

LEMMA LinkHeld ==
  ASSUME TypeInv, Idle, NEW q \in Nodes, NEW p \in Nodes, Connect(q, p) \/ Lose(q, p)
  PROVE  Held
<1>1. fs' = fs
  BY DEF Connect, Lose
<1>2. PICK n : sub' = [sub EXCEPT ![q][p].next = n]
  BY DEF Connect, Lose
<1> DEFINE t == [sub[q][p] EXCEPT !.next = n]
<1>3. sub' = [sub EXCEPT ![q][p] = t]
  BY <1>2 DEF TypeInv, SubsTyped
<1>4. t.state = sub[q][p].state /\ t.syncing = sub[q][p].syncing
  BY DEF TypeInv, SubsTyped, Subscriber
<1> HIDE DEF t
<1>5. QED
  BY <1>1, <1>3, <1>4, SubscriberHeld

LEMMA CheckHeartbeatHeld ==
  ASSUME TypeInv, Idle, NEW q \in Nodes, NEW p \in Nodes, CheckHeartbeat(q, p)
  PROVE  Held
<1>1. fs' = fs
  BY DEF CheckHeartbeat
<1> DEFINE heard == [sub[q][p] EXCEPT !.state = "SANE", !.heard = FALSE]
           missed == [sub[q][p] EXCEPT !.state = "MISSING_HEARTBEAT"]
           evicted == [sub[q][p] EXCEPT !.state = "EVICTED"]
<1>2. \E t \in {heard, missed, evicted} : sub' = [sub EXCEPT ![q][p] = t]
  <2>1. sub \in [Nodes -> [Nodes -> Subscriber]]
    BY DEF TypeInv, SubsTyped
  <2>2. /\ [sub EXCEPT ![q][p].state = "SANE", ![q][p].heard = FALSE]
             = [sub EXCEPT ![q][p] = heard]
        /\ [sub EXCEPT ![q][p].state = "MISSING_HEARTBEAT"]
             = [sub EXCEPT ![q][p] = missed]
        /\ [sub EXCEPT ![q][p].state = "EVICTED"] = [sub EXCEPT ![q][p] = evicted]
    BY <2>1
  <2> HIDE DEF heard, missed, evicted
  <2>3. QED
    BY <2>2 DEF CheckHeartbeat
<1>3. heard.state # "NONE" /\ missed.state # "NONE" /\ evicted.state # "NONE"
  BY DEF TypeInv, SubsTyped, Subscriber
<1> HIDE DEF heard, missed, evicted
<1>4. QED
  BY <1>1, <1>2, <1>3, SubscriberHeld

LEMMA DiscoverHeld ==
  ASSUME TypeInv, Idle, NEW q \in Nodes, NEW targets, NEW retried,
         phase[q] \in {"off", "buffering"}, Discover(q, targets, retried), UNCHANGED fs
  PROVE  Held
<1>1. ASSUME NEW y \in Nodes
      PROVE  sub'[q][y] \in {NoSubscriber, NewSubscriber,
                             [NewSubscriber EXCEPT !.next = NextId(y)]}
  <2>1. \/ sub' = [sub EXCEPT ![q] = [p \in Nodes |-> NoSubscriber]]
        \/ sub' = [sub EXCEPT ![q] = [p \in Nodes |->
                     IF p \notin targets THEN NoSubscriber
                     ELSE IF SlowLinks THEN NewSubscriber
                     ELSE [NewSubscriber EXCEPT !.next = NextId(p)]]]
    BY DEF Discover
  <2>2. QED
    BY <2>1 DEF TypeInv, SubsTyped
<1>2. \A y \in Nodes : ~sub'[q][y].syncing
  <2>1. \A y \in Nodes : NextId(y) \in Nat
    BY DEF NextId, TypeInv, LogsTyped
  <2>2. QED
    BY <1>1, <2>1, NewSubscriberParts
<1>3. \A x \in Nodes \ {q} : sub'[x] = sub[x]
  BY DEF Discover, TypeInv, SubsTyped
<1>4. QED
  BY <1>2, <1>3, LeftHeld DEF Held, HeldStep

LEMMA HandshakesHeld ==
  ASSUME TypeInv, Idle, NEW q \in Nodes, StartHandshake(q) \/ RetryHandshake(q)
  PROVE  Held
<1>1. CASE \E targets \in SUBSET (Nodes \ {q}), retried \in BOOLEAN :
             /\ phase[q] \in {"off", "buffering"}
             /\ Discover(q, targets, retried) /\ UNCHANGED fs
  BY <1>1, DiscoverHeld
<1>2. CASE Stop(q)
  BY <1>2, StopHeld
<1>3. QED
  BY <1>1, <1>2 DEF StartHandshake, RetryHandshake

LEMMA GetFullStateHeld ==
  ASSUME TypeInv, Idle, NEW q \in Nodes, NEW d \in Nodes, GetFullState(q, d)
  PROVE  Held
<1>1. CASE FailToStart(q)
  BY <1>1, StopHeld
<1>2. CASE phase[q] = "buffering" /\ fs' = [fs EXCEPT ![q] = Load(@, fs[d])] /\ sub' = sub
  <2>1. \A x \in Nodes \ {q} : fs'[x] = fs[x]
    BY <1>2 DEF TypeInv, LogsTyped
  <2>2. QED
    BY <1>2, <2>1, LeftHeld DEF Held, HeldStep, Idle
<1>3. QED
  BY <1>1, <1>2 DEF GetFullState

LEMMA HandleHandshakeHeld ==
  ASSUME TypeInv, Idle, NEW q \in Nodes, NEW p \in Nodes, HandleHandshake(p, q)
  PROVE  Held
<1> DEFINE n == IF SlowLinks THEN 0 ELSE NextId(q)
           new == [SyncedSubscriber(join.hello) EXCEPT !.next = n]
           s == IF sub[p][q].state # "NONE" THEN sub[p][q] ELSE new
<1>1. new.state = "SANE"
  BY DEF SyncedSubscriber, NoSubscriber
<1>2. s.state # "NONE"
  <2> HIDE DEF new
  <2>1. QED
    BY <1>1
<1>3. sub' = [sub EXCEPT ![p][q] = s] /\ fs' = fs
  BY DEF HandleHandshake, TypeInv, SubsTyped
<1> HIDE DEF s
<1>4. QED
  BY <1>2, <1>3, SubscriberHeld

\* A joining node drops its subscriber to a node that did not answer, but keeps the
\* entries that the full state has for it (node.js:603).
Unanswered(q, p) ==
  /\ Settle(q, p) /\ join.answer[p] = -1 /\ fs' = fs
  /\ sub' = [sub EXCEPT ![q][p] = NoSubscriber]

LEMMA SettleHeld ==
  ASSUME TypeInv, Idle, NEW q \in Nodes, NEW p \in Nodes, Settle(q, p)
  PROVE  Held \/ Unanswered(q, p)
<1>1. CASE FailToStart(q)
  BY <1>1, StopHeld
<1>2. CASE ~FailToStart(q) /\ join.answer[p] = -1
  BY <1>2 DEF Settle, Unanswered
<1>3. CASE ~FailToStart(q) /\ join.answer[p] # -1
  <2> DEFINE from == SyncFrom(p)
             synced == [sub[q][p] EXCEPT !.last = from, !.syncing = TRUE]
  <2>1. sub[q][p].state # "NONE" /\ fs' = fs
    BY <1>3 DEF Settle
  <2>2. sub' = [sub EXCEPT ![q][p] = synced]
    BY <1>3 DEF Settle, TypeInv, SubsTyped
  <2>3. synced.state # "NONE"
    BY <2>1 DEF TypeInv, SubsTyped, Subscriber
  <2> HIDE DEF synced
  <2>4. QED
    BY <2>1, <2>2, <2>3, SubscriberHeld
<1>4. QED
  BY <1>1, <1>2, <1>3

LEMMA NextHeld ==
  ASSUME TypeInv, Idle, [Next]_vars
  PROVE  Held \/ \E q, p \in Nodes : Unanswered(q, p)
<1>1. CASE UNCHANGED vars
  BY <1>1, LeftHeld DEF vars, Held
<1>2. ASSUME NEW p \in Nodes, LocalStep(p)
      PROVE  Held
  <2>1. CASE \E r \in Rooms : OpenRoom(p, r) \/ Subscribe(p, r) \/ Unsubscribe(p, r)
                              \/ CloseRoom(p, r)
    BY <2>1, ClientsHeld
  <2>2. CASE Heartbeat(p)
    BY <2>2, PublishHeld DEF Heartbeat, Announce
  <2>3. CASE Shutdown(p) \/ Crash(p)
    BY <2>3, StopHeld DEF Shutdown, Crash
  <2>4. QED
    BY <1>2, <2>1, <2>2, <2>3, FinishRemovalHeld, HandshakesHeld DEF LocalStep
<1>3. ASSUME NEW q \in Nodes, NEW p \in Nodes, RemoteStep(q, p)
      PROVE  Held \/ Unanswered(q, p)
  <2>1. CASE HandshakeTimeout(q, p)
    BY <2>1, LeftHeld DEF HandshakeTimeout, Held
  <2>2. QED
    BY <1>3, <2>1, LinkHeld, ReceiveHeld, CheckHeartbeatHeld, GetFullStateHeld,
       HandleHandshakeHeld, SettleHeld, SyncBufferedHeld DEF RemoteStep
<1>4. QED
  BY <1>1, <1>2, <1>3 DEF Next

\* A cluster that nobody joins.
Static ==
  /\ TypeInv /\ Idle /\ join = NoJoin
  /\ \A q \in Nodes : phase[q] \in {"off", "joined", "down"}
  /\ \A q, p \in Nodes :
       phase[q] = "joined" /\ q # p /\ sub[q][p].state = "NONE" =>
         EntriesOf(fs[q], p) = NoEntries

LEMMA InitStatic == Init => Static
<1> SUFFICES ASSUME Init PROVE Static
  OBVIOUS
<1>1. TypeInv
  BY InitType
<1>2. \A q \in Nodes : fs[q] = EmptyState /\ phase[q] \in {"off", "joined"}
  BY DEF Init
<1>3. NoSubscriber.syncing = FALSE /\ [SyncedSubscriber(0) EXCEPT !.next = 1].syncing = FALSE
  <2>1. 0 \in Nat /\ 1 \in Nat
    OBVIOUS
  <2>2. QED
    BY <2>1, SyncedType DEF NoSubscriber
<1>4. Idle
  BY <1>3 DEF Init, Idle
<1>5. QED
  BY <1>1, <1>2, <1>4, EmptyEntries DEF Init, Static

LEMMA ProcessStatic ==
  ASSUME NEW q, NEW p, NEW id, NEW s, Process(q, p, id, s)
  PROVE  UNCHANGED <<phase, join>> \/ Gone(q)
  BY DEF Process, Handle, Stop

LEMMA NextStatic ==
  ASSUME Static, Joiners = {}, [Next]_vars
  PROVE  Static'
<1>1. \A q \in Nodes : ~Joining(q)
  BY DEF Static, Joining, NoJoin
<1>2. UNCHANGED <<phase, join>> \/ \E q \in Nodes : Gone(q)
  <2>1. ASSUME NEW p \in Nodes, LocalStep(p)
        PROVE  UNCHANGED <<phase, join>> \/ Gone(p)
    BY <1>1, <2>1 DEF LocalStep, OpenRoom, Subscribe, Unsubscribe, CloseRoom, Heartbeat,
       Shutdown, Crash, Stop, FailToStart, FinishRemoval, StartHandshake, RetryHandshake
  <2>2. ASSUME NEW q \in Nodes, NEW p \in Nodes, RemoteStep(q, p)
        PROVE  UNCHANGED <<phase, join>> \/ Gone(q)
    BY <1>1, <2>2, ProcessStatic DEF RemoteStep, Connect, Receive, Lose, CheckHeartbeat,
       GetFullState, HandleHandshake, HandshakeTimeout, Settle, SyncBuffered
  <2>3. QED
    BY <2>1, <2>2 DEF Next, vars
<1>3. /\ join' = NoJoin
      /\ \A q \in Nodes : phase'[q] = phase[q] \/ phase'[q] = "down"
  BY <1>2 DEF Gone, Static, TypeInv, OthersTyped
<1>4. Held
  BY <1>1, NextHeld DEF Static, Unanswered, Settle
<1>5. TypeInv'
  BY NextType DEF Static
<1>6. QED
  BY <1>3, <1>4, <1>5 DEF Static, Held, HeldStep, Idle

\* In a cluster that nobody joins, a node keeps entries for the nodes it follows and no
\* others (NoGhostEntries), whatever messages are lost or late and whoever crashes, is
\* stopped, evicted or mistaken for dead: evictNode removes the subscriber and the
\* entries together, and only the handshake can part them.
THEOREM NoGhosts ==
  ASSUME Joiners = {}
  PROVE  Spec => []NoGhostEntries
<1>1. Static => NoGhostEntries
  <2> SUFFICES ASSUME Static, NEW q \in Nodes, NEW p \in Nodes, NEW r \in Rooms,
                      phase[q] = "joined", p # q, sub[q][p].state = "NONE"
               PROVE  fs[q][r][p] = NoEntry
    BY DEF NoGhostEntries
  <2>1. EntriesOf(fs[q], p)[r] = NoEntries[r]
    BY DEF Static
  <2>2. QED
    BY <2>1 DEF EntriesOf, NoEntries
<1>2. QED
  BY <1>1, InitStatic, NextStatic, PTL DEF Spec
-----------------------------------------------------------------------------
(***************************************************************************)
(* What a handshake leaves behind, whatever is lost or late, as long as it *)
(* ends before checkHeartbeat fires.                                       *)
(***************************************************************************)

\* Before it has loaded a full state, a node evicts nobody and has a subscriber to
\* every joined node; it handles no message of a node before it settles its subscriber
\* to it; and it gives up waiting for dead nodes only.
BootSane(q) ==
  /\ phase[q] \in {"off", "buffering"} => removing[q] = {}
  /\ phase[q] = "buffering" =>
       \A p \in Nodes : phase[p] = "joined" => sub[q][p].state # "NONE"
  /\ Joining(q) =>
       \A p \in join.targets :
         /\ sub[q][p].last = 0
         /\ p \in join.waiting \/ join.answer[p] # -1 \/ Dead(p)

Boot == \A q \in Nodes : BootSane(q)

LEMMA TargetsAreNodes ==
  ASSUME TypeInv
  PROVE  join.targets \subseteq Nodes
  BY DEF TypeInv, OthersTyped, JoinRecord

\* A step of the subscriber of q to p, that is not removed.
LEMMA SubscriberBoot ==
  ASSUME TypeInv, Boot, NEW q \in Nodes, NEW p \in Nodes, NEW s,
         sub' = [sub EXCEPT ![q][p] = s],
         UNCHANGED <<phase, join>>,
         \A x \in Nodes : removing'[x] \subseteq removing[x] \/ phase[x] \notin {"off", "buffering"},
         s.state = "NONE" => sub[q][p].state = "NONE" \/ phase[q] # "buffering",
         Unsettled(q, p) => s.last = sub[q][p].last \/ s.last = 0
  PROVE  Boot'
<1>1. \A x, y \in Nodes : sub'[x][y] = IF x = q /\ y = p THEN s ELSE sub[x][y]
  BY DEF TypeInv, SubsTyped
<1>2. ASSUME NEW x \in Nodes PROVE BootSane(x)'
  <2>1. BootSane(x)
    BY DEF Boot
  <2>2. QED
    BY <1>1, <2>1, TargetsAreNodes DEF BootSane, Joining, Dead, Unsettled
<1>3. QED
  BY <1>2 DEF Boot

\* A step that leaves subscribers alone.
LEMMA QuietBoot ==
  ASSUME Boot, UNCHANGED <<phase, join, sub, removing>>
  PROVE  Boot'
  BY DEF Boot, BootSane, Joining, Dead

LEMMA GoneBoot ==
  ASSUME TypeInv, Boot, NEW q \in Nodes, Gone(q)
  PROVE  Boot'
<1>1. \A x \in Nodes : phase'[x] = IF x = q THEN "down" ELSE phase[x]
  BY DEF Gone, TypeInv, OthersTyped
<1>2. /\ ~Joining(q)'
      /\ \A x \in Nodes \ {q} : Joining(x)' => Joining(x) /\ join' = join
  BY DEF Gone, Joining, NoJoin
<1>3. \A x \in Nodes \ {q} : sub'[x] = sub[x] /\ removing'[x] = removing[x]
  BY DEF Gone, TypeInv, SubsTyped, OthersTyped
<1>4. ASSUME NEW x \in Nodes PROVE BootSane(x)'
  <2>1. BootSane(x)
    BY DEF Boot
  <2>2. CASE x = q
    BY <1>1, <1>2, <2>2 DEF BootSane
  <2>3. CASE x # q
    BY <1>1, <1>2, <1>3, <2>1, <2>3, TargetsAreNodes DEF BootSane, Dead
  <2>4. QED
    BY <2>2, <2>3
<1>5. QED
  BY <1>4 DEF Boot

LEMMA FinishRemovalBoot ==
  ASSUME TypeInv, Boot, NEW q \in Nodes, FinishRemoval(q)
  PROVE  Boot'
<1>1. PICK removal \in removing[q] :
        /\ removing' = [removing EXCEPT ![q] = @ \ {removal}]
        /\ sub' = [sub EXCEPT ![q][removal.node] = NoSubscriber]
        /\ UNCHANGED <<phase, join>>
  BY DEF FinishRemoval
<1>2. removal.node \in Nodes
  BY DEF TypeInv, OthersTyped, Removal
<1>3. phase[q] # "buffering"
  BY <1>1 DEF Boot, BootSane
<1>4. \A x \in Nodes : removing'[x] \subseteq removing[x]
  BY <1>1 DEF TypeInv, OthersTyped
<1>5. NoSubscriber.last = 0
  BY DEF NoSubscriber
<1>6. QED
  BY <1>1, <1>2, <1>3, <1>4, <1>5, SubscriberBoot

LEMMA ProcessBoot ==
  ASSUME TypeInv, Boot, NEW q \in Nodes, NEW p \in Nodes, NEW id, NEW s \in Subscriber,
         s.state # "NONE", phase[q] \notin {"off", "buffering"}, ~Unsettled(q, p),
         Process(q, p, id, s)
  PROVE  Boot'
<1> DEFINE counted == [s EXCEPT !.last = @ + 1]
           heard == [counted EXCEPT !.heard = TRUE]
<1>1. counted.state # "NONE" /\ heard.state # "NONE"
  BY CountedType
<1>2. \/ Gone(q)
      \/ /\ \E t \in {s, counted, heard} : sub' = [sub EXCEPT ![q][p] = t]
         /\ UNCHANGED <<phase, join>>
         /\ \/ removing' = removing
            \/ \E removal : BeginRemoval(q, removal)
  BY DEF Process, Handle, Desync, Stop
<1> HIDE DEF counted, heard
<1>3. CASE ~Gone(q)
  <2>1. PICK t \in {s, counted, heard} : sub' = [sub EXCEPT ![q][p] = t]
    BY <1>2, <1>3
  <2>2. \A x \in Nodes \ {q} : removing'[x] = removing[x]
    BY <1>2, <1>3 DEF BeginRemoval, TypeInv, OthersTyped
  <2>3. QED
    BY <1>1, <1>2, <1>3, <2>1, <2>2, SubscriberBoot
<1>4. QED
  BY <1>3, GoneBoot

LEMMA ReceiveBoot ==
  ASSUME TypeInv, SyncInv, Boot, NEW q \in Nodes, NEW p \in Nodes, Receive(q, p)
  PROVE  Boot'
<1> DEFINE c == sub[q][p]
           s == [c EXCEPT !.next = @ + 1]
           id == c.next
           b == [s EXCEPT !.buf = Append(@, id)]
<1>1. c \in Subscriber
  BY DEF TypeInv, SubsTyped
<1>2. s \in Subscriber /\ s.state = c.state /\ s.last = c.last
  BY <1>1, AdvancedType
<1>3. b.state = s.state /\ b.last = s.last
  <2> HIDE DEF s, id
  <2>1. QED
    BY <1>2 DEF Subscriber
<1>4. \/ /\ s.state = "BUFFERING" /\ sub' = [sub EXCEPT ![q][p] = b]
         /\ UNCHANGED <<phase, join, removing>>
      \/ s.state \in {"SANE", "MISSING_HEARTBEAT"} /\ Process(q, p, id, s)
  BY DEF Receive
<1>5. PairSane(q, p) /\ Alive(q)
  BY DEF SyncInv, Receive, Deliverable
<1> HIDE DEF s, b, id
<1>6. CASE /\ s.state = "BUFFERING" /\ sub' = [sub EXCEPT ![q][p] = b]
           /\ UNCHANGED <<phase, join, removing>>
  BY <1>2, <1>3, <1>6, SubscriberBoot
<1>7. CASE s.state \in {"SANE", "MISSING_HEARTBEAT"} /\ Process(q, p, id, s)
  <2>1. ~Unsettled(q, p) /\ phase[q] # "buffering"
    BY <1>2, <1>5, <1>7 DEF PairSane, SyncInv, NodeSane, Unsettled
  <2>2. phase[q] # "off"
    BY <1>5 DEF Alive
  <2>3. QED
    BY <1>2, <1>7, <2>1, <2>2, ProcessBoot
<1>8. QED
  BY <1>4, <1>6, <1>7

LEMMA SyncBufferedBoot ==
  ASSUME TypeInv, SyncInv, Boot, NEW q \in Nodes, NEW p \in Nodes, SyncBuffered(q, p)
  PROVE  Boot'
<1> DEFINE c == sub[q][p]
           t == [c EXCEPT !.buf = Tail(@)]
           done == [c EXCEPT !.state = "SANE", !.syncing = FALSE]
<1>1. /\ c \in Subscriber /\ c.state # "NONE"
      /\ ~Unsettled(q, p) /\ phase[q] \notin {"off", "buffering"}
  BY DEF SyncBuffered, TypeInv, SubsTyped, SyncInv, PairSane, NodeSane, Unsettled, Alive
<1>2. CASE c.buf # <<>> /\ Process(q, p, Head(c.buf), t)
  <2>1. Tail(c.buf) \in Seq(Nat)
    BY <1>1, <1>2 DEF Subscriber
  <2>2. t \in Subscriber /\ t.state # "NONE"
    BY <1>1, <2>1 DEF Subscriber
  <2> HIDE DEF t
  <2>3. QED
    BY <1>1, <1>2, <2>2, ProcessBoot
<1>3. CASE /\ sub' = [sub EXCEPT ![q][p].state = "SANE", ![q][p].syncing = FALSE]
           /\ UNCHANGED <<phase, removing, join>>
  <2>1. sub' = [sub EXCEPT ![q][p] = done]
    BY <1>3 DEF TypeInv, SubsTyped
  <2>2. done.state # "NONE"
    BY <1>1 DEF Subscriber
  <2> HIDE DEF done
  <2>3. QED
    BY <1>1, <1>3, <2>1, <2>2, SubscriberBoot
<1>4. QED
  BY <1>2, <1>3 DEF SyncBuffered

LEMMA LinkBoot ==
  ASSUME TypeInv, Boot, NEW q \in Nodes, NEW p \in Nodes, Connect(q, p) \/ Lose(q, p)
  PROVE  Boot'
<1>1. UNCHANGED <<phase, join, removing>>
  BY DEF Connect, Lose
<1>2. PICK n : sub' = [sub EXCEPT ![q][p].next = n]
  BY DEF Connect, Lose
<1> DEFINE t == [sub[q][p] EXCEPT !.next = n]
<1>3. sub' = [sub EXCEPT ![q][p] = t]
  BY <1>2 DEF TypeInv, SubsTyped
<1>4. t.state = sub[q][p].state /\ t.last = sub[q][p].last
  BY DEF TypeInv, SubsTyped, Subscriber
<1> HIDE DEF t
<1>5. QED
  BY <1>1, <1>3, <1>4, SubscriberBoot

LEMMA CheckHeartbeatBoot ==
  ASSUME TypeInv, SyncInv, Boot, ~SlowHandshake, NEW q \in Nodes, NEW p \in Nodes,
         CheckHeartbeat(q, p)
  PROVE  Boot'
<1> DEFINE heard == [sub[q][p] EXCEPT !.state = "SANE", !.heard = FALSE]
           missed == [sub[q][p] EXCEPT !.state = "MISSING_HEARTBEAT"]
           evicted == [sub[q][p] EXCEPT !.state = "EVICTED"]
<1>1. PICK t \in {heard, missed, evicted} : sub' = [sub EXCEPT ![q][p] = t]
  <2>1. sub \in [Nodes -> [Nodes -> Subscriber]]
    BY DEF TypeInv, SubsTyped
  <2>2. /\ [sub EXCEPT ![q][p].state = "SANE", ![q][p].heard = FALSE]
             = [sub EXCEPT ![q][p] = heard]
        /\ [sub EXCEPT ![q][p].state = "MISSING_HEARTBEAT"]
             = [sub EXCEPT ![q][p] = missed]
        /\ [sub EXCEPT ![q][p].state = "EVICTED"] = [sub EXCEPT ![q][p] = evicted]
    BY <2>1
  <2> HIDE DEF heard, missed, evicted
  <2>3. QED
    BY <2>2 DEF CheckHeartbeat
<1>2. heard.state # "NONE" /\ missed.state # "NONE" /\ evicted.state # "NONE"
  BY DEF TypeInv, SubsTyped, Subscriber
<1>3. sub[q][p].state \in {"SANE", "MISSING_HEARTBEAT"} /\ Alive(q)
  BY DEF CheckHeartbeat
<1>4. ~Unsettled(q, p) /\ phase[q] \notin {"off", "buffering"}
  BY <1>3 DEF SyncInv, PairSane, NodeSane, Unsettled, Alive
<1>5. UNCHANGED <<phase, join>> /\ \A x \in Nodes \ {q} : removing'[x] = removing[x]
  BY DEF CheckHeartbeat, BeginRemoval, TypeInv, OthersTyped
<1> HIDE DEF heard, missed, evicted
<1>6. QED
  BY <1>1, <1>2, <1>4, <1>5, SubscriberBoot

\* A step of the joining node q on its own subscribers, phase and handshake.
LEMMA NewcomerBoot ==
  ASSUME TypeInv, Boot, NEW q \in Nodes, BootSane(q)',
         \A x \in Nodes \ {q} :
           /\ ~Joining(x)' /\ phase[x] # "buffering"
           /\ phase'[x] = phase[x] /\ removing'[x] = removing[x]
  PROVE  Boot'
<1>1. ASSUME NEW x \in Nodes \ {q} PROVE BootSane(x)'
  BY DEF Boot, BootSane
<1>2. QED
  BY <1>1 DEF Boot

\* Only one node joins at a time.
LEMMA OneJoins ==
  ASSUME SyncInv, NEW q \in Nodes, join = NoJoin \/ Joining(q)
  PROVE  \A x \in Nodes \ {q} : ~Joining(x) /\ phase[x] # "buffering"
  BY DEF SyncInv, NodeSane, Joining, NoJoin

LEMMA DiscoverBoot ==
  ASSUME TypeInv, SyncInv, Boot, NEW q \in Nodes, NEW targets \in SUBSET (Nodes \ {q}),
         NEW retried \in BOOLEAN, Discoverable(targets), Discover(q, targets, retried),
         phase[q] \in {"off", "buffering"}, join = NoJoin \/ Joining(q),
         UNCHANGED removing
  PROVE  Boot'
<1>1. \A x \in Nodes \ {q} : ~Joining(x) /\ phase[x] # "buffering"
  BY OneJoins
<1>2. \A y \in Nodes : phase[y] = "joined" => y \in targets
  BY DEF Discoverable
<1>3. CASE targets = {}
  <2>1. phase' = [phase EXCEPT ![q] = "joined"] /\ join' = NoJoin
    BY <1>3 DEF Discover
  <2>2. \A x \in Nodes : ~Joining(x)'
    BY <2>1 DEF Joining, NoJoin
  <2>3. phase'[q] = "joined" /\ \A x \in Nodes \ {q} : phase'[x] = phase[x]
    BY <2>1 DEF TypeInv, OthersTyped
  <2>4. BootSane(q)'
    BY <2>2, <2>3 DEF BootSane
  <2>5. QED
    BY <1>1, <2>2, <2>3, <2>4, NewcomerBoot
<1>4. CASE targets # {}
  <2>1. /\ phase' = [phase EXCEPT ![q] = "buffering"]
        /\ join' = [NoJoin EXCEPT !.node = {q}, !.targets = targets,
                                  !.waiting = targets, !.retried = retried]
        /\ sub' = [sub EXCEPT ![q] = [p \in Nodes |->
                     IF p \notin targets THEN NoSubscriber
                     ELSE IF SlowLinks THEN NewSubscriber
                     ELSE [NewSubscriber EXCEPT !.next = NextId(p)]]]
    BY <1>4 DEF Discover
  <2>2. join'.node = {q} /\ join'.targets = targets /\ join'.waiting = targets
    BY <2>1 DEF NoJoin
  <2>3. Joining(q)' /\ \A x \in Nodes \ {q} : ~Joining(x)'
    BY <2>2 DEF Joining
  <2>4. phase'[q] = "buffering" /\ \A x \in Nodes \ {q} : phase'[x] = phase[x]
    BY <2>1 DEF TypeInv, OthersTyped
  <2>5. ASSUME NEW y \in targets
        PROVE  sub'[q][y].state = "BUFFERING" /\ sub'[q][y].last = 0
    <3>1. sub'[q][y] \in {NewSubscriber, [NewSubscriber EXCEPT !.next = NextId(y)]}
      BY <2>1 DEF TypeInv, SubsTyped
    <3>2. NewSubscriber \in Subscriber
      BY RecordTypes
    <3>3. NewSubscriber.state = "BUFFERING" /\ NewSubscriber.last = 0
      BY DEF NewSubscriber, NoSubscriber
    <3>4. QED
      BY <3>1, <3>2, <3>3 DEF Subscriber
  <2>6. removing'[q] = {}
    BY DEF Boot, BootSane
  <2>7. BootSane(q)'
    BY <1>2, <2>2, <2>4, <2>5, <2>6 DEF BootSane
  <2>8. QED
    BY <1>1, <2>3, <2>4, <2>7, NewcomerBoot
<1>5. QED
  BY <1>3, <1>4

LEMMA HandshakesBoot ==
  ASSUME TypeInv, SyncInv, Boot, NEW q \in Nodes, StartHandshake(q) \/ RetryHandshake(q)
  PROVE  Boot'
<1>1. CASE \E targets \in SUBSET (Nodes \ {q}), retried \in BOOLEAN :
             /\ phase[q] \in {"off", "buffering"} /\ (join = NoJoin \/ Joining(q))
             /\ Discoverable(targets) /\ Discover(q, targets, retried)
             /\ UNCHANGED removing
  BY <1>1, DiscoverBoot
<1>2. CASE Stop(q)
  BY <1>2, GoneBoot DEF Stop
<1>3. QED
  BY <1>1, <1>2 DEF StartHandshake, RetryHandshake

LEMMA GetFullStateBoot ==
  ASSUME TypeInv, SyncInv, Boot, NEW q \in Nodes, NEW d \in Nodes, GetFullState(q, d)
  PROVE  Boot'
<1>1. CASE FailToStart(q)
  BY <1>1, GoneBoot DEF FailToStart
<1>2. CASE ~FailToStart(q)
  <2>1. /\ Joining(q) /\ phase[q] = "buffering"
        /\ phase' = [phase EXCEPT ![q] = "loaded"]
        /\ UNCHANGED <<sub, removing>>
    BY <1>2 DEF GetFullState
  <2>2. /\ join'.node = join.node /\ join'.targets = join.targets
        /\ join'.waiting = join.waiting /\ join'.answer = join.answer
    BY <1>2 DEF GetFullState, TypeInv, OthersTyped, JoinRecord
  <2>3. \A x \in Nodes \ {q} : ~Joining(x)' /\ phase[x] # "buffering"
    BY <2>1, <2>2, OneJoins DEF Joining
  <2>4. phase'[q] = "loaded" /\ \A x \in Nodes \ {q} : phase'[x] = phase[x]
    BY <2>1 DEF TypeInv, OthersTyped
  <2>5. BootSane(q)'
    BY <2>1, <2>2, <2>4, TargetsAreNodes DEF Boot, BootSane, Dead
  <2>6. QED
    BY <2>1, <2>3, <2>4, <2>5, NewcomerBoot
<1>3. QED
  BY <1>1, <1>2

LEMMA HandleHandshakeBoot ==
  ASSUME TypeInv, SyncInv, Boot, ~SlowHandshake, NEW q \in Nodes, NEW p \in Nodes,
         HandleHandshake(p, q)
  PROVE  Boot'
<1>1. /\ Joining(q) /\ phase[q] = "loaded" /\ phase[p] = "joined"
      /\ UNCHANGED <<phase, removing>>
  BY DEF HandleHandshake
<1>2. /\ join'.node = join.node /\ join'.targets = join.targets
      /\ join'.waiting = join.waiting \ {p}
      /\ join'.answer[p] = Len(log[p])
      /\ \A y \in Nodes \ {p} : join'.answer[y] = join.answer[y]
  BY DEF HandleHandshake, TypeInv, OthersTyped, JoinRecord
<1>3. Len(log[p]) # -1
  BY DEF TypeInv, LogsTyped
<1>4. \A x \in Nodes \ {p} : sub'[x] = sub[x]
  BY DEF HandleHandshake, TypeInv, SubsTyped
<1>5. p # q
  BY <1>1
<1>6. BootSane(q)'
  BY <1>1, <1>2, <1>3, <1>4, <1>5, TargetsAreNodes DEF Boot, BootSane, Dead
<1>7. \A x \in Nodes \ {q} : ~Joining(x)' /\ phase[x] # "buffering"
  BY <1>1, <1>2, OneJoins DEF Joining
<1>8. QED
  BY <1>1, <1>6, <1>7, NewcomerBoot

LEMMA HandshakeTimeoutBoot ==
  ASSUME TypeInv, SyncInv, Boot, NEW q \in Nodes, NEW p \in Nodes, HandshakeTimeout(q, p)
  PROVE  Boot'
<1>1. /\ Joining(q) /\ phase[q] = "loaded" /\ Dead(p)
      /\ UNCHANGED <<phase, removing, sub>>
  BY DEF HandshakeTimeout, Dead
<1>2. /\ join'.node = join.node /\ join'.targets = join.targets
      /\ join'.waiting = join.waiting \ {p} /\ join'.answer = join.answer
  BY DEF HandshakeTimeout, TypeInv, OthersTyped, JoinRecord
<1>3. BootSane(q)'
  BY <1>1, <1>2, TargetsAreNodes DEF Boot, BootSane, Dead
<1>4. \A x \in Nodes \ {q} : ~Joining(x)' /\ phase[x] # "buffering"
  BY <1>1, <1>2, OneJoins DEF Joining
<1>5. QED
  BY <1>1, <1>3, <1>4, NewcomerBoot

LEMMA SettleBoot ==
  ASSUME TypeInv, SyncInv, Boot, NEW q \in Nodes, NEW p \in Nodes, Settle(q, p)
  PROVE  Boot'
<1>1. CASE FailToStart(q)
  BY <1>1, GoneBoot DEF FailToStart
<1>2. CASE ~FailToStart(q)
  <2>1. /\ Joining(q) /\ phase[q] = "loaded"
        /\ join' = IF join.targets = {p} THEN NoJoin
                   ELSE [join EXCEPT !.targets = @ \ {p}]
        /\ phase' = [phase EXCEPT ![q] = IF join.targets = {p} THEN "joined" ELSE @]
        /\ UNCHANGED removing
    BY <1>2 DEF Settle
  <2>2. \A x \in Nodes, y \in Nodes : x # q \/ y # p => sub'[x][y] = sub[x][y]
    BY <1>2 DEF Settle, TypeInv, SubsTyped
  <2>3. phase'[q] \in {"joined", "loaded"} /\ \A x \in Nodes \ {q} : phase'[x] = phase[x]
    BY <2>1 DEF TypeInv, OthersTyped
  <2>4. Joining(q)' => /\ join'.targets = join.targets \ {p}
                       /\ join'.waiting = join.waiting /\ join'.answer = join.answer
    BY <2>1 DEF Joining, NoJoin, TypeInv, OthersTyped, JoinRecord
  <2>5. \A x \in Nodes \ {q} : ~Joining(x)' /\ phase[x] # "buffering"
    <3>1. join'.node \subseteq join.node
      BY <2>1 DEF NoJoin, TypeInv, OthersTyped, JoinRecord
    <3>2. QED
      BY <2>1, <3>1, OneJoins DEF Joining
  <2>6. BootSane(q)'
    <3>1. BootSane(q)
      BY DEF Boot
    <3>2. \A y \in join.targets \ {p} : y \in Nodes /\ sub'[q][y] = sub[q][y] /\ (Dead(y) => Dead(y)')
      BY <2>1, <2>2, <2>3, TargetsAreNodes DEF Dead
    <3>3. QED
      BY <2>1, <2>3, <2>4, <3>1, <3>2 DEF BootSane
  <2>7. QED
    BY <2>1, <2>3, <2>5, <2>6, NewcomerBoot
<1>3. QED
  BY <1>1, <1>2

LEMMA InitBoot == Init => Boot
  BY DEF Init, Boot, BootSane, Joining, NoJoin

LEMMA NextBoot ==
  ASSUME TypeInv, SyncInv, Boot, ~SlowHandshake, [Next]_vars
  PROVE  Boot'
<1>1. CASE UNCHANGED vars
  BY <1>1, QuietBoot DEF vars
<1>2. ASSUME NEW p \in Nodes, LocalStep(p)
      PROVE  Boot'
  <2>1. CASE Heartbeat(p) \/ \E r \in Rooms : OpenRoom(p, r) \/ Subscribe(p, r)
                                              \/ Unsubscribe(p, r) \/ CloseRoom(p, r)
    BY <2>1, QuietBoot DEF Heartbeat, OpenRoom, Subscribe, Unsubscribe, CloseRoom
  <2>2. CASE Shutdown(p) \/ Crash(p)
    BY <2>2, GoneBoot DEF Shutdown, Crash, Stop, FailToStart
  <2>3. QED
    BY <1>2, <2>1, <2>2, FinishRemovalBoot, HandshakesBoot DEF LocalStep
<1>3. ASSUME NEW q \in Nodes, NEW p \in Nodes, RemoteStep(q, p)
      PROVE  Boot'
  BY <1>3, LinkBoot, ReceiveBoot, CheckHeartbeatBoot, GetFullStateBoot,
     HandleHandshakeBoot, HandshakeTimeoutBoot, SettleBoot, SyncBufferedBoot
     DEF RemoteStep
<1>4. QED
  BY <1>1, <1>2, <1>3 DEF Next

\* A node that is not followed is dead, or has no entries here.
NoLiveGhost ==
  \A q, p \in Nodes :
    phase[q] \in {"loaded", "joined"} /\ q # p /\ sub[q][p].state = "NONE" =>
      Dead(p) \/ EntriesOf(fs[q], p) = NoEntries

GhostInv == TypeInv /\ SyncInv /\ Boot /\ NoLiveGhost

LEMMA InitGhost == Init => GhostInv
<1> SUFFICES ASSUME Init PROVE GhostInv
  OBVIOUS
<1>1. \A q \in Nodes : fs[q] = EmptyState
  BY DEF Init
<1>2. QED
  BY <1>1, InitType, InitSync, InitBoot, EmptyEntries DEF GhostInv, NoLiveGhost

LEMMA ProcessPhases ==
  ASSUME TypeInv, NEW q \in Nodes, NEW p, NEW id, NEW s, Process(q, p, id, s)
  PROVE  \A x \in Nodes : phase'[x] = phase[x] \/ phase'[x] = "down"
  BY DEF Process, Handle, Stop, Gone, TypeInv, OthersTyped

\* The dead stay dead; a node gets a full state, if there is one, from another node.
LEMMA PhaseSteps ==
  ASSUME TypeInv, NEW x \in Nodes, [Next]_vars
  PROVE  /\ Dead(x) => Dead(x)'
         /\ phase[x] \in {"off", "buffering"} =>
              \/ phase'[x] \in {"off", "buffering", "down"}
              \/ (StartHandshake(x) \/ RetryHandshake(x)) /\ fs' = fs
              \/ phase[x] = "buffering" /\ sub' = sub
                 /\ \E d \in Nodes : GetFullState(x, d) /\ phase' = [phase EXCEPT ![x] = "loaded"]
<1> DEFINE Goal ==
      /\ Dead(x) => Dead(x)'
      /\ phase[x] \in {"off", "buffering"} =>
           \/ phase'[x] \in {"off", "buffering", "down"}
           \/ (StartHandshake(x) \/ RetryHandshake(x)) /\ fs' = fs
           \/ phase[x] = "buffering" /\ sub' = sub
              /\ \E d \in Nodes : GetFullState(x, d) /\ phase' = [phase EXCEPT ![x] = "loaded"]
<1>1. ASSUME phase'[x] = phase[x] \/ phase'[x] = "down"
      PROVE  Goal
  BY <1>1 DEF Dead
<1>2. ASSUME NEW q \in Nodes, Stop(q) \/ FailToStart(q)
      PROVE  Goal
  <2>1. phase'[x] = phase[x] \/ phase'[x] = "down"
    BY <1>2 DEF Stop, FailToStart, Gone, TypeInv, OthersTyped
  <2>2. QED
    BY <1>1, <2>1
<1>3. ASSUME NEW p \in Nodes, LocalStep(p)
      PROVE  Goal
  <2>1. CASE StartHandshake(p)
    <3>1. phase[p] = "off" /\ fs' = fs
      BY <2>1 DEF StartHandshake
    <3>2. x # p => phase'[x] = phase[x]
      BY <2>1 DEF StartHandshake, Discover, TypeInv, OthersTyped
    <3>3. QED
      BY <1>1, <2>1, <3>1, <3>2 DEF Dead
  <2>2. CASE RetryHandshake(p) /\ ~Stop(p)
    <3>1. phase[p] = "buffering" /\ fs' = fs
      BY <2>2 DEF RetryHandshake
    <3>2. x # p => phase'[x] = phase[x]
      BY <2>2 DEF RetryHandshake, Discover, TypeInv, OthersTyped
    <3>3. QED
      BY <1>1, <2>2, <3>1, <3>2 DEF Dead
  <2>3. CASE Shutdown(p) \/ Crash(p) \/ Stop(p)
    BY <1>2, <2>3 DEF Shutdown, Crash
  <2>4. CASE Heartbeat(p) \/ FinishRemoval(p)
             \/ \E r \in Rooms : OpenRoom(p, r) \/ Subscribe(p, r) \/ Unsubscribe(p, r)
                                 \/ CloseRoom(p, r)
    <3>1. phase' = phase
      BY <2>4 DEF Heartbeat, FinishRemoval, OpenRoom, Subscribe, Unsubscribe, CloseRoom
    <3>2. QED
      BY <1>1, <3>1
  <2>5. QED
    BY <1>3, <2>1, <2>2, <2>3, <2>4 DEF LocalStep
<1>4. ASSUME NEW q \in Nodes, NEW p \in Nodes, RemoteStep(q, p)
      PROVE  Goal
  <2>1. CASE Receive(q, p) \/ SyncBuffered(q, p)
    <3>1. phase'[x] = phase[x] \/ phase'[x] = "down"
      BY <2>1, ProcessPhases DEF Receive, SyncBuffered
    <3>2. QED
      BY <1>1, <3>1
  <2>2. CASE GetFullState(q, p) /\ ~FailToStart(q)
    <3>1. phase[q] = "buffering" /\ sub' = sub /\ phase' = [phase EXCEPT ![q] = "loaded"]
      BY <2>2 DEF GetFullState
    <3>2. x # q => phase'[x] = phase[x]
      BY <3>1 DEF TypeInv, OthersTyped
    <3>3. QED
      BY <1>1, <2>2, <3>1, <3>2 DEF Dead
  <2>3. CASE Settle(q, p) /\ ~FailToStart(q)
    <3>1. /\ phase[q] = "loaded"
          /\ phase' = [phase EXCEPT ![q] = IF join.targets = {p} THEN "joined" ELSE @]
      BY <2>3 DEF Settle
    <3>2. x # q => phase'[x] = phase[x]
      BY <3>1 DEF TypeInv, OthersTyped
    <3>3. QED
      BY <1>1, <3>1, <3>2 DEF Dead
  <2>4. CASE Connect(q, p) \/ Lose(q, p) \/ CheckHeartbeat(q, p) \/ HandleHandshake(p, q)
             \/ HandshakeTimeout(q, p)
    <3>1. phase' = phase
      BY <2>4 DEF Connect, Lose, CheckHeartbeat, HandleHandshake, HandshakeTimeout
    <3>2. QED
      BY <1>1, <3>1
  <2>5. QED
    BY <1>2, <1>4, <2>1, <2>2, <2>3, <2>4 DEF RemoteStep
<1>5. QED
  BY <1>1, <1>3, <1>4 DEF Next, vars

LEMMA NextGhost ==
  ASSUME GhostInv, ~SlowHandshake, [Next]_vars
  PROVE  GhostInv'
<1>1. TypeInv' /\ SyncInv' /\ Boot'
  BY NextType, NextSync, NextBoot DEF GhostInv
<1>2. ASSUME NEW q \in Nodes, NEW p \in Nodes, phase'[q] \in {"loaded", "joined"}, q # p,
             sub'[q][p].state = "NONE", ~Dead(p)'
      PROVE  EntriesOf(fs'[q], p) = NoEntries
  <2>1. TypeInv /\ SyncInv /\ Boot /\ Idle /\ NoLiveGhost
    BY DEF GhostInv, Idle, SyncInv, PairSane
  <2>2. ~Dead(p)
    BY <1>2, <2>1, PhaseSteps
  <2>3. CASE phase'[p] # "joined"
    BY <1>1, <1>2, <2>3 DEF SyncInv, NewcomerInv, Fresh, Dead, TypeInv, OthersTyped, Phase
  <2>4. CASE phase[q] \in {"off", "buffering"} /\ phase'[p] = "joined"
    <3>1. CASE fs' = fs
      BY <1>2, <2>1, <2>4, <3>1 DEF SyncInv, EmptyInv
    <3>2. CASE /\ phase[q] = "buffering" /\ sub' = sub
               /\ phase' = [phase EXCEPT ![q] = "loaded"]
      <4>1. phase[p] = "joined"
        BY <1>2, <2>1, <2>4, <3>2 DEF TypeInv, OthersTyped
      <4>2. QED
        BY <1>2, <2>1, <3>2, <4>1 DEF Boot, BootSane
    <3>3. QED
      BY <1>2, <2>1, <2>4, <3>1, <3>2, PhaseSteps
  <2>5. CASE phase[q] \notin {"off", "buffering"} /\ phase'[p] = "joined"
    <3>1. phase[q] \in {"loaded", "joined"}
      <4>1. ~Dead(q)
        BY <1>2, <2>1, PhaseSteps DEF Dead
      <4>2. QED
        BY <2>1, <2>5, <4>1 DEF Dead, TypeInv, OthersTyped, Phase
    <3>2. sub[q][p].state = "NONE" => EntriesOf(fs[q], p) = NoEntries
      BY <1>2, <2>1, <2>2, <3>1 DEF NoLiveGhost
    <3>3. CASE Held
      BY <1>2, <2>5, <3>2, <3>3 DEF Held, HeldStep
    <3>4. ASSUME NEW x \in Nodes, NEW y \in Nodes, Unanswered(x, y)
          PROVE  EntriesOf(fs'[q], p) = NoEntries
      <4>1. Joining(x) /\ y \in join.targets /\ join.waiting = {} /\ join.answer[y] = -1
        BY <3>4 DEF Unanswered, Settle
      <4>2. Dead(y)
        BY <2>1, <4>1 DEF Boot, BootSane
      <4>3. p # y
        BY <2>2, <4>2
      <4>4. fs' = fs /\ sub'[q][p] = sub[q][p]
        BY <2>1, <3>4, <4>3 DEF Unanswered, TypeInv, SubsTyped
      <4>5. QED
        BY <1>2, <3>2, <4>4
    <3>5. QED
      BY <2>1, <3>3, <3>4, NextHeld
  <2>6. QED
    BY <2>3, <2>4, <2>5
<1>3. QED
  BY <1>1, <1>2 DEF GhostInv, NoLiveGhost

\* Joining nodes included, and whatever is lost or late: the only entries a node keeps
\* for a node it does not follow are those of a dead one (GhostsAreDead), which came with
\* a full state and stayed when the node did not answer (node.js:603).  The count that a
\* node answers never includes clients of a live node that it has no subscriber to.
THEOREM OnlyDeadGhosts ==
  ASSUME ~SlowHandshake
  PROVE  Spec => []GhostsAreDead
<1>1. GhostInv /\ [Next]_vars => GhostInv'
  BY NextGhost
<1>2. GhostInv => GhostsAreDead
  <2> SUFFICES ASSUME GhostInv, NEW q \in Nodes, NEW p \in Nodes, NEW r \in Rooms,
                      phase[q] \in {"loaded", "joined"}, p # q, phase[p] # "down",
                      sub[q][p].state = "NONE"
               PROVE  fs[q][r][p] = NoEntry
    BY DEF GhostsAreDead
  <2>1. EntriesOf(fs[q], p)[r] = NoEntries[r]
    BY DEF GhostInv, NoLiveGhost, Dead
  <2>2. QED
    BY <2>1 DEF EntriesOf, NoEntries
<1>3. QED
  BY <1>1, <1>2, InitGhost, PTL DEF Spec

\* A subscriber handles no message before sync() is called on it (BufferedUntilSync), if
\* handshakes end before checkHeartbeat fires.  The run ClusterEarly shows that without
\* this hypothesis it does: the timer takes subscribers out of BUFFERING.
THEOREM NothingHandledEarly ==
  ASSUME ~SlowHandshake
  PROVE  Spec => []BufferedUntilSync
<1>1. GhostInv /\ [Next]_vars => GhostInv'
  BY NextGhost
<1>2. GhostInv => BufferedUntilSync
  BY DEF GhostInv, Boot, BootSane, BufferedUntilSync
<1>3. QED
  BY <1>1, <1>2, InitGhost, PTL DEF Spec
=============================================================================
