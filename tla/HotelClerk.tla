----------------------------- MODULE HotelClerk -----------------------------
(***************************************************************************)
(* The realtime rooms and subscriptions of one Kuzzle node                 *)
(* (lib/core/realtime/hotelClerk.ts, room.ts, connectionRooms.ts), with    *)
(* what the node tells the cluster about them (lib/cluster/node.js).       *)
(*                                                                         *)
(* subscribe and unsubscribe do all their work before their first await,   *)
(* so each is one step.  join may await the filters of a room that only    *)
(* remote nodes have, and removeConnection takes the list of a             *)
(* connection's rooms before it unsubscribes it from them.                 *)
(***************************************************************************)
EXTENDS FullState

CONSTANTS
  Self,         \* this node
  Conns,        \* connections; their ids are never used again
  JoinConns,    \* connections that use realtime:join
  NoRoom,       \* the clerk has no such room
  RoomsLimit,   \* config.limits.subscriptionRooms, 0 for no limit
  Propagates,   \* values of the "propagate" argument of realtime:join
  Notifies,     \* values of the "notify" argument of a plugin's unsubscription
  BadChannels,  \* may a request have an unknown scope or users argument?
  MaxSent,      \* bound: no new request once this many messages were sent
  MaxExpired    \* bound: tokens that expire, over a behaviour

ASSUME HotelAssumption ==
  /\ Self \in Nodes
  /\ JoinConns \subseteq Conns
  /\ RoomsLimit \in Nat /\ MaxSent \in Nat /\ MaxExpired \in Nat
  /\ Propagates \subseteq BOOLEAN /\ Notifies \subseteq BOOLEAN
  /\ BadChannels \in BOOLEAN

VARIABLES
  alive,       \* connections the router and the entry point know
  rooms,       \* the clerk's rooms
  roomsCount,  \* its counter of rooms
  subs,        \* subs[c]: the rooms of connection c
  channels,    \* channels[c]: the protocol channels c listens to
  fs,          \* the node's full state
  filters,     \* rooms whose filters are in Koncorde
  sent,        \* number of sync messages the node has sent
  joining,     \* join calls that have not subscribed yet
  removing,    \* removeConnection calls that have not unsubscribed all rooms yet
  expired      \* number of tokens that expired

clerkVars == <<alive, rooms, roomsCount, subs, channels, fs, filters, sent,
               joining, removing, expired>>

(***************************************************************************)
(* A Room: its connections and its channels.  A channel is known by its    *)
(* "cluster" flag, the only part of it that changes what the clerk does.   *)
(***************************************************************************)
Room == [conns : SUBSET Conns, channels : SUBSET BOOLEAN]

EmptyRoom == [conns |-> {}, channels |-> {}]

ASSUME NoRoomAssumption == NoRoom \notin Room

Has(r) == rooms[r] # NoRoom

\* A join call; asked says that it awaits the filters of the room.
JoinCall == [conn : Conns, room : Rooms, propagate : BOOLEAN, asked : BOOLEAN]

\* A removeConnection call and the rooms it still has to unsubscribe from.
Removal == [conn : Conns, rooms : SUBSET Rooms]

Init ==
  /\ alive = Conns
  /\ rooms = [r \in Rooms |-> NoRoom]
  /\ roomsCount = 0
  /\ subs = [c \in Conns |-> {}]
  /\ channels = [c \in Conns |-> {}]
  /\ fs = EmptyState
  /\ filters = {}
  /\ sent = 0
  /\ joining = {}
  /\ removing = {}
  /\ expired = 0
-----------------------------------------------------------------------------
\* createRoom accepts the room: it exists already or there is place for it.
CanCreate(r) == Has(r) \/ RoomsLimit = 0 \/ roomsCount < RoomsLimit

\* Mutant: a room that was there already is counted again.
OpenedCountingAlways(r) ==
  IF Has(r) THEN [room |-> rooms[r], st |-> fs, sent |-> sent,
                  count |-> roomsCount + 1]
  ELSE [room |-> EmptyRoom,
        st |-> AddRoom(fs, r, Self, [subs |-> 0, mid |-> sent + 1]),
        sent |-> sent + 1, count |-> roomsCount + 1]

\* createRoom, when the room does not exist: NewRealtimeRoom is sent.
Opened(r) ==
  IF Has(r) THEN [room |-> rooms[r], st |-> fs, sent |-> sent, count |-> roomsCount]
  ELSE [room |-> EmptyRoom,
        st |-> AddRoom(fs, r, Self, [subs |-> 0, mid |-> sent + 1]),
        sent |-> sent + 1, count |-> roomsCount + 1]

\* createRoom alone: the channel of the request is refused after it.
EnterNoChannel(r) ==
  LET opened == Opened(r) IN
  /\ rooms' = [rooms EXCEPT ![r] = opened.room]
  /\ roomsCount' = opened.count
  /\ filters' = filters \cup {r}
  /\ fs' = opened.st
  /\ sent' = opened.sent
  /\ UNCHANGED <<subs, channels>>

\* subscribeToRoom: a connection counts once in a room, whatever its channels.
IsNewNever(c, r) == FALSE \* mutant

IsNewAlways(c, r) == TRUE \* mutant

IsNew(c, r) == r \notin subs[c]

\* createRoom and subscribeToRoom; tells says whether the callback announces a
\* new subscription to the cluster (onNewSubscription).
Enter(c, r, channel, tells) ==
  LET opened == Opened(r)
      told == tells /\ IsNew(c, r)
  IN /\ rooms' = [rooms EXCEPT ![r] =
                    [conns |-> opened.room.conns \cup {c},
                     channels |-> opened.room.channels \cup {channel}]]
     /\ roomsCount' = opened.count
     /\ subs' = [subs EXCEPT ![c] = @ \cup {r}]
     /\ channels' = [channels EXCEPT ![c] =
                       IF c \in alive THEN @ \cup {<<r, channel>>} ELSE @]
     /\ filters' = filters \cup {r}
     /\ fs' = IF told THEN AddSubscription(opened.st, r, Self, opened.sent + 1)
              ELSE opened.st
     /\ sent' = opened.sent + IF told THEN 1 ELSE 0

\* Mutant: the connection is not checked.
SubscribeUnchecked(c, r) ==
  /\ CanCreate(r) /\ sent < MaxSent
  /\ \E channel \in Propagates : Enter(c, r, channel, TRUE)
  /\ UNCHANGED <<alive, joining, removing, expired>>

\* subscribe checks on the spot that the connection is there.  A plugin may choose
\* the channel's cluster flag; the subscription is announced all the same.
Subscribe(c, r) ==
  /\ c \in alive /\ CanCreate(r) /\ sent < MaxSent
  /\ \/ \E channel \in Propagates : Enter(c, r, channel, TRUE)
     \/ BadChannels /\ EnterNoChannel(r)
  /\ UNCHANGED <<alive, joining, removing, expired>>

\* A join request passed the funnel, which checked that the connection is there.
Join(c, r, propagate) ==
  /\ c \in alive \cap JoinConns /\ sent < MaxSent
  /\ joining' = joining \cup
       {[conn |-> c, room |-> r, propagate |-> propagate, asked |-> FALSE]}
  /\ UNCHANGED <<alive, rooms, roomsCount, subs, channels, fs, filters, sent,
                 removing, expired>>

\* The room is not on this node: join awaits cluster:realtime:filters:get.
JoinAsk(j) ==
  /\ j \in joining /\ ~j.asked /\ ~Has(j.room)
  /\ joining' = (joining \ {j}) \cup
       IF Exists(fs, j.room) THEN {[j EXCEPT !.asked = TRUE]} ELSE {}
  /\ UNCHANGED <<alive, rooms, roomsCount, subs, channels, fs, filters, sent,
                 removing, expired>>

\* join goes on, whatever happened to the connection or the room meanwhile.
JoinRoom(j) ==
  /\ j \in joining /\ (j.asked \/ Has(j.room))
  /\ joining' = joining \ {j}
  /\ \/ CanCreate(j.room) /\ Enter(j.conn, j.room, j.propagate, j.propagate)
     \/ BadChannels /\ CanCreate(j.room) /\ EnterNoChannel(j.room)
     \/ ~CanCreate(j.room)
        /\ UNCHANGED <<rooms, roomsCount, subs, channels, fs, filters, sent>>
  /\ UNCHANGED <<alive, removing, expired>>
-----------------------------------------------------------------------------
\* A room no node uses any more leaves Koncorde.
FiltersOfThisNode(st, r) == filters \ {r} \* mutant: other nodes are forgotten

FiltersOf(st, r) == IF Exists(st, r) THEN filters ELSE filters \ {r}

\* Mutant: the room is counted out twice.
DeleteRoomTwice(r) ==
  /\ rooms' = [rooms EXCEPT ![r] = NoRoom]
  /\ roomsCount' = roomsCount - 2
  /\ fs' = RemoveRoom(fs, r, Self)
  /\ filters' = FiltersOf(fs', r)
  /\ sent' = sent + 1

\* Mutant: the cluster is not told.
DeleteRoomSilently(r) ==
  /\ rooms' = [rooms EXCEPT ![r] = NoRoom]
  /\ roomsCount' = roomsCount - 1
  /\ UNCHANGED <<fs, filters, sent>>

\* removeRoom: RemoveRealtimeRoom is sent.
DeleteRoom(r) ==
  /\ rooms' = [rooms EXCEPT ![r] = NoRoom]
  /\ roomsCount' = roomsCount - 1
  /\ fs' = RemoveRoom(fs, r, Self)
  /\ filters' = FiltersOf(fs', r)
  /\ sent' = sent + 1

LastOneOfTwo(c, r) == Cardinality(rooms[r].conns) <= 2 \* mutant: off by one

LastOneNever(c, r) == FALSE \* mutant: rooms are never removed

LastOne(c, r) == rooms[r].conns \subseteq {c}

DefaultChannel(r) == {<<r, TRUE>>} \* mutant

ChannelsOf(r) == {r} \X rooms[r].channels

\* unsubscribe: the connection leaves all channels of the room, and the room is
\* deleted when nobody is left in it.
Leave(c, r, notify) ==
  /\ r \in subs[c]
  /\ subs' = [subs EXCEPT ![c] = @ \ {r}]
  /\ channels' = [channels EXCEPT ![c] = @ \ ChannelsOf(r)]
  /\ \/ /\ LastOne(c, r)
        /\ DeleteRoom(r)
     \/ /\ ~LastOne(c, r)
        /\ rooms' = [rooms EXCEPT ![r].conns = @ \ {c}]
        /\ fs' = IF notify THEN RemoveSubscription(fs, r, Self, sent + 1) ELSE fs
        /\ sent' = sent + IF notify THEN 1 ELSE 0
        /\ UNCHANGED <<roomsCount, filters>>

\* The connection may be gone since the funnel let its request in.
Unsubscribe(c, r) ==
  /\ \E notify \in Notifies : Leave(c, r, notify)
  /\ UNCHANGED <<alive, joining, removing, expired>>

\* removeConnection: the rooms are listed now, left later.
StartRemoval(c) ==
  removing' = IF subs[c] = {} THEN removing
              ELSE removing \cup {[conn |-> c, rooms |-> subs[c]]}

\* entryPoint.removeConnection, in one synchronous block.
Disconnect(c) ==
  /\ c \in alive
  /\ alive' = alive \ {c}
  /\ channels' = [channels EXCEPT ![c] = {}]
  /\ StartRemoval(c)
  /\ UNCHANGED <<rooms, roomsCount, subs, fs, filters, sent, joining, expired>>

\* The token of a connection expires: it loses its subscriptions, not its socket.
TokenExpired(c) ==
  /\ expired < MaxExpired
  /\ expired' = expired + 1
  /\ StartRemoval(c)
  /\ UNCHANGED <<alive, rooms, roomsCount, subs, channels, fs, filters, sent,
                 joining>>

\* The next room of a removeConnection call; the error of a room that was left
\* in the meantime is logged.
RemoveNext(removal) ==
  /\ removal \in removing
  /\ \E r \in removal.rooms :
       /\ removing' = (removing \ {removal}) \cup
            IF removal.rooms = {r} THEN {}
            ELSE {[removal EXCEPT !.rooms = @ \ {r}]}
       /\ \/ Leave(removal.conn, r, TRUE)
          \/ /\ r \notin subs[removal.conn]
             /\ UNCHANGED <<rooms, roomsCount, subs, channels, fs, filters, sent>>
  /\ UNCHANGED <<alive, joining, expired>>
-----------------------------------------------------------------------------
\* A sync message tells that remote node n uses the room, or that it does not
\* any more.
RemoteOpen(n, r) ==
  /\ n # Self /\ CanAddRoom(fs, r, n)
  /\ fs' = AddRoom(fs, r, n, [subs |-> 1, mid |-> 1])
  /\ filters' = filters \cup {r}
  /\ UNCHANGED <<alive, rooms, roomsCount, subs, channels, sent, joining,
                 removing, expired>>

RemoteClose(n, r) ==
  /\ n # Self /\ Known(fs, r, n)
  /\ fs' = RemoveRoom(fs, r, n)
  /\ filters' = FiltersOf(fs', r)
  /\ UNCHANGED <<alive, rooms, roomsCount, subs, channels, sent, joining,
                 removing, expired>>
-----------------------------------------------------------------------------
Next ==
  \/ \E c \in Conns : \/ Disconnect(c) \/ TokenExpired(c)
                      \/ \E r \in Rooms : \/ Subscribe(c, r) \/ Unsubscribe(c, r)
                                          \/ \E p \in Propagates : Join(c, r, p)
  \/ \E j \in joining : JoinAsk(j) \/ JoinRoom(j)
  \/ \E removal \in removing : RemoveNext(removal)
  \/ \E n \in Nodes, r \in Rooms : RemoteOpen(n, r) \/ RemoteClose(n, r)

Spec == Init /\ [][Next]_clerkVars

\* Calls that were started go on: they only await answers of this process.
Fairness ==
  /\ WF_clerkVars(\E j \in joining : JoinAsk(j) \/ JoinRoom(j))
  /\ \A c \in Conns :
       WF_clerkVars(\E removal \in removing : removal.conn = c /\ RemoveNext(removal))

FairSpec == Spec /\ Fairness
-----------------------------------------------------------------------------
\* Type invariant.
TypeOK ==
  /\ alive \subseteq Conns
  /\ rooms \in [Rooms -> Room \cup {NoRoom}]
  /\ roomsCount \in Nat
  /\ subs \in [Conns -> SUBSET Rooms]
  /\ channels \in [Conns -> SUBSET (Rooms \X BOOLEAN)]
  /\ fs \in State
  /\ filters \subseteq Rooms
  /\ sent \in Nat
  /\ joining \subseteq JoinCall
  /\ removing \subseteq Removal
  /\ expired \in Nat

\* The clerk's two views of subscriptions, by room and by connection, agree, and
\* no subscription is on a room that was deleted.
RoomsMatchSubscriptions ==
  \A c \in Conns, r \in Rooms : r \in subs[c] <=> Has(r) /\ c \in rooms[r].conns

\* The counter that guards the limit on rooms counts the rooms: it never lets more
\* of them in, nor refuses one while there is place.
RoomsCountExact ==
  /\ roomsCount = Cardinality({r \in Rooms : Has(r)})
  /\ RoomsLimit # 0 => roomsCount <= RoomsLimit

\* The node announces to the cluster the rooms it has, and only those.
AnnouncedRooms == \A r \in Rooms : Has(r) <=> fs[r][Self] # NoEntry

\* Documents are matched against the filters of exactly the rooms that some node
\* of the cluster uses.
FiltersInUse == \A r \in Rooms : r \in filters <=> Exists(fs, r)

\* A live connection listens to a channel of each room it subscribed to, and to
\* no channel of another room.
ListensToOwnRooms ==
  \A c \in alive, r \in Rooms :
    r \in subs[c] <=> \E channel \in BOOLEAN : <<r, channel>> \in channels[c]

\* A room lives as long as someone is in it: the last one out removes it.
NoEmptyRoom == \A r \in Rooms : Has(r) => rooms[r].conns # {}

\* The number of subscribers the cluster knows for this node is the number of
\* connections in the room.
AnnouncedCounts ==
  \A r \in Rooms : Has(r) => fs[r][Self].subs = Cardinality(rooms[r].conns)

\* The node never announces a negative number of subscribers, on which each
\* remote node would declare itself out-of-sync.
NeverNegative == \A r \in Rooms : Has(r) => fs[r][Self].subs >= 0

\* What the node announces is what the cluster expects of it.
Entries == INSTANCE RoomEntries WITH own <- EntriesOf(fs, Self), sent <- sent

AnnouncesLegally == Entries!Spec

\* No zombie subscription: a connection that is gone ends with no subscription.
\* Connections that use realtime:join are excepted.
DeadUnsubscribed ==
  \A c \in Conns \ JoinConns : c \notin alive ~> [](subs[c] = {})
=============================================================================
