------------------------- MODULE HotelClerk_proofs -------------------------
(***************************************************************************)
(* Proofs about the hotel clerk, for any set of rooms (infinite ones       *)
(* included), connections and nodes, any limit on rooms, and any choice of *)
(* the propagate and notify arguments unless a theorem says otherwise.     *)
(***************************************************************************)
EXTENDS HotelClerk, FullState_proofs, FiniteSetTheorems

RoomsHere == {r \in Rooms : Has(r)}

\* The counter and the cardinalities make sense: the clerk has finitely many rooms,
\* each with finitely many connections.
FinitelyMany ==
  /\ IsFiniteSet(RoomsHere)
  /\ \A r \in Rooms : Has(r) => IsFiniteSet(rooms[r].conns)

\* A channel a connection listens to is a channel of an existing room, and a
\* connection that is gone listens to none.
HeardChannelsExist ==
  \A c \in Conns, r \in Rooms, ch \in BOOLEAN :
    <<r, ch>> \in channels[c] => c \in alive /\ Has(r) /\ ch \in rooms[r].channels

\* The inductive invariant.  None of its parts is inductive alone: deleting a
\* room decrements the counter, which stays a natural number only if it counts
\* the room; a connection is the last one of a room only as far as rooms and
\* connections agree; an entry of the full state that is changed must exist.
ClerkInv ==
  /\ TypeOK
  /\ RoomsMatchSubscriptions
  /\ RoomsCountExact
  /\ AnnouncedRooms
  /\ FiltersInUse
  /\ ListensToOwnRooms
  /\ FinitelyMany
  /\ HeardChannelsExist

\* What the operations on rooms leave for the other ones.
Aside == /\ alive' = alive
         /\ expired' \in Nat
         /\ joining' \subseteq JoinCall
         /\ removing' \subseteq Removal
-----------------------------------------------------------------------------
LEMMA InitInv == Init => ClerkInv
<1> SUFFICES ASSUME Init PROVE ClerkInv
  OBVIOUS
<1> USE DEF Init
<1>1. TypeOK
  BY DEF TypeOK, State, EmptyState
<1>2. RoomsHere = {}
  BY DEF RoomsHere, Has
<1>3. RoomsCountExact
  BY <1>2, FS_EmptySet, HotelAssumption DEF RoomsCountExact, RoomsHere
<1>4. FinitelyMany
  BY <1>2, FS_EmptySet DEF FinitelyMany, Has
<1>5. RoomsMatchSubscriptions /\ AnnouncedRooms
  BY HotelAssumption DEF RoomsMatchSubscriptions, AnnouncedRooms, Has, EmptyState
<1>6. FiltersInUse
  BY DEF FiltersInUse, Exists, EmptyState
<1>7. ListensToOwnRooms /\ HeardChannelsExist
  BY DEF ListensToOwnRooms, HeardChannelsExist
<1>8. QED
  BY <1>1, <1>3, <1>4, <1>5, <1>6, <1>7 DEF ClerkInv

LEMMA RoomParts ==
  ASSUME NEW room \in Room
  PROVE  room # NoRoom /\ room.conns \subseteq Conns /\ room.channels \subseteq BOOLEAN
  BY NoRoomAssumption DEF Room

\* createRoom leaves a room, its entry in the full state and a counter that
\* counts it; the entries of the others are as before.
LEMMA OpenedProperties ==
  ASSUME ClerkInv, NEW r \in Rooms, CanCreate(r)
  PROVE  LET o == Opened(r) IN
         /\ o.room \in Room
         /\ Has(r) => o.room = rooms[r]
         /\ ~Has(r) => o.room = EmptyRoom
         /\ o.st \in State
         /\ Known(o.st, r, Self)
         /\ \A q \in Rooms, n \in Nodes :
              q # r \/ n # Self => o.st[q][n] = fs[q][n]
         /\ o.sent \in Nat
         /\ o.count \in Nat
         /\ o.count = IF Has(r) THEN roomsCount ELSE roomsCount + 1
         /\ RoomsLimit # 0 => o.count <= RoomsLimit
<1> DEFINE e == [subs |-> 0, mid |-> sent + 1]
<1>1. TypeOK /\ Self \in Nodes /\ RoomsLimit \in Nat
  BY HotelAssumption DEF ClerkInv
<1>2. e \in Entry
  BY <1>1, NewEntry DEF TypeOK
<1>3. CASE Has(r)
  <2>1. rooms[r] \in Room
    BY <1>1, <1>3 DEF TypeOK, Has
  <2>2. Known(fs, r, Self)
    BY <1>3 DEF ClerkInv, AnnouncedRooms, Known
  <2>3. RoomsLimit # 0 => roomsCount <= RoomsLimit
    BY DEF ClerkInv, RoomsCountExact
  <2>4. QED
    BY <1>1, <1>3, <2>1, <2>2, <2>3 DEF Opened, TypeOK
<1>4. CASE ~Has(r)
  <2>1. EmptyRoom \in Room
    BY DEF EmptyRoom, Room
  <2>2. /\ AddRoom(fs, r, Self, e) \in State
        /\ \A q \in Rooms, n \in Nodes :
             AddRoom(fs, r, Self, e)[q][n] = IF q = r /\ n = Self THEN e ELSE fs[q][n]
    BY <1>1, <1>2, AddRoomEntries DEF TypeOK
  <2>3. e # NoEntry
    BY <1>2, EntryParts
  <2>4. RoomsLimit # 0 => roomsCount + 1 <= RoomsLimit
    BY <1>1, <1>4 DEF CanCreate, TypeOK
  <2>5. QED
    BY <1>1, <1>4, <2>1, <2>2, <2>3, <2>4 DEF Opened, TypeOK, Known
<1>5. QED
  BY <1>3, <1>4

\* A room that is created or deleted changes the set of rooms by one, and so the
\* counter.
LEMMA CountAfterOpening ==
  ASSUME ClerkInv, NEW r \in Rooms, RoomsHere' = RoomsHere \cup {r},
         roomsCount' = IF Has(r) THEN roomsCount ELSE roomsCount + 1
  PROVE  IsFiniteSet(RoomsHere') /\ roomsCount' = Cardinality(RoomsHere')
  BY FS_AddElement DEF ClerkInv, FinitelyMany, RoomsCountExact, RoomsHere

LEMMA CountAfterDeletion ==
  ASSUME ClerkInv, NEW r \in Rooms, Has(r), RoomsHere' = RoomsHere \ {r},
         roomsCount' = roomsCount - 1
  PROVE  /\ IsFiniteSet(RoomsHere')
         /\ roomsCount' = Cardinality(RoomsHere')
         /\ roomsCount' \in Nat
<1>1. IsFiniteSet(RoomsHere) /\ roomsCount = Cardinality(RoomsHere) /\ r \in RoomsHere
  BY DEF ClerkInv, FinitelyMany, RoomsCountExact, RoomsHere
<1>2. IsFiniteSet(RoomsHere \ {r})
      /\ Cardinality(RoomsHere \ {r}) = Cardinality(RoomsHere) - 1
  BY <1>1, FS_RemoveElement
<1>3. Cardinality(RoomsHere \ {r}) \in Nat
  BY <1>2, FS_CardinalityType
<1>4. QED
  BY <1>1, <1>2, <1>3
-----------------------------------------------------------------------------
\* createRoom alone, when the channel of the request is refused after it.
LEMMA EnterNoChannelInv ==
  ASSUME ClerkInv, NEW r \in Rooms, CanCreate(r), EnterNoChannel(r), Aside
  PROVE  ClerkInv'
<1> DEFINE o == Opened(r)
<1>1. TypeOK /\ Self \in Nodes
  BY HotelAssumption DEF ClerkInv
<1>2. /\ rooms' = [rooms EXCEPT ![r] = o.room] /\ roomsCount' = o.count
      /\ filters' = filters \cup {r} /\ fs' = o.st /\ sent' = o.sent
      /\ subs' = subs /\ channels' = channels /\ alive' = alive
  BY DEF EnterNoChannel, Aside
<1>3. /\ o.room \in Room
      /\ Has(r) => o.room = rooms[r]
      /\ ~Has(r) => o.room = EmptyRoom
      /\ o.st \in State /\ Known(o.st, r, Self)
      /\ \A q \in Rooms, n \in Nodes : q # r \/ n # Self => o.st[q][n] = fs[q][n]
      /\ o.sent \in Nat /\ o.count \in Nat
      /\ o.count = IF Has(r) THEN roomsCount ELSE roomsCount + 1
      /\ RoomsLimit # 0 => o.count <= RoomsLimit
  BY OpenedProperties
<1> HIDE DEF o
<1>4. TypeOK'
  BY <1>1, <1>2, <1>3 DEF TypeOK, Aside
<1>5. /\ \A q \in Rooms : Has(q)' <=> Has(q) \/ q = r
      /\ \A q \in Rooms : Has(q) => rooms'[q] = rooms[q]
      /\ ~Has(r) => rooms'[r] = EmptyRoom
  BY <1>1, <1>2, <1>3, RoomParts DEF TypeOK, Has
<1>6. RoomsHere' = RoomsHere \cup {r}
  BY <1>5 DEF RoomsHere
<1>7. IsFiniteSet(RoomsHere') /\ roomsCount' = Cardinality(RoomsHere')
  BY <1>2, <1>3, <1>6, CountAfterOpening
<1>8. RoomsCountExact'
  BY <1>2, <1>3, <1>7 DEF RoomsCountExact, RoomsHere
<1>9. FinitelyMany'
  BY <1>5, <1>7, FS_EmptySet DEF FinitelyMany, ClerkInv, EmptyRoom
<1>10. RoomsMatchSubscriptions'
  BY <1>2, <1>5 DEF ClerkInv, RoomsMatchSubscriptions, EmptyRoom
<1>11. AnnouncedRooms'
  BY <1>1, <1>2, <1>3, <1>5 DEF ClerkInv, AnnouncedRooms, Known
<1>12. FiltersInUse'
  <2> SUFFICES ASSUME NEW q \in Rooms
               PROVE  q \in filters' <=> Exists(fs', q)
    BY DEF FiltersInUse
  <2>1. CASE q = r
    BY <1>1, <1>2, <1>3, <2>1 DEF Exists, Known
  <2>2. CASE q # r
    BY <1>2, <1>3, <2>2 DEF Exists, ClerkInv, FiltersInUse
  <2>3. QED
    BY <2>1, <2>2
<1>13. ListensToOwnRooms' /\ HeardChannelsExist'
  BY <1>2, <1>5 DEF ClerkInv, ListensToOwnRooms, HeardChannelsExist
<1>14. QED
  BY <1>4, <1>8, <1>9, <1>10, <1>11, <1>12, <1>13 DEF ClerkInv

\* createRoom and subscribeToRoom.
LEMMA EnterInv ==
  ASSUME ClerkInv, NEW c \in Conns, NEW r \in Rooms, NEW channel \in BOOLEAN,
         NEW tells \in BOOLEAN, CanCreate(r), Enter(c, r, channel, tells), Aside
  PROVE  ClerkInv'
<1> DEFINE o == Opened(r)
           told == tells /\ IsNew(c, r)
<1>1. TypeOK /\ Self \in Nodes
  BY HotelAssumption DEF ClerkInv
<1>2. /\ rooms' = [rooms EXCEPT ![r] = [conns |-> o.room.conns \cup {c},
                                        channels |-> o.room.channels \cup {channel}]]
      /\ roomsCount' = o.count
      /\ subs' = [subs EXCEPT ![c] = @ \cup {r}]
      /\ channels' = [channels EXCEPT ![c] =
                        IF c \in alive THEN @ \cup {<<r, channel>>} ELSE @]
      /\ filters' = filters \cup {r}
      /\ fs' = IF told THEN AddSubscription(o.st, r, Self, o.sent + 1) ELSE o.st
      /\ sent' = o.sent + IF told THEN 1 ELSE 0
      /\ alive' = alive
  BY DEF Enter, Aside
<1>3. /\ o.room \in Room
      /\ Has(r) => o.room = rooms[r]
      /\ ~Has(r) => o.room = EmptyRoom
      /\ o.st \in State /\ Known(o.st, r, Self)
      /\ \A q \in Rooms, n \in Nodes : q # r \/ n # Self => o.st[q][n] = fs[q][n]
      /\ o.sent \in Nat /\ o.count \in Nat
      /\ o.count = IF Has(r) THEN roomsCount ELSE roomsCount + 1
      /\ RoomsLimit # 0 => o.count <= RoomsLimit
  BY OpenedProperties
<1> HIDE DEF o, told
<1>4. /\ fs' \in State /\ Known(fs', r, Self)
      /\ \A q \in Rooms, n \in Nodes : q # r \/ n # Self => fs'[q][n] = fs[q][n]
  <2>1. CASE told
    <3>1. fs' = AddSubscription(o.st, r, Self, o.sent + 1) /\ o.sent + 1 \in Nat
      BY <1>2, <1>3, <2>1
    <3>2. /\ fs' \in State
          /\ \A q \in Rooms, n \in Nodes :
               fs'[q][n] = IF q = r /\ n = Self THEN Bump(o.st[r][Self], 1, o.sent + 1)
                           ELSE o.st[q][n]
      BY <1>1, <1>3, <3>1, SubscriptionEntries
    <3>3. Bump(o.st[r][Self], 1, o.sent + 1) \in Entry
      BY <1>1, <1>3, <3>1, BumpType DEF State, Known
    <3>4. QED
      BY <1>1, <1>3, <3>2, <3>3, EntryParts DEF Known
  <2>2. CASE ~told
    BY <1>2, <1>3, <2>2
  <2>3. QED
    BY <2>1, <2>2
<1>5. rooms'[r] = [conns |-> o.room.conns \cup {c},
                   channels |-> o.room.channels \cup {channel}]
      /\ rooms'[r] \in Room
  BY <1>1, <1>2, <1>3 DEF TypeOK, Room
<1>6. TypeOK'
  <2>1. rooms' \in [Rooms -> Room \cup {NoRoom}]
    BY <1>1, <1>2, <1>5 DEF TypeOK
  <2>2. subs' \in [Conns -> SUBSET Rooms]
        /\ channels' \in [Conns -> SUBSET (Rooms \X BOOLEAN)]
    BY <1>1, <1>2 DEF TypeOK
  <2>3. QED
    BY <1>1, <1>2, <1>3, <1>4, <2>1, <2>2 DEF TypeOK, Aside
<1>7. /\ \A q \in Rooms : Has(q)' <=> Has(q) \/ q = r
      /\ \A q \in Rooms : q # r => rooms'[q] = rooms[q]
  BY <1>1, <1>2, <1>5, RoomParts DEF TypeOK, Has
<1>8. RoomsHere' = RoomsHere \cup {r}
  BY <1>7 DEF RoomsHere
<1>9. IsFiniteSet(RoomsHere') /\ roomsCount' = Cardinality(RoomsHere')
  BY <1>2, <1>3, <1>8, CountAfterOpening
<1>10. RoomsCountExact'
  BY <1>2, <1>3, <1>9 DEF RoomsCountExact, RoomsHere
<1>11. FinitelyMany'
  <2>1. IsFiniteSet(o.room.conns)
    <3>1. CASE Has(r)
      BY <1>3, <3>1 DEF ClerkInv, FinitelyMany
    <3>2. CASE ~Has(r)
      <4>1. o.room.conns = {}
        BY <1>3, <3>2 DEF EmptyRoom
      <4>2. QED
        BY <4>1, FS_EmptySet
    <3>3. QED
      BY <3>1, <3>2
  <2>2. IsFiniteSet(rooms'[r].conns)
    BY <1>5, <2>1, FS_AddElement
  <2>3. QED
    BY <1>7, <1>9, <2>2 DEF ClerkInv, FinitelyMany
<1>12. RoomsMatchSubscriptions'
  BY <1>1, <1>2, <1>3, <1>5, <1>7
     DEF ClerkInv, RoomsMatchSubscriptions, EmptyRoom, TypeOK
<1>13. AnnouncedRooms'
  BY <1>1, <1>4, <1>7 DEF ClerkInv, AnnouncedRooms, Known
<1>14. FiltersInUse'
  <2> SUFFICES ASSUME NEW q \in Rooms
               PROVE  q \in filters' <=> Exists(fs', q)
    BY DEF FiltersInUse
  <2>1. CASE q = r
    BY <1>1, <1>2, <1>4, <2>1 DEF Exists, Known
  <2>2. CASE q # r
    BY <1>2, <1>4, <2>2 DEF Exists, ClerkInv, FiltersInUse
  <2>3. QED
    BY <2>1, <2>2
<1>15. \A d \in Conns, q \in Rooms, ch \in BOOLEAN :
         <<q, ch>> \in channels'[d] <=>
           \/ <<q, ch>> \in channels[d]
           \/ d = c /\ c \in alive /\ q = r /\ ch = channel
  BY <1>1, <1>2 DEF TypeOK
<1>16. ListensToOwnRooms'
  BY <1>1, <1>2, <1>15 DEF ClerkInv, ListensToOwnRooms, TypeOK
<1>17. HeardChannelsExist'
  BY <1>2, <1>3, <1>5, <1>7, <1>15 DEF ClerkInv, HeardChannelsExist
<1>18. QED
  BY <1>6, <1>10, <1>11, <1>12, <1>13, <1>14, <1>16, <1>17 DEF ClerkInv
-----------------------------------------------------------------------------
\* unsubscribe, for a connection that has the room: its last one deletes it.
LEMMA LeaveInv ==
  ASSUME ClerkInv, NEW c \in Conns, NEW r \in Rooms, NEW notify \in BOOLEAN,
         Leave(c, r, notify), Aside
  PROVE  ClerkInv'
<1>1. TypeOK /\ Self \in Nodes
  BY HotelAssumption DEF ClerkInv
<1>2. /\ r \in subs[c] /\ Has(r) /\ c \in rooms[r].conns
      /\ rooms[r] \in Room /\ Known(fs, r, Self)
  BY <1>1 DEF Leave, ClerkInv, RoomsMatchSubscriptions, AnnouncedRooms, Known, TypeOK, Has
<1>3. /\ subs' = [subs EXCEPT ![c] = @ \ {r}]
      /\ channels' = [channels EXCEPT ![c] = @ \ ChannelsOf(r)]
      /\ alive' = alive
  BY DEF Leave, Aside
<1>4. \A d \in Conns, q \in Rooms : q \in subs'[d] <=> q \in subs[d] /\ ~(d = c /\ q = r)
  BY <1>1, <1>3 DEF TypeOK
<1>5. \A d \in Conns, q \in Rooms, ch \in BOOLEAN :
        <<q, ch>> \in channels'[d] <=> <<q, ch>> \in channels[d] /\ ~(d = c /\ q = r)
  BY <1>1, <1>2, <1>3 DEF TypeOK, ChannelsOf, ClerkInv, HeardChannelsExist
<1>6. subs' \in [Conns -> SUBSET Rooms]
      /\ channels' \in [Conns -> SUBSET (Rooms \X BOOLEAN)]
  BY <1>1, <1>3 DEF TypeOK
<1>7. ListensToOwnRooms'
  <2> SUFFICES ASSUME NEW d \in alive, NEW q \in Rooms
               PROVE  q \in subs'[d] <=> \E ch \in BOOLEAN : <<q, ch>> \in channels'[d]
    BY <1>3 DEF ListensToOwnRooms
  <2>1. d \in Conns
    BY <1>1 DEF TypeOK
  <2>2. q \in subs[d] <=> \E ch \in BOOLEAN : <<q, ch>> \in channels[d]
    BY DEF ClerkInv, ListensToOwnRooms
  <2>3. QED
    BY <1>4, <1>5, <2>1, <2>2
<1>8. CASE LastOne(c, r) /\ DeleteRoom(r)
  <2>1. /\ rooms' = [rooms EXCEPT ![r] = NoRoom]
        /\ roomsCount' = roomsCount - 1
        /\ fs' = RemoveRoom(fs, r, Self)
        /\ filters' = FiltersOf(fs', r)
        /\ sent' = sent + 1
    BY <1>8 DEF DeleteRoom
  <2>2. rooms[r].conns = {c}
    BY <1>2, <1>8 DEF LastOne
  <2>3. \A q \in Rooms : /\ Has(q)' <=> Has(q) /\ q # r
                         /\ q # r => rooms'[q] = rooms[q]
    BY <1>1, <2>1 DEF TypeOK, Has
  <2>4. RoomsHere' = RoomsHere \ {r}
    BY <2>3 DEF RoomsHere
  <2>5. /\ IsFiniteSet(RoomsHere') /\ roomsCount' = Cardinality(RoomsHere')
        /\ roomsCount' \in Nat
    BY <1>2, <2>1, <2>4, CountAfterDeletion
  <2>6. /\ fs' \in State
        /\ \A q \in Rooms, n \in Nodes :
             fs'[q][n] = IF q = r /\ n = Self THEN NoEntry ELSE fs[q][n]
    BY <1>1, <2>1, RemoveRoomEntries DEF TypeOK
  <2>7. filters' \subseteq Rooms
        /\ \A q \in Rooms : q \in filters' <=>
                            q \in filters /\ (q # r \/ Exists(fs', r))
    BY <1>1, <2>1 DEF TypeOK, FiltersOf
  <2>8. TypeOK'
    <3>1. rooms' \in [Rooms -> Room \cup {NoRoom}]
      BY <1>1, <2>1 DEF TypeOK
    <3>2. QED
      BY <1>1, <1>6, <2>1, <2>5, <2>6, <2>7, <3>1 DEF TypeOK, Aside
  <2>9. RoomsCountExact'
    BY <1>1, <2>1, <2>5, HotelAssumption DEF RoomsCountExact, RoomsHere, ClerkInv, TypeOK
  <2>10. FinitelyMany'
    BY <2>3, <2>5 DEF ClerkInv, FinitelyMany
  <2>11. RoomsMatchSubscriptions'
    BY <1>4, <2>2, <2>3 DEF ClerkInv, RoomsMatchSubscriptions
  <2>12. AnnouncedRooms'
    BY <1>1, <2>3, <2>6 DEF ClerkInv, AnnouncedRooms
  <2>13. FiltersInUse'
    <3> SUFFICES ASSUME NEW q \in Rooms
                 PROVE  q \in filters' <=> Exists(fs', q)
      BY DEF FiltersInUse
    <3>1. CASE q # r
      BY <2>6, <2>7, <3>1 DEF Exists, ClerkInv, FiltersInUse
    <3>2. CASE q = r
      BY <2>6, <2>7, <3>2 DEF Exists, ClerkInv, FiltersInUse
    <3>3. QED
      BY <3>1, <3>2
  <2>14. HeardChannelsExist'
    <3> SUFFICES ASSUME NEW d \in Conns, NEW q \in Rooms, NEW ch \in BOOLEAN,
                        <<q, ch>> \in channels'[d]
                 PROVE  d \in alive' /\ Has(q)' /\ ch \in rooms'[q].channels
      BY DEF HeardChannelsExist
    <3>1. <<q, ch>> \in channels[d] /\ ~(d = c /\ q = r)
      BY <1>5
    <3>2. d \in alive /\ Has(q) /\ ch \in rooms[q].channels
      BY <3>1 DEF ClerkInv, HeardChannelsExist
    <3>3. q # r
      BY <2>2, <3>1, <3>2 DEF ClerkInv, ListensToOwnRooms, RoomsMatchSubscriptions
    <3>4. QED
      BY <1>3, <2>3, <3>2, <3>3
  <2>15. QED
    BY <1>7, <2>8, <2>9, <2>10, <2>11, <2>12, <2>13, <2>14 DEF ClerkInv
<1>9. CASE ~LastOne(c, r) /\ rooms' = [rooms EXCEPT ![r].conns = @ \ {c}]
  <2>1. /\ fs' = IF notify THEN RemoveSubscription(fs, r, Self, sent + 1) ELSE fs
        /\ sent' = sent + IF notify THEN 1 ELSE 0
        /\ roomsCount' = roomsCount /\ filters' = filters
    BY <1>9 DEF Leave
  <2>2. /\ fs' \in State /\ Known(fs', r, Self)
        /\ \A q \in Rooms, n \in Nodes : q # r \/ n # Self => fs'[q][n] = fs[q][n]
    <3>1. CASE notify
      <4>1. fs' = RemoveSubscription(fs, r, Self, sent + 1) /\ sent + 1 \in Nat
        BY <1>1, <2>1, <3>1 DEF TypeOK
      <4>2. /\ fs' \in State
            /\ \A q \in Rooms, n \in Nodes :
                 fs'[q][n] = IF q = r /\ n = Self THEN Bump(fs[r][Self], -1, sent + 1)
                             ELSE fs[q][n]
        BY <1>1, <1>2, <4>1, SubscriptionEntries DEF TypeOK
      <4>3. Bump(fs[r][Self], -1, sent + 1) \in Entry
        BY <1>1, <1>2, <4>1, BumpType DEF State, Known, TypeOK
      <4>4. QED
        BY <1>1, <4>2, <4>3, EntryParts DEF Known
    <3>2. CASE ~notify
      BY <1>1, <1>2, <2>1, <3>2 DEF TypeOK
    <3>3. QED
      BY <3>1, <3>2
  <2>3. rooms'[r] = [conns |-> rooms[r].conns \ {c}, channels |-> rooms[r].channels]
        /\ rooms'[r] \in Room
    BY <1>1, <1>2, <1>9 DEF Room, TypeOK
  <2>4. TypeOK'
    <3>1. rooms' \in [Rooms -> Room \cup {NoRoom}]
      BY <1>1, <1>9, <2>3 DEF TypeOK
    <3>2. QED
      BY <1>1, <1>6, <2>1, <2>2, <3>1 DEF TypeOK, Aside
  <2>5. \A q \in Rooms : /\ Has(q)' <=> Has(q)
                         /\ q # r => rooms'[q] = rooms[q]
    BY <1>1, <1>2, <1>9, <2>3, RoomParts DEF TypeOK, Has
  <2>6. RoomsHere' = RoomsHere
    BY <2>5 DEF RoomsHere
  <2>7. RoomsCountExact'
    BY <2>1, <2>6 DEF RoomsCountExact, RoomsHere, ClerkInv
  <2>8. FinitelyMany'
    <3>1. IsFiniteSet(rooms'[r].conns)
      BY <1>2, <2>3, FS_RemoveElement DEF ClerkInv, FinitelyMany
    <3>2. QED
      BY <2>5, <2>6, <3>1 DEF ClerkInv, FinitelyMany
  <2>9. RoomsMatchSubscriptions'
    BY <1>2, <1>4, <2>3, <2>5 DEF ClerkInv, RoomsMatchSubscriptions
  <2>10. AnnouncedRooms'
    BY <1>1, <1>2, <2>2, <2>5 DEF ClerkInv, AnnouncedRooms, Known
  <2>11. FiltersInUse'
    <3> SUFFICES ASSUME NEW q \in Rooms
                 PROVE  q \in filters' <=> Exists(fs', q)
      BY DEF FiltersInUse
    <3>1. CASE q = r
      BY <1>1, <1>2, <2>1, <2>2, <3>1 DEF Exists, Known, ClerkInv, FiltersInUse
    <3>2. CASE q # r
      BY <2>1, <2>2, <3>2 DEF Exists, ClerkInv, FiltersInUse
    <3>3. QED
      BY <3>1, <3>2
  <2>12. HeardChannelsExist'
    BY <1>3, <1>5, <2>3, <2>5 DEF ClerkInv, HeardChannelsExist
  <2>13. QED
    BY <1>7, <2>4, <2>7, <2>8, <2>9, <2>10, <2>11, <2>12 DEF ClerkInv
<1>10. QED
  BY <1>8, <1>9 DEF Leave
-----------------------------------------------------------------------------
\* Steps that leave rooms, subscriptions and the full state as they are.
LEMMA AsideInv ==
  ASSUME ClerkInv, Aside,
         UNCHANGED <<rooms, roomsCount, subs, channels, fs, filters, sent>>
  PROVE  ClerkInv'
<1>1. TypeOK'
  BY DEF ClerkInv, Aside, TypeOK
<1>2. RoomsCountExact' /\ FinitelyMany'
  BY DEF ClerkInv, RoomsCountExact, FinitelyMany, RoomsHere, Has
<1>3. RoomsMatchSubscriptions' /\ AnnouncedRooms' /\ FiltersInUse'
  BY DEF ClerkInv, RoomsMatchSubscriptions, AnnouncedRooms, FiltersInUse, Has
<1>4. ListensToOwnRooms' /\ HeardChannelsExist'
  BY DEF ClerkInv, Aside, ListensToOwnRooms, HeardChannelsExist, Has
<1>5. QED
  BY <1>1, <1>2, <1>3, <1>4 DEF ClerkInv

\* removeConnection only lists the rooms.
LEMMA StartRemovalType ==
  ASSUME TypeOK, NEW c \in Conns, StartRemoval(c)
  PROVE  removing' \subseteq Removal
  BY DEF TypeOK, StartRemoval, Removal

LEMMA DisconnectInv ==
  ASSUME ClerkInv, NEW c \in Conns, Disconnect(c)
  PROVE  ClerkInv'
<1>1. TypeOK
  BY DEF ClerkInv
<1>2. /\ alive' = alive \ {c}
      /\ channels' = [channels EXCEPT ![c] = {}]
      /\ UNCHANGED <<rooms, roomsCount, subs, fs, filters, sent, joining, expired>>
      /\ removing' \subseteq Removal
  BY <1>1, StartRemovalType DEF Disconnect
<1>3. TypeOK'
  BY <1>1, <1>2 DEF TypeOK
<1>4. \A d \in Conns : channels'[d] = IF d = c THEN {} ELSE channels[d]
  BY <1>1, <1>2 DEF TypeOK
<1>5. ListensToOwnRooms' /\ HeardChannelsExist'
  BY <1>2, <1>4 DEF ClerkInv, ListensToOwnRooms, HeardChannelsExist, Has
<1>6. QED
  BY <1>2, <1>3, <1>5
     DEF ClerkInv, RoomsMatchSubscriptions, RoomsCountExact, AnnouncedRooms,
         FiltersInUse, FinitelyMany, RoomsHere, Has

\* A sync message changes the entry of another node, and the filters with it.
LEMMA RemoteInv ==
  ASSUME ClerkInv, NEW n \in Nodes, NEW r \in Rooms,
         RemoteOpen(n, r) \/ RemoteClose(n, r)
  PROVE  ClerkInv'
<1>1. TypeOK /\ Self \in Nodes /\ n # Self
  BY HotelAssumption DEF ClerkInv, RemoteOpen, RemoteClose
<1>2. UNCHANGED <<alive, rooms, roomsCount, subs, channels, sent, joining,
                  removing, expired>>
  BY DEF RemoteOpen, RemoteClose
<1>3. /\ fs' \in State
      /\ \A q \in Rooms, m \in Nodes : q # r \/ m # n => fs'[q][m] = fs[q][m]
      /\ filters' \subseteq Rooms
      /\ \A q \in Rooms : q # r => (q \in filters' <=> q \in filters)
      /\ r \in filters' <=> Exists(fs', r)
  <2>1. CASE RemoteOpen(n, r)
    <3> DEFINE e == [subs |-> 1, mid |-> 1]
    <3>1. e \in Entry /\ e # NoEntry
      BY NewEntry, EntryParts
    <3>2. /\ fs' \in State
          /\ \A q \in Rooms, m \in Nodes :
               fs'[q][m] = IF q = r /\ m = n THEN e ELSE fs[q][m]
      BY <1>1, <2>1, <3>1, AddRoomEntries DEF RemoteOpen, TypeOK
    <3>3. filters' = filters \cup {r}
      BY <2>1 DEF RemoteOpen
    <3>4. QED
      BY <1>1, <3>1, <3>2, <3>3 DEF TypeOK, Exists
  <2>2. CASE RemoteClose(n, r)
    <3>1. /\ fs' \in State
          /\ \A q \in Rooms, m \in Nodes :
               fs'[q][m] = IF q = r /\ m = n THEN NoEntry ELSE fs[q][m]
      BY <1>1, <2>2, RemoveRoomEntries DEF RemoteClose, TypeOK
    <3>2. r \in filters
      BY <2>2 DEF RemoteClose, Known, ClerkInv, FiltersInUse, Exists
    <3>3. filters' = IF Exists(fs', r) THEN filters ELSE filters \ {r}
      BY <2>2 DEF RemoteClose, FiltersOf
    <3>4. QED
      BY <1>1, <3>1, <3>2, <3>3 DEF TypeOK
  <2>3. QED
    BY <2>1, <2>2
<1>4. TypeOK'
  BY <1>1, <1>2, <1>3 DEF TypeOK
<1>5. AnnouncedRooms'
  BY <1>1, <1>2, <1>3 DEF ClerkInv, AnnouncedRooms, Has
<1>6. FiltersInUse'
  BY <1>3 DEF ClerkInv, FiltersInUse, Exists
<1>7. QED
  BY <1>2, <1>4, <1>5, <1>6
     DEF ClerkInv, RoomsMatchSubscriptions, RoomsCountExact, ListensToOwnRooms,
         FinitelyMany, HeardChannelsExist, RoomsHere, Has
-----------------------------------------------------------------------------
LEMMA NextInv == ClerkInv /\ [Next]_clerkVars => ClerkInv'
<1> SUFFICES ASSUME ClerkInv, [Next]_clerkVars PROVE ClerkInv'
  OBVIOUS
<1>1. TypeOK /\ Propagates \subseteq BOOLEAN /\ Notifies \subseteq BOOLEAN
  BY HotelAssumption DEF ClerkInv
<1>2. ASSUME NEW c \in Conns, Disconnect(c)
      PROVE  ClerkInv'
  BY <1>2, DisconnectInv
<1>3. ASSUME NEW c \in Conns, TokenExpired(c)
      PROVE  ClerkInv'
  <2>1. Aside
    BY <1>1, <1>3, StartRemovalType DEF TokenExpired, Aside, TypeOK
  <2>2. QED
    BY <1>3, <2>1, AsideInv DEF TokenExpired
<1>4. ASSUME NEW c \in Conns, NEW r \in Rooms, Subscribe(c, r)
      PROVE  ClerkInv'
  <2>1. Aside /\ CanCreate(r)
    BY <1>1, <1>4 DEF Subscribe, Aside, TypeOK
  <2>2. ASSUME NEW channel \in Propagates, Enter(c, r, channel, TRUE)
        PROVE  ClerkInv'
    BY <1>1, <2>1, <2>2, EnterInv
  <2>3. CASE EnterNoChannel(r)
    BY <2>1, <2>3, EnterNoChannelInv
  <2>4. QED
    BY <1>4, <2>2, <2>3 DEF Subscribe
<1>5. ASSUME NEW c \in Conns, NEW r \in Rooms, Unsubscribe(c, r)
      PROVE  ClerkInv'
  <2>1. Aside
    BY <1>1, <1>5 DEF Unsubscribe, Aside, TypeOK
  <2>2. QED
    BY <1>1, <1>5, <2>1, LeaveInv DEF Unsubscribe
<1>6. ASSUME NEW c \in Conns, NEW r \in Rooms, NEW p \in Propagates, Join(c, r, p)
      PROVE  ClerkInv'
  <2>1. [conn |-> c, room |-> r, propagate |-> p, asked |-> FALSE] \in JoinCall
    BY <1>1 DEF JoinCall
  <2>2. Aside
    BY <1>1, <1>6, <2>1 DEF Join, Aside, TypeOK
  <2>3. QED
    BY <1>6, <2>2, AsideInv DEF Join
<1>7. ASSUME NEW j \in joining, JoinAsk(j)
      PROVE  ClerkInv'
  <2>1. j \in JoinCall
    BY <1>1 DEF TypeOK
  <2>2. [j EXCEPT !.asked = TRUE] \in JoinCall
    BY <2>1 DEF JoinCall
  <2>3. Aside
    BY <1>1, <1>7, <2>2 DEF JoinAsk, Aside, TypeOK
  <2>4. QED
    BY <1>7, <2>3, AsideInv DEF JoinAsk
<1>8. ASSUME NEW j \in joining, JoinRoom(j)
      PROVE  ClerkInv'
  <2>1. j.conn \in Conns /\ j.room \in Rooms /\ j.propagate \in BOOLEAN
    BY <1>1 DEF TypeOK, JoinCall
  <2>2. Aside
    BY <1>1, <1>8 DEF JoinRoom, Aside, TypeOK
  <2>3. CASE CanCreate(j.room) /\ Enter(j.conn, j.room, j.propagate, j.propagate)
    BY <2>1, <2>2, <2>3, EnterInv
  <2>4. CASE UNCHANGED <<rooms, roomsCount, subs, channels, fs, filters, sent>>
    BY <2>2, <2>4, AsideInv
  <2>5. CASE CanCreate(j.room) /\ EnterNoChannel(j.room)
    BY <2>1, <2>2, <2>5, EnterNoChannelInv
  <2>6. QED
    BY <1>8, <2>3, <2>4, <2>5 DEF JoinRoom
<1>9. ASSUME NEW removal \in removing, RemoveNext(removal)
      PROVE  ClerkInv'
  <2>1. removal \in Removal
    BY <1>1 DEF TypeOK
  <2>2. PICK r \in removal.rooms :
          /\ removing' = (removing \ {removal}) \cup
               IF removal.rooms = {r} THEN {}
               ELSE {[removal EXCEPT !.rooms = @ \ {r}]}
          /\ \/ Leave(removal.conn, r, TRUE)
             \/ UNCHANGED <<rooms, roomsCount, subs, channels, fs, filters, sent>>
    BY <1>9 DEF RemoveNext
  <2>3. [removal EXCEPT !.rooms = @ \ {r}] \in Removal
    BY <2>1 DEF Removal
  <2>4. Aside
    BY <1>1, <1>9, <2>2, <2>3 DEF RemoveNext, Aside, TypeOK
  <2>5. removal.conn \in Conns /\ r \in Rooms
    BY <2>1, <2>2 DEF Removal
  <2>6. QED
    BY <2>2, <2>4, <2>5, LeaveInv, AsideInv
<1>10. ASSUME NEW n \in Nodes, NEW r \in Rooms, RemoteOpen(n, r) \/ RemoteClose(n, r)
       PROVE  ClerkInv'
  BY <1>10, RemoteInv
<1>11. CASE UNCHANGED clerkVars
  BY <1>1, <1>11, AsideInv DEF clerkVars, Aside, TypeOK
<1>12. QED
  BY <1>2, <1>3, <1>4, <1>5, <1>6, <1>7, <1>8, <1>9, <1>10, <1>11 DEF Next

\* The inductive invariant holds of every behaviour of the clerk.
THEOREM ClerkCorrect == Spec => []ClerkInv
<1>1. Init => ClerkInv
  BY InitInv
<1>2. ClerkInv /\ [Next]_clerkVars => ClerkInv'
  BY NextInv
<1>3. QED
  BY <1>1, <1>2, PTL DEF Spec

\* Type correctness of the clerk's tables (hotelClerk.ts, state.ts).
THEOREM TypeCorrect == Spec => []TypeOK
  BY ClerkCorrect, PTL DEF ClerkInv

\* The clerk's view by room and its view by connection agree in every state,
\* whatever connections vanish while joins and removals are under way.
THEOREM ViewsAgree == Spec => []RoomsMatchSubscriptions
  BY ClerkCorrect, PTL DEF ClerkInv

\* The counter behind limits.subscriptionRooms is exact, for any limit.
THEOREM LimitExact == Spec => []RoomsCountExact
  BY ClerkCorrect, PTL DEF ClerkInv

\* The cluster's full state lists this node in exactly the rooms it has.
THEOREM RoomsAnnounced == Spec => []AnnouncedRooms
  BY ClerkCorrect, PTL DEF ClerkInv

\* Koncorde holds the filters of exactly the rooms in use somewhere.
THEOREM FiltersExact == Spec => []FiltersInUse
  BY ClerkCorrect, PTL DEF ClerkInv

\* A live connection hears the rooms it subscribed to, and no other.
THEOREM HearsOwnRooms == Spec => []ListensToOwnRooms
  BY ClerkCorrect, PTL DEF ClerkInv
-----------------------------------------------------------------------------
(***************************************************************************)
(* What the node tells the cluster, when realtime:join always propagates.  *)
(* The number it announced for a room covers the connections it has in it, *)
(* and is that number when plugins always notify their unsubscriptions.    *)
(***************************************************************************)
AlwaysNotifies == FALSE \notin Notifies

CountInv ==
  /\ \A j \in joining : j.propagate \in Propagates
  /\ \A r \in Rooms : Has(r) =>
       /\ fs[r][Self].mid <= sent
       /\ Cardinality(rooms[r].conns) <= fs[r][Self].subs
       /\ AlwaysNotifies => fs[r][Self].subs = Cardinality(rooms[r].conns)

\* The facts about a state that the step lemmas below need.
LEMMA OwnEntry ==
  ASSUME ClerkInv, NEW r \in Rooms
  PROVE  /\ Self \in Nodes /\ sent \in Nat /\ fs \in State
         /\ Has(r) => /\ fs[r][Self] \in Entry
                      /\ fs[r][Self].subs \in Int /\ fs[r][Self].mid \in Nat
                      /\ rooms[r] \in Room
                      /\ IsFiniteSet(rooms[r].conns)
                      /\ Cardinality(rooms[r].conns) \in Nat
         /\ ~Has(r) => fs[r][Self] = NoEntry
<1>1. Self \in Nodes /\ sent \in Nat /\ fs \in State
  BY HotelAssumption DEF ClerkInv, TypeOK
<1>2. ASSUME Has(r)
      PROVE  fs[r][Self] \in Entry /\ rooms[r] \in Room /\ IsFiniteSet(rooms[r].conns)
  BY <1>1, <1>2 DEF ClerkInv, TypeOK, AnnouncedRooms, FinitelyMany, State, Has
<1>3. ~Has(r) => fs[r][Self] = NoEntry
  BY DEF ClerkInv, AnnouncedRooms
<1>4. QED
  BY <1>1, <1>2, <1>3, EntryParts, FS_CardinalityType

\* One entry of the node changes: this is how RoomEntries sees it.
LEMMA OwnEntryChanged ==
  ASSUME NEW r \in Rooms,
         \A q \in Rooms : q # r => fs'[q][Self] = fs[q][Self]
  PROVE  EntriesOf(fs, Self)' = [EntriesOf(fs, Self) EXCEPT ![r] = fs'[r][Self]]
  BY DEF EntriesOf

\* A subscription that is announced: of a room it creates, of a room that is
\* there, or of a connection that was in the room already.
LEMMA EnterAnnounced ==
  ASSUME ClerkInv, NEW c \in Conns, NEW r \in Rooms, NEW channel \in BOOLEAN,
         CanCreate(r), Enter(c, r, channel, TRUE)
  PROVE  /\ \A q \in Rooms : q # r => rooms'[q] = rooms[q] /\ fs'[q][Self] = fs[q][Self]
         /\ rooms'[r] # NoRoom
         /\ ~Has(r) => /\ fs'[r][Self] = [subs |-> 1, mid |-> sent + 2]
                       /\ sent' = sent + 2
                       /\ rooms'[r].conns = {c}
         /\ Has(r) /\ r \notin subs[c] =>
              /\ fs'[r][Self] = Bump(fs[r][Self], 1, sent + 1)
              /\ sent' = sent + 1
              /\ rooms'[r].conns = rooms[r].conns \cup {c}
         /\ Has(r) /\ r \in subs[c] =>
              /\ fs'[r][Self] = fs[r][Self]
              /\ sent' = sent
              /\ rooms'[r].conns = rooms[r].conns
<1> DEFINE o == Opened(r)
<1>1. TypeOK
  BY DEF ClerkInv
<1>2. /\ rooms' = [rooms EXCEPT ![r] = [conns |-> o.room.conns \cup {c},
                                        channels |-> o.room.channels \cup {channel}]]
      /\ fs' = IF r \notin subs[c] THEN AddSubscription(o.st, r, Self, o.sent + 1)
               ELSE o.st
      /\ sent' = o.sent + IF r \notin subs[c] THEN 1 ELSE 0
  BY DEF Enter, IsNew
<1>3. /\ o.room \in Room /\ o.st \in State /\ Known(o.st, r, Self) /\ o.sent \in Nat
      /\ \A q \in Rooms, n \in Nodes : q # r \/ n # Self => o.st[q][n] = fs[q][n]
  BY OpenedProperties
<1>4. Self \in Nodes /\ sent \in Nat /\ fs \in State
  BY OwnEntry
<1>5. \A q \in Rooms : /\ AddSubscription(o.st, r, Self, o.sent + 1)[q][Self] =
                            IF q = r THEN Bump(o.st[r][Self], 1, o.sent + 1)
                            ELSE o.st[q][Self]
  BY <1>3, <1>4, SubscriptionEntries
<1>6. CASE ~Has(r)
  <2> DEFINE e == [subs |-> 0, mid |-> sent + 1]
  <2>1. /\ o.room = EmptyRoom /\ o.sent = sent + 1
        /\ o.st = AddRoom(fs, r, Self, e)
    BY <1>6 DEF Opened
  <2>2. r \notin subs[c]
    BY <1>6 DEF ClerkInv, RoomsMatchSubscriptions
  <2>3. o.st[r][Self] = e
    BY <1>4, <2>1, NewEntry, AddRoomEntries
  <2>4. Bump(e, 1, sent + 1 + 1) = [subs |-> 1, mid |-> sent + 2]
    BY <1>4 DEF Bump
  <2> HIDE DEF o, e
  <2>5. rooms'[r] = [conns |-> {} \cup {c}, channels |-> {} \cup {channel}]
        /\ \A q \in Rooms : q # r => rooms'[q] = rooms[q]
    BY <1>1, <1>2, <2>1 DEF EmptyRoom, TypeOK
  <2>6. rooms'[r] # NoRoom /\ rooms'[r].conns = {c}
    <3>1. rooms'[r] \in Room
      BY <2>5 DEF Room
    <3>2. QED
      BY <2>5, <3>1, RoomParts
  <2>7. /\ fs' = AddSubscription(o.st, r, Self, o.sent + 1)
        /\ sent' = sent + 2
    BY <1>2, <1>4, <2>1, <2>2
  <2>8. fs'[r][Self] = [subs |-> 1, mid |-> sent + 2]
    BY <1>5, <2>1, <2>3, <2>4, <2>7
  <2>9. \A q \in Rooms : q # r => fs'[q][Self] = fs[q][Self]
    BY <1>3, <1>4, <1>5, <2>7
  <2>10. QED
    BY <1>6, <2>5, <2>6, <2>7, <2>8, <2>9
<1>7. CASE Has(r)
  <2>1. /\ o.room = rooms[r] /\ o.sent = sent /\ o.st = fs
    BY <1>7 DEF Opened
  <2> HIDE DEF o
  <2>2. fs[r][Self] \in Entry /\ fs[r][Self].mid \in Nat
    BY <1>7, OwnEntry
  <2>3. rooms'[r] = [conns |-> rooms[r].conns \cup {c},
                     channels |-> rooms[r].channels \cup {channel}]
        /\ \A q \in Rooms : q # r => rooms'[q] = rooms[q]
    BY <1>1, <1>2, <2>1 DEF TypeOK
  <2>4. rooms'[r] # NoRoom /\ rooms'[r].conns = rooms[r].conns \cup {c}
    <3>1. rooms'[r] \in Room
      BY <1>3, <2>1, <2>3 DEF Room
    <3>2. QED
      BY <2>3, <3>1, RoomParts
  <2>5. CASE r \notin subs[c]
    <3>1. fs' = AddSubscription(fs, r, Self, sent + 1) /\ sent' = sent + 1
      BY <1>2, <1>4, <2>1, <2>5
    <3>2. \A q \in Rooms : fs'[q][Self] =
                            IF q = r THEN Bump(fs[r][Self], 1, sent + 1) ELSE fs[q][Self]
      BY <1>5, <2>1, <3>1
    <3>3. QED
      BY <1>7, <2>3, <2>4, <2>5, <3>1, <3>2
  <2>6. CASE r \in subs[c]
    <3>1. fs' = fs /\ sent' = sent
      BY <1>2, <1>4, <2>1, <2>6
    <3>2. rooms[r].conns \cup {c} = rooms[r].conns
      BY <2>6 DEF ClerkInv, RoomsMatchSubscriptions
    <3>3. QED
      BY <1>7, <2>3, <2>4, <2>6, <3>1, <3>2
  <2>7. QED
    BY <2>5, <2>6
<1>8. QED
  BY <1>6, <1>7

\* createRoom alone.
LEMMA EnterNoChannelAnnounced ==
  ASSUME ClerkInv, NEW r \in Rooms, CanCreate(r), EnterNoChannel(r)
  PROVE  /\ \A q \in Rooms : q # r => rooms'[q] = rooms[q] /\ fs'[q][Self] = fs[q][Self]
         /\ rooms'[r] # NoRoom
         /\ ~Has(r) => /\ fs'[r][Self] = [subs |-> 0, mid |-> sent + 1]
                       /\ sent' = sent + 1
                       /\ rooms'[r].conns = {}
         /\ Has(r) => /\ fs'[r][Self] = fs[r][Self]
                      /\ sent' = sent
                      /\ rooms'[r].conns = rooms[r].conns
<1> DEFINE e == [subs |-> 0, mid |-> sent + 1]
<1>1. Self \in Nodes /\ sent \in Nat /\ fs \in State /\ e \in Entry
  BY OwnEntry, NewEntry
<1>2. TypeOK
  BY DEF ClerkInv
<1>3. CASE ~Has(r)
  <2>1. /\ rooms' = [rooms EXCEPT ![r] = EmptyRoom]
        /\ fs' = AddRoom(fs, r, Self, e) /\ sent' = sent + 1
    BY <1>3 DEF EnterNoChannel, Opened
  <2>2. \A q \in Rooms : fs'[q][Self] = IF q = r THEN e ELSE fs[q][Self]
    BY <1>1, <2>1, AddRoomEntries
  <2>3. EmptyRoom \in Room /\ EmptyRoom.conns = {}
    BY DEF EmptyRoom, Room
  <2>4. rooms'[r] = EmptyRoom /\ \A q \in Rooms : q # r => rooms'[q] = rooms[q]
    BY <1>2, <2>1 DEF TypeOK
  <2>5. rooms'[r] # NoRoom /\ rooms'[r].conns = {}
    BY <2>3, <2>4, RoomParts
  <2>6. QED
    BY <1>3, <2>1, <2>2, <2>4, <2>5
<1>4. CASE Has(r)
  <2>1. rooms' = rooms /\ fs' = fs /\ sent' = sent
    BY <1>2, <1>4 DEF EnterNoChannel, Opened, TypeOK
  <2>2. QED
    BY <1>4, <2>1 DEF Has
<1>5. QED
  BY <1>3, <1>4

\* An unsubscription.
LEMMA LeaveAnnounced ==
  ASSUME ClerkInv, NEW c \in Conns, NEW r \in Rooms, NEW notify \in BOOLEAN,
         Leave(c, r, notify)
  PROVE  /\ \A q \in Rooms : q # r => rooms'[q] = rooms[q] /\ fs'[q][Self] = fs[q][Self]
         /\ Has(r) /\ c \in rooms[r].conns
         /\ \/ /\ rooms'[r] = NoRoom /\ fs'[r][Self] = NoEntry
               /\ sent' = sent + 1
            \/ /\ rooms'[r] # NoRoom /\ rooms[r].conns # {c}
               /\ rooms'[r].conns = rooms[r].conns \ {c}
               /\ fs'[r][Self] = IF notify THEN Bump(fs[r][Self], -1, sent + 1)
                                 ELSE fs[r][Self]
               /\ sent' = IF notify THEN sent + 1 ELSE sent
<1>1. TypeOK
  BY DEF ClerkInv
<1>2. Has(r) /\ c \in rooms[r].conns
  BY DEF Leave, ClerkInv, RoomsMatchSubscriptions
<1>3. /\ Self \in Nodes /\ sent \in Nat /\ fs \in State
      /\ rooms[r] \in Room /\ fs[r][Self] \in Entry
  BY <1>2, OwnEntry
<1>4. Known(fs, r, Self)
  BY <1>3, EntryParts DEF Known
<1>5. CASE LastOne(c, r) /\ DeleteRoom(r)
  <2>1. /\ rooms' = [rooms EXCEPT ![r] = NoRoom]
        /\ fs' = RemoveRoom(fs, r, Self) /\ sent' = sent + 1
    BY <1>5 DEF DeleteRoom
  <2>2. \A q \in Rooms : fs'[q][Self] = IF q = r THEN NoEntry ELSE fs[q][Self]
    BY <1>3, <2>1, RemoveRoomEntries
  <2>3. rooms'[r] = NoRoom /\ \A q \in Rooms : q # r => rooms'[q] = rooms[q]
    BY <1>1, <2>1 DEF TypeOK
  <2>4. QED
    BY <1>2, <2>1, <2>2, <2>3
<1>6. CASE ~LastOne(c, r) /\ rooms' = [rooms EXCEPT ![r].conns = @ \ {c}]
  <2>1. /\ fs' = IF notify THEN RemoveSubscription(fs, r, Self, sent + 1) ELSE fs
        /\ sent' = IF notify THEN sent + 1 ELSE sent
    BY <1>3, <1>6 DEF Leave, LastOne
  <2>2. \A q \in Rooms : RemoveSubscription(fs, r, Self, sent + 1)[q][Self] =
                           IF q = r THEN Bump(fs[r][Self], -1, sent + 1)
                           ELSE fs[q][Self]
    BY <1>3, <1>4, SubscriptionEntries
  <2>3. \A q \in Rooms : fs'[q][Self] =
          IF q = r /\ notify THEN Bump(fs[r][Self], -1, sent + 1) ELSE fs[q][Self]
    BY <2>1, <2>2
  <2>4. rooms[r].conns # {c}
    BY <1>6 DEF LastOne
  <2>5. rooms'[r] = [conns |-> rooms[r].conns \ {c}, channels |-> rooms[r].channels]
        /\ \A q \in Rooms : q # r => rooms'[q] = rooms[q]
    BY <1>1, <1>2, <1>3, <1>6 DEF TypeOK, Room
  <2>6. rooms'[r] # NoRoom /\ rooms'[r].conns = rooms[r].conns \ {c}
    <3>1. rooms'[r] \in Room
      BY <1>3, <2>5 DEF Room
    <3>2. rooms'[r] # NoRoom
      BY <3>1, RoomParts
    <3>3. rooms'[r].conns = rooms[r].conns \ {c}
      BY <2>5
    <3>4. QED
      BY <3>2, <3>3
  <2>7. QED
    BY <1>2, <2>1, <2>3, <2>4, <2>5, <2>6
<1>7. QED
  BY <1>5, <1>6 DEF Leave
-----------------------------------------------------------------------------
EntriesStep == Entries!Next \/ UNCHANGED <<EntriesOf(fs, Self), sent>>

Bound(r) == /\ fs[r][Self].mid <= sent
            /\ Cardinality(rooms[r].conns) <= fs[r][Self].subs
            /\ AlwaysNotifies => fs[r][Self].subs = Cardinality(rooms[r].conns)

\* What the steps below have in common: one room changes, and its bound holds.
LEMMA OneRoomCounts ==
  ASSUME ClerkInv, CountInv, NEW r \in Rooms,
         \A j \in joining' : j.propagate \in Propagates,
         \A q \in Rooms : q # r => rooms'[q] = rooms[q] /\ fs'[q][Self] = fs[q][Self],
         sent' \in Nat, sent <= sent',
         Has(r)' => Bound(r)'
  PROVE  CountInv'
<1> SUFFICES ASSUME NEW q \in Rooms, Has(q)'
             PROVE  Bound(q)'
  BY DEF CountInv, Bound
<1>1. CASE q = r
  BY <1>1
<1>2. CASE q # r
  <2>1. Has(q) /\ Bound(q)
    BY <1>2 DEF CountInv, Bound, Has
  <2>2. fs[q][Self].mid \in Nat /\ sent \in Nat
    BY <2>1, OwnEntry
  <2>3. rooms'[q] = rooms[q] /\ fs'[q][Self] = fs[q][Self]
    BY <1>2
  <2>4. QED
    BY <2>1, <2>2, <2>3 DEF Bound
<1>3. QED
  BY <1>1, <1>2

LEMMA EnterCounts ==
  ASSUME ClerkInv, CountInv, NEW c \in Conns, NEW r \in Rooms,
         NEW channel \in BOOLEAN, CanCreate(r), Enter(c, r, channel, TRUE),
         \A j \in joining' : j.propagate \in Propagates
  PROVE  CountInv' /\ EntriesStep
<1>1. /\ \A q \in Rooms : q # r => rooms'[q] = rooms[q] /\ fs'[q][Self] = fs[q][Self]
      /\ rooms'[r] # NoRoom
      /\ ~Has(r) => /\ fs'[r][Self] = [subs |-> 1, mid |-> sent + 2]
                    /\ sent' = sent + 2
                    /\ rooms'[r].conns = {c}
      /\ Has(r) /\ r \notin subs[c] =>
           /\ fs'[r][Self] = Bump(fs[r][Self], 1, sent + 1)
           /\ sent' = sent + 1
           /\ rooms'[r].conns = rooms[r].conns \cup {c}
      /\ Has(r) /\ r \in subs[c] =>
           /\ fs'[r][Self] = fs[r][Self]
           /\ sent' = sent
           /\ rooms'[r].conns = rooms[r].conns
  BY EnterAnnounced
<1>2. EntriesOf(fs, Self)' = [EntriesOf(fs, Self) EXCEPT ![r] = fs'[r][Self]]
      /\ EntriesOf(fs, Self)[r] = fs[r][Self]
  BY <1>1, OwnEntryChanged DEF EntriesOf
<1>3. sent \in Nat
  BY OwnEntry
<1>4. CASE ~Has(r)
  <2>1. Cardinality(rooms'[r].conns) = 1
    BY <1>1, <1>4, FS_Singleton
  <2>2. Bound(r)'
    <3>1. fs'[r][Self].subs = 1 /\ fs'[r][Self].mid = sent'
      BY <1>1, <1>4
    <3>2. QED
      BY <1>1, <1>3, <1>4, <2>1, <3>1 DEF Bound
  <2>3. Entries!OpenAndSubscribe(r)
    BY <1>1, <1>2, <1>4, OwnEntry DEF Entries!OpenAndSubscribe
  <2>4. CountInv'
    BY <1>1, <1>3, <1>4, <2>2, OneRoomCounts
  <2>5. QED
    BY <2>3, <2>4 DEF EntriesStep, Entries!Next
<1>5. CASE Has(r) /\ r \notin subs[c]
  <2>1. /\ fs[r][Self] \in Entry /\ fs[r][Self].subs \in Int
        /\ fs[r][Self].mid \in Nat
        /\ IsFiniteSet(rooms[r].conns) /\ Cardinality(rooms[r].conns) \in Nat
        /\ c \notin rooms[r].conns /\ Bound(r)
    BY <1>5, OwnEntry DEF CountInv, Bound, ClerkInv, RoomsMatchSubscriptions
  <2>2. fs'[r][Self] = [subs |-> fs[r][Self].subs + 1, mid |-> sent + 1]
    BY <1>1, <1>3, <1>5, <2>1 DEF Bump, Bound
  <2>3. Cardinality(rooms'[r].conns) = Cardinality(rooms[r].conns) + 1
    BY <1>1, <1>5, <2>1, FS_AddElement
  <2>4. Bound(r)'
    BY <1>1, <1>3, <1>5, <2>1, <2>2, <2>3 DEF Bound
  <2>5. Entries!Subscribe(r)
    <3>1. fs[r][Self] # NoEntry
      BY <2>1, EntryParts
    <3>2. QED
      BY <1>1, <1>2, <1>5, <3>1 DEF Entries!Subscribe, Entries!Bump, Bump
  <2>6. CountInv'
    BY <1>1, <1>3, <1>5, <2>4, OneRoomCounts
  <2>7. QED
    BY <2>5, <2>6 DEF EntriesStep, Entries!Next
<1>6. CASE Has(r) /\ r \in subs[c]
  <2>1. Bound(r)'
    BY <1>1, <1>6 DEF CountInv, Bound
  <2>2. CountInv'
    BY <1>1, <1>3, <1>6, <2>1, OneRoomCounts
  <2>3. UNCHANGED <<EntriesOf(fs, Self), sent>>
    BY <1>1, <1>6 DEF EntriesOf
  <2>4. QED
    BY <2>2, <2>3 DEF EntriesStep
<1>7. QED
  BY <1>4, <1>5, <1>6

LEMMA EnterNoChannelCounts ==
  ASSUME ClerkInv, CountInv, NEW r \in Rooms, CanCreate(r), EnterNoChannel(r),
         \A j \in joining' : j.propagate \in Propagates
  PROVE  CountInv' /\ EntriesStep
<1>1. /\ \A q \in Rooms : q # r => rooms'[q] = rooms[q] /\ fs'[q][Self] = fs[q][Self]
      /\ rooms'[r] # NoRoom
      /\ ~Has(r) => /\ fs'[r][Self] = [subs |-> 0, mid |-> sent + 1]
                    /\ sent' = sent + 1
                    /\ rooms'[r].conns = {}
      /\ Has(r) => /\ fs'[r][Self] = fs[r][Self]
                   /\ sent' = sent
                   /\ rooms'[r].conns = rooms[r].conns
  BY EnterNoChannelAnnounced
<1>2. EntriesOf(fs, Self)' = [EntriesOf(fs, Self) EXCEPT ![r] = fs'[r][Self]]
      /\ EntriesOf(fs, Self)[r] = fs[r][Self]
  BY <1>1, OwnEntryChanged DEF EntriesOf
<1>3. sent \in Nat
  BY OwnEntry
<1>4. CASE ~Has(r)
  <2>1. Bound(r)'
    <3>1. Cardinality(rooms'[r].conns) = 0
      BY <1>1, <1>4, FS_EmptySet
    <3>2. fs'[r][Self].subs = 0 /\ fs'[r][Self].mid = sent'
      BY <1>1, <1>4
    <3>3. QED
      BY <1>1, <1>3, <1>4, <3>1, <3>2 DEF Bound
  <2>2. CountInv'
    BY <1>1, <1>3, <1>4, <2>1, OneRoomCounts
  <2>3. Entries!Open(r)
    BY <1>1, <1>2, <1>4, OwnEntry DEF Entries!Open
  <2>4. QED
    BY <2>2, <2>3 DEF EntriesStep, Entries!Next
<1>5. CASE Has(r)
  <2>1. Bound(r)'
    BY <1>1, <1>5 DEF CountInv, Bound
  <2>2. CountInv'
    BY <1>1, <1>3, <1>5, <2>1, OneRoomCounts
  <2>3. UNCHANGED <<EntriesOf(fs, Self), sent>>
    BY <1>1, <1>5 DEF EntriesOf
  <2>4. QED
    BY <2>2, <2>3 DEF EntriesStep
<1>6. QED
  BY <1>4, <1>5

LEMMA LeaveCounts ==
  ASSUME ClerkInv, CountInv, NEW c \in Conns, NEW r \in Rooms,
         NEW notify \in BOOLEAN, notify \/ ~AlwaysNotifies, Leave(c, r, notify),
         \A j \in joining' : j.propagate \in Propagates
  PROVE  CountInv' /\ EntriesStep
<1>1. /\ \A q \in Rooms : q # r => rooms'[q] = rooms[q] /\ fs'[q][Self] = fs[q][Self]
      /\ Has(r) /\ c \in rooms[r].conns
      /\ \/ /\ rooms'[r] = NoRoom /\ fs'[r][Self] = NoEntry
            /\ sent' = sent + 1
         \/ /\ rooms'[r] # NoRoom /\ rooms[r].conns # {c}
            /\ rooms'[r].conns = rooms[r].conns \ {c}
            /\ fs'[r][Self] = IF notify THEN Bump(fs[r][Self], -1, sent + 1)
                              ELSE fs[r][Self]
            /\ sent' = IF notify THEN sent + 1 ELSE sent
  BY LeaveAnnounced
<1>2. EntriesOf(fs, Self)' = [EntriesOf(fs, Self) EXCEPT ![r] = fs'[r][Self]]
      /\ EntriesOf(fs, Self)[r] = fs[r][Self]
  BY <1>1, OwnEntryChanged DEF EntriesOf
<1>3. /\ sent \in Nat /\ fs[r][Self] \in Entry /\ fs[r][Self] # NoEntry
      /\ fs[r][Self].subs \in Int /\ fs[r][Self].mid \in Nat
      /\ IsFiniteSet(rooms[r].conns) /\ Cardinality(rooms[r].conns) \in Nat
      /\ Bound(r)
  BY <1>1, OwnEntry, EntryParts DEF CountInv, Bound
<1>4. CASE rooms'[r] = NoRoom /\ fs'[r][Self] = NoEntry /\ sent' = sent + 1
  <2>1. ~Has(r)'
    BY <1>4 DEF Has
  <2>2. CountInv'
    BY <1>1, <1>3, <1>4, <2>1, OneRoomCounts
  <2>3. Entries!Close(r)
    BY <1>2, <1>3, <1>4 DEF Entries!Close
  <2>4. QED
    BY <2>2, <2>3 DEF EntriesStep, Entries!Next
<1>5. CASE /\ rooms'[r] # NoRoom /\ rooms[r].conns # {c}
           /\ rooms'[r].conns = rooms[r].conns \ {c}
           /\ fs'[r][Self] = IF notify THEN Bump(fs[r][Self], -1, sent + 1)
                             ELSE fs[r][Self]
           /\ sent' = IF notify THEN sent + 1 ELSE sent
  <2>1. /\ Cardinality(rooms'[r].conns) = Cardinality(rooms[r].conns) - 1
        /\ Cardinality(rooms'[r].conns) \in Nat
        /\ Cardinality(rooms[r].conns) > 0
    <3>1. IsFiniteSet(rooms'[r].conns)
          /\ Cardinality(rooms'[r].conns) = Cardinality(rooms[r].conns) - 1
      <4>1. /\ IsFiniteSet(rooms[r].conns \ {c})
            /\ Cardinality(rooms[r].conns \ {c}) = Cardinality(rooms[r].conns) - 1
        BY <1>1, <1>3, FS_RemoveElement
      <4>2. QED
        BY <1>5, <4>1
    <3>2. Cardinality(rooms'[r].conns) \in Nat
      BY <3>1, FS_CardinalityType
    <3>3. QED
      BY <1>3, <3>1, <3>2
  <2>2. CASE notify
    <3>1. /\ fs'[r][Self] = Bump(fs[r][Self], -1, sent + 1) /\ sent' = sent + 1
          /\ fs'[r][Self] = [subs |-> fs[r][Self].subs - 1, mid |-> sent + 1]
      BY <1>3, <1>5, <2>2 DEF Bump, Bound
    <3>2. Bound(r)'
      BY <1>3, <2>1, <3>1 DEF Bound
    <3>3. CountInv'
      BY <1>1, <1>3, <3>1, <3>2, OneRoomCounts
    <3>4. fs[r][Self].subs > 0
      BY <1>3, <2>1 DEF Bound
    <3>5. Entries!Unsubscribe(r)
      BY <1>2, <1>3, <3>1, <3>4 DEF Entries!Unsubscribe, Entries!Bump, Bump
    <3>6. QED
      BY <3>3, <3>5 DEF EntriesStep, Entries!Next
  <2>3. CASE ~notify
    <3>1. fs'[r][Self] = fs[r][Self] /\ sent' = sent
      BY <1>5, <2>3
    <3>2. Bound(r)'
      BY <1>3, <2>1, <2>3, <3>1 DEF Bound
    <3>3. CountInv'
      BY <1>1, <1>3, <3>1, <3>2, OneRoomCounts
    <3>4. UNCHANGED <<EntriesOf(fs, Self), sent>>
      BY <1>1, <3>1 DEF EntriesOf
    <3>5. QED
      BY <3>3, <3>4 DEF EntriesStep
  <2>4. QED
    BY <2>2, <2>3
<1>6. QED
  BY <1>1, <1>4, <1>5

\* Steps that change neither a room nor what the node says about it.
LEMMA QuietCounts ==
  ASSUME ClerkInv, CountInv, UNCHANGED <<rooms, sent>>,
         \A q \in Rooms : fs'[q][Self] = fs[q][Self],
         \A j \in joining' : j.propagate \in Propagates
  PROVE  CountInv' /\ EntriesStep
<1>1. CountInv'
  BY DEF CountInv, Has
<1>2. UNCHANGED <<EntriesOf(fs, Self), sent>>
  BY DEF EntriesOf
<1>3. QED
  BY <1>1, <1>2 DEF EntriesStep

LEMMA RemoteOwnEntries ==
  ASSUME ClerkInv, NEW n \in Nodes, NEW r \in Rooms,
         RemoteOpen(n, r) \/ RemoteClose(n, r)
  PROVE  \A q \in Rooms : fs'[q][Self] = fs[q][Self]
<1>1. fs \in State /\ Self \in Nodes /\ n # Self
  BY OwnEntry DEF RemoteOpen, RemoteClose
<1>2. CASE RemoteOpen(n, r)
  BY <1>1, <1>2, NewEntry, AddRoomEntries DEF RemoteOpen
<1>3. CASE RemoteClose(n, r)
  BY <1>1, <1>3, RemoveRoomEntries DEF RemoteClose
<1>4. QED
  BY <1>2, <1>3

LEMMA NextCounts ==
  ASSUME FALSE \notin Propagates, ClerkInv, CountInv, [Next]_clerkVars
  PROVE  CountInv' /\ EntriesStep
<1>1. TypeOK /\ Propagates \subseteq BOOLEAN /\ Notifies \subseteq BOOLEAN
  BY HotelAssumption DEF ClerkInv
<1>2. \A j \in joining : j.propagate \in Propagates
  BY DEF CountInv
<1>3. ASSUME NEW c \in Conns, Disconnect(c) \/ TokenExpired(c)
      PROVE  CountInv' /\ EntriesStep
  BY <1>2, <1>3, QuietCounts DEF Disconnect, TokenExpired
<1>4. ASSUME NEW c \in Conns, NEW r \in Rooms, Subscribe(c, r)
      PROVE  CountInv' /\ EntriesStep
  <2>1. CanCreate(r) /\ joining' = joining
    BY <1>4 DEF Subscribe
  <2>2. ASSUME NEW channel \in Propagates, Enter(c, r, channel, TRUE)
        PROVE  CountInv' /\ EntriesStep
    BY <1>1, <1>2, <2>1, <2>2, EnterCounts
  <2>3. CASE EnterNoChannel(r)
    BY <1>2, <2>1, <2>3, EnterNoChannelCounts
  <2>4. QED
    BY <1>4, <2>2, <2>3 DEF Subscribe
<1>5. ASSUME NEW c \in Conns, NEW r \in Rooms, Unsubscribe(c, r)
      PROVE  CountInv' /\ EntriesStep
  <2>1. PICK notify \in Notifies : Leave(c, r, notify)
    BY <1>5 DEF Unsubscribe
  <2>2. notify \in BOOLEAN /\ (notify \/ ~AlwaysNotifies)
    BY <1>1 DEF AlwaysNotifies
  <2>3. joining' = joining
    BY <1>5 DEF Unsubscribe
  <2>4. QED
    BY <1>2, <2>1, <2>2, <2>3, LeaveCounts
<1>6. ASSUME NEW c \in Conns, NEW r \in Rooms, NEW p \in Propagates, Join(c, r, p)
      PROVE  CountInv' /\ EntriesStep
  <2>1. \A j \in joining' : j.propagate \in Propagates
    BY <1>2, <1>6 DEF Join
  <2>2. QED
    BY <1>6, <2>1, QuietCounts DEF Join
<1>7. ASSUME NEW j \in joining, JoinAsk(j)
      PROVE  CountInv' /\ EntriesStep
  <2>1. j \in JoinCall
    BY <1>1 DEF TypeOK
  <2>2. [j EXCEPT !.asked = TRUE].propagate = j.propagate
    BY <2>1 DEF JoinCall
  <2>3. \A k \in joining' : k.propagate \in Propagates
    BY <1>2, <1>7, <2>2 DEF JoinAsk
  <2>4. QED
    BY <1>7, <2>3, QuietCounts DEF JoinAsk
<1>8. ASSUME NEW j \in joining, JoinRoom(j)
      PROVE  CountInv' /\ EntriesStep
  <2>1. j.conn \in Conns /\ j.room \in Rooms
    BY <1>1 DEF TypeOK, JoinCall
  <2>2. j.propagate = TRUE
    BY <1>1, <1>2
  <2>3. \A k \in joining' : k.propagate \in Propagates
    BY <1>2, <1>8 DEF JoinRoom
  <2>4. CASE CanCreate(j.room) /\ Enter(j.conn, j.room, j.propagate, j.propagate)
    BY <2>1, <2>2, <2>3, <2>4, EnterCounts
  <2>5. CASE UNCHANGED <<rooms, roomsCount, subs, channels, fs, filters, sent>>
    BY <2>3, <2>5, QuietCounts
  <2>6. CASE CanCreate(j.room) /\ EnterNoChannel(j.room)
    BY <2>1, <2>3, <2>6, EnterNoChannelCounts
  <2>7. QED
    BY <1>8, <2>4, <2>5, <2>6 DEF JoinRoom
<1>9. ASSUME NEW removal \in removing, RemoveNext(removal)
      PROVE  CountInv' /\ EntriesStep
  <2>1. PICK r \in removal.rooms :
          \/ Leave(removal.conn, r, TRUE)
          \/ UNCHANGED <<rooms, roomsCount, subs, channels, fs, filters, sent>>
    BY <1>9 DEF RemoveNext
  <2>2. removal.conn \in Conns /\ r \in Rooms
    BY <1>1, <2>1 DEF TypeOK, Removal
  <2>3. joining' = joining
    BY <1>9 DEF RemoveNext
  <2>4. QED
    BY <1>2, <2>1, <2>2, <2>3, LeaveCounts, QuietCounts
<1>10. ASSUME NEW n \in Nodes, NEW r \in Rooms, RemoteOpen(n, r) \/ RemoteClose(n, r)
       PROVE  CountInv' /\ EntriesStep
  <2>1. \A q \in Rooms : fs'[q][Self] = fs[q][Self]
    BY <1>10, RemoteOwnEntries
  <2>2. UNCHANGED <<rooms, sent, joining>>
    BY <1>10 DEF RemoteOpen, RemoteClose
  <2>3. QED
    BY <1>2, <2>1, <2>2, QuietCounts
<1>11. CASE UNCHANGED clerkVars
  BY <1>2, <1>11, QuietCounts DEF clerkVars
<1>12. QED
  BY <1>3, <1>4, <1>5, <1>6, <1>7, <1>8, <1>9, <1>10, <1>11 DEF Next

LEMMA CountCorrect ==
  ASSUME FALSE \notin Propagates
  PROVE  Spec => []CountInv
<1>1. Init => CountInv
  BY DEF Init, CountInv, Has
<1>2. ClerkInv /\ CountInv /\ [Next]_clerkVars => CountInv'
  BY NextCounts
<1>3. QED
  BY <1>1, <1>2, ClerkCorrect, PTL DEF Spec

\* If every realtime:join propagates, then whatever plugins do, the node never
\* announces fewer subscribers than it has: never a negative number, which is
\* what makes the other nodes declare themselves out-of-sync (state.ts decr).
THEOREM JoinsPropagateNeverNegative ==
  ASSUME FALSE \notin Propagates
  PROVE  Spec => []NeverNegative
<1>1. ClerkInv /\ CountInv => NeverNegative
  <2> SUFFICES ASSUME ClerkInv, CountInv, NEW r \in Rooms, Has(r)
               PROVE  fs[r][Self].subs >= 0
    BY DEF NeverNegative
  <2>1. /\ Cardinality(rooms[r].conns) \in Nat /\ fs[r][Self].subs \in Int
        /\ Cardinality(rooms[r].conns) <= fs[r][Self].subs
    BY OwnEntry DEF CountInv
  <2>2. QED
    BY <2>1
<1>2. QED
  BY <1>1, ClerkCorrect, CountCorrect, PTL

\* If plugins always notify their unsubscriptions too, the cluster's count of
\* this node's subscribers is exact in every room.
THEOREM AnnouncedExactly ==
  ASSUME FALSE \notin Propagates, FALSE \notin Notifies
  PROVE  Spec => []AnnouncedCounts
<1>1. CountInv => AnnouncedCounts
  BY DEF CountInv, AnnouncedCounts, AlwaysNotifies
<1>2. QED
  BY <1>1, CountCorrect, PTL

\* The clerk implements what the cluster expects of a node (RoomEntries): no room
\* announced twice, no subscription to a room that is not announced, no negative
\* count, sync messages numbered one by one.
THEOREM ClerkAnnouncesLegally ==
  ASSUME FALSE \notin Propagates
  PROVE  Spec => AnnouncesLegally
<1>1. Init => Entries!Init
  BY HotelAssumption DEF Init, Entries!Init, EntriesOf, EmptyState
<1>2. ClerkInv /\ CountInv /\ [Next]_clerkVars => [Entries!Next]_Entries!entryVars
  BY NextCounts DEF EntriesStep, Entries!entryVars
<1>3. QED
  BY <1>1, <1>2, ClerkCorrect, CountCorrect, PTL
     DEF Spec, AnnouncesLegally, Entries!Spec
-----------------------------------------------------------------------------
\* A room never stays behind its last connection, as long as no request is
\* refused between the creation of its room and its subscription (an unknown
\* scope or users argument is: channel.ts throws after createRoom).
THEOREM LastOneOutRemovesRoom ==
  ASSUME BadChannels = FALSE
  PROVE  Spec => []NoEmptyRoom
<1>1. Init => NoEmptyRoom
  BY DEF Init, NoEmptyRoom, Has
<1>2. ASSUME ClerkInv, NoEmptyRoom, [Next]_clerkVars
      PROVE  NoEmptyRoom'
  <2>1. TypeOK
    BY <1>2 DEF ClerkInv
  <2>2. CASE rooms' = rooms
    BY <1>2, <2>2 DEF NoEmptyRoom, Has
  <2>3. ASSUME NEW c \in Conns, NEW r \in Rooms, NEW channel, NEW tells,
               Enter(c, r, channel, tells)
        PROVE  NoEmptyRoom'
    <3>1. /\ rooms'[r].conns = Opened(r).room.conns \cup {c}
          /\ \A q \in Rooms : q # r => rooms'[q] = rooms[q]
      BY <2>1, <2>3 DEF Enter, TypeOK
    <3>2. QED
      BY <1>2, <3>1 DEF NoEmptyRoom, Has
  <2>4. ASSUME NEW c \in Conns, NEW r \in Rooms, NEW notify \in BOOLEAN,
               Leave(c, r, notify)
        PROVE  NoEmptyRoom'
    <3>1. /\ \A q \in Rooms : q # r => rooms'[q] = rooms[q]
          /\ c \in rooms[r].conns
          /\ \/ rooms'[r] = NoRoom
             \/ rooms[r].conns # {c} /\ rooms'[r].conns = rooms[r].conns \ {c}
      BY <1>2, <2>4, LeaveAnnounced
    <3>2. QED
      BY <1>2, <3>1 DEF NoEmptyRoom, Has
  <2>5. ASSUME NEW c \in Conns, NEW r \in Rooms, Subscribe(c, r)
        PROVE  NoEmptyRoom'
    BY <2>3, <2>5 DEF Subscribe
  <2>6. ASSUME NEW c \in Conns, NEW r \in Rooms, Unsubscribe(c, r)
        PROVE  NoEmptyRoom'
    BY <2>4, <2>6, HotelAssumption DEF Unsubscribe
  <2>7. ASSUME NEW j \in joining, JoinRoom(j)
        PROVE  NoEmptyRoom'
    <3>1. j.conn \in Conns /\ j.room \in Rooms
      BY <2>1 DEF TypeOK, JoinCall
    <3>2. QED
      BY <2>2, <2>3, <2>7, <3>1 DEF JoinRoom
  <2>8. ASSUME NEW removal \in removing, RemoveNext(removal)
        PROVE  NoEmptyRoom'
    <3>1. removal.conn \in Conns /\ removal.rooms \subseteq Rooms
      BY <2>1 DEF TypeOK, Removal
    <3>2. QED
      BY <2>2, <2>4, <2>8, <3>1 DEF RemoveNext
  <2>9. ASSUME NEW c \in Conns, Disconnect(c) \/ TokenExpired(c)
        PROVE  NoEmptyRoom'
    BY <2>2, <2>9 DEF Disconnect, TokenExpired
  <2>10. ASSUME NEW c \in Conns, NEW r \in Rooms, NEW p \in Propagates, Join(c, r, p)
         PROVE  NoEmptyRoom'
    BY <2>2, <2>10 DEF Join
  <2>11. ASSUME NEW j \in joining, JoinAsk(j)
         PROVE  NoEmptyRoom'
    BY <2>2, <2>11 DEF JoinAsk
  <2>12. ASSUME NEW n \in Nodes, NEW r \in Rooms, RemoteOpen(n, r) \/ RemoteClose(n, r)
         PROVE  NoEmptyRoom'
    BY <2>2, <2>12 DEF RemoteOpen, RemoteClose
  <2>13. CASE UNCHANGED clerkVars
    BY <2>2, <2>13 DEF clerkVars
  <2>14. QED
    BY <1>2, <2>5, <2>6, <2>7, <2>8, <2>9, <2>10, <2>11, <2>12, <2>13 DEF Next
<1>3. QED
  BY <1>1, <1>2, ClerkCorrect, PTL DEF Spec
=============================================================================
