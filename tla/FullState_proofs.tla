-------------------------- MODULE FullState_proofs --------------------------
(***************************************************************************)
(* What the operations of the full state (lib/cluster/state.ts) do to its  *)
(* entries, for any set of nodes and rooms: each lemma gives the type of   *)
(* the result and the value of each of its entries, so that the proofs     *)
(* about the components never look inside the operations.                  *)
(***************************************************************************)
EXTENDS FullState, TLAPS

\* A change of the number of subscribers yields an entry, whether the message is
\* newer than the entry (RoomSubscriptions.incr, decr) or not.
LEMMA BumpType ==
  ASSUME NEW e \in Entry, NEW delta \in Int, NEW mid \in Nat
  PROVE  Bump(e, delta, mid) \in Entry
  BY DEF Bump, Entry

\* An entry is a record of two numbers, and never the absence of one.
LEMMA EntryParts ==
  ASSUME NEW e \in Entry
  PROVE  e # NoEntry /\ e.subs \in Int /\ e.mid \in Nat
  BY NoEntryAssumption DEF Entry

LEMMA NewEntry ==
  ASSUME NEW subs \in Int, NEW mid \in Nat
  PROVE  [subs |-> subs, mid |-> mid] \in Entry
  BY DEF Entry

\* addRealtimeRoom writes one entry.
LEMMA AddRoomEntries ==
  ASSUME NEW st \in State, NEW r \in Rooms, NEW n \in Nodes, NEW e \in Entry
  PROVE  /\ AddRoom(st, r, n, e) \in State
         /\ \A q \in Rooms, m \in Nodes :
              AddRoom(st, r, n, e)[q][m] = IF q = r /\ m = n THEN e ELSE st[q][m]
  BY DEF AddRoom, State

\* removeRealtimeRoom clears one entry.
LEMMA RemoveRoomEntries ==
  ASSUME NEW st \in State, NEW r \in Rooms, NEW n \in Nodes
  PROVE  /\ RemoveRoom(st, r, n) \in State
         /\ \A q \in Rooms, m \in Nodes :
              RemoveRoom(st, r, n)[q][m] = IF q = r /\ m = n THEN NoEntry ELSE st[q][m]
  BY DEF RemoveRoom, State

\* addRealtimeSubscription and removeRealtimeSubscription change one entry, that
\* of a node that is listed in the room.
LEMMA SubscriptionEntries ==
  ASSUME NEW st \in State, NEW r \in Rooms, NEW n \in Nodes, NEW mid \in Nat,
         Known(st, r, n)
  PROVE  /\ AddSubscription(st, r, n, mid) \in State
         /\ RemoveSubscription(st, r, n, mid) \in State
         /\ \A q \in Rooms, m \in Nodes :
              /\ AddSubscription(st, r, n, mid)[q][m] =
                   IF q = r /\ m = n THEN Bump(st[r][n], 1, mid) ELSE st[q][m]
              /\ RemoveSubscription(st, r, n, mid)[q][m] =
                   IF q = r /\ m = n THEN Bump(st[r][n], -1, mid) ELSE st[q][m]
<1>1. st[r][n] \in Entry
  BY DEF State, Known
<1>2. Bump(st[r][n], 1, mid) \in Entry /\ Bump(st[r][n], -1, mid) \in Entry
  BY <1>1, BumpType
<1>3. QED
  BY <1>2 DEF AddSubscription, RemoveSubscription, State

\* removeNode clears all entries of one node.
LEMMA RemoveNodeEntries ==
  ASSUME NEW st \in State, NEW n \in Nodes
  PROVE  /\ RemoveNode(st, n) \in State
         /\ \A q \in Rooms, m \in Nodes :
              RemoveNode(st, n)[q][m] = IF m = n THEN NoEntry ELSE st[q][m]
  BY DEF RemoveNode, State

\* loadFullState writes the entries of the loaded state over the others.
LEMMA LoadEntries ==
  ASSUME NEW st \in State, NEW loaded \in State
  PROVE  /\ Load(st, loaded) \in State
         /\ \A q \in Rooms, m \in Nodes :
              Load(st, loaded)[q][m] =
                IF loaded[q][m] # NoEntry THEN loaded[q][m] ELSE st[q][m]
  BY DEF Load, State
=============================================================================
