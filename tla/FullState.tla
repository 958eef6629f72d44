----------------------------- MODULE FullState -----------------------------
(***************************************************************************)
(* The cluster "full state" a node keeps about realtime rooms              *)
(* (lib/cluster/state.ts): for every room, the nodes that have subscribers *)
(* on it, how many, and the id of the sync message that last changed that  *)
(* number.  The class is modelled as operators on a value; the modules     *)
(* that own such a value (ClusterSync, HotelClerk) keep it in a variable.  *)
(*                                                                         *)
(* A RoomState exists in the class's Map exactly as long as it lists a     *)
(* node, so the Map is a function from rooms and nodes to entries, NoEntry *)
(* standing for "this node is not listed in this room".                    *)
(***************************************************************************)
EXTENDS Integers, FiniteSets, Functions

CONSTANTS
  Nodes,    \* node ids
  Rooms,    \* room ids (a Koncorde hash of index, collection and filters)
  NoEntry   \* the node has no RoomSubscriptions object in the room

Entry == [subs : Int, mid : Nat]

ASSUME NoEntryAssumption == NoEntry \notin Entry

State == [Rooms -> [Nodes -> Entry \cup {NoEntry}]]

EmptyState == [r \in Rooms |-> [n \in Nodes |-> NoEntry]]

Exists(st, r) == \E n \in Nodes : st[r][n] # NoEntry

\* State.addRealtimeRoom throws a desync error when the node is listed already.
CanAddRoom(st, r, n) == st[r][n] = NoEntry

AddRoom(st, r, n, e) == [st EXCEPT ![r][n] = e]

RemoveRoom(st, r, n) == [st EXCEPT ![r][n] = NoEntry]

\* A (un)subscription throws a desync error when the room or the node in that
\* room is unknown; both cases are the absence of an entry.
Known(st, r, n) == st[r][n] # NoEntry

\* RoomSubscriptions.incr / decr: a message that is not newer than the entry
\* leaves it as it is.
Bump(e, delta, mid) ==
  IF mid > e.mid THEN [subs |-> e.subs + delta, mid |-> mid] ELSE e

AddSubscription(st, r, n, mid) == [st EXCEPT ![r][n] = Bump(@, 1, mid)]

RemoveSubscription(st, r, n, mid) == [st EXCEPT ![r][n] = Bump(@, -1, mid)]

\* Mutant: the node is dropped from the cluster but not from the state.
RemoveNodeForgotten(st, n) == st

RemoveNode(st, n) ==
  [r \in Rooms |-> [m \in Nodes |-> IF m = n THEN NoEntry ELSE st[r][m]]]

\* What one node contributed to the state.
EntriesOf(st, n) == [r \in Rooms |-> st[r][n]]

Subscribers(e) == IF e = NoEntry THEN 0 ELSE e.subs

CountSubscriptions(st, r) == SumFunction([n \in Nodes |-> Subscribers(st[r][n])])

\* loadFullState on a state that lists none of these entries yet.
CanLoad(st, loaded) ==
  \A r \in Rooms, n \in Nodes : loaded[r][n] # NoEntry => st[r][n] = NoEntry

Load(st, loaded) ==
  [r \in Rooms |-> [n \in Nodes |->
     IF loaded[r][n] # NoEntry THEN loaded[r][n] ELSE st[r][n]]]
=============================================================================
