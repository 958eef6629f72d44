---------------------------- MODULE RoomEntries ----------------------------
(***************************************************************************)
(* What the cluster expects of the realtime rooms of one node: the entries *)
(* the node has about itself in its full state, and the sync messages that *)
(* announce each change of them to the other nodes.  A remote node throws  *)
(* a desync error on anything else (lib/cluster/state.ts): on a room that  *)
(* is announced twice, on a (un)subscription to a room that was not, and   *)
(* on a number of subscribers that becomes negative.                       *)
(***************************************************************************)
EXTENDS FullState

VARIABLES
  own,   \* own[r]: the node's entry in room r
  sent   \* number of sync messages sent

entryVars == <<own, sent>>

Init == own = [r \in Rooms |-> NoEntry] /\ sent = 0

\* NewRealtimeRoom.
Open(r) ==
  /\ own[r] = NoEntry
  /\ own' = [own EXCEPT ![r] = [subs |-> 0, mid |-> sent + 1]]
  /\ sent' = sent + 1

\* NewRealtimeRoom and the first Subscription, sent together.
OpenAndSubscribe(r) ==
  /\ own[r] = NoEntry
  /\ own' = [own EXCEPT ![r] = [subs |-> 1, mid |-> sent + 2]]
  /\ sent' = sent + 2

Subscribe(r) ==
  /\ own[r] # NoEntry
  /\ own' = [own EXCEPT ![r] = Bump(@, 1, sent + 1)]
  /\ sent' = sent + 1

\* The number of subscribers never goes below zero.
Unsubscribe(r) ==
  /\ own[r] # NoEntry /\ own[r].subs > 0
  /\ own' = [own EXCEPT ![r] = Bump(@, -1, sent + 1)]
  /\ sent' = sent + 1

\* RemoveRealtimeRoom.
Close(r) ==
  /\ own[r] # NoEntry
  /\ own' = [own EXCEPT ![r] = NoEntry]
  /\ sent' = sent + 1

Next == \E r \in Rooms : \/ Open(r) \/ OpenAndSubscribe(r) \/ Subscribe(r)
                         \/ Unsubscribe(r) \/ Close(r)

Spec == Init /\ [][Next]_entryVars
=============================================================================
