-------------------------------- MODULE Mutex -------------------------------
(***************************************************************************)
(* The mutexes of a Kuzzle cluster (lib/util/mutex.ts): one Redis key by   *)
(* resource, with a TTL, whose value is the mutex that was let in.  Its    *)
(* methods are operators on the keys (cells); a node makes one mutex by    *)
(* resource and by start, so the node stands for the identifier of its     *)
(* mutex.  The one of a process that is gone is Dead.                      *)
(***************************************************************************)
CONSTANTS Nodes, Resources, None, Dead

Cells == [Resources -> Nodes \cup {None, Dead}]

NoLock == [r \in Resources |-> None]

\* "get": what wait() polls.
IsFree(cells, r) == cells[r] = None

\* Mutant: the key is overwritten.
CanTake_Always(cells, r) == cells[r] # Dead

\* One attempt of lock() is granted: SET with NX and PX.
CanTake(cells, r) == cells[r] = None

Take(cells, n, r) == [cells EXCEPT ![r] = n]

\* Mutant: the key is deleted whatever its value.
Release_Any(cells, n, rs) == [r \in Resources |-> IF r \in rs THEN None ELSE cells[r]]

\* unlock() of the mutexes of the resources rs: delIfValueEqual.
Release(cells, n, rs) ==
  [r \in Resources |-> IF r \in rs /\ cells[r] = n THEN None ELSE cells[r]]

\* Nobody will unlock the mutexes rs of node n any more: their keys stay.
Abandon(cells, n, rs) ==
  [r \in Resources |-> IF r \in rs /\ cells[r] = n THEN Dead ELSE cells[r]]

\* Redis drops the key.
Drop(cells, r) == [cells EXCEPT ![r] = None]
=============================================================================
