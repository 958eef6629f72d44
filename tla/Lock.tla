-------------------------------- MODULE Lock --------------------------------
(***************************************************************************)
(* What lib/util/mutex.ts promises about the resources shared by the nodes *)
(* of a cluster: a process is let in only while nobody holds the lock, and *)
(* the lock is freed by its holder alone, or when its TTL is over.  The    *)
(* holder is not told that its TTL is over: it is still inside.            *)
(***************************************************************************)
CONSTANTS Procs, Resources, None, Dead

VARIABLES
  holder,  \* who each lock is given to: a process, None, or Dead: one that is gone
  inside   \* the resources each process was let in and has not left

lockVars == <<holder, inside>>

Init ==
  /\ holder = [r \in Resources |-> None]
  /\ inside = [p \in Procs |-> {}]

Enter(p, r) ==
  /\ holder[r] = None /\ r \notin inside[p]
  /\ holder' = [holder EXCEPT ![r] = p]
  /\ inside' = [inside EXCEPT ![p] = @ \cup {r}]

\* A process leaves the resources rs: the locks it still holds are given to next.
Out(p, rs, next) ==
  /\ rs \subseteq inside[p]
  /\ inside' = [inside EXCEPT ![p] = @ \ rs]
  /\ holder' = [r \in Resources |-> IF r \in rs /\ holder[r] = p THEN next ELSE holder[r]]

\* A process that leaves frees its own locks, never that of another one.
Leave(p, rs) == Out(p, rs, None)

\* A process that crashes, or forgets to unlock, leaves its locks behind.
Forget(p, rs) == Out(p, rs, Dead)

\* The TTL of a lock is over.
Lapse(r) ==
  /\ holder[r] # None
  /\ holder' = [holder EXCEPT ![r] = None]
  /\ UNCHANGED inside

Next ==
  \/ \E r \in Resources : Lapse(r) \/ \E p \in Procs : Enter(p, r)
  \/ \E p \in Procs, rs \in SUBSET Resources : Leave(p, rs) \/ Forget(p, rs)

Spec == Init /\ [][Next]_lockVars
=============================================================================
