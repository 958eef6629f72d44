------------------------------- MODULE Funnel -------------------------------
(***************************************************************************)
(* The funnel of one Kuzzle node (lib/api/funnel.js): every API request    *)
(* goes through it.  It limits the number of requests processed at a time, *)
(* buffers the others, and replays them from a background task.  It also   *)
(* refuses requests while the node shuts down (lib/kuzzle/kuzzle.ts) or    *)
(* while its cluster is too small (lib/cluster/node.js).                   *)
(*                                                                         *)
(* A request takes a slot only once its rights were checked, which is      *)
(* asynchronous, and frees it before its answer is sent.                   *)
(***************************************************************************)
EXTENDS Integers, FiniteSets, SequencesExt

CONSTANTS
  Requests,        \* API requests
  DebugRequests,   \* those sent by a debugger session
  PluginRequests,  \* those sent by a plugin with triggerEvents
  HttpRequests,    \* those sent over HTTP
  Limit,           \* config.limits.concurrentRequests
  BufferSize,      \* config.limits.requestsBufferSize
  MaxOutages,      \* bound: times the cluster becomes too small
  MayShutDown,     \* is the node ever shut down?
  MayDrop          \* may a client drop its connection?

ASSUME FunnelAssumption ==
  /\ DebugRequests \subseteq Requests
  /\ PluginRequests \subseteq Requests \ DebugRequests
  /\ HttpRequests \subseteq Requests \ (DebugRequests \cup PluginRequests)
  /\ Limit \in Nat \ {0} /\ BufferSize \in Nat /\ Limit < BufferSize
  /\ MaxOutages \in Nat
  /\ {MayShutDown, MayDrop} \subseteq BOOLEAN

VARIABLES
  stage,       \* what became of each request, see Stage
  concurrent,  \* concurrentRequests
  queue,       \* pendingRequestsQueue
  overloaded,
  timers,      \* _playPendingRequests calls that are scheduled
  state,       \* kuzzle.state
  leaving,     \* where shutdown() is, see Leaving
  dropped,     \* requests whose connection is gone
  outages      \* times the cluster became too small

funnelVars == <<stage, concurrent, queue, overloaded, timers, state, leaving,
                dropped, outages>>

(***************************************************************************)
(* "checking": pipes, rights and rate limit, before processRequest;        *)
(* "processing": in processRequest's try block, using a slot; "closing":   *)
(* its slot freed, in the pipes that follow; "again": executePluginRequest *)
(* runs the action after an error; "done": the callback was called.        *)
(***************************************************************************)
Stage == {"new", "queued", "checking", "processing", "closing", "again", "done"}

State == {"RUNNING", "NOT_ENOUGH_NODES", "SHUTTING_DOWN", "HALTED"}

\* "no": shutdown() was not called; "waits": for the remaining requests; "flushes":
\* it awaits the logs, before the process exits.
Leaving == {"no", "waits", "flushes"}

Init ==
  /\ stage = [r \in Requests |-> "new"]
  /\ concurrent = 0
  /\ queue = <<>>
  /\ overloaded = FALSE
  /\ timers = 0
  /\ state = "RUNNING"
  /\ leaving = "no"
  /\ dropped = {}
  /\ outages = 0

Moved(r, to) == stage' = [stage EXCEPT ![r] = to]

\* throttle runs the executor of the requests rs: it discards those whose client
\* is gone.
Started(rs) ==
  [r \in Requests |-> IF r \notin rs THEN stage[r]
                      ELSE IF r \in dropped THEN "done" ELSE "checking"]
-----------------------------------------------------------------------------
\* The buffer takes one more request; debug requests are always taken.
HasRoomOffByOne(r) == r \in DebugRequests \/ Len(queue) <= BufferSize \* mutant

HasRoom(r) == r \in DebugRequests \/ Len(queue) < BufferSize

\* Mutant: the replayer is started by each buffered request.
EnqueueStarting(r) ==
  /\ queue' = IF r \in DebugRequests THEN <<r>> \o queue ELSE Append(queue, r)
  /\ overloaded' = TRUE
  /\ timers' = timers + 1

\* Mutant: every request is pushed at the front.
EnqueueFirst(r) ==
  /\ queue' = <<r>> \o queue
  /\ overloaded' = TRUE
  /\ timers' = IF overloaded THEN timers ELSE timers + 1

\* The first buffered request starts the replayer, which finds no free slot and
\* schedules itself.
Enqueue(r) ==
  /\ queue' = IF r \in DebugRequests THEN <<r>> \o queue ELSE Append(queue, r)
  /\ overloaded' = TRUE
  /\ timers' = IF overloaded THEN timers ELSE timers + 1

\* Mutant: the entry point relies on the state of Kuzzle.
AcceptedRunning(r) == state = "RUNNING"

\* throttle refuses every request unless Kuzzle is running; during a shutdown so
\* does entryPoint.execute, but the router hands HTTP requests to the funnel itself.
Accepted(r) == state = "RUNNING" /\ (leaving = "no" \/ r \in HttpRequests)

\* entryPoint.execute, execute and throttle, for a request of a client.
Execute(r) ==
  /\ state # "HALTED"
  /\ r \notin PluginRequests /\ stage[r] = "new"
  /\ \/ /\ ~Accepted(r)
        /\ Moved(r, "done")
        /\ UNCHANGED <<queue, overloaded, timers>>
     \/ /\ Accepted(r) /\ concurrent < Limit
        /\ stage' = Started({r})
        /\ UNCHANGED <<queue, overloaded, timers>>
     \/ /\ Accepted(r) /\ concurrent >= Limit
        /\ IF HasRoom(r) THEN Moved(r, "queued") /\ Enqueue(r)
           ELSE Moved(r, "done") /\ UNCHANGED <<queue, overloaded, timers>>
  /\ UNCHANGED <<concurrent, state, leaving, dropped, outages>>

\* How many buffered requests the replayer starts: throttle refuses them all
\* unless Kuzzle is running.
Injected ==
  IF state # "RUNNING" \/ concurrent >= Limit THEN 0
  ELSE IF Len(queue) < Limit - concurrent THEN Len(queue) ELSE Limit - concurrent

\* Mutant: the replayer gives up when it cannot replay everything.
PlayPendingOnce ==
  /\ timers > 0 /\ state # "HALTED"
  /\ stage' = Started({queue[i] : i \in 1..Injected})
  /\ queue' = SubSeq(queue, Injected + 1, Len(queue))
  /\ timers' = timers - 1
  /\ overloaded' = (queue' # <<>>)
  /\ UNCHANGED <<concurrent, state, leaving, dropped, outages>>

\* _playPendingRequests.
PlayPending ==
  /\ timers > 0 /\ state # "HALTED"
  /\ stage' = Started({queue[i] : i \in 1..Injected})
  /\ queue' = SubSeq(queue, Injected + 1, Len(queue))
  /\ timers' = IF queue' = <<>> THEN timers - 1 ELSE timers
  /\ overloaded' = (queue' # <<>>)
  /\ UNCHANGED <<concurrent, state, leaving, dropped, outages>>
-----------------------------------------------------------------------------
\* The request may be executed: processRequest takes a slot, whatever their number.
Authorize(r) ==
  /\ state # "HALTED" /\ stage[r] = "checking"
  /\ Moved(r, "processing")
  /\ concurrent' = concurrent + 1
  /\ UNCHANGED <<queue, overloaded, timers, state, leaving, dropped, outages>>

\* Its rights, the rate limit, a pipe or an unknown controller refuses it.
Deny(r) ==
  /\ state # "HALTED" /\ stage[r] = "checking"
  /\ Moved(r, "closing")
  /\ UNCHANGED <<concurrent, queue, overloaded, timers, state, leaving, dropped,
                 outages>>

CompleteTwice(r) == \* mutant: the slot is freed on error, then in "finally" again
  /\ state # "HALTED" /\ stage[r] = "processing"
  /\ Moved(r, "closing")
  /\ concurrent' = concurrent - 2
  /\ UNCHANGED <<queue, overloaded, timers, state, leaving, dropped, outages>>

\* The end of processRequest's try block: the slot is freed, then come the error
\* pipes or request:afterExecution.
Complete(r) ==
  /\ state # "HALTED" /\ stage[r] = "processing"
  /\ Moved(r, "closing")
  /\ concurrent' = concurrent - 1
  /\ UNCHANGED <<queue, overloaded, timers, state, leaving, dropped, outages>>

Answer(r) ==
  /\ state # "HALTED" /\ stage[r] \in {"closing", "again"}
  /\ Moved(r, "done")
  /\ UNCHANGED <<concurrent, queue, overloaded, timers, state, leaving, dropped,
                 outages>>

\* executePluginRequest: no throttling, but a slot in processRequest.  An unknown
\* controller is refused before the slot is taken, and the action tried again too.
ExecutePlugin(r) ==
  /\ state # "HALTED" /\ r \in PluginRequests /\ stage[r] = "new"
  /\ \/ Moved(r, "processing") /\ concurrent' = concurrent + 1
     \/ Moved(r, "again") /\ UNCHANGED concurrent
  /\ UNCHANGED <<queue, overloaded, timers, state, leaving, dropped, outages>>

RetryPluginLeaking(r) == \* mutant: the slot of a failed request is not freed
  /\ state # "HALTED" /\ r \in PluginRequests /\ stage[r] = "processing"
  /\ Moved(r, "again")
  /\ UNCHANGED <<concurrent, queue, overloaded, timers, state, leaving, dropped,
                 outages>>

\* It failed: executePluginRequest runs the action once more, without a slot.
RetryPlugin(r) ==
  /\ state # "HALTED" /\ r \in PluginRequests /\ stage[r] = "processing"
  /\ Moved(r, "again")
  /\ concurrent' = concurrent - 1
  /\ UNCHANGED <<queue, overloaded, timers, state, leaving, dropped, outages>>
-----------------------------------------------------------------------------
DropConnection(r) ==
  /\ MayDrop /\ r \notin PluginRequests \cup dropped
  /\ stage[r] = "queued"
  /\ dropped' = dropped \cup {r}
  /\ UNCHANGED <<stage, concurrent, queue, overloaded, timers, state, leaving,
                 outages>>

\* evictNode finds the cluster too small, addNode finds it large enough again.
LoseNodes ==
  /\ state \in {"RUNNING", "SHUTTING_DOWN"} /\ outages < MaxOutages
  /\ state' = "NOT_ENOUGH_NODES"
  /\ outages' = outages + 1
  /\ UNCHANGED <<stage, concurrent, queue, overloaded, timers, leaving, dropped>>

FindNodes ==
  /\ state = "NOT_ENOUGH_NODES"
  /\ state' = "RUNNING"
  /\ UNCHANGED <<stage, concurrent, queue, overloaded, timers, leaving, dropped,
                 outages>>

\* kuzzle.shutdown, until its loop.
Shutdown ==
  /\ MayShutDown /\ leaving = "no"
  /\ state' = "SHUTTING_DOWN"
  /\ leaving' = "waits"
  /\ UNCHANGED <<stage, concurrent, queue, overloaded, timers, dropped, outages>>

\* remainingRequests is zero.
NoneRemaining == concurrent + Len(queue) = 0

\* The loop of shutdown ends.
LeaveLoop ==
  /\ leaving = "waits" /\ NoneRemaining
  /\ leaving' = "flushes"
  /\ UNCHANGED <<stage, concurrent, queue, overloaded, timers, state, dropped, outages>>

\* The logs are flushed: process.exit, whatever happened meanwhile.
Halt ==
  /\ leaving = "flushes" /\ state # "HALTED"
  /\ state' = "HALTED"
  /\ UNCHANGED <<stage, concurrent, queue, overloaded, timers, leaving, dropped,
                 outages>>
-----------------------------------------------------------------------------
Next ==
  \/ \E r \in Requests :
       \/ Execute(r) \/ Authorize(r) \/ Deny(r) \/ Complete(r) \/ Answer(r)
       \/ ExecutePlugin(r) \/ RetryPlugin(r) \/ DropConnection(r)
  \/ PlayPending \/ LoseNodes \/ FindNodes \/ Shutdown \/ LeaveLoop \/ Halt

Spec == Init /\ [][Next]_funnelVars

\* What was started goes on, timers fire, and a cluster does not stay too small.
\* No client has to send a request, and no operator to stop the node.
Fairness ==
  /\ \A r \in Requests :
       /\ WF_funnelVars(Authorize(r) \/ Deny(r))
       /\ WF_funnelVars(Complete(r) \/ RetryPlugin(r))
       /\ WF_funnelVars(Answer(r))
  /\ WF_funnelVars(PlayPending) /\ WF_funnelVars(FindNodes)
  /\ WF_funnelVars(LeaveLoop) /\ WF_funnelVars(Halt)

FairSpec == Spec /\ Fairness
-----------------------------------------------------------------------------
\* Type invariant.
TypeOK ==
  /\ stage \in [Requests -> Stage]
  /\ concurrent \in Nat
  /\ queue \in Seq(Requests)
  /\ overloaded \in BOOLEAN
  /\ timers \in Nat
  /\ state \in State
  /\ leaving \in Leaving
  /\ dropped \subseteq Requests
  /\ outages \in Nat

\* A slot is held by exactly the requests being processed: none leaks on an error
\* path, which would end with a node that refuses everything.
SlotsMatch == concurrent = Cardinality({r \in Requests : stage[r] = "processing"})

\* While requests are buffered one replayer is scheduled, and never two of them,
\* which would start the same request twice.
OneReplayer ==
  /\ timers = (IF overloaded THEN 1 ELSE 0)
  /\ overloaded <=> queue # <<>>

\* The buffer holds each waiting request once, no other one, and no more of the
\* clients' requests than its limit.
BufferExact ==
  /\ \A r \in Requests : stage[r] = "queued" <=> \E i \in 1..Len(queue) : queue[i] = r
  /\ \A i, j \in 1..Len(queue) : queue[i] = queue[j] => i = j
  /\ Cardinality({i \in 1..Len(queue) : queue[i] \notin DebugRequests}) <= BufferSize

Waiting(q, r) == \E i \in 1..Len(q) : q[i] = r

Ahead(q, r, s) == \E i, j \in 1..Len(q) : i < j /\ q[i] = r /\ q[j] = s

\* Buffered requests of clients are started in the order they came in: none is started,
\* dropped or moved before one that is ahead of it, and none comes in ahead of another.
ClientsInOrder ==
  [][\A r, s \in Requests \ DebugRequests :
       /\ Ahead(queue, r, s) /\ Waiting(queue', r) => Ahead(queue', r, s)
       /\ Waiting(queue, r) /\ ~Waiting(queue, s) => ~Ahead(queue', s, r)]_funnelVars

\* A node that shuts down, and may be RUNNING again after an outage of its cluster,
\* has no request in its buffer from the end of the loop of shutdown on, but those
\* that came over HTTP since: the buffer was waited for, and the entry point lets
\* nothing else in.
NoneLeftBuffered ==
  leaving = "flushes" => \A r \in Requests : stage[r] = "queued" => r \in HttpRequests

\* A buffered request is eventually replayed, unless the node is shut down.
ReplayedEventually ==
  \A r \in Requests : stage[r] = "queued" ~> stage[r] # "queued" \/ leaving # "no"

\* The node exits after it processed the remaining requests.
ShutdownEnds == leaving # "no" ~> state = "HALTED"

=============================================================================
