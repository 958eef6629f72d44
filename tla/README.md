# Kuzzle: specifications, model checking and proofs

TLA+ models of the parts of Kuzzle whose correctness depends on the order of
events: how the nodes of a cluster replicate their realtime subscriptions, how
one node keeps its rooms, how it throttles API requests and watches the tokens
of its connections, and how the nodes of a cluster start together. TLC checks the
models on small instances; TLAPS proves the main results for every value of the
constants.

File names below are relative to `src/lib/`.

## 1. The system

Kuzzle is a Node.js backend: each node is one process, one event loop. All
code between two `await` is atomic, everything else interleaves. Nodes share
Redis and Elasticsearch and talk to each other over ZeroMQ.

```
 clients --> entryPoint --> funnel --> controllers --> hotelClerk --> cluster node
             (connections)  (slots,                    (rooms,        (full state,
                  |          buffer)                    connections)   publisher)
                  |             ^                         ^   |            |
                  +-------------|-- connection closed ----+   v            v  numbered
 kuzzle.state (RUNNING, SHUTTING_DOWN, NOT_ENOUGH_NODES)    Koncorde    subscribers of
                  ^------------ evictNode, addNode -------- filters     the other nodes
```

| component | state | operations | interacts with | what must hold |
|---|---|---|---|---|
| full state, `cluster/state.ts` | per room, per node: number of subscribers, id of the last message | add/remove a room of a node, count up/down, remove a node, serialize, load | node, subscribers, hotel clerk (through events) | one entry per node in a room; a room leaves Koncorde with its last node; never a negative count |
| cluster node, `cluster/node.js`, `publisher.js`, `subscriber.js`, `command.js`, `idCardHandler.ts` | the full state, a subscriber per remote node (state, last message id, buffer), the publisher's message id, ID cards in Redis | handshake, publish, receive, sync, check heartbeats, evict a node, evict oneself, shut down | other nodes by messages and requests; Redis | a view of a remote node is what that node announced, or the desync is noticed; dead nodes are forgotten; a handshake ends |
| hotel clerk, `core/realtime/hotelClerk.ts`, `room.ts`, `connectionRooms.ts` | rooms and their connections, connections and their rooms, a counter of rooms | subscribe, join, unsubscribe, remove a connection | cluster node (announcements), Koncorde (filters), entry point (channels) | the tables agree; the limit is exact; what is announced is what exists |
| funnel, `api/funnel.js` | number of concurrent requests, buffer (queue and map), overload flag, replay timer | throttle, replay, check rights, process, execute for plugins | entry point, router, `kuzzle.state` | no slot leaks; one replayer; order; nothing stranded |
| life cycle, `kuzzle/kuzzle.ts`, `internalIndexHandler.js`, `core/shared/store.ts` | `kuzzle.state`, the secret; records of the bootstrap, imports and installations in Redis and Elasticsearch | start, bootstrap, install, import, shutdown | all | a node that exits leaves no client waiting in its buffer; what is marked as done is done, once; all nodes have one secret; a start ends |
| entry point and router, `core/network/` | connections, their protocol channels | new/remove connection, join/leave channel | funnel, hotel clerk | a connection that is gone keeps nothing |
| token manager, `core/auth/tokenManager.ts` | sorted array of tokens, their connections, one timer | link, unlink, refresh, expire, check validity | funnel, auth controller, token repository, hotel clerk, notifier | an expired token loses its connections, and no other does |
| mutex, `util/mutex.ts` | a key in Redis with a TTL | lock with retries, unlock by value | cluster node, kuzzle, user repository | at most one holder |
| event emitter and pipes, `kuzzle/event/` | running pipes, buffer of pipes | run, run next | everywhere | bounded concurrency, each callback once |
| security repositories, `core/security/`, `core/shared/ObjectRepository.ts` | cached users and tokens, profiles and roles in memory | load, persist, delete, invalidate | Redis, Elasticsearch, cluster events | no stale right is used for ever |
| storage, `core/storage/` | cache of indexes and collections | create, delete, cluster events | Elasticsearch, cluster | the cache follows the engine |
| controllers, plugins, validation, statistics, dump | none of their own, or local | | | sequential |

Hard behaviours, by component (`PROJECT.json`, "hazards", gives each its line):

* cluster: a node joins while others publish, from the state of a third node that
  may be behind or ahead; lost messages; deaths and shutdowns in the middle of
  a handshake or of an eviction that awaits Redis; timers that fire on a
  subscriber that is not synchronised yet;
* hotel clerk: calls that go on after their connection is gone; rooms deleted
  and recreated under a pending call; joins and unsubscriptions that are announced
  or not; refused requests after half of the work;
* funnel: slots on all error paths; a background task that starts and stops
  itself; shutdown and cluster outages while requests are buffered;
* token manager: positions in a sorted array that are found before an await and
  used after it; loops over a set of connections that changes meanwhile; a token
  that is revoked under a request that was verified with it;
* start: locks whose TTL ends under their holder, a crash between two documents of
  a sequence, a timeout that does not stop what it gives up, records that are
  read before the lock that protects them.

## 2. Modules

| module | models | used by |
|---|---|---|
| `FullState` | the `State` and `RoomState` classes as pure operators on a function room -> node -> entry | all the realtime modules |
| `RoomEntries` | abstract: what the cluster expects of one node's entries and announcements | `HotelClerk` refines it, `ClusterSync` assumes it of publishers |
| `ClusterSync` | nodes, publishers, subscribers, handshake, evictions over a lossy network | `MCClusterSync` |
| `HotelClerk` | one node's rooms, with cluster, Koncorde and channels | `MCHotelClerk` |
| `Funnel` | throttling, buffer, replay, slots, shutdown | `MCFunnel` |
| `TokenManager` | the methods of the token manager as operators on its state | `Sessions` |
| `PipeRunner` | the pipe runner as operators on its state | `Sessions` |
| `Sessions` | requests, logins, refreshes, logouts, expirations and disconnections of one node, over Redis | `MCSessions` |
| `Lock` | abstract: who may be inside a mutex, and who may free it | `Startup` refines it |
| `Mutex` | `util/mutex.ts` as operators on the keys in Redis | `Startup` |
| `Startup` | the start of the nodes of a cluster: internal index, bootstrap, handshake, imports, installations | `MCStartup` |
| `FullState_proofs`, `ClusterSync_proofs`, `ClusterCalm_proofs`, `HotelClerk_proofs`, `Funnel_proofs`, `Sessions_proofs` (on the lemmas of `TokenManager_proofs`), `Startup_proofs` | theorems | |

The two halves of the realtime subsystem meet in `RoomEntries`. `ClusterSync`
lets a publisher take the steps of `RoomEntries` (`OpenRoom`, `Subscribe`,
`Unsubscribe`, `CloseRoom`) and shows that the other nodes then agree with it;
`HotelClerk` shows that the code that calls the publisher takes no others (when
joins propagate; see the finding below when they do not). Section 4 proves both.

### FullState

`fs[r][n]` is node `n`'s entry in room `r`, `[subs, mid]`, or `NoEntry`: the map of
`RoomState`. `CanAddRoom` is false where `addNode` throws; `Known` is false
where `incr` and `decr` throw. The code refuses a message that is not newer than the
entry's; this never happens here because ids only grow, and the guard is part of
the operators. The list of authentication strategies is left out.

### ClusterSync

* A node's `log` is all it published; the index is the message id. `hist` records its
  own entries after each message, and is only read by properties.
* `sub[q][p]` is q's `ClusterSubscriber` for p: `state`, `lastMessageId`, `buffer`,
  whether `sync()` runs, the position of the socket (`next`, 0 before the
  subscription is effective) and whether a message was processed since the last
  `checkHeartbeat`.
* `Receive` is `listen`, which buffers or calls `processData` -> `validateMessage`
  -> the handler (`Process`, `Handle`), all in one step except when a handler
  awaits: `evictNode` awaits the ID card, so it is split in `BeginRemoval` and
  `FinishRemoval`, and the loop of that subscriber waits (`by`).
* The handshake is `StartHandshake` (discover, connect), `GetFullState`,
  `HandleHandshake`/`HandshakeTimeout` per remote node, `Settle` per remote node,
  then `SyncBuffered`, with `RetryHandshake` for its loop.
* Constants switch what the network may do: `SlowLinks` lets a message stay on its way for
  longer than a handshake, `SlowHandshake` lets a handshake outlast the
  heartbeat timer and an answer come too late, `MaxLost` and `MaxCrashes` bound the failures.
* `startHeartbeat` arms its timer before the full state is asked for, and it first fires
  `heartbeatDelay` later. So, unless `SlowHandshake`, a joiner sends no heartbeat while it
  waits for the answers to its hello (phase "loaded"), and `CheckHeartbeat` leaves a
  buffering subscriber alone: both timers are assumed slower than the handshake.
* Assumed: one handshake at a time, as the mutex intends; a node that is
  started again is a new node (its id is new), so nodes start once.

### HotelClerk

`subscribe` and `unsubscribe` do everything before their first `await`, so they
are one step each. `join` has two (`JoinAsk` awaits the filters, `JoinRoom` goes on
whatever happened). `removeConnection` lists the rooms (`StartRemoval`), and
`RemoveNext` leaves one room per step: the code leaves them in one tick, so the
model has more interleavings. `Unsubscribe`, joins and `TokenExpired` do not ask whether the
connection still exists: a request goes on without it. A channel is known by its cluster flag. Remote nodes are
`RemoteOpen` and `RemoteClose`.

### Funnel

`stage[r]` follows a request. The checks of rights are asynchronous, so a request
that `Execute` or `PlayPending` lets through takes its slot later (`Authorize`). The slot
is freed (`Complete`) before the last pipes (`Answer`). `executePluginRequest` takes a slot without
throttling and, after an error, runs the action again without one
(`RetryPlugin`; an unknown controller is refused before it takes a slot, and tried again
as well). `LoseNodes` and `FindNodes` are the cluster's assignments to
`kuzzle.state`; the first may overwrite SHUTTING_DOWN, as the code does.

`leaving` is where `shutdown()` is: it waits for `remainingRequests` to be zero (`LeaveLoop`),
then awaits the logs, and exits (`Halt`). Requests go on meanwhile, those in their checks
included, which `remainingRequests` does not count. From `Shutdown` on the entry point
refuses requests for good, whatever `kuzzle.state` becomes; those of `HttpRequests` do not pass
`entryPoint.execute` (`Accepted`).

### TokenManager, PipeRunner and Sessions

`tm` is the token manager. A managed token is an object of its own, so it has a handle
`<<token, copy>>`: a suspended loop may hold an object that has left the array while a
new object of the same token is in it. `Copies` bounds them; three are never all
in use in the instance. `arr` is kept in the order the comparator gives it
(`Place`, insertion from the end), and `Search` finds what the binary search of the
`sorted-array` library finds: a token that never expires is before and after any
other such token, so the search may miss it (`Probed`).

A request (`reqs[r]`) is verified (`Verify`, Redis), linked (`Authorize`), waits for
the pipes of `request:onAuthorized` (`pr`, the pipe runner) and runs an action that is
chosen when they end: `Query` (any other action, or a rejected pipe),
`Logout`, `RefreshToken`, `Login`. Those that await are continued by `Mark` and
`Renew`, and the loops by `ExpireStart`/`ExpireNext` (`tokenManager.expire`) and
`TimerFires`/`Immediate`/`Notified` (`checkTokensValidity`). A loop over the
connections of an object follows its changes, as a JavaScript Set does (`Following`).
`Forget` and `Tick` are the TTLs of Redis. A token is known to clients when the
request that makes it is answered (`Unsent`).

Abstracted: a command to Redis takes effect when it is sent; the removal of
subscriptions is `HotelClerk`'s; the search, load and expire of a global logout are one
step per token. Not modelled: API keys and single-use tokens, two tokens of the
same user made in the same second.

### Lock, Mutex and Startup

A node goes through the steps of `at[n]`; each is one command sent to Redis or to the
storage. `cells` holds the keys of the mutexes, `own[n]` the mutexes whose
`_locked` is true: a node whose TTL has ended is in the second and not in the first.
A node makes one mutex per resource, so it stands for its identifier; the key that
a dead process leaves is `Dead`. `Startup` maps `cells` and `own` to `holder`
and `inside` of `Lock`, which is refined by all the uses the start makes of its
mutexes (`LocksImplement`), failures included.

`es` is what the storage records and `cache` what Redis records; `imported` and
`installs` are history. `Creating` is a document that is created once. After
its timeout a bootstrap is `late`: `init` has unlocked and failed, and its
sequence goes on (`VersionCreate` included) while the node may be started again.
`ImportError`, `ImportBusyError` and `InstallError` are the errors of what the application
supplies; the import method is called, and may throw, without the mutex too.
`StorageError` is a command that the storage fails to execute, at any step that is one
(`AsksStorage`): the start fails, and its `finally` blocks free the locks it has (`Abort`).
So a waiter of `Store.init` may go on although the collections were not created.

Abstracted: `lock()` polls, so it is granted at any of its attempts; the creation of all
collections is one step, as is the write of the securities and validations (they
are the same each time); a command that fails has had no effect, and Redis answers. Not modelled: a secret in the configuration (nothing is
shared then), the vault, plugins, the contents of imports. The branch of
`persistHashedImport` for a hash that is in Redis only is in the model and not reached
by it: it needs the internal index to be deleted.

## 3. What the runs check

| run | instance | checks | states |
|---|---|---|---|
| ClusterJoin | two nodes, a third joins; one publisher, 3 messages, heartbeats | `TypeOK`, `ViewMatchesSender`, `CountsAgree`, `NoFalseAlarm` | 425,000 |
| ClusterLive | three nodes, one crash, one loss; fair | `NoGhostEntries`, `DeadForgotten` | 8,500 |
| ClusterSlow | one node, one joins; slow links, crash, shutdown, loss; fair | `ViewMatchesSender`, `GhostsAreDead`, `HandshakeEnds` | 53,000 |
| HotelAny | 2 rooms, limit 1, 2 connections, all variants of requests | `TypeOK`, `RoomsMatchSubscriptions`, `RoomsCountExact`, `AnnouncedRooms`, `FiltersInUse`, `ListensToOwnRooms` | 1,328,000 |
| HotelStrict | 1 room, 3 connections, everything announced; fair | `AnnouncedCounts`, `NoEmptyRoom`, `AnnouncesLegally`, `DeadUnsubscribed` | 17,000 |
| FunnelAll | 5 requests (3 clients of which one over HTTP, debugger, plugin), limit 1, buffer 2, an outage, shutdown, dropped connections; fair | `TypeOK`, `SlotsMatch`, `OneReplayer`, `BufferExact`, `NoneLeftBuffered`, `ClientsInOrder`, `ReplayedEventually` | 182,000 |
| Sessions | 2 requests, 2 connections and HTTP, 3 tokens of 2 users of which one is infinite, one pipe and one in the buffer, 3 units of time, one disconnection; fair | `TypeOK`, `Sorted`, `TimerCovers`, `LinksKept`, `NoIdleSlot`, `ExpiredLeave` | 311,000 |
| Startup | 2 nodes with different payloads, one type of import, 3 starts, two faults (crashes, failed storage commands, TTLs that end too early); fair | `TypeOK`, `OneInside`, `SecretsAgree`, `MarksTrue`, `InstallOnce`, `StoreCreated`, `LocksImplement`, `StartEnds` | 404,000 |
| ClusterSuicide, ClusterEarly, HotelNegative, FunnelHang | small variants of the above | one expected violation each, see section 5 | |

Why these bounds are enough to be interesting:

* ClusterJoin needs three nodes: the joiner, the one that gives the full state,
  and the one that publishes. With three messages, one can be before the full
  state, one buffered, one after. The joiner takes each node's state in turn, at
  every moment.
* ClusterLive needs three nodes: one dies, one notices first and tells the
  other. One loss is enough to break a sequence, and two to break it twice.
* ClusterSlow has what ClusterJoin excludes: a subscription that becomes
  effective late, messages lost while buffering, the death of the node that gives
  the state. Two nodes keep the fair graph small; whatever a third node adds is in the other two.
  `NoFalseAlarm` is not checked there: a slow subscription may miss a message
  that the full state does not cover, and the joiner then rightly says so.
* HotelAny has two rooms for the limit of one to matter and two connections
  for a room to change hands; HotelStrict has three to have two left when one
  leaves a room.
* FunnelAll has one slot and two places so that a request can be processed,
  buffered twice, refused, and overtaken. The outage may begin before or after `Shutdown`, and
  end after it: the one way a node that leaves is RUNNING again.
* Sessions starts with two linked connections, one to a finite token and one to an
  infinite token. Two requests are enough for a logout between the verification and
  the link of the other, for two `expire` loops at once (a global logout), for a
  refresh during one, and for one request to wait for the pipes of the other. With
  `TIMEOUT_MAX` of one, the timer also fires too early. In the reached states the
  exceptions of `LinksKept` occur, and two loops of `checkTokensValidity` run at once.
* Startup has two nodes so that one waits for the other or takes its lock, and three
  starts for a node that failed to come back. `MaxFaults` bounds the faults of all kinds
  together, so that any two faults, of one kind or of two, are met in one behaviour:
  the installation handler ends three times in some behaviours (a crash and a lapse), and
  both nodes are ready after a failure and a lapse, or after two lapses.
  A second type of import multiplies the states by more than TLC has time
  for; the theorems of section 4 hold for any number of them.

Fairness. The event loop runs what it was given: the continuation of an await
that is answered by the process itself, by Redis or by a socket that is connected; timers
fire. So each continuation is weakly fair (`FinishRemoval`, `Receive`, `SyncBuffered`,
`Settle`, `JoinRoom`, `RemoveNext`, `Complete`, `PlayPending`...). Nothing is assumed of
clients, operators or crashes, and a message may be lost rather than received
up to the bound. The funnel's `ReplayedEventually` also needs actions to end and
an outage of the cluster to end (`FindNodes`); `GetFullState` is fair for some
node, not for each. `ExpiredLeave` needs the clock to move and the event loop to run
timers and `setImmediate` calls, not requests to end. `StartEnds` needs a node that is
alive to go on and Redis to drop the key of a process that is gone. Nothing is
assumed of which waiting node is given a lock: with a bounded number of
starts, those that hold it finish.

Deadlock is not checked because the instances are bounded: a behaviour ends when all
its messages, requests and failures are used up.

Each property of a passing run is shown to depend on the code by a mutant: a
definition with the change a plausible bug would make (marked "mutant"
in the modules), under which TLC finds the property violated.

## 4. What is proved

| theorem | says, for any values of the constants |
|---|---|
| `ClusterSync_proofs!TypeCorrect` | the types of the cluster's state |
| `ClusterSync_proofs!ViewsExact` | if no handshake outlasts the heartbeat timer, `ViewMatchesSender`, whatever is lost, delayed, or dies |
| `EntriesAnnounced` | under the same assumption the entries a node has about itself start empty and change only by the steps of `RoomEntries` |
| `ClusterCalm_proofs!NoFalseAlarms` | if, besides, a subscription is effective before the full state is asked for, `NoFalseAlarm`, whoever joins, crashes or shuts down |
| `SettledCountsAgree` | under the same assumptions, while no message is lost: once everything is delivered and the live nodes have dropped the entries of the dead, all counts agree |
| `NobodyLeaves`, `CountsAgreeAlways` | if, besides, nobody crashes or shuts down and no message may be lost (the instance of ClusterJoin, at any size): no node ever stops, and `CountsAgree` |
| `NoGhosts` | if nobody joins, `NoGhostEntries`, whatever is lost or delayed |
| `OnlyDeadGhosts`, `NothingHandledEarly` | if no handshake outlasts the heartbeat timer, `GhostsAreDead` and `BufferedUntilSync`, whatever is lost, delayed, or dies |
| `HotelClerk_proofs!ClerkCorrect` and `TypeCorrect`, `ViewsAgree`, `LimitExact`, `RoomsAnnounced`, `FiltersExact`, `HearsOwnRooms` | the invariants of HotelAny |
| `JoinsPropagateNeverNegative` | if joins propagate (FALSE is not in `Propagates`), no negative count is announced |
| `AnnouncedExactly` | if unsubscriptions notify as well, the announced counts are exact |
| `ClerkAnnouncesLegally` | under the same assumption as the first, the clerk refines `RoomEntries` |
| `LastOneOutRemovesRoom` | if no request is refused for its channel, no room is empty |
| `Funnel_proofs!FunnelCorrect` and `TypeCorrect`, `NoSlotLeaks`, `ReplayerAlone`, `BufferFaithful`, `ExitsWithoutBuffer` | the invariants of FunnelAll |
| `ServedInOrder` | its action property `ClientsInOrder`: no step lets a client's buffered request overtake another |
| `Sessions_proofs!SessionTypes`, `TokensSorted`, `TimerAlwaysCovers`, `LinksAlwaysKept`, `NoSlotIdle` | the invariants of Sessions |
| `Startup_proofs!StartupLocks` | the mutexes as the start uses them refine `Lock` |
| `StartupTypes`, `StartupOneInside`, `StartupSecrets`, `StartupMarks`, `StartupStore`, `StartupInstall` | the invariants of Startup |

Cluster. `TypeInv` adds to the types that every buffered id is that of a message of
the log (`BufferedExist`), without which `SyncBuffered` would read past its end.
`ViewMatchesSender` speaks of nodes that follow each other; `SyncInv` says what
holds on the way there:

* `LogInv`: a node's own entries after its k-th message are those after the
  one before, changed as the message says (`Stepped`). A receiver does the same to its
  view (`AppliedEntries`), so a view that is exact at one message is exact at the next.
* `NewcomerInv`: until its handshake is over a node has no rooms, nowhere, and
  said nothing of rooms. So a node that takes it in, at any point of its log, is exact.
* `EmptyInv`: a node knows of no room before it loads a full state, so what it
  has then is what the state came with, and that is exact for the node that gives it
  (`LogInv`) and for those that one follows.
* `PairExact`: from there on a view is exact at its `Position`: the id the full state
  came with until the subscriber is settled, `lastMessageId` after. Messages that are
  stored in between, and those `sync` ignores as too old, do not move it.
* `PairSane`, `NodeSane`: a node neither follows nor evicts itself; an unsettled
  subscriber is buffering; `sync` runs only on a settled one.

The assumption `~SlowHandshake` is used once, in `CheckHeartbeatSync`: the timer would
take an unsettled subscriber out of BUFFERING (see ClusterEarly below). Nothing is
assumed of links, losses or crashes, nor that a node dies when it detects a desync: the
theorem excepts its views by name (`broken`), and those of the nodes it gave its state,
as well as a node the joiner follows and the giver of the full state did not.

`EntriesAnnounced` closes the other end: `ClerkAnnouncesLegally` says that the clerk
takes the steps of `RoomEntries`, this one that nothing else in a cluster
touches a node's entries about itself. Only `OpenRoom`, `Subscribe`, `Unsubscribe` and
`CloseRoom` speak of rooms (`NextQuiet`), and by `LogInv` a node that says nothing of
rooms keeps its entries. The ids are those of the log, which heartbeats and evictions
share, so the theorem is about the steps that change the entries.

A calm cluster. `ViewMatchesSender` says what a view is if there is one; that the view
advances, and that nobody is dropped or drops itself without cause, is
`CalmInv` (`ClusterCalm_proofs`), which holds as long as no message has been lost:

* `TruthfulInv`: a message of a log is one that its receivers accept (`Legal`: a room is
  opened when the sender has none, and counted up or down only when it has one) and names
  a node as gone only when it is (`Obituary`). With exact views, no handler throws.
* `InStep`: what a subscriber holds and is to receive is a piece of the log without
  gaps, which begins no later than the message it is to handle next. So no message is
  out of sequence. A joiner does not know yet where it will start: `StoresEnough`
  says that it stores from early enough, whichever node gives it the state.
* `KnowsJoined`: nodes that have joined follow each other. `JoinCalm` and `WaitCalm` lead
  there: a joiner has a subscriber to every joined node and, once that one has answered, the
  reverse; until all have answered it handles nothing.
* `BrokenCalm`: a full state lacks only what belongs to dead nodes, which do not answer.

A lost message only makes `lost` grow (`LostGrows`), so the invariant has the form
`lost = 0 => Calm`. `SettledViews` then turns exact positions into exact entries, and
`SettledCounts` sums them. A node that crashes keeps its entries in the others until its
heartbeats are missed, so the counts need `DeadCleared`; without deaths
(`Deathless`) there is nothing to clear, and that no node dies by a failed
handshake or a false eviction is again `CalmInv`. `SettledCountsAgree` and
`NoFalseAlarms` say nothing of `SlowLinks`: there a subscription may miss what the full state
does not cover.

Ghosts. `Static` covers a cluster without handshakes, where a subscriber and its entries
leave together. With a handshake, `Boot` follows the joiner step by step (what it
subscribes to, waits for and gives up, and that nothing is handled before
`sync`), `Held` is what every step does to a pair of nodes (a subscriber is dropped only
with its entries, or by a joiner), and `NoLiveGhost` says that a node that is not
followed is dead or without entries. With `SlowHandshake` this is false: the answer of a live
node may come too late, and its entries stay as those of a dead one do.

Hotel clerk. The invariant `ClerkInv` joins the six properties, which need each
other, with two parts: only finitely many rooms exist (`FinitelyMany`, without
which `Cardinality` says nothing; the sets of rooms and connections may be infinite)
and a connection hears only channels its room has (`HeardChannelsExist`, without
which leaving the channels of a room might leave one behind). `RoomsCountExact`
needs `AnnouncedRooms`, because a room is opened in both tables at once.
The counts have an invariant of their own, `CountInv`: the number of connections in a
room is at most the announced number, and equal to it when everything is notified.
It gives `NeverNegative` and, step by step, the refinement of `RoomEntries`:
`Subscribe` maps to `Open`, `OpenAndSubscribe`, `Subscribe` or a stutter.

Funnel. `FunnelInv` adds to the properties that a request waits in the queue
exactly when its stage says so and once (`WaitsInBuffer`, `WaitsOnce`), that few
clients wait (`FewWait`, for the cardinality in `BufferExact`), and that the set of
processed requests is finite. `NoneLeftBuffered` is inductive with these: the queue is
empty when `LeaveLoop` ends the wait, and from then on `Enqueue` meets HTTP requests only.
`ServedInOrder` is a property of steps: from `FunnelInv`, `Enqueue` puts a
client's request behind those of all clients, and the replayer takes the first one, so a
request that goes is ahead of no one else's place.

Sessions. `TokenManager_proofs` shows of each method of the token manager that it keeps
three facts about the state it is given, whoever calls it and when: the array is
sorted and its tokens, with those of the links, are of a set T (`Sane`); a timer
covers the first of them (`Covered`); a connection that is watched stays so, or
gets another link (`Kept`). `Sessions_proofs` combines them in `AllInv`:

* `RequestInv`: the token a request makes is unknown to clients, to the array and to
  other requests until it is answered. So T is `Given`, the tokens that were handed out, and
  `refresh` never inserts a token that is there already, which would break the order.
* `ManagerInv`: the three facts. `Kept` speaks of what the suspended loops still have to
  notify (`Awaited`); a loop that ends has passed every connection of its object.
* `LoopInv`: an `expire` call is that of a revoked token and of a request that waits
  for it, so the object it removes at its end, when it finds the right one, only
  leaves links to a revoked token.
* `PipesInv`: the runner counts the requests in their pipes, and its buffer holds
  each of the others once; so its counter is never negative.
* `RunnerInv`: `NoIdleSlot` is inductive with the bound on what runs: a call that
  ends frees a slot and schedules a call exactly when one waits, a scheduled call
  that finds no slot was overtaken by `run`.

Startup. `StartupInv` joins:

* `OwnInv`: the types, that a `late` node is not inside the bootstrap's mutex
  (`LateOut`), that a living holder of a key is inside (`HolderInside`), and which
  mutexes a node is inside at each step (`OwnAt`). It gives `LocksImplement`: a
  step of the start is a step of `Lock`, or leaves both variables alone.
* `Held`: without a lapse a node that is inside is the holder. `OneInside` follows, since
  a key has one value.
* `SecretInv`: the secret of a node is that of the storage once it is past reading it;
  the seed of the storage never changes.
* `RecordInv`: a record of an import that a node has read (`saw`) is still the one of
  Redis or of the storage, because a record is never replaced; so what is written to
  Redis is the hash of the storage, however long ago the two were read.
* `StoreInv` and `InstallInv`: the collections exist once the lock of `Store.init` has
  been released by a living node, as long as nothing has failed or lapsed; each handler
  that ends and leaves no record costs a failure (a crash, or a command the storage did not
  execute) or a lapse.

`FullState_proofs` holds the lemmas on the operators of `FullState` that the proofs
of both realtime modules cite: what each operation does to one node's entries, and
that it leaves those of the others alone.

Every invariant and action property of the passing runs is stated by a theorem. Only
model-checked is what needs fairness, which is beyond TLAPS: `DeadForgotten`,
`HandshakeEnds`, `DeadUnsubscribed`, `ReplayedEventually`, `ExpiredLeave` and
`StartEnds`. No module uses RECURSIVE.

## 5. Where the code and its documentation differ

* **ClusterEarly.** `checkHeartbeat` assigns SANE or MISSING_HEARTBEAT to a
  subscriber that still buffers, when the handshake takes more than
  `heartbeatDelay * 1.5`; it then processes messages before `sync()`.
* **ClusterSuicide.** A node that notices a desync tells the others and goes on;
  if nobody answers with its eviction it serves a wrong state for ever.
* **HotelNegative.** `realtime:join` with `propagate: false` is not announced, but its
  end is: the announced number of subscribers becomes negative and the other
  nodes declare themselves out-of-sync.
* **FunnelHang.** `throttle` refuses everything while SHUTTING_DOWN, including the
  buffered requests that `shutdown` waits for.

Also seen, without a run of their own; the models contain them all, and the properties
are stated so as to be exact about them:

* `tokenManager.expire` and `refresh` delete by a position that may be out of date
  (`tokenManager.ts:283`, `:308-314`): a login or a refresh with a token that expires
  earlier than the old one deletes the new one, and the concurrent `expire` calls of a
  global logout may delete the token of another user. The objects lost
  this way are `astray` in the model. Their connections are not cut when they expire.
* `logout` unlinks its connection before the token is expired, so the subscriptions of
  the requester stay, contrary to `doc/2/api/controllers/auth/logout/index.md:14`: "If there
  were any, real-time subscriptions are cancelled".
* A request verified before a logout links its connection to the revoked token again,
  and `refresh` writes a token that was revoked meanwhile back to Redis
  (`tokenRepository.ts:188`). Two refreshes of one token that overlap both succeed, whatever
  the comment at `tokenRepository.ts:161-164` says.
* `checkTokensValidity` unlinks a connection that was linked to another token during its
  notification (`:331-339`); a list of infinite tokens alone restarts its timer every
  millisecond.
* A `run` call takes the slot a waiting chain was scheduled for: chains may wait for long,
  never in front of an idle slot (`NoIdleSlot`).
* A crash or a timeout between the documents of the bootstrap makes every later start
  fail on a conflict (`internalIndexHandler.js:159`, `:122`), until they are deleted by hand.
* `loadInitialState` reads the records of an import before it locks (`kuzzle.ts:740-768`): a
  node that locks when another has just finished imports again and then fails on the
  conflict of `kuzzle.ts:642`. `_waitForImportToFinish` returns at the first type that is
  recorded, or after one wait by type, although `kuzzle.ts:596` says "if one of them is not
  finished yet, wait for it": a node may be ready with nothing imported. A
  payload that changes is imported at every start, because its record is not replaced.
  An import that throws leaves its mutex until its TTL.
* `Store.init` goes on when the creator of the collections has crashed, or has failed: the
  lock is freed either way (`store.ts:129-135`, `:137`). The handshake goes on when `lock()` has given up, and fails at
  `unlock()` (`node.js:508`, `:623`). An installation that takes more than
  five seconds may run twice.
* `kuzzle.ts:344` says that `shutdown` "Gracefully exits after processing remaining
  requests". A request whose rights are being checked is not one of `remainingRequests`: it may
  take its slot while the logs are flushed (`:371-372`), and `process.exit` (`:374`) cuts it.
* `kuzzle.ts:353` says "Ask the network layer to stop accepting new request". HTTP requests
  do not pass `entryPoint.execute` (`httpwsProtocol.js:679`, `router.js:238`): only `kuzzle.state`
  stops them. When a node leaves the cluster and another one joins while this one waits for its
  requests, `evictNode` and `addNode` (`node.js:359`, `:294-297`) make it RUNNING:
  HTTP requests are processed again, and may be in the buffer when the process exits.
* A subscriber that `dispose()` finds EVICTED keeps its socket and its timer
  (`subscriber.js:716-719`). This matters only if `sync()` then makes it SANE again
  (`:185`), in a handshake slower than the heartbeat timer.

And in the parts modelled first: the limit on concurrent requests can be exceeded, because the
slot is taken after asynchronous checks; a refused channel leaves an empty
room; a node that dies before it answers a handshake leaves its entries
in the joiner's full state, for ever (`GhostsAreDead`: a live one does
only if its answer takes longer than the two seconds of `command.js:262`, which the model
allows with `SlowHandshake`).

## 6. Plan and what is not modelled

Done in this order: `FullState`, `ClusterSync`, `RoomEntries`, `HotelClerk`,
`Funnel`, their proofs; `TokenManager`, `PipeRunner`, `Sessions`, `Mutex`, `Lock`,
`Startup` and their proofs; `ClusterCalm_proofs` and `ServedInOrder`. Next:

1. Safety halves of the liveness properties: that a dead node is still watched by
   whoever keeps its entries (for `DeadForgotten`), that a joiner waits only for nodes that may
   answer or are down (for `HandshakeEnds`), so that what remains to TLC is fairness alone.
2. `ObjectRepository` (cache-aside reads against writes, in-memory profiles and roles
   invalidated by cluster messages) and `IndexCache`: today a read that
   overlaps a write leaves a stale copy in two steps, so a property worth checking
   needs the code to promise something first.

Not planned: controllers, plugin loading, storage and protocol clients
(I/O without state of their own), validation, statistics, dump and debugger
(sequential). `enforceClusterConsistency` (`cluster/node.js`) is not called by any code.

Left out of what is modelled: `joinTimeout` and ID card expiry, the debugger's pause of
evictions, cluster messages without realtime state (indexes, strategies, profiles...),
`clearConnections` at shutdown (`removeConnection` for all connections, without notifying; the
last one of a room announces that the room is removed, `hotelClerk.ts:559`, `:647`), the early return of
`dispose()`, errors of Redis commands (locks, unlocks, records of imports), storage
commands that fail after they had effects.
