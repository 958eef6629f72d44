------------------------------ MODULE Startup -------------------------------
(***************************************************************************)
(* The start of the nodes of a cluster, as far as they depend on each      *)
(* other: Kuzzle.start (lib/kuzzle/kuzzle.ts) creates and bootstraps the   *)
(* internal index (lib/core/shared/store.ts,                               *)
(* lib/kuzzle/internalIndexHandler.js), joins the cluster                  *)
(* (lib/cluster/node.js), imports the initial data and runs the            *)
(* installations, each under a mutex of its own (lib/util/mutex.ts).  What *)
(* was done is recorded in the storage and in Redis.                       *)
(*                                                                         *)
(* A step is one command sent to Redis or to the storage.  A node may      *)
(* crash between any two steps; a lock may lapse while its holder works; a *)
(* command the storage answers with an error makes the start fail.         *)
(***************************************************************************)
EXTENDS Integers, Sequences, Functions

CONSTANTS
  Nodes, None, Dead,
  ImportTypes,  \* the keys of Kuzzle.importTypes, in order
  Payload,      \* Payload[n]: the hash of what node n imports
  MaxStarts,    \* bound: starts
  MaxFaults     \* bound: failures and lapses, together

Types == Range(ImportTypes)

\* The mutexes, named after the resources they lock.
Resources == {"Store.init", "InternalIndexBootstrap", "clusterHandshake",
              "backend:installations"} \cup Types

INSTANCE Mutex

ASSUME StartupAssumption ==
  /\ Types \cap {"Store.init", "InternalIndexBootstrap", "clusterHandshake",
                 "backend:installations"} = {}
  /\ ImportTypes \in Seq(Types) /\ ImportTypes # <<>>
  /\ \A i, j \in 1..Len(ImportTypes) : ImportTypes[i] = ImportTypes[j] => i = j
  /\ None # Dead /\ None \notin Nodes /\ Dead \notin Nodes
  /\ \A n \in Nodes : Payload[n] # None
  /\ {MaxStarts, MaxFaults} \subseteq Nat

VARIABLES
  at,       \* the next step of each node, see Step
  late,     \* nodes whose bootstrap has timed out, but still runs
  type,     \* the position in ImportTypes a node is at
  saw,      \* the records of that type a node has read: [cache, doc]
  secret,   \* kuzzle.secret of each node
  cells,    \* Redis: the keys of the mutexes
  own,      \* mutexes whose _locked is true
  cache,    \* Redis: backend:init:import:<type>, the hash of what was imported
  es,       \* the storage, see Storage
  imported, \* history: the payloads whose import has ended, by type
  installs, \* history: number of times the installation handler has ended
  starts,
  failures, \* crashes, and commands the storage has failed to execute
  lapses    \* locks whose TTL ended while their holder lived

nodeVars    == <<at, late, type, saw, secret, own>>
faults      == <<failures, lapses>>
history     == <<imported, installs>>
startupVars == <<nodeVars, cells, cache, es, history, starts, faults>>

(***************************************************************************)
(* collections: those of the internal index were created; seed, version,   *)
(* done: documents of its config collection; hashes: its imports           *)
(* collection; installed: the document of the installation.                *)
(***************************************************************************)
Hashes == {Payload[n] : n \in Nodes}
Storage ==
  [collections : BOOLEAN, seed : Nodes \cup {None}, version : BOOLEAN, done : BOOLEAN,
   hashes : [Types -> Hashes \cup {None}], installed : BOOLEAN]

Bootstrapping == {"secret", "newSecret", "version"}
Importing == {"readCache", "readDoc", "lockImport", "import", "record", "recordCache"}
Step ==
  {"down", "lockStore", "create", "unlockStore", "waitStore",
   "lockBootstrap", "bootstrap", "onlySecret", "onlyNewSecret", "done", "unlockBootstrap",
   "lockJoin", "handshake", "waitImports", "unlockImports",
   "lockInstall", "install", "handler", "recordInstall", "unlockInstall",
   "abort", "failed", "ready"} \cup Bootstrapping \cup Importing

Nothing == [cache |-> None, doc |-> None]

Init ==
  /\ at = [n \in Nodes |-> "down"]
  /\ late = {}
  /\ type = [n \in Nodes |-> 1]
  /\ saw = [n \in Nodes |-> Nothing]
  /\ secret = [n \in Nodes |-> None]
  /\ cells = NoLock
  /\ own = [n \in Nodes |-> {}]
  /\ cache = [t \in Types |-> None]
  /\ es = [collections |-> FALSE, seed |-> None, version |-> FALSE, done |-> FALSE,
           hashes |-> [t \in Types |-> None], installed |-> FALSE]
  /\ imported = [t \in Types |-> {}]
  /\ installs = 0
  /\ starts = 0 /\ failures = 0 /\ lapses = 0

-----------------------------------------------------------------------------
Goes(n, from, to) == at[n] = from /\ at' = [at EXCEPT ![n] = to]

\* lock() is granted at one of its attempts.
Locks(n, r) ==
  /\ CanTake(cells, r)
  /\ cells' = Take(cells, n, r)
  /\ own' = [own EXCEPT ![n] = @ \cup {r}]

\* unlock().
Unlocks(n, rs) ==
  /\ cells' = Release(cells, n, rs)
  /\ own' = [own EXCEPT ![n] = @ \ rs]

Locking(n, from, r, to) ==
  /\ Goes(n, from, to) /\ Locks(n, r)
  /\ UNCHANGED <<late, type, saw, secret, cache, es, history, starts, faults>>

Unlocking(n, from, rs, to) ==
  /\ Goes(n, from, to) /\ Unlocks(n, rs)
  /\ UNCHANGED <<late, type, saw, secret, cache, es, history, starts, faults>>

\* A step that changes nothing that is shared.
Moving(n, from, to) ==
  /\ Goes(n, from, to)
  /\ UNCHANGED <<late, type, saw, secret, own, cells, cache, es, history, starts, faults>>

\* A document is created: an error if it exists.
Creating(n, from, exists, field, value, to) ==
  /\ IF exists
     THEN Goes(n, from, IF n \in late THEN "failed" ELSE "abort") /\ UNCHANGED es
     ELSE Goes(n, from, to) /\ es' = [es EXCEPT ![field] = value]
  /\ UNCHANGED <<late, type, saw, own, cells, cache, history, starts, faults>>

-----------------------------------------------------------------------------
(* Processes and locks.                                                    *)

Faulty == failures + lapses < MaxFaults

Start(n) ==
  /\ at[n] \in {"down", "failed"} /\ starts < MaxStarts
  /\ at' = [at EXCEPT ![n] = "lockStore"]
  /\ starts' = starts + 1
  /\ late' = late \ {n}
  /\ secret' = [secret EXCEPT ![n] = None]
  /\ UNCHANGED <<type, saw, own, cells, cache, es, history, faults>>

Crash(n) ==
  /\ at[n] \notin {"down", "failed"} /\ Faulty
  /\ at' = [at EXCEPT ![n] = "down"]
  /\ failures' = failures + 1
  /\ cells' = Abandon(cells, n, own[n])
  /\ own' = [own EXCEPT ![n] = {}]
  /\ late' = late \ {n}
  /\ type' = [type EXCEPT ![n] = 1] /\ saw' = [saw EXCEPT ![n] = Nothing]
  /\ secret' = [secret EXCEPT ![n] = None]
  /\ UNCHANGED <<cache, es, history, starts, lapses>>

\* Mutant: the key of a mutex has no TTL; it is lost when Redis evicts it.
Lapse_NoTTL(r) ==
  /\ cells[r] \in Nodes /\ Faulty
  /\ lapses' = lapses + 1
  /\ cells' = Drop(cells, r)
  /\ UNCHANGED <<nodeVars, cache, es, history, starts, failures>>

\* The TTL of a lock is over: its holder is gone, or is still at work.
Lapse(r) ==
  /\ cells[r] # None
  /\ \/ cells[r] = Dead /\ UNCHANGED lapses
     \/ cells[r] # Dead /\ Faulty /\ lapses' = lapses + 1
  /\ cells' = Drop(cells, r)
  /\ UNCHANGED <<nodeVars, cache, es, history, starts, failures>>

\* The next step of node n is a command sent to the storage.
AsksStorage(n) ==
  \/ at[n] \in {"create", "bootstrap", "onlySecret", "onlyNewSecret", "done", "readDoc",
               "install", "recordInstall"} \cup Bootstrapping
  \/ at[n] = "record" /\ saw[n].doc = None
  \/ at[n] = "recordCache" /\ saw[n].cache = None /\ saw[n].doc # None

\* That command fails, without effect: the start does too.
StorageError(n) ==
  /\ AsksStorage(n) /\ Faulty
  /\ at' = [at EXCEPT ![n] = IF n \in late THEN "failed" ELSE "abort"]
  /\ failures' = failures + 1
  /\ UNCHANGED <<late, type, saw, secret, own, cells, cache, es, history, starts, lapses>>

\* The finally blocks of a start that has failed.
Abort(n) ==
  /\ Goes(n, "abort", "failed") /\ Unlocks(n, own[n])
  /\ type' = [type EXCEPT ![n] = 1] /\ saw' = [saw EXCEPT ![n] = Nothing]
  /\ UNCHANGED <<late, secret, cache, es, history, starts, faults>>

-----------------------------------------------------------------------------
(* Store.init: one node creates the collections, the others wait for the   *)
(* lock to be free.                                                        *)

StoreLock(n) == Locking(n, "lockStore", "Store.init", "create")

StoreBusy(n) ==
  ~CanTake(cells, "Store.init") /\ Moving(n, "lockStore", "waitStore")

StoreCreate(n) ==
  /\ Goes(n, "create", "unlockStore")
  /\ es' = [es EXCEPT !.collections = TRUE]
  /\ UNCHANGED <<late, type, saw, secret, own, cells, cache, history, starts, faults>>

StoreUnlock(n) == Unlocking(n, "unlockStore", {"Store.init"}, "lockBootstrap")

\* Mutant: a node that is not let in does not wait.
StoreWait_Not(n) == Moving(n, "waitStore", "lockBootstrap")

StoreWait(n) ==
  IsFree(cells, "Store.init") /\ Moving(n, "waitStore", "lockBootstrap")

-----------------------------------------------------------------------------
(* InternalIndexHandler.init.                                              *)

BootstrapLock(n) == Locking(n, "lockBootstrap", "InternalIndexBootstrap", "bootstrap")

\* Is the bootstrap done? If not, the initial securities and validations are
\* written first: createOrReplace, the same every time.
Bootstrap(n) == Moving(n, "bootstrap", IF es.done THEN "onlySecret" ELSE "secret")

\* _initSecret, without a secret in the configuration: is there one in the storage?
SecretLook(n, from, new, to) ==
  /\ Goes(n, from, IF es.seed = None THEN new ELSE to)
  /\ secret' = [secret EXCEPT ![n] = es.seed]
  /\ UNCHANGED <<late, type, saw, own, cells, cache, es, history, starts, faults>>

\* Mutant: the secret replaces the one another node has created.
SecretCreate_Replace(n, from, to) ==
  /\ Creating(n, from, FALSE, "seed", n, to)
  /\ secret' = [secret EXCEPT ![n] = n]

\* The secret a node creates is read again from the storage.
SecretCreate(n, from, to) ==
  /\ Creating(n, from, es.seed # None, "seed", n, to)
  /\ secret' = IF es.seed = None THEN [secret EXCEPT ![n] = n] ELSE secret

Secret(n) ==
  \/ SecretLook(n, "onlySecret", "onlyNewSecret", "unlockBootstrap")
  \/ SecretCreate(n, "onlyNewSecret", "unlockBootstrap")
  \/ SecretLook(n, "secret", "newSecret", "version")
  \/ SecretCreate(n, "newSecret", "version")

\* The last document of _bootstrapSequence. When that has timed out, init does not
\* wait for it any more.
VersionCreate(n) ==
  /\ Creating(n, "version", es.version, "version", TRUE, IF n \in late THEN "failed" ELSE "done")
  /\ UNCHANGED secret

DoneCreate(n) ==
  Creating(n, "done", es.done, "done", TRUE, "unlockBootstrap") /\ UNCHANGED secret

\* The timeout of _bootstrapSequence: init unlocks and fails, the sequence goes on.
BootstrapTimeout(n) ==
  /\ at[n] \in Bootstrapping /\ n \notin late
  /\ late' = late \cup {n}
  /\ Unlocks(n, {"InternalIndexBootstrap"})
  /\ UNCHANGED <<at, type, saw, secret, cache, es, history, starts, faults>>

BootstrapUnlock(n) ==
  Unlocking(n, "unlockBootstrap", {"InternalIndexBootstrap"}, "lockJoin")

-----------------------------------------------------------------------------
(* ClusterNode.handshake.                                                  *)

JoinLock(n) == Locking(n, "lockJoin", "clusterHandshake", "handshake")

\* lock() gives up after joinTimeout; its result is not looked at.
JoinGiveUp(n) ==
  ~CanTake(cells, "clusterHandshake") /\ Moving(n, "lockJoin", "handshake")

\* The handshake is over: unlock() throws if the mutex was not locked.
Handshake(n) ==
  IF "clusterHandshake" \in own[n]
  THEN Unlocking(n, "handshake", {"clusterHandshake"}, "readCache")
  ELSE Moving(n, "handshake", "failed")

-----------------------------------------------------------------------------
(* loadInitialState.                                                       *)

Type(n) == ImportTypes[type[n]]

\* Mutant: one type too many.
NextType_OffByOne(n, from) ==
  /\ IF type[n] <= Len(ImportTypes)
     THEN Goes(n, from, "readCache") /\ type' = [type EXCEPT ![n] = @ + 1]
     ELSE Goes(n, from, "waitImports") /\ type' = [type EXCEPT ![n] = 1]
  /\ saw' = [saw EXCEPT ![n] = Nothing]

\* The next type, or the end of the loop.
NextType(n, from) ==
  /\ IF type[n] < Len(ImportTypes)
     THEN Goes(n, from, "readCache") /\ type' = [type EXCEPT ![n] = @ + 1]
     ELSE Goes(n, from, "waitImports") /\ type' = [type EXCEPT ![n] = 1]
  /\ saw' = [saw EXCEPT ![n] = Nothing]

ImportReadCache(n) ==
  /\ Goes(n, "readCache", "readDoc")
  /\ saw' = [saw EXCEPT ![n].cache = cache[Type(n)]]
  /\ UNCHANGED <<late, type, secret, own, cells, cache, es, history, starts, faults>>

ImportReadDoc(n) ==
  /\ Goes(n, "readDoc", "lockImport")
  /\ saw' = [saw EXCEPT ![n].doc = es.hashes[Type(n)]]
  /\ UNCHANGED <<late, type, secret, own, cells, cache, es, history, starts, faults>>

\* What the node has read says that its payload was imported.
Initialized(n) ==
  IF saw[n].cache # None THEN saw[n].cache = Payload[n] ELSE saw[n].doc = Payload[n]

ImportLock(n) == Locking(n, "lockImport", Type(n), "import")

\* Another node imports this type.
ImportBusy(n) ==
  /\ ~CanTake(cells, Type(n))
  /\ NextType(n, "lockImport")
  /\ UNCHANGED <<late, secret, own, cells, cache, es, history, starts, faults>>

\* The import method: what was imported already is only loaded in the index cache.
Import(n) ==
  /\ Goes(n, "import", "record")
  /\ imported' = IF Initialized(n) THEN imported
                 ELSE [imported EXCEPT ![Type(n)] = @ \cup {Payload[n]}]
  /\ UNCHANGED <<late, type, saw, secret, own, cells, cache, es, installs, starts, faults>>

\* The import method throws: its mutex is not among those the finally block unlocks.
ImportError(n) ==
  /\ Goes(n, "import", "abort")
  /\ cells' = Abandon(cells, n, {Type(n)})
  /\ own' = [own EXCEPT ![n] = @ \ {Type(n)}]
  /\ UNCHANGED <<late, type, saw, secret, cache, es, history, starts, faults>>

\* It is called, and may throw, without the mutex too.
ImportBusyError(n) == ~CanTake(cells, Type(n)) /\ Moving(n, "lockImport", "abort")

\* persistHashedImport, as far as the storage goes: a hash is written if the node
\* had found none, the one of Redis if there is one.
RecordDoc(n) ==
  /\ saw[n].doc = None
  /\ Creating(n, "record", es.hashes[Type(n)] # None, "hashes",
              [es.hashes EXCEPT ![Type(n)] = IF saw[n].cache = None THEN Payload[n]
                                             ELSE cache[Type(n)]],
              "recordCache")
  /\ UNCHANGED secret

RecordKnown(n) == saw[n].doc # None /\ Moving(n, "record", "recordCache")

\* Mutant: Redis is told the hash of the node, whatever was imported.
RecordCache_Payload(n) ==
  /\ NextType(n, "recordCache")
  /\ cache' = [cache EXCEPT ![Type(n)] = Payload[n]]
  /\ UNCHANGED <<late, secret, own, cells, es, history, starts, faults>>

\* persistHashedImport, as far as Redis goes.
RecordCache(n) ==
  /\ NextType(n, "recordCache")
  /\ cache' = IF saw[n].cache # None THEN cache
              ELSE [cache EXCEPT ![Type(n)] = IF saw[n].doc = None THEN Payload[n]
                                              ELSE es.hashes[Type(n)]]
  /\ UNCHANGED <<late, secret, own, cells, es, history, starts, faults>>

\* _waitForImportToFinish: it returns at the first type that is recorded, or when
\* it has waited once for each type.
ImportWait(n) ==
  /\ IF cache[Type(n)] # None \/ type[n] = Len(ImportTypes)
     THEN Goes(n, "waitImports", "unlockImports") /\ type' = [type EXCEPT ![n] = 1]
     ELSE Goes(n, "waitImports", "waitImports") /\ type' = [type EXCEPT ![n] = @ + 1]
  /\ UNCHANGED <<late, saw, secret, own, cells, cache, es, history, starts, faults>>

ImportUnlock(n) == Unlocking(n, "unlockImports", Types, "lockInstall")

-----------------------------------------------------------------------------
(* install, with one installation.                                         *)

InstallLock(n) == Locking(n, "lockInstall", "backend:installations", "install")

\* Mutant: the document of the installation is not looked for.
InstallCheck_Not(n) == Moving(n, "install", "handler")

InstallCheck(n) == Moving(n, "install", IF es.installed THEN "unlockInstall" ELSE "handler")

InstallHandler(n) ==
  /\ Goes(n, "handler", "recordInstall")
  /\ installs' = installs + 1
  /\ UNCHANGED <<late, type, saw, secret, own, cells, cache, es, imported, starts, faults>>

\* The handler throws.
InstallError(n) == Moving(n, "handler", "abort")

InstallRecord(n) ==
  /\ Creating(n, "recordInstall", es.installed, "installed", TRUE, "unlockInstall")
  /\ UNCHANGED secret

InstallUnlock(n) == Unlocking(n, "unlockInstall", {"backend:installations"}, "ready")

-----------------------------------------------------------------------------
\* What the start of node n does next.
Advance(n) ==
  \/ StoreLock(n) \/ StoreBusy(n) \/ StoreCreate(n) \/ StoreUnlock(n) \/ StoreWait(n)
  \/ BootstrapLock(n) \/ Bootstrap(n) \/ Secret(n) \/ VersionCreate(n) \/ DoneCreate(n)
  \/ BootstrapUnlock(n)
  \/ JoinLock(n) \/ JoinGiveUp(n) \/ Handshake(n)
  \/ ImportReadCache(n) \/ ImportReadDoc(n) \/ ImportLock(n) \/ ImportBusy(n) \/ Import(n)
  \/ ImportError(n) \/ ImportBusyError(n) \/ RecordDoc(n) \/ RecordKnown(n) \/ RecordCache(n)
  \/ ImportWait(n) \/ ImportUnlock(n)
  \/ InstallLock(n) \/ InstallCheck(n) \/ InstallHandler(n) \/ InstallError(n)
  \/ InstallRecord(n) \/ InstallUnlock(n)
  \/ Abort(n)

Next ==
  \/ \E n \in Nodes : Start(n) \/ Crash(n) \/ StorageError(n) \/ BootstrapTimeout(n) \/ Advance(n)
  \/ \E r \in Resources : Lapse(r)

Spec == Init /\ [][Next]_startupVars

\* A process that is alive goes on, and the TTL of the lock of one that is gone ends.
FairSpec ==
  /\ Spec
  /\ \A n \in Nodes : WF_startupVars(Advance(n))
  /\ \A r \in Resources : WF_startupVars(Lapse(r) /\ cells[r] = Dead)

-----------------------------------------------------------------------------
(* Properties.                                                             *)

\* Every variable has its type (the variables of the start of Kuzzle).
TypeOK ==
  /\ at \in [Nodes -> Step] /\ late \subseteq Nodes
  /\ type \in [Nodes -> 1..Len(ImportTypes)]
  /\ saw \in [Nodes -> [cache : Hashes \cup {None}, doc : Hashes \cup {None}]]
  /\ secret \in [Nodes -> Nodes \cup {None}]
  /\ cells \in Cells /\ own \in [Nodes -> SUBSET Resources]
  /\ cache \in [Types -> Hashes \cup {None}] /\ es \in Storage
  /\ imported \in [Types -> SUBSET Hashes] /\ installs \in Nat
  /\ {starts, failures, lapses} \subseteq Nat

\* The mutexes as lib/util/mutex.ts promises them to be.
L == INSTANCE Lock WITH Procs <- Nodes, holder <- cells, inside <- own

\* Every use the start makes of its mutexes, the failures, crashes and timeouts
\* included, is one that abstract locks allow (lib/util/mutex.ts, delIfValueEqual:
\* a node never frees the lock of another one).
LocksImplement == L!Spec

\* Until the TTL of a lock has ended under a node that still works, no two nodes
\* are inside the same mutex.
OneInside ==
  lapses = 0 =>
    \A r \in Resources, m, n \in Nodes : r \in own[m] /\ r \in own[n] => m = n

\* A node that has gone past the bootstrap: it answers with tokens of its own.
Past(n) == at[n] \in {"unlockBootstrap", "lockJoin", "handshake", "waitImports", "unlockImports",
                     "lockInstall", "install", "handler", "recordInstall", "unlockInstall",
                     "ready"} \cup Importing

\* Every node that joins the cluster signs its tokens with the secret of the storage,
\* so with the same one, whatever has crashed, timed out or run twice in the
\* bootstrap (InternalIndexHandler._initSecret).
SecretsAgree ==
  \A n \in Nodes :
    /\ secret[n] # None => secret[n] = es.seed
    /\ Past(n) => secret[n] # None

\* A bootstrap that is marked as done is complete.
DoneComplete == es.done => es.version /\ es.seed # None

\* What Redis and the storage record as imported is the same payload, and one whose
\* import has ended.
RecordsTrue ==
  \A t \in Types :
    /\ cache[t] # None => cache[t] = es.hashes[t]
    /\ es.hashes[t] # None => es.hashes[t] \in imported[t]

\* What is marked as done is done, because the mark makes every later start skip it:
\* the bootstrap (InternalIndexHandler.init) and the imports
\* (Kuzzle.persistHashedImport).
MarksTrue == DoneComplete /\ RecordsTrue

\* The installation handler runs again only if a node crashed after it, its record
\* could not be written, or the TTL of the mutex ended during it (Kuzzle.install).
InstallOnce == installs <= 1 + failures + lapses

\* As long as no node crashes, no TTL ends too early and the storage answers, a node
\* that waited for another one to create the collections of the internal index finds
\* them created (Store.init): the lock it waits for is not freed before.
StoreCreated ==
  failures = 0 /\ lapses = 0 =>
    \A n \in Nodes :
      Past(n) \/ at[n] \in {"lockBootstrap", "bootstrap"} \cup Bootstrapping => es.collections

\* A start ends: no mutex that another node holds, has left behind, or has lost makes
\* a node wait forever (Kuzzle.start).
StartEnds ==
  \A n \in Nodes : at[n] = "lockStore" ~> at[n] \in {"ready", "failed", "down"}
=============================================================================
