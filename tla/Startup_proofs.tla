--------------------------- MODULE Startup_proofs ---------------------------
(***************************************************************************)
(* Proofs about the start of a cluster, for any set of nodes, of types to  *)
(* import and of payloads, and any number of starts, failures and lapses.  *)
(***************************************************************************)
EXTENDS Startup, TLAPS, FiniteSetTheorems

\* The types to import name mutexes, like the resources of the other steps.
LEMMA TypesFacts ==
  /\ \A i \in 1..Len(ImportTypes) : ImportTypes[i] \in Types
  /\ Len(ImportTypes) \in Nat \ {0}
  /\ Types \subseteq Resources
  /\ \A n \in Nodes : Payload[n] \in Hashes /\ Payload[n] # None
  BY StartupAssumption DEF Types, Range, Resources, Hashes

\* What a document adds to the storage.
LEMMA StorageTypes ==
  ASSUME TypeOK
  PROVE  /\ \A n \in Nodes : [es EXCEPT !["seed"] = n] \in Storage
         /\ \A f \in {"version", "done", "installed"} : [es EXCEPT ![f] = TRUE] \in Storage
         /\ \A h \in [Types -> Hashes \cup {None}] : [es EXCEPT !["hashes"] = h] \in Storage
<1>1. es \in [collections : BOOLEAN, seed : Nodes \cup {None}, version : BOOLEAN,
              done : BOOLEAN, hashes : [Types -> Hashes \cup {None}], installed : BOOLEAN]
  BY DEF TypeOK, Storage
<1>2. \A n \in Nodes : [es EXCEPT !["seed"] = n] \in Storage
  BY <1>1 DEF Storage
<1>3. \A f \in {"version", "done", "installed"} : [es EXCEPT ![f] = TRUE] \in Storage
  BY <1>1 DEF Storage
<1>4. \A h \in [Types -> Hashes \cup {None}] : [es EXCEPT !["hashes"] = h] \in Storage
  BY <1>1 DEF Storage
<1> QED
  BY <1>2, <1>3, <1>4

LEMMA TypeStep ==
  ASSUME TypeOK, [Next]_startupVars
  PROVE  TypeOK'
<1> USE TypesFacts DEF TypeOK, Step, Importing, Bootstrapping
<1> USE DEF history, faults, nodeVars, Nothing
<1>1. ASSUME NEW n \in Nodes, Start(n) PROVE TypeOK'
  BY <1>1 DEF Start
<1>2. ASSUME NEW n \in Nodes, Crash(n) PROVE TypeOK'
  BY <1>2 DEF Crash, Abandon, Cells
<1>3. ASSUME NEW n \in Nodes, Abort(n) PROVE TypeOK'
  BY <1>3 DEF Abort, Unlocks, Release, Goes, Cells
<1>4. ASSUME NEW n \in Nodes, BootstrapTimeout(n) PROVE TypeOK'
  BY <1>4 DEF BootstrapTimeout, Unlocks, Release, Bootstrapping, Cells
<1>5. ASSUME NEW n \in Nodes, StoreLock(n) PROVE TypeOK'
  BY <1>5 DEF StoreLock, Locking, Locks, CanTake, Take, Goes, Cells, Resources
<1>6. ASSUME NEW n \in Nodes, StoreBusy(n) PROVE TypeOK'
  BY <1>6 DEF StoreBusy, Moving, CanTake, Goes
<1>7. ASSUME NEW n \in Nodes, StoreCreate(n) PROVE TypeOK'
  BY <1>7 DEF StoreCreate, Goes, Storage
<1>8. ASSUME NEW n \in Nodes, StoreUnlock(n) PROVE TypeOK'
  BY <1>8 DEF StoreUnlock, Unlocking, Unlocks, Release, Goes, Cells
<1>9. ASSUME NEW n \in Nodes, StoreWait(n) PROVE TypeOK'
  BY <1>9 DEF StoreWait, IsFree, Moving, Goes
<1>10. ASSUME NEW n \in Nodes, BootstrapLock(n) PROVE TypeOK'
  BY <1>10 DEF BootstrapLock, Locking, Locks, CanTake, Take, Goes, Cells, Resources
<1>11. ASSUME NEW n \in Nodes, Bootstrap(n) PROVE TypeOK'
  BY <1>11 DEF Bootstrap, Moving, Goes
<1>12. ASSUME NEW n \in Nodes, Secret(n) PROVE TypeOK'
  <2>1. at' \in [Nodes -> Step]
    <3>1. \E s \in {"abort", "failed", "unlockBootstrap", "version", "newSecret", "onlyNewSecret"} :
             at' = [at EXCEPT ![n] = s]
      BY <1>12 DEF Secret, SecretLook, SecretCreate, Creating, Goes
    <3> QED
      BY <3>1
  <2>2. es' \in Storage
    BY <1>12, StorageTypes DEF Secret, SecretLook, SecretCreate, Creating, Goes
  <2>3. secret' \in [Nodes -> Nodes \cup {None}]
    BY <1>12 DEF Secret, SecretLook, SecretCreate, Creating, Goes, Storage
  <2>4. UNCHANGED <<late, type, saw, cells, own, cache, imported, installs, starts, failures, lapses>>
    BY <1>12 DEF Secret, SecretLook, SecretCreate, Creating, Goes
  <2> QED
    BY <2>1, <2>2, <2>3, <2>4
<1>13. ASSUME NEW n \in Nodes, VersionCreate(n) PROVE TypeOK'
  <2>1. at' \in [Nodes -> Step]
    BY ZenonT(40), <1>13 DEF VersionCreate, Creating, Goes
  <2>2. es' \in Storage
    BY <1>13, StorageTypes DEF VersionCreate, Creating, Goes
  <2>3. UNCHANGED <<late, type, saw, secret, cells, own, cache, imported, installs, starts, failures, lapses>>
    BY <1>13 DEF VersionCreate, Creating, Goes
  <2> QED
    BY <2>1, <2>2, <2>3
<1>14. ASSUME NEW n \in Nodes, DoneCreate(n) PROVE TypeOK'
  <2>1. at' \in [Nodes -> Step]
    <3>1. \E s \in {"abort", "failed", "unlockBootstrap"} : at' = [at EXCEPT ![n] = s]
      BY <1>14 DEF DoneCreate, Creating, Goes
    <3> QED
      BY <3>1
  <2>2. es' \in Storage
    BY <1>14, StorageTypes DEF DoneCreate, Creating, Goes
  <2>3. UNCHANGED <<late, type, saw, secret, cells, own, cache, imported, installs, starts, failures, lapses>>
    BY <1>14 DEF DoneCreate, Creating, Goes
  <2> QED
    BY <2>1, <2>2, <2>3
<1>15. ASSUME NEW n \in Nodes, BootstrapUnlock(n) PROVE TypeOK'
  BY <1>15 DEF BootstrapUnlock, Unlocking, Unlocks, Release, Goes, Cells
<1>16. ASSUME NEW n \in Nodes, JoinLock(n) PROVE TypeOK'
  BY <1>16 DEF JoinLock, Locking, Locks, CanTake, Take, Goes, Cells, Resources
<1>17. ASSUME NEW n \in Nodes, JoinGiveUp(n) PROVE TypeOK'
  BY <1>17 DEF JoinGiveUp, Moving, Goes
<1>18. ASSUME NEW n \in Nodes, Handshake(n) PROVE TypeOK'
  <2>1. CASE "clusterHandshake" \in own[n]
    BY <1>18, <2>1 DEF Handshake, Unlocking, Unlocks, Release, Goes, Cells
  <2>2. CASE "clusterHandshake" \notin own[n]
    BY <1>18, <2>2 DEF Handshake, Moving, Goes
  <2> QED
    BY <2>1, <2>2
<1>19. ASSUME NEW n \in Nodes, ImportReadCache(n) PROVE TypeOK'
  BY <1>19 DEF ImportReadCache, Type, Goes
<1>20. ASSUME NEW n \in Nodes, ImportReadDoc(n) PROVE TypeOK'
  BY <1>20 DEF ImportReadDoc, Type, Goes, Storage
<1>21. ASSUME NEW n \in Nodes, ImportLock(n) PROVE TypeOK'
  BY <1>21 DEF ImportLock, Locking, Locks, CanTake, Take, Type, Goes, Cells, Resources
<1>22. ASSUME NEW n \in Nodes, ImportBusy(n) PROVE TypeOK'
  <2>1. at' \in [Nodes -> Step]
    BY <1>22 DEF ImportBusy, NextType, Goes
  <2>2. type' \in [Nodes -> 1..Len(ImportTypes)]
    <3>1. type' = [type EXCEPT ![n] = @ + 1] \/ type' = [type EXCEPT ![n] = 1]
          \/ type' = type
      BY <1>22 DEF ImportBusy, NextType, Goes
    <3>2. type' = [type EXCEPT ![n] = @ + 1] => type[n] < Len(ImportTypes)
      BY <1>22 DEF ImportBusy, NextType, Goes
    <3>3. type[n] < Len(ImportTypes) => type[n] + 1 \in 1..Len(ImportTypes)
      OBVIOUS
    <3> QED
      BY <3>1, <3>2, <3>3
  <2>3. saw' \in [Nodes -> [cache : Hashes \cup {None}, doc : Hashes \cup {None}]]
    BY <1>22 DEF ImportBusy, NextType, Goes
  <2>4. cache' \in [Types -> Hashes \cup {None}]
    BY <1>22 DEF ImportBusy, NextType, Goes
  <2> QED
    BY <1>22, <2>1, <2>2, <2>3, <2>4 DEF ImportBusy
<1>23. ASSUME NEW n \in Nodes, Import(n) PROVE TypeOK'
  BY <1>23 DEF Import, Initialized, Type, Goes
<1>24. ASSUME NEW n \in Nodes, ImportError(n) PROVE TypeOK'
  BY <1>24 DEF ImportError, Abandon, Type, Goes, Cells
<1>25. ASSUME NEW n \in Nodes, RecordDoc(n) PROVE TypeOK'
  <2>1. at' \in [Nodes -> Step]
    BY ZenonT(40), <1>25 DEF RecordDoc, Creating, Type, Goes
  <2>2. es' \in Storage
    <3> DEFINE h == IF saw[n].cache = None THEN Payload[n] ELSE cache[Type(n)]
    <3>1. h \in Hashes \cup {None}
      BY DEF Type
    <3>2. [es.hashes EXCEPT ![Type(n)] = h] \in [Types -> Hashes \cup {None}]
      BY <3>1 DEF Storage
    <3>3. es' = es \/ es' = [es EXCEPT !["hashes"] = [es.hashes EXCEPT ![Type(n)] = h]]
      BY <1>25 DEF RecordDoc, Creating
    <3> HIDE DEF h
    <3> QED
      BY ZenonT(40), <3>2, <3>3, StorageTypes
  <2>3. UNCHANGED <<late, type, saw, secret, cells, own, cache, imported, installs, starts, failures, lapses>>
    BY <1>25 DEF RecordDoc, Creating, Type, Goes
  <2> QED
    BY <2>1, <2>2, <2>3
<1>26. ASSUME NEW n \in Nodes, RecordKnown(n) PROVE TypeOK'
  BY <1>26 DEF RecordKnown, Moving, Goes
<1>27. ASSUME NEW n \in Nodes, RecordCache(n) PROVE TypeOK'
  <2>1. at' \in [Nodes -> Step]
    BY <1>27 DEF RecordCache, NextType, Type, Goes, Storage
  <2>2. type' \in [Nodes -> 1..Len(ImportTypes)]
    <3>1. type' = [type EXCEPT ![n] = @ + 1] \/ type' = [type EXCEPT ![n] = 1]
          \/ type' = type
      BY <1>27 DEF RecordCache, NextType, Type, Goes, Storage
    <3>2. type' = [type EXCEPT ![n] = @ + 1] => type[n] < Len(ImportTypes)
      BY <1>27 DEF RecordCache, NextType, Type, Goes, Storage
    <3>3. type[n] < Len(ImportTypes) => type[n] + 1 \in 1..Len(ImportTypes)
      OBVIOUS
    <3> QED
      BY <3>1, <3>2, <3>3
  <2>3. saw' \in [Nodes -> [cache : Hashes \cup {None}, doc : Hashes \cup {None}]]
    BY <1>27 DEF RecordCache, NextType, Type, Goes, Storage
  <2>4. cache' \in [Types -> Hashes \cup {None}]
    BY <1>27 DEF RecordCache, NextType, Type, Goes, Storage
  <2> QED
    BY <1>27, <2>1, <2>2, <2>3, <2>4 DEF RecordCache
<1>28. ASSUME NEW n \in Nodes, ImportWait(n) PROVE TypeOK'
  <2>1. at' \in [Nodes -> Step]
    BY ZenonT(40), <1>28 DEF ImportWait, Goes
  <2>2. type' \in [Nodes -> 1..Len(ImportTypes)]
    <3>1. type' = [type EXCEPT ![n] = @ + 1] \/ type' = [type EXCEPT ![n] = 1]
          \/ type' = type
      BY <1>28 DEF ImportWait, Goes
    <3>2. type' = [type EXCEPT ![n] = @ + 1] => type[n] < Len(ImportTypes)
      BY <1>28 DEF ImportWait, Goes
    <3>3. type[n] < Len(ImportTypes) => type[n] + 1 \in 1..Len(ImportTypes)
      OBVIOUS
    <3> QED
      BY <3>1, <3>2, <3>3
  <2>3. saw' \in [Nodes -> [cache : Hashes \cup {None}, doc : Hashes \cup {None}]]
    BY <1>28 DEF ImportWait, Goes
  <2>4. cache' \in [Types -> Hashes \cup {None}]
    BY <1>28 DEF ImportWait, Goes
  <2> QED
    BY <1>28, <2>1, <2>2, <2>3, <2>4 DEF ImportWait
<1>29. ASSUME NEW n \in Nodes, ImportUnlock(n) PROVE TypeOK'
  BY <1>29 DEF ImportUnlock, Unlocking, Unlocks, Release, Goes, Cells
<1>30. ASSUME NEW n \in Nodes, InstallLock(n) PROVE TypeOK'
  BY <1>30 DEF InstallLock, Locking, Locks, CanTake, Take, Goes, Cells, Resources
<1>31. ASSUME NEW n \in Nodes, InstallCheck(n) PROVE TypeOK'
  BY <1>31 DEF InstallCheck, Moving, Goes
<1>32. ASSUME NEW n \in Nodes, InstallHandler(n) PROVE TypeOK'
  BY <1>32 DEF InstallHandler, Goes
<1>33. ASSUME NEW n \in Nodes, InstallError(n) PROVE TypeOK'
  BY <1>33 DEF InstallError, Moving, Goes
<1>34. ASSUME NEW n \in Nodes, InstallRecord(n) PROVE TypeOK'
  <2>1. at' \in [Nodes -> Step]
    BY <1>34 DEF InstallRecord, Creating, Goes
  <2>2. es' \in Storage
    BY <1>34, StorageTypes DEF InstallRecord, Creating, Goes
  <2>3. UNCHANGED <<late, type, saw, secret, cells, own, cache, imported, installs, starts, failures, lapses>>
    BY <1>34 DEF InstallRecord, Creating, Goes
  <2> QED
    BY <2>1, <2>2, <2>3
<1>35. ASSUME NEW n \in Nodes, InstallUnlock(n) PROVE TypeOK'
  BY <1>35 DEF InstallUnlock, Unlocking, Unlocks, Release, Goes, Cells
<1>36. ASSUME NEW r \in Resources, Lapse(r) PROVE TypeOK'
  BY <1>36 DEF Lapse, Drop, Cells
<1>38. ASSUME NEW n \in Nodes, StorageError(n) PROVE TypeOK'
  BY <1>38 DEF StorageError
<1>39. ASSUME NEW n \in Nodes, ImportBusyError(n) PROVE TypeOK'
  BY <1>39 DEF ImportBusyError, Moving, Goes
<1>37. CASE UNCHANGED startupVars
  BY <1>37 DEF startupVars
<1> QED
  BY <1>1, <1>2, <1>3, <1>4, <1>5, <1>6, <1>7, <1>8, <1>9, <1>10, <1>11, <1>12, <1>13, <1>14, <1>15, <1>16, <1>17, <1>18, <1>19, <1>20, <1>21, <1>22, <1>23, <1>24, <1>25, <1>26, <1>27, <1>28, <1>29, <1>30, <1>31, <1>32, <1>33, <1>34, <1>35, <1>36, <1>37, <1>38, <1>39 DEF Next, Advance
-----------------------------------------------------------------------------
\* Where a node is tells which mutexes it may be inside of.
OwnAt(n) ==
  /\ at[n] \in {"down", "lockStore", "waitStore", "lockBootstrap", "lockJoin",
                "lockInstall", "failed", "ready"} => own[n] = {}
  /\ at[n] \in {"create", "unlockStore"} => own[n] \subseteq {"Store.init"}
  /\ at[n] \in {"bootstrap", "onlySecret", "onlyNewSecret", "done", "unlockBootstrap"}
               \cup Bootstrapping => own[n] \subseteq {"InternalIndexBootstrap"}
  /\ at[n] = "handshake" => own[n] \subseteq {"clusterHandshake"}
  /\ at[n] \in {"readCache", "readDoc", "lockImport"} =>
       own[n] \subseteq {ImportTypes[i] : i \in 1..(type[n] - 1)}
  /\ at[n] \in {"import", "record", "recordCache"} =>
       own[n] \subseteq {ImportTypes[i] : i \in 1..type[n]}
  /\ at[n] \in {"waitImports", "unlockImports"} => own[n] \subseteq Types
  /\ at[n] \in {"install", "handler", "recordInstall", "unlockInstall"} =>
       own[n] \subseteq {"backend:installations"}

\* A bootstrap that has timed out runs without its mutex.
LateOut ==
  \A n \in late : at[n] \in Bootstrapping \cup {"failed"} /\ own[n] = {}

\* The key of a mutex is that of a node which is inside.
HolderInside == \A r \in Resources, n \in Nodes : cells[r] = n => r \in own[n]

OwnInv == TypeOK /\ LateOut /\ HolderInside /\ \A n \in Nodes : OwnAt(n)

\* A step of node n that leaves the mutexes alone.
LEMMA OwnSame ==
  ASSUME OwnInv, TypeOK', NEW n \in Nodes, UNCHANGED <<own, cells, late>>,
         \A m \in Nodes \ {n} : at'[m] = at[m] /\ type'[m] = type[m],
         OwnAt(n)', n \in late => at'[n] \in Bootstrapping \cup {"failed"}
  PROVE  OwnInv'
<1>1. LateOut'
  BY DEF OwnInv, LateOut, TypeOK
<1>2. HolderInside'
  BY DEF OwnInv, HolderInside
<1>3. ASSUME NEW m \in Nodes PROVE OwnAt(m)'
  BY DEF OwnInv, OwnAt, Bootstrapping
<1> QED
  BY <1>1, <1>2, <1>3 DEF OwnInv

LEMMA OwnStep ==
  ASSUME OwnInv, [Next]_startupVars
  PROVE  OwnInv'
<1> USE TypesFacts, StartupAssumption DEF OwnInv, LateOut, HolderInside, OwnAt, Importing, Bootstrapping
<1> USE DEF history, faults, nodeVars, Nothing
<1>0. TypeOK'
  BY TypeStep
<1>t. at \in [Nodes -> Step] /\ late \subseteq Nodes /\ own \in [Nodes -> SUBSET Resources]
      /\ cells \in [Resources -> Nodes \cup {None, Dead}]
      /\ type \in [Nodes -> 1..Len(ImportTypes)]
  BY DEF TypeOK, Cells
<1>1. ASSUME NEW n \in Nodes, Start(n) PROVE OwnInv'
  BY <1>1, <1>0, <1>t DEF Start
<1>2. ASSUME NEW n \in Nodes, Crash(n) PROVE OwnInv'
  BY <1>2, <1>0, <1>t DEF Crash, Abandon
<1>3. ASSUME NEW n \in Nodes, Abort(n) PROVE OwnInv'
  BY <1>3, <1>0, <1>t DEF Abort, Unlocks, Release, Goes
<1>4. ASSUME NEW n \in Nodes, BootstrapTimeout(n) PROVE OwnInv'
  BY <1>4, <1>0, <1>t DEF BootstrapTimeout, Unlocks, Release, Bootstrapping
<1>5. ASSUME NEW n \in Nodes, StoreLock(n) PROVE OwnInv'
  BY <1>5, <1>0, <1>t DEF StoreLock, Locking, Locks, CanTake, Take, Goes
<1>6. ASSUME NEW n \in Nodes, StoreBusy(n) PROVE OwnInv'
  BY <1>6, <1>0, <1>t DEF StoreBusy, Moving, CanTake, Goes
<1>7. ASSUME NEW n \in Nodes, StoreCreate(n) PROVE OwnInv'
  BY <1>7, <1>0, <1>t DEF StoreCreate, Goes
<1>8. ASSUME NEW n \in Nodes, StoreUnlock(n) PROVE OwnInv'
  BY <1>8, <1>0, <1>t DEF StoreUnlock, Unlocking, Unlocks, Release, Goes
<1>9. ASSUME NEW n \in Nodes, StoreWait(n) PROVE OwnInv'
  BY <1>9, <1>0, <1>t DEF StoreWait, IsFree, Moving, Goes
<1>10. ASSUME NEW n \in Nodes, BootstrapLock(n) PROVE OwnInv'
  BY <1>10, <1>0, <1>t DEF BootstrapLock, Locking, Locks, CanTake, Take, Goes
<1>11. ASSUME NEW n \in Nodes, Bootstrap(n) PROVE OwnInv'
  BY <1>11, <1>0, <1>t DEF Bootstrap, Moving, Goes
<1>12. ASSUME NEW n \in Nodes, Secret(n) PROVE OwnInv'
  <2>1. UNCHANGED <<own, cells, late>>
    BY <1>12 DEF Secret, SecretLook, SecretCreate, Creating, Goes
  <2>2. \A m \in Nodes \ {n} : at'[m] = at[m] /\ type'[m] = type[m]
    BY SMTT(30), <1>12, <1>t DEF Secret, SecretLook, SecretCreate, Creating, Goes
  <2>3. \/ /\ at[n] \in {"onlySecret", "onlyNewSecret"}
           /\ at'[n] \in {"onlyNewSecret", "unlockBootstrap", "abort", "failed"}
        \/ /\ at[n] \in {"secret", "newSecret"}
           /\ at'[n] \in {"newSecret", "version", "abort", "failed"}
    BY SMTT(30), <1>12, <1>t DEF Secret, SecretLook, SecretCreate, Creating, Goes
  <2>6. at'[n] = "failed" => n \in late
    BY SMTT(30), <1>12, <1>t DEF Secret, SecretLook, SecretCreate, Creating, Goes
  <2>7. n \in late => at'[n] # "abort"
    BY SMTT(30), <1>12, <1>t DEF Secret, SecretLook, SecretCreate, Creating, Goes
  <2>4. OwnAt(n)'
    BY <2>1, <2>3, <2>6, <1>t
  <2>5. n \in late => at'[n] \in Bootstrapping \cup {"failed"}
    BY <2>3, <2>7, <1>t
  <2> QED
    BY <1>0, <2>1, <2>2, <2>4, <2>5, OwnSame
<1>13. ASSUME NEW n \in Nodes, VersionCreate(n) PROVE OwnInv'
  <2>1. UNCHANGED <<own, cells, late>>
    BY <1>13 DEF VersionCreate, Creating, Goes
  <2>2. \A m \in Nodes \ {n} : at'[m] = at[m] /\ type'[m] = type[m]
    BY <1>13, <1>t DEF VersionCreate, Creating, Goes
  <2>3. at[n] \in {"version"} /\ at'[n] \in {"abort", "failed", "done"}
    BY <1>13, <1>t DEF VersionCreate, Creating, Goes
  <2>6. at'[n] = "failed" => n \in late
    BY <1>13, <1>t DEF VersionCreate, Creating, Goes
  <2>4. OwnAt(n)'
    BY <2>1, <2>3, <1>t, <2>6
  <2>5. n \in late => at'[n] \in Bootstrapping \cup {"failed"}
    BY <1>13, <2>3, <1>t DEF VersionCreate, Creating, Goes
  <2> QED
    BY <1>0, <2>1, <2>2, <2>4, <2>5, OwnSame
<1>14. ASSUME NEW n \in Nodes, DoneCreate(n) PROVE OwnInv'
  <2>1. UNCHANGED <<own, cells, late>>
    BY <1>14 DEF DoneCreate, Creating, Goes
  <2>2. \A m \in Nodes \ {n} : at'[m] = at[m] /\ type'[m] = type[m]
    BY <1>14, <1>t DEF DoneCreate, Creating, Goes
  <2>3. at[n] \in {"done"} /\ at'[n] \in {"abort", "unlockBootstrap", "failed"}
    BY <1>14, <1>t DEF DoneCreate, Creating, Goes
  <2>6. at'[n] = "failed" => n \in late
    BY <1>14, <1>t DEF DoneCreate, Creating, Goes
  <2>4. OwnAt(n)'
    BY <2>1, <2>3, <1>t, <2>6
  <2>5. n \in late => at'[n] \in Bootstrapping \cup {"failed"}
    BY <1>14, <2>3, <1>t DEF DoneCreate, Creating, Goes
  <2> QED
    BY <1>0, <2>1, <2>2, <2>4, <2>5, OwnSame
<1>15. ASSUME NEW n \in Nodes, BootstrapUnlock(n) PROVE OwnInv'
  BY <1>15, <1>0, <1>t DEF BootstrapUnlock, Unlocking, Unlocks, Release, Goes
<1>16. ASSUME NEW n \in Nodes, JoinLock(n) PROVE OwnInv'
  BY <1>16, <1>0, <1>t DEF JoinLock, Locking, Locks, CanTake, Take, Goes
<1>17. ASSUME NEW n \in Nodes, JoinGiveUp(n) PROVE OwnInv'
  BY <1>17, <1>0, <1>t DEF JoinGiveUp, Moving, Goes
<1>18. ASSUME NEW n \in Nodes, Handshake(n) PROVE OwnInv'
  <2>1. /\ own' = [own EXCEPT ![n] = {}] /\ at[n] = "handshake"
        /\ at' = [at EXCEPT ![n] = "readCache"] \/ at' = [at EXCEPT ![n] = "failed"]
        /\ UNCHANGED <<late, type>>
    <3>1. CASE "clusterHandshake" \in own[n]
      BY <1>18, <1>t, <3>1 DEF Handshake, Unlocking, Unlocks, Goes
    <3>2. CASE "clusterHandshake" \notin own[n]
      <4>1. own[n] = {}
        BY <1>18, <3>2, <1>t DEF Handshake, Moving, Goes
      <4> QED
        BY <1>18, <1>t, <3>2, <4>1 DEF Handshake, Moving, Goes
    <3> QED
      BY <3>1, <3>2
  <2>2. \A r \in Resources : cells'[r] = cells[r] \/ (r = "clusterHandshake" /\ cells'[r] = None)
    <3>1. CASE "clusterHandshake" \in own[n]
      BY <1>18, <1>t, <3>1 DEF Handshake, Unlocking, Unlocks, Release, Goes
    <3>2. CASE "clusterHandshake" \notin own[n]
      BY <1>18, <3>2 DEF Handshake, Moving, Goes
    <3> QED
      BY <3>1, <3>2
  <2>3. "clusterHandshake" \in Resources /\ cells'["clusterHandshake"] # n
    <3>0. "clusterHandshake" \in Resources /\ None # n
      BY DEF Resources
    <3>1. CASE "clusterHandshake" \in own[n]
      BY <1>18, <1>t, <3>0, <3>1 DEF Handshake, Unlocking, Unlocks, Release, Goes
    <3>2. CASE "clusterHandshake" \notin own[n]
      BY <1>18, <3>0, <3>2 DEF Handshake, Moving
    <3> QED
      BY <3>0, <3>1, <3>2
  <2>4. HolderInside'
    BY <2>1, <2>2, <2>3, <1>t
  <2>5. LateOut'
    BY <2>1, <1>t
  <2>6. ASSUME NEW m \in Nodes PROVE OwnAt(m)'
    BY <2>1, <1>t
  <2> QED
    BY <1>0, <2>4, <2>5, <2>6
<1>19. ASSUME NEW n \in Nodes, ImportReadCache(n) PROVE OwnInv'
  BY <1>19, <1>0, <1>t DEF ImportReadCache, Type, Goes
<1>20. ASSUME NEW n \in Nodes, ImportReadDoc(n) PROVE OwnInv'
  BY <1>20, <1>0, <1>t DEF ImportReadDoc, Type, Goes
<1>21. ASSUME NEW n \in Nodes, ImportLock(n) PROVE OwnInv'
  BY <1>21, <1>0, <1>t DEF ImportLock, Locking, Locks, CanTake, Take, Type, Goes
<1>22. ASSUME NEW n \in Nodes, ImportBusy(n) PROVE OwnInv'
  <2>1. UNCHANGED <<own, cells, late>>
    BY <1>22 DEF ImportBusy, NextType, Goes
  <2>2. \A m \in Nodes \ {n} : at'[m] = at[m] /\ type'[m] = type[m]
    BY <1>22, <1>t DEF ImportBusy, NextType, Goes
  <2>3. \/ at[n] = "lockImport" /\ at'[n] = "readCache" /\ type'[n] = type[n] + 1
        \/ at[n] = "lockImport" /\ at'[n] = "waitImports"
    BY <1>22, <1>t DEF ImportBusy, NextType, Goes
  <2>4. OwnAt(n)'
    <3>1. CASE at'[n] = "waitImports"
      BY <2>1, <2>3, <3>1, <1>t
    <3>2. CASE at[n] = "lockImport" /\ at'[n] = "readCache" /\ type'[n] = type[n] + 1
      <4>0. type[n] \in 1..Len(ImportTypes)
        BY <1>t
      <4> HIDE StartupAssumption
      <4>1. type[n] \in Nat /\ type'[n] - 1 = type[n]
        BY <3>2, <4>0
      <4>2. own[n] \subseteq {ImportTypes[i] : i \in 1..type[n]}
        BY <3>2, <4>1, <1>t
      <4> QED
        BY <2>1, <3>2, <4>1, <4>2
    <3> QED
      BY <2>3, <3>1, <3>2
  <2>5. n \in late => at'[n] \in Bootstrapping \cup {"failed"}
    BY <2>3, <1>t
  <2> QED
    BY <1>0, <2>1, <2>2, <2>4, <2>5, OwnSame
<1>23. ASSUME NEW n \in Nodes, Import(n) PROVE OwnInv'
  BY <1>23, <1>0, <1>t DEF Import, Initialized, Type, Goes
<1>24. ASSUME NEW n \in Nodes, ImportError(n) PROVE OwnInv'
  BY <1>24, <1>0, <1>t DEF ImportError, Abandon, Type, Goes
<1>25. ASSUME NEW n \in Nodes, RecordDoc(n) PROVE OwnInv'
  <2>1. UNCHANGED <<own, cells, late>>
    BY <1>25 DEF RecordDoc, Creating, Type, Goes
  <2>2. \A m \in Nodes \ {n} : at'[m] = at[m] /\ type'[m] = type[m]
    BY <1>25, <1>t DEF RecordDoc, Creating, Type, Goes
  <2>3. at[n] \in {"record"} /\ at'[n] \in {"abort", "recordCache", "failed"}
    BY <1>25, <1>t DEF RecordDoc, Creating, Type, Goes
  <2>6. at'[n] = "failed" => n \in late
    BY <1>25, <1>t DEF RecordDoc, Creating, Type, Goes
  <2>7. type' = type
    BY <1>25 DEF RecordDoc, Creating, Type, Goes
  <2>4. OwnAt(n)'
    BY <2>1, <2>3, <1>t, <2>6, <2>7
  <2>5. n \in late => at'[n] \in Bootstrapping \cup {"failed"}
    BY <1>25, <2>3, <1>t DEF RecordDoc, Creating, Type, Goes
  <2> QED
    BY <1>0, <2>1, <2>2, <2>4, <2>5, OwnSame
<1>26. ASSUME NEW n \in Nodes, RecordKnown(n) PROVE OwnInv'
  BY <1>26, <1>0, <1>t DEF RecordKnown, Moving, Goes
<1>27. ASSUME NEW n \in Nodes, RecordCache(n) PROVE OwnInv'
  <2>1. UNCHANGED <<own, cells, late>>
    BY <1>27 DEF RecordCache, NextType, Type, Goes
  <2>2. \A m \in Nodes \ {n} : at'[m] = at[m] /\ type'[m] = type[m]
    BY <1>27, <1>t DEF RecordCache, NextType, Type, Goes
  <2>3. \/ at[n] = "recordCache" /\ at'[n] = "readCache" /\ type'[n] = type[n] + 1
        \/ at[n] = "recordCache" /\ at'[n] = "waitImports"
    BY <1>27, <1>t DEF RecordCache, NextType, Type, Goes
  <2>4. OwnAt(n)'
    <3>1. CASE at'[n] = "waitImports"
      BY <2>1, <2>3, <3>1, <1>t
    <3>2. CASE at[n] = "recordCache" /\ at'[n] = "readCache" /\ type'[n] = type[n] + 1
      <4>0. type[n] \in 1..Len(ImportTypes)
        BY <1>t
      <4> HIDE StartupAssumption
      <4>1. type[n] \in Nat /\ type'[n] - 1 = type[n]
        BY <3>2, <4>0
      <4>2. own[n] \subseteq {ImportTypes[i] : i \in 1..type[n]}
        BY <3>2, <4>1, <1>t
      <4> QED
        BY <2>1, <3>2, <4>1, <4>2
    <3> QED
      BY <2>3, <3>1, <3>2
  <2>5. n \in late => at'[n] \in Bootstrapping \cup {"failed"}
    BY <2>3, <1>t
  <2> QED
    BY <1>0, <2>1, <2>2, <2>4, <2>5, OwnSame
<1>28. ASSUME NEW n \in Nodes, ImportWait(n) PROVE OwnInv'
  <2>1. UNCHANGED <<own, cells, late>>
    BY <1>28 DEF ImportWait, Goes
  <2>2. \A m \in Nodes \ {n} : at'[m] = at[m] /\ type'[m] = type[m]
    BY <1>28, <1>t DEF ImportWait, Goes
  <2>3. at[n] \in {"waitImports"} /\ at'[n] \in {"waitImports", "unlockImports"}
    BY <1>28, <1>t DEF ImportWait, Goes
  <2>4. OwnAt(n)'
    BY <2>1, <2>3, <1>t
  <2>5. n \in late => at'[n] \in Bootstrapping \cup {"failed"}
    BY <1>28, <2>3, <1>t
  <2> QED
    BY <1>0, <2>1, <2>2, <2>4, <2>5, OwnSame
<1>29. ASSUME NEW n \in Nodes, ImportUnlock(n) PROVE OwnInv'
  BY <1>29, <1>0, <1>t DEF ImportUnlock, Unlocking, Unlocks, Release, Goes
<1>30. ASSUME NEW n \in Nodes, InstallLock(n) PROVE OwnInv'
  BY <1>30, <1>0, <1>t DEF InstallLock, Locking, Locks, CanTake, Take, Goes
<1>31. ASSUME NEW n \in Nodes, InstallCheck(n) PROVE OwnInv'
  BY <1>31, <1>0, <1>t DEF InstallCheck, Moving, Goes
<1>32. ASSUME NEW n \in Nodes, InstallHandler(n) PROVE OwnInv'
  BY <1>32, <1>0, <1>t DEF InstallHandler, Goes
<1>33. ASSUME NEW n \in Nodes, InstallError(n) PROVE OwnInv'
  BY <1>33, <1>0, <1>t DEF InstallError, Moving, Goes
<1>34. ASSUME NEW n \in Nodes, InstallRecord(n) PROVE OwnInv'
  <2>1. UNCHANGED <<own, cells, late>>
    BY <1>34 DEF InstallRecord, Creating, Goes
  <2>2. \A m \in Nodes \ {n} : at'[m] = at[m] /\ type'[m] = type[m]
    BY <1>34, <1>t DEF InstallRecord, Creating, Goes
  <2>3. at[n] \in {"recordInstall"} /\ at'[n] \in {"abort", "unlockInstall", "failed"}
    BY <1>34, <1>t DEF InstallRecord, Creating, Goes
  <2>6. at'[n] = "failed" => n \in late
    BY <1>34, <1>t DEF InstallRecord, Creating, Goes
  <2>4. OwnAt(n)'
    BY <2>1, <2>3, <1>t, <2>6
  <2>5. n \in late => at'[n] \in Bootstrapping \cup {"failed"}
    BY <1>34, <2>3, <1>t DEF InstallRecord, Creating, Goes
  <2> QED
    BY <1>0, <2>1, <2>2, <2>4, <2>5, OwnSame
<1>35. ASSUME NEW n \in Nodes, InstallUnlock(n) PROVE OwnInv'
  BY <1>35, <1>0, <1>t DEF InstallUnlock, Unlocking, Unlocks, Release, Goes
<1>36. ASSUME NEW r \in Resources, Lapse(r) PROVE OwnInv'
  BY <1>36, <1>0, <1>t DEF Lapse, Drop
<1>38. ASSUME NEW n \in Nodes, StorageError(n) PROVE OwnInv'
  BY <1>38, <1>0, <1>t DEF StorageError, AsksStorage
<1>39. ASSUME NEW n \in Nodes, ImportBusyError(n) PROVE OwnInv'
  BY <1>39, <1>0, <1>t DEF ImportBusyError, Moving, Goes
<1>37. CASE UNCHANGED startupVars
  BY <1>37, <1>0 DEF startupVars
<1> QED
  BY <1>1, <1>2, <1>3, <1>4, <1>5, <1>6, <1>7, <1>8, <1>9, <1>10, <1>11, <1>12, <1>13, <1>14, <1>15, <1>16, <1>17, <1>18, <1>19, <1>20, <1>21, <1>22, <1>23, <1>24, <1>25, <1>26, <1>27, <1>28, <1>29, <1>30, <1>31, <1>32, <1>33, <1>34, <1>35, <1>36, <1>37, <1>38, <1>39 DEF Next, Advance
-----------------------------------------------------------------------------
\* A node that is let in enters, one that unlocks leaves, one that forgets to
\* unlock leaves its lock behind: the steps of the abstract locks.
LEMMA LockIn ==
  ASSUME OwnInv, NEW n \in Nodes, NEW r \in Resources, Locks(n, r), r \notin own[n]
  PROVE  L!Next
<1>1. L!Enter(n, r)
  BY DEF Locks, CanTake, Take, L!Enter
<1> QED
  BY <1>1 DEF L!Next

LEMMA LockOut ==
  ASSUME OwnInv, NEW n \in Nodes, NEW rs \in SUBSET Resources,
         Unlocks(n, rs)
  PROVE  L!Next
<1> DEFINE in == rs \cap own[n]
<1>1. own' = [own EXCEPT ![n] = @ \ in]
  BY DEF OwnInv, TypeOK, Unlocks
<1>2. cells' = [r \in Resources |-> IF r \in in /\ cells[r] = n THEN None ELSE cells[r]]
  BY DEF OwnInv, HolderInside, Unlocks, Release
<1>3. L!Leave(n, in)
  BY <1>1, <1>2 DEF L!Leave, L!Out
<1>4. in \in SUBSET Resources
  OBVIOUS
<1> QED
  BY <1>3, <1>4 DEF L!Next

LEMMA LockLeft ==
  ASSUME OwnInv, NEW n \in Nodes, NEW rs \in SUBSET Resources, rs \subseteq own[n],
         cells' = Abandon(cells, n, rs), own' = [own EXCEPT ![n] = @ \ rs]
  PROVE  L!Next
<1>1. L!Forget(n, rs)
  BY DEF Abandon, L!Forget, L!Out
<1> QED
  BY <1>1 DEF L!Next

\* A step of the start is one of the abstract locks, or leaves them alone.
LEMMA LockStep ==
  ASSUME OwnInv, [Next]_startupVars
  PROVE  [L!Next]_<<cells, own>>
<1> USE TypesFacts, StartupAssumption DEF history, faults, nodeVars
<1>t. at \in [Nodes -> Step] /\ own \in [Nodes -> SUBSET Resources]
      /\ cells \in [Resources -> Nodes \cup {None, Dead}]
      /\ type \in [Nodes -> 1..Len(ImportTypes)]
  BY DEF OwnInv, TypeOK, Cells
<1>1. ASSUME NEW n \in Nodes, Start(n) PROVE [L!Next]_<<cells, own>>
  BY <1>1 DEF Start
<1>2. ASSUME NEW n \in Nodes, Crash(n) PROVE [L!Next]_<<cells, own>>
  <2>1. cells' = Abandon(cells, n, own[n]) /\ own' = [own EXCEPT ![n] = @ \ own[n]]
    BY <1>2, <1>t DEF Crash
  <2>2. own[n] \in SUBSET Resources
    BY <1>t
  <2> QED
    BY <2>1, <2>2, LockLeft
<1>3. ASSUME NEW n \in Nodes, Abort(n) PROVE [L!Next]_<<cells, own>>
  <2>1. Unlocks(n, own[n])
    BY <1>3 DEF Abort, Unlocking
  <2>2. own[n] \in SUBSET Resources
    BY <1>t DEF Resources
  <2> QED
    BY <2>1, <2>2, LockOut
<1>4. ASSUME NEW n \in Nodes, BootstrapTimeout(n) PROVE [L!Next]_<<cells, own>>
  <2>1. Unlocks(n, {"InternalIndexBootstrap"})
    BY <1>4 DEF BootstrapTimeout, Unlocking
  <2>2. {"InternalIndexBootstrap"} \in SUBSET Resources
    BY <1>t DEF Resources
  <2> QED
    BY <2>1, <2>2, LockOut
<1>5. ASSUME NEW n \in Nodes, StoreLock(n) PROVE [L!Next]_<<cells, own>>
  <2>1. Locks(n, "Store.init") /\ own[n] = {}
    BY <1>5 DEF StoreLock, Locking, Goes, OwnInv, OwnAt
  <2>2. "Store.init" \in Resources
    BY DEF Resources
  <2> QED
    BY <2>1, <2>2, LockIn
<1>6. ASSUME NEW n \in Nodes, StoreBusy(n) PROVE [L!Next]_<<cells, own>>
  BY <1>6 DEF StoreBusy, Moving, CanTake, Goes
<1>7. ASSUME NEW n \in Nodes, StoreCreate(n) PROVE [L!Next]_<<cells, own>>
  BY <1>7 DEF StoreCreate, Goes
<1>8. ASSUME NEW n \in Nodes, StoreUnlock(n) PROVE [L!Next]_<<cells, own>>
  <2>1. Unlocks(n, {"Store.init"})
    BY <1>8 DEF StoreUnlock, Unlocking
  <2>2. {"Store.init"} \in SUBSET Resources
    BY <1>t DEF Resources
  <2> QED
    BY <2>1, <2>2, LockOut
<1>9. ASSUME NEW n \in Nodes, StoreWait(n) PROVE [L!Next]_<<cells, own>>
  BY <1>9 DEF StoreWait, IsFree, Moving, Goes
<1>10. ASSUME NEW n \in Nodes, BootstrapLock(n) PROVE [L!Next]_<<cells, own>>
  <2>1. Locks(n, "InternalIndexBootstrap") /\ own[n] = {}
    BY <1>10 DEF BootstrapLock, Locking, Goes, OwnInv, OwnAt
  <2>2. "InternalIndexBootstrap" \in Resources
    BY DEF Resources
  <2> QED
    BY <2>1, <2>2, LockIn
<1>11. ASSUME NEW n \in Nodes, Bootstrap(n) PROVE [L!Next]_<<cells, own>>
  BY <1>11 DEF Bootstrap, Moving, Goes
<1>12. ASSUME NEW n \in Nodes, Secret(n) PROVE [L!Next]_<<cells, own>>
  BY <1>12 DEF Secret, SecretLook, SecretCreate, Creating, Goes
<1>13. ASSUME NEW n \in Nodes, VersionCreate(n) PROVE [L!Next]_<<cells, own>>
  BY <1>13 DEF VersionCreate, Creating, Goes
<1>14. ASSUME NEW n \in Nodes, DoneCreate(n) PROVE [L!Next]_<<cells, own>>
  BY <1>14 DEF DoneCreate, Creating, Goes
<1>15. ASSUME NEW n \in Nodes, BootstrapUnlock(n) PROVE [L!Next]_<<cells, own>>
  <2>1. Unlocks(n, {"InternalIndexBootstrap"})
    BY <1>15 DEF BootstrapUnlock, Unlocking
  <2>2. {"InternalIndexBootstrap"} \in SUBSET Resources
    BY <1>t DEF Resources
  <2> QED
    BY <2>1, <2>2, LockOut
<1>16. ASSUME NEW n \in Nodes, JoinLock(n) PROVE [L!Next]_<<cells, own>>
  <2>1. Locks(n, "clusterHandshake") /\ own[n] = {}
    BY <1>16 DEF JoinLock, Locking, Goes, OwnInv, OwnAt
  <2>2. "clusterHandshake" \in Resources
    BY DEF Resources
  <2> QED
    BY <2>1, <2>2, LockIn
<1>17. ASSUME NEW n \in Nodes, JoinGiveUp(n) PROVE [L!Next]_<<cells, own>>
  BY <1>17 DEF JoinGiveUp, Moving, Goes
<1>18. ASSUME NEW n \in Nodes, Handshake(n) PROVE [L!Next]_<<cells, own>>
  <2>1. Unlocks(n, {"clusterHandshake"}) \/ UNCHANGED <<cells, own>>
    BY <1>18 DEF Handshake, Unlocking, Moving, Goes
  <2>2. {"clusterHandshake"} \in SUBSET Resources
    BY DEF Resources
  <2> QED
    BY <2>1, <2>2, LockOut
<1>19. ASSUME NEW n \in Nodes, ImportReadCache(n) PROVE [L!Next]_<<cells, own>>
  BY <1>19 DEF ImportReadCache, Type, Goes
<1>20. ASSUME NEW n \in Nodes, ImportReadDoc(n) PROVE [L!Next]_<<cells, own>>
  BY <1>20 DEF ImportReadDoc, Type, Goes
<1>21. ASSUME NEW n \in Nodes, ImportLock(n) PROVE [L!Next]_<<cells, own>>
  <2>1. Locks(n, Type(n)) /\ at[n] = "lockImport"
    BY <1>21 DEF ImportLock, Locking, Goes
  <2>2. Type(n) \in Resources
    BY <1>t DEF Type
  <2>3. own[n] \subseteq {ImportTypes[i] : i \in 1..(type[n] - 1)}
    BY <2>1 DEF OwnInv, OwnAt
  <2>4. \A i \in 1..(type[n] - 1) : ImportTypes[i] # ImportTypes[type[n]]
    BY <1>t
  <2>5. Type(n) \notin own[n]
    BY <2>3, <2>4 DEF Type
  <2> QED
    BY <2>1, <2>2, <2>5, LockIn
<1>22. ASSUME NEW n \in Nodes, ImportBusy(n) PROVE [L!Next]_<<cells, own>>
  BY <1>22 DEF ImportBusy, NextType, Goes
<1>23. ASSUME NEW n \in Nodes, Import(n) PROVE [L!Next]_<<cells, own>>
  BY <1>23 DEF Import, Initialized, Type, Goes
<1>24. ASSUME NEW n \in Nodes, ImportError(n) PROVE [L!Next]_<<cells, own>>
  <2> DEFINE t == {Type(n)} \cap own[n]
  <2>1. t \in SUBSET Resources /\ t \subseteq own[n]
    BY <1>t
  <2>2. own' = [own EXCEPT ![n] = @ \ t]
    BY <1>24, <1>t DEF ImportError
  <2>3. cells' = Abandon(cells, n, t)
    BY <1>24, <1>t DEF ImportError, Abandon, OwnInv, HolderInside
  <2> QED
    BY <2>1, <2>2, <2>3, LockLeft
<1>25. ASSUME NEW n \in Nodes, RecordDoc(n) PROVE [L!Next]_<<cells, own>>
  BY <1>25 DEF RecordDoc, Creating, Type, Goes
<1>26. ASSUME NEW n \in Nodes, RecordKnown(n) PROVE [L!Next]_<<cells, own>>
  BY <1>26 DEF RecordKnown, Moving, Goes
<1>27. ASSUME NEW n \in Nodes, RecordCache(n) PROVE [L!Next]_<<cells, own>>
  BY <1>27 DEF RecordCache, NextType, Type, Goes
<1>28. ASSUME NEW n \in Nodes, ImportWait(n) PROVE [L!Next]_<<cells, own>>
  BY <1>28 DEF ImportWait, Goes
<1>29. ASSUME NEW n \in Nodes, ImportUnlock(n) PROVE [L!Next]_<<cells, own>>
  <2>1. Unlocks(n, Types)
    BY <1>29 DEF ImportUnlock, Unlocking
  <2>2. Types \in SUBSET Resources
    BY <1>t DEF Resources
  <2> QED
    BY <2>1, <2>2, LockOut
<1>30. ASSUME NEW n \in Nodes, InstallLock(n) PROVE [L!Next]_<<cells, own>>
  <2>1. Locks(n, "backend:installations") /\ own[n] = {}
    BY <1>30 DEF InstallLock, Locking, Goes, OwnInv, OwnAt
  <2>2. "backend:installations" \in Resources
    BY DEF Resources
  <2> QED
    BY <2>1, <2>2, LockIn
<1>31. ASSUME NEW n \in Nodes, InstallCheck(n) PROVE [L!Next]_<<cells, own>>
  BY <1>31 DEF InstallCheck, Moving, Goes
<1>32. ASSUME NEW n \in Nodes, InstallHandler(n) PROVE [L!Next]_<<cells, own>>
  BY <1>32 DEF InstallHandler, Goes
<1>33. ASSUME NEW n \in Nodes, InstallError(n) PROVE [L!Next]_<<cells, own>>
  BY <1>33 DEF InstallError, Moving, Goes
<1>34. ASSUME NEW n \in Nodes, InstallRecord(n) PROVE [L!Next]_<<cells, own>>
  BY <1>34 DEF InstallRecord, Creating, Goes
<1>35. ASSUME NEW n \in Nodes, InstallUnlock(n) PROVE [L!Next]_<<cells, own>>
  <2>1. Unlocks(n, {"backend:installations"})
    BY <1>35 DEF InstallUnlock, Unlocking
  <2>2. {"backend:installations"} \in SUBSET Resources
    BY <1>t DEF Resources
  <2> QED
    BY <2>1, <2>2, LockOut
<1>36. ASSUME NEW r \in Resources, Lapse(r) PROVE [L!Next]_<<cells, own>>
  BY <1>36 DEF Lapse, Drop, L!Lapse, L!Next
<1>38. ASSUME NEW n \in Nodes, StorageError(n) PROVE [L!Next]_<<cells, own>>
  BY <1>38 DEF StorageError
<1>39. ASSUME NEW n \in Nodes, ImportBusyError(n) PROVE [L!Next]_<<cells, own>>
  BY <1>39 DEF ImportBusyError, Moving
<1>37. CASE UNCHANGED startupVars
  BY <1>37 DEF startupVars
<1> QED
  BY <1>1, <1>2, <1>3, <1>4, <1>5, <1>6, <1>7, <1>8, <1>9, <1>10, <1>11, <1>12, <1>13, <1>14, <1>15, <1>16, <1>17, <1>18, <1>19, <1>20, <1>21, <1>22, <1>23, <1>24, <1>25, <1>26, <1>27, <1>28, <1>29, <1>30, <1>31, <1>32, <1>33, <1>34, <1>35, <1>36, <1>37, <1>38, <1>39 DEF Next, Advance
-----------------------------------------------------------------------------
\* As long as no TTL has ended too early, a node that is inside holds the key.
Held == lapses = 0 => \A r \in Resources, n \in Nodes : r \in own[n] => cells[r] = n

LEMMA HeldStep ==
  ASSUME OwnInv, Held, [Next]_startupVars
  PROVE  Held'
<1> USE TypesFacts, StartupAssumption DEF history, faults, nodeVars, Held
<1>t. at \in [Nodes -> Step] /\ own \in [Nodes -> SUBSET Resources]
      /\ cells \in [Resources -> Nodes \cup {None, Dead}]
      /\ type \in [Nodes -> 1..Len(ImportTypes)] /\ lapses \in Nat /\ lapses' \in Nat
  BY TypeStep DEF OwnInv, TypeOK, Cells
<1>1. ASSUME NEW n \in Nodes, Start(n) PROVE Held'
  BY <1>1 DEF Start
<1>2. ASSUME NEW n \in Nodes, Crash(n) PROVE Held'
  BY <1>2, <1>t DEF Crash, Abandon
<1>3. ASSUME NEW n \in Nodes, Abort(n) PROVE Held'
  BY <1>3, <1>t DEF Abort, Unlocks, Release, Goes
<1>4. ASSUME NEW n \in Nodes, BootstrapTimeout(n) PROVE Held'
  BY <1>4, <1>t DEF BootstrapTimeout, Unlocks, Release, Bootstrapping
<1>5. ASSUME NEW n \in Nodes, StoreLock(n) PROVE Held'
  BY <1>5, <1>t DEF StoreLock, Locking, Locks, CanTake, Take, Goes
<1>6. ASSUME NEW n \in Nodes, StoreBusy(n) PROVE Held'
  BY <1>6 DEF StoreBusy, Moving, CanTake, Goes
<1>7. ASSUME NEW n \in Nodes, StoreCreate(n) PROVE Held'
  BY <1>7 DEF StoreCreate, Goes
<1>8. ASSUME NEW n \in Nodes, StoreUnlock(n) PROVE Held'
  BY <1>8, <1>t DEF StoreUnlock, Unlocking, Unlocks, Release, Goes
<1>9. ASSUME NEW n \in Nodes, StoreWait(n) PROVE Held'
  BY <1>9 DEF StoreWait, IsFree, Moving, Goes
<1>10. ASSUME NEW n \in Nodes, BootstrapLock(n) PROVE Held'
  BY <1>10, <1>t DEF BootstrapLock, Locking, Locks, CanTake, Take, Goes
<1>11. ASSUME NEW n \in Nodes, Bootstrap(n) PROVE Held'
  BY <1>11 DEF Bootstrap, Moving, Goes
<1>12. ASSUME NEW n \in Nodes, Secret(n) PROVE Held'
  BY <1>12 DEF Secret, SecretLook, SecretCreate, Creating, Goes
<1>13. ASSUME NEW n \in Nodes, VersionCreate(n) PROVE Held'
  BY <1>13 DEF VersionCreate, Creating, Goes
<1>14. ASSUME NEW n \in Nodes, DoneCreate(n) PROVE Held'
  BY <1>14 DEF DoneCreate, Creating, Goes
<1>15. ASSUME NEW n \in Nodes, BootstrapUnlock(n) PROVE Held'
  BY <1>15, <1>t DEF BootstrapUnlock, Unlocking, Unlocks, Release, Goes
<1>16. ASSUME NEW n \in Nodes, JoinLock(n) PROVE Held'
  BY <1>16, <1>t DEF JoinLock, Locking, Locks, CanTake, Take, Goes
<1>17. ASSUME NEW n \in Nodes, JoinGiveUp(n) PROVE Held'
  BY <1>17 DEF JoinGiveUp, Moving, Goes
<1>18. ASSUME NEW n \in Nodes, Handshake(n) PROVE Held'
  <2>1. CASE "clusterHandshake" \in own[n]
    BY <1>18, <1>t, <2>1 DEF Handshake, Unlocking, Unlocks, Release, Goes
  <2>2. CASE "clusterHandshake" \notin own[n]
    BY <1>18, <1>t, <2>2 DEF Handshake, Moving, Goes
  <2> QED
    BY <2>1, <2>2
<1>19. ASSUME NEW n \in Nodes, ImportReadCache(n) PROVE Held'
  BY <1>19 DEF ImportReadCache, Type, Goes
<1>20. ASSUME NEW n \in Nodes, ImportReadDoc(n) PROVE Held'
  BY <1>20 DEF ImportReadDoc, Type, Goes
<1>21. ASSUME NEW n \in Nodes, ImportLock(n) PROVE Held'
  BY <1>21, <1>t DEF ImportLock, Locking, Locks, CanTake, Take, Type, Goes
<1>22. ASSUME NEW n \in Nodes, ImportBusy(n) PROVE Held'
  BY <1>22 DEF ImportBusy, NextType, Goes
<1>23. ASSUME NEW n \in Nodes, Import(n) PROVE Held'
  BY <1>23 DEF Import, Initialized, Type, Goes
<1>24. ASSUME NEW n \in Nodes, ImportError(n) PROVE Held'
  BY <1>24, <1>t DEF ImportError, Abandon, Type, Goes
<1>25. ASSUME NEW n \in Nodes, RecordDoc(n) PROVE Held'
  BY <1>25 DEF RecordDoc, Creating, Type, Goes
<1>26. ASSUME NEW n \in Nodes, RecordKnown(n) PROVE Held'
  BY <1>26 DEF RecordKnown, Moving, Goes
<1>27. ASSUME NEW n \in Nodes, RecordCache(n) PROVE Held'
  BY <1>27 DEF RecordCache, NextType, Type, Goes
<1>28. ASSUME NEW n \in Nodes, ImportWait(n) PROVE Held'
  BY <1>28 DEF ImportWait, Goes
<1>29. ASSUME NEW n \in Nodes, ImportUnlock(n) PROVE Held'
  BY <1>29, <1>t DEF ImportUnlock, Unlocking, Unlocks, Release, Goes
<1>30. ASSUME NEW n \in Nodes, InstallLock(n) PROVE Held'
  BY <1>30, <1>t DEF InstallLock, Locking, Locks, CanTake, Take, Goes
<1>31. ASSUME NEW n \in Nodes, InstallCheck(n) PROVE Held'
  BY <1>31 DEF InstallCheck, Moving, Goes
<1>32. ASSUME NEW n \in Nodes, InstallHandler(n) PROVE Held'
  BY <1>32 DEF InstallHandler, Goes
<1>33. ASSUME NEW n \in Nodes, InstallError(n) PROVE Held'
  BY <1>33 DEF InstallError, Moving, Goes
<1>34. ASSUME NEW n \in Nodes, InstallRecord(n) PROVE Held'
  BY <1>34 DEF InstallRecord, Creating, Goes
<1>35. ASSUME NEW n \in Nodes, InstallUnlock(n) PROVE Held'
  BY <1>35, <1>t DEF InstallUnlock, Unlocking, Unlocks, Release, Goes
<1>36. ASSUME NEW r \in Resources, Lapse(r) PROVE Held'
  BY <1>36, <1>t DEF Lapse, Drop
<1>38. ASSUME NEW n \in Nodes, StorageError(n) PROVE Held'
  BY <1>38 DEF StorageError
<1>39. ASSUME NEW n \in Nodes, ImportBusyError(n) PROVE Held'
  BY <1>39 DEF ImportBusyError, Moving
<1>37. CASE UNCHANGED startupVars
  BY <1>37 DEF startupVars
<1> QED
  BY <1>1, <1>2, <1>3, <1>4, <1>5, <1>6, <1>7, <1>8, <1>9, <1>10, <1>11, <1>12, <1>13, <1>14, <1>15, <1>16, <1>17, <1>18, <1>19, <1>20, <1>21, <1>22, <1>23, <1>24, <1>25, <1>26, <1>27, <1>28, <1>29, <1>30, <1>31, <1>32, <1>33, <1>34, <1>35, <1>36, <1>37, <1>38, <1>39 DEF Next, Advance

-----------------------------------------------------------------------------
\* What the documents of the bootstrap owe to each other, and the secret of a node
\* to where the node is.
SecretInv ==
  /\ SecretsAgree
  /\ DoneComplete
  /\ \A n \in Nodes :
       /\ at[n] \in {"version", "done"} => secret[n] # None
       /\ at[n] = "done" => es.version

LEMMA SecretStep ==
  ASSUME TypeOK, SecretInv, [Next]_startupVars
  PROVE  SecretInv'
<1> USE TypesFacts, StartupAssumption DEF history, faults, nodeVars, SecretInv, SecretsAgree,
        DoneComplete, Past, Importing, Bootstrapping
<1>t. /\ at \in [Nodes -> Step] /\ secret \in [Nodes -> Nodes \cup {None}]
      /\ es \in [collections : BOOLEAN, seed : Nodes \cup {None}, version : BOOLEAN, done : BOOLEAN,
                 hashes : [Types -> Hashes \cup {None}], installed : BOOLEAN]
  BY DEF TypeOK, Storage
<1>1. ASSUME NEW n \in Nodes, Start(n) PROVE SecretInv'
  BY <1>1, <1>t DEF Start
<1>2. ASSUME NEW n \in Nodes, Crash(n) PROVE SecretInv'
  BY <1>2, <1>t DEF Crash, Abandon
<1>3. ASSUME NEW n \in Nodes, Abort(n) PROVE SecretInv'
  BY <1>3, <1>t DEF Abort, Unlocks, Release, Goes
<1>4. ASSUME NEW n \in Nodes, BootstrapTimeout(n) PROVE SecretInv'
  BY <1>4, <1>t DEF BootstrapTimeout, Unlocks, Release, Bootstrapping
<1>5. ASSUME NEW n \in Nodes, StoreLock(n) PROVE SecretInv'
  BY <1>5, <1>t DEF StoreLock, Locking, Locks, CanTake, Take, Goes
<1>6. ASSUME NEW n \in Nodes, StoreBusy(n) PROVE SecretInv'
  BY <1>6, <1>t DEF StoreBusy, Moving, CanTake, Goes
<1>7. ASSUME NEW n \in Nodes, StoreCreate(n) PROVE SecretInv'
  BY <1>7, <1>t DEF StoreCreate, Goes
<1>8. ASSUME NEW n \in Nodes, StoreUnlock(n) PROVE SecretInv'
  BY <1>8, <1>t DEF StoreUnlock, Unlocking, Unlocks, Release, Goes
<1>9. ASSUME NEW n \in Nodes, StoreWait(n) PROVE SecretInv'
  BY <1>9, <1>t DEF StoreWait, IsFree, Moving, Goes
<1>10. ASSUME NEW n \in Nodes, BootstrapLock(n) PROVE SecretInv'
  BY <1>10, <1>t DEF BootstrapLock, Locking, Locks, CanTake, Take, Goes
<1>11. ASSUME NEW n \in Nodes, Bootstrap(n) PROVE SecretInv'
  BY <1>11, <1>t DEF Bootstrap, Moving, Goes
<1>12. ASSUME NEW n \in Nodes, Secret(n) PROVE SecretInv'
  BY SMTT(30), <1>12, <1>t DEF Secret, SecretLook, SecretCreate, Creating, Goes
<1>13. ASSUME NEW n \in Nodes, VersionCreate(n) PROVE SecretInv'
  BY SMTT(30), <1>13, <1>t DEF VersionCreate, Creating, Goes
<1>14. ASSUME NEW n \in Nodes, DoneCreate(n) PROVE SecretInv'
  BY SMTT(30), <1>14, <1>t DEF DoneCreate, Creating, Goes
<1>15. ASSUME NEW n \in Nodes, BootstrapUnlock(n) PROVE SecretInv'
  BY <1>15, <1>t DEF BootstrapUnlock, Unlocking, Unlocks, Release, Goes
<1>16. ASSUME NEW n \in Nodes, JoinLock(n) PROVE SecretInv'
  BY <1>16, <1>t DEF JoinLock, Locking, Locks, CanTake, Take, Goes
<1>17. ASSUME NEW n \in Nodes, JoinGiveUp(n) PROVE SecretInv'
  BY <1>17, <1>t DEF JoinGiveUp, Moving, Goes
<1>18. ASSUME NEW n \in Nodes, Handshake(n) PROVE SecretInv'
  BY <1>18, <1>t DEF Handshake, Unlocking, Unlocks, Release, Moving, Goes
<1>19. ASSUME NEW n \in Nodes, ImportReadCache(n) PROVE SecretInv'
  BY <1>19, <1>t DEF ImportReadCache, Type, Goes
<1>20. ASSUME NEW n \in Nodes, ImportReadDoc(n) PROVE SecretInv'
  BY <1>20, <1>t DEF ImportReadDoc, Type, Goes
<1>21. ASSUME NEW n \in Nodes, ImportLock(n) PROVE SecretInv'
  BY <1>21, <1>t DEF ImportLock, Locking, Locks, CanTake, Take, Type, Goes
<1>22. ASSUME NEW n \in Nodes, ImportBusy(n) PROVE SecretInv'
  BY <1>22, <1>t DEF ImportBusy, NextType, Goes
<1>23. ASSUME NEW n \in Nodes, Import(n) PROVE SecretInv'
  BY <1>23, <1>t DEF Import, Initialized, Type, Goes
<1>24. ASSUME NEW n \in Nodes, ImportError(n) PROVE SecretInv'
  BY <1>24, <1>t DEF ImportError, Abandon, Type, Goes
<1>25. ASSUME NEW n \in Nodes, RecordDoc(n) PROVE SecretInv'
  BY SMTT(30), <1>25, <1>t DEF RecordDoc, Creating, Type, Goes
<1>26. ASSUME NEW n \in Nodes, RecordKnown(n) PROVE SecretInv'
  BY <1>26, <1>t DEF RecordKnown, Moving, Goes
<1>27. ASSUME NEW n \in Nodes, RecordCache(n) PROVE SecretInv'
  BY <1>27, <1>t DEF RecordCache, NextType, Type, Goes
<1>28. ASSUME NEW n \in Nodes, ImportWait(n) PROVE SecretInv'
  BY <1>28, <1>t DEF ImportWait, Goes
<1>29. ASSUME NEW n \in Nodes, ImportUnlock(n) PROVE SecretInv'
  BY <1>29, <1>t DEF ImportUnlock, Unlocking, Unlocks, Release, Goes
<1>30. ASSUME NEW n \in Nodes, InstallLock(n) PROVE SecretInv'
  BY <1>30, <1>t DEF InstallLock, Locking, Locks, CanTake, Take, Goes
<1>31. ASSUME NEW n \in Nodes, InstallCheck(n) PROVE SecretInv'
  BY <1>31, <1>t DEF InstallCheck, Moving, Goes
<1>32. ASSUME NEW n \in Nodes, InstallHandler(n) PROVE SecretInv'
  BY <1>32, <1>t DEF InstallHandler, Goes
<1>33. ASSUME NEW n \in Nodes, InstallError(n) PROVE SecretInv'
  BY <1>33, <1>t DEF InstallError, Moving, Goes
<1>34. ASSUME NEW n \in Nodes, InstallRecord(n) PROVE SecretInv'
  BY SMTT(30), <1>34, <1>t DEF InstallRecord, Creating, Goes
<1>35. ASSUME NEW n \in Nodes, InstallUnlock(n) PROVE SecretInv'
  BY <1>35, <1>t DEF InstallUnlock, Unlocking, Unlocks, Release, Goes
<1>36. ASSUME NEW r \in Resources, Lapse(r) PROVE SecretInv'
  BY <1>36, <1>t DEF Lapse
<1>38. ASSUME NEW n \in Nodes, StorageError(n) PROVE SecretInv'
  BY <1>38, <1>t DEF StorageError
<1>39. ASSUME NEW n \in Nodes, ImportBusyError(n) PROVE SecretInv'
  BY <1>39, <1>t DEF ImportBusyError, Moving, Goes
<1>37. CASE UNCHANGED startupVars
  BY <1>37 DEF startupVars
<1> QED
  BY <1>1, <1>2, <1>3, <1>4, <1>5, <1>6, <1>7, <1>8, <1>9, <1>10, <1>11, <1>12, <1>13, <1>14, <1>15, <1>16, <1>17, <1>18, <1>19, <1>20, <1>21, <1>22, <1>23, <1>24, <1>25, <1>26, <1>27, <1>28, <1>29, <1>30, <1>31, <1>32, <1>33, <1>34, <1>35, <1>36, <1>37, <1>38, <1>39 DEF Next, Advance
-----------------------------------------------------------------------------
\* What a node knows of the import of its type, and what it has done of it.
RecordInv ==
  /\ RecordsTrue
  /\ \A n \in Nodes :
       /\ at[n] \notin Importing \cup {"abort"} => saw[n] = Nothing
       /\ at[n] = "readCache" => saw[n] = Nothing
       /\ at[n] = "readDoc" => saw[n].doc = None
       /\ at[n] \in Importing =>
            /\ saw[n].cache # None => saw[n].cache = cache[Type(n)]
            /\ saw[n].doc # None => saw[n].doc = es.hashes[Type(n)]
       /\ at[n] = "record" => Payload[n] \in imported[Type(n)]
       /\ at[n] = "recordCache" /\ saw[n] = Nothing => es.hashes[Type(n)] = Payload[n]

\* A step of node n that is not one of an import.
LEMMA RecordSame ==
  ASSUME TypeOK, RecordInv, NEW n \in Nodes, UNCHANGED <<saw, cache, imported>>,
         es'.hashes = es.hashes,
         \A m \in Nodes \ {n} : at'[m] = at[m] /\ type'[m] = type[m],
         at[n] \notin Importing \cup {"abort"}, at'[n] \notin Importing \ {"readCache"}
  PROVE  RecordInv'
<1> USE DEF RecordInv, Importing, Nothing, Type
<1>1. RecordsTrue'
  BY DEF RecordsTrue
<1>2. ASSUME NEW m \in Nodes, m # n
      PROVE  at'[m] = at[m] /\ type'[m] = type[m] /\ saw'[m] = saw[m]
  BY <1>2
<1>3. saw[n] = Nothing
  OBVIOUS
<1> QED
  BY <1>1, <1>2, <1>3

LEMMA RecordStep ==
  ASSUME OwnInv, RecordInv, [Next]_startupVars
  PROVE  RecordInv'
<1> USE TypesFacts, StartupAssumption DEF history, faults, nodeVars, RecordInv, RecordsTrue,
        Importing, Nothing, Type
<1>t. /\ at \in [Nodes -> Step] /\ type \in [Nodes -> 1..Len(ImportTypes)]
      /\ saw \in [Nodes -> [cache : Hashes \cup {None}, doc : Hashes \cup {None}]]
      /\ cache \in [Types -> Hashes \cup {None}] /\ imported \in [Types -> SUBSET Hashes]
      /\ es \in [collections : BOOLEAN, seed : Nodes \cup {None}, version : BOOLEAN, done : BOOLEAN,
                 hashes : [Types -> Hashes \cup {None}], installed : BOOLEAN]
  BY DEF OwnInv, TypeOK, Storage
<1>1. ASSUME NEW n \in Nodes, Start(n) PROVE RecordInv'
  BY <1>1, <1>t DEF Start
<1>2. ASSUME NEW n \in Nodes, Crash(n) PROVE RecordInv'
  BY <1>2, <1>t DEF Crash, Abandon
<1>3. ASSUME NEW n \in Nodes, Abort(n) PROVE RecordInv'
  BY <1>3, <1>t DEF Abort, Unlocks, Release, Goes
<1>4. ASSUME NEW n \in Nodes, BootstrapTimeout(n) PROVE RecordInv'
  BY <1>4, <1>t DEF BootstrapTimeout, Unlocks, Release, Bootstrapping
<1>5. ASSUME NEW n \in Nodes, StoreLock(n) PROVE RecordInv'
  BY <1>5, <1>t DEF StoreLock, Locking, Locks, CanTake, Take, Goes
<1>6. ASSUME NEW n \in Nodes, StoreBusy(n) PROVE RecordInv'
  BY <1>6, <1>t DEF StoreBusy, Moving, CanTake, Goes
<1>7. ASSUME NEW n \in Nodes, StoreCreate(n) PROVE RecordInv'
  BY <1>7, <1>t DEF StoreCreate, Goes
<1>8. ASSUME NEW n \in Nodes, StoreUnlock(n) PROVE RecordInv'
  BY <1>8, <1>t DEF StoreUnlock, Unlocking, Unlocks, Release, Goes
<1>9. ASSUME NEW n \in Nodes, StoreWait(n) PROVE RecordInv'
  BY <1>9, <1>t DEF StoreWait, IsFree, Moving, Goes
<1>10. ASSUME NEW n \in Nodes, BootstrapLock(n) PROVE RecordInv'
  BY <1>10, <1>t DEF BootstrapLock, Locking, Locks, CanTake, Take, Goes
<1>11. ASSUME NEW n \in Nodes, Bootstrap(n) PROVE RecordInv'
  BY <1>11, <1>t DEF Bootstrap, Moving, Goes
<1>12. ASSUME NEW n \in Nodes, Secret(n) PROVE RecordInv'
  <2>1. UNCHANGED <<saw, cache, imported>> /\ es'.hashes = es.hashes
    BY SMTT(30), <1>12, <1>t DEF Secret, SecretLook, SecretCreate, Creating, Goes
  <2>2. \A m \in Nodes \ {n} : at'[m] = at[m] /\ type'[m] = type[m]
    BY SMTT(30), <1>12, <1>t DEF Secret, SecretLook, SecretCreate, Creating, Goes
  <2>3. /\ at[n] \in {"onlySecret", "onlyNewSecret", "secret", "newSecret"}
        /\ at'[n] \in {"abort", "failed", "onlyNewSecret", "unlockBootstrap", "newSecret", "version"}
    BY SMTT(30), <1>12, <1>t DEF Secret, SecretLook, SecretCreate, Creating, Goes
  <2> QED
    BY <2>1, <2>2, <2>3, RecordSame DEF OwnInv
<1>13. ASSUME NEW n \in Nodes, VersionCreate(n) PROVE RecordInv'
  <2>1. UNCHANGED <<saw, cache, imported>> /\ es'.hashes = es.hashes
    BY <1>13, <1>t DEF VersionCreate, Creating, Goes
  <2>2. \A m \in Nodes \ {n} : at'[m] = at[m] /\ type'[m] = type[m]
    BY <1>13, <1>t DEF VersionCreate, Creating, Goes
  <2>3. /\ at[n] \in {"version"}
        /\ at'[n] \in {"abort", "failed", "done"}
    BY <1>13, <1>t DEF VersionCreate, Creating, Goes
  <2> QED
    BY <2>1, <2>2, <2>3, RecordSame DEF OwnInv
<1>14. ASSUME NEW n \in Nodes, DoneCreate(n) PROVE RecordInv'
  <2>1. UNCHANGED <<saw, cache, imported>> /\ es'.hashes = es.hashes
    BY <1>14, <1>t DEF DoneCreate, Creating, Goes
  <2>2. \A m \in Nodes \ {n} : at'[m] = at[m] /\ type'[m] = type[m]
    BY <1>14, <1>t DEF DoneCreate, Creating, Goes
  <2>3. /\ at[n] \in {"done"}
        /\ at'[n] \in {"abort", "failed", "unlockBootstrap"}
    BY <1>14, <1>t DEF DoneCreate, Creating, Goes
  <2> QED
    BY <2>1, <2>2, <2>3, RecordSame DEF OwnInv
<1>15. ASSUME NEW n \in Nodes, BootstrapUnlock(n) PROVE RecordInv'
  BY <1>15, <1>t DEF BootstrapUnlock, Unlocking, Unlocks, Release, Goes
<1>16. ASSUME NEW n \in Nodes, JoinLock(n) PROVE RecordInv'
  BY <1>16, <1>t DEF JoinLock, Locking, Locks, CanTake, Take, Goes
<1>17. ASSUME NEW n \in Nodes, JoinGiveUp(n) PROVE RecordInv'
  BY <1>17, <1>t DEF JoinGiveUp, Moving, Goes
<1>18. ASSUME NEW n \in Nodes, Handshake(n) PROVE RecordInv'
  <2>1. UNCHANGED <<saw, cache, imported>> /\ es'.hashes = es.hashes
    BY <1>18, <1>t DEF Handshake, Unlocking, Unlocks, Release, Moving, Goes
  <2>2. \A m \in Nodes \ {n} : at'[m] = at[m] /\ type'[m] = type[m]
    BY <1>18, <1>t DEF Handshake, Unlocking, Unlocks, Release, Moving, Goes
  <2>3. /\ at[n] \in {"handshake"}
        /\ at'[n] \in {"readCache", "failed"}
    BY <1>18, <1>t DEF Handshake, Unlocking, Unlocks, Release, Moving, Goes
  <2> QED
    BY <2>1, <2>2, <2>3, RecordSame DEF OwnInv
<1>19. ASSUME NEW n \in Nodes, ImportReadCache(n) PROVE RecordInv'
  BY <1>19, <1>t DEF ImportReadCache, Type, Goes
<1>20. ASSUME NEW n \in Nodes, ImportReadDoc(n) PROVE RecordInv'
  BY <1>20, <1>t DEF ImportReadDoc, Type, Goes
<1>21. ASSUME NEW n \in Nodes, ImportLock(n) PROVE RecordInv'
  BY <1>21, <1>t DEF ImportLock, Locking, Locks, CanTake, Take, Type, Goes
<1>22. ASSUME NEW n \in Nodes, ImportBusy(n) PROVE RecordInv'
  BY <1>22, <1>t DEF ImportBusy, NextType, Goes
<1>23. ASSUME NEW n \in Nodes, Import(n) PROVE RecordInv'
  BY <1>23, <1>t DEF Import, Initialized, Type, Goes
<1>24. ASSUME NEW n \in Nodes, ImportError(n) PROVE RecordInv'
  BY <1>24, <1>t DEF ImportError, Abandon, Type, Goes
<1>25. ASSUME NEW n \in Nodes, RecordDoc(n) PROVE RecordInv'
  <2>1. /\ at[n] = "record" /\ saw[n].doc = None
        /\ UNCHANGED <<saw, type, cache, imported>>
    BY <1>25 DEF RecordDoc, Creating, Goes
  <2>2. CASE es.hashes[Type(n)] # None
    <3>1. n \notin late
      BY <2>1 DEF OwnInv, LateOut, Bootstrapping
    <3>2. es' = es /\ at' = [at EXCEPT ![n] = "abort"]
      BY <1>25, <2>2, <3>1 DEF RecordDoc, Creating, Goes
    <3> QED
      BY <2>1, <3>2, <1>t
  <2>3. CASE es.hashes[Type(n)] = None
    <3>1. cache[Type(n)] = None /\ Type(n) \in Types
      BY <2>3, <1>t
    <3>2. saw[n].cache = None
      BY <2>1, <3>1
    <3>3. es' = [es EXCEPT !["hashes"] = [es.hashes EXCEPT ![Type(n)] = Payload[n]]]
      BY <1>25, <2>3, <3>2 DEF RecordDoc, Creating
    <3>4. es'.hashes = [es.hashes EXCEPT ![Type(n)] = Payload[n]]
      BY <3>3, <1>t
    <3>5. at' = [at EXCEPT ![n] = "recordCache"]
      BY <1>25, <2>3 DEF RecordDoc, Creating, Goes
    <3>6. RecordsTrue'
      BY <2>1, <2>3, <3>1, <3>4, <1>t
    <3> QED
      BY <2>1, <2>3, <3>1, <3>2, <3>4, <3>5, <3>6, <1>t
  <2> QED
    BY <2>2, <2>3
<1>26. ASSUME NEW n \in Nodes, RecordKnown(n) PROVE RecordInv'
  BY <1>26, <1>t DEF RecordKnown, Moving, Goes
<1>27. ASSUME NEW n \in Nodes, RecordCache(n) PROVE RecordInv'
  BY <1>27, <1>t DEF RecordCache, NextType, Type, Goes
<1>28. ASSUME NEW n \in Nodes, ImportWait(n) PROVE RecordInv'
  <2>1. UNCHANGED <<saw, cache, imported>> /\ es'.hashes = es.hashes
    BY <1>28, <1>t DEF ImportWait, Goes
  <2>2. \A m \in Nodes \ {n} : at'[m] = at[m] /\ type'[m] = type[m]
    BY <1>28, <1>t DEF ImportWait, Goes
  <2>3. /\ at[n] \in {"waitImports"}
        /\ at'[n] \in {"waitImports", "unlockImports"}
    BY <1>28, <1>t DEF ImportWait, Goes
  <2> QED
    BY <2>1, <2>2, <2>3, RecordSame DEF OwnInv
<1>29. ASSUME NEW n \in Nodes, ImportUnlock(n) PROVE RecordInv'
  BY <1>29, <1>t DEF ImportUnlock, Unlocking, Unlocks, Release, Goes
<1>30. ASSUME NEW n \in Nodes, InstallLock(n) PROVE RecordInv'
  BY <1>30, <1>t DEF InstallLock, Locking, Locks, CanTake, Take, Goes
<1>31. ASSUME NEW n \in Nodes, InstallCheck(n) PROVE RecordInv'
  BY <1>31, <1>t DEF InstallCheck, Moving, Goes
<1>32. ASSUME NEW n \in Nodes, InstallHandler(n) PROVE RecordInv'
  BY <1>32, <1>t DEF InstallHandler, Goes
<1>33. ASSUME NEW n \in Nodes, InstallError(n) PROVE RecordInv'
  BY <1>33, <1>t DEF InstallError, Moving, Goes
<1>34. ASSUME NEW n \in Nodes, InstallRecord(n) PROVE RecordInv'
  <2>1. UNCHANGED <<saw, cache, imported>> /\ es'.hashes = es.hashes
    BY <1>34, <1>t DEF InstallRecord, Creating, Goes
  <2>2. \A m \in Nodes \ {n} : at'[m] = at[m] /\ type'[m] = type[m]
    BY <1>34, <1>t DEF InstallRecord, Creating, Goes
  <2>3. /\ at[n] \in {"recordInstall"}
        /\ at'[n] \in {"abort", "failed", "unlockInstall"}
    BY <1>34, <1>t DEF InstallRecord, Creating, Goes
  <2> QED
    BY <2>1, <2>2, <2>3, RecordSame DEF OwnInv
<1>35. ASSUME NEW n \in Nodes, InstallUnlock(n) PROVE RecordInv'
  BY <1>35, <1>t DEF InstallUnlock, Unlocking, Unlocks, Release, Goes
<1>36. ASSUME NEW r \in Resources, Lapse(r) PROVE RecordInv'
  BY <1>36, <1>t DEF Lapse
<1>38. ASSUME NEW n \in Nodes, StorageError(n) PROVE RecordInv'
  <2>1. at[n] \notin Importing \cup {"abort"} => saw[n] = Nothing
    OBVIOUS
  <2>2. n \in late => at[n] \in Bootstrapping
    BY <1>38 DEF OwnInv, LateOut, StorageError, AsksStorage
  <2>3. at' = [at EXCEPT ![n] = "abort"] \/ (at' = [at EXCEPT ![n] = "failed"] /\ saw[n] = Nothing)
    BY <1>38, <2>1, <2>2 DEF StorageError, Bootstrapping
  <2> QED
    BY <1>38, <1>t, <2>3 DEF StorageError
<1>39. ASSUME NEW n \in Nodes, ImportBusyError(n) PROVE RecordInv'
  BY <1>39, <1>t DEF ImportBusyError, Moving, Goes
<1>37. CASE UNCHANGED startupVars
  BY <1>37 DEF startupVars
<1> QED
  BY <1>1, <1>2, <1>3, <1>4, <1>5, <1>6, <1>7, <1>8, <1>9, <1>10, <1>11, <1>12, <1>13, <1>14, <1>15, <1>16, <1>17, <1>18, <1>19, <1>20, <1>21, <1>22, <1>23, <1>24, <1>25, <1>26, <1>27, <1>28, <1>29, <1>30, <1>31, <1>32, <1>33, <1>34, <1>35, <1>36, <1>37, <1>38, <1>39 DEF Next, Advance

-----------------------------------------------------------------------------
\* Without faults, a node that waits for the collections waits for one that is
\* about to create them.
StoreInv ==
  failures = 0 /\ lapses = 0 =>
    /\ cells["Store.init"] # Dead
    /\ \A n \in Nodes :
         /\ Past(n) \/ at[n] \in {"unlockStore", "lockBootstrap", "bootstrap", "onlySecret",
                                "onlyNewSecret", "done"} \cup Bootstrapping => es.collections
         /\ at[n] = "waitStore" => es.collections \/ cells["Store.init"] \in Nodes
         /\ at[n] = "abort" => "Store.init" \notin own[n] /\ es.collections

\* A step of node n, after its wait, that has nothing to do with the collections.
LEMMA StoreSame ==
  ASSUME StoreInv, NEW n \in Nodes, UNCHANGED <<cells, own, failures, lapses>>,
         es'.collections = es.collections,
         \A m \in Nodes \ {n} : at'[m] = at[m],
         Past(n) \/ at[n] \in {"done", "onlySecret", "onlyNewSecret"} \cup Bootstrapping,
         "Store.init" \notin own[n], at'[n] # "waitStore"
  PROVE  StoreInv'
<1> SUFFICES ASSUME failures = 0, lapses = 0 PROVE StoreInv'
  BY DEF StoreInv
<1>1. es.collections
  BY DEF StoreInv
<1> QED
  BY <1>1 DEF StoreInv, Past

LEMMA StoreStep ==
  ASSUME OwnInv, StoreInv, [Next]_startupVars
  PROVE  StoreInv'
<1> USE TypesFacts, StartupAssumption DEF history, faults, nodeVars, StoreInv,
        Past, Importing, Bootstrapping
<1>t. /\ at \in [Nodes -> Step] /\ type \in [Nodes -> 1..Len(ImportTypes)]
      /\ own \in [Nodes -> SUBSET Resources] /\ cells \in [Resources -> Nodes \cup {None, Dead}]
      /\ failures \in Nat /\ lapses \in Nat /\ "Store.init" \in Resources
      /\ es \in [collections : BOOLEAN, seed : Nodes \cup {None}, version : BOOLEAN, done : BOOLEAN,
                 hashes : [Types -> Hashes \cup {None}], installed : BOOLEAN]
  BY DEF OwnInv, TypeOK, Storage, Cells, Resources
<1>o. /\ "Store.init" \notin Types
      /\ \A n \in Nodes : OwnAt(n)
      /\ \A n \in Nodes : cells["Store.init"] = n => "Store.init" \in own[n]
  BY <1>t DEF OwnInv, HolderInside
<1>1. ASSUME NEW n \in Nodes, Start(n) PROVE StoreInv'
  BY <1>1, <1>t DEF Start
<1>2. ASSUME NEW n \in Nodes, Crash(n) PROVE StoreInv'
  BY <1>2, <1>t, <1>o DEF Crash, Abandon, OwnAt
<1>3. ASSUME NEW n \in Nodes, Abort(n) PROVE StoreInv'
  BY <1>3, <1>t, <1>o DEF Abort, Unlocks, Release, Goes, OwnAt
<1>4. ASSUME NEW n \in Nodes, BootstrapTimeout(n) PROVE StoreInv'
  BY <1>4, <1>t, <1>o DEF BootstrapTimeout, Unlocks, Release, Bootstrapping, OwnAt
<1>5. ASSUME NEW n \in Nodes, StoreLock(n) PROVE StoreInv'
  BY <1>5, <1>t, <1>o DEF StoreLock, Locking, Locks, CanTake, Take, Goes, OwnAt
<1>6. ASSUME NEW n \in Nodes, StoreBusy(n) PROVE StoreInv'
  BY <1>6, <1>t DEF StoreBusy, Moving, CanTake, Goes
<1>7. ASSUME NEW n \in Nodes, StoreCreate(n) PROVE StoreInv'
  BY <1>7, <1>t, <1>o DEF StoreCreate, Goes, OwnAt
<1>8. ASSUME NEW n \in Nodes, StoreUnlock(n) PROVE StoreInv'
  BY <1>8, <1>t, <1>o DEF StoreUnlock, Unlocking, Unlocks, Release, Goes, OwnAt
<1>9. ASSUME NEW n \in Nodes, StoreWait(n) PROVE StoreInv'
  BY <1>9, <1>t DEF StoreWait, IsFree, Moving, Goes
<1>10. ASSUME NEW n \in Nodes, BootstrapLock(n) PROVE StoreInv'
  BY <1>10, <1>t, <1>o DEF BootstrapLock, Locking, Locks, CanTake, Take, Goes, OwnAt
<1>11. ASSUME NEW n \in Nodes, Bootstrap(n) PROVE StoreInv'
  BY <1>11, <1>t, <1>o DEF Bootstrap, Moving, Goes, OwnAt
<1>12. ASSUME NEW n \in Nodes, Secret(n) PROVE StoreInv'
  <2>1. UNCHANGED <<cells, own, failures, lapses>> /\ es'.collections = es.collections
    BY SMTT(30), <1>12, <1>t DEF Secret, SecretLook, SecretCreate, Creating, Goes
  <2>2. \A m \in Nodes \ {n} : at'[m] = at[m]
    BY SMTT(30), <1>12, <1>t DEF Secret, SecretLook, SecretCreate, Creating, Goes
  <2>3. /\ at[n] \in {"onlySecret", "onlyNewSecret", "secret", "newSecret"}
        /\ at'[n] \in {"abort", "failed", "onlyNewSecret", "unlockBootstrap", "newSecret", "version"}
    BY SMTT(30), <1>12, <1>t DEF Secret, SecretLook, SecretCreate, Creating, Goes
  <2>4. "Store.init" \notin own[n]
    BY <2>3, <1>o, <1>t DEF OwnAt
  <2> QED
    BY <2>1, <2>2, <2>3, <2>4, StoreSame
<1>13. ASSUME NEW n \in Nodes, VersionCreate(n) PROVE StoreInv'
  <2>1. UNCHANGED <<cells, own, failures, lapses>> /\ es'.collections = es.collections
    BY <1>13, <1>t DEF VersionCreate, Creating, Goes
  <2>2. \A m \in Nodes \ {n} : at'[m] = at[m]
    BY <1>13, <1>t DEF VersionCreate, Creating, Goes
  <2>3. /\ at[n] \in {"version"}
        /\ at'[n] \in {"abort", "failed", "done"}
    BY <1>13, <1>t DEF VersionCreate, Creating, Goes
  <2>4. "Store.init" \notin own[n]
    BY <2>3, <1>o, <1>t DEF OwnAt
  <2> QED
    BY <2>1, <2>2, <2>3, <2>4, StoreSame
<1>14. ASSUME NEW n \in Nodes, DoneCreate(n) PROVE StoreInv'
  <2>1. UNCHANGED <<cells, own, failures, lapses>> /\ es'.collections = es.collections
    BY <1>14, <1>t DEF DoneCreate, Creating, Goes
  <2>2. \A m \in Nodes \ {n} : at'[m] = at[m]
    BY <1>14, <1>t DEF DoneCreate, Creating, Goes
  <2>3. /\ at[n] \in {"done"}
        /\ at'[n] \in {"abort", "failed", "unlockBootstrap"}
    BY <1>14, <1>t DEF DoneCreate, Creating, Goes
  <2>4. "Store.init" \notin own[n]
    BY <2>3, <1>o, <1>t DEF OwnAt
  <2> QED
    BY <2>1, <2>2, <2>3, <2>4, StoreSame
<1>15. ASSUME NEW n \in Nodes, BootstrapUnlock(n) PROVE StoreInv'
  BY <1>15, <1>t, <1>o DEF BootstrapUnlock, Unlocking, Unlocks, Release, Goes, OwnAt
<1>16. ASSUME NEW n \in Nodes, JoinLock(n) PROVE StoreInv'
  BY <1>16, <1>t, <1>o DEF JoinLock, Locking, Locks, CanTake, Take, Goes, OwnAt
<1>17. ASSUME NEW n \in Nodes, JoinGiveUp(n) PROVE StoreInv'
  BY <1>17, <1>t, <1>o DEF JoinGiveUp, Moving, Goes, OwnAt
<1>18. ASSUME NEW n \in Nodes, Handshake(n) PROVE StoreInv'
  <2>1. CASE "clusterHandshake" \in own[n]
    <3>1. /\ at[n] = "handshake" /\ at' = [at EXCEPT ![n] = "readCache"]
          /\ UNCHANGED <<es, failures, lapses>>
      BY <1>18, <2>1 DEF Handshake, Unlocking, Goes
    <3>2. cells'["Store.init"] = cells["Store.init"]
      BY <1>18, <1>t, <2>1 DEF Handshake, Unlocking, Unlocks, Release
    <3>3. own' = [own EXCEPT ![n] = @ \ {"clusterHandshake"}]
      BY <1>18, <2>1 DEF Handshake, Unlocking, Unlocks
    <3> QED
      BY <1>t, <3>1, <3>2, <3>3
  <2>2. CASE "clusterHandshake" \notin own[n]
    BY <1>18, <1>t, <2>2 DEF Handshake, Moving, Goes
  <2> QED
    BY <2>1, <2>2
<1>19. ASSUME NEW n \in Nodes, ImportReadCache(n) PROVE StoreInv'
  BY <1>19, <1>t, <1>o DEF ImportReadCache, Type, Goes, OwnAt
<1>20. ASSUME NEW n \in Nodes, ImportReadDoc(n) PROVE StoreInv'
  BY <1>20, <1>t, <1>o DEF ImportReadDoc, Type, Goes, OwnAt
<1>21. ASSUME NEW n \in Nodes, ImportLock(n) PROVE StoreInv'
  BY <1>21, <1>t, <1>o DEF ImportLock, Locking, Locks, CanTake, Take, Type, Goes, OwnAt
<1>22. ASSUME NEW n \in Nodes, ImportBusy(n) PROVE StoreInv'
  BY <1>22, <1>t, <1>o DEF ImportBusy, NextType, Goes, OwnAt
<1>23. ASSUME NEW n \in Nodes, Import(n) PROVE StoreInv'
  BY <1>23, <1>t, <1>o DEF Import, Initialized, Type, Goes, OwnAt
<1>24. ASSUME NEW n \in Nodes, ImportError(n) PROVE StoreInv'
  BY <1>24, <1>t, <1>o DEF ImportError, Abandon, Type, Goes, OwnAt
<1>25. ASSUME NEW n \in Nodes, RecordDoc(n) PROVE StoreInv'
  <2>1. UNCHANGED <<cells, own, failures, lapses>> /\ es'.collections = es.collections
    BY <1>25, <1>t DEF RecordDoc, Creating, Type, Goes
  <2>2. \A m \in Nodes \ {n} : at'[m] = at[m]
    BY <1>25, <1>t DEF RecordDoc, Creating, Type, Goes
  <2>3. /\ at[n] \in {"record"}
        /\ at'[n] \in {"abort", "failed", "recordCache"}
    BY <1>25, <1>t DEF RecordDoc, Creating, Type, Goes
  <2>4. "Store.init" \notin own[n]
    BY <2>3, <1>o, <1>t DEF OwnAt
  <2> QED
    BY <2>1, <2>2, <2>3, <2>4, StoreSame
<1>26. ASSUME NEW n \in Nodes, RecordKnown(n) PROVE StoreInv'
  BY <1>26, <1>t, <1>o DEF RecordKnown, Moving, Goes, OwnAt
<1>27. ASSUME NEW n \in Nodes, RecordCache(n) PROVE StoreInv'
  BY <1>27, <1>t, <1>o DEF RecordCache, NextType, Type, Goes, OwnAt
<1>28. ASSUME NEW n \in Nodes, ImportWait(n) PROVE StoreInv'
  BY <1>28, <1>t, <1>o DEF ImportWait, Goes, OwnAt
<1>29. ASSUME NEW n \in Nodes, ImportUnlock(n) PROVE StoreInv'
  BY <1>29, <1>t, <1>o DEF ImportUnlock, Unlocking, Unlocks, Release, Goes, OwnAt
<1>30. ASSUME NEW n \in Nodes, InstallLock(n) PROVE StoreInv'
  BY <1>30, <1>t, <1>o DEF InstallLock, Locking, Locks, CanTake, Take, Goes, OwnAt
<1>31. ASSUME NEW n \in Nodes, InstallCheck(n) PROVE StoreInv'
  BY <1>31, <1>t, <1>o DEF InstallCheck, Moving, Goes, OwnAt
<1>32. ASSUME NEW n \in Nodes, InstallHandler(n) PROVE StoreInv'
  BY <1>32, <1>t, <1>o DEF InstallHandler, Goes, OwnAt
<1>33. ASSUME NEW n \in Nodes, InstallError(n) PROVE StoreInv'
  BY <1>33, <1>t, <1>o DEF InstallError, Moving, Goes, OwnAt
<1>34. ASSUME NEW n \in Nodes, InstallRecord(n) PROVE StoreInv'
  <2>1. UNCHANGED <<cells, own, failures, lapses>> /\ es'.collections = es.collections
    BY <1>34, <1>t DEF InstallRecord, Creating, Goes
  <2>2. \A m \in Nodes \ {n} : at'[m] = at[m]
    BY <1>34, <1>t DEF InstallRecord, Creating, Goes
  <2>3. /\ at[n] \in {"recordInstall"}
        /\ at'[n] \in {"abort", "failed", "unlockInstall"}
    BY <1>34, <1>t DEF InstallRecord, Creating, Goes
  <2>4. "Store.init" \notin own[n]
    BY <2>3, <1>o, <1>t DEF OwnAt
  <2> QED
    BY <2>1, <2>2, <2>3, <2>4, StoreSame
<1>35. ASSUME NEW n \in Nodes, InstallUnlock(n) PROVE StoreInv'
  BY <1>35, <1>t, <1>o DEF InstallUnlock, Unlocking, Unlocks, Release, Goes, OwnAt
<1>36. ASSUME NEW r \in Resources, Lapse(r) PROVE StoreInv'
  BY <1>36, <1>t DEF Lapse, Drop
<1>38. ASSUME NEW n \in Nodes, StorageError(n) PROVE StoreInv'
  BY <1>38, <1>t DEF StorageError
<1>39. ASSUME NEW n \in Nodes, ImportBusyError(n) PROVE StoreInv'
  BY <1>39, <1>t, <1>o DEF ImportBusyError, Moving, Goes, OwnAt
<1>37. CASE UNCHANGED startupVars
  BY <1>37 DEF startupVars
<1> QED
  BY <1>1, <1>2, <1>3, <1>4, <1>5, <1>6, <1>7, <1>8, <1>9, <1>10, <1>11, <1>12, <1>13, <1>14, <1>15, <1>16, <1>17, <1>18, <1>19, <1>20, <1>21, <1>22, <1>23, <1>24, <1>25, <1>26, <1>27, <1>28, <1>29, <1>30, <1>31, <1>32, <1>33, <1>34, <1>35, <1>36, <1>37, <1>38, <1>39 DEF Next, Advance

-----------------------------------------------------------------------------
\* The nodes that are inside the mutex of the installations, those among them that
\* have lost its key, those that run the handler, those that have run it.
Inside   == {n \in Nodes : "backend:installations" \in own[n]}
Lost     == {n \in Inside : cells["backend:installations"] # n}
Running  == {n \in Nodes : at[n] = "handler"}
HasRun   == {n \in Nodes : at[n] = "recordInstall"}

\* A node loses the key when a TTL ends too early.  Before the installation is
\* recorded, a run of the handler is that of a node which is about to record it or
\* has crashed; after that, the runs to come are those that have begun.
InstallInv ==
  /\ IsFiniteSet(Lost) /\ Cardinality(Lost) <= lapses
  /\ \A n \in Nodes : at[n] \in {"install", "handler", "recordInstall", "unlockInstall"} =>
       "backend:installations" \in own[n]
  /\ ~es.installed => installs <= Cardinality(HasRun) + failures
  /\ es.installed => installs + Cardinality(Running) <= 1 + failures + lapses

LEMMA InsideFew ==
  ASSUME TypeOK, InstallInv
  PROVE  /\ IsFiniteSet(Inside) /\ IsFiniteSet(Running) /\ IsFiniteSet(HasRun)
         /\ Cardinality(Running) + Cardinality(HasRun) <= 1 + lapses
         /\ {Cardinality(Running), Cardinality(HasRun), Cardinality(Lost)} \subseteq Nat
<1> DEFINE h == cells["backend:installations"]
<1>1. Inside \subseteq Lost \cup {h}
  BY DEF Lost
<1>2. IsFiniteSet({h}) /\ Cardinality({h}) = 1
  BY FS_Singleton
<1>3. IsFiniteSet(Lost) /\ Cardinality(Lost) \in Nat
  BY FS_CardinalityType DEF InstallInv
<1>4. /\ IsFiniteSet(Lost \cup {h})
      /\ Cardinality(Lost \cup {h}) <= 1 + Cardinality(Lost)
  BY <1>3, FS_AddElement, SMTT(20)
<1>5. IsFiniteSet(Inside) /\ Cardinality(Inside) <= Cardinality(Lost \cup {h})
  BY <1>1, <1>4, FS_Subset
<1>6. Running \cup HasRun \subseteq Inside
  BY DEF Running, HasRun, Inside, InstallInv
<1>7. IsFiniteSet(Running) /\ IsFiniteSet(HasRun)
      /\ IsFiniteSet(Running \cup HasRun) /\ Cardinality(Running \cup HasRun) <= Cardinality(Inside)
  BY <1>5, <1>6, FS_Subset
<1>8. Running \cap HasRun = {}
  BY DEF Running, HasRun
<1>9. Cardinality(Running \cup HasRun) = Cardinality(Running) + Cardinality(HasRun)
  <2>1. Cardinality(Running \cup HasRun)
        = Cardinality(Running) + Cardinality(HasRun) - Cardinality(Running \cap HasRun)
    BY <1>7, FS_Union
  <2>2. Cardinality(Running \cap HasRun) = 0
    BY <1>8, FS_EmptySet
  <2>3. Cardinality(Running) \in Nat /\ Cardinality(HasRun) \in Nat
    BY <1>7, FS_CardinalityType
  <2> QED
    BY <2>1, <2>2, <2>3
<1>10. {Cardinality(Running), Cardinality(HasRun), Cardinality(Inside),
        Cardinality(Lost \cup {h})} \subseteq Nat
  BY <1>4, <1>5, <1>7, FS_CardinalityType
<1>11. Cardinality(Lost) <= lapses /\ lapses \in Nat
  BY DEF InstallInv, TypeOK
<1> QED
  BY <1>3, <1>4, <1>5, <1>7, <1>9, <1>10, <1>11

\* A step of node n that has nothing to do with the handler.
LEMMA InstallSame ==
  ASSUME TypeOK, InstallInv, NEW n \in Nodes,
         \A m \in Nodes \ {n} : at'[m] = at[m] /\ own'[m] = own[m],
         at[n] \notin {"handler", "recordInstall"}, at'[n] \notin {"handler", "recordInstall"},
         at'[n] \in {"install", "unlockInstall"} => "backend:installations" \in own'[n],
         es'.installed = es.installed, UNCHANGED <<installs, failures, lapses>>,
         Lost' \subseteq Lost
  PROVE  InstallInv'
<1>1. Running' = Running /\ HasRun' = HasRun
  BY DEF Running, HasRun
<1>2. IsFiniteSet(Lost') /\ Cardinality(Lost') <= Cardinality(Lost)
  BY FS_Subset DEF InstallInv
<1>3. Cardinality(Lost') \in Nat /\ Cardinality(Lost) \in Nat
  BY <1>2, FS_CardinalityType DEF InstallInv
<1>4. Cardinality(Lost') <= lapses'
  BY <1>2, <1>3 DEF InstallInv, TypeOK
<1>5. ASSUME NEW m \in Nodes,
             at'[m] \in {"install", "handler", "recordInstall", "unlockInstall"}
      PROVE  "backend:installations" \in own'[m]
  BY <1>5 DEF InstallInv
<1> QED
  BY <1>1, <1>2, <1>4, <1>5 DEF InstallInv

LEMMA InstallStep ==
  ASSUME OwnInv, InstallInv, [Next]_startupVars
  PROVE  InstallInv'
<1> USE TypesFacts, StartupAssumption DEF history, faults, nodeVars, Importing, Bootstrapping
<1>t. /\ at \in [Nodes -> Step] /\ type \in [Nodes -> 1..Len(ImportTypes)]
      /\ own \in [Nodes -> SUBSET Resources] /\ cells \in [Resources -> Nodes \cup {None, Dead}]
      /\ failures \in Nat /\ lapses \in Nat /\ installs \in Nat
      /\ "backend:installations" \in Resources
      /\ es \in [collections : BOOLEAN, seed : Nodes \cup {None}, version : BOOLEAN, done : BOOLEAN,
                 hashes : [Types -> Hashes \cup {None}], installed : BOOLEAN]
  BY DEF OwnInv, TypeOK, Storage, Cells, Resources
<1>o. /\ "backend:installations" \notin Types
      /\ \A n \in Nodes : OwnAt(n)
      /\ TypeOK
  BY <1>t DEF OwnInv
<1>f. /\ IsFiniteSet(Running) /\ IsFiniteSet(HasRun)
      /\ Cardinality(Running) + Cardinality(HasRun) <= 1 + lapses
      /\ Cardinality(Running) \in Nat /\ Cardinality(HasRun) \in Nat
      /\ IsFiniteSet(Lost) /\ Cardinality(Lost) \in Nat
  BY <1>o, InsideFew DEF InstallInv
<1>n. {failures, lapses, installs} \subseteq Nat
  BY <1>t
<1>i. /\ ~es.installed => installs <= Cardinality(HasRun) + failures
      /\ es.installed => installs + Cardinality(Running) <= 1 + failures + lapses
      /\ Cardinality(Lost) <= lapses
  BY DEF InstallInv
<1>1. ASSUME NEW n \in Nodes, Start(n) PROVE InstallInv'
  <2>1. /\ es'.installed = es.installed /\ UNCHANGED <<installs, failures, lapses>>
        /\ \A m \in Nodes \ {n} : at'[m] = at[m] /\ own'[m] = own[m]
    BY <1>1, <1>t DEF Start
  <2>2. /\ at[n] \notin {"handler", "recordInstall"} /\ at'[n] \notin {"handler", "recordInstall"}
        /\ at'[n] \in {"install", "unlockInstall"} => "backend:installations" \in own'[n]
    BY <1>1, <1>t DEF Start
  <2>3. Lost' \subseteq Lost
    BY <1>1, <1>t DEF Start, Lost, Inside
  <2> QED
    BY <1>o, <2>1, <2>2, <2>3, InstallSame
<1>2. ASSUME NEW n \in Nodes, Crash(n) PROVE InstallInv'
  <2>1. /\ at' = [at EXCEPT ![n] = "down"] /\ own' = [own EXCEPT ![n] = {}]
        /\ failures' = failures + 1 /\ UNCHANGED <<es, installs, lapses>>
    BY <1>2 DEF Crash
  <2>2. Lost' \subseteq Lost
    BY <1>2, <1>t, <2>1 DEF Crash, Abandon, Lost, Inside
  <2>3. IsFiniteSet(Lost') /\ Cardinality(Lost') <= Cardinality(Lost)
        /\ Cardinality(Lost') \in Nat
    BY <1>f, <2>2, FS_Subset, FS_CardinalityType
  <2>4. Running' = Running \ {n} /\ HasRun' = HasRun \ {n}
    BY <1>t, <2>1 DEF Running, HasRun
  <2>5. Cardinality(Running') <= Cardinality(Running) /\ Cardinality(Running') \in Nat
    BY <1>f, <2>4, FS_Subset, FS_CardinalityType
  <2>6. Cardinality(HasRun) <= Cardinality(HasRun') + 1 /\ Cardinality(HasRun') \in Nat
    <3>1. Cardinality(HasRun \ {n}) = IF n \in HasRun THEN Cardinality(HasRun) - 1
                                    ELSE Cardinality(HasRun)
      BY <1>f, FS_RemoveElement
    <3>2. IsFiniteSet(HasRun \ {n})
      BY <1>f, FS_Subset
    <3> QED
      BY <1>f, <2>4, <3>1, <3>2, FS_CardinalityType
  <2>7. \A m \in Nodes : at'[m] \in {"install", "handler", "recordInstall", "unlockInstall"} =>
          "backend:installations" \in own'[m]
    BY <1>t, <2>1 DEF InstallInv
  <2>8. ~es'.installed => installs' <= Cardinality(HasRun') + failures'
    <3> HIDE TypesFacts, StartupAssumption
    <3> QED
      BY <1>n, <1>i, <1>f, <2>1, <2>6
  <2>9. es'.installed => installs' + Cardinality(Running') <= 1 + failures' + lapses'
    <3> HIDE TypesFacts, StartupAssumption
    <3> QED
      BY <1>n, <1>i, <1>f, <2>1, <2>5
  <2>10. Cardinality(Lost') <= lapses'
    <3> HIDE TypesFacts, StartupAssumption
    <3> QED
      BY <1>n, <1>i, <1>f, <2>1, <2>3
  <2> QED
    BY <2>3, <2>7, <2>8, <2>9, <2>10 DEF InstallInv
<1>3. ASSUME NEW n \in Nodes, Abort(n) PROVE InstallInv'
  <2>1. /\ es'.installed = es.installed /\ UNCHANGED <<installs, failures, lapses>>
        /\ \A m \in Nodes \ {n} : at'[m] = at[m] /\ own'[m] = own[m]
    BY <1>3, <1>t DEF Abort, Unlocks, Release, Goes
  <2>2. /\ at[n] \notin {"handler", "recordInstall"} /\ at'[n] \notin {"handler", "recordInstall"}
        /\ at'[n] \in {"install", "unlockInstall"} => "backend:installations" \in own'[n]
    BY <1>3, <1>t DEF Abort, Unlocks, Release, Goes
  <2>3. Lost' \subseteq Lost
    BY <1>3, <1>t DEF Abort, Unlocks, Release, Goes, Lost, Inside
  <2> QED
    BY <1>o, <2>1, <2>2, <2>3, InstallSame
<1>4. ASSUME NEW n \in Nodes, BootstrapTimeout(n) PROVE InstallInv'
  <2>1. /\ es'.installed = es.installed /\ UNCHANGED <<installs, failures, lapses>>
        /\ \A m \in Nodes \ {n} : at'[m] = at[m] /\ own'[m] = own[m]
    BY <1>4, <1>t DEF BootstrapTimeout, Unlocks, Release, Bootstrapping
  <2>2. /\ at[n] \notin {"handler", "recordInstall"} /\ at'[n] \notin {"handler", "recordInstall"}
        /\ at'[n] \in {"install", "unlockInstall"} => "backend:installations" \in own'[n]
    BY <1>4, <1>t DEF BootstrapTimeout, Unlocks, Release, Bootstrapping
  <2>3. Lost' \subseteq Lost
    BY <1>4, <1>t DEF BootstrapTimeout, Unlocks, Release, Bootstrapping, Lost, Inside
  <2> QED
    BY <1>o, <2>1, <2>2, <2>3, InstallSame
<1>5. ASSUME NEW n \in Nodes, StoreLock(n) PROVE InstallInv'
  <2>1. /\ es'.installed = es.installed /\ UNCHANGED <<installs, failures, lapses>>
        /\ \A m \in Nodes \ {n} : at'[m] = at[m] /\ own'[m] = own[m]
    BY <1>5, <1>t DEF StoreLock, Locking, Locks, CanTake, Take, Goes
  <2>2. /\ at[n] \notin {"handler", "recordInstall"} /\ at'[n] \notin {"handler", "recordInstall"}
        /\ at'[n] \in {"install", "unlockInstall"} => "backend:installations" \in own'[n]
    BY <1>5, <1>t DEF StoreLock, Locking, Locks, CanTake, Take, Goes
  <2>3. Lost' \subseteq Lost
    BY <1>5, <1>t DEF StoreLock, Locking, Locks, CanTake, Take, Goes, Lost, Inside
  <2> QED
    BY <1>o, <2>1, <2>2, <2>3, InstallSame
<1>6. ASSUME NEW n \in Nodes, StoreBusy(n) PROVE InstallInv'
  <2>1. /\ es'.installed = es.installed /\ UNCHANGED <<installs, failures, lapses>>
        /\ \A m \in Nodes \ {n} : at'[m] = at[m] /\ own'[m] = own[m]
    BY <1>6, <1>t DEF StoreBusy, Moving, CanTake, Goes
  <2>2. /\ at[n] \notin {"handler", "recordInstall"} /\ at'[n] \notin {"handler", "recordInstall"}
        /\ at'[n] \in {"install", "unlockInstall"} => "backend:installations" \in own'[n]
    BY <1>6, <1>t DEF StoreBusy, Moving, CanTake, Goes
  <2>3. Lost' \subseteq Lost
    BY <1>6, <1>t DEF StoreBusy, Moving, CanTake, Goes, Lost, Inside
  <2> QED
    BY <1>o, <2>1, <2>2, <2>3, InstallSame
<1>7. ASSUME NEW n \in Nodes, StoreCreate(n) PROVE InstallInv'
  <2>1. /\ es'.installed = es.installed /\ UNCHANGED <<installs, failures, lapses>>
        /\ \A m \in Nodes \ {n} : at'[m] = at[m] /\ own'[m] = own[m]
    BY <1>7, <1>t DEF StoreCreate, Goes
  <2>2. /\ at[n] \notin {"handler", "recordInstall"} /\ at'[n] \notin {"handler", "recordInstall"}
        /\ at'[n] \in {"install", "unlockInstall"} => "backend:installations" \in own'[n]
    BY <1>7, <1>t DEF StoreCreate, Goes
  <2>3. Lost' \subseteq Lost
    BY <1>7, <1>t DEF StoreCreate, Goes, Lost, Inside
  <2> QED
    BY <1>o, <2>1, <2>2, <2>3, InstallSame
<1>8. ASSUME NEW n \in Nodes, StoreUnlock(n) PROVE InstallInv'
  <2>1. /\ es'.installed = es.installed /\ UNCHANGED <<installs, failures, lapses>>
        /\ \A m \in Nodes \ {n} : at'[m] = at[m] /\ own'[m] = own[m]
    BY <1>8, <1>t DEF StoreUnlock, Unlocking, Unlocks, Release, Goes
  <2>2. /\ at[n] \notin {"handler", "recordInstall"} /\ at'[n] \notin {"handler", "recordInstall"}
        /\ at'[n] \in {"install", "unlockInstall"} => "backend:installations" \in own'[n]
    BY <1>8, <1>t DEF StoreUnlock, Unlocking, Unlocks, Release, Goes
  <2>3. Lost' \subseteq Lost
    BY <1>8, <1>t DEF StoreUnlock, Unlocking, Unlocks, Release, Goes, Lost, Inside
  <2> QED
    BY <1>o, <2>1, <2>2, <2>3, InstallSame
<1>9. ASSUME NEW n \in Nodes, StoreWait(n) PROVE InstallInv'
  <2>1. /\ es'.installed = es.installed /\ UNCHANGED <<installs, failures, lapses>>
        /\ \A m \in Nodes \ {n} : at'[m] = at[m] /\ own'[m] = own[m]
    BY <1>9, <1>t DEF StoreWait, IsFree, Moving, Goes
  <2>2. /\ at[n] \notin {"handler", "recordInstall"} /\ at'[n] \notin {"handler", "recordInstall"}
        /\ at'[n] \in {"install", "unlockInstall"} => "backend:installations" \in own'[n]
    BY <1>9, <1>t DEF StoreWait, IsFree, Moving, Goes
  <2>3. Lost' \subseteq Lost
    BY <1>9, <1>t DEF StoreWait, IsFree, Moving, Goes, Lost, Inside
  <2> QED
    BY <1>o, <2>1, <2>2, <2>3, InstallSame
<1>10. ASSUME NEW n \in Nodes, BootstrapLock(n) PROVE InstallInv'
  <2>1. /\ es'.installed = es.installed /\ UNCHANGED <<installs, failures, lapses>>
        /\ \A m \in Nodes \ {n} : at'[m] = at[m] /\ own'[m] = own[m]
    BY <1>10, <1>t DEF BootstrapLock, Locking, Locks, CanTake, Take, Goes
  <2>2. /\ at[n] \notin {"handler", "recordInstall"} /\ at'[n] \notin {"handler", "recordInstall"}
        /\ at'[n] \in {"install", "unlockInstall"} => "backend:installations" \in own'[n]
    BY <1>10, <1>t DEF BootstrapLock, Locking, Locks, CanTake, Take, Goes
  <2>3. Lost' \subseteq Lost
    BY <1>10, <1>t DEF BootstrapLock, Locking, Locks, CanTake, Take, Goes, Lost, Inside
  <2> QED
    BY <1>o, <2>1, <2>2, <2>3, InstallSame
<1>11. ASSUME NEW n \in Nodes, Bootstrap(n) PROVE InstallInv'
  <2>1. /\ es'.installed = es.installed /\ UNCHANGED <<installs, failures, lapses>>
        /\ \A m \in Nodes \ {n} : at'[m] = at[m] /\ own'[m] = own[m]
    BY <1>11, <1>t DEF Bootstrap, Moving, Goes
  <2>2. /\ at[n] \notin {"handler", "recordInstall"} /\ at'[n] \notin {"handler", "recordInstall"}
        /\ at'[n] \in {"install", "unlockInstall"} => "backend:installations" \in own'[n]
    BY <1>11, <1>t DEF Bootstrap, Moving, Goes
  <2>3. Lost' \subseteq Lost
    BY <1>11, <1>t DEF Bootstrap, Moving, Goes, Lost, Inside
  <2> QED
    BY <1>o, <2>1, <2>2, <2>3, InstallSame
<1>12. ASSUME NEW n \in Nodes, Secret(n) PROVE InstallInv'
  <2>1. /\ es'.installed = es.installed /\ UNCHANGED <<installs, failures, lapses>>
        /\ \A m \in Nodes \ {n} : at'[m] = at[m] /\ own'[m] = own[m]
    BY SMTT(30), <1>12, <1>t DEF Secret, SecretLook, SecretCreate, Creating, Goes
  <2>2. /\ at[n] \notin {"handler", "recordInstall"} /\ at'[n] \notin {"handler", "recordInstall"}
        /\ at'[n] \in {"install", "unlockInstall"} => "backend:installations" \in own'[n]
    BY SMTT(30), <1>12, <1>t DEF Secret, SecretLook, SecretCreate, Creating, Goes
  <2>3. Lost' \subseteq Lost
    BY <1>12, <1>t DEF Secret, SecretLook, SecretCreate, Creating, Goes, Lost, Inside
  <2> QED
    BY <1>o, <2>1, <2>2, <2>3, InstallSame
<1>13. ASSUME NEW n \in Nodes, VersionCreate(n) PROVE InstallInv'
  <2>1. /\ es'.installed = es.installed /\ UNCHANGED <<installs, failures, lapses>>
        /\ \A m \in Nodes \ {n} : at'[m] = at[m] /\ own'[m] = own[m]
    BY <1>13, <1>t DEF VersionCreate, Creating, Goes
  <2>2. /\ at[n] \notin {"handler", "recordInstall"} /\ at'[n] \notin {"handler", "recordInstall"}
        /\ at'[n] \in {"install", "unlockInstall"} => "backend:installations" \in own'[n]
    BY <1>13, <1>t DEF VersionCreate, Creating, Goes
  <2>3. Lost' \subseteq Lost
    BY <1>13, <1>t DEF VersionCreate, Creating, Goes, Lost, Inside
  <2> QED
    BY <1>o, <2>1, <2>2, <2>3, InstallSame
<1>14. ASSUME NEW n \in Nodes, DoneCreate(n) PROVE InstallInv'
  <2>1. /\ es'.installed = es.installed /\ UNCHANGED <<installs, failures, lapses>>
        /\ \A m \in Nodes \ {n} : at'[m] = at[m] /\ own'[m] = own[m]
    BY <1>14, <1>t DEF DoneCreate, Creating, Goes
  <2>2. /\ at[n] \notin {"handler", "recordInstall"} /\ at'[n] \notin {"handler", "recordInstall"}
        /\ at'[n] \in {"install", "unlockInstall"} => "backend:installations" \in own'[n]
    BY <1>14, <1>t DEF DoneCreate, Creating, Goes
  <2>3. Lost' \subseteq Lost
    BY <1>14, <1>t DEF DoneCreate, Creating, Goes, Lost, Inside
  <2> QED
    BY <1>o, <2>1, <2>2, <2>3, InstallSame
<1>15. ASSUME NEW n \in Nodes, BootstrapUnlock(n) PROVE InstallInv'
  <2>1. /\ es'.installed = es.installed /\ UNCHANGED <<installs, failures, lapses>>
        /\ \A m \in Nodes \ {n} : at'[m] = at[m] /\ own'[m] = own[m]
    BY <1>15, <1>t DEF BootstrapUnlock, Unlocking, Unlocks, Release, Goes
  <2>2. /\ at[n] \notin {"handler", "recordInstall"} /\ at'[n] \notin {"handler", "recordInstall"}
        /\ at'[n] \in {"install", "unlockInstall"} => "backend:installations" \in own'[n]
    BY <1>15, <1>t DEF BootstrapUnlock, Unlocking, Unlocks, Release, Goes
  <2>3. Lost' \subseteq Lost
    BY <1>15, <1>t DEF BootstrapUnlock, Unlocking, Unlocks, Release, Goes, Lost, Inside
  <2> QED
    BY <1>o, <2>1, <2>2, <2>3, InstallSame
<1>16. ASSUME NEW n \in Nodes, JoinLock(n) PROVE InstallInv'
  <2>1. /\ es'.installed = es.installed /\ UNCHANGED <<installs, failures, lapses>>
        /\ \A m \in Nodes \ {n} : at'[m] = at[m] /\ own'[m] = own[m]
    BY <1>16, <1>t DEF JoinLock, Locking, Locks, CanTake, Take, Goes
  <2>2. /\ at[n] \notin {"handler", "recordInstall"} /\ at'[n] \notin {"handler", "recordInstall"}
        /\ at'[n] \in {"install", "unlockInstall"} => "backend:installations" \in own'[n]
    BY <1>16, <1>t DEF JoinLock, Locking, Locks, CanTake, Take, Goes
  <2>3. Lost' \subseteq Lost
    BY <1>16, <1>t DEF JoinLock, Locking, Locks, CanTake, Take, Goes, Lost, Inside
  <2> QED
    BY <1>o, <2>1, <2>2, <2>3, InstallSame
<1>17. ASSUME NEW n \in Nodes, JoinGiveUp(n) PROVE InstallInv'
  <2>1. /\ es'.installed = es.installed /\ UNCHANGED <<installs, failures, lapses>>
        /\ \A m \in Nodes \ {n} : at'[m] = at[m] /\ own'[m] = own[m]
    BY <1>17, <1>t DEF JoinGiveUp, Moving, Goes
  <2>2. /\ at[n] \notin {"handler", "recordInstall"} /\ at'[n] \notin {"handler", "recordInstall"}
        /\ at'[n] \in {"install", "unlockInstall"} => "backend:installations" \in own'[n]
    BY <1>17, <1>t DEF JoinGiveUp, Moving, Goes
  <2>3. Lost' \subseteq Lost
    BY <1>17, <1>t DEF JoinGiveUp, Moving, Goes, Lost, Inside
  <2> QED
    BY <1>o, <2>1, <2>2, <2>3, InstallSame
<1>18. ASSUME NEW n \in Nodes, Handshake(n) PROVE InstallInv'
  <2>1. /\ es'.installed = es.installed /\ UNCHANGED <<installs, failures, lapses>>
        /\ \A m \in Nodes \ {n} : at'[m] = at[m] /\ own'[m] = own[m]
    BY <1>18, <1>t DEF Handshake, Unlocking, Unlocks, Release, Moving, Goes
  <2>2. /\ at[n] \notin {"handler", "recordInstall"} /\ at'[n] \notin {"handler", "recordInstall"}
        /\ at'[n] \in {"install", "unlockInstall"} => "backend:installations" \in own'[n]
    BY <1>18, <1>t DEF Handshake, Unlocking, Unlocks, Release, Moving, Goes
  <2>3. Lost' \subseteq Lost
    <3>1. CASE "clusterHandshake" \in own[n]
      BY <1>18, <1>t, <3>1 DEF Handshake, Unlocking, Unlocks, Release, Goes, Lost, Inside
    <3>2. CASE "clusterHandshake" \notin own[n]
      BY <1>18, <3>2 DEF Handshake, Moving, Goes, Lost, Inside
    <3> QED
      BY <3>1, <3>2
  <2> QED
    BY <1>o, <2>1, <2>2, <2>3, InstallSame
<1>19. ASSUME NEW n \in Nodes, ImportReadCache(n) PROVE InstallInv'
  <2>1. /\ es'.installed = es.installed /\ UNCHANGED <<installs, failures, lapses>>
        /\ \A m \in Nodes \ {n} : at'[m] = at[m] /\ own'[m] = own[m]
    BY <1>19, <1>t DEF ImportReadCache, Type, Goes
  <2>2. /\ at[n] \notin {"handler", "recordInstall"} /\ at'[n] \notin {"handler", "recordInstall"}
        /\ at'[n] \in {"install", "unlockInstall"} => "backend:installations" \in own'[n]
    BY <1>19, <1>t DEF ImportReadCache, Type, Goes
  <2>3. Lost' \subseteq Lost
    BY <1>19, <1>t DEF ImportReadCache, Type, Goes, Lost, Inside
  <2> QED
    BY <1>o, <2>1, <2>2, <2>3, InstallSame
<1>20. ASSUME NEW n \in Nodes, ImportReadDoc(n) PROVE InstallInv'
  <2>1. /\ es'.installed = es.installed /\ UNCHANGED <<installs, failures, lapses>>
        /\ \A m \in Nodes \ {n} : at'[m] = at[m] /\ own'[m] = own[m]
    BY <1>20, <1>t DEF ImportReadDoc, Type, Goes
  <2>2. /\ at[n] \notin {"handler", "recordInstall"} /\ at'[n] \notin {"handler", "recordInstall"}
        /\ at'[n] \in {"install", "unlockInstall"} => "backend:installations" \in own'[n]
    BY <1>20, <1>t DEF ImportReadDoc, Type, Goes
  <2>3. Lost' \subseteq Lost
    BY <1>20, <1>t DEF ImportReadDoc, Type, Goes, Lost, Inside
  <2> QED
    BY <1>o, <2>1, <2>2, <2>3, InstallSame
<1>21. ASSUME NEW n \in Nodes, ImportLock(n) PROVE InstallInv'
  <2>1. /\ es'.installed = es.installed /\ UNCHANGED <<installs, failures, lapses>>
        /\ \A m \in Nodes \ {n} : at'[m] = at[m] /\ own'[m] = own[m]
    BY <1>21, <1>t DEF ImportLock, Locking, Locks, CanTake, Take, Type, Goes
  <2>2. /\ at[n] \notin {"handler", "recordInstall"} /\ at'[n] \notin {"handler", "recordInstall"}
        /\ at'[n] \in {"install", "unlockInstall"} => "backend:installations" \in own'[n]
    BY <1>21, <1>t DEF ImportLock, Locking, Locks, CanTake, Take, Type, Goes
  <2>3. Lost' \subseteq Lost
    BY <1>21, <1>t DEF ImportLock, Locking, Locks, CanTake, Take, Type, Goes, Lost, Inside
  <2> QED
    BY <1>o, <2>1, <2>2, <2>3, InstallSame
<1>22. ASSUME NEW n \in Nodes, ImportBusy(n) PROVE InstallInv'
  <2>1. /\ es'.installed = es.installed /\ UNCHANGED <<installs, failures, lapses>>
        /\ \A m \in Nodes \ {n} : at'[m] = at[m] /\ own'[m] = own[m]
    BY <1>22, <1>t DEF ImportBusy, NextType, Goes
  <2>2. /\ at[n] \notin {"handler", "recordInstall"} /\ at'[n] \notin {"handler", "recordInstall"}
        /\ at'[n] \in {"install", "unlockInstall"} => "backend:installations" \in own'[n]
    BY <1>22, <1>t DEF ImportBusy, NextType, Goes
  <2>3. Lost' \subseteq Lost
    BY <1>22, <1>t DEF ImportBusy, NextType, Goes, Lost, Inside
  <2> QED
    BY <1>o, <2>1, <2>2, <2>3, InstallSame
<1>23. ASSUME NEW n \in Nodes, Import(n) PROVE InstallInv'
  <2>1. /\ es'.installed = es.installed /\ UNCHANGED <<installs, failures, lapses>>
        /\ \A m \in Nodes \ {n} : at'[m] = at[m] /\ own'[m] = own[m]
    BY <1>23, <1>t DEF Import, Initialized, Type, Goes
  <2>2. /\ at[n] \notin {"handler", "recordInstall"} /\ at'[n] \notin {"handler", "recordInstall"}
        /\ at'[n] \in {"install", "unlockInstall"} => "backend:installations" \in own'[n]
    BY <1>23, <1>t DEF Import, Initialized, Type, Goes
  <2>3. Lost' \subseteq Lost
    BY <1>23, <1>t DEF Import, Initialized, Type, Goes, Lost, Inside
  <2> QED
    BY <1>o, <2>1, <2>2, <2>3, InstallSame
<1>24. ASSUME NEW n \in Nodes, ImportError(n) PROVE InstallInv'
  <2>1. /\ es'.installed = es.installed /\ UNCHANGED <<installs, failures, lapses>>
        /\ \A m \in Nodes \ {n} : at'[m] = at[m] /\ own'[m] = own[m]
    BY <1>24, <1>t DEF ImportError, Abandon, Type, Goes
  <2>2. /\ at[n] \notin {"handler", "recordInstall"} /\ at'[n] \notin {"handler", "recordInstall"}
        /\ at'[n] \in {"install", "unlockInstall"} => "backend:installations" \in own'[n]
    BY <1>24, <1>t DEF ImportError, Abandon, Type, Goes
  <2>3. Lost' \subseteq Lost
    BY <1>24, <1>t DEF ImportError, Abandon, Type, Goes, Lost, Inside
  <2> QED
    BY <1>o, <2>1, <2>2, <2>3, InstallSame
<1>25. ASSUME NEW n \in Nodes, RecordDoc(n) PROVE InstallInv'
  <2>1. /\ es'.installed = es.installed /\ UNCHANGED <<installs, failures, lapses>>
        /\ \A m \in Nodes \ {n} : at'[m] = at[m] /\ own'[m] = own[m]
    BY <1>25, <1>t DEF RecordDoc, Creating, Type, Goes
  <2>2. /\ at[n] \notin {"handler", "recordInstall"} /\ at'[n] \notin {"handler", "recordInstall"}
        /\ at'[n] \in {"install", "unlockInstall"} => "backend:installations" \in own'[n]
    BY <1>25, <1>t DEF RecordDoc, Creating, Type, Goes
  <2>3. Lost' \subseteq Lost
    BY <1>25, <1>t DEF RecordDoc, Creating, Type, Goes, Lost, Inside
  <2> QED
    BY <1>o, <2>1, <2>2, <2>3, InstallSame
<1>26. ASSUME NEW n \in Nodes, RecordKnown(n) PROVE InstallInv'
  <2>1. /\ es'.installed = es.installed /\ UNCHANGED <<installs, failures, lapses>>
        /\ \A m \in Nodes \ {n} : at'[m] = at[m] /\ own'[m] = own[m]
    BY <1>26, <1>t DEF RecordKnown, Moving, Goes
  <2>2. /\ at[n] \notin {"handler", "recordInstall"} /\ at'[n] \notin {"handler", "recordInstall"}
        /\ at'[n] \in {"install", "unlockInstall"} => "backend:installations" \in own'[n]
    BY <1>26, <1>t DEF RecordKnown, Moving, Goes
  <2>3. Lost' \subseteq Lost
    BY <1>26, <1>t DEF RecordKnown, Moving, Goes, Lost, Inside
  <2> QED
    BY <1>o, <2>1, <2>2, <2>3, InstallSame
<1>27. ASSUME NEW n \in Nodes, RecordCache(n) PROVE InstallInv'
  <2>1. /\ es'.installed = es.installed /\ UNCHANGED <<installs, failures, lapses>>
        /\ \A m \in Nodes \ {n} : at'[m] = at[m] /\ own'[m] = own[m]
    BY <1>27, <1>t DEF RecordCache, NextType, Type, Goes
  <2>2. /\ at[n] \notin {"handler", "recordInstall"} /\ at'[n] \notin {"handler", "recordInstall"}
        /\ at'[n] \in {"install", "unlockInstall"} => "backend:installations" \in own'[n]
    BY <1>27, <1>t DEF RecordCache, NextType, Type, Goes
  <2>3. Lost' \subseteq Lost
    BY <1>27, <1>t DEF RecordCache, NextType, Type, Goes, Lost, Inside
  <2> QED
    BY <1>o, <2>1, <2>2, <2>3, InstallSame
<1>28. ASSUME NEW n \in Nodes, ImportWait(n) PROVE InstallInv'
  <2>1. /\ es'.installed = es.installed /\ UNCHANGED <<installs, failures, lapses>>
        /\ \A m \in Nodes \ {n} : at'[m] = at[m] /\ own'[m] = own[m]
    BY <1>28, <1>t DEF ImportWait, Goes
  <2>2. /\ at[n] \notin {"handler", "recordInstall"} /\ at'[n] \notin {"handler", "recordInstall"}
        /\ at'[n] \in {"install", "unlockInstall"} => "backend:installations" \in own'[n]
    BY <1>28, <1>t DEF ImportWait, Goes
  <2>3. Lost' \subseteq Lost
    BY <1>28, <1>t DEF ImportWait, Goes, Lost, Inside
  <2> QED
    BY <1>o, <2>1, <2>2, <2>3, InstallSame
<1>29. ASSUME NEW n \in Nodes, ImportUnlock(n) PROVE InstallInv'
  <2>1. /\ es'.installed = es.installed /\ UNCHANGED <<installs, failures, lapses>>
        /\ \A m \in Nodes \ {n} : at'[m] = at[m] /\ own'[m] = own[m]
    BY <1>29, <1>t DEF ImportUnlock, Unlocking, Unlocks, Release, Goes
  <2>2. /\ at[n] \notin {"handler", "recordInstall"} /\ at'[n] \notin {"handler", "recordInstall"}
        /\ at'[n] \in {"install", "unlockInstall"} => "backend:installations" \in own'[n]
    BY <1>29, <1>t DEF ImportUnlock, Unlocking, Unlocks, Release, Goes
  <2>3. Lost' \subseteq Lost
    BY <1>29, <1>t DEF ImportUnlock, Unlocking, Unlocks, Release, Goes, Lost, Inside
  <2> QED
    BY <1>o, <2>1, <2>2, <2>3, InstallSame
<1>30. ASSUME NEW n \in Nodes, InstallLock(n) PROVE InstallInv'
  <2>1. /\ es'.installed = es.installed /\ UNCHANGED <<installs, failures, lapses>>
        /\ \A m \in Nodes \ {n} : at'[m] = at[m] /\ own'[m] = own[m]
    BY <1>30, <1>t DEF InstallLock, Locking, Locks, CanTake, Take, Goes
  <2>2. /\ at[n] \notin {"handler", "recordInstall"} /\ at'[n] \notin {"handler", "recordInstall"}
        /\ at'[n] \in {"install", "unlockInstall"} => "backend:installations" \in own'[n]
    BY <1>30, <1>t DEF InstallLock, Locking, Locks, CanTake, Take, Goes
  <2>3. Lost' \subseteq Lost
    BY <1>30, <1>t DEF InstallLock, Locking, Locks, CanTake, Take, Goes, Lost, Inside
  <2> QED
    BY <1>o, <2>1, <2>2, <2>3, InstallSame
<1>31. ASSUME NEW n \in Nodes, InstallCheck(n) PROVE InstallInv'
  <2>1. CASE es.installed
    <3>1. at' = [at EXCEPT ![n] = "unlockInstall"] /\ at[n] = "install"
          /\ UNCHANGED <<own, cells, es, installs, failures, lapses>>
      BY <1>31, <2>1 DEF InstallCheck, Moving, Goes
    <3>2. "backend:installations" \in own[n]
      BY <3>1 DEF InstallInv
    <3>3. Lost' = Lost
      BY <3>1 DEF Lost, Inside
    <3> QED
      BY <1>o, <1>t, <3>1, <3>2, <3>3, InstallSame
  <2>2. CASE ~es.installed
    <3>1. at' = [at EXCEPT ![n] = "handler"] /\ at[n] = "install"
          /\ UNCHANGED <<own, cells, es, installs, failures, lapses>>
      BY <1>31, <2>2 DEF InstallCheck, Moving, Goes
    <3>2. Lost' = Lost /\ HasRun' = HasRun
      BY <1>t, <3>1 DEF Lost, Inside, HasRun
    <3> QED
      BY <1>t, <2>2, <3>1, <3>2 DEF InstallInv
  <2> QED
    BY <2>1, <2>2
<1>32. ASSUME NEW n \in Nodes, InstallHandler(n) PROVE InstallInv'
  <2>1. /\ at' = [at EXCEPT ![n] = "recordInstall"] /\ at[n] = "handler" /\ installs' = installs + 1
        /\ UNCHANGED <<own, cells, es, failures, lapses>>
    BY <1>32 DEF InstallHandler, Goes
  <2>2. Lost' = Lost
    BY <2>1 DEF Lost, Inside
  <2>3. Running' = Running \ {n} /\ n \in Running
    BY <1>t, <2>1 DEF Running
  <2>4. HasRun' = HasRun \cup {n} /\ n \notin HasRun
    BY <1>t, <2>1 DEF HasRun
  <2>5. Cardinality(Running') = Cardinality(Running) - 1
    BY <1>f, <2>3, FS_RemoveElement
  <2>6. Cardinality(HasRun') = Cardinality(HasRun) + 1
    BY <1>f, <2>4, FS_AddElement
  <2>7. \A m \in Nodes : at'[m] \in {"install", "handler", "recordInstall", "unlockInstall"} =>
          "backend:installations" \in own'[m]
    BY <1>t, <2>1 DEF InstallInv
  <2>8. ~es'.installed => installs' <= Cardinality(HasRun') + failures'
    <3> HIDE TypesFacts, StartupAssumption
    <3> QED
      BY <1>n, <1>i, <1>f, <2>1, <2>6
  <2>9. es'.installed => installs' + Cardinality(Running') <= 1 + failures' + lapses'
    <3> HIDE TypesFacts, StartupAssumption
    <3> QED
      BY <1>n, <1>i, <1>f, <2>1, <2>5
  <2> QED
    BY <2>1, <2>2, <2>7, <2>8, <2>9 DEF InstallInv
<1>33. ASSUME NEW n \in Nodes, InstallError(n) PROVE InstallInv'
  <2>1. /\ at' = [at EXCEPT ![n] = "abort"] /\ at[n] = "handler"
        /\ UNCHANGED <<own, cells, es, installs, failures, lapses>>
    BY <1>33 DEF InstallError, Moving, Goes
  <2>2. Lost' = Lost /\ HasRun' = HasRun /\ Running' \subseteq Running
    BY <1>t, <2>1 DEF Lost, Inside, HasRun, Running
  <2>3. Cardinality(Running') <= Cardinality(Running) /\ Cardinality(Running') \in Nat
    BY <1>f, <2>2, FS_Subset, FS_CardinalityType
  <2>4. \A m \in Nodes : at'[m] \in {"install", "handler", "recordInstall", "unlockInstall"} =>
          "backend:installations" \in own'[m]
    BY <1>t, <2>1 DEF InstallInv
  <2> HIDE TypesFacts, StartupAssumption
  <2> QED
    BY <1>n, <1>i, <1>f, <2>1, <2>2, <2>3, <2>4 DEF InstallInv
<1>34. ASSUME NEW n \in Nodes, InstallRecord(n) PROVE InstallInv'
  <2>1. /\ at[n] = "recordInstall" /\ UNCHANGED <<own, cells, installs, failures, lapses>>
        /\ \E s \in {"abort", "failed", "unlockInstall"} : at' = [at EXCEPT ![n] = s]
        /\ es'.installed
    BY <1>34, <1>t DEF InstallRecord, Creating, Goes
  <2>2. Lost' = Lost /\ Running' = Running
    BY <1>t, <2>1 DEF Lost, Inside, Running
  <2>3. \A m \in Nodes : at'[m] \in {"install", "handler", "recordInstall", "unlockInstall"} =>
          "backend:installations" \in own'[m]
    BY <1>t, <2>1 DEF InstallInv
  <2> HIDE TypesFacts, StartupAssumption
  <2> QED
    BY <1>n, <1>i, <1>f, <2>1, <2>2, <2>3 DEF InstallInv
<1>35. ASSUME NEW n \in Nodes, InstallUnlock(n) PROVE InstallInv'
  <2>1. /\ es'.installed = es.installed /\ UNCHANGED <<installs, failures, lapses>>
        /\ \A m \in Nodes \ {n} : at'[m] = at[m] /\ own'[m] = own[m]
    BY <1>35, <1>t DEF InstallUnlock, Unlocking, Unlocks, Release, Goes
  <2>2. /\ at[n] \notin {"handler", "recordInstall"} /\ at'[n] \notin {"handler", "recordInstall"}
        /\ at'[n] \in {"install", "unlockInstall"} => "backend:installations" \in own'[n]
    BY <1>35, <1>t DEF InstallUnlock, Unlocking, Unlocks, Release, Goes
  <2>3. Lost' \subseteq Lost
    BY <1>35, <1>t DEF InstallUnlock, Unlocking, Unlocks, Release, Goes, Lost, Inside
  <2> QED
    BY <1>o, <2>1, <2>2, <2>3, InstallSame
<1>36. ASSUME NEW r \in Resources, Lapse(r) PROVE InstallInv'
  <2>1. UNCHANGED <<at, own, es, installs, failures>> /\ cells' = [cells EXCEPT ![r] = None]
    BY <1>36 DEF Lapse, Drop
  <2>2. Running' = Running /\ HasRun' = HasRun
    BY <2>1 DEF Running, HasRun
  <2>3. \A m \in Nodes : at'[m] \in {"install", "handler", "recordInstall", "unlockInstall"} =>
          "backend:installations" \in own'[m]
    BY <2>1 DEF InstallInv
  <2>4. CASE cells[r] = Dead
    <3>1. Lost' \subseteq Lost /\ lapses' = lapses
      BY <1>36, <1>t, <2>1, <2>4 DEF Lapse, Lost, Inside
    <3>2. IsFiniteSet(Lost') /\ Cardinality(Lost') <= Cardinality(Lost)
          /\ Cardinality(Lost') \in Nat
      BY <1>f, <3>1, FS_Subset, FS_CardinalityType
    <3> HIDE TypesFacts, StartupAssumption
    <3> QED
      BY <1>n, <1>i, <1>f, <2>1, <2>2, <2>3, <3>1, <3>2 DEF InstallInv
  <2>5. CASE cells[r] # Dead
    <3>1. Lost' \subseteq Lost \cup {cells[r]} /\ lapses' = lapses + 1
      BY <1>36, <1>t, <2>1, <2>5 DEF Lapse, Lost, Inside
    <3>2. IsFiniteSet(Lost \cup {cells[r]})
          /\ Cardinality(Lost \cup {cells[r]}) <= Cardinality(Lost) + 1
          /\ Cardinality(Lost \cup {cells[r]}) \in Nat
      <4>1. /\ IsFiniteSet(Lost \cup {cells[r]})
            /\ \/ Cardinality(Lost \cup {cells[r]}) = Cardinality(Lost)
               \/ Cardinality(Lost \cup {cells[r]}) = Cardinality(Lost) + 1
        BY <1>f, FS_AddElement
      <4> QED
        BY <1>f, <4>1
    <3>3. IsFiniteSet(Lost') /\ Cardinality(Lost') <= Cardinality(Lost) + 1
          /\ Cardinality(Lost') \in Nat
      BY <1>f, <3>1, <3>2, FS_Subset, FS_CardinalityType
    <3> HIDE TypesFacts, StartupAssumption
    <3> QED
      BY <1>n, <1>i, <1>f, <2>1, <2>2, <2>3, <3>1, <3>3 DEF InstallInv
  <2> QED
    BY <2>4, <2>5
<1>38. ASSUME NEW n \in Nodes, StorageError(n) PROVE InstallInv'
  <2>1. /\ \E s \in {"abort", "failed"} : at' = [at EXCEPT ![n] = s]
        /\ failures' = failures + 1 /\ UNCHANGED <<own, cells, es, installs, lapses>>
    BY <1>38 DEF StorageError
  <2>2. Lost' = Lost
    BY <2>1 DEF Lost, Inside
  <2>4. Running' = Running \ {n} /\ HasRun' = HasRun \ {n}
    BY <1>t, <2>1 DEF Running, HasRun
  <2>5. Cardinality(Running') <= Cardinality(Running) /\ Cardinality(Running') \in Nat
    BY <1>f, <2>4, FS_Subset, FS_CardinalityType
  <2>6. Cardinality(HasRun) <= Cardinality(HasRun') + 1 /\ Cardinality(HasRun') \in Nat
    <3>1. Cardinality(HasRun \ {n}) = IF n \in HasRun THEN Cardinality(HasRun) - 1
                                    ELSE Cardinality(HasRun)
      BY <1>f, FS_RemoveElement
    <3>2. IsFiniteSet(HasRun \ {n})
      BY <1>f, FS_Subset
    <3> QED
      BY <1>f, <2>4, <3>1, <3>2, FS_CardinalityType
  <2>7. \A m \in Nodes : at'[m] \in {"install", "handler", "recordInstall", "unlockInstall"} =>
          "backend:installations" \in own'[m]
    BY <1>t, <2>1 DEF InstallInv
  <2>8. ~es'.installed => installs' <= Cardinality(HasRun') + failures'
    <3> HIDE TypesFacts, StartupAssumption
    <3> QED
      BY <1>n, <1>i, <1>f, <2>1, <2>6
  <2>9. es'.installed => installs' + Cardinality(Running') <= 1 + failures' + lapses'
    <3> HIDE TypesFacts, StartupAssumption
    <3> QED
      BY <1>n, <1>i, <1>f, <2>1, <2>5
  <2> QED
    BY <1>f, <1>i, <2>1, <2>2, <2>7, <2>8, <2>9 DEF InstallInv
<1>39. ASSUME NEW n \in Nodes, ImportBusyError(n) PROVE InstallInv'
  <2>1. /\ es'.installed = es.installed /\ UNCHANGED <<installs, failures, lapses>>
        /\ \A m \in Nodes \ {n} : at'[m] = at[m] /\ own'[m] = own[m]
    BY <1>39, <1>t DEF ImportBusyError, Moving, Goes
  <2>2. /\ at[n] \notin {"handler", "recordInstall"} /\ at'[n] \notin {"handler", "recordInstall"}
        /\ at'[n] \in {"install", "unlockInstall"} => "backend:installations" \in own'[n]
    BY <1>39, <1>t DEF ImportBusyError, Moving, Goes
  <2>3. Lost' \subseteq Lost
    BY <1>39 DEF ImportBusyError, Moving, Lost, Inside
  <2> QED
    BY <1>o, <2>1, <2>2, <2>3, InstallSame
<1>37. CASE UNCHANGED startupVars
  BY <1>37 DEF startupVars, InstallInv, Lost, Inside, Running, HasRun
<1> QED
  BY <1>1, <1>2, <1>3, <1>4, <1>5, <1>6, <1>7, <1>8, <1>9, <1>10, <1>11, <1>12, <1>13, <1>14, <1>15, <1>16, <1>17, <1>18, <1>19, <1>20, <1>21, <1>22, <1>23, <1>24, <1>25, <1>26, <1>27, <1>28, <1>29, <1>30, <1>31, <1>32, <1>33, <1>34, <1>35, <1>36, <1>37, <1>38, <1>39 DEF Next, Advance

-----------------------------------------------------------------------------
\* The inductive invariant of the start.
StartupInv == OwnInv /\ Held /\ SecretInv /\ RecordInv /\ StoreInv /\ InstallInv

LEMMA StartupInit == Init => StartupInv
<1> SUFFICES ASSUME Init PROVE StartupInv
  OBVIOUS
<1> USE TypesFacts, StartupAssumption DEF Init, NoLock
<1>1. TypeOK
  BY DEF TypeOK, Step, Storage, Cells, Nothing
<1>2. OwnInv
  BY <1>1 DEF OwnInv, LateOut, HolderInside, OwnAt, Bootstrapping
<1>3. Held
  BY DEF Held
<1>4. SecretInv
  BY DEF SecretInv, SecretsAgree, DoneComplete, Past, Importing
<1>5. RecordInv
  BY DEF RecordInv, RecordsTrue, Importing
<1>6. StoreInv
  BY DEF StoreInv, Past, Importing, Bootstrapping, Resources
<1>7. Lost = {} /\ HasRun = {} /\ Running = {}
  BY DEF Lost, Inside, HasRun, Running
<1>8. InstallInv
  BY <1>7, FS_EmptySet DEF InstallInv
<1> QED
  BY <1>2, <1>3, <1>4, <1>5, <1>6, <1>8 DEF StartupInv

LEMMA StartupStep == StartupInv /\ [Next]_startupVars => StartupInv'
  BY OwnStep, HeldStep, SecretStep, RecordStep, StoreStep, InstallStep DEF StartupInv, OwnInv

LEMMA StartupInvariant == Spec => []StartupInv
  BY StartupInit, StartupStep, PTL DEF Spec

\* The variables of the start keep their types (lib/kuzzle/kuzzle.ts start).
THEOREM StartupTypes == Spec => []TypeOK
<1>1. StartupInv => TypeOK
  BY DEF StartupInv, OwnInv
<1> QED
  BY <1>1, StartupInvariant, PTL

\* For any number of nodes, starts, failures and types of imports, the nodes use
\* their mutexes the way the abstract locks allow (lib/util/mutex.ts).
THEOREM StartupLocks == Spec => LocksImplement
<1>1. Init => L!Init
  BY DEF Init, NoLock, L!Init
<1>2. StartupInv /\ [Next]_startupVars => [L!Next]_L!lockVars
  BY LockStep DEF StartupInv, L!lockVars
<1> QED
  BY <1>1, <1>2, StartupInvariant, PTL DEF Spec, LocksImplement, L!Spec

\* No two nodes are inside the same mutex as long as no TTL has ended too early.
THEOREM StartupOneInside == Spec => []OneInside
<1>1. StartupInv => OneInside
  BY DEF StartupInv, Held, OneInside
<1> QED
  BY <1>1, StartupInvariant, PTL

\* The nodes of a cluster sign their tokens with the same secret, the stored one
\* (lib/kuzzle/internalIndexHandler.js _initSecret).
THEOREM StartupSecrets == Spec => []SecretsAgree
<1>1. StartupInv => SecretsAgree
  BY DEF StartupInv, SecretInv
<1> QED
  BY <1>1, StartupInvariant, PTL

\* What is marked as done is done: the bootstrap (InternalIndexHandler.init) and the
\* imports (Kuzzle.persistHashedImport).
THEOREM StartupMarks == Spec => []MarksTrue
<1>1. StartupInv => MarksTrue
  BY DEF StartupInv, SecretInv, RecordInv, MarksTrue
<1> QED
  BY <1>1, StartupInvariant, PTL

\* As long as no node crashes, the storage answers and no TTL ends too early, a node
\* that waited for another one to create the collections finds them
\* (lib/core/shared/store.ts init; a creation that fails frees the lock too).
THEOREM StartupStore == Spec => []StoreCreated
<1>1. StartupInv => StoreCreated
  BY DEF StartupInv, StoreInv, StoreCreated
<1> QED
  BY <1>1, StartupInvariant, PTL

\* The installation handler runs at most once, and once more for each crash, for each
\* command the storage fails to execute and for each TTL that ends too early
\* (Kuzzle.install).
THEOREM StartupInstall == Spec => []InstallOnce
<1>1. StartupInv => InstallOnce
  <2> SUFFICES ASSUME StartupInv PROVE InstallOnce
    OBVIOUS
  <2>1. TypeOK /\ InstallInv
    BY DEF StartupInv, OwnInv
  <2>2. installs \in Nat /\ failures \in Nat /\ lapses \in Nat
    BY <2>1 DEF TypeOK
  <2> QED
    BY <2>1, <2>2, InsideFew DEF InstallInv, InstallOnce
<1> QED
  BY <1>1, StartupInvariant, PTL
=============================================================================
