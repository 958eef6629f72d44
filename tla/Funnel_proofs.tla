--------------------------- MODULE Funnel_proofs ---------------------------
(***************************************************************************)
(* Proofs about the funnel, for any set of requests (an infinite one       *)
(* included), any limit and any size of its buffer.                        *)
(***************************************************************************)
EXTENDS Funnel, TLAPS, FiniteSetTheorems

Processing == {r \in Requests : stage[r] = "processing"}

ClientPlaces(q) == {i \in 1..Len(q) : q[i] \notin DebugRequests}

\* The parts of BufferExact.
WaitsInBuffer ==
  \A r \in Requests : stage[r] = "queued" <=> \E i \in 1..Len(queue) : queue[i] = r

WaitsOnce == \A i, j \in 1..Len(queue) : queue[i] = queue[j] => i = j

FewWait == Cardinality(ClientPlaces(queue)) <= BufferSize

\* The inductive invariant.
FunnelInv ==
  /\ TypeOK
  /\ SlotsMatch
  /\ IsFiniteSet(Processing)
  /\ OneReplayer
  /\ WaitsInBuffer
  /\ WaitsOnce
  /\ FewWait
  /\ NoneLeftBuffered
-----------------------------------------------------------------------------
LEMMA Prepended ==
  ASSUME NEW S, NEW q \in Seq(S), NEW e \in S
  PROVE  /\ <<e>> \o q \in Seq(S)
         /\ Len(<<e>> \o q) = Len(q) + 1
         /\ \A i \in 1..(Len(q) + 1) : (<<e>> \o q)[i] = IF i = 1 THEN e ELSE q[i - 1]
  OBVIOUS

LEMMA Appended ==
  ASSUME NEW S, NEW q \in Seq(S), NEW e \in S
  PROVE  /\ Append(q, e) \in Seq(S)
         /\ Len(Append(q, e)) = Len(q) + 1
         /\ \A i \in 1..(Len(q) + 1) :
              Append(q, e)[i] = IF i = Len(q) + 1 THEN e ELSE q[i]
  OBVIOUS

LEMMA Dropped ==
  ASSUME NEW S, NEW q \in Seq(S), NEW n \in 0..Len(q)
  PROVE  LET t == SubSeq(q, n + 1, Len(q)) IN
         /\ t \in Seq(S)
         /\ Len(t) = Len(q) - n
         /\ \A i \in 1..(Len(q) - n) : t[i] = q[i + n]
  OBVIOUS

\* No more clients' requests wait than there are places.
LEMMA ClientsFit ==
  ASSUME NEW q \in Seq(Requests)
  PROVE  /\ IsFiniteSet(ClientPlaces(q))
         /\ Cardinality(ClientPlaces(q)) \in Nat
         /\ Cardinality(ClientPlaces(q)) <= Len(q)
<1>1. /\ IsFiniteSet(1..Len(q))
      /\ Cardinality(1..Len(q)) = Len(q)
  <2>1. Len(q) \in Nat /\ 1 \in Int /\ (1 > Len(q) => Len(q) = 0)
    OBVIOUS
  <2>2. /\ IsFiniteSet(1..Len(q))
        /\ Cardinality(1..Len(q)) = IF 1 > Len(q) THEN 0 ELSE Len(q) - 1 + 1
    BY <2>1, FS_Interval
  <2>3. QED
    BY <2>1, <2>2
<1>2. ClientPlaces(q) \in SUBSET (1..Len(q))
  BY DEF ClientPlaces
<1>3. QED
  BY <1>1, <1>2, FS_Subset, FS_CardinalityType

\* A buffer that is another one without its first requests, or with a debug request
\* before them, holds no more clients' requests.
LEMMA Shifted ==
  ASSUME NEW q \in Seq(Requests), NEW t \in Seq(Requests), NEW n \in Int,
         \A i \in 1..Len(t) : t[i] \notin DebugRequests =>
           i + n \in 1..Len(q) /\ q[i + n] = t[i]
  PROVE  Cardinality(ClientPlaces(t)) <= Cardinality(ClientPlaces(q))
<1> DEFINE f == [i \in ClientPlaces(t) |-> i + n]
<1>1. f \in [ClientPlaces(t) -> ClientPlaces(q)]
  BY DEF ClientPlaces
<1>2. \A i, j \in ClientPlaces(t) : f[i] = f[j] => i = j
  BY DEF ClientPlaces
<1>3. f \in Injection(ClientPlaces(t), ClientPlaces(q))
  BY <1>1, <1>2 DEF Injection, IsInjective
<1>4. QED
  BY <1>3, ClientsFit, FS_Injection
-----------------------------------------------------------------------------
LEMMA InitInv == Init => FunnelInv
<1> SUFFICES ASSUME Init PROVE FunnelInv
  OBVIOUS
<1> USE DEF Init
<1>1. TypeOK
  <2>1. stage \in [Requests -> Stage] /\ state \in State /\ leaving \in Leaving
    BY DEF Stage, State, Leaving
  <2>2. queue \in Seq(Requests)
    OBVIOUS
  <2>3. QED
    BY <2>1, <2>2 DEF TypeOK
<1>2. Processing = {}
  BY DEF Processing
<1>3. SlotsMatch /\ IsFiniteSet(Processing)
  BY <1>2, FS_EmptySet DEF SlotsMatch, Processing
<1>4. OneReplayer
  BY DEF OneReplayer
<1>5. WaitsInBuffer /\ WaitsOnce
  BY DEF WaitsInBuffer, WaitsOnce
<1>6. FewWait
  <2>1. ClientPlaces(queue) = {}
    BY DEF ClientPlaces
  <2>2. QED
    <3>1. Cardinality(ClientPlaces(queue)) = 0
      BY <2>1, FS_EmptySet
    <3>2. 0 <= BufferSize
      BY FunnelAssumption
    <3>3. QED
      BY <3>1, <3>2 DEF FewWait
<1>7. NoneLeftBuffered
  BY DEF NoneLeftBuffered
<1>8. QED
  BY <1>1, <1>3, <1>4, <1>5, <1>6, <1>7 DEF FunnelInv

\* One request takes a slot, frees its slot, or does neither.
LEMMA SlotTaken ==
  ASSUME FunnelInv, NEW r \in Requests, stage[r] # "processing",
         Moved(r, "processing"), concurrent' = concurrent + 1
  PROVE  SlotsMatch' /\ IsFiniteSet(Processing')
<1>1. stage \in [Requests -> Stage] /\ r \notin Processing
  BY DEF FunnelInv, TypeOK, Processing
<1>2. Processing' = Processing \cup {r}
  BY <1>1 DEF Processing, Moved
<1>3. QED
  BY <1>1, <1>2, FS_AddElement DEF FunnelInv, SlotsMatch, Processing

LEMMA SlotFreed ==
  ASSUME FunnelInv, NEW r \in Requests, NEW to, stage[r] = "processing",
         to # "processing", Moved(r, to), concurrent' = concurrent - 1
  PROVE  SlotsMatch' /\ IsFiniteSet(Processing') /\ concurrent' \in Nat
<1>1. stage \in [Requests -> Stage] /\ r \in Processing
  BY DEF FunnelInv, TypeOK, Processing
<1>2. Processing' = Processing \ {r}
  BY <1>1 DEF Processing, Moved
<1>3. IsFiniteSet(Processing') /\ concurrent' = Cardinality(Processing')
  BY <1>1, <1>2, FS_RemoveElement DEF FunnelInv, SlotsMatch, Processing
<1>4. concurrent' \in Nat
  BY <1>3, FS_CardinalityType
<1>5. QED
  BY <1>3, <1>4 DEF SlotsMatch, Processing

LEMMA SlotsKept ==
  ASSUME FunnelInv, concurrent' = concurrent,
         \A r \in Requests : stage'[r] = "processing" <=> stage[r] = "processing"
  PROVE  SlotsMatch' /\ IsFiniteSet(Processing')
<1>1. Processing' = Processing
  BY DEF Processing
<1>2. QED
  BY <1>1 DEF FunnelInv, SlotsMatch, Processing

\* The buffer stays as it is while no request enters or leaves it.
LEMMA BufferKept ==
  ASSUME FunnelInv, UNCHANGED <<queue, overloaded, timers>>,
         \A r \in Requests : stage'[r] = "queued" <=> stage[r] = "queued"
  PROVE  OneReplayer' /\ WaitsInBuffer' /\ WaitsOnce' /\ FewWait'
<1>1. WaitsInBuffer' /\ WaitsOnce' /\ OneReplayer'
  BY DEF FunnelInv, WaitsInBuffer, WaitsOnce, OneReplayer
<1>2. FewWait'
  BY DEF FunnelInv, FewWait, ClientPlaces
<1>3. QED
  BY <1>1, <1>2

\* A request is put in the buffer.
LEMMA EnqueueInv ==
  ASSUME FunnelInv, NEW r \in Requests, stage[r] = "new", HasRoom(r),
         Moved(r, "queued"), Enqueue(r)
  PROVE  /\ queue' \in Seq(Requests) /\ timers' \in Nat /\ overloaded' = TRUE
         /\ OneReplayer' /\ WaitsInBuffer' /\ WaitsOnce' /\ FewWait'
<1>1. /\ stage \in [Requests -> Stage] /\ queue \in Seq(Requests) /\ timers \in Nat
      /\ BufferSize \in Nat
  BY FunnelAssumption DEF FunnelInv, TypeOK
<1>2. \A q \in Requests : stage'[q] = "queued" <=> stage[q] = "queued" \/ q = r
  BY <1>1 DEF Moved
<1>3. \A i \in 1..Len(queue) : queue[i] # r
  <2>1. ~ \E i \in 1..Len(queue) : queue[i] = r
    BY DEF FunnelInv, WaitsInBuffer
  <2>2. QED
    BY <2>1
<1>4. /\ timers' = 1 /\ overloaded' = TRUE
  BY <1>1 DEF Enqueue, FunnelInv, OneReplayer
<1>5. CASE r \in DebugRequests
  <2>1. queue' = <<r>> \o queue
    BY <1>5 DEF Enqueue
  <2>2. /\ queue' \in Seq(Requests) /\ Len(queue') = Len(queue) + 1
        /\ \A i \in 1..Len(queue') : queue'[i] = IF i = 1 THEN r ELSE queue[i - 1]
    BY <1>1, <2>1, Prepended
  <2>3. queue' # <<>>
    BY <1>1, <2>2
  <2>4. WaitsInBuffer'
    <3> SUFFICES ASSUME NEW q \in Requests
                 PROVE  stage'[q] = "queued" <=> \E i \in 1..Len(queue') : queue'[i] = q
      BY DEF WaitsInBuffer
    <3>1. CASE q = r
      BY <1>1, <1>2, <2>2, <3>1
    <3>2. CASE q # r
      <4>1. stage'[q] = "queued" <=> \E i \in 1..Len(queue) : queue[i] = q
        BY <1>2, <3>2 DEF FunnelInv, WaitsInBuffer
      <4>2. ASSUME NEW i \in 1..Len(queue), queue[i] = q
            PROVE  i + 1 \in 1..Len(queue') /\ queue'[i + 1] = q
        BY <1>1, <2>2, <4>2
      <4>3. ASSUME NEW i \in 1..Len(queue'), queue'[i] = q
            PROVE  i - 1 \in 1..Len(queue) /\ queue[i - 1] = q
        BY <1>1, <2>2, <3>2, <4>3
      <4>4. QED
        BY <4>1, <4>2, <4>3
    <3>3. QED
      BY <3>1, <3>2
  <2>5. WaitsOnce'
    <3> SUFFICES ASSUME NEW i \in 1..Len(queue'), NEW j \in 1..Len(queue'),
                        queue'[i] = queue'[j]
                 PROVE  i = j
      BY DEF WaitsOnce
    <3>1. CASE i = 1 \/ j = 1
      BY <1>1, <1>3, <2>2, <3>1
    <3>2. CASE i # 1 /\ j # 1
      <4>1. /\ i - 1 \in 1..Len(queue) /\ j - 1 \in 1..Len(queue)
            /\ queue[i - 1] = queue[j - 1]
        BY <1>1, <2>2, <3>2
      <4>2. i - 1 = j - 1
        BY <4>1 DEF FunnelInv, WaitsOnce
      <4>3. QED
        BY <4>2
    <3>3. QED
      BY <3>1, <3>2
  <2>6. FewWait'
    <3>1. \A i \in 1..Len(queue') : queue'[i] \notin DebugRequests =>
            i + (-1) \in 1..Len(queue) /\ queue[i + (-1)] = queue'[i]
      BY <1>1, <1>5, <2>2
    <3>2. Cardinality(ClientPlaces(queue')) <= Cardinality(ClientPlaces(queue))
      <4>1. -1 \in Int
        OBVIOUS
      <4>2. QED
        BY <1>1, <2>2, <3>1, <4>1, Shifted
    <3>3. /\ Cardinality(ClientPlaces(queue)) \in Nat
          /\ Cardinality(ClientPlaces(queue')) \in Nat
      BY <1>1, <2>2, ClientsFit
    <3>4. Cardinality(ClientPlaces(queue)) <= BufferSize
      BY DEF FunnelInv, FewWait
    <3>5. Cardinality(ClientPlaces(queue')) <= BufferSize
      BY <1>1, <3>2, <3>3, <3>4
    <3>6. QED
      BY <3>5 DEF FewWait, ClientPlaces
  <2>7. QED
    BY <1>4, <2>2, <2>3, <2>4, <2>5, <2>6 DEF OneReplayer
<1>6. CASE r \notin DebugRequests
  <2>1. queue' = Append(queue, r) /\ Len(queue) < BufferSize
    BY <1>6 DEF Enqueue, HasRoom
  <2>2. /\ queue' \in Seq(Requests) /\ Len(queue') = Len(queue) + 1
        /\ \A i \in 1..Len(queue') :
             queue'[i] = IF i = Len(queue') THEN r ELSE queue[i]
    BY <1>1, <2>1, Appended
  <2>3. queue' # <<>>
    BY <1>1, <2>2
  <2>4. WaitsInBuffer'
    <3> SUFFICES ASSUME NEW q \in Requests
                 PROVE  stage'[q] = "queued" <=> \E i \in 1..Len(queue') : queue'[i] = q
      BY DEF WaitsInBuffer
    <3>1. CASE q = r
      BY <1>1, <1>2, <2>2, <3>1
    <3>2. CASE q # r
      <4>1. stage'[q] = "queued" <=> \E i \in 1..Len(queue) : queue[i] = q
        BY <1>2, <3>2 DEF FunnelInv, WaitsInBuffer
      <4>2. ASSUME NEW i \in 1..Len(queue), queue[i] = q
            PROVE  i \in 1..Len(queue') /\ queue'[i] = q
        BY <1>1, <2>2, <4>2
      <4>3. ASSUME NEW i \in 1..Len(queue'), queue'[i] = q
            PROVE  i \in 1..Len(queue) /\ queue[i] = q
        BY <1>1, <2>2, <3>2, <4>3
      <4>4. QED
        BY <4>1, <4>2, <4>3
    <3>3. QED
      BY <3>1, <3>2
  <2>5. WaitsOnce'
    BY <1>1, <1>3, <2>2 DEF FunnelInv, WaitsOnce
  <2>6. FewWait'
    <3>1. Cardinality(ClientPlaces(queue')) \in Nat
          /\ Cardinality(ClientPlaces(queue')) <= Len(queue')
      BY <2>2, ClientsFit
    <3>2. Cardinality(ClientPlaces(queue')) <= BufferSize
      BY <1>1, <2>1, <2>2, <3>1
    <3>3. QED
      BY <3>2 DEF FewWait, ClientPlaces
  <2>7. QED
    BY <1>4, <2>2, <2>3, <2>4, <2>5, <2>6 DEF OneReplayer
<1>7. QED
  BY <1>5, <1>6

\* The replayer never takes more requests than there are.
LEMMA InjectedBounds ==
  ASSUME FunnelInv
  PROVE  Injected \in 0..Len(queue)
  BY FunnelAssumption DEF FunnelInv, TypeOK, Injected

\* The replayer starts the first requests of the buffer.
LEMMA PlayPendingInv ==
  ASSUME FunnelInv, PlayPending
  PROVE  FunnelInv'
<1> DEFINE n == Injected
           taken == {queue[i] : i \in 1..n}
<1>1. /\ stage \in [Requests -> Stage] /\ queue \in Seq(Requests) /\ timers \in Nat
      /\ n \in 0..Len(queue)
  BY InjectedBounds DEF FunnelInv, TypeOK
<1>2. /\ stage' = [r \in Requests |-> IF r \notin taken THEN stage[r]
                                      ELSE IF r \in dropped THEN "done" ELSE "checking"]
      /\ queue' = SubSeq(queue, n + 1, Len(queue))
      /\ timers' = IF queue' = <<>> THEN timers - 1 ELSE timers
      /\ overloaded' = (queue' # <<>>)
      /\ timers > 0 /\ state # "HALTED"
      /\ UNCHANGED <<concurrent, state, leaving, dropped, outages>>
  BY DEF PlayPending, Started
<1> HIDE DEF n
<1>3. /\ queue' \in Seq(Requests) /\ Len(queue') = Len(queue) - n
      /\ \A i \in 1..Len(queue') : queue'[i] = queue[i + n]
  BY <1>1, <1>2, Dropped
<1>4. \A r \in taken : r \in Requests /\ stage[r] = "queued"
  BY <1>1 DEF FunnelInv, WaitsInBuffer
<1>5. stage' \in [Requests -> Stage]
  BY <1>1, <1>2 DEF Stage
<1>6. \A r \in Requests :
        /\ stage'[r] = "processing" <=> stage[r] = "processing"
        /\ stage'[r] = "queued" <=> stage[r] = "queued" /\ r \notin taken
  BY <1>2, <1>4
<1>7. timers = 1
  BY <1>1, <1>2 DEF FunnelInv, OneReplayer
<1>8. OneReplayer' /\ timers' \in Nat /\ overloaded' \in BOOLEAN
  <2>1. CASE queue' = <<>>
    <3>1. overloaded' = FALSE
      BY <1>2, <2>1
    <3>2. timers' = 0
      BY <1>2, <1>7, <2>1
    <3>3. QED
      BY <2>1, <3>1, <3>2 DEF OneReplayer
  <2>2. CASE queue' # <<>>
    BY <1>2, <1>7, <2>2 DEF OneReplayer
  <2>3. QED
    BY <2>1, <2>2
<1>9. TypeOK'
  BY <1>2, <1>3, <1>5, <1>8 DEF FunnelInv, TypeOK
<1>10. SlotsMatch' /\ IsFiniteSet(Processing')
  BY <1>2, <1>6, SlotsKept
<1>11. WaitsOnce'
  <2> SUFFICES ASSUME NEW i \in 1..Len(queue'), NEW j \in 1..Len(queue'),
                      queue'[i] = queue'[j]
               PROVE  i = j
    BY DEF WaitsOnce
  <2>1. i + n \in 1..Len(queue) /\ j + n \in 1..Len(queue) /\ queue[i + n] = queue[j + n]
    BY <1>1, <1>3
  <2>2. i + n = j + n
    BY <2>1 DEF FunnelInv, WaitsOnce
  <2>3. QED
    BY <1>1, <2>2
<1>12. WaitsInBuffer'
  <2> SUFFICES ASSUME NEW r \in Requests
               PROVE  stage'[r] = "queued" <=> \E i \in 1..Len(queue') : queue'[i] = r
    BY DEF WaitsInBuffer
  <2>1. ASSUME stage'[r] = "queued"
        PROVE  \E i \in 1..Len(queue') : queue'[i] = r
    <3>1. PICK k \in 1..Len(queue) : queue[k] = r
      BY <1>6, <2>1 DEF FunnelInv, WaitsInBuffer
    <3>2. k > n
      BY <1>1, <1>6, <2>1, <3>1
    <3>3. k - n \in 1..Len(queue') /\ queue'[k - n] = r
      BY <1>1, <1>3, <3>1, <3>2
    <3>4. QED
      BY <3>3
  <2>2. ASSUME NEW i \in 1..Len(queue'), queue'[i] = r
        PROVE  stage'[r] = "queued"
    <3>1. i + n \in 1..Len(queue) /\ queue[i + n] = r
      BY <1>1, <1>3, <2>2
    <3>2. stage[r] = "queued"
      BY <3>1 DEF FunnelInv, WaitsInBuffer
    <3>3. ASSUME NEW k \in 1..n, queue[k] = r
          PROVE  FALSE
      <4>1. k \in 1..Len(queue) /\ k # i + n
        BY <1>1, <3>1
      <4>2. QED
        BY <3>1, <3>3, <4>1 DEF FunnelInv, WaitsOnce
    <3>4. QED
      BY <1>6, <3>2, <3>3
  <2>3. QED
    BY <2>1, <2>2
<1>13. FewWait'
  <2>1. \A i \in 1..Len(queue') : queue'[i] \notin DebugRequests =>
          i + n \in 1..Len(queue) /\ queue[i + n] = queue'[i]
    BY <1>1, <1>3
  <2>2. Cardinality(ClientPlaces(queue')) <= Cardinality(ClientPlaces(queue))
    <3>1. n \in Int
      BY <1>1
    <3>2. QED
      BY <1>1, <1>3, <2>1, <3>1, Shifted
  <2>3. /\ Cardinality(ClientPlaces(queue)) \in Nat
        /\ Cardinality(ClientPlaces(queue')) \in Nat
    BY <1>1, <1>3, ClientsFit
  <2>4. BufferSize \in Nat /\ Cardinality(ClientPlaces(queue)) <= BufferSize
    BY FunnelAssumption DEF FunnelInv, FewWait
  <2>5. Cardinality(ClientPlaces(queue')) <= BufferSize
    BY <2>2, <2>3, <2>4
  <2>6. QED
    BY <2>5 DEF FewWait, ClientPlaces
<1>14. NoneLeftBuffered'
  BY <1>2, <1>6 DEF FunnelInv, NoneLeftBuffered
<1>15. QED
  BY <1>8, <1>9, <1>10, <1>11, <1>12, <1>13, <1>14 DEF FunnelInv

\* A request is moved between stages outside of the buffer and of the slots.
LEMMA MoveInv ==
  ASSUME FunnelInv, NEW r \in Requests, NEW to \in Stage, Moved(r, to),
         stage[r] \notin {"queued", "processing"}, to \notin {"queued", "processing"},
         UNCHANGED <<concurrent, queue, overloaded, timers, state, leaving, dropped,
                     outages>>
  PROVE  FunnelInv'
<1>1. stage \in [Requests -> Stage]
  BY DEF FunnelInv, TypeOK
<1>2. \A q \in Requests : /\ stage'[q] = "processing" <=> stage[q] = "processing"
                          /\ stage'[q] = "queued" <=> stage[q] = "queued"
  BY <1>1 DEF Moved
<1>3. TypeOK'
  BY <1>1 DEF FunnelInv, TypeOK, Moved
<1>4. SlotsMatch' /\ IsFiniteSet(Processing')
  BY <1>2, SlotsKept
<1>5. OneReplayer' /\ WaitsInBuffer' /\ WaitsOnce' /\ FewWait'
  BY <1>2, BufferKept
<1>6. NoneLeftBuffered'
  BY <1>2 DEF FunnelInv, NoneLeftBuffered
<1>7. QED
  BY <1>3, <1>4, <1>5, <1>6 DEF FunnelInv

\* A request that is not buffered takes or frees a slot.
LEMMA SlotInv ==
  ASSUME FunnelInv, NEW r \in Requests, NEW to \in Stage, Moved(r, to),
         stage[r] # "queued", to # "queued", state # "HALTED",
         \/ stage[r] # "processing" /\ to = "processing" /\ concurrent' = concurrent + 1
         \/ stage[r] = "processing" /\ to # "processing" /\ concurrent' = concurrent - 1,
         UNCHANGED <<queue, overloaded, timers, state, leaving, dropped, outages>>
  PROVE  FunnelInv'
<1>1. stage \in [Requests -> Stage] /\ concurrent \in Nat
  BY DEF FunnelInv, TypeOK
<1>2. \A q \in Requests : stage'[q] = "queued" <=> stage[q] = "queued"
  BY <1>1 DEF Moved
<1>3. SlotsMatch' /\ IsFiniteSet(Processing') /\ concurrent' \in Nat
  BY <1>1, SlotTaken, SlotFreed
<1>4. TypeOK'
  BY <1>1, <1>3 DEF FunnelInv, TypeOK, Moved
<1>5. OneReplayer' /\ WaitsInBuffer' /\ WaitsOnce' /\ FewWait'
  BY <1>2, BufferKept
<1>6. NoneLeftBuffered'
  BY <1>2 DEF FunnelInv, NoneLeftBuffered
<1>7. QED
  BY <1>3, <1>4, <1>5, <1>6 DEF FunnelInv

\* The requests stay where they are.
LEMMA StateInv ==
  ASSUME FunnelInv, UNCHANGED <<stage, concurrent, queue, overloaded, timers>>,
         state' \in State, leaving' \in Leaving, dropped' \subseteq Requests,
         outages' \in Nat,
         leaving' = "flushes" => leaving = "flushes" \/ queue = <<>>
  PROVE  FunnelInv'
<1>1. TypeOK'
  BY DEF FunnelInv, TypeOK
<1>2. SlotsMatch' /\ IsFiniteSet(Processing')
  BY SlotsKept
<1>3. OneReplayer' /\ WaitsInBuffer' /\ WaitsOnce' /\ FewWait'
  BY BufferKept
<1>4. NoneLeftBuffered'
  <2>1. queue = <<>> => \A r \in Requests : stage[r] # "queued"
    BY DEF FunnelInv, WaitsInBuffer
  <2>2. QED
    BY <2>1 DEF FunnelInv, NoneLeftBuffered
<1>5. QED
  BY <1>1, <1>2, <1>3, <1>4 DEF FunnelInv

LEMMA ExecuteInv ==
  ASSUME FunnelInv, NEW r \in Requests, Execute(r)
  PROVE  FunnelInv'
<1>1. /\ stage \in [Requests -> Stage] /\ stage[r] = "new" /\ state # "HALTED"
      /\ UNCHANGED <<concurrent, state, leaving, dropped, outages>>
  BY DEF FunnelInv, TypeOK, Execute
<1>2. CASE Moved(r, "done") /\ UNCHANGED <<queue, overloaded, timers>>
  <2>1. "done" \in Stage
    BY DEF Stage
  <2>2. QED
    BY <1>1, <1>2, <2>1, MoveInv
<1>3. CASE stage' = Started({r}) /\ UNCHANGED <<queue, overloaded, timers>>
  <2>1. PICK to \in {"done", "checking"} : Moved(r, to)
    BY <1>1, <1>3 DEF Started, Moved
  <2>2. to \in Stage
    BY DEF Stage
  <2>3. QED
    BY <1>1, <1>3, <2>1, <2>2, MoveInv
<1>4. CASE Accepted(r) /\ HasRoom(r) /\ Moved(r, "queued") /\ Enqueue(r)
  <2>1. /\ queue' \in Seq(Requests) /\ timers' \in Nat /\ overloaded' = TRUE
        /\ OneReplayer' /\ WaitsInBuffer' /\ WaitsOnce' /\ FewWait'
    BY <1>1, <1>4, EnqueueInv
  <2>2. stage' \in [Requests -> Stage]
        /\ \A q \in Requests : stage'[q] = "processing" <=> stage[q] = "processing"
    BY <1>1, <1>4 DEF Moved, Stage
  <2>3. SlotsMatch' /\ IsFiniteSet(Processing')
    BY <1>1, <2>2, SlotsKept
  <2>4. TypeOK'
    BY <1>1, <2>1, <2>2 DEF FunnelInv, TypeOK
  <2>5. NoneLeftBuffered'
    BY <1>1, <1>4 DEF FunnelInv, NoneLeftBuffered, Moved, Accepted
  <2>6. QED
    BY <1>1, <2>1, <2>3, <2>4, <2>5 DEF FunnelInv
<1>5. QED
  BY <1>2, <1>3, <1>4 DEF Execute

LEMMA NextInv == FunnelInv /\ [Next]_funnelVars => FunnelInv'
<1> SUFFICES ASSUME FunnelInv, [Next]_funnelVars PROVE FunnelInv'
  OBVIOUS
<1>1. /\ TypeOK /\ MaxOutages \in Nat
      /\ {"checking", "processing", "closing", "again", "done"} \subseteq Stage
  BY FunnelAssumption DEF FunnelInv, Stage
<1>2. ASSUME NEW r \in Requests, Execute(r)
      PROVE  FunnelInv'
  BY <1>2, ExecuteInv
<1>3. ASSUME NEW r \in Requests, Authorize(r)
      PROVE  FunnelInv'
  BY <1>1, <1>3, SlotInv DEF Authorize
<1>4. ASSUME NEW r \in Requests, Deny(r)
      PROVE  FunnelInv'
  BY <1>1, <1>4, MoveInv DEF Deny
<1>5. ASSUME NEW r \in Requests, Complete(r)
      PROVE  FunnelInv'
  BY <1>1, <1>5, SlotInv DEF Complete
<1>6. ASSUME NEW r \in Requests, Answer(r)
      PROVE  FunnelInv'
  BY <1>1, <1>6, MoveInv DEF Answer
<1>7. ASSUME NEW r \in Requests, ExecutePlugin(r)
      PROVE  FunnelInv'
  BY <1>1, <1>7, SlotInv, MoveInv DEF ExecutePlugin
<1>8. ASSUME NEW r \in Requests, RetryPlugin(r)
      PROVE  FunnelInv'
  BY <1>1, <1>8, SlotInv DEF RetryPlugin
<1>9. ASSUME NEW r \in Requests, DropConnection(r)
      PROVE  FunnelInv'
  BY <1>1, <1>9, StateInv DEF DropConnection, TypeOK, FunnelInv
<1>10. CASE PlayPending
  BY <1>10, PlayPendingInv
<1>11. CASE LoseNodes
  BY <1>1, <1>11, StateInv DEF LoseNodes, TypeOK, State
<1>12. CASE FindNodes
  BY <1>1, <1>12, StateInv DEF FindNodes, TypeOK, State
<1>13. CASE Shutdown
  BY <1>1, <1>13, StateInv DEF Shutdown, TypeOK, State, Leaving
<1>14. CASE LeaveLoop
  <2>1. queue = <<>>
    BY <1>1, <1>14 DEF LeaveLoop, NoneRemaining, TypeOK
  <2>2. QED
    BY <1>1, <1>14, <2>1, StateInv DEF LeaveLoop, TypeOK, Leaving
<1>15. CASE Halt
  BY <1>1, <1>15, StateInv DEF Halt, TypeOK, State
<1>16. CASE UNCHANGED funnelVars
  BY <1>1, <1>16, StateInv DEF funnelVars, TypeOK, FunnelInv
<1>17. QED
  BY <1>2, <1>3, <1>4, <1>5, <1>6, <1>7, <1>8, <1>9, <1>10, <1>11, <1>12, <1>13,
     <1>14, <1>15, <1>16 DEF Next

THEOREM FunnelCorrect == Spec => []FunnelInv
<1>1. Init => FunnelInv
  BY InitInv
<1>2. FunnelInv /\ [Next]_funnelVars => FunnelInv'
  BY NextInv
<1>3. QED
  BY <1>1, <1>2, PTL DEF Spec

\* Type correctness of the funnel's counters and queues.
THEOREM TypeCorrect == Spec => []TypeOK
  BY FunnelCorrect, PTL DEF FunnelInv

\* concurrentRequests is the number of requests in processRequest: no path, of
\* errors or retries, leaks a slot or frees one twice.
THEOREM NoSlotLeaks == Spec => []SlotsMatch
  BY FunnelCorrect, PTL DEF FunnelInv

\* Exactly one background replayer exists while requests are buffered.
THEOREM ReplayerAlone == Spec => []OneReplayer
  BY FunnelCorrect, PTL DEF FunnelInv

\* The buffer holds the waiting requests, each once, within its size.
THEOREM BufferFaithful == Spec => []BufferExact
<1>1. FunnelInv => BufferExact
  BY DEF FunnelInv, BufferExact, WaitsInBuffer, WaitsOnce, FewWait, ClientPlaces
<1>2. QED
  BY <1>1, FunnelCorrect, PTL

\* Once shutdown waits no more, only requests that came over HTTP may be buffered,
\* however often the cluster of the node became too small and large enough meanwhile.
THEOREM ExitsWithoutBuffer == Spec => []NoneLeftBuffered
  BY FunnelCorrect, PTL DEF FunnelInv
-----------------------------------------------------------------------------
(***************************************************************************)
(* The order of the buffer.                                                *)
(***************************************************************************)
InOrder ==
  \A r, s \in Requests \ DebugRequests :
    /\ Ahead(queue, r, s) /\ Waiting(queue', r) => Ahead(queue', r, s)
    /\ Waiting(queue, r) /\ ~Waiting(queue, s) => ~Ahead(queue', s, r)

LEMMA AheadWaits ==
  ASSUME NEW q, NEW r, NEW s, Ahead(q, r, s)
  PROVE  Waiting(q, r) /\ Waiting(q, s)
  BY DEF Ahead, Waiting

\* A debug request is put before the others, any other one behind them.
LEMMA EnqueueInOrder ==
  ASSUME FunnelInv, NEW x \in Requests, Enqueue(x)
  PROVE  InOrder
<1>1. queue \in Seq(Requests) /\ Len(queue) \in Nat
  BY DEF FunnelInv, TypeOK
<1>2. CASE x \in DebugRequests
  <2>1. /\ Len(queue') = Len(queue) + 1
        /\ \A i \in 1..(Len(queue) + 1) : queue'[i] = IF i = 1 THEN x ELSE queue[i - 1]
    BY <1>1, <1>2, Prepended DEF Enqueue
  <2>2. ASSUME NEW r, NEW s, Ahead(queue, r, s)
        PROVE  Ahead(queue', r, s)
    <3>1. PICK i, j \in 1..Len(queue) : i < j /\ queue[i] = r /\ queue[j] = s
      BY <2>2 DEF Ahead
    <3>2. /\ i + 1 \in 1..Len(queue') /\ j + 1 \in 1..Len(queue') /\ i + 1 < j + 1
          /\ queue'[i + 1] = r /\ queue'[j + 1] = s
      BY <1>1, <2>1, <3>1
    <3>3. QED
      BY <3>2 DEF Ahead
  <2>3. ASSUME NEW r, NEW s, s \notin DebugRequests, Ahead(queue', s, r)
        PROVE  Waiting(queue, s)
    <3>1. PICK i \in 1..Len(queue') : queue'[i] = s
      BY <2>3 DEF Ahead
    <3>2. i - 1 \in 1..Len(queue) /\ queue[i - 1] = s
      BY <1>1, <1>2, <2>1, <2>3, <3>1
    <3>3. QED
      BY <3>2 DEF Waiting
  <2>4. QED
    BY <2>2, <2>3 DEF InOrder
<1>3. CASE x \notin DebugRequests
  <2>1. /\ Len(queue') = Len(queue) + 1
        /\ \A i \in 1..(Len(queue) + 1) :
             queue'[i] = IF i = Len(queue) + 1 THEN x ELSE queue[i]
    BY <1>1, <1>3, Appended DEF Enqueue
  <2>2. ASSUME NEW r, NEW s, Ahead(queue, r, s)
        PROVE  Ahead(queue', r, s)
    BY <1>1, <2>1, <2>2 DEF Ahead
  <2>3. ASSUME NEW r, NEW s, Ahead(queue', s, r)
        PROVE  Waiting(queue, s)
    BY <1>1, <2>1, <2>3 DEF Ahead, Waiting
  <2>4. QED
    BY <2>2, <2>3 DEF InOrder
<1>4. QED
  BY <1>2, <1>3

\* The replayer takes the first ones.
LEMMA PlayPendingInOrder ==
  ASSUME FunnelInv, PlayPending
  PROVE  InOrder
<1> DEFINE n == Injected
<1>1. queue \in Seq(Requests) /\ Len(queue) \in Nat /\ n \in 0..Len(queue)
  BY InjectedBounds DEF FunnelInv, TypeOK
<1>2. queue' = SubSeq(queue, n + 1, Len(queue))
  BY DEF PlayPending
<1> HIDE DEF n
<1>3. /\ Len(queue') = Len(queue) - n
      /\ \A i \in 1..(Len(queue) - n) : queue'[i] = queue[i + n]
  BY <1>1, <1>2, Dropped
<1>4. ASSUME NEW r, NEW s, Ahead(queue, r, s), Waiting(queue', r)
      PROVE  Ahead(queue', r, s)
  <2>1. PICK i, j \in 1..Len(queue) : i < j /\ queue[i] = r /\ queue[j] = s
    BY <1>4 DEF Ahead
  <2>2. PICK k \in 1..Len(queue') : queue'[k] = r
    BY <1>4 DEF Waiting
  <2>3. k + n \in 1..Len(queue) /\ queue[k + n] = queue[i]
    BY <1>1, <1>3, <2>1, <2>2
  <2>4. k + n = i
    BY <2>3 DEF FunnelInv, WaitsOnce
  <2>5. j - n \in 1..Len(queue') /\ k < j - n /\ queue'[j - n] = s
    BY <1>1, <1>3, <2>1, <2>2, <2>4
  <2>6. QED
    BY <2>2, <2>5 DEF Ahead
<1>5. ASSUME NEW r, NEW s, Ahead(queue', s, r)
      PROVE  Waiting(queue, s)
  <2>1. PICK i \in 1..Len(queue') : queue'[i] = s
    BY <1>5 DEF Ahead
  <2>2. i + n \in 1..Len(queue) /\ queue[i + n] = s
    BY <1>1, <1>3, <2>1
  <2>3. QED
    BY <2>2 DEF Waiting
<1>6. QED
  BY <1>4, <1>5 DEF InOrder

LEMMA NextInOrder == FunnelInv /\ [Next]_funnelVars => InOrder
<1> SUFFICES ASSUME FunnelInv, [Next]_funnelVars PROVE InOrder
  OBVIOUS
<1>1. CASE queue' = queue
  BY <1>1, AheadWaits DEF InOrder
<1>2. ASSUME NEW r \in Requests, Execute(r), queue' # queue
      PROVE  InOrder
  BY <1>2, EnqueueInOrder DEF Execute
<1>3. CASE PlayPending
  BY <1>3, PlayPendingInOrder
<1>4. QED
  BY <1>1, <1>2, <1>3 DEF Next, funnelVars, Authorize, Deny, Complete, Answer,
     ExecutePlugin, RetryPlugin, DropConnection, LoseNodes, FindNodes, Shutdown,
     LeaveLoop, Halt

\* No client's request overtakes another one in the buffer, nor is it started before
\* it, whatever debug requests are put before them and however the replayer and new
\* requests alternate: requests of one connection keep their order under load.
THEOREM ServedInOrder == Spec => ClientsInOrder
<1>1. FunnelInv /\ [Next]_funnelVars => [InOrder]_funnelVars
  BY NextInOrder
<1>2. QED
  BY <1>1, FunnelCorrect, PTL DEF Spec, ClientsInOrder, InOrder
=============================================================================
