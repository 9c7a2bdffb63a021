------------------------- MODULE PublisherProofs -------------------------
(***************************************************************************)
(* Theorems about Publisher for every queue size, number of permits and    *)
(* bound on the requests.  The inductive invariant says where a request    *)
(* can be: the queue is the run of the last numbers published, everything  *)
(* taken from it is below it, the request the router holds is the newest   *)
(* taken, and each permit has one owner.                                   *)
(***************************************************************************)
EXTENDS Publisher, FiniteSetTheorems, TLAPS

(* The newest request no longer in the queue. *)
Front == enqueued - Len(queue)

QueueIsSuffix ==
    /\ Len(queue) <= enqueued
    /\ \A i \in 1..Len(queue) : queue[i] = Front + i

TakenBelowQueue ==
    /\ HasRequest => held \in 1..Front
    /\ \A r \in spawned : r <= Front /\ (HasRequest => r < held)
    /\ \A i \in DOMAIN published : published[i] <= Front
                                   /\ (HasRequest => published[i] < held)

SpawnedNotYetPublished ==
    /\ \A i \in DOMAIN published : published[i] \notin spawned
    /\ \A r \in running : \E i \in DOMAIN published : published[i] = r

WaitersAreBlocked ==
    /\ \A i \in DOMAIN waiters :
        /\ waiters[i] = "router" => router = "waiting"
        /\ waiters[i] = "closer" => closer = "waiting"
    /\ \A i, j \in DOMAIN waiters : waiters[i] = waiters[j] => i = j

PublishedBelowSpawned ==
    Concurrency = 1 =>
        /\ \A i, j \in DOMAIN published : i < j => published[i] < published[j]
        /\ \A i \in DOMAIN published : \A r \in spawned : published[i] < r

IInv ==
    /\ TypeOK
    /\ QueueIsSuffix
    /\ TakenBelowQueue
    /\ SpawnedNotYetPublished
    /\ WaitersAreBlocked
    /\ permits = PermitsOwned
    /\ PublishedBelowSpawned
    /\ NewestNeverDropped

-----------------------------------------------------------------------------
(* Lemmas about the operators of the model. *)

(* A queue within its capacity stays within it: Enqueue adds one element   *)
(* at the back, after removing the front of a full queue.                  *)
LEMMA EnqueueQueue ==
    ASSUME NEW q \in Seq(Requests), Len(q) <= MaxSize, NEW v \in Requests
    PROVE  /\ Enqueue(q, v) \in Seq(Requests)
           /\ Len(Enqueue(q, v)) <= MaxSize
           /\ Len(q) < MaxSize =>
                /\ Len(Enqueue(q, v)) = Len(q) + 1
                /\ Evicted(q) = {}
                /\ \A i \in 1..Len(q) : Enqueue(q, v)[i] = q[i]
           /\ Len(q) = MaxSize =>
                /\ Len(Enqueue(q, v)) = Len(q)
                /\ Evicted(q) = {q[1]}
                /\ \A i \in 1..(Len(q) - 1) : Enqueue(q, v)[i] = q[i + 1]
           /\ Enqueue(q, v)[Len(Enqueue(q, v))] = v
  BY MaxSizeAssumption DEF Enqueue, Evicted

(* The sets of goroutines are finite, and the state's permit count follows *)
(* when a goroutine is created, moves into publishFn, or ends.             *)
LEMMA FiniteWorkers ==
    ASSUME NEW A \in SUBSET Requests
    PROVE  IsFiniteSet(A) /\ Cardinality(A) \in Nat
  <1>1. IsFiniteSet(Requests)
    BY MaxRequestsAssumption, FS_Interval DEF Requests
  <1> QED
    BY <1>1, FS_Subset, FS_CardinalityType

LEMMA AddWorker ==
    ASSUME NEW A \in SUBSET Requests, NEW r \in Requests, r \notin A
    PROVE  Cardinality(A \cup {r}) = Cardinality(A) + 1
  BY FiniteWorkers, FS_AddElement

LEMMA RemoveWorker ==
    ASSUME NEW A \in SUBSET Requests, NEW r \in A
    PROVE  Cardinality(A \ {r}) = Cardinality(A) - 1 /\ Cardinality(A) >= 1
  <1>1. Cardinality(A \ {r}) = Cardinality(A) - 1
    BY FiniteWorkers, FS_RemoveElement
  <1>2. Cardinality(A \ {r}) \in Nat
    BY FiniteWorkers
  <1> QED
    BY <1>1, <1>2, FiniteWorkers

-----------------------------------------------------------------------------

LEMMA InitIInv == Init => IInv
  <1> SUFFICES ASSUME Init PROVE IInv
    OBVIOUS
  <1> USE MaxSizeAssumption, ConcurrencyAssumption, MaxRequestsAssumption DEF Init
  <1>1. TypeOK
    <2>1. <<>> \in Seq(Requests) /\ <<>> \in Seq({"router", "closer"})
      OBVIOUS
    <2>2. FlagsOK
      BY DEF FlagsOK
    <2> QED
      BY <2>1, <2>2 DEF TypeOK, Requests
  <1>2. permits = PermitsOwned
    BY FS_EmptySet DEF PermitsOwned
  <1>3. QueueIsSuffix /\ TakenBelowQueue /\ SpawnedNotYetPublished
    BY DEF QueueIsSuffix, TakenBelowQueue, SpawnedNotYetPublished, Front, HasRequest
  <1>4. WaitersAreBlocked /\ PublishedBelowSpawned /\ NewestNeverDropped
    BY DEF WaitersAreBlocked, PublishedBelowSpawned, NewestNeverDropped
  <1> QED
    BY <1>1, <1>2, <1>3, <1>4 DEF IInv

(* Publish moves the queue's window up by one and touches nothing else. *)
LEMMA PublishIInv == IInv /\ Publish => IInv'
  <1> SUFFICES ASSUME IInv, Publish PROVE IInv'
    OBVIOUS
  <1> USE MaxSizeAssumption, ConcurrencyAssumption, MaxRequestsAssumption
  <1>1. /\ queue \in Seq(Requests) /\ Len(queue) \in 0..MaxSize
        /\ enqueued \in 0..MaxRequests /\ enqueued' \in 1..MaxRequests
        /\ enqueued' = enqueued + 1
        /\ queue' = Enqueue(queue, enqueued')
        /\ dropped' = dropped \cup Evicted(queue)
    BY DEF IInv, TypeOK, Publish
  <1>2. /\ Len(queue) <= enqueued
        /\ \A i \in 1..Len(queue) : queue[i] = enqueued - Len(queue) + i
    BY DEF IInv, QueueIsSuffix, Front
  <1>3. \A r \in dropped : r \in 1..MaxRequests /\ r + MaxSize <= enqueued
    BY DEF IInv, TypeOK, NewestNeverDropped, Requests
  <1>4. queue' \in Seq(Requests) /\ Len(queue') <= MaxSize
    <2>1. enqueued' \in Requests
      BY <1>1 DEF Requests
    <2>2. /\ Enqueue(queue, enqueued') \in Seq(Requests)
          /\ Len(Enqueue(queue, enqueued')) <= MaxSize
      BY <1>1, <2>1, EnqueueQueue
    <2> QED
      BY <1>1, <2>2
  <1>5. /\ QueueIsSuffix' /\ NewestNeverDropped'
        /\ dropped' \subseteq Requests
        /\ Front <= Front' /\ Front \in Int /\ Front' \in Int
    <2>1. CASE Len(queue) < MaxSize
      <3>1. /\ Len(queue') = Len(queue) + 1 /\ dropped' = dropped
            /\ \A i \in 1..Len(queue) : queue'[i] = queue[i]
            /\ queue'[Len(queue')] = enqueued'
        BY <1>1, <2>1 DEF Enqueue, Evicted
      <3>2. ASSUME NEW i \in 1..Len(queue')
            PROVE  queue'[i] = enqueued' - Len(queue') + i
        <4>1. CASE i = Len(queue')
          BY <1>1, <3>1, <4>1
        <4>2. CASE i \in 1..Len(queue)
          <5>1. queue'[i] = queue[i] /\ queue[i] = enqueued - Len(queue) + i
            BY <1>2, <3>1, <4>2
          <5> QED
            BY <1>1, <3>1, <5>1
        <4> QED
          BY <1>1, <3>1, <4>1, <4>2
      <3>3. /\ Len(queue') <= enqueued'
            /\ enqueued' - Len(queue') = enqueued - Len(queue)
        <4>1. /\ Len(queue) \in Nat /\ enqueued \in Nat /\ enqueued' = enqueued + 1
              /\ Len(queue) <= enqueued /\ Len(queue') = Len(queue) + 1
          BY <1>1, <1>2, <3>1
        <4> QED
          BY <4>1
      <3>4. \A r \in dropped' : r \in 1..MaxRequests /\ r + MaxSize <= enqueued'
        BY <1>1, <1>3, <3>1
      <3> QED
        BY <1>1, <3>2, <3>3, <3>4
        DEF QueueIsSuffix, NewestNeverDropped, Front, Requests
    <2>2. CASE Len(queue) = MaxSize
      <3>1. /\ Len(queue') = Len(queue) /\ dropped' = dropped \cup {queue[1]}
            /\ \A i \in 1..(Len(queue) - 1) : queue'[i] = queue[i + 1]
            /\ queue'[Len(queue')] = enqueued'
        BY <1>1, <2>2 DEF Enqueue, Evicted
      <3>2. ASSUME NEW i \in 1..Len(queue')
            PROVE  queue'[i] = enqueued' - Len(queue') + i
        <4>1. CASE i = Len(queue')
          BY <1>1, <3>1, <4>1
        <4>2. CASE i \in 1..(Len(queue) - 1)
          <5>1. i + 1 \in 1..Len(queue)
            BY <1>1, <4>2
          <5> QED
            BY <1>1, <1>2, <3>1, <4>2, <5>1
        <4> QED
          BY <1>1, <3>1, <4>1, <4>2
      <3>3. /\ Len(queue') <= enqueued'
            /\ enqueued' - Len(queue') = enqueued - Len(queue) + 1
        <4>1. Len(queue') = Len(queue) /\ Len(queue) <= enqueued
          BY <1>2, <3>1
        <4> QED
          BY <1>1, <4>1
      <3>4. queue[1] \in 1..MaxRequests /\ queue[1] + MaxSize <= enqueued'
        <4>1. 1 \in 1..Len(queue)
          BY <2>2
        <4> QED
          BY <1>1, <1>2, <2>2, <4>1
      <3>5. \A r \in dropped' : r \in 1..MaxRequests /\ r + MaxSize <= enqueued'
        BY <1>1, <1>3, <3>1, <3>4
      <3> QED
        BY <1>1, <3>2, <3>3, <3>5
        DEF QueueIsSuffix, NewestNeverDropped, Front, Requests
    <2> QED
      BY <1>1, <2>1, <2>2
  <1>6. TakenBelowQueue'
    BY <1>5 DEF IInv, TypeOK, Requests, TakenBelowQueue, Publish, HasRequest, workerVars
  <1>7. TypeOK'
    BY <1>1, <1>4, <1>5
    DEF IInv, TypeOK, FlagsOK, Publish, workerVars, closerVars
  <1>8. /\ SpawnedNotYetPublished' /\ WaitersAreBlocked'
        /\ (permits = PermitsOwned)' /\ PublishedBelowSpawned'
    BY DEF IInv, Publish, SpawnedNotYetPublished, WaitersAreBlocked, PermitsOwned,
           PublishedBelowSpawned, workerVars, closerVars
  <1> QED
    BY <1>5, <1>6, <1>7, <1>8 DEF IInv

(* Dequeue takes the request just above Front: the new one the router holds *)
(* is above everything taken before and below the rest of the queue.        *)
LEMMA RouterDequeueIInv == IInv /\ RouterDequeue => IInv'
  <1> SUFFICES ASSUME IInv, RouterDequeue PROVE IInv'
    OBVIOUS
  <1> USE MaxSizeAssumption, ConcurrencyAssumption, MaxRequestsAssumption
  <1>1. /\ queue \in Seq(Requests) /\ Len(queue) \in 1..MaxSize
        /\ enqueued \in 0..MaxRequests
        /\ queue' = Tail(queue) /\ held' = Head(queue) /\ UNCHANGED enqueued
    BY DEF IInv, TypeOK, RouterDequeue, DequeueRest, DequeueValue
  <1>2. /\ Len(queue) <= enqueued
        /\ \A i \in 1..Len(queue) : queue[i] = enqueued - Len(queue) + i
    BY DEF IInv, QueueIsSuffix, Front
  <1>3. /\ queue' \in Seq(Requests) /\ Len(queue') = Len(queue) - 1
        /\ \A i \in 1..Len(queue') : queue'[i] = queue[i + 1]
        /\ held' = queue[1]
    BY <1>1
  <1>4. QueueIsSuffix'
    <2>1. ASSUME NEW i \in 1..Len(queue')
          PROVE  queue'[i] = enqueued' - Len(queue') + i
      <3>1. i + 1 \in 1..Len(queue)
        BY <1>1, <1>3
      <3>2. queue'[i] = enqueued - Len(queue) + (i + 1)
        BY <1>2, <1>3, <3>1
      <3> QED
        BY <1>1, <1>3, <3>2
    <2>2. Len(queue') <= enqueued'
      BY <1>1, <1>2, <1>3
    <2> QED
      BY <2>1, <2>2 DEF QueueIsSuffix, Front
  <1>5. held' = Front + 1 /\ Front' = Front + 1 /\ Front \in Nat
    <2>1. 1 \in 1..Len(queue)
      BY <1>1
    <2>2. held' = enqueued - Len(queue) + 1
      BY <1>2, <1>3, <2>1
    <2> QED
      BY <1>1, <1>2, <1>3, <2>2 DEF Front
  <1>6. TakenBelowQueue'
    BY <1>5 DEF IInv, TypeOK, Requests, TakenBelowQueue, RouterDequeue, HasRequest, workerVars
  <1>7. TypeOK'
    <2>1. held' \in 0..MaxRequests
      BY <1>1, <1>2, <1>5 DEF Front
    <2>2. Len(queue') <= MaxSize
      BY <1>1, <1>3
    <2> QED
      BY <1>3, <2>1, <2>2
      DEF IInv, TypeOK, FlagsOK, RouterDequeue, workerVars, closerVars
  <1>8. /\ SpawnedNotYetPublished' /\ WaitersAreBlocked'
        /\ (permits = PermitsOwned)' /\ PublishedBelowSpawned'
        /\ NewestNeverDropped'
    BY DEF IInv, RouterDequeue, SpawnedNotYetPublished, WaitersAreBlocked, PermitsOwned,
           PublishedBelowSpawned, NewestNeverDropped, workerVars, closerVars
  <1> QED
    BY <1>4, <1>6, <1>7, <1>8 DEF IInv

(* The router's other steps move a permit, or the request it holds. *)
LEMMA RouterIInv == IInv /\ RouterStep => IInv'
  <1> SUFFICES ASSUME IInv, RouterStep PROVE IInv'
    OBVIOUS
  <1> USE MaxSizeAssumption, ConcurrencyAssumption, MaxRequestsAssumption
  <1> USE DEF callerVars, workerVars, closerVars
  <1>1. CASE RouterDequeue
    BY <1>1, RouterDequeueIInv
  <1>2. CASE RouterDequeueEmpty \/ RouterCheckClosed
    <2>1. TypeOK'
      BY <1>2 DEF IInv, TypeOK, FlagsOK, RouterDequeueEmpty, RouterCheckClosed
    <2>2. QueueIsSuffix' /\ TakenBelowQueue'
      BY <1>2 DEF IInv, RouterDequeueEmpty, RouterCheckClosed, QueueIsSuffix, Front,
                  TakenBelowQueue, HasRequest
    <2>3. /\ SpawnedNotYetPublished' /\ WaitersAreBlocked'
          /\ (permits = PermitsOwned)' /\ PublishedBelowSpawned'
          /\ NewestNeverDropped'
      BY <1>2 DEF IInv, RouterDequeueEmpty, RouterCheckClosed, SpawnedNotYetPublished,
                  WaitersAreBlocked, PermitsOwned, PublishedBelowSpawned, NewestNeverDropped
    <2> QED
      BY <2>1, <2>2, <2>3 DEF IInv
  <1>3. CASE RouterAcquire
    <2>1. permits \in 0..Concurrency /\ permits' = permits + 1 /\ permits < Concurrency
      BY <1>3 DEF IInv, TypeOK, RouterAcquire, CanAcquire
    <2>2. TypeOK'
      BY <1>3, <2>1 DEF IInv, TypeOK, FlagsOK, RouterAcquire
    <2>3. (permits = PermitsOwned)'
      <3>1. Cardinality(spawned) \in Nat /\ Cardinality(running) \in Nat
        BY FiniteWorkers DEF IInv, TypeOK
      <3> QED
        BY <1>3, <2>1, <3>1 DEF IInv, RouterAcquire, PermitsOwned
    <2>4. QueueIsSuffix' /\ TakenBelowQueue' /\ WaitersAreBlocked'
      BY <1>3 DEF IInv, RouterAcquire, CanAcquire, QueueIsSuffix, Front, TakenBelowQueue,
                  HasRequest, WaitersAreBlocked
    <2>5. SpawnedNotYetPublished' /\ PublishedBelowSpawned' /\ NewestNeverDropped'
      BY <1>3 DEF IInv, RouterAcquire, SpawnedNotYetPublished, PublishedBelowSpawned,
                  NewestNeverDropped
    <2> QED
      BY <2>2, <2>3, <2>4, <2>5 DEF IInv
  <1>4. CASE RouterBlock
    <2>1. waiters \in Seq({"router", "closer"}) /\ waiters' = Append(waiters, "router")
      BY <1>4 DEF IInv, TypeOK, RouterBlock
    <2>2. TypeOK'
      BY <1>4, <2>1 DEF IInv, TypeOK, FlagsOK, RouterBlock
    <2>3. WaitersAreBlocked'
      <3>1. /\ Len(waiters') = Len(waiters) + 1
            /\ \A i \in 1..Len(waiters) : waiters'[i] = waiters[i] /\ waiters[i] # "router"
            /\ waiters'[Len(waiters')] = "router"
        BY <1>4, <2>1 DEF IInv, WaitersAreBlocked, RouterBlock
      <3>2. ASSUME NEW i \in DOMAIN waiters'
            PROVE  /\ waiters'[i] = "router" <=> i = Len(waiters')
                   /\ i # Len(waiters') => i \in DOMAIN waiters /\ waiters'[i] = waiters[i]
        BY <2>1, <3>1
      <3> QED
        BY <1>4, <2>1, <3>2 DEF IInv, WaitersAreBlocked, RouterBlock
    <2>4. QueueIsSuffix' /\ TakenBelowQueue' /\ (permits = PermitsOwned)'
      BY <1>4 DEF IInv, RouterBlock, QueueIsSuffix, Front, TakenBelowQueue, HasRequest,
                  PermitsOwned
    <2>5. SpawnedNotYetPublished' /\ PublishedBelowSpawned' /\ NewestNeverDropped'
      BY <1>4 DEF IInv, RouterBlock, SpawnedNotYetPublished, PublishedBelowSpawned,
                  NewestNeverDropped
    <2> QED
      BY <2>2, <2>3, <2>4, <2>5 DEF IInv
  <1>5. CASE RouterSpawn
    <2>1. /\ held \in Requests /\ held \notin spawned /\ held <= Front
          /\ \A i \in DOMAIN published : published[i] < held
      BY <1>5 DEF IInv, TypeOK, Requests, TakenBelowQueue, HasRequest, RouterSpawn
    <2>2. TypeOK'
      BY <1>5, <2>1 DEF IInv, TypeOK, FlagsOK, RouterSpawn
    <2>3. (permits = PermitsOwned)'
      <3>1. Cardinality(spawned') = Cardinality(spawned) + 1
        BY <1>5, <2>1, AddWorker DEF IInv, TypeOK, RouterSpawn
      <3>2. Cardinality(spawned) \in Nat /\ Cardinality(running) \in Nat
        BY FiniteWorkers DEF IInv, TypeOK
      <3> QED
        BY <1>5, <3>1, <3>2 DEF IInv, RouterSpawn, PermitsOwned
    <2>4. QueueIsSuffix' /\ TakenBelowQueue' /\ WaitersAreBlocked'
      BY <1>5, <2>1 DEF IInv, RouterSpawn, QueueIsSuffix, Front, TakenBelowQueue,
                        HasRequest, WaitersAreBlocked
    <2>5. SpawnedNotYetPublished' /\ PublishedBelowSpawned' /\ NewestNeverDropped'
      BY <1>5, <2>1 DEF IInv, TypeOK, RouterSpawn, SpawnedNotYetPublished,
                        PublishedBelowSpawned, NewestNeverDropped, Requests
    <2> QED
      BY <2>2, <2>3, <2>4, <2>5 DEF IInv
  <1> QED
    BY <1>1, <1>2, <1>3, <1>4, <1>5 DEF RouterStep

(* A goroutine that calls publishFn moves its request from spawned to      *)
(* running; with one permit no other request is in flight, so the request  *)
(* is above everything published.                                          *)
LEMMA StartPublishIInv ==
    ASSUME NEW r \in Requests
    PROVE  IInv /\ StartPublish(r) => IInv'
  <1> SUFFICES ASSUME IInv, StartPublish(r) PROVE IInv'
    OBVIOUS
  <1> USE MaxSizeAssumption, ConcurrencyAssumption, MaxRequestsAssumption
  <1> USE DEF callerVars, workerVars, closerVars
  <1>1. /\ published \in Seq(Requests) /\ published' = Append(published, r)
        /\ r \in spawned /\ spawned' = spawned \ {r} /\ running' = running \cup {r}
        /\ spawned \in SUBSET Requests /\ running \in SUBSET Requests
    BY DEF IInv, TypeOK, StartPublish
  <1>2. /\ published' \in Seq(Requests)
        /\ Len(published') = Len(published) + 1
        /\ published'[Len(published')] = r
        /\ \A i \in DOMAIN published : i \in DOMAIN published' /\ published'[i] = published[i]
        /\ Len(published') \in DOMAIN published'
    BY <1>1
  <1>3. ASSUME NEW i \in DOMAIN published'
        PROVE  \/ i = Len(published') /\ published'[i] = r
               \/ i \in DOMAIN published /\ i < Len(published')
                                       /\ published'[i] = published[i]
    BY <1>1, <1>2
  <1>4. \A i \in DOMAIN published : published[i] \in Requests
    BY <1>1
  <1>5. TypeOK'
    BY <1>1, <1>2 DEF IInv, TypeOK, FlagsOK, StartPublish
  <1>6. TakenBelowQueue'
    <2>1. HasRequest' = HasRequest /\ Front' = Front /\ held' = held
      BY DEF StartPublish, HasRequest, Front
    <2>2. r <= Front /\ (HasRequest => r < held)
      BY <1>1 DEF IInv, TakenBelowQueue
    <2> QED
      BY <1>1, <1>3, <2>1, <2>2 DEF IInv, TakenBelowQueue
  <1>7. r \notin running
    BY <1>1 DEF IInv, SpawnedNotYetPublished
  <1>8. (permits = PermitsOwned)'
    <2>1. /\ Cardinality(spawned') = Cardinality(spawned) - 1
          /\ Cardinality(running') = Cardinality(running) + 1
      BY <1>1, <1>7, AddWorker, RemoveWorker
    <2>2. Cardinality(spawned) \in Nat /\ Cardinality(running) \in Nat
      BY <1>1, FiniteWorkers
    <2> QED
      BY <2>1, <2>2 DEF IInv, StartPublish, PermitsOwned
  <1>9. SpawnedNotYetPublished'
    <2>1. \A i \in DOMAIN published' : published'[i] \notin spawned'
      BY <1>1, <1>3 DEF IInv, SpawnedNotYetPublished
    <2>2. ASSUME NEW s \in running'
          PROVE  \E i \in DOMAIN published' : published'[i] = s
      <3>1. CASE s = r
        BY <1>2, <3>1
      <3>2. CASE s \in running
        BY <1>2, <3>2 DEF IInv, SpawnedNotYetPublished
      <3> QED
        BY <1>1, <3>1, <3>2
    <2> QED
      BY <2>1, <2>2 DEF SpawnedNotYetPublished
  <1>10. PublishedBelowSpawned'
    <2> SUFFICES ASSUME Concurrency = 1 PROVE PublishedBelowSpawned'
      BY DEF PublishedBelowSpawned
    <2>1. spawned' = {}
      <3>1. Cardinality(spawned) <= 1
        <4>1. Cardinality(spawned) \in Nat /\ Cardinality(running) \in Nat
          BY <1>1, FiniteWorkers
        <4> QED
          BY <4>1 DEF IInv, TypeOK, PermitsOwned
      <3>2. SUFFICES ASSUME NEW s \in spawned' PROVE FALSE
        OBVIOUS
      <3>3. Cardinality(spawned') >= 1
        BY <1>1, RemoveWorker
      <3>4. Cardinality(spawned') = Cardinality(spawned) - 1 /\ Cardinality(spawned) \in Nat
        BY <1>1, RemoveWorker, FiniteWorkers
      <3> QED
        BY <3>1, <3>3, <3>4
    <2>2. \A i \in DOMAIN published : published[i] < r
      BY <1>1 DEF IInv, PublishedBelowSpawned
    <2>3. ASSUME NEW i \in DOMAIN published', NEW j \in DOMAIN published', i < j
          PROVE  published'[i] < published'[j]
      <3>1. i \in DOMAIN published /\ published'[i] = published[i]
        BY <1>1, <1>2, <1>3, <2>3
      <3>2. CASE j = Len(published')
        BY <1>2, <2>2, <3>1, <3>2
      <3>3. CASE j \in DOMAIN published
        BY <1>2, <2>3, <3>1, <3>3 DEF IInv, PublishedBelowSpawned
      <3> QED
        BY <1>3, <3>2, <3>3
    <2> QED
      BY <2>1, <2>3 DEF PublishedBelowSpawned
  <1>11. QueueIsSuffix' /\ WaitersAreBlocked' /\ NewestNeverDropped'
    BY DEF IInv, StartPublish, QueueIsSuffix, Front, WaitersAreBlocked, NewestNeverDropped
  <1> QED
    BY <1>5, <1>6, <1>8, <1>9, <1>10, <1>11 DEF IInv

(* Release: the permit of the goroutine that ends is freed, or passes to   *)
(* the waiter at the head of the semaphore's queue.                        *)
LEMMA FinishPublishIInv ==
    ASSUME NEW r \in Requests
    PROVE  IInv /\ FinishPublish(r) => IInv'
  <1> SUFFICES ASSUME IInv, FinishPublish(r) PROVE IInv'
    OBVIOUS
  <1> USE MaxSizeAssumption, ConcurrencyAssumption, MaxRequestsAssumption
  <1> USE DEF callerVars, workerVars, closerVars
  <1>1. /\ r \in running /\ running' = running \ {r}
        /\ running \in SUBSET Requests /\ spawned \in SUBSET Requests
        /\ waiters \in Seq({"router", "closer"})
        /\ UNCHANGED <<queue, enqueued, dropped, held, spawned, published,
                       closed, timedOut, closeMark>>
    BY DEF IInv, TypeOK, FinishPublish
  <1>2. /\ Cardinality(running') = Cardinality(running) - 1
        /\ Cardinality(running) >= 1
        /\ Cardinality(running) \in Nat /\ Cardinality(spawned) \in Nat
    BY <1>1, RemoveWorker, FiniteWorkers
  <1>3. permits = PermitsOwned /\ permits \in 0..Concurrency
    BY DEF IInv, TypeOK
  <1>4. /\ QueueIsSuffix' /\ NewestNeverDropped'
        /\ SpawnedNotYetPublished' /\ PublishedBelowSpawned'
    BY <1>1 DEF IInv, QueueIsSuffix, Front, NewestNeverDropped, SpawnedNotYetPublished,
                PublishedBelowSpawned
  <1>5. CASE ReleaseToNobody
    <2>1. permits' \in 0..Concurrency
      BY <1>2, <1>3, <1>5 DEF ReleaseToNobody, PermitsOwned
    <2>2. TypeOK'
      BY <1>1, <1>5, <2>1 DEF IInv, TypeOK, FlagsOK, ReleaseToNobody
    <2>3. (permits = PermitsOwned)'
      BY <1>1, <1>2, <1>3, <1>5 DEF ReleaseToNobody, PermitsOwned
    <2>4. TakenBelowQueue' /\ WaitersAreBlocked'
      BY <1>1, <1>5 DEF IInv, ReleaseToNobody, TakenBelowQueue, Front, HasRequest,
                        WaitersAreBlocked
    <2> QED
      BY <1>4, <2>2, <2>3, <2>4 DEF IInv
  <1>6. ASSUME waiters # <<>>, waiters' = Tail(waiters)
        PROVE  /\ waiters' \in Seq({"router", "closer"})
               /\ \A i \in DOMAIN waiters' :
                     /\ i + 1 \in DOMAIN waiters /\ waiters'[i] = waiters[i + 1]
                     /\ waiters'[i] # Head(waiters)
               /\ \A i, j \in DOMAIN waiters' : waiters'[i] = waiters'[j] => i = j
    <2>1. /\ waiters' \in Seq({"router", "closer"}) /\ Len(waiters') = Len(waiters) - 1
          /\ Len(waiters) >= 1
          /\ \A i \in 1..Len(waiters') : waiters'[i] = waiters[i + 1]
          /\ Head(waiters) = waiters[1] /\ 1 \in DOMAIN waiters
      BY <1>1, <1>6
    <2>2. ASSUME NEW i \in DOMAIN waiters'
          PROVE  /\ i \in Nat \ {0} /\ i + 1 \in DOMAIN waiters
                 /\ waiters'[i] = waiters[i + 1]
      BY <1>1, <2>1
    <2>3. \A i, j \in DOMAIN waiters : waiters[i] = waiters[j] => i = j
      BY DEF IInv, WaitersAreBlocked
    <2>4. ASSUME NEW i \in DOMAIN waiters' PROVE waiters'[i] # Head(waiters)
      <3>1. i \in Nat \ {0} /\ i + 1 \in DOMAIN waiters /\ waiters'[i] = waiters[i + 1]
        BY <2>2
      <3>2. waiters[i + 1] = waiters[1] => i + 1 = 1
        BY <2>1, <2>3, <3>1
      <3> QED
        BY <2>1, <3>1, <3>2
    <2>5. ASSUME NEW i \in DOMAIN waiters', NEW j \in DOMAIN waiters',
                 waiters'[i] = waiters'[j]
          PROVE  i = j
      <3>1. /\ i \in Nat /\ i + 1 \in DOMAIN waiters /\ waiters'[i] = waiters[i + 1]
            /\ j \in Nat /\ j + 1 \in DOMAIN waiters /\ waiters'[j] = waiters[j + 1]
        BY <2>2
      <3>2. i + 1 = j + 1
        BY <2>3, <2>5, <3>1
      <3> QED
        BY <3>1, <3>2
    <2> QED
      BY <2>1, <2>2, <2>4, <2>5
  <1>7. CASE ReleaseToRouter
    <2>1. /\ router = "waiting" /\ router' = "spawn" /\ UNCHANGED <<permits, closer>>
      <3>1. 1 \in DOMAIN waiters /\ waiters[1] = "router"
        BY <1>1, <1>7 DEF ReleaseToRouter
      <3> QED
        BY <1>7, <3>1 DEF IInv, WaitersAreBlocked, ReleaseToRouter
    <2>2. WaitersAreBlocked' /\ waiters' \in Seq({"router", "closer"})
      BY <1>1, <1>6, <1>7, <2>1 DEF IInv, WaitersAreBlocked, ReleaseToRouter
    <2>3. TypeOK'
      BY <1>1, <2>1, <2>2 DEF IInv, TypeOK, FlagsOK
    <2>4. (permits = PermitsOwned)'
      BY <1>1, <1>2, <1>3, <2>1 DEF PermitsOwned
    <2>5. TakenBelowQueue'
      BY <1>1, <2>1 DEF IInv, TakenBelowQueue, Front, HasRequest
    <2> QED
      BY <1>4, <2>2, <2>3, <2>4, <2>5 DEF IInv
  <1>8. CASE ReleaseToCloser
    <2>1. /\ closer = "waiting" /\ closer' = "acquired" /\ UNCHANGED router
          /\ permits = 1 /\ permits' = Concurrency
      <3>1. 1 \in DOMAIN waiters /\ waiters[1] = "closer"
        BY <1>1, <1>8 DEF ReleaseToCloser
      <3> QED
        BY <1>8, <3>1 DEF IInv, WaitersAreBlocked, ReleaseToCloser
    <2>2. WaitersAreBlocked' /\ waiters' \in Seq({"router", "closer"})
      BY <1>1, <1>6, <1>8, <2>1 DEF IInv, WaitersAreBlocked, ReleaseToCloser
    <2>3. TypeOK'
      BY <1>1, <2>1, <2>2 DEF IInv, TypeOK, FlagsOK
    <2>4. (permits = PermitsOwned)'
      <3>1. /\ Cardinality(running) = 1 /\ Cardinality(spawned) = 0 /\ router # "spawn"
        BY <1>2, <1>3, <2>1 DEF PermitsOwned
      <3> QED
        BY <1>1, <1>2, <2>1, <3>1 DEF PermitsOwned
    <2>5. TakenBelowQueue'
      BY <1>1, <2>1 DEF IInv, TakenBelowQueue, Front, HasRequest
    <2> QED
      BY <1>4, <2>2, <2>3, <2>4, <2>5 DEF IInv
  <1> QED
    BY <1>5, <1>7, <1>8 DEF FinishPublish

(* The steps of Close(): only its Acquire touches the semaphore. *)
LEMMA CloserIInv == IInv /\ (CallClose \/ CloserStep) => IInv'
  <1> SUFFICES ASSUME IInv, CallClose \/ CloserStep PROVE IInv'
    OBVIOUS
  <1> USE MaxSizeAssumption, ConcurrencyAssumption, MaxRequestsAssumption
  <1> USE DEF callerVars, workerVars, closerVars
  <1>1. UNCHANGED <<queue, enqueued, dropped, router, held, spawned, running, published>>
    BY DEF CallClose, CloserStep, DrainDone, DrainTimeout, CloserAcquire, CloserBlock,
           CloserTimeout
  <1>2. /\ QueueIsSuffix' /\ TakenBelowQueue' /\ NewestNeverDropped'
        /\ SpawnedNotYetPublished' /\ PublishedBelowSpawned'
    BY <1>1 DEF IInv, QueueIsSuffix, Front, TakenBelowQueue, HasRequest,
                NewestNeverDropped, SpawnedNotYetPublished, PublishedBelowSpawned
  <1>3. CASE CallClose
    <2>1. FlagsOK'
      BY <1>3 DEF IInv, TypeOK, FlagsOK, CallClose
    <2>2. TypeOK'
      BY <1>3, <2>1 DEF IInv, TypeOK, CallClose
    <2>3. WaitersAreBlocked' /\ (permits = PermitsOwned)'
      BY <1>3 DEF IInv, CallClose, WaitersAreBlocked, PermitsOwned
    <2> QED
      BY <1>2, <2>2, <2>3 DEF IInv
  <1>4. CASE DrainDone \/ DrainTimeout
    <2>1. FlagsOK'
      BY <1>4 DEF IInv, TypeOK, FlagsOK, DrainDone, DrainTimeout
    <2>2. TypeOK'
      BY <1>4, <2>1 DEF IInv, TypeOK, DrainDone, DrainTimeout
    <2>3. WaitersAreBlocked' /\ (permits = PermitsOwned)'
      BY <1>4 DEF IInv, DrainDone, DrainTimeout, WaitersAreBlocked, PermitsOwned
    <2> QED
      BY <1>2, <2>2, <2>3 DEF IInv
  <1>5. CASE CloserAcquire
    <2>1. /\ permits \in 0..Concurrency /\ Concurrency - permits >= Concurrency
          /\ permits' = permits + Concurrency
      BY <1>5 DEF IInv, TypeOK, CloserAcquire, CanAcquire
    <2>2. permits = 0 /\ permits' = Concurrency
      BY <2>1
    <2>3. TypeOK'
      BY <1>5, <2>2 DEF IInv, TypeOK, FlagsOK, CloserAcquire
    <2>4. WaitersAreBlocked'
      BY <1>5 DEF IInv, CloserAcquire, WaitersAreBlocked
    <2>5. (permits = PermitsOwned)'
      <3>1. Cardinality(spawned) \in Nat /\ Cardinality(running) \in Nat
        BY FiniteWorkers DEF IInv, TypeOK
      <3> QED
        BY <1>5, <2>2, <3>1 DEF IInv, CloserAcquire, PermitsOwned
    <2> QED
      BY <1>2, <2>3, <2>4, <2>5 DEF IInv
  <1>6. CASE CloserBlock
    <2>1. waiters \in Seq({"router", "closer"}) /\ waiters' = Append(waiters, "closer")
      BY <1>6 DEF IInv, TypeOK, CloserBlock
    <2>2. TypeOK'
      BY <1>6, <2>1 DEF IInv, TypeOK, FlagsOK, CloserBlock
    <2>3. WaitersAreBlocked'
      <3>1. /\ Len(waiters') = Len(waiters) + 1
            /\ \A i \in 1..Len(waiters) : waiters'[i] = waiters[i] /\ waiters[i] # "closer"
            /\ waiters'[Len(waiters')] = "closer"
        BY <1>6, <2>1 DEF IInv, WaitersAreBlocked, CloserBlock
      <3>2. ASSUME NEW i \in DOMAIN waiters'
            PROVE  /\ waiters'[i] = "closer" <=> i = Len(waiters')
                   /\ i # Len(waiters') => i \in DOMAIN waiters /\ waiters'[i] = waiters[i]
        BY <2>1, <3>1
      <3> QED
        BY <1>6, <2>1, <3>2 DEF IInv, WaitersAreBlocked, CloserBlock
    <2>4. (permits = PermitsOwned)'
      BY <1>6 DEF IInv, CloserBlock, PermitsOwned
    <2> QED
      BY <1>2, <2>2, <2>3, <2>4 DEF IInv
  <1>7. CASE CloserTimeout
    <2>1. PICK k \in DOMAIN waiters :
             /\ waiters[k] = "closer"
             /\ waiters' = SubSeq(waiters, 1, k - 1) \o SubSeq(waiters, k + 1, Len(waiters))
      BY <1>7 DEF CloserTimeout
    <2>2. waiters \in Seq({"router", "closer"}) /\ k \in 1..Len(waiters)
      BY <2>1 DEF IInv, TypeOK
    <2>3. /\ waiters' \in Seq({"router", "closer"})
          /\ Len(waiters') = Len(waiters) - 1
          /\ \A i \in 1..Len(waiters') :
                waiters'[i] = IF i < k THEN waiters[i] ELSE waiters[i + 1]
      <3> DEFINE a == SubSeq(waiters, 1, k - 1)
                 b == SubSeq(waiters, k + 1, Len(waiters))
      <3>1. /\ a \in Seq({"router", "closer"}) /\ Len(a) = k - 1
            /\ \A i \in 1..(k - 1) : a[i] = waiters[i]
        BY <2>2
      <3>2. /\ b \in Seq({"router", "closer"}) /\ Len(b) = Len(waiters) - k
            /\ \A i \in 1..(Len(waiters) - k) : b[i] = waiters[k + i]
        BY <2>2
      <3> HIDE DEF a, b
      <3>3. /\ a \o b \in Seq({"router", "closer"}) /\ Len(a \o b) = Len(waiters) - 1
            /\ \A i \in 1..Len(a \o b) :
                  (a \o b)[i] = IF i < k THEN a[i] ELSE b[i - (k - 1)]
        <4>1. PICK x \in Seq({"router", "closer"}), y \in Seq({"router", "closer"}) :
                 x = a /\ y = b
          BY <3>1, <3>2
        <4>2. /\ x \o y \in Seq({"router", "closer"}) /\ Len(x \o y) = Len(x) + Len(y)
              /\ \A i \in 1..Len(x \o y) :
                    (x \o y)[i] = IF i <= Len(x) THEN x[i] ELSE y[i - Len(x)]
          OBVIOUS
        <4>3. /\ k \in Nat /\ Len(waiters) \in Nat /\ Len(a) = k - 1
              /\ Len(b) = Len(waiters) - k
          BY <2>2, <3>1, <3>2
        <4>4. \A i \in Nat : i <= k - 1 <=> i < k
          BY <4>3
        <4>5. 1..Len(a \o b) \subseteq Nat
          BY <4>1, <4>2
        <4>6. Len(a \o b) = Len(waiters) - 1
          BY <4>1, <4>2, <4>3
        <4> QED
          BY <4>1, <4>2, <4>3, <4>4, <4>5, <4>6
      <3>4. waiters' = a \o b
        BY <2>1 DEF a, b
      <3>5. ASSUME NEW i \in 1..Len(waiters')
            PROVE  waiters'[i] = IF i < k THEN waiters[i] ELSE waiters[i + 1]
        <4>1. CASE i < k
          <5>1. i \in 1..(k - 1)
            BY <2>2, <3>3, <3>4, <4>1
          <5> QED
            BY <3>1, <3>3, <3>4, <4>1, <5>1
        <4>2. CASE ~(i < k)
          <5>1. i - (k - 1) \in 1..(Len(waiters) - k) /\ k + (i - (k - 1)) = i + 1
            BY <2>2, <3>3, <3>4, <4>2
          <5>2. waiters'[i] = b[i - (k - 1)]
            BY <3>3, <3>4, <4>2
          <5>3. b[i - (k - 1)] = waiters[k + (i - (k - 1))]
            BY <3>2, <5>1
          <5> QED
            BY <4>2, <5>1, <5>2, <5>3
        <4> QED
          BY <4>1, <4>2
      <3> QED
        BY <3>3, <3>4, <3>5
    <2>4. ASSUME NEW i \in DOMAIN waiters'
          PROVE  \E m \in DOMAIN waiters :
                    /\ m = (IF i < k THEN i ELSE i + 1)
                    /\ m # k /\ waiters'[i] = waiters[m] /\ waiters'[i] # "closer"
      <3>1. i \in 1..Len(waiters')
        BY <2>3
      <3>2. CASE i < k
        <4>1. i \in DOMAIN waiters /\ i # k /\ waiters'[i] = waiters[i]
          BY <2>2, <2>3, <3>1, <3>2
        <4>2. waiters[i] # waiters[k]
          BY <2>1, <4>1 DEF IInv, WaitersAreBlocked
        <4> QED
          BY <2>1, <3>2, <4>1, <4>2
      <3>3. CASE ~(i < k)
        <4>1. i + 1 \in DOMAIN waiters /\ i + 1 # k /\ waiters'[i] = waiters[i + 1]
          BY <2>2, <2>3, <3>1, <3>3
        <4>2. waiters[i + 1] # waiters[k]
          BY <2>1, <4>1 DEF IInv, WaitersAreBlocked
        <4> QED
          BY <2>1, <3>3, <4>1, <4>2
      <3> QED
        BY <3>2, <3>3
    <2>5. WaitersAreBlocked'
      <3>1. ASSUME NEW i \in DOMAIN waiters', NEW j \in DOMAIN waiters',
                   waiters'[i] = waiters'[j]
            PROVE  i = j
        <4>1. PICK m \in DOMAIN waiters :
                /\ m = (IF i < k THEN i ELSE i + 1) /\ waiters'[i] = waiters[m]
          BY <2>4
        <4>2. PICK n \in DOMAIN waiters :
                /\ n = (IF j < k THEN j ELSE j + 1) /\ waiters'[j] = waiters[n]
          BY <2>4
        <4>3. m = n
          BY <3>1, <4>1, <4>2 DEF IInv, WaitersAreBlocked
        <4> QED
          BY <2>2, <2>3, <4>1, <4>2, <4>3
      <3>2. ASSUME NEW i \in DOMAIN waiters'
            PROVE  waiters'[i] # "closer" /\ (waiters'[i] = "router" => router' = "waiting")
        BY <1>1, <2>4 DEF IInv, WaitersAreBlocked
      <3> QED
        BY <3>1, <3>2 DEF WaitersAreBlocked
    <2>6. TypeOK'
      BY <1>7, <2>3 DEF IInv, TypeOK, FlagsOK, CloserTimeout
    <2>7. (permits = PermitsOwned)'
      BY <1>7 DEF IInv, CloserTimeout, PermitsOwned
    <2> QED
      BY <1>2, <2>5, <2>6, <2>7 DEF IInv
  <1> QED
    BY <1>3, <1>4, <1>5, <1>6, <1>7 DEF CloserStep

-----------------------------------------------------------------------------

(* IInv is an invariant of the publisher, for every size of its queue and  *)
(* every number of permits.                                                *)
THEOREM Invariance == Spec => []IInv
  <1>1. IInv /\ [Next]_vars => IInv'
    <2> SUFFICES ASSUME IInv, [Next]_vars PROVE IInv'
      OBVIOUS
    <2>1. CASE Publish
      BY <2>1, PublishIInv
    <2>2. CASE RouterStep
      BY <2>2, RouterIInv
    <2>3. CASE \E r \in Requests : WorkerStep(r)
      BY <2>3, StartPublishIInv, FinishPublishIInv DEF WorkerStep
    <2>4. CASE CallClose \/ CloserStep
      BY <2>4, CloserIInv
    <2>5. CASE UNCHANGED vars
      BY <2>5 DEF vars, callerVars, workerVars, closerVars, IInv, TypeOK, FlagsOK,
                  QueueIsSuffix, TakenBelowQueue, SpawnedNotYetPublished,
                  WaitersAreBlocked, PermitsOwned, PublishedBelowSpawned,
                  NewestNeverDropped, Front, HasRequest
    <2> QED
      BY <2>1, <2>2, <2>3, <2>4, <2>5 DEF Next
  <1> QED
    BY InitIInv, <1>1, PTL DEF Spec

(* The state always has its types and the queue never exceeds maxSize. *)
THEOREM TypeCorrect == Spec => []TypeOK
  <1>1. IInv => TypeOK
    BY DEF IInv
  <1> QED
    BY Invariance, <1>1, PTL

(* At most Concurrency calls of publishFn overlap, whatever the order in   *)
(* which the router, the goroutines and Close() meet at the semaphore.     *)
THEOREM Permits == Spec => []PermitsAccountedFor
  <1>1. IInv => PermitsAccountedFor
    <2> SUFFICES ASSUME IInv PROVE PermitsAccountedFor
      OBVIOUS
    <2>1. /\ IsFiniteSet(spawned) /\ Cardinality(spawned) \in Nat
          /\ IsFiniteSet(running) /\ Cardinality(running) \in Nat
      BY FiniteWorkers DEF IInv, TypeOK
    <2>2. spawned \cap running = {}
      BY DEF IInv, SpawnedNotYetPublished
    <2>3. Cardinality(InFlight) = Cardinality(spawned) + Cardinality(running)
      BY <2>1, <2>2, FS_Union, FS_EmptySet DEF InFlight
    <2>4. permits = PermitsOwned /\ permits \in 0..Concurrency
      BY DEF IInv, TypeOK
    <2>5. Cardinality(InFlight) <= Concurrency
      BY <2>1, <2>3, <2>4, ConcurrencyAssumption DEF PermitsOwned
    <2> QED
      BY <2>4, <2>5 DEF PermitsAccountedFor
  <1> QED
    BY Invariance, <1>1, PTL

(* With one permit publishFn sees every request at most once, in order. *)
THEOREM Order == Spec => []PublishedInOrder
  <1>1. IInv => PublishedInOrder
    BY DEF IInv, PublishedBelowSpawned, PublishedInOrder
  <1> QED
    BY Invariance, <1>1, PTL

(* Only requests with MaxSize newer ones behind them are evicted. *)
THEOREM NewestKept == Spec => []NewestNeverDropped
  <1>1. IInv => NewestNeverDropped
    BY DEF IInv
  <1> QED
    BY Invariance, <1>1, PTL

(* When Close() owns the permits nothing is in flight. *)
LEMMA AcquiredIsIdle ==
    IInv /\ closer = "acquired" => spawned = {} /\ running = {}
  <1> SUFFICES ASSUME IInv, closer = "acquired" PROVE spawned = {} /\ running = {}
    OBVIOUS
  <1>1. /\ Cardinality(spawned) \in Nat /\ Cardinality(running) \in Nat
        /\ spawned \in SUBSET Requests /\ running \in SUBSET Requests
    BY FiniteWorkers DEF IInv, TypeOK
  <1>2. Cardinality(spawned) = 0 /\ Cardinality(running) = 0
    BY <1>1, ConcurrencyAssumption DEF IInv, TypeOK, PermitsOwned
  <1>3. ASSUME NEW A \in SUBSET Requests, Cardinality(A) = 0 PROVE A = {}
    <2> SUFFICES ASSUME NEW r \in A PROVE FALSE
      OBVIOUS
    <2>1. Cardinality(A) >= 1
      BY RemoveWorker
    <2> QED
      BY <1>3, <2>1
  <1> QED
    BY <1>1, <1>2, <1>3

(* After Close() has got every permit, publishFn is never called again. *)
THEOREM Quiet == Spec => QuietAfterClose
  <1>1. IInv /\ [Next]_vars =>
          [closer = "acquired" => InFlight = {} /\ published' = published]_vars
    <2> SUFFICES ASSUME IInv, Next, closer = "acquired"
                 PROVE  InFlight = {} /\ published' = published
      OBVIOUS
    <2>1. spawned = {} /\ running = {}
      BY AcquiredIsIdle
    <2>2. published' = published
      BY <2>1 DEF Next, Publish, RouterStep, RouterDequeue, RouterDequeueEmpty,
                  RouterCheckClosed, RouterAcquire, RouterBlock, RouterSpawn, WorkerStep,
                  StartPublish, FinishPublish, CallClose, CloserStep, DrainDone,
                  DrainTimeout, CloserAcquire, CloserBlock, CloserTimeout, workerVars
    <2> QED
      BY <2>1, <2>2 DEF InFlight
  <1> QED
    BY Invariance, <1>1, PTL DEF Spec, QuietAfterClose

-----------------------------------------------------------------------------

(* With one permit, every step of the publisher is a step of the abstract  *)
(* lossy FIFO or changes nothing the pusher can see.                       *)
THEOREM Refinement == ASSUME Concurrency = 1 PROVE Spec => ImplementsLossyFifo
  <1> USE DEF Abstract!vars
  <1>1. Init => Abstract!Init
    BY DEF Init, Abstract!Init
  <1>2. IInv /\ [Next]_vars => [Abstract!Next]_(Abstract!vars)
    <2> SUFFICES ASSUME IInv, [Next]_vars PROVE [Abstract!Next]_(Abstract!vars)
      OBVIOUS
    <2> USE DEF callerVars, workerVars, closerVars
    <2>1. CASE Publish
      BY <2>1 DEF Publish, Abstract!Next, Abstract!Offer
    <2>2. CASE RouterStep
      BY <2>2 DEF RouterStep, RouterDequeue, RouterDequeueEmpty, RouterCheckClosed,
                  RouterAcquire, RouterBlock, RouterSpawn
    <2>3. ASSUME NEW r \in Requests, StartPublish(r) PROVE Abstract!Deliver
      <3>1. closer # "acquired" /\ UNCHANGED <<enqueued, closer>>
        BY <2>3, AcquiredIsIdle DEF StartPublish
      <3>2. \A i \in DOMAIN published : published[i] < r
        BY <2>3 DEF IInv, PublishedBelowSpawned, StartPublish
      <3>3. r \in 1..enqueued
        BY <2>3 DEF IInv, TypeOK, QueueIsSuffix, TakenBelowQueue, Front, Requests,
                    StartPublish
      <3> QED
        BY <2>3, <3>1, <3>2, <3>3 DEF StartPublish, Abstract!Deliver
    <2>4. ASSUME NEW r \in Requests, FinishPublish(r)
          PROVE  Abstract!Stop \/ UNCHANGED Abstract!vars
      <3>1. CASE closer = "acquired"
        BY <2>4, <3>1, AcquiredIsIdle DEF FinishPublish
      <3>2. CASE closer # "acquired"
        BY <2>4, <3>2 DEF FinishPublish, ReleaseToNobody, ReleaseToRouter,
                          ReleaseToCloser, Abstract!Stop
      <3> QED
        BY <3>1, <3>2
    <2>5. CASE CallClose \/ CloserStep
      BY <2>5 DEF CallClose, CloserStep, DrainDone, DrainTimeout, CloserAcquire,
                  CloserBlock, CloserTimeout, Abstract!Next, Abstract!Stop
    <2>6. CASE UNCHANGED vars
      BY <2>6 DEF vars
    <2> QED
      BY <2>1, <2>2, <2>3, <2>4, <2>5, <2>6 DEF Next, WorkerStep, Abstract!Next
  <1> QED
    BY Invariance, <1>1, <1>2, PTL DEF Spec, ImplementsLossyFifo, Abstract!Spec

-----------------------------------------------------------------------------
(* Where the requests no longer in the queue are. *)
Taken      == dropped \cup Holding \cup spawned \cup Elements(published)
TakenCount == Cardinality(dropped) + (IF HasRequest THEN 1 ELSE 0)
              + Cardinality(spawned) + Len(published)

TakenAccountedFor == 1..Front = Taken /\ Front = TakenCount

(* What the invariant says of the numbers in TakenAccountedFor. *)
LEMMA TakenTypes ==
    ASSUME IInv
    PROVE  /\ Front \in Nat
           /\ dropped \in SUBSET Requests /\ \A r \in dropped : r <= Front
           /\ spawned \in SUBSET Requests
           /\ Cardinality(dropped) \in Nat /\ Cardinality(spawned) \in Nat
           /\ published \in Seq(Requests) /\ Len(published) \in Nat
  <1>1. /\ enqueued \in Nat /\ Len(queue) \in Nat
        /\ Len(queue) <= enqueued /\ Len(queue) <= MaxSize
    BY MaxRequestsAssumption DEF IInv, TypeOK, QueueIsSuffix
  <1>2. Front \in Nat
    BY <1>1 DEF Front
  <1>3. ASSUME NEW r \in dropped PROVE r <= Front
    <2>1. r \in Nat /\ r + MaxSize <= enqueued
      BY <1>3 DEF IInv, TypeOK, Requests, NewestNeverDropped
    <2> QED
      BY <1>1, <2>1, MaxSizeAssumption DEF Front
  <1> QED
    BY <1>2, <1>3, FiniteWorkers DEF IInv, TypeOK

(* The queue is the interval of numbers above Front, so that what is said  *)
(* of the requests taken extends to all requests.                          *)
LEMMA TakenSuffices ==
    ASSUME IInv, TakenAccountedFor
    PROVE  EveryRequestAccountedFor
  <1>1. /\ enqueued \in Nat /\ Len(queue) \in Nat /\ queue \in Seq(Requests)
        /\ Len(queue) <= enqueued /\ Front = enqueued - Len(queue)
        /\ \A i \in 1..Len(queue) : queue[i] = Front + i
    BY MaxRequestsAssumption DEF IInv, TypeOK, QueueIsSuffix, Front
  <1>2. Elements(queue) = (Front + 1)..enqueued
    <2>1. ASSUME NEW n \in (Front + 1)..enqueued PROVE n \in Elements(queue)
      <3>1. n - Front \in 1..Len(queue)
        BY <1>1
      <3>2. queue[n - Front] = n
        BY <1>1, <3>1
      <3>3. n - Front \in DOMAIN queue
        BY <1>1, <3>1
      <3> QED
        BY <3>2, <3>3 DEF Elements
    <2>2. ASSUME NEW i \in DOMAIN queue PROVE queue[i] \in (Front + 1)..enqueued
      <3>1. i \in 1..Len(queue)
        BY <1>1
      <3> QED
        BY <1>1, <3>1
    <2> QED
      BY <2>1, <2>2 DEF Elements
  <1>3. 1..enqueued = (1..Front) \cup ((Front + 1)..enqueued)
    BY <1>1
  <1>4. Cardinality(Holding) = IF HasRequest THEN 1 ELSE 0
    BY FS_EmptySet, FS_Singleton DEF Holding
  <1>5. enqueued = TakenCount + Len(queue)
    BY <1>1, TakenTypes DEF TakenAccountedFor
  <1>6. 1..enqueued = dropped \cup Elements(queue) \cup Holding
                      \cup spawned \cup Elements(published)
    BY <1>2, <1>3 DEF TakenAccountedFor, Taken
  <1>7. Cardinality(Holding) \in Nat
    BY <1>4
  <1> QED
    <2>1. enqueued = Cardinality(dropped) + Len(queue) + Cardinality(Holding)
                     + Cardinality(spawned) + Len(published)
      BY <1>1, <1>4, <1>5, <1>7, TakenTypes DEF TakenCount
    <2> QED
      BY <1>6, <2>1 DEF EveryRequestAccountedFor

(* A request leaves the queue for the evicted or for the router's hand.    *)
LEMMA TakenFromQueue ==
    ASSUME IInv, IInv', TakenAccountedFor, Publish \/ RouterDequeue
    PROVE  TakenAccountedFor'
  <1> USE DEF callerVars, workerVars, closerVars
  <1>1. /\ enqueued \in Nat /\ Len(queue) \in Nat /\ queue \in Seq(Requests)
        /\ Len(queue) <= MaxSize /\ Len(queue) <= enqueued
        /\ \A i \in 1..Len(queue) : queue[i] = Front + i
        /\ Front = enqueued - Len(queue)
    BY MaxRequestsAssumption DEF IInv, TypeOK, QueueIsSuffix, Front
  <1>2. spawned' = spawned /\ published' = published
    BY DEF Publish, RouterDequeue
  <1>3. 1..(Front + 1) = (1..Front) \cup {Front + 1}
    BY TakenTypes
  <1>4. CASE Publish /\ Len(queue) < MaxSize
    <2>1. dropped' = dropped /\ Holding' = Holding /\ HasRequest' = HasRequest
      BY <1>4 DEF Publish, Evicted, Holding, HasRequest
    <2>2. Front' = Front
      <3>1. enqueued + 1 \in Requests
        BY <1>1, <1>4, MaxRequestsAssumption DEF Publish, Requests
      <3>2. enqueued' = enqueued + 1 /\ Len(queue') = Len(queue) + 1
        BY <1>1, <1>4, <3>1, EnqueueQueue DEF Publish
      <3> QED
        BY <1>1, <3>2 DEF Front
    <2> QED
      BY <1>2, <2>1, <2>2 DEF TakenAccountedFor, Taken, TakenCount, Elements
  <1>5. CASE Publish /\ Len(queue) = MaxSize
    <2>1. enqueued + 1 \in Requests
      BY <1>1, <1>5, MaxRequestsAssumption DEF Publish, Requests
    <2>2. enqueued' = enqueued + 1 /\ Len(queue') = Len(queue)
      BY <1>1, <1>5, <2>1, EnqueueQueue DEF Publish
    <2>3. Front' = Front + 1
      BY <1>1, <2>2 DEF Front
    <2>4. 1 \in 1..Len(queue)
      BY <1>1, <1>5, MaxSizeAssumption
    <2>5. dropped' = dropped \cup {Front + 1}
      BY <1>1, <1>5, <2>1, <2>4, EnqueueQueue DEF Publish
    <2>6. Front + 1 \notin dropped /\ Front + 1 \in Requests
      <3>1. queue[1] \in Requests /\ queue[1] = Front + 1
        BY <1>1, <2>4
      <3> QED
        BY <3>1, TakenTypes
    <2>7. Cardinality(dropped') = Cardinality(dropped) + 1
      BY <2>5, <2>6, TakenTypes, AddWorker
    <2>8. Holding' = Holding /\ HasRequest' = HasRequest
      BY <1>5 DEF Publish, Holding, HasRequest
    <2>9. (1..Front)' = Taken'
      BY <1>2, <1>3, <2>3, <2>5, <2>8 DEF TakenAccountedFor, Taken, Elements
    <2>10. Front' = TakenCount'
      BY <1>2, <2>3, <2>7, <2>8, TakenTypes DEF TakenAccountedFor, TakenCount
    <2> QED
      BY <2>9, <2>10 DEF TakenAccountedFor
  <1>6. CASE RouterDequeue
    <2>1. queue # <<>> /\ queue' = Tail(queue) /\ held' = Head(queue)
          /\ dropped' = dropped /\ enqueued' = enqueued
          /\ router = "dequeue" /\ router' = "acquire"
      BY <1>6 DEF RouterDequeue, DequeueRest, DequeueValue
    <2>2. Len(queue') = Len(queue) - 1 /\ Head(queue) = queue[1] /\ 1 \in 1..Len(queue)
      BY <1>1, <2>1
    <2>3. Front' = Front + 1 /\ held' = Front + 1
      BY <1>1, <2>1, <2>2 DEF Front
    <2>4. Holding = {} /\ ~HasRequest /\ HasRequest' /\ Holding' = {Front + 1}
      BY <2>1, <2>3 DEF Holding, HasRequest
    <2>5. (1..Front)' = Taken'
      BY <1>2, <1>3, <2>1, <2>3, <2>4 DEF TakenAccountedFor, Taken, Elements
    <2>6. Front' = TakenCount'
      BY <1>2, <2>1, <2>3, <2>4, TakenTypes DEF TakenAccountedFor, TakenCount
    <2> QED
      BY <2>5, <2>6 DEF TakenAccountedFor
  <1> QED
    BY <1>1, <1>4, <1>5, <1>6, MaxSizeAssumption

(* A request moves from the router's hand to its goroutine, and from there *)
(* into publishFn.                                                         *)
LEMMA TakenMoves ==
    ASSUME IInv, TakenAccountedFor,
           RouterSpawn \/ \E r \in Requests : StartPublish(r)
    PROVE  TakenAccountedFor'
  <1> USE DEF callerVars, workerVars, closerVars
  <1>1. Front' = Front /\ dropped' = dropped
    BY DEF RouterSpawn, StartPublish, Front
  <1>2. CASE RouterSpawn
    <2>1. /\ Holding = {held} /\ HasRequest /\ Holding' = {} /\ ~HasRequest'
          /\ spawned' = spawned \cup {held} /\ published' = published
          /\ held \in Requests /\ held \notin spawned
      BY <1>2 DEF RouterSpawn, Holding, HasRequest, IInv, TypeOK, Requests, TakenBelowQueue
    <2>2. Cardinality(spawned') = Cardinality(spawned) + 1
      BY <2>1, TakenTypes, AddWorker
    <2>3. Taken' = Taken
      BY <1>1, <2>1 DEF Taken, Elements
    <2>4. TakenCount' = TakenCount
      BY <1>1, <2>1, <2>2, TakenTypes DEF TakenCount
    <2> QED
      BY <1>1, <2>3, <2>4 DEF TakenAccountedFor
  <1>3. CASE \E r \in Requests : StartPublish(r)
    <2>1. PICK r \in Requests : StartPublish(r)
      BY <1>3
    <2>2. /\ r \in spawned /\ spawned' = spawned \ {r}
          /\ published' = Append(published, r)
          /\ Holding' = Holding /\ HasRequest' = HasRequest
      BY <2>1 DEF StartPublish, Holding, HasRequest
    <2>3. /\ Len(published') = Len(published) + 1
          /\ DOMAIN published' = DOMAIN published \cup {Len(published) + 1}
          /\ \A i \in DOMAIN published : published'[i] = published[i]
          /\ published'[Len(published) + 1] = r
      BY <2>2, TakenTypes
    <2>4. Elements(published') = Elements(published) \cup {r}
      BY <2>3 DEF Elements
    <2>5. Cardinality(spawned') = Cardinality(spawned) - 1
      BY <2>2, TakenTypes, RemoveWorker
    <2>6. Taken' = Taken
      <3>1. Elements(published)' = Elements(published')
        BY DEF Elements
      <3> QED
        BY <1>1, <2>2, <2>4, <3>1 DEF Taken
    <2>7. TakenCount' = TakenCount
      <3>1. (IF HasRequest' THEN 1 ELSE 0) = IF HasRequest THEN 1 ELSE 0
        BY <2>2
      <3>2. Cardinality(spawned') + Len(published') = Cardinality(spawned) + Len(published)
        BY <2>3, <2>5, TakenTypes
      <3>3. Cardinality(spawned') \in Int /\ Len(published') \in Int
        BY <2>3, <2>5, TakenTypes
      <3>4. (IF HasRequest THEN 1 ELSE 0) \in Nat
        OBVIOUS
      <3> QED
        <4>1. TakenCount = Cardinality(dropped) + (IF HasRequest THEN 1 ELSE 0)
                           + (Cardinality(spawned) + Len(published))
          BY <3>4, TakenTypes DEF TakenCount
        <4>2. TakenCount' = Cardinality(dropped) + (IF HasRequest THEN 1 ELSE 0)
                            + (Cardinality(spawned') + Len(published'))
          BY <1>1, <3>1, <3>3, <3>4, TakenTypes DEF TakenCount
        <4> QED
          BY <3>2, <4>1, <4>2
    <2> QED
      BY <1>1, <2>6, <2>7 DEF TakenAccountedFor
  <1> QED
    BY <1>2, <1>3

(* The other steps leave every request where it is: a router that is woken *)
(* up by Release was waiting with its request.                             *)
LEMMA TakenStays ==
    ASSUME IInv, TakenAccountedFor,
           \/ RouterDequeueEmpty \/ RouterCheckClosed \/ RouterAcquire \/ RouterBlock
           \/ \E r \in Requests : FinishPublish(r)
           \/ CallClose \/ CloserStep \/ UNCHANGED vars
    PROVE  TakenAccountedFor'
  <1> USE DEF callerVars, workerVars, closerVars
  <1>1. UNCHANGED <<enqueued, queue, dropped, held, spawned, published>>
    BY DEF RouterDequeueEmpty, RouterCheckClosed, RouterAcquire, RouterBlock, FinishPublish,
           CallClose, CloserStep, DrainDone, DrainTimeout, CloserAcquire, CloserBlock,
           CloserTimeout, vars
  <1>2. waiters # <<>> /\ Head(waiters) = "router" => router = "waiting"
    <2>1. waiters \in Seq({"router", "closer"})
      BY DEF IInv, TypeOK
    <2>2. waiters # <<>> => 1 \in DOMAIN waiters /\ Head(waiters) = waiters[1]
      BY <2>1
    <2> QED
      BY <2>2 DEF IInv, WaitersAreBlocked
  <1>3. HasRequest' = HasRequest
    BY <1>2 DEF HasRequest, RouterDequeueEmpty, RouterCheckClosed, RouterAcquire, RouterBlock,
           FinishPublish, ReleaseToNobody, ReleaseToRouter, ReleaseToCloser,
           CallClose, CloserStep, DrainDone, DrainTimeout, CloserAcquire, CloserBlock,
           CloserTimeout, vars
  <1> QED
    BY <1>1, <1>3 DEF TakenAccountedFor, Taken, TakenCount, Front, Holding, Elements

(* No request is lost or duplicated on its way from Publish to publishFn,  *)
(* except that Enqueue evicts, whatever happens to Close() meanwhile.      *)
THEOREM Accounting == Spec => []EveryRequestAccountedFor
  <1>1. Init /\ IInv => TakenAccountedFor
    <2> SUFFICES ASSUME Init, IInv PROVE TakenAccountedFor
      OBVIOUS
    <2>1. Front = 0 /\ Taken = {} /\ TakenCount = 0
      <3>1. ~HasRequest /\ Holding = {} /\ Elements(published) = {}
        BY DEF Init, Holding, HasRequest, Elements
      <3>2. Front = 0 /\ Taken = {}
        <4>1. enqueued = 0 /\ Len(queue) \in Nat /\ Len(queue) <= enqueued
          BY DEF Init, IInv, TypeOK, QueueIsSuffix
        <4>2. Front = 0
          BY <4>1 DEF Front
        <4>3. Taken = {}
          BY <3>1 DEF Init, Taken
        <4> QED
          BY <4>2, <4>3
      <3>3. /\ Cardinality(dropped) = 0 /\ Cardinality(spawned) = 0
            /\ Len(published) = 0
        BY FS_EmptySet DEF Init
      <3>4. (IF HasRequest THEN 1 ELSE 0) = 0
        BY <3>1
      <3>5. TakenCount = 0
        BY <3>3, <3>4 DEF TakenCount
      <3> QED
        BY <3>2, <3>5
    <2>2. 1..0 = {}
      OBVIOUS
    <2> QED
      BY <2>1, <2>2 DEF TakenAccountedFor
  <1>2. IInv /\ IInv' /\ TakenAccountedFor /\ [Next]_vars => TakenAccountedFor'
    <2> SUFFICES ASSUME IInv, IInv', TakenAccountedFor, [Next]_vars PROVE TakenAccountedFor'
      OBVIOUS
    <2>1. CASE Publish \/ RouterDequeue
      BY <2>1, TakenFromQueue
    <2>2. CASE RouterSpawn \/ \E r \in Requests : StartPublish(r)
      BY <2>2, TakenMoves
    <2>3. CASE \/ RouterDequeueEmpty \/ RouterCheckClosed \/ RouterAcquire \/ RouterBlock
               \/ \E r \in Requests : FinishPublish(r)
               \/ CallClose \/ CloserStep \/ UNCHANGED vars
      BY <2>3, TakenStays
    <2> QED
      BY <2>1, <2>2, <2>3 DEF Next, RouterStep, WorkerStep
  <1>3. IInv /\ TakenAccountedFor => EveryRequestAccountedFor
    BY TakenSuffices
  <1> QED
    BY Invariance, InitIInv, <1>1, <1>2, <1>3, PTL DEF Spec

=============================================================================
