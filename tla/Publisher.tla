---------------------------- MODULE Publisher ----------------------------
(***************************************************************************)
(* publisher/publisher.go: a routing goroutine takes requests off a lossy  *)
(* FIFO and gives each to publishFn in a goroutine of its own, holding one *)
(* permit of a weighted semaphore; Close() waits for the routing goroutine *)
(* and then asks for every permit.                                         *)
(*                                                                         *)
(* Actors: the callers of Publish, the routing goroutine (router), one     *)
(* goroutine per request taken, and the goroutine inside Close() (closer). *)
(* Requests are the numbers 1, 2, ... in the order Publish enqueued them.  *)
(* Close() is called at most once, as processLogEntry does.                *)
(***************************************************************************)
EXTENDS NonBlockingFifoQueue, FiniteSets

CONSTANTS
    Concurrency,        \* permits of publisherSem
    MaxRequests         \* bound on the number of Publish calls

(* NewPublisher returns an error for a concurrency below 1. *)
ASSUME ConcurrencyAssumption == Concurrency \in Nat \ {0}
ASSUME MaxRequestsAssumption == MaxRequests \in Nat

VARIABLES
    queue,              \* publishQueue: requests not yet taken
    enqueued,           \* number of Publish calls so far
    dropped,            \* history: requests evicted by Enqueue
    closed,             \* Publisher.closed
    router,             \* where startRouting is
    held,               \* the request startRouting took (0: none)
    spawned,            \* goroutines created that have not called publishFn
    running,            \* goroutines inside publishFn
    published,          \* history: requests in the order publishFn was called
    permits,            \* permits of publisherSem in use
    waiters,            \* publisherSem's FIFO of blocked Acquire calls
    closer,             \* where Close() is
    timedOut,           \* waitWithTimeout returned true
    closeMark           \* history: requests enqueued when Close was called

callerVars  == <<queue, enqueued, dropped>>
workerVars  == <<spawned, running, published>>
closerVars  == <<closed, closer, timedOut, closeMark>>
vars == <<callerVars, router, held, workerVars, permits, waiters, closerVars>>

Requests == 1..MaxRequests

-----------------------------------------------------------------------------

Init ==
    /\ queue = <<>> /\ enqueued = 0 /\ dropped = {}
    /\ closed = FALSE
    /\ router = "dequeue" /\ held = 0
    /\ spawned = {} /\ running = {} /\ published = <<>>
    /\ permits = 0 /\ waiters = <<>>
    /\ closer = "idle" /\ timedOut = FALSE /\ closeMark = 0

(* Mutant of Publish: a full queue refuses the new request, not the oldest. *)
PublishRefusedWhenFull ==
    /\ enqueued < MaxRequests
    /\ enqueued' = enqueued + 1
    /\ IF Len(queue) = MaxSize
       THEN dropped' = dropped \cup {enqueued + 1} /\ UNCHANGED queue
       ELSE queue' = Append(queue, enqueued + 1) /\ UNCHANGED dropped
    /\ UNCHANGED <<router, held, workerVars, permits, waiters, closerVars>>

(* Publish enqueues without looking at closed: after Close() it is not the *)
(* no-op publisher.go:20 says it is.                                       *)
Publish ==
    /\ enqueued < MaxRequests
    /\ enqueued' = enqueued + 1
    /\ dropped' = dropped \cup Evicted(queue)
    /\ queue' = Enqueue(queue, enqueued + 1)
    /\ UNCHANGED <<router, held, workerVars, permits, waiters, closerVars>>

-----------------------------------------------------------------------------
(* The routing goroutine. *)

RouterDequeue ==
    /\ router = "dequeue"
    /\ queue # <<>>
    /\ held' = DequeueValue(queue)
    /\ queue' = DequeueRest(queue)
    /\ router' = "acquire"
    /\ UNCHANGED <<enqueued, dropped, workerVars, permits, waiters, closerVars>>

RouterDequeueEmpty ==
    /\ router = "dequeue"
    /\ queue = <<>>
    /\ router' = "check"
    /\ UNCHANGED <<callerVars, held, workerVars, permits, waiters, closerVars>>

(* Mutant of RouterCheckClosed: it ends whenever the queue is empty.       *)
RouterEndsWhenEmpty ==
    /\ router = "check"
    /\ router' = "done"
    /\ UNCHANGED <<callerVars, held, workerVars, permits, waiters, closerVars>>

(* isClosed() is read after the Dequeue, under another lock. *)
RouterCheckClosed ==
    /\ router = "check"
    /\ router' = IF closed THEN "done" ELSE "dequeue"
    /\ UNCHANGED <<callerVars, held, workerVars, permits, waiters, closerVars>>

(* semaphore.Acquire succeeds at once only if nobody is queued before it. *)
CanAcquire(n) == Concurrency - permits >= n /\ waiters = <<>>

RouterAcquire ==
    /\ router = "acquire"
    /\ CanAcquire(1)
    /\ permits' = permits + 1
    /\ router' = "spawn"
    /\ UNCHANGED <<callerVars, held, workerVars, waiters, closerVars>>

(* Mutant of RouterBlock: TryAcquire instead of Acquire, the request lost.  *)
RouterGivesUp ==
    /\ router = "acquire"
    /\ ~CanAcquire(1)
    /\ router' = "dequeue"
    /\ held' = 0
    /\ UNCHANGED <<callerVars, workerVars, permits, waiters, closerVars>>

RouterBlock ==
    /\ router = "acquire"
    /\ ~CanAcquire(1)
    /\ waiters' = Append(waiters, "router")
    /\ router' = "waiting"
    /\ UNCHANGED <<callerVars, held, workerVars, permits, closerVars>>

RouterSpawn ==
    /\ router = "spawn"
    /\ spawned' = spawned \cup {held}
    /\ held' = 0
    /\ router' = "dequeue"
    /\ UNCHANGED <<callerVars, running, published, permits, waiters, closerVars>>

-----------------------------------------------------------------------------
(* The goroutine of one request: publishFn(req), then Release(1). *)

StartPublish(r) ==
    /\ r \in spawned
    /\ spawned' = spawned \ {r}
    /\ running' = running \cup {r}
    /\ published' = Append(published, r)
    /\ UNCHANGED <<callerVars, router, held, permits, waiters, closerVars>>

(* Release gives the freed permit to the first waiter if it then has all   *)
(* it asked for: the router asks for one permit, Close() for all of them.  *)
ReleaseToNobody ==
    /\ waiters # <<>> => Head(waiters) = "closer" /\ permits > 1
    /\ permits' = permits - 1
    /\ UNCHANGED <<router, waiters, closer>>

(* Mutant of ReleaseToRouter: the permit is passed on and freed as well.    *)
ReleaseTwice ==
    /\ waiters # <<>> /\ Head(waiters) = "router"
    /\ waiters' = Tail(waiters)
    /\ router' = "spawn"
    /\ permits' = permits - 1
    /\ UNCHANGED closer

ReleaseToRouter ==
    /\ waiters # <<>> /\ Head(waiters) = "router"
    /\ waiters' = Tail(waiters)
    /\ router' = "spawn"
    /\ UNCHANGED <<permits, closer>>

ReleaseToCloser ==
    /\ waiters # <<>> /\ Head(waiters) = "closer" /\ permits = 1
    /\ waiters' = Tail(waiters)
    /\ permits' = Concurrency
    /\ closer' = "acquired"
    /\ UNCHANGED router

FinishPublish(r) ==
    /\ r \in running
    /\ running' = running \ {r}
    /\ ReleaseToNobody \/ ReleaseToRouter \/ ReleaseToCloser
    /\ UNCHANGED <<callerVars, held, spawned, published,
                   closed, timedOut, closeMark>>

-----------------------------------------------------------------------------
(* Close(). *)

CallClose ==
    /\ closer = "idle"
    /\ closed' = TRUE
    /\ closer' = "draining"
    /\ closeMark' = enqueued
    /\ UNCHANGED <<callerVars, router, held, workerVars, permits, waiters, timedOut>>

(* waitWithTimeout: the wait group is done, or drainTimeout has passed. *)
DrainDone ==
    /\ closer = "draining"
    /\ router = "done"
    /\ closer' = "acquire"
    /\ UNCHANGED <<callerVars, router, held, workerVars, permits, waiters,
                   closed, timedOut, closeMark>>

DrainTimeout ==
    /\ closer = "draining"
    /\ timedOut' = TRUE
    /\ closer' = "acquire"
    /\ UNCHANGED <<callerVars, router, held, workerVars, permits, waiters,
                   closed, closeMark>>

(* Mutant of CloserAcquire: Close() does not wait for publishFn to return.  *)
CloserDoesNotWait ==
    /\ closer = "acquire"
    /\ permits' = Concurrency
    /\ closer' = "acquired"
    /\ UNCHANGED <<callerVars, router, held, workerVars, waiters,
                   closed, timedOut, closeMark>>

(* Acquire(ctx, concurrency): the permits are never released. *)
CloserAcquire ==
    /\ closer = "acquire"
    /\ CanAcquire(Concurrency)
    /\ permits' = permits + Concurrency
    /\ closer' = "acquired"
    /\ UNCHANGED <<callerVars, router, held, workerVars, waiters,
                   closed, timedOut, closeMark>>

CloserBlock ==
    /\ closer = "acquire"
    /\ ~CanAcquire(Concurrency)
    /\ waiters' = Append(waiters, "closer")
    /\ closer' = "waiting"
    /\ UNCHANGED <<callerVars, router, held, workerVars, permits,
                   closed, timedOut, closeMark>>

(* Mutant of CloserTimeout: Close() asks again whenever its context expires. *)
CloserRetries ==
    /\ closer = "waiting"
    /\ waiters' = SelectSeq(waiters, LAMBDA w : w # "closer")
    /\ closer' = "acquire"
    /\ UNCHANGED <<callerVars, router, held, workerVars, permits,
                   closed, timedOut, closeMark>>

(* ctx expires after one second: the waiter leaves, nobody is notified. *)
CloserTimeout ==
    /\ closer = "waiting"
    /\ \E i \in DOMAIN waiters :
        /\ waiters[i] = "closer"
        /\ waiters' = SubSeq(waiters, 1, i - 1) \o SubSeq(waiters, i + 1, Len(waiters))
    /\ closer' = "abandoned"
    /\ UNCHANGED <<callerVars, router, held, workerVars, permits,
                   closed, timedOut, closeMark>>

-----------------------------------------------------------------------------

RouterStep == \/ RouterDequeue \/ RouterDequeueEmpty \/ RouterCheckClosed
              \/ RouterAcquire \/ RouterBlock \/ RouterSpawn

WorkerStep(r) == StartPublish(r) \/ FinishPublish(r)

CloserStep == \/ DrainDone \/ DrainTimeout \/ CloserAcquire
              \/ CloserBlock \/ CloserTimeout

Next == \/ Publish
        \/ RouterStep
        \/ \E r \in Requests : WorkerStep(r)
        \/ CallClose
        \/ CloserStep

Spec == Init /\ [][Next]_vars

(* The goroutines are runnable whenever they are not blocked, Go's         *)
(* scheduler does not starve them, and both timers of Close() fire.  A     *)
(* call of publishFn may hang for ever; nothing obliges a caller to        *)
(* publish or to close.                                                    *)
FairSpec == Spec /\ WF_vars(RouterStep) /\ WF_vars(CloserStep)

(* Every call of publishFn is made and returns.  An assumption, not a fact *)
(* of the code: its retries are bounded (EveryPushEnds in LogClient.tla),  *)
(* but nothing sets a timeout on the calls it makes.                       *)
PublishFnReturns == \A r \in Requests : WF_vars(WorkerStep(r))

-----------------------------------------------------------------------------

Elements(s) == {s[i] : i \in DOMAIN s}
InFlight    == spawned \cup running
HasRequest  == router \in {"acquire", "waiting", "spawn"}
Holding     == IF HasRequest THEN {held} ELSE {}
Returned    == Elements(published) \ running

FlagsOK == closed \in BOOLEAN /\ timedOut \in BOOLEAN

(* The types of the state, and the queue's capacity (maxSize).             *)
TypeOK ==
    /\ enqueued \in 0..MaxRequests
    /\ queue \in Seq(Requests) /\ Len(queue) <= MaxSize
    /\ dropped \subseteq Requests
    /\ FlagsOK
    /\ router \in {"dequeue", "check", "acquire", "waiting", "spawn", "done"}
    /\ held \in 0..MaxRequests
    /\ spawned \subseteq Requests /\ running \subseteq Requests
    /\ published \in Seq(Requests)
    /\ permits \in 0..Concurrency
    /\ waiters \in Seq({"router", "closer"})
    /\ closer \in {"idle", "draining", "acquire", "waiting", "acquired", "abandoned"}
    /\ closeMark \in 0..MaxRequests

PermitsOwned == Cardinality(spawned) + Cardinality(running)
                + (IF router = "spawn" THEN 1 ELSE 0)
                + (IF closer = "acquired" THEN Concurrency ELSE 0)

(* Every permit in use is owned by one goroutine in flight, by the router  *)
(* about to create one, or, all of them, by Close(): so at most            *)
(* Concurrency calls of publishFn overlap.                                 *)
PermitsAccountedFor ==
    /\ permits = PermitsOwned
    /\ Cardinality(InFlight) <= Concurrency

(* With one permit, as NewPusher asks for, publishFn sees the requests in  *)
(* the order they were published and each at most once (the sequence token *)
(* of pushLogEventBatch relies on it).                                     *)
PublishedInOrder ==
    Concurrency = 1 =>
        \A i, j \in DOMAIN published : i < j => published[i] < published[j]

(* No request is lost or duplicated between the goroutines: it is queued,  *)
(* held by the router, waiting to start, given to publishFn once, or was   *)
(* evicted by Enqueue, and only one of these.  Requests published after    *)
(* Close() are no exception: Publish takes them too, though publisher.go:20*)
(* says it does not (PublishAfterCloseIsNoOp in MCPublisher.tla).          *)
EveryRequestAccountedFor ==
    /\ 1..enqueued = dropped \cup Elements(queue) \cup Holding
                     \cup spawned \cup Elements(published)
    /\ enqueued = Cardinality(dropped) + Len(queue) + Cardinality(Holding)
                  + Cardinality(spawned) + Len(published)

(* Enqueue loses only the oldest: the last MaxSize requests published are  *)
(* never among the evicted.                                                *)
NewestNeverDropped == \A r \in dropped : r + MaxSize <= enqueued

(* Once Close() owns every permit no call of publishFn is in progress, and *)
(* none is made afterwards, even if the drain timed out with requests left.*)
QuietAfterClose ==
    [][closer = "acquired" => InFlight = {} /\ published' = published]_vars

(* Close() returns even if publishFn never does: the drain and the wait    *)
(* for the permits both time out.                                          *)
CloseReturns == (closer = "draining") ~> (closer \in {"acquired", "abandoned"})

(* If publishFn returns, every request is eventually answered by it or     *)
(* evicted by newer ones, unless the publisher is closed; and the routing  *)
(* goroutine ends after Close(), unless Close() kept all the permits while *)
(* it held a request.                                                      *)
RequestsServed ==
    PublishFnReturns =>
        /\ \A r \in Requests :
              (r <= enqueued) ~> (r \in Returned \cup dropped \/ closed)
        /\ closed ~> (router = "done" \/ closer = "acquired")

-----------------------------------------------------------------------------
(* What a publisher of one permit promises to the pusher. *)
Abstract == INSTANCE LossyFifo WITH
    offered <- enqueued, delivered <- published, stopped <- closer = "acquired"

(* Publisher implements LossyFifo: publisher.go seen from outside is a     *)
(* FIFO that may skip values, delivers none twice and none after a stop.   *)
ImplementsLossyFifo == Abstract!Spec

=============================================================================
