------------------------------ MODULE Pusher ------------------------------
(***************************************************************************)
(* pusher.go: callers send log events into logEventChan; processLogEntry   *)
(* gathers them into the current batch and sends full or old batches into  *)
(* pushChan; push hands each batch to the publisher (Publisher.tla).       *)
(*                                                                         *)
(* Both goroutines also select on shutdownChan.  processLogEntry blocks    *)
(* when pushChan is full.  Log events are numbered in the order they enter *)
(* logEventChan; added keeps what each was when it was sent.               *)
(***************************************************************************)
EXTENDS LogEventBatch, PusherPort, SequencesExt

CONSTANTS
    ForceFlushInterval,
    LogEventChanSize,       \* logEventChanBufferSize
    PushChanSize,           \* logEventBatchPushChanBufferSize
    EventKinds,             \* the log events callers may add
    StartTime,              \* the time newPusher runs
    MaxNow,                 \* bound on the clock
    MaxEvents,              \* bound on the number of events added
    LastArrival             \* no event is added after this time

(* time.NewTicker panics on an interval that is not positive.  The clock   *)
(* starts more than MaxAge after time 0 (the Unix epoch).                  *)
ASSUME PusherAssumption ==
    /\ ForceFlushInterval \in Nat \ {0}
    /\ LogEventChanSize \in Nat \ {0} /\ PushChanSize \in Nat \ {0}
    /\ EventKinds \subseteq [timestamp : Int, length : Nat, multiLineStart : BOOLEAN,
                             logGeneratedTime : Int]
    /\ StartTime \in Nat /\ StartTime > MaxAge
    /\ MaxNow \in Nat /\ StartTime <= MaxNow
    /\ MaxEvents \in Nat /\ LastArrival \in Nat

VARIABLES
    now,                    \* time.Now()
    tick,                   \* pushTicker.C holds a tick
    added,                  \* history: every log event sent to logEventChan
    logEventChan,           \* numbers of the events not yet received
    logEventBatch,          \* the current batch
    process,                \* where processLogEntry is
    pending,                \* the event addLogEvent holds while it blocks
    curLineTruncated,
    lastAccurateTimestamp,
    accepted,               \* history: the events addLogEvent took, and when
    pushChan,               \* batches sent, not yet received by push
    push,                   \* where push is
    handed,                 \* history: batches given to publisher.Publish
    shutdown                \* shutdownChan is closed

clockVars   == <<now, tick>>
callerVars  == <<added, shutdown>>
lineVars    == <<curLineTruncated, lastAccurateTimestamp>>
batchVars   == <<logEventBatch, accepted>>
pushVars    == <<push, handed>>
vars == <<clockVars, callerVars, logEventChan, process, pending, lineVars,
          batchVars, pushChan, pushVars>>

-----------------------------------------------------------------------------

Init ==
    /\ now = StartTime /\ tick = FALSE
    /\ added = <<>> /\ shutdown = FALSE
    /\ logEventChan = <<>>
    /\ process = "select" /\ pending = {}
    /\ curLineTruncated = FALSE /\ lastAccurateTimestamp = 0
    /\ logEventBatch = NewLogEventBatch(StartTime) /\ accepted = <<>>
    /\ pushChan = <<>>
    /\ push = "select" /\ handed = <<>>

(* Mutant of AddLogEntry: the send does not wait for room.                 *)
AddLogEntryUnbuffered ==
    /\ Len(added) < MaxEvents /\ now <= LastArrival
    /\ \E kind \in EventKinds : added' = Append(added, kind)
    /\ logEventChan' = Append(logEventChan, Len(added) + 1)
    /\ UNCHANGED <<clockVars, shutdown, process, pending, lineVars, batchVars,
                   pushChan, pushVars>>

(* AddLogEntry: a blocking send. *)
AddLogEntry ==
    /\ Len(added) < MaxEvents /\ now <= LastArrival
    /\ Len(logEventChan) < LogEventChanSize
    /\ \E kind \in EventKinds : added' = Append(added, kind)
    /\ logEventChan' = Append(logEventChan, Len(added) + 1)
    /\ UNCHANGED <<clockVars, shutdown, process, pending, lineVars, batchVars,
                   pushChan, pushVars>>

(* The exporter closes shutdownChan. *)
CloseShutdownChan ==
    /\ ~shutdown
    /\ shutdown' = TRUE
    /\ UNCHANGED <<clockVars, added, logEventChan, process, pending, lineVars,
                   batchVars, pushChan, pushVars>>

(* One unit of time passes; the ticker drops a tick nobody has received.   *)
Tick ==
    /\ now < MaxNow
    /\ now' = now + 1
    /\ tick' = (tick \/ (now' - StartTime) % ForceFlushInterval = 0)
    /\ UNCHANGED <<callerVars, logEventChan, process, pending, lineVars, batchVars,
                   pushChan, pushVars>>

-----------------------------------------------------------------------------
(* processLogEntry. *)

Kind == added[Head(logEventChan)]

IsContinuationOfTruncated == ~Kind.multiLineStart /\ curLineTruncated

(* The event as addLogEvent sees it: cut to size, its timestamp filled in. *)
Received ==
    [id |-> Head(logEventChan),
     length |-> Truncated(Kind.length),
     timestamp |-> IF Kind.timestamp # 0 THEN Kind.timestamp
                   ELSE IF lastAccurateTimestamp # 0 THEN lastAccurateTimestamp
                   ELSE Kind.logGeneratedTime]

ReceiveLogEvent ==
    /\ process = "select"
    /\ logEventChan # <<>>
    /\ logEventChan' = Tail(logEventChan)

(* Mutant of UpdateLine: an event without a timestamp clears the last one. *)
UpdateLineAlways ==
    /\ curLineTruncated' = IsTooLong(Kind.length)
    /\ lastAccurateTimestamp' = Kind.timestamp

UpdateLine ==
    /\ curLineTruncated' = IsTooLong(Kind.length)
    /\ lastAccurateTimestamp' =
         IF Kind.timestamp # 0 THEN Kind.timestamp ELSE lastAccurateTimestamp

NeedsNewBatch(e) ==
    \/ IsExpired(logEventBatch, now, ForceFlushInterval)
    \/ IsFull(logEventBatch)
    \/ DoesNotFit(logEventBatch, e)

(* Mutant of DiscardContinuation: the flag is recomputed from the          *)
(* continuation, so that only one is discarded.                            *)
DiscardOneContinuation ==
    /\ ReceiveLogEvent
    /\ IsContinuationOfTruncated
    /\ UpdateLine
    /\ UNCHANGED <<clockVars, callerVars, process, pending, batchVars, pushChan,
                   pushVars>>

DiscardContinuation ==
    /\ ReceiveLogEvent
    /\ IsContinuationOfTruncated
    /\ UNCHANGED <<clockVars, callerVars, process, pending, lineVars, batchVars,
                   pushChan, pushVars>>

RefuseLogEvent ==
    /\ ReceiveLogEvent
    /\ ~IsContinuationOfTruncated
    /\ UpdateLine
    /\ ~IsAcceptable(Received, now)
    /\ UNCHANGED <<clockVars, callerVars, process, pending, batchVars, pushChan, pushVars>>

(* Mutant of AcceptInto: a batch's age is counted from its last event.     *)
AcceptAndRefresh(batch, e) ==
    logEventBatch' = [AddLogEvent(batch, e) EXCEPT !.creationTime = now]

AcceptInto(batch, e) == logEventBatch' = AddLogEvent(batch, e)

RecordAccepted == accepted' = Append(accepted, [id |-> Received.id, at |-> now])

AcceptLogEvent ==
    /\ ReceiveLogEvent
    /\ ~IsContinuationOfTruncated
    /\ UpdateLine
    /\ IsAcceptable(Received, now)
    /\ ~NeedsNewBatch(Received)
    /\ AcceptInto(logEventBatch, Received)
    /\ RecordAccepted
    /\ UNCHANGED <<clockVars, callerVars, process, pending, pushChan, pushVars>>

(* The batch must go first: the send on pushChan may block. *)
AcceptAfterPush ==
    /\ ReceiveLogEvent
    /\ ~IsContinuationOfTruncated
    /\ UpdateLine
    /\ IsAcceptable(Received, now)
    /\ NeedsNewBatch(Received)
    /\ process' = "send"
    /\ pending' = {Received}
    /\ RecordAccepted
    /\ UNCHANGED <<clockVars, callerVars, logEventBatch, pushChan, pushVars>>

(* Mutant of ReceiveTick: only a full batch is sent.                       *)
ReceiveTickIfFull ==
    /\ process = "select"
    /\ tick
    /\ tick' = FALSE
    /\ process' = IF IsFull(logEventBatch) THEN "send" ELSE "select"
    /\ UNCHANGED <<now, callerVars, logEventChan, pending, lineVars, batchVars,
                   pushChan, pushVars>>

(* A tick: newLogEventBatchIfNeeded(nil). *)
ReceiveTick ==
    /\ process = "select"
    /\ tick
    /\ tick' = FALSE
    /\ process' = IF \/ IsExpired(logEventBatch, now, ForceFlushInterval)
                     \/ IsFull(logEventBatch)
                  THEN "send" ELSE "select"
    /\ UNCHANGED <<now, callerVars, logEventChan, pending, lineVars, batchVars,
                   pushChan, pushVars>>

(* Mutant of SendBatch: the new batch begins without the event that waited. *)
SendBatchOnly ==
    /\ process = "send"
    /\ Len(pushChan) < PushChanSize
    /\ pushChan' = Append(pushChan, logEventBatch)
    /\ process' = "select"
    /\ pending' = {}
    /\ logEventBatch' = NewLogEventBatch(now)
    /\ UNCHANGED <<clockVars, callerVars, logEventChan, lineVars, accepted, pushVars>>

(* The send succeeds; a new batch begins, with the event that waited.      *)
SendBatch ==
    /\ process = "send"
    /\ Len(pushChan) < PushChanSize
    /\ pushChan' = Append(pushChan, logEventBatch)
    /\ process' = "select"
    /\ pending' = {}
    /\ \/ pending = {} /\ logEventBatch' = NewLogEventBatch(now)
       \/ \E e \in pending : AcceptInto(NewLogEventBatch(now), e)
    /\ UNCHANGED <<clockVars, callerVars, logEventChan, lineVars, accepted, pushVars>>

(* publisher.Close() runs to its end before wg.Done().                     *)
ReceiveShutdown ==
    /\ process = "select"
    /\ shutdown
    /\ process' = "closing"
    /\ UNCHANGED <<clockVars, callerVars, logEventChan, pending, lineVars, batchVars,
                   pushChan, pushVars>>

(* Mutant of PublisherClosed: break, which leaves the select, for return.  *)
PublisherClosedBreak ==
    /\ process = "closing"
    /\ process' = "select"
    /\ UNCHANGED <<clockVars, callerVars, logEventChan, pending, lineVars, batchVars,
                   pushChan, pushVars>>

PublisherClosed ==
    /\ process = "closing"
    /\ process' = "done"
    /\ UNCHANGED <<clockVars, callerVars, logEventChan, pending, lineVars, batchVars,
                   pushChan, pushVars>>

-----------------------------------------------------------------------------
(* push: Publish never blocks. *)

PushBatch ==
    /\ push = "select"
    /\ pushChan # <<>>
    /\ pushChan' = Tail(pushChan)
    /\ handed' = Append(handed, Head(pushChan))
    /\ UNCHANGED <<clockVars, callerVars, logEventChan, process, pending, lineVars,
                   batchVars, push>>

PushShutdown ==
    /\ push = "select"
    /\ shutdown
    /\ push' = "done"
    /\ UNCHANGED <<clockVars, callerVars, logEventChan, process, pending, lineVars,
                   batchVars, pushChan, handed>>

-----------------------------------------------------------------------------

ProcessStep ==
    \/ DiscardContinuation \/ RefuseLogEvent \/ AcceptLogEvent \/ AcceptAfterPush
    \/ ReceiveTick \/ SendBatch \/ ReceiveShutdown \/ PublisherClosed

PushStep == PushBatch \/ PushShutdown

Next == AddLogEntry \/ CloseShutdownChan \/ Tick \/ ProcessStep \/ PushStep

Spec == Init /\ [][Next]_vars

(* A prompt pusher: its goroutines handle what is ready in less than one   *)
(* unit of time, which is how flush intervals of seconds meet steps of     *)
(* microseconds.                                                           *)
Idle ==
    /\ process = "select" => ~tick /\ ~shutdown /\ logEventChan = <<>>
    /\ process = "send" => Len(pushChan) = PushChanSize
    /\ process # "closing"
    /\ push = "select" => ~shutdown /\ pushChan = <<>>

PromptNext == AddLogEntry \/ CloseShutdownChan \/ (Idle /\ Tick) \/ ProcessStep \/ PushStep

PromptSpec == Init /\ [][PromptNext]_vars

(* Runnable goroutines run (Go's scheduler), time passes, and             *)
(* publisher.Close() returns (CloseReturns in Publisher.tla).              *)
FairSpec ==
    /\ PromptSpec
    /\ WF_vars(ProcessStep) /\ WF_vars(PushStep) /\ WF_vars(Idle /\ Tick)

-----------------------------------------------------------------------------

AcceptedRecord == [id : Nat, at : Nat]

FlagsOK ==
    tick \in BOOLEAN /\ shutdown \in BOOLEAN /\ curLineTruncated \in BOOLEAN

(* The types of the state, the channels within their buffers.              *)
TypeOK ==
    /\ now \in StartTime..MaxNow
    /\ FlagsOK
    /\ added \in Seq(EventKinds)
    /\ logEventChan \in Seq(1..Len(added)) /\ Len(logEventChan) <= LogEventChanSize
    /\ logEventBatch \in Batch
    /\ process \in {"select", "send", "closing", "done"}
    /\ pending \in SUBSET Event
    /\ lastAccurateTimestamp \in Int
    /\ accepted \in Seq(AcceptedRecord)
    /\ pushChan \in Seq(Batch) /\ Len(pushChan) <= PushChanSize
    /\ push \in {"select", "done"}
    /\ handed \in Seq(Batch)

(* What CloudWatch Logs accepts in one request: neither empty nor over the *)
(* number of events, no event and no total over its size, no two events    *)
(* more than 24 hours apart.                                               *)
WithinLimits(b) ==
    /\ Len(b.logEvents) \in 1..MaxRequestEventCount
    /\ b.byteTotal <= MaxRequestPayloadBytes
    /\ \A i \in DOMAIN b.logEvents :
          EventPayloadBytes(b.logEvents[i].length) <= MaxEventPayloadBytes
    /\ \A i, j \in DOMAIN b.logEvents :
          b.logEvents[i].timestamp - b.logEvents[j].timestamp <= Day

(* Every batch given to the publisher is a request the service can accept, *)
(* whatever the order of events, ticks, blocked sends and flushes.         *)
RequestsWithinLimits == \A i \in DOMAIN handed : WithinLimits(handed[i])

Batches == handed \o pushChan \o <<logEventBatch>>

PayloadBytes(events) ==
    LET sum[n \in 0..Len(events)] ==
          IF n = 0 THEN 0 ELSE sum[n - 1] + EventPayloadBytes(events[n].length)
    IN  sum[Len(events)]

(* The counter the size limit is enforced with is the size of the events.  *)
ByteTotalIsSum ==
    \A i \in DOMAIN Batches : Batches[i].byteTotal = PayloadBytes(Batches[i].logEvents)

EventIds(b) == [j \in DOMAIN b.logEvents |-> b.logEvents[j].id]

(* The events of batches, one batch after the other.                       *)
BatchIds(batches) == FlattenSeq([i \in DOMAIN batches |-> EventIds(batches[i])])

(* No accepted event is lost, duplicated or overtaken on its way: the      *)
(* batches handed over, the batches in pushChan, the current batch and the *)
(* event waiting for its send (addLogEvent) together are the accepted      *)
(* events, in the order they were added.                                   *)
AcceptedInOrder ==
    LET ids     == BatchIds(Batches)
        waiting == SetToSeq({e.id : e \in pending})
    IN  /\ ids \o waiting = [i \in DOMAIN accepted |-> accepted[i].id]
        /\ \A i, j \in DOMAIN ids : i < j => ids[i] < ids[j]

(* Event m continues a line of which an earlier event was too long.        *)
ContinuesTruncatedLine(m) ==
    /\ ~added[m].multiLineStart
    /\ \E t \in 1..(m - 1) : /\ IsTooLong(added[t].length)
                             /\ \A s \in (t + 1)..(m - 1) : ~added[s].multiLineStart

(* Once an event of a line is cut, the rest of the line is discarded: up   *)
(* to the next event that starts a line, whatever is refused in between.   *)
TruncatedLineEnds ==
    \A i \in DOMAIN accepted : ~ContinuesTruncatedLine(accepted[i].id)

Stamped(m) == added[m].timestamp # 0 /\ ~ContinuesTruncatedLine(m)

(* An event without a timestamp takes that of the latest event before it   *)
(* that had one and was not discarded as a continuation (even one refused  *)
(* for its age), or else the time it was generated.                        *)
TimestampsFilledIn ==
    \A i \in DOMAIN Batches : \A j \in DOMAIN Batches[i].logEvents :
        LET e      == Batches[i].logEvents[j]
            before == {m \in 1..e.id : Stamped(m)}
        IN  e.timestamp = IF before = {} THEN added[e.id].logGeneratedTime
                          ELSE added[Max(before)].timestamp

-----------------------------------------------------------------------------

HandedCount == Len(BatchIds(handed))

WaitingAtMost(limit) ==
    ~shutdown => \A i \in (HandedCount + 1)..Len(accepted) :
                    now - accepted[i].at <= limit

(* In a prompt pusher an accepted event waits at most two flush intervals  *)
(* for its batch to be handed over: the tick that finds its batch exactly  *)
(* one interval old does not flush it.                                     *)
FlushedWithinTwoIntervals == WaitingAtMost(2 * ForceFlushInterval)

(* Every accepted event is handed to the publisher, unless the exporter is *)
(* shut down first.                                                        *)
AcceptedIsHanded ==
    \A n \in 1..MaxEvents :
        (n <= Len(accepted)) ~> (n <= HandedCount \/ shutdown)

(* processLogEntry blocked on a channel that nobody receives from.         *)
Wedged == process = "send" /\ push = "done" /\ Len(pushChan) = PushChanSize

(* After shutdownChan is closed, processLogEntry ends or is wedged.        *)
ShutdownEndsOrWedges == shutdown ~> (process = "done" \/ Wedged)

-----------------------------------------------------------------------------

PortProcess ==
    CASE Wedged -> "wedged"
      [] ~Wedged /\ process \in {"select", "send"} -> "running"
      [] OTHER -> process

Port == [queued |-> Len(logEventChan), process |-> PortProcess]

(* A pusher does to its callers and to Shutdown no more than PusherPort    *)
(* allows: it may be wedged from any moment after shutdownChan is closed,  *)
(* but not before, and what is done, closing or wedged receives no event.  *)
ImplementsPusherPort ==
    /\ Port = NewPort
    /\ [][Port' \in {Port} \cup AfterStep(Port, LogEventChanSize, shutdown)]_vars

=============================================================================
