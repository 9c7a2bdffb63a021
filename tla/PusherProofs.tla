-------------------------- MODULE PusherProofs --------------------------
(***************************************************************************)
(* Theorems about Pusher for every limit, channel size, flush interval and *)
(* kind of event.  The inductive invariant is about one batch: what the    *)
(* three guards of newLogEventBatchIfNeeded keep true of it while events   *)
(* are appended, and that a batch sent to pushChan holds an event.         *)
(***************************************************************************)
EXTENDS Pusher, TLAPS

(* An event addLogEvent may append: cut to size, with a timestamp that is  *)
(* set (an acceptable one is later than MaxAge before the clock's start).  *)
GoodEvent(e) ==
    /\ EventPayloadBytes(e.length) <= MaxEventPayloadBytes
    /\ e.timestamp > 0

GoodBatch(b) ==
    /\ Len(b.logEvents) <= MaxRequestEventCount
    /\ b.byteTotal <= MaxRequestPayloadBytes
    /\ \A i \in 1..Len(b.logEvents) :
        /\ GoodEvent(b.logEvents[i])
        /\ b.minTimestampInMillis <= b.logEvents[i].timestamp
        /\ b.logEvents[i].timestamp <= b.maxTimestampInMillis
    /\ Len(b.logEvents) = 0 => /\ b.byteTotal = 0
                               /\ b.minTimestampInMillis = 0
                               /\ b.maxTimestampInMillis = 0
    /\ Len(b.logEvents) > 0 => /\ b.minTimestampInMillis > 0
                               /\ b.minTimestampInMillis <= b.maxTimestampInMillis
                               /\ b.maxTimestampInMillis - b.minTimestampInMillis <= Day

CurrentBatchOK ==
    /\ GoodBatch(logEventBatch)
    /\ process = "send" => Len(logEventBatch.logEvents) > 0
    /\ \A e \in pending : GoodEvent(e)

SentBatchesOK ==
    /\ \A i \in 1..Len(pushChan) : WithinLimits(pushChan[i])
    /\ \A i \in 1..Len(handed) : WithinLimits(handed[i])

IInv == TypeOK /\ CurrentBatchOK /\ SentBatchesOK

-----------------------------------------------------------------------------
(* Lemmas about batches. *)

(* A new batch is good and takes any good event. *)
LEMMA NewBatchGood ==
    ASSUME NEW t \in Nat
    PROVE  /\ NewLogEventBatch(t) \in Batch
           /\ GoodBatch(NewLogEventBatch(t))
           /\ ~IsFull(NewLogEventBatch(t))
           /\ \A e \in Event : GoodEvent(e) => ~DoesNotFit(NewLogEventBatch(t), e)
  <1> USE LimitsAssumption DEF NewLogEventBatch
  <1>1. <<>> \in Seq(Event) /\ Len(<<>>) = 0
    OBVIOUS
  <1>2. NewLogEventBatch(t) \in Batch
    BY <1>1 DEF Batch
  <1>3. GoodBatch(NewLogEventBatch(t))
    BY <1>1 DEF GoodBatch
  <1>4. ~IsFull(NewLogEventBatch(t))
    BY <1>1 DEF IsFull
  <1>5. ASSUME NEW e \in Event, GoodEvent(e)
        PROVE  ~DoesNotFit(NewLogEventBatch(t), e)
    BY <1>5 DEF DoesNotFit, TimestampWithin24Hours, GoodEvent, Event, EventPayloadBytes
  <1> QED
    BY <1>2, <1>3, <1>4, <1>5

(* The three guards are enough: appending a good event that fits keeps a   *)
(* batch that is not full good.                                            *)
LEMMA AddLogEventGood ==
    ASSUME NEW b \in Batch, GoodBatch(b), NEW e \in Event, GoodEvent(e),
           ~IsFull(b), ~DoesNotFit(b, e)
    PROVE  AddLogEvent(b, e) \in Batch /\ GoodBatch(AddLogEvent(b, e))
  <1> DEFINE c   == AddLogEvent(b, e)
             min == b.minTimestampInMillis
             max == b.maxTimestampInMillis
  <1> USE LimitsAssumption
  <1>1. /\ b.logEvents \in Seq(Event) /\ b.byteTotal \in Nat /\ b.creationTime \in Nat
        /\ min \in Int /\ max \in Int
        /\ e.timestamp \in Int /\ e.length \in Nat
    BY DEF Batch, Event
  <1>2. /\ c.logEvents = Append(b.logEvents, e)
        /\ c.byteTotal = b.byteTotal + EventPayloadBytes(e.length)
        /\ c.minTimestampInMillis = (IF min = 0 \/ min > e.timestamp THEN e.timestamp ELSE min)
        /\ c.maxTimestampInMillis = (IF max = 0 \/ max < e.timestamp THEN e.timestamp ELSE max)
    BY DEF AddLogEvent, Batch
  <1> HIDE DEF c
  <1>3. /\ c.logEvents \in Seq(Event)
        /\ Len(c.logEvents) = Len(b.logEvents) + 1
        /\ Len(b.logEvents) \in Nat
        /\ c.logEvents[Len(c.logEvents)] = e
        /\ \A i \in 1..Len(b.logEvents) : c.logEvents[i] = b.logEvents[i]
    BY <1>1, <1>2
  <1>4. EventPayloadBytes(e.length) \in Nat
    BY <1>1 DEF EventPayloadBytes
  <1>5. c.minTimestampInMillis \in Int /\ c.maxTimestampInMillis \in Int
    BY <1>1, <1>2
  <1>6. c \in Batch
    <2>1. c.byteTotal \in Nat
      BY <1>1, <1>2, <1>4
    <2>2. c = [b EXCEPT !.logEvents = c.logEvents, !.byteTotal = c.byteTotal,
                        !.minTimestampInMillis = c.minTimestampInMillis,
                        !.maxTimestampInMillis = c.maxTimestampInMillis]
      BY <1>2 DEF c, AddLogEvent
    <2> QED
      BY <1>3, <1>5, <2>1, <2>2 DEF Batch
  <1>7. Len(c.logEvents) <= MaxRequestEventCount /\ Len(c.logEvents) > 0
    BY <1>3 DEF IsFull, GoodBatch
  <1>8. c.byteTotal <= MaxRequestPayloadBytes
    BY <1>1, <1>2, <1>4 DEF DoesNotFit
  <1>9. /\ 0 < c.minTimestampInMillis
        /\ c.minTimestampInMillis <= e.timestamp /\ e.timestamp <= c.maxTimestampInMillis
        /\ c.maxTimestampInMillis - c.minTimestampInMillis <= Day
        /\ Len(b.logEvents) > 0 => /\ c.minTimestampInMillis <= min
                                   /\ max <= c.maxTimestampInMillis
    <2>1. e.timestamp > 0
      BY DEF GoodEvent
    <2>2. CASE Len(b.logEvents) = 0
      <3>1. min = 0 /\ max = 0
        BY <2>2 DEF GoodBatch
      <3> QED
        BY <1>1, <1>2, <2>1, <2>2, <3>1
    <2>3. CASE Len(b.logEvents) > 0
      <3>1. min > 0 /\ min <= max /\ max - min <= Day
        BY <2>3 DEF GoodBatch
      <3>2. e.timestamp - min <= Day /\ max - e.timestamp <= Day
        BY <1>1, <3>1 DEF DoesNotFit, TimestampWithin24Hours
      <3> QED
        BY <1>1, <1>2, <2>1, <3>1, <3>2
    <2> QED
      BY <1>3, <2>2, <2>3
  <1>10. ASSUME NEW i \in 1..Len(c.logEvents)
         PROVE  /\ GoodEvent(c.logEvents[i])
                /\ c.minTimestampInMillis <= c.logEvents[i].timestamp
                /\ c.logEvents[i].timestamp <= c.maxTimestampInMillis
    <2>1. CASE i = Len(c.logEvents)
      BY <1>3, <1>9, <2>1
    <2>2. CASE i \in 1..Len(b.logEvents)
      <3>1. /\ GoodEvent(b.logEvents[i])
            /\ min <= b.logEvents[i].timestamp /\ b.logEvents[i].timestamp <= max
        BY <2>2 DEF GoodBatch
      <3>2. b.logEvents[i] \in Event
        BY <1>1, <2>2
      <3>3. b.logEvents[i].timestamp \in Int
        BY <3>2 DEF Event
      <3>4. /\ c.minTimestampInMillis <= min /\ max <= c.maxTimestampInMillis
        BY <1>3, <1>9, <2>2
      <3>5. c.logEvents[i] = b.logEvents[i]
        BY <1>3, <2>2
      <3> HIDE DEF min, max
      <3>6. PICK t \in Int : t = b.logEvents[i].timestamp
        BY <3>3
      <3>7. c.minTimestampInMillis <= t /\ t <= c.maxTimestampInMillis
        BY <1>1, <1>5, <3>1, <3>4, <3>6
      <3> QED
        BY <3>1, <3>5, <3>6, <3>7
    <2>3. i = Len(c.logEvents) \/ i \in 1..Len(b.logEvents)
      BY <1>3
    <2> QED
      BY <2>1, <2>2, <2>3
  <1>11. GoodBatch(c)
    <2>1. c.minTimestampInMillis <= c.maxTimestampInMillis
      BY <1>1, <1>5, <1>9
    <2>2. Len(c.logEvents) # 0
      BY <1>7
    <2> QED
      BY <1>7, <1>8, <1>9, <1>10, <2>1, <2>2 DEF GoodBatch
  <1> QED
    BY <1>6, <1>11 DEF c

(* A good batch with an event is a request the service accepts. *)
LEMMA GoodBatchWithinLimits ==
    ASSUME NEW b \in Batch, GoodBatch(b), Len(b.logEvents) > 0
    PROVE  WithinLimits(b)
  <1>1. b.logEvents \in Seq(Event) /\ b.minTimestampInMillis \in Int
        /\ b.maxTimestampInMillis \in Int
    BY DEF Batch
  <1>2. Len(b.logEvents) \in 1..MaxRequestEventCount
    BY <1>1, LimitsAssumption DEF GoodBatch
  <1>3. ASSUME NEW i \in DOMAIN b.logEvents
        PROVE  /\ EventPayloadBytes(b.logEvents[i].length) <= MaxEventPayloadBytes
               /\ b.logEvents[i].timestamp \in Int
               /\ b.minTimestampInMillis <= b.logEvents[i].timestamp
               /\ b.logEvents[i].timestamp <= b.maxTimestampInMillis
    <2>1. i \in 1..Len(b.logEvents) /\ b.logEvents[i] \in Event
      BY <1>1
    <2> QED
      BY <2>1 DEF GoodBatch, GoodEvent, Event
  <1>4. b.maxTimestampInMillis - b.minTimestampInMillis <= Day
    BY DEF GoodBatch
  <1>5. ASSUME NEW i \in DOMAIN b.logEvents, NEW j \in DOMAIN b.logEvents
        PROVE  b.logEvents[i].timestamp - b.logEvents[j].timestamp <= Day
    BY <1>1, <1>3, <1>4, LimitsAssumption
  <1> QED
    BY <1>2, <1>3, <1>5 DEF WithinLimits, GoodBatch

(* A batch that has to go before the next event holds at least one event.  *)
LEMMA PushedBatchNotEmpty ==
    ASSUME NEW b \in Batch, GoodBatch(b), NEW t \in Nat,
           \/ IsExpired(b, t, ForceFlushInterval)
           \/ IsFull(b)
           \/ \E e \in Event : GoodEvent(e) /\ DoesNotFit(b, e)
    PROVE  Len(b.logEvents) > 0
  <1>1. b.logEvents \in Seq(Event) /\ Len(b.logEvents) \in Nat
    BY DEF Batch
  <1> SUFFICES ASSUME Len(b.logEvents) = 0 PROVE FALSE
    BY <1>1
  <1>2. b.byteTotal = 0 /\ b.minTimestampInMillis = 0
    BY DEF GoodBatch
  <1>3. ~IsExpired(b, t, ForceFlushInterval) /\ ~IsFull(b)
    BY <1>2, LimitsAssumption DEF IsExpired, IsFull
  <1>4. ASSUME NEW e \in Event, GoodEvent(e) PROVE ~DoesNotFit(b, e)
    BY <1>2, <1>4, LimitsAssumption
    DEF DoesNotFit, TimestampWithin24Hours, GoodEvent, Event, EventPayloadBytes
  <1> QED
    BY <1>3, <1>4

-----------------------------------------------------------------------------
(* Lemmas about the event processLogEntry receives. *)

LEMMA ReceivedIsEvent ==
    ASSUME TypeOK, logEventChan # <<>>
    PROVE  /\ Received \in Event
           /\ EventPayloadBytes(Received.length) <= MaxEventPayloadBytes
           /\ IsAcceptable(Received, now) => GoodEvent(Received)
           /\ Tail(logEventChan) \in Seq(1..Len(added))
           /\ Len(Tail(logEventChan)) <= LogEventChanSize
           /\ Kind.timestamp \in Int
  <1> USE LimitsAssumption, PusherAssumption
  <1>1. /\ logEventChan \in Seq(1..Len(added)) /\ Len(logEventChan) <= LogEventChanSize
        /\ added \in Seq(EventKinds) /\ lastAccurateTimestamp \in Int
        /\ now \in StartTime..MaxNow
    BY DEF TypeOK
  <1>2. /\ Head(logEventChan) \in 1..Len(added)
        /\ Tail(logEventChan) \in Seq(1..Len(added))
        /\ Len(Tail(logEventChan)) <= LogEventChanSize
    <2>1. PICK N : N = 1..Len(added)
      OBVIOUS
    <2>2. PICK s \in Seq(N) : s = logEventChan
      BY <1>1, <2>1
    <2>3. s # <<>> /\ Len(s) <= LogEventChanSize
      BY <1>1, <2>2
    <2>4. Head(s) \in N /\ Tail(s) \in Seq(N) /\ Len(Tail(s)) = Len(s) - 1 /\ Len(s) \in Nat
      BY <2>3
    <2> QED
      BY <2>1, <2>2, <2>3, <2>4
  <1>3. Kind \in EventKinds
    <2>1. \A i \in 1..Len(added) : added[i] \in EventKinds
      BY <1>1
    <2> QED
      BY <1>2, <2>1 DEF Kind
  <1>4. /\ Kind.timestamp \in Int /\ Kind.length \in Nat /\ Kind.logGeneratedTime \in Int
    BY <1>3
  <1>5. /\ Truncated(Kind.length) \in Nat
        /\ EventPayloadBytes(Truncated(Kind.length)) <= MaxEventPayloadBytes
    BY <1>4 DEF Truncated, IsTooLong, EventPayloadBytes
  <1>6. Received.timestamp \in Int
    BY <1>1, <1>4 DEF Received
  <1>7. Received \in Event /\ Received.length = Truncated(Kind.length)
    <2>1. /\ Received = [id |-> Head(logEventChan), length |-> Truncated(Kind.length),
                         timestamp |-> Received.timestamp]
          /\ Received.length = Truncated(Kind.length)
      BY DEF Received
    <2>2. Head(logEventChan) \in Nat
      <3>1. Len(added) \in Nat
        BY <1>1
      <3> QED
        BY <1>2, <3>1
    <2>3. PICK k \in Nat, l \in Nat, t \in Int :
             k = Head(logEventChan) /\ l = Truncated(Kind.length) /\ t = Received.timestamp
      BY <1>5, <1>6, <2>2
    <2>4. [id |-> k, length |-> l, timestamp |-> t] \in Event
      BY DEF Event
    <2> QED
      BY <2>1, <2>3, <2>4
  <1>8. ASSUME IsAcceptable(Received, now) PROVE Received.timestamp > 0
    <2>1. now - Received.timestamp <= MaxAge
      BY <1>8 DEF IsAcceptable
    <2>2. now \in Int /\ now > MaxAge /\ MaxAge \in Int
      BY <1>1
    <2> HIDE PusherAssumption, LimitsAssumption
    <2> QED
      BY <1>6, <2>1, <2>2
  <1> QED
    BY <1>2, <1>4, <1>5, <1>7, <1>8 DEF GoodEvent

(* Appending to and taking from a sequence, elementwise. *)
LEMMA AppendKeeps ==
    ASSUME NEW S, NEW s \in Seq(S), NEW e \in S
    PROVE  /\ Append(s, e) \in Seq(S) /\ Len(Append(s, e)) = Len(s) + 1
           /\ \A i \in 1..Len(Append(s, e)) :
                 \/ i \in 1..Len(s) /\ Append(s, e)[i] = s[i]
                 \/ i = Len(s) + 1 /\ Append(s, e)[i] = e
  OBVIOUS

LEMMA TailKeeps ==
    ASSUME NEW S, NEW s \in Seq(S), s # <<>>
    PROVE  /\ Tail(s) \in Seq(S) /\ Len(Tail(s)) = Len(s) - 1
           /\ Head(s) \in S /\ Head(s) = s[1] /\ 1 \in 1..Len(s)
           /\ \A i \in 1..Len(Tail(s)) : i + 1 \in 1..Len(s) /\ Tail(s)[i] = s[i + 1]
  OBVIOUS

-----------------------------------------------------------------------------

LEMMA InitIInv == Init => IInv
  <1> SUFFICES ASSUME Init PROVE IInv
    OBVIOUS
  <1> USE PusherAssumption, LimitsAssumption DEF Init
  <1>1. <<>> \in Seq(EventKinds) /\ <<>> \in Seq(AcceptedRecord) /\ <<>> \in Seq(Batch)
        /\ <<>> \in Seq(1..Len(added)) /\ Len(<<>>) = 0
    OBVIOUS
  <1>2. FlagsOK
    BY DEF FlagsOK
  <1>3. logEventBatch \in Batch /\ GoodBatch(logEventBatch)
    BY NewBatchGood
  <1>4. TypeOK
    BY <1>1, <1>2, <1>3 DEF TypeOK
  <1>5. CurrentBatchOK
    BY <1>3 DEF CurrentBatchOK
  <1>6. SentBatchesOK
    BY <1>1 DEF SentBatchesOK
  <1> QED
    BY <1>4, <1>5, <1>6 DEF IInv

(* The environment adds events, closes shutdownChan and lets time pass. *)
LEMMA EnvironmentIInv == IInv /\ (AddLogEntry \/ CloseShutdownChan \/ Tick) => IInv'
  <1> SUFFICES ASSUME IInv, AddLogEntry \/ CloseShutdownChan \/ Tick PROVE IInv'
    OBVIOUS
  <1> USE PusherAssumption DEF clockVars, callerVars, lineVars, batchVars, pushVars
  <1>1. UNCHANGED <<logEventBatch, accepted, process, pending, pushChan, push, handed,
                    curLineTruncated, lastAccurateTimestamp>>
    BY DEF AddLogEntry, CloseShutdownChan, Tick
  <1>2. CurrentBatchOK' /\ SentBatchesOK'
    BY <1>1 DEF IInv, CurrentBatchOK, SentBatchesOK
  <1>3. FlagsOK'
    <2>1. CASE AddLogEntry
      BY <2>1 DEF IInv, TypeOK, FlagsOK, AddLogEntry
    <2>2. CASE CloseShutdownChan
      BY <2>2 DEF IInv, TypeOK, FlagsOK, CloseShutdownChan
    <2>3. CASE Tick
      <3>1. tick' \in BOOLEAN
        BY <2>3 DEF Tick
      <3> QED
        BY <2>3, <3>1 DEF IInv, TypeOK, FlagsOK, Tick
    <2> QED
      BY <2>1, <2>2, <2>3
  <1>4. TypeOK'
    <2>1. CASE AddLogEntry
      <3>1. PICK kind \in EventKinds : added' = Append(added, kind)
        BY <2>1 DEF AddLogEntry
      <3>2. /\ added' \in Seq(EventKinds) /\ Len(added') = Len(added) + 1
            /\ Len(added) \in Nat
        BY <3>1 DEF IInv, TypeOK
      <3>3. /\ logEventChan \in Seq(1..Len(added')) /\ Len(added) + 1 \in 1..Len(added')
        <4>1. logEventChan \in Seq(1..Len(added)) /\ 1..Len(added) \subseteq 1..Len(added')
          BY <3>2 DEF IInv, TypeOK
        <4>2. PICK A, B : A = 1..Len(added) /\ B = 1..Len(added')
          OBVIOUS
        <4>3. A \subseteq B => \A q \in Seq(A) : q \in Seq(B)
          OBVIOUS
        <4>4. logEventChan \in Seq(1..Len(added'))
          BY <4>1, <4>2, <4>3, Zenon
        <4>5. Len(added) + 1 \in 1..Len(added')
          BY <3>2
        <4> QED
          BY <4>4, <4>5
      <3>4. /\ logEventChan' \in Seq(1..Len(added'))
            /\ Len(logEventChan') <= LogEventChanSize
        BY <2>1, <3>3, AppendKeeps DEF AddLogEntry
      <3> QED
        BY <1>1, <1>3, <2>1, <3>2, <3>4 DEF IInv, TypeOK, AddLogEntry
    <2>2. CASE CloseShutdownChan
      BY <1>3, <2>2 DEF IInv, TypeOK, CloseShutdownChan
    <2>3. CASE Tick
      BY <1>3, <2>3 DEF IInv, TypeOK, Tick
    <2> QED
      BY <2>1, <2>2, <2>3
  <1> QED
    BY <1>2, <1>4 DEF IInv

(* What receiving an event does to the types of the state. *)
LEMMA ReceiveTypes ==
    ASSUME TypeOK, ReceiveLogEvent, added' = added,
           UpdateLine \/ UNCHANGED lineVars
    PROVE  /\ logEventChan' \in Seq(1..Len(added')) /\ Len(logEventChan') <= LogEventChanSize
           /\ curLineTruncated' \in BOOLEAN /\ lastAccurateTimestamp' \in Int
  <1>1. logEventChan' = Tail(logEventChan) /\ logEventChan # <<>>
    BY DEF ReceiveLogEvent
  <1>2. Kind.timestamp \in Int
    BY <1>1, ReceivedIsEvent
  <1>3. lastAccurateTimestamp' \in Int
    BY <1>2 DEF TypeOK, UpdateLine, lineVars
  <1>4. curLineTruncated' \in BOOLEAN
    <2>1. CASE UpdateLine
      <3>1. IsTooLong(Kind.length) \in BOOLEAN
        BY DEF IsTooLong
      <3> QED
        BY <2>1, <3>1 DEF UpdateLine
    <2>2. CASE UNCHANGED lineVars
      BY <2>2 DEF TypeOK, FlagsOK, lineVars
    <2> QED
      BY <2>1, <2>2
  <1> QED
    BY <1>1, <1>3, <1>4, ReceivedIsEvent

(* An event discarded or refused leaves the batches alone. *)
LEMMA DropEventIInv == IInv /\ (DiscardContinuation \/ RefuseLogEvent) => IInv'
  <1> SUFFICES ASSUME IInv, DiscardContinuation \/ RefuseLogEvent PROVE IInv'
    OBVIOUS
  <1> USE DEF clockVars, callerVars, batchVars, pushVars
  <1>1. /\ UNCHANGED <<now, tick, added, shutdown, process, pending, logEventBatch,
                       accepted, pushChan, push, handed>>
        /\ ReceiveLogEvent /\ (UpdateLine \/ UNCHANGED lineVars)
    BY DEF DiscardContinuation, RefuseLogEvent
  <1>2. CurrentBatchOK' /\ SentBatchesOK'
    BY <1>1 DEF IInv, CurrentBatchOK, SentBatchesOK
  <1>3. /\ logEventChan' \in Seq(1..Len(added')) /\ Len(logEventChan') <= LogEventChanSize
        /\ curLineTruncated' \in BOOLEAN /\ lastAccurateTimestamp' \in Int
    BY <1>1, ReceiveTypes DEF IInv
  <1>4. FlagsOK'
    BY <1>1, <1>3 DEF IInv, TypeOK, FlagsOK
  <1>5. TypeOK'
    BY <1>1, <1>3, <1>4 DEF IInv, TypeOK
  <1> QED
    BY <1>2, <1>5 DEF IInv

(* The history of accepted events keeps its type. *)
LEMMA AcceptTypes ==
    ASSUME TypeOK, RecordAccepted, Received \in Event, now \in Nat
    PROVE  accepted' \in Seq(AcceptedRecord)
  <1>1. [id |-> Received.id, at |-> now] \in AcceptedRecord
    BY DEF Event, AcceptedRecord
  <1>2. accepted' = Append(accepted, [id |-> Received.id, at |-> now])
    BY DEF RecordAccepted
  <1> QED
    BY <1>1, <1>2 DEF TypeOK

LEMMA NowIsNat == TypeOK => now \in Nat
  BY PusherAssumption DEF TypeOK

LEMMA AcceptIInv == IInv /\ (AcceptLogEvent \/ AcceptAfterPush) => IInv'
  <1> SUFFICES ASSUME IInv, AcceptLogEvent \/ AcceptAfterPush PROVE IInv'
    OBVIOUS
  <1> USE DEF clockVars, callerVars, batchVars, pushVars
  <1>1. /\ UNCHANGED <<now, tick, added, shutdown, pushChan, push, handed>>
        /\ ReceiveLogEvent /\ UpdateLine /\ IsAcceptable(Received, now)
        /\ logEventChan # <<>>
    BY DEF AcceptLogEvent, AcceptAfterPush, ReceiveLogEvent
  <1>2. Received \in Event /\ GoodEvent(Received)
    BY <1>1, ReceivedIsEvent DEF IInv
  <1>3. /\ logEventChan' \in Seq(1..Len(added')) /\ Len(logEventChan') <= LogEventChanSize
        /\ curLineTruncated' \in BOOLEAN /\ lastAccurateTimestamp' \in Int
    BY <1>1, ReceiveTypes DEF IInv
  <1>4. FlagsOK'
    BY <1>1, <1>3 DEF IInv, TypeOK, FlagsOK
  <1>5. SentBatchesOK'
    BY <1>1 DEF IInv, SentBatchesOK
  <1>6. logEventBatch \in Batch /\ GoodBatch(logEventBatch) /\ now \in Nat
        /\ \A e \in pending : GoodEvent(e)
    BY NowIsNat DEF IInv, TypeOK, CurrentBatchOK
  <1>7. accepted' \in Seq(AcceptedRecord)
    <2>1. RecordAccepted
      BY DEF AcceptLogEvent, AcceptAfterPush
    <2> QED
      BY <1>2, <1>6, <2>1, AcceptTypes DEF IInv
  <1>8. CASE AcceptLogEvent
    <2>1. /\ UNCHANGED <<process, pending>> /\ process = "select"
          /\ AcceptInto(logEventBatch, Received)
          /\ ~IsFull(logEventBatch) /\ ~DoesNotFit(logEventBatch, Received)
      BY <1>8 DEF AcceptLogEvent, NeedsNewBatch, ReceiveLogEvent
    <2>2. logEventBatch' = AddLogEvent(logEventBatch, Received)
      BY <2>1 DEF AcceptInto
    <2>3. logEventBatch' \in Batch /\ GoodBatch(logEventBatch')
      BY <1>2, <1>6, <2>1, <2>2, AddLogEventGood
    <2>4. TypeOK'
      BY <1>1, <1>3, <1>4, <1>7, <2>1, <2>3 DEF IInv, TypeOK
    <2>5. CurrentBatchOK'
      BY <1>6, <2>1, <2>3 DEF CurrentBatchOK
    <2> QED
      BY <1>5, <2>4, <2>5 DEF IInv
  <1>9. CASE AcceptAfterPush
    <2>1. /\ UNCHANGED logEventBatch /\ process' = "send"
          /\ pending' = {Received} /\ NeedsNewBatch(Received)
      BY <1>9 DEF AcceptAfterPush
    <2>2. Len(logEventBatch.logEvents) > 0
      BY <1>2, <1>6, <2>1, PushedBatchNotEmpty DEF NeedsNewBatch
    <2>3. TypeOK'
      BY <1>1, <1>2, <1>3, <1>4, <1>7, <2>1 DEF IInv, TypeOK
    <2>4. CurrentBatchOK'
      BY <1>2, <1>6, <2>1, <2>2 DEF CurrentBatchOK
    <2> QED
      BY <1>5, <2>3, <2>4 DEF IInv
  <1> QED
    BY <1>8, <1>9

(* The batch sent holds an event, and its successor is new. *)
LEMMA SendBatchIInv == IInv /\ SendBatch => IInv'
  <1> SUFFICES ASSUME IInv, SendBatch PROVE IInv'
    OBVIOUS
  <1> USE PusherAssumption DEF clockVars, callerVars, lineVars, pushVars
  <1>1. /\ UNCHANGED <<now, tick, added, shutdown, logEventChan, curLineTruncated,
                       lastAccurateTimestamp, accepted, push, handed>>
        /\ process = "send" /\ process' = "select" /\ pending' = {}
        /\ Len(pushChan) < PushChanSize /\ pushChan' = Append(pushChan, logEventBatch)
    BY DEF SendBatch
  <1>2. /\ logEventBatch \in Batch /\ WithinLimits(logEventBatch) /\ now \in Nat
        /\ pushChan \in Seq(Batch)
    BY <1>1, GoodBatchWithinLimits, NowIsNat DEF IInv, TypeOK, CurrentBatchOK
  <1>3. /\ pushChan' \in Seq(Batch) /\ Len(pushChan') <= PushChanSize
        /\ \A i \in 1..Len(pushChan') : \/ i \in 1..Len(pushChan) /\ pushChan'[i] = pushChan[i]
                                       \/ pushChan'[i] = logEventBatch
    BY <1>1, <1>2, AppendKeeps
  <1>4. SentBatchesOK'
    BY <1>1, <1>2, <1>3 DEF IInv, SentBatchesOK
  <1>5. logEventBatch' \in Batch /\ GoodBatch(logEventBatch')
    <2>1. CASE pending = {} /\ logEventBatch' = NewLogEventBatch(now)
      BY <1>2, <2>1, NewBatchGood
    <2>2. ASSUME NEW e \in pending, AcceptInto(NewLogEventBatch(now), e)
          PROVE  logEventBatch' \in Batch /\ GoodBatch(logEventBatch')
      <3>1. e \in Event /\ GoodEvent(e)
        BY DEF IInv, TypeOK, CurrentBatchOK
      <3>2. logEventBatch' = AddLogEvent(NewLogEventBatch(now), e)
        BY <2>2 DEF AcceptInto
      <3> QED
        BY <1>2, <3>1, <3>2, NewBatchGood, AddLogEventGood
    <2> QED
      BY <2>1, <2>2 DEF SendBatch
  <1>6. TypeOK'
    BY <1>1, <1>3, <1>5 DEF IInv, TypeOK, FlagsOK
  <1>7. CurrentBatchOK'
    BY <1>1, <1>5 DEF CurrentBatchOK
  <1> QED
    BY <1>4, <1>6, <1>7 DEF IInv

(* A tick sends the batch only if it is old or full, so not empty. *)
LEMMA ControlIInv == IInv /\ (ReceiveTick \/ ReceiveShutdown \/ PublisherClosed) => IInv'
  <1> SUFFICES ASSUME IInv, ReceiveTick \/ ReceiveShutdown \/ PublisherClosed PROVE IInv'
    OBVIOUS
  <1> USE DEF clockVars, callerVars, lineVars, batchVars, pushVars
  <1>1. UNCHANGED <<now, added, shutdown, logEventChan, pending, curLineTruncated,
                    lastAccurateTimestamp, logEventBatch, accepted, pushChan, push, handed>>
    BY DEF ReceiveTick, ReceiveShutdown, PublisherClosed
  <1>2. process' = "send" => Len(logEventBatch.logEvents) > 0
    <2> SUFFICES ASSUME process' = "send" PROVE Len(logEventBatch.logEvents) > 0
      OBVIOUS
    <2>1. \/ IsExpired(logEventBatch, now, ForceFlushInterval)
          \/ IsFull(logEventBatch)
      BY DEF ReceiveTick, ReceiveShutdown, PublisherClosed
    <2> QED
      BY <2>1, PushedBatchNotEmpty, NowIsNat DEF IInv, TypeOK, CurrentBatchOK
  <1>3. SentBatchesOK' /\ CurrentBatchOK'
    BY <1>1, <1>2 DEF IInv, SentBatchesOK, CurrentBatchOK
  <1>4. FlagsOK' /\ process' \in {"select", "send", "closing", "done"}
    BY <1>1 DEF IInv, TypeOK, FlagsOK, ReceiveTick, ReceiveShutdown, PublisherClosed
  <1>5. TypeOK'
    BY <1>1, <1>4 DEF IInv, TypeOK
  <1> QED
    BY <1>3, <1>5 DEF IInv

LEMMA PushIInv == IInv /\ PushStep => IInv'
  <1> SUFFICES ASSUME IInv, PushStep PROVE IInv'
    OBVIOUS
  <1> USE PusherAssumption DEF clockVars, callerVars, lineVars, batchVars, pushVars
  <1>1. UNCHANGED <<now, tick, added, shutdown, logEventChan, process, pending,
                    curLineTruncated, lastAccurateTimestamp, logEventBatch, accepted>>
    BY DEF PushStep, PushBatch, PushShutdown
  <1>2. CurrentBatchOK' /\ FlagsOK'
    BY <1>1 DEF IInv, CurrentBatchOK, TypeOK, FlagsOK
  <1>3. /\ pushChan' \in Seq(Batch) /\ Len(pushChan') <= PushChanSize
        /\ handed' \in Seq(Batch) /\ push' \in {"select", "done"}
        /\ SentBatchesOK'
    <2>1. CASE PushBatch
      <3>1. /\ pushChan \in Seq(Batch) /\ Len(pushChan) <= PushChanSize
            /\ handed \in Seq(Batch) /\ pushChan # <<>> /\ UNCHANGED push
            /\ pushChan' = Tail(pushChan) /\ handed' = Append(handed, Head(pushChan))
        BY <2>1 DEF IInv, TypeOK, PushBatch
      <3>2. /\ Tail(pushChan) \in Seq(Batch) /\ Len(Tail(pushChan)) = Len(pushChan) - 1
            /\ Head(pushChan) \in Batch /\ Head(pushChan) = pushChan[1]
            /\ 1 \in 1..Len(pushChan)
            /\ \A i \in 1..Len(Tail(pushChan)) :
                  i + 1 \in 1..Len(pushChan) /\ Tail(pushChan)[i] = pushChan[i + 1]
        BY <3>1, TailKeeps
      <3>3. /\ handed' \in Seq(Batch)
            /\ \A i \in 1..Len(handed') : \/ i \in 1..Len(handed) /\ handed'[i] = handed[i]
                                         \/ handed'[i] = Head(pushChan)
        BY <3>1, <3>2, AppendKeeps
      <3>4. SentBatchesOK'
        BY <3>1, <3>2, <3>3 DEF IInv, SentBatchesOK
      <3>5. push' \in {"select", "done"}
        BY <3>1 DEF IInv, TypeOK
      <3>6. Len(pushChan') <= PushChanSize
        BY <3>1, <3>2
      <3> QED
        BY <3>1, <3>2, <3>3, <3>4, <3>5, <3>6
    <2>2. CASE PushShutdown
      BY <2>2 DEF IInv, TypeOK, SentBatchesOK, PushShutdown
    <2> QED
      BY <2>1, <2>2 DEF PushStep
  <1>4. TypeOK'
    BY <1>1, <1>2, <1>3 DEF IInv, TypeOK
  <1> QED
    BY <1>2, <1>3, <1>4 DEF IInv

-----------------------------------------------------------------------------

(* IInv is an invariant of the pusher, for every value of the constants.   *)
THEOREM Invariance == Spec => []IInv
  <1>1. IInv /\ [Next]_vars => IInv'
    <2> SUFFICES ASSUME IInv, [Next]_vars PROVE IInv'
      OBVIOUS
    <2>1. CASE AddLogEntry \/ CloseShutdownChan \/ Tick
      BY <2>1, EnvironmentIInv
    <2>2. CASE ProcessStep
      BY <2>2, DropEventIInv, AcceptIInv, SendBatchIInv, ControlIInv DEF ProcessStep
    <2>3. CASE PushStep
      BY <2>3, PushIInv
    <2>4. CASE UNCHANGED vars
      BY <2>4 DEF vars, clockVars, callerVars, lineVars, batchVars, pushVars, IInv, TypeOK,
                  FlagsOK, CurrentBatchOK, SentBatchesOK
    <2> QED
      BY <2>1, <2>2, <2>3, <2>4 DEF Next
  <1> QED
    BY InitIInv, <1>1, PTL DEF Spec

(* The state always has its types, the channels stay within their buffers. *)
THEOREM TypeCorrect == Spec => []TypeOK
  <1>1. IInv => TypeOK
    BY DEF IInv
  <1> QED
    BY Invariance, <1>1, PTL

(* Whatever events arrive, in whatever order with ticks and blocked sends, *)
(* each batch handed to the publisher obeys every limit of PutLogEvents.   *)
THEOREM Limits == Spec => []RequestsWithinLimits
  <1>1. IInv => RequestsWithinLimits
    <2> SUFFICES ASSUME IInv, NEW i \in DOMAIN handed PROVE WithinLimits(handed[i])
      BY DEF RequestsWithinLimits
    <2>1. i \in 1..Len(handed)
      BY DEF IInv, TypeOK
    <2> QED
      BY <2>1 DEF IInv, SentBatchesOK
  <1> QED
    BY Invariance, <1>1, PTL

-----------------------------------------------------------------------------
(* Pusher implements PusherPort. *)

(* push ends only for the shutdown signal. *)
PushDoneOK == push = "done" => shutdown

LEMMA PushDoneStep == TypeOK /\ PushDoneOK /\ [Next]_vars => PushDoneOK'
  <1> SUFFICES ASSUME TypeOK, PushDoneOK, [Next]_vars PROVE PushDoneOK'
    OBVIOUS
  <1> USE DEF PushDoneOK, vars, clockVars, callerVars, pushVars
  <1>1. CASE PushShutdown
    BY <1>1 DEF PushShutdown
  <1>2. CASE CloseShutdownChan
    BY <1>2 DEF CloseShutdownChan
  <1>3. CASE UNCHANGED <<push, shutdown>>
    BY <1>3
  <1> QED
    BY <1>1, <1>2, <1>3
       DEF Next, AddLogEntry, Tick, ProcessStep, PushStep, DiscardContinuation, RefuseLogEvent,
           AcceptLogEvent, AcceptAfterPush, ReceiveTick, SendBatch, ReceiveShutdown,
           PublisherClosed, PushBatch

PortRecord(q, s) == [queued |-> q, process |-> s]

(* What the operators of PusherPort allow of a port. *)
LEMMA PortAllows ==
    ASSUME NEW q \in Nat, NEW s
    PROVE  /\ q < LogEventChanSize =>
                PortRecord(q + 1, s) \in AfterSend(PortRecord(q, s), LogEventChanSize)
           /\ s = "running" =>
                /\ q > 0 => PortRecord(q - 1, s) \in AfterReceive(PortRecord(q, s))
                /\ PortRecord(q, "closing") \in AfterShutdown(PortRecord(q, s))
                /\ PortRecord(q, "wedged") \in AfterShutdown(PortRecord(q, s))
                /\ q > 0 => PortRecord(q - 1, "wedged") \in AfterShutdown(PortRecord(q, s))
           /\ s = "closing" => PortRecord(q, "done") \in AfterClose(PortRecord(q, s))
  <1> USE PusherAssumption DEF PortRecord
  <1>1. ASSUME q < LogEventChanSize
        PROVE  PortRecord(q + 1, s) \in AfterSend(PortRecord(q, s), LogEventChanSize)
    BY <1>1 DEF AfterSend
  <1>2. ASSUME s = "running", q > 0
        PROVE  /\ PortRecord(q - 1, s) \in AfterReceive(PortRecord(q, s))
               /\ PortRecord(q - 1, "wedged") \in AfterShutdown(PortRecord(q, s))
    BY <1>2 DEF AfterReceive, AfterShutdown
  <1>3. ASSUME s = "running"
        PROVE  /\ PortRecord(q, "closing") \in AfterShutdown(PortRecord(q, s))
               /\ PortRecord(q, "wedged") \in AfterShutdown(PortRecord(q, s))
    BY <1>3 DEF AfterShutdown
  <1>4. ASSUME s = "closing"
        PROVE  PortRecord(q, "done") \in AfterClose(PortRecord(q, s))
    BY <1>4 DEF AfterClose
  <1> QED
    BY <1>1, <1>2, <1>3, <1>4

(* Every step of Pusher is a step of its port or leaves it as it is.       *)
LEMMA PortStep ==
    ASSUME TypeOK, PushDoneOK, Next
    PROVE  Port' \in {Port} \cup AfterStep(Port, LogEventChanSize, shutdown)
  <1> DEFINE q == Len(logEventChan)
  <1> USE DEF clockVars, callerVars, lineVars, batchVars, pushVars
  <1>1. /\ q \in Nat /\ Port = PortRecord(q, PortProcess)
        /\ Port' = PortRecord(Len(logEventChan'), PortProcess')
    BY DEF TypeOK, Port, PortRecord
  <1>2. CASE AddLogEntry
    <2>1. Len(logEventChan') = q + 1 /\ q < LogEventChanSize
      <3>1. logEventChan \in Seq(1..Len(added))
        BY DEF TypeOK
      <3>2. logEventChan' = Append(logEventChan, Len(added) + 1) /\ q < LogEventChanSize
        BY <1>2 DEF AddLogEntry
      <3> QED
        BY <3>1, <3>2
    <2>2. PortProcess' = PortProcess
      BY <1>2 DEF AddLogEntry, PortProcess, Wedged
    <2> QED
      BY <1>1, <2>1, <2>2, PortAllows DEF AfterStep
  <1>3. CASE DiscardContinuation \/ RefuseLogEvent \/ AcceptLogEvent \/ AcceptAfterPush
    <2>1. logEventChan # <<>> /\ logEventChan' = Tail(logEventChan) /\ process = "select"
      BY <1>3 DEF DiscardContinuation, RefuseLogEvent, AcceptLogEvent, AcceptAfterPush,
                  ReceiveLogEvent
    <2>2. Len(logEventChan') = q - 1 /\ q > 0
      BY <2>1 DEF TypeOK
    <2>3. PortProcess = "running"
      BY <2>1 DEF PortProcess, Wedged
    <2>4. PortProcess' = "running" \/ (PortProcess' = "wedged" /\ shutdown)
      BY <1>3, <2>1 DEF DiscardContinuation, RefuseLogEvent, AcceptLogEvent, AcceptAfterPush,
                        PortProcess, Wedged, PushDoneOK
    <2> QED
      BY <1>1, <2>2, <2>3, <2>4, PortAllows DEF AfterStep
  <1>4. CASE ReceiveTick \/ SendBatch \/ PushBatch \/ PushShutdown
    <2>1. logEventChan' = logEventChan
      BY <1>4 DEF ReceiveTick, SendBatch, PushBatch, PushShutdown
    <2>2. \/ PortProcess' = PortProcess
          \/ PortProcess = "running" /\ PortProcess' = "wedged" /\ shutdown
      <3>1. CASE ReceiveTick
        BY <3>1 DEF ReceiveTick, PortProcess, Wedged, PushDoneOK
      <3>2. CASE SendBatch
        BY <3>2, PusherAssumption DEF SendBatch, PortProcess, Wedged
      <3>3. CASE PushBatch
        BY <3>3 DEF PushBatch, PortProcess, Wedged
      <3>4. CASE PushShutdown
        BY <3>4 DEF PushShutdown, PortProcess, Wedged
      <3> QED
        BY <1>4, <3>1, <3>2, <3>3, <3>4
    <2> QED
      BY <1>1, <2>1, <2>2, PortAllows DEF AfterStep
  <1>5. CASE ReceiveShutdown \/ PublisherClosed
    <2>1. logEventChan' = logEventChan
      BY <1>5 DEF ReceiveShutdown, PublisherClosed
    <2>2. \/ PortProcess = "running" /\ PortProcess' = "closing" /\ shutdown
          \/ PortProcess = "closing" /\ PortProcess' = "done"
      BY <1>5 DEF ReceiveShutdown, PublisherClosed, PortProcess, Wedged
    <2> QED
      BY <1>1, <2>1, <2>2, PortAllows DEF AfterStep
  <1>6. CASE CloseShutdownChan \/ Tick
    BY <1>6 DEF CloseShutdownChan, Tick, Port, PortProcess, Wedged
  <1> QED
    BY <1>2, <1>3, <1>4, <1>5, <1>6 DEF Next, ProcessStep, PushStep

(* A pusher behaves, to its callers and to Shutdown, as PusherPort says,   *)
(* whatever its limits, its channels and the events it is given.           *)
THEOREM PortRefinement == Spec => ImplementsPusherPort
  <1>1. Init => PushDoneOK /\ Port = NewPort
    BY DEF Init, PushDoneOK, Port, NewPort, PortProcess, Wedged
  <1>2. TypeOK /\ PushDoneOK /\ [Next]_vars =>
          [Port' \in {Port} \cup AfterStep(Port, LogEventChanSize, shutdown)]_vars
    BY PortStep
  <1> QED
    BY TypeCorrect, PushDoneStep, <1>1, <1>2, PTL DEF Spec, ImplementsPusherPort

=============================================================================
