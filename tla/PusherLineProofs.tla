------------------------ MODULE PusherLineProofs ------------------------
(***************************************************************************)
(* Theorems about the lines and the timestamps of Pusher: what the two     *)
(* variables of processLogEntry, curLineTruncated and                      *)
(* lastAccurateTimestamp, tell of all the events received so far.  The     *)
(* facts about an event depend on the part of the history added up to it,  *)
(* so they stay true as events are added after it.                         *)
(***************************************************************************)
EXTENDS PusherProofs

(* How many events processLogEntry has received. *)
ReceivedCount == Len(added) - Len(logEventChan)

(* The events not yet received are the last ones added, in order. *)
ChanIsSuffix ==
    \A i \in 1..Len(logEventChan) : logEventChan[i] = ReceivedCount + i

(* An event between the start of the line of event m and m was too long.   *)
LineTruncatedBefore(m) ==
    \E t \in 1..(m - 1) : /\ IsTooLong(added[t].length)
                          /\ \A s \in (t + 1)..(m - 1) : ~added[s].multiLineStart

LineOK == curLineTruncated = LineTruncatedBefore(ReceivedCount + 1)

NoneStamped(n) == \A k \in 1..n : ~Stamped(k)

LastStamped(n, m) ==
    m \in 1..n /\ Stamped(m) /\ \A k \in 1..n : Stamped(k) => k <= m

StampOK ==
    \/ lastAccurateTimestamp = 0 /\ NoneStamped(ReceivedCount)
    \/ \E m \in 1..ReceivedCount : /\ LastStamped(ReceivedCount, m)
                                   /\ lastAccurateTimestamp = added[m].timestamp

NotCut(a) == a.id \in 1..ReceivedCount /\ ~ContinuesTruncatedLine(a.id)

AcceptedOK == \A i \in 1..Len(accepted) : NotCut(accepted[i])

EventStamped(e) ==
    /\ e.id \in 1..ReceivedCount
    /\ \/ NoneStamped(e.id) /\ e.timestamp = added[e.id].logGeneratedTime
       \/ \E m \in 1..e.id : LastStamped(e.id, m) /\ e.timestamp = added[m].timestamp

BatchStamped(b) == \A j \in 1..Len(b.logEvents) : EventStamped(b.logEvents[j])

EventsOK ==
    /\ \A e \in pending : EventStamped(e)
    /\ BatchStamped(logEventBatch)
    /\ \A i \in 1..Len(pushChan) : BatchStamped(pushChan[i])
    /\ \A i \in 1..Len(handed) : BatchStamped(handed[i])

LineInv == ChanIsSuffix /\ LineOK /\ StampOK /\ AcceptedOK /\ EventsOK

-----------------------------------------------------------------------------
(* What is true of an event depends only on those added up to it.          *)

Grows ==
    /\ added \in Seq(EventKinds) /\ added' \in Seq(EventKinds)
    /\ Len(added) <= Len(added')
    /\ \A i \in 1..Len(added) : added'[i] = added[i]
    /\ ReceivedCount \in 0..Len(added) /\ ReceivedCount' \in Nat
    /\ ReceivedCount <= ReceivedCount'

(* A line is truncated before event m whatever is added from m on.         *)
LEMMA LineStable ==
    ASSUME Grows, NEW m \in 1..(Len(added) + 1)
    PROVE  LineTruncatedBefore(m)' <=> LineTruncatedBefore(m)
  <1>1. /\ Len(added) \in Nat
        /\ \A t \in 1..(m - 1) : added'[t] = added[t]
    BY DEF Grows
  <1>2. ASSUME NEW t \in 1..(m - 1)
        PROVE  \A s \in (t + 1)..(m - 1) : added'[s] = added[s]
    BY <1>1
  <1> QED
    BY <1>1, <1>2 DEF LineTruncatedBefore

LEMMA EventStable ==
    ASSUME Grows, NEW m \in 1..Len(added)
    PROVE  /\ ContinuesTruncatedLine(m)' <=> ContinuesTruncatedLine(m)
           /\ Stamped(m)' <=> Stamped(m)
           /\ added'[m] = added[m]
  <1>1. m \in 1..(Len(added) + 1) /\ added'[m] = added[m]
    BY DEF Grows
  <1>2. LineTruncatedBefore(m)' <=> LineTruncatedBefore(m)
    BY <1>1, LineStable
  <1>3. ContinuesTruncatedLine(m) <=> ~added[m].multiLineStart /\ LineTruncatedBefore(m)
    BY DEF ContinuesTruncatedLine, LineTruncatedBefore
  <1>4. ContinuesTruncatedLine(m)' <=> ~added'[m].multiLineStart /\ LineTruncatedBefore(m)'
    BY DEF ContinuesTruncatedLine, LineTruncatedBefore
  <1>5. ContinuesTruncatedLine(m)' <=> ContinuesTruncatedLine(m)
    BY <1>1, <1>2, <1>3, <1>4
  <1> QED
    BY <1>1, <1>5 DEF Stamped

LEMMA StampStable ==
    ASSUME Grows, NEW n \in 0..Len(added)
    PROVE  /\ NoneStamped(n)' <=> NoneStamped(n)
           /\ \A m \in 1..n : LastStamped(n, m)' <=> LastStamped(n, m)
  <1>1. \A k \in 1..n : Stamped(k)' <=> Stamped(k)
    <2>1. \A k \in 1..n : k \in 1..Len(added)
      BY DEF Grows
    <2> QED
      BY <2>1, EventStable
  <1>2. NoneStamped(n)' <=> NoneStamped(n)
    BY <1>1 DEF NoneStamped
  <1>3. ASSUME NEW m \in 1..n
        PROVE  LastStamped(n, m)' <=> LastStamped(n, m)
    BY <1>1 DEF LastStamped
  <1> QED
    BY <1>2, <1>3

(* An event keeps the timestamp it should have. *)
LEMMA EventStampedStable ==
    ASSUME Grows, NEW e, EventStamped(e)
    PROVE  EventStamped(e)'
  <1>1. /\ e.id \in 1..ReceivedCount /\ e.id \in 1..Len(added) /\ e.id \in 0..Len(added)
        /\ e.id \in 1..ReceivedCount'
    BY DEF Grows, EventStamped
  <1>2. added'[e.id] = added[e.id]
    BY <1>1, EventStable
  <1>3. CASE NoneStamped(e.id) /\ e.timestamp = added[e.id].logGeneratedTime
    BY <1>1, <1>2, <1>3, StampStable DEF EventStamped
  <1>4. CASE \E m \in 1..e.id : LastStamped(e.id, m) /\ e.timestamp = added[m].timestamp
    <2>1. PICK m \in 1..e.id : LastStamped(e.id, m) /\ e.timestamp = added[m].timestamp
      BY <1>4
    <2>2. m \in 1..Len(added)
      BY <1>1 DEF Grows
    <2>3. LastStamped(e.id, m)' /\ e.timestamp = added'[m].timestamp
      BY <1>1, <2>1, <2>2, StampStable, EventStable
    <2> QED
      BY <1>1, <2>1, <2>3 DEF EventStamped
  <1> QED
    BY <1>3, <1>4 DEF EventStamped

LEMMA BatchStampedStable ==
    ASSUME Grows, NEW b, BatchStamped(b)
    PROVE  BatchStamped(b)'
  BY EventStampedStable DEF BatchStamped

LEMMA NotCutStable ==
    ASSUME Grows, NEW a, NotCut(a)
    PROVE  NotCut(a)'
  <1>1. a.id \in 1..Len(added) /\ a.id \in 1..ReceivedCount'
    BY DEF Grows, NotCut
  <1> QED
    BY <1>1, EventStable DEF NotCut

(* Events already in batches and accepted stay right. *)
LEMMA OldEventsOK ==
    ASSUME Grows, AcceptedOK, EventsOK
    PROVE  /\ \A i \in 1..Len(accepted) : \A a : a = accepted[i] => NotCut(a)'
           /\ UNCHANGED accepted => AcceptedOK'
           /\ UNCHANGED <<pending, logEventBatch, pushChan, handed>> => EventsOK'
  <1>1. \A i \in 1..Len(accepted) : \A a : a = accepted[i] => NotCut(a)'
    BY NotCutStable DEF AcceptedOK
  <1>2. UNCHANGED accepted => AcceptedOK'
    BY <1>1 DEF AcceptedOK
  <1>3. ASSUME UNCHANGED <<pending, logEventBatch, pushChan, handed>>
        PROVE  EventsOK'
    <2>1. \A e \in pending : EventStamped(e)'
      BY EventStampedStable DEF EventsOK
    <2>2. \A b : BatchStamped(b) => BatchStamped(b)'
      BY BatchStampedStable
    <2> QED
      BY <1>3, <2>1, <2>2 DEF EventsOK
  <1> QED
    BY <1>1, <1>2, <1>3

-----------------------------------------------------------------------------
(* The events received. *)

LEMMA CountInRange ==
    ASSUME TypeOK, ChanIsSuffix
    PROVE  ReceivedCount \in 0..Len(added) /\ Len(added) \in Nat
  <1>1. /\ Len(added) \in Nat /\ Len(logEventChan) \in Nat
        /\ \A i \in 1..Len(logEventChan) : logEventChan[i] \in 1..Len(added)
    BY DEF TypeOK
  <1>2. CASE Len(logEventChan) = 0
    BY <1>1, <1>2 DEF ReceivedCount
  <1>3. CASE Len(logEventChan) > 0
    <2>1. 1 \in 1..Len(logEventChan)
      BY <1>1, <1>3
    <2>2. logEventChan[1] = ReceivedCount + 1 /\ logEventChan[1] \in 1..Len(added)
      BY <1>1, <2>1 DEF ChanIsSuffix
    <2> QED
      BY <1>1, <2>2 DEF ReceivedCount
  <1> QED
    BY <1>1, <1>2, <1>3

LEMMA AddGrows ==
    ASSUME TypeOK, ChanIsSuffix, AddLogEntry
    PROVE  Grows /\ ReceivedCount' = ReceivedCount /\ ChanIsSuffix'
  <1>1. PICK kind \in EventKinds : added' = Append(added, kind)
    BY DEF AddLogEntry
  <1>2. /\ added \in Seq(EventKinds) /\ added' \in Seq(EventKinds)
        /\ Len(added') = Len(added) + 1 /\ Len(added) \in Nat
        /\ \A i \in 1..Len(added) : added'[i] = added[i]
    BY <1>1 DEF TypeOK
  <1>3. /\ logEventChan \in Seq(Nat) /\ Len(logEventChan) \in Nat /\ Len(added) + 1 \in Nat
        /\ logEventChan' = Append(logEventChan, Len(added) + 1)
    <2>1. logEventChan \in Seq(1..Len(added)) /\ 1..Len(added) \subseteq Nat
      BY <1>2 DEF TypeOK
    <2> QED
      BY <1>2, <2>1 DEF AddLogEntry
  <1>4. /\ Len(logEventChan') = Len(logEventChan) + 1
        /\ \A i \in 1..Len(logEventChan') :
              \/ i \in 1..Len(logEventChan) /\ logEventChan'[i] = logEventChan[i]
              \/ i = Len(logEventChan) + 1 /\ logEventChan'[i] = Len(added) + 1
    BY <1>3, AppendKeeps
  <1>5. ReceivedCount' = ReceivedCount /\ ReceivedCount \in 0..Len(added)
    BY <1>2, <1>3, <1>4, CountInRange DEF ReceivedCount
  <1>6. ChanIsSuffix'
    BY <1>2, <1>3, <1>4, <1>5 DEF ChanIsSuffix, ReceivedCount
  <1> QED
    BY <1>2, <1>5, <1>6 DEF Grows

LEMMA ReceiveGrows ==
    ASSUME TypeOK, ChanIsSuffix, ReceiveLogEvent, added' = added
    PROVE  /\ Grows /\ ReceivedCount' = ReceivedCount + 1 /\ ChanIsSuffix'
           /\ Head(logEventChan) = ReceivedCount + 1
           /\ ReceivedCount \in Nat /\ ReceivedCount + 1 \in 1..Len(added)
           /\ Kind = added[ReceivedCount + 1]
  <1>1. /\ logEventChan \in Seq(1..Len(added)) /\ logEventChan # <<>>
        /\ logEventChan' = Tail(logEventChan) /\ added \in Seq(EventKinds)
        /\ Len(added) \in Nat /\ Len(logEventChan) \in Nat
    BY DEF TypeOK, ReceiveLogEvent
  <1>2. /\ Len(logEventChan') = Len(logEventChan) - 1
        /\ Head(logEventChan) \in 1..Len(added) /\ Head(logEventChan) = logEventChan[1]
        /\ 1 \in 1..Len(logEventChan)
        /\ \A i \in 1..Len(logEventChan') :
              i + 1 \in 1..Len(logEventChan) /\ logEventChan'[i] = logEventChan[i + 1]
    BY <1>1, TailKeeps
  <1>3. Head(logEventChan) = ReceivedCount + 1
    BY <1>2 DEF ChanIsSuffix
  <1>4. ReceivedCount' = ReceivedCount + 1 /\ ReceivedCount \in 0..Len(added)
    BY <1>1, <1>2, CountInRange DEF ReceivedCount
  <1>5. ASSUME NEW i \in 1..Len(logEventChan')
        PROVE  logEventChan'[i] = ReceivedCount' + i
    <2>1. logEventChan'[i] = ReceivedCount + (i + 1)
      BY <1>2 DEF ChanIsSuffix
    <2> QED
      BY <1>4, <2>1
  <1>6. Grows
    BY <1>1, <1>4 DEF Grows
  <1> QED
    BY <1>2, <1>3, <1>4, <1>5, <1>6 DEF ChanIsSuffix, Kind

(* What event m makes of the line. *)
LEMMA LineStep ==
    ASSUME NEW m \in Nat \ {0}
    PROVE  LineTruncatedBefore(m + 1) <=>
              \/ IsTooLong(added[m].length)
              \/ LineTruncatedBefore(m) /\ ~added[m].multiLineStart
  <1>1. m + 1 - 1 = m
    OBVIOUS
  <1>2. ASSUME LineTruncatedBefore(m + 1), ~IsTooLong(added[m].length)
        PROVE  LineTruncatedBefore(m) /\ ~added[m].multiLineStart
    <2>1. PICK t \in 1..m : /\ IsTooLong(added[t].length)
                            /\ \A s \in (t + 1)..m : ~added[s].multiLineStart
      BY <1>1, <1>2 DEF LineTruncatedBefore
    <2>2. t \in 1..(m - 1) /\ m \in (t + 1)..m
      <3>1. t # m
        BY <1>2, <2>1
      <3> QED
        BY <3>1
    <2>3. \A s \in (t + 1)..(m - 1) : s \in (t + 1)..m
      OBVIOUS
    <2> QED
      BY <2>1, <2>2, <2>3 DEF LineTruncatedBefore
  <1>3. ASSUME IsTooLong(added[m].length) PROVE LineTruncatedBefore(m + 1)
    <2>1. m \in 1..m /\ (m + 1)..m = {}
      OBVIOUS
    <2> QED
      BY <1>1, <1>3, <2>1 DEF LineTruncatedBefore
  <1>4. ASSUME LineTruncatedBefore(m), ~added[m].multiLineStart PROVE LineTruncatedBefore(m + 1)
    <2>1. PICK t \in 1..(m - 1) : /\ IsTooLong(added[t].length)
                                  /\ \A s \in (t + 1)..(m - 1) : ~added[s].multiLineStart
      BY <1>4 DEF LineTruncatedBefore
    <2>2. t \in 1..m /\ \A s \in (t + 1)..m : s \in (t + 1)..(m - 1) \/ s = m
      OBVIOUS
    <2>3. \A s \in (t + 1)..m : ~added[s].multiLineStart
      BY <1>4, <2>1, <2>2
    <2> QED
      BY <1>1, <2>1, <2>2, <2>3 DEF LineTruncatedBefore
  <1> QED
    BY <1>2, <1>3, <1>4

(* What event m makes of the latest timestamp. *)
LEMMA StampStep ==
    ASSUME NEW m \in Nat \ {0}
    PROVE  /\ Stamped(m) => LastStamped(m, m)
           /\ ~Stamped(m) /\ NoneStamped(m - 1) => NoneStamped(m)
           /\ \A k \in 1..(m - 1) : ~Stamped(m) /\ LastStamped(m - 1, k) => LastStamped(m, k)
  <1>1. m \in 1..m /\ \A k \in 1..m : k <= m /\ (k = m \/ k \in 1..(m - 1))
    OBVIOUS
  <1>2. \A k \in 1..(m - 1) : k \in 1..m
    OBVIOUS
  <1> QED
    BY <1>1, <1>2 DEF LastStamped, NoneStamped

(* Whether it is discarded or not, the event received leaves the two       *)
(* variables right.                                                        *)
LEMMA ReceiveLine ==
    ASSUME TypeOK, ChanIsSuffix, LineOK, ReceiveLogEvent, added' = added,
           \/ IsContinuationOfTruncated /\ UNCHANGED lineVars
           \/ ~IsContinuationOfTruncated /\ UpdateLine
    PROVE  /\ LineOK'
           /\ IsContinuationOfTruncated <=> ContinuesTruncatedLine(ReceivedCount + 1)
  <1> DEFINE n == ReceivedCount + 1
  <1>1. /\ ReceivedCount' = n /\ n \in Nat \ {0}
        /\ Kind = added[n] /\ Grows
    BY ReceiveGrows
  <1>2. /\ curLineTruncated = LineTruncatedBefore(n)
        /\ curLineTruncated \in BOOLEAN
    BY DEF LineOK, TypeOK, FlagsOK
  <1>3. IsContinuationOfTruncated <=> ~added[n].multiLineStart /\ LineTruncatedBefore(n)
    BY <1>1, <1>2 DEF IsContinuationOfTruncated
  <1>4. IsContinuationOfTruncated <=> ContinuesTruncatedLine(n)
    BY <1>3 DEF ContinuesTruncatedLine, LineTruncatedBefore
  <1>5. LineTruncatedBefore(n + 1) <=>
              \/ IsTooLong(added[n].length)
              \/ LineTruncatedBefore(n) /\ ~added[n].multiLineStart
    BY <1>1, LineStep
  <1>6. curLineTruncated' = LineTruncatedBefore(n + 1)
    <2>1. LineTruncatedBefore(n + 1) \in BOOLEAN /\ IsTooLong(added[n].length) \in BOOLEAN
      BY DEF LineTruncatedBefore, IsTooLong
    <2>2. CASE IsContinuationOfTruncated /\ UNCHANGED lineVars
      <3>1. curLineTruncated' = curLineTruncated
        BY <2>2 DEF lineVars
      <3> QED
        BY <1>2, <1>3, <1>5, <2>1, <2>2, <3>1
    <2>3. CASE ~IsContinuationOfTruncated /\ UpdateLine
      <3>1. curLineTruncated' = IsTooLong(added[n].length)
        BY <1>1, <2>3 DEF UpdateLine
      <3> QED
        BY <1>3, <1>5, <2>1, <2>3, <3>1
    <2> QED
      BY <2>2, <2>3
  <1>7. LineTruncatedBefore(ReceivedCount + 1)' = LineTruncatedBefore(n + 1)
    BY <1>1 DEF LineTruncatedBefore
  <1> QED
    BY <1>4, <1>6, <1>7 DEF LineOK

LEMMA ReceiveStamp ==
    ASSUME TypeOK, ChanIsSuffix, LineOK, StampOK, ReceiveLogEvent, added' = added,
           \/ IsContinuationOfTruncated /\ UNCHANGED lineVars
           \/ ~IsContinuationOfTruncated /\ UpdateLine
    PROVE  StampOK'
  <1> DEFINE n == ReceivedCount + 1
  <1>1. /\ ReceivedCount' = n /\ n \in Nat \ {0} /\ n \in 1..Len(added) /\ n \in 1..n
        /\ ReceivedCount = n - 1 /\ Kind = added[n] /\ Grows
        /\ \A k \in 1..(n - 1) : k \in 1..n
    BY ReceiveGrows
  <1>2. IsContinuationOfTruncated <=> ContinuesTruncatedLine(n)
    BY ReceiveLine
  <1> HIDE DEF n
  <1>3. \/ lastAccurateTimestamp' = 0 /\ NoneStamped(n)
        \/ \E m \in 1..n : LastStamped(n, m) /\ lastAccurateTimestamp' = added[m].timestamp
    <2>1. CASE Stamped(n)
      <3>1. lastAccurateTimestamp' = added[n].timestamp
        BY <1>1, <1>2, <2>1 DEF Stamped, UpdateLine
      <3> QED
        BY <1>1, <2>1, <3>1, StampStep
    <2>2. CASE ~Stamped(n)
      <3>1. lastAccurateTimestamp' = lastAccurateTimestamp
        BY <1>1, <1>2, <2>2 DEF Stamped, UpdateLine, lineVars
      <3>2. CASE lastAccurateTimestamp = 0 /\ NoneStamped(n - 1)
        BY <1>1, <2>2, <3>1, <3>2, StampStep
      <3>3. CASE \E m \in 1..(n - 1) : /\ LastStamped(n - 1, m)
                                       /\ lastAccurateTimestamp = added[m].timestamp
        BY <1>1, <2>2, <3>1, <3>3, StampStep
      <3> QED
        BY <1>1, <3>2, <3>3 DEF StampOK
    <2> QED
      BY <2>1, <2>2
  <1>4. \A k \in 1..n : Stamped(k)' <=> Stamped(k)
    BY <1>1 DEF Stamped, ContinuesTruncatedLine
  <1> QED
    BY <1>1, <1>3, <1>4 DEF StampOK, NoneStamped, LastStamped

(* The event received, unless discarded, has the timestamp it should have. *)
LEMMA ReceivedStamped ==
    ASSUME TypeOK, ChanIsSuffix, LineOK, StampOK, ReceiveLogEvent, added' = added,
           ~IsContinuationOfTruncated, UpdateLine, NEW e, e = Received
    PROVE  EventStamped(e)' /\ \A a : a.id = e.id => NotCut(a)'
  <1>0. PICK n : n = ReceivedCount + 1
    OBVIOUS
  <1>1. /\ ReceivedCount' = n /\ n \in Nat \ {0} /\ n \in 1..Len(added) /\ n \in 1..n
        /\ ReceivedCount = n - 1 /\ Kind = added[n] /\ Grows
        /\ \A k \in 1..(n - 1) : k \in 1..n
        /\ e.id = n
    BY <1>0, ReceiveGrows DEF Received
  <1>2. ~ContinuesTruncatedLine(n)
    BY <1>0, ReceiveLine
  <1>3. \/ NoneStamped(n) /\ e.timestamp = added[n].logGeneratedTime
        \/ \E m \in 1..n : LastStamped(n, m) /\ e.timestamp = added[m].timestamp
    <2>1. CASE Stamped(n)
      <3>1. e.timestamp = added[n].timestamp
        BY <1>1, <2>1 DEF Stamped, Received
      <3> QED
        BY <1>1, <2>1, <3>1, StampStep
    <2>2. CASE ~Stamped(n)
      <3>1. Kind.timestamp = 0
        BY <1>1, <1>2, <2>2 DEF Stamped
      <3>2. CASE lastAccurateTimestamp = 0 /\ NoneStamped(n - 1)
        <4>1. e.timestamp = added[n].logGeneratedTime
          BY <1>1, <3>1, <3>2 DEF Received
        <4> QED
          BY <1>1, <2>2, <3>2, <4>1, StampStep
      <3>3. ASSUME NEW m \in 1..(n - 1), LastStamped(n - 1, m),
                   lastAccurateTimestamp = added[m].timestamp
            PROVE  LastStamped(n, m) /\ e.timestamp = added[m].timestamp
        <4>1. lastAccurateTimestamp # 0
          BY <3>3 DEF LastStamped, Stamped
        <4>2. e.timestamp = added[m].timestamp
          BY <3>1, <3>3, <4>1 DEF Received
        <4> QED
          BY <1>1, <2>2, <3>3, <4>2, StampStep
      <3> QED
        BY <1>1, <3>2, <3>3 DEF StampOK
    <2> QED
      BY <2>1, <2>2
  <1>4. /\ \A k \in 1..n : Stamped(k)' <=> Stamped(k)
        /\ ContinuesTruncatedLine(n)' <=> ContinuesTruncatedLine(n)
    BY <1>1 DEF Stamped, ContinuesTruncatedLine
  <1>5. EventStamped(e)'
    BY <1>1, <1>3, <1>4 DEF EventStamped, NoneStamped, LastStamped
  <1>6. ASSUME NEW a, a.id = e.id PROVE NotCut(a)'
    BY <1>1, <1>2, <1>4, <1>6 DEF NotCut
  <1> QED
    BY <1>5, <1>6

(* Appending an event to a batch. *)
LEMMA AddStamped ==
    ASSUME NEW b \in Batch, BatchStamped(b)', NEW e \in Event, EventStamped(e)',
           NEW c, c = AddLogEvent(b, e)
    PROVE  BatchStamped(c)'
  <1>1. b.logEvents \in Seq(Event) /\ c.logEvents = Append(b.logEvents, e)
    BY DEF Batch, AddLogEvent
  <1>2. \A j \in 1..Len(c.logEvents) :
           \/ j \in 1..Len(b.logEvents) /\ c.logEvents[j] = b.logEvents[j]
           \/ c.logEvents[j] = e
    BY <1>1, AppendKeeps
  <1> QED
    BY <1>2 DEF BatchStamped

LEMMA NewStamped ==
    ASSUME NEW t, NEW b, b = NewLogEventBatch(t)
    PROVE  BatchStamped(b)'
  <1>1. Len(b.logEvents) = 0
    BY DEF NewLogEventBatch
  <1> QED
    BY <1>1 DEF BatchStamped

-----------------------------------------------------------------------------

LEMMA InitLineInv == Init => LineInv
  <1> SUFFICES ASSUME Init PROVE LineInv
    OBVIOUS
  <1>1. Len(added) = 0 /\ Len(logEventChan) = 0 /\ ReceivedCount = 0
    BY DEF Init, ReceivedCount
  <1>2. ChanIsSuffix /\ StampOK
    BY <1>1 DEF Init, ChanIsSuffix, StampOK, NoneStamped
  <1>3. LineOK
    <2>1. \A t \in 1..((ReceivedCount + 1) - 1) : FALSE
      BY <1>1
    <2>2. ~LineTruncatedBefore(ReceivedCount + 1)
      BY <2>1 DEF LineTruncatedBefore
    <2>3. LineTruncatedBefore(ReceivedCount + 1) \in BOOLEAN
      BY DEF LineTruncatedBefore
    <2> QED
      BY <2>2, <2>3, Zenon DEF Init, LineOK
  <1>4. AcceptedOK /\ EventsOK
    BY DEF Init, AcceptedOK, EventsOK, BatchStamped, NewLogEventBatch
  <1> QED
    BY <1>2, <1>3, <1>4 DEF LineInv

(* Adding an event tells nothing new of those before it. *)
LEMMA AddLineInv == TypeOK /\ LineInv /\ AddLogEntry => LineInv'
  <1> SUFFICES ASSUME TypeOK, LineInv, AddLogEntry PROVE LineInv'
    OBVIOUS
  <1>1. Grows /\ ReceivedCount' = ReceivedCount /\ ChanIsSuffix'
    BY AddGrows DEF LineInv
  <1>2. UNCHANGED <<curLineTruncated, lastAccurateTimestamp, accepted, pending,
                    logEventBatch, pushChan, handed>>
    BY DEF AddLogEntry, lineVars, batchVars, pushVars
  <1>3. AcceptedOK' /\ EventsOK'
    BY <1>1, <1>2, OldEventsOK DEF LineInv
  <1>4. PICK n : n = ReceivedCount
    OBVIOUS
  <1>5. /\ n \in 0..Len(added) /\ n + 1 \in 1..(Len(added) + 1)
        /\ \A m \in 1..n : m \in 1..Len(added)
    BY <1>1, <1>4 DEF Grows
  <1>6. LineTruncatedBefore(n + 1)' <=> LineTruncatedBefore(n + 1)
    BY <1>1, <1>5, LineStable
  <1>7. LineOK'
    <2>1. LineTruncatedBefore(n + 1)' \in BOOLEAN /\ LineTruncatedBefore(n + 1) \in BOOLEAN
      BY DEF LineTruncatedBefore
    <2> QED
      BY <1>1, <1>2, <1>4, <1>6, <2>1 DEF LineInv, LineOK
  <1>8. /\ NoneStamped(n)' <=> NoneStamped(n)
        /\ \A m \in 1..n : /\ LastStamped(n, m)' <=> LastStamped(n, m)
                           /\ added'[m] = added[m]
    BY <1>1, <1>5, StampStable, EventStable
  <1>9. StampOK'
    <2>1. CASE lastAccurateTimestamp = 0 /\ NoneStamped(n)
      BY <1>1, <1>2, <1>4, <1>8, <2>1 DEF StampOK
    <2>2. ASSUME NEW m \in 1..n, LastStamped(n, m), lastAccurateTimestamp = added[m].timestamp
          PROVE  StampOK'
      <3>1. LastStamped(n, m)'
        BY <1>8, <2>2
      <3>2. lastAccurateTimestamp' = added'[m].timestamp
        BY <1>2, <1>8, <2>2
      <3>3. ReceivedCount' = n
        BY <1>1, <1>4
      <3> QED
        BY <2>2, <3>1, <3>2, <3>3 DEF StampOK, LastStamped
    <2> QED
      BY <1>4, <2>1, <2>2 DEF LineInv, StampOK
  <1> QED
    BY <1>1, <1>3, <1>7, <1>9 DEF LineInv

(* An event is discarded, refused or accepted. *)
LEMMA ReceiveLineInv ==
    TypeOK /\ LineInv /\ (DiscardContinuation \/ RefuseLogEvent \/ AcceptLogEvent
                            \/ AcceptAfterPush) => LineInv'
  <1> SUFFICES ASSUME TypeOK, LineInv,
                      \/ DiscardContinuation \/ RefuseLogEvent
                      \/ AcceptLogEvent \/ AcceptAfterPush
               PROVE  LineInv'
    OBVIOUS
  <1> USE DEF callerVars, batchVars, pushVars
  <1>1. /\ ReceiveLogEvent /\ added' = added
        /\ \/ IsContinuationOfTruncated /\ UNCHANGED lineVars
           \/ ~IsContinuationOfTruncated /\ UpdateLine
    BY DEF DiscardContinuation, RefuseLogEvent, AcceptLogEvent, AcceptAfterPush
  <1>2. ChanIsSuffix /\ LineOK /\ StampOK /\ AcceptedOK /\ EventsOK
    BY DEF LineInv
  <1>3. Grows /\ ChanIsSuffix' /\ LineOK' /\ StampOK'
    BY <1>1, <1>2, ReceiveGrows, ReceiveLine, ReceiveStamp
  <1>4. CASE DiscardContinuation \/ RefuseLogEvent
    <2>1. UNCHANGED <<accepted, pending, logEventBatch, pushChan, handed>>
      BY <1>4 DEF DiscardContinuation, RefuseLogEvent
    <2> QED
      BY <1>2, <1>3, <2>1, OldEventsOK DEF LineInv
  <1>5. CASE AcceptLogEvent \/ AcceptAfterPush
    <2>1. /\ ~IsContinuationOfTruncated /\ UpdateLine /\ UNCHANGED <<pushChan, handed>>
          /\ accepted' = Append(accepted, [id |-> Received.id, at |-> now])
      BY <1>5 DEF AcceptLogEvent, AcceptAfterPush, RecordAccepted
    <2>2. Received \in Event
      BY <1>1, ReceivedIsEvent DEF ReceiveLogEvent
    <2>3. PICK e \in Event : e = Received
      BY <2>2
    <2>4. EventStamped(e)' /\ \A a : a.id = e.id => NotCut(a)'
      BY <1>1, <1>2, <2>1, <2>3, ReceivedStamped
    <2>5. AcceptedOK'
      <3>1. [id |-> Received.id, at |-> now] \in AcceptedRecord
        BY <2>2, NowIsNat DEF Event, AcceptedRecord
      <3>2. \A i \in 1..Len(accepted') :
               \/ i \in 1..Len(accepted) /\ accepted'[i] = accepted[i]
               \/ accepted'[i].id = Received.id
        BY <2>1, <3>1, AppendKeeps DEF TypeOK
      <3>3. \A i \in 1..Len(accepted) : \A a : a = accepted[i] => NotCut(a)'
        BY <1>2, <1>3, OldEventsOK
      <3> QED
        BY <2>3, <2>4, <3>2, <3>3 DEF AcceptedOK
    <2>6. /\ \A x \in pending : EventStamped(x)'
          /\ \A b : BatchStamped(b) => BatchStamped(b)'
      BY <1>2, <1>3, EventStampedStable, BatchStampedStable DEF EventsOK
    <2>7. CASE AcceptLogEvent
      <3>1. UNCHANGED pending /\ logEventBatch' = AddLogEvent(logEventBatch, e)
        BY <2>3, <2>7 DEF AcceptLogEvent, AcceptInto
      <3>2. logEventBatch \in Batch
        BY DEF TypeOK
      <3>3. PICK b \in Batch : b = logEventBatch
        BY <3>2
      <3>4. BatchStamped(b)'
        BY <1>2, <2>6, <3>3 DEF EventsOK
      <3>5. PICK c : c = AddLogEvent(b, e)
        OBVIOUS
      <3>6. BatchStamped(c)'
        BY <2>4, <3>4, <3>5, AddStamped
      <3>7. EventsOK'
        BY <1>2, <2>1, <2>6, <3>1, <3>3, <3>5, <3>6 DEF EventsOK
      <3> QED
        BY <1>3, <2>5, <3>7 DEF LineInv
    <2>8. CASE AcceptAfterPush
      <3>1. UNCHANGED logEventBatch /\ pending' = {e}
        BY <2>3, <2>8 DEF AcceptAfterPush
      <3>2. EventsOK'
        BY <1>2, <2>1, <2>4, <2>6, <3>1 DEF EventsOK
      <3> QED
        BY <1>3, <2>5, <3>2 DEF LineInv
    <2> QED
      BY <1>5, <2>7, <2>8
  <1> QED
    BY <1>4, <1>5

(* Every other step moves batches, if anything. *)
LEMMA OtherGrows ==
    ASSUME TypeOK, LineInv,
           UNCHANGED <<added, logEventChan, curLineTruncated, lastAccurateTimestamp, accepted>>
    PROVE  Grows /\ ChanIsSuffix' /\ LineOK' /\ StampOK' /\ AcceptedOK'
  <1>1. ReceivedCount' = ReceivedCount /\ ReceivedCount \in 0..Len(added)
    BY CountInRange DEF ReceivedCount, LineInv
  <1>2. Grows /\ ChanIsSuffix'
    BY <1>1 DEF Grows, LineInv, ChanIsSuffix, TypeOK
  <1>3. LineOK'
    BY <1>1 DEF LineInv, LineOK, LineTruncatedBefore
  <1>4. /\ \A k \in 1..ReceivedCount : Stamped(k)' <=> Stamped(k)
        /\ \A k : ContinuesTruncatedLine(k)' <=> ContinuesTruncatedLine(k)
    BY DEF Stamped, ContinuesTruncatedLine
  <1>5. StampOK'
    BY <1>1, <1>4 DEF LineInv, StampOK, NoneStamped, LastStamped
  <1>6. AcceptedOK'
    BY <1>2, OldEventsOK DEF LineInv
  <1> QED
    BY <1>2, <1>3, <1>5, <1>6

LEMMA SendLineInv == TypeOK /\ LineInv /\ SendBatch => LineInv'
  <1> SUFFICES ASSUME TypeOK, LineInv, SendBatch PROVE LineInv'
    OBVIOUS
  <1>1. /\ UNCHANGED <<added, logEventChan, curLineTruncated, lastAccurateTimestamp,
                       accepted, handed>>
        /\ pending' = {} /\ pushChan' = Append(pushChan, logEventBatch)
    BY DEF SendBatch, callerVars, lineVars, pushVars
  <1>2. Grows /\ ChanIsSuffix' /\ LineOK' /\ StampOK' /\ AcceptedOK' /\ EventsOK
    BY <1>1, OtherGrows DEF LineInv
  <1>3. /\ \A x \in pending : EventStamped(x)'
        /\ \A b : BatchStamped(b) => BatchStamped(b)'
    BY <1>2, EventStampedStable, BatchStampedStable DEF EventsOK
  <1>4. PICK b : b = NewLogEventBatch(now)
    OBVIOUS
  <1>5. b \in Batch /\ BatchStamped(b)'
    BY <1>4, NewBatchGood, NewStamped, NowIsNat
  <1>6. PICK c : c = logEventBatch'
    OBVIOUS
  <1>7. BatchStamped(c)'
    <2>1. CASE pending = {} /\ logEventBatch' = NewLogEventBatch(now)
      BY <1>4, <1>5, <1>6, <2>1
    <2>2. ASSUME NEW e \in pending, AcceptInto(NewLogEventBatch(now), e)
          PROVE  BatchStamped(c)'
      <3>1. e \in Event /\ EventStamped(e)' /\ c = AddLogEvent(b, e)
        BY <1>3, <1>4, <1>6, <2>2 DEF TypeOK, AcceptInto
      <3> QED
        BY <1>5, <3>1, AddStamped
    <2> QED
      BY <2>1, <2>2 DEF SendBatch
  <1>8. \A i \in 1..Len(pushChan') : \/ i \in 1..Len(pushChan) /\ pushChan'[i] = pushChan[i]
                                     \/ pushChan'[i] = logEventBatch
    BY <1>1, AppendKeeps DEF TypeOK
  <1>9. EventsOK'
    BY <1>1, <1>2, <1>3, <1>6, <1>7, <1>8 DEF EventsOK
  <1> QED
    BY <1>2, <1>9 DEF LineInv

LEMMA PushLineInv == TypeOK /\ LineInv /\ PushBatch => LineInv'
  <1> SUFFICES ASSUME TypeOK, LineInv, PushBatch PROVE LineInv'
    OBVIOUS
  <1>1. /\ UNCHANGED <<added, logEventChan, curLineTruncated, lastAccurateTimestamp,
                       accepted, pending, logEventBatch>>
        /\ pushChan # <<>> /\ pushChan' = Tail(pushChan)
        /\ handed' = Append(handed, Head(pushChan))
    BY DEF PushBatch, callerVars, lineVars, batchVars
  <1>2. Grows /\ ChanIsSuffix' /\ LineOK' /\ StampOK' /\ AcceptedOK' /\ EventsOK
    BY <1>1, OtherGrows DEF LineInv
  <1>3. /\ \A x \in pending : EventStamped(x)'
        /\ \A b : BatchStamped(b) => BatchStamped(b)'
    BY <1>2, EventStampedStable, BatchStampedStable DEF EventsOK
  <1>4. /\ Head(pushChan) = pushChan[1] /\ 1 \in 1..Len(pushChan) /\ Head(pushChan) \in Batch
        /\ \A i \in 1..Len(pushChan') :
              i + 1 \in 1..Len(pushChan) /\ pushChan'[i] = pushChan[i + 1]
    BY <1>1, TailKeeps DEF TypeOK
  <1>5. \A i \in 1..Len(handed') : \/ i \in 1..Len(handed) /\ handed'[i] = handed[i]
                                   \/ handed'[i] = pushChan[1]
    BY <1>1, <1>4, AppendKeeps DEF TypeOK
  <1>6. EventsOK'
    BY <1>1, <1>2, <1>3, <1>4, <1>5 DEF EventsOK
  <1> QED
    BY <1>2, <1>6 DEF LineInv

LEMMA RestLineInv ==
    /\ TypeOK /\ LineInv
    /\ \/ CloseShutdownChan \/ Tick \/ ReceiveTick \/ ReceiveShutdown
       \/ PublisherClosed \/ PushShutdown \/ UNCHANGED vars
    => LineInv'
  <1> SUFFICES ASSUME TypeOK, LineInv,
                      \/ CloseShutdownChan \/ Tick \/ ReceiveTick \/ ReceiveShutdown
                      \/ PublisherClosed \/ PushShutdown \/ UNCHANGED vars
               PROVE  LineInv'
    OBVIOUS
  <1>1. UNCHANGED <<added, logEventChan, curLineTruncated, lastAccurateTimestamp,
                    accepted, pending, logEventBatch, pushChan, handed>>
    BY DEF CloseShutdownChan, Tick, ReceiveTick, ReceiveShutdown, PublisherClosed, PushShutdown,
           vars, clockVars, callerVars, lineVars, batchVars, pushVars
  <1>2. Grows /\ ChanIsSuffix' /\ LineOK' /\ StampOK' /\ AcceptedOK'
    BY <1>1, OtherGrows
  <1>3. EventsOK'
    BY <1>1, <1>2, OldEventsOK DEF LineInv
  <1> QED
    BY <1>2, <1>3 DEF LineInv

(* A batch is handed over, in pushChan, or the one being filled. *)
LEMMA ConcatPlace ==
    ASSUME NEW S, NEW a \in Seq(S), NEW b \in Seq(S), NEW x, x \in S,
           NEW i \in DOMAIN (a \o b \o <<x>>)
    PROVE  \/ i \in 1..Len(a) /\ (a \o b \o <<x>>)[i] = a[i]
           \/ \E k \in 1..Len(b) : (a \o b \o <<x>>)[i] = b[k]
           \/ (a \o b \o <<x>>)[i] = x
  <1>1. PICK c \in Seq(S) : c = a \o b
    <2>1. a \o b \in Seq(S)
      OBVIOUS
    <2> QED
      BY <2>1
  <1>2. /\ Len(a) \in Nat /\ Len(b) \in Nat /\ Len(c) = Len(a) + Len(b)
        /\ \A j \in 1..Len(c) : c[j] = IF j <= Len(a) THEN a[j] ELSE b[j - Len(a)]
    BY <1>1
  <1>3. i \in 1..(Len(c) + 1) /\ (c \o <<x>>)[i] = IF i <= Len(c) THEN c[i] ELSE x
    BY <1>1, <1>2
  <1>4. CASE i <= Len(a)
    BY <1>1, <1>2, <1>3, <1>4
  <1>5. CASE Len(a) < i /\ i <= Len(c)
    <2>1. i - Len(a) \in 1..Len(b) /\ c[i] = b[i - Len(a)]
      BY <1>2, <1>3, <1>5
    <2> QED
      BY <1>1, <1>3, <1>5, <2>1
  <1>6. CASE Len(c) < i
    BY <1>1, <1>2, <1>3, <1>6
  <1> QED
    BY <1>2, <1>3, <1>4, <1>5, <1>6

LEMMA PlaceOfBatch ==
    ASSUME TypeOK, NEW i \in DOMAIN Batches
    PROVE  \/ i \in 1..Len(handed) /\ Batches[i] = handed[i]
           \/ \E k \in 1..Len(pushChan) : Batches[i] = pushChan[k]
           \/ Batches[i] = logEventBatch
  <1>1. PICK h \in Seq(Batch), p \in Seq(Batch), b \in Batch :
           h = handed /\ p = pushChan /\ b = logEventBatch
    BY DEF TypeOK
  <1> QED
    BY <1>1, ConcatPlace DEF Batches

LEMMA LineInvariance == Spec => []LineInv
  <1>1. TypeOK /\ LineInv /\ [Next]_vars => LineInv'
    BY AddLineInv, ReceiveLineInv, SendLineInv, PushLineInv, RestLineInv
    DEF Next, ProcessStep, PushStep
  <1> QED
    BY InitLineInv, TypeCorrect, <1>1, PTL DEF Spec

-----------------------------------------------------------------------------

(* Once an event of a line is cut, no further event of the line is         *)
(* accepted, whatever is refused in between: for any events and limits.    *)
THEOREM LineEnds == Spec => []TruncatedLineEnds
  <1>1. ASSUME TypeOK, LineInv PROVE TruncatedLineEnds
    <2>1. DOMAIN accepted = 1..Len(accepted)
      BY <1>1 DEF TypeOK
    <2> QED
      BY <1>1, <2>1 DEF LineInv, AcceptedOK, NotCut, TruncatedLineEnds
  <1> QED
    BY LineInvariance, TypeCorrect, <1>1, PTL

(* Every event in a batch has its own timestamp, that of the latest event  *)
(* before it that had one and was not discarded, or the time it was        *)
(* generated: for any events and limits.                                   *)
THEOREM Timestamps == Spec => []TimestampsFilledIn
  <1>1. ASSUME TypeOK, LineInv PROVE TimestampsFilledIn
    <2>1. ASSUME NEW b, BatchStamped(b), NEW j \in 1..Len(b.logEvents)
          PROVE  LET e      == b.logEvents[j]
                     before == {m \in 1..e.id : Stamped(m)}
                 IN  e.timestamp = IF before = {} THEN added[e.id].logGeneratedTime
                                   ELSE added[Max(before)].timestamp
      <3> DEFINE e      == b.logEvents[j]
                 before == {m \in 1..e.id : Stamped(m)}
      <3>1. EventStamped(e)
        BY <2>1 DEF BatchStamped
      <3> HIDE DEF e
      <3>2. CASE NoneStamped(e.id) /\ e.timestamp = added[e.id].logGeneratedTime
        <4>1. before = {}
          BY <3>2 DEF NoneStamped
        <4> QED
          BY <3>2, <4>1 DEF e
      <3>3. ASSUME NEW m \in 1..e.id, LastStamped(e.id, m), e.timestamp = added[m].timestamp
            PROVE  before # {} /\ e.timestamp = added[Max(before)].timestamp
        <4>1. m \in before /\ \A k \in before : k <= m /\ k \in Int
          BY <3>3 DEF LastStamped
        <4>2. \A x \in before : (\A y \in before : x >= y) <=> x = m
          BY <4>1
        <4>3. Max(before) = m
          <5>1. Max(before) = CHOOSE x \in before : \A y \in before : x >= y
            BY DEF Max
          <5> HIDE DEF before
          <5>2. /\ Max(before) \in before
                /\ \A y \in before : Max(before) >= y
            BY <4>1, <4>2, <5>1
          <5> QED
            BY <4>2, <5>2
        <4> QED
          BY <3>3, <4>1, <4>3
      <3> QED
        BY <3>1, <3>2, <3>3 DEF EventStamped, e
    <2>2. ASSUME NEW i \in DOMAIN Batches
          PROVE  BatchStamped(Batches[i]) /\ Batches[i] \in Batch
      <3>1. /\ handed \in Seq(Batch) /\ pushChan \in Seq(Batch)
            /\ <<logEventBatch>> \in Seq(Batch)
        BY <1>1 DEF TypeOK
      <3>2. \/ i \in 1..Len(handed) /\ Batches[i] = handed[i]
            \/ \E k \in 1..Len(pushChan) : Batches[i] = pushChan[k]
            \/ Batches[i] = logEventBatch
        BY <3>1, <1>1, <2>2, PlaceOfBatch
      <3>3. Batches[i] \in Batch
        BY <3>1, <3>2, <1>1 DEF TypeOK
      <3> QED
        BY <1>1, <3>2, <3>3 DEF LineInv, EventsOK
    <2>3. ASSUME NEW i \in DOMAIN Batches
          PROVE  DOMAIN Batches[i].logEvents = 1..Len(Batches[i].logEvents)
      BY <2>2, <2>3 DEF Batch
    <2> QED
      BY <2>1, <2>2, <2>3 DEF TimestampsFilledIn
  <1> QED
    BY LineInvariance, TypeCorrect, <1>1, PTL

=============================================================================
