-------------------------- MODULE LogEventBatch --------------------------
(***************************************************************************)
(* Log events and batches of log events (pusher.go, LogEvent and           *)
(* LogEventBatch): what a request to CloudWatch Logs may contain.          *)
(*                                                                         *)
(* A message is its length.  Times are integers of one unit; a timestamp   *)
(* of 0 means "not set", as in the code.                                   *)
(***************************************************************************)
EXTENDS Integers, Sequences

CONSTANTS
    PerEventHeaderBytes,
    MaxEventPayloadBytes,
    MaxRequestEventCount,
    MaxRequestPayloadBytes,
    Day,                    \* 24 hours: the widest span of one request
    MaxAge,                 \* 14 days: older events are refused
    MaxAhead                \* 2 hours: events further ahead are refused

(* The code's values (26, 256 KB, 10000, 1 MB, 24 h, 14 days, 2 h) satisfy *)
(* this; pusher.go:16 states the assumption on MaxEventPayloadBytes.       *)
ASSUME LimitsAssumption ==
    /\ PerEventHeaderBytes \in Nat
    /\ MaxEventPayloadBytes \in Nat /\ MaxEventPayloadBytes > PerEventHeaderBytes
    /\ MaxRequestEventCount \in Nat \ {0}
    /\ MaxRequestPayloadBytes \in Nat
    /\ MaxEventPayloadBytes <= MaxRequestPayloadBytes
    /\ Day \in Nat /\ MaxAge \in Nat /\ MaxAhead \in Nat

Event == [id : Nat, timestamp : Int, length : Nat]

EventPayloadBytes(length) == length + PerEventHeaderBytes

IsTooLong(length) == EventPayloadBytes(length) > MaxEventPayloadBytes

(* A message cut by truncateIfNeeded, suffix included, fills an event.     *)
Truncated(length) ==
    IF IsTooLong(length) THEN MaxEventPayloadBytes - PerEventHeaderBytes ELSE length

(* addLogEvent refuses an empty message, and a timestamp too far from now. *)
IsAcceptable(e, now) ==
    /\ e.length # 0
    /\ now - e.timestamp <= MaxAge
    /\ e.timestamp - now <= MaxAhead

-----------------------------------------------------------------------------

Batch == [logEvents : Seq(Event), byteTotal : Nat,
          minTimestampInMillis : Int, maxTimestampInMillis : Int,
          creationTime : Nat]

NewLogEventBatch(now) ==
    [logEvents |-> <<>>, byteTotal |-> 0,
     minTimestampInMillis |-> 0, maxTimestampInMillis |-> 0,
     creationTime |-> now]

(* Mutant of TimestampWithin24Hours: only the lower end is compared.       *)
TimestampNotTooLate(b, target) ==
    b.minTimestampInMillis # 0 => target - b.minTimestampInMillis <= Day

TimestampWithin24Hours(b, target) ==
    \/ b.minTimestampInMillis = 0
    \/ b.maxTimestampInMillis = 0
    \/ /\ target - b.minTimestampInMillis <= Day
       /\ b.maxTimestampInMillis - target <= Day

(* newLogEventBatchIfNeeded: the batch is pushed because it is old, ...    *)
IsExpired(b, now, forceFlushInterval) ==
    now - b.creationTime > forceFlushInterval /\ b.byteTotal > 0

(* ... or full, ...                                                        *)
IsFull(b) == Len(b.logEvents) = MaxRequestEventCount

(* ... or because the next event does not fit.                             *)
DoesNotFit(b, e) ==
    \/ b.byteTotal + EventPayloadBytes(e.length) > MaxRequestPayloadBytes
    \/ ~TimestampWithin24Hours(b, e.timestamp)

(* Mutant of AddLogEvent: the header is not counted.                       *)
AddLogEventWithoutHeader(b, e) ==
    [b EXCEPT !.logEvents = Append(@, e), !.byteTotal = @ + e.length]

(* The second half of addLogEvent. *)
AddLogEvent(b, e) ==
    LET min == b.minTimestampInMillis
        max == b.maxTimestampInMillis
    IN  [b EXCEPT
           !.logEvents = Append(@, e),
           !.byteTotal = @ + EventPayloadBytes(e.length),
           !.minTimestampInMillis = IF min = 0 \/ min > e.timestamp THEN e.timestamp ELSE min,
           !.maxTimestampInMillis = IF max = 0 \/ max < e.timestamp THEN e.timestamp ELSE max]

=============================================================================
