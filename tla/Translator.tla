---------------------------- MODULE Translator ----------------------------
(***************************************************************************)
(* translator/metric_translator.go and the shared map currentState it      *)
(* keeps (mapWithExpiry): every data point of a request becomes a metric   *)
(* with fields and dimensions; the value of a double or an integer point   *)
(* becomes its rate of change since the point stored last under its key.   *)
(*                                                                         *)
(* Each call of ConsumeMetrics translates in the goroutine that called it, *)
(* point by point.  Get and Set each lock the map, calculateRate does not. *)
(* A rate is kept as its two terms, the change and the time it took; a     *)
(* time of 0 stands for the rate 0 of a point without a usable predecessor.*)
(* Nothing calls CleanUp, so entries never expire.  Histograms make no     *)
(* metric.  A string is a sequence of characters and \o joins two; SHA-1   *)
(* is taken to keep different strings apart.  Nobody recovers from a panic.*)
(***************************************************************************)
EXTENDS Integers, SequencesExt

CONSTANTS
    Callers,                \* goroutines in ConsumeMetrics
    Metrics,                \* metrics, with the labels of their points
    OTLib,                  \* OtlibDimensionKey
    SortedNames,            \* the names of fields, as sort.Strings orders them
    MinTimeDiff,
    MaxNow,                 \* bound on the clock
    MaxValue,               \* bound on the values
    MaxPoints               \* bound on the number of points

ASSUME TranslatorAssumption ==
    /\ \A m \in Metrics :
          /\ DOMAIN m = {"name", "kind", "labels", "library"}
          /\ m.kind \in {"double", "integer", "summary"}
          /\ m.labels \in [DOMAIN m.labels -> STRING] /\ IsFiniteSet(DOMAIN m.labels)
          /\ DOMAIN m.labels \cup {OTLib, m.name} \subseteq ToSet(SortedNames)
    /\ SortedNames \in Seq(STRING) /\ IsInjective(SortedNames)
    /\ MinTimeDiff \in Nat
    /\ MaxNow \in Nat /\ MaxValue \in Nat /\ MaxPoints \in Nat

VARIABLES
    now,                    \* the clock, in the unit of timestamps
    caller,                 \* where each caller is
    point,                  \* the point each caller translates
    previous,               \* what each caller got from the map
    currentState,           \* the map: a point or NoPoint for each key
    started,                \* number of points so far
    emitted,                \* history: the points with their rates and dimensions
    overlapped              \* history: keys two calls held at the same time

vars == <<now, caller, point, previous, currentState, started, emitted, overlapped>>

Points  == [metric : Metrics, value : 0..MaxValue, timestamp : 0..MaxNow]
NoPoint == [value |-> 0, timestamp |-> -1]

-----------------------------------------------------------------------------
(* Fields, keys and dimensions of a data point. *)

(* What calculateRate writes for the field named k: the name and the value *)
(* of a string, only the name of an int64, nothing for a float64.  The     *)
(* library replaces a label OTLib, the metric either one of its own name.  *)
Written(m, k) ==
    CASE k = m.name -> IF m.kind = "integer" THEN k ELSE ""
      [] k # m.name /\ k = OTLib -> k \o m.library
      [] OTHER -> k \o m.labels[k]

FieldNames(m) == SelectSeq(SortedNames, LAMBDA k : k \in DOMAIN m.labels \cup {OTLib, m.name})

(* The key: all that is written, one field after the other, with nothing   *)
(* in between.                                                             *)
Key(m) == FoldLeft(LAMBDA written, k : written \o Written(m, k), "", FieldNames(m))
Keys == {Key(m) : m \in Metrics}

(* Mutant of OneRollup: a label is rolled up on its own, without OTLib.    *)
OneRollupAlone(k) == {k}

OneRollup(k) == {OTLib, k}

(* The lists of dimensions; only integer points are rolled up.             *)
Dimensions(m) ==
    LET labels == SetToSeq(DOMAIN m.labels)
        zero   == IF labels = <<>> THEN <<>> ELSE <<{OTLib}>>
        ones   == [i \in DOMAIN labels |-> OneRollup(labels[i])]
    IN  <<DOMAIN m.labels \cup {OTLib}>> \o (IF m.kind = "integer" THEN zero \o ones ELSE <<>>)

-----------------------------------------------------------------------------

Init ==
    /\ now = 0
    /\ caller = [c \in Callers |-> "idle"]
    /\ point = [c \in Callers |-> NoPoint]
    /\ previous = [c \in Callers |-> NoPoint]
    /\ currentState = [k \in Keys |-> NoPoint]
    /\ started = 0
    /\ emitted = <<>>
    /\ overlapped = {}

Tick ==
    /\ now < MaxNow
    /\ now' = now + 1
    /\ UNCHANGED <<caller, point, previous, currentState, started, emitted, overlapped>>

Emit(p, rate) ==
    emitted' = Append(emitted, [point |-> p, rate |-> rate, dimensions |-> Dimensions(p.metric)])

NoRate == [change |-> 0, time |-> 0]

InProgress(k) == {c \in Callers : caller[c] # "idle" /\ Key(point[c].metric) = k}

(* A double or an integer point: the timestamp is read, then calculateRate *)
(* is called.                                                              *)
BuildCWMetric(c) ==
    /\ caller[c] = "idle" /\ started < MaxPoints
    /\ started' = started + 1
    /\ caller' = [caller EXCEPT ![c] = "get"]
    /\ \E m \in Metrics, v \in 0..MaxValue :
          /\ m.kind # "summary"
          /\ point' = [point EXCEPT ![c] = [metric |-> m, value |-> v, timestamp |-> now]]
          /\ overlapped' = overlapped \cup (IF InProgress(Key(m)) = {} THEN {} ELSE {Key(m)})
    /\ UNCHANGED <<now, previous, currentState, emitted>>

(* A summary point is passed on as it is, with no rate and no state.       *)
BuildCWMetricFromSDP(c) ==
    /\ caller[c] = "idle" /\ started < MaxPoints
    /\ started' = started + 1
    /\ \E m \in Metrics :
          m.kind = "summary" /\ Emit([metric |-> m, value |-> 0, timestamp |-> now], NoRate)
    /\ UNCHANGED <<now, caller, point, previous, currentState, overlapped>>

GetPrevious(c) ==
    /\ caller[c] = "get"
    /\ previous' = [previous EXCEPT ![c] = currentState[Key(point[c].metric)]]
    /\ caller' = [caller EXCEPT ![c] = "set"]
    /\ UNCHANGED <<now, point, currentState, started, emitted, overlapped>>

(* Mutant of Rate: a counter that was reset is not noticed.                *)
RateOfAnyChange(before, p) ==
    IF before # NoPoint /\ p.timestamp - before.timestamp > MinTimeDiff
    THEN [change |-> p.value - before.value, time |-> p.timestamp - before.timestamp]
    ELSE NoRate

Rate(before, p) ==
    LET change == p.value - before.value
        time   == p.timestamp - before.timestamp
    IN  IF before # NoPoint /\ time > MinTimeDiff /\ change >= 0
        THEN [change |-> change, time |-> time]
        ELSE NoRate

(* Mutants of Stored: the state is kept once it is there; it is stamped    *)
(* with the time of Set.                                                   *)
StoredOnce(c) == IF previous[c] = NoPoint THEN point[c] ELSE previous[c]
StoredLater(c) == [point[c] EXCEPT !.timestamp = now]

Stored(c) == point[c]

(* Mutant of KeepsKind: the kinds of the values are not asserted.          *)
KeepsAnyKind(c) == TRUE

(* The point stored under the key has a value of the same type. *)
KeepsKind(c) == previous[c] # NoPoint => previous[c].metric.kind = point[c].metric.kind

(* prevStats.value.(float64), or .(int64), panics.                         *)
TypeAssertionFails(c) ==
    /\ caller[c] = "set" /\ ~ KeepsKind(c)
    /\ caller' = [caller EXCEPT ![c] = "panicked"]
    /\ UNCHANGED <<now, point, previous, currentState, started, emitted, overlapped>>

SetState(c) ==
    /\ caller[c] = "set" /\ KeepsKind(c)
    /\ currentState' = [currentState EXCEPT ![Key(point[c].metric)] = Stored(c)]
    /\ Emit(point[c], Rate(previous[c], point[c]))
    /\ caller' = [caller EXCEPT ![c] = "idle"]
    /\ point' = [point EXCEPT ![c] = NoPoint] /\ previous' = [previous EXCEPT ![c] = NoPoint]
    /\ UNCHANGED <<now, started, overlapped>>

ConsumeStep(c) ==
    \/ BuildCWMetric(c) \/ BuildCWMetricFromSDP(c) \/ GetPrevious(c)
    \/ TypeAssertionFails(c) \/ SetState(c)

(* A panic ends the process with all its goroutines. *)
ProcessLives == \A c \in Callers : caller[c] # "panicked"

Next ==
    /\ ProcessLives
    /\ Tick \/ \E c \in Callers : ConsumeStep(c)

Spec == Init /\ [][Next]_vars

-----------------------------------------------------------------------------

(* The types of the state: no rate is negative, even after a counter was   *)
(* reset, and no entry of the map is from the future.                      *)
TypeOK ==
    /\ now \in 0..MaxNow
    /\ caller \in [Callers -> {"idle", "get", "set", "panicked"}]
    /\ point \in [Callers -> Points \cup {NoPoint}]
    /\ previous \in [Callers -> Points \cup {NoPoint}]
    /\ currentState \in [Keys -> Points \cup {NoPoint}]
    /\ \A k \in Keys : currentState[k].timestamp <= now
    /\ started \in 0..MaxPoints
    /\ \A i \in DOMAIN emitted :
          /\ emitted[i].point \in Points
          /\ emitted[i].rate \in [change : 0..MaxValue, time : 0..MaxNow]
    /\ overlapped \subseteq Keys

HasRate(r) == r.rate.time > 0

(* Point q is what the rate of r is measured from. *)
MeasuredFrom(r, q) ==
    /\ q.value = r.point.value - r.rate.change
    /\ q.timestamp = r.point.timestamp - r.rate.time

(* A rate is measured from one earlier point, value and timestamp together,*)
(* however the calls of calculateRate overlap: a point whose fields wrote  *)
(* the same key, be it of other labels or, of a double, of another metric, *)
(* but never one of the other kind.                                        *)
RatesAreSlopes ==
    \A i \in DOMAIN emitted : HasRate(emitted[i]) =>
        \E j \in 1..(i - 1) :
            /\ Key(emitted[j].point.metric) = Key(emitted[i].point.metric)
            /\ emitted[j].point.metric.kind = emitted[i].point.metric.kind
            /\ MeasuredFrom(emitted[i], emitted[j].point)

(* As long as no two calls held a key at the same time, the intervals its  *)
(* rates are measured over follow one another: no increase of a counter is *)
(* reported twice.  Overlapping calls break it, since the older point may  *)
(* be stored last.                                                         *)
NoIncreaseReportedTwice ==
    \A i, j \in DOMAIN emitted :
        LET k == Key(emitted[i].point.metric)
        IN  /\ i < j /\ HasRate(emitted[i]) /\ HasRate(emitted[j])
            /\ Key(emitted[j].point.metric) = k /\ k \notin overlapped
            => emitted[j].point.timestamp - emitted[j].rate.time >= emitted[i].point.timestamp

(* The dimension sets of an integer point roll its labels up: all of them, *)
(* each alone and none, always with the library.  Each is listed once,     *)
(* unless there is exactly one label, whose set is listed twice, or OTLib  *)
(* is a label itself.                                                      *)
RollupsListed ==
    \A i \in DOMAIN emitted :
        LET m      == emitted[i].point.metric
            labels == DOMAIN m.labels
            listed == emitted[i].dimensions
        IN  m.kind = "integer" =>
              /\ ToSet(listed) = {s \cup {OTLib} :
                    s \in {t \in SUBSET labels : t = labels \/ \A k, l \in t : k = l}}
              /\ OTLib \notin labels => \A k, l \in labels : k # l => IsInjective(listed)

=============================================================================
