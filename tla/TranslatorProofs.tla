------------------------ MODULE TranslatorProofs ------------------------
(***************************************************************************)
(* Theorems about Translator for any metrics, any number of callers and    *)
(* any bounds.  currentState is read and written in two steps, so that a   *)
(* caller's previous point may be out of date; the invariant says that it  *)
(* nevertheless is a point emitted before, under the same key.             *)
(***************************************************************************)
EXTENDS Translator, FiniteSetTheorems, TLAPS

Rates == [change : 0..MaxValue, time : 0..MaxNow]

Emission(p, r) == [point |-> p, rate |-> r, dimensions |-> Dimensions(p.metric)]

EmittedOK == emitted \in Seq({Emission(p, r) : p \in Points, r \in Rates})

(* Nothing, or a double or an integer point emitted under key k.           *)
Known(k, p) ==
    p # NoPoint =>
        /\ p \in Points /\ p.metric.kind # "summary" /\ Key(p.metric) = k
        /\ \E j \in 1..Len(emitted) : emitted[j].point = p

StateOK == \A k \in Keys : Known(k, currentState[k]) /\ currentState[k].timestamp <= now

CallersOK ==
    \A c \in Callers : caller[c] # "idle" =>
        /\ point[c] \in Points /\ point[c].metric.kind # "summary"
        /\ point[c].timestamp <= now
        /\ caller[c] = "set" => Known(Key(point[c].metric), previous[c])

IInv == TypeOK /\ EmittedOK /\ StateOK /\ CallersOK /\ RatesAreSlopes

-----------------------------------------------------------------------------
(* Lemmas about keys and rates. *)

LEMMA KeyType == ASSUME NEW m \in Metrics PROVE Key(m) \in Keys
  BY DEF Keys

(* A rate is no rate, or the slope from a point that exists.               *)
LEMMA RateFacts ==
    ASSUME NEW before \in Points \cup {NoPoint}, NEW p \in Points
    PROVE  /\ Rate(before, p) \in Rates
           /\ Rate(before, p).time > 0 =>
                /\ before # NoPoint
                /\ before.value = p.value - Rate(before, p).change
                /\ before.timestamp = p.timestamp - Rate(before, p).time
  <1> USE TranslatorAssumption DEF Rates
  <1>1. p.value \in 0..MaxValue /\ p.timestamp \in 0..MaxNow
    BY DEF Points
  <1>2. NoRate \in Rates /\ NoRate.time = 0
    BY DEF NoRate
  <1>3. CASE /\ before # NoPoint /\ p.timestamp - before.timestamp > MinTimeDiff
             /\ p.value - before.value >= 0
    <2>1. before.value \in 0..MaxValue /\ before.timestamp \in 0..MaxNow
      BY <1>3 DEF Points
    <2>2. Rate(before, p) = [change |-> p.value - before.value,
                             time |-> p.timestamp - before.timestamp]
      BY <1>3 DEF Rate
    <2> QED
      BY <1>1, <1>3, <2>1, <2>2
  <1>4. CASE ~ (/\ before # NoPoint /\ p.timestamp - before.timestamp > MinTimeDiff
                /\ p.value - before.value >= 0)
    <2>1. Rate(before, p) = NoRate
      BY <1>4 DEF Rate
    <2> QED
      BY <1>2, <2>1
  <1> QED
    BY <1>3, <1>4

(* Emitting keeps what was emitted, and the types of it. *)
LEMMA EmitFacts ==
    ASSUME EmittedOK, NEW p \in Points, NEW r \in Rates, Emit(p, r)
    PROVE  /\ EmittedOK' /\ Len(emitted) \in Nat /\ Len(emitted') = Len(emitted) + 1
           /\ \A i \in 1..Len(emitted) : emitted'[i] = emitted[i]
           /\ emitted'[Len(emitted) + 1] = Emission(p, r)
           /\ \A k, q : Known(k, q) => Known(k, q)'
           /\ \A i \in DOMAIN emitted' : emitted'[i].point \in Points /\ emitted'[i].rate \in Rates
  <1> DEFINE S == {Emission(q, x) : q \in Points, x \in Rates}
  <1>1. emitted \in Seq(S) /\ Emission(p, r) \in S
    BY DEF EmittedOK
  <1>2. emitted' = Append(emitted, Emission(p, r))
    BY DEF Emit, Emission
  <1>3. \A e \in S : e.point \in Points /\ e.rate \in Rates
    BY DEF Emission
  <1> HIDE DEF S
  <1>4. /\ emitted' \in Seq(S) /\ Len(emitted) \in Nat /\ Len(emitted') = Len(emitted) + 1
        /\ \A i \in 1..Len(emitted) : emitted'[i] = emitted[i]
        /\ emitted'[Len(emitted) + 1] = Emission(p, r)
    BY <1>1, <1>2
  <1>5. EmittedOK'
    BY <1>4 DEF EmittedOK, S
  <1>6. ASSUME NEW k, NEW q, Known(k, q) PROVE Known(k, q)'
    <2>1. ASSUME NEW j \in 1..Len(emitted), emitted[j].point = q
          PROVE  j \in 1..Len(emitted') /\ emitted'[j].point = q
      BY <1>4, <2>1
    <2> QED
      BY <1>6, <2>1 DEF Known
  <1>7. ASSUME NEW i \in DOMAIN emitted'
        PROVE  emitted'[i].point \in Points /\ emitted'[i].rate \in Rates
    <2>1. emitted'[i] \in S
      BY <1>4
    <2> QED
      BY <1>3, <2>1
  <1> QED
    BY <1>4, <1>5, <1>6, <1>7

(* The slopes of what was emitted before stay slopes. *)
LEMMA SlopesKept ==
    ASSUME EmittedOK, RatesAreSlopes, NEW p \in Points, NEW r \in Rates, Emit(p, r),
           r.time > 0 =>
             \E j \in 1..Len(emitted) :
                /\ Key(emitted[j].point.metric) = Key(p.metric)
                /\ emitted[j].point.metric.kind = p.metric.kind
                /\ emitted[j].point.value = p.value - r.change
                /\ emitted[j].point.timestamp = p.timestamp - r.time
    PROVE  RatesAreSlopes'
  <1> DEFINE Slope(e, q) ==
               /\ Key(q.metric) = Key(e.point.metric)
               /\ q.metric.kind = e.point.metric.kind
               /\ MeasuredFrom(e, q)
  <1>1. /\ Len(emitted) \in Nat /\ Len(emitted') = Len(emitted) + 1
        /\ \A i \in 1..Len(emitted) : emitted'[i] = emitted[i]
        /\ emitted'[Len(emitted) + 1] = Emission(p, r)
        /\ DOMAIN emitted = 1..Len(emitted) /\ DOMAIN emitted' = 1..Len(emitted')
    BY EmitFacts DEF EmittedOK
  <1>2. ASSUME NEW i \in 1..Len(emitted'), HasRate(emitted'[i])
        PROVE  \E j \in 1..(i - 1) : Slope(emitted'[i], emitted'[j].point)
    <2>1. CASE i \in 1..Len(emitted)
      <3>1. PICK j \in 1..(i - 1) : Slope(emitted[i], emitted[j].point)
        BY <1>1, <1>2, <2>1 DEF RatesAreSlopes
      <3>2. j \in 1..Len(emitted)
        BY <1>1, <2>1
      <3>3. emitted'[i] = emitted[i] /\ emitted'[j] = emitted[j]
        BY <1>1, <2>1, <3>2
      <3> HIDE DEF Slope
      <3> QED
        BY <3>1, <3>3
    <2>2. CASE i = Len(emitted) + 1
      <3>1. emitted'[i] = Emission(p, r) /\ i - 1 = Len(emitted)
        BY <1>1, <2>2
      <3>2. r.time > 0
        BY <1>2, <3>1 DEF HasRate, Emission
      <3>3. PICK j \in 1..Len(emitted) : Slope(Emission(p, r), emitted[j].point)
        BY <3>2 DEF MeasuredFrom, Emission
      <3>4. emitted'[j] = emitted[j]
        BY <1>1
      <3> HIDE DEF Slope
      <3> QED
        BY <3>1, <3>3, <3>4
    <2> QED
      BY <1>1, <2>1, <2>2
  <1> QED
    BY <1>1, <1>2 DEF RatesAreSlopes

-----------------------------------------------------------------------------
(* The invariant, action by action. *)

LEMMA InitIInv == Init => IInv
  <1> SUFFICES ASSUME Init PROVE IInv
    OBVIOUS
  <1>1. EmittedOK /\ Len(emitted) = 0 /\ DOMAIN emitted = {}
    BY DEF Init, EmittedOK
  <1>2. TypeOK
    BY <1>1, TranslatorAssumption DEF Init, TypeOK, NoPoint
  <1>3. StateOK /\ CallersOK
    BY TranslatorAssumption DEF Init, StateOK, CallersOK, Known, NoPoint
  <1> QED
    BY <1>1, <1>2, <1>3 DEF IInv, RatesAreSlopes

LEMMA TickIInv == IInv /\ Tick => IInv'
  <1> SUFFICES ASSUME IInv, Tick PROVE IInv'
    OBVIOUS
  <1>1. /\ now' = now + 1 /\ now \in Nat /\ now' \in 0..MaxNow
        /\ UNCHANGED <<caller, point, previous, currentState, started, emitted, overlapped>>
    BY TranslatorAssumption DEF IInv, TypeOK, Tick
  <1>2. \A k \in Keys : currentState[k].timestamp \in Int
    BY DEF IInv, TypeOK, Points, NoPoint
  <1>3. StateOK' /\ TypeOK'
    BY <1>1, <1>2 DEF IInv, TypeOK, StateOK, Known
  <1>4. CallersOK'
    <2>1. \A c \in Callers : point[c] \in Points => point[c].timestamp \in Int
      BY DEF Points
    <2> QED
      BY <1>1, <2>1 DEF IInv, CallersOK, Known
  <1> QED
    BY <1>1, <1>3, <1>4 DEF IInv, EmittedOK, RatesAreSlopes

LEMMA BuildIInv == ASSUME IInv, NEW c \in Callers, BuildCWMetric(c) PROVE IInv'
  <1>1. PICK m \in Metrics, v \in 0..MaxValue :
          /\ m.kind # "summary"
          /\ point' = [point EXCEPT ![c] = [metric |-> m, value |-> v, timestamp |-> now]]
          /\ overlapped' = overlapped \cup (IF InProgress(Key(m)) = {} THEN {} ELSE {Key(m)})
    BY DEF BuildCWMetric
  <1> DEFINE p == [metric |-> m, value |-> v, timestamp |-> now]
  <1>2. p \in Points /\ p.metric = m /\ p.timestamp = now /\ now \in Int
    BY TranslatorAssumption DEF IInv, TypeOK, Points
  <1>3. TypeOK'
    <2>1. started' \in 0..MaxPoints
      BY TranslatorAssumption DEF IInv, TypeOK, BuildCWMetric
    <2>2. overlapped' \subseteq Keys
      BY <1>1, KeyType DEF IInv, TypeOK
    <2>3. /\ caller' \in [Callers -> {"idle", "get", "set", "panicked"}]
          /\ point' \in [Callers -> Points \cup {NoPoint}]
      BY <1>1, <1>2 DEF IInv, TypeOK, BuildCWMetric
    <2> QED
      BY <2>1, <2>2, <2>3 DEF IInv, TypeOK, BuildCWMetric
  <1>4. CallersOK'
    <2> SUFFICES ASSUME NEW d \in Callers, caller'[d] # "idle"
                 PROVE  /\ point'[d] \in Points /\ point'[d].metric.kind # "summary"
                        /\ point'[d].timestamp <= now
                        /\ caller'[d] = "set" => Known(Key(point'[d].metric), previous[d])
      BY DEF BuildCWMetric, CallersOK, Known
    <2>1. CASE d = c
      BY <1>1, <1>2, <2>1 DEF IInv, TypeOK, BuildCWMetric
    <2>2. CASE d # c
      BY <1>1, <2>2 DEF IInv, TypeOK, CallersOK, BuildCWMetric
    <2> QED
      BY <2>1, <2>2
  <1> QED
    <2>1. UNCHANGED <<now, currentState, emitted>> /\ EmittedOK /\ StateOK /\ RatesAreSlopes
      BY DEF IInv, BuildCWMetric
    <2>2. EmittedOK' /\ RatesAreSlopes'
      BY <2>1 DEF EmittedOK, RatesAreSlopes
    <2>3. StateOK'
      BY <2>1 DEF StateOK, Known
    <2> QED
      BY <1>3, <1>4, <2>2, <2>3 DEF IInv

LEMMA SummaryIInv == ASSUME IInv, NEW c \in Callers, BuildCWMetricFromSDP(c) PROVE IInv'
  <1>1. PICK m \in Metrics : Emit([metric |-> m, value |-> 0, timestamp |-> now], NoRate)
    BY DEF BuildCWMetricFromSDP
  <1> DEFINE p == [metric |-> m, value |-> 0, timestamp |-> now]
  <1>2. p \in Points /\ NoRate \in Rates /\ ~(NoRate.time > 0)
    BY TranslatorAssumption DEF IInv, TypeOK, Points, Rates, NoRate
  <1>3. /\ UNCHANGED <<now, caller, point, previous, currentState, overlapped>>
        /\ started' \in 0..MaxPoints
    BY TranslatorAssumption DEF IInv, TypeOK, BuildCWMetricFromSDP
  <1>4. /\ EmittedOK' /\ \A k, q : Known(k, q) => Known(k, q)'
        /\ \A i \in DOMAIN emitted' : emitted'[i].point \in Points /\ emitted'[i].rate \in Rates
    BY <1>1, <1>2, EmitFacts DEF IInv
  <1>5. RatesAreSlopes'
    BY <1>1, <1>2, SlopesKept DEF IInv
  <1>6. TypeOK'
    BY <1>3, <1>4 DEF IInv, TypeOK, Rates
  <1>7. StateOK' /\ CallersOK'
    BY <1>3, <1>4 DEF IInv, StateOK, CallersOK
  <1> QED
    BY <1>4, <1>5, <1>6, <1>7 DEF IInv

LEMMA GetIInv == ASSUME IInv, NEW c \in Callers, GetPrevious(c) PROVE IInv'
  <1> DEFINE k == Key(point[c].metric)
  <1>1. point[c] \in Points /\ k \in Keys
    <2>1. point[c] \in Points
      BY DEF IInv, CallersOK, GetPrevious
    <2> QED
      BY <2>1, KeyType DEF Points
  <1>2. currentState[k] \in Points \cup {NoPoint} /\ Known(k, currentState[k])
    BY <1>1 DEF IInv, TypeOK, StateOK
  <1>3. TypeOK'
    BY <1>2 DEF IInv, TypeOK, GetPrevious
  <1>4. CallersOK'
    <2> SUFFICES ASSUME NEW d \in Callers, caller'[d] # "idle"
                 PROVE  /\ point[d] \in Points /\ point[d].metric.kind # "summary"
                        /\ point[d].timestamp <= now
                        /\ caller'[d] = "set" => Known(Key(point[d].metric), previous'[d])
      BY DEF GetPrevious, CallersOK, Known
    <2>1. CASE d = c
      BY <1>1, <1>2, <2>1 DEF IInv, TypeOK, CallersOK, GetPrevious
    <2>2. CASE d # c
      BY <2>2 DEF IInv, TypeOK, CallersOK, GetPrevious
    <2> QED
      BY <2>1, <2>2
  <1> QED
    BY <1>3, <1>4 DEF IInv, GetPrevious, EmittedOK, StateOK, Known, RatesAreSlopes

LEMMA PanicIInv == ASSUME IInv, NEW c \in Callers, TypeAssertionFails(c) PROVE IInv'
  <1>1. /\ UNCHANGED <<now, point, previous, currentState, started, emitted, overlapped>>
        /\ caller[c] = "set" /\ caller' = [caller EXCEPT ![c] = "panicked"]
    BY DEF TypeAssertionFails
  <1>2. TypeOK'
    BY <1>1 DEF IInv, TypeOK
  <1>3. \A d \in Callers : /\ caller'[d] # "idle" => caller[d] # "idle"
                           /\ caller'[d] = "set" => caller[d] = "set"
    BY <1>1 DEF IInv, TypeOK
  <1>4. CallersOK'
    BY <1>1, <1>3 DEF IInv, CallersOK, Known
  <1> QED
    BY <1>1, <1>2, <1>4 DEF IInv, EmittedOK, StateOK, Known, RatesAreSlopes

LEMMA SetIInv == ASSUME IInv, NEW c \in Callers, SetState(c) PROVE IInv'
  <1> DEFINE p == point[c]
             before == previous[c]
             r == Rate(before, p)
             k == Key(p.metric)
  <1>1. /\ p \in Points /\ p.metric.kind # "summary" /\ p.timestamp <= now
        /\ Known(k, before) /\ before \in Points \cup {NoPoint}
    BY DEF IInv, TypeOK, CallersOK, SetState
  <1>2. p.metric \in Metrics /\ k \in Keys
    BY <1>1, KeyType DEF Points
  <1>3. /\ Emit(p, r) /\ UNCHANGED <<now, started, overlapped>>
        /\ currentState' = [currentState EXCEPT ![k] = p]
        /\ caller' = [caller EXCEPT ![c] = "idle"]
        /\ point' = [point EXCEPT ![c] = NoPoint] /\ previous' = [previous EXCEPT ![c] = NoPoint]
        /\ KeepsKind(c)
    BY DEF SetState, Stored
  <1>4. /\ r \in Rates
        /\ r.time > 0 => /\ before # NoPoint
                         /\ before.value = p.value - r.change
                         /\ before.timestamp = p.timestamp - r.time
    BY <1>1, RateFacts
  <1> HIDE DEF r
  <1>5. /\ EmittedOK' /\ Len(emitted) \in Nat /\ Len(emitted') = Len(emitted) + 1
        /\ emitted'[Len(emitted) + 1] = Emission(p, r)
        /\ \A l, q : Known(l, q) => Known(l, q)'
        /\ \A i \in DOMAIN emitted' : emitted'[i].point \in Points /\ emitted'[i].rate \in Rates
    BY <1>1, <1>3, <1>4, EmitFacts DEF IInv
  <1>6. TypeOK'
    <2>1. currentState' \in [Keys -> Points \cup {NoPoint}]
      BY <1>1, <1>2, <1>3 DEF IInv, TypeOK
    <2>2. \A l \in Keys : currentState'[l].timestamp <= now
      BY <1>1, <1>3 DEF IInv, TypeOK
    <2> QED
      BY <1>3, <1>5, <2>1, <2>2 DEF IInv, TypeOK, Rates
  <1>7. RatesAreSlopes'
    <2>1. ASSUME r.time > 0
          PROVE  \E j \in 1..Len(emitted) :
                    /\ Key(emitted[j].point.metric) = k
                    /\ emitted[j].point.metric.kind = p.metric.kind
                    /\ emitted[j].point.value = p.value - r.change
                    /\ emitted[j].point.timestamp = p.timestamp - r.time
      <3>1. /\ Key(before.metric) = k /\ before.metric.kind = p.metric.kind
            /\ \E j \in 1..Len(emitted) : emitted[j].point = before
        BY <1>1, <1>3, <1>4, <2>1 DEF Known, KeepsKind
      <3> HIDE DEF p, before, k
      <3> QED
        BY <1>4, <2>1, <3>1
    <2> QED
      BY <1>1, <1>3, <1>4, <2>1, SlopesKept DEF IInv
  <1>8. \A l, q : l = k /\ q = p => Known(l, q)'
    <2>1. Len(emitted) + 1 \in 1..Len(emitted')
      BY <1>5
    <2>2. emitted'[Len(emitted) + 1].point = p
      BY <1>5 DEF Emission
    <2> QED
      BY <1>1, <2>1, <2>2 DEF Known
  <1>9. StateOK'
    <2> SUFFICES ASSUME NEW l \in Keys
                 PROVE  Known(l, currentState[l])' /\ currentState'[l].timestamp <= now
      BY <1>3 DEF StateOK
    <2>1. CASE l = k
      <3>1. currentState'[l] = p
        BY <1>3, <2>1 DEF IInv, TypeOK
      <3> QED
        BY <1>1, <1>8, <2>1, <3>1 DEF Known
    <2>2. CASE l # k
      <3>1. currentState'[l] = currentState[l]
        BY <1>3, <2>2 DEF IInv, TypeOK
      <3>2. Known(l, currentState[l]) /\ currentState[l].timestamp <= now
        BY DEF IInv, StateOK
      <3> QED
        BY <1>5, <3>1, <3>2 DEF Known
    <2> QED
      BY <2>1, <2>2
  <1>10. CallersOK'
    <2> SUFFICES ASSUME NEW d \in Callers, caller'[d] # "idle"
                 PROVE  /\ point'[d] \in Points /\ point'[d].metric.kind # "summary"
                        /\ point'[d].timestamp <= now
                        /\ caller'[d] = "set" => Known(Key(point[d].metric), previous[d])'
      BY <1>3 DEF CallersOK
    <2>1. d # c
      BY <1>3 DEF IInv, TypeOK
    <2>2. /\ caller'[d] = caller[d] /\ point'[d] = point[d] /\ previous'[d] = previous[d]
      BY <1>3, <2>1 DEF IInv, TypeOK
    <2>3. /\ point[d] \in Points /\ point[d].metric.kind # "summary"
          /\ point[d].timestamp <= now
          /\ caller[d] = "set" => Known(Key(point[d].metric), previous[d])
      BY <2>2 DEF IInv, CallersOK
    <2> QED
      BY <1>5, <2>2, <2>3 DEF Known
  <1> QED
    BY <1>5, <1>6, <1>7, <1>9, <1>10 DEF IInv

-----------------------------------------------------------------------------

(* IInv is an invariant of the translator, for all values of the constants.*)
THEOREM Invariance == Spec => []IInv
  <1>1. IInv /\ [Next]_vars => IInv'
    <2> SUFFICES ASSUME IInv, [Next]_vars PROVE IInv'
      OBVIOUS
    <2>1. CASE UNCHANGED vars
      BY <2>1 DEF vars, IInv, TypeOK, EmittedOK, StateOK, CallersOK, Known, RatesAreSlopes
    <2>2. CASE Tick
      BY <2>2, TickIInv
    <2>3. ASSUME NEW c \in Callers, ConsumeStep(c) PROVE IInv'
      BY <2>3, BuildIInv, SummaryIInv, GetIInv, PanicIInv, SetIInv DEF ConsumeStep
    <2> QED
      BY <2>1, <2>2, <2>3 DEF Next
  <1> QED
    BY InitIInv, <1>1, PTL DEF Spec

(* The state always has its types: no rate is negative, no entry of the    *)
(* map is from the future.                                                 *)
THEOREM TypeCorrect == Spec => []TypeOK
  <1>1. IInv => TypeOK
    BY DEF IInv
  <1> QED
    BY Invariance, <1>1, PTL

(* However many calls of calculateRate overlap, a rate is measured from    *)
(* one point of its kind emitted before, whose fields wrote the same key.  *)
THEOREM Slopes == Spec => []RatesAreSlopes
  <1>1. IInv => RatesAreSlopes
    BY DEF IInv
  <1> QED
    BY Invariance, <1>1, PTL

-----------------------------------------------------------------------------
(* Keys no two calls held at once.  The map's entry is then never older    *)
(* than a point a rate was emitted for, and whoever holds the key measures *)
(* from it.                                                                *)

Holds(c, k) == caller[c] # "idle" /\ Key(point[c].metric) = k

Alone(k) ==
    /\ \A c, d \in Callers : Holds(c, k) /\ Holds(d, k) => c = d
    /\ \A c \in Callers : Holds(c, k) =>
          /\ currentState[k].timestamp <= point[c].timestamp
          /\ caller[c] = "set" => previous[c] = currentState[k]
    /\ \A i \in DOMAIN emitted :
          HasRate(emitted[i]) /\ Key(emitted[i].point.metric) = k =>
             emitted[i].point.timestamp <= currentState[k].timestamp

AloneOK == \A k \in Keys : k \notin overlapped => Alone(k)

LEMMA StampTypes ==
    ASSUME IInv
    PROVE  /\ now \in Int
           /\ \A k \in Keys : currentState[k].timestamp \in Int /\ currentState[k].timestamp <= now
           /\ \A c \in Callers : caller[c] # "idle" =>
                 /\ point[c] \in Points /\ point[c].timestamp \in Int
                 /\ Key(point[c].metric) \in Keys
           /\ DOMAIN emitted = 1..Len(emitted) /\ Len(emitted) \in Nat
           /\ \A i \in DOMAIN emitted : /\ emitted[i].point.timestamp \in Int
                                        /\ emitted[i].rate.time \in Int
                                        /\ Key(emitted[i].point.metric) \in Keys
  <1>1. now \in Int /\ \A k \in Keys : currentState[k].timestamp <= now
    BY TranslatorAssumption DEF IInv, TypeOK, StateOK
  <1>2. \A p \in Points : p.timestamp \in Int /\ Key(p.metric) \in Keys
    BY KeyType DEF Points
  <1>3. \A k \in Keys : currentState[k].timestamp \in Int
    BY <1>2 DEF IInv, TypeOK, NoPoint
  <1>4. \A c \in Callers : caller[c] # "idle" => point[c] \in Points
    BY DEF IInv, CallersOK
  <1>5. DOMAIN emitted = 1..Len(emitted) /\ Len(emitted) \in Nat
    BY DEF IInv, EmittedOK
  <1>6. \A i \in DOMAIN emitted : emitted[i].point \in Points /\ emitted[i].rate.time \in Int
    BY DEF IInv, TypeOK
  <1> QED
    BY <1>1, <1>2, <1>3, <1>4, <1>5, <1>6

LEMMA BuildAlone ==
    ASSUME IInv, AloneOK, NoIncreaseReportedTwice, NEW c \in Callers, BuildCWMetric(c)
    PROVE  AloneOK' /\ NoIncreaseReportedTwice'
  <1>1. PICK m \in Metrics, v \in 0..MaxValue :
          /\ m.kind # "summary"
          /\ point' = [point EXCEPT ![c] = [metric |-> m, value |-> v, timestamp |-> now]]
          /\ overlapped' = overlapped \cup (IF InProgress(Key(m)) = {} THEN {} ELSE {Key(m)})
    BY DEF BuildCWMetric
  <1>2. /\ UNCHANGED <<now, previous, currentState, emitted>>
        /\ caller[c] = "idle" /\ caller' = [caller EXCEPT ![c] = "get"]
        /\ caller \in [Callers -> {"idle", "get", "set", "panicked"}]
        /\ point \in [Callers -> Points \cup {NoPoint}]
    BY DEF BuildCWMetric, IInv, TypeOK
  <1>3. /\ caller'[c] = "get" /\ point'[c].metric = m /\ point'[c].timestamp = now
        /\ \A d \in Callers : d # c => caller'[d] = caller[d] /\ point'[d] = point[d]
    BY <1>1, <1>2
  <1>4. ASSUME NEW k \in Keys, k \notin overlapped' PROVE Alone(k)'
    <2>1. k \notin overlapped /\ Alone(k)
      BY <1>1, <1>4 DEF AloneOK
    <2>2. ASSUME NEW d \in Callers, Holds(d, k)'
          PROVE  d # c => Holds(d, k)
      BY <1>3, <2>2 DEF Holds
    <2>3. ASSUME Holds(c, k)', NEW d \in Callers
          PROVE  ~Holds(d, k)
      <3>1. Key(m) = k /\ InProgress(k) = {}
        BY <1>1, <1>3, <1>4, <2>3 DEF Holds
      <3> QED
        BY <3>1 DEF InProgress, Holds
    <2>4. ASSUME NEW d \in Callers, NEW e \in Callers, Holds(d, k)', Holds(e, k)' PROVE d = e
      BY <2>1, <2>2, <2>3, <2>4 DEF Alone
    <2>5. ASSUME NEW d \in Callers, Holds(d, k)'
          PROVE  /\ currentState'[k].timestamp <= point'[d].timestamp
                 /\ caller'[d] = "set" => previous'[d] = currentState'[k]
      <3>1. CASE d = c
        BY <1>2, <1>3, <3>1, StampTypes
      <3>2. CASE d # c
        <4>1. Holds(d, k)
          BY <2>2, <2>5, <3>2
        <4> QED
          BY <1>2, <1>3, <2>1, <3>2, <4>1 DEF Alone
      <3> QED
        BY <3>1, <3>2
    <2>6. \A i \in DOMAIN emitted' :
             HasRate(emitted'[i]) /\ Key(emitted'[i].point.metric) = k =>
                emitted'[i].point.timestamp <= currentState'[k].timestamp
      BY <1>2, <2>1 DEF Alone
    <2> QED
      BY <2>4, <2>5, <2>6 DEF Alone
  <1>5. overlapped \subseteq overlapped'
    BY <1>1
  <1> QED
    BY <1>2, <1>4, <1>5 DEF AloneOK, NoIncreaseReportedTwice

LEMMA SummaryAlone ==
    ASSUME IInv, AloneOK, NoIncreaseReportedTwice, NEW c \in Callers, BuildCWMetricFromSDP(c)
    PROVE  AloneOK' /\ NoIncreaseReportedTwice'
  <1>1. PICK m \in Metrics : Emit([metric |-> m, value |-> 0, timestamp |-> now], NoRate)
    BY DEF BuildCWMetricFromSDP
  <1> DEFINE p == [metric |-> m, value |-> 0, timestamp |-> now]
  <1>2. p \in Points /\ NoRate \in Rates /\ ~(NoRate.time > 0)
    BY TranslatorAssumption DEF IInv, TypeOK, Points, Rates, NoRate
  <1>3. /\ DOMAIN emitted = 1..Len(emitted) /\ DOMAIN emitted' = 1..(Len(emitted) + 1)
        /\ Len(emitted) \in Nat
        /\ \A i \in 1..Len(emitted) : emitted'[i] = emitted[i]
        /\ emitted'[Len(emitted) + 1] = Emission(p, NoRate)
    BY <1>1, <1>2, EmitFacts DEF IInv, EmittedOK
  <1>4. ASSUME NEW i \in DOMAIN emitted', HasRate(emitted'[i])
        PROVE  i \in DOMAIN emitted /\ emitted'[i] = emitted[i]
    <2>1. i # Len(emitted) + 1
      BY <1>2, <1>3, <1>4 DEF HasRate, Emission
    <2> QED
      BY <1>3, <2>1
  <1>5. UNCHANGED <<now, caller, point, previous, currentState, overlapped>>
    BY DEF BuildCWMetricFromSDP
  <1>6. AloneOK'
    BY <1>4, <1>5 DEF AloneOK, Alone, Holds
  <1>7. NoIncreaseReportedTwice'
    BY <1>4, <1>5 DEF NoIncreaseReportedTwice
  <1> QED
    BY <1>6, <1>7

LEMMA GetAlone ==
    ASSUME IInv, AloneOK, NoIncreaseReportedTwice, NEW c \in Callers, GetPrevious(c)
    PROVE  AloneOK' /\ NoIncreaseReportedTwice'
  <1>1. /\ UNCHANGED <<now, point, currentState, emitted, overlapped>>
        /\ caller[c] = "get" /\ caller' = [caller EXCEPT ![c] = "set"]
        /\ previous' = [previous EXCEPT ![c] = currentState[Key(point[c].metric)]]
        /\ caller \in [Callers -> {"idle", "get", "set", "panicked"}]
        /\ previous \in [Callers -> Points \cup {NoPoint}]
    BY DEF GetPrevious, IInv, TypeOK
  <1>2. /\ caller'[c] = "set" /\ previous'[c] = currentState[Key(point[c].metric)]
        /\ \A d \in Callers : d # c => caller'[d] = caller[d] /\ previous'[d] = previous[d]
    BY <1>1
  <1>3. \A d \in Callers, k \in Keys : Holds(d, k)' <=> Holds(d, k)
    BY <1>1, <1>2 DEF Holds
  <1>4. ASSUME NEW k \in Keys, k \notin overlapped' PROVE Alone(k)'
    <2>1. Alone(k)
      BY <1>1, <1>4 DEF AloneOK
    <2>2. ASSUME NEW d \in Callers, Holds(d, k)'
          PROVE  /\ currentState'[k].timestamp <= point'[d].timestamp
                 /\ caller'[d] = "set" => previous'[d] = currentState'[k]
      <3>1. Holds(d, k) /\ Key(point[d].metric) = k
        BY <1>3, <2>2 DEF Holds
      <3>2. CASE d = c
        BY <1>1, <1>2, <2>1, <3>1, <3>2 DEF Alone
      <3>3. CASE d # c
        BY <1>1, <1>2, <2>1, <3>1, <3>3 DEF Alone
      <3> QED
        BY <3>2, <3>3
    <2> QED
      BY <1>1, <1>3, <2>1, <2>2 DEF Alone
  <1> QED
    BY <1>1, <1>4 DEF AloneOK, NoIncreaseReportedTwice

LEMMA PanicAlone ==
    ASSUME IInv, AloneOK, NoIncreaseReportedTwice, NEW c \in Callers, TypeAssertionFails(c)
    PROVE  AloneOK' /\ NoIncreaseReportedTwice'
  <1>1. /\ UNCHANGED <<now, point, previous, currentState, emitted, overlapped>>
        /\ \A d \in Callers : /\ caller'[d] # "idle" => caller[d] # "idle"
                              /\ caller'[d] = "set" => caller[d] = "set"
    BY DEF TypeAssertionFails, IInv, TypeOK
  <1>2. \A d \in Callers, k \in Keys : Holds(d, k)' => Holds(d, k)
    BY <1>1 DEF Holds
  <1>3. ASSUME NEW k \in Keys, Alone(k) PROVE Alone(k)'
    BY <1>1, <1>2, <1>3 DEF Alone
  <1> QED
    BY <1>1, <1>3 DEF AloneOK, NoIncreaseReportedTwice

LEMMA SetAlone ==
    ASSUME IInv, AloneOK, NoIncreaseReportedTwice, NEW c \in Callers, SetState(c)
    PROVE  AloneOK' /\ NoIncreaseReportedTwice'
  <1> DEFINE p == point[c]
             before == previous[c]
             r == Rate(before, p)
             key == Key(p.metric)
             new == Len(emitted) + 1
  <1>1. /\ caller[c] = "set" /\ p \in Points /\ before \in Points \cup {NoPoint}
        /\ p.timestamp \in Int /\ key \in Keys
    BY StampTypes DEF IInv, TypeOK, SetState
  <1>2. /\ Emit(p, r) /\ UNCHANGED <<now, started, overlapped>>
        /\ currentState' = [currentState EXCEPT ![key] = p]
        /\ caller' = [caller EXCEPT ![c] = "idle"]
        /\ point' = [point EXCEPT ![c] = NoPoint] /\ previous' = [previous EXCEPT ![c] = NoPoint]
    BY DEF SetState, Stored
  <1>3. /\ r \in Rates
        /\ r.time > 0 => before.timestamp = p.timestamp - r.time
    BY <1>1, RateFacts
  <1> HIDE DEF r
  <1>4. /\ DOMAIN emitted = 1..Len(emitted) /\ DOMAIN emitted' = 1..new
        /\ Len(emitted) \in Nat
        /\ \A i \in 1..Len(emitted) : emitted'[i] = emitted[i]
        /\ emitted'[new] = Emission(p, r)
    BY <1>1, <1>2, <1>3, EmitFacts DEF IInv, EmittedOK
  <1>5. /\ caller'[c] = "idle"
        /\ \A d \in Callers : d # c => /\ caller'[d] = caller[d] /\ point'[d] = point[d]
                                       /\ previous'[d] = previous[d]
        /\ currentState'[key] = p
        /\ \A k \in Keys : k # key => currentState'[k] = currentState[k]
    BY <1>1, <1>2 DEF IInv, TypeOK
  <1>6. emitted'[new].point = p /\ emitted'[new].rate = r
    BY <1>4 DEF Emission
  <1>7. ASSUME key \notin overlapped
        PROVE  /\ Alone(key) /\ Holds(c, key) /\ before = currentState[key]
               /\ currentState[key].timestamp <= p.timestamp
               /\ \A d \in Callers : d # c => ~Holds(d, key)
    <2>1. Alone(key) /\ Holds(c, key)
      BY <1>1, <1>7 DEF AloneOK, Holds
    <2> QED
      BY <1>1, <2>1 DEF Alone
  <1>8. \A d \in Callers, k \in Keys : Holds(d, k)' => d # c /\ Holds(d, k)
    BY <1>5 DEF Holds
  <1> HIDE DEF p, before, key, new
  <1>9. ASSUME NEW k \in Keys, k \notin overlapped PROVE Alone(k)'
    <2>1. Alone(k)
      BY <1>9 DEF AloneOK
    <2>2. ASSUME NEW d \in Callers, Holds(d, k)'
          PROVE  /\ currentState'[k].timestamp <= point'[d].timestamp
                 /\ caller'[d] = "set" => previous'[d] = currentState'[k]
      <3>1. d # c /\ Holds(d, k)
        BY <1>8, <2>2
      <3>2. k # key
        BY <1>7, <1>9, <3>1
      <3> QED
        BY <1>5, <2>1, <3>1, <3>2 DEF Alone
    <2>3. ASSUME NEW i \in DOMAIN emitted', HasRate(emitted'[i]),
                 Key(emitted'[i].point.metric) = k
          PROVE  emitted'[i].point.timestamp <= currentState'[k].timestamp
      <3>1. CASE i = new
        <4>1. k = key
          BY <1>6, <2>3, <3>1 DEF key
        <4> QED
          BY <1>1, <1>5, <1>6, <3>1, <4>1
      <3>2. CASE i # new
        <4>1. i \in DOMAIN emitted /\ emitted'[i] = emitted[i]
          BY <1>4, <3>2 DEF new
        <4>2. emitted[i].point.timestamp <= currentState[k].timestamp
          BY <2>1, <2>3, <4>1 DEF Alone
        <4>3. emitted[i].point.timestamp \in Int /\ currentState[k].timestamp \in Int
          BY <4>1, StampTypes
        <4>4. CASE k = key
          BY <1>1, <1>5, <1>7, <1>9, <4>1, <4>2, <4>3, <4>4
        <4>5. CASE k # key
          BY <1>5, <4>1, <4>2, <4>5
        <4> QED
          BY <4>4, <4>5
      <3> QED
        BY <3>1, <3>2
    <2>4. \A d, e \in Callers : Holds(d, k)' /\ Holds(e, k)' => d = e
      BY <1>8, <2>1 DEF Alone
    <2> QED
      BY <2>2, <2>3, <2>4 DEF Alone
  <1>10. ASSUME NEW i \in DOMAIN emitted', NEW j \in DOMAIN emitted', i < j,
                HasRate(emitted'[i]), HasRate(emitted'[j]),
                Key(emitted'[j].point.metric) = Key(emitted'[i].point.metric),
                Key(emitted'[i].point.metric) \notin overlapped
         PROVE  emitted'[j].point.timestamp - emitted'[j].rate.time
                   >= emitted'[i].point.timestamp
    <2>1. i \in DOMAIN emitted /\ emitted'[i] = emitted[i]
      BY <1>4, <1>10 DEF new
    <2>2. CASE j # new
      <3>1. j \in DOMAIN emitted /\ emitted'[j] = emitted[j]
        BY <1>4, <2>2 DEF new
      <3> QED
        BY <1>10, <2>1, <3>1 DEF NoIncreaseReportedTwice
    <2>3. CASE j = new
      <3>1. Key(emitted[i].point.metric) = key /\ key \notin overlapped
        BY <1>6, <1>10, <2>1, <2>3 DEF key
      <3>2. emitted[i].point.timestamp <= currentState[key].timestamp
        BY <1>7, <1>10, <2>1, <3>1 DEF Alone
      <3>3. p.timestamp - r.time = currentState[key].timestamp
        BY <1>3, <1>6, <1>7, <1>10, <2>3, <3>1 DEF HasRate
      <3>4. emitted[i].point.timestamp \in Int /\ currentState[key].timestamp \in Int
        BY <1>1, <2>1, StampTypes
      <3> QED
        BY <1>6, <2>1, <2>3, <3>2, <3>3, <3>4
    <2> QED
      BY <2>2, <2>3
  <1>11. AloneOK'
    BY <1>2, <1>9 DEF AloneOK
  <1>12. NoIncreaseReportedTwice'
    BY <1>2, <1>10 DEF NoIncreaseReportedTwice
  <1> QED
    BY <1>11, <1>12

(* As long as no two calls hold a key at once, no increase of its values   *)
(* is reported by two rates.                                               *)
THEOREM Increases == Spec => []NoIncreaseReportedTwice
  <1>1. Init => AloneOK /\ NoIncreaseReportedTwice
    <2> SUFFICES ASSUME Init PROVE AloneOK /\ NoIncreaseReportedTwice
      OBVIOUS
    <2>1. DOMAIN emitted = {} /\ \A c \in Callers : caller[c] = "idle"
      BY DEF Init
    <2> QED
      BY <2>1 DEF AloneOK, Alone, Holds, NoIncreaseReportedTwice
  <1>2. IInv /\ AloneOK /\ NoIncreaseReportedTwice /\ [Next]_vars
          => AloneOK' /\ NoIncreaseReportedTwice'
    <2> SUFFICES ASSUME IInv, AloneOK, NoIncreaseReportedTwice, [Next]_vars
                 PROVE  AloneOK' /\ NoIncreaseReportedTwice'
      OBVIOUS
    <2>1. CASE Tick \/ UNCHANGED vars
      BY <2>1 DEF Tick, vars, AloneOK, Alone, Holds, NoIncreaseReportedTwice
    <2>2. ASSUME NEW c \in Callers, ConsumeStep(c)
          PROVE  AloneOK' /\ NoIncreaseReportedTwice'
      BY <2>2, BuildAlone, SummaryAlone, GetAlone, PanicAlone, SetAlone DEF ConsumeStep
    <2> QED
      BY <2>1, <2>2 DEF Next
  <1> QED
    BY Invariance, <1>1, <1>2, PTL DEF Spec

-----------------------------------------------------------------------------
(* The dimensions of an integer point. *)

(* A finite set as a sequence: every element once. *)
LEMMA SetToSeqOnce ==
    ASSUME NEW S, IsFiniteSet(S)
    PROVE  \E s \in Seq(S) :
              s = SetToSeq(S) /\ IsInjective(s) /\ \A x \in S : \E i \in 1..Len(s) : s[i] = x
  <1>1. PICK n \in Nat : n = Cardinality(S) /\ ExistsBijection(1..n, S)
    BY FS_CardinalityType
  <1>2. \E f \in [1..n -> S] : IsInjective(f)
    BY <1>1 DEF ExistsBijection, Bijection, Injection
  <1>3. SetToSeq(S) = CHOOSE f \in [1..n -> S] : IsInjective(f)
    BY <1>1 DEF SetToSeq
  <1>4. PICK f \in [1..n -> S] : f = SetToSeq(S) /\ IsInjective(f)
    BY <1>2, <1>3
  <1>5. f \in Seq(S) /\ Len(f) = n
    BY <1>4
  <1>6. f \in Injection(1..n, S)
    BY <1>4 DEF Injection
  <1>7. Cardinality(1..n) = Cardinality(S)
    BY <1>1, FS_Interval
  <1>8. f \in Surjection(1..n, S)
    BY <1>6, <1>7, FS_Injection
  <1> QED
    BY <1>4, <1>5, <1>8 DEF Surjection

(* Lists d in order: all labels, none, then each one. *)
ListedAs(d, labels, L) ==
    IF L = {} THEN d = <<{OTLib}>>
    ELSE /\ DOMAIN d = 1..(Len(labels) + 2)
         /\ d[1] = L \cup {OTLib}
         /\ d[2] = {OTLib}
         /\ \A i \in 1..Len(labels) : d[i + 2] = {OTLib, labels[i]}

LEMMA DimensionsInOrder ==
    ASSUME NEW m \in Metrics, m.kind = "integer", NEW L, L = DOMAIN m.labels
    PROVE  \E labels \in Seq(L) :
              /\ IsInjective(labels)
              /\ \A x \in L : \E i \in 1..Len(labels) : labels[i] = x
              /\ ListedAs(Dimensions(m), labels, L)
  <1>1. IsFiniteSet(L)
    BY TranslatorAssumption
  <1>2. PICK labels \in Seq(L) :
           /\ labels = SetToSeq(L) /\ IsInjective(labels)
           /\ \A x \in L : \E i \in 1..Len(labels) : labels[i] = x
    BY <1>1, SetToSeqOnce
  <1>3. PICK U : U = SUBSET (L \cup {OTLib})
    OBVIOUS
  <1>4. PICK all \in U : all = L \cup {OTLib}
    BY <1>3
  <1>5. DOMAIN m.labels \cup {OTLib} = all
    BY <1>4
  <1>6. PICK ones : ones = [i \in DOMAIN labels |-> OneRollup(labels[i])]
    OBVIOUS
  <1>7. PICK zero : zero = IF labels = <<>> THEN <<>> ELSE <<{OTLib}>>
    OBVIOUS
  <1>8. Dimensions(m) = <<all>> \o (zero \o ones)
    BY <1>2, <1>5, <1>6, <1>7 DEF Dimensions
  <1>9. CASE L = {}
    <2>1. labels = <<>>
      <3>1. Len(labels) = 0
        BY <1>9
      <3> QED
        BY <3>1
    <2>2. ones = <<>> /\ zero = <<>>
      BY <1>6, <1>7, <2>1
    <2>3. <<all>> \o (<<>> \o <<>>) = <<all>> /\ all = {OTLib}
      BY <1>4, <1>9
    <2> QED
      BY <1>2, <1>8, <1>9, <2>2, <2>3 DEF ListedAs
  <1>10. CASE L # {}
    <2>1. labels # <<>> /\ Len(labels) \in Nat /\ DOMAIN labels = 1..Len(labels)
      <3>1. \E i \in 1..Len(labels) : TRUE
        BY <1>2, <1>10
      <3> QED
        BY <3>1
    <2>2. ones \in Seq(U) /\ Len(ones) = Len(labels)
          /\ \A i \in 1..Len(labels) : ones[i] = {OTLib, labels[i]}
      <3>1. \A i \in 1..Len(labels) : {OTLib, labels[i]} \in U
        BY <1>3
      <3> QED
        BY <1>6, <2>1, <3>1 DEF OneRollup
    <2>3. PICK none \in U : none = {OTLib}
      BY <1>3
    <2>4. zero = <<none>>
      BY <1>7, <2>1, <2>3
    <2>5. PICK d : d = <<all>> \o (<<none>> \o ones)
      OBVIOUS
    <2>6. /\ d \in Seq(U) /\ Len(d) = Len(ones) + 2 /\ d[1] = all /\ d[2] = none
          /\ \A i \in 1..Len(ones) : d[i + 2] = ones[i]
      BY <2>2, <2>5
    <2>7. Dimensions(m) = d
      BY <1>8, <2>4, <2>5
    <2>8. DOMAIN d = 1..(Len(labels) + 2)
      BY <2>2, <2>6
    <2>9. ListedAs(d, labels, L)
      BY <1>4, <1>10, <2>2, <2>3, <2>6, <2>8 DEF ListedAs
    <2> QED
      BY <1>2, <2>7, <2>9
  <1> QED
    BY <1>9, <1>10

(* What is listed, and how often. *)
RolledUp(d, L) ==
    /\ ToSet(d) = {s \cup {OTLib} :
          s \in {t \in SUBSET L : t = L \/ \A k, l \in t : k = l}}
    /\ OTLib \notin L => \A k, l \in L : k # l => IsInjective(d)

LEMMA DimensionsRollUp ==
    ASSUME NEW m \in Metrics, m.kind = "integer", NEW L, L = DOMAIN m.labels,
           NEW d, d = Dimensions(m)
    PROVE  /\ ToSet(d) = {s \cup {OTLib} :
                  s \in {t \in SUBSET L : t = L \/ \A k, l \in t : k = l}}
           /\ OTLib \notin L => \A k, l \in L : k # l => IsInjective(d)
  <1> DEFINE Small == {t \in SUBSET L : t = L \/ \A k, l \in t : k = l}
             rolled == {s \cup {OTLib} : s \in Small}
  <1>2. PICK labels \in Seq(L) :
              /\ IsInjective(labels)
              /\ \A x \in L : \E i \in 1..Len(labels) : labels[i] = x
              /\ ListedAs(d, labels, L)
    BY DimensionsInOrder
  <1>3. CASE L = {}
    <2>1. rolled = {{OTLib}}
      <3>1. {} \in Small /\ \A t \in Small : t = {}
        BY <1>3
      <3> HIDE DEF Small
      <3>2. {} \cup {OTLib} = {OTLib}
        OBVIOUS
      <3> QED
        BY <3>1, <3>2
    <2>2. ToSet(d) = {{OTLib}}
      <3>1. d = <<{OTLib}>>
        BY <1>2, <1>3 DEF ListedAs
      <3>2. DOMAIN d = {1} /\ d[1] = {OTLib}
        BY <3>1
      <3> QED
        BY <3>2 DEF ToSet
    <2> QED
      BY <1>3, <2>1, <2>2
  <1>4. CASE L # {}
    <2>1. PICK n \in Nat : n = Len(labels)
      OBVIOUS
    <2>2. /\ DOMAIN d = 1..(n + 2) /\ d[1] = L \cup {OTLib} /\ d[2] = {OTLib}
          /\ \A i \in 1..n : labels[i] \in L /\ d[i + 2] = {OTLib, labels[i]}
      BY <1>2, <1>4, <2>1 DEF ListedAs
    <2>3. \A j \in 1..(n + 2) : j = 1 \/ j = 2 \/ (j - 2 \in 1..n /\ (j - 2) + 2 = j)
      OBVIOUS
    <2>4. ASSUME NEW j \in 1..(n + 2) PROVE d[j] \in rolled
      <3>1. CASE j = 1
        BY <2>2, <3>1
      <3>2. CASE j = 2
        <4>1. {} \in Small
          OBVIOUS
        <4>2. {} \cup {OTLib} = {OTLib}
          OBVIOUS
        <4> QED
          BY <2>2, <3>2, <4>1, <4>2
      <3>3. CASE j - 2 \in 1..n /\ (j - 2) + 2 = j
        <4>1. labels[j - 2] \in L /\ d[j] = {OTLib, labels[j - 2]}
          BY <2>2, <3>3
        <4>2. {labels[j - 2]} \in Small
          BY <4>1
        <4>3. {labels[j - 2]} \cup {OTLib} = {OTLib, labels[j - 2]}
          OBVIOUS
        <4> QED
          BY <4>1, <4>2, <4>3
      <3> QED
        BY <2>3, <3>1, <3>2, <3>3
    <2>5. ASSUME NEW t \in Small PROVE \E j \in 1..(n + 2) : d[j] = t \cup {OTLib}
      <3>1. CASE t = L
        <4>1. 1 \in 1..(n + 2)
          OBVIOUS
        <4> QED
          BY <2>2, <3>1, <4>1
      <3>2. CASE t = {}
        <4>1. 2 \in 1..(n + 2) /\ t \cup {OTLib} = {OTLib}
          BY <3>2
        <4> QED
          BY <2>2, <4>1
      <3>3. CASE t # L /\ t # {}
        <4>1. PICK x \in t : TRUE
          BY <3>3
        <4>2. t = {x} /\ x \in L
          BY <3>3
        <4>3. PICK i \in 1..n : labels[i] = x
          BY <1>2, <2>1, <4>2
        <4>4. i + 2 \in 1..(n + 2) /\ d[i + 2] = {OTLib, x}
          BY <2>2, <4>3
        <4>5. {OTLib, x} = t \cup {OTLib}
          BY <4>2
        <4> QED
          BY <4>4, <4>5
      <3> QED
        BY <3>1, <3>2, <3>3
    <2>6. ToSet(d) = rolled
      <3> HIDE DEF Small
      <3>1. ToSet(d) = {d[j] : j \in 1..(n + 2)}
        BY <2>2 DEF ToSet
      <3>2. ASSUME NEW x \in rolled PROVE x \in ToSet(d)
        <4>1. PICK t \in Small : x = t \cup {OTLib}
          OBVIOUS
        <4>2. PICK j \in 1..(n + 2) : d[j] = x
          BY <2>5, <4>1
        <4> QED
          BY <3>1, <4>2
      <3>3. ASSUME NEW x \in ToSet(d) PROVE x \in rolled
        <4>1. PICK j \in 1..(n + 2) : x = d[j]
          BY <3>1
        <4> QED
          BY <2>4, <4>1
      <3> HIDE DEF rolled
      <3> QED
        BY <3>2, <3>3
    <2>7. ASSUME OTLib \notin L, NEW k \in L, NEW l \in L, k # l PROVE IsInjective(d)
      <3>1. ASSUME NEW i \in 1..n, NEW j \in 1..n, d[i + 2] = d[j + 2] PROVE i = j
        <4>1. {OTLib, labels[i]} = {OTLib, labels[j]} /\ labels[i] # OTLib /\ labels[j] # OTLib
          BY <2>7, <2>2, <3>1
        <4>2. labels[i] = labels[j]
          BY <4>1
        <4>3. i \in DOMAIN labels /\ j \in DOMAIN labels
          BY <2>1
        <4> QED
          BY <1>2, <4>2, <4>3 DEF IsInjective
      <3>2. ASSUME NEW i \in 1..n
            PROVE  d[i + 2] # d[1] /\ d[i + 2] # d[2]
        <4>1. d[i + 2] = {OTLib, labels[i]} /\ labels[i] # OTLib
          BY <2>2, <2>7
        <4>2. d[i + 2] # {OTLib}
          BY <4>1
        <4>3. ~ (k \in d[i + 2] /\ l \in d[i + 2])
          BY <2>7, <4>1
        <4> QED
          BY <2>2, <4>2, <4>3
      <3>3. d[1] # d[2]
        BY <2>2, <2>7
      <3>4. ASSUME NEW a \in 1..(n + 2), NEW b \in 1..(n + 2), d[a] = d[b] PROVE a = b
        <4>1. CASE a \in {1, 2} /\ b \in {1, 2}
          BY <3>3, <3>4, <4>1
        <4>2. \A j \in 1..(n + 2) : j \notin {1, 2} => j - 2 \in 1..n /\ (j - 2) + 2 = j
          OBVIOUS
        <4>3. \A j \in 1..(n + 2) : j \notin {1, 2} => d[j] # d[1] /\ d[j] # d[2]
          BY <3>2, <4>2
        <4>4. CASE a \in {1, 2} <=> b \notin {1, 2}
          BY <3>4, <4>3, <4>4
        <4>5. CASE a \notin {1, 2} /\ b \notin {1, 2}
          <5>1. a - 2 \in 1..n /\ b - 2 \in 1..n /\ (a - 2) + 2 = a /\ (b - 2) + 2 = b
            BY <4>2, <4>5
          <5>2. a - 2 = b - 2
            BY <3>1, <3>4, <5>1
          <5> QED
            BY <5>1, <5>2
        <4> QED
          BY <4>1, <4>4, <4>5
      <3> QED
        BY <2>2, <3>4 DEF IsInjective
    <2> QED
      BY <2>6, <2>7
  <1> QED
    BY <1>3, <1>4

LEMMA IntegersRollUp ==
    ASSUME NEW m \in Metrics, m.kind = "integer"
    PROVE  RolledUp(Dimensions(m), DOMAIN m.labels)
  BY DimensionsRollUp, Zenon DEF RolledUp

(* The dimension sets of every integer point emitted are those of its      *)
(* roll-ups, each listed once unless there is exactly one label or OTLib   *)
(* is one: for any number of labels.                                       *)
THEOREM Rollups == Spec => []RollupsListed
  <1>1. ASSUME IInv PROVE RollupsListed
    <2>1. ASSUME NEW i \in DOMAIN emitted
          PROVE  /\ emitted[i].point.metric \in Metrics
                 /\ emitted[i].dimensions = Dimensions(emitted[i].point.metric)
      <3>1. PICK p \in Points, r \in Rates : emitted[i] = Emission(p, r)
        BY <1>1, <2>1 DEF IInv, EmittedOK
      <3> QED
        BY <3>1 DEF Emission, Points
    <2>2. ASSUME NEW i \in DOMAIN emitted, emitted[i].point.metric.kind = "integer"
          PROVE  RolledUp(emitted[i].dimensions, DOMAIN emitted[i].point.metric.labels)
      <3>1. PICK m \in Metrics : m = emitted[i].point.metric
        BY <2>1
      <3>2. RolledUp(Dimensions(m), DOMAIN m.labels)
        BY <2>2, <3>1, IntegersRollUp
      <3> QED
        BY <2>1, <3>1, <3>2
    <2> QED
      BY <2>2, Zenon DEF RollupsListed, RolledUp
  <1> QED
    BY Invariance, <1>1, PTL

=============================================================================
