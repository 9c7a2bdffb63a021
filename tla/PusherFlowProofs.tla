------------------------ MODULE PusherFlowProofs ------------------------
(***************************************************************************)
(* Theorems about the way of events through Pusher: that the counter of a  *)
(* batch is the size of its events, that accepted events reach the         *)
(* publisher completely and in order, and, for a prompt pusher, within two *)
(* flush intervals.                                                        *)
(*                                                                         *)
(* PayloadBytes and FlattenSeq are recursive functions.  That they exist,  *)
(* and what they give for a sequence with one more element, is proved      *)
(* first, by induction: the least number at which a claim fails.           *)
(***************************************************************************)
EXTENDS PusherLineProofs, WellFoundedInduction, SequenceTheorems, FiniteSetTheorems

-----------------------------------------------------------------------------
(* Induction over a set of natural numbers. *)

LEMMA InductionOnSet ==
    ASSUME NEW S, 0 \in S, \A n \in Nat : n \in S => n + 1 \in S
    PROVE  \A n \in Nat : n \in S
  <1> SUFFICES ASSUME Nat \ S # {} PROVE FALSE
    OBVIOUS
  <1>1. PICK x \in Nat \ S : \A y \in Nat \ S : ~ (<<y, x>> \in OpToRel(<, Nat))
    BY WFMin, NatLessThanWellFounded
  <1>2. x # 0 /\ x - 1 \in Nat
    OBVIOUS
  <1>3. x - 1 \in S
    <2>1. <<x - 1, x>> \in OpToRel(<, Nat)
      BY <1>2 DEF OpToRel
    <2> QED
      BY <1>1, <1>2, <2>1
  <1>4. (x - 1) + 1 = x
    OBVIOUS
  <1> QED
    BY <1>2, <1>3, <1>4

-----------------------------------------------------------------------------
(* FlattenSeq. *)

(* f joins the first n elements of s. *)
Joins(f, s, n) ==
    f = [i \in 1..n |-> IF i = 1 THEN s[i] ELSE f[i - 1] \o s[i]]

SameUpTo(s, t, n) == \A i \in 1..n : s[i] = t[i]

LEMMA JoinsExists ==
    ASSUME NEW T, NEW s, NEW len \in Nat, \A i \in 1..len : s[i] \in Seq(T)
    PROVE  \E f \in [1..len -> Seq(T)] : Joins(f, s, len)
  <1> DEFINE S == {n \in Nat : n <= len => \E f \in [1..n -> Seq(T)] : Joins(f, s, n)}
  <1>1. 0 \in S
    <2> DEFINE f == [i \in 1..0 |-> <<>>]
    <2>1. f \in [1..0 -> Seq(T)] /\ Joins(f, s, 0)
      BY DEF Joins
    <2> QED
      BY <2>1
  <1>2. ASSUME NEW n \in Nat, n \in S PROVE n + 1 \in S
    <2> SUFFICES ASSUME n + 1 <= len
                 PROVE  \E f \in [1..(n + 1) -> Seq(T)] : Joins(f, s, n + 1)
      OBVIOUS
    <2>1. PICK f \in [1..n -> Seq(T)] : Joins(f, s, n)
      BY <1>2
    <2> DEFINE last == IF n = 0 THEN s[1] ELSE f[n] \o s[n + 1]
               g    == [i \in 1..(n + 1) |-> IF i = n + 1 THEN last ELSE f[i]]
    <2>2. last \in Seq(T)
      <3>1. s[n + 1] \in Seq(T)
        OBVIOUS
      <3>2. CASE n = 0
        BY <3>1, <3>2
      <3>3. CASE n # 0
        <4>1. f[n] \in Seq(T)
          BY <3>3
        <4> QED
          BY <3>1, <3>3, <4>1
      <3> QED
        BY <3>2, <3>3
    <2> HIDE DEF last
    <2>3. g \in [1..(n + 1) -> Seq(T)]
      BY <2>2
    <2>4. ASSUME NEW i \in 1..(n + 1)
          PROVE  g[i] = IF i = 1 THEN s[i] ELSE g[i - 1] \o s[i]
      <3>1. CASE i = n + 1
        <4>1. CASE n = 0
          BY <3>1, <4>1 DEF last
        <4>2. CASE n # 0
          <5>1. g[i] = last /\ i # 1 /\ i - 1 = n /\ g[n] = f[n]
            BY <3>1, <4>2
          <5>2. last = f[n] \o s[n + 1]
            BY <4>2 DEF last
          <5> QED
            BY <3>1, <5>1, <5>2
        <4> QED
          BY <4>1, <4>2
      <3>2. CASE i # n + 1
        <4>1. i \in 1..n /\ g[i] = f[i]
          BY <3>2
        <4>2. f[i] = IF i = 1 THEN s[i] ELSE f[i - 1] \o s[i]
          BY <2>1, <4>1 DEF Joins
        <4>3. i # 1 => g[i - 1] = f[i - 1]
          BY <4>1
        <4> QED
          BY <4>1, <4>2, <4>3
      <3> QED
        BY <3>1, <3>2
    <2>5. Joins(g, s, n + 1)
      <3> HIDE DEF g
      <3>1. g = [i \in 1..(n + 1) |-> g[i]]
        BY <2>3
      <3> QED
        BY <2>4, <3>1 DEF Joins
    <2> QED
      BY <2>3, <2>5
  <1> HIDE DEF S
  <1>3. len \in S
    BY <1>1, <1>2, InductionOnSet
  <1> QED
    BY <1>3 DEF S

(* Functions that join sequences with the same beginning agree on it. *)
LEMMA JoinsAgree ==
    ASSUME NEW s, NEW t, NEW len \in Nat, NEW m \in Nat, len <= m,
           SameUpTo(s, t, len), NEW f, NEW g, Joins(f, s, len), Joins(g, t, m)
    PROVE  SameUpTo(f, g, len)
  <1> DEFINE S == {n \in Nat : n \in 1..len => f[n] = g[n]}
  <1>1. 0 \in S
    OBVIOUS
  <1>2. ASSUME NEW n \in Nat, n \in S PROVE n + 1 \in S
    <2> SUFFICES ASSUME n + 1 \in 1..len PROVE f[n + 1] = g[n + 1]
      OBVIOUS
    <2>1. f[n + 1] = IF n + 1 = 1 THEN s[n + 1] ELSE f[(n + 1) - 1] \o s[n + 1]
      BY DEF Joins
    <2>2. n + 1 \in 1..m
      OBVIOUS
    <2>3. g[n + 1] = IF n + 1 = 1 THEN t[n + 1] ELSE g[(n + 1) - 1] \o t[n + 1]
      BY <2>2 DEF Joins
    <2>4. CASE n = 0
      BY <2>1, <2>3, <2>4 DEF SameUpTo
    <2>5. CASE n # 0
      <3>1. (n + 1) - 1 = n /\ n + 1 # 1 /\ f[n] = g[n]
        BY <1>2, <2>5
      <3> QED
        BY <2>1, <2>3, <3>1 DEF SameUpTo
    <2> QED
      BY <2>4, <2>5
  <1> HIDE DEF S
  <1>3. \A n \in Nat : n \in S
    BY <1>1, <1>2, InductionOnSet
  <1> QED
    BY <1>3 DEF S, SameUpTo

LEMMA FlattenSeqJoins ==
    ASSUME NEW T, NEW s \in Seq(Seq(T)), s # <<>>
    PROVE  \E f \in [1..Len(s) -> Seq(T)] :
              Joins(f, s, Len(s)) /\ FlattenSeq(s) = f[Len(s)]
  <1> DEFINE F == CHOOSE f : Joins(f, s, Len(s))
  <1>1. Len(s) \in Nat /\ Len(s) # 0 /\ \A i \in 1..Len(s) : s[i] \in Seq(T)
    OBVIOUS
  <1>2. PICK g \in [1..Len(s) -> Seq(T)] : Joins(g, s, Len(s))
    BY <1>1, JoinsExists
  <1>3. Joins(F, s, Len(s))
    BY <1>2
  <1>4. FlattenSeq(s) = F[Len(s)]
    BY <1>1 DEF FlattenSeq, Joins
  <1> HIDE DEF F
  <1>5. SameUpTo(F, g, Len(s))
    <2>1. SameUpTo(s, s, Len(s))
      BY DEF SameUpTo
    <2> QED
      BY <1>1, <1>2, <1>3, <2>1, JoinsAgree
  <1>6. g[Len(s)] = F[Len(s)]
    BY <1>1, <1>5 DEF SameUpTo
  <1> QED
    BY <1>2, <1>4, <1>6

(* Flattening a sequence with one more element appends that element. *)
LEMMA FlattenSeqAppend ==
    ASSUME NEW T, NEW s \in Seq(Seq(T)), NEW x \in Seq(T)
    PROVE  /\ FlattenSeq(Append(s, x)) = FlattenSeq(s) \o x
           /\ FlattenSeq(s) \in Seq(T)
  <1>0. PICK t : t = Append(s, x)
    OBVIOUS
  <1>1. /\ t \in Seq(Seq(T)) /\ t # <<>> /\ Len(t) = Len(s) + 1 /\ Len(s) \in Nat
        /\ t[Len(t)] = x /\ \A i \in 1..Len(s) : t[i] = s[i]
        /\ Len(t) \in Nat /\ Len(s) <= Len(t)
    <2>1. s \in Seq(Seq(T)) /\ x \in Seq(T)
      OBVIOUS
    <2>2. \A U : s \in Seq(U) /\ x \in U =>
             /\ Append(s, x) \in Seq(U) /\ Append(s, x) # <<>>
             /\ Len(Append(s, x)) = Len(s) + 1 /\ Len(s) \in Nat
             /\ Append(s, x)[Len(s) + 1] = x
             /\ \A i \in 1..Len(s) : Append(s, x)[i] = s[i]
      OBVIOUS
    <2> QED
      BY <1>0, <2>1, <2>2
  <1>2. PICK g \in [1..Len(t) -> Seq(T)] : Joins(g, t, Len(t)) /\ FlattenSeq(t) = g[Len(t)]
    BY <1>1, FlattenSeqJoins
  <1>3. Len(t) \in 1..Len(t)
    BY <1>1
  <1>4. g[Len(t)] = IF Len(t) = 1 THEN t[Len(t)] ELSE g[Len(t) - 1] \o t[Len(t)]
    BY <1>2, <1>3 DEF Joins
  <1>5. CASE s = <<>>
    <2>1. Len(t) = 1 /\ FlattenSeq(s) = <<>> /\ <<>> \in Seq(T)
      BY <1>1, <1>5 DEF FlattenSeq
    <2>2. <<>> \o x = x
      OBVIOUS
    <2> QED
      BY <1>0, <1>1, <1>2, <1>4, <2>1, <2>2
  <1>6. CASE s # <<>>
    <2>1. PICK f \in [1..Len(s) -> Seq(T)] : Joins(f, s, Len(s)) /\ FlattenSeq(s) = f[Len(s)]
      BY <1>6, FlattenSeqJoins
    <2>2. SameUpTo(f, g, Len(s))
      <3>1. SameUpTo(s, t, Len(s))
        BY <1>1 DEF SameUpTo
      <3> QED
        BY <1>1, <1>2, <2>1, <3>1, JoinsAgree
    <2>3. Len(s) \in 1..Len(s) /\ Len(t) # 1 /\ Len(t) - 1 = Len(s)
      BY <1>1, <1>6
    <2>4. f[Len(s)] \in Seq(T)
      BY <2>3
    <2> QED
      BY <1>1, <1>2, <1>4, <2>1, <2>2, <2>3, <2>4, <1>0 DEF SameUpTo
  <1> QED
    BY <1>5, <1>6

-----------------------------------------------------------------------------
(* PayloadBytes. *)

(* f sums up the sizes of the first n events. *)
Sums(f, events, n) ==
    f = [k \in 0..n |-> IF k = 0 THEN 0
                        ELSE f[k - 1] + EventPayloadBytes(events[k].length)]

SizesOK(events, n) == \A k \in 1..n : EventPayloadBytes(events[k].length) \in Nat

SumsUpTo(f, g, n) == \A k \in 0..n : f[k] = g[k]

LEMMA SumsExists ==
    ASSUME NEW events, NEW len \in Nat, SizesOK(events, len)
    PROVE  \E f \in [0..len -> Nat] : Sums(f, events, len)
  <1> DEFINE S == {n \in Nat : n <= len => \E f \in [0..n -> Nat] : Sums(f, events, n)}
  <1>1. 0 \in S
    <2> DEFINE f == [k \in 0..0 |-> 0]
    <2>1. f \in [0..0 -> Nat] /\ Sums(f, events, 0)
      BY DEF Sums
    <2> QED
      BY <2>1
  <1>2. ASSUME NEW n \in Nat, n \in S PROVE n + 1 \in S
    <2> SUFFICES ASSUME n + 1 <= len
                 PROVE  \E f \in [0..(n + 1) -> Nat] : Sums(f, events, n + 1)
      OBVIOUS
    <2>1. PICK f \in [0..n -> Nat] : Sums(f, events, n)
      BY <1>2
    <2>2. PICK size \in Nat : size = EventPayloadBytes(events[n + 1].length)
      BY DEF SizesOK
    <2> DEFINE g == [k \in 0..(n + 1) |-> IF k = n + 1 THEN f[n] + size ELSE f[k]]
    <2>3. g \in [0..(n + 1) -> Nat]
      BY <2>2
    <2>4. ASSUME NEW k \in 0..(n + 1)
          PROVE  g[k] = IF k = 0 THEN 0 ELSE g[k - 1] + EventPayloadBytes(events[k].length)
      <3>1. CASE k = n + 1
        <4>1. g[k] = f[n] + size /\ k # 0 /\ k - 1 = n /\ g[n] = f[n]
          BY <3>1
        <4> QED
          BY <2>2, <3>1, <4>1
      <3>2. CASE k # n + 1
        <4>1. k \in 0..n /\ g[k] = f[k] /\ (k # 0 => g[k - 1] = f[k - 1])
          BY <3>2
        <4>2. f[k] = IF k = 0 THEN 0 ELSE f[k - 1] + EventPayloadBytes(events[k].length)
          BY <2>1, <4>1 DEF Sums
        <4> QED
          BY <4>1, <4>2
      <3> QED
        BY <3>1, <3>2
    <2>5. Sums(g, events, n + 1)
      <3> HIDE DEF g
      <3>1. g = [k \in 0..(n + 1) |-> g[k]]
        BY <2>3
      <3> QED
        BY <2>4, <3>1 DEF Sums
    <2> QED
      BY <2>3, <2>5
  <1> HIDE DEF S
  <1>3. len \in S
    BY <1>1, <1>2, InductionOnSet
  <1> QED
    BY <1>3 DEF S

LEMMA SumsAgree ==
    ASSUME NEW s, NEW t, NEW len \in Nat, NEW m \in Nat, len <= m,
           SameUpTo(s, t, len), NEW f, NEW g, Sums(f, s, len), Sums(g, t, m)
    PROVE  SumsUpTo(f, g, len)
  <1> DEFINE S == {n \in Nat : n <= len => f[n] = g[n]}
  <1>1. 0 \in S
    BY DEF Sums
  <1>2. ASSUME NEW n \in Nat, n \in S PROVE n + 1 \in S
    <2> SUFFICES ASSUME n + 1 <= len PROVE f[n + 1] = g[n + 1]
      OBVIOUS
    <2>1. /\ n + 1 \in 0..len /\ n + 1 \in 0..m /\ n + 1 \in 1..len
          /\ (n + 1) - 1 = n /\ n + 1 # 0 /\ f[n] = g[n]
      BY <1>2
    <2>2. f[n + 1] = f[n] + EventPayloadBytes(s[n + 1].length)
      BY <2>1 DEF Sums
    <2>3. g[n + 1] = g[n] + EventPayloadBytes(t[n + 1].length)
      BY <2>1 DEF Sums
    <2> QED
      BY <2>1, <2>2, <2>3 DEF SameUpTo
  <1> HIDE DEF S
  <1>3. \A n \in Nat : n \in S
    BY <1>1, <1>2, InductionOnSet
  <1> QED
    BY <1>3 DEF S, SumsUpTo

LEMMA PayloadBytesSums ==
    ASSUME NEW s, NEW len \in Nat, Len(s) = len, SizesOK(s, len)
    PROVE  \E f \in [0..len -> Nat] : Sums(f, s, len) /\ PayloadBytes(s) = f[len]
  <1> DEFINE F == CHOOSE f : Sums(f, s, Len(s))
  <1>1. PICK g \in [0..len -> Nat] : Sums(g, s, len)
    BY SumsExists
  <1>2. Sums(F, s, len)
    BY <1>1
  <1>3. PayloadBytes(s) = F[Len(s)]
    BY DEF PayloadBytes, Sums
  <1> HIDE DEF F
  <1>4. SameUpTo(s, s, len)
    BY DEF SameUpTo
  <1>5. SumsUpTo(F, g, len)
    BY <1>1, <1>2, <1>4, SumsAgree
  <1>6. F[len] = g[len]
    BY <1>5 DEF SumsUpTo
  <1> QED
    BY <1>1, <1>3, <1>6

LEMMA EventSize ==
    ASSUME NEW s \in Seq(Event)
    PROVE  Len(s) \in Nat /\ SizesOK(s, Len(s))
  <1>1. ASSUME NEW k \in 1..Len(s) PROVE s[k].length \in Nat
    <2>1. s[k] \in Event
      OBVIOUS
    <2> QED
      BY <2>1 DEF Event
  <1> QED
    BY <1>1, LimitsAssumption DEF SizesOK, EventPayloadBytes

(* The size of a sequence with one more event. *)
LEMMA PayloadBytesAppend ==
    ASSUME NEW s \in Seq(Event), NEW e \in Event
    PROVE  /\ PayloadBytes(Append(s, e)) = PayloadBytes(s) + EventPayloadBytes(e.length)
           /\ PayloadBytes(s) \in Nat
  <1>1. PICK t : t = Append(s, e)
    OBVIOUS
  <1>2. PICK n \in Nat : n = Len(s)
    OBVIOUS
  <1>3. /\ t \in Seq(Event) /\ Len(t) = n + 1 /\ t[n + 1] = e
        /\ \A i \in 1..n : t[i] = s[i]
    BY <1>1, <1>2
  <1>4. SizesOK(s, n) /\ SizesOK(t, n + 1)
    BY <1>2, <1>3, EventSize
  <1>5. PICK f \in [0..n -> Nat] : Sums(f, s, n) /\ PayloadBytes(s) = f[n]
    BY <1>2, <1>4, PayloadBytesSums
  <1>6. n + 1 \in Nat /\ n <= n + 1 /\ n + 1 \in 0..(n + 1) /\ n \in 0..n /\ n + 1 # 0
        /\ (n + 1) - 1 = n
    OBVIOUS
  <1>7. PICK g \in [0..(n + 1) -> Nat] : Sums(g, t, n + 1) /\ PayloadBytes(t) = g[n + 1]
    BY <1>3, <1>4, <1>6, PayloadBytesSums
  <1>8. SameUpTo(s, t, n)
    BY <1>3 DEF SameUpTo
  <1>9. SumsUpTo(f, g, n)
    BY <1>5, <1>6, <1>7, <1>8, SumsAgree
  <1>10. g[n + 1] = g[n] + EventPayloadBytes(t[n + 1].length)
    BY <1>6, <1>7 DEF Sums
  <1>11. f[n] = g[n] /\ f[n] \in Nat
    BY <1>5, <1>6, <1>9 DEF SumsUpTo
  <1> QED
    BY <1>1, <1>3, <1>5, <1>7, <1>10, <1>11

LEMMA PayloadBytesEmpty == PayloadBytes(<<>>) = 0
  <1>1. Len(<<>>) = 0 /\ <<>> \in Seq(Event) /\ 0 \in Nat
    OBVIOUS
  <1>2. PICK f \in [0..0 -> Nat] : Sums(f, <<>>, 0) /\ PayloadBytes(<<>>) = f[0]
    BY <1>1, EventSize, PayloadBytesSums
  <1> QED
    BY <1>2 DEF Sums

-----------------------------------------------------------------------------
(* The events of batches. *)

LEMMA AppendIsFunction ==
    ASSUME NEW S, NEW s \in Seq(S), NEW x \in S
    PROVE  Append(s, x) = [i \in 1..(Len(s) + 1) |-> IF i = Len(s) + 1 THEN x ELSE s[i]]
  <1>1. PICK t : t = Append(s, x)
    OBVIOUS
  <1>2. t \in Seq(S) /\ Len(t) = Len(s) + 1
    BY <1>1, AppendKeeps
  <1>3. Len(t) \in Nat /\ t \in [1..Len(t) -> S]
    BY <1>2
  <1>4. \A i \in 1..(Len(s) + 1) : t[i] = IF i = Len(s) + 1 THEN x ELSE s[i]
    BY <1>1, AppendKeeps
  <1> QED
    BY <1>1, <1>2, <1>3, <1>4

LEMMA EventIdsType ==
    ASSUME NEW b \in Batch
    PROVE  EventIds(b) \in Seq(Nat) /\ Len(EventIds(b)) = Len(b.logEvents)
  <1>1. b.logEvents \in Seq(Event)
    BY DEF Batch
  <1>2. ASSUME NEW j \in DOMAIN b.logEvents PROVE b.logEvents[j].id \in Nat
    <2>1. b.logEvents[j] \in Event
      BY <1>1
    <2> QED
      BY <2>1 DEF Event
  <1> QED
    BY <1>1, <1>2 DEF EventIds

LEMMA EventIdsAdd ==
    ASSUME NEW b \in Batch, NEW e \in Event
    PROVE  EventIds(AddLogEvent(b, e)) = Append(EventIds(b), e.id)
  <1>1. PICK s \in Seq(Event) : s = b.logEvents
    BY DEF Batch
  <1>2. PICK t : t = Append(s, e)
    OBVIOUS
  <1>3. AddLogEvent(b, e).logEvents = t
    BY <1>1, <1>2 DEF AddLogEvent, Batch
  <1>4. /\ t \in Seq(Event) /\ Len(t) = Len(s) + 1 /\ t[Len(s) + 1] = e /\ Len(s) \in Nat
        /\ \A i \in 1..Len(s) : t[i] = s[i]
    BY <1>2
  <1>5. /\ EventIds(b) = [j \in 1..Len(s) |-> s[j].id]
        /\ EventIds(AddLogEvent(b, e)) = [j \in 1..(Len(s) + 1) |-> t[j].id]
    BY <1>1, <1>3, <1>4 DEF EventIds
  <1>6. Append([j \in 1..Len(s) |-> s[j].id], e.id) = [j \in 1..(Len(s) + 1) |-> t[j].id]
    <2>1. e.id \in Nat
      BY DEF Event
    <2>2. ASSUME NEW j \in 1..Len(s) PROVE s[j].id \in Nat
      <3>1. s[j] \in Event
        OBVIOUS
      <3> QED
        BY <3>1 DEF Event
    <2> QED
      BY <1>4, <2>1, <2>2, AppendIsFunction
  <1> QED
    BY <1>5, <1>6

LEMMA EventIdsNew ==
    ASSUME NEW t
    PROVE  EventIds(NewLogEventBatch(t)) = <<>>
  BY DEF EventIds, NewLogEventBatch

LEMMA BatchIdsAppend ==
    ASSUME NEW s \in Seq(Batch), NEW b \in Batch
    PROVE  /\ BatchIds(Append(s, b)) = BatchIds(s) \o EventIds(b)
           /\ BatchIds(s) \in Seq(Nat)
  <1>1. PICK ids : ids = [i \in DOMAIN s |-> EventIds(s[i])]
    OBVIOUS
  <1>2. PICK t : t = Append(s, b)
    OBVIOUS
  <1>3. /\ t \in Seq(Batch) /\ Len(t) = Len(s) + 1 /\ t[Len(s) + 1] = b /\ Len(s) \in Nat
        /\ \A i \in 1..Len(s) : t[i] = s[i]
    BY <1>2
  <1>4. EventIds(b) \in Seq(Nat) /\ \A i \in 1..Len(s) : EventIds(s[i]) \in Seq(Nat)
    BY EventIdsType
  <1>5. ids \in Seq(Seq(Nat)) /\ Len(ids) = Len(s)
    <2>1. DOMAIN s = 1..Len(s) /\ Len(s) \in Nat
      OBVIOUS
    <2> QED
      BY <1>1, <1>4, <2>1
  <1>6. [i \in DOMAIN t |-> EventIds(t[i])] = Append(ids, EventIds(b))
    <2>1. DOMAIN t = 1..(Len(s) + 1) /\ DOMAIN s = 1..Len(s)
      BY <1>3
    <2>2. ids = [i \in 1..Len(s) |-> EventIds(s[i])]
      BY <1>1, <2>1
    <2>3. Append(ids, EventIds(b)) =
             [i \in 1..(Len(s) + 1) |-> IF i = Len(s) + 1 THEN EventIds(b) ELSE ids[i]]
      BY <1>4, <1>5, AppendIsFunction
    <2>4. \A i \in 1..(Len(s) + 1) :
             EventIds(t[i]) = IF i = Len(s) + 1 THEN EventIds(b) ELSE ids[i]
      BY <1>3, <2>2
    <2> QED
      BY <2>1, <2>3, <2>4
  <1>7. /\ FlattenSeq(Append(ids, EventIds(b))) = FlattenSeq(ids) \o EventIds(b)
        /\ FlattenSeq(ids) \in Seq(Nat)
    BY <1>4, <1>5, FlattenSeqAppend
  <1> QED
    BY <1>1, <1>2, <1>6, <1>7 DEF BatchIds

LEMMA BatchesAppend ==
    ASSUME TypeOK
    PROVE  /\ Batches = Append(handed \o pushChan, logEventBatch)
           /\ handed \o pushChan \in Seq(Batch) /\ logEventBatch \in Batch
           /\ BatchIds(Batches) = BatchIds(handed \o pushChan) \o EventIds(logEventBatch)
           /\ BatchIds(handed \o pushChan) \in Seq(Nat)
           /\ EventIds(logEventBatch) \in Seq(Nat)
  <1>1. handed \in Seq(Batch) /\ pushChan \in Seq(Batch) /\ logEventBatch \in Batch
    BY DEF TypeOK
  <1>2. handed \o pushChan \in Seq(Batch)
    BY <1>1
  <1>3. Batches = Append(handed \o pushChan, logEventBatch)
    <2>1. PICK s \in Seq(Batch) : s = handed \o pushChan
      BY <1>2
    <2>2. s \o <<logEventBatch>> = Append(s, logEventBatch)
      BY <1>1
    <2> QED
      BY <2>1, <2>2 DEF Batches
  <1> QED
    BY <1>1, <1>2, <1>3, BatchIdsAppend, EventIdsType

-----------------------------------------------------------------------------
(* The invariant. *)

Counted(b) == b.byteTotal = PayloadBytes(b.logEvents)

CountedOK ==
    /\ Counted(logEventBatch)
    /\ \A i \in 1..Len(pushChan) : Counted(pushChan[i])
    /\ \A i \in 1..Len(handed) : Counted(handed[i])

AcceptedIds == [i \in DOMAIN accepted |-> accepted[i].id]

(* The accepted events are those in batches and the one that waits.        *)
PlacedOK ==
    \/ pending = {} /\ BatchIds(Batches) = AcceptedIds
    \/ \E e \in pending : pending = {e} /\ Append(BatchIds(Batches), e.id) = AcceptedIds

WaitsToSend == process # "send" => pending = {}

IncreasingOK ==
    \A i, j \in 1..Len(accepted) : i < j => accepted[i].id < accepted[j].id

(* Every event has a size, so that a batch with events is not taken for an *)
(* empty one.                                                              *)
WeightOK ==
    /\ \A e \in pending : e.length > 0
    /\ Len(logEventBatch.logEvents) > 0 => logEventBatch.byteTotal > 0

FlowInv == CountedOK /\ PlacedOK /\ WaitsToSend /\ IncreasingOK /\ WeightOK

LEMMA AddCounted ==
    ASSUME NEW b \in Batch, Counted(b), NEW e \in Event, NEW c, c = AddLogEvent(b, e)
    PROVE  /\ Counted(c)
           /\ e.length > 0 => c.byteTotal > 0
  <1>1. b.logEvents \in Seq(Event) /\ b.byteTotal \in Nat /\ e.length \in Nat
    BY DEF Batch, Event
  <1>2. /\ c.logEvents = Append(b.logEvents, e)
        /\ c.byteTotal = b.byteTotal + EventPayloadBytes(e.length)
    BY DEF AddLogEvent, Batch
  <1>3. Counted(c)
    BY <1>1, <1>2, PayloadBytesAppend DEF Counted
  <1> QED
    BY <1>1, <1>2, <1>3, LimitsAssumption DEF EventPayloadBytes

LEMMA NewCounted ==
    ASSUME NEW t, NEW b, b = NewLogEventBatch(t)
    PROVE  Counted(b) /\ Len(b.logEvents) = 0
  BY PayloadBytesEmpty DEF Counted, NewLogEventBatch

LEMMA InitFlowInv == Init => FlowInv
  <1> SUFFICES ASSUME Init PROVE FlowInv
    OBVIOUS
  <1> USE DEF Init
  <1>1. CountedOK
    BY NewCounted DEF CountedOK
  <1>2. PlacedOK
    <2>1. TypeOK
      BY InitIInv DEF IInv
    <2>2. handed \o pushChan = <<>>
      OBVIOUS
    <2>3. BatchIds(<<>>) = <<>>
      BY DEF BatchIds, FlattenSeq
    <2>4. EventIds(logEventBatch) = <<>>
      BY EventIdsNew
    <2>5. BatchIds(Batches) = <<>>
      BY <2>1, <2>2, <2>3, <2>4, BatchesAppend
    <2>6. AcceptedIds = <<>>
      BY DEF AcceptedIds
    <2> QED
      BY <2>5, <2>6 DEF PlacedOK
  <1>3. WaitsToSend /\ IncreasingOK
    BY DEF WaitsToSend, IncreasingOK
  <1>4. WeightOK
    BY NewCounted DEF WeightOK
  <1> QED
    BY <1>1, <1>2, <1>3, <1>4 DEF FlowInv

(* Steps that move no event. *)
LEMMA StillFlowInv ==
    FlowInv /\ (\/ AddLogEntry \/ CloseShutdownChan \/ Tick \/ DiscardContinuation
                \/ RefuseLogEvent \/ ReceiveTick \/ ReceiveShutdown \/ PublisherClosed
                \/ PushShutdown \/ UNCHANGED vars) => FlowInv'
  <1> SUFFICES ASSUME FlowInv,
                      \/ AddLogEntry \/ CloseShutdownChan \/ Tick \/ DiscardContinuation
                      \/ RefuseLogEvent \/ ReceiveTick \/ ReceiveShutdown \/ PublisherClosed
                      \/ PushShutdown \/ UNCHANGED vars
               PROVE  FlowInv'
    OBVIOUS
  <1> USE DEF clockVars, callerVars, lineVars, batchVars, pushVars
  <1>1. UNCHANGED <<logEventBatch, accepted, pending, pushChan, handed>>
    BY DEF AddLogEntry, CloseShutdownChan, Tick, DiscardContinuation, RefuseLogEvent,
           ReceiveTick, ReceiveShutdown, PublisherClosed, PushShutdown, vars
  <1>2. WaitsToSend'
    BY <1>1 DEF FlowInv, WaitsToSend,
           AddLogEntry, CloseShutdownChan, Tick, DiscardContinuation, RefuseLogEvent,
           ReceiveTick, ReceiveShutdown, PublisherClosed, PushShutdown, vars
  <1>3. CountedOK' /\ IncreasingOK' /\ WeightOK'
    BY <1>1 DEF FlowInv, CountedOK, IncreasingOK, WeightOK
  <1>4. Batches' = Batches /\ AcceptedIds' = AcceptedIds
    BY <1>1 DEF Batches, AcceptedIds
  <1>5. PlacedOK'
    BY <1>1, <1>4 DEF FlowInv, PlacedOK
  <1> QED
    BY <1>2, <1>3, <1>5 DEF FlowInv

(* What accepting an event does to the history. *)
LEMMA AcceptHistory ==
    ASSUME TypeOK, LineInv, FlowInv, ReceiveLogEvent, added' = added, RecordAccepted,
           NEW e \in Event, e = Received
    PROVE  IncreasingOK' /\ AcceptedIds' = Append(AcceptedIds, e.id) /\ AcceptedIds \in Seq(Nat)
  <1>1. PICK a : a = [id |-> e.id, at |-> now]
    OBVIOUS
  <1>2. a \in AcceptedRecord /\ accepted' = Append(accepted, a) /\ a.id = e.id
    BY <1>1, NowIsNat DEF RecordAccepted, AcceptedRecord, Event
  <1>3. accepted \in Seq(AcceptedRecord)
    BY DEF TypeOK
  <1>4. /\ accepted' \in Seq(AcceptedRecord)
        /\ Len(accepted') = Len(accepted) + 1 /\ Len(accepted) \in Nat
        /\ accepted'[Len(accepted) + 1] = a
        /\ \A i \in 1..Len(accepted) : accepted'[i] = accepted[i]
    BY <1>2, <1>3
  <1>5. e.id = ReceivedCount + 1 /\ ReceivedCount \in Nat
    BY ReceiveGrows DEF LineInv, Received
  <1>6. \A i \in 1..Len(accepted) : accepted[i].id \in 1..ReceivedCount
    BY DEF LineInv, AcceptedOK, NotCut
  <1>7. IncreasingOK'
    <2> SUFFICES ASSUME NEW i \in 1..Len(accepted'), NEW j \in 1..Len(accepted'), i < j
                 PROVE  accepted'[i].id < accepted'[j].id
      BY DEF IncreasingOK
    <2>1. i \in 1..Len(accepted) /\ accepted'[i] = accepted[i]
      BY <1>4
    <2>2. CASE j \in 1..Len(accepted)
      BY <1>4, <2>1, <2>2 DEF FlowInv, IncreasingOK
    <2>3. CASE j = Len(accepted) + 1
      BY <1>2, <1>4, <1>5, <1>6, <2>1, <2>3
    <2> QED
      BY <1>4, <2>2, <2>3
  <1>8. AcceptedIds \in Seq(Nat) /\ Len(AcceptedIds) = Len(accepted)
    <2>1. DOMAIN accepted = 1..Len(accepted)
      BY <1>3
    <2>2. \A i \in 1..Len(accepted) : accepted[i].id \in Nat
      BY <1>5, <1>6
    <2> QED
      BY <1>4, <2>1, <2>2 DEF AcceptedIds
  <1>9. AcceptedIds' = Append(AcceptedIds, e.id)
    <2>1. e.id \in Nat
      BY DEF Event
    <2>2. Append(AcceptedIds, e.id) =
             [i \in 1..(Len(accepted) + 1) |->
                IF i = Len(accepted) + 1 THEN e.id ELSE AcceptedIds[i]]
      BY <1>8, <2>1, AppendIsFunction
    <2>3. DOMAIN accepted' = 1..(Len(accepted) + 1) /\ DOMAIN accepted = 1..Len(accepted)
      BY <1>3, <1>4
    <2>4. AcceptedIds' = [i \in 1..(Len(accepted) + 1) |-> accepted'[i].id]
      BY <2>3 DEF AcceptedIds
    <2>5. \A i \in 1..(Len(accepted) + 1) :
             accepted'[i].id = IF i = Len(accepted) + 1 THEN e.id ELSE AcceptedIds[i]
      BY <1>2, <1>4, <2>3 DEF AcceptedIds
    <2> QED
      BY <2>2, <2>4, <2>5
  <1> QED
    BY <1>7, <1>8, <1>9

(* An acceptable event has a size. *)
LEMMA ReceivedWeighs ==
    ASSUME TypeOK, logEventChan # <<>>, IsAcceptable(Received, now)
    PROVE  Received \in Event /\ Received.length > 0
  <1>1. Received \in Event /\ Received.length # 0
    BY ReceivedIsEvent DEF IsAcceptable
  <1> QED
    BY <1>1 DEF Event

(* The ids of batches in any three places. *)
LEMMA IdsOfBatches ==
    ASSUME NEW h \in Seq(Batch), NEW p \in Seq(Batch), NEW b \in Batch
    PROVE  /\ BatchIds(h \o p \o <<b>>) = BatchIds(h \o p) \o EventIds(b)
           /\ BatchIds(h \o p) \in Seq(Nat) /\ EventIds(b) \in Seq(Nat)
           /\ h \o Append(p, b) = h \o p \o <<b>>
  <1>1. PICK s \in Seq(Batch) : s = h \o p
    BY ConcatProperties
  <1>2. s \o <<b>> = Append(s, b)
    OBVIOUS
  <1>3. BatchIds(Append(s, b)) = BatchIds(s) \o EventIds(b) /\ BatchIds(s) \in Seq(Nat)
    BY BatchIdsAppend
  <1>4. h \o Append(p, b) = h \o p \o <<b>>
    <2>1. <<b>> \in Seq(Batch)
      OBVIOUS
    <2>2. Append(p, b) = p \o <<b>>
      OBVIOUS
    <2> QED
      BY <2>1, <2>2, ConcatAssociative
  <1> QED
    BY <1>1, <1>2, <1>3, <1>4, EventIdsType

LEMMA AppendToConcat ==
    ASSUME NEW s \in Seq(Nat), NEW t \in Seq(Nat), NEW x \in Nat
    PROVE  s \o Append(t, x) = Append(s \o t, x)
  <1>1. s \o t \in Seq(Nat)
    BY ConcatProperties
  <1>2. PICK u \in Seq(Nat) : u = s \o t
    BY <1>1
  <1>3. <<x>> \in Seq(Nat) /\ Append(t, x) = t \o <<x>> /\ Append(u, x) = u \o <<x>>
    <2>1. <<x>> \in Seq(Nat)
      OBVIOUS
    <2>2. Append(t, x) = t \o <<x>>
      OBVIOUS
    <2>3. Append(u, x) = u \o <<x>>
      OBVIOUS
    <2> QED
      BY <2>1, <2>2, <2>3
  <1> QED
    BY <1>2, <1>3, ConcatAssociative

LEMMA AddedIsBatch ==
    ASSUME NEW b \in Batch, NEW e \in Event
    PROVE  AddLogEvent(b, e) \in Batch
  <1>1. /\ b.logEvents \in Seq(Event) /\ b.byteTotal \in Nat /\ b.creationTime \in Nat
        /\ b.minTimestampInMillis \in Int /\ b.maxTimestampInMillis \in Int
        /\ e.timestamp \in Int /\ e.length \in Nat
    BY DEF Batch, Event
  <1>2. b.byteTotal + EventPayloadBytes(e.length) \in Nat
    BY <1>1, LimitsAssumption DEF EventPayloadBytes
  <1>3. Append(b.logEvents, e) \in Seq(Event)
    BY <1>1
  <1> QED
    BY <1>1, <1>2, <1>3 DEF AddLogEvent, Batch

LEMMA AcceptFlowInv == TypeOK /\ LineInv /\ FlowInv /\ AcceptLogEvent => FlowInv'
  <1> SUFFICES ASSUME TypeOK, LineInv, FlowInv, AcceptLogEvent PROVE FlowInv'
    OBVIOUS
  <1>1. /\ ReceiveLogEvent /\ IsAcceptable(Received, now) /\ RecordAccepted
        /\ logEventBatch' = AddLogEvent(logEventBatch, Received)
        /\ UNCHANGED <<added, process, pending, pushChan, handed>>
        /\ process = "select"
    BY DEF AcceptLogEvent, AcceptInto, ReceiveLogEvent, callerVars, pushVars
  <1>2. PICK e \in Event : e = Received /\ e.length > 0
    BY <1>1, ReceivedWeighs DEF ReceiveLogEvent
  <1>3. PICK b \in Batch : b = logEventBatch
    BY DEF TypeOK
  <1>4. PICK c \in Batch : c = AddLogEvent(b, e)
    BY AddedIsBatch
  <1>5. logEventBatch' = c
    BY <1>1, <1>2, <1>3, <1>4
  <1>6. Counted(c) /\ c.byteTotal > 0
    BY <1>2, <1>3, <1>4, AddCounted DEF FlowInv, CountedOK
  <1>7. CountedOK'
    BY <1>1, <1>5, <1>6 DEF FlowInv, CountedOK, Counted
  <1>8. pending = {} /\ pending' = {} /\ WaitsToSend'
    BY <1>1 DEF FlowInv, WaitsToSend
  <1>9. WeightOK'
    BY <1>5, <1>6, <1>8 DEF WeightOK
  <1>10. IncreasingOK' /\ AcceptedIds' = Append(AcceptedIds, e.id)
    BY <1>1, <1>2, AcceptHistory
  <1>11. PlacedOK'
    <2>1. PICK h \in Seq(Batch), p \in Seq(Batch) : h = handed /\ p = pushChan
      BY DEF TypeOK
    <2>2. /\ Batches = h \o p \o <<b>>
          /\ Batches' = h \o p \o <<c>>
      BY <1>1, <1>3, <1>5, <2>1 DEF Batches
    <2>3. EventIds(c) = Append(EventIds(b), e.id)
      BY <1>4, EventIdsAdd
    <2>4. e.id \in Nat
      BY DEF Event
    <2>5. BatchIds(h \o p \o <<c>>) = Append(BatchIds(h \o p \o <<b>>), e.id)
      <3>1. /\ BatchIds(h \o p \o <<b>>) = BatchIds(h \o p) \o EventIds(b)
            /\ BatchIds(h \o p) \in Seq(Nat) /\ EventIds(b) \in Seq(Nat)
        BY IdsOfBatches
      <3>2. BatchIds(h \o p \o <<c>>) = BatchIds(h \o p) \o EventIds(c)
        BY IdsOfBatches
      <3>3. BatchIds(h \o p) \o Append(EventIds(b), e.id) =
               Append(BatchIds(h \o p) \o EventIds(b), e.id)
        BY <2>4, <3>1, AppendToConcat
      <3> QED
        BY <2>3, <3>1, <3>2, <3>3
    <2>6. BatchIds(Batches) = AcceptedIds
      BY <1>8 DEF FlowInv, PlacedOK
    <2>7. BatchIds(Batches)' = Append(AcceptedIds, e.id)
      BY <2>2, <2>5, <2>6
    <2> QED
      BY <1>8, <1>10, <2>7 DEF PlacedOK
  <1> QED
    BY <1>7, <1>8, <1>9, <1>10, <1>11 DEF FlowInv

LEMMA WaitFlowInv == TypeOK /\ LineInv /\ FlowInv /\ AcceptAfterPush => FlowInv'
  <1> SUFFICES ASSUME TypeOK, LineInv, FlowInv, AcceptAfterPush PROVE FlowInv'
    OBVIOUS
  <1>1. /\ ReceiveLogEvent /\ IsAcceptable(Received, now) /\ RecordAccepted
        /\ pending' = {Received} /\ process' = "send"
        /\ UNCHANGED <<added, logEventBatch, pushChan, handed>>
        /\ process = "select"
    BY DEF AcceptAfterPush, ReceiveLogEvent, callerVars, pushVars
  <1>2. PICK e \in Event : e = Received /\ e.length > 0
    BY <1>1, ReceivedWeighs DEF ReceiveLogEvent
  <1>3. CountedOK'
    BY <1>1 DEF FlowInv, CountedOK
  <1>4. pending = {} /\ pending' = {e} /\ WaitsToSend'
    BY <1>1, <1>2 DEF FlowInv, WaitsToSend
  <1>5. WeightOK'
    BY <1>1, <1>2, <1>4 DEF FlowInv, WeightOK
  <1>6. IncreasingOK' /\ AcceptedIds' = Append(AcceptedIds, e.id)
    BY <1>1, <1>2, AcceptHistory
  <1>7. PlacedOK'
    <2>1. Batches' = Batches
      BY <1>1 DEF Batches
    <2>2. BatchIds(Batches) = AcceptedIds
      BY <1>4 DEF FlowInv, PlacedOK
    <2>3. Append(BatchIds(Batches'), e.id) = AcceptedIds'
      BY <1>6, <2>1, <2>2
    <2> QED
      BY <1>4, <2>3 DEF PlacedOK
  <1> QED
    BY <1>3, <1>4, <1>5, <1>6, <1>7 DEF FlowInv

LEMMA SendFlowInv == TypeOK /\ FlowInv /\ SendBatch => FlowInv'
  <1> SUFFICES ASSUME TypeOK, FlowInv, SendBatch PROVE FlowInv'
    OBVIOUS
  <1>1. /\ pushChan' = Append(pushChan, logEventBatch) /\ pending' = {} /\ process' = "select"
        /\ UNCHANGED <<accepted, handed>>
        /\ \/ pending = {} /\ logEventBatch' = NewLogEventBatch(now)
           \/ \E e \in pending : logEventBatch' = AddLogEvent(NewLogEventBatch(now), e)
    BY DEF SendBatch, AcceptInto, pushVars
  <1>2. PICK h \in Seq(Batch), p \in Seq(Batch), b \in Batch :
           h = handed /\ p = pushChan /\ b = logEventBatch
    BY DEF TypeOK
  <1>3. PICK n \in Batch : n = NewLogEventBatch(now)
    BY NewBatchGood, NowIsNat
  <1>4. Counted(n) /\ Len(n.logEvents) = 0 /\ EventIds(n) = <<>>
    BY <1>3, NewCounted, EventIdsNew
  <1>5. PICK c : c = logEventBatch'
    OBVIOUS
  <1>6. PICK q \in Seq(Batch) : q = Append(p, b)
    BY AppendKeeps
  <1>7. PICK ids \in Seq(Nat) : ids = BatchIds(Batches)
    BY BatchesAppend, ConcatProperties
  <1>8. BatchIds(h \o q) = ids
    <2>1. h \o q = h \o p \o <<b>>
      BY <1>6, IdsOfBatches
    <2>2. Batches = h \o p \o <<b>>
      BY <1>2 DEF Batches
    <2> QED
      BY <1>7, <2>1, <2>2
  <1>9. Batches' = h \o q \o <<c>>
    BY <1>1, <1>2, <1>5, <1>6 DEF Batches
  <1>10. /\ Counted(c) /\ (Len(c.logEvents) > 0 => c.byteTotal > 0)
         /\ BatchIds(Batches') = AcceptedIds
    <2>1. CASE pending = {} /\ c = n
      <3>1. BatchIds(h \o q \o <<n>>) = BatchIds(h \o q) \o EventIds(n)
        BY IdsOfBatches
      <3>2. ids \o <<>> = ids
        BY ConcatEmptySeq
      <3>3. ids = AcceptedIds
        BY <1>7, <2>1 DEF FlowInv, PlacedOK
      <3> QED
        BY <1>4, <1>8, <1>9, <2>1, <3>1, <3>2, <3>3
    <2>2. ASSUME NEW e \in pending, c = AddLogEvent(n, e)
          PROVE  /\ Counted(c) /\ c.byteTotal > 0
                 /\ BatchIds(Batches') = AcceptedIds
      <3>1. e \in Event /\ e.id \in Nat /\ e.length > 0
        BY DEF TypeOK, Event, FlowInv, WeightOK
      <3>2. c \in Batch /\ Counted(c) /\ c.byteTotal > 0
        BY <1>4, <2>2, <3>1, AddCounted, AddedIsBatch
      <3>3. EventIds(c) = Append(<<>>, e.id)
        BY <1>4, <2>2, <3>1, EventIdsAdd
      <3>4. <<>> \in Seq(Nat) /\ ids \o <<>> = ids
        BY ConcatEmptySeq
      <3>5. BatchIds(h \o q \o <<c>>) = BatchIds(h \o q) \o EventIds(c)
        BY <3>2, IdsOfBatches
      <3>6. ids \o Append(<<>>, e.id) = Append(ids, e.id)
        BY <3>1, <3>4, AppendToConcat
      <3>7. Append(ids, e.id) = AcceptedIds
        BY <1>7, <2>2 DEF FlowInv, PlacedOK
      <3> QED
        BY <1>8, <1>9, <3>2, <3>3, <3>5, <3>6, <3>7
    <2> QED
      BY <1>1, <1>3, <1>5, <1>4, <2>1, <2>2
  <1>11. CountedOK'
    <2>1. \A i \in 1..Len(pushChan') : \/ i \in 1..Len(pushChan) /\ pushChan'[i] = pushChan[i]
                                       \/ pushChan'[i] = logEventBatch
      BY <1>1, <1>2, AppendKeeps
    <2>2. \A i \in 1..Len(pushChan') : Counted(pushChan'[i])
      BY <2>1 DEF FlowInv, CountedOK
    <2> QED
      BY <1>1, <1>5, <1>10, <2>2 DEF FlowInv, CountedOK, Counted
  <1>12. PlacedOK'
    <2>1. AcceptedIds' = AcceptedIds
      BY <1>1 DEF AcceptedIds
    <2>2. BatchIds(Batches)' = AcceptedIds'
      BY <1>10, <2>1
    <2> QED
      BY <1>1, <2>2 DEF PlacedOK
  <1>13. WaitsToSend' /\ IncreasingOK' /\ WeightOK'
    BY <1>1, <1>5, <1>10 DEF FlowInv, WaitsToSend, IncreasingOK, WeightOK
  <1> QED
    BY <1>11, <1>12, <1>13 DEF FlowInv

LEMMA PushFlowInv == TypeOK /\ FlowInv /\ PushBatch => FlowInv'
  <1> SUFFICES ASSUME TypeOK, FlowInv, PushBatch PROVE FlowInv'
    OBVIOUS
  <1>1. /\ pushChan # <<>> /\ pushChan' = Tail(pushChan)
        /\ handed' = Append(handed, Head(pushChan))
        /\ UNCHANGED <<accepted, pending, logEventBatch, process>>
    BY DEF PushBatch, batchVars
  <1>2. PICK h \in Seq(Batch), p \in Seq(Batch), b \in Batch :
           h = handed /\ p = pushChan /\ b = logEventBatch
    BY DEF TypeOK
  <1>3. p # <<>>
    BY <1>1, <1>2
  <1>4. Append(h, Head(p)) \o Tail(p) = h \o p
    <2>1. PICK x \in Batch, t \in Seq(Batch) : x = Head(p) /\ t = Tail(p)
      BY <1>3, HeadTailProperties
    <2>2. <<x>> \in Seq(Batch) /\ Append(h, x) = h \o <<x>>
      OBVIOUS
    <2>3. p = <<x>> \o t
      BY <1>3, <2>1
    <2> QED
      BY <2>1, <2>2, <2>3, ConcatAssociative
  <1>5. Batches' = Batches
    BY <1>1, <1>2, <1>4 DEF Batches
  <1>6. AcceptedIds' = AcceptedIds
    BY <1>1 DEF AcceptedIds
  <1>7. PlacedOK'
    BY <1>1, <1>5, <1>6 DEF FlowInv, PlacedOK
  <1>8. CountedOK'
    <2>1. /\ Head(pushChan) = pushChan[1] /\ 1 \in 1..Len(pushChan) /\ Head(pushChan) \in Batch
          /\ \A i \in 1..Len(pushChan') :
                i + 1 \in 1..Len(pushChan) /\ pushChan'[i] = pushChan[i + 1]
      BY <1>1, <1>2, TailKeeps
    <2>2. \A i \in 1..Len(handed') : \/ i \in 1..Len(handed) /\ handed'[i] = handed[i]
                                     \/ handed'[i] = pushChan[1]
      BY <1>1, <1>2, <2>1, AppendKeeps
    <2> QED
      BY <1>1, <2>1, <2>2 DEF FlowInv, CountedOK
  <1>9. WaitsToSend' /\ IncreasingOK' /\ WeightOK'
    BY <1>1 DEF FlowInv, WaitsToSend, IncreasingOK, WeightOK
  <1> QED
    BY <1>7, <1>8, <1>9 DEF FlowInv

LEMMA FlowInvariance == Spec => []FlowInv
  <1>1. TypeOK /\ LineInv /\ FlowInv /\ [Next]_vars => FlowInv'
    BY StillFlowInv, AcceptFlowInv, WaitFlowInv, SendFlowInv, PushFlowInv
    DEF Next, ProcessStep, PushStep
  <1> QED
    BY InitFlowInv, TypeCorrect, LineInvariance, <1>1, PTL DEF Spec

-----------------------------------------------------------------------------

(* The counter the size limit is enforced with is the size of the events   *)
(* of the batch, for every batch on its way: for any events and limits.    *)
THEOREM ByteTotals == Spec => []ByteTotalIsSum
  <1>1. ASSUME TypeOK, FlowInv PROVE ByteTotalIsSum
    <2>1. ASSUME NEW i \in DOMAIN Batches
          PROVE  Counted(Batches[i])
      <3>1. /\ handed \in Seq(Batch) /\ pushChan \in Seq(Batch)
            /\ <<logEventBatch>> \in Seq(Batch)
        BY <1>1 DEF TypeOK
      <3>2. \/ i \in 1..Len(handed) /\ Batches[i] = handed[i]
            \/ \E k \in 1..Len(pushChan) : Batches[i] = pushChan[k]
            \/ Batches[i] = logEventBatch
        BY <1>1, <2>1, PlaceOfBatch
      <3> QED
        BY <1>1, <3>2 DEF FlowInv, CountedOK
    <2> QED
      BY <2>1 DEF ByteTotalIsSum, Counted
  <1> QED
    BY FlowInvariance, TypeCorrect, <1>1, PTL

(* A set of at most one element as a sequence. *)
LEMMA SmallSetToSeq ==
    /\ SetToSeq({}) = <<>>
    /\ \A x : SetToSeq({x}) = <<x>>
  <1>1. SetToSeq({}) = <<>>
    <2>1. SetToSeq({}) = CHOOSE f \in [1..0 -> {}] : IsInjective(f)
      BY FS_EmptySet DEF SetToSeq
    <2>2. <<>> \in [1..0 -> {}] /\ \A f \in [1..0 -> {}] : f = <<>>
      OBVIOUS
    <2>3. IsInjective(<<>>)
      BY DEF IsInjective
    <2> QED
      BY <2>1, <2>2, <2>3
  <1>2. ASSUME NEW x PROVE SetToSeq({x}) = <<x>>
    <2>1. SetToSeq({x}) = CHOOSE f \in [1..1 -> {x}] : IsInjective(f)
      BY FS_Singleton DEF SetToSeq
    <2>2. <<x>> \in [1..1 -> {x}] /\ \A f \in [1..1 -> {x}] : f = <<x>>
      OBVIOUS
    <2>3. IsInjective(<<x>>)
      BY DEF IsInjective
    <2> QED
      BY <2>1, <2>2, <2>3
  <1> QED
    BY <1>1, <1>2

(* No accepted event is lost, duplicated or overtaken on its way to the    *)
(* publisher, wherever it waits: for any events and limits.                *)
THEOREM InOrder == Spec => []AcceptedInOrder
  <1>1. ASSUME TypeOK, LineInv, FlowInv PROVE AcceptedInOrder
    <2>1. PICK ids \in Seq(Nat) : ids = BatchIds(Batches)
      BY <1>1, BatchesAppend, ConcatProperties
    <2>2. PICK waiting : waiting = SetToSeq({e.id : e \in pending})
      OBVIOUS
    <2>3. ids \o waiting = AcceptedIds /\ Len(ids) <= Len(accepted)
          /\ \A i \in 1..Len(ids) : ids[i] = accepted[i].id
      <3>1. DOMAIN accepted = 1..Len(accepted) /\ Len(accepted) \in Nat
        BY <1>1 DEF TypeOK
      <3>2. \A i \in 1..Len(accepted) : AcceptedIds[i] = accepted[i].id
        BY <3>1 DEF AcceptedIds
      <3>3. CASE pending = {} /\ ids = AcceptedIds
        <4>1. waiting = <<>>
          BY <2>2, <3>3, SmallSetToSeq
        <4>2. ids \o <<>> = ids
          BY ConcatEmptySeq
        <4>3. Len(ids) = Len(accepted)
          BY <3>1, <3>3 DEF AcceptedIds
        <4> QED
          BY <3>1, <3>2, <3>3, <4>1, <4>2, <4>3
      <3>4. ASSUME NEW e \in pending, pending = {e}, Append(ids, e.id) = AcceptedIds
            PROVE  ids \o waiting = AcceptedIds /\ Len(ids) <= Len(accepted)
                   /\ \A i \in 1..Len(ids) : ids[i] = accepted[i].id
        <4>1. e.id \in Nat
          BY <1>1, <3>4 DEF TypeOK, Event
        <4>2. waiting = <<e.id>>
          <5>1. {x.id : x \in pending} = {e.id}
            BY <3>4
          <5> QED
            BY <2>2, <5>1, SmallSetToSeq
        <4>3. ids \o <<e.id>> = Append(ids, e.id)
          BY <4>1
        <4>4. PICK a : a = Append(ids, e.id)
          OBVIOUS
        <4>5. /\ a \in Seq(Nat) /\ Len(a) = Len(ids) + 1 /\ Len(ids) \in Nat
              /\ \A i \in 1..Len(ids) : a[i] = ids[i]
          BY <4>1, <4>4
        <4>6. a = AcceptedIds
          BY <3>4, <4>4
        <4>7. Len(a) = Len(accepted)
          BY <3>1, <4>6 DEF AcceptedIds
        <4>8. Len(ids) <= Len(accepted) /\ \A i \in 1..Len(ids) : i \in 1..Len(accepted)
          BY <3>1, <4>5, <4>7
        <4>9. \A i \in 1..Len(ids) : ids[i] = accepted[i].id
          BY <3>2, <4>5, <4>6, <4>8
        <4> QED
          BY <4>2, <4>3, <4>4, <4>6, <4>8, <4>9
      <3> QED
        BY <1>1, <2>1, <3>3, <3>4 DEF FlowInv, PlacedOK
    <2>4. ASSUME NEW i \in DOMAIN ids, NEW j \in DOMAIN ids, i < j
          PROVE  ids[i] < ids[j]
      <3>1. /\ i \in 1..Len(ids) /\ j \in 1..Len(ids)
            /\ i \in 1..Len(accepted) /\ j \in 1..Len(accepted)
        BY <1>1, <2>3, <2>4 DEF TypeOK
      <3> QED
        BY <1>1, <2>3, <2>4, <3>1 DEF FlowInv, IncreasingOK
    <2> QED
      BY <2>1, <2>2, <2>3, <2>4 DEF AcceptedInOrder, AcceptedIds
  <1> QED
    BY FlowInvariance, LineInvariance, TypeCorrect, <1>1, PTL

-----------------------------------------------------------------------------
(* A prompt pusher.  While it is not shut down, its clock waits for its    *)
(* goroutines, so that it can be told how long each event has waited.      *)

SinceTick == (now - StartTime) % ForceFlushInterval

(* The accepted events in the current batch are the last ones, but for the *)
(* one that waits.                                                         *)
BatchEnd == IF pending = {} THEN Len(accepted) ELSE Len(accepted) - 1

InBatch(i) == BatchEnd - Len(logEventBatch.logEvents) < i /\ i <= BatchEnd

Waiting == \A i \in 1..Len(accepted) :
              HandedCount < i => now - accepted[i].at <= 2 * ForceFlushInterval

YoungerThanBatch ==
    /\ logEventBatch.creationTime <= now
    /\ \A i \in 1..Len(accepted) :
          InBatch(i) => logEventBatch.creationTime <= accepted[i].at

(* The events that the latest tick left in the batch were accepted at most *)
(* one interval before it.                                                 *)
KeptByTick ==
    process = "select" /\ ~tick =>
        \A i \in 1..Len(accepted) :
           InBatch(i) => now - SinceTick <= accepted[i].at + ForceFlushInterval

TickOnTime == tick => SinceTick = 0

WaitsForNoTime == pending # {} => Len(accepted) > 0 /\ accepted[Len(accepted)].at = now

Running == push = "select" /\ process \in {"select", "send"}

TimedOK == Waiting /\ YoungerThanBatch /\ KeptByTick /\ TickOnTime /\ WaitsForNoTime /\ Running

TimedInv == ~shutdown => TimedOK

LEMMA ModSteps ==
    ASSUME NEW F \in Nat \ {0}, NEW x \in Nat
    PROVE  /\ x % F \in 0..(F - 1)
           /\ (x + 1) % F # 0 => (x + 1) % F = (x % F) + 1
  OBVIOUS

(* Where the accepted events are when nothing is on its way to push. *)
LEMMA WhereAccepted ==
    ASSUME TypeOK, FlowInv
    PROVE  /\ HandedCount \in Nat
           /\ pushChan = <<>> /\ pending = {} =>
                 HandedCount + Len(logEventBatch.logEvents) = Len(accepted)
  <1>1. PICK h \in Seq(Batch), b \in Batch : h = handed /\ b = logEventBatch
    BY DEF TypeOK
  <1>2. /\ BatchIds(h) \in Seq(Nat) /\ EventIds(b) \in Seq(Nat)
        /\ Len(EventIds(b)) = Len(b.logEvents)
    BY EventIdsType, BatchIdsAppend
  <1>3. HandedCount \in Nat
    BY <1>1, <1>2 DEF HandedCount
  <1>4. ASSUME pushChan = <<>>, pending = {}
        PROVE  HandedCount + Len(logEventBatch.logEvents) = Len(accepted)
    <2>1. h \o <<>> = h
      BY ConcatEmptySeq
    <2>2. BatchIds(Batches) = BatchIds(h) \o EventIds(b)
      BY <1>1, <1>4, <2>1, BatchesAppend
    <2>3. BatchIds(h) \o EventIds(b) = AcceptedIds
      BY <1>4, <2>2 DEF FlowInv, PlacedOK
    <2>4. Len(BatchIds(h) \o EventIds(b)) = Len(BatchIds(h)) + Len(EventIds(b))
      BY <1>2, ConcatProperties
    <2>5. Len(AcceptedIds) = Len(accepted)
      BY DEF TypeOK, AcceptedIds
    <2> QED
      BY <1>1, <1>2, <2>3, <2>4, <2>5 DEF HandedCount
  <1> QED
    BY <1>3, <1>4

LEMMA AcceptedAt ==
    ASSUME TypeOK, RecordAccepted, logEventChan # <<>>
    PROVE  /\ Len(accepted) \in Nat /\ Len(accepted') = Len(accepted) + 1
           /\ \A i \in 1..Len(accepted) : accepted'[i] = accepted[i]
           /\ accepted'[Len(accepted) + 1].at = now
  <1>1. Received \in Event
    BY ReceivedIsEvent
  <1>2. PICK a \in AcceptedRecord : a = [id |-> Received.id, at |-> now]
    BY <1>1, NowIsNat DEF Event, AcceptedRecord
  <1>3. accepted \in Seq(AcceptedRecord) /\ accepted' = Append(accepted, a) /\ a.at = now
    BY <1>2 DEF TypeOK, RecordAccepted
  <1> QED
    BY <1>3, AppendProperties

(* The numbers the timing facts are about. *)
LEMMA TimeTypes ==
    ASSUME TypeOK
    PROVE  /\ now \in Nat /\ now - StartTime \in Nat /\ ForceFlushInterval \in Nat \ {0}
           /\ SinceTick \in 0..(ForceFlushInterval - 1)
           /\ Len(accepted) \in Nat /\ \A i \in 1..Len(accepted) : accepted[i].at \in Nat
           /\ logEventBatch.creationTime \in Nat /\ Len(logEventBatch.logEvents) \in Nat
           /\ logEventBatch.byteTotal \in Nat
  <1>1. now \in Nat /\ now - StartTime \in Nat /\ ForceFlushInterval \in Nat \ {0}
    BY PusherAssumption DEF TypeOK
  <1>2. SinceTick \in 0..(ForceFlushInterval - 1)
    BY <1>1, ModSteps DEF SinceTick
  <1>3. accepted \in Seq(AcceptedRecord) /\ Len(accepted) \in Nat
    BY DEF TypeOK
  <1>4. ASSUME NEW i \in 1..Len(accepted) PROVE accepted[i].at \in Nat
    <2>1. accepted[i] \in AcceptedRecord
      BY <1>3
    <2> QED
      BY <2>1 DEF AcceptedRecord
  <1>5. logEventBatch \in Batch
    BY DEF TypeOK
  <1>6. /\ logEventBatch.creationTime \in Nat /\ logEventBatch.logEvents \in Seq(Event)
        /\ logEventBatch.byteTotal \in Nat
    BY <1>5 DEF Batch
  <1> QED
    BY <1>1, <1>2, <1>3, <1>4, <1>6

LEMMA InitTimedOK == Init => TimedOK
  <1> SUFFICES ASSUME Init PROVE TimedOK
    OBVIOUS
  <1>1. StartTime \in Nat /\ ForceFlushInterval \in Nat \ {0}
    BY PusherAssumption
  <1> QED
    BY <1>1 DEF Init, TimedOK, Waiting, YoungerThanBatch, KeptByTick, TickOnTime, WaitsForNoTime,
                Running, NewLogEventBatch

LEMMA StillTimedOK ==
    ASSUME TimedOK, AddLogEntry \/ DiscardContinuation \/ RefuseLogEvent \/ UNCHANGED vars
    PROVE  TimedOK'
  <1>1. UNCHANGED <<now, tick, process, push, pending, accepted, logEventBatch, handed>>
    BY DEF AddLogEntry, DiscardContinuation, RefuseLogEvent, vars, clockVars, batchVars, pushVars
  <1> QED
    BY <1>1 DEF TimedOK, Waiting, YoungerThanBatch, KeptByTick, TickOnTime, WaitsForNoTime,
                Running, SinceTick, InBatch, BatchEnd, HandedCount

LEMMA AcceptTimedOK ==
    ASSUME TypeOK, FlowInv, TimedOK, AcceptLogEvent
    PROVE  TimedOK'
  <1>1. /\ logEventChan # <<>> /\ RecordAccepted /\ process = "select"
        /\ logEventBatch' = AddLogEvent(logEventBatch, Received)
        /\ UNCHANGED <<now, tick, process, pending, push, handed>>
    BY DEF AcceptLogEvent, AcceptInto, ReceiveLogEvent, clockVars, pushVars
  <1>2. PICK n \in Nat : n = Len(accepted)
    BY TimeTypes
  <1>3. /\ Len(accepted') = n + 1 /\ accepted'[n + 1].at = now
        /\ \A i \in 1..n : accepted'[i] = accepted[i]
    BY <1>1, <1>2, AcceptedAt
  <1>4. pending = {} /\ pending' = {}
    BY <1>1 DEF FlowInv, WaitsToSend
  <1>5. /\ logEventBatch'.creationTime = logEventBatch.creationTime
        /\ Len(logEventBatch'.logEvents) = Len(logEventBatch.logEvents) + 1
        /\ Len(logEventBatch.logEvents) \in Nat
    <2>1. PICK b \in Batch : b = logEventBatch
      BY DEF TypeOK
    <2>2. PICK e \in Event : e = Received
      BY <1>1, ReceivedIsEvent
    <2>3. b.logEvents \in Seq(Event)
      BY DEF Batch
    <2>4. /\ AddLogEvent(b, e).creationTime = b.creationTime
          /\ AddLogEvent(b, e).logEvents = Append(b.logEvents, e)
      BY DEF AddLogEvent, Batch
    <2> QED
      BY <1>1, <2>1, <2>2, <2>3, <2>4
  <1>6. /\ \A i \in 1..Len(accepted') : i \in 1..n \/ i = n + 1
        /\ \A i \in 1..n : InBatch(i)' <=> InBatch(i)
    <2>1. BatchEnd = n /\ BatchEnd' = n + 1
      BY <1>2, <1>3, <1>4 DEF BatchEnd
    <2>2. PICK k \in Nat : k = Len(logEventBatch.logEvents)
      BY <1>5
    <2>3. ASSUME NEW i \in 1..n PROVE InBatch(i)' <=> InBatch(i)
      <3>1. InBatch(i) <=> n - k < i /\ i <= n
        BY <2>1, <2>2 DEF InBatch
      <3>2. InBatch(i)' <=> (n + 1) - (k + 1) < i /\ i <= n + 1
        BY <1>5, <2>1, <2>2 DEF InBatch
      <3> QED
        BY <3>1, <3>2
    <2> QED
      BY <1>3, <2>3
  <1>7. HandedCount' = HandedCount /\ SinceTick' = SinceTick
    BY <1>1 DEF HandedCount, SinceTick
  <1>8. Waiting'
    <2>1. /\ now \in Nat /\ now' = now /\ ForceFlushInterval \in Nat
          /\ HandedCount' = HandedCount /\ 2 * ForceFlushInterval >= 0
      BY <1>1, <1>7, TimeTypes
    <2>2. ASSUME NEW i \in 1..Len(accepted'), HandedCount' < i
          PROVE  now' - accepted'[i].at <= 2 * ForceFlushInterval
      <3>1. CASE i = n + 1
        BY <1>3, <2>1, <3>1
      <3>2. CASE i \in 1..n
        <4>1. now - accepted[i].at <= 2 * ForceFlushInterval
          BY <1>2, <2>1, <2>2, <3>2 DEF TimedOK, Waiting
        <4> QED
          BY <1>3, <2>1, <3>2, <4>1
      <3> QED
        BY <1>6, <3>1, <3>2
    <2> QED
      BY <2>2 DEF Waiting
  <1>9. YoungerThanBatch'
    BY <1>1, <1>2, <1>3, <1>5, <1>6 DEF TimedOK, YoungerThanBatch
  <1>10. KeptByTick'
    <2> SUFFICES ASSUME ~tick, NEW i \in 1..Len(accepted'), InBatch(i)'
                 PROVE  now - SinceTick <= accepted'[i].at + ForceFlushInterval
      BY <1>1, <1>7 DEF KeptByTick
    <2>1. CASE i \in 1..n
      BY <1>1, <1>2, <1>3, <1>6, <2>1 DEF TimedOK, KeptByTick
    <2>2. CASE i = n + 1
      BY <1>3, <2>2, TimeTypes
    <2> QED
      BY <1>6, <2>1, <2>2
  <1>11. TickOnTime' /\ WaitsForNoTime' /\ Running'
    BY <1>1, <1>4, <1>7 DEF TimedOK, TickOnTime, WaitsForNoTime, Running
  <1> QED
    BY <1>8, <1>9, <1>10, <1>11 DEF TimedOK

LEMMA WaitTimedOK ==
    ASSUME TypeOK, FlowInv, TimedOK, AcceptAfterPush
    PROVE  TimedOK'
  <1>1. /\ logEventChan # <<>> /\ RecordAccepted /\ process = "select" /\ process' = "send"
        /\ pending' = {Received}
        /\ UNCHANGED <<now, tick, logEventBatch, push, handed>>
    BY DEF AcceptAfterPush, ReceiveLogEvent, clockVars, pushVars
  <1>2. PICK n \in Nat : n = Len(accepted)
    BY TimeTypes
  <1>3. /\ Len(accepted') = n + 1 /\ accepted'[n + 1].at = now
        /\ \A i \in 1..n : accepted'[i] = accepted[i]
    BY <1>1, <1>2, AcceptedAt
  <1>4. pending = {} /\ pending' # {}
    BY <1>1 DEF FlowInv, WaitsToSend
  <1>5. BatchEnd = n /\ BatchEnd' = n
    BY <1>2, <1>3, <1>4 DEF BatchEnd
  <1>6. /\ \A i \in 1..Len(accepted') : i \in 1..n \/ i = n + 1
        /\ \A i \in 1..n : InBatch(i)' <=> InBatch(i)
        /\ ~InBatch(n + 1)'
    BY <1>1, <1>3, <1>5 DEF InBatch
  <1>7. HandedCount' = HandedCount /\ SinceTick' = SinceTick
    BY <1>1 DEF HandedCount, SinceTick
  <1>8. Waiting'
    <2>1. /\ now \in Nat /\ now' = now /\ ForceFlushInterval \in Nat
          /\ HandedCount' = HandedCount /\ 2 * ForceFlushInterval >= 0
      BY <1>1, <1>7, TimeTypes
    <2>2. ASSUME NEW i \in 1..Len(accepted'), HandedCount' < i
          PROVE  now' - accepted'[i].at <= 2 * ForceFlushInterval
      <3>1. CASE i = n + 1
        BY <1>3, <2>1, <3>1
      <3>2. CASE i \in 1..n
        <4>1. now - accepted[i].at <= 2 * ForceFlushInterval
          BY <1>2, <2>1, <2>2, <3>2 DEF TimedOK, Waiting
        <4> QED
          BY <1>3, <2>1, <3>2, <4>1
      <3> QED
        BY <1>6, <3>1, <3>2
    <2> QED
      BY <2>2 DEF Waiting
  <1>9. YoungerThanBatch'
    BY <1>1, <1>2, <1>3, <1>6 DEF TimedOK, YoungerThanBatch
  <1>10. KeptByTick'
    BY <1>1 DEF KeptByTick
  <1>11. TickOnTime' /\ WaitsForNoTime' /\ Running'
    BY <1>1, <1>3, <1>7 DEF TimedOK, TickOnTime, WaitsForNoTime, Running
  <1> QED
    BY <1>8, <1>9, <1>10, <1>11 DEF TimedOK

(* A tick that leaves the batch finds it at most one interval old, or      *)
(* empty.                                                                  *)
LEMMA ReceiveTickTimedOK ==
    ASSUME TypeOK, FlowInv, TimedOK, ReceiveTick
    PROVE  TimedOK'
  <1>1. /\ process = "select" /\ tick /\ tick' = FALSE /\ process' \in {"select", "send"}
        /\ process' = "select" => ~IsExpired(logEventBatch, now, ForceFlushInterval)
        /\ UNCHANGED <<now, pending, accepted, logEventBatch, push, handed>>
    BY DEF ReceiveTick, batchVars, pushVars
  <1>2. /\ HandedCount' = HandedCount /\ SinceTick' = SinceTick /\ SinceTick = 0
        /\ \A i : InBatch(i)' <=> InBatch(i)
    BY <1>1 DEF TimedOK, TickOnTime, HandedCount, SinceTick, InBatch, BatchEnd
  <1>3. KeptByTick'
    <2> SUFFICES ASSUME process' = "select", NEW i \in 1..Len(accepted), InBatch(i)
                 PROVE  now - SinceTick <= accepted[i].at + ForceFlushInterval
      BY <1>1, <1>2 DEF KeptByTick
    <2>1. Len(logEventBatch.logEvents) > 0
      <3>1. BatchEnd \in Int
        BY TimeTypes DEF BatchEnd
      <3> QED
        BY <3>1, TimeTypes DEF InBatch
    <2>2. logEventBatch.byteTotal > 0
      BY <2>1 DEF FlowInv, WeightOK
    <2>3. now - logEventBatch.creationTime <= ForceFlushInterval
      BY <1>1, <2>2, TimeTypes DEF IsExpired
    <2>4. logEventBatch.creationTime <= accepted[i].at
      BY DEF TimedOK, YoungerThanBatch
    <2> QED
      BY <1>2, <2>3, <2>4, TimeTypes
  <1>4. Waiting' /\ YoungerThanBatch'
    BY <1>1, <1>2 DEF TimedOK, Waiting, YoungerThanBatch
  <1>5. TickOnTime' /\ WaitsForNoTime' /\ Running'
    BY <1>1, <1>2 DEF TimedOK, TickOnTime, WaitsForNoTime, Running
  <1> QED
    BY <1>3, <1>4, <1>5 DEF TimedOK

(* The new batch is empty, or holds the event that waited for no time. *)
LEMMA SendTimedOK ==
    ASSUME TypeOK, FlowInv, TimedOK, SendBatch
    PROVE  TimedOK'
  <1>1. /\ pending' = {} /\ process' = "select"
        /\ UNCHANGED <<now, tick, accepted, push, handed>>
        /\ \/ pending = {} /\ logEventBatch' = NewLogEventBatch(now)
           \/ \E e \in pending : logEventBatch' = AddLogEvent(NewLogEventBatch(now), e)
    BY DEF SendBatch, AcceptInto, clockVars, pushVars
  <1>2. HandedCount' = HandedCount /\ SinceTick' = SinceTick
    BY <1>1 DEF HandedCount, SinceTick
  <1>3. /\ logEventBatch'.creationTime = now
        /\ \/ Len(logEventBatch'.logEvents) = 0
           \/ pending # {} /\ Len(logEventBatch'.logEvents) = 1
    <2>1. CASE pending = {} /\ logEventBatch' = NewLogEventBatch(now)
      BY <2>1 DEF NewLogEventBatch
    <2>2. ASSUME NEW e \in pending, logEventBatch' = AddLogEvent(NewLogEventBatch(now), e)
          PROVE  logEventBatch'.creationTime = now /\ Len(logEventBatch'.logEvents) = 1
      <3>1. PICK x \in Event : x = e
        BY DEF TypeOK
      <3>2. Len(Append(<<>>, x)) = 1
        OBVIOUS
      <3> QED
        BY <2>2, <3>1, <3>2 DEF AddLogEvent, NewLogEventBatch
    <2> QED
      BY <1>1, <2>1, <2>2
  <1>4. ASSUME NEW i \in 1..Len(accepted'), InBatch(i)'
        PROVE  accepted'[i].at = now
    <2>1. BatchEnd' = Len(accepted) /\ Len(accepted) \in Nat
      BY <1>1, TimeTypes DEF BatchEnd
    <2>2. i = Len(accepted) /\ pending # {}
      <3>1. PICK n \in Nat : n = Len(accepted)
        BY <2>1
      <3>2. n - Len(logEventBatch'.logEvents) < i /\ i <= n /\ i \in 1..n
        BY <1>1, <1>4, <2>1, <3>1 DEF InBatch
      <3>3. CASE Len(logEventBatch'.logEvents) = 0
        BY <3>2, <3>3
      <3>4. CASE pending # {} /\ Len(logEventBatch'.logEvents) = 1
        BY <3>1, <3>2, <3>4
      <3> QED
        BY <1>3, <3>3, <3>4
    <2> QED
      BY <1>1, <2>2 DEF TimedOK, WaitsForNoTime
  <1>5. Waiting'
    BY <1>1, <1>2 DEF TimedOK, Waiting
  <1>6. YoungerThanBatch'
    BY <1>1, <1>3, <1>4, TimeTypes DEF YoungerThanBatch
  <1>7. KeptByTick'
    BY <1>1, <1>2, <1>4, TimeTypes DEF KeptByTick
  <1>8. TickOnTime' /\ WaitsForNoTime' /\ Running'
    BY <1>1, <1>2 DEF TimedOK, TickOnTime, WaitsForNoTime, Running
  <1> QED
    BY <1>5, <1>6, <1>7, <1>8 DEF TimedOK

LEMMA PushTimedOK ==
    ASSUME TypeOK, TimedOK, PushBatch
    PROVE  TimedOK'
  <1>1. /\ pushChan # <<>> /\ handed' = Append(handed, Head(pushChan))
        /\ UNCHANGED <<now, tick, process, pending, accepted, logEventBatch, push>>
    BY DEF PushBatch, clockVars, batchVars
  <1>2. HandedCount \in Nat /\ HandedCount' \in Nat /\ HandedCount <= HandedCount'
    <2>1. PICK h \in Seq(Batch), p \in Seq(Batch) : h = handed /\ p = pushChan
      BY DEF TypeOK
    <2>2. PICK x \in Batch : x = Head(p)
      BY <1>1, <2>1, HeadTailProperties
    <2>3. /\ BatchIds(Append(h, x)) = BatchIds(h) \o EventIds(x)
          /\ BatchIds(h) \in Seq(Nat) /\ EventIds(x) \in Seq(Nat)
      BY BatchIdsAppend, EventIdsType
    <2>4. PICK s \in Seq(Nat), t \in Seq(Nat) : s = BatchIds(h) /\ t = EventIds(x)
      BY <2>3
    <2>5. Len(s \o t) = Len(s) + Len(t) /\ Len(s) \in Nat /\ Len(t) \in Nat
      OBVIOUS
    <2>6. HandedCount = Len(s) /\ HandedCount' = Len(s \o t)
      BY <1>1, <2>1, <2>2, <2>3, <2>4 DEF HandedCount
    <2> QED
      BY <2>5, <2>6
  <1>3. Waiting'
    BY <1>1, <1>2, TimeTypes DEF TimedOK, Waiting
  <1>4. SinceTick' = SinceTick /\ \A i : InBatch(i)' <=> InBatch(i)
    BY <1>1 DEF SinceTick, InBatch, BatchEnd
  <1>5. YoungerThanBatch' /\ KeptByTick' /\ TickOnTime' /\ WaitsForNoTime' /\ Running'
    BY <1>1, <1>4 DEF TimedOK, YoungerThanBatch, KeptByTick, TickOnTime, WaitsForNoTime, Running
  <1> QED
    BY <1>3, <1>5 DEF TimedOK

(* While an event waits in a prompt pusher, no time passes but with every  *)
(* accepted event handed over or in the current batch.                     *)
LEMMA IdleWaits ==
    ASSUME TypeOK, FlowInv, TimedOK, ~shutdown, Idle
    PROVE  /\ process = "select" /\ ~tick /\ pending = {}
           /\ \A i \in 1..Len(accepted) : HandedCount < i => InBatch(i)
  <1>1. push = "select" /\ pushChan = <<>> /\ process \in {"select", "send"}
    BY DEF TimedOK, Running, Idle
  <1>2. process = "select" /\ ~tick
    <2>1. Len(pushChan) = 0 /\ PushChanSize # 0
      BY <1>1, PusherAssumption
    <2> QED
      BY <1>1, <2>1 DEF Idle
  <1>3. pending = {}
    BY <1>2 DEF FlowInv, WaitsToSend
  <1>4. HandedCount + Len(logEventBatch.logEvents) = Len(accepted) /\ HandedCount \in Nat
    BY <1>1, <1>3, WhereAccepted
  <1>5. \A i \in 1..Len(accepted) : HandedCount < i => InBatch(i)
    BY <1>3, <1>4, TimeTypes DEF InBatch, BatchEnd
  <1> QED
    BY <1>2, <1>3, <1>5

LEMMA TickTimedOK ==
    ASSUME TypeOK, FlowInv, TimedOK, ~shutdown, Idle, Tick
    PROVE  TimedOK'
  <1>1. /\ now' = now + 1 /\ tick' = (tick \/ (now' - StartTime) % ForceFlushInterval = 0)
        /\ UNCHANGED <<process, pending, accepted, logEventBatch, push, handed>>
    BY DEF Tick, batchVars, pushVars
  <1>2. /\ process = "select" /\ ~tick /\ pending = {}
        /\ \A i \in 1..Len(accepted) : HandedCount < i => InBatch(i)
    BY IdleWaits
  <1>3. HandedCount' = HandedCount /\ \A i : InBatch(i)' <=> InBatch(i)
    BY <1>1 DEF HandedCount, InBatch, BatchEnd
  <1>4. /\ SinceTick' \in Nat
        /\ tick' <=> SinceTick' = 0
        /\ SinceTick' # 0 => SinceTick' = SinceTick + 1
    <2>1. PICK x \in Nat : x = now - StartTime
      BY TimeTypes
    <2>2. now' - StartTime = x + 1
      BY <1>1, <2>1, PusherAssumption, TimeTypes
    <2>3. SinceTick = x % ForceFlushInterval /\ SinceTick' = (x + 1) % ForceFlushInterval
      BY <2>1, <2>2 DEF SinceTick
    <2>4. /\ (x + 1) % ForceFlushInterval \in Nat
          /\ (x + 1) % ForceFlushInterval # 0 =>
                (x + 1) % ForceFlushInterval = (x % ForceFlushInterval) + 1
      <3>1. PICK F \in Nat \ {0} : F = ForceFlushInterval
        BY TimeTypes
      <3>2. (x + 1) % F \in 0..(F - 1)
        <4>1. x + 1 \in Nat
          OBVIOUS
        <4> QED
          BY <4>1, ModSteps
      <3>3. (x + 1) % F # 0 => (x + 1) % F = (x % F) + 1
        BY ModSteps
      <3> QED
        BY <3>1, <3>2, <3>3
    <2> QED
      BY <1>1, <1>2, <2>2, <2>3, <2>4
  <1>5. \A i \in 1..Len(accepted) :
           InBatch(i) => now - SinceTick <= accepted[i].at + ForceFlushInterval
    BY <1>2 DEF TimedOK, KeptByTick
  <1>6. Waiting'
    <2>1. SinceTick <= ForceFlushInterval - 1 /\ now \in Nat /\ ForceFlushInterval \in Nat
          /\ SinceTick \in Nat
      BY TimeTypes
    <2>2. ASSUME NEW i \in 1..Len(accepted), HandedCount < i
          PROVE  now + 1 - accepted[i].at <= 2 * ForceFlushInterval
      <3>1. now - SinceTick <= accepted[i].at + ForceFlushInterval
        BY <1>2, <1>5, <2>2
      <3>2. accepted[i].at \in Nat
        BY TimeTypes
      <3> QED
        BY <2>1, <3>1, <3>2
    <2>3. PICK s, h, n : /\ s = accepted /\ h = HandedCount /\ n = now
                         /\ s = accepted' /\ h = HandedCount' /\ n + 1 = now'
      BY <1>1, <1>3
    <2>4. \A i \in 1..Len(s) : h < i => n + 1 - s[i].at <= 2 * ForceFlushInterval
      BY <2>2, <2>3
    <2>5. n \in Nat /\ n + 1 \in Nat /\ \A i \in 1..Len(s) : s[i].at \in Nat
      BY <2>1, <2>3, TimeTypes
    <2> QED
      BY <2>3, <2>4, <2>5, PusherAssumption DEF Waiting
  <1>7. YoungerThanBatch'
    BY <1>1, <1>3, TimeTypes DEF TimedOK, YoungerThanBatch
  <1>8. KeptByTick'
    BY <1>1, <1>3, <1>4, <1>5, TimeTypes DEF KeptByTick
  <1>9. TickOnTime' /\ WaitsForNoTime' /\ Running'
    BY <1>1, <1>2, <1>4 DEF TimedOK, TickOnTime, WaitsForNoTime, Running
  <1> QED
    BY <1>6, <1>7, <1>8, <1>9 DEF TimedOK

LEMMA TimedStep == TypeOK /\ FlowInv /\ TimedInv /\ [PromptNext]_vars => TimedInv'
  <1> SUFFICES ASSUME TypeOK, FlowInv, TimedInv, [PromptNext]_vars, ~shutdown'
               PROVE  TimedOK'
    BY DEF TimedInv
  <1>1. ~shutdown /\ ~CloseShutdownChan
    BY DEF PromptNext, AddLogEntry, CloseShutdownChan, Tick, ProcessStep, DiscardContinuation,
           RefuseLogEvent, AcceptLogEvent, AcceptAfterPush, ReceiveTick, SendBatch,
           ReceiveShutdown, PublisherClosed, PushStep, PushBatch, PushShutdown, vars, callerVars
  <1>2. TimedOK
    BY <1>1 DEF TimedInv
  <1>3. ~ReceiveShutdown /\ ~PublisherClosed /\ ~PushShutdown
    BY <1>1, <1>2 DEF ReceiveShutdown, PublisherClosed, PushShutdown, TimedOK, Running
  <1> QED
    BY <1>1, <1>2, <1>3, StillTimedOK, AcceptTimedOK, WaitTimedOK, ReceiveTickTimedOK,
       SendTimedOK, PushTimedOK, TickTimedOK
    DEF PromptNext, ProcessStep, PushStep

LEMMA PromptIsSpec == PromptSpec => Spec
  <1>1. [PromptNext]_vars => [Next]_vars
    BY DEF PromptNext, Next
  <1> QED
    BY <1>1, PTL DEF PromptSpec, Spec

LEMMA TimedInvariance == PromptSpec => []TimedInv
  <1>1. Init => TimedInv
    BY InitTimedOK DEF TimedInv
  <1> QED
    BY <1>1, TimedStep, PromptIsSpec, TypeCorrect, FlowInvariance, PTL DEF PromptSpec

(* In a prompt pusher that is not shut down, an accepted event waits at    *)
(* most two flush intervals for its batch to be handed to the publisher:   *)
(* for any events, limits and intervals, however long it runs.             *)
THEOREM FlushedInTime == PromptSpec => []FlushedWithinTwoIntervals
  <1>1. ASSUME TypeOK, FlowInv, TimedInv PROVE FlushedWithinTwoIntervals
    <2>1. HandedCount \in Nat
      BY <1>1, WhereAccepted
    <2>2. \A i \in (HandedCount + 1)..Len(accepted) :
             i \in 1..Len(accepted) /\ HandedCount < i
      BY <1>1, <2>1, TimeTypes
    <2> QED
      BY <1>1, <2>2 DEF TimedInv, TimedOK, Waiting, FlushedWithinTwoIntervals, WaitingAtMost
  <1> QED
    BY TimedInvariance, PromptIsSpec, TypeCorrect, FlowInvariance, <1>1, PTL

=============================================================================
