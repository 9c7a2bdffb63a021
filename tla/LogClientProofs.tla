------------------------- MODULE LogClientProofs -------------------------
(***************************************************************************)
(* Theorems about LogClient for every retry count and any number of        *)
(* batches, failures and deletions.  The inductive invariant says what the *)
(* client knows: no request carries a token newer than the one the client  *)
(* has now, a request that carries the current token is of a batch newer   *)
(* than the last one stored, and an attempt that was not spent on a failed *)
(* call was spent on creating the stream or on learning the token.         *)
(***************************************************************************)
EXTENDS LogClient, TLAPS

(* The newest token the client knows. *)
Known == IF client = "idle" THEN streamToken ELSE token

Creating == client \in {"createStream", "createGroup"}

(* Whether or not streams are deleted: the last batch stored is the newest,*)
(* and a request that could be accepted is not of an older one.            *)
LastIsNewest ==
    /\ lastPut.batch <= batch
    /\ \A r \in delayed : r.batch <= batch
    /\ stored # <<>> => expected # 0
    /\ \A i \in DOMAIN stored : stored[i] <= lastPut.batch
    /\ \A i, j \in DOMAIN stored : i < j => stored[i] <= stored[j]
    /\ expected # 0 => \A r \in delayed : r.token = expected => lastPut.batch <= r.batch

Recorded ==
    /\ client # "idle" => batch \in Batches
    /\ lastPut.batch # 0 => lastPut.batch \in everStored
    /\ SentWasStored

(* Without deletions there is one stream, and the tokens known only grow.  *)
TokensGrow ==
    /\ expected = issued
    /\ ~stream => issued = 0
    /\ issued # 0 => lastPut.token < issued
    /\ issued = 0 => lastPut = NoPut
    /\ client # "idle" => streamToken <= token
    /\ \A r \in delayed : r.token <= Known
    /\ Creating /\ inPut => token = 0

StrictlyOrdered == \A i, j \in DOMAIN stored : i < j => stored[i] < stored[j]

NewerThanLast ==
    issued # 0 =>
        /\ \A r \in delayed : r.token = issued => lastPut.batch < r.batch
        /\ client # "idle" =>
             /\ token = issued => lastPut.batch < batch
             /\ lastPut.batch = batch => lastPut.token = token

CurrentWhenSent ==
    client = "idle" /\ outcome = "sent" =>
        streamToken = issued /\ \A r \in delayed : r.token < issued

(* The next attempt ends the loop, unless a call fails. *)
Fresh ==
    \/ token = expected /\ \A r \in delayed : r.token = expected => r.batch = batch
    \/ lastPut = Request

GroupFirst == (client = "createGroup" => ~group) /\ (~group => ~stream)

AttemptsCounted ==
    client # "idle" /\ batchFaults < RetryCnt =>
        /\ Creating /\ ~inPut => attempt = 0
        /\ ~group /\ (client = "put" \/ inPut) => attempt < batchFaults
        /\ (Creating /\ inPut) \/ ~stream => attempt <= batchFaults
        /\ attempt <= batchFaults + 2
        /\ client = "put" /\ ~Fresh => attempt <= batchFaults + 1

OneStream ==
    deletes = 0 => /\ TokensGrow
                   /\ StrictlyOrdered
                   /\ NewerThanLast
                   /\ CurrentWhenSent
                   /\ GroupFirst
                   /\ AttemptsCounted

IInv ==
    /\ TypeOK
    /\ LastIsNewest
    /\ Recorded
    /\ OneStream
    /\ AbandonedOnlyAfterFaults

-----------------------------------------------------------------------------
(* What a step does to the stream, whoever takes it: nothing; a request    *)
(* that is late or the client's own is accepted; the stream is created;    *)
(* it is deleted.                                                          *)

Sendable == delayed \cup (IF client = "put" THEN {Request} ELSE {})

StreamKept == UNCHANGED <<stream, stored, expected, issued, lastPut, everStored>>

StreamStep ==
    \/ StreamKept
    \/ \E r \in Sendable : Accepts(r) /\ Accept(r)
    \/ ~stream /\ NewStream
    \/ /\ deletes' = deletes + 1 /\ stored' = <<>>
       /\ UNCHANGED <<expected, issued, lastPut, everStored>>

(* The client keeps the token it has through the end of an attempt. *)
TokenKept ==
    /\ client # "idle" /\ batch' = batch
    /\ \/ client' # "idle" /\ token' = token /\ streamToken' = streamToken
       \/ /\ client' = "idle" /\ outcome' # "sent"
          /\ streamToken' = IF token = 0 THEN streamToken ELSE token

LEMMA ReturnKeeps ==
    ASSUME NEW how, how # "sent", client # "idle",
           NextAttempt(token, how) \/ Return(token, how)
    PROVE  TokenKept
  BY DEF NextAttempt, Return, TokenKept

LEMMA StreamSteps ==
    ASSUME Next
    PROVE  StreamStep /\ delayed' \subseteq Sendable
  <1> USE DEF serviceVars, StreamStep, StreamKept, Sendable
  <1>1. CASE PushLogEventBatch
    BY <1>1 DEF PushLogEventBatch
  <1>2. CASE PutAccepted
    BY <1>2 DEF PutAccepted
  <1>3. CASE PutAcceptedWithoutToken
    BY <1>3 DEF PutAcceptedWithoutToken
  <1>4. CASE PutAlreadyAccepted \/ PutInvalidSequenceToken \/ PutResourceNotFound
    BY <1>4 DEF PutAlreadyAccepted, PutInvalidSequenceToken, PutResourceNotFound
  <1>5. CASE PutFails
    BY <1>5 DEF PutFails
  <1>6. CASE PutRefused
    BY <1>6 DEF PutRefused
  <1>7. CASE CreateLogStreamSucceeds
    BY <1>7 DEF CreateLogStreamSucceeds
  <1>8. CASE CreateLogStreamNotFound \/ CreateLogGroupSucceeds
    BY <1>8 DEF CreateLogStreamNotFound, CreateLogGroupSucceeds
  <1>9. CASE CreateFails
    BY <1>9 DEF CreateFails, CreateUnanswered
  <1>10. CASE CallHangs
    BY <1>10 DEF CallHangs, CreateUnanswered
  <1>11. CASE DelayedRequestArrives
    BY <1>11 DEF DelayedRequestArrives
  <1>12. CASE Delete
    BY <1>12 DEF Delete
  <1> QED
    BY <1>1, <1>2, <1>3, <1>4, <1>5, <1>6, <1>7, <1>8, <1>9, <1>10, <1>11, <1>12
    DEF Next, ClientStep

-----------------------------------------------------------------------------
(* Types. *)

Sent == [batch : Batches, token : 0..issued]

LEMMA FlagsStep == FlagsOK /\ Next => FlagsOK'
  <1> SUFFICES ASSUME FlagsOK, Next PROVE FlagsOK'
    OBVIOUS
  <1> USE DEF FlagsOK, serviceVars, createVars
  <1>1. CASE PushLogEventBatch
    BY <1>1 DEF PushLogEventBatch
  <1>2. CASE PutAccepted \/ PutAcceptedWithoutToken
    BY <1>2 DEF PutAccepted, PutAcceptedWithoutToken, Accept
  <1>3. CASE PutAlreadyAccepted \/ PutInvalidSequenceToken \/ PutRefused
    BY <1>3 DEF PutAlreadyAccepted, PutInvalidSequenceToken, PutRefused
  <1>4. CASE PutResourceNotFound
    BY <1>4 DEF PutResourceNotFound
  <1>5. CASE PutFails
    BY <1>5 DEF PutFails, Accept
  <1>6. CASE CreateLogStreamSucceeds
    BY <1>6 DEF CreateLogStreamSucceeds, NewStream, CreateStreamReturns
  <1>7. CASE CreateLogStreamNotFound \/ CreateLogGroupSucceeds
    BY <1>7 DEF CreateLogStreamNotFound, CreateLogGroupSucceeds, CreateStreamReturns
  <1>8. CASE CreateFails
    BY <1>8 DEF CreateFails, CreateUnanswered, NewStream, CreateStreamReturns
  <1>9. CASE CallHangs
    BY <1>9 DEF CallHangs, CreateUnanswered, NewStream, Accept
  <1>10. CASE DelayedRequestArrives
    BY <1>10 DEF DelayedRequestArrives, Accept
  <1>11. CASE Delete
    BY <1>11 DEF Delete
  <1> QED
    BY <1>1, <1>2, <1>3, <1>4, <1>5, <1>6, <1>7, <1>8, <1>9, <1>10, <1>11
    DEF Next, ClientStep

LEMMA SendableType ==
    ASSUME TypeOK, Recorded
    PROVE  Sendable \subseteq Sent
  BY DEF TypeOK, Recorded, Sendable, Sent, Request

LEMMA StreamTypes ==
    ASSUME TypeOK, Recorded, Next
    PROVE  /\ issued' \in Nat /\ issued <= issued'
           /\ stored' \in Seq(Batches) /\ everStored' \subseteq Batches
           /\ expected' \in 0..issued'
           /\ lastPut' \in [batch : 0..MaxBatches, token : 0..issued']
           /\ delayed' \subseteq [batch : Batches, token : 0..issued']
  <1> USE LogClientAssumption DEF Batches
  <1>1. /\ issued \in Nat /\ stored \in Seq(Batches) /\ everStored \subseteq Batches
        /\ expected \in 0..issued
        /\ lastPut \in [batch : 0..MaxBatches, token : 0..issued]
    BY DEF TypeOK
  <1>2. StreamStep /\ delayed' \subseteq Sent
    BY StreamSteps, SendableType
  <1>3. CASE StreamKept
    BY <1>1, <1>2, <1>3 DEF StreamKept, Sent
  <1>4. CASE \E r \in Sendable : Accepts(r) /\ Accept(r)
    <2>1. PICK r \in Sendable : Accept(r)
      BY <1>4
    <2>2. r.batch \in Batches /\ r.token \in 0..issued /\ r \in Sent
      BY SendableType, <2>1 DEF Sent
    <2>3. /\ issued' = issued + 1 /\ expected' = issued' /\ lastPut' = r
          /\ stored' = Append(stored, r.batch) /\ everStored' = everStored \cup {r.batch}
      BY <2>1 DEF Accept
    <2>4. 0..issued \subseteq 0..issued'
      BY <1>1, <2>3
    <2>5. lastPut' \in [batch : 0..MaxBatches, token : 0..issued']
      BY <2>2, <2>3, <2>4 DEF Sent
    <2>6. delayed' \subseteq [batch : Batches, token : 0..issued']
      BY <1>2, <2>4 DEF Sent
    <2>7. stored' \in Seq(Batches) /\ everStored' \subseteq Batches
      <3>1. r.batch \in Batches
        BY <2>2
      <3>2. stored' = Append(stored, r.batch) /\ everStored' = everStored \cup {r.batch}
        BY <2>3
      <3> HIDE DEF Batches
      <3> QED
        BY <1>1, <3>1, <3>2
    <2>8. issued' \in Nat /\ issued <= issued' /\ expected' \in 0..issued'
      BY <1>1, <2>3
    <2> QED
      BY <2>5, <2>6, <2>7, <2>8
  <1>5. CASE ~stream /\ NewStream
    <2>1. NoPut \in [batch : 0..MaxBatches, token : 0..issued]
      BY <1>1 DEF NoPut
    <2>2. /\ stored' = <<>> /\ expected' = 0 /\ lastPut' = NoPut
          /\ issued' = issued /\ everStored' = everStored
      BY <1>5 DEF NewStream
    <2>3. stored' \in Seq(Batches)
      BY <2>2
    <2> QED
      BY <1>1, <1>2, <2>1, <2>2, <2>3 DEF Sent
  <1>6. CASE stored' = <<>> /\ UNCHANGED <<expected, issued, lastPut, everStored>>
    BY <1>1, <1>2, <1>6 DEF Sent
  <1> QED
    BY <1>2, <1>3, <1>4, <1>5, <1>6 DEF StreamStep

Outcomes == {"none", "sent", "sentWithoutToken", "abandoned", "refused"}

(* The client's part of TypeOK, for tokens up to n. *)
ClientTypes(n) ==
    /\ client \in {"idle", "createStream", "createGroup", "put", "hung"}
    /\ batch \in 0..MaxBatches /\ attempt \in 0..RetryCnt
    /\ token \in 0..n /\ streamToken \in 0..n
    /\ outcome \in Outcomes

LEMMA NextAttemptTypes ==
    ASSUME NEW n \in Nat, NEW t \in 0..n, NEW how \in Outcomes,
           ClientTypes(n), NextAttempt(t, how) \/ Return(t, how)
    PROVE  \A m \in {n} : ClientTypes(m)'
  BY LogClientAssumption DEF ClientTypes, NextAttempt, Return

LEMMA ClientTypesStep ==
    ASSUME TypeOK, Recorded, Next
    PROVE  \A m \in {issued'} : ClientTypes(m)'
  <1> DEFINE m == issued'
  <1> SUFFICES \A n \in {m} : ClientTypes(n)'
    OBVIOUS
  <1>1. /\ issued \in Nat /\ m \in Nat /\ issued <= m /\ expected \in 0..m
        /\ expected' \in 0..m /\ token \in 0..m /\ 0 \in 0..m
    <2>1. issued \in Nat /\ expected \in 0..issued /\ token \in 0..issued
      BY DEF TypeOK
    <2>2. m \in Nat /\ issued <= m /\ expected' \in 0..m
      BY StreamTypes
    <2> QED
      BY <2>1, <2>2
  <1>2. ClientTypes(m)
    BY <1>1, LogClientAssumption DEF TypeOK, ClientTypes, Outcomes
  <1> HIDE DEF m
  <1>3. ASSUME UNCHANGED putVars, client' \in {"idle", "createStream", "createGroup", "put", "hung"}
        PROVE  \A n \in {m} : ClientTypes(n)'
    BY <1>2, <1>3 DEF ClientTypes, putVars
  <1>4. ASSUME NEW t \in 0..m, NEW how \in Outcomes, NextAttempt(t, how) \/ Return(t, how)
        PROVE  \A n \in {m} : ClientTypes(n)'
    BY <1>1, <1>2, <1>4, NextAttemptTypes
  <1>5. CASE PushLogEventBatch
    <2>1. /\ batch' = batch + 1 /\ batch < MaxBatches /\ attempt' = 0
          /\ token' = streamToken /\ streamToken' = streamToken /\ outcome' = outcome
          /\ client' \in {"createStream", "put"}
      BY <1>5 DEF PushLogEventBatch
    <2> QED
      BY <1>2, <2>1, LogClientAssumption DEF ClientTypes
  <1>6. CASE PutAccepted \/ PutAlreadyAccepted
    BY <1>1, <1>4, <1>6 DEF PutAccepted, PutAlreadyAccepted, Outcomes
  <1>7. CASE PutAcceptedWithoutToken \/ PutFails
    BY <1>1, <1>4, <1>7 DEF PutAcceptedWithoutToken, PutFails, Outcomes
  <1>8. CASE PutInvalidSequenceToken \/ PutRefused
    BY <1>1, <1>4, <1>8 DEF PutInvalidSequenceToken, PutRefused, Outcomes
  <1>9. CASE PutResourceNotFound \/ CreateLogStreamNotFound \/ CallHangs
    BY <1>3, <1>9 DEF PutResourceNotFound, CreateLogStreamNotFound, CallHangs
  <1>10. ASSUME NEW ok \in BOOLEAN, CreateStreamReturns(ok)
         PROVE  \A n \in {m} : ClientTypes(n)'
    <2>1. CASE inPut
      <3>1. PICK t \in {0, token} : NextAttempt(t, "abandoned")
        BY <1>10, <2>1 DEF CreateStreamReturns
      <3> QED
        BY <1>1, <1>4, <3>1 DEF Outcomes
    <2>2. CASE ~inPut
      BY <1>3, <1>10, <2>2 DEF CreateStreamReturns
    <2> QED
      BY <2>1, <2>2
  <1>11. CASE CreateLogStreamSucceeds \/ CreateLogGroupSucceeds
    BY <1>10, <1>11 DEF CreateLogStreamSucceeds, CreateLogGroupSucceeds
  <1>12. CASE CreateFails
    BY <1>3, <1>10, <1>12 DEF CreateFails
  <1>13. CASE DelayedRequestArrives \/ Delete
    <2>1. UNCHANGED <<client, batch, attempt, token, streamToken, outcome>>
      BY <1>13 DEF DelayedRequestArrives, Delete, putVars
    <2> QED
      BY <1>2, <2>1 DEF ClientTypes
  <1> QED
    BY <1>5, <1>6, <1>7, <1>8, <1>9, <1>11, <1>12, <1>13 DEF Next, ClientStep

LEMMA CountersStep ==
    ASSUME TypeOK, Next
    PROVE  /\ createAttempt' \in 0..DefaultRetryCount
           /\ batchFaults' \in 0..MaxFaults /\ deletes' \in 0..MaxDeletes
  <1>1. /\ createAttempt \in 0..DefaultRetryCount
        /\ batchFaults \in 0..MaxFaults /\ deletes \in 0..MaxDeletes
    BY DEF TypeOK
  <1>2. Fault => batchFaults' \in 0..MaxFaults
    BY <1>1, LogClientAssumption DEF Fault
  <1> USE DEF createVars
  <1>3. \A ok \in BOOLEAN : CreateStreamReturns(ok) => createAttempt' = createAttempt
    BY DEF CreateStreamReturns
  <1>4. CASE PushLogEventBatch
    BY <1>1, <1>4, LogClientAssumption DEF PushLogEventBatch
  <1>5. CASE \/ PutAccepted \/ PutAcceptedWithoutToken \/ PutAlreadyAccepted
             \/ PutInvalidSequenceToken \/ PutFails \/ PutRefused
    BY <1>1, <1>2, <1>5 DEF PutAccepted, PutAcceptedWithoutToken, PutAlreadyAccepted,
                            PutInvalidSequenceToken, PutFails, PutRefused
  <1>6. CASE PutResourceNotFound \/ CreateLogStreamNotFound
    BY <1>1, <1>6, LogClientAssumption DEF PutResourceNotFound, CreateLogStreamNotFound
  <1>7. CASE CreateLogStreamSucceeds \/ CreateLogGroupSucceeds
    BY <1>1, <1>3, <1>7 DEF CreateLogStreamSucceeds, CreateLogGroupSucceeds
  <1>8. CASE CreateFails
    <2>1. deletes' = deletes /\ batchFaults' \in 0..MaxFaults
      BY <1>2, <1>8 DEF CreateFails
    <2>2. createAttempt' \in 0..DefaultRetryCount
      <3>1. CASE createAttempt = DefaultRetryCount
        BY <1>1, <1>3, <1>8, <3>1 DEF CreateFails
      <3>2. CASE createAttempt # DefaultRetryCount
        BY <1>1, <1>8, <3>2, LogClientAssumption DEF CreateFails
      <3> QED
        BY <3>1, <3>2
    <2> QED
      BY <1>1, <2>1, <2>2
  <1>9. CASE DelayedRequestArrives \/ CallHangs
    BY <1>1, <1>9 DEF DelayedRequestArrives, CallHangs
  <1>10. CASE Delete
    BY <1>1, <1>10, LogClientAssumption DEF Delete
  <1> QED
    BY <1>4, <1>5, <1>6, <1>7, <1>8, <1>9, <1>10 DEF Next, ClientStep

LEMMA TypeStep == TypeOK /\ Recorded /\ Next => TypeOK'
  <1> SUFFICES ASSUME TypeOK, Recorded, Next PROVE TypeOK'
    OBVIOUS
  <1>1. FlagsOK'
    BY FlagsStep DEF TypeOK
  <1>2. /\ client' \in {"idle", "createStream", "createGroup", "put", "hung"}
        /\ batch' \in 0..MaxBatches /\ attempt' \in 0..RetryCnt
        /\ token' \in 0..issued' /\ streamToken' \in 0..issued'
        /\ outcome' \in Outcomes
    BY ClientTypesStep DEF ClientTypes
  <1> QED
    BY <1>1, <1>2, StreamTypes, CountersStep DEF TypeOK, Outcomes

-----------------------------------------------------------------------------
(* The parts of the invariant that hold with deletions too. *)

LEMMA BatchSteps ==
    ASSUME TypeOK, Next
    PROVE  /\ batch' = batch \/ (batch' = batch + 1 /\ batch < MaxBatches)
           /\ client' # "idle" /\ client = "idle" => batch' = batch + 1 /\ batch < MaxBatches
           /\ client # "idle" => batch' = batch
  <1> USE DEF putVars, NextAttempt, Return, CreateStreamReturns
  <1>1. CASE PushLogEventBatch
    BY <1>1 DEF PushLogEventBatch
  <1>2. CASE \/ PutAccepted \/ PutAcceptedWithoutToken \/ PutAlreadyAccepted
             \/ PutInvalidSequenceToken \/ PutFails \/ PutRefused
    BY <1>2 DEF PutAccepted, PutAcceptedWithoutToken, PutAlreadyAccepted,
                PutInvalidSequenceToken, PutFails, PutRefused
  <1>3. CASE PutResourceNotFound \/ CreateLogStreamNotFound \/ CallHangs
    BY <1>3 DEF PutResourceNotFound, CreateLogStreamNotFound, CallHangs
  <1>4. CASE CreateLogStreamSucceeds \/ CreateLogGroupSucceeds \/ CreateFails
    BY <1>4 DEF CreateLogStreamSucceeds, CreateLogGroupSucceeds, CreateFails
  <1>5. CASE DelayedRequestArrives \/ Delete
    BY <1>5 DEF DelayedRequestArrives, Delete
  <1> QED
    BY <1>1, <1>2, <1>3, <1>4, <1>5 DEF Next, ClientStep

LEMMA LastIsNewestStep == TypeOK /\ Recorded /\ LastIsNewest /\ Next => LastIsNewest'
  <1> SUFFICES ASSUME TypeOK, Recorded, LastIsNewest, Next PROVE LastIsNewest'
    OBVIOUS
  <1>1. /\ batch \in Nat /\ batch' \in Nat /\ batch <= batch'
        /\ issued \in Nat /\ expected \in 0..issued /\ stored \in Seq(Batches)
        /\ lastPut.batch \in Nat /\ lastPut.token \in Nat
    BY BatchSteps DEF TypeOK
  <1>2. \A r \in Sendable : /\ r.batch \in 1..batch /\ r.token \in 0..issued
                            /\ expected # 0 /\ r.token = expected => lastPut.batch <= r.batch
    <2>1. \A r \in Sendable : r.batch \in Batches /\ r.token \in 0..issued
      BY SendableType DEF Sent
    <2>2. ASSUME NEW r \in Sendable
          PROVE  /\ r.batch <= batch
                 /\ expected # 0 /\ r.token = expected => lastPut.batch <= r.batch
      <3>1. CASE r \in delayed
        BY <3>1 DEF LastIsNewest
      <3>2. CASE r = Request
        BY <1>1, <3>2 DEF LastIsNewest, Request
      <3> QED
        BY <3>1, <3>2 DEF Sendable
    <2> QED
      BY <2>1, <2>2 DEF Batches
  <1>3. StreamStep /\ delayed' \subseteq Sendable
    BY StreamSteps
  <1>4. \A r \in delayed' : r.batch <= batch'
    BY <1>1, <1>2, <1>3
  <1>5. CASE StreamKept
    BY <1>1, <1>2, <1>3, <1>4, <1>5 DEF LastIsNewest, StreamKept
  <1>6. CASE \E r \in Sendable : Accepts(r) /\ Accept(r)
    <2>1. PICK r \in Sendable : Accepts(r) /\ Accept(r)
      BY <1>6
    <2>2. /\ issued' = issued + 1 /\ expected' = issued + 1 /\ lastPut' = r
          /\ stored' = Append(stored, r.batch) /\ r.token = expected
      BY <2>1 DEF Accept, Accepts
    <2>3. r.batch \in 1..batch
      BY <1>2
    <2>4. \A i \in DOMAIN stored : stored[i] <= r.batch
      <3>1. CASE expected # 0
        <4>1. lastPut.batch <= r.batch
          BY <1>2, <2>2, <3>1
        <4>2. \A i \in DOMAIN stored : stored[i] \in Batches
          BY <1>1
        <4>3. \A i \in DOMAIN stored : stored[i] <= lastPut.batch
          BY DEF LastIsNewest
        <4> QED
          BY <1>1, <2>3, <4>1, <4>2, <4>3 DEF Batches
      <3>2. CASE expected = 0
        BY <3>2 DEF LastIsNewest
      <3> QED
        BY <3>1, <3>2
    <2>5. ASSUME NEW i \in DOMAIN stored'
          PROVE  \/ i \in DOMAIN stored /\ stored'[i] = stored[i]
                 \/ i = Len(stored) + 1 /\ stored'[i] = r.batch
      BY <1>1, <2>2
    <2>6. \A i \in DOMAIN stored' : stored'[i] <= r.batch
      BY <2>3, <2>4, <2>5
    <2>7. ASSUME NEW i \in DOMAIN stored', NEW j \in DOMAIN stored', i < j
          PROVE  stored'[i] <= stored'[j]
      <3>1. i \in DOMAIN stored /\ stored'[i] = stored[i]
        <4>1. DOMAIN stored' = 1..(Len(stored) + 1) /\ Len(stored) \in Nat
          BY <1>1, <2>2
        <4> QED
          BY <2>5, <2>7, <4>1
      <3>2. CASE j \in DOMAIN stored /\ stored'[j] = stored[j]
        BY <2>7, <3>1, <3>2 DEF LastIsNewest
      <3>3. CASE stored'[j] = r.batch
        BY <2>4, <3>1, <3>3
      <3> QED
        BY <2>5, <3>2, <3>3
    <2>8. \A s \in delayed' : s.token # expected'
      BY <1>1, <1>2, <1>3, <2>2
    <2>9. lastPut'.batch <= batch' /\ expected' # 0
      BY <1>1, <2>2, <2>3
    <2> QED
      BY <1>4, <2>2, <2>6, <2>7, <2>8, <2>9 DEF LastIsNewest
  <1>7. CASE ~stream /\ NewStream
    <2>1. stored' = <<>> /\ expected' = 0 /\ lastPut'.batch = 0
      BY <1>7 DEF NewStream, NoPut
    <2> QED
      BY <1>1, <1>4, <2>1 DEF LastIsNewest
  <1>8. CASE stored' = <<>> /\ UNCHANGED <<expected, issued, lastPut, everStored>>
    BY <1>1, <1>2, <1>3, <1>4, <1>8 DEF LastIsNewest
  <1> QED
    BY <1>3, <1>5, <1>6, <1>7, <1>8 DEF StreamStep

LEMMA RecordedStep == TypeOK /\ Recorded /\ Next => Recorded'
  <1> SUFFICES ASSUME TypeOK, Recorded, Next PROVE Recorded'
    OBVIOUS
  <1>1. client' # "idle" => batch' \in Batches
    <2>1. CASE client = "idle"
      <3>1. client' # "idle" => batch' = batch + 1 /\ batch < MaxBatches
        BY <2>1, BatchSteps
      <3>2. batch \in 0..MaxBatches
        BY DEF TypeOK
      <3> QED
        BY <3>1, <3>2, LogClientAssumption DEF Batches
    <2>2. CASE client # "idle"
      BY <2>2, BatchSteps DEF Recorded
    <2> QED
      BY <2>1, <2>2
  <1>2. everStored \subseteq everStored' /\ (lastPut'.batch # 0 => lastPut'.batch \in everStored')
    <2>1. lastPut.batch # 0 => lastPut.batch \in everStored
      BY DEF Recorded
    <2>2. CASE StreamKept
      BY <2>1, <2>2 DEF StreamKept
    <2>3. CASE \E r \in Sendable : Accepts(r) /\ Accept(r)
      BY <2>1, <2>3 DEF Accept
    <2>4. CASE NewStream
      BY <2>4 DEF NewStream, NoPut
    <2>5. CASE UNCHANGED <<expected, issued, lastPut, everStored>>
      BY <2>1, <2>5
    <2> QED
      BY <2>2, <2>3, <2>4, <2>5, StreamSteps DEF StreamStep
  <1>3. SentWasStored'
    <2> SUFFICES ASSUME client' = "idle", outcome' \in {"sent", "sentWithoutToken"}
                 PROVE  batch' \in everStored'
      BY DEF SentWasStored
    <2> USE DEF NextAttempt, Return, CreateStreamReturns, putVars
    <2>1. CASE PushLogEventBatch
      BY <2>1 DEF PushLogEventBatch
    <2>2. CASE PutAccepted \/ PutAcceptedWithoutToken
      BY <2>2 DEF PutAccepted, PutAcceptedWithoutToken, Accept, Request
    <2>3. CASE PutAlreadyAccepted
      <3>1. lastPut.batch = batch /\ batch \in Batches /\ batch' = batch
        BY <2>3 DEF PutAlreadyAccepted, AlreadyAccepted, Request, Recorded
      <3>2. batch # 0
        BY <3>1 DEF Batches
      <3> QED
        BY <1>2, <3>1, <3>2 DEF Recorded
    <2>4. CASE PutInvalidSequenceToken \/ PutFails \/ PutRefused \/ PutResourceNotFound
      BY <2>4 DEF PutInvalidSequenceToken, PutFails, PutRefused, PutResourceNotFound
    <2>5. CASE CreateLogStreamSucceeds \/ CreateLogStreamNotFound \/ CreateLogGroupSucceeds
      BY <2>5 DEF CreateLogStreamSucceeds, CreateLogStreamNotFound, CreateLogGroupSucceeds
    <2>6. CASE CreateFails \/ CallHangs
      BY <2>6 DEF CreateFails, CallHangs
    <2>7. CASE DelayedRequestArrives \/ Delete
      BY <1>2, <2>7 DEF DelayedRequestArrives, Delete, Recorded, SentWasStored
    <2> QED
      BY <2>1, <2>2, <2>3, <2>4, <2>5, <2>6, <2>7 DEF Next, ClientStep
  <1> QED
    BY <1>1, <1>2, <1>3 DEF Recorded

-----------------------------------------------------------------------------
(* Without deletions. *)

Tokens == TokensGrow /\ StrictlyOrdered /\ NewerThanLast /\ CurrentWhenSent

(* The steps that neither begin a batch nor teach the client a token. *)
Keeping ==
    /\ TokenKept
    /\ \/ StreamKept /\ delayed' \subseteq Sendable
       \/ client = "put" /\ Accepts(Request) /\ Accept(Request) /\ delayed' = delayed
       \/ ~stream /\ NewStream /\ delayed' = delayed
    /\ Creating' /\ inPut' => (Creating /\ inPut) \/ ~stream

LEMMA CreateReturnKeeps ==
    ASSUME NEW ok \in BOOLEAN, Creating, inPut => token = 0, CreateStreamReturns(ok)
    PROVE  TokenKept /\ ~Creating'
  <1> USE DEF CreateStreamReturns
  <1>1. CASE inPut
    <2>1. NextAttempt(token, "abandoned")
      BY <1>1
    <2> QED
      BY <2>1, ReturnKeeps DEF Creating, NextAttempt, Return
  <1>2. CASE ~inPut
    BY <1>2 DEF TokenKept, Creating, putVars
  <1> QED
    BY <1>1, <1>2

LEMMA KeepingSteps ==
    ASSUME Creating /\ inPut => token = 0, Next
    PROVE  \/ PushLogEventBatch \/ PutAccepted \/ PutAlreadyAccepted
           \/ PutInvalidSequenceToken \/ DelayedRequestArrives \/ Delete
           \/ Keeping
  <1> USE DEF serviceVars, createVars, StreamKept, Sendable
  <1>1. CASE PutAcceptedWithoutToken
    <2>1. TokenKept /\ ~Creating'
      BY <1>1, ReturnKeeps DEF PutAcceptedWithoutToken, Creating, NextAttempt, Return
    <2> QED
      BY <1>1, <2>1 DEF PutAcceptedWithoutToken, Keeping
  <1>2. CASE PutFails
    <2>1. TokenKept /\ ~Creating'
      BY <1>2, ReturnKeeps DEF PutFails, Creating, NextAttempt, Return
    <2> QED
      BY <1>2, <2>1 DEF PutFails, Keeping
  <1>3. CASE PutRefused
    <2>1. TokenKept /\ ~Creating'
      BY <1>3, ReturnKeeps DEF PutRefused, Creating, Return
    <2> QED
      BY <1>3, <2>1 DEF PutRefused, Keeping
  <1>4. CASE PutResourceNotFound
    BY <1>4 DEF PutResourceNotFound, Keeping, TokenKept, putVars
  <1>5. CASE CreateLogStreamSucceeds
    <2>1. TokenKept /\ ~Creating'
      BY <1>5, CreateReturnKeeps DEF CreateLogStreamSucceeds, Creating
    <2> QED
      BY <1>5, <2>1 DEF CreateLogStreamSucceeds, Keeping
  <1>6. CASE CreateLogStreamNotFound
    BY <1>6 DEF CreateLogStreamNotFound, Keeping, TokenKept, putVars, Creating
  <1>7. CASE CreateLogGroupSucceeds
    <2>1. TokenKept /\ ~Creating'
      BY <1>7, CreateReturnKeeps DEF CreateLogGroupSucceeds, Creating
    <2> QED
      BY <1>7, <2>1 DEF CreateLogGroupSucceeds, Keeping
  <1>8. CASE CreateFails
    <2>1. /\ Creating
          /\ UNCHANGED serviceVars \/ (~stream /\ NewStream)
             \/ UNCHANGED <<stream, stored, expected, issued, lastPut, everStored>>
          /\ delayed' = delayed
      BY <1>8 DEF CreateFails, CreateUnanswered, Creating
    <2>2. TokenKept /\ (Creating' /\ inPut' => inPut)
      <3>1. CASE createAttempt = DefaultRetryCount
        BY <1>8, <2>1, <3>1, CreateReturnKeeps DEF CreateFails
      <3>2. CASE createAttempt # DefaultRetryCount
        BY <1>8, <2>1, <3>2 DEF CreateFails, TokenKept, putVars, Creating
      <3> QED
        BY <3>1, <3>2
    <2> QED
      BY <2>1, <2>2 DEF Keeping
  <1>9. CASE CallHangs
    <2>1. TokenKept /\ ~Creating' /\ delayed' = delayed
      BY <1>9 DEF CallHangs, TokenKept, putVars, Creating
    <2>2. \/ UNCHANGED <<stream, stored, expected, issued, lastPut, everStored>>
          \/ client = "put" /\ Accepts(Request) /\ Accept(Request)
          \/ ~stream /\ NewStream
      BY <1>9 DEF CallHangs, CreateUnanswered
    <2> QED
      BY <2>1, <2>2 DEF Keeping
  <1> QED
    BY <1>1, <1>2, <1>3, <1>4, <1>5, <1>6, <1>7, <1>8, <1>9 DEF Next, ClientStep

LEMMA AcceptOrdered ==
    ASSUME TypeOK, LastIsNewest, StrictlyOrdered, expected = issued,
           NEW r, Accept(r), r.batch \in Batches,
           issued # 0 => lastPut.batch < r.batch
    PROVE  StrictlyOrdered'
  <1>1. /\ stored \in Seq(Batches) /\ stored' = Append(stored, r.batch)
        /\ lastPut.batch \in Nat
    BY DEF TypeOK, Accept
  <1>2. \A i \in DOMAIN stored : stored[i] < r.batch
    <2>1. CASE issued = 0
      BY <2>1 DEF LastIsNewest
    <2>2. CASE issued # 0
      <3>1. \A i \in DOMAIN stored : stored[i] \in Batches /\ stored[i] <= lastPut.batch
        BY <1>1 DEF LastIsNewest
      <3> QED
        BY <1>1, <2>2, <3>1 DEF Batches
    <2> QED
      BY <2>1, <2>2
  <1>3. /\ DOMAIN stored' = 1..(Len(stored) + 1) /\ Len(stored) \in Nat
        /\ DOMAIN stored = 1..Len(stored)
        /\ \A i \in DOMAIN stored : stored'[i] = stored[i]
        /\ stored'[Len(stored) + 1] = r.batch
    BY <1>1
  <1>4. ASSUME NEW i \in DOMAIN stored', NEW j \in DOMAIN stored', i < j
        PROVE  stored'[i] < stored'[j]
    <2>1. i \in DOMAIN stored /\ stored'[i] = stored[i]
      BY <1>3, <1>4
    <2>2. CASE j \in DOMAIN stored
      BY <1>3, <1>4, <2>1, <2>2 DEF StrictlyOrdered
    <2>3. CASE j = Len(stored) + 1
      BY <1>2, <1>3, <2>1, <2>3
    <2> QED
      BY <1>3, <2>2, <2>3
  <1> QED
    BY <1>4 DEF StrictlyOrdered

LEMMA TokenTypes ==
    ASSUME TypeOK
    PROVE  /\ issued \in Nat /\ expected \in 0..issued /\ batch \in Nat
           /\ token \in 0..issued /\ streamToken \in 0..issued /\ Known \in 0..issued
           /\ lastPut.batch \in Nat /\ lastPut.token \in Nat
           /\ \A r \in delayed : r.batch \in Batches /\ r.token \in 0..issued
  BY DEF TypeOK, Known

LEMMA KeepingTokens ==
    ASSUME TypeOK, Recorded, LastIsNewest, Tokens, Keeping
    PROVE  Tokens'
  <1>1. /\ client # "idle" /\ batch' = batch /\ batch \in Batches
        /\ Known = token /\ Known' = token
        /\ client' # "idle" => token' = token /\ streamToken' = streamToken
        /\ client' = "idle" => outcome' # "sent"
    <2>1. client # "idle" /\ batch' = batch /\ Known = token /\ batch \in Batches
      BY DEF Keeping, TokenKept, Known, Recorded
    <2>2. token = 0 => streamToken = 0
      BY <2>1, TokenTypes DEF Tokens, TokensGrow
    <2> QED
      BY <2>1, <2>2 DEF Keeping, TokenKept, Known
  <1>2. \A r \in Sendable : /\ r.token <= token /\ r.token \in Nat
                            /\ issued # 0 /\ r.token = issued => lastPut.batch < r.batch
    BY <1>1, TokenTypes DEF Tokens, TokensGrow, NewerThanLast, Sendable, Request
  <1>3. CurrentWhenSent'
    BY <1>1 DEF CurrentWhenSent
  <1>4. /\ client' # "idle" => streamToken' <= token'
        /\ Creating' /\ inPut' => token' = 0
    <2>1. client' # "idle" => streamToken' <= token'
      BY <1>1, TokenTypes DEF Tokens, TokensGrow
    <2>2. ~stream => token = 0
      BY TokenTypes DEF Tokens, TokensGrow
    <2>3. Creating' => client' # "idle"
      BY DEF Creating
    <2> QED
      BY <1>1, <2>1, <2>2, <2>3 DEF Keeping, Tokens, TokensGrow
  <1>5. CASE StreamKept /\ delayed' \subseteq Sendable
    <2>1. TokensGrow'
      BY <1>1, <1>2, <1>4, <1>5 DEF Tokens, TokensGrow, StreamKept
    <2>2. NewerThanLast' /\ StrictlyOrdered'
      BY <1>1, <1>2, <1>5 DEF Tokens, NewerThanLast, StrictlyOrdered, StreamKept
    <2> QED
      BY <1>3, <2>1, <2>2 DEF Tokens
  <1>6. CASE client = "put" /\ Accepts(Request) /\ Accept(Request) /\ delayed' = delayed
    <2>1. /\ stream' = stream /\ issued' = issued + 1 /\ expected' = issued + 1
          /\ lastPut' = Request /\ token = issued /\ Request \in Sendable /\ stream
      BY <1>6 DEF Accepts, Accept, Request, Tokens, TokensGrow, Sendable
    <2>2. lastPut'.token = token /\ lastPut'.batch = batch
      BY <2>1 DEF Request
    <2>3. StrictlyOrdered'
      <3>1. issued # 0 => lastPut.batch < batch
        BY <1>1, <2>1 DEF Tokens, NewerThanLast
      <3>2. Request.batch = batch
        BY DEF Request
      <3> QED
        BY <1>1, <1>6, <3>1, <3>2, AcceptOrdered DEF Tokens, TokensGrow
    <2>4. \A r \in delayed' : r.token <= token /\ r.token \in Nat
      BY <1>2, <1>6 DEF Sendable
    <2>5. TokensGrow'
      BY <1>1, <1>4, <2>1, <2>2, <2>4, TokenTypes DEF TokensGrow
    <2>6. NewerThanLast'
      BY <1>1, <2>1, <2>2, <2>4, TokenTypes DEF NewerThanLast
    <2> QED
      BY <1>3, <2>3, <2>5, <2>6 DEF Tokens
  <1>7. CASE ~stream /\ NewStream /\ delayed' = delayed
    <2>1. /\ issued = 0 /\ issued' = 0 /\ expected' = 0 /\ lastPut' = NoPut
          /\ stored' = <<>> /\ stream'
      BY <1>7 DEF NewStream, Tokens, TokensGrow
    <2>2. \A r \in delayed' : r.token <= token
      BY <1>2, <1>7 DEF Sendable
    <2>3. TokensGrow'
      BY <1>1, <1>4, <2>1, <2>2 DEF TokensGrow
    <2>4. NewerThanLast' /\ StrictlyOrdered'
      BY <2>1 DEF NewerThanLast, StrictlyOrdered
    <2> QED
      BY <1>3, <2>3, <2>4 DEF Tokens
  <1> QED
    BY <1>5, <1>6, <1>7 DEF Keeping

(* A new batch is newer than the last one stored. *)
LEMMA PushTokens ==
    ASSUME TypeOK, LastIsNewest, Tokens, PushLogEventBatch
    PROVE  Tokens'
  <1>1. /\ client = "idle" /\ client' # "idle" /\ batch' = batch + 1
        /\ token' = streamToken /\ streamToken' = streamToken
        /\ UNCHANGED <<stream, stored, expected, issued, lastPut, delayed>>
        /\ Creating' => inPut' = FALSE
    BY DEF PushLogEventBatch, serviceVars, Creating
  <1>2. Known' = Known /\ Known = streamToken
    BY <1>1 DEF Known
  <1>3. TokensGrow'
    BY <1>1, <1>2, TokenTypes DEF Tokens, TokensGrow
  <1>4. lastPut.batch <= batch
    BY DEF LastIsNewest
  <1>5. NewerThanLast'
    BY <1>1, <1>4, TokenTypes DEF Tokens, NewerThanLast
  <1>6. StrictlyOrdered' /\ CurrentWhenSent'
    BY <1>1 DEF Tokens, StrictlyOrdered, CurrentWhenSent
  <1> QED
    BY <1>3, <1>5, <1>6 DEF Tokens

(* The client learns the token only if somebody else's request, an older   *)
(* one, was the last to be accepted.                                       *)
LEMMA LearnTokens ==
    ASSUME TypeOK, Recorded, LastIsNewest, Tokens, PutInvalidSequenceToken
    PROVE  Tokens'
  <1>1. /\ client = "put" /\ token # expected /\ lastPut # Request
        /\ UNCHANGED <<stream, stored, expected, issued, lastPut, delayed>>
        /\ ~Creating'
        /\ outcome' # "sent" \/ client' # "idle"
    BY DEF PutInvalidSequenceToken, WrongToken, Request, serviceVars, Creating, NextAttempt,
           Return
  <1>2. /\ expected = issued /\ token < issued /\ issued # 0 /\ streamToken <= token
        /\ Known = token
    BY <1>1, TokenTypes DEF Tokens, TokensGrow, Known
  <1>3. /\ batch' = batch /\ Known' = issued
        /\ client' # "idle" => client' = "put" /\ token' = issued /\ streamToken' = streamToken
        /\ client' = "idle" => outcome' # "sent"
    BY <1>1, <1>2, TokenTypes DEF PutInvalidSequenceToken, NextAttempt, Return, Known
  <1>4. lastPut.batch < batch
    <2>1. lastPut.batch <= batch
      BY DEF LastIsNewest
    <2>2. SUFFICES lastPut.batch # batch
      BY <2>1, TokenTypes
    <2>3. lastPut.batch = batch => lastPut.token = token
      BY <1>1, <1>2 DEF Tokens, NewerThanLast
    <2>4. lastPut = [batch |-> lastPut.batch, token |-> lastPut.token]
      BY DEF TypeOK
    <2> QED
      BY <1>1, <2>3, <2>4 DEF Request
  <1>5. \A r \in delayed : r.token <= token
    BY <1>2 DEF Tokens, TokensGrow
  <1>6. TokensGrow'
    BY <1>1, <1>2, <1>3, <1>5, TokenTypes DEF Tokens, TokensGrow, Creating
  <1>7. NewerThanLast'
    BY <1>1, <1>2, <1>3, <1>4, <1>5, TokenTypes DEF NewerThanLast
  <1>8. StrictlyOrdered' /\ CurrentWhenSent'
    BY <1>1, <1>3 DEF Tokens, StrictlyOrdered, CurrentWhenSent
  <1> QED
    BY <1>6, <1>7, <1>8 DEF Tokens

(* After a batch was sent no request still on its way has the token. *)
LEMMA SentTokens ==
    ASSUME TypeOK, Recorded, LastIsNewest, Tokens, PutAccepted \/ PutAlreadyAccepted
    PROVE  Tokens'
  <1>1. /\ client = "put" /\ client' = "idle" /\ batch' = batch /\ batch \in Batches
        /\ delayed' = delayed /\ stream' = stream /\ stream
    BY DEF PutAccepted, PutAlreadyAccepted, Accepts, AlreadyAccepted, Accept, Return,
           serviceVars, Recorded
  <1>2. /\ expected = issued /\ token <= issued
        /\ \A r \in delayed : r.token <= token
    BY <1>1, TokenTypes DEF Tokens, TokensGrow, Known
  <1>3. CASE PutAccepted
    <2>1. /\ issued' = issued + 1 /\ expected' = issued + 1 /\ lastPut' = Request
          /\ token = issued /\ Accept(Request)
      BY <1>2, <1>3 DEF PutAccepted, Accepts, Accept, Request
    <2>2. lastPut'.token = token /\ lastPut'.batch = batch /\ Request.batch = batch
      BY <2>1 DEF Request
    <2>3. streamToken' = issued'
      BY <1>3, <2>1, TokenTypes DEF PutAccepted, Return
    <2>4. StrictlyOrdered'
      <3>1. issued # 0 => lastPut.batch < batch
        BY <1>1, <2>1 DEF Tokens, NewerThanLast
      <3> QED
        BY <1>1, <1>2, <2>1, <2>2, <3>1, AcceptOrdered DEF Tokens
    <2>5. \A r \in delayed' : r.token < issued' /\ r.token \in Nat
      BY <1>1, <1>2, <2>1, TokenTypes
    <2>6. TokensGrow'
      BY <1>1, <2>1, <2>2, <2>3, <2>5, TokenTypes DEF TokensGrow, Known, Creating
    <2>7. NewerThanLast' /\ CurrentWhenSent'
      BY <1>1, <2>3, <2>5 DEF NewerThanLast, CurrentWhenSent
    <2> QED
      BY <2>4, <2>6, <2>7 DEF Tokens
  <1>4. CASE PutAlreadyAccepted
    <2>1. /\ UNCHANGED <<stored, expected, issued, lastPut>>
          /\ token # expected /\ lastPut = Request
      BY <1>4 DEF PutAlreadyAccepted, AlreadyAccepted, serviceVars, Request
    <2>2. issued # 0 /\ token < issued
      BY <1>2, <2>1, TokenTypes
    <2>3. streamToken' = issued
      BY <1>2, <1>4, <2>2 DEF PutAlreadyAccepted, Return
    <2>4. \A r \in delayed' : r.token < issued /\ r.token \in Nat
      BY <1>1, <1>2, <2>2, TokenTypes
    <2>5. TokensGrow'
      BY <1>1, <2>1, <2>2, <2>3, <2>4, TokenTypes DEF Tokens, TokensGrow, Known, Creating
    <2>6. NewerThanLast' /\ CurrentWhenSent' /\ StrictlyOrdered'
      BY <1>1, <2>1, <2>3, <2>4
      DEF Tokens, NewerThanLast, CurrentWhenSent, StrictlyOrdered
    <2> QED
      BY <2>5, <2>6 DEF Tokens
  <1> QED
    BY <1>3, <1>4

(* A late request is accepted only while the client knows no newer token.  *)
LEMMA DelayedTokens ==
    ASSUME TypeOK, LastIsNewest, Tokens, DelayedRequestArrives
    PROVE  Tokens'
  <1>1. PICK r \in delayed :
          /\ delayed' = delayed \ {r}
          /\ IF Accepts(r) THEN Accept(r) ELSE UNCHANGED serviceVars
          /\ UNCHANGED <<client, createVars, putVars, batchFaults, deletes>>
    BY DEF DelayedRequestArrives
  <1>2. /\ UNCHANGED <<client, inPut, batch, token, streamToken, outcome>>
        /\ Known' = Known
    BY <1>1 DEF createVars, putVars, Known
  <1>3. CASE ~Accepts(r)
    <2>1. UNCHANGED <<stream, stored, expected, issued, lastPut>>
      BY <1>1, <1>3 DEF serviceVars
    <2>2. TokensGrow' /\ NewerThanLast'
      BY <1>1, <1>2, <2>1 DEF Tokens, TokensGrow, NewerThanLast, Creating
    <2>3. StrictlyOrdered' /\ CurrentWhenSent'
      BY <1>1, <1>2, <2>1 DEF Tokens, StrictlyOrdered, CurrentWhenSent
    <2> QED
      BY <2>2, <2>3 DEF Tokens
  <1>4. CASE Accepts(r)
    <2>1. /\ Accept(r) /\ stream /\ stream' = stream /\ r.token = issued /\ expected = issued
          /\ issued' = issued + 1 /\ expected' = issued + 1 /\ lastPut' = r
          /\ r.batch \in Batches
      BY <1>1, <1>4, TokenTypes DEF Accepts, Accept, Tokens, TokensGrow
    <2>2. Known = issued /\ \A s \in delayed : s.token <= issued /\ s.token \in Nat
      BY <2>1, TokenTypes DEF Tokens, TokensGrow
    <2>3. StrictlyOrdered'
      <3>1. issued # 0 => lastPut.batch < r.batch
        BY <2>1 DEF Tokens, NewerThanLast
      <3> QED
        BY <2>1, <3>1, AcceptOrdered DEF Tokens
    <2>4. TokensGrow'
      BY <1>1, <1>2, <2>1, <2>2, TokenTypes DEF Tokens, TokensGrow, Creating
    <2>5. client # "idle" => token = issued
      BY <2>2 DEF Known
    <2>6. NewerThanLast'
      BY <1>1, <1>2, <2>1, <2>2, <2>5, TokenTypes DEF NewerThanLast
    <2>7. CurrentWhenSent'
      BY <1>2, <2>1, TokenTypes DEF Tokens, CurrentWhenSent
    <2> QED
      BY <2>3, <2>4, <2>6, <2>7 DEF Tokens
  <1> QED
    BY <1>3, <1>4

-----------------------------------------------------------------------------
(* The attempts of a batch. *)

LEMMA GroupStep ==
    ASSUME FlagsOK, GroupFirst, Next, ~Delete
    PROVE  GroupFirst'
  <1> USE DEF GroupFirst, serviceVars, FlagsOK
  <1>1. CASE PushLogEventBatch
    BY <1>1 DEF PushLogEventBatch
  <1>2. ASSUME NEW t, NEW how, NextAttempt(t, how) \/ Return(t, how)
        PROVE  client' \in {"put", "idle"}
    BY <1>2 DEF NextAttempt, Return
  <1>3. CASE PutAccepted \/ PutAlreadyAccepted \/ PutInvalidSequenceToken \/ PutRefused
    BY <1>2, <1>3 DEF PutAccepted, PutAlreadyAccepted, PutInvalidSequenceToken, PutRefused, Accept
  <1>4. CASE PutAcceptedWithoutToken \/ PutFails
    BY <1>2, <1>4 DEF PutAcceptedWithoutToken, PutFails, Accept
  <1>5. CASE PutResourceNotFound \/ CreateLogStreamNotFound
    BY <1>5 DEF PutResourceNotFound, CreateLogStreamNotFound
  <1>6. \A ok \in BOOLEAN : CreateStreamReturns(ok) => client' \in {"put", "idle"}
    BY <1>2 DEF CreateStreamReturns
  <1>7. CASE CreateLogStreamSucceeds \/ CreateLogGroupSucceeds
    BY <1>6, <1>7 DEF CreateLogStreamSucceeds, CreateLogGroupSucceeds, NewStream
  <1>8. CASE CreateFails
    <2>1. client' # "createGroup"
      BY <1>6, <1>8 DEF CreateFails
    <2>2. ~group' => ~stream'
      BY <1>8 DEF CreateFails, CreateUnanswered, NewStream
    <2> QED
      BY <2>1, <2>2
  <1>9. CASE CallHangs
    BY <1>9 DEF CallHangs, CreateUnanswered, NewStream, Accept
  <1>10. CASE DelayedRequestArrives
    BY <1>10 DEF DelayedRequestArrives, Accept
  <1> QED
    BY <1>1, <1>3, <1>4, <1>5, <1>7, <1>8, <1>9, <1>10 DEF Next, ClientStep

LEMMA AttemptTypes ==
    ASSUME TypeOK
    PROVE  /\ attempt \in 0..RetryCnt /\ batchFaults \in Nat /\ RetryCnt \in Nat
           /\ Fault => /\ batchFaults' \in Nat /\ batchFaults <= batchFaults'
                       /\ batchFaults < RetryCnt => batchFaults' = batchFaults + 1
                       /\ batchFaults' < RetryCnt => batchFaults < RetryCnt
  BY LogClientAssumption DEF TypeOK, Fault

LEMMA AttemptStep ==
    ASSUME TypeOK, NEW t, NEW how, NextAttempt(t, how)
    PROVE  \/ client' = "put" /\ attempt' = attempt + 1 /\ token' = t /\ batch' = batch
           \/ client' = "idle" /\ attempt = RetryCnt
  BY DEF NextAttempt, Return

(* What is shown of every step: enough calls failed for the attempts made, *)
(* or for giving the batch up.                                             *)
Abandoned == client = "idle" /\ outcome = "abandoned" => batchFaults >= RetryCnt - 1

LEMMA PutCounted ==
    ASSUME TypeOK, Recorded, Tokens, GroupFirst, AttemptsCounted,
           PutAcceptedWithoutToken \/ PutFails \/ PutInvalidSequenceToken
    PROVE  AttemptsCounted' /\ Abandoned'
  <1>1. client = "put" /\ group' = group /\ stream' = stream
    BY DEF PutAcceptedWithoutToken, PutFails, PutInvalidSequenceToken, Accept, serviceVars
  <1>2. CASE PutAcceptedWithoutToken
    <2>1. /\ Fault /\ NextAttempt(token, "sentWithoutToken") /\ stream /\ lastPut' = Request
      BY <1>2 DEF PutAcceptedWithoutToken, Accepts, Accept
    <2>2. group'
      BY <1>1, <2>1 DEF GroupFirst
    <2>3. client' = "idle" => outcome' # "abandoned"
      BY <2>1 DEF NextAttempt, Return
    <2>4. client' = "put" => Fresh'
      BY <2>1, AttemptStep DEF Fresh, Request
    <2>5. client' \in {"put", "idle"} /\ (client' = "put" => attempt' = attempt + 1)
      BY <2>1, AttemptStep
    <2> QED
      BY <1>1, <2>1, <2>2, <2>3, <2>4, <2>5, AttemptTypes DEF AttemptsCounted, Abandoned, Creating
  <1>3. CASE PutFails
    <2>1. /\ Fault /\ NextAttempt(token, "abandoned")
          /\ \/ UNCHANGED <<expected, lastPut>> /\ delayed' \subseteq delayed \cup {Request}
             \/ lastPut' = Request
      BY <1>3 DEF PutFails, Accept, serviceVars
    <2>2. client' = "put" /\ Fresh => Fresh'
      BY <2>1, AttemptStep DEF Fresh, Request
    <2>3. client' \in {"put", "idle"} /\ (client' = "put" => attempt' = attempt + 1)
          /\ (client' = "idle" => attempt = RetryCnt)
      BY <2>1, AttemptStep
    <2> QED
      BY <1>1, <2>1, <2>2, <2>3, AttemptTypes DEF AttemptsCounted, Abandoned, Creating
  <1>4. CASE PutInvalidSequenceToken
    <2>1. /\ NextAttempt(expected, "abandoned") /\ stream
          /\ token # expected /\ lastPut # Request
          /\ UNCHANGED <<expected, lastPut, delayed, batchFaults>>
      BY <1>4 DEF PutInvalidSequenceToken, WrongToken, Request, serviceVars
    <2>2. group' /\ ~Fresh
      BY <1>1, <2>1 DEF GroupFirst, Fresh
    <2>3. \A r \in delayed : r.token < expected /\ r.token \in Nat
      BY <1>1, <2>1, TokenTypes DEF Tokens, TokensGrow, Known
    <2>4. client' = "put" => Fresh'
      BY <2>1, <2>3, TokenTypes, AttemptStep DEF Fresh
    <2>5. client' \in {"put", "idle"} /\ (client' = "put" => attempt' = attempt + 1)
          /\ (client' = "idle" => attempt = RetryCnt)
      BY <2>1, AttemptStep
    <2> QED
      BY <1>1, <2>1, <2>2, <2>4, <2>5, AttemptTypes DEF AttemptsCounted, Abandoned, Creating
  <1> QED
    BY <1>2, <1>3, <1>4

(* A call of the CreateStream loop that ends it, or that is made again.     *)
LEMMA CreateReturned ==
    ASSUME TypeOK, NEW ok \in BOOLEAN, CreateStreamReturns(ok)
    PROVE  \/ ~inPut /\ client' = "put" /\ attempt' = attempt
           \/ inPut /\ client' = "put" /\ attempt' = attempt + 1
           \/ inPut /\ client' = "idle" /\ attempt = RetryCnt
  <1>1. CASE inPut
    BY <1>1, AttemptStep DEF CreateStreamReturns
  <1>2. CASE ~inPut
    BY <1>2 DEF CreateStreamReturns, putVars
  <1> QED
    BY <1>1, <1>2

(* The count survives the end of CreateStream: enough is known of the      *)
(* state after it.                                                         *)
LEMMA CreateEndCounted ==
    ASSUME TypeOK, AttemptsCounted, Creating,
           batchFaults' \in Nat, batchFaults <= batchFaults',
           \/ ~inPut /\ client' = "put" /\ attempt' = attempt
           \/ inPut /\ client' = "put" /\ attempt' = attempt + 1
           \/ inPut /\ client' = "idle" /\ attempt = RetryCnt,
           \/ group' /\ (stream' \/ ~group)
           \/ (~group' => ~group) /\ (batchFaults < RetryCnt => batchFaults' = batchFaults + 1)
    PROVE  AttemptsCounted' /\ Abandoned'
  <1> USE AttemptTypes
  <1>0. client # "idle" /\ ("put" # "idle") /\ ~("put" \in {"createStream", "createGroup"})
    BY DEF Creating
  <1>1. CASE ~inPut /\ client' = "put" /\ attempt' = attempt
    <2>1. batchFaults' < RetryCnt => attempt' = 0 /\ batchFaults < RetryCnt
      BY <1>0, <1>1 DEF AttemptsCounted
    <2>2. batchFaults' < RetryCnt /\ ~group' => attempt' < batchFaults'
      BY <2>1
    <2>3. ~Creating'
      BY <1>1 DEF Creating
    <2>4. Abandoned'
      BY <1>1 DEF Abandoned
    <2>5. SUFFICES ASSUME batchFaults' < RetryCnt PROVE AttemptsCounted'
      BY <2>4 DEF AttemptsCounted
    <2>6. attempt' = 0 /\ batchFaults' \in Nat
      BY <2>1, <2>5, Zenon
    <2>7. \A n \in Nat : 0 <= n /\ 0 <= n + 1 /\ 0 <= n + 2
      OBVIOUS
    <2>8. attempt' <= batchFaults' /\ attempt' <= batchFaults' + 1 /\ attempt' <= batchFaults' + 2
      BY <2>6, <2>7, Zenon
    <2> QED
      BY <2>2, <2>3, <2>5, <2>8 DEF AttemptsCounted
  <1>2. CASE inPut /\ client' = "put" /\ attempt' = attempt + 1
    <2>1. batchFaults' < RetryCnt => attempt <= batchFaults /\ (~group => attempt < batchFaults)
      BY <1>0, <1>2 DEF AttemptsCounted
    <2>2. ~Creating'
      BY <1>2 DEF Creating
    <2>3. Abandoned'
      BY <1>2 DEF Abandoned
    <2>4. SUFFICES ASSUME batchFaults' < RetryCnt PROVE AttemptsCounted'
      BY <2>3 DEF AttemptsCounted
    <2>5. attempt' <= batchFaults' + 1 /\ attempt' <= batchFaults' + 2
      BY <1>2, <2>1, <2>4
    <2>6. ~group' => attempt' < batchFaults'
      BY <1>2, <2>1, <2>4
    <2>7. ~stream' => attempt' <= batchFaults'
      BY <1>2, <2>1, <2>4
    <2> QED
      BY <2>2, <2>4, <2>5, <2>6, <2>7 DEF AttemptsCounted
  <1>3. CASE inPut /\ client' = "idle" /\ attempt = RetryCnt
    <2>1. batchFaults >= RetryCnt
      BY <1>0, <1>3 DEF AttemptsCounted
    <2>2. batchFaults' >= RetryCnt - 1
      BY <2>1
    <2> QED
      BY <1>3, <2>2 DEF AttemptsCounted, Abandoned
  <1> QED
    BY <1>1, <1>2, <1>3

LEMMA CreateCounted ==
    ASSUME TypeOK, GroupFirst, AttemptsCounted,
           CreateLogStreamSucceeds \/ CreateLogGroupSucceeds \/ CreateFails
    PROVE  AttemptsCounted' /\ Abandoned'
  <1>1. Creating /\ client # "idle" /\ client # "put"
    BY DEF Creating, CreateLogStreamSucceeds, CreateLogGroupSucceeds, CreateFails
  <1>2. TRUE \in BOOLEAN /\ FALSE \in BOOLEAN
    OBVIOUS
  <1>3. CASE CreateLogStreamSucceeds
    <2>1. /\ CreateStreamReturns(TRUE) /\ batchFaults' = batchFaults
          /\ group' /\ stream'
      BY <1>3 DEF CreateLogStreamSucceeds, NewStream, serviceVars
    <2>2. batchFaults' \in Nat /\ batchFaults <= batchFaults'
      BY <2>1, AttemptTypes
    <2> QED
      BY <1>1, <1>2, <2>1, <2>2, CreateReturned, CreateEndCounted
  <1>4. CASE CreateLogGroupSucceeds
    <2>1. /\ CreateStreamReturns(TRUE) /\ batchFaults' = batchFaults
          /\ group' /\ ~group
      BY <1>4 DEF CreateLogGroupSucceeds, GroupFirst
    <2>2. batchFaults' \in Nat /\ batchFaults <= batchFaults'
      BY <2>1, AttemptTypes
    <2> QED
      BY <1>1, <1>2, <2>1, <2>2, CreateReturned, CreateEndCounted
  <1>5. CASE CreateFails
    <2>1. Fault /\ (~group' => ~group)
      BY <1>5 DEF CreateFails, CreateUnanswered, NewStream, serviceVars
    <2>2. CASE CreateStreamReturns(FALSE)
      <3>1. /\ batchFaults' \in Nat /\ batchFaults <= batchFaults'
            /\ batchFaults < RetryCnt => batchFaults' = batchFaults + 1
        BY <2>1, AttemptTypes
      <3> QED
        BY <1>1, <1>2, <2>1, <2>2, <3>1, CreateReturned, CreateEndCounted
    <2>3. CASE client' = "createStream" /\ inPut' = inPut /\ attempt' = attempt
      <3>1. /\ batchFaults' \in Nat /\ batchFaults <= batchFaults'
            /\ batchFaults' < RetryCnt => batchFaults < RetryCnt /\ batchFaults' = batchFaults + 1
            /\ attempt \in Nat
        BY <2>1, AttemptTypes
      <3>2. Creating'
        BY <2>3 DEF Creating
      <3>3. SUFFICES ASSUME batchFaults' < RetryCnt PROVE AttemptsCounted'
        BY <2>3 DEF AttemptsCounted, Abandoned
      <3>4. CASE inPut
        <4>1. attempt <= batchFaults /\ (~group => attempt < batchFaults)
          BY <1>1, <3>1, <3>3, <3>4 DEF AttemptsCounted
        <4>2. attempt' <= batchFaults' /\ attempt' <= batchFaults' + 2
              /\ (~group' => attempt' < batchFaults')
          BY <2>1, <2>3, <3>1, <3>3, <4>1, AttemptTypes
        <4> QED
          BY <2>3, <3>4, <4>2 DEF AttemptsCounted
      <3>5. CASE ~inPut
        <4>0. batchFaults < RetryCnt
          BY <3>1, <3>3, Zenon
        <4>1. attempt' = 0
          BY <1>1, <2>3, <4>0, <3>5, Zenon DEF AttemptsCounted
        <4>2. \A n \in Nat : 0 <= n /\ 0 <= n + 2
          OBVIOUS
        <4>3. attempt' <= batchFaults' /\ attempt' <= batchFaults' + 2
          BY <3>1, <4>1, <4>2, Zenon
        <4> QED
          BY <2>3, <3>5, <4>1, <4>3 DEF AttemptsCounted
      <3> QED
        BY <3>4, <3>5
    <2> QED
      BY <1>5, <2>2, <2>3 DEF CreateFails, putVars
  <1> QED
    BY <1>3, <1>4, <1>5

LEMMA CountedStep ==
    ASSUME TypeOK, Recorded, Tokens, GroupFirst, AttemptsCounted, Abandoned, Next, ~Delete
    PROVE  AttemptsCounted' /\ Abandoned'
  <1>1. CASE PushLogEventBatch
    <2>1. /\ attempt' = 0 /\ batchFaults' = 0 /\ UNCHANGED <<group, stream>>
          /\ \/ client' = "createStream" /\ inPut' = FALSE
             \/ client' = "put" /\ streamToken # 0
          /\ client = "idle"
      BY <1>1 DEF PushLogEventBatch, serviceVars
    <2>2. client' = "put" => group' /\ stream'
      BY <2>1, TokenTypes DEF Tokens, TokensGrow, GroupFirst
    <2> QED
      BY <2>1, <2>2 DEF AttemptsCounted, Abandoned, Creating
  <1>2. CASE PutAccepted \/ PutAlreadyAccepted \/ PutRefused
    BY <1>2 DEF PutAccepted, PutAlreadyAccepted, PutRefused, Return, AttemptsCounted, Abandoned
  <1>3. CASE PutAcceptedWithoutToken \/ PutFails \/ PutInvalidSequenceToken
    BY <1>3, PutCounted
  <1>4. CASE PutResourceNotFound \/ CreateLogStreamNotFound
    <2>1. /\ UNCHANGED <<group, stream, attempt, batchFaults>>
          /\ client # "idle" /\ client' # "idle" /\ client' # "put"
          /\ \/ client = "put" /\ ~stream /\ inPut'
             \/ Creating /\ inPut' = inPut
      BY <1>4 DEF PutResourceNotFound, CreateLogStreamNotFound, serviceVars, putVars,
                  createVars, Creating
    <2> QED
      BY <2>1 DEF AttemptsCounted, Abandoned, Creating
  <1>5. CASE CreateLogStreamSucceeds \/ CreateLogGroupSucceeds \/ CreateFails
    BY <1>5, CreateCounted
  <1>6. CASE DelayedRequestArrives
    <2>1. PICK r \in delayed :
            /\ delayed' = delayed \ {r}
            /\ IF Accepts(r) THEN Accept(r) ELSE UNCHANGED serviceVars
            /\ UNCHANGED <<client, createVars, putVars, batchFaults, deletes>>
      BY <1>6 DEF DelayedRequestArrives
    <2>2. /\ UNCHANGED <<client, inPut, batch, attempt, token, outcome, batchFaults, group, stream>>
          /\ Request' = Request
      BY <2>1 DEF createVars, putVars, Accept, serviceVars, Request
    <2>3. client = "put" /\ Fresh => Fresh'
      <3> SUFFICES ASSUME client = "put", Fresh PROVE Fresh'
        OBVIOUS
      <3>1. CASE ~Accepts(r)
        BY <2>1, <2>2, <3>1 DEF Fresh, serviceVars
      <3>2. CASE Accepts(r)
        <4>1. r.token = expected /\ lastPut' = r
          BY <2>1, <3>2 DEF Accepts, Accept
        <4>2. lastPut # Request
          <5> SUFFICES ASSUME lastPut = Request PROVE FALSE
            OBVIOUS
          <5>1. lastPut.batch = batch /\ lastPut.token = token /\ batch # 0
            BY DEF Request, Recorded, Batches
          <5>2. issued # 0
            BY <5>1 DEF Tokens, TokensGrow, NoPut
          <5>3. r.token <= token /\ token < issued /\ expected = issued
            BY <5>1, <5>2, TokenTypes DEF Tokens, TokensGrow, Known
          <5> QED
            BY <4>1, <5>3, TokenTypes
        <4>3. r.batch = batch /\ r.token = token
          BY <4>1, <4>2 DEF Fresh
        <4>4. r = [batch |-> r.batch, token |-> r.token]
          BY DEF TypeOK
        <4> QED
          BY <2>2, <4>1, <4>3, <4>4 DEF Fresh, Request
      <3> QED
        BY <3>1, <3>2
    <2> QED
      BY <2>2, <2>3 DEF AttemptsCounted, Abandoned, Creating
  <1>7. CASE CallHangs
    <2>1. /\ UNCHANGED <<attempt, batchFaults, inPut>>
          /\ client # "idle" /\ client' = "hung"
      BY <1>7 DEF CallHangs, putVars, createVars
    <2>2. (~group' => ~group) /\ (~stream' => ~stream)
      BY <1>7 DEF CallHangs, CreateUnanswered, NewStream, Accept, serviceVars
    <2>3. client = "put" \/ Creating
      BY <1>7 DEF CallHangs, Creating, TypeOK
    <2> QED
      BY <2>1, <2>2, <2>3 DEF AttemptsCounted, Abandoned, Creating
  <1> QED
    BY <1>1, <1>2, <1>3, <1>4, <1>5, <1>6, <1>7 DEF Next, ClientStep

-----------------------------------------------------------------------------

(* Deletions are counted, and only they.                                   *)
LEMMA DeletesStep ==
    ASSUME TypeOK, Next, deletes' = 0
    PROVE  deletes = 0 /\ ~Delete
  <1>1. deletes \in Nat
    BY LogClientAssumption DEF TypeOK
  <1>2. ~Delete
    BY <1>1 DEF Delete
  <1>3. deletes' = deletes
    <2>1. CASE PushLogEventBatch
      BY <2>1, Zenon DEF PushLogEventBatch
    <2>2. CASE PutAccepted
      BY <2>2, Zenon DEF PutAccepted
    <2>3. CASE PutAcceptedWithoutToken
      BY <2>3, Zenon DEF PutAcceptedWithoutToken
    <2>4. CASE PutAlreadyAccepted
      BY <2>4, Zenon DEF PutAlreadyAccepted
    <2>5. CASE PutInvalidSequenceToken
      BY <2>5, Zenon DEF PutInvalidSequenceToken
    <2>6. CASE PutResourceNotFound
      BY <2>6, Zenon DEF PutResourceNotFound
    <2>7. CASE PutFails
      BY <2>7, Zenon DEF PutFails
    <2>8. CASE PutRefused
      BY <2>8, Zenon DEF PutRefused
    <2>9. CASE CreateLogStreamSucceeds
      BY <2>9, Zenon DEF CreateLogStreamSucceeds
    <2>10. CASE CreateLogStreamNotFound
      BY <2>10, Zenon DEF CreateLogStreamNotFound
    <2>11. CASE CreateLogGroupSucceeds
      BY <2>11, Zenon DEF CreateLogGroupSucceeds
    <2>12. CASE CreateFails
      BY <2>12, Zenon DEF CreateFails
    <2>13. CASE CallHangs
      BY <2>13, Zenon DEF CallHangs
    <2>14. CASE DelayedRequestArrives
      BY <2>14, Zenon DEF DelayedRequestArrives
    <2> QED
      BY <1>2, <2>1, <2>2, <2>3, <2>4, <2>5, <2>6, <2>7, <2>8, <2>9, <2>10, <2>11, <2>12, <2>13,
         <2>14 DEF Next, ClientStep
  <1> QED
    BY <1>2, <1>3

LEMMA InitIInv == Init => IInv
  <1> SUFFICES ASSUME Init PROVE IInv
    OBVIOUS
  <1> USE LogClientAssumption
  <1>1. FlagsOK
    BY DEF Init, FlagsOK
  <1>2. stored = <<>> /\ issued = 0 /\ expected = 0 /\ lastPut = NoPut /\ delayed = {}
        /\ client = "idle" /\ outcome = "none" /\ ~stream /\ batch = 0 /\ streamToken = 0
    BY DEF Init
  <1>3. TypeOK
    <2>1. lastPut \in [batch : 0..MaxBatches, token : 0..issued] /\ stored \in Seq(Batches)
      BY <1>2 DEF NoPut
    <2> QED
      BY <1>1, <2>1 DEF Init, TypeOK
  <1>4. LastIsNewest /\ Recorded /\ AbandonedOnlyAfterFaults
    BY <1>2 DEF LastIsNewest, Recorded, SentWasStored, AbandonedOnlyAfterFaults, NoPut
  <1>5. OneStream
    BY <1>2 DEF OneStream, TokensGrow, StrictlyOrdered, NewerThanLast, CurrentWhenSent,
                GroupFirst, AttemptsCounted, Known, Creating
  <1> QED
    BY <1>3, <1>4, <1>5 DEF IInv

(* IInv is an invariant of pushLogEventBatch and its client.               *)
THEOREM Invariance == Spec => []IInv
  <1>1. IInv /\ [Next]_vars => IInv'
    <2> SUFFICES ASSUME IInv, [Next]_vars PROVE IInv'
      OBVIOUS
    <2>1. CASE Next
      <3>1. TypeOK' /\ LastIsNewest' /\ Recorded'
        BY <2>1, TypeStep, LastIsNewestStep, RecordedStep DEF IInv
      <3>2. ASSUME deletes' = 0
            PROVE  OneStream' /\ Abandoned'
        <4>1. deletes = 0 /\ ~Delete
          BY <2>1, <3>2, DeletesStep DEF IInv
        <4>2. Tokens /\ GroupFirst /\ AttemptsCounted /\ Abandoned
          BY <4>1 DEF IInv, OneStream, Tokens, AbandonedOnlyAfterFaults, Abandoned
        <4>3. Tokens'
          BY <2>1, <4>1, <4>2, KeepingSteps, KeepingTokens, PushTokens, LearnTokens,
             SentTokens, DelayedTokens DEF IInv, Tokens, TokensGrow
        <4>4. GroupFirst'
          BY <2>1, <4>1, <4>2, GroupStep DEF IInv, TypeOK
        <4>5. AttemptsCounted' /\ Abandoned'
          BY <2>1, <4>1, <4>2, CountedStep DEF IInv
        <4> QED
          BY <4>3, <4>4, <4>5 DEF OneStream, Tokens
      <3>3. OneStream' /\ AbandonedOnlyAfterFaults'
        BY <3>2 DEF OneStream, AbandonedOnlyAfterFaults, Abandoned
      <3> QED
        BY <3>1, <3>3 DEF IInv
    <2>2. CASE UNCHANGED vars
      <3> USE DEF vars, serviceVars, createVars, putVars
      <3>1. TypeOK' /\ LastIsNewest' /\ Recorded' /\ AbandonedOnlyAfterFaults'
        BY <2>2 DEF IInv, TypeOK, FlagsOK, LastIsNewest, Recorded, SentWasStored,
                    AbandonedOnlyAfterFaults
      <3>2. OneStream'
        BY <2>2 DEF IInv, OneStream, TokensGrow, StrictlyOrdered, NewerThanLast,
                    CurrentWhenSent, GroupFirst, AttemptsCounted, Known, Creating, Fresh,
                    Request
      <3> QED
        BY <3>1, <3>2 DEF IInv
    <2> QED
      BY <2>1, <2>2
  <1> QED
    BY InitIInv, <1>1, PTL DEF Spec

(* The types of the state: no loop of the client passes its retry count. *)
THEOREM TypeCorrect == Spec => []TypeOK
  <1>1. IInv => TypeOK
    BY DEF IInv
  <1> QED
    BY Invariance, <1>1, PTL

(* Retries and late requests never put a batch before an older one, and,   *)
(* as long as there is one stream, never into it twice.                    *)
THEOREM Order == Spec => []StoredInOrder
  <1>1. IInv => StoredInOrder
    BY DEF IInv, LastIsNewest, OneStream, StrictlyOrdered, StoredInOrder
  <1> QED
    BY Invariance, <1>1, PTL

(* What the client takes for sent the service has accepted. *)
THEOREM NothingFeigned == Spec => []SentWasStored
  <1>1. IInv => SentWasStored
    BY DEF IInv, Recorded
  <1> QED
    BY Invariance, <1>1, PTL

(* A batch is given up for failures of its own, for any retry count. *)
THEOREM Persistence == Spec => []AbandonedOnlyAfterFaults
  <1>1. IInv => AbandonedOnlyAfterFaults
    BY DEF IInv
  <1> QED
    BY Invariance, <1>1, PTL

(* The token kept after a batch was sent is the one the stream expects. *)
THEOREM Token == Spec => []TokenIsCurrent
  <1>1. IInv => TokenIsCurrent
    BY DEF IInv, OneStream, TokensGrow, CurrentWhenSent, TokenIsCurrent
  <1> QED
    BY Invariance, <1>1, PTL

-----------------------------------------------------------------------------
(* The length of a push.  An attempt of PutLogEvents is one request and at *)
(* most one CreateStream of DefaultRetryCount + 1 rounds of two requests.  *)
(* Remaining bounds the answers a push in progress still waits for; one    *)
(* whose call hangs gets none.                                             *)

AttemptLength == 2 * DefaultRetryCount + 3

RoundsLeft == 2 * (DefaultRetryCount - createAttempt) + (IF client = "createStream" THEN 2 ELSE 1)

Later(i) == (RetryCnt - i) * AttemptLength

Remaining ==
    IF client \in {"idle", "hung"} THEN 0
    ELSE IF client = "put" THEN Later(attempt) + AttemptLength
    ELSE IF inPut THEN Later(attempt) + RoundsLeft
    ELSE Later(attempt) + AttemptLength + RoundsLeft

LongestPush == (RetryCnt + 2) * AttemptLength

(* Whatever the service answers, a push in progress waits for at most      *)
(* Remaining answers; what others do to the stream meanwhile adds none.    *)
PushMovesOn ==
    [][/\ ClientStep => Remaining' < Remaining
       /\ ~ClientStep /\ client # "idle" => Remaining' = Remaining]_vars

PushIsBounded ==
    Remaining \in 0..LongestPush /\ (Remaining = 0 <=> client \in {"idle", "hung"})

LEMMA Products ==
    ASSUME NEW x \in Nat, NEW y \in Nat, NEW z \in Nat
    PROVE  x * y \in Nat /\ (x + 1) * y = x * y + y /\ (x + z) * y = x * y + z * y
  OBVIOUS

LEMMA AttemptLengthType == AttemptLength \in Nat \ {0}
  BY LogClientAssumption DEF AttemptLength

LEMMA LaterAttempts ==
    ASSUME NEW i \in 0..RetryCnt
    PROVE  /\ Later(i) \in Nat /\ Later(i) <= Later(0)
           /\ i # RetryCnt => Later(i) = Later(i + 1) + AttemptLength
           /\ LongestPush = Later(0) + 2 * AttemptLength
  <1>1. /\ RetryCnt \in Nat /\ AttemptLength \in Nat /\ i \in Nat /\ RetryCnt - i \in Nat
        /\ RetryCnt = (RetryCnt - i) + i
    BY LogClientAssumption, AttemptLengthType
  <1>2. Later(i) \in Nat
    BY <1>1, Products DEF Later
  <1>3. Later(i) <= Later(0)
    <2>1. i * AttemptLength \in Nat
      BY <1>1, Products
    <2>2. ((RetryCnt - i) + i) * AttemptLength = Later(i) + i * AttemptLength
      BY <1>1, Products DEF Later
    <2>3. Later(0) = Later(i) + i * AttemptLength
      <3>1. RetryCnt - 0 = (RetryCnt - i) + i
        BY <1>1
      <3> QED
        BY <2>2, <3>1 DEF Later
    <2> QED
      BY <1>2, <2>1, <2>3
  <1>4. ASSUME i # RetryCnt
        PROVE  Later(i) = Later(i + 1) + AttemptLength
    <2>1. RetryCnt - (i + 1) \in Nat /\ RetryCnt - i = (RetryCnt - (i + 1)) + 1
      BY <1>1, <1>4
    <2>2. ((RetryCnt - (i + 1)) + 1) * AttemptLength = Later(i + 1) + AttemptLength
      BY <1>1, <2>1, Products DEF Later
    <2> QED
      BY <2>1, <2>2 DEF Later
  <1>5. LongestPush = Later(0) + 2 * AttemptLength
    <2>1. (RetryCnt + 2) * AttemptLength = RetryCnt * AttemptLength + 2 * AttemptLength
      BY <1>1, Products
    <2>2. RetryCnt - 0 = RetryCnt
      BY <1>1
    <2> QED
      BY <2>1, <2>2 DEF Later, LongestPush
  <1> QED
    BY <1>2, <1>3, <1>4, <1>5

LEMMA RoundsType ==
    ASSUME TypeOK
    PROVE  RoundsLeft \in Nat /\ 0 < RoundsLeft /\ RoundsLeft < AttemptLength
  BY LogClientAssumption DEF TypeOK, RoundsLeft, AttemptLength

(* How much a push has left, whether or not its loop has begun. *)
LEMMA Bounded == TypeOK => PushIsBounded
  <1> SUFFICES ASSUME TypeOK PROVE PushIsBounded
    OBVIOUS
  <1>1. /\ AttemptLength \in Nat \ {0} /\ RoundsLeft \in Nat /\ 0 < RoundsLeft
        /\ RoundsLeft < AttemptLength
    BY AttemptLengthType, RoundsType
  <1>2. attempt \in 0..RetryCnt
    BY DEF TypeOK
  <1>3. /\ Later(attempt) \in Nat /\ Later(attempt) <= Later(0)
        /\ LongestPush = Later(0) + 2 * AttemptLength
    BY <1>2, LaterAttempts
  <1>4. Later(0) \in Nat
    BY LogClientAssumption, LaterAttempts
  <1> QED
    BY <1>1, <1>3, <1>4 DEF PushIsBounded, Remaining

(* The end of an attempt, with anything left of it. *)
LEMMA AttemptEnds ==
    ASSUME TypeOK, NEW t, NEW how, NextAttempt(t, how) \/ Return(t, how)
    PROVE  Remaining' \in Nat /\ Remaining' <= Later(attempt)
  <1>1. attempt \in 0..RetryCnt /\ RetryCnt \in Nat /\ AttemptLength \in Nat
    BY AttemptLengthType, LogClientAssumption DEF TypeOK
  <1>2. Later(attempt) \in Nat
        /\ (attempt # RetryCnt => Later(attempt) = Later(attempt + 1) + AttemptLength)
    BY <1>1, LaterAttempts
  <1>3. CASE client' = "idle"
    BY <1>2, <1>3 DEF Remaining
  <1>4. CASE attempt # RetryCnt /\ client' = "put" /\ attempt' = attempt + 1
    <2>1. Remaining' = Later(attempt + 1) + AttemptLength
      BY <1>4 DEF Remaining, Later, AttemptLength
    <2> QED
      BY <1>2, <1>4, <2>1
  <1>5. client' = "idle" \/ (attempt # RetryCnt /\ client' = "put" /\ attempt' = attempt + 1)
    BY DEF NextAttempt, Return
  <1> QED
    BY <1>3, <1>4, <1>5

LEMMA CreateStreamEnds ==
    ASSUME TypeOK, Creating, NEW ok, CreateStreamReturns(ok)
    PROVE  Remaining' < Remaining
  <1>1. RoundsLeft \in Nat /\ 0 < RoundsLeft /\ AttemptLength \in Nat
    BY RoundsType, AttemptLengthType
  <1>2. attempt \in 0..RetryCnt
    BY DEF TypeOK
  <1>3. Later(attempt) \in Nat
    BY <1>2, LaterAttempts
  <1>4. CASE inPut
    <2>1. PICK t : NextAttempt(t, "abandoned")
      BY <1>4 DEF CreateStreamReturns
    <2>2. Remaining' \in Nat /\ Remaining' <= Later(attempt)
      BY <2>1, AttemptEnds
    <2>3. Remaining = Later(attempt) + RoundsLeft
      BY <1>4 DEF Remaining, Creating
    <2> QED
      BY <1>1, <1>3, <2>2, <2>3
  <1>5. CASE ~inPut
    <2>1. client' = "put" /\ attempt' = attempt
      BY <1>5 DEF CreateStreamReturns, putVars
    <2>2. Remaining' = Later(attempt) + AttemptLength
      BY <2>1 DEF Remaining, Later, AttemptLength
    <2>3. Remaining = Later(attempt) + AttemptLength + RoundsLeft
      BY <1>5 DEF Remaining, Creating
    <2> QED
      BY <1>1, <1>3, <2>2, <2>3
  <1> QED
    BY <1>4, <1>5

(* Each answer is the end of an attempt, the end of CreateStream, or the   *)
(* next step of either.                                                    *)
LEMMA AnswersCount ==
    ASSUME TypeOK, ClientStep
    PROVE  Remaining' < Remaining
  <1>1. RoundsLeft \in Nat /\ 0 < RoundsLeft /\ RoundsLeft < AttemptLength
        /\ AttemptLength \in Nat \ {0}
    BY RoundsType, AttemptLengthType
  <1>2. /\ attempt \in 0..RetryCnt /\ createAttempt \in 0..DefaultRetryCount
        /\ DefaultRetryCount \in Nat
    BY LogClientAssumption DEF TypeOK
  <1>3. Later(attempt) \in Nat
    BY <1>2, LaterAttempts
  <1>4. ASSUME client = "put", NEW t, NEW how, NextAttempt(t, how) \/ Return(t, how)
        PROVE  Remaining' < Remaining
    <2>1. Remaining' \in Nat /\ Remaining' <= Later(attempt)
      BY <1>4, AttemptEnds
    <2>2. Remaining = Later(attempt) + AttemptLength
      BY <1>4 DEF Remaining
    <2> QED
      BY <1>1, <1>3, <2>1, <2>2
  <1>5. CASE PutAccepted
    BY <1>4, <1>5 DEF PutAccepted
  <1>6. CASE PutAcceptedWithoutToken
    BY <1>4, <1>6 DEF PutAcceptedWithoutToken
  <1>7. CASE PutAlreadyAccepted
    BY <1>4, <1>7 DEF PutAlreadyAccepted
  <1>8. CASE PutInvalidSequenceToken
    BY <1>4, <1>8 DEF PutInvalidSequenceToken
  <1>9. CASE PutFails
    BY <1>4, <1>9 DEF PutFails
  <1>10. CASE PutRefused
    BY <1>4, <1>10 DEF PutRefused
  <1>11. CASE PutResourceNotFound
    <2>1. /\ client = "put" /\ client' = "createStream" /\ createAttempt' = 0 /\ inPut'
          /\ attempt' = attempt
      BY <1>11 DEF PutResourceNotFound, putVars
    <2>2. RoundsLeft' = 2 * (DefaultRetryCount - 0) + 2
      BY <2>1 DEF RoundsLeft
    <2>3. RoundsLeft' = AttemptLength - 1
      BY <1>2, <2>2 DEF AttemptLength
    <2>4. Remaining' = Later(attempt) + RoundsLeft' /\ Remaining = Later(attempt) + AttemptLength
      BY <2>1 DEF Remaining, Later, AttemptLength
    <2> QED
      BY <1>1, <1>3, <2>3, <2>4
  <1>12. CASE CreateLogStreamSucceeds \/ CreateLogGroupSucceeds
    BY <1>12, CreateStreamEnds DEF CreateLogStreamSucceeds, CreateLogGroupSucceeds, Creating
  <1>13. ASSUME Creating, Creating', UNCHANGED <<inPut, attempt>>,
                RoundsLeft' \in Int, RoundsLeft' < RoundsLeft
         PROVE  Remaining' < Remaining
    <2>1. CASE inPut
      <3>1. Remaining = Later(attempt) + RoundsLeft /\ Remaining' = Later(attempt) + RoundsLeft'
        BY <1>13, <2>1 DEF Remaining, Creating, Later, AttemptLength
      <3> QED
        BY <1>1, <1>3, <1>13, <3>1
    <2>2. CASE ~inPut
      <3>1. /\ Remaining = Later(attempt) + AttemptLength + RoundsLeft
            /\ Remaining' = Later(attempt) + AttemptLength + RoundsLeft'
        BY <1>13, <2>2 DEF Remaining, Creating, Later, AttemptLength
      <3> QED
        BY <1>1, <1>3, <1>13, <3>1
    <2> QED
      BY <2>1, <2>2
  <1>14. CASE CreateLogStreamNotFound
    <2>1. /\ client = "createStream" /\ client' = "createGroup"
          /\ UNCHANGED <<inPut, attempt, createAttempt>>
      BY <1>14 DEF CreateLogStreamNotFound, createVars, putVars
    <2>2. RoundsLeft' \in Int /\ RoundsLeft' < RoundsLeft
      BY <1>2, <2>1 DEF RoundsLeft
    <2> QED
      BY <1>13, <2>1, <2>2 DEF Creating
  <1>15. CASE CreateFails
    <2>1. Creating
      BY <1>15 DEF CreateFails, Creating
    <2>2. CASE CreateStreamReturns(FALSE)
      BY <2>1, <2>2, CreateStreamEnds
    <2>3. CASE /\ client' = "createStream" /\ createAttempt' = createAttempt + 1
               /\ UNCHANGED <<inPut, putVars>>
      <3>1. RoundsLeft' \in Int /\ RoundsLeft' < RoundsLeft
        BY <1>2, <2>3 DEF RoundsLeft
      <3> QED
        BY <1>13, <2>1, <2>3, <3>1 DEF Creating, putVars
    <2> QED
      BY <1>15, <2>2, <2>3 DEF CreateFails
  <1>16. CASE CallHangs
    <2>1. client \notin {"idle", "hung"} /\ Remaining' = 0
      BY <1>16 DEF CallHangs, Remaining
    <2>2. Remaining \in Nat /\ Remaining # 0
      <3>1. Remaining \in 0..LongestPush /\ Remaining # 0
        BY <2>1, Bounded DEF PushIsBounded
      <3>2. LongestPush \in Nat
        BY <1>1, LogClientAssumption, Products DEF LongestPush
      <3> QED
        BY <3>1, <3>2
    <2> QED
      BY <2>1, <2>2
  <1> QED
    BY <1>5, <1>6, <1>7, <1>8, <1>9, <1>10, <1>11, <1>12, <1>14, <1>15, <1>16 DEF ClientStep

(* A push in progress never waits for more than LongestPush answers, a     *)
(* number fixed by the two retry counts.                                   *)
THEOREM BoundedPush == Spec => []PushIsBounded
  BY TypeCorrect, Bounded, PTL

(* And every answer brings it nearer to its end, whatever the answer is:   *)
(* the safety half of EveryPushEnds, which adds only that every call is    *)
(* answered or hangs.                                                      *)
THEOREM Progress == Spec => PushMovesOn
  <1>1. ASSUME TypeOK, Next
        PROVE  /\ ClientStep => Remaining' < Remaining
               /\ ~ClientStep /\ client # "idle" => Remaining' = Remaining
    <2>1. CASE ClientStep
      BY <1>1, <2>1, AnswersCount
    <2>2. ASSUME ~ClientStep, client # "idle"
          PROVE  Remaining' = Remaining
      <3>1. DelayedRequestArrives \/ Delete
        BY <1>1, <2>2 DEF Next, PushLogEventBatch
      <3>2. UNCHANGED <<client, createVars, putVars>>
        BY <3>1 DEF DelayedRequestArrives, Delete
      <3> QED
        BY <3>2 DEF Remaining, Later, RoundsLeft, AttemptLength, createVars, putVars
    <2> QED
      BY <2>1, <2>2
  <1> QED
    BY TypeCorrect, <1>1, PTL DEF Spec, PushMovesOn

=============================================================================
