----------------------------- MODULE LogClient -----------------------------
(***************************************************************************)
(* How a batch reaches CloudWatch Logs: pushLogEventBatch (pusher.go) and  *)
(* the client it calls, PutLogEvents and CreateStream (cwlog_client.go).   *)
(* The publisher runs one pushLogEventBatch at a time (one permit), so the *)
(* client is sequential; batches are numbered in the order it is called.   *)
(*                                                                         *)
(* The service is external.  It keeps a log group, a log stream and the    *)
(* sequence token the next request to the stream must carry (0: none), and *)
(* answers the way PutLogEvents' error cases expect.  A call may fail      *)
(* before, after or long before the service acts on it, and it may never   *)
(* return: GetAWSConfigSession gives the SDK no HTTP client of its own, so *)
(* no timeout ends a request.                                              *)
(***************************************************************************)
EXTENDS Integers, Sequences

CONSTANTS
    RetryCnt,               \* retryCnt of the pusher
    DefaultRetryCount,      \* defaultRetryCount: retries inside CreateStream
    MaxBatches,             \* bound on the batches pushed
    MaxFaults,              \* bound up to which failed calls are counted
    MaxDeletes              \* bound on the deletions of the stream or group

ASSUME LogClientAssumption ==
    /\ RetryCnt \in Nat /\ DefaultRetryCount \in Nat
    /\ MaxBatches \in Nat /\ MaxDeletes \in Nat
    /\ MaxFaults \in Nat /\ MaxFaults >= RetryCnt

VARIABLES
    group, stream,          \* the log group and the log stream exist
    stored,                 \* the batches in the log stream
    expected,               \* the token the stream expects
    issued,                 \* number of tokens handed out so far
    lastPut,                \* the last request accepted by the stream
    delayed,                \* requests sent whose caller has given up on them
    client,                 \* where the client is
    batch,                  \* the number of the batch being pushed
    attempt,                \* i of the loop in PutLogEvents
    token,                  \* token of PutLogEvents (0: nil)
    createAttempt,          \* i of the loop in callFuncWithRetries
    inPut,                  \* CreateStream was called by PutLogEvents
    streamToken,            \* pusher.streamToken (0: "")
    outcome,                \* how the last pushLogEventBatch ended
    everStored,             \* history: batches the service ever accepted
    batchFaults,            \* history: failed calls made for this batch
    deletes                 \* deletions so far

serviceVars == <<group, stream, stored, expected, issued, lastPut, everStored>>
createVars  == <<createAttempt, inPut>>
putVars     == <<batch, attempt, token, streamToken, outcome>>
vars == <<serviceVars, delayed, client, createVars, putVars,
          batchFaults, deletes>>

Batches  == 1..MaxBatches
NoPut    == [batch |-> 0, token |-> 0]
Request  == [batch |-> batch, token |-> token]

-----------------------------------------------------------------------------
(* The service. *)

Init ==
    /\ group = FALSE /\ stream = FALSE
    /\ stored = <<>> /\ expected = 0 /\ issued = 0 /\ lastPut = NoPut
    /\ delayed = {}
    /\ client = "idle" /\ batch = 0 /\ attempt = 0 /\ token = 0
    /\ createAttempt = 0 /\ inPut = FALSE
    /\ streamToken = 0 /\ outcome = "none"
    /\ everStored = {}
    /\ batchFaults = 0 /\ deletes = 0

Accepts(r)         == stream /\ r.token = expected
AlreadyAccepted(r) == stream /\ r.token # expected /\ r = lastPut
WrongToken(r)      == stream /\ r.token # expected /\ r # lastPut

Accept(r) ==
    /\ stored' = Append(stored, r.batch)
    /\ issued' = issued + 1
    /\ expected' = issued'
    /\ lastPut' = r
    /\ everStored' = everStored \cup {r.batch}
    /\ UNCHANGED <<group, stream>>

(* A new stream is empty and expects no token. *)
NewStream ==
    /\ stream' = TRUE
    /\ stored' = <<>> /\ expected' = 0 /\ lastPut' = NoPut
    /\ UNCHANGED <<group, issued, everStored>>

(* A request whose caller gave up reaches the service after all.           *)
DelayedRequestArrives ==
    \E r \in delayed :
        /\ delayed' = delayed \ {r}
        /\ IF Accepts(r) THEN Accept(r) ELSE UNCHANGED serviceVars
        /\ UNCHANGED <<client, createVars, putVars, batchFaults, deletes>>

(* Somebody deletes the stream, or the group with it. *)
Delete ==
    /\ deletes < MaxDeletes /\ stream
    /\ deletes' = deletes + 1
    /\ stream' = FALSE
    /\ group' \in BOOLEAN
    /\ stored' = <<>>
    /\ UNCHANGED <<expected, issued, lastPut, everStored, delayed, client, createVars,
                   putVars, batchFaults>>

(* Calls may fail for ever; the history counts up to MaxFaults of them.    *)
Fault == batchFaults' = IF batchFaults < MaxFaults THEN batchFaults + 1 ELSE MaxFaults

-----------------------------------------------------------------------------
(* pushLogEventBatch. *)

PushLogEventBatch ==
    /\ client = "idle" /\ batch < MaxBatches
    /\ batch' = batch + 1
    /\ attempt' = 0 /\ batchFaults' = 0
    /\ token' = streamToken
    /\ IF streamToken = 0
       THEN client' = "createStream" /\ createAttempt' = 0 /\ inPut' = FALSE
       ELSE client' = "put" /\ UNCHANGED <<createAttempt, inPut>>
    /\ UNCHANGED <<serviceVars, delayed, streamToken, outcome, deletes>>

(* Mutant of Return: pushLogEventBatch does not keep the token.            *)
ReturnWithoutToken(t, how) ==
    /\ client' = "idle"
    /\ outcome' = how
    /\ token' = 0
    /\ UNCHANGED <<batch, attempt, streamToken>>

(* PutLogEvents returns t: pushLogEventBatch keeps its token if t is nil.  *)
Return(t, how) ==
    /\ client' = "idle"
    /\ streamToken' = IF t = 0 THEN streamToken ELSE t
    /\ outcome' = how
    /\ token' = 0
    /\ UNCHANGED <<batch, attempt>>

(* Mutants of NextAttempt: one attempt too many; attempts not counted.     *)
OneAttemptMore(t, how) ==
    IF attempt > RetryCnt
    THEN Return(t, how)
    ELSE /\ client' = "put" /\ attempt' = attempt + 1 /\ token' = t
         /\ UNCHANGED <<batch, streamToken, outcome>>

RetryForEver(t, how) ==
    client' = "put" /\ token' = t /\ UNCHANGED <<batch, attempt, streamToken, outcome>>

(* The end of an iteration of its loop. *)
NextAttempt(t, how) ==
    IF attempt = RetryCnt
    THEN Return(t, how)
    ELSE /\ client' = "put" /\ attempt' = attempt + 1 /\ token' = t
         /\ UNCHANGED <<batch, streamToken, outcome>>

PutAccepted ==
    /\ client = "put" /\ Accepts(Request)
    /\ Accept(Request)
    /\ Return(expected', "sent")
    /\ UNCHANGED <<delayed, createVars, batchFaults, deletes>>

(* An answer without a next token does not end the loop: the same batch is *)
(* sent again.                                                             *)
PutAcceptedWithoutToken ==
    /\ client = "put" /\ Accepts(Request)
    /\ Fault
    /\ Accept(Request)
    /\ NextAttempt(token, "sentWithoutToken")
    /\ UNCHANGED <<delayed, createVars, deletes>>

(* Mutant of PutAlreadyAccepted: handled like a wrong token, sent again.    *)
PutAlreadyAcceptedAgain ==
    /\ client = "put" /\ AlreadyAccepted(Request)
    /\ NextAttempt(expected, "abandoned")
    /\ UNCHANGED <<serviceVars, delayed, createVars, batchFaults, deletes>>

PutAlreadyAccepted ==
    /\ client = "put" /\ AlreadyAccepted(Request)
    /\ Return(expected, "sent")
    /\ UNCHANGED <<serviceVars, delayed, createVars, batchFaults, deletes>>

(* Mutants of PutInvalidSequenceToken: handled like data already accepted; *)
(* sent again with the token that was refused.                             *)
PutInvalidTokenSkipped ==
    /\ client = "put" /\ WrongToken(Request)
    /\ Return(expected, "sent")
    /\ UNCHANGED <<serviceVars, delayed, createVars, batchFaults, deletes>>

PutInvalidTokenKept ==
    /\ client = "put" /\ WrongToken(Request)
    /\ NextAttempt(token, "abandoned")
    /\ UNCHANGED <<serviceVars, delayed, createVars, batchFaults, deletes>>

PutInvalidSequenceToken ==
    /\ client = "put" /\ WrongToken(Request)
    /\ NextAttempt(expected, "abandoned")
    /\ UNCHANGED <<serviceVars, delayed, createVars, batchFaults, deletes>>

PutResourceNotFound ==
    /\ client = "put" /\ ~stream
    /\ client' = "createStream" /\ createAttempt' = 0 /\ inPut' = TRUE
    /\ UNCHANGED <<serviceVars, delayed, putVars, batchFaults, deletes>>

(* Throttled, aborted, unavailable or no answer: the client tries again.   *)
(* The request may have been lost, acted on, or be acted on later.         *)
PutFails ==
    /\ client = "put"
    /\ Fault
    /\ NextAttempt(token, "abandoned")
    /\ \/ UNCHANGED <<serviceVars, delayed>>
       \/ Accepts(Request) /\ Accept(Request) /\ UNCHANGED delayed
       \/ delayed' = delayed \cup {Request} /\ UNCHANGED serviceVars
    /\ UNCHANGED <<createVars, deletes>>

(* InvalidParameterException, or an error that is not the service's: the   *)
(* client does not retry.                                                  *)
PutRefused ==
    /\ client = "put"
    /\ Fault
    /\ Return(token, "refused")
    /\ UNCHANGED <<serviceVars, delayed, createVars, deletes>>

-----------------------------------------------------------------------------
(* CreateStream: its token is always empty. *)

CreateStreamReturns(ok) ==
    /\ UNCHANGED createVars
    /\ IF inPut
       THEN NextAttempt(IF ok THEN 0 ELSE token, "abandoned")
       ELSE client' = "put" /\ UNCHANGED putVars

CreateLogStreamSucceeds ==
    /\ client = "createStream" /\ group
    /\ IF stream THEN UNCHANGED serviceVars ELSE NewStream
    /\ CreateStreamReturns(TRUE)
    /\ UNCHANGED <<delayed, batchFaults, deletes>>

CreateLogStreamNotFound ==
    /\ client = "createStream" /\ ~group
    /\ client' = "createGroup"
    /\ UNCHANGED <<serviceVars, delayed, createVars, putVars, batchFaults, deletes>>

(* The error of CreateLogStream is replaced by that of CreateLogGroup, nil: *)
(* CreateStream succeeds and there is no stream.                           *)
CreateLogGroupSucceeds ==
    /\ client = "createGroup"
    /\ group' = TRUE
    /\ CreateStreamReturns(TRUE)
    /\ UNCHANGED <<stream, stored, expected, issued, lastPut, everStored, delayed,
                   batchFaults, deletes>>

(* What the service may have done when either call brings no answer. *)
CreateUnanswered ==
    \/ UNCHANGED serviceVars
    \/ client = "createStream" /\ group /\ ~stream /\ NewStream
    \/ client = "createGroup" /\ group' = TRUE
       /\ UNCHANGED <<stream, stored, expected, issued, lastPut, everStored>>

(* Either call fails, after or without its effect. *)
CreateFails ==
    /\ client \in {"createStream", "createGroup"}
    /\ Fault
    /\ CreateUnanswered
    /\ IF createAttempt = DefaultRetryCount
       THEN CreateStreamReturns(FALSE)
       ELSE /\ client' = "createStream"
            /\ createAttempt' = createAttempt + 1
            /\ UNCHANGED <<inPut, putVars>>
    /\ UNCHANGED <<delayed, deletes>>

-----------------------------------------------------------------------------

(* A call never returns, though the service may act on it: the client, the *)
(* publishFn that called it and its permit are held for ever.              *)
CallHangs ==
    /\ client \notin {"idle", "hung"}
    /\ client' = "hung"
    /\ IF client = "put"
       THEN UNCHANGED serviceVars \/ (Accepts(Request) /\ Accept(Request))
       ELSE CreateUnanswered
    /\ UNCHANGED <<delayed, createVars, putVars, batchFaults, deletes>>

ClientStep ==
    \/ PutAccepted \/ PutAcceptedWithoutToken \/ PutAlreadyAccepted
    \/ PutInvalidSequenceToken \/ PutResourceNotFound \/ PutFails \/ PutRefused
    \/ CreateLogStreamSucceeds \/ CreateLogStreamNotFound \/ CreateLogGroupSucceeds
    \/ CreateFails \/ CallHangs

Next == PushLogEventBatch \/ ClientStep \/ DelayedRequestArrives \/ Delete

Spec == Init /\ [][Next]_vars

(* Every call comes to an end or hangs for ever, which is a step too, and  *)
(* every backoff sleep ends.                                               *)
FairSpec == Spec /\ WF_vars(ClientStep)

-----------------------------------------------------------------------------

FlagsOK == group \in BOOLEAN /\ stream \in BOOLEAN /\ inPut \in BOOLEAN

(* The types of the state; no loop counter passes its retry count.         *)
TypeOK ==
    /\ FlagsOK
    /\ stored \in Seq(Batches) /\ everStored \subseteq Batches
    /\ expected \in 0..issued /\ issued \in Nat
    /\ lastPut \in [batch : 0..MaxBatches, token : 0..issued]
    /\ delayed \subseteq [batch : Batches, token : 0..issued]
    /\ client \in {"idle", "createStream", "createGroup", "put", "hung"}
    /\ batch \in 0..MaxBatches
    /\ attempt \in 0..RetryCnt /\ createAttempt \in 0..DefaultRetryCount
    /\ token \in 0..issued /\ streamToken \in 0..issued
    /\ outcome \in {"none", "sent", "sentWithoutToken", "abandoned", "refused"}
    /\ batchFaults \in 0..MaxFaults /\ deletes \in 0..MaxDeletes

(* A stream holds the batches in the order the publisher pushed them,      *)
(* although PutLogEvents sends failed requests again and requests of       *)
(* abandoned batches still arrive; and none twice, unless a stream was     *)
(* deleted: its successor takes a late request that carries no token while *)
(* the same batch is sent again with the token of the old stream.          *)
StoredInOrder ==
    \A i, j \in DOMAIN stored : i < j =>
        /\ stored[i] <= stored[j]
        /\ deletes = 0 => stored[i] < stored[j]

(* A batch the client takes for sent was accepted by the service.          *)
SentWasStored ==
    client = "idle" /\ outcome \in {"sent", "sentWithoutToken"} => batch \in everStored

(* If nobody deletes the stream, a batch is given up only after RetryCnt-1 *)
(* calls made for it failed: of the RetryCnt+1 attempts of PutLogEvents,   *)
(* creating the stream and a stale token cost at most one each.            *)
AbandonedOnlyAfterFaults ==
    client = "idle" /\ outcome = "abandoned" /\ deletes = 0 => batchFaults >= RetryCnt - 1

(* If nobody deletes the stream, then after a batch was sent the pusher    *)
(* holds the token the stream expects, whatever arrived late: the next     *)
(* batch is accepted at its first attempt.                                 *)
TokenIsCurrent ==
    client = "idle" /\ outcome = "sent" /\ deletes = 0 => streamToken = expected

(* pushLogEventBatch returns, even if every call it makes fails, unless    *)
(* one of them never returns.                                              *)
EveryPushEnds == (client # "idle") ~> (client \in {"idle", "hung"})

=============================================================================
