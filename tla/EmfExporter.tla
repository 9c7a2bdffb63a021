---------------------------- MODULE EmfExporter ----------------------------
(***************************************************************************)
(* emf_exporter.go: goroutines of the pipeline call ConsumeMetrics, which  *)
(* chooses a log group for the request, finds or creates the pusher of the *)
(* (log group, log stream) and adds the request's log events to it;        *)
(* Shutdown closes shutdownChan and waits for the pushers' WaitGroup.      *)
(*                                                                         *)
(* A request is a sequence of resources: the names their attributes give   *)
(* the service, and how many log events their metrics make.  A log group   *)
(* is the names it is made of: no name contains the "/" that joins them.   *)
(* An exporter has one log stream name, so a log group stands for a pair.  *)
(* Pushers are numbered as NewPusher creates them.  Shutdown is called at  *)
(* most once.                                                              *)
(*                                                                         *)
(* pusherWG is a sync.WaitGroup of Go 1.14: the Done that brings its       *)
(* counter to zero wakes Wait, and Add and Wait panic when they find it in *)
(* use again before Wait has returned.  Nothing keeps a call of getPusher  *)
(* from creating a pusher just then, and the panic ends the collector.     *)
(***************************************************************************)
EXTENDS PusherPort, SequencesExt

CONSTANTS
    Callers,                \* goroutines that call ConsumeMetrics
    Requests,               \* what they may be given
    Names,                  \* values of service.name, service.namespace, log_group_name
    Empty,                  \* the name ""
    NoName,                 \* an attribute that is missing or no string
    LogGroupNames,          \* values of log_group_name (NoName: unset, or "")
    LogEventChanSize,       \* logEventChanBufferSize
    MaxRequests             \* bound on the calls of ConsumeMetrics

ASSUME EmfExporterAssumption ==
    /\ NoName \notin Names /\ LogGroupNames \subseteq (Names \ {Empty}) \cup {NoName}
    /\ Requests \subseteq Seq([name : Names \cup {NoName}, namespace : Names \cup {NoName},
                               events : Nat])
    /\ LogEventChanSize \in Nat \ {0} /\ MaxRequests \in Nat

VARIABLES
    logGroupName,           \* config: log_group_name
    requests,               \* number of calls of ConsumeMetrics so far
    caller,                 \* where each caller is
    request,                \* the request each caller has
    target,                 \* the pusher getPusher returned to each caller
    left,                   \* log events each caller has still to add
    lock,                   \* who holds pusherMapLock
    pusherMap,              \* groupStreamToPusherMap (0: no pusher)
    groupOf,                \* the log group of each pusher
    port,                   \* each pusher
    pusherWG,               \* the counter of pusherWG
    shutdown,               \* where Shutdown is
    awaited                 \* history: number of pushers when Wait was called

callerVars == <<requests, caller, request, target, left>>
pusherVars == <<groupOf, port, pusherWG>>
shutdownVars == <<shutdown, awaited>>
vars == <<logGroupName, callerVars, lock, pusherMap, pusherVars, shutdownVars>>

Pushers == DOMAIN groupOf

-----------------------------------------------------------------------------
(* Translation, as far as the log group depends on it. *)

Given(n) == IF n = NoName THEN <<>> ELSE <<n>>

(* The namespace of a resource's metrics: service.namespace/service.name,  *)
(* or the one there is, or default.  A name may be "": <<"a", "">> is "a/",*)
(* and <<"">> is empty.                                                    *)
Namespace(resource) ==
    LET names == Given(resource.namespace) \o Given(resource.name)
    IN  IF names = <<>> THEN <<"default">> ELSE names

(* The log group of a resource; an empty namespace does not override the   *)
(* default.                                                                *)
ServiceGroup(resource) ==
    IF Namespace(resource) = <<Empty>> THEN <<"default">> ELSE Namespace(resource)

(* Mutant of Speaking: a resource without metrics counts too.              *)
SpeakingAll(req) == DOMAIN req

(* The resources that set the namespace of the request. *)
Speaking(req) == {i \in DOMAIN req : req[i].events > 0}

(* log_group_name if set, else the group of the last resource that has     *)
(* metrics, else default.                                                  *)
LogGroup(configured, req) ==
    CASE configured # NoName -> <<configured>>
      [] configured = NoName /\ Speaking(req) # {} -> ServiceGroup(req[Max(Speaking(req))])
      [] OTHER -> <<"default">>

LogEvents(req) == UNION {{i} \X (1..req[i].events) : i \in DOMAIN req}

Groups == {LogGroup(n, req) : n \in LogGroupNames, req \in Requests}

-----------------------------------------------------------------------------

Init ==
    /\ logGroupName \in LogGroupNames
    /\ requests = 0
    /\ caller = [c \in Callers |-> "idle"]
    /\ request = [c \in Callers |-> <<>>]
    /\ target = [c \in Callers |-> 0]
    /\ left = [c \in Callers |-> 0]
    /\ lock = {}
    /\ pusherMap = [g \in Groups |-> 0]
    /\ groupOf = <<>> /\ port = <<>> /\ pusherWG = 0
    /\ shutdown = "none" /\ awaited = 0

Group(c) == LogGroup(logGroupName, request[c])

Goes(c, to) == caller' = [caller EXCEPT ![c] = to]

(* A request may make no log event: getPusher is called all the same.      *)
ConsumeMetrics(c) ==
    /\ caller[c] = "idle" /\ requests < MaxRequests
    /\ requests' = requests + 1
    /\ Goes(c, "lock")
    /\ \E req \in Requests : /\ request' = [request EXCEPT ![c] = req]
                             /\ left' = [left EXCEPT ![c] = Cardinality(LogEvents(req))]
    /\ UNCHANGED <<logGroupName, target, lock, pusherMap, pusherVars, shutdownVars>>

(* Mutant of TakeLock: getPusher does not lock.                            *)
TakeNoLock(c) == UNCHANGED lock

TakeLock(c) == lock = {} /\ lock' = {c}

LockPusherMap(c) ==
    /\ caller[c] = "lock" /\ TakeLock(c)
    /\ Goes(c, "look")
    /\ UNCHANGED <<logGroupName, requests, request, target, left, pusherMap, pusherVars,
                   shutdownVars>>

(* Mutant of Unlock: the lock is kept where a pusher was found.            *)
UnlockCreated(c) == lock' = IF caller[c] = "create" THEN lock \ {c} ELSE lock

Unlock(c) == lock' = lock \ {c}

FindPusher(c) ==
    /\ caller[c] = "look" /\ pusherMap[Group(c)] # 0
    /\ target' = [target EXCEPT ![c] = pusherMap[Group(c)]]
    /\ Goes(c, "add") /\ Unlock(c)
    /\ UNCHANGED <<logGroupName, requests, request, left, pusherMap, pusherVars, shutdownVars>>

MissPusher(c) ==
    /\ caller[c] = "look" /\ pusherMap[Group(c)] = 0
    /\ Goes(c, "create")
    /\ UNCHANGED <<logGroupName, requests, request, target, left, lock, pusherMap, pusherVars,
                   shutdownVars>>

(* Mutant of StartRoutines: pusherWG is not told of the pusher.            *)
StartRoutinesUncounted == port' = Append(port, NewPort) /\ UNCHANGED pusherWG

(* startRoutines adds to pusherWG before it starts processLogEntry.        *)
StartRoutines == port' = Append(port, NewPort) /\ pusherWG' = pusherWG + 1

(* wg.Add(1) panics if Done has just brought the counter to zero and has   *)
(* not yet released the waiter.                                            *)
AddToWaitGroup ==
    \/ UNCHANGED shutdown
    \/ shutdown = "woken" /\ pusherWG = 0 /\ shutdown' = "panicked"

CreatePusher(c) ==
    /\ caller[c] = "create"
    /\ groupOf' = Append(groupOf, Group(c)) /\ StartRoutines
    /\ target' = [target EXCEPT ![c] = Len(groupOf) + 1]
    /\ pusherMap' = [pusherMap EXCEPT ![Group(c)] = Len(groupOf) + 1]
    /\ Goes(c, "add") /\ Unlock(c)
    /\ AddToWaitGroup
    /\ UNCHANGED <<logGroupName, requests, request, left, awaited>>

PortMoves(p, ports) == \E after \in ports : port' = [port EXCEPT ![p] = after]

(* A send that waits while logEventChan is full. *)
AddLogEntry(c) ==
    /\ caller[c] = "add" /\ left[c] > 0
    /\ PortMoves(target[c], AfterSend(port[target[c]], LogEventChanSize))
    /\ left' = [left EXCEPT ![c] = @ - 1]
    /\ UNCHANGED <<logGroupName, requests, caller, request, target, lock, pusherMap, groupOf,
                   pusherWG, shutdownVars>>

ConsumeReturns(c) ==
    /\ caller[c] = "add" /\ left[c] = 0
    /\ Goes(c, "idle")
    /\ request' = [request EXCEPT ![c] = <<>>] /\ target' = [target EXCEPT ![c] = 0]
    /\ UNCHANGED <<logGroupName, requests, left, lock, pusherMap, pusherVars, shutdownVars>>

-----------------------------------------------------------------------------
(* The goroutines of a pusher. *)

PusherRuns(p) ==
    /\ \/ PortMoves(p, AfterReceive(port[p]))
       \/ shutdown # "none" /\ PortMoves(p, AfterShutdown(port[p]))
    /\ UNCHANGED <<logGroupName, callerVars, lock, pusherMap, groupOf, pusherWG, shutdownVars>>

(* Mutant of Done: wg.Done() is forgotten. *)
DoneForgotten == UNCHANGED <<pusherWG, shutdown>>

(* wg.Done() wakes Wait when the counter comes to zero. *)
Done ==
    /\ pusherWG' = pusherWG - 1
    /\ shutdown' = IF shutdown = "waiting" /\ pusherWG' = 0 THEN "woken" ELSE shutdown

(* The publisher is closed; then wg.Done(). *)
PusherEnds(p) ==
    /\ PortMoves(p, AfterClose(port[p])) /\ Done
    /\ UNCHANGED <<logGroupName, callerVars, lock, pusherMap, groupOf, awaited>>

-----------------------------------------------------------------------------
(* Shutdown. *)

CloseShutdownChan ==
    /\ shutdown = "none" /\ shutdown' = "closed"
    /\ UNCHANGED <<logGroupName, callerVars, lock, pusherMap, pusherVars, awaited>>

(* Wait returns at once if the counter is zero, else it blocks. *)
Wait ==
    /\ shutdown = "closed"
    /\ shutdown' = IF pusherWG = 0 THEN "passed" ELSE "waiting"
    /\ awaited' = Len(groupOf)
    /\ UNCHANGED <<logGroupName, callerVars, lock, pusherMap, pusherVars>>

(* The woken Wait panics if the counter is no longer zero: "WaitGroup is   *)
(* reused before previous Wait has returned".                              *)
WaitEnds ==
    /\ shutdown = "woken"
    /\ shutdown' = IF pusherWG = 0 THEN "passed" ELSE "panicked"
    /\ UNCHANGED <<logGroupName, callerVars, lock, pusherMap, pusherVars, awaited>>

ShutdownReturns ==
    /\ shutdown = "passed" /\ shutdown' = "returned"
    /\ UNCHANGED <<logGroupName, callerVars, lock, pusherMap, pusherVars, awaited>>

-----------------------------------------------------------------------------

(* A panic ends the process with all its goroutines. *)
ProcessLives == shutdown # "panicked"

CallerStep(c) ==
    /\ ProcessLives
    /\ \/ LockPusherMap(c) \/ FindPusher(c) \/ MissPusher(c) \/ CreatePusher(c)
       \/ AddLogEntry(c) \/ ConsumeReturns(c)

PusherStep(p) == ProcessLives /\ p \in Pushers /\ (PusherRuns(p) \/ PusherEnds(p))

ShutdownStep == Wait \/ WaitEnds \/ ShutdownReturns

Next ==
    \/ \E c \in Callers : (ProcessLives /\ ConsumeMetrics(c)) \/ CallerStep(c)
    \/ \E p \in Pushers : PusherStep(p)
    \/ CloseShutdownChan
    \/ ShutdownStep

Spec == Init /\ [][Next]_vars

(* Go's scheduler starves no goroutine and its mutex no caller; a pusher   *)
(* that is not wedged goes on (AcceptedIsHanded and ShutdownEndsOrWedges   *)
(* in Pusher.tla); the goroutine in Shutdown goes on unless it waits.      *)
(* Nothing obliges the collector to call.                                  *)
FairSpec ==
    /\ Spec
    /\ \A c \in Callers : WF_vars(CallerStep(c))
    /\ \A p \in 1..MaxRequests : WF_vars(PusherStep(p))
    /\ WF_vars(ShutdownStep)

-----------------------------------------------------------------------------

(* The types of the state, each logEventChan within its buffer.            *)
TypeOK ==
    /\ logGroupName \in LogGroupNames
    /\ requests \in 0..MaxRequests
    /\ caller \in [Callers -> {"idle", "lock", "look", "create", "add"}]
    /\ request \in [Callers -> Requests \cup {<<>>}]
    /\ target \in [Callers -> 0..Len(groupOf)]
    /\ left \in [Callers -> Nat]
    /\ lock \subseteq Callers
    /\ pusherMap \in [Groups -> 0..Len(groupOf)]
    /\ groupOf \in Seq(Groups)
    /\ port \in Seq(Ports(LogEventChanSize)) /\ Len(port) = Len(groupOf)
    /\ pusherWG \in 0..Len(groupOf)
    /\ shutdown \in {"none", "closed", "waiting", "woken", "passed", "returned", "panicked"}
    /\ awaited \in 0..Len(groupOf)

(* Each (log group, log stream) has one pusher, since each stream has its  *)
(* own sequence of tokens, however the calls of ConsumeMetrics overlap.    *)
OnePusherPerStream ==
    \A p, q \in Pushers : groupOf[p] = groupOf[q] => p = q

(* Log events go where they belong: to the configured log group, or to the *)
(* one of their service when the request has metrics of one service only   *)
(* (metrics of several services all go where those of the last one do).    *)
EventsInTheirGroup ==
    \A c \in Callers : caller[c] = "add" =>
        \A i \in Speaking(request[c]) :
            \/ logGroupName = NoName
               /\ \E j \in DOMAIN request[c] :
                     /\ request[c][j].events > 0
                     /\ ServiceGroup(request[c][j]) # ServiceGroup(request[c][i])
            \/ groupOf[target[c]] = IF logGroupName = NoName THEN ServiceGroup(request[c][i])
                                    ELSE <<logGroupName>>

(* Shutdown returns only when processLogEntry of every pusher that existed *)
(* when it began to wait has closed its publisher and ended.  No more: a   *)
(* call of ConsumeMetrics that overlaps Shutdown may create a pusher that  *)
(* Wait does not see, and that is still at work when Shutdown returns; and *)
(* only such a pusher makes the WaitGroup panic.                           *)
ShutdownWaits ==
    /\ shutdown = "returned" => \A p \in 1..awaited : port[p].process = "done"
    /\ shutdown = "panicked" => Len(groupOf) > awaited

(* ConsumeMetrics returns, unless the exporter is shut down meanwhile: the *)
(* events of the request may then wait for ever on a pusher that ended.    *)
CallersServed ==
    \A c \in Callers :
        (caller[c] # "idle") ~> (caller[c] = "idle" \/ shutdown # "none")

(* Shutdown returns, or its WaitGroup panics, unless a pusher is wedged.   *)
ShutdownEnds ==
    (shutdown = "closed") ~>
        \/ shutdown \in {"returned", "panicked"}
        \/ \E p \in Pushers : port[p].process = "wedged"

=============================================================================
