------------------------ MODULE EmfExporterProofs ------------------------
(***************************************************************************)
(* Theorems about EmfExporter for any number of callers, any requests and  *)
(* any channel size.  The invariant says what pusherMapLock protects: its  *)
(* holder alone stands between the look-up and the entry in pusherMap, so  *)
(* that the map and the pushers name each other.                           *)
(***************************************************************************)
EXTENDS EmfExporter, FiniteSetTheorems, WellFoundedInduction, TLAPS

CallersOK ==
    \A c \in Callers :
        /\ caller[c] = "idle" => request[c] = <<>>
        /\ caller[c] # "idle" => request[c] \in Requests
        /\ caller[c] \in {"look", "create"} <=> c \in lock

LockOK == \A c, d \in lock : c = d

(* The map names pushers of the group, and every pusher is in the map.     *)
MapOK ==
    /\ \A g \in Groups : pusherMap[g] # 0 => groupOf[pusherMap[g]] = g
    /\ \A p \in 1..Len(groupOf) : pusherMap[groupOf[p]] = p

TargetsOK ==
    \A c \in Callers :
        /\ caller[c] = "create" => pusherMap[Group(c)] = 0
        /\ caller[c] = "add" => target[c] # 0 /\ groupOf[target[c]] = Group(c)

(* The pushers pusherWG counts. *)
Alive == {p \in 1..Len(groupOf) : port[p].process # "done"}

Counted == pusherWG = Cardinality(Alive)

(* From the moment Wait is woken, or returns at once, the pushers it waited*)
(* for have ended.                                                         *)
AwaitedEnded ==
    shutdown \in {"woken", "passed", "returned"} =>
        \A p \in 1..awaited : port[p].process = "done"

PanicExplained == shutdown = "panicked" => Len(groupOf) > awaited

IInv ==
    /\ TypeOK /\ CallersOK /\ LockOK /\ MapOK /\ TargetsOK
    /\ Counted /\ AwaitedEnded /\ PanicExplained

-----------------------------------------------------------------------------
(* Lemmas about requests and ports. *)

(* A set of numbers with an upper bound has a greatest one.                *)
LEMMA GreatestExists ==
    ASSUME NEW n \in Nat, NEW S \in SUBSET (1..n), S # {}
    PROVE  Max(S) \in S
  <1> DEFINE T == {n - i : i \in S}
  <1>1. T \subseteq Nat /\ T # {}
    OBVIOUS
  <1>2. PICK x \in T : \A y \in T : ~ (<<y, x>> \in OpToRel(<, Nat))
    BY <1>1, WFMin, NatLessThanWellFounded
  <1>3. PICK i \in S : x = n - i
    OBVIOUS
  <1>4. ASSUME NEW j \in S PROVE j <= i
    <2>1. n - j \in T /\ n - j \in Nat /\ x \in Nat
      BY <1>1
    <2>2. ~ (n - j < x)
      BY <1>2, <2>1 DEF OpToRel
    <2> QED
      BY <1>3, <2>2
  <1>5. \E m \in S : \A j \in S : m >= j
    BY <1>4
  <1> QED
    BY <1>5 DEF Max

(* A request makes finitely many log events. *)
LEMMA EventsFinite ==
    ASSUME NEW req \in Requests
    PROVE  Cardinality(LogEvents(req)) \in Nat
  <1>1. /\ DOMAIN req = 1..Len(req) /\ Len(req) \in Nat
        /\ \A i \in 1..Len(req) : req[i].events \in Nat
    <2> DEFINE Resources == [name : Names \cup {NoName}, namespace : Names \cup {NoName},
                             events : Nat]
    <2>1. req \in Seq(Resources)
      BY EmfExporterAssumption
    <2>2. DOMAIN req = 1..Len(req) /\ Len(req) \in Nat
      BY <2>1
    <2> HIDE DEF Resources
    <2>3. ASSUME NEW i \in 1..Len(req) PROVE req[i] \in Resources
      BY <2>1, <2>2
    <2> QED
      BY <2>2, <2>3 DEF Resources
  <1>2. IsFiniteSet(1..Len(req))
    BY <1>1, FS_Interval
  <1>3. IsFiniteSet({{i} \X (1..req[i].events) : i \in 1..Len(req)})
    <2> DEFINE eventsOf == [i \in 1..Len(req) |-> {i} \X (1..req[i].events)]
               all == {{i} \X (1..req[i].events) : i \in 1..Len(req)}
    <2>1. eventsOf \in Surjection(1..Len(req), all)
      BY DEF Surjection
    <2> QED
      BY <1>2, <2>1, FS_Surjection
  <1>4. ASSUME NEW i \in 1..Len(req) PROVE IsFiniteSet({i} \X (1..req[i].events))
    <2>1. IsFiniteSet({i})
      BY FS_Singleton
    <2>2. req[i].events \in Int
      BY <1>1
    <2>3. \A n \in Int : IsFiniteSet(1..n)
      BY FS_Interval
    <2> QED
      BY <2>1, <2>2, <2>3, FS_Product
  <1>5. IsFiniteSet(LogEvents(req))
    BY <1>1, <1>3, <1>4, FS_UNION DEF LogEvents
  <1> QED
    BY <1>5, FS_CardinalityType

LEMMA GroupType ==
    ASSUME NEW n \in LogGroupNames, NEW req \in Requests
    PROVE  LogGroup(n, req) \in Groups
  BY DEF Groups

(* No step of a port leaves its type, and only the last one ends it.       *)
LEMMA PortSteps ==
    ASSUME NEW p \in Ports(LogEventChanSize)
    PROVE  /\ NewPort \in Ports(LogEventChanSize)
           /\ \A a \in AfterSend(p, LogEventChanSize) \cup AfterReceive(p) \cup AfterShutdown(p) :
                a \in Ports(LogEventChanSize) /\ (a.process = "done" <=> p.process = "done")
           /\ \A a \in AfterClose(p) :
                /\ a \in Ports(LogEventChanSize)
                /\ p.process # "done" /\ a.process = "done"
  <1> USE EmfExporterAssumption DEF Ports
  <1>1. NewPort \in Ports(LogEventChanSize)
    BY DEF NewPort
  <1>2. ASSUME NEW a \in AfterSend(p, LogEventChanSize)
        PROVE  a \in Ports(LogEventChanSize) /\ a.process = p.process
    BY <1>2 DEF AfterSend
  <1>3. ASSUME NEW a \in AfterReceive(p)
        PROVE  a \in Ports(LogEventChanSize) /\ a.process = p.process
    BY <1>3 DEF AfterReceive
  <1>4. ASSUME NEW a \in AfterShutdown(p)
        PROVE  a \in Ports(LogEventChanSize) /\ a.process # "done" /\ p.process # "done"
    BY <1>4 DEF AfterShutdown
  <1>5. ASSUME NEW a \in AfterClose(p)
        PROVE  a \in Ports(LogEventChanSize) /\ p.process # "done" /\ a.process = "done"
    BY <1>5 DEF AfterClose
  <1> QED
    BY <1>1, <1>2, <1>3, <1>4, <1>5

(* Alive is finite, whatever the pushers do. *)
LEMMA AliveFinite ==
    ASSUME TypeOK
    PROVE  IsFiniteSet(Alive) /\ Cardinality(Alive) \in 0..Len(groupOf)
  <1>1. Len(groupOf) \in Nat
    BY DEF TypeOK
  <1>2. IsFiniteSet(1..Len(groupOf)) /\ Cardinality(1..Len(groupOf)) = Len(groupOf)
    <2>1. Cardinality(1..Len(groupOf)) = IF 1 > Len(groupOf) THEN 0 ELSE Len(groupOf) - 1 + 1
      BY <1>1, FS_Interval
    <2>2. IsFiniteSet(1..Len(groupOf))
      BY <1>1, FS_Interval
    <2> QED
      BY <1>1, <2>1, <2>2
  <1>3. Alive \in SUBSET (1..Len(groupOf))
    BY DEF Alive
  <1>4. IsFiniteSet(Alive) /\ Cardinality(Alive) <= Len(groupOf)
    BY <1>2, <1>3, FS_Subset
  <1> QED
    BY <1>1, <1>4, FS_CardinalityType

-----------------------------------------------------------------------------
(* No pusher is counted: all have ended. *)
LEMMA NoneAlive ==
    ASSUME TypeOK, Cardinality(Alive) = 0
    PROVE  \A p \in 1..Len(groupOf) : port[p].process = "done"
  <1>1. Alive = {}
    BY AliveFinite, FS_EmptySet
  <1> QED
    BY <1>1 DEF Alive

(* The invariant, action by action. *)

LEMMA InitIInv == Init => IInv
  <1> SUFFICES ASSUME Init PROVE IInv
    OBVIOUS
  <1>1. groupOf \in Seq(Groups) /\ Len(groupOf) = 0
    BY DEF Init
  <1>2. port \in Seq(Ports(LogEventChanSize)) /\ Len(port) = 0
    BY DEF Init
  <1>3. Alive = {} /\ Counted
    BY <1>1, FS_EmptySet DEF Init, Alive, Counted
  <1>4. TypeOK
    BY <1>1, <1>2, EmfExporterAssumption DEF Init, TypeOK
  <1>5. CallersOK /\ LockOK /\ TargetsOK
    BY DEF Init, CallersOK, LockOK, TargetsOK
  <1>6. MapOK
    BY <1>1 DEF Init, MapOK
  <1>7. AwaitedEnded /\ PanicExplained
    BY DEF Init, AwaitedEnded, PanicExplained
  <1> QED
    BY <1>3, <1>4, <1>5, <1>6, <1>7 DEF IInv

(* Steps of a caller that leave map and pushers alone. *)
LEMMA CallerIInv ==
    ASSUME IInv, NEW c \in Callers,
           ConsumeMetrics(c) \/ LockPusherMap(c) \/ MissPusher(c) \/ FindPusher(c)
               \/ ConsumeReturns(c)
    PROVE  IInv'
  <1> USE DEF IInv, Goes, pusherVars, shutdownVars, AwaitedEnded, PanicExplained
  <1>1. CASE ConsumeMetrics(c)
    <2>1. PICK req \in Requests : /\ request' = [request EXCEPT ![c] = req]
                                  /\ left' = [left EXCEPT ![c] = Cardinality(LogEvents(req))]
      BY <1>1 DEF ConsumeMetrics
    <2>2. TypeOK'
      <3>1. requests' \in 0..MaxRequests
        BY <1>1, EmfExporterAssumption DEF ConsumeMetrics, TypeOK
      <3>2. /\ request' \in [Callers -> Requests \cup {<<>>}]
            /\ left' \in [Callers -> Nat]
        BY <1>1, <2>1, EventsFinite DEF TypeOK
      <3>3. caller' \in [Callers -> {"idle", "lock", "look", "create", "add"}]
        BY <1>1 DEF ConsumeMetrics, TypeOK
      <3> QED
        BY <1>1, <3>1, <3>2, <3>3 DEF ConsumeMetrics, TypeOK
    <2>3. CallersOK' /\ LockOK' /\ MapOK'
      BY <1>1, <2>1 DEF ConsumeMetrics, TypeOK, CallersOK, LockOK, MapOK
    <2>4. TargetsOK'
      BY <1>1, <2>1 DEF ConsumeMetrics, TypeOK, TargetsOK, Group
    <2> QED
      BY <1>1, <2>2, <2>3, <2>4 DEF ConsumeMetrics, Counted, Alive
  <1>2. CASE LockPusherMap(c)
    <2>1. TypeOK'
      BY <1>2 DEF LockPusherMap, TakeLock, TypeOK
    <2>2. CallersOK' /\ LockOK' /\ MapOK' /\ TargetsOK'
      BY <1>2 DEF LockPusherMap, TakeLock, TypeOK, CallersOK, LockOK, MapOK, TargetsOK, Group
    <2> QED
      BY <1>2, <2>1, <2>2 DEF LockPusherMap, Counted, Alive
  <1>3. CASE MissPusher(c)
    <2>1. TypeOK'
      BY <1>3 DEF MissPusher, TypeOK
    <2>2. CallersOK' /\ LockOK' /\ MapOK' /\ TargetsOK'
      BY <1>3 DEF MissPusher, TypeOK, CallersOK, LockOK, MapOK, TargetsOK, Group
    <2> QED
      BY <1>3, <2>1, <2>2 DEF MissPusher, Counted, Alive
  <1>4. CASE FindPusher(c)
    <2>1. Group(c) \in Groups
      BY <1>4, GroupType DEF FindPusher, TypeOK, CallersOK, Group
    <2>2. TypeOK'
      BY <1>4, <2>1 DEF FindPusher, Unlock, TypeOK
    <2>3. CallersOK' /\ LockOK' /\ MapOK'
      BY <1>4 DEF FindPusher, Unlock, TypeOK, CallersOK, LockOK, MapOK
    <2>4. TargetsOK'
      BY <1>4, <2>1 DEF FindPusher, TypeOK, MapOK, TargetsOK, Group
    <2> QED
      BY <1>4, <2>2, <2>3, <2>4 DEF FindPusher, Counted, Alive
  <1>5. CASE ConsumeReturns(c)
    <2>1. TypeOK'
      BY <1>5 DEF ConsumeReturns, TypeOK
    <2>2. CallersOK' /\ LockOK' /\ MapOK' /\ TargetsOK'
      BY <1>5 DEF ConsumeReturns, TypeOK, CallersOK, LockOK, MapOK, TargetsOK, Group
    <2> QED
      BY <1>5, <2>1, <2>2 DEF ConsumeReturns, Counted, Alive
  <1> QED
    BY <1>1, <1>2, <1>3, <1>4, <1>5

(* A pusher is created for a group that has none, and enters the map in    *)
(* the same critical section.                                              *)
LEMMA CreateIInv ==
    ASSUME IInv, NEW c \in Callers, CreatePusher(c)
    PROVE  IInv'
  <1> DEFINE g == Group(c)
             n == Len(groupOf) + 1
  <1> USE DEF IInv
  <1>1. /\ g \in Groups /\ pusherMap[g] = 0 /\ n \in Nat
        /\ caller[c] = "create" /\ c \in lock /\ request[c] \in Requests
    BY GroupType DEF CreatePusher, TypeOK, CallersOK, TargetsOK, Group
  <1>2. /\ groupOf' \in Seq(Groups) /\ Len(groupOf') = n
        /\ \A p \in 1..Len(groupOf) : groupOf'[p] = groupOf[p]
        /\ groupOf'[n] = g
    BY <1>1 DEF CreatePusher, TypeOK
  <1>3. NewPort \in Ports(LogEventChanSize) /\ NewPort.process # "done"
    BY EmfExporterAssumption DEF Ports, NewPort
  <1>4. /\ port' \in Seq(Ports(LogEventChanSize)) /\ Len(port') = n
        /\ \A p \in 1..Len(groupOf) : port'[p] = port[p]
        /\ port'[n] = NewPort
    BY <1>1, <1>3 DEF CreatePusher, StartRoutines, TypeOK
  <1>5. Counted' /\ pusherWG' \in 0..n
    <2>1. Alive' = Alive \cup {n} /\ n \notin Alive
        <3>1. /\ n = Len(groupOf) + 1 /\ Len(groupOf) \in Nat
              /\ 1..Len(groupOf') = 1..Len(groupOf) \cup {n} /\ n \notin 1..Len(groupOf)
          BY <1>1, <1>2 DEF TypeOK
        <3>2. \A p \in 1..Len(groupOf) : port'[p] = port[p]
          BY <1>4
        <3>3. port'[n].process # "done"
          BY <1>3, <1>4
        <3> QED
          BY <3>1, <3>2, <3>3 DEF Alive
    <2>2. Cardinality(Alive') = Cardinality(Alive) + 1
      BY <2>1, AliveFinite, FS_AddElement
    <2>3. pusherWG' = pusherWG + 1
      BY DEF CreatePusher, StartRoutines
    <2>4. Cardinality(Alive) \in 0..Len(groupOf)
      BY AliveFinite
    <2> QED
      BY <1>1, <2>2, <2>3, <2>4 DEF Counted, TypeOK
  <1>0. /\ awaited' = awaited /\ awaited \in 0..Len(groupOf) /\ Len(groupOf) \in Nat
        /\ shutdown' = shutdown \/ (shutdown = "woken" /\ shutdown' = "panicked")
    BY DEF CreatePusher, AddToWaitGroup, TypeOK
  <1>6. TypeOK'
    <2>1. target' \in [Callers -> 0..n]
      BY <1>1 DEF CreatePusher, TypeOK
    <2>2. pusherMap' \in [Groups -> 0..n]
      BY <1>1 DEF CreatePusher, TypeOK
    <2>3. awaited' \in 0..n
          /\ shutdown' \in {"none", "closed", "waiting", "woken", "passed", "returned", "panicked"}
      BY <1>0 DEF TypeOK
    <2> QED
      BY <1>2, <1>4, <1>5, <2>1, <2>2, <2>3 DEF CreatePusher, Goes, Unlock, TypeOK
  <1>7. CallersOK' /\ LockOK'
    BY <1>1 DEF CreatePusher, Goes, Unlock, TypeOK, CallersOK, LockOK
  <1>8. MapOK'
    <2>1. pusherMap' = [pusherMap EXCEPT ![g] = n]
      BY DEF CreatePusher
    <2>2. ASSUME NEW h \in Groups, pusherMap'[h] # 0
          PROVE  groupOf'[pusherMap'[h]] = h
      <3>1. CASE h = g
        BY <1>1, <1>2, <2>1, <3>1 DEF TypeOK
      <3>2. CASE h # g
        <4>1. pusherMap'[h] = pusherMap[h] /\ pusherMap[h] \in 1..Len(groupOf)
          BY <1>1, <2>1, <2>2, <3>2 DEF TypeOK
        <4> QED
          BY <1>2, <2>2, <4>1 DEF MapOK
      <3> QED
        BY <3>1, <3>2
    <2>3. ASSUME NEW p \in 1..n
          PROVE  pusherMap'[groupOf'[p]] = p
      <3>1. CASE p = n
        BY <1>1, <1>2, <2>1, <3>1 DEF TypeOK
      <3>2. CASE p # n
        <4>0. Len(groupOf) \in Nat
          BY DEF TypeOK
        <4>1. p \in 1..Len(groupOf)
          BY <3>2, <4>0
        <4>2. groupOf[p] \in Groups /\ pusherMap[groupOf[p]] = p
          BY <4>1 DEF TypeOK, MapOK
        <4>3. groupOf[p] # g
          BY <1>1, <4>1, <4>2
        <4> QED
          BY <1>2, <2>1, <4>1, <4>2, <4>3 DEF TypeOK
      <3> QED
        BY <3>1, <3>2
    <2> QED
      BY <1>2, <2>2, <2>3 DEF MapOK
  <1>9. TargetsOK'
    <2> SUFFICES ASSUME NEW d \in Callers
                 PROVE  /\ caller'[d] = "create" => pusherMap'[Group(d)'] = 0
                        /\ caller'[d] = "add" => /\ target'[d] # 0
                                                 /\ groupOf'[target'[d]] = Group(d)'
      BY DEF TargetsOK
    <2>1. Group(d)' = Group(d)
      BY DEF CreatePusher, Group
    <2>2. CASE d = c
      BY <1>1, <1>2, <2>1, <2>2 DEF CreatePusher, Goes, TypeOK
    <2>3. CASE d # c
      <3>1. caller'[d] = caller[d] /\ target'[d] = target[d]
        BY <2>3 DEF CreatePusher, Goes, TypeOK
      <3>2. caller[d] # "create"
        BY <1>1, <2>3 DEF CallersOK, LockOK
      <3>3. caller[d] = "add" => target[d] \in 1..Len(groupOf) /\ groupOf[target[d]] = Group(d)
        BY DEF TypeOK, TargetsOK
      <3> QED
        BY <1>2, <2>1, <3>1, <3>2, <3>3
    <2> QED
      BY <2>2, <2>3
  <1>10. AwaitedEnded'
    BY <1>0, <1>4 DEF AwaitedEnded
  <1>11. PanicExplained'
    BY <1>0, <1>2 DEF PanicExplained
  <1> QED
    BY <1>5, <1>6, <1>7, <1>8, <1>9, <1>10, <1>11

(* A step of a pusher or into its channel. *)
LEMMA PortIInv ==
    ASSUME IInv, NEW p \in 1..Len(groupOf),
           NEW a \in Ports(LogEventChanSize), a.process = "done" <=> port[p].process = "done",
           port' = [port EXCEPT ![p] = a],
           UNCHANGED <<logGroupName, requests, caller, request, target, lock, pusherMap,
                       groupOf, pusherWG, shutdown, awaited>>,
           left' \in [Callers -> Nat]
    PROVE  IInv'
  <1> USE DEF IInv
  <1>1. /\ port' \in Seq(Ports(LogEventChanSize)) /\ Len(port') = Len(port)
        /\ \A q \in 1..Len(groupOf) : port'[q] = IF q = p THEN a ELSE port[q]
    BY DEF TypeOK
  <1>2. TypeOK'
    BY <1>1 DEF TypeOK
  <1>3. CallersOK' /\ LockOK' /\ MapOK' /\ TargetsOK'
    BY DEF CallersOK, LockOK, MapOK, TargetsOK, Group
  <1>4. Alive' = Alive
    BY <1>1 DEF Alive
  <1>5. AwaitedEnded' /\ PanicExplained'
    <2>1. \A q \in 1..awaited : q \in 1..Len(groupOf)
      BY DEF TypeOK
    <2> QED
      BY <1>1, <2>1 DEF AwaitedEnded, PanicExplained
  <1> QED
    BY <1>2, <1>3, <1>4, <1>5 DEF Counted

LEMMA AddLogEntryIInv ==
    ASSUME IInv, NEW c \in Callers, AddLogEntry(c)
    PROVE  IInv'
  <1> DEFINE p == target[c]
  <1>1. p \in 1..Len(groupOf) /\ port[p] \in Ports(LogEventChanSize)
    BY DEF AddLogEntry, IInv, TypeOK, TargetsOK
  <1>2. PICK a \in AfterSend(port[p], LogEventChanSize) : port' = [port EXCEPT ![p] = a]
    BY DEF AddLogEntry, PortMoves
  <1>3. a \in Ports(LogEventChanSize) /\ (a.process = "done" <=> port[p].process = "done")
    BY <1>1, PortSteps
  <1>4. left' \in [Callers -> Nat]
    BY DEF AddLogEntry, IInv, TypeOK
  <1>5. UNCHANGED <<logGroupName, requests, caller, request, target, lock, pusherMap,
                    groupOf, pusherWG, shutdown, awaited>>
    BY DEF AddLogEntry, shutdownVars
  <1> QED
    BY <1>1, <1>2, <1>3, <1>4, <1>5, PortIInv

LEMMA PusherRunsIInv ==
    ASSUME IInv, NEW p \in Pushers, PusherRuns(p)
    PROVE  IInv'
  <1>1. p \in 1..Len(groupOf) /\ port[p] \in Ports(LogEventChanSize)
    BY DEF IInv, TypeOK, Pushers
  <1>2. PICK a \in AfterReceive(port[p]) \cup AfterShutdown(port[p]) :
          port' = [port EXCEPT ![p] = a]
    BY DEF PusherRuns, PortMoves
  <1>3. a \in Ports(LogEventChanSize) /\ (a.process = "done" <=> port[p].process = "done")
    BY <1>1, PortSteps
  <1>4. left' \in [Callers -> Nat]
    BY DEF PusherRuns, callerVars, IInv, TypeOK
  <1>5. UNCHANGED <<logGroupName, requests, caller, request, target, lock, pusherMap,
                    groupOf, pusherWG, shutdown, awaited>>
    BY DEF PusherRuns, callerVars, shutdownVars
  <1> QED
    BY <1>1, <1>2, <1>3, <1>4, <1>5, PortIInv

(* A pusher ends and is no longer counted. *)
LEMMA PusherEndsIInv ==
    ASSUME IInv, NEW p \in Pushers, PusherEnds(p)
    PROVE  IInv'
  <1> USE DEF IInv
  <1>1. p \in 1..Len(groupOf) /\ port[p] \in Ports(LogEventChanSize)
    BY DEF TypeOK, Pushers
  <1>2. PICK a \in AfterClose(port[p]) : port' = [port EXCEPT ![p] = a]
    BY DEF PusherEnds, PortMoves
  <1>3. a \in Ports(LogEventChanSize) /\ port[p].process # "done" /\ a.process = "done"
    BY <1>1, PortSteps
  <1>4. /\ port' \in Seq(Ports(LogEventChanSize)) /\ Len(port') = Len(port)
        /\ \A q \in 1..Len(groupOf) : port'[q] = IF q = p THEN a ELSE port[q]
    BY <1>1, <1>2, <1>3 DEF TypeOK
  <1>5. Alive' = Alive \ {p} /\ p \in Alive
    BY <1>1, <1>3, <1>4 DEF Alive, PusherEnds
  <1>6. Counted' /\ pusherWG' \in 0..Len(groupOf)
    <2>1. Cardinality(Alive') = Cardinality(Alive) - 1 /\ IsFiniteSet(Alive')
      BY <1>5, AliveFinite, FS_RemoveElement
    <2>2. Cardinality(Alive') \in Nat /\ Cardinality(Alive) \in 0..Len(groupOf)
      BY <2>1, AliveFinite, FS_CardinalityType
    <2>3. pusherWG' = pusherWG - 1
      BY DEF PusherEnds, Done
    <2> QED
      BY <2>1, <2>2, <2>3 DEF Counted, TypeOK
  <1>7. TypeOK'
    BY <1>4, <1>6 DEF PusherEnds, Done, callerVars, TypeOK
  <1>8. CallersOK' /\ LockOK' /\ MapOK' /\ TargetsOK'
    BY DEF PusherEnds, callerVars, CallersOK, LockOK, MapOK, TargetsOK, Group
  <1>9. AwaitedEnded'
    <2>1. groupOf' = groupOf /\ awaited' = awaited /\ \A q \in 1..awaited : q \in 1..Len(groupOf)
      BY DEF PusherEnds, TypeOK
    <2>2. CASE shutdown' = shutdown
      BY <1>3, <1>4, <2>1, <2>2 DEF AwaitedEnded
    <2>3. CASE shutdown' # shutdown
      <3>1. pusherWG' = 0
        BY <2>3 DEF PusherEnds, Done
      <3>2. \A q \in 1..Len(groupOf') : port'[q].process = "done"
        <4>1. Cardinality(Alive') = 0
          BY <1>6, <3>1 DEF Counted
        <4>2. Alive' = {}
          BY <1>5, <4>1, AliveFinite, FS_EmptySet, FS_RemoveElement
        <4> QED
          BY <4>2 DEF Alive
      <3> QED
        BY <2>1, <3>2 DEF AwaitedEnded
    <2> QED
      BY <2>2, <2>3
  <1>10. PanicExplained'
    BY DEF PusherEnds, Done, PanicExplained
  <1> QED
    BY <1>6, <1>7, <1>8, <1>9, <1>10

LEMMA ShutdownIInv ==
    ASSUME IInv, CloseShutdownChan \/ ShutdownStep \/ UNCHANGED vars
    PROVE  IInv'
  <1> USE DEF IInv
  <1>1. UNCHANGED <<logGroupName, callerVars, lock, pusherMap, pusherVars>>
    BY DEF CloseShutdownChan, ShutdownStep, Wait, WaitEnds, ShutdownReturns, vars
  <1>2. /\ groupOf' = groupOf /\ port' = port /\ pusherWG' = pusherWG
        /\ Len(groupOf) \in Nat /\ awaited \in 0..Len(groupOf)
    BY <1>1 DEF pusherVars, TypeOK
  <1>3. /\ shutdown' \in {"none", "closed", "waiting", "woken", "passed", "returned", "panicked"}
        /\ awaited' \in 0..Len(groupOf)
    BY <1>2 DEF TypeOK, CloseShutdownChan, ShutdownStep, Wait, WaitEnds, ShutdownReturns, vars,
                shutdownVars
  <1>4. TypeOK'
    BY <1>1, <1>3 DEF TypeOK, callerVars, pusherVars
  <1>5. CallersOK' /\ LockOK' /\ MapOK' /\ TargetsOK' /\ Counted'
    BY <1>1 DEF callerVars, pusherVars, CallersOK, LockOK, MapOK, TargetsOK, Group, Counted, Alive
  <1>6. pusherWG = 0 => \A p \in 1..Len(groupOf) : port[p].process = "done"
    BY NoneAlive DEF Counted
  <1>7. pusherWG # 0 => \E p \in 1..Len(groupOf) : port[p].process # "done"
    <2> SUFFICES ASSUME \A p \in 1..Len(groupOf) : port[p].process = "done"
                 PROVE  pusherWG = 0
      OBVIOUS
    <2>1. Alive = {}
      BY DEF Alive
    <2> QED
      BY <2>1, FS_EmptySet DEF Counted
  <1>8. AwaitedEnded' /\ PanicExplained'
    <2>1. CASE CloseShutdownChan
      BY <2>1 DEF CloseShutdownChan, AwaitedEnded, PanicExplained
    <2>2. CASE Wait
      <3>1. /\ awaited' = Len(groupOf) /\ shutdown' # "panicked"
            /\ shutdown' \in {"woken", "passed", "returned"} => pusherWG = 0
        BY <2>2 DEF Wait
      <3> QED
        BY <1>2, <1>6, <3>1 DEF AwaitedEnded, PanicExplained
    <2>3. CASE WaitEnds
      <3>1. /\ awaited' = awaited /\ shutdown = "woken"
            /\ shutdown' = "panicked" => pusherWG # 0
        BY <2>3 DEF WaitEnds
      <3>2. \A p \in 1..awaited : port[p].process = "done"
        BY <3>1 DEF AwaitedEnded
      <3>3. shutdown' = "panicked" => Len(groupOf) > awaited
        BY <1>2, <1>7, <3>1, <3>2
      <3> QED
        BY <1>2, <3>1, <3>2, <3>3 DEF AwaitedEnded, PanicExplained
    <2>4. CASE ShutdownReturns
      BY <1>2, <2>4 DEF ShutdownReturns, AwaitedEnded, PanicExplained
    <2>5. CASE UNCHANGED vars
      BY <1>2, <2>5 DEF vars, shutdownVars, AwaitedEnded, PanicExplained
    <2> QED
      BY <2>1, <2>2, <2>3, <2>4, <2>5 DEF ShutdownStep
  <1> QED
    BY <1>4, <1>5, <1>8

-----------------------------------------------------------------------------

LEMMA NextIInv == IInv /\ [Next]_vars => IInv'
  <1> SUFFICES ASSUME IInv, [Next]_vars PROVE IInv'
    OBVIOUS
  <1>1. ASSUME NEW c \in Callers, ConsumeMetrics(c) \/ CallerStep(c) PROVE IInv'
    BY <1>1, CallerIInv, CreateIInv, AddLogEntryIInv DEF CallerStep
  <1>2. ASSUME NEW p \in Pushers, PusherStep(p) PROVE IInv'
    BY <1>2, PusherRunsIInv, PusherEndsIInv DEF PusherStep
  <1>3. CASE CloseShutdownChan \/ ShutdownStep \/ UNCHANGED vars
    BY <1>3, ShutdownIInv
  <1> QED
    BY <1>1, <1>2, <1>3 DEF Next

(* IInv is an invariant of the exporter, for every value of the constants. *)
THEOREM Invariance == Spec => []IInv
  BY InitIInv, NextIInv, PTL DEF Spec

(* The state always has its types, each channel within its buffer.         *)
THEOREM TypeCorrect == Spec => []TypeOK
  <1>1. IInv => TypeOK
    BY DEF IInv
  <1> QED
    BY Invariance, <1>1, PTL

(* However many calls of ConsumeMetrics overlap, getPusher never creates a *)
(* second pusher for a log group and stream.                               *)
THEOREM OnePusher == Spec => []OnePusherPerStream
  <1>1. IInv => OnePusherPerStream
    BY DEF IInv, TypeOK, MapOK, OnePusherPerStream, Pushers
  <1> QED
    BY Invariance, <1>1, PTL

(* Whatever the request, its log events are added to the pusher of the     *)
(* configured log group, or of their service's if they are all of one.     *)
THEOREM Grouping == Spec => []EventsInTheirGroup
  <1>1. IInv => EventsInTheirGroup
    <2> SUFFICES ASSUME IInv, NEW c \in Callers, caller[c] = "add",
                        NEW i \in Speaking(request[c])
                 PROVE  \/ /\ logGroupName = NoName
                           /\ \E j \in DOMAIN request[c] :
                                /\ request[c][j].events > 0
                                /\ ServiceGroup(request[c][j]) # ServiceGroup(request[c][i])
                        \/ groupOf[target[c]] = IF logGroupName = NoName
                                                THEN ServiceGroup(request[c][i])
                                                ELSE <<logGroupName>>
      BY DEF EventsInTheirGroup
    <2> DEFINE req == request[c]
               last == Max(Speaking(req))
    <2>1. req \in Requests /\ groupOf[target[c]] = LogGroup(logGroupName, req)
      BY DEF IInv, CallersOK, TargetsOK, Group
    <2>2. CASE logGroupName # NoName
      BY <2>1, <2>2 DEF LogGroup
    <2>3. CASE logGroupName = NoName
      <3>1. Speaking(req) \in SUBSET (1..Len(req)) /\ Len(req) \in Nat
        BY <2>1, EmfExporterAssumption DEF Speaking
      <3>2. last \in Speaking(req)
        BY <3>1, GreatestExists
      <3>3. groupOf[target[c]] = ServiceGroup(req[last])
        BY <2>1, <2>3 DEF LogGroup
      <3>4. last \in DOMAIN req /\ req[last].events > 0
        BY <3>2 DEF Speaking
      <3> QED
        BY <2>3, <3>3, <3>4
    <2> QED
      BY <2>2, <2>3
  <1> QED
    BY Invariance, <1>1, PTL

(* pusherWG counts the pushers that have not ended, so that Wait passes no *)
(* pusher it found; one that a call of getPusher adds while Wait is being  *)
(* woken is not waited for, and is the only thing that can make it panic.  *)
THEOREM Shutting == Spec => []ShutdownWaits
  <1>1. IInv => ShutdownWaits
    BY DEF IInv, AwaitedEnded, PanicExplained, ShutdownWaits
  <1> QED
    BY Invariance, <1>1, PTL

=============================================================================
