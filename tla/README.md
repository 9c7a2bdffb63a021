# A TLA+ model of the AWS OpenTelemetry Collector

The repository packages the OpenTelemetry Collector with one component of its
own that has a life at run time, the `awsemf` exporter
(`src/pkg/devexporter/awsemfexporter`), which turns metrics into log events and
sends them to CloudWatch Logs, and with a control script and a service unit that
run the collector on a host. The modules here model both: the exporter from the
call of `ConsumeMetrics` to the log stream, and the host from the command line to
the exporter's credentials. The rest is wiring of third-party components and
packaging.

    ctl start/stop/preun, systemd, main()                  Collector
         v  creates the exporter: region, credentials      Session
    ConsumeMetrics
         |  data points -> fields, dimensions, rates       Translator
         |  log group, one pusher per (group, stream)      EmfExporter (pushers: PusherPort)
         v  logEventChan (10000 log events)
    processLogEntry: batches of log events                 Pusher, LogEventBatch
         v  pushChan (2 batches)
    push
         v  Publish
    lossy FIFO (20) -> startRouting -> publishFn           Publisher, NonBlockingFifoQueue, LossyFifo
         v  one at a time
    pushLogEventBatch -> PutLogEvents, CreateStream        LogClient
         v
    CloudWatch Logs (external)

The layers are modelled one by one. Where a layer relies on the one below, it
relies on an abstract specification that the lower one is shown to implement:
`EmfExporter` is built from `PusherPort`, which `Pusher` implements; the pusher may
take its publisher for a `LossyFifo`, which `Publisher` implements. Liveness is
handed up in the same way, on one condition nothing in the code secures. If no call
of the service hangs, `publishFn` returns (`EveryPushEnds` of `LogClient`), and then
the publisher serves its requests (`RequestsServed`). A call that hangs holds the
publisher's only permit for ever, and no later request of that pusher is published:
the session has no HTTP client with a timeout (conn.go:152-157). Shutdown does not
depend on it: `Close()` has timeouts of its own (`CloseReturns`), so a pusher ends
unless it is wedged (`ShutdownEndsOrWedges`), so `Shutdown` ends (`ShutdownEnds`).

## Inventory

| Part | State | Operations | Interacts with | Hard behaviour | What makes it correct |
| --- | --- | --- | --- | --- | --- |
| `emf_exporter.go` | map of pushers, its mutex, `shutdownChan`, `pusherWG` | `ConsumeMetrics`, `pushMetricsData`, `getPusher`, `Shutdown` | called by the pipeline's goroutines; calls the translator, creates pushers, sends into `logEventChan` | overlapping calls for a new stream; calls during shutdown; a full channel; requests of several services | one pusher per stream; events in the group of their service; Shutdown waits for the pushers there are; callers are not stuck while the exporter is open |
| `translator/metric_translator.go`, `mapWithExpiry` | `currentState`: last point of every key | building of fields and dimensions, `calculateRate`, `Get`, `Set`, `CleanUp` (never called) | called in the goroutine of `ConsumeMetrics`, shared by all exporters | read-compute-write without a lock around it; what goes into a key | a rate is the slope between two points of one key; no increase twice; the roll-ups |
| `pusher.go`, batching | current batch, `curLineTruncated`, `lastAccurateTimestamp`, two channels, ticker | `AddLogEntry`, `processLogEntry`, `push`, `addLogEvent`, `newLogEventBatchIfNeeded` | gives batches to the publisher | sends that block, ticks, shutdown seen by two goroutines | requests within the service's limits; no event lost, doubled or overtaken; bounded waiting |
| `publisher/publisher.go` | `closed`, semaphore, wait group | `Publish`, `startRouting`, `Close` | calls `publishFn` in a goroutine per request | drain and close race, timeouts, permits | order, at most once, nothing after a complete Close |
| `publisher/nonblockingfifoqueue.go` | a list, `maxSize` | `Enqueue`, `Dequeue` | between pusher and routing goroutine | eviction when full | only the oldest is evicted |
| `pusher.go`, `pushLogEventBatch`; `cwlog_client.go` | `streamToken` | `PutLogEvents`, `CreateStream`, `callFuncWithRetries` | the service | lost answers, late requests, calls that hang, retries, missing or deleted streams | batches in order, and once; tokens stay current; a batch is given up only for cause |
| `conn.go` | none kept | `GetAWSConfigSession`, choice of region and credentials | AWS SDK, STS, instance metadata | order of fall-backs, disabled endpoints, no network yet | a region is found; a configured role is used |
| `config.go`, `factory.go`, `handler/` | none | defaults, `CreateMetricsExporter`, a header | - | - | - |
| `cmd/awscollector` | the process | load the configuration, run | service framework | a fatal end at any step | it comes up if it can |
| `tools/ctl/linux`, service unit | `config.yaml`, enablement, systemd's state of the unit | start, stop, status, preun | systemd, the process | commands that fail half-way, restarts, boots | what runs is what is configured; stopped stays stopped |
| `tools/ctl/windows`, `pkg/logger`, `pkg/defaultcomponents`, packaging, CI | service / files | - | - | - | - |

## Modules

**`NonBlockingFifoQueue`** gives `Enqueue`, `DequeueValue` and `DequeueRest` as
operators on a sequence. Both Go methods hold the queue's mutex throughout, so
an operator in one atomic step is exact.

**`Publisher`** has one variable for the position of each actor. `router`
is where `startRouting` stands: `dequeue`, `check` (the queue was empty,
`isClosed` not yet read), `acquire`, `waiting` in the semaphore, `spawn`, `done`.
`spawned` and `running` are goroutines before and inside `publishFn`; `closer` is
where `Close()` stands. `permits` and `waiters` are the weighted semaphore, an
external library, modelled as it is used: a FIFO of waiters, `Release` wakes the
first if it then has all it asked for, and a waiter whose context expires leaves
without waking anybody. The 50 ms sleep of the router is left out (it is only a
delay before the next `dequeue`). Requests are numbered in the order of
`Publish`. The model takes any number of permits; the program always asks for
one (pusher.go:183).

**`LossyFifo`** is what the rest of the exporter may assume of a publisher with
one permit: deliveries are of values offered, in increasing order, none after a
stop. `Publisher` implements it under the mapping in `Abstract`.

**`LogEventBatch`** holds the pure part of `pusher.go`: sizes, truncation, the
24-hour window, when a batch is expired, full or does not fit. A message is its
length. The limits are constants; `LimitsAssumption` says what the code's
values satisfy.

**`Pusher`** is the two goroutines of a pusher. `processLogEntry` is split where
it can block: an event that needs a new batch first parks in `pending` (process
= `send`) until the send on `pushChan` succeeds, and then begins the new batch.
`added` and `accepted` are histories. `now` is the clock and `tick` the
ticker's one-slot channel. The exporter itself always sets `multiLineStart`
(emf_exporter.go:188), so the truncation logic is checked for the pusher's
whole interface, not only for what this exporter feeds it.

**`PusherPort`** is a pusher as its exporter sees it: how many log events wait in
`logEventChan`, and whether `processLogEntry` runs, is closing its publisher, is
wedged in a send nobody will receive, or has ended. Each operator gives the ports
one step can make of a port. `Pusher` implements it (`ImplementsPusherPort`), and
`EmfExporter` has one port for each pusher.

**`EmfExporter`** is `ConsumeMetrics`, the map of pushers and shutdown. A request
is a sequence of resources, each with the service name and namespace its
attributes give and the number of log events its metrics make; `LogGroup` is the
group the request goes to. `getPusher` takes its steps one by one (lock, look up,
create, unlock), so that callers overlap as they can. An attribute may be missing
or the empty string, which is not the same: `Namespace` keeps an empty name as a part
of its own ("a/" is not "a"), and `ServiceGroup` falls back to the default group when
the whole namespace is empty, as pushMetricsData does (emf_exporter.go:82).
`Shutdown` closes the channel, calls `Wait`, which returns at once or blocks,
is woken by the `Done` that brings the counter to zero, and returns. These
are separate steps, as in the `sync.WaitGroup` of Go 1.14: a `getPusher` between
them may call `wg.Add(1)` (pusher.go:212). Before the counter is zero that prolongs
the wait; after it, until `Wait` returns, the WaitGroup may panic ("WaitGroup is reused
before previous Wait has returned", or "misuse"), which ends the process
(`panicked`); later still, `Shutdown` returns with the new pusher at work.
`awaited` remembers how many pushers there were when `Wait` was called.

**`Translator`** turns data points into metrics. `Key` is the string the code hashes:
the fields in the order of their names (`FieldNames`), each as what `Written` says -
name and value of a label and of the library, the name alone of an integer
metric, nothing for a double - one after the other with nothing in between. A
metric named as a label or as OTLib replaces that field. Different series can
therefore have one key: `{a: "x", b: "y"}` and `{a: "xby"}`, two doubles with the same
labels, a double with a label `{m: ""}` and the integer metric `m`. In the last case
the type assertion on the stored value panics (metric_translator.go:344, 349) and the
process ends (`TypeAssertionFails`); the model takes nobody to recover. SHA-1 is
taken to be injective. `Dimensions` are the roll-ups. `calculateRate` runs in several
goroutines at once, in the steps its locks allow: read the clock, `Get`, then `Set`.
A rate is kept as its two terms, change and time.

**`LogClient`** is `pushLogEventBatch` with the client it calls. It is
sequential (the publisher has one permit), but its environment is not: a failed
call may have had no effect, its effect, or its effect later
(`DelayedRequestArrives`), a call may never return (`CallHangs`), and the stream may be
deleted. The service's rules
(`Accepts`, `AlreadyAccepted`, `WrongToken`) are external and are those the error
cases of `PutLogEvents` expect.

**`Session`** holds operators on a configuration, a host and STS's first answer:
which region `GetAWSConfigSession` chooses, whether it returns an error, and the
credentials of the session it returns.

**`Collector`** runs the control script command by command (`ctl` is the next
one), with systemd's state of the unit (`unit`), the process (`process`) and what
it got from `Session` when it created its exporter. `cp` empties `config.yaml` before it
writes it (`Torn`). A command may fail, which ends the script (`set -e`); the
process may crash; the host may boot at any moment, with its network down at
first. systemd is external and does what the unit file asks of it:
`Restart=on-failure`, `Type=simple`, `WantedBy=multi-user.target`.

`MCPublisher`, `MCPusher`, `MCEmfExporter`, `MCTranslator` and `MCCollector` hold
the values for TLC and the claims of comments that the code does not keep; `LogClient`
needs none. `PublisherProofs`, `PusherProofs`, `PusherLineProofs`, `PusherFlowProofs`,
`LogClientProofs`, `EmfExporterProofs`, `TranslatorProofs` and `CollectorProofs` hold
the theorems.
Operators introduced as a mutant of a definition are plausible bugs; put in its
place, each makes the property PROJECT.json names for it fail.

## Runs

| Run | What it asks | Bounds |
| --- | --- | --- |
| `Publisher` | order, accounting, eviction, the refinement of `LossyFifo`; Close returns though calls hang; requests are served if they do not | 1 permit, queue of 2, 5 requests: enough to fill the queue, hold one request in the router, one in flight and still evict |
| `PublisherDrainClaim` | "the queue has drained" (publisher.go:95) | violated |
| `PublisherNoOpClaim` | "subsequent calling Publish will be a no-op" (publisher.go:20) | violated |
| `PusherBatches` | truncated lines, timestamps, request limits, byte total, order, the refinement of `PusherPort` | 3 events of 12 kinds: short and too long, with and without a timestamp, starting a line or not, empty, too old, too new, more than a day apart on both sides; requests of 2 events or 8 bytes; channels of one element |
| `PusherTimed` | how long events wait; how shutdown ends | 4 events in 9 units, interval 2 |
| `PusherShutdownClaim` | "Shutdown stops the exporter" (emf_exporter.go:130) | violated, with the code's pushChan of 2 |
| `LogClient` | stored order, tokens, retries | 3 batches, 5 attempts each, 2 of each call inside CreateStream, one deletion; calls may fail for ever, the count of failures saturates at 4, or hang |
| `EmfExporter` | log groups, pushers, callers and shutdown | 2 callers, 3 requests of up to 2 resources and 2 events, with missing and empty names, log_group_name set and not, channel of 1 |
| `Translator` | slopes and increases under overlapping calls; roll-ups | 2 callers, 5 metrics of all kinds (three write one key, of which one is of another kind; one has the name of a label and a label OTLib), 3 points in 5 units, smallest gap 1 |
| `RateKeyClaim` | "metric + dimension key/value pairs" (metric_translator.go:316) | violated |
| `Collector` | the configuration that runs, stops that hold, roles, coming up | 3 calls of the script, 2 failures, 4 configurations, 2 hosts, 7 regions in 4 partitions |
| `CtlStopClaim` | "stop the agent process" (aws-opentelemetry-collector-ctl:46) | violated |

Deadlock is not checked: the bounds on requests, time and events make every model
stop. The bounds are small where a further element is like the ones before it
(what matters of a channel is that it fills), and the safety properties are
proved without them, see below.

What the violated claims show:

- `PublisherDrainClaim`: the router finds the queue empty, a request is
  published, Close sets `closed`, the router reads it and ends; the request stays.
- `PublisherNoOpClaim`: `Publish` does not read `closed`. A request that arrives after
  `Close()` was called is queued, and a router that still drains the queue
  publishes it; if the router has ended it stays. It happens in the pusher: `push`
  calls `Publish`, `processLogEntry` calls `Close()`, and each sees the shutdown
  signal when it does. What does hold is `EveryRequestAccountedFor`, which counts such
  requests like the others, and `QuietAfterClose`: once `Close()` has the permits,
  nothing is published, whenever it was queued.
- `PusherShutdownClaim`: `push` takes the shutdown signal first; `processLogEntry`
  keeps receiving events, fills `pushChan` and blocks in its send for ever, so
  that `pusherWG.Wait()` never returns. `ShutdownEndsOrWedges` shows it is
  the only way shutdown of a pusher can fail to end.
- `RateKeyClaim`: the name of a double-valued metric is not part of its key, so
  two of them with the same dimensions take rates from each other's values. The
  same claim fails for labels whose names and values run together alike.
- `CtlStopClaim`: while the unit waits for its automatic restart `is-active`
  fails, the script takes the collector for stopped and does nothing; 60 s after
  the failure systemd starts it again.

Properties that are weaker than one might expect, because the code is:

- `FlushedWithinTwoIntervals`: config.go:48 describes `force_flush_interval` as
  the most an event remains in the buffer; the tick that finds a batch exactly one
  interval old does not flush it.
- `NoIncreaseReportedTwice` holds only for keys no two calls held at once:
  overlapping calls can store the older point last.
- `StoredInOrder` allows a batch to be stored twice, next to itself, after a
  stream was deleted. The first request for a batch, without a token, is delayed; the stream
  and its token come and go, the client sends the batch again, and the new stream,
  which expects no token, takes the late request as well as the retry. It takes
  five attempts; the default of `max_retries` is 2 (factory.go:50), which makes
  three, but 0 is taken for 5 (pusher.go:178), which makes six.
- `EventsInTheirGroup` promises nothing for a request with metrics of several
  services: all its events go to the group of the last one (emf_exporter.go:158).
- `RatesAreSlopes` promises a point of the same key and kind, no more: series whose
  fields write the same string share an entry, and so do those of different services,
  since the namespace is no field.
- `RollupsListed` lets the roll-up of an only label be listed twice, and that of a
  label named OTLib.
- `ShutdownWaits` is about the pushers that existed when `Shutdown` began to wait. One
  created later may be at work when it returns, or make the WaitGroup panic: whether
  calls of `ConsumeMetrics` overlap `Shutdown` is up to the service framework, and
  nothing in the exporter checks it.
- `EveryPushEnds` excepts a call that never returns.
- `StopHolds` excepts a stop that met a pending restart (`CtlStopClaim`), and
  `RunsCurrentConfig` a script one of whose commands failed: between the copy and the
  restart it leaves the old process with a configuration that is no longer on disk.
- `RoleIsUsed` is about the partitions the code knows. In another one, when STS
  says that the region is disabled, credentials are nil and the session quietly
  uses the default ones (conn.go:202).

Differences between code and documentation seen on the way, with no run of
their own because they are visible in one place: `local_mode` "to skip EC2
instance metadata check" (config.go:38) makes the code ask the instance even
under `no_verify_ssl` (conn.go:128); `MinTimeDiff` is said to be in microseconds
(metric_translator.go:17) and compared with milliseconds; a summary point without
percentiles panics (metric_translator.go:285).
`request_timeout_seconds`, "Number of seconds before timing out a request"
(config.go:32), and `proxy_address` have no effect: `newHTTPClient` (conn.go:57), which
would apply a timeout, has no caller, and the session's configuration
(conn.go:152-157) sets no `HTTPClient`. `CreateStream`, "Prepare the readiness for the
log group and log stream" (cwlog_client.go:196), returns no error without a stream
when it had to create the group, because the error of `CreateLogStream` is overwritten
(cwlog_client.go:208); `CreateLogGroupSucceeds` models it, and it costs one attempt, which
`AbandonedOnlyAfterFaults` accounts for. The control script documents
`-c file:<file-path>` (aws-opentelemetry-collector-ctl:35, 51), but takes the whole
argument for a path: `[ -f file:/tmp/config.yaml ]` (line 58) fails, the file is silently
not copied, and the collector restarts with the configuration it had. In `Collector`
that is a start without a file.

## Fairness

`Publisher!FairSpec`: the routing goroutine and the goroutine in Close take a
step when they can (Go's scheduler is fair enough for that, and timers fire).
Nothing is assumed of `publishFn`: the timeouts of Close exist for the case that
it hangs. `RequestsServed` has its return (`PublishFnReturns`) for an antecedent.
Retries are bounded (`EveryPushEnds`), so it holds as long as every call of the
service returns; no timeout of the code makes a call return, so it is a condition of
the property and not a fact about the program. `Pusher!FairSpec` lets time pass only when the
goroutines are idle (`Idle`): flush intervals are seconds, steps are microseconds.
The run about batches uses `Spec`, without either assumption.
`LogClient!FairSpec`: the client takes its next step, where to hang for ever in a call
is one of the steps it may take; no call is assumed to return.
`EmfExporter!FairSpec`: callers and pushers run when they can, the mutex starves
nobody, and the goroutine in Shutdown goes on when Wait does not block it. `Collector!FairSpec`: commands
return, systemd ends a process it was told to stop and restarts one that
failed, the network comes up. No environment is obliged to call anything.

## Proofs

Each proof module proves `Spec => []IInv` (`Invariance`) for an inductive invariant
`IInv`, one lemma per action or group of actions, and derives its theorems from
it. Every theorem holds for all values of the constants that satisfy the
assumptions of the module it is about.

`PublisherProofs`, from `MaxSizeAssumption`, `ConcurrencyAssumption` and
`MaxRequestsAssumption`:

- `TypeCorrect`, `Permits`, `Order`, `NewestKept`, `Accounting`, `Quiet`: the
  invariants `TypeOK`, `PermitsAccountedFor`, `PublishedInOrder`,
  `NewestNeverDropped`, `EveryRequestAccountedFor` and the action property
  `QuietAfterClose`;
- `Refinement`: with `Concurrency = 1`, `Spec` implies `LossyFifo`'s `Spec`.

Neither order nor permits is inductive alone. `IInv`
ties the parts together: the queue holds exactly the newest of the numbers
enqueued so far, consecutively (`QueueIsSuffix`); whatever the router holds, has
spawned or has published is older than all of the queue, and the request in hand
is newer than the spawned and the published ones (`TakenBelowQueue`); a spawned
request is not yet published and a running one is (`SpawnedNotYetPublished`); who
stands in `waiters` is blocked, and stands there once (`WaitersAreBlocked`); the
permits left are those no goroutine owns; and with one permit the published
numbers increase and lie below the spawned one (`PublishedBelowSpawned`).

`PusherProofs`, from `LimitsAssumption` and `PusherAssumption`:

- `TypeCorrect`: `TypeOK`;
- `Limits`: `RequestsWithinLimits`. `IInv` says that the batch
  being built holds no more events and bytes than a request may, that its
  minimum and maximum bound the timestamps of its events and lie at most a day
  apart (both are zero only while it is empty, because every accepted timestamp
  is positive), that a batch about to be sent is not empty, that events accepted
  and not yet added are themselves within the limits, and that the batches in
  `pushChan` and those handed over already are;
- `PortRefinement`: a pusher implements `PusherPort`. `processLogEntry` is mapped
  to `wedged` when it is in a send on a full channel whose receiver has left.

`PusherLineProofs`, on top of it:

- `LineEnds`, `Timestamps`: `TruncatedLineEnds`, `TimestampsFilledIn`. The two
  properties look back at every event ever added, `processLogEntry` only at two
  variables. `LineInv` says what these stand for: the events not yet received are
  the last ones added (`ChanIsSuffix`), `curLineTruncated` is true exactly when
  some event since the start of the current line was too long (`LineOK`), and
  `lastAccurateTimestamp` is that of the latest event that counts (`StampOK`). What
  is true of an event depends only on those added up to it, so later ones cannot
  change it (`EventStable`).

`PusherFlowProofs`, on top of both:

- `ByteTotals`, `InOrder`: `ByteTotalIsSum`, `AcceptedInOrder`. `FlowInv` says that
  the ids in the batches, one after the other, are those of the accepted events
  but for the one that waits (`PlacedOK`), that an event waits only in a send
  (`WaitsToSend`), and that ids increase, since they are received in the order they
  were added (`IncreasingOK`, from `ChanIsSuffix`);
- `FlushedInTime`: `PromptSpec => []FlushedWithinTwoIntervals`. `TimedOK` follows an
  event from tick to tick: no event is older than its batch (`YoungerThanBatch`);
  those a tick left in the batch were accepted at most one interval before it
  (`KeptByTick`), so that before the next tick they are less than two old; the one
  that waits, waits for no time (`WaitsForNoTime`). When the clock moves, everything
  accepted is handed over or in the current batch (`IdleWaits`), which is where
  promptness is needed, and `WeightOK`, an accepted event is not empty, is what
  keeps `IsExpired` from taking a batch with events for an empty one.

Both rest on what recursion computes: `PayloadBytes`, the size of a sequence of
events, and `FlattenSeq`, the ids of a sequence of batches. An induction theorem whose
hypothesis is an operator cannot be used here, one about sets can: `InductionOnSet`
is the least number not in a set (`WFMin` and the well-foundedness of `<`). With it,
the recursive function exists (`SumsExists`, `JoinsExists`), two of them agree where
their arguments do (`SumsAgree`, `JoinsAgree`), and so an element more adds what it
should (`PayloadBytesAppend`, `FlattenSeqAppend`).

`LogClientProofs`, from `LogClientAssumption`:

- `TypeCorrect`, `Order`, `NothingFeigned`, `Persistence`, `Token`: the invariants
  `TypeOK`, `StoredInOrder`, `SentWasStored`, `AbandonedOnlyAfterFaults` and
  `TokenIsCurrent`;
- `BoundedPush`, `Progress`: the safety half of `EveryPushEnds`. `Remaining` counts
  the answers a push still waits for: for each attempt left one request and one
  `CreateStream` of `DefaultRetryCount + 1` rounds of two requests. It starts below
  `(RetryCnt + 2) * (2 * DefaultRetryCount + 3)`, every answer lowers it, and no late
  request or deletion raises it. TLC adds that an answer comes or the call hangs.

What can arrive late is the difficulty. With or without deletions, `LastIsNewest`
says that no request that could still be accepted is of an older batch than the
last one stored. While there is one stream, tokens only grow, and no request
carries one newer than the client knows (`TokensGrow`); a request with the current
token is of a batch newer than the last one stored, and a stored batch is asked
for again only with the token it was stored with (`NewerThanLast`), which is what
makes the service say "already accepted" instead of storing it. For
`Persistence`, `AttemptsCounted` bounds the attempts by the failed calls: beyond
those, one may go to creating the stream and one to learning the token, after
which the next attempt must succeed unless a call fails (`Fresh`).

`EmfExporterProofs`, from `EmfExporterAssumption`:

- `TypeCorrect`, `OnePusher`, `Grouping`: the invariants `TypeOK`,
  `OnePusherPerStream`, `EventsInTheirGroup`; `Shutting`: `ShutdownWaits`.

The invariant says what the mutex protects: only its holder is between looking up
and creating, there is at most one, the map and the pushers name each other
(`MapOK`), a caller about to create has found nothing (`TargetsOK`), and `pusherWG`
is the number of pushers that have not ended (`Counted`). When `Done` brings it to
zero every pusher there is has ended, and those `Wait` was called for stay so
(`AwaitedEnded`), whatever is created afterwards; a panic needs a counter that rose
again, hence a pusher that did not exist when `Wait` was called (`PanicExplained`).

`TranslatorProofs`, from `TranslatorAssumption`:

- `TypeCorrect`, `Slopes`: `TypeOK`, `RatesAreSlopes`. What is in the map under a
  key, and what a caller got from it, however old by then, is a point emitted
  before under that key (`StateOK`, `CallersOK`), be it of another series; the assertion
  on its kind stands before every rate (`KeepsKind`). The theorem holds for any metrics
  and any collisions of their keys;
- `Increases`: `NoIncreaseReportedTwice`. For a key no two calls held at once,
  `AloneOK` says that its entry in the map is no older than any point a rate was
  emitted for, and that the call that holds it measures from that entry;
- `Rollups`: `RollupsListed`. `SetToSeq` of the labels, of which there are finitely
  many, has each of them once (`SetToSeqOnce`), so the lists are all labels, none, and
  each one, in this order (`DimensionsInOrder`), the same ones if OTLib is a label.

`CollectorProofs`, from `SessionAssumption` and `CollectorAssumption`:

- `TypeCorrect`, `Currency`, `StoppedStays`, `Role`: `TypeOK`, `RunsCurrentConfig`,
  `StopHolds`, `RoleIsUsed`. A property of the moments between scripts becomes
  inductive by saying what holds at each command: from which command on the
  process must already work with the file (`CurrentOK`), from which on the unit
  must be stopped (`StopOK`), and where a running process got its credentials (`CredentialsOK`).

Every safety property the runs check is proved. Only model-checked is what needs
fairness (`CloseReturns`, `RequestsServed`, `AcceptedIsHanded`, `ShutdownEndsOrWedges`,
`EveryPushEnds`, `CallersServed`, `ShutdownEnds`, `ComesUp`), since the provers have no
liveness; of `EveryPushEnds` all but the fairness is proved (`Progress`).

## Not modelled

- the order of events inside a request (`sortLogEvents`), sizes in bytes of
  UTF-8 text, JSON, the wording of logs;
- backoff times and the 200 ms pause of `pushLogEventBatch`: delays without a
  property;
- rejected-event reports of PutLogEvents: they are only logged;
- a second writer to the same log stream;
- the truncated quotient of integer rates (the definition of integer division)
  and the values of summaries, which are passed on as they are;
- `CleanUp`: nothing calls it;
- the header handler, the list of components and the logger: no state whose
  steps could go wrong;
- `status` of the control script, which only reads, and its upstart branch, which
  has the shape of the systemd one; the Windows script and service wrapper;
  packaging, release and CI;
- two scripts at once, and a second `Shutdown`, which would panic on the closed
  channel: the collector calls it once.

## Plan

Done: the exporter's layers, the session, the control script with systemd and
the process; the two refinements that connect the layers; safety of all of
them proved.

What a continuation would take up:

1. One specification end to end, from `AddLogEntry` to the stream, with `LossyFifo`
   and `LogClient` composed, stating that a stream holds accepted events in order.
2. The Windows control script on the model of `Collector`.
