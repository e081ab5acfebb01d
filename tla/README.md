# Servermore in TLA+

Servermore is a small function-as-a-service platform: clients upload a Go
binary to the **Commander** and invoke it through the **Gateway**; **Runners**
download binaries and run them as guest processes.  This directory models the
parts in which goroutines, calls between processes, timeouts and crashes
interleave, checks them with TLC on small instances, and proves the central
properties with TLAPS for instances of any size.

Source paths below are relative to `src/`.

## 1. Inventory

| Part | State | Operations | Interacts with |
|---|---|---|---|
| Instance on a runner (`pkg/runner/instances.go`, `grpc.go`) | queue, `opened` flag, shutdown timer, entry in `instanceStates`, worker goroutine | `InvokeFunctionInstance`, `instanceWorker`, `shutdownAfterTime`, `StopInstance`, `QueueDepths` | Gateway calls, guest, heartbeat |
| Preparation (`pkg/runner/grpc.go`, `instances.go`) | function file, temporary files, `downloads`, `startingInstances`, `MultiConsumer`s | `PrepareFunctionInstance`, `downloadFunction`, `startInstance`, `Submit` | Commander calls, download endpoint, guest |
| Routing cache (`pkg/caching`) | seven maps over functions, instances and runners | `SetInstance`, `UpsertRunnerHeartbeat`, `RemoveRunner`, reads | router, polling, preparation |
| Router (`pkg/routing`) | none | `Route`, `pickHealthyInstance`, `pickLeastLoadedRunner` | cache |
| Commander service (`pkg/commander/service.go`) | table of runners, table of functions, cache | `RegisterRunner`, `PollRunnerHeartbeats`, `evictRunner`, `RouteFunction`, `prepareInstance` | runners, gateways |
| Function store (`pkg/commander/handlers.go`, `func_storage.go`, `db.go`, `pkg/server/files.go`) | files, rows of the functions table | `CreateFunction`, `DownloadFunctionBinary`, `WithRetry`, shutdown | clients, runners |
| Gateway (`pkg/gateway`) | table of runner connections | `processFunctionRequest`, `runnerConn`, `Run`, `Close` | Commander, runners |
| Runtime and guest (`pkg/runner/runtime.go`, `pkg/guest`) | guest process, port | `Start`, `Invoke`, `Stop`; the guest's `start` | worker, preparation, other processes |
| Tester: request loop (`servermore-tester/worker.go`) | settings, enabled, requests in flight | `runWorkerLoop`, setters, `Stop` | Gateway, user |
| Tester: user interface (`servermore-tester/model.go`, `setup.go`, `deploy.go`) | phase, deployments, form, Docker containers | `Update`, `handleKey`, commands, `Shutdown` | Docker, Commander, user |

What is hard here, and where a test hardly reaches:

- the `opened` flag is tested, set and cleared by calls, worker and shutdown
  without a lock; two assertions depend on it and on the timer;
- the shutdown of an instance races the calls that have already looked it up;
- calls share downloads and starts through maps and broadcasts that change in
  separate steps, while owners fail, are cancelled or crash;
- the cache's maps must change together, through late heartbeats, evictions
  and preparations that end after them;
- whatever `Route` has read, and whatever a heartbeat reports, may be out of
  date when it is used; evictions, restarts and late answers come in between;
- uploads check, write and insert in separate steps, over files that other
  uploads write and downloads read;
- a port is free when `FreePort` looks and perhaps not when the guest binds it;
- every process has a shutdown that races with the work it interrupts.

`PROJECT.json` lists every hazard with its line and the properties about it.
Where the code has the behaviour and a property names it as its exception, a
note says so.

## 2. Modules

| Module | Models | Runs |
|---|---|---|
| `InstanceWorker` | one instance, its calls, worker, shutdown, heartbeat, time | `InstanceWorker`, `InstanceWorker_AddToQueueAssertions` |
| `SerialQueue` | the abstract promise of an instance | refined by `InstanceWorker` |
| `PrepareInstance` | concurrent `PrepareFunctionInstance` calls for one function | `PrepareInstance` |
| `MultiConsumer` | the broadcast of a result (two copies in `PrepareInstance`) | with `PrepareInstance` |
| `RoutingCache` | `InMemoryCache` | with `Commander` |
| `Commander` | registration, polling, routing, preparation, Gateway, crashes, over `RoutingCache` | `Commander_safety`, `Commander_liveness`, `Commander_WarmInstanceUsed` |
| `FunctionStore` | uploads, downloads, database retries, shutdown and crash of the Commander | `FunctionStore`, `FunctionStore_CreatedIsStored` |
| `FunctionCatalog` | the abstract promise of the function store | refined by `FunctionStore` |
| `Gateway` | requests, runner connections, `Run` | `Gateway` |
| `NativeRuntime` | runtimes, guest processes, ports | `NativeRuntime` |
| `TesterWorker` | the request loop of one deployment | `TesterWorker` |
| `Tester` | the tester's user interface, its commands and its end | `Tester` |
| `MCCommander` | symmetry sets and the bound of the safety run for TLC | the `Commander_*` runs |
| `*Proofs` (eight modules) | theorems about the module they are named after; those about `RoutingCache` are in `CommanderProofs` | – |

Definitions whose comment starts with *Mutation* are variants of the action
that follows them, with a plausible bug.  No specification uses them; they
are there to show that the property named in `PROJECT.json` notices the bug.

### InstanceWorker

`pc[c]` is the position of a call in `InvokeFunctionInstance`: `lookup` and
`cas` are the two halves of `InstanceState`, `check`, `reset` and `enqueue`
the three statements of `AddToQueue`, `spawn` the `go r.instanceWorker`,
`wait` the final select.  `worker[w]` is the goroutine that call `w` started,
with one step per case of its select, one for the guest's answer and one for
the rendezvous on the unbuffered result channel.  `stopper` walks through the
statements of `StopInstance`.  A failed assertion and a send on a closed
channel end the process: `panic` records the cause and nothing follows.

Time is counted in ticks.  `timerLeft` stands for both the shutdown timer and
`lastUsedTimerEnd`; this assumes that `Reset` and the `time.Now()` in the
next statement fall into one tick.  `QueueDepths` reads `lastUsedTimerEnd`
without a lock; reading the value before a concurrent reset can only hide the
instance, which in the model is the heartbeat not happening.  The idle timer
of the worker may fire at any select: five seconds may pass between any two
steps.  A Go timer that expired but was not received from counts as active for
`Reset` (Go 1.23 and later), hence `timer.Reset` of the worker always succeeds
and `ResetTimer` fails exactly when `shutdownAfterTime` has received.

### PrepareInstance

One path of the runner's file system.  Every `sync.Map`, mutex and file
system operation is a step.  Errors of `os.Stat`, the HTTP request, the copy,
the rename, `uuid.NewV7` and the guest's start are alternatives of the step
they belong to.  After an error of the copy or the rename `server.DeleteFile`
is part of the step; it may fail, which is only logged, and then the temporary
file stays.  `Crash` empties the maps and keeps the files.

### RoutingCache

One variable per map; a missing key is `None`.  Each operation is one step
because the cache has one mutex.  `LeaveFunctions`, `LeaveRunners`, `Delete`
and `Recompute` are the `...Locked` helpers for a set of instances at once,
which is what the loops over them compute.  An empty inner map of
`funcInstances` is not told apart from a missing one, since no read does.
`CacheRestart` is the new cache of a Commander that starts again.

### Commander

`Commander` EXTENDS `RoutingCache` and uses its operations as parts of its
actions.  A runner is `down`, in one of the stages of its registration, or
`up`; an instance goes from `fresh` through `running` and `ending` (its
heartbeats do not report it any more) to `gone`.  A poll is `call` until the
runner answers and `reply` until the answer is applied.  A request walks
through `Route` (`idle`, `address`, `runners`), `prepareInstance` (`function`,
`prepare`, `set`) and the Gateway's invocation (`routed`).  Database calls may
fail; a heartbeat may fail or time out although the runner is well.
`CrashCommander` keeps the database and loses the cache.

The runner's `PrepareFunctionInstance` is abstracted to `PrepareInstance(r, f)`,
which gives one new instance to any subset of the waiting calls of one
function: sharing a start, missing it and being cancelled are all covered.

### FunctionStore

A binary stands for its hash and for the id of its row; a path is a sanitized
name with a hash, so two names that `sanitizeFilename` rejects share a path.
A file is an object of its own, named by the upload whose open created it:
`os.Remove` takes the path away from a file that a download still reads, and a
later open makes a new one.  `written` holds the files with all their bytes;
`os.WriteFile` is an open that truncates (`OpenFile`) and a write that may fail
(`WriteFile`), then `DeleteFile`, which may fail too.  The bytes that two
uploads write to one path are equal, so a write that ends leaves the file
complete.  `GiveUp` stands for every way out of `WithRetry` with an error.  An
insert may be carried out and still be reported as an error, when the client
leaves at that moment.  `CloseDB` comes first in the shutdown, as in `Run`,
and `Exit` is the end of the process, orderly or not.

`overlapped` is a history variable: the paths that two uploads were saving to
at the same time.  It lets the passing properties say exactly when the code's
promise fails, and it appears in no guard.

`FunctionCatalog` is the store as a client sees it: a set of binaries that only
grows, and requests that take effect and are answered at one moment.  201 adds
a binary that was not there, 409 and a download's 200 find it there, 404 does
not; an error leaves open whether an upload took effect.  The mapping, next to
`Catalog` in `FunctionStore`, takes `stored` from the rows and the answer from
the state of the request.  That the bytes served are the whole file is not part
of the promise: `ShortOnlyIfOverlapped` says when they are.

### Gateway

A connection is named by the request that created it.  `LookupConn` and
`CreateConn` are the two critical sections of `runnerConn`.  `ShutdownReturns`
may happen with clients connected, when the five seconds are over, and
`ServerFails` ends `Run` without disconnecting anybody; `late` records this.
Until the process ends, such clients send requests (`Arrive`): a kept-alive
connection after a failure of the server, one that was accepted and not yet
read from during and after `Shutdown`.  `Close` is the deferred `h.Close`, `Exit` the end
of the process.  What the Commander and the runners do is abstracted to the
outcomes the handler tells apart.

### NativeRuntime

`bound` is the machine's table of listening ports, shared by the guests of all
runtimes and by other programs (`OtherProgram`, external).  A port that
`FreePort` returned is free again at once.  Whoever listens on it answers the
heartbeat if it is a guest, refuses it, or accepts and never answers (`mute`).
The guest's half is `GuestListens`, `GuestInterrupted`, `GuestDrained`,
`HandlerReturns` and `GuestDies`.  After `RunnerEnds` the guests go on alone.
The module is what happens inside the steps `BootInstance` of
`PrepareInstance` and `StopStopsRuntime` of `InstanceWorker`.

### TesterWorker and Tester

In `TesterWorker` each look of the loop at `enabled` or the settings is a step
(each takes the mutex anew) and the user changes them between any two.  The
control sees of `RequestsPerSecond` and `DelayBetweenBatches` only whether they
are zero.  `since` and `stale` are history variables.

`Tester` is the model that `Update` changes.  A command (a goroutine of the
framework) is idle, at work, or has its answer on the way; `Drops` are the two
early branches of `Update` in which a message gets lost.  `stack` and
`dozzles` are what Docker holds.  `StartStack` walks through `down`, `pull`,
`build` and `up`; an `up` has its effect before it returns.  The request loops
are abstracted to their end, which is the property `WorkerEnds` of
`TesterWorker`: `spins` holds for the settings that property excepts.
`ProgramEnds` is the end by a signal or an error, which skips `beginShutdown`.

## 3. Runs

Twelve runs: nine that pass, three that show a disagreement.

| Run | Bounds | Properties |
|---|---|---|
| `InstanceWorker` | 3 calls, one of which may leave, queue of 2, timeout 1, grace 1; 164 000 states | `OpenedIsLock`, `HeartbeatPromise`, refinement `SerialSpec`, `EventuallyStopped`, `WorkersEnd`, `LostOnlyInQueue` |
| `PrepareInstance` | 3 calls, one cancellable, 1 crash; 152 000 states | `SingleFlight`, `NoLostSubscriber`, `AnsweredWasSubmitted`, `FilesSound`, `EveryCallReturns` |
| `Commander_safety` | 2 functions, queue lengths 0 and 1, 2 requests, and of a second runner, a second instance and a crash at most one (`SafetyBound`); 824 000 states | `IndexesAgree`, `RequestsAreTotals`, `CacheIsTrue`, `RoutedRight`, `CachedArePolled` |
| `Commander_liveness` | 1 function, 1 instance, 1 runner, 2 requests, 1 crash; 38 000 states | `DeadRunnerForgotten`, `GoneInstanceForgotten` |
| `FunctionStore` | 2 uploads of one binary under 3 names (1 clean, 2 not), 1 download, 2 tries, 1 restart; 202 000 states | `RowHasFile`, `ShortOnlyIfOverlapped`, `OrphanHasCause`, `RequestsEnd`, refinement `CatalogSpec` |
| `Gateway` | 3 requests, 2 runners; 92 000 states | `OpenIsShared`, `OrderlyClose`, `ShutdownEnds` |
| `NativeRuntime` | 2 runtimes, 2 ports, 2 start attempts; 63 000 states | `ProcessIsHeld`, `ReadyIsOwnGuest`, `StartEnds`, `StopEnds` |
| `TesterWorker` | batches up to 3, 2 requests in flight; 16 000 states | `AtMostOneStale`, `BurstIsPaced`, `FollowsEnabled`, `WorkerEnds` |
| `Tester` | 2 functions, 2 polls, 2 Dozzle containers; 400 000 states | `TypeOK`, `CleanExit`, `DozzleAccounted`, `OneDeployment`, `CommandsResolved`, `QuitEnds` |

The type invariants (but that of `Tester`), `NoAcceptAfterRemoval` of
`InstanceWorker` and `AnswersAreTrue` of `FunctionStore`, which `CatalogSpec`
covers, are left to the proofs (section 5).
`SingleFlight`, `FilesSound`, `OrderlyClose`, `FollowsEnabled` and `CommandsResolved` are each a conjunction of two
properties defined, and commented on, just before.

Why the bounds are enough for the interesting cases.  Three calls give a
worker and two queued requests, or an owner and two followers of a download of
which one comes late.  With the timer and the grace period of equal length a
tick separates an instance that a heartbeat reports from one it hides.  Two
runners and two functions give a wrong runner and a wrong function to every
instance; queue lengths 0 and 1 against a threshold of 1 give healthy and
overloaded instances.  Two instances of one runner, of one function or of two,
make its load a sum of two queues, of which a heartbeat may report one.
`SafetyBound` keeps `Commander_safety` small: beyond one runner, one instance
and no crash it allows one more of one kind (before an instance is started
also a crash and two runners).  It cuts behaviours off and no
property depends on it; the five properties of the run are proved without it.
An instance that moves to another runner or function, which the Commander never
asks of the cache, is covered by the proofs about `RoutingCache`, where the
operations come in any order and with any arguments.  Two
uploads of one binary meet on one path or on two, depending on their names; a
third adds no new kind of overlap, since `overlapped` stays true.  Three
requests to two runners give a shared and a separate connection, and one that
comes after `Close`.  Two ports let two runtimes share one or not.  A batch of
three has a first, a middle and a last request.  `MaxOpen` bounds the requests
in flight, which the code does not: a full bound only delays the loop until
one ends.  Two functions give a deployment that ends while the form of
another is open.

Symmetry is used in `Commander_safety` only.  `CHECK_DEADLOCK FALSE` wherever
every call or request is made once, or the program ends, and the system comes
to rest.  The `Commander` runs check for deadlock.

### What the passing properties except

Several properties are true only with an exception, and the exception is a
behaviour of the code worth knowing.  They are stated in the property, so that
nothing else can go wrong unnoticed:

- `LostOnlyInQueue`: a request that is in the queue when the timer stops the
  instance is never answered.  This includes one that was queued while the
  worker was on its way out of its idle exit, although its caller was told that
  a worker runs.  The timer is reset when a request is queued, not while it is
  served, so an instance with work may be stopped.
- `WorkersEnd`: a worker blocks for ever on the unbuffered result channel of a
  call that left.
- `SingleFlight` is about downloads at the same time.  A call that looked for
  the file before the rename and at the downloads map after the delete
  downloads the function a second time, and is answered `Downloaded` too.  The
  test of ten concurrent calls (`test/runner/prepare_test.go`, lines 103 and
  109) claims one instance and exactly one download for all of them; it passes
  because this order is rare.  One after the other, two calls may start two
  instances as well: a call that comes to `startInstance` after the owner of
  a start has left `startingInstances` does not wait for it.
- `FilesSound`: a crash, or a `DeleteFile` that fails, leaves the temporary
  file of a failed download behind for good.
- `RowHasFile`, `ShortOnlyIfOverlapped`: two uploads saving to one path at the
  same time may cut or remove a stored file.
- `OrphanHasCause`: a failed insert leaves the file it was to refer to.
- `OrderlyClose`: requests of clients that are connected when the five seconds
  of `Shutdown` are over, or when the HTTP server fails, lose their connection,
  or open one that nobody closes.
- `ProcessIsHeld`: an error of `GrpcClient` leaves the guest process running.
- `ReadyIsOwnGuest`: on a port that was given to two runtimes the guest of one
  answers the heartbeat of the other.
- `StartEnds`: an attempt of the heartbeat has no deadline, so a program on the
  port that never answers keeps `Start` waiting.  A heartbeat that failed is
  followed by `closeCmd`, inside `Start`, which waits for the guest: on a port
  that was given out twice a call of the other instance may keep it busy for ever.
- `StopEnds`: a function that never returns keeps `Stop` waiting.
- `BurstIsPaced`: a change of the settings between two looks of the loop lets
  two requests follow each other without a pause.
- `WorkerEnds`, `QuitEnds`: a batch of one without a delay never sleeps, so the
  loop never sees its context and the tester does not exit.
- `CleanExit`: the stack stays up when `docker compose down` fails, when q is
  pressed while `startStack` is at work, and after a signal before `Update` has
  heard of the started stack.
- `DozzleAccounted`: a container is given up when `docker port` fails, when the
  answer is dropped, and when `docker rm` fails.
- `CommandsResolved`: a function stays "deploying" when its answer arrives while
  the form of another function is open.

### Disagreements

The runs that show a disagreement between the code and what its assertions,
tests or documents say:

| Run | What happens |
|---|---|
| `InstanceWorker_AddToQueueAssertions` | `opened` is cleared by the worker's idle exit or by `StopInstance` between a call's CompareAndSwap and its Load: the assertion of `AddToQueue` ends the runner. Or the timer fires between the lookup and `Reset`, and the assertion of `ResetTimer` does. TLC's trace shows one of the two; each is violated when stated alone. |
| `Commander_WarmInstanceUsed` | one missed heartbeat evicts a runner; its instances come back with the next heartbeat, but without their function, and are never routed to again. |
| `FunctionStore_CreatedIsStored` | two uploads of equal bytes and name both find no row; the first is answered 201, then the second opens the same file and cuts it. The test of an upload checks that the stored bytes are the uploaded ones. |

## 4. Fairness

- `InstanceWorker`: weak fairness per goroutine (each call, each worker, the
  shutdown) and of time.  A select is never forced to take a particular ready
  case.  That the guest answers, and ends when it is stopped, is the platform's
  assumption about user functions; `NativeRuntime` shows what happens without.
- `PrepareInstance`: weak fairness of each call that arrived.  That a start
  ends is an assumption about the guest and its port: `StartEnds` of
  `NativeRuntime` holds with two exceptions, and in their case `BootInstance`,
  and with it the calls that wait for the start, do not end.  The download has
  no timeout in the code: that it ends is an assumption about the network and
  the Commander, of which `RequestsEnd` of `FunctionStore` is one half.
- `Commander`: weak fairness of the ticker's rounds, of each poll (a heartbeat
  call has a timeout) and of each request.  The call that prepares an instance
  has no timeout; that it returns is `EveryCallReturns` of `PrepareInstance`.  Runners need not register, answer
  or stay up, and instances need not expire.
- `FunctionStore`: weak fairness of each request that arrived; nobody has to
  call, stop or restart the Commander.
- `Gateway`: weak fairness of `Run` after the signal (`Shutdown` has a
  timeout).  None of the requests: they may hang for ever.
- `NativeRuntime`: weak fairness of each start and each guest process, and of
  the timer.  Strong fairness of `HeartbeatFails`: an attempt that a mute
  program holds fails when that program goes, and the loop then looks at the
  timer, whoever takes the port next.  Function handlers need not return, and
  clients need not leave.
- `TesterWorker`: weak fairness of the loop and of the requests in flight
  (`invokeFunction` has a timeout); strong fairness of `SleepCancelled`, since a
  Go select that finds two cases ready picks one at random.  The user owes
  nothing.
- `Tester`: weak fairness of each command and of the delivery of its message.
  Most `docker` commands, `go build` and the upload have no timeout in the
  code; that they end is an assumption about these tools, and for uploads about
  the network and the Commander (`RequestsEnd` is the Commander's half).  The user owes nothing.

## 5. Proofs

The eight proof modules hold for every value of the constants under the named
assumptions of the modules, which say only that bounds are naturals (positive
where a loop tries at least once), that sets of ids are disjoint and that
`None` is no id.  `MaxBatch >= 3` in `TesterWorker` is the initial batch size.
Every inductive invariant below also holds in TLC with the bounds of section 3.

**InstanceWorkerProofs.**  `OneWorker` (no two calls run or
start a worker) does not follow from itself: between the CompareAndSwap and the
start of a worker nothing but `opened` keeps others out, and `StopInstance`
clears it.  `OpenedIsLock` is the strengthening: until the shutdown starts
clearing, `opened` holds exactly when one call holds the lock; afterwards
`ResetTimer` fails, so no call gets past it.  `GraceKept` rests on "the promise
never exceeds what the timer has left".  `RemovedAcceptsNothing` rests on "the
queue is closed before the entry is deleted".  `ImplementsSerialQueue` shows
that every step of the instance is a step, or a stutter, of `SerialQueue` under
the mapping in `InstanceWorker`; it needs that `queue` is the tail of the
accepted requests and that only one worker serves.  `NoRequestDropped` is that
the request of a waiting call is in the queue or with a worker, whatever
workers, leaving calls and the shutdown do; it needs `OpenedIsLock`, because a
second worker could take over the request of the first.
`LivesAsCommanderAssumes` connects the module to `Commander`: read off the map
and the timer, an instance is `running`, `ending` and `gone` in this order, is
reported only while `running`, and only a call that resets the timer leads
back from `ending`.  With a grace period of zero this fails, since a heartbeat
may report an instance that is being stopped.

**PrepareInstanceProofs.**  The invariant is `TypeOK` with `Owners` (who is in
the downloads map or in `startingInstances` is the one call in the section that
the entry guards), `Files` (a temporary file is complete before its rename, and
who was told of the download has the file), `Subscribers` (a call that waits,
or is about to subscribe, does so with a call that has yet to publish, or whose
result is kept) and `Answers` (an id that was published was submitted).  `SingleDownload` alone is not
inductive: what keeps a second call out is the entry, and the entry is deleted
before the result is published.  `QuietMove` covers the steps that touch no
shared state.  `CallsMoveOn` (a call takes at most thirteen steps, errors and
crashes included) and `SomeCallCanMove` (while calls are under way, one of them
can take a step) are what `EveryCallReturns` needs besides fairness; the second
follows from `NoLostSubscriber`, because the call that another waits for is
itself at work and not waiting.

**CommanderProofs.**  First the cache on its own: `CacheIInv` is `IndexesAgree /\ RequestsAreTotals`
with the types of the maps.  One lemma per operation (`SetInstanceKeeps`,
`HeartbeatKeeps`, `RemoveRunnerKeeps`), so that other modules can use them.
`RecomputeTotals` says that recomputing the runners an operation touched
leaves every runner with the right total; `TotalLocal` that a total depends
on the summed queues only.  That a total is a natural number would need
induction over the finite set and is not proved.

For the composed system `CommanderIInv` adds to the types and to `CacheIInv`:
what the cache says is true (`CacheIsTrue`), what it holds is polled
(`CachedArePolled`), an unused id has no runner (`FreshUnused`), a heartbeat on
its way names instances of its sender (`RepliesTrue`), a request that holds an
instance holds one of its function (`HeldRight`), and polled runners are in the
database (`PolledRegistered`).  `RoutedRight` alone is not inductive, because
the instance and the runner of a request are read from the cache at different
times.  The cache part of each step is one of the three lemmas above.
`ImplementsCache` says so as a refinement: what every step of the Commander
does to the seven maps is an operation of `RoutingCache`, a new cache or
nothing.  `CommanderMapsAgree` and `CommanderTotalsCorrect` carry the two cache
properties over to the composed system.

`ForgottenInstances` and `ForgottenRunners` are the safety halves of the two
liveness properties.  An instance that is gone, not in the cache and in no
heartbeat or preparation whose result is still to be applied never comes back,
and no request picks it; a runner that is down, not in the cache and held by no
poll or request stays out until it is started again.  Both need the whole
invariant: a reply is known to name only instances that ran when it was sent,
and what `Route` picks is known to be in the cache at that moment.

**FunctionStoreProofs.**  The invariant is `TypeOK` with `Places` (rows,
files and downloads under way are where their paths say), `Stored` (an upload
answered 201 has a row), `Saved` (on a path that never was overlapped an upload
is alone from the open to the insert, the file it writes is the one the path
leads to, what it inserts is complete, and nobody saves to the path of a row)
and `Read` (a download reads the complete file its row leads to).  `RowHasFile` alone is not inductive: that an insert
leads to a complete file is known from the write before it, and only as long
as nobody else saves to the path.  `PathFacts` and `QuietFacts` collect what
the steps share.  `ImplementsCatalog` shows that every step is a step, or a
stutter, of `FunctionCatalog`.  The moment of an upload is its insert, or the
look that ends it with 409, and that of a download its look at the table; a
shutdown or a crash is the failure of all requests under way, and no row is
ever taken back.  `RequestsMoveOn` gives the bound on a request: each of its
steps leads to a later state, or uses up a try of `WithRetry` in the same one.

**GatewayProofs.**  `Conns` says that an entry of the table is an open
connection that was created for that runner, and that a request creates its
connection once; `Drained` that nothing is closed before `Shutdown` has
returned, and that without `late` no request is being handled from then on.
`OpenIsShared` needs the first: nothing else says that what the second look of
`runnerConn` finds is open.  `RequestsReachTheirRunner` adds that the connection
a request invokes over is one to the runner the Commander named for it,
whichever request created the connection.

**NativeRuntimeProofs.**  `Guests` relates the stage of a runtime, its port and
its process: a process that lives belongs to a start, a stop or a runtime in
use (or leaked), one that exists has a port, and a guest that is bound to a
port listens and was given that port.
`HeartbeatFromOwnPort` follows, because a guest that answers on a port was
given that port.  `StopIsSignalled` says that `closeCmd` waits only for a
process that has ended, has an interrupt to react to or is draining, and
`GuestsMoveOn` that a guest is started once and goes only forward from there:
what can hold up a `Stop` is a handler that does not return.

**TesterWorkerProofs.**  `Looks` says what the loop knows at each point: a
request that is about to be sent has had its pause, and it is within the batch
if one request was sent since the last change of the settings; between the look
after a request and the next one the batch has no more requests unless the
settings changed.

**TesterProofs.**  `TesterIInv` is `TypeOK`, `OneDeployment` and
`DozzleAccounted` with `SetupOrder` (compile, start and poll follow each other,
and none runs twice), `DozzleOrder` (a Dozzle is started only when none is known
or on its way) and `EndOrder` (how the shutdown began, and that the stack was
stopped, or the attempt failed, before each point of the end that relies on
it).  `CleanExit` is about the last state only and is not inductive: that the
stack is down then is known from `EndOrder`, and that nothing starts it again
from `SetupOrder`.  The proof treats the parts of the state separately:
`DeploymentsLeft` and `OthersLeft` say which actions leave which part alone.

Every safety property of a passing run is thereby a theorem.  Only
model-checked are the liveness properties, which are outside what TLAPS can do
(fairness and `ENABLED`), and the disagreements of section 3.  Where
a liveness property has a part that is not about fairness, that part is proved:

| Liveness property | Proved part |
|---|---|
| `LostOnlyInQueue` | `NoRequestDropped` |
| `EveryCallReturns` | `CallsMoveOn`, `SomeCallCanMove` |
| `GoneInstanceForgotten`, `DeadRunnerForgotten` | `ForgottenInstances`, `ForgottenRunners` |
| `RequestsEnd` | `RequestsMoveOn` |
| `StopEnds` | `StopIsSignalled`, `GuestsMoveOn` |
| `EventuallyStopped`, `WorkersEnd`, `ShutdownEnds`, `StartEnds`, `FollowsEnabled`, `WorkerEnds`, `CommandsResolved`, `QuitEnds` | none |

## 6. Not modelled

- Metrics, logging and request metadata, HTTP and gRPC encoding, configuration
  and generated code: no decision of the system reads them.
- The tester's rendering, redraw ticks, the text editing inside its form, its
  rolling log and the random requests of its requesters.
- The setters of `InMemoryCache` outside the `RoutingCache` interface, which
  only tests call.
- What a receiver makes of a download whose body ends in the JSON of an error
  (`handlers.go`, after the status 200).  The model has the outcome; nothing in
  the repository says what to expect of it.
- A guest that died and is still routed to.  `NativeRuntime` lets `Invoke` reach
  whoever listens on the port; the code has no supervision to state a property
  of.
- The Commander's table as the tester sees it: a deployment whose answer was
  lost cannot be repeated, because the bytes are stored (409).
- A refinement of the runner in `Commander` by `PrepareInstance` and
  `InstanceWorker`, and of their single steps by `NativeRuntime`.  That an
  instance lives as `Commander` has it is proved (`LivesAsCommanderAssumes`);
  for the rest the modules are connected by the abstractions named in section
  2, not by a checked mapping.
