----------------------------- MODULE Commander ------------------------------
(***************************************************************************)
(* The Commander between its Gateways and its Runners: runners register,   *)
(* are polled for heartbeats and evicted when these fail, RouteFunction    *)
(* calls look an instance up in the routing cache or have one prepared,    *)
(* and the Gateway invokes what it was given.  Every cache operation is a  *)
(* step of its own, so whatever was read from the cache, or from a runner, *)
(* may be out of date when it is used.                                     *)
(*                                                                         *)
(* A runner is reduced to what the modules PrepareInstance and             *)
(* InstanceWorker show of it: calls that prepare one function may share an *)
(* instance, an id is never used twice, and an instance is stopped only    *)
(* after a grace period in which heartbeats do not report it.              *)
(***************************************************************************)
EXTENDS RoutingCache

CONSTANTS
    Requests,           \* requests of clients for functions
    Deployed,           \* the functions in the catalog
    InstanceOverload,   \* instanceOverloadThreshold
    RunnerOverload,     \* runnerOverloadThreshold
    MaxCrashes          \* bound on crashes of runners and of the Commander

ASSUME CommanderAssumption ==
    /\ Deployed \subseteq FunctionIds
    /\ 0 \in QueueLens
    /\ InstanceOverload \in Nat
    /\ RunnerOverload \in Nat
    /\ MaxCrashes \in Nat

VARIABLES
    registered,     \* the runners in the database
    runner,         \* each runner process: down, registering or up
    life,           \* each instance: fresh (no such id yet) to gone
    home, runs,     \* the runner an instance was started on, and its function
    poll,           \* the poll of each runner in this round
    reply,          \* the queue depths in the answered heartbeat
    pc,             \* where each request is
    wants,          \* the function it is for
    pick, target,   \* the instance and the runner it was given
    crashes

fleetVars == <<registered, runner, life, home, runs>>
pollVars == <<poll, reply>>
requestVars == <<pc, wants, pick, target>>
vars == <<cacheVars, fleetVars, pollVars, requestVars, crashes>>

NoDepths == [i \in {} |-> 0]
Answered == {"done", "failed"}
RequestPCs == {"idle", "address", "runners", "function", "prepare", "set", "routed"}
    \cup Answered
Registering == {"lookup", "heartbeat", "persist", "answer"}

Init ==
    /\ CacheInit
    /\ registered = {}
    /\ runner = [r \in RunnerAddrs |-> "down"]
    /\ life = [i \in InstanceIds |-> "fresh"]
    /\ home = [i \in InstanceIds |-> None]
    /\ runs = [i \in InstanceIds |-> None]
    /\ poll = [r \in RunnerAddrs |-> "idle"]
    /\ reply = [r \in RunnerAddrs |-> NoDepths]
    /\ pc = [q \in Requests |-> "idle"]
    /\ wants = [q \in Requests |-> None]
    /\ pick = [q \in Requests |-> None]
    /\ target = [q \in Requests |-> None]
    /\ crashes = 0

-----------------------------------------------------------------------------
(* RegisterRunner, called by a runner that has started to serve *)

RunnerGoto(r, l) == runner' = [runner EXCEPT ![r] = l]

\* The runners S end, and their instances with them.
StopRunners(S) ==
    /\ runner' = [r \in RunnerAddrs |-> IF r \in S THEN "down" ELSE runner[r]]
    /\ life' = [i \in InstanceIds |-> IF home[i] \in S THEN "gone" ELSE life[i]]

\* The runner serves and calls RegisterRunner.
StartRunner(r) ==
    /\ runner[r] = "down"
    /\ RunnerGoto(r, "lookup")
    /\ UNCHANGED <<cacheVars, registered, life, home, runs, pollVars, requestVars, crashes>>

\* RunnerByAddr: a known runner is answered at once.
LookupRunner(r) ==
    /\ runner[r] = "lookup"
    /\ RunnerGoto(r, IF r \in registered THEN "answer" ELSE "heartbeat")
    /\ UNCHANGED <<cacheVars, registered, life, home, runs, pollVars, requestVars, crashes>>

\* Mutation: the answer of the first heartbeat is cached at once.
CheckRunnerCaches(r) ==
    /\ runner[r] = "heartbeat"
    /\ UpsertRunnerHeartbeat(r, NoDepths)
    /\ RunnerGoto(r, "persist")
    /\ UNCHANGED <<registered, life, home, runs, pollVars, requestVars, crashes>>

\* persistNewRunner: the Commander calls the runner back.
CheckRunner(r) ==
    /\ runner[r] = "heartbeat"
    /\ RunnerGoto(r, "persist")
    /\ UNCHANGED <<cacheVars, registered, life, home, runs, pollVars, requestVars, crashes>>

\* persistNewRunner: CreateRunner inserts the row or keeps it.
PersistRunner(r) ==
    /\ runner[r] = "persist"
    /\ registered' = registered \cup {r}
    /\ RunnerGoto(r, "answer")
    /\ UNCHANGED <<cacheVars, life, home, runs, pollVars, requestVars, crashes>>

FinishRegistration(r) ==
    /\ runner[r] = "answer"
    /\ RunnerGoto(r, "up")
    /\ UNCHANGED <<cacheVars, registered, life, home, runs, pollVars, requestVars, crashes>>

\* The database, the heartbeat or the call itself fails at any point: the
\* runner, which may be in the database already, stops.
RegistrationFails(r) ==
    /\ runner[r] \in Registering
    /\ StopRunners({r})
    /\ UNCHANGED <<cacheVars, registered, home, runs, pollVars, requestVars, crashes>>

-----------------------------------------------------------------------------
(* PollRunnerHeartbeats *)

PollGoto(r, l) == poll' = [poll EXCEPT ![r] = l]

\* GetAllRunners and one goroutine each; a round begins when the one before
\* it is over.
StartPollRound ==
    /\ \A r \in RunnerAddrs : poll[r] = "idle"
    /\ registered # {}
    /\ poll' = [r \in RunnerAddrs |-> IF r \in registered THEN "call" ELSE "idle"]
    /\ UNCHANGED <<cacheVars, fleetVars, reply, requestVars, crashes>>

\* The instances of a runner that its heartbeat reports.
Reported(r) == {i \in InstanceIds : home[i] = r /\ life[i] = "running"}

\* The runner answers; the answer travels.
AnswerHeartbeat(r) ==
    /\ poll[r] = "call"
    /\ runner[r] # "down"
    /\ \E depths \in [Reported(r) -> QueueLens] : reply' = [reply EXCEPT ![r] = depths]
    /\ PollGoto(r, "reply")
    /\ UNCHANGED <<cacheVars, fleetVars, requestVars, crashes>>

\* Mutation: the goroutines of a round share the loop's variable.
ApplyHeartbeatShared(r) ==
    /\ poll[r] = "reply"
    /\ \E s \in registered : UpsertRunnerHeartbeat(s, reply[r])
    /\ reply' = [reply EXCEPT ![r] = NoDepths]
    /\ PollGoto(r, "idle")
    /\ UNCHANGED <<fleetVars, requestVars, crashes>>

\* Mutation: the heartbeat is merged into what is known of the runner.
ApplyHeartbeatMerges(r) ==
    /\ poll[r] = "reply"
    /\ UpsertRunnerHeartbeat(r, [i \in DOMAIN reply[r] \cup runnerInstances[r] |-> 0])
    /\ reply' = [reply EXCEPT ![r] = NoDepths]
    /\ PollGoto(r, "idle")
    /\ UNCHANGED <<fleetVars, requestVars, crashes>>

\* The answer arrives.
ApplyHeartbeat(r) ==
    /\ poll[r] = "reply"
    /\ UpsertRunnerHeartbeat(r, reply[r])
    /\ reply' = [reply EXCEPT ![r] = NoDepths]
    /\ PollGoto(r, "idle")
    /\ UNCHANGED <<fleetVars, requestVars, crashes>>

\* Mutation: a failed heartbeat is only logged.
EvictRunnerLogs(r) ==
    /\ poll[r] = "call"
    /\ PollGoto(r, "idle")
    /\ UNCHANGED <<cacheVars, fleetVars, reply, requestVars, crashes>>

\* The call fails or times out, also when the runner is well: evictRunner.
EvictRunner(r) ==
    /\ poll[r] = "call"
    /\ RemoveRunner(r)
    /\ PollGoto(r, "idle")
    /\ UNCHANGED <<fleetVars, reply, requestVars, crashes>>

-----------------------------------------------------------------------------
(* RouteFunction *)

Goto(q, l) == pc' = [pc EXCEPT ![q] = l]

\* The request is answered; it holds nothing any more.
Finish(q, l) ==
    /\ Goto(q, l)
    /\ wants' = [wants EXCEPT ![q] = None]
    /\ pick' = [pick EXCEPT ![q] = None]
    /\ target' = [target EXCEPT ![q] = None]

\* Mutation: the instances of all functions.
HealthyOfAny(f) == {i \in InstanceIds : instanceQueue[i] < InstanceOverload
                                         /\ instanceFunction[i] # None}

\* FunctionIdInstances, filtered as in pickHealthyInstance.
Healthy(f) ==
    {i \in InstanceIds : funcInstances[f][i] # None /\ funcInstances[f][i] < InstanceOverload}

\* Route: any healthy instance of the function, in the map's random order.
ReadInstances(q) ==
    /\ pc[q] = "idle"
    /\ \E f \in FunctionIds :
          /\ wants' = [wants EXCEPT ![q] = f]
          /\ \/ \E i \in Healthy(f) : pick' = [pick EXCEPT ![q] = i] /\ Goto(q, "address")
             \/ Healthy(f) = {} /\ Goto(q, "runners") /\ UNCHANGED pick
    /\ UNCHANGED <<cacheVars, fleetVars, pollVars, target, crashes>>

\* RunnerAddressOfInstance: the instance may have left the cache by now.
ReadAddress(q) ==
    /\ pc[q] = "address"
    /\ \/ /\ instanceRunner[pick[q]] # None
          /\ target' = [target EXCEPT ![q] = instanceRunner[pick[q]]]
          /\ Goto(q, "routed")
          /\ UNCHANGED <<wants, pick>>
       \/ /\ instanceRunner[pick[q]] = None
          /\ Finish(q, "failed")
    /\ UNCHANGED <<cacheVars, fleetVars, pollVars, crashes>>

\* pickLeastLoadedRunner: of the runners below the threshold, one with the
\* fewest requests.
LeastLoaded ==
    LET below == {r \in RunnerAddrs : runnerRequests[r] # None /\ runnerRequests[r] < RunnerOverload}
    IN  {r \in below : \A s \in below : runnerRequests[r] <= runnerRequests[s]}

\* RequestsPerRunner and the choice, or ErrNoRunnerAvailable.
PickRunner(q) ==
    /\ pc[q] = "runners"
    /\ \/ \E r \in LeastLoaded :
             /\ target' = [target EXCEPT ![q] = r]
             /\ Goto(q, "function")
             /\ UNCHANGED <<wants, pick>>
       \/ LeastLoaded = {} /\ Finish(q, "failed")
    /\ UNCHANGED <<cacheVars, fleetVars, pollVars, crashes>>

\* prepareInstance: FunctionByID, which may fail or find nothing, and the
\* client for the runner.
ReadFunction(q) ==
    /\ pc[q] = "function"
    /\ \/ /\ wants[q] \in Deployed
          /\ Goto(q, "prepare")
          /\ UNCHANGED <<wants, pick, target>>
       \/ Finish(q, "failed")
    /\ UNCHANGED <<cacheVars, fleetVars, pollVars, crashes>>

\* The PrepareFunctionInstance calls for a function that a runner has.
Preparing(r, f) == {q \in Requests : pc[q] = "prepare" /\ target[q] = r /\ wants[q] = f}

\* The runner has started an instance and answers some of the calls with it;
\* those it does not answer were cancelled or came too late to share it.
PrepareInstance(r, f) ==
    /\ runner[r] # "down"
    /\ Preparing(r, f) # {}
    /\ \E i \in InstanceIds, S \in SUBSET Preparing(r, f) :
          /\ life[i] = "fresh"
          /\ life' = [life EXCEPT ![i] = "running"]
          /\ home' = [home EXCEPT ![i] = r]
          /\ runs' = [runs EXCEPT ![i] = f]
          /\ pick' = [q \in Requests |-> IF q \in S THEN i ELSE pick[q]]
          /\ pc' = [q \in Requests |-> IF q \in S THEN "set" ELSE pc[q]]
    /\ UNCHANGED <<cacheVars, registered, runner, pollVars, wants, target, crashes>>

\* The call fails: no connection, no instance, or the client has left.
PrepareFails(q) ==
    /\ pc[q] = "prepare"
    /\ Finish(q, "failed")
    /\ UNCHANGED <<cacheVars, fleetVars, pollVars, crashes>>

\* SetInstance with an empty queue, whatever has happened to the runner.
StoreInstance(q) ==
    /\ pc[q] = "set"
    /\ SetInstance(wants[q], pick[q], target[q], 0)
    /\ Goto(q, "routed")
    /\ UNCHANGED <<fleetVars, pollVars, wants, pick, target, crashes>>

\* The Gateway forwards the request.  An instance that is still there takes
\* it and its shutdown timer is reset.
InvokeInstance(q) ==
    /\ pc[q] = "routed"
    /\ \/ /\ home[pick[q]] = target[q]
          /\ life[pick[q]] \in {"running", "ending"}
          /\ life' = [life EXCEPT ![pick[q]] = "running"]
          /\ Finish(q, "done")
       \/ /\ Finish(q, "failed")
          /\ UNCHANGED life
    /\ UNCHANGED <<cacheVars, registered, runner, home, runs, pollVars, crashes>>

-----------------------------------------------------------------------------
(* Runners and failures *)

\* The grace period of an unused instance begins, and the instance is stopped.
ExpireInstance(i) ==
    /\ \/ life[i] = "running" /\ life' = [life EXCEPT ![i] = "ending"]
       \/ life[i] = "ending" /\ life' = [life EXCEPT ![i] = "gone"]
    /\ UNCHANGED <<cacheVars, registered, runner, home, runs, pollVars, requestVars, crashes>>

CrashRunner(r) ==
    /\ crashes < MaxCrashes
    /\ crashes' = crashes + 1
    /\ runner[r] # "down"
    /\ StopRunners({r})
    /\ UNCHANGED <<cacheVars, registered, home, runs, pollVars, requestVars>>

\* A new Commander has the database and an empty cache; the calls in flight
\* fail, and with them the registrations.
CrashCommander ==
    /\ crashes < MaxCrashes
    /\ crashes' = crashes + 1
    /\ funcInstances' = [f \in FunctionIds |-> [i \in InstanceIds |-> None]]
    /\ instanceFunction' = [i \in InstanceIds |-> None]
    /\ instanceRunner' = [i \in InstanceIds |-> None]
    /\ instanceQueue' = [i \in InstanceIds |-> 0]
    /\ cachedRunners' = {}
    /\ runnerInstances' = [r \in RunnerAddrs |-> {}]
    /\ runnerRequests' = [r \in RunnerAddrs |-> None]
    /\ runnerStats' = {}
    /\ poll' = [r \in RunnerAddrs |-> "idle"]
    /\ reply' = [r \in RunnerAddrs |-> NoDepths]
    /\ LET failing == {q \in Requests : pc[q] \notin Answered \cup {"idle", "routed"}}
       IN  /\ pc' = [q \in Requests |-> IF q \in failing THEN "failed" ELSE pc[q]]
           /\ wants' = [q \in Requests |-> IF q \in failing THEN None ELSE wants[q]]
           /\ pick' = [q \in Requests |-> IF q \in failing THEN None ELSE pick[q]]
           /\ target' = [q \in Requests |-> IF q \in failing THEN None ELSE target[q]]
    /\ StopRunners({r \in RunnerAddrs : runner[r] \in Registering})
    /\ UNCHANGED <<registered, home, runs>>

-----------------------------------------------------------------------------

RegisterStep(r) ==
    \/ LookupRunner(r) \/ CheckRunner(r) \/ PersistRunner(r)
    \/ FinishRegistration(r) \/ RegistrationFails(r)

PollStep(r) == AnswerHeartbeat(r) \/ ApplyHeartbeat(r) \/ EvictRunner(r)

RequestStep(q) ==
    \/ ReadAddress(q) \/ PickRunner(q) \/ ReadFunction(q) \/ PrepareFails(q)
    \/ StoreInstance(q) \/ InvokeInstance(q)

Next ==
    \/ \E r \in RunnerAddrs :
          StartRunner(r) \/ RegisterStep(r) \/ PollStep(r) \/ CrashRunner(r)
    \/ StartPollRound
    \/ \E q \in Requests : ReadInstances(q) \/ RequestStep(q)
    \/ \E r \in RunnerAddrs, f \in FunctionIds : PrepareInstance(r, f)
    \/ \E i \in InstanceIds : ExpireInstance(i)
    \/ CrashCommander

Spec == Init /\ [][Next]_vars

\* The ticker starts round after round and every goroutine is scheduled; a
\* heartbeat call ends because it has a timeout.
FairSpec ==
    /\ Spec
    /\ WF_vars(StartPollRound)
    /\ \A r \in RunnerAddrs : WF_vars(PollStep(r))
    /\ \A q \in Requests : WF_vars(RequestStep(q))

-----------------------------------------------------------------------------
(* Properties *)

\* The variables have their types, and a request has the function, runner and
\* instance that its stage works with.
TypeOK ==
    /\ registered \subseteq RunnerAddrs
    /\ runner \in [RunnerAddrs -> {"down", "up"} \cup Registering]
    /\ life \in [InstanceIds -> {"fresh", "running", "ending", "gone"}]
    /\ home \in [InstanceIds -> RunnerAddrs \cup {None}]
    /\ runs \in [InstanceIds -> FunctionIds \cup {None}]
    /\ poll \in [RunnerAddrs -> {"idle", "call", "reply"}]
    /\ reply \in [RunnerAddrs -> QueueDepthReports]
    /\ pc \in [Requests -> RequestPCs]
    /\ wants \in [Requests -> FunctionIds \cup {None}]
    /\ pick \in [Requests -> InstanceIds \cup {None}]
    /\ target \in [Requests -> RunnerAddrs \cup {None}]
    /\ \A q \in Requests :
          /\ pc[q] \notin Answered \cup {"idle"} => wants[q] # None
          /\ pc[q] \in {"address", "set", "routed"} => pick[q] # None
          /\ pc[q] \in {"function", "prepare", "set", "routed"} => target[q] # None
    /\ crashes \in 0..MaxCrashes

\* Whatever the cache says of an instance is true of it, or was: it runs that
\* function and was started on that runner, although the two facts reach the
\* cache separately, late and in any order.
CacheIsTrue ==
    \A i \in InstanceIds :
        /\ instanceFunction[i] # None => instanceFunction[i] = runs[i]
        /\ instanceRunner[i] # None => instanceRunner[i] = home[i]

\* No request is sent to an instance of another function or to a runner the
\* instance was never on.
RoutedRight ==
    \A q \in Requests :
        pc[q] = "routed" => runs[pick[q]] = wants[q] /\ home[pick[q]] = target[q]

\* Every runner that the cache knows, or that a request is about to put back
\* into it, is in the database and therefore polled: none can stay in the
\* cache without ever being checked again.
CachedArePolled ==
    /\ cachedRunners \subseteq registered
    /\ \A q \in Requests :
          pc[q] \in {"function", "prepare", "set"} => target[q] \in registered

\* A runner that stays down leaves the cache for good, also when a request
\* that was under way puts it back after its eviction.
DeadRunnerForgotten ==
    \A r \in RunnerAddrs :
        <>[](runner[r] = "down") => <>[](r \notin cachedRunners)

\* A stopped instance is not offered to requests for ever, whatever stale
\* heartbeats and late answers say of it.
GoneInstanceForgotten ==
    \A i \in InstanceIds : life[i] = "gone" ~> [](instanceRunner[i] = None)

-----------------------------------------------------------------------------
(* What the README says *)

\* "if an instance of a function is already running on some Runner, and is
\* not overloaded, route to that instance_id" (README.md): an instance that
\* is running and that the cache knows with a short queue, is used by a
\* request for its function that comes when all others have been served.
WarmInstanceUsed ==
    [][\A q \in Requests, i \in InstanceIds :
          ( /\ pc[q] = "idle" /\ pc'[q] = "runners"
            /\ life[i] = "running"
            /\ instanceRunner[i] # None /\ instanceQueue[i] < InstanceOverload
            /\ \A p \in Requests \ {q} : pc[p] = "done" )
          => runs[i] # wants'[q]]_vars
=============================================================================
