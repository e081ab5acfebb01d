---------------------------- MODULE RoutingCache ----------------------------
(***************************************************************************)
(* InMemoryCache, the Commander's picture of its runners: maps that index  *)
(* the same instances by function, by runner and by id, the request totals *)
(* derived from them, and the runners whose metrics are known.  A mutex    *)
(* makes every operation one step.                                         *)
(*                                                                         *)
(* A missing key is None, which the code tests for as "" or !ok; a missing *)
(* number reads as 0, as in the code.  A runner without an entry in        *)
(* runnerInstances is outside cachedRunners.  An empty inner map of        *)
(* funcInstances answers every read like a missing one, and is one.        *)
(***************************************************************************)
EXTENDS Naturals, Functions

CONSTANTS
    FunctionIds, InstanceIds, RunnerAddrs,
    QueueLens,      \* the queue lengths that can be reported
    None            \* no entry

ASSUME CacheAssumption ==
    /\ QueueLens \subseteq Nat
    /\ None \notin Nat \cup FunctionIds \cup InstanceIds \cup RunnerAddrs

VARIABLES
    funcInstances,      \* function -> instance -> queue length
    instanceFunction,   \* instance -> function
    instanceRunner,     \* instance -> runner
    instanceQueue,      \* instance -> queue length
    cachedRunners,      \* the keys of runnerInstances
    runnerInstances,    \* runner -> set of instances
    runnerRequests,     \* runner -> total of its instances' queue lengths
    runnerStats         \* the keys of runnerStats

cacheVars == <<funcInstances, instanceFunction, instanceRunner, instanceQueue,
               cachedRunners, runnerInstances, runnerRequests, runnerStats>>

CacheInit ==
    /\ funcInstances = [f \in FunctionIds |-> [i \in InstanceIds |-> None]]
    /\ instanceFunction = [i \in InstanceIds |-> None]
    /\ instanceRunner = [i \in InstanceIds |-> None]
    /\ instanceQueue = [i \in InstanceIds |-> 0]
    /\ cachedRunners = {}
    /\ runnerInstances = [r \in RunnerAddrs |-> {}]
    /\ runnerRequests = [r \in RunnerAddrs |-> None]
    /\ runnerStats = {}

-----------------------------------------------------------------------------
(* The helpers that run under the lock *)

\* Mutation: the instances stay in the functions' maps.
LeaveFunctionsKept(S) == funcInstances

\* removeFunctionInstanceLocked: funcInstances without the instances S.
LeaveFunctions(S) ==
    [f \in FunctionIds |-> [i \in InstanceIds |->
        IF i \in S /\ instanceFunction[i] = f THEN None ELSE funcInstances[f][i]]]

\* removeRunnerInstanceLocked: runnerInstances once the instances S have left
\* the runners they are on, unless that is r.
LeaveRunners(S, r) ==
    [s \in RunnerAddrs |->
        IF s = r THEN runnerInstances[s]
        ELSE runnerInstances[s] \ {i \in S : instanceRunner[i] = s}]

\* A map of instances after the deletion of the keys S.
Delete(map, S, missing) == [i \in InstanceIds |-> IF i \in S THEN missing ELSE map[i]]

Total(queues, S) == SumFunction(Restrict(queues, S))

\* Mutation: the loop over the instances assigns instead of adding.
RecomputeAssigns(S, r, runners, insts, queues) ==
    [s \in RunnerAddrs |->
        IF s = r \/ \E i \in S : instanceRunner[i] = s
        THEN IF s \notin runners THEN None
             ELSE IF insts[s] = {} THEN 0
             ELSE CHOOSE q \in {queues[i] : i \in insts[s]} : TRUE
        ELSE runnerRequests[s]]

\* recomputeRunnerRequestsLocked, for r and the runners the instances S were
\* on: a total over the new maps, or no entry without one in runnerInstances.
Recompute(S, r, runners, insts, queues) ==
    [s \in RunnerAddrs |->
        IF s = r \/ \E i \in S : instanceRunner[i] = s
        THEN IF s \in runners THEN Total(queues, insts[s]) ELSE None
        ELSE runnerRequests[s]]

-----------------------------------------------------------------------------
(* The operations of the RoutingCache interface that write *)

\* The instance leaves its previous function and runner, if it has others,
\* and enters the given ones.
SetInstance(f, i, r, q) ==
    /\ funcInstances' = [LeaveFunctions({i}) EXCEPT ![f][i] = q]
    /\ instanceFunction' = [instanceFunction EXCEPT ![i] = f]
    /\ instanceRunner' = [instanceRunner EXCEPT ![i] = r]
    /\ instanceQueue' = [instanceQueue EXCEPT ![i] = q]
    /\ cachedRunners' = cachedRunners \cup {r}
    /\ runnerInstances' = [LeaveRunners({i}, r) EXCEPT ![r] = @ \cup {i}]
    /\ runnerRequests' =
          Recompute({i}, r, cachedRunners', runnerInstances', instanceQueue')
    /\ UNCHANGED runnerStats

\* The reported instances move to the runner and take the reported queue
\* lengths, also in their function's map if the function is known; those the
\* runner had and does not report are removed from every map.
UpsertRunnerHeartbeat(r, depths) ==
    LET reported == DOMAIN depths
        gone == runnerInstances[r] \ reported
    IN  /\ funcInstances' = [f \in FunctionIds |-> [i \in InstanceIds |->
              IF i \in reported /\ instanceFunction[i] = f
              THEN depths[i] ELSE LeaveFunctions(gone)[f][i]]]
        /\ instanceFunction' = Delete(instanceFunction, gone, None)
        /\ instanceRunner' = [i \in InstanceIds |->
              IF i \in reported THEN r ELSE Delete(instanceRunner, gone, None)[i]]
        /\ instanceQueue' = [i \in InstanceIds |->
              IF i \in reported THEN depths[i] ELSE Delete(instanceQueue, gone, 0)[i]]
        /\ cachedRunners' = cachedRunners \cup {r}
        /\ runnerInstances' = [LeaveRunners(reported, r) EXCEPT ![r] = reported]
        /\ runnerRequests' =
              Recompute(reported, r, cachedRunners', runnerInstances', instanceQueue')
        /\ runnerStats' = runnerStats \cup {r}

\* The runner and all of its instances leave every map.
RemoveRunner(r) ==
    /\ funcInstances' = LeaveFunctions(runnerInstances[r])
    /\ instanceFunction' = Delete(instanceFunction, runnerInstances[r], None)
    /\ instanceRunner' = Delete(instanceRunner, runnerInstances[r], None)
    /\ instanceQueue' = Delete(instanceQueue, runnerInstances[r], 0)
    /\ cachedRunners' = cachedRunners \ {r}
    /\ runnerInstances' = [runnerInstances EXCEPT ![r] = {}]
    /\ runnerRequests' = [runnerRequests EXCEPT ![r] = None]
    /\ runnerStats' = runnerStats \ {r}

QueueDepthReports == UNION {[D -> QueueLens] : D \in SUBSET InstanceIds}

\* The cache of a new Commander is empty.
CacheRestart == CacheInit'

CacheNext ==
    \/ \E r \in RunnerAddrs :
          \/ \E f \in FunctionIds, i \in InstanceIds, q \in QueueLens : SetInstance(f, i, r, q)
          \/ \E depths \in QueueDepthReports : UpsertRunnerHeartbeat(r, depths)
          \/ RemoveRunner(r)
    \/ CacheRestart

CacheSpec == CacheInit /\ [][CacheNext]_cacheVars

-----------------------------------------------------------------------------
(* Properties *)

\* The maps hold what the code stores in them.
CacheTypeOK ==
    /\ funcInstances \in [FunctionIds -> [InstanceIds -> Nat \cup {None}]]
    /\ instanceFunction \in [InstanceIds -> FunctionIds \cup {None}]
    /\ instanceRunner \in [InstanceIds -> RunnerAddrs \cup {None}]
    /\ instanceQueue \in [InstanceIds -> Nat]
    /\ cachedRunners \subseteq RunnerAddrs
    /\ runnerInstances \in [RunnerAddrs -> SUBSET InstanceIds]
    /\ runnerRequests \in [RunnerAddrs -> Nat \cup {None}]
    /\ runnerStats \subseteq RunnerAddrs

\* The five maps describe one set of instances, through preparations that end
\* late, partial heartbeats and evictions in any order: an
\* instance is listed by exactly the runner it is on and by exactly the
\* function it runs, there with its current queue length; whatever Route
\* finds for a function has a runner, and that runner is known.
IndexesAgree ==
    /\ \A r \in RunnerAddrs, i \in InstanceIds :
          i \in runnerInstances[r] <=> instanceRunner[i] = r
    /\ \A f \in FunctionIds, i \in InstanceIds :
          funcInstances[f][i] = IF instanceFunction[i] = f THEN instanceQueue[i] ELSE None
    /\ \A i \in InstanceIds :
          /\ instanceFunction[i] # None => instanceRunner[i] # None
          /\ instanceRunner[i] # None => instanceRunner[i] \in cachedRunners
    /\ runnerStats \subseteq cachedRunners

\* The total that decides which runner gets the next instance is, for every
\* known runner, the sum of the queue lengths of its instances, and an
\* unknown runner has none: it is never picked.
RequestsAreTotals ==
    \A r \in RunnerAddrs :
        runnerRequests[r] =
            IF r \in cachedRunners THEN Total(instanceQueue, runnerInstances[r]) ELSE None
=============================================================================
