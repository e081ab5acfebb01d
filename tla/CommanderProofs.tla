-------------------------- MODULE CommanderProofs ---------------------------
(***************************************************************************)
(* The maps of the routing cache agree and what the Commander hands out is *)
(* right, for any number of functions, instances, runners, requests and    *)
(* crashes.                                                                *)
(***************************************************************************)
EXTENDS Commander, TLAPS

-----------------------------------------------------------------------------
(* The routing cache by itself.  Nothing is needed of Total but that it    *)
(* depends on the queue lengths of the summed instances alone.             *)

\* The types without that of the totals, which would take an induction over
\* the set that is summed.
MapsOK ==
    /\ funcInstances \in [FunctionIds -> [InstanceIds -> Nat \cup {None}]]
    /\ instanceFunction \in [InstanceIds -> FunctionIds \cup {None}]
    /\ instanceRunner \in [InstanceIds -> RunnerAddrs \cup {None}]
    /\ instanceQueue \in [InstanceIds -> Nat]
    /\ cachedRunners \subseteq RunnerAddrs
    /\ runnerInstances \in [RunnerAddrs -> SUBSET InstanceIds]
    /\ DOMAIN runnerRequests = RunnerAddrs
    /\ runnerStats \subseteq RunnerAddrs

CacheIInv == MapsOK /\ IndexesAgree /\ RequestsAreTotals

\* The total of a set of instances changes only with their queue lengths.
LEMMA TotalLocal ==
    ASSUME NEW q, NEW p, NEW S, \A i \in S : q[i] = p[i]
    PROVE  Total(q, S) = Total(p, S)
<1>1. Restrict(q, S) = Restrict(p, S)
  BY DEF Restrict
<1> QED
  BY <1>1 DEF Total

\* Recomputing r and the runners that lost instances leaves every total
\* right, when the other runners keep their instances and these their
\* queue lengths.
LEMMA RecomputeTotals ==
    ASSUME NEW S, NEW r \in RunnerAddrs, RequestsAreTotals,
           runnerRequests' =
               Recompute(S, r, cachedRunners', runnerInstances', instanceQueue'),
           \A s \in RunnerAddrs :
               s # r /\ (\A i \in S : instanceRunner[i] # s) =>
                   /\ s \in cachedRunners' <=> s \in cachedRunners
                   /\ runnerInstances'[s] = runnerInstances[s]
                   /\ \A i \in runnerInstances[s] : instanceQueue'[i] = instanceQueue[i]
    PROVE  RequestsAreTotals'
<1> SUFFICES ASSUME NEW s \in RunnerAddrs
             PROVE  runnerRequests'[s] =
                        IF s \in cachedRunners'
                        THEN Total(instanceQueue', runnerInstances'[s]) ELSE None
  BY DEF RequestsAreTotals
<1>1. CASE s = r \/ \E i \in S : instanceRunner[i] = s
  BY <1>1 DEF Recompute
<1>2. CASE s # r /\ \A i \in S : instanceRunner[i] # s
  <2>1. runnerRequests'[s] = runnerRequests[s]
    BY <1>2 DEF Recompute
  <2>2. Total(instanceQueue', runnerInstances[s]) = Total(instanceQueue, runnerInstances[s])
    BY <1>2, TotalLocal
  <2> QED
    BY <1>2, <2>1, <2>2 DEF RequestsAreTotals
<1> QED
  BY <1>1, <1>2

\* SetInstance keeps the maps in agreement.
LEMMA SetInstanceKeeps ==
    ASSUME NEW f \in FunctionIds, NEW i \in InstanceIds, NEW r \in RunnerAddrs,
           NEW q \in QueueLens, CacheIInv, SetInstance(f, i, r, q)
    PROVE  CacheIInv'
<1> USE CacheAssumption
<1>1. MapsOK'
  BY DEF CacheIInv, MapsOK, SetInstance, LeaveFunctions, LeaveRunners, Recompute
<1>2. ASSUME NEW s \in RunnerAddrs, NEW j \in InstanceIds
      PROVE  j \in runnerInstances'[s] <=> instanceRunner'[j] = s
  BY DEF CacheIInv, MapsOK, IndexesAgree, SetInstance, LeaveRunners
<1>3. ASSUME NEW g \in FunctionIds, NEW j \in InstanceIds
      PROVE  funcInstances'[g][j] = IF instanceFunction'[j] = g THEN instanceQueue'[j] ELSE None
  BY DEF CacheIInv, MapsOK, IndexesAgree, SetInstance, LeaveFunctions
<1>4. ASSUME NEW j \in InstanceIds
      PROVE  /\ instanceFunction'[j] # None => instanceRunner'[j] # None
             /\ instanceRunner'[j] # None => instanceRunner'[j] \in cachedRunners'
  BY DEF CacheIInv, MapsOK, IndexesAgree, SetInstance
<1>5. runnerStats' \subseteq cachedRunners'
  BY DEF CacheIInv, IndexesAgree, SetInstance
<1>6. RequestsAreTotals'
  <2>1. ASSUME NEW s \in RunnerAddrs, s # r, instanceRunner[i] # s
        PROVE  /\ s \in cachedRunners' <=> s \in cachedRunners
               /\ runnerInstances'[s] = runnerInstances[s]
               /\ \A j \in runnerInstances[s] : instanceQueue'[j] = instanceQueue[j]
    <3>1. runnerInstances'[s] = runnerInstances[s]
      BY ZenonT(30), <2>1 DEF CacheIInv, MapsOK, SetInstance, LeaveRunners
    <3>2. \A j \in runnerInstances[s] : j \in InstanceIds /\ j # i
      BY <2>1 DEF CacheIInv, MapsOK, IndexesAgree
    <3>3. \A j \in runnerInstances[s] : instanceQueue'[j] = instanceQueue[j]
      BY <3>2 DEF CacheIInv, MapsOK, SetInstance
    <3> QED
      BY <2>1, <3>1, <3>3 DEF SetInstance
  <2>2. runnerRequests' =
            Recompute({i}, r, cachedRunners', runnerInstances', instanceQueue')
    BY DEF SetInstance
  <2>3. \A s \in RunnerAddrs :
            s # r /\ (\A j \in {i} : instanceRunner[j] # s) =>
                /\ s \in cachedRunners' <=> s \in cachedRunners
                /\ runnerInstances'[s] = runnerInstances[s]
                /\ \A j \in runnerInstances[s] : instanceQueue'[j] = instanceQueue[j]
    BY <2>1
  <2>4. RequestsAreTotals
    BY DEF CacheIInv
  <2> QED
    BY <2>2, <2>3, <2>4, RecomputeTotals
<1> QED
  BY <1>1, <1>2, <1>3, <1>4, <1>5, <1>6 DEF CacheIInv, IndexesAgree

\* A heartbeat, which may move, update, drop and add instances at once,
\* keeps the maps in agreement.
LEMMA HeartbeatKeeps ==
    ASSUME NEW r \in RunnerAddrs, NEW depths \in QueueDepthReports, CacheIInv,
           UpsertRunnerHeartbeat(r, depths)
    PROVE  CacheIInv'
<1> USE CacheAssumption
<1> DEFINE reported == DOMAIN depths
           gone == runnerInstances[r] \ reported
<1>0. reported \subseteq InstanceIds /\ \A i \in reported : depths[i] \in Nat
  <2>1. PICK D \in SUBSET InstanceIds : depths \in [D -> QueueLens]
    BY DEF QueueDepthReports
  <2>2. reported = D /\ \A i \in D : depths[i] \in QueueLens
    BY <2>1
  <2> QED
    BY ZenonT(30), <2>2
<1>1. MapsOK'
  BY <1>0 DEF CacheIInv, MapsOK, UpsertRunnerHeartbeat, LeaveFunctions, LeaveRunners,
              Recompute, Delete
<1>2. ASSUME NEW s \in RunnerAddrs, NEW j \in InstanceIds
      PROVE  j \in runnerInstances'[s] <=> instanceRunner'[j] = s
  BY <1>0 DEF CacheIInv, MapsOK, IndexesAgree, UpsertRunnerHeartbeat, LeaveRunners, Delete
<1>3. ASSUME NEW g \in FunctionIds, NEW j \in InstanceIds
      PROVE  funcInstances'[g][j] = IF instanceFunction'[j] = g THEN instanceQueue'[j] ELSE None
  BY <1>0 DEF CacheIInv, MapsOK, IndexesAgree, UpsertRunnerHeartbeat, LeaveFunctions, Delete
<1>4. ASSUME NEW j \in InstanceIds
      PROVE  /\ instanceFunction'[j] # None => instanceRunner'[j] # None
             /\ instanceRunner'[j] # None => instanceRunner'[j] \in cachedRunners'
  BY <1>0 DEF CacheIInv, MapsOK, IndexesAgree, UpsertRunnerHeartbeat, Delete
<1>5. runnerStats' \subseteq cachedRunners'
  BY DEF CacheIInv, IndexesAgree, UpsertRunnerHeartbeat
<1>6. RequestsAreTotals'
  <2>1. ASSUME NEW s \in RunnerAddrs, s # r, \A i \in reported : instanceRunner[i] # s
        PROVE  /\ s \in cachedRunners' <=> s \in cachedRunners
               /\ runnerInstances'[s] = runnerInstances[s]
               /\ \A j \in runnerInstances[s] : instanceQueue'[j] = instanceQueue[j]
    <3>1. \A j \in runnerInstances[s] : j \in InstanceIds /\ j \notin reported /\ j \notin gone
      BY <2>1 DEF CacheIInv, MapsOK, IndexesAgree
    <3> QED
      BY ZenonT(30), <2>1, <3>1, <1>0
      DEF CacheIInv, MapsOK, UpsertRunnerHeartbeat, LeaveRunners, Delete
  <2>2. runnerRequests' =
            Recompute(reported, r, cachedRunners', runnerInstances', instanceQueue')
    BY DEF UpsertRunnerHeartbeat
  <2>3. RequestsAreTotals
    BY DEF CacheIInv
  <2> HIDE DEF reported
  <2> QED
    BY <2>1, <2>2, <2>3, RecomputeTotals
<1> QED
  BY <1>1, <1>2, <1>3, <1>4, <1>5, <1>6 DEF CacheIInv, IndexesAgree

\* An eviction keeps the maps in agreement.
LEMMA RemoveRunnerKeeps ==
    ASSUME NEW r \in RunnerAddrs, CacheIInv, RemoveRunner(r)
    PROVE  CacheIInv'
<1> USE CacheAssumption
<1>1. MapsOK'
  BY DEF CacheIInv, MapsOK, RemoveRunner, LeaveFunctions, Delete
<1>2. ASSUME NEW s \in RunnerAddrs, NEW j \in InstanceIds
      PROVE  j \in runnerInstances'[s] <=> instanceRunner'[j] = s
  BY DEF CacheIInv, MapsOK, IndexesAgree, RemoveRunner, Delete
<1>3. ASSUME NEW g \in FunctionIds, NEW j \in InstanceIds
      PROVE  funcInstances'[g][j] = IF instanceFunction'[j] = g THEN instanceQueue'[j] ELSE None
  BY DEF CacheIInv, MapsOK, IndexesAgree, RemoveRunner, LeaveFunctions, Delete
<1>4. ASSUME NEW j \in InstanceIds
      PROVE  /\ instanceFunction'[j] # None => instanceRunner'[j] # None
             /\ instanceRunner'[j] # None => instanceRunner'[j] \in cachedRunners'
  BY DEF CacheIInv, MapsOK, IndexesAgree, RemoveRunner, Delete
<1>5. runnerStats' \subseteq cachedRunners'
  BY DEF CacheIInv, IndexesAgree, RemoveRunner
<1>6. ASSUME NEW s \in RunnerAddrs
      PROVE  runnerRequests'[s] =
                 IF s \in cachedRunners'
                 THEN Total(instanceQueue', runnerInstances'[s]) ELSE None
  <2>1. CASE s = r
    BY <2>1 DEF CacheIInv, MapsOK, RemoveRunner
  <2>2. CASE s # r
    <3>1. \A j \in runnerInstances[s] : instanceQueue'[j] = instanceQueue[j]
      BY <2>2 DEF CacheIInv, MapsOK, IndexesAgree, RemoveRunner, Delete
    <3>2. Total(instanceQueue', runnerInstances[s]) = Total(instanceQueue, runnerInstances[s])
      BY <3>1, TotalLocal
    <3> QED
      BY <2>2, <3>2 DEF CacheIInv, MapsOK, RequestsAreTotals, RemoveRunner
  <2> QED
    BY <2>1, <2>2
<1> QED
  BY <1>1, <1>2, <1>3, <1>4, <1>5, <1>6 DEF CacheIInv, IndexesAgree, RequestsAreTotals

\* Every operation keeps the cache in agreement, and a new one is.
LEMMA CacheIInvStep == CacheIInv /\ [CacheNext]_cacheVars => CacheIInv'
<1> SUFFICES ASSUME CacheIInv, [CacheNext]_cacheVars PROVE CacheIInv'
  OBVIOUS
<1>1. CASE UNCHANGED cacheVars
  BY <1>1 DEF cacheVars, CacheIInv, MapsOK, IndexesAgree, RequestsAreTotals
<1>2. CASE CacheRestart
  BY <1>2, CacheAssumption
     DEF CacheRestart, CacheInit, CacheIInv, MapsOK, IndexesAgree, RequestsAreTotals
<1>3. CASE CacheNext
  BY <1>2, <1>3, SetInstanceKeeps, HeartbeatKeeps, RemoveRunnerKeeps DEF CacheNext
<1> QED
  BY <1>1, <1>3

\* The invariant of the cache holds from its empty state on.
LEMMA CacheIInvCorrect == CacheSpec => []CacheIInv
<1>1. CacheInit => CacheIInv
  BY CacheAssumption
     DEF CacheInit, CacheIInv, MapsOK, IndexesAgree, RequestsAreTotals
<1> QED
  BY <1>1, CacheIInvStep, PTL DEF CacheSpec

\* The maps of the cache describe the same instances after any sequence of
\* SetInstance, UpsertRunnerHeartbeat and RemoveRunner.
THEOREM CacheConsistent == CacheSpec => []IndexesAgree
BY CacheIInvCorrect, PTL DEF CacheIInv

\* The request totals by which runners are chosen are always the sums over
\* the runners' instances.
THEOREM TotalsCorrect == CacheSpec => []RequestsAreTotals
BY CacheIInvCorrect, PTL DEF CacheIInv

-----------------------------------------------------------------------------
(* The Commander: the inductive invariant *)

\* An id that no runner has given out has neither runner nor function.
FreshUnused ==
    \A i \in InstanceIds : life[i] = "fresh" => home[i] = None /\ runs[i] = None

\* A heartbeat on its way reports instances of the runner that sent it.
RepliesTrue ==
    \A r \in RunnerAddrs : \A i \in DOMAIN reply[r] : home[i] = r

\* A request that holds an instance holds one of its function, and the
\* runner that goes with it.
HeldRight ==
    \A q \in Requests :
        /\ pc[q] \in {"address", "set", "routed"} => runs[pick[q]] = wants[q]
        /\ pc[q] \in {"set", "routed"} => home[pick[q]] = target[q]

\* Only runners of the database are polled.
PolledRegistered ==
    \A r \in RunnerAddrs : poll[r] # "idle" => r \in registered

Truths == FreshUnused /\ RepliesTrue /\ HeldRight /\ PolledRegistered

CommanderIInv ==
    TypeOK /\ CacheIInv /\ CacheIsTrue /\ CachedArePolled /\ Truths

-----------------------------------------------------------------------------
\* Every step of the Commander is a step of its cache or leaves the cache
\* alone: what StoreInstance, ApplyHeartbeat and EvictRunner pass on are
\* functions, instances, runners and reports.
LEMMA CacheImplemented == TypeOK /\ [Next]_vars => [CacheNext]_cacheVars
<1> SUFFICES ASSUME TypeOK, [Next]_vars PROVE [CacheNext]_cacheVars
  OBVIOUS
<1>1. ASSUME NEW q \in Requests, StoreInstance(q) PROVE CacheNext
  <2>1. wants[q] \in FunctionIds /\ pick[q] \in InstanceIds /\ target[q] \in RunnerAddrs
    BY <1>1 DEF StoreInstance, TypeOK, Answered
  <2>2. SetInstance(wants[q], pick[q], target[q], 0)
    BY <1>1 DEF StoreInstance
  <2> QED
    BY <2>1, <2>2, CommanderAssumption DEF CacheNext
<1>2. ASSUME NEW r \in RunnerAddrs, ApplyHeartbeat(r) PROVE CacheNext
  <2>1. reply[r] \in QueueDepthReports
    BY DEF TypeOK
  <2> QED
    BY <1>2, <2>1 DEF ApplyHeartbeat, CacheNext
<1>3. ASSUME NEW r \in RunnerAddrs, EvictRunner(r) PROVE CacheNext
  BY <1>3 DEF EvictRunner, CacheNext
<1>4. CASE CrashCommander
  BY <1>4 DEF CrashCommander, CacheInit, CacheRestart, CacheNext
<1>5. ASSUME NEW r \in RunnerAddrs,
             StartRunner(r) \/ RegisterStep(r) \/ AnswerHeartbeat(r) \/ CrashRunner(r)
      PROVE  UNCHANGED cacheVars
  BY <1>5 DEF StartRunner, RegisterStep, LookupRunner, CheckRunner, PersistRunner,
       FinishRegistration, RegistrationFails, AnswerHeartbeat, CrashRunner
<1>6. ASSUME NEW q \in Requests,
             ReadInstances(q) \/ ReadAddress(q) \/ PickRunner(q) \/ ReadFunction(q)
                \/ PrepareFails(q) \/ InvokeInstance(q)
      PROVE  UNCHANGED cacheVars
  BY <1>6 DEF ReadInstances, ReadAddress, PickRunner, ReadFunction, PrepareFails, InvokeInstance
<1>7. StartPollRound \/ (\E r \in RunnerAddrs, f \in FunctionIds : PrepareInstance(r, f))
        \/ (\E i \in InstanceIds : ExpireInstance(i)) \/ UNCHANGED vars => UNCHANGED cacheVars
  BY DEF StartPollRound, PrepareInstance, ExpireInstance, vars
<1> QED
  BY <1>1, <1>2, <1>3, <1>4, <1>5, <1>6, <1>7 DEF Next, PollStep, RequestStep

\* So the maps of the running Commander's cache agree.
LEMMA CacheStep == CommanderIInv /\ [Next]_vars => CacheIInv'
BY CacheImplemented, CacheIInvStep DEF CommanderIInv

\* The heartbeat of a runner without instances is a report like others.
LEMMA NoDepthsReported == NoDepths \in QueueDepthReports
<1>1. {} \in SUBSET InstanceIds
  OBVIOUS
<1>2. NoDepths \in [{} -> QueueLens]
  BY DEF NoDepths
<1> QED
  BY ZenonT(30), <1>1, <1>2 DEF QueueDepthReports

\* The variables keep their types, and the requests what they work with.
LEMMA TypeStep == CommanderIInv /\ [Next]_vars => TypeOK'
<1> SUFFICES ASSUME CommanderIInv, [Next]_vars PROVE TypeOK'
  OBVIOUS
<1> USE CacheAssumption, CommanderAssumption
<1>0. TypeOK /\ MapsOK
  BY DEF CommanderIInv, CacheIInv
<1>15. NoDepths \in QueueDepthReports
  BY NoDepthsReported
<1>1. CASE UNCHANGED vars
  BY <1>0, <1>1 DEF vars, fleetVars, pollVars, requestVars, TypeOK
<1>2. ASSUME NEW r \in RunnerAddrs,
             StartRunner(r) \/ LookupRunner(r) \/ CheckRunner(r) \/ PersistRunner(r)
                \/ FinishRegistration(r)
      PROVE  TypeOK'
  BY <1>0, <1>2 DEF StartRunner, LookupRunner, CheckRunner, PersistRunner,
       FinishRegistration, RunnerGoto, Registering, pollVars, requestVars, TypeOK
<1>3. ASSUME NEW r \in RunnerAddrs, RegistrationFails(r) \/ CrashRunner(r)
      PROVE  TypeOK'
  BY <1>0, <1>3 DEF RegistrationFails, CrashRunner, StopRunners, pollVars, requestVars, TypeOK
<1>4. ASSUME NEW r \in RunnerAddrs, AnswerHeartbeat(r) PROVE TypeOK'
  <2>1. PICK depths \in [Reported(r) -> QueueLens] : reply' = [reply EXCEPT ![r] = depths]
    BY ZenonT(30), <1>4 DEF AnswerHeartbeat
  <2>2. Reported(r) \in SUBSET InstanceIds
    BY DEF Reported
  <2>3. depths \in QueueDepthReports
    BY <2>1, <2>2 DEF QueueDepthReports
  <2> QED
    BY <1>0, <1>4, <2>1, <2>3 DEF AnswerHeartbeat, PollGoto, fleetVars, requestVars, TypeOK
<1>5. ASSUME NEW r \in RunnerAddrs, ApplyHeartbeat(r) \/ EvictRunner(r) PROVE TypeOK'
  BY <1>0, <1>5, <1>15 DEF ApplyHeartbeat, EvictRunner, PollGoto, fleetVars, requestVars, TypeOK
<1>6. CASE StartPollRound
  BY <1>0, <1>6 DEF StartPollRound, fleetVars, requestVars, TypeOK
<1>7. ASSUME NEW q \in Requests, ReadInstances(q) PROVE TypeOK'
  <2>1. PICK f \in FunctionIds :
           /\ wants' = [wants EXCEPT ![q] = f]
           /\ \/ \E i \in Healthy(f) : pick' = [pick EXCEPT ![q] = i] /\ Goto(q, "address")
              \/ Healthy(f) = {} /\ Goto(q, "runners") /\ UNCHANGED pick
    BY ZenonT(30), <1>7 DEF ReadInstances
  <2>2. CASE Goto(q, "runners") /\ UNCHANGED pick
    BY <1>0, <1>7, <2>1, <2>2
    DEF ReadInstances, Goto, fleetVars, pollVars, RequestPCs, Answered, TypeOK
  <2>3. ASSUME NEW i \in InstanceIds, pick' = [pick EXCEPT ![q] = i], Goto(q, "address")
        PROVE  TypeOK'
    <3>1. i # None
      OBVIOUS
    <3> QED
      BY <1>0, <1>7, <2>1, <2>3, <3>1
         DEF ReadInstances, Goto, fleetVars, pollVars, RequestPCs, Answered, TypeOK
  <2>4. Healthy(f) \subseteq InstanceIds
    BY DEF Healthy
  <2> QED
    BY <2>1, <2>2, <2>3, <2>4
<1>8. ASSUME NEW q \in Requests, ReadAddress(q) PROVE TypeOK'
  <2>1. pick[q] \in InstanceIds
    BY <1>0, <1>8 DEF ReadAddress, TypeOK
  <2>2. instanceRunner[pick[q]] \in RunnerAddrs \cup {None}
    BY <1>0, <2>1 DEF MapsOK
  <2>3. CASE Finish(q, "failed")
    BY <1>0, <1>8, <2>3
    DEF ReadAddress, Goto, Finish, fleetVars, pollVars, RequestPCs, Answered, TypeOK
  <2>4. CASE ~ Finish(q, "failed")
    BY <1>0, <1>8, <2>1, <2>2, <2>4
       DEF ReadAddress, Goto, fleetVars, pollVars, RequestPCs, Answered, TypeOK
  <2> QED
    BY <2>3, <2>4
<1>9. ASSUME NEW q \in Requests, PickRunner(q) \/ ReadFunction(q) \/ PrepareFails(q)
      PROVE  TypeOK'
  BY <1>0, <1>9 DEF PickRunner, LeastLoaded, ReadFunction, PrepareFails, Goto, Finish,
       fleetVars, pollVars, RequestPCs, Answered, TypeOK
<1>10. ASSUME NEW q \in Requests, StoreInstance(q) PROVE TypeOK'
  BY <1>0, <1>10 DEF StoreInstance, Goto, fleetVars, pollVars, RequestPCs, Answered, TypeOK
<1>11. ASSUME NEW q \in Requests, InvokeInstance(q) PROVE TypeOK'
  BY <1>0, <1>11 DEF InvokeInstance, Goto, Finish, pollVars, RequestPCs, Answered, TypeOK
<1>12. ASSUME NEW r \in RunnerAddrs, NEW f \in FunctionIds, PrepareInstance(r, f)
       PROVE  TypeOK'
  <2>1. PICK i \in InstanceIds, S \in SUBSET Preparing(r, f) :
           /\ life' = [life EXCEPT ![i] = "running"]
           /\ home' = [home EXCEPT ![i] = r]
           /\ runs' = [runs EXCEPT ![i] = f]
           /\ pick' = [q \in Requests |-> IF q \in S THEN i ELSE pick[q]]
           /\ pc' = [q \in Requests |-> IF q \in S THEN "set" ELSE pc[q]]
    BY ZenonT(30), <1>12 DEF PrepareInstance
  <2>2. i # None
    OBVIOUS
  <2>3. \A q \in S : pc[q] = "prepare"
    BY <2>1 DEF Preparing
  <2> QED
    BY <1>0, <1>12, <2>1, <2>2, <2>3 DEF PrepareInstance, pollVars, RequestPCs, Answered, TypeOK
<1>13. ASSUME NEW i \in InstanceIds, ExpireInstance(i) PROVE TypeOK'
  BY ZenonT(30), <1>0, <1>13 DEF ExpireInstance, pollVars, requestVars, TypeOK
<1>14. CASE CrashCommander
  BY <1>0, <1>14, <1>15 DEF CrashCommander, StopRunners, RequestPCs, Answered, TypeOK
<1> QED
  BY <1>1, <1>2, <1>3, <1>4, <1>5, <1>6, <1>7, <1>8, <1>9, <1>10, <1>11, <1>12, <1>13, <1>14
     DEF Next, RegisterStep, PollStep, RequestStep

\* What the cache says of instances stays true, and so does what requests
\* and heartbeats on their way hold.
LEMMA TruthStep ==
    CommanderIInv /\ [Next]_vars => CacheIsTrue' /\ CachedArePolled' /\ Truths'
<1> SUFFICES ASSUME CommanderIInv, [Next]_vars PROVE CacheIsTrue' /\ CachedArePolled' /\ Truths'
  OBVIOUS
<1> USE CacheAssumption, CommanderAssumption
<1>0. TypeOK /\ MapsOK /\ IndexesAgree /\ CacheIsTrue /\ CachedArePolled /\ Truths
  BY DEF CommanderIInv, CacheIInv
<1>1. CASE UNCHANGED vars
  BY ZenonT(30), <1>0, <1>1 DEF vars, cacheVars, fleetVars, pollVars, requestVars, CacheIsTrue,
       CachedArePolled, Truths, FreshUnused, RepliesTrue, HeldRight, PolledRegistered
<1>2. ASSUME NEW r \in RunnerAddrs,
             StartRunner(r) \/ LookupRunner(r) \/ CheckRunner(r) \/ PersistRunner(r)
                \/ FinishRegistration(r)
      PROVE  CacheIsTrue' /\ CachedArePolled' /\ Truths'
  BY <1>0, <1>2
  DEF StartRunner, LookupRunner, CheckRunner, PersistRunner, FinishRegistration,
       cacheVars, pollVars, requestVars, CacheIsTrue,
       CachedArePolled, Truths, FreshUnused, RepliesTrue, HeldRight, PolledRegistered
<1>3. ASSUME NEW r \in RunnerAddrs, RegistrationFails(r) \/ CrashRunner(r)
      PROVE  CacheIsTrue' /\ CachedArePolled' /\ Truths'
  BY <1>0, <1>3 DEF RegistrationFails, CrashRunner, StopRunners, TypeOK,
       cacheVars, pollVars, requestVars, CacheIsTrue,
       CachedArePolled, Truths, FreshUnused, RepliesTrue, HeldRight, PolledRegistered
<1>4. ASSUME NEW r \in RunnerAddrs, AnswerHeartbeat(r)
      PROVE  CacheIsTrue' /\ CachedArePolled' /\ Truths'
  <2>1. PICK depths \in [Reported(r) -> QueueLens] : reply' = [reply EXCEPT ![r] = depths]
    BY ZenonT(30), <1>4 DEF AnswerHeartbeat
  <2>2. RepliesTrue'
    BY <1>0, <1>4, <2>1 DEF AnswerHeartbeat, Reported, fleetVars, TypeOK, Truths, RepliesTrue
  <2> QED
    BY <1>0, <1>4, <2>2 DEF AnswerHeartbeat, PollGoto, TypeOK, cacheVars, fleetVars, requestVars,
         CacheIsTrue, CachedArePolled, Truths, FreshUnused, HeldRight, PolledRegistered
<1>5. ASSUME NEW r \in RunnerAddrs, ApplyHeartbeat(r)
      PROVE  CacheIsTrue' /\ CachedArePolled' /\ Truths'
  <2>1. r \in registered
    BY <1>0, <1>5 DEF ApplyHeartbeat, Truths, PolledRegistered
  <2>2. RepliesTrue'
    BY SMTT(30), <1>0, <1>5
    DEF ApplyHeartbeat, NoDepths, fleetVars, TypeOK, Truths, RepliesTrue
  <2>3. CacheIsTrue'
    BY ZenonT(30), <1>0, <1>5
    DEF ApplyHeartbeat, UpsertRunnerHeartbeat, Delete, fleetVars, CacheIsTrue,
         Truths, RepliesTrue
  <2>4. CachedArePolled'
    BY ZenonT(30), <1>0, <1>5, <2>1
    DEF ApplyHeartbeat, UpsertRunnerHeartbeat, fleetVars, requestVars,
         CachedArePolled
  <2> QED
    BY <1>0, <1>5, <2>2, <2>3, <2>4 DEF ApplyHeartbeat, PollGoto, TypeOK, fleetVars, requestVars,
         Truths, FreshUnused, HeldRight, PolledRegistered
<1>6. ASSUME NEW r \in RunnerAddrs, EvictRunner(r)
      PROVE  CacheIsTrue' /\ CachedArePolled' /\ Truths'
  <2>1. CacheIsTrue' /\ CachedArePolled'
    BY ZenonT(30), <1>0, <1>6
    DEF EvictRunner, RemoveRunner, Delete, fleetVars, requestVars, CacheIsTrue,
         CachedArePolled
  <2> QED
    BY SMTT(30), <1>0, <1>6, <2>1
    DEF EvictRunner, PollGoto, TypeOK, fleetVars, requestVars,
         Truths, FreshUnused, RepliesTrue, HeldRight, PolledRegistered
<1>7. CASE StartPollRound
  BY <1>0, <1>7 DEF StartPollRound, cacheVars, fleetVars, requestVars, CacheIsTrue,
       CachedArePolled, Truths, FreshUnused, RepliesTrue, HeldRight, PolledRegistered
<1>8. ASSUME UNCHANGED <<cacheVars, registered, home, runs, poll, reply>>,
             \A i \in InstanceIds : life'[i] = "fresh" => life[i] = "fresh"
      PROVE  CacheIsTrue' /\ FreshUnused' /\ RepliesTrue' /\ PolledRegistered'
  BY SMTT(30), <1>0, <1>8
  DEF cacheVars, TypeOK, CacheIsTrue, Truths, FreshUnused, RepliesTrue,
       PolledRegistered
<1>9. ASSUME NEW q \in Requests, ReadInstances(q)
      PROVE  CacheIsTrue' /\ CachedArePolled' /\ Truths'
  <2>1. PICK f \in FunctionIds :
           /\ wants' = [wants EXCEPT ![q] = f]
           /\ \/ \E i \in Healthy(f) : pick' = [pick EXCEPT ![q] = i] /\ Goto(q, "address")
              \/ Healthy(f) = {} /\ Goto(q, "runners") /\ UNCHANGED pick
    BY ZenonT(30), <1>9 DEF ReadInstances
  <2>2. \A i \in Healthy(f) : i \in InstanceIds /\ runs[i] = f
    BY <1>0 DEF Healthy, IndexesAgree, CacheIsTrue
  <2>3. HeldRight' /\ CachedArePolled'
    BY SMTT(30), <1>0, <1>9, <2>1, <2>2
    DEF ReadInstances, Goto, cacheVars, fleetVars, TypeOK,
         Truths, HeldRight, CachedArePolled
  <2> QED
    BY ZenonT(30), <1>8, <1>9, <2>3 DEF ReadInstances, fleetVars, pollVars, Truths
<1>10. ASSUME NEW q \in Requests, ReadAddress(q)
       PROVE  CacheIsTrue' /\ CachedArePolled' /\ Truths'
  <2>1. pick[q] \in InstanceIds
    BY <1>0, <1>10 DEF ReadAddress, TypeOK
  <2>2. instanceRunner[pick[q]] # None => instanceRunner[pick[q]] = home[pick[q]]
    BY <1>0, <2>1 DEF CacheIsTrue
  <2>3. HeldRight' /\ CachedArePolled'
    BY SMTT(30), <1>0, <1>10, <2>1, <2>2
    DEF ReadAddress, Goto, Finish, cacheVars, fleetVars, TypeOK,
         Truths, HeldRight, CachedArePolled
  <2> QED
    BY ZenonT(30), <1>8, <1>10, <2>3 DEF ReadAddress, fleetVars, pollVars, Truths
<1>11. ASSUME NEW q \in Requests, PickRunner(q)
       PROVE  CacheIsTrue' /\ CachedArePolled' /\ Truths'
  <2>1. LeastLoaded \subseteq cachedRunners
    BY ZenonT(30) DEF LeastLoaded, CommanderIInv, CacheIInv, RequestsAreTotals
  <2>2. HeldRight' /\ CachedArePolled'
    BY SMTT(30), <1>0, <1>11, <2>1
    DEF PickRunner, Goto, Finish, cacheVars, fleetVars, TypeOK,
         Truths, HeldRight, CachedArePolled
  <2> QED
    BY ZenonT(30), <1>8, <1>11, <2>2 DEF PickRunner, fleetVars, pollVars, Truths
<1>12. ASSUME NEW q \in Requests, ReadFunction(q) \/ PrepareFails(q)
       PROVE  CacheIsTrue' /\ CachedArePolled' /\ Truths'
  <2>1. HeldRight' /\ CachedArePolled'
    BY <1>0, <1>12 DEF ReadFunction, PrepareFails, Goto, Finish, cacheVars, fleetVars, TypeOK,
         Truths, HeldRight, CachedArePolled
  <2> QED
    BY ZenonT(30), <1>8, <1>12, <2>1 DEF ReadFunction, PrepareFails, fleetVars, pollVars, Truths
<1>13. ASSUME NEW r \in RunnerAddrs, NEW f \in FunctionIds, PrepareInstance(r, f)
       PROVE  CacheIsTrue' /\ CachedArePolled' /\ Truths'
  <2>1. PICK i \in InstanceIds, S \in SUBSET Preparing(r, f) :
           /\ life[i] = "fresh"
           /\ life' = [life EXCEPT ![i] = "running"]
           /\ home' = [home EXCEPT ![i] = r]
           /\ runs' = [runs EXCEPT ![i] = f]
           /\ pick' = [q \in Requests |-> IF q \in S THEN i ELSE pick[q]]
           /\ pc' = [q \in Requests |-> IF q \in S THEN "set" ELSE pc[q]]
    BY ZenonT(30), <1>13 DEF PrepareInstance
  <2>2. home[i] = None /\ runs[i] = None
    BY <1>0, <2>1 DEF Truths, FreshUnused
  <2>3. CacheIsTrue'
    <3>1. instanceFunction[i] = None /\ instanceRunner[i] = None
      BY ZenonT(30), <1>0, <2>2 DEF CacheIsTrue
    <3>2. \A j \in InstanceIds \ {i} : home'[j] = home[j] /\ runs'[j] = runs[j]
      BY <1>0, <2>1 DEF TypeOK
    <3>3. UNCHANGED <<instanceFunction, instanceRunner>>
      BY ZenonT(30), <1>13 DEF PrepareInstance, cacheVars
    <3> QED
      BY ZenonT(30), <1>0, <3>1, <3>2, <3>3 DEF CacheIsTrue
  <2>4. FreshUnused' /\ PolledRegistered'
    BY ZenonT(30), <1>0, <1>13, <2>1 DEF PrepareInstance, pollVars, TypeOK, Truths, FreshUnused,
         PolledRegistered
  <2>5. RepliesTrue'
    BY <1>0, <1>13, <2>1, <2>2 DEF PrepareInstance, pollVars, TypeOK, Truths, RepliesTrue
  <2>6. \A q \in S : pc[q] = "prepare" /\ target[q] = r /\ wants[q] = f
    BY ZenonT(30), <2>1 DEF Preparing
  <2>7. HeldRight'
    BY <1>0, <1>13, <2>1, <2>2, <2>6 DEF PrepareInstance, TypeOK, Answered, Truths, HeldRight
  <2>8. CachedArePolled'
    BY SMTT(30), <1>0, <1>13, <2>1, <2>6
    DEF PrepareInstance, cacheVars, TypeOK, CachedArePolled
  <2> QED
    BY <2>3, <2>4, <2>5, <2>7, <2>8 DEF Truths
<1>14. ASSUME NEW q \in Requests, StoreInstance(q)
       PROVE  CacheIsTrue' /\ CachedArePolled' /\ Truths'
  <2>1. /\ pick[q] \in InstanceIds /\ target[q] \in registered
        /\ runs[pick[q]] = wants[q] /\ home[pick[q]] = target[q]
    BY <1>0, <1>14 DEF StoreInstance, TypeOK, Truths, HeldRight, CachedArePolled
  <2>2. CacheIsTrue'
    BY ZenonT(30), <1>0, <1>14, <2>1
    DEF StoreInstance, SetInstance, fleetVars, MapsOK, CacheIsTrue
  <2>3. HeldRight' /\ CachedArePolled'
    BY <1>0, <1>14, <2>1 DEF StoreInstance, SetInstance, Goto, fleetVars, TypeOK,
         Truths, HeldRight, CachedArePolled
  <2> QED
    BY ZenonT(30), <1>0, <1>14, <2>2, <2>3
    DEF StoreInstance, fleetVars, pollVars, Truths, FreshUnused,
         RepliesTrue, PolledRegistered
<1>15. ASSUME NEW q \in Requests, InvokeInstance(q)
       PROVE  CacheIsTrue' /\ CachedArePolled' /\ Truths'
  <2>1. pick[q] \in InstanceIds
    BY <1>0, <1>15 DEF InvokeInstance, TypeOK
  <2>2. \A i \in InstanceIds : life'[i] = "fresh" => life[i] = "fresh"
    BY <1>0, <1>15, <2>1 DEF InvokeInstance, TypeOK
  <2>3. HeldRight' /\ CachedArePolled'
    BY <1>0, <1>15 DEF InvokeInstance, Goto, Finish, cacheVars, TypeOK,
         Truths, HeldRight, CachedArePolled
  <2> QED
    BY ZenonT(30), <1>8, <1>15, <2>2, <2>3 DEF InvokeInstance, pollVars, Truths
<1>16. ASSUME NEW i \in InstanceIds, ExpireInstance(i)
       PROVE  CacheIsTrue' /\ CachedArePolled' /\ Truths'
  <2>1. \A j \in InstanceIds : life'[j] = "fresh" => life[j] = "fresh"
    BY ZenonT(30), <1>0, <1>16 DEF ExpireInstance, TypeOK
  <2>2. HeldRight' /\ CachedArePolled'
    BY ZenonT(30), <1>0, <1>16
    DEF ExpireInstance, cacheVars, requestVars, Truths, HeldRight, CachedArePolled
  <2> QED
    BY <1>8, <1>16, <2>1, <2>2 DEF ExpireInstance, pollVars, Truths
<1>17. CASE CrashCommander
  BY <1>0, <1>17 DEF CrashCommander, StopRunners, NoDepths, Answered, TypeOK, CacheIsTrue,
       CachedArePolled, Truths, FreshUnused, RepliesTrue, HeldRight, PolledRegistered
<1> QED
  BY <1>1, <1>2, <1>3, <1>4, <1>5, <1>6, <1>7, <1>9, <1>10, <1>11, <1>12, <1>13, <1>14, <1>15,
     <1>16, <1>17 DEF Next, RegisterStep, PollStep, RequestStep

\* The conjuncts hold together from the start and through every step.
LEMMA CommanderIInvCorrect == Spec => []CommanderIInv
<1>1. Init => CommanderIInv
  <2> SUFFICES ASSUME Init PROVE CommanderIInv
    OBVIOUS
  <2>1. CacheIInv
    BY CacheAssumption DEF Init, CacheInit, CacheIInv, MapsOK, IndexesAgree, RequestsAreTotals
  <2>2. TypeOK
    BY NoDepthsReported, CommanderAssumption DEF Init, TypeOK, RequestPCs, Answered
  <2>3. CacheIsTrue /\ CachedArePolled /\ Truths
    BY DEF Init, CacheInit, NoDepths, CacheIsTrue, CachedArePolled, Truths, FreshUnused,
         RepliesTrue, HeldRight, PolledRegistered
  <2> QED
    BY <2>1, <2>2, <2>3 DEF CommanderIInv
<1>2. CommanderIInv /\ [Next]_vars => CommanderIInv'
  BY CacheStep, TypeStep, TruthStep DEF CommanderIInv
<1> QED
  BY <1>1, <1>2, PTL DEF Spec

-----------------------------------------------------------------------------
(* The theorems *)

\* The registration, polling and routing steps keep their variables, and the
\* requests what their stage works with, in their types.
THEOREM TypeCorrect == Spec => []TypeOK
<1>1. CommanderIInv => TypeOK
  BY DEF CommanderIInv
<1> QED
  BY <1>1, CommanderIInvCorrect, PTL

\* The Commander implements the specification of its cache, crashes and
\* restarts included: what holds of every use of the cache holds of this one.
THEOREM ImplementsCache == Spec => CacheSpec
<1>1. Init => CacheInit
  BY DEF Init
<1> QED
  BY <1>1, CacheImplemented, TypeCorrect, PTL DEF Spec, CacheSpec

\* The five maps of the running Commander agree, whatever registrations,
\* heartbeats, evictions and requests do to them in whatever order.
THEOREM CommanderMapsAgree == Spec => []IndexesAgree
BY ImplementsCache, CacheConsistent, PTL

\* RequestsPerRunner, by which the Commander picks a runner, always answers
\* the totals of the queue lengths it knows.
THEOREM CommanderTotalsCorrect == Spec => []RequestsAreTotals
BY ImplementsCache, TotalsCorrect, PTL

\* What SetInstance and UpsertRunnerHeartbeat write about an instance, late
\* and in any order, is the function it runs and the runner it is on.
THEOREM CacheTruthful == Spec => []CacheIsTrue
<1>1. CommanderIInv => CacheIsTrue
  BY ZenonT(30) DEF CommanderIInv
<1> QED
  BY <1>1, CommanderIInvCorrect, PTL

\* RouteFunction never hands out an instance of another function or a runner
\* the instance was not started on.
THEOREM RoutingCorrect == Spec => []RoutedRight
<1>1. CommanderIInv => RoutedRight
  BY ZenonT(30) DEF CommanderIInv, Truths, HeldRight, RoutedRight
<1> QED
  BY <1>1, CommanderIInvCorrect, PTL

\* No runner enters the cache, or is put back into it by a late SetInstance,
\* without being in the database that PollRunnerHeartbeats reads.
THEOREM PollingCorrect == Spec => []CachedArePolled
<1>1. CommanderIInv => CachedArePolled
  BY DEF CommanderIInv
<1> QED
  BY <1>1, CommanderIInvCorrect, PTL

-----------------------------------------------------------------------------
(* What the Commander has forgotten *)

\* The instance is stopped and not in the cache, and no heartbeat and no
\* prepared instance under way mentions it.
InstanceForgotten(i) ==
    /\ life[i] = "gone" /\ instanceRunner[i] = None
    /\ \A r \in RunnerAddrs : i \notin DOMAIN reply[r]
    /\ \A q \in Requests : pc[q] = "set" => pick[q] # i

\* The runner is not in the cache, and neither its heartbeat nor a request
\* that will use it is under way.
RunnerForgotten(r) ==
    /\ r \notin cachedRunners
    /\ poll[r] # "reply"
    /\ \A q \in Requests : pc[q] \in {"function", "prepare", "set"} => target[q] # r

\* A forgotten instance stays forgotten, and no request is given it.
InstanceStaysForgotten(i) ==
    InstanceForgotten(i) =>
        InstanceForgotten(i)' /\ \A q \in Requests : pick'[q] = i => pick[q] = i

\* A forgotten runner that is down stays forgotten, and no request is given it.
RunnerStaysForgotten(r) ==
    runner[r] = "down" /\ RunnerForgotten(r) =>
        RunnerForgotten(r)' /\ \A q \in Requests : target'[q] = r => target[q] = r

\* No step brings a forgotten instance back: ids are not used twice, and only
\* running instances are reported.
LEMMA InstanceForgottenStep ==
    ASSUME CommanderIInv, [Next]_vars, NEW i \in InstanceIds, InstanceForgotten(i)
    PROVE  InstanceForgotten(i)' /\ \A q \in Requests : pick'[q] = i => pick[q] = i
<1> USE CacheAssumption, CommanderAssumption
<1> DEFINE Goal == InstanceForgotten(i)' /\ \A q \in Requests : pick'[q] = i => pick[q] = i
<1>0. TypeOK /\ MapsOK /\ IndexesAgree
  BY DEF CommanderIInv, CacheIInv
<1>1. CASE UNCHANGED vars
  BY ZenonT(30), <1>1 DEF vars, cacheVars, fleetVars, pollVars, requestVars, InstanceForgotten
<1>2. ASSUME NEW r \in RunnerAddrs,
             StartRunner(r) \/ LookupRunner(r) \/ CheckRunner(r) \/ PersistRunner(r)
                \/ FinishRegistration(r)
      PROVE  Goal
  BY <1>2 DEF StartRunner, LookupRunner, CheckRunner, PersistRunner, FinishRegistration,
       cacheVars, pollVars, requestVars, InstanceForgotten
<1>3. ASSUME NEW r \in RunnerAddrs, RegistrationFails(r) \/ CrashRunner(r)
      PROVE  Goal
  BY ZenonT(30), <1>3
  DEF RegistrationFails, CrashRunner, StopRunners, cacheVars, pollVars, requestVars,
       InstanceForgotten
<1>4. ASSUME NEW r \in RunnerAddrs, AnswerHeartbeat(r) PROVE Goal
  <2>1. PICK depths \in [Reported(r) -> QueueLens] : reply' = [reply EXCEPT ![r] = depths]
    BY ZenonT(30), <1>4 DEF AnswerHeartbeat
  <2>2. i \notin DOMAIN depths
    BY <2>1 DEF Reported, InstanceForgotten
  <2>3. \A s \in RunnerAddrs : i \notin DOMAIN reply'[s]
    BY <1>0, <2>1, <2>2 DEF InstanceForgotten, TypeOK
  <2> QED
    BY ZenonT(30), <1>4, <2>3
    DEF AnswerHeartbeat, cacheVars, fleetVars, requestVars, InstanceForgotten
<1>5. ASSUME NEW r \in RunnerAddrs, ApplyHeartbeat(r) PROVE Goal
  <2>1. instanceRunner'[i] = None
    BY ZenonT(30), <1>5 DEF ApplyHeartbeat, UpsertRunnerHeartbeat, Delete, InstanceForgotten
  <2>2. \A s \in RunnerAddrs : i \notin DOMAIN reply'[s]
    BY <1>0, <1>5 DEF ApplyHeartbeat, NoDepths, InstanceForgotten, TypeOK
  <2> QED
    BY ZenonT(30), <1>5, <2>1, <2>2 DEF ApplyHeartbeat, fleetVars, requestVars, InstanceForgotten
<1>6. ASSUME NEW r \in RunnerAddrs, EvictRunner(r) PROVE Goal
  BY ZenonT(30), <1>6
  DEF EvictRunner, RemoveRunner, Delete, fleetVars, requestVars, InstanceForgotten
<1>7. CASE StartPollRound
  BY ZenonT(30), <1>7 DEF StartPollRound, cacheVars, fleetVars, requestVars, InstanceForgotten
<1>8. ASSUME NEW q \in Requests, ReadInstances(q) PROVE Goal
  <2>1. \A f \in FunctionIds : i \notin Healthy(f)
    BY <1>0 DEF Healthy, IndexesAgree, MapsOK, InstanceForgotten
  <2>2. \A p \in Requests : pick'[p] = i => pick[p] = i
    BY <1>0, <1>8, <2>1 DEF ReadInstances, TypeOK
  <2>3. \A p \in Requests : pc'[p] = "set" => pc[p] = "set"
    BY <1>0, <1>8 DEF ReadInstances, Goto, TypeOK
  <2> QED
    BY ZenonT(30), <1>8, <2>2, <2>3
    DEF ReadInstances, cacheVars, fleetVars, pollVars, InstanceForgotten
<1>9. ASSUME NEW q \in Requests,
             ReadAddress(q) \/ PickRunner(q) \/ ReadFunction(q) \/ PrepareFails(q)
      PROVE  Goal
  <2>1. \A p \in Requests : pick'[p] = i => pick[p] = i
    BY ZenonT(30), <1>0, <1>9
    DEF ReadAddress, PickRunner, ReadFunction, PrepareFails, Finish, TypeOK
  <2>2. \A p \in Requests : pc'[p] = "set" => pc[p] = "set"
    BY ZenonT(30), <1>0, <1>9
    DEF ReadAddress, PickRunner, ReadFunction, PrepareFails, Finish, Goto, TypeOK
  <2> QED
    BY ZenonT(30), <1>9, <2>1, <2>2
    DEF ReadAddress, PickRunner, ReadFunction, PrepareFails, cacheVars,
         fleetVars, pollVars, InstanceForgotten
<1>10. ASSUME NEW q \in Requests, StoreInstance(q) PROVE Goal
  BY ZenonT(30), <1>0, <1>10
  DEF StoreInstance, SetInstance, Goto, fleetVars, pollVars, InstanceForgotten,
       TypeOK, MapsOK
<1>11. ASSUME NEW q \in Requests, InvokeInstance(q) PROVE Goal
  <2>1. life'[i] = "gone"
    BY ZenonT(30), <1>0, <1>11 DEF InvokeInstance, InstanceForgotten, TypeOK
  <2> QED
    BY <1>0, <1>11, <2>1 DEF InvokeInstance, Finish, Goto, cacheVars, pollVars,
         InstanceForgotten, TypeOK
<1>12. ASSUME NEW r \in RunnerAddrs, NEW f \in FunctionIds, PrepareInstance(r, f)
       PROVE  Goal
  BY <1>0, <1>12 DEF PrepareInstance, cacheVars, pollVars, InstanceForgotten, TypeOK
<1>13. ASSUME NEW j \in InstanceIds, ExpireInstance(j) PROVE Goal
  BY ZenonT(30), <1>0, <1>13
  DEF ExpireInstance, cacheVars, pollVars, requestVars, InstanceForgotten, TypeOK
<1>14. CASE CrashCommander
  BY <1>0, <1>14 DEF CrashCommander, StopRunners, NoDepths, InstanceForgotten, TypeOK, Answered
<1> QED
  BY ZenonT(30), <1>1, <1>2, <1>3, <1>4, <1>5, <1>6, <1>7, <1>8, <1>9, <1>10, <1>11, <1>12,
     <1>13, <1>14
     DEF Next, RegisterStep, PollStep, RequestStep

\* No step brings a forgotten runner back while it is down: it answers no
\* heartbeat, and requests are given runners of the cache.
LEMMA RunnerForgottenStep ==
    ASSUME CommanderIInv, [Next]_vars, NEW r \in RunnerAddrs,
           runner[r] = "down", RunnerForgotten(r)
    PROVE  RunnerForgotten(r)' /\ \A q \in Requests : target'[q] = r => target[q] = r
<1> USE CacheAssumption, CommanderAssumption
<1> DEFINE Goal == RunnerForgotten(r)' /\ \A q \in Requests : target'[q] = r => target[q] = r
<1>0. TypeOK /\ MapsOK /\ IndexesAgree /\ RequestsAreTotals
  BY DEF CommanderIInv, CacheIInv
<1>1. CASE UNCHANGED vars
  BY ZenonT(30), <1>1 DEF vars, cacheVars, pollVars, requestVars, RunnerForgotten
<1>2. ASSUME NEW s \in RunnerAddrs,
             StartRunner(s) \/ RegisterStep(s) \/ CrashRunner(s)
      PROVE  Goal
  BY ZenonT(30), <1>2 DEF StartRunner, RegisterStep, LookupRunner, CheckRunner, PersistRunner,
       FinishRegistration, RegistrationFails, CrashRunner, cacheVars, pollVars, requestVars,
       RunnerForgotten
<1>3. ASSUME NEW s \in RunnerAddrs, AnswerHeartbeat(s) PROVE Goal
  BY ZenonT(30), <1>0, <1>3
  DEF AnswerHeartbeat, PollGoto, cacheVars, requestVars, RunnerForgotten, TypeOK
<1>4. ASSUME NEW s \in RunnerAddrs, ApplyHeartbeat(s) PROVE Goal
  <2>1. r \notin cachedRunners'
    BY ZenonT(30), <1>4 DEF ApplyHeartbeat, UpsertRunnerHeartbeat, RunnerForgotten
  <2> QED
    BY <1>0, <1>4, <2>1 DEF ApplyHeartbeat, PollGoto, requestVars, RunnerForgotten, TypeOK
<1>5. ASSUME NEW s \in RunnerAddrs, EvictRunner(s) PROVE Goal
  BY ZenonT(30), <1>0, <1>5
  DEF EvictRunner, RemoveRunner, PollGoto, requestVars, RunnerForgotten, TypeOK
<1>6. CASE StartPollRound
  BY ZenonT(30), <1>0, <1>6 DEF StartPollRound, cacheVars, requestVars, RunnerForgotten, TypeOK
<1>16. pc \in [Requests -> RequestPCs] /\ target \in [Requests -> RunnerAddrs \cup {None}]
  BY ZenonT(30), <1>0 DEF TypeOK
<1>7. ASSUME NEW q \in Requests, ReadInstances(q) PROVE Goal
  BY <1>7, <1>16 DEF ReadInstances, Goto, cacheVars, pollVars, RunnerForgotten
<1>15. ASSUME NEW q \in Requests, UNCHANGED <<cachedRunners, poll>>, target'[q] # r,
              \A s \in Requests \ {q} : pc'[s] = pc[s] /\ target'[s] = target[s]
       PROVE  Goal
  BY ZenonT(30), <1>15 DEF RunnerForgotten
<1>8. ASSUME NEW q \in Requests, ReadAddress(q) PROVE Goal
  <2>1. pick[q] \in InstanceIds
    BY <1>0, <1>8 DEF ReadAddress, TypeOK
  <2>2. instanceRunner[pick[q]] # None => instanceRunner[pick[q]] \in cachedRunners
    BY <1>0, <2>1, Zenon DEF IndexesAgree
  <2>3. instanceRunner[pick[q]] # None => instanceRunner[pick[q]] # r
    BY ZenonT(30), <2>2 DEF RunnerForgotten
  <2>4. target'[q] # r /\ \A s \in Requests \ {q} : pc'[s] = pc[s] /\ target'[s] = target[s]
    BY <1>8, <1>16, <2>3 DEF ReadAddress, Finish, Goto
  <2> QED
    BY ZenonT(30), <1>8, <1>15, <2>4 DEF ReadAddress, cacheVars, pollVars
<1>9. ASSUME NEW q \in Requests, PickRunner(q) PROVE Goal
  <2>1. runnerRequests[r] = None
    BY ZenonT(30), <1>0 DEF RequestsAreTotals, RunnerForgotten
  <2>2. r \notin LeastLoaded
    BY ZenonT(30), <2>1 DEF LeastLoaded
  <2> HIDE DEF LeastLoaded
  <2>3. target'[q] # r /\ \A s \in Requests \ {q} : pc'[s] = pc[s] /\ target'[s] = target[s]
    BY <1>9, <1>16, <2>2 DEF PickRunner, Finish, Goto
  <2> QED
    BY ZenonT(30), <1>9, <1>15, <2>3 DEF PickRunner, cacheVars, pollVars
<1>10. ASSUME NEW q \in Requests, ReadFunction(q) \/ PrepareFails(q) \/ InvokeInstance(q)
       PROVE  Goal
  <2>1. pc[q] \in {"function", "prepare", "set"} => target[q] # r
    BY ZenonT(30) DEF RunnerForgotten
  <2>2. target'[q] # r /\ \A s \in Requests \ {q} : pc'[s] = pc[s] /\ target'[s] = target[s]
    BY <1>10, <1>16, <2>1 DEF ReadFunction, PrepareFails, InvokeInstance, Finish, Goto
  <2> QED
    BY ZenonT(30), <1>10, <1>15, <2>2
    DEF ReadFunction, PrepareFails, InvokeInstance, cacheVars, pollVars
<1>11. ASSUME NEW q \in Requests, StoreInstance(q) PROVE Goal
  <2>1. r \notin cachedRunners'
    BY <1>11 DEF StoreInstance, SetInstance, RunnerForgotten
  <2> QED
    BY ZenonT(30), <1>0, <1>11, <2>1 DEF StoreInstance, Goto, pollVars, RunnerForgotten, TypeOK
<1>12. ASSUME NEW s \in RunnerAddrs, NEW f \in FunctionIds, PrepareInstance(s, f)
       PROVE  Goal
  <2>1. \A q \in Requests : pc'[q] = "set" => pc[q] \in {"prepare", "set"}
    BY ZenonT(30), <1>12 DEF PrepareInstance, Preparing
  <2>2. \A q \in Requests : pc'[q] # "set" => pc'[q] = pc[q]
    BY ZenonT(30), <1>12 DEF PrepareInstance
  <2> QED
    BY ZenonT(30), <1>12, <2>1, <2>2 DEF PrepareInstance, cacheVars, pollVars, RunnerForgotten
<1>13. ASSUME NEW j \in InstanceIds, ExpireInstance(j) PROVE Goal
  BY ZenonT(30), <1>13 DEF ExpireInstance, cacheVars, pollVars, requestVars, RunnerForgotten
<1>14. CASE CrashCommander
  BY <1>0, <1>14 DEF CrashCommander, RunnerForgotten, TypeOK, Answered
<1> QED
  BY ZenonT(30), <1>1, <1>2, <1>3, <1>4, <1>5, <1>6, <1>7, <1>8, <1>9, <1>10, <1>11, <1>12,
     <1>13, <1>14
     DEF Next, PollStep, RequestStep

\* The safety half of GoneInstanceForgotten: once a stopped instance has left
\* the cache and nothing under way mentions it, neither SetInstance nor
\* UpsertRunnerHeartbeat brings it back and Route never picks it.
THEOREM ForgottenInstances ==
    Spec => [][\A i \in InstanceIds : InstanceStaysForgotten(i)]_vars
<1>1. CommanderIInv /\ [Next]_vars => [\A i \in InstanceIds : InstanceStaysForgotten(i)]_vars
  BY ZenonT(30), InstanceForgottenStep DEF InstanceStaysForgotten
<1> QED
  BY <1>1, CommanderIInvCorrect, PTL DEF Spec

\* The safety half of DeadRunnerForgotten: once a dead runner has been
\* evicted and no request under way holds it, it is out of the cache, and
\* gets no new instance, for as long as it is down.
THEOREM ForgottenRunners ==
    Spec => [][\A r \in RunnerAddrs : RunnerStaysForgotten(r)]_vars
<1>1. CommanderIInv /\ [Next]_vars => [\A r \in RunnerAddrs : RunnerStaysForgotten(r)]_vars
  BY ZenonT(30), RunnerForgottenStep DEF RunnerStaysForgotten
<1> QED
  BY <1>1, CommanderIInvCorrect, PTL DEF Spec
=============================================================================
