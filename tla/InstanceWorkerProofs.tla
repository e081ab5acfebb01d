------------------------ MODULE InstanceWorkerProofs ------------------------
(***************************************************************************)
(* TLAPS proofs about InstanceWorker, for any set of calls, queue length   *)
(* and timeouts.                                                           *)
(***************************************************************************)
EXTENDS InstanceWorker, TLAPS

-----------------------------------------------------------------------------
\* Type correctness of every step of the calls, the worker, StopInstance and
\* the heartbeat.
LEMMA TypeStep == TypeOK /\ [Next]_vars => TypeOK'
<1> SUFFICES ASSUME TypeOK, [Next]_vars PROVE TypeOK'
  OBVIOUS
<1> USE ConstantsAssumption DEF CallPCs, WorkerPCs, StopperPCs, Panics,
      callVars, instanceVars, workerVars, timeVars, queueVars, Goto, WorkerGoto
<1>1. ASSUME NEW c \in Calls, Lookup(c) PROVE TypeOK'
  BY <1>1 DEF TypeOK, Lookup
<1>1a. ASSUME NEW c \in Calls, ReturnCancelled(c) PROVE TypeOK'
  BY <1>1a DEF TypeOK, ReturnCancelled
<1>1b. ASSUME NEW c \in Calls, Cancel(c) PROVE TypeOK'
  BY <1>1b DEF TypeOK, Cancel
<1>2. ASSUME NEW c \in Calls, CompareAndSwap(c) PROVE TypeOK'
  BY <1>2 DEF TypeOK, CompareAndSwap
<1>3. ASSUME NEW c \in Calls, CheckOpened(c) PROVE TypeOK'
  BY <1>3 DEF TypeOK, CheckOpened
<1>4. ASSUME NEW c \in Calls, ResetTimer(c) PROVE TypeOK'
  <2>1. ShutdownAfter \in 0..ShutdownAfter
    OBVIOUS
  <2>2. CASE stopper = "wait"
    BY <1>4, <2>1, <2>2 DEF TypeOK, ResetTimer
  <2>3. CASE stopper # "wait"
    BY <1>4, <2>3 DEF TypeOK, ResetTimer
  <2> QED
    BY <2>2, <2>3
<1>5. ASSUME NEW c \in Calls, Enqueue(c) PROVE TypeOK'
  <2>1. CASE closed
    BY <1>5, <2>1 DEF TypeOK, Enqueue
  <2>2. CASE ~closed
    <3>1. /\ Append(queue, c) \in Seq(Calls)
          /\ Append(order, c) \in Seq(Calls)
          /\ Len(Append(queue, c)) = Len(queue) + 1
          /\ Len(queue) \in Nat
      BY DEF TypeOK
    <3>2. Len(queue') <= QueueMaxLen
      BY <1>5, <2>2, <3>1 DEF Enqueue
    <3> QED
      BY ZenonT(30), <1>5, <2>2, <3>1, <3>2 DEF TypeOK, Enqueue
  <2> QED
    BY <2>1, <2>2
<1>6. ASSUME NEW c \in Calls, SpawnWorker(c) PROVE TypeOK'
  BY <1>6 DEF TypeOK, SpawnWorker
<1>7. ASSUME NEW w \in Calls,
             WorkerStops(w) \/ WorkerIdles(w) \/ WorkerSeesClosed(w) \/ GuestAnswers(w)
      PROVE  TypeOK'
  BY <1>7 DEF TypeOK, WorkerStops, WorkerIdles, WorkerSeesClosed, GuestAnswers
<1>8. ASSUME NEW w \in Calls, WorkerLeaves(w) PROVE TypeOK'
  BY ZenonT(30), <1>8 DEF TypeOK, WorkerLeaves
<1>9. ASSUME NEW w \in Calls, WorkerTakes(w) PROVE TypeOK'
  <2>1. Head(queue) \in Calls /\ Tail(queue) \in Seq(Calls)
          /\ Len(Tail(queue)) = Len(queue) - 1
    BY <1>9 DEF TypeOK, WorkerTakes
  <2> QED
    BY <1>9, <2>1 DEF TypeOK, WorkerTakes
<1>10. ASSUME NEW w \in Calls, WorkerSends(w) PROVE TypeOK'
  BY <1>10 DEF TypeOK, WorkerSends
<1>11. CASE StopperStep
  BY ZenonT(30), <1>11 DEF TypeOK, StopperStep, TimerFires, StopStoresOpened,
       StopCancelsWorker, StopClosesQueue, StopDeletes, StopStopsRuntime
<1>12. CASE QueueDepths
  BY <1>12 DEF TypeOK, QueueDepths
<1>13. CASE Tick
  BY <1>13 DEF TypeOK, Tick
<1>14. CASE UNCHANGED vars
  BY <1>14 DEF TypeOK, vars
<1> QED
  BY <1>1, <1>1a, <1>1b, <1>2, <1>3, <1>4, <1>5, <1>6, <1>7, <1>8, <1>9, <1>10, <1>11,
     <1>12, <1>13, <1>14 DEF Next, CallStep, WorkerStep

\* The instance that Submit puts into the map has the types.
LEMMA TypeInit == Init => TypeOK
<1> SUFFICES ASSUME Init PROVE TypeOK
  OBVIOUS
<1>1. <<>> \in Seq(Calls) /\ Len(<<>>) = 0
  OBVIOUS
<1>2. Len(queue) <= QueueMaxLen /\ timerLeft \in 0..ShutdownAfter /\ promised \in 0..GracePeriod
  BY <1>1, ConstantsAssumption DEF Init
<1> QED
  BY ZenonT(30), <1>1, <1>2 DEF Init, TypeOK, CallPCs, WorkerPCs, StopperPCs, Panics

\* Every variable of the instance, its calls and its worker keeps its type,
\* and the queue its capacity, in every behaviour.
THEOREM TypeCorrect == Spec => []TypeOK
BY TypeInit, TypeStep, PTL DEF Spec

-----------------------------------------------------------------------------
\* What each step does to the lock.  IInv is inductive; AtMostOneWorker alone
\* is not, since nothing in it says who may start the next worker.
IInv == TypeOK /\ OpenedIsLock

\* No step of a call, a worker or StopInstance breaks the lock discipline
\* of opened.
LEMMA LockStep == IInv /\ [Next]_vars => OpenedIsLock'
<1> SUFFICES ASSUME TypeOK, OpenedIsLock, [Next]_vars PROVE OpenedIsLock'
  BY DEF IInv
<1> USE DEF OpenedIsLock, AtMostOneWorker, Holds, Claims, Working, TypeOK,
      CallPCs, WorkerPCs, StopperPCs,
      callVars, instanceVars, workerVars, timeVars, queueVars, Goto, WorkerGoto
<1>1. ASSUME NEW c \in Calls, Lookup(c) PROVE OpenedIsLock'
  BY <1>1 DEF Lookup
<1>2. ASSUME NEW c \in Calls, CompareAndSwap(c) PROVE OpenedIsLock'
  <2>1. /\ pc'[c] = "check" /\ mustWork'[c] = ~opened /\ opened' /\ worker[c] = "none"
        /\ \A d \in Calls \ {c} : pc'[d] = pc[d] /\ mustWork'[d] = mustWork[d]
        /\ UNCHANGED <<worker, stopper, workerCtxDone>>
    BY SMTT(30), <1>2 DEF CompareAndSwap
  <2>2. AtMostOneWorker'
    BY <2>1
  <2>3. ASSUME stopper \in {"wait", "store"}
        PROVE  /\ \E d \in Calls : Holds(d)'
               /\ \A d, e \in Calls : Holds(d)' /\ Holds(e)' => d = e
    <3>1. \A d \in Calls \ {c} : Holds(d)' <=> Holds(d)
      BY <2>1
    <3>2. ~Holds(c) /\ (Holds(c)' <=> ~opened)
      BY ZenonT(30), <1>2, <2>1 DEF CompareAndSwap
    <3>3. opened <=> \E d \in Calls : Holds(d)
      BY <2>3
    <3> HIDE DEF Holds
    <3> QED
      BY <2>3, <3>1, <3>2, <3>3
  <2> QED
    BY <2>1, <2>2, <2>3
<1>3. ASSUME NEW c \in Calls, CheckOpened(c) PROVE OpenedIsLock'
  BY <1>3 DEF CheckOpened
<1>4. ASSUME NEW c \in Calls, ResetTimer(c) PROVE OpenedIsLock'
  BY <1>4 DEF ResetTimer
<1>5. ASSUME NEW c \in Calls, Enqueue(c) PROVE OpenedIsLock'
  <2>1. CASE closed
    BY <1>5, <2>1 DEF Enqueue
  <2>2. CASE ~closed
    <3>1. /\ pc[c] = "enqueue" /\ pc' = [pc EXCEPT ![c] = "spawn"]
          /\ UNCHANGED <<mustWork, opened, workerCtxDone, worker, stopper>>
      BY <1>5, <2>2 DEF Enqueue
    <3> QED
      BY <3>1
  <2> QED
    BY <2>1, <2>2
<1>6. ASSUME NEW c \in Calls, SpawnWorker(c) PROVE OpenedIsLock'
  BY <1>6 DEF SpawnWorker
<1>7. ASSUME NEW c \in Calls, ReturnCancelled(c) PROVE OpenedIsLock'
  BY <1>7 DEF ReturnCancelled
<1>8. ASSUME NEW c \in Calls, Cancel(c) PROVE OpenedIsLock'
  BY <1>8 DEF Cancel
<1>9. ASSUME NEW w \in Calls, WorkerStops(w) PROVE OpenedIsLock'
  BY <1>9 DEF WorkerStops
<1>10. ASSUME NEW w \in Calls, WorkerIdles(w) PROVE OpenedIsLock'
  BY <1>10 DEF WorkerIdles
<1>11. ASSUME NEW w \in Calls, WorkerSeesClosed(w) PROVE OpenedIsLock'
  BY <1>11 DEF WorkerSeesClosed
<1>12. ASSUME NEW w \in Calls, WorkerLeaves(w) PROVE OpenedIsLock'
  BY <1>12 DEF WorkerLeaves
<1>13. ASSUME NEW w \in Calls, WorkerTakes(w) PROVE OpenedIsLock'
  BY <1>13 DEF WorkerTakes
<1>14. ASSUME NEW w \in Calls, GuestAnswers(w) PROVE OpenedIsLock'
  BY <1>14 DEF GuestAnswers
<1>15. ASSUME NEW w \in Calls, WorkerSends(w) PROVE OpenedIsLock'
  BY <1>15 DEF WorkerSends
<1>16. CASE StopperStep
  BY <1>16 DEF StopperStep, TimerFires, StopStoresOpened,
       StopCancelsWorker, StopClosesQueue, StopDeletes, StopStopsRuntime
<1>17. CASE QueueDepths \/ Tick
  BY <1>17 DEF QueueDepths, Tick
<1>18. CASE UNCHANGED vars
  BY <1>18 DEF vars
<1> QED
  BY ZenonT(30), <1>1, <1>2, <1>3, <1>4, <1>5, <1>6, <1>7, <1>8, <1>9, <1>10, <1>11,
     <1>12, <1>13, <1>14, <1>15, <1>16, <1>17, <1>18
     DEF Next, CallStep, WorkerStep

\* A fresh instance is not opened and nobody holds it.
LEMMA LockInit == Init => OpenedIsLock
BY DEF Init, OpenedIsLock, AtMostOneWorker, Holds, Claims, Working

\* The inductive invariant holds in every behaviour.
LEMMA IInvCorrect == Spec => []IInv
<1>1. Init => IInv
  BY TypeInit, LockInit DEF IInv
<1>2. IInv /\ [Next]_vars => IInv'
  BY TypeStep, LockStep DEF IInv
<1> QED
  BY <1>1, <1>2, PTL DEF Spec

\* opened is the lock that the worker and StopInstance take it for.
THEOREM OpenedIsLockCorrect == Spec => []OpenedIsLock
BY IInvCorrect, PTL DEF IInv

\* However many calls race with the idle exit of a worker and with the
\* shutdown of the instance, at most one of them runs or starts a worker.
THEOREM OneWorker == Spec => []AtMostOneWorker
<1>1. IInv => AtMostOneWorker
  BY DEF IInv, OpenedIsLock
<1> QED
  BY <1>1, IInvCorrect, PTL

-----------------------------------------------------------------------------
\* The grace a heartbeat granted never exceeds what the timer has left, and
\* the timer of an instance that is being stopped stays at zero.
PromiseInv ==
    /\ stopper = "wait" => promised <= timerLeft
    /\ stopper # "wait" => promised = 0 /\ timerLeft = 0

\* ResetTimer only lengthens the life time, time takes from the promise and
\* the timer alike, and the shutdown starts when both are used up.
LEMMA PromiseStep == TypeOK /\ PromiseInv /\ [Next]_vars => PromiseInv'
<1> SUFFICES ASSUME TypeOK, PromiseInv, [Next]_vars PROVE PromiseInv'
  OBVIOUS
<1>0. /\ timerLeft \in 0..ShutdownAfter /\ promised \in 0..GracePeriod
      /\ GracePeriod \in Nat /\ ShutdownAfter \in Nat
  BY ConstantsAssumption DEF TypeOK
<1>1. CASE UNCHANGED <<timeVars, stopper>>
  BY <1>1 DEF PromiseInv, timeVars
<1>2. ASSUME NEW c \in Calls, ResetTimer(c) PROVE PromiseInv'
  BY <1>0, <1>2 DEF PromiseInv, ResetTimer
<1>3. CASE TimerFires
  BY <1>0, <1>3 DEF PromiseInv, TimerFires, timeVars
<1>4. CASE QueueDepths
  BY <1>0, <1>4 DEF PromiseInv, QueueDepths
<1>5. CASE Tick
  BY <1>0, <1>5 DEF PromiseInv, Tick
<1>6. CASE StopStoresOpened \/ StopCancelsWorker \/ StopClosesQueue
           \/ StopDeletes \/ StopStopsRuntime
  BY <1>6 DEF PromiseInv, timeVars, StopStoresOpened, StopCancelsWorker,
       StopClosesQueue, StopDeletes, StopStopsRuntime
<1>7. ASSUME NEW c \in Calls, CallStep(c) \/ Cancel(c), ~ResetTimer(c)
      PROVE  UNCHANGED <<timeVars, stopper>>
  BY <1>7 DEF CallStep, Cancel, Lookup, CompareAndSwap, CheckOpened, Enqueue,
       SpawnWorker, ReturnCancelled, timeVars
<1>8. ASSUME NEW w \in Calls, WorkerStep(w) PROVE UNCHANGED <<timeVars, stopper>>
  BY <1>8 DEF WorkerStep, WorkerStops, WorkerIdles, WorkerSeesClosed,
       WorkerLeaves, WorkerTakes, GuestAnswers, WorkerSends, timeVars
<1>9. UNCHANGED vars => UNCHANGED <<timeVars, stopper>>
  BY DEF vars
<1> QED
  BY <1>1, <1>2, <1>3, <1>4, <1>5, <1>6, <1>7, <1>8, <1>9 DEF Next, StopperStep

\* An instance that a heartbeat reported lives through the grace period that
\* follows, for every timeout and grace period.
THEOREM GraceKept == Spec => []HeartbeatPromise
<1>1. Init => PromiseInv
  BY ConstantsAssumption DEF Init, PromiseInv
<1>2. TypeOK /\ PromiseInv => HeartbeatPromise
  BY ConstantsAssumption DEF TypeOK, PromiseInv, HeartbeatPromise
<1> QED
  BY <1>1, <1>2, PromiseStep, TypeCorrect, PTL DEF Spec

-----------------------------------------------------------------------------
\* StopInstance closes the queue before it takes the instance out of the map.
ClosedInv ==
    /\ stopper \in {"delete", "stop", "done"} => closed
    /\ ~mapped => stopper \in {"stop", "done"}

\* StopInstance closes the queue before it deletes the instance, and nobody
\* opens it again.
LEMMA ClosedStep == ClosedInv /\ [Next]_vars => ClosedInv'
<1> SUFFICES ASSUME ClosedInv, [Next]_vars PROVE ClosedInv'
  OBVIOUS
<1>1. CASE UNCHANGED <<mapped, closed, stopper>>
  BY <1>1 DEF ClosedInv
<1>2. CASE StopperStep
  BY <1>2 DEF ClosedInv, StopperStep, TimerFires, StopStoresOpened,
       StopCancelsWorker, StopClosesQueue, StopDeletes, StopStopsRuntime,
       instanceVars
<1>3. ASSUME NEW c \in Calls, CallStep(c) \/ Cancel(c)
      PROVE  UNCHANGED <<mapped, closed, stopper>>
  BY <1>3 DEF CallStep, Cancel, Lookup, CompareAndSwap, CheckOpened, ResetTimer,
       Enqueue, SpawnWorker, ReturnCancelled, instanceVars
<1>4. ASSUME NEW w \in Calls, WorkerStep(w)
      PROVE  UNCHANGED <<mapped, closed, stopper>>
  BY <1>4 DEF WorkerStep, WorkerStops, WorkerIdles, WorkerSeesClosed,
       WorkerLeaves, WorkerTakes, GuestAnswers, WorkerSends, instanceVars
<1>5. QueueDepths \/ Tick \/ UNCHANGED vars => UNCHANGED <<mapped, closed, stopper>>
  BY DEF QueueDepths, Tick, vars, instanceVars
<1> QED
  BY <1>1, <1>2, <1>3, <1>4, <1>5 DEF Next

\* No call gets its request into the queue of an instance that StopInstance
\* has taken out of the map, not even one that looked it up before.
THEOREM RemovedAcceptsNothing == Spec => NoAcceptAfterRemoval
<1>1. Init => ClosedInv
  BY DEF Init, ClosedInv
<1>2. ClosedInv /\ [Next]_vars => [~mapped => order' = order]_vars
  <2> SUFFICES ASSUME ClosedInv, ~mapped, Next PROVE order' = order
    OBVIOUS
  <2>1. closed
    BY DEF ClosedInv
  <2>2. ASSUME NEW c \in Calls, CallStep(c) \/ Cancel(c) \/ WorkerStep(c)
        PROVE  order' = order
    BY ZenonT(30), <2>1, <2>2 DEF CallStep, Cancel, Lookup, CompareAndSwap, CheckOpened,
         ResetTimer, Enqueue, SpawnWorker, ReturnCancelled, WorkerStep,
         WorkerStops, WorkerIdles, WorkerSeesClosed, WorkerLeaves, WorkerTakes,
         GuestAnswers, WorkerSends, queueVars
  <2>3. StopperStep \/ QueueDepths \/ Tick => order' = order
    BY DEF StopperStep, TimerFires, StopStoresOpened, StopCancelsWorker,
         StopClosesQueue, StopDeletes, StopStopsRuntime, QueueDepths, Tick, queueVars
  <2> QED
    BY <2>2, <2>3 DEF Next
<1> QED
  BY <1>1, <1>2, ClosedStep, PTL DEF Spec, NoAcceptAfterRemoval

-----------------------------------------------------------------------------
\* The refinement mapping: the requests not yet taken are the last ones of
\* order, and each request in order stands for one call past its Enqueue.
Serving == {cur[w] : w \in {v \in Calls : worker[v] \in {"invoke", "send"}}}
Answered == {c \in Calls : pc[c] = "answered"}
Queued == {"spawn", "wait", "answered", "left"}

SerialInv ==
    /\ Len(queue) <= Len(order)
    /\ \A i \in 1..Len(queue) : queue[i] = order[Len(order) - Len(queue) + i]
    /\ \A i \in 1..Len(order) : pc[order[i]] \in Queued

\* A step that moves one call within Queued, or outside it, and leaves the
\* queue alone keeps the mapping's invariant.
LEMMA SerialInvKept ==
    ASSUME TypeOK, SerialInv, UNCHANGED queueVars,
           \A c \in Calls : pc[c] \in Queued => pc'[c] \in Queued
    PROVE  SerialInv'
<1>1. \A i \in 1..Len(order) : order[i] \in Calls
  BY DEF TypeOK
<1> QED
  BY <1>1 DEF SerialInv, queueVars

\* Every step keeps the correspondence of calls, queue and history.
LEMMA SerialInvStep == TypeOK /\ SerialInv /\ [Next]_vars => SerialInv'
<1> SUFFICES ASSUME TypeOK, SerialInv, [Next]_vars PROVE SerialInv'
  OBVIOUS
<1>1. CASE UNCHANGED <<pc, queueVars>>
  BY <1>1, SerialInvKept
<1>2. ASSUME NEW c \in Calls, CallStep(c) \/ Cancel(c), ~Enqueue(c)
      PROVE  SerialInv'
  <2>1. UNCHANGED queueVars /\ \A d \in Calls : pc[d] \in Queued => pc'[d] \in Queued
    BY <1>2 DEF CallStep, Cancel, Lookup, CompareAndSwap, CheckOpened, ResetTimer,
         SpawnWorker, ReturnCancelled, queueVars, Goto, Queued, TypeOK
  <2> QED
    BY <2>1, SerialInvKept
<1>3. ASSUME NEW c \in Calls, Enqueue(c) PROVE SerialInv'
  <2>1. CASE closed
    BY <1>1, <1>3, <2>1 DEF Enqueue
  <2>2. CASE ~closed
    <3>1. /\ queue' = Append(queue, c) /\ order' = Append(order, c)
          /\ pc' = [pc EXCEPT ![c] = "spawn"]
      BY <1>3, <2>2 DEF Enqueue, Goto
    <3>2. /\ queue \in Seq(Calls) /\ order \in Seq(Calls)
          /\ pc \in [Calls -> CallPCs]
      BY DEF TypeOK
    <3>3. /\ Len(queue') = Len(queue) + 1 /\ Len(order') = Len(order) + 1
          /\ Len(queue) \in Nat /\ Len(order) \in Nat
      BY <3>1, <3>2
    <3>4. /\ \A i \in 1..Len(queue) : queue'[i] = queue[i]
          /\ queue'[Len(queue) + 1] = c
          /\ \A i \in 1..Len(order) : order'[i] = order[i] /\ order[i] \in Calls
          /\ order'[Len(order) + 1] = c
      BY <3>1, <3>2
    <3>5. Len(queue') <= Len(order')
      BY <3>3 DEF SerialInv
    <3>6. ASSUME NEW i \in 1..Len(queue')
          PROVE  queue'[i] = order'[Len(order') - Len(queue') + i]
      <4>1. CASE i = Len(queue) + 1
        BY <3>3, <3>4, <4>1
      <4>2. CASE i \in 1..Len(queue)
        <5>1. Len(order) - Len(queue) + i \in 1..Len(order)
          BY <3>3, <4>2 DEF SerialInv
        <5> QED
          BY <3>3, <3>4, <4>2, <5>1 DEF SerialInv
      <4> QED
        BY <3>3, <4>1, <4>2
    <3>7. ASSUME NEW i \in 1..Len(order') PROVE pc'[order'[i]] \in Queued
      BY <3>1, <3>2, <3>3, <3>4 DEF SerialInv, Queued
    <3> QED
      BY <3>5, <3>6, <3>7 DEF SerialInv
  <2> QED
    BY <2>1, <2>2
<1>4. ASSUME NEW w \in Calls, WorkerStep(w), ~WorkerTakes(w) PROVE SerialInv'
  <2>1. UNCHANGED queueVars /\ \A d \in Calls : pc[d] \in Queued => pc'[d] \in Queued
    BY <1>4 DEF WorkerStep, WorkerStops, WorkerIdles, WorkerSeesClosed,
         WorkerLeaves, GuestAnswers, WorkerSends, callVars, queueVars, Goto,
         Queued, TypeOK
  <2> QED
    BY <2>1, SerialInvKept
<1>5. ASSUME NEW w \in Calls, WorkerTakes(w) PROVE SerialInv'
  <2>1. /\ queue # <<>> /\ queue' = Tail(queue) /\ UNCHANGED <<order, pc>>
    BY <1>5 DEF WorkerTakes, callVars
  <2>2. queue \in Seq(Calls) /\ order \in Seq(Calls)
    BY DEF TypeOK
  <2>3. /\ Len(queue') = Len(queue) - 1 /\ Len(queue) \in Nat /\ Len(order) \in Nat
        /\ \A i \in 1..Len(queue') : queue'[i] = queue[i + 1]
    BY <2>1, <2>2
  <2> QED
    BY <2>1, <2>2, <2>3 DEF SerialInv
<1>6. StopperStep \/ QueueDepths \/ Tick \/ UNCHANGED vars => UNCHANGED <<pc, queueVars>>
  BY DEF StopperStep, TimerFires, StopStoresOpened, StopCancelsWorker,
       StopClosesQueue, StopDeletes, StopStopsRuntime, QueueDepths, Tick, vars,
       callVars, queueVars
<1> QED
  BY <1>1, <1>2, <1>3, <1>4, <1>5, <1>6 DEF Next

\* What a step means for the abstract queue when it touches neither the
\* queue nor a request that is being served.
LEMMA SerialStutter ==
    ASSUME UNCHANGED queueVars, Serving' = Serving, Answered' = Answered
    PROVE  UNCHANGED Serial!vars
BY DEF Serial!vars, Serving, Answered, queueVars

\* Every step of the instance is a step of the abstract queue or leaves it
\* unchanged.
LEMMA SerialStep ==
    IInv /\ SerialInv /\ [Next]_vars => [Serial!Next]_(Serial!vars)
<1> SUFFICES ASSUME TypeOK, OpenedIsLock, SerialInv, [Next]_vars
             PROVE  Serial!Next \/ UNCHANGED Serial!vars
  BY DEF IInv
<1>1. ASSUME NEW c \in Calls, CallStep(c) \/ Cancel(c), ~Enqueue(c)
      PROVE  UNCHANGED Serial!vars
  <2>1. /\ UNCHANGED <<queueVars, cur>>
        /\ \A d \in Calls : pc'[d] = "answered" <=> pc[d] = "answered"
    BY SMTT(30), <1>1
    DEF CallStep, Cancel, Lookup, CompareAndSwap, CheckOpened, ResetTimer,
         SpawnWorker, ReturnCancelled, queueVars, workerVars, Goto, TypeOK
  <2>2. \A v \in Calls : worker'[v] \in {"invoke", "send"} <=> worker[v] \in {"invoke", "send"}
    <3>1. CASE SpawnWorker(c)
      <4>1. worker[c] = "none"
        BY <3>1 DEF SpawnWorker, OpenedIsLock
      <4>2. /\ worker'[c] \in {"none", "select"}
            /\ \A v \in Calls \ {c} : worker'[v] = worker[v]
        BY <3>1, <4>1 DEF SpawnWorker, TypeOK
      <4> QED
        BY SMTT(30), <4>1, <4>2
    <3>2. CASE UNCHANGED worker
      BY <3>2
    <3> QED
      BY <1>1, <3>1, <3>2 DEF CallStep, Cancel, Lookup, CompareAndSwap, CheckOpened,
           ResetTimer, ReturnCancelled, workerVars
  <2> QED
    BY <2>1, <2>2, SerialStutter DEF Serving, Answered
<1>2. ASSUME NEW c \in Calls, Enqueue(c)
      PROVE  Serial!Next \/ UNCHANGED Serial!vars
  <2>1. /\ UNCHANGED <<worker, cur>>
        /\ \A d \in Calls : pc'[d] = "answered" <=> pc[d] = "answered"
    BY <1>2 DEF Enqueue, workerVars, Goto, TypeOK
  <2>2. Serving' = Serving /\ Answered' = Answered
    BY <2>1 DEF Serving, Answered
  <2>3. CASE closed
    BY <1>2, <2>2, <2>3, SerialStutter DEF Enqueue
  <2>4. CASE ~closed
    <3>1. /\ pc[c] = "enqueue" /\ queue' = Append(queue, c) /\ order' = Append(order, c)
      BY <1>2, <2>4 DEF Enqueue
    <3>2. Len(order') - Len(queue') = Len(order) - Len(queue)
      BY <3>1 DEF TypeOK
    <3>3. \A i \in DOMAIN order : order[i] # c
      <4>1. DOMAIN order = 1..Len(order)
        BY DEF TypeOK
      <4> QED
        BY SMTT(30), <3>1, <4>1 DEF SerialInv, Queued
    <3>4. Serial!Accept
      BY ZenonT(30), <2>2, <3>1, <3>2, <3>3 DEF Serial!Accept, Serving, Answered
    <3> QED
      BY <3>4 DEF Serial!Next
  <2> QED
    BY <2>3, <2>4
<1>3. ASSUME NEW w \in Calls, WorkerStops(w) \/ WorkerIdles(w) \/ WorkerSeesClosed(w)
                                \/ WorkerLeaves(w) \/ GuestAnswers(w)
      PROVE  UNCHANGED Serial!vars
  <2>1. /\ UNCHANGED <<queueVars, cur, pc>>
        /\ \A v \in Calls : worker'[v] \in {"invoke", "send"} <=> worker[v] \in {"invoke", "send"}
    BY <1>3 DEF WorkerStops, WorkerIdles, WorkerSeesClosed, WorkerLeaves,
         GuestAnswers, WorkerGoto, callVars, queueVars, TypeOK
  <2> QED
    BY <2>1, SerialStutter DEF Serving, Answered
<1>4. ASSUME NEW w \in Calls, WorkerTakes(w) PROVE Serial!Next
  <2>1. /\ worker[w] = "select" /\ queue # <<>> /\ queue' = Tail(queue)
        /\ worker' = [worker EXCEPT ![w] = "invoke"]
        /\ cur' = [cur EXCEPT ![w] = Head(queue)]
        /\ UNCHANGED <<order, pc>>
    BY <1>4 DEF WorkerTakes, WorkerGoto, callVars
  <2>2. queue \in Seq(Calls) /\ order \in Seq(Calls) /\ Len(queue) \in Nat \ {0}
        /\ Len(order) \in Nat /\ Len(queue') = Len(queue) - 1 /\ Head(queue) = queue[1]
    BY <2>1 DEF TypeOK
  <2>3. Head(queue) = order[Len(order) - Len(queue) + 1]
    BY SMTT(30), <2>2 DEF SerialInv
  <2>4. \A v \in Calls \ {w} : worker[v] \notin {"invoke", "send"}
    BY <2>1 DEF OpenedIsLock, AtMostOneWorker, Claims, Working
  <2>5. Serving = {} /\ Serving' = {Head(queue)} /\ Answered' = Answered
    BY <2>1, <2>4 DEF Serving, Answered, TypeOK
  <2>6. /\ Len(order') - Len(queue') = (Len(order) - Len(queue)) + 1
        /\ Len(order) - Len(queue) < Len(order)
    BY <2>1, <2>2
  <2>7. Serial!Serve
    BY ZenonT(30), <2>1, <2>3, <2>5, <2>6 DEF Serial!Serve, Serving, Answered
  <2> QED
    BY <2>7 DEF Serial!Next
<1>5. ASSUME NEW w \in Calls, WorkerSends(w) PROVE Serial!Next
  <2>1. /\ worker[w] = "send" /\ worker' = [worker EXCEPT ![w] = "select"]
        /\ pc' = [pc EXCEPT ![cur[w]] = "answered"]
        /\ UNCHANGED <<queueVars, cur>>
    BY <1>5 DEF WorkerSends, WorkerGoto, Goto
  <2>2. \A v \in Calls \ {w} : worker[v] \notin {"invoke", "send"}
    BY <2>1 DEF OpenedIsLock, AtMostOneWorker, Claims, Working
  <2>3. Serving = {cur[w]} /\ Serving' = {}
    BY <2>1, <2>2 DEF Serving, TypeOK
  <2>4. Answered' = Answered \cup {cur[w]}
    BY <2>1 DEF Answered, TypeOK
  <2>5. Serial!Answer
    BY <2>1, <2>3, <2>4 DEF Serial!Answer, Serving, Answered, queueVars
  <2> QED
    BY <2>5 DEF Serial!Next
<1>6. StopperStep \/ QueueDepths \/ Tick \/ UNCHANGED vars
        => UNCHANGED <<queueVars, worker, cur, pc>>
  BY DEF StopperStep, TimerFires, StopStoresOpened, StopCancelsWorker,
       StopClosesQueue, StopDeletes, StopStopsRuntime, QueueDepths, Tick, vars,
       callVars, workerVars, queueVars
<1>7. UNCHANGED <<queueVars, worker, cur, pc>> => UNCHANGED Serial!vars
  BY SerialStutter DEF Serving, Answered
<1> QED
  BY <1>1, <1>2, <1>3, <1>4, <1>5, <1>6, <1>7 DEF Next, WorkerStep

\* The racing calls, the worker and StopInstance implement the serial queue:
\* the guest gets the requests one at a time, in the order they were queued
\* and each at most once, and only the call being served is answered.
THEOREM ImplementsSerialQueue == Spec => SerialSpec
<1>1. Init => Serial!Init
  BY DEF Init, Serial!Init
<1>2. Init => SerialInv
  BY DEF Init, SerialInv
<1> QED
  BY <1>1, <1>2, IInvCorrect, TypeCorrect, SerialInvStep, SerialStep, PTL
     DEF Spec, SerialSpec, Serial!Spec

-----------------------------------------------------------------------------
(* No accepted request is dropped *)

Buffered(c) == \E i \in 1..Len(queue) : queue[i] = c
AtWorker(c) == \E w \in Calls : worker[w] \in {"invoke", "send"} /\ cur[w] = c

\* A call that has queued its request and waits for the result, has it in the
\* queue or with a worker that will offer the result: idle exits of workers,
\* calls that leave and StopInstance drop no request.
AcceptedIsKept ==
    \A c \in Calls : pc[c] \in {"spawn", "wait"} => Buffered(c) \/ AtWorker(c)

\* A step that moves requests neither out of the queue nor away from a worker
\* and lets no call begin to wait.
LEMMA KeptWhere ==
    ASSUME AcceptedIsKept, UNCHANGED queue,
           \A w \in Calls : worker[w] \in {"invoke", "send"} =>
               worker'[w] \in {"invoke", "send"} /\ cur'[w] = cur[w],
           \A c \in Calls : pc'[c] \in {"spawn", "wait"} => pc[c] \in {"spawn", "wait"}
    PROVE  AcceptedIsKept'
BY DEF AcceptedIsKept, Buffered, AtWorker

\* Every step keeps the requests of waiting calls.
LEMMA KeptStep == IInv /\ AcceptedIsKept /\ [Next]_vars => AcceptedIsKept'
<1> SUFFICES ASSUME TypeOK, OpenedIsLock, AcceptedIsKept, [Next]_vars PROVE AcceptedIsKept'
  BY ZenonT(30) DEF IInv
<1>1. CASE UNCHANGED <<pc, queue, worker, cur>>
  BY <1>1, KeptWhere
<1>2. ASSUME NEW c \in Calls,
             \/ Lookup(c) \/ CompareAndSwap(c) \/ CheckOpened(c) \/ ResetTimer(c)
             \/ ReturnCancelled(c) \/ Cancel(c)
      PROVE  AcceptedIsKept'
  <2>1. /\ UNCHANGED <<queue, worker, cur>>
        /\ \A d \in Calls : pc'[d] \in {"spawn", "wait"} => pc[d] \in {"spawn", "wait"}
    BY <1>2 DEF Lookup, CompareAndSwap, CheckOpened, ResetTimer, ReturnCancelled, Cancel,
         Goto, queueVars, workerVars, TypeOK
  <2> QED
    BY <2>1, KeptWhere
<1>3. ASSUME NEW c \in Calls, SpawnWorker(c) PROVE AcceptedIsKept'
  <2>1. worker[c] = "none" /\ pc[c] = "spawn"
    BY <1>3 DEF SpawnWorker, OpenedIsLock
  <2>2. /\ UNCHANGED <<queue, cur>>
        /\ \A w \in Calls \ {c} : worker'[w] = worker[w]
        /\ \A d \in Calls \ {c} : pc'[d] = pc[d]
    BY <1>3 DEF SpawnWorker, Goto, queueVars, TypeOK
  <2> QED
    BY <2>1, <2>2, KeptWhere
<1>4. ASSUME NEW c \in Calls, Enqueue(c) PROVE AcceptedIsKept'
  <2>1. CASE closed
    BY ZenonT(30), <1>1, <1>4, <2>1 DEF Enqueue, workerVars, queueVars
  <2>2. CASE ~closed
    <3>1. /\ queue' = Append(queue, c) /\ pc' = [pc EXCEPT ![c] = "spawn"]
          /\ UNCHANGED <<worker, cur>>
      BY <1>4, <2>2 DEF Enqueue, Goto, workerVars
    <3>2. /\ Len(queue') = Len(queue) + 1 /\ Len(queue) \in Nat
          /\ \A i \in 1..Len(queue) : queue'[i] = queue[i]
          /\ queue'[Len(queue) + 1] = c
      BY <3>1 DEF TypeOK
    <3>3. \A d \in Calls : Buffered(d) => Buffered(d)'
      BY <3>2 DEF Buffered
    <3>4. Buffered(c)'
      BY <3>2 DEF Buffered
    <3>5. \A d \in Calls : AtWorker(d) => AtWorker(d)'
      BY <3>1 DEF AtWorker
    <3>6. \A d \in Calls \ {c} : pc'[d] = pc[d]
      BY <3>1 DEF TypeOK
    <3> QED
      BY <3>3, <3>4, <3>5, <3>6 DEF AcceptedIsKept
  <2> QED
    BY <2>1, <2>2
<1>5. ASSUME NEW w \in Calls, WorkerTakes(w) PROVE AcceptedIsKept'
  <2>1. /\ worker[w] = "select" /\ queue # <<>> /\ queue' = Tail(queue) /\ UNCHANGED pc
        /\ cur' = [cur EXCEPT ![w] = Head(queue)]
        /\ worker' = [worker EXCEPT ![w] = "invoke"]
    BY <1>5 DEF WorkerTakes, WorkerGoto, callVars
  <2>2. /\ Len(queue') = Len(queue) - 1 /\ Len(queue) \in Nat /\ Head(queue) = queue[1]
        /\ \A i \in 1..Len(queue') : queue'[i] = queue[i + 1]
    BY <2>1 DEF TypeOK
  <2>3. /\ worker'[w] = "invoke" /\ cur'[w] = queue[1]
        /\ \A v \in Calls \ {w} : worker'[v] = worker[v] /\ cur'[v] = cur[v]
    BY <2>1, <2>2 DEF TypeOK
  <2>4. \A d \in Calls : AtWorker(d) => AtWorker(d)'
    BY <2>1, <2>3 DEF AtWorker
  <2>5. ASSUME NEW d \in Calls, Buffered(d) PROVE Buffered(d)' \/ AtWorker(d)'
    <3>1. PICK i \in 1..Len(queue) : queue[i] = d
      BY <2>5 DEF Buffered
    <3>2. CASE i = 1
      BY <2>3, <3>1, <3>2 DEF AtWorker
    <3>3. CASE i # 1
      <4>1. i - 1 \in 1..Len(queue') /\ (i - 1) + 1 = i
        BY <2>2, <3>3
      <4> QED
        BY ZenonT(30), <2>2, <3>1, <4>1 DEF Buffered
    <3> QED
      BY <3>2, <3>3
  <2> QED
    BY <2>1, <2>4, <2>5 DEF AcceptedIsKept
<1>6. ASSUME NEW w \in Calls,
             \/ WorkerStops(w) \/ WorkerIdles(w) \/ WorkerSeesClosed(w) \/ WorkerLeaves(w)
             \/ GuestAnswers(w)
      PROVE  AcceptedIsKept'
  <2>1. /\ UNCHANGED <<queue, cur, pc>>
        /\ \A v \in Calls : worker[v] \in {"invoke", "send"} => worker'[v] \in {"invoke", "send"}
    BY <1>6 DEF WorkerStops, WorkerIdles, WorkerSeesClosed, WorkerLeaves, GuestAnswers,
         WorkerGoto, callVars, queueVars, TypeOK
  <2> QED
    BY <2>1, KeptWhere
<1>7. ASSUME NEW w \in Calls, WorkerSends(w) PROVE AcceptedIsKept'
  <2>1. /\ UNCHANGED <<queue, cur>>
        /\ \A v \in Calls \ {w} : worker'[v] = worker[v]
        /\ pc'[cur[w]] = "answered"
        /\ \A d \in Calls \ {cur[w]} : pc'[d] = pc[d]
    BY <1>7 DEF WorkerSends, Goto, WorkerGoto, queueVars, TypeOK
  <2>2. \A d \in Calls \ {cur[w]} : AtWorker(d) => AtWorker(d)'
    BY <2>1 DEF AtWorker
  <2>3. \A d \in Calls : Buffered(d) => Buffered(d)'
    BY <2>1 DEF Buffered
  <2> QED
    BY <2>1, <2>2, <2>3 DEF AcceptedIsKept
<1>8. StopperStep \/ QueueDepths \/ Tick \/ UNCHANGED vars => UNCHANGED <<pc, queue, worker, cur>>
  BY DEF StopperStep, TimerFires, StopStoresOpened, StopCancelsWorker,
       StopClosesQueue, StopDeletes, StopStopsRuntime, QueueDepths, Tick, vars,
       callVars, queueVars, workerVars
<1> QED
  BY <1>1, <1>2, <1>3, <1>4, <1>5, <1>6, <1>7, <1>8 DEF Next, CallStep, WorkerStep

\* The safety half of LostOnlyInQueue: whatever the workers, the calls that
\* leave and StopInstance do, the request of a waiting call is in the queue
\* or with a worker.
THEOREM NoRequestDropped == Spec => []AcceptedIsKept
<1>1. Init => AcceptedIsKept
  BY DEF Init, AcceptedIsKept
<1> QED
  BY <1>1, IInvCorrect, KeptStep, PTL DEF Spec

-----------------------------------------------------------------------------
(* The life of an instance as the module Commander has it *)

\* An instance is running as long as heartbeats report it, ending when they
\* do not any more, and gone when it is out of the map.
Life ==
    IF ~mapped THEN "gone"
    ELSE IF timerLeft >= GracePeriod THEN "running"
    ELSE "ending"

\* What Commander allows a runner: an instance ends before it is gone, only a
\* call that resets the timer brings an ending one back, none comes back from
\* gone, and a heartbeat reports it only while it is running.
LifeStep ==
    /\ Life' # Life =>
          \/ Life = "running" /\ Life' = "ending"
          \/ Life = "ending" /\ Life' = "gone"
          \/ /\ Life = "ending" /\ Life' = "running"
             /\ \E c \in Calls : pc[c] = "reset" /\ pc'[c] = "enqueue"
    /\ promised' > promised => Life = "running"

\* The timer, the calls that reset it and StopInstance move an instance
\* through its life as Commander assumes, for any grace period but zero: with
\* zero an instance is still reported while it is being stopped.
THEOREM LivesAsCommanderAssumes ==
    ASSUME GracePeriod > 0
    PROVE  Spec => [][LifeStep]_vars
<1>1. Init => PromiseInv /\ ClosedInv
  BY ConstantsAssumption DEF Init, PromiseInv, ClosedInv
<1>2. TypeOK /\ PromiseInv /\ ClosedInv /\ [Next]_vars => [LifeStep]_vars
  <2> SUFFICES ASSUME TypeOK, PromiseInv, ClosedInv, Next PROVE LifeStep
    OBVIOUS
  <2>0. /\ timerLeft \in Nat /\ promised \in Nat /\ GracePeriod \in Nat
        /\ timerLeft <= ShutdownAfter /\ ShutdownAfter \in Nat
    BY ConstantsAssumption DEF TypeOK
  <2>1. CASE UNCHANGED <<mapped, timeVars>>
    BY <2>0, <2>1 DEF LifeStep, Life, timeVars
  <2>2. ASSUME NEW c \in Calls, ResetTimer(c) PROVE LifeStep
    <3>1. CASE stopper = "wait"
      <4>1. /\ mapped /\ UNCHANGED <<mapped, promised>>
        BY <2>2, <3>1 DEF ResetTimer, ClosedInv, instanceVars
      <4>2. /\ pc[c] = "reset" /\ pc'[c] = "enqueue" /\ timerLeft' = ShutdownAfter
        BY <2>2, <3>1 DEF ResetTimer, Goto, TypeOK
      <4>3. timerLeft' >= timerLeft /\ timerLeft' \in Nat
        BY <2>0, <4>2
      <4>4. Life' # Life => Life = "ending" /\ Life' = "running"
        BY <2>0, <4>1, <4>3 DEF Life
      <4>5. ~(promised' > promised)
        BY <2>0, <4>1
      <4> QED
        BY <4>2, <4>4, <4>5 DEF LifeStep
    <3>2. CASE stopper # "wait"
      BY <2>1, <2>2, <3>2 DEF ResetTimer, instanceVars, timeVars
    <3> QED
      BY <3>1, <3>2
  <2>3. CASE StopDeletes
    <3>1. mapped' = FALSE /\ timerLeft = 0 /\ UNCHANGED timeVars
      BY <2>3 DEF StopDeletes, PromiseInv
    <3>2. Life \in {"ending", "gone"} /\ Life' = "gone"
      BY <2>0, <3>1 DEF Life
    <3>3. ~(promised' > promised)
      BY <2>0, <3>1 DEF timeVars
    <3> QED
      BY <3>2, <3>3 DEF LifeStep
  <2>4. CASE QueueDepths
    BY <2>0, <2>4 DEF QueueDepths, LifeStep, Life, instanceVars
  <2>5. CASE Tick
    <3>1. /\ UNCHANGED mapped /\ timerLeft' = timerLeft - 1 /\ timerLeft > 0
          /\ promised' = IF promised = 0 THEN 0 ELSE promised - 1
      BY <2>5 DEF Tick, instanceVars
    <3>2. ~(promised' > promised)
      BY <2>0, <3>1
    <3>3. Life' # Life => Life = "running" /\ Life' = "ending"
      BY <2>0, <3>1 DEF Life
    <3> QED
      BY <3>2, <3>3 DEF LifeStep
  <2>6. CASE TimerFires \/ StopStoresOpened \/ StopCancelsWorker \/ StopClosesQueue
             \/ StopStopsRuntime
    BY <2>1, <2>6 DEF TimerFires, StopStoresOpened, StopCancelsWorker, StopClosesQueue,
         StopStopsRuntime, instanceVars
  <2>7. ASSUME NEW c \in Calls, CallStep(c) \/ Cancel(c), ~ResetTimer(c)
        PROVE  UNCHANGED <<mapped, timeVars>>
    BY <2>7 DEF CallStep, Cancel, Lookup, CompareAndSwap, CheckOpened, Enqueue,
         SpawnWorker, ReturnCancelled, instanceVars
  <2>8. ASSUME NEW w \in Calls, WorkerStep(w) PROVE UNCHANGED <<mapped, timeVars>>
    BY <2>8 DEF WorkerStep, WorkerStops, WorkerIdles, WorkerSeesClosed,
         WorkerLeaves, WorkerTakes, GuestAnswers, WorkerSends, instanceVars
  <2> QED
    BY <2>1, <2>2, <2>3, <2>4, <2>5, <2>6, <2>7, <2>8 DEF Next, StopperStep
<1> QED
  BY <1>1, <1>2, PromiseStep, ClosedStep, TypeCorrect, PTL DEF Spec
=============================================================================
