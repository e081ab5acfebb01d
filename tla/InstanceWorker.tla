--------------------------- MODULE InstanceWorker ---------------------------
(***************************************************************************)
(* One function instance of a Runner, from the moment Submit has put it    *)
(* into instanceStates: the InvokeFunctionInstance calls that use it, the  *)
(* worker goroutine that one of them starts, the shutdownAfterTime         *)
(* goroutine that stops it, the heartbeat that reports it, and time.       *)
(* Instances share nothing but the map they are looked up in, so one       *)
(* instance stands for each.                                               *)
(*                                                                         *)
(* A call is one RPC.  Its request is named by the call itself: headers    *)
(* and bodies never influence the control flow.  A failed assert.That and  *)
(* a send on a closed channel panic, the gRPC server does not recover, and *)
(* the process dies: panic records the cause and no step follows it.       *)
(***************************************************************************)
EXTENDS Naturals, Sequences, Functions

CONSTANTS
    Calls,          \* InvokeFunctionInstance calls for this instance
    MayCancel,      \* the calls whose client may go away (ctx.Done)
    QueueMaxLen,    \* InvocationsQueueMaxLen
    ShutdownAfter,  \* instanceShutdownAfter, in ticks
    GracePeriod     \* shutdown grace period of the heartbeat, in ticks

ASSUME ConstantsAssumption ==
    /\ MayCancel \subseteq Calls
    /\ QueueMaxLen \in Nat \ {0}
    /\ ShutdownAfter \in Nat \ {0}
    /\ GracePeriod \in Nat

VARIABLES
    pc,             \* where each call is in InvokeFunctionInstance
    mustWork,       \* InstanceState answered running == false to the call
    cancelled,      \* the call's ctx is done
    opened,         \* instanceState.opened
    queue,          \* the requests buffered in instanceState.queue
    closed,         \* instanceState.queue is closed
    workerCtxDone,  \* instanceState.workerCtx is done
    mapped,         \* the instance is in instanceStates
    worker,         \* the instanceWorker goroutine started by each call
    cur,            \* the request that goroutine took last
    stopper,        \* the shutdownAfterTime goroutine
    timerLeft,      \* ticks until lastUsedTimer expires (lastUsedTimerEnd)
    promised,       \* ticks left of the grace the last heartbeat granted
    panic,          \* why the runner process died
    order           \* history: the requests in the order they were queued

callVars == <<pc, mustWork, cancelled>>
instanceVars == <<opened, closed, workerCtxDone, mapped>>
workerVars == <<worker, cur>>
timeVars == <<timerLeft, promised>>
queueVars == <<queue, order>>
vars == <<callVars, instanceVars, workerVars, timeVars, queueVars, stopper, panic>>

CallPCs == {"lookup", "cas", "check", "reset", "enqueue", "spawn", "wait",
            "answered", "left", "unknown"}
WorkerPCs == {"none", "select", "invoke", "send", "leave", "exit"}
StopperPCs == {"wait", "store", "cancel", "close", "delete", "stop", "done"}
Panics == {"none", "closedQueue", "triggeredTimer", "sendOnClosed"}

\* Submit: a closed (not opened) queue without a worker and a fresh timer.
Init ==
    /\ pc = [c \in Calls |-> "lookup"]
    /\ mustWork = [c \in Calls |-> FALSE]
    /\ cancelled = [c \in Calls |-> FALSE]
    /\ opened = FALSE
    /\ queue = <<>>
    /\ closed = FALSE
    /\ workerCtxDone = FALSE
    /\ mapped = TRUE
    /\ worker = [c \in Calls |-> "none"]
    /\ cur = [c \in Calls |-> c]
    /\ stopper = "wait"
    /\ timerLeft = ShutdownAfter
    /\ promised = 0
    /\ panic = "none"
    /\ order = <<>>

-----------------------------------------------------------------------------
(* InvokeFunctionInstance *)

Goto(c, l) == pc' = [pc EXCEPT ![c] = l]

\* InstanceState: the lookup under the read lock, or ErrUnknownInstance.
Lookup(c) ==
    /\ pc[c] = "lookup"
    /\ Goto(c, IF mapped THEN "cas" ELSE "unknown")
    /\ UNCHANGED <<mustWork, cancelled, instanceVars, workerVars, timeVars,
                   queueVars, stopper, panic>>

\* InstanceState: opened.CompareAndSwap(false, true); the winner must work.
CompareAndSwap(c) ==
    /\ pc[c] = "cas"
    /\ mustWork' = [mustWork EXCEPT ![c] = ~opened]
    /\ opened' = TRUE
    /\ Goto(c, "check")
    /\ UNCHANGED <<cancelled, closed, workerCtxDone, mapped, workerVars,
                   timeVars, queueVars, stopper, panic>>

\* AddToQueue: the assertion that the queue is opened.
CheckOpened(c) ==
    /\ pc[c] = "check"
    /\ \/ opened /\ Goto(c, "reset") /\ UNCHANGED panic
       \/ ~opened /\ panic' = "closedQueue" /\ UNCHANGED pc
    /\ UNCHANGED <<mustWork, cancelled, instanceVars, workerVars, timeVars,
                   queueVars, stopper>>

\* ResetTimer.  shutdownAfterTime is blocked on the timer's channel, so Reset
\* finds the timer active exactly while that goroutine has received nothing.
\* Reset and the time.Now() of the next statement fall into the same tick.
ResetTimer(c) ==
    /\ pc[c] = "reset"
    /\ \/ /\ stopper = "wait"
          /\ timerLeft' = ShutdownAfter
          /\ Goto(c, "enqueue")
          /\ UNCHANGED panic
       \/ /\ stopper # "wait"
          /\ panic' = "triggeredTimer"
          /\ UNCHANGED <<pc, timerLeft>>
    /\ UNCHANGED <<mustWork, cancelled, instanceVars, workerVars, promised,
                   queueVars, stopper>>

\* Mutation: the send does not wait for room in the buffer.
EnqueueDropsWhenFull(c) ==
    /\ pc[c] = "enqueue"
    /\ ~closed
    /\ IF Len(queue) < QueueMaxLen
       THEN queue' = Append(queue, c) /\ order' = Append(order, c)
       ELSE UNCHANGED queueVars
    /\ Goto(c, "spawn")
    /\ UNCHANGED <<mustWork, cancelled, instanceVars, workerVars, timeVars,
                   stopper, panic>>

\* AddToQueue: queue <- invocation blocks while the buffer is full, whatever
\* happens to the call's ctx, and panics once the channel is closed.
Enqueue(c) ==
    /\ pc[c] = "enqueue"
    /\ \/ /\ ~closed
          /\ Len(queue) < QueueMaxLen
          /\ queue' = Append(queue, c)
          /\ order' = Append(order, c)
          /\ Goto(c, "spawn")
          /\ UNCHANGED panic
       \/ /\ closed
          /\ panic' = "sendOnClosed"
          /\ UNCHANGED <<pc, queueVars>>
    /\ UNCHANGED <<mustWork, cancelled, instanceVars, workerVars, timeVars,
                   stopper>>

\* if !isRunning { go r.instanceWorker(instance) }
SpawnWorker(c) ==
    /\ pc[c] = "spawn"
    /\ worker' = [worker EXCEPT ![c] = IF mustWork[c] THEN "select" ELSE @]
    /\ Goto(c, "wait")
    /\ UNCHANGED <<mustWork, cancelled, instanceVars, cur, timeVars,
                   queueVars, stopper, panic>>

\* The select's ctx.Done case; the other case is WorkerSends.
ReturnCancelled(c) ==
    /\ pc[c] = "wait"
    /\ cancelled[c]
    /\ Goto(c, "left")
    /\ UNCHANGED <<mustWork, cancelled, instanceVars, workerVars, timeVars,
                   queueVars, stopper, panic>>

\* The client of the call goes away.
Cancel(c) ==
    /\ c \in MayCancel
    /\ pc[c] \notin {"answered", "left", "unknown"}
    /\ ~cancelled[c]
    /\ cancelled' = [cancelled EXCEPT ![c] = TRUE]
    /\ UNCHANGED <<pc, mustWork, instanceVars, workerVars, timeVars,
                   queueVars, stopper, panic>>

-----------------------------------------------------------------------------
(* instanceWorker *)

WorkerGoto(w, l) == worker' = [worker EXCEPT ![w] = l]

\* case <-workerCtx.Done(): exit and leave opened alone.
WorkerStops(w) ==
    /\ worker[w] = "select"
    /\ workerCtxDone
    /\ WorkerGoto(w, "exit")
    /\ UNCHANGED <<callVars, instanceVars, cur, timeVars, queueVars, stopper, panic>>

\* case <-timer.C: the idle timer may win the select even against a
\* request that is ready.
WorkerIdles(w) ==
    /\ worker[w] = "select"
    /\ WorkerGoto(w, "leave")
    /\ UNCHANGED <<callVars, instanceVars, cur, timeVars, queueVars, stopper, panic>>

\* case req, ok := <-queue, with ok == false.
WorkerSeesClosed(w) ==
    /\ worker[w] = "select"
    /\ closed
    /\ queue = <<>>
    /\ WorkerGoto(w, "leave")
    /\ UNCHANGED <<callVars, instanceVars, cur, timeVars, queueVars, stopper, panic>>

\* Mutation: break without the label leaves the select, not the loop.
WorkerLeavesSelectOnly(w) ==
    /\ worker[w] = "leave"
    /\ opened' = FALSE
    /\ WorkerGoto(w, "select")
    /\ UNCHANGED <<callVars, closed, workerCtxDone, mapped, cur, timeVars,
                   queueVars, stopper, panic>>

\* opened.Store(false) and break, after the idle timer or a closed queue.
WorkerLeaves(w) ==
    /\ worker[w] = "leave"
    /\ opened' = FALSE
    /\ WorkerGoto(w, "exit")
    /\ UNCHANGED <<callVars, closed, workerCtxDone, mapped, cur, timeVars,
                   queueVars, stopper, panic>>

\* Mutation: the newest request is served first.
WorkerTakesNewest(w) ==
    /\ worker[w] = "select"
    /\ queue # <<>>
    /\ cur' = [cur EXCEPT ![w] = queue[Len(queue)]]
    /\ queue' = SubSeq(queue, 1, Len(queue) - 1)
    /\ WorkerGoto(w, "invoke")
    /\ UNCHANGED <<callVars, instanceVars, timeVars, order, stopper, panic>>

\* case req, ok := <-queue, with a request; a closed channel still drains.
WorkerTakes(w) ==
    /\ worker[w] = "select"
    /\ queue # <<>>
    /\ cur' = [cur EXCEPT ![w] = Head(queue)]
    /\ queue' = Tail(queue)
    /\ WorkerGoto(w, "invoke")
    /\ UNCHANGED <<callVars, instanceVars, timeVars, order, stopper, panic>>

\* runtime.Invoke returns: the guest's response, its error, or the error of
\* an invokeCtx cancelled through the call's ctx or workerCtx.
GuestAnswers(w) ==
    /\ worker[w] = "invoke"
    /\ WorkerGoto(w, "send")
    /\ UNCHANGED <<callVars, instanceVars, cur, timeVars, queueVars, stopper, panic>>

\* req.resCh <- result meets the call's select on the unbuffered channel.
\* timer.Reset always succeeds here: the goroutine has not received from the
\* idle timer, and an expired but unreceived timer still counts as active.
WorkerSends(w) ==
    /\ worker[w] = "send"
    /\ pc[cur[w]] = "wait"
    /\ Goto(cur[w], "answered")
    /\ WorkerGoto(w, "select")
    /\ UNCHANGED <<mustWork, cancelled, instanceVars, cur, timeVars,
                   queueVars, stopper, panic>>

-----------------------------------------------------------------------------
(* shutdownAfterTime and StopInstance *)

\* Mutation: the shutdown is skipped, not postponed, while requests wait.
TimerFiresWhenEmpty ==
    /\ stopper = "wait"
    /\ timerLeft = 0
    /\ queue = <<>>
    /\ stopper' = "store"
    /\ UNCHANGED <<callVars, instanceVars, workerVars, timeVars, queueVars, panic>>

\* <-lastUsedTimer.C
TimerFires ==
    /\ stopper = "wait"
    /\ timerLeft = 0
    /\ stopper' = "store"
    /\ UNCHANGED <<callVars, instanceVars, workerVars, timeVars, queueVars, panic>>

StopStoresOpened ==
    /\ stopper = "store"
    /\ opened' = FALSE
    /\ stopper' = "cancel"
    /\ UNCHANGED <<callVars, closed, workerCtxDone, mapped, workerVars,
                   timeVars, queueVars, panic>>

StopCancelsWorker ==
    /\ stopper = "cancel"
    /\ workerCtxDone' = TRUE
    /\ stopper' = "close"
    /\ UNCHANGED <<callVars, opened, closed, mapped, workerVars, timeVars,
                   queueVars, panic>>

\* close(queue); lastUsedTimer.Stop() is void, the timer has fired.
StopClosesQueue ==
    /\ stopper = "close"
    /\ closed' = TRUE
    /\ stopper' = "delete"
    /\ UNCHANGED <<callVars, opened, workerCtxDone, mapped, workerVars,
                   timeVars, queueVars, panic>>

StopDeletes ==
    /\ stopper = "delete"
    /\ mapped' = FALSE
    /\ stopper' = "stop"
    /\ UNCHANGED <<callVars, opened, closed, workerCtxDone, workerVars,
                   timeVars, queueVars, panic>>

StopStopsRuntime ==
    /\ stopper = "stop"
    /\ stopper' = "done"
    /\ UNCHANGED <<callVars, instanceVars, workerVars, timeVars, queueVars, panic>>

-----------------------------------------------------------------------------
(* Heartbeat and time *)

\* Mutation: no filter on the remaining life time.
QueueDepthsUnfiltered ==
    /\ mapped
    /\ promised' = GracePeriod
    /\ UNCHANGED <<callVars, instanceVars, workerVars, timerLeft, queueVars,
                   stopper, panic>>

\* QueueDepths reports an instance that has the grace period left; one that
\* has less is filtered out, which changes nothing.
QueueDepths ==
    /\ mapped
    /\ timerLeft >= GracePeriod
    /\ promised' = GracePeriod
    /\ UNCHANGED <<callVars, instanceVars, workerVars, timerLeft, queueVars,
                   stopper, panic>>

Tick ==
    /\ timerLeft > 0
    /\ timerLeft' = timerLeft - 1
    /\ promised' = IF promised = 0 THEN 0 ELSE promised - 1
    /\ UNCHANGED <<callVars, instanceVars, workerVars, queueVars, stopper, panic>>

-----------------------------------------------------------------------------

CallStep(c) ==
    \/ Lookup(c) \/ CompareAndSwap(c) \/ CheckOpened(c) \/ ResetTimer(c)
    \/ Enqueue(c) \/ SpawnWorker(c) \/ ReturnCancelled(c)

WorkerStep(w) ==
    \/ WorkerStops(w) \/ WorkerIdles(w) \/ WorkerSeesClosed(w)
    \/ WorkerLeaves(w) \/ WorkerTakes(w) \/ GuestAnswers(w) \/ WorkerSends(w)

StopperStep ==
    \/ TimerFires \/ StopStoresOpened \/ StopCancelsWorker \/ StopClosesQueue
    \/ StopDeletes \/ StopStopsRuntime

Next ==
    /\ panic = "none"
    /\ \/ \E c \in Calls : CallStep(c) \/ Cancel(c) \/ WorkerStep(c)
       \/ StopperStep
       \/ QueueDepths
       \/ Tick

Spec == Init /\ [][Next]_vars

\* Every goroutine is scheduled and time passes; a client need not go away,
\* and a select never has to prefer one ready case, so the fairness is one
\* condition per goroutine.  That the guest answers is the platform's
\* assumption about user functions.
Fairness ==
    /\ \A c \in Calls : WF_vars(panic = "none" /\ CallStep(c))
    /\ \A w \in Calls : WF_vars(panic = "none" /\ WorkerStep(w))
    /\ WF_vars(panic = "none" /\ StopperStep)
    /\ WF_vars(panic = "none" /\ Tick)

FairSpec == Spec /\ Fairness

-----------------------------------------------------------------------------
(* Properties *)

\* The variables have their types; the buffer never exceeds its capacity and
\* lastUsedTimerEnd never lies more than instanceShutdownAfter ahead.
TypeOK ==
    /\ pc \in [Calls -> CallPCs]
    /\ mustWork \in [Calls -> BOOLEAN]
    /\ cancelled \in [Calls -> BOOLEAN]
    /\ opened \in BOOLEAN
    /\ queue \in Seq(Calls)
    /\ Len(queue) <= QueueMaxLen
    /\ closed \in BOOLEAN
    /\ workerCtxDone \in BOOLEAN
    /\ mapped \in BOOLEAN
    /\ worker \in [Calls -> WorkerPCs]
    /\ cur \in [Calls -> Calls]
    /\ stopper \in StopperPCs
    /\ timerLeft \in 0..ShutdownAfter
    /\ promised \in 0..GracePeriod
    /\ panic \in Panics
    /\ order \in Seq(Calls)

\* A worker goroutine that has not finished with the instance.
Working(w) == worker[w] \in {"select", "invoke", "send", "leave"}

\* The call runs a worker or is past the last check before it starts one.
Claims(c) == Working(c) \/ (mustWork[c] /\ pc[c] \in {"enqueue", "spawn"})

\* Of all the calls that race for an instance, through the idle exit of one
\* worker and the shutdown of the instance, at most one runs a worker or is
\* going to start one: the opened flag, which StopInstance and the worker
\* clear without any lock, still works as one.
AtMostOneWorker ==
    \A c, d \in Calls : Claims(c) /\ Claims(d) => c = d

\* The call runs a worker or has won the CompareAndSwap and must start one.
Holds(c) ==
    Working(c) \/ (mustWork[c] /\ pc[c] \in {"check", "reset", "enqueue", "spawn"})

\* Until StopInstance clears it, opened is a lock: it is set exactly while
\* one call holds it, from its CompareAndSwap to the exit of its worker.
\* Afterwards a second call may win the CompareAndSwap but none starts a
\* worker any more, because ResetTimer panics.
OpenedIsLock ==
    /\ AtMostOneWorker
    /\ stopper \in {"wait", "store"} =>
          /\ ~workerCtxDone
          /\ opened <=> \E c \in Calls : Holds(c)
          /\ \A c, d \in Calls : Holds(c) /\ Holds(d) => c = d
    /\ \A c \in Calls : worker[c] # "none" => pc[c] \in {"wait", "answered", "left"}

\* An instance that a heartbeat reported is not stopped before the grace
\* period after that heartbeat is over (QueueDepths filters out instances
\* that will end within it), whatever calls arrive in between.
HeartbeatPromise ==
    promised > 0 => stopper = "wait"

\* Once StopInstance has taken the instance out of the map, no call that had
\* looked it up before gets its request into the queue.
NoAcceptAfterRemoval ==
    [][~mapped => order' = order]_vars

\* Whatever the calls do, the instance is stopped in the end: the shutdown
\* goroutine is never starved or blocked (or the process died).
EventuallyStopped ==
    <>(stopper = "done" \/ panic # "none")

\* After that no worker goroutine stays behind, except one that offers a
\* result to a call that has left and can never be received.
WorkersEnd ==
    <>[](\/ panic # "none"
         \/ \A w \in Calls : Working(w) => worker[w] = "send" /\ pc[cur[w]] = "left")

\* A call that has queued its request waits for ever only if the shutdown of
\* the instance found that request in the queue: no request is lost anywhere
\* else, not by idle exits of workers, by calls that leave or by the cancel of
\* a worker that has taken it.
LostOnlyInQueue ==
    \A c \in Calls :
        pc[c] = "wait"
            ~> \/ pc[c] \in {"answered", "left"} \/ panic # "none"
               \/ stopper = "done" /\ c \in Range(queue)

-----------------------------------------------------------------------------
(* What the code's assertions say of it *)

\* AddToQueue asserts that the queue it adds to is open (instances.go:66), and
\* ResetTimer, which it calls, that the timer has not fired (instances.go:59).
AddToQueueAssertions == panic \notin {"closedQueue", "triggeredTimer"}

-----------------------------------------------------------------------------
(* The instance serves its requests one at a time and in order. *)

Serial == INSTANCE SerialQueue WITH
    started <- Len(order) - Len(queue),
    serving <- {cur[w] : w \in {v \in Calls : worker[v] \in {"invoke", "send"}}},
    answered <- {c \in Calls : pc[c] = "answered"}

\* The calls, workers and shutdown of an instance implement SerialQueue: a
\* request is sent to the guest at most once, in queue order, never while
\* another is being served, and only the request being served is answered.
SerialSpec == Serial!Spec
=============================================================================
