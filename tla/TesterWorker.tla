---------------------------- MODULE TesterWorker ----------------------------
(***************************************************************************)
(* The goroutine of the tester that sends requests to one deployed         *)
(* function (runWorkerLoop), the goroutines of its requests, and the user  *)
(* who changes the settings of the deployment meanwhile.  Every look of    *)
(* the loop at the settings is a step of its own: each takes the mutex     *)
(* anew.                                                                   *)
(*                                                                         *)
(* Of RequestsPerSecond and DelayBetweenBatches the loop's control sees    *)
(* whether they are zero: here 1 is every positive value.  Of the counters *)
(* in RunStats the model keeps the difference that the request goroutines  *)
(* have still to settle; the others are only displayed.                    *)
(***************************************************************************)
EXTENDS Naturals

CONSTANTS
    MaxBatch,   \* bound on BatchSize, which the user may raise for ever
    MaxOpen     \* bound on the requests in flight, which the code has not

ASSUME ConstantsAssumption ==
    /\ MaxBatch \in Nat /\ MaxBatch >= 3
    /\ MaxOpen \in Nat \ {0}

VARIABLES
    pc,             \* where the loop is
    sentInBatch,
    enabled,        \* deploymentState.enabled
    batch, rps, delay,  \* deploymentState.settings
    ctxDone,        \* the worker's ctx is done
    open,           \* RequestsSent - ResponsesReceived - TransportErrors
    since,          \* history: what came after the last request of the batch
    stale           \* history: requests sent against the current settings

settings == <<batch, rps, delay>>
history == <<since, stale>>
vars == <<pc, sentInBatch, enabled, settings, ctxDone, open, history>>

Sleeping == {"idle", "pause", "rest"}
PCs == {"top", "check", "batch", "send", "next", "complete", "delay", "ended"}
           \cup Sleeping

\* newDeploymentState, and startWorker at once.
Init ==
    /\ pc = "top"
    /\ sentInBatch = 0
    /\ enabled = TRUE
    /\ batch = 3 /\ rps = 1 /\ delay = 1
    /\ ctxDone = FALSE
    /\ open = 0
    /\ since = "start"
    /\ stale = 0

-----------------------------------------------------------------------------
(* runWorkerLoop *)

Active == batch > 0 /\ rps > 0
MoreInBatch == Active /\ sentInBatch < batch

\* EnabledSnapshot
CheckEnabled ==
    /\ pc = "top"
    /\ pc' = IF enabled THEN "check" ELSE "idle"
    /\ UNCHANGED <<sentInBatch, enabled, settings, ctxDone, open, history>>

\* The look at the settings before a batch, and sentInBatch := 0.
CheckSettings ==
    /\ pc = "check"
    /\ pc' = IF Active THEN "batch" ELSE "idle"
    /\ sentInBatch' = 0
    /\ since' = "start"
    /\ UNCHANGED <<enabled, settings, ctxDone, open, stale>>

\* The look at the settings before each request of the batch.
CheckBatch ==
    /\ pc = "batch"
    /\ pc' = IF MoreInBatch THEN "send" ELSE "complete"
    /\ UNCHANGED <<sentInBatch, enabled, settings, ctxDone, open, history>>

\* RecordRequestStarted and the start of the request's goroutine.
SendRequest ==
    /\ pc = "send"
    /\ open < MaxOpen
    /\ open' = open + 1
    /\ sentInBatch' = sentInBatch + 1
    /\ since' = "request"
    /\ stale' = IF MoreInBatch THEN stale ELSE stale + 1
    /\ pc' = "next"
    /\ UNCHANGED <<enabled, settings, ctxDone>>

\* Mutation: the loop goes on to the next request without another look.
CheckPauseOnly ==
    /\ pc = "next"
    /\ pc' = IF MoreInBatch THEN "pause" ELSE "send"
    /\ UNCHANGED <<sentInBatch, enabled, settings, ctxDone, open, history>>

\* Mutation: the pause is skipped for a batch of two.
CheckPauseOffByOne ==
    /\ pc = "next"
    /\ pc' = IF Active /\ sentInBatch + 1 < batch THEN "pause" ELSE "batch"
    /\ UNCHANGED <<sentInBatch, enabled, settings, ctxDone, open, history>>

\* The look at the settings after a request: sleep before the next one, or
\* continue to the look that ends the batch.
CheckPause ==
    /\ pc = "next"
    /\ pc' = IF MoreInBatch THEN "pause" ELSE "batch"
    /\ UNCHANGED <<sentInBatch, enabled, settings, ctxDone, open, history>>

\* RecordBatchCompletion of a batch that was not empty changes no more than
\* a displayed counter.
CompleteBatch ==
    /\ pc = "complete"
    /\ pc' = "delay"
    /\ UNCHANGED <<sentInBatch, enabled, settings, ctxDone, open, history>>

\* Mutation: the next batch starts without a look at enabled.
CheckDelayInBatch ==
    /\ pc = "delay"
    /\ pc' = IF delay > 0 THEN "rest" ELSE "check"
    /\ UNCHANGED <<sentInBatch, enabled, settings, ctxDone, open, history>>

\* The look at the delay: without one the loop starts again at once.
CheckDelay ==
    /\ pc = "delay"
    /\ pc' = IF delay > 0 THEN "rest" ELSE "top"
    /\ UNCHANGED <<sentInBatch, enabled, settings, ctxDone, open, history>>

\* sleepWithContext, case <-timer.C
TimerFires ==
    /\ pc \in Sleeping
    /\ pc' = IF pc = "pause" THEN "batch" ELSE "top"
    /\ since' = IF pc = "pause" THEN "paused" ELSE since
    /\ UNCHANGED <<sentInBatch, enabled, settings, ctxDone, open, stale>>

\* Mutation: the result of the sleep while disabled is ignored.
SleepCancelledInBatch ==
    /\ pc \in {"pause", "rest"}
    /\ ctxDone
    /\ pc' = "ended"
    /\ UNCHANGED <<sentInBatch, enabled, settings, ctxDone, open, history>>

\* sleepWithContext, case <-ctx.Done(): the loop returns.
SleepCancelled ==
    /\ pc \in Sleeping
    /\ ctxDone
    /\ pc' = "ended"
    /\ UNCHANGED <<sentInBatch, enabled, settings, ctxDone, open, history>>

-----------------------------------------------------------------------------
(* A request's goroutine, and the user *)

\* invokeFunction returns, with a response or an error, and RecordRequest
\* counts it as the one or the other.
RecordRequest ==
    /\ open > 0
    /\ open' = open - 1
    /\ UNCHANGED <<pc, sentInBatch, enabled, settings, ctxDone, history>>

\* Once the ctx is cancelled the dashboard takes no more keys.
ToggleEnabled ==
    /\ ~ctxDone
    /\ enabled' = ~enabled
    /\ UNCHANGED <<pc, sentInBatch, settings, ctxDone, open, history>>

\* What one press of + or - makes of a setting.
Adjusted(x) == {y \in 0..MaxBatch : y = x + 1 \/ x = y + 1}
\* The same for a setting of which 1 stands for all that are positive.
AdjustedPositive(x) == {y \in {0, 1} : x + y > 0}

\* A press of - on a zero changes nothing.
AdjustSetting ==
    /\ ~ctxDone
    /\ \/ batch' \in Adjusted(batch) /\ UNCHANGED <<rps, delay>>
       \/ rps' \in AdjustedPositive(rps) /\ UNCHANGED <<batch, delay>>
       \/ delay' \in AdjustedPositive(delay) /\ UNCHANGED <<batch, rps>>
    /\ since' = IF since = "request" THEN "changed" ELSE since
    /\ stale' = 0
    /\ UNCHANGED <<pc, sentInBatch, enabled, ctxDone, open>>

\* deploymentState.Stop, or the cancel of the tester's own ctx.
Stop ==
    /\ ~ctxDone
    /\ ctxDone' = TRUE
    /\ UNCHANGED <<pc, sentInBatch, enabled, settings, open, history>>

-----------------------------------------------------------------------------

LoopStep ==
    \/ CheckEnabled \/ CheckSettings \/ CheckBatch \/ SendRequest
    \/ CheckPause \/ CompleteBatch \/ CheckDelay \/ TimerFires \/ SleepCancelled

Next == LoopStep \/ RecordRequest \/ ToggleEnabled \/ AdjustSetting \/ Stop

Spec == Init /\ [][Next]_vars

\* The loop is scheduled; a request ends by the timeouts of its ctx and its
\* client, and requests started later do not keep an earlier one from ending;
\* select takes each of two ready cases now and then.  The user owes nothing.
FairSpec ==
    /\ Spec
    /\ WF_vars(LoopStep)
    /\ WF_vars(RecordRequest)
    /\ SF_vars(SleepCancelled)

-----------------------------------------------------------------------------
(* Properties *)

\* The settings stay at or above zero whatever the user presses, and a batch
\* never sends more requests than the largest BatchSize asked for.
TypeOK ==
    /\ pc \in PCs
    /\ sentInBatch \in 0..MaxBatch
    /\ enabled \in BOOLEAN
    /\ batch \in 0..MaxBatch /\ rps \in {0, 1} /\ delay \in {0, 1}
    /\ ctxDone \in BOOLEAN
    /\ open \in 0..MaxOpen
    /\ since \in {"start", "request", "paused", "changed"}
    /\ stale \in Nat

\* A change of the settings is effective after at most one more request, the
\* one between the look that allowed it and its RecordRequestStarted.
AtMostOneStale == stale <= 1

\* Inside a batch a pause lies between two requests, so that Requests/s is
\* the rate of the burst; the one exception is a change of the settings
\* between the look after a request and the look before the next.
BurstIsPaced ==
    [][sentInBatch' > sentInBatch => since # "request"]_vars

\* Disabling stops the requests for good, at the latest when the batch ends.
DisabledIsQuiet ==
    <>[]~enabled => <>[](pc \in {"top", "idle", "ended"})

\* While a deployment is enabled and its settings ask for requests, the loop
\* keeps sending them.
EnabledIsActive ==
    <>[](enabled /\ Active /\ ~ctxDone) => []<>(pc = "send")

\* The switch of a deployment takes effect both ways.
FollowsEnabled == DisabledIsQuiet /\ EnabledIsActive

\* The settings with which the loop never sleeps and so never sees its ctx.
Spinning == enabled /\ batch = 1 /\ rps > 0 /\ delay = 0

\* After the cancel the loop and its requests end, and the tester's wg.Wait
\* returns, except with the settings of Spinning.
WorkerEnds == ctxDone ~> (pc = "ended" /\ open = 0) \/ Spinning
=============================================================================
