------------------------ MODULE TesterWorkerProofs --------------------------
(***************************************************************************)
(* TLAPS proofs about TesterWorker, for any bound on the batch size and on *)
(* the requests in flight.                                                 *)
(***************************************************************************)
EXTENDS TesterWorker, TLAPS

\* What the looks of the loop at the settings leave true at the next one.
\* Before a request the settings allowed it, and still do once a request has
\* been sent against them: only a change of the settings makes another such
\* request possible.  When the loop comes to the look before a request without
\* a pause, the settings do not allow the request unless they change.
Looks ==
    /\ AtMostOneStale
    /\ pc = "send" =>
          /\ sentInBatch < MaxBatch
          /\ since # "request"
          /\ stale = 1 => MoreInBatch
    /\ pc = "batch" /\ since = "request" => ~MoreInBatch

\* A new worker has seen no change of its settings.
LEMMA LooksInit == Init => TypeOK /\ Looks
<1> SUFFICES ASSUME Init PROVE TypeOK /\ Looks
  OBVIOUS
<1>1. TypeOK
  <2>1. enabled \in BOOLEAN /\ ctxDone \in BOOLEAN
    BY Zenon DEF Init
  <2>2. sentInBatch \in 0..MaxBatch /\ batch \in 0..MaxBatch /\ open \in 0..MaxOpen
    BY ConstantsAssumption DEF Init
  <2>3. pc \in PCs /\ rps \in {0, 1} /\ delay \in {0, 1} /\ stale \in Nat
    BY DEF Init, PCs
  <2>4. since \in {"start", "request", "paused", "changed"}
    BY DEF Init
  <2> QED
    BY <2>1, <2>2, <2>3, <2>4, Zenon DEF TypeOK
<1>2. Looks
  BY DEF Init, Looks, AtMostOneStale
<1> QED
  BY <1>1, <1>2

\* Every step of the loop, of a request and of the user keeps the types and
\* what the looks have established.
LEMMA LooksStep == TypeOK /\ Looks /\ [Next]_vars => TypeOK' /\ Looks'
<1> SUFFICES ASSUME TypeOK, Looks, [Next]_vars PROVE TypeOK' /\ Looks'
  OBVIOUS
<1> USE ConstantsAssumption
    DEF TypeOK, PCs, Sleeping, Looks, AtMostOneStale, MoreInBatch, Active,
        settings, history
<1>1. CASE CheckEnabled \/ CompleteBatch \/ CheckDelay
  BY <1>1 DEF CheckEnabled, CompleteBatch, CheckDelay
<1>2. CASE CheckSettings
  BY <1>2 DEF CheckSettings
<1>3. CASE CheckBatch
  BY <1>3 DEF CheckBatch
<1>4. CASE SendRequest
  BY <1>4 DEF SendRequest
<1>5. CASE CheckPause
  BY <1>5 DEF CheckPause
<1>6. CASE TimerFires \/ SleepCancelled
  BY <1>6 DEF TimerFires, SleepCancelled
<1>7. CASE RecordRequest
  BY <1>7 DEF RecordRequest
<1>8. CASE ToggleEnabled \/ Stop
  BY ZenonT(60), <1>8 DEF ToggleEnabled, Stop
<1>9. CASE AdjustSetting
  BY <1>9 DEF AdjustSetting, Adjusted, AdjustedPositive
<1>10. CASE UNCHANGED vars
  BY <1>10 DEF vars
<1> QED
  BY <1>1, <1>2, <1>3, <1>4, <1>5, <1>6, <1>7, <1>8, <1>9, <1>10
  DEF Next, LoopStep

\* No batch sends more requests than the largest BatchSize, no setting becomes
\* negative and no request is settled that was not sent.
THEOREM WorkerTypeCorrect == Spec => []TypeOK
BY LooksInit, LooksStep, PTL DEF Spec

\* However the changes of the settings fall between the looks of the loop, at
\* most one request is sent against the settings in force.
THEOREM OneStaleRequest == Spec => []AtMostOneStale
<1>1. Looks => AtMostOneStale
  BY DEF Looks
<1> QED
  BY <1>1, LooksInit, LooksStep, PTL DEF Spec

\* A pause lies between two requests of a batch unless the settings change
\* after the first.
THEOREM PauseBetweenRequests == Spec => BurstIsPaced
<1>1. TypeOK /\ Looks /\ [Next]_vars =>
          [sentInBatch' > sentInBatch => since # "request"]_vars
  <2> SUFFICES ASSUME TypeOK, Looks, Next, sentInBatch' > sentInBatch
               PROVE  since # "request"
    OBVIOUS
  <2>1. pc = "send"
    BY ConstantsAssumption
    DEF Next, LoopStep, TypeOK, CheckEnabled, CheckSettings, CheckBatch,
        SendRequest, CheckPause, CompleteBatch, CheckDelay, TimerFires,
        SleepCancelled, RecordRequest, ToggleEnabled, AdjustSetting, Stop
  <2> QED
    BY <2>1 DEF Looks
<1> QED
  BY <1>1, LooksInit, LooksStep, PTL DEF Spec, BurstIsPaced
=============================================================================
