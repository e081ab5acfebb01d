------------------------ MODULE NativeRuntimeProofs -------------------------
(***************************************************************************)
(* TLAPS proofs about NativeRuntime, for any instances, ports and number   *)
(* of attempts.                                                            *)
(***************************************************************************)
EXTENDS NativeRuntime, TLAPS

\* A guest lives only while its runtime holds it, or after an error of
\* GrpcClient, whether the Runner is there or not; a runtime has a port when
\* it comes to starting the guest; and a guest that listens does so on the
\* port of its runtime.
Guests ==
    /\ \A i \in Instances :
          /\ proc[i] \in Alive => pc[i] \in Holding \cup {"leaked"}
          /\ pc[i] \notin {"freePort", "failed"} \/ proc[i] # "none" => port[i] \in Ports
          /\ pc[i] = "freePort" => proc[i] = "none"
    /\ \A p \in Ports : bound[p] \in Instances =>
          proc[bound[p]] = "listening" /\ port[bound[p]] = p

\* Before the first Start nothing runs and nothing listens.
LEMMA GuestsInit == Init => TypeOK /\ Guests
<1> SUFFICES ASSUME Init PROVE TypeOK /\ Guests
  OBVIOUS
<1>1. TypeOK
  BY ConstantsAssumption DEF Init, TypeOK, Starting, Holding, Ended, Alive
<1>2. Guests
  BY ConstantsAssumption DEF Init, Guests, Alive
<1> QED
  BY <1>1, <1>2

\* Every step of a Start, of a Stop, of a guest and of another program keeps the
\* types.
LEMMA TypeStep == TypeOK /\ [Next]_vars => TypeOK'
<1> SUFFICES ASSUME TypeOK, [Next]_vars PROVE TypeOK'
  OBVIOUS
<1> USE ConstantsAssumption
    DEF TypeOK, Starting, Holding, Ended, Alive, startVars, guestVars, Goto, Release,
        LeaveWait
<1>1. ASSUME NEW i \in Instances, FreePort(i) PROVE TypeOK'
  BY <1>1 DEF FreePort
<1>2. ASSUME NEW i \in Instances, StartProcess(i) PROVE TypeOK'
  BY <1>2 DEF StartProcess
<1>3. ASSUME NEW i \in Instances, CreateClient(i) \/ HeartbeatAnswered(i)
      PROVE  TypeOK'
  BY ZenonT(60), <1>3 DEF CreateClient, HeartbeatAnswered
<1>4. ASSUME NEW i \in Instances, HeartbeatFails(i) PROVE TypeOK'
  BY <1>4 DEF HeartbeatFails
<1>5. ASSUME NEW i \in Instances, CloseCmdWaits(i) \/ HeartbeatTimer(i) \/ Cancel(i)
      PROVE  TypeOK'
  BY ZenonT(30), <1>5 DEF CloseCmdWaits, HeartbeatTimer, Cancel
<1>6. ASSUME NEW i \in Instances, Invoke(i) \/ Stop(i) \/ HandlerReturns(i)
      PROVE  TypeOK'
  BY ZenonT(30), <1>6 DEF Invoke, Stop, HandlerReturns
<1>7. ASSUME NEW i \in Instances, GuestListens(i) \/ GuestDrained(i) PROVE TypeOK'
  BY <1>7 DEF GuestListens, GuestDrained
<1>8. ASSUME NEW i \in Instances, GuestInterrupted(i) \/ GuestDies(i) PROVE TypeOK'
  BY ZenonT(60), <1>8 DEF GuestInterrupted, GuestDies
<1>9. ASSUME NEW p \in Ports, OtherProgram(p) PROVE TypeOK'
  BY <1>9 DEF OtherProgram
<1>10. CASE RunnerEnds
  BY <1>10 DEF RunnerEnds
<1>11. CASE UNCHANGED vars
  BY <1>11 DEF vars
<1> QED
  BY <1>1, <1>2, <1>3, <1>4, <1>5, <1>6, <1>7, <1>8, <1>9, <1>10, <1>11
  DEF Next, StartStep, GuestStep

\* Only the exit of the guest lets its runtime leave it, and a port is given
\* back when its guest stops listening.
LEMMA GuestsStep == TypeOK /\ Guests /\ [Next]_vars => Guests'
<1> SUFFICES ASSUME TypeOK, Guests, [Next]_vars PROVE Guests'
  OBVIOUS
<1> USE ConstantsAssumption
    DEF TypeOK, Guests, Starting, Holding, Ended, Alive, startVars, guestVars, Goto,
        Release, LeaveWait
<1>1. ASSUME NEW i \in Instances, FreePort(i) PROVE Guests'
  BY <1>1 DEF FreePort
<1>2. ASSUME NEW i \in Instances, StartProcess(i) PROVE Guests'
  BY <1>2 DEF StartProcess
<1>3. ASSUME NEW i \in Instances, CreateClient(i) \/ HeartbeatAnswered(i)
      PROVE  Guests'
  BY <1>3 DEF CreateClient, HeartbeatAnswered
<1>4. ASSUME NEW i \in Instances, HeartbeatFails(i) PROVE Guests'
  BY <1>4 DEF HeartbeatFails
<1>5. ASSUME NEW i \in Instances, CloseCmdWaits(i) \/ HeartbeatTimer(i) \/ Cancel(i)
      PROVE  Guests'
  BY <1>5 DEF CloseCmdWaits, HeartbeatTimer, Cancel
<1>6. ASSUME NEW i \in Instances, Invoke(i) \/ Stop(i) \/ HandlerReturns(i)
      PROVE  Guests'
  BY <1>6 DEF Invoke, Stop, HandlerReturns
<1>7. ASSUME NEW i \in Instances, GuestListens(i) \/ GuestDrained(i) PROVE Guests'
  BY <1>7 DEF GuestListens, GuestDrained
<1>8. ASSUME NEW i \in Instances, GuestInterrupted(i) \/ GuestDies(i) PROVE Guests'
  BY <1>8 DEF GuestInterrupted, GuestDies
<1>9. ASSUME NEW p \in Ports, OtherProgram(p) PROVE Guests'
  BY <1>9 DEF OtherProgram
<1>10. CASE RunnerEnds
  BY <1>10 DEF RunnerEnds
<1>11. CASE UNCHANGED vars
  BY <1>11 DEF vars
<1> QED
  BY <1>1, <1>2, <1>3, <1>4, <1>5, <1>6, <1>7, <1>8, <1>9, <1>10, <1>11
  DEF Next, StartStep, GuestStep

\* The variables keep their types; no process is started more often than
\* MaxStartRetries times.
THEOREM RuntimeTypeCorrect == Spec => []TypeOK
BY GuestsInit, TypeStep, PTL DEF Spec

\* No guest outlives its Start or Stop while the Runner is there, except after
\* an error of GrpcClient.
THEOREM NoGuestForgotten == Spec => []ProcessIsHeld
<1>1. Guests => ProcessIsHeld
  BY DEF Guests, ProcessIsHeld
<1> QED
  BY <1>1, GuestsInit, TypeStep, GuestsStep, PTL DEF Spec

\* The guest that answers the heartbeat of a Start is its own or has been given
\* the same port.
THEOREM HeartbeatFromOwnPort == Spec => ReadyIsOwnGuest
<1> DEFINE Ready(i) == pc[i] = "heartbeat" /\ pc'[i] = "running"
           Own(i) == \/ bound[port[i]] = i
                     \/ \E j \in Instances \ {i} : port[j] = port[i]
<1>1. TypeOK /\ Guests /\ [Next]_vars => [\A i \in Instances : Ready(i) => Own(i)]_vars
  <2> SUFFICES ASSUME TypeOK, Guests, Next, NEW i \in Instances, Ready(i)
               PROVE  Own(i)
    OBVIOUS
  <2>1. HeartbeatAnswered(i)
    BY DEF Next, StartStep, GuestStep, TypeOK, FreePort, StartProcess, CreateClient,
       HeartbeatAnswered, HeartbeatFails, CloseCmdWaits, HeartbeatTimer, Cancel,
       Invoke, Stop, GuestListens, GuestInterrupted, GuestDrained, HandlerReturns,
       GuestDies, OtherProgram, RunnerEnds, Goto, LeaveWait
  <2>2. port[i] \in Ports /\ bound[port[i]] \in Instances
    BY <2>1, ConstantsAssumption DEF HeartbeatAnswered, Guests, TypeOK
  <2> QED
    BY <2>2 DEF Guests
<1> QED
  BY <1>1, GuestsInit, TypeStep, GuestsStep, PTL DEF Spec, ReadyIsOwnGuest

-----------------------------------------------------------------------------
(* What closeCmd waits for *)

\* A runtime has a process exactly from startWithRetry on, unless that failed.
Started ==
    \A i \in Instances :
        /\ pc[i] \in {"freePort", "exec"} => proc[i] = "none"
        /\ pc[i] \in Holding \cup {"leaked", "stopped"} => proc[i] # "none"

\* The wait of closeCmd is for a process that has ended, that has an interrupt
\* to react to, or whose handlers GracefulStop waits for.
WaitsForSignalled ==
    \A i \in Instances : pc[i] \in {"closing", "stopping"} =>
        \/ proc[i] = "exited"
        \/ signalled[i] /\ proc[i] \in {"booting", "listening"}
        \/ proc[i] = "draining"

\* The interrupt has been sent before the wait begins.
Signals == \A i \in Instances : pc[i] \in {"closing", "stopping"} => signalled[i]

\* What a guest process may become: it never listens again once it drains and
\* is never started twice.
Successors(p) ==
    IF p = "none" THEN {"booting"}
    ELSE IF p = "booting" THEN {"listening", "exited"}
    ELSE IF p = "listening" THEN {"draining", "exited"}
    ELSE IF p = "draining" THEN {"exited"}
    ELSE {}

\* Every step of a runtime, a guest and the machine keeps both.
LEMMA StartedStep == TypeOK /\ Started /\ Signals /\ [Next]_vars => Started' /\ Signals'
<1> SUFFICES ASSUME TypeOK, Started, Signals, [Next]_vars PROVE Started' /\ Signals'
  OBVIOUS
<1> USE ConstantsAssumption DEF TypeOK, Started, Signals, Starting, Holding, Ended, Alive,
      startVars, guestVars, Goto
<1>1. ASSUME NEW i \in Instances, FreePort(i) \/ CreateClient(i) PROVE Started' /\ Signals'
  BY <1>1 DEF FreePort, CreateClient
<1>2. ASSUME NEW i \in Instances, StartProcess(i) PROVE Started' /\ Signals'
  BY <1>2 DEF StartProcess
<1>3. ASSUME NEW i \in Instances, HeartbeatAnswered(i) \/ HeartbeatFails(i) PROVE Started' /\ Signals'
  BY <1>3 DEF HeartbeatAnswered, HeartbeatFails, LeaveWait
<1>4. ASSUME NEW i \in Instances, CloseCmdWaits(i) \/ Stop(i) PROVE Started' /\ Signals'
  BY <1>4 DEF CloseCmdWaits, Stop
<1>5. ASSUME NEW i \in Instances,
             HeartbeatTimer(i) \/ Cancel(i) \/ Invoke(i) \/ HandlerReturns(i)
      PROVE  Started' /\ Signals'
  BY <1>5 DEF HeartbeatTimer, Cancel, Invoke, HandlerReturns
<1>6. ASSUME NEW i \in Instances, GuestStep(i) \/ GuestDies(i) PROVE Started' /\ Signals'
  BY <1>6 DEF GuestStep, GuestListens, GuestInterrupted, GuestDrained, GuestDies
<1>7. ASSUME NEW p \in Ports, OtherProgram(p) PROVE Started' /\ Signals'
  BY <1>7 DEF OtherProgram
<1>8. CASE RunnerEnds \/ UNCHANGED vars
  BY <1>8 DEF RunnerEnds, vars
<1> QED
  BY <1>1, <1>2, <1>3, <1>4, <1>5, <1>6, <1>7, <1>8 DEF Next, StartStep

\* A runtime that has not begun has no process.
LEMMA StartedInit == Init => Started /\ Signals
BY DEF Init, Started, Signals, Holding

\* The safety half of StopEnds: closeCmd never waits for a process that
\* nobody has told to end; only a handler of the guest can hold it up.
THEOREM StopIsSignalled == Spec => []WaitsForSignalled
<1>1. TypeOK /\ Started /\ Signals => WaitsForSignalled
  BY DEF TypeOK, Started, Signals, WaitsForSignalled, Holding, Alive
<1> QED
  BY <1>1, StartedInit, StartedStep, RuntimeTypeCorrect, PTL DEF Spec

\* A guest process is started once and only goes on towards its end, so that
\* what closeCmd waits for is reached in at most three of its steps.
THEOREM GuestsMoveOn ==
    Spec => [][\A i \in Instances : proc'[i] # proc[i] => proc'[i] \in Successors(proc[i])]_vars
<1>1. TypeOK /\ Started /\ [Next]_vars =>
        [\A i \in Instances : proc'[i] # proc[i] => proc'[i] \in Successors(proc[i])]_vars
  <2> SUFFICES ASSUME TypeOK, Started, Next, NEW j \in Instances, proc'[j] # proc[j]
               PROVE  proc'[j] \in Successors(proc[j])
    OBVIOUS
  <2> USE DEF TypeOK, Started, Successors, Alive
  <2>1. ASSUME NEW i \in Instances, StartProcess(i) PROVE proc'[j] \in Successors(proc[j])
    BY <2>1 DEF StartProcess
  <2>2. ASSUME NEW i \in Instances, GuestStep(i) PROVE proc'[j] \in Successors(proc[j])
    BY <2>2 DEF GuestStep, GuestListens, GuestInterrupted, GuestDrained
  <2>3. ASSUME NEW i \in Instances, GuestDies(i) PROVE proc'[j] \in Successors(proc[j])
    BY <2>3 DEF GuestDies
  <2>4. ASSUME NEW i \in Instances,
               \/ FreePort(i) \/ CreateClient(i) \/ HeartbeatAnswered(i) \/ HeartbeatFails(i)
               \/ CloseCmdWaits(i) \/ HeartbeatTimer(i) \/ Cancel(i) \/ Invoke(i) \/ Stop(i)
               \/ HandlerReturns(i)
        PROVE  UNCHANGED proc
    BY <2>4 DEF FreePort, CreateClient, HeartbeatAnswered, HeartbeatFails, CloseCmdWaits,
         HeartbeatTimer, Cancel, Invoke, Stop, HandlerReturns, guestVars
  <2>5. (\E p \in Ports : OtherProgram(p)) \/ RunnerEnds => UNCHANGED proc
    BY DEF OtherProgram, RunnerEnds, guestVars
  <2> QED
    BY <2>1, <2>2, <2>3, <2>4, <2>5 DEF Next, StartStep
<1> QED
  BY <1>1, StartedInit, StartedStep, RuntimeTypeCorrect, PTL DEF Spec
=============================================================================
