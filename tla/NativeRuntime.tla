---------------------------- MODULE NativeRuntime ---------------------------
(***************************************************************************)
(* The native runtime of the Runner and the guest processes it starts: a   *)
(* port from FreePort, startWithRetry, the wait for the first heartbeat,   *)
(* Invoke and Stop on one side, the guest SDK's start on the other.  The   *)
(* two sides share the ports of the machine with each other, with other    *)
(* starts and with other processes.                                        *)
(*                                                                         *)
(* InstanceWorker and PrepareInstance call Start and Stop as one step      *)
(* each; this module is what happens inside.                               *)
(***************************************************************************)
EXTENDS Naturals

CONSTANTS
    Instances,          \* runtimes: one Start and at most one Stop each
    Ports,              \* ports the kernel hands out
    None,
    MaxStartRetries     \* attempts to start the process

ASSUME ConstantsAssumption ==
    /\ None \notin Instances \cup Ports
    /\ Instances \cap {"mute", "other"} = {}
    /\ MaxStartRetries \in Nat \ {0}

VARIABLES
    pc,         \* where each runtime is in Start or Stop
    port,       \* the port FreePort gave it
    attempts,   \* of startWithRetry
    expired,    \* its HeartbeatTimeout has passed
    cancelled,  \* the ctx of its Start is done
    proc,       \* its guest process
    signalled,  \* the process was sent an interrupt
    busy,       \* the function handler of the guest is running
    bound,      \* port -> the guest, or the other program, that listens on it
    runner      \* the Runner process

startVars == <<port, attempts, expired, cancelled>>
guestVars == <<proc, signalled, busy, bound>>
vars == <<pc, startVars, guestVars, runner>>

\* The places inside Start, closeCmd after a failed heartbeat included.
Starting == {"freePort", "exec", "client", "heartbeat", "closing"}
\* The places where somebody will end the process, or is waiting for its end.
Holding == {"client", "heartbeat", "closing", "running", "stopping"}
Ended == {"failed", "leaked", "stopped"}
Alive == {"booting", "listening", "draining"}

Init ==
    /\ pc = [i \in Instances |-> "freePort"]
    /\ port = [i \in Instances |-> None]
    /\ attempts = [i \in Instances |-> 1]
    /\ expired = [i \in Instances |-> FALSE]
    /\ cancelled = [i \in Instances |-> FALSE]
    /\ proc = [i \in Instances |-> "none"]
    /\ signalled = [i \in Instances |-> FALSE]
    /\ busy = [i \in Instances |-> FALSE]
    /\ bound = [p \in Ports |-> None]
    /\ runner = "up"

Goto(i, l) == pc' = [pc EXCEPT ![i] = l]
Release(i) == [p \in Ports |-> IF bound[p] = i THEN None ELSE bound[p]]

-----------------------------------------------------------------------------
(* Start *)

\* The listener of FreePort is closed before the port is returned.
FreePort(i) ==
    /\ pc[i] = "freePort"
    /\ \/ \E p \in Ports :
             /\ bound[p] = None
             /\ port' = [port EXCEPT ![i] = p]
             /\ Goto(i, "exec")
       \/ /\ Goto(i, "failed")
          /\ UNCHANGED port
    /\ UNCHANGED <<attempts, expired, cancelled, guestVars, runner>>

\* startWithRetry: the process starts, the binary is still open for writing
\* (ETXTBSY) and attempts are left, or there is no process.
StartProcess(i) ==
    /\ pc[i] = "exec"
    /\ \/ /\ proc' = [proc EXCEPT ![i] = "booting"]
          /\ attempts' = [attempts EXCEPT ![i] = 1]
          /\ Goto(i, "client")
       \/ /\ attempts[i] < MaxStartRetries
          /\ attempts' = [attempts EXCEPT ![i] = @ + 1]
          /\ UNCHANGED <<pc, proc>>
       \/ /\ attempts' = [attempts EXCEPT ![i] = 1]
          /\ Goto(i, "failed")
          /\ UNCHANGED proc
    /\ UNCHANGED <<port, expired, cancelled, signalled, busy, bound, runner>>

\* GrpcClient; an error returns and leaves the process to itself.
CreateClient(i) ==
    /\ pc[i] = "client"
    /\ \E l \in {"heartbeat", "leaked"} : Goto(i, l)
    /\ UNCHANGED <<startVars, guestVars, runner>>

\* waitForHeartbeat returns; its timer is gone.
LeaveWait(i, l) ==
    /\ Goto(i, l)
    /\ expired' = [expired EXCEPT ![i] = FALSE]
    /\ cancelled' = [cancelled EXCEPT ![i] = FALSE]
    /\ UNCHANGED <<port, attempts>>

\* waitForHeartbeat: whoever listens on the port answers as a guest does.
HeartbeatAnswered(i) ==
    /\ pc[i] = "heartbeat"
    /\ bound[port[i]] \in Instances
    /\ LeaveWait(i, "running")
    /\ UNCHANGED <<guestVars, runner>>

HeartbeatTimer(i) ==
    /\ pc[i] = "heartbeat"
    /\ ~expired[i]
    /\ expired' = [expired EXCEPT ![i] = TRUE]
    /\ UNCHANGED <<pc, port, attempts, cancelled, guestVars, runner>>

\* Mutation: a guest that does not answer in time is taken for a slow one.
HeartbeatFailsReady(i) ==
    /\ pc[i] = "heartbeat"
    /\ expired[i]
    /\ Goto(i, "running")
    /\ UNCHANGED <<startVars, guestVars, runner>>

\* Mutation: the error is returned, the process forgotten.
HeartbeatFailsOnly(i) ==
    /\ pc[i] = "heartbeat"
    /\ expired[i] \/ cancelled[i]
    /\ Goto(i, "failed")
    /\ UNCHANGED <<startVars, guestVars, runner>>

\* Mutation: only the end of the ctx ends the wait.
HeartbeatFailsCancelled(i) ==
    /\ pc[i] = "heartbeat"
    /\ cancelled[i]
    /\ signalled' = [signalled EXCEPT ![i] = TRUE]
    /\ LeaveWait(i, "closing")
    /\ UNCHANGED <<proc, busy, bound, runner>>

\* An attempt has failed and ctx or the timer is done: the connection is closed
\* and closeCmd sends the interrupt.  While an attempt gets no answer at all,
\* only ctx ends it.
HeartbeatFails(i) ==
    /\ pc[i] = "heartbeat"
    /\ cancelled[i] \/ (expired[i] /\ bound[port[i]] # "mute")
    /\ signalled' = [signalled EXCEPT ![i] = TRUE]
    /\ LeaveWait(i, "closing")
    /\ UNCHANGED <<proc, busy, bound, runner>>

\* The client of the Start goes away; ctx is looked at by waitForHeartbeat only.
Cancel(i) ==
    /\ pc[i] = "heartbeat"
    /\ ~cancelled[i]
    /\ cancelled' = [cancelled EXCEPT ![i] = TRUE]
    /\ UNCHANGED <<pc, port, attempts, expired, guestVars, runner>>

-----------------------------------------------------------------------------
(* Invoke and Stop *)

\* Invoke reaches whoever listens on the port.
Invoke(i) ==
    /\ pc[i] = "running"
    /\ bound[port[i]] \in Instances
    /\ busy' = [busy EXCEPT ![bound[port[i]]] = TRUE]
    /\ UNCHANGED <<pc, startVars, proc, signalled, bound, runner>>

\* Stop: the connection is closed and closeCmd sends the interrupt.
Stop(i) ==
    /\ pc[i] = "running"
    /\ signalled' = [signalled EXCEPT ![i] = TRUE]
    /\ Goto(i, "stopping")
    /\ UNCHANGED <<startVars, proc, busy, bound, runner>>

\* closeCmd: Wait returns when the process has ended.  WaitDelay only limits
\* what Wait does after that.
CloseCmdWaits(i) ==
    /\ pc[i] \in {"closing", "stopping"}
    /\ proc[i] = "exited"
    /\ Goto(i, IF pc[i] = "closing" THEN "failed" ELSE "stopped")
    /\ UNCHANGED <<startVars, guestVars, runner>>

-----------------------------------------------------------------------------
(* The guest process *)

\* start: Listen on the address of the environment, exit 1 when it is taken.
GuestListens(i) ==
    /\ proc[i] = "booting"
    /\ \/ /\ bound[port[i]] = None
          /\ bound' = [bound EXCEPT ![port[i]] = i]
          /\ proc' = [proc EXCEPT ![i] = "listening"]
       \/ /\ bound[port[i]] # None
          /\ proc' = [proc EXCEPT ![i] = "exited"]
          /\ UNCHANGED bound
    /\ UNCHANGED <<pc, startVars, signalled, busy, runner>>

\* The interrupt: GracefulStop closes the listener and waits for the handlers;
\* before signal.Notify it ends the process.
GuestInterrupted(i) ==
    /\ signalled[i]
    /\ \/ /\ proc[i] = "booting"
          /\ proc' = [proc EXCEPT ![i] = "exited"]
       \/ /\ proc[i] = "listening"
          /\ proc' = [proc EXCEPT ![i] = "draining"]
    /\ bound' = Release(i)
    /\ UNCHANGED <<pc, startVars, signalled, busy, runner>>

\* Mutation: the guest does not return after GracefulStop.
GuestDrainedStays(i) ==
    /\ proc[i] = "draining"
    /\ ~busy[i]
    /\ UNCHANGED vars

GuestDrained(i) ==
    /\ proc[i] = "draining"
    /\ ~busy[i]
    /\ proc' = [proc EXCEPT ![i] = "exited"]
    /\ UNCHANGED <<pc, startVars, signalled, busy, bound, runner>>

\* InvokeFunction of the guest returns, with a response or an error.
HandlerReturns(i) ==
    /\ busy[i]
    /\ busy' = [busy EXCEPT ![i] = FALSE]
    /\ UNCHANGED <<pc, startVars, proc, signalled, bound, runner>>

\* The function ends its process, or the guest's server fails.
GuestDies(i) ==
    /\ proc[i] \in Alive
    /\ proc' = [proc EXCEPT ![i] = "exited"]
    /\ busy' = [busy EXCEPT ![i] = FALSE]
    /\ bound' = Release(i)
    /\ UNCHANGED <<pc, startVars, signalled, runner>>

\* Another program takes or leaves a port: one that never answers a heartbeat
\* (mute), or one that refuses it.
OtherProgram(p) ==
    /\ \/ bound[p] = None /\ \E o \in {"mute", "other"} : bound' = [bound EXCEPT ![p] = o]
       \/ bound[p] \in {"mute", "other"} /\ bound' = [bound EXCEPT ![p] = None]
    /\ UNCHANGED <<pc, startVars, proc, signalled, busy, runner>>

\* Run returns, or the Runner crashes: nobody signals the guests.
RunnerEnds ==
    /\ runner = "up"
    /\ runner' = "gone"
    /\ UNCHANGED <<pc, startVars, guestVars>>

-----------------------------------------------------------------------------

StartStep(i) ==
    \/ FreePort(i) \/ StartProcess(i) \/ CreateClient(i)
    \/ HeartbeatAnswered(i) \/ HeartbeatFails(i) \/ CloseCmdWaits(i)

GuestStep(i) == GuestListens(i) \/ GuestInterrupted(i) \/ GuestDrained(i)

Next ==
    \/ /\ runner = "up"
       /\ \E i \in Instances :
             StartStep(i) \/ HeartbeatTimer(i) \/ Cancel(i) \/ Invoke(i) \/ Stop(i)
    \/ \E i \in Instances : GuestStep(i) \/ HandlerReturns(i) \/ GuestDies(i)
    \/ \E p \in Ports : OtherProgram(p)
    \/ RunnerEnds

Spec == Init /\ [][Next]_vars

\* Goroutines and guest processes run on and the timer fires.  An attempt that
\* a mute program holds fails when the program goes, and the loop then looks at
\* the timer, whoever takes the port next: strong fairness.  Function handlers
\* need not return and clients need not go away.
FairSpec ==
    /\ Spec
    /\ \A i \in Instances :
          /\ WF_vars(runner = "up" /\ StartStep(i))
          /\ WF_vars(runner = "up" /\ HeartbeatTimer(i))
          /\ SF_vars(runner = "up" /\ HeartbeatFails(i))
          /\ WF_vars(GuestStep(i))

-----------------------------------------------------------------------------

\* The types of the variables; startWithRetry makes at most MaxStartRetries
\* attempts.
TypeOK ==
    /\ pc \in [Instances -> Starting \cup Holding \cup Ended]
    /\ port \in [Instances -> Ports \cup {None}]
    /\ attempts \in [Instances -> 1 .. MaxStartRetries]
    /\ expired \in [Instances -> BOOLEAN]
    /\ cancelled \in [Instances -> BOOLEAN]
    /\ proc \in [Instances -> {"none", "exited"} \cup Alive]
    /\ signalled \in [Instances -> BOOLEAN]
    /\ busy \in [Instances -> BOOLEAN]
    /\ bound \in [Ports -> Instances \cup {None, "mute", "other"}]
    /\ runner \in {"up", "gone"}

\* While the Runner is there, a guest process that lives is one that a Start or
\* Stop in progress or a runtime in use will end, except after an error of
\* GrpcClient: every other way out of Start and Stop has waited for its end.
ProcessIsHeld ==
    \A i \in Instances :
        runner = "up" /\ proc[i] \in Alive => pc[i] \in Holding \cup {"leaked"}

\* Start reports an instance as ready only when its own guest listens, or when
\* its port was given to another instance too: FreePort frees the port before
\* the guest takes it, and then another guest answers the heartbeat.
ReadyIsOwnGuest ==
    [][\A i \in Instances : pc[i] = "heartbeat" /\ pc'[i] = "running" =>
          \/ bound[port[i]] = i
          \/ \E j \in Instances \ {i} : port[j] = port[i]]_vars

\* Start returns, with the instance running or with an error, unless the Runner
\* is gone or it waits in one of the two places without a deadline: an attempt
\* of waitForHeartbeat, which looks at HeartbeatTimeout between two attempts
\* only, while a program that never answers holds the port for ever; or the
\* Wait of closeCmd, while a function handler runs for ever in the guest (a
\* call of another instance with the same port started it).
StartEnds ==
    \A i \in Instances :
        pc[i] \in Starting ~>
            \/ pc[i] \in {"running", "failed", "leaked"}
            \/ runner = "gone"
            \/ [](\E p \in Ports : port[i] = p /\ bound[p] = "mute")
            \/ [](pc[i] = "closing" /\ busy[i])

\* Stop ends, unless the Runner is gone or the function handler runs for ever:
\* GracefulStop waits for it and nothing kills the process.
StopEnds ==
    \A i \in Instances :
        pc[i] = "stopping" ~>
            (pc[i] = "stopped" \/ runner = "gone" \/ [](busy[i]))

=============================================================================
