------------------------------- MODULE Tester -------------------------------
(***************************************************************************)
(* The tester's terminal program: the model that Update changes one        *)
(* message at a time, the commands that run beside it and answer with one  *)
(* message each, the keys of the user, and Shutdown after the program has  *)
(* ended.  What the commands do to Docker is kept in stack and dozzles.    *)
(*                                                                         *)
(* A command is idle, runs, or has its answer on the way to Update.  The   *)
(* request loops of the deployed functions are those of TesterWorker, of   *)
(* which this module keeps when they end.  Ticks that redraw the screen,   *)
(* texts and sizes are left out.                                           *)
(***************************************************************************)
EXTENDS Integers

CONSTANTS
    NumFunctions,   \* the length of the catalog
    MaxPolls,       \* polls of the stack before setup gives up
    MaxDozzles      \* bound on the Dozzle containers the user asks for

Functions == 1..NumFunctions
None == 0
Jobs == {"compile", "start", "poll", "dozzle", "stop"}

ASSUME ConstantsAssumption ==
    /\ NumFunctions \in Nat \ {0}
    /\ MaxPolls \in Nat \ {0}
    /\ MaxDozzles \in Nat

VARIABLES
    phase,          \* model.phase
    job,            \* where each command is, or what it answered
    setupErr,       \* model.setupErr is set
    polls,          \* model.setupPolls
    stackStarted,   \* model.stackStarted
    upload,         \* the same for the deployFunctionCmd of each function
    form,           \* the function of the open deployForm
    deploying, deployed,    \* of each functionEntry
    selected, field,        \* selectedFunction (from 1), selectedField
    dozzleStarting, dozzleKnown,    \* dozzleContainerID # ""
    ctxDone,        \* model.ctx is cancelled
    prog,           \* Run: the program, then the steps of Shutdown
    worker, spins,  \* the request loops, and whether they never sleep
    stack,          \* Docker: the Compose stack
    dozzles,        \* Docker: the number of Dozzle containers
    quit,           \* history: how the program came to its end
    downFailed,     \* history: the last stopStack failed
    lost,           \* history: the functions whose deployDoneMsg was dropped
    orphans         \* history: the Dozzle containers given up

setupVars == <<setupErr, polls, stackStarted>>
deployVars == <<upload, lost, form, deploying, deployed, worker, spins>>
selection == <<selected, field>>
dozzleVars == <<dozzleStarting, dozzleKnown, dozzles, orphans>>
endVars == <<ctxDone, prog, quit>>
stackVars == <<stack, downFailed>>
vars == <<phase, job, setupVars, deployVars, selection, dozzleVars, endVars,
          stackVars>>

\* startStack's docker commands; "upped" is an up that has made containers.
StartSteps == {"down", "pull", "build", "up", "upped"}
DozzleSteps == {"run", "port"}
Running == {"running"} \cup StartSteps \cup DozzleSteps
Answers == {"ok", "err", "again", "tick"}

\* newModel and Init; an earlier stack may still be up.
Init ==
    /\ phase = "setup"
    /\ job = [k \in Jobs |-> IF k = "compile" THEN "running" ELSE "idle"]
    /\ setupErr = FALSE /\ polls = 0 /\ stackStarted = FALSE
    /\ upload = [f \in Functions |-> "idle"] /\ lost = {}
    /\ form = None
    /\ deploying = [f \in Functions |-> FALSE]
    /\ deployed = [f \in Functions |-> FALSE]
    /\ worker = [f \in Functions |-> "none"]
    /\ spins = [f \in Functions |-> FALSE]
    /\ selected = 1 /\ field = 0
    /\ dozzleStarting = FALSE /\ dozzleKnown = FALSE
    /\ dozzles = 0 /\ orphans = 0
    /\ ctxDone = FALSE /\ prog = "running" /\ quit = "no"
    /\ stack \in {"up", "down"} /\ downFailed = FALSE

Count(b) == IF b THEN 1 ELSE 0

Sets(k, s) == job' = [job EXCEPT ![k] = s]

-----------------------------------------------------------------------------
(* The commands.  Once m.ctx is cancelled no further docker command of     *)
(* startStack or startDozzle starts; one that runs is killed, but not      *)
(* necessarily before it has had its effect.                               *)

\* compileFunctions: every binary is built, or an error.
CompileReturns ==
    /\ job["compile"] = "running"
    /\ \E r \in {"ok", "err"} : Sets("compile", r)
    /\ UNCHANGED <<phase, setupVars, deployVars, selection, dozzleVars,
                   endVars, stackVars>>

\* deployFunction: 201 with an id, or an error.
DeployReturns(f) ==
    /\ upload[f] = "running"
    /\ \E r \in {"ok", "err"} : upload' = [upload EXCEPT ![f] = r]
    /\ UNCHANGED <<phase, job, setupVars, lost, form, deploying, deployed,
                   worker, spins, selection, dozzleVars, endVars, stackVars>>

\* pollStack: both services answer, not both do, or docker logs failed.
PollReturns ==
    /\ job["poll"] = "running"
    /\ \E r \in {"ok", "again", "err"} : Sets("poll", r)
    /\ UNCHANGED <<phase, setupVars, deployVars, selection, dozzleVars,
                   endVars, stackVars>>

\* startStack: down, whose error is only logged, then pull, build and up.
StartStack ==
    /\ LET step == job["start"] IN
       \/ step = "down" /\ Sets("start", "pull") /\ stack' \in {stack, "down"}
       \/ /\ step \in {"pull", "build"} /\ ~ctxDone
          /\ Sets("start", IF step = "pull" THEN "build" ELSE "up")
          /\ UNCHANGED stack
       \/ step = "up" /\ Sets("start", "upped") /\ stack' = "up"
       \/ step = "upped" /\ Sets("start", "ok") /\ UNCHANGED stack
       \/ /\ step \in StartSteps \ {"down"}
          /\ Sets("start", "err")
          /\ UNCHANGED stack
    /\ UNCHANGED <<phase, setupVars, deployVars, selection, dozzleVars,
                   endVars, downFailed>>

\* startDozzle: docker run makes a container, and docker port asks for its
\* port; a failure of either is a failed start.
StartDozzle ==
    /\ \/ /\ job["dozzle"] = "run"
          /\ dozzles' = dozzles + 1
          /\ Sets("dozzle", "port")
          /\ UNCHANGED orphans
       \/ /\ job["dozzle"] = "port"
          /\ Sets("dozzle", "ok")
          /\ UNCHANGED <<dozzles, orphans>>
       \/ /\ job["dozzle"] \in DozzleSteps
          /\ Sets("dozzle", "err")
          /\ orphans' = orphans + Count(job["dozzle"] = "port")
          /\ UNCHANGED dozzles
    /\ UNCHANGED <<phase, setupVars, deployVars, selection, dozzleStarting,
                   dozzleKnown, endVars, stackVars>>

\* stopStack, under a timeout of its own; a failure may come after its effect.
StopStack(r) ==
    /\ r \in {"ok", "err"}
    /\ downFailed' = (r = "err")
    /\ stack' \in IF r = "ok" THEN {"down"} ELSE {stack, "down"}

\* shutdownStackCmd
StopReturns ==
    /\ job["stop"] = "running"
    /\ \E r \in {"ok", "err"} : StopStack(r) /\ Sets("stop", r)
    /\ UNCHANGED <<phase, setupVars, deployVars, selection, dozzleVars,
                   endVars>>

\* A request loop ends after the cancel (TesterWorker, WorkerEnds).
WorkerReturns(f) ==
    /\ worker[f] = "running"
    /\ ctxDone
    /\ worker' = [worker EXCEPT ![f] = "ended"]
    /\ UNCHANGED <<phase, job, setupVars, upload, lost, form, deploying,
                   deployed, spins, selection, dozzleVars, endVars,
                   stackVars>>

-----------------------------------------------------------------------------
(* Update: the messages of the commands *)

Updates == prog = "running" /\ phase # "quitting" /\ form = None

\* compileDoneMsg
CompileDone ==
    /\ Updates
    /\ job["compile"] \in Answers
    /\ setupErr' = (job["compile"] = "err")
    /\ job' = [job EXCEPT !["compile"] = "idle",
                          !["start"] = IF job["compile"] = "ok" THEN "down" ELSE @]
    /\ UNCHANGED <<phase, polls, stackStarted, deployVars, selection,
                   dozzleVars, endVars, stackVars>>

\* stackReadyMsg
StackReady ==
    /\ Updates
    /\ job["start"] \in Answers
    /\ stackStarted' = (job["start"] = "ok")
    /\ setupErr' = (job["start"] = "err")
    /\ polls' = 0
    /\ job' = [job EXCEPT !["start"] = "idle",
                          !["poll"] = IF job["start"] = "ok" THEN "running" ELSE @]
    /\ UNCHANGED <<phase, deployVars, selection, dozzleVars, endVars,
                   stackVars>>

\* stackPollMsg: an error, ready, one poll too many, or another after a tick.
StackPoll ==
    /\ Updates
    /\ \/ /\ job["poll"] = "err"
          /\ setupErr' = TRUE
          /\ Sets("poll", "idle")
          /\ UNCHANGED <<phase, polls>>
       \/ /\ job["poll"] = "ok"
          /\ phase' = "dashboard"
          /\ Sets("poll", "idle")
          /\ UNCHANGED <<setupErr, polls>>
       \/ /\ job["poll"] = "again"
          /\ polls' = polls + 1
          /\ setupErr' = (polls + 1 >= MaxPolls)
          /\ Sets("poll", IF polls + 1 >= MaxPolls THEN "idle" ELSE "tick")
          /\ UNCHANGED phase
    /\ UNCHANGED <<stackStarted, deployVars, selection, dozzleVars, endVars,
                   stackVars>>

\* stackPollTickMsg
StackPollTick ==
    /\ Updates
    /\ job["poll"] = "tick"
    /\ Sets("poll", "running")
    /\ UNCHANGED <<phase, setupVars, deployVars, selection, dozzleVars,
                   endVars, stackVars>>

\* Mutation: a container that answered is not remembered.
DozzleStartedForgets ==
    /\ Updates
    /\ job["dozzle"] \in Answers
    /\ dozzleStarting' = FALSE
    /\ Sets("dozzle", "idle")
    /\ UNCHANGED <<phase, setupVars, deployVars, selection, dozzleKnown,
                   dozzles, orphans, endVars, stackVars>>

\* dozzleStartMsg: with an error the container id that may come with it is
\* not looked at.
DozzleStarted ==
    /\ Updates
    /\ job["dozzle"] \in Answers
    /\ dozzleStarting' = FALSE
    /\ dozzleKnown' = (job["dozzle"] = "ok" \/ dozzleKnown)
    /\ Sets("dozzle", "idle")
    /\ UNCHANGED <<phase, setupVars, deployVars, selection, dozzles, orphans,
                   endVars, stackVars>>

\* Mutation: a failed upload leaves the function deploying.
DeployDoneOnlySuccess(f) ==
    /\ Updates
    /\ upload[f] \in Answers
    /\ deploying' = [deploying EXCEPT ![f] = upload[f] = "err"]
    /\ deployed' = [deployed EXCEPT ![f] = upload[f] = "ok"]
    /\ worker' = [worker EXCEPT ![f] = IF upload[f] = "ok" THEN "running" ELSE @]
    /\ upload' = [upload EXCEPT ![f] = "idle"]
    /\ UNCHANGED <<phase, job, setupVars, lost, form, spins, selection,
                   dozzleVars, endVars, stackVars>>

\* deployDoneMsg: a success is a deployment with a request loop.
DeployDone(f) ==
    /\ Updates
    /\ upload[f] \in Answers
    /\ deploying' = [deploying EXCEPT ![f] = FALSE]
    /\ deployed' = [deployed EXCEPT ![f] = upload[f] = "ok"]
    /\ worker' = [worker EXCEPT ![f] = IF upload[f] = "ok" THEN "running" ELSE @]
    /\ upload' = [upload EXCEPT ![f] = "idle"]
    /\ UNCHANGED <<phase, job, setupVars, lost, form, spins, selection,
                   dozzleVars, endVars, stackVars>>

\* While the program quits only the answer of shutdownStackCmd counts, and
\* while a form is open every message is the form's, which ignores it.
Drops == prog = "running" /\ (phase = "quitting" \/ form # None)

DropDeployDone(f) ==
    /\ Drops
    /\ upload[f] \in Answers
    /\ upload' = [upload EXCEPT ![f] = "idle"]
    /\ lost' = lost \cup {f}
    /\ UNCHANGED <<phase, job, setupVars, form, deploying, deployed, worker,
                   spins, selection, dozzleVars, endVars, stackVars>>

DropMessage(k) ==
    /\ Drops
    /\ k # "stop"
    /\ job[k] \in Answers
    /\ Sets(k, "idle")
    /\ orphans' = orphans + Count(k = "dozzle" /\ job[k] = "ok")
    /\ UNCHANGED <<phase, setupVars, deployVars, selection, dozzleStarting,
                   dozzleKnown, dozzles, endVars, stackVars>>

\* Mutation: the program does not quit when the stack could not be stopped.
StackShutdownDoneOnlySuccess ==
    /\ prog = "running"
    /\ phase = "quitting"
    /\ job["stop"] = "ok"
    /\ Sets("stop", "idle")
    /\ prog' = "returned"
    /\ UNCHANGED <<phase, setupVars, deployVars, selection, dozzleVars,
                   ctxDone, quit, stackVars>>

\* stackShutdownDoneMsg, and the tea.Quit it answers with.
StackShutdownDone ==
    /\ prog = "running"
    /\ phase = "quitting"
    /\ job["stop"] \in Answers
    /\ Sets("stop", "idle")
    /\ prog' = "returned"
    /\ UNCHANGED <<phase, setupVars, deployVars, selection, dozzleVars,
                   ctxDone, quit, stackVars>>

-----------------------------------------------------------------------------
(* Update: the keys *)

\* The keys of the dashboard; during setup q is the only one.
Keys == Updates /\ phase = "dashboard"

FieldCount(i, d) == IF d[i] THEN 3 ELSE 1
Clamp(n, low, high) == IF n < low THEN low ELSE IF n > high THEN high ELSE n

\* up and down
SelectField ==
    /\ Keys
    /\ \E d \in {-1, 1} :
           field' = Clamp(field + d, 0, FieldCount(selected, deployed) - 1)
    /\ UNCHANGED <<phase, job, setupVars, deployVars, selected, dozzleVars,
                   endVars, stackVars>>

\* Mutation: the field is not normalised for the new function.
SelectFunctionOnly ==
    /\ Keys
    /\ \E d \in {-1, 1} : selected' = Clamp(selected + d, 1, NumFunctions)
    /\ UNCHANGED <<phase, job, setupVars, deployVars, field, dozzleVars,
                   endVars, stackVars>>

\* left and right, with normalizeSelectedField
SelectFunction ==
    /\ Keys
    /\ \E d \in {-1, 1} : selected' = Clamp(selected + d, 1, NumFunctions)
    /\ field' = Clamp(field, 0, FieldCount(selected', deployed) - 1)
    /\ UNCHANGED <<phase, job, setupVars, deployVars, dozzleVars, endVars,
                   stackVars>>

\* d, unless a Dozzle is known or being started
PressDozzle ==
    /\ Keys
    /\ ~dozzleKnown /\ ~dozzleStarting
    /\ dozzles < MaxDozzles
    /\ dozzleStarting' = TRUE
    /\ Sets("dozzle", "run")
    /\ UNCHANGED <<phase, setupVars, deployVars, selection, dozzleKnown,
                   dozzles, orphans, endVars, stackVars>>

\* 0, + and -: the settings that TesterWorker calls Spinning are reachable.
ChangeSettings ==
    /\ Keys
    /\ deployed[selected]
    /\ \E b \in BOOLEAN : spins' = [spins EXCEPT ![selected] = b]
    /\ UNCHANGED <<phase, job, setupVars, upload, lost, form, deploying,
                   deployed, worker, selection, dozzleVars, endVars,
                   stackVars>>

\* Mutation: a function that is being deployed gets a second form.
OpenDeployFormAgain ==
    /\ Keys
    /\ ~deployed[selected]
    /\ form' = selected
    /\ UNCHANGED <<phase, job, setupVars, upload, lost, deploying, deployed,
                   worker, spins, selection, dozzleVars, endVars, stackVars>>

\* enter
OpenDeployForm ==
    /\ Keys
    /\ ~deployed[selected] /\ ~deploying[selected]
    /\ form' = selected
    /\ UNCHANGED <<phase, job, setupVars, upload, lost, deploying, deployed,
                   worker, spins, selection, dozzleVars, endVars, stackVars>>

FormKeys == prog = "running" /\ phase # "quitting" /\ form # None

\* esc in the form
CancelForm ==
    /\ FormKeys
    /\ form' = None
    /\ UNCHANGED <<phase, job, setupVars, upload, lost, deploying, deployed,
                   worker, spins, selection, dozzleVars, endVars, stackVars>>

\* The form is completed with a valid name.
SubmitForm ==
    /\ FormKeys
    /\ form' = None
    /\ deploying' = [deploying EXCEPT ![form] = TRUE]
    /\ upload' = [upload EXCEPT ![form] = "running"]
    /\ UNCHANGED <<phase, job, setupVars, lost, deployed, worker, spins,
                   selection, dozzleVars, endVars, stackVars>>

\* beginShutdown: ctrl+c or q, also in the form.
BeginShutdown ==
    /\ prog = "running"
    /\ phase # "quitting"
    /\ phase' = "quitting"
    /\ ctxDone' = TRUE
    /\ Sets("stop", "running")
    /\ quit' = IF job["start"] \in StartSteps THEN "keyStarting" ELSE "key"
    /\ UNCHANGED <<setupVars, deployVars, selection, dozzleVars, prog,
                   stackVars>>

-----------------------------------------------------------------------------
(* The end of the program, and Shutdown *)

\* The program also ends on a signal or on an error of its own.
ProgramEnds ==
    /\ prog = "running"
    /\ prog' = "returned"
    /\ quit' = "signal"
    /\ UNCHANGED <<phase, job, setupVars, deployVars, selection, dozzleVars,
                   ctxDone, stackVars>>

\* The cancel of the ctx, and of each deployment's.
ShutdownCancels ==
    /\ prog = "returned"
    /\ ctxDone' = TRUE
    /\ prog' = "wait"
    /\ UNCHANGED <<phase, job, setupVars, deployVars, selection, dozzleVars,
                   quit, stackVars>>

\* Mutation: the stack is left to the shutdown command.
ShutdownWaitsOnly ==
    /\ prog = "wait"
    /\ \A f \in Functions : worker[f] # "running"
    /\ prog' = "exited"
    /\ UNCHANGED <<phase, job, setupVars, deployVars, selection, dozzleVars,
                   ctxDone, quit, stackVars>>

\* wg.Wait; without a started stack that is all.
ShutdownWaits ==
    /\ prog = "wait"
    /\ \A f \in Functions : worker[f] # "running"
    /\ prog' = IF stackStarted THEN "rm" ELSE "exited"
    /\ UNCHANGED <<phase, job, setupVars, deployVars, selection, dozzleVars,
                   ctxDone, quit, stackVars>>

\* docker rm -f of the known Dozzle container; its result is ignored.
ShutdownRemovesDozzle ==
    /\ prog = "rm"
    /\ prog' = "down"
    /\ \/ ~dozzleKnown /\ UNCHANGED <<dozzles, orphans>>
       \/ dozzleKnown /\ dozzles' = dozzles - 1 /\ UNCHANGED orphans
       \/ dozzleKnown /\ orphans' = orphans + 1 /\ UNCHANGED dozzles
    /\ UNCHANGED <<phase, job, setupVars, deployVars, selection,
                   dozzleStarting, dozzleKnown, ctxDone, quit, stackVars>>

\* stopStack; its result is ignored.
ShutdownStopsStack ==
    /\ prog = "down"
    /\ \E r \in {"ok", "err"} : StopStack(r)
    /\ prog' = "exited"
    /\ UNCHANGED <<phase, job, setupVars, deployVars, selection, dozzleVars,
                   ctxDone, quit>>

-----------------------------------------------------------------------------

CommandStep ==
    \/ CompileReturns \/ \E f \in Functions : DeployReturns(f)
    \/ PollReturns \/ StartStack \/ StartDozzle \/ StopReturns

JobMessage ==
    \/ CompileDone \/ StackReady \/ StackPoll \/ StackPollTick \/ DozzleStarted
    \/ StackShutdownDone
    \/ \E k \in Jobs : DropMessage(k)

DeployMessage(f) == DeployDone(f) \/ DropDeployDone(f)

KeyStep ==
    \/ SelectField \/ SelectFunction \/ PressDozzle \/ ChangeSettings
    \/ OpenDeployForm \/ CancelForm \/ SubmitForm \/ BeginShutdown

ShutdownStep ==
    \/ ShutdownCancels \/ ShutdownWaits \/ ShutdownRemovesDozzle
    \/ ShutdownStopsStack

Next ==
    \/ CommandStep \/ JobMessage \/ KeyStep \/ ShutdownStep
    \/ ProgramEnds
    \/ \E f \in Functions : DeployMessage(f) \/ WorkerReturns(f)

Spec == Init /\ [][Next]_vars

\* Docker commands, builds and uploads come to an end, each on its own;
\* Update gets to every message; a loop that sleeps sees the cancel.  The
\* user presses what they like.
FairSpec ==
    /\ Spec
    /\ WF_vars(CompileReturns) /\ WF_vars(PollReturns)
    /\ WF_vars(StartStack) /\ WF_vars(StartDozzle) /\ WF_vars(StopReturns)
    /\ WF_vars(JobMessage)
    /\ WF_vars(ShutdownStep)
    /\ \A f \in Functions :
           /\ WF_vars(DeployReturns(f))
           /\ WF_vars(DeployMessage(f))
           /\ WF_vars(~spins[f] /\ WorkerReturns(f))

-----------------------------------------------------------------------------
(* Properties *)

\* The variables have their types, a poll is counted before the next starts,
\* and the selected field is one the selected function has, however functions
\* are deployed and selected.
TypeOK ==
    /\ phase \in {"setup", "dashboard", "quitting"}
    /\ job \in [Jobs -> {"idle"} \cup Running \cup Answers]
    /\ upload \in [Functions -> {"idle", "running", "ok", "err"}]
    /\ setupErr \in BOOLEAN /\ polls \in 0..MaxPolls /\ stackStarted \in BOOLEAN
    /\ form \in Functions \cup {None}
    /\ deploying \in [Functions -> BOOLEAN] /\ deployed \in [Functions -> BOOLEAN]
    /\ worker \in [Functions -> {"none", "running", "ended"}]
    /\ spins \in [Functions -> BOOLEAN]
    /\ selected \in 1..NumFunctions
    /\ field \in 0 .. FieldCount(selected, deployed) - 1
    /\ dozzleStarting \in BOOLEAN /\ dozzleKnown \in BOOLEAN
    /\ dozzles \in 0..MaxDozzles /\ orphans \in 0..MaxDozzles
    /\ ctxDone \in BOOLEAN
    /\ prog \in {"running", "returned", "wait", "rm", "down", "exited"}
    /\ quit \in {"no", "key", "keyStarting", "signal"}
    /\ stack \in {"up", "down"} /\ downFailed \in BOOLEAN
    /\ lost \subseteq Functions

\* When the tester has exited the stack is down, unless docker compose down
\* failed, q was pressed while startStack was still at work (its up and the
\* down of the shutdown run side by side), or a signal ended the program
\* before Update had heard of the started stack.
CleanExit ==
    prog = "exited" /\ stack = "up" =>
        \/ downFailed
        \/ quit = "keyStarting"
        \/ quit = "signal" /\ ~stackStarted

\* Every Dozzle container is known to the model until Shutdown removes it,
\* is that of a start under way, or was given up in one of three ways: its
\* start failed after docker run, the answer was dropped, docker rm failed.
DozzleAccounted ==
    dozzles = orphans
        + Count(dozzleKnown /\ prog \notin {"down", "exited"})
        + Count(job["dozzle"] \in {"port", "ok"})

\* A function has at most one upload or deployment: while one is under way
\* the function is marked, and a form is open only for one that has none.
OneDeployment ==
    \A f \in Functions :
        /\ upload[f] # "idle" => deploying[f] /\ worker[f] = "none"
        /\ form = f => upload[f] = "idle" /\ ~deployed[f]
        /\ worker[f] # "none" <=> deployed[f]

\* Setup comes to an end: the dashboard, an error or the end of the program.
SetupEnds == <>(phase # "setup" \/ setupErr \/ prog # "running")

\* A function does not stay "deploying" for ever, unless the answer came
\* while the form of another function was open, or the program ends.
DeployResolved ==
    \A f \in Functions :
        deploying[f] ~> (\/ ~deploying[f] \/ f \in lost
                         \/ phase = "quitting" \/ prog # "running")

\* Neither setup nor a deployment hangs, whichever command fails.
CommandsResolved == SetupEnds /\ DeployResolved

\* A program that quits exits, unless a request loop never sleeps.
QuitEnds ==
    (phase = "quitting" \/ prog # "running")
        ~> \/ prog = "exited"
           \/ \E f \in Functions : worker[f] = "running" /\ spins[f]
=============================================================================
