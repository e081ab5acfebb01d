---------------------------- MODULE TesterProofs ----------------------------
(***************************************************************************)
(* The tester's bookkeeping is right, for any number of functions, polls   *)
(* and Dozzle containers: no deployment is made twice, no container is     *)
(* forgotten unnoticed, and the stack is down after an orderly end.        *)
(***************************************************************************)
EXTENDS Tester, TLAPS

-----------------------------------------------------------------------------
(* The inductive invariant *)

\* Setup is a chain: compile, start, poll, dashboard.  stackStarted is set
\* between the second and the third and is never cleared, because there is no
\* second compile and no second start.
SetupOrder ==
    /\ stackStarted => job["compile"] = "idle" /\ job["start"] = "idle"
    /\ job["start"] # "idle" => job["compile"] = "idle"
    /\ job["poll"] # "idle" => stackStarted /\ polls < MaxPolls
    /\ phase = "dashboard" => stackStarted

\* A Dozzle is started from the dashboard only, when none is known and none
\* is on its way, and within the bound.
DozzleOrder ==
    /\ job["dozzle"] \in {"idle", "run", "port", "ok", "err"}
    /\ job["dozzle"] # "idle" => dozzleStarting
    /\ dozzleStarting => ~dozzleKnown
    /\ dozzleStarting \/ dozzleKnown => stackStarted
    /\ job["dozzle"] = "run" => dozzles < MaxDozzles

\* The stack is down, or an attempt to stop it failed last.
StackStopped == stack = "down" \/ downFailed

\* After q no start is under way unless it is recorded, and the shutdown
\* command has stopped the stack by the time the program returns; a stack that
\* Update had heard of is stopped again before the exit.
EndOrder ==
    /\ prog # "running" \/ phase = "quitting" => quit # "no"
    /\ quit = "key" => /\ phase = "quitting"
                       /\ job["start"] \notin StartSteps
                       /\ job["stop"] # "running" => StackStopped
                       /\ prog # "running" => job["stop"] = "idle"
    /\ prog = "exited" /\ stackStarted => StackStopped

TesterIInv ==
    /\ TypeOK /\ OneDeployment
    /\ SetupOrder /\ DozzleOrder /\ DozzleAccounted /\ EndOrder

-----------------------------------------------------------------------------
(* The steps that leave parts of the state alone *)

\* The commands, messages and keys that have nothing to do with deployments.
JobAction ==
    \/ CompileReturns \/ PollReturns \/ StartStack \/ StartDozzle \/ StopReturns
    \/ JobMessage

\* The steps of deployments and of the selection, which start, stop and answer
\* no other command.
DeployAction ==
    \/ \E f \in Functions : DeployReturns(f) \/ DeployMessage(f) \/ WorkerReturns(f)
    \/ SelectField \/ SelectFunction \/ ChangeSettings
    \/ OpenDeployForm \/ CancelForm \/ SubmitForm

\* The steps towards the end of the program.
EndAction == BeginShutdown \/ ProgramEnds \/ ShutdownStep

\* Every step is one of these, or asks for a Dozzle.
LEMMA NextCases ==
    [Next]_vars => JobAction \/ DeployAction \/ EndAction \/ PressDozzle \/ UNCHANGED vars
BY DEF Next, CommandStep, KeyStep, JobAction, DeployAction, EndAction

\* The commands of setup, Dozzle and shutdown leave the deployments alone, and
\* so does the end of the program.
LEMMA DeploymentsLeft ==
    JobAction \/ EndAction \/ PressDozzle \/ UNCHANGED vars => UNCHANGED <<deployVars, selection>>
BY DEF JobAction, EndAction, CompileReturns, PollReturns, StartStack, StartDozzle, StopReturns,
     JobMessage, CompileDone, StackReady, StackPoll, StackPollTick, DozzleStarted,
     StackShutdownDone, DropMessage, PressDozzle, BeginShutdown, ProgramEnds, ShutdownStep,
     ShutdownCancels, ShutdownWaits, ShutdownRemovesDozzle, ShutdownStopsStack, vars

\* Deployments and the selection leave everything else alone.
LEMMA OthersLeft ==
    DeployAction \/ UNCHANGED vars =>
        UNCHANGED <<phase, job, setupVars, dozzleVars, endVars, stackVars>>
BY DEF DeployAction, DeployReturns, DeployMessage, DeployDone, DropDeployDone, WorkerReturns,
     SelectField, SelectFunction, ChangeSettings, OpenDeployForm, CancelForm, SubmitForm, vars

-----------------------------------------------------------------------------
(* Deployments *)

\* The types of what a deployment and the selection change.
DeployTypes ==
    /\ upload \in [Functions -> {"idle", "running", "ok", "err"}]
    /\ form \in Functions \cup {None}
    /\ deploying \in [Functions -> BOOLEAN] /\ deployed \in [Functions -> BOOLEAN]
    /\ worker \in [Functions -> {"none", "running", "ended"}]
    /\ spins \in [Functions -> BOOLEAN]
    /\ selected \in 1..NumFunctions
    /\ field \in 0 .. FieldCount(selected, deployed) - 1
    /\ lost \subseteq Functions

\* No function gets a second deployment while it has one, and the selected
\* field stays one that the selected function has.
LEMMA DeployStep ==
    DeployTypes /\ OneDeployment /\ [Next]_vars => DeployTypes' /\ OneDeployment'
<1> SUFFICES ASSUME DeployTypes, OneDeployment, [Next]_vars
             PROVE  DeployTypes' /\ OneDeployment'
  OBVIOUS
<1> USE ConstantsAssumption DEF Functions, None
<1>1. CASE UNCHANGED <<deployVars, selection>>
  BY <1>1 DEF deployVars, selection, DeployTypes, OneDeployment, FieldCount
<1>2. ASSUME NEW f \in Functions, DeployReturns(f)
      PROVE  DeployTypes' /\ OneDeployment'
  BY <1>2 DEF DeployReturns, selection, DeployTypes, OneDeployment, FieldCount
<1>3. ASSUME NEW f \in Functions, DeployDone(f)
      PROVE  DeployTypes' /\ OneDeployment'
  BY <1>3 DEF DeployDone, Updates, Answers, selection, DeployTypes, OneDeployment, FieldCount
<1>4. ASSUME NEW f \in Functions, DropDeployDone(f)
      PROVE  DeployTypes' /\ OneDeployment'
  BY <1>4 DEF DropDeployDone, selection, DeployTypes, OneDeployment, FieldCount
<1>5. ASSUME NEW f \in Functions, WorkerReturns(f)
      PROVE  DeployTypes' /\ OneDeployment'
  BY <1>5 DEF WorkerReturns, selection, DeployTypes, OneDeployment, FieldCount
<1>6. CASE SelectField \/ SelectFunction
  <2>1. selected' \in 1..NumFunctions /\ field \in Int /\ UNCHANGED deployVars
    BY <1>6 DEF SelectField, SelectFunction, Clamp, DeployTypes, FieldCount
  <2>2. FieldCount(selected', deployed) \in {1, 3}
    BY DEF FieldCount
  <2>3. field' \in 0 .. FieldCount(selected', deployed) - 1
    <3>1. CASE SelectField
      <4>1. selected' = selected
        BY <3>1 DEF SelectField
      <4>2. PICK d \in {-1, 1} :
               field' = Clamp(field + d, 0, FieldCount(selected, deployed) - 1)
        BY <3>1 DEF SelectField
      <4> QED
        BY <2>1, <2>2, <4>1, <4>2 DEF Clamp
    <3>2. CASE SelectFunction
      <4>1. field' = Clamp(field, 0, FieldCount(selected', deployed) - 1)
        BY <3>2 DEF SelectFunction
      <4> QED
        BY <2>1, <2>2, <4>1 DEF Clamp
    <3> QED
      BY <1>6, <3>1, <3>2
  <2> QED
    BY <2>1, <2>3 DEF deployVars, DeployTypes, OneDeployment, FieldCount
<1>7. CASE ChangeSettings
  BY <1>7 DEF ChangeSettings, selection, DeployTypes, OneDeployment, FieldCount
<1>8. CASE OpenDeployForm \/ CancelForm
  <2>1. UNCHANGED <<upload, lost, deploying, deployed, worker, spins, selected, field>>
    BY <1>8 DEF OpenDeployForm, CancelForm, selection
  <2>2. \/ form' = None
        \/ form' = selected /\ upload[selected] = "idle" /\ ~deployed[selected]
    BY <1>8 DEF OpenDeployForm, CancelForm, DeployTypes, OneDeployment
  <2>3. DeployTypes'
    BY <2>1, <2>2 DEF DeployTypes, FieldCount
  <2>4. ASSUME NEW f \in Functions
        PROVE  /\ upload'[f] # "idle" => deploying'[f] /\ worker'[f] = "none"
               /\ form' = f => upload'[f] = "idle" /\ ~deployed'[f]
               /\ worker'[f] # "none" <=> deployed'[f]
    BY <2>1, <2>2 DEF DeployTypes, OneDeployment
  <2> QED
    BY <2>3, <2>4 DEF OneDeployment
<1>9. CASE SubmitForm
  BY <1>9 DEF SubmitForm, FormKeys, selection, DeployTypes, OneDeployment, FieldCount
<1> QED
  BY <1>1, <1>2, <1>3, <1>4, <1>5, <1>6, <1>7, <1>8, <1>9, NextCases, DeploymentsLeft
     DEF DeployAction, DeployMessage

-----------------------------------------------------------------------------
(* Setup *)

\* The types of the phases and commands.
SetupTypes ==
    /\ phase \in {"setup", "dashboard", "quitting"}
    /\ job \in [Jobs -> {"idle"} \cup Running \cup Answers]
    /\ setupErr \in BOOLEAN /\ polls \in 0..MaxPolls /\ stackStarted \in BOOLEAN

\* The commands of setup run one after the other.
LEMMA SetupStep ==
    SetupTypes /\ SetupOrder /\ [Next]_vars => SetupTypes' /\ SetupOrder'
<1> SUFFICES ASSUME SetupTypes, SetupOrder, [Next]_vars
             PROVE  SetupTypes' /\ SetupOrder'
  OBVIOUS
<1> USE ConstantsAssumption DEF Jobs
<1>1. CASE UNCHANGED <<phase, job, setupVars>>
  BY <1>1 DEF setupVars, SetupTypes, SetupOrder
<1>2. CASE CompileReturns \/ PollReturns \/ StopReturns
  BY <1>2 DEF CompileReturns, PollReturns, StopReturns, Sets, setupVars, Answers,
       SetupTypes, SetupOrder
<1>3. CASE StartStack
  BY <1>3 DEF StartStack, Sets, setupVars, Running, StartSteps, Answers, SetupTypes, SetupOrder
<1>4. CASE StartDozzle
  BY <1>4 DEF StartDozzle, Sets, setupVars, Running, DozzleSteps, Answers, SetupTypes, SetupOrder
<1>5. CASE CompileDone
  BY <1>5 DEF CompileDone, Running, StartSteps, Answers, SetupTypes, SetupOrder
<1>6. CASE StackReady
  <2>1. /\ phase' = phase /\ phase # "dashboard" /\ polls' = 0
        /\ job["compile"] = "idle" /\ job["poll"] = "idle"
    BY <1>6 DEF StackReady, Answers, SetupTypes, SetupOrder
  <2>2. setupErr' \in BOOLEAN /\ stackStarted' \in BOOLEAN
    BY <1>6 DEF StackReady
  <2>3. CASE job["start"] = "ok"
    <3>1. stackStarted' /\ job' = [job EXCEPT !["start"] = "idle", !["poll"] = "running"]
      BY ZenonT(30), <1>6, <2>3 DEF StackReady
    <3> QED
      BY <2>1, <2>2, <3>1 DEF Running, SetupTypes, SetupOrder
  <2>4. CASE job["start"] # "ok"
    <3>1. ~stackStarted' /\ job' = [job EXCEPT !["start"] = "idle", !["poll"] = @]
      BY ZenonT(30), <1>6, <2>4 DEF StackReady
    <3> QED
      BY <2>1, <2>2, <3>1 DEF SetupTypes, SetupOrder
  <2> QED
    BY <2>3, <2>4
<1>7. CASE StackPoll
  <2>1. setupErr' \in BOOLEAN
    <3>1. \/ setupErr' = setupErr \/ setupErr' = TRUE
          \/ setupErr' = (polls + 1 >= MaxPolls)
      BY <1>7 DEF StackPoll
    <3>2. polls + 1 >= MaxPolls => (polls + 1 >= MaxPolls) = TRUE
      OBVIOUS
    <3>3. ~ (polls + 1 >= MaxPolls) => (polls + 1 >= MaxPolls) = FALSE
      OBVIOUS
    <3> QED
      BY <3>1, <3>2, <3>3, Zenon DEF SetupTypes
  <2>2. UNCHANGED stackStarted
    BY <1>7 DEF StackPoll
  <2>3. phase' = phase \/ (phase' = "dashboard" /\ stackStarted)
    BY <1>7 DEF StackPoll, SetupOrder
  <2>4. \E a \in {"idle", "tick"} :
           /\ Sets("poll", a)
           /\ polls' \in 0..MaxPolls
           /\ a = "tick" => stackStarted /\ polls' < MaxPolls
    BY <1>7 DEF StackPoll, SetupTypes, SetupOrder
  <2> QED
    BY <2>1, <2>2, <2>3, <2>4 DEF Sets, Answers, SetupTypes, SetupOrder
<1>8. CASE StackPollTick \/ DozzleStarted \/ StackShutdownDone \/ \E k \in Jobs : DropMessage(k)
  BY <1>8 DEF StackPollTick, DozzleStarted, StackShutdownDone, DropMessage, Sets, setupVars,
       Running, SetupTypes, SetupOrder
<1>9. CASE PressDozzle
  BY <1>9 DEF PressDozzle, Sets, setupVars, Running, DozzleSteps, SetupTypes, SetupOrder
<1>10. CASE BeginShutdown
  BY <1>10 DEF BeginShutdown, Sets, setupVars, Running, SetupTypes, SetupOrder
<1>11. CASE ProgramEnds \/ ShutdownStep
  BY <1>1, <1>11 DEF ProgramEnds, ShutdownStep, ShutdownCancels, ShutdownWaits,
       ShutdownRemovesDozzle, ShutdownStopsStack
<1> QED
  BY <1>1, <1>2, <1>3, <1>4, <1>5, <1>6, <1>7, <1>8, <1>9, <1>10, <1>11, NextCases, OthersLeft
     DEF JobAction, JobMessage, EndAction

-----------------------------------------------------------------------------
(* Dozzle containers *)

DozzleTypes ==
    /\ dozzleStarting \in BOOLEAN /\ dozzleKnown \in BOOLEAN
    /\ dozzles \in 0..MaxDozzles /\ orphans \in 0..MaxDozzles

\* The containers are counted right, in the order in which they come about.
DozzleInv == DozzleTypes /\ DozzleOrder /\ DozzleAccounted

\* Every container stays accounted for.
LEMMA DozzleStep ==
    SetupTypes /\ SetupOrder /\ DozzleInv /\ [Next]_vars => DozzleInv'
<1> SUFFICES ASSUME SetupTypes, SetupOrder, DozzleInv, [Next]_vars
             PROVE  DozzleInv'
  OBVIOUS
<1> USE ConstantsAssumption DEF Jobs
<1>1. CASE UNCHANGED <<dozzleVars, stackStarted, job, prog>>
  BY <1>1 DEF dozzleVars, DozzleInv, DozzleTypes, DozzleOrder, DozzleAccounted, Count
<1>2. CASE CompileReturns \/ PollReturns \/ StopReturns \/ StartStack
  BY <1>2
  DEF CompileReturns, PollReturns, StopReturns, StartStack, Sets, setupVars, endVars, dozzleVars,
       SetupTypes, DozzleInv, DozzleTypes, DozzleOrder, DozzleAccounted, Count
<1>3. CASE StartDozzle
  BY <1>3 DEF StartDozzle, DozzleSteps, Sets, setupVars, endVars,
       SetupTypes, DozzleInv, DozzleTypes, DozzleOrder, DozzleAccounted, Count
<1>4. CASE CompileDone \/ StackPoll \/ StackPollTick
  BY <1>4 DEF CompileDone, StackPoll, StackPollTick, Sets, setupVars, endVars, dozzleVars,
       SetupTypes, DozzleInv, DozzleTypes, DozzleOrder, DozzleAccounted, Count
<1>5. CASE StackReady
  <2>1. ~stackStarted /\ ~dozzleStarting /\ ~dozzleKnown
    BY <1>5 DEF StackReady, Answers, SetupOrder, DozzleInv, DozzleOrder
  <2>2. job'["dozzle"] = job["dozzle"] /\ UNCHANGED <<dozzleVars, prog>>
    BY <1>5 DEF StackReady, endVars, SetupTypes
  <2> QED
    BY <2>1, <2>2 DEF dozzleVars, DozzleInv, DozzleTypes, DozzleOrder, DozzleAccounted, Count
<1>6. CASE DozzleStarted
  <2>1. prog = "running" /\ UNCHANGED <<dozzles, orphans, stackStarted, prog>>
    BY <1>6 DEF DozzleStarted, Updates, setupVars, endVars
  <2>2. dozzleStarting /\ ~dozzleKnown /\ stackStarted /\ job["dozzle"] \in {"ok", "err"}
    BY <1>6 DEF DozzleStarted, Answers, DozzleInv, DozzleOrder
  <2>3. dozzleStarting' = FALSE /\ job'["dozzle"] = "idle"
    BY <1>6, <2>2 DEF DozzleStarted, Sets, SetupTypes
  <2>4. \/ job["dozzle"] = "ok" /\ dozzleKnown' = TRUE
        \/ job["dozzle"] = "err" /\ dozzleKnown' = FALSE
    BY ZenonT(30), <1>6, <2>2 DEF DozzleStarted
  <2>5. dozzleKnown = FALSE
    BY <2>2 DEF DozzleInv, DozzleTypes
  <2>6. dozzles = orphans + Count(job["dozzle"] = "ok")
    BY <2>1, <2>2, <2>5 DEF DozzleInv, DozzleTypes, DozzleAccounted, Count
  <2>7. dozzles' = orphans' + Count(dozzleKnown')
    BY <2>1, <2>4, <2>6 DEF Count
  <2>8. DozzleAccounted'
    BY <2>1, <2>3, <2>7 DEF DozzleInv, DozzleTypes, DozzleAccounted, Count
  <2>9. DozzleTypes' /\ DozzleOrder'
    BY ZenonT(30), <2>1, <2>2, <2>3, <2>4 DEF DozzleInv, DozzleTypes, DozzleOrder
  <2> QED
    BY <2>8, <2>9 DEF DozzleInv
<1>7. CASE StackShutdownDone
  BY <1>7 DEF StackShutdownDone, Sets, setupVars, dozzleVars,
       SetupTypes, DozzleInv, DozzleTypes, DozzleOrder, DozzleAccounted, Count
<1>8. ASSUME NEW k \in Jobs, DropMessage(k) PROVE DozzleInv'
  BY <1>8 DEF DropMessage, Answers, Sets, setupVars, endVars,
       SetupTypes, DozzleInv, DozzleTypes, DozzleOrder, DozzleAccounted, Count
<1>9. CASE PressDozzle
  BY <1>9 DEF PressDozzle, Keys, Sets, setupVars, endVars,
       SetupTypes, SetupOrder, DozzleInv, DozzleTypes, DozzleOrder, DozzleAccounted, Count
<1>10. CASE BeginShutdown
  BY <1>10 DEF BeginShutdown, Sets, setupVars, dozzleVars,
       SetupTypes, DozzleInv, DozzleTypes, DozzleOrder, DozzleAccounted, Count
<1>11. CASE ProgramEnds \/ ShutdownCancels \/ ShutdownWaits \/ ShutdownStopsStack
  BY <1>11
  DEF ProgramEnds, ShutdownCancels, ShutdownWaits, ShutdownStopsStack, setupVars, dozzleVars,
       SetupTypes, DozzleInv, DozzleTypes, DozzleOrder, DozzleAccounted, Count
<1>12. CASE ShutdownRemovesDozzle
  BY <1>12 DEF ShutdownRemovesDozzle, setupVars,
       SetupTypes, DozzleInv, DozzleTypes, DozzleOrder, DozzleAccounted, Count
<1> QED
  BY <1>1, <1>2, <1>3, <1>4, <1>5, <1>6, <1>7, <1>8, <1>9, <1>10, <1>11, <1>12, NextCases,
     OthersLeft DEF JobAction, JobMessage, EndAction, ShutdownStep, setupVars, endVars

-----------------------------------------------------------------------------
(* The end of the program *)

EndTypes ==
    /\ ctxDone \in BOOLEAN
    /\ prog \in {"running", "returned", "wait", "rm", "down", "exited"}
    /\ quit \in {"no", "key", "keyStarting", "signal"}
    /\ stack \in {"up", "down"} /\ downFailed \in BOOLEAN

\* However stopStack ends, the stack is down or the failure is remembered.
LEMMA StopStackStops ==
    ASSUME NEW r, StopStack(r), EndTypes
    PROVE  StackStopped' /\ stack' \in {"up", "down"} /\ downFailed' \in BOOLEAN
<1>1. CASE r = "ok"
  BY <1>1 DEF StopStack, StackStopped, EndTypes
<1>2. CASE r = "err"
  BY ZenonT(30), <1>2 DEF StopStack, StackStopped, EndTypes
<1> QED
  BY <1>1, <1>2 DEF StopStack

\* No step undoes the end of the stack, except a start that was under way
\* when it was asked for.
LEMMA EndStep ==
    SetupTypes /\ SetupOrder /\ EndTypes /\ EndOrder /\ [Next]_vars => EndTypes' /\ EndOrder'
<1> SUFFICES ASSUME SetupTypes, SetupOrder, EndTypes, EndOrder, [Next]_vars
             PROVE  EndTypes' /\ EndOrder'
  OBVIOUS
<1> USE DEF Jobs
<1>1. CASE UNCHANGED <<phase, job, stackStarted, endVars, stackVars>>
  BY <1>1 DEF endVars, stackVars, EndTypes, EndOrder, StackStopped
<1>2. CASE CompileReturns \/ PollReturns
  BY <1>2 DEF CompileReturns, PollReturns, Sets, setupVars, endVars, stackVars,
       SetupTypes, EndTypes, EndOrder, StackStopped
<1>3. CASE StartStack
  BY <1>3 DEF StartStack, StartSteps, Sets, setupVars, endVars, SetupTypes, SetupOrder,
       EndTypes, EndOrder, StackStopped
<1>4. CASE StopReturns
  <2>1. PICK r \in {"ok", "err"} : StopStack(r) /\ Sets("stop", r)
    BY <1>4 DEF StopReturns
  <2>2. UNCHANGED <<phase, stackStarted, endVars>> /\ job["stop"] = "running"
    BY <1>4 DEF StopReturns, setupVars
  <2> QED
    BY <2>1, <2>2, StopStackStops DEF Sets, endVars, SetupTypes, EndTypes, EndOrder
<1>5. CASE StartDozzle \/ DozzleStarted \/ PressDozzle
  BY <1>5 DEF StartDozzle, DozzleStarted, PressDozzle, Sets, setupVars, endVars, stackVars,
       SetupTypes, EndTypes, EndOrder, StackStopped
<1>6. CASE CompileDone \/ StackReady \/ StackPoll \/ StackPollTick
  <2>1. prog = "running" /\ phase # "quitting" /\ phase' # "quitting"
    BY <1>6 DEF CompileDone, StackReady, StackPoll, StackPollTick, Updates
  <2>2. UNCHANGED <<endVars, stackVars>>
    BY <1>6 DEF CompileDone, StackReady, StackPoll, StackPollTick, Updates
  <2> QED
    BY <2>1, <2>2 DEF endVars, stackVars, EndTypes, EndOrder
<1>7. CASE StackShutdownDone
  <2>1. job["stop"] # "running" /\ job'["stop"] = "idle" /\ job'["start"] = job["start"]
    BY <1>7 DEF StackShutdownDone, Answers, Sets, SetupTypes
  <2>2. /\ phase = "quitting" /\ prog' = "returned"
        /\ UNCHANGED <<phase, quit, ctxDone, stack, downFailed, stackStarted>>
    BY <1>7 DEF StackShutdownDone, setupVars, stackVars
  <2> QED
    BY <2>1, <2>2 DEF EndTypes, EndOrder, StackStopped
<1>8. ASSUME NEW k \in Jobs, DropMessage(k) PROVE EndTypes' /\ EndOrder'
  BY <1>8 DEF DropMessage, StartSteps, Sets, setupVars, endVars, stackVars, SetupTypes,
       EndTypes, EndOrder, StackStopped
<1>9. CASE BeginShutdown
  <2>1. job'["stop"] = "running" /\ job'["start"] = job["start"]
    BY <1>9 DEF BeginShutdown, Sets, SetupTypes
  <2>2. /\ prog = "running" /\ prog' = "running" /\ phase' = "quitting" /\ ctxDone' = TRUE
        /\ UNCHANGED <<stack, downFailed, stackStarted>>
    BY <1>9 DEF BeginShutdown, setupVars, stackVars
  <2>3. \/ quit' = "keyStarting"
        \/ quit' = "key" /\ job["start"] \notin StartSteps
    BY <1>9 DEF BeginShutdown
  <2> QED
    BY <2>1, <2>2, <2>3 DEF EndTypes, EndOrder
<1>10. CASE ProgramEnds \/ ShutdownCancels
  BY ZenonT(30), <1>10
  DEF ProgramEnds, ShutdownCancels, setupVars, stackVars, EndTypes, EndOrder, StackStopped
<1>11. CASE ShutdownWaits \/ ShutdownRemovesDozzle
  BY <1>11 DEF ShutdownWaits, ShutdownRemovesDozzle, setupVars, stackVars, EndTypes, EndOrder,
       StackStopped
<1>12. CASE ShutdownStopsStack
  <2>1. StackStopped' /\ stack' \in {"up", "down"} /\ downFailed' \in BOOLEAN
    BY <1>12, StopStackStops DEF ShutdownStopsStack
  <2> QED
    BY <1>12, <2>1 DEF ShutdownStopsStack, setupVars, EndTypes, EndOrder
<1> QED
  BY <1>1, <1>2, <1>3, <1>4, <1>5, <1>6, <1>7, <1>8, <1>9, <1>10, <1>11, <1>12, NextCases,
     OthersLeft DEF JobAction, JobMessage, EndAction, ShutdownStep, setupVars

-----------------------------------------------------------------------------
(* The theorems *)

\* The type invariant is that of the four parts together.
LEMMA TypesOfParts == TypeOK <=> DeployTypes /\ SetupTypes /\ DozzleTypes /\ EndTypes
BY DEF TypeOK, DeployTypes, SetupTypes, DozzleTypes, EndTypes

\* The invariant holds when the program starts, also beside an old stack.
LEMMA InvInit == Init => TesterIInv
<1> SUFFICES ASSUME Init PROVE TesterIInv
  OBVIOUS
<1> USE ConstantsAssumption DEF Functions, None, Jobs
<1>1. DeployTypes /\ OneDeployment
  BY DEF Init, DeployTypes, OneDeployment, FieldCount
<1>2. SetupTypes /\ SetupOrder
  <2>1. job \in [Jobs -> {"idle", "running"}]
    BY DEF Init
  <2>2. job["start"] = "idle" /\ job["poll"] = "idle"
    BY DEF Init
  <2>3. phase = "setup" /\ setupErr = FALSE /\ polls = 0 /\ stackStarted = FALSE
    BY DEF Init
  <2> QED
    <3>1. SetupTypes
      <4>1. setupErr \in BOOLEAN /\ stackStarted \in BOOLEAN
        BY <2>3, Zenon
      <4> QED
        BY <2>1, <2>3, <4>1 DEF SetupTypes, Running
    <3>2. SetupOrder
      BY <2>1, <2>2, <2>3 DEF SetupOrder
    <3> QED
      BY <3>1, <3>2
<1>3. DozzleTypes /\ DozzleOrder /\ DozzleAccounted
  <2>1. job["dozzle"] = "idle"
    BY DEF Init
  <2>2. dozzleStarting = FALSE /\ dozzleKnown = FALSE /\ dozzles = 0 /\ orphans = 0
    BY DEF Init
  <2> QED
    <3>1. DozzleTypes
      <4>1. dozzleStarting \in BOOLEAN /\ dozzleKnown \in BOOLEAN
        BY <2>2, Zenon
      <4> QED
        BY <2>2, <4>1 DEF DozzleTypes
    <3>2. DozzleOrder
      BY <2>1, <2>2 DEF DozzleOrder
    <3>3. DozzleAccounted
      BY <2>1, <2>2 DEF DozzleAccounted, Count
    <3> QED
      BY <3>1, <3>2, <3>3
<1>4. EndTypes /\ EndOrder
  BY ZenonT(30) DEF Init, EndTypes, EndOrder
<1> QED
  BY <1>1, <1>2, <1>3, <1>4, TypesOfParts DEF TesterIInv

\* Every step keeps it.
LEMMA InvStep == TesterIInv /\ [Next]_vars => TesterIInv'
<1> SUFFICES ASSUME TesterIInv, [Next]_vars PROVE TesterIInv'
  OBVIOUS
<1>1. DeployTypes /\ SetupTypes /\ DozzleTypes /\ EndTypes
  BY TypesOfParts DEF TesterIInv
<1>2. DeployTypes' /\ OneDeployment'
  BY <1>1, DeployStep DEF TesterIInv
<1>3. SetupTypes' /\ SetupOrder'
  BY <1>1, SetupStep DEF TesterIInv
<1>4. DozzleTypes' /\ DozzleOrder' /\ DozzleAccounted'
  BY <1>1, DozzleStep DEF TesterIInv, DozzleInv
<1>5. EndTypes' /\ EndOrder'
  BY <1>1, EndStep DEF TesterIInv
<1>6. TypeOK'
  BY <1>2, <1>3, <1>4, <1>5 DEF TypeOK, DeployTypes, SetupTypes, DozzleTypes, EndTypes
<1> QED
  BY <1>2, <1>3, <1>4, <1>5, <1>6 DEF TesterIInv

\* The invariant holds whatever keys, answers and signals reach the tester.
LEMMA TesterIInvCorrect == Spec => []TesterIInv
BY InvInit, InvStep, PTL DEF Spec

\* Update and the commands keep the model's fields in their types; setupPolls
\* never passes its limit, and selectedField is a field of the function.
THEOREM TesterTypeCorrect == Spec => []TypeOK
<1>1. TesterIInv => TypeOK
  BY DEF TesterIInv
<1> QED
  BY <1>1, TesterIInvCorrect, PTL

\* deployForm and deployDoneMsg never lead to a second upload or a second
\* request loop for a function.
THEOREM DeployedOnce == Spec => []OneDeployment
<1>1. TesterIInv => OneDeployment
  BY DEF TesterIInv
<1> QED
  BY <1>1, TesterIInvCorrect, PTL

\* No Dozzle container goes missing, except by a start that failed after
\* docker run, an answer that was dropped, or a docker rm that failed.
THEOREM NoDozzleUncounted == Spec => []DozzleAccounted
<1>1. TesterIInv => DozzleAccounted
  BY DEF TesterIInv
<1> QED
  BY <1>1, TesterIInvCorrect, PTL

\* beginShutdown and Shutdown leave no stack behind but in the three ways that
\* CleanExit names.
THEOREM StackIsStopped == Spec => []CleanExit
<1>1. TesterIInv => CleanExit
  BY DEF TesterIInv, TypeOK, EndOrder, StackStopped, CleanExit
<1> QED
  BY <1>1, TesterIInvCorrect, PTL
=============================================================================
