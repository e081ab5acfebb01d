-------------------------- MODULE PrepareInstance ---------------------------
(***************************************************************************)
(* PrepareFunctionInstance on a Runner: concurrent calls for one function, *)
(* that is for one path of the runner's file system.  Calls for different  *)
(* functions use different keys of every map and share nothing.            *)
(*                                                                         *)
(* The call that finds neither the file nor a download in flight downloads *)
(* the binary, the others wait for its result; the call that finds no      *)
(* starting instance starts one, the others wait for its id.  An instance  *)
(* is named by the call that started it.                                   *)
(***************************************************************************)
EXTENDS Naturals

CONSTANTS
    Calls,          \* PrepareFunctionInstance calls for the function
    MayCancel,      \* the calls whose client may go away
    MaxCrashes      \* bound on runner crashes

ASSUME ConstantsAssumption ==
    /\ MayCancel \subseteq Calls
    /\ MaxCrashes \in Nat

VARIABLES
    pc,             \* where each call is
    cancelled,      \* the call's ctx is done
    flight,         \* the call whose download or start the call waits for
    answer,         \* the instance a successful call returns
    file,           \* the function file
    tmp,            \* the temporary file of each call's download
    downloading,    \* the owner of the path's entry in downloads, if any
    starting,       \* the owner of the path's entry in startingInstances
    dlSubs, dlResult, dlInbox,      \* consumers of download results
    stSubs, stResult, stInbox,      \* consumers of start results
    instances,      \* the instance each call started: its place in instanceStates
    crashes

callVars == <<pc, cancelled, flight, answer>>
fileVars == <<file, tmp>>
mapVars == <<downloading, starting, instances>>
dlVars == <<dlSubs, dlResult, dlInbox>>
stVars == <<stSubs, stResult, stInbox>>
vars == <<callVars, fileVars, mapVars, dlVars, stVars, crashes>>

Downloads == INSTANCE MultiConsumer WITH
    subscribers <- dlSubs, result <- dlResult, inbox <- dlInbox
Starts == INSTANCE MultiConsumer WITH
    subscribers <- stSubs, result <- stResult, inbox <- stInbox

Downloading == {"fetch", "copy", "rename", "delete", "deleteErr"}
Starting == {"boot", "submit", "removeErr"}
Finished == {"done", "failed"}
PCs == {"arrive", "stat", "claim", "subscribe", "awaitDownload"}
    \cup Downloading \cup {"publish", "publishErr", "start", "awaitStart"}
    \cup Starting \cup {"register", "announce", "announceErr"} \cup Finished

Init ==
    /\ pc = [c \in Calls |-> "arrive"]
    /\ cancelled = [c \in Calls |-> FALSE]
    /\ flight = [c \in Calls |-> c]
    /\ answer = [c \in Calls |-> c]
    /\ file = "absent"
    /\ tmp = [c \in Calls |-> "absent"]
    /\ downloading = {}
    /\ starting = {}
    /\ Downloads!Init
    /\ Starts!Init
    /\ instances = [c \in Calls |-> "none"]
    /\ crashes = 0

Goto(c, l) == pc' = [pc EXCEPT ![c] = l]

-----------------------------------------------------------------------------
(* PrepareFunctionInstance: the file, or a download *)

Arrive(c) ==
    /\ pc[c] = "arrive"
    /\ Goto(c, "stat")
    /\ UNCHANGED <<cancelled, flight, answer, fileVars, mapVars,
                   dlVars, stVars, crashes>>

\* funcFileExists; any error of os.Stat but ErrNotExist fails the call.
StatFile(c) ==
    /\ pc[c] = "stat"
    /\ \/ Goto(c, IF file = "absent" THEN "claim" ELSE "start")
       \/ Goto(c, "failed")
    /\ UNCHANGED <<cancelled, flight, answer, fileVars, mapVars,
                   dlVars, stVars, crashes>>

\* Mutation: Load and Store in place of LoadOrStore.
ClaimDownloadStores(c) ==
    /\ pc[c] = "claim"
    /\ downloading' = {c}
    /\ Goto(c, "fetch")
    /\ UNCHANGED <<cancelled, flight, answer, fileVars, starting,
                   instances, dlVars, stVars, crashes>>

\* IsDownloadedOrStartDownload: LoadOrStore.
ClaimDownload(c) ==
    /\ pc[c] = "claim"
    /\ \/ /\ downloading = {}
          /\ downloading' = {c}
          /\ Goto(c, "fetch")
          /\ UNCHANGED flight
       \/ \E o \in downloading :
             /\ flight' = [flight EXCEPT ![c] = o]
             /\ Goto(c, "subscribe")
             /\ UNCHANGED downloading
    /\ UNCHANGED <<cancelled, answer, fileVars, starting,
                   instances, dlVars, stVars, crashes>>

\* IsDownloadedOrStartDownload: AddSub on the consumer that was loaded; its
\* owner may have deleted it from the map and submitted its result by now.
SubscribeDownload(c) ==
    /\ pc[c] = "subscribe"
    /\ Downloads!AddSub(flight[c], c)
    /\ Goto(c, "awaitDownload")
    /\ UNCHANGED <<cancelled, flight, answer, fileVars, mapVars,
                   stVars, crashes>>

\* Mutation: the error of the shared download is waited over.
AwaitDownloadOnlySuccess(c) ==
    /\ pc[c] = "awaitDownload"
    /\ dlInbox[c] = "ok"
    /\ Goto(c, "start")
    /\ UNCHANGED <<cancelled, flight, answer, fileVars, mapVars, dlVars,
                   stVars, crashes>>

\* The select on downloadCh and ctx.Done.  The call needs its consumer no
\* longer, and what a later failure has to do with its ctx makes no difference.
AwaitDownload(c) ==
    /\ pc[c] = "awaitDownload"
    /\ \/ dlInbox[c] = "ok" /\ Goto(c, "start")
       \/ dlInbox[c] = "err" /\ Goto(c, "failed")
       \/ cancelled[c] /\ Goto(c, "failed")
    /\ dlInbox' = [dlInbox EXCEPT ![c] = "none"]
    /\ cancelled' = [cancelled EXCEPT ![c] = FALSE]
    /\ flight' = [flight EXCEPT ![c] = c]
    /\ UNCHANGED <<answer, fileVars, mapVars, dlSubs, dlResult, stVars, crashes>>

\* downloadFunction up to CreateTemp: the request, the status codes 404 and
\* 500, MkdirAll and CreateTemp may fail.
FetchFunction(c) ==
    /\ pc[c] = "fetch"
    /\ \/ tmp' = [tmp EXCEPT ![c] = "partial"] /\ Goto(c, "copy")
       \/ Goto(c, "deleteErr") /\ UNCHANGED tmp
    /\ UNCHANGED <<cancelled, flight, answer, file, mapVars,
                   dlVars, stVars, crashes>>

\* Mutation: an error of io.Copy goes unnoticed.
CopyFunctionUnchecked(c) ==
    /\ pc[c] = "copy"
    /\ \/ tmp' = [tmp EXCEPT ![c] = "complete"]
       \/ UNCHANGED tmp
    /\ Goto(c, "rename")
    /\ UNCHANGED <<cancelled, flight, answer, file, mapVars,
                   dlVars, stVars, crashes>>

\* io.Copy, Close and Chmod.  After an error server.DeleteFile removes the
\* temporary file, or logs that it could not.
CopyFunction(c) ==
    /\ pc[c] = "copy"
    /\ \/ tmp' = [tmp EXCEPT ![c] = "complete"] /\ Goto(c, "rename")
       \/ \E left \in {"absent", "partial", "complete"} :
             tmp' = [tmp EXCEPT ![c] = left] /\ Goto(c, "deleteErr")
    /\ UNCHANGED <<cancelled, flight, answer, file, mapVars,
                   dlVars, stVars, crashes>>

\* os.Rename over whatever is at the path, or an error and DeleteFile again.
RenameFunction(c) ==
    /\ pc[c] = "rename"
    /\ \/ /\ file' = tmp[c]
          /\ tmp' = [tmp EXCEPT ![c] = "absent"]
          /\ Goto(c, "delete")
       \/ /\ \E left \in {"absent", tmp[c]} : tmp' = [tmp EXCEPT ![c] = left]
          /\ Goto(c, "deleteErr")
          /\ UNCHANGED file
    /\ UNCHANGED <<cancelled, flight, answer, mapVars, dlVars,
                   stVars, crashes>>

\* downloads.Delete, before the result is submitted.
DeleteDownload(c) ==
    /\ pc[c] \in {"delete", "deleteErr"}
    /\ downloading' = {}
    /\ Goto(c, IF pc[c] = "delete" THEN "publish" ELSE "publishErr")
    /\ UNCHANGED <<cancelled, flight, answer, fileVars, starting,
                   instances, dlVars, stVars, crashes>>

\* SubmitResult to those who share the download, then start or fail.
PublishDownload(c) ==
    /\ \/ /\ pc[c] = "publish"
          /\ Downloads!SubmitResult(c, "ok")
          /\ Goto(c, "start")
       \/ /\ pc[c] = "publishErr"
          /\ Downloads!SubmitResult(c, "err")
          /\ Goto(c, "failed")
    /\ UNCHANGED <<cancelled, flight, answer, fileVars, mapVars, stVars, crashes>>

-----------------------------------------------------------------------------
(* startInstance *)

\* IsStartingOrStartIt: lookup and AddSub or insertion, under startingMu;
\* uuid.NewV7, before it, may fail.
StartOrSubscribe(c) ==
    /\ pc[c] = "start"
    /\ \/ /\ starting = {}
          /\ starting' = {c}
          /\ Goto(c, "boot")
          /\ UNCHANGED <<flight, stVars>>
       \/ \E o \in starting :
             /\ Starts!AddSub(o, c)
             /\ flight' = [flight EXCEPT ![c] = o]
             /\ Goto(c, "awaitStart")
             /\ UNCHANGED starting
       \/ /\ Goto(c, "failed")
          /\ UNCHANGED <<starting, flight, stVars>>
    /\ UNCHANGED <<cancelled, answer, fileVars, downloading,
                   instances, dlVars, crashes>>

\* <-idCh: this wait does not watch the call's ctx.
AwaitStart(c) ==
    /\ pc[c] = "awaitStart"
    /\ \/ /\ stInbox[c] = "ok"
          /\ answer' = [answer EXCEPT ![c] = flight[c]]
          /\ Goto(c, "done")
       \/ /\ stInbox[c] = "err"
          /\ Goto(c, "failed")
          /\ UNCHANGED answer
    /\ stInbox' = [stInbox EXCEPT ![c] = "none"]
    /\ flight' = [flight EXCEPT ![c] = c]
    /\ UNCHANGED <<cancelled, fileVars, mapVars, dlVars, stSubs, stResult, crashes>>

\* runtime.Start returns: the guest answered a heartbeat, or it could not be
\* started, did not answer in time or the owner's ctx was done, in which
\* case the process is closed again.
BootInstance(c) ==
    /\ pc[c] = "boot"
    /\ Goto(c, "submit") \/ Goto(c, "removeErr")
    /\ UNCHANGED <<cancelled, flight, answer, fileVars, mapVars,
                   dlVars, stVars, crashes>>

\* RemoveStartingInstance, in Submit and on the error path.
RemoveStarting(c) ==
    /\ pc[c] \in {"submit", "removeErr"}
    /\ starting' = {}
    /\ Goto(c, IF pc[c] = "submit" THEN "register" ELSE "announceErr")
    /\ UNCHANGED <<cancelled, flight, answer, fileVars,
                   downloading, instances, dlVars, stVars, crashes>>

\* Mutation: the waiting calls are answered before the instance is known.
RegisterInstanceLast(c) ==
    /\ pc[c] = "register"
    /\ \/ /\ stResult[c] = "none"
          /\ Starts!SubmitResult(c, "ok")
          /\ UNCHANGED <<pc, instances>>
       \/ /\ stResult[c] # "none"
          /\ instances' = [instances EXCEPT ![c] = "running"]
          /\ Goto(c, "announce")
          /\ UNCHANGED stVars
    /\ UNCHANGED <<cancelled, flight, answer, fileVars,
                   downloading, starting, dlVars, crashes>>

\* Submit: the new instanceState enters instanceStates.
RegisterInstance(c) ==
    /\ pc[c] = "register"
    /\ instances' = [instances EXCEPT ![c] = "running"]
    /\ Goto(c, "announce")
    /\ UNCHANGED <<cancelled, flight, answer, fileVars,
                   downloading, starting, dlVars, stVars, crashes>>

\* go shutdownAfterTime, SubmitResult and return.
AnnounceStart(c) ==
    /\ \/ /\ pc[c] = "announce"
          /\ Starts!SubmitResult(c, "ok")
          /\ answer' = [answer EXCEPT ![c] = c]
          /\ Goto(c, "done")
       \/ /\ pc[c] = "announceErr"
          /\ Starts!SubmitResult(c, "err")
          /\ Goto(c, "failed")
          /\ UNCHANGED answer
    /\ UNCHANGED <<cancelled, flight, fileVars, mapVars, dlVars, crashes>>

-----------------------------------------------------------------------------
(* The environment *)

\* The client of a call goes away.  The wait for a download is where the call
\* watches its ctx; everywhere else a step may fail with or without it.
Cancel(c) ==
    /\ c \in MayCancel
    /\ pc[c] = "awaitDownload"
    /\ ~cancelled[c]
    /\ cancelled' = [cancelled EXCEPT ![c] = TRUE]
    /\ UNCHANGED <<pc, flight, answer, fileVars, mapVars, dlVars,
                   stVars, crashes>>

\* StopInstance after the idle timeout (module InstanceWorker).
StopInstance(i) ==
    /\ instances[i] = "running"
    /\ instances' = [instances EXCEPT ![i] = "stopped"]
    /\ UNCHANGED <<callVars, fileVars, downloading, starting, dlVars, stVars,
                   crashes>>

\* The runner process dies and is started again: its maps are empty, the
\* calls have failed, the files stay.
Crash ==
    /\ crashes < MaxCrashes
    /\ crashes' = crashes + 1
    /\ pc' = [c \in Calls |->
                 IF pc[c] \in Finished \cup {"arrive"} THEN pc[c] ELSE "failed"]
    /\ downloading' = {}
    /\ starting' = {}
    /\ instances' = [c \in Calls |->
                        IF instances[c] = "running" THEN "stopped" ELSE instances[c]]
    /\ cancelled' = [c \in Calls |-> FALSE]
    /\ flight' = [c \in Calls |-> c]
    /\ dlSubs' = [c \in Calls |-> {}]
    /\ dlResult' = [c \in Calls |-> "none"]
    /\ dlInbox' = [c \in Calls |-> "none"]
    /\ stSubs' = [c \in Calls |-> {}]
    /\ stResult' = [c \in Calls |-> "none"]
    /\ stInbox' = [c \in Calls |-> "none"]
    /\ UNCHANGED <<answer, fileVars>>

-----------------------------------------------------------------------------

CallStep(c) ==
    \/ StatFile(c) \/ ClaimDownload(c) \/ SubscribeDownload(c)
    \/ AwaitDownload(c) \/ FetchFunction(c) \/ CopyFunction(c)
    \/ RenameFunction(c) \/ DeleteDownload(c) \/ PublishDownload(c)
    \/ StartOrSubscribe(c) \/ AwaitStart(c) \/ BootInstance(c)
    \/ RemoveStarting(c) \/ RegisterInstance(c) \/ AnnounceStart(c)

Next ==
    \/ \E c \in Calls : Arrive(c) \/ CallStep(c) \/ Cancel(c) \/ StopInstance(c)
    \/ Crash

Spec == Init /\ [][Next]_vars

\* Every call that arrived is scheduled.  That FetchFunction, CopyFunction and
\* BootInstance end is an assumption on the Commander and on the guest: the HTTP
\* request has no deadline but the caller's, and StartEnds of NativeRuntime says
\* when Start does not return.
FairSpec == Spec /\ \A c \in Calls : WF_vars(CallStep(c))

-----------------------------------------------------------------------------
(* Properties *)

\* The variables have their types.
TypeOK ==
    /\ pc \in [Calls -> PCs]
    /\ cancelled \in [Calls -> BOOLEAN]
    /\ flight \in [Calls -> Calls]
    /\ answer \in [Calls -> Calls]
    /\ file \in {"absent", "partial", "complete"}
    /\ tmp \in [Calls -> {"absent", "partial", "complete"}]
    /\ downloading \in SUBSET Calls
    /\ starting \in SUBSET Calls
    /\ Downloads!TypeOK
    /\ Starts!TypeOK
    /\ instances \in [Calls -> {"none", "running", "stopped"}]
    /\ crashes \in 0..MaxCrashes

\* At most one call at a time downloads the function, until it has taken its
\* entry out of the downloads map.
SingleDownload ==
    \A c, d \in Calls : pc[c] \in Downloading /\ pc[d] \in Downloading => c = d

\* At most one call at a time starts an instance of the function, until it
\* has taken its entry out of startingInstances.
SingleStart ==
    \A c, d \in Calls : pc[c] \in Starting /\ pc[d] \in Starting => c = d

\* However many calls for the function arrive, at most one of them downloads
\* and at most one of them starts at a time.  One after the other they may: a
\* call that looked for the file before the rename and at the downloads map
\* after the delete downloads again.
SingleFlight == SingleDownload /\ SingleStart

\* A call that waits on an empty channel is registered with a call that has
\* yet to submit its result: no subscriber is lost between LoadOrStore,
\* AddSub, Delete and SubmitResult, which are separate steps.
NoLostSubscriber ==
    \A c \in Calls :
        /\ pc[c] = "awaitDownload" /\ dlInbox[c] = "none" =>
              /\ c \in dlSubs[flight[c]]
              /\ pc[flight[c]] \in Downloading \cup {"publish", "publishErr"}
        /\ pc[c] = "awaitStart" /\ stInbox[c] = "none" =>
              /\ c \in stSubs[flight[c]]
              /\ pc[flight[c]] \in Starting \cup {"register", "announce", "announceErr"}

\* Every instance id that a call returns had been submitted to
\* instanceStates, so that an invocation of it can be looked up.
AnsweredWasSubmitted ==
    \A c \in Calls : pc[c] = "done" => instances[answer[c]] # "none"

\* Instances are started only from a completely downloaded file, and no
\* partial file ever appears under the function's path, crashes included.
OnlyCompleteFile ==
    /\ file # "partial"
    /\ \A c \in Calls : pc[c] \in Starting => file = "complete"

\* A temporary file belongs to a download that is under way or that failed: a
\* crash, or a DeleteFile that fails, may leave one behind for good, and a
\* download that others are told has succeeded leaves none.
TempFileHasCause ==
    \A c \in Calls : tmp[c] # "absent" =>
        pc[c] \in {"copy", "rename", "deleteErr", "publishErr", "failed"}

\* What downloadFunction leaves on disk, whichever of its steps fails or is cut
\* off by a crash, and whatever earlier failures have left there: a complete
\* file or none at the function's path, and no temporary file of a success.
FilesSound == OnlyCompleteFile /\ TempFileHasCause

\* Every call returns: the owner of a download or start always reaches
\* SubmitResult and each of its followers gets the result.
EveryCallReturns ==
    \A c \in Calls : pc[c] # "arrive" ~> pc[c] \in Finished

=============================================================================
