------------------------ MODULE PrepareInstanceProofs -----------------------
(***************************************************************************)
(* TLAPS proofs about PrepareInstance, for any set of calls, any that may  *)
(* be cancelled and any number of crashes.                                 *)
(***************************************************************************)
EXTENDS PrepareInstance, TLAPS

-----------------------------------------------------------------------------
(* The inductive invariant *)

\* The entries of downloads and startingInstances are those of the calls that
\* are downloading and starting, and there is at most one of each.
Owners ==
    /\ \A c \in Calls : c \in downloading <=> pc[c] \in Downloading
    /\ \A c, d \in downloading : c = d
    /\ \A c \in Calls : c \in starting <=> pc[c] \in Starting
    /\ \A c, d \in starting : c = d

\* A download is renamed when it is complete, and whoever was told of it, or
\* is past it, has a complete file.
Files ==
    /\ file # "partial"
    /\ \A c \in Calls :
          /\ pc[c] = "rename" => tmp[c] = "complete"
          /\ pc[c] \in {"delete", "publish", "start"} \cup Starting => file = "complete"
          /\ dlInbox[c] = "ok" \/ dlResult[c] = "ok" => file = "complete"

\* Besides what NoLostSubscriber says of the calls that wait: between the
\* LoadOrStore and the AddSub of a call the owner may submit its result, but
\* then the result is kept for the call.
Subscribers ==
    /\ NoLostSubscriber
    /\ \A c \in Calls :
          pc[c] = "subscribe" =>
              \/ dlResult[flight[c]] # "none"
              \/ pc[flight[c]] \in Downloading \cup {"publish", "publishErr"}

\* The result of a start reaches calls that wait for that very start, after
\* its instance has been submitted.
Answers ==
    \A c \in Calls :
        /\ stResult[c] # "none" => pc[c] \in Finished
        /\ stInbox[c] # "none" => pc[c] \in Finished \cup {"awaitStart"}
        /\ \A o \in Calls : c \in stSubs[o] =>
              /\ pc[c] \in Finished \cup {"awaitStart"}
              /\ pc[c] = "awaitStart" => flight[c] = o
        /\ pc[c] = "announce" => instances[c] # "none"
        /\ pc[c] = "awaitStart" /\ stInbox[c] = "ok" => instances[flight[c]] # "none"
        /\ pc[c] = "done" => instances[answer[c]] # "none"

-----------------------------------------------------------------------------
\* AddSub and SubmitResult keep the types of the consumers of downloads.
LEMMA DownloadsType ==
  ASSUME Downloads!TypeOK, NEW o \in Calls, NEW c \in Calls, NEW r \in {"ok", "err"},
         Downloads!AddSub(o, c) \/ Downloads!SubmitResult(o, r)
  PROVE  Downloads!TypeOK'
<1> USE DEF Downloads!TypeOK, Downloads!Results
<1>1. CASE Downloads!AddSub(o, c)
  BY <1>1 DEF Downloads!AddSub
<1>2. CASE Downloads!SubmitResult(o, r)
  BY <1>2 DEF Downloads!SubmitResult
<1> QED
  BY <1>1, <1>2

\* AddSub and SubmitResult keep the types of the consumers of starts.
LEMMA StartsType ==
  ASSUME Starts!TypeOK, NEW o \in Calls, NEW c \in Calls, NEW r \in {"ok", "err"},
         Starts!AddSub(o, c) \/ Starts!SubmitResult(o, r)
  PROVE  Starts!TypeOK'
<1> USE DEF Starts!TypeOK, Starts!Results
<1>1. CASE Starts!AddSub(o, c)
  BY <1>1 DEF Starts!AddSub
<1>2. CASE Starts!SubmitResult(o, r)
  BY ZenonT(30), <1>2 DEF Starts!SubmitResult
<1> QED
  BY <1>1, <1>2

\* Type correctness of every step of a call, of cancels, stops and crashes.
LEMMA TypeStep == TypeOK /\ [Next]_vars => TypeOK'
<1> SUFFICES ASSUME TypeOK, [Next]_vars PROVE TypeOK'
  OBVIOUS
<1> USE ConstantsAssumption DEF TypeOK, PCs, Downloading, Starting, Finished,
      callVars, fileVars, mapVars, dlVars, stVars, Goto
<1>a. UNCHANGED dlVars => Downloads!TypeOK'
  BY DEF Downloads!TypeOK, Downloads!Results
<1>b. UNCHANGED stVars => Starts!TypeOK'
  BY DEF Starts!TypeOK, Starts!Results
<1>1. ASSUME NEW c \in Calls, Arrive(c) \/ StatFile(c) PROVE TypeOK'
  BY <1>1, <1>a, <1>b DEF Arrive, StatFile
<1>2. ASSUME NEW c \in Calls, ClaimDownload(c) PROVE TypeOK'
  BY <1>2, <1>a, <1>b DEF ClaimDownload
<1>3. ASSUME NEW c \in Calls, SubscribeDownload(c) PROVE TypeOK'
  <2>1. Downloads!TypeOK'
    BY <1>3, DownloadsType DEF SubscribeDownload
  <2> QED
    BY <1>3, <2>1, <1>b DEF SubscribeDownload
<1>4. ASSUME NEW c \in Calls, AwaitDownload(c) PROVE TypeOK'
  <2>1. Downloads!TypeOK'
    BY <1>4 DEF AwaitDownload, Downloads!TypeOK, Downloads!Results
  <2> QED
    BY <1>4, <2>1, <1>b DEF AwaitDownload
<1>5. ASSUME NEW c \in Calls,
             FetchFunction(c) \/ CopyFunction(c) \/ RenameFunction(c)
      PROVE  TypeOK'
  BY <1>5, <1>a, <1>b DEF FetchFunction, CopyFunction, RenameFunction
<1>6. ASSUME NEW c \in Calls, DeleteDownload(c) PROVE TypeOK'
  BY <1>6, <1>a, <1>b DEF DeleteDownload
<1>7. ASSUME NEW c \in Calls, PublishDownload(c) PROVE TypeOK'
  <2>1. Downloads!TypeOK'
    BY <1>7, DownloadsType DEF PublishDownload
  <2> QED
    BY <1>7, <2>1, <1>b DEF PublishDownload
<1>8. ASSUME NEW c \in Calls, StartOrSubscribe(c) PROVE TypeOK'
  <2>1. Starts!TypeOK'
    BY <1>8, <1>b, StartsType DEF StartOrSubscribe
  <2> QED
    BY <1>8, <2>1, <1>a DEF StartOrSubscribe
<1>9. ASSUME NEW c \in Calls, AwaitStart(c) PROVE TypeOK'
  <2>1. Starts!TypeOK'
    BY <1>9 DEF AwaitStart, Starts!TypeOK, Starts!Results
  <2> QED
    BY <1>9, <2>1, <1>a DEF AwaitStart
<1>10. ASSUME NEW c \in Calls, BootInstance(c) \/ RemoveStarting(c) PROVE TypeOK'
  BY <1>10, <1>a, <1>b DEF BootInstance, RemoveStarting
<1>11. ASSUME NEW c \in Calls, RegisterInstance(c) PROVE TypeOK'
  BY <1>11, <1>a, <1>b DEF RegisterInstance
<1>12. ASSUME NEW c \in Calls, AnnounceStart(c) PROVE TypeOK'
  <2>1. Starts!TypeOK'
    BY <1>12, StartsType DEF AnnounceStart
  <2> QED
    BY <1>12, <2>1, <1>a DEF AnnounceStart
<1>13. ASSUME NEW c \in Calls, Cancel(c) PROVE TypeOK'
  BY <1>13, <1>a, <1>b DEF Cancel
<1>14. ASSUME NEW c \in Calls, StopInstance(c) PROVE TypeOK'
  BY <1>14, <1>a, <1>b DEF StopInstance
<1>15. CASE Crash
  <2>1. Downloads!TypeOK' /\ Starts!TypeOK'
    BY <1>15 DEF Crash, Downloads!TypeOK, Downloads!Results, Starts!TypeOK,
       Starts!Results
  <2> QED
    BY <1>15, <2>1 DEF Crash
<1>16. CASE UNCHANGED vars
  BY <1>16, <1>a, <1>b DEF vars
<1> QED
  BY <1>1, <1>2, <1>3, <1>4, <1>5, <1>6, <1>7, <1>8, <1>9, <1>10, <1>11, <1>12,
     <1>13, <1>14, <1>15, <1>16 DEF Next, CallStep

\* A runner without calls has the types.
LEMMA TypeInit == Init => TypeOK
BY ConstantsAssumption
DEF Init, TypeOK, Downloads!Init, Starts!Init, Downloads!TypeOK, Starts!TypeOK,
    Downloads!Results, Starts!Results, PCs

\* Every variable of the runner and of its calls keeps its type.
THEOREM TypeCorrect == Spec => []TypeOK
BY TypeInit, TypeStep, PTL DEF Spec

-----------------------------------------------------------------------------
(* At most one download and one start *)

\* LoadOrStore claims an entry only when there is none, startingMu does the
\* same for starts, and only the owner takes its entry out.
LEMMA OwnersStep == TypeOK /\ Owners /\ [Next]_vars => Owners'
<1> SUFFICES ASSUME TypeOK, Owners, [Next]_vars PROVE Owners'
  OBVIOUS
<1> USE DEF TypeOK, Owners, Downloading, Starting, Finished,
      callVars, fileVars, mapVars, dlVars, stVars, Goto
<1>1. ASSUME NEW c \in Calls, Arrive(c) \/ StatFile(c) \/ AwaitDownload(c)
      PROVE  Owners'
  BY <1>1 DEF Arrive, StatFile, AwaitDownload
<1>2. ASSUME NEW c \in Calls, ClaimDownload(c) PROVE Owners'
  BY <1>2 DEF ClaimDownload
<1>3. ASSUME NEW c \in Calls, SubscribeDownload(c) \/ PublishDownload(c) PROVE Owners'
  BY <1>3 DEF SubscribeDownload, PublishDownload
<1>4. ASSUME NEW c \in Calls,
             FetchFunction(c) \/ CopyFunction(c) \/ RenameFunction(c)
      PROVE  Owners'
  BY <1>4 DEF FetchFunction, CopyFunction, RenameFunction
<1>5. ASSUME NEW c \in Calls, DeleteDownload(c) PROVE Owners'
  BY <1>5 DEF DeleteDownload
<1>6. ASSUME NEW c \in Calls, StartOrSubscribe(c) PROVE Owners'
  BY <1>6 DEF StartOrSubscribe
<1>7. ASSUME NEW c \in Calls, AwaitStart(c) \/ AnnounceStart(c) PROVE Owners'
  BY <1>7 DEF AwaitStart, AnnounceStart
<1>8. ASSUME NEW c \in Calls, BootInstance(c) \/ RemoveStarting(c) PROVE Owners'
  BY <1>8 DEF BootInstance, RemoveStarting
<1>9. ASSUME NEW c \in Calls, RegisterInstance(c) \/ Cancel(c) \/ StopInstance(c)
      PROVE  Owners'
  BY <1>9 DEF RegisterInstance, Cancel, StopInstance
<1>10. CASE Crash
  BY <1>10 DEF Crash
<1>11. CASE UNCHANGED vars
  BY <1>11 DEF vars
<1> QED
  BY <1>1, <1>2, <1>3, <1>4, <1>5, <1>6, <1>7, <1>8, <1>9, <1>10, <1>11
  DEF Next, CallStep

\* At most one call downloads the function at a time, whatever calls arrive,
\* fail, are cancelled or are cut off by a crash.
THEOREM OneDownload == Spec => []SingleDownload
<1>1. Init => Owners
  BY DEF Init, Owners, Downloading, Starting
<1>2. Owners => SingleDownload
  BY DEF Owners, SingleDownload
<1> QED
  BY <1>1, <1>2, TypeInit, TypeStep, OwnersStep, PTL DEF Spec

\* At most one call starts an instance of the function at a time.
THEOREM OneStart == Spec => []SingleStart
<1>1. Init => Owners
  BY DEF Init, Owners, Downloading, Starting
<1>2. Owners => SingleStart
  BY DEF Owners, SingleStart
<1> QED
  BY <1>1, <1>2, TypeInit, TypeStep, OwnersStep, PTL DEF Spec

\* Downloads and starts are shared by all calls that overlap with them.
THEOREM SharedWork == Spec => []SingleFlight
<1>1. SingleDownload /\ SingleStart => SingleFlight
  BY ZenonT(30) DEF SingleFlight
<1> QED
  BY <1>1, OneDownload, OneStart, PTL

-----------------------------------------------------------------------------
(* Files *)

\* The file appears by the rename of a complete temporary file and is never
\* taken away, so that being told of a download is to have its file.
LEMMA FilesStep == TypeOK /\ Files /\ [Next]_vars => Files'
<1> SUFFICES ASSUME TypeOK, Files, [Next]_vars PROVE Files'
  OBVIOUS
<1> USE DEF TypeOK, Files, Downloading, Starting, Finished,
      Downloads!TypeOK, Downloads!Results,
      callVars, fileVars, mapVars, dlVars, stVars, Goto
<1>1. ASSUME NEW c \in Calls, Arrive(c) \/ StatFile(c) \/ ClaimDownload(c)
      PROVE  Files'
  BY <1>1 DEF Arrive, StatFile, ClaimDownload
<1>2. ASSUME NEW c \in Calls, SubscribeDownload(c) PROVE Files'
  BY <1>2 DEF SubscribeDownload, Downloads!AddSub
<1>3. ASSUME NEW c \in Calls, AwaitDownload(c) PROVE Files'
  BY <1>3 DEF AwaitDownload
<1>4. ASSUME NEW c \in Calls,
             FetchFunction(c) \/ CopyFunction(c) \/ RenameFunction(c)
      PROVE  Files'
  BY <1>4 DEF FetchFunction, CopyFunction, RenameFunction
<1>5. ASSUME NEW c \in Calls, DeleteDownload(c) PROVE Files'
  BY <1>5 DEF DeleteDownload
<1>6. ASSUME NEW c \in Calls, PublishDownload(c) PROVE Files'
  BY <1>6 DEF PublishDownload, Downloads!SubmitResult
<1>7. ASSUME NEW c \in Calls, StartOrSubscribe(c) PROVE Files'
  BY <1>7 DEF StartOrSubscribe
<1>8. ASSUME NEW c \in Calls, AwaitStart(c) \/ AnnounceStart(c) PROVE Files'
  BY <1>8 DEF AwaitStart, AnnounceStart
<1>9. ASSUME NEW c \in Calls, BootInstance(c) \/ RemoveStarting(c) PROVE Files'
  BY <1>9 DEF BootInstance, RemoveStarting
<1>10. ASSUME NEW c \in Calls, RegisterInstance(c) \/ Cancel(c) \/ StopInstance(c)
       PROVE  Files'
  BY <1>10 DEF RegisterInstance, Cancel, StopInstance
<1>11. CASE Crash
  BY <1>11 DEF Crash
<1>12. CASE UNCHANGED vars
  BY <1>12 DEF vars
<1> QED
  BY <1>1, <1>2, <1>3, <1>4, <1>5, <1>6, <1>7, <1>8, <1>9, <1>10, <1>11, <1>12
  DEF Next, CallStep

\* No partial file ever appears under the function's path, and instances are
\* started only from a complete one, crashes included.
THEOREM FileIsComplete == Spec => []OnlyCompleteFile
<1>1. Init => Files
  BY DEF Init, Files, Starting, Downloads!Init
<1>2. Files => OnlyCompleteFile
  BY DEF Files, OnlyCompleteFile
<1> QED
  BY <1>1, <1>2, TypeInit, TypeStep, FilesStep, PTL DEF Spec

-----------------------------------------------------------------------------
(* Subscribers *)

\* The owners that have yet to submit the result of their download, or start.
DownloadOwner == Downloading \cup {"publish", "publishErr"}
StartOwner == Starting \cup {"register", "announce", "announceErr"}

\* A call that moves on without waiting disturbs no subscriber, as long as it
\* does not leave its subscribers without a result.
LEMMA QuietMove ==
  ASSUME TypeOK, Subscribers, NEW c \in Calls, NEW l,
         Goto(c, l), UNCHANGED <<dlSubs, dlResult, stSubs, stResult>>,
         \A d \in Calls \ {c} : /\ flight'[d] = flight[d]
                                /\ dlInbox'[d] = dlInbox[d]
                                /\ stInbox'[d] = stInbox[d],
         l \notin {"subscribe", "awaitDownload", "awaitStart"},
         pc[c] \in DownloadOwner => l \in DownloadOwner,
         pc[c] \in StartOwner => l \in StartOwner
  PROVE  Subscribers'
BY SMTT(30) DEF Goto, TypeOK, Subscribers, NoLostSubscriber, DownloadOwner, StartOwner

\* A call that holds a consumer meets its owner before SubmitResult, which then
\* finds the call registered, or after it, when AddSub finds the result.
LEMMA SubscribersStep ==
  TypeOK /\ Owners /\ Subscribers /\ [Next]_vars => Subscribers'
<1> SUFFICES ASSUME TypeOK, Owners, Subscribers, [Next]_vars PROVE Subscribers'
  OBVIOUS
<1> USE DEF callVars, mapVars, dlVars, stVars
<1> DEFINE Move(c, l) == Goto(c, l) /\ UNCHANGED <<flight, dlVars, stVars>>
<1>1. ASSUME NEW c \in Calls, pc[c] \in {"arrive", "stat", "claim", "start"},
             \E l \in {"stat", "claim", "start", "fetch", "boot", "failed"} : Move(c, l)
      PROVE  Subscribers'
  BY <1>1, QuietMove DEF DownloadOwner, StartOwner, Downloading, Starting
<1>2. ASSUME NEW c \in Calls, pc[c] \in Downloading,
             \E l \in DownloadOwner : Move(c, l)
      PROVE  Subscribers'
  BY <1>2, QuietMove DEF DownloadOwner, StartOwner, Downloading, Starting
<1>3. ASSUME NEW c \in Calls, pc[c] \in StartOwner, \E l \in StartOwner : Move(c, l)
      PROVE  Subscribers'
  BY <1>3, QuietMove DEF DownloadOwner, StartOwner, Downloading, Starting
<1>4. ASSUME NEW c \in Calls, Arrive(c) \/ StatFile(c) PROVE Subscribers'
  BY <1>4, <1>1 DEF Arrive, StatFile
<1>5. ASSUME NEW c \in Calls, ClaimDownload(c) PROVE Subscribers'
  <2>1. CASE Goto(c, "fetch") /\ UNCHANGED flight
    BY <1>5, <2>1, <1>1 DEF ClaimDownload
  <2>2. CASE \E o \in downloading :
                flight' = [flight EXCEPT ![c] = o] /\ Goto(c, "subscribe")
    BY <1>5, <2>2 DEF ClaimDownload, Goto, TypeOK, Owners, Subscribers,
       NoLostSubscriber, Downloading, Starting
  <2> QED
    BY <1>5, <2>1, <2>2 DEF ClaimDownload
<1>6. ASSUME NEW c \in Calls, FetchFunction(c) \/ CopyFunction(c) \/ RenameFunction(c)
      PROVE  Subscribers'
  BY <1>6, <1>2 DEF FetchFunction, CopyFunction, RenameFunction, DownloadOwner,
     Downloading
<1>7. ASSUME NEW c \in Calls, DeleteDownload(c) PROVE Subscribers'
  BY <1>7, <1>2 DEF DeleteDownload, DownloadOwner, Downloading
<1>8. ASSUME NEW c \in Calls, StartOrSubscribe(c) PROVE Subscribers'
  <2>1. CASE (Goto(c, "boot") \/ Goto(c, "failed")) /\ UNCHANGED <<flight, stVars>>
    BY ZenonT(30), <1>8, <2>1, <1>1 DEF StartOrSubscribe
  <2>2. ASSUME NEW o \in starting, Starts!AddSub(o, c),
               flight' = [flight EXCEPT ![c] = o], Goto(c, "awaitStart")
        PROVE  Subscribers'
    BY <1>8, <2>2 DEF StartOrSubscribe, Starts!AddSub, Goto, TypeOK, Owners,
       Starts!TypeOK, Subscribers, NoLostSubscriber, Downloading, Starting
  <2> QED
    BY <1>8, <2>1, <2>2 DEF StartOrSubscribe
<1>9. ASSUME NEW c \in Calls,
             BootInstance(c) \/ RemoveStarting(c) \/ RegisterInstance(c)
      PROVE  Subscribers'
  BY <1>9, <1>3 DEF BootInstance, RemoveStarting, RegisterInstance, StartOwner, Starting
<1>10. ASSUME NEW c \in Calls, AwaitDownload(c) \/ AwaitStart(c) PROVE Subscribers'
  <2>1. \E l \in {"start", "done", "failed"} : Goto(c, l)
    BY <1>10 DEF AwaitDownload, AwaitStart
  <2>2. pc[c] \in {"awaitDownload", "awaitStart"}
    BY <1>10 DEF AwaitDownload, AwaitStart
  <2>3. \A d \in Calls \ {c} : /\ flight'[d] = flight[d]
                               /\ dlInbox'[d] = dlInbox[d]
                               /\ stInbox'[d] = stInbox[d]
    BY <1>10 DEF AwaitDownload, AwaitStart, TypeOK, Downloads!TypeOK, Starts!TypeOK
  <2>4. UNCHANGED <<dlSubs, dlResult, stSubs, stResult>>
    BY <1>10 DEF AwaitDownload, AwaitStart
  <2> QED
    BY <2>1, <2>2, <2>3, <2>4, QuietMove
    DEF DownloadOwner, StartOwner, Downloading, Starting
<1>11. ASSUME NEW c \in Calls, PublishDownload(c) PROVE Subscribers'
  <2> USE DEF PublishDownload, Goto, TypeOK, Downloads!SubmitResult, Downloads!TypeOK,
        Downloads!Results
  <2>1. \A d \in Calls : d # c => pc'[d] = pc[d]
    BY <1>11
  <2>2. /\ pc[c] \in {"publish", "publishErr"} /\ pc'[c] \in {"start", "failed"}
        /\ dlResult'[c] # "none"
    BY <1>11
  <2>3. \A d \in Calls : IF d \in dlSubs[c] THEN dlInbox'[d] # "none"
                                            ELSE dlInbox'[d] = dlInbox[d]
    BY <1>11
  <2>4. \A o \in Calls : o # c => dlSubs'[o] = dlSubs[o] /\ dlResult'[o] = dlResult[o]
    BY <1>11
  <2>5. UNCHANGED <<flight, stVars>> /\ \A d \in Calls : flight[d] \in Calls
    BY <1>11
  <2> HIDE DEF PublishDownload, Goto, TypeOK, Downloads!SubmitResult, Downloads!TypeOK,
        Downloads!Results
  <2> QED
    BY <2>1, <2>2, <2>3, <2>4, <2>5
    DEF Subscribers, NoLostSubscriber, Downloading, Starting
<1>12. ASSUME NEW c \in Calls, AnnounceStart(c) PROVE Subscribers'
  <2> USE DEF AnnounceStart, Goto, TypeOK, Starts!SubmitResult, Starts!TypeOK,
        Starts!Results
  <2>1. \A d \in Calls : d # c => pc'[d] = pc[d]
    BY <1>12
  <2>2. /\ pc[c] \in {"announce", "announceErr"} /\ pc'[c] \in {"done", "failed"}
        /\ stResult'[c] # "none"
    BY <1>12
  <2>3. \A d \in Calls : IF d \in stSubs[c] THEN stInbox'[d] # "none"
                                            ELSE stInbox'[d] = stInbox[d]
    BY <1>12
  <2>4. \A o \in Calls : o # c => stSubs'[o] = stSubs[o] /\ stResult'[o] = stResult[o]
    BY <1>12
  <2>5. UNCHANGED <<flight, dlVars>> /\ \A d \in Calls : flight[d] \in Calls
    BY ZenonT(30), <1>12
  <2> HIDE DEF AnnounceStart, Goto, TypeOK, Starts!SubmitResult, Starts!TypeOK,
        Starts!Results
  <2> QED
    BY <2>1, <2>2, <2>3, <2>4, <2>5
    DEF Subscribers, NoLostSubscriber, Downloading, Starting
<1> USE DEF Goto, TypeOK, Subscribers, NoLostSubscriber, Downloading, Starting,
      Downloads!TypeOK, Downloads!Results, Starts!TypeOK, Starts!Results
<1>13. ASSUME NEW c \in Calls, SubscribeDownload(c) PROVE Subscribers'
  <2>1. CASE dlResult[flight[c]] = "none"
    BY <1>13, <2>1 DEF SubscribeDownload, Downloads!AddSub
  <2>2. CASE dlResult[flight[c]] # "none"
    BY <1>13, <2>2 DEF SubscribeDownload, Downloads!AddSub
  <2> QED
    BY <2>1, <2>2
<1>14. ASSUME NEW c \in Calls, Cancel(c) \/ StopInstance(c) PROVE Subscribers'
  BY <1>14 DEF Cancel, StopInstance
<1>15. CASE Crash
  BY <1>15 DEF Crash, Finished
<1>16. CASE UNCHANGED vars
  BY <1>16 DEF vars
<1> QED
  BY ZenonT(30), <1>4, <1>5, <1>6, <1>7, <1>8, <1>9, <1>10, <1>11, <1>12, <1>13, <1>14, <1>15,
     <1>16 DEF Next, CallStep

\* No subscriber is lost, for any number of calls.
THEOREM NoSubscriberLost == Spec => []NoLostSubscriber
<1>1. Init => Owners /\ Subscribers
  BY ZenonT(30), SMTT(30) DEF Init, Owners, Subscribers, NoLostSubscriber, Downloading, Starting
<1>2. Subscribers => NoLostSubscriber
  BY DEF Subscribers
<1> QED
  BY <1>1, <1>2, TypeInit, TypeStep, OwnersStep, SubscribersStep, PTL DEF Spec

-----------------------------------------------------------------------------
(* Answers *)

\* An instance enters instanceStates before its start is announced, and those
\* who are told of the start are those who wait for it.
LEMMA AnswersStep ==
  TypeOK /\ Owners /\ Answers /\ [Next]_vars => Answers'
<1> SUFFICES ASSUME TypeOK, Owners, Answers, [Next]_vars PROVE Answers'
  OBVIOUS
<1> USE DEF TypeOK, Owners, Answers, Starting, Downloading, Finished,
      Starts!TypeOK, Starts!Results,
      callVars, fileVars, mapVars, dlVars, stVars, Goto
<1>1. ASSUME NEW c \in Calls, Arrive(c) \/ StatFile(c) PROVE Answers'
  BY <1>1 DEF Arrive, StatFile
<1>2. ASSUME NEW c \in Calls, ClaimDownload(c) PROVE Answers'
  BY <1>2 DEF ClaimDownload
<1>3. ASSUME NEW c \in Calls, SubscribeDownload(c) PROVE Answers'
  BY <1>3 DEF SubscribeDownload
<1>4. ASSUME NEW c \in Calls, AwaitDownload(c) PROVE Answers'
  BY <1>4 DEF AwaitDownload
<1>5. ASSUME NEW c \in Calls, FetchFunction(c) \/ CopyFunction(c) \/ RenameFunction(c)
      PROVE  Answers'
  BY <1>5 DEF FetchFunction, CopyFunction, RenameFunction
<1>6. ASSUME NEW c \in Calls, DeleteDownload(c) PROVE Answers'
  BY <1>6 DEF DeleteDownload
<1>7. ASSUME NEW c \in Calls, PublishDownload(c) PROVE Answers'
  BY <1>7 DEF PublishDownload
<1>8. ASSUME NEW c \in Calls, StartOrSubscribe(c) PROVE Answers'
  BY SMTT(30), <1>8 DEF StartOrSubscribe, Starts!AddSub
<1>9. ASSUME NEW c \in Calls, AwaitStart(c) PROVE Answers'
  BY <1>9 DEF AwaitStart
<1>10. ASSUME NEW c \in Calls, BootInstance(c) \/ RemoveStarting(c)
      PROVE  Answers'
  BY <1>10 DEF BootInstance, RemoveStarting
<1>11. ASSUME NEW c \in Calls, RegisterInstance(c) PROVE Answers'
  BY <1>11 DEF RegisterInstance
<1>12. ASSUME NEW c \in Calls, AnnounceStart(c) PROVE Answers'
  BY SMTT(30), <1>12 DEF AnnounceStart, Starts!SubmitResult
<1>13. ASSUME NEW c \in Calls, Cancel(c) \/ StopInstance(c) PROVE Answers'
  BY <1>13 DEF Cancel, StopInstance
<1>14. CASE Crash
  BY <1>14 DEF Crash
<1>15. CASE UNCHANGED vars
  BY <1>15 DEF vars
<1> QED
  BY ZenonT(30), <1>1, <1>2, <1>3, <1>4, <1>5, <1>6, <1>7, <1>8, <1>9, <1>10, <1>11, <1>12,
     <1>13, <1>14, <1>15 DEF Next, CallStep

\* Every instance id a call returns had been submitted to instanceStates.
THEOREM AnswersAreSubmitted == Spec => []AnsweredWasSubmitted
<1>1. Init => Owners /\ Answers
  BY DEF Init, Owners, Answers, Downloading, Starting, Starts!Init
<1>2. Answers => AnsweredWasSubmitted
  BY DEF Answers, AnsweredWasSubmitted
<1> QED
  BY <1>1, <1>2, TypeInit, TypeStep, OwnersStep, AnswersStep, PTL DEF Spec

-----------------------------------------------------------------------------
(* Temporary files *)

\* The only way out of downloadFunction that keeps the temporary file is the
\* error path with a failing DeleteFile, which ends in a failed call, as a crash
\* does.
LEMMA TempFileStep ==
  TypeOK /\ TempFileHasCause /\ [Next]_vars => TempFileHasCause'
<1> SUFFICES ASSUME TypeOK, TempFileHasCause, [Next]_vars PROVE TempFileHasCause'
  OBVIOUS
<1> USE DEF TypeOK, TempFileHasCause, Downloading, Starting, Finished,
      callVars, fileVars, mapVars, dlVars, stVars, Goto
<1>1. ASSUME NEW c \in Calls, Arrive(c) \/ StatFile(c) PROVE TempFileHasCause'
  BY <1>1 DEF Arrive, StatFile
<1>2. ASSUME NEW c \in Calls, ClaimDownload(c) PROVE TempFileHasCause'
  BY <1>2 DEF ClaimDownload
<1>3. ASSUME NEW c \in Calls, SubscribeDownload(c) \/ PublishDownload(c)
      PROVE  TempFileHasCause'
  BY <1>3 DEF SubscribeDownload, PublishDownload
<1>4. ASSUME NEW c \in Calls, AwaitDownload(c) PROVE TempFileHasCause'
  BY <1>4 DEF AwaitDownload
<1>5. ASSUME NEW c \in Calls, FetchFunction(c) PROVE TempFileHasCause'
  BY <1>5 DEF FetchFunction
<1>6. ASSUME NEW c \in Calls, CopyFunction(c) \/ RenameFunction(c)
      PROVE  TempFileHasCause'
  BY <1>6 DEF CopyFunction, RenameFunction
<1>7. ASSUME NEW c \in Calls, DeleteDownload(c) PROVE TempFileHasCause'
  BY <1>7 DEF DeleteDownload
<1>8. ASSUME NEW c \in Calls, StartOrSubscribe(c) PROVE TempFileHasCause'
  BY <1>8 DEF StartOrSubscribe
<1>9. ASSUME NEW c \in Calls, AwaitStart(c) \/ AnnounceStart(c)
      PROVE  TempFileHasCause'
  BY <1>9 DEF AwaitStart, AnnounceStart
<1>10. ASSUME NEW c \in Calls, BootInstance(c) \/ RemoveStarting(c)
      PROVE  TempFileHasCause'
  BY <1>10 DEF BootInstance, RemoveStarting
<1>11. ASSUME NEW c \in Calls, RegisterInstance(c) \/ Cancel(c) \/ StopInstance(c)
      PROVE  TempFileHasCause'
  BY <1>11 DEF RegisterInstance, Cancel, StopInstance
<1>12. CASE Crash
  BY <1>12, ConstantsAssumption DEF Crash
<1>13. CASE UNCHANGED vars
  BY <1>13 DEF vars
<1> QED
  BY ZenonT(30), <1>1, <1>2, <1>3, <1>4, <1>5, <1>6, <1>7, <1>8, <1>9, <1>10, <1>11, <1>12,
     <1>13 DEF Next, CallStep

\* A temporary file that outlives its download is one of a call that fails.
THEOREM TempFilesHaveCause == Spec => []TempFileHasCause
<1>1. Init => TempFileHasCause
  BY DEF Init, TempFileHasCause
<1> QED
  BY <1>1, TypeInit, TypeStep, TempFileStep, PTL DEF Spec

\* Whatever fails in downloadFunction, the deletion of the temporary file
\* included, and wherever the runner crashes: the function's path holds a
\* complete file or none, instances start from a complete one, and a temporary
\* file is left only by a call that failed.
THEOREM FilesAreSound == Spec => []FilesSound
<1>1. OnlyCompleteFile /\ TempFileHasCause => FilesSound
  BY DEF FilesSound
<1> QED
  BY <1>1, FileIsComplete, TempFilesHaveCause, PTL

-----------------------------------------------------------------------------
(* Progress *)

\* A bound on the steps a call has before it returns.
StepsLeft(l) ==
    IF l = "arrive" THEN 14
    ELSE IF l = "stat" THEN 13
    ELSE IF l = "claim" THEN 12
    ELSE IF l \in {"subscribe", "fetch"} THEN 11
    ELSE IF l = "copy" THEN 10
    ELSE IF l = "rename" THEN 9
    ELSE IF l \in {"delete", "deleteErr"} THEN 8
    ELSE IF l \in {"awaitDownload", "publish", "publishErr"} THEN 7
    ELSE IF l = "start" THEN 6
    ELSE IF l = "boot" THEN 5
    ELSE IF l \in {"submit", "removeErr"} THEN 4
    ELSE IF l = "register" THEN 3
    ELSE IF l \in {"awaitStart", "announce", "announceErr"} THEN 2
    ELSE 1

\* The call is under way and a step of its own is possible: it does not wait,
\* or what it waits for is there.
CanMove(c) ==
    /\ pc[c] \notin Finished \cup {"arrive"}
    /\ pc[c] = "awaitDownload" => dlInbox[c] # "none" \/ cancelled[c]
    /\ pc[c] = "awaitStart" => stInbox[c] # "none"

\* Calls never wait for each other in a circle, nor for a call that is gone.
NoStandstill ==
    (\E c \in Calls : pc[c] \notin Finished \cup {"arrive"}) => \E c \in Calls : CanMove(c)

\* Every step of a call brings it closer to its return; no error path and no
\* crash sends it back.
LEMMA MoveOnStep ==
    ASSUME TypeOK, [Next]_vars, NEW d \in Calls, pc'[d] # pc[d]
    PROVE  StepsLeft(pc'[d]) < StepsLeft(pc[d])
<1> DEFINE Closer == StepsLeft(pc'[d]) < StepsLeft(pc[d])
<1> USE DEF TypeOK, StepsLeft, Goto, PCs, Downloading, Starting, Finished
<1>1. ASSUME NEW c \in Calls, Arrive(c) \/ StatFile(c) \/ ClaimDownload(c) PROVE Closer
  BY <1>1 DEF Arrive, StatFile, ClaimDownload
<1>2. ASSUME NEW c \in Calls, SubscribeDownload(c) \/ AwaitDownload(c) PROVE Closer
  BY <1>2 DEF SubscribeDownload, AwaitDownload
<1>3. ASSUME NEW c \in Calls, FetchFunction(c) \/ CopyFunction(c) \/ RenameFunction(c) PROVE Closer
  BY <1>3 DEF FetchFunction, CopyFunction, RenameFunction
<1>4. ASSUME NEW c \in Calls, DeleteDownload(c) \/ PublishDownload(c) PROVE Closer
  BY <1>4 DEF DeleteDownload, PublishDownload
<1>5. ASSUME NEW c \in Calls, StartOrSubscribe(c) \/ AwaitStart(c) \/ BootInstance(c) PROVE Closer
  BY <1>5 DEF StartOrSubscribe, AwaitStart, BootInstance
<1>6. ASSUME NEW c \in Calls, RemoveStarting(c) \/ RegisterInstance(c) \/ AnnounceStart(c) PROVE Closer
  BY <1>6 DEF RemoveStarting, RegisterInstance, AnnounceStart
<1>7. CASE Crash
  BY <1>7 DEF Crash
<1>8. (\E c \in Calls : Cancel(c) \/ StopInstance(c)) \/ UNCHANGED vars => UNCHANGED pc
  BY DEF Cancel, StopInstance, callVars, vars
<1> QED
  BY ZenonT(30), <1>1, <1>2, <1>3, <1>4, <1>5, <1>6, <1>7, <1>8 DEF Next, CallStep

\* One half of EveryCallReturns: a call takes at most thirteen steps.
THEOREM CallsMoveOn ==
    Spec => [][\A c \in Calls : pc'[c] # pc[c] => StepsLeft(pc'[c]) < StepsLeft(pc[c])]_vars
<1>1. TypeOK /\ [Next]_vars =>
        [\A c \in Calls : pc'[c] # pc[c] => StepsLeft(pc'[c]) < StepsLeft(pc[c])]_vars
  BY MoveOnStep
<1> QED
  BY <1>1, TypeCorrect, PTL DEF Spec

\* The other half: as long as a call is under way, one that need not wait is,
\* because whoever waits is registered with a call that has its result to
\* submit.
THEOREM SomeCallCanMove == Spec => []NoStandstill
<1>1. TypeOK /\ NoLostSubscriber => NoStandstill
  <2> SUFFICES ASSUME TypeOK, NoLostSubscriber, NEW c \in Calls,
                      pc[c] \notin Finished \cup {"arrive"}, ~CanMove(c)
               PROVE  CanMove(flight[c])
    BY DEF NoStandstill, TypeOK
  <2>1. \/ pc[c] = "awaitDownload" /\ dlInbox[c] = "none"
        \/ pc[c] = "awaitStart" /\ stInbox[c] = "none"
    BY DEF CanMove
  <2>2. pc[flight[c]] \in DownloadOwner \cup StartOwner
    BY <2>1 DEF NoLostSubscriber, DownloadOwner, StartOwner
  <2> QED
    BY <2>2 DEF CanMove, DownloadOwner, StartOwner, Downloading, Starting, Finished
<1> QED
  BY <1>1, TypeCorrect, NoSubscriberLost, PTL
=============================================================================
