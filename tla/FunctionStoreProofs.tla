------------------------ MODULE FunctionStoreProofs -------------------------
(***************************************************************************)
(* TLAPS proofs about FunctionStore, for any requests, binaries, names and *)
(* numbers of retries and restarts.                                        *)
(***************************************************************************)
EXTENDS FunctionStore, TLAPS

-----------------------------------------------------------------------------
(* The inductive invariant *)

\* A row has the path of its own binary, a file is found under the path of the
\* upload that created it, an upload writes to a file it has opened, and a
\* download that has found a row has its path.
Places ==
    /\ \A b \in Binaries : rows[b] # None =>
          \E n \in Names : rows[b] = functionFilename(n, b)
    /\ \A p \in Paths : disk[p] # None => Path(disk[p]) = p
    /\ \A u \in Uploads : pc[u] = "write" => file[u] \in Uploads
    /\ \A d \in Downloads : pc[d] \in {"openBinary", "copy"} =>
          target[d] \in Paths /\ target[d] = rows[bytes[d]]

\* An upload that was answered 201 has a row.
Stored == \A u \in Uploads : pc[u] = "created" => rows[bytes[u]] # None

\* A path that two uploads never saved at the same time: its upload has the
\* file to itself from the open to the insert, and after the insert nobody
\* saves it again, because the hash has a row.
Saved ==
    /\ \A u, v \in Uploads :
          /\ Path(u) = Path(v) /\ pc[u] \in Saving /\ pc[v] \in Saving
          /\ Path(u) \notin overlapped
          => u = v
    /\ \A u \in Uploads : Path(u) \notin overlapped =>
          /\ pc[u] = "write" => disk[Path(u)] = file[u]
          /\ pc[u] = "insert" => disk[Path(u)] \in written
    /\ \A b \in Binaries, u \in Uploads :
          rows[b] = Path(u) /\ pc[u] \in Saving => Path(u) \in overlapped
    /\ RowHasFile

\* A download reads the file that the row leads to, and has nothing before.
Read ==
    /\ \A d \in Downloads :
          /\ pc[d] = "copy" /\ target[d] \notin overlapped =>
                file[d] \in written /\ file[d] = disk[target[d]]
          /\ got[d] = "nothing" \/ pc[d] = "served"
    /\ ShortOnlyIfOverlapped

-----------------------------------------------------------------------------
(* Paths *)

\* A function has a path, no path is None, and paths of different binaries are
\* different: functionFilename ends with the hash.
LEMMA PathFacts ==
  /\ \A n \in Names, b \in Binaries : functionFilename(n, b) \in Paths
  /\ None \notin Paths
  /\ \A n, m \in Names, b, c \in Binaries :
        functionFilename(n, b) = functionFilename(m, c) => b = c
BY ConstantsAssumption DEF Paths, functionFilename, sanitizeFilename

-----------------------------------------------------------------------------
(* Steps that leave the store alone *)

\* The states and answers of an upload that explain a file without a row.
Cause == Saving \cup {"leftFile", "lost"}

\* Requests that begin, try again or give up, and the steps of the process.
Quiet ==
    \/ \E r \in Requests : Retry(r) \/ GiveUp(r)
    \/ \E u \in Uploads : CreateFunction(u)
    \/ \E d \in Downloads : DownloadFunctionBinary(d)
    \/ CloseDB \/ Exit \/ Restart \/ UNCHANGED vars

\* What all of those have in common.
LeavesStore ==
    /\ UNCHANGED <<name, bytes, file, target, got, disk, written, rows, overlapped>>
    /\ \A r \in Requests :
          /\ pc[r] \in Cause => pc'[r] \in Cause
          /\ pc'[r] # pc[r] =>
                /\ pc[r] \notin {"served", "created", "conflict"}
                /\ pc'[r] \in {"rejected", "failed", "exists", "byId", "leftFile", "lost"}

\* Quiet steps leave the store alone.
LEMMA QuietFacts == TypeOK /\ Quiet => LeavesStore
<1> SUFFICES ASSUME TypeOK, Quiet PROVE LeavesStore
  OBVIOUS
<1> USE DEF TypeOK, LeavesStore, Cause, Saving, DBCalls, Active, Requests, diskVars,
      procVars, Goto
<1>1. ASSUME NEW r \in Requests, Retry(r) \/ GiveUp(r) PROVE LeavesStore
  BY <1>1 DEF Retry, GiveUp
<1>2. ASSUME NEW u \in Uploads, CreateFunction(u) PROVE LeavesStore
  BY <1>2 DEF CreateFunction
<1>3. ASSUME NEW d \in Downloads, DownloadFunctionBinary(d) PROVE LeavesStore
  BY <1>3 DEF DownloadFunctionBinary
<1>4. CASE CloseDB \/ Restart \/ UNCHANGED vars
  BY <1>4 DEF CloseDB, Restart, vars
<1>5. CASE Exit
  BY <1>5 DEF Exit
<1> QED
  BY <1>1, <1>2, <1>3, <1>4, <1>5 DEF Quiet

\* What a download does to the uploads and the store: nothing.
LEMMA DownloadFacts ==
  ASSUME TypeOK, NEW d \in Downloads,
         FunctionByID(d) \/ OpenBinary(d) \/ CopyBinary(d)
  PROVE  /\ UNCHANGED <<name, bytes, disk, written, rows, overlapped>>
         /\ \A u \in Uploads : pc'[u] = pc[u] /\ file'[u] = file[u]
BY SMTT(30), ConstantsAssumption
DEF TypeOK, FunctionByID, OpenBinary, CopyBinary, Goto, Requests, diskVars

-----------------------------------------------------------------------------
(* Types *)

\* Every step of a request and of the process keeps the types.
LEMMA TypeOKStep ==
  TypeOK /\ Places /\ [Next]_vars => TypeOK'
<1> SUFFICES ASSUME TypeOK, Places, [Next]_vars PROVE TypeOK'
  OBVIOUS
<1>a. \A u \in Uploads : Path(u) \in Paths
  BY PathFacts DEF TypeOK, Path, Requests
<1> USE DEF TypeOK, Requests, Active, Saving, DBCalls, Answers, diskVars, procVars, Goto
<1>1. ASSUME NEW r \in Requests, Retry(r) \/ GiveUp(r) PROVE TypeOK'
  BY <1>1, ConstantsAssumption DEF Retry, GiveUp
<1>2. ASSUME NEW u \in Uploads, CreateFunction(u) PROVE TypeOK'
  BY <1>2 DEF CreateFunction
<1>3. ASSUME NEW u \in Uploads, FunctionExistsByHash(u) PROVE TypeOK'
  BY <1>3, <1>a, ConstantsAssumption DEF FunctionExistsByHash
<1>4. ASSUME NEW u \in Uploads, OpenFile(u) PROVE TypeOK'
  BY <1>4, <1>a DEF OpenFile
<1>5. ASSUME NEW u \in Uploads, WriteFile(u) PROVE TypeOK'
  BY <1>5 DEF WriteFile, Places
<1>6. ASSUME NEW u \in Uploads, DeleteFile(u) PROVE TypeOK'
  BY <1>6, <1>a DEF DeleteFile
<1>7. ASSUME NEW u \in Uploads, InsertFunction(u) PROVE TypeOK'
  BY <1>7, <1>a, ConstantsAssumption DEF InsertFunction
<1>8. ASSUME NEW d \in Downloads, DownloadFunctionBinary(d) PROVE TypeOK'
  BY <1>8 DEF DownloadFunctionBinary
<1>9. ASSUME NEW d \in Downloads, FunctionByID(d) PROVE TypeOK'
  <2>1. rows[bytes[d]] \in Paths \cup {None}
    OBVIOUS
  <2> QED
    BY <1>9, <2>1, ConstantsAssumption DEF FunctionByID
<1>10. ASSUME NEW d \in Downloads, OpenBinary(d) PROVE TypeOK'
  <2>1. pc[d] = "openBinary" => disk[target[d]] \in Uploads \cup {None}
    BY DEF Places
  <2> QED
    BY <1>10, <2>1 DEF OpenBinary
<1>11. ASSUME NEW d \in Downloads, CopyBinary(d) PROVE TypeOK'
  BY <1>11 DEF CopyBinary
<1>12. CASE CloseDB
  BY <1>12 DEF CloseDB
<1>13. CASE Exit
  BY <1>13 DEF Exit
<1>14. CASE Restart
  BY <1>14, ConstantsAssumption DEF Restart
<1>15. CASE UNCHANGED vars
  BY <1>15 DEF vars
<1> QED
  BY ZenonT(30), <1>1, <1>2, <1>3, <1>4, <1>5, <1>6, <1>7, <1>8, <1>9, <1>10, <1>11, <1>12,
     <1>13, <1>14, <1>15 DEF Next, Upload, Download, Requests

-----------------------------------------------------------------------------
(* Answers *)

\* The 201 follows the insert, and rows stay.
LEMMA StoredStep ==
  TypeOK /\ Stored /\ [Next]_vars => Stored'
<1> SUFFICES ASSUME TypeOK, Stored, [Next]_vars PROVE Stored'
  OBVIOUS
<1> USE DEF TypeOK, Stored, Requests, Saving, diskVars, procVars, Goto
<1>1. CASE Quiet
  BY <1>1, QuietFacts DEF LeavesStore
<1>2. ASSUME NEW u \in Uploads, FunctionExistsByHash(u) PROVE Stored'
  BY <1>2 DEF FunctionExistsByHash
<1>3. ASSUME NEW u \in Uploads, OpenFile(u) PROVE Stored'
  BY <1>3 DEF OpenFile
<1>4. ASSUME NEW u \in Uploads, WriteFile(u) PROVE Stored'
  BY <1>4 DEF WriteFile
<1>5. ASSUME NEW u \in Uploads, DeleteFile(u) PROVE Stored'
  BY <1>5 DEF DeleteFile
<1>6. ASSUME NEW u \in Uploads, InsertFunction(u) PROVE Stored'
  <2>1. Path(u) # None
    BY PathFacts DEF Path
  <2> QED
    BY <1>6, <2>1 DEF InsertFunction
<1>7. ASSUME NEW d \in Downloads,
             FunctionByID(d) \/ OpenBinary(d) \/ CopyBinary(d)
      PROVE  Stored'
  BY <1>7, DownloadFacts
<1> QED
  BY <1>1, <1>2, <1>3, <1>4, <1>5, <1>6, <1>7
  DEF Next, Upload, Download, Requests, Quiet

\* The hash is unique in the table, so of two inserts of a binary one fails.
LEMMA OneCreatedStep ==
  TypeOK /\ Stored /\ OneCreated /\ [Next]_vars => OneCreated'
<1> SUFFICES ASSUME TypeOK, Stored, OneCreated, [Next]_vars PROVE OneCreated'
  OBVIOUS
<1> USE DEF TypeOK, Stored, OneCreated, Requests, Saving, diskVars, procVars, Goto
<1>1. CASE Quiet
  BY <1>1, QuietFacts DEF LeavesStore
<1>2. ASSUME NEW u \in Uploads, FunctionExistsByHash(u) PROVE OneCreated'
  BY <1>2 DEF FunctionExistsByHash
<1>3. ASSUME NEW u \in Uploads, OpenFile(u) PROVE OneCreated'
  BY <1>3 DEF OpenFile
<1>4. ASSUME NEW u \in Uploads, WriteFile(u) PROVE OneCreated'
  BY <1>4 DEF WriteFile
<1>5. ASSUME NEW u \in Uploads, DeleteFile(u) PROVE OneCreated'
  BY <1>5 DEF DeleteFile
<1>6. ASSUME NEW u \in Uploads, InsertFunction(u) PROVE OneCreated'
  BY <1>6 DEF InsertFunction
<1>7. ASSUME NEW d \in Downloads,
             FunctionByID(d) \/ OpenBinary(d) \/ CopyBinary(d)
      PROVE  OneCreated'
  BY SMTT(30), <1>7, DownloadFacts
<1> QED
  BY <1>1, <1>2, <1>3, <1>4, <1>5, <1>6, <1>7
  DEF Next, Upload, Download, Requests, Quiet

\* A conflict is answered for a row that is there, and rows stay.
LEMMA ConflictMeansStoredStep ==
  TypeOK /\ ConflictMeansStored /\ [Next]_vars => ConflictMeansStored'
<1> SUFFICES ASSUME TypeOK, ConflictMeansStored, [Next]_vars PROVE ConflictMeansStored'
  OBVIOUS
<1> USE DEF TypeOK, ConflictMeansStored, Requests, Saving, diskVars, procVars, Goto
<1>1. CASE Quiet
  BY <1>1, QuietFacts DEF LeavesStore
<1>2. ASSUME NEW u \in Uploads, FunctionExistsByHash(u) PROVE ConflictMeansStored'
  BY <1>2 DEF FunctionExistsByHash
<1>3. ASSUME NEW u \in Uploads, OpenFile(u) PROVE ConflictMeansStored'
  BY <1>3 DEF OpenFile
<1>4. ASSUME NEW u \in Uploads, WriteFile(u) PROVE ConflictMeansStored'
  BY <1>4 DEF WriteFile
<1>5. ASSUME NEW u \in Uploads, DeleteFile(u) PROVE ConflictMeansStored'
  BY <1>5 DEF DeleteFile
<1>6. ASSUME NEW u \in Uploads, InsertFunction(u) PROVE ConflictMeansStored'
  BY <1>6 DEF InsertFunction
<1>7. ASSUME NEW d \in Downloads,
             FunctionByID(d) \/ OpenBinary(d) \/ CopyBinary(d)
      PROVE  ConflictMeansStored'
  BY SMTT(30), <1>7, DownloadFacts
<1> QED
  BY <1>1, <1>2, <1>3, <1>4, <1>5, <1>6, <1>7
  DEF Next, Upload, Download, Requests, Quiet

-----------------------------------------------------------------------------
(* Places *)

\* Files are created under the path of their upload, rows are inserted with the
\* path of their hash and stay.
LEMMA PlacesStep ==
  TypeOK /\ Places /\ [Next]_vars => Places'
<1> SUFFICES ASSUME TypeOK, Places, [Next]_vars PROVE Places'
  OBVIOUS
<1>a. \A u \in Uploads : name[u] \in Names /\ bytes[u] \in Binaries /\ Path(u) \in Paths
  BY PathFacts DEF TypeOK, Path, Requests
<1> USE DEF TypeOK, Places, Requests, Saving, diskVars, procVars, Goto,
      Path
<1>1. CASE Quiet
  BY <1>1, QuietFacts DEF LeavesStore
<1>2. ASSUME NEW u \in Uploads, FunctionExistsByHash(u) PROVE Places'
  BY <1>2 DEF FunctionExistsByHash
<1>3. ASSUME NEW u \in Uploads, OpenFile(u) PROVE Places'
  BY <1>3, <1>a, ConstantsAssumption DEF OpenFile
<1>4. ASSUME NEW u \in Uploads, WriteFile(u) PROVE Places'
  BY <1>4 DEF WriteFile
<1>5. ASSUME NEW u \in Uploads, DeleteFile(u) PROVE Places'
  BY <1>5, <1>a, PathFacts DEF DeleteFile
<1>6. ASSUME NEW u \in Uploads, InsertFunction(u) PROVE Places'
  <2>1. /\ \A r \in Requests : pc'[r] = pc[r] \/ pc'[r] \in {"created", "leftFile"}
        /\ \A b \in Binaries : \/ rows'[b] = rows[b]
                               \/ b = bytes[u] /\ rows[b] = None /\ rows'[b] = Path(u)
        /\ UNCHANGED <<name, bytes, file, disk, target>>
    BY <1>6 DEF InsertFunction
  <2> HIDE DEF TypeOK
  <2>2. \A d \in Downloads : d \in Requests /\ bytes[d] \in Binaries
    BY DEF TypeOK
  <2>3. None \notin Paths
    BY PathFacts
  <2> QED
    BY <1>a, <2>1, <2>2, <2>3
<1>7. ASSUME NEW d \in Downloads, FunctionByID(d) PROVE Places'
  BY <1>7 DEF FunctionByID
<1>8. ASSUME NEW d \in Downloads, OpenBinary(d) PROVE Places'
  BY <1>8 DEF OpenBinary
<1>9. ASSUME NEW d \in Downloads, CopyBinary(d) PROVE Places'
  BY <1>9 DEF CopyBinary
<1> QED
  BY ZenonT(30), <1>1, <1>2, <1>3, <1>4, <1>5, <1>6, <1>7, <1>8, <1>9
  DEF Next, Upload, Download, Requests, Quiet

-----------------------------------------------------------------------------
(* Orphans *)

\* A step that changes neither files nor rows and takes no upload out of Cause
\* leaves every file explained.
LEMMA StillExplained ==
  ASSUME OrphanHasCause, UNCHANGED <<name, bytes, disk, rows>>,
         \A u \in Uploads : pc[u] \in Cause => pc'[u] \in Cause
  PROVE  OrphanHasCause'
BY DEF OrphanHasCause, Path, Cause

\* Whoever leaves Saving has removed the file, has inserted its row or has an
\* answer that says the file may be there.
LEMMA OrphanHasCauseStep ==
  TypeOK /\ OrphanHasCause /\ [Next]_vars => OrphanHasCause'
<1> SUFFICES ASSUME TypeOK, OrphanHasCause, [Next]_vars PROVE OrphanHasCause'
  OBVIOUS
<1> USE DEF TypeOK, Cause, Requests, Saving, diskVars, procVars, Goto
<1>1. CASE Quiet
  BY <1>1, QuietFacts, StillExplained DEF LeavesStore
<1>2. ASSUME NEW u \in Uploads, FunctionExistsByHash(u) PROVE OrphanHasCause'
  <2>1. \A v \in Uploads : pc[v] \in Cause => pc'[v] \in Cause
    BY <1>2 DEF FunctionExistsByHash
  <2> QED
    BY <1>2, <2>1, StillExplained DEF FunctionExistsByHash
<1>3. ASSUME NEW u \in Uploads, OpenFile(u) PROVE OrphanHasCause'
  <2>1. /\ Path(u) \in Paths /\ pc[u] = "open" /\ pc'[u] \in {"write", "remove"}
        /\ \A v \in Uploads : pc[v] \in Cause => pc'[v] \in Cause
        /\ \A p \in Paths : p # Path(u) => disk'[p] = disk[p]
        /\ UNCHANGED <<name, bytes, rows>>
    BY <1>3, PathFacts DEF OpenFile, Path
  <2> QED
    BY <2>1 DEF OrphanHasCause, Path, Cause
<1>4. ASSUME NEW u \in Uploads, WriteFile(u) PROVE OrphanHasCause'
  <2>1. \A v \in Uploads : pc[v] \in Cause => pc'[v] \in Cause
    BY <1>4 DEF WriteFile
  <2> QED
    BY <1>4, <2>1, StillExplained DEF WriteFile
<1>5. ASSUME NEW u \in Uploads, DeleteFile(u) PROVE OrphanHasCause'
  <2>1. CASE pc' = [pc EXCEPT ![u] = "leftFile"] /\ UNCHANGED disk
    <3>1. \A v \in Uploads : pc[v] \in Cause => pc'[v] \in Cause
      BY <2>1
    <3> QED
      BY <1>5, <2>1, <3>1, StillExplained DEF DeleteFile
  <2>2. CASE disk' = [disk EXCEPT ![Path(u)] = None] /\ pc' = [pc EXCEPT ![u] = "failed"]
    <3>1. /\ \A p \in Paths : disk'[p] # None => p # Path(u) /\ disk'[p] = disk[p]
          /\ \A v \in Uploads : v # u => pc'[v] = pc[v]
          /\ UNCHANGED <<name, bytes, rows>>
      BY <1>5, <2>2 DEF DeleteFile
    <3> QED
      BY <3>1 DEF OrphanHasCause, Path
  <2> QED
    BY <1>5, <2>1, <2>2 DEF DeleteFile
<1>6. ASSUME NEW u \in Uploads, InsertFunction(u) PROVE OrphanHasCause'
  <2>1. CASE pc' = [pc EXCEPT ![u] = "leftFile"]
    <3>1. /\ \A v \in Uploads : pc[v] \in Cause => pc'[v] \in Cause
          /\ \A b \in Binaries : rows[b] # None => rows'[b] = rows[b]
          /\ UNCHANGED <<name, bytes, disk>>
      BY <1>6, <2>1 DEF InsertFunction
    <3>2. \A p \in Paths :
             (\A b \in Binaries : rows'[b] # p) => \A b \in Binaries : rows[b] # p
      BY ZenonT(30), <3>1, PathFacts
    <3> QED
      BY <3>1, <3>2 DEF OrphanHasCause, Path, Cause
  <2>2. CASE pc' = [pc EXCEPT ![u] = "created"] /\ rows[bytes[u]] = None
             /\ rows' = [rows EXCEPT ![bytes[u]] = Path(u)]
    <3>1. /\ bytes[u] \in Binaries /\ rows'[bytes[u]] = Path(u)
          /\ \A v \in Uploads : v # u => pc'[v] = pc[v]
          /\ \A b \in Binaries : rows[b] # None => rows'[b] = rows[b]
          /\ UNCHANGED <<name, bytes, disk>>
      BY <1>6, <2>2 DEF InsertFunction
    <3>2. \A p \in Paths :
             (\A b \in Binaries : rows'[b] # p) => \A b \in Binaries : rows[b] # p
      BY ZenonT(30), <3>1, PathFacts
    <3> QED
      BY <3>1, <3>2 DEF OrphanHasCause, Path
  <2> QED
    BY <1>6, <2>1, <2>2 DEF InsertFunction
<1>7. ASSUME NEW d \in Downloads,
             FunctionByID(d) \/ OpenBinary(d) \/ CopyBinary(d)
      PROVE  OrphanHasCause'
  BY <1>7, DownloadFacts, StillExplained
<1> QED
  BY <1>1, <1>2, <1>3, <1>4, <1>5, <1>6, <1>7
  DEF Next, Upload, Download, Requests, Quiet

-----------------------------------------------------------------------------
(* Saves *)

\* A step that changes neither files nor rows, and after which no upload saves
\* that did not before, leaves every path as saved as it was.
LEMMA StillSaved ==
  ASSUME TypeOK, Saved, UNCHANGED <<name, bytes, disk, written, rows>>,
         overlapped \subseteq overlapped',
         \A u \in Uploads : file'[u] = file[u] /\ (pc'[u] \in Saving => pc'[u] = pc[u])
  PROVE  Saved'
BY DEF Saved, RowHasFile, Path, Saving

\* As long as uploads to a path do not overlap, one of them has the file to
\* itself until its row is there, and none follows.
LEMMA SavedStep ==
  TypeOK /\ Places /\ Saved /\ [Next]_vars => Saved'
<1> SUFFICES ASSUME TypeOK, Places, Saved, [Next]_vars PROVE Saved'
  OBVIOUS
<1>a. \A u \in Uploads : name[u] \in Names /\ bytes[u] \in Binaries /\ Path(u) \in Paths
  BY PathFacts DEF TypeOK, Path, Requests
<1> USE DEF TypeOK, Requests, Saving, diskVars, procVars, Goto
<1>1. CASE Quiet
  BY <1>1, QuietFacts, StillSaved DEF LeavesStore
<1>2. ASSUME NEW u \in Uploads, FunctionExistsByHash(u) PROVE Saved'
  <2>1. CASE rows[bytes[u]] # None
    <3>1. \A v \in Uploads : file'[v] = file[v] /\ (pc'[v] \in Saving => pc'[v] = pc[v])
      BY <1>2, <2>1 DEF FunctionExistsByHash
    <3> QED
      BY <1>2, <2>1, <3>1, StillSaved DEF FunctionExistsByHash
  <2>2. CASE rows[bytes[u]] = None
    <3>1. /\ pc[u] = "exists" /\ pc'[u] = "open"
          /\ \A v \in Uploads : v # u => pc'[v] = pc[v]
          /\ UNCHANGED <<name, bytes, file, disk, written, rows>>
      BY <1>2, <2>2 DEF FunctionExistsByHash
    <3>2. /\ overlapped \subseteq overlapped'
          /\ \A v \in Uploads : v # u /\ pc[v] \in Saving /\ Path(v) = Path(u) =>
                Path(u) \in overlapped'
      BY <1>2, <2>2 DEF FunctionExistsByHash
    <3>3. ASSUME NEW b \in Binaries, rows[b] = Path(u) PROVE FALSE
      <4>1. rows[b] # None
        BY <1>a, <3>3, PathFacts
      <4>2. PICK n \in Names :
               functionFilename(n, b) = functionFilename(name[u], bytes[u])
        BY <3>3, <4>1 DEF Places, Path
      <4>3. b = bytes[u]
        BY <1>a, <4>2, PathFacts
      <4> QED
        BY <2>2, <4>1, <4>3
    <3> QED
      BY <3>1, <3>2, <3>3 DEF Saved, RowHasFile, Path
  <2> QED
    BY <2>1, <2>2
<1>3. ASSUME NEW u \in Uploads, OpenFile(u) PROVE Saved'
  <2>1. CASE pc' = [pc EXCEPT ![u] = "remove"] /\ UNCHANGED <<file, diskVars>>
    <3>1. /\ pc[u] = "open" /\ pc'[u] = "remove"
          /\ \A v \in Uploads : v # u => pc'[v] = pc[v]
          /\ UNCHANGED <<name, bytes, file, disk, written, rows, overlapped>>
      BY <1>3, <2>1 DEF OpenFile
    <3> QED
      BY <3>1 DEF Saved, RowHasFile, Path
  <2>2. ASSUME NEW f, f = IF disk[Path(u)] = None THEN u ELSE disk[Path(u)],
               file' = [file EXCEPT ![u] = f], disk' = [disk EXCEPT ![Path(u)] = f],
               written' = written \ {f}, pc' = [pc EXCEPT ![u] = "write"]
        PROVE  Saved'
    <3>1. f \in Uploads /\ Path(f) = Path(u)
      BY <1>a, <2>2 DEF Places
    <3>2. \A p \in Paths : p # Path(u) /\ disk[p] \in written =>
             disk'[p] = disk[p] /\ disk'[p] \in written'
      BY <1>a, <2>2, <3>1, ConstantsAssumption DEF Places
    <3>3. /\ pc[u] = "open" /\ pc'[u] = "write"
          /\ \A v \in Uploads : v # u => pc'[v] = pc[v] /\ file'[v] = file[v]
          /\ disk'[Path(u)] = f /\ file'[u] = f
          /\ \A p \in Paths : p # Path(u) => disk'[p] = disk[p]
          /\ UNCHANGED <<name, bytes, rows, overlapped>>
      BY <1>3, <1>a, <2>2 DEF OpenFile
    <3>4. \A v \in Uploads : Path(v)' = Path(v) /\ (pc'[v] \in Saving <=> pc[v] \in Saving)
      BY <3>3 DEF Path
    <3>5. \A v, w \in Uploads :
             /\ Path(v)' = Path(w)' /\ pc'[v] \in Saving /\ pc'[w] \in Saving
             /\ Path(v)' \notin overlapped'
             => v = w
      BY <3>3, <3>4 DEF Saved
    <3>6. ASSUME NEW v \in Uploads, Path(v)' \notin overlapped'
          PROVE  /\ pc'[v] = "write" => disk'[Path(v)'] = file'[v]
                 /\ pc'[v] = "insert" => disk'[Path(v)'] \in written'
      <4>1. CASE v = u
        BY <3>3, <3>4, <4>1
      <4>2. CASE v # u
        <5>1. pc[v] \in Saving => Path(v) # Path(u)
          BY <3>3, <3>4, <3>6, <4>2 DEF Saved
        <5> QED
          BY <1>a, <3>2, <3>3, <3>4, <3>6, <4>2, <5>1 DEF Saved
      <4> QED
        BY <4>1, <4>2
    <3>7. \A b \in Binaries, v \in Uploads :
             rows'[b] = Path(v)' /\ pc'[v] \in Saving => Path(v)' \in overlapped'
      BY <3>3, <3>4 DEF Saved
    <3>8. RowHasFile'
      BY <3>2, <3>3 DEF Saved, RowHasFile
    <3> QED
      BY <3>5, <3>6, <3>7, <3>8 DEF Saved
  <2> QED
    BY ZenonT(30), <1>3, <2>1, <2>2 DEF OpenFile
<1>4. ASSUME NEW u \in Uploads, WriteFile(u) PROVE Saved'
  <2>1. /\ pc[u] = "write" /\ pc'[u] \in {"insert", "remove"}
        /\ pc'[u] = "insert" => file[u] \in written'
        /\ written \subseteq written'
        /\ \A v \in Uploads : v # u => pc'[v] = pc[v]
        /\ UNCHANGED <<name, bytes, file, disk, rows, overlapped>>
    BY <1>4 DEF WriteFile
  <2> QED
    BY <1>a, <2>1 DEF Saved, RowHasFile, Path
<1>5. ASSUME NEW u \in Uploads, DeleteFile(u) PROVE Saved'
  <2>1. /\ pc[u] = "remove" /\ pc'[u] \notin Saving
        /\ \A v \in Uploads : v # u => pc'[v] = pc[v]
        /\ \A p \in Paths : p # Path(u) => disk'[p] = disk[p]
        /\ UNCHANGED <<name, bytes, file, written, rows, overlapped>>
    BY <1>5 DEF DeleteFile
  <2> QED
    BY ZenonT(60), <1>a, <2>1 DEF Saved, RowHasFile, Path
<1>6. ASSUME NEW u \in Uploads, InsertFunction(u) PROVE Saved'
  <2>1. /\ pc[u] = "insert" /\ pc'[u] \notin Saving
        /\ \A v \in Uploads : v # u => pc'[v] = pc[v]
        /\ \A b \in Binaries : rows'[b] = rows[b] \/ rows'[b] = Path(u)
        /\ UNCHANGED <<name, bytes, file, disk, written, overlapped>>
    BY <1>6 DEF InsertFunction
  <2> QED
    BY <1>a, <2>1 DEF Saved, RowHasFile, Path
<1>7. ASSUME NEW d \in Downloads,
             FunctionByID(d) \/ OpenBinary(d) \/ CopyBinary(d)
      PROVE  Saved'
  BY SMTT(30), <1>7, DownloadFacts, StillSaved
<1> QED
  BY <1>1, <1>2, <1>3, <1>4, <1>5, <1>6, <1>7
  DEF Next, Upload, Download, Requests, Quiet

-----------------------------------------------------------------------------
(* Downloads *)

\* A step of another request that leaves the written files of saved rows alone
\* leaves a download what it reads.
LEMMA StillRead ==
  ASSUME Read, UNCHANGED <<target, got>>, overlapped \subseteq overlapped',
         \A d \in Downloads :
            /\ pc'[d] = "copy" => pc[d] = "copy" /\ file'[d] = file[d]
            /\ pc[d] = "served" => pc'[d] = "served",
         \A d \in Downloads :
            pc[d] = "copy" /\ target[d] \notin overlapped /\ disk[target[d]] \in written =>
                disk'[target[d]] = disk[target[d]] /\ disk[target[d]] \in written'
  PROVE  Read'
BY DEF Read, ShortOnlyIfOverlapped

\* A file that a row leads to is neither cut nor removed while a download
\* reads it, as long as uploads to its path do not overlap.
LEMMA ReadStep ==
  TypeOK /\ Places /\ Saved /\ Read /\ [Next]_vars => Read'
<1> SUFFICES ASSUME TypeOK, Places, Saved, Read, [Next]_vars PROVE Read'
  OBVIOUS
<1>a. \A u \in Uploads : name[u] \in Names /\ bytes[u] \in Binaries /\ Path(u) \in Paths
  BY PathFacts DEF TypeOK, Path, Requests
<1> USE DEF TypeOK, Requests, Saving, diskVars, procVars, Goto
<1>1. CASE Quiet
  BY <1>1, QuietFacts, StillRead DEF LeavesStore
<1>2. ASSUME NEW u \in Uploads, FunctionExistsByHash(u) PROVE Read'
  <2>1. UNCHANGED <<target, got>> /\ overlapped \subseteq overlapped'
    BY <1>2 DEF FunctionExistsByHash
  <2>2. \A e \in Downloads :
           /\ pc'[e] = "copy" => pc[e] = "copy" /\ file'[e] = file[e]
           /\ pc[e] = "served" => pc'[e] = "served"
    BY <1>2, ConstantsAssumption DEF FunctionExistsByHash
  <2>3. disk' = disk /\ written \subseteq written'
    BY <1>2 DEF FunctionExistsByHash
  <2> QED
    BY <2>1, <2>2, <2>3, StillRead
<1>3. ASSUME NEW u \in Uploads, OpenFile(u) PROVE Read'
  <2>1. UNCHANGED <<target, got, overlapped>>
    BY <1>3 DEF OpenFile
  <2>2. \A d \in Downloads :
           /\ pc'[d] = "copy" => pc[d] = "copy" /\ file'[d] = file[d]
           /\ pc[d] = "served" => pc'[d] = "served"
    BY SMTT(30), <1>3, ConstantsAssumption DEF OpenFile
  <2>3. ASSUME NEW d \in Downloads, pc[d] = "copy", target[d] \notin overlapped,
               disk[target[d]] \in written
        PROVE  disk'[target[d]] = disk[target[d]] /\ disk[target[d]] \in written'
    <3>1. target[d] \in Paths /\ target[d] # Path(u)
      BY <1>3, <1>a, <2>3 DEF OpenFile, Places, Saved
    <3> QED
      BY <1>3, <1>a, <2>3, <3>1, ConstantsAssumption DEF OpenFile, Places
  <2> QED
    BY <2>1, <2>2, <2>3, StillRead
<1>4. ASSUME NEW u \in Uploads, WriteFile(u) PROVE Read'
  <2>1. UNCHANGED <<target, got>> /\ overlapped \subseteq overlapped'
    BY <1>4 DEF WriteFile
  <2>2. \A e \in Downloads :
           /\ pc'[e] = "copy" => pc[e] = "copy" /\ file'[e] = file[e]
           /\ pc[e] = "served" => pc'[e] = "served"
    BY <1>4, ConstantsAssumption DEF WriteFile
  <2>3. disk' = disk /\ written \subseteq written'
    BY <1>4 DEF WriteFile
  <2> QED
    BY <2>1, <2>2, <2>3, StillRead
<1>5. ASSUME NEW u \in Uploads, DeleteFile(u) PROVE Read'
  <2>1. UNCHANGED <<target, got, overlapped>>
    BY <1>5 DEF DeleteFile
  <2>2. \A d \in Downloads :
           /\ pc'[d] = "copy" => pc[d] = "copy" /\ file'[d] = file[d]
           /\ pc[d] = "served" => pc'[d] = "served"
    BY <1>5, ConstantsAssumption DEF DeleteFile
  <2>3. ASSUME NEW d \in Downloads, pc[d] = "copy", target[d] \notin overlapped,
               disk[target[d]] \in written
        PROVE  disk'[target[d]] = disk[target[d]] /\ disk[target[d]] \in written'
    <3>1. target[d] \in Paths /\ target[d] # Path(u)
      BY <1>5, <1>a, <2>3 DEF DeleteFile, Places, Saved
    <3> QED
      BY <1>5, <1>a, <2>3, <3>1, ConstantsAssumption DEF DeleteFile
  <2> QED
    BY <2>1, <2>2, <2>3, StillRead
<1>6. ASSUME NEW u \in Uploads, InsertFunction(u) PROVE Read'
  <2>1. UNCHANGED <<target, got>> /\ overlapped \subseteq overlapped'
    BY <1>6 DEF InsertFunction
  <2>2. \A e \in Downloads :
           /\ pc'[e] = "copy" => pc[e] = "copy" /\ file'[e] = file[e]
           /\ pc[e] = "served" => pc'[e] = "served"
    BY <1>6, ConstantsAssumption DEF InsertFunction
  <2>3. disk' = disk /\ written \subseteq written'
    BY <1>6 DEF InsertFunction
  <2> QED
    BY <2>1, <2>2, <2>3, StillRead
<1>7. ASSUME NEW d \in Downloads, FunctionByID(d) PROVE Read'
  BY <1>7 DEF FunctionByID, Places, Read, ShortOnlyIfOverlapped
<1>8. ASSUME NEW d \in Downloads, OpenBinary(d) PROVE Read'
  BY <1>8 DEF OpenBinary, Places, Saved, RowHasFile, Read, ShortOnlyIfOverlapped
<1>9. ASSUME NEW d \in Downloads, CopyBinary(d) PROVE Read'
  BY <1>9 DEF CopyBinary, Read, ShortOnlyIfOverlapped
<1> QED
  BY <1>1, <1>2, <1>3, <1>4, <1>5, <1>6, <1>7, <1>8, <1>9
  DEF Next, Upload, Download, Requests, Quiet

-----------------------------------------------------------------------------
(* The theorems *)

Inv == TypeOK /\ Places /\ Stored /\ Saved /\ Read

\* An empty store without requests.
LEMMA InvInit == Init => Inv
<1> SUFFICES ASSUME Init PROVE Inv
  OBVIOUS
<1>1. TypeOK
  BY ConstantsAssumption DEF Init, TypeOK, Active, Saving, DBCalls, Answers
<1>2. Places /\ Stored /\ Read
  BY DEF Init, Places, Stored, Read, ShortOnlyIfOverlapped, Requests
<1>3. Saved
  BY PathFacts DEF Init, Saved, RowHasFile, Saving, Requests
<1> QED
  BY <1>1, <1>2, <1>3 DEF Inv

\* Every step keeps all of it.
LEMMA InvStep == Inv /\ [Next]_vars => Inv'
BY TypeOKStep, PlacesStep, StoredStep, SavedStep, ReadStep DEF Inv

\* The variables keep their types.
THEOREM StoreTypeCorrect == Spec => []TypeOK
<1>1. Inv => TypeOK
  BY DEF Inv
<1> QED
  BY <1>1, InvInit, InvStep, PTL DEF Spec

\* The row of a function leads to a file with all its bytes, across failures,
\* crashes and restarts, unless uploads to its path overlapped.
THEOREM RowsHaveFiles == Spec => []RowHasFile
<1>1. Inv => RowHasFile
  BY DEF Inv, Saved
<1> QED
  BY <1>1, InvInit, InvStep, PTL DEF Spec

\* No download is answered 200 with a binary that was cut short, unless uploads
\* to its path overlapped.
THEOREM DownloadsAreWhole == Spec => []ShortOnlyIfOverlapped
<1>1. Inv => ShortOnlyIfOverlapped
  BY DEF Inv, Read
<1> QED
  BY <1>1, InvInit, InvStep, PTL DEF Spec

\* However uploads of a binary interleave, at most one is answered 201.
THEOREM CreatedOnce == Spec => []OneCreated
<1>1. Init => OneCreated
  BY DEF Init, OneCreated, Requests
<1>2. Inv /\ OneCreated /\ [Next]_vars => OneCreated'
  BY OneCreatedStep DEF Inv
<1> QED
  BY <1>1, <1>2, InvInit, InvStep, PTL DEF Spec

\* A 409 is only answered for a binary that has a row.
THEOREM ConflictsAreStored == Spec => []ConflictMeansStored
<1>1. Init => ConflictMeansStored
  BY DEF Init, ConflictMeansStored, Requests
<1>2. Inv /\ ConflictMeansStored /\ [Next]_vars => ConflictMeansStored'
  BY ConflictMeansStoredStep DEF Inv
<1> QED
  BY <1>1, <1>2, InvInit, InvStep, PTL DEF Spec

\* What uploads are told of their binary is true.
THEOREM UploadsAreTold == Spec => []AnswersAreTrue
<1>1. OneCreated /\ ConflictMeansStored => AnswersAreTrue
  BY DEF AnswersAreTrue
<1> QED
  BY <1>1, CreatedOnce, ConflictsAreStored, PTL

\* Every file without a row has an upload that explains it.
THEOREM OrphansAreExplained == Spec => []OrphanHasCause
<1>1. Init => OrphanHasCause
  BY DEF Init, OrphanHasCause
<1>2. Inv /\ OrphanHasCause /\ [Next]_vars => OrphanHasCause'
  BY OrphanHasCauseStep DEF Inv
<1> QED
  BY <1>1, <1>2, InvInit, InvStep, PTL DEF Spec

-----------------------------------------------------------------------------
(* The store implements the catalog *)

AnswersOf == [r \in Requests |-> AnswerOf(pc[r])]
StoredOf == {b \in Binaries : rows[b] # None}

\* A request that moves on and is not answered shows the catalog nothing.
LEMMA StillPending ==
  ASSUME TypeOK, UNCHANGED <<bytes, rows>>, NEW r \in Requests, NEW l \in Active,
         pc[r] \in {"idle"} \cup Active, pc' = [pc EXCEPT ![r] = l]
  PROVE  UNCHANGED Catalog!vars
<1>1. AnswersOf' = AnswersOf
  BY DEF AnswersOf, AnswerOf, TypeOK
<1> QED
  BY <1>1 DEF Catalog!vars, AnswersOf

\* A request that is answered replies to the catalog's client.
LEMMA Replies ==
  ASSUME TypeOK, UNCHANGED bytes, NEW r \in Requests, NEW l \in Answers,
         pc[r] \in {"idle"} \cup Active, pc' = [pc EXCEPT ![r] = l]
  PROVE  Catalog!Reply(r, AnswerOf(l))
<1>1. AnswersOf[r] = "none"
  BY DEF AnswersOf, AnswerOf
<1>2. AnswersOf' = [AnswersOf EXCEPT ![r] = AnswerOf(l)]
  BY ZenonT(30) DEF AnswersOf, TypeOK
<1> QED
  BY <1>1, <1>2 DEF Catalog!Reply, AnswersOf

\* Requests that end without an answer of the store fail in the catalog.
LEMMA Fails ==
  ASSUME TypeOK, UNCHANGED <<bytes, rows>>,
         \A r \in Requests : \/ pc'[r] = pc[r]
                             \/ pc[r] \in {"idle"} \cup Active /\ AnswerOf(pc'[r]) = "error"
  PROVE  Catalog!Fail
<1> DEFINE S == {r \in Requests : AnswersOf[r] = "none" /\ AnswersOf'[r] = "error"}
<1>1. S \in SUBSET {r \in Requests : AnswersOf[r] = "none"}
  OBVIOUS
<1>2. \A r \in Requests : AnswersOf'[r] = IF r \in S THEN "error" ELSE AnswersOf[r]
  BY DEF AnswersOf, AnswerOf
<1>3. AnswersOf' = [r \in Requests |-> IF r \in S THEN "error" ELSE AnswersOf[r]]
  BY <1>2 DEF AnswersOf
<1>4. UNCHANGED <<bytes, StoredOf>>
  BY DEF StoredOf
<1> HIDE DEF S
<1> QED
  BY ZenonT(30), <1>1, <1>3, <1>4
  DEF Catalog!Fail, Catalog!Requests, AnswersOf, StoredOf, Requests

\* The insert that finds no row is the moment at which a binary is stored.
LEMMA InsertCreates ==
  ASSUME TypeOK, NEW u \in Uploads, InsertFunction(u), rows[bytes[u]] = None
  PROVE  Catalog!Create(u)
<1>1. bytes[u] \in Binaries /\ u \in Requests /\ Path(u) \in Paths
  BY PathFacts DEF TypeOK, Path, Requests
<1>2. StoredOf' = StoredOf \cup {bytes[u]} /\ bytes[u] \notin StoredOf
  BY <1>1, PathFacts DEF InsertFunction, StoredOf, TypeOK
<1>3. PICK l \in {"created", "leftFile"} : pc' = [pc EXCEPT ![u] = l]
  BY DEF InsertFunction, Goto
<1>4. pc[u] \in Active /\ UNCHANGED bytes /\ l \in Answers
  BY DEF InsertFunction, Active, Saving, Answers
<1>5. Catalog!Reply(u, AnswerOf(l))
  BY ZenonT(30), <1>1, <1>3, <1>4, Replies
<1>6. AnswerOf("created") = "created" /\ AnswerOf("leftFile") = "error"
  BY DEF AnswerOf, Active, Saving, DBCalls
<1>7. Catalog!Reply(u, "created") \/ Catalog!Reply(u, "error")
  BY <1>5, <1>6
<1> QED
  BY <1>2, <1>7 DEF Catalog!Create, StoredOf

\* Every step of the store is one step of the catalog, or none.
LEMMA CatalogStep == Inv /\ [Next]_vars => [Catalog!Next]_(Catalog!vars)
<1> SUFFICES ASSUME TypeOK, Places, [Next]_vars
             PROVE  Catalog!Next \/ UNCHANGED Catalog!vars
  BY DEF Inv
<1>a. Uploads \subseteq Requests /\ Downloads \subseteq Requests
  BY DEF Requests
<1>b. /\ \A l \in {"created", "conflict", "served", "notFound"} : AnswerOf(l) = l
      /\ \A l \in {"rejected", "failed", "leftFile", "lost"} : AnswerOf(l) = "error"
  BY DEF AnswerOf, Active, Saving, DBCalls
<1>c. {"exists", "open", "write", "remove", "insert", "byId", "openBinary", "copy"} \subseteq Active
  BY DEF Active, Saving, DBCalls
<1>1. CASE CloseDB \/ Restart \/ UNCHANGED vars
  BY <1>1 DEF CloseDB, Restart, vars, Catalog!vars
<1>2. CASE Exit
  <2>1. UNCHANGED <<bytes, rows>>
    BY <1>2 DEF Exit
  <2>2. \A r \in Requests : pc'[r] = pc[r] \/ (pc[r] \in Active /\ pc'[r] = "lost")
    BY <1>2 DEF Exit
  <2> QED
    BY <1>b, <2>1, <2>2, Fails DEF Catalog!Next
<1>3. ASSUME NEW r \in Requests, Retry(r) PROVE UNCHANGED Catalog!vars
  BY <1>3 DEF Retry, Catalog!vars
<1>4. ASSUME NEW r \in Requests, GiveUp(r) PROVE Catalog!Next
  <2>1. UNCHANGED <<bytes, rows>> /\ pc[r] \in Active
    BY <1>4 DEF GiveUp, Active
  <2>2. \A s \in Requests : pc'[s] = pc[s] \/ (s = r /\ pc'[s] \in {"leftFile", "failed"})
    BY <1>4 DEF GiveUp, Goto, TypeOK
  <2> QED
    BY <1>b, <2>1, <2>2, Fails DEF Catalog!Next
<1>5. ASSUME NEW r \in Requests,
             \/ r \in Uploads /\ CreateFunction(r)
             \/ r \in Downloads /\ DownloadFunctionBinary(r)
      PROVE  Catalog!Next \/ UNCHANGED Catalog!vars
  <2>1. /\ UNCHANGED <<bytes, rows>> /\ pc[r] = "idle"
        /\ \E l \in {"rejected", "failed", "exists", "byId"} : pc' = [pc EXCEPT ![r] = l]
    BY <1>5 DEF CreateFunction, DownloadFunctionBinary, Goto
  <2>2. CASE \E l \in {"exists", "byId"} : pc' = [pc EXCEPT ![r] = l]
    BY ZenonT(30), <1>c, <2>1, <2>2, StillPending
  <2>3. CASE \E l \in {"rejected", "failed"} : pc' = [pc EXCEPT ![r] = l]
    <3>1. \A s \in Requests : pc'[s] = pc[s] \/ (s = r /\ pc'[s] \in {"rejected", "failed"})
      BY <2>3 DEF TypeOK
    <3> QED
      BY <1>b, <2>1, <3>1, Fails DEF Catalog!Next
  <2> QED
    BY ZenonT(30), <2>1, <2>2, <2>3
<1>6. ASSUME NEW u \in Uploads, FunctionExistsByHash(u)
      PROVE  Catalog!Next \/ UNCHANGED Catalog!vars
  <2>1. UNCHANGED <<bytes, rows>> /\ pc[u] \in Active
    BY <1>6, <1>c DEF FunctionExistsByHash
  <2>2. CASE rows[bytes[u]] # None
    <3>1. Catalog!Reply(u, "conflict")
      BY <1>6, <1>a, <1>b, <2>1, <2>2, Replies DEF FunctionExistsByHash, Goto, Answers
    <3>2. bytes[u] \in StoredOf /\ UNCHANGED StoredOf
      BY <1>a, <2>1, <2>2 DEF StoredOf, TypeOK
    <3> QED
      BY <3>1, <3>2 DEF Catalog!Conflict, Catalog!Next, StoredOf
  <2>3. CASE rows[bytes[u]] = None
    BY <1>6, <1>a, <1>c, <2>1, <2>3, StillPending DEF FunctionExistsByHash, Goto
  <2> QED
    BY <2>2, <2>3
<1>7. ASSUME NEW u \in Uploads, OpenFile(u) \/ WriteFile(u) PROVE UNCHANGED Catalog!vars
  <2>1. /\ UNCHANGED <<bytes, rows>> /\ pc[u] \in Active
        /\ \E l \in {"write", "remove", "insert"} : pc' = [pc EXCEPT ![u] = l]
    BY <1>7, <1>c DEF OpenFile, WriteFile, Goto
  <2> QED
    BY ZenonT(30), <1>a, <1>c, <2>1, StillPending
<1>8. ASSUME NEW u \in Uploads, DeleteFile(u) PROVE Catalog!Next
  <2>1. UNCHANGED <<bytes, rows>> /\ pc[u] \in Active
    BY <1>8, <1>c DEF DeleteFile
  <2>2. \A s \in Requests : pc'[s] = pc[s] \/ (s = u /\ pc'[s] \in {"leftFile", "failed"})
    BY <1>8 DEF DeleteFile, Goto, TypeOK
  <2> QED
    BY <1>b, <2>1, <2>2, Fails DEF Catalog!Next
<1>9. ASSUME NEW u \in Uploads, InsertFunction(u) PROVE Catalog!Next
  <2>1. CASE rows[bytes[u]] = None
    BY <1>9, <2>1, InsertCreates DEF Catalog!Next
  <2>2. CASE rows[bytes[u]] # None
    <3>1. UNCHANGED <<bytes, rows>> /\ pc[u] \in Active
      BY ZenonT(30), <1>9, <1>c, <2>2 DEF InsertFunction
    <3>2. \A s \in Requests : pc'[s] = pc[s] \/ (s = u /\ pc'[s] = "leftFile")
      BY <1>9, <2>2 DEF InsertFunction, Goto, TypeOK
    <3> QED
      BY <1>b, <3>1, <3>2, Fails DEF Catalog!Next
  <2> QED
    BY <2>1, <2>2
<1>10. ASSUME NEW d \in Downloads, FunctionByID(d)
       PROVE  Catalog!Next \/ UNCHANGED Catalog!vars
  <2>1. UNCHANGED <<bytes, rows>> /\ pc[d] \in Active
    BY <1>10, <1>c DEF FunctionByID
  <2>2. CASE rows[bytes[d]] = None
    <3>1. Catalog!Reply(d, "notFound")
      BY <1>10, <1>a, <1>b, <2>1, <2>2, Replies DEF FunctionByID, Goto, Answers
    <3>2. bytes[d] \notin StoredOf /\ UNCHANGED StoredOf
      BY <2>1, <2>2 DEF StoredOf
    <3> QED
      BY ZenonT(30), <3>1, <3>2 DEF Catalog!NotFound, Catalog!Next, StoredOf
  <2>3. CASE rows[bytes[d]] # None
    BY <1>10, <1>a, <1>c, <2>1, <2>3, StillPending DEF FunctionByID, Goto
  <2> QED
    BY <2>2, <2>3
<1>11. ASSUME NEW d \in Downloads, OpenBinary(d)
       PROVE  Catalog!Next \/ UNCHANGED Catalog!vars
  <2>1. UNCHANGED <<bytes, rows>> /\ pc[d] \in Active
    BY <1>11, <1>c DEF OpenBinary
  <2>2. CASE pc' = [pc EXCEPT ![d] = "copy"]
    BY ZenonT(30), <1>a, <1>c, <2>1, <2>2, StillPending
  <2>3. CASE pc' = [pc EXCEPT ![d] = "failed"]
    <3>1. \A s \in Requests : pc'[s] = pc[s] \/ (s = d /\ pc'[s] = "failed")
      BY <2>3 DEF TypeOK
    <3> QED
      BY <1>b, <2>1, <3>1, Fails DEF Catalog!Next
  <2> QED
    BY ZenonT(30), <1>11, <2>2, <2>3 DEF OpenBinary, Goto
<1>12. ASSUME NEW d \in Downloads, CopyBinary(d) PROVE Catalog!Next
  <2>1. UNCHANGED <<bytes, rows>> /\ pc[d] \in Active
    BY <1>12, <1>c DEF CopyBinary
  <2>2. Catalog!Reply(d, "served")
    BY ZenonT(30), <1>12, <1>a, <1>b, <2>1, Replies DEF CopyBinary, Goto, Answers
  <2>3. bytes[d] \in StoredOf /\ UNCHANGED StoredOf
    BY <1>12, <1>a, <2>1, PathFacts DEF CopyBinary, Places, StoredOf, TypeOK
  <2> QED
    BY <2>2, <2>3 DEF Catalog!Serve, Catalog!Next, StoredOf
<1> QED
  BY <1>a, <1>1, <1>2, <1>3, <1>4, <1>5, <1>6, <1>7, <1>8, <1>9, <1>10, <1>11, <1>12
     DEF Next, Upload, Download

\* The checks, saves, inserts and reads of concurrent requests, with retries,
\* shutdown, crashes and restarts between them, amount to single steps on a
\* growing set of binaries.
THEOREM ImplementsCatalog == Spec => CatalogSpec
<1>1. Init => Catalog!Init
  BY DEF Init, Catalog!Init, Catalog!Requests, Requests, AnswerOf
<1> QED
  BY <1>1, InvInit, InvStep, CatalogStep, PTL DEF Spec, CatalogSpec, Catalog!Spec

-----------------------------------------------------------------------------
(* Progress *)

\* A bound on the states a request goes through before it is answered.
StepsLeft(l) ==
    IF l = "idle" THEN 6
    ELSE IF l \in {"exists", "byId"} THEN 5
    ELSE IF l \in {"open", "openBinary"} THEN 4
    ELSE IF l \in {"write", "copy"} THEN 3
    ELSE IF l \in {"remove", "insert"} THEN 2
    ELSE 1

\* The request has come closer to its answer, or has used up a try.
Closer(r) ==
    \/ StepsLeft(pc'[r]) < StepsLeft(pc[r])
    \/ pc'[r] = pc[r] /\ tries'[r] > tries[r]

\* Whatever moves a request brings it closer to its answer: nothing but
\* WithRetry repeats a step.
LEMMA MoveOnStep ==
    ASSUME TypeOK, [Next]_vars, NEW s \in Requests, pc'[s] # pc[s] \/ tries'[s] # tries[s]
    PROVE  Closer(s)
<1> USE DEF TypeOK, Closer, StepsLeft, Goto, Requests, DBCalls, Saving, Active, Answers
<1>1. ASSUME NEW r \in Requests, Retry(r) PROVE Closer(s)
  BY <1>1, ConstantsAssumption DEF Retry
<1>2. ASSUME NEW r \in Requests, GiveUp(r) PROVE Closer(s)
  BY <1>2 DEF GiveUp
<1>3. ASSUME NEW u \in Uploads, CreateFunction(u) \/ FunctionExistsByHash(u) PROVE Closer(s)
  BY <1>3 DEF CreateFunction, FunctionExistsByHash
<1>4. ASSUME NEW u \in Uploads, OpenFile(u) \/ WriteFile(u) \/ DeleteFile(u) PROVE Closer(s)
  BY <1>4 DEF OpenFile, WriteFile, DeleteFile
<1>5. ASSUME NEW u \in Uploads, InsertFunction(u) PROVE Closer(s)
  BY <1>5 DEF InsertFunction
<1>6. ASSUME NEW d \in Downloads, DownloadFunctionBinary(d) \/ FunctionByID(d) PROVE Closer(s)
  BY <1>6 DEF DownloadFunctionBinary, FunctionByID
<1>7. ASSUME NEW d \in Downloads, OpenBinary(d) \/ CopyBinary(d) PROVE Closer(s)
  BY <1>7 DEF OpenBinary, CopyBinary
<1>8. CASE Exit
  BY <1>8 DEF Exit
<1>9. CloseDB \/ Restart \/ UNCHANGED vars => UNCHANGED <<pc, tries>>
  BY DEF CloseDB, Restart, vars
<1> QED
  BY ZenonT(30), <1>1, <1>2, <1>3, <1>4, <1>5, <1>6, <1>7, <1>8, <1>9 DEF Next, Upload, Download

\* The safety half of RequestsEnd: a request goes through at most five states
\* with at most MaxRetries tries in each, across shutdowns, crashes and
\* restarts, and no failure starts it again.
THEOREM RequestsMoveOn ==
    Spec => [][\A r \in Requests : pc'[r] # pc[r] \/ tries'[r] # tries[r] => Closer(r)]_vars
<1>1. TypeOK /\ [Next]_vars =>
        [\A r \in Requests : pc'[r] # pc[r] \/ tries'[r] # tries[r] => Closer(r)]_vars
  BY MoveOnStep
<1> QED
  BY <1>1, StoreTypeCorrect, PTL DEF Spec
=============================================================================
