---------------------------- MODULE FunctionStore ---------------------------
(***************************************************************************)
(* The Commander's function store: concurrent uploads (CreateFunction) and *)
(* downloads (DownloadFunctionBinary) over a directory of binaries and the *)
(* functions table, with the retries of WithRetry, the shutdown that       *)
(* closes the database first, crashes and restarts.                        *)
(*                                                                         *)
(* A binary stands for its SHA-256 hash and, once stored, for the id of    *)
(* its row.  A file is named by the upload whose open created it, so an    *)
(* upload or a download keeps the file it opened after the path was        *)
(* removed or created again.                                               *)
(***************************************************************************)
EXTENDS Naturals

CONSTANTS
    Uploads, Downloads,     \* requests to the HTTP server
    Binaries,               \* contents of uploads
    Names,                  \* names given to uploads
    CleanNames,             \* the names validFilename accepts
    UncleanFuncFilename,    \* "func"
    None,                   \* no file, no row
    MaxRetries,             \* tries of one database call
    MaxRestarts             \* bound on starts of the Commander

ASSUME ConstantsAssumption ==
    /\ Uploads \cap Downloads = {}
    /\ CleanNames \subseteq Names
    /\ None \notin Uploads \cup ((Names \cup {UncleanFuncFilename}) \X Binaries)
    /\ MaxRetries \in Nat \ {0}
    /\ MaxRestarts \in Nat

VARIABLES
    pc,         \* where each request is, or how it was answered
    tries,      \* WithRetry's retries for the request's database call
    name, bytes,    \* what the request uploads, the id it downloads
    file,       \* the file the request has open
    target,     \* the path a download read from the row
    got,        \* what the client of a download received
    disk,       \* path -> the file it leads to
    written,    \* the files with all their bytes
    rows,       \* the functions table: hash -> path
    overlapped, \* the paths two uploads were saving at the same time
    phase,      \* of the Commander process
    restarts

diskVars == <<disk, written>>
procVars == <<phase, restarts>>
vars == <<pc, tries, name, bytes, file, target, got, diskVars, rows,
          overlapped, procVars>>

Requests == Uploads \cup Downloads
DBCalls == {"exists", "insert", "byId"}
Saving == {"open", "write", "remove", "insert"}
Active == DBCalls \cup Saving \cup {"openBinary", "copy"}
\* leftFile is a 500 after which the upload's file may be there, lost a
\* request whose Commander went away.
Answers == {"rejected", "conflict", "created", "failed", "leftFile", "lost",
            "notFound", "served"}

\* BytesSha256 is injective; functionFilename is injective in its arguments.
sanitizeFilename(n) == IF n \in CleanNames THEN n ELSE UncleanFuncFilename
functionFilename(n, b) == <<sanitizeFilename(n), b>>
Paths == {functionFilename(n, b) : n \in Names, b \in Binaries}
Path(u) == functionFilename(name[u], bytes[u])

Init ==
    /\ pc = [r \in Requests |-> "idle"]
    /\ tries = [r \in Requests |-> 1]
    /\ name \in [Uploads -> Names]
    /\ bytes \in [Requests -> Binaries]
    /\ file = [r \in Requests |-> None]
    /\ target = [d \in Downloads |-> None]
    /\ got = [d \in Downloads |-> "nothing"]
    /\ disk = [p \in Paths |-> None]
    /\ written = {}
    /\ rows = [b \in Binaries |-> None]
    /\ overlapped = {}
    /\ phase = "up"
    /\ restarts = 0

Goto(r, l) == pc' = [pc EXCEPT ![r] = l]

-----------------------------------------------------------------------------
(* WithRetry *)

\* Mutation: the tries are not counted.
RetryUncounted(r) ==
    /\ pc[r] \in DBCalls
    /\ phase = "up"
    /\ tries' = [tries EXCEPT ![r] = (@ % MaxRetries) + 1]
    /\ UNCHANGED <<pc, name, bytes, file, target, got, diskVars, rows,
                   overlapped, procVars>>

\* SQLITE_BUSY or SQLITE_LOCKED with tries left, and the delay elapses.
Retry(r) ==
    /\ pc[r] \in DBCalls
    /\ phase = "up"
    /\ tries[r] < MaxRetries
    /\ tries' = [tries EXCEPT ![r] = @ + 1]
    /\ UNCHANGED <<pc, name, bytes, file, target, got, diskVars, rows,
                   overlapped, procVars>>

\* Any other error, busy on the last try, ctx done while waiting, or a
\* database that is closed already.
GiveUp(r) ==
    /\ pc[r] \in DBCalls
    /\ tries' = [tries EXCEPT ![r] = 1]
    /\ Goto(r, IF pc[r] = "insert" THEN "leftFile" ELSE "failed")
    /\ UNCHANGED <<name, bytes, file, target, got, diskVars, rows,
                   overlapped, procVars>>

-----------------------------------------------------------------------------
(* Uploads *)

\* CreateFunction of the handler and of the service up to the hash: 400 for a
\* body that is too large or no form, 500 when the part cannot be read.
CreateFunction(u) ==
    /\ pc[u] = "idle"
    /\ phase # "down"
    /\ \E l \in {"rejected", "failed", "exists"} : Goto(u, l)
    /\ UNCHANGED <<tries, name, bytes, file, target, got, diskVars, rows,
                   overlapped, procVars>>

\* Mutation: what exists is looked up among the files.
FunctionExistsByFile(u) ==
    /\ pc[u] = "exists"
    /\ phase = "up"
    /\ tries' = [tries EXCEPT ![u] = 1]
    /\ Goto(u, IF disk[Path(u)] # None THEN "conflict" ELSE "open")
    /\ UNCHANGED <<name, bytes, file, target, got, diskVars, rows, overlapped,
                   procVars>>

\* FunctionExistsByHash answers: 409 for a hash that has a row.
FunctionExistsByHash(u) ==
    /\ pc[u] = "exists"
    /\ phase = "up"
    /\ tries' = [tries EXCEPT ![u] = 1]
    /\ IF rows[bytes[u]] # None
       THEN /\ Goto(u, "conflict")
            /\ UNCHANGED overlapped
       ELSE /\ Goto(u, "open")
            /\ overlapped' = overlapped \cup
                  {Path(v) : v \in {w \in Uploads \ {u} :
                                pc[w] \in Saving /\ Path(w) = Path(u)}}
    /\ UNCHANGED <<name, bytes, file, target, got, diskVars, rows, procVars>>

\* os.WriteFile opens the path: the file that is there is cut to no bytes.  An
\* open that fails goes to DeleteFile as well.
OpenFile(u) ==
    /\ pc[u] = "open"
    /\ \/ /\ LET f == IF disk[Path(u)] = None THEN u ELSE disk[Path(u)]
             IN  /\ file' = [file EXCEPT ![u] = f]
                 /\ disk' = [disk EXCEPT ![Path(u)] = f]
                 /\ written' = written \ {f}
          /\ Goto(u, "write")
       \/ /\ Goto(u, "remove")
          /\ UNCHANGED <<file, diskVars>>
    /\ UNCHANGED <<tries, name, bytes, target, got, rows, overlapped, procVars>>

\* Mutation: a failed write is not noticed.
WriteFileUnchecked(u) ==
    /\ pc[u] = "write"
    /\ Goto(u, "insert")
    /\ \/ written' = written \cup {file[u]}
       \/ UNCHANGED written
    /\ UNCHANGED <<tries, name, bytes, file, target, got, disk, rows,
                   overlapped, procVars>>

\* os.WriteFile writes all the bytes to the file it opened, or fails; the
\* bytes of every upload to one path are the same.
WriteFile(u) ==
    /\ pc[u] = "write"
    /\ \/ /\ written' = written \cup {file[u]}
          /\ Goto(u, "insert")
       \/ /\ Goto(u, "remove")
          /\ UNCHANGED written
    /\ UNCHANGED <<tries, name, bytes, file, target, got, disk, rows,
                   overlapped, procVars>>

\* Mutation: CreateFile returns the error and deletes nothing.
DeleteFileSkipped(u) ==
    /\ pc[u] = "remove"
    /\ Goto(u, "failed")
    /\ UNCHANGED <<tries, name, bytes, file, target, got, diskVars, rows,
                   overlapped, procVars>>

\* DeleteFile removes whatever the path leads to, or only logs that it cannot.
DeleteFile(u) ==
    /\ pc[u] = "remove"
    /\ \/ /\ disk' = [disk EXCEPT ![Path(u)] = None]
          /\ Goto(u, "failed")
       \/ /\ Goto(u, "leftFile")
          /\ UNCHANGED disk
    /\ UNCHANGED <<tries, name, bytes, file, target, got, written, rows,
                   overlapped, procVars>>

\* CreateFunction of the database: the hash is unique, so the second insert
\* fails.  A client that goes away at the wrong moment turns an insert that
\* was carried out into an error.
InsertFunction(u) ==
    /\ pc[u] = "insert"
    /\ phase = "up"
    /\ tries' = [tries EXCEPT ![u] = 1]
    /\ \/ /\ rows[bytes[u]] = None
          /\ rows' = [rows EXCEPT ![bytes[u]] = Path(u)]
          /\ \E l \in {"created", "leftFile"} : Goto(u, l)
       \/ /\ rows[bytes[u]] # None
          /\ Goto(u, "leftFile")
          /\ UNCHANGED rows
    /\ UNCHANGED <<name, bytes, file, target, got, diskVars, overlapped,
                   procVars>>

-----------------------------------------------------------------------------
(* Downloads *)

\* DownloadFunctionBinary: 400 for an id that is no number.
DownloadFunctionBinary(d) ==
    /\ pc[d] = "idle"
    /\ phase # "down"
    /\ \E l \in {"rejected", "byId"} : Goto(d, l)
    /\ UNCHANGED <<tries, name, bytes, file, target, got, diskVars, rows,
                   overlapped, procVars>>

FunctionByID(d) ==
    /\ pc[d] = "byId"
    /\ phase = "up"
    /\ tries' = [tries EXCEPT ![d] = 1]
    /\ IF rows[bytes[d]] = None
       THEN /\ Goto(d, "notFound")
            /\ UNCHANGED target
       ELSE /\ target' = [target EXCEPT ![d] = rows[bytes[d]]]
            /\ Goto(d, "openBinary")
    /\ UNCHANGED <<name, bytes, file, got, diskVars, rows, overlapped,
                   procVars>>

\* os.Open, then the headers and the status 200.
OpenBinary(d) ==
    /\ pc[d] = "openBinary"
    /\ \/ /\ disk[target[d]] # None
          /\ file' = [file EXCEPT ![d] = disk[target[d]]]
          /\ Goto(d, "copy")
       \/ /\ Goto(d, "failed")
          /\ UNCHANGED file
    /\ UNCHANGED <<tries, name, bytes, target, got, diskVars, rows, overlapped,
                   procVars>>

\* Mutation: one Read and one Write in place of io.Copy.
CopyBinaryOnce(d) ==
    /\ pc[d] = "copy"
    /\ \E g \in {"binary", "short"} : got' = [got EXCEPT ![d] = g]
    /\ Goto(d, "served")
    /\ UNCHANGED <<tries, name, bytes, file, target, diskVars, rows,
                   overlapped, procVars>>

\* io.Copy up to the end of the file as it is now.  After a read error
\* InternalServerError appends its JSON to the body of the 200.
CopyBinary(d) ==
    /\ pc[d] = "copy"
    /\ \E g \in {"garbled", IF file[d] \in written THEN "binary" ELSE "short"} :
          got' = [got EXCEPT ![d] = g]
    /\ Goto(d, "served")
    /\ UNCHANGED <<tries, name, bytes, file, target, diskVars, rows,
                   overlapped, procVars>>

-----------------------------------------------------------------------------
(* The Commander process *)

\* Run after the signal: db.Close() is the first argument of errors.Join.  The
\* HTTP server still serves until its Shutdown returns.
CloseDB ==
    /\ phase = "up"
    /\ phase' = "closing"
    /\ UNCHANGED <<pc, tries, name, bytes, file, target, got, diskVars, rows,
                   overlapped, restarts>>

\* The process ends: after Shutdown, which waits for the handlers or for its
\* timeout, on a server error, or by a crash.
Exit ==
    /\ phase # "down"
    /\ phase' = "down"
    /\ pc' = [r \in Requests |-> IF pc[r] \in Active THEN "lost" ELSE pc[r]]
    /\ UNCHANGED <<tries, name, bytes, file, target, got, diskVars, rows,
                   overlapped, restarts>>

\* NewFSFunctionStorage and NewSQLiteDB keep what is stored.
Restart ==
    /\ phase = "down"
    /\ restarts < MaxRestarts
    /\ restarts' = restarts + 1
    /\ phase' = "up"
    /\ UNCHANGED <<pc, tries, name, bytes, file, target, got, diskVars, rows,
                   overlapped>>

-----------------------------------------------------------------------------

Upload(u) ==
    \/ CreateFunction(u) \/ FunctionExistsByHash(u) \/ OpenFile(u)
    \/ WriteFile(u) \/ DeleteFile(u) \/ InsertFunction(u)
    \/ Retry(u) \/ GiveUp(u)

Download(d) ==
    \/ DownloadFunctionBinary(d) \/ FunctionByID(d) \/ OpenBinary(d)
    \/ CopyBinary(d) \/ Retry(d) \/ GiveUp(d)

Next ==
    \/ \E u \in Uploads : Upload(u)
    \/ \E d \in Downloads : Download(d)
    \/ CloseDB \/ Exit \/ Restart

Spec == Init /\ [][Next]_vars

\* The goroutine of a request runs on; nobody has to call, stop or restart.
FairSpec ==
    /\ Spec
    /\ \A u \in Uploads : WF_vars(pc[u] # "idle" /\ Upload(u))
    /\ \A d \in Downloads : WF_vars(pc[d] # "idle" /\ Download(d))

-----------------------------------------------------------------------------

\* The types of the variables; tries never exceeds MaxRetries.
TypeOK ==
    /\ pc \in [Requests -> {"idle"} \cup Active \cup Answers]
    /\ tries \in [Requests -> 1 .. MaxRetries]
    /\ name \in [Uploads -> Names]
    /\ bytes \in [Requests -> Binaries]
    /\ file \in [Requests -> Uploads \cup {None}]
    /\ target \in [Downloads -> Paths \cup {None}]
    /\ got \in [Downloads -> {"nothing", "binary", "short", "garbled"}]
    /\ disk \in [Paths -> Uploads \cup {None}]
    /\ written \subseteq Uploads
    /\ rows \in [Binaries -> Paths \cup {None}]
    /\ overlapped \subseteq Paths
    /\ phase \in {"up", "closing", "down"}
    /\ restarts \in 0 .. MaxRestarts

\* The row of a function leads to a file with all its bytes (service.go: Save
\* comes before the insert), across failures, crashes and restarts, unless two
\* uploads were saving to its path at the same time: os.WriteFile and
\* DeleteFile then cut or remove the file the row leads to.
RowHasFile ==
    \A b \in Binaries : rows[b] \in Paths \ overlapped =>
        disk[rows[b]] \in written

\* A download answers 200 with a binary that was cut short (os.WriteFile opens
\* with O_TRUNC, io.Copy ends without error) only when two uploads were saving
\* to its path at the same time.
ShortOnlyIfOverlapped ==
    \A d \in Downloads : got[d] = "short" => target[d] \in overlapped

\* At most one upload of a binary is answered 201, whatever the interleaving of
\* the checks, saves and inserts of concurrent uploads.
OneCreated ==
    \A u, v \in Uploads :
        /\ pc[u] = "created"
        /\ pc[v] = "created"
        /\ bytes[u] = bytes[v]
        => u = v

\* A 409 means that the binary can be downloaded: its row is there.  A file
\* left by an upload that failed or by a crash never makes a later upload of
\* the same binary a conflict.
ConflictMeansStored ==
    \A u \in Uploads : pc[u] = "conflict" => rows[bytes[u]] # None

\* What uploads of one binary are told, however their checks, saves and inserts
\* interleave: one is the first, and who is told 409 is not alone.
AnswersAreTrue == OneCreated /\ ConflictMeansStored

\* How the catalog sees the state of a request: failures look alike.
AnswerOf(l) ==
    IF l \in {"idle"} \cup Active THEN "none"
    ELSE IF l \in {"created", "conflict", "served", "notFound"} THEN l
    ELSE "error"

Catalog == INSTANCE FunctionCatalog WITH
    asks <- bytes,
    stored <- {b \in Binaries : rows[b] # None},
    answer <- [r \in Requests |-> AnswerOf(pc[r])]

\* The many steps of concurrent uploads and downloads, across retries, the
\* shutdown, crashes and restarts, look like single steps on a set of
\* binaries: at most one upload of a binary is told 201, 409 and 200 are
\* answered only for what is in the table, 404 only for what is not, and
\* nothing leaves the table.
CatalogSpec == Catalog!Spec

\* A file no row leads to belongs to an upload that is still saving, that was
\* lost with its Commander, or whose insert or DeleteFile failed: a write that
\* failed and whose file could be removed leaves nothing behind.
OrphanHasCause ==
    \A p \in Paths :
        disk[p] # None /\ (\A b \in Binaries : rows[b] # p) =>
            \E u \in Uploads :
                Path(u) = p /\ pc[u] \in Saving \cup {"leftFile", "lost"}

\* Every request is answered, also when the database stays busy: WithRetry
\* gives up after MaxRetries tries.
RequestsEnd ==
    \A r \in Requests : pc[r] \in Active ~> pc[r] \in Answers

\* What TestCreateFunction_Created checks after a 201: the file of the upload
\* is stored with its bytes.
CreatedIsStored ==
    \A u \in Uploads : pc[u] = "created" => disk[Path(u)] \in written

=============================================================================
