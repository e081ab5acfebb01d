------------------------------- MODULE Gateway ------------------------------
(***************************************************************************)
(* The Gateway: concurrent requests share one gRPC connection per runner   *)
(* address (runnerConn), and Run ends with a Shutdown of the HTTP server   *)
(* that waits a limited time before the deferred Close of all connections. *)
(*                                                                         *)
(* What the Commander and the runner do with a request is in Commander and *)
(* InstanceWorker; here they answer or fail.  A connection is named by the *)
(* request that created it.                                                *)
(***************************************************************************)
EXTENDS Naturals

CONSTANTS
    Requests,   \* HTTP requests to the Gateway
    Addrs,      \* addresses of runners the Commander routes to
    None

ASSUME NoneAssumption == None \notin Requests \cup Addrs

VARIABLES
    pc,         \* where each request is, or how it was answered
    addr,       \* the runner address the request was routed to
    conn,       \* the connection the request uses
    runners,    \* address -> its connection: the handler's runners map
    created,    \* connections created
    closed,     \* connections closed
    stage,      \* of Run
    late        \* Run went on while clients were still connected

reqVars == <<pc, addr, conn>>
connVars == <<runners, created, closed>>
vars == <<reqVars, connVars, stage, late>>

Handling == {"route", "lookup", "create", "body", "invoke"}
Answers == {"badRequest", "tooLarge", "failed", "answered", "lost"}
Open == created \ closed

Init ==
    /\ pc = [r \in Requests |-> "idle"]
    /\ addr = [r \in Requests |-> None]
    /\ conn = [r \in Requests |-> None]
    /\ runners = [a \in Addrs |-> None]
    /\ created = {}
    /\ closed = {}
    /\ stage = "serving"
    /\ late = FALSE

Goto(r, l) == pc' = [pc EXCEPT ![r] = l]
Use(r, c) ==
    /\ conn' = [conn EXCEPT ![r] = c]
    /\ Goto(r, "body")

-----------------------------------------------------------------------------
(* processFunctionRequest *)

\* A request is read from a connection, 400 without a function id.  Shutdown
\* waits for a connection that was just accepted; the connections it gave up on
\* and those of a server that failed bring requests until the process ends.
Arrive(r) ==
    /\ pc[r] = "idle"
    /\ stage \in {"serving", "draining"} \/ late
    /\ \E l \in {"badRequest", "route"} : Goto(r, l)
    /\ UNCHANGED <<addr, conn, connVars, stage, late>>

\* RouteFunction on the Commander: an address, or an error and a 500.
RouteFunction(r) ==
    /\ pc[r] = "route"
    /\ \/ \E a \in Addrs : addr' = [addr EXCEPT ![r] = a]
          /\ Goto(r, "lookup")
       \/ /\ Goto(r, "failed")
          /\ UNCHANGED addr
    /\ UNCHANGED <<conn, connVars, stage, late>>

\* runnerConn: the optimistic check under the read lock.
LookupConn(r) ==
    /\ pc[r] = "lookup"
    /\ \/ /\ runners[addr[r]] # None
          /\ Use(r, runners[addr[r]])
       \/ /\ runners[addr[r]] = None
          /\ Goto(r, "create")
          /\ UNCHANGED conn
    /\ UNCHANGED <<addr, connVars, stage, late>>

\* Mutation: the map is not looked at again under the write lock.
CreateConnUnchecked(r) ==
    /\ pc[r] = "create"
    /\ created' = created \cup {r}
    /\ runners' = [runners EXCEPT ![addr[r]] = r]
    /\ Use(r, r)
    /\ UNCHANGED <<addr, closed, stage, late>>

\* runnerConn: the second check and the new connection, under the write lock.
CreateConn(r) ==
    /\ pc[r] = "create"
    /\ \/ /\ runners[addr[r]] # None
          /\ Use(r, runners[addr[r]])
          /\ UNCHANGED <<runners, created>>
       \/ /\ runners[addr[r]] = None
          /\ created' = created \cup {r}
          /\ runners' = [runners EXCEPT ![addr[r]] = r]
          /\ Use(r, r)
       \/ /\ runners[addr[r]] = None
          /\ Goto(r, "failed")
          /\ UNCHANGED <<conn, runners, created>>
    /\ UNCHANGED <<addr, closed, stage, late>>

\* 413 for a body above MaxBytes, 500 for one that cannot be read.
ReadBody(r) ==
    /\ pc[r] = "body"
    /\ \E l \in {"invoke", "tooLarge", "failed"} : Goto(r, l)
    /\ UNCHANGED <<addr, conn, connVars, stage, late>>

\* InvokeFunctionInstance ends: a connection that was closed cancels its calls.
\* A status code net/http does not accept panics and Recoverer answers 500.
Invoke(r) ==
    /\ pc[r] = "invoke"
    /\ \/ conn[r] \notin closed /\ Goto(r, "answered")
       \/ Goto(r, "failed")
    /\ UNCHANGED <<addr, conn, connVars, stage, late>>

-----------------------------------------------------------------------------
(* Run *)

\* Mutation: the connections are closed before the HTTP server is shut down.
InterruptClosesFirst ==
    /\ stage = "serving"
    /\ stage' = "draining"
    /\ closed' = created
    /\ runners' = [a \in Addrs |-> None]
    /\ UNCHANGED <<reqVars, created, late>>

\* The signal: Shutdown stops accepting connections.
Interrupt ==
    /\ stage = "serving"
    /\ stage' = "draining"
    /\ UNCHANGED <<reqVars, connVars, late>>

\* The HTTP server fails: Run returns without Shutdown, and whoever is connected
\* stays so.
ServerFails ==
    /\ stage = "serving"
    /\ stage' = "drained"
    /\ late' = TRUE
    /\ UNCHANGED <<reqVars, connVars>>

\* Mutation: Shutdown is given a ctx without a timeout.
ShutdownReturnsDrained ==
    /\ stage = "draining"
    /\ \A r \in Requests : pc[r] \notin Handling
    /\ stage' = "drained"
    /\ UNCHANGED <<reqVars, connVars, late>>

\* Shutdown returns: every connection is closed, or its 5 seconds are over.
ShutdownReturns ==
    /\ stage = "draining"
    /\ stage' = "drained"
    /\ late' \in {l \in BOOLEAN : l \/ \A r \in Requests : pc[r] \notin Handling}
    /\ UNCHANGED <<reqVars, connVars>>

\* The deferred h.Close: every connection of the map, under the lock.
Close ==
    /\ stage = "drained"
    /\ stage' = "closed"
    /\ closed' = closed \cup {runners[a] : a \in {b \in Addrs : runners[b] # None}}
    /\ runners' = [a \in Addrs |-> None]
    /\ UNCHANGED <<reqVars, created, late>>

\* The other deferred calls, and the end of the process.
Exit ==
    /\ stage = "closed"
    /\ stage' = "exited"
    /\ pc' = [r \in Requests |-> IF pc[r] \in Handling THEN "lost" ELSE pc[r]]
    /\ closed' = created
    /\ UNCHANGED <<addr, conn, runners, created, late>>

-----------------------------------------------------------------------------

Handle(r) ==
    \/ Arrive(r) \/ RouteFunction(r) \/ LookupConn(r) \/ CreateConn(r)
    \/ ReadBody(r) \/ Invoke(r)

Next ==
    \/ stage # "exited" /\ \E r \in Requests : Handle(r)
    \/ Interrupt \/ ServerFails \/ ShutdownReturns \/ Close \/ Exit

Spec == Init /\ [][Next]_vars

\* Run goes on after the signal.  Nothing is assumed of the requests: the
\* Commander, the runner or the client may keep one waiting for ever.
FairSpec ==
    /\ Spec
    /\ WF_vars(ShutdownReturns)
    /\ WF_vars(Close)
    /\ WF_vars(Exit)

-----------------------------------------------------------------------------

\* The types of the variables.
TypeOK ==
    /\ pc \in [Requests -> {"idle"} \cup Handling \cup Answers]
    /\ addr \in [Requests -> Addrs \cup {None}]
    /\ conn \in [Requests -> Requests \cup {None}]
    /\ runners \in [Addrs -> Requests \cup {None}]
    /\ created \subseteq Requests
    /\ closed \subseteq created
    /\ stage \in {"serving", "draining", "drained", "closed", "exited"}
    /\ late \in BOOLEAN

\* Until the process ends, every open connection is the one the runners map has
\* for its address: concurrent first requests to a runner never open two
\* connections (the second check of runnerConn), and none is out of the reach
\* of Close.
OpenIsShared ==
    \A c \in Open : runners[addr[c]] = c

\* A request that invokes a function over a connection that Close has closed
\* comes from a client that was connected when the time of Shutdown was over or
\* when the HTTP server failed: a Shutdown that ends in time fails no request.
ClosedUnderRequest ==
    \A r \in Requests : pc[r] = "invoke" /\ conn[r] \in closed => late

\* After Close no connection is open, unless a request of a client that was
\* still connected has created one since.
ClosedCleanly ==
    stage = "closed" /\ ~late => Open = {}

\* A Shutdown that ends in time neither cuts a request off nor leaves a
\* connection behind: Close comes after the last request.
OrderlyClose == ClosedUnderRequest /\ ClosedCleanly

\* After the signal the Gateway ends, even when a request is never answered.
ShutdownEnds ==
    stage = "draining" ~> stage = "exited"

=============================================================================
