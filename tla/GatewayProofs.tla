--------------------------- MODULE GatewayProofs ----------------------------
(***************************************************************************)
(* TLAPS proofs about Gateway, for any requests and runner addresses.      *)
(***************************************************************************)
EXTENDS Gateway, TLAPS

\* Where a request is before it may have created a connection.
Before == {"idle", "route", "lookup", "create"}

\* The runners map and the connections: an entry is an open connection to its
\* address, every open connection has its entry, and the request that created
\* one has been past runnerConn since.
Conns ==
    /\ \A r \in Requests : pc[r] \in {"lookup", "create"} => addr[r] \in Addrs
    /\ \A c \in created : pc[c] \notin Before /\ addr[c] \in Addrs
    /\ OpenIsShared
    /\ stage # "exited" =>
          \A a \in Addrs : runners[a] # None => runners[a] \in Open /\ addr[runners[a]] = a

\* Connections are closed after Shutdown only, when no request is handled any
\* more or late says that one is.
Drained ==
    /\ stage \in {"serving", "draining", "drained"} => closed = {}
    /\ stage \in {"drained", "closed", "exited"} /\ ~late =>
          \A r \in Requests : pc[r] \notin Handling
    /\ stage \in {"closed", "exited"} /\ ~late => Open = {}

Inv == TypeOK /\ Conns /\ Drained

\* A gateway without requests has no connections.
LEMMA InvInit == Init => Inv
BY ZenonT(30), NoneAssumption
DEF Init, Inv, TypeOK, Conns, Drained, OpenIsShared, Open, Before

\* Every step of a request and of Run keeps the invariant.
LEMMA InvStep == Inv /\ [Next]_vars => Inv'
<1> SUFFICES ASSUME Inv, [Next]_vars PROVE Inv'
  OBVIOUS
<1> USE NoneAssumption
    DEF Inv, TypeOK, Conns, Drained, OpenIsShared, Open, Before, Handling,
        Answers, reqVars, connVars, Goto, Use
<1>1. ASSUME NEW r \in Requests, Arrive(r) PROVE Inv'
  BY <1>1 DEF Arrive
<1>2. ASSUME NEW r \in Requests, RouteFunction(r) PROVE Inv'
  BY <1>2 DEF RouteFunction
<1>3. ASSUME NEW r \in Requests, LookupConn(r), stage # "exited" PROVE Inv'
  BY <1>3 DEF LookupConn
<1>4. ASSUME NEW r \in Requests, CreateConn(r), stage # "exited" PROVE Inv'
  BY <1>4 DEF CreateConn
<1>5. ASSUME NEW r \in Requests, ReadBody(r) \/ Invoke(r) PROVE Inv'
  BY <1>5 DEF ReadBody, Invoke
<1>6. CASE Interrupt
  BY <1>6 DEF Interrupt
<1>7. CASE ServerFails \/ ShutdownReturns
  BY ZenonT(30), <1>7 DEF ServerFails, ShutdownReturns
<1>8. CASE Close
  BY <1>8 DEF Close
<1>9. CASE Exit
  BY <1>9 DEF Exit
<1>10. CASE UNCHANGED vars
  BY <1>10 DEF vars
<1> QED
  BY <1>1, <1>2, <1>3, <1>4, <1>5, <1>6, <1>7, <1>8, <1>9, <1>10 DEF Next, Handle

\* The variables keep their types.
THEOREM GatewayTypeCorrect == Spec => []TypeOK
<1>1. Inv => TypeOK
  BY DEF Inv
<1> QED
  BY <1>1, InvInit, InvStep, PTL DEF Spec

\* Any number of concurrent first requests to a runner open one connection.
THEOREM OneConnection == Spec => []OpenIsShared
<1>1. Inv => OpenIsShared
  BY DEF Inv, Conns
<1> QED
  BY <1>1, InvInit, InvStep, PTL DEF Spec

\* A Shutdown that ends in time closes no connection under a request.
THEOREM NoRequestCutOff == Spec => []ClosedUnderRequest
<1>1. Inv => ClosedUnderRequest
  BY DEF Inv, Drained, ClosedUnderRequest, Handling, TypeOK
<1> QED
  BY <1>1, InvInit, InvStep, PTL DEF Spec

\* Close leaves no connection open that a request in progress has not opened.
THEOREM AllClosed == Spec => []ClosedCleanly
<1>1. Inv => ClosedCleanly
  BY DEF Inv, Drained, ClosedCleanly
<1> QED
  BY <1>1, InvInit, InvStep, PTL DEF Spec

\* Close comes after the last request, for any requests and runners.
THEOREM ClosedInOrder == Spec => []OrderlyClose
<1>1. ClosedUnderRequest /\ ClosedCleanly => OrderlyClose
  BY DEF OrderlyClose
<1> QED
  BY <1>1, NoRequestCutOff, AllClosed, PTL

-----------------------------------------------------------------------------
(* The runner a request reaches *)

\* A request invokes its function over a connection to the runner that the
\* Commander has routed it to, whichever request created the connection.
RightRunner ==
    stage # "exited" =>
        \A r \in Requests : pc[r] \in {"body", "invoke"} =>
            conn[r] \in created /\ addr[conn[r]] = addr[r]

\* Every step keeps a request on a connection to its runner: the two looks of
\* runnerConn use the request's own address, and a connection keeps its own.
LEMMA RightRunnerStep == Inv /\ RightRunner /\ [Next]_vars => RightRunner'
<1> SUFFICES ASSUME Inv, RightRunner, [Next]_vars PROVE RightRunner'
  OBVIOUS
<1> USE NoneAssumption DEF Inv, TypeOK, Conns, Open, Before, RightRunner, reqVars, connVars, Goto, Use
<1>1. ASSUME NEW r \in Requests, stage # "exited", Arrive(r) \/ ReadBody(r) \/ Invoke(r)
      PROVE  RightRunner'
  BY <1>1 DEF Arrive, ReadBody, Invoke
<1>2. ASSUME NEW r \in Requests, stage # "exited", RouteFunction(r) PROVE RightRunner'
  <2>1. r \notin created /\ \A s \in Requests \ {r} : addr'[s] = addr[s] /\ pc'[s] = pc[s]
    BY <1>2 DEF RouteFunction
  <2>2. pc'[r] \notin {"body", "invoke"} /\ UNCHANGED <<conn, created, stage>>
    BY <1>2 DEF RouteFunction
  <2> QED
    BY <1>2, <2>1, <2>2
<1>3. ASSUME NEW r \in Requests, stage # "exited", LookupConn(r) PROVE RightRunner'
  BY <1>3 DEF LookupConn
<1>4. ASSUME NEW r \in Requests, stage # "exited", CreateConn(r) PROVE RightRunner'
  BY <1>4 DEF CreateConn
<1>5. CASE Interrupt \/ ServerFails \/ ShutdownReturns \/ Close
  BY ZenonT(30), <1>5 DEF Interrupt, ServerFails, ShutdownReturns, Close
<1>6. CASE Exit
  BY <1>6 DEF Exit
<1>7. CASE UNCHANGED vars
  BY <1>7 DEF vars
<1> QED
  BY <1>1, <1>2, <1>3, <1>4, <1>5, <1>6, <1>7 DEF Next, Handle

\* Sharing connections never sends a request to another runner than its own.
THEOREM RequestsReachTheirRunner == Spec => []RightRunner
<1>1. Init => RightRunner
  BY DEF Init, RightRunner
<1> QED
  BY <1>1, InvInit, InvStep, RightRunnerStep, PTL DEF Spec
=============================================================================
