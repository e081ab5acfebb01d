-------------------------- MODULE FunctionCatalog ---------------------------
(***************************************************************************)
(* What the function store promises to its clients, without files, tables, *)
(* retries or processes: a set of binaries that only grows, in which an    *)
(* upload or a download takes effect at one moment, at which it is also    *)
(* answered.  Only an error leaves open whether an upload took effect.     *)
(***************************************************************************)

CONSTANTS Uploads, Downloads, Binaries

VARIABLES
    asks,       \* the binary of each request
    stored,     \* the binaries in the catalog
    answer      \* of each request; none while it has no answer

vars == <<asks, stored, answer>>

Requests == Uploads \cup Downloads

Init ==
    /\ asks \in [Requests -> Binaries]
    /\ stored = {}
    /\ answer = [r \in Requests |-> "none"]

Reply(r, a) ==
    /\ answer[r] = "none"
    /\ answer' = [answer EXCEPT ![r] = a]
    /\ UNCHANGED asks

\* A new binary enters the catalog; its upload may end in an error all the same.
Create(u) ==
    /\ asks[u] \notin stored
    /\ stored' = stored \cup {asks[u]}
    /\ Reply(u, "created") \/ Reply(u, "error")

Conflict(u) ==
    /\ asks[u] \in stored
    /\ Reply(u, "conflict")
    /\ UNCHANGED stored

Serve(d) ==
    /\ asks[d] \in stored
    /\ Reply(d, "served")
    /\ UNCHANGED stored

NotFound(d) ==
    /\ asks[d] \notin stored
    /\ Reply(d, "notFound")
    /\ UNCHANGED stored

\* Requests fail, several at once when the server goes away.
Fail ==
    /\ \E S \in SUBSET {r \in Requests : answer[r] = "none"} :
          answer' = [r \in Requests |-> IF r \in S THEN "error" ELSE answer[r]]
    /\ UNCHANGED <<asks, stored>>

Next ==
    \/ \E u \in Uploads : Create(u) \/ Conflict(u)
    \/ \E d \in Downloads : Serve(d) \/ NotFound(d)
    \/ Fail

Spec == Init /\ [][Next]_vars
=============================================================================
