---------------------------- MODULE SerialQueue -----------------------------
(***************************************************************************)
(* What an instance promises to its callers, without workers, timers or    *)
(* flags: requests are accepted, served one at a time in the order of      *)
(* acceptance, and answered when served.                                   *)
(***************************************************************************)
EXTENDS Naturals, Sequences

CONSTANT Calls

VARIABLES
    order,      \* the accepted requests
    started,    \* how many of them have been sent to the guest
    serving,    \* the request at the guest: the empty set or a singleton
    answered    \* the requests whose callers got a result

vars == <<order, started, serving, answered>>

Init ==
    /\ order = <<>>
    /\ started = 0
    /\ serving = {}
    /\ answered = {}

Accept ==
    /\ \E c \in Calls :
          /\ \A i \in DOMAIN order : order[i] # c
          /\ order' = Append(order, c)
    /\ UNCHANGED <<started, serving, answered>>

Serve ==
    /\ serving = {}
    /\ started < Len(order)
    /\ started' = started + 1
    /\ serving' = {order[started + 1]}
    /\ UNCHANGED <<order, answered>>

Answer ==
    /\ serving # {}
    /\ answered' = answered \cup serving
    /\ serving' = {}
    /\ UNCHANGED <<order, started>>

Next == Accept \/ Serve \/ Answer

Spec == Init /\ [][Next]_vars
=============================================================================
