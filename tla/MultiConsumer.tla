--------------------------- MODULE MultiConsumer ----------------------------
(***************************************************************************)
(* MultiConsumer[T], the broadcast of one result to many waiting calls.    *)
(* Every consumer is created by the call that has to produce its result,   *)
(* and is named by that call.  A subscriber's channel has a buffer of one  *)
(* and receives one value: inbox is its content.  The mutex makes AddSub   *)
(* and SubmitResult one step each.                                         *)
(***************************************************************************)
CONSTANT Calls

VARIABLES
    subscribers,    \* the calls whose channels are registered
    result,         \* hasResult and result
    inbox           \* the content of each call's channel

Results == {"none", "ok", "err"}

Init ==
    /\ subscribers = [o \in Calls |-> {}]
    /\ result = [o \in Calls |-> "none"]
    /\ inbox = [c \in Calls |-> "none"]

\* A registered channel belongs to a call; a result is none, ok or err.
TypeOK ==
    /\ subscribers \in [Calls -> SUBSET Calls]
    /\ result \in [Calls -> Results]
    /\ inbox \in [Calls -> Results]

\* Mutation: a result that is already there is not delivered.
AddSubAlwaysAppends(o, c) ==
    /\ subscribers' = [subscribers EXCEPT ![o] = @ \cup {c}]
    /\ UNCHANGED <<result, inbox>>

\* A late subscriber gets the result at once, an early one is registered.
AddSub(o, c) ==
    \/ /\ result[o] # "none"
       /\ inbox' = [inbox EXCEPT ![c] = result[o]]
       /\ UNCHANGED <<subscribers, result>>
    \/ /\ result[o] = "none"
       /\ subscribers' = [subscribers EXCEPT ![o] = @ \cup {c}]
       /\ UNCHANGED <<result, inbox>>

\* Every registered channel gets the result and is closed.
SubmitResult(o, r) ==
    /\ result' = [result EXCEPT ![o] = r]
    /\ inbox' = [c \in Calls |-> IF c \in subscribers[o] THEN r ELSE inbox[c]]
    /\ subscribers' = [subscribers EXCEPT ![o] = {}]
=============================================================================
