------------------------------ MODULE Delivery -------------------------------
(***************************************************************************)
(* What the delivery loop promises, without its handler, its channels and  *)
(* its timers: the batches of a request are handed from producer to client *)
(* one at a time, and the request ends once, in one of three ways.         *)
(***************************************************************************)
EXTENDS Naturals

CONSTANT Requests

VARIABLES
  produced,  \* batches the producer has made
  delivered, \* batches the client has been sent
  outcome    \* "open", then what the client was told: "complete",
             \* "incomplete", or nothing of the kind ("silent")

deliveryVars == <<produced, delivered, outcome>>

Init ==
  /\ produced = [r \in Requests |-> 0] /\ delivered = [r \in Requests |-> 0]
  /\ outcome = [r \in Requests |-> "open"]

\* The next batch is made only when the last one was delivered.
Produce(r) ==
  /\ outcome[r] = "open" /\ delivered[r] = produced[r]
  /\ produced' = [produced EXCEPT ![r] = @ + 1]
  /\ UNCHANGED <<delivered, outcome>>

Deliver(r) ==
  /\ outcome[r] = "open" /\ delivered[r] < produced[r]
  /\ delivered' = [delivered EXCEPT ![r] = @ + 1]
  /\ UNCHANGED <<produced, outcome>>

\* "complete" is said when nothing that was made is missing.
End(r) ==
  /\ outcome[r] = "open"
  /\ \E o \in {"complete", "incomplete", "silent"} :
       /\ o = "complete" => delivered[r] = produced[r]
       /\ outcome' = [outcome EXCEPT ![r] = o]
  /\ UNCHANGED <<produced, delivered>>

Next == \E r \in Requests : Produce(r) \/ Deliver(r) \/ End(r)
Spec == Init /\ [][Next]_deliveryVars
=============================================================================
