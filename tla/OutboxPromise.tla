---------------------------- MODULE OutboxPromise ----------------------------
(***************************************************************************)
(* What an outbox row promises, as its producers and consumers see it      *)
(* (docs/delivery-reliability.md): messages are enqueued, at most          *)
(* MaxAttempts per queue, until the row is delivered or abandoned;         *)
(* delivered means that every queue it names got a message, and neither    *)
(* outcome is ever taken back or followed by another message.              *)
(***************************************************************************)
EXTENDS Naturals

CONSTANTS Rows, Destinations, DestsOf, MaxAttempts

VARIABLES
  copies,   \* copies[o][d]: messages of o enqueued on d
  outcome   \* outcome[o]: "open", "delivered" or "abandoned"

Init ==
  /\ copies \in [Rows -> [Destinations -> {0, 1}]]   \* 1: sent by an earlier release
  /\ outcome = [o \in Rows |-> "open"]

Enqueue(o, d) ==
  /\ outcome[o] = "open"
  /\ d \in DestsOf[o]
  /\ copies[o][d] < MaxAttempts
  /\ copies' = [copies EXCEPT ![o][d] = @ + 1]
  /\ UNCHANGED outcome

Deliver(o) ==
  /\ outcome[o] = "open"
  /\ DestsOf[o] # {}
  /\ \A d \in DestsOf[o] : copies[o][d] > 0
  /\ outcome' = [outcome EXCEPT ![o] = "delivered"]
  /\ UNCHANGED copies

Abandon(o) ==
  /\ outcome[o] = "open"
  /\ outcome' = [outcome EXCEPT ![o] = "abandoned"]
  /\ UNCHANGED copies

Next ==
  \E o \in Rows :
    \/ \E d \in Destinations : Enqueue(o, d)
    \/ Deliver(o)
    \/ Abandon(o)

Spec == Init /\ [][Next]_<<copies, outcome>>
=============================================================================
