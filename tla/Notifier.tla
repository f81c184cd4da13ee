------------------------------ MODULE Notifier ------------------------------
(***************************************************************************)
(* Notifications of one outbox row (src/handlers/notifier.py) and their    *)
(* receipts (DeliveryState.delivery of src/infra/delivery_state.py).       *)
(*                                                                         *)
(* The notifications queue delivers a message at least once, and the       *)
(* publisher may have sent it more than once.  An invocation ("worker")    *)
(* takes one message and, for each channel the settings route it to,       *)
(* reserves a receipt (a lease), sends, and completes the receipt; a       *)
(* failure releases it.  If any channel failed the message is reported in  *)
(* batchItemFailures: it returns after the visibility timeout, and goes to *)
(* the dead-letter queue after MaxReceives deliveries.                     *)
(*                                                                         *)
(* Every call may fail without effect, or take effect and still raise; an  *)
(* invocation may die anywhere and is killed when Timeout old: each of     *)
(* these is a fault, and there are at most MaxFaults.                      *)
(*                                                                         *)
(* Abstractions.  Receipts of different rows or types have different keys  *)
(* and do not interact: all messages carry the same one.  A webhook target *)
(* has a receipt of its own: it is a channel.  Channels are handled in any *)
(* order; those that do not support the item's type are not routed.  The   *)
(* uuid token of a lease is the worker that wrote it: no worker uses a     *)
(* token it did not write in the same step of its loop.                    *)
(***************************************************************************)
EXTENDS Naturals

CONSTANTS
  Messages,     \* messages of the notifications queue, for one row
  Channels,     \* channels and webhook targets
  Routes,       \* the sets of channels the settings, which can change, may route to
  Workers,      \* concurrent notifier invocations
  MaxReceives,  \* maxReceiveCount of the queue
  Timeout,      \* the Lambda timeout, in ticks
  Lease,        \* lease_until - now, in ticks
  Visibility,   \* the queue's visibility timeout, in ticks
  MaxFaults     \* bound on the faults

ASSUME NotifierAssumption ==
  /\ Routes \subseteq SUBSET Channels
  /\ {MaxReceives, Visibility} \subseteq Nat \ {0}
  /\ {Timeout, Lease, MaxFaults} \subseteq Nat

(* As deployed (30 s, 120 s and 180 s).                                    *)
Timely == Timeout <= Lease /\ Timeout + Lease < Visibility

VARIABLES
  message,     \* notifications-queue
  receipt,     \* the delivery state table
  worker,      \* notifier invocations
  faults,      \* faults that may still happen
  copies,      \* copies[c]: how often the notification reached c (history)
  unrecorded,  \* unrecorded[c]: those whose receipt was never completed (history)
  served       \* served[m]: what the invocation that deleted m was to reach (history)

history == <<copies, unrecorded, served>>

vars == <<message, receipt, worker, faults, history>>

-----------------------------------------------------------------------------
Message == [state : {"visible", "held", "deleted", "dead"}, receives : 0..MaxReceives, age : 0..Visibility]

NoReceipt == [status |-> "absent"]

MaxAge == Lease + 1   \* older than this makes no difference

Receipt == [status : {"IN_FLIGHT", "DONE"}, token : Workers, by : Messages, age : 0..MaxAge]

Idle == [pc |-> "idle"]

Between == [pc : {"next"}, message : Messages, route : Routes, todo : SUBSET Channels,
            failed : BOOLEAN, age : 0..Timeout]

Delivering == [pc : {"send", "complete", "release"}, message : Messages, route : Routes,
               todo : SUBSET Channels, failed : BOOLEAN, age : 0..Timeout, channel : Channels]

TypeOK ==
  /\ message \in [Messages -> Message]
  /\ receipt \in [Channels -> {NoReceipt} \cup Receipt]
  /\ worker \in [Workers -> {Idle} \cup Between \cup Delivering]
  /\ faults \in 0..MaxFaults
  /\ copies \in [Channels -> Nat]
  /\ unrecorded \in [Channels -> Nat]
  /\ served \in [Messages -> SUBSET Channels]

Init ==
  /\ message = [m \in Messages |-> [state |-> "visible", receives |-> 0, age |-> 0]]
  /\ receipt = [c \in Channels |-> NoReceipt]
  /\ worker = [w \in Workers |-> Idle]
  /\ faults = MaxFaults
  /\ copies = [c \in Channels |-> 0]
  /\ unrecorded = [c \in Channels |-> 0]
  /\ served = [m \in Messages |-> {}]

Fault == faults > 0 /\ faults' = faults - 1

-----------------------------------------------------------------------------
(* The notifier                                                            *)

(* The loop goes on after channel c, which failed or did not.              *)
After(w, c, failed) ==
  worker' = [worker EXCEPT ![w] =
    [pc |-> "next", message |-> @.message, route |-> @.route, todo |-> @.todo \ {c},
     failed |-> @.failed \/ failed, age |-> @.age]]

Goto(w, pc) == worker' = [worker EXCEPT ![w].pc = pc]

(* A message with nothing to send, and one not to be sent by the settings, *)
(* have an empty route.                                                    *)
Receive(w, m) ==
  /\ worker[w] = Idle
  /\ message[m].state = "visible"
  /\ message' = [message EXCEPT ![m] = [state |-> "held", receives |-> @.receives + 1, age |-> 0]]
  /\ \E route \in Routes :
       worker' = [worker EXCEPT ![w] = [pc |-> "next", message |-> m, route |-> route, todo |-> route,
                                        failed |-> FALSE, age |-> 0]]
  /\ UNCHANGED <<receipt, faults, history>>

NeverExpired(c) == FALSE

Expired(c) == receipt[c].status = "IN_FLIGHT" /\ receipt[c].age > Lease

ReservableUnlessHeld(c) == receipt[c].status # "IN_FLIGHT" \/ Expired(c)

Reservable(c) == receipt[c].status = "absent" \/ Expired(c)

SkippableIfTaken(c) == TRUE

(* AlreadyDelivered; any other receipt raises DeliveryBusy.                *)
Skippable(c) == receipt[c].status = "DONE"

LeaseWithoutEnd(w) == [status |-> "IN_FLIGHT", token |-> w, by |-> worker[w].message]

NewLease(w) == [status |-> "IN_FLIGHT", token |-> w, by |-> worker[w].message, age |-> 0]

(* DeliveryState.delivery, up to its yield: the conditional put, and the    *)
(* read that says why it was refused.                                      *)
Reserve(w, c) ==
  /\ worker[w].pc = "next"
  /\ c \in worker[w].todo
  /\ \/ /\ Reservable(c)
        /\ receipt' = [receipt EXCEPT ![c] = NewLease(w)]
        /\ \/ /\ worker' = [worker EXCEPT ![w] =
                   [pc |-> "send", message |-> @.message, route |-> @.route, todo |-> @.todo,
                    failed |-> @.failed, age |-> @.age, channel |-> c]]
              /\ UNCHANGED faults
           \/ After(w, c, TRUE) /\ Fault
     \/ /\ ~Reservable(c)
        /\ After(w, c, ~Skippable(c))
        /\ UNCHANGED <<receipt, faults>>
     \/ /\ After(w, c, TRUE)
        /\ Fault
        /\ UNCHANGED receipt
  /\ UNCHANGED <<message, history>>

(* The channel's own call: an error status, an exception or a timeout       *)
(* raises, whether or not the notification arrived.                        *)
Send(w) ==
  /\ worker[w].pc = "send"
  /\ LET c == worker[w].channel IN
     \/ /\ copies' = [copies EXCEPT ![c] = @ + 1]
        /\ \/ Goto(w, "complete") /\ UNCHANGED <<faults, unrecorded>>
           \/ /\ Goto(w, "release")
              /\ Fault
              /\ unrecorded' = [unrecorded EXCEPT ![c] = @ + 1]
     \/ /\ Goto(w, "release")
        /\ Fault
        /\ UNCHANGED <<copies, unrecorded>>
  /\ UNCHANGED <<message, receipt, served>>

HoldsReceipt(w) == receipt[worker[w].channel].status # "absent" /\ receipt[worker[w].channel].token = w

(* The receipt's completion; a write that raises or is refused fails the    *)
(* channel.                                                                *)
Complete(w) ==
  /\ worker[w].pc = "complete"
  /\ LET c == worker[w].channel IN
     \/ /\ HoldsReceipt(w)
        /\ receipt' = [receipt EXCEPT ![c].status = "DONE"]
        /\ \/ After(w, c, FALSE) /\ UNCHANGED faults
           \/ After(w, c, TRUE) /\ Fault
        /\ UNCHANGED unrecorded
     \/ /\ After(w, c, TRUE)
        /\ IF HoldsReceipt(w) THEN Fault ELSE UNCHANGED faults
        /\ unrecorded' = [unrecorded EXCEPT ![c] = @ + 1]
        /\ UNCHANGED receipt
  /\ UNCHANGED <<message, copies, served>>

(* The receipt's release after a failure.                                  *)
Release(w) ==
  /\ worker[w].pc = "release"
  /\ LET c == worker[w].channel IN
     /\ \/ /\ HoldsReceipt(w)
           /\ receipt' = [receipt EXCEPT ![c] = NoReceipt]
           /\ UNCHANGED faults
        \/ /\ IF HoldsReceipt(w) THEN Fault ELSE UNCHANGED faults
           /\ UNCHANGED receipt
     /\ After(w, c, TRUE)
  /\ UNCHANGED <<message, history>>

(* A message none of whose channels failed is deleted; one reported in      *)
(* batchItemFailures is left alone.                                        *)
Finish(w) ==
  /\ worker[w].pc = "next"
  /\ worker[w].todo = {}
  /\ IF worker[w].failed
     THEN UNCHANGED <<message, served>>
     ELSE /\ message' = [message EXCEPT ![worker[w].message].state = "deleted"]
          /\ served' = [served EXCEPT ![worker[w].message] = worker[w].route]
  /\ worker' = [worker EXCEPT ![w] = Idle]
  /\ UNCHANGED <<receipt, faults, copies, unrecorded>>

Unrecorded(dead) ==
  [c \in Channels |-> unrecorded[c] +
     IF \E w \in dead : worker[w].pc = "complete" /\ worker[w].channel = c THEN 1 ELSE 0]

(* The invocation dies, or cannot read the settings.                       *)
Crash(w) ==
  /\ worker[w] # Idle
  /\ Fault
  /\ worker' = [worker EXCEPT ![w] = Idle]
  /\ unrecorded' = Unrecorded({w})
  /\ UNCHANGED <<message, receipt, copies, served>>

-----------------------------------------------------------------------------
(* The queue and the clock                                                 *)

(* The visibility timeout of a message not deleted.                        *)
Return(m) ==
  /\ message[m].state = "held"
  /\ message[m].age = Visibility
  /\ message' = [message EXCEPT
       ![m].state = IF message[m].receives < MaxReceives THEN "visible" ELSE "dead"]
  /\ UNCHANGED <<receipt, worker, faults, history>>

(* An invocation that is not done at its timeout is killed, which is a      *)
(* fault; time waits for it to end one way or another.                     *)
Tick ==
  /\ \A w \in Workers : worker[w] # Idle => worker[w].age < Timeout
  /\ worker' = [w \in Workers |-> IF worker[w] = Idle THEN Idle ELSE [worker[w] EXCEPT !.age = @ + 1]]
  /\ message' = [m \in Messages |->
       IF message[m].state = "held" /\ message[m].age < Visibility
       THEN [message[m] EXCEPT !.age = @ + 1] ELSE message[m]]
  /\ receipt' = [c \in Channels |->
       IF receipt[c].status = "IN_FLIGHT" /\ receipt[c].age < MaxAge
       THEN [receipt[c] EXCEPT !.age = @ + 1] ELSE receipt[c]]
  /\ UNCHANGED <<faults, history>>

-----------------------------------------------------------------------------
Deliver(w) ==
  \/ \E c \in Channels : Reserve(w, c)
  \/ Send(w)
  \/ Complete(w)
  \/ Release(w)
  \/ Finish(w)

Next ==
  \/ \E w \in Workers, m \in Messages : Receive(w, m)
  \/ \E w \in Workers : Deliver(w)
  \/ \E w \in Workers : Crash(w)
  \/ \E m \in Messages : Return(m)
  \/ Tick

Spec == Init /\ [][Next]_vars

(* Lambda polls the queue and runs what it invokes; time passes.           *)
Fairness ==
  /\ \A m \in Messages : SF_vars(\E w \in Workers : Receive(w, m))
  /\ \A w \in Workers : WF_vars(Deliver(w))
  /\ \A m \in Messages : WF_vars(Return(m))
  /\ WF_vars(Tick)

FairSpec == Spec /\ Fairness

-----------------------------------------------------------------------------
(* Properties                                                              *)

(* A message is deleted only when the notification reached every channel    *)
(* the settings asked for, by whichever invocation or duplicate.           *)
DeletedMeansDelivered ==
  \A m \in Messages : \A c \in served[m] : copies[c] > 0

(* A recorded success is never repeated: a channel gets another copy only   *)
(* if no receipt was completed for the ones before.                        *)
RecordedNeverRepeated == \A c \in Channels : copies[c] <= unrecorded[c] + 1

(* If Timely, one invocation at a time delivers to a channel, so no claim   *)
(* on a receipt is ever lost to another.                                   *)
OneSender ==
  \A w \in Workers : worker[w].pc \in {"send", "complete", "release"} => HoldsReceipt(w)

(* If Timely, a message that comes back never meets the lease of its own    *)
(* earlier delivery.                                                       *)
BackMeansExpired ==
  \A m \in Messages, c \in Channels :
    message[m].state = "visible" /\ receipt[c].status = "IN_FLIGHT" /\ receipt[c].by = m => Expired(c)

(* If Timely, and with fewer faults than receives, the notification reaches *)
(* every channel that the settings keep asking for: a delivery that died    *)
(* does not block those after it, however the duplicates' deliveries fall. *)
EventuallyDelivered ==
  \A c \in Channels : (\A route \in Routes : c \in route) => <>(copies[c] > 0)
=============================================================================
