-------------------------- MODULE Notifier_proofs --------------------------
(***************************************************************************)
(* Proofs about Notifier, for any messages, channels, settings, workers and *)
(* limits.  Those of the second part assume Timely, the order in which the  *)
(* timeout of the function, the lease and the visibility timeout are        *)
(* deployed.                                                               *)
(***************************************************************************)
EXTENDS Notifier, TLAPS

USE NotifierAssumption DEF NotifierAssumption, MaxAge

-----------------------------------------------------------------------------
(* Types                                                                   *)

Holding == {"send", "complete", "release"}

LEMMA DeliveringType ==
  ASSUME TypeOK, NEW w \in Workers, worker[w].pc \in Holding
  PROVE  worker[w] \in Delivering
BY DEF TypeOK, Idle, Between, Holding

LEMMA BetweenType ==
  ASSUME TypeOK, NEW w \in Workers, worker[w].pc = "next"
  PROVE  worker[w] \in Between
BY DEF TypeOK, Idle, Delivering

LEMMA BusyType ==
  ASSUME TypeOK, NEW w \in Workers, worker[w] # Idle
  PROVE  /\ worker[w].pc \in {"next"} \cup Holding
         /\ worker[w].message \in Messages
         /\ worker[w].route \in Routes
         /\ worker[w].todo \in SUBSET Channels
         /\ worker[w].failed \in BOOLEAN
         /\ worker[w].age \in 0..Timeout
BY DEF TypeOK, Between, Delivering, Holding

LEMMA LeaseType ==
  ASSUME TypeOK, NEW c \in Channels, receipt[c].status \in {"IN_FLIGHT", "DONE"}
  PROVE  receipt[c] \in Receipt
BY DEF TypeOK, NoReceipt

LEMMA AfterType ==
  ASSUME TypeOK, NEW w \in Workers, worker[w] # Idle, NEW c \in Channels,
         NEW failed \in BOOLEAN, After(w, c, failed)
  PROVE  worker' \in [Workers -> {Idle} \cup Between \cup Delivering]
<1>1. [pc |-> "next", message |-> worker[w].message, route |-> worker[w].route,
       todo |-> worker[w].todo \ {c}, failed |-> worker[w].failed \/ failed,
       age |-> worker[w].age] \in Between
  BY BusyType DEF Between
<1> QED
  BY <1>1 DEF TypeOK, After

LEMMA GotoType ==
  ASSUME TypeOK, NEW w \in Workers, worker[w].pc \in Holding, NEW pc \in Holding, Goto(w, pc)
  PROVE  worker' \in [Workers -> {Idle} \cup Between \cup Delivering]
<1>1. [worker[w] EXCEPT !.pc = pc] \in Delivering
  BY DeliveringType DEF Delivering, Holding
<1> QED
  BY <1>1 DEF TypeOK, Goto

LEMMA FaultType ==
  ASSUME TypeOK, Fault \/ UNCHANGED faults
  PROVE  faults' \in 0..MaxFaults
BY DEF TypeOK, Fault

LEMMA CountType ==
  ASSUME NEW counts \in [Channels -> Nat], NEW c \in Channels
  PROVE  [counts EXCEPT ![c] = @ + 1] \in [Channels -> Nat]
OBVIOUS

LEMMA DoneType ==
  ASSUME TypeOK, NEW c \in Channels, receipt[c].status # "absent"
  PROVE  [receipt EXCEPT ![c].status = "DONE"] \in [Channels -> {NoReceipt} \cup Receipt]
<1>1. receipt[c] \in Receipt
  BY DEF TypeOK, NoReceipt
<1>2. [receipt[c] EXCEPT !.status = "DONE"] \in Receipt
  BY <1>1 DEF Receipt
<1> QED
  BY <1>2 DEF TypeOK

(* A visible message has not been received as often as it may be.          *)
RetryInv == \A m \in Messages : message[m].state = "visible" => message[m].receives < MaxReceives

LEMMA InitType == Init => TypeOK /\ RetryInv
BY DEF Init, TypeOK, RetryInv, Message

LEMMA ReceiveType ==
  ASSUME TypeOK, RetryInv, NEW w \in Workers, NEW m \in Messages, Receive(w, m)
  PROVE  TypeOK' /\ RetryInv'
<1>1. message' \in [Messages -> Message] /\ RetryInv'
  BY DEF Receive, TypeOK, Message, RetryInv
<1>2. worker' \in [Workers -> {Idle} \cup Between \cup Delivering]
  BY DEF Receive, TypeOK, Between
<1> QED
  BY <1>1, <1>2 DEF Receive, TypeOK, history

LEMMA ReserveType ==
  ASSUME TypeOK, NEW w \in Workers, NEW c \in Channels, Reserve(w, c)
  PROVE  TypeOK' /\ message' = message
<1>1. worker[w] \in Between /\ worker[w] # Idle
  BY BetweenType DEF Reserve, Between, Idle
<1>2. CASE UNCHANGED receipt /\ \E failed \in BOOLEAN : After(w, c, failed)
  <2>1. worker' \in [Workers -> {Idle} \cup Between \cup Delivering]
    BY <1>1, <1>2, AfterType
  <2>2. faults' \in 0..MaxFaults
    BY FaultType DEF Reserve
  <2> QED
    BY <1>2, <2>1, <2>2 DEF Reserve, TypeOK, history
<1>3. CASE receipt' = [receipt EXCEPT ![c] = NewLease(w)]
  <2>1. NewLease(w) \in Receipt
    BY <1>1 DEF NewLease, Receipt, Between
  <2>2. worker' \in [Workers -> {Idle} \cup Between \cup Delivering]
    <3>1. CASE After(w, c, TRUE)
      BY <1>1, <3>1, AfterType
    <3>2. CASE worker' = [worker EXCEPT ![w] =
                   [pc |-> "send", message |-> @.message, route |-> @.route, todo |-> @.todo,
                    failed |-> @.failed, age |-> @.age, channel |-> c]]
      <4>1. [pc |-> "send", message |-> worker[w].message, route |-> worker[w].route,
             todo |-> worker[w].todo, failed |-> worker[w].failed, age |-> worker[w].age,
             channel |-> c] \in Delivering
        BY <1>1 DEF Between, Delivering
      <4> QED
        BY <3>2, <4>1 DEF TypeOK
    <3>3. CASE ~Reservable(c) /\ After(w, c, ~Skippable(c))
      BY <1>1, <3>3, AfterType DEF Skippable
    <3> QED
      BY <3>1, <3>2, <3>3 DEF Reserve
  <2> QED
    BY <1>3, <2>1, <2>2, FaultType DEF Reserve, TypeOK, history
<1> QED
  BY <1>2, <1>3 DEF Reserve, Skippable

LEMMA SendType ==
  ASSUME TypeOK, NEW w \in Workers, Send(w)
  PROVE  TypeOK' /\ message' = message
<1>1. worker[w].pc \in Holding
  BY DEF Send, Holding
<1>2. worker[w].channel \in Channels
  BY <1>1, DeliveringType DEF Delivering
<1>3. worker' \in [Workers -> {Idle} \cup Between \cup Delivering]
  <2>1. PICK pc \in Holding : Goto(w, pc)
    BY DEF Send, Holding
  <2> QED
    BY <1>1, <2>1, GotoType
<1>4. faults' \in 0..MaxFaults
  BY FaultType DEF Send
<1>5. copies' \in [Channels -> Nat] /\ unrecorded' \in [Channels -> Nat]
  BY <1>2, CountType DEF Send, TypeOK
<1> QED
  BY <1>3, <1>4, <1>5 DEF Send, TypeOK

LEMMA CompleteType ==
  ASSUME TypeOK, NEW w \in Workers, Complete(w)
  PROVE  TypeOK' /\ message' = message
<1>1. worker[w].pc \in Holding /\ worker[w] # Idle
  BY DEF Complete, Holding, Idle
<1>2. worker[w].channel \in Channels
  BY <1>1, DeliveringType DEF Delivering
<1>3. worker' \in [Workers -> {Idle} \cup Between \cup Delivering]
  <2>1. PICK failed \in BOOLEAN : After(w, worker[w].channel, failed)
    BY DEF Complete
  <2> QED
    BY <1>1, <1>2, <2>1, AfterType
<1>4. receipt' \in [Channels -> {NoReceipt} \cup Receipt]
  BY <1>2, DoneType DEF Complete, HoldsReceipt, TypeOK
<1>5. faults' \in 0..MaxFaults
  BY FaultType DEF Complete
<1>6. unrecorded' \in [Channels -> Nat]
  <2>1. unrecorded \in [Channels -> Nat]
    BY DEF TypeOK
  <2>2. [unrecorded EXCEPT ![worker[w].channel] = @ + 1] \in [Channels -> Nat]
    BY <1>2, <2>1
  <2> QED
    BY <2>1, <2>2 DEF Complete
<1> QED
  BY <1>3, <1>4, <1>5, <1>6 DEF Complete, TypeOK

LEMMA ReleaseType ==
  ASSUME TypeOK, NEW w \in Workers, Release(w)
  PROVE  TypeOK' /\ message' = message
<1>1. worker[w].pc \in Holding /\ worker[w] # Idle
  BY DEF Release, Holding, Idle
<1>2. worker[w].channel \in Channels
  BY <1>1, DeliveringType DEF Delivering
<1>3. worker' \in [Workers -> {Idle} \cup Between \cup Delivering]
  BY <1>1, <1>2, AfterType DEF Release
<1>4. receipt' \in [Channels -> {NoReceipt} \cup Receipt]
  BY <1>2 DEF Release, TypeOK
<1>5. faults' \in 0..MaxFaults
  BY FaultType DEF Release
<1> QED
  BY <1>3, <1>4, <1>5 DEF Release, TypeOK, history

LEMMA FinishType ==
  ASSUME TypeOK, RetryInv, NEW w \in Workers, Finish(w)
  PROVE  TypeOK' /\ RetryInv'
<1>1. worker[w] \in Between
  BY BetweenType DEF Finish
<1>2. worker[w].message \in Messages /\ worker[w].route \in SUBSET Channels
  BY <1>1 DEF Between
<1>3. message' \in [Messages -> Message] /\ RetryInv'
  <2>1. [message[worker[w].message] EXCEPT !.state = "deleted"] \in Message
    BY <1>2 DEF TypeOK, Message
  <2> QED
    BY <1>2, <2>1 DEF Finish, TypeOK, RetryInv, Message
<1>4. served' \in [Messages -> SUBSET Channels]
  BY <1>2 DEF Finish, TypeOK
<1> QED
  BY <1>3, <1>4 DEF Finish, TypeOK

LEMMA CrashType ==
  ASSUME TypeOK, RetryInv, NEW w \in Workers, Crash(w)
  PROVE  TypeOK' /\ RetryInv'
BY DEF Crash, Fault, Unrecorded, TypeOK, RetryInv

LEMMA ReturnType ==
  ASSUME TypeOK, RetryInv, NEW m \in Messages, Return(m)
  PROVE  TypeOK' /\ RetryInv'
BY DEF Return, TypeOK, RetryInv, Message, history

LEMMA TickType ==
  ASSUME TypeOK, RetryInv, Tick
  PROVE  TypeOK' /\ RetryInv'
<1>1. ASSUME NEW w \in Workers, worker[w] # Idle
      PROVE  [worker[w] EXCEPT !.age = @ + 1] \in Between \cup Delivering
  <2>1. worker[w].age + 1 \in 0..Timeout
    BY <1>1, BusyType DEF Tick
  <2>2. worker[w] \in Between \cup Delivering
    BY <1>1 DEF TypeOK
  <2> QED
    BY <2>1, <2>2 DEF Between, Delivering
<1>2. worker' \in [Workers -> {Idle} \cup Between \cup Delivering]
  BY <1>1 DEF Tick
<1>3. message' \in [Messages -> Message] /\ RetryInv'
  BY DEF Tick, TypeOK, Message, RetryInv
<1>4. receipt' \in [Channels -> {NoReceipt} \cup Receipt]
  BY DEF Tick, TypeOK, Receipt, NoReceipt
<1> QED
  BY <1>2, <1>3, <1>4 DEF Tick, TypeOK, history

LEMMA StepType == TypeOK /\ RetryInv /\ [Next]_vars => TypeOK' /\ RetryInv'
<1> SUFFICES ASSUME TypeOK, RetryInv, [Next]_vars
             PROVE  TypeOK' /\ RetryInv'
  OBVIOUS
<1>1. ASSUME NEW w \in Workers, Deliver(w)
      PROVE  TypeOK' /\ RetryInv'
  BY <1>1, ReserveType, SendType, CompleteType, ReleaseType, FinishType DEF Deliver, RetryInv
<1>2. CASE UNCHANGED vars
  BY <1>2 DEF vars, history, TypeOK, RetryInv
<1> QED
  BY <1>1, <1>2, ReceiveType, CrashType, ReturnType, TickType DEF Next

(* Whatever the order of the timeouts, the state has its type.             *)
THEOREM TypeCorrect == Spec => []TypeOK
<1>1. Spec => [](TypeOK /\ RetryInv)
  BY InitType, StepType, PTL DEF Spec
<1> QED
  BY <1>1, PTL

-----------------------------------------------------------------------------
(* What an invocation's step leaves of it and of the others                *)

LEMMA DeliverFrame ==
  ASSUME TypeOK, NEW w \in Workers, Deliver(w) \/ Crash(w)
  PROVE  /\ worker[w] # Idle
         /\ \A v \in Workers : v # w => worker'[v] = worker[v]
         /\ \/ worker'[w] = Idle
            \/ /\ worker'[w] # Idle
               /\ worker'[w].message = worker[w].message
               /\ worker'[w].route = worker[w].route
               /\ worker'[w].age = worker[w].age
<1>1. worker[w] # Idle
  <2>1. CASE \E c \in Channels : Reserve(w, c)
    BY <2>1 DEF Reserve, Idle
  <2>2. CASE worker[w].pc \in {"next"} \cup Holding
    BY <2>2 DEF Idle, Holding
  <2>3. CASE Crash(w)
    BY <2>3 DEF Crash
  <2> QED
    BY <2>1, <2>2, <2>3 DEF Deliver, Send, Complete, Release, Finish, Holding
<1>2. ASSUME NEW c \in Channels, NEW failed \in BOOLEAN, After(w, c, failed)
      PROVE  /\ \A v \in Workers : v # w => worker'[v] = worker[v]
             /\ worker'[w] # Idle
             /\ worker'[w].message = worker[w].message
             /\ worker'[w].route = worker[w].route
             /\ worker'[w].age = worker[w].age
  BY <1>2 DEF After, TypeOK, Idle
<1>3. CASE Finish(w) \/ Crash(w)
  BY <1>1, <1>3 DEF Finish, Crash, TypeOK
<1>4. ASSUME NEW c \in Channels, Reserve(w, c)
      PROVE  /\ \A v \in Workers : v # w => worker'[v] = worker[v]
             /\ worker'[w] # Idle
             /\ worker'[w].message = worker[w].message
             /\ worker'[w].route = worker[w].route
             /\ worker'[w].age = worker[w].age
  <2>1. CASE \E failed \in BOOLEAN : After(w, c, failed)
    BY <1>2, <2>1
  <2>2. CASE worker' = [worker EXCEPT ![w] =
                   [pc |-> "send", message |-> @.message, route |-> @.route, todo |-> @.todo,
                    failed |-> @.failed, age |-> @.age, channel |-> c]]
    BY <2>2 DEF TypeOK, Idle
  <2> QED
    BY <1>4, <2>1, <2>2 DEF Reserve, Skippable
<1>5. ASSUME worker[w].pc \in Holding, NEW pc \in Holding, Goto(w, pc)
      PROVE  /\ \A v \in Workers : v # w => worker'[v] = worker[v]
             /\ worker'[w] # Idle
             /\ worker'[w].message = worker[w].message
             /\ worker'[w].route = worker[w].route
             /\ worker'[w].age = worker[w].age
  <2>1. worker' = [worker EXCEPT ![w] = [worker[w] EXCEPT !.pc = pc]]
    BY <1>5 DEF Goto
  <2>2. worker[w] \in Delivering
    BY <1>5, DeliveringType
  <2> QED
    BY <2>1, <2>2 DEF TypeOK, Delivering, Idle, Holding
<1>6. CASE Send(w)
  <2>1. \E pc \in Holding : Goto(w, pc)
    BY <1>6 DEF Send, Holding
  <2>2. worker[w].pc \in Holding
    BY <1>6 DEF Send, Holding
  <2> QED
    BY <1>1, <1>5, <2>1, <2>2
<1>7. CASE Complete(w) \/ Release(w)
  <2>1. \E failed \in BOOLEAN : After(w, worker[w].channel, failed)
    BY <1>7 DEF Complete, Release
  <2>2. worker[w].channel \in Channels
    BY <1>7, DeliveringType DEF Complete, Release, Holding, Delivering
  <2> QED
    BY <1>1, <1>2, <2>1, <2>2
<1> QED
  BY <1>1, <1>3, <1>4, <1>6, <1>7 DEF Deliver

LEMMA TickFrame ==
  ASSUME TypeOK, Tick, NEW w \in Workers
  PROVE  /\ worker[w] = Idle => worker'[w] = Idle
         /\ worker[w] # Idle =>
              /\ worker'[w] # Idle
              /\ worker'[w].pc = worker[w].pc
              /\ worker'[w].message = worker[w].message
              /\ worker'[w].route = worker[w].route
              /\ worker'[w].todo = worker[w].todo
              /\ worker'[w].failed = worker[w].failed
              /\ worker'[w].age = worker[w].age + 1
              /\ worker[w].pc \in Holding => worker'[w].channel = worker[w].channel
<1>1. CASE worker[w] = Idle
  BY <1>1 DEF Tick
<1>2. CASE worker[w] # Idle
  <2>1. worker'[w] = [worker[w] EXCEPT !.age = @ + 1]
    BY <1>2 DEF Tick
  <2>2. worker[w] \in Between \/ worker[w] \in Delivering
    BY <1>2 DEF TypeOK
  <2>3. worker'[w].pc = worker[w].pc /\ worker[w].pc \in {"next"} \cup Holding
    BY <2>1, <2>2 DEF Between, Delivering, Holding
  <2>4. worker'[w] # Idle
    BY <2>3 DEF Idle, Holding
  <2>5. worker[w].pc \in Holding => worker[w] \in Delivering
    BY DeliveringType
  <2> QED
    BY <1>2, <2>1, <2>2, <2>3, <2>4, <2>5 DEF Between, Delivering
<1> QED
  BY <1>1, <1>2

-----------------------------------------------------------------------------
(* What was recorded, passed over or deleted had reached its channel.      *)
ReachedInv ==
  /\ \A c \in Channels : receipt[c].status = "DONE" => copies[c] > 0
  /\ \A w \in Workers : worker[w].pc = "complete" => copies[worker[w].channel] > 0
  /\ \A w \in Workers :
       worker[w] # Idle /\ ~worker[w].failed =>
         \A c \in worker[w].route \ worker[w].todo : copies[c] > 0
  /\ DeletedMeansDelivered

(* A channel that is left behind was reached or makes its message fail.    *)
LEMMA ReachedAfter ==
  ASSUME TypeOK, TypeOK', ReachedInv, NEW w \in Workers, worker[w] # Idle, NEW c \in Channels,
         NEW failed \in BOOLEAN, After(w, c, failed), failed \/ copies[c] > 0,
         \A d \in Channels : receipt'[d].status = "DONE" => receipt[d].status = "DONE" \/ copies[d] > 0,
         UNCHANGED <<copies, served>>
  PROVE  ReachedInv'
<1>1. worker'[w] = [pc |-> "next", message |-> worker[w].message, route |-> worker[w].route,
                    todo |-> worker[w].todo \ {c}, failed |-> worker[w].failed \/ failed,
                    age |-> worker[w].age]
      /\ \A v \in Workers : v # w => worker'[v] = worker[v]
  BY DEF After, TypeOK
<1>2. ASSUME NEW v \in Workers, worker'[v].pc = "complete" PROVE copies'[worker'[v].channel] > 0
  BY <1>1, <1>2 DEF ReachedInv
<1>3. ASSUME NEW v \in Workers, worker'[v] # Idle, ~worker'[v].failed,
             NEW d \in worker'[v].route \ worker'[v].todo
      PROVE  copies'[d] > 0
  <2>1. CASE v # w
    BY <1>1, <1>3, <2>1 DEF ReachedInv
  <2>2. CASE v = w
    <3>1. ~worker[w].failed /\ ~failed
      BY <1>1, <1>3, <2>2, BusyType
    <3>2. d = c \/ d \in worker[w].route \ worker[w].todo
      BY <1>1, <1>3, <2>2
    <3> QED
      BY <3>1, <3>2 DEF ReachedInv
  <2> QED
    BY <2>1, <2>2
<1> QED
  BY <1>2, <1>3 DEF ReachedInv, DeletedMeansDelivered

LEMMA ReachedDeliver ==
  ASSUME TypeOK, TypeOK', ReachedInv, NEW w \in Workers, Deliver(w)
  PROVE  ReachedInv'
<1>1. worker[w] # Idle /\ \A v \in Workers : v # w => worker'[v] = worker[v]
  BY DeliverFrame
<1>2. ASSUME NEW c \in Channels, Reserve(w, c) PROVE ReachedInv'
  <2>1. \A d \in Channels : receipt'[d].status = "DONE" => receipt[d].status = "DONE"
    <3>1. receipt' = receipt \/ receipt' = [receipt EXCEPT ![c] = NewLease(w)]
      BY <1>2 DEF Reserve
    <3>2. NewLease(w).status = "IN_FLIGHT"
      BY DEF NewLease
    <3> QED
      BY <3>1, <3>2 DEF TypeOK
  <2>2. CASE \E failed \in BOOLEAN : After(w, c, failed) /\ (failed \/ copies[c] > 0)
    BY <1>1, <1>2, <2>1, <2>2, ReachedAfter DEF Reserve, history
  <2>3. CASE worker' = [worker EXCEPT ![w] =
                   [pc |-> "send", message |-> @.message, route |-> @.route, todo |-> @.todo,
                    failed |-> @.failed, age |-> @.age, channel |-> c]]
    <3>1. worker'[w].pc = "send" /\ worker'[w].route = worker[w].route
          /\ worker'[w].todo = worker[w].todo /\ worker'[w].failed = worker[w].failed
      BY <2>3 DEF TypeOK
    <3> QED
      BY <1>1, <1>2, <2>1, <3>1 DEF Reserve, history, ReachedInv, DeletedMeansDelivered
  <2>4. CASE ~Reservable(c) /\ After(w, c, ~Skippable(c))
    BY <2>2, <2>4 DEF Skippable, ReachedInv
  <2> QED
    BY <1>2, <2>2, <2>3, <2>4 DEF Reserve
<1>3. CASE Send(w)
  <2>1. worker[w] \in Delivering /\ worker[w].channel \in Channels
    BY <1>3, DeliveringType DEF Send, Holding, Delivering
  <2>2. PICK pc \in {"complete", "release"} :
          /\ Goto(w, pc)
          /\ pc = "complete" => copies' = [copies EXCEPT ![worker[w].channel] = @ + 1]
    BY <1>3 DEF Send
  <2>3. worker'[w].pc = pc /\ worker'[w].channel = worker[w].channel
        /\ worker'[w].route = worker[w].route /\ worker'[w].todo = worker[w].todo
        /\ worker'[w].failed = worker[w].failed
    BY <2>1, <2>2 DEF Goto, TypeOK, Delivering
  <2>4. \A c \in Channels : copies'[c] >= copies[c]
    BY <1>3, <2>1 DEF Send, TypeOK
  <2>5. pc = "complete" => copies'[worker[w].channel] > 0
    BY <2>1, <2>2 DEF TypeOK
  <2>6. \A c \in Channels : copies[c] \in Nat /\ copies'[c] \in Nat
    BY DEF TypeOK
  <2>7. \A v \in Workers : worker[v].pc = "complete" => worker[v].channel \in Channels
    BY DeliveringType DEF Holding, Delivering
  <2>8. \A v \in Workers : worker[v] # Idle => worker[v].route \subseteq Channels
    BY BusyType
  <2>9. receipt' = receipt /\ served' = served
    BY <1>3 DEF Send
  <2>10. \A m \in Messages : served[m] \subseteq Channels
    BY DEF TypeOK
  <2>11. \A c \in Channels : copies[c] > 0 => copies'[c] > 0
    BY <2>4, <2>6
  <2>12. DeletedMeansDelivered'
    BY <2>9, <2>10, <2>11 DEF ReachedInv, DeletedMeansDelivered
  <2> QED
    BY <1>1, <2>1, <2>2, <2>3, <2>5, <2>7, <2>8, <2>9, <2>11, <2>12 DEF ReachedInv
<1>4. CASE Complete(w)
  <2>1. worker[w].channel \in Channels /\ copies[worker[w].channel] > 0
    BY <1>4, DeliveringType DEF Complete, Holding, Delivering, ReachedInv
  <2>2. PICK failed \in BOOLEAN : After(w, worker[w].channel, failed)
    BY <1>4 DEF Complete
  <2>3. \A d \in Channels : receipt'[d].status = "DONE" => receipt[d].status = "DONE" \/ copies[d] > 0
    BY <1>4, <2>1 DEF Complete, TypeOK
  <2> QED
    BY <1>1, <1>4, <2>1, <2>2, <2>3, ReachedAfter DEF Complete
<1>5. CASE Release(w)
  <2>1. worker[w].channel \in Channels
    BY <1>5, DeliveringType DEF Release, Holding, Delivering
  <2>2. \A d \in Channels : receipt'[d].status = "DONE" => receipt[d].status = "DONE"
    BY <1>5, <2>1 DEF Release, TypeOK, NoReceipt
  <2> QED
    BY <1>1, <1>5, <2>1, <2>2, ReachedAfter DEF Release, history
<1>6. CASE Finish(w)
  <2>1. worker[w] \in Between
    BY <1>6, BetweenType DEF Finish
  <2>2. ~worker[w].failed => \A c \in worker[w].route : copies[c] > 0
    BY <1>1, <1>6 DEF Finish, ReachedInv
  <2>3. DeletedMeansDelivered'
    BY <1>6, <2>1, <2>2 DEF Finish, ReachedInv, DeletedMeansDelivered, TypeOK, Between
  <2>4. worker'[w] = Idle
    BY <1>6 DEF Finish, TypeOK
  <2> QED
    BY <1>1, <1>6, <2>3, <2>4 DEF Finish, ReachedInv, Idle
<1> QED
  BY <1>2, <1>3, <1>4, <1>5, <1>6 DEF Deliver

LEMMA ReachedStep == TypeOK /\ TypeOK' /\ ReachedInv /\ [Next]_vars => ReachedInv'
<1> SUFFICES ASSUME TypeOK, TypeOK', ReachedInv, [Next]_vars
             PROVE  ReachedInv'
  OBVIOUS
<1>1. ASSUME NEW w \in Workers, NEW m \in Messages, Receive(w, m) PROVE ReachedInv'
  <2>1. /\ worker'[w].pc = "next" /\ worker'[w].todo = worker'[w].route
        /\ \A v \in Workers : v # w => worker'[v] = worker[v]
    BY <1>1 DEF Receive, TypeOK
  <2> QED
    BY <1>1, <2>1 DEF Receive, history, ReachedInv, DeletedMeansDelivered
<1>2. ASSUME NEW w \in Workers, Crash(w) PROVE ReachedInv'
  <2>1. worker'[w] = Idle /\ \A v \in Workers : v # w => worker'[v] = worker[v]
    BY <1>2 DEF Crash, TypeOK
  <2> QED
    BY <1>2, <2>1 DEF Crash, ReachedInv, DeletedMeansDelivered, Idle
<1>3. CASE Tick
  <2>1. \A c \in Channels : receipt'[c].status = receipt[c].status
    BY <1>3, LeaseType DEF Tick, Receipt
  <2> QED
    BY <1>3, <2>1, TickFrame DEF Tick, history, ReachedInv, DeletedMeansDelivered, Idle
<1>4. ASSUME NEW m \in Messages, Return(m) PROVE ReachedInv'
  BY <1>4 DEF Return, history, ReachedInv, DeletedMeansDelivered
<1>5. CASE UNCHANGED vars
  BY <1>5 DEF vars, history, ReachedInv, DeletedMeansDelivered
<1> QED
  BY <1>1, <1>2, <1>3, <1>4, <1>5, ReachedDeliver DEF Next

(* A message is deleted only when the notification reached every channel    *)
(* the settings asked for, whatever the order of the timeouts, however many *)
(* calls fail or invocations die.                                          *)
THEOREM DeletedIsDelivered == Spec => []DeletedMeansDelivered
<1>1. Init => ReachedInv
  BY DEF Init, ReachedInv, DeletedMeansDelivered, NoReceipt, Idle
<1>2. ReachedInv => DeletedMeansDelivered
  BY DEF ReachedInv
<1>3. Spec => []ReachedInv
  BY <1>1, ReachedStep, TypeCorrect, PTL DEF Spec
<1> QED
  BY <1>2, <1>3, PTL

-----------------------------------------------------------------------------
(* What rests on the order of the timeouts.  An invocation that delivers    *)
(* holds the lease it wrote, which is not older than itself.               *)
HasLease(w) ==
  LET r == receipt[worker[w].channel] IN
  /\ r.status = "IN_FLIGHT"
  /\ r.token = w
  /\ r.by = worker[w].message
  /\ r.age <= worker[w].age

LeaseInv == \A w \in Workers : worker[w].pc \in Holding => HasLease(w)

(* No step of another invocation touches such a lease.                     *)
LEMMA LeaseKept ==
  ASSUME Timely, TypeOK, LeaseInv, NEW w \in Workers, Deliver(w) \/ Crash(w),
         NEW v \in Workers, v # w, worker[v].pc \in Holding
  PROVE  receipt'[worker[v].channel] = receipt[worker[v].channel]
<1> DEFINE d == worker[v].channel
<1>1. /\ d \in Channels
      /\ worker[v].age \in 0..Timeout
      /\ receipt[d].status = "IN_FLIGHT" /\ receipt[d].token = v
      /\ receipt[d].age <= worker[v].age
      /\ receipt[d].age \in Nat
  BY DeliveringType, LeaseType DEF Delivering, LeaseInv, HasLease, Receipt
<1>2. ~Reservable(d)
  BY <1>1 DEF Reservable, Expired, Timely
<1>0. HoldsReceipt(w) => worker[w].channel # d
  BY <1>1 DEF HoldsReceipt
<1> HIDE DEF d
<1>3. ASSUME NEW c \in Channels, Reserve(w, c) PROVE receipt'[d] = receipt[d]
  <2>1. receipt' = receipt \/ (Reservable(c) /\ receipt' = [receipt EXCEPT ![c] = NewLease(w)])
    BY <1>3 DEF Reserve
  <2> QED
    BY <1>1, <1>2, <2>1 DEF TypeOK
<1>4. CASE Complete(w)
  <2>1. CASE UNCHANGED receipt
    BY <2>1
  <2>2. CASE HoldsReceipt(w) /\ receipt' = [receipt EXCEPT ![worker[w].channel].status = "DONE"]
    BY <1>0, <1>1, <2>2 DEF TypeOK, d
  <2> QED
    BY <1>4, <2>1, <2>2 DEF Complete
<1>5. CASE Release(w)
  <2>1. CASE UNCHANGED receipt
    BY <2>1
  <2>2. CASE HoldsReceipt(w) /\ receipt' = [receipt EXCEPT ![worker[w].channel] = NoReceipt]
    BY <1>0, <1>1, <2>2 DEF TypeOK, d
  <2> QED
    BY <1>5, <2>1, <2>2 DEF Release
<1>6. CASE Send(w) \/ Finish(w) \/ Crash(w)
  BY <1>6 DEF Send, Finish, Crash
<1> QED
  BY <1>3, <1>4, <1>5, <1>6 DEF Deliver, d

LEMMA LeaseDeliver ==
  ASSUME Timely, TypeOK, LeaseInv, NEW w \in Workers, Deliver(w) \/ Crash(w)
  PROVE  LeaseInv'
<1>1. /\ worker[w] # Idle
      /\ \A v \in Workers : v # w => worker'[v] = worker[v]
  BY DeliverFrame
<1>2. ASSUME NEW v \in Workers, v # w, worker'[v].pc \in Holding PROVE HasLease(v)'
  BY <1>1, <1>2, LeaseKept DEF LeaseInv, HasLease
<1>3. ASSUME worker'[w].pc \in Holding PROVE HasLease(w)'
  <2>1. ASSUME NEW c \in Channels, Reserve(w, c) PROVE HasLease(w)'
    <3>1. ASSUME NEW failed \in BOOLEAN, After(w, c, failed) PROVE FALSE
      <4>1. worker'[w].pc = "next"
        BY <3>1 DEF After, TypeOK
      <4> QED
        BY <1>3, <4>1 DEF Holding
    <3>2. /\ receipt' = [receipt EXCEPT ![c] = NewLease(w)]
          /\ worker' = [worker EXCEPT ![w] =
                [pc |-> "send", message |-> @.message, route |-> @.route, todo |-> @.todo,
                 failed |-> @.failed, age |-> @.age, channel |-> c]]
      <4>1. Skippable(c) \in BOOLEAN
        BY DEF Skippable
      <4> QED
        BY <2>1, <3>1, <4>1 DEF Reserve
    <3>3. /\ worker'[w].message = worker[w].message
          /\ worker'[w].age = worker[w].age
          /\ worker'[w].channel = c
          /\ receipt'[c] = NewLease(w)
      BY <3>2 DEF TypeOK
    <3>4. worker[w].age \in Nat
      BY <1>1, BusyType
    <3> QED
      BY <3>3, <3>4 DEF HasLease, NewLease
  <2>2. CASE Send(w)
    <3>1. worker[w] \in Delivering /\ worker[w].pc \in Holding
      BY <2>2, DeliveringType DEF Send, Holding
    <3>2. PICK pc \in Holding : Goto(w, pc)
      BY <2>2 DEF Send, Holding
    <3>3. worker'[w].channel = worker[w].channel /\ worker'[w].message = worker[w].message
          /\ worker'[w].age = worker[w].age
      BY <3>1, <3>2 DEF Goto, TypeOK, Delivering
    <3> QED
      BY <2>2, <3>1, <3>3 DEF Send, LeaseInv, HasLease
  <2>3. CASE Complete(w) \/ Release(w)
    <3>1. \E failed \in BOOLEAN : After(w, worker[w].channel, failed)
      BY <2>3 DEF Complete, Release
    <3> QED
      BY <1>3, <3>1 DEF After, TypeOK, Holding
  <2>4. CASE Finish(w) \/ Crash(w)
    BY <1>3, <2>4 DEF Finish, Crash, TypeOK, Idle, Holding
  <2> QED
    BY <2>1, <2>2, <2>3, <2>4 DEF Deliver
<1> QED
  BY <1>2, <1>3 DEF LeaseInv

LEMMA LeaseStep == Timely /\ TypeOK /\ LeaseInv /\ [Next]_vars => LeaseInv'
<1> SUFFICES ASSUME Timely, TypeOK, LeaseInv, [Next]_vars
             PROVE  LeaseInv'
  OBVIOUS
<1>1. ASSUME NEW w \in Workers, NEW m \in Messages, Receive(w, m) PROVE LeaseInv'
  BY <1>1 DEF Receive, TypeOK, LeaseInv, HasLease, Holding
<1>2. CASE Tick
  <2> SUFFICES ASSUME NEW w \in Workers, worker'[w].pc \in Holding PROVE HasLease(w)'
    BY DEF LeaseInv
  <2>1. worker[w] # Idle /\ worker[w].pc \in Holding
    BY <1>2, TickFrame DEF Idle, Holding
  <2>2. /\ worker'[w].channel = worker[w].channel /\ worker'[w].message = worker[w].message
        /\ worker'[w].age = worker[w].age + 1
    BY <1>2, <2>1, TickFrame
  <2> DEFINE r == receipt[worker[w].channel]
  <2>3. HasLease(w) /\ worker[w].channel \in Channels /\ worker[w].age \in Nat
    BY <2>1, DeliveringType DEF LeaseInv, Delivering
  <2>4. r \in Receipt
    BY <2>3, LeaseType DEF HasLease
  <2>5. receipt'[worker[w].channel] = r \/ receipt'[worker[w].channel] = [r EXCEPT !.age = @ + 1]
    BY <1>2, <2>3 DEF Tick
  <2> QED
    BY <2>2, <2>3, <2>4, <2>5 DEF HasLease, Receipt
<1>3. CASE UNCHANGED vars \/ \E m \in Messages : Return(m)
  BY <1>3 DEF vars, Return, LeaseInv, HasLease
<1> QED
  BY <1>1, <1>2, <1>3, LeaseDeliver DEF Next

(* If Timely, whoever delivers to a channel still holds the receipt it      *)
(* reserved, so that no other invocation delivers to it.                   *)
THEOREM OneHolder ==
  ASSUME Timely
  PROVE  Spec => []OneSender
<1>1. Init => LeaseInv
  BY DEF Init, LeaseInv, Idle, Holding
<1>2. LeaseInv => OneSender
  BY DEF LeaseInv, HasLease, OneSender, HoldsReceipt, Holding
<1>3. TypeOK /\ LeaseInv /\ [Next]_vars => LeaseInv'
  BY LeaseStep
<1>4. Spec => []LeaseInv
  BY <1>1, <1>3, TypeCorrect, PTL DEF Spec
<1> QED
  BY <1>2, <1>4, PTL

-----------------------------------------------------------------------------
(* The copies of a channel are those counted as unrecorded, and at most one *)
(* more, which is recorded or about to be.                                 *)
AtComplete(w, c) == worker[w].pc = "complete" /\ worker[w].channel = c

Recording(c) == receipt[c].status = "DONE" \/ \E w \in Workers : AtComplete(w, c)

CountInv ==
  \A c \in Channels :
    /\ copies[c] <= unrecorded[c] + 1
    /\ Recording(c) \/ copies[c] <= unrecorded[c]

(* A step that makes no copy, and neither ends a recording nor takes back   *)
(* what is unrecorded.                                                     *)
LEMMA CountKept ==
  ASSUME TypeOK, CountInv, UNCHANGED <<copies, unrecorded>>,
         \A c \in Channels : Recording(c) => Recording(c)'
  PROVE  CountInv'
BY DEF CountInv

LEMMA CountReserve ==
  ASSUME TypeOK, CountInv, NEW w \in Workers, NEW c \in Channels, Reserve(w, c)
  PROVE  CountInv'
<1>1. worker[w].pc = "next" /\ \A v \in Workers : v # w => worker'[v] = worker[v]
  BY DeliverFrame DEF Deliver, Reserve
<1>2. receipt' = receipt \/ (receipt[c].status # "DONE" /\ receipt' = [receipt EXCEPT ![c] = NewLease(w)])
  BY DEF Reserve, Reservable, Expired
<1>3. ASSUME NEW d \in Channels, Recording(d) PROVE Recording(d)'
  <2>1. CASE receipt[d].status = "DONE"
    BY <1>2, <2>1 DEF Recording, TypeOK
  <2>2. ASSUME NEW v \in Workers, AtComplete(v, d) PROVE Recording(d)'
    BY <1>1, <2>2 DEF Recording, AtComplete
  <2> QED
    BY <1>3, <2>1, <2>2 DEF Recording
<1> QED
  BY <1>3, CountKept DEF Reserve, history

LEMMA CountSend ==
  ASSUME TypeOK, TypeOK', LeaseInv, CountInv, NEW w \in Workers, Send(w)
  PROVE  CountInv'
<1> PICK c \in Channels : c = worker[w].channel
  BY DeliveringType DEF Send, Holding, Delivering
<1>1. /\ worker[w].pc = "send" /\ worker[w] \in Delivering
      /\ \A v \in Workers : v # w => worker'[v] = worker[v]
  BY DeliveringType, DeliverFrame DEF Deliver, Send, Holding, Delivering
<1>2. ~Recording(c)
  <2>1. receipt[c].status = "IN_FLIGHT" /\ receipt[c].token = w
    BY <1>1 DEF LeaseInv, HasLease, Holding
  <2>2. ASSUME NEW v \in Workers, AtComplete(v, c) PROVE FALSE
    BY <1>1, <2>1, <2>2 DEF AtComplete, LeaseInv, HasLease, Holding
  <2> QED
    BY <2>1, <2>2 DEF Recording
<1>3. copies[c] <= unrecorded[c] /\ copies[c] \in Nat /\ unrecorded[c] \in Nat
  BY <1>1, <1>2 DEF CountInv, TypeOK
<1>4. ASSUME NEW d \in Channels, d # c
      PROVE  copies'[d] <= unrecorded'[d] + 1 /\ (Recording(d)' \/ copies'[d] <= unrecorded'[d])
  <2>1. copies'[d] = copies[d] /\ unrecorded'[d] = unrecorded[d] /\ receipt' = receipt
    BY <1>4 DEF Send, TypeOK
  <2>2. Recording(d) => Recording(d)'
    BY <1>1, <2>1 DEF Recording, AtComplete
  <2> QED
    BY <2>1, <2>2 DEF CountInv
<1>5. CASE copies' = [copies EXCEPT ![c] = @ + 1] /\ Goto(w, "complete") /\ UNCHANGED unrecorded
  <2>1. copies'[c] = copies[c] + 1 /\ unrecorded'[c] = unrecorded[c]
    BY <1>1, <1>5 DEF TypeOK
  <2>2. worker'[w].pc = "complete" /\ worker'[w].channel = c
    BY <1>1, <1>5 DEF Goto, TypeOK, Delivering
  <2>3. Recording(c)'
    BY <2>2 DEF Recording, AtComplete
  <2>4. copies'[c] <= unrecorded'[c] + 1
    BY <1>3, <2>1
  <2> QED
    BY <1>4, <2>3, <2>4 DEF CountInv
<1>6. CASE copies' = [copies EXCEPT ![c] = @ + 1] /\ unrecorded' = [unrecorded EXCEPT ![c] = @ + 1]
  <2>1. copies'[c] = copies[c] + 1 /\ unrecorded'[c] = unrecorded[c] + 1
    BY <1>1, <1>6 DEF TypeOK
  <2>2. copies'[c] <= unrecorded'[c] /\ copies'[c] <= unrecorded'[c] + 1
    BY <1>3, <2>1
  <2> QED
    BY <1>4, <2>2 DEF CountInv
<1>7. CASE UNCHANGED <<copies, unrecorded>>
  <2>1. copies'[c] <= unrecorded'[c] /\ copies'[c] <= unrecorded'[c] + 1
    BY <1>3, <1>7
  <2> QED
    BY <1>4, <2>1 DEF CountInv
<1> QED
  BY <1>5, <1>6, <1>7 DEF Send

(* One more unrecorded copy of c covers the one that was to be recorded.    *)
LEMMA CountMore ==
  ASSUME TypeOK, CountInv, NEW c \in Channels, UNCHANGED copies,
         unrecorded' = [unrecorded EXCEPT ![c] = @ + 1],
         \A d \in Channels \ {c} : Recording(d) => Recording(d)'
  PROVE  CountInv'
<1> SUFFICES ASSUME NEW d \in Channels
             PROVE  copies'[d] <= unrecorded'[d] + 1 /\ (Recording(d)' \/ copies'[d] <= unrecorded'[d])
  BY DEF CountInv
<1>1. /\ copies[d] \in Nat /\ unrecorded[d] \in Nat /\ copies[d] <= unrecorded[d] + 1
      /\ Recording(d) \/ copies[d] <= unrecorded[d]
  BY DEF CountInv, TypeOK
<1>2. CASE d = c
  <2>1. unrecorded'[d] = unrecorded[d] + 1 /\ copies'[d] = copies[d]
    BY <1>2 DEF TypeOK
  <2> QED
    BY <1>1, <2>1
<1>3. CASE d # c
  <2>1. unrecorded'[d] = unrecorded[d] /\ copies'[d] = copies[d]
    BY <1>3 DEF TypeOK
  <2>2. Recording(d) => Recording(d)'
    BY <1>3
  <2> QED
    BY <1>1, <2>1, <2>2
<1> QED
  BY <1>2, <1>3

LEMMA CountDeliver ==
  ASSUME TypeOK, TypeOK', LeaseInv, CountInv, NEW w \in Workers, Deliver(w) \/ Crash(w)
  PROVE  CountInv'
<1>1. \A v \in Workers : v # w => worker'[v] = worker[v]
  BY DeliverFrame
<1>2. CASE Complete(w)
  <2> PICK c \in Channels : c = worker[w].channel
    BY <1>2, DeliveringType DEF Complete, Holding, Delivering
  <2>1. worker[w].pc = "complete"
    BY <1>2 DEF Complete
  <2>2. ASSUME NEW d \in Channels, d # c, Recording(d) PROVE Recording(d)'
    <3>1. receipt'[d] = receipt[d]
      BY <1>2, <2>1, <2>2 DEF Complete, TypeOK
    <3> QED
      BY <1>1, <2>2, <3>1 DEF Recording, AtComplete
  <2>3. CASE receipt' = [receipt EXCEPT ![c].status = "DONE"] /\ UNCHANGED unrecorded /\ HoldsReceipt(w)
    <3>1. receipt[c] \in Receipt
      BY <2>1, <2>3 DEF HoldsReceipt, TypeOK, NoReceipt
    <3>2. receipt'[c] = [receipt[c] EXCEPT !.status = "DONE"]
      BY <2>1, <2>3 DEF TypeOK
    <3>3. Recording(c)'
      BY <3>1, <3>2 DEF Recording, Receipt
    <3> QED
      BY <1>2, <2>2, <2>3, <3>3, CountKept DEF Complete
  <2>4. CASE unrecorded' = [unrecorded EXCEPT ![c] = @ + 1]
    BY <1>2, <2>1, <2>2, <2>4, CountMore DEF Complete
  <2> QED
    BY <1>2, <2>3, <2>4 DEF Complete
<1>3. CASE Release(w)
  <2> PICK c \in Channels : c = worker[w].channel
    BY <1>3, DeliveringType DEF Release, Holding, Delivering
  <2>1. worker[w].pc = "release" /\ receipt[c].status = "IN_FLIGHT"
    BY <1>3 DEF Release, Holding, LeaseInv, HasLease
  <2>2. ASSUME NEW d \in Channels, Recording(d) PROVE Recording(d)'
    <3>1. receipt[d].status = "DONE" => receipt'[d] = receipt[d]
      BY <1>3, <2>1 DEF Release, TypeOK
    <3> QED
      BY <1>1, <2>1, <2>2, <3>1 DEF Recording, AtComplete
  <2> QED
    BY <1>3, <2>2, CountKept DEF Release, history
<1>4. CASE Finish(w)
  <2>1. \A d \in Channels : Recording(d) => Recording(d)'
    BY <1>1, <1>4 DEF Finish, Recording, AtComplete
  <2> QED
    BY <1>4, <2>1, CountKept DEF Finish
<1>5. CASE Crash(w)
  <2>1. CASE worker[w].pc = "complete"
    <3> PICK c \in Channels : c = worker[w].channel
      BY <2>1, DeliveringType DEF Holding, Delivering
    <3>1. unrecorded' = Unrecorded({w})
      BY <1>5 DEF Crash
    <3>2. unrecorded' = [unrecorded EXCEPT ![c] = @ + 1]
      <4>1. \A d \in Channels : (\E v \in {w} : worker[v].pc = "complete" /\ worker[v].channel = d) <=> d = c
        BY <2>1
      <4>2. unrecorded' = [d \in Channels |-> unrecorded[d] + IF d = c THEN 1 ELSE 0]
        BY <3>1, <4>1 DEF Unrecorded
      <4>3. unrecorded \in [Channels -> Nat]
        BY DEF TypeOK
      <4>4. \A d \in Channels : unrecorded[d] + 0 = unrecorded[d]
        BY <4>3
      <4>5. unrecorded' = [d \in Channels |-> IF d = c THEN unrecorded[d] + 1 ELSE unrecorded[d]]
        BY <4>2, <4>4
      <4> QED
        BY <4>3, <4>5
    <3>3. \A d \in Channels \ {c} : Recording(d) => Recording(d)'
      BY <1>1, <1>5 DEF Crash, Recording, AtComplete
    <3> QED
      BY <1>5, <3>2, <3>3, CountMore DEF Crash
  <2>2. CASE worker[w].pc # "complete"
    <3>1. unrecorded' = unrecorded
      BY <1>5, <2>2 DEF Crash, Unrecorded, TypeOK
    <3>2. \A d \in Channels : Recording(d) => Recording(d)'
      BY <1>1, <1>5, <2>2 DEF Crash, Recording, AtComplete
    <3> QED
      BY <1>5, <3>1, <3>2, CountKept DEF Crash
  <2> QED
    BY <2>1, <2>2
<1> QED
  BY <1>2, <1>3, <1>4, <1>5, CountReserve, CountSend DEF Deliver

LEMMA CountStep == TypeOK /\ TypeOK' /\ LeaseInv /\ CountInv /\ [Next]_vars => CountInv'
<1> SUFFICES ASSUME TypeOK, TypeOK', LeaseInv, CountInv, [Next]_vars
             PROVE  CountInv'
  OBVIOUS
<1>1. ASSUME NEW w \in Workers, NEW m \in Messages, Receive(w, m) PROVE CountInv'
  <2>1. \A v \in Workers : v # w => worker'[v] = worker[v]
    BY <1>1 DEF Receive, TypeOK
  <2>2. worker[w].pc # "complete"
    BY <1>1 DEF Receive, Idle
  <2>3. \A d \in Channels : Recording(d) => Recording(d)'
    BY <1>1, <2>1, <2>2 DEF Receive, Recording, AtComplete
  <2> QED
    BY <1>1, <2>3, CountKept DEF Receive, history
<1>2. CASE Tick
  <2>1. \A c \in Channels : receipt'[c].status = receipt[c].status
    BY <1>2, LeaseType DEF Tick, Receipt
  <2>2. ASSUME NEW v \in Workers, NEW d \in Channels, AtComplete(v, d) PROVE AtComplete(v, d)'
    <3>1. worker[v] # Idle /\ worker[v].pc \in Holding
      BY <2>2 DEF AtComplete, Idle, Holding
    <3> QED
      BY <1>2, <2>2, <3>1, TickFrame DEF AtComplete
  <2>3. \A d \in Channels : Recording(d) => Recording(d)'
    BY <2>1, <2>2 DEF Recording
  <2> QED
    BY <1>2, <2>3, CountKept DEF Tick, history
<1>3. CASE UNCHANGED vars \/ \E m \in Messages : Return(m)
  BY <1>3 DEF vars, Return, history, CountInv, Recording, AtComplete
<1> QED
  BY <1>1, <1>2, <1>3, CountDeliver DEF Next

(* If Timely, a channel gets another copy only if no receipt was completed  *)
(* for the ones before.                                                    *)
THEOREM RecordedOnce ==
  ASSUME Timely
  PROVE  Spec => []RecordedNeverRepeated
<1>1. Init => LeaseInv /\ CountInv
  BY DEF Init, LeaseInv, CountInv, Idle, Holding
<1>2. CountInv => RecordedNeverRepeated
  BY DEF CountInv, RecordedNeverRepeated
<1>3. TypeOK /\ TypeOK' /\ LeaseInv /\ CountInv /\ [Next]_vars => LeaseInv' /\ CountInv'
  BY LeaseStep, CountStep
<1>4. Spec => [](LeaseInv /\ CountInv)
  BY <1>1, <1>3, TypeCorrect, PTL DEF Spec
<1> QED
  BY <1>2, <1>4, PTL

-----------------------------------------------------------------------------
(* A message is handled by one invocation, for as long as that runs.       *)
Handles(w, m) == worker[w] # Idle /\ worker[w].message = m

HandledInv ==
  /\ \A w \in Workers, m \in Messages :
       Handles(w, m) => message[m].state = "held" /\ message[m].age = worker[w].age
  /\ \A v, w \in Workers, m \in Messages : Handles(v, m) /\ Handles(w, m) => v = w

LEMMA HandledStep == Timely /\ TypeOK /\ HandledInv /\ [Next]_vars => HandledInv'
<1> SUFFICES ASSUME Timely, TypeOK, HandledInv, [Next]_vars
             PROVE  HandledInv'
  OBVIOUS
<1>1. ASSUME NEW w \in Workers, NEW m \in Messages, Receive(w, m) PROVE HandledInv'
  <2>1. /\ message[m].state = "visible"
        /\ message'[m].state = "held" /\ message'[m].age = 0
        /\ \A n \in Messages : n # m => message'[n] = message[n]
        /\ worker'[w].message = m /\ worker'[w].age = 0
        /\ \A v \in Workers : v # w => worker'[v] = worker[v]
    BY <1>1 DEF Receive, TypeOK
  <2>2. \A v \in Workers : ~Handles(v, m)
    BY <2>1 DEF HandledInv
  <2>3. \A n \in Messages : Handles(w, n)' => n = m
    BY <2>1 DEF Handles
  <2>4. \A v \in Workers, n \in Messages : v # w /\ Handles(v, n)' => Handles(v, n) /\ n # m
    BY <2>1, <2>2 DEF Handles
  <2>5. \A v \in Workers, n \in Messages :
          Handles(v, n)' => message'[n].state = "held" /\ message'[n].age = worker'[v].age
    BY <2>1, <2>3, <2>4 DEF HandledInv
  <2>6. \A u, v \in Workers, n \in Messages : Handles(u, n)' /\ Handles(v, n)' => u = v
    BY <2>3, <2>4 DEF HandledInv
  <2> QED
    BY <2>5, <2>6 DEF HandledInv
<1>2. ASSUME NEW w \in Workers, Deliver(w) \/ Crash(w) PROVE HandledInv'
  <2>1. /\ \A v \in Workers, n \in Messages :
             Handles(v, n)' => Handles(v, n) /\ worker'[v].age = worker[v].age
    BY <1>2, DeliverFrame DEF Handles
  <2>2. CASE message' = message
    BY <2>1, <2>2 DEF HandledInv
  <2>3. CASE Finish(w)
    <3> PICK m \in Messages : m = worker[w].message
      BY <1>2, BusyType, DeliverFrame
    <3>1. /\ Handles(w, m) /\ worker'[w] = Idle
          /\ \A n \in Messages : n # m => message'[n] = message[n]
      BY <1>2, <2>3, DeliverFrame DEF Finish, Handles, TypeOK
    <3>2. \A v \in Workers, n \in Messages : Handles(v, n)' => v # w /\ n # m
      BY <2>1, <3>1 DEF Handles, HandledInv
    <3> QED
      BY <2>1, <3>1, <3>2 DEF HandledInv
  <2>4. \/ Finish(w)
        \/ message' = message
    BY <1>2, ReserveType, SendType, CompleteType, ReleaseType DEF Deliver, Crash
  <2> QED
    BY <2>2, <2>3, <2>4
<1>3. ASSUME NEW m \in Messages, Return(m) PROVE HandledInv'
  <2>1. /\ message[m].age = Visibility /\ UNCHANGED worker
        /\ \A n \in Messages : n # m => message'[n] = message[n]
    BY <1>3 DEF Return, TypeOK
  <2>2. \A v \in Workers : ~Handles(v, m)
    <3> SUFFICES ASSUME NEW v \in Workers, Handles(v, m) PROVE FALSE
      OBVIOUS
    <3>1. worker[v].age = Visibility /\ worker[v].age \in 0..Timeout
      BY <2>1, BusyType DEF HandledInv, Handles
    <3> QED
      BY <3>1 DEF Timely
  <2>3. \A v \in Workers, n \in Messages : Handles(v, n)' => Handles(v, n) /\ n # m
    BY <2>1, <2>2 DEF Handles
  <2> QED
    BY <2>1, <2>3 DEF HandledInv
<1>4. CASE Tick
  <2>1. \A v \in Workers, n \in Messages :
          Handles(v, n)' => Handles(v, n) /\ worker'[v].age = worker[v].age + 1
    BY <1>4, TickFrame DEF Handles
  <2>2. ASSUME NEW v \in Workers, NEW n \in Messages, Handles(v, n)'
        PROVE  message'[n].state = "held" /\ message'[n].age = worker'[v].age
    <3>1. Handles(v, n) /\ worker'[v].age = worker[v].age + 1
      BY <2>1, <2>2
    <3>2. message[n].state = "held" /\ message[n].age = worker[v].age /\ worker[v].age \in 0..Timeout
      BY <3>1, BusyType DEF HandledInv, Handles
    <3>3. message[n].age < Visibility /\ message[n] \in Message
      BY <3>2 DEF Timely, TypeOK
    <3>4. message'[n] = [message[n] EXCEPT !.age = @ + 1]
      BY <1>4, <3>2, <3>3 DEF Tick
    <3> QED
      BY <3>1, <3>2, <3>3, <3>4 DEF Message
  <2> QED
    BY <2>1, <2>2 DEF HandledInv
<1>5. CASE UNCHANGED vars
  BY <1>5 DEF vars, HandledInv, Handles
<1> QED
  BY <1>1, <1>2, <1>3, <1>4, <1>5 DEF Next

(* A lease is older than the delivery that wrote it, but for the function's *)
(* timeout.                                                                *)
OldEnough(c) ==
  LET m == receipt[c].by
      age == receipt[c].age
  IN /\ message[m].state = "held" => message[m].age <= age + Timeout \/ age = MaxAge
     /\ message[m].state = "visible" => age > Lease

BackInv == \A c \in Channels : receipt[c].status = "IN_FLIGHT" => OldEnough(c)

LEMMA LeasedType ==
  ASSUME TypeOK, NEW c \in Channels, receipt[c].status = "IN_FLIGHT"
  PROVE  receipt[c].by \in Messages /\ receipt[c].age \in 0..MaxAge /\ receipt[c].age \in Nat
BY LeaseType DEF Receipt

LEMMA BackStep ==
  Timely /\ TypeOK /\ HandledInv /\ BackInv /\ [Next]_vars => BackInv'
<1> SUFFICES ASSUME Timely, TypeOK, HandledInv, BackInv, [Next]_vars,
                    NEW c \in Channels, receipt'[c].status = "IN_FLIGHT"
             PROVE  OldEnough(c)'
  BY DEF BackInv
<1>1. ASSUME NEW w \in Workers, NEW m \in Messages, Receive(w, m)
      PROVE  OldEnough(c)'
  <2>1. UNCHANGED receipt /\ receipt[c].by \in Messages /\ receipt[c].age \in Nat
    BY <1>1, LeasedType DEF Receive
  <2>2. /\ message'[m].state = "held" /\ message'[m].age = 0
        /\ \A n \in Messages : n # m => message'[n] = message[n]
    BY <1>1 DEF Receive, TypeOK
  <2> QED
    BY <2>1, <2>2 DEF BackInv, OldEnough
<1>2. ASSUME NEW w \in Workers, Deliver(w) \/ Crash(w)
      PROVE  OldEnough(c)'
  <2>1. CASE receipt'[c] = receipt[c]
    <3>1. receipt[c].by \in Messages /\ OldEnough(c)
      BY <2>1, LeasedType DEF BackInv
    <3>2. \A m \in Messages : message'[m] = message[m] \/ message'[m].state = "deleted"
      BY <1>2, ReserveType, SendType, CompleteType, ReleaseType
      DEF Deliver, Crash, Finish, TypeOK, Message
    <3> QED
      BY <2>1, <3>1, <3>2 DEF OldEnough
  <2>2. CASE receipt'[c] = NewLease(w) /\ message' = message
    <3>1. worker[w] # Idle /\ worker[w].message \in Messages /\ worker[w].age \in 0..Timeout
      BY <1>2, BusyType, DeliverFrame
    <3>2. message[worker[w].message].state = "held" /\ message[worker[w].message].age = worker[w].age
      BY <3>1 DEF HandledInv, Handles
    <3>3. receipt'[c].by = worker[w].message /\ receipt'[c].age = 0
      BY <2>2 DEF NewLease
    <3> QED
      BY <2>2, <3>1, <3>2, <3>3 DEF OldEnough
  <2>3. \/ receipt'[c] = receipt[c]
        \/ receipt'[c] = NewLease(w) /\ message' = message
    <3>1. ASSUME NEW d \in Channels, Reserve(w, d)
          PROVE  \/ receipt'[c] = receipt[c]
                 \/ receipt'[c] = NewLease(w) /\ message' = message
      BY <3>1 DEF Reserve, TypeOK
    <3>2. CASE Complete(w)
      <4>1. CASE UNCHANGED receipt
        BY <4>1
      <4>2. CASE receipt' = [receipt EXCEPT ![worker[w].channel].status = "DONE"] /\ HoldsReceipt(w)
        <5>1. c # worker[w].channel
          <6> SUFFICES ASSUME c = worker[w].channel PROVE FALSE
            OBVIOUS
          <6>1. receipt[c] \in Receipt
            BY <4>2 DEF HoldsReceipt, TypeOK, NoReceipt
          <6>2. receipt'[c] = [receipt[c] EXCEPT !.status = "DONE"]
            BY <4>2 DEF TypeOK
          <6> QED
            BY <6>1, <6>2 DEF Receipt
        <5> QED
          BY <4>2, <5>1 DEF TypeOK
      <4> QED
        BY <3>2, <4>1, <4>2 DEF Complete
    <3>3. CASE Release(w)
      BY <3>3 DEF Release, TypeOK, NoReceipt
    <3>4. CASE Send(w) \/ Finish(w) \/ Crash(w)
      BY <3>4 DEF Send, Finish, Crash
    <3> QED
      BY <1>2, <3>1, <3>2, <3>3, <3>4 DEF Deliver
  <2> QED
    BY <2>1, <2>2, <2>3
<1>3. ASSUME NEW m \in Messages, Return(m)
      PROVE  OldEnough(c)'
  <2>1. UNCHANGED receipt /\ receipt[c].by \in Messages /\ receipt[c].age \in 0..MaxAge
    BY <1>3, LeasedType DEF Return
  <2>2. OldEnough(c)
    BY <2>1 DEF BackInv
  <2>3. \A n \in Messages : n # m => message'[n] = message[n]
    BY <1>3 DEF Return, TypeOK
  <2>4. CASE receipt[c].by # m
    BY <2>1, <2>2, <2>3, <2>4 DEF OldEnough
  <2>5. CASE receipt[c].by = m
    <3>1. Visibility <= receipt[c].age + Timeout \/ receipt[c].age = MaxAge
      BY <1>3, <2>2, <2>5 DEF Return, OldEnough
    <3>2. receipt[c].age > Lease
      BY <2>1, <3>1 DEF Timely
    <3>3. message'[m].state # "held"
      BY <1>3 DEF Return, TypeOK, Message
    <3> QED
      BY <2>1, <2>5, <3>2, <3>3 DEF OldEnough
  <2> QED
    BY <2>4, <2>5
<1>4. CASE Tick
  <2>1. receipt[c].status = "IN_FLIGHT"
    BY <1>4, LeaseType DEF Tick, Receipt
  <2>2. receipt[c] \in Receipt /\ OldEnough(c)
    BY <2>1, LeaseType DEF BackInv
  <2>3. receipt'[c].by = receipt[c].by /\ receipt[c].by \in Messages /\ receipt[c].age \in 0..MaxAge
    BY <1>4, <2>2 DEF Tick, Receipt
  <2>4. \/ receipt[c].age = MaxAge /\ receipt'[c].age = MaxAge
        \/ receipt[c].age < MaxAge /\ receipt'[c].age = receipt[c].age + 1
    BY <1>4, <2>1, <2>2, <2>3 DEF Tick, Receipt
  <2> PICK m \in Messages : m = receipt[c].by
    BY <2>3
  <2>5. message[m] \in Message
    BY DEF TypeOK
  <2>6. /\ message'[m].state = message[m].state
        /\ message'[m].age = message[m].age \/ message'[m].age = message[m].age + 1
        /\ message[m].age \in Nat
    BY <1>4, <2>5 DEF Tick, Message
  <2> QED
    BY <2>2, <2>3, <2>4, <2>6 DEF OldEnough
<1>5. CASE UNCHANGED vars
  BY <1>5 DEF vars, BackInv, OldEnough
<1> QED
  BY <1>1, <1>2, <1>3, <1>4, <1>5 DEF Next

(* If Timely, a message that comes back never meets the lease of its own    *)
(* earlier delivery: that has expired.                                     *)
THEOREM LeaseEndsBeforeReturn ==
  ASSUME Timely
  PROVE  Spec => []BackMeansExpired
<1>1. Init => HandledInv /\ BackInv
  BY DEF Init, HandledInv, Handles, BackInv, NoReceipt
<1>2. BackInv => BackMeansExpired
  BY DEF BackInv, OldEnough, BackMeansExpired, Expired
<1>3. TypeOK /\ HandledInv /\ BackInv /\ [Next]_vars => HandledInv' /\ BackInv'
  BY HandledStep, BackStep
<1>4. Spec => [](HandledInv /\ BackInv)
  BY <1>1, <1>3, TypeCorrect, PTL DEF Spec
<1> QED
  BY <1>2, <1>4, PTL
=============================================================================
