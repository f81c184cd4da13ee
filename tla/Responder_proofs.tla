-------------------------- MODULE Responder_proofs --------------------------
(***************************************************************************)
(* Proofs about Responder, for any actions, messages and workers, any       *)
(* number of receives and any limit.                                       *)
(***************************************************************************)
EXTENDS Responder, FiniteSetTheorems, TLAPS

USE ResponderAssumption, MaxActionsAssumption DEF ResponderAssumption, MaxActionsAssumption

-----------------------------------------------------------------------------
(* Types                                                                   *)

WorkerType == {Idle} \cup Between \cup Acting

(* An invocation in the middle of an action.                               *)
LEMMA ActingType ==
  ASSUME TypeOK, NEW w \in Workers, worker[w].pc \in Busy
  PROVE  worker[w] \in Acting
BY DEF TypeOK, Idle, Between, Busy

LEMMA BetweenType ==
  ASSUME TypeOK, NEW w \in Workers, worker[w].pc = "next"
  PROVE  worker[w] \in Between
BY DEF TypeOK, Idle, Acting, Busy

LEMMA MessageType ==
  ASSUME TypeOK, NEW w \in Workers, worker[w] # Idle
  PROVE  worker[w].message \in Messages
BY DEF TypeOK, Between, Acting

LEMMA GotoType ==
  ASSUME TypeOK, NEW w \in Workers, worker[w].pc \in Busy, NEW pc \in Busy, Goto(w, pc)
  PROVE  worker' \in [Workers -> WorkerType]
<1>1. [worker[w] EXCEPT !.pc = pc] \in Acting
  BY ActingType DEF Acting
<1> QED
  BY <1>1 DEF TypeOK, Goto, WorkerType

LEMMA LeaveType ==
  ASSUME TypeOK, NEW w \in Workers, worker[w].pc \in Busy, Leave(w)
  PROVE  worker' \in [Workers -> WorkerType]
<1>1. [pc |-> "next", message |-> worker[w].message, todo |-> worker[w].todo] \in Between
  BY ActingType DEF Acting, Between
<1> QED
  BY <1>1 DEF TypeOK, Leave, WorkerType

LEMMA AllRowsType ==
  ASSUME NEW r \in Rows
  PROVE  AllRows(r) \in Nat
BY DEF Rows, Events, AllRows

LEMMA SeenType ==
  ASSUME NEW r \in Rows, NEW s \in Seen(r)
  PROVE  s \in Rows
BY AllRowsType DEF Seen, Rows

(* One more row of event e, or one less.                                   *)
LEMMA RowCount ==
  ASSUME NEW r \in Rows, NEW e \in Events
  PROVE  /\ [r EXCEPT ![e] = @ + 1] \in Rows
         /\ AllRows([r EXCEPT ![e] = @ + 1]) = AllRows(r) + 1
         /\ r[e] > 0 => /\ [r EXCEPT ![e] = @ - 1] \in Rows
                        /\ AllRows([r EXCEPT ![e] = @ - 1]) = AllRows(r) - 1
BY DEF Rows, Events, AllRows

LEMMA ResultEventType ==
  ASSUME NEW w
  PROVE  ResultEvent(w) \in {"IR_ACTION_SUCCESS", "IR_ACTION_FAILED"}
BY DEF ResultEvent

LEMMA InitType == Init => TypeOK
BY DEF Init, TypeOK, Message, Rows, NoRows, AllRows, Events

LEMMA RespondType ==
  ASSUME TypeOK, NEW w \in Workers, Respond(w)
  PROVE  TypeOK'
<1> USE DEF WorkerType
<1>1. ASSUME NEW m \in Messages, Receive(w, m) PROVE TypeOK'
  <2>1. [message[m] EXCEPT !.state = "held", !.receives = @ + 1] \in Message
    BY <1>1 DEF TypeOK, Receive, Receivable, Message
  <2>2. message' \in [Messages -> Message]
    BY <1>1, <2>1 DEF TypeOK, Receive
  <2>3. [pc |-> "next", message |-> m, todo |-> ActionsOf[m]] \in Between
    BY DEF Between
  <2>4. worker' \in [Workers -> WorkerType]
    BY <1>1, <2>3 DEF TypeOK, Receive
  <2> QED
    BY <1>1, <2>2, <2>4 DEF TypeOK, Receive, breaker, effects
<1>2. ASSUME NEW a \in Actions, Begin(w, a) PROVE TypeOK'
  <2>1. worker[w] \in Between
    BY <1>2, BetweenType DEF Begin
  <2>2. [pc |-> "check", message |-> worker[w].message, todo |-> worker[w].todo \ {a},
         action |-> a, ok |-> FALSE] \in Acting
    BY <2>1 DEF Between, Acting, Busy
  <2>3. [worker[w] EXCEPT !.todo = @ \ {a}] \in Between
    BY <2>1 DEF Between
  <2>4. worker' \in [Workers -> WorkerType]
    BY <1>2, <2>2, <2>3 DEF TypeOK, Begin
  <2> QED
    BY <1>2, <2>4 DEF TypeOK, Begin, breaker, effects
<1>3. CASE Check(w)
  <2>1. worker' \in [Workers -> WorkerType]
    BY <1>3, GotoType, LeaveType DEF Check, Busy
  <2>2. recent' \in 0..AllRows(rows)
    <3>1. ASSUME NEW seen \in Seen(rows),
                 recent' = IF AllRows(seen) < recent THEN AllRows(seen) ELSE recent
          PROVE  recent' \in 0..AllRows(rows)
      BY <3>1, SeenType, AllRowsType DEF TypeOK
    <3> QED
      BY <1>3, <3>1 DEF Check, TypeOK
  <2> QED
    BY <1>3, <2>1, <2>2 DEF TypeOK, Check, effects
<1>4. CASE Claim(w)
  <2>1. worker' \in [Workers -> WorkerType]
    BY <1>4, GotoType, LeaveType DEF Claim, Busy
  <2> QED
    BY <1>4, <2>1 DEF TypeOK, Claim, breaker, effects
<1>5. CASE Run(w)
  <2>1. worker[w] \in Acting
    BY <1>5, ActingType DEF Run, Busy
  <2>2. [worker[w] EXCEPT !.pc = "complete", !.ok = TRUE] \in Acting
    BY <2>1 DEF Acting, Busy
  <2>3. worker' \in [Workers -> WorkerType]
    BY <1>5, <2>2, GotoType, LeaveType DEF TypeOK, Run, Busy
  <2>4. worker[w].action \in Actions
    BY <2>1 DEF Acting
  <2>5. runs' \in [Actions -> Nat]
    BY <1>5, <2>4 DEF TypeOK, Run
  <2>6. succeeded' \in SUBSET Actions
    BY <1>5, <2>4 DEF TypeOK, Run
  <2> QED
    BY <1>5, <2>3, <2>5, <2>6 DEF TypeOK, Run, breaker
<1>6. CASE Complete(w)
  <2>1. worker' \in [Workers -> WorkerType]
    BY <1>6, GotoType DEF Complete, Busy
  <2> QED
    BY <1>6, <2>1 DEF TypeOK, Complete, breaker, effects
<1>7. CASE Log(w)
  <2>1. worker' \in [Workers -> WorkerType]
    BY <1>7, GotoType, LeaveType DEF Log, Busy
  <2>2. /\ rows' \in Rows
        /\ recent' \in 0..AllRows(rows')
        /\ suppressed' \in Nat
    <3>1. ResultEvent(w) \in Events
      BY ResultEventType DEF Events
    <3>2. CASE rows' = [rows EXCEPT ![ResultEvent(w)] = @ + 1] /\ recent' = recent + 1 /\ suppressed' = suppressed
      <4>1. rows' \in Rows /\ AllRows(rows') = AllRows(rows) + 1
        BY <3>1, <3>2, RowCount DEF TypeOK
      <4>2. AllRows(rows) \in Nat
        BY AllRowsType DEF TypeOK
      <4> QED
        BY <3>2, <4>1, <4>2 DEF TypeOK
    <3>3. CASE rows' = rows /\ recent' = recent /\ suppressed' \in {suppressed, suppressed + 1}
      BY <3>3 DEF TypeOK
    <3> QED
      BY <1>7, <3>2, <3>3 DEF Log, breaker
  <2> QED
    BY <1>7, <2>1, <2>2 DEF TypeOK, Log, effects
<1>8. CASE Notify(w)
  <2>1. worker' \in [Workers -> WorkerType]
    BY <1>8, GotoType DEF Notify, Busy
  <2>2. worker[w].action \in Actions
    BY <1>8, ActingType DEF Notify, Busy, Acting
  <2> QED
    BY <1>8, <2>1, <2>2 DEF TypeOK, Notify, breaker
<1>9. CASE Record(w)
  <2>1. worker' \in [Workers -> WorkerType]
    BY <1>9, LeaveType DEF Record, Busy
  <2>2. worker[w].action \in Actions
    BY <1>9, ActingType DEF Record, Busy, Acting
  <2> QED
    BY <1>9, <2>1, <2>2 DEF TypeOK, Record, breaker
<1>10. CASE Finish(w)
  <2>1. worker[w].message \in Messages
    BY <1>10, BetweenType DEF Finish, Between
  <2>2. [message[worker[w].message] EXCEPT !.state = "deleted"] \in Message
    BY <2>1 DEF TypeOK, Message
  <2> QED
    BY <1>10, <2>2 DEF TypeOK, Finish, breaker, effects
<1>11. CASE Crash(w)
  <2>1. worker[w].message \in Messages
    BY <1>11, MessageType DEF Crash
  <2>2. \A st \in {"visible", "held", "deleted"} :
          [message[worker[w].message] EXCEPT !.state = st] \in Message
    BY <2>1 DEF TypeOK, Message
  <2>3. message[worker[w].message].state \in {"visible", "held", "deleted"}
    BY <2>1 DEF TypeOK, Message
  <2>4. message' \in [Messages -> Message]
    BY <1>11, <2>1, <2>2, <2>3 DEF TypeOK, Crash
  <2> QED
    BY <1>11, <2>4 DEF TypeOK, Crash, breaker, effects
<1> QED
  BY <1>1, <1>2, <1>3, <1>4, <1>5, <1>6, <1>7, <1>8, <1>9, <1>10, <1>11 DEF Respond

LEMMA NextType == TypeOK /\ [Next]_vars => TypeOK'
<1> SUFFICES ASSUME TypeOK, [Next]_vars PROVE TypeOK'
  OBVIOUS
<1>1. ASSUME NEW m \in Messages, Reappear(m) PROVE TypeOK'
  <2>1. [message[m] EXCEPT !.state = "visible"] \in Message
    BY DEF TypeOK, Message
  <2> QED
    BY <1>1, <2>1 DEF TypeOK, Reappear, breaker, effects
<1>2. CASE ActionAges
  BY <1>2, AllRowsType DEF TypeOK, ActionAges, effects
<1>3. ASSUME NEW e \in Events, RowAges(e) PROVE TypeOK'
  <2>1. rows' \in Rows /\ AllRows(rows') = AllRows(rows) - 1
    BY <1>3, RowCount DEF TypeOK, RowAges
  <2>2. AllRows(rows) \in Nat
    BY AllRowsType DEF TypeOK
  <2>3. recent' \in 0..AllRows(rows')
    BY <1>3, <2>1, <2>2 DEF TypeOK, RowAges
  <2> QED
    BY <1>3, <2>1, <2>3 DEF TypeOK, RowAges, effects
<1>4. CASE UNCHANGED vars
  BY <1>4 DEF TypeOK, vars, breaker, effects
<1> QED
  BY <1>1, <1>2, <1>3, <1>4, RespondType DEF Next, Environment

(* Every state is well typed: in particular no message is received more     *)
(* than MaxReceives times, and no row leaves the window before its action. *)
THEOREM TypeCorrect == Spec => []TypeOK
BY InitType, NextType, PTL DEF Spec

-----------------------------------------------------------------------------
(* Executions and reports                                                  *)

Executed == {"complete", "log", "notify", "record"}

(* The claim of an action says whether it can have been executed.          *)
ActionInv(a) ==
  /\ runs[a] \in {0, 1}
  /\ claim[a] = "absent" => runs[a] = 0
  /\ claim[a] = "DONE" => runs[a] = 1

(* What an invocation knows of the action it is dealing with.              *)
WorkerInv(w) ==
  /\ worker[w].pc = "run" => claim[worker[w].action] = "IN_FLIGHT" /\ runs[worker[w].action] = 0
  /\ worker[w].pc \in Executed => claim[worker[w].action] # "absent" /\ runs[worker[w].action] = 1
  /\ worker[w].pc \in Busy /\ worker[w].ok => worker[w].action \in succeeded
  /\ worker[w].pc \in {"notify", "record"} => worker[w].ok

(* Of the invocations that hold a claim, one is about to execute it.       *)
OneRunner ==
  \A v, w \in Workers :
    worker[v].pc = "run" /\ worker[w].pc = "run" /\ worker[v].action = worker[w].action => v = w

ClaimInv ==
  /\ \A a \in Actions : ActionInv(a)
  /\ \A w \in Workers : WorkerInv(w)
  /\ OneRunner
  /\ notified \cup recorded \subseteq succeeded

LEMMA InitClaim == Init => ClaimInv
BY DEF Init, ClaimInv, ActionInv, WorkerInv, OneRunner, Idle, Executed, Busy

(* Where the steps of an invocation leave it.                              *)
LEMMA GotoMoves ==
  ASSUME TypeOK, NEW w \in Workers, worker[w].pc \in Busy, NEW pc \in Busy, Goto(w, pc)
  PROVE  /\ worker'[w].pc = pc
         /\ worker'[w].action = worker[w].action
         /\ worker'[w].ok = worker[w].ok
         /\ \A v \in Workers \ {w} : worker'[v] = worker[v]
BY ActingType DEF TypeOK, Goto, Acting

LEMMA LeaveMoves ==
  ASSUME TypeOK, NEW w \in Workers, Leave(w)
  PROVE  /\ worker'[w].pc = "next"
         /\ \A v \in Workers \ {w} : worker'[v] = worker[v]
BY DEF TypeOK, Leave

(* An invocation that has no action, or checks its action's eligibility,    *)
(* knows nothing yet.                                                      *)
LEMMA NoActionNoClaim ==
  ASSUME ClaimInv, NEW w \in Workers,
         \A v \in Workers \ {w} : worker'[v] = worker[v],
         \/ worker'[w].pc \notin Busy
         \/ worker'[w].pc \in {"check", "claim"} /\ (worker'[w].ok => worker'[w].action \in succeeded),
         UNCHANGED <<claim, effects>>
  PROVE  ClaimInv'
<1>1. ASSUME NEW v \in Workers PROVE WorkerInv(v)'
  <2>1. CASE v = w
    BY <2>1 DEF WorkerInv, Busy, Executed, effects
  <2>2. CASE v # w
    BY <2>2 DEF ClaimInv, WorkerInv, effects
  <2> QED
    BY <2>1, <2>2
<1>2. OneRunner'
  BY DEF ClaimInv, OneRunner, Busy
<1> QED
  BY <1>1, <1>2 DEF ClaimInv, ActionInv, effects

(* An invocation that goes on with an action it has executed, or leaves it. *)
LEMMA ExecutedStep ==
  ASSUME TypeOK, ClaimInv, NEW w \in Workers, worker[w].pc \in Executed,
         \A v \in Workers \ {w} : worker'[v] = worker[v],
         \/ worker'[w].pc \notin Busy
         \/ /\ worker'[w].pc \in Executed
            /\ worker'[w].pc \in {"notify", "record"} => worker'[w].ok
            /\ worker'[w].action = worker[w].action
            /\ worker'[w].ok = worker[w].ok,
         claim' = claim \/ claim' = [claim EXCEPT ![worker[w].action] = "DONE"],
         UNCHANGED <<runs, succeeded>>,
         notified' \cup recorded' \subseteq succeeded
  PROVE  ClaimInv'
<1> DEFINE a == worker[w].action
<1>1. a \in Actions /\ runs[a] = 1 /\ claim[a] # "absent"
  BY ActingType DEF ClaimInv, WorkerInv, Executed, Busy, Acting
<1>2. ASSUME NEW b \in Actions
      PROVE  \/ claim'[b] = claim[b]
             \/ b = a /\ claim'[b] = "DONE"
  <2>1. CASE claim' = claim
    BY <2>1
  <2>2. CASE claim' = [claim EXCEPT ![a] = "DONE"]
    BY <2>2 DEF TypeOK
  <2> QED
    BY <2>1, <2>2
<1>3. ASSUME NEW b \in Actions PROVE ActionInv(b)'
  BY <1>1, <1>2 DEF ClaimInv, ActionInv
<1>4. ASSUME NEW v \in Workers PROVE WorkerInv(v)'
  <2>1. CASE v = w
    BY <1>1, <1>2, <2>1 DEF ClaimInv, WorkerInv, Busy, Executed
  <2>2. CASE v # w
    <3>1. worker'[v] = worker[v] /\ WorkerInv(v)
      BY <2>2 DEF ClaimInv
    <3>2. CASE worker[v].pc \in {"run"} \cup Executed
      <4>1. worker[v].action \in Actions
        BY <3>2, ActingType DEF Executed, Busy, Acting
      <4> QED
        BY <1>1, <1>2, <3>1, <4>1 DEF WorkerInv, Executed
    <3> QED
      BY <3>1, <3>2 DEF WorkerInv, Executed
  <2> QED
    BY <2>1, <2>2
<1>5. OneRunner'
  BY DEF ClaimInv, OneRunner, Busy, Executed
<1> QED
  BY <1>3, <1>4, <1>5 DEF ClaimInv

(* The claim is taken only where there is none, so nobody else holds it.   *)
LEMMA ClaimStep ==
  ASSUME TypeOK, ClaimInv, NEW w \in Workers, Claim(w)
  PROVE  ClaimInv'
<1> DEFINE a == worker[w].action
<1>1. /\ worker[w].pc \in Busy
      /\ a \in Actions
      /\ worker[w].ok => a \in succeeded
  BY ActingType DEF Claim, ClaimInv, WorkerInv, Busy, Acting
<1>2. CASE Leave(w) /\ claim' = claim
  BY <1>2, LeaveMoves, NoActionNoClaim DEF Claim, Busy
<1>3. CASE Claimable(a) /\ claim' = [claim EXCEPT ![a] = "IN_FLIGHT"] /\ (Goto(w, "run") \/ Leave(w))
  <2>1. /\ \/ worker'[w].pc = "next"
           \/ /\ worker'[w].pc = "run"
              /\ worker'[w].action = a
              /\ worker'[w].ok = worker[w].ok
        /\ \A v \in Workers \ {w} : worker'[v] = worker[v]
    <3>1. CASE Goto(w, "run")
      BY <1>1, <3>1, GotoMoves DEF Busy
    <3>2. CASE Leave(w)
      BY <3>2, LeaveMoves
    <3> QED
      BY <1>3, <3>1, <3>2
  <2>2. claim[a] = "absent" /\ runs[a] = 0
    BY <1>1, <1>3 DEF Claimable, ClaimInv, ActionInv
  <2>3. \A b \in Actions : claim'[b] = IF b = a THEN "IN_FLIGHT" ELSE claim[b]
    BY <1>1, <1>3 DEF TypeOK
  <2>4. UNCHANGED effects
    BY DEF Claim
  <2>5. ASSUME NEW v \in Workers \ {w}
        PROVE  WorkerInv(v)' /\ (worker[v].pc = "run" => worker[v].action # a)
    <3>1. worker'[v] = worker[v] /\ WorkerInv(v)
      BY <2>1 DEF ClaimInv
    <3>2. CASE worker[v].pc \in {"run"} \cup Executed
      <4>1. worker[v].action \in Actions /\ worker[v].action # a
        BY <2>2, <3>1, <3>2, ActingType DEF WorkerInv, Executed, Busy, Acting
      <4> QED
        BY <2>3, <2>4, <3>1, <4>1 DEF WorkerInv, Executed, effects
    <3> QED
      BY <2>4, <3>1, <3>2 DEF WorkerInv, Executed, effects
  <2>6. WorkerInv(w)'
    BY <1>1, <2>1, <2>2, <2>3, <2>4 DEF WorkerInv, Executed, Busy, effects
  <2>7. OneRunner'
    BY <2>1, <2>5 DEF ClaimInv, OneRunner
  <2>8. ASSUME NEW b \in Actions PROVE ActionInv(b)'
    BY <2>2, <2>3, <2>4 DEF ClaimInv, ActionInv, effects
  <2> QED
    BY <2>4, <2>5, <2>6, <2>7, <2>8 DEF ClaimInv, effects
<1> QED
  BY <1>2, <1>3 DEF Claim

(* Nobody else is about to execute the action, and nobody has.             *)
LEMMA RunStep ==
  ASSUME TypeOK, ClaimInv, NEW w \in Workers, Run(w)
  PROVE  ClaimInv'
<1> DEFINE a == worker[w].action
<1>1. /\ worker[w] \in Acting
      /\ a \in Actions
      /\ claim[a] = "IN_FLIGHT" /\ runs[a] = 0
      /\ worker[w].ok => a \in succeeded
  BY ActingType DEF Run, ClaimInv, WorkerInv, Busy, Acting
<1>2. /\ \A v \in Workers \ {w} : worker'[v] = worker[v]
      /\ \/ worker'[w].pc = "next"
         \/ /\ worker'[w].pc = "complete"
            /\ worker'[w].action = a
            /\ worker'[w].ok => a \in succeeded'
  <2>1. CASE worker' = [worker EXCEPT ![w].pc = "complete", ![w].ok = TRUE] /\ succeeded' = succeeded \cup {a}
    BY <1>1, <2>1 DEF TypeOK, Acting
  <2>2. CASE (Goto(w, "complete") \/ Leave(w)) /\ succeeded' = succeeded
    BY <1>1, <2>2, GotoMoves, LeaveMoves DEF Run, Busy
  <2> QED
    BY <2>1, <2>2 DEF Run
<1>3. /\ \A b \in Actions : runs'[b] = IF b = a THEN 1 ELSE runs[b]
      /\ claim' = claim
      /\ succeeded \subseteq succeeded'
      /\ UNCHANGED <<notified, recorded>>
  BY <1>1 DEF Run, TypeOK
<1>4. ASSUME NEW v \in Workers \ {w}
      PROVE  WorkerInv(v)'
  <2>1. worker'[v] = worker[v] /\ WorkerInv(v)
    BY <1>2 DEF ClaimInv
  <2>2. CASE worker[v].pc \in {"run"} \cup Executed
    <3>1. worker[v].action \in Actions
      BY <2>2, ActingType DEF Executed, Busy, Acting
    <3>2. worker[v].action # a
      BY <1>1, <2>1, <2>2 DEF Run, ClaimInv, OneRunner, WorkerInv, Executed
    <3> QED
      BY <1>3, <2>1, <3>1, <3>2 DEF WorkerInv, Executed
  <2> QED
    BY <1>3, <2>1, <2>2 DEF WorkerInv, Executed
<1>5. WorkerInv(w)'
  BY <1>1, <1>2, <1>3 DEF WorkerInv, Executed, Busy
<1>6. ASSUME NEW b \in Actions PROVE ActionInv(b)'
  BY <1>1, <1>3 DEF ClaimInv, ActionInv
<1>7. OneRunner'
  BY <1>2 DEF ClaimInv, OneRunner
<1> QED
  BY <1>3, <1>4, <1>5, <1>6, <1>7 DEF ClaimInv

LEMMA NextClaim == TypeOK /\ ClaimInv /\ [Next]_vars => ClaimInv'
<1> SUFFICES ASSUME TypeOK, ClaimInv, [Next]_vars PROVE ClaimInv'
  OBVIOUS
<1>1. ASSUME NEW w \in Workers, Respond(w) PROVE ClaimInv'
  <2>1. ASSUME NEW m \in Messages, Receive(w, m) PROVE ClaimInv'
    <3>1. worker'[w].pc = "next" /\ \A v \in Workers \ {w} : worker'[v] = worker[v]
      BY <2>1 DEF Receive, TypeOK
    <3> QED
      BY <2>1, <3>1, NoActionNoClaim DEF Receive, Busy
  <2>2. ASSUME NEW a \in Actions, Begin(w, a) PROVE ClaimInv'
    <3>1. /\ \/ worker'[w].pc = "next"
             \/ worker'[w].pc = "check" /\ ~worker'[w].ok
          /\ \A v \in Workers \ {w} : worker'[v] = worker[v]
      <4>1. worker[w] \in Between
        BY <2>2, BetweenType DEF Begin
      <4>2. CASE worker' = [worker EXCEPT ![w].todo = @ \ {a}]
        BY <4>1, <4>2 DEF TypeOK, Between
      <4>3. CASE worker' = [worker EXCEPT ![w] =
                   [pc |-> "check", message |-> @.message, todo |-> @.todo \ {a}, action |-> a, ok |-> FALSE]]
        BY <4>3 DEF TypeOK
      <4> QED
        BY <2>2, <4>2, <4>3 DEF Begin
    <3> QED
      BY <2>2, <3>1, NoActionNoClaim DEF Begin, Busy
  <2>3. CASE Check(w)
    <3>1. worker[w].ok => worker[w].action \in succeeded
      BY <2>3 DEF Check, ClaimInv, WorkerInv, Busy
    <3>2. /\ \/ worker'[w].pc = "next"
             \/ worker'[w].pc = "claim" /\ (worker'[w].ok => worker'[w].action \in succeeded)
          /\ \A v \in Workers \ {w} : worker'[v] = worker[v]
      BY <2>3, <3>1, GotoMoves, LeaveMoves DEF Check, Busy
    <3> QED
      BY <2>3, <3>2, NoActionNoClaim DEF Check, Busy
  <2>4. CASE Claim(w)
    BY <2>4, ClaimStep
  <2>5. CASE Run(w)
    BY <2>5, RunStep
  <2>6. CASE Complete(w)
    BY <2>6, GotoMoves, ExecutedStep DEF Complete, effects, Executed, Busy, ClaimInv
  <2>7. CASE Log(w)
    BY <2>7, GotoMoves, LeaveMoves, ExecutedStep DEF Log, Announces, effects, Executed, Busy, ClaimInv
  <2>8. CASE Notify(w)
    <3>1. worker[w].ok /\ worker[w].action \in succeeded
      BY <2>8 DEF Notify, ClaimInv, WorkerInv, Busy
    <3> QED
      BY <2>8, <3>1, GotoMoves, ExecutedStep DEF Notify, Executed, Busy, ClaimInv
  <2>9. CASE Record(w)
    <3>1. worker[w].ok /\ worker[w].action \in succeeded
      BY <2>9 DEF Record, ClaimInv, WorkerInv, Busy
    <3> QED
      BY <2>9, <3>1, LeaveMoves, ExecutedStep DEF Record, Executed, Busy, ClaimInv
  <2>10. CASE worker' = [worker EXCEPT ![w] = Idle] /\ UNCHANGED <<claim, effects>>
    BY <2>10, NoActionNoClaim DEF TypeOK, Idle, Busy
  <2> QED
    BY <1>1, <2>1, <2>2, <2>3, <2>4, <2>5, <2>6, <2>7, <2>8, <2>9, <2>10 DEF Respond, Finish, Crash
<1>2. CASE UNCHANGED <<claim, worker, effects>>
  BY <1>2 DEF ClaimInv, ActionInv, WorkerInv, OneRunner, effects
<1> QED
  BY <1>1, <1>2 DEF Next, Environment, Reappear, ActionAges, RowAges, vars, effects

LEMMA ClaimAlways == Spec => [](TypeOK /\ ClaimInv)
BY InitType, NextType, InitClaim, NextClaim, PTL DEF Spec

(* A destructive action is executed at most once, for any number of         *)
(* deliveries, duplicates, invocations and crashes.                        *)
THEOREM ExecutedOnce == Spec => []AtMostOnce
<1>1. TypeOK /\ ClaimInv => AtMostOnce
  BY DEF ClaimInv, ActionInv, AtMostOnce
<1> QED
  BY <1>1, ClaimAlways, PTL

(* Completed claims, notifications and rollback records tell of executions  *)
(* that took place.                                                        *)
THEOREM ReportsHold == Spec => []ReportsAreTrue
<1>1. TypeOK /\ ClaimInv => ReportsAreTrue
  BY DEF ClaimInv, ActionInv, ReportsAreTrue
<1> QED
  BY <1>1, ClaimAlways, PTL

-----------------------------------------------------------------------------
(* The circuit breaker                                                     *)

(* Invocations that have passed the check of an action not yet logged.     *)
Open == {w \in Workers : worker[w].pc \in {"claim", "run", "complete", "log"}}

(* The responder logs no rollbacks, so what the breaker counts is all there *)
(* is; every call of the window was let through by a count below the limit, *)
(* or was already let through when the one that saw that count was.        *)
BreakerInv ==
  /\ rows["IR_ROLLBACK_SUCCESS"] = 0
  /\ rows["IR_ROLLBACK_FAILED"] = 0
  /\ suppressed = 0
  /\ recent + Cardinality(Open) < MaxActions + Cardinality(Workers)

LEMMA OpenCount ==
  /\ Cardinality(Workers) \in Nat
  /\ IsFiniteSet(Open)
  /\ Cardinality(Open) \in Nat
  /\ Cardinality(Open) <= Cardinality(Workers)
<1>1. Open \in SUBSET Workers
  BY DEF Open
<1> QED
  BY <1>1, FS_Subset, FS_CardinalityType

LEMMA InitBreaker == Init => BreakerInv
<1> SUFFICES ASSUME Init PROVE BreakerInv
  OBVIOUS
<1>1. Open = {}
  BY DEF Init, Open, Idle
<1>2. Cardinality(Open) = 0
  BY <1>1, FS_EmptySet
<1> QED
  BY <1>2, OpenCount DEF Init, BreakerInv, NoRows, Events

(* A step that lets nobody through and logs nothing.                       *)
LEMMA ClosingStep ==
  ASSUME TypeOK, TypeOK', BreakerInv, Open' \subseteq Open,
         recent' <= recent, UNCHANGED <<rows, suppressed>>
  PROVE  BreakerInv'
<1>1. Cardinality(Open') <= Cardinality(Open) /\ Cardinality(Open') \in Nat
  BY OpenCount, FS_Subset, FS_CardinalityType
<1>2. recent \in Nat /\ recent' \in Nat
  BY DEF TypeOK
<1> QED
  BY <1>1, <1>2, OpenCount DEF BreakerInv

(* A step in which one invocation stays on its side of the check.          *)
LEMMA OpenMoves ==
  ASSUME NEW w \in Workers,
         \A v \in Workers \ {w} : worker'[v] = worker[v],
         worker'[w].pc \in {"claim", "run", "complete", "log"} => w \in Open
  PROVE  Open' \subseteq Open
BY DEF Open

(* Who passes has seen a count below the limit, and knows all of "recent".  *)
LEMMA CheckPasses ==
  ASSUME TypeOK, TypeOK', BreakerInv, NEW seen \in Seen(rows), ~Tripped(seen),
         recent' = (IF AllRows(seen) < recent THEN AllRows(seen) ELSE recent),
         UNCHANGED <<rows, suppressed>>
  PROVE  BreakerInv'
<1>1. /\ seen["IR_ROLLBACK_SUCCESS"] = 0
      /\ seen["IR_ROLLBACK_FAILED"] = 0
      /\ seen \in Rows
  BY SeenType DEF Seen, BreakerInv, Events, TypeOK, Rows
<1>2. AllRows(seen) < MaxActions /\ AllRows(seen) \in Nat
  BY <1>1, AllRowsType DEF AllRows, Tripped, RecentActionCount, Rows, Events
<1>3. recent' < MaxActions /\ recent' \in Nat
  BY <1>2 DEF TypeOK
<1>4. Cardinality(Open') \in Nat /\ Cardinality(Open') <= Cardinality(Workers)
  <2>1. Open' \in SUBSET Workers
    BY DEF Open
  <2> QED
    BY <2>1, FS_Subset, FS_CardinalityType
<1> QED
  BY <1>3, <1>4, OpenCount DEF BreakerInv

(* A call that is logged is no longer open.                                *)
LEMMA LogStep ==
  ASSUME StoresInfo, TypeOK, TypeOK', BreakerInv, NEW w \in Workers, Log(w)
  PROVE  BreakerInv'
<1>1. w \in Open
  BY DEF Log, Open
<1>2. /\ worker'[w].pc \in {"notify", "next"}
      /\ \A v \in Workers \ {w} : worker'[v] = worker[v]
  BY GotoMoves, LeaveMoves DEF Log, Busy
<1>3. Open' = Open \ {w}
  BY <1>2 DEF Open
<1>4. Cardinality(Open') = Cardinality(Open) - 1
  BY <1>1, <1>3, OpenCount, FS_RemoveElement
<1>5. suppressed' = suppressed /\ recent' <= recent + 1
  BY DEF Log, Stored, breaker, TypeOK
<1>6. /\ rows'["IR_ROLLBACK_SUCCESS"] = 0
      /\ rows'["IR_ROLLBACK_FAILED"] = 0
  BY ResultEventType DEF Log, breaker, TypeOK, Rows, BreakerInv, Events
<1>7. recent \in Nat /\ recent' \in Nat
  BY DEF TypeOK
<1> QED
  BY <1>4, <1>5, <1>6, <1>7, OpenCount DEF BreakerInv

LEMMA NextBreaker ==
  ASSUME StoresInfo
  PROVE  TypeOK /\ BreakerInv /\ [Next]_vars => BreakerInv'
<1> SUFFICES ASSUME TypeOK, BreakerInv, [Next]_vars PROVE BreakerInv'
  OBVIOUS
<1>1. TypeOK'
  BY NextType
<1>2. ASSUME NEW w \in Workers, Respond(w), ~Check(w), ~Log(w) PROVE BreakerInv'
  <2>1. UNCHANGED breaker
    BY <1>2 DEF Respond, Receive, Begin, Claim, Run, Complete, Notify, Record, Finish, Crash
  <2>2. \A v \in Workers \ {w} : worker'[v] = worker[v]
    BY <1>2 DEF TypeOK, Respond, Receive, Begin, Claim, Run, Complete, Notify, Record, Finish, Crash, Goto, Leave
  <2>3. worker'[w].pc \in {"claim", "run", "complete", "log"} => w \in Open
    <3>1. CASE w \in Open
      BY <3>1
    <3>2. CASE w \notin Open
      <4>1. ASSUME NEW m \in Messages, Receive(w, m) PROVE worker'[w].pc = "next"
        BY <4>1 DEF TypeOK, Receive
      <4>2. ASSUME NEW a \in Actions, Begin(w, a) PROVE worker'[w].pc \in {"next", "check"}
        BY <4>2, BetweenType DEF TypeOK, Begin, Between
      <4>3. ~Claim(w) /\ ~Run(w) /\ ~Complete(w)
        BY <3>2 DEF Open, Claim, Run, Complete
      <4>4. CASE Notify(w)
        BY <4>4, GotoMoves DEF Notify, Busy
      <4>5. CASE Record(w)
        BY <4>5, LeaveMoves DEF Record
      <4>6. CASE Finish(w) \/ Crash(w)
        BY <4>6 DEF TypeOK, Finish, Crash, Idle
      <4> QED
        BY <1>2, <4>1, <4>2, <4>3, <4>4, <4>5, <4>6 DEF Respond
    <3> QED
      BY <3>1, <3>2
  <2>4. recent' <= recent
    BY <2>1 DEF TypeOK, breaker
  <2> QED
    BY <1>1, <2>1, <2>2, <2>3, <2>4, OpenMoves, ClosingStep DEF breaker
<1>3. ASSUME NEW w \in Workers, Check(w) PROVE BreakerInv'
  <2>1. CASE Leave(w) /\ (recent' = recent \/ \E seen \in Seen(rows) :
                 recent' = IF AllRows(seen) < recent THEN AllRows(seen) ELSE recent)
    <3>1. Open' \subseteq Open
      BY <2>1, LeaveMoves, OpenMoves
    <3>2. recent' <= recent
      <4>1. CASE recent' = recent
        BY <4>1 DEF TypeOK
      <4>2. ASSUME NEW seen \in Seen(rows),
                   recent' = IF AllRows(seen) < recent THEN AllRows(seen) ELSE recent
            PROVE  recent' <= recent
        BY <4>2, SeenType, AllRowsType DEF TypeOK
      <4> QED
        BY <2>1, <4>1, <4>2
    <3> QED
      BY <1>1, <1>3, <3>1, <3>2, ClosingStep DEF Check
  <2>2. ASSUME NEW seen \in Seen(rows), ~Tripped(seen),
               recent' = IF AllRows(seen) < recent THEN AllRows(seen) ELSE recent
        PROVE  BreakerInv'
    BY <1>1, <1>3, <2>2, CheckPasses DEF Check
  <2> QED
    BY <1>3, <2>1, <2>2 DEF Check
<1>4. ASSUME NEW w \in Workers, Log(w) PROVE BreakerInv'
  BY <1>1, <1>4, LogStep
<1>5. CASE Environment
  <2>1. worker' = worker /\ recent' <= recent
    BY <1>5 DEF Environment, Reappear, ActionAges, RowAges, breaker, TypeOK
  <2>2. Open' = Open
    BY <2>1 DEF Open
  <2>3. /\ rows'["IR_ROLLBACK_SUCCESS"] = 0
        /\ rows'["IR_ROLLBACK_FAILED"] = 0
        /\ suppressed' = 0
    BY <1>5 DEF Environment, Reappear, ActionAges, RowAges, breaker, TypeOK, Rows, BreakerInv, Events
  <2>4. recent \in Nat /\ recent' \in Nat
    BY <1>1 DEF TypeOK
  <2> QED
    BY <2>1, <2>2, <2>3, <2>4, OpenCount DEF BreakerInv
<1>6. CASE UNCHANGED vars
  BY <1>6 DEF vars, breaker, BreakerInv, Open
<1> QED
  BY <1>2, <1>3, <1>4, <1>5, <1>6 DEF Next

(* If every row is stored, the window holds fewer executed actions than the *)
(* limit and the number of invocations together, for any of them.          *)
THEOREM BreakerIsKept ==
  ASSUME StoresInfo
  PROVE  Spec => []BreakerHolds
<1>1. TypeOK /\ BreakerInv => BreakerHolds
  BY OpenCount DEF TypeOK, BreakerInv, BreakerHolds
<1>2. TypeOK /\ BreakerInv /\ [Next]_vars => BreakerInv'
  BY NextBreaker
<1> QED
  BY <1>1, <1>2, InitType, NextType, InitBreaker, PTL DEF Spec
=============================================================================
