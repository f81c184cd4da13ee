----------------------------- MODULE Responder -----------------------------
(***************************************************************************)
(* Automated incident response (src/handlers/responder.py).                *)
(*                                                                         *)
(* An invocation ("worker") takes a message of the responses queue, which  *)
(* carries one action or several.  For each it checks eligibility, the     *)
(* circuit breaker and the role, takes a permanent claim on the action     *)
(* (src/infra/delivery_state.py with replay=False), runs it, completes the *)
(* claim, logs the result, and queues a notification and a rollback record.*)
(* Exceptions are logged and swallowed: the message is acknowledged.       *)
(*                                                                         *)
(* Messages are delivered at least once, and two may carry the same action *)
(* (the publisher may send an outbox row twice).  An invocation can die    *)
(* between any two calls; the queue's visibility timeout is the function's *)
(* timeout, so a message can come back while it is still being handled.    *)
(*                                                                         *)
(* Abstractions.  An action stands for its claim's key: delivery id and    *)
(* response module.  A batch of records, handled one after the other, is a *)
(* message with all their actions.  Actions are taken in any order.  An    *)
(* action leaves the breaker's window before its log row does.             *)
(***************************************************************************)
EXTENDS CircuitBreaker, FiniteSets

CONSTANTS
  Actions,      \* response actions
  Messages,     \* messages of the responses queue
  ActionsOf,    \* the actions each message carries
  Workers,      \* concurrent responder invocations
  MaxReceives,  \* maxReceiveCount of the queue
  StoresInfo    \* whether LOGS_MIN_LEVEL_TO_STORE lets INFO rows into the logs table

ASSUME ResponderAssumption ==
  /\ ActionsOf \in [Messages -> SUBSET Actions]
  /\ MaxReceives \in Nat \ {0}
  /\ StoresInfo \in BOOLEAN
  /\ IsFiniteSet(Workers)

VARIABLES
  message,     \* responses-queue
  claim,       \* the delivery state table
  worker,      \* responder invocations
  rows,        \* this service's rows of the logs table in the window
  recent,      \* calls of the window whose row every later query saw (history)
  suppressed,  \* calls of the window whose row was below the level stored (history)
  runs,        \* runs[a]: how often a was executed (history)
  succeeded,   \* actions that reported success (history)
  notified,    \* actions with a remediation_success outbox row
  recorded     \* actions with a row in the IR actions table

breaker == <<rows, recent, suppressed>>

effects == <<runs, succeeded, notified, recorded>>

vars == <<message, claim, worker, breaker, effects>>

-----------------------------------------------------------------------------
Message == [state : {"visible", "held", "deleted"}, receives : 0..MaxReceives]

Idle == [pc |-> "idle"]

Between == [pc : {"next"}, message : Messages, todo : SUBSET Actions]

Busy == {"check", "claim", "run", "complete", "log", "notify", "record"}

Acting == [pc      : Busy,
           message : Messages,
           todo    : SUBSET Actions,   \* the actions after this one
           action  : Actions,
           ok      : BOOLEAN]          \* the action reported success

TypeOK ==
  /\ message \in [Messages -> Message]
  /\ claim \in [Actions -> {"absent", "IN_FLIGHT", "DONE"}]
  /\ worker \in [Workers -> {Idle} \cup Between \cup Acting]
  /\ rows \in Rows
  /\ recent \in 0..AllRows(rows)
  /\ suppressed \in Nat
  /\ runs \in [Actions -> Nat]
  /\ succeeded \in SUBSET Actions
  /\ notified \in SUBSET Actions
  /\ recorded \in SUBSET Actions

Init ==
  /\ message = [m \in Messages |-> [state |-> "visible", receives |-> 0]]
  /\ claim = [a \in Actions |-> "absent"]
  /\ worker = [w \in Workers |-> Idle]
  /\ rows = NoRows
  /\ recent = 0
  /\ suppressed = 0
  /\ runs = [a \in Actions |-> 0]
  /\ succeeded = {}
  /\ notified = {}
  /\ recorded = {}

-----------------------------------------------------------------------------
(* The responder                                                           *)

Goto(w, pc) == worker' = [worker EXCEPT ![w].pc = pc]

(* The current action is over, one way or another.                         *)
Leave(w) ==
  worker' = [worker EXCEPT ![w] =
    [pc |-> "next", message |-> worker[w].message, todo |-> worker[w].todo]]

Receivable(m) == message[m].state = "visible" /\ message[m].receives < MaxReceives

Receive(w, m) ==
  /\ worker[w] = Idle
  /\ Receivable(m)
  /\ message' = [message EXCEPT ![m].state = "held", ![m].receives = @ + 1]
  /\ worker' = [worker EXCEPT ![w] = [pc |-> "next", message |-> m, todo |-> ActionsOf[m]]]
  /\ UNCHANGED <<claim, breaker, effects>>

(* The next action: an unresolved target, an ineligible source, an unknown  *)
(* module, a failed API call or an account without a role skip it.         *)
Begin(w, a) ==
  /\ worker[w].pc = "next"
  /\ a \in worker[w].todo
  /\ \/ worker' = [worker EXCEPT ![w] =
          [pc |-> "check", message |-> @.message, todo |-> @.todo \ {a}, action |-> a, ok |-> FALSE]]
     \/ worker' = [worker EXCEPT ![w].todo = @ \ {a}]
  /\ UNCHANGED <<message, claim, breaker, effects>>

(* The circuit breaker, then the assumption of the role; both fail closed.  *)
Check(w) ==
  /\ worker[w].pc = "check"
  /\ \/ \E seen \in Seen(rows) :
          /\ recent' = IF AllRows(seen) < recent THEN AllRows(seen) ELSE recent
          /\ (~Tripped(seen) /\ Goto(w, "claim")) \/ Leave(w)
     \/ /\ Leave(w)
        /\ UNCHANGED recent
  /\ UNCHANGED <<message, claim, rows, suppressed, effects>>

ClaimableUnlessDone(a) == claim[a] # "DONE"

Claimable(a) == claim[a] = "absent"

(* DeliveryState.delivery reserves the action.  It may raise with or        *)
(* without having done so; a claim that exists, completed or not, is final. *)
Claim(w) ==
  /\ worker[w].pc = "claim"
  /\ \/ /\ Claimable(worker[w].action)
        /\ claim' = [claim EXCEPT ![worker[w].action] = "IN_FLIGHT"]
        /\ Goto(w, "run") \/ Leave(w)
     \/ /\ Leave(w)
        /\ UNCHANGED claim
  /\ UNCHANGED <<message, breaker, effects>>

(* The response module's handler.  It may raise after having acted: that    *)
(* keeps the claim, and is logged under a name the breaker does not count. *)
Run(w) ==
  /\ worker[w].pc = "run"
  /\ runs' = [runs EXCEPT ![worker[w].action] = @ + 1]
  /\ \/ /\ worker' = [worker EXCEPT ![w].pc = "complete", ![w].ok = TRUE]
        /\ succeeded' = succeeded \cup {worker[w].action}
     \/ /\ Goto(w, "complete") \/ Leave(w)
        /\ UNCHANGED succeeded
  /\ UNCHANGED <<message, claim, breaker, notified, recorded>>

(* The claim's completion; a failure of that write is swallowed.           *)
Complete(w) ==
  /\ worker[w].pc = "complete"
  /\ \/ claim' = [claim EXCEPT ![worker[w].action] = "DONE"]
     \/ UNCHANGED claim
  /\ Goto(w, "log")
  /\ UNCHANGED <<message, breaker, effects>>

ResultEvent(w) == IF worker[w].ok THEN "IR_ACTION_SUCCESS" ELSE "IR_ACTION_FAILED"

(* A success is logged as INFO, a failure as ERROR.                        *)
Stored(w) == StoresInfo \/ ~worker[w].ok

AnnouncesAnyResult(w) == TRUE

(* Only a success goes on to the notification and the rollback record.     *)
Announces(w) == worker[w].ok

(* Logger swallows a failed write.                                         *)
Log(w) ==
  /\ worker[w].pc = "log"
  /\ \/ /\ Stored(w)
        /\ rows' = [rows EXCEPT ![ResultEvent(w)] = @ + 1]
        /\ recent' = recent + 1
        /\ UNCHANGED suppressed
     \/ /\ Stored(w)
        /\ UNCHANGED breaker
     \/ /\ ~Stored(w)
        /\ suppressed' = suppressed + 1
        /\ UNCHANGED <<rows, recent>>
  /\ IF Announces(w) THEN Goto(w, "notify") ELSE Leave(w)
  /\ UNCHANGED <<message, claim, effects>>

(* _notify_remediation_success, best effort.                               *)
Notify(w) ==
  /\ worker[w].pc = "notify"
  /\ \E sent \in SUBSET {worker[w].action} : notified' = notified \cup sent
  /\ Goto(w, "record")
  /\ UNCHANGED <<message, claim, breaker, runs, succeeded, recorded>>

(* _write_ir_action_record, best effort, if the module can be undone.      *)
Record(w) ==
  /\ worker[w].pc = "record"
  /\ \E kept \in SUBSET {worker[w].action} : recorded' = recorded \cup kept
  /\ Leave(w)
  /\ UNCHANGED <<message, claim, breaker, runs, succeeded, notified>>

(* Every action of the message is dealt with: it is deleted.               *)
Finish(w) ==
  /\ worker[w].pc = "next"
  /\ worker[w].todo = {}
  /\ message' = [message EXCEPT ![worker[w].message].state = "deleted"]
  /\ worker' = [worker EXCEPT ![w] = Idle]
  /\ UNCHANGED <<claim, breaker, effects>>

(* The invocation dies; the message comes back.                            *)
Crash(w) ==
  /\ worker[w] # Idle
  /\ message' = [message EXCEPT ![worker[w].message].state =
                   IF @ = "held" THEN "visible" ELSE @]
  /\ worker' = [worker EXCEPT ![w] = Idle]
  /\ UNCHANGED <<claim, breaker, effects>>

-----------------------------------------------------------------------------
(* The queue and the clock                                                 *)

(* The visibility timeout passes while the message is still being handled. *)
Reappear(m) ==
  /\ message[m].state = "held"
  /\ message' = [message EXCEPT ![m].state = "visible"]
  /\ UNCHANGED <<claim, worker, breaker, effects>>

ActionAges ==
  /\ \/ /\ recent > 0
        /\ recent' = recent - 1
        /\ UNCHANGED suppressed
     \/ /\ suppressed > 0
        /\ suppressed' = suppressed - 1
        /\ UNCHANGED recent
  /\ UNCHANGED <<message, claim, worker, rows, effects>>

RowAges(e) ==
  /\ rows[e] > 0
  /\ recent < AllRows(rows)
  /\ rows' = [rows EXCEPT ![e] = @ - 1]
  /\ UNCHANGED <<message, claim, worker, recent, suppressed, effects>>

-----------------------------------------------------------------------------
Respond(w) ==
  \/ \E m \in Messages : Receive(w, m)
  \/ \E a \in Actions : Begin(w, a)
  \/ Check(w)
  \/ Claim(w)
  \/ Run(w)
  \/ Complete(w)
  \/ Log(w)
  \/ Notify(w)
  \/ Record(w)
  \/ Finish(w)
  \/ Crash(w)

Environment ==
  \/ \E m \in Messages : Reappear(m)
  \/ ActionAges
  \/ \E e \in Events : RowAges(e)

Next ==
  \/ \E w \in Workers : Respond(w)
  \/ Environment

Spec == Init /\ [][Next]_vars

-----------------------------------------------------------------------------
(* Properties                                                              *)

(* A destructive action is executed at most once, however often its message *)
(* is delivered or duplicated and wherever an invocation dies.             *)
AtMostOnce == \A a \in Actions : runs[a] <= 1

(* What is claimed as completed, announced or offered for rollback did      *)
(* happen.                                                                 *)
ReportsAreTrue ==
  /\ \A a \in Actions : claim[a] = "DONE" => runs[a] = 1
  /\ notified \cup recorded \subseteq succeeded

(* The circuit breaker: of the actions that reported a result and whose     *)
(* rows could be written and read, the window holds no more than the limit *)
(* but for those of invocations that had passed the check together.        *)
BreakerHolds == recent + suppressed < MaxActions + Cardinality(Workers)
=============================================================================
