----------------------------- MODULE IrRollback -----------------------------
(***************************************************************************)
(* Undoing an incident-response action on request.                         *)
(*                                                                         *)
(* POST /ir-actions/{id}/rollback (_handle_rollback_ir_action in           *)
(* src/handlers/api.py) checks the action's record, enqueues a message and *)
(* then writes rollback_status = "pending".  rollbackHandler               *)
(* (src/handlers/ir_rollback.py) takes batches of messages, checks record  *)
(* and circuit breaker, executes the undo, logs it, and writes the result. *)
(* No write is conditional.                                                *)
(*                                                                         *)
(* The queue delivers at least once: its visibility timeout is that of the *)
(* handler, so a message can come back while it is still being handled;    *)
(* after MaxReceives deliveries it stays in the dead-letter queue.         *)
(*                                                                         *)
(* Abstractions.  An action is its id.  Checks of the record that do not   *)
(* change over time (rollback_supported, a registered undo, role_arn,      *)
(* stored kwargs that parse) are the sets Supported and Runnable.  Log rows *)
(* are counted by event; an undo call leaves the window before its row.    *)
(***************************************************************************)
EXTENDS CircuitBreaker, FiniteSets

CONSTANTS
  Actions,      \* recorded IR actions
  Supported,    \* those with rollback_supported
  Runnable,     \* those the handler also finds an undo, a role and its arguments for
  Clients,      \* concurrent POSTs
  Handlers,     \* concurrent rollbackHandler invocations
  Messages,     \* bound: messages ever enqueued
  MaxReceives,  \* maxReceiveCount of the queue
  BestEffortFails,  \* whether the best-effort status writes ever fail
  StaleReads        \* whether a get_item of the row ever misses a recent write

ASSUME RollbackAssumption ==
  /\ Supported \subseteq Actions
  /\ Runnable \subseteq Supported
  /\ MaxReceives \in Nat \ {0}
  /\ {BestEffortFails, StaleReads} \subseteq BOOLEAN
  /\ IsFiniteSet(Handlers)

VARIABLES
  item,      \* the action's row of the IR actions table
  message,   \* ir-rollback-queue
  client,    \* API invocations
  handler,   \* rollbackHandler invocations
  rows,      \* this service's rows of the logs table in the window
  recent,    \* undo calls of the window whose row every later query saw (history)
  done,      \* done[a]: undo calls that reported success (history)
  lost,      \* lost[a]: successes no later read of the row saw (history)
  notified   \* actions with a rollback_success outbox row

vars == <<item, message, client, handler, rows, recent, done, lost, notified>>

outcomes == <<rows, recent, done, lost, notified>>

-----------------------------------------------------------------------------
Item == [rolledBack : BOOLEAN, status : {"absent", "pending", "succeeded", "failed"}]

Unsent == [state |-> "unsent"]

Message == [state : {"visible", "held", "deleted"}, action : Actions, receives : 0..MaxReceives]

Idle == [pc |-> "idle"]

Posting == [pc : {"send", "update"}, action : Actions]

Between == [pc : {"next"}, batch : SUBSET Messages, todo : SUBSET Messages]

Handling == [pc     : {"check", "undo", "log", "record", "notify", "fail"},
             batch  : SUBSET Messages,
             todo   : SUBSET Messages,
             action : Actions,
             ok     : BOOLEAN]    \* its undo call reported success

TypeOK ==
  /\ item \in [Actions -> Item]
  /\ message \in [Messages -> {Unsent} \cup Message]
  /\ client \in [Clients -> {Idle} \cup Posting]
  /\ handler \in [Handlers -> {Idle} \cup Between \cup Handling]
  /\ rows \in Rows
  /\ recent \in 0..AllRows(rows)
  /\ done \in [Actions -> Nat]
  /\ lost \in [Actions -> Nat]
  /\ notified \subseteq Actions

Init ==
  /\ item = [a \in Actions |-> [rolledBack |-> FALSE, status |-> "absent"]]
  /\ message = [m \in Messages |-> Unsent]
  /\ client = [c \in Clients |-> Idle]
  /\ handler = [h \in Handlers |-> Idle]
  /\ rows = NoRows
  /\ recent = 0
  /\ done = [a \in Actions |-> 0]
  /\ lost = [a \in Actions |-> 0]
  /\ notified = {}

-----------------------------------------------------------------------------
(* POST /ir-actions/{id}/rollback                                          *)

(* Every other answer (400, 404, 409) changes nothing.                     *)
Accepts(a) ==
  /\ a \in Supported
  /\ StaleReads \/ (~item[a].rolledBack /\ item[a].status # "pending")

Post(c, a) ==
  /\ client[c] = Idle
  /\ Accepts(a)
  /\ client' = [client EXCEPT ![c] = [pc |-> "send", action |-> a]]
  /\ UNCHANGED <<item, message, handler, outcomes>>

(* sqs.send_message; when it raises, enqueued or not, the POST is over.    *)
Enqueue(c, m) ==
  /\ client[c].pc = "send"
  /\ message[m] = Unsent
  /\ message' = [message EXCEPT ![m] = [state |-> "visible", action |-> client[c].action, receives |-> 0]]
  /\ \E next \in {[client[c] EXCEPT !.pc = "update"], Idle} :
       client' = [client EXCEPT ![c] = next]
  /\ UNCHANGED <<item, handler, outcomes>>

(* The status is written whatever the record says by now.                  *)
SetPending(c) ==
  /\ client[c].pc = "update"
  /\ item' = [item EXCEPT ![client[c].action].status = "pending"]
  /\ client' = [client EXCEPT ![c] = Idle]
  /\ UNCHANGED <<message, handler, outcomes>>

(* The invocation ends early; a failed status write is swallowed.          *)
PostEnds(c) ==
  /\ \/ client[c].pc = "send"
     \/ client[c].pc = "update" /\ BestEffortFails
  /\ client' = [client EXCEPT ![c] = Idle]
  /\ UNCHANGED <<item, message, handler, outcomes>>

-----------------------------------------------------------------------------
(* rollbackHandler                                                         *)

Goto(h, pc) == handler' = [handler EXCEPT ![h].pc = pc]

Continue(h) ==
  handler' = [handler EXCEPT ![h] = [pc |-> "next", batch |-> handler[h].batch, todo |-> handler[h].todo]]

Receivable(m) ==
  /\ message[m] # Unsent
  /\ message[m].state = "visible"
  /\ message[m].receives < MaxReceives

Receive(h, batch) ==
  /\ handler[h] = Idle
  /\ \A m \in batch : Receivable(m)
  /\ message' = [m \in Messages |-> IF m \in batch
                                    THEN [message[m] EXCEPT !.state = "held", !.receives = @ + 1]
                                    ELSE message[m]]
  /\ handler' = [handler EXCEPT ![h] = [pc |-> "next", batch |-> batch, todo |-> batch]]
  /\ UNCHANGED <<item, client, outcomes>>

SkipsNothing(a) == FALSE

(* A row rolled back already is skipped.                                   *)
Skips(a) == a \in Supported /\ item[a].rolledBack

(* get_item and the checks of the row it returns.                          *)
Read(h, m) ==
  /\ handler[h].pc = "next"
  /\ m \in handler[h].todo
  /\ LET a    == message[m].action
         left == handler[h].todo \ {m}
     IN  \/ /\ Skips(a)
            /\ handler' = [handler EXCEPT ![h].todo = left]
            /\ UNCHANGED lost
         \/ /\ Skips(a) => StaleReads
            /\ handler' = [handler EXCEPT ![h] =
                 [pc |-> IF a \in Runnable THEN "check" ELSE "fail", batch |-> @.batch, todo |-> left,
                  action |-> a, ok |-> FALSE]]
            /\ lost' = [lost EXCEPT ![a] = IF Skips(a) THEN @ + 1 ELSE @]
  /\ UNCHANGED <<item, message, client, rows, recent, done, notified>>

(* The circuit breaker, and the assumption of the role; either may raise.  *)
Check(h) ==
  /\ handler[h].pc = "check"
  /\ \/ \E seen \in Seen(rows) :
          /\ recent' = IF AllRows(seen) < recent THEN AllRows(seen) ELSE recent
          /\ Goto(h, IF Tripped(seen) THEN "fail" ELSE "undo")
     \/ /\ Goto(h, "fail")
        /\ UNCHANGED recent
  /\ UNCHANGED <<item, message, client, rows, done, lost, notified>>

(* The undo call: it reports success or failure, or raises, whatever it     *)
(* has done; a call that raises is not logged as an undo.                  *)
Undo(h) ==
  /\ handler[h].pc = "undo"
  /\ \/ /\ handler' = [handler EXCEPT ![h].pc = "log", ![h].ok = TRUE]
        /\ done' = [done EXCEPT ![handler[h].action] = @ + 1]
     \/ /\ Goto(h, "log") \/ Goto(h, "fail")
        /\ UNCHANGED done
  /\ UNCHANGED <<item, message, client, rows, recent, lost, notified>>

UndoEvent(h) == IF handler[h].ok THEN "IR_ROLLBACK_SUCCESS" ELSE "IR_ROLLBACK_FAILED"

RecordsAlways(h) == "record"

AfterLog(h) == IF handler[h].ok THEN "record" ELSE "fail"

(* Logger swallows a failed write.                                         *)
Log(h) ==
  /\ handler[h].pc = "log"
  /\ \/ /\ rows' = [rows EXCEPT ![UndoEvent(h)] = @ + 1]
        /\ recent' = recent + 1
     \/ UNCHANGED <<rows, recent>>
  /\ Goto(h, AfterLog(h))
  /\ UNCHANGED <<item, message, client, done, lost, notified>>

(* The row of a successful undo; a failed write is swallowed.              *)
Record(h) ==
  /\ handler[h].pc = "record"
  /\ LET a == handler[h].action IN
     \/ /\ item' = [item EXCEPT ![a] = [rolledBack |-> TRUE, status |-> "succeeded"]]
        /\ UNCHANGED lost
     \/ /\ lost' = [lost EXCEPT ![a] = @ + 1]
        /\ UNCHANGED item
  /\ Goto(h, "notify")
  /\ UNCHANGED <<message, client, rows, recent, done, notified>>

(* _notify_rollback_success, best effort too.                              *)
Notify(h) ==
  /\ handler[h].pc = "notify"
  /\ \E sent \in SUBSET {handler[h].action} : notified' = notified \cup sent
  /\ Continue(h)
  /\ UNCHANGED <<item, message, client, rows, recent, done, lost>>

(* _mark_rollback_status(status="failed"), on every failure path.          *)
MarkFailed(h) ==
  /\ handler[h].pc = "fail"
  /\ \/ item' = [item EXCEPT ![handler[h].action].status = "failed"]
     \/ BestEffortFails /\ UNCHANGED item
  /\ Continue(h)
  /\ UNCHANGED <<message, client, outcomes>>

(* The batch is done and its messages are deleted.                         *)
Finish(h) ==
  /\ handler[h].pc = "next"
  /\ handler[h].todo = {}
  /\ message' = [m \in Messages |-> IF m \in handler[h].batch
                                    THEN [message[m] EXCEPT !.state = "deleted"] ELSE message[m]]
  /\ handler' = [handler EXCEPT ![h] = Idle]
  /\ UNCHANGED <<item, client, outcomes>>

(* The invocation dies, or get_item raised: the whole batch comes back.    *)
Crash(h) ==
  /\ handler[h] # Idle
  /\ message' = [m \in Messages |-> IF m \in handler[h].batch /\ message[m].state = "held"
                                    THEN [message[m] EXCEPT !.state = "visible"] ELSE message[m]]
  /\ lost' = IF handler[h].pc \in {"log", "record"} /\ handler[h].ok
             THEN [lost EXCEPT ![handler[h].action] = @ + 1] ELSE lost
  /\ handler' = [handler EXCEPT ![h] = Idle]
  /\ UNCHANGED <<item, client, rows, recent, done, notified>>

-----------------------------------------------------------------------------
(* The queue and the clock                                                 *)

(* The visibility timeout passes while the message is still being handled. *)
Reappear(m) ==
  /\ message[m].state = "held"
  /\ message' = [message EXCEPT ![m].state = "visible"]
  /\ UNCHANGED <<item, client, handler, outcomes>>

UndoAges ==
  /\ recent > 0
  /\ recent' = recent - 1
  /\ UNCHANGED <<item, message, client, handler, rows, done, lost, notified>>

RowAges(e) ==
  /\ rows[e] > 0
  /\ recent < AllRows(rows)
  /\ rows' = [rows EXCEPT ![e] = @ - 1]
  /\ UNCHANGED <<item, message, client, handler, recent, done, lost, notified>>

-----------------------------------------------------------------------------
Api(c) ==
  \/ \E a \in Actions : Post(c, a)
  \/ \E m \in Messages : Enqueue(c, m)
  \/ SetPending(c)
  \/ PostEnds(c)

Handle(h) ==
  \/ \E batch \in SUBSET Messages \ {{}} : Receive(h, batch)
  \/ \E m \in Messages : Read(h, m)
  \/ Check(h)
  \/ Undo(h)
  \/ Log(h)
  \/ Record(h)
  \/ Notify(h)
  \/ MarkFailed(h)
  \/ Finish(h)
  \/ Crash(h)

Environment ==
  \/ \E m \in Messages : Reappear(m)
  \/ UndoAges
  \/ \E e \in Events : RowAges(e)

Next ==
  \/ \E c \in Clients : Api(c)
  \/ \E h \in Handlers : Handle(h)
  \/ Environment

Spec == Init /\ [][Next]_vars

-----------------------------------------------------------------------------
(* Properties                                                              *)

(* What the record and the notification say of a success is true: an undo   *)
(* call did report it, whichever invocations raced.                        *)
ReportedMeansUndone ==
  \A a \in Actions :
    item[a].rolledBack \/ item[a].status = "succeeded" \/ a \in notified => done[a] > 0

(* An action is not undone over and over: apart from undos whose record was *)
(* lost or missed by a read, only invocations that read the row before it   *)
(* was written, one undo each, can repeat it.                              *)
UndoBounded ==
  \A a \in Actions : done[a] <= Cardinality(Handlers) + lost[a]

(* The rollbacks' circuit breaker: of the undo calls whose rows were there  *)
(* to be counted, the window holds no more than the limit, but for those   *)
(* of invocations that had passed the check together.                      *)
BreakerHolds == recent < MaxActions + Cardinality(Handlers)

(* "pending" means enqueued and not yet processed: a message for the action *)
(* waits, is being handled, or is in the dead-letter queue.                *)
PendingMeansUnderWay ==
  \A a \in Actions : item[a].status = "pending" =>
    \E m \in Messages : /\ message[m] # Unsent
                        /\ message[m].action = a
                        /\ message[m].state # "deleted"
=============================================================================
