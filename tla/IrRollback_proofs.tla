-------------------------- MODULE IrRollback_proofs --------------------------
(***************************************************************************)
(* Proofs about IrRollback, for any actions, clients, handlers, messages   *)
(* and limits, with or without stale reads and failing status writes.      *)
(***************************************************************************)
EXTENDS IrRollback, FiniteSetTheorems, TLAPS

USE RollbackAssumption, MaxActionsAssumption DEF RollbackAssumption, MaxActionsAssumption

-----------------------------------------------------------------------------
(* Types                                                                   *)

HandlerType == {Idle} \cup Between \cup Handling

Undoing == {"check", "undo", "log", "record", "notify", "fail"}

LEMMA HandlingType ==
  ASSUME TypeOK, NEW h \in Handlers, handler[h].pc \in Undoing
  PROVE  handler[h] \in Handling
BY DEF TypeOK, Idle, Between, Undoing

LEMMA BetweenType ==
  ASSUME TypeOK, NEW h \in Handlers, handler[h].pc = "next"
  PROVE  handler[h] \in Between
BY DEF TypeOK, Idle, Handling

LEMMA BatchType ==
  ASSUME TypeOK, NEW h \in Handlers, handler[h] # Idle
  PROVE  handler[h].batch \in SUBSET Messages /\ handler[h].todo \in SUBSET Messages
BY DEF TypeOK, Between, Handling

LEMMA PostingType ==
  ASSUME TypeOK, NEW c \in Clients, client[c].pc \in {"send", "update"}
  PROVE  client[c] \in Posting
BY DEF TypeOK, Idle

LEMMA GotoType ==
  ASSUME TypeOK, NEW h \in Handlers, handler[h].pc \in Undoing, NEW pc \in Undoing, Goto(h, pc)
  PROVE  handler' \in [Handlers -> HandlerType]
<1>1. [handler[h] EXCEPT !.pc = pc] \in Handling
  BY HandlingType DEF Handling, Undoing
<1> QED
  BY <1>1 DEF TypeOK, Goto, HandlerType

LEMMA ContinueType ==
  ASSUME TypeOK, NEW h \in Handlers, handler[h].pc \in Undoing, Continue(h)
  PROVE  handler' \in [Handlers -> HandlerType]
<1>1. [pc |-> "next", batch |-> handler[h].batch, todo |-> handler[h].todo] \in Between
  BY HandlingType DEF Handling, Between
<1> QED
  BY <1>1 DEF TypeOK, Continue, HandlerType

LEMMA AllRowsType ==
  ASSUME NEW r \in Rows
  PROVE  AllRows(r) \in Nat
BY DEF Rows, Events, AllRows

LEMMA SeenType ==
  ASSUME NEW r \in Rows, NEW s \in Seen(r)
  PROVE  s \in Rows
BY AllRowsType DEF Seen, Rows

(* One more row of event e, or one less.                                   *)
LEMMA RowCount ==
  ASSUME NEW r \in Rows, NEW e \in Events
  PROVE  /\ [r EXCEPT ![e] = @ + 1] \in Rows
         /\ AllRows([r EXCEPT ![e] = @ + 1]) = AllRows(r) + 1
         /\ r[e] > 0 => /\ [r EXCEPT ![e] = @ - 1] \in Rows
                        /\ AllRows([r EXCEPT ![e] = @ - 1]) = AllRows(r) - 1
BY DEF Rows, Events, AllRows

(* A handler's messages were sent, and what is left of them is of its batch. *)
BatchInv ==
  \A h \in Handlers :
    handler[h] # Idle =>
      /\ handler[h].todo \subseteq handler[h].batch
      /\ \A m \in handler[h].batch : message[m] # Unsent

-----------------------------------------------------------------------------
LEMMA InitType == Init => TypeOK /\ BatchInv
BY DEF Init, TypeOK, BatchInv, Item, Rows, NoRows, AllRows, Events

LEMMA ApiType ==
  ASSUME TypeOK, BatchInv, NEW c \in Clients, Api(c)
  PROVE  TypeOK' /\ BatchInv'
<1>1. ASSUME NEW a \in Actions, Post(c, a) PROVE TypeOK' /\ BatchInv'
  BY <1>1 DEF Post, TypeOK, BatchInv, outcomes, Posting
<1>2. ASSUME NEW m \in Messages, Enqueue(c, m) PROVE TypeOK' /\ BatchInv'
  <2>1. client[c] \in Posting
    BY <1>2, PostingType DEF Enqueue
  <2>2. [state |-> "visible", action |-> client[c].action, receives |-> 0] \in Message
    BY <2>1 DEF Posting, Message
  <2>3. message' \in [Messages -> {Unsent} \cup Message]
    BY <1>2, <2>2 DEF Enqueue, TypeOK
  <2>4. client' \in [Clients -> {Idle} \cup Posting]
    <3>1. [client[c] EXCEPT !.pc = "update"] \in Posting
      BY <2>1 DEF Posting
    <3>2. QED BY <1>2, <3>1 DEF Enqueue, TypeOK
  <2>5. BatchInv'
    BY <1>2, <2>2, BatchType DEF Enqueue, TypeOK, BatchInv, Unsent, Message
  <2>6. QED BY <1>2, <2>3, <2>4, <2>5 DEF Enqueue, TypeOK, outcomes
<1>3. CASE SetPending(c)
  <2>1. client[c].action \in Actions
    BY <1>3, PostingType DEF SetPending, Posting
  <2>2. QED BY <1>3, <2>1 DEF SetPending, TypeOK, BatchInv, outcomes, Item
<1>4. CASE PostEnds(c)
  BY <1>4 DEF PostEnds, TypeOK, BatchInv, outcomes
<1>5. QED BY <1>1, <1>2, <1>3, <1>4 DEF Api

LEMMA HandleType ==
  ASSUME TypeOK, BatchInv, NEW h \in Handlers, Handle(h)
  PROVE  TypeOK'
<1> USE DEF HandlerType
<1>1. ASSUME NEW batch \in SUBSET Messages \ {{}}, Receive(h, batch) PROVE TypeOK'
  <2>1. ASSUME NEW m \in batch PROVE [message[m] EXCEPT !.state = "held", !.receives = @ + 1] \in Message
    <3>1. m \in Messages /\ Receivable(m)
      BY <1>1, <2>1 DEF Receive
    <3>2. message[m] \in Message /\ message[m].receives < MaxReceives
      BY <3>1 DEF Receivable, TypeOK
    <3>3. /\ message[m].receives \in Nat
          /\ message[m].receives + 1 \in 0..MaxReceives
      BY <3>2 DEF Message
    <3>4. QED BY <3>2, <3>3 DEF Message
  <2>2. message' \in [Messages -> {Unsent} \cup Message]
    BY <1>1, <2>1 DEF Receive, TypeOK
  <2>3. handler' \in [Handlers -> HandlerType]
    BY <1>1 DEF Receive, TypeOK, Between
  <2>4. QED BY <1>1, <2>2, <2>3 DEF Receive, TypeOK, outcomes
<1>2. ASSUME NEW m \in Messages, Read(h, m) PROVE TypeOK'
  <2>1. handler[h] \in Between
    BY <1>2, BetweenType DEF Read
  <2>2. message[m].action \in Actions
    BY <1>2, <2>1 DEF Read, BatchInv, TypeOK, Message, Between, Idle
  <2>3. [handler[h] EXCEPT !.todo = handler[h].todo \ {m}] \in Between
    BY <2>1 DEF Between
  <2>4. ASSUME NEW pc \in {"check", "fail"}
        PROVE  [pc |-> pc, batch |-> handler[h].batch, todo |-> handler[h].todo \ {m},
                action |-> message[m].action, ok |-> FALSE] \in Handling
    BY <2>1, <2>2 DEF Between, Handling
  <2>5. CASE handler' = [handler EXCEPT ![h].todo = handler[h].todo \ {m}] /\ UNCHANGED lost
    BY <1>2, <2>3, <2>5 DEF Read, TypeOK
  <2>6. CASE /\ handler' = [handler EXCEPT ![h] =
                  [pc |-> IF message[m].action \in Runnable THEN "check" ELSE "fail",
                   batch |-> @.batch, todo |-> handler[h].todo \ {m},
                   action |-> message[m].action, ok |-> FALSE]]
             /\ lost' = [lost EXCEPT ![message[m].action] =
                           IF Skips(message[m].action) THEN @ + 1 ELSE @]
    <3>1. lost' \in [Actions -> Nat]
      BY <2>2, <2>6 DEF TypeOK
    <3>2. handler' \in [Handlers -> HandlerType]
      BY <2>4, <2>6 DEF TypeOK
    <3>3. QED BY <1>2, <3>1, <3>2 DEF Read, TypeOK
  <2>7. QED BY <1>2, <2>5, <2>6 DEF Read
<1>3. CASE Check(h)
  <2>1. handler' \in [Handlers -> HandlerType]
    BY <1>3, GotoType DEF Check, Undoing
  <2>2. recent' \in 0..AllRows(rows)
    <3>1. ASSUME NEW s \in Seen(rows), recent' = IF AllRows(s) < recent THEN AllRows(s) ELSE recent
          PROVE  recent' \in 0..AllRows(rows)
      BY <3>1, AllRowsType, SeenType DEF TypeOK
    <3>2. QED BY <1>3, <3>1 DEF Check, TypeOK
  <2>3. QED BY <1>3, <2>1, <2>2 DEF Check, TypeOK
<1>4. CASE Undo(h)
  <2>1. handler[h] \in Handling
    BY <1>4, HandlingType DEF Undo, Undoing
  <2>2. CASE handler' = [handler EXCEPT ![h].pc = "log", ![h].ok = TRUE]
             /\ done' = [done EXCEPT ![handler[h].action] = @ + 1]
    <3>1. [handler[h] EXCEPT !.pc = "log", !.ok = TRUE] \in Handling
      BY <2>1 DEF Handling
    <3>2. handler' = [handler EXCEPT ![h] = [handler[h] EXCEPT !.pc = "log", !.ok = TRUE]]
      BY <2>2
    <3>3. handler' \in [Handlers -> HandlerType]
      BY <3>1, <3>2 DEF TypeOK
    <3>4. done' \in [Actions -> Nat]
      BY <2>1, <2>2 DEF TypeOK, Handling
    <3>5. QED BY <1>4, <3>3, <3>4 DEF Undo, TypeOK
  <2>3. CASE (Goto(h, "log") \/ Goto(h, "fail")) /\ UNCHANGED done
    <3>1. handler' \in [Handlers -> HandlerType]
      BY <1>4, <2>3, GotoType DEF Undo, Undoing
    <3>2. QED BY <1>4, <2>3, <3>1 DEF Undo, TypeOK
  <2>4. QED BY <1>4, <2>2, <2>3 DEF Undo
<1>5. CASE Log(h)
  <2>1. AfterLog(h) \in Undoing
    BY DEF AfterLog, Undoing
  <2>2. handler' \in [Handlers -> HandlerType]
    BY <1>5, <2>1, GotoType DEF Log, Undoing
  <2>3. UndoEvent(h) \in Events
    BY DEF UndoEvent, Events
  <2>4. rows' \in Rows /\ recent' \in 0..AllRows(rows')
    <3>1. CASE rows' = [rows EXCEPT ![UndoEvent(h)] = @ + 1] /\ recent' = recent + 1
      <4>1. /\ rows' \in Rows
            /\ AllRows(rows') = AllRows(rows) + 1
        BY <2>3, <3>1, RowCount DEF TypeOK
      <4>2. recent \in Nat /\ AllRows(rows) \in Nat /\ recent <= AllRows(rows)
        BY AllRowsType DEF TypeOK
      <4>3. recent' = recent + 1
        BY <3>1
      <4>4. QED BY <4>1, <4>2, <4>3
    <3>2. CASE UNCHANGED <<rows, recent>>
      BY <3>2 DEF TypeOK
    <3>3. QED BY <1>5, <3>1, <3>2 DEF Log
  <2>5. QED BY <1>5, <2>2, <2>4 DEF Log, TypeOK
<1>6. CASE Record(h)
  <2>1. handler[h].action \in Actions
    BY <1>6, HandlingType DEF Record, Undoing, Handling
  <2>2. handler' \in [Handlers -> HandlerType]
    BY <1>6, GotoType DEF Record, Undoing
  <2>3. item' \in [Actions -> Item] /\ lost' \in [Actions -> Nat]
    <3>1. [rolledBack |-> TRUE, status |-> "succeeded"] \in Item
      BY DEF Item
    <3>2. CASE /\ item' = [item EXCEPT ![handler[h].action] =
                    [rolledBack |-> TRUE, status |-> "succeeded"]]
               /\ UNCHANGED lost
      BY <3>1, <3>2 DEF TypeOK
    <3>3. CASE lost' = [lost EXCEPT ![handler[h].action] = @ + 1] /\ UNCHANGED item
      BY <2>1, <3>3 DEF TypeOK
    <3>4. QED BY <1>6, <3>2, <3>3 DEF Record
  <2>4. QED BY <1>6, <2>2, <2>3 DEF Record, TypeOK
<1>7. CASE Notify(h)
  <2>1. handler[h].action \in Actions
    BY <1>7, HandlingType DEF Notify, Undoing, Handling
  <2>2. handler' \in [Handlers -> HandlerType]
    BY <1>7, ContinueType DEF Notify, Undoing
  <2>3. QED BY <1>7, <2>1, <2>2 DEF Notify, TypeOK
<1>8. CASE MarkFailed(h)
  <2>1. handler[h].action \in Actions
    BY <1>8, HandlingType DEF MarkFailed, Undoing, Handling
  <2>2. handler' \in [Handlers -> HandlerType]
    BY <1>8, ContinueType DEF MarkFailed, Undoing
  <2>3. item' \in [Actions -> Item]
    BY <1>8, <2>1 DEF MarkFailed, TypeOK, Item
  <2>4. QED BY <1>8, <2>2, <2>3 DEF MarkFailed, TypeOK, outcomes
<1>9. CASE Finish(h)
  <2>1. handler[h] # Idle
    BY <1>9 DEF Finish, Idle
  <2>2. ASSUME NEW m \in handler[h].batch
        PROVE  [message[m] EXCEPT !.state = "deleted"] \in Message
    BY <2>1, <2>2, BatchType DEF BatchInv, TypeOK, Message
  <2>3. message' \in [Messages -> {Unsent} \cup Message]
    BY <1>9, <2>2 DEF Finish, TypeOK
  <2>4. QED BY <1>9, <2>3 DEF Finish, TypeOK, outcomes
<1>10. CASE Crash(h)
  <2>1. ASSUME NEW m \in handler[h].batch
        PROVE  [message[m] EXCEPT !.state = "visible"] \in Message
    BY <1>10, <2>1, BatchType DEF Crash, BatchInv, TypeOK, Message
  <2>2. message' \in [Messages -> {Unsent} \cup Message]
    BY <1>10, <2>1 DEF Crash, TypeOK
  <2>3. lost' \in [Actions -> Nat]
    <3>1. CASE handler[h].pc \in {"log", "record"} /\ handler[h].ok
      <4>1. handler[h].action \in Actions
        BY <3>1, HandlingType DEF Undoing, Handling
      <4>2. QED BY <1>10, <3>1, <4>1 DEF Crash, TypeOK
    <3>2. CASE ~(handler[h].pc \in {"log", "record"} /\ handler[h].ok)
      BY <1>10, <3>2 DEF Crash, TypeOK
    <3>3. QED BY <3>1, <3>2
  <2>4. QED BY <1>10, <2>2, <2>3 DEF Crash, TypeOK
<1>11. QED
  BY <1>1, <1>2, <1>3, <1>4, <1>5, <1>6, <1>7, <1>8, <1>9, <1>10 DEF Handle

LEMMA HandleBatch ==
  ASSUME TypeOK, BatchInv, NEW h \in Handlers, Handle(h)
  PROVE  BatchInv'
<1>1. ASSUME \A g \in Handlers \ {h} : handler'[g] = handler[g],
             \A m \in Messages : message[m] # Unsent => message'[m] # Unsent,
             \/ handler'[h] = Idle
             \/ /\ handler[h] # Idle
                /\ handler'[h].batch = handler[h].batch
                /\ handler'[h].todo \subseteq handler[h].todo
      PROVE  BatchInv'
  BY <1>1, BatchType DEF BatchInv
<1>2. ASSUME NEW batch \in SUBSET Messages \ {{}}, Receive(h, batch) PROVE BatchInv'
  <2>1. \A g \in Handlers \ {h} : handler'[g] = handler[g]
    BY <1>2 DEF Receive, TypeOK
  <2>2. handler'[h] = [pc |-> "next", batch |-> batch, todo |-> batch]
    BY <1>2 DEF Receive, TypeOK
  <2>3. \A m \in Messages : message[m] # Unsent => message'[m] # Unsent
    BY <1>2 DEF Receive, Receivable, TypeOK, Message, Unsent
  <2>4. \A m \in batch : message[m] # Unsent
    BY <1>2 DEF Receive, Receivable
  <2>5. QED BY <2>1, <2>2, <2>3, <2>4, BatchType DEF BatchInv
<1>3. ASSUME NEW m \in Messages, Read(h, m) PROVE BatchInv'
  <2>1. handler[h] \in Between /\ UNCHANGED message
    BY <1>3, BetweenType DEF Read
  <2>2. /\ \A g \in Handlers \ {h} : handler'[g] = handler[g]
        /\ handler'[h].batch = handler[h].batch
        /\ handler'[h].todo \subseteq handler[h].todo
    BY <1>3, <2>1 DEF Read, TypeOK, Between
  <2>3. QED BY <1>1, <2>1, <2>2 DEF Between, Idle
<1>4. CASE Check(h) \/ Undo(h) \/ Log(h) \/ Record(h)
  <2>1. handler[h] \in Handling /\ UNCHANGED message
    BY <1>4, HandlingType DEF Check, Undo, Log, Record, Undoing
  <2>2. /\ \A g \in Handlers \ {h} : handler'[g] = handler[g]
        /\ handler'[h].batch = handler[h].batch
        /\ handler'[h].todo = handler[h].todo
    <3>1. ASSUME NEW pc, Goto(h, pc)
          PROVE  /\ \A g \in Handlers \ {h} : handler'[g] = handler[g]
                 /\ handler'[h].batch = handler[h].batch
                 /\ handler'[h].todo = handler[h].todo
      BY <2>1, <3>1 DEF Goto, TypeOK, Handling
    <3>2. CASE handler' = [handler EXCEPT ![h].pc = "log", ![h].ok = TRUE]
      BY <2>1, <3>2 DEF TypeOK, Handling
    <3>3. QED BY <1>4, <3>1, <3>2 DEF Check, Undo, Log, Record
  <2>3. QED BY <1>1, <2>1, <2>2 DEF Handling, Idle
<1>5. CASE Notify(h) \/ MarkFailed(h)
  <2>1. handler[h] \in Handling /\ UNCHANGED message /\ Continue(h)
    BY <1>5, HandlingType DEF Notify, MarkFailed, Undoing
  <2>2. /\ \A g \in Handlers \ {h} : handler'[g] = handler[g]
        /\ handler'[h].batch = handler[h].batch
        /\ handler'[h].todo = handler[h].todo
    BY <2>1 DEF Continue, TypeOK, Handling
  <2>3. QED BY <1>1, <2>1, <2>2 DEF Handling, Idle
<1>6. CASE Finish(h) \/ Crash(h)
  <2>1. /\ handler[h] # Idle
        /\ handler'[h] = Idle
        /\ \A g \in Handlers \ {h} : handler'[g] = handler[g]
    BY <1>6 DEF Finish, Crash, TypeOK, Idle
  <2>2. \A m \in Messages : message[m] # Unsent => message'[m] # Unsent
    BY <1>6 DEF Finish, Crash, TypeOK, Message, Unsent
  <2>3. QED BY <1>1, <2>1, <2>2
<1>7. QED BY <1>2, <1>3, <1>4, <1>5, <1>6 DEF Handle

LEMMA EnvironmentType ==
  ASSUME TypeOK, BatchInv, Environment
  PROVE  TypeOK' /\ BatchInv'
<1>1. ASSUME NEW m \in Messages, Reappear(m) PROVE TypeOK' /\ BatchInv'
  <2>1. message[m] \in Message
    BY <1>1 DEF Reappear, TypeOK, Unsent
  <2>2. [message[m] EXCEPT !.state = "visible"] \in Message
    BY <2>1 DEF Message
  <2>3. TypeOK'
    BY <1>1, <2>2 DEF Reappear, TypeOK, outcomes
  <2>4. BatchInv'
    BY <1>1, <2>1, <2>2, BatchType DEF Reappear, TypeOK, BatchInv, Message, Unsent
  <2>5. QED BY <2>3, <2>4
<1>2. CASE UndoAges
  BY <1>2, AllRowsType DEF UndoAges, TypeOK, BatchInv
<1>3. ASSUME NEW e \in Events, RowAges(e) PROVE TypeOK' /\ BatchInv'
  <2>1. rows' \in Rows /\ AllRows(rows') = AllRows(rows) - 1
    BY <1>3, RowCount DEF RowAges, TypeOK
  <2>2. QED BY <1>3, <2>1, AllRowsType DEF RowAges, TypeOK, BatchInv
<1>4. QED BY <1>1, <1>2, <1>3 DEF Environment

LEMMA TypeStep == TypeOK /\ BatchInv /\ [Next]_vars => TypeOK' /\ BatchInv'
<1> SUFFICES ASSUME TypeOK, BatchInv, [Next]_vars PROVE TypeOK' /\ BatchInv'
  OBVIOUS
<1>1. CASE UNCHANGED vars
  BY <1>1 DEF vars, TypeOK, BatchInv
<1>2. CASE Next
  BY <1>2, ApiType, HandleType, HandleBatch, EnvironmentType DEF Next
<1>3. QED BY <1>1, <1>2

LEMMA TypeAlways == Spec => [](TypeOK /\ BatchInv)
BY InitType, TypeStep, PTL DEF Spec

(* Every state of the rollback is well typed, for any number of actions,    *)
(* clients, handlers and messages: no message is delivered more often than  *)
(* MaxReceives, and the handler's batch was sent (rollback_ir_action).     *)
THEOREM TypeCorrect == Spec => []TypeOK
BY TypeAlways, PTL

-----------------------------------------------------------------------------
(* What a step of an invocation may do to the counts and to what is         *)
(* reported, its place in the batch aside.                                 *)

(* It has read the row and not undone anything yet, for a.                  *)
Reads(k, a) == k.pc \in {"check", "undo"} /\ k.action = a

(* It has undone a and not recorded that yet.                              *)
Owes(k, a) == k.pc \in {"log", "record"} /\ k.ok /\ k.action = a

Others(h) == \A g \in Handlers \ {h} : handler'[g] = handler[g]

To(h, pc) ==
  /\ handler'[h].pc = pc
  /\ handler'[h].action = handler[h].action
  /\ handler'[h].ok = handler[h].ok

(* Nothing undone and nothing recorded.                                    *)
Quiet ==
  /\ UNCHANGED done
  /\ \A a \in Actions :
       /\ lost'[a] >= lost[a]
       /\ item'[a].rolledBack = item[a].rolledBack
       /\ item'[a].status = "succeeded" => item[a].status = "succeeded"

Leaves(h) ==
  /\ handler'[h].pc \in {"idle", "next", "fail"}
  /\ Quiet
  /\ \A a \in Actions : Owes(handler[h], a) => lost'[a] > lost[a]
  /\ \/ UNCHANGED notified
     \/ handler[h].pc = "notify" /\ notified' \subseteq notified \cup {handler[h].action}

Begins(h) ==
  /\ handler[h].pc = "next"
  /\ handler'[h].pc = "check"
  /\ ~handler'[h].ok
  /\ Quiet
  /\ UNCHANGED notified
  /\ \A a \in Actions : handler'[h].action = a /\ item[a].rolledBack => lost'[a] > lost[a]

Passes(h) == handler[h].pc = "check" /\ To(h, "undo") /\ Quiet /\ UNCHANGED notified

Fails(h) == handler[h].pc = "undo" /\ To(h, "log") /\ Quiet /\ UNCHANGED notified

Logs(h) == handler[h].pc = "log" /\ handler[h].ok /\ To(h, "record") /\ Quiet /\ UNCHANGED notified

Succeeds(h) ==
  /\ handler[h].pc = "undo"
  /\ handler'[h].pc = "log"
  /\ handler'[h].ok
  /\ handler'[h].action = handler[h].action
  /\ done' = [done EXCEPT ![handler[h].action] = @ + 1]
  /\ UNCHANGED <<item, lost, notified>>

Records(h) ==
  /\ handler[h].pc = "record"
  /\ To(h, "notify")
  /\ \/ /\ item' = [item EXCEPT ![handler[h].action] = [rolledBack |-> TRUE, status |-> "succeeded"]]
        /\ UNCHANGED lost
     \/ /\ lost' = [lost EXCEPT ![handler[h].action] = @ + 1]
        /\ UNCHANGED item
  /\ UNCHANGED <<done, notified>>

LEMMA QuietIfKept ==
  ASSUME TypeOK, UNCHANGED <<item, done>>,
         UNCHANGED lost \/ \A a \in Actions : lost'[a] >= lost[a]
  PROVE  Quiet
<1>1. \A a \in Actions : lost'[a] >= lost[a]
  BY DEF TypeOK
<1>2. QED BY <1>1 DEF Quiet

LEMMA HandleMoves ==
  ASSUME TypeOK, NEW h \in Handlers, Handle(h)
  PROVE  /\ Others(h)
         /\ \/ Leaves(h) \/ Begins(h) \/ Passes(h) \/ Fails(h)
            \/ Logs(h) \/ Succeeds(h) \/ Records(h)
<1> USE DEF Others, To, Quiet
<1>1. ASSUME NEW batch \in SUBSET Messages \ {{}}, Receive(h, batch) PROVE Others(h) /\ Leaves(h)
  <2>1. Others(h) /\ handler'[h].pc = "next"
    BY <1>1 DEF Receive, TypeOK
  <2>2. handler[h] = Idle /\ UNCHANGED <<item, done, lost, notified>>
    BY <1>1 DEF Receive, outcomes
  <2>3. Quiet
    BY <2>2, QuietIfKept
  <2>4. QED BY <2>1, <2>2, <2>3 DEF Leaves, Owes, Idle
<1>2. ASSUME NEW m \in Messages, Read(h, m) PROVE Others(h) /\ (Leaves(h) \/ Begins(h))
  <2>1. handler[h] \in Between
    BY <1>2, BetweenType DEF Read
  <2>2. CASE handler' = [handler EXCEPT ![h].todo = handler[h].todo \ {m}] /\ UNCHANGED lost
    BY <1>2, <2>1, <2>2 DEF Read, Leaves, Owes, TypeOK, Between
  <2>3. CASE /\ handler' = [handler EXCEPT ![h] =
                  [pc |-> IF message[m].action \in Runnable THEN "check" ELSE "fail",
                   batch |-> @.batch, todo |-> handler[h].todo \ {m},
                   action |-> message[m].action, ok |-> FALSE]]
             /\ lost' = [lost EXCEPT ![message[m].action] =
                           IF Skips(message[m].action) THEN @ + 1 ELSE @]
    <3>1. \A a \in Actions : /\ lost'[a] >= lost[a]
                             /\ message[m].action = a /\ Skips(a) => lost'[a] > lost[a]
      BY <2>3 DEF TypeOK
    <3>2. /\ Others(h)
          /\ handler'[h].pc = IF message[m].action \in Runnable THEN "check" ELSE "fail"
          /\ handler'[h].action = message[m].action
          /\ handler'[h].ok = FALSE
      BY <2>3 DEF TypeOK
    <3>3. CASE message[m].action \in Runnable
      <4>1. \A a \in Actions : handler'[h].action = a /\ item[a].rolledBack => lost'[a] > lost[a]
        <5>1. message[m].action \in Supported
          BY <3>3
        <5>2. ASSUME NEW a \in Actions, handler'[h].action = a, item[a].rolledBack
              PROVE  lost'[a] > lost[a]
          <6>1. message[m].action = a /\ Skips(a)
            BY <3>2, <5>1, <5>2 DEF Skips
          <6>2. message[m].action \in Actions
            BY <5>2, <6>1
          <6>3. QED BY <3>1, <6>1, <6>2
        <5>3. QED BY <5>2
      <4>2. Quiet /\ UNCHANGED notified
        <5>1. UNCHANGED <<item, done, notified>>
          BY <1>2 DEF Read
        <5>2. QED BY <3>1, <5>1, QuietIfKept
      <4>3. QED BY <1>2, <3>2, <3>3, <4>1, <4>2 DEF Read, Begins
    <3>4. CASE message[m].action \notin Runnable
      <4>1. Quiet /\ UNCHANGED notified
        <5>1. UNCHANGED <<item, done, notified>>
          BY <1>2 DEF Read
        <5>2. QED BY <3>1, <5>1, QuietIfKept
      <4>2. handler[h].pc = "next" /\ handler'[h].pc = "fail"
        BY <1>2, <3>2, <3>4 DEF Read
      <4>3. QED BY <3>2, <4>1, <4>2 DEF Leaves, Owes
    <3>5. QED BY <3>3, <3>4
  <2>4. QED BY <1>2, <2>2, <2>3 DEF Read
<1>3. CASE Check(h)
  <2>1. handler[h] \in Handling
    BY <1>3, HandlingType DEF Check, Undoing
  <2>2. CASE Goto(h, "fail")
    BY <1>3, <2>1, <2>2 DEF Check, Goto, Leaves, Owes, TypeOK, Handling
  <2>3. CASE Goto(h, "undo")
    BY <1>3, <2>1, <2>3 DEF Check, Goto, Passes, TypeOK, Handling
  <2>4. QED BY <1>3, <2>2, <2>3 DEF Check
<1>4. CASE Undo(h)
  <2>1. handler[h] \in Handling
    BY <1>4, HandlingType DEF Undo, Undoing
  <2>2. CASE /\ handler' = [handler EXCEPT ![h].pc = "log", ![h].ok = TRUE]
             /\ done' = [done EXCEPT ![handler[h].action] = @ + 1]
    BY <1>4, <2>1, <2>2 DEF Undo, Succeeds, TypeOK, Handling
  <2>3. CASE Goto(h, "log") /\ UNCHANGED done
    BY <1>4, <2>1, <2>3 DEF Undo, Goto, Fails, TypeOK, Handling
  <2>4. CASE Goto(h, "fail") /\ UNCHANGED done
    BY <1>4, <2>1, <2>4 DEF Undo, Goto, Leaves, Owes, TypeOK, Handling
  <2>5. QED BY <1>4, <2>2, <2>3, <2>4 DEF Undo
<1>5. CASE Log(h)
  <2>1. handler[h] \in Handling
    BY <1>5, HandlingType DEF Log, Undoing
  <2>2. UNCHANGED <<item, done, lost, notified>>
    BY <1>5 DEF Log
  <2>3. CASE handler[h].ok
    <3>1. Goto(h, "record")
      BY <1>5, <2>3 DEF Log, AfterLog
    <3>2. Others(h) /\ To(h, "record")
      BY <2>1, <3>1 DEF Goto, TypeOK, Handling
    <3>3. Quiet
      BY <2>2 DEF TypeOK
    <3>4. QED BY <1>5, <2>2, <2>3, <3>2, <3>3 DEF Log, Logs
  <2>4. CASE ~handler[h].ok
    <3>1. Goto(h, "fail")
      BY <1>5, <2>4 DEF Log, AfterLog
    <3>2. QED BY <2>1, <2>2, <2>4, <3>1 DEF Goto, Leaves, Owes, TypeOK, Handling
  <2>5. QED BY <2>3, <2>4
<1>6. CASE Record(h)
  <2>1. handler[h] \in Handling
    BY <1>6, HandlingType DEF Record, Undoing
  <2>2. QED BY <1>6, <2>1 DEF Record, Goto, Records, TypeOK, Handling
<1>7. CASE Notify(h)
  <2>1. handler[h] \in Handling
    BY <1>7, HandlingType DEF Notify, Undoing
  <2>2. notified' \subseteq notified \cup {handler[h].action}
    BY <1>7 DEF Notify
  <2>3. QED BY <1>7, <2>1, <2>2 DEF Notify, Continue, Leaves, Owes, TypeOK, Handling
<1>8. CASE MarkFailed(h)
  <2>1. handler[h] \in Handling
    BY <1>8, HandlingType DEF MarkFailed, Undoing
  <2>2. \A a \in Actions : /\ item'[a].rolledBack = item[a].rolledBack
                           /\ item'[a].status = "succeeded" => item[a].status = "succeeded"
    BY <1>8, <2>1 DEF MarkFailed, TypeOK, Item, Handling
  <2>3. Others(h) /\ handler'[h].pc = "next"
    BY <1>8 DEF MarkFailed, Continue, TypeOK
  <2>4. handler[h].pc = "fail" /\ UNCHANGED <<done, lost, notified>>
    BY <1>8 DEF MarkFailed, outcomes
  <2>5. Quiet
    <3>1. \A a \in Actions : lost'[a] >= lost[a]
      BY <2>4 DEF TypeOK
    <3>2. UNCHANGED done
      BY <2>4
    <3>3. QED BY <2>2, <3>1, <3>2 DEF Quiet
  <2>6. QED BY <2>3, <2>4, <2>5 DEF Leaves, Owes
<1>9. CASE Finish(h)
  BY <1>9 DEF Finish, outcomes, Leaves, Owes, TypeOK, Idle
<1>10. CASE Crash(h)
  <2>1. Others(h) /\ handler'[h].pc = "idle"
    BY <1>10 DEF Crash, TypeOK, Idle
  <2>2. CASE handler[h].pc \in {"log", "record"} /\ handler[h].ok
    <3>1. lost' = [lost EXCEPT ![handler[h].action] = @ + 1]
      BY <1>10, <2>2 DEF Crash
    <3>2. QED BY <1>10, <2>1, <3>1 DEF Crash, Leaves, Owes, TypeOK
  <2>3. CASE ~(handler[h].pc \in {"log", "record"} /\ handler[h].ok)
    BY <1>10, <2>1, <2>3 DEF Crash, Leaves, Owes, TypeOK
  <2>4. QED BY <2>2, <2>3
<1>11. QED
  BY <1>1, <1>2, <1>3, <1>4, <1>5, <1>6, <1>7, <1>8, <1>9, <1>10 DEF Handle

(* No other step touches an invocation, or undoes or records anything.     *)
LEMMA OtherMoves ==
  ASSUME TypeOK,
         \/ \E c \in Clients : Api(c)
         \/ Environment
         \/ UNCHANGED vars
  PROVE  UNCHANGED <<handler, lost, notified>> /\ Quiet
<1>1. ASSUME NEW c \in Clients, Api(c) PROVE UNCHANGED <<handler, lost, notified>> /\ Quiet
  <2>1. UNCHANGED <<handler, done, lost, notified>>
    BY <1>1 DEF Api, Post, Enqueue, SetPending, PostEnds, outcomes
  <2>2. \A a \in Actions : /\ item'[a].rolledBack = item[a].rolledBack
                           /\ item'[a].status \in {item[a].status, "pending"}
    BY <1>1 DEF Api, Post, Enqueue, SetPending, PostEnds, TypeOK, Item
  <2>3. QED BY <2>1, <2>2 DEF Quiet, TypeOK
<1>2. CASE Environment
  BY <1>2 DEF Environment, Reappear, UndoAges, RowAges, outcomes, Quiet, TypeOK
<1>3. CASE UNCHANGED vars
  BY <1>3 DEF vars, Quiet, TypeOK
<1>4. QED BY <1>1, <1>2, <1>3

-----------------------------------------------------------------------------
(* A success is only reported by an invocation that has one.               *)

SuccessInv ==
  \A h \in Handlers :
    /\ handler[h].pc \in {"check", "undo"} => ~handler[h].ok
    /\ handler[h].pc \in {"record", "notify"} => handler[h].ok
    /\ handler[h].pc \in {"log", "record", "notify"} /\ handler[h].ok => done[handler[h].action] > 0

LEMMA InitSuccess == Init => SuccessInv /\ ReportedMeansUndone
BY DEF Init, SuccessInv, ReportedMeansUndone, Idle

(* done only grows, so that an invocation which stays as it was keeps its   *)
(* part of the invariant.                                                  *)
LEMMA SuccessMoves ==
  ASSUME TypeOK, SuccessInv, NEW h \in Handlers, Others(h),
         \A a \in Actions : done[a] > 0 => done'[a] > 0,
         handler'[h].pc \in {"check", "undo"} => ~handler'[h].ok,
         handler'[h].pc \in {"record", "notify"} => handler'[h].ok,
         handler'[h].pc \in {"log", "record", "notify"} /\ handler'[h].ok
           => done'[handler'[h].action] > 0
  PROVE  SuccessInv'
<1>1. ASSUME NEW g \in Handlers \ {h}, handler[g].pc \in {"log", "record", "notify"}, handler[g].ok
      PROVE  done'[handler[g].action] > 0
  <2>1. handler[g].action \in Actions
    BY <1>1, HandlingType DEF Undoing, Handling
  <2>2. QED BY <1>1, <2>1 DEF SuccessInv
<1>2. ASSUME NEW g \in Handlers \ {h} PROVE handler'[g] = handler[g]
  BY DEF Others
<1>3. QED BY <1>1, <1>2 DEF SuccessInv

LEMMA HandleSuccess ==
  ASSUME TypeOK, SuccessInv, ReportedMeansUndone, NEW h \in Handlers, Handle(h)
  PROVE  SuccessInv' /\ ReportedMeansUndone'
<1> Others(h)
  BY HandleMoves
<1>1. ASSUME Quiet, UNCHANGED notified PROVE ReportedMeansUndone'
  BY <1>1 DEF Quiet, ReportedMeansUndone
<1>2. ASSUME Quiet PROVE \A a \in Actions : done[a] > 0 => done'[a] > 0
  BY <1>2 DEF Quiet
<1>3. CASE Leaves(h)
  <2> Quiet
    BY <1>3 DEF Leaves
  <2>1. SuccessInv'
    BY <1>2, <1>3, SuccessMoves DEF Leaves
  <2>2. ASSUME UNCHANGED notified PROVE ReportedMeansUndone'
    BY <1>1, <2>2
  <2>3. ASSUME handler[h].pc = "notify", notified' \subseteq notified \cup {handler[h].action}
        PROVE  ReportedMeansUndone'
    <3>1. done[handler[h].action] > 0
      BY <2>3 DEF SuccessInv
    <3>2. \A a \in Actions : a \in notified' => a \in notified \/ a = handler[h].action
      BY <2>3
    <3>3. QED BY <3>1, <3>2 DEF Quiet, ReportedMeansUndone
  <2>4. QED BY <1>3, <2>1, <2>2, <2>3 DEF Leaves
<1>4. CASE Begins(h)
  BY <1>1, <1>2, <1>4, SuccessMoves DEF Begins
<1>5. CASE Passes(h)
  <2>1. ~handler'[h].ok /\ handler'[h].pc = "undo"
    BY <1>5 DEF Passes, To, SuccessInv
  <2>2. QED BY <1>1, <1>2, <1>5, <2>1, SuccessMoves DEF Passes
<1>6. CASE Fails(h)
  <2>1. ~handler'[h].ok /\ handler'[h].pc = "log"
    BY <1>6 DEF Fails, To, SuccessInv
  <2>2. QED BY <1>1, <1>2, <1>6, <2>1, SuccessMoves DEF Fails
<1>7. CASE Logs(h)
  <2>1. /\ handler'[h].ok /\ handler'[h].pc = "record"
        /\ done[handler'[h].action] > 0
    BY <1>7 DEF Logs, To, SuccessInv
  <2>2. done' = done
    BY <1>7 DEF Logs, Quiet
  <2>3. QED BY <1>1, <1>2, <1>7, <2>1, <2>2, SuccessMoves DEF Logs
<1>8. CASE Succeeds(h)
  <2>1. handler[h].action \in Actions
    BY <1>8, HandlingType DEF Succeeds, Undoing, Handling
  <2>2. /\ \A a \in Actions : done[a] > 0 => done'[a] > 0
        /\ done'[handler[h].action] > 0
    BY <1>8, <2>1 DEF Succeeds, TypeOK
  <2>3. SuccessInv'
    BY <1>8, <2>2, SuccessMoves DEF Succeeds
  <2>4. QED BY <1>8, <2>2, <2>3 DEF Succeeds, ReportedMeansUndone
<1>9. CASE Records(h)
  <2>1. /\ handler'[h].ok /\ handler'[h].pc = "notify"
        /\ done[handler'[h].action] > 0
        /\ done[handler[h].action] > 0
    BY <1>9 DEF Records, To, SuccessInv
  <2>2. UNCHANGED <<done, notified>>
    BY <1>9 DEF Records
  <2>3. SuccessInv'
    BY <2>1, <2>2, SuccessMoves
  <2>4. \A a \in Actions : item'[a] = item[a] \/ a = handler[h].action
    BY <1>9 DEF Records, TypeOK
  <2>5. QED BY <2>1, <2>2, <2>3, <2>4 DEF ReportedMeansUndone
<1>10. QED BY <1>3, <1>4, <1>5, <1>6, <1>7, <1>8, <1>9, HandleMoves

LEMMA SuccessStep ==
  ASSUME TypeOK, SuccessInv, ReportedMeansUndone, [Next]_vars
  PROVE  SuccessInv' /\ ReportedMeansUndone'
<1>1. ASSUME NEW h \in Handlers, Handle(h) PROVE SuccessInv' /\ ReportedMeansUndone'
  BY <1>1, HandleSuccess
<1>2. CASE (\E c \in Clients : Api(c)) \/ Environment \/ UNCHANGED vars
  <2>1. UNCHANGED <<handler, notified>> /\ Quiet
    BY <1>2, OtherMoves
  <2>2. QED BY <2>1 DEF Quiet, SuccessInv, ReportedMeansUndone
<1>3. QED BY <1>1, <1>2 DEF Next

(* The row and the notification never tell of a success that no undo call   *)
(* reported (rollbackHandler), for any number of actions, clients,          *)
(* invocations and messages.                                               *)
THEOREM SuccessIsTrue == Spec => []ReportedMeansUndone
<1>1. TypeOK /\ SuccessInv /\ ReportedMeansUndone /\ [Next]_vars
      => (SuccessInv /\ ReportedMeansUndone)'
  BY SuccessStep
<1>2. QED BY InitSuccess, <1>1, TypeAlways, PTL DEF Spec

-----------------------------------------------------------------------------
(* How often one action is undone.                                         *)

Reading(f, a) == {h \in Handlers : Reads(f[h], a)}

Owing(f, a) == {h \in Handlers : Owes(f[h], a)}

(* Until the row says so, every undo is either still to be recorded or lost. *)
(* After that only invocations that have read the row before can add one:   *)
(* as many as there were readers, or losses since.                         *)
Counted(a) ==
  IF item[a].rolledBack
  THEN done[a] + Cardinality(Reading(handler, a)) <= Cardinality(Handlers) + lost[a]
  ELSE done[a] <= Cardinality(Owing(handler, a)) + lost[a]

CountInv == \A a \in Actions : Counted(a)

LEMMA Sizes ==
  ASSUME NEW f, NEW a
  PROVE  /\ Cardinality(Reading(f, a)) \in Nat
         /\ Cardinality(Owing(f, a)) \in Nat
         /\ Cardinality(Handlers) \in Nat
         /\ Cardinality(Reading(f, a)) + Cardinality(Owing(f, a)) <= Cardinality(Handlers)
<1>1. /\ Reading(f, a) \subseteq Handlers
      /\ Owing(f, a) \subseteq Handlers
      /\ Reading(f, a) \cap Owing(f, a) = {}
  BY DEF Reading, Owing, Reads, Owes
<1>2. /\ IsFiniteSet(Reading(f, a))
      /\ IsFiniteSet(Owing(f, a))
      /\ IsFiniteSet(Handlers)
  BY <1>1, FS_Subset
<1>3. Cardinality(Reading(f, a) \cup Owing(f, a))
      = Cardinality(Reading(f, a)) + Cardinality(Owing(f, a))
        - Cardinality(Reading(f, a) \cap Owing(f, a))
  BY <1>2, FS_Union
<1>4. Cardinality(Reading(f, a) \cap Owing(f, a)) = 0
  BY <1>1, FS_EmptySet
<1>5. Cardinality(Reading(f, a) \cup Owing(f, a)) <= Cardinality(Handlers)
  <2>1. Reading(f, a) \cup Owing(f, a) \subseteq Handlers
    BY <1>1
  <2>2. QED BY <1>2, <2>1, FS_Subset
<1>6. /\ Cardinality(Reading(f, a)) \in Nat
      /\ Cardinality(Owing(f, a)) \in Nat
      /\ Cardinality(Handlers) \in Nat
  BY <1>2, FS_CardinalityType
<1>7. QED BY <1>3, <1>4, <1>5, <1>6

(* Sets that differ in one handler at most.                                *)
LEMMA OneMoves ==
  ASSUME NEW S \in SUBSET Handlers, NEW T \in SUBSET Handlers, NEW h \in Handlers,
         S \ {h} = T \ {h}
  PROVE  /\ (h \in S <=> h \in T) => Cardinality(T) = Cardinality(S)
         /\ h \notin S /\ h \in T => Cardinality(T) = Cardinality(S) + 1
         /\ h \in S /\ h \notin T => Cardinality(T) = Cardinality(S) - 1
<1>1. IsFiniteSet(S) /\ IsFiniteSet(T)
  BY FS_Subset
<1>2. ASSUME h \in S <=> h \in T PROVE Cardinality(T) = Cardinality(S)
  <2>1. S = T
    BY <1>2
  <2>2. QED BY <2>1
<1>3. ASSUME h \notin S, h \in T PROVE Cardinality(T) = Cardinality(S) + 1
  <2>1. T = S \cup {h}
    BY <1>3
  <2>2. QED BY <1>1, <1>3, <2>1, FS_AddElement
<1>4. ASSUME h \in S, h \notin T PROVE Cardinality(T) = Cardinality(S) - 1
  <2>1. T = S \ {h}
    BY <1>4
  <2>2. QED BY <1>1, <1>4, <2>1, FS_RemoveElement
<1>5. QED BY <1>2, <1>3, <1>4

LEMMA Moved ==
  ASSUME NEW h \in Handlers, Others(h), NEW a
  PROVE  /\ (Reads(handler[h], a) <=> Reads(handler'[h], a))
              => Cardinality(Reading(handler', a)) = Cardinality(Reading(handler, a))
         /\ ~Reads(handler[h], a) /\ Reads(handler'[h], a)
              => Cardinality(Reading(handler', a)) = Cardinality(Reading(handler, a)) + 1
         /\ Reads(handler[h], a) /\ ~Reads(handler'[h], a)
              => Cardinality(Reading(handler', a)) = Cardinality(Reading(handler, a)) - 1
         /\ (Owes(handler[h], a) <=> Owes(handler'[h], a))
              => Cardinality(Owing(handler', a)) = Cardinality(Owing(handler, a))
         /\ ~Owes(handler[h], a) /\ Owes(handler'[h], a)
              => Cardinality(Owing(handler', a)) = Cardinality(Owing(handler, a)) + 1
         /\ Owes(handler[h], a) /\ ~Owes(handler'[h], a)
              => Cardinality(Owing(handler', a)) = Cardinality(Owing(handler, a)) - 1
<1>1. /\ Reading(handler, a) \in SUBSET Handlers
      /\ Reading(handler', a) \in SUBSET Handlers
      /\ Owing(handler, a) \in SUBSET Handlers
      /\ Owing(handler', a) \in SUBSET Handlers
  BY DEF Reading, Owing
<1>2. /\ Reading(handler, a) \ {h} = Reading(handler', a) \ {h}
      /\ h \in Reading(handler, a) <=> Reads(handler[h], a)
      /\ h \in Reading(handler', a) <=> Reads(handler'[h], a)
  BY DEF Reading, Others
<1>3. /\ Owing(handler, a) \ {h} = Owing(handler', a) \ {h}
      /\ h \in Owing(handler, a) <=> Owes(handler[h], a)
      /\ h \in Owing(handler', a) <=> Owes(handler'[h], a)
  BY DEF Owing, Others
<1>4. QED BY <1>1, <1>2, <1>3, OneMoves

LEMMA HandleCounts ==
  ASSUME TypeOK, TypeOK', SuccessInv, NEW h \in Handlers, Handle(h), NEW a \in Actions, Counted(a)
  PROVE  Counted(a)'
<1> DEFINE r0 == Cardinality(Reading(handler, a))
           r1 == Cardinality(Reading(handler', a))
           o0 == Cardinality(Owing(handler, a))
           o1 == Cardinality(Owing(handler', a))
           n  == Cardinality(Handlers)
<1>1. /\ r0 \in Nat /\ r1 \in Nat /\ o0 \in Nat /\ o1 \in Nat /\ n \in Nat
      /\ r0 + o0 <= n /\ r1 + o1 <= n
  BY Sizes
<1>2. done[a] \in Nat /\ lost[a] \in Nat /\ done'[a] \in Nat /\ lost'[a] \in Nat
  BY DEF TypeOK
<1>3. Others(h)
  BY HandleMoves
<1>4. /\ (Reads(handler[h], a) <=> Reads(handler'[h], a)) => r1 = r0
      /\ ~Reads(handler[h], a) /\ Reads(handler'[h], a) => r1 = r0 + 1
      /\ Reads(handler[h], a) /\ ~Reads(handler'[h], a) => r1 = r0 - 1
      /\ (Owes(handler[h], a) <=> Owes(handler'[h], a)) => o1 = o0
      /\ ~Owes(handler[h], a) /\ Owes(handler'[h], a) => o1 = o0 + 1
      /\ Owes(handler[h], a) /\ ~Owes(handler'[h], a) => o1 = o0 - 1
  BY <1>3, Moved
<1>5. IF item[a].rolledBack THEN done[a] + r0 <= n + lost[a] ELSE done[a] <= o0 + lost[a]
  BY DEF Counted
<1> SUFFICES IF item'[a].rolledBack THEN done'[a] + r1 <= n + lost'[a]
                                    ELSE done'[a] <= o1 + lost'[a]
  BY DEF Counted
<1> HIDE DEF r0, r1, o0, o1, n
<1>6. ASSUME Quiet
      PROVE  /\ done'[a] = done[a]
             /\ lost'[a] >= lost[a]
             /\ item'[a].rolledBack = item[a].rolledBack
  BY <1>6 DEF Quiet
<1>7. CASE Leaves(h)
  <2>1. ~Reads(handler'[h], a) /\ ~Owes(handler'[h], a)
    BY <1>7 DEF Leaves, Reads, Owes
  <2>2. Quiet /\ (Owes(handler[h], a) => lost'[a] > lost[a])
    BY <1>7 DEF Leaves
  <2>3. r1 <= r0 /\ o1 + lost'[a] >= o0 + lost[a]
    BY <1>1, <1>2, <1>4, <1>6, <2>1, <2>2
  <2>4. QED BY <1>1, <1>2, <1>5, <1>6, <2>2, <2>3
<1>8. CASE Begins(h)
  <2>1. ~Reads(handler[h], a) /\ ~Owes(handler[h], a) /\ ~Owes(handler'[h], a)
    BY <1>8 DEF Begins, Reads, Owes
  <2>2. Quiet /\ (Reads(handler'[h], a) /\ item[a].rolledBack => lost'[a] > lost[a])
    BY <1>8 DEF Begins, Reads
  <2>3. /\ o1 = o0
        /\ item[a].rolledBack => r1 + lost[a] <= r0 + lost'[a]
    BY <1>1, <1>2, <1>4, <1>6, <2>1, <2>2
  <2>4. QED BY <1>1, <1>2, <1>5, <1>6, <2>2, <2>3
<1>9. CASE Passes(h) \/ Logs(h)
  <2>1. /\ Reads(handler[h], a) <=> Reads(handler'[h], a)
        /\ Owes(handler[h], a) <=> Owes(handler'[h], a)
        /\ Quiet
    BY <1>9 DEF Passes, Logs, To, Reads, Owes
  <2>2. QED BY <1>1, <1>2, <1>4, <1>5, <1>6, <2>1
<1>10. CASE Fails(h)
  <2>1. ~Reads(handler'[h], a) /\ ~Owes(handler[h], a) /\ ~Owes(handler'[h], a) /\ Quiet
    BY <1>10 DEF Fails, To, Reads, Owes, SuccessInv
  <2>2. QED BY <1>1, <1>2, <1>4, <1>5, <1>6, <2>1
<1>11. CASE Succeeds(h)
  <2>1. ~Reads(handler'[h], a) /\ ~Owes(handler[h], a)
    BY <1>11 DEF Succeeds, Reads, Owes
  <2>2. UNCHANGED <<item, lost>>
    BY <1>11 DEF Succeeds
  <2>3. CASE handler[h].action = a
    <3>1. Reads(handler[h], a) /\ Owes(handler'[h], a)
      BY <1>11, <2>3 DEF Succeeds, Reads, Owes
    <3>2. done'[a] = done[a] + 1
      BY <1>11, <2>3 DEF Succeeds, TypeOK
    <3>3. QED BY <1>1, <1>2, <1>4, <1>5, <2>1, <2>2, <3>1, <3>2
  <2>4. CASE handler[h].action # a
    <3>1. ~Reads(handler[h], a) /\ ~Owes(handler'[h], a)
      BY <1>11, <2>4 DEF Succeeds, Reads, Owes
    <3>2. done'[a] = done[a]
      BY <1>11, <2>4 DEF Succeeds, TypeOK
    <3>3. QED BY <1>1, <1>2, <1>4, <1>5, <2>1, <2>2, <3>1, <3>2
  <2>5. QED BY <2>3, <2>4
<1>12. CASE Records(h)
  <2>1. /\ ~Reads(handler[h], a) /\ ~Reads(handler'[h], a) /\ ~Owes(handler'[h], a)
        /\ Owes(handler[h], a) <=> handler[h].action = a
        /\ done' = done
    BY <1>12 DEF Records, To, Reads, Owes, SuccessInv
  <2>2. CASE handler[h].action # a
    <3>1. item'[a] = item[a] /\ lost'[a] = lost[a]
      BY <1>12, <2>2 DEF Records, TypeOK
    <3>2. QED BY <1>1, <1>2, <1>4, <1>5, <2>1, <2>2, <3>1
  <2>3. CASE handler[h].action = a
    <3>1. CASE /\ item' = [item EXCEPT ![a] = [rolledBack |-> TRUE, status |-> "succeeded"]]
               /\ UNCHANGED lost
      <4>1. item'[a].rolledBack = TRUE
        BY <3>1 DEF TypeOK
      <4>2. QED BY <1>1, <1>2, <1>4, <1>5, <2>1, <2>3, <3>1, <4>1
    <3>2. CASE lost' = [lost EXCEPT ![a] = @ + 1] /\ UNCHANGED item
      <4>1. lost'[a] = lost[a] + 1
        BY <3>2 DEF TypeOK
      <4>2. QED BY <1>1, <1>2, <1>4, <1>5, <2>1, <2>3, <3>2, <4>1
    <3>3. QED BY <1>12, <2>3, <3>1, <3>2 DEF Records
  <2>4. QED BY <2>2, <2>3
<1>13. QED
  BY <1>7, <1>8, <1>9, <1>10, <1>11, <1>12, HandleMoves

LEMMA InitCount == Init => CountInv
<1> SUFFICES ASSUME Init PROVE CountInv
  OBVIOUS
<1>1. ASSUME NEW a \in Actions PROVE Counted(a)
  <2>1. item[a].rolledBack = FALSE /\ done[a] = 0 /\ lost[a] = 0
    BY DEF Init
  <2>2. QED BY <2>1, Sizes DEF Counted
<1>2. QED BY <1>1 DEF CountInv

LEMMA CountStep ==
  ASSUME TypeOK, TypeOK', SuccessInv, CountInv, [Next]_vars
  PROVE  CountInv'
<1>1. ASSUME NEW a \in Actions PROVE Counted(a)'
  <2>1. Counted(a)
    BY DEF CountInv
  <2>2. ASSUME NEW h \in Handlers, Handle(h) PROVE Counted(a)'
    BY <2>1, <2>2, HandleCounts
  <2>3. CASE (\E c \in Clients : Api(c)) \/ Environment \/ UNCHANGED vars
    <3>1. UNCHANGED <<handler, lost>> /\ Quiet
      BY <2>3, OtherMoves
    <3>2. QED BY <2>1, <3>1 DEF Counted, Quiet
  <2>4. QED BY <2>2, <2>3 DEF Next
<1>2. QED BY <1>1 DEF CountInv

LEMMA CountBounds ==
  ASSUME TypeOK, CountInv
  PROVE  UndoBounded
<1>1. ASSUME NEW a \in Actions PROVE done[a] <= Cardinality(Handlers) + lost[a]
  <2>1. done[a] \in Nat /\ lost[a] \in Nat
    BY DEF TypeOK
  <2>2. QED BY <2>1, Sizes DEF CountInv, Counted
<1>2. QED BY <1>1 DEF UndoBounded

(* An action is undone once for each invocation at most, and once more for  *)
(* each success whose record was lost or missed by a read (rollbackHandler), *)
(* whatever is requested, redelivered and crashes, for any limits.           *)
THEOREM RepetitionsAreBounded == Spec => []UndoBounded
<1>1. (TypeOK /\ BatchInv) /\ (TypeOK /\ BatchInv)' /\ (SuccessInv /\ ReportedMeansUndone /\ CountInv) /\ [Next]_vars
      => (SuccessInv /\ ReportedMeansUndone /\ CountInv)'
  BY SuccessStep, CountStep
<1>2. TypeOK /\ CountInv => UndoBounded
  BY CountBounds
<1>3. QED BY InitSuccess, InitCount, <1>1, <1>2, TypeAlways, PTL DEF Spec
-----------------------------------------------------------------------------
(* The circuit breaker                                                     *)

(* This service stores no row of the events that are counted.               *)
NoneCounted == rows["IR_ACTION_SUCCESS"] = 0 /\ rows["IR_ACTION_FAILED"] = 0

(* Whatever the query returns, the rollback goes on.                        *)
NeverTripped == \A seen \in Seen(rows) : ~Tripped(seen)

LEMMA InitCounted == Init => NoneCounted
BY DEF Init, NoRows, Events, NoneCounted

LEMMA CountedStep ==
  ASSUME TypeOK, NoneCounted, [Next]_vars
  PROVE  NoneCounted'
<1>1. CASE UNCHANGED rows
  BY <1>1 DEF NoneCounted
<1>2. ASSUME NEW h \in Handlers, Log(h) PROVE NoneCounted'
  <2>1. UndoEvent(h) \in {"IR_ROLLBACK_SUCCESS", "IR_ROLLBACK_FAILED"}
    BY DEF UndoEvent
  <2>2. QED BY <1>2, <2>1 DEF Log, TypeOK, Rows, Events, NoneCounted
<1>3. ASSUME NEW e \in Events, RowAges(e) PROVE NoneCounted'
  <2>1. e \notin {"IR_ACTION_SUCCESS", "IR_ACTION_FAILED"}
    BY <1>3 DEF RowAges, NoneCounted
  <2>2. QED BY <1>3, <2>1 DEF RowAges, TypeOK, Rows, Events, NoneCounted
<1>4. QED
  BY <1>1, <1>2, <1>3, Zenon DEF Next, Api, Handle, Environment, Post, Enqueue, SetPending, PostEnds,
     Receive, Read, Check, Undo, Record, Notify, MarkFailed, Finish, Crash, Reappear, UndoAges,
     outcomes, vars

LEMMA CountedNever ==
  ASSUME TypeOK, NoneCounted
  PROVE  NeverTripped
<1>1. ASSUME NEW seen \in Seen(rows) PROVE ~Tripped(seen)
  <2>1. /\ seen["IR_ACTION_SUCCESS"] \in Nat /\ seen["IR_ACTION_SUCCESS"] <= 0
        /\ seen["IR_ACTION_FAILED"] \in Nat /\ seen["IR_ACTION_FAILED"] <= 0
    BY <1>1, SeenType DEF TypeOK, Seen, Rows, Events, NoneCounted
  <2>2. RecentActionCount(seen) = 0
    BY <2>1 DEF RecentActionCount
  <2>3. QED BY <2>2 DEF Tripped
<1>2. QED BY <1>1 DEF NeverTripped

(* The circuit breaker of rollbacks never refuses one (_recent_action_count *)
(* as ir_rollback.py calls it), whatever the limit and however many undos    *)
(* were made in the window: their own rows are not among those it counts.   *)
THEOREM BreakerNeverTrips == Spec => []NeverTripped
<1>1. TypeOK /\ NoneCounted /\ [Next]_vars => NoneCounted'
  BY CountedStep
<1>2. TypeOK /\ NoneCounted => NeverTripped
  BY CountedNever
<1>3. QED BY InitCounted, <1>1, <1>2, TypeAlways, PTL DEF Spec
=============================================================================
