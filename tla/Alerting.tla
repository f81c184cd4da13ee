------------------------------ MODULE Alerting ------------------------------
(***************************************************************************)
(* From a cloud event to an alert: the processor                           *)
(* (src/handlers/processor.py), the signal writer                          *)
(* (src/handlers/signal_writer.py), and the alerter with its correlation   *)
(* engine (src/handlers/alerter.py, src/domain/correlation_engine.py).     *)
(*                                                                         *)
(* The processor turns an event into detections; each is enqueued, and     *)
(* announced at once by an alert and an outbox row.  The signal writer     *)
(* stores what was enqueued.  The stream of the signals table drives the   *)
(* alerter, which counts the signals of the last Window and announces a    *)
(* correlation by an alert and an outbox row in one transaction.           *)
(*                                                                         *)
(* All three are retried: the event by Lambda, the message by its queue,   *)
(* the stream's batch from its start.  Every call may fail without effect, *)
(* or take effect and still raise, and invocations may die: each of these  *)
(* is a fault, and there are at most MaxFaults.                            *)
(*                                                                         *)
(* Abstractions.  The events are of one actor, by which all correlations   *)
(* group; which rules match is given (Matching, Counts).  The uuid of a    *)
(* detection is the event, the rule and the attempt.  An invocation of the *)
(* signal writer or the alerter is the pc of the message or record it is   *)
(* at.  Signals of one rule have one severity, so their records are in one *)
(* shard of the stream and handled one at a time; in any order, though.    *)
(* The write-back of an alert to the signals queue is a destination of its *)
(* outbox row, and the alerter skips such items.  Timestamps are in        *)
(* microseconds, so no two signals share a key of their table.             *)
(***************************************************************************)
EXTENDS Integers, FiniteSets

CONSTANTS
  Events,        \* events delivered to the processor
  Rules,         \* signal rules
  Matching,      \* Matching[e]: the rules that event e matches
  Notifying,     \* the signal rules with notify
  Managed,       \* notifying detections that S3 ingestion enqueues
  Arrivals,      \* the sets of events and managed detections that may come together
  Correlations,  \* correlation rules
  Counts,        \* Counts[c]: the signal rules whose signals c counts
  Unindexed,     \* the correlations whose group_by has no index
  Threshold,     \* threshold of the correlations
  Window,        \* time_window_seconds, in ticks
  Limit,         \* of a query: max(5 * threshold, 100)
  Background,    \* how many signals of the actor, which none counts, are there from the start
  LaggingIndex,  \* whether the index gsi_signal_actor_user_name may lag behind its table
  MaxTries,      \* Lambda's attempts at an event
  MaxReceives,   \* maxReceiveCount of the signals queue
  MaxBatches,    \* attempts at a stream record: 1 + maximumRetryAttempts
  MaxTime,       \* bound on the clock
  MaxFaults      \* bound on the faults

ASSUME AlertingAssumption ==
  /\ Matching \in [Events -> SUBSET Rules]
  /\ Counts \in [Correlations -> SUBSET Rules]
  /\ Notifying \subseteq Rules
  /\ Arrivals \subseteq SUBSET (Events \cup Managed)
  /\ Unindexed \subseteq Correlations
  /\ {Threshold, Window, Limit, MaxTries, MaxReceives, MaxBatches} \subseteq Nat \ {0}
  /\ {Background, MaxTime, MaxFaults} \subseteq Nat
  /\ Background <= Limit
  /\ LaggingIndex \in BOOLEAN

VARIABLES
  now,      \* the clock
  faults,   \* faults that may still happen
  event,    \* the events and the processor's invocations
  message,  \* signals-queue
  born,     \* the timestamps of the signals
  stored,   \* signals-table-v2
  record,   \* its stream and the alerter's invocations
  alerts,   \* alerts-table
  outbox    \* outbox-table

vars == <<now, faults, event, message, born, stored, record, alerts, outbox>>

-----------------------------------------------------------------------------
Detections == [event : Events, rule : Rules, try : 1..MaxTries]

Signals == Detections \cup Managed

(* alert_key of a correlation: its rule and the window of the trigger.     *)
Windows == [correlation : Correlations, window : 0..MaxTime]

ASSUME ManagedApart == Managed \cap (Detections \cup Windows) = {}

Keys == Signals \cup Windows

Handling(pcs) ==
  [pc : pcs, tries : 1..MaxBatches, at : 0..MaxTime, todo : SUBSET Correlations, due : SUBSET Windows]

NoRecord == [pc |-> "none", tries |-> 0]

TypeOK ==
  /\ now \in 0..MaxTime
  /\ faults \in 0..MaxFaults
  /\ event \in [Events ->
       [pc : {"absent", "waiting", "next", "alert", "outbox", "done", "lost"}, try : 0..MaxTries,
        todo : SUBSET Rules, rule : Rules \cup {"none"}]]
  /\ message \in [Signals ->
       [state : {"none", "visible", "put", "transact", "deleted", "dead"},
        receives : 0..MaxReceives]]
  /\ born \in [Signals -> 0..MaxTime]
  /\ stored \subseteq Signals
  /\ record \in [Detections ->
       [pc : {"none", "waiting"}, tries : 0..MaxBatches] \cup Handling({"handling", "handled", "lost"})]
  /\ alerts \subseteq [key : Keys, by : Signals, try : Nat]
  /\ outbox \subseteq Keys

Init ==
  /\ now = 0
  /\ faults = MaxFaults
  /\ \E arrived \in Arrivals :
       /\ event = [e \in Events |->
            [pc |-> IF e \in arrived THEN "waiting" ELSE "absent", try |-> 0, todo |-> {}, rule |-> "none"]]
       /\ message = [s \in Signals |->
            [state |-> IF s \in Managed \cap arrived THEN "visible" ELSE "none", receives |-> 0]]
  /\ born = [s \in Signals |-> 0]
  /\ stored = {}
  /\ record = [s \in Detections |-> NoRecord]
  /\ alerts = {}
  /\ outbox = {}

Fault == faults > 0 /\ faults' = faults - 1

-----------------------------------------------------------------------------
(* The processor                                                           *)

Detected(e, r) == [event |-> e, rule |-> r, try |-> event[e].try]

(* The invocation at e raises; Lambda tries the event again, or gives up.  *)
Raised(e) == [event[e] EXCEPT !.pc = IF event[e].try < MaxTries THEN "waiting" ELSE "lost"]

(* run_detection: each detection gets a fresh id and the time.             *)
Detect(e) ==
  /\ event[e].pc = "waiting"
  /\ event[e].try < MaxTries
  /\ event' = [event EXCEPT ![e] = [pc |-> "next", try |-> @.try + 1, todo |-> Matching[e], rule |-> "none"]]
  /\ born' = [s \in Signals |->
       IF s \in Detections /\ s.event = e /\ s.try = event'[e].try THEN now ELSE born[s]]
  /\ UNCHANGED <<now, faults, message, stored, record, alerts, outbox>>

Enqueued(e, r) ==
  [event[e] EXCEPT !.pc = IF r \in Notifying THEN "alert" ELSE "next", !.todo = @ \ {r}, !.rule = r]

EnqueueFailureSwallowed(e, r) == [event[e] EXCEPT !.todo = @ \ {r}]

EnqueueFailure(e, r) == Raised(e)

Enqueue(e) ==
  /\ event[e].pc = "next"
  /\ \E r \in event[e].todo :
       LET send == message' = [message EXCEPT ![Detected(e, r)].state = "visible"] IN
       \/ send /\ event' = [event EXCEPT ![e] = Enqueued(e, r)] /\ UNCHANGED faults
       \/ (send \/ UNCHANGED message) /\ event' = [event EXCEPT ![e] = EnqueueFailure(e, r)] /\ Fault
  /\ UNCHANGED <<now, born, stored, record, alerts, outbox>>

(* put_alert_if_not_exists; a failure is logged, and the outbox skipped.   *)
PutAlert(e) ==
  /\ event[e].pc = "alert"
  /\ LET s == Detected(e, event[e].rule)
         put == alerts' = alerts \cup {[key |-> s, by |-> s, try |-> event[e].try]} IN
     \/ put /\ event' = [event EXCEPT ![e].pc = "outbox"] /\ UNCHANGED faults
     \/ (put \/ UNCHANGED alerts) /\ event' = [event EXCEPT ![e].pc = "next"] /\ Fault
  /\ UNCHANGED <<now, message, born, stored, record, outbox>>

(* put_outbox_record, under an id of its own; a failure is only logged.    *)
PutOutbox(e) ==
  /\ event[e].pc = "outbox"
  /\ LET put == outbox' = outbox \cup {Detected(e, event[e].rule)} IN
     \/ put /\ UNCHANGED faults
     \/ (put \/ UNCHANGED outbox) /\ Fault
  /\ event' = [event EXCEPT ![e].pc = "next"]
  /\ UNCHANGED <<now, message, born, stored, record, alerts>>

Processed(e) ==
  /\ event[e].pc = "next"
  /\ event[e].todo = {}
  /\ event' = [event EXCEPT ![e].pc = "done"]
  /\ UNCHANGED <<now, faults, message, born, stored, record, alerts, outbox>>

(* The invocation dies, or cannot load rules or lists.                     *)
CrashProcessor(e) ==
  /\ event[e].pc \in {"next", "alert", "outbox"}
  /\ Fault
  /\ event' = [event EXCEPT ![e] = Raised(e)]
  /\ UNCHANGED <<now, message, born, stored, record, alerts, outbox>>

-----------------------------------------------------------------------------
(* Alert and outbox row in one transaction: put_alert_with_outbox          *)

Recordable(k) == k \notin outbox

(* Whether it is written or refused as a duplicate, the call returns.      *)
Announce(k, s, n) ==
  IF Recordable(k)
  THEN /\ alerts' = alerts \cup {[key |-> k, by |-> s, try |-> n]}
       /\ outbox' = outbox \cup {k}
  ELSE UNCHANGED <<alerts, outbox>>

-----------------------------------------------------------------------------
(* The signal writer                                                       *)

Receive(s) ==
  /\ message[s].state = "visible"
  /\ message' = [message EXCEPT ![s] = [state |-> "put", receives |-> @.receives + 1]]
  /\ UNCHANGED <<now, faults, event, born, stored, record, alerts, outbox>>

(* A message in batchItemFailures, or whose invocation died before it ended *)
(* and could be deleted.                                                   *)
Return(s) ==
  message' = [message EXCEPT ![s].state = IF message[s].receives < MaxReceives THEN "visible" ELSE "dead"]

(* The transaction is completed for a duplicate too.                       *)
AfterPut(s) == IF s \in Managed THEN "transact" ELSE "deleted"

(* put_signal_if_not_exists: an insert, or a duplicate.                    *)
Store(s) ==
  /\ stored' = stored \cup {s}
  /\ record' = IF s \in Detections \ stored THEN [record EXCEPT ![s].pc = "waiting"] ELSE record

Put(s) ==
  /\ message[s].state = "put"
  /\ \/ Store(s) /\ message' = [message EXCEPT ![s].state = AfterPut(s)] /\ UNCHANGED faults
     \/ (Store(s) \/ UNCHANGED <<stored, record>>) /\ Return(s) /\ Fault
  /\ UNCHANGED <<now, event, born, alerts, outbox>>

Transact(s) ==
  /\ message[s].state = "transact"
  /\ \/ /\ Announce(s, s, message[s].receives)
        /\ message' = [message EXCEPT ![s].state = "deleted"]
        /\ UNCHANGED faults
     \/ (Announce(s, s, message[s].receives) \/ UNCHANGED <<alerts, outbox>>) /\ Return(s) /\ Fault
  /\ UNCHANGED <<now, event, born, stored, record>>

-----------------------------------------------------------------------------
(* The alerter                                                             *)

Shard(s) == {t \in Detections : t.rule = s.rule}

(* A record is handled when its correlations are done and stored.          *)
Advanced(r) == IF r.todo = {} /\ r.due = {} THEN [r EXCEPT !.pc = "handled"] ELSE r

(* The alerter comes to the record of s.                                   *)
Begin(s) ==
  /\ record[s].pc = "waiting"
  /\ \A t \in Shard(s) : record[t].pc # "handling"
  /\ record' = [record EXCEPT ![s] = Advanced(
       [pc |-> "handling", tries |-> @.tries + 1, at |-> now,
        todo |-> {c \in Correlations : s.rule \in Counts[c]}, due |-> {}])]
  /\ UNCHANGED <<now, faults, event, message, born, stored, alerts, outbox>>

(* The invocation at s raises: the batch goes back, with some of those      *)
(* handled before; after MaxBatches attempts a record is given up.         *)
BatchFails(s) ==
  \E redo \in SUBSET {t \in Shard(s) : record[t].pc = "handled"} :
    record' = [t \in Detections |->
      IF t \notin redo \cup {s} THEN record[t]
      ELSE IF record[t].tries < MaxBatches THEN [pc |-> "waiting", tries |-> record[t].tries]
      ELSE [record[t] EXCEPT !.pc = "lost"]]

SinceOf(s) == record[s].at - Window

Recent(s) == {t \in stored \cap Detections : born[t] >= SinceOf(s)}

(* What the index has of them: it follows the table with a delay.          *)
Indexed(s) == IF LaggingIndex THEN SUBSET Recent(s) ELSE {Recent(s)}

Room(s) == IF SinceOf(s) <= 0 THEN Limit - Background ELSE Limit

(* A query's pages, oldest first and up to the limit.                      *)
Pages(s) ==
  UNION {{page \in SUBSET recent :
            /\ Cardinality(page) <= Room(s)
            /\ Cardinality(page) < Room(s) => page = recent
            /\ \A t \in page, u \in recent \ page : born[t] <= born[u]} : recent \in Indexed(s)}

AboveThreshold(n) == n > Threshold

Met(n) == n >= Threshold

WindowOfHandling(c, s) == [correlation |-> c, window |-> record[s].at \div Window]

(* The window of the trigger's own time, not of its handling.              *)
WindowOf(c, s) == [correlation |-> c, window |-> born[s] \div Window]

(* One correlation of CorrelationEngine.correlate.  Without an index the   *)
(* repository scans the table, which the alerter's role does not permit.   *)
Correlate(s) ==
  /\ record[s].pc = "handling"
  /\ \E c \in record[s].todo :
       \/ /\ c \notin Unindexed
          /\ \E page \in Pages(s) :
               LET matched == {t \in page : t.rule \in Counts[c]} IN
               record' = [record EXCEPT ![s] = Advanced([record[s] EXCEPT
                 !.todo = @ \ {c},
                 !.due = IF Met(Cardinality(matched)) THEN @ \cup {WindowOf(c, s)} ELSE @])]
          /\ UNCHANGED faults
       \/ c \in Unindexed /\ BatchFails(s) /\ UNCHANGED faults
  /\ UNCHANGED <<now, event, message, born, stored, alerts, outbox>>

(* The alerts of a record are stored when all its correlations are done.   *)
StoreAlert(s) ==
  /\ record[s].pc = "handling"
  /\ record[s].todo = {}
  /\ \E k \in record[s].due :
       \/ /\ Announce(k, s, record[s].tries)
          /\ record' = [record EXCEPT ![s] = Advanced([record[s] EXCEPT !.due = @ \ {k}])]
          /\ UNCHANGED faults
       \/ (Announce(k, s, record[s].tries) \/ UNCHANGED <<alerts, outbox>>) /\ BatchFails(s) /\ Fault
  /\ UNCHANGED <<now, event, message, born, stored>>

(* The invocation dies, a query fails, or another record of the batch does. *)
CrashAlerter(s) ==
  /\ record[s].pc \in {"handling", "handled"}
  /\ Fault
  /\ BatchFails(s)
  /\ UNCHANGED <<now, event, message, born, stored, alerts, outbox>>

-----------------------------------------------------------------------------
Tick ==
  /\ now < MaxTime
  /\ now' = now + 1
  /\ UNCHANGED <<faults, event, message, born, stored, record, alerts, outbox>>

Next ==
  \/ \E e \in Events : Detect(e)
  \/ \E e \in Events : Enqueue(e)
  \/ \E e \in Events : PutAlert(e)
  \/ \E e \in Events : PutOutbox(e)
  \/ \E e \in Events : Processed(e)
  \/ \E e \in Events : CrashProcessor(e)
  \/ \E s \in Signals : Receive(s)
  \/ \E s \in Signals : Put(s)
  \/ \E s \in Signals : Transact(s)
  \/ \E s \in Detections : Begin(s)
  \/ \E s \in Detections : Correlate(s)
  \/ \E s \in Detections : StoreAlert(s)
  \/ \E s \in Detections : CrashAlerter(s)
  \/ Tick

Spec == Init /\ [][Next]_vars

-----------------------------------------------------------------------------
(* Properties                                                              *)

(* An event is done only when each of its detections is in the queue or     *)
(* was: lambda_handler raises when it cannot enqueue one.                  *)
DoneMeansEnqueued ==
  \A e \in Events : event[e].pc = "done" =>
    \A r \in Matching[e] : message[Detected(e, r)].state # "none"

(* A message is deleted only when its signal is stored, and announced if    *)
(* S3 ingestion left that to the signal writer, whichever delivery of the  *)
(* message did which of the two.                                           *)
DeletedMeansStored ==
  \A s \in Signals : message[s].state = "deleted" =>
    s \in stored /\ (s \in Managed => s \in outbox)

(* However often batches and messages are repeated, a correlation's window *)
(* and a managed detection are announced by one alert, which stands beside *)
(* the outbox row that delivers it.                                        *)
AnnouncedOnce ==
  \A k \in Windows \cup Managed :
    LET announced == {a \in alerts : a.key = k} IN
    Cardinality(announced) = IF k \in outbox THEN 1 ELSE 0

(* A signal triggers at most one alert of a correlation, even if its batch *)
(* is repeated in the next window.                                         *)
OneAlertPerTrigger ==
  \A a, b \in alerts :
    a.by = b.by /\ a.key \in Windows /\ b.key \in Windows /\ a.key.correlation = b.key.correlation => a = b

(* The alerter has dealt with the record of s, or gave it up although no    *)
(* call failed and no invocation died.                                     *)
Settled(s) ==
  \/ record[s].pc = "handled"
  \/ record[s].pc = "lost" /\ faults = MaxFaults

(* When Threshold signals that a correlation counts are settled, and each   *)
(* was still recent when any of them was handled, an alert of one of their *)
(* windows is announced.  It needs an index that does not lag behind, and  *)
(* room for them in a query.                                               *)
ThresholdMeansAlert ==
  \A c \in Correlations :
    LET counted == {s \in Detections : s.rule \in Counts[c] /\ Settled(s)} IN
    \A S \in SUBSET counted :
      Cardinality(S) >= Threshold /\ (\A s, t \in S : born[t] >= SinceOf(s)) =>
        \E s \in S : WindowOf(c, s) \in outbox
=============================================================================
