-------------------------- MODULE Detection_proofs --------------------------
(***************************************************************************)
(* What the path from an event to its alert and its response keeps.        *)
(*                                                                         *)
(* Alerting, for any events, rules, correlations and numbers of retries:   *)
(* nothing detected is dropped, an alert is announced once however often   *)
(* batches and messages are repeated, and a met threshold is announced.    *)
(* RuleEvaluation, for any conditions, lists and events: a rule fires on   *)
(* evidence only, and a foreign event asks for no response.                *)
(* ResponseTargets, for any rules and mappings: an action meets the mapped *)
(* target, and its undo meets the action.                                  *)
(***************************************************************************)
EXTENDS Alerting, RuleEvaluation, ResponseTargets, FiniteSetTheorems, SequenceTheorems, TLAPS

USE AlertingAssumption, ManagedApart DEF AlertingAssumption

-----------------------------------------------------------------------------
(* The inductive invariant                                                 *)

Running == {"next", "alert", "outbox", "done"}

(* What an invocation of the processor has enqueued, and what it has not.  *)
EventInv ==
  \A e \in Events :
    /\ event[e].pc \in {"alert", "outbox"} => event[e].rule \in Rules
    /\ event[e].pc = "done" => event[e].todo = {}
    /\ event[e].pc \in Running =>
         /\ event[e].try > 0
         /\ \A r \in event[e].todo : message[Detected(e, r)].state = "none"
         /\ \A r \in Matching[e] \ event[e].todo : message[Detected(e, r)].state # "none"

(* How far a message is, and what has happened to its signal by then.      *)
MessageInv ==
  \A s \in Signals :
    /\ message[s].state = "none" => message[s].receives = 0 /\ s \notin stored
    /\ message[s].state = "visible" => message[s].receives < MaxReceives
    /\ message[s].state \in {"transact", "deleted"} => s \in stored
    /\ message[s].state = "transact" => s \in Managed
    /\ message[s].state = "deleted" /\ s \in Managed => s \in outbox
    /\ s \in Detections /\ message[s].state # "none" => s.try <= event[s.event].try

(* Only stored signals have a record, and what it is about to announce is   *)
(* in the window of its own time.                                          *)
RecordInv ==
  \A s \in Detections :
    /\ record[s].pc = "none" => record[s].tries = 0
    /\ record[s].pc # "none" => s \in stored
    /\ record[s].pc = "waiting" => record[s].tries < MaxBatches
    /\ record[s].pc \in {"handling", "handled", "lost"} =>
         \A k \in record[s].due : k = WindowOf(k.correlation, s)

Announced(k) == \E a \in alerts : a.key = k

(* The outbox rows of transactions are the keys of their alerts, one each.  *)
AlertInv ==
  /\ \A a \in alerts : a.key \in Windows =>
       a.by \in stored \cap Detections /\ a.key = WindowOf(a.key.correlation, a.by)
  /\ \A k \in Windows \cup Managed :
       /\ k \in outbox <=> Announced(k)
       /\ \A a, b \in alerts : a.key = k /\ b.key = k => a = b

Inv == TypeOK /\ EventInv /\ MessageInv /\ RecordInv /\ AlertInv

-----------------------------------------------------------------------------
(* Lemmas about the helpers                                                *)

(* Whole division by a positive number stays within the dividend.          *)
LEMMA DivBounds ==
  ASSUME NEW b \in Nat, NEW w \in Nat, w > 0
  PROVE  b \div w \in 0..b
<1> DEFINE q == b \div w
<1>1. q \in Int /\ q * w <= b /\ b < (q + 1) * w  BY SMT
<1>2. q >= 0  BY <1>1, SMT
<1>3. q <= b  BY <1>1, <1>2, SMT
<1> QED  BY <1>1, <1>2, <1>3

(* The key of a correlation's alert is one.                                *)
LEMMA WindowType ==
  ASSUME TypeOK, NEW c \in Correlations, NEW s \in Signals
  PROVE  WindowOf(c, s) \in Windows
<1>1. born[s] \in 0..MaxTime  BY DEF TypeOK
<1>2. born[s] \div Window \in 0..born[s]  BY <1>1, DivBounds
<1>3. born[s] \div Window \in 0..MaxTime  BY <1>1, <1>2
<1> QED  BY <1>3 DEF WindowOf, Windows

(* A detection's id is a signal and no key of a transaction.               *)
LEMMA DetectedType ==
  ASSUME TypeOK, NEW e \in Events, NEW r \in Rules, event[e].try > 0
  PROVE  /\ Detected(e, r) \in Detections
         /\ Detected(e, r) \notin Windows
         /\ Detected(e, r) \notin Managed
<1>1. Detected(e, r) \in Detections  BY DEF TypeOK, Detected, Detections
<1>2. Detected(e, r) \notin Managed  BY <1>1
<1>3. \A k \in Windows : Detected(e, r) # k  BY DEF Detected, Windows
<1> QED  BY <1>1, <1>2, <1>3

RecordType ==
  [pc : {"none", "waiting"}, tries : 0..MaxBatches] \cup Handling({"handling", "handled", "lost"})

(* A failed batch leaves its records waiting or given up, and no other      *)
(* record changes.                                                         *)
LEMMA BatchFailsEffect ==
  ASSUME TypeOK, RecordInv, NEW s \in Detections, record[s].pc \in {"handling", "handled"}, BatchFails(s),
         UNCHANGED <<born, stored>>
  PROVE  record' \in [Detections -> RecordType] /\ RecordInv'
<1>1. PICK redo \in SUBSET {t \in Shard(s) : record[t].pc = "handled"} :
        record' = [t \in Detections |->
          IF t \notin redo \cup {s} THEN record[t]
          ELSE IF record[t].tries < MaxBatches THEN [pc |-> "waiting", tries |-> record[t].tries]
          ELSE [record[t] EXCEPT !.pc = "lost"]]
  BY DEF BatchFails
<1>2. ASSUME NEW t \in Detections
      PROVE  /\ record'[t] \in RecordType
             /\ record'[t].pc = "none" => record'[t].tries = 0
             /\ record'[t].pc # "none" => t \in stored
             /\ record'[t].pc = "waiting" => record'[t].tries < MaxBatches
             /\ record'[t].pc \in {"handling", "handled", "lost"} =>
                  \A k \in record'[t].due : k = WindowOf(k.correlation, t)
  <2>0. record[t] \in RecordType  BY DEF TypeOK, RecordType
  <2>1. CASE t \notin redo \cup {s}
    BY <1>1, <2>0, <2>1 DEF RecordInv
  <2>2. CASE t \in redo \cup {s}
    <3>1. record[t].pc \in {"handling", "handled"}  BY <1>1, <2>2
    <3>2. record[t] \in Handling({"handling", "handled", "lost"})  BY <2>0, <3>1 DEF RecordType
    <3>3. t \in stored /\ \A k \in record[t].due : k = WindowOf(k.correlation, t)  BY <3>1 DEF RecordInv
    <3>4. CASE record[t].tries < MaxBatches
      BY <1>1, <2>2, <3>2, <3>3, <3>4 DEF RecordType, Handling
    <3>5. CASE ~(record[t].tries < MaxBatches)
      <4>1. record'[t] = [record[t] EXCEPT !.pc = "lost"]  BY <1>1, <2>2, <3>5
      <4>2. record'[t] \in Handling({"handling", "handled", "lost"})  BY <3>2, <4>1 DEF Handling
      <4>3. record'[t].pc = "lost" /\ record'[t].due = record[t].due  BY <3>2, <4>1 DEF Handling
      <4> QED  BY <3>3, <4>2, <4>3 DEF RecordType
    <3> QED  BY <3>4, <3>5
  <2> QED  BY <2>1, <2>2
<1>3. record' \in [Detections -> RecordType]  BY <1>1, <1>2
<1>4. RecordInv'  BY <1>2 DEF RecordInv, WindowOf
<1> QED  BY <1>3, <1>4

(* As long as what is stored only grows and keeps its time, the alerts and  *)
(* outbox rows written so far stay in order.                               *)
LEMMA AlertsKept ==
  ASSUME AlertInv, UNCHANGED <<alerts, outbox>>, stored \subseteq stored',
         \A s \in stored : born'[s] = born[s]
  PROVE  AlertInv'
<1>1. \A a \in alerts : a.key \in Windows =>
        a.by \in stored' \cap Detections /\ a.key = WindowOf(a.key.correlation, a.by)'
  BY DEF AlertInv, WindowOf
<1>2. \A k : Announced(k)' <=> Announced(k)  BY DEF Announced
<1> QED  BY <1>1, <1>2 DEF AlertInv

(* The transaction announces its key once: by the caller if nobody did yet. *)
LEMMA AnnounceEffect ==
  ASSUME TypeOK, AlertInv, NEW s \in stored, NEW k, NEW n \in Nat, Announce(k, s, n),
         k \in Managed \/ (k \in Windows /\ s \in Detections /\ k = WindowOf(k.correlation, s)),
         UNCHANGED <<born, stored>>
  PROVE  /\ alerts' \subseteq [key : Keys, by : Signals, try : Nat]
         /\ outbox' \subseteq Keys
         /\ outbox \subseteq outbox' /\ k \in outbox'
         /\ AlertInv'
<1>1. CASE k \in outbox
  <2>1. UNCHANGED <<alerts, outbox>>  BY <1>1 DEF Announce, Recordable
  <2>2. AlertInv'  BY <2>1, AlertsKept
  <2> QED  BY <1>1, <2>1, <2>2 DEF TypeOK
<1>2. CASE k \notin outbox
  <2> DEFINE new == [key |-> k, by |-> s, try |-> n]
  <2>1. alerts' = alerts \cup {new} /\ outbox' = outbox \cup {k}  BY <1>2 DEF Announce, Recordable
  <2>2. k \in Keys /\ s \in Signals  BY DEF TypeOK, Keys, Signals
  <2>3. new \in [key : Keys, by : Signals, try : Nat]  BY <2>2
  <2>4. ~Announced(k)  BY <1>2 DEF AlertInv
  <2>5. ASSUME NEW a \in alerts', a.key \in Windows
        PROVE  a.by \in stored' \cap Detections /\ a.key = WindowOf(a.key.correlation, a.by)'
    <3>1. CASE a \in alerts  BY <2>5, <3>1 DEF AlertInv, WindowOf
    <3>2. CASE a = new
      <4>1. k \notin Managed  BY <2>5, <3>2
      <4> QED  BY <3>2, <4>1 DEF WindowOf
    <3> QED  BY <2>1, <3>1, <3>2
  <2>6. ASSUME NEW j \in Windows \cup Managed
        PROVE  /\ j \in outbox' <=> Announced(j)'
               /\ \A a, b \in alerts' : a.key = j /\ b.key = j => a = b
    <3>1. CASE j = k
      <4>1. Announced(j)'
        <5>1. new \in alerts' /\ new.key = k  BY <2>1
        <5> QED  BY <3>1, <5>1 DEF Announced
      <4>2. \A a \in alerts' : a.key = k => a = new  BY <2>1, <2>4 DEF Announced
      <4>3. j \in outbox'  BY <2>1, <3>1
      <4> QED  BY <3>1, <4>1, <4>2, <4>3
    <3>2. CASE j # k
      <4>1. \A a \in alerts' : a.key = j => a \in alerts  BY <2>1, <3>2
      <4>2. Announced(j)' <=> Announced(j)  BY <2>1, <4>1 DEF Announced
      <4> QED  BY <2>1, <3>2, <4>1, <4>2 DEF AlertInv
    <3> QED  BY <3>1, <3>2
  <2>7. AlertInv'  BY <2>5, <2>6 DEF AlertInv
  <2> QED  BY <2>1, <2>2, <2>3, <2>7 DEF TypeOK
<1> QED  BY <1>1, <1>2

EventType ==
  [pc : {"absent", "waiting", "next", "alert", "outbox", "done", "lost"}, try : 0..MaxTries,
   todo : SUBSET Rules, rule : Rules \cup {"none"}]

MessageType ==
  [state : {"none", "visible", "put", "transact", "deleted", "dead"}, receives : 0..MaxReceives]

-----------------------------------------------------------------------------
(* The processor's steps                                                   *)

(* A new attempt at an event detects signals that nobody has seen yet.     *)
LEMMA DetectStep ==
  ASSUME Inv, NEW e \in Events, Detect(e)
  PROVE  Inv'
<1> USE DEF Inv, Detect
<1>0. event[e] \in EventType  BY DEF TypeOK, EventType
<1> DEFINE n == event[e].try + 1
<1>1. /\ event' = [event EXCEPT ![e] = [pc |-> "next", try |-> n, todo |-> Matching[e], rule |-> "none"]]
      /\ n \in 1..MaxTries
  BY <1>0 DEF TypeOK, EventType
<1>2. event' \in [Events -> EventType]
  <2>1. [pc |-> "next", try |-> n, todo |-> Matching[e], rule |-> "none"] \in EventType  BY <1>1 DEF EventType
  <2> QED  BY <1>1, <2>1 DEF TypeOK, EventType
<1>3. event'[e] = [pc |-> "next", try |-> n, todo |-> Matching[e], rule |-> "none"]
  BY <1>1 DEF TypeOK
<1>4. \A f \in Events : f # e => event'[f] = event[f]  BY <1>1 DEF TypeOK
<1>5. \A s \in Detections : s.event = e /\ s.try = n => message[s].state = "none" /\ s \notin stored
  BY <1>0, <1>1 DEF MessageInv, Signals, EventType, Detections
<1>6. \A s \in stored : born'[s] = born[s]
  BY <1>3, <1>5 DEF TypeOK
<1>7. TypeOK'
  <2>1. born' \in [Signals -> 0..MaxTime]  BY DEF TypeOK
  <2> QED  BY <1>2, <2>1 DEF TypeOK, EventType
<1>8. EventInv'
  <2>1. ASSUME NEW f \in Events
        PROVE  /\ event'[f].pc \in {"alert", "outbox"} => event'[f].rule \in Rules
               /\ event'[f].pc = "done" => event'[f].todo = {}
               /\ event'[f].pc \in Running =>
                    /\ event'[f].try > 0
                    /\ \A r \in event'[f].todo : message[Detected(f, r)'].state = "none"
                    /\ \A r \in Matching[f] \ event'[f].todo : message[Detected(f, r)'].state # "none"
    <3>1. CASE f = e
      <4>1. \A r \in Matching[e] : Detected(e, r)' \in Detections  BY <1>1, <1>3 DEF Detected, Detections
      <4>2. \A r \in Matching[e] : message[Detected(e, r)'].state = "none"  BY <1>3, <1>5, <4>1 DEF Detected
      <4> QED  BY <1>1, <1>3, <3>1, <4>2
    <3>2. CASE f # e  BY <1>4, <3>2 DEF EventInv, Detected
    <3> QED  BY <3>1, <3>2
  <2> QED  BY <2>1 DEF EventInv
<1>9. MessageInv'
  <2>1. \A s \in Detections : event[s.event].try <= event'[s.event].try
    <3> SUFFICES ASSUME NEW s \in Detections PROVE event[s.event].try <= event'[s.event].try
      OBVIOUS
    <3>1. s.event \in Events  BY DEF Detections
    <3>2. CASE s.event = e  BY <1>0, <1>3, <3>2 DEF EventType
    <3>3. CASE s.event # e  BY <1>2, <1>4, <3>1, <3>3 DEF EventType
    <3> QED  BY <3>2, <3>3
  <2>2. ASSUME NEW s \in Detections, s.try <= event[s.event].try PROVE s.try <= event'[s.event].try
    <3>1. s.event \in Events /\ s.try \in Nat  BY DEF Detections
    <3>2. event[s.event].try \in Nat /\ event'[s.event].try \in Nat  BY <1>2, <3>1 DEF TypeOK, EventType
    <3> QED  BY <2>1, <2>2, <3>1, <3>2
  <2> QED  BY <2>2 DEF MessageInv
<1>10. RecordInv'
  BY <1>6 DEF RecordInv, WindowOf
<1>11. AlertInv'  BY <1>6, AlertsKept
<1> QED  BY <1>7, <1>8, <1>9, <1>10, <1>11

(* A step of the processor that touches neither queue nor table, and keeps  *)
(* the attempt, keeps what holds of messages, records and alerts.          *)
LEMMA EventOnly ==
  ASSUME Inv, NEW e \in Events, NEW v \in EventType, event' = [event EXCEPT ![e] = v],
         v.try = event[e].try, faults' \in 0..MaxFaults,
         v.pc \in {"alert", "outbox"} => v.rule \in Rules,
         v.pc = "done" => v.todo = {},
         v.pc \in Running => event[e].pc \in Running /\ v.todo = event[e].todo,
         UNCHANGED <<now, message, born, stored, record, alerts, outbox>>
  PROVE  Inv'
<1> USE DEF Inv
<1>1. TypeOK'  BY DEF TypeOK, EventType
<1>2. event'[e] = v /\ \A f \in Events : f # e => event'[f] = event[f]  BY DEF TypeOK
<1>3. \A f \in Events : event'[f].try = event[f].try  BY <1>2
<1>4. EventInv'
  <2>1. ASSUME NEW f \in Events
        PROVE  /\ event'[f].pc \in {"alert", "outbox"} => event'[f].rule \in Rules
               /\ event'[f].pc = "done" => event'[f].todo = {}
               /\ event'[f].pc \in Running =>
                    /\ event'[f].try > 0
                    /\ \A r \in event'[f].todo : message[Detected(f, r)'].state = "none"
                    /\ \A r \in Matching[f] \ event'[f].todo : message[Detected(f, r)'].state # "none"
    <3>1. \A r : Detected(f, r)' = Detected(f, r)  BY <1>3 DEF Detected
    <3>2. CASE f = e  BY <1>2, <3>1, <3>2 DEF EventInv
    <3>3. CASE f # e  BY <1>2, <3>1, <3>3 DEF EventInv
    <3> QED  BY <3>2, <3>3
  <2> QED  BY <2>1 DEF EventInv
<1>5. MessageInv'
  <2>1. \A s \in Detections : event'[s.event].try = event[s.event].try  BY <1>3 DEF Detections
  <2> QED  BY <2>1 DEF MessageInv
<1>6. RecordInv'  BY DEF RecordInv, WindowOf
<1>7. AlertInv'  BY AlertsKept
<1> QED  BY <1>1, <1>4, <1>5, <1>6, <1>7

(* The invocation that raises keeps its attempt, and ends.                 *)
LEMMA RaisedType ==
  ASSUME TypeOK, NEW e \in Events
  PROVE  /\ Raised(e) \in EventType
         /\ Raised(e).pc \in {"waiting", "lost"}
         /\ Raised(e).try = event[e].try
<1>1. event[e] \in EventType  BY DEF TypeOK, EventType
<1> QED  BY <1>1 DEF Raised, EventType

(* A processor that dies or is done leaves everything else as it is.       *)
LEMMA CrashProcessorStep ==
  ASSUME Inv, NEW e \in Events, CrashProcessor(e)
  PROVE  Inv'
<1>1. Raised(e).pc \notin Running /\ Raised(e).pc # "done" /\ Raised(e).pc \notin {"alert", "outbox"}
  BY RaisedType DEF Inv, Running
<1>2. faults' \in 0..MaxFaults  BY DEF Inv, TypeOK, CrashProcessor, Fault
<1> QED  BY <1>1, <1>2, RaisedType, EventOnly DEF CrashProcessor, Inv

(* An invocation is done when there is nothing left to enqueue.            *)
LEMMA ProcessedStep ==
  ASSUME Inv, NEW e \in Events, Processed(e)
  PROVE  Inv'
<1> DEFINE v == [event[e] EXCEPT !.pc = "done"]
<1>1. event[e] \in EventType  BY DEF Inv, TypeOK, EventType
<1>2. v \in EventType /\ v.try = event[e].try /\ v.todo = event[e].todo /\ v.pc = "done"
  BY <1>1 DEF EventType
<1>3. event' = [event EXCEPT ![e] = v]  BY DEF Processed
<1>4. faults' \in 0..MaxFaults  BY DEF Inv, TypeOK, Processed
<1> HIDE DEF v
<1> QED  BY <1>2, <1>3, <1>4, EventOnly DEF Processed, Running

(* A message sent for the first time is received for the first time next.  *)
LEMMA SendEffect ==
  ASSUME Inv, NEW e \in Events, NEW r \in event[e].todo, event[e].pc = "next",
         message' = [message EXCEPT ![Detected(e, r)].state = "visible"]
  PROVE  /\ Detected(e, r) \in Signals
         /\ message' \in [Signals -> MessageType]
         /\ message'[Detected(e, r)] = [state |-> "visible", receives |-> 0]
         /\ message[Detected(e, r)].state = "none"
         /\ \A s \in Signals : s # Detected(e, r) => message'[s] = message[s]
<1> DEFINE d == Detected(e, r)
<1>1. event[e].try > 0 /\ r \in Rules  BY DEF Inv, TypeOK, EventInv, Running
<1>2. d \in Signals  BY <1>1, DetectedType DEF Inv, Signals
<1>3. message[d].state = "none" /\ message[d] \in MessageType
  BY <1>2 DEF Inv, EventInv, Running, TypeOK, MessageType
<1>4. message[d].receives = 0  BY <1>2, <1>3 DEF Inv, MessageInv
<1>5. message'[d] = [state |-> "visible", receives |-> 0]
  BY <1>2, <1>3, <1>4 DEF Inv, TypeOK, MessageType
<1>6. \A s \in Signals : s # d => message'[s] = message[s]  BY DEF Inv, TypeOK
<1>7. [state |-> "visible", receives |-> 0] \in MessageType  BY DEF MessageType
<1>8. message' \in [Signals -> MessageType]  BY <1>2, <1>5, <1>6, <1>7 DEF Inv, TypeOK, MessageType
<1> QED  BY <1>2, <1>3, <1>5, <1>6, <1>8

(* Enqueueing moves a detection from what is to be done to the queue; an    *)
(* attempt that fails to is over.                                          *)
LEMMA EnqueueStep ==
  ASSUME Inv, NEW e \in Events, Enqueue(e)
  PROVE  Inv'
<1>0. event[e] \in EventType /\ event[e].pc = "next"  BY DEF Inv, TypeOK, EventType, Enqueue
<1>1. PICK r \in event[e].todo :
        LET send == message' = [message EXCEPT ![Detected(e, r)].state = "visible"] IN
        \/ send /\ event' = [event EXCEPT ![e] = Enqueued(e, r)] /\ UNCHANGED faults
        \/ (send \/ UNCHANGED message) /\ event' = [event EXCEPT ![e] = EnqueueFailure(e, r)] /\ Fault
  BY DEF Enqueue
<1>2. UNCHANGED <<now, born, stored, record, alerts, outbox>>  BY DEF Enqueue
<1>3. faults' \in 0..MaxFaults  BY <1>1 DEF Inv, TypeOK, Fault
<1>4. /\ Enqueued(e, r) \in EventType
      /\ Enqueued(e, r).pc \in {"alert", "next"}
      /\ Enqueued(e, r).try = event[e].try
      /\ Enqueued(e, r).todo = event[e].todo \ {r}
      /\ Enqueued(e, r).rule = r /\ r \in Rules
  BY <1>0 DEF Enqueued, EventType
<1>5. CASE UNCHANGED message /\ event' = [event EXCEPT ![e] = EnqueueFailure(e, r)]
  <2>1. Raised(e).pc \notin Running /\ Raised(e).pc \notin {"alert", "outbox", "done"}
    BY RaisedType DEF Inv, Running
  <2> QED  BY <1>2, <1>3, <1>5, <2>1, RaisedType, EventOnly DEF EnqueueFailure, Inv
<1>6. CASE message' = [message EXCEPT ![Detected(e, r)].state = "visible"]
  <2> DEFINE d == Detected(e, r)
  <2> DEFINE v == event'[e]
  <2>1. /\ d \in Signals
        /\ message' \in [Signals -> MessageType]
        /\ message'[d] = [state |-> "visible", receives |-> 0]
        /\ message[d].state = "none"
        /\ \A s \in Signals : s # d => message'[s] = message[s]
    BY <1>0, <1>6, SendEffect
  <2>2. /\ v \in EventType /\ v.try = event[e].try
        /\ event' = [event EXCEPT ![e] = v]
        /\ v.pc \in {"alert", "outbox"} => v.rule \in Rules
        /\ v.pc \notin {"done", "outbox"}
        /\ v.pc \in Running => v.todo = event[e].todo \ {r}
    <3>1. CASE event' = [event EXCEPT ![e] = Enqueued(e, r)]
      BY <1>4, <3>1 DEF Inv, TypeOK
    <3>2. CASE event' = [event EXCEPT ![e] = Raised(e)]
      BY <3>2, RaisedType DEF Inv, TypeOK, Running
    <3> QED  BY <1>1, <3>1, <3>2 DEF EnqueueFailure
  <2> HIDE DEF v
  <2>3. event'[e] = v /\ \A f \in Events : f # e => event'[f] = event[f]  BY <2>2 DEF Inv, TypeOK
  <2>4. \A f \in Events : event'[f].try = event[f].try  BY <2>2, <2>3
  <2>5. TypeOK'
    <3>1. event' \in [Events -> EventType]  BY <2>2 DEF Inv, TypeOK, EventType
    <3> QED  BY <1>2, <1>3, <2>1, <3>1 DEF Inv, TypeOK, EventType, MessageType
  <2>6. EventInv'
    <3>1. ASSUME NEW f \in Events
          PROVE  /\ event'[f].pc \in {"alert", "outbox"} => event'[f].rule \in Rules
                 /\ event'[f].pc = "done" => event'[f].todo = {}
                 /\ event'[f].pc \in Running =>
                      /\ event'[f].try > 0
                      /\ \A q \in event'[f].todo : message'[Detected(f, q)'].state = "none"
                      /\ \A q \in Matching[f] \ event'[f].todo : message'[Detected(f, q)'].state # "none"
      <4>1. \A q : Detected(f, q)' = Detected(f, q)  BY <2>4 DEF Detected
      <4>2. \A q \in Rules : Detected(f, q) = d => f = e /\ q = r  BY DEF Detected
      <4>3. event[f].pc \in Running => \A q \in Rules : Detected(f, q) \in Signals
        BY DetectedType DEF Inv, EventInv, Signals
      <4>4. event'[f].pc \in Running => event[f].pc \in Running /\ event[f].todo \subseteq Rules
        BY <1>0, <2>3 DEF Inv, TypeOK, Running
      <4>5. CASE f = e
        <5>1. ASSUME v.pc \in Running, NEW q \in v.todo PROVE message'[Detected(f, q)].state = "none"
          <6>1. q \in event[e].todo /\ q # r /\ q \in Rules  BY <2>2, <4>4, <4>5, <5>1, <2>3
          <6>2. message[Detected(f, q)].state = "none"  BY <4>4, <4>5, <5>1, <6>1, <2>3 DEF Inv, EventInv
          <6> QED  BY <2>1, <2>3, <4>2, <4>3, <4>4, <4>5, <5>1, <6>1, <6>2
        <5>2. ASSUME v.pc \in Running, NEW q \in Matching[e] \ v.todo
              PROVE  message'[Detected(f, q)].state # "none"
          <6>1. CASE q = r  BY <2>1, <4>5, <6>1
          <6>2. CASE q # r
            <7>1. q \in Matching[e] \ event[e].todo /\ q \in Rules  BY <2>2, <5>2, <6>2
            <7>2. message[Detected(f, q)].state # "none"
              BY <2>3, <4>4, <4>5, <5>2, <7>1 DEF Inv, EventInv
            <7> QED  BY <2>1, <2>3, <4>2, <4>3, <4>4, <4>5, <5>2, <6>2, <7>1, <7>2
          <6> QED  BY <6>1, <6>2
        <5>3. v.pc \in Running => v.try > 0  BY <2>2, <2>3, <4>4, <4>5 DEF Inv, EventInv
        <5> QED  BY <2>2, <2>3, <4>1, <4>5, <5>1, <5>2, <5>3
      <4>6. CASE f # e
        <5>1. event'[f] = event[f]  BY <2>3, <4>6
        <5>2. event[f].pc \in Running => \A q \in Rules : message'[Detected(f, q)] = message[Detected(f, q)]
          BY <2>1, <4>2, <4>3, <4>6
        <5> QED  BY <4>1, <4>4, <5>1, <5>2 DEF Inv, EventInv
      <4> QED  BY <4>5, <4>6
    <3> QED  BY <3>1 DEF EventInv
  <2>7. MessageInv'
    <3>1. d \in Detections /\ d.try = event[e].try /\ d.event = e /\ d \notin Managed
      BY <1>0, <1>4, DetectedType DEF Inv, EventInv, Running, Detected
    <3>2. d.try <= event'[d.event].try
      <4>1. event[e].try \in Nat  BY <1>0 DEF EventType
      <4> QED  BY <2>4, <3>1, <4>1
    <3>3. \A s \in Detections : event'[s.event].try = event[s.event].try  BY <2>4 DEF Detections
    <3>4. ASSUME NEW s \in Signals
          PROVE  /\ message'[s].state = "none" => message'[s].receives = 0 /\ s \notin stored'
                 /\ message'[s].state = "visible" => message'[s].receives < MaxReceives
                 /\ message'[s].state \in {"transact", "deleted"} => s \in stored'
                 /\ message'[s].state = "transact" => s \in Managed
                 /\ message'[s].state = "deleted" /\ s \in Managed => s \in outbox'
                 /\ s \in Detections /\ message'[s].state # "none" => s.try <= event'[s.event].try
      <4>1. CASE s = d  BY <2>1, <3>2, <4>1
      <4>2. CASE s # d  BY <1>2, <2>1, <3>3, <4>2 DEF Inv, MessageInv
      <4> QED  BY <4>1, <4>2
    <3> QED  BY <3>4 DEF MessageInv
  <2>8. RecordInv'  BY <1>2 DEF Inv, RecordInv, WindowOf
  <2>9. AlertInv'  BY <1>2, AlertsKept DEF Inv
  <2> QED  BY <2>5, <2>6, <2>7, <2>8, <2>9 DEF Inv
<1> QED  BY <1>1, <1>5, <1>6

(* The alert and the outbox row of a detection are apart from those of      *)
(* correlations and managed detections.                                    *)
LEMMA PutAlertStep ==
  ASSUME Inv, NEW e \in Events, PutAlert(e)
  PROVE  Inv'
<1> DEFINE d == Detected(e, event[e].rule)
<1> DEFINE new == [key |-> d, by |-> d, try |-> event[e].try]
<1>0. event[e] \in EventType /\ event[e].pc = "alert" /\ event[e].rule \in Rules /\ event[e].try > 0
  BY DEF Inv, TypeOK, EventType, PutAlert, EventInv, Running
<1>1. d \in Detections /\ d \notin Windows /\ d \notin Managed  BY <1>0, DetectedType DEF Inv
<1>2. PICK p \in {"outbox", "next"} : event' = [event EXCEPT ![e].pc = p]  BY DEF PutAlert
<1>3. alerts' = alerts \cup {new} \/ alerts' = alerts  BY DEF PutAlert
<1>4. UNCHANGED <<now, message, born, stored, record, outbox>>  BY DEF PutAlert
<1>5. faults' \in 0..MaxFaults  BY DEF PutAlert, Inv, TypeOK, Fault
<1> DEFINE v == [event[e] EXCEPT !.pc = p]
<1>6. /\ v \in EventType /\ v.try = event[e].try /\ v.rule = event[e].rule
      /\ v.todo = event[e].todo /\ v.pc = p
  BY <1>0, <1>2 DEF EventType
<1>7. event' = [event EXCEPT ![e] = v]  BY <1>2
<1> HIDE DEF v
<1>8. event'[e] = v /\ \A f \in Events : f # e => event'[f] = event[f]  BY <1>7 DEF Inv, TypeOK
<1>9. \A f \in Events : event'[f].try = event[f].try  BY <1>6, <1>8
<1>10. TypeOK'
  <2>1. event' \in [Events -> EventType]  BY <1>6, <1>7 DEF Inv, TypeOK, EventType
  <2>2. new \in [key : Keys, by : Signals, try : Nat]  BY <1>0, <1>1 DEF Keys, Signals, EventType
  <2> QED  BY <1>3, <1>4, <1>5, <2>1, <2>2 DEF Inv, TypeOK, EventType
<1>11. EventInv'
  <2>1. ASSUME NEW f \in Events
        PROVE  /\ event'[f].pc \in {"alert", "outbox"} => event'[f].rule \in Rules
               /\ event'[f].pc = "done" => event'[f].todo = {}
               /\ event'[f].pc \in Running =>
                    /\ event'[f].try > 0
                    /\ \A r \in event'[f].todo : message[Detected(f, r)'].state = "none"
                    /\ \A r \in Matching[f] \ event'[f].todo : message[Detected(f, r)'].state # "none"
    <3>1. \A r : Detected(f, r)' = Detected(f, r)  BY <1>9 DEF Detected
    <3>2. CASE f = e
      BY <1>0, <1>2, <1>6, <1>8, <3>1, <3>2 DEF Inv, EventInv, Running
    <3>3. CASE f # e  BY <1>8, <3>1, <3>3 DEF Inv, EventInv
    <3> QED  BY <3>2, <3>3
  <2> QED  BY <1>4, <2>1 DEF EventInv
<1>12. MessageInv'
  <2>1. \A s \in Detections : event'[s.event].try = event[s.event].try  BY <1>9 DEF Detections
  <2> QED  BY <1>4, <2>1 DEF Inv, MessageInv
<1>13. RecordInv'  BY <1>4 DEF Inv, RecordInv, WindowOf
<1>14. AlertInv'
  <2>1. \A a \in alerts' : a.key \in Windows \cup Managed => a \in alerts  BY <1>1, <1>3
  <2>2. \A k \in Windows \cup Managed : Announced(k)' <=> Announced(k)
    BY <1>3, <2>1 DEF Announced
  <2>3. \A a \in alerts' : a.key \in Windows =>
          a.by \in stored' \cap Detections /\ a.key = WindowOf(a.key.correlation, a.by)'
    BY <1>4, <2>1 DEF Inv, AlertInv, WindowOf
  <2>4. ASSUME NEW k \in Windows \cup Managed, NEW a \in alerts', NEW b \in alerts', a.key = k, b.key = k
        PROVE  a = b
    <3>1. a \in alerts /\ b \in alerts  BY <2>1, <2>4
    <3> QED  BY <2>4, <3>1 DEF Inv, AlertInv
  <2>5. \A k \in Windows \cup Managed : k \in outbox' <=> Announced(k)'
    BY <1>4, <2>2 DEF Inv, AlertInv
  <2> QED  BY <2>3, <2>4, <2>5 DEF AlertInv
<1> QED  BY <1>10, <1>11, <1>12, <1>13, <1>14 DEF Inv

(* The outbox row of a detection is apart from those of transactions.      *)
LEMMA PutOutboxStep ==
  ASSUME Inv, NEW e \in Events, PutOutbox(e)
  PROVE  Inv'
<1> DEFINE d == Detected(e, event[e].rule)
<1>0. event[e] \in EventType /\ event[e].pc = "outbox" /\ event[e].rule \in Rules /\ event[e].try > 0
  BY DEF Inv, TypeOK, EventType, PutOutbox, EventInv, Running
<1>1. d \in Detections /\ d \notin Windows /\ d \notin Managed  BY <1>0, DetectedType DEF Inv
<1>2. outbox' = outbox \cup {d} \/ outbox' = outbox  BY DEF PutOutbox
<1>3. UNCHANGED <<now, message, born, stored, record, alerts>>  BY DEF PutOutbox
<1>4. faults' \in 0..MaxFaults  BY DEF PutOutbox, Inv, TypeOK, Fault
<1> DEFINE v == [event[e] EXCEPT !.pc = "next"]
<1>6. v \in EventType /\ v.try = event[e].try /\ v.todo = event[e].todo /\ v.pc = "next"
  BY <1>0 DEF EventType
<1>7. event' = [event EXCEPT ![e] = v]  BY DEF PutOutbox
<1> HIDE DEF v
<1>8. event'[e] = v /\ \A f \in Events : f # e => event'[f] = event[f]  BY <1>7 DEF Inv, TypeOK
<1>9. \A f \in Events : event'[f].try = event[f].try  BY <1>6, <1>8
<1>10. TypeOK'
  <2>1. event' \in [Events -> EventType]  BY <1>6, <1>7 DEF Inv, TypeOK, EventType
  <2>2. d \in Keys  BY <1>1 DEF Keys, Signals
  <2> QED  BY <1>2, <1>3, <1>4, <2>1, <2>2 DEF Inv, TypeOK, EventType
<1>11. EventInv'
  <2>1. ASSUME NEW f \in Events
        PROVE  /\ event'[f].pc \in {"alert", "outbox"} => event'[f].rule \in Rules
               /\ event'[f].pc = "done" => event'[f].todo = {}
               /\ event'[f].pc \in Running =>
                    /\ event'[f].try > 0
                    /\ \A r \in event'[f].todo : message[Detected(f, r)'].state = "none"
                    /\ \A r \in Matching[f] \ event'[f].todo : message[Detected(f, r)'].state # "none"
    <3>1. \A r : Detected(f, r)' = Detected(f, r)  BY <1>9 DEF Detected
    <3>2. CASE f = e
      BY <1>0, <1>6, <1>8, <3>1, <3>2 DEF Inv, EventInv, Running
    <3>3. CASE f # e  BY <1>8, <3>1, <3>3 DEF Inv, EventInv
    <3> QED  BY <3>2, <3>3
  <2> QED  BY <1>3, <2>1 DEF EventInv
<1>12. MessageInv'
  <2>1. \A s \in Detections : event'[s.event].try = event[s.event].try  BY <1>9 DEF Detections
  <2> QED  BY <1>2, <1>3, <2>1 DEF Inv, MessageInv
<1>13. RecordInv'  BY <1>3 DEF Inv, RecordInv, WindowOf
<1>14. AlertInv'
  <2>1. \A k \in Windows \cup Managed : k \in outbox' <=> k \in outbox  BY <1>1, <1>2
  <2>2. \A k : Announced(k)' <=> Announced(k)  BY <1>3 DEF Announced
  <2> QED  BY <1>3, <2>1, <2>2 DEF Inv, AlertInv, WindowOf
<1> QED  BY <1>10, <1>11, <1>12, <1>13, <1>14 DEF Inv

-----------------------------------------------------------------------------
(* The signal writer's steps                                               *)

(* A message that moves on leaves its event's processor where it was.      *)
LEMMA MessageMoves ==
  ASSUME Inv, NEW s \in Signals, NEW m \in MessageType, message' = [message EXCEPT ![s] = m],
         message[s].state # "none", m.state # "none",
         m.state = "visible" => m.receives < MaxReceives,
         m.state \in {"transact", "deleted"} => s \in stored',
         m.state = "transact" => s \in Managed,
         m.state = "deleted" /\ s \in Managed => s \in outbox',
         stored \subseteq stored', stored' \subseteq stored \cup {s}, outbox \subseteq outbox',
         UNCHANGED <<event, born>>
  PROVE  message' \in [Signals -> MessageType] /\ EventInv' /\ MessageInv'
<1> USE DEF Inv
<1>1. message'[s] = m /\ \A t \in Signals : t # s => message'[t] = message[t]  BY DEF TypeOK
<1>2. \A t \in Signals : message'[t].state = "none" <=> message[t].state = "none"  BY <1>1
<1>3. message' \in [Signals -> MessageType]  BY DEF TypeOK, MessageType
<1>4. EventInv'
  <2>1. ASSUME NEW e \in Events, event[e].pc \in Running, NEW r \in Rules
        PROVE  message'[Detected(e, r)].state = "none" <=> message[Detected(e, r)].state = "none"
    <3>1. Detected(e, r) \in Signals  BY <2>1, DetectedType DEF EventInv, Signals
    <3> QED  BY <1>2, <3>1
  <2>2. ASSUME NEW e \in Events, event[e].pc \in Running
        PROVE  /\ \A r \in event[e].todo : message'[Detected(e, r)].state = "none"
               /\ \A r \in Matching[e] \ event[e].todo : message'[Detected(e, r)].state # "none"
    <3>1. event[e].todo \subseteq Rules /\ Matching[e] \subseteq Rules  BY DEF TypeOK
    <3> QED  BY <2>1, <2>2, <3>1 DEF EventInv
  <2> QED  BY <2>2 DEF EventInv, Detected
<1>5. MessageInv'
  <2>1. ASSUME NEW t \in Signals
        PROVE  /\ message'[t].state = "none" => message'[t].receives = 0 /\ t \notin stored'
               /\ message'[t].state = "visible" => message'[t].receives < MaxReceives
               /\ message'[t].state \in {"transact", "deleted"} => t \in stored'
               /\ message'[t].state = "transact" => t \in Managed
               /\ message'[t].state = "deleted" /\ t \in Managed => t \in outbox'
               /\ t \in Detections /\ message'[t].state # "none" => t.try <= event'[t.event].try
    <3>1. CASE t = s  BY <1>1, <3>1 DEF MessageInv
    <3>2. CASE t # s  BY <1>1, <3>2 DEF MessageInv
    <3> QED  BY <3>1, <3>2
  <2> QED  BY <2>1 DEF MessageInv
<1> QED  BY <1>3, <1>4, <1>5

(* A message is received at most MaxReceives times.                        *)
LEMMA ReceiveStep ==
  ASSUME Inv, NEW s \in Signals, Receive(s)
  PROVE  Inv'
<1> DEFINE m == [state |-> "put", receives |-> message[s].receives + 1]
<1>1. message[s] \in MessageType /\ message[s].receives < MaxReceives /\ message[s].state = "visible"
  BY DEF Inv, TypeOK, MessageType, MessageInv, Receive
<1>2. m \in MessageType  BY <1>1 DEF MessageType
<1>3. message' = [message EXCEPT ![s] = m]  BY DEF Receive
<1>4. UNCHANGED <<now, faults, event, born, stored, record, alerts, outbox>>  BY DEF Receive
<1>5. m.state = "put"  OBVIOUS
<1> HIDE DEF m
<1>6. message' \in [Signals -> MessageType] /\ EventInv' /\ MessageInv'
  BY <1>1, <1>2, <1>3, <1>4, <1>5, MessageMoves
<1>7. TypeOK'  BY <1>4, <1>6 DEF Inv, TypeOK, MessageType
<1>8. RecordInv'  BY <1>4 DEF Inv, RecordInv, WindowOf
<1>9. AlertInv'  BY <1>4, AlertsKept DEF Inv
<1> QED  BY <1>6, <1>7, <1>8, <1>9 DEF Inv

(* Where a message goes that is handled, or comes back.                    *)
LEMMA ReturnEffect ==
  ASSUME Inv, NEW s \in Signals, Return(s)
  PROVE  \E m \in MessageType :
           /\ message' = [message EXCEPT ![s] = m]
           /\ m.state \in {"visible", "dead"}
           /\ m.state = "visible" => m.receives < MaxReceives
<1> DEFINE m == [message[s] EXCEPT !.state = IF message[s].receives < MaxReceives THEN "visible" ELSE "dead"]
<1>1. message[s] \in MessageType  BY DEF Inv, TypeOK, MessageType
<1>2. CASE message[s].receives < MaxReceives
  <2>1. m \in MessageType /\ m.state = "visible" /\ m.receives = message[s].receives
    BY <1>1, <1>2 DEF MessageType
  <2> QED  BY <1>2, <2>1 DEF Return
<1>3. CASE ~(message[s].receives < MaxReceives)
  <2>1. m \in MessageType /\ m.state = "dead"  BY <1>1, <1>3 DEF MessageType
  <2> QED  BY <1>3, <2>1 DEF Return
<1> QED  BY <1>2, <1>3

(* A detection's first insert makes the record of its stream.              *)
LEMMA StoreEffect ==
  ASSUME Inv, NEW s \in Signals, Store(s), UNCHANGED born
  PROVE  /\ stored' = stored \cup {s}
         /\ record' \in [Detections -> RecordType]
         /\ RecordInv'
<1> USE DEF Inv
<1>1. stored' = stored \cup {s}  BY DEF Store
<1>2. CASE s \in Detections \ stored
  <2>1. record' = [record EXCEPT ![s].pc = "waiting"]  BY <1>2 DEF Store
  <2>2. record[s].pc = "none" /\ record[s].tries = 0 /\ record[s] \in RecordType
    BY <1>2 DEF RecordInv, TypeOK, RecordType
  <2>3. record[s] \in [pc : {"none", "waiting"}, tries : 0..MaxBatches]
    BY <2>2 DEF RecordType, Handling
  <2> DEFINE r == [record[s] EXCEPT !.pc = "waiting"]
  <2>4. r \in RecordType /\ r.pc = "waiting" /\ r.tries = 0
    BY <2>2, <2>3 DEF RecordType
  <2>5. record' = [record EXCEPT ![s] = r]  BY <2>1
  <2> HIDE DEF r
  <2>6. record'[s] = r /\ \A t \in Detections : t # s => record'[t] = record[t]
    BY <1>2, <2>5 DEF TypeOK
  <2>7. record' \in [Detections -> RecordType]  BY <2>4, <2>5 DEF TypeOK, RecordType
  <2>8. ASSUME NEW t \in Detections
        PROVE  /\ record'[t].pc = "none" => record'[t].tries = 0
               /\ record'[t].pc # "none" => t \in stored'
               /\ record'[t].pc = "waiting" => record'[t].tries < MaxBatches
               /\ record'[t].pc \in {"handling", "handled", "lost"} =>
                    \A k \in record'[t].due : k = WindowOf(k.correlation, t)
    <3>1. CASE t = s  BY <1>1, <2>4, <2>6, <3>1
    <3>2. CASE t # s  BY <1>1, <2>6, <3>2 DEF RecordInv
    <3> QED  BY <3>1, <3>2
  <2> QED  BY <1>1, <2>7, <2>8 DEF RecordInv, WindowOf
<1>3. CASE s \notin Detections \ stored
  <2>1. UNCHANGED record  BY <1>3 DEF Store
  <2> QED  BY <1>1, <2>1 DEF RecordInv, WindowOf, TypeOK, RecordType
<1> QED  BY <1>2, <1>3

(* Storing a signal, and what becomes of its message.                      *)
LEMMA PutStep ==
  ASSUME Inv, NEW s \in Signals, Put(s)
  PROVE  Inv'
<1>0. message[s] \in MessageType /\ message[s].state = "put"  BY DEF Inv, TypeOK, MessageType, Put
<1>1. UNCHANGED <<now, event, born, alerts, outbox>>  BY DEF Put
<1>2. faults' \in 0..MaxFaults  BY DEF Put, Inv, TypeOK, Fault
<1>3. /\ stored' = stored \cup {s} \/ UNCHANGED stored
      /\ record' \in [Detections -> RecordType]
      /\ RecordInv'
  <2>1. CASE Store(s)  BY <1>1, <2>1, StoreEffect
  <2>2. CASE UNCHANGED <<stored, record>>
    BY <1>1, <2>2 DEF Inv, TypeOK, RecordType, RecordInv, WindowOf
  <2> QED  BY <2>1, <2>2 DEF Put
<1>4. message' \in [Signals -> MessageType] /\ EventInv' /\ MessageInv'
  <2>1. CASE Store(s) /\ message' = [message EXCEPT ![s].state = AfterPut(s)]
    <3> DEFINE m == [message[s] EXCEPT !.state = AfterPut(s)]
    <3>1. /\ m \in MessageType /\ m.state \in {"transact", "deleted"}
          /\ m.state = "transact" <=> s \in Managed
      BY <1>0 DEF AfterPut, MessageType
    <3>2. message' = [message EXCEPT ![s] = m]  BY <2>1
    <3>3. s \in stored'  BY <2>1 DEF Store
    <3> HIDE DEF m
    <3> QED  BY <1>0, <1>1, <1>3, <3>1, <3>2, <3>3, MessageMoves
  <2>2. CASE Return(s)
    <3>1. PICK m \in MessageType :
            /\ message' = [message EXCEPT ![s] = m]
            /\ m.state \in {"visible", "dead"}
            /\ m.state = "visible" => m.receives < MaxReceives
      BY <2>2, ReturnEffect
    <3> QED  BY <1>0, <1>1, <1>3, <3>1, MessageMoves
  <2> QED  BY <2>1, <2>2 DEF Put
<1>5. TypeOK'
  <2>1. stored' \subseteq Signals  BY <1>3 DEF Inv, TypeOK
  <2> QED  BY <1>1, <1>2, <1>3, <1>4, <2>1 DEF Inv, TypeOK, MessageType, RecordType
<1>6. AlertInv'  BY <1>1, <1>3, AlertsKept DEF Inv
<1> QED  BY <1>3, <1>4, <1>5, <1>6 DEF Inv

(* The transaction for a managed detection, and what becomes of its message. *)
LEMMA TransactStep ==
  ASSUME Inv, NEW s \in Signals, Transact(s)
  PROVE  Inv'
<1>0. message[s] \in MessageType /\ message[s].state = "transact" /\ s \in Managed /\ s \in stored
  BY DEF Inv, TypeOK, MessageType, Transact, MessageInv
<1>1. UNCHANGED <<now, event, born, stored, record>>  BY DEF Transact
<1>2. faults' \in 0..MaxFaults  BY DEF Transact, Inv, TypeOK, Fault
<1>3. message[s].receives \in Nat  BY <1>0 DEF MessageType
<1>4. /\ alerts' \subseteq [key : Keys, by : Signals, try : Nat]
      /\ outbox' \subseteq Keys
      /\ outbox \subseteq outbox'
      /\ Announce(s, s, message[s].receives) => s \in outbox'
      /\ AlertInv'
  <2>1. CASE Announce(s, s, message[s].receives)
    BY <1>0, <1>1, <1>3, <2>1, AnnounceEffect DEF Inv
  <2>2. CASE UNCHANGED <<alerts, outbox>> /\ ~Announce(s, s, message[s].receives)
    BY <1>1, <2>2, AlertsKept DEF Inv, TypeOK
  <2> QED  BY <2>1, <2>2 DEF Transact
<1>5. message' \in [Signals -> MessageType] /\ EventInv' /\ MessageInv'
  <2>1. CASE Announce(s, s, message[s].receives) /\ message' = [message EXCEPT ![s].state = "deleted"]
    <3> DEFINE m == [message[s] EXCEPT !.state = "deleted"]
    <3>1. m \in MessageType /\ m.state = "deleted"  BY <1>0 DEF MessageType
    <3>2. message' = [message EXCEPT ![s] = m]  BY <2>1
    <3> HIDE DEF m
    <3> QED  BY <1>0, <1>1, <1>4, <2>1, <3>1, <3>2, MessageMoves
  <2>2. CASE Return(s)
    <3>1. PICK m \in MessageType :
            /\ message' = [message EXCEPT ![s] = m]
            /\ m.state \in {"visible", "dead"}
            /\ m.state = "visible" => m.receives < MaxReceives
      BY <2>2, ReturnEffect
    <3> QED  BY <1>0, <1>1, <1>4, <3>1, MessageMoves
  <2> QED  BY <2>1, <2>2 DEF Transact
<1>6. TypeOK'  BY <1>1, <1>2, <1>4, <1>5 DEF Inv, TypeOK, MessageType
<1>7. RecordInv'  BY <1>1 DEF Inv, RecordInv, WindowOf
<1> QED  BY <1>4, <1>5, <1>6, <1>7 DEF Inv

-----------------------------------------------------------------------------
(* The alerter's steps                                                     *)

(* A record that is being handled, and whose alerts to come are in the      *)
(* window of its own time, stays so when it is handled.                    *)
LEMMA AdvancedType ==
  ASSUME NEW r \in Handling({"handling"})
  PROVE  /\ Advanced(r) \in Handling({"handling", "handled", "lost"})
         /\ Advanced(r).due = r.due
         /\ Advanced(r).pc \in {"handling", "handled"}
BY DEF Advanced, Handling

(* Whatever the alerter does with one stored signal's record leaves the     *)
(* other records in order.                                                 *)
LEMMA RecordMoves ==
  ASSUME TypeOK, RecordInv, NEW s \in Detections, s \in stored, NEW r \in Handling({"handling"}),
         record' = [record EXCEPT ![s] = Advanced(r)],
         \A k \in r.due : k = WindowOf(k.correlation, s),
         UNCHANGED <<born, stored>>
  PROVE  record' \in [Detections -> RecordType] /\ RecordInv'
<1>1. /\ record'[s] \in Handling({"handling", "handled", "lost"})
      /\ record'[s].due = r.due
      /\ record'[s].pc \in {"handling", "handled"}
  BY AdvancedType DEF TypeOK
<1>2. \A t \in Detections : t # s => record'[t] = record[t]  BY DEF TypeOK
<1>3. record' \in [Detections -> RecordType]
  <2>1. Advanced(r) \in RecordType  BY AdvancedType DEF RecordType
  <2> QED  BY <2>1 DEF TypeOK, RecordType
<1>4. ASSUME NEW t \in Detections
      PROVE  /\ record'[t].pc = "none" => record'[t].tries = 0
             /\ record'[t].pc # "none" => t \in stored
             /\ record'[t].pc = "waiting" => record'[t].tries < MaxBatches
             /\ record'[t].pc \in {"handling", "handled", "lost"} =>
                  \A k \in record'[t].due : k = WindowOf(k.correlation, t)
  <2>1. CASE t = s  BY <1>1, <2>1
  <2>2. CASE t # s  BY <1>2, <2>2 DEF RecordInv
  <2> QED  BY <2>1, <2>2
<1>5. RecordInv'  BY <1>4 DEF RecordInv, WindowOf
<1> QED  BY <1>3, <1>5

(* Processor and signal writer do not see what the alerter does, except     *)
(* that outbox rows may be added.                                          *)
LEMMA RestKept ==
  ASSUME Inv, faults' \in 0..MaxFaults, record' \in [Detections -> RecordType], RecordInv', AlertInv',
         alerts' \subseteq [key : Keys, by : Signals, try : Nat],
         outbox' \subseteq Keys, outbox \subseteq outbox',
         UNCHANGED <<now, event, message, born, stored>>
  PROVE  Inv'
<1>1. TypeOK'  BY DEF Inv, TypeOK, RecordType
<1>2. EventInv'  BY DEF Inv, EventInv, Detected
<1>3. MessageInv'  BY DEF Inv, MessageInv
<1> QED  BY <1>1, <1>2, <1>3 DEF Inv

(* The alerter takes a record up.                                          *)
LEMMA BeginStep ==
  ASSUME Inv, NEW s \in Detections, Begin(s)
  PROVE  Inv'
<1> DEFINE r == [pc |-> "handling", tries |-> record[s].tries + 1, at |-> now,
                 todo |-> {c \in Correlations : s.rule \in Counts[c]}, due |-> {}]
<1>1. UNCHANGED <<now, faults, event, message, born, stored, alerts, outbox>>  BY DEF Begin
<1>2. record[s] \in RecordType /\ record[s].pc = "waiting" /\ s \in stored /\ record[s].tries < MaxBatches
  BY DEF Inv, TypeOK, RecordType, RecordInv, Begin
<1>3. record[s].tries \in Nat  BY <1>2 DEF RecordType, Handling
<1>4. r \in Handling({"handling"})  BY <1>2, <1>3 DEF Inv, TypeOK, Handling
<1>5. record' = [record EXCEPT ![s] = Advanced(r)]  BY DEF Begin
<1>6. \A k \in r.due : k = WindowOf(k.correlation, s)  OBVIOUS
<1> HIDE DEF r
<1>7. record' \in [Detections -> RecordType] /\ RecordInv'
  BY <1>1, <1>2, <1>4, <1>5, <1>6, RecordMoves DEF Inv
<1>8. AlertInv'  BY <1>1, AlertsKept DEF Inv
<1> QED  BY <1>1, <1>7, <1>8, RestKept DEF Inv, TypeOK

(* A correlation adds at most the window of the signal's own time.         *)
LEMMA CorrelateStep ==
  ASSUME Inv, NEW s \in Detections, Correlate(s)
  PROVE  Inv'
<1>1. UNCHANGED <<now, faults, event, message, born, stored, alerts, outbox>>  BY DEF Correlate
<1>2. record[s] \in RecordType /\ record[s].pc = "handling" /\ s \in stored
  BY DEF Inv, TypeOK, RecordType, RecordInv, Correlate
<1>3. record[s] \in Handling({"handling"})  BY <1>2 DEF RecordType, Handling
<1>4. record' \in [Detections -> RecordType] /\ RecordInv'
  <2>1. CASE BatchFails(s)  BY <1>1, <1>2, <2>1, BatchFailsEffect DEF Inv
  <2>2. CASE ~BatchFails(s)
    <3>1. PICK c \in record[s].todo : \E page \in Pages(s) :
            LET counted == {t \in page : t.rule \in Counts[c]} IN
            record' = [record EXCEPT ![s] = Advanced([record[s] EXCEPT
              !.todo = @ \ {c},
              !.due = IF Met(Cardinality(counted)) THEN @ \cup {WindowOf(c, s)} ELSE @])]
      BY <2>2 DEF Correlate
    <3>2. PICK met \in BOOLEAN :
            record' = [record EXCEPT ![s] = Advanced([record[s] EXCEPT
              !.todo = @ \ {c}, !.due = IF met THEN @ \cup {WindowOf(c, s)} ELSE @])]
      <4>1. PICK page \in Pages(s) :
              LET counted == {t \in page : t.rule \in Counts[c]} IN
              record' = [record EXCEPT ![s] = Advanced([record[s] EXCEPT
                !.todo = @ \ {c},
                !.due = IF Met(Cardinality(counted)) THEN @ \cup {WindowOf(c, s)} ELSE @])]
        BY <3>1
      <4> DEFINE counted == {t \in page : t.rule \in Counts[c]}
      <4>2. CASE Met(Cardinality(counted))
        BY <4>1, <4>2
      <4>3. CASE ~Met(Cardinality(counted))
        BY <4>1, <4>3
      <4> QED  BY <4>2, <4>3
    <3> DEFINE r == [record[s] EXCEPT
                       !.todo = @ \ {c}, !.due = IF met THEN @ \cup {WindowOf(c, s)} ELSE @]
    <3>3. c \in Correlations  BY <1>3 DEF Handling
    <3>4. WindowOf(c, s) \in Windows /\ WindowOf(c, s).correlation = c
      BY <3>3, WindowType DEF Inv, Signals, WindowOf
    <3>5. r \in Handling({"handling"})  BY <1>3, <3>4 DEF Handling
    <3>6. \A k \in r.due : k = WindowOf(k.correlation, s)
      <4>1. \A k \in record[s].due : k = WindowOf(k.correlation, s)  BY <1>2 DEF Inv, RecordInv
      <4>2. r.due \subseteq record[s].due \cup {WindowOf(c, s)}  BY <1>3 DEF Handling
      <4> QED  BY <3>4, <4>1, <4>2
    <3>7. record' = [record EXCEPT ![s] = Advanced(r)]  BY <3>2
    <3> HIDE DEF r
    <3> QED  BY <1>1, <1>2, <3>5, <3>6, <3>7, RecordMoves DEF Inv
  <2> QED  BY <2>1, <2>2
<1>5. AlertInv'  BY <1>1, AlertsKept DEF Inv
<1> QED  BY <1>1, <1>4, <1>5, RestKept DEF Inv, TypeOK

(* A window's alert is stored once, by whichever record comes first.       *)
LEMMA StoreAlertStep ==
  ASSUME Inv, NEW s \in Detections, StoreAlert(s)
  PROVE  Inv'
<1>1. UNCHANGED <<now, event, message, born, stored>>  BY DEF StoreAlert
<1>2. record[s] \in RecordType /\ record[s].pc = "handling" /\ s \in stored
  BY DEF Inv, TypeOK, RecordType, RecordInv, StoreAlert
<1>3. record[s] \in Handling({"handling"})  BY <1>2 DEF RecordType, Handling
<1>4. faults' \in 0..MaxFaults  BY DEF StoreAlert, Inv, TypeOK, Fault
<1>5. PICK k \in record[s].due :
        \/ /\ Announce(k, s, record[s].tries)
           /\ record' = [record EXCEPT ![s] = Advanced([record[s] EXCEPT !.due = @ \ {k}])]
           /\ UNCHANGED faults
        \/ (Announce(k, s, record[s].tries) \/ UNCHANGED <<alerts, outbox>>) /\ BatchFails(s) /\ Fault
  BY DEF StoreAlert
<1>6. \A j \in record[s].due : j = WindowOf(j.correlation, s)  BY <1>2 DEF Inv, RecordInv
<1>7. k \in Windows /\ record[s].tries \in Nat  BY <1>3 DEF Handling
<1>8. /\ alerts' \subseteq [key : Keys, by : Signals, try : Nat]
      /\ outbox' \subseteq Keys
      /\ outbox \subseteq outbox'
      /\ AlertInv'
  <2>1. CASE Announce(k, s, record[s].tries)
    BY <1>1, <1>2, <1>5, <1>6, <1>7, <2>1, AnnounceEffect DEF Inv
  <2>2. CASE UNCHANGED <<alerts, outbox>>
    BY <1>1, <2>2, AlertsKept DEF Inv, TypeOK
  <2> QED  BY <1>5, <2>1, <2>2
<1>9. record' \in [Detections -> RecordType] /\ RecordInv'
  <2>1. CASE BatchFails(s)  BY <1>1, <1>2, <2>1, BatchFailsEffect DEF Inv
  <2>2. CASE record' = [record EXCEPT ![s] = Advanced([record[s] EXCEPT !.due = @ \ {k}])]
    <3> DEFINE r == [record[s] EXCEPT !.due = @ \ {k}]
    <3>1. r \in Handling({"handling"}) /\ r.due = record[s].due \ {k}  BY <1>3 DEF Handling
    <3>2. record' = [record EXCEPT ![s] = Advanced(r)]  BY <2>2
    <3> HIDE DEF r
    <3> QED  BY <1>1, <1>2, <1>6, <3>1, <3>2, RecordMoves DEF Inv
  <2> QED  BY <1>5, <2>1, <2>2
<1> QED  BY <1>1, <1>4, <1>8, <1>9, RestKept

(* A batch that fails repeats records; it forgets no alert.                *)
LEMMA CrashAlerterStep ==
  ASSUME Inv, NEW s \in Detections, CrashAlerter(s)
  PROVE  Inv'
<1>1. UNCHANGED <<now, event, message, born, stored, alerts, outbox>>  BY DEF CrashAlerter
<1>2. record' \in [Detections -> RecordType] /\ RecordInv'
  BY <1>1, BatchFailsEffect DEF Inv, CrashAlerter
<1>3. AlertInv'  BY <1>1, AlertsKept DEF Inv
<1>4. faults' \in 0..MaxFaults  BY DEF CrashAlerter, Inv, TypeOK, Fault
<1> QED  BY <1>1, <1>2, <1>3, <1>4, RestKept DEF Inv, TypeOK

-----------------------------------------------------------------------------
(* The invariant, and what follows                                         *)

(* Nothing is detected, stored or announced at first.                      *)
LEMMA InitEstablishes == Init => Inv
<1> SUFFICES ASSUME Init PROVE Inv
  OBVIOUS
<1> USE DEF Init
<1>1. PICK arrived \in Arrivals :
        /\ event = [e \in Events |->
             [pc |-> IF e \in arrived THEN "waiting" ELSE "absent", try |-> 0, todo |-> {}, rule |-> "none"]]
        /\ message = [s \in Signals |->
             [state |-> IF s \in Managed \cap arrived THEN "visible" ELSE "none", receives |-> 0]]
  OBVIOUS
<1>2. \A e \in Events : event[e] \in EventType /\ event[e].pc \in {"waiting", "absent"}
  BY <1>1 DEF EventType
<1>3. \A s \in Signals :
        /\ message[s] \in MessageType
        /\ message[s].state \in {"none", "visible"}
        /\ message[s].receives = 0
        /\ message[s].state = "visible" => s \in Managed
  BY <1>1 DEF MessageType
<1>4. TypeOK
  <2>1. event \in [Events -> EventType]  BY <1>1, <1>2
  <2>2. message \in [Signals -> MessageType]  BY <1>1, <1>3
  <2>3. record \in [Detections -> RecordType]  BY DEF NoRecord, RecordType
  <2>4. born \in [Signals -> 0..MaxTime] /\ now \in 0..MaxTime /\ faults \in 0..MaxFaults  OBVIOUS
  <2> QED  BY <2>1, <2>2, <2>3, <2>4 DEF TypeOK, EventType, MessageType, RecordType
<1>5. EventInv  BY <1>2 DEF EventInv, Running
<1>6. MessageInv  BY <1>3 DEF MessageInv
<1>7. RecordInv  BY DEF RecordInv, NoRecord
<1>8. AlertInv  BY DEF AlertInv, Announced
<1> QED  BY <1>4, <1>5, <1>6, <1>7, <1>8 DEF Inv

(* Every step, and none, keeps the invariant.                              *)
LEMMA NextPreserves == Inv /\ [Next]_vars => Inv'
<1> SUFFICES ASSUME Inv, [Next]_vars PROVE Inv'
  OBVIOUS
<1>1. ASSUME NEW e \in Events, Detect(e) PROVE Inv'  BY <1>1, DetectStep
<1>2. ASSUME NEW e \in Events, Enqueue(e) PROVE Inv'  BY <1>2, EnqueueStep
<1>3. ASSUME NEW e \in Events, PutAlert(e) PROVE Inv'  BY <1>3, PutAlertStep
<1>4. ASSUME NEW e \in Events, PutOutbox(e) PROVE Inv'  BY <1>4, PutOutboxStep
<1>5. ASSUME NEW e \in Events, Processed(e) PROVE Inv'  BY <1>5, ProcessedStep
<1>6. ASSUME NEW e \in Events, CrashProcessor(e) PROVE Inv'  BY <1>6, CrashProcessorStep
<1>7. ASSUME NEW s \in Signals, Receive(s) PROVE Inv'  BY <1>7, ReceiveStep
<1>8. ASSUME NEW s \in Signals, Put(s) PROVE Inv'  BY <1>8, PutStep
<1>9. ASSUME NEW s \in Signals, Transact(s) PROVE Inv'  BY <1>9, TransactStep
<1>10. ASSUME NEW s \in Detections, Begin(s) PROVE Inv'  BY <1>10, BeginStep
<1>11. ASSUME NEW s \in Detections, Correlate(s) PROVE Inv'  BY <1>11, CorrelateStep
<1>12. ASSUME NEW s \in Detections, StoreAlert(s) PROVE Inv'  BY <1>12, StoreAlertStep
<1>13. ASSUME NEW s \in Detections, CrashAlerter(s) PROVE Inv'  BY <1>13, CrashAlerterStep
<1>14. ASSUME UNCHANGED <<faults, event, message, born, stored, record, alerts, outbox>>, now' \in 0..MaxTime
       PROVE  Inv'
  <2>1. TypeOK'  BY <1>14 DEF Inv, TypeOK
  <2>2. EventInv' /\ MessageInv'  BY <1>14 DEF Inv, EventInv, MessageInv, Detected
  <2>3. RecordInv'  BY <1>14 DEF Inv, RecordInv, WindowOf
  <2>4. AlertInv'  BY <1>14, AlertsKept DEF Inv
  <2> QED  BY <2>1, <2>2, <2>3, <2>4 DEF Inv
<1>15. ASSUME Tick PROVE Inv'
  <2>1. now' \in 0..MaxTime  BY <1>15 DEF Inv, TypeOK, Tick
  <2> QED  BY <1>14, <1>15, <2>1 DEF Tick
<1>16. ASSUME UNCHANGED vars PROVE Inv'  BY <1>14, <1>16 DEF vars, Inv, TypeOK
<1> QED
  BY <1>1, <1>2, <1>3, <1>4, <1>5, <1>6, <1>7, <1>8, <1>9, <1>10, <1>11, <1>12, <1>13, <1>15, <1>16 DEF Next

(* The invariant holds of every behaviour.                                 *)
LEMMA Invariance == Spec => []Inv
BY InitEstablishes, NextPreserves, PTL DEF Spec

(* The types of the path from events to alerts, however often events,      *)
(* messages and batches are tried: no count of attempts passes its limit.  *)
THEOREM TypeCorrect == Spec => []TypeOK
<1>1. Inv => TypeOK  BY DEF Inv
<1> QED  BY <1>1, Invariance, PTL

(* lambda_handler of the processor does not end well while a detection of   *)
(* its event is missing from the signals queue.                            *)
THEOREM NothingDropped == Spec => []DoneMeansEnqueued
<1>1. ASSUME Inv PROVE DoneMeansEnqueued
  BY <1>1 DEF Inv, EventInv, Running, DoneMeansEnqueued
<1> QED  BY <1>1, Invariance, PTL

(* The signal writer lets a message be deleted only when its signal is     *)
(* stored, and a managed detection's also only when it is announced.       *)
THEOREM StoredBeforeDeleted == Spec => []DeletedMeansStored
<1>1. ASSUME Inv PROVE DeletedMeansStored
  BY <1>1 DEF Inv, MessageInv, DeletedMeansStored
<1> QED  BY <1>1, Invariance, PTL

(* put_alert_with_outbox announces a correlation's window, or a managed     *)
(* detection, by one alert beside one outbox row, whoever repeats it.      *)
THEOREM AnnouncedByOne == Spec => []AnnouncedOnce
<1>1. ASSUME Inv PROVE AnnouncedOnce
  <2> SUFFICES ASSUME NEW k \in Windows \cup Managed
               PROVE  Cardinality({a \in alerts : a.key = k}) = IF k \in outbox THEN 1 ELSE 0
    BY DEF AnnouncedOnce
  <2>1. CASE k \in outbox
    <3>1. PICK a \in alerts : a.key = k  BY <1>1, <2>1 DEF Inv, AlertInv, Announced
    <3>2. {b \in alerts : b.key = k} = {a}  BY <1>1, <3>1 DEF Inv, AlertInv
    <3> QED  BY <2>1, <3>2, FS_Singleton
  <2>2. CASE k \notin outbox
    <3>1. {b \in alerts : b.key = k} = {}  BY <1>1, <2>2 DEF Inv, AlertInv, Announced
    <3> QED  BY <2>2, <3>1, FS_EmptySet
  <2> QED  BY <2>1, <2>2
<1> QED  BY <1>1, Invariance, PTL

(* The alerter files an alert under the window of the trigger's own time,   *)
(* so that repeating its record in another window makes no second one.     *)
THEOREM TriggersOnce == Spec => []OneAlertPerTrigger
<1>1. ASSUME Inv PROVE OneAlertPerTrigger
  <2> SUFFICES ASSUME NEW a \in alerts, NEW b \in alerts, a.by = b.by, a.key \in Windows, b.key \in Windows,
                      a.key.correlation = b.key.correlation
               PROVE  a = b
    BY DEF OneAlertPerTrigger
  <2>1. a.key = WindowOf(a.key.correlation, a.by) /\ b.key = WindowOf(b.key.correlation, b.by)
    BY <1>1 DEF Inv, AlertInv
  <2>2. a.key = b.key  BY <2>1
  <2> QED  BY <1>1, <2>2 DEF Inv, AlertInv
<1> QED  BY <1>1, Invariance, PTL

-----------------------------------------------------------------------------
(* Thresholds                                                              *)

(* No query finds more recent signals than it returns.                     *)
Roomy == \A s \in Detections : record[s].pc = "handling" => Cardinality(Recent(s)) <= Room(s)

(* Whether correlation c has looked at the signal whose record is r.        *)
Answered(r, c) == r.pc = "handled" \/ (r.pc = "handling" /\ c \notin r.todo)

(* Threshold signals that c counts, each recent when any was handled.       *)
Together(c, S) ==
  /\ \A s \in S : s.rule \in Counts[c] /\ Answered(record[s], c)
  /\ \A s, t \in S : born[t] >= SinceOf(s)
  /\ Cardinality(S) >= Threshold

(* The one of them that was handled last has seen them all.                *)
WitnessInv ==
  \A c \in Correlations, S \in SUBSET Detections :
    Together(c, S) => \E s \in S : WindowOf(c, s) \in outbox \cup record[s].due

(* A record is handled when nothing is left of it, and given up only after  *)
(* a fault.                                                                *)
SettledInv ==
  \A s \in Detections :
    /\ record[s].pc = "handled" => record[s].todo = {} /\ record[s].due = {}
    /\ record[s].pc = "lost" => faults < MaxFaults

ThresholdInv == SettledInv /\ WitnessInv /\ IsFiniteSet(stored)

(* Signals together before stay together, and were together before, as long *)
(* as their own records do not change.                                     *)
LEMMA TogetherKept ==
  ASSUME Inv, NEW c \in Correlations, NEW S \in SUBSET Detections, Together(c, S)',
         \A t \in S : record'[t] = record[t],
         \A t \in stored : born'[t] = born[t]
  PROVE  /\ Together(c, S)
         /\ \A t \in S : WindowOf(c, t)' = WindowOf(c, t)
<1>1. \A t \in S : t.rule \in Counts[c] /\ Answered(record[t], c)
  BY DEF Together, Answered
<1>2. \A t \in S : t \in stored
  <2>1. \A t \in S : record[t].pc # "none"  BY <1>1 DEF Answered
  <2> QED  BY <2>1 DEF Inv, RecordInv
<1>3. \A t \in S : born'[t] = born[t]  BY <1>2
<1>4. \A t, u \in S : born[u] >= SinceOf(t)
  BY <1>3 DEF Together, SinceOf
<1>5. Cardinality(S) >= Threshold  BY DEF Together
<1>6. \A t \in S : WindowOf(c, t)' = WindowOf(c, t)  BY <1>3 DEF WindowOf
<1> QED  BY <1>1, <1>4, <1>5, <1>6 DEF Together

(* Records that are put back, given up or of no concern to the correlations *)
(* that count their signals undo no witness.                               *)
LEMMA WitnessKept ==
  ASSUME Inv, WitnessInv, NEW Z \in SUBSET Detections,
         \A t \in Detections \ Z : record'[t] = record[t],
         \A t \in Z, c \in Correlations : t.rule \in Counts[c] => ~Answered(record'[t], c),
         \A t \in stored : born'[t] = born[t],
         outbox \subseteq outbox'
  PROVE  WitnessInv'
<1> SUFFICES ASSUME NEW c \in Correlations, NEW S \in SUBSET Detections, Together(c, S)'
             PROVE  \E s \in S : WindowOf(c, s)' \in outbox' \cup record'[s].due
  BY DEF WitnessInv
<1>1. \A t \in S : t \notin Z  BY DEF Together
<1>2. \A t \in S : record'[t] = record[t]  BY <1>1
<1>3. Together(c, S) /\ \A t \in S : WindowOf(c, t)' = WindowOf(c, t)  BY <1>2, TogetherKept
<1>4. PICK s \in S : WindowOf(c, s) \in outbox \cup record[s].due  BY <1>3 DEF WitnessInv
<1> QED  BY <1>2, <1>3, <1>4

(* The record of s goes on: what was due stays due or is announced, and a   *)
(* correlation that is done with it finds what was together with s.         *)
LEMMA WitnessMoves ==
  ASSUME Inv, WitnessInv, NEW s \in Detections, NEW y \in Handling({"handling"}),
         record[s] \in Handling({"handling"}),
         record' = [record EXCEPT ![s] = Advanced(y)],
         y.at = record[s].at,
         record[s].due \subseteq y.due \cup outbox',
         \A c \in record[s].todo \ y.todo, S \in SUBSET (stored \cap Detections) :
           /\ \A t \in S : t.rule \in Counts[c] /\ born[t] >= SinceOf(s)
           /\ Cardinality(S) >= Threshold
           => WindowOf(c, s) \in y.due,
         outbox \subseteq outbox', UNCHANGED <<born, stored>>
  PROVE  WitnessInv'
<1>0. /\ record'[s].at = record[s].at
      /\ record'[s].due = y.due
      /\ record'[s].pc \in {"handling", "handled"}
      /\ record'[s].todo = y.todo
      /\ record'[s].pc = "handled" => y.todo = {}
  <2>1. record'[s] = Advanced(y)  BY DEF Inv, TypeOK
  <2>2. Advanced(y).at = y.at /\ Advanced(y).todo = y.todo
    BY DEF Advanced, Handling
  <2>3. Advanced(y).pc = "handled" => y.todo = {}
    BY DEF Advanced, Handling
  <2> QED  BY <2>1, <2>2, <2>3, AdvancedType
<1>1. \A t \in Detections : t # s => record'[t] = record[t]  BY DEF Inv, TypeOK
<1> SUFFICES ASSUME NEW c \in Correlations, NEW S \in SUBSET Detections, Together(c, S)'
             PROVE  \E t \in S : WindowOf(c, t)' \in outbox' \cup record'[t].due
  BY DEF WitnessInv
<1>2. \A t \in Detections : WindowOf(c, t)' = WindowOf(c, t)  BY DEF WindowOf
<1>3. CASE s \notin S
  <2>1. \A t \in S : record'[t] = record[t]  BY <1>1, <1>3
  <2>2. Together(c, S)  BY <2>1, TogetherKept
  <2>3. PICK t \in S : WindowOf(c, t) \in outbox \cup record[t].due  BY <2>2 DEF WitnessInv
  <2> QED  BY <1>2, <2>1, <2>3
<1>4. CASE s \in S
  <2>1. c \notin y.todo
    <3>1. Answered(record'[s], c)  BY <1>4 DEF Together
    <3> QED  BY <1>0, <3>1 DEF Answered
  <2>2. \A t \in S : t.rule \in Counts[c]  BY DEF Together
  <2>3. \A t, u \in S : born[u] >= SinceOf(t)
    <3>1. \A t \in S : record'[t].at = record[t].at  BY <1>0, <1>1
    <3> QED  BY <3>1 DEF Together, SinceOf
  <2>4. Cardinality(S) >= Threshold  BY DEF Together
  <2>5. CASE c \in record[s].todo
    <3>1. S \subseteq stored
      <4>1. record[s].pc = "handling"  BY DEF Handling
      <4>2. \A t \in S : t # s => Answered(record[t], c)  BY <1>1 DEF Together
      <4>3. \A t \in S : record[t].pc # "none"  BY <4>1, <4>2 DEF Answered
      <4> QED  BY <4>3 DEF Inv, RecordInv
    <3>2. WindowOf(c, s) \in y.due  BY <1>4, <2>1, <2>2, <2>3, <2>4, <2>5, <3>1
    <3> QED  BY <1>0, <1>2, <1>4, <3>2
  <2>6. CASE c \notin record[s].todo
    <3>1. Answered(record[s], c)  BY <2>6 DEF Answered, Handling
    <3>2. \A t \in S : Answered(record[t], c)
      <4>1. \A t \in S : t # s => Answered(record[t], c)  BY <1>1 DEF Together
      <4> QED  BY <3>1, <4>1
    <3>3. Together(c, S)  BY <2>2, <2>3, <2>4, <3>2 DEF Together
    <3>4. PICK t \in S : WindowOf(c, t) \in outbox \cup record[t].due  BY <3>3 DEF WitnessInv
    <3>5. WindowOf(c, t) \in outbox' \cup record'[t].due
      <4>1. CASE t = s  BY <1>0, <3>4, <4>1
      <4>2. CASE t # s  BY <1>1, <3>4, <4>2
      <4> QED  BY <4>1, <4>2
    <3> QED  BY <1>2, <3>5
  <2> QED  BY <2>5, <2>6
<1> QED  BY <1>3, <1>4

(* A query whose index does not lag and that has room returns every recent  *)
(* signal.                                                                 *)
LEMMA PageIsWhole ==
  ASSUME Inv, IsFiniteSet(stored), Roomy, LaggingIndex = FALSE, NEW s \in Detections,
         record[s].pc = "handling", NEW page \in Pages(s)
  PROVE  page = Recent(s)
<1>1. /\ page \subseteq Recent(s)
      /\ Cardinality(page) <= Room(s)
      /\ Cardinality(page) < Room(s) => page = Recent(s)
  BY DEF Pages, Indexed
<1>2. IsFiniteSet(stored \cap Detections)
  <2>1. stored \cap Detections \subseteq stored  OBVIOUS
  <2> QED  BY <2>1, FS_Subset
<1>3. Recent(s) \subseteq stored \cap Detections  BY DEF Recent
<1>4. IsFiniteSet(Recent(s))
  BY <1>2, <1>3, FS_Subset
<1>5. /\ IsFiniteSet(page)
      /\ Cardinality(page) <= Cardinality(Recent(s))
      /\ Cardinality(page) = Cardinality(Recent(s)) => page = Recent(s)
  BY <1>1, <1>4, FS_Subset
<1>6. Room(s) \in Int
  BY DEF Room
<1>7. Cardinality(page) \in Nat /\ Cardinality(Recent(s)) \in Nat
  BY <1>4, <1>5, FS_CardinalityType
<1> QED  BY <1>1, <1>4, <1>5, <1>6, <1>7 DEF Roomy

(* Records that stay, wait, or are given up after a fault.                 *)
LEMMA SettledKept ==
  ASSUME Inv, SettledInv, NEW Z \in SUBSET Detections,
         \A t \in Detections \ Z : record'[t] = record[t],
         \A t \in Z :
           /\ record'[t].pc = "handled" => record'[t].todo = {} /\ record'[t].due = {}
           /\ record'[t].pc = "lost" => faults' < MaxFaults,
         UNCHANGED faults \/ Fault
  PROVE  SettledInv'
<1>1. faults \in Int /\ faults' \in Int /\ faults' <= faults /\ MaxFaults \in Int
  BY DEF Inv, TypeOK, Fault
<1>2. \A t \in Detections \ Z :
        /\ record'[t].pc = "handled" => record'[t].todo = {} /\ record'[t].due = {}
        /\ record'[t].pc = "lost" => faults' < MaxFaults
  BY <1>1 DEF SettledInv
<1> QED  BY <1>2 DEF SettledInv

(* A failed batch answers nothing.                                         *)
LEMMA ThresholdAfterFailure ==
  ASSUME Inv, ThresholdInv, NEW s \in Detections, record[s].pc \in {"handling", "handled"}, BatchFails(s), Fault,
         outbox \subseteq outbox', UNCHANGED <<born, stored>>
  PROVE  ThresholdInv'
<1>1. PICK redo \in SUBSET {t \in Shard(s) : record[t].pc = "handled"} :
        record' = [t \in Detections |->
          IF t \notin redo \cup {s} THEN record[t]
          ELSE IF record[t].tries < MaxBatches THEN [pc |-> "waiting", tries |-> record[t].tries]
          ELSE [record[t] EXCEPT !.pc = "lost"]]
  BY DEF BatchFails
<1> DEFINE Z == redo \cup {s}
<1>2. Z \subseteq Detections  BY DEF Shard
<1>3. \A t \in Detections \ Z : record'[t] = record[t]  BY <1>1
<1>4. ASSUME NEW t \in Z PROVE record'[t].pc \in {"waiting", "lost"}
  <2>1. t \in Detections /\ record[t].pc \in {"handling", "handled"}  BY <1>2
  <2>2. record[t] \in Handling({"handling", "handled", "lost"})  BY <2>1 DEF Inv, TypeOK, Handling
  <2>3. CASE record[t].tries < MaxBatches  BY <1>1, <2>1, <2>3
  <2>4. CASE ~(record[t].tries < MaxBatches)
    <3>1. record'[t] = [record[t] EXCEPT !.pc = "lost"]  BY <1>1, <2>1, <2>4
    <3>2. record'[t].pc = "lost"  BY <2>2, <3>1 DEF Handling
    <3> QED  BY <3>2
  <2> QED  BY <2>3, <2>4
<1>5. faults' < MaxFaults  BY DEF Inv, TypeOK, Fault
<1> HIDE DEF Z
<1>6. WitnessInv'
  <2>1. \A t \in Z, c \in Correlations : ~Answered(record'[t], c)  BY <1>4 DEF Answered
  <2> QED  BY <1>2, <1>3, <2>1, WitnessKept DEF ThresholdInv
<1>7. SettledInv'
  <2>1. \A t \in Z : record'[t].pc # "handled"  BY <1>4
  <2> QED  BY <1>2, <1>3, <1>5, <2>1, SettledKept DEF ThresholdInv
<1> QED  BY <1>6, <1>7 DEF ThresholdInv

(* The record of s goes on or is done with.                                *)
LEMMA ThresholdAdvanced ==
  ASSUME Inv, ThresholdInv, NEW s \in Detections, NEW y \in Handling({"handling"}),
         record' = [record EXCEPT ![s] = Advanced(y)], WitnessInv', UNCHANGED <<faults, stored>>
  PROVE  ThresholdInv'
<1>1. record'[s] = Advanced(y) /\ \A t \in Detections \ {s} : record'[t] = record[t]
  BY DEF Inv, TypeOK
<1>2. /\ Advanced(y).pc = "handled" => Advanced(y).todo = {} /\ Advanced(y).due = {}
      /\ Advanced(y).pc # "lost"
  BY DEF Advanced, Handling
<1> DEFINE Z == {s}
<1>3. Z \in SUBSET Detections /\ \A t \in Detections \ Z : record'[t] = record[t]  BY <1>1
<1>4. \A t \in Z :
        /\ record'[t].pc = "handled" => record'[t].todo = {} /\ record'[t].due = {}
        /\ record'[t].pc = "lost" => faults' < MaxFaults
  BY <1>1, <1>2
<1> HIDE DEF Z
<1>5. SettledInv'  BY <1>3, <1>4, SettledKept DEF ThresholdInv
<1> QED  BY <1>5 DEF ThresholdInv

(* Steps that change no record, and no time of a stored signal.            *)
LEMMA ThresholdUntouched ==
  ASSUME Inv, ThresholdInv, UNCHANGED <<record, stored>>, \A t \in stored : born'[t] = born[t],
         outbox \subseteq outbox', UNCHANGED faults \/ Fault
  PROVE  ThresholdInv'
<1>1. WitnessInv'
  <2>1. \A t \in Detections \ {} : record'[t] = record[t]  OBVIOUS
  <2> QED  BY <2>1, WitnessKept DEF ThresholdInv
<1>2. SettledInv'
  <2>1. \A t \in Detections \ {} : record'[t] = record[t]  OBVIOUS
  <2> QED  BY <2>1, SettledKept DEF ThresholdInv
<1> QED  BY <1>1, <1>2 DEF ThresholdInv

(* A new attempt at an event gives no stored signal another time.          *)
LEMMA BornKept ==
  ASSUME Inv, NEW e \in Events, Detect(e)
  PROVE  \A s \in stored : born'[s] = born[s]
<1>0. event[e] \in EventType  BY DEF Inv, TypeOK, EventType
<1> DEFINE n == event[e].try + 1
<1>1. n \in 1..MaxTries /\ event[e].try \in Nat  BY <1>0 DEF Detect, EventType
<1>2. event'[e].try = n  BY <1>0 DEF Inv, TypeOK, Detect
<1>3. \A s \in Detections : s.event = e /\ s.try = n => s \notin stored
  BY <1>0, <1>1 DEF Inv, MessageInv, Signals, EventType, Detections
<1>4. stored \subseteq Signals  BY DEF Inv, TypeOK
<1> QED  BY <1>2, <1>3, <1>4 DEF Detect

(* The record of a signal that is stored waits.                            *)
LEMMA ThresholdAfterPut ==
  ASSUME Inv, ThresholdInv, NEW s \in Signals, Put(s)
  PROVE  ThresholdInv'
<1>1. UNCHANGED <<born, outbox>> /\ (UNCHANGED faults \/ Fault)  BY DEF Put
<1>2. CASE UNCHANGED <<stored, record>>
  BY <1>1, <1>2, ThresholdUntouched
<1>3. CASE Store(s)
  <2>1. IsFiniteSet(stored')
    <3>1. stored' = stored \cup {s}  BY <1>3 DEF Store
    <3> QED  BY <3>1, FS_AddElement DEF ThresholdInv
  <2>2. CASE s \in Detections \ stored
    <3>1. record' = [record EXCEPT ![s].pc = "waiting"]  BY <1>3, <2>2 DEF Store
    <3>2. \A t \in Detections \ {s} : record'[t] = record[t]  BY <3>1 DEF Inv, TypeOK
    <3>3. record'[s].pc = "waiting"
      <4>1. record[s].pc = "none" /\ record[s] \in RecordType
        BY <2>2 DEF Inv, TypeOK, RecordType, RecordInv
      <4>2. record[s] \in [pc : {"none", "waiting"}, tries : 0..MaxBatches]
        BY <4>1 DEF RecordType, Handling
      <4>3. record'[s] = [record[s] EXCEPT !.pc = "waiting"]  BY <2>2, <3>1 DEF Inv, TypeOK
      <4> QED  BY <4>2, <4>3
    <3> DEFINE Z == {s}
    <3>4. Z \in SUBSET Detections /\ \A t \in Detections \ Z : record'[t] = record[t]  BY <2>2, <3>2
    <3>5. \A t \in Z : record'[t].pc = "waiting"  BY <3>3
    <3> HIDE DEF Z
    <3>6. \A t \in Z, c \in Correlations : ~Answered(record'[t], c)  BY <3>5 DEF Answered
    <3>7. WitnessInv'  BY <1>1, <3>4, <3>6, WitnessKept DEF ThresholdInv
    <3>8. SettledInv'  BY <1>1, <3>4, <3>5, SettledKept DEF ThresholdInv
    <3> QED  BY <2>1, <3>7, <3>8 DEF ThresholdInv
  <2>3. CASE s \notin Detections \ stored
    <3>1. UNCHANGED record  BY <1>3, <2>3 DEF Store
    <3>2. \A t \in Detections \ {} : record'[t] = record[t]  BY <3>1
    <3>3. WitnessInv'  BY <1>1, <3>2, WitnessKept DEF ThresholdInv
    <3>4. SettledInv'  BY <1>1, <3>2, SettledKept DEF ThresholdInv
    <3> QED  BY <2>1, <3>3, <3>4 DEF ThresholdInv
  <2> QED  BY <2>2, <2>3
<1> QED  BY <1>2, <1>3 DEF Put

(* A record taken up is answered by no correlation that counts its signal. *)
LEMMA ThresholdAfterBegin ==
  ASSUME Inv, ThresholdInv, NEW s \in Detections, Begin(s)
  PROVE  ThresholdInv'
<1> DEFINE y == [pc |-> "handling", tries |-> record[s].tries + 1, at |-> now,
                 todo |-> {c \in Correlations : s.rule \in Counts[c]}, due |-> {}]
<1>1. UNCHANGED <<now, faults, event, message, born, stored, alerts, outbox>>  BY DEF Begin
<1>2. record[s] \in RecordType /\ record[s].pc = "waiting" /\ record[s].tries < MaxBatches
  BY DEF Inv, TypeOK, RecordType, RecordInv, Begin
<1>3. record[s].tries \in Nat  BY <1>2 DEF RecordType, Handling
<1>4. y \in Handling({"handling"})  BY <1>2, <1>3 DEF Inv, TypeOK, Handling
<1>5. record' = [record EXCEPT ![s] = Advanced(y)]  BY DEF Begin
<1>6. y.todo = {c \in Correlations : s.rule \in Counts[c]}  OBVIOUS
<1> HIDE DEF y
<1>7. record'[s] = Advanced(y) /\ \A t \in Detections \ {s} : record'[t] = record[t]
  BY <1>5 DEF Inv, TypeOK
<1>8. Advanced(y).todo = y.todo /\ (Advanced(y).pc = "handled" => y.todo = {})
  BY <1>4 DEF Advanced, Handling
<1>9. \A c \in Correlations : s.rule \in Counts[c] => ~Answered(record'[s], c)
  BY <1>6, <1>7, <1>8 DEF Answered
<1> DEFINE Z == {s}
<1>10. Z \in SUBSET Detections /\ \A t \in Detections \ Z : record'[t] = record[t]  BY <1>7
<1>11. \A t \in Z, c \in Correlations : t.rule \in Counts[c] => ~Answered(record'[t], c)  BY <1>9
<1> HIDE DEF Z
<1>12. WitnessInv'  BY <1>1, <1>10, <1>11, WitnessKept DEF ThresholdInv
<1> QED  BY <1>1, <1>4, <1>5, <1>12, ThresholdAdvanced

(* The record of s when correlation c has looked at a page.                *)
Looked(s, c, page) ==
  LET counted == {t \in page : t.rule \in Counts[c]} IN
  [record[s] EXCEPT
    !.todo = @ \ {c}, !.due = IF Met(Cardinality(counted)) THEN @ \cup {WindowOf(c, s)} ELSE @]

(* A correlation with an index looks at a page of the recent signals.      *)
LEMMA CorrelateEffect ==
  ASSUME NEW s \in Detections, Correlate(s), \A c : c \notin Unindexed
  PROVE  /\ UNCHANGED <<now, faults, event, message, born, stored, alerts, outbox>>
         /\ record[s].pc = "handling"
         /\ \E c \in record[s].todo : \E page \in Pages(s) :
              record' = [record EXCEPT ![s] = Advanced(Looked(s, c, page))]
BY Zenon DEF Correlate, Looked

(* The last of the signals together finds them all, and they reach the      *)
(* threshold.                                                              *)
LEMMA ThresholdAfterCorrelate ==
  ASSUME Inv, ThresholdInv, Roomy, LaggingIndex = FALSE, Unindexed = {}, NEW s \in Detections, Correlate(s)
  PROVE  ThresholdInv'
<1>1. UNCHANGED <<now, faults, event, message, born, stored, alerts, outbox>>  BY CorrelateEffect
<1>2. record[s] \in RecordType /\ record[s].pc = "handling" /\ s \in stored
  BY CorrelateEffect DEF Inv, TypeOK, RecordType, RecordInv
<1>3. record[s] \in Handling({"handling"})  BY <1>2 DEF RecordType, Handling
<1>4. PICK c \in record[s].todo : \E page \in Pages(s) :
        record' = [record EXCEPT ![s] = Advanced(Looked(s, c, page))]
  BY CorrelateEffect
<1>5. PICK page \in Pages(s) : record' = [record EXCEPT ![s] = Advanced(Looked(s, c, page))]
  BY <1>4
<1> DEFINE counted == {t \in page : t.rule \in Counts[c]}
           met == Met(Cardinality(counted))
           y == Looked(s, c, page)
<1>6. y = [record[s] EXCEPT !.todo = @ \ {c}, !.due = IF met THEN @ \cup {WindowOf(c, s)} ELSE @]
  BY Zenon DEF Looked
<1> HIDE DEF y
<1>7. c \in Correlations /\ WindowOf(c, s) \in Windows
  BY <1>3, WindowType DEF Handling, Inv, Signals
<1>8. ASSUME NEW S \in SUBSET (stored \cap Detections), Cardinality(S) >= Threshold,
             \A t \in S : t.rule \in Counts[c] /\ born[t] >= SinceOf(s)
      PROVE  met
  <2>1. page = Recent(s)  BY <1>2, PageIsWhole DEF ThresholdInv
  <2>2. S \subseteq counted  BY <1>8, <2>1 DEF Recent
  <2>3. IsFiniteSet(counted)
    <3>1. counted \subseteq stored  BY <2>1 DEF Recent
    <3> QED  BY <3>1, FS_Subset DEF ThresholdInv
  <2>4. IsFiniteSet(S) /\ Cardinality(S) <= Cardinality(counted)  BY <2>2, <2>3, FS_Subset
  <2>5. Cardinality(S) \in Nat /\ Cardinality(counted) \in Nat  BY <2>3, <2>4, FS_CardinalityType
  <2> HIDE DEF counted
  <2> QED  BY <1>8, <2>4, <2>5 DEF Met
<1> HIDE DEF met, counted
<1>9. /\ y \in Handling({"handling"})
      /\ y.at = record[s].at
      /\ y.todo = record[s].todo \ {c}
      /\ record[s].due \subseteq y.due
      /\ met => WindowOf(c, s) \in y.due
  BY <1>3, <1>6, <1>7 DEF Handling
<1>10. record' = [record EXCEPT ![s] = Advanced(y)]  BY <1>5 DEF y
<1>11. WitnessInv'
  <2>1. \A d \in record[s].todo \ y.todo, S \in SUBSET (stored \cap Detections) :
          /\ \A t \in S : t.rule \in Counts[d] /\ born[t] >= SinceOf(s)
          /\ Cardinality(S) >= Threshold
          => WindowOf(d, s) \in y.due
    <3>1. \A d \in record[s].todo \ y.todo : d = c  BY <1>9
    <3> QED  BY <1>8, <1>9, <3>1
  <2> QED  BY <1>1, <1>3, <1>9, <1>10, <2>1, WitnessMoves DEF ThresholdInv
<1> QED  BY <1>1, <1>9, <1>10, <1>11, ThresholdAdvanced

(* An alert is due until its outbox row is written.                        *)
LEMMA ThresholdAfterStoreAlert ==
  ASSUME Inv, ThresholdInv, NEW s \in Detections, StoreAlert(s)
  PROVE  ThresholdInv'
<1>1. UNCHANGED <<now, event, message, born, stored>>  BY DEF StoreAlert
<1>2. record[s] \in RecordType /\ record[s].pc = "handling"
  BY DEF Inv, TypeOK, RecordType, StoreAlert
<1>3. record[s] \in Handling({"handling"})  BY <1>2 DEF RecordType, Handling
<1>4. PICK k \in record[s].due :
        \/ /\ Announce(k, s, record[s].tries)
           /\ record' = [record EXCEPT ![s] = Advanced([record[s] EXCEPT !.due = @ \ {k}])]
           /\ UNCHANGED faults
        \/ (Announce(k, s, record[s].tries) \/ UNCHANGED <<alerts, outbox>>) /\ BatchFails(s) /\ Fault
  BY DEF StoreAlert
<1>5. outbox \subseteq outbox' /\ (Announce(k, s, record[s].tries) => k \in outbox')
  BY <1>4 DEF Announce, Recordable
<1>6. CASE BatchFails(s) /\ Fault
  BY <1>1, <1>2, <1>5, <1>6, ThresholdAfterFailure
<1>7. CASE /\ Announce(k, s, record[s].tries)
           /\ record' = [record EXCEPT ![s] = Advanced([record[s] EXCEPT !.due = @ \ {k}])]
           /\ UNCHANGED faults
  <2> DEFINE y == [record[s] EXCEPT !.due = @ \ {k}]
  <2>1. y \in Handling({"handling"}) /\ y.at = record[s].at /\ y.todo = record[s].todo /\ y.due = record[s].due \ {k}
    BY <1>3 DEF Handling
  <2>2. record' = [record EXCEPT ![s] = Advanced(y)]  BY <1>7
  <2> HIDE DEF y
  <2>3. record[s].due \subseteq y.due \cup outbox'  BY <1>5, <1>7, <2>1
  <2>4. record[s].todo \ y.todo = {}  BY <2>1
  <2>5. WitnessInv'  BY <1>1, <1>3, <1>5, <2>1, <2>2, <2>3, <2>4, WitnessMoves DEF ThresholdInv
  <2> QED  BY <1>1, <1>7, <2>1, <2>2, <2>5, ThresholdAdvanced
<1> QED  BY <1>4, <1>6, <1>7

(* Every step, as long as queries have room, leaves a witness.             *)
LEMMA ThresholdSteps ==
  ASSUME Unindexed = {}, LaggingIndex = FALSE, Inv, ThresholdInv, Roomy, [Next]_vars
  PROVE  ThresholdInv'
<1>1. ASSUME NEW e \in Events, Detect(e) PROVE ThresholdInv'
  BY <1>1, BornKept, ThresholdUntouched DEF Detect
<1>2. ASSUME NEW e \in Events, Enqueue(e) PROVE ThresholdInv'  BY <1>2, ThresholdUntouched DEF Enqueue
<1>3. ASSUME NEW e \in Events, PutAlert(e) PROVE ThresholdInv'  BY <1>3, ThresholdUntouched DEF PutAlert
<1>4. ASSUME NEW e \in Events, PutOutbox(e) PROVE ThresholdInv'  BY <1>4, ThresholdUntouched DEF PutOutbox
<1>5. ASSUME NEW e \in Events, Processed(e) PROVE ThresholdInv'  BY <1>5, ThresholdUntouched DEF Processed
<1>6. ASSUME NEW e \in Events, CrashProcessor(e) PROVE ThresholdInv'
  BY <1>6, ThresholdUntouched DEF CrashProcessor
<1>7. ASSUME NEW s \in Signals, Receive(s) PROVE ThresholdInv'  BY <1>7, ThresholdUntouched DEF Receive
<1>8. ASSUME NEW s \in Signals, Put(s) PROVE ThresholdInv'  BY <1>8, ThresholdAfterPut
<1>9. ASSUME NEW s \in Signals, Transact(s) PROVE ThresholdInv'
  <2>1. outbox \subseteq outbox'  BY <1>9 DEF Transact, Announce
  <2> QED  BY <1>9, <2>1, ThresholdUntouched DEF Transact
<1>10. ASSUME NEW s \in Detections, Begin(s) PROVE ThresholdInv'  BY <1>10, ThresholdAfterBegin
<1>11. ASSUME NEW s \in Detections, Correlate(s) PROVE ThresholdInv'  BY <1>11, ThresholdAfterCorrelate
<1>12. ASSUME NEW s \in Detections, StoreAlert(s) PROVE ThresholdInv'  BY <1>12, ThresholdAfterStoreAlert
<1>13. ASSUME NEW s \in Detections, CrashAlerter(s) PROVE ThresholdInv'
  BY <1>13, ThresholdAfterFailure DEF CrashAlerter
<1>14. ASSUME Tick PROVE ThresholdInv'  BY <1>14, ThresholdUntouched DEF Tick
<1>15. ASSUME UNCHANGED vars PROVE ThresholdInv'  BY <1>15, ThresholdUntouched DEF vars
<1> QED
  BY <1>1, <1>2, <1>3, <1>4, <1>5, <1>6, <1>7, <1>8, <1>9, <1>10, <1>11, <1>12, <1>13, <1>14, <1>15 DEF Next

(* With indexes for all group_by that do not lag, and room in a query for   *)
(* the actor's signals, CorrelationEngine.correlate misses no threshold:    *)
(* whichever order records are handled in, and however often batches are    *)
(* repeated, the signals that reach it together are announced once their    *)
(* records are handled.                                                    *)
THEOREM ThresholdsAreAnnounced ==
  ASSUME Unindexed = {}, LaggingIndex = FALSE
  PROVE  Spec /\ []Roomy => []ThresholdMeansAlert
<1>1. ASSUME Init PROVE ThresholdInv
  <2>1. \A s \in Detections : record[s].pc = "none"  BY <1>1 DEF Init, NoRecord
  <2>2. SettledInv  BY <2>1 DEF SettledInv
  <2>3. WitnessInv
    <3> SUFFICES ASSUME NEW c \in Correlations, NEW S \in SUBSET Detections, Together(c, S)
                 PROVE  FALSE
      BY DEF WitnessInv
    <3>1. S = {}  BY <2>1 DEF Together, Answered
    <3>2. Cardinality(S) = 0  BY <3>1, FS_EmptySet
    <3> QED  BY <3>2 DEF Together
  <2>4. IsFiniteSet(stored)  BY <1>1, FS_EmptySet DEF Init
  <2> QED  BY <2>2, <2>3, <2>4 DEF ThresholdInv
<1>2. Inv /\ ThresholdInv /\ Roomy /\ [Next]_vars => ThresholdInv'  BY ThresholdSteps
<1>3. ASSUME Inv, ThresholdInv PROVE ThresholdMeansAlert
  <2> SUFFICES ASSUME NEW c \in Correlations,
                      NEW S \in SUBSET {s \in Detections : s.rule \in Counts[c] /\ Settled(s)},
                      Cardinality(S) >= Threshold, \A s, t \in S : born[t] >= SinceOf(s)
               PROVE  \E s \in S : WindowOf(c, s) \in outbox
    BY DEF ThresholdMeansAlert
  <2>1. \A s \in S : record[s].pc = "handled"
    <3>1. \A s \in S : ~(record[s].pc = "lost" /\ faults = MaxFaults)
      <4>1. MaxFaults \in Nat /\ ~(MaxFaults < MaxFaults)  OBVIOUS
      <4> QED  BY <1>3, <4>1 DEF ThresholdInv, SettledInv
    <3> QED  BY <3>1 DEF Settled
  <2>2. Together(c, S)  BY <2>1 DEF Together, Answered
  <2>3. PICK s \in S : WindowOf(c, s) \in outbox \cup record[s].due
    BY <1>3, <2>2 DEF ThresholdInv, WitnessInv
  <2>4. record[s].due = {}  BY <1>3, <2>1 DEF ThresholdInv, SettledInv
  <2> QED  BY <2>3, <2>4
<1> QED  BY <1>1, <1>2, <1>3, Invariance, PTL DEF Spec

-----------------------------------------------------------------------------
(* What conditions mean                                                    *)

HIDE AlertingAssumption DEF AlertingAssumption

(* Conditions of accepted rules: the schema knows no negated wildcard.      *)
Written(c) == c \in Condition /\ (c.base = "wildcard" => ~c.negated)

(* Only written conditions are of accepted rules.                          *)
LEMMA ConditionsAreWritten ==
  ASSUME NEW r \in AcceptedRules
  PROVE  /\ r \in RuleDocument
         /\ \A c \in r.conditions : Written(c)
BY EvaluationAssumption DEF EvaluationAssumption, AcceptedRules, RuleDocument, Written

(* The fields that a condition of an accepted rule has.                    *)
LEMMA ConditionTypes ==
  ASSUME NEW c, Written(c)
  PROVE  /\ c.field \in EventFields /\ c.base \in Bases /\ c.negated \in BOOLEAN
         /\ c.base = "wildcard" => ~c.negated
BY DEF Written, Condition

(* The operators without their negation are distinct.                      *)
LEMMA BasesDiffer ==
  /\ "wildcard" # "exists" /\ "wildcard" # "in_list" /\ "wildcard" # "matches"
  /\ "exists" # "in_list" /\ "exists" # "matches" /\ "in_list" # "matches"
  /\ "holds" # "fails" /\ "holds" # "undecided" /\ "fails" # "undecided"
  /\ "true" # "false" /\ "true" # "unknown" /\ "false" # "unknown"
OBVIOUS

(* Of a value that is there, an operator decides what it is the truth of.   *)
LEMMA DecidedTruth ==
  ASSUME NEW c, Written(c), c.base \notin {"wildcard", "exists"}, NEW s, NEW list,
         s.fields[c.field] # Missing
  PROVE  Satisfied(c, Decided(c, s.fields[c.field], list)) <=> Truth(c, s, list) = "true"
<1> DEFINE v == s.fields[c.field]
<1> HIDE DEF v
<1>1. CASE c.base = "in_list" /\ ~list.there
  <2>1. Decided(c, v, list) = "undecided"
    BY <1>1, Zenon DEF Decided, InList
  <2>2. Truth(c, s, list) = IF c.negated THEN Opposite("unknown") ELSE "unknown"
    BY <1>1, BasesDiffer, Zenon DEF Truth
  <2>3. Opposite("unknown") = "unknown"
    BY BasesDiffer, Zenon DEF Opposite
  <2> QED BY <2>1, <2>2, <2>3, BasesDiffer DEF Satisfied, v
<1>2. CASE c.base = "in_list" /\ list.there
  <2>1. Decided(c, v, list) = IF v \in list.values THEN "holds" ELSE "fails"
    BY <1>2, Zenon DEF Decided, InList
  <2>2. Truth(c, s, list) =
          IF c.negated THEN Opposite(IF v \in list.values THEN "true" ELSE "false")
          ELSE IF v \in list.values THEN "true" ELSE "false"
    BY <1>2, BasesDiffer, Zenon DEF Truth, v
  <2>3. Opposite("true") = "false" /\ Opposite("false") = "true"
    BY BasesDiffer, Zenon DEF Opposite
  <2> QED BY <2>1, <2>2, <2>3, BasesDiffer DEF Satisfied, v
<1>3. CASE c.base = "matches" /\ v \in c.hard
  <2>1. Decided(c, v, list) = "undecided"
    BY <1>3, BasesDiffer, Zenon DEF Decided
  <2>2. Truth(c, s, list) = IF c.negated THEN Opposite("unknown") ELSE "unknown"
    BY <1>3, BasesDiffer, Zenon DEF Truth, v
  <2>3. Opposite("unknown") = "unknown"
    BY BasesDiffer, Zenon DEF Opposite
  <2> QED BY <2>1, <2>2, <2>3, BasesDiffer DEF Satisfied, v
<1>4. CASE c.base # "in_list" /\ ~(c.base = "matches" /\ v \in c.hard)
  <2>1. Decided(c, v, list) = IF v \in c.extent THEN "holds" ELSE "fails"
    BY <1>4, Zenon DEF Decided
  <2>2. Truth(c, s, list) =
          IF c.negated THEN Opposite(IF v \in c.extent THEN "true" ELSE "false")
          ELSE IF v \in c.extent THEN "true" ELSE "false"
    BY <1>4, BasesDiffer, Zenon DEF Truth, v
  <2>3. Opposite("true") = "false" /\ Opposite("false") = "true"
    BY BasesDiffer, Zenon DEF Opposite
  <2> QED BY <2>1, <2>2, <2>3, BasesDiffer DEF Satisfied, v
<1> QED BY <1>1, <1>2, <1>3, <1>4

(* A condition on a missing field is undecided, unless it asks for no more *)
(* than presence.                                                          *)
LEMMA MissingTruth ==
  ASSUME NEW c, Written(c), c.base \notin {"wildcard", "exists"}, NEW s, NEW list,
         s.fields[c.field] = Missing
  PROVE  Truth(c, s, list) = "unknown"
<1>1. Truth(c, s, list) = IF c.negated THEN Opposite("unknown") ELSE "unknown"
  BY BasesDiffer, Zenon DEF Truth
<1>2. Opposite("unknown") = "unknown"
  BY BasesDiffer, Zenon DEF Opposite
<1> QED BY <1>1, <1>2

(* What the operators exists and not_exists say of a value.                *)
LEMMA ExistsTruth ==
  ASSUME NEW c, Written(c), c.base = "exists", NEW s, NEW list
  PROVE  (s.fields[c.field] = Missing) = c.negated <=> Truth(c, s, list) = "true"
<1> DEFINE v == s.fields[c.field]
<1> HIDE DEF v
<1>1. /\ v # Missing => Truth(c, s, list) = IF c.negated THEN Opposite("true") ELSE "true"
      /\ v = Missing => Truth(c, s, list) = IF c.negated THEN Opposite("false") ELSE "false"
  <2>1. ASSUME v # Missing
        PROVE  Truth(c, s, list) = IF c.negated THEN Opposite("true") ELSE "true"
    BY <2>1, BasesDiffer, Zenon DEF Truth, v
  <2>2. ASSUME v = Missing
        PROVE  Truth(c, s, list) = IF c.negated THEN Opposite("false") ELSE "false"
    BY <2>2, BasesDiffer, Zenon DEF Truth, v
  <2> QED BY <2>1, <2>2
<1>2. Opposite("true") = "false" /\ Opposite("false") = "true"
  BY BasesDiffer, Zenon DEF Opposite
<1>3. c.negated \in BOOLEAN
  BY ConditionTypes
<1> QED BY <1>1, <1>2, <1>3, BasesDiffer DEF v

(* Whatever a field is, and if it is missing, a wildcard holds of it.      *)
LEMMA WildcardTruth ==
  ASSUME NEW c, Written(c), c.base = "wildcard", NEW s, NEW list
  PROVE  Truth(c, s, list) = "true"
<1>1. ~c.negated
  BY ConditionTypes
<1>2. Truth(c, s, list) = IF c.negated THEN Opposite("true") ELSE "true"
  BY Zenon DEF Truth
<1> QED BY <1>1, <1>2

(* The processor's conditions hold of an event when they are true of it.    *)
LEMMA EventTruth ==
  ASSUME NEW c, Written(c), NEW e, NEW list
  PROVE  HoldsForEvent(c, e, list) <=> Truth(c, e, list) = "true"
<1>1. CASE c.base = "wildcard"
  <2>1. HoldsForEvent(c, e, list)
    BY <1>1, Zenon DEF HoldsForEvent
  <2> QED BY <1>1, <2>1, WildcardTruth
<1>2. CASE c.base = "exists"
  <2>1. HoldsForEvent(c, e, list) <=> (e.fields[c.field] = Missing) = c.negated
    BY <1>2, BasesDiffer, Zenon DEF HoldsForEvent
  <2> QED BY <1>2, <2>1, ExistsTruth
<1>3. CASE c.base \notin {"wildcard", "exists"}
  <2>1. HoldsForEvent(c, e, list) <=>
          /\ e.fields[c.field] # Missing
          /\ Satisfied(c, Decided(c, e.fields[c.field], list))
    BY <1>3, Zenon DEF HoldsForEvent
  <2> QED BY <1>3, <2>1, DecidedTruth, MissingTruth, BasesDiffer
<1> QED BY <1>1, <1>2, <1>3

(* Those of the alerter hold of a signal only when they are.               *)
LEMMA SignalTruth ==
  ASSUME NEW c, Written(c), NEW s, NEW list, HoldsForSignal(c, s, list)
  PROVE  Truth(c, s, list) = "true"
<1>1. CASE c.base = "exists"
  <2>1. (s.fields[c.field] = Missing) = c.negated
    BY <1>1, Zenon DEF HoldsForSignal
  <2> QED BY <1>1, <2>1, ExistsTruth
<1>2. CASE c.base # "exists"
  <2>1. /\ s.fields[c.field] # Missing /\ Known(c)
        /\ Satisfied(c, Decided(c, s.fields[c.field], list))
    BY <1>2, Zenon DEF HoldsForSignal
  <2>2. c.base # "wildcard"
    BY <2>1 DEF Known
  <2> QED BY <1>2, <2>1, <2>2, DecidedTruth
<1> QED BY <1>1, <1>2

(* A rule matches by its conditions, joined by its logic.                  *)
LEMMA MatchTruth ==
  ASSUME NEW r \in AcceptedRules, NEW e, NEW list
  PROVE  /\ Matches(r, e, list) <=>
              r.conditions # {} /\ \A c \in r.conditions : Truth(c, e, list) = "true"
         /\ MatchesSignal(r, e, list) => \A c \in r.conditions : Truth(c, e, list) = "true"
<1>1. \A c \in r.conditions : HoldsForEvent(c, e, list) <=> Truth(c, e, list) = "true"
  BY ConditionsAreWritten, EventTruth
<1>2. \A c \in r.conditions : HoldsForSignal(c, e, list) => Truth(c, e, list) = "true"
  BY ConditionsAreWritten, SignalTruth
<1> QED BY <1>1, <1>2, Zenon DEF Matches, MatchesSignal

(* A rule that binds a signal of an integration has no response.            *)
LEMMA BindingHasNoResponse ==
  ASSUME NEW r \in AcceptedRules, NEW s, Foreign(s), Binds(r, s)
  PROVE  ~HasResponse(r)
<1>1. AcceptedByApi(r)
  BY DEF AcceptedRules, AcceptedFromFile
<1>2. PICK c \in r.conditions : c.field = "integration_id"
  BY DEF Binds
<1>3. NamesForeign(c)
  BY <1>2 DEF NamesForeign
<1> QED BY <1>1, <1>3 DEF AcceptedByApi

EvaluationInv == EvaluationTypeOK /\ FiresOnEvidence /\ ForeignNeverResponds

(* The parts of the invariant, of one evaluation and of one alert.          *)
Evident(r, d) ==
  LET true == \A c \in r.conditions : Truth(c, d.subject, d.list) = "true" IN
    /\ d.fired => r.enabled /\ true
    /\ r.kind = "signal" => (d.fired <=> r.enabled /\ r.conditions # {} /\ true)

Grounded(r, a, ds) ==
  \A s \in a.about :
    /\ ~s.analysis
    /\ \E d \in ds : \A c \in r.conditions : Truth(c, s, d.list) = "true"

(* The evidence of all that is there, before and after a step.             *)
LEMMA EvidenceParts ==
  /\ FiresOnEvidence <=> /\ \A d \in detected : Evident(submitted, d)
                         /\ \A a \in raised : Grounded(submitted, a, detected)
  /\ FiresOnEvidence' <=> /\ \A d \in detected' : Evident(submitted', d)
                          /\ \A a \in raised' : Grounded(submitted', a, detected')
BY Zenon DEF FiresOnEvidence, Evident, Grounded

(* One evaluation more, and perhaps one alert.                             *)
LEMMA EvaluationStep ==
  ASSUME EvaluationInv, UNCHANGED <<submitted, snapshot>>,
         NEW e \in Subjects, NEW fires \in BOOLEAN, NEW a,
         detected' = detected \cup {[subject |-> e, list |-> snapshot, fired |-> fires]},
         signals' \subseteq signals \cup {e},
         raised' = raised \/ raised' = raised \cup {a},
         Evident(submitted, [subject |-> e, list |-> snapshot, fired |-> fires]),
         raised' # raised =>
           /\ a.about \subseteq signals \cup {e}
           /\ Grounded(submitted, a, {[subject |-> e, list |-> snapshot, fired |-> fires]})
           /\ (\E s \in a.about : Foreign(s)) => ~a.response
  PROVE  EvaluationInv'
<1> DEFINE d == [subject |-> e, list |-> snapshot, fired |-> fires]
<1>1. d.subject = e /\ d.list = snapshot
  OBVIOUS
<1> HIDE DEF d
<1>2. detected' = detected \cup {d} /\ Evident(submitted, d)
      /\ (raised' # raised => Grounded(submitted, a, {d}))
  BY DEF d
<1>3. EvaluationTypeOK'
  BY <1>1, <1>2 DEF EvaluationInv, EvaluationTypeOK
<1>4. FiresOnEvidence'
  <2>1. \A x \in detected' : Evident(submitted', x)
    BY <1>2, EvidenceParts DEF EvaluationInv
  <2>2. \A x \in raised' : Grounded(submitted', x, detected')
    <3>1. \A x \in raised : Grounded(submitted, x, detected)
      BY EvidenceParts DEF EvaluationInv
    <3>2. \A x \in raised : Grounded(submitted', x, detected')
      BY <1>2, <3>1 DEF Grounded
    <3>3. raised' # raised => Grounded(submitted', a, detected')
      BY <1>2 DEF Grounded
    <3>4. CASE raised' = raised
      BY <3>2, <3>4
    <3>5. CASE raised' # raised
      <4>1. raised' = raised \cup {a}
        BY <3>5
      <4> QED BY <3>2, <3>3, <3>5, <4>1, Zenon
    <3> QED BY <3>4, <3>5
  <2> QED BY <2>1, <2>2, EvidenceParts
<1>5. ForeignNeverResponds'
  BY DEF EvaluationInv, ForeignNeverResponds, Foreign
<1> QED BY <1>3, <1>4, <1>5 DEF EvaluationInv

(* A detection fires on evidence, and a foreign event asks for no          *)
(* response.                                                               *)
LEMMA DetectEventStep ==
  ASSUME EvaluationInv, NEW e \in Subjects, DetectEvent(e)
  PROVE  EvaluationInv'
<1> DEFINE r == submitted
           fires == r.enabled /\ Matches(r, e, snapshot)
           a == [about |-> {e}, response |-> ResponseOf(r, e)]
           d == [subject |-> e, list |-> snapshot, fired |-> fires]
<1>1. /\ r.kind = "signal" /\ detected' = detected \cup {d}
      /\ signals' = IF fires THEN signals \cup {e} ELSE signals
      /\ raised' = IF fires /\ ~e.analysis THEN raised \cup {a} ELSE raised
      /\ UNCHANGED <<submitted, snapshot>>
  BY Zenon DEF DetectEvent
<1>2. r \in AcceptedRules /\ r.enabled \in BOOLEAN
  BY ConditionsAreWritten DEF EvaluationInv, EvaluationTypeOK, RuleDocument
<1>3. Matches(r, e, snapshot) <=>
        r.conditions # {} /\ \A c \in r.conditions : Truth(c, e, snapshot) = "true"
  BY <1>2, MatchTruth
<1>4. fires \in BOOLEAN
  OBVIOUS
<1>5. a.about = {e} /\ (a.response <=> ResponseOf(r, e)) /\ ResponseOf(r, e) \in BOOLEAN
  BY DEF ResponseOf
<1>6. d.subject = e /\ d.list = snapshot /\ (d.fired <=> fires)
  OBVIOUS
<1>7. Evident(r, d)
  BY <1>1, <1>3, <1>6, Zenon DEF Evident
<1>8. fires /\ ~e.analysis => Grounded(r, a, {d})
  BY <1>3, <1>5, <1>6 DEF Grounded
<1>9. (\E s \in a.about : Foreign(s)) => ~a.response
  BY <1>5 DEF ResponseOf
<1> HIDE DEF fires, a
<1> QED BY <1>1, <1>4, <1>5, <1>7, <1>8, <1>9, EvaluationStep

(* A correlation is raised on evidence, and about signals of its own       *)
(* binding.                                                                *)
LEMMA CorrelateSignalStep ==
  ASSUME EvaluationInv, NEW s \in Subjects, CorrelateSignal(s)
  PROVE  EvaluationInv'
<1> DEFINE r == submitted
           recent == {x \in signals \cup {s} :
                        /\ x.fields["integration_id"] = s.fields["integration_id"]
                        /\ ~x.analysis
                        /\ MatchesSignal(r, x, snapshot)}
           fires == /\ r.enabled
                    /\ ~s.analysis
                    /\ Binds(r, s)
                    /\ MatchesSignal(r, s, snapshot)
                    /\ Cardinality(recent) >= r.threshold
           a == [about |-> recent, response |-> HasResponse(r)]
           d == [subject |-> s, list |-> snapshot, fired |-> fires]
<1>1. /\ r.kind = "correlation" /\ detected' = detected \cup {d}
      /\ signals' = signals \cup {s}
      /\ raised' = IF fires THEN raised \cup {a} ELSE raised
      /\ UNCHANGED <<submitted, snapshot>>
  BY Zenon DEF CorrelateSignal
<1>2. r \in AcceptedRules
  BY DEF EvaluationInv, EvaluationTypeOK
<1>3. /\ MatchesSignal(r, s, snapshot) => \A c \in r.conditions : Truth(c, s, snapshot) = "true"
      /\ \A x \in recent : \A c \in r.conditions : Truth(c, x, snapshot) = "true"
  BY <1>2, MatchTruth
<1>4. fires \in BOOLEAN
  OBVIOUS
<1>5. a.about = recent /\ (a.response <=> HasResponse(r)) /\ HasResponse(r) \in BOOLEAN
  BY DEF HasResponse
<1>6. d.subject = s /\ d.list = snapshot /\ (d.fired <=> fires)
  OBVIOUS
<1>7. Evident(r, d)
  <2>1. r.kind # "signal"
    BY <1>1
  <2>2. fires => r.enabled /\ MatchesSignal(r, s, snapshot)
    OBVIOUS
  <2> HIDE DEF fires, d, r
  <2> QED BY <1>3, <1>6, <2>1, <2>2, Zenon DEF Evident
<1>8. Grounded(r, a, {d})
  <2>1. \A x \in recent : ~x.analysis
    OBVIOUS
  <2> HIDE DEF recent, d, r, a
  <2> QED BY <1>3, <1>5, <1>6, <2>1 DEF Grounded
<1>9. fires /\ (\E x \in a.about : Foreign(x)) => ~a.response
  <2> SUFFICES ASSUME fires, NEW x \in recent, Foreign(x)
               PROVE  ~HasResponse(r)
    BY <1>5
  <2>1. Foreign(s)
    BY DEF Foreign
  <2> QED BY <1>2, <2>1, BindingHasNoResponse
<1>10. recent \subseteq signals \cup {s}
  OBVIOUS
<1> HIDE DEF fires, a, recent
<1> QED BY <1>1, <1>4, <1>5, <1>7, <1>8, <1>9, <1>10, EvaluationStep

(* The invariant holds of every behaviour of rule evaluation.              *)
LEMMA EvaluationInvariant == EvaluationSpec => []EvaluationInv
<1>1. EvaluationInit => EvaluationInv
  BY DEF EvaluationInit, EvaluationInv, EvaluationTypeOK, FiresOnEvidence, ForeignNeverResponds
<1>2. EvaluationInv /\ [EvaluationNext]_evaluationVars => EvaluationInv'
  <2> SUFFICES ASSUME EvaluationInv, [EvaluationNext]_evaluationVars
               PROVE  EvaluationInv'
    OBVIOUS
  <2>1. ASSUME NEW list \in Snapshots, Reload(list)
        PROVE  EvaluationInv'
    <3>1. snapshot' = list /\ UNCHANGED <<submitted, signals, detected, raised>>
      BY <2>1 DEF Reload
    <3>2. EvaluationTypeOK'
      BY <3>1 DEF EvaluationInv, EvaluationTypeOK
    <3>3. FiresOnEvidence'
      BY <3>1, EvidenceParts DEF EvaluationInv
    <3> QED BY <3>1, <3>2, <3>3 DEF EvaluationInv, ForeignNeverResponds, Foreign
  <2>2. ASSUME NEW e \in Subjects, DetectEvent(e) \/ CorrelateSignal(e)
        PROVE  EvaluationInv'
    BY <2>2, DetectEventStep, CorrelateSignalStep
  <2>3. CASE UNCHANGED evaluationVars
    <3>1. UNCHANGED <<submitted, snapshot, signals, detected, raised>>
      BY <2>3 DEF evaluationVars
    <3>2. FiresOnEvidence'
      BY <3>1, EvidenceParts DEF EvaluationInv
    <3> QED BY <3>1, <3>2 DEF EvaluationInv, EvaluationTypeOK, ForeignNeverResponds, Foreign
  <2> QED BY <2>1, <2>2, <2>3 DEF EvaluationNext
<1> QED BY <1>1, <1>2, PTL DEF EvaluationSpec

(* Rules as accepted, signals, detections and alerts keep their shape      *)
(* while the engines of detection_engine.py and correlation_engine.py      *)
(* evaluate them.                                                          *)
THEOREM EvaluationTypesHold == EvaluationSpec => []EvaluationTypeOK
<1>1. EvaluationInv => EvaluationTypeOK
  BY DEF EvaluationInv
<1> QED BY <1>1, EvaluationInvariant, PTL

(* For any rules, events and lists: whatever fires, fires on evidence, also  *)
(* where lists are missing or expressions undecided (evaluate_condition,    *)
(* correlate).                                                             *)
THEOREM EvidenceDecides == EvaluationSpec => []FiresOnEvidence
<1>1. EvaluationInv => FiresOnEvidence
  BY DEF EvaluationInv
<1> QED BY <1>1, EvaluationInvariant, PTL

(* No accepted rule has an alert about an integration's event ask for a      *)
(* response (_normalize_rule_payload, build_detection_event, correlate).    *)
THEOREM NoForeignResponse == EvaluationSpec => []ForeignNeverResponds
<1>1. EvaluationInv => ForeignNeverResponds
  BY DEF EvaluationInv
<1> QED BY <1>1, EvaluationInvariant, PTL

-----------------------------------------------------------------------------
(* What an action is about                                                 *)

(* The modules that take an event's request apart, by name.                *)
LEMMA RequestModulesNamed ==
  RequestModules = {"disable_lambda_function", "disable_secrets_manager_secret",
                    "enable_cloudtrail_logging", "enable_guardduty_detector",
                    "start_config_recorder"}
BY DEF RequestModules, RequestKey

(* What the modules about a user are given and require.                    *)
LEMMA ArgumentsOfUser ==
  ASSUME NEW m \in UserModules, NEW t, NEW e
  PROVE  /\ Arguments(m, t, e) = [user_name |-> UserName(t, e)]
         /\ Required(m) = {"user_name"} /\ Optional(m) = {}
<1>1. m \notin BucketModules /\ m \notin RequestModules
  BY RequestModulesNamed DEF UserModules, BucketModules
<1>2. m \notin {"disable_access_key", "disable_role", "delete_inline_policy", "block_s3_public_access",
     "block_s3_object_public_access", "isolate_ec2_instances",
     "deauthorize_security_group_rules", "revoke_rds_snapshot_public_access",
     "enable_security_hub", "quarantine_s3_bucket"}
  BY DEF UserModules
<1>3. Arguments(m, t, e) = [user_name |-> UserName(t, e)]
  BY <1>1, <1>2, Zenon DEF Arguments
<1>4. Required(m) = {"user_name"}
  BY <1>1, <1>2, Zenon DEF Required
<1>5. Optional(m) = {}
  BY <1>1, <1>2, Zenon DEF Optional
<1> QED BY <1>3, <1>4, <1>5

(* What disable_access_key is given and requires.                          *)
LEMMA ArgumentsOfAccessKey ==
  ASSUME NEW m, m = "disable_access_key", NEW t, NEW e
  PROVE  /\ Arguments(m, t, e) =
          [user_name     |-> First(t, "user_name", <<"response", "identity", "resources">>, e),
           access_key_id |-> First(t, "access_key_id", <<"response", "resources">>, e)]
         /\ Required(m) = {"user_name", "access_key_id"} /\ Optional(m) = {}
<1>1. m \notin UserModules /\ m \notin BucketModules /\ m \notin RequestModules
  BY RequestModulesNamed DEF UserModules, BucketModules
<1>2. m \notin {"disable_role", "block_s3_public_access", "block_s3_object_public_access", "isolate_ec2_instances", "revoke_rds_snapshot_public_access", "delete_inline_policy", "deauthorize_security_group_rules", "enable_security_hub", "quarantine_s3_bucket"}
  OBVIOUS
<1>3. Arguments(m, t, e) =
          [user_name     |-> First(t, "user_name", <<"response", "identity", "resources">>, e),
           access_key_id |-> First(t, "access_key_id", <<"response", "resources">>, e)]
  BY <1>1, <1>2, Zenon DEF Arguments, AccessKey
<1>4. Required(m) = {"user_name", "access_key_id"}
  BY <1>1, <1>2, Zenon DEF Required
<1>5. Optional(m) = {}
  BY <1>1, <1>2, Zenon DEF Optional
<1> QED BY <1>3, <1>4, <1>5

(* What disable_role is given and requires.                                *)
LEMMA ArgumentsOfRole ==
  ASSUME NEW m, m = "disable_role", NEW t, NEW e
  PROVE  /\ Arguments(m, t, e) =
          [role_name |-> First(t, "role_name", <<"value">> \o InRequest, e)]
         /\ Required(m) = {"role_name"} /\ Optional(m) = {}
<1>1. m \notin UserModules /\ m \notin BucketModules /\ m \notin RequestModules
  BY RequestModulesNamed DEF UserModules, BucketModules
<1>2. m \notin {"disable_access_key", "block_s3_public_access", "block_s3_object_public_access", "isolate_ec2_instances", "revoke_rds_snapshot_public_access", "delete_inline_policy", "deauthorize_security_group_rules", "enable_security_hub", "quarantine_s3_bucket"}
  OBVIOUS
<1>3. Arguments(m, t, e) =
          [role_name |-> First(t, "role_name", <<"value">> \o InRequest, e)]
  BY <1>1, <1>2, Zenon DEF Arguments, RoleName
<1>4. Required(m) = {"role_name"}
  BY <1>1, <1>2, Zenon DEF Required
<1>5. Optional(m) = {}
  BY <1>1, <1>2, Zenon DEF Optional
<1> QED BY <1>3, <1>4, <1>5

(* What block_s3_public_access is given and requires.                      *)
LEMMA ArgumentsOfPublicAccess ==
  ASSUME NEW m, m = "block_s3_public_access", NEW t, NEW e
  PROVE  /\ Arguments(m, t, e) =
          [account_id |-> AccountId(t, e)]
         /\ Required(m) = {"account_id"} /\ Optional(m) = {}
<1>1. m \notin UserModules /\ m \notin BucketModules /\ m \notin RequestModules
  BY RequestModulesNamed DEF UserModules, BucketModules
<1>2. m \notin {"disable_access_key", "disable_role", "block_s3_object_public_access", "isolate_ec2_instances", "revoke_rds_snapshot_public_access", "delete_inline_policy", "deauthorize_security_group_rules", "enable_security_hub", "quarantine_s3_bucket"}
  OBVIOUS
<1>3. Arguments(m, t, e) =
          [account_id |-> AccountId(t, e)]
  BY <1>1, <1>2, Zenon DEF Arguments
<1>4. Required(m) = {"account_id"}
  BY <1>1, <1>2, Zenon DEF Required
<1>5. Optional(m) = {}
  BY <1>1, <1>2, Zenon DEF Optional
<1> QED BY <1>3, <1>4, <1>5

(* What the module about an object is given and requires.                  *)
LEMMA ArgumentsOfObject ==
  ASSUME NEW m, m = "block_s3_object_public_access", NEW t, NEW e
  PROVE  /\ Arguments(m, t, e) =
          [bucket_name |-> BucketName(t, e), key |-> First(t, "key", InRequest, e)]
         /\ Required(m) = {"bucket_name", "key"} /\ Optional(m) = {}
<1>1. m \notin UserModules /\ m \notin BucketModules /\ m \notin RequestModules
  BY RequestModulesNamed DEF UserModules, BucketModules
<1>2. m \notin {"disable_access_key", "disable_role", "block_s3_public_access", "isolate_ec2_instances", "revoke_rds_snapshot_public_access", "delete_inline_policy", "deauthorize_security_group_rules", "enable_security_hub", "quarantine_s3_bucket"}
  OBVIOUS
<1>3. Arguments(m, t, e) =
          [bucket_name |-> BucketName(t, e), key |-> First(t, "key", InRequest, e)]
  BY <1>1, <1>2, Zenon DEF Arguments, BucketAndKey
<1>4. Required(m) = {"bucket_name", "key"}
  BY <1>1, <1>2, Zenon DEF Required
<1>5. Optional(m) = {}
  BY <1>1, <1>2, Zenon DEF Optional
<1> QED BY <1>3, <1>4, <1>5

(* What the modules about instances are given and require.                 *)
LEMMA ArgumentsOfInstances ==
  ASSUME NEW m, m = "isolate_ec2_instances", NEW t, NEW e
  PROVE  /\ Arguments(m, t, e) =
          [instance_ids |-> InstanceIds(t, e)]
         /\ Required(m) = {"instance_ids"} /\ Optional(m) = {}
<1>1. m \notin UserModules /\ m \notin BucketModules /\ m \notin RequestModules
  BY RequestModulesNamed DEF UserModules, BucketModules
<1>2. m \notin {"disable_access_key", "disable_role", "block_s3_public_access", "block_s3_object_public_access", "revoke_rds_snapshot_public_access", "delete_inline_policy", "deauthorize_security_group_rules", "enable_security_hub", "quarantine_s3_bucket"}
  OBVIOUS
<1>3. Arguments(m, t, e) =
          [instance_ids |-> InstanceIds(t, e)]
  BY <1>1, <1>2, Zenon DEF Arguments
<1>4. Required(m) = {"instance_ids"}
  BY <1>1, <1>2, Zenon DEF Required
<1>5. Optional(m) = {}
  BY <1>1, <1>2, Zenon DEF Optional
<1> QED BY <1>3, <1>4, <1>5

(* What the module about a snapshot is given and requires.                 *)
LEMMA ArgumentsOfSnapshot ==
  ASSUME NEW m, m = "revoke_rds_snapshot_public_access", NEW t, NEW e
  PROVE  /\ Arguments(m, t, e) =
          [snapshot_id   |-> First(t, "snapshot_id", InRequest, e),
           snapshot_type |-> SnapshotType(t, e)]
         /\ Required(m) = {"snapshot_id"} /\ Optional(m) = {"snapshot_type"}
<1>1. m \notin UserModules /\ m \notin BucketModules /\ m \notin RequestModules
  BY RequestModulesNamed DEF UserModules, BucketModules
<1>2. m \notin {"disable_access_key", "disable_role", "block_s3_public_access", "block_s3_object_public_access", "isolate_ec2_instances", "delete_inline_policy", "deauthorize_security_group_rules", "enable_security_hub", "quarantine_s3_bucket"}
  OBVIOUS
<1>3. Arguments(m, t, e) =
          [snapshot_id   |-> First(t, "snapshot_id", InRequest, e),
           snapshot_type |-> SnapshotType(t, e)]
  BY <1>1, <1>2, Zenon DEF Arguments, Snapshot
<1>4. Required(m) = {"snapshot_id"}
  BY <1>1, <1>2, Zenon DEF Required
<1>5. Optional(m) = {"snapshot_type"}
  BY <1>1, <1>2, Zenon DEF Optional
<1> QED BY <1>3, <1>4, <1>5

(* What delete_inline_policy is given and requires.                        *)
LEMMA ArgumentsOfPolicy ==
  ASSUME NEW m, m = "delete_inline_policy", NEW t, NEW e
  PROVE  /\ Arguments(m, t, e) =
          InlinePolicy(t, e)
         /\ Required(m) = {"policy_name"} /\ Optional(m) = Principals
<1>1. m \notin UserModules /\ m \notin BucketModules /\ m \notin RequestModules
  BY RequestModulesNamed DEF UserModules, BucketModules
<1>2. m \notin {"disable_access_key", "disable_role", "block_s3_public_access", "block_s3_object_public_access", "isolate_ec2_instances", "revoke_rds_snapshot_public_access", "deauthorize_security_group_rules", "enable_security_hub", "quarantine_s3_bucket"}
  OBVIOUS
<1>3. Arguments(m, t, e) =
          InlinePolicy(t, e)
  BY <1>1, <1>2, Zenon DEF Arguments
<1>4. Required(m) = {"policy_name"}
  BY <1>1, <1>2, Zenon DEF Required
<1>5. Optional(m) = Principals
  BY <1>1, <1>2, Zenon DEF Optional
<1> QED BY <1>3, <1>4, <1>5

(* What the module about a security group is given and requires.           *)
LEMMA ArgumentsOfGroup ==
  ASSUME NEW m, m = "deauthorize_security_group_rules", NEW t, NEW e
  PROVE  /\ Arguments(m, t, e) =
          GroupRules(t, e)
         /\ Required(m) = {"group_id"} /\ Optional(m) = RuleKeys
<1>1. m \notin UserModules /\ m \notin BucketModules /\ m \notin RequestModules
  BY RequestModulesNamed DEF UserModules, BucketModules
<1>2. m \notin {"disable_access_key", "disable_role", "block_s3_public_access", "block_s3_object_public_access", "isolate_ec2_instances", "revoke_rds_snapshot_public_access", "delete_inline_policy", "enable_security_hub", "quarantine_s3_bucket"}
  OBVIOUS
<1>3. Arguments(m, t, e) =
          GroupRules(t, e)
  BY <1>1, <1>2, Zenon DEF Arguments
<1>4. Required(m) = {"group_id"}
  BY <1>1, <1>2, Zenon DEF Required
<1>5. Optional(m) = RuleKeys
  BY <1>1, <1>2, Zenon DEF Optional
<1> QED BY <1>3, <1>4, <1>5

(* What enable_security_hub is given and requires.                         *)
LEMMA ArgumentsOfHub ==
  ASSUME NEW m, m = "enable_security_hub", NEW t, NEW e
  PROVE  /\ Arguments(m, t, e) =
          Unmapped
         /\ Required(m) = {} /\ Optional(m) = {}
<1>1. m \notin UserModules /\ m \notin BucketModules /\ m \notin RequestModules
  BY RequestModulesNamed DEF UserModules, BucketModules
<1>2. m \notin {"disable_access_key", "disable_role", "block_s3_public_access", "block_s3_object_public_access", "isolate_ec2_instances", "revoke_rds_snapshot_public_access", "delete_inline_policy", "deauthorize_security_group_rules", "quarantine_s3_bucket"}
  OBVIOUS
<1>3. Arguments(m, t, e) =
          Unmapped
  BY <1>1, <1>2, Zenon DEF Arguments
<1>4. Required(m) = {}
  BY <1>1, <1>2, Zenon DEF Required
<1>5. Optional(m) = {}
  BY <1>1, <1>2, Zenon DEF Optional
<1> QED BY <1>3, <1>4, <1>5

(* What the modules about a bucket are given and require.                  *)
LEMMA ArgumentsOfBucket ==
  ASSUME NEW m \in BucketModules, NEW t, NEW e
  PROVE  /\ Arguments(m, t, e) = [bucket_name |-> BucketName(t, e)]
         /\ Required(m) = {"bucket_name"} /\ Optional(m) \subseteq {"account_id"}
<1>1. m \notin UserModules /\ m \notin RequestModules
  BY RequestModulesNamed DEF UserModules, BucketModules
<1>2. m \notin {"disable_access_key", "disable_role", "delete_inline_policy", "block_s3_public_access",
     "block_s3_object_public_access", "isolate_ec2_instances",
     "deauthorize_security_group_rules", "revoke_rds_snapshot_public_access",
     "enable_security_hub"}
  BY DEF BucketModules
<1>3. Arguments(m, t, e) = [bucket_name |-> BucketName(t, e)]
  BY <1>1, <1>2, Zenon DEF Arguments
<1>4. Required(m) = {"bucket_name"}
  BY <1>1, <1>2, Zenon DEF Required
<1>5. CASE m = "quarantine_s3_bucket"
  <2>1. Optional(m) = {"account_id"}
    BY <1>2, <1>5, Zenon DEF Optional
  <2> QED BY <1>3, <1>4, <2>1
<1>6. CASE m # "quarantine_s3_bucket"
  <2>1. Optional(m) = {}
    BY <1>2, <1>6, Zenon DEF Optional
  <2> QED BY <1>3, <1>4, <2>1
<1> QED BY <1>5, <1>6

(* What the modules that read the request are given and require.           *)
LEMMA ArgumentsOfRequest ==
  ASSUME NEW m \in RequestModules, NEW t, NEW e
  PROVE  /\ Arguments(m, t, e) = [k \in DOMAIN Arguments(m, t, e) |-> Arguments(m, t, e)[k]]
         /\ DOMAIN Arguments(m, t, e) = {RequestKey[m]}
         /\ Arguments(m, t, e)[RequestKey[m]] = First(t, RequestKey[m], InRequest, e)
         /\ Required(m) = {RequestKey[m]} /\ Optional(m) = {}
<1>1. m \notin UserModules /\ m \notin BucketModules
  BY RequestModulesNamed DEF UserModules, BucketModules
<1>2. m \notin {"disable_access_key", "disable_role", "delete_inline_policy", "block_s3_public_access",
     "block_s3_object_public_access", "isolate_ec2_instances", "quarantine_s3_bucket",
     "deauthorize_security_group_rules", "revoke_rds_snapshot_public_access",
     "enable_security_hub"}
  BY RequestModulesNamed
<1>3. Arguments(m, t, e) = [k \in {RequestKey[m]} |-> First(t, k, InRequest, e)]
  BY <1>1, <1>2, Zenon DEF Arguments
<1>4. Required(m) = {RequestKey[m]}
  BY <1>1, <1>2, Zenon DEF Required
<1>5. Optional(m) = {}
  BY <1>1, <1>2, Zenon DEF Optional
<1> QED BY <1>3, <1>4, <1>5

(* What a mapping tells of a target that all resolved, whatever the event.  *)
LEMMA MappedTold ==
  ASSUME NEW a, NEW t, t = [k \in DOMAIN a.target |-> {a.target[k]}], NEW k
  PROVE  /\ k \in DOMAIN a.target =>
              /\ Told(t, k) = {a.target[k]} /\ t[k] = {a.target[k]} /\ t # Unmapped
              /\ \A order, e : First(t, k, order, e) = {a.target[k]}
         /\ k \notin DOMAIN a.target => Told(t, k) = {}
<1>1. DOMAIN t = DOMAIN a.target
  OBVIOUS
<1>2. ASSUME k \in DOMAIN a.target
      PROVE  /\ Told(t, k) = {a.target[k]} /\ t[k] = {a.target[k]} /\ t # Unmapped
             /\ \A order, e : First(t, k, order, e) = {a.target[k]}
  <2>1. t[k] = {a.target[k]}
    BY <1>2
  <2>2. Told(t, k) = {a.target[k]} /\ Told(t, k) # {}
    BY <1>1, <1>2, <2>1 DEF Told
  <2>3. DOMAIN Unmapped = {}
    BY DEF Unmapped
  <2>4. t # Unmapped
    BY <1>1, <1>2, <2>3
  <2> QED BY <2>1, <2>2, <2>4 DEF First
<1>3. k \notin DOMAIN a.target => Told(t, k) = {}
  BY <1>1 DEF Told
<1> QED BY <1>2, <1>3

(* The arguments name nothing that action a does not map, except for the    *)
(* type of a snapshot, and not that either when it is mapped.              *)
Stays(a, args) ==
  LET mapped == {a.target[k] : k \in DOMAIN a.target} IN
    /\ \A k \in DOMAIN args \ {"snapshot_type"} : args[k] \subseteq mapped
    /\ "snapshot_type" \in DOMAIN a.target =>
         Told(args, "snapshot_type") = {a.target["snapshot_type"]}

(* Each argument is the mapped target, or is empty.                        *)
LEMMA StaysByArgument ==
  ASSUME NEW a, NEW args, "snapshot_type" \notin DOMAIN a.target,
         \A k \in DOMAIN args :
           \/ args[k] = {}
           \/ \E j \in DOMAIN a.target : args[k] = {a.target[j]}
  PROVE  Stays(a, args)
BY DEF Stays

(* The arguments of a valid action whose targets all resolved stay within  *)
(* what the rule mapped.                                                   *)
LEMMA MappedArguments ==
  ASSUME NEW a, ValidAction(a), NEW e, NEW t, t = [k \in DOMAIN a.target |-> {a.target[k]}]
  PROVE  Stays(a, Arguments(a.module, t, e))
<1> DEFINE m == a.module
           given == DOMAIN a.target
           args == Arguments(m, t, e)
<1>1. m \in Modules /\ Required(m) \subseteq given /\ given \subseteq Required(m) \cup Optional(m)
  BY DEF ValidAction
<1>2. \A k \in given : \A order : First(t, k, order, e) = {a.target[k]}
  BY MappedTold
<1>3. \A k \in given : Told(t, k) = {a.target[k]} /\ t[k] = {a.target[k]} /\ t # Unmapped
  BY MappedTold
<1>4. \A k : k \notin given => Told(t, k) = {}
  BY MappedTold
<1> HIDE DEF m, given
<1>5. CASE m \in UserModules
  <2>1. args = [user_name |-> UserName(t, e)] /\ given = {"user_name"}
    BY <1>1, <1>5, ArgumentsOfUser
  <2>2. UserName(t, e) = {a.target["user_name"]}
    BY <1>2, <2>1 DEF UserName
  <2> HIDE DEF args
  <2> QED BY <2>1, <2>2, StaysByArgument DEF given, args, m
<1>6. CASE m \in BucketModules
  <2>1. /\ args = [bucket_name |-> BucketName(t, e)]
        /\ "bucket_name" \in given /\ given \subseteq {"bucket_name", "account_id"}
    BY <1>1, <1>6, ArgumentsOfBucket
  <2>2. BucketName(t, e) = {a.target["bucket_name"]}
    BY <1>2, <2>1 DEF BucketName
  <2> HIDE DEF args
  <2> QED BY <2>1, <2>2, StaysByArgument DEF given, args, m
<1>7. CASE m \in RequestModules
  <2> DEFINE key == RequestKey[m]
  <2>1. /\ DOMAIN args = {key} /\ args[key] = First(t, key, InRequest, e)
        /\ Required(m) = {key} /\ Optional(m) = {}
    BY <1>7, ArgumentsOfRequest
  <2>2. key # "snapshot_type"
    <3>1. m \in {"disable_lambda_function", "disable_secrets_manager_secret",
                 "enable_cloudtrail_logging", "enable_guardduty_detector",
                 "start_config_recorder"}
      BY <1>7, RequestModulesNamed
    <3>2. /\ RequestKey["disable_lambda_function"] = "function_name"
          /\ RequestKey["disable_secrets_manager_secret"] = "secret_id"
          /\ RequestKey["enable_cloudtrail_logging"] = "trail_name"
          /\ RequestKey["enable_guardduty_detector"] = "detector_id"
          /\ RequestKey["start_config_recorder"] = "recorder_name"
      BY DEF RequestKey
    <3> QED BY <3>1, <3>2
  <2> HIDE DEF key, args
  <2>3. given = {key}
    BY <1>1, <2>1
  <2>4. args[key] = {a.target[key]}
    BY <1>2, <2>1, <2>3
  <2> QED BY <2>1, <2>2, <2>3, <2>4, StaysByArgument DEF given, args, m
<1>8. CASE m = "disable_access_key"
  <2>1. /\ args = [user_name     |-> First(t, "user_name", <<"response", "identity", "resources">>, e),
                   access_key_id |-> First(t, "access_key_id", <<"response", "resources">>, e)]
        /\ given = {"user_name", "access_key_id"}
    BY <1>1, <1>8, ArgumentsOfAccessKey
  <2>2. args = [user_name |-> {a.target["user_name"]}, access_key_id |-> {a.target["access_key_id"]}]
    <3> HIDE DEF args
    <3> QED BY <1>2, <2>1
  <2> HIDE DEF args
  <2> QED BY <2>1, <2>2, StaysByArgument DEF given, args, m
<1>9. CASE m = "disable_role"
  <2>1. /\ args = [role_name |-> First(t, "role_name", <<"value">> \o InRequest, e)]
        /\ given = {"role_name"}
    BY <1>1, <1>9, ArgumentsOfRole
  <2>2. args = [role_name |-> {a.target["role_name"]}]
    <3> HIDE DEF args
    <3> QED BY <1>2, <2>1
  <2> HIDE DEF args
  <2> QED BY <2>1, <2>2, StaysByArgument DEF given, args, m
<1>10. CASE m = "block_s3_public_access"
  <2>1. args = [account_id |-> AccountId(t, e)] /\ given = {"account_id"}
    BY <1>1, <1>10, ArgumentsOfPublicAccess
  <2>2. AccountId(t, e) = {a.target["account_id"]}
    BY <1>2, <2>1 DEF AccountId
  <2> HIDE DEF args
  <2> QED BY <2>1, <2>2, StaysByArgument DEF given, args, m
<1>11. CASE m = "block_s3_object_public_access"
  <2>1. /\ args = [bucket_name |-> BucketName(t, e), key |-> First(t, "key", InRequest, e)]
        /\ given = {"bucket_name", "key"}
    BY <1>1, <1>11, ArgumentsOfObject
  <2>2. /\ BucketName(t, e) = {a.target["bucket_name"]}
        /\ First(t, "key", InRequest, e) = {a.target["key"]}
    BY <1>2, <2>1 DEF BucketName
  <2> HIDE DEF args
  <2> QED BY <2>1, <2>2, StaysByArgument DEF given, args, m
<1>12. CASE m = "isolate_ec2_instances"
  <2>1. args = [instance_ids |-> InstanceIds(t, e)] /\ given = {"instance_ids"}
    BY <1>1, <1>12, ArgumentsOfInstances
  <2>2. InstanceIds(t, e) = {a.target["instance_ids"]}
    <3>1. Told(t, "instance_ids") # {} /\ t["instance_ids"] = {a.target["instance_ids"]}
      BY <1>3, <2>1
    <3> QED BY <3>1, Zenon DEF InstanceIds
  <2> HIDE DEF args
  <2> QED BY <2>1, <2>2, StaysByArgument DEF given, args, m
<1>13. CASE m = "enable_security_hub"
  <2>1. args = Unmapped /\ given = {}
    BY <1>1, <1>13, ArgumentsOfHub
  <2>2. DOMAIN args = {}
    BY <2>1 DEF Unmapped
  <2> HIDE DEF args
  <2> QED BY <2>1, <2>2, StaysByArgument DEF given, args, m
<1>14. CASE m = "revoke_rds_snapshot_public_access"
  <2>1. /\ args = [snapshot_id   |-> First(t, "snapshot_id", InRequest, e),
                   snapshot_type |-> SnapshotType(t, e)]
        /\ "snapshot_id" \in given /\ given \subseteq {"snapshot_id", "snapshot_type"}
    BY <1>1, <1>14, ArgumentsOfSnapshot
  <2>2. First(t, "snapshot_id", InRequest, e) = {a.target["snapshot_id"]}
    BY <1>2, <2>1
  <2>3. "snapshot_type" \in given => SnapshotType(t, e) = {a.target["snapshot_type"]}
    <3> SUFFICES ASSUME "snapshot_type" \in given
                 PROVE  SnapshotType(t, e) = {a.target["snapshot_type"]}
      OBVIOUS
    <3>1. /\ Told(t, "snapshot_type") # {} /\ Told(t, "snapshot_id") # {}
          /\ t["snapshot_type"] = {a.target["snapshot_type"]}
      BY <1>3, <2>1
    <3> QED BY <3>1, Zenon DEF SnapshotType
  <2> HIDE DEF args
  <2>4. /\ DOMAIN args = {"snapshot_id", "snapshot_type"}
        /\ args["snapshot_id"] = {a.target["snapshot_id"]}
        /\ args["snapshot_type"] = SnapshotType(t, e)
    BY <2>1, <2>2
  <2>5. Told(args, "snapshot_type") = SnapshotType(t, e)
    BY <2>4 DEF Told
  <2> QED BY <2>1, <2>3, <2>4, <2>5 DEF Stays, given, args, m
<1>15. CASE m = "delete_inline_policy"
  <2>1. args = InlinePolicy(t, e) /\ "policy_name" \in given
        /\ given \subseteq {"policy_name"} \cup Principals
    BY <1>1, <1>15, ArgumentsOfPolicy
  <2>2. t # Unmapped
    BY <1>3, <2>1
  <2> DEFINE Either(k) == IF t = Unmapped THEN Found(InRequest, e) ELSE Told(t, k)
             Named(k, activity) ==
               IF Told(t, "principal_name") # {} /\ e.activity = activity THEN t.principal_name
               ELSE IF t = Unmapped /\ e.activity # activity THEN {}
               ELSE Either(k)
  <2>3. args = [user_name   |-> Named("user_name", "PutUserPolicy"),
                role_name   |-> Named("role_name", "PutRolePolicy"),
                policy_name |-> Either("policy_name")]
    BY <2>1 DEF InlinePolicy
  <2>4. /\ \A k : Either(k) = Told(t, k)
        /\ \A k, activity : Named(k, activity) \in {Told(t, k), Told(t, "principal_name")}
    BY <1>3, <1>4, <2>2
  <2> HIDE DEF Named, Either, args
  <2>5. \A k \in DOMAIN args : \E j : args[k] = Told(t, j)
    <3>1. /\ DOMAIN args = {"user_name", "role_name", "policy_name"}
          /\ args["user_name"] = Named("user_name", "PutUserPolicy")
          /\ args["role_name"] = Named("role_name", "PutRolePolicy")
          /\ args["policy_name"] = Told(t, "policy_name")
      BY <2>3, <2>4
    <3>2. /\ \E j : args["user_name"] = Told(t, j)
          /\ \E j : args["role_name"] = Told(t, j)
          /\ \E j : args["policy_name"] = Told(t, j)
      BY <2>4, <3>1
    <3> QED BY <3>1, <3>2, Zenon
  <2>6. "snapshot_type" \notin given
    BY <2>1 DEF Principals
  <2> QED BY <1>3, <1>4, <2>5, <2>6, StaysByArgument DEF given, args, m
<1>16. CASE m = "deauthorize_security_group_rules"
  <2>1. args = GroupRules(t, e) /\ "group_id" \in given
        /\ given \subseteq {"group_id"} \cup RuleKeys
    BY <1>1, <1>16, ArgumentsOfGroup
  <2>2. t # Unmapped
    BY <1>3, <2>1
  <2> DEFINE Group == IF t = Unmapped THEN Found(InRequest, e) ELSE Told(t, "group_id")
             Side(k, activity) ==
               IF e.activity = activity
               THEN IF t = Unmapped THEN Found(InRequest, e)
                    ELSE IF Told(t, "rules") # {} THEN t.rules ELSE Told(t, k)
               ELSE Told(t, k)
  <2>3. args = [group_id      |-> Group,
                ingress_rules |-> Side("ingress_rules", "AuthorizeSecurityGroupIngress"),
                egress_rules  |-> Side("egress_rules", "AuthorizeSecurityGroupEgress")]
    BY <2>1 DEF GroupRules
  <2>4. /\ Group = Told(t, "group_id")
        /\ \A k, activity : Side(k, activity) \in {Told(t, k), Told(t, "rules")}
    BY <1>3, <1>4, <2>2
  <2> HIDE DEF Group, Side, args
  <2>5. \A k \in DOMAIN args : \E j : args[k] = Told(t, j)
    <3>1. /\ DOMAIN args = {"group_id", "ingress_rules", "egress_rules"}
          /\ args["group_id"] = Told(t, "group_id")
          /\ args["ingress_rules"] = Side("ingress_rules", "AuthorizeSecurityGroupIngress")
          /\ args["egress_rules"] = Side("egress_rules", "AuthorizeSecurityGroupEgress")
      BY <2>3, <2>4
    <3>2. \E j : args["group_id"] = Told(t, j)
      BY <3>1
    <3>3. \E j : args["ingress_rules"] = Told(t, j)
      <4> DEFINE x == args["ingress_rules"]
      <4>1. x = Told(t, "ingress_rules") \/ x = Told(t, "rules")
        BY <2>4, <3>1
      <4> HIDE DEF x
      <4>2. \E j : x = Told(t, j)
        BY <4>1
      <4> QED
        BY <4>2 DEF x
    <3>4. \E j : args["egress_rules"] = Told(t, j)
      <4> DEFINE x == args["egress_rules"]
      <4>1. x = Told(t, "egress_rules") \/ x = Told(t, "rules")
        BY <2>4, <3>1
      <4> HIDE DEF x
      <4>2. \E j : x = Told(t, j)
        BY <4>1
      <4> QED
        BY <4>2 DEF x
    <3> QED BY <3>1, <3>2, <3>3, <3>4, Zenon
  <2>6. "snapshot_type" \notin given
    BY <2>1 DEF RuleKeys
  <2> QED BY <1>3, <1>4, <2>5, <2>6, StaysByArgument DEF given, args, m
<1> QED BY <1>1, <1>5, <1>6, <1>7, <1>8, <1>9, <1>10, <1>11, <1>12, <1>13, <1>14, <1>15, <1>16
        DEF Modules

(* What the undo of a module is given is what its action was given, or the  *)
(* instances that were captured.                                           *)
LEMMA UndoMatches ==
  ASSUME NEW m \in Undoable, NEW t, NEW e, NEW captured, NEW x,
         x.module = m, x.args = Arguments(m, t, e), x.captured = captured,
         captured \subseteq Restorable(m, Arguments(m, t, e))
  PROVE  Restores(UndoArguments(m, t, e, captured), x)
<1> DEFINE args == Arguments(m, t, e)
           undo == UndoArguments(m, t, e, captured)
<1> HIDE DEF args, undo
<1>1. m \in {"disable_user", "revoke_active_sessions", "disable_access_key", "disable_role",
             "delete_inline_policy", "block_s3_public_access", "block_s3_object_public_access",
             "isolate_ec2_instances", "deauthorize_security_group_rules",
             "revoke_rds_snapshot_public_access", "block_s3_bucket_public_access",
             "quarantine_s3_bucket", "disable_lambda_function", "disable_secrets_manager_secret"}
  BY RequestModulesNamed DEF Undoable, Modules, UserModules, BucketModules
<1>2. ASSUME m # "isolate_ec2_instances", undo = args
      PROVE  Restores(undo, x)
  BY <1>2 DEF Restores, args
<1>3. CASE m \in {"disable_user", "revoke_active_sessions"}
  <2>1. m \in UserModules /\ m # "isolate_ec2_instances"
    BY <1>3 DEF UserModules
  <2>2. undo = [user_name |-> UserName(t, e)]
    <3>1. m \notin {"disable_access_key", "deauthorize_security_group_rules",
                    "disable_secrets_manager_secret", "disable_role", "quarantine_s3_bucket",
                    "block_s3_bucket_public_access", "isolate_ec2_instances",
                    "block_s3_public_access", "block_s3_object_public_access",
                    "disable_lambda_function", "revoke_rds_snapshot_public_access",
                    "delete_inline_policy"}
      BY <1>3
    <3> QED BY <1>3, <3>1, Zenon DEF undo, UndoArguments
  <2> QED BY <1>2, <2>1, <2>2, ArgumentsOfUser DEF args, undo
<1>4. CASE m = "disable_access_key"
  <2>1. m \notin {"revoke_active_sessions", "disable_user",
               "deauthorize_security_group_rules", "disable_secrets_manager_secret",
               "disable_role", "quarantine_s3_bucket",
               "block_s3_bucket_public_access", "isolate_ec2_instances",
               "block_s3_public_access", "block_s3_object_public_access",
               "disable_lambda_function", "revoke_rds_snapshot_public_access",
               "delete_inline_policy"}
    BY <1>4
  <2>2. undo = AccessKey(t, e)
    BY <1>4, <2>1, Zenon DEF undo, UndoArguments
  <2> QED BY <1>2, <1>4, <2>2, ArgumentsOfAccessKey DEF args, undo, AccessKey
<1>5. CASE m = "deauthorize_security_group_rules"
  <2>1. m \notin {"disable_access_key", "revoke_active_sessions", "disable_user",
               "disable_secrets_manager_secret", "disable_role",
               "quarantine_s3_bucket", "block_s3_bucket_public_access",
               "isolate_ec2_instances", "block_s3_public_access",
               "block_s3_object_public_access", "disable_lambda_function",
               "revoke_rds_snapshot_public_access", "delete_inline_policy"}
    BY <1>5
  <2>2. undo = GroupRules(t, e)
    BY <1>5, <2>1, Zenon DEF undo, UndoArguments
  <2> QED BY <1>2, <1>5, <2>2, ArgumentsOfGroup DEF args, undo
<1>6. CASE m = "disable_role"
  <2>1. m \notin {"disable_access_key", "revoke_active_sessions", "disable_user",
               "deauthorize_security_group_rules", "disable_secrets_manager_secret",
               "quarantine_s3_bucket", "block_s3_bucket_public_access",
               "isolate_ec2_instances", "block_s3_public_access",
               "block_s3_object_public_access", "disable_lambda_function",
               "revoke_rds_snapshot_public_access", "delete_inline_policy"}
    BY <1>6
  <2>2. undo = [role_name |-> RoleName(t, e)]
    BY <1>6, <2>1, Zenon DEF undo, UndoArguments
  <2> QED BY <1>2, <1>6, <2>2, ArgumentsOfRole DEF args, undo, RoleName
<1>7. CASE m = "block_s3_public_access"
  <2>1. m \notin {"disable_access_key", "revoke_active_sessions", "disable_user",
               "deauthorize_security_group_rules", "disable_secrets_manager_secret",
               "disable_role", "quarantine_s3_bucket",
               "block_s3_bucket_public_access", "isolate_ec2_instances",
               "block_s3_object_public_access", "disable_lambda_function",
               "revoke_rds_snapshot_public_access", "delete_inline_policy"}
    BY <1>7
  <2>2. undo = [account_id |-> AccountId(t, e)]
    BY <1>7, <2>1, Zenon DEF undo, UndoArguments
  <2> QED BY <1>2, <1>7, <2>2, ArgumentsOfPublicAccess DEF args, undo
<1>8. CASE m = "block_s3_object_public_access"
  <2>1. m \notin {"disable_access_key", "revoke_active_sessions", "disable_user",
               "deauthorize_security_group_rules", "disable_secrets_manager_secret",
               "disable_role", "quarantine_s3_bucket",
               "block_s3_bucket_public_access", "isolate_ec2_instances",
               "block_s3_public_access", "disable_lambda_function",
               "revoke_rds_snapshot_public_access", "delete_inline_policy"}
    BY <1>8
  <2>2. undo = BucketAndKey(t, e)
    BY <1>8, <2>1, Zenon DEF undo, UndoArguments
  <2> QED BY <1>2, <1>8, <2>2, ArgumentsOfObject DEF args, undo, BucketAndKey
<1>9. CASE m = "revoke_rds_snapshot_public_access"
  <2>1. m \notin {"disable_access_key", "revoke_active_sessions", "disable_user",
               "deauthorize_security_group_rules", "disable_secrets_manager_secret",
               "disable_role", "quarantine_s3_bucket",
               "block_s3_bucket_public_access", "isolate_ec2_instances",
               "block_s3_public_access", "block_s3_object_public_access",
               "disable_lambda_function", "delete_inline_policy"}
    BY <1>9
  <2>2. undo = Snapshot(t, e)
    BY <1>9, <2>1, Zenon DEF undo, UndoArguments
  <2> QED BY <1>2, <1>9, <2>2, ArgumentsOfSnapshot DEF args, undo, Snapshot
<1>10. CASE m = "delete_inline_policy"
  <2>1. m \notin {"disable_access_key", "revoke_active_sessions", "disable_user",
               "deauthorize_security_group_rules", "disable_secrets_manager_secret",
               "disable_role", "quarantine_s3_bucket",
               "block_s3_bucket_public_access", "isolate_ec2_instances",
               "block_s3_public_access", "block_s3_object_public_access",
               "disable_lambda_function", "revoke_rds_snapshot_public_access"}
    BY <1>10
  <2>2. undo = InlinePolicy(t, e)
    BY <1>10, <2>1, Zenon DEF undo, UndoArguments
  <2> QED BY <1>2, <1>10, <2>2, ArgumentsOfPolicy DEF args, undo
<1>11. CASE m \in BucketModules
  <2>1. /\ m \in {"quarantine_s3_bucket", "block_s3_bucket_public_access"}
        /\ m \notin {"disable_access_key", "revoke_active_sessions", "disable_user",
               "deauthorize_security_group_rules", "disable_secrets_manager_secret",
               "disable_role", "isolate_ec2_instances", "block_s3_public_access",
               "block_s3_object_public_access", "disable_lambda_function",
               "revoke_rds_snapshot_public_access", "delete_inline_policy"}
    BY <1>11 DEF BucketModules
  <2>2. undo = [bucket_name |-> BucketName(t, e)]
    BY <2>1, Zenon DEF undo, UndoArguments
  <2> QED BY <1>2, <1>11, <2>1, <2>2, ArgumentsOfBucket DEF args, undo
<1>12. CASE m = "disable_lambda_function"
  <2>1. m \notin {"disable_access_key", "revoke_active_sessions", "disable_user",
               "deauthorize_security_group_rules", "disable_secrets_manager_secret",
               "disable_role", "quarantine_s3_bucket",
               "block_s3_bucket_public_access", "isolate_ec2_instances",
               "block_s3_public_access", "block_s3_object_public_access",
               "revoke_rds_snapshot_public_access", "delete_inline_policy"}
    BY <1>12
  <2>2. undo = [function_name |-> First(t, "function_name", InRequest, e)]
    BY <1>12, <2>1, Zenon DEF undo, UndoArguments
  <2>3. m \in RequestModules /\ RequestKey[m] = "function_name" /\ m # "isolate_ec2_instances"
    BY <1>12, RequestModulesNamed DEF RequestKey
  <2>4. /\ DOMAIN args = {"function_name"} /\ args["function_name"] = First(t, "function_name", InRequest, e)
        /\ args = [j \in DOMAIN args |-> args[j]]
    BY <2>3, ArgumentsOfRequest DEF args
  <2>5. undo = args
    BY <2>2, <2>4
  <2> QED BY <1>2, <2>3, <2>5 DEF undo
<1>13. CASE m = "disable_secrets_manager_secret"
  <2>1. m \notin {"disable_access_key", "revoke_active_sessions", "disable_user",
               "deauthorize_security_group_rules", "disable_role",
               "quarantine_s3_bucket", "block_s3_bucket_public_access",
               "isolate_ec2_instances", "block_s3_public_access",
               "block_s3_object_public_access", "disable_lambda_function",
               "revoke_rds_snapshot_public_access", "delete_inline_policy"}
    BY <1>13
  <2>2. undo = [secret_id |-> First(t, "secret_id", InRequest, e)]
    BY <1>13, <2>1, Zenon DEF undo, UndoArguments
  <2>3. m \in RequestModules /\ RequestKey[m] = "secret_id" /\ m # "isolate_ec2_instances"
    BY <1>13, RequestModulesNamed DEF RequestKey
  <2>4. /\ DOMAIN args = {"secret_id"} /\ args["secret_id"] = First(t, "secret_id", InRequest, e)
        /\ args = [j \in DOMAIN args |-> args[j]]
    BY <2>3, ArgumentsOfRequest DEF args
  <2>5. undo = args
    BY <2>2, <2>4
  <2> QED BY <1>2, <2>3, <2>5 DEF undo
<1>14. CASE m = "isolate_ec2_instances"
  <2>1. m \notin {"disable_access_key", "revoke_active_sessions", "disable_user",
               "deauthorize_security_group_rules", "disable_secrets_manager_secret",
               "disable_role", "quarantine_s3_bucket",
               "block_s3_bucket_public_access", "block_s3_public_access",
               "block_s3_object_public_access", "disable_lambda_function",
               "revoke_rds_snapshot_public_access", "delete_inline_policy"}
    BY <1>14
  <2>2. undo = [instance_ids |-> captured]
    BY <1>14, <2>1, Zenon DEF undo, UndoArguments
  <2>3. captured \subseteq args.instance_ids
    BY <1>14 DEF Restorable, args
  <2> QED BY <1>14, <2>2, <2>3 DEF Restores, args, undo
<1> QED BY <1>1, <1>3, <1>4, <1>5, <1>6, <1>7, <1>8, <1>9, <1>10, <1>11, <1>12, <1>13, <1>14 DEF undo, BucketModules

-----------------------------------------------------------------------------
(* Actions, records and undos                                              *)

USE TargetsAssumption DEF TargetsAssumption

(* The actions of an alert are resolved one by one, in order.              *)
LEMMA ResolvedIsSequence ==
  ASSUME NEW r \in Responses, NEW e
  PROVE  LET rs == ResolvedActions(r, e) IN
           /\ Len(rs) \in Nat /\ DOMAIN rs = 1..Len(rs)
           /\ r.kind = "mapped" => /\ DOMAIN rs = DOMAIN r.actions
                                   /\ \A i \in DOMAIN rs : /\ ValidAction(r.actions[i])
                                                           /\ rs[i] = ResolvedAction(r.actions[i], e)
<1> DEFINE rs == ResolvedActions(r, e)
<1>1. CASE r.kind = "legacy"
  <2>1. rs = <<Untargeted(r.module)>>
    BY <1>1 DEF ResolvedActions
  <2>2. r.kind # "mapped"
    BY <1>1
  <2> HIDE DEF rs
  <2> QED BY <2>1, <2>2 DEF rs
<1>2. CASE r.kind # "legacy"
  <2>1. PICK n \in 1..10 : r.kind = "mapped" /\ DOMAIN r.actions = 1..n
    BY <1>2
  <2>2. \A i \in DOMAIN r.actions : ValidAction(r.actions[i])
    BY <1>2
  <2>3. rs = [i \in 1..n |-> ResolvedAction(r.actions[i], e)]
    BY <1>2, <2>1 DEF ResolvedActions
  <2> HIDE DEF rs
  <2> DEFINE S == {ResolvedAction(r.actions[i], e) : i \in 1..n}
  <2>4. rs \in [1..n -> S]
    BY <2>3
  <2>5. rs \in Seq(S)
    <3>1. n \in Nat
      OBVIOUS
    <3> HIDE DEF S
    <3> QED BY <2>4, <3>1, IsASeq
  <2>6. Len(rs) \in Nat /\ DOMAIN rs = 1..Len(rs)
    BY <2>5, LenProperties
  <2>7. DOMAIN rs = 1..n /\ \A i \in 1..n : rs[i] = ResolvedAction(r.actions[i], e)
    BY <2>3
  <2>8. /\ DOMAIN rs = DOMAIN r.actions
        /\ \A i \in DOMAIN rs : /\ ValidAction(r.actions[i])
                                /\ rs[i] = ResolvedAction(r.actions[i], e)
    BY <2>1, <2>2, <2>7
  <2> QED BY <2>6, <2>8, Zenon DEF rs
<1> QED BY <1>1, <1>2

(* The action of an index, and what is recorded of it.                     *)
ActedInv ==
  /\ \A x \in acted :
       /\ x.index \in Indices /\ ~incident.failed /\ ~incident.foreign /\ ~resolved[x.index].error
       /\ x.module = resolved[x.index].module
       /\ x.account = AccountId(resolved[x.index].target, incident)
       /\ x.args = Arguments(x.module, resolved[x.index].target, incident)
  /\ \A x, y \in acted : x.index = y.index => x = y

Undoes(u, x) ==
  /\ x.index = u.id /\ x.module = u.module /\ x.account = u.account
  /\ Restores(u.args, x)
  /\ x.module \in NeedsNoState \/ x.captured # {}

RecordsInv ==
  /\ \A r \in records : r.supported => \E x \in acted : Undoes(r, x)
  /\ \A u \in undone : \E x \in acted : Undoes(u, x)

TargetInv == TargetTypeOK /\ ActedInv /\ RecordsInv

(* What is acted upon and recorded is of the action that is next.          *)
LEMMA RespondStep ==
  ASSUME TargetInv, Respond
  PROVE  TargetInv'
<1> USE DEF TargetInv, TargetTypeOK
<1> DEFINE a == resolved[next]
           account == AccountId(a.target, incident)
           args == Arguments(a.module, a.target, incident)
<1>1. /\ next \in Indices /\ ~Skipped(next) /\ next' = next + 1
      /\ UNCHANGED <<matched, incident, resolved, undone>>
  BY DEF Respond, alert
<1>2. PICK captured \in SUBSET Restorable(a.module, args), recorded \in BOOLEAN :
        LET entry == [id |-> next, module |-> a.module, account |-> account,
                       args |-> UndoArguments(a.module, a.target, incident, captured),
                       supported |-> Supported(a.module, captured)]
        IN /\ acted' = acted \cup {[index |-> next, module |-> a.module, account |-> account,
                                    args |-> args, captured |-> captured]}
           /\ records' = IF recorded /\ a.module \in Undoable
                         THEN {x \in records : x.id # entry.id} \cup {entry} ELSE records
  BY Zenon DEF Respond, ActionId
<1> DEFINE new == [index |-> next, module |-> a.module, account |-> account, args |-> args,
                   captured |-> captured]
           supported == Supported(a.module, captured)
           undo == UndoArguments(a.module, a.target, incident, captured)
           entry == [id |-> next, module |-> a.module, account |-> account, args |-> undo,
                      supported |-> supported]
<1> HIDE DEF account, args, undo
<1>3. /\ new.index = next /\ new.module = a.module /\ new.account = account /\ new.args = args
      /\ new.captured = captured
  OBVIOUS
<1>4. supported \in BOOLEAN /\ (supported <=> a.module \in NeedsNoState \/ captured # {})
  BY DEF Supported
<1> HIDE DEF supported
<1>5. /\ entry.id = next /\ entry.module = a.module /\ entry.account = account
      /\ entry.args = undo /\ (entry.supported <=> supported) /\ entry.supported \in BOOLEAN
  BY <1>4
<1> HIDE DEF new, entry
<1>6. /\ acted' = acted \cup {new}
      /\ \/ records' = records
         \/ a.module \in Undoable /\ records' = {x \in records : x.id # next} \cup {entry}
  BY <1>2, <1>5 DEF new, entry, supported, undo
<1>7. /\ ~incident.foreign /\ ~incident.failed /\ ~a.error
      /\ \A x \in acted : x.index # next
  BY <1>1 DEF Skipped, Executed
<1>8. TargetTypeOK'
  <2>1. Indices = 1..Len(resolved) /\ Len(resolved) \in Nat
    BY ResolvedIsSequence DEF Indices
  <2>2. next' \in 1..(Len(resolved) + 1)
    <3> DEFINE n == Len(resolved)
    <3>1. n \in Nat /\ next \in 1..n /\ next' = next + 1
      BY <1>1, <2>1
    <3> HIDE DEF n
    <3>2. next' \in 1..(n + 1)
      BY <3>1
    <3> QED BY <3>2 DEF n
  <2>3. \A x \in acted' : x.index \in Indices /\ x.module = resolved[x.index].module
    BY <1>1, <1>3, <1>6
  <2>4. \A x \in records' : x.supported \in BOOLEAN /\ x.module \in Undoable
    BY <1>5, <1>6
  <2>5. \A x \in undone : \E y \in records' : y.id = x.id
    <3> SUFFICES ASSUME NEW x \in undone
                 PROVE  \E y \in records' : y.id = x.id
      OBVIOUS
    <3>1. PICK y \in records : y.id = x.id
      OBVIOUS
    <3> QED BY <1>5, <1>6, <3>1
  <2> QED BY <1>1, <2>2, <2>3, <2>4, <2>5 DEF Indices
<1>9. ActedInv'
  <2>1. /\ new.index \in Indices
        /\ new.account = AccountId(resolved[new.index].target, incident)
        /\ new.args = Arguments(new.module, resolved[new.index].target, incident)
    BY <1>1, <1>3 DEF account, args
  <2> QED BY <1>1, <1>3, <1>6, <1>7, <2>1 DEF ActedInv, Indices
<1>10. RecordsInv'
  <2>1. ASSUME a.module \in Undoable, entry.supported
        PROVE  Undoes(entry, new)
    <3>1. Restores(undo, new)
      BY <1>2, <1>3, <2>1, UndoMatches DEF undo, args
    <3> QED BY <1>3, <1>4, <1>5, <2>1, <3>1 DEF Undoes
  <2>2. \A r \in records' : r.supported => \E x \in acted' : Undoes(r, x)
    BY <1>6, <2>1 DEF RecordsInv
  <2>3. \A u \in undone' : \E x \in acted' : Undoes(u, x)
    BY <1>1, <1>6 DEF RecordsInv
  <2> QED BY <2>2, <2>3 DEF RecordsInv
<1> QED BY <1>8, <1>9, <1>10

(* An undo is of a recorded action, with its arguments.                    *)
LEMMA RollBackStep ==
  ASSUME TargetInv, RollBack
  PROVE  TargetInv'
<1> USE DEF TargetInv, TargetTypeOK
<1>1. UNCHANGED <<matched, incident, resolved, next, acted, records>>
  BY DEF RollBack, alert
<1>2. PICK x \in records :
        /\ x.supported
        /\ undone' = undone \cup
             {[id |-> x.id, module |-> x.module, account |-> x.account, args |-> x.args]}
  BY DEF RollBack
<1> DEFINE u == [id |-> x.id, module |-> x.module, account |-> x.account, args |-> x.args]
<1>3. u.id = x.id /\ u.module = x.module /\ u.account = x.account /\ u.args = x.args
  OBVIOUS
<1> HIDE DEF u
<1>4. undone' = undone \cup {u}
  BY <1>2 DEF u
<1>5. PICK y \in acted : Undoes(x, y)
  BY <1>2 DEF RecordsInv
<1>6. Undoes(u, y)
  BY <1>3, <1>5 DEF Undoes
<1>7. TargetTypeOK'
  BY <1>1, <1>3, <1>4 DEF Indices
<1>8. ActedInv'
  BY <1>1 DEF ActedInv, Indices
<1>9. RecordsInv'
  BY <1>1, <1>4, <1>6 DEF RecordsInv
<1> QED BY <1>7, <1>8, <1>9

(* The invariant holds of every behaviour of the response actions.         *)
LEMMA TargetInvariant == TargetSpec => []TargetInv
<1> USE DEF TargetInv, TargetTypeOK
<1>1. TargetInit => TargetInv
  <2> SUFFICES ASSUME TargetInit PROVE TargetInv
    OBVIOUS
  <2>1. Len(resolved) \in Nat
    BY ResolvedIsSequence DEF TargetInit
  <2> DEFINE n == Len(resolved)
  <2> HIDE DEF n
  <2>2. n \in Nat => 1 \in 1..(n + 1)
    OBVIOUS
  <2>3. next \in 1..(Len(resolved) + 1)
    BY <2>1, <2>2 DEF n, TargetInit
  <2> QED BY <2>3 DEF TargetInit, ActedInv, RecordsInv
<1>2. TargetInv /\ [TargetNext]_targetVars => TargetInv'
  <2> SUFFICES ASSUME TargetInv, [TargetNext]_targetVars
               PROVE  TargetInv'
    OBVIOUS
  <2>1. ASSUME UNCHANGED <<matched, incident, resolved, acted, records, undone>>,
               next' \in 1..(Len(resolved) + 1)
        PROVE  TargetInv'
    BY <2>1 DEF ActedInv, RecordsInv, Indices
  <2>2. Len(resolved) \in Nat /\ Indices = 1..Len(resolved)
    BY ResolvedIsSequence DEF Indices
  <2> DEFINE n == Len(resolved)
  <2>3. n \in Nat /\ Indices = 1..n
    BY <2>2
  <2>4. CASE Skip
    <3>1. next \in 1..n /\ next' = next + 1
      BY <2>3, <2>4 DEF Skip
    <3> HIDE DEF n
    <3>2. next' \in 1..(n + 1)
      BY <2>3, <3>1
    <3>3. UNCHANGED <<matched, incident, resolved, acted, records, undone>>
      BY <2>4 DEF Skip, alert
    <3> QED BY <2>1, <3>2, <3>3 DEF n
  <2>5. CASE Again
    <3>1. next' = 1
      BY <2>5 DEF Again
    <3> HIDE DEF n
    <3>2. next' \in 1..(n + 1)
      BY <2>3, <3>1
    <3>3. UNCHANGED <<matched, incident, resolved, acted, records, undone>>
      BY <2>5 DEF Again, alert
    <3> QED BY <2>1, <3>2, <3>3 DEF n
  <2>6. CASE UNCHANGED targetVars
    BY <2>1, <2>6 DEF targetVars
  <2> QED BY <2>4, <2>5, <2>6, RespondStep, RollBackStep DEF TargetNext
<1> QED BY <1>1, <1>2, PTL DEF TargetSpec

(* An alert's actions, the calls made for them by responder.py, their      *)
(* rollback records and their undos keep their shape.                      *)
THEOREM TargetTypesHold == TargetSpec => []TargetTypeOK
<1>1. TargetInv => TargetTypeOK
  BY DEF TargetInv
<1> QED BY <1>1, TargetInvariant, PTL

(* An executed action whose rule maps its targets is about these targets,   *)
(* all of which resolved (resolve_response_actions and the extractors of     *)
(* the responder).                                                         *)
THEOREM MappedTargetsOnly == TargetSpec => []ActsOnMappedTargets
<1>1. TargetInv => ActsOnMappedTargets
  <2> SUFFICES ASSUME TargetInv, NEW x \in acted
               PROVE  /\ ~incident.failed /\ ~incident.foreign
                      /\ matched.kind = "mapped" =>
                           LET target == matched.actions[x.index].target
                               mapped == {target[k] : k \in DOMAIN target}
                           IN /\ mapped \subseteq incident.resolves
                              /\ \A k \in DOMAIN x.args \ {"snapshot_type"} : x.args[k] \subseteq mapped
                              /\ \A k \in {"account_id", "snapshot_type"} \cap DOMAIN target :
                                   x.account = {target[k]} \/ Told(x.args, k) = {target[k]}
    BY DEF ActsOnMappedTargets
  <2>1. /\ x.index \in Indices /\ ~incident.failed /\ ~incident.foreign /\ ~resolved[x.index].error
        /\ x.module = resolved[x.index].module
        /\ x.account = AccountId(resolved[x.index].target, incident)
        /\ x.args = Arguments(x.module, resolved[x.index].target, incident)
    BY DEF TargetInv, ActedInv
  <2> SUFFICES ASSUME matched.kind = "mapped"
               PROVE  LET target == matched.actions[x.index].target
                          mapped == {target[k] : k \in DOMAIN target}
                      IN /\ mapped \subseteq incident.resolves
                         /\ \A k \in DOMAIN x.args \ {"snapshot_type"} : x.args[k] \subseteq mapped
                         /\ \A k \in {"account_id", "snapshot_type"} \cap DOMAIN target :
                              x.account = {target[k]} \/ Told(x.args, k) = {target[k]}
    BY <2>1
  <2> DEFINE a == matched.actions[x.index]
             target == a.target
             mapped == {target[k] : k \in DOMAIN target}
             t == [k \in DOMAIN target |-> {target[k]}]
  <2>2. /\ x.index \in DOMAIN resolved /\ ValidAction(a)
        /\ resolved[x.index] = ResolvedAction(a, incident)
    <3>1. matched \in Responses /\ resolved = ResolvedActions(matched, incident)
      BY DEF TargetInv, TargetTypeOK
    <3> QED BY <2>1, <3>1, ResolvedIsSequence DEF Indices
  <2> HIDE DEF a
  <2>3. /\ resolved[x.index].module = a.module
        /\ resolved[x.index].target = [k \in ResolvedKeys(a, incident) |-> {a.target[k]}]
        /\ resolved[x.index].error = FailedResolution(a, incident)
    BY <2>2 DEF ResolvedAction
  <2>4. ResolvedKeys(a, incident) = DOMAIN a.target
    BY <2>1, <2>3 DEF FailedResolution
  <2>5. x.module = a.module /\ x.args = Arguments(a.module, t, incident)
        /\ x.account = AccountId(t, incident)
    BY <2>1, <2>3, <2>4
  <2>6. mapped \subseteq incident.resolves
    BY <2>4 DEF ResolvedKeys
  <2>7. Stays(a, x.args)
    BY <2>2, <2>5, MappedArguments
  <2>8. "account_id" \in DOMAIN target => x.account = {target["account_id"]}
    <3> SUFFICES ASSUME "account_id" \in DOMAIN a.target
                 PROVE  x.account = {a.target["account_id"]}
      OBVIOUS
    <3>1. \A order : First(t, "account_id", order, incident) = {a.target["account_id"]}
      BY MappedTold
    <3> QED BY <2>5, <3>1 DEF AccountId
  <2>9. /\ \A k \in DOMAIN x.args \ {"snapshot_type"} : x.args[k] \subseteq mapped
        /\ "snapshot_type" \in DOMAIN target => Told(x.args, "snapshot_type") = {target["snapshot_type"]}
    BY <2>7 DEF Stays
  <2> QED BY <2>6, <2>8, <2>9 DEF a
<1> QED BY <1>1, TargetInvariant, PTL

(* The undo that is executed for an id is that of the one action with that   *)
(* id: what _build_rollback_kwargs derives for it is what the handler acted *)
(* on, and of instances those it captured (rollback, ir_rollback.py).       *)
THEOREM UndosMeetTheirActions == TargetSpec => []UndoAddressesItsAction
<1>1. TargetInv => UndoAddressesItsAction
  <2> SUFFICES ASSUME TargetInv, NEW u \in undone
               PROVE  /\ \E x \in acted : x.index = u.id
                      /\ \A x \in acted : x.index = u.id => Undoes(u, x)
    BY DEF UndoAddressesItsAction, ActionId, Undoes
  <2>1. PICK x \in acted : Undoes(u, x)
    BY DEF TargetInv, RecordsInv
  <2> QED BY <2>1 DEF Undoes, TargetInv, ActedInv
<1> QED BY <1>1, TargetInvariant, PTL
=============================================================================
