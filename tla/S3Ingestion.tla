---------------------------- MODULE S3Ingestion ----------------------------
(***************************************************************************)
(* Ingestion of an uploaded object (src/handlers/s3_ingestion.py) and the   *)
(* management of its integration (src/handlers/integration_api.py).        *)
(*                                                                         *)
(* A job is pinned in the ingestion table together with the binding and    *)
(* the rules it is evaluated with, and each record with its detections.    *)
(* Every delivery of the notification goes on with what is pinned, sends   *)
(* all detections to the signals queue, and reports the job's outcome.  A  *)
(* replay is a job of its own for the same object, under the current       *)
(* binding and rules.                                                      *)
(*                                                                         *)
(* S3 may notify twice, and the queue redelivers a message whose           *)
(* invocation fails or dies; its visibility timeout of 720 seconds is      *)
(* longer than any invocation, so that no message is handled twice at a    *)
(* time, while two messages of one job are.  Every call may fail without   *)
(* effect, or take effect and still raise: there are at most MaxFaults.    *)
(*                                                                         *)
(* Abstractions.  One integration and one version of one object.  Rules    *)
(* and lists are a number, raised by each change; the binding is its       *)
(* revision and whether it is enabled.  What a record comes to is one of   *)
(* Outcomes[i], and may differ between invocations of a custom parser.     *)
(***************************************************************************)
EXTENDS Integers, FiniteSets

CONSTANTS
  Live,         \* the job of the upload
  Replays,      \* the jobs of its replays
  Messages,     \* messages of the ingestion queue
  JobOf,        \* JobOf[m]: the job that message m is about
  Framed,       \* the revisions of the binding whose framing the object has
  Records,      \* how many records it has
  Outcomes,     \* Outcomes[i]: what record i may come to
  Rules,        \* signal rules
  Matching,     \* Matching[v]: the rules that its records match at version v of the rules
  MaxVersion,   \* bound on the changes of rules and lists
  MaxRev,       \* bound on the changes of the binding
  MaxWorkers,   \* maximumConcurrency of the function
  MaxReceives,  \* maxReceiveCount of the ingestion queue
  MaxFaults     \* bound on the faults

Jobs == {Live} \cup Replays

Indices == 1..Records

Statuses == {"EVALUATED", "DROPPED", "QUARANTINED"}

ASSUME S3IngestionAssumption ==
  /\ Live \notin Replays
  /\ JobOf \in [Messages -> Jobs]
  /\ Framed \subseteq 1..MaxRev
  /\ {Records, MaxVersion, MaxRev, MaxWorkers, MaxReceives} \subseteq Nat \ {0}
  /\ MaxFaults \in Nat
  /\ Outcomes \in [Indices -> SUBSET Statuses]
  /\ Matching \in [1..MaxVersion -> SUBSET Rules]

VARIABLES
  faults,   \* faults that may still happen
  rules,    \* the version of the rules and lists
  config,   \* the binding
  job,      \* the JOB rows of the ingestion table
  record,   \* its RECORD rows
  message,  \* the ingestion queue
  work,     \* the invocations, by the message they handle
  sent      \* what was sent to the signals queue

vars == <<faults, rules, config, job, record, message, work, sent>>

-----------------------------------------------------------------------------
Detections == [job : Jobs, index : Indices, rule : Rules, version : 1..MaxVersion, rev : 1..MaxRev]

Terminal == {"DISPATCHED", "PARTIAL", "QUARANTINED"}

NoJob == [status |-> "none"]

NoRecord == [status |-> "none"]

NoWork ==
  [pc |-> "none", version |-> 0, rev |-> 0, index |-> 0, todo |-> {}, failures |-> 0, signals |-> 0]

Steps == {"none", "job", "config", "rules", "pin", "fetch", "record", "evaluate", "send"}

TypeOK ==
  /\ faults \in 0..MaxFaults
  /\ rules \in 1..MaxVersion
  /\ config \in [rev : 1..MaxRev, enabled : BOOLEAN]
  /\ job \in [Jobs -> {NoJob} \cup
       [status : {"PROCESSING"} \cup Terminal, version : 1..MaxVersion, rev : 1..MaxRev, signals : Nat]]
  /\ record \in [Jobs \X Indices -> {NoRecord} \cup [status : Statuses, detections : SUBSET Detections]]
  /\ message \in [Messages ->
       [state : {"none", "visible", "handled", "deleted", "dead"}, receives : 0..MaxReceives]]
  /\ work \in [Messages ->
       [pc : Steps, version : 0..MaxVersion, rev : 0..MaxRev, index : 0..Records + 1,
        todo : SUBSET Detections, failures : 0..Records, signals : Nat]]
  /\ sent \subseteq Detections

Init ==
  /\ faults = MaxFaults
  /\ rules = 1
  /\ config = [rev |-> 1, enabled |-> TRUE]
  /\ job = [j \in Jobs |-> NoJob]
  /\ record = [r \in Jobs \X Indices |-> NoRecord]
  /\ message = [m \in Messages |->
       [state |-> IF JobOf[m] = Live THEN "visible" ELSE "none", receives |-> 0]]
  /\ work = [m \in Messages |-> NoWork]
  /\ sent = {}

Fault == faults > 0 /\ faults' = faults - 1

-----------------------------------------------------------------------------
(* The management of the integration                                       *)

(* A change of a rule or a list.                                           *)
ChangeRules ==
  /\ rules < MaxVersion
  /\ rules' = rules + 1
  /\ UNCHANGED <<faults, config, job, record, message, work, sent>>

(* PUT with the current revision as expected_rev; any other is refused.    *)
PutConfig ==
  /\ config.rev < MaxRev
  /\ \E enabled \in BOOLEAN : config' = [rev |-> config.rev + 1, enabled |-> enabled]
  /\ UNCHANGED <<faults, rules, job, record, message, work, sent>>

(* POST .../replay: a run of its own, of an object that has a job.         *)
PostReplay(m) ==
  /\ JobOf[m] \in Replays
  /\ message[m].state = "none"
  /\ job[Live] # NoJob
  /\ message' = [message EXCEPT ![m].state = "visible"]
  /\ UNCHANGED <<faults, rules, config, job, record, work, sent>>

-----------------------------------------------------------------------------
(* An invocation                                                           *)

(* One message to an invocation, and so many invocations at a time.        *)
Receive(m) ==
  /\ message[m].state = "visible"
  /\ Cardinality({n \in Messages : work[n].pc # "none"}) < MaxWorkers
  /\ message' = [message EXCEPT ![m] = [state |-> "handled", receives |-> @.receives + 1]]
  /\ work' = [work EXCEPT ![m].pc = "job"]
  /\ UNCHANGED <<faults, rules, config, job, record, sent>>

(* Return without the redrive policy of the queue.                         *)
ReturnForever(m) ==
  /\ message' = [message EXCEPT ![m].state = "visible"]
  /\ work' = [work EXCEPT ![m] = NoWork]

(* The message is in batchItemFailures, or its invocation died.            *)
Return(m) ==
  /\ message' = [message EXCEPT ![m].state = IF message[m].receives < MaxReceives THEN "visible" ELSE "dead"]
  /\ work' = [work EXCEPT ![m] = NoWork]

Delete(m) ==
  /\ message' = [message EXCEPT ![m].state = "deleted"]
  /\ work' = [work EXCEPT ![m] = NoWork]

(* The invocation goes on with a job: what counts is what is pinned.       *)
Adopt(m, j) ==
  work' = [work EXCEPT ![m] = [NoWork EXCEPT !.pc = "fetch", !.version = j.version, !.rev = j.rev]]

(* GetJob that leaves a job in progress to whoever began it.               *)
GetJobOfOther(m) ==
  /\ work[m].pc = "job"
  /\ LET j == job[JobOf[m]] IN
     \/ j.status \in Terminal /\ Delete(m)
     \/ j.status = "PROCESSING" /\ Return(m)
     \/ j = NoJob /\ work' = [work EXCEPT ![m].pc = "config"] /\ UNCHANGED message
  /\ UNCHANGED <<faults, rules, config, job, record, sent>>

GetJob(m) ==
  /\ work[m].pc = "job"
  /\ LET j == job[JobOf[m]] IN
     \/ j.status \in Terminal /\ Delete(m)
     \/ j.status = "PROCESSING" /\ Adopt(m, j) /\ UNCHANGED message
     \/ j = NoJob /\ work' = [work EXCEPT ![m].pc = "config"] /\ UNCHANGED message
  /\ UNCHANGED <<faults, rules, config, job, record, sent>>

(* ReadConfig that ignores an upload while the integration is disabled.    *)
ReadConfigOrIgnore(m) ==
  /\ work[m].pc = "config"
  /\ \/ /\ config.enabled
        /\ work' = [work EXCEPT ![m].pc = "rules", ![m].rev = config.rev]
        /\ UNCHANGED message
     \/ ~config.enabled /\ Delete(m)
  /\ UNCHANGED <<faults, rules, config, job, record, sent>>

(* A disabled integration accepts no new job.                              *)
ReadConfig(m) ==
  /\ work[m].pc = "config"
  /\ \/ /\ config.enabled
        /\ work' = [work EXCEPT ![m].pc = "rules", ![m].rev = config.rev]
        /\ UNCHANGED message
     \/ ~config.enabled /\ Return(m)
  /\ UNCHANGED <<faults, rules, config, job, record, sent>>

(* The query for rules and lists may miss the latest changes.              *)
ReadRules(m) ==
  /\ work[m].pc = "rules"
  /\ \E v \in 1..rules : work' = [work EXCEPT ![m].pc = "pin", ![m].version = v]
  /\ UNCHANGED <<faults, rules, config, job, record, message, sent>>

(* A put without its condition: the last to write wins.                    *)
PinnedLast(old, none, own) == own

(* pinned: the first to write an item wins, and all go on with the winner. *)
Pinned(old, none, own) == IF old = none THEN own ELSE old

PinJob(m) ==
  /\ work[m].pc = "pin"
  /\ LET j == JobOf[m]
         own == [status |-> "PROCESSING", version |-> work[m].version, rev |-> work[m].rev, signals |-> 0]
         item == Pinned(job[j], NoJob, own)
         put == job' = [job EXCEPT ![j] = item] IN
     \/ put /\ Adopt(m, item) /\ UNCHANGED <<faults, message>>
     \/ put /\ Return(m) /\ Fault
  /\ UNCHANGED <<rules, config, record, sent>>

(* The object is read and framed; one that cannot be is given up.          *)
Fetch(m) ==
  /\ work[m].pc = "fetch"
  /\ LET framed == work[m].rev \in Framed
         quarantine == job' = [job EXCEPT ![JobOf[m]].status = "QUARANTINED"] IN
     \/ framed /\ work' = [work EXCEPT ![m].pc = "record", ![m].index = 1] /\ UNCHANGED <<faults, job, message>>
     \/ ~framed /\ quarantine /\ Delete(m) /\ UNCHANGED faults
     \/ ~framed /\ quarantine /\ Return(m) /\ Fault
  /\ UNCHANGED <<rules, config, record, sent>>

(* The loop's body once the record's row is at hand.                       *)
Proceed(m, saved) ==
  \/ /\ saved.status = "QUARANTINED"
     /\ work' = [work EXCEPT ![m].pc = "record", ![m].index = @ + 1, ![m].failures = @ + 1]
  \/ /\ saved.status = "DROPPED"
     /\ work' = [work EXCEPT ![m].pc = "record", ![m].index = @ + 1]
  \/ /\ saved.status = "EVALUATED"
     /\ work' = [work EXCEPT ![m].pc = "send", ![m].todo = saved.detections]

(* GetRecord that takes the record of an earlier invocation as sent.       *)
GetRecordOnce(m) ==
  /\ work[m].pc = "record"
  /\ work[m].index <= Records
  /\ LET saved == record[<<JobOf[m], work[m].index>>] IN
     \/ saved # NoRecord /\ work' = [work EXCEPT ![m].index = @ + 1]
     \/ saved = NoRecord /\ work' = [work EXCEPT ![m].pc = "evaluate"]
  /\ UNCHANGED <<faults, rules, config, job, record, message, sent>>

GetRecord(m) ==
  /\ work[m].pc = "record"
  /\ work[m].index <= Records
  /\ LET saved == record[<<JobOf[m], work[m].index>>] IN
     \/ saved # NoRecord /\ Proceed(m, saved)
     \/ saved = NoRecord /\ work' = [work EXCEPT ![m].pc = "evaluate"]
  /\ UNCHANGED <<faults, rules, config, job, record, message, sent>>

(* Evaluated with the rules of the moment.                                 *)
EvaluatedNow(m) ==
  [job : {JobOf[m]}, index : {work[m].index}, rule : Matching[rules], version : {rules}, rev : {work[m].rev}]

(* run_detection with the rules of the job, not with the current ones.     *)
Evaluated(m) ==
  [job : {JobOf[m]}, index : {work[m].index}, rule : Matching[work[m].version],
   version : {work[m].version}, rev : {work[m].rev}]

Evaluate(m) ==
  /\ work[m].pc = "evaluate"
  /\ \E status \in Outcomes[work[m].index] :
       LET r == <<JobOf[m], work[m].index>>
           own == [status |-> status, detections |-> IF status = "EVALUATED" THEN Evaluated(m) ELSE {}]
           saved == Pinned(record[r], NoRecord, own)
           put == record' = [record EXCEPT ![r] = saved] IN
       \/ put /\ Proceed(m, saved) /\ UNCHANGED <<faults, message>>
       \/ put /\ Return(m) /\ Fault
  /\ UNCHANGED <<rules, config, job, sent>>

(* The detections of a record are sent one by one.                         *)
Send(m) ==
  /\ work[m].pc = "send"
  /\ \E d \in work[m].todo :
       LET send == sent' = sent \cup {d} IN
       \/ /\ send
          /\ work' = [work EXCEPT ![m].todo = @ \ {d}, ![m].signals = @ + 1]
          /\ UNCHANGED <<faults, message>>
       \/ send /\ Return(m) /\ Fault
  /\ UNCHANGED <<rules, config, job, record>>

NextRecord(m) ==
  /\ work[m].pc = "send"
  /\ work[m].todo = {}
  /\ work' = [work EXCEPT ![m].pc = "record", ![m].index = @ + 1]
  /\ UNCHANGED <<faults, rules, config, job, record, message, sent>>

(* What is reported is what this invocation has sent and seen.             *)
Outcome(m) == IF work[m].failures > 0 THEN "PARTIAL" ELSE "DISPATCHED"

Finish(m) ==
  /\ work[m].pc = "record"
  /\ work[m].index > Records
  /\ LET put == job' = [job EXCEPT ![JobOf[m]].status = Outcome(m), ![JobOf[m]].signals = work[m].signals] IN
     \/ put /\ Delete(m) /\ UNCHANGED faults
     \/ put /\ Return(m) /\ Fault
  /\ UNCHANGED <<rules, config, record, sent>>

(* A call fails, a parser does, the time budget is exhausted, or the        *)
(* invocation dies.                                                        *)
Crash(m) ==
  /\ work[m].pc # "none"
  /\ Fault
  /\ Return(m)
  /\ UNCHANGED <<rules, config, job, record, sent>>

-----------------------------------------------------------------------------
Handle(m) ==
  \/ GetJob(m)
  \/ ReadConfig(m)
  \/ ReadRules(m)
  \/ PinJob(m)
  \/ Fetch(m)
  \/ GetRecord(m)
  \/ Evaluate(m)
  \/ Send(m)
  \/ NextRecord(m)
  \/ Finish(m)

Next ==
  \/ ChangeRules
  \/ PutConfig
  \/ \E m \in Messages : PostReplay(m)
  \/ \E m \in Messages : Receive(m)
  \/ \E m \in Messages : Handle(m)
  \/ \E m \in Messages : Crash(m)

Spec == Init /\ [][Next]_vars

(* Lambda polls the queue, and an invocation goes on unless it dies.       *)
Fairness == \A m \in Messages : WF_vars(Receive(m)) /\ WF_vars(Handle(m))

FairSpec == Spec /\ Fairness

-----------------------------------------------------------------------------
(* Properties                                                              *)

(* Whatever invocation sends it, a detection is one of the record's row,    *)
(* and that row was evaluated with the rules and the binding of the job.   *)
OneEvaluation ==
  \A d \in sent :
    /\ record[<<d.job, d.index>>].status = "EVALUATED"
    /\ d \in record[<<d.job, d.index>>].detections
    /\ d.version = job[d.job].version
    /\ d.rev = job[d.job].rev

(* A job that says DISPATCHED or PARTIAL has no record left, all its        *)
(* detections were sent, and it tells how many there are and whether there *)
(* are quarantined records, also when two invocations report.              *)
ReportIsTrue ==
  \A j \in Jobs : job[j].status \in {"DISPATCHED", "PARTIAL"} =>
    LET found == UNION {record[<<j, i>>].detections : i \in Indices} IN
    /\ \A i \in Indices : record[<<j, i>>] # NoRecord
    /\ found \subseteq sent
    /\ job[j].signals = Cardinality(found)
    /\ job[j].status = "PARTIAL" <=> \E i \in Indices : record[<<j, i>>].status = "QUARANTINED"

(* No notification disappears: its message is deleted only when its job    *)
(* says what became of the object.                                         *)
DeletedMeansReported ==
  \A m \in Messages : message[m].state = "deleted" => job[JobOf[m]].status \in Terminal

(* What is pinned stays: the rules and binding of a job, the outcome of a  *)
(* record, and the outcome of a job once it is reported.                   *)
PinnedIsKept ==
  [][/\ \A j \in Jobs : job[j] # NoJob =>
          /\ job'[j] # NoJob /\ job'[j].version = job[j].version /\ job'[j].rev = job[j].rev
          /\ job[j].status \in Terminal => job'[j] = job[j]
     /\ \A r \in Jobs \X Indices : record[r] # NoRecord => record'[r] = record[r]]_vars

(* Duplicates, retries and faults cannot be seen from outside: the handler  *)
(* implements IngestionPromise, in which each job is one pass through the  *)
(* object.  What it does again there is nothing.                           *)
Promise == INSTANCE IngestionPromise

KeepsPromise == Promise!Spec

(* While the integration is enabled, and receives are left for all that    *)
(* can fail, every message in the queue leads to a report.                 *)
EventuallyReported ==
  MaxFaults < MaxReceives /\ [](config.enabled) =>
    \A m \in Messages : message[m].state = "visible" ~> job[JobOf[m]].status \in Terminal
=============================================================================
