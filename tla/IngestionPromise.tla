--------------------------- MODULE IngestionPromise ---------------------------
(***************************************************************************)
(* What the ingestion of an object promises to those who see its jobs, the *)
(* rows of its records and the signals queue: however often it is notified,*)
(* received, interrupted and tried again, each job looks as if one pass    *)
(* had gone through the object.  A job is accepted once, under rules and a *)
(* binding it keeps; its records are settled once each, in their order;    *)
(* the detections of a record are sent before the next one is settled; and *)
(* the job is closed once, by a report that follows from its records.      *)
(***************************************************************************)
EXTENDS Naturals, FiniteSets

CONSTANTS Live, Replays, Framed, Records, Outcomes, Rules, Matching, MaxVersion, MaxRev

VARIABLES
  job,      \* what each job is accepted with, and says of itself
  record,   \* what became of each record of a job
  sent      \* the detections in the signals queue

Jobs == {Live} \cup Replays

Indices == 1..Records

None == [status |-> "none"]

Init ==
  /\ job = [j \in Jobs |-> None]
  /\ record = [r \in Jobs \X Indices |-> None]
  /\ sent = {}

UnderWay(j) == job[j].status = "PROCESSING" /\ job[j].rev \in Framed

(* The first n records are dealt with.                                     *)
Passed(j, n) ==
  \A i \in 1..n : record[<<j, i>>] # None /\ record[<<j, i>>].detections \subseteq sent

Detected(j) == UNION {record[<<j, i>>].detections : i \in Indices}

(* A replay is one of an object that has a job.                            *)
Accept(j) ==
  /\ job[j] = None
  /\ j \in Replays => job[Live] # None
  /\ \E v \in 1..MaxVersion, r \in 1..MaxRev :
       job' = [job EXCEPT ![j] = [status |-> "PROCESSING", version |-> v, rev |-> r, signals |-> 0]]
  /\ UNCHANGED <<record, sent>>

Refuse(j) ==
  /\ job[j].status = "PROCESSING"
  /\ job[j].rev \notin Framed
  /\ job' = [job EXCEPT ![j].status = "QUARANTINED"]
  /\ UNCHANGED <<record, sent>>

Settle(j, i) ==
  /\ UnderWay(j)
  /\ Passed(j, i - 1)
  /\ record[<<j, i>>] = None
  /\ \E status \in Outcomes[i] :
       record' = [record EXCEPT ![<<j, i>>] =
         [status     |-> status,
          detections |-> IF status = "EVALUATED"
                         THEN [job : {j}, index : {i}, rule : Matching[job[j].version],
                               version : {job[j].version}, rev : {job[j].rev}]
                         ELSE {}]]
  /\ UNCHANGED <<job, sent>>

Send(j, i) ==
  /\ UnderWay(j)
  /\ Passed(j, i - 1)
  /\ record[<<j, i>>] # None
  /\ \E d \in record[<<j, i>>].detections \ sent : sent' = sent \cup {d}
  /\ UNCHANGED <<job, record>>

Report(j) ==
  /\ UnderWay(j)
  /\ Passed(j, Records)
  /\ LET failed == \E i \in Indices : record[<<j, i>>].status = "QUARANTINED" IN
       job' = [job EXCEPT ![j] = [@ EXCEPT !.status = IF failed THEN "PARTIAL" ELSE "DISPATCHED",
                                           !.signals = Cardinality(Detected(j))]]
  /\ UNCHANGED <<record, sent>>

Next ==
  \E j \in Jobs :
    \/ Accept(j)
    \/ Refuse(j)
    \/ \E i \in Indices : Settle(j, i) \/ Send(j, i)
    \/ Report(j)

Spec == Init /\ [][Next]_<<job, record, sent>>
=============================================================================
