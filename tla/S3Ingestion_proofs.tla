------------------------- MODULE S3Ingestion_proofs -------------------------
(***************************************************************************)
(* Proofs about S3Ingestion, for any messages, replays, records, rules,     *)
(* bindings, workers, receives and faults.                                 *)
(***************************************************************************)
EXTENDS S3Ingestion, FiniteSetTheorems, TLAPS

USE S3IngestionAssumption DEF S3IngestionAssumption

-----------------------------------------------------------------------------
(* Types                                                                   *)

JobRow == [status : {"PROCESSING"} \cup Terminal, version : 1..MaxVersion, rev : 1..MaxRev, signals : Nat]

RecordRow == [status : Statuses, detections : SUBSET Detections]

Message == [state : {"none", "visible", "handled", "deleted", "dead"}, receives : 0..MaxReceives]

Work ==
  [pc : Steps, version : 0..MaxVersion, rev : 0..MaxRev, index : 0..Records + 1,
   todo : SUBSET Detections, failures : 0..Records, signals : Nat]

(* TypeOK without the queue and the invocations.                           *)
StoreOK ==
  /\ faults \in 0..MaxFaults
  /\ rules \in 1..MaxVersion
  /\ config \in [rev : 1..MaxRev, enabled : BOOLEAN]
  /\ job \in [Jobs -> {NoJob} \cup JobRow]
  /\ record \in [Jobs \X Indices -> {NoRecord} \cup RecordRow]
  /\ sent \subseteq Detections

LEMMA TypeParts ==
  TypeOK <=> StoreOK /\ message \in [Messages -> Message] /\ work \in [Messages -> Work]
BY DEF TypeOK, StoreOK, Message, Work, JobRow, RecordRow

(* A message that may be received has receives left.                       *)
MessageInv(m) ==
  /\ message[m].state = "visible" => message[m].receives < MaxReceives
  /\ message[m].state = "none" => message[m].receives = 0

Looping == {"record", "evaluate", "send"}

(* What an invocation at work w knows of its job j.                        *)
StepOK(w, j) ==
  /\ w.pc \in {"rules", "pin"} => w.rev \in 1..MaxRev
  /\ w.pc = "pin" => w.version \in 1..MaxVersion
  /\ w.pc \in {"fetch"} \cup Looping => j # NoJob /\ w.version = j.version /\ w.rev = j.rev
  /\ w.pc = "fetch" => w.failures = 0 /\ w.signals = 0
  /\ w.pc \in Looping => w.index \in 1..Records + 1 /\ w.failures < w.index
  /\ w.pc \in {"evaluate", "send"} => w.index <= Records

TypeInv ==
  /\ TypeOK
  /\ \A m \in Messages : MessageInv(m)
  /\ \A m \in Messages : StepOK(work[m], job[JobOf[m]])

LEMMA JobType ==
  ASSUME TypeOK, NEW m \in Messages
  PROVE  /\ JobOf[m] \in Jobs
         /\ job[JobOf[m]] \in {NoJob} \cup JobRow
         /\ work[m] \in Work
         /\ message[m] \in Message
<1>1. JobOf[m] \in Jobs
  OBVIOUS
<1> QED
  BY <1>1, TypeParts DEF StoreOK

LEMMA LoopType ==
  ASSUME TypeInv, NEW m \in Messages, work[m].pc \in {"fetch"} \cup Looping
  PROVE  /\ JobOf[m] \in Jobs
         /\ job[JobOf[m]] \in JobRow
         /\ work[m] \in Work
         /\ work[m].version = job[JobOf[m]].version
         /\ work[m].rev = job[JobOf[m]].rev
         /\ work[m].version \in 1..MaxVersion
         /\ work[m].rev \in 1..MaxRev
<1>1. job[JobOf[m]] # NoJob /\ work[m].version = job[JobOf[m]].version /\ work[m].rev = job[JobOf[m]].rev
  BY DEF TypeInv, StepOK
<1>2. JobOf[m] \in Jobs /\ job[JobOf[m]] \in JobRow /\ work[m] \in Work
  BY <1>1, JobType DEF TypeInv
<1> QED
  BY <1>1, <1>2 DEF JobRow

LEMMA IdleType == NoWork \in Work
BY DEF NoWork, Work, Steps

(* No step unpins a job or pins another version.                           *)
PinKept ==
  \A j \in Jobs : job[j] # NoJob =>
    job'[j] # NoJob /\ job'[j].version = job[j].version /\ job'[j].rev = job[j].rev

LEMMA StepKept ==
  ASSUME TypeInv, PinKept, NEW m \in Messages
  PROVE  StepOK(work[m], job'[JobOf[m]])
<1>1. JobOf[m] \in Jobs
  OBVIOUS
<1> QED
  BY <1>1 DEF TypeInv, StepOK, PinKept

(* An invocation of m goes on as w, and leaves the others alone.           *)
Goes(m, w) ==
  /\ work' = [work EXCEPT ![m] = w]
  /\ UNCHANGED message

LEMMA GoKeeps ==
  ASSUME TypeInv, StoreOK', PinKept, NEW m \in Messages, NEW w \in Work, Goes(m, w),
         StepOK(w, job'[JobOf[m]])
  PROVE  /\ TypeInv'
         /\ work'[m] = w
         /\ \A n \in Messages : n # m => work'[n] = work[n]
<1>1. /\ work'[m] = w /\ \A n \in Messages : n # m => work'[n] = work[n]
      /\ work' \in [Messages -> Work]
  BY TypeParts DEF TypeInv, Goes
<1>2. TypeOK'
  BY <1>1, TypeParts DEF TypeInv, Goes, TypeOK, StoreOK, Message, Work, JobRow, RecordRow
<1>3. \A n \in Messages : StepOK(work'[n], job'[JobOf[n]])
  BY <1>1, StepKept
<1>4. \A n \in Messages : MessageInv(n)'
  BY DEF TypeInv, Goes, MessageInv
<1> QED
  BY <1>1, <1>2, <1>3, <1>4 DEF TypeInv

LEMMA ReturnKeeps ==
  ASSUME TypeInv, StoreOK', PinKept, NEW m \in Messages, Return(m) \/ Delete(m)
  PROVE  /\ TypeInv'
         /\ work'[m] = NoWork
         /\ \A n \in Messages : n # m => work'[n] = work[n] /\ message'[n] = message[n]
<1>1. /\ work'[m] = NoWork /\ \A n \in Messages : n # m => work'[n] = work[n]
      /\ work' \in [Messages -> Work]
  BY TypeParts, IdleType DEF TypeInv, Return, Delete
<1>2. /\ message' \in [Messages -> Message] /\ MessageInv(m)'
      /\ \A n \in Messages : n # m => message'[n] = message[n]
  <2>1. message \in [Messages -> Message]
    BY TypeParts DEF TypeInv
  <2>2. PICK s \in {"visible", "dead", "deleted"} :
          /\ message' = [message EXCEPT ![m] = [message[m] EXCEPT !.state = s]]
          /\ s = "visible" => message[m].receives < MaxReceives
    BY <2>1 DEF Return, Delete
  <2>3. [message[m] EXCEPT !.state = s] \in Message
    BY <2>1 DEF Message
  <2>4. message'[m] = [message[m] EXCEPT !.state = s]
    BY <2>1, <2>2
  <2>5. MessageInv(m)'
    BY <2>1, <2>2, <2>4 DEF MessageInv, Message
  <2> QED
    BY <2>1, <2>2, <2>3, <2>5
<1>3. TypeOK'
  BY <1>1, <1>2 DEF TypeOK, StoreOK, Message, Work, JobRow, RecordRow
<1>4. \A n \in Messages : StepOK(work'[n], job'[JobOf[n]])
  BY <1>1, StepKept DEF StepOK, NoWork, Looping
<1>5. \A n \in Messages : MessageInv(n)'
  BY <1>2 DEF TypeInv, MessageInv
<1> QED
  BY <1>1, <1>2, <1>3, <1>4, <1>5 DEF TypeInv

-----------------------------------------------------------------------------
(* The steps of an invocation                                              *)

StoreUnchanged == UNCHANGED <<rules, config, job, record, sent>>

LEMMA StoreKeeps ==
  ASSUME TypeInv, StoreUnchanged, UNCHANGED faults \/ Fault
  PROVE  StoreOK' /\ PinKept
<1>1. faults' \in 0..MaxFaults
  BY DEF TypeInv, TypeOK, Fault
<1> QED
  BY <1>1, TypeParts DEF TypeInv, StoreOK, StoreUnchanged, PinKept

(* What every step of an invocation of m keeps.                            *)
Keeps(m) ==
  /\ TypeInv'
  /\ PinKept
  /\ \A n \in Messages : n # m => work'[n] = work[n]

(* Work with another pc and another revision or version.                   *)
LEMMA WorkType ==
  ASSUME NEW w \in Work, NEW pc \in Steps, NEW v \in 0..MaxVersion, NEW r \in 0..MaxRev
  PROVE  /\ [w EXCEPT !.pc = pc] \in Work
         /\ [w EXCEPT !.pc = pc, !.rev = r] \in Work
         /\ [w EXCEPT !.pc = pc, !.version = v] \in Work
         /\ [w EXCEPT !.pc = pc, !.version = v, !.rev = r] \in Work
BY DEF Work

LEMMA WorkFields ==
  ASSUME NEW w \in Work, NEW pc, NEW v, NEW r
  PROVE  /\ [w EXCEPT !.pc = pc].pc = pc
         /\ [w EXCEPT !.pc = pc, !.rev = r].pc = pc
         /\ [w EXCEPT !.pc = pc, !.rev = r].rev = r
         /\ [w EXCEPT !.pc = pc, !.version = v].pc = pc
         /\ [w EXCEPT !.pc = pc, !.version = v].rev = w.rev
         /\ [w EXCEPT !.pc = pc, !.version = v].version = v
         /\ [w EXCEPT !.pc = pc, !.version = v, !.rev = r].pc = pc
         /\ [w EXCEPT !.pc = pc, !.version = v, !.rev = r].version = v
         /\ [w EXCEPT !.pc = pc, !.version = v, !.rev = r].rev = r
         /\ [w EXCEPT !.pc = pc, !.version = v, !.rev = r].failures = w.failures
         /\ [w EXCEPT !.pc = pc, !.version = v, !.rev = r].signals = w.signals
BY DEF Work

ToConfig(w) == [w EXCEPT !.pc = "config"]

ToRules(w, r) == [w EXCEPT !.pc = "rules", !.rev = r]

ToPin(w, v) == [w EXCEPT !.pc = "pin", !.version = v]

LEMMA BeginType ==
  ASSUME NEW w \in Work, NEW v \in 1..MaxVersion, NEW r \in 1..MaxRev, NEW j
  PROVE  /\ ToConfig(w) \in Work /\ ToConfig(w).pc = "config" /\ StepOK(ToConfig(w), j)
         /\ ToRules(w, r) \in Work /\ ToRules(w, r).pc = "rules" /\ StepOK(ToRules(w, r), j)
         /\ ToPin(w, v) \in Work /\ ToPin(w, v).pc = "pin"
         /\ (w.rev \in 1..MaxRev => StepOK(ToPin(w, v), j))
<1>1. v \in 0..MaxVersion /\ r \in 0..MaxRev /\ {"config", "rules", "pin"} \subseteq Steps
  BY DEF Steps
<1>2. ToConfig(w) \in Work /\ ToRules(w, r) \in Work /\ ToPin(w, v) \in Work
  BY <1>1, WorkType DEF ToConfig, ToRules, ToPin
<1>3. /\ ToConfig(w).pc = "config" /\ ToRules(w, r).pc = "rules" /\ ToRules(w, r).rev = r
      /\ ToPin(w, v).pc = "pin" /\ ToPin(w, v).rev = w.rev /\ ToPin(w, v).version = v
  BY WorkFields DEF ToConfig, ToRules, ToPin
<1> QED
  BY <1>2, <1>3 DEF StepOK, Looping

Adopted(j) == [NoWork EXCEPT !.pc = "fetch", !.version = j.version, !.rev = j.rev]

LEMMA AdoptType ==
  ASSUME NEW j \in JobRow
  PROVE  Adopted(j) \in Work /\ StepOK(Adopted(j), j)
<1>1. j.version \in 0..MaxVersion /\ j.rev \in 0..MaxRev /\ j # NoJob /\ "fetch" \in Steps
  BY DEF JobRow, NoJob, Terminal, Steps
<1>2. Adopted(j) \in Work
  BY <1>1, IdleType, WorkType DEF Adopted
<1>3. /\ Adopted(j).pc = "fetch" /\ Adopted(j).version = j.version /\ Adopted(j).rev = j.rev
      /\ Adopted(j).failures = NoWork.failures /\ Adopted(j).signals = NoWork.signals
  BY IdleType, WorkFields DEF Adopted
<1> QED
  BY <1>1, <1>2, <1>3 DEF StepOK, NoWork, Looping

LEMMA AdoptPc == \A j : Adopted(j).pc = "fetch"
BY DEF Adopted, NoWork

LEMMA GetJobKeeps ==
  ASSUME TypeInv, NEW m \in Messages, GetJob(m)
  PROVE  Keeps(m) /\ work'[m].pc \notin Looping
<1>1. StoreOK' /\ PinKept
  BY StoreKeeps DEF GetJob, StoreUnchanged
<1> PICK j \in {NoJob} \cup JobRow : j = job[JobOf[m]]
  BY JobType DEF TypeInv
<1>2. CASE Delete(m)
  BY <1>1, <1>2, ReturnKeeps DEF Keeps, NoWork, Looping
<1>3. CASE j.status = "PROCESSING" /\ Adopt(m, j) /\ UNCHANGED message
  <2>1. j \in JobRow
    BY <1>3 DEF NoJob
  <2>2. Goes(m, Adopted(j)) /\ Adopted(j) \in Work /\ StepOK(Adopted(j), job'[JobOf[m]])
    BY <1>3, <2>1, AdoptType DEF Adopt, Adopted, Goes, GetJob
  <2> QED
    BY <1>1, <2>2, GoKeeps, AdoptPc DEF Keeps, Looping
<1>4. CASE work' = [work EXCEPT ![m].pc = "config"] /\ UNCHANGED message
  <2>1. work[m] \in Work /\ 1 \in 1..MaxVersion /\ 1 \in 1..MaxRev
    BY JobType DEF TypeInv
  <2>2. Goes(m, ToConfig(work[m]))
    BY <1>4 DEF Goes, ToConfig
  <2> QED
    BY <1>1, <2>1, <2>2, BeginType, GoKeeps DEF Keeps, Looping
<1> QED
  BY <1>2, <1>3, <1>4 DEF GetJob

LEMMA ReadConfigKeeps ==
  ASSUME TypeInv, NEW m \in Messages, ReadConfig(m)
  PROVE  Keeps(m) /\ work'[m].pc \notin Looping
<1>1. StoreOK' /\ PinKept
  BY StoreKeeps DEF ReadConfig, StoreUnchanged
<1>2. CASE Return(m)
  BY <1>1, <1>2, ReturnKeeps DEF Keeps, NoWork, Looping
<1>3. CASE work' = [work EXCEPT ![m].pc = "rules", ![m].rev = config.rev] /\ UNCHANGED message
  <2>1. config.rev \in 1..MaxRev /\ 1 \in 1..MaxVersion /\ work[m] \in Work
    BY JobType DEF TypeInv, TypeOK
  <2>2. Goes(m, ToRules(work[m], config.rev))
    BY <1>3 DEF Goes, ToRules
  <2>3. /\ ToRules(work[m], config.rev) \in Work /\ ToRules(work[m], config.rev).pc = "rules"
        /\ StepOK(ToRules(work[m], config.rev), job'[JobOf[m]])
    BY <2>1, BeginType
  <2> QED
    BY <1>1, <2>2, <2>3, GoKeeps DEF Keeps, Looping
<1> QED
  BY <1>2, <1>3 DEF ReadConfig

LEMMA ReadRulesKeeps ==
  ASSUME TypeInv, NEW m \in Messages, ReadRules(m)
  PROVE  Keeps(m) /\ work'[m].pc \notin Looping
<1>1. StoreOK' /\ PinKept
  BY StoreKeeps DEF ReadRules, StoreUnchanged
<1> PICK v \in 1..rules :
      work' = [work EXCEPT ![m].pc = "pin", ![m].version = v]
  BY DEF ReadRules
<1>2. v \in 1..MaxVersion /\ work[m] \in Work /\ work[m].rev \in 1..MaxRev
  <2>1. v \in 1..MaxVersion
    BY DEF TypeInv, TypeOK
  <2>2. work[m] \in Work
    BY JobType DEF TypeInv
  <2>3. work[m].rev \in 1..MaxRev
    BY DEF ReadRules, TypeInv, StepOK
  <2> QED
    BY <2>1, <2>2, <2>3
<1>3. Goes(m, ToPin(work[m], v))
  BY DEF ReadRules, Goes, ToPin
<1>4. /\ ToPin(work[m], v) \in Work /\ ToPin(work[m], v).pc = "pin"
      /\ StepOK(ToPin(work[m], v), job'[JobOf[m]])
  BY <1>2, BeginType
<1> QED
  BY <1>1, <1>3, <1>4, GoKeeps DEF Keeps, Looping

LEMMA PinJobKeeps ==
  ASSUME TypeInv, NEW m \in Messages, PinJob(m)
  PROVE  Keeps(m) /\ work'[m].pc \notin Looping
<1> PICK j \in Jobs : j = JobOf[m]
  OBVIOUS
<1> PICK own : own = [status |-> "PROCESSING", version |-> work[m].version, rev |-> work[m].rev, signals |-> 0]
  OBVIOUS
<1>1. own \in JobRow
  BY DEF PinJob, TypeInv, StepOK, JobRow
<1> PICK item \in JobRow : item = Pinned(job[j], NoJob, own)
  BY <1>1, JobType DEF TypeInv, Pinned
<1>2. job' = [job EXCEPT ![j] = item]
  BY DEF PinJob
<1>3. item # NoJob /\ (job[j] # NoJob => item = job[j])
  BY DEF Pinned, JobRow, NoJob, Terminal
<1>4. job \in [Jobs -> {NoJob} \cup JobRow]
  BY TypeParts DEF TypeInv, StoreOK
<1>5. faults' \in 0..MaxFaults
  BY DEF PinJob, TypeInv, TypeOK, Fault
<1>6. StoreOK' /\ PinKept /\ job'[j] = item
  BY <1>2, <1>3, <1>4, <1>5, TypeParts DEF PinJob, TypeInv, StoreOK, PinKept
<1>7. CASE Return(m)
  BY <1>6, <1>7, ReturnKeeps DEF Keeps, NoWork, Looping
<1>8. CASE Adopt(m, item) /\ UNCHANGED message
  <2>1. Goes(m, Adopted(item)) /\ Adopted(item) \in Work /\ StepOK(Adopted(item), job'[JobOf[m]])
    BY <1>6, <1>8, AdoptType DEF Adopt, Adopted, Goes
  <2> QED
    BY <1>6, <2>1, GoKeeps, AdoptPc DEF Keeps, Looping
<1> QED
  BY <1>7, <1>8 DEF PinJob
(* Work in the loop over the records.                                      *)
ToLoop(w) == [w EXCEPT !.pc = "record", !.index = 1]

Quarantined(w) == [w EXCEPT !.pc = "record", !.index = @ + 1, !.failures = @ + 1]

Passed(w) == [w EXCEPT !.pc = "record", !.index = @ + 1]

ToEvaluate(w) == [w EXCEPT !.pc = "evaluate"]

Sending(w, detections) == [w EXCEPT !.pc = "send", !.todo = detections]

Less(w, d) == [w EXCEPT !.todo = @ \ {d}, !.signals = @ + 1]

LEMMA LoopFields ==
  ASSUME NEW w \in Work, NEW d, NEW detections
  PROVE  /\ ToLoop(w).pc = "record" /\ ToLoop(w).index = 1 /\ ToLoop(w).failures = w.failures
         /\ ToLoop(w).version = w.version /\ ToLoop(w).rev = w.rev /\ ToLoop(w).signals = w.signals
         /\ Quarantined(w).pc = "record" /\ Quarantined(w).index = w.index + 1
         /\ Quarantined(w).failures = w.failures + 1 /\ Quarantined(w).version = w.version
         /\ Quarantined(w).rev = w.rev /\ Quarantined(w).signals = w.signals
         /\ Passed(w).pc = "record" /\ Passed(w).index = w.index + 1 /\ Passed(w).failures = w.failures
         /\ Passed(w).version = w.version /\ Passed(w).rev = w.rev /\ Passed(w).signals = w.signals
         /\ ToEvaluate(w).pc = "evaluate" /\ ToEvaluate(w).index = w.index
         /\ ToEvaluate(w).failures = w.failures /\ ToEvaluate(w).version = w.version
         /\ ToEvaluate(w).rev = w.rev /\ ToEvaluate(w).signals = w.signals
         /\ Sending(w, detections).pc = "send" /\ Sending(w, detections).todo = detections
         /\ Sending(w, detections).index = w.index /\ Sending(w, detections).failures = w.failures
         /\ Sending(w, detections).version = w.version /\ Sending(w, detections).rev = w.rev
         /\ Sending(w, detections).signals = w.signals
         /\ Less(w, d).pc = w.pc /\ Less(w, d).todo = w.todo \ {d} /\ Less(w, d).index = w.index
         /\ Less(w, d).failures = w.failures /\ Less(w, d).version = w.version
         /\ Less(w, d).rev = w.rev /\ Less(w, d).signals = w.signals + 1
<1>1. DOMAIN w = {"pc", "version", "rev", "index", "todo", "failures", "signals"}
  BY DEF Work
<1>2. /\ ToLoop(w).pc = "record" /\ ToLoop(w).index = 1 /\ ToLoop(w).failures = w.failures
      /\ ToLoop(w).version = w.version /\ ToLoop(w).rev = w.rev /\ ToLoop(w).signals = w.signals
  BY <1>1 DEF ToLoop
<1>3. /\ Quarantined(w).pc = "record" /\ Quarantined(w).index = w.index + 1
      /\ Quarantined(w).failures = w.failures + 1 /\ Quarantined(w).version = w.version
      /\ Quarantined(w).rev = w.rev /\ Quarantined(w).signals = w.signals
  BY <1>1 DEF Quarantined
<1>4. /\ Passed(w).pc = "record" /\ Passed(w).index = w.index + 1 /\ Passed(w).failures = w.failures
      /\ Passed(w).version = w.version /\ Passed(w).rev = w.rev /\ Passed(w).signals = w.signals
  BY <1>1 DEF Passed
<1>5. /\ ToEvaluate(w).pc = "evaluate" /\ ToEvaluate(w).index = w.index
      /\ ToEvaluate(w).failures = w.failures /\ ToEvaluate(w).version = w.version
      /\ ToEvaluate(w).rev = w.rev /\ ToEvaluate(w).signals = w.signals
  BY <1>1 DEF ToEvaluate
<1>6. /\ Sending(w, detections).pc = "send" /\ Sending(w, detections).todo = detections
      /\ Sending(w, detections).index = w.index /\ Sending(w, detections).failures = w.failures
      /\ Sending(w, detections).version = w.version /\ Sending(w, detections).rev = w.rev
      /\ Sending(w, detections).signals = w.signals
  BY <1>1 DEF Sending
<1>7. /\ Less(w, d).pc = w.pc /\ Less(w, d).todo = w.todo \ {d} /\ Less(w, d).index = w.index
      /\ Less(w, d).failures = w.failures /\ Less(w, d).version = w.version
      /\ Less(w, d).rev = w.rev /\ Less(w, d).signals = w.signals + 1
  BY <1>1 DEF Less
<1> QED
  BY <1>2, <1>3, <1>4, <1>5, <1>6, <1>7

LEMMA LoopBounds ==
  ASSUME NEW w \in Work, NEW j, StepOK(w, j)
  PROVE  /\ w.pc = "fetch" => w.failures = 0
         /\ w.pc \in Looping => w.index \in 1..Records + 1 /\ w.failures < w.index
         /\ w.pc \in Looping /\ w.index <= Records =>
              w.index \in Indices /\ w.failures + 1 \in 0..Records /\ w.index + 1 \in 1..Records + 1
BY DEF StepOK, Work, Looping, Indices

LEMMA LoopOK ==
  ASSUME NEW w, NEW j, StepOK(w, j), w.pc \in {"fetch"} \cup Looping,
         NEW u, u.pc \in Looping, u.version = w.version, u.rev = w.rev,
         u.index \in 1..Records + 1, u.failures < u.index, u.pc # "record" => u.index <= Records
  PROVE  StepOK(u, j)
BY DEF StepOK, Looping

LEMMA LoopWork ==
  ASSUME NEW w \in Work, NEW j, StepOK(w, j)
  PROVE  /\ w.pc = "fetch" => ToLoop(w) \in Work /\ StepOK(ToLoop(w), j)
         /\ w.pc \in Looping /\ w.index <= Records =>
              /\ Quarantined(w) \in Work /\ StepOK(Quarantined(w), j)
              /\ Passed(w) \in Work /\ StepOK(Passed(w), j)
              /\ ToEvaluate(w) \in Work /\ StepOK(ToEvaluate(w), j)
              /\ \A ds \in SUBSET Detections : Sending(w, ds) \in Work /\ StepOK(Sending(w, ds), j)
         /\ w.pc = "send" => \A d : Less(w, d) \in Work /\ StepOK(Less(w, d), j)
<1>1. CASE w.pc = "fetch"
  <2>1. ToLoop(w) \in Work
    <3>1. 1 \in 0..Records + 1 /\ "record" \in Steps
      BY DEF Steps
    <3> QED
      BY <3>1 DEF ToLoop, Work
  <2>2. StepOK(ToLoop(w), j)
    <3>1. 1 \in 1..Records + 1 /\ w.failures = 0
      BY <1>1, LoopBounds
    <3>2. /\ ToLoop(w).pc = "record" /\ ToLoop(w).index = 1 /\ ToLoop(w).failures = 0
          /\ ToLoop(w).version = w.version /\ ToLoop(w).rev = w.rev
      BY <3>1, LoopFields
    <3> QED
      BY <1>1, <3>1, <3>2, LoopOK DEF Looping
  <2> QED
    BY <1>1, <2>1, <2>2 DEF Looping
<1>2. CASE w.pc \in Looping /\ w.index <= Records
  <2>1. /\ w.index \in Indices /\ w.failures + 1 \in 0..Records /\ w.index + 1 \in 1..Records + 1
        /\ w.failures < w.index /\ w.failures \in 0..Records /\ w.signals \in Nat
        /\ w.index + 1 \in 0..Records + 1
    <3>1. /\ w.index \in Indices /\ w.failures + 1 \in 0..Records /\ w.index + 1 \in 1..Records + 1
          /\ w.failures < w.index
      BY <1>2, LoopBounds
    <3>2. w.failures \in 0..Records /\ w.signals \in Nat
      BY DEF Work
    <3>3. w.index + 1 \in 0..Records + 1
      BY <3>1
    <3> QED
      BY <3>1, <3>2, <3>3
  <2>2. Quarantined(w) \in Work /\ StepOK(Quarantined(w), j)
    <3>1. Quarantined(w) \in Work
      BY <2>1 DEF Quarantined, Work, Steps
    <3>2. /\ Quarantined(w).pc = "record" /\ Quarantined(w).index = w.index + 1
          /\ Quarantined(w).failures = w.failures + 1 /\ Quarantined(w).version = w.version
          /\ Quarantined(w).rev = w.rev
      BY LoopFields
    <3>3. w.failures + 1 < w.index + 1
      BY <2>1 DEF Indices
    <3> QED
      BY <1>2, <2>1, <3>1, <3>2, <3>3, LoopOK DEF Looping, Indices
  <2>3. Passed(w) \in Work /\ StepOK(Passed(w), j)
    <3>1. Passed(w) \in Work
      BY <2>1 DEF Passed, Work, Steps
    <3>2. /\ Passed(w).pc = "record" /\ Passed(w).index = w.index + 1
          /\ Passed(w).failures = w.failures /\ Passed(w).version = w.version
          /\ Passed(w).rev = w.rev
      BY LoopFields
    <3>3. w.failures + 1 < w.index + 1
      BY <2>1 DEF Indices
    <3> QED
      BY <1>2, <2>1, <3>1, <3>2, <3>3, LoopOK DEF Looping, Indices
  <2>4. ToEvaluate(w) \in Work /\ StepOK(ToEvaluate(w), j)
    <3>1. ToEvaluate(w) \in Work
      BY <2>1 DEF ToEvaluate, Work, Steps
    <3>2. /\ ToEvaluate(w).pc = "evaluate" /\ ToEvaluate(w).index = w.index
          /\ ToEvaluate(w).failures = w.failures /\ ToEvaluate(w).version = w.version
          /\ ToEvaluate(w).rev = w.rev
      BY LoopFields
    <3>3. w.failures + 1 < w.index + 1
      BY <2>1 DEF Indices
    <3> QED
      BY <1>2, <2>1, <3>1, <3>2, <3>3, LoopOK DEF Looping, Indices
  <2>5. ASSUME NEW ds \in SUBSET Detections
        PROVE  Sending(w, ds) \in Work /\ StepOK(Sending(w, ds), j)
    <3>1. Sending(w, ds) \in Work
      BY <2>1 DEF Sending, Work, Steps
    <3>2. /\ Sending(w, ds).pc = "send" /\ Sending(w, ds).index = w.index
          /\ Sending(w, ds).failures = w.failures /\ Sending(w, ds).version = w.version
          /\ Sending(w, ds).rev = w.rev
      BY LoopFields
    <3>3. w.failures + 1 < w.index + 1
      BY <2>1 DEF Indices
    <3> QED
      BY <1>2, <2>1, <3>1, <3>2, <3>3, LoopOK DEF Looping, Indices
  <2>6. ASSUME NEW d, w.pc = "send"
        PROVE  Less(w, d) \in Work /\ StepOK(Less(w, d), j)
    <3>1. Less(w, d) \in Work
      <4>1. w.signals + 1 \in Nat /\ w.todo \ {d} \in SUBSET Detections
        BY DEF Work
      <4> QED
        BY <4>1 DEF Less, Work
    <3>2. /\ Less(w, d).pc = "send" /\ Less(w, d).index = w.index
          /\ Less(w, d).failures = w.failures /\ Less(w, d).version = w.version
          /\ Less(w, d).rev = w.rev
      BY <2>6, LoopFields
    <3>3. w.failures + 1 < w.index + 1
      BY <2>1 DEF Indices
    <3> QED
      BY <1>2, <2>1, <3>1, <3>2, <3>3, LoopOK DEF Looping, Indices
  <2> QED
    BY <1>2, <2>2, <2>3, <2>4, <2>5, <2>6 DEF Looping
<1>3. w.pc = "send" => w.pc \in Looping /\ w.index <= Records
  BY DEF StepOK, Looping
<1> QED
  BY <1>1, <1>2, <1>3

(* The job's status is written, its pins are not touched.                  *)
LEMMA JobKeeps ==
  ASSUME TypeInv, NEW j \in Jobs, NEW row \in JobRow,
         job[j].version = row.version, job[j].rev = row.rev,
         job' = [job EXCEPT ![j] = row], UNCHANGED <<rules, config, record, sent>>,
         UNCHANGED faults \/ Fault
  PROVE  StoreOK' /\ PinKept /\ job'[j] = row
<1>1. job \in [Jobs -> {NoJob} \cup JobRow] /\ row # NoJob
  BY TypeParts DEF TypeInv, StoreOK, JobRow, NoJob, Terminal
<1>2. faults' \in 0..MaxFaults
  BY DEF TypeInv, TypeOK, Fault
<1>3. job' \in [Jobs -> {NoJob} \cup JobRow] /\ job'[j] = row /\ \A i \in Jobs : i # j => job'[i] = job[i]
  BY <1>1
<1>4. PinKept
  BY <1>1, <1>3 DEF PinKept
<1> QED
  BY <1>2, <1>3, <1>4, TypeParts DEF TypeInv, StoreOK

FetchedRow(m) == [job[JobOf[m]] EXCEPT !.status = "QUARANTINED"]

LEMMA FetchedType ==
  ASSUME TypeInv, NEW m \in Messages, work[m].pc = "fetch"
  PROVE  /\ FetchedRow(m) \in JobRow
         /\ FetchedRow(m).status = "QUARANTINED"
         /\ FetchedRow(m).version = job[JobOf[m]].version
         /\ FetchedRow(m).rev = job[JobOf[m]].rev
         /\ FetchedRow(m).signals = job[JobOf[m]].signals
BY LoopType DEF FetchedRow, JobRow, Terminal

LEMMA FetchKeeps ==
  ASSUME TypeInv, NEW m \in Messages, Fetch(m)
  PROVE  /\ Keeps(m)
         /\ \/ work[m].rev \in Framed /\ work'[m] = ToLoop(work[m]) /\ UNCHANGED job
            \/ /\ work[m].rev \notin Framed /\ work'[m] = NoWork
               /\ job' = [job EXCEPT ![JobOf[m]] = FetchedRow(m)]
<1>0. JobOf[m] \in Jobs /\ work[m] \in Work /\ work[m].pc = "fetch" /\ StepOK(work[m], job[JobOf[m]])
  BY JobType DEF Fetch, TypeInv
<1>1. CASE work[m].rev \in Framed /\ work' = [work EXCEPT ![m].pc = "record", ![m].index = 1] /\ UNCHANGED <<faults, job, message>>
  <2>1. StoreOK' /\ PinKept
    BY <1>1, StoreKeeps DEF Fetch, StoreUnchanged
  <2>2. Goes(m, ToLoop(work[m])) /\ UNCHANGED job
    BY <1>1 DEF Goes, ToLoop
  <2>3. ToLoop(work[m]) \in Work /\ StepOK(ToLoop(work[m]), job'[JobOf[m]])
    BY <1>0, <2>2, LoopWork
  <2> QED
    BY <1>1, <2>1, <2>2, <2>3, GoKeeps DEF Keeps
<1>2. CASE work[m].rev \notin Framed /\ job' = [job EXCEPT ![JobOf[m]].status = "QUARANTINED"] /\ (Return(m) \/ Delete(m))
  <2>1. job' = [job EXCEPT ![JobOf[m]] = FetchedRow(m)]
    BY <1>2 DEF FetchedRow
  <2>2. StoreOK' /\ PinKept
    BY <1>0, <2>1, JobKeeps, FetchedType DEF Fetch
  <2> QED
    BY <1>2, <2>1, <2>2, ReturnKeeps DEF Keeps
<1> QED
  BY <1>1, <1>2 DEF Fetch

FinishedRow(m) == [job[JobOf[m]] EXCEPT !.status = Outcome(m), !.signals = work[m].signals]

LEMMA FinishedType ==
  ASSUME TypeInv, NEW m \in Messages, work[m].pc = "record"
  PROVE  /\ FinishedRow(m) \in JobRow
         /\ FinishedRow(m).status = Outcome(m)
         /\ FinishedRow(m).version = job[JobOf[m]].version
         /\ FinishedRow(m).rev = job[JobOf[m]].rev
         /\ FinishedRow(m).signals = work[m].signals
<1>1. job[JobOf[m]] \in JobRow /\ work[m].signals \in Nat /\ Outcome(m) \in Terminal
  BY LoopType DEF Looping, Work, Outcome, Terminal
<1> QED
  BY <1>1 DEF FinishedRow, JobRow

LEMMA FinishKeeps ==
  ASSUME TypeInv, NEW m \in Messages, Finish(m)
  PROVE  /\ Keeps(m) /\ work'[m] = NoWork
         /\ job' = [job EXCEPT ![JobOf[m]] = FinishedRow(m)]
<1>1. JobOf[m] \in Jobs /\ work[m].pc = "record" /\ (Return(m) \/ Delete(m))
  BY JobType DEF Finish, TypeInv
<1>2. job' = [job EXCEPT ![JobOf[m]] = FinishedRow(m)]
  BY DEF Finish, FinishedRow
<1>3. StoreOK' /\ PinKept
  BY <1>1, <1>2, JobKeeps, FinishedType DEF Finish
<1> QED
  BY <1>1, <1>2, <1>3, ReturnKeeps DEF Keeps

(* How the loop goes on with a record.                                     *)
ProceedsTo(saved, w, u) ==
  \/ saved.status = "QUARANTINED" /\ u = Quarantined(w)
  \/ saved.status = "DROPPED" /\ u = Passed(w)
  \/ saved.status = "EVALUATED" /\ u = Sending(w, saved.detections)

LEMMA ProceedKeeps ==
  ASSUME TypeInv, StoreOK', PinKept, NEW m \in Messages,
         work[m].pc \in Looping, work[m].index <= Records,
         NEW saved \in RecordRow, Proceed(m, saved), UNCHANGED message
  PROVE  Keeps(m) /\ ProceedsTo(saved, work[m], work'[m])
<1>1. saved.detections \in SUBSET Detections
  BY DEF RecordRow
<1>2. work[m] \in Work /\ StepOK(work[m], job'[JobOf[m]])
  BY JobType, StepKept DEF TypeInv
<1>3. CASE saved.status = "QUARANTINED" /\ Goes(m, Quarantined(work[m]))
  BY <1>2, <1>3, LoopWork, GoKeeps DEF Keeps, ProceedsTo
<1>4. CASE saved.status = "DROPPED" /\ Goes(m, Passed(work[m]))
  BY <1>2, <1>4, LoopWork, GoKeeps DEF Keeps, ProceedsTo
<1>5. CASE saved.status = "EVALUATED" /\ Goes(m, Sending(work[m], saved.detections))
  <2>1. /\ Sending(work[m], saved.detections) \in Work
        /\ StepOK(Sending(work[m], saved.detections), job'[JobOf[m]])
    BY <1>1, <1>2, LoopWork
  <2> QED
    BY <1>5, <2>1, GoKeeps DEF Keeps, ProceedsTo
<1> QED
  BY <1>3, <1>4, <1>5 DEF Goes, Proceed, Quarantined, Passed, Sending

LEMMA GetRecordKeeps ==
  ASSUME TypeInv, NEW m \in Messages, GetRecord(m)
  PROVE  /\ Keeps(m)
         /\ \/ work'[m] = ToEvaluate(work[m])
            \/ LET saved == record[<<JobOf[m], work[m].index>>] IN
               saved # NoRecord /\ ProceedsTo(saved, work[m], work'[m])
<1>1. StoreOK' /\ PinKept
  BY StoreKeeps DEF GetRecord, StoreUnchanged
<1>2. work[m].pc \in Looping /\ work[m].index <= Records /\ <<JobOf[m], work[m].index>> \in Jobs \X Indices
  BY LoopType, LoopBounds DEF GetRecord, Looping, TypeInv
<1> PICK saved \in {NoRecord} \cup RecordRow : saved = record[<<JobOf[m], work[m].index>>]
  BY <1>2, TypeParts DEF TypeInv, StoreOK
<1>3. CASE saved # NoRecord /\ Proceed(m, saved)
  BY <1>1, <1>2, <1>3, ProceedKeeps DEF GetRecord
<1>4. CASE work' = [work EXCEPT ![m].pc = "evaluate"]
  <2>1. Goes(m, ToEvaluate(work[m]))
    BY <1>4 DEF GetRecord, Goes, ToEvaluate
  <2>2. work[m] \in Work /\ StepOK(work[m], job'[JobOf[m]])
    BY <1>1, JobType, StepKept DEF TypeInv
  <2>3. ToEvaluate(work[m]) \in Work /\ StepOK(ToEvaluate(work[m]), job'[JobOf[m]])
    BY <1>2, <2>2, LoopWork
  <2> QED
    BY <1>1, <2>1, <2>3, GoKeeps DEF Keeps
<1> QED
  BY <1>3, <1>4 DEF GetRecord

EvaluatedRow(m, status) ==
  [status |-> status, detections |-> IF status = "EVALUATED" THEN Evaluated(m) ELSE {}]

LEMMA RecordKey ==
  ASSUME TypeInv, NEW m \in Messages, work[m].pc \in {"evaluate", "send"}
  PROVE  /\ work[m].pc \in Looping
         /\ work[m].index <= Records
         /\ work[m].index \in Indices
         /\ JobOf[m] \in Jobs
         /\ <<JobOf[m], work[m].index>> \in Jobs \X Indices
<1>1. work[m].pc \in Looping
  BY DEF Looping
<1>2. JobOf[m] \in Jobs /\ work[m] \in Work /\ StepOK(work[m], job[JobOf[m]])
  BY JobType DEF TypeInv
<1>3. work[m].index \in Indices
  BY <1>1, <1>2 DEF StepOK, Indices
<1> QED
  BY <1>1, <1>2, <1>3 DEF Indices

LEMMA EvaluatedType ==
  ASSUME TypeInv, NEW m \in Messages, work[m].pc = "evaluate", NEW status \in Outcomes[work[m].index]
  PROVE  EvaluatedRow(m, status) \in RecordRow
<1>1. work[m].index \in Indices /\ JobOf[m] \in Jobs
  BY RecordKey
<1>2. work[m].version \in 1..MaxVersion /\ work[m].rev \in 1..MaxRev
  BY LoopType DEF Looping
<1>3. Matching[work[m].version] \subseteq Rules
  BY <1>2
<1>4. Evaluated(m) \subseteq Detections
  BY <1>1, <1>2, <1>3 DEF Evaluated, Detections
<1>5. status \in Statuses
  BY <1>1
<1> QED
  BY <1>4, <1>5 DEF EvaluatedRow, RecordRow

(* A record's row is the first one written.                                *)
RecordKept ==
  \A r \in Jobs \X Indices : record[r] # NoRecord => record'[r] = record[r]

EvaluatesTo(m, status, r, saved) ==
  /\ r = <<JobOf[m], work[m].index>>
  /\ saved = Pinned(record[r], NoRecord, EvaluatedRow(m, status))
  /\ record' = [record EXCEPT ![r] = saved]
  /\ work'[m] = NoWork \/ ProceedsTo(saved, work[m], work'[m])

LEMMA EvaluateKeeps ==
  ASSUME TypeInv, NEW m \in Messages, Evaluate(m)
  PROVE  /\ Keeps(m) /\ RecordKept
         /\ \E status \in Outcomes[work[m].index], r \in Jobs \X Indices, saved \in RecordRow :
              EvaluatesTo(m, status, r, saved)
<1> PICK r \in Jobs \X Indices : r = <<JobOf[m], work[m].index>>
  BY RecordKey DEF Evaluate
<1>1. work[m].pc \in Looping /\ work[m].index <= Records
  BY RecordKey DEF Evaluate
<1> PICK status \in Outcomes[work[m].index] :
      LET saved == Pinned(record[r], NoRecord, EvaluatedRow(m, status)) IN
      /\ record' = [record EXCEPT ![r] = saved]
      /\ \/ Proceed(m, saved) /\ UNCHANGED <<faults, message>>
         \/ Return(m) /\ Fault
  BY DEF Evaluate, EvaluatedRow
<1> PICK saved : saved = Pinned(record[r], NoRecord, EvaluatedRow(m, status))
  OBVIOUS
<1>2. saved \in RecordRow /\ (record[r] # NoRecord => saved = record[r])
  BY EvaluatedType, TypeParts DEF Evaluate, TypeInv, StoreOK, Pinned
<1>3. record \in [Jobs \X Indices -> {NoRecord} \cup RecordRow]
  BY TypeParts DEF TypeInv, StoreOK
<1>4. record' \in [Jobs \X Indices -> {NoRecord} \cup RecordRow] /\ RecordKept
  BY <1>2, <1>3 DEF RecordKept
<1>5. faults' \in 0..MaxFaults /\ PinKept
  <2>1. (UNCHANGED faults \/ Fault) /\ UNCHANGED job
    BY Zenon DEF Evaluate
  <2>2. faults \in 0..MaxFaults
    BY Zenon DEF TypeInv, TypeOK
  <2>3. faults' \in 0..MaxFaults
    BY <2>1, <2>2 DEF Fault
  <2>4. PinKept
    BY <2>1 DEF PinKept
  <2> QED
    BY <2>3, <2>4
<1>6. StoreOK' /\ PinKept
  BY <1>4, <1>5, TypeParts DEF Evaluate, TypeInv, StoreOK
<1>7. CASE Proceed(m, saved) /\ UNCHANGED message
  <2>1. Keeps(m) /\ ProceedsTo(saved, work[m], work'[m])
    BY <1>1, <1>2, <1>6, <1>7, ProceedKeeps
  <2>2. EvaluatesTo(m, status, r, saved)
    BY <2>1 DEF EvaluatesTo
  <2> QED
    BY <1>2, <1>4, <2>1, <2>2
<1>8. CASE Return(m)
  <2>1. Keeps(m) /\ work'[m] = NoWork
    BY <1>6, <1>8, ReturnKeeps DEF Keeps
  <2>2. EvaluatesTo(m, status, r, saved)
    BY <2>1 DEF EvaluatesTo
  <2> QED
    BY <1>2, <1>4, <2>1, <2>2
<1> QED
  BY <1>7, <1>8

LEMMA SendKeeps ==
  ASSUME TypeInv, NEW m \in Messages, Send(m)
  PROVE  /\ Keeps(m)
         /\ \E d \in work[m].todo :
              /\ sent' = sent \cup {d}
              /\ work'[m] = NoWork \/ work'[m] = Less(work[m], d)
<1> PICK d \in work[m].todo :
      /\ sent' = sent \cup {d}
      /\ \/ /\ work' = [work EXCEPT ![m].todo = @ \ {d}, ![m].signals = @ + 1]
            /\ UNCHANGED <<faults, message>>
         \/ Return(m) /\ Fault
  BY DEF Send
<1>1. work[m].pc = "send" /\ work[m] \in Work /\ d \in Detections
  BY JobType DEF Send, TypeInv, Work
<1>2. faults' \in 0..MaxFaults /\ PinKept
  BY DEF Send, TypeInv, TypeOK, Fault, PinKept
<1>3. StoreOK' /\ PinKept
  BY <1>1, <1>2, TypeParts DEF Send, TypeInv, StoreOK
<1>4. CASE work' = [work EXCEPT ![m].todo = @ \ {d}, ![m].signals = @ + 1] /\ UNCHANGED message
  <2>1. Goes(m, Less(work[m], d))
    BY <1>4 DEF Goes, Less
  <2>2. Less(work[m], d) \in Work /\ StepOK(Less(work[m], d), job'[JobOf[m]])
    BY <1>1, <1>3, StepKept, LoopWork
  <2> QED
    BY <1>3, <2>1, <2>2, GoKeeps DEF Keeps
<1>5. CASE Return(m)
  BY <1>3, <1>5, ReturnKeeps DEF Keeps
<1> QED
  BY <1>4, <1>5

LEMMA NextRecordKeeps ==
  ASSUME TypeInv, NEW m \in Messages, NextRecord(m)
  PROVE  Keeps(m) /\ work'[m] = Passed(work[m])
<1>1. StoreOK' /\ PinKept
  BY StoreKeeps DEF NextRecord, StoreUnchanged
<1>2. Goes(m, Passed(work[m]))
  BY DEF NextRecord, Goes, Passed
<1>3. work[m].pc \in Looping /\ work[m].index <= Records
  BY DEF NextRecord, TypeInv, StepOK, Looping
<1>4. Passed(work[m]) \in Work /\ StepOK(Passed(work[m]), job'[JobOf[m]])
  BY <1>1, <1>3, JobType, StepKept, LoopWork DEF TypeInv
<1> QED
  BY <1>1, <1>2, <1>4, GoKeeps DEF Keeps

LEMMA CrashKeeps ==
  ASSUME TypeInv, NEW m \in Messages, Crash(m)
  PROVE  Keeps(m) /\ work'[m] = NoWork
<1>1. StoreOK' /\ PinKept
  BY StoreKeeps DEF Crash, StoreUnchanged
<1> QED
  BY <1>1, ReturnKeeps DEF Crash, Keeps

LEMMA HandleKeeps ==
  ASSUME TypeInv, NEW m \in Messages, Handle(m) \/ Crash(m)
  PROVE  Keeps(m)
BY GetJobKeeps, ReadConfigKeeps, ReadRulesKeeps, PinJobKeeps, FetchKeeps, GetRecordKeeps,
   EvaluateKeeps, SendKeeps, NextRecordKeeps, FinishKeeps, CrashKeeps DEF Handle

-----------------------------------------------------------------------------
(* The steps of the others                                                 *)

LEMMA ReceiveKeeps ==
  ASSUME TypeInv, NEW m \in Messages, Receive(m)
  PROVE  TypeInv' /\ PinKept
<1>1. StoreOK' /\ PinKept
  BY StoreKeeps DEF Receive, StoreUnchanged
<1>2. work[m] \in Work /\ message[m] \in Message /\ message[m].receives < MaxReceives
  BY JobType DEF Receive, TypeInv, MessageInv
<1>3. [state |-> "handled", receives |-> message[m].receives + 1] \in Message
  BY <1>2 DEF Message
<1>4. [work[m] EXCEPT !.pc = "job"] \in Work /\ [work[m] EXCEPT !.pc = "job"].pc = "job"
  BY <1>2 DEF Work, Steps
<1>5. /\ message' \in [Messages -> Message]
      /\ message'[m].state = "handled"
      /\ \A n \in Messages : n # m => message'[n] = message[n]
  BY <1>3, TypeParts DEF Receive, TypeInv
<1>6. /\ work' \in [Messages -> Work]
      /\ work'[m].pc = "job"
      /\ \A n \in Messages : n # m => work'[n] = work[n]
  BY <1>4, TypeParts DEF Receive, TypeInv
<1>7. TypeOK'
  BY <1>1, <1>5, <1>6 DEF TypeOK, StoreOK, Message, Work, JobRow, RecordRow
<1>8. \A n \in Messages : MessageInv(n)'
  BY <1>5 DEF TypeInv, MessageInv
<1>9. \A n \in Messages : StepOK(work'[n], job'[JobOf[n]])
  BY <1>1, <1>6, StepKept DEF StepOK, Looping
<1> QED
  BY <1>1, <1>7, <1>8, <1>9 DEF TypeInv

LEMMA PostReplayKeeps ==
  ASSUME TypeInv, NEW m \in Messages, PostReplay(m)
  PROVE  TypeInv' /\ PinKept
<1>1. StoreOK' /\ PinKept
  BY StoreKeeps DEF PostReplay, StoreUnchanged
<1>2. message[m] \in Message /\ message[m].receives = 0
  BY JobType DEF PostReplay, TypeInv, MessageInv
<1>3. /\ [message[m] EXCEPT !.state = "visible"] \in Message
      /\ [message[m] EXCEPT !.state = "visible"].receives = 0
      /\ [message[m] EXCEPT !.state = "visible"].state = "visible"
  BY <1>2 DEF Message
<1>4. /\ message' \in [Messages -> Message]
      /\ message'[m].receives = 0 /\ message'[m].state = "visible"
      /\ \A n \in Messages : n # m => message'[n] = message[n]
  BY <1>3, TypeParts DEF PostReplay, TypeInv
<1>5. TypeOK'
  BY <1>1, <1>4, TypeParts DEF PostReplay, TypeInv, TypeOK, StoreOK, Message, Work, JobRow, RecordRow
<1>6. \A n \in Messages : MessageInv(n)'
  BY <1>4 DEF TypeInv, MessageInv
<1>7. \A n \in Messages : StepOK(work'[n], job'[JobOf[n]])
  BY DEF PostReplay, TypeInv
<1> QED
  BY <1>1, <1>5, <1>6, <1>7 DEF TypeInv

LEMMA ManageKeeps ==
  ASSUME TypeInv, ChangeRules \/ PutConfig \/ UNCHANGED vars
  PROVE  TypeInv' /\ PinKept
<1>1. UNCHANGED <<faults, job, record, message, work, sent>> /\ rules' \in 1..MaxVersion
  BY DEF ChangeRules, PutConfig, vars, TypeInv, TypeOK
<1>2. config' \in [rev : 1..MaxRev, enabled : BOOLEAN]
  <2>1. config \in [rev : 1..MaxRev, enabled : BOOLEAN]
    BY DEF TypeInv, TypeOK
  <2>2. config.rev < MaxRev => config.rev + 1 \in 1..MaxRev
    BY <2>1
  <2> QED
    BY <2>1, <2>2 DEF ChangeRules, PutConfig, vars
<1>3. TypeOK'
  BY <1>1, <1>2 DEF TypeInv, TypeOK
<1> QED
  BY <1>1, <1>3 DEF TypeInv, MessageInv, PinKept

LEMMA InitType == Init => TypeInv
<1> SUFFICES ASSUME Init PROVE TypeInv
  OBVIOUS
<1>1. TypeOK
  BY DEF Init, TypeOK, NoWork, Steps
<1>2. \A m \in Messages : MessageInv(m)
  BY DEF Init, MessageInv
<1>3. \A m \in Messages : work[m].pc = "none"
  BY DEF Init, NoWork
<1> QED
  BY <1>1, <1>2, <1>3 DEF TypeInv, StepOK, Looping

LEMMA StepType == TypeInv /\ [Next]_vars => TypeInv' /\ PinKept
<1> SUFFICES ASSUME TypeInv, [Next]_vars PROVE TypeInv' /\ PinKept
  OBVIOUS
<1>1. ASSUME NEW m \in Messages, Handle(m) \/ Crash(m) PROVE TypeInv' /\ PinKept
  BY <1>1, HandleKeeps DEF Keeps
<1> QED
  BY <1>1, ReceiveKeeps, PostReplayKeeps, ManageKeeps DEF Next

(* Everything in the tables, the queue and the invocations has its type, and *)
(* no message is received more often than its limit.                       *)
THEOREM TypeCorrect == Spec => []TypeOK
<1>1. TypeInv => TypeOK
  BY DEF TypeInv
<1>2. Spec => []TypeInv
  BY InitType, StepType, PTL DEF Spec
<1> QED
  BY <1>1, <1>2, PTL

-----------------------------------------------------------------------------
(* What an invocation in the loop has done: the rows behind it are written  *)
(* and their detections sent, and it counted each of them once.            *)

(* The detections of the first n records.                                  *)
Found(j, n, rec) == UNION {rec[<<j, i>>].detections : i \in 1..n}

Counted(w, j, rec) ==
  Found(j, w.index - 1, rec) \cup
    (IF w.pc = "send" THEN rec[<<j, w.index>>].detections \ w.todo ELSE {})

Tallies(n, S) == IsFiniteSet(S) /\ n = Cardinality(S)

Behind(w, j, rec, snt) ==
  /\ \A i \in 1..(w.index - 1) : rec[<<j, i>>] # NoRecord /\ rec[<<j, i>>].detections \subseteq snt
  /\ w.failures > 0 <=> \E i \in 1..(w.index - 1) : rec[<<j, i>>].status = "QUARANTINED"

AtSend(w, j, rec, snt) ==
  /\ rec[<<j, w.index>>].status = "EVALUATED"
  /\ w.todo \subseteq rec[<<j, w.index>>].detections
  /\ rec[<<j, w.index>>].detections \ w.todo \subseteq snt

Progress(w, j, rec, snt) == w.pc \in Looping =>
  /\ w.rev \in Framed
  /\ Behind(w, j, rec, snt)
  /\ Tallies(w.signals, Counted(w, j, rec))
  /\ w.pc = "send" => AtSend(w, j, rec, snt)

LEMMA FoundMore ==
  ASSUME NEW j, NEW rec, NEW n \in Nat \ {0}
  PROVE  Found(j, n, rec) = Found(j, n - 1, rec) \cup rec[<<j, n>>].detections
<1>1. 1..n = 1..(n - 1) \cup {n}
  OBVIOUS
<1> QED
  BY <1>1 DEF Found

LEMMA FoundNone == \A j, rec : Found(j, 0, rec) = {}
<1>1. 1..0 = {}
  OBVIOUS
<1> QED
  BY <1>1 DEF Found

LEMMA FoundSame ==
  ASSUME NEW j, NEW rec, NEW rec2, NEW n \in Nat, \A i \in 1..n : rec2[<<j, i>>] = rec[<<j, i>>]
  PROVE  Found(j, n, rec2) = Found(j, n, rec)
BY DEF Found

(* An invocation enters the loop.                                          *)
LEMMA ProgressBegins ==
  ASSUME NEW w \in Work, w.rev \in Framed, w.failures = 0, w.signals = 0, NEW j, NEW rec, NEW snt
  PROVE  Progress(ToLoop(w), j, rec, snt)
<1>1. /\ ToLoop(w).pc = "record" /\ ToLoop(w).index = 1 /\ ToLoop(w).failures = 0
      /\ ToLoop(w).rev = w.rev /\ ToLoop(w).signals = 0
  BY LoopFields
<1>2. 1 - 1 = 0 /\ 1..0 = {}
  OBVIOUS
<1>3. Counted(ToLoop(w), j, rec) = {}
  BY <1>1, <1>2, FoundNone DEF Counted
<1>4. Tallies(0, {})
  BY FS_EmptySet DEF Tallies
<1>5. Behind(ToLoop(w), j, rec, snt)
  BY <1>1, <1>2 DEF Behind
<1> QED
  BY <1>1, <1>3, <1>4, <1>5 DEF Progress

(* It passes a record whose detections it has sent.                        *)
LEMMA ProgressPasses ==
  ASSUME NEW w \in Work, NEW j, NEW rec, NEW snt, Progress(w, j, rec, snt),
         w.pc \in Looping, w.index \in Indices,
         rec[<<j, w.index>>] \in RecordRow,
         w.pc = "send" => w.todo = {},
         w.pc # "send" => rec[<<j, w.index>>].detections = {},
         NEW u \in Work, u.pc = "record", u.index = w.index + 1,
         u.signals = w.signals, u.rev = w.rev,
         u.failures = IF rec[<<j, w.index>>].status = "QUARANTINED" THEN w.failures + 1 ELSE w.failures
  PROVE  Progress(u, j, rec, snt)
<1>1. w.index \in Nat \ {0} /\ u.index - 1 = w.index /\ w.failures \in Nat
  <2>1. w.index \in Nat \ {0}
    BY DEF Indices
  <2>2. w.failures \in Nat
    BY DEF Work
  <2> QED
    BY <2>1, <2>2
<1>2. Behind(w, j, rec, snt) /\ Tallies(w.signals, Counted(w, j, rec)) /\ w.rev \in Framed
  BY DEF Progress
<1>3. rec[<<j, w.index>>] # NoRecord /\ rec[<<j, w.index>>].detections \subseteq snt
  <2>1. rec[<<j, w.index>>] # NoRecord
    BY DEF RecordRow, NoRecord, Statuses
  <2>2. w.pc = "send" => rec[<<j, w.index>>].detections \ w.todo \subseteq snt
    BY DEF Progress, AtSend
  <2> QED
    BY <2>1, <2>2
<1>4. Counted(u, j, rec) = Counted(w, j, rec)
  <2>1. Found(j, w.index, rec) = Found(j, w.index - 1, rec) \cup rec[<<j, w.index>>].detections
    BY <1>1, FoundMore
  <2>2. Counted(u, j, rec) = Found(j, w.index, rec)
    BY <1>1 DEF Counted
  <2>3. CASE w.pc = "send"
    BY <2>1, <2>2, <2>3 DEF Counted
  <2>4. CASE w.pc # "send"
    BY <2>1, <2>2, <2>4 DEF Counted
  <2> QED
    BY <2>3, <2>4
<1>5. 1..w.index = 1..(w.index - 1) \cup {w.index}
  BY <1>1
<1>6. Behind(u, j, rec, snt)
  <2>1. \A i \in 1..(u.index - 1) : rec[<<j, i>>] # NoRecord /\ rec[<<j, i>>].detections \subseteq snt
    BY <1>1, <1>2, <1>3, <1>5 DEF Behind
  <2>2. u.failures > 0 <=> w.failures > 0 \/ rec[<<j, w.index>>].status = "QUARANTINED"
    BY <1>1
  <2> QED
    BY <1>1, <1>2, <1>5, <2>1, <2>2 DEF Behind
<1> QED
  BY <1>2, <1>4, <1>6 DEF Progress

(* It comes to a record with detections, or to one without a row.          *)
LEMMA ProgressArrives ==
  ASSUME NEW w \in Work, NEW j, NEW rec, NEW snt, Progress(w, j, rec, snt),
         w.pc \in {"record", "evaluate"}, w.index \in Indices
  PROVE  /\ Progress(ToEvaluate(w), j, rec, snt)
         /\ rec[<<j, w.index>>].status = "EVALUATED" =>
              Progress(Sending(w, rec[<<j, w.index>>].detections), j, rec, snt)
<1>1. Behind(w, j, rec, snt) /\ Tallies(w.signals, Counted(w, j, rec)) /\ w.rev \in Framed
  BY DEF Progress, Looping
<1>2. ASSUME NEW u, u.pc \in {"evaluate", "send"}, u.index = w.index, u.signals = w.signals,
             u.rev = w.rev, u.failures = w.failures,
             u.pc = "send" => /\ u.todo = rec[<<j, w.index>>].detections
                              /\ rec[<<j, w.index>>].status = "EVALUATED"
      PROVE  Progress(u, j, rec, snt)
  <2>1. Counted(u, j, rec) = Counted(w, j, rec)
    BY <1>2 DEF Counted
  <2>2. Behind(u, j, rec, snt)
    BY <1>1, <1>2 DEF Behind
  <2>3. u.pc = "send" => AtSend(u, j, rec, snt)
    BY <1>2 DEF AtSend
  <2> QED
    BY <1>1, <1>2, <2>1, <2>2, <2>3 DEF Progress
<1>3. /\ ToEvaluate(w).pc = "evaluate" /\ ToEvaluate(w).index = w.index
      /\ ToEvaluate(w).failures = w.failures /\ ToEvaluate(w).rev = w.rev
      /\ ToEvaluate(w).signals = w.signals
  BY LoopFields
<1>4. PICK u : u = Sending(w, rec[<<j, w.index>>].detections)
  OBVIOUS
<1>5. /\ u.pc = "send" /\ u.index = w.index /\ u.todo = rec[<<j, w.index>>].detections
      /\ u.failures = w.failures /\ u.rev = w.rev /\ u.signals = w.signals
  BY <1>4, LoopFields
<1>6. rec[<<j, w.index>>].status = "EVALUATED" => Progress(u, j, rec, snt)
  BY <1>2, <1>5
<1>7. Progress(ToEvaluate(w), j, rec, snt)
  BY <1>2, <1>3
<1> QED
  BY <1>4, <1>6, <1>7

(* It sends one of the detections it owes.                                 *)
LEMMA ProgressSends ==
  ASSUME NEW w \in Work, NEW j, NEW rec, NEW snt, Progress(w, j, rec, snt),
         w.pc = "send", w.index \in Indices,
         \A i \in 1..w.index : \A e \in rec[<<j, i>>].detections : e.index = i,
         NEW d \in w.todo, NEW more, snt \cup {d} \subseteq more
  PROVE  Progress(Less(w, d), j, rec, more)
<1>1. /\ Behind(w, j, rec, snt) /\ Tallies(w.signals, Counted(w, j, rec)) /\ w.rev \in Framed
      /\ AtSend(w, j, rec, snt)
  BY DEF Progress, Looping
<1> PICK u : u = Less(w, d)
  OBVIOUS
<1>2. /\ u.pc = "send" /\ u.todo = w.todo \ {d} /\ u.index = w.index
      /\ u.failures = w.failures /\ u.rev = w.rev /\ u.signals = w.signals + 1
  BY LoopFields
<1>3. d \in rec[<<j, w.index>>].detections /\ d \notin Counted(w, j, rec)
  <2>0. d \in rec[<<j, w.index>>].detections
    BY <1>1 DEF AtSend
  <2>1. d \in rec[<<j, w.index>>].detections /\ d.index = w.index
    <3>1. w.index \in 1..w.index
      BY DEF Indices
    <3> QED
      BY <2>0, <3>1
  <2>2. ASSUME NEW i \in 1..(w.index - 1), d \in rec[<<j, i>>].detections PROVE FALSE
    <3>1. i \in 1..w.index /\ i # w.index
      BY DEF Indices
    <3> QED
      BY <2>1, <2>2, <3>1
  <2>3. d \notin Found(j, w.index - 1, rec)
    BY <2>2 DEF Found
  <2> QED
    BY <2>1, <2>3 DEF Counted
<1>4. Counted(u, j, rec) = Counted(w, j, rec) \cup {d}
  BY <1>2, <1>3 DEF Counted
<1>5. Tallies(u.signals, Counted(u, j, rec))
  BY <1>1, <1>2, <1>3, <1>4, FS_AddElement DEF Tallies
<1>6. Behind(u, j, rec, more)
  BY <1>1, <1>2 DEF Behind
<1>7. AtSend(u, j, rec, more)
  BY <1>1, <1>2, <1>3 DEF AtSend
<1>8. Progress(u, j, rec, more)
  BY <1>1, <1>2, <1>5, <1>6, <1>7 DEF Progress
<1> QED
  BY <1>8

(* What others write does not undo it.                                     *)
LEMMA ProgressKept ==
  ASSUME TypeOK, RecordKept, sent \subseteq sent', NEW j \in Jobs, NEW w \in Work,
         w.pc \in Looping => w.index \in 1..Records + 1,
         w.pc = "send" => w.index \in Indices,
         Progress(w, j, record, sent)
  PROVE  Progress(w, j, record', sent')
<1> SUFFICES ASSUME w.pc \in Looping PROVE Progress(w, j, record', sent')
  BY DEF Progress
<1>1. /\ Behind(w, j, record, sent) /\ Tallies(w.signals, Counted(w, j, record)) /\ w.rev \in Framed
      /\ w.pc = "send" => AtSend(w, j, record, sent)
  BY DEF Progress
<1>2. \A i \in 1..(w.index - 1) : <<j, i>> \in Jobs \X Indices /\ w.index - 1 \in Nat
  BY DEF Indices
<1>3. \A i \in 1..(w.index - 1) : record'[<<j, i>>] = record[<<j, i>>]
  BY <1>1, <1>2 DEF Behind, RecordKept
<1>4. w.pc = "send" => record'[<<j, w.index>>] = record[<<j, w.index>>]
  BY <1>1 DEF AtSend, RecordKept, NoRecord
<1>5. w.index - 1 \in Nat
  OBVIOUS
<1>6. Found(j, w.index - 1, record') = Found(j, w.index - 1, record)
  BY <1>3, <1>5, FoundSame
<1>7. Counted(w, j, record') = Counted(w, j, record)
  BY <1>4, <1>6 DEF Counted
<1>8. Behind(w, j, record', sent')
  BY <1>1, <1>3 DEF Behind
<1>9. w.pc = "send" => AtSend(w, j, record', sent')
  BY <1>1, <1>4 DEF AtSend
<1> QED
  BY <1>1, <1>7, <1>8, <1>9 DEF Progress

-----------------------------------------------------------------------------
(* What is stored and sent                                                 *)

(* Detections name their record and what the job is pinned to.             *)
RecordInv ==
  \A j \in Jobs, i \in Indices : record[<<j, i>>] # NoRecord =>
    /\ job[j] # NoJob
    /\ record[<<j, i>>].status # "EVALUATED" => record[<<j, i>>].detections = {}
    /\ \A d \in record[<<j, i>>].detections :
         d.job = j /\ d.index = i /\ d.version = job[j].version /\ d.rev = job[j].rev

SentInv ==
  \A d \in sent :
    /\ record[<<d.job, d.index>>].status = "EVALUATED"
    /\ d \in record[<<d.job, d.index>>].detections

ReportOf(row, j, rec, snt) ==
  /\ \A i \in Indices : rec[<<j, i>>] # NoRecord /\ rec[<<j, i>>].detections \subseteq snt
  /\ Tallies(row.signals, Found(j, Records, rec))
  /\ row.status = "PARTIAL" <=> \E i \in Indices : rec[<<j, i>>].status = "QUARANTINED"

JobInv ==
  \A j \in Jobs :
    /\ job[j].status = "QUARANTINED" => job[j].rev \notin Framed
    /\ job[j].status \in {"DISPATCHED", "PARTIAL"} =>
         job[j].rev \in Framed /\ ReportOf(job[j], j, record, sent)

ProgressInv == \A m \in Messages : Progress(work[m], JobOf[m], record, sent)

SafeInv == RecordInv /\ SentInv /\ JobInv /\ ProgressInv

TerminalKept == \A j \in Jobs : job[j].status \in Terminal => job'[j] = job[j]

Grows == PinKept /\ RecordKept /\ TerminalKept /\ sent \subseteq sent'

LEMMA ReportKept ==
  ASSUME RecordKept, sent \subseteq sent', NEW j \in Jobs, NEW row, ReportOf(row, j, record, sent)
  PROVE  ReportOf(row, j, record', sent')
<1>1. \A i \in Indices : <<j, i>> \in Jobs \X Indices /\ record[<<j, i>>] # NoRecord
  BY DEF ReportOf
<1>2. \A i \in Indices : record'[<<j, i>>] = record[<<j, i>>]
  BY <1>1 DEF RecordKept
<1>3. Found(j, Records, record') = Found(j, Records, record)
  BY <1>2, FoundSame DEF Indices
<1> QED
  BY <1>2, <1>3 DEF ReportOf

LEMMA OthersProgress ==
  ASSUME TypeInv, ProgressInv, RecordKept, sent \subseteq sent', NEW n \in Messages
  PROVE  Progress(work[n], JobOf[n], record', sent')
<1>1. /\ JobOf[n] \in Jobs /\ work[n] \in Work /\ StepOK(work[n], job[JobOf[n]])
      /\ Progress(work[n], JobOf[n], record, sent)
  BY JobType DEF TypeInv, ProgressInv
<1>2. work[n].pc \in Looping => work[n].index \in 1..Records + 1
  BY <1>1 DEF StepOK
<1>3. work[n].pc = "send" => work[n].index \in Indices
  BY RecordKey
<1> QED
  BY <1>1, <1>2, <1>3, ProgressKept DEF TypeInv

(* A step that stores and sends nothing.                                   *)
LEMMA OnlyWork ==
  ASSUME TypeInv, SafeInv, NEW m \in Messages, UNCHANGED <<job, record, sent>>,
         \A n \in Messages : n # m => work'[n] = work[n],
         Progress(work'[m], JobOf[m], record, sent)
  PROVE  SafeInv' /\ Grows
<1>1. ProgressInv'
  BY DEF SafeInv, ProgressInv
<1>2. RecordInv' /\ SentInv' /\ JobInv'
  BY DEF SafeInv, RecordInv, SentInv, JobInv
<1> QED
  BY <1>1, <1>2 DEF SafeInv, Grows, PinKept, RecordKept, TerminalKept

LEMMA RecordRowsKept ==
  ASSUME RecordInv, PinKept, UNCHANGED record
  PROVE  RecordInv'
<1>1. ASSUME NEW j \in Jobs, NEW i \in Indices, record[<<j, i>>] # NoRecord
      PROVE  /\ job'[j] # NoJob
             /\ record[<<j, i>>].status # "EVALUATED" => record[<<j, i>>].detections = {}
             /\ \A d \in record[<<j, i>>].detections :
                  d.job = j /\ d.index = i /\ d.version = job'[j].version /\ d.rev = job'[j].rev
  <2>1. job'[j] # NoJob /\ job'[j].version = job[j].version /\ job'[j].rev = job[j].rev
    BY <1>1 DEF RecordInv, PinKept
  <2> QED
    BY <1>1, <2>1 DEF RecordInv
<1> QED
  BY <1>1 DEF RecordInv

(* A step that writes a row of the jobs.                                   *)
LEMMA OnlyJob ==
  ASSUME TypeInv, SafeInv, NEW m \in Messages, UNCHANGED <<record, sent>>, Keeps(m),
         work'[m].pc \notin Looping, NEW row \in JobRow,
         job' = [job EXCEPT ![JobOf[m]] = row],
         job[JobOf[m]].status \in Terminal => job[JobOf[m]] = row,
         row.status = "QUARANTINED" => row.rev \notin Framed,
         row.status \in {"DISPATCHED", "PARTIAL"} =>
           row.rev \in Framed /\ ReportOf(row, JobOf[m], record, sent)
  PROVE  SafeInv' /\ Grows
<1> PICK j \in Jobs : j = JobOf[m]
  OBVIOUS
<1>1. job \in [Jobs -> {NoJob} \cup JobRow]
  BY TypeParts DEF TypeInv, StoreOK
<1>2. job'[j] = row /\ \A i \in Jobs : i # j => job'[i] = job[i]
  BY <1>1
<1>3. Grows
  BY <1>2 DEF Grows, Keeps, RecordKept, TerminalKept
<1>4. RecordInv'
  BY RecordRowsKept DEF SafeInv, Keeps
<1>5. SentInv'
  BY DEF SafeInv, SentInv
<1>6. JobInv'
  <2> SUFFICES ASSUME NEW i \in Jobs
               PROVE  /\ job'[i].status = "QUARANTINED" => job'[i].rev \notin Framed
                      /\ job'[i].status \in {"DISPATCHED", "PARTIAL"} =>
                           job'[i].rev \in Framed /\ ReportOf(job'[i], i, record, sent)
    BY DEF JobInv, ReportOf
  <2>1. CASE i = j
    BY <1>2, <2>1
  <2>2. CASE i # j
    BY <1>2, <2>2 DEF SafeInv, JobInv
  <2> QED
    BY <2>1, <2>2
<1>7. ProgressInv'
  <2>1. Progress(work'[m], JobOf[m], record, sent)
    BY DEF Progress
  <2> QED
    BY <2>1 DEF SafeInv, ProgressInv, Keeps
<1> QED
  BY <1>3, <1>4, <1>5, <1>6, <1>7 DEF SafeInv

(* The steps of an invocation                                              *)

LEMMA IdleSafe ==
  ASSUME TypeInv, SafeInv, NEW m \in Messages, Keeps(m), work'[m].pc \notin Looping,
         UNCHANGED <<job, record, sent>>
  PROVE  SafeInv' /\ Grows
<1>1. Progress(work'[m], JobOf[m], record, sent)
  BY DEF Progress
<1> QED
  BY <1>1, OnlyWork DEF Keeps

LEMMA PinJobSafe ==
  ASSUME TypeInv, SafeInv, NEW m \in Messages, PinJob(m)
  PROVE  SafeInv' /\ Grows
<1>1. Keeps(m) /\ work'[m].pc \notin Looping
  BY PinJobKeeps
<1> PICK j \in Jobs : j = JobOf[m]
  OBVIOUS
<1> PICK own : own = [status |-> "PROCESSING", version |-> work[m].version, rev |-> work[m].rev, signals |-> 0]
  OBVIOUS
<1>2. own \in JobRow /\ own.status = "PROCESSING"
  BY DEF PinJob, TypeInv, StepOK, JobRow
<1>3. job' = [job EXCEPT ![j] = Pinned(job[j], NoJob, own)] /\ UNCHANGED <<record, sent>>
  BY DEF PinJob
<1>4. CASE job[j] = NoJob
  <2>1. job' = [job EXCEPT ![j] = own]
    BY <1>3, <1>4 DEF Pinned
  <2>2. job[j].status \notin Terminal
    BY <1>4 DEF NoJob, Terminal
  <2> QED
    BY <1>1, <1>2, <1>3, <2>1, <2>2, OnlyJob
<1>5. CASE job[j] # NoJob
  <2>1. job[j] \in JobRow
    BY <1>5, JobType DEF TypeInv
  <2>2. /\ job[j].status = "QUARANTINED" => job[j].rev \notin Framed
        /\ job[j].status \in {"DISPATCHED", "PARTIAL"} =>
             job[j].rev \in Framed /\ ReportOf(job[j], j, record, sent)
    BY DEF SafeInv, JobInv
  <2>3. job' = [job EXCEPT ![j] = job[j]]
    BY <1>3, <1>5 DEF Pinned
  <2> QED
    BY <1>1, <1>3, <2>1, <2>2, <2>3, OnlyJob
<1> QED
  BY <1>4, <1>5

LEMMA FetchSafe ==
  ASSUME TypeInv, SafeInv, NEW m \in Messages, Fetch(m)
  PROVE  SafeInv' /\ Grows
<1>0. /\ work[m].pc = "fetch" /\ UNCHANGED <<record, sent>>
      /\ work[m] \in Work /\ job[JobOf[m]] \in JobRow /\ JobOf[m] \in Jobs
      /\ work[m].rev = job[JobOf[m]].rev
  BY LoopType DEF Fetch
<1>1. CASE work[m].rev \in Framed /\ work'[m] = ToLoop(work[m]) /\ UNCHANGED job /\ Keeps(m)
  <2>1. work[m].failures = 0 /\ work[m].signals = 0
    BY <1>0 DEF TypeInv, StepOK
  <2>2. Progress(ToLoop(work[m]), JobOf[m], record, sent)
    BY <1>0, <1>1, <2>1, ProgressBegins
  <2> QED
    BY <1>0, <1>1, <2>2, OnlyWork DEF Keeps
<1>2. CASE work[m].rev \notin Framed /\ work'[m] = NoWork /\ Keeps(m)
           /\ job' = [job EXCEPT ![JobOf[m]] = FetchedRow(m)]
  <2>1. /\ FetchedRow(m) \in JobRow /\ FetchedRow(m).status = "QUARANTINED"
        /\ FetchedRow(m).rev = job[JobOf[m]].rev
    BY <1>0, FetchedType
  <2>2. job[JobOf[m]].status \notin {"DISPATCHED", "PARTIAL"}
    BY <1>0, <1>2 DEF SafeInv, JobInv
  <2>3. job[JobOf[m]].status \in Terminal => job[JobOf[m]] = FetchedRow(m)
    <3> SUFFICES ASSUME job[JobOf[m]].status = "QUARANTINED"
                 PROVE  job[JobOf[m]] = FetchedRow(m)
      BY <2>2 DEF Terminal
    <3> QED
      BY <1>0 DEF FetchedRow, JobRow
  <2>4. work'[m].pc \notin Looping
    BY <1>2 DEF NoWork, Looping
  <2> QED
    BY <1>0, <1>2, <2>1, <2>3, <2>4, OnlyJob
<1> QED
  BY <1>1, <1>2, FetchKeeps

LEMMA FinishSafe ==
  ASSUME TypeInv, SafeInv, NEW m \in Messages, Finish(m)
  PROVE  SafeInv' /\ Grows
<1>0. /\ work[m].pc = "record" /\ UNCHANGED <<record, sent>>
      /\ work[m] \in Work /\ job[JobOf[m]] \in JobRow /\ JobOf[m] \in Jobs
      /\ work[m].rev = job[JobOf[m]].rev
  BY LoopType DEF Finish, Looping
<1> PICK row \in JobRow, j \in Jobs : row = FinishedRow(m) /\ j = JobOf[m]
  BY <1>0, FinishedType
<1>1. /\ Keeps(m) /\ work'[m].pc \notin Looping /\ job' = [job EXCEPT ![j] = row]
  BY FinishKeeps DEF NoWork, Looping
<1>2. work[m].index - 1 = Records
  <2>1. work[m].index \in 1..Records + 1 /\ work[m].index > Records
    BY <1>0 DEF Finish, TypeInv, StepOK, Looping
  <2> QED
    BY <2>1
<1>3. /\ row.status = Outcome(m) /\ row.rev = job[j].rev /\ row.version = job[j].version
      /\ row.signals = work[m].signals
  BY <1>0, FinishedType
<1>4. Progress(work[m], j, record, sent)
  BY DEF SafeInv, ProgressInv
<1>5. /\ work[m].rev \in Framed
      /\ Behind(work[m], j, record, sent)
      /\ Tallies(work[m].signals, Counted(work[m], j, record))
  BY <1>0, <1>4 DEF Progress, Looping
<1>6. ReportOf(row, j, record, sent)
  <2>1. \A i \in Indices : record[<<j, i>>] # NoRecord /\ record[<<j, i>>].detections \subseteq sent
    BY <1>2, <1>5 DEF Behind, Indices
  <2>2. Counted(work[m], j, record) = Found(j, Records, record)
    BY <1>0, <1>2 DEF Counted
  <2>3. row.status = "PARTIAL" <=> \E i \in Indices : record[<<j, i>>].status = "QUARANTINED"
    BY <1>2, <1>3, <1>5 DEF Behind, Outcome, Indices
  <2> QED
    BY <1>3, <1>5, <2>1, <2>2, <2>3 DEF ReportOf
<1>7. row.status \in {"DISPATCHED", "PARTIAL"} /\ row.rev \in Framed
  BY <1>0, <1>3, <1>5 DEF Outcome
<1>8. job[j].status \in Terminal => job[j] = row
  <2> SUFFICES ASSUME job[j].status \in Terminal PROVE job[j] = row
    OBVIOUS
  <2>1. job[j].status \in {"DISPATCHED", "PARTIAL"}
    BY <1>0, <1>5 DEF SafeInv, JobInv, Terminal
  <2>2. ReportOf(job[j], j, record, sent)
    BY <2>1 DEF SafeInv, JobInv
  <2>3. job[j].signals = row.signals /\ job[j].status = row.status
    BY <1>6, <1>7, <2>1, <2>2 DEF ReportOf, Tallies
  <2> QED
    BY <1>0, <1>3, <2>3 DEF JobRow
<1> QED
  BY <1>0, <1>1, <1>6, <1>7, <1>8, OnlyJob

LEMMA ProceedProgress ==
  ASSUME NEW w \in Work, NEW j, NEW rec, NEW snt, Progress(w, j, rec, snt),
         w.pc \in {"record", "evaluate"}, w.index \in Indices,
         NEW saved \in RecordRow, saved = rec[<<j, w.index>>],
         saved.status # "EVALUATED" => saved.detections = {},
         NEW u \in Work, ProceedsTo(saved, w, u)
  PROVE  Progress(u, j, rec, snt)
<1>1. CASE saved.status = "QUARANTINED" /\ u = Quarantined(w)
  <2>1. /\ u.pc = "record" /\ u.index = w.index + 1 /\ u.failures = w.failures + 1
        /\ u.rev = w.rev /\ u.signals = w.signals
    BY <1>1, LoopFields
  <2> QED
    BY <1>1, <2>1, ProgressPasses DEF Looping
<1>2. CASE saved.status = "DROPPED" /\ u = Passed(w)
  <2>1. /\ u.pc = "record" /\ u.index = w.index + 1 /\ u.failures = w.failures
        /\ u.rev = w.rev /\ u.signals = w.signals
    BY <1>2, LoopFields
  <2> QED
    BY <1>2, <2>1, ProgressPasses DEF Looping
<1>3. CASE saved.status = "EVALUATED" /\ u = Sending(w, saved.detections)
  BY <1>3, ProgressArrives
<1> QED
  BY <1>1, <1>2, <1>3 DEF ProceedsTo

LEMMA GetRecordSafe ==
  ASSUME TypeInv, SafeInv, NEW m \in Messages, GetRecord(m)
  PROVE  SafeInv' /\ Grows
<1> PICK j \in Jobs : j = JobOf[m]
  OBVIOUS
<1>1. /\ work[m].pc = "record" /\ work[m] \in Work /\ work[m].index \in Indices
      /\ UNCHANGED <<job, record, sent>>
      /\ Progress(work[m], j, record, sent)
  <2>1. work[m].pc \in Looping /\ work[m].index <= Records /\ StepOK(work[m], job[JobOf[m]])
    BY DEF GetRecord, Looping, TypeInv
  <2>2. work[m].index \in Indices
    BY <2>1 DEF StepOK, Indices
  <2> QED
    BY <2>2, JobType DEF GetRecord, TypeInv, SafeInv, ProgressInv
<1>2. Keeps(m) /\ work'[m] \in Work
  BY GetRecordKeeps DEF Keeps, TypeInv, TypeOK, Work
<1>3. Progress(work'[m], j, record, sent)
  <2>1. CASE work'[m] = ToEvaluate(work[m])
    <3>1. Progress(ToEvaluate(work[m]), j, record, sent)
      BY <1>1, ProgressArrives
    <3> QED
      BY <2>1, <3>1
  <2>2. ASSUME NEW saved, saved = record[<<j, work[m].index>>],
               saved # NoRecord, ProceedsTo(saved, work[m], work'[m])
        PROVE  Progress(work'[m], j, record, sent)
    <3>1. <<j, work[m].index>> \in Jobs \X Indices
      BY <1>1
    <3>2. saved \in RecordRow
      BY <2>2, <3>1, TypeParts DEF TypeInv, StoreOK
    <3>3. saved.status # "EVALUATED" => saved.detections = {}
      BY <1>1, <2>2 DEF SafeInv, RecordInv
    <3> QED
      BY <1>1, <1>2, <2>2, <3>2, <3>3, ProceedProgress
  <2> QED
    BY <2>1, <2>2, GetRecordKeeps
<1> QED
  BY <1>1, <1>2, <1>3, OnlyWork DEF Keeps

LEMMA NextRecordSafe ==
  ASSUME TypeInv, SafeInv, NEW m \in Messages, NextRecord(m)
  PROVE  SafeInv' /\ Grows
<1> PICK j \in Jobs : j = JobOf[m]
  OBVIOUS
<1>1. /\ work[m].pc = "send" /\ work[m].todo = {} /\ work[m] \in Work
      /\ UNCHANGED <<job, record, sent>>
      /\ Progress(work[m], j, record, sent)
      /\ work[m].index \in Indices /\ <<j, work[m].index>> \in Jobs \X Indices
  BY JobType, RecordKey DEF NextRecord, TypeInv, SafeInv, ProgressInv
<1>2. Keeps(m) /\ work'[m] = Passed(work[m]) /\ work'[m] \in Work
  BY NextRecordKeeps DEF Keeps, TypeInv, TypeOK, Work
<1>3. record[<<j, work[m].index>>] \in RecordRow /\ record[<<j, work[m].index>>].status = "EVALUATED"
  <2>1. record[<<j, work[m].index>>].status = "EVALUATED"
    BY <1>1 DEF Progress, AtSend, Looping
  <2> QED
    BY <1>1, <2>1, TypeParts DEF TypeInv, StoreOK, NoRecord
<1>4. /\ work'[m].pc = "record" /\ work'[m].index = work[m].index + 1
      /\ work'[m].failures = work[m].failures /\ work'[m].rev = work[m].rev
      /\ work'[m].signals = work[m].signals
  BY <1>1, <1>2, LoopFields
<1>5. Progress(work'[m], j, record, sent)
  BY <1>1, <1>2, <1>3, <1>4, ProgressPasses DEF Looping
<1> QED
  BY <1>1, <1>2, <1>5, OnlyWork DEF Keeps

LEMMA SendSafe ==
  ASSUME TypeInv, SafeInv, NEW m \in Messages, Send(m)
  PROVE  SafeInv' /\ Grows
<1> PICK j \in Jobs : j = JobOf[m]
  OBVIOUS
<1>1. /\ work[m].pc = "send" /\ work[m] \in Work
      /\ UNCHANGED <<job, record>>
      /\ Progress(work[m], j, record, sent)
      /\ work[m].index \in Indices /\ work[m].index <= Records
  BY JobType, RecordKey DEF Send, TypeInv, SafeInv, ProgressInv
<1>2. Keeps(m)
  BY SendKeeps
<1> PICK d \in work[m].todo :
      sent' = sent \cup {d} /\ (work'[m] = NoWork \/ work'[m] = Less(work[m], d))
  BY SendKeeps
<1>3. RecordKept /\ sent \subseteq sent' /\ Grows
  BY <1>1, <1>2 DEF RecordKept, Grows, Keeps, TerminalKept
<1>4. \A i \in 1..work[m].index : \A e \in record[<<j, i>>].detections : e.index = i
  <2> SUFFICES ASSUME NEW i \in 1..work[m].index, NEW e \in record[<<j, i>>].detections
               PROVE  e.index = i
    OBVIOUS
  <2>1. i \in Indices
    BY <1>1 DEF Indices
  <2>2. record[<<j, i>>] # NoRecord
    <3>1. CASE i = work[m].index
      BY <1>1, <3>1 DEF Progress, AtSend, Looping, NoRecord
    <3>2. CASE i # work[m].index
      <4>1. i \in 1..(work[m].index - 1)
        BY <1>1, <3>2 DEF Indices
      <4> QED
        BY <1>1, <4>1 DEF Progress, Behind, Looping
    <3> QED
      BY <3>1, <3>2
  <2> QED
    BY <2>1, <2>2 DEF SafeInv, RecordInv
<1>5. Progress(work'[m], j, record', sent')
  <2>1. CASE work'[m] = NoWork
    BY <2>1 DEF Progress, NoWork, Looping
  <2>2. CASE work'[m] = Less(work[m], d)
    BY <1>1, <1>4, <2>2, ProgressSends
  <2> QED
    BY <2>1, <2>2
<1>6. d \in record[<<d.job, d.index>>].detections /\ record[<<d.job, d.index>>].status = "EVALUATED"
  <2>1. d \in record[<<j, work[m].index>>].detections /\ record[<<j, work[m].index>>].status = "EVALUATED"
    BY <1>1 DEF Progress, AtSend, Looping
  <2>2. d.job = j /\ d.index = work[m].index
    BY <1>1, <2>1 DEF SafeInv, RecordInv, NoRecord
  <2> QED
    BY <2>1, <2>2
<1>7. SentInv'
  BY <1>1, <1>6 DEF SafeInv, SentInv
<1>8. RecordInv'
  BY <1>1, <1>3, RecordRowsKept DEF SafeInv, Grows
<1>9. JobInv'
  BY <1>1, <1>3, ReportKept DEF SafeInv, JobInv
<1>10. ProgressInv'
  BY <1>2, <1>3, <1>5, OthersProgress DEF SafeInv, ProgressInv, Keeps
<1> QED
  BY <1>3, <1>7, <1>8, <1>9, <1>10 DEF SafeInv

LEMMA EvaluatedFields ==
  ASSUME NEW m, NEW status
  PROVE  EvaluatedRow(m, status).detections =
           IF EvaluatedRow(m, status).status = "EVALUATED" THEN Evaluated(m) ELSE {}
<1>1. EvaluatedRow(m, status).status = status
  BY DEF EvaluatedRow
<1>2. EvaluatedRow(m, status).detections = IF status = "EVALUATED" THEN Evaluated(m) ELSE {}
  BY DEF EvaluatedRow
<1> QED
  BY <1>1, <1>2

LEMMA RecordRowsHold ==
  ASSUME UNCHANGED job,
         \A j \in Jobs, i \in Indices : record'[<<j, i>>] # NoRecord =>
           /\ job[j] # NoJob
           /\ record'[<<j, i>>].status # "EVALUATED" => record'[<<j, i>>].detections = {}
           /\ \A d \in record'[<<j, i>>].detections :
                d.job = j /\ d.index = i /\ d.version = job[j].version /\ d.rev = job[j].rev
  PROVE  RecordInv'
<1> SUFFICES ASSUME NEW j \in Jobs, NEW i \in Indices, record'[<<j, i>>] # NoRecord
             PROVE  /\ job'[j] # NoJob
                    /\ record'[<<j, i>>].status # "EVALUATED" => record'[<<j, i>>].detections = {}
                    /\ \A d \in record'[<<j, i>>].detections :
                         d.job = j /\ d.index = i /\ d.version = job'[j].version /\ d.rev = job'[j].rev
  BY Zenon DEF RecordInv
<1>1. job' = job
  OBVIOUS
<1> QED
  BY <1>1

LEMMA EvaluateSafe ==
  ASSUME TypeInv, SafeInv, NEW m \in Messages, Evaluate(m)
  PROVE  SafeInv' /\ Grows
<1> PICK j \in Jobs, i \in Indices : j = JobOf[m] /\ i = work[m].index
  BY RecordKey DEF Evaluate
<1>1. /\ work[m].pc = "evaluate" /\ work[m] \in Work /\ UNCHANGED <<job, sent>>
      /\ Progress(work[m], j, record, sent)
  BY JobType DEF Evaluate, TypeInv, SafeInv, ProgressInv
<1>2. Keeps(m) /\ RecordKept /\ Grows
  BY <1>1, EvaluateKeeps DEF Grows, Keeps, TerminalKept
<1> PICK status \in Outcomes[i], saved \in RecordRow :
      /\ saved = Pinned(record[<<j, i>>], NoRecord, EvaluatedRow(m, status))
      /\ record' = [record EXCEPT ![<<j, i>>] = saved]
      /\ work'[m] = NoWork \/ ProceedsTo(saved, work[m], work'[m])
  BY EvaluateKeeps DEF EvaluatesTo
<1>3. /\ record'[<<j, i>>] = saved
      /\ \A k \in Jobs, n \in Indices : k # j \/ n # i => record'[<<k, n>>] = record[<<k, n>>]
  BY TypeParts DEF TypeInv, StoreOK
<1>4. /\ job[j] # NoJob /\ work[m].version = job[j].version /\ work[m].rev = job[j].rev
  BY <1>1, LoopType DEF Looping, JobRow, NoJob, Terminal
<1>5. /\ saved.status # "EVALUATED" => saved.detections = {}
      /\ \A d \in saved.detections :
           d.job = j /\ d.index = i /\ d.version = job[j].version /\ d.rev = job[j].rev
  <2>1. CASE record[<<j, i>>] # NoRecord
    BY <2>1 DEF Pinned, SafeInv, RecordInv
  <2>2. CASE record[<<j, i>>] = NoRecord
    <3>1. saved = EvaluatedRow(m, status)
      BY <2>2 DEF Pinned
    <3>2. \A d \in Evaluated(m) :
            d.job = j /\ d.index = i /\ d.version = job[j].version /\ d.rev = job[j].rev
      BY <1>4 DEF Evaluated
    <3>3. saved.detections = IF saved.status = "EVALUATED" THEN Evaluated(m) ELSE {}
      BY <3>1, EvaluatedFields
    <3> QED
      BY <3>2, <3>3
  <2> QED
    BY <2>1, <2>2
<1>6. RecordInv'
  <2>1. ASSUME NEW k \in Jobs, NEW n \in Indices, record'[<<k, n>>] # NoRecord
        PROVE  /\ job[k] # NoJob
               /\ record'[<<k, n>>].status # "EVALUATED" => record'[<<k, n>>].detections = {}
               /\ \A d \in record'[<<k, n>>].detections :
                    d.job = k /\ d.index = n /\ d.version = job[k].version /\ d.rev = job[k].rev
    <3>1. CASE k = j /\ n = i
      BY <1>3, <1>4, <1>5, <3>1
    <3>2. CASE k # j \/ n # i
      BY <1>3, <2>1, <3>2 DEF SafeInv, RecordInv
    <3> QED
      BY <3>1, <3>2
  <2> QED
    BY <1>1, <2>1, RecordRowsHold
<1>7. SentInv'
  <2> SUFFICES ASSUME NEW d \in sent
               PROVE  /\ record'[<<d.job, d.index>>].status = "EVALUATED"
                      /\ d \in record'[<<d.job, d.index>>].detections
    BY <1>1 DEF SentInv
  <2>1. /\ record[<<d.job, d.index>>].status = "EVALUATED"
        /\ d \in record[<<d.job, d.index>>].detections
    BY DEF SafeInv, SentInv
  <2>2. <<d.job, d.index>> \in Jobs \X Indices
    BY DEF TypeInv, TypeOK, Detections
  <2>3. record'[<<d.job, d.index>>] = record[<<d.job, d.index>>]
    BY <1>2, <2>1, <2>2 DEF RecordKept, NoRecord
  <2> QED
    BY <2>1, <2>3
<1>8. JobInv'
  BY <1>1, <1>2, ReportKept DEF SafeInv, JobInv, Grows
<1>9. Progress(work'[m], j, record', sent')
  <2>1. CASE work'[m] = NoWork
    BY <2>1 DEF Progress, NoWork, Looping
  <2>2. CASE ProceedsTo(saved, work[m], work'[m])
    <3>1. Progress(work[m], j, record', sent')
      BY <1>2, OthersProgress DEF SafeInv, Grows
    <3>2. work'[m] \in Work
      BY <1>2 DEF Keeps, TypeInv, TypeOK, Work
    <3> QED
      BY <1>1, <1>3, <1>5, <2>2, <3>1, <3>2, ProceedProgress
  <2> QED
    BY <2>1, <2>2
<1>10. ProgressInv'
  BY <1>2, <1>9, OthersProgress DEF SafeInv, ProgressInv, Keeps, Grows
<1> QED
  BY <1>2, <1>6, <1>7, <1>8, <1>10 DEF SafeInv

LEMMA InitSafe == Init => SafeInv
<1> SUFFICES ASSUME Init PROVE SafeInv
  OBVIOUS
<1>1. RecordInv /\ SentInv
  BY DEF Init, RecordInv, SentInv
<1>2. JobInv
  BY DEF Init, JobInv, NoJob
<1>3. ProgressInv
  BY DEF Init, ProgressInv, Progress, NoWork, Looping
<1> QED
  BY <1>1, <1>2, <1>3 DEF SafeInv

LEMMA HandleSafe ==
  ASSUME TypeInv, SafeInv, NEW m \in Messages, Handle(m) \/ Crash(m)
  PROVE  SafeInv' /\ Grows
<1>1. CASE GetJob(m)
  BY <1>1, GetJobKeeps, IdleSafe DEF GetJob
<1>2. CASE ReadConfig(m)
  BY <1>2, ReadConfigKeeps, IdleSafe DEF ReadConfig
<1>3. CASE ReadRules(m)
  BY <1>3, ReadRulesKeeps, IdleSafe DEF ReadRules
<1>4. CASE Crash(m)
  BY <1>4, CrashKeeps, IdleSafe DEF Crash, NoWork, Looping
<1> QED
  BY <1>1, <1>2, <1>3, <1>4, PinJobSafe, FetchSafe, GetRecordSafe, EvaluateSafe, SendSafe,
     NextRecordSafe, FinishSafe DEF Handle

LEMMA StepSafe == TypeInv /\ SafeInv /\ [Next]_vars => SafeInv' /\ Grows
<1> SUFFICES ASSUME TypeInv, SafeInv, [Next]_vars PROVE SafeInv' /\ Grows
  OBVIOUS
<1>1. ASSUME NEW m \in Messages, Handle(m) \/ Crash(m) PROVE SafeInv' /\ Grows
  BY <1>1, HandleSafe
<1>2. ASSUME NEW m \in Messages, Receive(m) PROVE SafeInv' /\ Grows
  <2>1. /\ work'[m].pc = "job" /\ \A n \in Messages : n # m => work'[n] = work[n]
        /\ UNCHANGED <<job, record, sent>>
    <3>1. work[m] \in Work /\ work \in [Messages -> Work]
      BY TypeParts DEF TypeInv
    <3>2. [work[m] EXCEPT !.pc = "job"].pc = "job"
      BY <3>1 DEF Work
    <3> QED
      BY <1>2, <3>1, <3>2 DEF Receive
  <2>2. Progress(work'[m], JobOf[m], record, sent)
    BY <2>1 DEF Progress, Looping
  <2> QED
    BY <2>1, <2>2, OnlyWork
<1>3. CASE UNCHANGED <<job, record, work, sent>>
  BY <1>3 DEF SafeInv, RecordInv, SentInv, JobInv, ProgressInv, Grows, PinKept, RecordKept, TerminalKept
<1> QED
  BY <1>1, <1>2, <1>3 DEF Next, PostReplay, ChangeRules, PutConfig, vars

LEMMA AlwaysSafe == Spec => [](TypeInv /\ SafeInv)
BY InitType, StepType, InitSafe, StepSafe, PTL DEF Spec

(* Whichever invocations handle a job, and whatever its rules, binding and  *)
(* parser have become since, every detection sent is one of its record's    *)
(* row, evaluated with what the job is pinned to.                          *)
THEOREM EvaluatedOnce == Spec => []OneEvaluation
<1>1. TypeInv /\ SafeInv => OneEvaluation
  <2> SUFFICES ASSUME TypeInv, SafeInv, NEW d \in sent
               PROVE  /\ record[<<d.job, d.index>>].status = "EVALUATED"
                      /\ d \in record[<<d.job, d.index>>].detections
                      /\ d.version = job[d.job].version
                      /\ d.rev = job[d.job].rev
    BY DEF OneEvaluation
  <2>1. /\ record[<<d.job, d.index>>].status = "EVALUATED"
        /\ d \in record[<<d.job, d.index>>].detections
    BY DEF SafeInv, SentInv
  <2>2. d.job \in Jobs /\ d.index \in Indices
    BY DEF TypeInv, TypeOK, Detections
  <2>3. record[<<d.job, d.index>>] # NoRecord
    BY <2>1 DEF NoRecord
  <2>4. d.version = job[d.job].version /\ d.rev = job[d.job].rev
    BY <2>1, <2>2, <2>3 DEF SafeInv, RecordInv
  <2> QED
    BY <2>1, <2>4
<1> QED
  BY <1>1, AlwaysSafe, PTL

(* A job that reports is done: every record has its row, every detection    *)
(* was sent, and the numbers are right, whoever reports.                   *)
THEOREM ReportsAreTrue == Spec => []ReportIsTrue
<1>1. SafeInv => ReportIsTrue
  <2> SUFFICES ASSUME SafeInv, NEW j \in Jobs, job[j].status \in {"DISPATCHED", "PARTIAL"}
               PROVE  LET found == UNION {record[<<j, i>>].detections : i \in Indices} IN
                      /\ \A i \in Indices : record[<<j, i>>] # NoRecord
                      /\ found \subseteq sent
                      /\ job[j].signals = Cardinality(found)
                      /\ job[j].status = "PARTIAL" <=>
                           \E i \in Indices : record[<<j, i>>].status = "QUARANTINED"
    BY DEF ReportIsTrue
  <2>1. ReportOf(job[j], j, record, sent)
    BY DEF SafeInv, JobInv
  <2>2. Found(j, Records, record) = UNION {record[<<j, i>>].detections : i \in Indices}
    BY DEF Found, Indices
  <2> QED
    BY <2>1, <2>2 DEF ReportOf, Tallies
<1> QED
  BY <1>1, AlwaysSafe, PTL

(* No step changes what a job is pinned to, a record's row or a report.    *)
THEOREM PinsHold == Spec => PinnedIsKept
<1>1. TypeInv /\ SafeInv /\ [Next]_vars =>
        [/\ \A j \in Jobs : job[j] # NoJob =>
              /\ job'[j] # NoJob /\ job'[j].version = job[j].version /\ job'[j].rev = job[j].rev
              /\ job[j].status \in Terminal => job'[j] = job[j]
         /\ \A r \in Jobs \X Indices : record[r] # NoRecord => record'[r] = record[r]]_vars
  BY StepSafe DEF Grows, PinKept, RecordKept, TerminalKept
<1> QED
  BY <1>1, AlwaysSafe, PTL DEF Spec, PinnedIsKept

LEMMA DeletesReported ==
  ASSUME TypeInv, NEW m \in Messages, Handle(m) \/ Crash(m), message'[m].state = "deleted", message[m].state # "deleted"
  PROVE  job'[JobOf[m]].status \in Terminal
<1>0. JobOf[m] \in Jobs /\ message \in [Messages -> Message]
  BY TypeParts DEF TypeInv
<1>1. ~Return(m) /\ ~UNCHANGED message
  BY <1>0 DEF Return, Message
<1>2. CASE GetJob(m)
  BY <1>1, <1>2 DEF GetJob
<1>3. CASE Fetch(m)
  <2>1. job' = [job EXCEPT ![JobOf[m]] = FetchedRow(m)]
    BY <1>1, <1>3 DEF Fetch, FetchedRow
  <2> QED
    BY <1>0, <1>3, <2>1, FetchedType, TypeParts DEF Fetch, TypeInv, StoreOK, Terminal
<1>4. CASE Finish(m)
  <2>1. job' = [job EXCEPT ![JobOf[m]] = FinishedRow(m)]
    BY <1>4 DEF Finish, FinishedRow
  <2> QED
    BY <1>0, <1>4, <2>1, FinishedType, TypeParts DEF Finish, TypeInv, StoreOK, Outcome, Terminal
<1> QED
  BY <1>1, <1>2, <1>3, <1>4
     DEF Handle, Crash, ReadConfig, ReadRules, PinJob, GetRecord, Evaluate, Send, NextRecord

LEMMA Undeleted ==
  ASSUME TypeInv, NEW m \in Messages, Handle(m) \/ Crash(m), NEW n \in Messages,
         m # n \/ ~Delete(n), message[n].state # "deleted"
  PROVE  message'[n].state # "deleted"
<1>1. message \in [Messages -> Message]
  BY TypeParts DEF TypeInv
<1>2. UNCHANGED message \/ Return(m) \/ Delete(m)
  BY DEF Handle, Crash, GetJob, ReadConfig, ReadRules, PinJob, Fetch, GetRecord, Evaluate, Send,
         NextRecord, Finish
<1>3. CASE Return(m)
  BY <1>1, <1>3 DEF Return, Message
<1>4. CASE Delete(m) /\ m # n
  BY <1>1, <1>4 DEF Delete
<1> QED
  BY <1>2, <1>3, <1>4

(* A message is deleted only when its job says what became of the object.   *)
THEOREM NothingDisappears == Spec => []DeletedMeansReported
<1>1. Init => DeletedMeansReported
  BY DEF Init, DeletedMeansReported
<1>2. TypeInv /\ SafeInv /\ DeletedMeansReported /\ [Next]_vars => DeletedMeansReported'
  <2> SUFFICES ASSUME TypeInv, SafeInv, DeletedMeansReported, [Next]_vars,
                      NEW n \in Messages, message'[n].state = "deleted"
               PROVE  job'[JobOf[n]].status \in Terminal
    BY DEF DeletedMeansReported
  <2>1. JobOf[n] \in Jobs /\ (job[JobOf[n]].status \in Terminal => job'[JobOf[n]] = job[JobOf[n]])
    BY StepSafe DEF Grows, TerminalKept
  <2>2. CASE message[n].state = "deleted"
    BY <2>1, <2>2 DEF DeletedMeansReported
  <2>3. CASE message[n].state # "deleted"
    <3>1. ASSUME NEW m \in Messages, Handle(m) \/ Crash(m)
          PROVE  job'[JobOf[n]].status \in Terminal
      <4>1. CASE m = n /\ Delete(n)
        BY <2>3, <3>1, <4>1, DeletesReported
      <4>2. CASE m # n \/ ~Delete(n)
        BY <2>3, <3>1, <4>2, Undeleted
      <4> QED
        BY <4>1, <4>2
    <3>2. ASSUME NEW m \in Messages, Receive(m) \/ PostReplay(m) PROVE FALSE
      <4>1. message[n] \in Message /\ message \in [Messages -> Message]
        BY TypeParts DEF TypeInv
      <4> QED
        BY <2>3, <3>2, <4>1 DEF Receive, PostReplay, Message
    <3>3. ~UNCHANGED message
      BY <2>3
    <3> QED
      BY <3>1, <3>2, <3>3 DEF Next, ChangeRules, PutConfig, vars
  <2> QED
    BY <2>2, <2>3
<1> QED
  BY <1>1, <1>2, AlwaysSafe, PTL DEF Spec

-----------------------------------------------------------------------------
(* The handler implements IngestionPromise                                 *)

(* A replay is asked for, and handled, when the object has a job.          *)
AskedInv ==
  \A m \in Messages :
    JobOf[m] \in Replays /\ (message[m].state # "none" \/ work[m].pc # "none") => job[Live] # NoJob

Observed == <<job, record, sent>>

LEMMA PromiseTerms ==
  /\ Promise!Jobs = Jobs
  /\ Promise!Indices = Indices
  /\ Promise!None = NoJob
  /\ NoRecord = NoJob
BY DEF Promise!Jobs, Jobs, Promise!Indices, Indices, Promise!None, NoJob, NoRecord

LEMMA InitRefines == Init => Promise!Init /\ AskedInv
<1> SUFFICES ASSUME Init PROVE Promise!Init /\ AskedInv
  OBVIOUS
<1>1. Promise!Init
  BY PromiseTerms DEF Init, Promise!Init
<1>2. ASSUME NEW m \in Messages, JobOf[m] \in Replays PROVE message[m].state = "none" /\ work[m].pc = "none"
  BY <1>2 DEF Init, NoWork
<1> QED
  BY <1>1, <1>2 DEF AskedInv

LEMMA AskedKept == TypeInv /\ AskedInv /\ [Next]_vars => AskedInv'
<1> SUFFICES ASSUME TypeInv, AskedInv, [Next]_vars,
                    NEW n \in Messages, JobOf[n] \in Replays,
                    message'[n].state # "none" \/ work'[n].pc # "none"
             PROVE  job'[Live] # NoJob
  BY DEF AskedInv
<1>1. job[Live] # NoJob => job'[Live] # NoJob
  BY StepType DEF PinKept, Jobs
<1>2. CASE message[n].state # "none" \/ work[n].pc # "none"
  BY <1>1, <1>2 DEF AskedInv
<1>3. CASE message[n].state = "none" /\ work[n].pc = "none"
  <2>0. message \in [Messages -> Message] /\ work \in [Messages -> Work]
    BY TypeParts DEF TypeInv
  <2>1. ASSUME NEW m \in Messages, Handle(m) \/ Crash(m) PROVE FALSE
    <3>1. work[m].pc # "none"
      BY <2>1 DEF Handle, Crash, GetJob, ReadConfig, ReadRules, PinJob, Fetch, GetRecord, Evaluate,
                  Send, NextRecord, Finish
    <3>2. m # n
      BY <1>3, <3>1
    <3>3. work'[n] = work[n]
      BY <2>1, <3>2, HandleKeeps DEF Keeps
    <3>4. UNCHANGED message \/ Return(m) \/ Delete(m)
      BY <2>1 DEF Handle, Crash, GetJob, ReadConfig, ReadRules, PinJob, Fetch, GetRecord, Evaluate,
                  Send, NextRecord, Finish
    <3>5. message'[n] = message[n]
      BY <2>0, <3>2, <3>4 DEF Return, Delete
    <3> QED
      BY <1>3, <3>3, <3>5
  <2>2. ASSUME NEW m \in Messages, Receive(m) PROVE FALSE
    <3>1. m # n
      BY <1>3, <2>2 DEF Receive
    <3> QED
      BY <1>3, <2>0, <2>2, <3>1 DEF Receive
  <2>3. ASSUME NEW m \in Messages, PostReplay(m) PROVE job[Live] # NoJob
    BY <2>3 DEF PostReplay
  <2>4. ~UNCHANGED <<message, work>>
    BY <1>3
  <2> QED
    BY <1>1, <2>1, <2>2, <2>3, <2>4 DEF Next, ChangeRules, PutConfig, vars
<1> QED
  BY <1>2, <1>3

(* What lies behind an invocation in the loop is dealt with.               *)
LEMMA PassedBehind ==
  ASSUME TypeInv, SafeInv, NEW m \in Messages, work[m].pc \in Looping
  PROVE  /\ JobOf[m] \in Promise!Jobs
         /\ job[JobOf[m]] \in JobRow
         /\ job[JobOf[m]].rev = work[m].rev /\ job[JobOf[m]].version = work[m].version
         /\ work[m].rev \in Framed
         /\ Promise!Passed(JobOf[m], work[m].index - 1)
         /\ job[JobOf[m]].status # "PROCESSING" => ReportOf(job[JobOf[m]], JobOf[m], record, sent)
<1> PICK j \in Jobs : j = JobOf[m]
  OBVIOUS
<1>1. job[j] \in JobRow /\ job[j].rev = work[m].rev /\ job[j].version = work[m].version
  BY LoopType
<1>2. work[m].rev \in Framed /\ Behind(work[m], j, record, sent)
  BY DEF SafeInv, ProgressInv, Progress
<1>3. Promise!Passed(j, work[m].index - 1)
  BY <1>2, PromiseTerms DEF Behind, Promise!Passed
<1>4. job[j].status # "PROCESSING" => ReportOf(job[j], j, record, sent)
  <2> SUFFICES ASSUME job[j].status # "PROCESSING" PROVE ReportOf(job[j], j, record, sent)
    OBVIOUS
  <2>1. job[j].status \in {"DISPATCHED", "PARTIAL"}
    BY <1>1, <1>2 DEF JobRow, Terminal, SafeInv, JobInv
  <2> QED
    BY <2>1 DEF SafeInv, JobInv
<1> QED
  BY <1>1, <1>2, <1>3, <1>4, PromiseTerms

LEMMA PinJobRefines ==
  ASSUME TypeInv, AskedInv, NEW m \in Messages, PinJob(m)
  PROVE  Promise!Next \/ UNCHANGED Observed
<1> PICK j \in Jobs : j = JobOf[m]
  OBVIOUS
<1>1. /\ work[m].version \in 1..MaxVersion /\ work[m].rev \in 1..MaxRev
      /\ j \in Replays => job[Live] # NoJob
  BY DEF PinJob, TypeInv, StepOK, AskedInv
<1> PICK own : own = [status |-> "PROCESSING", version |-> work[m].version, rev |-> work[m].rev, signals |-> 0]
  OBVIOUS
<1>2. job' = [job EXCEPT ![j] = Pinned(job[j], NoJob, own)] /\ UNCHANGED <<record, sent>>
  BY DEF PinJob
<1>3. CASE job[j] = NoJob
  <2>1. job' = [job EXCEPT ![j] = own]
    BY <1>2, <1>3 DEF Pinned
  <2>2. Promise!Accept(j)
    BY <1>1, <1>2, <1>3, <2>1, PromiseTerms DEF Promise!Accept
  <2> QED
    BY <2>2, PromiseTerms DEF Promise!Next
<1>4. CASE job[j] # NoJob
  <2>1. job' = [job EXCEPT ![j] = job[j]]
    BY <1>2, <1>4 DEF Pinned
  <2>2. job \in [Jobs -> {NoJob} \cup JobRow]
    BY TypeParts DEF TypeInv, StoreOK
  <2>3. job' = job
    BY <2>1, <2>2
  <2> QED
    BY <1>2, <2>3 DEF Observed
<1> QED
  BY <1>3, <1>4

LEMMA FetchRefines ==
  ASSUME TypeInv, SafeInv, NEW m \in Messages, Fetch(m)
  PROVE  Promise!Next \/ UNCHANGED Observed
<1> PICK j \in Jobs : j = JobOf[m]
  OBVIOUS
<1>1. /\ work[m].pc = "fetch" /\ UNCHANGED <<record, sent>>
      /\ job[j] \in JobRow /\ work[m].rev = job[j].rev
  BY LoopType DEF Fetch
<1>2. CASE UNCHANGED job
  BY <1>1, <1>2 DEF Observed
<1>3. CASE work[m].rev \notin Framed /\ job' = [job EXCEPT ![j].status = "QUARANTINED"]
  <2>1. CASE job[j].status = "PROCESSING"
    <3>1. Promise!Refuse(j)
      BY <1>1, <1>3, <2>1 DEF Promise!Refuse
    <3> QED
      BY <3>1, PromiseTerms DEF Promise!Next
  <2>2. CASE job[j].status # "PROCESSING"
    <3>1. job[j].status = "QUARANTINED"
      BY <1>1, <1>3, <2>2 DEF JobRow, Terminal, SafeInv, JobInv
    <3>2. [job[j] EXCEPT !.status = "QUARANTINED"] = job[j]
      BY <1>1, <3>1 DEF JobRow
    <3>3. job \in [Jobs -> {NoJob} \cup JobRow]
      BY TypeParts DEF TypeInv, StoreOK
    <3>4. job' = job
      BY <1>3, <3>2, <3>3
    <3> QED
      BY <1>1, <3>4 DEF Observed
  <2> QED
    BY <2>1, <2>2
<1> QED
  BY <1>2, <1>3 DEF Fetch

LEMMA EvaluateRefines ==
  ASSUME TypeInv, SafeInv, NEW m \in Messages, Evaluate(m)
  PROVE  Promise!Next \/ UNCHANGED Observed
<1>0. work[m].pc = "evaluate" /\ work[m].pc \in Looping /\ UNCHANGED <<job, sent>>
  BY DEF Evaluate, Looping
<1> PICK j \in Jobs, i \in Indices : j = JobOf[m] /\ i = work[m].index
  BY <1>0, RecordKey
<1> PICK status \in Outcomes[i], r \in Jobs \X Indices, saved \in RecordRow :
       EvaluatesTo(m, status, r, saved)
  BY EvaluateKeeps
<1>1. record' = [record EXCEPT ![<<j, i>>] = Pinned(record[<<j, i>>], NoRecord, EvaluatedRow(m, status))]
  BY DEF EvaluatesTo
<1>2. record \in [Jobs \X Indices -> {NoRecord} \cup RecordRow] /\ <<j, i>> \in Jobs \X Indices
  BY TypeParts DEF TypeInv, StoreOK
<1>3. CASE record[<<j, i>>] # NoRecord
  <2>1. record' = record
    BY <1>2, <1>3, <1>1 DEF Pinned
  <2> QED
    BY <1>0, <2>1 DEF Observed
<1>4. CASE record[<<j, i>>] = NoRecord
  <2>1. /\ job[j].rev = work[m].rev /\ job[j].version = work[m].version
        /\ work[m].rev \in Framed
        /\ Promise!Passed(j, i - 1)
        /\ job[j].status # "PROCESSING" => ReportOf(job[j], j, record, sent)
    BY <1>0, PassedBehind
  <2>2. Promise!UnderWay(j)
    BY <1>4, <2>1 DEF ReportOf, Promise!UnderWay
  <2>3. Evaluated(m) = [job : {j}, index : {i}, rule : Matching[job[j].version],
                        version : {job[j].version}, rev : {job[j].rev}]
    BY <2>1 DEF Evaluated
  <2>4. record' = [record EXCEPT ![<<j, i>>] =
          [status     |-> status,
           detections |-> IF status = "EVALUATED"
                          THEN [job : {j}, index : {i}, rule : Matching[job[j].version],
                                version : {job[j].version}, rev : {job[j].rev}]
                          ELSE {}]]
    BY <1>4, <1>1, <2>3 DEF Pinned, EvaluatedRow
  <2>5. Promise!Settle(j, i)
    BY <1>0, <1>4, <2>1, <2>2, <2>4, PromiseTerms DEF Promise!Settle
  <2> QED
    BY <2>5, PromiseTerms DEF Promise!Next
<1> QED
  BY <1>3, <1>4

LEMMA SendRefines ==
  ASSUME TypeInv, SafeInv, NEW m \in Messages, Send(m)
  PROVE  Promise!Next \/ UNCHANGED Observed
<1>0. work[m].pc = "send" /\ work[m].pc \in Looping /\ UNCHANGED <<job, record>>
  BY DEF Send, Looping
<1> PICK j \in Jobs, i \in Indices : j = JobOf[m] /\ i = work[m].index
  BY <1>0, RecordKey
<1> PICK d \in work[m].todo : sent' = sent \cup {d}
  BY SendKeeps
<1>1. CASE d \in sent
  <2>1. sent' = sent
    BY <1>1
  <2> QED
    BY <1>0, <2>1 DEF Observed
<1>2. CASE d \notin sent
  <2>1. /\ job[j].rev = work[m].rev /\ work[m].rev \in Framed
        /\ Promise!Passed(j, i - 1)
        /\ job[j].status # "PROCESSING" => ReportOf(job[j], j, record, sent)
    BY <1>0, PassedBehind
  <2>2. record[<<j, i>>].status = "EVALUATED" /\ d \in record[<<j, i>>].detections
    BY <1>0 DEF SafeInv, ProgressInv, Progress, AtSend
  <2>3. Promise!UnderWay(j)
    BY <1>2, <2>1, <2>2 DEF ReportOf, Promise!UnderWay
  <2>4. record[<<j, i>>] # Promise!None
    BY <2>2 DEF Promise!None
  <2>5. Promise!Send(j, i)
    BY <1>0, <1>2, <2>1, <2>2, <2>3, <2>4 DEF Promise!Send
  <2> QED
    BY <2>5, PromiseTerms DEF Promise!Next
<1> QED
  BY <1>1, <1>2

LEMMA FinishRefines ==
  ASSUME TypeInv, SafeInv, NEW m \in Messages, Finish(m)
  PROVE  Promise!Next \/ UNCHANGED Observed
<1>0. work[m].pc = "record" /\ work[m].pc \in Looping /\ UNCHANGED <<record, sent>>
  BY DEF Finish, Looping
<1> PICK j \in Jobs : j = JobOf[m]
  OBVIOUS
<1>1. job' = [job EXCEPT ![j] = FinishedRow(m)]
  BY FinishKeeps
<1>2. /\ job[j] \in JobRow /\ job[j].rev = work[m].rev /\ work[m].rev \in Framed
      /\ Promise!Passed(j, work[m].index - 1)
      /\ job[j].status # "PROCESSING" => ReportOf(job[j], j, record, sent)
  BY <1>0, PassedBehind
<1>3. job \in [Jobs -> {NoJob} \cup JobRow]
  BY TypeParts DEF TypeInv, StoreOK
<1>4. CASE job[j].status # "PROCESSING"
  <2>1. job[j].status \in Terminal
    BY <1>2, <1>4 DEF JobRow
  <2>2. job'[j] = job[j]
    BY <2>1, FinishSafe DEF Grows, TerminalKept
  <2>3. job' = job
    BY <1>1, <1>3, <2>2
  <2> QED
    BY <1>0, <2>3 DEF Observed
<1>5. CASE job[j].status = "PROCESSING"
  <2>1. work[m].index - 1 = Records
    <3>1. work[m].index \in 1..Records + 1 /\ work[m].index > Records
      BY <1>0 DEF Finish, TypeInv, StepOK
    <3> QED
      BY <3>1
  <2>2. Behind(work[m], j, record, sent) /\ Tallies(work[m].signals, Counted(work[m], j, record))
    BY <1>0 DEF SafeInv, ProgressInv, Progress
  <2>3. Counted(work[m], j, record) = Promise!Detected(j)
    BY <1>0, <2>1 DEF Counted, Found, Promise!Detected, Promise!Indices
  <2>4. work[m].signals = Cardinality(Promise!Detected(j))
    BY <2>2, <2>3 DEF Tallies
  <2>5. work[m].failures > 0 <=> \E i \in Promise!Indices : record[<<j, i>>].status = "QUARANTINED"
    BY <2>1, <2>2 DEF Behind, Promise!Indices
  <2>6. FinishedRow(m) =
          [job[j] EXCEPT
             !.status = IF \E i \in Promise!Indices : record[<<j, i>>].status = "QUARANTINED"
                        THEN "PARTIAL" ELSE "DISPATCHED",
             !.signals = Cardinality(Promise!Detected(j))]
    BY <2>4, <2>5 DEF FinishedRow, Outcome
  <2>7. Promise!UnderWay(j) /\ Promise!Passed(j, Records)
    BY <1>2, <1>5, <2>1 DEF Promise!UnderWay
  <2>8. job' = [job EXCEPT ![j] =
          [@ EXCEPT
             !.status = IF \E i \in Promise!Indices : record[<<j, i>>].status = "QUARANTINED"
                        THEN "PARTIAL" ELSE "DISPATCHED",
             !.signals = Cardinality(Promise!Detected(j))]]
    BY <1>1, <2>6, Zenon
  <2>9. \A S : Promise!Cardinality(S) = Cardinality(S)
    BY Zenon DEF Promise!Cardinality, Cardinality, Promise!IsFiniteSet, IsFiniteSet
  <2>10. Promise!Report(j)
    BY <1>0, <2>7, <2>8, <2>9, Zenon DEF Promise!Report
  <2> QED
    BY <2>10, PromiseTerms DEF Promise!Next
<1> QED
  BY <1>4, <1>5

(* Whatever is notified twice, redelivered, interrupted or handled by two  *)
(* invocations at a time, jobs, records and the signals queue look as if   *)
(* one pass had been made for each job.                                    *)
THEOREM OnePassPerJob == Spec => KeepsPromise
<1>1. TypeInv /\ SafeInv /\ AskedInv /\ [Next]_vars => [Promise!Next]_<<job, record, sent>>
  <2> SUFFICES ASSUME TypeInv, SafeInv, AskedInv, [Next]_vars
               PROVE  Promise!Next \/ UNCHANGED Observed
    BY DEF Observed
  <2>1. ASSUME NEW m \in Messages, Handle(m) PROVE Promise!Next \/ UNCHANGED Observed
    <3>1. CASE UNCHANGED <<job, record, sent>>
      BY <3>1 DEF Observed
    <3> QED
      BY <2>1, <3>1, PinJobRefines, FetchRefines, EvaluateRefines, SendRefines, FinishRefines
         DEF Handle, GetJob, ReadConfig, ReadRules, GetRecord, NextRecord
  <2>2. CASE UNCHANGED <<job, record, sent>>
    BY <2>2 DEF Observed
  <2> QED
    BY <2>1, <2>2 DEF Next, ChangeRules, PutConfig, PostReplay, Receive, Crash, vars
<1> QED
  BY <1>1, InitRefines, AskedKept, AlwaysSafe, PTL DEF Spec, KeepsPromise, Promise!Spec
=============================================================================
