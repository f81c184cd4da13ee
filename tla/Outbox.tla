------------------------------- MODULE Outbox -------------------------------
(***************************************************************************)
(* The transactional outbox and its publisher (src/handlers/publisher.py). *)
(*                                                                         *)
(* A row of the outbox table names the queues an alert must reach.  A      *)
(* publisher invocation ("worker") claims a PENDING row with a conditional *)
(* write, sends one message per destination, records each success in the   *)
(* row, and settles it; every write after the claim is conditional on the  *)
(* claim's token.  A scheduled invocation recovers rows left behind.       *)
(*                                                                         *)
(* Every call can fail without effect, or take effect and still raise (the *)
(* response is lost).  An invocation can stop between any two calls, and   *)
(* is killed by Lambda when it is Timeout old.                             *)
(*                                                                         *)
(* Abstractions.  Time is a Tick that ages rows and invocations; updated_at*)
(* is the row's age.  A claim's uuid token is the number of the attempt    *)
(* that wrote it: each claim increments "attempts", so no two claims of a  *)
(* row share it; 0 is an absent token.  sent_destinations is a set.        *)
(*                                                                         *)
(* A definition that nothing uses, next to one with the same parameters,   *)
(* is a plausible mistake in that code: PROJECT.json lists under "mutants"  *)
(* the property TLC finds violated with it.                                *)
(***************************************************************************)
EXTENDS Integers

CONSTANTS
  Rows,          \* outbox ids
  Workers,       \* concurrent publisher invocations
  Destinations,  \* destination queues
  DestsOf,       \* the destinations each row names
  MaxAttempts,   \* PUBLISHER_MAX_ATTEMPTS
  ClaimAge,      \* PUBLISHER_CLAIM_SECONDS, in ticks
  Timeout        \* the Lambda timeout, in ticks

ASSUME OutboxAssumption ==
  /\ DestsOf \in [Rows -> SUBSET Destinations]
  /\ MaxAttempts \in Nat \ {0}
  /\ ClaimAge \in Nat \ {0}
  /\ Timeout \in Nat

(* As deployed (30 s and 120 s), the timeout ends every claimant before its *)
(* claim expires.  Only what is said to rest on it does.                   *)
Timely == Timeout < ClaimAge

VARIABLES
  row,       \* the outbox table
  stream,    \* stream[o]: a PENDING image of o waits in the table's stream
  worker,    \* publisher invocations
  recovery,  \* the scheduled invocation
  copies,    \* copies[o][d]: messages of o ever enqueued on d (history)
  legacy     \* rows claimed by a release without claim tokens (history)

vars == <<row, stream, worker, recovery, copies, legacy>>

-----------------------------------------------------------------------------
(* State                                                                   *)

Status == {"PENDING", "IN_FLIGHT", "SENT", "FAILED"}

MaxAge == ClaimAge + Timeout   \* older than this makes no difference

Row == [status   : Status,
        attempts : 0..MaxAttempts,
        token    : 0..MaxAttempts,
        sent     : SUBSET Destinations,
        age      : 0..MaxAge]

Busy == {"sending", "checkpoint", "failing", "exhausted"}

Idle == [pc |-> "idle"]

Claimant == [pc      : Busy,
             row     : Rows,
             attempt : 1..MaxAttempts,       \* attempts of the claimed row, and its token
             todo    : SUBSET Destinations,  \* remaining
             sent    : SUBSET Destinations,  \* sent_this_attempt
             age     : 0..Timeout]

Found == [row : Rows, terminal : BOOLEAN]

Phase == {"off", "IN_FLIGHT", "PENDING"}

TypeOK ==
  /\ row \in [Rows -> Row]
  /\ stream \in [Rows -> BOOLEAN]
  /\ worker \in [Workers -> {Idle} \cup Claimant]
  /\ recovery \in [phase : Phase, age : 0..Timeout, found : SUBSET Found]
  /\ copies \in [Rows -> [Destinations -> Nat]]
  /\ legacy \in SUBSET Rows

NewRow == [status |-> "PENDING", attempts |-> 0, token |-> 0, sent |-> {}, age |-> 0]

LegacyRow(n) ==
  [status |-> "IN_FLIGHT", attempts |-> n, token |-> 0, sent |-> {}, age |-> 0]

Asleep == [phase |-> "off", age |-> 0, found |-> {}]

(* Rows have just been inserted, or were claimed by a release that wrote no *)
(* token; whether that claim sent anything is unknown.                      *)
Init ==
  /\ legacy \in SUBSET Rows
  /\ row \in [Rows -> {NewRow} \cup {LegacyRow(n) : n \in 1..MaxAttempts}]
  /\ \A o \in Rows : row[o] = NewRow <=> o \notin legacy
  /\ stream = [o \in Rows |-> o \notin legacy]
  /\ worker = [w \in Workers |-> Idle]
  /\ recovery = Asleep
  /\ copies \in [Rows -> [Destinations -> {0, 1}]]
  /\ \A o \in Rows \ legacy, d \in Destinations : copies[o][d] = 0

-----------------------------------------------------------------------------
(* The publisher                                                           *)

Claimed(w) == worker[w] # Idle

Goto(w, pc) == worker' = [worker EXCEPT ![w].pc = pc]

Stop(w) == worker' = [worker EXCEPT ![w] = Idle]

(* The condition of every write after the claim.                           *)
HoldsClaimUnfenced(w) == TRUE

HoldsClaim(w) == row[worker[w].row].token = worker[w].attempt

Claimable(o) == row[o].status = "PENDING"

ClaimedRow(o) ==
  [status |-> "IN_FLIGHT", attempts |-> row[o].attempts + 1, token |-> row[o].attempts + 1,
   sent |-> row[o].sent, age |-> 0]

(* What the row as claimed says is still to send; an attempt above the      *)
(* budget sends nothing, and a row without destinations raises.            *)
RemainingAll(o) == DestsOf[o]

Remaining(o) == DestsOf[o] \ row[o].sent

Begin(o) ==
  [pc      |-> IF row[o].attempts + 1 > MaxAttempts THEN "exhausted"
               ELSE IF DestsOf[o] = {} THEN "failing" ELSE "sending",
   row     |-> o,
   attempt |-> row[o].attempts + 1,
   todo    |-> Remaining(o),
   sent    |-> row[o].sent,
   age     |-> 0]

(* _claim_outbox, and the start of process_record with the row it returned. *)
(* When only the response is lost, the row is claimed by nobody.           *)
Claim(w, o) ==
  /\ worker[w] = Idle
  /\ stream[o]
  /\ Claimable(o)
  /\ row' = [row EXCEPT ![o] = ClaimedRow(o)]
  /\ \E started \in {Begin(o), Idle} : worker' = [worker EXCEPT ![w] = started]
  /\ UNCHANGED <<stream, recovery, copies, legacy>>

(* sqs_send of one remaining destination.  It may raise, the message being  *)
(* enqueued or not.                                                        *)
Send(w, d) ==
  /\ worker[w].pc = "sending"
  /\ d \in worker[w].todo
  /\ \/ /\ copies' = [copies EXCEPT ![worker[w].row][d] = @ + 1]
        /\ \/ worker' = [worker EXCEPT ![w].pc = "checkpoint",
                                       ![w].todo = @ \ {d}, ![w].sent = @ \cup {d}]
           \/ Goto(w, "failing")
     \/ /\ Goto(w, "failing")
        /\ UNCHANGED copies
  /\ UNCHANGED <<row, stream, recovery, legacy>>

(* What the checkpoint and the settling writes record as sent.             *)
RecordedAll(w) == DestsOf[worker[w].row]

Recorded(w) == worker[w].sent

(* _checkpoint leaves updated_at alone.                                    *)
Checkpoint(w) ==
  /\ worker[w].pc = "checkpoint"
  /\ \/ /\ HoldsClaim(w)
        /\ row' = [row EXCEPT ![worker[w].row].sent = Recorded(w)]
        /\ \E pc \in {"sending", "failing"} : Goto(w, pc)
     \/ /\ Goto(w, "failing")
        /\ UNCHANGED row
  /\ UNCHANGED <<stream, recovery, copies, legacy>>

CompleteAfterOne(w) == worker[w].sent # {}

Complete(w) == worker[w].todo = {}

(* _mark_sent, when no destination remains.                                *)
MarkSent(w) ==
  /\ worker[w].pc = "sending"
  /\ Complete(w)
  /\ \/ /\ HoldsClaim(w)
        /\ row' = [row EXCEPT ![worker[w].row].status = "SENT",
                              ![worker[w].row].sent = Recorded(w),
                              ![worker[w].row].age = 0]
        /\ Stop(w) \/ Goto(w, "failing")
     \/ /\ Goto(w, "failing")
        /\ UNCHANGED row
  /\ UNCHANGED <<stream, recovery, copies, legacy>>

RetriesLeft(n) == n < MaxAttempts

(* _mark_retry_or_failed while attempts remain: PENDING again, with what    *)
(* was sent; process_record then raises, whether or not the write applied. *)
MarkRetry(w) ==
  /\ worker[w].pc = "failing"
  /\ RetriesLeft(worker[w].attempt)
  /\ HoldsClaim(w)
  /\ row' = [row EXCEPT ![worker[w].row].status = "PENDING",
                        ![worker[w].row].sent = Recorded(w),
                        ![worker[w].row].age = 0]
  /\ stream' = [stream EXCEPT ![worker[w].row] = TRUE]
  /\ Stop(w)
  /\ UNCHANGED <<recovery, copies, legacy>>

(* _mark_failed does not write sent_destinations.                          *)
MarkFailed(w) ==
  /\ \/ worker[w].pc = "exhausted"
     \/ worker[w].pc = "failing" /\ ~RetriesLeft(worker[w].attempt)
  /\ HoldsClaim(w)
  /\ row' = [row EXCEPT ![worker[w].row].status = "FAILED",
                        ![worker[w].row].age = 0]
  /\ Stop(w)
  /\ UNCHANGED <<stream, recovery, copies, legacy>>

(* The invocation ends where it stands: a crash, or a settling write that   *)
(* failed or was refused.                                                  *)
Crash(w) ==
  /\ Claimed(w)
  /\ Stop(w)
  /\ UNCHANGED <<row, stream, recovery, copies, legacy>>

(* The stream is done with o's image: acknowledged, or given up after      *)
(* maximumRetryAttempts because a record of the batch kept raising.        *)
StreamDone(o) ==
  /\ stream[o]
  /\ stream' = [stream EXCEPT ![o] = FALSE]
  /\ UNCHANGED <<row, worker, recovery, copies, legacy>>

-----------------------------------------------------------------------------
(* recover_abandoned                                                       *)

(* updated_at <= cutoff, the cutoff having been computed when this         *)
(* invocation began.                                                       *)
Expired(o, started) == row[o].age >= ClaimAge + started

(* A claim with no token was made by a release without durable receipts.   *)
TerminalByCountAlone(o) == ~RetriesLeft(row[o].attempts)

Terminal(o) ==
  \/ ~RetriesLeft(row[o].attempts)
  \/ row[o].status = "IN_FLIGHT" /\ row[o].token = 0

QueryInFlightOnly(status, started) ==
  {[row |-> o, terminal |-> Terminal(o)] :
     o \in {p \in Rows : /\ row[p].status = status
                         /\ status = "IN_FLIGHT"
                         /\ Expired(p, started)}}

Query(status, started) ==
  {[row |-> o, terminal |-> Terminal(o)] :
     o \in {p \in Rows : row[p].status = status /\ Expired(p, started)}}

RecoverInFlight ==
  /\ recovery.phase = "off"
  /\ recovery' = [phase |-> "IN_FLIGHT", age |-> 0, found |-> Query("IN_FLIGHT", 0)]
  /\ UNCHANGED <<row, stream, worker, copies, legacy>>

RecoverPending ==
  /\ recovery.phase = "IN_FLIGHT"
  /\ recovery.found = {}
  /\ recovery' = [recovery EXCEPT !.phase = "PENDING",
                                  !.found = Query("PENDING", recovery.age)]
  /\ UNCHANGED <<row, stream, worker, copies, legacy>>

StillAbandoned(o) == row[o].status = recovery.phase /\ Expired(o, recovery.age)

(* One queried row: written only if it is still as old and in that status.  *)
(* "terminal" is what the queried copy said.                               *)
RecoverRow(o) ==
  /\ \E f \in recovery.found :
       /\ f.row = o
       /\ recovery' = [recovery EXCEPT !.found = @ \ {f}]
       /\ IF StillAbandoned(o)
          THEN /\ row' = [row EXCEPT ![o].status = IF f.terminal THEN "FAILED" ELSE "PENDING",
                                     ![o].token = 0, ![o].age = 0]
               /\ stream' = [stream EXCEPT ![o] = @ \/ ~f.terminal]
          ELSE UNCHANGED <<row, stream>>
  /\ UNCHANGED <<worker, copies, legacy>>

(* The invocation ends: its work is done, or a call raised.                *)
RecoveryEnds ==
  /\ recovery.phase # "off"
  /\ recovery' = Asleep
  /\ UNCHANGED <<row, stream, worker, copies, legacy>>

-----------------------------------------------------------------------------
(* Time                                                                    *)

Older(a) == IF a < MaxAge THEN a + 1 ELSE a

(* Lambda kills an invocation at its timeout.                              *)
Tick ==
  /\ row' = [o \in Rows |-> [row[o] EXCEPT !.age = Older(@)]]
  /\ worker' = [w \in Workers |->
       IF Claimed(w) /\ worker[w].age < Timeout
       THEN [worker[w] EXCEPT !.age = @ + 1]
       ELSE Idle]
  /\ recovery' = IF recovery.phase # "off" /\ recovery.age < Timeout
                 THEN [recovery EXCEPT !.age = @ + 1]
                 ELSE Asleep
  /\ UNCHANGED <<stream, copies, legacy>>

-----------------------------------------------------------------------------
Publish(w) ==
  \/ \E o \in Rows : Claim(w, o)
  \/ \E d \in Destinations : Send(w, d)
  \/ Checkpoint(w)
  \/ MarkSent(w)
  \/ MarkRetry(w)
  \/ MarkFailed(w)
  \/ Crash(w)

Recover ==
  \/ RecoverInFlight
  \/ RecoverPending
  \/ \E o \in Rows : RecoverRow(o)
  \/ RecoveryEnds

Next ==
  \/ \E w \in Workers : Publish(w)
  \/ \E o \in Rows : StreamDone(o)
  \/ Recover
  \/ Tick

Spec == Init /\ [][Next]_vars

(* Time passes; the schedule keeps firing and does not fail forever; the    *)
(* stream is not denied to one row forever, since a failing batch is       *)
(* bisected down to the failing record.  Nothing is assumed of a worker.   *)
Fairness ==
  /\ WF_vars(Tick)
  /\ WF_vars(RecoverInFlight)
  /\ SF_vars(RecoverPending)
  /\ \A o \in Rows : SF_vars(RecoverRow(o))
  /\ \A o \in Rows : SF_vars(\E w \in Workers : Claim(w, o))

FairSpec == Spec /\ Fairness

-----------------------------------------------------------------------------
(* Properties                                                              *)

(* If Timely, no two invocations ever work on one row: sends are not        *)
(* conditional, so the ages of claim and invocation alone keep them apart. *)
OneClaimant ==
  \A v, w \in Workers :
    Claimed(v) /\ Claimed(w) /\ worker[v].row = worker[w].row => v = w

(* If Timely, a destination recorded in the row never gets another copy.   *)
RecordedNeverResent ==
  [][\A o \in Rows : \A d \in row[o].sent : copies'[o][d] = copies[o][d]]_vars

(* No queue gets more copies of a row than the row has had claims.         *)
CopiesWithinClaims ==
  \A o \in Rows \ legacy, d \in Destinations : copies[o][d] <= row[o].attempts

(* A row marked SENT has reached each queue it names, whatever crashed,     *)
(* failed or was retried on the way.                                       *)
SentMeansDelivered ==
  \A o \in Rows : row[o].status = "SENT" =>
    /\ DestsOf[o] # {}
    /\ \A d \in DestsOf[o] : copies[o][d] > 0

(* Rows are PENDING only while the retry budget lasts, so the branch for    *)
(* AttemptsExhausted in process_record is never taken.                     *)
PendingHasBudget ==
  /\ \A o \in Rows : row[o].status = "PENDING" => row[o].attempts < MaxAttempts
  /\ \A w \in Workers : worker[w].pc # "exhausted"

(* A row is given up only after its last attempt, or because its claim is   *)
(* a legacy one; recovery decides so on what a query returned earlier.     *)
FailedOnlyWhenExhausted ==
  \A o \in Rows : row[o].status = "FAILED" =>
    row[o].attempts >= MaxAttempts \/ o \in legacy

(* A legacy claim may already have triggered an incident response: it is    *)
(* never replayed.                                                         *)
LegacyNeverReplayed ==
  \A o \in legacy :
    /\ row[o].status \in {"IN_FLIGHT", "FAILED"}
    /\ \A w \in Workers : Claimed(w) => worker[w].row # o

(* A claimant that lost its claim changes nothing any more: what is         *)
(* recorded as sent stays recorded, and a row given up stays given up.     *)
RecordNeverLost ==
  [][\A o \in Rows : /\ row[o].sent \subseteq row'[o].sent
                     /\ row[o].status = "FAILED" => row'[o].status = "FAILED"]_vars

(* Every row is in the end settled for good, even if every invocation       *)
(* crashes.                                                                *)
EventuallySettled ==
  \A o \in Rows : <>[](row[o].status \in {"SENT", "FAILED"})

(* What the outbox promises to whoever inserts a row: see OutboxPromise.  A *)
(* row whose record names all its destinations is delivered for good, even  *)
(* where the last bookkeeping write failed and the row ends FAILED.        *)
outcome ==
  [o \in Rows |-> IF DestsOf[o] # {} /\ row[o].sent = DestsOf[o] THEN "delivered"
                  ELSE IF row[o].status = "FAILED" THEN "abandoned"
                  ELSE "open"]

Promise == INSTANCE OutboxPromise WITH
  Rows <- Rows, Destinations <- Destinations, DestsOf <- DestsOf, MaxAttempts <- MaxAttempts,
  copies <- copies, outcome <- outcome

(* If Timely, the publisher implements that promise.                       *)
KeepsPromise == Promise!Spec
=============================================================================
