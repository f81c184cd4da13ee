---------------------------- MODULE Outbox_proofs ----------------------------
(***************************************************************************)
(* Proofs about Outbox, for any rows, workers and destinations, any retry  *)
(* budget and any ages.  The second half assumes Timely, and ends with the  *)
(* refinement of OutboxPromise.                                            *)
(***************************************************************************)
EXTENDS Outbox, TLAPS

-----------------------------------------------------------------------------
(* The inductive invariant                                                 *)

(* What a row says of itself.                                              *)
RowInv(o) ==
  /\ row[o].token \in {0, row[o].attempts}
  /\ row[o].sent \subseteq DestsOf[o]
  /\ \A d \in row[o].sent : copies[o][d] > 0
  /\ row[o].status = "PENDING" => row[o].attempts < MaxAttempts
  /\ row[o].status = "SENT" => DestsOf[o] # {} /\ row[o].sent = DestsOf[o]
  /\ row[o].status = "FAILED" => row[o].attempts >= MaxAttempts \/ o \in legacy
  /\ row[o].status = "IN_FLIGHT" /\ o \notin legacy => row[o].token # 0
  /\ o \in legacy => row[o].status \in {"IN_FLIGHT", "FAILED"} /\ row[o].token = 0

TableInv == \A o \in Rows : RowInv(o)

(* What a claimant knows, and what it still owns while its token stands.   *)
Owns(w) ==
  /\ \/ row[worker[w].row].status = "IN_FLIGHT"
     \/ row[worker[w].row].status = "SENT" /\ worker[w].pc = "failing"
  /\ row[worker[w].row].sent \subseteq worker[w].sent

WorkerInv(w) ==
  Claimed(w) =>
    /\ worker[w].pc # "exhausted"
    /\ worker[w].row \notin legacy
    /\ worker[w].attempt <= row[worker[w].row].attempts
    /\ worker[w].todo \cup worker[w].sent = DestsOf[worker[w].row]
    /\ worker[w].pc \in {"sending", "checkpoint"} => DestsOf[worker[w].row] # {}
    /\ \A d \in worker[w].sent : copies[worker[w].row][d] > 0
    /\ HoldsClaim(w) => Owns(w)

ClaimantInv == \A w \in Workers : WorkerInv(w)

(* A claim has one holder.                                                 *)
UniqueInv ==
  \A v, w \in Workers :
    Claimed(v) /\ Claimed(w) /\ worker[v].row = worker[w].row
      /\ worker[v].attempt = worker[w].attempt => v = w

(* What a query returned still holds of a row whose condition still holds. *)
RecoveryInv ==
  \A f \in recovery.found : StillAbandoned(f.row) => f.terminal = Terminal(f.row)

Inv == TypeOK /\ TableInv /\ ClaimantInv /\ UniqueInv /\ RecoveryInv

USE OutboxAssumption DEF OutboxAssumption

LEMMA InitInv == Init => Inv
<1> SUFFICES ASSUME Init PROVE Inv
  OBVIOUS
<1>1. ASSUME NEW o \in Rows
      PROVE  \/ o \notin legacy /\ row[o] = NewRow
             \/ o \in legacy /\ \E n \in 1..MaxAttempts : row[o] = LegacyRow(n)
  <2>1. row[o] \in {NewRow} \cup {LegacyRow(n) : n \in 1..MaxAttempts}
    BY DEF Init
  <2>2. row[o] = NewRow <=> o \notin legacy
    BY DEF Init
  <2> QED
    BY <2>1, <2>2
<1>2. ASSUME NEW o \in Rows PROVE row[o] \in Row
  <2>1. NewRow \in Row
    BY DEF NewRow, Row, Status, MaxAge
  <2>2. ASSUME NEW n \in 1..MaxAttempts PROVE LegacyRow(n) \in Row
    BY DEF LegacyRow, Row, Status, MaxAge
  <2> QED
    BY <1>1, <2>1, <2>2
<1>3. TypeOK
  <2>1. \E S : row \in [Rows -> S]
    BY DEF Init
  <2>2. row \in [Rows -> Row]
    BY <1>2, <2>1
  <2> QED
    BY <2>2 DEF Init, TypeOK, Idle, Asleep, Phase, Found
<1>4. TableInv
  <2> SUFFICES ASSUME NEW o \in Rows PROVE RowInv(o)
    BY DEF TableInv
  <2>1. CASE row[o] = NewRow /\ o \notin legacy
    BY <2>1 DEF NewRow, RowInv
  <2>2. ASSUME NEW n \in 1..MaxAttempts, row[o] = LegacyRow(n), o \in legacy
        PROVE  RowInv(o)
    BY <2>2 DEF LegacyRow, RowInv
  <2> QED
    BY <1>1, <2>1, <2>2
<1>5. ClaimantInv /\ UniqueInv
  BY DEF Init, ClaimantInv, WorkerInv, UniqueInv, Claimed
<1>6. RecoveryInv
  BY DEF Init, RecoveryInv, Asleep
<1> QED
  BY <1>3, <1>4, <1>5, <1>6 DEF Inv

-----------------------------------------------------------------------------
(* Facts the steps share                                                   *)

(* An invocation that is anywhere but idle is a claimant.                  *)
LEMMA ClaimantType ==
  ASSUME TypeOK, NEW w \in Workers, Claimed(w)
  PROVE  worker[w] \in Claimant /\ row[worker[w].row] \in Row
BY DEF TypeOK, Claimed, Claimant

LEMMA BusyIsClaimed ==
  ASSUME NEW w \in Workers, worker[w].pc \in Busy
  PROVE  Claimed(w)
BY DEF Claimed, Idle, Busy

LEMMA FreshRow ==
  ASSUME NEW r \in Row, NEW st \in Status, NEW sent \in SUBSET Destinations
  PROVE  /\ [r EXCEPT !.status = st, !.sent = sent, !.age = 0] \in Row
         /\ [r EXCEPT !.status = st, !.age = 0] \in Row
<1>1. 0 \in 0..MaxAge
  BY DEF MaxAge
<1> QED
  BY <1>1 DEF Row

(* Two invocations cannot both hold the claim of a row.                    *)
LEMMA OneHolder ==
  ASSUME Inv, NEW v \in Workers, NEW w \in Workers, v # w,
         Claimed(v), Claimed(w), worker[v].row = worker[w].row,
         HoldsClaim(w)
  PROVE  ~HoldsClaim(v)
BY DEF Inv, UniqueInv, HoldsClaim

(* A step that resets a row's age, or leaves what recovery asks of it, does *)
(* not make the query's answer wrong.                                      *)
LEMMA RecoveryStable ==
  ASSUME Inv, recovery' = recovery,
         \A o \in Rows : \/ row'[o].age = 0
                         \/ /\ row'[o].status = row[o].status
                            /\ row'[o].attempts = row[o].attempts
                            /\ row'[o].token = row[o].token
                            /\ row'[o].age = row[o].age
  PROVE  RecoveryInv'
<1> SUFFICES ASSUME NEW f \in recovery.found, StillAbandoned(f.row)'
             PROVE  f.terminal = Terminal(f.row)'
  BY DEF RecoveryInv
<1>1. f.row \in Rows /\ recovery.age \in Nat
  BY DEF Inv, TypeOK, Found
<1>2. row'[f.row].age # 0
  BY <1>1 DEF StillAbandoned, Expired
<1>3. /\ row'[f.row].status = row[f.row].status
      /\ row'[f.row].attempts = row[f.row].attempts
      /\ row'[f.row].token = row[f.row].token
      /\ row'[f.row].age = row[f.row].age
  BY <1>1, <1>2
<1>4. StillAbandoned(f.row)
  BY <1>3 DEF StillAbandoned, Expired
<1>5. f.terminal = Terminal(f.row)
  BY <1>4 DEF Inv, RecoveryInv
<1> QED
  BY <1>3, <1>5 DEF Terminal, RetriesLeft

-----------------------------------------------------------------------------
(* Every step preserves the invariant                                      *)

LEMMA ClaimStep ==
  ASSUME Inv, NEW w \in Workers, NEW o \in Rows, Claim(w, o)
  PROVE  Inv'
<1> DEFINE n == row[o].attempts + 1
<1>1. /\ row[o] \in Row /\ row[o].status = "PENDING"
      /\ row[o].attempts < MaxAttempts /\ n \in 1..MaxAttempts
      /\ o \notin legacy
  BY DEF Claim, Claimable, Inv, TypeOK, TableInv, RowInv, Row
<1>2. /\ row' = [row EXCEPT ![o] = ClaimedRow(o)]
      /\ ClaimedRow(o) = [status |-> "IN_FLIGHT", attempts |-> n, token |-> n,
                          sent |-> row[o].sent, age |-> 0]
  BY DEF Claim, ClaimedRow
<1>3. /\ row'[o] = ClaimedRow(o)
      /\ \A p \in Rows : p # o => row'[p] = row[p]
  BY <1>2 DEF Inv, TypeOK
<1>4. /\ UNCHANGED <<stream, recovery, copies, legacy>>
      /\ \A v \in Workers : v # w => worker'[v] = worker[v]
      /\ worker'[w] \in {Begin(o), Idle}
  BY DEF Claim, Inv, TypeOK
<1>5. Begin(o) = [pc |-> IF DestsOf[o] = {} THEN "failing" ELSE "sending",
                  row |-> o, attempt |-> n, todo |-> DestsOf[o] \ row[o].sent,
                  sent |-> row[o].sent, age |-> 0]
  <2>1. ~(row[o].attempts + 1 > MaxAttempts)
    BY <1>1
  <2> QED
    BY <2>1 DEF Begin, Remaining
<1>6. Begin(o) \in Claimant
  BY <1>1, <1>5 DEF Claimant, Busy, Row
<1>7. TypeOK'
  <2>1. ClaimedRow(o) \in Row
    BY <1>1, <1>2 DEF Row, Status, MaxAge
  <2>2. row' \in [Rows -> Row]
    BY <1>2, <2>1 DEF Inv, TypeOK
  <2>3. worker' \in [Workers -> {Idle} \cup Claimant]
    BY <1>6 DEF Inv, TypeOK, Claim
  <2> QED
    BY <1>4, <2>2, <2>3 DEF Inv, TypeOK
<1>8. TableInv'
  <2> SUFFICES ASSUME NEW p \in Rows PROVE RowInv(p)'
    BY DEF TableInv
  <2>1. RowInv(p)
    BY DEF Inv, TableInv
  <2>2. CASE p = o
    BY <1>1, <1>2, <1>3, <1>4, <2>1, <2>2 DEF RowInv
  <2>3. CASE p # o
    BY <1>3, <1>4, <2>1, <2>3 DEF RowInv
  <2> QED
    BY <2>2, <2>3
<1>9. ClaimantInv'
  <2> SUFFICES ASSUME NEW v \in Workers, Claimed(v)' PROVE WorkerInv(v)'
    BY DEF ClaimantInv, WorkerInv
  <2>1. CASE v = w
    <3>1. worker'[w] = Begin(o)
      BY <1>4, <2>1 DEF Claimed
    <3> QED
      BY <1>1, <1>2, <1>3, <1>4, <1>5, <2>1, <3>1
      DEF WorkerInv, Owns, HoldsClaim, Inv, TableInv, RowInv, Row, TypeOK
  <2>2. CASE v # w
    <3>1. Claimed(v) /\ worker'[v] = worker[v]
      BY <1>4, <2>2 DEF Claimed
    <3>2. WorkerInv(v) /\ worker[v] \in Claimant
      BY <3>1, ClaimantType DEF Inv, ClaimantInv
    <3>3. CASE worker[v].row = o
      BY <1>1, <1>2, <1>3, <1>4, <3>1, <3>2, <3>3
      DEF WorkerInv, Owns, HoldsClaim, Claimant, Row
    <3>4. CASE worker[v].row # o
      BY <1>3, <1>4, <3>1, <3>2, <3>4 DEF WorkerInv, Owns, HoldsClaim, Claimant
    <3> QED
      BY <3>3, <3>4
  <2> QED
    BY <2>1, <2>2
<1>10. UniqueInv'
  <2>1. ASSUME NEW v \in Workers, v # w, Claimed(v), worker[v].row = o
        PROVE  worker[v].attempt < n
    BY <1>1, <2>1, ClaimantType DEF Inv, ClaimantInv, WorkerInv, Claimant, Row
  <2>2. UniqueInv
    BY DEF Inv
  <2>3. SUFFICES ASSUME NEW u \in Workers, NEW v \in Workers, Claimed(u)', Claimed(v)',
                        worker'[u].row = worker'[v].row,
                        worker'[u].attempt = worker'[v].attempt, u # v
                 PROVE  FALSE
    BY DEF UniqueInv
  <2>4. worker'[w] = Begin(o) \/ ~Claimed(w)'
    BY <1>4 DEF Claimed
  <2>5. CASE u # w /\ v # w
    BY <1>4, <2>2, <2>3, <2>5 DEF UniqueInv, Claimed
  <2>6. CASE u = w
    BY <1>1, <1>4, <1>5, <2>1, <2>3, <2>4, <2>6 DEF Claimed
  <2>7. CASE v = w
    BY <1>1, <1>4, <1>5, <2>1, <2>3, <2>4, <2>7 DEF Claimed
  <2> QED
    BY <2>5, <2>6, <2>7
<1>11. RecoveryInv'
  BY <1>2, <1>3, <1>4, RecoveryStable
<1> QED
  BY <1>7, <1>8, <1>9, <1>10, <1>11 DEF Inv

(* A step of one invocation that writes nothing: it stops, or an exception  *)
(* takes it to the error path.                                             *)
Quiet(w) ==
  \/ worker' = worker
  \/ Stop(w)
  \/ Claimed(w) /\ Goto(w, "failing")

LEMMA QuietStep ==
  ASSUME Inv, NEW w \in Workers, Quiet(w), stream' \in [Rows -> BOOLEAN],
         UNCHANGED <<row, recovery, copies, legacy>>
  PROVE  Inv'
<1>1. ASSUME NEW v \in Workers, Claimed(v)'
      PROVE  /\ Claimed(v)
             /\ worker'[v].row = worker[v].row /\ worker'[v].attempt = worker[v].attempt
             /\ worker'[v].todo = worker[v].todo /\ worker'[v].sent = worker[v].sent
             /\ worker'[v].age = worker[v].age
             /\ worker'[v].pc \in {worker[v].pc, "failing"}
             /\ worker'[v] \in Claimant
  <2>1. CASE worker'[v] = worker[v]
    <3>1. Claimed(v)
      BY <1>1, <2>1 DEF Claimed
    <3> QED
      BY <2>1, <3>1, ClaimantType DEF Inv
  <2>2. CASE worker'[v] # worker[v]
    <3>1. v = w /\ Claimed(w) /\ worker' = [worker EXCEPT ![w].pc = "failing"]
      BY <1>1, <2>2 DEF Quiet, Stop, Goto, Claimed, Inv, TypeOK
    <3>2. worker[w] \in Claimant /\ worker'[w] = [worker[w] EXCEPT !.pc = "failing"]
      BY <3>1, ClaimantType DEF Inv, TypeOK
    <3> QED
      BY <3>1, <3>2 DEF Claimant, Busy
  <2> QED
    BY <2>1, <2>2
<1>2. TypeOK'
  <2>1. \A v \in Workers : worker'[v] \in {Idle} \cup Claimant
    BY <1>1 DEF Claimed
  <2>2. worker' = worker \/ worker' = [worker EXCEPT ![w] = worker'[w]]
    BY DEF Quiet, Stop, Goto, Inv, TypeOK
  <2>3. worker' \in [Workers -> {Idle} \cup Claimant]
    BY <2>1, <2>2 DEF Inv, TypeOK
  <2> QED
    BY <2>3 DEF Inv, TypeOK
<1>3. TableInv'
  BY DEF Inv, TableInv, RowInv
<1>4. ClaimantInv'
  <2> SUFFICES ASSUME NEW v \in Workers, Claimed(v)' PROVE WorkerInv(v)'
    BY DEF ClaimantInv, WorkerInv
  <2>1. WorkerInv(v)
    BY DEF Inv, ClaimantInv
  <2> QED
    BY <1>1, <2>1 DEF WorkerInv, Owns, HoldsClaim
<1>5. UniqueInv'
  BY <1>1 DEF Inv, UniqueInv
<1>6. RecoveryInv'
  BY RecoveryStable
<1> QED
  BY <1>2, <1>3, <1>4, <1>5, <1>6 DEF Inv

LEMMA SendStep ==
  ASSUME Inv, NEW w \in Workers, NEW d \in Destinations, Send(w, d)
  PROVE  Inv'
<1> DEFINE o == worker[w].row
<1>1. Claimed(w) /\ worker[w] \in Claimant /\ o \in Rows
  BY BusyIsClaimed, ClaimantType DEF Send, Busy, Inv, Claimant
<1>2. CASE UNCHANGED copies
  BY <1>1, <1>2, QuietStep DEF Send, Quiet, Inv, TypeOK
<1>3. CASE copies # copies'
  <2>1. /\ copies' = [copies EXCEPT ![o][d] = @ + 1]
        /\ UNCHANGED <<row, stream, recovery, legacy>>
        /\ d \in worker[w].todo /\ worker[w].pc = "sending"
    BY <1>3 DEF Send
  <2>2. copies' \in [Rows -> [Destinations -> Nat]]
    BY <1>1, <2>1 DEF Inv, TypeOK
  <2>3. \A p \in Rows, e \in Destinations :
          copies'[p][e] = IF p = o /\ e = d THEN copies[p][e] + 1 ELSE copies[p][e]
    BY <1>1, <2>1 DEF Inv, TypeOK
  <2>4. \A v \in Workers : v # w => worker'[v] = worker[v]
    BY <1>3 DEF Send, Goto, Inv, TypeOK
  <2>5. \/ worker'[w] = [worker[w] EXCEPT !.pc = "failing"]
        \/ worker'[w] = [worker[w] EXCEPT !.pc = "checkpoint", !.todo = @ \ {d},
                                          !.sent = @ \cup {d}]
    BY <1>3 DEF Send, Goto, Inv, TypeOK
  <2>6. /\ worker'[w] \in Claimant /\ worker'[w].pc \in {"failing", "checkpoint"}
        /\ worker'[w].row = o /\ worker'[w].attempt = worker[w].attempt
        /\ worker'[w].todo \cup worker'[w].sent = worker[w].todo \cup worker[w].sent
        /\ worker[w].sent \subseteq worker'[w].sent
        /\ worker'[w].sent \subseteq worker[w].sent \cup {d}
    <3>1. CASE worker'[w] = [worker[w] EXCEPT !.pc = "failing"]
      BY <1>1, <3>1 DEF Claimant, Busy
    <3>2. CASE worker'[w] = [worker[w] EXCEPT !.pc = "checkpoint", !.todo = @ \ {d},
                                              !.sent = @ \cup {d}]
      <4> DEFINE t == worker[w].todo \ {d}
                 s == worker[w].sent \cup {d}
      <4>1. t \in SUBSET Destinations /\ s \in SUBSET Destinations
        BY <1>1 DEF Claimant
      <4>2. t \cup s = worker[w].todo \cup worker[w].sent
        BY <2>1
      <4>3. worker'[w] = [worker[w] EXCEPT !.pc = "checkpoint", !.todo = t, !.sent = s]
        BY <3>2
      <4> HIDE DEF t, s
      <4>4. /\ worker'[w] \in Claimant /\ worker'[w].pc = "checkpoint"
            /\ worker'[w].row = o /\ worker'[w].attempt = worker[w].attempt
            /\ worker'[w].todo = t /\ worker'[w].sent = s
        BY <1>1, <4>1, <4>3 DEF Claimant, Busy
      <4> QED
        BY <4>2, <4>4 DEF s
    <3> QED
      BY <2>5, <3>1, <3>2
  <2>7. TypeOK'
    <3>1. worker' = [worker EXCEPT ![w] = worker'[w]]
      BY <1>3 DEF Send, Goto, Inv, TypeOK
    <3>2. \A v \in Workers : worker'[v] \in {Idle} \cup Claimant
      BY <2>4, <2>6 DEF Inv, TypeOK
    <3>3. worker' \in [Workers -> {Idle} \cup Claimant]
      BY <3>1, <3>2 DEF Inv, TypeOK
    <3> QED
      BY <2>1, <2>2, <3>3 DEF Inv, TypeOK
  <2>8. TableInv'
    <3> SUFFICES ASSUME NEW p \in Rows PROVE RowInv(p)'
      BY DEF TableInv
    <3>1. RowInv(p) /\ row[p].sent \subseteq Destinations
      BY DEF Inv, TableInv, TypeOK, Row
    <3> QED
      BY <2>1, <2>2, <2>3, <3>1 DEF RowInv, Inv, TypeOK
  <2>9. ClaimantInv'
    <3> SUFFICES ASSUME NEW v \in Workers, Claimed(v)' PROVE WorkerInv(v)'
      BY DEF ClaimantInv, WorkerInv
    <3>1. Claimed(v) /\ WorkerInv(v) /\ worker[v] \in Claimant /\ worker[v].row \in Rows
      BY <1>1, <2>4, ClaimantType DEF Inv, ClaimantInv, Claimed, Claimant
    <3>2. \A p \in Rows, e \in Destinations : copies[p][e] > 0 => copies'[p][e] > 0
      BY <2>3 DEF Inv, TypeOK
    <3>3. CASE v # w
      <4>1. worker'[v] = worker[v]
        BY <2>4, <3>3
      <4> QED
        BY <2>1, <3>1, <3>2, <4>1 DEF WorkerInv, Owns, HoldsClaim, Claimant
    <3>4. CASE v = w
      <4>1. copies'[o][d] > 0
        BY <1>1, <2>3 DEF Inv, TypeOK
      <4>2. \A e \in worker'[w].sent : copies'[o][e] > 0
        BY <1>1, <2>6, <3>1, <3>2, <3>4, <4>1 DEF WorkerInv, Claimant
      <4> QED
        BY <2>1, <2>6, <3>1, <3>4, <4>2 DEF WorkerInv, Owns, HoldsClaim
    <3> QED
      BY <3>3, <3>4
  <2>10. UniqueInv'
    BY <1>1, <2>4, <2>6 DEF Inv, UniqueInv, Claimed
  <2>11. RecoveryInv'
    BY <2>1, RecoveryStable
  <2> QED
    BY <2>7, <2>8, <2>9, <2>10, <2>11 DEF Inv
<1> QED
  BY <1>2, <1>3

(* A conditional write of a claimant to its row, which leaves the claim     *)
(* standing, and what the claimant does next.                              *)
LEMMA ConditionalWrite ==
  ASSUME Inv, NEW w \in Workers, Claimed(w), HoldsClaim(w),
         NEW o \in Rows, o = worker[w].row,
         NEW r \in Row, row' = [row EXCEPT ![o] = r],
         r.attempts = row[o].attempts, r.token = row[o].token,
         r.age = 0 \/ (r.age = row[o].age /\ r.status = row[o].status),
         RowInv(o)',
         NEW pc \in Busy, Stop(w) \/ Goto(w, pc),
         Claimed(w)' => /\ pc # "exhausted"
                        /\ pc \in {"sending", "checkpoint"} => DestsOf[o] # {}
                        /\ r.status = "IN_FLIGHT" \/ (r.status = "SENT" /\ pc = "failing")
                        /\ r.sent \subseteq worker[w].sent,
         stream' \in [Rows -> BOOLEAN], UNCHANGED <<recovery, copies, legacy>>
  PROVE  Inv'
<1>1. worker[w] \in Claimant /\ row[o] \in Row
  BY ClaimantType DEF Inv, Claimant
<1>2. row'[o] = r /\ \A p \in Rows : p # o => row'[p] = row[p]
  BY <1>1 DEF Inv, TypeOK
<1>3. \A v \in Workers : v # w => worker'[v] = worker[v]
  BY DEF Stop, Goto, Inv, TypeOK
<1>4. worker'[w] = Idle \/ worker'[w] = [worker[w] EXCEPT !.pc = pc]
  BY DEF Stop, Goto, Inv, TypeOK
<1>5. Claimed(w)' =>
        /\ worker'[w] \in Claimant /\ worker'[w].pc = pc
        /\ worker'[w].row = o /\ worker'[w].attempt = worker[w].attempt
        /\ worker'[w].todo = worker[w].todo /\ worker'[w].sent = worker[w].sent
  BY <1>1, <1>4 DEF Claimed, Claimant
<1>6. TypeOK'
  <2>1. row' \in [Rows -> Row]
    BY <1>1 DEF Inv, TypeOK
  <2>2. worker'[w] \in {Idle} \cup Claimant
    BY <1>5 DEF Claimed
  <2>3. worker' = [worker EXCEPT ![w] = worker'[w]]
    BY DEF Stop, Goto, Inv, TypeOK
  <2>4. worker' \in [Workers -> {Idle} \cup Claimant]
    BY <2>2, <2>3 DEF Inv, TypeOK
  <2> QED
    BY <2>1, <2>4 DEF Inv, TypeOK
<1>7. TableInv'
  <2> SUFFICES ASSUME NEW p \in Rows, p # o PROVE RowInv(p)'
    BY DEF TableInv
  <2> QED
    BY <1>2 DEF RowInv, Inv, TableInv
<1>8. ClaimantInv'
  <2> SUFFICES ASSUME NEW v \in Workers, Claimed(v)' PROVE WorkerInv(v)'
    BY DEF ClaimantInv, WorkerInv
  <2>1. CASE v = w
    <3>1. WorkerInv(w)
      BY DEF Inv, ClaimantInv
    <3> QED
      BY <1>1, <1>2, <1>5, <2>1, <3>1 DEF WorkerInv, Owns, HoldsClaim
  <2>2. CASE v # w
    <3>1. Claimed(v) /\ worker'[v] = worker[v]
      BY <1>3, <2>2 DEF Claimed
    <3>2. WorkerInv(v) /\ worker[v].row \in Rows
      BY <3>1, ClaimantType DEF Inv, ClaimantInv, Claimant
    <3>3. CASE worker[v].row = o
      <4>1. ~HoldsClaim(v)
        BY <2>2, <3>1, <3>3, OneHolder
      <4> QED
        BY <1>2, <3>1, <3>2, <3>3, <4>1 DEF WorkerInv, HoldsClaim
    <3>4. CASE worker[v].row # o
      BY <1>2, <3>1, <3>2, <3>4 DEF WorkerInv, Owns, HoldsClaim
    <3> QED
      BY <3>3, <3>4
  <2> QED
    BY <2>1, <2>2
<1>9. UniqueInv'
  BY <1>3, <1>5 DEF Inv, UniqueInv, Claimed
<1>10. RecoveryInv'
  BY <1>2, RecoveryStable
<1> QED
  BY <1>1, <1>6, <1>7, <1>8, <1>9, <1>10 DEF Inv, TableInv

LEMMA CheckpointStep ==
  ASSUME Inv, NEW w \in Workers, Checkpoint(w)
  PROVE  Inv'
<1>0. Claimed(w) /\ worker[w] \in Claimant /\ WorkerInv(w)
  BY BusyIsClaimed, ClaimantType DEF Checkpoint, Busy, Inv, ClaimantInv
<1> PICK o \in Rows : o = worker[w].row
  BY <1>0 DEF Claimant
<1> DEFINE r == [row[o] EXCEPT !.sent = worker[w].sent]
<1>1. Claimed(w) /\ worker[w] \in Claimant /\ WorkerInv(w) /\ row[o] \in Row /\ RowInv(o)
  BY <1>0 DEF Inv, TypeOK, TableInv
<1>2. CASE UNCHANGED row /\ Goto(w, "failing")
  BY <1>1, <1>2, QuietStep DEF Checkpoint, Quiet, Inv, TypeOK
<1>3. CASE HoldsClaim(w) /\ row' = [row EXCEPT ![o].sent = Recorded(w)]
                         /\ \E pc \in {"sending", "failing"} : Goto(w, pc)
  <2>1. /\ r \in Row /\ row' = [row EXCEPT ![o] = r] /\ row'[o] = r
        /\ r.attempts = row[o].attempts /\ r.token = row[o].token
        /\ r.age = row[o].age /\ r.status = row[o].status /\ r.sent = worker[w].sent
    BY <1>1, <1>3 DEF Recorded, Row, Claimant, Inv, TypeOK
  <2>2. row[o].status = "IN_FLIGHT"
    BY <1>1, <1>3 DEF WorkerInv, Owns, Checkpoint
  <2>3. RowInv(o)'
    BY <1>1, <2>1, <2>2 DEF RowInv, WorkerInv, Checkpoint
  <2>4. PICK pc \in {"sending", "failing"} : Goto(w, pc)
    BY <1>3
  <2>5. pc \in Busy /\ pc # "exhausted"
    BY DEF Busy
  <2>6. stream' \in [Rows -> BOOLEAN] /\ UNCHANGED <<recovery, copies, legacy>>
    BY DEF Checkpoint, Inv, TypeOK
  <2>7. /\ r.sent \subseteq worker[w].sent
        /\ r.status = "IN_FLIGHT"
        /\ DestsOf[o] # {}
    BY <1>1, <2>1, <2>2 DEF WorkerInv, Checkpoint
  <2> HIDE DEF r
  <2> QED
    BY <1>1, <1>3, <2>1, <2>3, <2>4, <2>5, <2>6, <2>7, ConditionalWrite
<1> QED
  BY <1>2, <1>3 DEF Checkpoint

LEMMA MarkSentStep ==
  ASSUME Inv, NEW w \in Workers, MarkSent(w)
  PROVE  Inv'
<1>0. Claimed(w) /\ worker[w] \in Claimant /\ WorkerInv(w)
  BY BusyIsClaimed, ClaimantType DEF MarkSent, Busy, Inv, ClaimantInv
<1> PICK o \in Rows : o = worker[w].row
  BY <1>0 DEF Claimant
<1> DEFINE r == [row[o] EXCEPT !.status = "SENT", !.sent = worker[w].sent, !.age = 0]
<1>1. Claimed(w) /\ worker[w] \in Claimant /\ WorkerInv(w) /\ row[o] \in Row /\ RowInv(o)
  BY <1>0 DEF Inv, TypeOK, TableInv
<1>2. CASE UNCHANGED row /\ Goto(w, "failing")
  BY <1>1, <1>2, QuietStep DEF MarkSent, Quiet, Inv, TypeOK
<1>3. CASE /\ HoldsClaim(w)
           /\ row' = [row EXCEPT ![o].status = "SENT", ![o].sent = Recorded(w), ![o].age = 0]
           /\ Stop(w) \/ Goto(w, "failing")
  <2>1. /\ row' = [row EXCEPT ![o] = r]
        /\ r.attempts = row[o].attempts /\ r.token = row[o].token
        /\ r.age = 0 /\ r.status = "SENT" /\ r.sent = worker[w].sent
    BY <1>1, <1>3 DEF Recorded, Row, Inv, TypeOK
  <2>2. r \in Row
    BY <1>1, FreshRow DEF Status, Claimant
  <2>3. worker[w].sent = DestsOf[o] /\ DestsOf[o] # {}
    BY <1>1 DEF MarkSent, Complete, WorkerInv
  <2>4. o \notin legacy /\ legacy' = legacy /\ copies' = copies /\ row'[o] = r
    BY <1>1, <2>1 DEF MarkSent, WorkerInv, Inv, TypeOK
  <2> HIDE DEF r
  <2>5. RowInv(o)'
    BY <1>1, <2>1, <2>3, <2>4 DEF RowInv, WorkerInv
  <2>6. "failing" \in Busy
    BY DEF Busy
  <2>7. stream' \in [Rows -> BOOLEAN] /\ UNCHANGED <<recovery, copies, legacy>>
    BY DEF MarkSent, Inv, TypeOK
  <2> QED
    BY <1>1, <1>3, <2>1, <2>2, <2>5, <2>6, <2>7, ConditionalWrite
<1> QED
  BY <1>2, <1>3 DEF MarkSent

LEMMA MarkRetryStep ==
  ASSUME Inv, NEW w \in Workers, MarkRetry(w)
  PROVE  Inv'
<1>0. Claimed(w) /\ worker[w] \in Claimant /\ WorkerInv(w)
  BY BusyIsClaimed, ClaimantType DEF MarkRetry, Busy, Inv, ClaimantInv
<1> PICK o \in Rows : o = worker[w].row
  BY <1>0 DEF Claimant
<1> DEFINE r == [row[o] EXCEPT !.status = "PENDING", !.sent = worker[w].sent, !.age = 0]
<1>1. Claimed(w) /\ worker[w] \in Claimant /\ WorkerInv(w) /\ row[o] \in Row /\ RowInv(o)
  BY <1>0 DEF Inv, TypeOK, TableInv
<1>2. /\ row' = [row EXCEPT ![o] = r]
      /\ r.attempts = row[o].attempts /\ r.token = row[o].token
      /\ r.age = 0 /\ r.status = "PENDING" /\ r.sent = worker[w].sent
  BY <1>1 DEF MarkRetry, Recorded, Row, Inv, TypeOK
<1>3. r \in Row
  BY <1>1, FreshRow DEF Status, Claimant
<1>4. o \notin legacy /\ legacy' = legacy /\ copies' = copies /\ row'[o] = r
  BY <1>1, <1>2 DEF MarkRetry, WorkerInv, Inv, TypeOK
<1>5. row[o].token = worker[w].attempt /\ worker[w].attempt < MaxAttempts
  BY DEF MarkRetry, HoldsClaim, RetriesLeft
<1> HIDE DEF r
<1>6. row[o].attempts < MaxAttempts
  BY <1>1, <1>5 DEF RowInv, Claimant
<1>7. RowInv(o)'
  BY <1>1, <1>2, <1>4, <1>6 DEF RowInv, WorkerInv
<1>8. "failing" \in Busy /\ ~Claimed(w)'
  BY DEF Busy, MarkRetry, Stop, Claimed, Inv, TypeOK
<1>9. stream' \in [Rows -> BOOLEAN] /\ UNCHANGED <<recovery, copies, legacy>>
  BY DEF MarkRetry, Inv, TypeOK
<1> QED
  BY <1>1, <1>2, <1>3, <1>7, <1>8, <1>9, ConditionalWrite DEF MarkRetry

LEMMA MarkFailedStep ==
  ASSUME Inv, NEW w \in Workers, MarkFailed(w)
  PROVE  Inv'
<1>0. Claimed(w) /\ worker[w] \in Claimant /\ WorkerInv(w)
  BY BusyIsClaimed, ClaimantType DEF MarkFailed, Busy, Inv, ClaimantInv
<1> PICK o \in Rows : o = worker[w].row
  BY <1>0 DEF Claimant
<1> DEFINE r == [row[o] EXCEPT !.status = "FAILED", !.age = 0]
<1>1. Claimed(w) /\ worker[w] \in Claimant /\ WorkerInv(w) /\ row[o] \in Row /\ RowInv(o)
  BY <1>0 DEF Inv, TypeOK, TableInv
<1>2. /\ row' = [row EXCEPT ![o] = r]
      /\ r.attempts = row[o].attempts /\ r.token = row[o].token
      /\ r.age = 0 /\ r.status = "FAILED" /\ r.sent = row[o].sent
  BY <1>1 DEF MarkFailed, Row, Inv, TypeOK
<1>3. r \in Row
  BY <1>1, FreshRow DEF Status, Claimant
<1>4. o \notin legacy /\ legacy' = legacy /\ copies' = copies /\ row'[o] = r
  BY <1>1, <1>2 DEF MarkFailed, WorkerInv, Inv, TypeOK
<1>5. row[o].token = worker[w].attempt /\ ~(worker[w].attempt < MaxAttempts)
  BY <1>1 DEF MarkFailed, HoldsClaim, RetriesLeft, WorkerInv
<1> HIDE DEF r
<1>6. row[o].attempts >= MaxAttempts
  BY <1>1, <1>5 DEF RowInv, Claimant, Row
<1>7. RowInv(o)'
  BY <1>1, <1>2, <1>4, <1>6 DEF RowInv
<1>8. "failing" \in Busy /\ ~Claimed(w)'
  BY DEF Busy, MarkFailed, Stop, Claimed, Inv, TypeOK
<1>9. stream' \in [Rows -> BOOLEAN] /\ UNCHANGED <<recovery, copies, legacy>>
  BY DEF MarkFailed, Inv, TypeOK
<1> QED
  BY <1>1, <1>2, <1>3, <1>7, <1>8, <1>9, ConditionalWrite DEF MarkFailed

(* Only recovery's own state changes.                                      *)
LEMMA RecoveryOnly ==
  ASSUME Inv, UNCHANGED <<row, stream, worker, copies, legacy>>, RecoveryInv',
         recovery' \in [phase : Phase, age : 0..Timeout, found : SUBSET Found]
  PROVE  Inv'
BY DEF Inv, TypeOK, TableInv, RowInv, ClaimantInv, WorkerInv, Owns, HoldsClaim, UniqueInv, Claimed

LEMMA QueryType ==
  ASSUME NEW st, NEW started
  PROVE  /\ Query(st, started) \in SUBSET Found
         /\ \A f \in Query(st, started) : f.terminal = Terminal(f.row)
<1>1. ASSUME NEW o \in Rows PROVE Terminal(o) \in BOOLEAN
  BY DEF Terminal, RetriesLeft
<1>2. ASSUME NEW f \in Query(st, started)
      PROVE  \E o \in Rows : f = [row |-> o, terminal |-> Terminal(o)]
  BY DEF Query
<1>3. ASSUME NEW f \in Query(st, started)
      PROVE  f \in Found /\ f.terminal = Terminal(f.row)
  <2>1. PICK o \in Rows : f = [row |-> o, terminal |-> Terminal(o)]
    BY <1>2
  <2> QED
    BY <1>1, <2>1 DEF Found
<1> QED
  BY <1>3

LEMMA RecoverQueries ==
  ASSUME Inv, RecoverInFlight \/ RecoverPending \/ RecoveryEnds
  PROVE  Inv'
<1>0. recovery \in [phase : Phase, age : 0..Timeout, found : SUBSET Found]
  BY DEF Inv, TypeOK
<1>1. CASE RecoverInFlight
  <2>1. recovery' = [phase |-> "IN_FLIGHT", age |-> 0, found |-> Query("IN_FLIGHT", 0)]
    BY <1>1 DEF RecoverInFlight
  <2>2. recovery' \in [phase : Phase, age : 0..Timeout, found : SUBSET Found]
    <3>1. Query("IN_FLIGHT", 0) \in SUBSET Found /\ 0 \in 0..Timeout
      BY QueryType
    <3> QED
      BY <2>1, <3>1 DEF Phase
  <2>3. RecoveryInv'
    <3>1. row' = row /\ recovery'.found = Query("IN_FLIGHT", 0)
      BY <1>1, <2>1 DEF RecoverInFlight
    <3>2. \A f \in recovery'.found : f.terminal = Terminal(f.row)
      BY <3>1, QueryType
    <3> QED
      BY <3>1, <3>2 DEF RecoveryInv, Terminal
  <2> QED
    BY <1>1, <2>2, <2>3, RecoveryOnly DEF RecoverInFlight
<1>2. CASE RecoverPending
  <2>1. recovery' = [recovery EXCEPT !.phase = "PENDING", !.found = Query("PENDING", recovery.age)]
    BY <1>2 DEF RecoverPending
  <2>2. /\ recovery' \in [phase : Phase, age : 0..Timeout, found : SUBSET Found]
        /\ recovery'.found = Query("PENDING", recovery.age)
    <3>1. Query("PENDING", recovery.age) \in SUBSET Found
      BY QueryType
    <3> QED
      BY <1>0, <2>1, <3>1 DEF Phase
  <2>3. RecoveryInv'
    <3>1. row' = row /\ recovery'.found = Query("PENDING", recovery.age)
      BY <1>2, <2>2 DEF RecoverPending
    <3>2. \A f \in recovery'.found : f.terminal = Terminal(f.row)
      BY <3>1, QueryType
    <3> QED
      BY <3>1, <3>2 DEF RecoveryInv, Terminal
  <2> QED
    BY <1>2, <2>2, <2>3, RecoveryOnly DEF RecoverPending
<1>3. CASE RecoveryEnds
  <2>1. RecoveryInv' /\ recovery' \in [phase : Phase, age : 0..Timeout, found : SUBSET Found]
    BY <1>3 DEF RecoveryEnds, Asleep, RecoveryInv, Phase
  <2> QED
    BY <1>3, <2>1, RecoveryOnly DEF RecoveryEnds
<1> QED
  BY <1>1, <1>2, <1>3

LEMMA RecoverRowStep ==
  ASSUME Inv, NEW o \in Rows, RecoverRow(o)
  PROVE  Inv'
<1> PICK f \in recovery.found :
       /\ f.row = o
       /\ recovery' = [recovery EXCEPT !.found = @ \ {f}]
       /\ IF StillAbandoned(o)
          THEN /\ row' = [row EXCEPT ![o].status = IF f.terminal THEN "FAILED" ELSE "PENDING",
                                     ![o].token = 0, ![o].age = 0]
               /\ stream' = [stream EXCEPT ![o] = @ \/ ~f.terminal]
          ELSE UNCHANGED <<row, stream>>
  BY DEF RecoverRow
<1>1. /\ recovery' \in [phase : Phase, age : 0..Timeout, found : SUBSET Found]
      /\ recovery'.phase = recovery.phase /\ recovery'.age = recovery.age
      /\ recovery'.found \subseteq recovery.found
      /\ UNCHANGED <<worker, copies, legacy>>
      /\ recovery.age \in 0..Timeout /\ recovery.found \subseteq Found
  BY DEF RecoverRow, Inv, TypeOK
<1>2. CASE ~StillAbandoned(o)
  <2>1. UNCHANGED <<row, stream>>
    BY <1>2
  <2>2. RecoveryInv'
    BY <1>1, <2>1 DEF Inv, RecoveryInv, StillAbandoned, Expired, Terminal, RetriesLeft
  <2> QED
    BY <1>1, <2>1, <2>2, RecoveryOnly
<1>3. CASE StillAbandoned(o)
  <2> DEFINE st == IF f.terminal THEN "FAILED" ELSE "PENDING"
             r  == [row[o] EXCEPT !.status = st, !.token = 0, !.age = 0]
  <2>0. row[o] \in Row /\ RowInv(o) /\ f.terminal = Terminal(o)
    BY <1>3 DEF Inv, TypeOK, TableInv, RecoveryInv
  <2>1. /\ row' = [row EXCEPT ![o] = r]
        /\ r.status = st /\ r.token = 0 /\ r.age = 0
        /\ r.attempts = row[o].attempts /\ r.sent = row[o].sent
    BY <1>3, <2>0 DEF Inv, TypeOK, Row
  <2>2. r \in Row
    <3>1. 0 \in 0..MaxAge /\ 0 \in 0..MaxAttempts /\ st \in Status
      BY DEF MaxAge, Status
    <3> QED
      BY <2>0, <3>1 DEF Row
  <2>3. st \in {"FAILED", "PENDING"} /\ (st = "FAILED" <=> Terminal(o))
    BY <2>0
  <2> HIDE DEF r, st
  <2>4. row'[o] = r /\ \A p \in Rows : p # o => row'[p] = row[p]
    BY <2>1 DEF Inv, TypeOK
  <2>5. TypeOK'
    <3>1. row' \in [Rows -> Row]
      BY <2>1, <2>2 DEF Inv, TypeOK
    <3>2. stream' \in [Rows -> BOOLEAN]
      BY <1>3 DEF Inv, TypeOK
    <3> QED
      BY <1>1, <3>1, <3>2 DEF Inv, TypeOK
  <2>6. RowInv(o)'
    <3>1. row[o].status \in {"IN_FLIGHT", "PENDING"}
      BY <1>1, <1>3 DEF StillAbandoned, Inv, TypeOK, Phase, Row, Status
    <3>2. Terminal(o) => row[o].attempts >= MaxAttempts \/ o \in legacy
      BY <2>0, <3>1 DEF Terminal, RetriesLeft, RowInv, Row
    <3>3. ~Terminal(o) => row[o].attempts < MaxAttempts /\ o \notin legacy
      BY <2>0, <3>1 DEF Terminal, RetriesLeft, RowInv, Row
    <3> QED
      BY <1>1, <2>0, <2>1, <2>3, <2>4, <3>2, <3>3 DEF RowInv
  <2>7. TableInv'
    <3> SUFFICES ASSUME NEW p \in Rows, p # o PROVE RowInv(p)'
      BY <2>6 DEF TableInv
    <3> QED
      BY <1>1, <2>4 DEF RowInv, Inv, TableInv
  <2>8. ClaimantInv'
    <3> SUFFICES ASSUME NEW v \in Workers, Claimed(v) PROVE WorkerInv(v)'
      BY <1>1 DEF ClaimantInv, WorkerInv, Claimed
    <3>1. worker[v] \in Claimant /\ worker[v].row \in Rows /\ WorkerInv(v)
      BY ClaimantType DEF Inv, Claimant, ClaimantInv
    <3>2. CASE worker[v].row = o
      <4>1. ~HoldsClaim(v)'
        BY <1>1, <2>1, <2>4, <3>1, <3>2 DEF HoldsClaim, Claimant
      <4> QED
        BY <1>1, <2>1, <2>4, <3>1, <3>2, <4>1 DEF WorkerInv
    <3>3. CASE worker[v].row # o
      BY <1>1, <2>4, <3>1, <3>3 DEF WorkerInv, Owns, HoldsClaim
    <3> QED
      BY <3>2, <3>3
  <2>9. UniqueInv'
    BY <1>1 DEF Inv, UniqueInv, Claimed
  <2>10. RecoveryInv'
    <3> SUFFICES ASSUME NEW g \in recovery'.found, StillAbandoned(g.row)'
                 PROVE  g.terminal = Terminal(g.row)'
      BY DEF RecoveryInv
    <3>1. g \in recovery.found /\ g.row \in Rows
      BY <1>1 DEF Found
    <3>2. g.row # o
      BY <1>1, <2>1, <2>4 DEF StillAbandoned, Expired
    <3>3. row'[g.row] = row[g.row]
      BY <2>4, <3>1, <3>2
    <3>4. StillAbandoned(g.row)
      BY <1>1, <3>3 DEF StillAbandoned, Expired
    <3> QED
      BY <3>1, <3>3, <3>4 DEF Inv, RecoveryInv, Terminal, RetriesLeft
  <2> QED
    BY <2>5, <2>7, <2>8, <2>9, <2>10 DEF Inv
<1> QED
  BY <1>2, <1>3

LEMMA TickStep ==
  ASSUME Inv, Tick
  PROVE  Inv'
<1>1. UNCHANGED <<stream, copies, legacy>>
  BY DEF Tick
<1>2. ASSUME NEW a \in 0..MaxAge
      PROVE  Older(a) \in 0..MaxAge /\ Older(a) <= a + 1
  BY DEF Older, MaxAge
<1>3. ASSUME NEW o \in Rows
      PROVE  /\ row'[o] \in Row
             /\ row'[o].status = row[o].status /\ row'[o].attempts = row[o].attempts
             /\ row'[o].token = row[o].token /\ row'[o].sent = row[o].sent
             /\ row'[o].age = Older(row[o].age)
  <2>1. row[o] \in Row /\ row[o].age \in 0..MaxAge
    BY DEF Inv, TypeOK, Row
  <2>2. row'[o] = [row[o] EXCEPT !.age = Older(row[o].age)]
    BY DEF Tick
  <2>3. Older(row[o].age) \in 0..MaxAge
    BY <1>2, <2>1
  <2> QED
    BY <2>1, <2>2, <2>3 DEF Row
<1>4. ASSUME NEW w \in Workers
      PROVE  \/ worker'[w] = Idle
             \/ /\ Claimed(w) /\ worker[w].age < Timeout
                /\ worker'[w] = [worker[w] EXCEPT !.age = worker[w].age + 1]
  BY DEF Tick
<1>5. ASSUME NEW w \in Workers, Claimed(w)'
      PROVE  /\ Claimed(w) /\ worker'[w] \in Claimant
             /\ worker'[w].pc = worker[w].pc /\ worker'[w].row = worker[w].row
             /\ worker'[w].attempt = worker[w].attempt
             /\ worker'[w].todo = worker[w].todo /\ worker'[w].sent = worker[w].sent
             /\ worker'[w].age = worker[w].age + 1
  <2>1. /\ Claimed(w) /\ worker[w].age < Timeout
        /\ worker'[w] = [worker[w] EXCEPT !.age = worker[w].age + 1]
    BY <1>4, <1>5 DEF Claimed
  <2>2. worker[w] \in Claimant
    BY <2>1, ClaimantType DEF Inv
  <2>3. worker[w].age + 1 \in 0..Timeout
    BY <2>1, <2>2 DEF Claimant
  <2> QED
    BY <2>1, <2>2, <2>3 DEF Claimant
<1>6. /\ recovery' \in [phase : Phase, age : 0..Timeout, found : SUBSET Found]
      /\ \/ recovery' = Asleep
         \/ /\ recovery'.phase = recovery.phase /\ recovery'.found = recovery.found
            /\ recovery'.age = recovery.age + 1
  <2>1. CASE recovery.phase # "off" /\ recovery.age < Timeout
    <3>1. recovery' = [recovery EXCEPT !.age = recovery.age + 1]
      BY <2>1 DEF Tick
    <3> QED
      BY <2>1, <3>1 DEF Inv, TypeOK
  <2>2. CASE ~(recovery.phase # "off" /\ recovery.age < Timeout)
    <3>1. recovery' = Asleep
      BY <2>2 DEF Tick
    <3> QED
      BY <3>1 DEF Asleep, Phase
  <2> QED
    BY <2>1, <2>2
<1>7. TypeOK'
  <2>1. row' \in [Rows -> Row]
    BY <1>3 DEF Tick
  <2>2. worker' \in [Workers -> {Idle} \cup Claimant]
    BY <1>5 DEF Tick, Claimed
  <2> QED
    BY <1>1, <1>6, <2>1, <2>2 DEF Inv, TypeOK
<1>8. TableInv'
  <2> SUFFICES ASSUME NEW o \in Rows PROVE RowInv(o)'
    BY DEF TableInv
  <2> QED
    BY <1>1, <1>3 DEF RowInv, Inv, TableInv
<1>9. ClaimantInv'
  <2> SUFFICES ASSUME NEW w \in Workers, Claimed(w)' PROVE WorkerInv(w)'
    BY DEF ClaimantInv, WorkerInv
  <2>1. Claimed(w) /\ WorkerInv(w) /\ worker[w].row \in Rows
    BY <1>5, ClaimantType DEF Inv, ClaimantInv, Claimant
  <2> QED
    BY <1>1, <1>3, <1>5, <2>1 DEF WorkerInv, Owns, HoldsClaim
<1>10. UniqueInv'
  BY <1>5 DEF Inv, UniqueInv
<1>11. RecoveryInv'
  <2> SUFFICES ASSUME NEW f \in recovery'.found, StillAbandoned(f.row)'
               PROVE  f.terminal = Terminal(f.row)'
    BY DEF RecoveryInv
  <2>1. /\ recovery'.phase = recovery.phase /\ f \in recovery.found
        /\ recovery'.age = recovery.age + 1
    BY <1>6 DEF Asleep
  <2>2. f.row \in Rows /\ row[f.row].age \in 0..MaxAge /\ recovery.age \in Nat
    BY <2>1 DEF Inv, TypeOK, Found, Row
  <2>3. Older(row[f.row].age) >= ClaimAge + recovery.age + 1
    BY <1>3, <2>1, <2>2 DEF StillAbandoned, Expired
  <2>4. row[f.row].age >= ClaimAge + recovery.age
    BY <1>2, <2>2, <2>3 DEF MaxAge
  <2>5. StillAbandoned(f.row)
    BY <1>3, <2>1, <2>2, <2>4 DEF StillAbandoned, Expired
  <2> QED
    BY <1>3, <2>1, <2>2, <2>5 DEF Inv, RecoveryInv, Terminal, RetriesLeft
<1> QED
  BY <1>7, <1>8, <1>9, <1>10, <1>11 DEF Inv

LEMMA NextInv ==
  ASSUME Inv, [Next]_vars
  PROVE  Inv'
<1>1. CASE UNCHANGED vars
  BY <1>1 DEF vars, Inv, TypeOK, TableInv, RowInv, ClaimantInv, WorkerInv, Owns, HoldsClaim,
              UniqueInv, Claimed, RecoveryInv, StillAbandoned, Expired, Terminal, RetriesLeft
<1>2. ASSUME NEW w \in Workers, Publish(w)
      PROVE  Inv'
  <2>1. ASSUME NEW o \in Rows, Claim(w, o) PROVE Inv'
    BY <2>1, ClaimStep
  <2>2. ASSUME NEW d \in Destinations, Send(w, d) PROVE Inv'
    BY <2>2, SendStep
  <2>3. CASE Checkpoint(w)
    BY <2>3, CheckpointStep
  <2>4. CASE MarkSent(w)
    BY <2>4, MarkSentStep
  <2>5. CASE MarkRetry(w)
    BY <2>5, MarkRetryStep
  <2>6. CASE MarkFailed(w)
    BY <2>6, MarkFailedStep
  <2>7. CASE Crash(w)
    BY <2>7, QuietStep DEF Crash, Quiet, Inv, TypeOK
  <2> QED
    BY <1>2, <2>1, <2>2, <2>3, <2>4, <2>5, <2>6, <2>7 DEF Publish
<1>3. ASSUME NEW o \in Rows, StreamDone(o)
      PROVE  Inv'
  <2>1. stream' \in [Rows -> BOOLEAN]
    BY <1>3 DEF StreamDone, Inv, TypeOK
  <2>2. RecoveryInv'
    BY <1>3, RecoveryStable DEF StreamDone
  <2> QED
    BY <1>3, <2>1, <2>2
    DEF StreamDone, Inv, TypeOK, TableInv, RowInv, ClaimantInv, WorkerInv, Owns, HoldsClaim,
        UniqueInv, Claimed
<1>4. CASE Recover
  BY <1>4, RecoverQueries, RecoverRowStep DEF Recover
<1>5. CASE Tick
  BY <1>5, TickStep
<1> QED
  BY <1>1, <1>2, <1>3, <1>4, <1>5 DEF Next

-----------------------------------------------------------------------------
(* What follows for every behaviour                                        *)

LEMMA InvAlways == Spec => []Inv
<1>1. Inv /\ [Next]_vars => Inv'
  BY NextInv
<1> QED
  BY InitInv, <1>1, PTL DEF Spec

(* Rows, claims, queries and counts keep their types: in particular no     *)
(* claim ever takes a row's attempts past PUBLISHER_MAX_ATTEMPTS.          *)
THEOREM TypeCorrect == Spec => []TypeOK
<1>1. Inv => TypeOK
  BY DEF Inv
<1> QED
  BY InvAlways, <1>1, PTL

(* SENT is written only once every queue the row names has its message.    *)
THEOREM SentIsDelivered == Spec => []SentMeansDelivered
<1>1. Inv => SentMeansDelivered
  BY DEF Inv, TableInv, RowInv, SentMeansDelivered
<1> QED
  BY InvAlways, <1>1, PTL

(* No row is PENDING without an attempt left, and no invocation reaches    *)
(* the AttemptsExhausted branch of process_record.                         *)
THEOREM PendingIsRetryable == Spec => []PendingHasBudget
<1>1. Inv => PendingHasBudget
  <2> SUFFICES ASSUME Inv, NEW w \in Workers PROVE worker[w].pc # "exhausted"
    BY DEF Inv, TableInv, RowInv, PendingHasBudget
  <2>1. CASE Claimed(w)
    BY <2>1 DEF Inv, ClaimantInv, WorkerInv
  <2>2. CASE ~Claimed(w)
    BY <2>2 DEF Claimed, Idle
  <2> QED
    BY <2>1, <2>2
<1> QED
  BY InvAlways, <1>1, PTL

(* A row is given up only with its budget spent, or as a legacy claim.     *)
THEOREM FailedIsFinal == Spec => []FailedOnlyWhenExhausted
<1>1. Inv => FailedOnlyWhenExhausted
  BY DEF Inv, TableInv, RowInv, FailedOnlyWhenExhausted
<1> QED
  BY InvAlways, <1>1, PTL

(* A claim without a token is never replayed.                              *)
THEOREM LegacyIsSafe == Spec => []LegacyNeverReplayed
<1>1. Inv => LegacyNeverReplayed
  <2> SUFFICES ASSUME Inv, NEW o \in legacy
               PROVE  /\ row[o].status \in {"IN_FLIGHT", "FAILED"}
                      /\ \A w \in Workers : Claimed(w) => worker[w].row # o
    BY DEF LegacyNeverReplayed
  <2>1. o \in Rows
    BY DEF Inv, TypeOK
  <2>2. row[o].status \in {"IN_FLIGHT", "FAILED"}
    BY <2>1 DEF Inv, TableInv, RowInv
  <2>3. ASSUME NEW w \in Workers, Claimed(w) PROVE worker[w].row # o
    BY <2>3 DEF Inv, ClaimantInv, WorkerInv
  <2> QED
    BY <2>2, <2>3
<1> QED
  BY InvAlways, <1>1, PTL

(* What RecordNeverLost says of one row.                                   *)
RecordKept(o) ==
  /\ row[o].sent \subseteq row'[o].sent
  /\ row[o].status = "FAILED" => row'[o].status = "FAILED"

(* A write conditional on the claim finds the row in flight or sent, and   *)
(* writes at least what the row has recorded.                              *)
LEMMA ConditionalWriteKeeps ==
  ASSUME Inv, NEW w \in Workers, Claimed(w), HoldsClaim(w),
         row'[worker[w].row].sent \in {worker[w].sent, row[worker[w].row].sent},
         row' = [row EXCEPT ![worker[w].row] = row'[worker[w].row]],
         NEW o \in Rows
  PROVE  RecordKept(o)
<1>1. Owns(w)
  BY DEF Inv, ClaimantInv, WorkerInv
<1>2. CASE o = worker[w].row
  BY <1>1, <1>2 DEF Owns, RecordKept
<1>3. CASE o # worker[w].row
  BY <1>3 DEF Inv, TypeOK, RecordKept
<1> QED
  BY <1>2, <1>3

LEMMA NextKeepsRecord ==
  ASSUME Inv, [Next]_vars, NEW o \in Rows
  PROVE  RecordKept(o)
<1>1. CASE row' = row
  BY <1>1 DEF RecordKept
<1>2. ASSUME NEW w \in Workers, NEW p \in Rows, Claim(w, p)
      PROVE  RecordKept(o)
  BY <1>2 DEF Claim, Claimable, ClaimedRow, RecordKept, Inv, TypeOK
<1>3. ASSUME NEW w \in Workers, Checkpoint(w) \/ MarkSent(w) \/ MarkRetry(w) \/ MarkFailed(w),
             row' # row
      PROVE  RecordKept(o)
  <2>1. Claimed(w) /\ worker[w] \in Claimant /\ row[worker[w].row] \in Row /\ HoldsClaim(w)
    <3>1. worker[w].pc \in Busy /\ HoldsClaim(w)
      BY <1>3 DEF Checkpoint, MarkSent, MarkRetry, MarkFailed, Busy
    <3> QED
      BY <3>1, BusyIsClaimed, ClaimantType DEF Inv, Claimant, TypeOK
  <2>2. row' = [row EXCEPT ![worker[w].row] = row'[worker[w].row]]
    BY <1>3, <2>1 DEF Checkpoint, MarkSent, MarkRetry, MarkFailed, Inv, TypeOK, Claimant
  <2>3. row'[worker[w].row].sent \in {worker[w].sent, row[worker[w].row].sent}
    BY <1>3, <2>1
    DEF Checkpoint, MarkSent, MarkRetry, MarkFailed, Recorded, Inv, TypeOK, Claimant, Row
  <2> QED
    BY <2>1, <2>2, <2>3, ConditionalWriteKeeps
<1>4. ASSUME NEW p \in Rows, RecoverRow(p)
      PROVE  RecordKept(o)
  <2>1. CASE StillAbandoned(p)
    <3>1. row[p].status # "FAILED" /\ row[p] \in Row
      BY <2>1 DEF StillAbandoned, Inv, TypeOK, Phase
    <3>2. /\ row'[p].sent = row[p].sent
          /\ \A q \in Rows : q # p => row'[q] = row[q]
      BY <1>4, <2>1, <3>1 DEF RecoverRow, Inv, TypeOK, Row
    <3> QED
      BY <3>1, <3>2 DEF RecordKept
  <2>2. CASE ~StillAbandoned(p)
    BY <1>1, <1>4, <2>2 DEF RecoverRow
  <2> QED
    BY <2>1, <2>2
<1>5. CASE Tick
  BY <1>5 DEF Tick, Inv, TypeOK, Row, RecordKept
<1>6. ASSUME NEW w \in Workers, Publish(w), row' # row
      PROVE  RecordKept(o)
  BY <1>2, <1>3, <1>6 DEF Publish, Send, Crash
<1> QED
  BY <1>1, <1>4, <1>5, <1>6
  DEF Next, vars, Recover, StreamDone, RecoverInFlight, RecoverPending, RecoveryEnds

(* Nothing recorded as sent is ever forgotten and no row given up comes    *)
(* back, however stale the invocation or the query that writes.            *)
THEOREM RecordIsKept == Spec => RecordNeverLost
<1>1. Inv /\ [Next]_vars
        => [\A o \in Rows : /\ row[o].sent \subseteq row'[o].sent
                            /\ row[o].status = "FAILED" => row'[o].status = "FAILED"]_vars
  BY NextKeepsRecord DEF RecordKept
<1> QED
  BY InvAlways, <1>1, PTL DEF Spec, RecordNeverLost

-----------------------------------------------------------------------------
(* What rests on the timeout: an invocation is never older than Timeout,   *)
(* its claim never older than the invocation, and recovery takes back only *)
(* claims older than that.                                                 *)

Fresh(w) ==
  Claimed(w) =>
    /\ HoldsClaim(w)
    /\ row[worker[w].row].age <= worker[w].age
    /\ worker[w].todo \cap worker[w].sent = {}

FreshInv == \A w \in Workers : Fresh(w)

(* What is still to send has had fewer copies than the row has had claims. *)
Unspent(w) ==
  worker[w].pc \in {"sending", "checkpoint"} =>
    \A d \in worker[w].todo : copies[worker[w].row][d] < row[worker[w].row].attempts

CopiesInv == CopiesWithinClaims /\ \A w \in Workers : Unspent(w)

TimelyInv == FreshInv /\ CopiesInv

LEMMA InitTimely == Init => TimelyInv
<1> SUFFICES ASSUME Init PROVE TimelyInv
  OBVIOUS
<1>1. FreshInv
  BY DEF Init, FreshInv, Fresh, Claimed
<1>2. CopiesWithinClaims
  <2> SUFFICES ASSUME NEW o \in Rows \ legacy, NEW d \in Destinations
               PROVE  copies[o][d] <= row[o].attempts
    BY DEF CopiesWithinClaims
  <2>1. row[o] = NewRow /\ copies[o][d] = 0
    BY DEF Init
  <2> QED
    BY <2>1 DEF NewRow
<1>3. \A w \in Workers : Unspent(w)
  BY DEF Init, Unspent, Idle
<1> QED
  BY <1>1, <1>2, <1>3 DEF TimelyInv, CopiesInv

(* What a claimant's row looks like.                                       *)
LEMMA FreshOwner ==
  ASSUME Inv, FreshInv, NEW w \in Workers, Claimed(w)
  PROVE  /\ worker[w] \in Claimant
         /\ worker[w].row \in Rows /\ worker[w].row \notin legacy
         /\ row[worker[w].row] \in Row
         /\ row[worker[w].row].status \in {"IN_FLIGHT", "SENT"}
         /\ row[worker[w].row].sent \subseteq worker[w].sent
         /\ worker[w].todo \cap row[worker[w].row].sent = {}
         /\ worker[w].todo \subseteq DestsOf[worker[w].row]
         /\ row[worker[w].row].age <= worker[w].age
         /\ row[worker[w].row].age <= Timeout
<1>1. worker[w] \in Claimant /\ row[worker[w].row] \in Row
  BY ClaimantType DEF Inv
<1>2. WorkerInv(w) /\ Fresh(w)
  BY DEF Inv, ClaimantInv, FreshInv
<1>3. Owns(w)
  BY <1>2 DEF WorkerInv, Fresh
<1>4. worker[w].age <= Timeout /\ worker[w].age \in Nat /\ row[worker[w].row].age \in Nat
  BY <1>1 DEF Claimant, Row, MaxAge
<1>5. worker[w].row \in Rows
  BY <1>1 DEF Claimant
<1> QED
  BY <1>1, <1>2, <1>3, <1>4, <1>5 DEF Owns, WorkerInv, Fresh

LEMMA Alone ==
  ASSUME Inv, FreshInv
  PROVE  OneClaimant
BY DEF Inv, FreshInv, Fresh, HoldsClaim, UniqueInv, OneClaimant

-----------------------------------------------------------------------------
(* Every step keeps claims fresh                                           *)

(* A claimant that stays on its row, whose row keeps its token and gets no  *)
(* older than the claimant.                                                *)
LEMMA StaysFresh ==
  ASSUME Inv, FreshInv, NEW v \in Workers, Claimed(v),
         worker'[v].row = worker[v].row, worker'[v].attempt = worker[v].attempt,
         worker'[v].todo \cap worker'[v].sent = {},
         row'[worker[v].row].token = row[worker[v].row].token,
         row'[worker[v].row].age <= worker'[v].age
  PROVE  Fresh(v)'
BY DEF FreshInv, Fresh, HoldsClaim

LEMMA ClaimFresh ==
  ASSUME Inv, FreshInv, NEW w \in Workers, NEW o \in Rows, Claim(w, o)
  PROVE  FreshInv'
<1> SUFFICES ASSUME NEW v \in Workers, Claimed(v)' PROVE Fresh(v)'
  BY DEF FreshInv, Fresh
<1>1. /\ row'[o] = ClaimedRow(o)
      /\ \A p \in Rows : p # o => row'[p] = row[p]
  BY DEF Claim, Inv, TypeOK
<1>2. CASE v = w
  <2>1. worker'[w] = Begin(o)
    BY <1>2 DEF Claim, Claimed, Inv, TypeOK
  <2>2. /\ worker'[w].row = o /\ worker'[w].attempt = row[o].attempts + 1
        /\ worker'[w].age = 0 /\ worker'[w].todo \cap worker'[w].sent = {}
    BY <2>1 DEF Begin, Remaining
  <2>3. row'[o].token = row[o].attempts + 1 /\ row'[o].age = 0
    BY <1>1 DEF ClaimedRow
  <2> QED
    BY <1>2, <2>2, <2>3 DEF Fresh, HoldsClaim
<1>3. CASE v # w
  <2>1. worker'[v] = worker[v] /\ Claimed(v)
    BY <1>3 DEF Claim, Claimed, Inv, TypeOK
  <2>2. worker[v].row # o /\ worker[v].row \in Rows
    BY <2>1, FreshOwner DEF Claim, Claimable
  <2> QED
    BY <1>1, <2>1, <2>2 DEF FreshInv, Fresh, HoldsClaim
<1> QED
  BY <1>2, <1>3

(* Whatever else an invocation does, it keeps its own claim and every row's *)
(* token, and at most makes a row younger.                                 *)
LEMMA WorkFresh ==
  ASSUME Inv, FreshInv, NEW w \in Workers,
         \A v \in Workers : v # w => worker'[v] = worker[v],
         Claimed(w)' => /\ Claimed(w)
                        /\ worker'[w].row = worker[w].row
                        /\ worker'[w].attempt = worker[w].attempt
                        /\ worker'[w].age = worker[w].age
                        /\ worker'[w].todo \cap worker'[w].sent = {},
         \A o \in Rows : row'[o].token = row[o].token /\ row'[o].age \in {0, row[o].age}
  PROVE  FreshInv'
<1> SUFFICES ASSUME NEW v \in Workers, Claimed(v)' PROVE Fresh(v)'
  BY DEF FreshInv, Fresh
<1>1. /\ Claimed(v)
      /\ worker'[v].row = worker[v].row /\ worker'[v].attempt = worker[v].attempt
      /\ worker'[v].age = worker[v].age
      /\ worker'[v].todo \cap worker'[v].sent = {}
  BY DEF Claimed, FreshInv, Fresh
<1>2. /\ worker[v].row \in Rows /\ row[worker[v].row].age <= worker[v].age
      /\ worker[v].age \in Nat
  BY <1>1, FreshOwner DEF Claimant
<1>3. row'[worker[v].row].age <= worker[v].age
  BY <1>2
<1> QED
  BY <1>1, <1>2, <1>3, StaysFresh

LEMMA SendFresh ==
  ASSUME Inv, FreshInv, NEW w \in Workers, NEW d \in Destinations, Send(w, d)
  PROVE  FreshInv'
<1>1. Claimed(w) /\ worker[w] \in Claimant /\ worker[w].todo \cap worker[w].sent = {}
  BY BusyIsClaimed, ClaimantType DEF Send, Busy, Inv, FreshInv, Fresh
<1>2. /\ row' = row
      /\ \A v \in Workers : v # w => worker'[v] = worker[v]
      /\ \/ worker'[w] = [worker[w] EXCEPT !.pc = "failing"]
         \/ worker'[w] = [worker[w] EXCEPT !.pc = "checkpoint", !.todo = @ \ {d},
                                           !.sent = @ \cup {d}]
  BY DEF Send, Goto, Inv, TypeOK
<1>3. /\ worker'[w].row = worker[w].row /\ worker'[w].attempt = worker[w].attempt
      /\ worker'[w].age = worker[w].age
      /\ worker'[w].todo \cap worker'[w].sent = {}
  BY <1>1, <1>2 DEF Claimant
<1> QED
  BY <1>1, <1>2, <1>3, WorkFresh

(* The actions of an invocation that write its row, or end it.             *)
Writes(w) == Checkpoint(w) \/ MarkSent(w) \/ MarkRetry(w) \/ MarkFailed(w) \/ Crash(w)

LEMMA WriteEffect ==
  ASSUME Inv, NEW w \in Workers, Writes(w)
  PROVE  /\ Claimed(w) /\ worker[w] \in Claimant /\ worker[w].row \in Rows
         /\ \A v \in Workers : v # w => worker'[v] = worker[v]
         /\ Claimed(w)' => /\ worker'[w].row = worker[w].row
                           /\ worker'[w].attempt = worker[w].attempt
                           /\ worker'[w].age = worker[w].age
                           /\ worker'[w].todo = worker[w].todo
                           /\ worker'[w].sent = worker[w].sent
         /\ \A o \in Rows : /\ row'[o].token = row[o].token
                            /\ row'[o].attempts = row[o].attempts
                            /\ row'[o].age \in {0, row[o].age}
         /\ row' # row => /\ HoldsClaim(w)
                          /\ \A o \in Rows : o # worker[w].row => row'[o] = row[o]
         /\ UNCHANGED <<copies, legacy>>
<1>1. Claimed(w)
  BY BusyIsClaimed DEF Writes, Checkpoint, MarkSent, MarkRetry, MarkFailed, Crash, Busy
<1>2. worker[w] \in Claimant /\ worker[w].row \in Rows /\ row[worker[w].row] \in Row
  BY <1>1, ClaimantType DEF Inv, Claimant
<1>3. /\ \A v \in Workers : v # w => worker'[v] = worker[v]
      /\ worker'[w] = Idle \/ \E pc \in Busy : worker'[w] = [worker[w] EXCEPT !.pc = pc]
  BY DEF Writes, Checkpoint, MarkSent, MarkRetry, MarkFailed, Crash, Stop, Goto, Busy, Inv, TypeOK
<1>4. Claimed(w)' => /\ worker'[w].row = worker[w].row
                     /\ worker'[w].attempt = worker[w].attempt
                     /\ worker'[w].age = worker[w].age
                     /\ worker'[w].todo = worker[w].todo /\ worker'[w].sent = worker[w].sent
  BY <1>2, <1>3 DEF Claimed, Claimant
<1>5. CASE row' = row
  BY <1>1, <1>2, <1>3, <1>4, <1>5 DEF Writes, Checkpoint, MarkSent, MarkRetry, MarkFailed, Crash
<1>6. CASE row' # row
  <2>1. Checkpoint(w) \/ MarkSent(w) \/ MarkRetry(w) \/ MarkFailed(w)
    BY <1>6 DEF Writes, Crash
  <2>2. HoldsClaim(w) /\ row' = [row EXCEPT ![worker[w].row] = row'[worker[w].row]]
    BY <1>2, <1>6, <2>1 DEF Checkpoint, MarkSent, MarkRetry, MarkFailed, Inv, TypeOK
  <2>3. /\ row'[worker[w].row].token = row[worker[w].row].token
        /\ row'[worker[w].row].attempts = row[worker[w].row].attempts
        /\ row'[worker[w].row].age \in {0, row[worker[w].row].age}
    BY <1>2, <1>6, <2>1 DEF Checkpoint, MarkSent, MarkRetry, MarkFailed, Inv, TypeOK, Row
  <2>4. \A o \in Rows : o # worker[w].row => row'[o] = row[o]
    BY <1>2, <2>2 DEF Inv, TypeOK
  <2>5. UNCHANGED <<copies, legacy>>
    BY <2>1 DEF Checkpoint, MarkSent, MarkRetry, MarkFailed
  <2>6. \A o \in Rows : /\ row'[o].token = row[o].token
                        /\ row'[o].attempts = row[o].attempts
                        /\ row'[o].age \in {0, row[o].age}
    BY <2>3, <2>4
  <2> QED
    BY <1>1, <1>2, <1>3, <1>4, <2>2, <2>4, <2>5, <2>6
<1> QED
  BY <1>5, <1>6

LEMMA WriteFresh ==
  ASSUME Inv, FreshInv, NEW w \in Workers, Writes(w)
  PROVE  FreshInv'
<1>1. worker[w].todo \cap worker[w].sent = {}
  BY WriteEffect DEF FreshInv, Fresh
<1> QED
  BY <1>1, WriteEffect, WorkFresh

(* No row that recovery takes back has a claimant.                         *)
LEMMA AbandonedHasNone ==
  ASSUME Timely, Inv, FreshInv, NEW w \in Workers, Claimed(w)
  PROVE  ~StillAbandoned(worker[w].row)
<1>1. row[worker[w].row].age <= Timeout /\ row[worker[w].row].age \in Nat
  BY FreshOwner DEF Row, MaxAge
<1>2. recovery.age \in Nat
  BY DEF Inv, TypeOK
<1> QED
  BY <1>1, <1>2 DEF Timely, StillAbandoned, Expired

LEMMA RecoverFresh ==
  ASSUME Timely, Inv, FreshInv, Recover
  PROVE  FreshInv'
<1>1. UNCHANGED worker
  BY DEF Recover, RecoverInFlight, RecoverPending, RecoverRow, RecoveryEnds
<1>2. ASSUME NEW v \in Workers, Claimed(v)
      PROVE  row'[worker[v].row] = row[worker[v].row]
  <2>1. worker[v].row \in Rows /\ ~StillAbandoned(worker[v].row)
    BY <1>2, AbandonedHasNone, FreshOwner
  <2>2. ASSUME NEW o \in Rows, RecoverRow(o)
        PROVE  row'[worker[v].row] = row[worker[v].row]
    <3>1. CASE o = worker[v].row
      BY <2>1, <2>2, <3>1 DEF RecoverRow
    <3>2. CASE o # worker[v].row
      BY <2>1, <2>2, <3>2 DEF RecoverRow, Inv, TypeOK
    <3> QED
      BY <3>1, <3>2
  <2> QED
    BY <2>2 DEF Recover, RecoverInFlight, RecoverPending, RecoveryEnds
<1> QED
  BY <1>1, <1>2 DEF FreshInv, Fresh, Claimed, HoldsClaim

LEMMA TickFresh ==
  ASSUME Inv, FreshInv, Tick
  PROVE  FreshInv'
<1> SUFFICES ASSUME NEW v \in Workers, Claimed(v)' PROVE Fresh(v)'
  BY DEF FreshInv, Fresh
<1>1. Claimed(v) /\ worker'[v] = [worker[v] EXCEPT !.age = @ + 1]
  BY DEF Tick, Claimed
<1>2. /\ worker[v] \in Claimant /\ worker[v].row \in Rows /\ row[worker[v].row] \in Row
      /\ row[worker[v].row].age <= worker[v].age
      /\ worker[v].todo \cap worker[v].sent = {}
  BY <1>1, FreshOwner DEF FreshInv, Fresh
<1>3. /\ worker'[v].row = worker[v].row /\ worker'[v].attempt = worker[v].attempt
      /\ worker'[v].todo = worker[v].todo /\ worker'[v].sent = worker[v].sent
      /\ worker'[v].age = worker[v].age + 1
  BY <1>1, <1>2 DEF Claimant
<1>4. row'[worker[v].row] = [row[worker[v].row] EXCEPT !.age = Older(@)]
  BY <1>2 DEF Tick
<1>5. /\ row'[worker[v].row].token = row[worker[v].row].token
      /\ row'[worker[v].row].age = Older(row[worker[v].row].age)
  BY <1>2, <1>4 DEF Row
<1>6. row'[worker[v].row].age <= worker'[v].age
  BY <1>2, <1>3, <1>5 DEF Older, MaxAge, Row, Claimant
<1> QED
  BY <1>1, <1>2, <1>3, <1>5, <1>6, StaysFresh

LEMMA NextFresh ==
  ASSUME Timely, Inv, FreshInv, [Next]_vars
  PROVE  FreshInv'
<1>1. CASE UNCHANGED <<row, worker>>
  BY <1>1 DEF FreshInv, Fresh, Claimed, HoldsClaim
<1>2. ASSUME NEW w \in Workers, Publish(w)
      PROVE  FreshInv'
  BY <1>2, ClaimFresh, SendFresh, WriteFresh DEF Publish, Writes
<1> QED
  BY <1>1, <1>2, RecoverFresh, TickFresh DEF Next, vars, StreamDone

-----------------------------------------------------------------------------
(* Every step keeps copies within claims                                   *)

(* A step that sends nothing, lowers no row's count of claims, and gives no *)
(* invocation more to send.                                                *)
LEMMA NoCopy ==
  ASSUME Inv, CopiesInv, UNCHANGED <<copies, legacy>>,
         \A o \in Rows : row'[o].attempts = row[o].attempts,
         \A w \in Workers :
           worker'[w].pc \in {"sending", "checkpoint"} =>
             /\ worker[w].pc \in {"sending", "checkpoint"}
             /\ worker'[w].row = worker[w].row /\ worker[w].row \in Rows
             /\ worker'[w].todo \subseteq worker[w].todo
  PROVE  CopiesInv'
<1>1. CopiesWithinClaims'
  BY DEF CopiesInv, CopiesWithinClaims
<1>2. ASSUME NEW w \in Workers PROVE Unspent(w)'
  BY DEF CopiesInv, Unspent
<1> QED
  BY <1>1, <1>2 DEF CopiesInv

LEMMA ClaimCopies ==
  ASSUME Inv, FreshInv, CopiesInv, NEW w \in Workers, NEW o \in Rows, Claim(w, o)
  PROVE  CopiesInv'
<1>1. /\ row'[o].attempts = row[o].attempts + 1 /\ row[o].attempts \in Nat
      /\ \A p \in Rows : p # o => row'[p] = row[p]
      /\ UNCHANGED <<copies, legacy>> /\ o \notin legacy
      /\ copies \in [Rows -> [Destinations -> Nat]]
  BY DEF Claim, Claimable, ClaimedRow, Inv, TypeOK, Row, TableInv, RowInv
<1>2. \A d \in Destinations : copies[o][d] <= row[o].attempts /\ copies[o][d] \in Nat
  BY <1>1 DEF CopiesInv, CopiesWithinClaims
<1>3. CopiesWithinClaims'
  BY <1>1, <1>2 DEF CopiesInv, CopiesWithinClaims
<1>4. ASSUME NEW v \in Workers PROVE Unspent(v)'
  <2>1. CASE v = w
    <3>1. worker'[w] = Idle \/ worker'[w] = Begin(o)
      BY DEF Claim, Inv, TypeOK
    <3>2. CASE worker'[w] = Idle
      BY <2>1, <3>2 DEF Unspent, Idle
    <3>3. CASE worker'[w] = Begin(o)
      <4>1. worker'[w].row = o /\ worker'[w].todo \subseteq Destinations
        BY <3>3 DEF Begin, Remaining
      <4> QED
        BY <1>1, <1>2, <2>1, <4>1 DEF Unspent
    <3> QED
      BY <3>1, <3>2, <3>3
  <2>2. CASE v # w
    <3>1. worker'[v] = worker[v]
      BY <2>2 DEF Claim, Inv, TypeOK
    <3>2. worker[v].pc \in {"sending", "checkpoint"} => worker[v].row # o /\ worker[v].row \in Rows
      BY BusyIsClaimed, FreshOwner DEF Claim, Claimable, Busy
    <3> QED
      BY <1>1, <3>1, <3>2 DEF CopiesInv, Unspent
  <2> QED
    BY <2>1, <2>2
<1> QED
  BY <1>3, <1>4 DEF CopiesInv

(* What a send finds and does.                                             *)
Sends(w, d) ==
  /\ worker[w] \in Claimant /\ worker[w].row \in Rows /\ worker[w].row \notin legacy
  /\ row[worker[w].row].status \in {"IN_FLIGHT", "SENT"}
  /\ d \in DestsOf[worker[w].row] /\ d \notin row[worker[w].row].sent
  /\ copies[worker[w].row][d] \in Nat
  /\ copies[worker[w].row][d] < row[worker[w].row].attempts
  /\ row[worker[w].row].attempts \in 0..MaxAttempts
  /\ row' = row /\ legacy' = legacy
  /\ copies' = [copies EXCEPT ![worker[w].row][d] = @ + 1]
  /\ \A v \in Workers : v # w => /\ worker'[v] = worker[v]
                                 /\ Claimed(v) => worker[v].row # worker[w].row
  /\ \/ worker'[w].pc = "failing"
     \/ worker'[w].row = worker[w].row /\ worker'[w].todo = worker[w].todo \ {d}

LEMMA SendFacts ==
  ASSUME Inv, FreshInv, CopiesInv, NEW w \in Workers, NEW d \in Destinations, Send(w, d)
  PROVE  copies' = copies \/ Sends(w, d)
<1> SUFFICES ASSUME copies' # copies PROVE Sends(w, d)
  OBVIOUS
<1>1. Claimed(w)
  BY BusyIsClaimed DEF Send, Busy
<1>2. /\ worker[w] \in Claimant /\ worker[w].row \in Rows /\ worker[w].row \notin legacy
      /\ row[worker[w].row] \in Row
      /\ row[worker[w].row].status \in {"IN_FLIGHT", "SENT"}
      /\ worker[w].todo \cap row[worker[w].row].sent = {}
      /\ worker[w].todo \subseteq DestsOf[worker[w].row]
  BY <1>1, FreshOwner
<1>3. /\ d \in worker[w].todo /\ copies[worker[w].row][d] < row[worker[w].row].attempts
      /\ UNCHANGED <<row, legacy>>
      /\ copies' = [copies EXCEPT ![worker[w].row][d] = @ + 1]
  BY DEF Send, CopiesInv, Unspent
<1>4. copies[worker[w].row][d] \in Nat /\ row[worker[w].row].attempts \in 0..MaxAttempts
  BY <1>2 DEF Inv, TypeOK, Row
<1>5. ASSUME NEW v \in Workers, v # w
      PROVE  worker'[v] = worker[v] /\ (Claimed(v) => worker[v].row # worker[w].row)
  <2>1. worker'[v] = worker[v]
    BY <1>5 DEF Send, Goto, Inv, TypeOK
  <2> QED
    BY <1>1, <1>5, <2>1, Alone DEF OneClaimant
<1>6. \/ worker'[w] = [worker[w] EXCEPT !.pc = "failing"]
      \/ worker'[w] = [worker[w] EXCEPT !.pc = "checkpoint", !.todo = @ \ {d},
                                        !.sent = @ \cup {d}]
  BY DEF Send, Goto, Inv, TypeOK
<1>7. \/ worker'[w].pc = "failing"
      \/ worker'[w].row = worker[w].row /\ worker'[w].todo = worker[w].todo \ {d}
  BY <1>2, <1>6 DEF Claimant
<1> QED
  BY <1>2, <1>3, <1>4, <1>5, <1>7 DEF Sends

LEMMA SendCopies ==
  ASSUME Inv, FreshInv, CopiesInv, NEW w \in Workers, NEW d \in Destinations, Send(w, d)
  PROVE  CopiesInv'
<1>1. CASE copies' = copies
  <2>1. /\ UNCHANGED <<row, legacy>>
        /\ \A v \in Workers : v # w => worker'[v] = worker[v]
    BY <1>1 DEF Send, Goto, Inv, TypeOK
  <2>2. copies[worker[w].row][d] + 1 # copies[worker[w].row][d] /\ worker[w].row \in Rows
    BY BusyIsClaimed, FreshOwner DEF Send, Busy, Inv, TypeOK
  <2>3. worker'[w].pc = "failing"
    <3>1. Goto(w, "failing")
      BY <1>1, <2>2 DEF Send, Inv, TypeOK
    <3>2. worker[w] \in Claimant
      BY BusyIsClaimed, ClaimantType DEF Send, Busy, Inv
    <3> QED
      BY <3>1, <3>2 DEF Goto, Inv, TypeOK, Claimant
  <2>4. ASSUME NEW v \in Workers, worker'[v].pc \in {"sending", "checkpoint"}
        PROVE  /\ worker'[v] = worker[v]
               /\ worker[v].row \in Rows
    BY <2>1, <2>3, <2>4, BusyIsClaimed, FreshOwner DEF Busy
  <2> QED
    BY <1>1, <2>1, <2>4, NoCopy
<1>2. CASE Sends(w, d)
  <2>1. copies \in [Rows -> [Destinations -> Nat]]
    BY DEF Inv, TypeOK
  <2>2. ASSUME NEW p \in Rows, NEW e \in Destinations
        PROVE  copies'[p][e] = IF p = worker[w].row /\ e = d THEN copies[p][e] + 1 ELSE copies[p][e]
    BY <1>2, <2>1 DEF Sends
  <2>3. CopiesWithinClaims'
    <3> SUFFICES ASSUME NEW p \in Rows \ legacy, NEW e \in Destinations
                 PROVE  copies'[p][e] <= row'[p].attempts
      BY <1>2 DEF CopiesWithinClaims, Sends
    <3>1. copies[p][e] <= row[p].attempts /\ row'[p] = row[p]
      BY <1>2 DEF CopiesInv, CopiesWithinClaims, Sends
    <3> QED
      BY <1>2, <2>2, <3>1 DEF Sends
  <2>4. ASSUME NEW v \in Workers PROVE Unspent(v)'
    <3> SUFFICES ASSUME worker'[v].pc \in {"sending", "checkpoint"}, NEW e \in worker'[v].todo
                 PROVE  copies'[worker'[v].row][e] < row'[worker'[v].row].attempts
      BY DEF Unspent
    <3>1. CASE v = w
      <4>1. worker'[w].row = worker[w].row /\ e \in worker[w].todo /\ e # d
        BY <1>2, <3>1 DEF Sends
      <4>2. copies[worker[w].row][e] < row[worker[w].row].attempts /\ e \in Destinations
        BY <1>2, <4>1 DEF CopiesInv, Unspent, Send, Sends, Claimant
      <4> QED
        BY <1>2, <2>2, <3>1, <4>1, <4>2 DEF Sends
    <3>2. CASE v # w
      <4>1. worker'[v] = worker[v] /\ Claimed(v)
        BY <1>2, <3>2, BusyIsClaimed DEF Sends, Busy
      <4>2. worker[v].row # worker[w].row /\ worker[v].row \in Rows /\ worker[v] \in Claimant
        BY <1>2, <3>2, <4>1, FreshOwner DEF Sends
      <4>3. e \in Destinations /\ copies[worker[v].row][e] < row[worker[v].row].attempts
        BY <4>1, <4>2 DEF CopiesInv, Unspent, Claimant
      <4> QED
        BY <1>2, <2>2, <4>1, <4>2, <4>3 DEF Sends
    <3> QED
      BY <3>1, <3>2
  <2> QED
    BY <2>3, <2>4 DEF CopiesInv
<1> QED
  BY <1>1, <1>2, SendFacts

LEMMA WriteCopies ==
  ASSUME Inv, CopiesInv, NEW w \in Workers, Writes(w)
  PROVE  CopiesInv'
<1>1. worker'[w].pc \in {"sending", "checkpoint"} =>
        worker[w].pc \in {"sending", "checkpoint"} /\ Claimed(w)'
  <2>1. CASE Checkpoint(w) \/ MarkSent(w)
    BY <2>1 DEF Checkpoint, MarkSent, Claimed, Idle
  <2>2. CASE MarkRetry(w) \/ MarkFailed(w) \/ Crash(w)
    BY <2>2 DEF MarkRetry, MarkFailed, Crash, Stop, Idle, Inv, TypeOK
  <2> QED
    BY <2>1, <2>2 DEF Writes
<1>2. ASSUME NEW v \in Workers, worker'[v].pc \in {"sending", "checkpoint"}
      PROVE  /\ worker[v].pc \in {"sending", "checkpoint"}
             /\ worker'[v].row = worker[v].row /\ worker[v].row \in Rows
             /\ worker'[v].todo \subseteq worker[v].todo
  <2>1. CASE v = w
    BY <1>1, <1>2, <2>1, WriteEffect
  <2>2. CASE v # w
    <3>1. worker'[v] = worker[v]
      BY <2>2, WriteEffect
    <3> QED
      BY <1>2, <3>1, BusyIsClaimed, ClaimantType DEF Busy, Inv, Claimant
  <2> QED
    BY <2>1, <2>2
<1> QED
  BY <1>2, WriteEffect, NoCopy

(* What recovery does to a row.                                            *)
LEMMA RecoverEffect ==
  ASSUME Inv, NEW o \in Rows, RecoverRow(o)
  PROVE  /\ \A p \in Rows : p # o => row'[p] = row[p]
         /\ row'[o].attempts = row[o].attempts /\ row'[o].sent = row[o].sent
         /\ row[o].status = "FAILED" => row'[o] = row[o]
<1>1. CASE ~StillAbandoned(o)
  BY <1>1 DEF RecoverRow
<1>2. CASE StillAbandoned(o)
  <2>1. row[o] \in Row /\ row[o].status # "FAILED"
    BY <1>2 DEF StillAbandoned, Inv, TypeOK, Phase
  <2>2. \E st \in Status : row' = [row EXCEPT ![o].status = st, ![o].token = 0, ![o].age = 0]
    BY <1>2 DEF RecoverRow, Status
  <2> QED
    BY <2>1, <2>2 DEF Inv, TypeOK, Row
<1> QED
  BY <1>1, <1>2

LEMMA NextCopies ==
  ASSUME Inv, FreshInv, CopiesInv, [Next]_vars
  PROVE  CopiesInv'
<1>1. ASSUME NEW v \in Workers, worker[v].pc \in {"sending", "checkpoint"}
      PROVE  worker[v].row \in Rows /\ worker[v] \in Claimant
  BY <1>1, BusyIsClaimed, ClaimantType DEF Busy, Inv, Claimant
<1>2. CASE UNCHANGED <<row, worker, copies, legacy>>
  BY <1>1, <1>2, NoCopy
<1>3. ASSUME NEW w \in Workers, Publish(w)
      PROVE  CopiesInv'
  BY <1>3, ClaimCopies, SendCopies, WriteCopies DEF Publish, Writes
<1>4. ASSUME NEW o \in Rows, RecoverRow(o)
      PROVE  CopiesInv'
  <2>1. UNCHANGED <<worker, copies, legacy>>
    BY <1>4 DEF RecoverRow
  <2>2. \A p \in Rows : row'[p].attempts = row[p].attempts
    BY <1>4, RecoverEffect
  <2> QED
    BY <1>1, <2>1, <2>2, NoCopy
<1>5. CASE Tick
  <2>1. UNCHANGED <<copies, legacy>> /\ \A p \in Rows : row'[p].attempts = row[p].attempts
    BY <1>5 DEF Tick, Inv, TypeOK, Row
  <2>2. ASSUME NEW v \in Workers, worker'[v].pc \in {"sending", "checkpoint"}
        PROVE  /\ worker[v].pc \in {"sending", "checkpoint"}
               /\ worker'[v].row = worker[v].row /\ worker'[v].todo = worker[v].todo
    <3>1. worker'[v] # Idle
      BY <2>2 DEF Idle
    <3>2. Claimed(v) /\ worker'[v] = [worker[v] EXCEPT !.age = @ + 1]
      BY <1>5, <3>1 DEF Tick
    <3>3. worker[v] \in Claimant
      BY <3>2, ClaimantType DEF Inv
    <3> QED
      BY <2>2, <3>2, <3>3 DEF Claimant
  <2> QED
    BY <1>1, <2>1, <2>2, NoCopy
<1> QED
  BY <1>2, <1>3, <1>4, <1>5
  DEF Next, vars, Recover, StreamDone, RecoverInFlight, RecoverPending, RecoveryEnds

LEMMA TimelyAlways ==
  ASSUME Timely
  PROVE  Spec => [](Inv /\ TimelyInv)
<1>1. Init => Inv /\ TimelyInv
  BY InitInv, InitTimely
<1>2. Inv /\ TimelyInv /\ [Next]_vars => (Inv /\ TimelyInv)'
  BY NextInv, NextFresh, NextCopies DEF TimelyInv
<1> QED
  BY <1>1, <1>2, PTL DEF Spec

(* With the timeout below the claim's age, two publishers never work on     *)
(* one row, although nothing else keeps their sends apart.                 *)
THEOREM NeverTwoClaimants ==
  ASSUME Timely
  PROVE  Spec => []OneClaimant
<1>1. Inv /\ TimelyInv => OneClaimant
  BY Alone DEF TimelyInv
<1> QED
  BY TimelyAlways, <1>1, PTL

(* A queue gets at most one copy of a row per claim of it, so at most      *)
(* PUBLISHER_MAX_ATTEMPTS whatever fails, crashes or is recovered.         *)
THEOREM OneCopyPerClaim ==
  ASSUME Timely
  PROVE  Spec => []CopiesWithinClaims
<1>1. Inv /\ TimelyInv => CopiesWithinClaims
  BY DEF TimelyInv, CopiesInv
<1> QED
  BY TimelyAlways, <1>1, PTL

(* What a step adds to the copies of one row.                              *)
LEMMA CopiesOnlyBySend ==
  ASSUME Inv, TimelyInv, [Next]_vars
  PROVE  \/ copies' = copies
         \/ \E w \in Workers, d \in Destinations : Sends(w, d)
<1>1. ASSUME NEW w \in Workers, Publish(w)
      PROVE  \/ copies' = copies
             \/ \E d \in Destinations : Sends(w, d)
  BY <1>1, SendFacts
  DEF Publish, Claim, Checkpoint, MarkSent, MarkRetry, MarkFailed, Crash, TimelyInv
<1> QED
  BY <1>1
  DEF Next, vars, Recover, StreamDone, RecoverInFlight, RecoverPending, RecoverRow, RecoveryEnds, Tick

(* A destination the row records as sent never gets another copy.          *)
THEOREM RecordedIsSpared ==
  ASSUME Timely
  PROVE  Spec => RecordedNeverResent
<1>1. Inv /\ TimelyInv /\ [Next]_vars
        => [\A o \in Rows : \A d \in row[o].sent : copies'[o][d] = copies[o][d]]_vars
  <2> SUFFICES ASSUME Inv, TimelyInv, [Next]_vars, NEW o \in Rows, NEW e \in row[o].sent
               PROVE  copies'[o][e] = copies[o][e]
    OBVIOUS
  <2>1. e \in Destinations /\ copies \in [Rows -> [Destinations -> Nat]]
    BY DEF Inv, TypeOK, Row
  <2>2. ASSUME NEW w \in Workers, NEW d \in Destinations, Sends(w, d)
        PROVE  copies'[o][e] = copies[o][e]
    <3>1. worker[w].row # o \/ d # e
      BY <2>2 DEF Sends
    <3> QED
      BY <2>1, <2>2, <3>1 DEF Sends
  <2> QED
    BY <2>2, CopiesOnlyBySend
<1> QED
  BY TimelyAlways, <1>1, PTL DEF Spec, RecordedNeverResent

-----------------------------------------------------------------------------
(* The publisher implements OutboxPromise                                  *)

LEMMA InitRefines == Init => Promise!Init
<1> SUFFICES ASSUME Init PROVE Promise!Init
  OBVIOUS
<1>1. ASSUME NEW o \in Rows PROVE row[o].sent = {} /\ row[o].status # "FAILED"
  <2>1. row[o] \in {NewRow} \cup {LegacyRow(n) : n \in 1..MaxAttempts}
    BY DEF Init
  <2> QED
    BY <2>1 DEF NewRow, LegacyRow
<1>2. outcome = [o \in Rows |-> "open"]
  BY <1>1 DEF outcome
<1> QED
  BY <1>2 DEF Init, Promise!Init

(* A delivery: the row is open, and misses a destination.                  *)
LEMMA SendRefines ==
  ASSUME Inv, NEW w \in Workers, NEW d \in Destinations, Sends(w, d)
  PROVE  Promise!Next
<1> DEFINE o == worker[w].row
<1>1. o \in Rows /\ row[o].sent # DestsOf[o] /\ row[o].status # "FAILED" /\ d \in DestsOf[o]
  BY DEF Sends
<1>2. outcome[o] = "open" /\ outcome' = outcome
  BY <1>1 DEF outcome, Sends
<1>3. copies[o][d] < MaxAttempts
  BY DEF Sends
<1>4. Promise!Enqueue(o, d)
  BY <1>1, <1>2, <1>3 DEF Sends, Promise!Enqueue
<1> QED
  BY <1>1, <1>4 DEF Promise!Next

(* What a step that sends nothing does to the outcome of rows: at most one  *)
(* row changes anything that counts.                                       *)
Settles(o) ==
  /\ \A p \in Rows : p # o => row'[p].sent = row[p].sent /\ row'[p].status = row[p].status
  /\ row[o].status = "FAILED" => row'[o].sent = row[o].sent

LEMMA NextSettles ==
  ASSUME Inv, [Next]_vars
  PROVE  \/ \A o \in Rows : row'[o].sent = row[o].sent /\ row'[o].status = row[o].status
         \/ \E o \in Rows : Settles(o)
<1>1. ASSUME NEW w \in Workers, NEW o \in Rows, Claim(w, o) PROVE Settles(o)
  BY <1>1 DEF Claim, Claimable, Settles, Inv, TypeOK
<1>2. ASSUME NEW w \in Workers, Writes(w), row' # row PROVE Settles(worker[w].row)
  <2>1. Owns(w)
    BY <1>2, WriteEffect DEF Inv, ClaimantInv, WorkerInv
  <2> QED
    BY <1>2, <2>1, WriteEffect DEF Settles, Owns
<1>3. ASSUME NEW o \in Rows, RecoverRow(o) PROVE Settles(o)
  BY <1>3, RecoverEffect DEF Settles
<1>4. CASE Tick
  BY <1>4 DEF Tick, Inv, TypeOK, Row
<1>5. ASSUME NEW w \in Workers, Publish(w), row' # row PROVE \E o \in Rows : Settles(o)
  BY <1>1, <1>2, <1>5, WriteEffect DEF Publish, Writes, Send
<1> QED
  BY <1>3, <1>4, <1>5
  DEF Next, vars, Recover, StreamDone, RecoverInFlight, RecoverPending, RecoveryEnds

LEMMA SettleRefines ==
  ASSUME Inv, Inv', NEW o \in Rows, Settles(o), RecordKept(o), copies' = copies
  PROVE  outcome' = outcome \/ Promise!Next
<1>1. ASSUME NEW p \in Rows, p # o PROVE outcome'[p] = outcome[p]
  BY <1>1 DEF Settles, outcome
<1>2. outcome \in [Rows -> {"open", "delivered", "abandoned"}]
  BY DEF outcome
<1>3. outcome' = [outcome EXCEPT ![o] = outcome'[o]]
  <2>1. outcome' \in [Rows -> {"open", "delivered", "abandoned"}]
    BY DEF outcome
  <2> QED
    BY <1>1, <1>2, <2>1
<1>4. row[o].sent \subseteq row'[o].sent /\ row'[o].sent \subseteq DestsOf[o]
  BY DEF RecordKept, Inv, TableInv, RowInv
<1>5. CASE outcome[o] # "open"
  <2>1. row[o].sent = DestsOf[o] \/ row[o].status = "FAILED"
    BY <1>5 DEF outcome
  <2>2. row'[o].sent = row[o].sent
    BY <1>4, <2>1 DEF Settles
  <2>3. row[o].status = "FAILED" => row'[o].status = "FAILED"
    BY DEF RecordKept
  <2>4. outcome'[o] = outcome[o]
    BY <1>5, <2>2, <2>3 DEF outcome
  <2> QED
    BY <1>2, <1>3, <2>4
<1>6. CASE outcome[o] = "open" /\ outcome'[o] = "delivered"
  <2>1. DestsOf[o] # {} /\ row'[o].sent = DestsOf[o]
    BY <1>6 DEF outcome
  <2>2. \A d \in DestsOf[o] : copies[o][d] > 0
    BY <2>1 DEF Inv, TableInv, RowInv
  <2>3. Promise!Deliver(o)
    BY <1>3, <1>6, <2>1, <2>2 DEF Promise!Deliver
  <2> QED
    BY <2>3 DEF Promise!Next
<1>7. CASE outcome[o] = "open" /\ outcome'[o] = "abandoned"
  <2>1. Promise!Abandon(o)
    BY <1>3, <1>7 DEF Promise!Abandon
  <2> QED
    BY <2>1 DEF Promise!Next
<1>8. CASE outcome'[o] = outcome[o]
  BY <1>2, <1>3, <1>8
<1> QED
  BY <1>5, <1>6, <1>7, <1>8 DEF outcome

LEMMA NextRefines ==
  ASSUME Inv, TimelyInv, Inv', [Next]_vars
  PROVE  [Promise!Next]_<<copies, outcome>>
<1>1. CASE copies' = copies
  <2>1. CASE \A o \in Rows : row'[o].sent = row[o].sent /\ row'[o].status = row[o].status
    BY <1>1, <2>1 DEF outcome
  <2>2. ASSUME NEW o \in Rows, Settles(o) PROVE outcome' = outcome \/ Promise!Next
    BY <1>1, <2>2, NextKeepsRecord, SettleRefines
  <2> QED
    BY <1>1, <2>1, <2>2, NextSettles
<1>2. ASSUME NEW w \in Workers, NEW d \in Destinations, Sends(w, d)
      PROVE  Promise!Next
  BY <1>2, SendRefines
<1> QED
  BY <1>1, <1>2, CopiesOnlyBySend

(* Whatever fails, crashes, is retried or recovered, producers and         *)
(* consumers see only what OutboxPromise allows.                           *)
THEOREM PromiseIsKept ==
  ASSUME Timely
  PROVE  Spec => KeepsPromise
<1>1. Inv /\ TimelyInv /\ Inv' /\ [Next]_vars => [Promise!Next]_<<copies, outcome>>
  BY NextRefines
<1> QED
  BY InitRefines, TimelyAlways, <1>1, PTL DEF Spec, KeepsPromise, Promise!Spec
=============================================================================
