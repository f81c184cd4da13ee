# OpenCDR in TLA+

OpenCDR detects suspicious events in cloud accounts, correlates them, notifies
people and executes incident responses. It is a set of AWS Lambda functions
that talk through DynamoDB tables, table streams and SQS queues. Hardly any
function is complicated by itself; what is hard is what they promise together
while every message can arrive twice, every call can fail with or without
effect, and every invocation can die between two calls. This directory models
that: TLA+ modules for the parts, TLC configurations that check them, and
proofs checked by TLAPS.

Paths such as `handlers/publisher.py` are relative to the repository's `src/`.
`PROJECT.json` relates each definition to the source lines it stands for.

## The system

```
EventBridge -> processor --signals-queue--> signal_writer -> signals table
   S3 -> s3_ingestion --signals-queue------^                     | stream
               processor, signal_writer, alerter <---------------+
                    |  (alert row + outbox row)                alerter
                    v
               outbox table --stream--> publisher --> notifications-queue -> notifier
                    ^                      |   ^  \-> responses-queue     -> responder
                    |                      |   |  \-> signals-queue           |
                    |               schedule (recover_abandoned)              v
                    +---- success notifications ------------------ IR actions table
   API --ir-rollback-queue--> rollbackHandler ---------------------------^
```

| Part | State it keeps | Operations | What is hard | What makes it correct |
|---|---|---|---|---|
| Outbox, publisher (`handlers/publisher.py`, `infra/aws_handler.py`) | outbox row: status, attempts, claim token, sent destinations, `updated_at` | claim, send, checkpoint, mark sent / retry / failed, scheduled recovery | two invocations on one row, lost responses, stale queries, legacy claims | nothing recorded is sent again, no status lies, every row settles |
| Delivery state (`infra/delivery_state.py`) | a receipt per delivery and destination: status, token, lease | reserve, complete, release; permanent claims (`replay=False`) | lease against timeout against visibility, fencing | one holder at a time; a permanent claim is taken once |
| Responder (`handlers/responder.py`) | claims, log rows, outbox rows, IR action records | check eligibility and breaker, claim, execute, complete, log, notify, record | duplicates, crash after the action, check-then-act breaker | at most one execution; reports are true; the breaker limits |
| Circuit breaker (`responder.py`, `infra/logger.py`) | rows of the logs table in a time window | count, compare; rows are written by the logger | concurrent checks, reads that miss rows, rows that are not stored | executed actions of a window stay within limit plus concurrency |
| IR rollback (`handlers/api.py`, `handlers/ir_rollback.py`) | IR action record: `rolled_back`, `rollback_status` | POST rollback, handle message, write result | no write is conditional, enqueue before write, stale reads | a reported undo happened; repeats are bounded; `pending` is true |
| Notifier (`handlers/notifier.py`) | receipts | route, reserve, send, complete or release, report failures | partial failure, duplicates, ambiguous sends | a deleted message was delivered; a recorded success is not repeated |
| Alerter, correlation (`handlers/alerter.py`, `domain/correlation_engine.py`) | alerts table, outbox table | query recent signals, build alert, transact alert with outbox row | batch retries, query limit, index lag, aligned windows | one alert per key, alert and outbox row together |
| Processor (`handlers/processor.py`, `domain/detection_engine.py`) | caches of rules and lists | detect, enqueue signals, write alert and outbox row | retried events, swallowed failures, stale caches | no detection lost silently |
| Signal writer (`handlers/signal_writer.py`) | signals table | conditional put, alert transaction | crash between the two | a redelivery completes what is missing |
| Detection engine (`domain/detection_engine.py`, `domain/detection_lists.py`) | snapshots of lists | evaluate conditions, build detections | negated operators over what is missing or undecidable, foreign events | a rule fires on evidence; a foreign event asks for no response |
| Rule catalog, lists (`handlers/api.py`, `domain/rule_*.py`, `infra/detection_*_repository.py`) | rules, lists, catalog row with generation and observed marks | CRUD with `expected_rev`, releases, evaluators' refresh | write and bump apart, release applied in part, values of a list in several writes, stale reads marked as observed | `verified` means what it says; no lost update among guarded writers; whole snapshots |
| Settings and secrets (`handlers/api.py`, `domain/settings_secrets.py`) | settings row, SSM parameters | create, upsert, delete, redacted round trip | read-modify-write, immutable parameters, masks resolved by a read | a stored reference resolves; a refused write changes nothing; an edit keeps the secrets it does not change |
| Response actions (`domain/response_actions.py`, `handlers/responder.py`) | what an IR record says of its action | resolve mapped targets, derive arguments of action and undo | two derivations, fallbacks, fields that are missing | acts on what is mapped; undoes where it acted |
| Roles and keys (`handlers/api.py`, `handlers/responder.py`) | role rows, key names; caches in each container | CRUD of roles, renaming of keys, cached lookups | caches, lagging replicas, sessions | a disabled role and a narrowed key stop in time |
| Listings (`handlers/api.py`, `scripts/opencdr.py`, `mcp_server/server.py`) | none; a token says where each day stands | query day by day, follow the token | short answers, items that come and go, midnight | whoever follows to the end saw everything once |
| S3 ingestion, integrations (`handlers/s3_ingestion.py`, `handlers/integration_api.py`) | job and record rows | pin job and records, evaluate, dispatch, replay | two deliveries, time budget, partial dispatch | one evaluation per record; every signal dispatched before the job says so |
| Archiver, metrics, alarms, tracing, transport | none | copy, format, emit, call | - | not modelled: no state of their own |

The hazards this code is exposed to, line by line, are listed in
`PROJECT.json` with the properties that watch them, or with the reason why none
does.

## Modules

| Module | Models |
|---|---|
| `Outbox` | the outbox table, its stream, publisher invocations, the scheduled recovery |
| `Alerting` | processor, signal writer, alerter with correlation; signals queue, signals table and its stream |
| `OutboxPromise` | what a row promises to its producers and consumers; `Outbox` implements it |
| `IngestionPromise` | what jobs, records and signals show of an object: one pass; `S3Ingestion` implements it |
| `ListPromise` | what a list is to those who edit and evaluate it: a register; `DetectionLists` implements it |
| `CircuitBreaker` | what the breaker counts; used by the next two |
| `Responder` | responses queue, permanent claims, responder invocations |
| `IrRollback` | the rollback endpoint, its queue, rollbackHandler invocations |
| `Notifier` | notifications queue, receipts with leases, notifier invocations |
| `S3Ingestion` | ingestion queue and table, worker invocations, the integration's binding and replays |
| `RuleEvaluation` | acceptance of rules, their conditions on events and signals, what a detection may ask for |
| `ResponseTargets` | targets of response actions, the arguments of each response module and of its undo |
| `DetectionLists` | one list: its versions, the clients that edit it, the evaluators that hold it |
| `RuleCatalog` | the rules table, its authors, releases |
| `RuleGeneration` | the catalog's generation, evaluators' caches and marks, the verified status |
| `Settings` | the settings document, its secrets, clients that merge masked documents, the notifier's reads |
| `ApiAccess` | scopes of keys, routes, containers' caches of scopes |
| `AccountRoles` | role rows with the kill switch, the responder's caches of roles and clients |
| `Paging` | listings over days and partitions, and the client that follows tokens |
| `MC_Outbox`, `MC_Responder`, `MC_IrRollback`, `MC_Notifier`, `MC_Alerting`, `MC_S3Ingestion`, `MC_Settings` | instances of one module |
| `MC_Writes` | an instance of `Outbox`, `DetectionLists`, `RuleCatalog`, `Settings`: what rests on conditional writes |
| `MC_Detection` | an instance of `Alerting`, `RuleEvaluation`, `ResponseTargets`, `Paging`: from rule to listing |
| `MC_Ageing` | an instance of `Outbox`, `RuleGeneration`, `ApiAccess`, `AccountRoles`: claims and caches, which outlive the invocations that made them |
| `Api_proofs`, `Detection_proofs`, `Freshness_proofs`, `IrRollback_proofs`, `Notifier_proofs`, `Outbox_proofs`, `Responder_proofs`, `S3Ingestion_proofs` | theorems and their proofs |

`Responder` and `IrRollback` are separate compositions of `CircuitBreaker`
with a queue and with invocations: each function has its own log bucket, hence
its own breaker. `Alerting` ends where `Outbox` begins, with a row inserted
once under its key; `S3Ingestion` ends where the managed detections of
`Alerting` begin, with messages of the signals queue. `Outbox` hands over to `Responder` and `Notifier` only
through queues; what it may do to them is to enqueue a message twice, and
their modules assume nothing better.

The modules of management meet the others at one value each: a `Snapshot` of
`DetectionLists` is what `RuleEvaluation` evaluates with, a row of
`RuleCatalog` is a write counted by `RuleGeneration`, a rule accepted by
`RuleEvaluation` asks for the responses of `ResponseTargets`, a role of
`AccountRoles` is what `Responder` acts with. Their parts share no variable,
and the three composing instances run them side by side: a behaviour picks one
part and leaves the others at rest, so that one run asks one question of all
of them and states add up instead of multiplying.

### Conventions

*One action per call.* An invocation is a record with a `pc`; an action is one
call to AWS with the code up to the next call. A call may take effect, fail,
or take effect and raise. Histories (marked so) count what the program itself
does not keep: copies sent, executions, successes.

*Invocations die.* `Crash` ends an invocation anywhere. A message it held comes
back, because Lambda deletes messages only on return.

*Time.* Where leases and timeouts compete (`Outbox`, `Notifier`), a `Tick` ages
rows, messages and invocations; ages stop at a bound beyond which they make no
difference (`MaxAge`, `Visibility`). Where the code has no such race
(`Responder`, `IrRollback`), a message may come back at any time, which
includes the deployed case: their queues keep the default visibility timeout
of 30 seconds, the timeout of the functions themselves.

*Mutated definitions.* A definition that nothing uses, standing before one with
the same parameters, is a plausible mistake in that code. `PROJECT.json` lists
with each property a mistake that TLC finds with it.

## How the modules correspond to the code

**Alerting.** `Detect` is `run_detection` of the processor, which gives every
detection a fresh id; a retried event therefore makes other signals, told apart
by `try`. `Enqueue`, `PutAlert`, `PutOutbox` are its calls for each detection:
only the first may fail the event, the other two are logged and passed over.
The pc of an invocation of the signal writer is that of the message it holds
(`Receive`, `Put`, `Transact`), and the pc of an alerter's invocation that of
the stream record it has reached (`Begin`, `Correlate`, `StoreAlert`). When
anything in a batch fails, `BatchFails` returns the record together with any of
those handled before it in the same shard. `Announce` is
`put_alert_with_outbox`: a transaction that a duplicate key cancels, which the
call reports without raising. `Pages` is what the query of a group may return:
the oldest signals of the window, up to the limit, from an index that, with
`LaggingIndex`, misses any of them. A correlation in `Unindexed` needs a scan,
which the alerter's role denies. The events of a behaviour come from
`Arrivals`.

**Outbox.** `row` is the outbox item; a claim's uuid is modelled by the number
of the attempt, which every claim increments. `Claim` is `_claim_outbox` and
the start of `process_record`; `Send`, `Checkpoint`, `MarkSent`, `MarkRetry`,
`MarkFailed` are the calls after it, each conditional on the token.
`RecoverInFlight` and `RecoverPending` are the two queries of
`recover_abandoned`, `RecoverRow` one conditional write of an item they
returned. `stream[o]` says that a PENDING image of the row is still in the
table's stream; `StreamDone` covers both acknowledgement and the end of the
stream's retries. Rows claimed by a release without tokens are in `legacy`.

**Responder.** `Begin` takes the next action of the message, or skips it for one
of the checks that change nothing; `Check` is the breaker and the assumption of
the role; `Claim` is `DeliveryState.delivery` up to its `yield`; `Run` the
response module; `Complete` the end of the `with` block; `Log`, `Notify`,
`Record` what follows. A message that returns while it is handled also stands
for a second copy of it, since the claim's key does not depend on the message.

**CircuitBreaker.** `rows` counts the rows of the window by event name. `Seen`
are the subsets an eventually consistent query may return. `recent` counts
calls whose row *every later query saw*: it is lowered when a query missed one,
so that the property speaks only of what the breaker could know.

**IrRollback.** `Post`, `Enqueue`, `SetPending`, `PostEnds` are the POST;
`Read`, `Check`, `Undo`, `Log`, `Record`, `Notify`, `MarkFailed` the handler.
With `StaleReads` the `get_item` calls, which do not ask for consistency, may
miss the latest write; `lost` counts successes whose record a later reader
never saw, because the write failed, the invocation died, or the read was
stale.

**Notifier.** `Reserve`, `Complete`, `Release` are the three parts of
`DeliveryState.delivery` with `replay=True`; `Send` the channel's own call;
`Finish` the decision on `batchItemFailures`. `Receive` reads the settings,
which may change between deliveries: it picks one of `Routes`.

**S3Ingestion.** `job` and `record` are the JOB and RECORD rows; an invocation's
`pc` names its next call in `process_object`. `Pinned` is `pinned`: whoever
comes second goes on with the first one's item. `Evaluated` is what the record
comes to with the rules of the job; the code derives a detection's id from
record, rule and rules, hence a detection is its record, its rule and the
version it was evaluated with. `Framed` are the revisions of the binding by
whose framing the object can be split; with another it is quarantined.
`Outcomes[i]` has several members because a custom parser need not answer twice
alike. `Crash` covers every call that raises without effect, the time budget of
18 seconds, and a death.

`IngestionPromise` keeps the three variables that others see (`job`, `record`,
`sent`) and forgets messages, invocations, faults and the changes of rules and
bindings. `PinJob` of the first is `Accept`, `Evaluate` `Settle`, `Send` `Send`,
the first `Finish` `Report`, a refusal of the framing `Refuse`; whatever a
second invocation does changes none of the three.

**RuleEvaluation.** A condition is its field, the base of its operator, whether
it is negated, and its *extent*: the values for which the base holds, with those
on which a regular expression does not terminate in time. What an evaluator does
with a missing field, a missing list or an undecided expression is
`HoldsForEvent` (`evaluate_condition` of the detection engine) and
`HoldsForSignal` (`_evaluate_condition` of the correlation engine), each read
off its own code. `AcceptedByApi` and `AcceptedFromFile` are the two
validations a document may have passed; `DetectEvent` and `CorrelateSignal` run
any accepted rule, `Reload` exchanges the lists.

**ResponseTargets.** A name is told by where it comes from, a mapped field or a
place of the event, so that what an extractor finds first is what the action is
about. `ResolvedAction` and `FailedResolution` are `resolve_response_actions`,
`Arguments` the handlers of `responder.py` with their extractors, each with its
order of places. `UndoArguments` is `_build_rollback_kwargs`, translated on its own,
module by module: it derives names from the event a second time and takes
instances from what the action captured of their state. `Respond` picks what is
captured, which may be nothing, and stores the arguments with the record;
`RollBack` uses what is stored. `Skip` is an action that is not eligible, `Again`
another delivery. The state to be restored itself is left out, but for whether
there is any (`Supported`) and, of instances, whose it is.

**DetectionLists.** A PUT is `PutRead` (the list and its revision), `WriteValues`
(one batch, of which a prefix may be all that ever arrives) and `Commit` (the
conditional metadata row); a reader is `LoadMeta` from the lagging index, then
`LoadValues`. `StartCreate`, `GetMeta` and `GetValues` are the clients' part,
with the retries of the MCP server.

`ListPromise` has one variable for the list, one for the copy in the index, and
for each evaluator what it is about to use and what it uses. A version is its
revision and what was *asked* to be stored under its token (`written`), so that
rows which were lost or mixed up would show. `Commit` is the step at which an edit
takes place, `Replicate`, `LoadMeta` and `LoadValues` are those of the copy
and of the evaluators, and all other steps are invisible. A DELETE has no order
and no condition; as soon as it took anything the abstract list is `spoiled`
and promises nothing more.

**RuleCatalog.** `PutNew`, `PutGuarded`, `PutUnguarded`, `Delete` are the
endpoints, `Plan` and `Apply` a release: each operation has the revision of the
plan as its condition, removals first. `Holds` is `_put_with_rev`'s condition,
in which revision 0 stands for a row without the attribute as well as for none.
`Dropped` are the rows that the removal policy takes, `Left` those for which
there is no operation.

**RuleGeneration.** `Write` and `Bump` are the two calls of a request; `Invoke`,
`LoadRules`, `Mark`, `Evaluate` those of an evaluator. What a query returned is
the number of the last write it saw, or `Lagged`.

**Settings.** `Normalize` is `_normalize_settings_payload` with the read that
resolves masks and the parameters it puts; `Create`, `ReplaceGuarded`,
`ReplaceUnguarded` the conditional or plain write after it; `Erase` and `Sweep`
the two halves of DELETE. `Merged` is `_merge_channels` of the command line,
which puts a changed webhook target last, and `Resolved` finds what a mask stands
for by position, as `_resolve_redacted_secrets` does. Each parameter remembers the secret it was made for.

**ApiAccess.** `RequiredScope` is `_required_scope_for`, `Touches` the dispatch of
`lambda_handler`: each is translated on its own, since their agreement is what
is checked.

**AccountRoles.** `ReadRole` is a miss of `_resolve_role_arn`, `Act` is
`_get_dredge` with an action after it.

**Paging.** `ReadFeed` is a turn of the loop of `_query_bucketed_range`,
`ReadPartition` one of `_list_rules_all_partitions`, `ReadCount` one of
`_count_signals_for_day`. `Answers` are all answers DynamoDB may give to a
query with a limit. A cursor is `Fresh`, a key, or 0 when the day was exhausted.

## Runs

Every run finishes in a few minutes at most with two TLC workers. Symmetry is used
where no liveness property is checked, over sets whose elements the module
treats alike.

| Run | Instance | Shows |
|---|---|---|
| `ageing` | outbox: 1 row, 2 queues, 2 workers, 3 attempts, claim age 2, timeout 1; rules: 2 publishers, 2 containers, 2 writes; keys: 1 API container, 4 names of the key, lifetime 2, clock up to 5; roles: 2 roles, 1 responder, lifetimes 2 and 3, session 4, clock up to 6 | with the deployed relation of timeout and claim age, no resend of what is recorded, refinement of `OutboxPromise`, every row settles; announced rules are evaluated, `verified` is true, evaluators become current, lost scopes and disabled roles end in time |
| `guarded_writes` | outbox: 2 rows (one names no queue), 2 workers, 2 attempts, claim age = timeout; list: 2 values, 2 editors, 1 reader, 3 PUTs or DELETEs, 2 tries; catalog: 2 rules, 2 bodies, 2 authors, 3 writes, a release under each policy; settings: 2 clients, 2 names of targets, 2 requests with secrets, 3 writes; requests at the same time for documents with one target at most, and one after the other for documents with two | what conditional writes guarantee on their own: no lying status, no lost record, no replay of a legacy claim, no lost edit among guarded writers, whole snapshots, refinement of `ListPromise`, live secrets, which an edit of something else keeps |
| `settings_targets` | 1 client, 2 targets, 2 requests with secrets, 3 writes | **violation**: a change of one target gives another one its old credential |
| `responder_duplicates` | 1 message with 3 actions, 2 receives, 2 workers, limit 1 | at most one execution, true reports, breaker within limit plus concurrency |
| `responder_levels` | the same, INFO rows not stored | **violation**: the breaker never counts successes |
| `rollback_repeats` | 1 action, 1 POST at a time, 2 messages, 2 receives, 2 handlers | a reported undo happened; undos beyond one per handler are explained by lost records |
| `rollback_breaker` | 2 actions, 1 handler, no failures, limit 1 | **violation**: the rollbacks' breaker never trips |
| `rollback_pending` | 1 action, 1 handler, 2 messages | **violation**: a result is overwritten by `pending` |
| `notifier_duplicates` | 2 messages for one row, 2 channels, 2 workers, 2 receives, timeout 1, lease 2, visibility 4, 1 fault | deleted means delivered, recorded never repeated, delivery happens |
| `detection` | alerts: 2 events matching 2 rules, or 1 managed detection; 1 correlation with threshold 2, window 1, clock up to 2; 2 attempts each, 1 fault; evaluation: every operator and its negation, with and without responses, 6 events, list there or not; targets: every module, mapped and not, with each optional target; paging: 3 days of 2 items, pages of 1 and 2, 2 changes, midnight | nothing detected is dropped, one alert per trigger, a met threshold is announced; rules fire on evidence, foreign events never respond; actions and undos agree on their target; listings are whole |
| `alerting_scan` | the same events, no fault, a second correlation without an index | **violation**: it takes the alerts of the first with it |
| `ingestion_retries` | 2 messages for one upload of 2 records, 1 replay; 2 versions of the rules, 2 revisions of the binding, enabled or not, 2 workers, 2 receives, 1 fault | one evaluation whoever does it, refinement of `IngestionPromise`, reports that are true, nothing deleted unreported, a report in the end |

### Why these bounds

*Two workers* are what every race here needs: each conflict is between the
holder of a claim, lease or stale read and one other invocation; the next
worker to come meets the same table. *Two destinations or channels* let one
succeed while the other fails. *Three attempts* of a row give a first, a
middle and a last one. *Three actions* in the responder's instance are one more
than the breaker admits with two workers and a limit of one. *Ages* keep the
order of the deployed numbers: publisher timeout 30 s below claim age 120 s;
notifier timeout 30 s up to lease 120 s, and their sum below the visibility
timeout of 180 s. `guarded_writes` drops that order on purpose. In `Alerting`, *two rules* put their signals
into two shards of the stream, so that two alerter invocations correlate the
same window at once; *window 1* within three ticks has signals expire between
the attempts of a record, and a record's second attempt fall into the next
window, which is the case `OneAlertPerTrigger` is about. A limit of 10 is out
of reach there, like the real max(5 * threshold, 100) for a quiet group; a
fault is a crash or a failed call, with or without effect, at any of the three
functions. In `S3Ingestion` *two messages and a replay* exceed the two workers
the deployment allows (`maximumConcurrency`), so that a job may also be finished
while the second notification of it waits; record 1 is evaluated or
quarantined, at the parser's whim, and record 2 dropped. *One fault* with
two receives is the smallest case where the guarantee of eventual delivery can
hold: every fault may cost a receive. Within it the fault may be a crash
holding a lease, an ambiguous send, a refused write or a lost response, at any
step of either duplicate.

In `guarded_writes`, *three writes* let two clients race and a third write meet
what they left: a loser that retries, a name that is created again after a
deletion, a release between two PUTs. *Two targets* let one stand before and one
behind the target that changes, and a *third write* is needed because a document
has a revision to build on only after its second one. Documents with two targets
are edited by one client at a time, since what a change does to the other target
needs no race; what a race does to a secret is seen of slack's and one target's.
*One content* besides single additions and removals is enough to tell a mixture
of versions from each of them. In `detection` the evaluation and the targets are
exhaustive in what decides them: each operator, each module, each place of an
event. *Three days* with a range of two let midnight move the range; *pages of
one item* make every answer end a page. In `ageing`, *two writes* give an
older and a newer generation, which marks can confuse; the *lifetimes* keep the
order of the code's numbers: a role's entry (60 s) before a client's (3300 s)
before its session (3600 s). Where the outbox is not the part that runs, its row
is one that was sent before receipts existed (`SentBefore`). Deadlock is not
checked, because outbox rows settle, clocks stop at their bound and a part may
be done.

### Fairness

Each part that has a liveness property has its own fairness; in a run of several
parts (`ageing`) it is assumed of the part that runs.

`Outbox!Fairness`: time passes; the schedule fires every minute and does not
fail forever (weak fairness for starting a recovery, strong for its second
query and its writes, which a crash of that invocation interrupts); a row in
the stream is not denied a claim forever, because a failing batch is bisected
until its records are alone (`bisectBatchOnFunctionError` in `serverless.yml`).
Nothing is assumed of a publisher after its claim: it may always die, and rows
still settle, because recovery returns or fails them.

`Notifier!Fairness`: Lambda polls the queue, so that a message visible again
and again is received (strong); an invocation goes on unless it dies, and only
`MaxFaults` die (weak); messages come back and time passes (weak).

`S3Ingestion!Fairness`: Lambda polls the queue and an invocation goes on unless
it dies (weak, for each message: a waiting message stays receivable once a
worker is free). `EventuallyReported` assumes that the integration stays
enabled, because a disabled one raises until the message is dead-lettered, on
purpose.

`RuleGeneration!GenFairness`: events keep coming to each container and its rules
expire (weak); the query and the mark, which may fail, do not fail for ever
(strong). Nothing is assumed of publishers, whose bump may be lost:
`EventuallyCurrent` begins where they are idle and a generation exists.

`Alerting`, `Responder`, `IrRollback` and the other modules of management state safety only. What they skip or
give up is gone for good: no code promises that an action is eventually
executed, or that an event is handled within its attempts. `ThresholdMeansAlert`
takes the place of a liveness property in `Alerting`: it speaks of the records
that are settled.

## What is proved

TLAPS checks these for every value of the constants that satisfies the named
assumptions (`AlertingAssumption`, `ManagedApart`, `OutboxAssumption`,
`ResponderAssumption`, `MaxActionsAssumption`, `RollbackAssumption`,
`NotifierAssumption`, `S3IngestionAssumption`, `GenerationAssumption`,
`AccessAssumption`, `RolesAssumption`, `ListAssumption`, `CatalogAssumption`,
`SettingsAssumption`, `EvaluationAssumption`, `TargetsAssumption`,
`PagingAssumption`).

`Detection_proofs`, of `Alerting`: `TypeCorrect`, `NothingDropped`, `StoredBeforeDeleted`,
`AnnouncedByOne`, `TriggersOnce`. None of them depends on the index, the limit,
the number of faults or whether an index exists. The properties are not
inductive, so `Inv` adds what the calls rely on. `EventInv` splits the rules an
event matches into those still to be enqueued, whose messages do not exist, and
those enqueued. `MessageInv` says what is stored and announced by the pc of a
message, and that no message belongs to an attempt that has not begun, hence a
new attempt changes the time of no signal in use. `RecordInv` says that what a
record is about to announce is in the window of its signal's own time, which
outlives every retry. `AlertInv` makes alerts and outbox rows of transactions
correspond one to one, and ties each alert to its trigger's window:
`AnnouncedByOne` and `TriggersOnce` are read off it.

`ThresholdsAreAnnounced` is about what queries return, and assumes what the
program cannot ensure: each `group_by` has an index, the index does not lag, and
no query finds more recent signals than it returns (`Roomy`). Its invariant
`WitnessInv` looks at any `Threshold` signals of a correlation that are each
recent for all of them: once all have been looked at, one of them has the alert
of its window among what is announced or about to be. The one looked at last is
the witness, since it saw the others; a batch that fails takes some back, so
that there is nothing to be said of them until they have all been looked at
again. `SettledInv` adds that a record is handled when nothing is left of it.

`Detection_proofs`, of `RuleEvaluation`: `EvaluationTypesHold`,
`EvidenceDecides`, `NoForeignResponse`. The properties with the types are
inductive; the work is in the lemmas about what stored rules may contain, what
`AcceptedByApi` refuses, and that the two evaluators' truth values agree with
`Truth` in every combination of operator, negation, field and list. The proof
found two alternatives of `Truth` that could both apply, of which TLC took the
first; they are exclusive now.

`Detection_proofs`, of `ResponseTargets`: `TargetTypesHold`,
`MappedTargetsOnly`, `UndosMeetTheirActions`. `ActedInv` says with which
arguments each action was called, `RecordsInv` that whatever is recorded for a
rollback or undone has an action of its own, and arguments that `Restores` what
that action did. `UndoMatches` is the lemma between the two derivations: for each
module with an undo, and any target and event, what `UndoArguments` comes to is
what `Arguments` came to, or, of instances, those captured among them.

`Api_proofs`, of `DetectionLists`: `ListTypesHold`, `SnapshotsStayWhole`,
`ListEditsBuild`, `ListIsRegister`. `KnownInv` says of each metadata row that anybody goes by, the
index and an editor's base among them, that it was stored once (`GenuineMeta`:
nobody will write values under its token any more) and is not ahead of the
current one (`NotAhead`: revisions have grown since, and an equal one is the same
row). `TokenInv` says that tokens of PUTs in progress are theirs alone.
For the refinement of `ListPromise` that is not enough. `EditInv` says what an
editor computed: the values it is about to store are its edit of the version it
read, that version's values being those asked for as long as no DELETE took any;
a list that it read was found again by its PUT. `SolidInv` says that a row which
may be shown has values, so that "no values" means "no list" to an evaluator;
`BehindInv` that an evaluator is not ahead of what it loads nor of the index, which
is why evaluators never go back. `CommitMade` then brings an editor's two reads
together: under the condition of its write the version it read is the current one,
or there is none, and its edit is one of the register.

`Api_proofs`, of `RuleCatalog`: `RuleTypesHold`, `RuleEditsBuild`. `ReadInv`
says of each row in an author's hands, read singly or as part of a plan, that
revisions have grown since it was read unless they were voided, and that an
equal one other than 0 is the same row.

`Api_proofs`, of `Settings`: `SettingsTypesHold`, `SecretsStayActive`,
`EditsKeepSecrets`, for any number of webhook targets. `ParameterInv` and
`DocInv` say that a parameter is written once, hence holds the secret it was
named for or nothing, and that stored references are made for what they name.
`BuildInv` is the analogue of `ReadInv`: as long as the revision that a client
read stands, its masked document is what the merge makes of the stored one
(`BuildsOn`). `MergedKeeps` says what a merge leaves in its place: every target,
if none is changed, and otherwise those before the changed one; there unmasking
restores each secret, since positions agree (`NormalizeStep`). That is as far as
`SecretsSurviveEdits` goes: behind a changed target the code is wrong, which is
finding 5.

`Api_proofs`, of `Paging`: `PagingTypesHold`, `ListingsAreWhole`, for any
number of partitions, items, page sizes, changes and midnights. `PageInv` has to
bring the four fields of a request together that say how far it got: what is
still to read, the token it came with, the one it will hand out, and the items.
`Stand` is the place at which the listing stands in a partition, from the old
token while the partition waits for its turn and from the new one afterwards.
`GotInv` says that everything got lies at or before that place, and `OwedInv`
that everything owed which lies there was got. `FeedInv` is what the order of a feed
rests on: where a partition is not exhausted, no later one has been read;
`CursorInv`, that no partition can be left out at the end of a page without
another one having a key to go on from, so that the end of a page is never
taken for that of the listing. `QueryInv` treats the three ways to read, which differ in what remains
after an answer that was stopped (`StopsAt`). For answers it needs that sorting
a set of items puts each at one place (`Enumerated`, by counting: an injection
into 1..n is onto).

`Outbox_proofs`: `TypeCorrect`, `SentIsDelivered`, `PendingIsRetryable`,
`FailedIsFinal`, `LegacyIsSafe`, `RecordIsKept`, and, assuming `Timely`,
`NeverTwoClaimants`, `OneCopyPerClaim`, `RecordedIsSpared` and `PromiseIsKept`.
The first six are about the token and hold whatever the timeout. The invariant `Inv` has four parts beyond the types.
`TableInv` relates the fields of a row: its token is 0 or the number of its
latest attempt, what it records was copied, what is PENDING has budget left.
`ClaimantInv` says what an invocation knows, and what it still *owns* as long
as its token stands in the row: the row is IN_FLIGHT (or SENT, when the write
that said so raised) and records nothing the claimant does not know. That
conditional ownership is why the properties survive claims that were lost.
`UniqueInv` says that an attempt has one claimant. `RecoveryInv` says that
what a stale query concluded still holds of every row for which the write's
condition still holds, since a row cannot become older without being untouched.
The other four rest on `TimelyInv`. `FreshInv` says that a claim is never older
than its invocation, so no claimant's row is old enough for recovery to take
back: each claimant holds its token, and by `UniqueInv` is alone. `CopiesInv`
adds that what a claimant has still to send was sent fewer times than the row
was claimed, which is where `OutboxPromise`'s bound on copies comes from.
`NextSettles` and `SettleRefines` then reduce the refinement to two kinds of
step: one copy of an open row, or a change of at most one row's outcome.

`Responder_proofs`: `TypeCorrect`, `ExecutedOnce`, `ReportsHold`,
`BreakerIsKept`. `ClaimInv` relates an action's claim to its executions and to
the invocations that deal with it: an action without a claim was not executed;
of the invocations past the claim, one is about to execute it, or it has been
executed. `BreakerInv` counts *open* invocations, those past the check whose
call is not yet logged: recent calls and open invocations together stay below
limit plus workers, because whoever passes has seen fewer rows than the limit
and `recent` is lowered to what it saw. `BreakerIsKept` assumes `StoresInfo`,
and run `responder_levels` shows that it must.

`IrRollback_proofs`: `TypeCorrect`, `SuccessIsTrue`, `RepetitionsAreBounded`,
`BreakerNeverTrips`.
`HandleMoves` reduces the ten actions of an invocation to seven moves, told by
what they do to `done`, `lost` and the row; the invariants are then kept by
moves. `SuccessInv` says that an invocation which is about to log, record or
notify a success has one that `done` counts. `CountInv` is what
`UndoBounded` lacks to be inductive: until the row says `rolled_back`, every
undo is either lost or owed by an invocation that has yet to record it; from
then on the undos and the invocations that still act on an older read are
together no more than the invocations there are, plus the losses. It needs
`Handlers` to be finite and nothing else: no bound on messages, clients or
receives, and no fault is excluded. `BreakerNeverTrips` is finding 1 for every
limit: no query of the rollbacks' rows ever reaches it (`NeverTripped`).

`Notifier_proofs`: `TypeCorrect`, `DeletedIsDelivered`, and, for constants that
satisfy `Timely`, `OneHolder`, `RecordedOnce`, `LeaseEndsBeforeReturn`.
`ReachedInv` says that a completed receipt and a channel an invocation has left
behind without a failure stand for a copy; it needs no order of the timeouts.
`LeaseInv` gives every invocation at a channel a lease under its own token, no
older than itself: nobody can take that lease over before the function's
timeout. `CountInv` counts the copies of a channel against those whose receipt
was lost and the one that is about to be completed, which is one because the
lease has one holder. `HandledInv` makes a message as old as its only
invocation, and `BackInv` compares its age with that of its lease: when the
message is visible again the lease has expired. `OneHolder` and
`LeaseEndsBeforeReturn` state `OneSender` and `BackMeansExpired`, which are
proved and not run.

`S3Ingestion_proofs`: `TypeCorrect`, `EvaluatedOnce`, `ReportsAreTrue`,
`PinsHold`, `NothingDisappears`, `OnePassPerJob`. What an invocation keeps in memory is tied to
what is pinned (`StepOK`), and `Progress` says what it has done: every record
behind it has a row whose detections were sent, and its two counters say how many
there are and whether one was quarantined. A detection names its record, so that
what it counts on the way is a union of disjoint sets. `Progress` survives
the steps of others because rows are written once (`RecordKept`), and it makes
two invocations that report one job report the same: that is why a report is
never changed, which `PinsHold` states as `PinnedIsKept`, proved and not run.
`OnePassPerJob`, the refinement of `IngestionPromise`, rests on the same invariant:
`PassedBehind` says that an invocation at record *i* has everything before *i*
behind it in the abstract sense too, whoever did it, and that a job already
reported has nothing left to settle or send; hence an invocation either takes the
next step of the one pass or repeats one. `AskedInv` adds that a replay belongs to
an object with a job.

`Freshness_proofs`: types and all safety properties of `RuleGeneration`,
`ApiAccess` and `AccountRoles`, each for its own specification.
`CacheInv` and `MarkInv` say of a container what its cache and the generation
read earlier guarantee about announced writes, whoever else marks or bumps in
between. `AccessEndsInTime` rests on `ScopeInv`: the scopes of a cached entry
were the key's at the time of the entry. `ActsWithCurrentRole` rests on
`NamedInv` and `RoleCacheInv`, the same of roles with the lag of a replica, and
on the order of lifetimes in `RolesAssumption`.

Every safety property, action property and refinement that a passing run checks is
proved, and so are the types of every part, which only two runs check as well.
`EventuallySettled`, `EventuallyDelivered`, `EventuallyReported` and
`EventuallyCurrent` stay with TLC: liveness under fairness and ENABLED are
beyond the prover.

## Findings

1. *The rollbacks' circuit breaker never trips* (`rollback_breaker`).
   `_recent_action_count` counts `IR_ACTION_SUCCESS` and `IR_ACTION_FAILED`
   rows of the calling function's bucket; rollbackHandler logs
   `IR_ROLLBACK_SUCCESS` and `IR_ROLLBACK_FAILED` into its own. The comment in
   `handlers/ir_rollback.py` promises rollbacks "their own circuit-breaker
   budget".
2. *A rollback can stay "pending" for good* (`rollback_pending`). The API sends
   the message, then writes `pending` unconditionally. If the handler is done
   by then, its `failed` or `succeeded` is lost, nothing is enqueued, and each
   further POST gets 409. The documentation says `pending` is "Enqueued, not
   yet processed".
3. *The level of stored logs turns the breaker off* (`responder_levels`). With
   `LOGS_MIN_LEVEL_TO_STORE` at WARNING or ERROR the rows of successful actions
   are never written, so they are not counted. `infra/logger.py` and
   `docs/data-archival.md` say the setting only affects what can be queried.
4. *A correlation without an index silences the others* (`alerting_scan`). For
   a `group_by` that has no index the repository scans the signals table;
   `serverless.yml` gives the alerter only GetItem and Query on it. The scan
   raises, and with it goes every alert of that signal, until the stream gives
   the record up. The docstring in `handlers/alerter.py` calls the fallback
   "correct for any dot-path" and names a shipped rule that uses it.
5. *Changing one webhook target moves credentials between the others*
   (`settings_targets`). `_merge_channels` of the command line puts the changed
   target last; the API resolves the masks of the others by position, so that
   each target behind the changed one gets the header stored for its new place,
   and a credential is sent to another receiver. The docstrings say "without
   clobbering untouched channels" and "replaced in-place" of the merge
   (`scripts/opencdr.py:478-484`), and "leave unchanged" of a mask
   (`handlers/api.py:2169`).

## Limits met

These are places where the program does less than one might expect and for which
no run is kept: the properties are stated for the case without them.

*Correlation.* `ThresholdMeansAlert` fails with `LaggingIndex = TRUE`, because
the last signals of an incident may be counted before the index shows them and
nothing counts them again, and with `Background = 9`, because the oldest signals
of the actor fill the query's limit and the ones that matter are cut off. A
retried event is a third case: its detections get new ids, so signals, alerts and
deliveries are made again, and the permanent claim of a response, keyed by the
row, does not recognise them. The correlation evaluator knows fewer operators
than the schema of rules: `wildcard` and most negations never hold there
(`Known`), though `domain/correlation_engine.py` speaks of "shared condition
semantics". Its regular expressions have neither a time limit nor a bound on the
length of values. `evaluate_candidate` in `domain/rule_management.py` correlates
without lists, so a candidate with list conditions never matches in a trial.

*Acceptance.* The API accepts a rule without conditions, which never fires, and
does not look at `signal_conditions`; the validation of files refuses both.

*Settings.* A DELETE that races a PUT can leave references to parameters that are
gone, which the notifier reads as empty (`ActiveSecretsHold` allows it), and a
mask resolved from a slow replica brings back an older secret (`stale` in
`SecretsSurviveEdits`). A document that was stored without a revision, or
replaced by a write that names none, can be replaced by whoever read revision 0.

*Freshness of rules.* An evaluator reads the generation consistently and the rules
by a query that is not. A query that lags leaves it with old rules which it marks
as current: `EvaluatesAnnounced` and `CurrentMeansLoaded` exempt such loads
(`Lagged`).

*Catalog.* A row created by POST has no revision. A release that plans to create
a rule, or a PUT with `expected_rev` 0, replaces such a row without a conflict,
which is why `RuleEditsBuildOnEachOther` speaks of rows with one.

*Paging.* A default date range moves at midnight. The new day may then fill the
page before the days that were exhausted are reached; the token forgets them and
the next page lists them again (`moved` in `ListingIsWhole`). A store that
answered exactly the limit without a key would end a feed early; the services
the code runs on do not.

*Ingestion.* A job whose rules and lists exceed the size of a pinned item is a
documented limit: `pinned` raises before it writes, and the upload goes to the
dead-letter queue after its receives, unreported.

## Not modelled

Contents: payload builders, log fields, OCSF normalisation, parsing of S3
objects, query parameters and page tokens, the AWS calls inside a response
module. Runtime entities and storage-only alert configurations. Correlations of
several groups are modelled by the module that stores alerts only for one group
each. Dry-run mode: a deployment is dry-run as a whole, and then nothing is
executed. The two day buckets that a breaker window around midnight touches are
one set of rows. In `Responder` and `IrRollback` a message beyond its last
receive simply stays where it is. Parts without state of their own (archiver,
alarm notifier, metrics, tracing, transport and egress policy, deployment) are
listed in `PROJECT.json` with the reason.

## Plan

The order is by what would hurt most.

1. Done: the delivery pipeline (`Outbox` with `OutboxPromise`, `CircuitBreaker`,
   `Responder`, `IrRollback`, `Notifier`, `Alerting`, `S3Ingestion`); management
   and reading (`DetectionLists`, `RuleCatalog`, `RuleGeneration`, `Settings`,
   `ApiAccess`, `AccountRoles`, `Paging`); what rules and responses mean
   (`RuleEvaluation`, `ResponseTargets`); proofs for all of them, and of the
   refinements of `OutboxPromise`, `IngestionPromise` and `ListPromise`.
2. When targets are matched by name: `OtherTargetsKeepTheirSecrets` becomes a
   property of `guarded_writes`, and `SecretsSurviveEdits` a part of it.
