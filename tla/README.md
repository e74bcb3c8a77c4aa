# Grounds: TLA+ models, checks and proofs

Grounds runs *assurance runs*: an authorised client enqueues a run, a worker
collects evidence about one cloud resource, and pinned detectors turn the
evidence into a verdict. All durable state is in one Postgres database; workers
are processes that poll it. This directory models how a run comes to be, how it is
executed, where its evidence comes from and how it is judged; it checks the models
with TLC on small instances and proves theorems about them with TLAPS.

Paths below are relative to the repository; `PG` stands for
`packages/persistence-postgres/src/postgres-store.ts`, `APP` for
`packages/application/src`.

## 1. Inventory

### Components, their state and their operations

| Component | State | Operations | Correct when |
|---|---|---|---|
| Domain tables (`packages/domain`) | none | the ALLOWED tables of run and step states, summary of results, backoff, content identity | the SQL of the store, which never consults the tables, moves only along them |
| Orchestration store (`PG`) | `assurance_runs`, `run_steps`, `observations`, `findings`, `finding_citations`, `events`, `http_idempotency`, `authorisation_grants` | claimWork, heartbeat, requireFence, persistObservation, completeCollect, persistFinding, completeEvaluate, failStep, scheduleRetry, cancelCollect, recordCancelRequested, appendEvent; consumeGrant, insertRun | three rows of a run always fit together, CHECKs never fire, one holder per fence, no event lost or invented |
| Worker loop (`apps/worker/src/loop.ts`, `main.ts`) | claimed work and heartbeat timer, in memory | runOnce: claim, collect or evaluate, then sort the error: fence lost, fail, retry | a stale worker changes nothing; every run ends |
| Collect step (`APP/collect-step.ts`) | observations returned by a port and not yet persisted | verify scope, inventory, persist each, recheck, telemetry, persist each, complete | repeated and overlapping collections leave one consistent body of evidence, frozen before it is judged |
| Evaluate step (`APP/evaluate-step.ts`) | findings computed in memory | read observations, run pinned detectors, conclude in one transaction | verdict, findings and result are those of the evidence on record |
| Worker commands (`APP/worker-commands.ts`) | none | ClaimWork, HeartbeatLease, FailClaimedStep, RetryClaimedStep | the limit on attempts holds, nothing is retried for ever |
| Cancellation (`APP/cancel-run.ts`) | the run state it read, before it locks | CancelRun, its replay and its reread after an error | an answer tells the truth; no run is left unclaimable |
| Authorisation and enqueue (`APP/create-authorisation.ts`, `enqueue-run.ts`, `enqueue-run-http.ts`) | grants, run identity, idempotency records | CreateAuthorisation, EnqueueRun, EnqueueRunHttp | a grant is consumed once; a repeated request gets the same run |
| AWS adapter (`packages/adapter-aws/src/collectors.ts`) | page cursors and observations gathered, in memory | collectInventory, collectTelemetry, retryOp, handleCollectError | bounded pagination, refused operations become inaccessible observations, nothing outside the scope |
| Live AWS session (`packages/adapter-aws/src/live-adapter.ts`) | the cached operations and the time they may be used | ensure, the account check | no account but the run's is read, no session dies under a port, a failed start is repeated |
| Detectors (`packages/detectors-ecs`, fixture detector in `packages/test-support`) | none | evaluate | missing, stale or inaccessible evidence is UNKNOWN, never PASS |
| HTTP API (`apps/api`) | none | routes over the commands, readiness | an error keeps its status; it is ready only with the whole schema |
| Web console (`apps/web`), observability, scripts, fixtures | none | | |
| Migrator (`PG`'s neighbour `migrator.ts`) | `schema_migrations` | migrateUp, migrateDown, isSchemaReady | the ledger tells what exists, wherever a migrating process died |

### Interaction

Components interact through the database only. A worker's calls and a client's
requests are transactions; a worker reads outside transactions in two places
(the profile, and the observations it evaluates), a cancel request in three. The
lease of a step - owner, epoch, expiry - is what ties a worker's later
transactions to its claim: `requireFence` locks the run and both steps and
refuses unless the row still carries that lease and the run is in the state the
step expects. Ports call back into the store through `onPage`, which is such a
fenced transaction.

### What is hard

* Two processes may run under one `GROUNDS_WORKER_ID` (it has a default), so the
  epoch alone separates a slow worker from the one that recovered its step.
* Postgres `now()` is the time a transaction *began*. A transaction that waited
  for a lock judges the lease by an old clock, and a heartbeat that began in time
  revives a lease that has lapsed meanwhile.
* A worker dies, or loses the acknowledgement of a commit, between any two
  transactions. Observations are committed one by one, collection is completed in
  another transaction, and the next attempt may collect different content.
* Evaluation reads evidence unfenced and concludes later.
* Cancel decides on a run state read without a lock.
* Events are deduplicated by `operation_id`.
* Attempts are counted on claim and limited in three places.
* The same enqueue request may be under way several times. Each looks for a replay
  before it holds any lock, loses to a unique key or to a consumed grant in one of
  four statements, and must then answer what the winner was answered - whose own
  client may never have heard it.
* A transaction locks the run and its steps one statement at a time, and an event's
  number is `MAX + 1`: dense and deadlock-free only while all paths share an order.
* The account changes while it is read page by page. A lost fence reaches the ports
  as one more failed operation, which they turn into evidence of inaccessibility.
* The life of an assumed session is counted from a later answer than the one that
  granted it, and judged once per port call.
* Several processes may migrate at once, and die between two migrations.

`PROJECT.json` lists each of these, and the few no property reaches, at the line
where it bites, with the properties that would catch it.

## 2. Modules

| Module | Models | Extends |
|---|---|---|
| `RunStates` | vocabulary and tables of `packages/domain` | |
| `Verdicts` | evidence, content identity, detectors, findings, results | `RunStates` |
| `RunLifecycle` | abstract: what the control plane promises of a run | `Verdicts` |
| `Orchestration` | the store, workers, lapsing leases and cancel requests | `Verdicts` |
| `OrchestrationProperties` | its invariants, action properties, refinement, liveness | `Orchestration` |
| `OrchestrationProofs` | proofs about the types, the moves of a run and its rows | `OrchestrationProperties` |
| `OutcomeProofs` | proofs about leases, cancellation, verdicts, the refinement and the log | `OrchestrationProofs` |
| `MCOrchestration` | constants of the TLC instances | `OrchestrationProperties` |
| `GrantLedger` | abstract: a grant is spent once, a key settles one request | |
| `Enqueue` | both POST routes that write, request by request and statement by statement | |
| `EnqueueProperties`, `MCEnqueue` | its invariants and refinement; an instance | `Enqueue` |
| `EnqueueProofs` | proofs about grants, answers, refusals, waits and the refinement | `EnqueueProperties` |
| `AtomicLog` | abstract: transactions append to a log one after the other | |
| `EventLog` | the locks and statements inside the store's transactions | |
| `EventLogProperties`, `MCEventLog` | its invariants, liveness and refinement; an instance | `EventLog` |
| `EventLogProofs` | proofs about event numbers, polls and the refinement | `EventLogProperties` |
| `Collectors` | one collect step, AWS call by AWS call | |
| `CollectorsProperties`, `MCCollectors` | what the evidence may be relied on for; an instance | `Collectors` |
| `CollectorsProofs` | proofs about what evidence may be relied on for | `CollectorsProperties` |
| `EcsDetectors` | the rules GRD-ECS-001 and GRD-OBS-001 over flawed evidence | |
| `EcsDetectorsProperties`, `MCEcsDetectors` | the truth tables, and what flaws may do; accounts | `EcsDetectors` |
| `EcsDetectorsProofs` | proofs about flaws, verdicts and findings | `EcsDetectorsProperties` |
| `LiveSession`, `MCLiveSession` | the cached assumed-role session and its clocks | |
| `LiveSessionProofs` | proof about accounts and clocks | `LiveSession` |
| `Migrator`, `MCMigrator` | the migrations and the readiness check | |
| `MigratorProofs` | proofs about the ledger of migrations and readiness | `Migrator` |

The modules meet at three seams. `EventLog` opens up what `Orchestration` takes as
one action. `Collectors` opens up what `Orchestration` takes as the answer of a port,
and `EcsDetectors` what it takes as a detector. `Enqueue` ends where a run of
`Orchestration` begins, queued.

### RunLifecycle

One variable each for a run's state, evidence and verdict. A run is started,
observed, frozen, concluded, failed or cancelled. The verdict appears in the same
step as the final state and is `Verdict` of the frozen evidence. There are no
workers, leases, retries, clients or log.

### Orchestration

A transaction is one action. That is sound for the paths modelled, since each of
them first locks the run row with `FOR UPDATE` and decides only then; the
heartbeat, which locks the step row alone, is one statement. `EventLog` models the
statements inside, and shows that what they log is as if the transactions came one
after the other.

| Variable | Code |
|---|---|
| `run` | state, `started_at` and `terminal_at` set or not, result, `cancel_requested_at` set or not |
| `step` | state, attempt, lease_epoch, lease_owner, error_class; `lapsed`: lease_expires_at is past; `waiting`: next_attempt_at is to come |
| `observations`, `findings`, `events` | the tables, per run; an event is its type and operation_id |
| `pc`, `claim`, `batch`, `drawn` | where a worker is in `runOnce`, and what it holds in memory: the claimed work, observations not yet persisted, computed findings |
| `opened` | which transactions of the worker began before its lease lapsed: a fenced one, a heartbeat |
| `cancel`, `receipts` | each cancel request: where it is and the run state it read, forgotten when it ends without an answer; the answers in `http_idempotency` |

| Action | Code |
|---|---|
| `Lease`, `Exhaust` (`Poll`) | `claimWork`, both outcomes |
| `VerifyScope`, `CollectInventory`, `CollectTelemetry`, `PersistObservation`, `EnsureStillLeased`, `CompleteCollect` | `CollectStep.execute`, one action per transaction or port call |
| `PortOutOfScope` | a port throws `OutOfScopeError` |
| `ReadAndEvaluate`, `Conclude` | `EvaluateStep.execute` |
| `FailClaimedStep`, `GiveUp`, `ScheduleRetry` | `FailClaimedStep`, `RetryClaimedStep` |
| `LoseFence`, `Fault`, `Crash` | `runOnce` catches `FenceLostError`, or another error; an error escapes it or the process is killed |
| `LeaseLapses`, `LateHeartbeat`, `BackoffElapses` | time, as the three places that compare with `now()` see it |
| `SubmitCancel`, `RecordCancelRequested`, `CancelCollect`, `CancelConflict`, `RereadAfterError`, `CancelFault` | `CancelRun.execute` |

Abstractions, and why nothing is lost by them:

* *Time* is two flags. A heartbeat in time only postpones `LeaseLapses`, which is
  never obliged to happen under a live worker, so such a heartbeat is no step of
  its own. When a lease lapses, `opened` chooses which transactions of the holder
  are in flight with an older clock. Several heartbeats may be in flight, but one
  revival ends the lapse. A heartbeat that outlives `runOnce` meets a row without
  its epoch, or one that nobody works on and that it keeps for one more TTL.
* *Which run is claimed.* The query takes the oldest claimable run that is not
  locked; any older one may be locked at that moment, so the model takes any.
* *A commit and its acknowledgement.* A transaction that throws leaves the store as
  it was (`Fault`), one whose acknowledgement is lost changes the store and sends
  the worker down the retry path (the second disjunct of `PersistObservation`,
  `CompleteCollect`, `Conclude`). The fail and retry transactions have no such
  handler: their errors escape `runOnce` and end the process, which is `Crash`; a
  lost acknowledgement of theirs ends it after the commit, which differs from
  their success only in a worker that must start again.
* *Restart.* A crash forgets the claim and the worker polls again. SIGTERM ends the
  pool under a loop that does not look at `stopping`; its next query throws, which
  is a crash again.
* *Observations* are a kind, a content and the freshness judged at insertion;
  content identity leaves freshness out, as in `contentIdentity`. The scope, the
  window and the operation, the same for all observations of a run and kind, are
  left out of it. `collector_attempt_count` is written and never read, and is left
  out.
* *Detectors* follow the fixture detector's rule with a kind each: the earliest
  observation of the kind decides, everything of the kind is cited. The rules of
  the ECS detectors are in `EcsDetectors`.
* *Unreachable branches.* `completeCollect` guards on a blocked evaluate step, and
  `persistFinding` on a replay with other content. `StepsFitRun` shows the first
  never fails; `VerdictMatchesEvidence` that no finding exists before the run is
  concluded, so the second never happens.

### Enqueue

Each request is a process: `pc` is the statement it comes to next, `held` the locks
of its open transaction - the row lock on the grant it consumed, and the keys its
uncommitted rows hold in unique indexes, for which another `INSERT` of the same key
waits. `grants`, `runs` and `records` are committed rows of `authorisation_grants`,
`assurance_runs` and `http_idempotency`; what a transaction wrote reaches them at its
COMMIT. `timely` remembers that `now()` is the time of BEGIN.

| Action | Code |
|---|---|
| `Receive`, `LookUp` | a request arrives; `getHttpIdempotency` before BEGIN |
| `Check` | `CreateAuthorisation` checks window, profile, scope and detectors of a body that parses; `EnqueueRunHttp` that the grant is the caller's own |
| `Begin`, `InsertGrant`, `IssueGrant` | the transaction of `CreateAuthorisation` |
| `FindRun`, `Backfill` | a run of this key exists already: its answer is recorded late |
| `ConsumeGrant`, `InsertRun`, `StartRun` | the transaction of `EnqueueRun` |
| `PutRecord` | `putHttpIdempotency`: ON CONFLICT DO NOTHING, then the digests are compared |
| `RereadRecord`, `RereadRun`, `FetchRecord` | the handlers after a lost race; the answer read back |
| `Fail`, `LoseAcknowledgement`, `Expire` | a statement fails or the process dies; COMMIT's result is lost; a grant runs out |

An actor stands for the organisation and actor of an API process. The id of a row is
the request that inserts it, a digest is the body it digests. `Outcomes` gives the
answers the checks of an authorisation body may lead to: more than one where it depends
on the time, as the window does. A body that does not parse is refused before anything
is looked up, and no such request is modelled. 500 stands for an answer that never
arrives, too. A request that is sent again is another process with the same actor, key
and body.

### EventLog

Every path of the store that touches a run is one of five kinds: `claim` (`claimWork`,
whose `SKIP LOCKED` passes over a locked run), `fenced` (`requireFence` and what
follows), `heartbeat` (one step row), `cancel` (`cancelCollect`, which leaves the steps
alone if the run is cancelled) and `request` (`recordCancelRequested`). `todo` holds the
statements a transaction has before it, each the lock of a row or an `appendEvent`;
`drafts` the events it inserted, which hold their keys in both unique indexes until it
ends. An `appendEvent` is two steps, `TakeNumber` (the subselect) and `Insert`, so that
another transaction can come between them. Two events of its own stand for those a
claim or a fenced transaction writes. What is not a lock or an event is in
`Orchestration`.

### Collectors

`account` is what ECS holds of each task, and changes while it is read: a task comes,
stops, and is forgotten. `at` and `turn` say which operation is under way and what is due: the
call, `onPage` after an answer or before a retry, the second call. The actions are the
calls (`DescribeServices` to `GetMetricData`), what becomes of them (`Throttled`,
`Retry`, `Refused`, `CheckpointFails`), how each answer is taken in (`TakeService` to
`TakeMetricData`), and the statements of `CollectStep`. Page and batch sizes are
constants; fields of the payloads, metric windows and truncation by size are
abstracted to whether the observation is complete and which error code it carries.
`groups` are the entries of the service's list of load balancers: a target group that
is listed twice is two of them, and as ambiguous as two groups. `late` counts calls made
without the fence.

### EcsDetectors

`world` is what an account has to show about a service: tasks, targets, datapoints,
target groups, health check, alarms. `flaws` is what is wrong with each observation a
run has of it; flaws gather one by one, so that a step compares two bodies of evidence
that differ in one. The operators are the helpers of `payload.ts` and the conditions of
both `evaluate` functions, under their names. Field-by-field parsing is one flaw,
a payload of another service than the run's is another (`misnamed`). Two bodies of
evidence contradict each other on the number of running tasks, or where the health
evidence is of a target group the service does not name. Wording is left out.

### LiveSession

Time is counted down: `left` is the life AWS gives the session, `usable` what `ensure`
believes of it. A port call uses the cached session, or assumes the role, asks for the
caller's identity and refuses another account; if either call fails, the port goes on
with operations that are all inaccessible.

### Migrator

`schema` is the set of migrations whose objects exist, `ledger` the ids in
`schema_migrations`. A process looks, creates, records and commits one migration after
the other; it waits for another that creates the same object, fails if the object is
there, and may die at any statement. `migrateDown`, which only the tests call, has the
database to itself. `raced` remembers which processes were not alone.

## 3. Runs

All constants are small sets of model values or definitions in the MC modules. In
`Orchestration`, attempts bound the behaviours: every claim uses one up, so that no
bound on crashes, faults, lapses or resubmitted requests is needed. The source allows
five attempts; two already give a first lease, a recovery or a retry, and exhaustion,
and three give a lease between the first and the last.

| Run | Instance | Shows |
|---|---|---|
| `one_run` | one run, two workers under one id, one cancel request, two attempts, inventory that passes or fails, telemetry | types; the three rows fit (`StepsFitRun`); no CHECK fires; one fence holder per run; only legal transitions; the run implements `RunLifecycle` |
| `two_runs` | two runs, one of them out of scope; two workers under one id, one without the detector | a stale worker writes nothing, and its late heartbeat revives no lease: an epoch of one row gives no power over another |
| `evidence` | one worker, three attempts, pages of two observations, stale and inaccessible ones, two detectors of different kinds, two cancel requests | the verdict is that of the evidence, however often it was collected; leases, retries and recoveries are accounted for in the log; no request lands on a run that is still to be collected; answers and log tell what happened |
| `liveness` | one run, two workers, fairness | every run ends; an abandoned lease is replaced |
| `cancel_race` | one request, one worker | the first divergence below |
| `enqueue` | two authorisation and two enqueue requests, two actors, two keys, two bodies whose window may be over when it is checked | a grant is spent on one run or none; what a client is told stays true, and is the same under each send; nobody is refused without a lasting cause; no wait is circular; the routes implement `GrantLedger` |
| `event_log` | three transactions of any kind on two runs | no number is taken twice; a poll queues behind heartbeats only; every transaction ends; the log implements `AtomicLog` |
| `collectors` | two tasks, one yet to come; up to three pages with an alarm bound of two; batches of one | one observation per kind; "complete" evidence misses nothing; nothing foreign becomes evidence; a lost fence stops the work after one call; the step ends |
| `live_session` | 900 s of life, 60 s of skew, answers within 40 s, in ticks of 20 s | only the run's own account is read; a port starts with more than 20 s of life; a failed start is repeated until one succeeds |
| `session_expiry` | the same | the second divergence below |
| `ecs_detectors` | 468 accounts at the edges of thresholds and window, up to two flaws, parameters of the `ecs-payments` profile | without flaws the verdicts are the truth tables'; flaws can only raise doubt; what a finding cites |
| `migrator` | three processes, the three migrations | the ledger tells the schema; a process fails only in a race; ready means migrated |

Three transactions are the fewest in which one waits for a second that waits for a
third, and two runs show that numbers and locks of different runs do not meet. Four
requests are the fewest in which two sends of an enqueue race for a grant while a
second grant exists under another actor's or the other key. Two flaws are enough for
one to mask another. A third task or page would repeat what the second does: a
listing distinguishes what it has given, gives now and has yet to give.

`CHECK_DEADLOCK FALSE` appears where no client can resubmit: once every run has
ended nothing is left to do; the same holds of requests, transactions, a collect step
and the flaws of evidence. Symmetry is used for workers with the same id and detectors,
clients with the same target, requests of one route, actors, keys and processes, never
with liveness.

Every property of a passing run is paired, in `PROJECT.json`, with a change of the
model that a plausible bug would amount to, under which TLC finds it violated: a
fence that ignores the epoch, one more attempt, expired leases never recovered, a
cancel that leaves the leased step alone, a rollback that keeps the grant consumed, a
step locked before its run, an event appended without the lock, stopped tasks listed
before running ones. Operators such as `StepsBeforeRun` or `PageUnchecked`, and those
marked "Fault variant" in `Orchestration`, are these changes; the specification does
not use them.

### Fairness

`Poll` and `WorkerStep` of each worker are weakly fair: the loop of `main.ts` polls
every 250 ms as long as the process, or its replacement, lives, and every call
`runOnce` makes returns. `BackoffElapses` is fair because time passes, `LeaseRunsOut`
because a lease without a holder is not renewed. `Fault`, `Crash`, `PortOutOfScope`,
`LateHeartbeat`, lapses under a live holder and requests of clients are never
obliged to happen. "Every call returns" is an assumption about the environment: a
port call that hangs keeps its heartbeat timer running, so that its lease never
lapses and nobody recovers the run (`loop.ts:50-70`).

`EventLog` is fair to the steps of each transaction: the database runs a statement that
need not wait. It is not fair to BEGIN, nor to an abort. `Collectors` is fair to the
work as a whole: AWS and the database answer every call, if only with an error; that the
account stops changing or the lease holds is not assumed. `LiveSession` is fair to the
worker's calls and returns, and strongly fair to an `AssumeRole` of the right account and
to `getCallerIdentity`: asked again and again, AWS answers at last.

### Divergences

`docs/architecture/state-machines.md:20` says a cancel during evaluation "is recorded
and ignored for that in-flight lease". `CancelRun` reads the run without a lock
(`cancel-run.ts:20`). If it sees `collecting` and collection completes before
`cancelCollect` has the lock, the transaction throws and rolls back; the reread does
not find `cancelled` and the request fails, with neither `cancel_requested_at` nor
the event written. ADR 0008 lists this pre-read as a known race. `cancel_race`
produces the trace. `AnsweredCancelTookEffect` shows what remains true: no request
that is *answered* is without effect.

ADR 0008 (`docs/decisions/0008-codex-review-amendments.md:35`) says the worker "caches operations until 60 seconds
before expiry". `live-adapter.ts:69` adds the 840 seconds to the time at which
`getCallerIdentity` has answered, while AWS counts the 900 from `AssumeRole`. The time
between the two comes off the skew. `session_expiry` produces a port call that starts
with less; `SessionOutlivesSkew` shows that it is less by no more than that time.

## 4. Proofs

The theorems hold for all constants that satisfy the assumptions of their module.
`Orchestration`: `RequiresAssumption`, `WorkersAssumption`, `RunsAssumption`,
`AttemptsAssumption` - any number of runs, workers, detectors and clients, any sharing of
worker ids, any limit of attempts above zero, whatever the ports return. `Enqueue`:
`RequestsAssumption`, `OutcomesAssumption`, `NoRowAssumption`, `RowsAssumption` - any
number of requests, actors, keys and bodies; ids of the two routes differ and the missing
row is none of the rows. `EventLog`: `NobodyAssumption` - any runs and transactions.
`LiveSession`: `TicksAssumption` - any life longer than the skew, a skew longer than an
answer takes. `Collectors`: `BoundsAssumption` - any finite set of tasks, any groups, any
page sizes and bounds that leave the port's own bound the smaller. `EcsDetectors`:
`ParametersAssumption`, `WindowAssumption`, `WorldsAssumption` - any accounts of finite
lists, any thresholds, a window after time 0 (0 stands for no time), any number of
flaws. `Migrator`: `MigrationsAssumption` - any processes, at least one migration.

| Theorem | Module | States |
|---|---|---|
| `TypeCorrect` | `OrchestrationProofs` | `[]TypeOK` |
| `RowsFit` | `OrchestrationProofs` | `[]StepsFitRun` |
| `ChecksHold` | `OrchestrationProofs` | `[]ChecksNeverFire` |
| `TransitionsAreLegal` | `OrchestrationProofs` | `LegalTransitions` |
| `FencesExclude` | `OutcomeProofs` | `[]OneFenceHolder` |
| `StaleWorkersAreHarmless` | `OutcomeProofs` | `StaleWorkerWritesNothing` |
| `CollectableIsClaimable` | `OutcomeProofs` | `[]CollectableRunsAreClaimable` |
| `AnsweredMeansDone` | `OutcomeProofs` | `[]AnsweredCancelTookEffect` |
| `VerdictsAreOfTheEvidence` | `OutcomeProofs` | `[]VerdictMatchesEvidence` |
| `LifecycleImplemented` | `OutcomeProofs` | `ImplementsLifecycle` |
| `EveryLeaseIsAccountedFor` | `OutcomeProofs` | `[]LeasesAccountedFor` |
| `LogIsTrue` | `OutcomeProofs` | `[]LogTellsOutcome` |
| `TypeCorrect` | `EnqueueProofs` | `[]TypeOK` |
| `SpentOnce` | `EnqueueProofs` | `[]SpentMeansOneRun` |
| `AnswersAreTrue` | `EnqueueProofs` | `[]AnswersStand` |
| `RefusalsAreFounded` | `EnqueueProofs` | `[]RefusalsHaveACause` |
| `NoDeadlock` | `EnqueueProofs` | `[]NobodyWaitsForEver` |
| `LedgerImplemented` | `EnqueueProofs` | `ImplementsLedger` |
| `TypeCorrect` | `EventLogProofs` | `[]TypeOK` |
| `NumbersAreUnique` | `EventLogProofs` | `[]NoNumberIsTakenTwice` |
| `PollsAreNotHeldUp` | `EventLogProofs` | `[]PollIsNotHeldUp` |
| `AtomicLogImplemented` | `EventLogProofs` | `ImplementsAtomicLog` |
| `ReadsOwnAccount` | `LiveSessionProofs` | `[]OnlyOwnAccountIsRead` |
| `SessionsOutliveSkew` | `LiveSessionProofs` | `SessionOutlivesSkew` |
| `TypeCorrect` | `CollectorsProofs` | `[]TypeOK` |
| `KindsAreKeptOnce` | `CollectorsProofs` | `[]EveryKindOnce` |
| `NothingIsMissed` | `CollectorsProofs` | `[]CompleteMissesNothing` |
| `ScopeIsKept` | `CollectorsProofs` | `[]EvidenceStaysInScope` |
| `LostFencesStopTheWork` | `CollectorsProofs` | `LostFenceStopsWork` |
| `DoubtIsAllTheyRaise` | `EcsDetectorsProofs` | `FlawsOnlyRaiseDoubt` |
| `FlawlessIsTrue` | `EcsDetectorsProofs` | `[]FlawlessVerdictIsTruth` |
| `FindingsAreFounded` | `EcsDetectorsProofs` | `[]FindingsCiteTheirEvidence` |
| `LedgerIsTrue` | `MigratorProofs` | `[]LedgerTellsSchema` |
| `AloneNobodyFails` | `MigratorProofs` | `[]FailsOnlyInARace` |
| `ReadyIsTrue` | `MigratorProofs` | `ReadyMeansMigrated` |

### The argument

*Types.* `TypeOK` alone is not inductive. `TypeInv` adds `MemoryOK`: a worker inside
`runOnce` holds a claim, of the step its point of the handler belongs to, and while
it persists it has an observation left. Without it nothing says that a write goes
to a row that exists. There is one lemma per action; `RowUpdate`, `RunRowFields` and
`StepRowFields` say what updating one row does, so that the actions do not repeat
it. That attempts stay in `0 .. MaxStepAttempts` rests on the guard of `Lease`.

*Moves.* Most invariants only speak of
the rows of one run. `Moves` (in `OrchestrationProofs`) says once, for every action, what happens to the row
of the run, its two step rows and its evidence: a lease, an observation, a
completion, a conclusion, a failure, a retry, a request on record, a cancellation,
or nothing; and that only one run moves (`NextMoves`). From there an invariant of
the rows needs one case per move instead of one per action.

*Rows.* `RowsInv` is `TypeInv`, `StepsFitRun` and `QueuedIsUntouched` (a queued run has
used no attempt). The last one is needed because `Exhaust` fails a run from any
state: if it could meet a queued run, the run would fail without ever having
started, against the CHECK of `assurance_runs` and against the table of run states.

*Leases.* `LeaseInv` adds that the epoch a worker remembers is never above that of its
row (`ClaimsAreGiven`) and that no two workers remember the same epoch of a step
(`ClaimsDiffer`). A lease takes the next epoch, which the first fact makes new, and
epochs never go back. Two workers that pass the fence of a run are on the same step,
since the run is in the state this step expects, and both remember the epoch of the
row. The ids of the workers play no part in it. `WritersHoldFence` is the other half:
in a step that changes the store or the clock of a lease, only a worker that holds the
fence or a live lease, or is looking for work, acts.

*Cancellation.* `CancelInv` adds what the unlocked read is worth later: if it saw the run
evaluating or ended, the run will not be collected again, so the request may be put on
record under whatever the run has become. That a cancelled run carries its request is
needed for the answer given after a reread.

*Verdicts.* `EvidenceInv` adds `DrawnFromEvidence`: a worker on an evaluate step works on
a run that left `collecting`, so what it read unfenced cannot have changed, although it
may be read long before it is used. Refinement of `RunLifecycle` follows, each move
being a step of it or none.

*The log.* `LogInv` states of each run what the log holds for its rows and its two steps
(`RunLog`, `StepLog`), that it is finite, and that no worker remembers an epoch beyond the
attempts of its step (`ClaimsCountAttempts`). Each move appends the events of a fresh
`operation_id`, so that a count grows by exactly one: the lemmas on `Times` say what one
more event does to it.

*Grants.* That a grant is spent on one run is decided at COMMIT, long after the statement
that looked at it. `GrantsInvariant` bridges the statements between: two requests never
hold one lock (`LocksAreExclusive`), a request past `ConsumeGrant` holds the lock of a
grant that is still unspent (`GrantIsHeld`), and it has no row of its own yet
(`WritesLast`). Nobody else can consume the grant under that lock, so at COMMIT it still
has no run.

*Answers.* `JInv` is `IInv` with `AnswersInv`: the idempotency records name exactly
the grants and runs that exist (`TablesAgree`), a request holds exactly the locks of the
statement it has reached (`held = Acquired`), and the key it is about to insert stays free
until it commits (`KeyIsFree`). Only COMMIT changes the tables, and they only grow
(`Grows`), so what an answer or a refusal said stays true. Locks are taken in the
order grant, client key, record; a group that waited on itself would need a lock taken
against that order, which is `NoDeadlock`. Each COMMIT is a step of `GrantLedger` and
every other statement none.

*Event numbers.* An open transaction that does not own the run's row has written nothing,
and its next statement locks that row, unless it is a heartbeat (`OwnsOrWaits`). So no
two transactions append to one run at once, and the number a running `INSERT` read is
still above all it can see (`NumberIsNew`). That a greatest number exists is an invariant of its
own (`LogsHaveGreatest`): it is kept step by step, with the new number as the new
greatest, because induction over a finite set is beyond this prover.

*Logs.* The refinement of `AtomicLog` needs each log to be numbered `1 .. n` (`Dense`),
the number an `INSERT` read to be the next one (`NumberIsNext`), and a script to append
only in its last two statements (`BatchFits`): then a commit adds one or two entries at
the end, and nothing was added between. Rows are locked in order (`HoldsItsOwn`,
`ClaimHolds`), so a claim holds its run's row, and all that can be in its way is a
heartbeat with nothing left but to commit: `PollsAreNotHeldUp`.

*Session clocks.* While the identity is awaited, what is left of the session and what has been
waited add up to its life (`LifeIsWaitedAway`), and afterwards the two clocks keep their
distance (`ClocksKeepTogether`), so that as long as `usable` is above zero `left` is above
the skew less the latency. Nothing is usable before a session has been identified
(`NothingUsableYet`).

*Collecting.* `CInv` says what stands at each call of a collect step. The evidence kept
and what the port has in hand are a prefix of the six kinds in their order, of a length
the point of the step fixes (`Shape`); that alone gives each kind once. Each observation
is honest from when the port returns it (`Truth`). Completeness is about an account
that changes while it is read: a task that is there throughout, first running and then
stopped, is in a listing read already or still to come, because running tasks are listed
before stopped ones (`NoneMissed`). Evidence is written only under the fence,
and after a lost fence one call at most is made before a check (`LateOnce`).
`DescribeTasks` goes in batches that the bound on pages does not limit; the first bound of
`TypeOK` on them held in the instance only, and the proof found it.

*Detectors.* `EcsDetectors` has no inductive argument. Both rules are restated as functions of
the account and of what is trusted of the evidence (`EcsVerdict`, `ObsVerdict`), and one
more flaw only takes trust away (`TrustIsLost`): with less trusted a verdict stays or
becomes an unknown. The observability rule needs care where the metric decides, which it does only
when nothing else does.

*Migrations.* `MInv`: the applied migrations are `1 .. n` (`Prefix`); a process on its way
up has all below its place behind it, and one on its way down stands alone at the end of
the prefix (`Places`); whoever runs beside another is marked as raced (`Races`).

### Model-checked only

Every invariant, action property and refinement that a passing run checks has a theorem.
Left to TLC are the liveness properties (`EveryRunEnds`, `AbandonedLeaseIsReplaced`,
`EveryTransactionEnds`, `CollectionEnds`, `FailureDoesNotPoison`), which rest on fairness
and so are beyond this prover, and the two runs that expect a violation.

## 5. Not modelled, and the plan

* The web console, log redaction, encodings and digests, scripts and fixtures keep no
  state on which a property here depends. The AWS SDK is external.
* The GET routes change nothing, and validation of bodies and headers is a function of
  one request. `insertProfile` and `insertGrant` are called by tests and seeding only.
* Evidence window, freshness and payload bound are pure functions of one call whose
  boundaries unit tests reach. Their outcomes - stale, truncated, incomplete - are
  inputs of `Verdicts` and `EcsDetectors`.
* `GET /v1/runs/:id` builds its answer from several reads outside a transaction
  (`app.ts:263`); a run that moves between them is shown torn. It is listed as a hazard:
  no document promises a snapshot, so there is nothing to check it against.

What could be proved next: consequences of the abstract specifications alone
(`RunLifecycle`, `GrantLedger`, `AtomicLog`), such as that a log which transactions
extend one after the other is numbered without gaps; and the seams, that the answers
of `Collectors` and the results of `EcsDetectors` are among those `Orchestration`
allows its ports and detectors.
