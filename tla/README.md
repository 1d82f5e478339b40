# TLA+ verification of geo-notifications-service

Specifications, model-checking configurations and machine-checked proofs for the Go service in `src/`:
an HTTP API that records location checks against geofenced incidents and notifies a webhook of the checks that hit one.
Paths below are relative to `src/`.

## 1. Inventory

### Components

| component | state | operations | talks to |
|---|---|---|---|
| incidents service (`internal/app/incidents`) | none | Create, GetByID, List, Update, Deactivate, CheckAndRecord, Stats | cache/repository; unit of work |
| unit of work, tx runner (`internal/platform/db/uow`, `txrunner`) | one open transaction | WithinTx, WithinTxRoot | connection pool |
| incidents repository (`internal/platform/db/incidents`) | `incidents`, `location_checks`, `location_check_incidents` | CRUD, FindNearby, RecordCheck, CountUniqueUsersSince | Postgres |
| outbox repository (`internal/platform/db/outbox`) | `webhook_outbox`: status, attempts, next_attempt_at | Enqueue, ClaimBatch, MarkDispatchedBatch, MarkRetryBatch, MarkDead | Postgres |
| outbox relay (`internal/workers/outboxrelay`) | the batch of the current tick | Run, process, backoff, minAttempts | outbox repository, redis queue |
| redis queue (`internal/platform/redis/queue`) | the stream | EnqueueBatch | Redis |
| webhook worker (`internal/workers/webhook`) | consumer group, pending entries, dedupe keys, the entry in hand | Run, handle | Redis, webhook target |
| webhook target (`cmd/webhook-test`) | requests received | one POST handler | |
| incidents cache (`internal/platform/redis/cache`) | version key, one entry per version, limit and offset | List, getVersion, bumpVersion, Create/Update/Deactivate | Redis, repository |
| domain (`internal/domain/incidents`) | none | Validate of the commands | |
| HTTP (`internal/http`, `middleware`) | none | decode, encode, authenticate, map errors, recover | service |
| errors (`internal/errs`, `internal/platform/db/errs`) | none | wrap, classify | |
| start and stop (`cmd/api/main.go`, `internal/http/server.go`) | goroutines, pools, the signal channel | main, Start, Shutdown, Wait, the deferred Close | everything |
| database startup and health (`internal/platform/db/sqldb.go`, `internal/http/handlers/system.go`) | pings of a StatusCheck | Open, StatusCheck, Health | Postgres, Redis |
| configuration, logger | none | | |

Interaction, from a check to the target:

```
POST /location/check -> CheckAndRecord -> [tx: location_checks, links, webhook_outbox] -> outbox relay
   -> XADD stream -> consumer group -> webhook worker -> SETNX processed:<id> -> POST target -> XACK
```

Everything after the transaction is asynchronous: every process runs one relay and one worker as goroutines, several
processes share one database and one Redis, and each round trip may fail before or after it took effect.

### What is hard, and what correctness means

* **Outbox and relay.** The claim commits before the push and leaves the row `pending`; push and mark are two systems.
  Correct: a row is dispatched only if it is in the stream; dead only after `maxAttempts` claims; every row settles;
  duplicates are bounded and have a cause.
* **Webhook worker.** The key is taken before the POST, errors leave the entry pending, only `>` is read.
  Correct: the target sees a row at most once per key; what is not delivered can be found; the stream is never held up.
* **Pipeline.** Correct: at most once to the target, only for committed rows; delivered when nothing but tolerated faults
  happen. The README of the service claims reliability beyond that (see the finding in section 4).
* **Location check.** Check, links and event are three statements of one transaction, over a pool of limited size.
  Correct: event exists exactly for a committed check with incidents, `ok` answers are true, nobody waits for ever.
* **Cache.** Table and version are written one after the other, lists are read and stored in four round trips.
  Correct: a list is as new as every INCR before its request; outdated lists expire.
* **Incidents.** A request passes decoding, the API key, two layers of validation, one statement built from optional
  fields, and three layers of error mapping. Correct: what is stored is valid, patches merge, one Deactivate wins, the
  status tells what happened, and 500 has a cause.
* **Backoff.** One wait for a whole batch, out of a shift that overflows, written by one clock and read by another.
  Correct: the wait is what the batch's youngest row is owed, and an outage does not use up the attempts too soon.
* **Start and stop.** Goroutines, two contexts, a signal at any time, servers that go away and come back.
  Correct: nobody works on a closed pool, a signal ends the process, health tells the truth; a failed server leaves the
  process up without an API, which is stated as it is.

Each hazard is listed at its line in `PROJECT.json`, with the properties that would catch it.

## 2. Modules

| module | models | module | models |
|---|---|---|---|
| `OutboxRelay` | outbox table, relay, XADD pipeline | `OutboxRelayProofs` | its theorems |
| `WebhookWorker` | consumer group, dedupe keys, worker, target | `WebhookWorkerProofs` | its theorems |
| `WebhookPipeline` | both over one stream | `WebhookPipelineProofs` | refinement, traceability |
| `Notifications` | abstract promise of the pipeline | | |
| `OutboxTable` | what the outbox table shows of the relays | | |
| `RelayBackoff` | the relay's waits and clocks | `RelayBackoffProofs` | its theorems |
| `LocationCheck` | CheckAndRecord, unit of work, pool | `LocationCheckProofs` | its theorems, refinement |
| `CheckLedger` | abstract promise of a check | | |
| `IncidentsCache` | the versioned cache | `IncidentsCacheProofs` | its theorems |
| `Incidents` | handlers, validation, service, statements, error mapping | `IncidentsProofs` | its theorems |
| `Lifecycle` | main, server, worker loops, StatusCheck, health | `LifecycleProofs` | its theorems |

`MC*` modules give TLC its finite sets, fault sets and symmetries. Names follow the code. Definitions whose comment starts
with "Seeded bug" are not part of any specification: they are the plausible mistakes that show each property can fail.
Every fault is an action of its own, guarded by `Fault(kind)`, which counts it against `MaxFaults`; `FaultKinds` selects
the kinds a run has.

### OutboxRelay

`status`, `attempts` and `due` (`next_attempt_at <= NOW()`) are the columns; `pc`, `events`, `sent`, `tries`, `pushErr` are
the local variables of `process` for each relay. `pc` in `claiming` or `marking` is an open transaction, whose rows are
`Locked`.

| action | code |
|---|---|
| `Enqueue` | commit of a transaction that called `Repository.Enqueue` |
| `BecomeDue` | the clock |
| `ClaimBegin`, `ClaimNothing`, `ClaimCommit`, `ClaimFail` | `process` 60-70, `ClaimBatch` |
| `XAdd`, `XAddRejected`, `PipelineLost`, `ExecReturn` | `EnqueueBatch`, one command at a time |
| `MarkBegin`, `MarkCommit`, `MarkFail` | `process` 85-106 and the mark statements |
| `Crash` | death of the process, or a context cancelled by the shutdown |

`SELECT ... FOR UPDATE SKIP LOCKED` takes the first `BatchSize` claimable unlocked rows by id; `RETURNING` promises no
order, so the batch is any permutation of them. The UPDATE of a mark waits for row locks (`MarkBegin`). A commit of a mark
whose reply is lost behaves like `MarkCommit`, since `process` only logs the error. An error of `MarkDead` is ignored by
the code but aborts the Postgres transaction: it is a `MarkFail`, as is a deadlock between two marks.

`Enqueue` is where the location check comes in: what `LocationCheck` puts into `outbox` at the commit is a row that
`OutboxRelay` inserts here. Since the relay looks at nothing but the columns above, the two modules share no other state.

### RelayBackoff

`OutboxRelay` knows only that a row is due or not; this module has `next_attempt_at` as a time, so that it can say how long
the relay waits. Claim and mark are one step each, in exchange.

| action | code |
|---|---|
| `Enqueue`, `Pass` | `Repository.Enqueue` with `DEFAULT NOW()`, the clock of PostgreSQL |
| `ClaimBatch`, `ClaimNothing` | the first transaction of `process` |
| `MarkDispatched`, `MarkFailed` | the second one; `MarkFailed` computes `backoff(minAttempts(events))` for the whole batch |
| `TickLost` | a claim whose mark never comes: attempts are counted, nothing is pushed back |

`Wrap` is a signed integer of `Range64` values, `Shifted` is `time.Duration(1<<attempt) * time.Second` with both overflows.
`ShiftFits` states what `maxAttempts = 10` leaves to spare; attempts themselves are not bounded, since every lost tick adds
one. `Skew` is how far the relay's `time.Now()` may be behind PostgreSQL's `NOW()`. `AttemptsTakeTime` is about one relay:
two relays may each fail the same row, and overwrite each other's `next_attempt_at`.

### OutboxTable

What a reader of `webhook_outbox` may rely on, and which relay may change what: a claim takes at most a batch of pending
rows and counts an attempt for each, whether or not its reply arrives; a mark changes the rows of the relay's own last
claim and decides by the attempts that claim counted, never by the table. Locks, pipeline, re-sends and waits are gone.
`OutboxRelay` and `RelayBackoff` both implement it (`ClaimsAreCounted`, each with its own `Held`), so what they leave out of
each other, the single steps here and the times there, changes nothing that the table shows.

### WebhookWorker

An entry is its position in `stream`; `lastDelivered` and `pel` are the consumer group; `processed` the keys; `posts` what
the target processed. `again` counts, per row, what allows one request more: key expiries and replays by the HTTP
transport. A request of a failed attempt that reaches the target late is covered by `TargetAccepts` followed by
`PostFails`. Parse errors in `handle` are left out: every entry the relay writes parses. Redis is durable (it has a volume
in `docker-compose.yml`) and the stream is not trimmed (the code never does).

### WebhookPipeline and Notifications

The pipeline composes the two modules over `stream` and `faults`; `Publish` of the worker module is replaced by the relay.
`Notifications` is what a user may rely on: rows are committed, and each committed row is sent at most once, plus once for
each permission (expiry, replay). The refinement maps `committed` to the inserted rows and the other variables to themselves.

### LocationCheck

`stmts[r]` is what the open transaction of request `r` has inserted; `Apply` is the effect of its commit; `conns` the
requests that hold a connection. `CommitFails` may or may not have taken effect. A relay and the other requests use the
same pool for a statement or a short transaction at a time; more requests stand for them. Requests are distinct checks: a
client that repeats a failed request makes a new one, and may be recorded twice after `CommitFails`; the code has no
idempotency key for that, and no property claims it.

`CheckLedger` is the promise: a check appears in one step, with its incidents and its event, or never. Its `gone` holds, per
request, the incidents that were inactive when FindNearby began: they are not recorded, while an incident deactivated
between FindNearby and the commit may be. The refinement `ChecksAreWhole` reads the ledger off the three tables.

### IncidentsCache

Content is a number, the state of the table; a cached list is the state it was read from, and `cache[v]` the set of at most
one list stored under `incidents:active:v<v>`. `version = 0` is the absent key, and key version 0 is what `getVersion`
answers on error. `shown` and `due` are history variables: what the INCRs had made known at each version, and when a
request came in. Different limits and offsets have different keys and never meet, so one pair is enough. Lists of two
requests may go back in time between a statement and its INCR; the properties do not deny it. `blind` remembers that a
SETNX of the version failed: from then on key version 1 may hold a list of no known age, like key version 0 always. These
two are `Doubtful`, and all that `ListIsFresh` exempts.

### Incidents

`table` is the table of incidents, `cmd` the request a client sent and `answer` its HTTP status. A nullable column and an
optional JSON field are sets of at most one element. Each operation is one statement, so the model has one action per
operation, with everything before it (`Valid`, `Refusal`) in the guard and everything after it (`Map`, `Wrap`, `StatusOf`)
in the status.

| definition | code |
|---|---|
| `Valid`, `CreateValid`, `UpdateValid`, `CheckValid`, `PointValid`, `Bound` | handlers' decoding and id checks, `Validate` of the commands |
| `Refusal` | `APIKey` before everything else |
| `SetList`, `Add`, `Assign` | `Repository.Update`: arguments, positions, and what Postgres makes of them |
| `Create`, `Get`, `List`, `Stats`, `Update`, `Deactivate`, `Check` | one statement each, its success |
| `Clamp` | `Service.List`: negative limits and offsets become 0 |
| `Unfit`, `StatementRejected` | a number or text its column cannot hold, a negative LIMIT, or no row |
| `StatementFails`, `Committed` with a `Fault` | lost before, or after, the statement took effect |
| `Map`, `Wrap`, `StatusOf`, `Fail` | `dberrs.Map`, `errs.Wrap`, `mapErr` |

`Check` covers FindNearby and its scan, and whether the user's id can be stored; what else happens after it is
`LocationCheck`'s. The row a nearby search returns is
determined by `Distance`, which PostGIS computes; any other function would do, and the theorems use nothing of it. Points
are whole degrees. `Get`, `List` and `Stats` change nothing; here they matter for the status they end with, and what a list
shows is `IncidentsCache`'s. A query string that is not a number has become 0 in the handler, so it is a 0 among `Pages`.

### Lifecycle

`pc["main"]` is where main is, `pc[h]` where a health request is; `pools` are the deferred `Close` calls still to come,
`sig` the signals in the channel, `cancelled` the workers' context. `up` covers the two servers, which may be away, and the
three pools, of which another request or a worker may hold every connection. A call that meets either waits (`Waits`), and
from then on its deadline may pass (`late`), whether or not what it waited for comes back: a `StatusCheck` may fail with
Postgres up.

| action | code |
|---|---|
| `OpenDB`, `PingOk`, `PingFails`, `PingAgain`, `StatusOk`, `StatusFails`, `StartStatus` | `Open`, `StatusCheck`: sleeps of n * 100 ms within a second |
| `Waits` | any call whose server is away, or whose pool has no free connection |
| `OpenRedis`, `Notify`, `SpawnServer`, `StartWorkers` | the rest of the start, up to the select of main |
| `ServerFailed`, `ShutdownBegins` | the two cases of the select |
| `Drained`, `ShutdownTimesOut` | the two ends of `Shutdown`; after ten seconds `Close` drops the connections of the requests in `dropped`, whose handlers run on |
| `WaitReturns`, `ClosePool`, `Exit` | `g.Wait` and the deferred calls in reverse order |
| `Listen`, `ServeReturns` | the goroutine of `s.Start` |
| `Signal`, `QueueSignal` | before `signal.Notify`, or after a start that never got there, a signal kills; otherwise the channel holds one, and drops the others |
| `WorkerTick`, `WorkerEndsTick`, `WorkerStops` | the loops of both workers, which return when their context is done |
| `Arrive`, `CheckPostgres`, `CheckRedis`, `Rate` | the health handler and its three pingers |
| `Outage`, `Recover` | external |

Requests other than `GET /api/v1/health` hold pools open in the same way and need no module of their own here: the health
request stands for any that is under way during a shutdown. `seen` is a history variable: which servers and pools have
answered since the request came, and whether one of them did not.

What a request that outlives the ten seconds may meet is part of the model: its handler goes on while main waits for the
workers and closes the pools, and a call on a closed pool fails like one on a server that is away. `UsersHavePools` and
`ExitedIsClean` therefore except the `dropped` requests, whose clients get no answer any more, and nobody else: a worker, or
a request that Shutdown still waits for, never meets a closed pool.

## 3. Runs

| run | question | bounds | states |
|---|---|---|---|
| `OutboxRelay_pair` | what do status, attempts and copies mean with two relays, what undoes a mark, does the table show claims and marks only? | 2 relays, 2 rows, 2 attempts, 2 faults | 1,061,164 |
| `RelayBackoff_waits` | does a batch wait for what it is owed, do attempts take time? | 2 relays, 2 rows, 3 attempts, 4 seconds, skew of 1, 1 lost tick | 2,772,125 |
| `WebhookWorker_pair` | can the target see a row twice, how many rows can get lost unseen, is the stream held up? | 2 workers, 2 rows, 3 entries, 3 faults of all kinds | 135,052 |
| `WebhookPipeline_safety` | does the pipeline implement `Notifications`, can an undelivered row be found? | 1 relay, 2 workers, 2 rows, 2 faults | 953,947 |
| `WebhookPipeline_delivery` | which faults does delivery survive, do rows settle for good? | 1 relay, 1 worker, 2 rows, batch 1, 4 attempts, 3 faults | 136,688 |
| `WebhookPipeline_reliable` | is delivery reliable? (violated) | 1 row, 1 failed POST | up to the violation |
| `LocationCheck_atomic` | does a check implement `CheckLedger`, is every request answered? | 3 requests, 2 incidents, 2 connections, 2 faults | 487,374 |
| `IncidentsCache_versions` | can a list be older than an INCR before it, does an outdated one go away? | 2 lists, 2 writers, 2 writes, 1 fault of any kind | 929,674 |
| `Incidents_inputs` | is what is stored valid, do requests undo each other, does the status tell the truth? | 3 requests, 22 bodies, 2 pages, 3 ids, 1 fault | 1,624,485 |
| `Incidents_undescribed` | do checks succeed? (violated) | 2 requests, no fault | up to the violation |
| `Incidents_zero` | is every valid point accepted? (violated) | 2 requests, no fault | up to the violation |
| `Lifecycle_process` | does the process start, tell the truth, and stop cleanly? | 1 request, 2 outages, 2 signals | 220,910 |

Why the bounds are enough to meet the interesting cases: two rows and a batch of one make a row wait for its turn, a batch of
two holds rows of different age; two attempts separate a retried from an exhausted row; one re-send per pipeline makes
duplicates within one claim; two relays or workers make every race on one row; three entries for two rows give one of them a
duplicate, and pipelines with re-sends make more; two connections for three requests make requests wait, and two faults
could leak both. Two faults allow a failure during the recovery from another. In `RelayBackoff_waits` a second is 3 units
and a Duration has 32 values, so the wait of one attempt fits, that of two is cut at `Longest`, and the shift of three
attempts wraps around, as it does at 34 in the code; with two rows of different age and a lost tick each of them
meets the others in one batch. Three requests are a Create and two that race for its row, with patches of disjoint and of
overlapping fields; `Incidents_inputs` has a body for each check that may refuse one, on an Earth of one degree of latitude
and two of longitude and a column that holds numbers up to 2. In `Lifecycle_process` two outages are a server
and another one, a server and a pool, or the same again after it came back, and of two signals the second finds the first taken or still in the channel. One
fault in `IncidentsCache_versions` is any single failure among two concurrent lists and writes; the theorem about
`ListIsFresh` has no such bound. The rest is the business of the proofs.

What the delivery properties leave out is said by their runs. `EveryEntryHandled` starts from an existing group: a worker whose
XGROUP CREATE failed reads nothing until another worker or a restart creates one, and the code does nothing about it.
`UndeliveredStaysPending` and `DispatchedIsTraceable` speak of rows of which the target has processed no POST; one that it
answered with another status than 2xx has been processed. The faults of `WebhookPipeline_delivery` are those of the database
and the relay, failed XACKs, expired keys and replays by the transport; a fault of the group, the read, the SETNX, the POST
or the worker's process may lose the notification, which is the finding below. `UpdatesMerge` is about one statement, which Postgres runs atomically.

`MaxFaults` also bounds what the properties of liveness assume: faults stop at some point. In `WebhookPipeline_delivery`
`MaxAttempts` exceeds `MaxFaults`, since a crash or a failed mark costs an attempt as a failed push does; with fewer, a
row may be dead without ever having been refused by Redis.

**Fairness.** Weak fairness of the code's own steps (`RelayStep`, `WorkerStep`, `CheckStep`, `ListStep`, `Bump`): the loops
run until their context ends, a restarted process runs them again, and each call has a timeout or a deadline after which it
returns. Weak fairness of `BecomeDue` and `Expire`: the clock moves. No fairness of faults, of `Enqueue`, or of new requests.
For the pool weak fairness suffices, because the finitely many requests of a run leave the pool for good one by one.
In `Lifecycle`: weak fairness of main and of `Listen`, and of `WorkerEndsTick` once the workers' context is done, since
everything they then wait for is cancelled or has a timeout, and
strong fairness of `WorkerStops`, since the relay's select may take a tick although its context is done, but Go chooses at
random among the cases that are ready. Nothing is assumed of requests, servers, pools, outages and signals: a health
request may hang through the whole shutdown.

Symmetry is used only in runs without liveness properties. Deadlock is checked in every run; `Idle` in `LocationCheck` and
`Incidents`, `Over` in `Lifecycle`, and the empty ticks of the loops are the places where nothing is left to do.

## 4. Findings

`WebhookPipeline_reliable`: the README of the service says the outbox was built for the reliability of sending webhooks
(`README.md:192`). A single failed or non-2xx POST loses the notification for good: `handle` has set `processed:<id>` before
the POST (`worker.go:106`), the entry is not acknowledged (`worker.go:80-84`), and only `>` is read (`worker.go:65`), so neither
this entry nor a later copy of the row is sent again. `WebhookPipeline_delivery` and `DispatchedIsTraceable` show the other
side: the outbox half does not lose rows, and what was lost can be found in the pending entries.

`Incidents_undescribed`: `FindNearby` scans the nullable column `description` into a `string`
(`internal/platform/db/incidents/incidents.go:221`). An incident without a description is legal (`handlers/incidents.go:55`),
is stored as NULL (`incidents.go:211-216`) and read through `sql.NullString` everywhere else, but every check near it is
answered with 500, where the README documents 200 with the incidents nearby (`README.md:30-41`).

`Incidents_zero`: `binding:"required"` on a number refuses its zero value (`handlers/incidents.go:25-26`), so a point on the
equator or on the Greenwich meridian is answered with 400 although `point.go:14` and `point.go:17` ask for no more than
-90 to 90 and -180 to 180.

Two kinds of faults limit the strongest properties, and TLC finds the counterexample when they do not:

* a SETNX of the dedupe key that is re-sent by the client after a lost reply (`resend`) passes for a duplicate, and its
  entry is acknowledged unsent. It is excluded from the run and the theorems of `UndeliveredStaysPending` and
  `DispatchedIsTraceable`; `VanishedNeedFaults`, which is checked with it, says that it costs one row at a time;
* a request that cannot read the cache version uses the key `v0`, which no INCR invalidates, and one whose SETNX of the
  version failed uses `v1`, which the INCR of the next write makes current. The faults are in the run and in the theorem;
  `ListIsFresh` exempts requests under these two versions, and says that no other is affected.

`OrphanStaysUp` states what the code does when the HTTP server fails: nothing cancels the workers (`main.go:153-155`), so
`g.Wait` waits for ever and a signal finds nobody to take it. No text of the repository says otherwise, so it is a property
and not a finding. Besides, a normal stop always logs "workers failed to stop gracefully" (`main.go:173`), because `Run`
returns its context's error; that is wording, and not modelled.

## 5. Proofs

All theorems hold for every value of the constants that satisfies the modules' named assumptions.

| theorem | module | rests on |
|---|---|---|
| `TypeCorrect`, `TypeOKHolds` | all seven component modules | the type invariant is inductive |
| `DispatchedIsPublishedHolds`, `DeadOnlyWhenExhaustedHolds`, `DistinctAttemptsHolds` | `OutboxRelayProofs` | `RelayInv` |
| `CopiesBoundedHolds` | `OutboxRelayProofs` | `CopiesInv` |
| `DuplicatesNeedFaultOrRaceHolds`, `DeathNeedsFaults` (finitely many relays) | `OutboxRelayProofs` | `RaceInv` |
| `UndoingTakesRaceAndFaultHolds` | `OutboxRelayProofs` | `RelayInv`, `Unbroken`, `HeldWasRaced` |
| `ClaimsAreCountedHolds`: implements `OutboxTable` | `OutboxRelayProofs` | `TableInv` |
| `TerminalIsFinalHolds` (one relay) | `OutboxRelayProofs`, `WebhookPipelineProofs` | `RelayInv`, `HeldPending` |
| `AttemptsTakeTimeHolds`, `BackoffInvHolds` | `RelayBackoffProofs` | `BackoffInv` |
| `WaitIsOwedHolds` | `RelayBackoffProofs` | the type invariant, `Pow2Def`, `Pow2Grows` |
| `LostTicksOnlyCost`, `DeathTakesTimeHolds` (one relay) | `RelayBackoffProofs` | `AloneInv`, `CostInv`, `BackoffInv` |
| `ClaimsAreCountedHolds`: implements `OutboxTable` | `RelayBackoffProofs` | the type invariant |
| `AtMostOncePerKeyHolds`, `OneSenderPerRowHolds`, `AckedIsProcessedHolds` | `WebhookWorkerProofs` | `WorkerInv` |
| `UndeliveredStaysPendingHolds` (no re-sent SETNX) | `WebhookWorkerProofs`, `WebhookPipelineProofs` | `WitnessInv({})` |
| `VanishedNeedFaultsHolds` | `WebhookWorkerProofs` | `FewExcused` |
| `PipelineImplementsNotifications` | `WebhookPipelineProofs` | `PipelineInv` |
| `DispatchedIsTraceableHolds` (no re-sent SETNX) | `WebhookPipelineProofs` | `TraceInv({})` |
| `LossNeedsFaultsHolds` | `WebhookPipelineProofs` | `PipelineInv`, `FewExcused` |
| `EventsMatchChecksHolds`, `OkIsRecordedHolds` | `LocationCheckProofs` | `CheckInv` |
| `ChecksAreWholeHolds` | `LocationCheckProofs` | `LedgerInv` |
| `ListIsFreshHolds`, `QuietCacheIsCurrentHolds` | `IncidentsCacheProofs` | `CacheInv` |
| `StoredIsValidHolds`, `OneDeactivationHolds`, `AnswerTellsTheEffectHolds` | `IncidentsProofs` | `IncidentsInv` |
| `UpdatesMergeHolds`, `InternalHasACauseHolds` | `IncidentsProofs` | `IncidentsInv` |
| `LifecycleInvHolds`, `UsersHavePoolsHolds`, `ExitedIsCleanHolds`, `HealthIsHonestHolds`, `OrphanStaysUpHolds` | `LifecycleProofs` | `LifecycleInv` |
| `ExitNeedsSignalHolds` | `LifecycleProofs` | `SignalInv` |

Why the invariants are stronger than the properties:

* `RelayInv`. "Dispatched means published" depends on what a relay knows about its batch: `PushedSoFar` says that without a
  push error all commands up to `sent` are in the stream, since a re-send only repeats them; `CarriesAttempts` bounds the
  attempts in a batch by the column, also after another relay has claimed the row; `LocksDisjoint` is what the row locks
  buy, and distinct attempt numbers follow from it.
* `UndoingTakesRaceAndFault` needs two more. `HeldWasRaced`: a row that was settled while another relay still holds it has
  been claimed by both, under different numbers, so the column says 2 at least; an open claim does not come into it, since
  its locks keep every mark away. `Unbroken`: before the first fault no pipeline has an error and no row is dead, so every
  mark says dispatched. With one relay `HeldPending` says that nothing is undone at all.
* `CopiesInv` counts. A claim buys tickets for each row it returns, one per pipeline the client may send; an XADD uses one
  up. `PaidFor` says that the entries of a row and the tickets still out are no more than its attempts pay for; a crash or
  a failed mark only loses tickets, and another relay has bought its own.
* `RaceInv` counts rights instead: a relay may publish a row that it holds unsent, or one that it could still claim. Each
  XADD uses up a right that a step without a fault does not give back, since a relay then marks what it published; a fault
  gives each relay at most one more (`Covered`). Hence a row has at most `Cardinality(Relays) * (1 + faults)` entries. The
  same count over claims bounds `attempts`, and `DeathNeedsFaults` follows: no row is given up without faults behind it
  once `MaxAttempts` exceeds the number of relays.
* `TableInv` adds what the refinement needs and `RelayInv` does not say: while a claim is open its rows are pending, because
  their locks keep every mark away, and they are no more than a batch (`ClaimInv`, with `FirstAreFew`: no two rows have the
  same number of claimable rows before them, so the first `BatchSize` are that many at most). An attempt is counted at
  `ClaimCommit`, or at a `ClaimFail` that took effect, and both are the `Claim` of the table, the latter without a holder.
* `BackoffInv` ties the column to the history: between a relay's n failures of a row there were n - 1 waits, so both the
  current time, while the row is claimed, and `next_attempt_at`, while it is pending, are that far from the first failure,
  for every relay, although only one of them wrote the column. That the wait is never shorter than two seconds needs
  nothing of the shift, however far it overflows: it is the first comparison of `backoff`.
* `WaitIsOwed` is about the value of the shift. `Pow2` is a recursive function; that it exists, is positive and grows is
  proved by induction on sets of numbers (`SetInduction`, from the well-foundedness of the naturals), which needs no
  operator as a parameter. The youngest row of a batch with a retried row has fewer than `MaxAttempts` attempts, and up to
  there the shift does not wrap around (`ShiftFits`), whatever the attempts of the others. `AloneInv` and `CostInv` count
  for a single relay what attempts are made of: failures that were marked, lost ticks, and the claim that is open.
* `WorkerInv`. A sender owns its row's key (`SenderHasKey`), an entry has one holder, and the target's count is tied to the
  key. `WitnessInv(S)` adds that every taken key of an undelivered row outside S has a pending entry
  that took it, and no one is about to acknowledge it. With S empty it is what can be said when no SETNX is re-sent; in
  general a re-sent SETNX puts its row into S and nothing else does, so there is an S with one row per fault at most
  (`FewExcused`), and the rows that have vanished are in it.
* `PipelineInv` is the conjunction of the two components' invariants and `OnlyCommitted`; each component's steps are the
  environment of the other, which is why the worker's lemmas are stated for `Step`, its own actions or any append.
* `CheckInv` says what an open transaction has inserted at each point, and that a check that is not done has left nothing.
  `LedgerInv` adds that no request has found an incident that was inactive when it began to look; the refinement is then a
  case per action, where only the commit, reported or not, changes the ledger.
* `CacheInv` says that an entry under version v is at least as new as `shown[v]`, because its request read the version
  before it loaded the list, and that a request's key is at least as new as its arrival. The first part
  gives `QuietCacheIsCurrent` after any number of failures: once an INCR has made the latest state known, no older entry can
  be under the version in force. Its second part needs that without faults no INCR is missing.
* `IncidentsInv` is the conjunction of the state properties: `OneDeactivation` needs the row of an answered Deactivate to
  stay inactive, which holds because no statement sets `active`. The work is in two lemmas: `SetListReads` says which
  argument each column of the SET list reads, whatever fields precede it, and `AssignIsMerge` that the statement therefore
  merges the body into the row.
* `LifecycleInv` says for each phase of main which pools are open, what the workers do and which requests may be active
  (`Phases`): from the end of `Shutdown` on only dropped ones, which the proof follows to the exit. `Honest` says that what
  a StatusCheck or a ping found is among what has been seen, a wait included, since a call that is late has waited for
  something. `ExitedIsClean` is the end of a chain: the pools close after `g.Wait`, which waits for the workers, after
  `Shutdown`, which waits for the requests or gives them up. `SignalInv` follows the signal from the channel to the cancelled context: main goes on to close its pools
  only after the workers have stopped, they stop only when cancelled, and only a signal cancels them.

Only model-checked: everything about liveness (`EventuallySettled`, `EveryEntryHandled`, `EventuallyDelivered`,
`EveryRequestAnswered`, `EventuallyCurrent`, `SignalStops`, `StartEnds`), which is out of this prover's reach, as are
`ENABLED` and fairness. Every invariant and every action property of the passing runs is proved.

Only proved: the type invariants of `RelayBackoff` and `Lifecycle`; `DeadOnlyWhenExhausted`, which `ClaimsAreCounted` says
more of; `AckedIsProcessed`, which is part of `WorkerInv`; `TerminalIsFinal`, the case of one relay; and the bounds
`DeathNeedsFaults`, `LostTicksOnlyCost`, `DeathTakesTime`, `LossNeedsFaults` and `ExitNeedsSignal`. TLC found no
counterexample to the last three in the constants of the runs, with one relay for `DeathTakesTime`, and found
`VanishedNeedFaults` and `LossNeedsFaults` tight: as many rows are lost as there are faults. `RelayBackoff`'s
`ClaimsAreCounted` was checked there as well; it doubles the time of `RelayBackoff_waits`, so that run leaves it to the proof.

## 6. Not modelled

* The logger formats records and the configuration reads environment variables once; nothing depends on them but the values
  that appear here as bounds.
* Request ids, the access log and the recovery middleware serve one request each and share no state. A panic inside a
  transaction is a fault of `LocationCheck`.
* JSON encoding of answers, payloads and cached lists: contents are abstract values, and what the code encodes it decodes
  with the same types.
* Distances. PostGIS computes them, and no property depends on how.
* The texts and field names of error messages, and SQLSTATE codes that no statement of the service can raise.
* Growth. The stream, the pending entries and the terminal rows of the outbox are never removed by the code; the models
  bound them, and nothing in the repository promises otherwise.
* A check with no limit asks for LIMIT 0 and finds nothing. The models contain it; no text says what was meant.
* One module over everything, from the check to the target: the commit of `LocationCheck` is an `Enqueue` of `OutboxRelay`,
  and since neither reads the other's state, their composition has no behaviour that the two do not show.
