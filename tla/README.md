# Verification of the trading intelligence platform

TLA+ models of the parts of this repository where several processes change the
same rows: the job queue and its worker, the equity data operations on top of
it, the reasoning action items with their own lease-based runner, the live
market feeds, the scheduled market scans, and the bulk ingestion of candles by
imports and polls. TLC checks each model on small instances; TLAPS proves safety
properties of all six for any number of jobs, operations, items, subscriptions,
configs, requests and workers.

## 1. Inventory

The system is a FastAPI application over PostgreSQL (`apps/api`), Python worker
processes, a Go sidecar that ingests market data (`apps/go/market-worker`) and
a Next.js front end (`apps/web`). All coordination goes through the database:
processes share no memory and send each other no messages. A transaction under
READ COMMITTED is the unit of atomicity, `SELECT ... FOR UPDATE SKIP LOCKED`
hands out work, and a `locked_by`/`locked_until` pair protects it afterwards.

Two traits of the sessions shape every component. `expire_on_commit=False`
(`app/db/session.py`) and the identity map keep an object as it was loaded,
however long ago. And an UPDATE by the ORM writes only the columns whose value
differs from the loaded one, so a stale session overwrites some columns of a row
and leaves others as they have become.

| Component | State | Operations | Interacts with | What is hard | What makes it correct |
| --- | --- | --- | --- | --- | --- |
| Job queue (`job_queue`) | `job_queue_items`: status, attempts, lock, available_at, priority | enqueue, claim, start, complete, fail, retry, cancel, dead-letter | workers claim, handlers run, other modules enqueue and cancel | locks that expire under a running handler, stale outcomes, runs that escape the gather, crashes, cancellation in a race | one run at a time; attempts are counted exactly; a dead letter means no attempts left; backoff is kept; a lost claim is taken again |
| Equity operations (`equity_data/operations.py`) | `equity_data_operations`: status, key, linked job | submit, execute in the request or by a job, cancel, retry | enqueues, links and cancels jobs; its handler runs in the job's session | check-then-create on the key, two rows cancelled together, cooperative cancellation against stale copies | one operation per key; operation and job agree; a cancellation stops the work |
| Reasoning action items (`action_plans`) | `reasoning_action_items`: status, attempts, lease, due_at | plan, mark due, claim, execute, execute by hand | replays, outcome evaluation and correlation, whose commits end the item's transaction | marking from a stale read, two protocols (leased and manual) on one row, commits in the middle of a run | one worker per item; replays happen once; nothing is left running without a lease |
| Live feeds (`live`, candle upsert) | `live_feed_subscriptions`: status, worker, lease; the candle being built | poll, acquire, stream, ingest, reconnect, refresh, release; start, pause, stop, PATCH; stale sweep | operators, the stale monitor and workers write the same row; ingestion writes candles | leases cleared under a running stream, stale copies of row and candle, insert races, crashes | one worker per lease; a final candle is final; a stop ends the streams; an active subscription is streamed |
| Notifications, webhook outbox | deliveries and attempts | enqueue, claim, deliver, retry | external endpoints | duplicate or lost deliveries | at least once, bounded attempts |
| Market scans (`market_scans`) | `scheduled_scan_configs`: status, next_run_at; `scheduled_scan_runs`: occurrence, status | poll, run a config by schedule or by force, scan each target, finish and advance; create, pause, resume, archive, PATCH | the scheduler, run-due requests and the daily workflow run the same configs; each analysis commits the run's session | batches of stale copies, rows that appear with an inner commit, rollbacks that end the batch, crashes between commits, check-then-create | one run per occurrence; no occurrence is used up without a record; a pause holds; what is due is served |
| Bulk ingestion (`imports`, `provider_polling`, `candle_ingestion_performance`) | candles of a series; a request's rows, chunk, staged writes and counters | import a file, poll a provider; read, decide and write each chunk; finish | requests on one series share its candles; nothing locks what was read | two statements of one rule set, merged writes, stale reads, insert races, deadlocks | the bulk path does what row-by-row upserts would; a final candle is final; completed means stored |
| Engine executions | execution records | submit, claim, finish | Go worker | leases | one executor at a time |
| Runtime supervisor | worker heartbeats | beat, inspect | all workers | staleness thresholds | no live worker is called dead |
| Authentication | sessions, lockout counters | login, refresh, revoke | every request | concurrent refresh, counters | a revoked session stays revoked |
| Gap recovery, backfill, aggregation, retention | plans, aggregates | detect, plan, aggregate, delete | analysis | boundaries, duplicates | aggregation is exact |
| State machines | transition tables | validate | artifacts | | terminal states are terminal |
| Analysis, signals, outcomes, views | result rows | compute, store, read | | floating-point arithmetic, no shared state | not modelled |
| Web, scripts, migrations | | | | | not modelled |

`PROJECT.json` lists all of them with their sources, and every hazard met so far
at its line.

## 2. Plan

Order of work, most important first.

1. `JobQueue` with `ExclusiveService` as the abstract specification, and
   `JobQueueProofs`. **Done.**
2. `EquityOperations`, which EXTENDS `JobQueue` and composes the operations with
   the queue that runs them, with `EquityProofs`. **Done.**
3. `ActionItems`, which implements the same `ExclusiveService`, with
   `ActionItemsProofs`. **Done.**
4. `LiveFeed` with `LiveFeedProofs`. **Done**, for refreshes that come in time.
5. `MarketScans` with `MarketScansProofs`. **Done.**
6. `CandleBatches` with `CandleBatchesProofs`. **Done.**
7. For each race that breaks a promise, a theorem that nothing else breaks it; for
   each state the code never leaves, a theorem that it is for good. **Done.**

Two modules that were planned first turned out to have little to say. Deliveries:
a notification is claimed, sent and settled in one transaction under its row lock,
and nothing delivers the webhook outbox. State machines: tables that requests may
query and no other module consults. What would come next are the lockout counters
of `auth` and feeds whose refreshes are late.

Everything that could be proved about avoids RECURSIVE operators; parameters are
CONSTANTS with a named assumption in the module that declares them.

## 3. Modules

### ExclusiveService

What a leased work table promises, whatever its statuses and locks: an item has
at most one server, and taking it uses up one try out of a fixed number. Several
items may be taken by one transaction, or left by one crash, so a step is a
conjunction over the items.

### JobQueue

`job` holds the committed rows. Every claim increments `attempts`, so the n-th
claim of j is named `<<j, n>>`, and `run[j][n]` is the dispatcher task that
serves it: `claimed`, `checked` (start_job has looked at the lock), `handling`
(the handler runs), `ended`. `run[j][n].seen` is the copy of the row the session
holds, `pin` whether it has an uncommitted event row, whose foreign key keeps
`SKIP LOCKED` away from the job. `awaited[w]` is the batch w's gather waits for;
`up` the workers alive; `cancelling[j]` what a cancel request has read.

Every transaction is one action. `ClaimJobs` is a poll; `StartCheck`,
`StartRefused` and `StartRefresh` are `start_job`; `HandlerCommit` the handler's
first commit; `HandlerReturns`, `HandlerRaises` and `NoHandler` the rest of
`dispatch_job`, with `CompleteJob`, `FailJob`, `RetryJob` and `MoveToDeadLetter`
for the service methods, early returns included. `Write` is the ORM's UPDATE:
only columns that differ from the copy. `Abort` is a database error that leaves
`dispatch_job`: the gather ends, the other runs go on, and the worker polls
again. `Crash` is the end of a process; its runs vanish, its rows stay.

Time is a countdown in each row, moved by `Tick`. `TimelyTick` does not pass while
a run would outlive its lock: nothing renews a lock (`heartbeat` has no caller),
so exclusion holds only for handlers that finish within `JOB_QUEUE_LOCK_SECONDS`,
and `TimelySpec` says so. `Spec` has no such restriction.

### EquityOperations

Operation o and the job whose payload names it share the name o. `request[o]` is
the submission between its key lookup and its insert, `exec[o]` the executor with
the copy it last refreshed, `stopping[o]` a cancel request that has read the
operation and perhaps the job. The job's actions are JobQueue's own: submitting
is `EnqueueJob`, starting `StartCheck`/`StartRefresh`, the operation's first commit
is the queue's `HandlerCommit`, cancelling `CancelRead`/`CancelWrite`. These jobs
have one attempt, and an expired lock cannot bring them back, so time does not
pass in this module. An executor that has answered keeps only what it answered
with, and one that has died nothing. `late` is a history variable: items stored while the
operation stood cancelled.

The payload of a job passes through `safe_reference`, which keeps it up to
`MAX_REFERENCE_TEXT_LENGTH` characters and otherwise stores only its keys and its
length. `op[o].cut` says that this happened; how long a payload is is left open, so
`QueueSubmit` chooses. The handler of a whole payload goes on to `ExecLoad`. The
handler of a cut one raises before it has an operation to fail (`PayloadRefused`,
which is the queue's `HandlerRaises`), and the dispatcher dead-letters the job. A
request that executes its operation itself passes the payload on as it is. A retry
of a source whose request cannot be recovered is refused and changes nothing; the
model lets it go on, which adds only submissions.

### ActionItems

`poll[m]` is a worker, an execute-due request or a mark-due request between
reading and writing; `run[a][i]` is `execute_item` of item i by actor a, with the
copy it decides on. A manual run's `running` is flushed but not committed until a
replay, evaluation or correlation commits: `holds` says the row is locked and its
change invisible. The actions follow `execute_item` branch by branch: `GiveUp`,
`AwaitReview`, `Evaluate`, `KeepWaiting`, `WaitOver`, `LookForReplay`,
`SkipReplay`, `Replay`, `Complete`, `Fail`. `Abort` is an exception that leaves
`execute_item`, in particular the one its own except branch meets on a row that
a rollback has expired.

### LiveFeed

`row` holds the subscriptions, all feeding one series, and `candle` the one candle
of it that is kept: its values are one datum, because the code compares and
writes them together. `feed[i][s]` is what ingester i is at for subscription s.
Ingesters are the workers, whose asyncio task it is, and `Posters`, the requests
that post a message (`POST /live/subscriptions/{id}/events`). Its phases are
`open` (connecting), `streaming`, `loaded` (the message's
transaction has read the row), `upsert` (it holds the row lock and has read the
candle), `check` (looking whether to stop), `failing` and `marking` (`mark_failed`
before and after its read), `closing` (about to release). `call[s]` is an
operator's command between its read and its write, `sweep` what the stale monitor
has read.

The three parts of `ingest_provider_message` are `Loads` (in `Receive`, from a
stream, and in `Post`, from a request), `Begin` and `Upsert`. A posted message needs
no lease, no worker and no active status: it takes the row lock like any other,
makes a stale subscription active, and fails one by its error. After its message a
task looks whether to stop and a request answers (`Goes`); a request may be lost at
any point before its commit (`PostDropped`).
The subscription's row is locked from the flush in `create_received_event` to the
commit (`RowFree`), and every other write of the row waits for it; the candle is
not locked. `Decided` and `Written` are the ORM's UPDATE of a status: which
columns are written is settled when the row is read. Error messages stand for
everything that fails an event. A worker that restarts has a new name
(`live-worker-<uuid>`), so a dead one stays dead.

`cleared` is a history variable: the tasks whose lease a change of status took
away while they ran. Ticks are timely in `Spec`: `refresh_lease_loop` renews every
third of the lease, so that a lease does not lapse under the task that holds it.

### MarketScans

`config` and `rows` are the committed config and run rows, `exec[e]` what executor
e is at: a poller (the scheduler's process or a run-due request) or a request
that runs one config by force. Its `tasks` are the copies it loaded when it listed
the due configs: the identity map hands the same objects to `run_scan_config`, so
`active` and `occurrence` are as old as the poll.

`run_scan_config` is followed statement by statement: `LookForRunning` and
`LookForOccurrence` are its two queries, `PassTarget` and `AnalyseTarget` what
`process_target` does with a target, `SkipRun` and `CompleteRun` the ways to the
last commit (`FinishRun`), which records the outcome and advances the schedule.
A run row is inserted without a commit; `row` is 0 until it is visible, which it
becomes with the first analysis, whose service commits the shared session.
`Escape` is a crash, and also an analysis that rolls the session back: the except
branches then touch expired objects and raise, so the exception leaves the poll.

`edits` and `faults` count what operators and faults did, to bound both.

### CandleBatches

`candle` holds the committed candles of a series, by time. `batch[b]` is a request
between its start and its end: its rows, where its chunk begins and ends, the next
row, the times of the rows taken and how many rows were dropped. `plan[b]` is
what `apply_candidates` keeps in memory: the virtual state and the two
dictionaries of staged writes. `own[b]` are the candles it has written and not
committed; they are locked, and others wait for them (`RowFree`). `read` and
`shared` are history variables: each candle as it was committed when the batch
last read it, and what `CandleRepository.upsert_normalized_candle`, which stores a
row at a time, would have made of it since.

`ReadChunk` is the one query of a chunk, `DropRow`, `StageInsert` and `StageUpdate`
the branches of its loop, `InsertRow` and `UpdateRow` the statements, each when its
candle is free, in the order in which the dictionaries keep them. `Commit` writes
everything together with the final status. `InsertRefused` is the unique constraint;
`Abort` any other end, which includes the row limit of a stream and the victim the
database picks when requests wait for each other in a circle. The next request
starts from what is stored.

## 4. What is checked

| Run | Instance | Shows |
| --- | --- | --- |
| `jobqueue_timely` | two jobs, one without a handler, 2 workers, 2 attempts, batches of 2 | types; exclusive runs; attempts equal claims; dead letters are exhausted; backoff honoured; a job cancelled while idle stays so; terminal statuses change only to or from cancelled; the queue implements `ExclusiveService` |
| `jobqueue_fair` | one job, 2 workers, 3 attempts | a job settles while a worker is alive unless its last attempt is lost; a lost claim is retaken |
| `equity_safety` | two operations, one key or none, 2 items | completed jobs have an outcome; pending operations have a live job, or a dead-lettered one for a payload that was cut; work stops within an item of a cancellation; only an executor already at work writes over a cancellation; a queued operation gets an outcome unless its payload was cut, its only run is lost or no worker is left |
| `equity_one_per_key` | two submissions of a key | finding: two operations of one key |
| `actions_leased` | two items, a worker and an execute-due request | one executor per item though marking disturbs statuses; a replay happens once through crashes; running items carry a lease; failure means exhaustion; implements `ExclusiveService` |
| `actions_manual` | one item of any kind, a worker, a mark-due request, two manual requests, leases may expire | types and the attempts limit; completion only of what was done |
| `actions_marked` | one item, two workers | finding: a completed item becomes due again |
| `actions_waiting` | one outcome item, no faults | finding: waiting uses up the attempts |
| `live_streams` | one subscription, 2 workers, a partial and a final candle, no posts, stop by the route and by a PATCH, resume, leases of 2 | types; tasks overlap only over a cleared lease; a final candle of a single feed never changes; a stop ends the streams; an active subscription is streamed while a worker is left |
| `live_candles` | two subscriptions of one series, 1 worker that streams a partial and a final candle, 1 request at a time that posts another final, heartbeats and errors, no commands, leases of 1 | what rewrites a final candle, and that it stays final |
| `scans_safety` | two configs of one target, both new or one new and one paused without a time, 1 poller with batches of 1, 1 forced run, 1 operator change, 1 fault, times 0 and 1 | types; one run per occurrence; an abandoned run stops its config for good; the schedule moves only with a record; a pause holds; a due config is served unless it is stuck or stuck configs fill the batch |
| `candle_batches` | two requests on one series, imports or polls, files of 5 kinds and answers of 7, up to three rows, chunks of 2, 3 times, 2 values | types; after each chunk the written candles are what row-by-row upserts give; only a poll that read a candle as partial rewrites a final one; completed means that every row is stored |

Bounds. Two workers are enough for every race of claims, a third only repeats
the second's role; two jobs are needed for batches and for runs that survive an
aborted gather. Two attempts give every row a first claim, a retry and a last
claim; the liveness run has three so that a middle one exists. Locks of two ticks
let a run see its lock half gone. `MaxAttempts` bounds attempts as the code does;
countdowns are bounded by their initial values. No state constraint is used: the
reachable graphs are finite and complete.

For the feeds, two workers are needed for takeover and overlap, and two
subscriptions for two transactions on one candle; two candle values tell a
conflict from a duplicate. The second run leaves out what the first has checked:
one worker runs both tasks at once, as the code's event loop does. Messages are
posted in the second run only: with them the graph of the first has millions of
states, too many for its liveness properties, so `StopEndsStreams` and
`ActiveIsStreamed` are checked for subscriptions that only workers feed. The safety
theorems of section 5 are about any number of requests. The first run has one final
value, so a conflict of two finals occurs in the second only.

For the scans, two configs and a batch of one let one config keep another waiting;
one forced run beside the poller gives every overlap, one change by an operator
every stale copy, and one fault an abandoned run at each point. Two instants
suffice because only the order of a due time and the clock is looked at.

For candle batches, two requests give every pair of a stale read and a commit, and
wait for each other in a circle when their rows are in opposite orders. Three rows
in chunks of two make a time appear twice in one chunk and in two; the lists in
`MCCandleBatches` have each of these, a gap, an invalid row and no rows. A third
time is needed for a gap only.

What these instances do not reach: the clock of `scans_safety` stops at its horizon,
so a poller overloaded by due times that come again and again is not exercised by
`DueIsServed`. The batches of the queue and of the scans are limited in the model as
in the code; the candidates of a live poll are not, see section 7.

Every property has a mutant of the code it guards, written beside the definition
(`Claimable_IgnoresLock`, `Write_AllColumns`, ...); the run fails on it.

Deadlock checking is off for `EquityOperations`, where two operations that have
been answered and executed leave nothing to do and time does not pass, and for
`MarketScans`, where the clock stops at its bound.

### Fairness

`jobqueue_fair`: `run_forever` polls in a loop that catches every exception, hence
weak fairness of each worker's claim; the event loop runs each task to its end
and handlers are assumed to return, hence of each run's steps; a request that has
read its row goes on; time passes. Crashes and aborts get no fairness and may
happen at any point; the properties say `[](up # {})`, that a worker stays alive.
`equity_safety` has the queue's fairness, and an executor and a cancel request in
flight go on; crashes and aborts stay possible at any point without fairness.
`actions_waiting` drops the faults and assumes that candles arrive, which makes
its counterexample stronger.

`live_streams`: workers poll, refresh, and carry on with what their tasks have
begun; begun commands and sweeps end; time passes (all weak fairness). Receiving
has strong fairness: the provider delivers again on a stream that is lost and
reopened again and again. `StopEndsStreams` needs that, because the code looks at
the status only after a message. A posted message that was begun ends.
Lost streams, posts, commands, sweeps, crashes and
shutdowns have no fairness.

`scans_safety`: each poller polls and goes on with what it has begun, because
`run_forever` catches what leaves a poll; a forced run in flight goes on. Operators
and faults have no fairness. A poller that dies is taken to be restarted.

## 5. What is proved

Four kinds of results. Invariants and action properties that a run checks, for every
value of the constants. Theorems of the form `Spec /\ []Q => ...`, where Q says that
a certain pair of steps of two actors never crosses: they show which race breaks a
promise, and that no other interleaving, crash or stale copy does. Where Q is implied
by an assumption on the constants (one subscription, one executor, one marking
process), a corollary says so. Theorems that a state is left only in a named way
(`LostStays`, `OrphansStay`, `StrandedStays`, `UnservedStays`): they turn the escape
clauses of the liveness properties into facts about the code. And refinements: of
`ExclusiveService`, and of the queue by the operations on top of it.

Properties named only in a theorem's row (without a run in section 4) are defined
with the others at the end of their module; no listed run checks them again.

`JobQueueProofs` proves, for all values of the constants allowed by
`ConstantsAssumption`:

| Theorem | Property |
| --- | --- |
| `TypeCorrect` | `TypeOK` |
| `AttemptsCorrect` | `AttemptsCountClaims` |
| `DeadLetterCorrect` | `DeadLetterMeansExhausted` |
| `CancelledIdleCorrect` | `CancelledIdleStays` |
| `RewriteCorrect` | `OnlyCancelRacesRewrite`, for `TimelySpec` |
| `LostForGood` | `LostStays` |
| `SettledForGood` | `SettledStays`, for `TimelySpec` with `[]NoneCancelling` |
| `ExclusionCorrect` | `ExclusiveRuns`, for `TimelySpec` |
| `BackoffCorrect` | `BackoffHonoured`, for `TimelySpec` |
| `ServiceImplemented` | `ImplementsService`, for `TimelySpec` |

The argument has two inductive invariants. `Bookkeeping` holds of `Spec`. It adds to
the types that an unclaimed row has no run, that a copy's attempts never exceed
the row's (a stale outcome then dead-letters only what is exhausted) and that a
cancel request has read a row that was open. `Leased` holds of `TimelySpec`. It says
that an active run is the latest claim's, that the row's lock lasts at least as
long as the run's lease, and what status the row may have while a run is active:
running, or cancelled. Without it exclusion is not inductive: a second claim is
impossible only because the row of an active run is still locked.

Lemmas about `Write`, `CompleteJob`, `FailJob`, `RetryJob` and `HandlerRaised` state
once what an outcome may do to a row; the step lemmas cite them.

`LostStays` is the escape clause of `SettlesUnlessLost`: a lost row is not claimable
because its attempts are spent, nothing runs that could write it, and so only a
cancellation changes it (`StatusChange`, `StepOfJob`, `LimitStays`). `SettledStays`
follows from `RewriteCorrect` once no row can be cancelled (`NeverCancelledStep`).

`EquityProofs` builds on it and proves, for `OpSpec` with its crashes and aborts and
all values of the constants allowed by both modules' assumptions:

| Theorem | Property |
| --- | --- |
| `OperationTypes` | `OpTypeOK` |
| `OutcomeBeforeCompletion` | `CompletedJobHasOutcome` |
| `PendingNeverLost` | `PendingHasLiveJob` |
| `CancellationStops` | `StopsWithinOneItem` |
| `CancelledRewrites` | `OnlyRacesRewriteCancelled` |
| `QueueRefined` | `TimelySpec` of the queue |
| `OperationsServed` | `ImplementsService` |
| `OutcomeRewrites` | `OutcomesStand` |
| `SerialKeysAreUnique` | `OneOperationPerKey`, with `[]OneSubmissionPerKey` |
| `SerialPendingLives` | `PendingOwnsLiveJob`, with `[]OneSubmissionPerKey` |
| `CutPayloadNeverRuns` | `CutNeverRuns` |
| `OrphanedForGood` | `OrphansStay` |
| `CancelledForGood` | `StoppedStays` |

A step of the operations is a step of the queue or leaves it alone, so the queue's
`Bookkeeping` comes for free, and the operations' invariant `OpInv` adds what ties
the two together: which job a submission, an executor and a cancel request have
linked, read or locked (`Linked`), that a handler about to return has committed
an outcome (`Outcome`), that an executor which has looked since the cancellation
has nothing more to store (`Counted`), and that a pending operation's job can
still be claimed or is being started. `PendingHasLiveJob` is what fails first if
cancelling writes one row without the other. Its exception, a job dead-lettered for
a cut payload, is the only one: `HandlerRaises` is reached through `PayloadRefused`
alone, because `execute_operation` turns every exception of its own into an outcome.
`CutNeverRuns` follows because an executor leaves `none` by `ExecLoad` only, which
needs a whole payload (`CutStep`, `CopiesCount` for the copies of a queue's row).

`QueueRefined` says the same of whole behaviours: each step of the operations is a
step or a stutter of the queue, so every theorem of the queue under its locks holds
of the composition, exclusive service included. `OutcomesStand` needs one more
invariant, that an executor which may still write has an operation without an
outcome, or a cancelled one (`AtWork`). For the keys, `KeysKept` says that a
submission past its lookup still finds its key free; two of one key would break it,
and `OneSubmissionPerKey` excludes just that. `PendingOwnsLiveJob` is
`PendingHasLiveJob` without its escape: it fails only for a second operation that
the race has linked to the first one's job. Such an operation, one whose payload
was refused, and one whose executor was lost in a crash or an abort, is an orphan, and orphans stay until they
are cancelled. A cancelled operation whose executor has stopped stays cancelled:
the rewrites that `OnlyRacesRewriteCancelled` allows happen before that.

`ActionItemsProofs` proves, for all values of the constants allowed by
`ActionItemsAssumption`:

| Theorem | Property |
| --- | --- |
| `TypesHold` | `TypeOK` |
| `CompletionCorrect` | `CompletedMeansDone` |
| `ExclusionCorrect` | `ExclusiveRuns`, for `LeasedSpec` |
| `MarkingReopens` | `OnlyMarkingReopens`, for `LeasedSpec` |
| `CompletedStaysAlone` | `CompletedStays`, for `LeasedSpec` with one process that marks or claims |
| `StrandedForGood` | `StrandedStays` |
| `ReplayCorrect` | `ReplayedOnce`, for `LeasedSpec` |
| `LeaseCorrect` | `RunningIsLeased`, for `LeasedSpec` |
| `FailureCorrect` | `FailedMeansExhausted`, for `LeasedSpec` |
| `ServiceImplemented` | `ImplementsService`, for `LeasedSpec` |

Two invariants again. `Bookkeeping` holds of `Spec`, manual executions and expired
leases included: a run is on an existing item, a run about to complete has its
kind's evidence, and so has a completed row. It is inductive because no step
takes evidence away (`Grows`). `UnderLeases` holds of `LeasedSpec`: a worker's run
owns its row (`Owns`), that is, the row's lease is its own and lasts at least as
long as the run, and the copy it decides on is current but for a status that
marking has turned to due. That the copy is current is what makes its verdicts
right: attempts are exhausted in the copy exactly if they are in the row, and
the row looked at before a replay is still without one when it is stored. The
lemmas named `...Effect` say what each kind of commit writes; the step lemmas
of both invariants cite them.

The run `actions_marked` shows that a completed item may become due again.
`MarkingReopens` shows that nothing but the marking does that: a run owns its row
and its copy, so it never writes over an outcome, and a claim takes no closed item.
With a single process that both marks and claims, the items it has read stay
pending until it writes them (`MarksPending`), hence `CompletedStaysAlone`. A manual
run is outside the leases; what it leaves when it dies is `Stranded`, and all the
code that could take it up looks for a lease or a status it does not have.

`LiveFeedProofs` proves, for all values of the constants allowed by
`LiveFeedAssumption`:

| Theorem | Property |
| --- | --- |
| `TypeCorrect` | `TypeOK` |
| `OverlapCorrect` | `OneUnclearedStream` |
| `StaleRewriteCorrect` | `OnlyStaleReadsRewrite` |
| `FinalCorrect` | `FinalNeverReopens` |
| `FinalKeptUnlessOverlap` | `FinalCandleKept`, with `[]OneUpserts` |
| `FinalKeptAlone` | `FinalCandleKept`, with one subscription |
| `UnservedForGood` | `UnservedStays` |

The inductive invariant is `TypeOK` and `Leased`: a running task that no change of
status has robbed of its lease still holds the row's, and a lease that is held
has time left. Overlap alone is not inductive: the acquisition by another worker
is impossible only because the lease is live, which timely refreshes ensure.
Steps are grouped: those that touch no lease and neither begin nor end a task
(`Quiet`) preserve it for one reason; each of the others has a lemma. The two
theorems about the candle need of the invariant only the types, once it is
known that no step but an upsert writes the candle (`CandleStep`).

`FinalCandleKept` rests on two facts. A subscription has one upsert at a time, of
whatever workers: the row lock that comes with the flush of the event
(`RowLocked`). And while no two subscriptions upsert at once, what an upsert has
read is the candle (`ReadIsCurrent`), so the checks against a final one are made on
the row they protect. With one subscription the first fact gives the second.
`UnservedStays` follows from the types alone: every step of a task requires a task
or an active row, and a posted message makes active only what it had loaded as stale
(`PostedStep`).

`MarketScansProofs` proves, for all values of the constants allowed by
`ScansAssumption`:

| Theorem | Property |
| --- | --- |
| `TypesHold` | `TypeOK` |
| `AdvanceRecorded` | `AdvanceIsRecorded` |
| `AbandonedSeals` | `SealedStaysSealed` |
| `PauseIsKept` | `PauseHolds` |
| `ScannedOnceApart` | `OneRunPerOccurrence`, with `[]PollersApart` |
| `ScannedOnce` | `OneRunPerOccurrence`, with one poller |
| `SingleRuns` | `NoOverlap`, with `[]AloneAtConfigs` |
| `SingleRunsAlone` | `NoOverlap`, with one executor |

`Tracked` is the invariant that the rest needs: the row an executor has made
visible is a running run of its task and no other executor's, so that what it
writes later is its own. `StepKinds` sorts the steps into operators' changes,
steps that write nothing, analyses and ends of runs; each action property is
then a lemma with a case for each kind. `ScannedOnceApart` adds `Scheduled`: only
pollers hold scheduled occurrences, and one that is scanning without a visible
row is at an occurrence that has none. When the look of one poller and the first
commit of another cross the property fails; `PollersApart` excludes that, and not
that pollers hold the same occurrences in old batches.

`NoOverlap` says that a config has one run in progress at most, for scheduled and
forced runs alike. Its invariant `Single` adds that a running row of a config whose
look an executor has passed is that executor's own (`Mine`): the look has found
none, and another could only appear through a second executor past its look.

`CandleBatchesProofs` proves, for all rows, times, chunk sizes and requests allowed
by `BatchesAssumption`:

| Theorem | Property |
| --- | --- |
| `TypesHold` | `TypeOK` |
| `WritesSequential` | `WritesAreSequential` |
| `StaleOverwrites` | `OnlyStaleReadsOverwrite` |
| `CompletionStored` | `CompletedMeansStored` |
| `FinalsStayUnlessOverlap` | `FinalCandlesStay`, with `[]OneAtATime` |

Its invariant `Inv` has a part for each request which no other request disturbs
(`Local`): the virtual state agrees with row-by-row upserts for the rows of the
chunk (`Mirrors`); a candle is staged for an insert, for an update, or is as
written (`Planned`); while nothing is dropped, each row so far is staged or
written (`Tracked`). The other part ties requests to each other: what is written
was read as partial or is a row that nobody has (`Grounded`), and a candle has one
writer at a time (`Locked`). `Locked` is why a commit leaves the others `Grounded`.
Steps that commit nothing share the lemma `QuietInv`, the two ways to stage a
row `TakeInv`, and the two statements `WriteInv`.

The documents promise that final candles stay. While one request at a time works on
a series, every candle it has read is still the committed one (`Current`), and the
virtual state, which decides as row-by-row upserts would, never changes a final
candle. So the chunks, the merging of writes and the updates by id are not at fault:
only two requests at once are, as `StaleOverwrites` says from the other side.

Only model-checked: liveness (`SettlesUnlessLost`, `LostClaimsRetaken`,
`QueuedSettlesUnlessLost`, `StopEndsStreams`, `ActiveIsStreamed`, `DueIsServed`), which is
out of the prover's reach. Every invariant and action property of a passing run is
stated by a theorem. `OneOperationPerKey` and `CompletedStays` fail and are
proved under the hypotheses above; `ExecutedOnceCandlesExist` fails and is a
liveness property.

## 6. Disagreements between code and documents

Each is a run whose property TLC refutes; `PROJECT.json` quotes the lines.

- Two submissions of an idempotency key create two operations with one job.
  `SerialKeysAreUnique`: only if both are between lookup and insert; `OrphansStay`:
  the second then waits for ever.
- Marking items due overwrites an item completed meanwhile, which is executed again.
  `MarkingReopens`: nothing else reopens one.
- An outcome item that polls for candles runs out of attempts before they come.

Met while modelling, without a run of their own:

- "Cancellation is idempotent for terminal operations" (`equity-data.md:180`), but
  an executor past its last refresh gives a cancelled operation another outcome;
  `OnlyRacesRewriteCancelled` says which executors can.
- A forced run and a scheduled one, or two forced ones, can overlap, although
  `market-scans.md:164` says that a request then returns the existing run: the look
  and the insert are separate, and the inserted row is not visible at once.
  `SingleRuns`: without executors in that gap together there is no overlap.
- A scan run whose executor died stays running, and its config is never scanned
  again: `SealedStaysSealed` is a theorem about the code, not a wish.
- A job's run that outlives its lock settles the job under the next worker's lock:
  `complete_job`, `fail_job`, `retry_job` and `move_to_dead_letter` do not call
  `ensure_worker_lock`.
- "Late partial candle is ignored after a final row exists"
  (`live-feed-ingestion.md:143`) holds for one subscription per series. Nothing
  makes subscriptions of a series unique, and with two a transaction that read
  the candle as partial writes its values over the final ones
  (`FinalKeptUnlessOverlap`: only if two upserts overlap); it cannot make the
  candle partial again, because `is_final` is then not among the changed columns.
- "Final candles are not overwritten by later partial candles"
  (`candle-ingestion-performance.md:29`) holds within a request. Of two concurrent
  polls, the one that read a candle as partial updates it by id after the other
  has made it final; unlike the live upsert it writes every column, so the
  candle may be partial again. `OnlyStaleReadsOverwrite` says exactly when, and
  `FinalsStayUnlessOverlap` that requests one after another do no harm.
- "Larger imports and enrichment requests can be queued and will update operation
  progress and counters as the worker runs" (`equity-data.md:126-127`), and queued
  mode "stores sanitized row payloads in queue metadata up to
  `EQUITY_DATA_MAX_QUEUED_IMPORT_ROWS`" (`equity-data.md:215-217`), 5000 by default. But
  `safe_reference` cuts every payload of more than 8000 characters, rows included, and
  with it the operation's id: the job is dead-lettered at its first dispatch and the
  operation stays pending until somebody cancels it (`CutNeverRuns`, `OrphansStay`).
- Operations whose executor died are only reported (`equity-data.md:138-139` says so);
  `OrphansStay`, and with `StrandedStays` and `UnservedStays` it holds of manual action
  items and stale subscriptions too, of which no document speaks.
- The stale monitor marks subscriptions that were active when it read them
  (`live-feed-ingestion.md:175` says active ones); a pause or stop committed in
  between is overwritten, and the next message makes the subscription active.

## 7. Not modelled

Event rows, audit logs, error texts and worker-run counters, which decide nothing; the
validation of requests, which refuses them before anything is written (what becomes
of an equity payload that is too large to store is modelled);
`JobQueueService.heartbeat`, which has no caller; the
contents of equity imports and enrichment; the planner's choice of actions; the limit
of candidates in a live worker's poll, which takes the oldest active subscriptions
first (`runtime.py:113`, `repository.py:58-63`): with more than 500 active ones the
youngest could wait for ever, and `ActiveIsStreamed` is about fewer. Live
feeds and bulk requests are modelled apart, because a series belongs to one data
source and a source is live, polled or uploaded; screenshots that write candles
and retention runs that delete them are left out of both. What makes a row of a
file or an answer valid is abstracted to its verdict. The claim that the Go worker
processes jobs has no code to model: `processJobs` and `processRequests` are called but
defined nowhere. The other components are listed in `PROJECT.json` with the reason
each is left out.
