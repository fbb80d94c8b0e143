# Open Notes: TLA+ models and proofs

This directory is the verification development of the Open Notes monorepo. It
holds TLA+ modules translated from the source, TLC configurations that check
small instances of them, and theorems about them checked by TLAPS. Paths below
are relative to `src/`; `vibecheck/` abbreviates
`opennotes-vibecheck-server/src/` and `server/` abbreviates
`opennotes-server/src/`.

`tlc -config job_pipeline.cfg MCVibecheckJob.tla` runs a check,
`tlapm VibecheckJobInvProofs.tla` checks a proof module.

## 1. The system

Open Notes is a monorepo: two Python servers, a Discord bot, a Discourse plugin,
web front ends and a command line client. The state that several actors change
concurrently lives in the two servers.

### 1.1 vibecheck server: analysis of one submitted page

| part | state it keeps | operations |
|---|---|---|
| job row (`vibecheck/cache/schema.sql`, `jobs/slots.py`) | `vibecheck_jobs`: status, `attempt_id`, error code, `sections` (one slot per section, each with its own `attempt_id`), `sidebar_payload`, transient counter | UPDATEs guarded by the attempt (compare-and-set) |
| submit (`routes/analyze.py`, `jobs/submit.py`) | one pending row per URL in flight; advisory lock; `vibecheck_analyses` cache | cache hit, join an in-flight job, insert and enqueue |
| Cloud Tasks (`jobs/enqueue.py`) | named tasks with a delivery budget | create, deliver (at least once, overlapping), redeliver on 5xx, drop |
| `run_job` (`jobs/orchestrator.py`) | a heartbeat per running handler | claim, scrape and extract, persist, fan out 14 sections, synthesize, finalize; reset, fail |
| section retry (`routes/analyze.py`, `orchestrator.run_section_retry`) | - | gate, claim of the slot, enqueue or revert; handler, finish the slot, finalize |
| video poll (`analyses/safety/video_moderation_poller.py`) | operation names in the slot | poll again, or finish the slot and finalize |
| finalize (`jobs/finalize.py`) | the row and the URL cache, in one transaction | assemble the payload from settled slots |
| sweeper and purge (`schema.sql`, pg_cron) | - | fail orphans every minute, expire old jobs |
| Vertex limiter (`services/vertex_limiter.py`) | leases in Redis, a semaphore and a breaker per instance | acquire, release, expire, fall back, probe |
| image conversion (`routes/analyze_pdf.py`, `jobs/image_pdf_conversion.py`) | a job row, a batch row, the bucket, two tasks | upload, submit, convert (at least once, overlapping), enqueue the run task |

Everything interacts through the job row. No lock spans two statements (except
inside submit, finalize and persist), so what makes the pipeline correct is which
compare-and-set each statement carries. That is hard to test: the interesting
schedules need a redelivery, a sweep or a click between two statements of a
handler.

Properties that make it correct: no delivery takes a job from a worker that owns
it; whoever lost ownership changes nothing; a finalized row has a complete
payload and nothing else has one; a settled slot stays settled within its
attempt; a failed slot is claimed by one click; the transient counter ends the
job before the queue gives up; every job ends. Around it: one job in flight per
URL; a cached answer has its comments; never more leases than the limit; a job
that runs has its PDF.

### 1.2 Open Notes server

| part | state | hard behaviour | properties |
|---|---|---|---|
| token bucket (`server/dbos_workflows/token_bucket`) | pools, workers with heartbeats, holds | concurrent acquire against a capacity that changes with the workers; cleanup of holds whose workflow may be alive | one active hold per workflow and pool; held weight within capacity when granted |
| batch jobs (`server/batch_jobs`, `dbos_workflows/rechunk_workflow.py`, `import_workflow.py`) | job row, advisory lock per type, DBOS workflow | the row is locked but the session's copy of it is not refreshed; cancel, clean-up and completion overlap | one active rechunk; counts add up to a completed job; no job stays active |
| content scan (`dbos_workflows/content_scan_workflow.py`, `bulk_content_scan`) | scan row, flagged list and latch in Redis, DBOS signals, NATS events | the last batch and the total race; events are lost or repeated; a crashed step is executed again | a clean scan reports every message that was neither skipped nor passed; a closed scan stays closed; a scan closes |
| other durable workflows (approval, monitoring, copy requests, scheduler) | DBOS step log | recovery re-runs a step | steps are idempotent |
| moderation actions (`moderation_actions`, `bulk_content_scan/action_bridge.py`) | a row per action, proposed by the scan | the step that stores actions is executed again after a crash | every flagged message has its action |
| simulation (`simulation/workflows`, `simulations_jsonapi_router.py`) | run row with a generation, agents, DBOS workflows | pause, resume and reset while the old orchestrator and its turns go on | spawn cap; removal only for own failures; an ended run stays ended; a stopped run goes quiet |
| events (`events`) | NATS JetStream | redelivery, acknowledgement after failure | at-least-once effects |
| auth, users, notes, ratings, search, communities, webhooks, configuration | rows | little concurrency | - |

### 1.3 Everything else

`opennotes-discord` (TypeScript bot), `opennotes-discourse` (Ruby plugin),
`opennotes-vibecheck-web`, `opennotes-playground`, `opennotes-platform`,
`opennotes-vibecheck-extension` (front ends) and `opennotes-cli` are clients of
the servers' APIs. `communitynotes` is an empty submodule. `docs`, `docker`,
`scripts` hold no program logic.

## 2. Plan

In this order, the most important behaviour first.

1. **The vibecheck job** (done): `JobRow`, `VibecheckJob`, `JobLifecycle` and
   their proofs.
2. **The token bucket** (done): `TokenBucket` and `TokenBucketProofs`; a
   refinement of an abstract semaphore may follow.
3. **Submit** (done): `UrlSubmit` and `UrlSubmitProofs`: requests for one URL,
   the advisory lock, the contended branch, cache hits against purge and expiry.
4. **VertexLimiter** (done) and its proofs: leases with expiry, from the Lua
   scripts, and the local fallback.
5. **BatchJob**, **ContentScan** (done) and their proofs.
6. **ImageConversion** (done); its proofs and the limiter's are `ServiceProofs`.
7. **Simulation** (done) and its proofs: orchestrators, turns and the API over
   generations.
8. A timed model of the video poll against the sweeper's heartbeat window.
9. Proofs: every invariant and action property a passing run checks is a theorem
   (done). Refinements of the abstract specifications below may follow.
10. Smaller candidates: the NATS event publisher, the circuit breaker, the TTL
    caches of the scrape ladder.

Abstract specifications worth stating: the job as its client sees it
(`JobLifecycle`, done), a counting semaphore for the token bucket and the
limiter, a single-flight cell for the submit.

## 3. Modules

| module | what it is |
|---|---|
| `JobRow` | one row of `vibecheck_jobs` and each UPDATE on it: `XHits` is the WHERE clause, `X` the SET clause |
| `VibecheckJob` | the actors around the row, one action per database round trip of a handler |
| `JobLifecycle` | what `GET /analyze/{job_id}` may show: status, and whether there is a payload |
| `MCVibecheckJob` | the instances for TLC |
| `VibecheckJobProofs` | types of the statements, type correctness |
| `VibecheckJobInvProofs` | the inductive invariant, the properties that follow, and that `VibecheckJob` implements `JobLifecycle` |
| `TokenBucket`, `MCTokenBucket` | the server's token bucket, and its instance |
| `TokenBucketProofs` | types, and the three safety properties of the bucket |
| `UrlSubmit`, `UrlSubmitProofs` | the submission of one URL; its invariant, its lock and its cached answers proved |
| `VertexLimiter` | the limiter of Vertex calls |
| `ImageConversion` | an image upload up to its run |
| `ServiceProofs` | the safety properties of `VertexLimiter` and of `ImageConversion` |
| `ContentScan`, `ContentScanProofs` | one bulk content scan; its invariant and its two safety properties proved |
| `BatchJob`, `BatchJobProofs` | batch jobs; their invariant, one active rechunk and what a completed job has worked off proved |
| `Simulation`, `SimulationProofs` | one simulation run; its invariant and its three safety properties proved |
| `MCServices` | the instances of the five services that share no state |
| `MCSimulation` | the instances of the token bucket's clean-up and of the simulation |

Operators marked `fault:` or `Mutant:` are slips used to test the properties, no
part of a specification. `MCServices` and `MCSimulation` start one service and
leave the others at rest, disabled by the variable `service`: TLC checks the
disjoint union of their state graphs, never a product.

### The vibecheck job: state

`row` is the job row; `cache` the URL's row in `vibecheck_analyses`; `queue` the
tasks with the deliveries they have left; `worker` what each request handler is
doing (`pc` is the statement it will execute next, `attempt` the job attempt it
read or minted); `orphans` section coroutines whose request was answered before
they ended; `click` the retry requests; `submit` the submitting request. Attempt
ids are uuid4 in the code and counters here: only equality is used. `attempts`
and `minted` are the last ones handed out; `retries`, `faults` and `stalls`
count against the bounds.

A section's data is reduced to where it came from: an analysis, or the empty
default. A payload is the snapshot of the slots it was assembled from.

### The vibecheck job: actions

| code | actions |
|---|---|
| `analyze` after its commit | `EnqueueJob`, `EnqueueJobRaises`, `MarkEnqueueFailed` |
| `run_job` | `ClaimJob` or `StaleRun`; `Extracted`, `ExtractTransient`; `Persist`; `SetAnalyzingStep`; the fan-out; `Synthesize`; `FinalizeStep`; the exits `ResetStep` and `MarkFailedStep`; `StepRaises` |
| `_run_all_sections` | `RunSection`, `SectionRaises`, `PollEnqueueRaises`, `WriteDefault`, `AbortFanOut`, `FanOutDone`, `OrphanSection` |
| `run_section_retry` | `StartSection` or `StaleSection`, `WaitForDedup`, `SectionDone`, `HandlerRaises`, `RerunDependent`, `RerunDone`, then as `run_job`; `SlotFailStep` |
| `video_moderation_poll` | `StartPoll`, `PollPending`, `PollRaises`, `PollWrites`, then `FinalizeStep` |
| `retry_section` | `RetryGate`, `RetryClaimStep`, `RetryEnqueue`, `RetryEnqueueRaises`, `RetryRevert` |
| `vibecheck_sweep_orphan_jobs` | `Sweep`, `SweepStalled` |
| the environment | `Crash` (the process dies or the dispatch deadline passes, at any statement), `LoseDelivery` |

The sections of a job fall into the kinds the code distinguishes: the one others
depend on (`Dedup`), those that wait for it (`Dependents`, of which `Waiters`
re-enqueue their retry), those whose handler reads only its caller's payload
(`InMemory`), and the one that may answer "polling" (`Polled`). The instances
have one section of each kind.

### The vibecheck job: what is abstracted

- Time. A sweep may hit a pending row at any moment, and a working row whenever
  no live handler beats for its attempt; `SweepStalled` adds the case of a live
  handler whose heartbeats do not reach the database.
- A statement that raises has not taken effect, and `Crash` covers the process
  that dies after a statement; a lost acknowledgement is explored where a
  second system is written, at `create_task`.
- The queue keeps one entry per task identity; two deliveries of it may overlap.
  The uuid and iteration suffixes that make re-created task names unique are
  left out, so a re-created task replaces its predecessor.
- `WaitForDedup` is one step: the handler reads, records the wait and enqueues.
- The job comes from a URL: a `browser_html` job skips the cache.
- The columns of the synthesis steps and `last_stage` are left out. Their
  statements carry the attempt guard and touch no other column.

### The token bucket

`pool`, `registered`/`live` and `rows`/`released`/`old` are the three tables; a
row of `token_holds` is `<<workflow, serial>>`, where the serial plays the part
of the uuid key. `lock` is the execution whose transaction has selected the pool
row FOR UPDATE. `log` is what DBOS has recorded of a workflow: how many
acquisitions missed, and how far it is after them. `ended` holds the workflows
with any of the terminal statuses. An execution is a thread that runs one
workflow; several may run the same one, since recovery starts a workflow again
when its executor looks dead.

| code | actions |
|---|---|
| `TokenGate.acquire`, `try_acquire_tokens_async` | `Check` (the look without a lock), `LockPool` (FOR UPDATE and the capacity), `CountHolds`, `InsertHold` (commit, or the unique index refuses), `RecordAnswer`, `TimeOut`; `CheckRaises`, `AttemptRaises` |
| `_scavenge_zombie_holds` | `ScavengeRead`, `ScavengeCommit` |
| the body, `TokenGate.release` | `WorkDone`, `ReleaseTokens`, `RecordRelease`, `Finish` |
| `config.py` | `EnsurePool`, `RegisterWorker`, `Heartbeat`, `DeregisterWorker`; `HeartbeatLapses` is time passing |
| `cleanup_stale_token_holds` | `FindStaleHolds`, `ReleaseStaleHold`, `CleanupStaleWorkers`, `CleanupRaises`; `HoldAges` is time passing |
| simulation API | `Cancel` |
| DBOS and the operating system (external) | `Start`, `CatchUp`, `Abandon`, `Crash` |

Abstracted: the capacity query's fallback to the static capacity on a database
error (the aborted transaction then fails at its next statement, which is
`AttemptRaises`); changes of the static capacity or of a worker's contribution
by a redeployment; the scavenger's separate updates are one commit, with any
subset for statuses that could not be read; `find_stale_holds` returns all stale
holds (its limit is 100). A commit whose acknowledgement is lost is the
FALSE choice in `InsertHold`.

### The submission of a URL

`jobs` are the rows of one canonical URL with their utterances, `finished` the
places of the terminal ones in the order of `finished_at` (0 for the others),
`analysis` the URL's row in
`vibecheck_analyses` (the job that wrote it), `holder` the transaction with the
advisory lock, `subs` the request handlers, `others` what is left of the bound
on other routes. Every step of a request is one SQL statement under READ
COMMITTED: a row keeps the transaction that inserted it (`txn`) until `Commit`,
and what the transaction deletes or copies (`evicting`, `copying`) takes effect
then.

| code | actions |
|---|---|
| `analyze` (`routes/analyze.py`) | `Arrive`, `TryLock`, `FindUnsafe`, `Commit` (with the sleep and the second look of a contended request), `Enqueue`, `MarkEnqueueFailed`, `Rollback` |
| `_lookup_cache`, `_materialize_cache_hit`, `_copy_utterances_to_job` | `LookupCache`, `FindSource`, `InsertCached`, `CopyUtterances`, with `Evict` |
| `handle_locked_submit` | `FindInflight`, `InsertPending` |
| the job, abstracted | `Finalize`, `FailJob`, `Reopen` (a section retry) |
| `POST /api/scrape`, pg_cron | `ScrapeSubmit`, `Purge`, `CacheExpires` |

Abstracted: the URLs that share no canonical key never meet; a payload is the
job it was made for; Web Risk caches its finding, so it says the same to every
request; ages are an order of finishing (`Purge` takes the oldest k).

### The Vertex limiter

`slots` are the leases in the Redis sorted set, `up` and `scripts` Redis itself,
`loaded` and `backend` what each instance has cached and the state of its
`_FallbackingBackend`, `vcalls` the calls. A step lies between two awaits.

| code | actions |
|---|---|
| `acquire`, the scripts, `_release_once` | `CallStepV`: probe, acquire, saturated and again, run, release, each with the response lost or Redis down |
| `_on_redis_unavailable`, `_on_redis_success`, the probe | inside these steps; `CooldownEnds` is time passing |
| cancellation of the awaiting task | `CancelCall` |
| Redis and the clock (external) | `RedisFails`, `RedisReturns` (with or without its data), `Expire` |

Abstracted: the waits' lengths, the metrics, and a lost response to the
probe's SCRIPT LOAD.

### The image conversion

`imageJob` is the row in `vibecheck_jobs`, `conversion` the batch row, `stored`
the bucket, `tasks` the conversion task and the run task, `clicks` the handlers
of analyze-images, `converters` those of the task's deliveries. `reclaimed` says
that a stale claim was taken over.

| code | actions |
|---|---|
| the browser | `Upload` |
| `analyze_images` | `ReadBatch`, `VerifyUploads`, `SubmitBatch`, `EnqueueConversion`, `FailEnqueue`, `CrashClick` |
| `run_image_conversion` | `ClaimConversion`, `ReadImages`, `FailConversion`, `WritePdf`, `ResetConversion`, `MarkConverted`, `EnqueuePipeline`, `CrashConversion` |
| the run of the job, abstracted | `RunClaims`, `RunEnds` |
| the sweeper and the clock | `SweepImages`, `RowGetsOld`, `ClaimGetsStale` |

Time is two facts: the row is older than 240 s, and a claim is older than five
minutes, which implies the first.

### The content scan

`scan` is the record, `latch`, `flagged` and `recorded` are the Redis keys,
`actions` the proposed moderation actions, `bot`
and `events` the Discord bot and its unacknowledged NATS events, `orch` the
orchestrator workflow with its mailboxes `txMail` and `batchMail`, `runs` the
batch workflows, of which a redelivered event starts a second one.

| code | actions |
|---|---|
| `initiate_scan`, `dispatch_content_scan_workflow` | `Dispatch` |
| the bot (external) | `PublishBatch`, `PublishTotal` |
| `nats_handler.py` | `Nats` (handle a batch, handle the total, acknowledge or not), `LoseEvent` |
| `content_scan_orchestration_workflow` | `AcquireGate`, `Orchestrator` (receives that may time out, counting, finalize, latch, publish) |
| `process_content_scan_batch`, `content_reviewer_step` | `BatchStep`, and `CrashInReview` between two statements of the reviewer step |

Each batch is one message, for which a note may have been requested already, and
which the review flags or passes. A message is passed when no scan finds a
candidate, when the policy has nothing against it, and when its classification
failed: `content_reviewer_step` fails open and counts no error. The step evaluates
with `ModerationPolicyConfig()`, whose `auto_action_labels` are empty, so every
action is a Tier 2 proposal and the platform event of Tier 1
(`emit_platform_action_event`) is unreachable: it is not modelled. Classification
scores are left out, and of the scans only the similarity scan is modelled. The
flagged list is a set: a step executed again appends its message a second time.

### The batch jobs

`work` says what each request asks for, `rows` are the `batch_jobs` rows,
`typeLock` is the advisory lock of the rechunk type, `calls`, `workflows`,
`cancels` and `sweep` are the sessions. A session is modelled by the status it
read first: SELECT FOR UPDATE waits for the row, but SQLAlchemy's identity map
keeps the loaded object (`database.py` sets `expire_on_commit=False`), so the
transition is validated on that status and written over whatever the row holds.
A progress report is written, is not due yet (`batch_size`), or is lost:
`update_batch_job_progress_sync` logs every exception and the workflow goes on, as
`finalize_batch_job_sync` does.

| code | actions |
|---|---|
| `rechunk_service.py`, `import_service.py` | `CallStep`: `TakeTypeLock`, `CheckNoActiveJob`, `StartRechunk`, `CompleteEmpty`, `CreatePending`, `EnqueueWorkflow`, `FailDispatch`, `AbandonCall` |
| rechunk and import workflows | `WorkflowStep`: start, items, progress, finalize; `CrashWorkflow` |
| cancellation | `Cancel`; `ReadForCancel` and `CancelRechunk` |
| `cleanup_stale_jobs` | `Age`, `Sweep` (select, fail one by one), `SweepDies` |

### The simulation

`sim` is the run row (status, generation), `agents` its `SimAgentInstance`s with
their completed turns and retries, `orchs` one orchestrator workflow per
generation (its id contains it), `turns` the turn workflows, whose ids are made
of agent, turn number, generation and retry, `failures` the failed turns,
`api` the create or resume call under way, `cancelPasses` cancellations that
still run, `collided` that two orchestrators spawned from the same count.
`setup` is what the run is given.

| code | actions |
|---|---|
| `run_orchestrator` | `InitializeRun`, `GateTimesOut`, `CheckRun`, `IterateBlindly`, `OutOfIterations`, `AutoPause`, `InsertAgents`, `SpawnAgain`, `SpawnFails`, `RemoveAgent`, `DetectStuck`, `CountRetries`, `SkipSchedule`, `ScheduleTurns`, `ScheduleAgain`, `FinalizeRun`, `CloseWorkflow` |
| `run_agent_turn` | `StartTurn`, `FailTurn`, `PersistState`, `NoticeCancel` |
| `simulations_jsonapi_router.py` | `DispatchOrchestrator`, `MarkDispatchFailed`, `PauseSimulation`, `CancelSimulation`, `CancelWorkflows`, `CancelTurns`, `ResumeSimulation`, `ResumeWrites` |

Abstracted: the reads at the head of an iteration are one step; iterations and
consecutive failures are not counted, so their limits may strike at any
iteration; the content check is a constant of the run.

## 4. Runs

The runs of the job use one job and the three sections `dedup`, `trends` (dependent and
waiting) and `video` (in memory, polled). Deadlock checking is off: a job at
rest with no retry left is a legal end.

| run | instance | shows |
|---|---|---|
| `job_pipeline` | 2 workers, 3 deliveries, 3 transients, 1 fault, 1 stall, no retries | `FinalizedIsComplete`, `ExhaustedNeverPends`, `ClaimNeverSteals`, `StaleAttemptsAreFenced` |
| `job_retry` | 2 workers, 2 clickers, 2 retries, 2 deliveries | `OneClaimPerFailure`, `SettledSlotIsFinal` |
| `job_faults` | 1 worker, 2 clickers, 2 retries, 1 fault, 1 stall | `JobInv`, `ImplementsLifecycle` |
| `job_liveness` | 2 workers, 1 retry, 1 stall, fairness, no symmetry | `JobSettles`, `PayloadOnlyOnFinalized` |
| `token_bucket` | 2 workflows (weights 1 and 2, pool of 2), 2 executions, 1 worker, 2 holds for the first | `TypeOK`, `CapacityRespected`, `OneActiveHold`, `WorkIsBacked` |
| `services` | five services, below | of the submit `SingleFlight`, `CachedAnswerHasUtterances`; of the limiter `LeaseCap`, `SlotsAccounted`, `FairShare`; of the conversion `RunHasPdf`, `OneConverter`; of the scan `EndedScanStaysEnded`, `CleanReport`; of batch jobs `OneActivePerType`, `CompletedIsMostlyDone`; the inductive invariants `SubmitInv`, `LimiterInv`, `ScanInv`, `BatchInv` |
| `services_liveness` | the same, smaller, with fairness and without symmetry | `EveryCallIsAnswered`, `CallsEnd`, `ImageJobSettles`, `ScanCloses`, `JobsSettle` |
| `cleanup_and_simulation` | the token bucket with 1 execution, and the simulation; fairness, no symmetry | `LeakedHoldsAreFreed`; `RemovedForCauseFailed`, `SpawnCap`, `EndedRunStaysEnded`, `StoppedRunGoesQuiet`, and the inductive invariant `SimulationInv` |
| `revert_overwrites`, `section_redelivery`, `retry_without_inputs`, `retry_of_running` | smallest that shows it | disagreements of code and text, section 6 |

Bounds. `MaxDeliveries = 3` and `MaxTransients = 3` are the production values
(`cloud_tasks.tf` as quoted in `orchestrator.py`, and
`EXTRACT_TRANSIENT_MAX_ATTEMPTS`); the backstop property needs them. Two
workers are the two parties of every race on the row: a third could only repeat
the part of one of them, since a statement compares the row with one attempt.
Two clickers race for one slot. One fault and one stall already interrupt every
statement once. `MaxRetries` bounds user clicks.

For the token bucket, two executions are either the two workflows competing for
a pool that holds one of them, or one workflow twice. The second workflow may
miss twice, so that the scavenger and the clean-up run between two tries, and is
the one that can be cancelled; the first may leave a hold behind and acquire
again. `ScavengeBatch = 1` makes the batch smaller than the table. Deadlock is
off: an idle pool is a legal end.

The services, in `services`: two requests for a URL with up to two earlier jobs,
and one scrape or retry where there are none (`MaxJobs = 5` rows suffice for
these: it never disables an insert); four calls on two instances for two leases,
so that both instances and both backends are saturated, one outage; two clicks
and three deliveries, one trouble: the overlap of two and a third that finds
their result; two batches, one of which may be redelivered and one lost, one
poll; two batch jobs competing for the lock, or one of two items beside an empty
one, one mishap (a single job was explored with three: a crash, a lost report and
a lost finalize). Two of each are the parties of every race modelled: they meet
in one row, one lock or one list. `services_liveness` gives the fault bounds that
interrupt a recovery as well (two outages, troubles or mishaps), with one batch
and one job. Deadlock is off: a service that is done stops.

The simulation has two agents and two generations (one reset), and five setups
that keep the product of agents, calls and setbacks small: two overlapping
orchestrators over one agent; a run without content with three calls and two
setbacks; one generation with calls and a setback; two active agents where one
spawn is allowed, and two where two are. A turn number up to `MaxTurns = 1` and
`MaxRetries = 2` let a turn fail, be retried, succeed, or exhaust its agent.

Fairness of the services: a request handler continues, waiting only for rows of
other open transactions (`UrlSubmit`); a call's Vertex request ends and its waits
time out (`VertexLimiter`); rows get old, pg_cron sweeps and a live run ends
(`ImageConversion`, nothing is assumed of tasks, deliveries or browsers); DBOS
executes and recovers the orchestrator, whose receives time out (`ContentScan`,
nothing is assumed of batches or events); time passes and the weekly clean-up
runs (`BatchJob`, nothing is assumed of requests and workflows); orchestrators
and turns are recovered and an open resume transaction ends (`Simulation`).

Fairness of the token bucket in `cleanup_and_simulation`: time passes for every hold, the schedule fires, and
a release the clean-up keeps attempting is not interrupted for ever (strong
fairness per workflow: `CleanupRaises` can disable it again and again). Nothing
is assumed of executions, so a hold is freed even if nobody ever runs again.

Fairness (`FairSpec` of `VibecheckJob`, used by `job_liveness`): handlers continue (each awaits
with timeouts, and the process is restarted otherwise), the submitting request
answers, and pg_cron runs the sweeper every minute. No delivery, click or
orphan is assumed to happen. Weak fairness suffices: a row that nobody serves
stays sweepable.

## 5. Proofs

For every value of the constants that satisfies the modules' `ASSUME`s:

| module | theorem | statement |
|---|---|---|
| `VibecheckJobProofs` | `TypeCorrect` | `Spec => []TypeOK` |
| `VibecheckJobInvProofs` | `JobInvariant` | `Spec => []JobInv` |
| | `FinalizedComplete`, `PayloadOnFinalized` | the two properties of payload and cache |
| | `BackstopFirst`, `OneRetryClaims` | `ExhaustedNeverPends`, `OneClaimPerFailure` |
| | `NoClaimSteals`, `StaleAreFenced`, `SettledStays` | the action properties `ClaimNeverSteals`, `StaleAttemptsAreFenced`, `SettledSlotIsFinal` |
| | `LifecycleRefinement` | `Spec => ImplementsLifecycle` |
| `TokenBucketProofs` | `TokenTypeCorrect`, `TokenCapacityRespected`, `TokenOneActiveHold`, `TokenWorkIsBacked` | `TypeOK` and the three safety properties |
| `UrlSubmitProofs` | `SubmitInvariant` | `SubmitSpec => []SubmitInv` |
| | `SubmitSingleFlight`, `SubmitCachedAnswers` | `SingleFlight`, `CachedAnswerHasUtterances` |
| `ServiceProofs` | `LimiterInvariant` | `LimiterSpec => []LimiterInv` |
| | `LeasesCapped`, `LeasesAccounted`, `SharesFair` | `LeaseCap`, `SlotsAccounted`, `FairShare` |
| | `ConversionRunHasPdf`, `ConversionOneConverter` | `RunHasPdf`, `OneConverter` |
| `ContentScanProofs` | `ScanInvariant` | `ScanSpec => []ScanInv` |
| | `EndedStaysEnded`, `CompletedReportsAll` | `EndedScanStaysEnded`, `CleanReport` |
| `BatchJobProofs` | `BatchInvariant` | `BatchSpec => []BatchInv` |
| | `BatchOneActivePerType`, `CompletedWasWorkedOff` | `OneActivePerType`, `CompletedIsMostlyDone` |
| `SimulationProofs` | `SimulationInvariant` | `SimulationSpec => []SimulationInv` |
| | `RemovedHaveFailed`, `SpawnsCapped`, `EndedStays` | `RemovedForCauseFailed`, `SpawnCap`, `EndedRunStaysEnded` |

Every inductive invariant named here is checked by a run as well, before and
beside its proof.

The job. `TypeCorrect` has one lemma per actor. `JobInv` adds facts that need
each other. `Commits(row)`, the table's CHECK, is not enforced by every
statement: `_RESET_SQL` and `_SET_ANALYZING_SQL` look at the attempt only, and it
is the CHECK that makes them fail on a swept row. `PendingIsUnclaimed` says a
pending row carries the envelope's attempt; `RunOwners` that the attempts of live
run handlers are distinct and never the envelope's. With them, a reset or a
set-analyzing that commits starts from an unfinished row, and an unfinished row
has no payload (`PayloadOnlyOnFinalized`), which is what `FinalizedIsComplete`
and the refinement need. `Backstop` is what `ExhaustedNeverPends` lacks: an owner
of a row whose transients are used up is about to mark it failed, so no reset of
it is coming. `RetryIds` says that slot attempts are fresh: a claim mints a newer
one than it read, so no two clicks can have claimed the same failure.

Most steps leave status, attempt, code and payload alone (`HeaderKept`); lemma
`HeaderCases` splits a step into those and the ten that do not, and both the
invariant and the refinement are argued over these cases. `NoClaimSteals`: a
step that rotates the attempt is a claim, which needs the envelope's attempt, or
a reset by the owner (`RotationCases`); owners are unique, so the rotated
attempt's handler is the one that is answering. `StaleAreFenced` and
`SettledStays` go through the steps of each actor: every statement of a handler
carries its attempt, and the only statements that change a slot under its own
attempt expect it to be running.

The token bucket, under `TokenBucketAssumption` (finitely many workers, positive
weights and contributions, nothing else). A sum over a set is the cardinality of
a set of tokens, `Weight[w]` copies per hold, so that the library's facts about
finite sets do the arithmetic; `FewerTokens` and `OneMoreHold` are all the
invariants need. `TokenCapacityRespected` follows from `LockInv`: whoever is
between the two reads and the insert has the lock, the capacity it read is at
most the peak, and what it found room for still fits; holds may only go
meanwhile. The bound is the peak and not the capacity of the moment: capacity
shrinks when workers leave, and no hold is revoked then. `TokenOneActiveHold` is
inductive as it stands. `TokenWorkIsBacked` needs `BackedInv`: an answer on its
way to the log is as good as a recorded one, what the clean-up has found is old,
and a new row is not one that was released before.

The submit. `SubmitInv` says beside the types that the rows that have ended, and
no others, have distinct places, which makes the newest source and the oldest
rows well defined (`NewestIsOne`, `PlacesFit`, `FinishFits`). The order is a
function from rows to places because a filtered sequence (SelectSeq) is a
recursion that the provers do not unfold. `SingleFlight` is not inductive: a row another transaction has
inserted is invisible until its commit, so having seen nothing in flight says
little by itself. `LockInv` adds `HolderInserts` (an uncommitted row in flight
belongs to the holder of the lock) and `InserterHolds` (a request about to insert
has the lock, and there is no submitted row, committed or not).
`SubmitCachedAnswers` needs `HitInv`: a request past the cached insert has a row
that its transaction sees, and at its commit one with utterances or a copy of
them on the way; no purge takes them, since the transaction has updated the row.
Purges, expiries, section retries and scrapes are arbitrary steps in both.

The limiter. `LimiterInv` is `LeaseCap` and `SlotsAccounted` with two helpers: as
long as nothing has failed Redis is up and has the scripts of its leases, and an
instance's local permits stay within its share. `FairShare` is then arithmetic
on the share (`ShareFits`): the shares of the instances add up to at most the
limit. The two caps do not need a bound on outages.

The content scan. `EndedScanStaysEnded` goes through the writers of the record;
two of them look at nothing: the dispatch that fails, which is the first to write
(while the bot is waiting the record is pending), and `complete_scan`, whose two
statuses are both terminal. `CleanReport` needs that nothing is counted twice or
lost between three channels: `RunProgress` says what a batch run has done at each
of its steps, `Tally` which batches' results the orchestrator has received and
which are in its mailbox, each from one run that has ended; `Counted` that there
is such an account while no batch was redelivered. When all batches are received
and none had an error, each of them was skipped, was passed or is in the flagged
list (`CompleteReport`). `passed` is that of the last execution of the review:
one that flagged and appended before a crash may pass when it is executed again,
and the message is reported nevertheless.

The batch jobs. `TypeLockInv` adds to `OneActivePerType` that whoever is between
the lock and the insert has the lock (`LockHeld`) and, after its look, no active
rechunk beside it (`StarterAlone`), and that only an import is started by its
workflow (`ImportsStart`). Stale sessions write nothing but terminal statuses to
a rechunk row, so they add no active one: that is what most of the lemmas say.
`CompletedIsMostlyDone` needs `BatchInv`: `WorkflowFits` says that a workflow has
passed only items whose outcome is recorded and claims success only with all of
them, `CompletionFits` that a completed row has all its outcomes, most of them
good, and the counts of the first n items for some n, though a crash executes the
workflow again and its reports and its second finalize are lost. The recorded
outcomes do not change under a rechunk that is executed again, and the verdict is
recomputed from them. The theorem is for any `MaxMishaps`.

The image conversion. `RunHasPdf` needs `PdfInv`: the images are there once a
call has verified them (`ImagesVerified`), the PDF once a delivery is about to
commit (`PdfWritten`), and a delivery about to enqueue, a converted batch or a
queued run means that the row has the PDF for its URL unless it has ended
(`RowReady`). `OneConverter` needs `ClaimInv`: until a claim is taken over, a
batch that a delivery holds is `converting`, and so not claimable.

The simulation. `RemovedForCauseFailed` needs `FailuresCounted`: every counter of
an agent, stored in its row or read by an orchestrator, says how many tries
failed, the first and each retry below it (`HasFailed`); tries with different
numbers are different turns, so an agent at `MaxRetries` has as many failures.
Writing over a newer counter, or writing an old one twice, keeps that: nothing
else is assumed of overlapping orchestrators. `SpawnsCounted`: agents are
numbered without gaps, and while no two orchestrators insert at once the total
that one has read is still right when it inserts. `EndedStays` needs
`ResumeFits`: what a resume has read is still true when it writes, since it holds
the row.

Model-checked only: liveness under fairness (`JobSettles`,
`LeakedHoldsAreFreed`, `EveryCallIsAnswered`, `CallsEnd`, `ImageJobSettles`,
`ScanCloses`, `JobsSettle`, `StoppedRunGoesQuiet`), which is out of TLAPS's
reach. The four properties of section 6 are false and have no theorem.

## 6. Where code and text disagree

- **A revert can discard a result** (`revert_overwrites`): when `create_task`
  raises after creating the task, the section's worker may finish before the
  revert, which then restores the failed snapshot, because finishing keeps the
  slot's attempt id.
- **A 503 that cannot be retried** (`section_redelivery`): the failing retry
  marks its slot failed before it asks for redelivery.
- **A retry that analyses nothing** (`retry_without_inputs`): the safety
  handlers do not reload their inputs, and the empty result counts as done.
- **A running job can be retried** (`retry_of_running`): the gate is an unlocked
  SELECT, the claim has no status guard, and a late reset may come between.

Smaller ones met on the way, without a run: the reset of a swept row is refused
by the CHECK, so the handler answers 500 and not 503; `retry_section`'s
docstring (step 6) says a failed enqueue flips the job to failed, the revert
leaves it analyzing until the sweeper comes; the sweeper calls a pending row
older than 240 s one that "never reached a worker", but a reset row is pending
too and keeps its `created_at`.

Met in the other services, also without a run:

- Submit. `AnalyzeResponse` (`routes/analyze.py`) has a cached job carry the
  current analysis; the partial unique index lets an older cached row win, whose
  payload may be older or purged. A cache miss that looks for a job in flight
  just after that job finished inserts another. `_copy_utterances_to_job` claims
  "same atomic semantics without a unique index". A partial analysis is served
  again as `done`. `MarkEnqueueFailed` has no guard: the job may have finished.
- Limiter. `docs/specs/vibecheck/shared-limiter-contract.md` has implementations
  renew leases of long calls; none is renewed, so more calls than the limit may
  run, and the local fallback adds its own. `LeaseCap` is therefore about leases,
  not about calls. After a restart of Redis the cached digests are never loaded
  again: the probe believes they are.
- Image conversion. A redelivery during a conversion answers 200, which ends the
  task; if the converting delivery then dies only the sweeper ends the job, 240 s
  after its insert, although upload URLs live 900 s. The branch that takes over
  a claim after five minutes is reachable only while the sweeper is late.
  `_mark_failed` and `_mark_job_failed_enqueue` have no status guard.
- Content scan. `complete_scan` has no status guard, and can fail a scan that the
  NATS handler had closed as completed; duplicates and errors count towards the
  total, so a scan with redeliveries may be finalized before its last batch, which
  is why `CleanReport` excludes them; a latch whose removal fails
  stays until it expires. A scan whose classifications all failed is
  completed like one that found nothing.
- Batch jobs. `start_job` says "Uses SELECT FOR UPDATE to prevent TOCTOU race
  conditions"; the identity map returns the object the session read before, so a
  cancelled or completed status can be overwritten, and a cancelled pending
  import revived. A cancellation does not stop the workflow.
  `_compute_batch_success` says "The exact completed_tasks and failed_tasks counts
  are always persisted in the BatchJob record" (`rechunk_workflow.py:76`); finalize
  swallows its errors, and a rechunk that crashed after finalizing reports its
  first items again, so that a completed job keeps the counts of a part of its
  items when the later report and the second finalize fail. That needs three
  mishaps, which is why `CompletedIsMostlyDone` claims the counts of some first n
  items and not of all of them.
- Simulation. `finalize_run_step` has no guard for status or generation: an old
  orchestrator can complete a run that was resumed, and overwrite a
  cancellation. `run_orchestrator` says "Resuming starts a new orchestrator
  workflow with a fresh CircuitBreaker instance"; a resume starts one only when
  none is active, and one that finds a workflow about to finish leaves a run
  "running" without any. A turn that is skipped answers success without counting,
  and its workflow id never runs again.

In the token bucket: a worker whose row the clean-up removed after a stall is
not registered again, because its heartbeat is an UPDATE; and
`release_stale_hold` releases by workflow id, whatever row was found.

## 7. Not modelled

What the analyses, scrapers, classifiers and agents compute, HTTP and OIDC
validation, rate limits, metrics, front ends and clients. Of the modelled
services: the Redis progress bitmap of batch jobs and their approval, scrape,
promotion and copy kinds, which start without the lock; note requests made from
a finished scan; the retry of an image job; the simulation's scoring, imports and
the workflows that an earlier version of the application left. The timing of the
heartbeat (section 2, item 8) is what the open hazard of the sweeper in
`PROJECT.json` waits for. The component list there gives the reason for each part
left out.
