# Verification of the asynchronous document pipeline

TLA+ specifications of the pipeline that turns uploaded PDFs into Markdown, the
TLC configurations that check them on small instances, and TLAPS proofs for any
number of documents, jobs, workers and faults. The specifications are written
from the code (`api/`, `worker/`, `shared/`, `cli/`, `local/`), not from its
documents; where the two disagree a run exhibits the disagreement.

Run a configuration with `tlc -config MCSafety.cfg MCPipeline` (`PROJECT.json`
names the module of each), the proofs of a module with `tlapm PipelineProofs.tla`
(likewise for the other `*Proofs` and `Counting`). `PROJECT.json` lists every run with its properties,
the source lines behind every definition, a mutant per property, and the hazards.

## 1. Inventory

| Component | State | Operations | Meets the others through |
|---|---|---|---|
| Processing endpoint (`api/services/job.py`, `api/routes/jobs.py`) | none of its own; one session per request | check the upload, check the queue depth, insert the job, commit, publish | jobs table, object store, queue |
| Worker consumer (`worker/infrastructure/messaging/consumer.py`) | message in hand, attempt number of its claim, stop flag | consume loop, load, claim, process, failure handler, drain | queue (delivery, ack, nack), jobs table, signals |
| Processing service (`worker/services/processing_service.py`) | bytes fetched | fetch, parse, store, upsert the artifact and complete | object store, jobs and artifacts tables |
| Job and artifact tables (`shared/infrastructure/repositories/`, migrations) | rows, unique index of active jobs, unique artifact per document | insert, compare-and-swap of the status, upsert | every process |
| Queue (`shared/infrastructure/messaging/rabbitmq_client.py`, RabbitMQ) | ready messages, unacknowledged deliveries | publish, depth, deliver, ack, nack, requeue on close | API and workers |
| Object store (`shared/infrastructure/storage/s3_client.py`, S3) | PDF and Markdown of each document | presigned upload, head, get, put | clients, API, workers |
| Document and artifact endpoints, authentication (`api/`) | document and account rows | create document, get, list artifacts | tables, object store |
| Account provisioning and setup (`cli/`) | account rows, CSV file of keys | create accounts, migrate | accounts table |
| Migrations (`shared/migrations/`) | schema | upgrade, downgrade | all tables |
| Messaging client (`rabbitmq_client.py` behind `api/core/providers.py`) | cached service, connection handle of each client | resolve the service, get or open the connection, run an operation on a channel | requests of one API process |
| Smoke client (`local/smoke.py`, `local/pipeline/client.py`) | the progress of each run | submit, upload, process, poll | API |
| Chaos harness (`local/chaos.py`, `local/scenarios/`, `local/pipeline/`) | the progress and report of the scenario | submit, wait, find the claimer, kill, watch, restore | API, psql, Docker, rabbitmqctl |
| Deployment (`infrastructure/`) | desired task counts | restart tasks | workers, API |

What is hard here is concurrency without locks. The queue delivers at least
once, several workers and requests act on the same job and document, a claim is
a compare-and-swap on one column, each handler is a chain of separate
transactions, object writes and broker calls with a possible failure between any
two of them, and a process may die, lose its channel or be told to stop at each
await. The correctness of the parts therefore reads:

* tables: one unfinished job per document; statuses move along the life cycle only; the other columns of a row fit its status;
* workers: one writer per document; decisions taken on current data; no attempt too many or too few;
* queue: no unfinished job without a message or a process in charge; no unbounded circulation;
* endpoint: a message only for a committed row; a bounded queue;
* artifacts: a row exactly for completed documents, content never older than promised;
* everything: a queued job ends, unless its own parse never does;
* messaging client: connections bounded by the overlap of requests, not by their number;
* harness: a report that the row bears out, a stack restored whatever went wrong;
* clients: a verdict agrees with the job for good, a job that was accepted can be polled, a run ends;
* keys: every key in the file authenticates, no account without a key;
* migrations: every script runs whatever rows it meets, loses only what it declares, and reverses the schema.

## 2. Modules

| Module | Models | Extends |
|---|---|---|
| `Environment` | constants with their assumptions, messages, the fault budget | |
| `JobTable` | jobs and artifacts rows: `CreateJob`, `UpdateStatus` with the columns it writes, `UpsertArtifact` | `Environment` |
| `Broker` | queue and channels: `Publish`, `Push`, `AfterAck`, `Nack`, `ReturnDelivery`, `Depth` | `Environment` |
| `ObjectStore` | PDF and Markdown versions | `Environment` |
| `Consumer` | the workers: one action per observable step of `start`, `_handle`, `_handle_failure`, `process`, and the faults | the three above |
| `ProcessEndpoint` | `POST /documents/{id}/process` | the three above |
| `JobLifecycle` | abstract specification of a job as its client sees it | |
| `Pipeline` | the composition, fairness, the properties, the inductive invariant | `Consumer`, `ProcessEndpoint` |
| `MCPipeline` | the assignments of jobs to documents that TLC uses | `Pipeline` |
| `PipelineProofs` | theorems about ownership, the job row, the life cycle, the artifact row and the Markdown object | `Pipeline`, `TLAPS` |
| `DeliveryProofs` | theorems about messages and the queue | `PipelineProofs`, `Counting` |
| `Counting` | lemmas on finite sets that grow or shrink by one element | `FiniteSetTheorems` |
| `WorkerKill`, `MCWorkerKill` | the scenario `worker-kill`: a script beside the pipeline, whose workers, broker and endpoint it shares | `Pipeline` |
| `WorkerKillProofs` | theorems about the killed job, the report and the life cycle under the scenario | `WorkerKill`, `PipelineProofs` |
| `MessagingClient`, `MCMessagingClient` | service cache and broker connection of the API process | |
| `MessagingClientProofs` | theorems about them | `MessagingClient`, `Counting` |
| `DocumentEndpoint` | `POST /documents`, its session that ends after the answer, authentication, what a reader sees | |
| `SmokeClient` | runs of `local/smoke.py` over `DocumentEndpoint` and, for their jobs, `JobLifecycle` | `DocumentEndpoint` |
| `MCSmokeClient`, `SmokeClientProofs` | instances; theorems | `SmokeClient` |
| `Provisioning`, `MCProvisioning` | `cli setup`, `cli account create`, `make nuke` | |
| `ProvisioningProofs` | theorems about keys and their file | `Provisioning` |
| `Migrations`, `MCMigrations` | the eight revisions, up and down, with rows in the tables | |
| `MigrationsProofs` | theorems about them | `Migrations`, `TLAPS` |

The modules meet at `JobLifecycle`: the pipeline implements it (proved), and
`SmokeClient` uses it in place of the pipeline, so its results hold of the
clients of the real one.

Correspondence with the code:

* **A step** of a worker ends at an await that another process can observe: a
  commit, a broker call, an object store call. `wpc` names the place in the
  handler, `cur` the message in hand, `att` is `started.attempts`, `content` the
  version of the PDF fetched, `stop` is `_stop_event`, `since` the number of commits
  its job's row had seen when the worker came to a call of `update_status`. A transaction is one step
  at its commit: PostgreSQL's row locks and the unique index order concurrent
  ones, and READ COMMITTED re-evaluates the `WHERE` of a blocked `UPDATE`.
* **A job row** has, beside status and attempts, `error` (the attempt whose
  exception `error_message` quotes) and `stamps`: the time columns, indexed by the
  status they go with. Time is measured in commits on the row (`commits`), but a
  column does not get the time of its own commit: `update_status` reads the clock
  and only then awaits its UPDATE, so it gets any moment (`Readings`) between the
  caller's arrival at the statement (`since`) and the commit. The clocks of the hosts are taken to
  agree and not to go back.
* **A request** is named by the job UUID it would generate, so `rpc[j]` is the
  place in `JobService.create` or the answer given.
* **The queue** is a bag: with several consumers, requeues and retries no order is
  left that the code relies on. Its `Depth` is the number of `Copies`. `unacked[w]` is the broker's view of a channel
  (`prefetch_count=1`), `buffered[w]` the message the client library has
  received but not handed over. After a lost connection the tag of the message
  in hand is dead (`DeadTag`): acking it does nothing, or raises. A client
  holds at most one message in its buffer; a delivery that finds a dead one
  there waits, which only delays it.
* **Content** is a version number: the n-th upload is n, and so is the Markdown
  made from it. `createdOver` is a history variable.
* **Errors of processing** (object store, parser, database inside `process`) are
  unlimited; `max_attempts` bounds them. **Faults** (kinds in `Environment`)
  spend a budget. `hang` is a parse that never returns: the worker stays at
  `wedged`, connected and with its message unacknowledged, until it is killed. `db` is a statement or commit that fails and is rolled back,
  `ambiguous` a commit that is applied and reported as failed.
* An exception that leaves `_handle` leaves `start`, closes the connection and
  ends the process (`Die`); the broker then requeues the outstanding delivery.
  `Restart` is the orchestrator.
* **A document request** is answered before its session is committed: FastAPI
  leaves a dependency with `yield` after the response, so `CreateDocument` and
  `EndSession` are two steps, and the second may fail. `JobService.create`
  commits by itself, before the answer: `CommitJob` and `AcceptJob` are two steps in
  that order, the job may run and end between them, and the request may still fail.
* **A smoke run** r owns one document and at most one job, both named r. A call
  may fail at any time (`CallFails`) while what it asked for is still served.
* **A messaging client** is named by the request whose thread built it. Requests are
  all those that depend on `JobService`: `GET /jobs/{id}` resolves it too and ends
  before it needs the broker (`EndEarly`), so `MaxInFlight` counts both kinds. FastAPI
  resolves the synchronous `get_job_service` in a thread pool and `lru_cache`
  does not lock while it calls, so a miss (`ResolveService`) and the end of the
  construction (`BuildService`) are two steps; so are the test in
  `_get_connection` and the assignment after `connect_robust`. The rest of a
  request is whatever may end it early. A worker has one client and calls it in
  sequence: `MaxInFlight = 1`.
* **The scenario** is a program counter `spc` beside the pipeline. What the script
  reads is a `Snapshot` of the row at some moment; polls that find nothing new
  are stuttering. A container is a worker; nothing restarts it but the script
  (`docker-compose.yml` sets no restart policy). `unlogged` separates the commit of
  a claim from its log line. `hit` is a history variable.
* **A command of the tool** p creates the accounts `<<p, i>>`; such a pair stands
  for the row and for its key, which the row keeps only as a hash. The test for
  the CSV file, its opening and the flush at its close are three steps.
  `overlapped` is a history variable. `make nuke` runs alone.
* **A revision** is an operator up and one down, each a sequence of statements. A
  statement is an operator on databases, and the arguments it gives `Exec` are
  PostgreSQL: when it fails on given rows and what it does; after a failure nothing
  more is executed. `Upgraded` and `Downgraded` run the scripts between two revisions
  one by one, written out rather than folded over a list, so that they can be reasoned
  about. `env.py` runs a whole command in one transaction, hence `Migrated` and the
  guard of `MoveTo`. `WriteJob` and `WriteArtifact` are the application of the day,
  taken at its most liberal: whatever the schema accepts.

## 3. Runs

The runs of the pipeline use two workers and two jobs of one document, `MaxAttempts = 2`, so that a
retry, a second job after a first, and a race for each of them occur; `liveness`
has one job and one more fault instead, and `backpressure` four documents.
`MaxVersion = 2` where content matters: a PDF replaced between fetch and store.
In `safety` and `no_loss` workers are symmetric, and so are the two jobs, since they
have the same document; no symmetry is used for liveness. The
system may rest, so deadlock is not checked.

| Run | Bounds | Checks |
|---|---|---|
| `safety` | any two faults | `TypeOK`, `OneWriter`, `ClaimIsCurrent`, `AttemptsLedger`, `RowTellsStory`, `MessageHasRow`, `ArtifactRecorded`, `ArtifactFresh`, `MarkdownAdvances`, and the refinement `LifecycleSpec` |
| `no_loss` | three of crash, db, ambiguous, api, stop, poison | `QueuedIsCarried` |
| `liveness` | three of conn, stop, poison, hang | `QueuedIsCarried`, `StartedIsHeld`, `EveryJobTerminates`, `PoisonDrains` |
| `backpressure` | one stop | `DepthBounded`, with four documents, one worker, two concurrent requests and a threshold of one: room for the bound of three and for one more |
| `smoke_client` | two runs, two attempts; failing calls, refusals and late commits at will | `VerdictIsFinal`, `PollFindsJob`, `RowMeansPromise`, `EveryRunEnds` |
| `migrations` | two jobs of one document, the smallest tables in which a constraint can meet a duplicate; commands and writes at will | `UpgradeSucceeds`, `DowngradeSucceeds`, `OneUnfinishedJob`, `DowngradeReversesSchema`, `LossOnlyWhereDeclared` |
| `messaging` | five requests of two operations each, two at a time, one connection closed: ten chances to connect against a bound of five, which is reached | `TypeOK`, `ConnectionsBounded` |
| `worker_kill` | one document, two workers, three attempts; the kill is the only fault, processing errors and failures of the script's own commands at will | `KilledJobIsStuck`, `ReportStands`, `ScenarioEnds` |
| `provisioning` | three commands, two at a time, two accounts each, two ends before their time | `KeysAuthenticate`, `AccountsHaveKeys`, `ClientCanLoad`, `HeaderOnce` |

`QueuedIsCarried` is checked for process faults and for connection faults apart,
because it fails when they meet: a worker whose message was already redelivered
and dropped elsewhere, and which is killed, or sees an applied commit fail, between the reset
to QUEUED and the publication of the retry, takes the last trace of the job with it. It fails for
`queue` faults too: a retry that cannot be published is only logged. These are the
only ways: under every other set of faults it is proved (`Survivable`). A request
that fails after its commit may leave a QUEUED job without a message; the
property allows for exactly that, and the design accepts it
(`docs/superpowers/specs/2026-05-13-enqueue-after-commit-design.md:57`), although
`shared/dtos/job.py:10` says of QUEUED "Job record exists and is enqueued".

`RowTellsStory` makes precise what the README's queries may rely on. A job that
waits again was requeued after its last recorded start, so while a retry waits
`started_at` is older than `queued_at`; one outcome at most is recorded, later than every
queueing and start; a job started once was started after it was queued; and `error_message`
survives success: a job COMPLETED at its second attempt still quotes the error of its first.
What it does not say of a retried job is that `started_at` is later than `queued_at`. A worker with a
duplicate message may have read QUEUED and the clock, be overtaken by another's claim, failure and
requeue, and still match QUEUED: its `started_at` is from before the requeue, and the
queue delay of the row, `started_at - queued_at` by `README.md:53`, is negative. The model has these
behaviours: stated for every attempt rather than for the first, the second conjunct of `RowTellsStory`
is violated as soon as one lost connection has duplicated a message. The queue delay can be relied upon for
first attempts; after such a claim the processing latency, too, counts an attempt of another worker.

`EveryJobTerminates` excepts a job that a parse which never returns puts out of reach
(`OutOfReach`). Nothing in the code bounds `process()`, and the failure-mode design knows it
(`docs/superpowers/specs/2026-08-02-failure-mode-diagnosis-harness-design.md:64`: "No per-job
timeout (expected real gap)", "A pathological document wedges that worker indefinitely"; :316 plans
the scenario `slow-pdf`). `Hang` is an action of the model: its job stays STARTED for good, since no step but a
kill leaves `wedged`. The property says how far the damage goes. A job whose own parse hangs does not
end. Another message is held back only if all workers are wedged, or if a wedged worker
loses its connection and regains it: then it is a consumer again, with no delivery
outstanding, and the broker pushes it a message that it never looks at. In every other case the
remaining workers settle it, because `prefetch_count=1` sends nothing to a worker that is still at
work. In `liveness` malformed messages play the part of the other messages
(`PoisonDrains`); in a variant of its cfg with two documents (`DocOf <- TwoDocuments`) and one hang as the only fault,
TLC confirms that the other job always ends.

`DepthBounded` needs faults kept out as well. A worker that is killed, or loses its connection,
after it has published a retry and before it acks, leaves two copies of one message, and
malformed messages come from anybody; each of `crash`, `conn` and `poison` alone
breaks the bound, and without the three it is proved. `StartedIsHeld` likewise: `crash`, `db` and
`ambiguous` each break it alone, and without them it is proved. The live worker that
holds the job may be a wedged one.

`ConnectionsBounded` is tight: with M requests in flight, M - 1 may keep a
service of their own, and M may each open a connection for the shared one.
Nothing ever closes the connections that lost the race.

`worker_kill` shows what a report of the scenario is worth. The "Expected" of its
docstring holds without exception: a job interrupted by the kill is stuck. But
the kill may interrupt nothing, because the job was finished, or retried by
another worker, since the log was read; `reached_terminal=True` then means only
that. A report that is not terminal may still quote an old attempt count, since
`watch` compares statuses only. Its `queue_depth` counts unacknowledged deliveries
(`ListedDepth`), which the API's does not and the comment at
`local/pipeline/docker.py:132` does not mention. When `docker compose` fails inside the
`finally` the exception leaves `run` and the report is lost, against the
convention of `local/scenarios/base.py:8`.

`KeysAuthenticate` holds without conditions. The other three of `provisioning`
state theirs, because the code needs them: a command cut short between its
commit and the close of the file leaves accounts whose keys nobody has; two
commands side by side, or one after another that ended between opening the file
and writing, produce a file with a second header, none, or one below the rows.
Those outcomes are hazards that no property excludes; `HeaderOnce`, `ClientCanLoad` and
`AccountsHaveKeys` say where they cannot occur.

`VerdictIsFinal` is about the verdicts ok and failed. A run that ends in error promises
nothing: its job may still be created, run and complete after the client has given up.

`UpgradeSucceeds` is an equivalence. `cli migrate` fails in two cases: the revision that
adds `one_active_job_per_document` raises on a table that already has two
unfinished jobs of one document, and a database downgraded to base cannot be
upgraded again, for the first revision drops its tables and keeps its enum types.
`DowngradeReversesSchema` leaves out the
server default of `documents.file_name`, which the downgrade of `b2c3d4e5f6a7` removes although
`c3890ddba5ac` had set it; nor does the downgrade of `29e93f1a2527` turn
backfilled rows back into CREATED, although its design says that it reverses all
four steps (`docs/superpowers/specs/2026-05-13-enqueue-after-commit-design.md:44`).

Runs that show where the code and its documents part:

| Run | What the document says | What the code does |
|---|---|---|
| `stranded_by_crash` | SIGKILL is safe, redelivery recovers the job (`README.md:41`, `local/scenarios/worker_kill.py:3`) | the redelivered message finds STARTED and is dropped; the job never ends and its document stays blocked. The scenario file and the failure-mode design expect this |
| `idle_stop` | the flag is checked before the next message is pulled (`README.md:41`) | it is checked after; an idle worker does not stop |
| `late_commit` | `POST /documents` commits a row before any upload occurs (`docs/superpowers/specs/2026-08-01-uuid-identifiers-and-object-keys-design.md:210`) | the row is committed after the answer; the upload may come first, and the commit may fail |

A further one needs no run of its own: README.md:113 says that a database
unavailable at the STARTED commit makes the worker nack, and README.md:33 that the
message is always acked on failure. The commit of the claim is outside the `try`,
and `_handle_failure` does not catch a database error (`ClaimCommitFails`,
`FailureDbError`): the process ends with the message unsettled, and the broker redelivers it.

### Fairness

`FairSpec` of `Pipeline` assumes weak fairness of each worker's own steps, of each request's
steps once started, of delivery (RabbitMQ pushes while a channel has room) and of
`Restart` (ECS keeps the desired count). Nothing is assumed of clients, uploads
and faults, nor that processing succeeds: a job whose every attempt raises must
end FAILED.

Weak fairness of a worker's steps includes that what it awaits comes to an end: that calls of the
database, the broker and the object store return or raise, as their clients' timeouts and
connection errors have it, and that a parse returns or raises. The code guarantees nothing of
the kind for the parse, so there the assumption can be dropped: under the fault
`hang` it does not return, and `wedged` has no step for fairness to force.

`FairSpec` of `SmokeClient` assumes that the client itself runs, which includes
that a call ends, if by its timeout, and that time passes. Nothing is assumed of
the API and the workers, since `stranded_by_crash` shows that a job may stay
STARTED for good.

`ScenarioSpec` assumes the same of live workers, delivery and the one request, and
that the script runs and its deadlines pass. It assumes nothing of `Restart`, and
nothing of the commands it runs, which may fail at any step.

## 4. Proofs

All theorems hold for any number of documents, jobs, uploads, requests, commands, attempts and
faults. They rest on the named assumptions of the modules that declare the constants:
every job has a document, limits are positive numbers, `Nothing`, `None`, `NoFile`, `Poison` and `Header` are unlike what they stand beside,
and there are finitely many workers, which only `DepthAlwaysBounded` uses. A theorem
that needs more states it as `ASSUME`.

### The pipeline

`PipelineProofs`:

| Theorem | Statement |
|---|---|
| `TypeCorrect` | `Spec => []TypeOK` |
| `OneWriterAlways` | `Spec => []OneWriter` |
| `ClaimAlwaysCurrent` | `Spec => []ClaimIsCurrent` |
| `AttemptsAlwaysBounded` | `Spec => []AttemptsLedger` |
| `RowAlwaysTellsStory` | `Spec => []RowTellsStory` |
| `LifecycleImplemented` | `Spec => LifecycleSpec` |

`TypeOK` becomes inductive with `HandsFull` (a worker past the parsing of its
message holds a job id), because the claim copies the row of that job. The others
rest on `OwnershipInv`: a worker that processes, or is about to record a
failure, holds a job that is STARTED at exactly the attempt it remembers, or one
it has itself COMPLETED (`Owned`); no two workers hold the same job
(`Exclusive`); a document has one active job (`OneActiveJob`); the attempt column
fits the status (`AttemptsLedger`, `Untried`). `OneWriter` alone is not
inductive: it says nothing of what a claim may find.

The argument has two layers. `StepKinds` shows that each action of the pipeline
is, for ownership, one of five kinds of step: nothing gained, a job created, a
job started, a job finished, a job given back. `OwnershipStep` and
`LifecycleStep` then treat five cases rather than forty. `RowTellsStory` follows in
two further layers, since a worker may hold a clock reading that is long out of date.
`StoryInv` says what such readings can do: no recorded time is later than the last
commit (`StampsPast`), a row not yet there has none (`NoRowNoStory`), a job never
attempted was queued by its first commit (`QueuedAtCreation`), a worker about to claim has come after the
creation of the row (`ClaimAfterCreation`), and a worker about to record the result of its own attempt came
to that statement after every commit on the row, because nobody else writes the row of a job it
owns (`OwnerUndisturbed`). The last two give every stamp its lower bound (`Dating`,
`StampEffect`, `RowStep`, `ArrivalStep`); a retried claim has none but the creation, which is why the theorem
says nothing of it. `Owned` gives the attempt that the failure handler quotes.

On the artifact row and the Markdown object, in the same module:

| Theorem | Statement |
|---|---|
| `ArtifactAlwaysRecorded` | `Spec => []ArtifactRecorded` |
| `ArtifactAlwaysFresh` | `Spec => []ArtifactFresh` |
| `MarkdownAlwaysAdvances` | `Spec => MarkdownAdvances` |

The artifact row follows from the five kinds: only a step that finishes a job
touches it, in the transaction that writes COMPLETED. For the object a second
set of kinds is used (`StoreKinds`): untouched, uploaded, requested, fetched, put.
`VersionInv` says that nothing is ahead of the uploads, that a worker about to put
holds content no older than the object and than what its job was created over, and
that one about to complete has put it. A put by somebody else would
break the second of these; that there is no such worker is `OneWriter`, so the proof
uses the ownership invariant in every state.

`DeliveryProofs`:

| Theorem | Assumes | Statement |
|---|---|---|
| `MessageAlwaysHasRow` | | `Spec => []MessageHasRow` |
| `StartedAlwaysHeld` | no `crash`, `db`, `ambiguous` | `Spec => []StartedIsHeld` |
| `QueuedAlwaysCarried` | `Survivable`: no `queue`, and either no `conn` or neither `crash` nor `ambiguous` | `Spec => []QueuedIsCarried` |
| `DepthAlwaysBounded` | no `crash`, `conn`, `poison` | `Spec => []DepthBounded` |

The assumptions are as weak as they can be: TLC finds a counterexample for each
kind, or pair of kinds, that they exclude. `MessageHasRow` needs that a request about to publish has its row
(`EnqueueHasRow`). `QueuedIsCarried` needs to know what an ack removes: a delivery
the broker holds is in the buffer or in the hands of its worker (`Channels`), and,
while connections last, broker, buffer and hands agree (`Attached`), so that a worker
that dies gives back what it was working on. `DepthBounded` says nothing of
what is on its way into the queue; `QueueBounded` adds the messages workers may still
return (`Returning`) and the requests past the check (`Passed`), and the sum of the three
is bounded because a message only changes from one to another and a request passes
the check only below the threshold. `MessageKinds` shows that these are the
steps there are: settled, delivered, came back, entered, admitted.

`WorkerKillProofs`:

| Theorem | Statement |
|---|---|
| `KilledJobAlwaysStuck` | `ScenarioSpec => []KilledJobIsStuck` |
| `ReportAlwaysStands` | `ScenarioSpec => []ReportStands` |
| `ScenarioKeepsLifecycle` | `ScenarioSpec => LifecycleSpec` |

Every step of the stack under the scenario is a step of the pipeline but for the restart
of containers, so the types, the ownership invariant and the five kinds carry over
(`StackInv`). `Stuck` strengthens the first theorem: the killed job is STARTED and *nobody
holds it*, and no kind of step moves such a job. For the second, what the script
has read bounds what the row says now (`Snapshots`, `Reported`): attempts never go back, and
a verdict never changes. The third is the refinement of the pipeline again, with the
restart of all dead containers at once as one more step of the first kind.

### The API process, its clients and the tool

`MessagingClientProofs`:

| Theorem | Statement |
|---|---|
| `TypeCorrect` | `Spec => []TypeOK` |
| `ConnectionsAlwaysBounded` | `Spec => []ConnectionsBounded` |

The bound is not inductive: it must account for connections not yet opened. `WithinBudget`
adds to those opened one for each request that builds a service or has a private one
without a connection (`Pending`), and for the shared service as many as are already connecting, or,
while it has none, as many as can be in flight (`SharedMayOpen`). A closed connection renews
only that last part. `Shape` holds the facts behind it: no service is built
after the first is cached, a private client is used by its own request only.

`ProvisioningProofs`:

| Theorem | Statement |
|---|---|
| `KeysAlwaysAuthenticate` | `Spec => []KeysAuthenticate` |
| `AccountsAlwaysHaveKeys` | `Spec => []AccountsHaveKeys` |
| `ClientAlwaysLoads` | `Spec => []ClientCanLoad` |
| `HeaderAlwaysOnce` | `Spec => []HeaderOnce` |

`FileInv`: what a command will write is committed (`Committed`), a key not yet in the file is in the memory of
its command (`KeysKept`), and a wipe runs alone, file first (`NukeAlone`). `TidyInv`
adds, for commands that follow each other, that the answer of `exists()` is still true when the
file is opened (`HeaderRight`), and the form of the file (`FileTidy`).

`SmokeClientProofs`, for any positive `MaxAttempts`:

| Theorem | Statement |
|---|---|
| `VerdictsFinal` | `Spec => []VerdictIsFinal` |
| `PollsFindJobs` | `Spec => []PollFindsJob` |
| `RowsPromised` | `Spec => []RowMeansPromise` |

None of the three is inductive: a poll may return COMPLETED only because no
job exists without its document row, no COMPLETED job without its artifact, and
no accepted request without its job. `ClientInv` adds these facts (`Grounded`) and
types, and has one step per action.

### The migrations

`MigrationsProofs`, for any accounts, documents and jobs:

| Theorem | Statement |
|---|---|
| `MigrationInvariant` | `Spec => []MigrationInv` |
| `UpgradeSucceedsEverywhere` | `Spec => []UpgradeSucceeds` |
| `DowngradeSucceedsEverywhere` | `Spec => []DowngradeSucceeds` |
| `OneUnfinishedJobAlways` | `Spec => []OneUnfinishedJob` |
| `DowngradeReverses` | `Spec => []DowngradeReversesSchema` |
| `LossIsDeclared` | `Spec => LossOnlyWhereDeclared` |

None of the properties is inductive: each speaks of scripts that look at the whole schema.
`MigrationInv` says that at revision n (`At`) the tables have exactly the schema of n
(`Built`: enum, default, index, types, keys, constraints) and rows that it accepts (`Fits`:
every status is a label of the enum, the index finds no duplicate, no reference dangles),
or, at base, that there are no tables and the enum type is gone or complete.

The argument has three layers. A statement: when it raises, what it sets, and that it
leaves every other field alone (`Ran`, one lemma each). A script: from a database at n - 1 it
leads to one at n, or raises in the cases `Admits` names (`GoesUp`); from one at n it always
leads back (`GoesDown`); and it loses no rows but those it declares (`Keeps`). The
two scripts that matter are those of the enum: on the way up the backfill makes two QUEUED jobs of
a document only where there were two unfinished ones, which the index of revision 4
excludes (`FilledFits`); on the way down CREATED joins an index that no row with that
status is in. A command: `OneUp` and `OneDown` add one script to what has been run so far, whether
or not it is on the way, and `UpgradedCame` and `DowngradedBack` apply them eight times each.
Whether an upgrade fails depends only on the enum type and the rows it starts from
(`Clear`), because no script before the index touches a job.

### Model-checked only

* Liveness (`EveryJobTerminates`, `PoisonDrains`, `EveryRunEnds`, `ScenarioEnds`): outside the
  prover's reach, as is `ENABLED`. The three violations are counterexamples, which TLC finds.

## 5. Plan

Done: the core; `DocumentEndpoint` with `SmokeClient`, `Provisioning` and
`Migrations`; the columns of the job row, `MessagingClient` and `WorkerKill`; a proof of every
safety property the passing runs check. Next: several accounts, that is, what one account's key
can see and change of another's documents.

## 6. Not modelled

Formatting of answers and logs, permissions of the key file, URL signing and expiry, settings, the declarative
deployment stacks (but for the restart of tasks), the text of payloads, and the
docker helpers that no scenario calls (`stop`, `pause`, `disconnect` and their opposites). A
late effect of an object store request that the client has given up on is not
modelled: a put that raises has landed by then or never will.
