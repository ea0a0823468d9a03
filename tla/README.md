# Verification of the bandwidth measurement system

TLA+ models of the scheduler and the workers of the bandwidth measurement system, TLC
runs on small instances, and TLAPS proofs for every instance. Paths are relative to the
root of the repository; `scheduler/…` stands for `scheduler/src/…`, `worker/…` for
`worker/src/…`.

## 1. The system

A client posts a job. The **scheduler** stores it with four sub jobs in Postgres; one
background task takes the oldest unfinished sub job and drives it: the first scales up
worker services (AWS Fargate, or Docker on a developer's machine), the others broadcast a
job message over RabbitMQ. **Workers** run the benchmark at the agreed time and answer
with a status message and a result. Two consumers in the scheduler write those to
Postgres, where the handler sees them at its next turn. Other tasks scale the services
down after their deadline and set silent workers offline.

Components share state only through Postgres and RabbitMQ. Every task runs concurrently
with every other, statement by statement: no transaction spans two statements and no
update but those of `last_seen` has a condition on the state it replaces. That, with
crashes and redelivery, is where the hard behaviour is.

### Inventory

| Component | State | Operations | Correct when |
|---|---|---|---|
| Job API (`scheduler/api/jobs`) | `jobs`, `sub_jobs` | create: job, then 4 sub jobs, 5 inserts; cancel: 2 updates | the parts of a job are dispatched in order, canceled is final |
| Sub job handler (`background/sub_job_handler.rs`, `sub_job_combineddhp.rs`) | `sub_jobs`, `jobs`; a snapshot across awaits | pick the oldest; list, count, publish, Pending; read, Completed, siblings, job Completed; fail at the deadline | Completed only with the data, one publication, never stuck |
| Scaling sub jobs (`sub_job_scaling.rs`) | `sub_jobs`, `services.descale_at`, desired counts | set deadlines, scale each service, Processing; wait for workers | scaled once per attempt, always with a descale deadline |
| Service descaler (`service_descaler.rs`) | `services`, desired counts | list due services, scale each to 0, clear its deadline | every scaled service is descaled, none before its time |
| Service API (`scheduler/api/services`) | `services`, `service_topics`, desired counts | create, delete, enable, scale up, down, all down | as above, next to the other tasks |
| Service scalers (`service_scaler`) | desired count at ECS, containers | read the count, write another one | no lost update makes it negative or unbounded |
| Status consumer (`queue/status_consumer.rs`) | `workers`, `worker_topics`, `sub_jobs` | lifecycle (row, then topics), heartbeat, job status | the row and the topics follow the newest message |
| Data consumer (`queue/data_consumer.rs`) | `worker_data` | save, acknowledge | no published result is lost |
| Worker online check (`worker_online_check.rs`) | `workers` | list silent workers, set each offline | workers that are gone are unlisted, living ones are not |
| Worker (`worker/main.rs`, `queue`) | its run, its clock | online, heartbeat, job (status, run, result), offline | one run at a time for each consumer, and only a lost channel leaves an older run beside it; excluded workers do nothing |
| Broker client (`rabbitmq/src`) | connection, channels | connect, ensure channel, publish, consume, close | reconnects, one live channel each |
| Benchmarks (`worker/handlers`) | what was sent, received and logged so far | wait, send, read chunk by chunk; resolve, ping; HEAD requests; joined in one task | they end in time, logs are complete and aligned, pings do not disturb the download |
| Read-only API, routing, authentication, configuration | – | – | not modelled |

What is hard: writes based on a stale snapshot; the window between the publication and
the write of Pending; messages that are lost, late, redelivered or overtaken; crashes
between two statements of one operation; read-modify-write of the desired counts by three
tasks; loss of the connection at any await of five tasks that share it; timeouts that start
anew with every chunk. `PROJECT.json` lists each hazard at its line with the properties that cover it.

## 2. Modules

| Module | Models | Depends on |
|---|---|---|
| `JobPipeline` | jobs and sub jobs: create and cancel requests, sub job handler, job consumers of the workers, both consumers, crashes | `SubJobQueue` |
| `SubJobQueue` | abstract: what the scheduler promises about its queue, without handler, broker, workers and their failures | |
| `WorkerRegistry` | worker processes, their status messages, the status consumer's writes to `workers` and `worker_topics`, the online check | `StatusBoard` |
| `StatusBoard` | abstract: what the scheduler promises about the status of workers, without processes, queue and failures | |
| `ServiceScaling` | services, descale deadlines and desired counts under the handler, the descaler and `/services` | |
| `BrokerClient` | the crate `rabbitmq` in one program: connection manager, publishers, subscribers, start and end of `main` | `BrokerLink` |
| `BrokerLink` | abstract: a connection and the roles attached to it, changing in single steps | |
| `WorkerRun` | one run of a benchmark in a worker, with time: job consumer, download, ping, HEAD | |
| `JobPipeline_proofs`, `WorkerRegistry_proofs`, `ServiceScaling_proofs`, `BrokerClient_proofs`, `WorkerRun_proofs` | the theorems about each | its module, TLAPS |
| `JobPipeline_refinement`, `WorkerRegistry_refinement`, `BrokerClient_refinement` | the proofs that `JobPipeline` implements `SubJobQueue`, `WorkerRegistry` implements `StatusBoard` and `BrokerClient` implements `BrokerLink` | the proofs of its module |
| `MC…` | the model values, sets and symmetries of the instances | its module |

One action is one step between two awaits: one SQL statement, one publication, one call
of a provider. What a task keeps in locals across an await is a variable (`pc`, `cur`,
`want`, `excluded` of the handler; `handling`; `turn`, `descale`, `request`; `step`, `using`,
`building`), so every other task can run in between. Where the code ends a turn (`Ok`, `Skip`, `FailedJob`) the
action returns to the idle step, or goes to the step that writes `Failed`. Comments name
the function where the name of the action does not; the map in `PROJECT.json` gives the
lines of every definition. Operators with `(mutant)` in their comment are deliberately
wrong variants: put in place of the operator below them, each must break a property.

### JobPipeline and SubJobQueue

`sub_jobs` is indexed by the order of `created_at`; its rows carry status, kind, deadline
(`none`, `ahead`, `passed` instead of a time) and `workers_count`. A message is a record of its
run – worker, sub job, number of the publication – and the excluded workers. A queue
keeps what is ready, what is unacknowledged and what the consumer has processed but not
acknowledged. Workers may come, go and change in the registry at any time
(`Environment`), the number of enabled services is read anew each time: what the registry
and the service table really do is in the other modules.

A consumer that loses its channel does not stop: `consume` goes on to its end and only the acknowledgement
panics, while `Subscriber::run` sets up the next consumer. `WorkerCutOff` therefore leaves the run of a
worker going on as an `orphaned` one, `WorkerReconnects` binds a new queue, and its consumer may begin the next
run beside it (`Busy` asks only for the runs of the present consumer); `WorkerLeaves` is the end of the
process, which ends its runs. In the scheduler `StatusCutOff` and `DataCutOff` put the deliveries back, and the
statement the old consumer waits for (`late` of a queue) is executed at any later moment, beside or after the
redelivered one. `SchedulerCrashes` ends both consumers.

Abstracted: the content of
results, the start times (the guard of `WorkerStarts` says that a run starts only before the
deadline of its sub job, which is two minutes later than its start time), the job's
`workers_count` (written, read by no task).

`SubJobQueue` has six operations on a sub job: it enters, its workers are asked (counted),
it is announced, opened, answered and completed; `Drop` fails or cancels. The mapping at
the end of `JobPipeline` reads the stage from the status, the question from
`workers_count`, the announcement from the number of publications and the answers from
`worker_data`. It says where the handler's loop amounts to a queue although cancels and
late messages write the same rows: they may reopen a sub job, and that is all they may do.

### WorkerRegistry and StatusBoard

A worker takes a timestamp (`Compose`) and publishes later, so the
messages of its main task, its heartbeat task and its job consumer overtake each other. A publication
arrives (`PublishStatus`), returns an error (`PublishFails`) or returns `Ok` and is lost all the same
(`PublishLost`: the client does not ask for confirmations), and then main goes on as if the message were out.
The consumer handles a delivery in one step per statement: the row, then the topics of a lifecycle message or
the sub job of a job message, then the acknowledgement; each statement may fail. `fresh` holds the workers whose
`last_seen` is younger than a minute. `told` is history: the last lifecycle message the broker got from a
worker and the newest timestamp since its first one, before which the scheduler does not know the worker. A
killed or restarted worker keeps its clock; that a clock goes back is not modelled.

The consumer may lose its channel between two deliveries or before an acknowledgement (`ChannelLost`), or while
a statement is under way (`StatementLeft`). The statement then goes on without it, together with those that
follow (`late`), while the next consumer gets the same delivery again. `FollowsUnlessFailed` and
`NewestUnlessFailed` count such a statement as a failed one: executed after those of newer messages it has the
effect of `doc_topics`.

`StatusBoard` has the rows, the topics and the messages that are not settled, in no order. A message
is taken in at most once and only if it is newer than its row, decides on the topics if it is a
lifecycle message, and is settled after that. A message is `afloat` while the queue, the
unacknowledged deliveries or the consumer's hands hold it, `done` when nothing is left to do for it, and
`astray` while a consumer without a channel still works on it. The board says what a failed statement, a
redelivery behind newer messages, a crash or a stray statement may not do: undo a row, or settle a message that
has not done its work. What they may do is in it as well: a late lifecycle message still decides on the topics.

### ServiceScaling

The handler's turn, a round of the descaler and a request each read the desired count and
write another in a later step. `armed` says that the handler has set the deadlines in a
turn of the current sub job; as long as it is set, deadlines do not pass: with retries, a
sub job is scaled within the half hour of a deadline. That is an assumption about the constant, not
a guarantee of the code. Requests come one at a time with an
amount of one. `local_mode` is the configuration: the Docker scaler, whose command may fail
without anybody noticing, or the Fargate scaler; `scaling_live` is about Fargate only, because a
Docker service that silently was not scaled down has no deadline any more. Overflow of the
count is not modelled.

### BrokerClient and BrokerLink

The manager's turn (check, open, store, notify), the turn of each publisher and subscriber
on its channel (`step`, with the connection it has looked up in `using` and the channel not stored yet in
`building`) and `main` (wait for the connection, run, Offline, close the channels in
`CloseOrder`, close the connection) interleave; connections are lost, refused, and channels closed, at any
moment, `MaxFaults` times in all. The mutex of a channel is what `IsFree` asks for. A
notification that comes before `main` listens is lost, as in `tokio::sync::Notify`. The messages
themselves are in `JobPipeline`. About `amqprs`, which is not in the repository, the
head of the module lists four assumptions.

`BrokerLink` knows whether there is a connection, which roles are attached to it and which subscribers serve
their queue. To a program that is all there is: `Connect`, `Attach` and `Serve` one at a time, `Lose` and
`Detach` at any moment. A role is `Attached` when its stored channel works, and `Serving` when that channel
consumes; channels that are being built, looked up or orphaned do not show.

### WorkerRun

`now` counts units of time from the publication of the job message; `StartTime` and
`DownloadStartTime` are the moments the scheduler chose. A timer that is due stops the clock
(`Due`) unless the run loses a unit of time (`delays`): the task was not polled, or the name lookup,
which blocks its thread, took longer. Ping, HEAD and download are one loop each,
joined by `tokio::join!`; the answer of the network is a step that may come at any time, and
only pings and chunks have a timeout. Bytes are counted in small numbers, all that the logs
depend on; speeds and latencies are computed from what the model has and are left out.

## 3. Runs

Distinct states in parentheses. No run checks deadlocks: the systems legitimately
stop when their bounded inputs are used up or the program has ended; that nothing blocks is
what the liveness properties say.

| Run | Instance | Shows |
|---|---|---|
| `pipeline_workers` (1.4 M) | 2 benchmarks that need no scaling, 2 workers, 1 change of the workers: one leaves, joins, loses its channel or changes in the registry | `TypeOK`, `CompletedHasData` when counts and rows come from different sets of workers and a run goes on beside the next consumer's |
| `pipeline_live` (0.38 M) | a scaling sub job and a benchmark, 1 worker that stays, up to 2 services; any two of a cancel, a crash, a failed call and a lost message or consumer's channel | `NoInvalidState`, `DispatchInOrder`, `ResultsConserved`, `CompletedJobIsMeasured`, `RepublishNeedsFault`, `StartedHasDeadline`, `FinishedForGood`, `EventuallyDrained`, `ImplementsSubJobQueue` |
| `registry_live` (0.44 M) | 1 worker, 3 messages, 1 lost, 2 failed or late statements, 2 crashes or lost channels, 1 kill | `TypeOK`, `FollowsUnlessFailed`, `NewestUnlessFailed`, `ImplementsStatusBoard`, `EventuallyUnlisted` |
| `scaling_requests` (1.8 M) | 2 services, 2 sub jobs, 1 request, 1 failed call, 1 crash; Fargate or Docker | `TypeOK`, `ScaledPerAttempt` |
| `scaling_live` (3.5 k) | 2 services, 1 sub job, 2 failed calls, 1 crash; Fargate | `DatedUntilDisturbed`, `EventuallyDescaled` |
| `broker_live` (0.15 M) | 1 publisher, 1 subscriber, 2 faults | `TypeOK`, `NothingOrphaned`, `ImplementsBrokerLink`, `EventuallyReady`, `EventuallyDown`, `WokenByConnection` |
| `worker_live` (0.50 M) | 3 pings, 2 HEAD requests, 5 bytes, 2 delays, 1 failed publication | `TypeOK`, `LogsAddUp`, `OneLogPerInterval`, `EndsWithinTwice`, `QuietAtDownload`, `DownloadsTogether`, `AnsweredUnlessLate`, `EventuallyAcked` |

**The bounds.** Races between two actors need one of each: one job with two benchmarks shows a late
message against the next sub job, and two workers show a worker that was counted against one that
answered. One crash and one fault occur at every step of every task, and every two of the four kinds of
disturbance together (`MaxDisturbances`); more of them only repeat the pattern. One change of the workers
is enough for a run without its channel beside the next consumer's run; in `pipeline_live` nobody comes
or goes, and whether there are enough workers changes with the number of services instead. The theorems
below hold for any number of jobs, workers, cancels and faults; the runs that refute a statement of the
documentation use the four sub jobs of the program. The registry and a service are independent of other
workers and services (every statement concerns one row, but for a list of rows that is read first), so
one worker, or two services, suffice. Three messages are a start, a heartbeat or job status, and a stop,
or a start that fails or is killed and the next one, published in any order. Two faults are a loss during
the recovery from a loss; a second publisher or subscriber has a channel of its own and meets the others
only in the connection. The times of `WorkerRun` keep the order of the program's (start after 1 s,
download 10 s later, a margin of 2 s as long as the timeout of a ping, a maximum of 60 s with logs many
times within it): `SyncDelay` 1, `DownloadDelay` 5, `Margin` and `PingTimeout` 2, `MaxDuration` 4,
`LogInterval` 2. With these, chunks fall on, before and several intervals behind the next log, and the
maximum falls between two chunks. `LatestAnswer` is how long a call without a timeout may wait.

### Where code and documentation differ

Each of these runs has one property that quotes the repository, and TLC refutes it.

| Run | The text | What happens |
|---|---|---|
| `doc_cancel` | `cancel_job.rs:28` "Cancel a job and all its sub jobs" | the handler writes the status it decided on before; a late status message does the same |
| `doc_sequential` | `create_job.rs:97` "All subjobs are carried out sequentially" | a status message after the deadline makes a failed sub job Processing while the next one runs |
| `doc_topics` | `status_consumer.rs:53` "based on worker status" | a redelivered lifecycle message changes the topics although the row ignores it |
| `doc_leak` | `README.md:123` "workers will be descaled after set time" | the descaler clears the deadline the next job has just set |
| `doc_download` | `download.rs:13` "won't work/download more than this duration" | a server that stops sending holds the download for up to twice the maximum: each chunk has the whole maximum as its timeout |

`TopicsFollowLifecycle`, `EventuallyDescaled` and the bound on a download hold in one form and fail in another. The
first needs a statement that fails, the second a second job; without those they are worth
having, and the passing run says exactly how far they can be trusted. `EndsWithinTwice` is what
the code does instead of `EndsWithinMax`.

More differences were met and are in the models or the list of hazards, without a run of their own: a job
has four sub jobs where `create_job.rs:92` speaks of three; "if all sub jobs are completed"
(`sub_job_combineddhp.rs:176`) counts failed ones as done; a heartbeat between the query
of the online check and its update does not save the worker from being set offline until
its next heartbeat; a service whose deadline was extended after the descaler's query is
descaled all the same; a HEAD request that is not answered goes on beside the download; a
speed of infinity becomes `null` in JSON and its result cannot be parsed.

### Fairness

Only where the code schedules:

- `JobPipeline`, `WorkerRegistry`, `ServiceScaling`: weak fairness. The loops of the background tasks
  (`loop { sleep; … }`) and the consumers take their next step, a request that runs goes on, a
  deadline that is ahead passes. Workers are not fair: they may never answer, may leave, their messages may
  be lost, and the queue still drains, because every sub job gets a deadline. Requests,
  faults and crashes need not happen. The number of failed calls is bounded: with a
  database or a provider that fails for ever, nothing makes progress, in the model as in the
  program.
- `BrokerClient`: weak fairness of the manager, of the loops of publishers and subscribers and of
  the news that a connection is lost. Strong fairness of the end of `main`, because it waits for mutexes that
  others take again and again: `tokio::sync::Mutex` serves in the order of the requests.
- `WorkerRun`: time passes, a task that can go on is polled, and whoever is asked answers
  or fails in the end; no fairness for pings and chunks, which have timeouts. The program has no timeout for
  its HEAD requests and for the headers of the download: that these are answered is an assumption.

## 4. Proofs

For every value of the constants that satisfies the assumption of its module:

| Module | Theorem | Property |
|---|---|---|
| `JobPipeline_proofs` | `TypeCorrect` | `TypeOK` |
| | `CompletedIsBacked` | `CompletedHasData` |
| | `InvalidStatesUnreachable` | `NoInvalidState` |
| | `DispatchIsOrdered` | `DispatchInOrder` |
| | `RepublishIsBounded` | `RepublishNeedsFault` |
| | `ResultsAreConserved` | `ResultsConserved` |
| | `StartedAreDated` | `StartedHasDeadline` |
| | `OutcomesAreFinal` | `FinishedForGood` |
| | `CompletedJobsAreMeasured` | `CompletedJobIsMeasured` |
| | `RowsFit` | no insert beyond the rows of `sub_jobs` |
| `JobPipeline_refinement` | `QueueImplemented` | `ImplementsSubJobQueue` |
| `WorkerRegistry_proofs` | `TypeCorrect` | `TypeOK` |
| | `TopicsAreRight` | `FollowsUnlessFailed` |
| | `NewestIsKept` | `NewestUnlessFailed` |
| `WorkerRegistry_refinement` | `BoardImplemented` | `ImplementsStatusBoard` |
| `ServiceScaling_proofs` | `TypeCorrect` | `TypeOK` |
| | `ScalingIsBounded` | `ScaledPerAttempt` |
| | `ScaledIsDated` | `DatedUntilDisturbed` |
| `BrokerClient_proofs` | `TypeCorrect` | `TypeOK` |
| | `ReconnectsCleanly` | `NothingOrphaned` |
| `BrokerClient_refinement` | `LinkImplemented` | `ImplementsBrokerLink` |
| `WorkerRun_proofs` | `TypeCorrect` | `TypeOK` |
| | `LogsAreComplete` | `LogsAddUp` |
| | `LogsAreAligned` | `OneLogPerInterval` |
| | `DownloadIsBounded` | `EndsWithinTwice` |
| | `DownloadIsTimely` | `DownloadsTogether` |
| | `DownloadIsQuiet` | `QuietAtDownload` |
| | `RunsAreAnswered` | `AnsweredUnlessLate` |

The assumptions: finite sets of workers and services and natural bounds; a plan of sub
jobs that is not empty; a target between 1 and 40; publishers that are not subscribers and a `CloseOrder` of all
of them; in `WorkerRun`, a margin within the delay of the download and a ping timeout
within the margin, which is what `QuietAtDownload` rests on.

None of the properties is inductive. Each module has an `IInv`, the conjunction of what is;
`Init => IInv`, `IInv /\ [Next]_vars => IInv'` and `IInv` implying the property are separate
lemmas. Where many actions do the same to a part of the state, lemmas say so once
(`StepEffects`, `StepMoves`, `StepData`, `StepDeadline` in the pipeline; `CountWrites` in the
scaling; `ElsewhereKeeps` in the client).

**JobPipeline.**
`TypeInv`: the types, and that a create handler that runs has rows left and the sub job
handler knows its sub job.
In it, runs that are not orphaned belong to bound queues, one to each: that is what the code promises, of a
consumer and not of a worker.
`RowInv`: nothing is published, delivered, late or running for a row that is not there, and
the handler is in the branch of its sub job's kind.
`OrderInv`: from the moment the handler picks a row, all older rows are past Created;
they stay so, whatever status messages and cancels write.
`BudgetInv`: a row still Created after its publication, outside the window before the
write of Pending, has cost a crash or a fault. This makes the count of publications
inductive.
`CountInv`: the count is written before the first message goes out and never lost, so
whoever sets a benchmark Processing – a worker's message at any later time – finds it.
`DataInv`: the handler's snapshot of the count is the row's, rows of `worker_data` never
go away, and a sub job about to be counted anew is not Completed.
`DatedInv`: published rows without a deadline are no more than crashes and faults.
`SentInv`: what the data consumer is about to acknowledge has its row.
`JobInv`: for the last write of the handler, three statements after it read the data. A benchmark is
`Final` when it has a row for each worker it was counted for and is not about to be counted again; it
stays so whatever is written to it (`StepFinal`), the handler goes on to the job only from one that is,
and a Completed job has one.
`PlaceInv`: `created` is the number of places in the plans that have a row, so `sub_jobs` has room for
every insert. It shows that the bounded table is no restriction.
`FinishedForGood` is an action property: `RestingRow` and `RestingAlone` go through the steps that write a row,
pick one or send a message, and none can reach a finished row that neither the handler nor a message
refers to, but for the cancel of its job.

**The refinements.** For `SubJobQueue` beyond `IInv` it needs `PathInv`: which statuses the handler's steps can
meet, that only benchmarks have a count, and that results wait only for what was published. One lemma per
group of actions shows the abstract step it takes: most take none, the write of the count is `Ask`, the
publication `Announce`, the writes of Pending and Processing `Open`, a saved row `Answer`, and so on.
For `StatusBoard` it needs `MarkInv`: a message whose topics come next, in hand or late, is in the row of its
worker; that stays so, because rows are never deleted and `last_seen` only grows. What fails or is delivered
again stays afloat. The first statement maps to
`TakeIn`, the second to `SetTopics`, the acknowledgement to `Settle`, an update of the online check to `Silence`, the late statements
to those of a stray, and a crash or a lost channel to `Redo`.
For `BrokerLink` it needs that nobody knows a connection before it is stored (`NewInv`), so that no role attaches
before the program is connected, and that a channel about to consume has no consumer yet (`OnceInv`). The
loss of a connection is the one step that takes every role with it, although the tasks give up their channels one by one.

**WorkerRegistry.** The properties speak of workers whose messages are all processed; the
invariant says what holds while some are on their way. `TopicsInv`: the last lifecycle message in the
queue is the last one published, and with none in the queue the topics are already right, counting the
statement the consumer is about to execute. `RowInv`: a worker has a row, or a lifecycle
message in the queue that will write it, exactly if the broker ever got one. `NewestInv`: neither the row nor a message
that will find a row (`Counting`) is newer than what the broker got, and one of them is it. All three as long
as no statement failed or outlived its channel; then nothing is unacknowledged or late but the delivery in hand,
which a crash or the loss of the channel puts back in front.

**ServiceScaling.** `BudgetInv` bounds not only the counts that are stored but those a task
has read and will write back: each is at most what the attempts so far may have added, where the
present attempt counts for a service only once it has scaled it. Lost updates then only lower a count.
`ScaledIsDated` speaks of the states up to a disturbance (`Undisturbed`): a request, a second scaling sub
job, Docker, or counts beyond `i32::MAX`. What was disturbed stays so (`DisturbedForGood`), so only steps that
begin and end undisturbed have to keep `DatedInv`: what the handler still scales has
the deadline it has set, nothing is due nor in the descaler's hands before the handler is done, and
the descaler clears only deadlines of services it has scaled to 0 – where the bound of `BudgetInv` shows that
`saturating_sub(i32::MAX)` is 0.

**BrokerClient.** `ConnectionInv`: while the manager opens a connection none is up, and what it
has opened and not stored is the newest. `RoleInv`: a role builds a channel only while the one it has
stored does not work, so that storing the new one orphans nothing; `OpenInv`: whatever works is stored or being built.

**WorkerRun.** `LoopInv` and `AnswerInv` tie counters and answers to the step of the run;
`TimeInv`: a download that waits is not later than its start but for what the task lost; an await began before the limit that was checked in front of it – the loop's deadline for a ping,
the maximum for a chunk – and is not older than its timeout plus what the task lost; `LogInv`: the next log is due
in an interval after the last one's.

Only model-checked: liveness under fairness (`EventuallyDrained`, `EventuallyUnlisted`,
`EventuallyDescaled`, `EventuallyReady`, `EventuallyDown`, `EventuallyAcked`, `WokenByConnection`), which is
out of the prover's reach. Every invariant and every action property of a passing run is also a
theorem, and so are the three refinements; the abstract specifications are safety only.

## 5. Not modelled

- The queries of the API (`get_job`, `get_jobs`, `get_services`, `services_info`): they change no
  state; the statistics of `get_job` are arithmetic on its rows.
- Routing, authentication, the API documentation, parsing of requests, messages and
  configuration, the start of the tasks in `main` of the scheduler: stateless.
- In creating a job: the HEAD request, the choice of the file range and the validation.
- The lookup of region and cluster by the Fargate scaler and the overflow of its counts.
- The content of measurements, and what is computed from it.
- TCP, RabbitMQ, Postgres and `amqprs` but for what the code can tell: failures, order,
  redelivery, transient queues that go away. A channel is lost to both ends at once: that the broker holds
  the deliveries of a connection the client has given up, until it notices as well, is not modelled.
- A statement that the database executes after the scheduler that sent it has crashed.

## 6. Plan

Done: all modules above with their proofs. Left:

1. Abstract specifications of a run (what `WorkerRun` promises the scheduler: at most one status and one result
   of a message, and its acknowledgement last) and of the counts of a service, with their refinements.
2. A composition of `JobPipeline` with `WorkerRegistry` in which the workers listed come
   from the messages instead of changing freely. It can only remove behaviours, so the safety
   properties proved hold in it; it would sharpen what is known of progress.
3. Several requests to `/services` at a time, with the race of a request that clears a
   deadline while the handler scales.
