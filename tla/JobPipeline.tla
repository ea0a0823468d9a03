---------------------------- MODULE JobPipeline ----------------------------
(***************************************************************************)
(* The life of a measurement job: the API handlers that create and cancel  *)
(* it, the sub job handler that drives its sub jobs one after another, the *)
(* workers that receive a job message and run the benchmark, and the two   *)
(* queue consumers that bring status and results back into Postgres.       *)
(*                                                                         *)
(* One action is one step between two awaits: a statement the program      *)
(* sends to Postgres or a message it hands to RabbitMQ.  Everything a task *)
(* keeps in its locals across an await is a variable here, so that every   *)
(* other task may run in between.  The scheduler process may crash between *)
(* any two steps; it restarts at once, its locals and the deliveries it    *)
(* had not acknowledged start over.                                        *)
(*                                                                         *)
(* Workers are those subscribed to the routing key of the jobs.  The       *)
(* worker registry (online) and the bound queues (listening) change freely *)
(* here; the service table and the scalers appear only through what the    *)
(* handler decides from them.                                              *)
(***************************************************************************)
EXTENDS Naturals, Sequences, FiniteSets

CONSTANTS
    Workers,         \* names of the workers of the routing key
    MaxJobs,         \* bound: POST /jobs requests
    TargetWorkers,   \* worker_count of the requests
    MaxServices,     \* bound: services enabled for the topic
    Plan,            \* the kinds of the sub jobs of a job, in the order of their inserts
    MaxCancels,      \* bound: DELETE /jobs/{job_id} requests, one per job
    MaxCrashes,      \* bound: crashes of the scheduler
    MaxFaults,       \* bound: failed calls of the sub job handler
    MaxLosses,       \* bound: messages not published or not processed, channels of
                     \* the scheduler's consumers lost
    MaxDisturbances, \* bound: cancels, crashes, failed calls and losses in all
    MaxChurn         \* bound: workers that go, lose their channel or change in the registry

Kinds == {"Scaling", "Partial1", "Partial80", "Full"}

\* What handle_create_job inserts.
ProgramPlan == <<"Scaling", "Partial1", "Partial80", "Full">>

ASSUME JobPipelineAssumption ==
    /\ IsFiniteSet(Workers)
    /\ MaxJobs \in Nat \ {0}
    /\ TargetWorkers \in 1..40
    /\ MaxServices \in Nat \ {0}
    /\ Plan \in Seq(Kinds) /\ Plan # <<>>
    /\ MaxCancels \in Nat
    /\ MaxCrashes \in Nat
    /\ MaxFaults \in Nat
    /\ MaxLosses \in Nat
    /\ MaxDisturbances \in Nat
    /\ MaxChurn \in Nat

Jobs == 1..MaxJobs

\* A sub job is known by its place in the order of created_at.
SubJobs == 1..(Len(Plan) * MaxJobs)

Unfinished == {"Created", "Pending", "Processing"}
SubJobStatus == Unfinished \union {"Completed", "Failed", "Canceled"}
JobStatus == {"Pending", "Completed", "Canceled"}
Deadlines == {"none", "ahead", "passed"}

\* workers_count is missing from the details of a new sub job.
Missing == 0

SubJobRow == [job: Jobs, kind: Kinds, status: SubJobStatus \union {"absent"},
              deadline: Deadlines, workers_count: Nat]

\* One delivery of a job message is one run: its run_id.
Runs == [worker: Workers, sub: SubJobs, pub: Nat]
Messages == [run: Runs, excluded: SUBSET Workers]
Queue == [ready: SUBSET Runs, unacked: SUBSET Runs, done: SUBSET Runs, late: SUBSET Runs]
EmptyQueue == [ready |-> {}, unacked |-> {}, done |-> {}, late |-> {}]

HandlerSteps == {"idle", "list", "count", "publish", "pending", "read", "complete",
                 "siblings", "finish", "fail", "scale", "cancel", "scaled", "check"}

VARIABLES
    jobs,         \* table jobs: the status of each row
    sub_jobs,     \* table sub_jobs
    created,      \* number of rows of sub_jobs
    inserted,     \* rows the create handler of a job has inserted
    creating,     \* jobs whose create handler is running
    canceling,    \* the step of the cancel handler of a job
    worker_data,  \* table worker_data: the runs that have a row
    pc,           \* the next step of the sub job handler
    cur,          \* its sub job
    want,         \* its workers_count
    excluded,     \* its excluded_workers
    pubs,         \* how often the message of a sub job was published
    jobQ,         \* deliveries that wait in the workers' queues
    running,      \* runs in progress
    orphaned,     \* those of them whose consumer has lost its channel
    statusQ,      \* the status queue: job status messages
    dataQ,        \* the result queue
    sent,         \* results a worker has published
    listening,    \* workers whose queue is bound
    reconnecting, \* workers whose subscriber has lost its channel
    online,       \* workers the registry lists for the topic
    crashes, faults, losses, churn

apiVars == <<inserted, creating, canceling>>
tables == <<jobs, sub_jobs, created, worker_data>>
handlerVars == <<pc, cur, want, excluded>>
workerVars == <<jobQ, running, orphaned, sent, listening, reconnecting>>
bounds == <<crashes, faults, losses, churn>>
vars == <<tables, apiVars, handlerVars, pubs, workerVars, statusQ, dataQ, online, bounds>>

Canceling == {j \in Jobs : canceling[j] # "no"}

Disturbs == Cardinality(Canceling) + crashes + faults + losses < MaxDisturbances

----------------------------------------------------------------------------
(* Reading the tables *)

IsBenchmark(s) == sub_jobs[s].kind # "Scaling"

IsUnfinished(s) == sub_jobs[s].status \in Unfinished

SubJobsOf(j) == {s \in 1..created : sub_jobs[s].job = j}

\* (mutant) any unfinished sub job, without ORDER BY created_at
FirstUnfinished_AnyOrder(s) == IsUnfinished(s)

\* get_first_unfinished_sub_job: ORDER BY created_at LIMIT 1
FirstUnfinished(s) ==
    /\ IsUnfinished(s)
    /\ \A t \in 1..(s - 1) : ~IsUnfinished(t)

\* get_data_by_sub_job_id
DataOf(s) == {r \in worker_data : r.sub = s}

\* count_pending_sub_jobs(CombinedDHP) = 0
NoBenchmarkLeft(j) == \A s \in SubJobsOf(j) : IsBenchmark(s) => ~IsUnfinished(s)

\* (mutant) WHERE job_id = $1
SetStatus_WholeJob(s, status) ==
    sub_jobs' = [x \in SubJobs |->
        IF x \in SubJobsOf(sub_jobs[s].job) THEN [sub_jobs[x] EXCEPT !.status = status]
                                            ELSE sub_jobs[x]]

SetStatus(s, status) == sub_jobs' = [sub_jobs EXCEPT ![s].status = status]

\* (mutant) the deadline is forgotten
SetStatusAndDeadline_NoDeadline(s, status) == SetStatus(s, status)

\* update_sub_job_status_and_deadline: one statement, the deadline ahead.
SetStatusAndDeadline(s, status) ==
    sub_jobs' = [sub_jobs EXCEPT ![s].status = status, ![s].deadline = "ahead"]

----------------------------------------------------------------------------
(* Arithmetic of the handler *)

\* get_excluded_workers: the number of n workers a sub job leaves out.  A
\* missing partial (the last sub job) excludes nobody.
ExcludedCount(kind, n) ==
    CASE kind = "Partial1"  -> (n * 99) \div 100
      [] kind = "Partial80" -> (n * 20) \div 100
      [] OTHER              -> 0

\* The workers a topic with n enabled services is scaled to.
WorkersCount(n) == ((TargetWorkers + n - 1) \div n) * n

EnoughOnline(n) == Cardinality(online) >= WorkersCount(n)

\* (mutant) the deadline is never checked
DeadlineOk_Unchecked(s) == TRUE

\* check_deadline
DeadlineOk(s) == sub_jobs[s].deadline = "ahead"

\* (mutant) the rows of every sub job count
DataSuffices_AnySubJob(s, n) == Cardinality(worker_data) >= n

DataSuffices(s, n) == Cardinality(DataOf(s)) >= n

----------------------------------------------------------------------------
(* POST /jobs: the job row, then one row per sub job, each its own insert *)

InsertJob(j) ==
    /\ inserted[j] = 0
    /\ jobs' = [jobs EXCEPT ![j] = "Pending"]
    /\ inserted' = [inserted EXCEPT ![j] = 1]
    /\ creating' = creating \union {j}
    /\ UNCHANGED <<sub_jobs, created, worker_data, canceling, handlerVars, pubs,
                   workerVars, statusQ, dataQ, online, bounds>>

NewRow(j) == [job |-> j, kind |-> Plan[inserted[j]], status |-> "Created",
              deadline |-> "none", workers_count |-> Missing]

InsertSubJob(j) ==
    /\ j \in creating
    /\ created' = created + 1
    /\ sub_jobs' = [sub_jobs EXCEPT ![created + 1] = NewRow(j)]
    /\ inserted' = [inserted EXCEPT ![j] = @ + 1]
    /\ creating' = IF inserted[j] = Len(Plan) THEN creating \ {j} ELSE creating
    /\ UNCHANGED <<jobs, worker_data, canceling, handlerVars, pubs, workerVars,
                   statusQ, dataQ, online, bounds>>

\* An insert fails: the request answers 500 and leaves what it has inserted.
InsertFails(j) ==
    /\ j \in creating
    /\ creating' = creating \ {j}
    /\ UNCHANGED <<tables, inserted, canceling, handlerVars, pubs, workerVars,
                   statusQ, dataQ, online, bounds>>

----------------------------------------------------------------------------
(* DELETE /jobs/{job_id}: the job, then all its sub jobs whatever their status *)

CancelJob(j) ==
    /\ inserted[j] > 0
    /\ j \notin Canceling
    /\ Cardinality(Canceling) < MaxCancels /\ Disturbs
    /\ jobs' = [jobs EXCEPT ![j] = "Canceled"]
    /\ canceling' = [canceling EXCEPT ![j] = "half"]
    /\ UNCHANGED <<sub_jobs, created, worker_data, inserted, creating, handlerVars,
                   pubs, workerVars, statusQ, dataQ, online, bounds>>

CancelSubJobs(j) ==
    /\ canceling[j] = "half"
    /\ sub_jobs' = [s \in SubJobs |->
           IF s \in SubJobsOf(j) THEN [sub_jobs[s] EXCEPT !.status = "Canceled"]
                                 ELSE sub_jobs[s]]
    /\ canceling' = [canceling EXCEPT ![j] = "done"]
    /\ UNCHANGED <<jobs, created, worker_data, inserted, creating, handlerVars,
                   pubs, workerVars, statusQ, dataQ, online, bounds>>

CancelFails(j) ==
    /\ canceling[j] = "half"
    /\ canceling' = [canceling EXCEPT ![j] = "failed"]
    /\ UNCHANGED <<tables, inserted, creating, handlerVars, pubs, workerVars,
                   statusQ, dataQ, online, bounds>>

----------------------------------------------------------------------------
(* sub_job_handler: one sub job per turn of the loop.  What is not written *)
(* here for a picked row (a Pending benchmark before its deadline) leaves  *)
(* everything as it is.                                                    *)

\* The handler goes on with step p of the sub job it works on, or returns.
GoOn(p) == pc' = p /\ UNCHANGED <<cur, want, excluded>>

Return ==
    /\ pc' = "idle"
    /\ cur' = 0
    /\ want' = Missing
    /\ excluded' = {}

HandlerFrame ==
    UNCHANGED <<created, worker_data, apiVars, running, orphaned, sent, listening,
                reconnecting, statusQ, dataQ, online, bounds>>

Pick(s, step) ==
    /\ pc = "idle"
    /\ FirstUnfinished(s)
    /\ pc' = step
    /\ cur' = s
    /\ want' = sub_jobs[s].workers_count
    /\ UNCHANGED <<jobs, sub_jobs, excluded, pubs, jobQ>>
    /\ HandlerFrame

PickCreated(s) ==
    /\ sub_jobs[s].status = "Created"
    /\ Pick(s, IF IsBenchmark(s) THEN "list" ELSE "scale")

\* What the handler fails at once: no deadline or a deadline that has passed,
\* "Invalid pending state" of a scaling sub job, "missing workers count".
MustFail(s) ==
    \/ ~DeadlineOk(s)
    \/ ~IsBenchmark(s) /\ sub_jobs[s].status = "Pending"
    \/ IsBenchmark(s) /\ sub_jobs[s].status = "Processing"
                      /\ sub_jobs[s].workers_count = Missing

PickExpired(s) ==
    /\ sub_jobs[s].status \in {"Pending", "Processing"}
    /\ MustFail(s)
    /\ Pick(s, "fail")

PickProcessing(s) ==
    /\ sub_jobs[s].status = "Processing"
    /\ ~MustFail(s)
    /\ Pick(s, IF IsBenchmark(s) THEN "read" ELSE "check")

\* The sub job row gets the status and the error, whatever it holds by now.
WriteFailed ==
    /\ pc = "fail"
    /\ SetStatus(cur, "Failed")
    /\ Return
    /\ UNCHANGED <<jobs, pubs, jobQ>>
    /\ HandlerFrame

----------------------------------------------------------------------------
(* process_status_created: list, count, publish, pending *)

ListWorkers ==
    /\ pc = "list"
    /\ \/ /\ online = {}
          /\ GoOn("fail")
       \/ \E out \in SUBSET online :
             /\ online # {}
             /\ Cardinality(out) = ExcludedCount(sub_jobs[cur].kind, Cardinality(online))
             /\ pc' = "count"
             /\ want' = Cardinality(online) - Cardinality(out)
             /\ excluded' = out
             /\ UNCHANGED cur
    /\ UNCHANGED <<jobs, sub_jobs, pubs, jobQ>>
    /\ HandlerFrame

\* (mutant) the count is not written before the message goes out
WriteWorkersCount_Skipped ==
    /\ pc = "count"
    /\ GoOn("publish")
    /\ UNCHANGED <<jobs, sub_jobs, pubs, jobQ>>
    /\ HandlerFrame

WriteWorkersCount ==
    /\ pc = "count"
    /\ sub_jobs' = [sub_jobs EXCEPT ![cur].workers_count = want]
    /\ GoOn("publish")
    /\ UNCHANGED <<jobs, pubs, jobQ>>
    /\ HandlerFrame

\* The topic exchange copies the message into every queue bound now.
Deliveries ==
    {[run |-> [worker |-> w, sub |-> cur, pub |-> pubs[cur] + 1],
      excluded |-> excluded] : w \in listening}

Publish ==
    /\ pc = "publish"
    /\ jobQ' = jobQ \union Deliveries
    /\ pubs' = [pubs EXCEPT ![cur] = @ + 1]
    /\ GoOn("pending")
    /\ UNCHANGED <<jobs, sub_jobs>>
    /\ HandlerFrame

\* (mutant) the sub job stays Created after the publication
WritePending_Forgotten ==
    /\ pc = "pending"
    /\ Return
    /\ UNCHANGED <<jobs, sub_jobs, pubs, jobQ>>
    /\ HandlerFrame

WritePending ==
    /\ pc = "pending"
    /\ SetStatusAndDeadline(cur, "Pending")
    /\ Return
    /\ UNCHANGED <<jobs, pubs, jobQ>>
    /\ HandlerFrame

----------------------------------------------------------------------------
(* process_status_processing: read, complete, siblings, finish *)

ReadData ==
    /\ pc = "read"
    /\ IF DataSuffices(cur, want) THEN GoOn("complete") ELSE Return
    /\ UNCHANGED <<jobs, sub_jobs, pubs, jobQ>>
    /\ HandlerFrame

\* (mutant) a scaling sub job completes its job as well
WriteCompleted_AnyKind ==
    /\ pc = "complete"
    /\ SetStatus(cur, "Completed")
    /\ GoOn("siblings")
    /\ UNCHANGED <<jobs, pubs, jobQ>>
    /\ HandlerFrame

WriteCompleted ==
    /\ pc = "complete"
    /\ SetStatus(cur, "Completed")
    /\ IF IsBenchmark(cur) THEN GoOn("siblings") ELSE Return
    /\ UNCHANGED <<jobs, pubs, jobQ>>
    /\ HandlerFrame

CountSiblings ==
    /\ pc = "siblings"
    /\ IF NoBenchmarkLeft(sub_jobs[cur].job) THEN GoOn("finish") ELSE Return
    /\ UNCHANGED <<jobs, sub_jobs, pubs, jobQ>>
    /\ HandlerFrame

WriteJobCompleted ==
    /\ pc = "finish"
    /\ jobs' = [jobs EXCEPT ![sub_jobs[cur].job] = "Completed"]
    /\ Return
    /\ UNCHANGED <<sub_jobs, pubs, jobQ>>
    /\ HandlerFrame

----------------------------------------------------------------------------
(* process_scaling: the sub job waits until enough workers are online *)

\* n services are enabled for the topic now; scaling them is not modelled here.
ScalingCreated ==
    /\ pc = "scale"
    /\ \E n \in 0..MaxServices :
          \/ n = 0 /\ GoOn("fail")
          \/ n > 0 /\ EnoughOnline(n) /\ GoOn("cancel")
          \/ n > 0 /\ ~EnoughOnline(n) /\ GoOn("scaled")
    /\ UNCHANGED <<jobs, sub_jobs, pubs, jobQ>>
    /\ HandlerFrame

ScalingCanceled ==
    /\ pc = "cancel"
    /\ SetStatus(cur, "Canceled")
    /\ Return
    /\ UNCHANGED <<jobs, pubs, jobQ>>
    /\ HandlerFrame

ScalingStarted ==
    /\ pc = "scaled"
    /\ SetStatusAndDeadline(cur, "Processing")
    /\ Return
    /\ UNCHANGED <<jobs, pubs, jobQ>>
    /\ HandlerFrame

ScalingCheck ==
    /\ pc = "check"
    /\ \E n \in 0..MaxServices :
          \/ n = 0 /\ GoOn("fail")
          \/ n > 0 /\ EnoughOnline(n) /\ GoOn("complete")
          \/ n > 0 /\ ~EnoughOnline(n) /\ Return
    /\ UNCHANGED <<jobs, sub_jobs, pubs, jobQ>>
    /\ HandlerFrame

----------------------------------------------------------------------------
(* A call of the handler returns an error.  Skip leaves the sub job for the *)
(* next turn, FailedJob fails it; an error while failing it is ignored.     *)

SkipSteps == HandlerSteps \ {"idle", "pending"}
FailSteps == {"pending", "scale", "scaled", "check"}

HandlerFault ==
    /\ faults < MaxFaults /\ Disturbs
    /\ faults' = faults + 1
    /\ \/ pc \in SkipSteps /\ Return
       \/ pc \in FailSteps /\ GoOn("fail")
    /\ UNCHANGED <<tables, apiVars, pubs, workerVars, statusQ, dataQ, online,
                   crashes, losses, churn>>

----------------------------------------------------------------------------
(* A worker: its job consumer handles one delivery at a time and            *)
(* acknowledges it in any case.  What it publishes may be lost: the error   *)
(* is only logged.  The subscriber sets up another consumer when the        *)
(* channel is gone, and does not wait for the run of the one before.        *)

\* The consumer of the channel that w has now is at a run.
Busy(w) == \E r \in running \ orphaned : r.worker = w

\* (mutant) consume hands the delivery to a task of its own and returns
Receives_Spawned(m) == jobQ' = jobQ \ {m}

\* m.run is next for the consumer of its worker: no other delivery comes before
\* consume returns.  A consumer that was cut off does not count.
Receives(m) ==
    /\ ~Busy(m.run.worker)
    /\ jobQ' = jobQ \ {m}

Published(q, r) ==
    [ready |-> q.ready \union {r}, unacked |-> q.unacked, done |-> q.done, late |-> q.late]

Loses == losses < MaxLosses /\ Disturbs /\ losses' = losses + 1

PublishStatus(r) ==
    \/ Loses /\ UNCHANGED statusQ
    \/ /\ statusQ' = Published(statusQ, r)
       /\ UNCHANGED losses

PublishResult(r) ==
    \/ Loses /\ UNCHANGED <<dataQ, sent>>
    \/ /\ dataQ' = Published(dataQ, r)
       /\ sent' = sent \union {r}
       /\ UNCHANGED losses

WorkerFrame == UNCHANGED <<tables, apiVars, handlerVars, pubs, listening, reconnecting,
                           online, crashes, faults, churn>>

WorkerExcluded(m) ==
    /\ m.run.worker \in m.excluded
    /\ Receives(m)
    /\ UNCHANGED <<running, orphaned, statusQ, dataQ, sent, losses>>
    /\ WorkerFrame

\* "Start time is in the past": an aborted result, and no job status.
WorkerAborts(m) ==
    /\ m.run.worker \notin m.excluded
    /\ Receives(m)
    /\ PublishResult(m.run)
    /\ UNCHANGED <<running, orphaned, statusQ>>
    /\ WorkerFrame

\* start_time is two minutes before the deadline of the sub job.
WorkerStarts(m) ==
    /\ m.run.worker \notin m.excluded
    /\ sub_jobs[m.run.sub].deadline # "passed"
    /\ Receives(m)
    /\ running' = running \union {m.run}
    /\ PublishStatus(m.run)
    /\ UNCHANGED <<orphaned, dataQ, sent>>
    /\ WorkerFrame

\* The run ends, successful or not.  Nothing is sent when start_time went by
\* before the worker slept.  The acknowledgement follows; it fails, and ends its
\* task, when the channel is gone.
WorkerFinishes(r) ==
    /\ r \in running
    /\ running' = running \ {r}
    /\ orphaned' = orphaned \ {r}
    /\ PublishResult(r)
    /\ UNCHANGED <<jobQ, statusQ>>
    /\ WorkerFrame

Churns == churn < MaxChurn /\ churn' = churn + 1

\* The queue of a worker is transient and goes away with its consumer.
QueueGone(w) ==
    /\ listening' = listening \ {w}
    /\ jobQ' = {m \in jobQ : m.run.worker # w}

\* The process ends, and its runs with it.
WorkerLeaves(w) ==
    /\ w \in listening \union reconnecting
    /\ Churns
    /\ QueueGone(w)
    /\ reconnecting' = reconnecting \ {w}
    /\ running' = {r \in running : r.worker # w}
    /\ orphaned' = {r \in orphaned : r.worker # w}
    /\ UNCHANGED <<tables, apiVars, handlerVars, pubs, sent, statusQ, dataQ, online,
                   crashes, faults, losses>>

\* Its channel or connection is lost; the process and its run go on.
WorkerCutOff(w) ==
    /\ w \in listening
    /\ Churns
    /\ QueueGone(w)
    /\ reconnecting' = reconnecting \union {w}
    /\ orphaned' = orphaned \union {r \in running : r.worker = w}
    /\ UNCHANGED <<tables, apiVars, handlerVars, pubs, running, sent, statusQ, dataQ, online,
                   crashes, faults, losses>>

\* The subscriber sets up the queue again, with a new consumer.
WorkerReconnects(w) ==
    /\ w \in reconnecting
    /\ listening' = listening \union {w}
    /\ reconnecting' = reconnecting \ {w}
    /\ UNCHANGED <<tables, apiVars, handlerVars, pubs, jobQ, running, orphaned, sent, statusQ,
                   dataQ, online, bounds>>

WorkerJoins(w) ==
    /\ w \notin listening \union reconnecting
    /\ Churns
    /\ listening' = listening \union {w}
    /\ UNCHANGED <<tables, apiVars, handlerVars, pubs, jobQ, running, orphaned, sent,
                   reconnecting, statusQ, dataQ, online, crashes, faults, losses>>

\* The registry follows the workers by messages of their own, with a delay.
RegistryChanges(w) ==
    /\ Churns
    /\ online' = IF w \in online THEN online \ {w} ELSE online \union {w}
    /\ UNCHANGED <<tables, apiVars, handlerVars, pubs, workerVars, statusQ, dataQ,
                   crashes, faults, losses>>

----------------------------------------------------------------------------
(* The two consumers of the scheduler.  Each handles one delivery after the *)
(* other, acknowledges it only when it was processed, and otherwise leaves  *)
(* it unacknowledged: the broker keeps it until the channel is gone.  Then  *)
(* a new consumer takes over, while the statement the old one waits for may *)
(* still be under way.                                                      *)

\* (mutant) acknowledged in any case, as the job consumer of a worker does
Deliver_AckAlways(q, r, ok) ==
    [ready   |-> q.ready \ {r},
     unacked |-> q.unacked \union {r},
     done    |-> q.done \union {r},
     late    |-> q.late]

Deliver(q, r, ok) ==
    [ready   |-> q.ready \ {r},
     unacked |-> q.unacked \union {r},
     done    |-> IF ok THEN q.done \union {r} ELSE q.done,
     late    |-> q.late]

IsNext(q, r) == r \in q.ready /\ q.done = {}

Acked(q) ==
    [ready |-> q.ready, unacked |-> q.unacked \ q.done, done |-> {}, late |-> q.late]

\* The channel is gone: what was not acknowledged is put back, while the statements
\* of the deliveries in late go on.
Requeued(q, late) ==
    [ready |-> q.ready \union q.unacked, unacked |-> {}, done |-> {}, late |-> late]

\* The consumer is between two deliveries, or its statement for one is under way.
CutOff(q) ==
    {Requeued(q, q.late)} \union
    {Requeued(q, q.late \union {r}) : r \in {x \in q.ready : IsNext(q, x)}}

\* The statement of a delivery that was cut off has ended; nobody acknowledges it.
Ended(q, r) ==
    [ready |-> q.ready, unacked |-> q.unacked, done |-> q.done, late |-> q.late \ {r}]

ConsumerFrame == UNCHANGED <<jobs, created, apiVars, handlerVars, pubs, workerVars,
                             online, crashes, faults, churn>>

\* A job status message sets its sub job to Processing, whatever it was.
StatusProcessed(r) ==
    /\ \/ IsNext(statusQ, r) /\ statusQ' = Deliver(statusQ, r, TRUE)
       \/ r \in statusQ.late /\ statusQ' = Ended(statusQ, r)
    /\ SetStatus(r.sub, "Processing")
    /\ UNCHANGED <<worker_data, dataQ, losses>>
    /\ ConsumerFrame

StatusFails(r) ==
    /\ IsNext(statusQ, r)
    /\ Loses
    /\ statusQ' = Deliver(statusQ, r, FALSE)
    /\ UNCHANGED <<sub_jobs, worker_data, dataQ>>
    /\ ConsumerFrame

StatusAcked ==
    /\ statusQ.done # {}
    /\ statusQ' = Acked(statusQ)
    /\ UNCHANGED <<sub_jobs, worker_data, dataQ, losses>>
    /\ ConsumerFrame

\* run_id is the primary key of worker_data: saving a result again fails.
DataSaved(r) ==
    /\ \/ IsNext(dataQ, r) /\ dataQ' = Deliver(dataQ, r, TRUE)
       \/ r \in dataQ.late /\ dataQ' = Ended(dataQ, r)
    /\ r \notin worker_data
    /\ worker_data' = worker_data \union {r}
    /\ UNCHANGED <<sub_jobs, statusQ, losses>>
    /\ ConsumerFrame

DataFails(r) ==
    /\ \/ IsNext(dataQ, r) /\ dataQ' = Deliver(dataQ, r, FALSE)
       \/ r \in dataQ.late /\ dataQ' = Ended(dataQ, r)
    /\ IF r \in worker_data THEN UNCHANGED losses ELSE Loses
    /\ UNCHANGED <<sub_jobs, worker_data, statusQ>>
    /\ ConsumerFrame

DataAcked ==
    /\ dataQ.done # {}
    /\ dataQ' = Acked(dataQ)
    /\ UNCHANGED <<sub_jobs, worker_data, statusQ, losses>>
    /\ ConsumerFrame

\* The channel of one of the consumers is lost, not the scheduler.
StatusCutOff ==
    /\ Loses
    /\ statusQ' \in CutOff(statusQ)
    /\ UNCHANGED <<sub_jobs, worker_data, dataQ>>
    /\ ConsumerFrame

DataCutOff ==
    /\ Loses
    /\ dataQ' \in CutOff(dataQ)
    /\ UNCHANGED <<sub_jobs, worker_data, statusQ>>
    /\ ConsumerFrame

----------------------------------------------------------------------------
(* Time and crashes *)

\* Whether the deadline of a finished sub job has passed shows only when a
\* late status message makes it Processing again.
DeadlinePasses(s) ==
    /\ IsUnfinished(s)
    /\ sub_jobs[s].deadline = "ahead"
    /\ sub_jobs' = [sub_jobs EXCEPT ![s].deadline = "passed"]
    /\ UNCHANGED <<jobs, created, worker_data, apiVars, handlerVars, pubs, workerVars,
                   statusQ, dataQ, online, bounds>>

\* Every task of the scheduler ends; the tables and the queues stay.
SchedulerCrashes ==
    /\ crashes < MaxCrashes /\ Disturbs
    /\ crashes' = crashes + 1
    /\ Return
    /\ creating' = {}
    /\ canceling' = [j \in Jobs |-> IF canceling[j] = "half" THEN "failed" ELSE canceling[j]]
    /\ statusQ' = Requeued(statusQ, {})
    /\ dataQ' = Requeued(dataQ, {})
    /\ UNCHANGED <<tables, inserted, pubs, workerVars, online, faults, losses, churn>>

----------------------------------------------------------------------------
Init ==
    /\ jobs = [j \in Jobs |-> "absent"]
    /\ sub_jobs = [s \in SubJobs |-> [job |-> 1, kind |-> "Scaling", status |-> "absent",
                                      deadline |-> "none", workers_count |-> Missing]]
    /\ created = 0
    /\ inserted = [j \in Jobs |-> 0]
    /\ creating = {}
    /\ canceling = [j \in Jobs |-> "no"]
    /\ worker_data = {}
    /\ pc = "idle" /\ cur = 0 /\ want = Missing /\ excluded = {}
    /\ pubs = [s \in SubJobs |-> 0]
    /\ jobQ = {} /\ running = {} /\ orphaned = {} /\ sent = {}
    /\ statusQ = EmptyQueue /\ dataQ = EmptyQueue
    /\ listening \in SUBSET Workers /\ reconnecting = {}
    /\ online = listening
    /\ crashes = 0 /\ faults = 0 /\ losses = 0 /\ churn = 0

CreateHandler == \E j \in Jobs : InsertSubJob(j) \/ InsertFails(j)
CancelHandler == \E j \in Jobs : CancelSubJobs(j) \/ CancelFails(j)

Handler ==
    \/ \E s \in SubJobs : PickCreated(s) \/ PickExpired(s) \/ PickProcessing(s)
    \/ WriteFailed
    \/ ListWorkers \/ WriteWorkersCount \/ Publish \/ WritePending
    \/ ReadData \/ WriteCompleted \/ CountSiblings \/ WriteJobCompleted
    \/ ScalingCreated \/ ScalingCanceled \/ ScalingStarted \/ ScalingCheck

WorkerStep ==
    \/ \E m \in jobQ : WorkerExcluded(m) \/ WorkerAborts(m) \/ WorkerStarts(m)
    \/ \E r \in running : WorkerFinishes(r)

Environment ==
    \/ \E w \in Workers :
          \/ WorkerLeaves(w) \/ WorkerJoins(w) \/ RegistryChanges(w)
          \/ WorkerCutOff(w) \/ WorkerReconnects(w)
    \/ StatusCutOff \/ DataCutOff

StatusConsumer ==
    \/ StatusAcked
    \/ \E r \in statusQ.ready \union statusQ.late : StatusProcessed(r) \/ StatusFails(r)

DataConsumer ==
    \/ DataAcked
    \/ \E r \in dataQ.ready \union dataQ.late : DataSaved(r) \/ DataFails(r)

Next ==
    \/ \E j \in Jobs : InsertJob(j) \/ CancelJob(j)
    \/ CreateHandler
    \/ CancelHandler
    \/ Handler
    \/ HandlerFault
    \/ WorkerStep
    \/ Environment
    \/ StatusConsumer
    \/ DataConsumer
    \/ \E s \in SubJobs : DeadlinePasses(s)
    \/ SchedulerCrashes

Spec == Init /\ [][Next]_vars

\* The tasks of the scheduler run, requests are answered, and time goes by.
Fairness ==
    /\ WF_vars(CreateHandler)
    /\ WF_vars(CancelHandler)
    /\ WF_vars(Handler)
    /\ WF_vars(StatusConsumer)
    /\ \A s \in SubJobs : WF_vars(DeadlinePasses(s))

FairSpec == Spec /\ Fairness

----------------------------------------------------------------------------
(* Properties *)

QueueOK(q) ==
    /\ q \in Queue
    /\ q.done \subseteq q.unacked
    /\ \A r1, r2 \in q.done : r1 = r2

\* A message waits in a queue that is bound.  A run belongs to a worker process
\* that is there, and to the consumer of its present channel unless it is orphaned;
\* a consumer is at one run at a time.
RunsOK ==
    /\ \A m \in jobQ : m.run.worker \in listening
    /\ running \in SUBSET Runs
    /\ orphaned \subseteq running
    /\ \A r \in running : r.worker \in listening \union reconnecting
    /\ \A r \in running \ orphaned : r.worker \in listening
    /\ \A r1, r2 \in running \ orphaned : r1.worker = r2.worker => r1 = r2
    /\ listening \in SUBSET Workers
    /\ reconnecting \in SUBSET (Workers \ listening)

\* The type of every variable; a consumer of the scheduler has at most one delivery
\* to acknowledge, a consumer of jobs at most one run in progress, and that only
\* while its queue is bound: what a worker runs beside it was begun by consumers
\* whose channel it lost (job_consumer.rs:149-171, subscriber.rs:126-143).
TypeOK ==
    /\ jobs \in [Jobs -> JobStatus \union {"absent"}]
    /\ sub_jobs \in [SubJobs -> SubJobRow]
    /\ created \in Nat
    /\ inserted \in [Jobs -> 0..(Len(Plan) + 1)]
    /\ creating \in SUBSET Jobs
    /\ canceling \in [Jobs -> {"no", "half", "done", "failed"}]
    /\ worker_data \in SUBSET Runs
    /\ pc \in HandlerSteps
    /\ cur \in SubJobs \union {0}
    /\ want \in Nat
    /\ excluded \in SUBSET Workers
    /\ pubs \in [SubJobs -> Nat]
    /\ jobQ \in SUBSET Messages
    /\ RunsOK
    /\ QueueOK(statusQ) /\ QueueOK(dataQ)
    /\ sent \in SUBSET Runs
    /\ online \in SUBSET Workers
    /\ crashes \in Nat /\ faults \in Nat /\ losses \in Nat /\ churn \in Nat

\* A benchmark is Completed only with a row of worker_data for each worker it
\* was sent to: its count was written before and rows never go away, although
\* the handler decides on a snapshot and canceling, late status messages,
\* crashes and republished messages interfere (sub_job_combineddhp.rs:159).
CompletedHasData ==
    \A s \in SubJobs :
        IsBenchmark(s) /\ sub_jobs[s].status = "Completed"
            => Cardinality(DataOf(s)) >= sub_jobs[s].workers_count

\* A benchmark that has a row for each worker it was counted for.
Measured(s) ==
    /\ IsBenchmark(s)
    /\ sub_jobs[s].workers_count > 0
    /\ Cardinality(DataOf(s)) >= sub_jobs[s].workers_count

\* A job is Completed only with a benchmark of its own that was measured in full:
\* the last write of the handler comes three statements after the data were read,
\* and a cancel, a fault, a late status message or the create handler, which may
\* not have inserted all sub jobs yet, can come between any two of them
\* (sub_job_combineddhp.rs:166-186).
CompletedJobIsMeasured ==
    \A j \in Jobs : jobs[j] = "Completed" => \E s \in SubJobsOf(j) : Measured(s)

\* The error paths "missing workers count" and "Invalid pending state" are
\* unreachable: a benchmark is Pending or Processing only with a count of at
\* least one worker, and a status message never concerns a scaling sub job.
NoInvalidState ==
    \A s \in SubJobs :
        IF IsBenchmark(s)
        THEN sub_jobs[s].status \in {"Pending", "Processing"} => sub_jobs[s].workers_count > 0
        ELSE sub_jobs[s].status # "Pending"

\* No message of a sub job goes out while an older sub job is still untouched,
\* so no benchmark starts before the scaling of its job was handled.
DispatchInOrder ==
    \A s \in SubJobs : pubs[s] > 0 => \A t \in 1..(s - 1) : sub_jobs[t].status # "Created"

\* The workers get the message of a sub job a second time only after a crash
\* or a failed write of the handler, once for each.
RepublishNeedsFault ==
    \A s \in SubJobs : pubs[s] <= 1 + crashes + faults

\* Sub jobs that were started without a deadline, outside the window between
\* the publication and the write of Pending.
Undated ==
    {s \in SubJobs : /\ sub_jobs[s].status \in {"Pending", "Processing"}
                     /\ sub_jobs[s].deadline = "none"
                     /\ ~(cur = s /\ pc = "pending")}

\* "No deadline" fails a sub job at most once per crash or fault.
StartedHasDeadline == Cardinality(Undated) <= crashes + faults

\* A result a worker has published is in worker_data or still with the broker.
ResultsConserved == sent \subseteq worker_data \union dataQ.ready \union dataQ.unacked

\* Nobody works on a finished sub job any more, and no message about it is under
\* way that could make it Processing again.
AtRest(s) ==
    /\ sub_jobs[s].status \in {"Completed", "Failed", "Canceled"}
    /\ cur # s
    /\ \A m \in jobQ : m.run.sub # s
    /\ \A r \in running : r.sub # s
    /\ \A r \in statusQ.ready : r.sub # s
    /\ \A r \in statusQ.unacked : r.sub # s
    /\ \A r \in statusQ.late : r.sub # s

\* A finished sub job can only be opened again by the handler that has it in its
\* hands or by a message of its own that is under way: from the moment both are
\* gone its outcome is final, through republications, crashes and redeliveries
\* of its siblings, but for a request that cancels it (status_consumer.rs:57,
\* sub_job_handler.rs).
FinishedForGood ==
    [][\A s \in SubJobs :
          AtRest(s) => /\ AtRest(s)'
                       /\ \/ sub_jobs'[s] = sub_jobs[s]
                          \/ /\ canceling[sub_jobs[s].job] = "half"
                             /\ sub_jobs'[s].status = "Canceled"]_vars

\* The queue of sub jobs drains for good: no sub job, whatever happens to its
\* messages, its workers and its status, blocks those behind it forever.
EventuallyDrained == <>[](\A s \in SubJobs : ~IsUnfinished(s))

----------------------------------------------------------------------------
(* The queue of sub jobs as its users see it *)

\* The stage of a sub job whose row has a status.
StageOf(status) ==
    CASE status = "absent"    -> "absent"
      [] status = "Created"   -> "waiting"
      [] status = "Completed" -> "completed"
      [] status \in {"Pending", "Processing"} -> "open"
      [] status \in {"Failed", "Canceled"}    -> "dropped"

Stage == [s \in SubJobs |-> StageOf(sub_jobs[s].status)]
BenchmarkSubJobs == {s \in SubJobs : IsBenchmark(s)}
Asked == [s \in SubJobs |-> sub_jobs[s].workers_count]
Announced == {s \in SubJobs : pubs[s] > 0}
Answered == [s \in SubJobs |-> DataOf(s)]

Abstract ==
    INSTANCE SubJobQueue WITH
        Answers    <- Runs,
        stage      <- Stage,
        benchmarks <- BenchmarkSubJobs,
        asked      <- Asked,
        announced  <- Announced,
        answers    <- Answered

\* Every step of the pipeline is a step of the abstract queue or none: however
\* the handler, the consumers, cancels, crashes and late messages interleave, a
\* sub job is asked for, announced, opened and completed on its turn only, opened only
\* after its announcement, completed only with the answers asked for, and none
\* that was taken waits again (sub_job_handler.rs, sub_job_combineddhp.rs).
ImplementsSubJobQueue == Abstract!Spec

----------------------------------------------------------------------------
(* What the documentation says *)

\* cancel_job.rs: "Cancel a job and all its sub jobs": a sub job the request
\* has canceled stays so.
CanceledStays ==
    [][\A s \in SubJobs :
          sub_jobs[s].status = "Canceled" /\ canceling[sub_jobs[s].job] = "done"
              => sub_jobs'[s].status = "Canceled"]_vars

\* create_job.rs: "All subjobs are carried out sequentially"
CarriedOutSequentially ==
    \A s, t \in SubJobs :
        /\ sub_jobs[s].job = sub_jobs[t].job
        /\ sub_jobs[s].status \in {"Pending", "Processing"}
        /\ sub_jobs[t].status \in {"Pending", "Processing"}
        => s = t

============================================================================
