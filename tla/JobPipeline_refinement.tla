---------------------- MODULE JobPipeline_refinement -----------------------
(***************************************************************************)
(* JobPipeline implements SubJobQueue: the initial state maps to one, and  *)
(* every step of the program maps to a step of the abstract queue or to a  *)
(* stutter, for every instance.                                            *)
(***************************************************************************)
EXTENDS JobPipeline_proofs

----------------------------------------------------------------------------
(* What the mapping needs beyond the invariants of JobPipeline_proofs *)

\* Rows have a status, only benchmarks have a count, the handler completes what
\* was not Created, publishes what is not Completed and writes Pending after a
\* publication, and a result waits only for what was published.
PathInv ==
    /\ \A s \in SubJobs : s <= created => sub_jobs[s].status # "absent"
    /\ \A s \in SubJobs : /\ s > created => ~IsBenchmark(s)
                          /\ ~IsBenchmark(s) => sub_jobs[s].workers_count = Missing
    /\ pc \in {"read", "check", "complete"} => sub_jobs[cur].status # "Created"
    /\ pc = "publish" => sub_jobs[cur].status # "Completed"
    /\ pc = "pending" => pubs[cur] > 0
    /\ \A r \in dataQ.ready \union dataQ.unacked \union dataQ.late : pubs[r.sub] > 0

\* The tables and the queues are empty at first.
LEMMA InitPath == Init => PathInv
BY DEF Init, PathInv, Missing, EmptyQueue, SubJobs, IsBenchmark

\* A new row, or any other, that is no benchmark has no count.
LEMMA StepMissing ==
    ASSUME IInv, PathInv, [Next]_vars
    PROVE  \A s \in SubJobs :
               /\ s > created' => sub_jobs'[s].kind = "Scaling"
               /\ sub_jobs'[s].kind = "Scaling" => sub_jobs'[s].workers_count = Missing
<1>0. /\ TypeInv /\ RowInv /\ created \in Nat /\ SubJobs \subseteq Nat
      /\ sub_jobs \in [SubJobs -> SubJobRow]
      /\ \A s \in SubJobs : s > created => sub_jobs[s].status = "absent"
  BY DEF IInv, TypeInv, TypeOK, RowInv, SubJobs
<1>1. RowsKept
  BY <1>0, StepEffects
<1>a. created' \in Nat /\ created <= created'
  BY <1>0, <1>1, StepTypes DEF RowsKept, TypeInv, TypeOK
<1>2. ASSUME NEW s \in SubJobs, s <= created
      PROVE  sub_jobs'[s].kind = "Scaling" => sub_jobs'[s].workers_count = Missing
  BY <1>0, <1>1, <1>2 DEF RowsKept, IsBenchmark, PathInv, RowInv, WriteWorkersCount,
     BenchmarkSteps
<1>3. ASSUME NEW s \in SubJobs, s > created, sub_jobs'[s] # sub_jobs[s]
      PROVE  sub_jobs'[s].workers_count = Missing /\ ~(s > created')
  <2>1. \E j \in Jobs : InsertSubJob(j)
    <3>1. ASSUME NEW x \in SubJobs, NEW t \in SubJobStatus, x <= created,
                 SetStatus(x, t) \/ SetStatusAndDeadline(x, t)
          PROVE  FALSE
      BY <1>0, <1>3, <3>1, StatusWrite
    <3>2. cur <= created /\ (pc # "idle" => cur \in SubJobs)
      BY <1>0 DEF RowInv, TypeInv, StepsOK
    <3>3. CASE Handler
      <4>1. CASE WriteWorkersCount
        BY <1>0, <1>3, <3>2, <4>1 DEF WriteWorkersCount
      <4>2. CASE WriteFailed \/ WritePending \/ WriteCompleted \/ ScalingCanceled
                 \/ ScalingStarted
        <5>1. cur \in SubJobs
          BY <3>2, <4>2 DEF WriteFailed, WritePending, WriteCompleted, ScalingCanceled,
             ScalingStarted
        <5> QED BY <1>0, <3>1, <3>2, <4>2, <5>1, HandlerWrites
      <4>3. CASE ~(WriteWorkersCount \/ WriteFailed \/ WritePending \/ WriteCompleted
                   \/ ScalingCanceled \/ ScalingStarted)
        <5>1. \/ \E x \in SubJobs : PickCreated(x) \/ PickExpired(x) \/ PickProcessing(x)
              \/ ListWorkers \/ Publish \/ ReadData \/ CountSiblings \/ WriteJobCompleted
              \/ ScalingCreated \/ ScalingCheck
          BY <3>3, <4>3 DEF Handler
        <5>2. UNCHANGED sub_jobs
          BY <5>1 DEF PickCreated, PickExpired, PickProcessing, Pick, ListWorkers, Publish,
             ReadData, CountSiblings, WriteJobCompleted, ScalingCreated, ScalingCheck
        <5> QED BY <1>3, <5>2
      <4> QED BY <4>1, <4>2, <4>3
    <3>4. ASSUME NEW r \in Runs, r \in statusQ.ready \union statusQ.late, StatusProcessed(r)
          PROVE  FALSE
      <4>a. \A x \in SubJobs : pubs[x] > 0 => x <= created
        <5>1. created \in Nat /\ SubJobs \subseteq Nat
          BY <1>0
        <5>2. \A x \in SubJobs : x > created => pubs[x] = 0
          BY <1>0 DEF RowInv
        <5> QED BY <5>1, <5>2
      <4>b. r.sub \in SubJobs /\ pubs[r.sub] > 0
        BY <1>0, <3>4 DEF Runs, RowInv
      <4>1. r.sub \in SubJobs /\ r.sub <= created
        BY <4>a, <4>b
      <4>2. SetStatus(r.sub, "Processing") /\ "Processing" \in SubJobStatus
        BY <1>0, <3>4, HandlerWrites
      <4> QED BY <3>1, <4>1, <4>2
    <3>5. ASSUME NEW x \in SubJobs, DeadlinePasses(x)
          PROVE  FALSE
      <4>1. x # s
        BY <1>0, <1>3, <3>5 DEF DeadlinePasses, IsUnfinished, Unfinished
      <4> QED BY <1>0, <1>3, <3>5, <4>1 DEF DeadlinePasses
    <3>6. ASSUME NEW j \in Jobs, CancelSubJobs(j)
          PROVE  FALSE
      BY <1>0, <1>3, <3>6 DEF CancelSubJobs, SubJobsOf
    <3> QED
      BY <1>0, <1>3, StepCases, <3>3, <3>4, <3>5, <3>6
         DEF Quiet, HandlerFault, DataSaved, ConsumerFrame, SchedulerCrashes, tables
  <2> QED BY <1>0, <1>3, <2>1 DEF InsertSubJob, NewRow, Missing
<1>4. ASSUME NEW s \in SubJobs, s > created, sub_jobs'[s] = sub_jobs[s]
      PROVE  sub_jobs'[s].workers_count = Missing /\ sub_jobs'[s].kind = "Scaling"
  BY <1>4 DEF PathInv, IsBenchmark
<1> SUFFICES ASSUME NEW s \in SubJobs
             PROVE  /\ s > created' => sub_jobs'[s].kind = "Scaling"
                    /\ sub_jobs'[s].kind = "Scaling" => sub_jobs'[s].workers_count = Missing
  OBVIOUS
<1>5. CASE s <= created
  <2>1. ~(s > created')
    BY <1>0, <1>a, <1>5
  <2> QED BY <1>2, <1>5, <2>1
<1>6. CASE s > created
  BY <1>3, <1>4, <1>6
<1> QED BY <1>0, <1>5, <1>6

\* A step keeps the rows, the path of the handler and the results in line.
LEMMA StepPath ==
    ASSUME IInv, PathInv, [Next]_vars
    PROVE  PathInv'
<1>0. /\ TypeInv /\ RowInv /\ DataInv /\ created \in Nat /\ SubJobs \subseteq Nat
      /\ sub_jobs \in [SubJobs -> SubJobRow]
      /\ pubs \in [SubJobs -> Nat]
      /\ \A s \in SubJobs : s > created => sub_jobs[s].status = "absent" /\ pubs[s] = 0
      /\ cur <= created /\ (pc # "idle" => cur \in SubJobs)
      /\ created' \in Nat
  <2>1. TypeInv /\ RowInv /\ DataInv /\ TypeInv'
    BY StepIInv DEF IInv
  <2>2. created' \in Nat
    BY <2>1 DEF TypeInv, TypeOK
  <2>3. cur <= created /\ \A s \in SubJobs : s > created => sub_jobs[s].status = "absent" /\ pubs[s] = 0
    BY <2>1 DEF RowInv
  <2> QED BY <2>1, <2>2, <2>3 DEF TypeInv, TypeOK, StepsOK, SubJobs
<1>1. RowsKept /\ StatusKept /\ PubsKept /\ MovesKept /\ DataKept
  BY <1>0, StepEffects, StepMoves, StepData
<1>2. \A s \in SubJobs :
          /\ s > created' => sub_jobs'[s].kind = "Scaling"
          /\ sub_jobs'[s].kind = "Scaling" => sub_jobs'[s].workers_count = Missing
  BY StepMissing
<1>3. ASSUME NEW s \in SubJobs, s <= created
      PROVE  /\ sub_jobs'[s].status # "absent"
             /\ sub_jobs[s].status # "Created" => sub_jobs'[s].status # "Created"
             /\ sub_jobs'[s].status = "Completed" =>
                   sub_jobs[s].status = "Completed" \/ WriteCompleted
  BY <1>1, <1>3 DEF StatusKept, PathInv
<1>4. ASSUME NEW s \in SubJobs, s <= created'
      PROVE  sub_jobs'[s].status # "absent"
  <2>1. CASE s <= created
    BY <1>3, <2>1
  <2>2. CASE s > created
    <3>1. created' # created
      BY <1>0, <1>4, <2>2
    <3>2. \E j \in Jobs : InsertSubJob(j)
      BY <1>0, <3>1, StepCases
         DEF Quiet, CancelSubJobs, Handler, PickCreated, PickExpired, PickProcessing, Pick,
             WriteFailed, ListWorkers, WriteWorkersCount, Publish, WritePending, ReadData,
             WriteCompleted, CountSiblings, WriteJobCompleted, ScalingCreated,
             ScalingCanceled, ScalingStarted, ScalingCheck, HandlerFrame, HandlerFault,
             StatusProcessed, DataSaved, ConsumerFrame, DeadlinePasses, SchedulerCrashes,
             tables
    <3>3. s = created + 1
      BY <1>0, <1>4, <2>2, <3>2 DEF InsertSubJob
    <3> QED BY <1>0, <3>2, <3>3 DEF InsertSubJob, NewRow
  <2> QED BY <1>0, <2>1, <2>2
<1>5. pc' \in {"read", "check", "complete"} => sub_jobs'[cur'].status # "Created"
  <2> SUFFICES ASSUME pc' \in {"read", "check", "complete"}
               PROVE  sub_jobs'[cur'].status # "Created"
    OBVIOUS
  <2>1. \/ pc \in {"read", "check", "complete"} /\ cur' = cur
        \/ \E s \in SubJobs : PickProcessing(s)
    BY <1>0, StepCases
       DEF Quiet, handlerVars, InsertSubJob, CancelSubJobs, Handler, PickCreated, PickExpired,
           Pick, WriteFailed, ListWorkers, WriteWorkersCount, Publish, WritePending,
           ReadData, WriteCompleted, CountSiblings, WriteJobCompleted, ScalingCreated,
           ScalingCanceled, ScalingStarted, ScalingCheck, HandlerFault, GoOn, Return,
           StatusProcessed, DataSaved, ConsumerFrame, DeadlinePasses, SchedulerCrashes
  <2>2. CASE pc \in {"read", "check", "complete"} /\ cur' = cur
    BY <1>0, <1>3, <2>2 DEF PathInv
  <2>3. CASE \E s \in SubJobs : PickProcessing(s)
    BY <2>3 DEF PickProcessing, Pick
  <2> QED BY <2>1, <2>2, <2>3
<1>6. pc' = "publish" => sub_jobs'[cur'].status # "Completed"
  <2> SUFFICES ASSUME pc' = "publish" PROVE sub_jobs'[cur'].status # "Completed"
    OBVIOUS
  <2>1. \/ pc = "publish" /\ cur' = cur
        \/ WriteWorkersCount /\ pc = "count" /\ cur' = cur
    BY <1>1 DEF MovesKept, WriteWorkersCount, GoOn
  <2>2. ~WriteCompleted
    BY <2>1 DEF WriteCompleted
  <2>3. sub_jobs[cur].status # "Completed"
    BY <1>0, <2>1 DEF PathInv, DataInv
  <2> QED BY <1>0, <1>3, <2>1, <2>2, <2>3
<1>7. pc' = "pending" => pubs'[cur'] > 0
  <2> SUFFICES ASSUME pc' = "pending" PROVE pubs'[cur'] > 0
    OBVIOUS
  <2>1. pc # "idle" /\ cur' = cur /\ cur \in SubJobs
    <3>1. pc = "pending" \/ Publish
      BY <1>1 DEF MovesKept
    <3> QED BY <1>0, <1>1, <3>1 DEF MovesKept, Publish
  <2>2. CASE pc = "pending"
    <3>1. pubs[cur] > 0 /\ pubs[cur] \in Nat
      BY <1>0, <2>1, <2>2 DEF PathInv
    <3>2. pubs'[cur] = pubs[cur] \/ pubs'[cur] = pubs[cur] + 1
      BY <1>1, <2>1 DEF PubsKept
    <3> QED BY <2>1, <3>1, <3>2
  <2>3. CASE Publish
    BY <1>0, <2>1, <2>3 DEF Publish
  <2> QED BY <1>1, <2>2, <2>3 DEF MovesKept
<1>8. \A r \in dataQ'.ready \union dataQ'.unacked \union dataQ'.late : pubs'[r.sub] > 0
  <2> SUFFICES ASSUME NEW r \in dataQ'.ready \union dataQ'.unacked \union dataQ'.late
               PROVE  pubs'[r.sub] > 0
    OBVIOUS
  <2>1. QueueOK(dataQ) /\ QueueOK(dataQ')
    BY <1>0, StepTypes DEF TypeInv, TypeOK
  <2>2. r \in Runs /\ r.sub \in SubJobs
    BY <2>1, QueueRuns DEF Runs
  <2>3. pubs[r.sub] > 0
    <3>1. CASE r \in dataQ.ready \union dataQ.unacked \union dataQ.late
      BY <3>1 DEF PathInv
    <3>2. ASSUME NEW q, PublishResult(q), r \notin dataQ.ready \union dataQ.unacked \union dataQ.late
          PROVE  r = q
      BY <2>1, <3>2 DEF PublishResult, Published, QueueOK, Queue
    <3>3. CASE WorkerStep
      BY <1>0, <3>1, <3>2, <3>3
         DEF WorkerStep, WorkerExcluded, WorkerAborts, WorkerStarts, WorkerFinishes, RowInv
    <3>a. ASSUME NEW q,
                 \/ dataQ' \in CutOff(dataQ)
                                 \union {Requeued(dataQ, {}), Acked(dataQ), Ended(dataQ, q)}
                 \/ /\ IsNext(dataQ, q)
                    /\ dataQ' \in {Deliver(dataQ, q, TRUE), Deliver(dataQ, q, FALSE)}
          PROVE  pubs[r.sub] > 0
      <4>1. dataQ'.ready \union dataQ'.unacked \union dataQ'.late
              \subseteq dataQ.ready \union dataQ.unacked \union dataQ.late
        BY <2>1, <3>a, QueueSteps
      <4> QED BY <3>1, <4>1
    <3>4. CASE DataConsumer
      BY <3>a, <3>4 DEF DataConsumer, DataAcked, DataSaved, DataFails
    <3>5. CASE SchedulerCrashes \/ DataCutOff
      BY <3>a, <3>5 DEF SchedulerCrashes, DataCutOff
    <3>6. CASE dataQ' = dataQ
      BY <3>1, <3>6
    <3>7. WorkerStep \/ DataConsumer \/ SchedulerCrashes \/ DataCutOff \/ dataQ' = dataQ
      BY DEF Next, vars, CreateHandler, InsertJob, InsertSubJob, InsertFails, CancelHandler,
         CancelJob, CancelSubJobs, CancelFails, Handler, PickCreated, PickExpired,
         PickProcessing, Pick, WriteFailed, ListWorkers, WriteWorkersCount, Publish,
         WritePending, ReadData, WriteCompleted, CountSiblings, WriteJobCompleted,
         ScalingCreated, ScalingCanceled, ScalingStarted, ScalingCheck, HandlerFrame,
         HandlerFault, Environment, WorkerLeaves, WorkerCutOff, WorkerReconnects, WorkerJoins,
         QueueGone, RegistryChanges, StatusCutOff, ConsumerFrame, StatusConsumer, StatusAcked,
         StatusProcessed, StatusFails, DeadlinePasses
    <3> QED BY <3>3, <3>4, <3>5, <3>6, <3>7
  <2>4. pubs[r.sub] \in Nat
    BY <1>0, <2>2
  <2>5. pubs'[r.sub] = pubs[r.sub] \/ pubs'[r.sub] = pubs[r.sub] + 1
    BY <1>1, <2>2 DEF PubsKept
  <2> QED BY <2>3, <2>4, <2>5
<1>9. (\A s \in SubJobs : s <= created => sub_jobs[s].status # "absent")'
  BY <1>4
<1>10. (\A s \in SubJobs : /\ s > created => ~IsBenchmark(s)
                           /\ ~IsBenchmark(s) => sub_jobs[s].workers_count = Missing)'
  BY <1>2 DEF IsBenchmark
<1> QED BY <1>5, <1>6, <1>7, <1>8, <1>9, <1>10 DEF PathInv

----------------------------------------------------------------------------
(* How the mapped variables change *)

\* Statuses, one by one.
LEMMA StageValues ==
    /\ StageOf("absent") = "absent" /\ StageOf("Created") = "waiting"
    /\ StageOf("Pending") = "open" /\ StageOf("Processing") = "open"
    /\ StageOf("Completed") = "completed"
    /\ StageOf("Failed") = "dropped" /\ StageOf("Canceled") = "dropped"
BY DEF StageOf

\* A row is past Created exactly when its stage is.
LEMMA StageKinds ==
    ASSUME NEW status \in SubJobStatus \union {"absent"}
    PROVE  /\ StageOf(status) \in Abstract!Stages
           /\ StageOf(status) = "absent" <=> status = "absent"
           /\ StageOf(status) = "waiting" <=> status = "Created"
           /\ StageOf(status) = "completed" <=> status = "Completed"
BY StageValues DEF SubJobStatus, Unfinished, Abstract!Stages

\* Sub jobs keep what the abstract queue sees of them but for their stage.
Kept ==
    /\ BenchmarkSubJobs' = BenchmarkSubJobs
    /\ Asked' = Asked
    /\ Announced' = Announced
    /\ Answered' = Answered

\* One sub job gets another status.
LEMMA OneStage ==
    ASSUME NEW s \in SubJobs, NEW status, sub_jobs'[s].status = status,
           \A x \in SubJobs : x # s => sub_jobs'[x].status = sub_jobs[x].status
    PROVE  Stage' = [Stage EXCEPT ![s] = StageOf(status)]
BY DEF Stage

\* The rows keep kind and count, and nothing is published or saved.
LEMMA KeptWhen ==
    ASSUME UNCHANGED <<pubs, worker_data>>,
           \A x \in SubJobs : /\ sub_jobs'[x].kind = sub_jobs[x].kind
                              /\ sub_jobs'[x].workers_count = sub_jobs[x].workers_count
    PROVE  Kept
BY DEF Kept, BenchmarkSubJobs, IsBenchmark, Asked, Announced, Answered, DataOf

\* Nothing the abstract queue sees has changed.
LEMMA Stutters ==
    ASSUME UNCHANGED <<sub_jobs, pubs, worker_data>>
    PROVE  UNCHANGED Abstract!vars
BY KeptWhen DEF Kept, Abstract!vars, Stage

\* From the invariants: a sub job that is announced, or that the handler works
\* on, is on its turn.
LEMMA Turns ==
    ASSUME IInv, PathInv, NEW s \in SubJobs, pubs[s] > 0 \/ (pc # "idle" /\ s = cur)
    PROVE  Abstract!IsTurn(s) /\ s <= created
<1>0. /\ SubJobs \subseteq Nat /\ created \in Nat /\ pubs \in [SubJobs -> Nat]
      /\ sub_jobs \in [SubJobs -> SubJobRow]
  BY DEF IInv, TypeInv, TypeOK, SubJobs
<1>1. s <= created
  <2>1. cur <= created /\ \A x \in SubJobs : x > created => pubs[x] = 0
    BY DEF IInv, RowInv
  <2> QED BY <1>0, <2>1
<1>2. \A x \in SubJobs : x <= s => sub_jobs[x].status # "absent"
  <2>1. \A x \in SubJobs : x <= s => x <= created
    BY <1>0, <1>1
  <2> QED BY <2>1 DEF PathInv
<1>3. \A x \in SubJobs : x < s => sub_jobs[x].status # "Created"
  <2>1. \A x \in SubJobs : x < s => x \in 1..(s - 1)
    BY <1>0 DEF SubJobs
  <2> QED BY <2>1 DEF IInv, OrderInv, DispatchInOrder
<1>4. \A x \in SubJobs : /\ Stage[x] = "absent" <=> sub_jobs[x].status = "absent"
                         /\ Stage[x] = "waiting" <=> sub_jobs[x].status = "Created"
  BY <1>0, StageKinds DEF Stage, SubJobRow
<1>5. Stage[s] # "absent"
  <2>1. s <= s
    BY <1>0
  <2> QED BY <1>2, <1>4, <2>1
<1>6. \A x \in SubJobs : x < s => Stage[x] \notin {"absent", "waiting"}
  <2>1. \A x \in SubJobs : x < s => x <= s
    BY <1>0
  <2> QED BY <1>2, <1>3, <1>4, <2>1
<1> QED BY <1>1, <1>5, <1>6 DEF Abstract!IsTurn, Abstract!IsOld

----------------------------------------------------------------------------
(* The steps *)

\* A status written to a row on its turn: the sub job is opened, completed or
\* dropped, or stays what it is.
LEMMA WriteMaps ==
    ASSUME IInv, PathInv, [Next]_vars, NEW s \in SubJobs, Abstract!IsTurn(s), s <= created,
           NEW status \in SubJobStatus, SetStatus(s, status) \/ SetStatusAndDeadline(s, status),
           UNCHANGED <<pubs, worker_data>>
    PROVE  /\ status \in {"Failed", "Canceled"} => Abstract!Drop
           /\ /\ status \in {"Pending", "Processing"}
              /\ IsBenchmark(s) => pubs[s] > 0
              => Abstract!Open(s)
           /\ /\ status = "Completed"
              /\ sub_jobs[s].status # "Created"
              /\ IsBenchmark(s) => Cardinality(DataOf(s)) >= sub_jobs[s].workers_count
              => Abstract!Complete(s)
<1>1. /\ sub_jobs'[s].status = status
      /\ \A x \in SubJobs : x # s => sub_jobs'[x] = sub_jobs[x]
      /\ \A x \in SubJobs : /\ sub_jobs'[x].kind = sub_jobs[x].kind
                            /\ sub_jobs'[x].workers_count = sub_jobs[x].workers_count
  BY StatusWrite DEF IInv
<1>2. Kept /\ Stage' = [Stage EXCEPT ![s] = StageOf(status)]
  BY <1>1, KeptWhen, OneStage
<1>3. /\ sub_jobs[s].status # "absent"
      /\ sub_jobs[s].status \in SubJobStatus \union {"absent"}
      /\ Stage[s] = StageOf(sub_jobs[s].status)
      /\ Stage \in [SubJobs -> Abstract!Stages]
  <2>1. sub_jobs \in [SubJobs -> SubJobRow]
    BY DEF IInv, TypeInv, TypeOK
  <2> QED BY <2>1, StageKinds DEF PathInv, Stage, SubJobRow
<1>4. ASSUME status \in {"Failed", "Canceled"}
      PROVE  Abstract!Drop
  <2>1. Stage' = [Stage EXCEPT ![s] = "dropped"]
    BY <1>2, <1>4, StageValues
  <2>2. Stage[s] # "absent" /\ "dropped" \in Abstract!Stages
    BY <1>3, StageKinds DEF Abstract!Stages
  <2> QED BY <1>2, <1>3, <2>1, <2>2 DEF Abstract!Drop, Kept
<1>5. ASSUME status \in {"Pending", "Processing"}, IsBenchmark(s) => pubs[s] > 0
      PROVE  Abstract!Open(s)
  <2>1. Stage' = [Stage EXCEPT ![s] = "open"]
    BY <1>2, <1>5, StageValues
  <2> QED BY <1>2, <1>5, <2>1 DEF Abstract!Open, Kept, BenchmarkSubJobs, Announced
<1>6. ASSUME status = "Completed", sub_jobs[s].status # "Created",
             IsBenchmark(s) => Cardinality(DataOf(s)) >= sub_jobs[s].workers_count
      PROVE  Abstract!Complete(s)
  <2>1. Stage' = [Stage EXCEPT ![s] = "completed"]
    BY <1>2, <1>6, StageValues
  <2>2. Stage[s] \notin {"absent", "waiting"}
    BY <1>3, <1>6, StageKinds
  <2>3. Cardinality(DataOf(s)) >= sub_jobs[s].workers_count
    <3>1. CASE IsBenchmark(s)
      BY <1>6, <3>1
    <3>2. CASE ~IsBenchmark(s)
      <4>1. IsFiniteSet(DataOf(s))
        BY FS_Subset DEF IInv, DataInv, DataOf
      <4>2. Cardinality(DataOf(s)) \in Nat
        BY <4>1, FS_CardinalityType
      <4> QED BY <3>2, <4>2 DEF PathInv, Missing
    <3> QED BY <3>1, <3>2
  <2>4. Abstract!Cardinality(Answered[s]) >= Asked[s]
    <3>1. Abstract!Cardinality(DataOf(s)) = Cardinality(DataOf(s))
      BY DEF Cardinality, Abstract!Cardinality, IsFiniteSet, Abstract!IsFiniteSet
    <3> QED BY <2>3, <3>1 DEF Answered, Asked
  <2>5. Abstract!IsOld(s)
    BY <2>2 DEF Abstract!IsOld
  <2> QED BY <1>2, <2>1, <2>4, <2>5 DEF Abstract!Complete, Kept
<1> QED BY <1>4, <1>5, <1>6

\* Inserting a row lets the next sub job enter.
LEMMA InsertMaps ==
    ASSUME IInv, PathInv, [Next]_vars, NEW j \in Jobs, InsertSubJob(j)
    PROVE  \/ \E s \in SubJobs : Abstract!Enter(s)
           \/ UNCHANGED Abstract!vars
<1>0. /\ SubJobs \subseteq Nat /\ created \in Nat /\ sub_jobs \in [SubJobs -> SubJobRow]
      /\ sub_jobs' = [sub_jobs EXCEPT ![created + 1] = NewRow(j)]
      /\ UNCHANGED <<pubs, worker_data>>
  BY DEF IInv, TypeInv, TypeOK, SubJobs, InsertSubJob
<1>1. CASE created + 1 \notin SubJobs
  <2>1. sub_jobs' = sub_jobs
    BY <1>0, <1>1
  <2> QED BY <1>0, <2>1, Stutters
<1>2. CASE created + 1 \in SubJobs
  <2> DEFINE s == created + 1
  <2>1. /\ sub_jobs[s].status = "absent"
        /\ sub_jobs'[s].status = "Created"
        /\ \A x \in SubJobs : x # s => sub_jobs'[x] = sub_jobs[x]
    BY <1>0, <1>2 DEF IInv, RowInv, NewRow
  <2>2. Stage' = [Stage EXCEPT ![s] = "waiting"] /\ Stage[s] = "absent"
    BY <1>2, <2>1, OneStage, StageValues DEF Stage
  <2>3. \A x \in SubJobs : x < s => Stage[x] # "absent"
    <3>1. \A x \in SubJobs : x < s => x <= created
      BY <1>0
    <3>2. \A x \in SubJobs : x < s => sub_jobs[x].status # "absent"
      BY <3>1 DEF PathInv
    <3>3. \A x \in SubJobs : Stage[x] = "absent" <=> sub_jobs[x].status = "absent"
      BY <1>0, StageKinds DEF Stage, SubJobRow
    <3> QED BY <3>2, <3>3
  <2>4. /\ BenchmarkSubJobs' = BenchmarkSubJobs \union {s} \/ BenchmarkSubJobs' = BenchmarkSubJobs
        /\ UNCHANGED <<Asked, Announced, Answered>>
    <3>1. sub_jobs[s].workers_count = Missing /\ sub_jobs'[s].workers_count = Missing
      <4>1. s > created
        BY <1>0
      <4> QED BY <1>0, <1>2, <4>1 DEF PathInv, NewRow
    <3>a. ~IsBenchmark(s)
      BY <1>0, <1>2 DEF PathInv
    <3>2. Asked' = Asked
      BY <2>1, <3>1 DEF Asked
    <3>3. UNCHANGED <<Announced, Answered>>
      BY <1>0 DEF Announced, Answered, DataOf
    <3>4. BenchmarkSubJobs' = BenchmarkSubJobs \union {s} \/ BenchmarkSubJobs' = BenchmarkSubJobs
      BY <1>2, <2>1, <3>a DEF BenchmarkSubJobs, IsBenchmark
    <3> QED BY <3>2, <3>3, <3>4
  <2>5. Abstract!Enter(s)
    BY <2>2, <2>3, <2>4 DEF Abstract!Enter
  <2> QED BY <1>2, <2>5
<1> QED BY <1>1, <1>2

\* Canceling the sub jobs of a job drops them.
LEMMA CancelMaps ==
    ASSUME IInv, PathInv, NEW j \in Jobs, CancelSubJobs(j)
    PROVE  Abstract!Drop
<1>0. sub_jobs \in [SubJobs -> SubJobRow] /\ created \in Nat /\ SubJobs \subseteq Nat
  BY DEF IInv, TypeInv, TypeOK, SubJobs
<1>1. \A s \in SubJobs :
         \/ sub_jobs'[s] = sub_jobs[s]
         \/ /\ s \in SubJobsOf(j)
            /\ sub_jobs'[s] = [sub_jobs[s] EXCEPT !.status = "Canceled"]
  BY DEF CancelSubJobs
<1>2. \A s \in SubJobs :
         /\ sub_jobs'[s].kind = sub_jobs[s].kind
         /\ sub_jobs'[s].workers_count = sub_jobs[s].workers_count
         /\ sub_jobs'[s].status # sub_jobs[s].status =>
               sub_jobs'[s].status = "Canceled" /\ s \in SubJobsOf(j)
  <2>1. ASSUME NEW row \in SubJobRow, NEW new, new = [row EXCEPT !.status = "Canceled"]
        PROVE  new.kind = row.kind /\ new.workers_count = row.workers_count
               /\ new.status = "Canceled"
    BY <2>1 DEF SubJobRow
  <2>2. \A s \in SubJobs : sub_jobs[s] \in SubJobRow
    BY <1>0
  <2> QED BY <1>1, <2>1, <2>2
<1>3. Kept
  BY <1>2, KeptWhen DEF CancelSubJobs
<1>4. ASSUME NEW s \in SubJobs
      PROVE  /\ Stage[s] \in Abstract!Stages
             /\ StageOf(sub_jobs'[s].status) # Stage[s] =>
                   Stage[s] # "absent" /\ StageOf(sub_jobs'[s].status) = "dropped"
  <2>1. /\ Stage[s] = StageOf(sub_jobs[s].status)
        /\ sub_jobs[s].status \in SubJobStatus \union {"absent"}
    BY <1>0 DEF Stage, SubJobRow
  <2>2. CASE sub_jobs'[s].status = sub_jobs[s].status
    BY <2>1, <2>2, StageKinds
  <2>3. CASE sub_jobs'[s].status # sub_jobs[s].status
    <3>1. s <= created /\ sub_jobs'[s].status = "Canceled"
      BY <1>0, <1>2, <2>3 DEF SubJobsOf
    <3>2. sub_jobs[s].status # "absent"
      BY <3>1 DEF PathInv
    <3> QED BY <2>1, <3>1, <3>2, StageKinds, StageValues
  <2> QED BY <2>2, <2>3
<1>5. "dropped" \in Abstract!Stages
  BY DEF Abstract!Stages
<1>6. Stage' = [s \in SubJobs |-> StageOf(sub_jobs'[s].status)]
  BY DEF Stage
<1>7. /\ Stage' \in [SubJobs -> Abstract!Stages]
      /\ \A s \in SubJobs : Stage'[s] # Stage[s] => Stage[s] # "absent" /\ Stage'[s] = "dropped"
  BY <1>4, <1>5, <1>6
<1> QED BY <1>3, <1>7 DEF Abstract!Drop, Kept

\* A deadline that passes shows nowhere.
LEMMA DeadlineMaps ==
    ASSUME IInv, NEW s \in SubJobs, DeadlinePasses(s)
    PROVE  UNCHANGED Abstract!vars
<1>1. sub_jobs \in [SubJobs -> SubJobRow]
  BY DEF IInv, TypeInv, TypeOK
<1>2. /\ \A x \in SubJobs : /\ sub_jobs'[x].status = sub_jobs[x].status
                            /\ sub_jobs'[x].kind = sub_jobs[x].kind
                            /\ sub_jobs'[x].workers_count = sub_jobs[x].workers_count
      /\ UNCHANGED <<pubs, worker_data>>
  BY <1>1 DEF DeadlinePasses, SubJobRow
<1>3. Kept
  BY <1>2, KeptWhen
<1>4. Stage' = Stage
  BY <1>2 DEF Stage
<1> QED BY <1>3, <1>4 DEF Kept, Abstract!vars

\* A job status message opens a sub job that was announced.
LEMMA StatusMaps ==
    ASSUME IInv, PathInv, [Next]_vars, NEW r \in Runs, r \in statusQ.ready \union statusQ.late, StatusProcessed(r)
    PROVE  Abstract!Open(r.sub)
<1>1. r.sub \in SubJobs /\ pubs[r.sub] > 0
  BY DEF Runs, IInv, RowInv
<1>2. Abstract!IsTurn(r.sub) /\ r.sub <= created
  BY <1>1, Turns
<1>3. SetStatus(r.sub, "Processing") /\ "Processing" \in SubJobStatus
  BY HandlerWrites DEF IInv
<1>4. UNCHANGED <<pubs, worker_data>>
  BY DEF StatusProcessed, ConsumerFrame
<1> QED BY <1>1, <1>2, <1>3, <1>4, WriteMaps

\* A saved result is the answer to a sub job that was announced.
LEMMA AnswerMaps ==
    ASSUME IInv, PathInv, NEW r \in Runs, r \in dataQ.ready \union dataQ.late, DataSaved(r)
    PROVE  Abstract!Answer(r.sub)
<1>1. r.sub \in SubJobs /\ pubs[r.sub] > 0
  BY DEF Runs, PathInv
<1>2. r.sub \in Announced
  BY <1>1 DEF Announced
<1>3. worker_data' = worker_data \union {r} /\ UNCHANGED <<sub_jobs, pubs>>
  BY DEF DataSaved, ConsumerFrame
<1>4. UNCHANGED <<Stage, BenchmarkSubJobs, Asked, Announced>>
  BY <1>3 DEF Stage, BenchmarkSubJobs, IsBenchmark, Asked, Announced
<1>5. worker_data' \in SUBSET Runs
  BY <1>3 DEF IInv, TypeInv, TypeOK
<1>6. Answered' = [s \in SubJobs |-> {q \in worker_data' : q.sub = s}]
  BY DEF Answered, DataOf
<1>7. Answered' \in [SubJobs -> SUBSET Runs]
  BY <1>5, <1>6
<1>8. r \in Answered'[r.sub] /\ Answered' = [Answered EXCEPT ![r.sub] = @ \union {r}]
  <2>1. Answered = [s \in SubJobs |-> {q \in worker_data : q.sub = s}]
    BY DEF Answered, DataOf
  <2>2. ASSUME NEW s \in SubJobs
        PROVE  {q \in worker_data' : q.sub = s} =
               IF s = r.sub THEN {q \in worker_data : q.sub = s} \union {r}
                            ELSE {q \in worker_data : q.sub = s}
    BY <1>3
  <2> QED BY <1>1, <1>3, <1>6, <2>1, <2>2
<1> QED BY <1>2, <1>4, <1>7, <1>8 DEF Abstract!Answer

\* The count is written for a benchmark on its turn that is not Completed.
LEMMA AskMaps ==
    ASSUME IInv, PathInv, [Next]_vars, WriteWorkersCount
    PROVE  Abstract!Ask(cur)
<1>0. /\ sub_jobs \in [SubJobs -> SubJobRow] /\ pc = "count" /\ cur \in SubJobs
      /\ want \in Nat
  BY DEF WriteWorkersCount, IInv, TypeInv, TypeOK, StepsOK
<1>1. Abstract!IsTurn(cur) /\ cur <= created
  BY <1>0, Turns
<1>2. want > 0 /\ IsBenchmark(cur) /\ sub_jobs[cur].status # "Completed"
  BY <1>0 DEF IInv, CountInv, RowInv, DataInv, BenchmarkSteps
<1>3. cur \in BenchmarkSubJobs
  BY <1>0, <1>2 DEF BenchmarkSubJobs
<1>4. Stage[cur] # "completed"
  BY <1>0, <1>2, StageKinds DEF Stage, SubJobRow
<1>5. /\ sub_jobs' = [sub_jobs EXCEPT ![cur].workers_count = want]
      /\ UNCHANGED <<pubs, worker_data>>
  BY DEF WriteWorkersCount, HandlerFrame
<1>6. /\ sub_jobs'[cur].workers_count = want
      /\ \A s \in SubJobs : /\ sub_jobs'[s].status = sub_jobs[s].status
                            /\ sub_jobs'[s].kind = sub_jobs[s].kind
      /\ \A s \in SubJobs : s # cur => sub_jobs'[s].workers_count = sub_jobs[s].workers_count
  BY <1>0, <1>5 DEF SubJobRow
<1>7. UNCHANGED <<Stage, BenchmarkSubJobs, Announced, Answered>>
  BY <1>5, <1>6 DEF Stage, BenchmarkSubJobs, IsBenchmark, Announced, Answered, DataOf
<1>8. Asked' = [s \in SubJobs |-> sub_jobs'[s].workers_count]
  BY DEF Asked
<1>9. \A s \in SubJobs : sub_jobs'[s].workers_count \in Nat
  BY <1>0, <1>6 DEF SubJobRow
<1>10. /\ Asked' \in [SubJobs -> Nat]
       /\ Asked'[cur] > 0
       /\ \A s \in SubJobs \ {cur} : Asked'[s] = Asked[s]
  BY <1>0, <1>2, <1>6, <1>8, <1>9 DEF Asked
<1> QED BY <1>1, <1>3, <1>4, <1>7, <1>10 DEF Abstract!Ask

\* The message goes out for a sub job on its turn that has its count.
LEMMA AnnounceMaps ==
    ASSUME IInv, PathInv, [Next]_vars, Publish
    PROVE  Abstract!Announce(cur)
<1>0. /\ sub_jobs \in [SubJobs -> SubJobRow] /\ pc = "publish" /\ cur \in SubJobs
      /\ pubs \in [SubJobs -> Nat]
  BY DEF Publish, IInv, TypeInv, TypeOK, StepsOK
<1>1. Abstract!IsTurn(cur) /\ cur <= created
  BY <1>0, Turns
<1>2. sub_jobs[cur].workers_count > 0 /\ sub_jobs[cur].status # "Completed"
  BY <1>0 DEF IInv, CountInv, PathInv
<1>3. Asked[cur] > 0
  BY <1>0, <1>2 DEF Asked
<1>4. Stage[cur] # "completed"
  BY <1>0, <1>2, StageKinds DEF Stage, SubJobRow
<1>5. pubs' = [pubs EXCEPT ![cur] = @ + 1] /\ UNCHANGED <<sub_jobs, worker_data>>
  BY DEF Publish, HandlerFrame
<1>6. UNCHANGED <<Stage, BenchmarkSubJobs, Asked, Answered>>
  BY <1>5 DEF Stage, BenchmarkSubJobs, IsBenchmark, Asked, Answered, DataOf
<1>7. Announced' = Announced \union {cur}
  <2>1. \A s \in SubJobs : pubs'[s] > 0 <=> pubs[s] > 0 \/ s = cur
    BY <1>0, <1>5
  <2> QED BY <1>0, <2>1 DEF Announced
<1> QED BY <1>1, <1>3, <1>4, <1>6, <1>7 DEF Abstract!Announce

\* A status the handler writes drops, opens or completes its sub job.
LEMMA HandlerMaps ==
    ASSUME IInv, PathInv, [Next]_vars,
           WriteFailed \/ ScalingCanceled \/ WritePending \/ ScalingStarted \/ WriteCompleted
    PROVE  Abstract!Drop \/ Abstract!Open(cur) \/ Abstract!Complete(cur)
<1>0. TypeInv /\ RowInv /\ DataInv
  BY DEF IInv
<1>1. pc # "idle" /\ cur \in SubJobs /\ UNCHANGED <<pubs, worker_data>>
  BY <1>0 DEF WriteFailed, ScalingCanceled, WritePending, ScalingStarted, WriteCompleted,
     HandlerFrame, TypeInv, StepsOK
<1>2. Abstract!IsTurn(cur) /\ cur <= created
  BY <1>1, Turns
<1>3. CASE WriteFailed \/ ScalingCanceled
  BY <1>0, <1>1, <1>2, <1>3, HandlerWrites, WriteMaps
<1>4. CASE WritePending
  <2>1. pubs[cur] > 0
    BY <1>4 DEF WritePending, PathInv
  <2>2. SetStatusAndDeadline(cur, "Pending") /\ "Pending" \in SubJobStatus
    BY <1>0, <1>4, HandlerWrites
  <2> QED BY <1>1, <1>2, <2>1, <2>2, WriteMaps
<1>5. CASE ScalingStarted
  <2>1. ~IsBenchmark(cur)
    BY <1>0, <1>5 DEF ScalingStarted, RowInv, ScalingSteps
  <2>2. SetStatusAndDeadline(cur, "Processing") /\ "Processing" \in SubJobStatus
    BY <1>0, <1>5, HandlerWrites
  <2> QED BY <1>1, <1>2, <2>1, <2>2, WriteMaps
<1>6. CASE WriteCompleted
  <2>1. /\ sub_jobs[cur].status # "Created"
        /\ IsBenchmark(cur) => Cardinality(DataOf(cur)) >= sub_jobs[cur].workers_count
    BY <1>0, <1>6 DEF WriteCompleted, PathInv, DataInv
  <2>2. SetStatus(cur, "Completed") /\ "Completed" \in SubJobStatus
    BY <1>0, <1>6, HandlerWrites
  <2> QED BY <1>1, <1>2, <2>1, <2>2, WriteMaps
<1> QED BY <1>3, <1>4, <1>5, <1>6

\* The other steps of the handler, its faults and a crash change nothing the
\* abstract queue sees.
LEMMA OtherMaps ==
    ASSUME \/ Quiet \/ HandlerFault \/ SchedulerCrashes
           \/ Handler /\ ~(\/ WriteWorkersCount \/ Publish \/ WriteFailed \/ ScalingCanceled
                           \/ WritePending \/ ScalingStarted \/ WriteCompleted)
    PROVE  UNCHANGED Abstract!vars
<1>1. CASE Handler
  <2>1. UNCHANGED <<sub_jobs, pubs, worker_data>>
    BY <1>1 DEF Handler, PickCreated, PickExpired, PickProcessing, Pick, ListWorkers,
       ReadData, CountSiblings, WriteJobCompleted, ScalingCreated, ScalingCheck, HandlerFrame,
       Quiet, HandlerFault, SchedulerCrashes, tables
  <2> QED BY <2>1, Stutters
<1>2. CASE Quiet \/ HandlerFault \/ SchedulerCrashes
  <2>1. UNCHANGED <<sub_jobs, pubs, worker_data>>
    BY <1>2 DEF Quiet, HandlerFault, SchedulerCrashes, tables
  <2> QED BY <2>1, Stutters
<1> QED BY <1>1, <1>2

\* The first state maps to the first state of the abstract queue.
LEMMA InitMaps == Init => Abstract!Init
<1> SUFFICES ASSUME Init PROVE Abstract!Init
  OBVIOUS
<1>1. \A s \in SubJobs : /\ sub_jobs[s].status = "absent" /\ sub_jobs[s].kind = "Scaling"
                         /\ sub_jobs[s].workers_count = 0 /\ pubs[s] = 0
  BY DEF Init, Missing
<1>2. worker_data = {}
  BY DEF Init
<1>3. Stage = [s \in SubJobs |-> "absent"]
  BY <1>1, StageValues DEF Stage
<1>4. BenchmarkSubJobs = {} /\ Announced = {}
  BY <1>1 DEF BenchmarkSubJobs, IsBenchmark, Announced
<1>5. Asked = [s \in SubJobs |-> 0]
  BY <1>1 DEF Asked
<1>6. Answered = [s \in SubJobs |-> {}]
  BY <1>2 DEF Answered, DataOf
<1> QED BY <1>3, <1>4, <1>5, <1>6 DEF Abstract!Init

\* Every step maps to a step of the abstract queue or to a stutter.
LEMMA StepMaps == IInv /\ PathInv /\ [Next]_vars => [Abstract!Next]_(Abstract!vars)
<1> SUFFICES ASSUME IInv, PathInv, [Next]_vars
             PROVE  Abstract!Next \/ UNCHANGED Abstract!vars
  OBVIOUS
<1>0. TypeInv /\ (pc # "idle" => cur \in SubJobs)
  BY DEF IInv, TypeInv, StepsOK
<1>1. ASSUME NEW j \in Jobs, InsertSubJob(j)
      PROVE  Abstract!Next \/ UNCHANGED Abstract!vars
  BY <1>1, InsertMaps DEF Abstract!Next
<1>2. ASSUME NEW j \in Jobs, CancelSubJobs(j)
      PROVE  Abstract!Next
  BY <1>2, CancelMaps DEF Abstract!Next
<1>3. CASE WriteWorkersCount \/ Publish
  <2>1. cur \in SubJobs
    BY <1>0, <1>3 DEF WriteWorkersCount, Publish
  <2>2. Abstract!Ask(cur) \/ Abstract!Announce(cur)
    BY <1>3, AskMaps, AnnounceMaps
  <2> QED BY <2>1, <2>2 DEF Abstract!Next
<1>4. CASE WriteFailed \/ ScalingCanceled \/ WritePending \/ ScalingStarted \/ WriteCompleted
  <2>1. cur \in SubJobs
    BY <1>0, <1>4 DEF WriteFailed, ScalingCanceled, WritePending, ScalingStarted,
       WriteCompleted
  <2>2. Abstract!Drop \/ Abstract!Open(cur) \/ Abstract!Complete(cur)
    BY <1>4, HandlerMaps
  <2> QED BY <2>1, <2>2 DEF Abstract!Next
<1>5. CASE \/ Quiet \/ HandlerFault \/ SchedulerCrashes
           \/ Handler /\ ~(\/ WriteWorkersCount \/ Publish \/ WriteFailed \/ ScalingCanceled
                           \/ WritePending \/ ScalingStarted \/ WriteCompleted)
  BY <1>5, OtherMaps
<1>6. ASSUME NEW r \in Runs, r \in statusQ.ready \union statusQ.late, StatusProcessed(r)
      PROVE  Abstract!Next
  <2>1. r.sub \in SubJobs
    BY DEF Runs
  <2> QED BY <1>6, <2>1, StatusMaps DEF Abstract!Next
<1>7. ASSUME NEW r \in Runs, r \in dataQ.ready \union dataQ.late, DataSaved(r)
      PROVE  Abstract!Next
  <2>1. r.sub \in SubJobs
    BY DEF Runs
  <2> QED BY <1>7, <2>1, AnswerMaps DEF Abstract!Next
<1>8. ASSUME NEW s \in SubJobs, DeadlinePasses(s)
      PROVE  UNCHANGED Abstract!vars
  BY <1>8, DeadlineMaps
<1> QED BY <1>0, <1>1, <1>2, <1>3, <1>4, <1>5, <1>6, <1>7, <1>8, StepCases

----------------------------------------------------------------------------
\* The pipeline implements the queue of sub jobs, for every number of jobs,
\* workers, services and failures: handler, consumers, cancels, crashes and late
\* messages together do nothing but announce, open, complete and drop sub jobs
\* on their turn.
THEOREM QueueImplemented == Spec => ImplementsSubJobQueue
<1>1. Spec => [](IInv /\ PathInv)
  <2>1. Init => IInv /\ PathInv
    BY InitIInv, InitPath
  <2>2. IInv /\ PathInv /\ [Next]_vars => (IInv /\ PathInv)'
    BY StepIInv, StepPath
  <2> QED BY <2>1, <2>2, PTL DEF Spec
<1> QED BY <1>1, InitMaps, StepMaps, PTL DEF Spec, ImplementsSubJobQueue, Abstract!Spec

============================================================================
