------------------------ MODULE JobPipeline_proofs -------------------------
(***************************************************************************)
(* Proofs about JobPipeline, for every number of workers, jobs, services,  *)
(* crashes and faults and every plan of sub jobs.                          *)
(***************************************************************************)
EXTENDS JobPipeline, FiniteSetTheorems, SequenceTheorems, TLAPS

----------------------------------------------------------------------------
(* Facts about the operators of the model *)

\* get_excluded_workers leaves out fewer workers than there are, so the
\* workers_count of a sub job is at least one.
LEMMA ExcludedCountBound ==
    ASSUME NEW kind, NEW n \in Nat, n > 0
    PROVE  ExcludedCount(kind, n) \in Nat /\ ExcludedCount(kind, n) < n
<1>1. CASE kind = "Partial1"
  BY <1>1, SMT DEF ExcludedCount
<1>2. CASE kind # "Partial1" /\ kind = "Partial80"
  BY <1>2, SMT DEF ExcludedCount
<1>3. CASE kind # "Partial1" /\ kind # "Partial80"
  BY <1>3, SMT DEF ExcludedCount
<1> QED BY <1>1, <1>2, <1>3

\* The rows of the plan have a kind.
LEMMA PlanKind ==
    ASSUME NEW k \in 1..Len(Plan)
    PROVE  Plan[k] \in Kinds
BY JobPipelineAssumption, ElementOfSeq

\* The plan of a job has at least one sub job.
LEMMA PlanLength == Len(Plan) \in Nat /\ Len(Plan) > 0
BY JobPipelineAssumption, EmptySeq, LenProperties

\* A set of workers is finite and its subsets are no larger.
LEMMA WorkerCounts ==
    ASSUME NEW A \in SUBSET Workers, NEW B \in SUBSET A
    PROVE  /\ Cardinality(A) \in Nat /\ Cardinality(B) \in Nat
           /\ Cardinality(B) <= Cardinality(A)
           /\ A # {} => Cardinality(A) > 0
<1>1. IsFiniteSet(A)
  BY JobPipelineAssumption, FS_Subset
<1>2. IsFiniteSet(B) /\ Cardinality(B) <= Cardinality(A)
  BY <1>1, FS_Subset
<1>3. A # {} => Cardinality(A) # 0
  BY <1>1, FS_EmptySet
<1>4. Cardinality(A) \in Nat /\ Cardinality(B) \in Nat
  BY <1>1, <1>2, FS_CardinalityType
<1> QED BY <1>2, <1>3, <1>4

\* Publishing a message keeps a queue well-formed.
LEMMA PublishedOK ==
    ASSUME NEW q, QueueOK(q), NEW r \in Runs
    PROVE  QueueOK(Published(q, r))
BY DEF QueueOK, Queue, Published

\* Handling a delivery keeps its queue well-formed, one delivery at a time.
LEMMA DeliverOK ==
    ASSUME NEW q, QueueOK(q), NEW r, IsNext(q, r), NEW ok \in BOOLEAN
    PROVE  QueueOK(Deliver(q, r, ok))
BY DEF QueueOK, Queue, Deliver, IsNext

\* The messages of a queue are runs.
LEMMA QueueRuns ==
    ASSUME NEW q, QueueOK(q), NEW r \in q.ready \union q.unacked \union q.late
    PROVE  r \in Runs
BY DEF QueueOK, Queue

\* So do the acknowledgement, the redelivery after a crash or the loss of the
\* channel, and the end of a statement that was cut off.
LEMMA AckedOK ==
    ASSUME NEW q, QueueOK(q)
    PROVE  /\ QueueOK(Acked(q)) /\ QueueOK(Requeued(q, {}))
           /\ \A c \in CutOff(q) : QueueOK(c)
           /\ \A r : QueueOK(Ended(q, r))
BY DEF QueueOK, Queue, Acked, Requeued, CutOff, Ended, IsNext

\* What a consumer does to its queue, and what the loss of its channel does, brings
\* no message of its own, and only an acknowledgement takes one away.
LEMMA QueueSteps ==
    ASSUME NEW q, QueueOK(q), NEW r, NEW c,
           \/ c \in CutOff(q) \union {Requeued(q, {}), Acked(q), Ended(q, r)}
           \/ /\ IsNext(q, r)
              /\ c \in {Deliver(q, r, TRUE), Deliver(q, r, FALSE)}
    PROVE  /\ c.ready \union c.unacked \union c.late
                 \subseteq q.ready \union q.unacked \union q.late
           /\ (q.ready \union q.unacked) \ (c.ready \union c.unacked) \subseteq q.done
           /\ \/ c.done \subseteq q.done
              \/ /\ c = Deliver(q, r, TRUE)
                 /\ c.done = q.done \union {r}
<1>1. CASE c \in CutOff(q)
  <2>1. PICK late \in SUBSET (q.late \union q.ready) : c = Requeued(q, late)
    BY <1>1 DEF CutOff
  <2> QED
    BY <2>1 DEF QueueOK, Queue, Requeued
<1>2. CASE c = Requeued(q, {})
  BY <1>2 DEF QueueOK, Queue, Requeued
<1>3. CASE c = Acked(q)
  BY <1>3 DEF QueueOK, Queue, Acked
<1>4. CASE c = Ended(q, r)
  BY <1>4 DEF QueueOK, Queue, Ended
<1>5. CASE IsNext(q, r) /\ c \in {Deliver(q, r, TRUE), Deliver(q, r, FALSE)}
  BY <1>5 DEF QueueOK, Queue, Deliver, IsNext
<1> QED BY <1>1, <1>2, <1>3, <1>4, <1>5

\* A published message is new in its queue, the rest stays.
LEMMA PublishedFields ==
    ASSUME NEW q, QueueOK(q), NEW r
    PROVE  /\ Published(q, r).ready = q.ready \union {r}
           /\ Published(q, r).unacked = q.unacked
           /\ Published(q, r).late = q.late
           /\ Published(q, r).done = q.done
BY DEF QueueOK, Queue, Published

\* Updating a field of a row keeps its type.
LEMMA RowUpdates ==
    ASSUME NEW f \in [SubJobs -> SubJobRow], NEW s \in SubJobs,
           NEW status \in SubJobStatus, NEW deadline \in Deadlines, NEW n \in Nat
    PROVE  /\ [f EXCEPT ![s].status = status] \in [SubJobs -> SubJobRow]
           /\ [f EXCEPT ![s].deadline = deadline] \in [SubJobs -> SubJobRow]
           /\ [f EXCEPT ![s].workers_count = n] \in [SubJobs -> SubJobRow]
           /\ [f EXCEPT ![s].status = status, ![s].deadline = deadline]
                 \in [SubJobs -> SubJobRow]
<1>1. f[s] \in SubJobRow
  OBVIOUS
<1>2. /\ [f[s] EXCEPT !.status = status] \in SubJobRow
      /\ [f[s] EXCEPT !.deadline = deadline] \in SubJobRow
      /\ [f[s] EXCEPT !.workers_count = n] \in SubJobRow
      /\ [f[s] EXCEPT !.status = status, !.deadline = deadline] \in SubJobRow
  BY <1>1 DEF SubJobRow
<1>3. [f EXCEPT ![s].status = status, ![s].deadline = deadline]
        = [f EXCEPT ![s] = [f[s] EXCEPT !.status = status, !.deadline = deadline]]
  OBVIOUS
<1> QED BY <1>2, <1>3

\* Canceling all sub jobs of a job keeps the rows' types.
LEMMA CancelRows ==
    ASSUME NEW f \in [SubJobs -> SubJobRow], NEW T
    PROVE  [s \in SubJobs |-> IF s \in T THEN [f[s] EXCEPT !.status = "Canceled"] ELSE f[s]]
              \in [SubJobs -> SubJobRow]
<1>1. ASSUME NEW s \in SubJobs
      PROVE  [f[s] EXCEPT !.status = "Canceled"] \in SubJobRow
  <2>1. f[s] \in SubJobRow
    OBVIOUS
  <2> QED BY <2>1 DEF SubJobRow, SubJobStatus
<1> QED BY <1>1

----------------------------------------------------------------------------
(* Types *)

\* What TypeOK needs to be inductive: a create handler that runs has rows of
\* the plan left to insert, and the sub job handler knows its sub job.
StepsOK ==
    /\ \A j \in creating : inserted[j] \in 1..Len(Plan)
    /\ pc # "idle" => cur \in SubJobs

TypeInv == TypeOK /\ StepsOK

\* The parts of the types that the proofs below use most.
LEMMA TypeFacts ==
    ASSUME TypeInv
    PROVE  /\ sub_jobs \in [SubJobs -> SubJobRow]
           /\ created \in Nat
           /\ cur \in SubJobs \union {0}
           /\ pubs \in [SubJobs -> Nat]
           /\ QueueOK(statusQ) /\ QueueOK(dataQ)
           /\ SubJobs \subseteq Nat
           /\ pc # "idle" => cur \in SubJobs
           /\ \A j \in creating : inserted[j] \in 1..Len(Plan)
<1>1. SubJobs \subseteq Nat
  BY DEF SubJobs
<1>2. /\ sub_jobs \in [SubJobs -> SubJobRow]
      /\ created \in Nat
      /\ cur \in SubJobs \union {0}
      /\ pubs \in [SubJobs -> Nat]
      /\ QueueOK(statusQ) /\ QueueOK(dataQ)
  BY DEF TypeInv, TypeOK
<1>3. StepsOK
  BY DEF TypeInv
<1> QED BY <1>1, <1>2, <1>3 DEF StepsOK

\* The step of each request handler keeps the types.
LEMMA ApiTypes ==
    ASSUME TypeInv, NEW j \in Jobs,
           \/ InsertJob(j) \/ InsertSubJob(j) \/ InsertFails(j)
           \/ CancelJob(j) \/ CancelSubJobs(j) \/ CancelFails(j)
    PROVE  TypeInv'
<1> USE DEF TypeInv, TypeOK, RunsOK, StepsOK, tables, apiVars, handlerVars, workerVars, bounds,
            JobStatus
<1>0. Len(Plan) \in Nat /\ Len(Plan) > 0
  BY PlanLength
<1>1. CASE InsertJob(j)
  BY <1>0, <1>1 DEF InsertJob
<1>2. CASE InsertSubJob(j)
  <2>1. NewRow(j) \in SubJobRow
    BY <1>2, PlanKind DEF InsertSubJob, NewRow, SubJobRow, SubJobStatus, Unfinished,
       Deadlines, Missing
  <2>5. created' \in Nat
    BY <1>2 DEF InsertSubJob
  <2>2. sub_jobs' \in [SubJobs -> SubJobRow]
    <3>1. CASE created + 1 \in SubJobs
      BY <1>2, <2>1, <3>1 DEF InsertSubJob
    <3>2. CASE created + 1 \notin SubJobs
      <4>1. sub_jobs' = sub_jobs
        BY <1>2, <3>2 DEF InsertSubJob
      <4> QED BY <4>1
    <3> QED BY <3>1, <3>2
  <2>3. inserted[j] \in 1..Len(Plan) /\ inserted' \in [Jobs -> 0..(Len(Plan) + 1)]
    BY <1>0, <1>2 DEF InsertSubJob
  <2>4. creating' \in SUBSET Jobs /\ StepsOK'
    BY <1>0, <1>2, <2>3 DEF InsertSubJob
  <2> QED
    BY <1>2, <2>2, <2>3, <2>4, <2>5 DEF InsertSubJob
<1>3. CASE InsertFails(j)
  BY <1>0, <1>3 DEF InsertFails
<1>4. CASE CancelJob(j)
  BY <1>0, <1>4 DEF CancelJob
<1>5. CASE CancelSubJobs(j)
  <2>2. sub_jobs' \in [SubJobs -> SubJobRow]
    BY <1>5, CancelRows, TypeFacts DEF CancelSubJobs
  <2> QED
    BY <1>0, <1>5, <2>2 DEF CancelSubJobs
<1>6. CASE CancelFails(j)
  BY <1>0, <1>6 DEF CancelFails
<1> QED BY <1>1, <1>2, <1>3, <1>4, <1>5, <1>6

\* The step of the sub job handler keeps the types.
LEMMA HandlerTypes ==
    ASSUME TypeInv, Handler \/ HandlerFault
    PROVE  TypeInv'
<1> USE DEF TypeInv, TypeOK, RunsOK, StepsOK, tables, apiVars, handlerVars, workerVars, bounds,
            JobStatus, HandlerFrame, GoOn, Return, HandlerSteps, Missing
<1>1. ASSUME NEW s \in SubJobs, PickCreated(s) \/ PickExpired(s) \/ PickProcessing(s)
      PROVE  TypeInv'
  <2>1. sub_jobs[s].workers_count \in Nat
    BY DEF SubJobRow
  <2> QED
    BY <1>1, <2>1 DEF PickCreated, PickExpired, PickProcessing, Pick
<1>2. ASSUME NEW s \in SubJobs, NEW t \in SubJobStatus,
             SetStatus(s, t) \/ SetStatusAndDeadline(s, t)
      PROVE  sub_jobs' \in [SubJobs -> SubJobRow]
  <2>1. "ahead" \in Deadlines /\ 0 \in Nat
    BY DEF Deadlines
  <2>2. sub_jobs \in [SubJobs -> SubJobRow]
    OBVIOUS
  <2>3. /\ [sub_jobs EXCEPT ![s].status = t] \in [SubJobs -> SubJobRow]
        /\ [sub_jobs EXCEPT ![s].status = t, ![s].deadline = "ahead"]
              \in [SubJobs -> SubJobRow]
    BY <2>1, <2>2, RowUpdates
  <2> QED BY <1>2, <2>3 DEF SetStatus, SetStatusAndDeadline
<1>3. {"Pending", "Processing", "Completed", "Failed", "Canceled"} \subseteq SubJobStatus
  BY DEF SubJobStatus, Unfinished
<1>4. CASE WriteFailed
  BY <1>2, <1>3, <1>4 DEF WriteFailed
<1>5. CASE ListWorkers
  <2>1. CASE online = {} /\ GoOn("fail")
    BY <1>5, <2>1 DEF ListWorkers
  <2>2. ASSUME NEW out \in SUBSET online,
               want' = Cardinality(online) - Cardinality(out), excluded' = out,
               pc' = "count", UNCHANGED cur
        PROVE  TypeInv'
    <3>1. online \in SUBSET Workers
      OBVIOUS
    <3>2. Cardinality(online) - Cardinality(out) \in Nat
      <4>1. /\ Cardinality(online) \in Nat /\ Cardinality(out) \in Nat
            /\ Cardinality(out) <= Cardinality(online)
        BY <3>1, WorkerCounts
      <4> QED BY <4>1
    <3>3. out \in SUBSET Workers
      BY <3>1
    <3> QED BY <1>5, <2>2, <3>2, <3>3 DEF ListWorkers
  <2> QED BY <1>5, <2>1, <2>2 DEF ListWorkers
<1>6. CASE WriteWorkersCount
  <2>1. sub_jobs' \in [SubJobs -> SubJobRow]
    BY <1>6, RowUpdates DEF WriteWorkersCount, SubJobStatus, Unfinished, Deadlines
  <2> QED BY <1>6, <2>1 DEF WriteWorkersCount
<1>7. CASE Publish
  <2>1. jobQ' \in SUBSET Messages
    <3>1. cur \in SubJobs /\ pubs[cur] + 1 \in Nat
      BY <1>7 DEF Publish
    <3>2. Deliveries \subseteq Messages
      <4>1. ASSUME NEW w \in Workers
            PROVE  [run |-> [worker |-> w, sub |-> cur, pub |-> pubs[cur] + 1],
                    excluded |-> excluded] \in Messages
        BY <3>1 DEF Runs, Messages
      <4> QED BY <4>1 DEF Deliveries
    <3> QED BY <1>7, <3>2 DEF Publish
  <2>2. \A m \in jobQ' : m.run.worker \in listening
    BY <1>7 DEF Publish, Deliveries
  <2> QED BY <1>7, <2>1, <2>2 DEF Publish
<1>8. CASE WritePending
  BY <1>2, <1>3, <1>8 DEF WritePending
<1>9. CASE ReadData
  BY <1>9 DEF ReadData
<1>10. CASE WriteCompleted
  BY <1>2, <1>3, <1>10 DEF WriteCompleted
<1>11. CASE CountSiblings
  BY <1>11 DEF CountSiblings
<1>12. CASE WriteJobCompleted
  BY <1>12 DEF WriteJobCompleted
<1>13. CASE ScalingCreated
  BY <1>13 DEF ScalingCreated
<1>14. CASE ScalingCanceled
  BY <1>2, <1>3, <1>14 DEF ScalingCanceled
<1>15. CASE ScalingStarted
  BY <1>2, <1>3, <1>15 DEF ScalingStarted
<1>16. CASE ScalingCheck
  BY <1>16 DEF ScalingCheck
<1>17. CASE HandlerFault
  BY <1>17 DEF HandlerFault, SkipSteps, FailSteps
<1> QED
  BY <1>1, <1>4, <1>5, <1>6, <1>7, <1>8, <1>9, <1>10, <1>11, <1>12, <1>13, <1>14, <1>15,
     <1>16, <1>17 DEF Handler

\* The step of a worker, of the consumers and of the environment keeps the types.
LEMMA WorkerTypes ==
    ASSUME TypeInv, WorkerStep \/ Environment
    PROVE  TypeInv'
<1> USE DEF TypeInv, TypeOK, RunsOK, StepsOK, tables, apiVars, handlerVars, workerVars, bounds,
            WorkerFrame, Churns, Loses
<1>1. ASSUME NEW m \in jobQ, WorkerExcluded(m)
      PROVE  TypeInv'
  BY <1>1 DEF WorkerExcluded, Receives
<1>2. ASSUME NEW r \in Runs, PublishStatus(r)
      PROVE  QueueOK(statusQ') /\ losses' \in Nat
  <2>1. QueueOK(Published(statusQ, r))
    BY PublishedOK
  <2>2. losses + 1 \in Nat
    OBVIOUS
  <2> QED BY <1>2, <2>1, <2>2 DEF PublishStatus
<1>3. ASSUME NEW r \in Runs, PublishResult(r)
      PROVE  QueueOK(dataQ') /\ losses' \in Nat /\ sent' \in SUBSET Runs
  <2>1. QueueOK(Published(dataQ, r))
    BY PublishedOK
  <2>2. losses + 1 \in Nat
    OBVIOUS
  <2> QED BY <1>3, <2>1, <2>2 DEF PublishResult
<1>4. ASSUME NEW m \in jobQ, WorkerAborts(m)
      PROVE  TypeInv'
  <2>1. m.run \in Runs
    BY DEF Messages
  <2>2. QueueOK(dataQ') /\ losses' \in Nat /\ sent' \in SUBSET Runs
    BY <1>3, <1>4, <2>1 DEF WorkerAborts
  <2> QED BY <1>4, <2>2 DEF WorkerAborts, Receives
<1>5. ASSUME NEW m \in jobQ, WorkerStarts(m)
      PROVE  TypeInv'
  <2>1. m.run \in Runs
    BY DEF Messages
  <2>2. QueueOK(statusQ') /\ losses' \in Nat
    BY <1>2, <1>5, <2>1 DEF WorkerStarts
  <2>3. jobQ' \in SUBSET Messages
    BY <1>5 DEF WorkerStarts, Receives
  <2>4. RunsOK'
    BY <1>5, <2>1 DEF WorkerStarts, Receives, Busy, WorkerFrame
  <2> QED BY <1>5, <2>2, <2>3, <2>4 DEF WorkerStarts
<1>6. ASSUME NEW r \in running, WorkerFinishes(r)
      PROVE  TypeInv'
  BY <1>3, <1>6 DEF WorkerFinishes
<1>7. ASSUME NEW w \in Workers,
             \/ WorkerLeaves(w) \/ WorkerCutOff(w) \/ WorkerReconnects(w)
             \/ WorkerJoins(w) \/ RegistryChanges(w)
      PROVE  TypeInv'
  <2>1. UNCHANGED <<tables, apiVars, handlerVars, pubs, sent, statusQ, dataQ,
                    crashes, faults, losses>>
    BY <1>7 DEF WorkerLeaves, WorkerCutOff, WorkerReconnects, WorkerJoins, RegistryChanges
  <2>2. churn' \in Nat /\ online' \in SUBSET Workers /\ jobQ' \in SUBSET Messages
    BY <1>7 DEF WorkerLeaves, WorkerCutOff, WorkerReconnects, WorkerJoins, QueueGone,
       RegistryChanges
  <2>3. RunsOK'
    BY <1>7 DEF WorkerLeaves, WorkerCutOff, WorkerReconnects, WorkerJoins, QueueGone,
       RegistryChanges
  <2> QED BY <2>1, <2>2, <2>3
<1>8. CASE StatusCutOff \/ DataCutOff
  <2>1. QueueOK(statusQ') /\ QueueOK(dataQ') /\ losses' \in Nat
    BY <1>8, AckedOK DEF StatusCutOff, DataCutOff
  <2> QED BY <1>8, <2>1 DEF StatusCutOff, DataCutOff, ConsumerFrame
<1> QED BY <1>1, <1>4, <1>5, <1>6, <1>7, <1>8 DEF WorkerStep, Environment

\* The step of the consumers, of time and a crash keep the types.
LEMMA ConsumerTypes ==
    ASSUME TypeInv,
           \/ StatusConsumer \/ DataConsumer \/ SchedulerCrashes
           \/ \E s \in SubJobs : DeadlinePasses(s)
    PROVE  TypeInv'
<1> USE DEF TypeInv, TypeOK, RunsOK, StepsOK, tables, apiVars, handlerVars, workerVars, bounds,
            ConsumerFrame, Loses
<1>1. ASSUME NEW r \in statusQ.ready \union statusQ.late, StatusProcessed(r)
      PROVE  TypeInv'
  <2>1. r.sub \in SubJobs
    BY TypeFacts, QueueRuns DEF Runs
  <2>2. "Processing" \in SubJobStatus /\ "none" \in Deadlines /\ 0 \in Nat
    BY DEF SubJobStatus, Unfinished, Deadlines
  <2>3. sub_jobs' \in [SubJobs -> SubJobRow]
    BY <1>1, <2>1, <2>2, RowUpdates DEF StatusProcessed, SetStatus
  <2>4. QueueOK(statusQ')
    <3>1. CASE IsNext(statusQ, r) /\ statusQ' = Deliver(statusQ, r, TRUE)
      BY <3>1, TypeFacts, DeliverOK
    <3>2. CASE statusQ' = Ended(statusQ, r)
      BY <3>2, TypeFacts, AckedOK
    <3> QED BY <1>1, <3>1, <3>2 DEF StatusProcessed
  <2> QED BY <1>1, <2>3, <2>4 DEF StatusProcessed
<1>2. ASSUME NEW r \in statusQ.ready \union statusQ.late, StatusFails(r)
      PROVE  TypeInv'
  <2>1. QueueOK(statusQ')
    BY <1>2, DeliverOK DEF StatusFails
  <2>2. losses' \in Nat
    BY <1>2 DEF StatusFails
  <2> QED BY <1>2, <2>1, <2>2 DEF StatusFails
<1>3. CASE StatusAcked
  BY <1>3, AckedOK DEF StatusAcked
<1>4. ASSUME NEW r \in dataQ.ready \union dataQ.late, DataSaved(r)
      PROVE  TypeInv'
  <2>1. r \in Runs
    BY TypeFacts, QueueRuns
  <2>2. QueueOK(dataQ')
    <3>1. CASE IsNext(dataQ, r) /\ dataQ' = Deliver(dataQ, r, TRUE)
      BY <3>1, TypeFacts, DeliverOK
    <3>2. CASE dataQ' = Ended(dataQ, r)
      BY <3>2, TypeFacts, AckedOK
    <3> QED BY <1>4, <3>1, <3>2 DEF DataSaved
  <2> QED BY <1>4, <2>1, <2>2 DEF DataSaved
<1>5. ASSUME NEW r \in dataQ.ready \union dataQ.late, DataFails(r)
      PROVE  TypeInv'
  <2>1. QueueOK(dataQ')
    <3>1. CASE IsNext(dataQ, r) /\ dataQ' = Deliver(dataQ, r, FALSE)
      BY <3>1, TypeFacts, DeliverOK
    <3>2. CASE dataQ' = Ended(dataQ, r)
      BY <3>2, TypeFacts, AckedOK
    <3> QED BY <1>5, <3>1, <3>2 DEF DataFails
  <2>2. losses' \in Nat
    BY <1>5 DEF DataFails
  <2> QED BY <1>5, <2>1, <2>2 DEF DataFails
<1>6. CASE DataAcked
  BY <1>6, AckedOK DEF DataAcked
<1>7. CASE SchedulerCrashes
  BY <1>7, AckedOK DEF SchedulerCrashes, Return, HandlerSteps, Missing
<1>8. ASSUME NEW s \in SubJobs, DeadlinePasses(s)
      PROVE  TypeInv'
  <2>1. "passed" \in Deadlines /\ "Created" \in SubJobStatus /\ 0 \in Nat
    BY DEF SubJobStatus, Unfinished, Deadlines
  <2>2. sub_jobs' \in [SubJobs -> SubJobRow]
    BY <1>8, <2>1, RowUpdates DEF DeadlinePasses
  <2> QED BY <1>8, <2>2 DEF DeadlinePasses
<1> QED
  BY <1>1, <1>2, <1>3, <1>4, <1>5, <1>6, <1>7, <1>8 DEF StatusConsumer, DataConsumer

\* The initial states have the types.
LEMMA InitTypes == Init => TypeInv
BY PlanLength, JobPipelineAssumption
   DEF Init, TypeInv, TypeOK, RunsOK, StepsOK, Jobs, SubJobs, SubJobRow, Kinds, Deadlines, Missing,
       HandlerSteps, QueueOK, Queue, EmptyQueue, SubJobStatus, JobStatus

\* Every step keeps the types.
LEMMA StepTypes == TypeInv /\ [Next]_vars => TypeInv'
<1> SUFFICES ASSUME TypeInv, [Next]_vars PROVE TypeInv'
  OBVIOUS
<1>1. CASE UNCHANGED vars
  BY <1>1 DEF vars, TypeInv, TypeOK, RunsOK, StepsOK, tables, apiVars, handlerVars, workerVars, bounds
<1>2. CASE Next
  BY <1>2, ApiTypes, HandlerTypes, WorkerTypes, ConsumerTypes
     DEF Next, CreateHandler, CancelHandler
<1> QED BY <1>1, <1>2

\* Every variable keeps its type, a consumer of the scheduler acknowledges one
\* delivery at a time, and a consumer of jobs is at one run at a time: a worker
\* whose channel was lost goes on with a run of its old consumer beside that of
\* the new one, and those runs are the orphaned ones (job_consumer.rs:149-171).
THEOREM TypeCorrect == Spec => []TypeOK
<1>1. Spec => []TypeInv
  BY InitTypes, StepTypes, PTL DEF Spec
<1>2. TypeInv => TypeOK
  BY DEF TypeInv
<1> QED BY <1>1, <1>2, PTL

----------------------------------------------------------------------------
(* Which steps change what the invariants below speak of *)

\* Everything but the steps that touch the sub jobs, their publications or the
\* handler: it also leaves the messages of a run where the run was.
Quiet ==
    /\ UNCHANGED <<sub_jobs, created, pubs, handlerVars, worker_data, crashes, faults>>
    /\ \A m \in jobQ' : m \in jobQ
    /\ \A r \in running' : r \in running \/ \E m \in jobQ : m.run = r
    /\ \A r \in statusQ'.ready \union statusQ'.unacked \union statusQ'.late :
          \/ r \in statusQ.ready \union statusQ.unacked \union statusQ.late
          \/ \E m \in jobQ : m.run = r

\* The steps that are quiet.
LEMMA QuietSteps ==
    ASSUME TypeInv,
           \/ \E j \in Jobs : \/ InsertJob(j) \/ InsertFails(j)
                              \/ CancelJob(j) \/ CancelFails(j)
           \/ WorkerStep \/ Environment
           \/ \E r \in statusQ.ready \union statusQ.late : StatusFails(r)
           \/ StatusAcked
           \/ \E r \in dataQ.ready \union dataQ.late : DataFails(r)
           \/ DataAcked
           \/ UNCHANGED vars
    PROVE  Quiet
<1> USE DEF Quiet, tables, apiVars, handlerVars, workerVars, bounds
<1>0. QueueOK(statusQ) /\ QueueOK(dataQ)
  BY DEF TypeInv, TypeOK
<1>1. ASSUME NEW j \in Jobs, InsertJob(j) \/ InsertFails(j) \/ CancelJob(j) \/ CancelFails(j)
      PROVE  Quiet
  BY <1>1 DEF InsertJob, InsertFails, CancelJob, CancelFails
<1>2. CASE WorkerStep
  <2>1. ASSUME NEW m \in jobQ, WorkerExcluded(m) \/ WorkerAborts(m)
        PROVE  Quiet
    BY <2>1 DEF WorkerExcluded, WorkerAborts, Receives, WorkerFrame
  <2>2. ASSUME NEW m \in jobQ, WorkerStarts(m)
        PROVE  Quiet
    BY <1>0, <2>2, PublishedFields DEF WorkerStarts, Receives, WorkerFrame, PublishStatus
  <2>3. ASSUME NEW r \in running, WorkerFinishes(r)
        PROVE  Quiet
    BY <2>3 DEF WorkerFinishes, WorkerFrame
  <2> QED BY <1>2, <2>1, <2>2, <2>3 DEF WorkerStep
<1>3. CASE Environment
  <2>1. CASE StatusCutOff
    BY <1>0, <2>1, QueueSteps DEF StatusCutOff, ConsumerFrame
  <2>2. CASE DataCutOff
    BY <2>2 DEF DataCutOff, ConsumerFrame
  <2> QED
    BY <1>3, <2>1, <2>2 DEF Environment, WorkerLeaves, WorkerCutOff, WorkerReconnects,
       WorkerJoins, QueueGone, RegistryChanges
<1>4. ASSUME NEW r \in statusQ.ready \union statusQ.late, StatusFails(r)
      PROVE  Quiet
  BY <1>0, <1>4, QueueSteps DEF StatusFails, ConsumerFrame
<1>5. CASE StatusAcked
  BY <1>0, <1>5, QueueSteps DEF StatusAcked, ConsumerFrame
<1>6. ASSUME NEW r \in dataQ.ready \union dataQ.late, DataFails(r)
      PROVE  Quiet
  BY <1>6 DEF DataFails, ConsumerFrame
<1>7. CASE DataAcked
  BY <1>7 DEF DataAcked, ConsumerFrame
<1>8. CASE UNCHANGED vars
  BY <1>8 DEF vars
<1> QED BY <1>1, <1>2, <1>3, <1>4, <1>5, <1>6, <1>7, <1>8

\* The cases of a step, for the proofs below.
LEMMA StepCases ==
    ASSUME TypeInv, [Next]_vars
    PROVE  \/ Quiet
           \/ \E j \in Jobs : InsertSubJob(j) \/ CancelSubJobs(j)
           \/ Handler
           \/ HandlerFault
           \/ \E r \in Runs : r \in statusQ.ready \union statusQ.late /\ StatusProcessed(r)
           \/ \E r \in Runs : r \in dataQ.ready \union dataQ.late /\ DataSaved(r)
           \/ \E s \in SubJobs : DeadlinePasses(s)
           \/ SchedulerCrashes
<1>1. statusQ.ready \union statusQ.late \subseteq Runs
      /\ dataQ.ready \union dataQ.late \subseteq Runs
  BY DEF TypeInv, TypeOK, QueueOK, Queue
<1> QED
  BY <1>1, QuietSteps DEF Next, CreateHandler, CancelHandler, StatusConsumer, DataConsumer

\* Writing a status changes nothing else of the rows.
LEMMA StatusWrite ==
    ASSUME TypeInv, NEW s \in SubJobs, NEW t \in SubJobStatus,
           SetStatus(s, t) \/ SetStatusAndDeadline(s, t)
    PROVE  /\ sub_jobs'[s].status = t
           /\ \A x \in SubJobs : x # s => sub_jobs'[x] = sub_jobs[x]
           /\ \A x \in SubJobs : /\ sub_jobs'[x].kind = sub_jobs[x].kind
                                 /\ sub_jobs'[x].job = sub_jobs[x].job
                                 /\ sub_jobs'[x].workers_count = sub_jobs[x].workers_count
<1>1. sub_jobs \in [SubJobs -> SubJobRow]
  BY DEF TypeInv, TypeOK
<1>2. CASE SetStatus(s, t)
  BY <1>1, <1>2 DEF SubJobRow, SetStatus
<1>3. CASE SetStatusAndDeadline(s, t)
  BY <1>1, <1>3 DEF SubJobRow, SetStatusAndDeadline
<1> QED BY <1>2, <1>3

\* The status a step of the handler writes to its sub job.
LEMMA HandlerWrites ==
    ASSUME TypeInv
    PROVE  /\ pc # "idle" => cur \in SubJobs
           /\ WriteFailed => SetStatus(cur, "Failed")
           /\ WritePending => SetStatusAndDeadline(cur, "Pending")
           /\ WriteCompleted => SetStatus(cur, "Completed")
           /\ ScalingCanceled => SetStatus(cur, "Canceled")
           /\ ScalingStarted => SetStatusAndDeadline(cur, "Processing")
           /\ \A r \in Runs : StatusProcessed(r) => SetStatus(r.sub, "Processing")
           /\ {"Pending", "Processing", "Completed", "Failed", "Canceled"} \subseteq SubJobStatus
BY DEF TypeInv, StepsOK, WriteFailed, WritePending, WriteCompleted, ScalingCanceled,
       ScalingStarted, StatusProcessed, SubJobStatus, Unfinished

----------------------------------------------------------------------------
(* The rows and the sub job of the handler *)

\* The steps of process_combined_dhp_type and of process_scaling.
BenchmarkSteps == {"list", "count", "publish", "pending", "read", "siblings", "finish"}
ScalingSteps == {"scale", "cancel", "scaled", "check"}

\* No row beyond created, no publication without a row, no message without a
\* publication, and the handler is in the branch of the kind of its sub job.
RowInv ==
    /\ \A s \in SubJobs : s > created => sub_jobs[s].status = "absent" /\ pubs[s] = 0
    /\ cur <= created
    /\ \A m \in jobQ : pubs[m.run.sub] > 0
    /\ \A r \in running \union statusQ.ready \union statusQ.unacked \union statusQ.late : pubs[r.sub] > 0
    /\ pc \in BenchmarkSteps => IsBenchmark(cur)
    /\ pc \in ScalingSteps => ~IsBenchmark(cur)

\* The tables are empty at first.
LEMMA InitRow == Init => RowInv
BY DEF Init, RowInv, BenchmarkSteps, ScalingSteps, SubJobs, EmptyQueue

\* A step keeps the rows, the publications and the messages in line.
LEMMA StepRow ==
    ASSUME TypeInv, RowInv, [Next]_vars
    PROVE  RowInv'
<1> USE DEF RowInv, IsBenchmark, BenchmarkSteps, ScalingSteps
<1>0. created \in Nat /\ cur \in SubJobs \union {0} /\ pubs \in [SubJobs -> Nat]
      /\ SubJobs \subseteq Nat /\ sub_jobs \in [SubJobs -> SubJobRow]
  BY DEF TypeInv, TypeOK, SubJobs
<1>1. CASE Quiet
  BY <1>1 DEF Quiet, handlerVars
<1>2. ASSUME NEW j \in Jobs, InsertSubJob(j)
      PROVE  RowInv'
  <2>1. \A s \in SubJobs : s # created + 1 => sub_jobs'[s] = sub_jobs[s]
    BY <1>0, <1>2 DEF InsertSubJob
  <2>2. /\ created' = created + 1
        /\ UNCHANGED <<pc, cur, pubs, jobQ, running, statusQ>>
    BY <1>2 DEF InsertSubJob, handlerVars, workerVars
  <2> QED BY <1>0, <2>1, <2>2, TypeFacts
<1>3. ASSUME NEW j \in Jobs, CancelSubJobs(j)
      PROVE  RowInv'
  <2>1. \A s \in SubJobs : /\ sub_jobs'[s].kind = sub_jobs[s].kind
                           /\ s > created => sub_jobs'[s] = sub_jobs[s]
    BY <1>0, <1>3 DEF CancelSubJobs, SubJobsOf, SubJobRow
  <2> QED BY <1>0, <1>3, <2>1 DEF CancelSubJobs, handlerVars, workerVars, TypeInv, StepsOK
<1>4. CASE Handler
  <2>1. ASSUME NEW s \in SubJobs, PickCreated(s) \/ PickExpired(s) \/ PickProcessing(s)
        PROVE  RowInv'
    <3>1. s <= created
      BY <1>0, <2>1 DEF PickCreated, PickExpired, PickProcessing
    <3> QED
      BY <1>0, <2>1, <3>1 DEF PickCreated, PickExpired, PickProcessing, Pick, HandlerFrame
  <2>2. ASSUME WriteFailed \/ WritePending \/ WriteCompleted \/ ScalingCanceled
               \/ ScalingStarted
        PROVE  RowInv'
    <3>1. /\ cur \in SubJobs /\ created' = created /\ pubs' = pubs
          /\ UNCHANGED <<jobQ, running, statusQ>>
      BY <2>2, HandlerWrites
         DEF WriteFailed, WritePending, WriteCompleted, ScalingCanceled, ScalingStarted,
             HandlerFrame
    <3>2. \A x \in SubJobs : /\ sub_jobs'[x].kind = sub_jobs[x].kind
                             /\ x # cur => sub_jobs'[x] = sub_jobs[x]
      BY <2>2, <3>1, HandlerWrites, StatusWrite
    <3>3. \/ pc' = "idle" /\ cur' = 0
          \/ pc' = "siblings" /\ cur' = cur /\ IsBenchmark(cur)
      BY <2>2 DEF WriteFailed, WritePending, WriteCompleted, ScalingCanceled, ScalingStarted,
                  GoOn, Return
    <3> QED BY <1>0, <3>1, <3>2, <3>3
  <2>3. ASSUME ListWorkers \/ ReadData \/ CountSiblings \/ WriteJobCompleted
               \/ ScalingCreated \/ ScalingCheck
        PROVE  RowInv'
    BY <1>0, <2>3 DEF ListWorkers, ReadData, CountSiblings, WriteJobCompleted,
       ScalingCreated, ScalingCheck, GoOn, Return, HandlerFrame
  <2>4. CASE WriteWorkersCount
    <3>1. cur \in SubJobs
      BY <2>4, HandlerWrites DEF WriteWorkersCount
    <3>2. \A x \in SubJobs : /\ sub_jobs'[x].kind = sub_jobs[x].kind
                             /\ sub_jobs'[x].status = sub_jobs[x].status
      BY <1>0, <2>4, <3>1 DEF WriteWorkersCount, SubJobRow
    <3> QED BY <1>0, <2>4, <3>1, <3>2 DEF WriteWorkersCount, GoOn, HandlerFrame
  <2>5. CASE Publish
    <3>1. cur \in SubJobs
      BY <2>5, HandlerWrites DEF Publish
    <3>2. /\ \A x \in SubJobs : pubs[x] <= pubs'[x] /\ (x # cur => pubs'[x] = pubs[x])
          /\ pubs'[cur] > 0
      <4>1. pubs' = [pubs EXCEPT ![cur] = pubs[cur] + 1] /\ pubs[cur] \in Nat
        BY <1>0, <2>5, <3>1 DEF Publish
      <4>2. \A x \in SubJobs : pubs[x] \in Nat
        BY <1>0
      <4>3. pubs'[cur] = pubs[cur] + 1 /\ \A x \in SubJobs : x # cur => pubs'[x] = pubs[x]
        BY <1>0, <3>1, <4>1
      <4> QED BY <4>1, <4>2, <4>3
    <3>3. \A m \in jobQ' : m \in jobQ \/ m.run.sub = cur
      BY <2>5 DEF Publish, Deliveries
    <3>4. /\ \A m \in jobQ : m.run.sub \in SubJobs
          /\ \A r \in running \union statusQ.ready \union statusQ.unacked \union statusQ.late : r.sub \in SubJobs
      <4>1. jobQ \in SUBSET Messages /\ running \in SUBSET Runs
        BY DEF TypeInv, TypeOK, RunsOK
      <4> QED BY <4>1, TypeFacts, QueueRuns DEF Messages, Runs
    <3>5. /\ \A m \in jobQ' : pubs'[m.run.sub] > 0
          /\ \A r \in running \union statusQ.ready \union statusQ.unacked \union statusQ.late : pubs'[r.sub] > 0
      BY <1>0, <3>2, <3>3, <3>4
    <3>6. ASSUME NEW s \in SubJobs, s > created
          PROVE  pubs'[s] = 0
      <4>1. cur <= created /\ pubs[s] = 0
        BY <3>6
      <4>2. s # cur
        BY <1>0, <3>6, <4>1
      <4> QED BY <3>2, <4>1, <4>2
    <3> QED BY <1>0, <2>5, <3>1, <3>5, <3>6 DEF Publish, GoOn, HandlerFrame
  <2> QED BY <1>4, <2>1, <2>2, <2>3, <2>4, <2>5 DEF Handler
<1>5. CASE HandlerFault
  BY <1>0, <1>5 DEF HandlerFault, GoOn, Return, tables, workerVars
<1>6. ASSUME NEW r \in Runs, r \in statusQ.ready \union statusQ.late, StatusProcessed(r)
      PROVE  RowInv'
  <2>0. pubs[r.sub] > 0 /\ r.sub \in SubJobs
    BY <1>6 DEF Runs
  <2>a. \A s \in SubJobs : pubs[s] > 0 => s <= created
    BY <1>0
  <2>1. r.sub \in SubJobs /\ r.sub <= created
    BY <2>0, <2>a
  <2>2. \A x \in SubJobs : /\ sub_jobs'[x].kind = sub_jobs[x].kind
                           /\ x # r.sub => sub_jobs'[x] = sub_jobs[x]
    BY <1>6, <2>1, HandlerWrites, StatusWrite
  <2>3. UNCHANGED <<created, pubs, handlerVars, workerVars>>
    BY <1>6 DEF StatusProcessed, ConsumerFrame
  <2>4. statusQ'.ready \union statusQ'.unacked \union statusQ'.late
          \subseteq statusQ.ready \union statusQ.unacked \union statusQ.late
    <3> QED
      BY <1>6, TypeFacts, QueueSteps DEF StatusProcessed
  <2>5. ASSUME NEW s \in SubJobs, s > created
        PROVE  sub_jobs'[s].status = "absent" /\ pubs'[s] = 0
    <3>1. s # r.sub
      BY <1>0, <2>1, <2>5
    <3> QED BY <2>2, <2>3, <2>5, <3>1
  <2>6. /\ cur' <= created'
        /\ \A m \in jobQ' : pubs'[m.run.sub] > 0
        /\ \A x \in running' \union statusQ'.ready \union statusQ'.unacked \union statusQ'.late : pubs'[x.sub] > 0
    BY <2>3, <2>4 DEF handlerVars, workerVars
  <2>7. pc # "idle" => cur \in SubJobs
    BY DEF TypeInv, StepsOK
  <2>8. /\ pc' \in BenchmarkSteps => IsBenchmark(cur)'
        /\ pc' \in ScalingSteps => ~IsBenchmark(cur)'
    BY <2>2, <2>3, <2>7 DEF handlerVars
  <2> QED BY <2>3, <2>5, <2>6, <2>8
<1>7. ASSUME NEW r \in Runs, DataSaved(r)
      PROVE  RowInv'
  BY <1>7 DEF DataSaved, ConsumerFrame, handlerVars, workerVars
<1>8. ASSUME NEW s \in SubJobs, DeadlinePasses(s)
      PROVE  RowInv'
  <2>1. \A x \in SubJobs : /\ sub_jobs'[x].kind = sub_jobs[x].kind
                           /\ sub_jobs'[x].status = sub_jobs[x].status
    BY <1>0, <1>8 DEF DeadlinePasses, SubJobRow
  <2> QED BY <1>0, <1>8, <2>1 DEF DeadlinePasses, handlerVars, workerVars, TypeInv, StepsOK
<1>9. CASE SchedulerCrashes
  <2>1. statusQ'.ready \union statusQ'.unacked \union statusQ'.late
          \subseteq statusQ.ready \union statusQ.unacked \union statusQ.late
    <3>1. QueueOK(statusQ)
      BY DEF TypeInv, TypeOK
    <3> QED
      BY <1>9, <3>1, QueueSteps DEF SchedulerCrashes
  <2> QED
    BY <1>0, <1>9, <2>1 DEF SchedulerCrashes, Return, tables, workerVars
<1> QED
  BY StepCases, <1>1, <1>2, <1>3, <1>4, <1>5, <1>6, <1>7, <1>8, <1>9

----------------------------------------------------------------------------
(* What a step may do to the rows and the publications *)

\* The rows that exist keep their kind and, but for one write, their count.
RowsKept ==
    /\ created <= created'
    /\ \A s \in SubJobs : s <= created =>
          /\ sub_jobs'[s].kind = sub_jobs[s].kind
          /\ \/ sub_jobs'[s].workers_count = sub_jobs[s].workers_count
             \/ WriteWorkersCount /\ s = cur
    /\ \A s \in SubJobs : s > created =>
          \/ sub_jobs'[s] = sub_jobs[s]
          \/ sub_jobs'[s].status = "Created"

\* How a row that exists gets another status.
StatusKept ==
    \A s \in SubJobs : s <= created =>
        \/ sub_jobs'[s].status = sub_jobs[s].status
        \/ sub_jobs'[s].status \in {"Failed", "Canceled"}
        \/ sub_jobs'[s].status = "Completed" /\ WriteCompleted /\ s = cur
        \/ sub_jobs'[s].status = "Pending" /\ WritePending /\ s = cur
        \/ sub_jobs'[s].status = "Processing" /\ ScalingStarted /\ s = cur
        \/ sub_jobs'[s].status = "Processing" /\ pubs[s] > 0

\* Only the handler publishes, one message at a time.
PubsKept == \A s \in SubJobs :
    \/ pubs'[s] = pubs[s]
    \/ Publish /\ s = cur /\ pubs'[s] = pubs[s] + 1

\* A step changes rows and publications only in these ways.
LEMMA StepEffects ==
    ASSUME TypeInv, RowInv, [Next]_vars
    PROVE  RowsKept /\ StatusKept /\ PubsKept
<1> USE DEF RowsKept, StatusKept, PubsKept
<1>0. /\ created \in Nat /\ SubJobs \subseteq Nat
      /\ sub_jobs \in [SubJobs -> SubJobRow] /\ pubs \in [SubJobs -> Nat]
  BY DEF TypeInv, TypeOK, SubJobs
<1>1. CASE UNCHANGED <<sub_jobs, created, pubs>>
  BY <1>0, <1>1
<1>2. ASSUME NEW j \in Jobs, InsertSubJob(j)
      PROVE  RowsKept /\ StatusKept /\ PubsKept
  <2>1. /\ \A s \in SubJobs : s # created + 1 => sub_jobs'[s] = sub_jobs[s]
        /\ created + 1 \in SubJobs => sub_jobs'[created + 1].status = "Created"
    BY <1>0, <1>2 DEF InsertSubJob, NewRow
  <2> QED BY <1>0, <1>2, <2>1 DEF InsertSubJob
<1>3. ASSUME NEW j \in Jobs, CancelSubJobs(j)
      PROVE  RowsKept /\ StatusKept /\ PubsKept
  <2>1. \A s \in SubJobs :
           /\ sub_jobs'[s].kind = sub_jobs[s].kind
           /\ sub_jobs'[s].workers_count = sub_jobs[s].workers_count
           /\ sub_jobs'[s] = sub_jobs[s] \/ (s <= created /\ sub_jobs'[s].status = "Canceled")
    BY <1>0, <1>3 DEF CancelSubJobs, SubJobsOf, SubJobRow
  <2> QED BY <1>0, <1>3, <2>1 DEF CancelSubJobs
<1>4. CASE Handler
  <2>1. CASE WriteWorkersCount
    <3>1. cur \in SubJobs /\ cur <= created
      BY <2>1, HandlerWrites DEF WriteWorkersCount, RowInv
    <3>2. \A s \in SubJobs : /\ sub_jobs'[s].kind = sub_jobs[s].kind
                             /\ sub_jobs'[s].status = sub_jobs[s].status
                             /\ s # cur => sub_jobs'[s] = sub_jobs[s]
      BY <1>0, <2>1, <3>1 DEF WriteWorkersCount, SubJobRow
    <3>3. UNCHANGED <<created, pubs>>
      BY <2>1 DEF WriteWorkersCount, HandlerFrame
    <3>4. \A s \in SubJobs :
             \/ sub_jobs'[s].workers_count = sub_jobs[s].workers_count
             \/ WriteWorkersCount /\ s = cur
      BY <2>1, <3>2
    <3>5. \A s \in SubJobs : s > created => sub_jobs'[s] = sub_jobs[s]
      BY <1>0, <3>1, <3>2
    <3> QED BY <1>0, <3>2, <3>3, <3>4, <3>5
  <2>2. CASE Publish
    <3>1. /\ pubs' = [pubs EXCEPT ![cur] = pubs[cur] + 1]
          /\ UNCHANGED <<sub_jobs, created>>
      BY <2>2 DEF Publish, HandlerFrame
    <3>2. RowsKept /\ StatusKept
      BY <1>0, <3>1
    <3>3. PubsKept
      BY <1>0, <2>2, <3>1
    <3> QED BY <3>2, <3>3
  <2>3. ASSUME WriteFailed \/ WritePending \/ WriteCompleted \/ ScalingCanceled
               \/ ScalingStarted
        PROVE  RowsKept /\ StatusKept /\ PubsKept
    <3>1. /\ cur \in SubJobs /\ cur <= created /\ UNCHANGED <<created, pubs>>
      BY <2>3, HandlerWrites
         DEF WriteFailed, WritePending, WriteCompleted, ScalingCanceled, ScalingStarted,
             HandlerFrame, RowInv
    <3>2. \A x \in SubJobs : /\ sub_jobs'[x].kind = sub_jobs[x].kind
                             /\ sub_jobs'[x].workers_count = sub_jobs[x].workers_count
                             /\ x # cur => sub_jobs'[x] = sub_jobs[x]
      BY <2>3, <3>1, HandlerWrites, StatusWrite
    <3>3. \/ sub_jobs'[cur].status \in {"Failed", "Canceled"}
          \/ WriteCompleted /\ sub_jobs'[cur].status = "Completed"
          \/ WritePending /\ sub_jobs'[cur].status = "Pending"
          \/ ScalingStarted /\ sub_jobs'[cur].status = "Processing"
      BY <2>3, <3>1, HandlerWrites, StatusWrite
    <3> QED BY <1>0, <3>1, <3>2, <3>3
  <2>4. ASSUME \/ \E s \in SubJobs : PickCreated(s) \/ PickExpired(s) \/ PickProcessing(s)
               \/ ListWorkers \/ ReadData \/ CountSiblings \/ WriteJobCompleted
               \/ ScalingCreated \/ ScalingCheck
        PROVE  RowsKept /\ StatusKept /\ PubsKept
    BY <1>1, <2>4 DEF PickCreated, PickExpired, PickProcessing, Pick, ListWorkers, ReadData,
       CountSiblings, WriteJobCompleted, ScalingCreated, ScalingCheck, HandlerFrame
  <2> QED BY <1>4, <2>1, <2>2, <2>3, <2>4 DEF Handler
<1>5. ASSUME NEW r \in Runs, r \in statusQ.ready \union statusQ.late, StatusProcessed(r)
      PROVE  RowsKept /\ StatusKept /\ PubsKept
  <2>1. r.sub \in SubJobs /\ pubs[r.sub] > 0 /\ UNCHANGED <<created, pubs>>
    BY <1>5 DEF Runs, RowInv, StatusProcessed, ConsumerFrame
  <2>2. /\ \A x \in SubJobs : /\ sub_jobs'[x].kind = sub_jobs[x].kind
                              /\ sub_jobs'[x].workers_count = sub_jobs[x].workers_count
                              /\ x # r.sub => sub_jobs'[x] = sub_jobs[x]
        /\ sub_jobs'[r.sub].status = "Processing"
    BY <1>5, <2>1, HandlerWrites, StatusWrite
  <2>3. \A s \in SubJobs : pubs[s] > 0 => s <= created
    BY <1>0 DEF RowInv
  <2>4. r.sub <= created
    BY <2>1, <2>3
  <2>a. \A s \in SubJobs : s > created => sub_jobs'[s] = sub_jobs[s]
    BY <1>0, <2>1, <2>2, <2>4
  <2>5. RowsKept /\ PubsKept
    BY <1>0, <2>1, <2>2, <2>a
  <2>6. StatusKept
    BY <2>1, <2>2
  <2> QED BY <2>5, <2>6
<1>6. ASSUME NEW s \in SubJobs, DeadlinePasses(s)
      PROVE  RowsKept /\ StatusKept /\ PubsKept
  <2>1. \A x \in SubJobs : /\ sub_jobs'[x].kind = sub_jobs[x].kind
                           /\ sub_jobs'[x].status = sub_jobs[x].status
                           /\ sub_jobs'[x].workers_count = sub_jobs[x].workers_count
                           /\ x # s => sub_jobs'[x] = sub_jobs[x]
    BY <1>0, <1>6 DEF DeadlinePasses, SubJobRow
  <2>2. s <= created /\ UNCHANGED <<created, pubs>>
    BY <1>0, <1>6 DEF DeadlinePasses, RowInv, IsUnfinished, Unfinished
  <2> QED BY <1>0, <2>1, <2>2
<1> QED
  BY StepCases, <1>1, <1>2, <1>3, <1>4, <1>5, <1>6
     DEF Quiet, HandlerFault, DataSaved, ConsumerFrame, SchedulerCrashes, tables

----------------------------------------------------------------------------
(* How the handler gets from one step to the next *)

\* The steps before the publication.
Starting == {"list", "count", "publish"}

\* The step a handler is at tells where it came from.
MovesKept ==
    /\ crashes <= crashes' /\ faults <= faults'
    /\ pc' # "idle" =>
          \/ pc # "idle" /\ cur' = cur
          \/ /\ pc = "idle" /\ cur' \in SubJobs /\ FirstUnfinished(cur')
             /\ UNCHANGED <<sub_jobs, created, pubs, worker_data>>
             /\ want' = sub_jobs[cur'].workers_count
    /\ pc' \in Starting =>
          \/ pc \in Starting /\ cur' = cur
          \/ pc = "idle" /\ sub_jobs[cur'].status = "Created"
    /\ pc = "publish" => pc' \notin {"list", "count"}
    /\ pc' = "count" => (pc = "count" /\ want' = want) \/ want' > 0
    /\ pc' = "publish" => pc = "publish" \/ WriteWorkersCount
    /\ pc' = "pending" => pc = "pending" \/ Publish
    /\ pc = "pending" => \/ pc' = "pending"
                         \/ WritePending
                         \/ crashes + faults < crashes' + faults'
    /\ pc' = "read" => (pc = "read" /\ want' = want) \/ pc = "idle"
    /\ pc' = "complete" =>
          \/ pc = "complete"
          \/ ScalingCheck
          \/ ReadData /\ DataSuffices(cur, want)

\* The handler moves only in this order.
LEMMA StepMoves ==
    ASSUME TypeInv, [Next]_vars
    PROVE  MovesKept
<1> USE DEF MovesKept, Starting
<1>0. crashes \in Nat /\ faults \in Nat /\ pc \in HandlerSteps
  BY DEF TypeInv, TypeOK
<1>1. CASE UNCHANGED <<handlerVars, crashes, faults>>
  BY <1>0, <1>1 DEF handlerVars
<1>2. CASE Handler
  <2>1. UNCHANGED <<crashes, faults>> \/ UNCHANGED bounds
    BY <1>2 DEF Handler, PickCreated, PickExpired, PickProcessing, Pick, WriteFailed,
       ListWorkers, WriteWorkersCount, Publish, WritePending, ReadData, WriteCompleted,
       CountSiblings, WriteJobCompleted, ScalingCreated, ScalingCanceled, ScalingStarted,
       ScalingCheck, HandlerFrame
  <2>2. UNCHANGED <<crashes, faults>>
    BY <2>1 DEF bounds
  <2>3. ASSUME NEW s \in SubJobs, PickCreated(s) \/ PickExpired(s) \/ PickProcessing(s)
        PROVE  MovesKept
    BY <1>0, <2>2, <2>3 DEF PickCreated, PickExpired, PickProcessing, Pick, HandlerFrame
  <2>4. CASE ListWorkers
    <3>1. pc = "list" /\ cur' = cur
      BY <2>4 DEF ListWorkers, GoOn
    <3>2. pc' = "fail" \/ (pc' = "count" /\ want' > 0)
      <4>1. ASSUME NEW out \in SUBSET online, online # {},
                   Cardinality(out) = ExcludedCount(sub_jobs[cur].kind, Cardinality(online)),
                   want' = Cardinality(online) - Cardinality(out)
            PROVE  want' > 0
        <5>1. Cardinality(online) \in Nat /\ Cardinality(online) > 0
          BY <4>1, WorkerCounts DEF TypeInv, TypeOK
        <5>2. /\ ExcludedCount(sub_jobs[cur].kind, Cardinality(online)) \in Nat
              /\ ExcludedCount(sub_jobs[cur].kind, Cardinality(online)) < Cardinality(online)
          BY <5>1, ExcludedCountBound
        <5> QED BY <4>1, <5>1, <5>2
      <4> QED BY <2>4, <4>1 DEF ListWorkers, GoOn
    <3> QED BY <1>0, <2>2, <3>1, <3>2
  <2>5. CASE WriteFailed \/ WriteWorkersCount \/ Publish \/ WritePending
    BY <1>0, <2>2, <2>5 DEF WriteFailed, WriteWorkersCount, Publish, WritePending, GoOn, Return
  <2>6. CASE ReadData \/ WriteCompleted \/ CountSiblings \/ WriteJobCompleted
    BY <1>0, <2>2, <2>6 DEF ReadData, WriteCompleted, CountSiblings, WriteJobCompleted,
       GoOn, Return
  <2>7. CASE ScalingCreated \/ ScalingCanceled \/ ScalingStarted \/ ScalingCheck
    BY <1>0, <2>2, <2>7 DEF ScalingCreated, ScalingCanceled, ScalingStarted, ScalingCheck,
       GoOn, Return
  <2> QED BY <1>2, <2>3, <2>4, <2>5, <2>6, <2>7 DEF Handler
<1>3. CASE HandlerFault
  BY <1>0, <1>3 DEF HandlerFault, GoOn, Return, SkipSteps, FailSteps
<1>4. CASE SchedulerCrashes
  BY <1>0, <1>4 DEF SchedulerCrashes, Return
<1>5. ASSUME \/ \E j \in Jobs : InsertSubJob(j) \/ CancelSubJobs(j)
             \/ \E r \in Runs : StatusProcessed(r) \/ DataSaved(r)
             \/ \E s \in SubJobs : DeadlinePasses(s)
      PROVE  UNCHANGED <<handlerVars, crashes, faults>>
  BY <1>5 DEF InsertSubJob, CancelSubJobs, StatusProcessed, DataSaved, DeadlinePasses,
     ConsumerFrame, bounds
<1> QED
  BY StepCases, <1>1, <1>2, <1>3, <1>4, <1>5 DEF Quiet

----------------------------------------------------------------------------
(* The invariants of the dispatch *)

\* No sub job is dispatched before the older ones were handled: the handler is
\* past every older row from the moment it picks one.
OrderInv ==
    /\ pc # "idle" => \A t \in 1..(cur - 1) : sub_jobs[t].status # "Created"
    /\ DispatchInOrder

\* A row that is still Created after its publication, outside the window in
\* which the handler writes Pending, has cost a crash or a fault.
BudgetInv ==
    /\ RepublishNeedsFault
    /\ \A s \in SubJobs :
          sub_jobs[s].status = "Created" /\ ~(cur = s /\ pc = "pending")
              => pubs[s] <= crashes + faults
    /\ pc \in Starting => pubs[cur] <= crashes + faults

\* The count is written before the first message goes out and is never lost.
CountInv ==
    /\ \A s \in SubJobs : pubs[s] > 0 => IsBenchmark(s) /\ sub_jobs[s].workers_count > 0
    /\ pc = "count" => want > 0
    /\ pc \in {"publish", "pending"} => sub_jobs[cur].workers_count > 0
    /\ NoInvalidState

\* The counters of crashes and faults stay counters.
LEMMA FaultCounters ==
    ASSUME TypeInv, [Next]_vars
    PROVE  crashes' \in Nat /\ faults' \in Nat
BY StepTypes DEF TypeInv, TypeOK

\* A step keeps the order of dispatch.
LEMMA StepOrder ==
    ASSUME TypeInv, RowInv, RowsKept, StatusKept, PubsKept, MovesKept, OrderInv
    PROVE  OrderInv'
<1>0. /\ created \in Nat /\ SubJobs \subseteq Nat /\ pubs \in [SubJobs -> Nat]
      /\ pc # "idle" => cur \in SubJobs
      /\ cur <= created
      /\ \A s \in SubJobs : pubs[s] > 0 => s <= created
      /\ \A s \in SubJobs : \A t \in 1..(s - 1) : t \in SubJobs /\ t <= s
  <2>1. Len(Plan) * MaxJobs \in Nat
    BY PlanLength, JobPipelineAssumption
  <2>2. /\ SubJobs \subseteq Nat
        /\ \A s \in SubJobs : \A t \in 1..(s - 1) : t \in SubJobs /\ t <= s
    BY <2>1 DEF SubJobs
  <2> QED BY <2>2 DEF TypeInv, TypeOK, StepsOK, RowInv
<1>1. \A s \in SubJobs : s <= created /\ sub_jobs[s].status # "Created"
                            => sub_jobs'[s].status # "Created"
  BY DEF StatusKept
<1>2. ASSUME NEW s \in SubJobs, s <= created,
             \A t \in 1..(s - 1) : sub_jobs[t].status # "Created"
      PROVE  \A t \in 1..(s - 1) : sub_jobs'[t].status # "Created"
  <2>1. \A t \in 1..(s - 1) : t \in SubJobs /\ t <= created
    BY <1>0, <1>2
  <2> QED BY <1>1, <1>2, <2>1
<1>3. ASSUME pc' # "idle"
      PROVE  \A t \in 1..(cur' - 1) : sub_jobs'[t].status # "Created"
  <2>1. CASE pc # "idle" /\ cur' = cur
    BY <1>0, <1>2, <2>1 DEF OrderInv
  <2>2. CASE cur' \in SubJobs /\ FirstUnfinished(cur') /\ UNCHANGED sub_jobs
    BY <2>2 DEF FirstUnfinished, IsUnfinished, Unfinished
  <2> QED BY <1>3, <2>1, <2>2 DEF MovesKept
<1>4. ASSUME NEW s \in SubJobs, pubs'[s] > 0
      PROVE  \A t \in 1..(s - 1) : sub_jobs'[t].status # "Created"
  <2>1. CASE pubs[s] > 0
    BY <1>0, <1>2, <2>1 DEF OrderInv, DispatchInOrder
  <2>2. CASE Publish /\ s = cur
    BY <1>0, <1>2, <2>2 DEF OrderInv, Publish
  <2> QED BY <1>4, <2>1, <2>2 DEF PubsKept
<1> QED BY <1>3, <1>4 DEF OrderInv, DispatchInOrder, SubJobs

\* The arithmetic of the budget when the counters grow from a, b to c, d.
LEMMA BudgetSums ==
    ASSUME NEW a \in Nat, NEW b \in Nat, NEW c \in Nat, NEW d \in Nat, a + b <= c + d,
           NEW n \in Nat, n <= 1 + (a + b)
    PROVE  /\ n <= 1 + c + d
           /\ a + b < c + d => n <= c + d
           /\ n <= a + b => n <= c + d /\ n + 1 <= 1 + c + d
OBVIOUS

\* A step keeps the budget of publications.
LEMMA StepBudget ==
    ASSUME TypeInv, [Next]_vars, RowInv, RowsKept, StatusKept, PubsKept, MovesKept, BudgetInv
    PROVE  BudgetInv'
<1> USE DEF BudgetInv, RepublishNeedsFault
<1>0. /\ created \in Nat /\ SubJobs \subseteq Nat
      /\ pc # "idle" => cur \in SubJobs
      /\ cur <= created
      /\ \A s \in SubJobs : pubs[s] \in Nat /\ (s > created => pubs[s] = 0)
  BY TypeFacts DEF RowInv
<1>1. /\ crashes \in Nat /\ faults \in Nat /\ crashes' \in Nat /\ faults' \in Nat
      /\ crashes + faults <= crashes' + faults'
  <2>1. crashes \in Nat /\ faults \in Nat
    BY DEF TypeInv, TypeOK
  <2>2. crashes <= crashes' /\ faults <= faults'
    BY DEF MovesKept
  <2> QED BY <2>1, <2>2, FaultCounters
<1>2. Publish => pc = "publish" /\ pc' = "pending" /\ cur' = cur
  BY DEF Publish, GoOn
<1>a. \A s \in SubJobs : pubs[s] <= 1 + (crashes + faults)
  BY <1>1
<1>b. ASSUME NEW n \in Nat, n <= 1 + (crashes + faults)
      PROVE  /\ n <= 1 + crashes' + faults'
             /\ crashes + faults < crashes' + faults' => n <= crashes' + faults'
             /\ n <= crashes + faults =>
                   n <= crashes' + faults' /\ n + 1 <= 1 + crashes' + faults'
  BY <1>1, <1>b, BudgetSums
<1>3. ASSUME NEW s \in SubJobs
      PROVE  pubs'[s] <= 1 + crashes' + faults'
  <2>1. CASE pubs'[s] = pubs[s]
    BY <1>0, <1>a, <1>b, <2>1
  <2>2. CASE Publish /\ s = cur /\ pubs'[s] = pubs[s] + 1
    BY <1>0, <1>a, <1>b, <1>2, <2>2 DEF Starting
  <2> QED BY <2>1, <2>2 DEF PubsKept
<1>4. ASSUME NEW s \in SubJobs, sub_jobs'[s].status = "Created",
             ~(cur' = s /\ pc' = "pending")
      PROVE  pubs'[s] <= crashes' + faults'
  <2>1. pubs'[s] = pubs[s]
    BY <1>2, <1>4 DEF PubsKept
  <2>2. CASE s > created
    BY <1>0, <1>1, <2>1, <2>2
  <2>3. CASE s <= created
    <3>1. sub_jobs[s].status = "Created"
      BY <1>4, <2>3 DEF StatusKept
    <3>2. CASE ~(cur = s /\ pc = "pending")
      BY <1>0, <1>1, <2>1, <3>1, <3>2
    <3>3. CASE cur = s /\ pc = "pending"
      <4>1. pc' # "pending"
        BY <1>4, <3>3 DEF MovesKept
      <4>2. ~WritePending
        BY <1>4, <3>3, HandlerWrites, StatusWrite
      <4>3. crashes + faults < crashes' + faults'
        BY <3>3, <4>1, <4>2 DEF MovesKept
      <4> QED BY <1>0, <1>a, <1>b, <2>1, <4>3
    <3> QED BY <3>2, <3>3
  <2> QED BY <1>0, <2>2, <2>3
<1>5. ASSUME pc' \in Starting
      PROVE  pubs'[cur'] <= crashes' + faults'
  <2>1. /\ cur' \in SubJobs
        /\ pubs[cur'] <= crashes + faults
    BY <1>0, <1>5 DEF MovesKept, Starting
  <2>2. pubs'[cur'] = pubs[cur']
    BY <1>2, <1>5, <2>1 DEF PubsKept, Starting
  <2>3. pubs[cur'] \in Nat
    BY <1>0, <2>1
  <2> QED BY <1>1, <2>1, <2>2, <2>3
<1> QED BY <1>3, <1>4, <1>5 DEF SubJobs

\* A step keeps the workers_count of what was published.
LEMMA StepCount ==
    ASSUME TypeInv, RowInv, RowsKept, StatusKept, PubsKept, MovesKept, CountInv
    PROVE  CountInv'
<1> USE DEF CountInv, NoInvalidState, IsBenchmark
<1>0. /\ created \in Nat /\ SubJobs \subseteq Nat
      /\ pc # "idle" => cur \in SubJobs
      /\ cur <= created
      /\ \A s \in SubJobs : pubs[s] \in Nat /\ (pubs[s] > 0 => s <= created)
      /\ sub_jobs \in [SubJobs -> SubJobRow]
  <2>1. \A s \in SubJobs : pubs[s] \in Nat /\ s \in Nat /\ (s > created => pubs[s] = 0)
    BY TypeFacts DEF RowInv
  <2>2. \A s \in SubJobs : pubs[s] > 0 => s <= created
    BY <2>1, TypeFacts
  <2> QED BY <2>1, <2>2, TypeFacts DEF RowInv
<1>1. ASSUME WriteWorkersCount
      PROVE  /\ pc = "count" /\ cur \in SubJobs /\ want > 0 /\ IsBenchmark(cur)
             /\ sub_jobs'[cur].workers_count = want
  BY <1>0, <1>1 DEF WriteWorkersCount, RowInv, BenchmarkSteps, SubJobRow
<1>2. \A s \in SubJobs : s <= created /\ sub_jobs[s].workers_count > 0
                            => sub_jobs'[s].workers_count > 0
  BY <1>1 DEF RowsKept
<1>3. ASSUME NEW s \in SubJobs, pubs'[s] > 0
      PROVE  IsBenchmark(s)' /\ sub_jobs'[s].workers_count > 0
  <2>1. CASE pubs[s] > 0
    BY <1>0, <1>2, <2>1 DEF RowsKept
  <2>2. CASE Publish /\ s = cur
    BY <1>0, <1>2, <2>2 DEF RowsKept, Publish, RowInv, BenchmarkSteps
  <2> QED BY <1>3, <2>1, <2>2 DEF PubsKept
<1>4. pc' = "count" => want' > 0
  BY DEF MovesKept
<1>5. ASSUME pc' \in {"publish", "pending"}
      PROVE  sub_jobs'[cur'].workers_count > 0
  <2>1. CASE pc' = "publish" /\ WriteWorkersCount
    BY <1>1, <2>1 DEF WriteWorkersCount, GoOn
  <2>2. CASE pc \in {"publish", "pending"} /\ cur' = cur
    BY <1>0, <1>2, <2>2
  <2>3. Publish => pc = "publish" /\ cur' = cur
    BY DEF Publish, GoOn
  <2>4. pc \in {"publish", "pending"} => cur' = cur
    BY <1>5 DEF MovesKept
  <2> QED BY <1>5, <2>1, <2>2, <2>3, <2>4 DEF MovesKept
<1>6. ASSUME NEW s \in SubJobs
      PROVE  IF IsBenchmark(s)'
             THEN sub_jobs'[s].status \in {"Pending", "Processing"}
                     => sub_jobs'[s].workers_count > 0
             ELSE sub_jobs'[s].status # "Pending"
  <2>1. CASE s > created
    <3>1. sub_jobs[s].status = "absent"
      BY <2>1 DEF RowInv
    <3> QED BY <2>1, <3>1 DEF RowsKept
  <2>2. CASE s <= created
    <3>1. CASE sub_jobs'[s].status = sub_jobs[s].status
      BY <1>2, <2>2, <3>1 DEF RowsKept
    <3>2. CASE sub_jobs'[s].status = "Pending" /\ WritePending /\ s = cur
      BY <1>2, <2>2, <3>2 DEF RowsKept, WritePending, RowInv, BenchmarkSteps
    <3>3. CASE ScalingStarted /\ s = cur /\ sub_jobs'[s].status = "Processing"
      BY <2>2, <3>3 DEF RowsKept, ScalingStarted, RowInv, ScalingSteps
    <3>4. CASE sub_jobs'[s].status = "Processing" /\ pubs[s] > 0
      BY <1>2, <2>2, <3>4 DEF RowsKept
    <3> QED BY <2>2, <3>1, <3>2, <3>3, <3>4 DEF StatusKept
  <2> QED BY <1>0, <2>1, <2>2
<1> QED BY <1>3, <1>4, <1>5, <1>6 DEF SubJobs

----------------------------------------------------------------------------
(* The invariant of the results *)

\* The handler reads the count it has written, rows never go away, and a sub
\* job that is about to be counted again is not Completed.
DataInv ==
    /\ IsFiniteSet(worker_data)
    /\ pc = "read" => want = sub_jobs[cur].workers_count
    /\ pc = "complete" /\ IsBenchmark(cur) =>
          Cardinality(DataOf(cur)) >= sub_jobs[cur].workers_count
    /\ pc \in {"list", "count"} => sub_jobs[cur].status # "Completed"
    /\ CompletedHasData

\* worker_data only grows.
DataKept == worker_data' = worker_data \/ \E r \in Runs : worker_data' = worker_data \union {r}

\* The rows of worker_data grow by one result or not at all.
LEMMA StepData ==
    ASSUME TypeInv, [Next]_vars
    PROVE  DataKept
<1> USE DEF DataKept
<1>1. CASE Handler
  BY <1>1 DEF Handler, PickCreated, PickExpired, PickProcessing, Pick, WriteFailed,
     ListWorkers, WriteWorkersCount, Publish, WritePending, ReadData, WriteCompleted,
     CountSiblings, WriteJobCompleted, ScalingCreated, ScalingCanceled, ScalingStarted,
     ScalingCheck, HandlerFrame
<1>2. ASSUME \/ Quiet
             \/ \E j \in Jobs : InsertSubJob(j) \/ CancelSubJobs(j)
             \/ HandlerFault \/ SchedulerCrashes
             \/ \E r \in Runs : StatusProcessed(r)
             \/ \E s \in SubJobs : DeadlinePasses(s)
      PROVE  worker_data' = worker_data
  BY <1>2 DEF Quiet, InsertSubJob, CancelSubJobs, HandlerFault, SchedulerCrashes,
     StatusProcessed, DeadlinePasses, tables
<1>3. ASSUME NEW r \in Runs, DataSaved(r)
      PROVE  worker_data' = worker_data \union {r}
  BY <1>3 DEF DataSaved
<1> QED BY StepCases, <1>1, <1>2, <1>3

\* The rows of a sub job are finitely many and never become fewer.
LEMMA MoreData ==
    ASSUME IsFiniteSet(worker_data), DataKept, NEW s
    PROVE  /\ IsFiniteSet(worker_data')
           /\ Cardinality(DataOf(s)) \in Nat /\ Cardinality(DataOf(s)') \in Nat
           /\ Cardinality(DataOf(s)) <= Cardinality(DataOf(s)')
<1>1. IsFiniteSet(worker_data') /\ worker_data \subseteq worker_data'
  BY FS_AddElement DEF DataKept
<1>2. DataOf(s)' \subseteq worker_data' /\ DataOf(s) \subseteq DataOf(s)'
  BY <1>1 DEF DataOf
<1>3. IsFiniteSet(DataOf(s)')
  BY <1>1, <1>2, FS_Subset
<1>4. IsFiniteSet(DataOf(s)) /\ Cardinality(DataOf(s)) <= Cardinality(DataOf(s)')
  BY <1>2, <1>3, FS_Subset
<1> QED BY <1>1, <1>3, <1>4, FS_CardinalityType

\* A step keeps the count of the rows of a Completed benchmark.
LEMMA StepResults ==
    ASSUME TypeInv, RowInv, RowsKept, StatusKept, MovesKept, DataKept, DataInv
    PROVE  DataInv'
<1> USE DEF DataInv
<1>0. /\ created \in Nat /\ SubJobs \subseteq Nat
      /\ pc # "idle" => cur \in SubJobs
      /\ cur <= created
      /\ sub_jobs \in [SubJobs -> SubJobRow]
      /\ \A s \in SubJobs : sub_jobs[s].workers_count \in Nat
  BY DEF TypeInv, TypeOK, StepsOK, RowInv, SubJobs, SubJobRow
<1>1. IsFiniteSet(worker_data')
  BY MoreData
<1>2. WriteWorkersCount => pc = "count" /\ pc' = "publish" /\ cur' = cur
                           /\ sub_jobs'[cur].status = sub_jobs[cur].status
  BY <1>0 DEF WriteWorkersCount, GoOn, SubJobRow
<1>3. \A s \in SubJobs : s <= created =>
          /\ sub_jobs'[s].kind = sub_jobs[s].kind
          /\ \/ sub_jobs'[s].workers_count = sub_jobs[s].workers_count
             \/ WriteWorkersCount /\ s = cur
  BY DEF RowsKept
<1>4. ASSUME NEW s \in SubJobs, s <= created, ~(WriteWorkersCount /\ s = cur),
             Cardinality(DataOf(s)) >= sub_jobs[s].workers_count
      PROVE  Cardinality(DataOf(s)') >= sub_jobs'[s].workers_count
  <2>1. sub_jobs'[s].workers_count = sub_jobs[s].workers_count
    BY <1>3, <1>4
  <2>2. /\ Cardinality(DataOf(s)) \in Nat /\ Cardinality(DataOf(s)') \in Nat
        /\ Cardinality(DataOf(s)) <= Cardinality(DataOf(s)')
    BY MoreData
  <2>3. sub_jobs[s].workers_count \in Nat
    BY <1>0
  <2> QED BY <1>4, <2>1, <2>2, <2>3
<1>5. pc' = "read" => want' = sub_jobs'[cur'].workers_count
  BY <1>0, <1>2, <1>3 DEF MovesKept
<1>6. ASSUME pc' = "complete", sub_jobs'[cur'].kind # "Scaling"
      PROVE  Cardinality(DataOf(cur)') >= sub_jobs'[cur'].workers_count
  <2>1. pc # "idle" /\ cur' = cur /\ cur \in SubJobs
    BY <1>0, <1>6 DEF MovesKept, ScalingCheck, ReadData
  <2>2. IsBenchmark(cur)
    BY <1>0, <1>3, <1>6, <2>1 DEF IsBenchmark
  <2>3. PICK c \in SubJobs : c = cur
    BY <2>1
  <2>4. \/ pc = "complete"
        \/ ReadData /\ DataSuffices(cur, want)
    BY <1>6, <2>2 DEF MovesKept, ScalingCheck, RowInv, ScalingSteps
  <2>5. Cardinality(DataOf(cur)) >= sub_jobs[cur].workers_count
    BY <2>2, <2>4 DEF ReadData, DataSuffices
  <2>6. DataOf(c) = DataOf(cur) /\ DataOf(c)' = DataOf(cur)'
    BY <2>1, <2>3 DEF DataOf
  <2>7. ~WriteWorkersCount
    BY <1>2, <1>6
  <2>8. Cardinality(DataOf(c)') >= sub_jobs'[c].workers_count
    BY <1>0, <1>4, <2>3, <2>5, <2>6, <2>7
  <2> QED BY <2>1, <2>3, <2>6, <2>8
<1>7. ASSUME pc' \in {"list", "count"}
      PROVE  sub_jobs'[cur'].status # "Completed"
  <2>1. \/ pc \in Starting /\ cur' = cur
        \/ pc = "idle" /\ sub_jobs[cur'].status = "Created" /\ UNCHANGED sub_jobs
    BY <1>7 DEF MovesKept, Starting
  <2>2. CASE pc \in Starting /\ cur' = cur
    <3>1. pc \in {"list", "count"} /\ cur \in SubJobs
      BY <1>0, <1>7, <2>2 DEF MovesKept, Starting
    <3>2. ~WriteCompleted
      BY <3>1 DEF WriteCompleted
    <3> QED BY <1>0, <2>2, <3>1, <3>2 DEF StatusKept
  <2> QED BY <2>1, <2>2
<1>8. ASSUME NEW s \in SubJobs, IsBenchmark(s)', sub_jobs'[s].status = "Completed"
      PROVE  Cardinality(DataOf(s)') >= sub_jobs'[s].workers_count
  <2>1. s <= created
    BY <1>0, <1>8 DEF RowsKept, RowInv
  <2>2. IsBenchmark(s)
    BY <1>3, <1>8, <2>1 DEF IsBenchmark
  <2>3. CASE sub_jobs[s].status = "Completed"
    <3>1. ~(WriteWorkersCount /\ s = cur)
      BY <1>2, <2>3
    <3> QED BY <1>4, <2>1, <2>2, <2>3, <3>1 DEF CompletedHasData
  <2>4. CASE WriteCompleted /\ s = cur
    <3>1. pc = "complete" /\ ~WriteWorkersCount
      BY <2>4 DEF WriteCompleted, WriteWorkersCount
    <3> QED BY <1>4, <2>1, <2>2, <2>4, <3>1
  <2> QED BY <1>8, <2>1, <2>3, <2>4 DEF StatusKept
<1> QED BY <1>1, <1>5, <1>6, <1>7, <1>8 DEF CompletedHasData, IsBenchmark, SubJobs

----------------------------------------------------------------------------
(* The invariant of the deadlines *)

\* Rows that were published and have no deadline, outside the window in which
\* the handler writes it.
Late == {s \in SubJobs : /\ pubs[s] > 0
                         /\ sub_jobs[s].deadline = "none"
                         /\ ~(cur = s /\ pc = "pending")}

\* Each late row has cost a crash or a fault.
DatedInv ==
    /\ Cardinality(Late) <= crashes + faults
    /\ \A s \in SubJobs : /\ sub_jobs[s].status \in {"Pending", "Processing"}
                          /\ sub_jobs[s].deadline = "none"
                          => pubs[s] > 0

\* A row never loses its deadline, and what makes it Pending or a scaling sub
\* job Processing sets one.
DeadlineKept ==
    /\ \A s \in SubJobs :
          s <= created /\ sub_jobs'[s].deadline = "none" => sub_jobs[s].deadline = "none"
    /\ WritePending \/ ScalingStarted => sub_jobs'[cur].deadline # "none"

\* A step keeps the deadlines that were set.
LEMMA StepDeadline ==
    ASSUME TypeInv, [Next]_vars
    PROVE  DeadlineKept
<1> USE DEF DeadlineKept
<1>0. sub_jobs \in [SubJobs -> SubJobRow] /\ (pc # "idle" => cur \in SubJobs)
      /\ created \in Nat /\ SubJobs \subseteq Nat
  BY DEF TypeInv, TypeOK, StepsOK, SubJobs
<1>1. WritePending \/ ScalingStarted => sub_jobs'[cur].deadline # "none"
  BY <1>0 DEF WritePending, ScalingStarted, SetStatusAndDeadline, SubJobRow
<1>2. ASSUME NEW s \in SubJobs, s <= created, sub_jobs'[s].deadline = "none"
      PROVE  sub_jobs[s].deadline = "none"
  <2>1. ASSUME NEW x \in SubJobs, NEW t \in SubJobStatus,
               SetStatus(x, t) \/ SetStatusAndDeadline(x, t)
        PROVE  sub_jobs[s].deadline = "none"
    BY <1>0, <1>2, <2>1 DEF SetStatus, SetStatusAndDeadline, SubJobRow
  <2>2. CASE Handler
    <3>1. CASE WriteFailed \/ WritePending \/ WriteCompleted \/ ScalingCanceled
               \/ ScalingStarted
      BY <1>0, <2>1, <3>1, HandlerWrites
         DEF WriteFailed, WritePending, WriteCompleted, ScalingCanceled, ScalingStarted
    <3>2. CASE WriteWorkersCount
      BY <1>0, <1>2, <3>2 DEF WriteWorkersCount, SubJobRow
    <3>3. ASSUME \/ \E x \in SubJobs : PickCreated(x) \/ PickExpired(x) \/ PickProcessing(x)
                 \/ ListWorkers \/ Publish \/ ReadData \/ CountSiblings
                 \/ WriteJobCompleted \/ ScalingCreated \/ ScalingCheck
          PROVE  sub_jobs' = sub_jobs
      BY <3>3 DEF PickCreated, PickExpired, PickProcessing, Pick, ListWorkers, Publish,
         ReadData, CountSiblings, WriteJobCompleted, ScalingCreated, ScalingCheck
    <3> QED BY <1>2, <2>2, <3>1, <3>2, <3>3 DEF Handler
  <2>3. ASSUME NEW r \in Runs, StatusProcessed(r)
        PROVE  sub_jobs[s].deadline = "none"
    <3>1. r.sub \in SubJobs
      BY DEF Runs
    <3> QED BY <2>1, <2>3, <3>1, HandlerWrites
  <2>4. ASSUME NEW j \in Jobs, InsertSubJob(j)
        PROVE  sub_jobs'[s] = sub_jobs[s]
    BY <1>0, <1>2, <2>4 DEF InsertSubJob
  <2>5. ASSUME NEW j \in Jobs, CancelSubJobs(j)
        PROVE  sub_jobs'[s].deadline = sub_jobs[s].deadline
    BY <1>0, <2>5 DEF CancelSubJobs, SubJobRow
  <2>6. ASSUME NEW x \in SubJobs, DeadlinePasses(x)
        PROVE  sub_jobs[s].deadline = "none"
    BY <1>0, <1>2, <2>6 DEF DeadlinePasses, SubJobRow
  <2>7. ASSUME \/ Quiet \/ HandlerFault \/ SchedulerCrashes
               \/ \E r \in Runs : DataSaved(r)
        PROVE  sub_jobs' = sub_jobs
    BY <2>7 DEF Quiet, HandlerFault, SchedulerCrashes, DataSaved, tables
  <2> QED BY <1>2, <2>2, <2>3, <2>4, <2>5, <2>6, <2>7, StepCases
<1> QED BY <1>1, <1>2

\* The arithmetic of a count k that becomes n while a, b grow to c, d.
LEMMA LateSums ==
    ASSUME NEW a \in Nat, NEW b \in Nat, NEW c \in Nat, NEW d \in Nat,
           NEW k \in Nat, NEW n \in Nat, k <= a + b, a <= c, b <= d
    PROVE  /\ n <= k => n <= c + d
           /\ n <= k + 1 /\ a + b < c + d => n <= c + d
OBVIOUS

\* There are finitely many sub jobs.
LEMMA SubJobsFinite == IsFiniteSet(SubJobs)
<1>1. Len(Plan) * MaxJobs \in Nat
  BY PlanLength, JobPipelineAssumption
<1> QED BY <1>1, FS_Interval DEF SubJobs

\* A step makes a row late only when it crashes or fails the handler.
LEMMA StepDated ==
    ASSUME TypeInv, RowInv, [Next]_vars, RowsKept, StatusKept, PubsKept, MovesKept,
           DeadlineKept, DatedInv
    PROVE  DatedInv'
<1>0. /\ created \in Nat /\ SubJobs \subseteq Nat
      /\ pc # "idle" => cur \in SubJobs
      /\ \A s \in SubJobs : pubs[s] \in Nat /\ (pubs[s] > 0 => s <= created)
      /\ \A s \in SubJobs : s > created => sub_jobs[s].status = "absent" /\ pubs[s] = 0
  <2>1. created \in Nat /\ pubs \in [SubJobs -> Nat]
    BY DEF TypeInv, TypeOK
  <2>2. SubJobs \subseteq Nat
    BY DEF SubJobs
  <2>3. pc # "idle" => cur \in SubJobs
    BY DEF TypeInv, StepsOK
  <2>4. \A s \in SubJobs : s > created => sub_jobs[s].status = "absent" /\ pubs[s] = 0
    BY DEF RowInv
  <2>5. \A s \in SubJobs : pubs[s] \in Nat
    BY <2>1
  <2>6. \A s \in SubJobs : pubs[s] > 0 => s <= created
    BY <2>1, <2>2, <2>4, <2>5
  <2> QED BY <2>1, <2>2, <2>3, <2>4, <2>5, <2>6
<1>1. crashes \in Nat /\ faults \in Nat /\ crashes' \in Nat /\ faults' \in Nat
  BY FaultCounters DEF TypeInv, TypeOK
<1>2. crashes <= crashes' /\ faults <= faults'
  BY DEF MovesKept
<1>3. ASSUME NEW s \in SubJobs, pubs[s] > 0
      PROVE  pubs'[s] > 0
  <2>1. pubs'[s] = pubs[s] \/ pubs'[s] = pubs[s] + 1
    BY DEF PubsKept
  <2> QED BY <1>0, <1>3, <2>1
<1>4. ASSUME NEW s \in SubJobs, sub_jobs'[s].status \in {"Pending", "Processing"},
             sub_jobs'[s].deadline = "none"
      PROVE  pubs'[s] > 0
  <2>1. s <= created
    BY <1>0, <1>4 DEF RowsKept
  <2>2. sub_jobs[s].deadline = "none"
    BY <1>4, <2>1 DEF DeadlineKept
  <2>3. sub_jobs'[s].status = sub_jobs[s].status \/ pubs[s] > 0
    BY <1>4, <2>1 DEF StatusKept, DeadlineKept
  <2> QED BY <1>3, <1>4, <2>2, <2>3 DEF DatedInv
<1>5. IsFiniteSet(Late) /\ Cardinality(Late) \in Nat
  BY SubJobsFinite, FS_Subset, FS_CardinalityType DEF Late
<1>6. ASSUME NEW s \in Late', s \notin Late
      PROVE  s = cur /\ crashes + faults < crashes' + faults'
  <2>1. s \in SubJobs /\ pubs'[s] > 0 /\ sub_jobs'[s].deadline = "none"
        /\ ~(cur' = s /\ pc' = "pending")
    BY <1>6 DEF Late, SubJobs
  <2>2. pubs[s] > 0
    BY <2>1 DEF PubsKept, Publish, GoOn
  <2>3. sub_jobs[s].deadline = "none"
    BY <1>0, <2>1, <2>2 DEF DeadlineKept
  <2>4. cur = s /\ pc = "pending"
    BY <1>6, <2>1, <2>2, <2>3 DEF Late
  <2>5. pc' # "pending" /\ ~WritePending
    BY <2>1, <2>4 DEF MovesKept, DeadlineKept
  <2> QED BY <2>4, <2>5 DEF MovesKept
<1>7. CASE Late' \subseteq Late
  <2>1. Cardinality(Late') <= Cardinality(Late) /\ Cardinality(Late') \in Nat
    BY <1>5, <1>7, FS_Subset, FS_CardinalityType
  <2>2. Cardinality(Late) <= crashes + faults
    BY DEF DatedInv
  <2>3. Cardinality(Late') <= crashes' + faults'
    BY <1>1, <1>2, <1>5, <2>1, <2>2, LateSums
  <2> QED BY <1>4, <2>3 DEF DatedInv, SubJobs
<1>8. CASE ~(Late' \subseteq Late)
  <2>1. Late' \subseteq Late \union {cur} /\ crashes + faults < crashes' + faults'
    BY <1>6, <1>8
  <2>2. /\ IsFiniteSet(Late \union {cur})
        /\ Cardinality(Late \union {cur}) <= Cardinality(Late) + 1
    <3>1. cur \in Late \/ cur \notin Late
      OBVIOUS
    <3> QED BY <1>5, <3>1, FS_AddElement
  <2>3. /\ Cardinality(Late') \in Nat /\ Cardinality(Late \union {cur}) \in Nat
        /\ Cardinality(Late') <= Cardinality(Late \union {cur})
    BY <2>1, <2>2, FS_Subset, FS_CardinalityType
  <2>4. Cardinality(Late') <= crashes' + faults'
    <3>1. Cardinality(Late) <= crashes + faults
      BY DEF DatedInv
    <3>2. Cardinality(Late') <= Cardinality(Late) + 1
      BY <1>5, <2>2, <2>3
    <3> QED BY <1>1, <1>2, <1>5, <2>1, <2>3, <3>1, <3>2, LateSums
  <2> QED BY <1>4, <2>4 DEF DatedInv, SubJobs
<1> QED BY <1>7, <1>8

----------------------------------------------------------------------------
(* The invariant of the results on their way *)

\* What the data consumer is about to acknowledge has its row.
SentInv == ResultsConserved /\ dataQ.done \subseteq worker_data

\* A step keeps the results that were published.
LEMMA StepSent ==
    ASSUME TypeInv, [Next]_vars, DataKept, SentInv
    PROVE  SentInv'
<1> USE DEF SentInv, ResultsConserved
<1>0. QueueOK(dataQ)
  BY TypeFacts
<1>1. worker_data \subseteq worker_data'
  BY DEF DataKept
<1>2. ASSUME UNCHANGED <<sent, dataQ>>
      PROVE  SentInv'
  BY <1>1, <1>2
<1>3. ASSUME NEW r, PublishResult(r)
      PROVE  SentInv'
  BY <1>0, <1>1, <1>3, PublishedFields DEF PublishResult
<1>4. CASE WorkerStep
  BY <1>2, <1>3, <1>4 DEF WorkerStep, WorkerExcluded, WorkerAborts, WorkerStarts, WorkerFinishes
<1>a. ASSUME NEW r, sent' = sent, worker_data \subseteq worker_data',
             \/ dataQ' \in CutOff(dataQ)
                             \union {Requeued(dataQ, {}), Acked(dataQ), Ended(dataQ, r)}
             \/ /\ IsNext(dataQ, r)
                /\ dataQ' \in {Deliver(dataQ, r, TRUE), Deliver(dataQ, r, FALSE)},
             dataQ'.done \subseteq worker_data'
      PROVE  SentInv'
  <2>1. (dataQ.ready \union dataQ.unacked) \ (dataQ'.ready \union dataQ'.unacked)
          \subseteq dataQ.done
    BY <1>0, <1>a, QueueSteps
  <2> QED BY <1>a, <2>1
<1>5. CASE Environment
  <2>1. CASE DataCutOff
    <3>1. dataQ' \in CutOff(dataQ) /\ sent' = sent
      BY <2>1 DEF DataCutOff, ConsumerFrame, workerVars
    <3>2. dataQ'.done = {}
      BY <3>1 DEF CutOff, Requeued
    <3> QED BY <1>1, <1>a, <3>1, <3>2
  <2> QED
    BY <1>2, <1>5, <2>1 DEF Environment, WorkerLeaves, WorkerCutOff, WorkerReconnects,
       WorkerJoins, QueueGone, RegistryChanges, StatusCutOff, ConsumerFrame, workerVars
<1>6. CASE DataConsumer
  <2>1. CASE DataAcked
    <3>1. dataQ' = Acked(dataQ) /\ sent' = sent
      BY <2>1 DEF DataAcked, ConsumerFrame, workerVars
    <3>2. dataQ'.done = {}
      BY <3>1 DEF Acked
    <3> QED BY <1>1, <1>a, <3>1, <3>2
  <2>2. ASSUME NEW r, DataSaved(r)
        PROVE  SentInv'
    <3>1. sent' = sent /\ r \in worker_data'
      BY <2>2 DEF DataSaved, ConsumerFrame, workerVars
    <3>2. CASE IsNext(dataQ, r) /\ dataQ' = Deliver(dataQ, r, TRUE)
      <4>1. dataQ'.done = dataQ.done \union {r}
        BY <3>2 DEF Deliver
      <4> QED BY <1>1, <1>a, <3>1, <3>2, <4>1
    <3>3. CASE dataQ' = Ended(dataQ, r)
      <4>1. dataQ'.done = dataQ.done
        BY <3>3 DEF Ended
      <4> QED BY <1>1, <1>a, <3>1, <3>3, <4>1
    <3> QED BY <2>2, <3>2, <3>3 DEF DataSaved
  <2>3. ASSUME NEW r, DataFails(r)
        PROVE  SentInv'
    <3>1. sent' = sent
      BY <2>3 DEF DataFails, ConsumerFrame, workerVars
    <3>2. CASE IsNext(dataQ, r) /\ dataQ' = Deliver(dataQ, r, FALSE)
      <4>1. dataQ'.done = dataQ.done
        BY <3>2 DEF Deliver
      <4> QED BY <1>1, <1>a, <3>1, <3>2, <4>1
    <3>3. CASE dataQ' = Ended(dataQ, r)
      <4>1. dataQ'.done = dataQ.done
        BY <3>3 DEF Ended
      <4> QED BY <1>1, <1>a, <3>1, <3>3, <4>1
    <3> QED BY <2>3, <3>2, <3>3 DEF DataFails
  <2> QED
    BY <1>6, <2>1, <2>2, <2>3 DEF DataConsumer
<1>7. CASE StatusConsumer
  BY <1>2, <1>7 DEF StatusConsumer, StatusAcked, StatusProcessed, StatusFails,
     ConsumerFrame, workerVars
<1>8. CASE Handler
  BY <1>2, <1>8 DEF Handler, PickCreated, PickExpired, PickProcessing, Pick, WriteFailed,
     ListWorkers, WriteWorkersCount, Publish, WritePending, ReadData, WriteCompleted,
     CountSiblings, WriteJobCompleted, ScalingCreated, ScalingCanceled, ScalingStarted,
     ScalingCheck, HandlerFrame
<1>9. CASE SchedulerCrashes
  <2>1. dataQ' = Requeued(dataQ, {}) /\ sent' = sent
    BY <1>9 DEF SchedulerCrashes, workerVars
  <2>2. dataQ'.done = {}
    BY <2>1 DEF Requeued
  <2> QED BY <1>1, <1>a, <2>1, <2>2
<1>10. ASSUME \/ \E j \in Jobs : InsertJob(j) \/ CancelJob(j)
              \/ CreateHandler \/ CancelHandler \/ HandlerFault
              \/ \E s \in SubJobs : DeadlinePasses(s)
       PROVE  UNCHANGED <<sent, dataQ>>
  BY <1>10 DEF InsertJob, CancelJob, CreateHandler, InsertSubJob, InsertFails, CancelHandler,
     CancelSubJobs, CancelFails, HandlerFault, DeadlinePasses, workerVars
<1>11. CASE UNCHANGED vars
  BY <1>2, <1>11 DEF vars, workerVars
<1> QED BY <1>2, <1>4, <1>5, <1>6, <1>7, <1>8, <1>9, <1>10, <1>11 DEF Next

----------------------------------------------------------------------------
(* The theorems *)

\* The inductive invariant.
IInv == TypeInv /\ RowInv /\ OrderInv /\ BudgetInv /\ CountInv /\ DataInv /\ DatedInv /\ SentInv

\* The inductive invariant holds at first.
LEMMA InitIInv == Init => IInv
<1> SUFFICES ASSUME Init PROVE IInv
  OBVIOUS
<1>1. TypeInv /\ RowInv
  BY InitTypes, InitRow
<1>2. OrderInv
  BY DEF Init, OrderInv, DispatchInOrder
<1>3. BudgetInv
  BY DEF Init, BudgetInv, RepublishNeedsFault, Starting
<1>4. CountInv
  BY DEF Init, CountInv, NoInvalidState, IsBenchmark
<1>5. DataInv
  BY FS_EmptySet DEF Init, DataInv, CompletedHasData, IsBenchmark
<1>6. DatedInv
  <2>1. Late = {}
    BY DEF Init, Late
  <2> QED BY <2>1, FS_EmptySet DEF Init, DatedInv
<1>7. SentInv
  BY DEF Init, SentInv, ResultsConserved, EmptyQueue
<1> QED BY <1>1, <1>2, <1>3, <1>4, <1>5, <1>6, <1>7 DEF IInv

\* Every step keeps the inductive invariant.
LEMMA StepIInv == IInv /\ [Next]_vars => IInv'
<1> SUFFICES ASSUME IInv, [Next]_vars PROVE IInv'
  OBVIOUS
<1>0. TypeInv /\ RowInv /\ OrderInv /\ BudgetInv /\ CountInv /\ DataInv /\ DatedInv /\ SentInv
  BY DEF IInv
<1>1. RowsKept /\ StatusKept /\ PubsKept /\ MovesKept /\ DataKept /\ DeadlineKept
  BY <1>0, StepEffects, StepMoves, StepData, StepDeadline
<1>2. TypeInv' /\ RowInv'
  BY <1>0, StepTypes, StepRow
<1>3. OrderInv' /\ BudgetInv' /\ CountInv'
  BY <1>0, <1>1, StepOrder, StepBudget, StepCount
<1>4. DataInv' /\ DatedInv' /\ SentInv'
  BY <1>0, <1>1, StepResults, StepDated, StepSent
<1> QED BY <1>2, <1>3, <1>4 DEF IInv

\* The conjunction of the invariants is inductive.
LEMMA Inductive == Spec => []IInv
BY InitIInv, StepIInv, PTL DEF Spec

\* A benchmark is Completed only with as many rows as workers it was sent to,
\* however cancels, late status messages, crashes and republications interleave
\* with the snapshot process_status_processing decides on.
THEOREM CompletedIsBacked == Spec => []CompletedHasData
<1>1. IInv => CompletedHasData
  BY DEF IInv, DataInv
<1> QED BY <1>1, Inductive, PTL

\* "missing workers count" and "Invalid pending state" are unreachable: the
\* count is in the row before the first message a worker can answer goes out.
THEOREM InvalidStatesUnreachable == Spec => []NoInvalidState
<1>1. IInv => NoInvalidState
  BY DEF IInv, CountInv
<1> QED BY <1>1, Inductive, PTL

\* No message of a sub job goes out while an older sub job is still Created.
THEOREM DispatchIsOrdered == Spec => []DispatchInOrder
<1>1. IInv => DispatchInOrder
  BY DEF IInv, OrderInv
<1> QED BY <1>1, Inductive, PTL

\* A sub job is published at most once more for every crash of the scheduler
\* and every failed call of the handler.
THEOREM RepublishIsBounded == Spec => []RepublishNeedsFault
<1>1. IInv => RepublishNeedsFault
  BY DEF IInv, BudgetInv
<1> QED BY <1>1, Inductive, PTL

\* Every result a worker has published stays in worker_data or with the broker.
THEOREM ResultsAreConserved == Spec => []ResultsConserved
<1>1. IInv => ResultsConserved
  BY DEF IInv, SentInv
<1> QED BY <1>1, Inductive, PTL

\* The sub jobs that run without a deadline, which check_deadline fails at
\* once, are no more than the crashes and faults.
THEOREM StartedAreDated == Spec => []StartedHasDeadline
<1>1. ASSUME IInv
      PROVE  StartedHasDeadline
  <2>1. Undated \subseteq Late
    BY <1>1 DEF IInv, DatedInv, Undated, Late
  <2>2. IsFiniteSet(Late) /\ Cardinality(Late) \in Nat
    BY SubJobsFinite, FS_Subset, FS_CardinalityType DEF Late
  <2>3. Cardinality(Undated) <= Cardinality(Late) /\ Cardinality(Undated) \in Nat
    BY <2>1, <2>2, FS_Subset, FS_CardinalityType
  <2>4. /\ Cardinality(Late) <= crashes + faults
        /\ crashes \in Nat /\ faults \in Nat
    BY <1>1 DEF IInv, DatedInv, TypeInv, TypeOK
  <2> QED BY <2>2, <2>3, <2>4 DEF StartedHasDeadline
<1> QED BY <1>1, Inductive, PTL

----------------------------------------------------------------------------
(* A finished sub job *)

\* Nothing is written to a row at rest, unless its job is being canceled.
LEMMA RestingRow ==
    ASSUME TypeInv, RowInv, [Next]_vars, NEW s \in SubJobs, AtRest(s)
    PROVE  \/ sub_jobs'[s] = sub_jobs[s]
           \/ canceling[sub_jobs[s].job] = "half" /\ sub_jobs'[s].status = "Canceled"
<1>0. /\ sub_jobs \in [SubJobs -> SubJobRow] /\ created \in Nat /\ s \in Nat
      /\ ~IsUnfinished(s) /\ s <= created /\ cur # s
  BY DEF TypeInv, TypeOK, SubJobs, AtRest, RowInv, IsUnfinished, Unfinished
<1>1. CASE Quiet
  BY <1>1 DEF Quiet
<1>2. CASE \E j \in Jobs : InsertSubJob(j)
  BY <1>0, <1>2 DEF InsertSubJob
<1>3. CASE \E j \in Jobs : CancelSubJobs(j)
  BY <1>0, <1>3 DEF CancelSubJobs, SubJobsOf, SubJobRow
<1>4. CASE Handler
  <2>1. CASE WriteFailed \/ WritePending \/ WriteCompleted \/ ScalingCanceled
             \/ ScalingStarted
    <3>1. cur \in SubJobs
      BY <2>1, HandlerWrites
         DEF WriteFailed, WritePending, WriteCompleted, ScalingCanceled, ScalingStarted
    <3> QED
      BY <1>0, <2>1, <3>1, HandlerWrites, StatusWrite
  <2>2. CASE WriteWorkersCount
    BY <1>0, <2>2 DEF WriteWorkersCount
  <2> QED
    BY <1>4, <2>1, <2>2 DEF Handler, PickCreated, PickExpired, PickProcessing, Pick,
       ListWorkers, Publish, ReadData, CountSiblings, WriteJobCompleted, ScalingCreated,
       ScalingCheck
<1>5. CASE \E r \in Runs : r \in statusQ.ready \union statusQ.late /\ StatusProcessed(r)
  <2> PICK r \in Runs : r \in statusQ.ready \union statusQ.late /\ StatusProcessed(r)
    BY <1>5
  <2>1. r.sub \in SubJobs /\ r.sub # s
    BY DEF Runs, AtRest
  <2> QED
    BY <2>1, HandlerWrites, StatusWrite
<1>6. CASE \E x \in SubJobs : DeadlinePasses(x)
  BY <1>0, <1>6 DEF DeadlinePasses
<1>7. CASE \/ HandlerFault \/ SchedulerCrashes
           \/ \E r \in Runs : r \in dataQ.ready \union dataQ.late /\ DataSaved(r)
  BY <1>7 DEF HandlerFault, SchedulerCrashes, DataSaved, tables
<1> QED
  BY StepCases, <1>1, <1>2, <1>3, <1>4, <1>5, <1>6, <1>7

\* Neither the handler nor a message comes back to it.
LEMMA RestingAlone ==
    ASSUME TypeInv, RowInv, [Next]_vars, NEW s \in SubJobs, AtRest(s)
    PROVE  /\ cur' # s
           /\ \A m \in jobQ' : m.run.sub # s
           /\ \A r \in running' : r.sub # s
           /\ \A r \in statusQ'.ready : r.sub # s
           /\ \A r \in statusQ'.unacked : r.sub # s
           /\ \A r \in statusQ'.late : r.sub # s
<1> USE DEF AtRest
<1>0. ~IsUnfinished(s) /\ s # 0 /\ QueueOK(statusQ)
  BY DEF IsUnfinished, Unfinished, SubJobs, TypeInv, TypeOK
<1>1. CASE Quiet
  BY <1>1 DEF Quiet, handlerVars
<1>2. CASE \E j \in Jobs : InsertSubJob(j) \/ CancelSubJobs(j)
  BY <1>2 DEF InsertSubJob, CancelSubJobs, handlerVars, workerVars
<1>3. CASE Handler
  <2>1. UNCHANGED <<running, statusQ>>
    BY <1>3 DEF Handler, PickCreated, PickExpired, PickProcessing, Pick, WriteFailed,
       ListWorkers, WriteWorkersCount, Publish, WritePending, ReadData, WriteCompleted,
       CountSiblings, WriteJobCompleted, ScalingCreated, ScalingCanceled, ScalingStarted,
       ScalingCheck, HandlerFrame
  <2>2. cur' # s
    BY <1>0, <1>3 DEF Handler, PickCreated, PickExpired, PickProcessing, Pick,
       FirstUnfinished, WriteFailed, ListWorkers, WriteWorkersCount, Publish, WritePending,
       ReadData, WriteCompleted, CountSiblings, WriteJobCompleted, ScalingCreated,
       ScalingCanceled, ScalingStarted, ScalingCheck, GoOn, Return
  <2>3. jobQ' = jobQ \/ jobQ' = jobQ \union Deliveries
    BY <1>3 DEF Handler, PickCreated, PickExpired, PickProcessing, Pick, WriteFailed,
       ListWorkers, WriteWorkersCount, Publish, WritePending, ReadData, WriteCompleted,
       CountSiblings, WriteJobCompleted, ScalingCreated, ScalingCanceled, ScalingStarted,
       ScalingCheck
  <2>4. \A m \in Deliveries : m.run.sub # s
    BY DEF Deliveries
  <2> QED
    BY <2>1, <2>2, <2>3, <2>4
<1>4. CASE HandlerFault
  BY <1>0, <1>4 DEF HandlerFault, GoOn, Return, workerVars
<1>5. CASE \E r \in Runs : r \in statusQ.ready \union statusQ.late /\ StatusProcessed(r)
  <2>1. UNCHANGED <<handlerVars, workerVars>>
    BY <1>5 DEF StatusProcessed, ConsumerFrame
  <2>2. statusQ'.ready \union statusQ'.unacked \union statusQ'.late
          \subseteq statusQ.ready \union statusQ.unacked \union statusQ.late
    BY <1>0, <1>5, QueueSteps DEF StatusProcessed
  <2> QED
    BY <2>1, <2>2 DEF handlerVars, workerVars
<1>6. CASE \/ \E x \in SubJobs : DeadlinePasses(x)
           \/ \E r \in Runs : r \in dataQ.ready \union dataQ.late /\ DataSaved(r)
  BY <1>6 DEF DeadlinePasses, DataSaved, ConsumerFrame, handlerVars, workerVars
<1>7. CASE SchedulerCrashes
  <2>1. statusQ'.ready \union statusQ'.unacked \union statusQ'.late
          \subseteq statusQ.ready \union statusQ.unacked \union statusQ.late
    BY <1>0, <1>7, QueueSteps DEF SchedulerCrashes
  <2> QED
    BY <1>0, <1>7, <2>1 DEF SchedulerCrashes, Return, workerVars
<1> QED
  BY StepCases, <1>1, <1>2, <1>3, <1>4, <1>5, <1>6, <1>7

\* A finished sub job that neither the handler nor a message of its own can
\* touch keeps its outcome, unless a request cancels its job.
THEOREM OutcomesAreFinal == Spec => FinishedForGood
<1> DEFINE Kept(s) ==
             /\ AtRest(s)'
             /\ \/ sub_jobs'[s] = sub_jobs[s]
                \/ /\ canceling[sub_jobs[s].job] = "half"
                   /\ sub_jobs'[s].status = "Canceled"
<1>1. IInv /\ [Next]_vars => [\A s \in SubJobs : AtRest(s) => Kept(s)]_vars
  <2> SUFFICES ASSUME IInv, [Next]_vars, NEW s \in SubJobs, AtRest(s)
               PROVE  Kept(s)
    OBVIOUS
  <2> QED
    BY RestingRow, RestingAlone DEF IInv, AtRest
<1> QED
  BY <1>1, Inductive, PTL DEF FinishedForGood, Spec

----------------------------------------------------------------------------
(* A Completed job *)

\* A benchmark that was measured and cannot be counted anew.
Final(s) ==
    /\ Measured(s)
    /\ sub_jobs[s].status \notin {"absent", "Created"}
    /\ ~(cur = s /\ pc \in Starting)

\* The handler completes only what has a count, and goes on to the job only from
\* a sub job that is final; so does every Completed job have one.
JobInv ==
    /\ pc \in {"read", "complete"} /\ IsBenchmark(cur) => sub_jobs[cur].workers_count > 0
    /\ pc \in {"siblings", "finish"} => Final(cur)
    /\ \A j \in Jobs : jobs[j] = "Completed" =>
          \E s \in SubJobs : s <= created /\ sub_jobs[s].job = j /\ Final(s)

\* A row that exists stays in its job.
LEMMA StepJob ==
    ASSUME TypeInv, RowInv, [Next]_vars, NEW s \in SubJobs, s <= created
    PROVE  sub_jobs'[s].job = sub_jobs[s].job
<1>0. /\ sub_jobs \in [SubJobs -> SubJobRow] /\ created \in Nat /\ s \in Nat
      /\ pc # "idle" => cur \in SubJobs
  BY DEF TypeInv, TypeOK, StepsOK, SubJobs
<1>1. CASE Quiet
  BY <1>1 DEF Quiet
<1>2. CASE \E j \in Jobs : InsertSubJob(j) \/ CancelSubJobs(j)
  BY <1>0, <1>2 DEF InsertSubJob, CancelSubJobs, SubJobRow
<1>3. CASE Handler
  <2>1. CASE WriteFailed \/ WritePending \/ WriteCompleted \/ ScalingCanceled
             \/ ScalingStarted
    <3>1. cur \in SubJobs
      BY <2>1, HandlerWrites
         DEF WriteFailed, WritePending, WriteCompleted, ScalingCanceled, ScalingStarted
    <3> QED
      BY <2>1, <3>1, HandlerWrites, StatusWrite
  <2>2. CASE WriteWorkersCount
    BY <1>0, <2>2 DEF WriteWorkersCount, SubJobRow
  <2> QED
    BY <1>3, <2>1, <2>2 DEF Handler, PickCreated, PickExpired, PickProcessing, Pick,
       ListWorkers, Publish, ReadData, CountSiblings, WriteJobCompleted, ScalingCreated,
       ScalingCheck
<1>4. CASE \E r \in Runs : r \in statusQ.ready \union statusQ.late /\ StatusProcessed(r)
  <2> PICK r \in Runs : StatusProcessed(r)
    BY <1>4
  <2>1. r.sub \in SubJobs
    BY DEF Runs
  <2> QED
    BY <2>1, HandlerWrites, StatusWrite
<1>5. CASE \E x \in SubJobs : DeadlinePasses(x)
  BY <1>0, <1>5 DEF DeadlinePasses, SubJobRow
<1>6. CASE \/ HandlerFault \/ SchedulerCrashes
           \/ \E r \in Runs : r \in dataQ.ready \union dataQ.late /\ DataSaved(r)
  BY <1>6 DEF HandlerFault, SchedulerCrashes, DataSaved, tables
<1> QED
  BY StepCases, <1>1, <1>2, <1>3, <1>4, <1>5, <1>6

\* Whatever happens to a final sub job, it stays final.
LEMMA StepFinal ==
    ASSUME IInv, [Next]_vars, NEW s \in SubJobs, s <= created, Final(s)
    PROVE  Final(s)'
<1>0. /\ TypeInv /\ RowInv /\ DataInv /\ IsFiniteSet(worker_data)
      /\ sub_jobs[s].workers_count \in Nat /\ sub_jobs[s].workers_count > 0
      /\ Cardinality(DataOf(s)) >= sub_jobs[s].workers_count
  BY DEF IInv, TypeInv, TypeOK, SubJobRow, DataInv, Final, Measured
<1>1. RowsKept /\ StatusKept /\ MovesKept /\ DataKept
  BY <1>0, StepEffects, StepMoves, StepData
<1>2. /\ sub_jobs'[s].kind = sub_jobs[s].kind
      /\ sub_jobs'[s].workers_count = sub_jobs[s].workers_count
  BY <1>1 DEF RowsKept, WriteWorkersCount, Final, Starting
<1>3. Cardinality(DataOf(s)') >= sub_jobs[s].workers_count
  BY <1>0, <1>1, MoreData
<1>4. sub_jobs'[s].status \notin {"absent", "Created"}
  BY <1>1 DEF StatusKept, Final
<1>5. ~(cur' = s /\ pc' \in Starting)
  BY <1>1 DEF MovesKept, Final
<1> QED
  BY <1>0, <1>2, <1>3, <1>4, <1>5 DEF Final, Measured, IsBenchmark

\* Only the handler completes a job, the one of its sub job.
LEMMA StepJobs ==
    ASSUME TypeInv, [Next]_vars, NEW j \in Jobs, jobs'[j] = "Completed"
    PROVE  \/ jobs[j] = "Completed"
           \/ WriteJobCompleted /\ j = sub_jobs[cur].job
<1>0. jobs \in [Jobs -> JobStatus \union {"absent"}]
  BY DEF TypeInv, TypeOK
<1>1. CASE UNCHANGED jobs
  BY <1>1
<1>2. CASE \E i \in Jobs : InsertJob(i) \/ CancelJob(i)
  BY <1>0, <1>2 DEF InsertJob, CancelJob
<1>3. CASE WriteJobCompleted
  BY <1>0, <1>3 DEF WriteJobCompleted
<1>4. CASE Handler
  BY <1>1, <1>3, <1>4 DEF Handler, PickCreated, PickExpired, PickProcessing, Pick,
     WriteFailed, ListWorkers, WriteWorkersCount, Publish, WritePending, ReadData,
     WriteCompleted, CountSiblings, ScalingCreated, ScalingCanceled, ScalingStarted,
     ScalingCheck
<1>5. CASE \/ CreateHandler \/ CancelHandler \/ HandlerFault \/ SchedulerCrashes
           \/ \E s \in SubJobs : DeadlinePasses(s)
  BY <1>1, <1>5 DEF CreateHandler, CancelHandler, InsertSubJob, InsertFails, CancelSubJobs,
     CancelFails, HandlerFault, SchedulerCrashes, DeadlinePasses, tables
<1>6. CASE WorkerStep \/ Environment
  BY <1>1, <1>6 DEF WorkerStep, WorkerExcluded, WorkerAborts, WorkerStarts, WorkerFinishes,
     WorkerFrame, Environment, WorkerLeaves, WorkerCutOff, WorkerReconnects, WorkerJoins,
     QueueGone, RegistryChanges, StatusCutOff, DataCutOff, ConsumerFrame, tables
<1>7. CASE StatusConsumer \/ DataConsumer
  BY <1>1, <1>7 DEF StatusConsumer, DataConsumer, StatusAcked, StatusProcessed, StatusFails,
     DataAcked, DataSaved, DataFails, ConsumerFrame
<1>8. CASE UNCHANGED vars
  BY <1>1, <1>8 DEF vars, tables
<1> QED
  BY <1>2, <1>4, <1>5, <1>6, <1>7, <1>8 DEF Next

\* How the handler gets to the data and to the job of its sub job.
LEMMA StepStages ==
    ASSUME TypeInv, [Next]_vars
    PROVE  /\ pc' \in {"read", "complete"} =>
                 \/ pc \in {"read", "complete"} /\ cur' = cur
                 \/ ScalingCheck
                 \/ \E s \in SubJobs : PickProcessing(s)
           /\ pc' \in {"siblings", "finish"} =>
                 \/ pc \in {"siblings", "finish"} /\ cur' = cur
                 \/ WriteCompleted /\ IsBenchmark(cur) /\ cur' = cur
<1>1. CASE UNCHANGED handlerVars
  BY <1>1 DEF handlerVars
<1>2. CASE Handler
  <2>1. ASSUME NEW s \in SubJobs, PickCreated(s) \/ PickExpired(s)
        PROVE  pc' \notin {"read", "complete", "siblings", "finish"}
    BY <2>1 DEF PickCreated, PickExpired, Pick
  <2>2. ASSUME NEW s \in SubJobs, PickProcessing(s)
        PROVE  pc' \notin {"complete", "siblings", "finish"}
    BY <2>2 DEF PickProcessing, Pick
  <2>3. CASE WriteFailed \/ ListWorkers \/ WriteWorkersCount \/ Publish \/ WritePending
    BY <2>3 DEF WriteFailed, ListWorkers, WriteWorkersCount, Publish, WritePending, GoOn,
       Return
  <2>4. CASE ReadData \/ WriteCompleted \/ CountSiblings \/ WriteJobCompleted
    BY <2>4 DEF ReadData, WriteCompleted, CountSiblings, WriteJobCompleted, GoOn, Return
  <2>5. CASE ScalingCreated \/ ScalingCanceled \/ ScalingStarted \/ ScalingCheck
    BY <2>5 DEF ScalingCreated, ScalingCanceled, ScalingStarted, ScalingCheck, GoOn, Return
  <2> QED
    BY <1>2, <2>1, <2>2, <2>3, <2>4, <2>5 DEF Handler
<1>3. CASE HandlerFault \/ SchedulerCrashes
  BY <1>3 DEF HandlerFault, SchedulerCrashes, GoOn, Return
<1>4. ASSUME \/ \E j \in Jobs : InsertSubJob(j) \/ CancelSubJobs(j)
             \/ \E r \in Runs : StatusProcessed(r) \/ DataSaved(r)
             \/ \E s \in SubJobs : DeadlinePasses(s)
      PROVE  UNCHANGED handlerVars
  BY <1>4 DEF InsertSubJob, CancelSubJobs, StatusProcessed, DataSaved, DeadlinePasses,
     ConsumerFrame
<1> QED
  BY StepCases, <1>1, <1>2, <1>3, <1>4 DEF Quiet

\* No job is Completed at first.
LEMMA InitJob == Init => JobInv
BY DEF Init, JobInv

\* Every step keeps what the Completed jobs rest on.
LEMMA StepJobInv == IInv /\ JobInv /\ [Next]_vars => JobInv'
<1> SUFFICES ASSUME IInv, JobInv, [Next]_vars PROVE JobInv'
  OBVIOUS
<1>0. /\ TypeInv /\ RowInv /\ DataInv
      /\ created \in Nat /\ cur <= created /\ SubJobs \subseteq Nat
      /\ pc # "idle" => cur \in SubJobs
      /\ sub_jobs \in [SubJobs -> SubJobRow]
  BY DEF IInv, TypeInv, TypeOK, StepsOK, RowInv, SubJobs
<1>1. RowsKept /\ StatusKept /\ MovesKept /\ DataKept
  BY <1>0, StepEffects, StepMoves, StepData
<1>2. ASSUME pc' \in {"read", "complete"}, IsBenchmark(cur)'
      PROVE  sub_jobs'[cur'].workers_count > 0
  <2>1. CASE pc \in {"read", "complete"} /\ cur' = cur
    <3>1. sub_jobs'[cur].kind = sub_jobs[cur].kind
          /\ sub_jobs'[cur].workers_count = sub_jobs[cur].workers_count
      BY <1>0, <1>1, <2>1 DEF RowsKept, WriteWorkersCount
    <3> QED
      BY <1>2, <2>1, <3>1 DEF JobInv, IsBenchmark
  <2>2. CASE ScalingCheck
    BY <1>0, <1>2, <2>2 DEF ScalingCheck, RowInv, ScalingSteps, IsBenchmark, GoOn, Return
  <2>3. ASSUME NEW s \in SubJobs, PickProcessing(s)
        PROVE  sub_jobs'[cur'].workers_count > 0
    <3>1. cur' = s /\ UNCHANGED sub_jobs /\ sub_jobs[s].workers_count \in Nat
      BY <1>0, <2>3 DEF PickProcessing, Pick, SubJobRow
    <3>2. sub_jobs[s].workers_count # 0
      BY <1>2, <2>3, <3>1 DEF PickProcessing, MustFail, IsBenchmark, Missing
    <3> QED
      BY <3>1, <3>2
  <2> QED
    BY <1>0, <1>2, <2>1, <2>2, <2>3, StepStages
<1>3. ASSUME pc' \in {"siblings", "finish"}
      PROVE  Final(cur)' 
  <2>1. CASE pc \in {"siblings", "finish"} /\ cur' = cur
    BY <1>0, <2>1, StepFinal DEF JobInv
  <2>2. CASE WriteCompleted /\ IsBenchmark(cur) /\ cur' = cur
    <3>1. /\ pc = "complete" /\ cur \in SubJobs
          /\ sub_jobs'[cur].status = "Completed"
          /\ sub_jobs'[cur].kind = sub_jobs[cur].kind
          /\ sub_jobs'[cur].workers_count = sub_jobs[cur].workers_count
      BY <1>0, <2>2, HandlerWrites, StatusWrite DEF WriteCompleted
    <3>2. sub_jobs[cur].workers_count > 0 /\ sub_jobs[cur].workers_count \in Nat
      BY <1>0, <2>2, <3>1 DEF JobInv, SubJobRow
    <3>3. Cardinality(DataOf(cur)') >= sub_jobs[cur].workers_count
      <4>1. Cardinality(DataOf(cur)) >= sub_jobs[cur].workers_count
        BY <1>0, <2>2, <3>1 DEF DataInv
      <4>2. UNCHANGED <<worker_data, cur>>
        BY <2>2 DEF WriteCompleted, HandlerFrame
      <4> QED
        BY <4>1, <4>2 DEF DataOf
    <3>4. pc' \notin Starting
      BY <1>3 DEF Starting
    <3> QED
      BY <2>2, <3>1, <3>2, <3>3, <3>4 DEF Final, Measured, IsBenchmark, DataOf
  <2> QED
    BY <1>0, <1>3, <2>1, <2>2, StepStages
<1>4. ASSUME NEW j \in Jobs, jobs'[j] = "Completed"
      PROVE  \E s \in SubJobs : s <= created' /\ sub_jobs'[s].job = j /\ Final(s)'
  <2>1. ASSUME NEW s \in SubJobs, s <= created, sub_jobs[s].job = j, Final(s)
        PROVE  s <= created' /\ sub_jobs'[s].job = j /\ Final(s)'
    <3>1. sub_jobs'[s].job = j /\ Final(s)'
      BY <1>0, <2>1, StepJob, StepFinal
    <3>2. s \in Nat /\ created' \in Nat /\ created <= created'
      BY <1>0, <1>1, StepTypes DEF RowsKept, TypeInv, TypeOK
    <3> QED
      BY <1>0, <2>1, <3>1, <3>2
  <2>2. CASE jobs[j] = "Completed"
    BY <2>1, <2>2 DEF JobInv
  <2>3. CASE WriteJobCompleted /\ j = sub_jobs[cur].job
    <3>1. pc = "finish" /\ Final(cur) /\ cur \in SubJobs
      BY <1>0, <2>3 DEF WriteJobCompleted, JobInv
    <3> QED
      BY <1>0, <2>1, <2>3, <3>1
  <2> QED
    BY <1>0, <1>4, <2>2, <2>3, StepJobs
<1> QED
  BY <1>2, <1>3, <1>4 DEF JobInv

\* A job is Completed only with a benchmark of its own that has a row for each of
\* the workers it was counted for: what the handler read three statements before
\* still holds, whatever came between them.
THEOREM CompletedJobsAreMeasured == Spec => []CompletedJobIsMeasured
<1>1. ASSUME TypeInv, JobInv
      PROVE  CompletedJobIsMeasured
  <2>1. SubJobs \subseteq Nat \ {0} /\ created \in Nat
    BY <1>1 DEF SubJobs, TypeInv, TypeOK
  <2>2. ASSUME NEW j \in Jobs, jobs[j] = "Completed"
        PROVE  \E s \in SubJobsOf(j) : Measured(s)
    <3>1. PICK s \in SubJobs : s <= created /\ sub_jobs[s].job = j /\ Final(s)
      BY <1>1, <2>2 DEF JobInv
    <3>2. s \in SubJobsOf(j)
      BY <2>1, <3>1 DEF SubJobsOf
    <3> QED
      BY <3>1, <3>2 DEF Final
  <2> QED
    BY <2>2 DEF CompletedJobIsMeasured
<1>2. IInv => TypeInv
  BY DEF IInv
<1> QED
  BY <1>1, <1>2, Inductive, InitJob, StepJobInv, PTL DEF Spec

----------------------------------------------------------------------------
(* The table has room for every row *)

\* The places in the plans of the jobs that have a row.
Places == Jobs \X (1..Len(Plan))
Placed == {p \in Places : p[2] < inserted[p[1]]}

\* Each row stands for one place.
PlaceInv == created = Cardinality(Placed)

\* There is one place for each number of a sub job.
LEMMA PlaceCount == IsFiniteSet(Places) /\ Cardinality(Places) = Len(Plan) * MaxJobs
<1>1. Len(Plan) \in Nat /\ MaxJobs \in Nat
  BY PlanLength, JobPipelineAssumption
<1>2. ASSUME NEW n \in Nat
      PROVE  IsFiniteSet(1..n) /\ Cardinality(1..n) = n
  <2>1. IsFiniteSet(1..n) /\ Cardinality(1..n) = IF 1 > n THEN 0 ELSE n - 1 + 1
    BY FS_Interval
  <2> QED
    BY <2>1
<1>3. MaxJobs * Len(Plan) = Len(Plan) * MaxJobs
  BY <1>1
<1>4. /\ IsFiniteSet(Jobs) /\ Cardinality(Jobs) = MaxJobs
      /\ IsFiniteSet(1..Len(Plan)) /\ Cardinality(1..Len(Plan)) = Len(Plan)
  BY <1>1, <1>2 DEF Jobs
<1> QED
  BY <1>3, <1>4, FS_Product DEF Places

\* Only the create handler moves on in a plan.
LEMMA StepInserts ==
    ASSUME TypeInv, [Next]_vars
    PROVE  \/ UNCHANGED <<inserted, created>>
           \/ \E j \in Jobs : InsertJob(j) \/ InsertSubJob(j)
<1>1. CASE Handler
  BY <1>1 DEF Handler, PickCreated, PickExpired, PickProcessing, Pick, WriteFailed,
     ListWorkers, WriteWorkersCount, Publish, WritePending, ReadData, WriteCompleted,
     CountSiblings, WriteJobCompleted, ScalingCreated, ScalingCanceled, ScalingStarted,
     ScalingCheck, HandlerFrame, apiVars
<1>2. ASSUME \/ \E j \in Jobs : CancelJob(j) \/ InsertFails(j)
             \/ CancelHandler \/ HandlerFault \/ SchedulerCrashes
             \/ \E s \in SubJobs : DeadlinePasses(s)
      PROVE  UNCHANGED <<inserted, created>>
  BY <1>2 DEF CancelJob, InsertFails, CancelHandler, CancelSubJobs, CancelFails,
     HandlerFault, SchedulerCrashes, DeadlinePasses, tables, apiVars
<1>3. CASE WorkerStep \/ Environment
  BY <1>3 DEF WorkerStep, WorkerExcluded, WorkerAborts, WorkerStarts, WorkerFinishes,
     WorkerFrame, Environment, WorkerLeaves, WorkerCutOff, WorkerReconnects, WorkerJoins,
     QueueGone, RegistryChanges, StatusCutOff, DataCutOff, ConsumerFrame, tables, apiVars
<1>4. CASE StatusConsumer \/ DataConsumer
  BY <1>4 DEF StatusConsumer, DataConsumer, StatusAcked, StatusProcessed, StatusFails,
     DataAcked, DataSaved, DataFails, ConsumerFrame, apiVars
<1>5. CASE UNCHANGED vars
  BY <1>5 DEF vars, tables, apiVars
<1> QED
  BY <1>1, <1>2, <1>3, <1>4, <1>5 DEF Next, CreateHandler

\* Every step gives a new row a place of its own.
LEMMA StepPlaces == TypeInv /\ PlaceInv /\ [Next]_vars => PlaceInv'
<1> SUFFICES ASSUME TypeInv, PlaceInv, [Next]_vars PROVE PlaceInv'
  OBVIOUS
<1>0. /\ inserted \in [Jobs -> 0..(Len(Plan) + 1)] /\ Len(Plan) \in Nat
      /\ \A j \in creating : inserted[j] \in 1..Len(Plan)
  BY PlanLength DEF TypeInv, TypeOK, StepsOK
<1>1. CASE UNCHANGED <<inserted, created>>
  BY <1>1 DEF PlaceInv, Placed
<1>2. ASSUME NEW j \in Jobs, InsertJob(j)
      PROVE  PlaceInv'
  <2>1. inserted[j] = 0 /\ inserted' = [inserted EXCEPT ![j] = 1] /\ UNCHANGED created
    BY <1>2 DEF InsertJob
  <2>2. \A p \in Places : p[1] \in Jobs /\ p[2] \in 1..Len(Plan)
    BY DEF Places
  <2>3. Placed' = Placed
    BY <1>0, <2>1, <2>2 DEF Placed
  <2> QED
    BY <2>1, <2>3 DEF PlaceInv
<1>3. ASSUME NEW j \in Jobs, InsertSubJob(j)
      PROVE  PlaceInv'
  <2> DEFINE place == <<j, inserted[j]>>
  <2>1. /\ inserted[j] \in 1..Len(Plan) /\ created' = created + 1
        /\ inserted' = [inserted EXCEPT ![j] = inserted[j] + 1]
    BY <1>0, <1>3 DEF InsertSubJob
  <2>2. \A p \in Places : p = <<p[1], p[2]>> /\ p[1] \in Jobs /\ p[2] \in 1..Len(Plan)
    BY DEF Places
  <2>3. place \in Places /\ place \notin Placed
    BY <1>0, <2>1 DEF Places, Placed
  <2>4. Placed' = Placed \union {place}
    BY <1>0, <2>1, <2>2, <2>3 DEF Placed
  <2>5. IsFiniteSet(Placed)
    BY PlaceCount, FS_Subset DEF Placed
  <2>6. Cardinality(Placed') = Cardinality(Placed) + 1
    BY <2>3, <2>4, <2>5, FS_AddElement
  <2> QED
    BY <2>1, <2>6 DEF PlaceInv
<1> QED
  BY <1>1, <1>2, <1>3, StepInserts

\* No insert falls outside sub_jobs: the bound of the table is that of the
\* requests, a row per entry of the plan, and no interleaving of create handlers,
\* failed inserts and crashes leads beyond it.
THEOREM RowsFit == Spec => [](created <= Len(Plan) * MaxJobs)
<1>1. Init => PlaceInv
  <2> SUFFICES ASSUME Init PROVE PlaceInv
    OBVIOUS
  <2>1. Placed = {}
    BY DEF Init, Placed, Places
  <2> QED
    BY <2>1, FS_EmptySet DEF Init, PlaceInv
<1>2. PlaceInv => created <= Len(Plan) * MaxJobs
  <2>1. Cardinality(Placed) <= Cardinality(Places)
    BY PlaceCount, FS_Subset DEF Placed
  <2> QED
    BY <2>1, PlaceCount DEF PlaceInv
<1>3. IInv => TypeInv
  BY DEF IInv
<1> QED
  BY <1>1, <1>2, <1>3, StepPlaces, Inductive, PTL DEF Spec

============================================================================
