--------------------------- MODULE WorkerRegistry ---------------------------
(***************************************************************************)
(* Which workers the scheduler believes to be online: the status messages  *)
(* a worker process sends (online, offline, heartbeat, job), the status    *)
(* consumer that writes them to the tables workers and worker_topics, and  *)
(* the worker online check that sets silent workers offline.               *)
(*                                                                         *)
(* Timestamps come from the clock of the worker and are only compared with *)
(* timestamps of the same worker, so each worker has a counter; its clock  *)
(* is assumed not to go back.  One topic stands for those of a worker.     *)
(***************************************************************************)
EXTENDS Naturals, Sequences, SequencesExt, FiniteSets

CONSTANTS
    Workers,
    MaxSends,      \* bound: status messages of a worker
    MaxLosses,     \* bound: messages that are not published or lost on the way
    MaxFailures,   \* bound: statements that fail or outlive the channel of their consumer
    MaxCrashes,    \* bound: crashes of the scheduler, losses of its consumer's channel
    MaxKills       \* bound: worker processes that end without a word

ASSUME WorkerRegistryAssumption ==
    /\ IsFiniteSet(Workers)
    /\ {MaxSends, MaxLosses, MaxFailures, MaxCrashes, MaxKills} \subseteq Nat

Lifecycle == {"online", "offline"}
StatusKinds == Lifecycle \union {"heartbeat", "job"}
Messages == [worker: Workers, kind: StatusKinds, timestamp: 1..MaxSends]

\* worker_status 'none': no row.
WorkerRow == [status: Lifecycle \union {"none"}, last_seen: Nat]
NoRow == [status |-> "none", last_seen |-> 0]

ProcessStates == {"down", "starting", "up", "stopping", "closing"}

\* What comes next for a delivery.
Steps == {"row", "topics", "sub_job", "ack"}
Nothing == <<>>

VARIABLES
    process,       \* where main of a worker stands
    clock,         \* the clock of a worker: timestamps it has taken
    held,          \* messages with a timestamp that are not published yet
    told,          \* what the broker was given last by a worker (history)
    queue,         \* the status queue
    unacked,       \* deliveries the consumer could not process
    handling,      \* the delivery the consumer works on, and its next step
    late,          \* those of consumers that have lost their channel meanwhile
    workers,       \* table workers
    worker_topics, \* workers with a row in table worker_topics
    fresh,         \* workers whose last_seen is less than a minute ago
    inactive,      \* what the online check still has to set offline
    losses, failures, crashes, kills

workerVars == <<process, clock, held, told>>
consumerVars == <<unacked, handling, late>>
tables == <<workers, worker_topics, fresh>>
bounds == <<losses, failures, crashes, kills>>
vars == <<workerVars, queue, consumerVars, tables, inactive, bounds>>

----------------------------------------------------------------------------
(* A worker process.  Its main task, its heartbeat task and its job consumer *)
(* each take the time and then publish, so messages may overtake each other. *)

Compose(w, kind) ==
    /\ clock[w] < MaxSends
    /\ clock' = [clock EXCEPT ![w] = @ + 1]
    /\ held' = held \union {[worker |-> w, kind |-> kind, timestamp |-> clock[w] + 1]}
    /\ UNCHANGED <<told, queue, consumerVars, tables, inactive, bounds>>

StartWorker(w) ==
    /\ process[w] = "down"
    /\ process' = [process EXCEPT ![w] = "starting"]
    /\ Compose(w, "online")

\* Only the heartbeat task and the job consumer go on while main stops.
SendsStatus(w) ==
    /\ process[w] \in {"up", "stopping", "closing"}
    /\ \E kind \in {"heartbeat", "job"} :
          /\ \A m \in held : m.worker = w => m.kind # kind
          /\ Compose(w, kind)
    /\ UNCHANGED process

StopWorker(w) ==
    /\ process[w] = "up"
    /\ process' = [process EXCEPT ![w] = "stopping"]
    /\ Compose(w, "offline")

\* What main does when its message is out.
AfterPublish(m) ==
    process' = CASE m.kind = "online"  -> [process EXCEPT ![m.worker] = "up"]
                 [] m.kind = "offline" -> [process EXCEPT ![m.worker] = "closing"]
                 [] OTHER              -> process

\* What w has told the broker.  It counts from its first lifecycle message on: only
\* that makes the scheduler know w.
Told(m) ==
    LET before == told[m.worker]
        counts == m.kind \in Lifecycle \/ before.lifecycle # "none"
    IN  [lifecycle |-> IF m.kind \in Lifecycle THEN m.kind ELSE before.lifecycle,
         newest    |-> IF counts /\ m.timestamp > before.newest
                       THEN m.timestamp ELSE before.newest]

PublishStatus(m) ==
    /\ queue' = Append(queue, m)
    /\ held' = held \ {m}
    /\ told' = [told EXCEPT ![m.worker] = Told(m)]
    /\ AfterPublish(m)
    /\ UNCHANGED <<clock, consumerVars, tables, inactive, bounds>>

\* The publication returns Ok, but the broker never gets the message: publications
\* are not confirmed.
PublishLost(m) ==
    /\ losses < MaxLosses
    /\ losses' = losses + 1
    /\ held' = held \ {m}
    /\ AfterPublish(m)
    /\ UNCHANGED <<clock, told, queue, consumerVars, tables, inactive,
                   failures, crashes, kills>>

HeldBy(w) == {m \in held : m.worker = w}

\* A lifecycle message that is not published ends main; other errors are logged.
PublishFails(m) ==
    /\ losses < MaxLosses
    /\ losses' = losses + 1
    /\ IF m.kind \in Lifecycle
       THEN /\ process' = [process EXCEPT ![m.worker] = "down"]
            /\ held' = held \ HeldBy(m.worker)
       ELSE /\ held' = held \ {m}
            /\ UNCHANGED process
    /\ UNCHANGED <<clock, told, queue, consumerVars, tables, inactive,
                   failures, crashes, kills>>

Ends(w) ==
    /\ process' = [process EXCEPT ![w] = "down"]
    /\ held' = held \ HeldBy(w)
    /\ UNCHANGED <<clock, told, queue, consumerVars, tables, inactive,
                   losses, failures, crashes>>

ExitWorker(w) == process[w] = "closing" /\ Ends(w) /\ UNCHANGED kills

KillWorker(w) ==
    /\ process[w] # "down"
    /\ kills < MaxKills
    /\ kills' = kills + 1
    /\ Ends(w)

----------------------------------------------------------------------------
(* The status consumer: one delivery at a time.  The statements of a message *)
(* are separate; what fails leaves the delivery unacknowledged.              *)

HasRow(w) == workers[w].status # "none"

\* (mutant) without WHERE workers.last_seen < EXCLUDED.last_seen
IsNewer_Always(m) == TRUE

IsNewer(m) == workers[m.worker].last_seen < m.timestamp

\* The row after an update; the message may be older than a minute by now.
WriteRow(w, status, timestamp) ==
    /\ workers' = [workers EXCEPT ![w] = [status |-> status, last_seen |-> timestamp]]
    /\ fresh' \in {fresh \union {w}, fresh \ {w}}

\* (mutant) an UPDATE that does not insert the row of a new worker
WriteStatus_NoInsert(m) ==
    IF HasRow(m.worker) /\ IsNewer(m)
    THEN WriteRow(m.worker, m.kind, m.timestamp)
    ELSE UNCHANGED <<workers, fresh>>

\* update_worker_status: INSERT ... ON CONFLICT DO UPDATE
WriteStatus(m) ==
    IF ~HasRow(m.worker) \/ IsNewer(m)
    THEN WriteRow(m.worker, m.kind, m.timestamp)
    ELSE UNCHANGED <<workers, fresh>>

\* update_worker_heartbeat
WriteHeartbeat(m) ==
    IF HasRow(m.worker) /\ IsNewer(m)
    THEN WriteRow(m.worker, "online", m.timestamp)
    ELSE UNCHANGED <<workers, fresh>>

\* update_worker_job; the job_id it also writes is read nowhere
WriteJob(m) ==
    IF HasRow(m.worker) /\ IsNewer(m)
    THEN WriteRow(m.worker, workers[m.worker].status, m.timestamp)
    ELSE UNCHANGED <<workers, fresh>>

\* The first statement of a message.
WritesRow(m) ==
    \/ m.kind \in Lifecycle /\ WriteStatus(m)
    \/ m.kind = "heartbeat" /\ WriteHeartbeat(m)
    \/ m.kind = "job" /\ WriteJob(m)

\* What follows it: a lifecycle message has topics, and a job message a sub job when
\* it is about the start of a run.
AfterRow(m) ==
    CASE m.kind \in Lifecycle -> {"topics"}
      [] m.kind = "job"       -> {"sub_job", "ack"}
      [] OTHER                -> {"ack"}

HandleStatus ==
    /\ handling = Nothing
    /\ queue # <<>>
    /\ WritesRow(Head(queue))
    /\ \E step \in AfterRow(Head(queue)) : handling' = <<Head(queue), step>>
    /\ queue' = Tail(queue)
    /\ UNCHANGED <<workerVars, unacked, late, worker_topics, inactive, bounds>>

\* (mutant) the delivery is acknowledged although its statement failed
StatusFails_Acknowledged ==
    /\ handling = Nothing
    /\ queue # <<>>
    /\ failures < MaxFailures
    /\ failures' = failures + 1
    /\ queue' = Tail(queue)
    /\ UNCHANGED <<workerVars, consumerVars, tables, inactive, losses, crashes, kills>>

StatusFails ==
    /\ handling = Nothing
    /\ queue # <<>>
    /\ failures < MaxFailures
    /\ failures' = failures + 1
    /\ unacked' = Append(unacked, Head(queue))
    /\ queue' = Tail(queue)
    /\ UNCHANGED <<workerVars, handling, late, tables, inactive, losses, crashes, kills>>

HandlesTopics == handling # Nothing /\ handling[2] = "topics"

\* (mutant) offline forgets remove_worker_topics
SetsTopics_Kept(m) == worker_topics' = worker_topics \union {m.worker}

\* upsert_worker_topics, remove_worker_topics: whatever the timestamp
SetsTopics(m) ==
    worker_topics' = IF m.kind = "online" THEN worker_topics \union {m.worker}
                                          ELSE worker_topics \ {m.worker}

HandleTopics ==
    /\ HandlesTopics
    /\ SetsTopics(handling[1])
    /\ handling' = <<handling[1], "ack">>
    /\ UNCHANGED <<workerVars, queue, unacked, late, workers, fresh, inactive, bounds>>

HandlesSubJob == handling # Nothing /\ handling[2] = "sub_job"

\* update_sub_job_status: the row of the sub job is in JobPipeline.
HandleSubJob ==
    /\ HandlesSubJob
    /\ handling' = <<handling[1], "ack">>
    /\ UNCHANGED <<workerVars, queue, unacked, late, tables, inactive, bounds>>

\* The second statement fails.
SecondFails ==
    /\ HandlesTopics \/ HandlesSubJob
    /\ failures < MaxFailures
    /\ failures' = failures + 1
    /\ unacked' = Append(unacked, handling[1])
    /\ handling' = Nothing
    /\ UNCHANGED <<workerVars, queue, late, tables, inactive, losses, crashes, kills>>

Ack ==
    /\ handling # Nothing /\ handling[2] = "ack"
    /\ handling' = Nothing
    /\ UNCHANGED <<workerVars, queue, unacked, late, tables, inactive, bounds>>

----------------------------------------------------------------------------
(* The consumer loses its channel.  What it has not acknowledged is put back *)
(* for the next one, in front and in order, while the statement it waits for *)
(* goes on, and those after it.  Its acknowledgement, at last, fails.        *)

InHand == IF handling = Nothing THEN <<>> ELSE <<handling[1]>>

PutBack ==
    /\ queue' = unacked \o InHand \o queue
    /\ unacked' = <<>>
    /\ handling' = Nothing

\* Between two deliveries, or before the acknowledgement.
ChannelLost ==
    /\ crashes < MaxCrashes
    /\ crashes' = crashes + 1
    /\ handling # Nothing => handling[2] = "ack"
    /\ PutBack
    /\ UNCHANGED <<workerVars, late, tables, inactive, losses, failures, kills>>

\* While a statement is under way that will be later than the next consumer.
StatementLeft ==
    /\ crashes < MaxCrashes /\ failures < MaxFailures
    /\ crashes' = crashes + 1 /\ failures' = failures + 1
    /\ \/ handling = Nothing /\ queue # <<>> /\ late' = late \union {<<Head(queue), "row">>}
       \/ (HandlesTopics \/ HandlesSubJob) /\ late' = late \union {handling}
    /\ PutBack
    /\ UNCHANGED <<workerVars, tables, inactive, losses, kills>>

LateStatus(d) ==
    /\ d[2] = "row"
    /\ WritesRow(d[1])
    /\ \E step \in AfterRow(d[1]) : late' = (late \ {d}) \union {<<d[1], step>>}
    /\ UNCHANGED <<workerVars, queue, unacked, handling, worker_topics, inactive, bounds>>

LateTopics(d) ==
    /\ d[2] = "topics"
    /\ SetsTopics(d[1])
    /\ late' = (late \ {d}) \union {<<d[1], "ack">>}
    /\ UNCHANGED <<workerVars, queue, unacked, handling, workers, fresh, inactive, bounds>>

\* A statement fails, the last one has ended or the acknowledgement fails.
LateEnds(d) ==
    /\ late' = late \ {d}
    /\ UNCHANGED <<workerVars, queue, unacked, handling, tables, inactive, bounds>>

----------------------------------------------------------------------------
(* The worker online check, its own task, and the passing of time *)

\* (mutant) the check looks for workers seen lately
ListInactive_Fresh == {w \in fresh : workers[w].status = "online"}

ListInactive == {w \in Workers \ fresh : workers[w].status = "online"}

CheckLists ==
    /\ inactive = {}
    /\ ListInactive # {}
    /\ inactive' = ListInactive
    /\ UNCHANGED <<workerVars, queue, consumerVars, tables, bounds>>

\* set_worker_offline: no condition on what the row holds by now.
CheckSetsOffline(w) ==
    /\ w \in inactive
    /\ workers' = [workers EXCEPT ![w].status = "offline"]
    /\ inactive' = inactive \ {w}
    /\ UNCHANGED <<workerVars, queue, consumerVars, worker_topics, fresh, bounds>>

\* An error is ignored: let _ = ...
CheckFails(w) ==
    /\ w \in inactive
    /\ failures < MaxFailures
    /\ failures' = failures + 1
    /\ inactive' = inactive \ {w}
    /\ UNCHANGED <<workerVars, queue, consumerVars, tables, losses, crashes, kills>>

MinutePasses(w) ==
    /\ w \in fresh
    /\ fresh' = fresh \ {w}
    /\ UNCHANGED <<workerVars, queue, consumerVars, workers, worker_topics, inactive, bounds>>

\* Every task of the scheduler ends; the tables stay.
SchedulerCrashes ==
    /\ crashes < MaxCrashes
    /\ crashes' = crashes + 1
    /\ PutBack
    /\ late' = {}
    /\ inactive' = {}
    /\ UNCHANGED <<workerVars, tables, losses, failures, kills>>

----------------------------------------------------------------------------
Init ==
    /\ process = [w \in Workers |-> "down"]
    /\ clock = [w \in Workers |-> 0]
    /\ held = {}
    /\ told = [w \in Workers |-> [lifecycle |-> "none", newest |-> 0]]
    /\ queue = <<>> /\ unacked = <<>> /\ handling = Nothing /\ late = {}
    /\ workers = [w \in Workers |-> NoRow]
    /\ worker_topics = {}
    /\ fresh = {}
    /\ inactive = {}
    /\ losses = 0 /\ failures = 0 /\ crashes = 0 /\ kills = 0

WorkerStep ==
    \/ \E w \in Workers : StartWorker(w) \/ SendsStatus(w) \/ StopWorker(w)
                          \/ ExitWorker(w) \/ KillWorker(w)
    \/ \E m \in held : PublishStatus(m) \/ PublishLost(m) \/ PublishFails(m)

Consumer ==
    \/ HandleStatus \/ StatusFails
    \/ HandleTopics \/ HandleSubJob \/ SecondFails
    \/ Ack

LostConsumer ==
    \/ ChannelLost \/ StatementLeft
    \/ \E d \in late : LateStatus(d) \/ LateTopics(d) \/ LateEnds(d)

OnlineCheck == CheckLists \/ \E w \in Workers : CheckSetsOffline(w) \/ CheckFails(w)

Next ==
    \/ WorkerStep
    \/ Consumer
    \/ LostConsumer
    \/ OnlineCheck
    \/ \E w \in Workers : MinutePasses(w)
    \/ SchedulerCrashes

Spec == Init /\ [][Next]_vars

\* The tasks of the scheduler run and time goes by.
FairSpec ==
    /\ Spec
    /\ WF_vars(Consumer)
    /\ WF_vars(OnlineCheck)
    /\ \A w \in Workers : WF_vars(MinutePasses(w))

----------------------------------------------------------------------------
(* Properties *)

InConsumer == IF handling = Nothing THEN {} ELSE {handling[1]}

\* The messages the broker or the consumer still holds.
Afloat == ToSet(queue) \union ToSet(unacked) \union InConsumer

\* The type of every variable; worker_topics refers to a row of workers.
TypeOK ==
    /\ process \in [Workers -> ProcessStates]
    /\ clock \in [Workers -> 0..MaxSends]
    /\ held \subseteq Messages
    /\ told \in [Workers -> [lifecycle: Lifecycle \union {"none"}, newest: 0..MaxSends]]
    /\ Afloat \subseteq Messages
    /\ handling # Nothing => handling[2] \in Steps
    /\ late \subseteq Messages \X Steps
    /\ workers \in [Workers -> WorkerRow]
    /\ worker_topics \subseteq {w \in Workers : HasRow(w)}
    /\ fresh \subseteq Workers /\ inactive \subseteq Workers
    /\ losses \in 0..MaxLosses /\ failures \in 0..MaxFailures
    /\ crashes \in 0..MaxCrashes /\ kills \in 0..MaxKills

\* get_workers_online_with_topic
Listed(w) == workers[w].status = "online" /\ w \in worker_topics

\* Messages that are still worked on by a consumer without a channel.
Astray == {d[1] : d \in late}

\* Everything the broker was given from w has been processed.
Settled(w) == \A m \in Afloat : m.worker # w

\* "Create or remove worker topics based on worker status"
\* (status_consumer.rs:53): once its messages are processed, a worker has its
\* topics iff the last lifecycle message it sent says online, so a worker that
\* signed off is never listed, whatever heartbeat comes after.
TopicsFollowLifecycle ==
    \A w \in Workers : Settled(w) => (w \in worker_topics <=> told[w].lifecycle = "online")

\* last_seen is the newest timestamp sent, although the messages of the tasks
\* of a worker overtake each other and are delivered again after a crash
\* (worker_repository.rs:40).
LastSeenIsNewest ==
    \A w \in Workers : Settled(w) => workers[w].last_seen = told[w].newest

\* With every statement succeeding in time, as far as the code leads: one that fails,
\* or comes later than the next consumer, lets its message decide after newer ones
\* (see WorkerRegistry_doc_topics.cfg).
FollowsUnlessFailed == failures = 0 => TopicsFollowLifecycle
NewestUnlessFailed == failures = 0 => LastSeenIsNewest

\* The message in hand when its statements that concern the registry are executed.
Done == {m \in InConsumer : handling[2] = "ack" \/ m.kind \notin Lifecycle}

Abstract ==
    INSTANCE StatusBoard WITH
        afloat <- Afloat,
        done   <- Done,
        astray <- Astray,
        board  <- workers,
        topics <- worker_topics

\* "New data will only update the record if it's newer than the current record
\* in the database" (worker_repository.rs:40), and no message is lost before it
\* did what it should: through failed statements, redeliveries in front of newer
\* messages and crashes, consumer and online check implement StatusBoard.
ImplementsStatusBoard == Abstract!Spec

\* A worker that is gone for good is not listed for ever, although it was
\* killed or its last words are lost, late or delivered again
\* (worker_online_check.rs:10).
EventuallyUnlisted ==
    \A w \in Workers : <>[](process[w] = "down") => <>[]~Listed(w)

=============================================================================
