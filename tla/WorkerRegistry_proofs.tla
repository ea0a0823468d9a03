----------------------- MODULE WorkerRegistry_proofs -----------------------
(***************************************************************************)
(* The invariants of WorkerRegistry for any number of workers, messages,   *)
(* losses, failures, crashes and kills.                                    *)
(*                                                                         *)
(* FollowsUnlessFailed and NewestUnlessFailed speak of the moments when    *)
(* every message of a worker is processed.  What leads there is said of    *)
(* every moment: the last lifecycle message under way, or what the topics  *)
(* will be when the consumer is done, is the last one sent (TopicsInv),    *)
(* and the newest timestamp is in the row or still in the queue            *)
(* (NewestInv).  The second needs to know which messages of the queue      *)
(* count: those that will find a row (RowInv), because a heartbeat that    *)
(* finds none is passed over.                                              *)
(***************************************************************************)
EXTENDS WorkerRegistry, TLAPS

ProcessInv ==
    /\ process \in [Workers -> ProcessStates]
    /\ clock \in [Workers -> 0..MaxSends]
    /\ held \subseteq Messages
    /\ told \in [Workers -> [lifecycle: Lifecycle \union {"none"}, newest: 0..MaxSends]]

QueueInv ==
    /\ queue \in Seq(Messages) /\ unacked \in Seq(Messages)
    /\ handling # Nothing =>
          /\ handling \in Messages \X {"topics", "sub_job", "ack"}
          /\ handling[2] = "topics" => handling[1].kind \in Lifecycle
          /\ handling[2] = "sub_job" => handling[1].kind \notin Lifecycle
    /\ late \subseteq Messages \X Steps
    /\ \A d \in late : d[2] = "topics" => d[1].kind \in Lifecycle

TableInv ==
    /\ workers \in [Workers -> WorkerRow]
    /\ worker_topics \subseteq Workers /\ fresh \subseteq Workers /\ inactive \subseteq Workers
    /\ \A w \in worker_topics \union inactive : HasRow(w)
    /\ \A w \in Workers : HasRow(w) \/ workers[w].last_seen = 0
    /\ HandlesTopics => HasRow(handling[1].worker)
    /\ \A d \in late : d[2] = "topics" => HasRow(d[1].worker)

CountInv ==
    /\ losses \in 0..MaxLosses /\ failures \in 0..MaxFailures
    /\ crashes \in 0..MaxCrashes /\ kills \in 0..MaxKills

TypeInv == ProcessInv /\ QueueInv /\ TableInv /\ CountInv

IsLifecycle(m, w) == m.worker = w /\ m.kind \in Lifecycle
Queued == 1..Len(queue)

\* Whether w has its topics when the consumer is done with its message.
TopicsToBe(w) ==
    IF HandlesTopics /\ handling[1].worker = w
    THEN handling[1].kind = "online"
    ELSE w \in worker_topics

TopicsInv(w) ==
    /\ \A i \in Queued :
           IsLifecycle(queue[i], w) /\ (\A j \in Queued : j > i => ~IsLifecycle(queue[j], w))
           => queue[i].kind = told[w].lifecycle
    /\ (\A i \in Queued : ~IsLifecycle(queue[i], w))
       => (TopicsToBe(w) <=> told[w].lifecycle = "online")
    /\ handling # Nothing /\ IsLifecycle(handling[1], w)
       => (TopicsToBe(w) <=> handling[1].kind = "online")

\* The row of w is there, or is written by a message that is under way.
Known(w) == HasRow(w) \/ \E i \in Queued : IsLifecycle(queue[i], w)

RowInv(w) ==
    /\ Known(w) <=> told[w].lifecycle # "none"
    /\ handling # Nothing /\ IsLifecycle(handling[1], w) => HasRow(w)

\* The places of the queue with a message about w that finds a row.
Counting(w) ==
    {i \in Queued : /\ queue[i].worker = w
                    /\ HasRow(w) \/ \E j \in Queued : j <= i /\ IsLifecycle(queue[j], w)}

NewestInv(w) ==
    /\ workers[w].last_seen <= told[w].newest
    /\ \A i \in Counting(w) : queue[i].timestamp <= told[w].newest
    /\ \/ workers[w].last_seen = told[w].newest
       \/ \E i \in Counting(w) : queue[i].timestamp = told[w].newest
    /\ handling # Nothing /\ handling[1].worker = w /\ HasRow(w)
       => handling[1].timestamp <= workers[w].last_seen

OrderInv ==
    failures = 0 =>
        /\ unacked = <<>> /\ late = {}
        /\ \A w \in Workers : TopicsInv(w) /\ RowInv(w) /\ NewestInv(w)

IInv == TypeInv /\ OrderInv

----------------------------------------------------------------------------
(* Lemmas *)

LEMMA ConstantTypes ==
    /\ MaxSends \in Nat /\ MaxLosses \in Nat /\ MaxFailures \in Nat
    /\ MaxCrashes \in Nat /\ MaxKills \in Nat
  BY WorkerRegistryAssumption

USE ConstantTypes

LEMMA MessageTypes ==
    ASSUME NEW m \in Messages
    PROVE  m.worker \in Workers /\ m.kind \in StatusKinds /\ m.timestamp \in 1..MaxSends
  BY DEF Messages

LEMMA PairIsSomething == \A m, s : <<m, s>> # Nothing
  BY DEF Nothing

LEMMA Appended ==
    ASSUME NEW q \in Seq(Messages), NEW m \in Messages
    PROVE  /\ Append(q, m) \in Seq(Messages)
           /\ Len(q) \in Nat /\ Len(Append(q, m)) = Len(q) + 1
           /\ Append(q, m)[Len(q) + 1] = m
           /\ \A i \in 1..Len(q) : Append(q, m)[i] = q[i] /\ q[i] \in Messages
  OBVIOUS

LEMMA Prepended ==
    ASSUME NEW q \in Seq(Messages), NEW m \in Messages
    PROVE  /\ <<m>> \o q \in Seq(Messages)
           /\ Len(q) \in Nat /\ Len(<<m>> \o q) = Len(q) + 1
           /\ (<<m>> \o q)[1] = m
           /\ \A i \in 1..Len(q) : (<<m>> \o q)[i + 1] = q[i] /\ q[i] \in Messages
  OBVIOUS

LEMMA Removed ==
    ASSUME NEW q \in Seq(Messages), q # <<>>
    PROVE  /\ Tail(q) \in Seq(Messages) /\ Head(q) \in Messages /\ Head(q) = q[1]
           /\ Len(q) \in Nat /\ Len(q) > 0 /\ Len(Tail(q)) = Len(q) - 1
           /\ \A i \in 1..Len(Tail(q)) : Tail(q)[i] = q[i + 1]
  OBVIOUS

LEMMA NextCases ==
    ASSUME [Next]_vars
    PROVE  \/ \E w \in Workers : \/ StartWorker(w) \/ SendsStatus(w) \/ StopWorker(w)
                                 \/ ExitWorker(w) \/ KillWorker(w)
           \/ \E m \in held : PublishStatus(m) \/ PublishLost(m) \/ PublishFails(m)
           \/ HandleStatus \/ StatusFails
           \/ HandleTopics \/ HandleSubJob \/ SecondFails \/ Ack
           \/ ChannelLost \/ StatementLeft
           \/ \E d \in late : LateStatus(d) \/ LateTopics(d) \/ LateEnds(d)
           \/ CheckLists \/ \E w \in Workers : CheckSetsOffline(w) \/ CheckFails(w)
           \/ \E w \in Workers : MinutePasses(w)
           \/ SchedulerCrashes \/ UNCHANGED vars
  BY DEF Next, WorkerStep, Consumer, LostConsumer, OnlineCheck

LEMMA NextStep ==
    ASSUME NEW m \in Messages, NEW step \in AfterRow(m)
    PROVE  /\ step \in {"topics", "sub_job", "ack"} /\ step \in Steps
           /\ step = "topics" <=> m.kind \in Lifecycle
           /\ step = "sub_job" => m.kind \notin Lifecycle
  <1>1. CASE m.kind \in Lifecycle
    BY <1>1 DEF AfterRow, Steps, Lifecycle
  <1>2. CASE m.kind = "job"
    BY <1>2 DEF AfterRow, Steps, Lifecycle
  <1>3. CASE m.kind \notin Lifecycle /\ m.kind # "job"
    BY <1>3 DEF AfterRow, Steps
  <1> QED
    BY <1>1, <1>2, <1>3

LEMMA InHandType ==
    ASSUME QueueInv
    PROVE  InHand \in Seq(Messages)
  BY DEF QueueInv, InHand

\* What the first statement of a message does to the row of its worker.
LEMMA RowEffect ==
    ASSUME TableInv, NEW m \in Messages, WritesRow(m)
    PROVE  /\ workers' \in [Workers -> WorkerRow] /\ fresh' \subseteq Workers
           /\ \A w \in Workers : w # m.worker => workers'[w] = workers[w]
           /\ \A w \in Workers : HasRow(w) => HasRow(w)'
           /\ m.kind \in Lifecycle => HasRow(m.worker)'
           /\ m.kind \in Lifecycle \/ HasRow(m.worker)
              => m.timestamp <= workers'[m.worker].last_seen
           /\ workers[m.worker].last_seen <= workers'[m.worker].last_seen
           /\ HasRow(m.worker)' \/ workers'[m.worker] = workers[m.worker]
           /\ HasRow(m.worker)' => HasRow(m.worker) \/ m.kind \in Lifecycle
           /\ workers'[m.worker].last_seen \in {workers[m.worker].last_seen, m.timestamp}
  <1>0. m.worker \in Workers /\ m.timestamp \in Nat /\ workers \in [Workers -> WorkerRow]
        /\ workers[m.worker].last_seen \in Nat /\ fresh \subseteq Workers
        /\ m.kind \in StatusKinds
    BY MessageTypes DEF TableInv, WorkerRow
  <1>1. CASE UNCHANGED <<workers, fresh>> /\ HasRow(m.worker) /\ ~IsNewer(m)
    BY <1>0, <1>1 DEF HasRow, IsNewer, TableInv
  <1>2. CASE UNCHANGED <<workers, fresh>> /\ m.kind \notin Lifecycle /\ ~HasRow(m.worker)
    BY <1>0, <1>2 DEF HasRow, TableInv
  <1>3. ASSUME NEW status \in Lifecycle, WriteRow(m.worker, status, m.timestamp),
               IsNewer(m) \/ ~HasRow(m.worker)
        PROVE  /\ workers' \in [Workers -> WorkerRow] /\ fresh' \subseteq Workers
               /\ \A w \in Workers : w # m.worker => workers'[w] = workers[w]
               /\ workers'[m.worker].status \in Lifecycle
               /\ workers'[m.worker].last_seen = m.timestamp
    <2> DEFINE row == [status |-> status, last_seen |-> m.timestamp]
    <2>1. row \in WorkerRow /\ row.status = status /\ row.last_seen = m.timestamp
      BY <1>0 DEF WorkerRow
    <2>2. workers' = [workers EXCEPT ![m.worker] = row]
      BY <1>3 DEF WriteRow
    <2>3. fresh' \subseteq Workers
      BY <1>0, <1>3 DEF WriteRow
    <2> HIDE DEF row
    <2> QED
      BY <1>0, <2>1, <2>2, <2>3
  <1>4. \/ UNCHANGED <<workers, fresh>> /\ HasRow(m.worker) /\ ~IsNewer(m)
        \/ UNCHANGED <<workers, fresh>> /\ m.kind \notin Lifecycle /\ ~HasRow(m.worker)
        \/ /\ \E status \in Lifecycle : WriteRow(m.worker, status, m.timestamp)
           /\ IsNewer(m) \/ ~HasRow(m.worker)
           /\ m.kind \in Lifecycle \/ HasRow(m.worker)
    <2>1. CASE m.kind \in Lifecycle /\ WriteStatus(m)
      BY <2>1 DEF WriteStatus
    <2>2. CASE m.kind = "heartbeat" /\ WriteHeartbeat(m)
      BY <2>2 DEF WriteHeartbeat, Lifecycle
    <2>3. CASE m.kind = "job" /\ WriteJob(m)
      <3>1. HasRow(m.worker) => workers[m.worker].status \in Lifecycle
        BY <1>0 DEF HasRow, WorkerRow
      <3> QED
        BY <2>3, <3>1 DEF WriteJob, Lifecycle
    <2> QED
      BY <2>1, <2>2, <2>3 DEF WritesRow
  <1>5. ASSUME NEW status \in Lifecycle, WriteRow(m.worker, status, m.timestamp),
               IsNewer(m) \/ ~HasRow(m.worker)
        PROVE  /\ \A w \in Workers : HasRow(w) => HasRow(w)'
               /\ HasRow(m.worker)'
               /\ workers[m.worker].last_seen <= workers'[m.worker].last_seen
    <2>1. HasRow(m.worker)'
      BY <1>3, <1>5 DEF HasRow, Lifecycle
    <2>2. \A w \in Workers : w # m.worker => (HasRow(w) => HasRow(w)')
      BY <1>3, <1>5 DEF HasRow
    <2>3. workers[m.worker].last_seen <= m.timestamp
      BY <1>0, <1>5 DEF IsNewer, TableInv
    <2> QED
      BY <1>3, <1>5, <2>1, <2>2, <2>3
  <1> QED
    BY <1>0, <1>1, <1>2, <1>3, <1>4, <1>5

----------------------------------------------------------------------------
(* The types *)

LEMMA ComposeType ==
    ASSUME ProcessInv, NEW w \in Workers, NEW kind \in StatusKinds, Compose(w, kind)
    PROVE  /\ clock' \in [Workers -> 0..MaxSends] /\ held' \subseteq Messages
           /\ told' \in [Workers -> [lifecycle: Lifecycle \union {"none"}, newest: 0..MaxSends]]
  <1>1. clock[w] + 1 \in 1..MaxSends
    BY DEF ProcessInv, Compose
  <1>2. [worker |-> w, kind |-> kind, timestamp |-> clock[w] + 1] \in Messages
    BY <1>1 DEF Messages
  <1> QED
    BY <1>1, <1>2 DEF ProcessInv, Compose

LEMMA ToldType ==
    ASSUME ProcessInv, NEW m \in Messages
    PROVE  Told(m) \in [lifecycle: Lifecycle \union {"none"}, newest: 0..MaxSends]
  BY MessageTypes DEF ProcessInv, Told

LEMMA AfterPublishType ==
    ASSUME ProcessInv, NEW m \in Messages, AfterPublish(m)
    PROVE  /\ process' \in [Workers -> ProcessStates]
           /\ \A w \in Workers : w # m.worker => process'[w] = process[w]
           /\ m.kind \notin Lifecycle => process' = process
  <1>1. process \in [Workers -> ProcessStates] /\ m.worker \in Workers
    BY MessageTypes DEF ProcessInv
  <1>2. CASE m.kind = "online"
    <2>1. process' = [process EXCEPT ![m.worker] = "up"]
      BY <1>2 DEF AfterPublish
    <2> QED
      BY <1>1, <1>2, <2>1 DEF ProcessStates, Lifecycle
  <1>3. CASE m.kind = "offline"
    <2>1. process' = [process EXCEPT ![m.worker] = "closing"]
      BY <1>3 DEF AfterPublish
    <2> QED
      BY <1>1, <1>3, <2>1 DEF ProcessStates, Lifecycle
  <1>4. CASE m.kind # "online" /\ m.kind # "offline"
    <2>1. process' = process
      BY <1>4 DEF AfterPublish
    <2> QED
      BY <1>1, <2>1
  <1> QED
    BY <1>2, <1>3, <1>4

LEMMA StepProcess == TypeInv /\ [Next]_vars => ProcessInv'
  <1> SUFFICES ASSUME TypeInv, [Next]_vars PROVE ProcessInv'
    OBVIOUS
  <1>0. ProcessInv
    BY DEF TypeInv
  <1>1. CASE UNCHANGED workerVars
    BY <1>0, <1>1 DEF ProcessInv, workerVars
  <1>2. ASSUME NEW w \in Workers, StartWorker(w) \/ SendsStatus(w) \/ StopWorker(w)
        PROVE  ProcessInv'
    <2>1. \E kind \in StatusKinds : Compose(w, kind)
      BY <1>2 DEF StartWorker, SendsStatus, StopWorker, StatusKinds, Lifecycle
    <2>2. process' \in [Workers -> ProcessStates]
      BY <1>0, <1>2 DEF StartWorker, SendsStatus, StopWorker, ProcessInv, ProcessStates
    <2> QED
      BY <1>0, <2>1, <2>2, ComposeType DEF ProcessInv
  <1>3. ASSUME NEW w \in Workers, ExitWorker(w) \/ KillWorker(w)
        PROVE  ProcessInv'
    BY <1>0, <1>3 DEF ExitWorker, KillWorker, Ends, ProcessInv, ProcessStates
  <1>4. ASSUME NEW m \in held, PublishStatus(m)
        PROVE  ProcessInv'
    <2>1. m \in Messages
      BY <1>0 DEF ProcessInv
    <2>2. process' \in [Workers -> ProcessStates]
      BY <1>0, <1>4, <2>1, AfterPublishType DEF PublishStatus
    <2>3. told' \in [Workers -> [lifecycle: Lifecycle \union {"none"}, newest: 0..MaxSends]]
      BY <1>0, <1>4, <2>1, ToldType, MessageTypes DEF PublishStatus, ProcessInv
    <2> QED
      BY <1>0, <1>4, <2>2, <2>3 DEF PublishStatus, ProcessInv
  <1>6. ASSUME NEW m \in held, PublishLost(m)
        PROVE  ProcessInv'
    <2>1. m \in Messages
      BY <1>0 DEF ProcessInv
    <2>2. process' \in [Workers -> ProcessStates]
      BY <1>0, <1>6, <2>1, AfterPublishType DEF PublishLost
    <2> QED
      BY <1>0, <1>6, <2>2 DEF PublishLost, ProcessInv
  <1>5. ASSUME NEW m \in held, PublishFails(m)
        PROVE  ProcessInv'
    <2>1. m.worker \in Workers
      BY <1>0, MessageTypes DEF ProcessInv
    <2> QED
      BY <1>0, <1>5, <2>1 DEF PublishFails, ProcessInv, ProcessStates
  <1> QED
    BY NextCases, <1>1, <1>2, <1>3, <1>4, <1>5, <1>6
       DEF HandleStatus, StatusFails, HandleTopics, HandleSubJob, SecondFails, Ack,
           ChannelLost, StatementLeft, LateStatus, LateTopics, LateEnds, CheckLists,
           CheckSetsOffline, CheckFails, MinutePasses, SchedulerCrashes, vars

LEMMA StepQueue == TypeInv /\ [Next]_vars => QueueInv'
  <1> SUFFICES ASSUME TypeInv, [Next]_vars PROVE QueueInv'
    OBVIOUS
  <1>0. QueueInv /\ ProcessInv
    BY DEF TypeInv
  <1>1. CASE UNCHANGED <<queue, consumerVars>>
    BY <1>0, <1>1 DEF QueueInv, consumerVars
  <1>2. ASSUME NEW m \in held, PublishStatus(m)
        PROVE  QueueInv'
    <2>1. m \in Messages
      BY <1>0 DEF ProcessInv
    <2> QED
      BY <1>0, <1>2, <2>1, Appended DEF PublishStatus, QueueInv, consumerVars
  <1>3. CASE HandleStatus
    <2>1. Tail(queue) \in Seq(Messages) /\ Head(queue) \in Messages
      BY <1>0, <1>3, Removed DEF HandleStatus, QueueInv
    <2>2. /\ queue' = Tail(queue) /\ UNCHANGED <<unacked, late>>
          /\ \E step \in AfterRow(Head(queue)) : handling' = <<Head(queue), step>>
      BY <1>3 DEF HandleStatus
    <2> QED
      BY <1>0, <2>1, <2>2, NextStep DEF QueueInv
  <1>4. CASE StatusFails
    <2>1. Tail(queue) \in Seq(Messages) /\ Head(queue) \in Messages
      BY <1>0, <1>4, Removed DEF StatusFails, QueueInv
    <2> QED
      BY <1>0, <1>4, <2>1, Appended DEF StatusFails, QueueInv
  <1>5. CASE HandleTopics \/ HandleSubJob
    <2>1. /\ UNCHANGED <<queue, unacked, late>>
          /\ handling # Nothing /\ handling' = <<handling[1], "ack">>
      BY <1>5 DEF HandleTopics, HandlesTopics, HandleSubJob, HandlesSubJob
    <2> QED
      BY <1>0, <2>1 DEF QueueInv
  <1>6. CASE SecondFails
    BY <1>0, <1>6, Appended DEF SecondFails, HandlesTopics, HandlesSubJob, QueueInv
  <1>7. CASE Ack
    BY <1>0, <1>7 DEF Ack, QueueInv
  <1>8. CASE SchedulerCrashes \/ ChannelLost \/ StatementLeft
    <2>1. queue' = unacked \o InHand \o queue /\ unacked' = <<>> /\ handling' = Nothing
      BY <1>8 DEF SchedulerCrashes, ChannelLost, StatementLeft, PutBack
    <2>2. unacked \o InHand \o queue \in Seq(Messages)
      BY <1>0, InHandType DEF QueueInv
    <2>3. /\ late' \subseteq Messages \X Steps
          /\ \A d \in late' : d[2] = "topics" => d[1].kind \in Lifecycle
      <3>1. CASE SchedulerCrashes \/ ChannelLost
        BY <1>0, <3>1 DEF SchedulerCrashes, ChannelLost, QueueInv
      <3>2. CASE StatementLeft /\ handling = Nothing
        <4> DEFINE d == <<Head(queue), "row">>
        <4>1. queue # <<>> /\ late' = late \union {d}
          BY <3>2 DEF StatementLeft, HandlesTopics, HandlesSubJob
        <4>2. d \in Messages \X Steps /\ d[2] = "row"
          BY <1>0, <4>1, Removed DEF QueueInv, Steps
        <4> HIDE DEF d
        <4> QED
          BY <1>0, <4>1, <4>2 DEF QueueInv
      <3>3. CASE StatementLeft /\ handling # Nothing
        <4>1. late' = late \union {handling} /\ (HandlesTopics \/ HandlesSubJob)
          BY <3>3 DEF StatementLeft
        <4>2. handling \in Messages \X Steps
          BY <1>0, <3>3 DEF QueueInv, Steps
        <4> QED
          BY <1>0, <3>3, <4>1, <4>2 DEF QueueInv
      <3> QED
        BY <1>8, <3>1, <3>2, <3>3
    <2> QED
      BY <2>1, <2>2, <2>3 DEF QueueInv
  <1>9. ASSUME NEW d \in late, LateStatus(d) \/ LateTopics(d) \/ LateEnds(d)
        PROVE  QueueInv'
    <2>1. UNCHANGED <<queue, unacked, handling>>
      BY <1>9 DEF LateStatus, LateTopics, LateEnds
    <2> PICK m \in Messages : m = d[1]
      BY <1>0 DEF QueueInv
    <2>2. \/ late' = late \ {d}
          \/ \E step \in Steps :
                /\ late' = (late \ {d}) \union {<<m, step>>}
                /\ step = "topics" => m.kind \in Lifecycle
      <3>1. CASE LateStatus(d)
        BY <3>1, NextStep DEF LateStatus
      <3>2. CASE LateTopics(d)
        <4>1. "ack" \in Steps /\ late' = (late \ {d}) \union {<<m, "ack">>}
          BY <3>2 DEF LateTopics, Steps
        <4> QED
          BY <4>1
      <3>3. CASE LateEnds(d)
        BY <3>3 DEF LateEnds
      <3> QED
        BY <1>9, <3>1, <3>2, <3>3
    <2>3. \A e \in late' :
              \/ e \in late
              \/ \E step \in Steps :
                    e = <<m, step>> /\ (step = "topics" => m.kind \in Lifecycle)
      BY <2>2
    <2>4. \A e \in late : e \in Messages \X Steps /\ (e[2] = "topics" => e[1].kind \in Lifecycle)
      BY <1>0 DEF QueueInv
    <2>5. \A e \in late' : e \in Messages \X Steps /\ (e[2] = "topics" => e[1].kind \in Lifecycle)
      BY <2>3, <2>4
    <2> QED
      BY <1>0, <2>1, <2>5 DEF QueueInv
  <1> QED
    BY NextCases, <1>1, <1>2, <1>3, <1>4, <1>5, <1>6, <1>7, <1>8, <1>9
       DEF StartWorker, SendsStatus, StopWorker, Compose, ExitWorker, KillWorker, Ends,
           PublishLost, PublishFails, CheckLists, CheckSetsOffline, CheckFails, MinutePasses,
           vars

LEMMA StepTable == TypeInv /\ [Next]_vars => TableInv'
  <1> SUFFICES ASSUME TypeInv, [Next]_vars PROVE TableInv'
    OBVIOUS
  <1>0. QueueInv /\ TableInv
    BY DEF TypeInv
  <1>1. CASE UNCHANGED <<handling, late, tables, inactive>>
    BY <1>0, <1>1 DEF TableInv, tables, HasRow, HandlesTopics
  <1>2. ASSUME NEW m \in Messages, WritesRow(m), UNCHANGED <<worker_topics, inactive>>
        PROVE  /\ workers' \in [Workers -> WorkerRow] /\ fresh' \subseteq Workers
               /\ \A w \in Workers : HasRow(w) => HasRow(w)'
               /\ m.kind \in Lifecycle => HasRow(m.worker)'
               /\ \A w \in worker_topics' \union inactive' : HasRow(w)'
               /\ \A w \in Workers : HasRow(w)' \/ workers'[w].last_seen = 0
    <2>1. /\ workers' \in [Workers -> WorkerRow] /\ fresh' \subseteq Workers
          /\ \A w \in Workers : HasRow(w) => HasRow(w)'
          /\ m.kind \in Lifecycle => HasRow(m.worker)'
          /\ \A w \in Workers : w # m.worker => workers'[w] = workers[w]
          /\ HasRow(m.worker)' \/ workers'[m.worker] = workers[m.worker]
      BY <1>0, <1>2, RowEffect
    <2>2. ASSUME NEW w \in Workers
          PROVE  HasRow(w)' \/ workers'[w].last_seen = 0
      <3>1. HasRow(w) \/ workers[w].last_seen = 0
        BY <1>0 DEF TableInv
      <3> QED
        BY <2>1, <3>1
    <2>3. \A w \in worker_topics \union inactive : w \in Workers /\ HasRow(w)
      BY <1>0 DEF TableInv
    <2> QED
      BY <1>2, <2>1, <2>2, <2>3
  <1>3. \A d \in late : d[2] = "topics" => d[1].worker \in Workers /\ HasRow(d[1].worker)
    BY <1>0, MessageTypes DEF QueueInv, TableInv
  <1>4. CASE HandleStatus
    <2> PICK m \in Messages : m = Head(queue)
      BY <1>0, <1>4, Removed DEF HandleStatus, QueueInv
    <2>1. /\ WritesRow(m) /\ UNCHANGED <<worker_topics, inactive, late>>
          /\ \E step \in AfterRow(m) : handling' = <<m, step>>
      BY <1>4 DEF HandleStatus
    <2>2. (HandlesTopics => HasRow(handling[1].worker))'
      BY <1>2, <2>1, NextStep DEF HandlesTopics
    <2> QED
      BY <1>0, <1>2, <1>3, <2>1, <2>2 DEF TableInv
  <1>5. ASSUME NEW d \in late, LateStatus(d)
        PROVE  TableInv'
    <2> PICK m \in Messages : m = d[1]
      BY <1>0 DEF QueueInv
    <2>1. /\ WritesRow(m) /\ UNCHANGED <<worker_topics, inactive, handling>>
          /\ \E step \in AfterRow(m) : late' = (late \ {d}) \union {<<m, step>>}
      BY <1>5 DEF LateStatus
    <2>2. \A e \in late' : e[2] = "topics" => HasRow(e[1].worker)'
      BY <1>2, <1>3, <2>1, NextStep
    <2>3. (HandlesTopics => HasRow(handling[1].worker))'
      <3>1. HandlesTopics => handling[1].worker \in Workers /\ HasRow(handling[1].worker)
        BY <1>0, MessageTypes DEF QueueInv, TableInv, HandlesTopics
      <3>2. HandlesTopics' <=> HandlesTopics
        BY <2>1 DEF HandlesTopics
      <3> QED
        BY <1>2, <2>1, <3>1, <3>2
    <2> QED
      BY <1>0, <1>2, <2>1, <2>2, <2>3 DEF TableInv
  <1>6. ASSUME NEW m \in Messages, SetsTopics(m), HasRow(m.worker),
               UNCHANGED <<workers, fresh, inactive>>
        PROVE  /\ worker_topics' \subseteq Workers
               /\ \A w \in worker_topics' : HasRow(w)'
    BY <1>0, <1>6, MessageTypes DEF SetsTopics, TableInv, HasRow
  <1>7. CASE HandleTopics
    <2> PICK m \in Messages : m = handling[1]
      BY <1>0, <1>7 DEF HandleTopics, HandlesTopics, QueueInv
    <2>1. SetsTopics(m) /\ HasRow(m.worker) /\ UNCHANGED <<workers, fresh, inactive, late>>
      BY <1>0, <1>7 DEF HandleTopics, TableInv
    <2>2. ~HandlesTopics'
      BY <1>7 DEF HandleTopics, HandlesTopics
    <2> QED
      BY <1>0, <1>6, <2>1, <2>2 DEF TableInv, HasRow
  <1>8. ASSUME NEW d \in late, LateTopics(d)
        PROVE  TableInv'
    <2> PICK m \in Messages : m = d[1]
      BY <1>0 DEF QueueInv
    <2>1. /\ SetsTopics(m) /\ HasRow(m.worker)
          /\ UNCHANGED <<workers, fresh, inactive, handling>>
          /\ late' = (late \ {d}) \union {<<m, "ack">>}
      BY <1>3, <1>8 DEF LateTopics
    <2>2. \A e \in late' : e[2] = "topics" => HasRow(e[1].worker)'
      BY <1>3, <2>1 DEF HasRow
    <2>3. (HandlesTopics => HasRow(handling[1].worker))'
      BY <1>0, <2>1 DEF HandlesTopics, HasRow, TableInv
    <2> QED
      BY <1>0, <1>6, <2>1, <2>2, <2>3 DEF TableInv, HasRow
  <1>9. CASE HandleSubJob \/ SecondFails \/ Ack \/ ChannelLost \/ StatementLeft \/ SchedulerCrashes
    <2>1. ~HandlesTopics'
      BY <1>9 DEF HandleSubJob, SecondFails, Ack, ChannelLost, StatementLeft, SchedulerCrashes,
                  PutBack, HandlesTopics
    <2>2. UNCHANGED tables /\ inactive' \in {inactive, {}}
      BY <1>9 DEF HandleSubJob, SecondFails, Ack, ChannelLost, StatementLeft, SchedulerCrashes
    <2>3. \A d \in late' : d \in late \/ d[2] = "row" \/ (d = handling /\ handling # Nothing)
      BY <1>9 DEF HandleSubJob, SecondFails, Ack, ChannelLost, StatementLeft, SchedulerCrashes,
                  HandlesTopics, HandlesSubJob
    <2>4. \A d \in late' : d[2] = "topics" => HasRow(d[1].worker)
      BY <1>0, <2>3 DEF TableInv, HandlesTopics
    <2> QED
      BY <1>0, <2>1, <2>2, <2>4 DEF TableInv, tables, HasRow
  <1>10. CASE CheckLists
    <2>1. /\ UNCHANGED <<handling, late, workers, worker_topics, fresh>>
          /\ inactive' \subseteq Workers /\ \A w \in inactive' : HasRow(w)
      BY <1>10 DEF CheckLists, ListInactive, tables, consumerVars, HasRow
    <2> QED
      BY <1>0, <2>1 DEF TableInv, HasRow, HandlesTopics
  <1>11. ASSUME NEW w \in Workers, CheckSetsOffline(w)
        PROVE  TableInv'
    <2>1. [workers[w] EXCEPT !.status = "offline"] \in WorkerRow
      BY <1>0 DEF TableInv, WorkerRow, Lifecycle
    <2>2. workers' = [workers EXCEPT ![w] = [workers[w] EXCEPT !.status = "offline"]]
      BY <1>11 DEF CheckSetsOffline
    <2>3. workers' \in [Workers -> WorkerRow]
      BY <1>0, <2>1, <2>2 DEF TableInv
    <2>4. \A v \in Workers : HasRow(v) => HasRow(v)'
      BY <1>0, <2>2 DEF TableInv, HasRow, WorkerRow
    <2>5. /\ UNCHANGED <<handling, late, worker_topics, fresh>>
          /\ inactive' \subseteq inactive
      BY <1>11 DEF CheckSetsOffline, consumerVars
    <2>6. \A v \in Workers : workers'[v].last_seen = workers[v].last_seen
      BY <1>0, <2>2 DEF TableInv, WorkerRow
    <2>7. (HandlesTopics => HasRow(handling[1].worker))'
      <3>1. handling # Nothing => handling[1].worker \in Workers
        BY <1>0, MessageTypes DEF QueueInv
      <3> QED
        BY <1>0, <2>4, <2>5, <3>1 DEF TableInv, HandlesTopics, HasRow
    <2>8. \A v \in worker_topics' \union inactive' : HasRow(v)'
      <3>1. \A v \in worker_topics \union inactive : v \in Workers /\ HasRow(v)
        BY <1>0 DEF TableInv
      <3> QED
        BY <2>4, <2>5, <3>1
    <2>9. \A v \in Workers : HasRow(v)' \/ workers'[v].last_seen = 0
      BY <1>0, <2>4, <2>6 DEF TableInv
    <2>10. \A d \in late' : d[2] = "topics" => HasRow(d[1].worker)'
      BY <1>3, <2>4, <2>5
    <2> QED
      BY <1>0, <2>3, <2>5, <2>7, <2>8, <2>9, <2>10 DEF TableInv
  <1>12. ASSUME NEW w \in Workers, CheckFails(w) \/ MinutePasses(w)
        PROVE  TableInv'
    <2>1. /\ UNCHANGED <<handling, late, workers, worker_topics>>
          /\ fresh' \subseteq fresh /\ inactive' \subseteq inactive
      BY <1>12 DEF CheckFails, MinutePasses, consumerVars, tables
    <2> QED
      BY <1>0, <2>1 DEF TableInv, HasRow, HandlesTopics
  <1>13. ASSUME NEW d \in late, LateEnds(d)
        PROVE  TableInv'
    <2>1. UNCHANGED <<handling, tables, inactive>> /\ late' \subseteq late
      BY <1>13 DEF LateEnds
    <2> QED
      BY <1>0, <2>1 DEF TableInv, tables, HasRow, HandlesTopics
  <1> QED
    BY NextCases, <1>1, <1>4, <1>5, <1>7, <1>8, <1>9, <1>10, <1>11, <1>12, <1>13
       DEF StartWorker, SendsStatus, StopWorker, Compose, ExitWorker, KillWorker, Ends,
           PublishStatus, PublishLost, PublishFails, StatusFails, consumerVars, vars

LEMMA StepCount == TypeInv /\ [Next]_vars => CountInv'
  <1> SUFFICES ASSUME TypeInv, [Next]_vars PROVE CountInv'
    OBVIOUS
  <1>0. CountInv
    BY DEF TypeInv
  <1> USE DEF CountInv
  <1>1. CASE UNCHANGED bounds
    BY <1>0, <1>1 DEF bounds
  <1>2. ASSUME NEW w \in Workers, ExitWorker(w) \/ KillWorker(w)
        PROVE  CountInv'
    BY <1>0, <1>2 DEF ExitWorker, KillWorker, Ends
  <1>3. ASSUME NEW m \in held, PublishLost(m) \/ PublishFails(m)
        PROVE  CountInv'
    BY <1>0, <1>3 DEF PublishLost, PublishFails
  <1>4. CASE StatusFails \/ SecondFails
    BY <1>0, <1>4 DEF StatusFails, SecondFails
  <1>5. ASSUME NEW w \in Workers, CheckFails(w)
        PROVE  CountInv'
    BY <1>0, <1>5 DEF CheckFails
  <1>6. CASE SchedulerCrashes \/ ChannelLost \/ StatementLeft
    BY <1>0, <1>6 DEF SchedulerCrashes, ChannelLost, StatementLeft
  <1> QED
    BY NextCases, <1>1, <1>2, <1>3, <1>4, <1>5, <1>6
       DEF StartWorker, SendsStatus, StopWorker, Compose, PublishStatus, HandleStatus,
           HandleTopics, HandleSubJob, Ack, LateStatus, LateTopics, LateEnds, CheckLists,
           CheckSetsOffline, MinutePasses, vars

LEMMA InitType == Init => TypeInv
  <1> SUFFICES ASSUME Init PROVE TypeInv
    OBVIOUS
  <1>1. ProcessInv
    BY DEF Init, ProcessInv, ProcessStates, Lifecycle
  <1>2. QueueInv
    BY DEF Init, QueueInv
  <1>3. TableInv
    BY DEF Init, TableInv, NoRow, WorkerRow, HandlesTopics
  <1>4. CountInv
    BY DEF Init, CountInv
  <1> QED
    BY <1>1, <1>2, <1>3, <1>4 DEF TypeInv

LEMMA StepTypeInv == TypeInv /\ [Next]_vars => TypeInv'
  BY StepProcess, StepQueue, StepTable, StepCount DEF TypeInv

----------------------------------------------------------------------------
(* The order of the messages, while no statement fails *)

PartsInv(w) == TopicsInv(w) /\ RowInv(w) /\ NewestInv(w)

\* A step that leaves the messages alone, and every row but for its status.
LEMMA StepElsewhere ==
    ASSUME TypeInv, NEW w \in Workers, PartsInv(w),
           UNCHANGED <<queue, handling, worker_topics, told>>,
           HasRow(w)' <=> HasRow(w), workers'[w].last_seen = workers[w].last_seen
    PROVE  PartsInv(w)'
  <1>1. TopicsInv(w)'
    BY DEF PartsInv, TopicsInv, TopicsToBe, HandlesTopics, IsLifecycle, Queued
  <1>2. Known(w)' <=> Known(w)
    BY DEF Known, IsLifecycle, Queued
  <1>3. RowInv(w)'
    BY <1>2 DEF PartsInv, RowInv, IsLifecycle
  <1>4. Counting(w)' = Counting(w)
    BY DEF Queued, Counting, IsLifecycle
  <1>5. NewestInv(w)'
    BY <1>4 DEF PartsInv, NewestInv
  <1> QED
    BY <1>1, <1>3, <1>5 DEF PartsInv

\* A message is published: it is the last one of the queue.
LEMMA StepPublish ==
    ASSUME TypeInv, NEW w \in Workers, PartsInv(w), NEW m \in held, PublishStatus(m)
    PROVE  PartsInv(w)'
  <1>0. /\ m \in Messages /\ queue \in Seq(Messages) /\ queue' = Append(queue, m)
        /\ UNCHANGED <<handling, workers, worker_topics>>
    BY DEF TypeInv, ProcessInv, QueueInv, PublishStatus, consumerVars, tables
  <1> DEFINE n == Len(queue)
  <1>1. /\ n \in Nat /\ Queued = 1..n /\ Queued' = 1..(n + 1)
        /\ queue'[n + 1] = m /\ \A i \in 1..n : queue'[i] = queue[i]
    BY <1>0, Appended DEF Queued
  <1> HIDE DEF n
  <1>2. /\ told \in [Workers -> [lifecycle: Lifecycle \union {"none"}, newest: 0..MaxSends]]
        /\ told' = [told EXCEPT ![m.worker] = Told(m)]
        /\ m.worker \in Workers /\ m.timestamp \in Nat
    BY <1>0, MessageTypes DEF TypeInv, ProcessInv, PublishStatus
  <1>3. /\ w # m.worker => told'[w] = told[w]
        /\ w = m.worker => told'[w] = Told(m)
    BY <1>2
  <1>4. /\ IsLifecycle(m, w) => told'[w].lifecycle = m.kind
        /\ ~IsLifecycle(m, w) => told'[w].lifecycle = told[w].lifecycle
    BY <1>3 DEF IsLifecycle, Told
  <1>5. \A i \in 1..n : IsLifecycle(queue'[i], w) <=> IsLifecycle(queue[i], w)
    BY <1>1
  <1>6. TopicsInv(w)'
    <2>1. TopicsToBe(w)' <=> TopicsToBe(w)
      BY <1>0 DEF TopicsToBe, HandlesTopics
    <2>2. ASSUME NEW i \in 1..(n + 1), IsLifecycle(queue'[i], w),
                 \A j \in 1..(n + 1) : j > i => ~IsLifecycle(queue'[j], w)
          PROVE  queue'[i].kind = told'[w].lifecycle
      <3>1. CASE i = n + 1
        BY <1>1, <1>4, <2>2, <3>1
      <3>2. CASE i \in 1..n
        <4>1. ~IsLifecycle(m, w)
          BY <1>1, <2>2, <3>2
        <4>2. \A j \in 1..n : j > i => ~IsLifecycle(queue[j], w)
          BY <1>1, <1>5, <2>2, <3>2
        <4>3. queue[i].kind = told[w].lifecycle
          BY <1>1, <1>5, <2>2, <3>2, <4>2 DEF PartsInv, TopicsInv
        <4> QED
          BY <1>1, <1>4, <3>2, <4>1, <4>3
      <3> QED
        BY <1>1, <3>1, <3>2
    <2>3. ASSUME \A i \in 1..(n + 1) : ~IsLifecycle(queue'[i], w)
          PROVE  TopicsToBe(w) <=> told'[w].lifecycle = "online"
      <3>1. ~IsLifecycle(m, w) /\ \A i \in 1..n : ~IsLifecycle(queue[i], w)
        BY <1>1, <1>5, <2>3
      <3> QED
        BY <1>1, <1>4, <3>1 DEF PartsInv, TopicsInv
    <2>4. handling # Nothing /\ IsLifecycle(handling[1], w)
          => (TopicsToBe(w) <=> handling[1].kind = "online")
      BY DEF PartsInv, TopicsInv
    <2>5. handling' = handling /\ (IsLifecycle(handling[1], w))' = IsLifecycle(handling[1], w)
      BY <1>0 DEF IsLifecycle
    <2> QED
      BY <1>1, <2>1, <2>2, <2>3, <2>4, <2>5 DEF TopicsInv
  <1>7. Known(w)' <=> Known(w) \/ IsLifecycle(m, w)
    <2>1. Known(w)' <=> HasRow(w) \/ \E i \in 1..(n + 1) : IsLifecycle(queue'[i], w)
      BY <1>0, <1>1 DEF Known, HasRow, IsLifecycle
    <2>2. Known(w) <=> HasRow(w) \/ \E i \in 1..n : IsLifecycle(queue[i], w)
      BY <1>1 DEF Known
    <2> QED
      BY <1>1, <1>5, <2>1, <2>2
  <1>8. RowInv(w)'
    <2>1. Known(w)' <=> told'[w].lifecycle # "none"
      BY <1>4, <1>7 DEF PartsInv, RowInv, IsLifecycle, Lifecycle
    <2>2. handling' # Nothing /\ (IsLifecycle(handling[1], w))' => HasRow(w)'
      BY <1>0 DEF PartsInv, RowInv, IsLifecycle, HasRow
    <2> QED
      BY <2>1, <2>2 DEF RowInv
  <1>9. /\ Counting(w) \subseteq 1..n /\ Counting(w)' \subseteq 1..(n + 1)
        /\ \A i \in 1..n : i \in Counting(w)' <=> i \in Counting(w)
        /\ n + 1 \in Counting(w)' <=> m.worker = w /\ (Known(w) \/ m.kind \in Lifecycle)
    <2>1. \A i \in 1..(n + 1) :
              i \in Counting(w)' <=> /\ queue'[i].worker = w
                                     /\ \/ HasRow(w)
                                        \/ \E j \in 1..(n + 1) : j <= i /\ IsLifecycle(queue'[j], w)
      BY <1>0, <1>1 DEF Counting, HasRow, IsLifecycle
    <2>2. ASSUME NEW i \in 1..n
          PROVE  i \in Counting(w)' <=> i \in Counting(w)
      <3>1. i \in 1..(n + 1) /\ \A j \in 1..(n + 1) : j <= i => j \in 1..n
        BY <1>1
      <3>2. \A j \in 1..n : j \in 1..(n + 1)
        BY <1>1
      <3> QED
        BY <1>1, <1>5, <2>1, <3>1, <3>2 DEF Counting
    <2>3. n + 1 \in Counting(w)' <=> m.worker = w /\ (Known(w) \/ m.kind \in Lifecycle)
      <3>1. n + 1 \in 1..(n + 1) /\ \A j \in 1..(n + 1) : j <= n + 1
        BY <1>1
      <3>2. Known(w)' <=> HasRow(w) \/ \E i \in 1..(n + 1) : IsLifecycle(queue'[i], w)
        BY <1>0, <1>1 DEF Known, HasRow, IsLifecycle
      <3>3. n + 1 \in Counting(w)' <=> m.worker = w /\ Known(w)'
        BY <1>1, <2>1, <3>1, <3>2
      <3> QED
        BY <1>7, <3>3 DEF IsLifecycle
    <2>4. Counting(w) \subseteq 1..n /\ Counting(w)' \subseteq 1..(n + 1)
      BY <1>1 DEF Counting
    <2> QED
      BY <2>2, <2>3, <2>4
  <1>10. NewestInv(w)'
    <2> DEFINE old == told[w].newest
               new == told'[w].newest
    <2>1. /\ old \in Nat /\ workers[w].last_seen \in Nat
          /\ \A i \in 1..n : queue[i].timestamp \in Nat
      <3>1. \A i \in 1..n : queue[i] \in Messages
        BY <1>0, <1>1, Appended DEF n
      <3>2. workers[w].last_seen \in Nat
        BY DEF TypeInv, TableInv, WorkerRow
      <3> QED
        BY <1>2, <3>1, <3>2, MessageTypes
    <2>2. n + 1 \in Counting(w)' <=> m.worker = w
                                     /\ (m.kind \in Lifecycle \/ told[w].lifecycle # "none")
      BY <1>9 DEF PartsInv, RowInv
    <2>3. new = IF n + 1 \in Counting(w)' /\ m.timestamp > old THEN m.timestamp ELSE old
      <3>1. CASE m.worker = w
        <4>1. told'[w] = Told(m)
          BY <1>3, <3>1
        <4> QED
          BY <2>2, <3>1, <4>1 DEF Told
      <3>2. CASE m.worker # w
        BY <1>3, <2>2, <3>2
      <3> QED
        BY <3>1, <3>2
    <2> HIDE DEF old, new
    <2>4. /\ new \in Nat /\ old <= new
          /\ n + 1 \in Counting(w)' => m.timestamp <= new
          /\ new = old \/ (n + 1 \in Counting(w)' /\ new = m.timestamp)
      BY <1>2, <2>1, <2>3
    <2>5. workers[w].last_seen <= new
      <3>1. workers[w].last_seen <= old
        BY DEF PartsInv, NewestInv, old
      <3> QED
        BY <2>1, <2>4, <3>1
    <2>6. ASSUME NEW i \in Counting(w)'
          PROVE  queue'[i].timestamp <= new
      <3>1. CASE i = n + 1
        BY <1>1, <2>4, <2>6, <3>1
      <3>2. CASE i \in 1..n
        <4>1. queue[i].timestamp <= old /\ queue'[i] = queue[i]
          BY <1>1, <1>9, <2>6, <3>2 DEF PartsInv, NewestInv, old
        <4> QED
          BY <2>1, <2>4, <3>2, <4>1
      <3> QED
        BY <1>1, <1>9, <3>1, <3>2
    <2>7. \/ workers[w].last_seen = new
          \/ \E i \in Counting(w)' : queue'[i].timestamp = new
      <3>1. CASE new = old
        <4>1. \/ workers[w].last_seen = old
              \/ \E i \in Counting(w) : queue[i].timestamp = old
          BY DEF PartsInv, NewestInv, old
        <4> QED
          BY <1>1, <1>9, <3>1, <4>1
      <3>2. CASE n + 1 \in Counting(w)' /\ new = m.timestamp
        BY <1>1, <3>2
      <3> QED
        BY <2>4, <3>1, <3>2
    <2>8. handling' # Nothing /\ handling'[1].worker = w /\ HasRow(w)'
          => handling'[1].timestamp <= workers'[w].last_seen
      BY <1>0 DEF PartsInv, NewestInv, HasRow
    <2> QED
      BY <1>0, <1>1, <2>5, <2>6, <2>7, <2>8 DEF NewestInv, new
  <1> QED
    BY <1>6, <1>8, <1>10 DEF PartsInv

\* The consumer takes the first message and writes the row of its worker.
LEMMA StepHandle ==
    ASSUME TypeInv, NEW w \in Workers, PartsInv(w), HandleStatus
    PROVE  PartsInv(w)'
  <1> PICK m \in Messages : m = Head(queue)
    BY Removed DEF TypeInv, QueueInv, HandleStatus
  <1> DEFINE n == Len(queue)
  <1>0. /\ queue \in Seq(Messages) /\ queue # <<>> /\ queue' = Tail(queue) /\ WritesRow(m)
        /\ handling = Nothing
        /\ \E step \in AfterRow(m) : handling' = <<m, step>>
        /\ UNCHANGED <<process, held, told, worker_topics>>
        /\ m.worker \in Workers /\ m.timestamp \in Nat
    BY MessageTypes DEF TypeInv, QueueInv, HandleStatus, workerVars
  <1>1. /\ n \in Nat /\ n > 0 /\ Queued = 1..n /\ Queued' = 1..(n - 1) /\ queue[1] = m
        /\ \A i \in 1..(n - 1) : queue'[i] = queue[i + 1] /\ i + 1 \in 1..n
        /\ \A i \in 1..n : i = 1 \/ (i - 1 \in 1..(n - 1) /\ queue'[i - 1] = queue[i])
    <2>1. n \in Nat /\ n > 0 /\ Len(queue') = n - 1 /\ queue[1] = m
      BY <1>0, Removed
    <2>2. \A i \in 1..(n - 1) : queue'[i] = queue[i + 1]
      BY <1>0, <2>1, Removed
    <2> HIDE DEF n
    <2>3. \A i \in 1..(n - 1) : i + 1 \in 1..n
      BY <2>1
    <2>4. \A i \in 1..n : i = 1 \/ (i - 1 \in 1..(n - 1) /\ (i - 1) + 1 = i)
      BY <2>1
    <2>5. \A i \in 1..n : i = 1 \/ (i - 1 \in 1..(n - 1) /\ queue'[i - 1] = queue[i])
      BY <2>2, <2>4
    <2> QED
      BY <2>1, <2>2, <2>3, <2>5 DEF Queued, n
  <1> HIDE DEF n
  <1>2. /\ \A v \in Workers : HasRow(v) => HasRow(v)'
        /\ \A v \in Workers : v # m.worker => workers'[v] = workers[v]
        /\ m.kind \in Lifecycle => HasRow(m.worker)'
        /\ HasRow(m.worker)' => HasRow(m.worker) \/ m.kind \in Lifecycle
        /\ HasRow(m.worker)' \/ workers'[m.worker] = workers[m.worker]
        /\ m.kind \in Lifecycle \/ HasRow(m.worker) => m.timestamp <= workers'[m.worker].last_seen
        /\ workers'[m.worker].last_seen \in {workers[m.worker].last_seen, m.timestamp}
        /\ workers[m.worker].last_seen <= workers'[m.worker].last_seen
    BY <1>0, RowEffect DEF TypeInv
  <1>3. /\ handling' # Nothing /\ handling'[1] = m
        /\ handling'[2] = "topics" <=> m.kind \in Lifecycle
    BY <1>0, PairIsSomething, NextStep
  <1>4. HasRow(w)' <=> HasRow(w) \/ IsLifecycle(m, w)
    BY <1>2 DEF HasRow, IsLifecycle
  <1>5. HasRow(w)' /\ m.worker = w => m.timestamp <= workers'[w].last_seen
    BY <1>2
  <1>6. TopicsInv(w)'
    <2>1. HandlesTopics' <=> m.kind \in Lifecycle
      BY <1>3 DEF HandlesTopics
    <2>2. TopicsToBe(w)' <=> IF IsLifecycle(m, w) THEN m.kind = "online" ELSE w \in worker_topics
      BY <1>0, <1>3, <2>1 DEF TopicsToBe, IsLifecycle
    <2>3. TopicsToBe(w) <=> w \in worker_topics
      BY <1>0 DEF TopicsToBe, HandlesTopics
    <2>4. ASSUME NEW i \in 1..(n - 1), IsLifecycle(queue'[i], w),
                 \A j \in 1..(n - 1) : j > i => ~IsLifecycle(queue'[j], w)
          PROVE  queue'[i].kind = told[w].lifecycle
      <3>1. i + 1 \in 1..n /\ queue[i + 1] = queue'[i]
        BY <1>1
      <3>2. ASSUME NEW j \in 1..n, j > i + 1 PROVE ~IsLifecycle(queue[j], w)
        <4>1. j - 1 \in 1..(n - 1) /\ j - 1 > i /\ queue'[j - 1] = queue[j]
          BY <1>1, <3>2
        <4> QED
          BY <2>4, <4>1
      <3> QED
        BY <1>1, <2>4, <3>1, <3>2 DEF PartsInv, TopicsInv
    <2>5. ASSUME \A i \in 1..(n - 1) : ~IsLifecycle(queue'[i], w)
          PROVE  TopicsToBe(w)' <=> told[w].lifecycle = "online"
      <3>1. \A j \in 1..n : j > 1 => ~IsLifecycle(queue[j], w)
        BY <1>1, <2>5
      <3>2. CASE IsLifecycle(m, w)
        <4>1. m.kind = told[w].lifecycle
          BY <1>1, <3>1, <3>2 DEF PartsInv, TopicsInv
        <4> QED
          BY <2>2, <3>2, <4>1
      <3>3. CASE ~IsLifecycle(m, w)
        <4>1. \A j \in 1..n : ~IsLifecycle(queue[j], w)
          BY <1>1, <3>1, <3>3
        <4> QED
          BY <1>1, <2>2, <2>3, <3>3, <4>1 DEF PartsInv, TopicsInv
      <3> QED
        BY <3>2, <3>3
    <2>6. (handling # Nothing /\ IsLifecycle(handling[1], w)
           => (TopicsToBe(w) <=> handling[1].kind = "online"))'
      BY <1>3, <2>2 DEF IsLifecycle
    <2>7. \A i \in 1..(n - 1) : (IsLifecycle(queue[i], w))' <=> IsLifecycle(queue'[i], w)
      BY DEF IsLifecycle
    <2> QED
      BY <1>0, <1>1, <2>4, <2>5, <2>6, <2>7 DEF TopicsInv
  <1>7. Known(w)' <=> Known(w)
    <2>1. Known(w)' <=> HasRow(w)' \/ \E i \in 1..(n - 1) : IsLifecycle(queue'[i], w)
      BY <1>1 DEF Known, IsLifecycle
    <2>2. Known(w) <=> HasRow(w) \/ \E i \in 1..n : IsLifecycle(queue[i], w)
      BY <1>1 DEF Known
    <2>3. 1 \in 1..n
      BY <1>1
    <2> QED
      BY <1>1, <1>4, <2>1, <2>2, <2>3
  <1>8. RowInv(w)'
    <2>1. (handling # Nothing /\ IsLifecycle(handling[1], w) => HasRow(w))'
      BY <1>3, <1>4 DEF IsLifecycle
    <2> QED
      BY <1>0, <1>7, <2>1 DEF PartsInv, RowInv
  <1>9. \A i \in 1..(n - 1) : i \in Counting(w)' <=> i + 1 \in Counting(w)
    <2> SUFFICES ASSUME NEW i \in 1..(n - 1)
                 PROVE  i \in Counting(w)' <=> i + 1 \in Counting(w)
      OBVIOUS
    <2>1. i \in Counting(w)' <=> /\ queue'[i].worker = w
                                 /\ \/ HasRow(w)'
                                    \/ \E j \in 1..(n - 1) : j <= i /\ IsLifecycle(queue'[j], w)
      BY <1>1 DEF Counting, IsLifecycle
    <2>2. i + 1 \in Counting(w) <=> /\ queue[i + 1].worker = w
                                    /\ \/ HasRow(w)
                                       \/ \E j \in 1..n : j <= i + 1 /\ IsLifecycle(queue[j], w)
      BY <1>1 DEF Counting
    <2>3. ASSUME NEW j \in 1..(n - 1), j <= i, IsLifecycle(queue'[j], w)
          PROVE  \E k \in 1..n : k <= i + 1 /\ IsLifecycle(queue[k], w)
      <3>1. j + 1 \in 1..n /\ j + 1 <= i + 1 /\ queue[j + 1] = queue'[j]
        BY <1>1, <2>3
      <3> QED
        BY <2>3, <3>1
    <2>4. ASSUME NEW j \in 1..n, j <= i + 1, IsLifecycle(queue[j], w)
          PROVE  \/ IsLifecycle(m, w)
                 \/ \E k \in 1..(n - 1) : k <= i /\ IsLifecycle(queue'[k], w)
      <3>1. CASE j = 1
        BY <1>1, <2>4, <3>1
      <3>2. CASE j # 1
        <4>1. j - 1 \in 1..(n - 1) /\ j - 1 <= i /\ queue'[j - 1] = queue[j]
          BY <1>1, <2>4, <3>2
        <4> QED
          BY <2>4, <4>1
      <3> QED
        BY <3>1, <3>2
    <2>5. 1 \in 1..n /\ 1 <= i + 1
      BY <1>1
    <2> QED
      BY <1>1, <1>4, <2>1, <2>2, <2>3, <2>4, <2>5
  <1>10. NewestInv(w)'
    <2> DEFINE newest == told[w].newest
               before == workers[w].last_seen
               after  == workers'[w].last_seen
    <2>1. newest \in Nat /\ before \in Nat /\ after \in Nat
      <3>1. workers' \in [Workers -> WorkerRow]
        BY <1>0, RowEffect DEF TypeInv
      <3> QED
        BY <3>1 DEF TypeInv, ProcessInv, TableInv, WorkerRow
    <2>2. after = before \/ (m.worker = w /\ after = m.timestamp /\ HasRow(w)')
      <3>1. m.worker # w => after = before
        BY <1>2
      <3>2. m.worker = w => after \in {before, m.timestamp} /\ (HasRow(w)' \/ after = before)
        BY <1>2
      <3> QED
        BY <3>1, <3>2
    <2>3. before <= after
      <3>1. m.worker = w => before <= after
        BY <1>2
      <3>2. m.worker # w => before = after
        BY <1>2
      <3> QED
        BY <2>1, <3>1, <3>2
    <2>4. 1 \in 1..n /\ (m.worker = w /\ HasRow(w)' => 1 \in Counting(w))
      <3>1. 1 \in 1..n
        BY <1>1
      <3> QED
        BY <1>1, <1>4, <3>1 DEF Counting
    <2>5. m.worker = w /\ HasRow(w)' => m.timestamp <= newest
      BY <1>1, <2>4 DEF PartsInv, NewestInv
    <2>6. before <= newest
      BY DEF PartsInv, NewestInv
    <2>7. \/ before = newest
          \/ \E i \in Counting(w) : queue[i].timestamp = newest
      BY DEF PartsInv, NewestInv
    <2>14. Counting(w) \subseteq 1..n /\ Counting(w)' \subseteq 1..(n - 1)
      BY <1>1 DEF Counting
    <2>8. \A i \in Counting(w)' : queue'[i].timestamp <= newest
      BY <1>1, <1>9, <2>14 DEF PartsInv, NewestInv
    <2>9. 1 \in Counting(w) => m.worker = w /\ HasRow(w)'
      <3>1. \A j \in 1..n : j <= 1 => j = 1
        BY <1>1
      <3> QED
        BY <1>1, <1>4, <3>1 DEF Counting
    <2>10. m.worker = w /\ HasRow(w)' => m.timestamp <= after
      BY <1>5
    <2> HIDE DEF newest, before, after
    <2>11. after <= newest
      BY <2>1, <2>2, <2>5, <2>6
    <2>12. \/ after = newest
           \/ \E i \in Counting(w)' : queue'[i].timestamp = newest
      <3>1. CASE before = newest
        BY <2>1, <2>3, <2>11, <3>1
      <3>2. ASSUME NEW i \in Counting(w), queue[i].timestamp = newest
            PROVE  \/ after = newest
                   \/ \E k \in Counting(w)' : queue'[k].timestamp = newest
        <4>1. CASE i = 1
          <5>1. newest <= after
            BY <1>1, <2>9, <2>10, <3>2, <4>1
          <5> QED
            BY <2>1, <2>11, <5>1
        <4>2. CASE i # 1
          <5>1. i - 1 \in 1..(n - 1) /\ queue'[i - 1] = queue[i] /\ (i - 1) + 1 = i
            BY <1>1, <2>14, <3>2, <4>2
          <5>2. i - 1 \in Counting(w)'
            BY <1>9, <3>2, <5>1
          <5> QED
            BY <3>2, <5>1, <5>2
        <4> QED
          BY <4>1, <4>2
      <3> QED
        BY <2>7, <3>1, <3>2
    <2>13. (handling # Nothing /\ handling[1].worker = w /\ HasRow(w)
            => handling[1].timestamp <= workers[w].last_seen)'
      BY <1>3, <1>5
    <2> QED
      BY <1>0, <1>1, <2>8, <2>11, <2>12, <2>13 DEF NewestInv, newest, before, after
  <1> QED
    BY <1>6, <1>8, <1>10 DEF PartsInv

\* The second statement is executed, or the message is acknowledged.
LEMMA StepFinish ==
    ASSUME TypeInv, NEW w \in Workers, PartsInv(w), HandleTopics \/ HandleSubJob \/ Ack
    PROVE  PartsInv(w)'
  <1>0. /\ UNCHANGED <<told, queue, workers>>
        /\ handling # Nothing /\ handling[1].worker \in Workers
    BY MessageTypes DEF TypeInv, QueueInv, HandleTopics, HandlesTopics, HandleSubJob,
                        HandlesSubJob, Ack, workerVars, tables
  <1>1. \/ handling' = Nothing
        \/ handling' # Nothing /\ handling'[1] = handling[1] /\ handling'[2] = "ack"
    BY PairIsSomething DEF HandleTopics, HandleSubJob, Ack
  <1>2. ~HandlesTopics' /\ (TopicsToBe(w)' <=> w \in worker_topics')
    BY <1>1 DEF HandlesTopics, TopicsToBe
  <1>3. w \in worker_topics' <=> TopicsToBe(w)
    <2>1. CASE HandleSubJob \/ Ack
      BY <2>1 DEF HandleSubJob, HandlesSubJob, Ack, TopicsToBe, HandlesTopics, tables
    <2>2. CASE HandleTopics
      BY <2>2 DEF HandleTopics, SetsTopics, TopicsToBe
    <2> QED
      BY <2>1, <2>2
  <1>4. TopicsInv(w)'
    BY <1>0, <1>1, <1>2, <1>3 DEF PartsInv, TopicsInv, IsLifecycle, Queued
  <1>5. Known(w)' <=> Known(w)
    BY <1>0 DEF Known, HasRow, IsLifecycle, Queued
  <1>6. RowInv(w)'
    BY <1>0, <1>1, <1>5 DEF PartsInv, RowInv, HasRow, IsLifecycle
  <1>7. Counting(w)' = Counting(w)
    BY <1>0 DEF Queued, Counting, HasRow, IsLifecycle
  <1>8. NewestInv(w)'
    BY <1>0, <1>1, <1>7 DEF PartsInv, NewestInv, HasRow
  <1> QED
    BY <1>4, <1>6, <1>8 DEF PartsInv

\* The message the consumer had is delivered again, before the others.
LEMMA StepRedelivered ==
    ASSUME TypeInv, NEW w \in Workers, PartsInv(w), PutBack, unacked = <<>>,
           UNCHANGED <<told, workers, worker_topics>>
    PROVE  PartsInv(w)'
  <1>0. handling' = Nothing /\ queue \in Seq(Messages) /\ queue' = InHand \o queue
    BY InHandType DEF TypeInv, QueueInv, PutBack
  <1>1. ~HandlesTopics' /\ (TopicsToBe(w)' <=> w \in worker_topics)
    BY <1>0 DEF HandlesTopics, TopicsToBe
  <1>2. CASE handling = Nothing
    <2>1. queue' = queue
      BY <1>0, <1>2 DEF InHand
    <2> QED
      BY <1>0, <1>2, <2>1, StepElsewhere DEF HasRow
  <1>3. CASE handling # Nothing
    <2> PICK m \in Messages : m = handling[1]
      BY <1>3 DEF TypeInv, QueueInv
    <2> DEFINE n == Len(queue)
    <2>1. queue' = <<m>> \o queue
      BY <1>0, <1>3 DEF InHand
    <2>2. /\ n \in Nat /\ Queued = 1..n /\ Queued' = 1..(n + 1) /\ queue'[1] = m
          /\ \A i \in 1..n : queue'[i + 1] = queue[i] /\ i + 1 \in 1..(n + 1)
          /\ \A i \in 1..(n + 1) : i = 1 \/ (i - 1 \in 1..n /\ queue'[i] = queue[i - 1])
      <3>1. n \in Nat /\ Len(queue') = n + 1 /\ queue'[1] = m
            /\ \A i \in 1..n : queue'[i + 1] = queue[i]
        BY <1>0, <2>1, Prepended
      <3> HIDE DEF n
      <3>2. \A i \in 1..n : i + 1 \in 1..(n + 1)
        BY <3>1
      <3>3. \A i \in 1..(n + 1) : i = 1 \/ (i - 1 \in 1..n /\ (i - 1) + 1 = i)
        BY <3>1
      <3>4. \A i \in 1..(n + 1) : i = 1 \/ (i - 1 \in 1..n /\ queue'[i] = queue[i - 1])
        BY <3>1, <3>3
      <3> QED
        BY <3>1, <3>2, <3>4 DEF Queued, n
    <2> HIDE DEF n
    <2>3. /\ m.worker \in Workers /\ m.timestamp \in Nat
          /\ m.worker = w /\ HasRow(w) => m.timestamp <= workers[w].last_seen
          /\ IsLifecycle(m, w) => HasRow(w)
      BY <1>3, MessageTypes DEF PartsInv, RowInv, NewestInv
    <2>4. IsLifecycle(m, w) => (TopicsToBe(w) <=> m.kind = "online")
      BY <1>3 DEF PartsInv, TopicsInv
    <2>5. ~IsLifecycle(m, w) => (TopicsToBe(w) <=> w \in worker_topics)
      BY <1>3 DEF TopicsToBe, HandlesTopics, IsLifecycle, TypeInv, QueueInv
    <2>6. TopicsInv(w)'
      <3>1. ASSUME NEW i \in 1..(n + 1), IsLifecycle(queue'[i], w),
                   \A j \in 1..(n + 1) : j > i => ~IsLifecycle(queue'[j], w)
            PROVE  queue'[i].kind = told[w].lifecycle
        <4>1. CASE i = 1
          <5>1. \A j \in 1..n : ~IsLifecycle(queue[j], w)
            <6> SUFFICES ASSUME NEW j \in 1..n PROVE ~IsLifecycle(queue[j], w)
              OBVIOUS
            <6>1. j + 1 \in 1..(n + 1) /\ j + 1 > i /\ queue'[j + 1] = queue[j]
              BY <2>2, <4>1
            <6> QED
              BY <3>1, <6>1
          <5>2. TopicsToBe(w) <=> told[w].lifecycle = "online"
            BY <2>2, <5>1 DEF PartsInv, TopicsInv
          <5>3. m.kind \in Lifecycle /\ told[w].lifecycle \in Lifecycle
            <6>1. IsLifecycle(m, w) /\ told[w].lifecycle # "none"
              BY <2>2, <2>3, <3>1, <4>1 DEF PartsInv, RowInv, Known
            <6> QED
              BY <6>1 DEF IsLifecycle, TypeInv, ProcessInv
          <5> QED
            BY <2>2, <2>4, <3>1, <4>1, <5>2, <5>3 DEF Lifecycle
        <4>2. CASE i # 1
          <5>1. i - 1 \in 1..n /\ queue'[i] = queue[i - 1]
            BY <2>2, <4>2
          <5>2. ASSUME NEW j \in 1..n, j > i - 1 PROVE ~IsLifecycle(queue[j], w)
            <6>1. j + 1 \in 1..(n + 1) /\ j + 1 > i /\ queue'[j + 1] = queue[j]
              BY <2>2, <5>2
            <6> QED
              BY <3>1, <6>1
          <5> QED
            BY <2>2, <3>1, <5>1, <5>2 DEF PartsInv, TopicsInv
        <4> QED
          BY <4>1, <4>2
      <3>2. ASSUME \A i \in 1..(n + 1) : ~IsLifecycle(queue'[i], w)
            PROVE  w \in worker_topics <=> told[w].lifecycle = "online"
        <4>1. ~IsLifecycle(m, w)
          <5>1. 1 \in 1..(n + 1)
            BY <2>2
          <5> QED
            BY <2>2, <3>2, <5>1
        <4>2. \A j \in 1..n : ~IsLifecycle(queue[j], w)
          BY <2>2, <3>2
        <4> QED
          BY <2>2, <2>5, <4>1, <4>2 DEF PartsInv, TopicsInv
      <3>3. \A i \in 1..(n + 1) : (IsLifecycle(queue[i], w))' <=> IsLifecycle(queue'[i], w)
        BY DEF IsLifecycle
      <3> QED
        BY <1>0, <1>1, <2>2, <3>1, <3>2, <3>3 DEF TopicsInv
    <2>7. RowInv(w)'
      <3>1. HasRow(w)' <=> HasRow(w)
        BY DEF HasRow
      <3>2. Known(w)' <=> HasRow(w) \/ \E i \in 1..(n + 1) : IsLifecycle(queue'[i], w)
        BY <2>2, <3>1 DEF Known, IsLifecycle
      <3>3. Known(w)' <=> Known(w)
        BY <2>2, <2>3, <3>2 DEF Known
      <3> QED
        BY <1>0, <3>3 DEF PartsInv, RowInv
    <2>8. /\ Counting(w) \subseteq 1..n /\ Counting(w)' \subseteq 1..(n + 1)
          /\ \A i \in 1..n : i + 1 \in Counting(w)' <=> i \in Counting(w)
          /\ 1 \in Counting(w)' => m.worker = w /\ HasRow(w)
      <3>1. \A i \in 1..(n + 1) :
                i \in Counting(w)' <=> /\ queue'[i].worker = w
                                       /\ \/ HasRow(w)
                                          \/ \E j \in 1..(n + 1) :
                                                j <= i /\ IsLifecycle(queue'[j], w)
        BY <2>2 DEF Counting, HasRow, IsLifecycle
      <3>2. ASSUME NEW i \in 1..n
            PROVE  i + 1 \in Counting(w)' <=> i \in Counting(w)
        <4>1. ASSUME NEW j \in 1..(n + 1), j <= i + 1, IsLifecycle(queue'[j], w), j # 1
              PROVE  \E k \in 1..n : k <= i /\ IsLifecycle(queue[k], w)
          <5>1. j - 1 \in 1..n /\ j - 1 <= i /\ queue'[j] = queue[j - 1]
            BY <2>2, <4>1
          <5> QED
            BY <4>1, <5>1
        <4>2. ASSUME NEW j \in 1..n, j <= i, IsLifecycle(queue[j], w)
              PROVE  \E k \in 1..(n + 1) : k <= i + 1 /\ IsLifecycle(queue'[k], w)
          <5>1. j + 1 \in 1..(n + 1) /\ j + 1 <= i + 1 /\ queue'[j + 1] = queue[j]
            BY <2>2, <4>2
          <5> QED
            BY <4>2, <5>1
        <4>3. i + 1 \in 1..(n + 1) /\ queue'[i + 1] = queue[i]
          BY <2>2
        <4> QED
          BY <2>2, <2>3, <3>1, <4>1, <4>2, <4>3 DEF Counting
      <3>3. 1 \in Counting(w)' => m.worker = w /\ HasRow(w)
        <4>1. 1 \in 1..(n + 1) /\ \A j \in 1..(n + 1) : j <= 1 => j = 1
          BY <2>2
        <4> QED
          BY <2>2, <2>3, <3>1, <4>1
      <3>4. Counting(w) \subseteq 1..n /\ Counting(w)' \subseteq 1..(n + 1)
        BY <2>2 DEF Counting
      <3> QED
        BY <3>2, <3>3, <3>4
    <2>9. NewestInv(w)'
      <3>1. told[w].newest \in Nat /\ workers[w].last_seen \in Nat
        BY DEF TypeInv, ProcessInv, TableInv, WorkerRow
      <3>2. workers[w].last_seen <= told[w].newest
        BY DEF PartsInv, NewestInv
      <3>3. ASSUME NEW i \in Counting(w)'
            PROVE  queue'[i].timestamp <= told[w].newest
        <4>1. CASE i = 1
          BY <2>2, <2>3, <2>8, <3>1, <3>2, <3>3, <4>1
        <4>2. CASE i # 1
          <5>1. i - 1 \in 1..n /\ (i - 1) + 1 = i /\ queue'[i] = queue[i - 1]
            BY <2>2, <2>8, <3>3, <4>2
          <5>2. i - 1 \in Counting(w)
            BY <2>8, <3>3, <5>1
          <5> QED
            BY <2>2, <5>1, <5>2 DEF PartsInv, NewestInv
        <4> QED
          BY <4>1, <4>2
      <3>4. \/ workers[w].last_seen = told[w].newest
            \/ \E i \in Counting(w)' : queue'[i].timestamp = told[w].newest
        <4>1. \/ workers[w].last_seen = told[w].newest
              \/ \E i \in Counting(w) : queue[i].timestamp = told[w].newest
          BY DEF PartsInv, NewestInv
        <4> QED
          BY <2>2, <2>8, <4>1
      <3> QED
        BY <1>0, <2>2, <3>2, <3>3, <3>4 DEF NewestInv
    <2> QED
      BY <2>6, <2>7, <2>9 DEF PartsInv
  <1> QED
    BY <1>2, <1>3

\* The steps that leave the messages the broker and the consumer have alone.
LEMMA ElsewhereEffect ==
    ASSUME TypeInv, NEW w \in Workers,
           \/ \E v \in Workers : StartWorker(v) \/ SendsStatus(v) \/ StopWorker(v)
                                 \/ ExitWorker(v) \/ KillWorker(v)
           \/ \E m \in held : PublishLost(m) \/ PublishFails(m)
           \/ CheckLists \/ \E v \in Workers : CheckSetsOffline(v) \/ MinutePasses(v)
           \/ UNCHANGED vars
    PROVE  /\ UNCHANGED <<queue, handling, unacked, late, worker_topics, told>>
           /\ HasRow(w)' <=> HasRow(w)
           /\ workers'[w].last_seen = workers[w].last_seen
  <1>1. CASE \/ \E v \in Workers : StartWorker(v) \/ SendsStatus(v) \/ StopWorker(v)
                                   \/ ExitWorker(v) \/ KillWorker(v)
             \/ \E m \in held : PublishLost(m) \/ PublishFails(m)
             \/ CheckLists \/ (\E v \in Workers : MinutePasses(v)) \/ UNCHANGED vars
    <2>1. UNCHANGED <<queue, handling, unacked, late, worker_topics, told, workers>>
      BY <1>1 DEF StartWorker, SendsStatus, StopWorker, Compose, ExitWorker, KillWorker, Ends,
                  PublishLost, PublishFails, CheckLists, MinutePasses, workerVars,
                  consumerVars, tables, vars
    <2> QED
      BY <2>1 DEF HasRow
  <1>2. ASSUME NEW v \in Workers, CheckSetsOffline(v)
        PROVE  /\ UNCHANGED <<queue, handling, unacked, late, worker_topics, told>>
               /\ HasRow(w)' <=> HasRow(w)
               /\ workers'[w].last_seen = workers[w].last_seen
    <2>1. /\ workers' = [workers EXCEPT ![v] = [workers[v] EXCEPT !.status = "offline"]]
          /\ UNCHANGED <<queue, handling, unacked, late, worker_topics, told>>
      BY <1>2 DEF CheckSetsOffline, workerVars, consumerVars
    <2>2. workers \in [Workers -> WorkerRow] /\ HasRow(v)
      BY <1>2 DEF CheckSetsOffline, TypeInv, TableInv
    <2> QED
      BY <2>1, <2>2 DEF HasRow, WorkerRow
  <1> QED
    BY <1>1, <1>2

LEMMA StepOrder == IInv /\ [Next]_vars => OrderInv'
  <1> SUFFICES ASSUME IInv, [Next]_vars, failures' = 0
               PROVE  unacked' = <<>> /\ late' = {} /\ \A w \in Workers : PartsInv(w)'
    BY DEF OrderInv, PartsInv
  <1>0. TypeInv /\ failures \in Nat
    BY DEF IInv, TypeInv, CountInv
  <1>1. ASSUME failures' = failures + 1
        PROVE  FALSE
    BY <1>0, <1>1
  <1>2. ~StatusFails /\ ~SecondFails /\ ~StatementLeft /\ \A w \in Workers : ~CheckFails(w)
    BY <1>1 DEF StatusFails, SecondFails, StatementLeft, CheckFails
  <1>3. failures = 0
    BY NextCases, <1>2
       DEF StartWorker, SendsStatus, StopWorker, Compose, ExitWorker, KillWorker, Ends,
           PublishStatus, PublishLost, PublishFails, HandleStatus, HandleTopics, HandleSubJob,
           Ack, ChannelLost, LateStatus, LateTopics, LateEnds, CheckLists, CheckSetsOffline,
           MinutePasses, SchedulerCrashes, bounds, vars
  <1>4. unacked = <<>> /\ late = {} /\ \A w \in Workers : PartsInv(w)
    BY <1>3 DEF IInv, OrderInv, PartsInv
  <1>5. ASSUME NEW m \in held, PublishStatus(m)
        PROVE  unacked' = <<>> /\ late' = {} /\ \A w \in Workers : PartsInv(w)'
    BY <1>0, <1>4, <1>5, StepPublish DEF PublishStatus, consumerVars
  <1>6. CASE HandleStatus
    BY <1>0, <1>4, <1>6, StepHandle DEF HandleStatus
  <1>7. CASE HandleTopics \/ HandleSubJob \/ Ack
    BY <1>0, <1>4, <1>7, StepFinish DEF HandleTopics, HandleSubJob, Ack
  <1>8. CASE SchedulerCrashes \/ ChannelLost
    <2>1. /\ PutBack /\ late' = {} /\ UNCHANGED <<told, workers, worker_topics>>
      BY <1>4, <1>8 DEF SchedulerCrashes, ChannelLost, workerVars, tables
    <2>2. unacked' = <<>>
      BY <2>1 DEF PutBack
    <2> QED
      BY <1>0, <1>4, <2>1, <2>2, StepRedelivered
  <1>9. CASE \/ \E v \in Workers : StartWorker(v) \/ SendsStatus(v) \/ StopWorker(v)
                                   \/ ExitWorker(v) \/ KillWorker(v)
             \/ \E m \in held : PublishLost(m) \/ PublishFails(m)
             \/ CheckLists \/ \E v \in Workers : CheckSetsOffline(v) \/ MinutePasses(v)
             \/ UNCHANGED vars
    <2>1. \A w \in Workers :
              /\ UNCHANGED <<queue, handling, unacked, late, worker_topics, told>>
              /\ HasRow(w)' <=> HasRow(w)
              /\ workers'[w].last_seen = workers[w].last_seen
      BY <1>0, <1>9, ElsewhereEffect
    <2>2. UNCHANGED <<unacked, late>>
      BY <1>9 DEF StartWorker, SendsStatus, StopWorker, Compose, ExitWorker, KillWorker, Ends,
                  PublishLost, PublishFails, CheckLists, CheckSetsOffline, MinutePasses,
                  consumerVars, vars
    <2> QED
      BY <1>0, <1>4, <2>1, <2>2, StepElsewhere
  <1> QED
    BY NextCases, <1>2, <1>4, <1>5, <1>6, <1>7, <1>8, <1>9

LEMMA InitOrder == Init => OrderInv
  <1> SUFFICES ASSUME Init, NEW w \in Workers PROVE TopicsInv(w) /\ RowInv(w) /\ NewestInv(w)
    BY DEF Init, OrderInv
  <1>1. Queued = {} /\ handling = Nothing /\ ~HasRow(w) /\ told[w].lifecycle = "none"
    BY DEF Init, Queued, HasRow, NoRow
  <1>2. TopicsInv(w)
    BY <1>1 DEF Init, TopicsInv, TopicsToBe, HandlesTopics
  <1>3. RowInv(w)
    BY <1>1 DEF RowInv, Known
  <1>4. NewestInv(w)
    BY <1>1 DEF Init, NewestInv, Counting, NoRow
  <1> QED
    BY <1>2, <1>3, <1>4

----------------------------------------------------------------------------
(* The theorems *)

LEMMA Inductive == Spec => []IInv
  <1>1. Init => IInv
    BY InitType, InitOrder DEF IInv
  <1>2. IInv /\ [Next]_vars => IInv'
    BY StepTypeInv, StepOrder DEF IInv
  <1> QED
    BY <1>1, <1>2, PTL DEF Spec

\* Topics are only stored for workers with a row, whatever fails.
THEOREM TypeCorrect == Spec => []TypeOK
  <1>1. IInv => TypeOK
    <2> SUFFICES ASSUME TypeInv PROVE TypeOK
      BY DEF IInv
    <2>1. ToSet(queue) \subseteq Messages /\ ToSet(unacked) \subseteq Messages
      BY DEF TypeInv, QueueInv, ToSet
    <2>2. InConsumer \subseteq Messages /\ (handling # Nothing => handling[2] \in Steps)
      BY DEF TypeInv, QueueInv, InConsumer, Steps
    <2>3. late \subseteq Messages \X Steps /\ worker_topics \subseteq {w \in Workers : HasRow(w)}
      BY DEF TypeInv, QueueInv, TableInv
    <2> QED
      BY <2>1, <2>2, <2>3 DEF TypeOK, Afloat, TypeInv, ProcessInv, TableInv, CountInv
  <1> QED
    BY Inductive, <1>1, PTL

LEMMA SettledMeans ==
    ASSUME IInv, NEW w \in Workers, Settled(w)
    PROVE  /\ \A i \in Queued : queue[i].worker # w
           /\ handling # Nothing => handling[1].worker # w
  BY DEF IInv, TypeInv, QueueInv, Settled, Afloat, ToSet, InConsumer, Queued

\* Once the messages of a worker are processed, it has its topics iff the last
\* lifecycle message it sent says online, unless a statement failed.
THEOREM TopicsAreRight == Spec => []FollowsUnlessFailed
  <1>1. IInv => FollowsUnlessFailed
    <2> SUFFICES ASSUME IInv, failures = 0, NEW w \in Workers, Settled(w)
                 PROVE  w \in worker_topics <=> told[w].lifecycle = "online"
      BY DEF FollowsUnlessFailed, TopicsFollowLifecycle
    <2>1. TopicsInv(w)
      BY DEF IInv, OrderInv
    <2>2. \A i \in Queued : ~IsLifecycle(queue[i], w)
      BY SettledMeans DEF IsLifecycle
    <2>3. TopicsToBe(w) <=> w \in worker_topics
      BY SettledMeans DEF TopicsToBe, HandlesTopics
    <2> QED
      BY <2>1, <2>2, <2>3 DEF TopicsInv
  <1> QED
    BY Inductive, <1>1, PTL

\* And last_seen is the newest timestamp it sent.
THEOREM NewestIsKept == Spec => []NewestUnlessFailed
  <1>1. IInv => NewestUnlessFailed
    <2> SUFFICES ASSUME IInv, failures = 0, NEW w \in Workers, Settled(w)
                 PROVE  workers[w].last_seen = told[w].newest
      BY DEF NewestUnlessFailed, LastSeenIsNewest
    <2>1. NewestInv(w)
      BY DEF IInv, OrderInv
    <2> QED
      BY <2>1, SettledMeans DEF NewestInv, Counting
  <1> QED
    BY Inductive, <1>1, PTL

=============================================================================
