--------------------- MODULE WorkerRegistry_refinement ---------------------
(***************************************************************************)
(* WorkerRegistry implements StatusBoard: every step of a worker, of the   *)
(* consumers and of the online check, a failed statement, a lost channel   *)
(* and a crash included, maps to a step of the board or to a stutter, for  *)
(* every instance.                                                         *)
(*                                                                         *)
(* The first statement of a message is the step that takes it in or passes *)
(* it over, the second the one that sets the topics, the acknowledgement   *)
(* settles it.  What fails or is delivered again stays afloat, and its     *)
(* work is redone.  The statements of a consumer without a channel are     *)
(* those of a stray.  The mapping needs that a message whose topics come   *)
(* next is in the row (MarkInv).                                           *)
(***************************************************************************)
EXTENDS WorkerRegistry_proofs

SeenBy(m) == HasRow(m.worker) /\ m.timestamp <= workers[m.worker].last_seen

MarkInv ==
    /\ HandlesTopics => SeenBy(handling[1])
    /\ \A d \in late : d[2] = "topics" => SeenBy(d[1])

BoardInv == TypeInv /\ MarkInv

----------------------------------------------------------------------------
(* The invariant *)

\* A row is never deleted, and its last_seen only grows.
LEMMA RowsGrow ==
    ASSUME TypeInv, [Next]_vars, NEW w \in Workers
    PROVE  (HasRow(w) => HasRow(w)') /\ workers[w].last_seen <= workers'[w].last_seen
<1>0. QueueInv /\ TableInv /\ workers[w].last_seen \in Nat
  BY DEF TypeInv, TableInv, WorkerRow
<1>1. ASSUME NEW m \in Messages, WritesRow(m)
      PROVE  (HasRow(w) => HasRow(w)') /\ workers[w].last_seen <= workers'[w].last_seen
  <2>1. CASE m.worker = w
    BY <1>0, <1>1, <2>1, RowEffect
  <2>2. CASE m.worker # w
    <3>1. workers'[w] = workers[w] /\ (HasRow(w) => HasRow(w)')
      BY <1>0, <1>1, <2>2, RowEffect
    <3> QED
      BY <1>0, <3>1
  <2> QED
    BY <2>1, <2>2
<1>2. CASE HandleStatus
  BY <1>0, <1>1, <1>2, Removed DEF HandleStatus, QueueInv
<1>3. ASSUME NEW d \in late, LateStatus(d)
      PROVE  (HasRow(w) => HasRow(w)') /\ workers[w].last_seen <= workers'[w].last_seen
  BY <1>0, <1>1, <1>3 DEF LateStatus, QueueInv
<1>4. ASSUME NEW v \in Workers, CheckSetsOffline(v)
      PROVE  (HasRow(w) => HasRow(w)') /\ workers[w].last_seen <= workers'[w].last_seen
  <2>1. HasRow(w)' <=> HasRow(w)
    BY <1>4, ElsewhereEffect
  <2>2. workers'[w].last_seen = workers[w].last_seen
    BY <1>4, ElsewhereEffect
  <2> QED
    BY <1>0, <2>1, <2>2
<1>5. CASE UNCHANGED workers
  BY <1>0, <1>5 DEF HasRow
<1> QED
  BY NextCases, <1>2, <1>3, <1>4, <1>5
     DEF StartWorker, SendsStatus, StopWorker, Compose, ExitWorker, KillWorker, Ends,
         PublishStatus, PublishLost, PublishFails, StatusFails, HandleTopics, HandleSubJob,
         SecondFails, Ack, ChannelLost, StatementLeft, LateTopics, LateEnds, CheckLists,
         CheckFails, MinutePasses, SchedulerCrashes, tables, vars

LEMMA SeenStays ==
    ASSUME TypeInv, [Next]_vars, NEW m \in Messages, SeenBy(m)
    PROVE  SeenBy(m)'
<1>1. m.worker \in Workers /\ m.timestamp \in Nat
  BY MessageTypes
<1>2. TypeInv'
  BY StepTypeInv
<1>3. workers[m.worker].last_seen \in Nat /\ workers'[m.worker].last_seen \in Nat
  BY <1>1, <1>2 DEF TypeInv, TableInv, WorkerRow
<1>4. HasRow(m.worker) /\ m.timestamp <= workers[m.worker].last_seen
  BY DEF SeenBy
<1>5. HasRow(m.worker)' /\ workers[m.worker].last_seen <= workers'[m.worker].last_seen
  BY <1>1, <1>4, RowsGrow
<1>6. m.timestamp <= workers'[m.worker].last_seen
  BY <1>1, <1>3, <1>4, <1>5
<1> QED
  BY <1>5, <1>6 DEF SeenBy, HasRow

\* The first statement leaves its mark, whoever executes it.
LEMMA StepMark == BoardInv /\ [Next]_vars => MarkInv'
<1> SUFFICES ASSUME BoardInv, [Next]_vars PROVE MarkInv'
  OBVIOUS
<1>0. /\ TypeInv /\ QueueInv /\ TableInv
      /\ handling # Nothing => handling[1] \in Messages
      /\ \A d \in late : d[1] \in Messages
  BY DEF BoardInv, TypeInv, QueueInv
<1>1. ASSUME NEW m \in Messages, HandlesTopics, m = handling[1]
      PROVE  SeenBy(m)'
  BY <1>0, <1>1, SeenStays DEF BoardInv, MarkInv
<1>2. \A d \in late : d[2] = "topics" => SeenBy(d[1])'
  BY <1>0, SeenStays DEF BoardInv, MarkInv
<1>3. ASSUME NEW m \in Messages, WritesRow(m), m.kind \in Lifecycle
      PROVE  SeenBy(m)'
  BY <1>0, <1>3, RowEffect, MessageTypes DEF SeenBy, HasRow
<1>4. ASSUME UNCHANGED handling
      PROVE  (HandlesTopics => SeenBy(handling[1]))'
  <2>1. HandlesTopics' <=> HandlesTopics
    BY <1>4 DEF HandlesTopics
  <2>2. CASE HandlesTopics
    <3> PICK m \in Messages : m = handling[1]
      BY <1>0, <2>2 DEF HandlesTopics
    <3> QED
      BY <1>1, <1>4, <2>2 DEF SeenBy, HasRow
  <2> QED
    BY <2>1, <2>2
<1>5. CASE UNCHANGED <<handling, late>>
  <2>1. (\A d \in late : d[2] = "topics" => SeenBy(d[1]))'
    BY <1>2, <1>5 DEF SeenBy, HasRow
  <2> QED
    BY <1>5, <1>4, <2>1 DEF MarkInv
<1>6. CASE HandleStatus
  <2> PICK m \in Messages : m = Head(queue)
    BY <1>0, <1>6, Removed DEF HandleStatus, QueueInv
  <2>1. /\ WritesRow(m) /\ late' = late
        /\ \E step \in AfterRow(m) : handling' = <<m, step>>
    BY <1>6 DEF HandleStatus
  <2>2. HandlesTopics' => handling'[1] = m /\ SeenBy(m)'
    BY <1>3, <2>1, NextStep DEF HandlesTopics
  <2> QED
    BY <1>2, <2>1, <2>2 DEF MarkInv, SeenBy, HasRow
<1>7. ASSUME ~HandlesTopics',
             \A d \in late' : d \in late \/ d[2] # "topics" \/ (HandlesTopics /\ d = handling)
      PROVE  MarkInv'
  <2>1. ASSUME NEW d \in late', d[2] = "topics"
        PROVE  SeenBy(d[1])'
    <3>1. CASE d \in late
      BY <1>2, <2>1, <3>1
    <3>2. CASE HandlesTopics /\ d = handling
      <4> PICK m \in Messages : m = handling[1]
        BY <1>0, <3>2 DEF HandlesTopics
      <4> QED
        BY <1>1, <3>2 DEF SeenBy, HasRow
    <3> QED
      BY <1>7, <2>1, <3>1, <3>2
  <2> QED
    BY <1>7, <2>1 DEF MarkInv, SeenBy, HasRow
<1>8. CASE \/ HandleTopics \/ HandleSubJob \/ SecondFails \/ Ack
           \/ ChannelLost \/ SchedulerCrashes \/ StatementLeft
  <2>1. ~HandlesTopics'
    BY <1>8 DEF HandleTopics, HandleSubJob, SecondFails, Ack, ChannelLost, SchedulerCrashes,
                StatementLeft, PutBack, HandlesTopics
  <2>2. \A d \in late' : d \in late \/ d[2] # "topics" \/ (HandlesTopics /\ d = handling)
    BY <1>8 DEF HandleTopics, HandleSubJob, SecondFails, Ack, ChannelLost, SchedulerCrashes,
                StatementLeft, HandlesTopics, HandlesSubJob
  <2> QED
    BY <1>7, <2>1, <2>2
<1>9. ASSUME NEW d \in late, LateStatus(d) \/ LateTopics(d) \/ LateEnds(d)
      PROVE  MarkInv'
  <2> PICK m \in Messages : m = d[1]
    BY <1>0
  <2>1. UNCHANGED handling
    BY <1>9 DEF LateStatus, LateTopics, LateEnds
  <2>2. \A e \in late' : e \in late \/ e[2] # "topics" \/ (e[1] = m /\ SeenBy(m)')
    <3>1. CASE LateStatus(d)
      <4>1. /\ WritesRow(m)
            /\ \E step \in AfterRow(m) : late' = (late \ {d}) \union {<<m, step>>}
        BY <3>1 DEF LateStatus
      <4> QED
        BY <1>3, <4>1, NextStep
    <3>2. CASE LateTopics(d) \/ LateEnds(d)
      BY <3>2 DEF LateTopics, LateEnds
    <3> QED
      BY <1>9, <3>1, <3>2
  <2>3. \A e \in late' : e[2] = "topics" => SeenBy(e[1])'
    BY <1>2, <2>2
  <2> QED
    BY <1>4, <2>1, <2>3 DEF MarkInv, SeenBy, HasRow
<1> QED
  BY NextCases, <1>5, <1>6, <1>8, <1>9
     DEF StartWorker, SendsStatus, StopWorker, Compose, ExitWorker, KillWorker, Ends,
         PublishStatus, PublishLost, PublishFails, StatusFails, CheckLists, CheckSetsOffline,
         CheckFails, MinutePasses, consumerVars, vars

----------------------------------------------------------------------------
(* The messages afloat *)

LEMMA SetAppended ==
    ASSUME NEW q \in Seq(Messages), NEW m \in Messages
    PROVE  ToSet(Append(q, m)) = ToSet(q) \union {m}
<1>1. /\ Len(q) \in Nat /\ Len(Append(q, m)) = Len(q) + 1
      /\ Append(q, m)[Len(q) + 1] = m
      /\ \A i \in 1..Len(q) : Append(q, m)[i] = q[i]
  BY Appended
<1>2. DOMAIN q = 1..Len(q) /\ DOMAIN Append(q, m) = 1..(Len(q) + 1)
  BY <1>1
<1>3. \A i \in 1..(Len(q) + 1) : i = Len(q) + 1 \/ i \in 1..Len(q)
  BY <1>1
<1> QED
  BY <1>1, <1>2, <1>3 DEF ToSet

LEMMA SetRemoved ==
    ASSUME NEW q \in Seq(Messages), q # <<>>
    PROVE  ToSet(q) = ToSet(Tail(q)) \union {Head(q)}
<1>1. /\ Head(q) = q[1] /\ Len(q) \in Nat /\ Len(q) > 0 /\ Len(Tail(q)) = Len(q) - 1
      /\ \A i \in 1..Len(Tail(q)) : Tail(q)[i] = q[i + 1]
      /\ Tail(q) \in Seq(Messages)
  BY Removed
<1>2. DOMAIN q = 1..Len(q) /\ DOMAIN Tail(q) = 1..(Len(q) - 1)
  BY <1>1
<1>3. \A i \in 1..Len(q) : i = 1 \/ (i - 1 \in 1..(Len(q) - 1) /\ (i - 1) + 1 = i)
  BY <1>1
<1>4. \A i \in 1..(Len(q) - 1) : i + 1 \in 1..Len(q)
  BY <1>1
<1>5. \A i \in 1..Len(q) : i = 1 \/ (i - 1 \in 1..(Len(q) - 1) /\ Tail(q)[i - 1] = q[i])
  BY <1>1, <1>3
<1>6. 1 \in 1..Len(q)
  BY <1>1
<1> DEFINE rest == Tail(q) first == Head(q)
<1>7. /\ \A i \in DOMAIN q : q[i] = first \/ \E k \in DOMAIN rest : q[i] = rest[k]
      /\ \A k \in DOMAIN rest : \E i \in DOMAIN q : q[i] = rest[k]
      /\ \E i \in DOMAIN q : q[i] = first
  BY <1>1, <1>2, <1>4, <1>5, <1>6
<1> HIDE DEF rest, first
<1>8. ToSet(q) = ToSet(rest) \union {first}
  BY <1>7 DEF ToSet
<1> QED
  BY <1>8 DEF rest, first

LEMMA SetJoined ==
    ASSUME NEW p \in Seq(Messages), NEW q \in Seq(Messages)
    PROVE  ToSet(p \o q) = ToSet(p) \union ToSet(q)
<1>1. /\ Len(p) \in Nat /\ Len(q) \in Nat /\ Len(p \o q) = Len(p) + Len(q)
      /\ p \o q \in Seq(Messages)
      /\ \A i \in 1..Len(p) : (p \o q)[i] = p[i]
      /\ \A i \in 1..Len(q) : (p \o q)[Len(p) + i] = q[i]
  OBVIOUS
<1>2. DOMAIN p = 1..Len(p) /\ DOMAIN q = 1..Len(q) /\ DOMAIN (p \o q) = 1..(Len(p) + Len(q))
  BY <1>1
<1>3. \A i \in 1..(Len(p) + Len(q)) :
          i \in 1..Len(p) \/ (i - Len(p) \in 1..Len(q) /\ Len(p) + (i - Len(p)) = i)
  BY <1>1
<1>4. \A i \in 1..Len(p) : i \in 1..(Len(p) + Len(q))
  BY <1>1
<1>5. \A i \in 1..Len(q) : Len(p) + i \in 1..(Len(p) + Len(q))
  BY <1>1
<1>6. \A i \in 1..(Len(p) + Len(q)) :
          i \in 1..Len(p) \/ (i - Len(p) \in 1..Len(q) /\ (p \o q)[i] = q[i - Len(p)])
  BY <1>1, <1>3
<1> DEFINE both == p \o q
<1>7. /\ \A i \in DOMAIN both : (\E k \in DOMAIN p : both[i] = p[k])
                                \/ (\E k \in DOMAIN q : both[i] = q[k])
      /\ \A k \in DOMAIN p : \E i \in DOMAIN both : both[i] = p[k]
      /\ \A k \in DOMAIN q : \E i \in DOMAIN both : both[i] = q[k]
  BY <1>1, <1>2, <1>4, <1>5, <1>6
<1> HIDE DEF both
<1>8. ToSet(both) = ToSet(p) \union ToSet(q)
  BY <1>7 DEF ToSet
<1> QED
  BY <1>8 DEF both

\* Nothing is lost by a failed statement, a lost channel or a crash, only moved.
LEMMA AfloatKept ==
    ASSUME TypeInv, StatusFails \/ SecondFails \/ PutBack
    PROVE  Afloat' = Afloat
<1>0. /\ queue \in Seq(Messages) /\ unacked \in Seq(Messages)
      /\ handling # Nothing => handling[1] \in Messages
      /\ Afloat = ToSet(queue) \union ToSet(unacked) \union InConsumer
      /\ Afloat' = ToSet(queue') \union ToSet(unacked') \union InConsumer'
  BY DEF TypeInv, QueueInv, Afloat
<1>1. CASE StatusFails
  <2>1. /\ queue # <<>> /\ queue' = Tail(queue) /\ handling' = handling
        /\ unacked' = Append(unacked, Head(queue))
    BY <1>1 DEF StatusFails
  <2>2. /\ Head(queue) \in Messages
        /\ ToSet(queue) = ToSet(queue') \union {Head(queue)}
    BY <1>0, <2>1, Removed, SetRemoved
  <2>3. ToSet(unacked') = ToSet(unacked) \union {Head(queue)}
    BY <1>0, <2>1, <2>2, SetAppended
  <2>4. InConsumer' = InConsumer
    BY <2>1 DEF InConsumer
  <2> QED
    BY <1>0, <2>2, <2>3, <2>4
<1>2. CASE SecondFails
  <2>1. /\ handling # Nothing /\ handling' = Nothing /\ queue' = queue
        /\ unacked' = Append(unacked, handling[1])
    BY <1>2 DEF SecondFails, HandlesTopics, HandlesSubJob
  <2>2. InConsumer = {handling[1]} /\ InConsumer' = {}
    BY <2>1 DEF InConsumer
  <2>3. ToSet(unacked') = ToSet(unacked) \union {handling[1]}
    BY <1>0, <2>1, SetAppended
  <2> QED
    BY <1>0, <2>1, <2>2, <2>3
<1>3. CASE PutBack
  <2>1. queue' = (unacked \o InHand) \o queue /\ unacked' = <<>> /\ handling' = Nothing
    BY <1>3 DEF PutBack
  <2>2. InHand \in Seq(Messages) /\ ToSet(InHand) = InConsumer
    BY <1>0 DEF ToSet, InConsumer, InHand
  <2>3. ToSet(unacked') = {} /\ InConsumer' = {}
    BY <2>1 DEF ToSet, InConsumer
  <2>4. unacked \o InHand \in Seq(Messages)
    BY <1>0, <2>2
  <2>5. ToSet(queue') = ToSet(unacked) \union ToSet(InHand) \union ToSet(queue)
    BY <1>0, <2>1, <2>2, <2>4, SetJoined
  <2> QED
    BY <1>0, <2>2, <2>3, <2>5
<1> QED
  BY <1>1, <1>2, <1>3

----------------------------------------------------------------------------
(* The steps *)

LEMMA Stutters ==
    ASSUME UNCHANGED <<queue, consumerVars, workers, worker_topics>>
    PROVE  UNCHANGED Abstract!vars
BY DEF Afloat, Done, Astray, InConsumer, consumerVars, Abstract!vars

\* A message that is published is afloat.
LEMMA PublishMaps ==
    ASSUME TypeInv, NEW m \in held, PublishStatus(m)
    PROVE  m \in Messages /\ Abstract!Publish(m)
<1>0. /\ m \in Messages /\ queue \in Seq(Messages) /\ queue' = Append(queue, m)
      /\ UNCHANGED <<unacked, handling, late, workers, worker_topics>>
  BY DEF TypeInv, ProcessInv, QueueInv, PublishStatus, consumerVars, tables
<1>1. ToSet(queue') = ToSet(queue) \union {m}
  BY <1>0, SetAppended
<1>2. Afloat' = Afloat \union {m} /\ UNCHANGED <<Done, Astray>>
  BY <1>0, <1>1 DEF Afloat, Done, Astray, InConsumer
<1> QED
  BY <1>0, <1>2 DEF Abstract!Publish

\* The first statement writes the row unless it has the message or something newer,
\* or there is no row for it.
LEMMA RowMaps ==
    ASSUME TypeInv, NEW m \in Messages, WritesRow(m)
    PROVE  \/ /\ Abstract!Known(m.worker) \/ m.kind \in Abstract!Lifecycle
              /\ ~Abstract!Seen(m)
              /\ workers' = [workers EXCEPT ![m.worker] =
                                [status |-> Abstract!StatusAfter(m), last_seen |-> m.timestamp]]
           \/ /\ UNCHANGED workers
              /\ \/ Abstract!Seen(m)
                 \/ ~Abstract!Known(m.worker) /\ m.kind \notin Lifecycle
<1>1. m.worker \in Workers /\ m.kind \in StatusKinds /\ m.timestamp \in Nat
      /\ workers[m.worker].last_seen \in Nat
  BY MessageTypes DEF TypeInv, TableInv, WorkerRow
<1>2. /\ Abstract!Known(m.worker) <=> HasRow(m.worker)
      /\ Abstract!Seen(m) <=> HasRow(m.worker) /\ ~IsNewer(m)
      /\ Abstract!Lifecycle = Lifecycle
  BY <1>1 DEF Abstract!Known, Abstract!Seen, HasRow, IsNewer, Abstract!Lifecycle, Lifecycle
<1>3. ASSUME NEW status, status = Abstract!StatusAfter(m), WriteRow(m.worker, status, m.timestamp)
      PROVE  workers' = [workers EXCEPT ![m.worker] =
                            [status |-> Abstract!StatusAfter(m), last_seen |-> m.timestamp]]
  BY <1>3 DEF WriteRow
<1>4. CASE m.kind \in Lifecycle /\ WriteStatus(m)
  <2>1. m.kind = Abstract!StatusAfter(m)
    BY <1>4 DEF Lifecycle, Abstract!StatusAfter
  <2> QED
    BY <1>2, <1>3, <1>4, <2>1 DEF WriteStatus
<1>5. CASE m.kind = "heartbeat" /\ WriteHeartbeat(m)
  <2>1. "online" = Abstract!StatusAfter(m) /\ m.kind \notin Lifecycle
    BY <1>5 DEF Lifecycle, Abstract!StatusAfter
  <2> QED
    BY <1>2, <1>3, <1>5, <2>1 DEF WriteHeartbeat
<1>6. CASE m.kind = "job" /\ WriteJob(m)
  <2>1. workers[m.worker].status = Abstract!StatusAfter(m) /\ m.kind \notin Lifecycle
    BY <1>6 DEF Lifecycle, Abstract!StatusAfter
  <2> QED
    BY <1>2, <1>3, <1>6, <2>1 DEF WriteJob
<1> QED
  BY <1>4, <1>5, <1>6 DEF WritesRow

\* The consumer takes a message in or passes it over; a lifecycle message that the
\* row has seen goes on to its topics.
LEMMA HandleMaps ==
    ASSUME TypeInv, HandleStatus
    PROVE  \/ UNCHANGED Abstract!vars
           \/ \E m \in Messages : Abstract!TakeIn(m) \/ Abstract!PassOver(m)
<1>0. /\ queue \in Seq(Messages) /\ queue # <<>> /\ handling = Nothing
      /\ UNCHANGED <<unacked, late, worker_topics>> /\ queue' = Tail(queue)
  BY DEF TypeInv, QueueInv, HandleStatus
<1> PICK m \in Messages : m = Head(queue)
  BY <1>0, Removed
<1>1. /\ WritesRow(m) /\ handling' # Nothing /\ handling'[1] = m
      /\ handling'[2] = "topics" <=> m.kind \in Lifecycle
      /\ m.kind \in Lifecycle => handling'[2] # "ack"
  BY PairIsSomething, NextStep DEF HandleStatus
<1>2. ToSet(queue) = ToSet(queue') \union {m}
  BY <1>0, SetRemoved
<1>3. InConsumer = {} /\ InConsumer' = {m}
  BY <1>0, <1>1 DEF InConsumer
<1>4. Afloat' = Afloat /\ m \in Afloat
  BY <1>0, <1>2, <1>3 DEF Afloat
<1>5. Done = {} /\ Done' = (IF m.kind \in Lifecycle THEN {} ELSE {m})
  BY <1>1, <1>3 DEF Done
<1>6. Astray' = Astray
  BY <1>0 DEF Astray
<1>7. /\ m.kind \in Abstract!Lifecycle <=> m.kind \in Lifecycle
      /\ m.kind \notin Lifecycle => Abstract!Finishes(m)
      /\ m.kind \in Lifecycle => UNCHANGED Done
  BY <1>4, <1>5 DEF Abstract!Lifecycle, Lifecycle, Abstract!Finishes
<1>8. CASE /\ Abstract!Known(m.worker) \/ m.kind \in Abstract!Lifecycle
           /\ ~Abstract!Seen(m)
           /\ workers' = [workers EXCEPT ![m.worker] =
                             [status |-> Abstract!StatusAfter(m), last_seen |-> m.timestamp]]
  BY <1>0, <1>4, <1>6, <1>7, <1>8 DEF Abstract!TakeIn
<1>9. CASE /\ UNCHANGED workers
           /\ Abstract!Seen(m) \/ (~Abstract!Known(m.worker) /\ m.kind \notin Lifecycle)
  <2>1. CASE m.kind \in Lifecycle
    BY <1>0, <1>4, <1>6, <1>7, <1>9, <2>1 DEF Abstract!vars
  <2>2. CASE m.kind \notin Lifecycle
    BY <1>0, <1>4, <1>6, <1>7, <1>9, <2>2 DEF Abstract!PassOver
  <2> QED
    BY <2>1, <2>2
<1> QED
  BY <1>1, <1>8, <1>9, RowMaps

\* The same by a consumer that has lost its channel: it settles nothing.
LEMMA LateStatusMaps ==
    ASSUME TypeInv, NEW d \in late, LateStatus(d)
    PROVE  UNCHANGED Abstract!vars \/ \E m \in Messages : Abstract!TakeIn(m)
<1> PICK m \in Messages : m = d[1]
  BY DEF TypeInv, QueueInv
<1>0. /\ WritesRow(m) /\ UNCHANGED <<queue, unacked, handling, worker_topics>>
      /\ \E step \in AfterRow(m) : late' = (late \ {d}) \union {<<m, step>>}
  BY DEF LateStatus
<1>1. UNCHANGED <<Afloat, Done>>
  BY <1>0 DEF Afloat, Done, InConsumer
<1>2. Astray' = Astray /\ m \in Astray
  <2> PICK step \in AfterRow(m) : late' = (late \ {d}) \union {<<m, step>>}
    BY <1>0
  <2> DEFINE e == <<m, step>>
  <2>1. e[1] = m /\ late' = (late \ {d}) \union {e}
    OBVIOUS
  <2> HIDE DEF e
  <2> QED
    BY <2>1 DEF Astray
<1>3. CASE UNCHANGED workers
  BY <1>0, <1>1, <1>2, <1>3 DEF Abstract!vars
<1>4. CASE /\ Abstract!Known(m.worker) \/ m.kind \in Abstract!Lifecycle
           /\ ~Abstract!Seen(m)
           /\ workers' = [workers EXCEPT ![m.worker] =
                             [status |-> Abstract!StatusAfter(m), last_seen |-> m.timestamp]]
  BY <1>0, <1>1, <1>2, <1>4 DEF Abstract!TakeIn, Abstract!Strays
<1> QED
  BY <1>0, <1>3, <1>4, RowMaps

LEMMA SeenMeans ==
    ASSUME NEW m, SeenBy(m)
    PROVE  Abstract!Seen(m)
BY DEF SeenBy, HasRow, Abstract!Seen, Abstract!Known

\* The second statement sets the topics for a message that is in the row.
LEMMA TopicsMap ==
    ASSUME BoardInv, HandleTopics
    PROVE  \E m \in Messages : Abstract!SetTopics(m)
<1> PICK m \in Messages : m = handling[1]
  BY DEF HandleTopics, HandlesTopics, BoardInv, TypeInv, QueueInv
<1>0. /\ handling # Nothing /\ handling' # Nothing /\ handling[2] = "topics"
      /\ handling'[1] = m /\ handling'[2] = "ack"
      /\ m.kind \in Lifecycle /\ SeenBy(m)
      /\ SetsTopics(m) /\ UNCHANGED <<queue, unacked, late, workers>>
  BY PairIsSomething DEF HandleTopics, HandlesTopics, BoardInv, TypeInv, QueueInv, MarkInv
<1>1. InConsumer = {m} /\ InConsumer' = {m}
  BY <1>0 DEF InConsumer
<1>2. Done = {} /\ Done' = {m}
  BY <1>0, <1>1 DEF Done
<1>3. UNCHANGED <<Afloat, Astray>> /\ m \in Afloat
  BY <1>0, <1>1 DEF Afloat, Astray
<1>4. Abstract!Seen(m) /\ m.kind \in Abstract!Lifecycle
  BY <1>0, SeenMeans DEF Abstract!Lifecycle, Lifecycle
<1>5. Abstract!SetTopics(m)
  BY <1>0, <1>2, <1>3, <1>4 DEF SetsTopics, Abstract!SetTopics, Abstract!Finishes
<1> QED
  BY <1>5

LEMMA LateTopicsMap ==
    ASSUME BoardInv, NEW d \in late, LateTopics(d)
    PROVE  \E m \in Messages : Abstract!SetTopics(m)
<1> PICK m \in Messages : m = d[1]
  BY DEF BoardInv, TypeInv, QueueInv
<1>0. /\ m.kind \in Lifecycle /\ SeenBy(m)
      /\ SetsTopics(m) /\ UNCHANGED <<queue, unacked, handling, workers>>
      /\ late' = (late \ {d}) \union {<<m, "ack">>}
  BY DEF LateTopics, BoardInv, TypeInv, QueueInv, MarkInv
<1>1. UNCHANGED <<Afloat, Done>>
  BY <1>0 DEF Afloat, Done, InConsumer
<1>2. Astray' = Astray /\ m \in Astray
  <2> DEFINE e == <<m, "ack">>
  <2>1. e[1] = m /\ late' = (late \ {d}) \union {e}
    BY <1>0
  <2> HIDE DEF e
  <2> QED
    BY <2>1 DEF Astray
<1>3. Abstract!Seen(m) /\ m.kind \in Abstract!Lifecycle
  BY <1>0, SeenMeans DEF Abstract!Lifecycle, Lifecycle
<1>4. Abstract!SetTopics(m)
  BY <1>0, <1>1, <1>2, <1>3 DEF SetsTopics, Abstract!SetTopics, Abstract!Strays
<1> QED
  BY <1>4

\* What is acknowledged is settled, unless another delivery of it is afloat.
LEMMA AckMaps ==
    ASSUME BoardInv, Ack
    PROVE  Abstract!Redo \/ \E m \in Messages : Abstract!Settle(m)
<1> PICK m \in Messages : m = handling[1]
  BY DEF Ack, BoardInv, TypeInv, QueueInv
<1>0. /\ handling # Nothing /\ handling' = Nothing /\ handling[2] = "ack"
      /\ UNCHANGED <<queue, unacked, late, workers, worker_topics>>
  BY DEF Ack, BoardInv, TypeInv, QueueInv, tables
<1>1. InConsumer = {m} /\ InConsumer' = {}
  BY <1>0 DEF InConsumer
<1>2. Done = {m} /\ Done' = {} /\ Astray' = Astray
  BY <1>0, <1>1 DEF Done, Astray
<1>3. /\ Afloat = ToSet(queue) \union ToSet(unacked) \union {m}
      /\ Afloat' = ToSet(queue) \union ToSet(unacked)
  BY <1>0, <1>1 DEF Afloat
<1>4. CASE m \in ToSet(queue) \union ToSet(unacked)
  <2>1. Afloat' = Afloat
    BY <1>3, <1>4
  <2> QED
    BY <1>0, <1>2, <2>1 DEF Abstract!Redo
<1>5. CASE m \notin ToSet(queue) \union ToSet(unacked)
  <2>1. Afloat' = Afloat \ {m} /\ m \in Afloat
    BY <1>3, <1>5
  <2>2. Abstract!Settle(m)
    BY <1>0, <1>2, <2>1 DEF Abstract!Settle
  <2> QED
    BY <2>2
<1> QED
  BY <1>4, <1>5

\* What fails, is put back or is left behind is begun anew.
LEMMA RedoMaps ==
    ASSUME TypeInv, \/ StatusFails \/ SecondFails
                    \/ ChannelLost \/ StatementLeft \/ SchedulerCrashes
                    \/ \E d \in late : LateEnds(d)
    PROVE  Abstract!Redo
<1>0. UNCHANGED <<workers, worker_topics>>
  BY DEF StatusFails, SecondFails, ChannelLost, StatementLeft, SchedulerCrashes, LateEnds, tables
<1>1. handling' \in {handling, Nothing}
  BY DEF StatusFails, SecondFails, ChannelLost, StatementLeft, SchedulerCrashes, LateEnds, PutBack
<1>2. Done' \in SUBSET Done
  BY <1>1 DEF Done, InConsumer
<1>3. Afloat' = Afloat
  <2>1. CASE \E d \in late : LateEnds(d)
    BY <2>1 DEF LateEnds, Afloat, InConsumer
  <2>2. CASE ~\E d \in late : LateEnds(d)
    BY <2>2, AfloatKept DEF ChannelLost, StatementLeft, SchedulerCrashes
  <2> QED
    BY <2>1, <2>2
<1>4. \/ Astray' \in SUBSET Astray
      \/ \E m \in Afloat : Astray' = Astray \union {m}
  <2>1. CASE late' \subseteq late
    BY <2>1 DEF Astray
  <2>2. ASSUME NEW e, late' = late \union {e}, e[1] \in Afloat
        PROVE  \E m \in Afloat : Astray' = Astray \union {m}
    BY <2>2 DEF Astray
  <2>3. CASE StatementLeft
    <3>1. CASE handling = Nothing
      <4> DEFINE e == <<Head(queue), "row">>
      <4>1. queue # <<>> /\ late' = late \union {e} /\ e[1] = Head(queue)
        BY <2>3, <3>1 DEF StatementLeft, HandlesTopics, HandlesSubJob
      <4>2. Head(queue) \in Afloat
        BY <4>1, SetRemoved DEF TypeInv, QueueInv, Afloat
      <4> HIDE DEF e
      <4> QED
        BY <2>2, <4>1, <4>2
    <3>2. CASE handling # Nothing
      <4>1. late' = late \union {handling} /\ handling[1] \in Afloat
        BY <2>3, <3>2 DEF StatementLeft, Afloat, InConsumer
      <4> QED
        BY <2>2, <4>1
    <3> QED
      BY <3>1, <3>2
  <2>4. CASE ~StatementLeft
    <3>1. late' \subseteq late
      BY <2>4 DEF StatusFails, SecondFails, ChannelLost, SchedulerCrashes, LateEnds
    <3> QED
      BY <2>1, <3>1
  <2> QED
    BY <2>3, <2>4
<1> QED
  BY <1>0, <1>2, <1>3, <1>4 DEF Abstract!Redo

\* The sub job of a message is none of the board's business.
LEMMA SubJobMaps ==
    ASSUME TypeInv, HandleSubJob
    PROVE  UNCHANGED Abstract!vars
<1>0. /\ handling # Nothing /\ handling' # Nothing
      /\ handling'[1] = handling[1] /\ handling[1].kind \notin Lifecycle
      /\ UNCHANGED <<queue, unacked, late, workers, worker_topics>>
  BY PairIsSomething DEF HandleSubJob, HandlesSubJob, TypeInv, QueueInv, tables
<1>1. InConsumer = {handling[1]} /\ InConsumer' = {handling[1]}
  BY <1>0 DEF InConsumer
<1>2. UNCHANGED <<Afloat, Astray>>
  BY <1>0, <1>1 DEF Afloat, Astray
<1>3. Done = {handling[1]} /\ Done' = {handling[1]}
  BY <1>0, <1>1 DEF Done
<1> QED
  BY <1>0, <1>2, <1>3 DEF Abstract!vars

\* The online check silences a worker it has a row of.
LEMMA CheckMaps ==
    ASSUME TypeInv, NEW w \in Workers, CheckSetsOffline(w)
    PROVE  Abstract!Silence(w)
<1>0. /\ workers \in [Workers -> WorkerRow] /\ HasRow(w)
      /\ workers' = [workers EXCEPT ![w] = [workers[w] EXCEPT !.status = "offline"]]
      /\ UNCHANGED <<queue, unacked, handling, late, worker_topics>>
  BY DEF TypeInv, TableInv, CheckSetsOffline, consumerVars
<1>1. workers[w] \in WorkerRow
  BY <1>0
<1>2. [workers[w] EXCEPT !.status = "offline"]
      = [status |-> "offline", last_seen |-> workers[w].last_seen]
  BY <1>1 DEF WorkerRow
<1>3. UNCHANGED <<Afloat, Done, Astray>>
  BY <1>0 DEF Afloat, Done, Astray, InConsumer
<1> QED
  BY <1>0, <1>2, <1>3 DEF Abstract!Silence, Abstract!Known, HasRow

LEMMA InitMaps == Init => Abstract!Init
<1> SUFFICES ASSUME Init PROVE Abstract!Init
  OBVIOUS
<1>1. ToSet(queue) = {} /\ ToSet(unacked) = {} /\ InConsumer = {}
  BY DEF Init, ToSet, InConsumer
<1>2. Afloat = {} /\ Done = {} /\ Astray = {}
  BY <1>1 DEF Init, Afloat, Done, Astray
<1> QED
  BY <1>2 DEF Init, NoRow, Abstract!Init

LEMMA StepMaps == BoardInv /\ [Next]_vars => [Abstract!Next]_(Abstract!vars)
<1> SUFFICES ASSUME BoardInv, [Next]_vars
             PROVE  Abstract!Next \/ UNCHANGED Abstract!vars
  OBVIOUS
<1>0. TypeInv
  BY DEF BoardInv
<1>1. ASSUME NEW m \in held, PublishStatus(m)
      PROVE  Abstract!Next
  BY <1>0, <1>1, PublishMaps DEF Abstract!Next
<1>2. CASE HandleStatus
  BY <1>0, <1>2, HandleMaps DEF Abstract!Next
<1>3. CASE HandleTopics
  BY <1>3, TopicsMap DEF Abstract!Next
<1>4. CASE HandleSubJob
  BY <1>0, <1>4, SubJobMaps
<1>5. CASE Ack
  BY <1>5, AckMaps DEF Abstract!Next
<1>6. CASE \/ StatusFails \/ SecondFails
           \/ ChannelLost \/ StatementLeft \/ SchedulerCrashes
           \/ \E d \in late : LateEnds(d)
  BY <1>0, <1>6, RedoMaps DEF Abstract!Next
<1>7. ASSUME NEW d \in late, LateStatus(d)
      PROVE  Abstract!Next \/ UNCHANGED Abstract!vars
  BY <1>0, <1>7, LateStatusMaps DEF Abstract!Next
<1>8. ASSUME NEW d \in late, LateTopics(d)
      PROVE  Abstract!Next
  BY <1>8, LateTopicsMap DEF Abstract!Next
<1>9. ASSUME NEW w \in Workers, CheckSetsOffline(w)
      PROVE  Abstract!Next
  BY <1>0, <1>9, CheckMaps DEF Abstract!Next
<1>10. CASE \/ \E w \in Workers : \/ StartWorker(w) \/ SendsStatus(w) \/ StopWorker(w)
                                  \/ ExitWorker(w) \/ KillWorker(w)
            \/ \E m \in held : PublishLost(m) \/ PublishFails(m)
            \/ CheckLists \/ \E w \in Workers : CheckFails(w) \/ MinutePasses(w)
            \/ UNCHANGED vars
  <2>1. UNCHANGED <<queue, consumerVars, workers, worker_topics>>
    BY <1>10 DEF StartWorker, SendsStatus, StopWorker, Compose, ExitWorker, KillWorker, Ends,
       PublishLost, PublishFails, CheckLists, CheckFails, MinutePasses, tables, vars
  <2> QED
    BY <2>1, Stutters
<1> QED
  BY NextCases, <1>1, <1>2, <1>3, <1>4, <1>5, <1>6, <1>7, <1>8, <1>9, <1>10

----------------------------------------------------------------------------
\* Consumer and online check implement the board for every number of workers,
\* messages, losses, failures, crashes and kills: a row only ever takes in what
\* is newer than it, and no status message is lost once it was published.
THEOREM BoardImplemented == Spec => ImplementsStatusBoard
<1>1. Init => BoardInv
  BY InitType DEF BoardInv, MarkInv, HandlesTopics, Init
<1>2. BoardInv /\ [Next]_vars => BoardInv'
  BY StepTypeInv, StepMark DEF BoardInv
<1> QED
  BY <1>1, <1>2, InitMaps, StepMaps, PTL DEF Spec, ImplementsStatusBoard, Abstract!Spec

=============================================================================
