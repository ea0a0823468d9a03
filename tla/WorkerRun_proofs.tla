-------------------------- MODULE WorkerRun_proofs --------------------------
(***************************************************************************)
(* The invariants of WorkerRun for every value of its constants.           *)
(*                                                                         *)
(* Each of them is one part of IInv, or follows from it.  What the parts   *)
(* add: a ping that is awaited was sent before the deadline of its loop, a *)
(* chunk is awaited since a moment before the maximum, and the next log is *)
(* due in the interval after the last one.                                 *)
(***************************************************************************)
EXTENDS WorkerRun, TLAPS

\* The types of the constants, one by one.
LEMMA ConstantTypes ==
    /\ SyncDelay \in Nat /\ DownloadDelay \in Nat /\ Margin \in Nat
    /\ MaxDelays \in Nat /\ MaxFailures \in Nat /\ LatestAnswer \in Nat
    /\ MaxDuration \in Nat /\ MaxDuration > 0
    /\ LogInterval \in Nat /\ LogInterval > 0
    /\ Pings \in Nat /\ Heads \in Nat /\ Heads > 0
    /\ MaxChunk \in Nat /\ MaxBytes \in Nat
    /\ PingTimeout \in Nat /\ PingTimeout <= Margin /\ Margin <= DownloadDelay
  BY WorkerRunAssumption

USE ConstantTypes

\* The numbers of the loops of ping.rs and head.rs.
LoopInv ==
    /\ ping.replies <= ping.sent
    /\ ping.step = "wait" => ping.replies < ping.sent
    /\ head.step = "wait" => head.answered < Heads

\* How far a run is, and what it has reported.
AnswerInv ==
    /\ run \in {"queued", "report"} => result = "none"
    /\ run \in {"queued", "report", "sleep"} => download = "off"
    /\ failures = 0 /\ run \in {"queued", "publish"} => ~busy
    /\ AnsweredUnlessLate

\* When somebody began to wait for a ping, for the download and for a chunk.
TimeInv ==
    /\ ping.step = "wait" => ping.since < LoopDeadline
    /\ download = "wait" => now <= DownloadStartTime + delays
    /\ download \in {"send", "read"} => now >= DownloadStartTime
    /\ download = "read" =>
           /\ awaited < responded + MaxDuration
           /\ now <= awaited + MaxDuration + delays

\* The moment the next interval is counted from.
LastLog == IF logs = <<>> THEN responded ELSE logs[Len(logs)].at

LogInv ==
    /\ download \in {"off", "wait", "send"} => logs = <<>> /\ total = 0 /\ bytes = 0
    /\ download = "read" => nextLog = NextInterval(LastLog)
    /\ LogsAddUp
    /\ OneLogPerInterval

IInv == TypeOK /\ LoopInv /\ AnswerInv /\ TimeInv /\ LogInv

----------------------------------------------------------------------------
(* Lemmas *)

PingRecord == [step: PingSteps, sent: 0..Pings, replies: 0..Pings, since: Nat]
HeadRecord == [step: HeadSteps, answered: 0..Heads]
Log == [at: Nat, bytes: Nat, total: Nat]

\* Every step is one of these.
LEMMA Steps ==
    ASSUME [Next]_vars
    PROVE  \/ Take \/ ReportBusy \/ ReportIdle \/ Publish
           \/ Join \/ JoinEnds \/ Resolve
           \/ NextPing \/ PingReply \/ PingError \/ NextHead \/ HeadAnswer
           \/ SendRequest \/ Respond \/ Ends \/ ChunkError
           \/ \E n \in 1..MaxChunk : Chunk(n)
           \/ Tick \/ UNCHANGED vars
  BY DEF Next, Worker, Answers, Network, ChunkTimeout

\* A moment at or after the next interval is in a later interval.
LEMMA LaterInterval ==
    ASSUME NEW t \in Nat, NEW u \in Nat, u >= NextInterval(t)
    PROVE  t \div LogInterval < u \div LogInterval
  BY SMT DEF NextInterval

LEMMA NextIntervalType == \A t \in Nat : NextInterval(t) \in Nat
  BY SMT DEF NextInterval

LEMMA InitIInv == Init => IInv
  <1> SUFFICES ASSUME Init PROVE IInv
    OBVIOUS
  <1>1. TypeOK
    <2>1. ping \in PingRecord /\ head \in HeadRecord
      BY DEF Init, PingRecord, HeadRecord, NoPing, NoHead, PingSteps, HeadSteps
    <2>2. logs \in Seq(Log)
      BY DEF Init
    <2>3. /\ delays \in 0..MaxDelays /\ failures \in 0..MaxFailures
          /\ bytes \in 0..total /\ run \in RunSteps /\ download \in DownloadSteps
      BY DEF Init, RunSteps, DownloadSteps
    <2>4. /\ now \in Nat /\ responded \in Nat /\ awaited \in Nat /\ nextLog \in Nat /\ total \in Nat
          /\ busy \in BOOLEAN /\ result = "none"
      BY DEF Init
    <2> QED
      BY <2>1, <2>2, <2>3, <2>4 DEF TypeOK, PingRecord, HeadRecord, Log
  <1>2. LoopInv
    BY DEF Init, LoopInv, NoPing, NoHead
  <1>3. AnswerInv
    BY DEF Init, AnswerInv, AnsweredUnlessLate
  <1>4. TimeInv
    BY DEF Init, TimeInv, NoPing
  <1>5. LogInv
    <2>1. logs = <<>> /\ Len(logs) = 0 /\ DOMAIN logs = {}
      BY DEF Init
    <2> QED
      BY <2>1 DEF Init, LogInv, LogsAddUp, OneLogPerInterval, LoggedBefore
  <1> QED
    BY <1>1, <1>2, <1>3, <1>4, <1>5 DEF IInv

----------------------------------------------------------------------------
(* One lemma for each part of IInv *)

LEMMA Outcomes == PingOutcome \in {"ok", "err"} /\ HeadOutcome \in {"ok", "err"}
  BY DEF PingOutcome, HeadOutcome

\* The steps of the loop of ping.rs, field by field.
LEMMA PingLoop ==
    ASSUME TypeOK, LoopInv, NextPing \/ PingReply \/ PingError \/ Join \/ Resolve
    PROVE  /\ ping' \in PingRecord
           /\ ping'.replies <= ping'.sent
           /\ ping'.step = "wait" =>
                  ping'.replies < ping'.sent /\ ping'.since = now /\ now < LoopDeadline
  <1>0. ping \in PingRecord
    BY DEF TypeOK, PingRecord
  <1>1. CASE NextPing /\ (AllPings \/ now >= LoopDeadline)
    <2>1. ping' = [step |-> PingOutcome, sent |-> 0, replies |-> 0, since |-> 0]
      BY <1>1 DEF NextPing, NoPing
    <2> QED
      BY <2>1, Outcomes DEF PingRecord, PingSteps
  <1>2. CASE NextPing /\ ~(AllPings \/ now >= LoopDeadline)
    <2>1. ping' = [ping EXCEPT !.step = "wait", !.sent = ping.sent + 1, !.since = now]
      BY <1>2 DEF NextPing
    <2>2. ping.sent + 1 \in 0..Pings /\ now \in Nat /\ now < LoopDeadline
      BY <1>0, <1>2 DEF AllPings, PingRecord, TypeOK, LoopDeadline, DownloadStartTime, StartTime
    <2>3. /\ ping'.step = "wait" /\ ping'.sent = ping.sent + 1
          /\ ping'.replies = ping.replies /\ ping'.since = now
      BY <1>0, <2>1 DEF PingRecord
    <2>4. ping' \in PingRecord
      BY <1>0, <2>1, <2>2 DEF PingRecord, PingSteps
    <2> QED
      BY <1>0, <2>2, <2>3, <2>4 DEF LoopInv, PingRecord
  <1>3. CASE PingReply
    <2>1. ping' = [ping EXCEPT !.step = "next", !.replies = ping.replies + 1, !.since = 0]
      BY <1>3 DEF PingReply
    <2>2. ping.replies + 1 \in 0..Pings
      BY <1>0, <1>3 DEF PingReply, LoopInv, PingRecord
    <2>3. ping'.step = "next" /\ ping'.sent = ping.sent /\ ping'.replies = ping.replies + 1
      BY <1>0, <2>1 DEF PingRecord
    <2>4. ping' \in PingRecord
      BY <1>0, <2>1, <2>2 DEF PingRecord, PingSteps
    <2> QED
      BY <1>0, <1>3, <2>3, <2>4 DEF PingReply, LoopInv, PingRecord
  <1>4. CASE PingError
    BY <1>0, <1>4 DEF PingError, LoopInv, PingRecord, PingSteps
  <1>5. CASE Join \/ Resolve
    BY <1>0, <1>5 DEF Join, Resolve, LoopInv, PingRecord, PingSteps
  <1> QED
    BY <1>1, <1>2, <1>3, <1>4, <1>5

LEMMA HeadLoop ==
    ASSUME TypeOK, LoopInv, NextHead \/ HeadAnswer \/ Resolve
    PROVE  /\ head' \in HeadRecord
           /\ head'.step = "wait" => head'.answered < Heads
  <1>0. head \in HeadRecord
    BY DEF TypeOK, HeadRecord
  <1>1. CASE NextHead /\ (head.answered = Heads \/ now >= LoopDeadline)
    <2>1. head' = [step |-> HeadOutcome, answered |-> 0]
      BY <1>1 DEF NextHead, NoHead
    <2> QED
      BY <2>1, Outcomes DEF HeadRecord, HeadSteps
  <1>2. CASE NextHead /\ ~(head.answered = Heads \/ now >= LoopDeadline)
    BY <1>0, <1>2 DEF NextHead, HeadRecord, HeadSteps
  <1>3. CASE HeadAnswer
    <2>1. CASE head' = [head EXCEPT !.step = "next", !.answered = head.answered + 1]
      <3>1. head.answered + 1 \in 0..Heads
        BY <1>0, <1>3 DEF HeadAnswer, LoopInv, HeadRecord
      <3> QED
        BY <1>0, <2>1, <3>1 DEF HeadRecord, HeadSteps
    <2>2. CASE head' = [step |-> "err", answered |-> 0]
      BY <2>2 DEF HeadRecord, HeadSteps
    <2> QED
      BY <1>3, <2>1, <2>2 DEF HeadAnswer, NoHead
  <1>4. CASE Resolve
    BY <1>0, <1>4 DEF Resolve, HeadRecord, HeadSteps
  <1> QED
    BY <1>1, <1>2, <1>3, <1>4

\* A chunk keeps the types of what a download has read.
LEMMA ChunkType ==
    ASSUME TypeOK, NEW n \in 1..MaxChunk, Chunk(n)
    PROVE  /\ download' \in {"read", "ok"}
           /\ awaited' \in Nat /\ total' \in Nat /\ bytes' \in 0..total' /\ nextLog' \in Nat
           /\ logs' \in Seq([at: Nat, bytes: Nat, total: Nat])
  <1>1. total' \in Nat /\ bytes' \in 0..total' /\ awaited' \in Nat /\ download' \in {"read", "ok"}
    BY DEF Chunk, ResetBytes, TypeOK
  <1>2. nextLog' \in Nat
    BY NextIntervalType DEF Chunk, NextLog, TypeOK
  <1>3. logs' \in Seq([at: Nat, bytes: Nat, total: Nat])
    <2> DEFINE log == [at |-> now, bytes |-> bytes + n, total |-> total']
    <2>1. log \in Log
      BY <1>1 DEF TypeOK, Log
    <2>2. logs' = logs \/ logs' = Append(logs, log)
      BY DEF Chunk
    <2>3. logs \in Seq(Log)
      BY DEF TypeOK, Log
    <2> HIDE DEF log
    <2>4. logs' \in Seq(Log)
      BY <2>1, <2>2, <2>3
    <2> QED
      BY <2>4 DEF Log
  <1> QED
    BY <1>1, <1>2, <1>3

LEMMA StepType == TypeOK /\ LoopInv /\ [Next]_vars => TypeOK'
  <1> SUFFICES ASSUME TypeOK, LoopInv, [Next]_vars PROVE TypeOK'
    OBVIOUS
  <1>1. CASE Take \/ ReportBusy \/ ReportIdle \/ Publish
    <2>1. /\ run' \in RunSteps /\ busy' \in BOOLEAN
          /\ result' \in {"none", "aborted", "success", "failure"}
      BY <1>1 DEF Take, ReportBusy, ReportIdle, Publish, Idle, TypeOK, RunSteps
    <2>2. failures' \in 0..MaxFailures
      BY <1>1 DEF Take, ReportBusy, ReportIdle, Publish, Fails, TypeOK
    <2> QED
      BY <1>1, <2>1, <2>2
         DEF TypeOK, Take, ReportBusy, ReportIdle, Publish, RunFrame, clock, readVars
  <1>2. CASE Join
    <2>1. run' \in RunSteps /\ download' \in DownloadSteps
      BY <1>2 DEF Join, StartsDownload, RunSteps, DownloadSteps
    <2> QED
      BY <1>2, <2>1, PingLoop DEF Join, PingRecord, TypeOK, clock, readVars
  <1>3. CASE JoinEnds
    BY <1>3 DEF JoinEnds, TypeOK, RunSteps, RunFrame, clock, readVars
  <1>4. CASE Resolve
    BY <1>4, PingLoop, HeadLoop DEF Resolve, PingRecord, HeadRecord, TypeOK, clock, runVars, readVars
  <1>5. CASE NextPing \/ PingReply \/ PingError
    BY <1>5, PingLoop
       DEF NextPing, PingReply, PingError, PingRecord, PingFrame, TypeOK, clock, runVars, readVars
  <1>6. CASE NextHead \/ HeadAnswer
    BY <1>6, HeadLoop DEF NextHead, HeadAnswer, HeadRecord, HeadFrame, TypeOK, clock, runVars, readVars
  <1>7. CASE SendRequest \/ Ends \/ ChunkError
    BY <1>7 DEF SendRequest, SendDue, Ends, ChunkError, DownloadFrame, DownloadSteps, TypeOK,
                clock, runVars, readVars
  <1>8. CASE Respond
    <2>1. /\ download' \in DownloadSteps
          /\ responded' \in Nat /\ awaited' \in Nat /\ nextLog' \in Nat
          /\ UNCHANGED <<bytes, total, logs>>
      BY <1>8, NextIntervalType DEF Respond, readVars, TypeOK, DownloadSteps
    <2> QED
      BY <1>8, <2>1 DEF Respond, DownloadFrame, TypeOK, clock, runVars
  <1>9. CASE \E n \in 1..MaxChunk : Chunk(n)
    BY <1>9, ChunkType DEF Chunk, DownloadFrame, DownloadSteps, TypeOK, clock, runVars
  <1>10. CASE Tick
    BY <1>10 DEF Tick, TypeOK, runVars, readVars
  <1>11. CASE UNCHANGED vars
    BY <1>11 DEF vars, TypeOK, clock, runVars, readVars
  <1> QED
    BY Steps, <1>1, <1>2, <1>3, <1>4, <1>5, <1>6, <1>7, <1>8, <1>9, <1>10, <1>11

LEMMA StepLoop == TypeOK /\ LoopInv /\ [Next]_vars => LoopInv'
  <1> SUFFICES ASSUME TypeOK, LoopInv, [Next]_vars PROVE LoopInv'
    OBVIOUS
  <1>1. CASE UNCHANGED <<ping, head>>
    BY <1>1 DEF LoopInv
  <1>2. CASE Resolve
    BY <1>2, PingLoop, HeadLoop DEF LoopInv
  <1>3. CASE Join \/ NextPing \/ PingReply \/ PingError
    <2>1. UNCHANGED head
      BY <1>3 DEF Join, NextPing, PingReply, PingError, PingFrame
    <2> QED
      BY <1>3, <2>1, PingLoop DEF LoopInv
  <1>4. CASE NextHead \/ HeadAnswer
    <2>1. UNCHANGED ping
      BY <1>4 DEF NextHead, HeadAnswer, HeadFrame
    <2> QED
      BY <1>4, <2>1, HeadLoop DEF LoopInv
  <1> QED
    BY Steps, <1>1, <1>2, <1>3, <1>4
       DEF Take, ReportBusy, ReportIdle, Publish, JoinEnds, RunFrame, SendRequest, Respond,
           Ends, ChunkError, Chunk, DownloadFrame, Tick, vars

LEMMA StepAnswer == TypeOK /\ AnswerInv /\ [Next]_vars => AnswerInv'
  <1> SUFFICES ASSUME TypeOK, AnswerInv, [Next]_vars PROVE AnswerInv'
    OBVIOUS
  <1> USE DEF AnswerInv, AnsweredUnlessLate
  <1>1. CASE UNCHANGED <<run, busy, result, failures, download>>
    BY <1>1
  <1>2. CASE Take
    BY <1>2 DEF Take, RunFrame
  <1>3. CASE ReportBusy
    BY <1>3 DEF ReportBusy, Fails, RunFrame, TypeOK
  <1>4. CASE Join
    BY <1>4 DEF Join
  <1>5. CASE JoinEnds
    BY <1>5 DEF JoinEnds, RunFrame
  <1>6. CASE ReportIdle
    BY <1>6 DEF ReportIdle, Idle, Fails, RunFrame, TypeOK
  <1>7. CASE Publish
    BY <1>7 DEF Publish, Fails, RunFrame, TypeOK
  <1>8. CASE download # "off" /\ UNCHANGED <<run, busy, result, failures>>
    BY <1>8
  <1> QED
    BY Steps, <1>1, <1>2, <1>3, <1>4, <1>5, <1>6, <1>7, <1>8
       DEF Resolve, NextPing, PingReply, PingError, PingFrame, NextHead, HeadAnswer, HeadFrame,
           SendRequest, SendDue, Respond, Ends, ChunkError, Chunk, DownloadFrame, Tick, runVars,
           vars

LEMMA StepTime == TypeOK /\ LoopInv /\ TimeInv /\ [Next]_vars => TimeInv'
  <1> SUFFICES ASSUME TypeOK, LoopInv, TimeInv, [Next]_vars PROVE TimeInv'
    OBVIOUS
  <1>1. CASE UNCHANGED <<clock, ping, download, readVars>>
    BY <1>1 DEF TimeInv, clock, readVars
  <1>2. CASE Join
    <2>0. now \in Nat /\ delays \in Nat /\ DownloadStartTime \in Nat
      BY DEF TypeOK, DownloadStartTime, StartTime
    <2>1. download' = "wait" => ~(DownloadStartTime < now)
      BY <1>2 DEF Join, StartsDownload
    <2>2. download' = "wait" => now <= DownloadStartTime + delays
      BY <2>0, <2>1
    <2>3. download' \in {"wait", "err"} /\ UNCHANGED clock
      BY <1>2 DEF Join, StartsDownload, clock
    <2>4. ping'.step # "wait"
      BY <1>2 DEF Join, TypeOK
    <2> QED
      BY <2>2, <2>3, <2>4 DEF TimeInv, clock, DownloadStartTime, StartTime
  <1>3. CASE Resolve \/ NextPing \/ PingReply \/ PingError
    <2>1. UNCHANGED <<clock, download, readVars>>
      BY <1>3 DEF Resolve, NextPing, PingReply, PingError, PingFrame
    <2> QED
      BY <1>3, <2>1, PingLoop DEF TimeInv, clock, readVars
  <1>4. CASE SendRequest
    BY <1>4 DEF TimeInv, SendRequest, SendDue, DownloadFrame, clock
  <1>5. CASE Respond
    BY <1>5 DEF TimeInv, Respond, DownloadFrame, clock, TypeOK
  <1>6. CASE \E n \in 1..MaxChunk : Chunk(n)
    BY <1>6 DEF TimeInv, Chunk, Elapsed, DownloadFrame, clock, TypeOK
  <1>7. CASE Ends \/ ChunkError
    BY <1>7 DEF TimeInv, Ends, ChunkError, DownloadFrame, clock, readVars
  <1>8. CASE Tick
    BY <1>8 DEF TimeInv, Tick, Due, SendDue, ChunkDue, readVars, TypeOK, DownloadStartTime, StartTime
  <1> QED
    BY Steps, <1>1, <1>2, <1>3, <1>4, <1>5, <1>6, <1>7, <1>8
       DEF Take, ReportBusy, ReportIdle, Publish, JoinEnds, RunFrame, NextHead, HeadAnswer,
           HeadFrame, vars

\* What the log of a download consists of, and where it may go on.
LEMMA StepLog == TypeOK /\ AnswerInv /\ LogInv /\ [Next]_vars => LogInv'
  <1> SUFFICES ASSUME TypeOK, AnswerInv, LogInv, [Next]_vars PROVE LogInv'
    OBVIOUS
  <1> PICK N \in Nat : N = Len(logs)
    BY DEF TypeOK
  <1>a. DOMAIN logs = 1..N /\ \A k \in 1..N : logs[k] \in Log
    <2>1. logs \in Seq(Log)
      BY DEF TypeOK, Log
    <2> QED
      BY <2>1
  <1>b. (logs = <<>>) <=> (N = 0)
    BY DEF TypeOK
  <1>c. LoggedBefore(N + 1) \in Nat
    <2>1. CASE N = 0
      BY <2>1 DEF LoggedBefore
    <2>2. CASE N > 0
      <3>1. logs[N] \in Log
        BY <1>a, <2>2
      <3>2. LoggedBefore(N + 1) = logs[N].total
        BY <2>2 DEF LoggedBefore
      <3> QED
        BY <3>1, <3>2 DEF Log
    <2> QED
      BY <2>1, <2>2
  <1>d. LastLog \in Nat
    <2>1. CASE N = 0
      BY <1>b, <2>1 DEF LastLog, TypeOK
    <2>2. CASE N > 0
      <3>1. logs[N] \in Log
        BY <1>a, <2>2
      <3> QED
        BY <1>b, <2>2, <3>1 DEF LastLog, Log
    <2> QED
      BY <2>1, <2>2
  <1>1. CASE /\ UNCHANGED readVars
             /\ \/ UNCHANGED download
                \/ download \in {"off", "wait"} /\ download' # "read"
                \/ download' \in {"ok", "err"}
    BY <1>1 DEF LogInv, readVars, LogsAddUp, LoggedBefore, OneLogPerInterval, LastLog
  <1>2. CASE Respond
    <2>1. CASE download' = "err"
      BY <1>1, <1>2, <2>1 DEF Respond
    <2>2. CASE download' = "read"
      <3>1. logs' = <<>> /\ total' = 0 /\ bytes' = 0
        BY <1>2, <2>2 DEF Respond, LogInv
      <3>2. nextLog' = NextInterval(LastLog)'
        BY <1>2, <2>2, <3>1 DEF Respond, LastLog, DownloadFrame, clock, NextInterval
      <3>3. LogsAddUp' /\ OneLogPerInterval'
        BY <3>1 DEF LogsAddUp, OneLogPerInterval, LoggedBefore
      <3> QED
        BY <2>2, <3>2, <3>3 DEF LogInv
    <2> QED
      BY <1>2, <2>1, <2>2 DEF Respond
  <1>3. ASSUME NEW n \in 1..MaxChunk, Chunk(n)
        PROVE  LogInv'
    <2>0. download = "read" /\ download' \in {"read", "ok"}
      BY <1>3, ChunkType DEF Chunk
    <2>1. CASE UNCHANGED <<logs, nextLog>> /\ bytes' = bytes + n
      <3>1. LogsAddUp'
        <4>1. \A k \in Nat : LoggedBefore(k)' = LoggedBefore(k)
          BY <2>1 DEF LoggedBefore
        <4>2. total' = LoggedBefore(N + 1) + bytes'
          <5>1. total = LoggedBefore(N + 1) + bytes
            BY DEF LogInv, LogsAddUp
          <5>2. total' = total + n
            BY <1>3 DEF Chunk
          <5> QED
            BY <1>c, <2>1, <5>1, <5>2 DEF TypeOK
        <4> QED
          BY <1>a, <2>1, <4>1, <4>2 DEF LogInv, LogsAddUp
      <3>2. OneLogPerInterval' /\ UNCHANGED LastLog
        BY <1>3, <2>1 DEF Chunk, LogInv, OneLogPerInterval, LastLog
      <3> QED
        BY <2>0, <2>1, <3>1, <3>2 DEF LogInv, NextInterval
    <2>2. CASE /\ LogDue
               /\ logs' = Append(logs, [at |-> now, bytes |-> bytes + n, total |-> total'])
               /\ bytes' = 0
               /\ nextLog' = NextInterval(now)
      <3> DEFINE log == [at |-> now, bytes |-> bytes + n, total |-> total + n]
      <3>1. logs' = Append(logs, log) /\ total' = total + n /\ UNCHANGED <<responded, now>>
        BY <1>3, <2>2 DEF Chunk, DownloadFrame, clock
      <3>2. /\ Len(logs') = N + 1 /\ DOMAIN logs' = 1..(N + 1)
            /\ logs'[N + 1] = log
            /\ \A k \in 1..N : logs'[k] = logs[k]
        <4> HIDE DEF log
        <4> QED
          BY <3>1 DEF TypeOK
      <3>3. log.at = now /\ log.bytes = bytes + n /\ log.total = total + n
        OBVIOUS
      <3> HIDE DEF log
      <3>4. \A k \in 1..(N + 1) : LoggedBefore(k)' = LoggedBefore(k)
        BY <3>2 DEF LoggedBefore
      <3>5. LogsAddUp'
        <4>1. total + n = LoggedBefore(N + 1) + (bytes + n)
          BY <1>c DEF LogInv, LogsAddUp, TypeOK
        <4>2. \A k \in 1..N : logs'[k].total = LoggedBefore(k)' + logs'[k].bytes
          BY <1>a, <3>2, <3>4 DEF LogInv, LogsAddUp
        <4>3. logs'[N + 1].total = LoggedBefore(N + 1)' + logs'[N + 1].bytes
          BY <3>2, <3>3, <3>4, <4>1
        <4>4. LoggedBefore(N + 2)' = total + n
          BY <3>2, <3>3 DEF LoggedBefore
        <4>5. total' = LoggedBefore(N + 2)' + bytes'
          BY <2>2, <3>1, <4>4 DEF TypeOK
        <4>6. Len(logs') + 1 = N + 2
          BY <3>2
        <4> QED
          BY <3>2, <4>2, <4>3, <4>5, <4>6 DEF LogsAddUp
      <3>6. LastLog' = now
        BY <3>2, <3>3 DEF LastLog
      <3>7. LastLog \div LogInterval < now \div LogInterval
        <4>1. now >= NextInterval(LastLog)
          BY <2>0, <2>2 DEF LogDue, LogInv
        <4> QED
          BY <1>d, <4>1, LaterInterval DEF TypeOK
      <3>8. OneLogPerInterval'
        <4> DEFINE previous(k) == IF k = 1 THEN responded ELSE logs'[k - 1].at
        <4>1. previous(N + 1) = LastLog
          BY <1>b, <3>2 DEF LastLog
        <4>2. previous(N + 1) \div LogInterval < logs'[N + 1].at \div LogInterval
          BY <3>2, <3>3, <3>7, <4>1
        <4>3. ASSUME NEW k \in 1..N
              PROVE  previous(k) \div LogInterval < logs'[k].at \div LogInterval
          <5>1. previous(k) = IF k = 1 THEN responded ELSE logs[k - 1].at
            BY <3>2
          <5> QED
            BY <1>a, <3>2, <5>1 DEF LogInv, OneLogPerInterval
        <4>4. \A k \in 1..(N + 1) : previous(k) \div LogInterval < logs'[k].at \div LogInterval
          BY <4>2, <4>3
        <4> QED
          BY <3>1, <3>2, <4>4 DEF OneLogPerInterval
      <3>9. nextLog' = NextInterval(LastLog)'
        BY <2>2, <3>6 DEF NextInterval
      <3> QED
        BY <2>0, <3>5, <3>8, <3>9 DEF LogInv
    <2> QED
      BY <1>3, <2>1, <2>2 DEF Chunk, ResetBytes, NextLog
  <1>4. CASE Join
    BY <1>1, <1>4 DEF Join, StartsDownload, LogInv, AnswerInv, TypeOK
  <1>5. CASE SendRequest \/ Ends \/ ChunkError
    BY <1>1, <1>5 DEF SendRequest, SendDue, Ends, ChunkError
  <1>6. CASE UNCHANGED <<download, readVars>>
    BY <1>1, <1>6
  <1> QED
    BY Steps, <1>2, <1>3, <1>4, <1>5, <1>6
       DEF Take, ReportBusy, ReportIdle, Publish, JoinEnds, RunFrame, Resolve, NextPing,
           PingReply, PingError, PingFrame, NextHead, HeadAnswer, HeadFrame, Tick, vars

----------------------------------------------------------------------------
(* The theorems *)

LEMMA Inductive == Spec => []IInv
  <1>1. IInv /\ [Next]_vars => IInv'
    BY StepType, StepLoop, StepAnswer, StepTime, StepLog DEF IInv
  <1> QED
    BY InitIInv, <1>1, PTL DEF Spec

\* Every variable of a run keeps its type.
THEOREM TypeCorrect == Spec => []TypeOK
  BY Inductive, PTL DEF IInv

\* Every byte of a download is counted in one interval.
THEOREM LogsAreComplete == Spec => []LogsAddUp
  BY Inductive, PTL DEF IInv, LogInv

\* A download writes at most one log in an interval of the wall clock.
THEOREM LogsAreAligned == Spec => []OneLogPerInterval
  BY Inductive, PTL DEF IInv, LogInv

\* No server holds a download longer than twice the maximum.
THEOREM DownloadIsBounded == Spec => []EndsWithinTwice
  <1>1. IInv => EndsWithinTwice
    BY DEF IInv, TimeInv, TypeOK, EndsWithinTwice
  <1> QED
    BY Inductive, <1>1, PTL

\* A request goes out at the moment the scheduler chose, later only by the time
\* its task was kept from running.
THEOREM DownloadIsTimely == Spec => DownloadsTogether
  <1>1. IInv /\ [Next]_vars =>
            [download = "wait" /\ download' = "send"
                 => now \in DownloadStartTime..(DownloadStartTime + delays)]_vars
    <2> SUFFICES ASSUME IInv, [Next]_vars, download = "wait", download' = "send"
                 PROVE  now \in DownloadStartTime..(DownloadStartTime + delays)
      OBVIOUS
    <2>1. now \in Nat /\ delays \in Nat /\ now <= DownloadStartTime + delays
      BY DEF IInv, TypeOK, TimeInv
    <2>2. SendRequest
      BY Steps DEF Take, ReportBusy, ReportIdle, Publish, Join, StartsDownload, JoinEnds, RunFrame,
         Resolve, NextPing, PingReply, PingError, PingFrame, NextHead, HeadAnswer, HeadFrame, Respond,
         Ends, ChunkError, Chunk, Tick, vars
    <2> QED
      BY <2>1, <2>2 DEF SendRequest, SendDue, DownloadStartTime, StartTime
  <1> QED
    BY Inductive, <1>1, PTL DEF DownloadsTogether, Spec

\* No ping is on its way while a download runs.
THEOREM DownloadIsQuiet == Spec => []QuietAtDownload
  <1>1. IInv => QuietAtDownload
    BY DEF IInv, TimeInv, TypeOK, QuietAtDownload, PingDue, LoopDeadline, DownloadStartTime,
           StartTime
  <1> QED
    BY Inductive, <1>1, PTL

\* A run that started is answered and its worker idle again.
THEOREM RunsAreAnswered == Spec => []AnsweredUnlessLate
  BY Inductive, PTL DEF IInv, AnswerInv

=============================================================================
