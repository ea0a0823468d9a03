----------------------------- MODULE WorkerRun -----------------------------
(***************************************************************************)
(* The run of one benchmark message by a worker (job_consumer.rs): its     *)
(* start and download are put off to the moments the scheduler chose, so   *)
(* that all workers download at once, and the three measurements           *)
(* (download.rs, ping.rs, head.rs) are joined in one task.                 *)
(*                                                                         *)
(* Time is discrete.  Time that passes while the worker could go on is a   *)
(* delay: the task is not polled, or the name lookup of the ping, which    *)
(* blocks its thread, keeps it.  An await on the network ends at any time; *)
(* only a ping and a chunk have a timeout.                                 *)
(***************************************************************************)
EXTENDS Naturals, Sequences

CONSTANTS
    SyncDelay,      \* SYNC_DELAY_SECS
    DownloadDelay,  \* DOWNLOAD_DELAY_SECS
    Margin,         \* what the loops of ping and head stay away from the download
    MaxDuration,    \* MAX_DOWNLOAD_DURATION
    LogInterval,    \* log_interval_ms
    Pings,          \* seq_max
    Heads,          \* num_requests
    PingTimeout,    \* timeout of surge_ping
    MaxChunk,       \* bound: bytes of a chunk
    MaxBytes,       \* bound: bytes of a response
    MaxDelays,      \* bound: units of time lost
    MaxFailures,    \* bound: messages that cannot be published
    LatestAnswer    \* bound: no call but for a chunk waits beyond this moment

ASSUME WorkerRunAssumption ==
    /\ {SyncDelay, DownloadDelay, Margin, MaxDelays, MaxFailures, LatestAnswer} \subseteq Nat
    /\ {MaxDuration, LogInterval, Pings, Heads, MaxChunk, MaxBytes} \subseteq Nat \ {0}
    /\ Margin <= DownloadDelay
    /\ PingTimeout \in 0..Margin

\* The message is published at time 0.
StartTime == SyncDelay
DownloadStartTime == StartTime + DownloadDelay

\* (mutant) the loops go on until the download
LoopDeadline_NoMargin == DownloadStartTime

LoopDeadline == DownloadStartTime - Margin

RunSteps == {"queued", "report", "sleep", "join", "idle", "publish", "acked"}
DownloadSteps == {"off", "wait", "send", "read", "ok", "err"}
PingSteps == {"off", "resolve", "next", "wait", "ok", "err"}
HeadSteps == {"off", "next", "wait", "ok", "err"}
Finished == {"ok", "err"}

VARIABLES
    now,
    delays,
    failures,
    run,        \* the next step of process_message
    busy,       \* the job status reported last
    result,     \* the result that was published
    ping,       \* [step, sent, replies, since]
    head,       \* [step, answered]
    download,   \* the next step of download::process
    responded,  \* download_start_time of the result
    awaited,    \* when the chunk was asked for
    bytes, total, nextLog,
    logs        \* second_by_second_logs

clock == <<now, delays>>
runVars == <<run, busy, result, failures>>
readVars == <<responded, awaited, bytes, total, nextLog, logs>>
vars == <<clock, runVars, ping, head, download, readVars>>

\* A failure to publish is logged and forgotten.
Fails == failures < MaxFailures /\ failures' = failures + 1

----------------------------------------------------------------------------
(* process_message *)

RunFrame == UNCHANGED <<clock, ping, head, download, readVars>>

\* A message for others, or none that can be read, is acknowledged only; one
\* that comes too late is answered at once, without a job status.
Take ==
    /\ run = "queued"
    /\ \/ run' = "acked"
       \/ run' = IF StartTime < now THEN "publish" ELSE "report"
    /\ UNCHANGED <<busy, result, failures>>
    /\ RunFrame

\* A start that has passed by now is an error: no sleep, no result.
ReportBusy ==
    /\ run = "report"
    /\ \/ busy' = TRUE /\ UNCHANGED failures
       \/ Fails /\ UNCHANGED busy
    /\ run' = IF StartTime < now THEN "acked" ELSE "sleep"
    /\ UNCHANGED result
    /\ RunFrame

\* wait_for_start_time, up to its sleep.
StartsDownload == IF DownloadStartTime < now THEN "err" ELSE "wait"

\* join! polls the download, then the ping, and the head not before the ping's
\* name lookup is done.
Join ==
    /\ run = "sleep"
    /\ now >= StartTime
    /\ run' = "join"
    /\ download' = StartsDownload
    /\ ping' = [ping EXCEPT !.step = "resolve"]
    /\ UNCHANGED <<clock, busy, result, failures, head, readVars>>

Joined == {download, ping.step, head.step} \subseteq Finished

JoinEnds ==
    /\ run = "join"
    /\ Joined
    /\ run' = "idle"
    /\ UNCHANGED <<busy, result, failures>>
    /\ RunFrame

\* (mutant) the status is forgotten when a measurement failed
Idle_OnSuccess == busy' = (busy /\ download = "err")

Idle == busy' = FALSE

ReportIdle ==
    /\ run = "idle"
    /\ \/ Idle /\ UNCHANGED failures
       \/ Fails /\ UNCHANGED busy
    /\ run' = "publish"
    /\ UNCHANGED result
    /\ RunFrame

\* The download decides; acknowledged in any case.
Publish ==
    /\ run = "publish"
    /\ \/ /\ result' = IF download = "off" THEN "aborted"
                       ELSE IF download = "ok" THEN "success" ELSE "failure"
          /\ UNCHANGED failures
       \/ Fails /\ UNCHANGED result
    /\ run' = "acked"
    /\ UNCHANGED busy
    /\ RunFrame

----------------------------------------------------------------------------
(* ping.rs and head.rs *)

\* What a loop counted is gone when it ends.
NoPing == [step |-> "off", sent |-> 0, replies |-> 0, since |-> 0]
NoHead == [step |-> "off", answered |-> 0]

PingFrame == UNCHANGED <<clock, runVars, head, download, readVars>>
HeadFrame == UNCHANGED <<clock, runVars, ping, download, readVars>>

\* The name lookup blocks the thread, and with it the whole join.
Resolve ==
    /\ ping.step = "resolve"
    /\ \E s \in {"next", "err"} : ping' = [ping EXCEPT !.step = s]
    /\ head' = [head EXCEPT !.step = "next"]
    /\ UNCHANGED <<clock, runVars, download, readVars>>

\* (mutant) a ping that is lost is repeated
AllPings_Replied == ping.replies = Pings

AllPings == ping.sent = Pings

PingOutcome == IF ping.replies < Pings \div 2 THEN "err" ELSE "ok"

NextPing ==
    /\ ping.step = "next"
    /\ ping' = IF AllPings \/ now >= LoopDeadline
               THEN [NoPing EXCEPT !.step = PingOutcome]
               ELSE [ping EXCEPT !.step = "wait", !.sent = @ + 1, !.since = now]
    /\ PingFrame

PingReply ==
    /\ ping.step = "wait"
    /\ ping' = [ping EXCEPT !.step = "next", !.replies = @ + 1, !.since = 0]
    /\ PingFrame

\* An error of any kind is skipped.
PingError ==
    /\ ping.step = "wait"
    /\ ping' = [ping EXCEPT !.step = "next", !.since = 0]
    /\ PingFrame

PingDue == ping.step = "wait" /\ now >= ping.since + PingTimeout

HeadOutcome == IF head.answered = 0 THEN "err" ELSE "ok"

NextHead ==
    /\ head.step = "next"
    /\ head' = IF head.answered = Heads \/ now >= LoopDeadline
               THEN [NoHead EXCEPT !.step = HeadOutcome]
               ELSE [head EXCEPT !.step = "wait"]
    /\ HeadFrame

\* One error ends the loop.
HeadAnswer ==
    /\ head.step = "wait"
    /\ \/ head' = [head EXCEPT !.step = "next", !.answered = @ + 1]
       \/ head' = [NoHead EXCEPT !.step = "err"]
    /\ HeadFrame

----------------------------------------------------------------------------
(* download.rs *)

DownloadFrame == UNCHANGED <<clock, runVars, ping, head>>

\* calculate_next_interval
NextInterval(t) == t + (LogInterval - (t % LogInterval))

\* (mutant) the next log is due one interval after the last one was due
NextLog_Drifting == nextLog + LogInterval

NextLog == NextInterval(now)

\* (mutant) sleeps until the other moment of the message
SendDue_OfRun == download = "wait" /\ now >= StartTime

SendDue == download = "wait" /\ now >= DownloadStartTime

SendRequest ==
    /\ SendDue
    /\ ping.step # "resolve"
    /\ download' = "send"
    /\ UNCHANGED readVars
    /\ DownloadFrame

\* The headers of the response, or an error or an unsuccessful status.
Respond ==
    /\ download = "send"
    /\ \/ /\ download' = "read"
          /\ responded' = now
          /\ awaited' = now
          /\ nextLog' = NextInterval(now)
          /\ UNCHANGED <<bytes, total, logs>>
       \/ /\ download' = "err"
          /\ UNCHANGED readVars
    /\ DownloadFrame

\* (mutant) the time since the last chunk
Elapsed_OfChunk == now - awaited

Elapsed == now - responded

\* (mutant) the bytes of an interval count in the next one as well
ResetBytes_Forgotten(n) == bytes + n

\* What has come in since the last log, when one is written with this chunk.
ResetBytes(n) == 0

LogDue == now >= nextLog

Chunk(n) ==
    /\ download = "read"
    /\ total' = total + n
    /\ awaited' = now
    /\ IF Elapsed >= MaxDuration
       THEN /\ download' = "ok"
            /\ bytes' = bytes + n
            /\ UNCHANGED <<nextLog, logs>>
       ELSE /\ UNCHANGED download
            /\ IF LogDue
               THEN /\ logs' = Append(logs, [at |-> now, bytes |-> bytes + n, total |-> total'])
                    /\ bytes' = ResetBytes(n)
                    /\ nextLog' = NextLog
               ELSE /\ bytes' = bytes + n
                    /\ UNCHANGED <<nextLog, logs>>
    /\ UNCHANGED responded
    /\ DownloadFrame

\* The end of the stream, and a chunk that does not come in time, are the same.
Ends ==
    /\ download = "read"
    /\ download' = IF total = 0 THEN "err" ELSE "ok"
    /\ UNCHANGED readVars
    /\ DownloadFrame

ChunkDue == download = "read" /\ now >= awaited + MaxDuration

\* (mutant) download_chunk waits as long as it takes
ChunkTimeout_None == FALSE

ChunkTimeout == ChunkDue /\ Ends

ChunkError ==
    /\ download = "read"
    /\ download' = "err"
    /\ UNCHANGED readVars
    /\ DownloadFrame

----------------------------------------------------------------------------
(* Time *)

\* The worker could go on.
Due ==
    \/ run = "sleep" /\ now >= StartTime
    \/ run = "join" /\ Joined
    \/ "next" \in {ping.step, head.step}
    \/ PingDue \/ SendDue \/ ChunkDue

\* The worker waits for somebody who has all the time.
Pending ==
    \/ run \in {"queued", "report", "idle", "publish"}
    \/ ping.step = "resolve" \/ head.step = "wait" \/ download = "send"

Tick ==
    /\ run # "acked"
    /\ Pending => now < LatestAnswer
    /\ Due => delays < MaxDelays
    /\ now' = now + 1
    /\ delays' = IF Due THEN delays + 1 ELSE delays
    /\ UNCHANGED <<runVars, ping, head, download, readVars>>

----------------------------------------------------------------------------
Init ==
    /\ now = 0 /\ delays = 0 /\ failures = 0
    /\ run = "queued" /\ busy = FALSE /\ result = "none"
    /\ ping = NoPing /\ head = NoHead
    /\ download = "off"
    /\ responded = 0 /\ awaited = 0
    /\ bytes = 0 /\ total = 0 /\ nextLog = 0 /\ logs = <<>>

\* What the worker does by itself.
Worker ==
    \/ Join \/ JoinEnds
    \/ NextPing \/ (PingDue /\ PingError)
    \/ NextHead
    \/ SendRequest \/ ChunkTimeout

\* What ends sooner or later, although nothing limits it.
Answers ==
    \/ Take \/ ReportBusy \/ ReportIdle \/ Publish
    \/ Resolve \/ HeadAnswer \/ Respond

\* What may come or not.
Network ==
    \/ PingReply \/ PingError
    \/ \E n \in 1..MaxChunk : total + n <= MaxBytes /\ Chunk(n)
    \/ Ends \/ ChunkError

Next == Worker \/ Answers \/ Network \/ Tick

Spec == Init /\ [][Next]_vars

\* Time passes, a task that can go on is polled, and whoever is asked answers,
\* but for the pings and the chunks.
Fairness == WF_vars(Tick) /\ WF_vars(Worker) /\ WF_vars(Answers)

FairSpec == Spec /\ Fairness

----------------------------------------------------------------------------
(* Properties *)

\* The type of every variable.
TypeOK ==
    /\ now \in Nat
    /\ delays \in 0..MaxDelays /\ failures \in 0..MaxFailures
    /\ run \in RunSteps /\ busy \in BOOLEAN
    /\ result \in {"none", "aborted", "success", "failure"}
    /\ ping \in [step: PingSteps, sent: 0..Pings, replies: 0..Pings, since: Nat]
    /\ head \in [step: HeadSteps, answered: 0..Heads]
    /\ download \in DownloadSteps
    /\ responded \in Nat /\ awaited \in Nat /\ nextLog \in Nat
    /\ bytes \in 0..total /\ total \in Nat
    /\ logs \in Seq([at: Nat, bytes: Nat, total: Nat])

\* The accumulated bytes of the log before the k-th.
LoggedBefore(k) == IF k = 1 THEN 0 ELSE logs[k - 1].total

\* Every byte is in one interval: each log accumulates those before it and its
\* own interval, and what no log has is what came in after the last one
\* (download.rs:115-142), whether the download ended, stalled or was cut off.
LogsAddUp ==
    /\ \A k \in DOMAIN logs : logs[k].total = LoggedBefore(k) + logs[k].bytes
    /\ total = LoggedBefore(Len(logs) + 1) + bytes

\* The logs of two workers can be laid side by side: however the chunks come, a
\* download writes at most one log in each interval of the wall clock, and none
\* in the one it began in (download.rs:29-34, 144).
OneLogPerInterval ==
    \A k \in DOMAIN logs :
        LET previous == IF k = 1 THEN responded ELSE logs[k - 1].at IN
        previous \div LogInterval < logs[k].at \div LogInterval

\* The workers download at the same time: whenever the message came, and however
\* long the name lookup or the reports took, a request that is sent goes out at
\* the moment the scheduler chose, later only by the time its task was kept from
\* running (download.rs:37-59, job_consumer.rs:89).
DownloadsTogether ==
    [][download = "wait" /\ download' = "send"
          => now \in DownloadStartTime..(DownloadStartTime + delays)]_vars

\* A server cannot hold a download longer than twice the maximum: not by
\* sending a little all the time, not by stopping just before the maximum
\* (download.rs:62-70, 119-127).  This is the time the scheduler adds to the
\* start of the download for the deadline of the sub job.
EndsWithinTwice == download = "read" => now < responded + 2 * MaxDuration + delays

\* "Download deadline, job will succeed but won't work/download more than this
\* duration" (download.rs:13).
EndsWithinMax == download = "read" => now <= responded + MaxDuration

\* No ping is on its way while the download runs (ping.rs:17, 58): the loop
\* stops early enough for the last timeout, even if the name lookup or the task
\* was late.
QuietAtDownload == download \in {"send", "read"} /\ ping.step = "wait" => PingDue

\* A run that started is answered, and its worker idle again, unless a message
\* could not be published; only when the start passes while the job status is
\* being sent there is no result, and the worker stays busy (job_consumer.rs:89).
AnsweredUnlessLate ==
    run = "acked" /\ failures = 0 =>
        \/ result # "none" /\ ~busy
        \/ result = "none" /\ download = "off"

\* A worker gets rid of every message: stalled or endless downloads, lost pings
\* and missed moments end a run, and never keep its consumer
\* (job_consumer.rs:91, 169).
EventuallyAcked == <>(run = "acked")

=============================================================================
