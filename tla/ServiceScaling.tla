--------------------------- MODULE ServiceScaling ---------------------------
(***************************************************************************)
(* The services a scheduler scales: the table services with the time at    *)
(* which each is to be descaled, the desired count the provider keeps, and *)
(* the three tasks that change them at the same time: the handler of the   *)
(* scaling sub jobs, the service descaler and the requests to /services.   *)
(*                                                                         *)
(* A scaler reads the desired count from the provider, then writes another *)
(* one: two steps.  All services belong to one topic and one provider.  A  *)
(* sub job is scaled, retries included, in less than the 30 minutes of a   *)
(* descale deadline (SERVICE_DESCALE_AT_DEADLINE_SEC).                     *)
(***************************************************************************)
EXTENDS Integers, FiniteSets

CONSTANTS
    Services,
    LocalModes,     \* the values of CONFIG.local_mode to consider
    TargetWorkers,  \* target_worker_count of the jobs
    MaxJobs,        \* bound: scaling sub jobs
    MaxFaults,      \* bound: failed calls
    MaxCrashes,     \* bound: crashes of the scheduler
    MaxRequests     \* bound: requests to /services, one at a time

ASSUME ServiceScalingAssumption ==
    /\ IsFiniteSet(Services)
    /\ LocalModes \subseteq BOOLEAN
    /\ TargetWorkers \in 1..40
    /\ {MaxJobs, MaxFaults, MaxCrashes, MaxRequests} \subseteq Nat

VARIABLES
    local_mode, \* DockerScaler scales, not FargateScaler
    rows,       \* tables services and service_topics
    desired,    \* the count the provider keeps for each service
    sub_job,    \* the scaling sub job at the head of the queue
    status,     \* its status
    armed,      \* it has set the descale deadlines
    turn,       \* the turn of the handler
    descale,    \* the round of the descaler
    request,    \* the request that is served
    faults, crashes, requests

bounds == <<faults, crashes, requests>>
vars == <<local_mode, rows, desired, sub_job, status, armed, turn, descale, request, bounds>>

ServiceRow == [state: {"absent", "present", "deleted"}, is_enabled: BOOLEAN,
               topic: BOOLEAN, descale_at: {"none", "ahead", "due"}]

NewRow == [state |-> "present", is_enabled |-> TRUE, topic |-> FALSE, descale_at |-> "none"]
DeletedRow == [state |-> "deleted", is_enabled |-> FALSE, topic |-> FALSE, descale_at |-> "none"]

\* i32::MAX
All == 2147483647

\* A call of a scaler between its read and its write.
Calls == [service: Services, seen: Nat]

\* A task works through todo; it has at most one call, and at most one service
\* it still has to finish (next) or whose deadline it is about to clear.
NoTurn == [step |-> "idle", todo |-> {}, each |-> 0, call |-> {}]
NoRound == [todo |-> {}, call |-> {}, clear |-> {}]
NoRequest == [kind |-> "none", todo |-> {}, call |-> {}, next |-> {}, clear |-> {}]

----------------------------------------------------------------------------
(* The repository and the scalers *)

Present == {s \in Services : rows[s].state = "present"}

\* get_services_enabled_by_topic
Enabled == {s \in Present : rows[s].is_enabled /\ rows[s].topic}

\* get_services_with_descale_deadline_reached
Due == {s \in Present : rows[s].descale_at = "due"}

\* set_descale_deadlines and clear_descale_deadline: of the rows there are
SetDescaleAt(S, t) ==
    rows' = [s \in Services |->
        IF s \in S \intersect Present THEN [rows[s] EXCEPT !.descale_at = t] ELSE rows[s]]

\* get_instance_count, get_service_info
ReadCount(s) == {[service |-> s, seen |-> desired[s]]}

\* scale_up, scale_down: no call when the count would stay as it was read.  The
\* exit status of docker compose is not looked at, it may have done nothing.
WriteCount(c, n) ==
    \/ desired' = IF n = c.seen THEN desired ELSE [desired EXCEPT ![c.service] = n]
    \/ local_mode /\ UNCHANGED desired

\* (mutant) without .max(0)
Decreased_NoFloor(n, amount) == n - amount

\* saturating_sub(amount).max(0)
Decreased(n, amount) == IF n > amount THEN n - amount ELSE 0

\* scale_each_by: target_worker_count.div_ceil(service_count)
ScaleEachBy(n) == (TargetWorkers + n - 1) \div n

Faults == faults < MaxFaults /\ faults' = faults + 1

----------------------------------------------------------------------------
(* process_scaling_created *)

HandlerFrame == UNCHANGED <<local_mode, sub_job, descale, request, crashes, requests>>

WriteStatus(s) ==
    /\ status' = s
    /\ armed' = FALSE
    /\ turn' = NoTurn

\* get_services_and_workers: a topic without services fails the sub job.
ReadServices ==
    /\ turn.step = "idle" /\ status = "Created"
    /\ \/ Enabled = {} /\ WriteStatus("Finished")
       \/ /\ Enabled # {}
          /\ turn' = [step |-> "arm", todo |-> Enabled,
                      each |-> ScaleEachBy(Cardinality(Enabled)), call |-> {}]
          /\ UNCHANGED <<status, armed>>
    /\ UNCHANGED <<rows, desired, faults>>
    /\ HandlerFrame

\* (mutant) the services are scaled without a deadline
SetDeadlines_Skipped ==
    /\ turn.step = "arm"
    /\ armed' = TRUE
    /\ turn' = [turn EXCEPT !.step = "scale"]
    /\ UNCHANGED <<rows, desired, status, faults>>
    /\ HandlerFrame

\* Then the sub job is Canceled if enough workers were online when it looked.
SetDeadlines ==
    /\ turn.step = "arm"
    /\ SetDescaleAt(turn.todo, "ahead")
    /\ armed' = TRUE
    /\ \E step \in {"cancel", "scale"} : turn' = [turn EXCEPT !.step = step]
    /\ UNCHANGED <<desired, status, faults>>
    /\ HandlerFrame

CancelSubJob ==
    /\ turn.step = "cancel"
    /\ WriteStatus("Finished")
    /\ UNCHANGED <<rows, desired, faults>>
    /\ HandlerFrame

ScaleUpReads(s) ==
    /\ turn.step = "scale" /\ turn.call = {} /\ s \in turn.todo
    /\ turn' = [turn EXCEPT !.todo = @ \ {s}, !.call = ReadCount(s)]
    /\ UNCHANGED <<rows, desired, status, armed, faults>>
    /\ HandlerFrame

ScaleUpWrites ==
    /\ \E c \in turn.call : WriteCount(c, c.seen + turn.each)
    /\ turn' = [turn EXCEPT !.call = {}]
    /\ UNCHANGED <<rows, status, armed, faults>>
    /\ HandlerFrame

Scaled == turn.step = "scale" /\ turn.todo = {} /\ turn.call = {}

\* (mutant) the status of the sub job is not written
StartSubJob_Forgotten ==
    /\ Scaled
    /\ turn' = NoTurn
    /\ UNCHANGED <<rows, desired, status, armed, faults>>
    /\ HandlerFrame

StartSubJob ==
    /\ Scaled
    /\ WriteStatus("Processing")
    /\ UNCHANGED <<rows, desired, faults>>
    /\ HandlerFrame

\* Skip: the next turn starts over with all services.
TurnFails ==
    /\ turn.step # "idle"
    /\ Faults
    /\ turn' = NoTurn
    /\ UNCHANGED <<rows, desired, status, armed>>
    /\ HandlerFrame

\* The workers came online, or the deadline of the sub job passed.
FinishSubJob ==
    /\ status = "Processing"
    /\ WriteStatus("Finished")
    /\ UNCHANGED <<rows, desired, faults>>
    /\ HandlerFrame

\* The scaling sub job of the next job gets to the head of the queue.
NextSubJob ==
    /\ status = "Finished"
    /\ sub_job < MaxJobs
    /\ sub_job' = sub_job + 1
    /\ status' = "Created"
    /\ UNCHANGED <<local_mode, rows, desired, armed, turn, descale, request, bounds>>

----------------------------------------------------------------------------
(* service_descaler_handler *)

DescalerFrame ==
    UNCHANGED <<local_mode, sub_job, status, armed, turn, request, crashes, requests>>

DescalerLists ==
    /\ descale = NoRound
    /\ Due # {}
    /\ descale' = [NoRound EXCEPT !.todo = Due]
    /\ UNCHANGED <<rows, desired, faults>>
    /\ DescalerFrame

DescalerReads(s) ==
    /\ descale.call = {} /\ descale.clear = {} /\ s \in descale.todo
    /\ descale' = [descale EXCEPT !.todo = @ \ {s}, !.call = ReadCount(s)]
    /\ UNCHANGED <<rows, desired, faults>>
    /\ DescalerFrame

\* (mutant) the deadline is cleared and the count is not written
DescalerWrites_NoScaling ==
    /\ \E c \in descale.call :
          descale' = [descale EXCEPT !.call = {}, !.clear = {c.service}]
    /\ UNCHANGED <<rows, desired, faults>>
    /\ DescalerFrame

DescalerWrites ==
    /\ \E c \in descale.call :
          /\ WriteCount(c, Decreased(c.seen, All))
          /\ descale' = [descale EXCEPT !.call = {}, !.clear = {c.service}]
    /\ UNCHANGED <<rows, faults>>
    /\ DescalerFrame

\* Whatever the deadline is by now.
DescalerClears ==
    /\ descale.clear # {}
    /\ SetDescaleAt(descale.clear, "none")
    /\ descale' = [descale EXCEPT !.clear = {}]
    /\ UNCHANGED <<desired, faults>>
    /\ DescalerFrame

\* The service is left to the next round.
DescalerFails ==
    /\ descale.call # {} \/ descale.clear # {}
    /\ Faults
    /\ descale' = [descale EXCEPT !.call = {}, !.clear = {}]
    /\ UNCHANGED <<rows, desired>>
    /\ DescalerFrame

----------------------------------------------------------------------------
(* Requests to /services *)

RequestFrame == UNCHANGED <<local_mode, sub_job, status, armed, turn, descale, crashes>>

Downs == {"down", "downAll"}

Amount(kind) == IF kind \in {"up", "down"} THEN 1 ELSE All

\* A request is answered when it has nothing left to do.
Goes(r) == request' = IF r.todo = {} /\ r.call = {} /\ r.next = {} /\ r.clear = {}
                      THEN NoRequest ELSE r

Accepts == request = NoRequest /\ requests < MaxRequests /\ requests' = requests + 1

RequestStarts ==
    /\ Accepts
    /\ \/ \E s \in Present, kind \in {"up", "down", "delete"} :
             request' = [NoRequest EXCEPT !.kind = kind, !.todo = {s}]
       \/ Goes([NoRequest EXCEPT !.kind = "downAll", !.todo = Present])
    /\ UNCHANGED <<rows, desired, faults>>
    /\ RequestFrame

\* update_service_set_enabled; a request that changes nothing is left out.
SetEnabled(s, is_enabled) == rows' = [rows EXCEPT ![s].is_enabled = is_enabled]

UpdateService ==
    /\ Accepts
    /\ \E s \in Present : SetEnabled(s, ~rows[s].is_enabled)
    /\ UNCHANGED <<desired, request, faults>>
    /\ RequestFrame

\* The row, then its topics.
CreateService(s) ==
    /\ Accepts
    /\ rows[s].state = "absent"
    /\ rows' = [rows EXCEPT ![s] = NewRow]
    /\ request' = [NoRequest EXCEPT !.kind = "create", !.next = {s}]
    /\ UNCHANGED <<desired, faults>>
    /\ RequestFrame

InsertTopics ==
    /\ request.kind = "create"
    /\ \E s \in request.next : rows' = [rows EXCEPT ![s].topic = TRUE]
    /\ request' = NoRequest
    /\ UNCHANGED <<desired, faults, requests>>
    /\ RequestFrame

RequestReads(s) ==
    /\ request.call = {} /\ request.next = {} /\ request.clear = {}
    /\ s \in request.todo
    /\ request' = [request EXCEPT !.todo = @ \ {s}, !.call = ReadCount(s)]
    /\ UNCHANGED <<rows, desired, faults, requests>>
    /\ RequestFrame

RequestScalesUp ==
    /\ request.kind = "up"
    /\ \E c \in request.call : WriteCount(c, c.seen + Amount("up"))
    /\ request' = NoRequest
    /\ UNCHANGED <<rows, faults, requests>>
    /\ RequestFrame

RequestScalesDown ==
    /\ request.kind # "up"
    /\ \E c \in request.call :
          /\ WriteCount(c, Decreased(c.seen, Amount(request.kind)))
          /\ request' = [request EXCEPT !.call = {}, !.next = {c.service}]
    /\ UNCHANGED <<rows, faults, requests>>
    /\ RequestFrame

\* get_info: a deadline is cleared when the count is down to 0.
RequestGetsInfo ==
    /\ request.kind \in Downs
    /\ \E s \in request.next :
          Goes([request EXCEPT !.next = {},
                               !.clear = IF ~local_mode /\ desired[s] = 0 THEN {s} ELSE {}])
    /\ UNCHANGED <<rows, desired, faults, requests>>
    /\ RequestFrame

RequestClears ==
    /\ request.clear # {}
    /\ SetDescaleAt(request.clear, "none")
    /\ Goes([request EXCEPT !.clear = {}])
    /\ UNCHANGED <<desired, faults, requests>>
    /\ RequestFrame

DeleteService ==
    /\ request.kind = "delete"
    /\ \E s \in request.next : rows' = [rows EXCEPT ![s] = DeletedRow]
    /\ request' = NoRequest
    /\ UNCHANGED <<desired, faults, requests>>
    /\ RequestFrame

\* Scaling down all services and deleting one go on, the others answer 500.
RequestFails ==
    /\ request # NoRequest
    /\ Faults
    /\ \/ /\ request.kind \in {"downAll", "delete"} /\ request.call # {}
          /\ request' = [request EXCEPT !.call = {}, !.next = {c.service : c \in request.call}]
       \/ /\ request.kind = "downAll" /\ request.call = {}
          /\ Goes([request EXCEPT !.next = {}, !.clear = {}])
       \/ /\ request.kind \in {"up", "down", "create"} \/ request.next # {}
          /\ request.kind # "downAll"
          /\ request' = NoRequest
    /\ UNCHANGED <<rows, desired, requests>>
    /\ RequestFrame

----------------------------------------------------------------------------
(* Time and crashes *)

DeadlinePasses(s) ==
    /\ rows[s].descale_at = "ahead"
    /\ ~armed
    /\ rows' = [rows EXCEPT ![s].descale_at = "due"]
    /\ UNCHANGED <<local_mode, desired, sub_job, status, armed, turn, descale, request,
                   bounds>>

SchedulerCrashes ==
    /\ crashes < MaxCrashes
    /\ crashes' = crashes + 1
    /\ turn' = NoTurn /\ descale' = NoRound /\ request' = NoRequest
    /\ UNCHANGED <<local_mode, rows, desired, sub_job, status, armed, faults, requests>>

----------------------------------------------------------------------------
Init ==
    /\ local_mode \in LocalModes
    /\ rows \in [Services -> {[NewRow EXCEPT !.topic = TRUE], [DeletedRow EXCEPT !.state = "absent"]}]
    /\ desired = [s \in Services |-> 0]
    /\ sub_job = 1 /\ status = "Created" /\ armed = FALSE
    /\ turn = NoTurn /\ descale = NoRound /\ request = NoRequest
    /\ faults = 0 /\ crashes = 0 /\ requests = 0

Handler ==
    \/ ReadServices \/ SetDeadlines \/ CancelSubJob
    \/ \E s \in Services : ScaleUpReads(s)
    \/ ScaleUpWrites \/ StartSubJob \/ FinishSubJob
    \/ TurnFails

Descaler ==
    \/ DescalerLists
    \/ \E s \in Services : DescalerReads(s)
    \/ DescalerWrites \/ DescalerClears \/ DescalerFails

Request ==
    \/ \E s \in Services : RequestReads(s)
    \/ InsertTopics \/ RequestScalesUp \/ RequestScalesDown \/ RequestGetsInfo
    \/ RequestClears \/ DeleteService \/ RequestFails

Next ==
    \/ Handler
    \/ NextSubJob
    \/ Descaler
    \/ RequestStarts \/ UpdateService
    \/ \E s \in Services : CreateService(s)
    \/ Request
    \/ \E s \in Services : DeadlinePasses(s)
    \/ SchedulerCrashes

Spec == Init /\ [][Next]_vars

\* The tasks run and time goes by; requests and jobs need not come.
FairSpec ==
    /\ Spec
    /\ WF_vars(Handler)
    /\ WF_vars(Descaler)
    /\ WF_vars(Request)
    /\ \A s \in Services : WF_vars(DeadlinePasses(s))

----------------------------------------------------------------------------
(* Properties *)

AtMostOne(S) == \A x, y \in S : x = y

\* The type of every variable: no count below zero.
TypeOK ==
    /\ local_mode \in BOOLEAN
    /\ rows \in [Services -> ServiceRow]
    /\ desired \in [Services -> Nat]
    /\ sub_job \in 1..(MaxJobs + 1)
    /\ status \in {"Created", "Processing", "Finished"}
    /\ armed \in BOOLEAN
    /\ turn.step \in {"idle", "arm", "cancel", "scale"} /\ turn.each \in Nat
    /\ request.kind \in Downs \union {"none", "up", "delete", "create"}
    /\ turn.todo \union descale.todo \union request.todo \subseteq Services
    /\ descale.clear \union request.next \union request.clear \subseteq Services
    /\ turn.call \union descale.call \union request.call \subseteq Calls
    /\ \A S \in {turn.call, descale.call, descale.clear,
                 request.call, request.next, request.clear} : AtMostOne(S)
    /\ faults \in 0..MaxFaults /\ crashes \in 0..MaxCrashes /\ requests \in 0..MaxRequests

\* No service gets more workers than the target of every job, once more for
\* every fault or crash that makes a sub job start over, and one for every
\* request: the reads and writes of the tasks interleave, but a write is never
\* above a count that was there plus what its task adds (sub_job_scaling.rs:97).
ScaledPerAttempt ==
    \A s \in Services :
        desired[s] <= TargetWorkers * (sub_job + faults + crashes) + requests

\* Nobody but the descaler has raced the first scaling sub job so far: no
\* request came and no second sub job, no scaling is silently skipped, and no
\* count can have reached what the descaler takes away.
Undisturbed ==
    /\ requests = 0 /\ sub_job = 1 /\ local_mode = FALSE
    /\ TargetWorkers * (1 + faults + crashes) <= All

\* README.md:123 "Workers are scaled up to complete the job, workers will be
\* descaled after set time": a service with workers is due to be descaled, in
\* every state, whatever step of its scaling or descaling fails, until another
\* task interferes (see ServiceScaling_doc_leak.cfg for one that does).
DatedUntilDisturbed ==
    Undisturbed => \A s \in Services : desired[s] > 0 => rows[s].descale_at # "none"

\* And it happens: when no more jobs come, no worker is left.
EventuallyDescaled == <>[](\A s \in Services : desired[s] = 0)

=============================================================================
