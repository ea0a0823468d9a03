----------------------- MODULE ServiceScaling_proofs -----------------------
(***************************************************************************)
(* The invariants of ServiceScaling for any number of services, jobs,      *)
(* faults, crashes and requests.                                           *)
(*                                                                         *)
(* ScaledPerAttempt is not inductive: a task between its read and its      *)
(* write carries a count that was there earlier.  BudgetInv bounds every   *)
(* count, kept by the provider or carried by a task, by what the attempts  *)
(* so far may have added; the present attempt counts for a service only    *)
(* when it has scaled it.                                                  *)
(*                                                                         *)
(* DatedUntilDisturbed is about the states before a request or a second    *)
(* sub job, which race with whoever clears a deadline.  That nobody has    *)
(* interfered so far goes backwards along a behaviour (DisturbedForGood),  *)
(* so DatedInv, which says what the handler and the descaler rely on, need *)
(* only be kept by the steps between two undisturbed states (Alone).       *)
(***************************************************************************)
EXTENDS ServiceScaling, FiniteSetTheorems, TLAPS

Turn == [step: {"idle", "arm", "cancel", "scale"}, todo: SUBSET Services, each: Nat,
         call: SUBSET Calls]
Round == [todo: SUBSET Services, call: SUBSET Calls, clear: SUBSET Services]
Requested == [kind: Downs \union {"none", "up", "delete", "create"}, todo: SUBSET Services,
              call: SUBSET Calls, next: SUBSET Services, clear: SUBSET Services]

TurnInv ==
    /\ turn \in Turn /\ AtMostOne(turn.call) /\ turn.each <= TargetWorkers
    /\ \A c \in turn.call : turn.step = "scale" /\ c.service \notin turn.todo

RoundInv == descale \in Round /\ AtMostOne(descale.call) /\ AtMostOne(descale.clear)

RequestInv ==
    /\ request \in Requested
    /\ AtMostOne(request.call) /\ AtMostOne(request.next) /\ AtMostOne(request.clear)

RowsInv == rows \in [Services -> ServiceRow]

CountInv ==
    /\ local_mode \in BOOLEAN /\ armed \in BOOLEAN
    /\ desired \in [Services -> Nat]
    /\ sub_job \in 1..(MaxJobs + 1) /\ status \in {"Created", "Processing", "Finished"}
    /\ faults \in 0..MaxFaults /\ crashes \in 0..MaxCrashes /\ requests \in 0..MaxRequests

TypeInv == TurnInv /\ RoundInv /\ RequestInv /\ RowsInv /\ CountInv

\* The attempts to scale, and whether the present one has not scaled s yet.
Attempts == sub_job + faults + crashes

Unscaled(s) ==
    \/ turn.step = "idle" /\ status = "Created"
    \/ turn.step \in {"arm", "cancel"}
    \/ turn.step = "scale" /\ (s \in turn.todo \/ \E c \in turn.call : c.service = s)

\* What the attempts may have added to s so far, and the requests.
Scalings(s) == IF Unscaled(s) THEN Attempts - 1 ELSE Attempts
Raises == IF request.kind = "up" THEN requests - 1 ELSE requests
Limit(s) == TargetWorkers * Scalings(s) + Raises

BudgetInv ==
    \A s \in Services :
        /\ desired[s] <= Limit(s)
        /\ \A c \in turn.call \union descale.call \union request.call :
               c.service = s => c.seen <= Limit(s)

\* A request to scale up was counted when it began.
RaiseInv == request.kind = "up" => requests > 0

IInv == TypeInv /\ RaiseInv /\ BudgetInv

----------------------------------------------------------------------------
(* Lemmas *)

LEMMA ConstantTypes ==
    /\ IsFiniteSet(Services) /\ LocalModes \subseteq BOOLEAN
    /\ TargetWorkers \in Nat /\ TargetWorkers > 0
    /\ MaxJobs \in Nat /\ MaxFaults \in Nat /\ MaxCrashes \in Nat /\ MaxRequests \in Nat
  BY ServiceScalingAssumption

USE ConstantTypes

\* Every step is one of these.
LEMMA Steps ==
    ASSUME [Next]_vars
    PROVE  \/ ReadServices \/ SetDeadlines \/ CancelSubJob
           \/ \E s \in Services : ScaleUpReads(s)
           \/ ScaleUpWrites \/ StartSubJob \/ FinishSubJob \/ TurnFails \/ NextSubJob
           \/ DescalerLists \/ \E s \in Services : DescalerReads(s)
           \/ DescalerWrites \/ DescalerClears \/ DescalerFails
           \/ RequestStarts \/ UpdateService \/ \E s \in Services : CreateService(s)
           \/ \E s \in Services : RequestReads(s)
           \/ InsertTopics \/ RequestScalesUp \/ RequestScalesDown \/ RequestGetsInfo
           \/ RequestClears \/ DeleteService \/ RequestFails
           \/ \E s \in Services : DeadlinePasses(s)
           \/ SchedulerCrashes \/ UNCHANGED vars
  BY DEF Next, Handler, Descaler, Request

\* The share of a service is no more than the target.
LEMMA DivCeil ==
    ASSUME NEW n \in Nat, n > 0
    PROVE  ScaleEachBy(n) \in Nat /\ ScaleEachBy(n) <= TargetWorkers
  <1>1. (TargetWorkers - 1) * (n - 1) >= 0
    BY SMT
  <1>2. TargetWorkers + n - 1 <= TargetWorkers * n
    BY <1>1, SMT
  <1> QED
    BY <1>2, SMT DEF ScaleEachBy

LEMMA EachType ==
    Enabled # {} => /\ ScaleEachBy(Cardinality(Enabled)) \in Nat
                    /\ ScaleEachBy(Cardinality(Enabled)) <= TargetWorkers
  <1>1. IsFiniteSet(Enabled)
    BY FS_Subset DEF Enabled, Present
  <1>2. Enabled # {} => Cardinality(Enabled) \in Nat /\ Cardinality(Enabled) > 0
    BY <1>1, FS_CardinalityType, FS_EmptySet
  <1> QED
    BY <1>2, DivCeil

LEMMA ReadCountType ==
    ASSUME CountInv, NEW s \in Services
    PROVE  ReadCount(s) \subseteq Calls /\ AtMostOne(ReadCount(s))
  BY DEF CountInv, ReadCount, Calls, AtMostOne

\* A scaler writes the count of its service, or nothing.
LEMMA WriteCountEffect ==
    ASSUME CountInv, NEW c \in Calls, NEW n \in Nat, WriteCount(c, n)
    PROVE  /\ desired' \in [Services -> Nat]
           /\ \A s \in Services : desired'[s] = desired[s] \/ (s = c.service /\ desired'[s] = n)
  BY DEF CountInv, WriteCount, Calls

LEMMA DecreasedType ==
    ASSUME NEW n \in Nat, NEW amount \in Nat
    PROVE  Decreased(n, amount) \in Nat /\ Decreased(n, amount) <= n
  BY DEF Decreased

LEMMA SetDescaleAtType ==
    ASSUME RowsInv, NEW S, NEW t \in {"none", "ahead", "due"}, SetDescaleAt(S, t)
    PROVE  RowsInv'
  <1>1. \A s \in Services : [rows[s] EXCEPT !.descale_at = t] \in ServiceRow
    BY DEF RowsInv, ServiceRow
  <1> QED
    BY <1>1 DEF SetDescaleAt, RowsInv

----------------------------------------------------------------------------
(* One lemma for each part of TypeInv *)

LEMMA StepTurn == TypeInv /\ [Next]_vars => TurnInv'
  <1> SUFFICES ASSUME TypeInv, [Next]_vars PROVE TurnInv'
    OBVIOUS
  <1> USE DEF TurnInv
  <1>0. TurnInv /\ CountInv
    BY DEF TypeInv
  <1>1. CASE UNCHANGED turn
    BY <1>0, <1>1
  <1>2. CASE turn' = NoTurn
    BY <1>2 DEF NoTurn, Turn, AtMostOne
  <1>3. CASE ReadServices
    <2>1. CASE turn' = [step |-> "arm", todo |-> Enabled,
                        each |-> ScaleEachBy(Cardinality(Enabled)), call |-> {}] /\ Enabled # {}
      <3>1. Enabled \subseteq Services
        BY DEF Enabled, Present
      <3> DEFINE each == ScaleEachBy(Cardinality(Enabled))
      <3>2. each \in Nat /\ each <= TargetWorkers
        BY <2>1, EachType
      <3> HIDE DEF each
      <3>3. turn' = [step |-> "arm", todo |-> Enabled, each |-> each, call |-> {}]
        BY <2>1 DEF each
      <3> QED
        BY <3>1, <3>2, <3>3 DEF Turn, AtMostOne
    <2> QED
      BY <1>2, <1>3, <2>1 DEF ReadServices, WriteStatus
  <1>4. CASE SetDeadlines
    BY <1>0, <1>4 DEF SetDeadlines, Turn
  <1>5. ASSUME NEW s \in Services, ScaleUpReads(s)
        PROVE  TurnInv'
    <2>1. turn' = [turn EXCEPT !.todo = turn.todo \ {s}, !.call = ReadCount(s)] /\ turn.step = "scale"
      BY <1>5 DEF ScaleUpReads
    <2>2. \A c \in ReadCount(s) : c.service = s
      BY DEF ReadCount
    <2> QED
      BY <1>0, <2>1, <2>2, ReadCountType DEF Turn
  <1>6. CASE ScaleUpWrites
    BY <1>0, <1>6 DEF ScaleUpWrites, Turn, AtMostOne
  <1> QED
    BY Steps, <1>1, <1>2, <1>3, <1>4, <1>5, <1>6
       DEF CancelSubJob, StartSubJob, FinishSubJob, WriteStatus, TurnFails, NextSubJob,
           DescalerLists, DescalerReads, DescalerWrites, DescalerClears, DescalerFails,
           DescalerFrame, RequestStarts, UpdateService, SetEnabled, CreateService, RequestReads,
           InsertTopics, RequestScalesUp, RequestScalesDown, RequestGetsInfo, RequestClears,
           DeleteService, RequestFails, RequestFrame, DeadlinePasses, SchedulerCrashes, vars

LEMMA StepRound == TypeInv /\ [Next]_vars => RoundInv'
  <1> SUFFICES ASSUME TypeInv, [Next]_vars PROVE RoundInv'
    OBVIOUS
  <1> USE DEF RoundInv
  <1>0. RoundInv /\ CountInv
    BY DEF TypeInv
  <1>1. CASE UNCHANGED descale
    BY <1>0, <1>1
  <1>2. CASE SchedulerCrashes
    BY <1>2 DEF SchedulerCrashes, NoRound, Round, AtMostOne
  <1>3. CASE DescalerLists
    BY <1>3 DEF DescalerLists, NoRound, Round, Due, Present, AtMostOne
  <1>4. ASSUME NEW s \in Services, DescalerReads(s)
        PROVE  RoundInv'
    BY <1>0, <1>4, ReadCountType DEF DescalerReads, Round
  <1>5. CASE DescalerWrites
    <2> PICK c \in descale.call : descale' = [descale EXCEPT !.call = {}, !.clear = {c.service}]
      BY <1>5 DEF DescalerWrites
    <2>1. c.service \in Services
      BY <1>0 DEF Round, Calls
    <2> QED
      BY <1>0, <2>1 DEF Round, AtMostOne
  <1>6. CASE DescalerClears \/ DescalerFails
    BY <1>0, <1>6 DEF DescalerClears, DescalerFails, Round, AtMostOne
  <1> QED
    BY Steps, <1>1, <1>2, <1>3, <1>4, <1>5, <1>6
       DEF ReadServices, SetDeadlines, CancelSubJob, ScaleUpReads, ScaleUpWrites, StartSubJob,
           FinishSubJob, TurnFails, HandlerFrame, NextSubJob, RequestStarts, UpdateService, SetEnabled,
           CreateService, RequestReads, InsertTopics, RequestScalesUp, RequestScalesDown,
           RequestGetsInfo, RequestClears, DeleteService, RequestFails, RequestFrame,
           DeadlinePasses, vars

LEMMA NoRequestType == NoRequest \in Requested /\ NoRequest.call = {} /\ NoRequest.next = {}
                       /\ NoRequest.clear = {} /\ NoRequest.kind = "none"
  BY DEF NoRequest, Requested, Downs

LEMMA StepRequest == TypeInv /\ [Next]_vars => RequestInv'
  <1> SUFFICES ASSUME TypeInv, [Next]_vars PROVE RequestInv'
    OBVIOUS
  <1> USE DEF RequestInv
  <1>0. RequestInv /\ CountInv
    BY DEF TypeInv
  <1>1. CASE UNCHANGED request
    BY <1>0, <1>1
  <1>2. CASE request' = NoRequest
    BY <1>2, NoRequestType DEF AtMostOne
  <1>3. CASE RequestStarts
    <2>1. ASSUME NEW s \in Services, NEW kind \in {"up", "down", "delete"},
                 request' = [NoRequest EXCEPT !.kind = kind, !.todo = {s}]
          PROVE  RequestInv'
      BY <2>1 DEF NoRequest, Requested, Downs, AtMostOne
    <2>2. CASE request' = [NoRequest EXCEPT !.kind = "downAll", !.todo = Present]
      BY <2>2 DEF NoRequest, Requested, Downs, Present, AtMostOne
    <2> QED
      BY <1>2, <1>3, <2>1, <2>2 DEF RequestStarts, Goes, Present
  <1>4. ASSUME NEW s \in Services, CreateService(s)
        PROVE  RequestInv'
    BY <1>4 DEF CreateService, NoRequest, Requested, Downs, AtMostOne
  <1>5. ASSUME NEW s \in Services, RequestReads(s)
        PROVE  RequestInv'
    BY <1>0, <1>5, ReadCountType DEF RequestReads, Requested
  <1>6. CASE RequestScalesDown
    <2> PICK c \in request.call : request' = [request EXCEPT !.call = {}, !.next = {c.service}]
      BY <1>6 DEF RequestScalesDown
    <2>1. c.service \in Services
      BY <1>0 DEF Requested, Calls
    <2> QED
      BY <1>0, <2>1 DEF Requested, AtMostOne
  <1>7. CASE RequestGetsInfo
    <2> PICK s \in request.next :
               Goes([request EXCEPT !.next = {},
                                    !.clear = IF ~local_mode /\ desired[s] = 0 THEN {s} ELSE {}])
      BY <1>7 DEF RequestGetsInfo
    <2>1. s \in Services
      BY <1>0 DEF Requested
    <2>2. request' \in {NoRequest, [request EXCEPT !.next = {}, !.clear = {s}],
                        [request EXCEPT !.next = {}, !.clear = {}]}
      BY DEF Goes
    <2>3. CASE request' = [request EXCEPT !.next = {}, !.clear = {s}]
      BY <1>0, <2>1, <2>3 DEF Requested, AtMostOne
    <2>4. CASE request' = [request EXCEPT !.next = {}, !.clear = {}]
      BY <1>0, <2>4 DEF Requested, AtMostOne
    <2> QED
      BY <1>2, <2>2, <2>3, <2>4
  <1>8. CASE RequestClears
    <2>1. request' \in {NoRequest, [request EXCEPT !.clear = {}]}
      BY <1>8 DEF RequestClears, Goes
    <2> QED
      BY <1>0, <1>2, <2>1 DEF Requested, AtMostOne
  <1>9. CASE RequestFails
    <2>1. CASE request' = [request EXCEPT !.call = {}, !.next = {c.service : c \in request.call}]
      <3>1. {c.service : c \in request.call} \subseteq Services
        BY <1>0 DEF Requested, Calls
      <3>2. AtMostOne({c.service : c \in request.call})
        BY <1>0 DEF AtMostOne
      <3> QED
        BY <1>0, <2>1, <3>1, <3>2 DEF Requested, AtMostOne
    <2>2. CASE request' \in {NoRequest, [request EXCEPT !.next = {}, !.clear = {}]}
      BY <1>0, <1>2, <2>2 DEF Requested, AtMostOne
    <2> QED
      BY <1>9, <2>1, <2>2 DEF RequestFails, Goes
  <1> QED
    BY Steps, <1>1, <1>2, <1>3, <1>4, <1>5, <1>6, <1>7, <1>8, <1>9
       DEF ReadServices, SetDeadlines, CancelSubJob, ScaleUpReads, ScaleUpWrites, StartSubJob,
           FinishSubJob, TurnFails, HandlerFrame, NextSubJob, DescalerLists, DescalerReads,
           DescalerWrites, DescalerClears, DescalerFails, DescalerFrame, UpdateService, SetEnabled,
           InsertTopics, RequestScalesUp, DeleteService, DeadlinePasses, SchedulerCrashes, vars

LEMMA StepRows == TypeInv /\ [Next]_vars => RowsInv'
  <1> SUFFICES ASSUME TypeInv, [Next]_vars PROVE RowsInv'
    OBVIOUS
  <1>0. RowsInv
    BY DEF TypeInv
  <1>1. CASE UNCHANGED rows
    BY <1>0, <1>1 DEF RowsInv
  <1>2. CASE SetDeadlines \/ DescalerClears \/ RequestClears
    BY <1>0, <1>2, SetDescaleAtType DEF SetDeadlines, DescalerClears, RequestClears
  <1>3. CASE UpdateService
    <2> PICK s \in Services : rows' = [rows EXCEPT ![s].is_enabled = ~rows[s].is_enabled]
      BY <1>3 DEF UpdateService, SetEnabled, Present
    <2>1. [rows[s] EXCEPT !.is_enabled = ~rows[s].is_enabled] \in ServiceRow
      BY <1>0 DEF RowsInv, ServiceRow
    <2> QED
      BY <1>0, <2>1 DEF RowsInv
  <1>4. ASSUME NEW s \in Services, CreateService(s)
        PROVE  RowsInv'
    <2>1. NewRow \in ServiceRow
      BY DEF NewRow, ServiceRow
    <2> QED
      BY <1>0, <1>4, <2>1 DEF CreateService, RowsInv
  <1>5. CASE InsertTopics
    <2> PICK s \in request.next : rows' = [rows EXCEPT ![s].topic = TRUE]
      BY <1>5 DEF InsertTopics
    <2>1. s \in Services
      BY DEF TypeInv, RequestInv, Requested
    <2>2. [rows[s] EXCEPT !.topic = TRUE] \in ServiceRow
      BY <1>0, <2>1 DEF RowsInv, ServiceRow
    <2> QED
      BY <1>0, <2>1, <2>2 DEF RowsInv
  <1>6. CASE DeleteService
    <2>1. DeletedRow \in ServiceRow
      BY DEF DeletedRow, ServiceRow
    <2> QED
      BY <1>0, <1>6, <2>1 DEF DeleteService, RowsInv
  <1>7. ASSUME NEW s \in Services, DeadlinePasses(s)
        PROVE  RowsInv'
    <2>1. [rows[s] EXCEPT !.descale_at = "due"] \in ServiceRow
      BY <1>0 DEF RowsInv, ServiceRow
    <2> QED
      BY <1>0, <1>7, <2>1 DEF DeadlinePasses, RowsInv
  <1> QED
    BY Steps, <1>1, <1>2, <1>3, <1>4, <1>5, <1>6, <1>7
       DEF ReadServices, CancelSubJob, ScaleUpReads, ScaleUpWrites, StartSubJob, FinishSubJob,
           TurnFails, NextSubJob, DescalerLists, DescalerReads, DescalerWrites, DescalerFails,
           RequestStarts, RequestReads, RequestScalesUp, RequestScalesDown, RequestGetsInfo,
           RequestFails, SchedulerCrashes, vars

\* What the tasks write is a count.
LEMMA CountWrites ==
    ASSUME TypeInv, ScaleUpWrites \/ DescalerWrites \/ RequestScalesUp \/ RequestScalesDown
    PROVE  \E c \in turn.call \union descale.call \union request.call, n \in Nat :
               /\ WriteCount(c, n) /\ c \in Calls /\ c.seen \in Nat /\ c.service \in Services
               /\ \/ n <= c.seen /\ ~ScaleUpWrites
                  \/ n <= c.seen + TargetWorkers /\ ScaleUpWrites /\ c \in turn.call
                  \/ n = c.seen + 1 /\ RequestScalesUp /\ ~ScaleUpWrites
  <1>0. turn \in Turn /\ descale \in Round /\ request \in Requested /\ turn.each <= TargetWorkers
    BY DEF TypeInv, TurnInv, RoundInv, RequestInv
  <1>1. turn.call \subseteq Calls /\ descale.call \subseteq Calls /\ request.call \subseteq Calls
    BY <1>0 DEF Turn, Round, Requested
  <1>2. \A c \in Calls : c.seen \in Nat /\ c.service \in Services
    BY DEF Calls
  <1>3. CASE ScaleUpWrites
    <2> PICK c \in turn.call : WriteCount(c, c.seen + turn.each)
      BY <1>3 DEF ScaleUpWrites
    <2>1. c.seen + turn.each \in Nat /\ c.seen + turn.each <= c.seen + TargetWorkers
      BY <1>0, <1>1, <1>2 DEF Turn
    <2> QED
      BY <1>1, <1>2, <1>3, <2>1
  <1>4. CASE DescalerWrites /\ ~ScaleUpWrites
    <2> PICK c \in descale.call : WriteCount(c, Decreased(c.seen, All))
      BY <1>4 DEF DescalerWrites
    <2>1. Decreased(c.seen, All) \in Nat /\ Decreased(c.seen, All) <= c.seen
      BY <1>1, <1>2, DecreasedType DEF All
    <2> QED
      BY <1>1, <1>2, <1>4, <2>1
  <1>5. CASE RequestScalesUp /\ ~ScaleUpWrites
    <2> PICK c \in request.call : WriteCount(c, c.seen + 1)
      BY <1>5 DEF RequestScalesUp, Amount
    <2>1. c.seen + 1 \in Nat
      BY <1>1, <1>2
    <2> QED
      BY <1>1, <1>2, <1>5, <2>1
  <1>6. CASE RequestScalesDown /\ ~ScaleUpWrites
    <2> PICK c \in request.call : WriteCount(c, Decreased(c.seen, Amount(request.kind)))
      BY <1>6 DEF RequestScalesDown
    <2>1. Amount(request.kind) \in Nat
      BY DEF Amount, All
    <2>2. /\ Decreased(c.seen, Amount(request.kind)) \in Nat
          /\ Decreased(c.seen, Amount(request.kind)) <= c.seen
      BY <1>1, <1>2, <2>1, DecreasedType
    <2> QED
      BY <1>1, <1>2, <1>6, <2>2
  <1> QED
    BY <1>3, <1>4, <1>5, <1>6

\* Whoever does not write a count leaves all as they are.
LEMMA CountsKept ==
    ASSUME [Next]_vars
    PROVE  \/ ScaleUpWrites \/ DescalerWrites \/ RequestScalesUp \/ RequestScalesDown
           \/ UNCHANGED desired
  BY Steps
     DEF ReadServices, SetDeadlines, CancelSubJob, ScaleUpReads, StartSubJob, FinishSubJob,
         TurnFails, NextSubJob, DescalerLists, DescalerReads, DescalerClears, DescalerFails,
         RequestStarts, UpdateService, SetEnabled, CreateService, RequestReads, InsertTopics,
         RequestGetsInfo, RequestClears, DeleteService, RequestFails, DeadlinePasses,
         SchedulerCrashes, vars

LEMMA FaultCounted ==
    ASSUME CountInv, Faults
    PROVE  faults' \in 0..MaxFaults /\ faults' = faults + 1
  BY DEF CountInv, Faults

LEMMA RequestCounted ==
    ASSUME CountInv, Accepts
    PROVE  requests' \in 0..MaxRequests /\ requests' = requests + 1 /\ requests' > 0
  BY DEF CountInv, Accepts

LEMMA StepCount == TypeInv /\ [Next]_vars => CountInv'
  <1> SUFFICES ASSUME TypeInv, [Next]_vars PROVE CountInv'
    OBVIOUS
  <1>0. CountInv
    BY DEF TypeInv
  <1>1. desired' \in [Services -> Nat]
    BY <1>0, CountsKept, CountWrites, WriteCountEffect DEF CountInv
  <1>2. /\ local_mode' \in BOOLEAN /\ armed' \in BOOLEAN
        /\ sub_job' \in 1..(MaxJobs + 1) /\ status' \in {"Created", "Processing", "Finished"}
        /\ faults' \in 0..MaxFaults /\ crashes' \in 0..MaxCrashes /\ requests' \in 0..MaxRequests
    <2> USE DEF CountInv
    <2>1. CASE ReadServices \/ SetDeadlines \/ CancelSubJob \/ StartSubJob \/ FinishSubJob
      BY <1>0, <2>1 DEF ReadServices, SetDeadlines, CancelSubJob, StartSubJob, FinishSubJob,
                        WriteStatus, HandlerFrame
    <2>2. CASE ScaleUpWrites \/ TurnFails \/ \E s \in Services : ScaleUpReads(s)
      BY <1>0, <2>2, FaultCounted DEF ScaleUpReads, ScaleUpWrites, TurnFails, HandlerFrame
    <2>3. CASE NextSubJob \/ SchedulerCrashes \/ \E s \in Services : DeadlinePasses(s)
      BY <1>0, <2>3 DEF NextSubJob, SchedulerCrashes, DeadlinePasses, bounds
    <2>4. CASE DescalerLists \/ DescalerWrites \/ DescalerClears \/ DescalerFails
               \/ \E s \in Services : DescalerReads(s)
      BY <1>0, <2>4, FaultCounted
         DEF DescalerLists, DescalerReads, DescalerWrites, DescalerClears, DescalerFails,
             DescalerFrame
    <2>5. CASE RequestStarts \/ UpdateService \/ \E s \in Services : CreateService(s)
      BY <1>0, <2>5, RequestCounted DEF RequestStarts, UpdateService, SetEnabled, CreateService, RequestFrame
    <2>6. CASE InsertTopics \/ RequestScalesUp \/ RequestScalesDown \/ RequestGetsInfo
               \/ RequestClears \/ DeleteService \/ \E s \in Services : RequestReads(s)
      BY <1>0, <2>6 DEF RequestReads, InsertTopics, RequestScalesUp, RequestScalesDown,
                        RequestGetsInfo, RequestClears, DeleteService, RequestFrame
    <2>8. CASE RequestFails
      BY <1>0, <2>8, FaultCounted DEF RequestFails, RequestFrame
    <2>7. CASE UNCHANGED vars
      BY <1>0, <2>7 DEF vars, bounds
    <2> QED
      BY Steps, <2>1, <2>2, <2>3, <2>4, <2>5, <2>6, <2>7, <2>8
  <1> QED
    BY <1>1, <1>2 DEF CountInv

LEMMA InitType == Init => TypeInv
  <1> SUFFICES ASSUME Init PROVE TypeInv
    OBVIOUS
  <1>1. TurnInv /\ RoundInv
    BY DEF Init, TurnInv, RoundInv, NoTurn, NoRound, Turn, Round, AtMostOne
  <1>2. RequestInv
    BY NoRequestType DEF Init, RequestInv, AtMostOne
  <1>3. RowsInv
    <2>1. [NewRow EXCEPT !.topic = TRUE] \in ServiceRow
      BY DEF NewRow, ServiceRow
    <2>2. [DeletedRow EXCEPT !.state = "absent"] \in ServiceRow
      BY DEF DeletedRow, ServiceRow
    <2> QED
      BY <2>1, <2>2 DEF Init, RowsInv
  <1>4. CountInv
    <2>1. local_mode \in BOOLEAN /\ desired \in [Services -> Nat]
      BY DEF Init
    <2>2. sub_job \in 1..(MaxJobs + 1)
      BY DEF Init
    <2>3. faults \in 0..MaxFaults /\ crashes \in 0..MaxCrashes /\ requests \in 0..MaxRequests
      BY DEF Init
    <2>4. armed \in BOOLEAN /\ status \in {"Created", "Processing", "Finished"}
      BY DEF Init
    <2> QED
      BY <2>1, <2>2, <2>3, <2>4 DEF CountInv
  <1> QED
    BY <1>1, <1>2, <1>3, <1>4 DEF TypeInv

LEMMA StepTypeInv == TypeInv /\ [Next]_vars => TypeInv'
  BY StepTurn, StepRound, StepRequest, StepRows, StepCount DEF TypeInv

----------------------------------------------------------------------------
(* The budget *)

LEMMA StepRaise == TypeInv /\ RaiseInv /\ [Next]_vars => RaiseInv'
  <1> SUFFICES ASSUME TypeInv, RaiseInv, [Next]_vars, request'.kind = "up"
               PROVE  requests' > 0
    BY DEF RaiseInv
  <1>0. requests \in Nat /\ request \in Requested
    BY DEF TypeInv, CountInv, RequestInv
  <1>1. CASE UNCHANGED <<request, requests>>
    BY <1>1 DEF RaiseInv
  <1>2. CASE request' = NoRequest
    BY <1>2, NoRequestType
  <1>3. CASE RequestStarts
    BY <1>3, RequestCounted DEF RequestStarts, TypeInv
  <1>4. CASE \E s \in Services : CreateService(s)
    BY <1>4, RequestCounted DEF CreateService, TypeInv
  <1>5. CASE UpdateService
    BY <1>5, RequestCounted DEF UpdateService, SetEnabled, TypeInv
  <1>6. CASE \E s \in Services : RequestReads(s)
    BY <1>0, <1>6 DEF RequestReads, RaiseInv, Requested
  <1>7. CASE RequestScalesDown
    BY <1>0, <1>7 DEF RequestScalesDown, Requested
  <1>8. CASE RequestGetsInfo
    <2>1. request.kind # "up" /\ \E R \in {request} : request' = NoRequest \/ request'.kind = R.kind
      BY <1>0, <1>8 DEF RequestGetsInfo, Goes, Requested, Downs
    <2> QED
      BY <1>2, <2>1
  <1>9. CASE RequestClears
    BY <1>0, <1>2, <1>9 DEF RequestClears, Goes, Requested, RaiseInv
  <1>10. CASE RequestFails
    BY <1>0, <1>2, <1>10 DEF RequestFails, Goes, Requested
  <1> QED
    BY Steps, <1>1, <1>2, <1>3, <1>4, <1>5, <1>6, <1>7, <1>8, <1>9, <1>10
       DEF ReadServices, SetDeadlines, CancelSubJob, ScaleUpReads, ScaleUpWrites, StartSubJob,
           FinishSubJob, TurnFails, HandlerFrame, NextSubJob, DescalerLists, DescalerReads,
           DescalerWrites, DescalerClears, DescalerFails, DescalerFrame, InsertTopics,
           RequestScalesUp, DeleteService, DeadlinePasses, SchedulerCrashes, bounds, vars

\* A target is added with every attempt.
LEMMA TargetTimes ==
    ASSUME NEW n \in Nat
    PROVE  /\ TargetWorkers * n \in Nat
           /\ TargetWorkers * (n + 1) = TargetWorkers * n + TargetWorkers
           /\ \A m \in Nat : n <= m => TargetWorkers * n <= TargetWorkers * m
  BY SMT

LEMMA LimitType ==
    ASSUME TypeInv, RaiseInv, NEW s \in Services
    PROVE  Attempts \in Nat /\ Attempts > 0 /\ Scalings(s) \in Nat /\ Raises \in Nat
  BY DEF TypeInv, CountInv, RaiseInv, Attempts, Scalings, Raises

LEMMA ScalingsGrow ==
    ASSUME TypeInv, RaiseInv, [Next]_vars, NEW s \in Services
    PROVE  Scalings(s) <= Scalings(s)'
  <1>0. Attempts \in Nat /\ Attempts > 0
    BY LimitType
  <1>1. CASE UNCHANGED Attempts /\ (Unscaled(s)' => Unscaled(s))
    BY <1>0, <1>1 DEF Scalings
  <1>2. CASE Attempts' = Attempts + 1
    BY <1>0, <1>2 DEF Scalings
  <1>3. CASE UNCHANGED <<turn, status, sub_job, faults, crashes>>
    BY <1>1, <1>3 DEF Attempts, Unscaled
  <1>4. CASE TurnFails \/ DescalerFails \/ RequestFails
    <2>1. UNCHANGED <<sub_job, crashes>> /\ faults' = faults + 1
      BY <1>4 DEF TurnFails, DescalerFails, RequestFails, Faults, HandlerFrame, DescalerFrame,
                  RequestFrame
    <2> QED
      BY <1>2, <2>1 DEF Attempts, TypeInv, CountInv
  <1>5. CASE NextSubJob \/ SchedulerCrashes
    <2>1. /\ UNCHANGED faults
          /\ \/ sub_job' = sub_job + 1 /\ UNCHANGED crashes
             \/ crashes' = crashes + 1 /\ UNCHANGED sub_job
      BY <1>5 DEF NextSubJob, SchedulerCrashes, bounds
    <2> QED
      BY <1>2, <2>1 DEF Attempts, TypeInv, CountInv
  <1>6. CASE ReadServices \/ SetDeadlines \/ CancelSubJob \/ StartSubJob \/ FinishSubJob
             \/ ScaleUpWrites \/ \E z \in Services : ScaleUpReads(z)
    <2>1. UNCHANGED Attempts
      BY <1>6 DEF ReadServices, SetDeadlines, CancelSubJob, StartSubJob, FinishSubJob,
                  ScaleUpWrites, ScaleUpReads, HandlerFrame, Attempts
    <2>2. turn \in Turn /\ \A c \in turn.call : turn.step = "scale"
      BY DEF TypeInv, TurnInv
    <2>3. CASE CancelSubJob \/ StartSubJob \/ FinishSubJob
      BY <1>1, <2>1, <2>3 DEF CancelSubJob, StartSubJob, FinishSubJob, WriteStatus, NoTurn, Unscaled
    <2>4. CASE ReadServices
      BY <1>1, <2>1, <2>4 DEF ReadServices, Unscaled
    <2>5. CASE SetDeadlines
      BY <1>1, <2>1, <2>2, <2>5 DEF SetDeadlines, Unscaled, Turn
    <2>6. CASE ScaleUpWrites
      BY <1>1, <2>1, <2>2, <2>6 DEF ScaleUpWrites, Unscaled, Turn
    <2>7. ASSUME NEW z \in Services, ScaleUpReads(z)
          PROVE  Unscaled(s)' => Unscaled(s)
      <3>1. turn' = [turn EXCEPT !.todo = turn.todo \ {z}, !.call = ReadCount(z)]
            /\ z \in turn.todo /\ turn.step = "scale" /\ UNCHANGED status
        BY <2>7 DEF ScaleUpReads
      <3>2. \A c \in ReadCount(z) : c.service = z
        BY DEF ReadCount
      <3> QED
        BY <2>2, <3>1, <3>2 DEF Unscaled, Turn
    <2> QED
      BY <1>1, <1>6, <2>1, <2>3, <2>4, <2>5, <2>6, <2>7
  <1> QED
    BY Steps, <1>3, <1>4, <1>5, <1>6
       DEF DescalerLists, DescalerReads, DescalerWrites, DescalerClears, DescalerFrame,
           RequestStarts, UpdateService, SetEnabled, CreateService, RequestReads, InsertTopics,
           RequestScalesUp, RequestScalesDown, RequestGetsInfo, RequestClears, DeleteService,
           RequestFrame, DeadlinePasses, bounds, vars

\* A request keeps its kind until it is answered, and is counted before it begins.
LEMMA KindKept ==
    ASSUME TypeInv, [Next]_vars
    PROVE  \/ requests' = requests + 1
           \/ requests' = requests /\ request'.kind \in {request.kind, "none"}
  <1>0. CountInv /\ request \in Requested
    BY DEF TypeInv, RequestInv
  <1>1. CASE UNCHANGED <<request, requests>>
    BY <1>1
  <1>2. CASE request' = NoRequest /\ UNCHANGED requests
    BY <1>2, NoRequestType
  <1>3. CASE Accepts
    BY <1>0, <1>3, RequestCounted
  <1>4. CASE (RequestScalesDown \/ \E s \in Services : RequestReads(s))
    BY <1>0, <1>4 DEF RequestReads, RequestScalesDown, Requested
  <1>5. CASE RequestGetsInfo \/ RequestClears
    BY <1>0, <1>2, <1>5 DEF RequestGetsInfo, RequestClears, Goes, Requested
  <1>6. CASE RequestFails
    BY <1>0, <1>2, <1>6 DEF RequestFails, Goes, Requested
  <1> QED
    BY Steps, <1>1, <1>2, <1>3, <1>4, <1>5, <1>6
       DEF ReadServices, SetDeadlines, CancelSubJob, ScaleUpReads, ScaleUpWrites, StartSubJob,
           FinishSubJob, TurnFails, HandlerFrame, NextSubJob, DescalerLists, DescalerReads,
           DescalerWrites, DescalerClears, DescalerFails, DescalerFrame, RequestStarts,
           UpdateService, SetEnabled, CreateService, InsertTopics, RequestScalesUp, DeleteService,
           DeadlinePasses, SchedulerCrashes, bounds, vars

\* A limit never sinks.
LEMMA LimitGrows ==
    ASSUME TypeInv, RaiseInv, [Next]_vars, NEW s \in Services
    PROVE  Limit(s) \in Nat /\ Limit(s)' \in Nat /\ Limit(s) <= Limit(s)'
  <1>1. Scalings(s) \in Nat /\ Raises \in Nat
    BY LimitType
  <1>2. TypeInv' /\ RaiseInv'
    BY StepTypeInv, StepRaise
  <1>3. (Scalings(s) \in Nat /\ Raises \in Nat)'
    <2>1. CountInv' /\ RaiseInv'
      BY <1>2 DEF TypeInv
    <2>2. sub_job' \in Nat /\ sub_job' > 0 /\ faults' \in Nat /\ crashes' \in Nat /\ requests' \in Nat
      BY <2>1 DEF CountInv
    <2>3. Attempts' = sub_job' + faults' + crashes'
      BY DEF Attempts
    <2>4. Attempts' \in Nat /\ Attempts' > 0
      <3> DEFINE j == sub_job'
                 f == faults'
                 c == crashes'
      <3>1. j \in Nat /\ j > 0 /\ f \in Nat /\ c \in Nat
        BY <2>2
      <3> HIDE DEF j, f, c
      <3>2. j + f + c \in Nat /\ j + f + c > 0
        BY <3>1
      <3> QED
        BY <2>3, <3>2 DEF j, f, c
    <2>5. Scalings(s)' \in {Attempts', Attempts' - 1}
      BY DEF Scalings
    <2>6. Raises' = IF request'.kind = "up" THEN requests' - 1 ELSE requests'
      BY DEF Raises
    <2>7. Raises' \in Nat
      <3> DEFINE q == requests'
      <3>1. q \in Nat /\ (request'.kind = "up" => q > 0)
        BY <2>1, <2>2 DEF RaiseInv
      <3>2. Raises' = IF request'.kind = "up" THEN q - 1 ELSE q
        BY <2>6
      <3> HIDE DEF q
      <3> QED
        BY <3>1, <3>2
    <2>8. Scalings(s)' \in Nat
      BY <2>4, <2>5
    <2> QED
      BY <2>7, <2>8
  <1>4. Raises <= Raises'
    BY KindKept DEF Raises, TypeInv, CountInv
  <1>5. TargetWorkers * Scalings(s) <= TargetWorkers * Scalings(s)'
    BY <1>1, <1>3, ScalingsGrow, TargetTimes
  <1>6. TargetWorkers * Scalings(s) \in Nat /\ TargetWorkers * Scalings(s)' \in Nat
    BY <1>1, <1>3, TargetTimes
  <1> QED
    BY <1>1, <1>3, <1>4, <1>5, <1>6 DEF Limit

\* A task carries a count it has carried before, or the one there is.
LEMMA CallsKept ==
    ASSUME TypeInv, [Next]_vars, NEW c \in (turn.call \union descale.call \union request.call)'
    PROVE  \/ c \in turn.call \union descale.call \union request.call
           \/ c.service \in Services /\ c.seen = desired[c.service]
  <1>0. turn \in Turn /\ descale \in Round /\ request \in Requested
    BY DEF TypeInv, TurnInv, RoundInv, RequestInv
  <1>1. \A s \in Services : \A d \in ReadCount(s) : d.service \in Services /\ d.seen = desired[d.service]
    BY DEF ReadCount
  <1>2. \/ turn'.call \subseteq turn.call
        \/ \E s \in Services : turn'.call = ReadCount(s)
    <2>1. CASE UNCHANGED turn
      BY <2>1
    <2>2. CASE turn' = NoTurn
      BY <2>2 DEF NoTurn
    <2>3. CASE ReadServices
      BY <2>2, <2>3 DEF ReadServices, WriteStatus
    <2>4. CASE SetDeadlines
      BY <1>0, <2>4 DEF SetDeadlines, Turn
    <2>5. CASE ScaleUpWrites \/ \E s \in Services : ScaleUpReads(s)
      BY <1>0, <2>5 DEF ScaleUpWrites, ScaleUpReads, Turn
    <2> QED
      BY Steps, <2>1, <2>2, <2>3, <2>4, <2>5
         DEF CancelSubJob, StartSubJob, FinishSubJob, WriteStatus, TurnFails, NextSubJob,
             DescalerLists, DescalerReads, DescalerWrites, DescalerClears, DescalerFails,
             DescalerFrame, RequestStarts, UpdateService, SetEnabled, CreateService, RequestReads,
             InsertTopics, RequestScalesUp, RequestScalesDown, RequestGetsInfo, RequestClears,
             DeleteService, RequestFails, RequestFrame, DeadlinePasses, SchedulerCrashes, vars
  <1>3. \/ descale'.call \subseteq descale.call
        \/ \E s \in Services : descale'.call = ReadCount(s)
    <2>1. CASE UNCHANGED descale
      BY <2>1
    <2>2. CASE DescalerLists \/ SchedulerCrashes
      BY <2>2 DEF DescalerLists, SchedulerCrashes, NoRound
    <2>3. CASE DescalerWrites \/ DescalerClears \/ DescalerFails
      BY <1>0, <2>3 DEF DescalerWrites, DescalerClears, DescalerFails, Round
    <2>4. CASE \E s \in Services : DescalerReads(s)
      BY <1>0, <2>4 DEF DescalerReads, Round
    <2> QED
      BY Steps, <2>1, <2>2, <2>3, <2>4
         DEF ReadServices, SetDeadlines, CancelSubJob, ScaleUpReads, ScaleUpWrites, StartSubJob,
             FinishSubJob, TurnFails, HandlerFrame, NextSubJob, RequestStarts, UpdateService, SetEnabled,
             CreateService, RequestReads, InsertTopics, RequestScalesUp, RequestScalesDown,
             RequestGetsInfo, RequestClears, DeleteService, RequestFails, RequestFrame,
             DeadlinePasses, vars
  <1>4. \/ request'.call \subseteq request.call
        \/ \E s \in Services : request'.call = ReadCount(s)
    <2>1. CASE request' = NoRequest
      BY <2>1, NoRequestType
    <2>2. CASE RequestStarts
      BY <2>1, <2>2 DEF RequestStarts, Goes, NoRequest
    <2>3. CASE \E s \in Services : CreateService(s)
      BY <2>3 DEF CreateService, NoRequest
    <2>4. CASE RequestScalesDown \/ \E s \in Services : RequestReads(s)
      BY <1>0, <2>4 DEF RequestScalesDown, RequestReads, Requested
    <2>5. CASE RequestGetsInfo \/ RequestClears \/ RequestFails
      BY <1>0, <2>1, <2>5 DEF RequestGetsInfo, RequestClears, RequestFails, Goes, Requested
    <2>6. CASE UNCHANGED request
      BY <2>6
    <2> QED
      BY Steps, <2>1, <2>2, <2>3, <2>4, <2>5, <2>6
         DEF ReadServices, SetDeadlines, CancelSubJob, ScaleUpReads, ScaleUpWrites, StartSubJob,
             FinishSubJob, TurnFails, HandlerFrame, NextSubJob, DescalerLists, DescalerReads,
             DescalerWrites, DescalerClears, DescalerFails, DescalerFrame, UpdateService, SetEnabled,
             InsertTopics, RequestScalesUp, DeleteService, DeadlinePasses, SchedulerCrashes, vars
  <1> QED
    BY <1>1, <1>2, <1>3, <1>4

LEMMA StepBudget == IInv /\ [Next]_vars => BudgetInv'
  <1> SUFFICES ASSUME IInv, [Next]_vars, NEW s \in Services
               PROVE  /\ desired'[s] <= Limit(s)'
                      /\ \A c \in (turn.call \union descale.call \union request.call)' :
                             c.service = s => c.seen <= Limit(s)'
    BY DEF BudgetInv
  <1>0. TypeInv /\ RaiseInv /\ BudgetInv /\ CountInv
    BY DEF IInv, TypeInv
  <1>1. Limit(s) \in Nat /\ Limit(s)' \in Nat /\ Limit(s) <= Limit(s)'
    BY <1>0, LimitGrows
  <1>2. desired[s] \in Nat /\ desired[s] <= Limit(s)
    BY <1>0 DEF BudgetInv, CountInv
  <1>3. turn.call \union descale.call \union request.call \subseteq Calls
    BY <1>0 DEF TypeInv, TurnInv, RoundInv, RequestInv, Turn, Round, Requested
  <1>4. \A c \in (turn.call \union descale.call \union request.call)' :
            c.service = s => c.seen <= Limit(s)'
    <2> SUFFICES ASSUME NEW c \in (turn.call \union descale.call \union request.call)',
                        c.service = s
                 PROVE  c.seen <= Limit(s)'
      OBVIOUS
    <2>1. CASE c \in turn.call \union descale.call \union request.call
      <3>1. c.seen <= Limit(s) /\ c.seen \in Nat
        BY <1>0, <1>3, <2>1 DEF BudgetInv, Calls
      <3> QED
        BY <1>1, <3>1
    <2>2. CASE c.seen = desired[s]
      BY <1>1, <1>2, <2>2
    <2> QED
      BY <1>0, <2>1, <2>2, CallsKept
  <1>5. CASE UNCHANGED desired
    BY <1>1, <1>2, <1>4, <1>5
  <1>6. CASE ScaleUpWrites \/ DescalerWrites \/ RequestScalesUp \/ RequestScalesDown
    <2> PICK c \in turn.call \union descale.call \union request.call, n \in Nat :
               /\ WriteCount(c, n) /\ c \in Calls /\ c.seen \in Nat /\ c.service \in Services
               /\ \/ n <= c.seen /\ ~ScaleUpWrites
                  \/ n <= c.seen + TargetWorkers /\ ScaleUpWrites /\ c \in turn.call
                  \/ n = c.seen + 1 /\ RequestScalesUp /\ ~ScaleUpWrites
      BY <1>0, <1>6, CountWrites
    <2>1. desired'[s] = desired[s] \/ (s = c.service /\ desired'[s] = n)
      BY <1>0, WriteCountEffect
    <2>2. CASE desired'[s] = desired[s]
      BY <1>1, <1>2, <1>4, <2>2
    <2>3. CASE s = c.service /\ desired'[s] = n
      <3>1. c.seen <= Limit(s)
        BY <1>0, <2>3 DEF BudgetInv
      <3>2. CASE n <= c.seen
        BY <1>1, <1>4, <2>3, <3>1, <3>2
      <3>3. CASE n <= c.seen + TargetWorkers /\ ScaleUpWrites /\ c \in turn.call
        <4>1. turn \in Turn /\ turn.step = "scale" /\ s \notin turn.todo
          BY <1>0, <2>3, <3>3 DEF TypeInv, TurnInv
        <4>2. Unscaled(s) /\ ~Unscaled(s)'
          BY <2>3, <3>3, <4>1 DEF Unscaled, ScaleUpWrites, Turn
        <4>3. UNCHANGED <<Attempts, Raises>>
          BY <3>3 DEF ScaleUpWrites, HandlerFrame, Attempts, Raises
        <4>4. Attempts \in Nat /\ Attempts > 0 /\ Raises \in Nat
          BY <1>0, LimitType
        <4>5. Limit(s)' = Limit(s) + TargetWorkers
          <5>1. Limit(s) = TargetWorkers * (Attempts - 1) + Raises
            BY <4>2 DEF Limit, Scalings
          <5>2. Limit(s)' = TargetWorkers * Attempts + Raises
            BY <4>2, <4>3 DEF Limit, Scalings
          <5>0. Attempts - 1 \in Nat
            BY <4>4
          <5>3. /\ TargetWorkers * ((Attempts - 1) + 1) = TargetWorkers * (Attempts - 1) + TargetWorkers
                /\ (Attempts - 1) + 1 = Attempts
                /\ TargetWorkers * (Attempts - 1) \in Nat
            BY <4>4, <5>0, TargetTimes
          <5> QED
            BY <4>4, <5>0, <5>1, <5>2, <5>3
        <4> QED
          BY <1>1, <1>4, <2>3, <3>1, <3>3, <4>5
      <3>4. CASE n = c.seen + 1 /\ RequestScalesUp
        <4>1. Raises' = Raises + 1
          BY <1>0, <3>4, NoRequestType DEF RequestScalesUp, Raises, CountInv
        <4>2. UNCHANGED Scalings(s)
          BY <3>4 DEF RequestScalesUp, RequestFrame, Scalings, Attempts, Unscaled
        <4>3. Scalings(s) \in Nat /\ Raises \in Nat /\ TargetWorkers * Scalings(s) \in Nat
          BY <1>0, LimitType, TargetTimes
        <4>4. Limit(s)' = Limit(s) + 1
          BY <4>1, <4>2, <4>3 DEF Limit
        <4> QED
          BY <1>1, <1>4, <2>3, <3>1, <3>4, <4>4
      <3> QED
        BY <3>2, <3>3, <3>4
    <2> QED
      BY <1>4, <2>1, <2>2, <2>3
  <1> QED
    BY <1>5, <1>6, CountsKept

LEMMA InitBudget == Init => RaiseInv /\ BudgetInv
  <1> SUFFICES ASSUME Init PROVE RaiseInv /\ BudgetInv
    OBVIOUS
  <1>1. TypeInv
    BY InitType
  <1>2. RaiseInv
    BY NoRequestType DEF Init, RaiseInv
  <1>3. ASSUME NEW s \in Services
        PROVE  Limit(s) \in Nat
    BY <1>1, <1>2, LimitType, TargetTimes DEF Limit
  <1> QED
    BY <1>2, <1>3 DEF Init, BudgetInv, NoTurn, NoRound, NoRequest

----------------------------------------------------------------------------
(* One scaling sub job on Fargate, without requests: every service with      *)
(* workers has a deadline.  What the handler still scales has the deadline it *)
(* has set, nothing is due before it is done, and what the descaler is about  *)
(* to clear was scaled down by it.                                            *)

HandlerInv ==
    /\ turn.step # "idle" \/ armed => status = "Created"
    /\ turn.step \in {"cancel", "scale"} => armed
    /\ turn.todo \subseteq Present
    /\ turn.step = "scale" =>
          /\ \A s \in turn.todo : rows[s].descale_at # "none"
          /\ \A c \in turn.call : rows[c.service].descale_at # "none"

DescalerInv ==
    /\ status = "Created" => descale = NoRound
    /\ \A c \in descale.call : desired[c.service] = c.seen
    /\ \A s \in descale.clear : desired[s] = 0

DeadlineInv ==
    \A s \in Services :
        /\ status = "Created" => rows[s].descale_at # "due"
        /\ status = "Created" /\ ~armed => desired[s] = 0 /\ rows[s].descale_at = "none"
        /\ desired[s] > 0 => rows[s].descale_at # "none"

AloneInv == request = NoRequest

DatedInv == AloneInv /\ HandlerInv /\ DescalerInv /\ DeadlineInv

\* Nobody has interfered, and nobody does in this step.
Alone == Undisturbed /\ Undisturbed'

\* Who has interfered has done so for good.
LEMMA DisturbedForGood ==
    ASSUME TypeInv, RaiseInv, [Next]_vars, Undisturbed'
    PROVE  Undisturbed
  <1>0. /\ faults \in Nat /\ crashes \in Nat /\ requests \in Nat
        /\ sub_job \in Nat /\ sub_job >= 1
    BY DEF TypeInv, CountInv
  <1>1. /\ local_mode' = local_mode
        /\ sub_job' = sub_job \/ sub_job' = sub_job + 1
        /\ requests' = requests \/ requests' = requests + 1
        /\ faults' = faults \/ faults' = faults + 1
        /\ crashes' = crashes \/ crashes' = crashes + 1
    BY Steps
       DEF ReadServices, SetDeadlines, CancelSubJob, ScaleUpReads, ScaleUpWrites, StartSubJob,
           FinishSubJob, TurnFails, HandlerFrame, NextSubJob, DescalerLists, DescalerReads,
           DescalerWrites, DescalerClears, DescalerFails, DescalerFrame, RequestStarts,
           UpdateService, SetEnabled, CreateService, RequestReads, InsertTopics, RequestScalesUp,
           RequestScalesDown, RequestGetsInfo, RequestClears, DeleteService, RequestFails,
           RequestFrame, Accepts, Faults, DeadlinePasses, SchedulerCrashes, bounds, vars
  <1>2. 1 + faults + crashes \in Nat /\ 1 + faults' + crashes' \in Nat
        /\ 1 + faults + crashes <= 1 + faults' + crashes'
    BY <1>0, <1>1
  <1>3. /\ TargetWorkers * (1 + faults + crashes) <= TargetWorkers * (1 + faults' + crashes')
        /\ TargetWorkers * (1 + faults + crashes) \in Nat
        /\ TargetWorkers * (1 + faults' + crashes') \in Nat
    BY <1>2, TargetTimes
  <1>4. TargetWorkers * (1 + faults + crashes) <= All
    BY <1>3 DEF Undisturbed, All
  <1> QED
    BY <1>0, <1>1, <1>4 DEF Undisturbed

LEMMA InitDated == Init => DatedInv
  <1> SUFFICES ASSUME Init PROVE DatedInv
    OBVIOUS
  <1>1. AloneInv
    BY DEF Init, AloneInv
  <1>2. HandlerInv /\ DescalerInv
    BY DEF Init, HandlerInv, DescalerInv, NoTurn, NoRound
  <1>3. DeadlineInv
    <2>1. /\ [NewRow EXCEPT !.topic = TRUE].descale_at = "none"
          /\ [DeletedRow EXCEPT !.state = "absent"].descale_at = "none"
      BY DEF NewRow, DeletedRow
    <2>2. \A s \in Services : rows[s].descale_at = "none" /\ desired[s] = 0
      BY <2>1 DEF Init
    <2> QED
      BY <2>2 DEF Init, DeadlineInv
  <1> QED
    BY <1>1, <1>2, <1>3 DEF DatedInv

\* Only the handler, the descaler, time and crashes are left.
LEMMA AloneSteps ==
    ASSUME Alone, TypeInv, AloneInv, [Next]_vars
    PROVE  /\ AloneInv'
           /\ \/ ReadServices \/ SetDeadlines \/ CancelSubJob
              \/ \E s \in Services : ScaleUpReads(s)
              \/ ScaleUpWrites \/ StartSubJob \/ FinishSubJob \/ TurnFails
              \/ DescalerLists \/ \E s \in Services : DescalerReads(s)
              \/ DescalerWrites \/ DescalerClears \/ DescalerFails
              \/ \E s \in Services : DeadlinePasses(s)
              \/ SchedulerCrashes \/ UNCHANGED vars
  <1>1. ~NextSubJob
    BY DEF Alone, Undisturbed, NextSubJob
  <1>2. ~Accepts
    BY DEF Alone, Undisturbed, Accepts
  <1>3. ~RequestStarts /\ ~UpdateService /\ ~\E s \in Services : CreateService(s)
    BY <1>2 DEF RequestStarts, UpdateService, SetEnabled, CreateService
  <1>4. /\ ~InsertTopics /\ ~RequestScalesUp /\ ~RequestScalesDown /\ ~RequestGetsInfo
        /\ ~RequestClears /\ ~DeleteService /\ ~RequestFails
        /\ ~\E s \in Services : RequestReads(s)
    <2>1. request = NoRequest /\ request.kind = "none" /\ request.todo = {}
          /\ request.call = {} /\ request.next = {} /\ request.clear = {}
      BY DEF AloneInv, NoRequest
    <2>2. ~InsertTopics /\ ~RequestScalesUp /\ ~RequestScalesDown /\ ~RequestGetsInfo
      BY <2>1 DEF InsertTopics, RequestScalesUp, RequestScalesDown, RequestGetsInfo
    <2>3. ~RequestClears /\ ~DeleteService
      BY <2>1 DEF RequestClears, DeleteService
    <2>4. ~RequestFails
      BY <2>1 DEF RequestFails
    <2>5. ~\E s \in Services : RequestReads(s)
      BY <2>1 DEF RequestReads
    <2> QED
      BY <2>2, <2>3, <2>4, <2>5
  <1>5. AloneInv'
    BY Steps, <1>1, <1>3, <1>4
       DEF AloneInv, ReadServices, SetDeadlines, CancelSubJob, ScaleUpReads, ScaleUpWrites,
           StartSubJob, FinishSubJob, TurnFails, HandlerFrame, DescalerLists, DescalerReads,
           DescalerWrites, DescalerClears, DescalerFails, DescalerFrame, DeadlinePasses,
           SchedulerCrashes, vars
  <1> QED
    BY Steps, <1>1, <1>3, <1>4, <1>5

\* A deadline is written to rows that are there, and they stay there.
LEMMA SetDescaleAtEffect ==
    ASSUME RowsInv, NEW S \in SUBSET Services, NEW t \in {"none", "ahead", "due"},
           SetDescaleAt(S, t)
    PROVE  /\ Present' = Present
           /\ \A s \in S \intersect Present : rows'[s].descale_at = t
           /\ \A s \in Services : s \notin S => rows'[s] = rows[s]
           /\ \A s \in Services : rows'[s] = rows[s] \/ rows'[s].descale_at = t
  <1>1. \A s \in Services : /\ [rows[s] EXCEPT !.descale_at = t].state = rows[s].state
                            /\ [rows[s] EXCEPT !.descale_at = t].descale_at = t
    BY DEF RowsInv, ServiceRow
  <1>2. \A s \in Services :
            rows'[s] = IF s \in S \intersect Present
                       THEN [rows[s] EXCEPT !.descale_at = t] ELSE rows[s]
    BY DEF SetDescaleAt
  <1>3. \A s \in Services : rows'[s].state = rows[s].state
    BY <1>1, <1>2
  <1>4. Present' = Present
    BY <1>3 DEF Present
  <1> QED
    BY <1>1, <1>2, <1>4 DEF Present

LEMMA DeadlinePassesEffect ==
    ASSUME RowsInv, NEW s \in Services, DeadlinePasses(s)
    PROVE  /\ Present' = Present
           /\ rows'[s].descale_at = "due"
           /\ \A x \in Services : x # s => rows'[x] = rows[x]
  <1>1. rows' = [rows EXCEPT ![s] = [rows[s] EXCEPT !.descale_at = "due"]]
    BY DEF DeadlinePasses
  <1>2. /\ [rows[s] EXCEPT !.descale_at = "due"].state = rows[s].state
        /\ [rows[s] EXCEPT !.descale_at = "due"].descale_at = "due"
    BY DEF RowsInv, ServiceRow
  <1>3. \A x \in Services : rows'[x].state = rows[x].state /\ (x # s => rows'[x] = rows[x])
    BY <1>1, <1>2 DEF RowsInv
  <1> QED
    BY <1>1, <1>2, <1>3 DEF Present, RowsInv

\* The descaler takes away all there was.
LEMMA DescaledToZero ==
    ASSUME Alone, IInv, AloneInv, NEW c \in descale.call
    PROVE  Decreased(c.seen, All) = 0
  <1>1. TypeInv /\ RaiseInv /\ c \in Calls
    BY DEF IInv, TypeInv, RoundInv, Round
  <1>2. c.service \in Services /\ c.seen \in Nat
    BY <1>1 DEF Calls
  <1>3. c.seen <= Limit(c.service)
    BY <1>2 DEF IInv, BudgetInv
  <1>4. Raises = 0
    BY <1>1 DEF Raises, AloneInv, NoRequest, Alone, Undisturbed
  <1>5. /\ Scalings(c.service) \in Nat /\ 1 + faults + crashes \in Nat
        /\ Scalings(c.service) <= 1 + faults + crashes
    BY <1>1, <1>2, LimitType DEF Scalings, Attempts, Alone, Undisturbed, TypeInv, CountInv
  <1>6. TargetWorkers * Scalings(c.service) <= TargetWorkers * (1 + faults + crashes)
    BY <1>5, TargetTimes
  <1>7. c.seen <= All
    <2>1. TargetWorkers * Scalings(c.service) \in Nat
      BY <1>5, TargetTimes
    <2>2. TargetWorkers * (1 + faults + crashes) \in Nat
      BY <1>5, TargetTimes
    <2> QED
      BY <1>2, <1>3, <1>4, <1>6, <2>1, <2>2 DEF Limit, Alone, Undisturbed, All
  <1> QED
    BY <1>2, <1>7 DEF Decreased, All

\* A count that is written back as it was read stays.
LEMMA DescalerWritesZero ==
    ASSUME Alone, IInv, AloneInv, DescalerInv, DescalerWrites
    PROVE  /\ \A s \in Services : desired'[s] = desired[s] \/ desired'[s] = 0
           /\ \A s \in descale'.clear : desired'[s] = 0
           /\ descale'.call = {}
  <1>1. PICK c \in descale.call :
            /\ WriteCount(c, Decreased(c.seen, All))
            /\ descale' = [descale EXCEPT !.call = {}, !.clear = {c.service}]
    BY DEF DescalerWrites
  <1>2. c \in Calls /\ descale \in Round /\ desired \in [Services -> Nat]
    BY <1>1 DEF IInv, TypeInv, RoundInv, CountInv, Round
  <1>3. Decreased(c.seen, All) = 0 /\ desired[c.service] = c.seen /\ local_mode = FALSE
    BY <1>1, DescaledToZero DEF DescalerInv, Alone, Undisturbed
  <1>4. desired' = IF c.seen = 0 THEN desired ELSE [desired EXCEPT ![c.service] = 0]
    BY <1>1, <1>3 DEF WriteCount
  <1>5. descale'.call = {} /\ descale'.clear = {c.service}
    BY <1>1, <1>2 DEF Round
  <1> QED
    BY <1>2, <1>3, <1>4, <1>5 DEF Calls

LEMMA StepHandlerDated ==
    ASSUME Alone, IInv, DatedInv, [Next]_vars
    PROVE  HandlerInv'
  <1> USE DEF HandlerInv
  <1>0. TypeInv /\ RowsInv /\ turn \in Turn /\ AloneInv /\ HandlerInv
    BY DEF IInv, TypeInv, TurnInv, DatedInv
  <1>1. CASE ReadServices
    BY <1>0, <1>1 DEF ReadServices, WriteStatus, NoTurn, Enabled, Present
  <1>2. CASE SetDeadlines
    <2>1. turn.todo \subseteq Present /\ turn.todo \in SUBSET Services /\ turn.call = {}
      BY <1>0, <1>2 DEF SetDeadlines, Turn, IInv, TypeInv, TurnInv
    <2>2. Present' = Present /\ \A s \in turn.todo : rows'[s].descale_at = "ahead"
      BY <1>0, <1>2, <2>1, SetDescaleAtEffect DEF SetDeadlines
    <2>3. turn'.todo = turn.todo /\ turn'.call = turn.call /\ armed' = TRUE /\ status' = status
      BY <1>0, <1>2 DEF SetDeadlines, Turn
    <2>4. status = "Created"
      BY <1>0, <1>2 DEF SetDeadlines
    <2> QED
      BY <2>1, <2>2, <2>3, <2>4
  <1>3. CASE CancelSubJob \/ StartSubJob \/ FinishSubJob
    BY <1>3 DEF CancelSubJob, StartSubJob, FinishSubJob, WriteStatus, NoTurn
  <1>4. CASE \E s \in Services : ScaleUpReads(s)
    <2>1. PICK s \in turn.todo :
              /\ turn.step = "scale"
              /\ turn' = [turn EXCEPT !.todo = @ \ {s}, !.call = ReadCount(s)]
              /\ UNCHANGED <<rows, status, armed>>
      BY <1>4 DEF ScaleUpReads
    <2>2. /\ turn'.step = "scale" /\ turn'.todo = turn.todo \ {s}
          /\ turn'.call = {[service |-> s, seen |-> desired[s]]}
      BY <1>0, <2>1 DEF Turn, ReadCount
    <2> QED
      BY <1>0, <2>1, <2>2 DEF Present
  <1>5. CASE ScaleUpWrites
    <2>1. turn'.step = turn.step /\ turn'.todo = turn.todo /\ turn'.call = {}
      BY <1>0, <1>5 DEF ScaleUpWrites, Turn
    <2> QED
      BY <1>0, <1>5, <2>1 DEF ScaleUpWrites, Present
  <1>6. CASE TurnFails \/ SchedulerCrashes
    BY <1>0, <1>6 DEF TurnFails, SchedulerCrashes, NoTurn, Present
  <1>7. CASE DescalerLists \/ DescalerWrites \/ DescalerFails
             \/ \E s \in Services : DescalerReads(s)
    <2>1. UNCHANGED <<rows, turn, status, armed>>
      BY <1>7 DEF DescalerLists, DescalerReads, DescalerWrites, DescalerFails, DescalerFrame
    <2> QED
      BY <1>0, <2>1 DEF Present
  <1>8. CASE DescalerClears
    <2>1. status # "Created"
      BY <1>8 DEF DescalerClears, DatedInv, DescalerInv, NoRound
    <2>2. Present' = Present /\ UNCHANGED <<turn, status, armed>>
      BY <1>0, <1>8, SetDescaleAtEffect
         DEF DescalerClears, DescalerFrame, IInv, TypeInv, RoundInv, Round
    <2> QED
      BY <1>0, <2>1, <2>2
  <1>9. CASE \E s \in Services : DeadlinePasses(s)
    <2>1. PICK s \in Services : DeadlinePasses(s)
      BY <1>9
    <2>2. UNCHANGED <<turn, status, armed>> /\ Present' = Present
          /\ \A x \in Services : rows'[x] = rows[x] \/ rows'[x].descale_at = "due"
      BY <1>0, <2>1, DeadlinePassesEffect DEF DeadlinePasses
    <2>3. \A c \in turn.call : c.service \in Services
      BY <1>0 DEF Turn, Calls
    <2> QED
      BY <1>0, <2>2, <2>3 DEF Turn
  <1>10. CASE UNCHANGED vars
    BY <1>0, <1>10 DEF vars, Present
  <1> QED
    BY <1>0, <1>1, <1>2, <1>3, <1>4, <1>5, <1>6, <1>7, <1>8, <1>9, <1>10, AloneSteps

LEMMA StepDescalerDated ==
    ASSUME Alone, IInv, DatedInv, [Next]_vars
    PROVE  DescalerInv'
  <1>0. TypeInv /\ RowsInv /\ turn \in Turn /\ descale \in Round /\ AloneInv /\ DescalerInv
        /\ HandlerInv
    BY DEF IInv, TypeInv, TurnInv, RoundInv, DatedInv
  <1> USE DEF DescalerInv
  <1>1. CASE ReadServices \/ SetDeadlines \/ CancelSubJob \/ StartSubJob \/ FinishSubJob
             \/ TurnFails \/ \E s \in Services : ScaleUpReads(s)
    BY <1>0, <1>1
       DEF ReadServices, SetDeadlines, CancelSubJob, StartSubJob, FinishSubJob, TurnFails,
           ScaleUpReads, WriteStatus, HandlerFrame
  <1>2. CASE ScaleUpWrites
    <2>1. status = "Created" /\ descale = NoRound
      BY <1>0, <1>2 DEF ScaleUpWrites, IInv, TypeInv, TurnInv, HandlerInv
    <2> QED
      BY <1>2, <2>1 DEF ScaleUpWrites, HandlerFrame, NoRound
  <1>3. CASE DescalerLists
    <2>1. status # "Created"
      BY <1>3 DEF DescalerLists, Due, Present, DatedInv, DeadlineInv
    <2> QED
      BY <1>3, <2>1 DEF DescalerLists, DescalerFrame, NoRound
  <1>4. CASE \E s \in Services : DescalerReads(s)
    <2>1. PICK s \in Services : DescalerReads(s)
      BY <1>4
    <2>2. descale'.call = {[service |-> s, seen |-> desired[s]]} /\ descale'.clear = {}
      BY <1>0, <2>1 DEF DescalerReads, ReadCount, Round
    <2>3. status # "Created"
      BY <1>0, <2>1 DEF DescalerReads, NoRound
    <2> QED
      BY <2>1, <2>2, <2>3 DEF DescalerReads, DescalerFrame
  <1>5. CASE DescalerWrites
    <2>1. status # "Created" /\ status' = status
      BY <1>0, <1>5 DEF DescalerWrites, DescalerFrame, NoRound
    <2> QED
      BY <1>0, <1>5, <2>1, DescalerWritesZero
  <1>6. CASE DescalerClears \/ DescalerFails
    <2>1. status # "Created" /\ status' = status /\ desired' = desired
      BY <1>0, <1>6 DEF DescalerClears, DescalerFails, DescalerFrame, NoRound
    <2>2. descale'.clear = {} /\ descale'.call \subseteq descale.call
      BY <1>0, <1>6 DEF DescalerClears, DescalerFails, Round
    <2> QED
      BY <1>0, <2>1, <2>2
  <1>7. CASE \E s \in Services : DeadlinePasses(s)
    BY <1>0, <1>7 DEF DeadlinePasses
  <1>8. CASE SchedulerCrashes
    BY <1>8 DEF SchedulerCrashes, NoRound
  <1>9. CASE UNCHANGED vars
    BY <1>0, <1>9 DEF vars
  <1> QED
    BY <1>0, <1>1, <1>2, <1>3, <1>4, <1>5, <1>6, <1>7, <1>8, <1>9, AloneSteps

LEMMA StepDeadlineDated ==
    ASSUME Alone, IInv, DatedInv, [Next]_vars
    PROVE  DeadlineInv'
  <1>0. TypeInv /\ RowsInv /\ CountInv /\ turn \in Turn /\ descale \in Round
        /\ AloneInv /\ HandlerInv /\ DescalerInv /\ DeadlineInv
    BY DEF IInv, TypeInv, TurnInv, RoundInv, DatedInv
  <1> USE DEF DeadlineInv
  <1>1. CASE ReadServices \/ CancelSubJob \/ StartSubJob \/ FinishSubJob
    BY <1>0, <1>1 DEF ReadServices, CancelSubJob, StartSubJob, FinishSubJob, WriteStatus
  <1>2. CASE SetDeadlines
    <2>1. /\ \A s \in Services : rows'[s] = rows[s] \/ rows'[s].descale_at = "ahead"
          /\ armed' = TRUE /\ UNCHANGED <<desired, status>>
      BY <1>0, <1>2, SetDescaleAtEffect DEF SetDeadlines, Turn
    <2> QED
      BY <1>0, <2>1
  <1>3. CASE TurnFails \/ SchedulerCrashes \/ \E s \in Services : ScaleUpReads(s)
    <2>1. UNCHANGED <<rows, desired, status, armed>>
      BY <1>3 DEF TurnFails, SchedulerCrashes, ScaleUpReads
    <2> QED
      BY <1>0, <2>1
  <1>4. CASE ScaleUpWrites
    <2>1. PICK c \in turn.call : WriteCount(c, c.seen + turn.each)
      BY <1>4 DEF ScaleUpWrites
    <2>2. c \in Calls /\ c.seen + turn.each \in Nat
      BY <1>0, <2>1 DEF Turn, Calls
    <2>3. \A s \in Services : desired'[s] = desired[s] \/ s = c.service
      BY <1>0, <2>1, <2>2, WriteCountEffect
    <2>4. turn.step = "scale" /\ armed /\ rows[c.service].descale_at # "none"
      BY <1>0, <2>1 DEF HandlerInv, IInv, TypeInv, TurnInv
    <2>5. UNCHANGED <<rows, status, armed>>
      BY <1>4 DEF ScaleUpWrites
    <2> QED
      BY <1>0, <2>3, <2>4, <2>5
  <1>5. CASE DescalerLists \/ DescalerFails \/ \E s \in Services : DescalerReads(s)
    <2>1. UNCHANGED <<rows, desired, status, armed>>
      BY <1>5 DEF DescalerLists, DescalerReads, DescalerFails, DescalerFrame
    <2> QED
      BY <1>0, <2>1
  <1>6. CASE DescalerWrites
    <2>1. \A s \in Services : desired'[s] = desired[s] \/ desired'[s] = 0
      BY <1>0, <1>6, DescalerWritesZero
    <2>2. UNCHANGED <<rows, status, armed>>
      BY <1>6 DEF DescalerWrites, DescalerFrame
    <2> QED
      BY <1>0, <2>1, <2>2
  <1>7. CASE DescalerClears
    <2>1. status # "Created" /\ UNCHANGED <<desired, status>>
      BY <1>0, <1>7 DEF DescalerClears, DescalerFrame, DescalerInv, NoRound
    <2>2. \A s \in Services : s \notin descale.clear => rows'[s] = rows[s]
      BY <1>0, <1>7, SetDescaleAtEffect DEF DescalerClears, Round
    <2> QED
      BY <1>0, <2>1, <2>2 DEF DescalerInv
  <1>8. CASE \E s \in Services : DeadlinePasses(s)
    <2>1. PICK s \in Services : DeadlinePasses(s)
      BY <1>8
    <2>2. status # "Created"
      BY <1>0, <2>1 DEF DeadlinePasses
    <2>3. \A x \in Services : rows'[x] = rows[x] \/ rows'[x].descale_at = "due"
      BY <1>0, <2>1, DeadlinePassesEffect
    <2>4. UNCHANGED <<desired, status>>
      BY <2>1 DEF DeadlinePasses
    <2> QED
      BY <1>0, <2>2, <2>3, <2>4
  <1>9. CASE UNCHANGED vars
    BY <1>0, <1>9 DEF vars
  <1> QED
    BY <1>0, <1>1, <1>2, <1>3, <1>4, <1>5, <1>6, <1>7, <1>8, <1>9, AloneSteps

LEMMA StepDated ==
    ASSUME Alone, IInv, DatedInv, [Next]_vars
    PROVE  DatedInv'
  <1>1. TypeInv /\ AloneInv
    BY DEF IInv, DatedInv
  <1> QED
    BY <1>1, AloneSteps, StepHandlerDated, StepDescalerDated, StepDeadlineDated DEF DatedInv

----------------------------------------------------------------------------
(* The theorems *)

LEMMA Inductive == Spec => []IInv
  <1>1. Init => IInv
    BY InitType, InitBudget DEF IInv
  <1>2. IInv /\ [Next]_vars => IInv'
    BY StepTypeInv, StepRaise, StepBudget DEF IInv
  <1> QED
    BY <1>1, <1>2, PTL DEF Spec

\* No count is below zero, and no task has two calls under way.
THEOREM TypeCorrect == Spec => []TypeOK
  <1>1. IInv => TypeOK
    <2> SUFFICES ASSUME TypeInv PROVE TypeOK
      BY DEF IInv
    <2>1. turn \in Turn /\ descale \in Round /\ request \in Requested
      BY DEF TypeInv, TurnInv, RoundInv, RequestInv
    <2>2. \A S \in {turn.call, descale.call, descale.clear,
                    request.call, request.next, request.clear} : AtMostOne(S)
      BY DEF TypeInv, TurnInv, RoundInv, RequestInv
    <2>3. CountInv /\ rows \in [Services -> ServiceRow]
      BY DEF TypeInv, RowsInv
    <2> QED
      BY <2>1, <2>2, <2>3 DEF TypeOK, CountInv, Turn, Round, Requested
  <1> QED
    BY Inductive, <1>1, PTL

\* No service gets more than a target for every attempt to scale it, and one
\* worker for every request.
THEOREM ScalingIsBounded == Spec => []ScaledPerAttempt
  <1>1. IInv => ScaledPerAttempt
    <2> SUFFICES ASSUME IInv, NEW s \in Services
                 PROVE  desired[s] <= TargetWorkers * (sub_job + faults + crashes) + requests
      BY DEF ScaledPerAttempt
    <2>1. TypeInv /\ RaiseInv /\ desired[s] <= Limit(s) /\ desired[s] \in Nat /\ requests \in Nat
      BY DEF IInv, BudgetInv, TypeInv, CountInv
    <2>2. Attempts \in Nat /\ Scalings(s) \in Nat /\ Scalings(s) <= Attempts
      BY <2>1, LimitType DEF Scalings
    <2>3. TargetWorkers * Scalings(s) <= TargetWorkers * Attempts
          /\ TargetWorkers * Scalings(s) \in Nat /\ TargetWorkers * Attempts \in Nat
      BY <2>2, TargetTimes
    <2>4. Raises \in Nat /\ Raises <= requests
      BY <2>1, LimitType DEF Raises
    <2>5. desired[s] <= TargetWorkers * Attempts + requests
      BY <2>1, <2>3, <2>4 DEF Limit
    <2> QED
      BY <2>5 DEF Attempts
  <1> QED
    BY Inductive, <1>1, PTL

\* Until a request or another sub job interferes, a service with workers has a
\* descale deadline on Fargate, whatever calls fail, whenever the scheduler
\* crashes and whatever the descaler does meanwhile.
THEOREM ScaledIsDated == Spec => []DatedUntilDisturbed
  <1>1. Init => (Undisturbed => DatedInv)
    BY InitDated
  <1>2. IInv /\ (Undisturbed => DatedInv) /\ [Next]_vars => (Undisturbed => DatedInv)'
    <2> SUFFICES ASSUME IInv, Undisturbed => DatedInv, [Next]_vars, Undisturbed'
                 PROVE  DatedInv'
      OBVIOUS
    <2>1. Undisturbed
      BY DisturbedForGood DEF IInv
    <2> QED
      BY <2>1, StepDated DEF Alone
  <1>3. (Undisturbed => DatedInv) => DatedUntilDisturbed
    BY DEF DatedInv, DeadlineInv, DatedUntilDisturbed
  <1> QED
    BY Inductive, <1>1, <1>2, <1>3, PTL DEF Spec

=============================================================================
