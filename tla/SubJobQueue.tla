---------------------------- MODULE SubJobQueue ----------------------------
(***************************************************************************)
(* What the scheduler promises about its queue of sub jobs, without the    *)
(* handler, the broker, the workers and their failures.                    *)
(*                                                                         *)
(* Sub jobs enter in an order and wait for their turn.  On its turn the    *)
(* workers are counted, the sub job is announced to them and opened.  They *)
(* answer, and the sub job is completed when as many answered as were      *)
(* asked.  It may be dropped at any time.  A sub job that was announced    *)
(* may be opened again by a late message, but none ever waits again.       *)
(***************************************************************************)
EXTENDS Naturals, FiniteSets

CONSTANTS
    SubJobs,  \* the sub jobs, natural numbers in the order they enter
    Answers   \* what workers may answer

VARIABLES
    stage,       \* where a sub job is
    benchmarks,  \* the sub jobs that workers carry out; the others scale services
    asked,       \* the number of workers a sub job is for
    announced,   \* the sub jobs whose message went out
    answers      \* the answers to a sub job

vars == <<stage, benchmarks, asked, announced, answers>>

Stages == {"absent", "waiting", "open", "completed", "dropped"}

Init ==
    /\ stage = [s \in SubJobs |-> "absent"]
    /\ benchmarks = {}
    /\ asked = [s \in SubJobs |-> 0]
    /\ announced = {}
    /\ answers = [s \in SubJobs |-> {}]

IsOld(s) == stage[s] \notin {"absent", "waiting"}

\* Nothing older than s is left untouched.
IsTurn(s) ==
    /\ stage[s] # "absent"
    /\ \A t \in SubJobs : t < s => IsOld(t)

Enter(s) ==
    /\ stage[s] = "absent"
    /\ \A t \in SubJobs : t < s => stage[t] # "absent"
    /\ stage' = [stage EXCEPT ![s] = "waiting"]
    /\ \/ benchmarks' = benchmarks \union {s}
       \/ UNCHANGED benchmarks
    /\ UNCHANGED <<asked, announced, answers>>

Ask(s) ==
    /\ IsTurn(s)
    /\ s \in benchmarks
    /\ stage[s] # "completed"
    /\ asked' \in [SubJobs -> Nat]
    /\ asked'[s] > 0
    /\ \A t \in SubJobs \ {s} : asked'[t] = asked[t]
    /\ UNCHANGED <<stage, benchmarks, announced, answers>>

Announce(s) ==
    /\ IsTurn(s)
    /\ stage[s] # "completed"
    /\ asked[s] > 0
    /\ announced' = announced \union {s}
    /\ UNCHANGED <<stage, benchmarks, asked, answers>>

Open(s) ==
    /\ IsTurn(s)
    /\ s \in benchmarks => s \in announced
    /\ stage' = [stage EXCEPT ![s] = "open"]
    /\ UNCHANGED <<benchmarks, asked, announced, answers>>

Answer(s) ==
    /\ s \in announced
    /\ answers' \in [SubJobs -> SUBSET Answers]
    /\ \E a \in answers'[s] : answers' = [answers EXCEPT ![s] = @ \union {a}]
    /\ UNCHANGED <<stage, benchmarks, asked, announced>>

Complete(s) ==
    /\ IsTurn(s)
    /\ IsOld(s)
    /\ Cardinality(answers[s]) >= asked[s]
    /\ stage' = [stage EXCEPT ![s] = "completed"]
    /\ UNCHANGED <<benchmarks, asked, announced, answers>>

\* Canceling a job drops all its sub jobs at once.
Drop ==
    /\ stage' \in [SubJobs -> Stages]
    /\ \A s \in SubJobs : stage'[s] # stage[s] => stage[s] # "absent" /\ stage'[s] = "dropped"
    /\ UNCHANGED <<benchmarks, asked, announced, answers>>

Next ==
    \/ Drop
    \/ \E s \in SubJobs :
          Enter(s) \/ Ask(s) \/ Announce(s) \/ Open(s) \/ Answer(s) \/ Complete(s)

Spec == Init /\ [][Next]_vars

============================================================================
