---------------------------- MODULE StatusBoard ----------------------------
(***************************************************************************)
(* What the scheduler promises about the status of workers, without the    *)
(* processes, the queue, the consumers and their failures.                 *)
(*                                                                         *)
(* A status message is afloat until it is settled.  In the meantime the    *)
(* row of its worker takes it in, at most once and only if it is newer     *)
(* than what the row holds, in whatever order messages arrive and however  *)
(* often; a lifecycle message also gives the worker its topics or takes    *)
(* them away.  No message is settled before that is done, and nothing else *)
(* is written, except that a silent worker is set offline.  Work on a      *)
(* message that went astray may also be done a second time, at any later   *)
(* moment.                                                                 *)
(***************************************************************************)
EXTENDS Naturals

CONSTANTS
    Workers,
    Messages  \* records of a worker, a kind and a timestamp

VARIABLES
    afloat,   \* the messages that are not settled yet
    done,     \* those of them that have nothing left to do
    astray,   \* messages whose work may also be done later
    board,    \* the row of a worker: its status and when it was last seen
    topics    \* the workers that have their topics

vars == <<afloat, done, astray, board, topics>>

Lifecycle == {"online", "offline"}

Init ==
    /\ afloat = {} /\ done = {} /\ astray = {}
    /\ board = [w \in Workers |-> [status |-> "none", last_seen |-> 0]]
    /\ topics = {}

Known(w) == board[w].status # "none"

\* The row of its worker holds m or something newer.
Seen(m) == Known(m.worker) /\ m.timestamp <= board[m.worker].last_seen

\* Work on m that is all that it needs, or that comes from a stray.
Finishes(m) == m \in afloat /\ done' = done \union {m}
Strays(m) == m \in astray /\ UNCHANGED done

Publish(m) ==
    /\ afloat' = afloat \union {m}
    /\ UNCHANGED <<done, astray, board, topics>>

\* Only a lifecycle message makes a worker known.
StatusAfter(m) ==
    CASE m.kind = "heartbeat" -> "online"
      [] m.kind = "job"       -> board[m.worker].status
      [] OTHER                -> m.kind

TakeIn(m) ==
    /\ Known(m.worker) \/ m.kind \in Lifecycle
    /\ ~Seen(m)
    /\ board' = [board EXCEPT ![m.worker] = [status    |-> StatusAfter(m),
                                             last_seen |-> m.timestamp]]
    /\ \/ m.kind \notin Lifecycle /\ Finishes(m)
       \/ m.kind \in Lifecycle /\ m \in afloat /\ UNCHANGED done
       \/ Strays(m)
    /\ UNCHANGED <<afloat, astray, topics>>

\* There is nothing to take in.
PassOver(m) ==
    /\ m.kind \notin Lifecycle
    /\ Seen(m) \/ ~Known(m.worker)
    /\ Finishes(m)
    /\ UNCHANGED <<afloat, astray, board, topics>>

\* A lifecycle message decides on the topics, however late it is.
SetTopics(m) ==
    /\ m.kind \in Lifecycle
    /\ Seen(m)
    /\ topics' = IF m.kind = "online" THEN topics \union {m.worker}
                                      ELSE topics \ {m.worker}
    /\ Finishes(m) \/ Strays(m)
    /\ UNCHANGED <<afloat, astray, board>>

Settle(m) ==
    /\ m \in afloat \intersect done
    /\ afloat' = afloat \ {m}
    /\ done' = done \ {m}
    /\ UNCHANGED <<astray, board, topics>>

\* Some messages are begun anew; the work on one of them, or on none, goes astray,
\* and strays are given up.
Redo ==
    /\ done' \in SUBSET done
    /\ \/ astray' \in SUBSET astray
       \/ \E m \in afloat : astray' = astray \union {m}
    /\ UNCHANGED <<afloat, board, topics>>

Silence(w) ==
    /\ Known(w)
    /\ board' = [board EXCEPT ![w] = [status |-> "offline", last_seen |-> @.last_seen]]
    /\ UNCHANGED <<afloat, done, astray, topics>>

Next ==
    \/ \E m \in Messages :
          Publish(m) \/ TakeIn(m) \/ PassOver(m) \/ SetTopics(m) \/ Settle(m)
    \/ Redo
    \/ \E w \in Workers : Silence(w)

Spec == Init /\ [][Next]_vars

=============================================================================
