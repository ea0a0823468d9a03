----------------------------- MODULE BrokerLink -----------------------------
(***************************************************************************)
(* What the RabbitMQ client promises a program, as if it were done in      *)
(* single steps: there is a connection or there is none, and the roles     *)
(* attach to it one by one, a subscriber serving its queue only once it is *)
(* attached.  A connection that is lost takes all of them with it, and a   *)
(* channel that is lost takes its role.                                    *)
(***************************************************************************)
CONSTANTS
    Roles,       \* the publishers and subscribers of the program
    Subscribers

VARIABLES
    connected,  \* the program has a connection that works
    attached,   \* the roles with a channel that works
    serving     \* the subscribers that consume on theirs

vars == <<connected, attached, serving>>

Init ==
    /\ connected = FALSE
    /\ attached = {}
    /\ serving = {}

Connect ==
    /\ ~connected
    /\ connected' = TRUE
    /\ UNCHANGED <<attached, serving>>

Lose ==
    /\ connected
    /\ connected' = FALSE
    /\ attached' = {}
    /\ serving' = {}

\* A role that has a channel does not open another.
Attach(r) ==
    /\ connected
    /\ r \notin attached
    /\ attached' = attached \union {r}
    /\ UNCHANGED <<connected, serving>>

\* Once per channel, or the queue would have the same consumer twice.
Serve(s) ==
    /\ s \in attached
    /\ s \notin serving
    /\ serving' = serving \union {s}
    /\ UNCHANGED <<connected, attached>>

Detach(r) ==
    /\ r \in attached
    /\ attached' = attached \ {r}
    /\ serving' = serving \ {r}
    /\ UNCHANGED connected

Next ==
    \/ Connect \/ Lose
    \/ \E r \in Roles : Attach(r) \/ Detach(r)
    \/ \E s \in Subscribers : Serve(s)

Spec == Init /\ [][Next]_vars

=============================================================================
