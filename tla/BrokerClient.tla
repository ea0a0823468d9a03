---------------------------- MODULE BrokerClient ----------------------------
(***************************************************************************)
(* The RabbitMQ client of a program (crate rabbitmq): the connection       *)
(* manager that reconnects, the publishers and subscribers that keep a     *)
(* channel each on whatever connection there is, and the main task that    *)
(* waits for the first connection and closes everything in the end, here    *)
(* the one of a worker; that of the scheduler sends no lifecycle status.    *)
(*                                                                         *)
(* A step is what a task does between two awaits.  A publisher holds its   *)
(* channel's mutex through ensure_channel, a subscriber through setup but  *)
(* for the lookup of the connection.  Sleeps between the turns of a loop   *)
(* are the stuttering between two steps.                                   *)
(*                                                                         *)
(* Of amqprs, the client library, it is assumed that a call fails only     *)
(* when its channel or its connection is closed, that a refused call       *)
(* closes its channel, that a channel is marked closed some time after its *)
(* connection was lost, and that a dropped channel is closed.              *)
(***************************************************************************)
EXTENDS Naturals, Sequences, SequencesExt, FiniteSets

CONSTANTS
    Publishers,
    Subscribers,
    StatusPublisher,  \* the publisher of main
    CloseOrder,       \* the order in which main closes their channels
    MaxFaults         \* bound: connections lost, connections refused, channels closed

Roles == Publishers \union Subscribers

ASSUME BrokerClientAssumption ==
    /\ StatusPublisher \in Publishers
    /\ Publishers \intersect Subscribers = {}
    /\ CloseOrder \in Seq(Roles) /\ ToSet(CloseOrder) = Roles
    /\ MaxFaults \in Nat

NoConnection == 0
NoChannel == [role |-> "none", conn |-> NoConnection, n |-> 0]

MainSteps == {"new", "waiting", "online", "run", "offline", "closing", "closed", "down"}
ManagerSteps == {"check", "open", "store", "notify"}
PublisherSteps == {"idle", "lookup", "open", "declare"}
SubscriberSteps == {"idle", "lock", "open", "declare", "consume"}

VARIABLES
    main,       \* where main stands
    toClose,    \* the channels main still has to close
    manager,    \* the next step of ConnectionManager::run
    running,    \* the running flags that are set: roles and "manager"
    conn,       \* ConnectionManager.connection
    opened,     \* number of connections opened
    up,         \* connections that are open
    step,       \* the next step of the task that works on the channel of a role
    using,      \* the connection that task has looked up
    channel,    \* the channel of a role
    building,   \* the channel that is not stored yet
    open,       \* channels that are marked open
    consumers,  \* channels with a consumer
    faults

mainVars == <<main, toClose>>
managerVars == <<manager, conn, opened>>
roleVars == <<step, using, channel, building, consumers>>
vars == <<mainVars, managerVars, running, up, roleVars, open, faults>>

Works(ch) == ch \in open /\ ch.conn \in up

Fault == faults < MaxFaults /\ faults' = faults + 1

----------------------------------------------------------------------------
(* The connection manager *)

ManagerFrame == UNCHANGED <<toClose, running, roleVars, open>>

\* The check of connect; an open connection leaves everything as it is.
ManagerChecks ==
    /\ manager = "check"
    /\ "manager" \in running
    /\ conn \notin up
    /\ manager' = "open"
    /\ UNCHANGED <<main, conn, opened, up, faults>>
    /\ ManagerFrame

ManagerOpens ==
    /\ manager = "open"
    /\ \/ /\ opened' = opened + 1
          /\ up' = up \union {opened'}
          /\ manager' = "store"
          /\ UNCHANGED faults
       \/ /\ Fault
          /\ manager' = "check"
          /\ UNCHANGED <<opened, up>>
    /\ UNCHANGED <<main, conn>>
    /\ ManagerFrame

\* Nobody asks whether running is still set.
ManagerStores ==
    /\ manager = "store"
    /\ conn' = opened
    /\ manager' = "notify"
    /\ UNCHANGED <<main, opened, up, faults>>
    /\ ManagerFrame

\* (mutant) nobody is notified
NotifyWaiters_Forgotten == UNCHANGED main

\* notify_waiters wakes only who waits already.
NotifyWaiters == main' = IF main = "waiting" THEN "online" ELSE main

ManagerNotifies ==
    /\ manager = "notify"
    /\ NotifyWaiters
    /\ manager' = "check"
    /\ UNCHANGED <<conn, opened, up, faults>>
    /\ ManagerFrame

Manager == ManagerChecks \/ ManagerOpens \/ ManagerStores \/ ManagerNotifies

----------------------------------------------------------------------------
(* Publishers and subscribers *)

RoleFrame == UNCHANGED <<mainVars, managerVars, running, up, faults>>

Goes(r, s) == step' = [step EXCEPT ![r] = s]

\* What a turn has looked up ends with it.
EndsTurn(r) == Goes(r, "idle") /\ using' = [using EXCEPT ![r] = NoConnection]

\* Nobody holds the mutex of the channel.
IsFree(r) == step[r] = "idle" \/ (r \in Subscribers /\ step[r] = "lock")

\* ensure_channel: a channel that works is returned as it is.
EnsureChannel(p) ==
    /\ step[p] = "idle"
    /\ ~Works(channel[p])
    /\ Goes(p, "lookup")
    /\ UNCHANGED <<using, channel, building, open, consumers>>
    /\ RoleFrame

PublisherRuns(p) == p \in running /\ EnsureChannel(p)

\* Publishing does not look at running.
Publish(p) == EnsureChannel(p)

PublisherLooksUp(p) ==
    /\ step[p] = "lookup"
    /\ IF conn = NoConnection
       THEN Goes(p, "idle") /\ UNCHANGED using
       ELSE Goes(p, "open") /\ using' = [using EXCEPT ![p] = conn]
    /\ UNCHANGED <<channel, building, open, consumers>>
    /\ RoleFrame

\* setup looks up the connection before it takes the mutex ...
SubscriberLooksUp(s) ==
    /\ step[s] = "idle"
    /\ conn # NoConnection
    /\ using' = [using EXCEPT ![s] = conn]
    /\ Goes(s, "lock")
    /\ UNCHANGED <<channel, building, open, consumers>>
    /\ RoleFrame

\* (mutant) a new channel every turn
NeedsSetup_Always(s) == TRUE

\* (mutant) a channel that was stored once is never replaced
NeedsSetup_Once(s) == channel[s] = NoChannel

\* ... and then looks at the channel only, not at its connection.
NeedsSetup(s) == channel[s] \notin open

SubscriberLocks(s) ==
    /\ step[s] = "lock"
    /\ IF NeedsSetup(s) THEN Goes(s, "open") /\ UNCHANGED using ELSE EndsTurn(s)
    /\ UNCHANGED <<channel, building, open, consumers>>
    /\ RoleFrame

\* The connection gives a channel a number that is not in use.
NewChannel(r) ==
    LET numbered(n) == [role |-> r, conn |-> using[r], n |-> n] IN
    numbered(CHOOSE n \in 1..(Cardinality(open) + 2) :
                 numbered(n) \notin open \union {channel[r]})

\* An open_channel that fails ends the turn.
OpenChannel(r) ==
    /\ step[r] = "open"
    /\ IF using[r] \in up
       THEN /\ building' = [building EXCEPT ![r] = NewChannel(r)]
            /\ open' = open \union {NewChannel(r)}
            /\ Goes(r, "declare")
            /\ UNCHANGED using
       ELSE /\ EndsTurn(r)
            /\ UNCHANGED <<building, open>>
    /\ UNCHANGED <<channel, consumers>>
    /\ RoleFrame

\* The declarations and bindings; the channel is stored after the last one, and
\* dropped when one fails.
Declare(r) ==
    /\ step[r] = "declare"
    /\ IF Works(building[r])
       THEN /\ channel' = [channel EXCEPT ![r] = building[r]]
            /\ IF r \in Subscribers THEN Goes(r, "consume") /\ UNCHANGED using
                                    ELSE EndsTurn(r)
            /\ UNCHANGED open
       ELSE /\ open' = open \ {building[r]}
            /\ EndsTurn(r)
            /\ UNCHANGED channel
    /\ building' = [building EXCEPT ![r] = NoChannel]
    /\ UNCHANGED consumers
    /\ RoleFrame

\* (mutant) a call on a channel that is closed waits for its answer for ever
Consume_Waits(s) ==
    /\ step[s] = "consume"
    /\ Works(channel[s])
    /\ consumers' = consumers \union {channel[s]}
    /\ EndsTurn(s)
    /\ UNCHANGED <<channel, building, open>>
    /\ RoleFrame

\* (mutant) an error of basic_consume counts as success
Consume_Unchecked(s) ==
    /\ step[s] = "consume"
    /\ consumers' = consumers \union {channel[s]}
    /\ EndsTurn(s)
    /\ UNCHANGED <<channel, building, open>>
    /\ RoleFrame

\* basic_consume, on the channel that is already stored.
Consume(s) ==
    /\ step[s] = "consume"
    /\ consumers' = IF Works(channel[s]) THEN consumers \union {channel[s]} ELSE consumers
    /\ EndsTurn(s)
    /\ UNCHANGED <<channel, building, open>>
    /\ RoleFrame

\* The loop of a role never stops by itself but for a publisher that is closed.
PublisherStep(p) == PublisherRuns(p) \/ PublisherLooksUp(p) \/ OpenChannel(p) \/ Declare(p)
SubscriberStep(s) ==
    SubscriberLooksUp(s) \/ SubscriberLocks(s) \/ OpenChannel(s) \/ Declare(s) \/ Consume(s)

----------------------------------------------------------------------------
(* main *)

MainFrame == UNCHANGED <<managerVars, faults>>

\* start_connection_manager spawns the manager and then listens.
WaitForConnection ==
    /\ main = "new"
    /\ main' = "waiting"
    /\ UNCHANGED <<toClose, running, up, roleVars, open>>
    /\ MainFrame

\* The publisher main uses has a channel that works.
Published == Works(channel[StatusPublisher])

\* SIGINT or SIGTERM.
Shutdown ==
    /\ main = "run"
    /\ main' = "offline"
    /\ UNCHANGED <<toClose, running, up, roleVars, open>>
    /\ MainFrame

\* Online before the subscriber is started, Offline before anything is closed;
\* main ends at once when one of them cannot be published.
SendLifecycle ==
    /\ \/ main = "online"  /\ Published /\ main' = "run"
       \/ main = "offline" /\ Published /\ main' = "closing"
       \/ main \in {"online", "offline"} /\ ~Published /\ faults > 0 /\ main' = "down"
    /\ UNCHANGED <<toClose, running, up, roleVars, open>>
    /\ MainFrame

\* close_channel takes the channel under its mutex.
CloseChannel ==
    /\ main = "closing"
    /\ toClose # <<>>
    /\ LET r == Head(toClose) IN
       /\ IsFree(r)
       /\ running' = IF r \in Publishers THEN running \ {r} ELSE running
       /\ channel' = [channel EXCEPT ![r] = NoChannel]
       /\ open' = open \ {channel[r]}
       /\ consumers' = consumers \ {channel[r]}
    /\ toClose' = Tail(toClose)
    /\ UNCHANGED <<main, up, step, using, building>>
    /\ MainFrame

\* (mutant) the connection is forgotten but not closed
CloseConnection_Forgotten ==
    /\ main = "closing"
    /\ toClose = <<>>
    /\ running' = running \ {"manager"}
    /\ conn' = NoConnection
    /\ main' = "closed"
    /\ UNCHANGED <<toClose, manager, opened, up, roleVars, open, faults>>

CloseConnection ==
    /\ main = "closing"
    /\ toClose = <<>>
    /\ running' = running \ {"manager"}
    /\ up' = up \ {conn}
    /\ conn' = NoConnection
    /\ main' = "closed"
    /\ UNCHANGED <<toClose, manager, opened, roleVars, open, faults>>

\* main returns, and every task ends with it.
Exits ==
    /\ main = "closed"
    /\ main' = "down"
    /\ UNCHANGED <<toClose, running, up, roleVars, open>>
    /\ MainFrame

MainEnds == CloseChannel \/ CloseConnection \/ Exits

----------------------------------------------------------------------------
(* The broker, the network and amqprs *)

ConnectionLost(c) ==
    /\ Fault
    /\ up' = up \ {c}
    /\ UNCHANGED <<mainVars, managerVars, running, roleVars, open>>

\* An error on a channel, such as a refused declaration, closes it.
ChannelClosed(ch) ==
    /\ Fault
    /\ open' = open \ {ch}
    /\ consumers' = consumers \ {ch}
    /\ UNCHANGED <<mainVars, managerVars, running, up, step, using, channel, building>>

ChannelFollows(ch) ==
    /\ ch.conn \notin up
    /\ open' = open \ {ch}
    /\ consumers' = consumers \ {ch}
    /\ UNCHANGED <<step, using, channel, building>>
    /\ RoleFrame

----------------------------------------------------------------------------
Init ==
    /\ main = "new"
    /\ toClose = CloseOrder
    /\ manager = "check"
    /\ running = Publishers \union {"manager"}
    /\ conn = NoConnection /\ opened = 0 /\ up = {}
    /\ step = [r \in Roles |-> "idle"]
    /\ using = [r \in Roles |-> NoConnection]
    /\ channel = [r \in Roles |-> NoChannel]
    /\ building = [r \in Roles |-> NoChannel]
    /\ open = {} /\ consumers = {}
    /\ faults = 0

\* main starts publishers when it has a connection, subscribers when it is online.
PublishersRun == main \notin {"new", "waiting", "down"}
SubscribersRun == PublishersRun /\ main # "online"

RoleStep ==
    \/ PublishersRun /\ \E p \in Publishers : PublisherStep(p) \/ Publish(p)
    \/ SubscribersRun /\ \E s \in Subscribers : SubscriberStep(s)

Next ==
    /\ main # "down"
    /\ \/ Manager
       \/ RoleStep
       \/ WaitForConnection \/ Shutdown \/ SendLifecycle \/ MainEnds
       \/ \E c \in up : ConnectionLost(c)
       \/ \E ch \in open : ChannelClosed(ch) \/ ChannelFollows(ch)

Spec == Init /\ [][Next]_vars

Alive == main # "down"

\* The tasks run, the mutex of a channel is given in the order of the requests,
\* and every channel learns of the loss of its connection.
Fairness ==
    /\ WF_vars(Alive /\ Manager)
    /\ WF_vars(WaitForConnection \/ SendLifecycle)
    /\ SF_vars(Alive /\ MainEnds)
    /\ \A p \in Publishers : WF_vars(PublishersRun /\ PublisherStep(p))
    /\ \A s \in Subscribers : WF_vars(SubscribersRun /\ SubscriberStep(s))
    /\ WF_vars(Alive /\ \E ch \in open : ChannelFollows(ch))

FairSpec == Spec /\ Fairness

----------------------------------------------------------------------------
(* Properties *)

Connections == 0..opened
Channels == [role: Roles, conn: Connections, n: Nat]

\* The type of every variable.
TypeOK ==
    /\ main \in MainSteps
    /\ \E i \in 0..Len(CloseOrder) : toClose = SubSeq(CloseOrder, i + 1, Len(CloseOrder))
    /\ manager \in ManagerSteps
    /\ running \subseteq Publishers \union {"manager"}
    /\ opened \in Nat /\ conn \in Connections /\ up \subseteq Connections \ {NoConnection}
    /\ \A p \in Publishers : step[p] \in PublisherSteps
    /\ \A s \in Subscribers : step[s] \in SubscriberSteps
    /\ using \in [Roles -> Connections]
    /\ \A r \in Roles : {channel[r], building[r]} \subseteq Channels \union {NoChannel}
    /\ open \subseteq Channels /\ consumers \subseteq open
    /\ faults \in 0..MaxFaults

\* Nothing is left behind by a reconnection: an open connection is the one of
\* the manager or about to be, a working channel is the one of its role or about
\* to be.  So a queue never has two consumers of one program and close_channel
\* and close_connection reach all there is (connection.rs:63, subscriber.rs:79,
\* publisher.rs:54), although connection and channel are looked up at different
\* moments and are lost at any.
NothingOrphaned ==
    /\ \A c \in up : c = conn \/ (c = opened /\ manager = "store")
    /\ \A ch \in open : Works(ch) => ch \in {channel[ch.role], building[ch.role]}

Attached == {r \in Roles : Works(channel[r])}
Serving == {s \in Attached \intersect Subscribers : channel[s] \in consumers}

Abstract == INSTANCE BrokerLink
            WITH connected <- conn \in up, attached <- Attached, serving <- Serving

\* A reconnection takes several awaits of several tasks, and so does the setup of
\* a channel (connection.rs:85, subscriber.rs:72, publisher.rs:54): whatever is
\* lost or closed between them, what the program sees are the single steps of
\* BrokerLink.
ImplementsBrokerLink == Abstract!Spec

\* The role can do its work.
Ready(r) == Works(channel[r]) /\ (r \in Subscribers => channel[r] \in consumers)

\* A program that runs publishes and consumes again after the last loss, whatever
\* was lost when: the channel stored before basic_consume failed on it, or the
\* connection looked up before the mutex, does not block it (subscriber.rs:72-126).
EventuallyReady == \A r \in Roles : <>[](main = "run") => <>[]Ready(r)

\* A program that was told to stop ends: no task keeps a mutex for ever while it
\* reconnects, and none waits for another (connection.rs:138, publisher.rs:138).
EventuallyDown == main = "offline" ~> main = "down"

\* main starts at the next connection at the latest: it can miss the wake-up only
\* of a connection that was there before it listened (connection.rs:48).
WokenByConnection == main = "waiting" /\ conn \notin up ~> main # "waiting"

=============================================================================
