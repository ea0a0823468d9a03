---------------------- MODULE BrokerClient_refinement ----------------------
(***************************************************************************)
(* BrokerClient implements BrokerLink: what the manager, the roles, main   *)
(* and the network do, await by await, are the single steps of BrokerLink  *)
(* or stutters, for any roles and number of faults.                        *)
(*                                                                         *)
(* Beyond the invariants of BrokerClient_proofs the mapping needs that     *)
(* nobody knows a connection before it is stored (NewInv), so that no role *)
(* attaches before the program is connected, and that a channel on which a *)
(* subscriber is about to consume has no consumer (OnceInv).               *)
(***************************************************************************)
EXTENDS BrokerClient_proofs

NewInv ==
    manager = "store" =>
        /\ opened > 0 /\ conn # opened
        /\ \A r \in Roles : /\ using[r] # opened
                            /\ channel[r].conn # opened
                            /\ building[r].conn # opened

OnceInv == \A s \in Subscribers : step[s] = "consume" => channel[s] \notin consumers

LinkInv == IInv /\ NewInv /\ OnceInv

----------------------------------------------------------------------------
(* The invariant *)

LEMMA Types ==
    ASSUME IInv
    PROVE  /\ opened \in Nat /\ conn \in Nat
           /\ step \in [Roles -> AllSteps] /\ using \in [Roles -> Nat]
           /\ channel \in [Roles -> AnyChannel] /\ building \in [Roles -> AnyChannel]
           /\ Subscribers \subseteq Roles /\ Publishers \subseteq Roles
           /\ \A r \in Roles : /\ channel[r] = NoChannel \/ channel[r].role = r
                               /\ using[r] <= opened
                               /\ channel[r].conn \in Nat /\ channel[r].conn <= opened
                               /\ building[r].conn \in Nat /\ building[r].conn <= opened
<1>0. /\ opened \in Nat /\ conn \in 0..opened
      /\ step \in [Roles -> AllSteps] /\ using \in [Roles -> Nat]
      /\ channel \in [Roles -> AnyChannel] /\ building \in [Roles -> AnyChannel]
      /\ \A r \in Roles : RoleInv(r)
  BY DEF IInv, ProgramInv, ChannelsInv, FunctionsInv
<1>1. ASSUME NEW r \in Roles
      PROVE  /\ channel[r] = NoChannel \/ channel[r].role = r
             /\ using[r] <= opened
             /\ channel[r].conn \in Nat /\ channel[r].conn <= opened
             /\ building[r].conn \in Nat /\ building[r].conn <= opened
  <2>1. channel[r] \in AnyChannel /\ building[r] \in AnyChannel /\ RoleInv(r)
    BY <1>0
  <2>2. channel[r].conn \in Nat /\ building[r].conn \in Nat
    BY <2>1, NoChannelType DEF AnyChannel, NumberedChannels
  <2> QED
    BY <1>0, <2>1, <2>2, NoChannelType DEF RoleInv
<1> QED
  BY <1>0, <1>1 DEF Roles

\* A task only knows the connection it has looked up, its channels that one.
LEMMA Inherited ==
    ASSUME IInv, [Next]_vars, NEW r \in Roles
    PROVE  /\ using'[r] \in {using[r], conn, 0}
           /\ channel'[r] \in {channel[r], building[r], NoChannel}
           /\ building'[r].conn \in {building[r].conn, using[r], 0}
<1>0. /\ step \in [Roles -> AllSteps] /\ using \in [Roles -> Nat]
      /\ channel \in [Roles -> AnyChannel] /\ building \in [Roles -> AnyChannel]
      /\ Subscribers \subseteq Roles /\ Publishers \subseteq Roles
      /\ NoChannel.conn = 0 /\ NoConnection = 0
  BY Types, NoChannelType DEF NoConnection
<1>1. CASE UNCHANGED <<using, channel, building>>
  BY <1>1
<1>2. ASSUME NEW x \in Roles,
             \/ EnsureChannel(x) \/ PublisherLooksUp(x) \/ SubscriberLooksUp(x)
             \/ SubscriberLocks(x) \/ Consume(x)
      PROVE  /\ UNCHANGED <<channel, building>>
             /\ using' \in {using, [using EXCEPT ![x] = conn], [using EXCEPT ![x] = 0]}
  BY <1>0, <1>2 DEF EnsureChannel, PublisherLooksUp, SubscriberLooksUp, SubscriberLocks, Consume,
     Goes, EndsTurn
<1>3. ASSUME NEW x \in Roles, OpenChannel(x)
      PROVE  /\ UNCHANGED channel /\ using' \in {using, [using EXCEPT ![x] = 0]}
             /\ building' \in {building, [building EXCEPT ![x] = NewChannel(x)]}
             /\ NewChannel(x).conn = using[x]
  <2>1. NewChannel(x).conn = using[x]
    BY NewChannelType DEF IInv, ChannelsInv
  <2> QED
    BY <1>0, <1>3, <2>1 DEF OpenChannel, Goes, EndsTurn
<1>4. ASSUME NEW x \in Roles, Declare(x)
      PROVE  /\ using' \in {using, [using EXCEPT ![x] = 0]}
             /\ channel' \in {channel, [channel EXCEPT ![x] = building[x]]}
             /\ building' = [building EXCEPT ![x] = NoChannel]
  BY <1>0, <1>4 DEF Declare, Goes, EndsTurn
<1>5. CASE CloseChannel
  <2>1. /\ UNCHANGED <<using, building>>
        /\ channel' = [channel EXCEPT ![Head(toClose)] = NoChannel]
    BY <1>5 DEF CloseChannel
  <2> QED
    BY <1>0, <2>1
<1>6. CASE \E x \in Roles : OpenChannel(x)
  <2> PICK x \in Roles : OpenChannel(x)
    BY <1>6
  <2>1. /\ UNCHANGED channel /\ using' \in {using, [using EXCEPT ![x] = 0]}
        /\ building' \in {building, [building EXCEPT ![x] = NewChannel(x)]}
        /\ NewChannel(x).conn = using[x]
    BY <1>3
  <2>2. using'[r] \in {using[r], 0}
    BY <1>0, <2>1
  <2>3. building'[r].conn \in {building[r].conn, using[r]}
    BY <1>0, <2>1
  <2> QED
    BY <1>0, <2>1, <2>2, <2>3
<1>7. CASE \E x \in Roles : Declare(x)
  BY <1>0, <1>4, <1>7
<1>8. CASE \E x \in Roles : \/ EnsureChannel(x) \/ PublisherLooksUp(x) \/ SubscriberLooksUp(x)
                            \/ SubscriberLocks(x) \/ Consume(x)
  BY <1>0, <1>2, <1>8
<1> QED
  BY <1>0, <1>1, <1>5, <1>6, <1>7, <1>8, Steps
     DEF ManagerChecks, ManagerOpens, ManagerStores, ManagerNotifies, ManagerFrame,
         WaitForConnection, Shutdown, SendLifecycle, CloseConnection, Exits, ConnectionLost,
         ChannelClosed, ChannelFollows, roleVars, vars

LEMMA StepNew == IInv /\ NewInv /\ [Next]_vars => NewInv'
<1> SUFFICES ASSUME IInv, NewInv, [Next]_vars, manager' = "store"
             PROVE  /\ opened' > 0 /\ conn' # opened'
                    /\ \A r \in Roles : /\ using'[r] # opened'
                                        /\ channel'[r].conn # opened'
                                        /\ building'[r].conn # opened'
  BY DEF NewInv
<1>0. opened \in Nat /\ conn \in Nat /\ conn <= opened
  BY DEF IInv, ProgramInv
<1>1. CASE ManagerOpens
  <2>1. opened' = opened + 1 /\ UNCHANGED <<conn, using, channel, building>>
    BY <1>1 DEF ManagerOpens, ManagerFrame, roleVars
  <2>2. \A n \in Nat : n <= opened => n # opened'
    BY <1>0, <2>1
  <2>3. \A r \in Roles : using[r] \in Nat
    BY Types
  <2> QED
    BY <1>0, <2>1, <2>2, <2>3, Types
<1>2. CASE ~ManagerOpens
  <2>1. manager = "store" /\ opened' = opened /\ conn' \in {conn, 0}
    BY <1>2, Steps DEF ManagerChecks, ManagerStores, ManagerNotifies, EnsureChannel,
       PublisherLooksUp, SubscriberLooksUp, SubscriberLocks, Consume, OpenChannel, Declare,
       RoleFrame, WaitForConnection, Shutdown, SendLifecycle, CloseChannel, CloseConnection,
       Exits, MainFrame, ConnectionLost, ChannelClosed, ChannelFollows, managerVars, vars,
       NoConnection
  <2>2. /\ opened # 0 /\ conn # opened
        /\ \A r \in Roles : /\ using[r] # opened
                            /\ channel[r].conn # opened
                            /\ building[r].conn # opened
    BY <1>0, <2>1 DEF NewInv
  <2>3. NoChannel.conn = 0
    BY NoChannelType
  <2> QED
    BY <1>0, <2>1, <2>2, <2>3, Inherited
<1> QED
  BY <1>1, <1>2

LEMMA StepOnce == IInv /\ OnceInv /\ [Next]_vars => OnceInv'
<1> SUFFICES ASSUME IInv, OnceInv, [Next]_vars, NEW s \in Subscribers, step'[s] = "consume"
             PROVE  channel'[s] \notin consumers'
  BY DEF OnceInv
<1>0. /\ step \in [Roles -> AllSteps] /\ channel \in [Roles -> AnyChannel] /\ s \in Roles
      /\ Subscribers \subseteq Roles
      /\ \A ch \in consumers : ch.role \in Subscribers /\ ch = channel[ch.role]
  BY Types DEF IInv, ChannelsInv, OpenInv
<1>1. ASSUME step[s] = "consume", channel'[s] = channel[s], consumers' \subseteq consumers
      PROVE  channel'[s] \notin consumers'
  BY <1>1 DEF OnceInv
<1>2. ASSUME NEW r \in Roles, Declare(r)
      PROVE  channel'[s] \notin consumers'
  <2>1. UNCHANGED consumers /\ step[r] = "declare"
    BY <1>2 DEF Declare
  <2>2. CASE r # s
    <3>1. step'[s] = step[s] /\ channel'[s] = channel[s]
      BY <1>0, <1>2, <2>2 DEF Declare, Goes, EndsTurn
    <3> QED
      BY <1>1, <2>1, <3>1
  <2>3. CASE r = s
    <3>1. channel'[s] = building[s]
      BY <1>0, <1>2, <2>3 DEF Declare, Goes, EndsTurn
    <3>2. building[s].role = s /\ building[s] # channel[s]
      BY <2>1, <2>3 DEF IInv, ChannelsInv, RoleInv
    <3> QED
      BY <1>0, <2>1, <3>1, <3>2
  <2> QED
    BY <2>2, <2>3
<1>3. ASSUME NEW r \in Roles,
             \/ EnsureChannel(r) \/ PublisherLooksUp(r) \/ SubscriberLooksUp(r)
             \/ SubscriberLocks(r) \/ OpenChannel(r)
      PROVE  channel'[s] \notin consumers'
  <2>1. /\ UNCHANGED <<channel, consumers>>
        /\ \E t : t # "consume" /\ step' = [step EXCEPT ![r] = t]
    BY <1>3 DEF EnsureChannel, PublisherLooksUp, SubscriberLooksUp, SubscriberLocks, OpenChannel,
       Goes, EndsTurn
  <2>2. step[s] = "consume"
    BY <1>0, <2>1
  <2> QED
    BY <1>1, <2>1, <2>2
<1>4. ASSUME NEW r \in Subscribers, Consume(r)
      PROVE  channel'[s] \notin consumers'
  <2>1. /\ UNCHANGED channel /\ step' = [step EXCEPT ![r] = "idle"]
        /\ consumers' = IF Works(channel[r]) THEN consumers \union {channel[r]} ELSE consumers
    BY <1>4 DEF Consume, Goes, EndsTurn
  <2>2. r # s /\ step[s] = "consume" /\ r \in Roles
    BY <1>0, <2>1
  <2>3. Works(channel[r]) => channel[s] # channel[r]
    BY <1>0, <2>2, Types, NoChannelIsDown DEF IInv
  <2> QED
    BY <2>1, <2>2, <2>3 DEF OnceInv
<1>5. CASE CloseChannel
  <2> DEFINE h == Head(toClose)
  <2>1. /\ IsFree(h) /\ UNCHANGED step /\ consumers' \subseteq consumers
        /\ channel' = [channel EXCEPT ![h] = NoChannel]
    BY <1>5 DEF CloseChannel
  <2>2. h # s
    BY <2>1 DEF IsFree
  <2> HIDE DEF h
  <2> QED
    BY <1>0, <1>1, <2>1, <2>2
<1>6. CASE UNCHANGED <<step, channel>> /\ consumers' \subseteq consumers
  BY <1>1, <1>6
<1> QED
  BY Steps, <1>0, <1>2, <1>3, <1>4, <1>5, <1>6
     DEF ManagerChecks, ManagerOpens, ManagerStores, ManagerNotifies, ManagerFrame,
         WaitForConnection, Shutdown, SendLifecycle, CloseConnection, Exits, ConnectionLost,
         ChannelClosed, ChannelFollows, roleVars, vars, Roles

----------------------------------------------------------------------------
(* The steps *)

\* What the mapping knows of a state.
LEMMA Mapped ==
    ASSUME LinkInv
    PROVE  /\ Attached # {} => conn \in up
           /\ \A ch : ch.conn \in up =>
                 ch.conn = conn \/ (manager = "store" /\ ch.conn = opened)
           /\ \A r \in Attached : r \in Roles /\ Works(channel[r]) /\ channel[r].conn = conn
                                  /\ channel[r] # NoChannel /\ channel[r].role = r
<1>1. \A c \in up : c = conn \/ (c = opened /\ manager = "store")
  BY DEF LinkInv, IInv, ConnectionInv
<1>2. ASSUME NEW r \in Attached
      PROVE  /\ r \in Roles /\ Works(channel[r]) /\ channel[r].conn = conn
             /\ channel[r] # NoChannel /\ channel[r].role = r /\ conn \in up
  <2>1. r \in Roles /\ Works(channel[r])
    BY DEF Attached
  <2>2. channel[r] # NoChannel /\ channel[r].role = r
    BY <2>1, NoChannelIsDown, Types DEF LinkInv, IInv
  <2>3. channel[r].conn \in up
    BY <2>1 DEF Works
  <2>4. manager = "store" => channel[r].conn # opened
    BY <2>1 DEF LinkInv, NewInv
  <2> QED
    BY <1>1, <2>1, <2>2, <2>3, <2>4
<1> QED
  BY <1>1, <1>2

\* The steps that no role notices.
LEMMA Stutters ==
    ASSUME conn' \in up' <=> conn \in up,
           \A r \in Roles : (Works(channel[r]))' <=> Works(channel[r]),
           \A s \in Attached \intersect Subscribers :
               (channel[s] \in consumers)' <=> channel[s] \in consumers
    PROVE  UNCHANGED Abstract!vars
<1>1. Attached' = Attached
  BY DEF Attached
<1> QED
  BY <1>1 DEF Abstract!vars, Serving

\* A role loses the channel it has.
LEMMA Detaches ==
    ASSUME NEW r \in Roles, conn' \in up' <=> conn \in up, ~Works(channel[r])',
           \A x \in Roles : x # r => ((Works(channel[x]))' <=> Works(channel[x])),
           \A s \in (Attached \intersect Subscribers) \ {r} :
               (channel[s] \in consumers)' <=> channel[s] \in consumers
    PROVE  Abstract!Detach(r) \/ UNCHANGED Abstract!vars
<1>1. Attached' = Attached \ {r}
  BY DEF Attached
<1>2. Serving' = Serving \ {r}
  BY <1>1 DEF Serving
<1>3. CASE r \in Attached
  BY <1>1, <1>2, <1>3 DEF Abstract!Detach, Serving
<1>4. CASE r \notin Attached
  BY <1>1, <1>2, <1>4 DEF Abstract!vars, Serving
<1> QED
  BY <1>3, <1>4

LEMMA ManagerMaps ==
    ASSUME LinkInv, ManagerChecks \/ ManagerOpens \/ ManagerStores \/ ManagerNotifies
    PROVE  Abstract!Next \/ UNCHANGED Abstract!vars
<1>0. /\ opened \in Nat /\ conn \in Nat /\ conn <= opened
      /\ UNCHANGED <<channel, consumers, open>>
      /\ \A r \in Roles : channel[r].conn \in Nat /\ channel[r].conn <= opened
  BY Types DEF LinkInv, IInv, ProgramInv, ManagerChecks, ManagerOpens, ManagerStores,
     ManagerNotifies, ManagerFrame, roleVars
<1>1. CASE UNCHANGED <<up, conn>>
  BY <1>0, <1>1, Stutters DEF Works
<1>2. CASE ManagerOpens /\ up' = up \union {opened + 1}
  <2>1. conn' = conn /\ \A n \in Nat : n <= opened => (n \in up' <=> n \in up)
    BY <1>0, <1>2 DEF ManagerOpens
  <2>2. \A r \in Roles : (Works(channel[r]))' <=> Works(channel[r])
    BY <1>0, <2>1 DEF Works
  <2>3. conn' \in up' <=> conn \in up
    BY <1>0, <2>1
  <2> QED
    BY <1>0, <2>2, <2>3, Stutters
<1>3. CASE ManagerStores
  <2>1. /\ manager = "store" /\ conn' = opened /\ UNCHANGED up
        /\ up \subseteq {opened} /\ conn # opened
    BY <1>3 DEF ManagerStores, LinkInv, IInv, ConnectionInv, NewInv
  <2>2. conn \notin up /\ Attached = {}
    BY <2>1, Mapped
  <2>3. Attached' = {}
    BY <1>0, <2>1, <2>2 DEF Attached, Works
  <2>4. CASE opened \in up
    BY <2>1, <2>2, <2>3, <2>4 DEF Abstract!Next, Abstract!Connect, Serving
  <2>5. CASE opened \notin up
    BY <2>1, <2>2, <2>3, <2>5 DEF Abstract!vars, Serving
  <2> QED
    BY <2>4, <2>5
<1> QED
  BY <1>1, <1>2, <1>3 DEF ManagerChecks, ManagerOpens, ManagerNotifies

\* A connection that is gone, unless nobody knew it, takes every role with it.
LEMMA LossMaps ==
    ASSUME LinkInv, CloseConnection \/ \E c \in up : ConnectionLost(c)
    PROVE  Abstract!Next \/ UNCHANGED Abstract!vars
<1>0. UNCHANGED <<channel, consumers, open>>
  BY DEF CloseConnection, ConnectionLost, roleVars
<1>1. CASE up' = up \ {conn} /\ conn' \notin up'
  <2>1. Attached' = {}
    <3> SUFFICES ASSUME NEW r \in Attached' PROVE FALSE
      OBVIOUS
    <3>1. r \in Attached /\ channel[r].conn \in up'
      BY <1>0, <1>1 DEF Attached, Works
    <3> QED
      BY <1>1, <3>1, Mapped
  <2>2. CASE conn \in up
    BY <1>1, <2>1, <2>2 DEF Abstract!Next, Abstract!Lose, Serving
  <2>3. CASE conn \notin up
    <3>1. Attached = {}
      BY <2>3, Mapped
    <3> QED
      BY <1>1, <2>1, <2>3, <3>1 DEF Abstract!vars, Serving
  <2> QED
    BY <2>2, <2>3
<1>2. CASE CloseConnection
  <2>1. up' = up \ {conn} /\ conn' = 0
    BY <1>2 DEF CloseConnection, NoConnection
  <2>2. 0 \notin up
    BY DEF LinkInv, IInv, ProgramInv
  <2> QED
    BY <1>1, <2>1, <2>2
<1>3. ASSUME NEW c \in up, ConnectionLost(c)
      PROVE  Abstract!Next \/ UNCHANGED Abstract!vars
  <2>1. up' = up \ {c} /\ conn' = conn
    BY <1>3 DEF ConnectionLost, managerVars
  <2>2. CASE c = conn
    BY <1>1, <2>1, <2>2
  <2>3. CASE c # conn
    <3>1. \A r \in Roles : Works(channel[r]) => channel[r].conn # c
      BY <2>3, Mapped DEF Attached
    <3>2. \A r \in Roles : (Works(channel[r]))' <=> Works(channel[r])
      BY <1>0, <2>1, <3>1 DEF Works
    <3> QED
      BY <1>0, <2>1, <2>3, <3>2, Stutters
  <2> QED
    BY <2>2, <2>3
<1> QED
  BY <1>2, <1>3

\* A declared channel attaches its role, to the connection of the program.
LEMMA DeclareMaps ==
    ASSUME LinkInv, NEW r \in Roles, Declare(r)
    PROVE  Abstract!Next \/ UNCHANGED Abstract!vars
<1>0. /\ UNCHANGED <<consumers, up, conn>> /\ step[r] = "declare"
      /\ channel \in [Roles -> AnyChannel]
      /\ building[r].role = r /\ building[r] # channel[r] /\ ~Works(channel[r])
      /\ \A ch \in consumers : ch = channel[ch.role]
  BY Types DEF Declare, RoleFrame, managerVars, LinkInv, IInv, ChannelsInv, RoleInv, OpenInv
<1>1. CASE Works(building[r])
  <2>1. channel' = [channel EXCEPT ![r] = building[r]] /\ UNCHANGED open
    BY <1>1 DEF Declare
  <2>2. /\ channel'[r] = building[r]
        /\ \A x \in Roles : x # r => channel'[x] = channel[x]
    BY <1>0, <2>1
  <2>3. conn \in up
    <3>1. manager = "store" => building[r].conn # opened
      BY DEF LinkInv, NewInv
    <3> QED
      BY <1>1, <3>1, Mapped DEF Works
  <2>4. r \notin Attached /\ Attached' = Attached \union {r}
    BY <1>0, <1>1, <2>1, <2>2 DEF Attached, Works
  <2>5. building[r] \notin consumers
    BY <1>0
  <2>6. Serving' = Serving
    <3>1. \A x \in Attached : x \in Roles /\ x # r
      BY <2>4 DEF Attached
    <3>2. \A x \in Attached : channel'[x] \in consumers' <=> channel[x] \in consumers
      BY <1>0, <2>2, <3>1
    <3>3. channel'[r] \notin consumers'
      BY <1>0, <2>2, <2>5
    <3> QED
      BY <2>4, <3>1, <3>2, <3>3 DEF Serving
  <2> QED
    BY <1>0, <2>3, <2>4, <2>6 DEF Abstract!Next, Abstract!Attach, Serving
<1>2. CASE ~Works(building[r])
  <2>1. UNCHANGED channel /\ open' = open \ {building[r]}
    BY <1>2 DEF Declare
  <2>2. \A x \in Roles : (Works(channel[x]))' <=> Works(channel[x])
    BY <1>0, <1>2, <2>1 DEF Works
  <2> QED
    BY <1>0, <2>1, <2>2, Stutters
<1> QED
  BY <1>1, <1>2

\* A subscriber consumes on its channel once.
LEMMA ConsumeMaps ==
    ASSUME LinkInv, NEW s \in Subscribers, Consume(s)
    PROVE  Abstract!Next \/ UNCHANGED Abstract!vars
<1>0. /\ UNCHANGED <<channel, open, up, conn>> /\ step[s] = "consume" /\ s \in Roles
      /\ channel[s] \notin consumers
      /\ consumers' = IF Works(channel[s]) THEN consumers \union {channel[s]} ELSE consumers
  BY DEF Consume, RoleFrame, managerVars, LinkInv, OnceInv, Roles
<1>1. Attached' = Attached
  BY <1>0 DEF Attached, Works
<1>2. CASE Works(channel[s])
  <2>1. s \in Attached /\ s \notin Serving
    BY <1>0, <1>2 DEF Attached, Serving
  <2>2. \A x \in Attached : x # s => channel[x] # channel[s]
    BY <2>1, Mapped
  <2>3. Serving' = Serving \union {s}
    BY <1>0, <1>1, <1>2, <2>1, <2>2 DEF Serving
  <2> QED
    BY <1>0, <1>1, <2>1, <2>3 DEF Abstract!Next, Abstract!Serve, Serving
<1>3. CASE ~Works(channel[s])
  BY <1>0, <1>1, <1>3 DEF Abstract!vars, Serving
<1> QED
  BY <1>2, <1>3

\* A channel that is closed or dropped detaches its role, if it was of any use.
LEMMA ClosedMaps ==
    ASSUME LinkInv, LinkInv', [Next]_vars,
           CloseChannel \/ \E ch \in open : ChannelClosed(ch) \/ ChannelFollows(ch)
    PROVE  Abstract!Next \/ UNCHANGED Abstract!vars
<1>0. UNCHANGED <<up, conn>> /\ channel \in [Roles -> AnyChannel]
  BY Types DEF CloseChannel, MainFrame, ChannelClosed, ChannelFollows, RoleFrame, managerVars,
     LinkInv
<1>1. ASSUME NEW r \in Roles, open' = open \ {channel[r]}, consumers' = consumers \ {channel[r]},
             \A x \in Roles : x # r => channel'[x] = channel[x],
             channel'[r] \in {channel[r], NoChannel}
      PROVE  Abstract!Next \/ UNCHANGED Abstract!vars
  <2>1. ~Works(channel[r])'
    <3>1. ~Works(NoChannel)'
      BY NoChannelType DEF LinkInv, IInv, ProgramInv, Works
    <3>2. ~Works(channel[r])' \/ channel'[r] # channel[r]
      BY <1>1 DEF Works
    <3>3. channel'[r] = NoChannel => ~Works(channel[r])'
      BY <3>1 DEF Works
    <3> QED
      BY <1>1, <3>2, <3>3
  <2>2. ASSUME NEW x \in Roles, x # r
        PROVE  Works(channel[x])' <=> Works(channel[x])
    <3>1. Works(channel[x]) => channel[x] # channel[r]
      BY <2>2, NoChannelIsDown, Types DEF LinkInv, IInv
    <3> QED
      BY <1>0, <1>1, <2>2, <3>1 DEF Works
  <2>3. ASSUME NEW s \in (Attached \intersect Subscribers) \ {r}
        PROVE  (channel[s] \in consumers)' <=> channel[s] \in consumers
    <3>1. s \in Roles /\ channel[s] # NoChannel /\ channel[s].role = s
      BY Mapped
    <3>2. channel[s] # channel[r]
      BY <2>3, <3>1, Types DEF LinkInv
    <3> QED
      BY <1>1, <2>3, <3>1, <3>2
  <2> QED
    BY <1>0, <2>1, <2>2, <2>3, Detaches DEF Abstract!Next
<1>2. CASE CloseChannel
  <2> DEFINE r == Head(toClose)
  <2>1. /\ channel' = [channel EXCEPT ![r] = NoChannel]
        /\ open' = open \ {channel[r]} /\ consumers' = consumers \ {channel[r]}
        /\ toClose # <<>>
    BY <1>2 DEF CloseChannel
  <2>2. r \in Roles
    <3>1. PICK i \in 0..Len(CloseOrder) : toClose = SubSeq(CloseOrder, i + 1, Len(CloseOrder))
      BY DEF LinkInv, IInv, ProgramInv
    <3>2. toClose \in Seq(Roles)
      BY <3>1, ConstantTypes
    <3> QED
      BY <2>1, <3>2
  <2> HIDE DEF r
  <2>3. channel'[r] = NoChannel /\ \A x \in Roles : x # r => channel'[x] = channel[x]
    BY <1>0, <2>1, <2>2
  <2> QED
    BY <1>1, <2>1, <2>2, <2>3
<1>3. ASSUME NEW ch \in open, ChannelClosed(ch) \/ ChannelFollows(ch)
      PROVE  Abstract!Next \/ UNCHANGED Abstract!vars
  <2>1. UNCHANGED channel /\ open' = open \ {ch} /\ consumers' = consumers \ {ch}
    BY <1>3 DEF ChannelClosed, ChannelFollows
  <2>2. CASE \E r \in Roles : ch = channel[r]
    BY <1>1, <2>1, <2>2
  <2>3. CASE \A r \in Roles : ch # channel[r]
    BY <1>0, <2>1, <2>3, Stutters DEF Works, Attached
  <2> QED
    BY <2>2, <2>3
<1> QED
  BY <1>2, <1>3

\* A channel that is opened is not the one its role has.
LEMMA OpenMaps ==
    ASSUME LinkInv, NEW r \in Roles, OpenChannel(r)
    PROVE  UNCHANGED Abstract!vars
<1>1. UNCHANGED <<channel, consumers, up, conn>>
  BY DEF OpenChannel, RoleFrame, managerVars
<1>2. open' = open \/ open' = open \union {NewChannel(r)}
  BY DEF OpenChannel
<1>3. /\ NewChannel(r).role = r /\ NewChannel(r) # channel[r]
      /\ NewChannel(r) # NoChannel
  <2>1. /\ NewChannel(r).role = r /\ NewChannel(r) # channel[r] /\ NewChannel(r).n > 0
        /\ NewChannel(r) \in NumberedChannels
    BY NewChannelType DEF LinkInv, IInv, ChannelsInv
  <2> QED
    BY <2>1, NoChannelType
<1>4. \A x \in Roles : channel[x] # NewChannel(r)
  BY <1>3, Types DEF LinkInv
<1>5. \A x \in Roles : (Works(channel[x]))' <=> Works(channel[x])
  BY <1>1, <1>2, <1>4 DEF Works
<1> QED
  BY <1>1, <1>5, Stutters

LEMMA InitMaps == Init => Abstract!Init
<1> SUFFICES ASSUME Init PROVE Abstract!Init
  OBVIOUS
<1>1. Attached = {} /\ conn \notin up
  BY DEF Init, Attached, Works
<1> QED
  BY <1>1 DEF Abstract!Init, Serving

LEMMA StepMaps == LinkInv /\ LinkInv' /\ [Next]_vars => [Abstract!Next]_(Abstract!vars)
<1> SUFFICES ASSUME LinkInv, LinkInv', [Next]_vars
             PROVE  Abstract!Next \/ UNCHANGED Abstract!vars
  OBVIOUS
<1>1. CASE \/ \E p \in Publishers : EnsureChannel(p) \/ PublisherLooksUp(p)
           \/ \E s \in Subscribers : SubscriberLooksUp(s) \/ SubscriberLocks(s)
           \/ WaitForConnection \/ Shutdown \/ SendLifecycle \/ Exits \/ UNCHANGED vars
  <2>1. UNCHANGED <<channel, consumers, open, up, conn>>
    BY <1>1 DEF EnsureChannel, PublisherLooksUp, SubscriberLooksUp, SubscriberLocks, RoleFrame,
       WaitForConnection, Shutdown, SendLifecycle, Exits, MainFrame, managerVars, roleVars, vars
  <2> QED
    BY <2>1, Stutters DEF Works
<1> QED
  BY Steps, <1>1, ManagerMaps, LossMaps, DeclareMaps, ConsumeMaps, ClosedMaps, OpenMaps

----------------------------------------------------------------------------
\* The client implements the link for any publishers and subscribers and any
\* losses: roles are attached to the connection of the program and to no other,
\* and a subscriber consumes on a channel at most once.
THEOREM LinkImplemented == Spec => ImplementsBrokerLink
<1>1. Init => LinkInv
  BY InitInv DEF LinkInv, Init, NewInv, OnceInv, Roles
<1>2. LinkInv /\ [Next]_vars => LinkInv'
  BY StepProgram, StepConnection, StepChannels, StepNew, StepOnce DEF LinkInv, IInv
<1>3. Spec => []LinkInv
  BY <1>1, <1>2, PTL DEF Spec
<1> QED
  BY <1>3, InitMaps, StepMaps, PTL DEF Spec, ImplementsBrokerLink, Abstract!Spec

=============================================================================
