------------------------ MODULE BrokerClient_proofs ------------------------
(***************************************************************************)
(* The invariants of BrokerClient for any publishers, subscribers, order   *)
(* of closing and number of faults.                                        *)
(*                                                                         *)
(* NothingOrphaned is not inductive: a channel that is replaced must not   *)
(* work any more.  It did not when its task looked, at the beginning of    *)
(* the turn, and no step since then makes a channel work again: a          *)
(* connection that is opened is a new one, and a channel that is opened is *)
(* not the one its role had (RoleInv).                                     *)
(***************************************************************************)
EXTENDS BrokerClient, FiniteSetTheorems, TLAPS

AllSteps == PublisherSteps \union SubscriberSteps
NumberedChannels == [role: Roles, conn: Nat, n: Nat]
AnyChannel == NumberedChannels \union {NoChannel}

ProgramInv ==
    /\ main \in MainSteps
    /\ \E i \in 0..Len(CloseOrder) : toClose = SubSeq(CloseOrder, i + 1, Len(CloseOrder))
    /\ manager \in ManagerSteps
    /\ running \subseteq Publishers \union {"manager"}
    /\ opened \in Nat /\ conn \in 0..opened /\ up \subseteq 1..opened
    /\ faults \in 0..MaxFaults

\* Where the open connections may be.
ConnectionInv ==
    /\ \A c \in up : c = conn \/ (c = opened /\ manager = "store")
    /\ manager = "open" => up = {}
    /\ manager = "store" => up \subseteq {opened}

FunctionsInv ==
    /\ step \in [Roles -> AllSteps] /\ using \in [Roles -> Nat]
    /\ channel \in [Roles -> AnyChannel] /\ building \in [Roles -> AnyChannel]

RoleInv(r) ==
    /\ r \in Publishers => step[r] \in PublisherSteps
    /\ r \in Subscribers => step[r] \in SubscriberSteps
    /\ using[r] <= opened
    /\ channel[r] = NoChannel \/ (channel[r].role = r /\ channel[r].conn <= opened)
    /\ step[r] # "declare" => building[r] = NoChannel
    /\ step[r] = "declare" =>
          /\ building[r].role = r /\ building[r].conn <= opened /\ building[r].n > 0
          /\ building[r] # channel[r]
    /\ step[r] \in {"lookup", "open", "declare"} => ~Works(channel[r])
    /\ r \in Subscribers /\ step[r] \in {"open", "declare"} => channel[r] \notin open

OpenInv ==
    /\ open \subseteq NumberedChannels /\ IsFiniteSet(open)
    /\ \A ch \in open :
          /\ ch.conn <= opened
          /\ Works(ch) => ch \in {channel[ch.role], building[ch.role]}
    /\ consumers \subseteq open
    /\ \A ch \in consumers : ch.role \in Subscribers /\ ch = channel[ch.role]

ChannelsInv == FunctionsInv /\ OpenInv /\ \A r \in Roles : RoleInv(r)

IInv == ProgramInv /\ ConnectionInv /\ ChannelsInv

----------------------------------------------------------------------------
(* Lemmas *)

LEMMA ConstantTypes ==
    /\ StatusPublisher \in Publishers /\ Publishers \intersect Subscribers = {}
    /\ CloseOrder \in Seq(Roles) /\ MaxFaults \in Nat
  BY BrokerClientAssumption

LEMMA Steps ==
    ASSUME [Next]_vars
    PROVE  \/ ManagerChecks \/ ManagerOpens \/ ManagerStores \/ ManagerNotifies
           \/ \E p \in Publishers : EnsureChannel(p) \/ PublisherLooksUp(p)
           \/ \E s \in Subscribers : SubscriberLooksUp(s) \/ SubscriberLocks(s) \/ Consume(s)
           \/ \E r \in Roles : OpenChannel(r) \/ Declare(r)
           \/ WaitForConnection \/ Shutdown \/ SendLifecycle
           \/ CloseChannel \/ CloseConnection \/ Exits
           \/ \E c \in up : ConnectionLost(c)
           \/ \E ch \in open : ChannelClosed(ch) \/ ChannelFollows(ch)
           \/ UNCHANGED vars
  BY DEF Next, Manager, RoleStep, PublisherStep, PublisherRuns, Publish, SubscriberStep,
         MainEnds, Roles

\* A role stays what it is.
LEMMA RoleKinds ==
    ASSUME NEW r \in Roles
    PROVE  /\ r \in Publishers \/ r \in Subscribers
           /\ ~(r \in Publishers /\ r \in Subscribers)
  BY ConstantTypes DEF Roles

LEMMA NoChannelType ==
    /\ NoChannel.role = "none" /\ NoChannel.conn = 0 /\ NoChannel.n = 0
    /\ NoChannel \in AnyChannel
  BY DEF NoChannel, NoConnection, AnyChannel

LEMMA NoChannelIsDown == ProgramInv => ~Works(NoChannel)
  BY NoChannelType DEF ProgramInv, Works

\* A connection has a number for a new channel.
LEMMA NewChannelType ==
    ASSUME FunctionsInv, OpenInv, NEW r \in Roles
    PROVE  /\ NewChannel(r) \in NumberedChannels
           /\ NewChannel(r).role = r /\ NewChannel(r).conn = using[r] /\ NewChannel(r).n > 0
           /\ NewChannel(r) \notin open /\ NewChannel(r) # channel[r]
  <1> DEFINE numbered(n) == [role |-> r, conn |-> using[r], n |-> n]
             taken == open \union {channel[r]}
             k == Cardinality(open)
  <1>1. IsFiniteSet(open) /\ k \in Nat /\ using[r] \in Nat
    BY FS_CardinalityType DEF OpenInv, FunctionsInv
  <1>2. IsFiniteSet(taken) /\ Cardinality(taken) \in Nat /\ Cardinality(taken) <= k + 1
    BY <1>1, FS_AddElement, FS_CardinalityType
  <1>3. IsFiniteSet(1..(k + 2)) /\ Cardinality(1..(k + 2)) = k + 2
    <2> HIDE DEF k
    <2>1. 1 \in Int /\ k + 2 \in Int /\ ~(1 > k + 2) /\ (k + 2) - 1 + 1 = k + 2
      BY <1>1
    <2> QED
      BY <2>1, FS_Interval
  <1>4. \E n \in 1..(k + 2) : numbered(n) \notin taken
    <2> SUFFICES ASSUME \A n \in 1..(k + 2) : numbered(n) \in taken PROVE FALSE
      OBVIOUS
    <2> DEFINE f == [n \in 1..(k + 2) |-> numbered(n)]
    <2>1. f \in [1..(k + 2) -> taken]
      OBVIOUS
    <2>2. Cardinality(taken) < Cardinality(1..(k + 2))
      <3> HIDE DEF k, taken
      <3> QED
        BY <1>1, <1>2, <1>3
    <2>3. \A x, y \in 1..(k + 2) : f[x] = f[y] => x = y
      OBVIOUS
    <2> DEFINE numbers == 1..(k + 2)
    <2>4. /\ f \in [numbers -> taken] /\ IsFiniteSet(numbers) /\ IsFiniteSet(taken)
          /\ Cardinality(taken) < Cardinality(numbers)
      BY <1>2, <1>3, <2>1, <2>2
    <2> HIDE DEF f, taken, numbers
    <2>5. \E x, y \in numbers : x # y /\ f[x] = f[y]
      BY ONLY <2>4, FS_PigeonHole
    <2> QED
      BY <2>3, <2>5 DEF numbers
  <1>5. NewChannel(r) = numbered(CHOOSE n \in 1..(k + 2) : numbered(n) \notin taken)
    BY DEF NewChannel
  <1> DEFINE free == CHOOSE n \in 1..(k + 2) : numbered(n) \notin taken
  <1>6. free \in 1..(k + 2) /\ numbered(free) \notin taken
    BY <1>4
  <1>7. NewChannel(r) = numbered(free)
    BY <1>5
  <1>8. free \in Nat /\ free > 0
    <2> HIDE DEF free, k
    <2> QED
      BY <1>1, <1>6
  <1> HIDE DEF free
  <1> QED
    BY <1>1, <1>6, <1>7, <1>8 DEF NumberedChannels

----------------------------------------------------------------------------
(* The program and its connection *)

LEMMA StepProgram == ProgramInv /\ [Next]_vars => ProgramInv'
  <1> SUFFICES ASSUME ProgramInv, [Next]_vars PROVE ProgramInv'
    OBVIOUS
  <1> USE DEF ProgramInv
  <1>1. CASE UNCHANGED <<main, toClose, manager, running, opened, conn, up, faults>>
    BY <1>1
  <1>2. CASE ManagerChecks \/ ManagerStores \/ ManagerNotifies
    <2>1. main' \in MainSteps /\ manager' \in ManagerSteps /\ conn' \in {conn, opened}
      BY <1>2 DEF ManagerChecks, ManagerStores, ManagerNotifies, NotifyWaiters, MainSteps,
                  ManagerSteps
    <2>2. UNCHANGED <<toClose, running, opened, up, faults>>
      BY <1>2 DEF ManagerChecks, ManagerStores, ManagerNotifies, ManagerFrame
    <2>3. opened \in 0..opened
      OBVIOUS
    <2> QED
      BY <2>1, <2>2, <2>3
  <1>3. CASE ManagerOpens
    <2>1. UNCHANGED <<main, toClose, running, conn>> /\ manager' \in ManagerSteps
      BY <1>3 DEF ManagerOpens, ManagerFrame, ManagerSteps
    <2>2. \/ opened' = opened + 1 /\ up' = up \union {opened + 1} /\ UNCHANGED faults
          \/ UNCHANGED <<opened, up>> /\ faults < MaxFaults /\ faults' = faults + 1
      BY <1>3 DEF ManagerOpens, Fault
    <2>3. opened' \in Nat /\ conn \in 0..opened' /\ up' \subseteq 1..opened'
      <3>1. /\ opened + 1 \in Nat /\ conn \in 0..(opened + 1)
            /\ up \union {opened + 1} \subseteq 1..(opened + 1)
        OBVIOUS
      <3>2. CASE opened' = opened + 1 /\ up' = up \union {opened + 1}
        BY <3>1, <3>2
      <3>3. CASE UNCHANGED <<opened, up>>
        BY <3>3
      <3> QED
        BY <2>2, <3>2, <3>3
    <2>4. faults' \in 0..MaxFaults
      BY <2>2, ConstantTypes
    <2> QED
      BY <2>1, <2>3, <2>4
  <1>4. CASE WaitForConnection \/ Shutdown \/ SendLifecycle \/ Exits
    BY <1>4 DEF WaitForConnection, Shutdown, SendLifecycle, Exits, MainFrame, managerVars, MainSteps
  <1>5. CASE CloseChannel
    <2>1. PICK i \in 0..Len(CloseOrder) : toClose = SubSeq(CloseOrder, i + 1, Len(CloseOrder))
      OBVIOUS
    <2>2. toClose # <<>> /\ toClose' = Tail(toClose)
      BY <1>5 DEF CloseChannel
    <2>3. i + 1 \in 0..Len(CloseOrder) /\ toClose' = SubSeq(CloseOrder, (i + 1) + 1, Len(CloseOrder))
      BY <2>1, <2>2, ConstantTypes
    <2>4. running' \subseteq running /\ UNCHANGED <<main, manager, opened, conn, up, faults>>
      BY <1>5 DEF CloseChannel, MainFrame, managerVars
    <2> QED
      BY <2>3, <2>4
  <1>6. CASE CloseConnection
    BY <1>6 DEF CloseConnection, MainSteps, NoConnection
  <1>7. ASSUME NEW c \in up, ConnectionLost(c)
        PROVE  ProgramInv'
    BY <1>7, ConstantTypes DEF ConnectionLost, Fault, mainVars, managerVars
  <1>8. ASSUME NEW ch \in open, ChannelClosed(ch)
        PROVE  ProgramInv'
    BY <1>8, ConstantTypes DEF ChannelClosed, Fault, mainVars, managerVars
  <1> QED
    BY Steps, <1>1, <1>2, <1>3, <1>4, <1>5, <1>6, <1>7, <1>8
       DEF EnsureChannel, PublisherLooksUp, SubscriberLooksUp, SubscriberLocks, Consume,
           OpenChannel, Declare, ChannelFollows, RoleFrame, mainVars, managerVars, vars

LEMMA StepConnection == ProgramInv /\ ConnectionInv /\ [Next]_vars => ConnectionInv'
  <1> SUFFICES ASSUME ProgramInv, ConnectionInv, [Next]_vars PROVE ConnectionInv'
    OBVIOUS
  <1>1. CASE UNCHANGED managerVars /\ up' \subseteq up
    BY <1>1 DEF ConnectionInv, managerVars
  <1>2. CASE ManagerChecks \/ ManagerOpens \/ ManagerStores \/ ManagerNotifies
    BY <1>2 DEF ProgramInv, ConnectionInv, ManagerChecks, ManagerOpens, ManagerStores, ManagerNotifies
  <1>3. CASE CloseConnection
    BY <1>3 DEF CloseConnection, ConnectionInv
  <1> QED
    BY Steps, <1>1, <1>2, <1>3
       DEF EnsureChannel, PublisherLooksUp, SubscriberLooksUp, SubscriberLocks, Consume,
           OpenChannel, Declare, ChannelFollows, ChannelClosed, ConnectionLost, RoleFrame,
           WaitForConnection, Shutdown, SendLifecycle, CloseChannel, Exits, MainFrame, vars

----------------------------------------------------------------------------
(* The channels *)

\* A step of the manager or of main, or the loss of a connection.
LEMMA ElsewhereKeeps ==
    ASSUME ProgramInv, ProgramInv', ChannelsInv, UNCHANGED <<roleVars, open>>, opened <= opened',
           \A c \in up' : c \in up \/ c > opened
    PROVE  ChannelsInv'
  <1>0. /\ opened \in Nat /\ opened' \in Nat
        /\ UNCHANGED <<step, using, channel, building, consumers, open>>
    BY DEF ProgramInv, roleVars
  <1>1. FunctionsInv'
    BY <1>0 DEF ChannelsInv, FunctionsInv
  <1>2. \A ch : ch.conn \in Nat /\ ch.conn <= opened => (Works(ch)' => Works(ch))
    BY <1>0 DEF Works
  <1>3. OpenInv'
    <2>1. \A ch \in open : ch.conn \in Nat /\ ch.conn <= opened
      BY DEF ChannelsInv, OpenInv, NumberedChannels
    <2>2. \A ch \in open : ch.conn <= opened'
      BY <1>0, <2>1
    <2> QED
      BY <1>0, <1>2, <2>1, <2>2 DEF ChannelsInv, OpenInv
  <1>4. ASSUME NEW r \in Roles
        PROVE  RoleInv(r)'
    <2>1. channel[r].conn \in Nat /\ building[r].conn \in Nat /\ using[r] \in Nat
      BY NoChannelType DEF ChannelsInv, FunctionsInv, AnyChannel, NumberedChannels
    <2>2. RoleInv(r)
      BY DEF ChannelsInv
    <2>3. channel[r].conn <= opened
      BY <1>0, <2>2, NoChannelType DEF RoleInv
    <2>4. Works(channel[r])' => Works(channel[r])
      BY <1>0, <1>2, <2>1, <2>3 DEF Works
    <2> DEFINE o == opened
               o2 == opened'
               ends(x) == x \in Nat /\ x <= o => x <= o2
    <2>5. \A x : ends(x)
      BY <1>0
    <2>6. /\ using[r] <= opened => using[r] <= opened'
          /\ channel[r].conn <= opened => channel[r].conn <= opened'
          /\ building[r].conn <= opened => building[r].conn <= opened'
      BY <2>1, <2>5
    <2> QED
      BY <1>0, <2>2, <2>4, <2>6 DEF RoleInv
  <1> QED
    BY <1>1, <1>3, <1>4 DEF ChannelsInv

\* A task looks up the connection, or whether its channel is to be replaced.
LEMMA LookingKeeps ==
    ASSUME ProgramInv, ChannelsInv, NEW r \in Roles,
           \/ r \in Publishers /\ (EnsureChannel(r) \/ PublisherLooksUp(r))
           \/ r \in Subscribers /\ (SubscriberLooksUp(r) \/ SubscriberLocks(r))
    PROVE  ChannelsInv'
  <1>0. /\ UNCHANGED <<channel, building, open, consumers, up, opened>> /\ conn \in 0..opened
        /\ opened \in Nat
    BY DEF ProgramInv, EnsureChannel, PublisherLooksUp, SubscriberLooksUp, SubscriberLocks,
           RoleFrame, managerVars
  <1>1. /\ step \in [Roles -> AllSteps] /\ using \in [Roles -> Nat]
        /\ channel \in [Roles -> AnyChannel] /\ building \in [Roles -> AnyChannel]
    BY DEF ChannelsInv, FunctionsInv
  <1>2. \A ch : Works(ch)' <=> Works(ch)
    BY <1>0 DEF Works
  <1>3. PICK s \in AllSteps : step' = [step EXCEPT ![r] = s] /\
            \/ r \in Publishers /\ s = "lookup" /\ ~Works(channel[r])
            \/ r \in Publishers /\ s \in {"idle", "open"} /\ step[r] = "lookup"
            \/ r \in Subscribers /\ s \in {"idle", "lock"} /\ step[r] # "declare"
            \/ r \in Subscribers /\ s = "open" /\ step[r] = "lock" /\ channel[r] \notin open
    BY DEF EnsureChannel, PublisherLooksUp, SubscriberLooksUp, SubscriberLocks, NeedsSetup,
           Goes, EndsTurn, AllSteps, PublisherSteps, SubscriberSteps
  <1>4. PICK c \in {using[r], conn, 0} : using' = [using EXCEPT ![r] = c]
    BY <1>1 DEF EnsureChannel, PublisherLooksUp, SubscriberLooksUp, SubscriberLocks, EndsTurn,
                NoConnection
  <1>5. RoleInv(r) /\ using[r] \in Nat /\ (r \in Publishers \/ r \in Subscribers)
    BY <1>1, RoleKinds DEF ChannelsInv
  <1>6. c \in Nat /\ c <= opened
    BY <1>0, <1>5 DEF RoleInv
  <1>7. FunctionsInv'
    BY <1>0, <1>1, <1>3, <1>4, <1>6 DEF FunctionsInv
  <1>8. OpenInv'
    BY <1>0, <1>2 DEF ChannelsInv, OpenInv
  <1>9. ASSUME NEW x \in Roles, x # r
        PROVE  RoleInv(x)'
    <2>1. step'[x] = step[x] /\ using'[x] = using[x] /\ RoleInv(x)
      BY <1>1, <1>3, <1>4, <1>9 DEF ChannelsInv
    <2>2. Works(channel[x])' <=> Works(channel[x])
      BY <1>0 DEF Works
    <2> QED
      BY <1>0, <2>1, <2>2 DEF RoleInv
  <1>10. RoleInv(r)'
    <2>1. step'[r] = s /\ using'[r] = c
      BY <1>1, <1>3, <1>4
    <2>2. Works(channel[r])' <=> Works(channel[r])
      BY <1>0 DEF Works
    <2>3. s # "declare" /\ step[r] # "declare"
      <3>1. CASE r \in Publishers /\ s = "lookup"
        BY <3>1 DEF EnsureChannel, PublisherLooksUp, SubscriberLooksUp, SubscriberLocks
      <3> QED
        BY <1>3, <3>1
    <2>4. building'[r] = NoChannel
      BY <1>0, <1>5, <2>3 DEF RoleInv
    <2>5. /\ r \in Publishers => s \in PublisherSteps
          /\ r \in Subscribers => s \in SubscriberSteps
      BY <1>3, RoleKinds DEF PublisherSteps, SubscriberSteps
    <2>6. s \in {"lookup", "open"} => ~Works(channel[r])
      BY <1>3, <1>5 DEF RoleInv, Works
    <2>7. r \in Subscribers /\ s = "open" => channel[r] \notin open
      BY <1>3, RoleKinds
    <2>8. channel[r] = NoChannel \/ (channel[r].role = r /\ channel[r].conn <= opened)
      BY <1>5 DEF RoleInv
    <2> QED
      BY <1>0, <1>6, <2>1, <2>2, <2>3, <2>4, <2>5, <2>6, <2>7, <2>8 DEF RoleInv
  <1> QED
    BY <1>7, <1>8, <1>9, <1>10 DEF ChannelsInv

LEMMA OpenChannelKeeps ==
    ASSUME ProgramInv, ChannelsInv, NEW r \in Roles, OpenChannel(r)
    PROVE  ChannelsInv'
  <1>0. /\ UNCHANGED <<channel, consumers, up, opened>> /\ step[r] = "open" /\ opened \in Nat
        /\ up \subseteq 1..opened
    BY DEF ProgramInv, OpenChannel, RoleFrame, managerVars
  <1>1. /\ step \in [Roles -> AllSteps] /\ using \in [Roles -> Nat]
        /\ channel \in [Roles -> AnyChannel] /\ building \in [Roles -> AnyChannel]
    BY DEF ChannelsInv, FunctionsInv
  <1>2. RoleInv(r) /\ ~Works(channel[r]) /\ building[r] = NoChannel
    BY <1>0 DEF ChannelsInv, RoleInv
  <1>3. CASE using[r] \notin up
    <2>1. /\ step' = [step EXCEPT ![r] = "idle"] /\ using' = [using EXCEPT ![r] = 0]
          /\ UNCHANGED <<building, open>>
      BY <1>3 DEF OpenChannel, EndsTurn, Goes, NoConnection
    <2>2. FunctionsInv'
      BY <1>0, <1>1, <2>1 DEF FunctionsInv, AllSteps, PublisherSteps
    <2>3. \A ch : Works(ch)' <=> Works(ch)
      BY <1>0, <2>1 DEF Works
    <2>4. OpenInv'
      BY <1>0, <2>1, <2>3 DEF ChannelsInv, OpenInv
    <2>5. ASSUME NEW x \in Roles, x # r
          PROVE  RoleInv(x)'
      <3>1. step'[x] = step[x] /\ using'[x] = using[x] /\ RoleInv(x)
        BY <1>1, <2>1, <2>5 DEF ChannelsInv
      <3>2. Works(channel[x])' <=> Works(channel[x])
        BY <1>0, <2>1 DEF Works
      <3> QED
        BY <1>0, <2>1, <3>1, <3>2 DEF RoleInv
    <2>6. RoleInv(r)'
      <3>1. step'[r] = "idle" /\ using'[r] = 0
        BY <1>1, <2>1
      <3> QED
        BY <1>0, <1>2, <2>1, <3>1 DEF RoleInv, PublisherSteps, SubscriberSteps
    <2> QED
      BY <2>2, <2>4, <2>5, <2>6 DEF ChannelsInv
  <1>4. CASE using[r] \in up
    <2> PICK new \in NumberedChannels :
               /\ new = NewChannel(r) /\ new.role = r /\ new.conn = using[r] /\ new.n > 0
               /\ new \notin open /\ new # channel[r]
      BY NewChannelType DEF ChannelsInv
    <2>1. /\ building' = [building EXCEPT ![r] = new] /\ open' = open \union {new}
          /\ step' = [step EXCEPT ![r] = "declare"] /\ UNCHANGED using
      BY <1>4 DEF OpenChannel, Goes
    <2>2. FunctionsInv'
      BY <1>0, <1>1, <2>1 DEF FunctionsInv, AllSteps, PublisherSteps, AnyChannel
    <2>3. \A ch : ch # new => (Works(ch)' <=> Works(ch))
      BY <1>0, <2>1 DEF Works
    <2>4. new.conn <= opened /\ new.conn \in Nat
      BY <1>0, <1>1, <1>4
    <2>5. OpenInv'
      <3>1. open' \subseteq NumberedChannels /\ IsFiniteSet(open')
        BY <2>1, FS_AddElement DEF ChannelsInv, OpenInv
      <3>2. building'[r] = new /\ \A x \in Roles : x # r => building'[x] = building[x]
        BY <1>1, <2>1
      <3>3. ASSUME NEW ch \in open, Works(ch)'
            PROVE  ch \in {channel[ch.role], building'[ch.role]}
        <4>1. Works(ch) /\ ch.role \in Roles /\ ch # NoChannel
          <5>1. Works(ch)
            BY <2>3, <3>3
          <5> QED
            BY <5>1, NoChannelIsDown DEF ChannelsInv, OpenInv, NumberedChannels
        <4>2. ch \in {channel[ch.role], building[ch.role]}
          BY <4>1 DEF ChannelsInv, OpenInv
        <4>3. CASE ch.role = r
          BY <1>2, <4>1, <4>2, <4>3
        <4>4. CASE ch.role # r
          BY <3>2, <4>1, <4>2, <4>4
        <4> QED
          BY <4>3, <4>4
      <3>4. \A ch \in open' : /\ ch.conn <= opened
                              /\ Works(ch)' => ch \in {channel[ch.role], building'[ch.role]}
        BY <2>1, <2>4, <3>2, <3>3 DEF ChannelsInv, OpenInv
      <3> QED
        BY <1>0, <2>1, <3>1, <3>4 DEF ChannelsInv, OpenInv
    <2>6. ASSUME NEW x \in Roles, x # r
          PROVE  RoleInv(x)'
      <3>1. step'[x] = step[x] /\ using'[x] = using[x] /\ building'[x] = building[x] /\ RoleInv(x)
        BY <1>1, <2>1, <2>6 DEF ChannelsInv
      <3>2. channel[x] # new
        BY <2>6, <3>1, NoChannelType DEF RoleInv
      <3>3. (Works(channel[x])' <=> Works(channel[x])) /\ (channel[x] \in open' <=> channel[x] \in open)
        BY <1>0, <2>1, <3>2 DEF Works
      <3> QED
        BY <1>0, <3>1, <3>3 DEF RoleInv
    <2>7. RoleInv(r)'
      <3>1. step'[r] = "declare" /\ using'[r] = using[r] /\ building'[r] = new
        BY <1>1, <2>1
      <3>2. (Works(channel[r])' <=> Works(channel[r])) /\ (channel[r] \in open' <=> channel[r] \in open)
        BY <1>0, <2>1 DEF Works
      <3> QED
        BY <1>0, <1>2, <2>4, <3>1, <3>2 DEF RoleInv, PublisherSteps, SubscriberSteps
    <2> QED
      BY <2>2, <2>5, <2>6, <2>7 DEF ChannelsInv
  <1> QED
    BY <1>3, <1>4

LEMMA DeclareKeeps ==
    ASSUME ProgramInv, ChannelsInv, NEW r \in Roles, Declare(r)
    PROVE  ChannelsInv'
  <1> PICK new : new = building[r]
    OBVIOUS
  <1>0. /\ UNCHANGED <<consumers, up, opened>> /\ step[r] = "declare" /\ opened \in Nat
        /\ building' = [building EXCEPT ![r] = NoChannel]
    BY DEF ProgramInv, Declare, RoleFrame, managerVars
  <1>1. /\ step \in [Roles -> AllSteps] /\ using \in [Roles -> Nat]
        /\ channel \in [Roles -> AnyChannel] /\ building \in [Roles -> AnyChannel]
    BY DEF ChannelsInv, FunctionsInv
  <1>2. /\ RoleInv(r) /\ ~Works(channel[r]) /\ new.role = r /\ new.conn <= opened /\ new \in AnyChannel
        /\ new # channel[r] /\ (r \in Subscribers => channel[r] \notin open)
    BY <1>0, <1>1 DEF ChannelsInv, RoleInv
  <1>3. building'[r] = NoChannel /\ \A x \in Roles : x # r => building'[x] = building[x]
    BY <1>0, <1>1
  <1>4. CASE Works(new)
    <2>1. /\ channel' = [channel EXCEPT ![r] = new] /\ UNCHANGED open
          /\ \/ r \in Subscribers /\ step' = [step EXCEPT ![r] = "consume"] /\ UNCHANGED using
             \/ r \notin Subscribers /\ step' = [step EXCEPT ![r] = "idle"]
                /\ using' = [using EXCEPT ![r] = 0]
      BY <1>4 DEF Declare, Goes, EndsTurn, NoConnection
    <2>2. /\ channel'[r] = new /\ \A x \in Roles : x # r => channel'[x] = channel[x]
          /\ step'[r] \in {"idle", "consume"} /\ (step'[r] = "consume" => r \in Subscribers)
          /\ using'[r] \in {using[r], 0}
          /\ \A x \in Roles : x # r => step'[x] = step[x] /\ using'[x] = using[x]
      BY <1>1, <2>1
    <2>3. FunctionsInv'
      <3>1. channel' \in [Roles -> AnyChannel] /\ building' \in [Roles -> AnyChannel]
        BY <1>0, <1>1, <1>2, <2>1, NoChannelType
      <3>2. step' \in [Roles -> AllSteps] /\ using' \in [Roles -> Nat]
        BY <1>1, <2>1 DEF AllSteps, PublisherSteps, SubscriberSteps
      <3> QED
        BY <3>1, <3>2 DEF FunctionsInv
    <2>4. \A ch : Works(ch)' <=> Works(ch)
      BY <1>0, <2>1 DEF Works
    <2>5. OpenInv'
      <3>1. ASSUME NEW ch \in open, Works(ch)
            PROVE  ch \in {channel'[ch.role], building'[ch.role]}
        <4>1. ch.role \in Roles /\ ch \in {channel[ch.role], building[ch.role]}
          BY <3>1 DEF ChannelsInv, OpenInv, NumberedChannels
        <4> QED
          BY <1>2, <1>3, <2>2, <3>1, <4>1
      <3>2. ASSUME NEW ch \in consumers
            PROVE  ch.role \in Subscribers /\ ch = channel'[ch.role]
        <4>1. ch.role \in Subscribers /\ ch = channel[ch.role] /\ ch \in open /\ ch.role \in Roles
          BY <3>2 DEF ChannelsInv, OpenInv, NumberedChannels
        <4>2. ch.role # r
          BY <1>2, <4>1
        <4> QED
          BY <2>2, <4>1, <4>2
      <3> QED
        BY <1>0, <2>1, <2>4, <3>1, <3>2 DEF ChannelsInv, OpenInv
    <2>6. ASSUME NEW x \in Roles, x # r
          PROVE  RoleInv(x)'
      <3>1. RoleInv(x) /\ (Works(channel[x])' <=> Works(channel[x]))
        BY <1>0, <2>1, <2>2, <2>6 DEF ChannelsInv, Works
      <3> QED
        BY <1>0, <1>3, <2>1, <2>2, <2>6, <3>1 DEF RoleInv
    <2>7. RoleInv(r)'
      <3>1. using'[r] <= opened
        BY <1>0, <1>2, <2>2 DEF RoleInv
      <3>2. step'[r] \in PublisherSteps \/ r \in Subscribers
        BY <2>2 DEF PublisherSteps
      <3>3. step'[r] \in SubscriberSteps
        BY <2>2 DEF SubscriberSteps
      <3>4. r \in Publishers => r \notin Subscribers
        BY RoleKinds
      <3> QED
        BY <1>0, <1>2, <1>3, <2>2, <3>1, <3>2, <3>3, <3>4 DEF RoleInv
    <2> QED
      BY <2>3, <2>5, <2>6, <2>7 DEF ChannelsInv
  <1>5. CASE ~Works(new)
    <2>1. /\ UNCHANGED channel /\ open' = open \ {new}
          /\ step' = [step EXCEPT ![r] = "idle"] /\ using' = [using EXCEPT ![r] = 0]
      BY <1>5 DEF Declare, Goes, EndsTurn, NoConnection
    <2>2. /\ step'[r] = "idle" /\ using'[r] = 0
          /\ \A x \in Roles : x # r => step'[x] = step[x] /\ using'[x] = using[x]
      BY <1>1, <2>1
    <2>3. FunctionsInv'
      <3>1. channel' \in [Roles -> AnyChannel] /\ building' \in [Roles -> AnyChannel]
        BY <1>0, <1>1, <2>1, NoChannelType
      <3>2. step' \in [Roles -> AllSteps] /\ using' \in [Roles -> Nat]
        BY <1>1, <2>1 DEF AllSteps, PublisherSteps
      <3> QED
        BY <3>1, <3>2 DEF FunctionsInv
    <2>4. \A ch : Works(ch)' => Works(ch) /\ ch # new
      BY <1>0, <2>1 DEF Works
    <2>5. OpenInv'
      <3>1. open' \subseteq NumberedChannels /\ IsFiniteSet(open')
        BY <2>1, FS_RemoveElement DEF ChannelsInv, OpenInv
      <3>2. ASSUME NEW ch \in open, Works(ch)'
            PROVE  ch \in {channel[ch.role], building'[ch.role]}
        <4>1. ch.role \in Roles /\ ch \in {channel[ch.role], building[ch.role]} /\ ch # new
          BY <2>4, <3>2 DEF ChannelsInv, OpenInv, NumberedChannels
        <4> QED
          BY <1>3, <4>1
      <3>3. new \notin consumers
        BY <1>2 DEF ChannelsInv, OpenInv
      <3> QED
        BY <1>0, <2>1, <3>1, <3>2, <3>3 DEF ChannelsInv, OpenInv
    <2>6. ASSUME NEW x \in Roles, x # r
          PROVE  RoleInv(x)'
      <3>1. RoleInv(x) /\ (Works(channel[x])' => Works(channel[x]))
        BY <1>0, <2>1, <2>6 DEF ChannelsInv, Works
      <3> QED
        BY <1>0, <1>3, <2>1, <2>2, <2>6, <3>1 DEF RoleInv
    <2>7. RoleInv(r)'
      BY <1>0, <1>2, <1>3, <2>1, <2>2 DEF RoleInv, PublisherSteps, SubscriberSteps
    <2> QED
      BY <2>3, <2>5, <2>6, <2>7 DEF ChannelsInv
  <1> QED
    BY <1>4, <1>5

LEMMA ConsumeKeeps ==
    ASSUME ProgramInv, ChannelsInv, NEW r \in Subscribers, Consume(r)
    PROVE  ChannelsInv'
  <1>0. /\ UNCHANGED <<channel, building, open, up, opened>> /\ opened \in Nat /\ r \in Roles
        /\ step[r] = "consume"
        /\ step' = [step EXCEPT ![r] = "idle"] /\ using' = [using EXCEPT ![r] = 0]
    BY DEF ProgramInv, Consume, RoleFrame, managerVars, Goes, EndsTurn, NoConnection, Roles
  <1>1. /\ step \in [Roles -> AllSteps] /\ using \in [Roles -> Nat]
        /\ channel \in [Roles -> AnyChannel] /\ building \in [Roles -> AnyChannel]
    BY DEF ChannelsInv, FunctionsInv
  <1>2. \A ch : Works(ch)' <=> Works(ch)
    BY <1>0 DEF Works
  <1>3. FunctionsInv'
    BY <1>0, <1>1 DEF FunctionsInv, AllSteps, PublisherSteps
  <1>4. OpenInv'
    <2>1. \A ch \in consumers' : ch \in consumers \/ (ch = channel[r] /\ Works(ch))
      BY DEF Consume
    <2>2. channel[r] = NoChannel \/ channel[r].role = r
      BY <1>0 DEF ChannelsInv, RoleInv
    <2>3. \A ch \in consumers' : ch \in open /\ ch.role \in Subscribers /\ ch = channel[ch.role]
      BY <2>1, <2>2, NoChannelIsDown DEF ChannelsInv, OpenInv, Works
    <2> QED
      BY <1>0, <1>2, <2>3 DEF ChannelsInv, OpenInv
  <1>5. ASSUME NEW x \in Roles
        PROVE  RoleInv(x)'
    <2>1. RoleInv(x) /\ RoleInv(r) /\ (Works(channel[x])' <=> Works(channel[x]))
      BY <1>0 DEF ChannelsInv, Works
    <2>2. CASE x = r
      <3>1. step'[r] = "idle" /\ using'[r] = 0
        BY <1>0, <1>1
      <3> QED
        BY <1>0, <2>1, <2>2, <3>1 DEF RoleInv, PublisherSteps, SubscriberSteps
    <2>3. CASE x # r
      <3>1. step'[x] = step[x] /\ using'[x] = using[x]
        BY <1>0, <1>1, <2>3
      <3> QED
        BY <1>0, <2>1, <3>1 DEF RoleInv
    <2> QED
      BY <2>2, <2>3
  <1> QED
    BY <1>3, <1>4, <1>5 DEF ChannelsInv

LEMMA CloseChannelKeeps ==
    ASSUME ProgramInv, ChannelsInv, CloseChannel
    PROVE  ChannelsInv'
  <1>1. PICK r \in Roles :
            /\ IsFree(r) /\ channel' = [channel EXCEPT ![r] = NoChannel]
            /\ open' = open \ {channel[r]} /\ consumers' = consumers \ {channel[r]}
            /\ UNCHANGED <<up, opened, step, using, building>>
    <2>1. toClose # <<>> => Head(toClose) \in Roles
      BY ConstantTypes DEF ProgramInv
    <2> QED
      BY <2>1 DEF CloseChannel, MainFrame, managerVars
  <1>2. /\ step \in [Roles -> AllSteps] /\ using \in [Roles -> Nat]
        /\ channel \in [Roles -> AnyChannel] /\ building \in [Roles -> AnyChannel]
    BY DEF ChannelsInv, FunctionsInv
  <1>3. channel'[r] = NoChannel /\ \A x \in Roles : x # r => channel'[x] = channel[x]
    BY <1>1, <1>2
  <1>4. FunctionsInv'
    BY <1>1, <1>2, NoChannelType DEF FunctionsInv
  <1>5. \A ch : Works(ch)' => Works(ch) /\ ch # channel[r]
    BY <1>1 DEF Works
  <1>6. OpenInv'
    <2>1. open' \subseteq NumberedChannels /\ IsFiniteSet(open')
      BY <1>1, FS_RemoveElement DEF ChannelsInv, OpenInv
    <2>2. ASSUME NEW ch \in open, Works(ch)'
          PROVE  ch \in {channel'[ch.role], building[ch.role]}
      <3>1. ch.role \in Roles /\ ch \in {channel[ch.role], building[ch.role]} /\ ch # channel[r]
        BY <1>5, <2>2 DEF ChannelsInv, OpenInv, NumberedChannels
      <3> QED
        BY <1>3, <3>1
    <2>3. ASSUME NEW ch \in consumers, ch # channel[r]
          PROVE  ch.role \in Subscribers /\ ch = channel'[ch.role]
      <3>1. ch.role \in Subscribers /\ ch = channel[ch.role] /\ ch.role \in Roles
        BY <2>3 DEF ChannelsInv, OpenInv, NumberedChannels
      <3> QED
        BY <1>3, <2>3, <3>1
    <2> QED
      BY <1>1, <2>1, <2>2, <2>3 DEF ChannelsInv, OpenInv
  <1>7. ASSUME NEW x \in Roles
        PROVE  RoleInv(x)'
    <2>1. RoleInv(x)
      BY DEF ChannelsInv
    <2>2. CASE x # r
      <3>1. Works(channel[x])' => Works(channel[x])
        BY <1>1, <1>3, <2>2 DEF Works
      <3> QED
        BY <1>1, <1>3, <2>1, <2>2, <3>1 DEF RoleInv
    <2>3. CASE x = r
      <3>1. step[r] \in {"idle", "lock"}
        BY <1>1 DEF IsFree
      <3> QED
        BY <1>1, <1>3, <2>1, <2>3, <3>1 DEF RoleInv
    <2> QED
      BY <2>2, <2>3
  <1> QED
    BY <1>4, <1>6, <1>7 DEF ChannelsInv

LEMMA ClosedChannelKeeps ==
    ASSUME ProgramInv, ChannelsInv, NEW ch \in open, ChannelClosed(ch) \/ ChannelFollows(ch)
    PROVE  ChannelsInv'
  <1>0. /\ UNCHANGED <<up, opened, step, using, channel, building>>
        /\ open' = open \ {ch} /\ consumers' = consumers \ {ch}
    BY DEF ChannelClosed, ChannelFollows, RoleFrame, managerVars
  <1>1. FunctionsInv'
    BY <1>0 DEF ChannelsInv, FunctionsInv
  <1>2. \A x : Works(x)' => Works(x)
    BY <1>0 DEF Works
  <1>3. OpenInv'
    <2>1. open' \subseteq NumberedChannels /\ IsFiniteSet(open')
      BY <1>0, FS_RemoveElement DEF ChannelsInv, OpenInv
    <2> QED
      BY <1>0, <1>2, <2>1 DEF ChannelsInv, OpenInv
  <1>4. ASSUME NEW x \in Roles
        PROVE  RoleInv(x)'
    <2>1. RoleInv(x) /\ (Works(channel[x])' => Works(channel[x]))
      BY <1>0 DEF ChannelsInv, Works
    <2> QED
      BY <1>0, <2>1 DEF RoleInv
  <1> QED
    BY <1>1, <1>3, <1>4 DEF ChannelsInv

LEMMA StepChannels == ProgramInv /\ ChannelsInv /\ [Next]_vars => ChannelsInv'
  <1> SUFFICES ASSUME ProgramInv, ChannelsInv, [Next]_vars PROVE ChannelsInv'
    OBVIOUS
  <1>0. ProgramInv' /\ opened \in Nat
    BY StepProgram DEF ProgramInv
  <1>1. CASE UNCHANGED <<roleVars, open>> /\ opened <= opened' /\ \A c \in up' : c \in up \/ c > opened
    BY <1>0, <1>1, ElsewhereKeeps
  <1>2. CASE ManagerOpens
    <2>1. UNCHANGED <<roleVars, open>>
      BY <1>2 DEF ManagerOpens, ManagerFrame
    <2>2. \/ opened' = opened + 1 /\ up' = up \union {opened + 1}
          \/ UNCHANGED <<opened, up>>
      BY <1>2 DEF ManagerOpens
    <2>3. opened <= opened' /\ \A c \in up' : c \in up \/ c > opened
      BY <1>0, <2>2
    <2> QED
      BY <1>1, <2>1, <2>3
  <1>3. CASE \/ ManagerChecks \/ ManagerStores \/ ManagerNotifies
             \/ WaitForConnection \/ Shutdown \/ SendLifecycle \/ CloseConnection \/ Exits
             \/ (\E c \in up : ConnectionLost(c)) \/ UNCHANGED vars
    <2>1. UNCHANGED <<roleVars, open, opened>> /\ up' \subseteq up
      BY <1>3 DEF ManagerChecks, ManagerStores, ManagerNotifies, ManagerFrame, WaitForConnection,
                  Shutdown, SendLifecycle, Exits, MainFrame, managerVars, CloseConnection,
                  ConnectionLost, vars
    <2> QED
      BY <1>0, <1>1, <2>1
  <1> QED
    BY Steps, <1>2, <1>3, LookingKeeps, OpenChannelKeeps, DeclareKeeps, ConsumeKeeps,
       CloseChannelKeeps, ClosedChannelKeeps
       DEF Roles

LEMMA InitInv == Init => IInv
  <1> SUFFICES ASSUME Init PROVE IInv
    OBVIOUS
  <1>1. ProgramInv
    <2>1. CloseOrder = SubSeq(CloseOrder, 0 + 1, Len(CloseOrder)) /\ 0 \in 0..Len(CloseOrder)
      BY ConstantTypes
    <2> QED
      BY <2>1, ConstantTypes DEF Init, ProgramInv, MainSteps, ManagerSteps, NoConnection
  <1>2. ConnectionInv
    BY DEF Init, ConnectionInv
  <1>3. FunctionsInv
    BY NoChannelType DEF Init, FunctionsInv, NoConnection, AllSteps, PublisherSteps
  <1>4. OpenInv
    BY FS_EmptySet DEF Init, OpenInv
  <1>5. ASSUME NEW r \in Roles
        PROVE  RoleInv(r)
    BY DEF Init, RoleInv, NoConnection, PublisherSteps, SubscriberSteps
  <1> QED
    BY <1>1, <1>2, <1>3, <1>4, <1>5 DEF IInv, ChannelsInv

----------------------------------------------------------------------------
(* The theorems *)

LEMMA Inductive == Spec => []IInv
  <1>1. IInv /\ [Next]_vars => IInv'
    BY StepProgram, StepConnection, StepChannels DEF IInv
  <1> QED
    BY <1>1, InitInv, PTL DEF Spec

\* Every step, channel and connection is one there can be, and every consumer is
\* on a channel that is open.
THEOREM TypeCorrect == Spec => []TypeOK
  <1>1. IInv => TypeOK
    <2> SUFFICES ASSUME IInv PROVE TypeOK
      OBVIOUS
    <2>1. ProgramInv /\ FunctionsInv /\ OpenInv /\ \A r \in Roles : RoleInv(r)
      BY DEF IInv, ChannelsInv
    <2>2. /\ \A p \in Publishers : step[p] \in PublisherSteps
          /\ \A s \in Subscribers : step[s] \in SubscriberSteps
      BY <2>1 DEF RoleInv, Roles
    <2>3. opened \in Nat /\ conn \in Connections /\ up \subseteq Connections \ {NoConnection}
      BY <2>1 DEF ProgramInv, Connections, NoConnection
    <2>4. using \in [Roles -> Connections]
      <3>1. \A r \in Roles : using[r] \in 0..opened
        BY <2>1 DEF FunctionsInv, RoleInv, ProgramInv
      <3> QED
        BY <2>1, <3>1 DEF FunctionsInv, Connections
    <2>5. \A ch \in NumberedChannels : ch.conn <= opened => ch \in Channels
      BY <2>3 DEF NumberedChannels, Channels, Connections
    <2>6. ASSUME NEW r \in Roles
          PROVE  {channel[r], building[r]} \subseteq Channels \union {NoChannel}
      <3>1. channel[r] \in AnyChannel /\ building[r] \in AnyChannel /\ RoleInv(r)
        BY <2>1 DEF FunctionsInv
      <3> QED
        BY <2>5, <3>1 DEF RoleInv, AnyChannel
    <2>7. open \subseteq Channels /\ consumers \subseteq open
      BY <2>1, <2>5 DEF OpenInv
    <2> QED
      BY <2>1, <2>2, <2>3, <2>4, <2>6, <2>7 DEF TypeOK, ProgramInv
  <1> QED
    BY Inductive, <1>1, PTL

\* No reconnection leaves an open connection or a working channel behind,
\* whatever is lost or closed when.
THEOREM ReconnectsCleanly == Spec => []NothingOrphaned
  <1>1. IInv => NothingOrphaned
    BY DEF IInv, ConnectionInv, ChannelsInv, OpenInv, NothingOrphaned
  <1> QED
    BY Inductive, <1>1, PTL

=============================================================================
