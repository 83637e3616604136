------------------------- MODULE EPollPoller_proofs -------------------------
(***************************************************************************)
(* For any channels and file descriptors the poller, its map and the       *)
(* kernel agree, and no epoll_ctl() fails.                                 *)
(***************************************************************************)
EXTENDS EPollPoller, TLAPS

(* The inductive invariant: the agreement with the kernel needs the map's, *)
(* because a fd that is used again must have been given up by its channel. *)
IInv == TypeOK /\ KernelAgrees /\ MapAgrees

(* The two facts about c that let the kernel accept its epoll_ctl().       *)
LEMMA KnownLemma ==
    ASSUME IInv, NEW c \in Channels, life[c] = "live"
    PROVE  interest[fd(c)] # NoEntry <=> index_[c] = kAdded
<1>1. fd(c) \in Fds
  BY EPollPollerAssumption DEF fd
<1>2. ASSUME interest[fd(c)] # NoEntry PROVE index_[c] = kAdded
  <2>1. PICK d \in Channels : fd(d) = fd(c) /\ index_[d] = kAdded
    BY <1>1, <1>2 DEF IInv, KernelAgrees
  <2>2. d = c
    BY <2>1 DEF IInv, MapAgrees, kAdded, kNew
  <2> QED BY <2>1, <2>2
<1>3. ASSUME index_[c] = kAdded PROVE interest[fd(c)] # NoEntry
  <2>1. interest[fd(c)] = [ptr |-> c, events |-> events_[c]]
    BY <1>3 DEF IInv, KernelAgrees
  <2>2. c # NoChannel
    BY EPollPollerAssumption
  <2> QED BY <2>1, <2>2 DEF NoEntry
<1> QED BY <1>2, <1>3

(* An operation on the live channel c that leaves the entries of the other *)
(* fds, and what the poller knows of the other channels, alone, keeps the  *)
(* invariant if it leaves c consistent.                                    *)
LEMMA ChannelLemma ==
    ASSUME IInv, NEW c \in Channels, life[c] = "live", life' = life,
           TypeOK', ~ctlFailed',
           \A d \in Channels \ {c} : index_'[d] = index_[d] /\ events_'[d] = events_[d],
           \A f \in Fds \ {fd(c)} :
              interest'[f] = interest[f] /\ channels_'[f] = channels_[f],
           IF index_'[c] = kAdded
             THEN interest'[fd(c)] = [ptr |-> c, events |-> events_'[c]]
             ELSE interest'[fd(c)] = NoEntry,
           IF index_'[c] = kNew THEN channels_'[fd(c)] = NoChannel
                                ELSE channels_'[fd(c)] = c
    PROVE  IInv'
<1> USE DEF IInv
<1>1. /\ \A d \in Channels : fd(d) \in Fds
      /\ NoChannel \notin Channels
  BY EPollPollerAssumption DEF fd
<1>2. ASSUME NEW d \in Channels \ {c}, fd(d) = fd(c)
      PROVE  index_[d] = kNew
  BY <1>2 DEF MapAgrees
<1>3. ASSUME NEW d \in Channels
      PROVE  index_'[d] = kAdded <=> interest'[fd(d)] = [ptr |-> d, events |-> events_'[d]]
  <2>1. CASE d = c
    BY <1>1, <2>1 DEF NoEntry
  <2>2. CASE d # c /\ fd(d) = fd(c)
    BY <1>1, <1>2, <2>2 DEF NoEntry, kNew, kAdded
  <2>3. CASE fd(d) # fd(c)
    BY <1>1, <2>3 DEF KernelAgrees
  <2> QED BY <2>1, <2>2, <2>3
<1>4. ASSUME NEW f \in Fds, interest'[f] # NoEntry
      PROVE  \E d \in Channels : fd(d) = f /\ index_'[d] = kAdded
  <2>1. CASE f = fd(c)
    BY <1>4, <2>1
  <2>2. CASE f # fd(c)
    <3>1. PICK d \in Channels : fd(d) = f /\ index_[d] = kAdded
      BY <1>4, <2>2 DEF KernelAgrees
    <3> QED BY <2>2, <3>1
  <2> QED BY <2>1, <2>2
<1>5. KernelAgrees'
  BY <1>3, <1>4 DEF KernelAgrees, fd
<1>6. MapAgrees'
  <2>1. ASSUME NEW d \in Channels
        PROVE  /\ index_'[d] # kNew <=> channels_'[fd(d)] = d
               /\ index_'[d] # kNew => life[d] = "live"
    <3>1. CASE d = c
      BY <1>1, <3>1
    <3>2. CASE d # c /\ fd(d) = fd(c)
      BY <1>1, <1>2, <3>2
    <3>3. CASE fd(d) # fd(c)
      BY <1>1, <3>3 DEF MapAgrees
    <3> QED BY <3>1, <3>2, <3>3
  <2>2. ASSUME NEW f \in Fds, channels_'[f] # NoChannel
        PROVE  fd(channels_'[f]) = f
    <3>1. CASE f = fd(c)
      BY <2>2, <3>1
    <3>2. CASE f # fd(c)
      BY <2>2, <3>2 DEF MapAgrees
    <3> QED BY <3>1, <3>2
  <2> QED BY <2>1, <2>2 DEF MapAgrees, fd
<1> QED BY <1>5, <1>6

(* Before any channel exists the invariant holds.                          *)
LEMMA InitIInv == Init => IInv
<1> SUFFICES ASSUME Init PROVE IInv
  OBVIOUS
<1>1. TypeOK
  BY EPollPollerAssumption DEF Init, TypeOK, Entry, NoEntry, Level
<1>2. KernelAgrees
  <2>1. ASSUME NEW c \in Channels
        PROVE  index_[c] # kAdded /\ interest[fd(c)] # [ptr |-> c, events |-> events_[c]]
    <3>1. interest[fd(c)] = [ptr |-> NoChannel, events |-> {}]
      BY EPollPollerAssumption DEF Init, NoEntry, fd
    <3>2. c # NoChannel
      BY EPollPollerAssumption
    <3> QED BY <3>1, <3>2 DEF Init, kNew, kAdded
  <2> QED BY <2>1 DEF KernelAgrees, Init
<1>3. MapAgrees
  BY EPollPollerAssumption DEF Init, MapAgrees, fd
<1> QED BY <1>1, <1>2, <1>3 DEF IInv

(* enableReading() and its like keep the invariant.                        *)
LEMMA SetEventsIInv ==
    ASSUME IInv, NEW c \in Channels, NEW events \in SUBSET WantedEvents,
           SetEvents(c, events)
    PROVE  IInv'
<1>1. /\ life[c] = "live" /\ life' = life /\ lpc' = lpc /\ level' = level
      /\ activeChannels' = activeChannels /\ listSize' = listSize
      /\ events_' = [events_ EXCEPT ![c] = events]
      /\ updateChannel(c, events)
  BY DEF SetEvents
<1>2. /\ fd(c) \in Fds /\ c # NoChannel /\ TypeOK /\ ~ctlFailed
      /\ [ptr |-> c, events |-> events] \in Entry
  BY EPollPollerAssumption DEF fd, IInv, KernelAgrees, Entry
<1>3. events_'[c] = events
      /\ \A d \in Channels \ {c} : events_'[d] = events_[d]
  BY <1>1, <1>2 DEF TypeOK
<1>4. CASE /\ index_[c] \in {kNew, kDeleted}
           /\ channels_' = IF index_[c] = kNew THEN [channels_ EXCEPT ![fd(c)] = c]
                                               ELSE channels_
           /\ index_' = [index_ EXCEPT ![c] = kAdded]
           /\ epoll_ctl("ADD", c, events)
  <2>1. interest[fd(c)] = NoEntry
    BY <1>1, <1>4, KnownLemma DEF kNew, kAdded, kDeleted
  <2>2. /\ interest' = [interest EXCEPT ![fd(c)] = [ptr |-> c, events |-> events]]
        /\ ~ctlFailed'
    BY <1>2, <1>4, <2>1 DEF epoll_ctl
  <2>3. index_'[c] = kAdded /\ channels_'[fd(c)] = c
    BY <1>1, <1>2, <1>4 DEF TypeOK, IInv, MapAgrees, kNew, kDeleted
  <2>4. TypeOK'
    <3>1. ctlFailed' \in BOOLEAN
      BY <1>4 DEF epoll_ctl
    <3>2. /\ events_' \in [Channels -> SUBSET WantedEvents]
          /\ index_' \in [Channels -> {kNew, kAdded, kDeleted}]
          /\ channels_' \in [Fds -> Channels \cup {NoChannel}]
      BY <1>1, <1>2, <1>4 DEF TypeOK
    <3>3. interest' \in [Fds -> Entry \cup {NoEntry}]
      BY <1>2, <2>2 DEF TypeOK
    <3> QED BY <1>1, <1>2, <3>1, <3>2, <3>3 DEF TypeOK
  <2> QED BY <1>1, <1>2, <1>3, <1>4, <2>2, <2>3, <2>4, ChannelLemma
          DEF TypeOK, kNew, kAdded
<1>5. CASE /\ index_[c] = kAdded
           /\ events = {}
           /\ index_' = [index_ EXCEPT ![c] = kDeleted]
           /\ epoll_ctl("DEL", c, events)
           /\ UNCHANGED channels_
  <2>1. interest[fd(c)] # NoEntry
    BY <1>1, <1>5, KnownLemma
  <2>2. interest' = [interest EXCEPT ![fd(c)] = NoEntry] /\ ~ctlFailed'
    BY <1>2, <1>5, <2>1 DEF epoll_ctl
  <2>3. index_'[c] = kDeleted /\ channels_'[fd(c)] = c
    BY <1>2, <1>5 DEF TypeOK, IInv, MapAgrees, kNew, kAdded
  <2>4. TypeOK'
    <3>1. ctlFailed' \in BOOLEAN
      BY <1>5 DEF epoll_ctl
    <3>2. /\ events_' \in [Channels -> SUBSET WantedEvents]
          /\ index_' \in [Channels -> {kNew, kAdded, kDeleted}]
          /\ channels_' \in [Fds -> Channels \cup {NoChannel}]
      BY <1>1, <1>2, <1>5 DEF TypeOK
    <3>3. interest' \in [Fds -> Entry \cup {NoEntry}]
      BY <1>2, <2>2 DEF TypeOK
    <3> QED BY <1>1, <1>2, <3>1, <3>2, <3>3 DEF TypeOK
  <2> QED BY <1>1, <1>2, <1>3, <1>5, <2>2, <2>3, <2>4, ChannelLemma
          DEF TypeOK, kNew, kAdded, kDeleted
<1>6. CASE /\ index_[c] = kAdded
           /\ events # {}
           /\ epoll_ctl("MOD", c, events)
           /\ UNCHANGED <<index_, channels_>>
  <2>1. interest[fd(c)] # NoEntry
    BY <1>1, <1>6, KnownLemma
  <2>2. /\ interest' = [interest EXCEPT ![fd(c)] = [ptr |-> c, events |-> events]]
        /\ ~ctlFailed'
    BY <1>2, <1>6, <2>1 DEF epoll_ctl
  <2>3. channels_'[fd(c)] = c
    BY <1>2, <1>6 DEF IInv, MapAgrees, kNew, kAdded
  <2>4. TypeOK'
    <3>1. ctlFailed' \in BOOLEAN
      BY <1>6 DEF epoll_ctl
    <3>2. /\ events_' \in [Channels -> SUBSET WantedEvents]
          /\ index_' \in [Channels -> {kNew, kAdded, kDeleted}]
          /\ channels_' \in [Fds -> Channels \cup {NoChannel}]
      BY <1>1, <1>2, <1>6 DEF TypeOK
    <3>3. interest' \in [Fds -> Entry \cup {NoEntry}]
      BY <1>2, <2>2 DEF TypeOK
    <3> QED BY <1>1, <1>2, <3>1, <3>2, <3>3 DEF TypeOK
  <2> QED BY <1>1, <1>2, <1>3, <1>6, <2>2, <2>3, <2>4, ChannelLemma
          DEF TypeOK, kNew, kAdded
<1> QED BY <1>1, <1>4, <1>5, <1>6 DEF updateChannel

(* remove() keeps the invariant.                                           *)
LEMMA RemoveIInv ==
    ASSUME IInv, NEW c \in Channels, removeChannel(c)
    PROVE  IInv'
<1>1. /\ life[c] = "live" /\ life' = life /\ lpc' = lpc /\ level' = level
      /\ activeChannels' = activeChannels /\ listSize' = listSize /\ events_' = events_
      /\ channels_' = [channels_ EXCEPT ![fd(c)] = NoChannel]
      /\ index_' = [index_ EXCEPT ![c] = kNew]
  BY DEF removeChannel
<1>2. /\ fd(c) \in Fds /\ c # NoChannel /\ TypeOK /\ ~ctlFailed
  BY EPollPollerAssumption DEF fd, IInv, KernelAgrees
<1>3. interest' = [interest EXCEPT ![fd(c)] = NoEntry] /\ ~ctlFailed'
  <2>1. CASE index_[c] = kAdded
    <3>1. interest[fd(c)] # NoEntry
      BY <1>1, <2>1, KnownLemma
    <3> QED BY <1>2, <2>1, <3>1 DEF removeChannel, epoll_ctl
  <2>2. CASE index_[c] # kAdded
    <3>1. interest[fd(c)] = NoEntry
      BY <1>1, <2>2, KnownLemma
    <3> QED BY <1>2, <2>2, <3>1 DEF removeChannel, TypeOK
  <2> QED BY <2>1, <2>2
<1>4. TypeOK'
  <2>1. ctlFailed' \in BOOLEAN
    BY <1>2 DEF removeChannel, epoll_ctl, TypeOK
  <2>2. /\ index_' \in [Channels -> {kNew, kAdded, kDeleted}]
        /\ channels_' \in [Fds -> Channels \cup {NoChannel}]
        /\ interest' \in [Fds -> Entry \cup {NoEntry}]
    BY <1>1, <1>2, <1>3 DEF TypeOK
  <2> QED BY <1>1, <1>2, <2>1, <2>2 DEF TypeOK
<1> QED BY <1>1, <1>2, <1>3, <1>4, ChannelLemma DEF TypeOK, kNew, kAdded

(* Creating a channel, and destroying a removed one with its socket, keeps *)
(* the invariant.                                                          *)
LEMMA LifeIInv ==
    ASSUME IInv, NEW c \in Channels, NewChannel(c) \/ DeleteChannel(c)
    PROVE  IInv'
<1> USE DEF IInv
<1>1. \A d \in Channels : fd(d) \in Fds
  BY EPollPollerAssumption DEF fd
<1>2. CASE NewChannel(c)
  <2>1. TypeOK'
    BY <1>2 DEF NewChannel, TypeOK
  <2>2. KernelAgrees'
    BY <1>2 DEF NewChannel, KernelAgrees, fd
  <2>3. MapAgrees'
    BY <1>2 DEF NewChannel, MapAgrees, fd, TypeOK
  <2> QED BY <2>1, <2>2, <2>3
<1>3. CASE DeleteChannel(c)
  <2>1. interest[fd(c)] = NoEntry
    BY <1>3, KnownLemma DEF DeleteChannel, kNew, kAdded
  <2>2. interest' = interest
    BY <1>1, <1>3, <2>1 DEF DeleteChannel, TypeOK
  <2>3. TypeOK'
    BY <1>1, <1>3, <2>2 DEF DeleteChannel, TypeOK, Level
  <2>4. KernelAgrees'
    BY <1>3, <2>2 DEF DeleteChannel, KernelAgrees, fd
  <2>5. MapAgrees'
    BY <1>3 DEF DeleteChannel, MapAgrees, fd, TypeOK
  <2> QED BY <2>3, <2>4, <2>5
<1> QED BY <1>2, <1>3

(* The steps of the loop and of the sockets keep it: they touch neither    *)
(* the map nor the kernel's list.                                          *)
LEMMA LoopIInv ==
    ASSUME IInv, LoopStep \/ (\E f \in Fds : SocketChanges(f)) \/ UNCHANGED vars
    PROVE  IInv'
<1> USE DEF IInv
<1>1. /\ UNCHANGED <<life, events_, index_, channels_, interest, ctlFailed>>
  BY DEF LoopStep, SocketChanges, vars, poll, handleEvent, Continue
<1>2. KernelAgrees' /\ MapAgrees'
  BY <1>1 DEF KernelAgrees, MapAgrees, fd
<1>3. TypeOK'
  <2>1. CASE poll
    <3>1. PICK reported \in SUBSET {f \in Fds : Reportable(f)} :
            /\ activeChannels' = {interest[f].ptr : f \in reported}
            /\ listSize' = IF Cardinality(reported) = listSize THEN 2 * listSize
                                                                ELSE listSize
      BY <2>1 DEF poll
    <3>2. activeChannels' \subseteq Channels
      <4>1. ASSUME NEW f \in reported PROVE interest[f].ptr \in Channels
        <5>1. f \in Fds /\ interest[f] # NoEntry
          BY DEF Reportable
        <5>2. interest[f] \in Entry
          BY <5>1 DEF TypeOK
        <5> QED BY <5>2 DEF Entry
      <4> QED BY <3>1, <4>1
    <3>3. listSize' \in Nat \ {0}
      BY <3>1 DEF TypeOK
    <3> QED BY <2>1, <3>2, <3>3 DEF poll, TypeOK
  <2>2. CASE \E c \in Channels : handleEvent(c)
    BY <2>2 DEF handleEvent, TypeOK
  <2>3. CASE Continue
    BY <2>3 DEF Continue, TypeOK
  <2>4. CASE \E f \in Fds : SocketChanges(f)
    BY <2>4 DEF SocketChanges, TypeOK
  <2>5. CASE UNCHANGED vars
    BY <2>5 DEF vars, TypeOK
  <2> QED BY <2>1, <2>2, <2>3, <2>4, <2>5 DEF LoopStep
<1> QED BY <1>2, <1>3

(* Every step keeps the invariant.                                         *)
LEMMA StepIInv == IInv /\ [Next]_vars => IInv'
<1> SUFFICES ASSUME IInv, [Next]_vars PROVE IInv'
  OBVIOUS
<1>1. ASSUME NEW c \in Channels,
             \/ enableReading(c) \/ disableReading(c)
             \/ enableWriting(c) \/ disableWriting(c)
             \/ disableAll(c)
      PROVE  IInv'
  <2>1. events_[c] \in SUBSET WantedEvents
    BY DEF IInv, TypeOK
  <2>2. PICK events \in SUBSET WantedEvents : SetEvents(c, events)
    BY <1>1, <2>1
    DEF enableReading, disableReading, enableWriting, disableWriting, disableAll,
        WantedEvents
  <2> QED BY <2>2, SetEventsIInv
<1> QED BY <1>1, RemoveIInv, LifeIInv, LoopIInv DEF Next

(* In every behaviour the variables keep their types.                      *)
THEOREM TypeCorrect == SafeSpec => []TypeOK
<1>1. IInv => TypeOK
  BY DEF IInv
<1> QED BY <1>1, InitIInv, StepIInv, PTL DEF SafeSpec

(* In every behaviour the kernel watches exactly the kAdded channels, with *)
(* the events they want, and no epoll_ctl() of the poller fails: the error *)
(* branches of EPollPoller::update() are dead as long as a channel is      *)
(* removed before it is destroyed.                                         *)
THEOREM KernelAgreement == SafeSpec => []KernelAgrees
<1>1. IInv => KernelAgrees
  BY DEF IInv
<1> QED BY <1>1, InitIInv, StepIInv, PTL DEF SafeSpec

(* In every behaviour channels_ maps each fd to the live channel that was  *)
(* updated and not removed, so hasChannel() is right.                      *)
THEOREM MapAgreement == SafeSpec => []MapAgrees
<1>1. IInv => MapAgrees
  BY DEF IInv
<1> QED BY <1>1, InitIInv, StepIInv, PTL DEF SafeSpec

=============================================================================
