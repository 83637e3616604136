---------------------------- MODULE EPollPoller ----------------------------
(***************************************************************************)
(* The channels of one loop and its EPollPoller: what each channel wants   *)
(* (events_), what the poller believes it told the kernel (index_), the    *)
(* poller's map channels_, and the interest list of the epoll instance.    *)
(*                                                                         *)
(* All of it belongs to the loop's thread: application code changes it in  *)
(* the callbacks of the dispatch loop and in the pending functors.  The    *)
(* sockets become ready, and stop to be, at any time.                      *)
(*                                                                         *)
(* revents_ is not kept: what callbacks do with it is the channel owner's. *)
(***************************************************************************)
EXTENDS Integers, FiniteSets

CONSTANTS
    Channels,            \* Channel objects, each created and destroyed once
    Fds,                 \* file descriptors; a closed one is used again
    FdOf,                \* the fd_ of each channel
    NoChannel,           \* "no such entry"
    kInitEventListSize   \* (16)

ASSUME EPollPollerAssumption ==
    /\ FdOf \in [Channels -> Fds]
    /\ NoChannel \notin Channels
    /\ kInitEventListSize \in Nat \ {0}

VARIABLES
    lpc,              \* where the loop is: poll, dispatch, callback, functors
    life,             \* of each channel: unborn, live or dead
    events_,          \* of each channel: the events it wants
    index_,           \* of each channel: kNew, kAdded or kDeleted
    channels_,        \* the poller's map from fd to channel
    interest,         \* the kernel's list: per fd the channel and its events
    ctlFailed,        \* some epoll_ctl() has failed
    level,            \* per fd: what is ready on the socket (one thing at a time
                      \* is enough: any of several would have it reported)
    activeChannels,   \* reported by poll() and not handled yet
    listSize          \* events_.size() of the poller: room for epoll_wait

vars == <<lpc, life, events_, index_, channels_, interest, ctlFailed, level,
          activeChannels, listSize>>

kNew == "kNew"
kAdded == "kAdded"
kDeleted == "kDeleted"

WantedEvents == {"read", "write"}
Level == WantedEvents \cup {"hup", "none"}   \* EPOLLERR, EPOLLHUP come unasked

Entry == [ptr: Channels, events: SUBSET WantedEvents]
NoEntry == [ptr |-> NoChannel, events |-> {}]

fd(c) == FdOf[c]

(* Mutant: the event list is reserved, and its size() still 0.             *)
Init_ListReserved ==
    /\ lpc = "functors"
    /\ life = [c \in Channels |-> "unborn"]
    /\ events_ = [c \in Channels |-> {}]
    /\ index_ = [c \in Channels |-> kNew]
    /\ channels_ = [f \in Fds |-> NoChannel]
    /\ interest = [f \in Fds |-> NoEntry]
    /\ ctlFailed = FALSE
    /\ level = [f \in Fds |-> "none"]
    /\ activeChannels = {}
    /\ listSize = 0

Init ==
    /\ lpc = "functors"
    /\ life = [c \in Channels |-> "unborn"]
    /\ events_ = [c \in Channels |-> {}]
    /\ index_ = [c \in Channels |-> kNew]
    /\ channels_ = [f \in Fds |-> NoChannel]
    /\ interest = [f \in Fds |-> NoEntry]
    /\ ctlFailed = FALSE
    /\ level = [f \in Fds |-> "none"]
    /\ activeChannels = {}
    /\ listSize = kInitEventListSize

-----------------------------------------------------------------------------
(* The kernel.                                                             *)

(* epoll_ctl(op, fd, event): ADD of a known fd, MOD and DEL of an unknown  *)
(* one fail.  The poller logs a failure and goes on.                       *)
epoll_ctl(op, c, events) ==
    LET known == interest[fd(c)] # NoEntry
        ok == IF op = "ADD" THEN ~known ELSE known
    IN  /\ ctlFailed' = (ctlFailed \/ ~ok)
        /\ interest' =
             IF ~ok THEN interest
             ELSE [interest EXCEPT ![fd(c)] =
                     IF op = "DEL" THEN NoEntry ELSE [ptr |-> c, events |-> events]]

(* What epoll_wait would report of f now.                                  *)
Reportable(f) ==
    interest[f] # NoEntry /\ level[f] \in interest[f].events \cup {"hup"}

(* The state of a socket changes.                                          *)
SocketChanges(f) ==
    /\ \E c \in Channels : life[c] = "live" /\ fd(c) = f
    /\ \E l \in Level : level' = [level EXCEPT ![f] = l]
    /\ UNCHANGED <<lpc, life, events_, index_, channels_, interest, ctlFailed,
                   activeChannels, listSize>>

-----------------------------------------------------------------------------
(* The channel operations, called by the owner of c on the loop's thread.  *)

InUserCode == lpc \in {"callback", "functors"}

(* updateChannel(c), for a channel that now wants events.                  *)
(* Mutant: a channel deleted from the kernel's list stays kAdded.          *)
updateChannel_IndexKept(c, events) ==
    \/ /\ index_[c] \in {kNew, kDeleted}
       /\ channels_' = IF index_[c] = kNew THEN [channels_ EXCEPT ![fd(c)] = c]
                                           ELSE channels_
       /\ index_' = [index_ EXCEPT ![c] = kAdded]
       /\ epoll_ctl("ADD", c, events)
    \/ /\ index_[c] = kAdded
       /\ epoll_ctl(IF events = {} THEN "DEL" ELSE "MOD", c, events)
       /\ UNCHANGED <<index_, channels_>>

updateChannel(c, events) ==
    \/ /\ index_[c] \in {kNew, kDeleted}
       /\ channels_' = IF index_[c] = kNew THEN [channels_ EXCEPT ![fd(c)] = c]
                                           ELSE channels_
       /\ index_' = [index_ EXCEPT ![c] = kAdded]
       /\ epoll_ctl("ADD", c, events)
    \/ /\ index_[c] = kAdded
       /\ events = {}
       /\ index_' = [index_ EXCEPT ![c] = kDeleted]
       /\ epoll_ctl("DEL", c, events)
       /\ UNCHANGED channels_
    \/ /\ index_[c] = kAdded
       /\ events # {}
       /\ epoll_ctl("MOD", c, events)
       /\ UNCHANGED <<index_, channels_>>

(* enableReading(), disableWriting() ... : change events_ and update().    *)
SetEvents(c, events) ==
    /\ InUserCode
    /\ life[c] = "live"
    /\ events_' = [events_ EXCEPT ![c] = events]
    /\ updateChannel(c, events)
    /\ UNCHANGED <<lpc, life, level, activeChannels, listSize>>

enableReading(c) == SetEvents(c, events_[c] \cup {"read"})
disableReading(c) == SetEvents(c, events_[c] \ {"read"})
enableWriting(c) == SetEvents(c, events_[c] \cup {"write"})
disableWriting(c) == SetEvents(c, events_[c] \ {"write"})
disableAll(c) == SetEvents(c, {})

(* remove().  Mutant: the channel does not become kNew again.              *)
removeChannel_IndexKept(c) ==
    /\ InUserCode
    /\ life[c] = "live"
    /\ channels_' = [channels_ EXCEPT ![fd(c)] = NoChannel]
    /\ IF index_[c] = kAdded
         THEN epoll_ctl("DEL", c, events_[c])
         ELSE UNCHANGED <<interest, ctlFailed>>
    /\ UNCHANGED <<lpc, life, events_, index_, level, activeChannels, listSize>>

removeChannel(c) ==
    /\ InUserCode
    /\ life[c] = "live"
    /\ channels_' = [channels_ EXCEPT ![fd(c)] = NoChannel]
    /\ index_' = [index_ EXCEPT ![c] = kNew]
    /\ IF index_[c] = kAdded
         THEN epoll_ctl("DEL", c, events_[c])
         ELSE UNCHANGED <<interest, ctlFailed>>
    /\ UNCHANGED <<lpc, life, events_, level, activeChannels, listSize>>

(* The owner opens a socket and constructs a channel for it ...            *)
NewChannel(c) ==
    /\ InUserCode
    /\ life[c] = "unborn"
    /\ \A d \in Channels : fd(d) = fd(c) => life[d] # "live"
    /\ life' = [life EXCEPT ![c] = "live"]
    /\ UNCHANGED <<lpc, events_, index_, channels_, interest, ctlFailed, level,
                   activeChannels, listSize>>

(* ... and, having removed it, destroys it and closes the socket, outside  *)
(* of the dispatch loop.                                                   *)
DeleteChannel(c) ==
    /\ lpc = "functors"
    /\ life[c] = "live"
    /\ index_[c] = kNew
    /\ life' = [life EXCEPT ![c] = "dead"]
    /\ level' = [level EXCEPT ![fd(c)] = "none"]
    /\ interest' = [interest EXCEPT ![fd(c)] = NoEntry]
    /\ UNCHANGED <<lpc, events_, index_, channels_, ctlFailed, activeChannels, listSize>>

-----------------------------------------------------------------------------
(* The loop.                                                               *)

(* epoll_wait, fillActiveChannels and the growth of the event list.  When  *)
(* more is ready than the list holds, which part is reported is the        *)
(* kernel's choice.  Mutant: the event list does not grow.                 *)
poll_FixedList ==
    LET ready == {f \in Fds : Reportable(f)}
    IN  /\ lpc = "poll"
        /\ \E reported \in SUBSET ready :
             /\ Cardinality(reported) =
                  IF Cardinality(ready) < listSize THEN Cardinality(ready) ELSE listSize
             /\ activeChannels' = {interest[f].ptr : f \in reported}
        /\ lpc' = "dispatch"
        /\ UNCHANGED <<life, events_, index_, channels_, interest, ctlFailed, level, listSize>>

poll ==
    LET ready == {f \in Fds : Reportable(f)}
    IN  /\ lpc = "poll"
        /\ \E reported \in SUBSET ready :
             /\ Cardinality(reported) =
                  IF Cardinality(ready) < listSize THEN Cardinality(ready) ELSE listSize
             /\ activeChannels' = {interest[f].ptr : f \in reported}
             /\ listSize' = IF Cardinality(reported) = listSize THEN 2 * listSize
                                                                 ELSE listSize
        /\ lpc' = "dispatch"
        /\ UNCHANGED <<life, events_, index_, channels_, interest, ctlFailed, level>>

handleEvent(c) ==
    /\ lpc = "dispatch"
    /\ c \in activeChannels
    /\ activeChannels' = activeChannels \ {c}
    /\ lpc' = "callback"
    /\ UNCHANGED <<life, events_, index_, channels_, interest, ctlFailed, level, listSize>>

(* The callbacks of the channel return; the dispatch loop ends and the     *)
(* functors start; the functors end and the loop polls again.              *)
Continue ==
    /\ \/ lpc = "callback" /\ lpc' = "dispatch"
       \/ lpc = "dispatch" /\ activeChannels = {} /\ lpc' = "functors"
       \/ lpc = "functors" /\ lpc' = "poll"
    /\ UNCHANGED <<life, events_, index_, channels_, interest, ctlFailed, level,
                   activeChannels, listSize>>

LoopStep == poll \/ (\E c \in Channels : handleEvent(c)) \/ Continue

Next ==
    \/ \E c \in Channels :
          \/ enableReading(c) \/ disableReading(c)
          \/ enableWriting(c) \/ disableWriting(c)
          \/ disableAll(c)
          \/ removeChannel(c)
          \/ NewChannel(c) \/ DeleteChannel(c)
    \/ \E f \in Fds : SocketChanges(f)
    \/ LoopStep

SafeSpec == Init /\ [][Next]_vars

(* The loop keeps running: callbacks and functors return, epoll_wait       *)
(* returns.                                                                *)
Spec == SafeSpec /\ WF_vars(LoopStep)

-----------------------------------------------------------------------------
(* Every variable has its type.                                            *)
TypeOK ==
    /\ lpc \in {"poll", "dispatch", "callback", "functors"}
    /\ life \in [Channels -> {"unborn", "live", "dead"}]
    /\ events_ \in [Channels -> SUBSET WantedEvents]
    /\ index_ \in [Channels -> {kNew, kAdded, kDeleted}]
    /\ channels_ \in [Fds -> Channels \cup {NoChannel}]
    /\ interest \in [Fds -> Entry \cup {NoEntry}]
    /\ ctlFailed \in BOOLEAN
    /\ level \in [Fds -> Level]
    /\ activeChannels \subseteq Channels
    /\ listSize \in Nat \ {0}

(* The kernel's list is what the poller believes it is: the entry of an fd *)
(* is the channel that is kAdded, with the events it wants now, also when  *)
(* the fd has been used again; so no epoll_ctl() has ever failed.          *)
KernelAgrees ==
    /\ \A c \in Channels :
         index_[c] = kAdded <=> interest[fd(c)] = [ptr |-> c, events |-> events_[c]]
    /\ \A f \in Fds :
         interest[f] # NoEntry => \E c \in Channels : fd(c) = f /\ index_[c] = kAdded
    /\ ~ctlFailed

(* hasChannel(): an fd is mapped to the one live channel that was updated  *)
(* and not removed since; a removed or destroyed channel is not mapped.    *)
MapAgrees ==
    /\ \A c \in Channels : index_[c] # kNew <=> channels_[fd(c)] = c
    /\ \A c \in Channels : index_[c] # kNew => life[c] = "live"
    /\ \A f \in Fds : channels_[f] # NoChannel => fd(channels_[f]) = f
    /\ \A c, d \in Channels :
         fd(c) = fd(d) /\ life[c] = "live" /\ life[d] = "live" => c = d

(* No channel starves: one that wants an event that stays ready is handled *)
(* again and again, however many others are ready.  epoll_wait promises no *)
(* order; the growth of the event list must do it.                         *)
ReadyIsHandled ==
    \A c \in Channels :
        <>[](Reportable(fd(c)) /\ interest[fd(c)].ptr = c) => []<>(c \in activeChannels)

=============================================================================
