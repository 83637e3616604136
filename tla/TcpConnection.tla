--------------------------- MODULE TcpConnection ---------------------------
(***************************************************************************)
(* One TcpConnection, from the functor that establishes it to the one that *)
(* destroys it: the thread of its loop, other threads that send and shut   *)
(* down, the peer, and the kernel's socket between them.                   *)
(*                                                                         *)
(* The loop is taken as what EventLoop is shown to implement: functors run *)
(* one at a time in the order they were queued, between the handling of    *)
(* one poll's events and the next poll.  A functor or an event handler is  *)
(* one step: with other threads it shares state_ and the queue only, and   *)
(* it uses state_ at one place.  What callbacks do is a step of its own.   *)
(*                                                                         *)
(* A message is MsgLen units.  The application keeps a TcpConnectionPtr    *)
(* while it has calls in flight, and ignores SIGPIPE; it sets every        *)
(* callback.  Only its first messages and those of the peer are modelled,  *)
(* as many as MaxSends, MaxLoopSends and MaxIncoming say.                  *)
(***************************************************************************)
EXTENDS Integers, FiniteSets, Sequences, SequencesExt

CONSTANTS
    LoopThread,      \* the thread of loop_
    Threads,         \* other threads that use the connection
    MaxSends,        \* messages each of them sends
    MaxLoopSends,    \* messages LoopThread sends
    MaxIncoming,     \* messages the peer sends
    MsgLen,          \* units in a message
    SndBuf,          \* units the kernel holds for the peer
    highWaterMark_

ASSUME TcpConnectionAssumption ==
    /\ LoopThread \notin Threads
    /\ MaxSends \in Nat /\ MaxLoopSends \in Nat /\ MaxIncoming \in Nat
    /\ MsgLen \in Nat \ {0}
    /\ SndBuf \in Nat \ {0}
    /\ highWaterMark_ \in Nat \ {0}

VARIABLES
    state_,
    events_,        \* what the channel asks for
    added,          \* the poller has the channel
    revents_,       \* the events of the last poll still to be handled
    outputBuffer_,
    queue,          \* the functors about this connection queued in loop_
    calls,          \* the application callbacks made
    overtaken,      \* how often a shutdown() has overwritten kDisconnected
    removals,       \* closeCallback_ calls the server has not dealt with
    dropped,        \* ~TcpServer ran
    pc,             \* of each other thread: where it is in a call
    sent,           \* messages each thread has passed to send()
    wire,           \* every unit write() has taken
    finSent,        \* shutdownWrite() was called
    peer,           \* of the peer: "open", "fin" (it closed), "reset"
    sockErr,        \* the socket has a pending error
    incoming,       \* the socket has unread data
    arrived,        \* messages the peer has sent
    peerRead        \* units the peer has read

channelVars == <<events_, added>>
serverVars == <<removals, dropped>>
threadVars == <<pc, sent>>
kernelVars == <<peer, incoming, arrived, peerRead>>
vars == <<state_, channelVars, revents_, outputBuffer_, queue, calls, overtaken,
          serverVars, threadVars, wire, finSent, sockErr, kernelVars>>

AllThreads == Threads \cup {LoopThread}
StateE == {"kConnecting", "kConnected", "kDisconnecting", "kDisconnected"}
Callbacks == {"UP", "message", "highWater", "DOWN"}

(* Unit k of the n-th message of thread t, and whether its memory still    *)
(* held what the sender had put there when it was copied.                  *)
Unit(t, n, k) == [from |-> t, msg |-> n, unit |-> k, intact |-> TRUE]
Message(t, n) == [k \in 1 .. MsgLen |-> Unit(t, n, k)]
Overwritten(data) == [k \in DOMAIN data |-> [data[k] EXCEPT !.intact = FALSE]]

(* A queued functor; only sendInLoop has data.                             *)
Functor(fn) == [fn |-> fn, data |-> <<>>]
SendFunctor(data) == [fn |-> "sendInLoop", data |-> data]

OwnString(t, functor) == functor.data # <<>> /\ functor.data[1].from = t

Called(c) == \E i \in DOMAIN calls : calls[i] = c
Queued(fn) == \E i \in DOMAIN queue : queue[i].fn = fn
isWriting == "out" \in events_

(* TcpServer::newConnection() has queued connectEstablished().             *)
Init ==
    /\ state_ = "kConnecting"
    /\ events_ = {} /\ added = FALSE /\ revents_ = {}
    /\ outputBuffer_ = <<>>
    /\ queue = <<Functor("connectEstablished")>>
    /\ calls = <<>>
    /\ overtaken = 0
    /\ removals = 0 /\ dropped = FALSE
    /\ pc = [t \in Threads |-> "idle"]
    /\ sent = [t \in AllThreads |-> 0]
    /\ wire = <<>> /\ finSent = FALSE
    /\ peer = "open" /\ sockErr = FALSE /\ incoming = FALSE
    /\ arrived = 0 /\ peerRead = 0

-----------------------------------------------------------------------------
(* The socket.                                                             *)

EPIPE == -1
Room == SndBuf - (Len(wire) - peerRead)

(* How much a write(2) of len units takes: 0 stands for EAGAIN.            *)
write(len) ==
    IF finSent \/ peer = "reset" THEN {EPIPE}
    ELSE IF Room = 0 THEN {0}
    ELSE {n \in 1 .. len : n <= Room}

(* What epoll_wait(2) reports of it.                                       *)
Ready ==
    (IF incoming \/ peer # "open" THEN {"in"} ELSE {}) \cup
    (IF Room > 0 \/ finSent \/ peer = "reset" THEN {"out"} ELSE {}) \cup
    (IF sockErr THEN {"err"} ELSE {}) \cup
    (IF peer = "reset" \/ (peer = "fin" /\ finSent) THEN {"hup"} ELSE {})

Reported == Ready \cap (events_ \cup {"err", "hup"})

PeerReads ==
    /\ peer # "reset"
    /\ peerRead' = Len(wire)
    /\ peerRead' # peerRead
    /\ UNCHANGED <<peer, incoming, arrived, sockErr>>

PeerSends ==
    /\ peer = "open"
    /\ arrived < MaxIncoming
    /\ arrived' = arrived + 1
    /\ incoming' = TRUE
    /\ UNCHANGED <<peer, peerRead, sockErr>>

PeerCloses ==
    /\ peer = "open"
    /\ peer' = "fin"
    /\ UNCHANGED <<incoming, arrived, peerRead, sockErr>>

PeerResets ==
    /\ peer # "reset"
    /\ peer' = "reset"
    /\ sockErr' = TRUE
    /\ incoming' = FALSE
    /\ UNCHANGED <<arrived, peerRead>>

Peer ==
    /\ PeerReads \/ PeerSends \/ PeerCloses \/ PeerResets
    /\ UNCHANGED <<state_, channelVars, revents_, outputBuffer_, queue, calls,
                   overtaken, serverVars, threadVars, wire, finSent>>

-----------------------------------------------------------------------------
(* What runs in the loop: member functions that other ones call.           *)

(* Channel::update() with these events; the poller drops a channel that    *)
(* asks for none.                                                          *)
update(events) ==
    /\ events_' = events
    /\ added' = (events # {})

(* Mutant: looks at neither.                                               *)
nothingPending_Assumed == TRUE

(* May sendInLoop() write to the socket itself ?                           *)
nothingPending == ~isWriting /\ outputBuffer_ = <<>>

(* Mutant: the mark itself is not enough.                                  *)
reachesHighWaterMark_Beyond(oldlen, newlen) ==
    newlen > highWaterMark_ /\ oldlen <= highWaterMark_

(* Does the output reach the mark by growing from oldlen to newlen ?       *)
reachesHighWaterMark(oldlen, newlen) ==
    newlen >= highWaterMark_ /\ oldlen < highWaterMark_

(* Mutant: EPOLLOUT is not asked for.                                      *)
keepRemaining_NoEvent(remaining) ==
    /\ outputBuffer_' = outputBuffer_ \o remaining
    /\ UNCHANGED channelVars

(* The part of sendInLoop() after the write: what is left is queued behind *)
(* the output, and the channel asks for EPOLLOUT.                          *)
keepRemaining(remaining) ==
    /\ outputBuffer_' = outputBuffer_ \o remaining
    /\ IF remaining # <<>> /\ ~isWriting
         THEN update(events_ \cup {"out"})
         ELSE UNCHANGED channelVars

(* Does sendInLoop() see that write() failed for good ?  It looks at errno *)
(* after LOG_ERROR, whose localtime() and output may have changed it.      *)
faultErrors(n) == IF n = EPIPE THEN BOOLEAN ELSE {FALSE}

(* sendInLoop(data), called with the functors of rest in the queue.        *)
sendInLoop(data, rest) ==
    IF state_ = "kDisconnected"
    THEN queue' = rest /\ UNCHANGED <<outputBuffer_, channelVars, wire, sockErr>>
    ELSE \E n \in IF nothingPending THEN write(Len(data)) ELSE {0} :
         \E faultError \in faultErrors(n) :
           LET nwrote == IF n = EPIPE THEN 0 ELSE n
               remaining == SubSeq(data, nwrote + 1, Len(data))
               oldlen == Len(outputBuffer_)
           IN /\ sockErr' = (sockErr /\ n # EPIPE)
              /\ wire' = wire \o SubSeq(data, 1, nwrote)
              /\ IF faultError
                 THEN queue' = rest /\ UNCHANGED <<outputBuffer_, channelVars>>
                 ELSE /\ keepRemaining(remaining)
                      /\ queue' = rest
                           \o (IF remaining = <<>> THEN <<Functor("writeComplete")>> ELSE <<>>)
                           \o (IF /\ remaining # <<>>
                                  /\ reachesHighWaterMark(oldlen, oldlen + Len(remaining))
                               THEN <<Functor("highWater")>> ELSE <<>>)

(* Mutant: at once.                                                        *)
shutdownInLoop_AtOnce == finSent' = TRUE

(* shutdownInLoop(): not before the output is gone.                        *)
shutdownInLoop == finSent' = (finSent \/ ~isWriting)

(* Mutant: the state is not set.                                           *)
handleClose_StateKept ==
    /\ UNCHANGED state_
    /\ update({})
    /\ calls' = Append(calls, "DOWN")
    /\ removals' = removals + 1

handleClose ==
    /\ state_' = "kDisconnected"
    /\ update({})
    /\ calls' = Append(calls, "DOWN")
    /\ removals' = removals + 1

-----------------------------------------------------------------------------
(* The functors, run when no events are left to handle.                    *)

(* Functor fn is the next to run, and leaves the queue.                    *)
RunsNext(fn) ==
    /\ revents_ = {}
    /\ queue # <<>>
    /\ Head(queue).fn = fn

connectEstablished ==
    /\ RunsNext("connectEstablished")
    /\ queue' = Tail(queue)
    /\ state_' = "kConnected"
    /\ update(events_ \cup {"in"})
    /\ calls' = Append(calls, "UP")
    /\ UNCHANGED <<revents_, outputBuffer_, overtaken, serverVars, threadVars, wire,
                   finSent, sockErr, kernelVars>>

SendInLoop ==
    /\ RunsNext("sendInLoop")
    /\ sendInLoop(Head(queue).data, Tail(queue))
    /\ UNCHANGED <<state_, revents_, calls, overtaken, serverVars, threadVars,
                   finSent, kernelVars>>

ShutdownInLoop ==
    /\ RunsNext("shutdownInLoop")
    /\ queue' = Tail(queue)
    /\ shutdownInLoop
    /\ UNCHANGED <<state_, channelVars, revents_, outputBuffer_, calls, overtaken,
                   serverVars, threadVars, wire, sockErr, kernelVars>>

(* writeCompleteCallback_ (calls does not keep it) and                     *)
(* highWaterMarkCallback_.                                                 *)
CallBack ==
    /\ \/ RunsNext("writeComplete") /\ UNCHANGED calls
       \/ RunsNext("highWater") /\ calls' = Append(calls, "highWater")
    /\ queue' = Tail(queue)
    /\ UNCHANGED <<state_, channelVars, revents_, outputBuffer_, overtaken,
                   serverVars, threadVars, wire, finSent, sockErr, kernelVars>>

(* Mutant: tells the application in any state.                             *)
connectDestroyed_AlwaysTells ==
    /\ RunsNext("connectDestroyed")
    /\ queue' = Tail(queue)
    /\ state_' = "kDisconnected"
    /\ events_' = {}
    /\ calls' = Append(calls, "DOWN")
    /\ added' = FALSE
    /\ UNCHANGED <<revents_, outputBuffer_, overtaken, serverVars, threadVars, wire,
                   finSent, sockErr, kernelVars>>

(* connectDestroyed(): events are switched off and the application told if *)
(* nobody did so before; then the poller forgets the channel.              *)
connectDestroyed ==
    /\ RunsNext("connectDestroyed")
    /\ queue' = Tail(queue)
    /\ IF state_ = "kConnected"
         THEN /\ state_' = "kDisconnected"
              /\ events_' = {}
              /\ calls' = Append(calls, "DOWN")
         ELSE UNCHANGED <<state_, events_, calls>>
    /\ added' = FALSE
    /\ UNCHANGED <<revents_, outputBuffer_, overtaken, serverVars, threadVars, wire,
                   finSent, sockErr, kernelVars>>

RunFunctor ==
    connectEstablished \/ SendInLoop \/ ShutdownInLoop \/ CallBack \/ connectDestroyed

-----------------------------------------------------------------------------
(* The event handlers, in the order of Channel::handleEventWithGuard().    *)

Poll ==
    /\ revents_ = {}
    /\ added
    /\ Reported # {}
    /\ revents_' = Reported
    /\ UNCHANGED <<state_, channelVars, outputBuffer_, queue, calls, overtaken,
                   serverVars, threadVars, wire, finSent, sockErr, kernelVars>>

(* Mutant: the shutdown that was waiting for it is forgotten.              *)
outputGone_NoShutdown ==
    /\ update(events_ \ {"out"})
    /\ queue' = Append(queue, Functor("writeComplete"))
    /\ UNCHANGED finSent

(* The end of handleWrite(), once the output is gone.                      *)
outputGone ==
    /\ update(events_ \ {"out"})
    /\ queue' = Append(queue, Functor("writeComplete"))
    /\ finSent' = (finSent \/ state_ = "kDisconnecting")

handleWrite ==
    /\ "out" \in revents_
    /\ revents_' = revents_ \ {"out"}
    /\ IF isWriting
       THEN \E n \in write(Len(outputBuffer_)) :
            IF n > 0
            THEN LET rest == SubSeq(outputBuffer_, n + 1, Len(outputBuffer_))
                 IN /\ wire' = wire \o SubSeq(outputBuffer_, 1, n)
                    /\ outputBuffer_' = rest
                    /\ IF rest = <<>> THEN outputGone
                       ELSE UNCHANGED <<channelVars, queue, finSent>>
                    /\ UNCHANGED sockErr
            ELSE /\ sockErr' = (sockErr /\ n # EPIPE)
                 /\ UNCHANGED <<channelVars, outputBuffer_, queue, wire, finSent>>
       ELSE UNCHANGED <<channelVars, outputBuffer_, queue, wire, finSent, sockErr>>
    /\ UNCHANGED <<state_, calls, overtaken, serverVars, threadVars, kernelVars>>

(* Mutant: takes the end of the stream for an error.                       *)
handleRead_EofIgnored ==
    /\ "in" \in revents_ /\ "out" \notin revents_
    /\ revents_' = revents_ \ {"in", "hup"}
    /\ incoming' = FALSE
    /\ calls' = IF incoming THEN Append(calls, "message") ELSE calls
    /\ sockErr' = FALSE
    /\ UNCHANGED <<state_, channelVars, removals, outputBuffer_, queue, overtaken,
                   dropped, threadVars, wire, finSent, peer, arrived, peerRead>>

(* Data, the end of the stream, or an error (fetched from the socket by    *)
(* readv or, without one pending, EAGAIN).  EPOLLHUP is ignored in a report*)
(* that has EPOLLIN.                                                       *)
handleRead ==
    /\ "in" \in revents_ /\ "out" \notin revents_
    /\ revents_' = revents_ \ {"in", "hup"}
    /\ IF incoming
       THEN /\ incoming' = FALSE
            /\ calls' = Append(calls, "message")
            /\ UNCHANGED <<state_, channelVars, removals, sockErr>>
       ELSE IF peer # "open" /\ ~sockErr
       THEN handleClose /\ UNCHANGED <<incoming, sockErr>>
       ELSE /\ sockErr' = FALSE
            /\ UNCHANGED <<state_, channelVars, removals, calls, incoming>>
    /\ UNCHANGED <<outputBuffer_, queue, overtaken, dropped, threadVars, wire,
                   finSent, peer, arrived, peerRead>>

(* getsockopt(SO_ERROR) clears the error.                                  *)
handleError ==
    /\ "err" \in revents_ /\ revents_ \cap {"out", "in"} = {}
    /\ revents_' = revents_ \ {"err"}
    /\ sockErr' = FALSE
    /\ UNCHANGED <<state_, channelVars, outputBuffer_, queue, calls, overtaken,
                   serverVars, threadVars, wire, finSent, kernelVars>>

HandleClose ==
    /\ revents_ = {"hup"}
    /\ revents_' = {}
    /\ handleClose
    /\ UNCHANGED <<outputBuffer_, queue, overtaken, dropped, threadVars, wire,
                   finSent, sockErr, kernelVars>>

HandleEvent == handleWrite \/ handleRead \/ handleError \/ HandleClose

-----------------------------------------------------------------------------
(* The server: TcpServer::removeConnection(), and ~TcpServer, after which  *)
(* nobody removes connections any more.  (To a connection that has said    *)
(* "DOWN" and is still in the map ~TcpServer does what the removal does.)  *)

RemoveConnection ==
    /\ removals > 0 /\ ~dropped
    /\ removals' = removals - 1
    /\ queue' = Append(queue, Functor("connectDestroyed"))
    /\ UNCHANGED <<state_, channelVars, revents_, outputBuffer_, calls, overtaken,
                   dropped, threadVars, wire, finSent, sockErr, kernelVars>>

ServerDrops ==
    /\ ~Called("DOWN") /\ ~dropped
    /\ dropped' = TRUE
    /\ queue' = Append(queue, Functor("connectDestroyed"))
    /\ UNCHANGED <<state_, channelVars, revents_, outputBuffer_, calls, overtaken,
                   removals, threadVars, wire, finSent, sockErr, kernelVars>>

-----------------------------------------------------------------------------
(* The application.  It knows the connection from "UP" on.                 *)

(* A callback on LoopThread calls send() ...                               *)
LoopSend ==
    /\ state_ = "kConnected"
    /\ sent[LoopThread] < MaxLoopSends
    /\ sent' = [sent EXCEPT ![LoopThread] = @ + 1]
    /\ sendInLoop(Message(LoopThread, sent'[LoopThread]), queue)
    /\ UNCHANGED <<state_, revents_, calls, overtaken, serverVars, pc, finSent,
                   kernelVars>>

(* ... or shutdown().                                                      *)
LoopShutdown ==
    /\ state_ = "kConnected"
    /\ state_' = "kDisconnecting"
    /\ shutdownInLoop
    /\ UNCHANGED <<channelVars, revents_, outputBuffer_, queue, calls, overtaken,
                   serverVars, threadVars, wire, sockErr, kernelVars>>

appVars == <<channelVars, revents_, outputBuffer_, calls, serverVars, wire, finSent,
             sockErr, kernelVars>>

(* Another thread calls send() or shutdown(), and finds kConnected ...     *)
BeginCall(t) ==
    /\ state_ = "kConnected"
    /\ pc[t] = "idle"
    /\ \E call \in {"send", "shutdown"} :
          /\ call = "send" => sent[t] < MaxSends
          /\ pc' = [pc EXCEPT ![t] = call]
    /\ UNCHANGED <<state_, queue, overtaken, sent, appVars>>

(* ... send() queues sendInLoop() with the address of the caller's string, *)
QueueSend(t) ==
    /\ pc[t] = "send"
    /\ pc' = [pc EXCEPT ![t] = "idle"]
    /\ sent' = [sent EXCEPT ![t] = @ + 1]
    /\ queue' = Append(queue, SendFunctor(Message(t, sent'[t])))
    /\ UNCHANGED <<state_, overtaken, appVars>>

(* shutdown() stores the state, whatever it is by now,                     *)
StoreDisconnecting(t) ==
    /\ pc[t] = "shutdown"
    /\ pc' = [pc EXCEPT ![t] = "queueShutdown"]
    /\ state_' = "kDisconnecting"
    /\ overtaken' = overtaken + IF state_ = "kDisconnected" THEN 1 ELSE 0
    /\ UNCHANGED <<queue, sent, appVars>>

(* and queues shutdownInLoop().                                            *)
QueueShutdown(t) ==
    /\ pc[t] = "queueShutdown"
    /\ pc' = [pc EXCEPT ![t] = "idle"]
    /\ queue' = Append(queue, Functor("shutdownInLoop"))
    /\ UNCHANGED <<state_, overtaken, sent, appVars>>

(* After send() returned, the caller's strings go, and their memory is used*)
(* for something else.                                                     *)
FreeStrings(t) ==
    /\ \E i \in DOMAIN queue : OwnString(t, queue[i]) /\ queue[i].data[1].intact
    /\ queue' = [i \in DOMAIN queue |->
                   IF OwnString(t, queue[i]) THEN SendFunctor(Overwritten(queue[i].data))
                   ELSE queue[i]]
    /\ UNCHANGED <<state_, overtaken, threadVars, appVars>>

ThreadStep(t) == QueueSend(t) \/ StoreDisconnecting(t) \/ QueueShutdown(t)

-----------------------------------------------------------------------------
Next ==
    \/ RunFunctor
    \/ Poll
    \/ HandleEvent
    \/ RemoveConnection \/ ServerDrops
    \/ LoopSend \/ LoopShutdown
    \/ \E t \in Threads : BeginCall(t) \/ ThreadStep(t) \/ FreeStrings(t)
    \/ Peer

SafeSpec == Init /\ [][Next]_vars

(* Every iteration of the loop polls, handles what was reported and runs   *)
(* the queued functors (EventLoop: EveryFunctorRuns, EPollPoller:          *)
(* ReadyIsHandled); threads inside the library are scheduled; the peer     *)
(* reads what it is sent.                                                  *)
Spec ==
    /\ SafeSpec
    /\ SF_vars(RunFunctor)
    /\ WF_vars(Poll)
    /\ WF_vars(HandleEvent)
    /\ \A t \in Threads : WF_vars(ThreadStep(t))
    /\ WF_vars(Peer /\ PeerReads)

-----------------------------------------------------------------------------
Down == Called("DOWN")
TimesCalled(c) == Cardinality({i \in DOMAIN calls : calls[i] = c})
TimesQueued(fn) == Cardinality({i \in DOMAIN queue : queue[i].fn = fn})

(* ~TcpServer dropped the connection during a shutdown: connectDestroyed() *)
(* says nothing to the application then.                                   *)
DroppedSilently == dropped /\ state_ = "kDisconnecting"

(* The types, and what the state says of the rest: until a shutdown()      *)
(* overwrites it, it is kDisconnected from the moment the application was  *)
(* told.                                                                   *)
TypeOK ==
    /\ state_ \in StateE
    /\ events_ \subseteq {"in", "out"}
    /\ revents_ \subseteq {"in", "out", "err", "hup"}
    /\ {added, dropped, finSent, sockErr, incoming} \subseteq BOOLEAN
    /\ {overtaken, removals, arrived, peerRead} \subseteq Nat
    /\ calls \in Seq(Callbacks)
    /\ pc \in [Threads -> {"idle", "send", "shutdown", "queueShutdown"}]
    /\ sent \in [AllThreads -> Nat]
    /\ peer \in {"open", "fin", "reset"}
    /\ peerRead <= Len(wire)
    /\ Len(wire) - peerRead <= SndBuf
    /\ added => events_ # {}
    /\ overtaken = 0 => (Down <=> state_ = "kDisconnected")

(* What the socket has taken and, while it takes more, what waits for it.  *)
written == IF finSent \/ peer = "reset" THEN wire ELSE wire \o outputBuffer_

(* s is made of messages, one after the other and each whole but perhaps   *)
(* the last; before message n of a thread there are its messages 1 to n-1. *)
InOrder(s) ==
    \A i \in DOMAIN s :
      /\ s[i].unit > 1 => /\ i > 1
                          /\ s[i - 1].from = s[i].from /\ s[i - 1].msg = s[i].msg
                          /\ s[i - 1].unit = s[i].unit - 1
      /\ s[i].unit = 1 =>
            /\ i > 1 => s[i - 1].unit = MsgLen
            /\ {s[j].msg : j \in {k \in 1 .. i - 1 : s[k].from = s[i].from}}
                  = 1 .. s[i].msg - 1

(* What was written and waits to be is, for each thread, its messages in   *)
(* the order it sent them with none left out, and no message is torn apart *)
(* by another one - whether units went through sendInLoop()'s own write, a *)
(* partial write, or handleWrite(), and whatever errno said when a write   *)
(* failed.  (Not claimed once a shutdown() has overwritten kDisconnected:  *)
(* what is queued then follows output that was given up.)                  *)
StreamInOrder == overtaken = 0 => InOrder(written)

(* Until the connection is down, the channel asks for EPOLLOUT exactly as  *)
(* long as there is output waiting - the loop does not spin on a writable  *)
(* socket - and is in the poller to get it: no output is stuck, but that of*)
(* a connection that ~TcpServer dropped during a shutdown.                 *)
WritingWhilePending ==
    ~Down => /\ isWriting <=> outputBuffer_ # <<>>
             /\ isWriting => added \/ DroppedSilently

(* The socket has taken units of message n of thread t; a functor has them.*)
InStream(s, t, n) == \E j \in DOMAIN s : s[j].from = t /\ s[j].msg = n
InQueue(q, t, n) == \E j \in DOMAIN q : OwnString(t, q[j]) /\ q[j].data[1].msg = n

(* Unless the connection is down, the FIN follows all output: nothing waits*)
(* in outputBuffer_ and, if the peer did not reset the connection, what the*)
(* socket has taken ends with a whole message and has every message that   *)
(* was passed to send() - but for those of other threads whose sendInLoop()*)
(* is still queued, which half-close does not wait for.                    *)
FinAfterOutput ==
    [][finSent' /\ ~finSent /\ ~Down =>
         /\ outputBuffer_' = <<>>
         /\ peer # "reset" =>
               /\ wire' # <<>> => wire'[Len(wire')].unit = MsgLen
               /\ \A t \in AllThreads : \A n \in 1 .. sent[t] :
                     InStream(wire', t, n) \/ (t \in Threads /\ InQueue(queue', t, n))]_vars

(* "UP" comes first, and no data after a "DOWN".  The application is told  *)
(* "DOWN" once, and once more after each shutdown() that overwrites        *)
(* kDisconnected; and while the state is kDisconnected the poller does not *)
(* have the channel.                                                       *)
DownIsFinal ==
    /\ calls # <<>> => calls[1] = "UP"
    /\ \A i, j \in DOMAIN calls :
          i < j /\ calls[i] = "DOWN" => calls[j] \notin {"UP", "message"}
    /\ TimesCalled("DOWN") = overtaken + IF state_ = "kDisconnected" THEN 1 ELSE 0
    /\ state_ = "kDisconnected" => ~added

(* A connection that is down, every event switched off, stays so: the      *)
(* application is not told again.                                          *)
DownOnce == TimesCalled("DOWN") <= 1

(* The application is told, or about to be, that its output has grown to   *)
(* the high-water mark, once each time it does and never else.             *)
Crosses == Len(outputBuffer_) < highWaterMark_ /\ Len(outputBuffer_') >= highWaterMark_
Announced == TimesCalled("highWater") + TimesQueued("highWater")
HighWaterTold == [][Announced' = Announced + IF Crosses THEN 1 ELSE 0]_vars

(* A shutdown() on any thread ends with the FIN, however the output and    *)
(* the queued functors are ordered, unless the connection goes down first. *)
ShutdownCompletes == state_ = "kDisconnecting" ~> finSent \/ Down \/ DroppedSilently

(* A peer that closes or resets leads to "DOWN".                           *)
CloseReported == peer # "open" /\ Called("UP") ~> Down \/ DroppedSilently

(* What goes to the peer is what the application passed to send().         *)
SentIsWhatWasGiven == \A i \in DOMAIN wire : wire[i].intact

=============================================================================
