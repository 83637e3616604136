----------------------------- MODULE TcpServer -----------------------------
(***************************************************************************)
(* One TcpServer from its construction to its destruction, with the        *)
(* Acceptor, the EventLoopThreadPoll, and every TcpConnection it accepts:  *)
(* the owner's thread, which is the thread of the base loop, the threads   *)
(* of the pool, another thread that may call start(), and the clients.     *)
(*                                                                         *)
(* A loop is what EventLoop is shown to be: it takes the functors queued   *)
(* so far as a batch and runs them in order, handles events between two    *)
(* batches, and looks at quit_ after a batch.  A functor or an event       *)
(* handler is one step: what it shares with other threads is the queue it  *)
(* appends to.  A connection is alive as long as a TcpConnectionPtr to it  *)
(* is left, in connections_, in a functor that is queued, or in one of the *)
(* batch, which lasts until the batch does; the application keeps none.    *)
(***************************************************************************)
EXTENDS Integers, Sequences, SequencesExt, FiniteSets

CONSTANTS
    MaxThreads,   \* setThreadNum() is called with 0 .. MaxThreads
    MaxConns,     \* clients that connect
    MaxFds        \* descriptors there are for accepted sockets

ASSUME TcpServerAssumption ==
    /\ MaxThreads \in Nat /\ MaxConns \in Nat
    /\ MaxFds \in Nat \ {0}

VARIABLES
    opc,            \* where the owner's thread is, see OwnerControl
    spc,            \* the other thread: "idle", or "start" (inside start())
    started_,       \* is the counter of start() calls above zero ?
    numThreads_,
    loops_,
    made,           \* loops that each caller of start() has created
    quits,          \* loops that ~EventLoopThread has told to quit
    next_,
    listening_,     \* the acceptor's channel is registered
    backlog,        \* clients that wait to be accepted
    nextConnId_,
    connections_,
    ioLoop,         \* the loop of each connection
    state_,
    registered,     \* what the poller knows of its channel
    told,           \* what the application was told about it
    ran,            \* threads its member functions ran on
    mapUsers,       \* threads that have changed connections_
    peer,           \* "open" or "closed"
    loopState,      \* of each loop, see LoopControl
    queue,          \* functors queued in it, with those of the batch in front
    batch,          \* functors of the batch still to run
    held,           \* connections of those that have run
    dispatching     \* it has handled an event since the last batch

poolVars == <<spc, started_, numThreads_, loops_, made, quits>>
acceptVars == <<listening_, backlog, nextConnId_, next_, ioLoop>>
mapVars == <<connections_, mapUsers>>
connVars == <<state_, registered, told, ran>>
loopVars == <<loopState, queue, batch, held, dispatching>>
vars == <<opc, poolVars, acceptVars, mapVars, connVars, peer, loopVars>>

Base == 0
SubLoops == 1 .. MaxThreads
Loops == {Base} \cup SubLoops
Conns == 1 .. MaxConns

OwnerControl == {"setup",  \* the server is constructed
                 "start",  \* inside start(), creating the pool
                 "loop",   \* in the base loop's loop()
                 "looped", \* loop() has returned
                 "dtor",   \* in the body of ~TcpServer
                 "pool",   \* destroying threadPool_
                 "gone",   \* the server is destroyed
                 "end"}    \* and so is the base loop

LoopControl == {"none",      \* not created, or loop() not called
                "published", \* startLoop() has it, its thread is not yet in loop()
                "running",
                "quitting",  \* quit_ is set
                "ended"}     \* loop() has returned

Callers == {"owner", "other"}

Functor(fn, c) == [fn |-> fn, conn |-> c]
Push(q, l, functor) == [q EXCEPT ![l] = Append(@, functor)]
Pop(l) == [queue EXCEPT ![l] = Tail(@)]

Accepted == 1 .. nextConnId_ - 1
Pending(l, functor) == functor \in ToSet(queue[l])

(* Is a TcpConnectionPtr to c left ?                                       *)
Alive(c) ==
    \/ c \in connections_
    \/ \E l \in Loops : \/ \E i \in DOMAIN queue[l] : queue[l][i].conn = c
                       \/ c \in held[l]
Released(c) == c \in Accepted /\ ~Alive(c)

(* ~TcpConnection closes the socket.                                       *)
FdsInUse == Cardinality({c \in Accepted : Alive(c)})

Init ==
    /\ opc = "setup" /\ spc = "idle"
    /\ started_ = FALSE
    /\ numThreads_ \in 0 .. MaxThreads
    /\ loops_ = <<>> /\ next_ = 0
    /\ made = [caller \in Callers |-> 0] /\ quits = 0
    /\ listening_ = FALSE /\ backlog = 0
    /\ nextConnId_ = 1
    /\ connections_ = {}
    /\ ioLoop = [c \in Conns |-> Base]
    /\ state_ = [c \in Conns |-> "kConnecting"]
    /\ registered = [c \in Conns |-> "no"]
    /\ told = [c \in Conns |-> <<>>]
    /\ ran = [c \in Conns |-> {}]
    /\ mapUsers = {}
    /\ peer = [c \in Conns |-> "open"]
    /\ loopState = [l \in Loops |-> "none"]
    /\ queue = [l \in Loops |-> <<>>]
    /\ batch = [l \in Loops |-> 0]
    /\ held = [l \in Loops |-> {}]
    /\ dispatching = [l \in Loops |-> FALSE]

-----------------------------------------------------------------------------
(* start(), on the owner's thread before loop(), or on another thread.     *)

(* The first call goes on to create the pool.                              *)
StartByOwner ==
    /\ opc = "setup"
    /\ started_' = TRUE
    /\ opc' = IF started_ THEN opc ELSE "start"
    /\ UNCHANGED <<spc, numThreads_, loops_, made, quits, acceptVars, mapVars,
                   connVars, peer, loopVars>>

(* Mutant: every call goes on.                                             *)
StartByOther_EveryCall ==
    /\ spc = "idle" /\ opc \in {"setup", "start", "loop"}
    /\ started_' = TRUE
    /\ spc' = "start"
    /\ UNCHANGED <<opc, numThreads_, loops_, made, quits, acceptVars, mapVars,
                   connVars, peer, loopVars>>

StartByOther ==
    /\ spc = "idle" /\ opc \in {"setup", "start", "loop"}
    /\ started_' = TRUE
    /\ spc' = IF started_ THEN spc ELSE "start"
    /\ UNCHANGED <<opc, numThreads_, loops_, made, quits, acceptVars, mapVars,
                   connVars, peer, loopVars>>

Starting(caller) == IF caller = "owner" THEN opc = "start" ELSE spc = "start"

(* EventLoopThreadPoll::start(), one round of it: startLoop() returns when *)
(* the new thread has published its loop.                                  *)
CreateLoop ==
    /\ \E caller \in Callers :
          /\ Starting(caller)
          /\ made[caller] < numThreads_
          /\ made' = [made EXCEPT ![caller] = @ + 1]
    /\ loops_' = Append(loops_, Len(loops_) + 1)
    /\ loopState' = [loopState EXCEPT ![Len(loops_')] = "published"]
    /\ UNCHANGED <<opc, spc, started_, numThreads_, quits, acceptVars, mapVars,
                   connVars, peer, queue, batch, held, dispatching>>

(* The new thread calls loop().                                            *)
EnterLoop(l) ==
    /\ loopState[l] = "published"
    /\ loopState' = [loopState EXCEPT ![l] = "running"]
    /\ UNCHANGED <<opc, poolVars, acceptVars, mapVars, connVars, peer, queue, batch,
                   held, dispatching>>

(* The rest of start(): runInLoop(&Acceptor::listen), on the spot on the   *)
(* owner's thread.                                                         *)
ListenByOwner ==
    /\ Starting("owner") /\ made["owner"] = numThreads_
    /\ opc' = "setup"
    /\ listening_' = TRUE
    /\ UNCHANGED <<poolVars, backlog, nextConnId_, next_, ioLoop, mapVars,
                   connVars, peer, loopVars>>

ListenByOther ==
    /\ Starting("other") /\ made["other"] = numThreads_
    /\ spc' = "idle"
    /\ queue' = Push(queue, Base, Functor("listen", 0))
    /\ UNCHANGED <<opc, started_, numThreads_, loops_, made, quits, acceptVars,
                   mapVars, connVars, peer, loopState, batch, held, dispatching>>

(* The owner calls loop() on the base loop.                                *)
RunBaseLoop ==
    /\ opc = "setup"
    /\ opc' = "loop"
    /\ loopState' = [loopState EXCEPT ![Base] = "running"]
    /\ UNCHANGED <<poolVars, acceptVars, mapVars, connVars, peer, queue, batch,
                   held, dispatching>>

-----------------------------------------------------------------------------
(* The clients, and what the application does to a connection.             *)

ClientConnects ==
    /\ listening_
    /\ nextConnId_ + backlog <= MaxConns
    /\ backlog' = backlog + 1
    /\ UNCHANGED <<opc, poolVars, listening_, nextConnId_, next_, ioLoop, mapVars,
                   connVars, peer, loopVars>>

PeerCloses(c) ==
    /\ c \in Accepted
    /\ peer[c] = "open"
    /\ peer' = [peer EXCEPT ![c] = "closed"]
    /\ UNCHANGED <<opc, poolVars, acceptVars, mapVars, connVars, loopVars>>

-----------------------------------------------------------------------------
(* The parts of the loop's iteration.                                      *)

Runs(l) == loopState[l] \in {"running", "quitting"}

(* Between two batches, where events are handled and quit_ is tested.      *)
BetweenBatches(l) == Runs(l) /\ batch[l] = 0 /\ held[l] = {}

(* The loop handles an event of one of its channels.                       *)
Handles(l) ==
    /\ BetweenBatches(l)
    /\ dispatching' = [dispatching EXCEPT ![l] = TRUE]
    /\ UNCHANGED <<loopState, batch, held>>

(* doPendingFunctors() takes a batch ...                                   *)
TakeBatch(l) ==
    /\ BetweenBatches(l)
    /\ queue[l] # <<>> \/ dispatching[l]
    /\ batch' = [batch EXCEPT ![l] = Len(queue[l])]
    /\ dispatching' = [dispatching EXCEPT ![l] = FALSE]
    /\ UNCHANGED <<opc, poolVars, acceptVars, mapVars, connVars, peer, loopState,
                   queue, held>>

(* ... calls the functors of it ...                                        *)
Calls(l, fn) ==
    /\ batch[l] > 0
    /\ Head(queue[l]).fn = fn
    /\ batch' = [batch EXCEPT ![l] = @ - 1]
    /\ held' = [held EXCEPT ![l] = @ \cup {Head(queue[l]).conn}]
    /\ UNCHANGED <<loopState, dispatching>>

(* ... and destroys them together at the end.                              *)
EndBatch(l) ==
    /\ batch[l] = 0 /\ held[l] # {}
    /\ held' = [held EXCEPT ![l] = {}]
    /\ UNCHANGED <<opc, poolVars, acceptVars, mapVars, connVars, peer, loopState,
                   queue, batch, dispatching>>

-----------------------------------------------------------------------------
(* Member functions, called on the thread of loop t.                       *)

connectEstablished(c, t) ==
    /\ state_' = [state_ EXCEPT ![c] = "kConnected"]
    /\ registered' = [registered EXCEPT ![c] = "enabled"]
    /\ told' = [told EXCEPT ![c] = Append(@, "UP")]
    /\ ran' = [ran EXCEPT ![c] = @ \cup {t}]

(* Mutant: reports the end again.                                          *)
connectDestroyed_Tells(c, t) ==
    /\ state_' = [state_ EXCEPT ![c] = "kDisconnected"]
    /\ told' = [told EXCEPT ![c] = Append(@, "DOWN")]
    /\ registered' = [registered EXCEPT ![c] = "no"]
    /\ ran' = [ran EXCEPT ![c] = @ \cup {t}]

connectDestroyed(c, t) ==
    /\ IF state_[c] = "kConnected"
         THEN /\ state_' = [state_ EXCEPT ![c] = "kDisconnected"]
              /\ told' = [told EXCEPT ![c] = Append(@, "DOWN")]
         ELSE UNCHANGED <<state_, told>>
    /\ registered' = [registered EXCEPT ![c] = "no"]
    /\ ran' = [ran EXCEPT ![c] = @ \cup {t}]

(* handleClose() up to closeCallback_.                                     *)
handleClose(c, t) ==
    /\ state_' = [state_ EXCEPT ![c] = "kDisconnected"]
    /\ registered' = [registered EXCEPT ![c] = "disabled"]
    /\ told' = [told EXCEPT ![c] = Append(@, "DOWN")]
    /\ ran' = [ran EXCEPT ![c] = @ \cup {t}]

(* Mutants: next_ goes one too far; it wraps around one loop too early.    *)
getNextLoop_LateWrap ==
    IF loops_ = <<>> THEN [loop |-> Base, next |-> next_]
    ELSE [loop |-> loops_[next_ + 1],
          next |-> IF next_ + 1 > Len(loops_) THEN 0 ELSE next_ + 1]
getNextLoop_EarlyWrap ==
    IF loops_ = <<>> THEN [loop |-> Base, next |-> next_]
    ELSE [loop |-> loops_[next_ + 1],
          next |-> IF next_ + 1 >= Len(loops_) - 1 THEN 0 ELSE next_ + 1]

(* The loop for the next connection, and next_ after it.                   *)
getNextLoop ==
    IF loops_ = <<>> THEN [loop |-> Base, next |-> next_]
    ELSE [loop |-> loops_[next_ + 1],
          next |-> IF next_ + 1 >= Len(loops_) THEN 0 ELSE next_ + 1]

(* newConnection(), on the base loop: connectEstablished() runs there on   *)
(* the spot if the connection is the base loop's own.                      *)
newConnection ==
    LET c == nextConnId_
        io == getNextLoop.loop
    IN /\ next_' = getNextLoop.next
       /\ nextConnId_' = c + 1
       /\ ioLoop' = [ioLoop EXCEPT ![c] = io]
       /\ connections_' = connections_ \cup {c}
       /\ mapUsers' = mapUsers \cup {Base}
       /\ IF io = Base
            THEN connectEstablished(c, Base) /\ UNCHANGED queue
            ELSE /\ queue' = Push(queue, io, Functor("connectEstablished", c))
                 /\ UNCHANGED connVars

(* Mutants: the map keeps the connection; nobody destroys it.              *)
removeConnectionInLoop_Kept(c, t, q) ==
    /\ queue' = Push(q, ioLoop[c], Functor("connectDestroyed", c))
    /\ UNCHANGED mapVars
removeConnectionInLoop_NotDestroyed(c, t, q) ==
    /\ connections_' = connections_ \ {c}
    /\ mapUsers' = mapUsers \cup {t}
    /\ queue' = q

(* removeConnectionInLoop(c), with q what else is queued.                  *)
removeConnectionInLoop(c, t, q) ==
    /\ connections_' = connections_ \ {c}
    /\ mapUsers' = mapUsers \cup {t}
    /\ queue' = Push(q, ioLoop[c], Functor("connectDestroyed", c))

(* Mutants: it runs on the thread that calls it; it does nothing.          *)
removeConnection_OnCaller(c, t) == removeConnectionInLoop(c, t, queue)
removeConnection_Forgotten(c, t) == UNCHANGED <<queue, mapVars>>

(* removeConnection(c): runInLoop() on the base loop.                      *)
removeConnection(c, t) ==
    IF t = Base THEN removeConnectionInLoop(c, t, queue)
    ELSE /\ queue' = Push(queue, Base, Functor("removeConnectionInLoop", c))
         /\ UNCHANGED mapVars

-----------------------------------------------------------------------------
(* What a loop runs.                                                       *)

(* Acceptor::listen().                                                     *)
Listen ==
    /\ Calls(Base, "listen")
    /\ queue' = Pop(Base)
    /\ listening_' = TRUE
    /\ UNCHANGED <<opc, poolVars, backlog, nextConnId_, next_, ioLoop, mapVars,
                   connVars, peer>>

(* Acceptor::handleRead(): accept() has a descriptor for the client ...    *)
AcceptOne ==
    /\ Handles(Base)
    /\ listening_ /\ backlog > 0
    /\ FdsInUse < MaxFds
    /\ backlog' = backlog - 1
    /\ newConnection
    /\ UNCHANGED <<opc, poolVars, listening_, peer>>

(* ... or fails with EMFILE: the client stays in the backlog, and the      *)
(* listening socket readable.                                              *)
AcceptFails ==
    /\ Handles(Base)
    /\ listening_ /\ backlog > 0
    /\ FdsInUse = MaxFds
    /\ UNCHANGED <<opc, poolVars, acceptVars, mapVars, connVars, peer, queue>>

ConnectEstablished(l) ==
    /\ Calls(l, "connectEstablished")
    /\ connectEstablished(Head(queue[l]).conn, l)
    /\ queue' = Pop(l)
    /\ UNCHANGED <<opc, poolVars, acceptVars, mapVars, peer>>

RemoveConnectionInLoop ==
    /\ Calls(Base, "removeConnectionInLoop")
    /\ removeConnectionInLoop(Head(queue[Base]).conn, Base, Pop(Base))
    /\ UNCHANGED <<opc, poolVars, acceptVars, connVars, peer>>

ConnectDestroyed(l) ==
    /\ Calls(l, "connectDestroyed")
    /\ connectDestroyed(Head(queue[l]).conn, l)
    /\ queue' = Pop(l)
    /\ UNCHANGED <<opc, poolVars, acceptVars, mapVars, peer>>

(* The end of the stream of c is read.                                     *)
HandleClose(c) ==
    /\ Handles(ioLoop[c])
    /\ registered[c] = "enabled"
    /\ peer[c] = "closed"
    /\ handleClose(c, ioLoop[c])
    /\ removeConnection(c, ioLoop[c])
    /\ UNCHANGED <<opc, poolVars, acceptVars, peer>>

(* A message of c arrives, and the application answers with shutdown().    *)
HandleMessage(c) ==
    /\ Handles(ioLoop[c])
    /\ registered[c] = "enabled"
    /\ state_[c] = "kConnected"
    /\ state_' = [state_ EXCEPT ![c] = "kDisconnecting"]
    /\ UNCHANGED <<opc, poolVars, acceptVars, mapVars, registered, told, ran,
                   peer, queue>>

CallFunctor(l) ==
    ConnectEstablished(l) \/ ConnectDestroyed(l) \/ (l = Base /\ (Listen \/ RemoveConnectionInLoop))

(* while(!quit_): loop() returns.  A loop of the pool is then destroyed,   *)
(* with the functors it has not run.                                       *)
EndLoop(l) ==
    /\ loopState[l] = "quitting"
    /\ BetweenBatches(l) /\ ~dispatching[l]
    /\ loopState' = [loopState EXCEPT ![l] = "ended"]
    /\ opc' = IF l = Base THEN "looped" ELSE opc
    /\ queue' = IF l = Base THEN queue ELSE [queue EXCEPT ![l] = <<>>]
    /\ UNCHANGED <<poolVars, acceptVars, mapVars, connVars, peer, batch, held,
                   dispatching>>

(* The application calls quit() on the base loop.                          *)
QuitBaseLoop ==
    /\ loopState[Base] = "running"
    /\ loopState' = [loopState EXCEPT ![Base] = "quitting"]
    /\ UNCHANGED <<opc, poolVars, acceptVars, mapVars, connVars, peer, queue,
                   batch, held, dispatching>>

-----------------------------------------------------------------------------
(* ~TcpServer, on the owner's thread, when the base loop does not run and  *)
(* nobody is inside start().                                               *)

Destructor ==
    /\ opc \in {"setup", "looped"}
    /\ spc = "idle"
    /\ opc' = "dtor"
    /\ UNCHANGED <<poolVars, acceptVars, mapVars, connVars, peer, loopVars>>

(* Each connection leaves the map; runInLoop(connectDestroyed).            *)
DropConnection(c) ==
    /\ opc = "dtor"
    /\ c \in connections_
    /\ connections_' = connections_ \ {c}
    /\ mapUsers' = mapUsers \cup {Base}
    /\ IF ioLoop[c] = Base
         THEN connectDestroyed(c, Base) /\ UNCHANGED queue
         ELSE /\ queue' = Push(queue, ioLoop[c], Functor("connectDestroyed", c))
              /\ UNCHANGED connVars
    /\ UNCHANGED <<opc, poolVars, acceptVars, peer, loopState, batch, held,
                   dispatching>>

(* The body is done, the members follow: threadPool_ ...                   *)
DestroyPool ==
    /\ opc = "dtor"
    /\ connections_ = {}
    /\ opc' = "pool"
    /\ UNCHANGED <<poolVars, acceptVars, mapVars, connVars, peer, loopVars>>

Ended(i) == loopState[loops_[i]] = "ended"

(* Mutant: joins without quit().                                           *)
QuitLoop_Forgotten(i) == FALSE /\ UNCHANGED vars

(* ... whose threads are told to quit and joined one after the other - a   *)
(* thread that is not yet in loop() forgets it was told -                  *)
QuitLoop(i) ==
    /\ opc = "pool"
    /\ i = quits + 1
    /\ \A j \in 1 .. quits : Ended(j)
    /\ quits' = i
    /\ loopState' = [loopState EXCEPT ![loops_[i]] =
                        IF @ = "running" THEN "quitting" ELSE @]
    /\ UNCHANGED <<opc, spc, started_, numThreads_, loops_, made, acceptVars, mapVars,
                   connVars, peer, queue, batch, held, dispatching>>

(* ... and acceptor_, whose channel leaves the base loop's poller.         *)
DestroyAcceptor ==
    /\ opc = "pool"
    /\ \A i \in DOMAIN loops_ : Ended(i)
    /\ opc' = "gone"
    /\ listening_' = FALSE
    /\ backlog' = 0
    /\ UNCHANGED <<poolVars, nextConnId_, next_, ioLoop, mapVars, connVars, peer,
                   loopVars>>

(* The base loop outlives the server and does not run again.               *)
DestroyBaseLoop ==
    /\ opc = "gone"
    /\ opc' = "end"
    /\ queue' = [queue EXCEPT ![Base] = <<>>]
    /\ UNCHANGED <<poolVars, acceptVars, mapVars, connVars, peer, loopState,
                   batch, held, dispatching>>

OwnerStep ==
    \/ \E c \in Conns : DropConnection(c)
    \/ DestroyPool
    \/ \E i \in DOMAIN loops_ : QuitLoop(i)
    \/ DestroyAcceptor
    \/ DestroyBaseLoop

-----------------------------------------------------------------------------
RunBatch(l) == TakeBatch(l) \/ CallFunctor(l) \/ EndBatch(l)
StartStep == CreateLoop \/ ListenByOwner \/ ListenByOther

Next ==
    \/ StartByOwner \/ StartByOther \/ StartStep
    \/ RunBaseLoop \/ QuitBaseLoop
    \/ ClientConnects
    \/ \E c \in Conns : PeerCloses(c) \/ HandleMessage(c) \/ HandleClose(c)
    \/ AcceptOne \/ AcceptFails
    \/ \E l \in Loops : EnterLoop(l) \/ RunBatch(l) \/ EndLoop(l)
    \/ Destructor \/ OwnerStep

SafeSpec == Init /\ [][Next]_vars

(* The threads are scheduled and their loops iterate: a batch is taken and *)
(* run to its end (EventLoop: EveryFunctorRuns, BatchCompletes), what is   *)
(* ready between batches again and again is handled (EPollPoller:          *)
(* ReadyIsHandled), quit_ is seen.  Clients go away in the end.            *)
Spec ==
    /\ SafeSpec
    /\ WF_vars(StartStep)
    /\ WF_vars(OwnerStep)
    /\ \A l \in Loops : WF_vars(RunBatch(l))
    /\ WF_vars(\E l \in Loops : EnterLoop(l))
    /\ SF_vars(\E l \in Loops : EndLoop(l))
    /\ SF_vars(AcceptOne)
    /\ SF_vars(\E c \in Conns : HandleClose(c))
    /\ WF_vars(\E c \in Conns : PeerCloses(c))

-----------------------------------------------------------------------------
Destroying == opc \in {"dtor", "pool", "gone", "end"}
Down(c) == told[c] = <<"UP", "DOWN">>

(* The types; the batch is the front of the queue; and the state of a      *)
(* connection, what its channel is registered for and what the application *)
(* was told agree.                                                         *)
TypeOK ==
    /\ opc \in OwnerControl /\ spc \in {"idle", "start"}
    /\ started_ \in BOOLEAN
    /\ numThreads_ \in 0 .. MaxThreads
    /\ loops_ = [i \in 1 .. Len(loops_) |-> i] /\ Len(loops_) <= numThreads_
    /\ made \in [Callers -> 0 .. numThreads_] /\ quits \in 0 .. Len(loops_)
    /\ next_ \in Nat /\ (loops_ # <<>> => next_ < Len(loops_))
    /\ listening_ \in BOOLEAN /\ backlog \in 0 .. MaxConns
    /\ nextConnId_ \in 1 .. MaxConns + 1
    /\ connections_ \subseteq Accepted
    /\ ioLoop \in [Conns -> Loops]
    /\ state_ \in [Conns -> {"kConnecting", "kConnected", "kDisconnecting",
                             "kDisconnected"}]
    /\ registered \in [Conns -> {"no", "enabled", "disabled"}]
    /\ told \in [Conns -> {<<>>, <<"UP">>, <<"UP", "DOWN">>}]
    /\ ran \in [Conns -> SUBSET Loops] /\ mapUsers \subseteq Loops
    /\ peer \in [Conns -> {"open", "closed"}]
    /\ loopState \in [Loops -> LoopControl]
    /\ \A l \in Loops : batch[l] \in 0 .. Len(queue[l])
    /\ held \in [Loops -> SUBSET (Conns \cup {0})]
    /\ dispatching \in [Loops -> BOOLEAN]
    /\ \A c \in Conns : /\ state_[c] = "kConnecting" <=> told[c] = <<>>
                        /\ state_[c] = "kDisconnected" <=> Down(c)
                        /\ registered[c] = "enabled" => told[c] = <<"UP">>

(* Connections are spread over the pool's loops as evenly as they can be,  *)
(* and the base loop gets one only if there is no pool - so the pool is    *)
(* complete before the first of them, and stays as it is: start() creates  *)
(* it once, whoever calls it again and while it does.                      *)
Balanced ==
    LET load(l) == Cardinality({c \in Accepted : ioLoop[c] = l})
    IN /\ \A i, j \in DOMAIN loops_ : load(loops_[i]) <= load(loops_[j]) + 1
       /\ numThreads_ > 0 => load(Base) = 0

(* A poller that exists knows no channel of a connection that is gone.     *)
PollerExists(l) ==
    IF l = Base THEN opc # "end" ELSE loopState[l] = "published" \/ Runs(l)
NoDanglingChannel ==
    \A c \in Accepted : registered[c] # "no" /\ PollerExists(ioLoop[c]) => Alive(c)

(* Nothing but the queues is shared: the member functions of a connection  *)
(* run on the thread of its loop, and the server's map is changed on the   *)
(* thread of the base loop, whoever caused it.                             *)
OwnThreadOnly ==
    /\ \A c \in Accepted : ran[c] \subseteq {ioLoop[c]}
    /\ mapUsers \subseteq {Base}

(* Until the server is destroyed, each connection accepted is at exactly   *)
(* one place on its way: in the map with connectEstablished() still queued,*)
(* in the map and up, in the map with its removal queued on the base loop, *)
(* out of the map with its destruction queued on its own loop, or released *)
(* with the poller's and the map's knowledge of it gone.  Nor is a functor *)
(* about it in a queue twice.                                              *)
OnePlace ==
    ~Destroying => \A c \in Accepted :
      /\ \A l \in Loops : \A i, j \in DOMAIN queue[l] :
            queue[l][i].conn = c /\ queue[l][j].conn = c => i = j
      /\ LET places == {p \in Loops \X {"connectEstablished",
                            "removeConnectionInLoop", "connectDestroyed"} :
                            Pending(p[1], Functor(p[2], c))}
         IN CASE told[c] = <<>> -> /\ c \in connections_
                                   /\ places = {<<ioLoop[c], "connectEstablished">>}
              [] told[c] = <<"UP">> -> c \in connections_ /\ places = {}
              [] Down(c) /\ c \in connections_
                   -> places = {<<Base, "removeConnectionInLoop">>}
              [] OTHER -> \/ places = {<<ioLoop[c], "connectDestroyed">>}
                          \/ places = {} /\ registered[c] = "no"

(* To the application the server is what Sessions says, with as many       *)
(* connections at a time as there are descriptors.                         *)
PhaseOf(c) ==
    CASE c \notin Accepted -> "none"
      [] Released(c) -> "released"
      [] Alive(c) /\ told[c] = <<>> -> "accepted"
      [] Alive(c) /\ told[c] = <<"UP">> -> "up"
      [] Alive(c) /\ told[c] = <<"UP", "DOWN">> -> "down"
      [] OTHER -> "error"

Abstract == INSTANCE Sessions WITH
    Connection <- Conns,
    Capacity <- MaxFds,
    phase <- [c \in Conns |-> PhaseOf(c)],
    stopping <- Destroying

ImplementsSessions == Abstract!Spec

(* The clients that connect are all accepted, even when descriptors have   *)
(* run out for a while: those of closed connections come back.             *)
EveryClientServed == backlog > 0 ~> backlog = 0 \/ loopState[Base] # "running"

(* A connection whose peer has closed is released: through the loop it     *)
(* belongs to, the base loop, and its own again.                           *)
Closed == {c \in Accepted : peer[c] = "closed" /\ ~Released(c)}
ClosedIsReleased == Closed # {} ~> Closed = {} \/ loopState[Base] # "running"

(* ~TcpServer returns, with every loop of the pool ended, and nothing of a *)
(* connection outlives the base loop.  (Claimed of a pool whose threads are*)
(* in loop() when the destructor begins: one that is not may lose the      *)
(* quit(), and then join() waits for ever - EventLoopThread_quit_lost.)    *)
DestructorReturns ==
    opc = "dtor" /\ (\A i \in DOMAIN loops_ : loopState[loops_[i]] # "published")
                 ~> /\ opc = "end"
                    /\ \A i \in DOMAIN loops_ : Ended(i)
                    /\ \A c \in Accepted : Released(c)

=============================================================================
