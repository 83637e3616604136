# muduo-p in TLA+

Models, model checks and proofs for `src/`, a C++11 port of the muduo network
library: a *reactor* (one epoll loop per thread), a TCP server that spreads
connections over several loops, and the buffers and helpers they need.
Everything below refers to the sources under `src/src` and `src/include`.

## 1. The system

| Component | State it keeps | Operations | Interacts with |
|---|---|---|---|
| `EventLoop` | `quit_`, `callingPendingFunctors_`, `pendingFunctors_` (under `mutex_`), `activeChannels_`, the eventfd `wakeupFd_` | `loop`, `quit`, `runInLoop`, `queueInLoop`, `wakeup`, `handleRead`, `doPendingFunctors` | poller and channels by calls on its own thread; other threads through the queue, the flag and the eventfd |
| `EventLoopThread`, `Thread` | `loop_` (written under `mutex_`, tested without it), `started_`, `joined_`, `tid_`, a stack semaphore | `startLoop`, `threadFunc`, destructor; `start`, `join` | creates the thread whose local variable the `EventLoop` is |
| `EventLoopThreadPoll` | `threads_`, `loops_`, `next_` | `start`, `getNextLoop`, `getAllLoops` | owns the `EventLoopThread`s of a server |
| `EPollPoller`, `Poller`, `Channel` | `channels_` (fd to channel), the event list, per channel `events_`, `revents_`, `index_`, `tie_` | `updateChannel`, `removeChannel`, `poll`; `enableReading` ..., `handleEvent` | the kernel's interest list |
| `Buffer` | a vector and two indices | `append`, `readFd`, `writeFd`, `retrieve...` | input and output side of each connection |
| `TcpConnection` | `state_` (atomic), input and output buffer, channel, socket, callbacks | `send`, `shutdown`, `connectEstablished`, `connectDestroyed`, `handleRead/Write/Close/Error` | its loop; application threads; the peer; the server |
| `TcpServer` | `connections_`, `nextConnId_`, `started_` | `start`, `newConnection`, `removeConnection`, destructor | acceptor on the base loop, connections on the pool's loops |
| `Acceptor`, `Socket` | the listening socket and its channel | `listen`, `handleRead` | calls `TcpServer::newConnection` |
| `Logger`, `Timestamp` | `logLevel_` of one shared instance; the static `tm` of `localtime` | the `LOG_...` macros | called by every thread |
| `InetAddress`, `CurrentThread`, `DefaultPoller` | conversions, a thread-local cache, a factory | | |

What is hard in it:

* *Wakeups.* A functor queued from another thread, or by a functor that is
  running, must not wait for the poll timeout. The decision is one condition in
  `queueInLoop()` and the interplay of the swap, the flag and the eventfd.
* *Start and stop of a thread.* Who may touch `loop_`, `quit_` and the loop
  object, and when, while the loop starts, ends and is destroyed.
* *Three copies of one fact.* A channel's `index_` and `events_`, the map and
  the kernel's list, with descriptors that are closed and reused.
* *The life of a connection.* `state_` is changed by the loop and by other
  threads; output is written directly, buffered, partly written; the
  connection ends by the peer, an error or the server.
* *Index arithmetic* in `Buffer`.
* *A server over several loops.* A connection is accepted on one loop, lives on
  another, and is taken apart by both in turn; what keeps it alive meanwhile is
  a reference in a map or in a queued functor. The destructor does all that while
  the loops of the pool still run, and then stops them.
* *A logger without a lock*, whose level and time go through memory that all
  threads share.

Correct means: no wakeup is lost and functors run in order, once
(`EventLoop`); a returned loop pointer is live and `startLoop` and the destructor
return (`EventLoopThread`); kernel, map and channels agree and no ready
channel starves (`EPollPoller`); a buffer is a first-in first-out byte queue in
bounds (`Buffer`); output reaches the wire in order and before the FIN, and the
application sees UP, then data, then DOWN once (`TcpConnection`); every accepted
connection is reported up, down and released, each on its loop's thread, and gives
its descriptor back (`TcpServer`); a log line says nothing of a call that is
over (`Logger`).
`PROJECT.json` lists the hazards line by line with the properties that cover them.

## 2. Modules

`TaskQueue` (abstract) <- `EventLoop` <- composed into `EventLoopThread`;
`EPollPoller` with `EPollPoller_MC`; `Buffer`; `TcpConnection`; `Sessions`
(abstract) <- `TcpServer`; `Logger`; and the proofs: `EventLoop_proofs`,
`EventLoopThread_proofs`, `Buffer_proofs`, `EPollPoller_proofs`,
`TcpConnection_proofs` <- `TcpStream_proofs`, `TcpServer_proofs`, `Logger_proofs`.

**TaskQueue** is what a loop promises to those who hand it callbacks: a queue of
tasks, each started at most once, in order, and started unless the queue is
stopped or destroyed. A task leaves the queue only to be started, or in the one
step that destroys the queue. `EventLoop` implements it with
`queue <- functors \o pendingFunctors_` and `destroyed <- lpc = "destroyed"`.

**EventLoop** has one action per call and per step of `loop()`. `lpc` is where the
loop's thread is. A call from another thread takes two steps: the store to the
shared state, then the write to the eventfd (`waking` holds the threads in
between). The swap is one step because it is done under `mutex_`. The loop's own
thread makes calls in callbacks and, if `QueueOutsideLoop`, before and after
`loop()`. `Poll` may return with nothing at any time: the 10 s timeout and EINTR.

**EventLoopThread** instantiates `EventLoop` and conjoins its actions with those
of the owner (`opc`) and of the new thread (`tpc`): the semaphore of
`Thread::start()`, the condition variable with spurious wakeups, publication
and clearing of `loop_`, the destructor with its unlocked test. Sections under
`mutex_` are one step; `ClearLoop` and `Unlock` are two, since the lock taken
there is held to the end of `threadFunc()`. `loop_->quit()` in the destructor reads
`loop_` again (`QuitLoop`) and has the two steps of `quit()`. With
`QuitByApplication`, callbacks on the loop's thread (the initialisation callback among
them) and other threads call `quit()` too. `joined_` remembers whether the
destructor joined; if it did not, `~Thread` detaches.

**EPollPoller** models registration. `epoll_ctl` fails as the kernel's does (ADD
of a known descriptor, MOD and DEL of an unknown one), and the model remembers
that it did. Channels are created and destroyed, and `FdOf` gives two of them
the same descriptor. When more is ready than the event list holds, the kernel
chooses; `poll` doubles the list when it was full.

**Buffer** has the operators of the class (`makeSpace`, `append`, `readFd`,
`retrieve`, ...) and a state machine that applies them in any order. Bytes are
labelled with their position in the stream, so a lost, repeated or overwritten
byte shows.

**TcpConnection** models one connection. The loop is taken as what `EventLoop` is
shown to be: functors about the connection run one at a time in order (`queue`),
between the handling of one poll's events (`revents_`) and the next poll. An
event handler or functor is one atomic step; that is sound because it shares
`state_` and the queue only with other threads and uses `state_` at one place.
Application code in callbacks is steps of its own (`LoopSend`, `LoopShutdown`).
Another thread's `send()` is test (`BeginCall`), then queue (`QueueSend`); its
`shutdown()` is test, store (`StoreDisconnecting`), queue. `FreeStrings` is the
caller's string going away after `send()`: the functor only has its address.
`write` may take part of the data, nothing, or fail with EPIPE, and after a failure
`faultErrors` leaves open whether the test of `errno` still sees it, since the call
of `LOG_ERROR` in between may change it; the peer reads,
sends, closes and resets. The server removes a connection or drops it.
`overtaken` is a history variable: how many times a `shutdown()` has stored
`kDisconnecting` over `kDisconnected` (test and store are two steps in the code). What
the code does after that is modelled like the rest. `DownIsFinal` counts it;
`StreamInOrder` claims nothing after it.

**Sessions** is what a server promises the application: each connection is accepted,
up, down, released, once each and in this order, and no more than a capacity of
them are held at a time. Only a server that is being destroyed may discard one that
is not down. `TcpServer` implements it with the phase of a connection computed
from what the application was told and from the references that are left, and the
number of descriptors as capacity.

**TcpServer** composes the server, its `Acceptor`, its `EventLoopThreadPoll` and all
its connections over the base loop and the loops of the pool. A loop is taken as
what `EventLoop` is shown to be: it handles events (`Handles`) between batches of
functors (`TakeBatch`, `Calls`, `EndBatch`) and looks at `quit_` after a batch. The
functors of a batch are destroyed together at its end (`held`): until then they
keep their connections alive. Creating a loop of the pool (`CreateLoop`: `startLoop()`
returns when the loop is published) and its thread's getting into `loop()` (`EnterLoop`)
are two steps; a `quit()` in between has no effect (`QuitLoop`), as `loop()` resets the flag.
A member function or functor is one step, since
the threads share nothing but the queues; `OwnThreadOnly` checks that this is so, by
recording on which threads they run. `start()` may be called by the owner and by
another thread, any number of times and at the same time; of the counter `started_` the
model keeps whether it is zero, and `made` which of the two callers makes the loops. The clients are external, `accept()` fails when
`MaxFds` connections are alive. The destructor goes through the map, then the members
are destroyed in the reverse order of their declaration: the pool, which quits
and joins its loops one by one, and the acceptor. A pool loop that ends destroys
the functors in its queue.

**Logger** has one action per step of a `LOG_...` macro that another thread can get
in between: store the level, read it, read the clock, call `localtime()` (which lets
in one thread at a time, and writes its static buffer field by field), read the
fields in any order (they are arguments of one call), insert the line piece by
piece. A call is a process; `met` records which calls it overlapped. Two pieces
stand for the four insertions.

Every `..._Something` operator marked *Mutant* is a plausible mistake in the
definition that follows it. Nothing uses them; they show that the properties can
fail.

## 3. Runs

| Run | Instance | States | Shows |
|---|---|---|---|
| `EventLoop` | 2 threads, 3 functors, 1 channel | 8,060 | types, `NoSleepOnWork`, refinement of `TaskQueue`, and three liveness properties, none of which relies on the poll timeout |
| `EventLoopThread` | 2 user threads, 2 functors, queued inside and outside of `loop()`, destruction at any time, `quit()` by callbacks and users | 4,456 | `tid_` known; pointers live until somebody quits the loop; members outlive the thread if it was joined; `startLoop()` returns unless the loop was quit and left before it looked, the destructor too if its `quit()` comes after the loop is entered; every functor runs unless the loop is quit or destroyed, thanks to the poll timeout where nobody wakes the loop |
| `EventLoopThread_quit_lost` | 1 user thread, nobody else quits | | **violation**, see findings |
| `EventLoopThread_quit_race` | the same | | **violation**, see findings |
| `EventLoopThread_no_join` | 1 user thread, `quit()` by callbacks and users | | **violation**, see findings |
| `Buffer` | `kCheapPrepend` 2, 3 bytes initially, 3 bytes extra, 9 bytes in all | 1,239 | bounds, FIFO, growth only when compaction is not enough |
| `EPollPoller` | 3 channels on 2 descriptors, event list of 1 | 239,855 | kernel, map and channels agree; no starvation |
| `TcpConnection` | 1 other thread and the loop's thread with 1 message of 2 units each, room for 2 units in the kernel, 1 message of the peer | 534,862 | order on the wire, EPOLLOUT exactly while output waits, what the FIN follows and what it may leave behind, each crossing of the high-water mark told once; UP, data and DOWN in this order; shutdown completes, a close is reported |
| `TcpConnection_dangling` | the same | | **violation**, see findings |
| `TcpConnection_down_twice` | the same | | **violation**, see findings |
| `TcpServer` | pool of 0, 1 or 2 threads, 3 clients, 2 descriptors, any number of calls of `start()` | 117,519 | balance over the loops and one pool, no channel of a dead connection in a poller, everything on its own thread, each connection at one place of its way, refinement of `Sessions`; all clients are served, closed connections released, the destructor returns if the pool's threads had got into `loop()` |
| `Logger` | 3 calls, 2 levels, 2 fields, 2 pieces, 2 ticks, symmetric calls | 1,487,730 | lines say nothing of a call that is over; a call that is alone is exact |

Bounds. Two user threads suffice for the races of `EventLoop`: what a thread shares
with the loop is one store and one write. Three functors allow one in the batch, one
queued behind it and one queued by a running functor. The buffer sizes make every
branch of `makeSpace` and `readFd` happen, also at equality, and 9 bytes pass each of
them several times. One entry in the event list for two ready descriptors is the
smallest overflow. Messages of two units with room for two make direct writes
whole, partial or impossible, and the units of two threads' messages then go
through direct writes, the buffer and the queue in every mixture: a unit overtaken by
another thread's tears a message apart. Several messages of one thread, which the
queue keeps in order, are left to the proof of `StreamInOrder`. Three clients for two
descriptors make `accept()` fail once and succeed later; with two loops the
round robin passes its end, with none the base loop has the connections. Three
calls of the logger are one that reads, one it overlaps, and one that is over.
Named bounds in guards: `MaxConns`, `MaxTime`, `MaxStream`, `MaxSends`, `MaxLoopSends`, `MaxIncoming`; functors and channels of the
other models are used once each (`issued`, `life`).

Deadlock checking is off where the system may stop: a loop that was quit, a
thread that ended, a connection that is gone. `Buffer` and `EPollPoller` keep it on.

Fairness. `EventLoop`: the operating system runs the loop's thread and threads
inside `wakeup()`, callbacks return, and epoll_wait returns when the eventfd is
readable. Applications are under no obligation to call anything. `EventLoopThread`:
the same for both threads, and epoll_wait also returns after `kPollTimeMs`.
`EPollPoller`: the loop keeps going. `TcpConnection`: strong fairness for queued
functors, because they wait their turn between polls and every iteration runs
them (`EveryFunctorRuns` of `EventLoop`), weak fairness for polls, handlers and
threads inside the library, and one assumption about the environment: the peer reads
what it is sent. Without it no shutdown with pending output could be expected to end.
`TcpServer`: weak fairness for the threads that start and destroy the server, for new
threads to get into `loop()`, and
for the batches of each loop (`EveryFunctorRuns` and `BatchCompletes` of `EventLoop`);
strong fairness for what is ready between two batches again and again, accepting and
closing (`ReadyIsHandled` of `EPollPoller`), and for the test of `quit_`; and one
assumption about the environment: clients go away in the end. Closing and ending
are stated for all connections and loops together, as each does so at most once.
Nobody is obliged to quit the base loop, and nothing is promised once it is told to.

## 4. Proofs

All by `tlapm`, for every value of the constants that meets the `ASSUME`s of the
module.

* `EventLoop_proofs`. `TypeCorrect`: `TypeOK` is inductive. `WakeupCorrect`: so is
  `WakeupInv`, given `TypeOK` and `~QueueOutsideLoop` (with it the property is
  false, and only the poll timeout helps: `EveryFunctorRuns` of `EventLoopThread`).
  `NoSleepOnWork` alone is not inductive, as it speaks of `lpc = "poll"` only: the step into it needs to know that functors left in the
  queue outside of the part from epoll_wait's return to the swap are announced. They
  are, because a functor can only get in there from another thread, which is then
  in `waking`, or with `callingPendingFunctors_` set. `NoLostWakeup` follows.
  `Refinement`: with `TypeOK`, each action of the loop maps to `Submit`, `RunNow`,
  `RunNext`, `SetStopped`, `Discard` or a stutter of `TaskQueue`. `Destroy` alone maps to
  `Discard`, and nothing maps to a step after it.
* `Buffer_proofs`. Lemmas state what `Resized`, `MovedToFront`, `makeSpace`, `Filled`,
  `append`, `readFd` and `retrieve` do to well-formedness (`WellFormed`) and content (`Holds`).
  `TypeCorrect` (all copies within the vector), `FirstInFirstOut` and
  `GrowthJustified` follow from their conjunction, which is inductive.
* `EPollPoller_proofs`. `TypeOK`, `KernelAgrees` and `MapAgrees` are inductive
  together and not apart: that a descriptor's entry is the channel's own when
  it is used again needs the map, and the map needs that only live channels are
  in it. `ChannelLemma` reduces each operation to its own channel and descriptor.
* `Logger_proofs`. `LinesCurrent`: the key is that a call which stores a level or
  writes a field has met every call that is under way (`Met`), so that what it
  leaves in shared memory is current to all that may read it (`LevelInv`, `FieldInv`).
  `AloneCorrect`: `MixInv` says that whatever is in the output behind the first piece of a
  call that prints is by calls it has met; with `met` empty it is its own, and with
  `LinesCurrent` the level and time are too. `TypeCorrect` adds the count of the pieces.

* `EventLoopThread_proofs`. `LoopIsEventLoop`: each step of the composition is one of
  the thread alone (`ThreadOnly`), of the loop alone (`LoopOnly`), or one of the four that
  are both, and to the loop it is a step of `EventLoop` or nothing. So what
  `EventLoop_proofs` shows holds of the loop that `startLoop()` returns. `TypeOK` says where
  `loop_`, `tpc` and `lpc` agree; alone it is not inductive, as it does not know that
  nothing of the new thread is there before `start()`. `TidInv` does; it is the handshake
  (`Handshake`), and `TidStored` follows. `QuitInv` says for each place of the owner where
  the new thread may be, and that what has left `loop()` was told to quit; it holds
  whoever calls `quit()`, and gives `PointerLive` and `MembersOutlive`. What these leave open,
  members destroyed under a thread that was not joined, is the third finding.
* `TcpConnection_proofs`. `LifeCorrect`: `Types`, `Fresh` (before `connectEstablished()` has
  run it is first in the queue and nothing else has moved) and `Final` (while the state is
  `kDisconnected` the channel asks for nothing, is out of the poller, and only an EPOLLERR
  may be left to handle; after a DOWN it never asks for input; there are as many DOWNs
  as overtaking shutdowns, and one more while the state is `kDisconnected`) are inductive
  together: handlers of the same report could still append to `calls`, and a functor could
  register the channel again, if a close left anything else. `TypeCorrect` and `DownStays`
  follow. `WritingCorrect`: `WritingWhilePending` needs `Removing`, which says who may take
  a channel out of the poller that still has output: only the server's silent drop.
  `HighWater` is about steps: of the queue and the calls together, each step adds one
  announcement if the output crosses the mark in it and none otherwise; a functor leaves
  the queue only to be called.
* `TcpStream_proofs`. `StreamCorrect`. `StreamInOrder` is not inductive: that the next
  message may get in depends on what is queued. `StreamInv` has three parts. The
  messages in the queue are in line (`Lined`: whole, each thread's in the order it made
  them), always. While output flows, that is until the write side is closed, the
  connection is down or a shutdown has overtaken it, each thread's messages are in the
  stream or later in the queue (`Stream`), so that the functor that runs has the next one
  of its thread; the loop's thread never queues, so all of its own are in the stream. A
  write only moves the boundary between `wire` and `outputBuffer_`. Once it no longer
  flows, only `StreamInOrder` is left: the wire stands still, and a beginning of a stream
  in order is in order (`InOrderBeginning`). `FinWaits` (`FinAfterOutput`) combines this with
  `LifeCorrect` and `WritingCorrect`: when the FIN is sent nothing is buffered, so a message
  that was accepted is on the wire or still in a functor of another thread.
* `TcpServer_proofs`. `Inv` is the table of `OnePlace`, extended to a server that is being
  destroyed: whatever is still to be done for a connection is queued in the loop that
  has to do it, if that loop still has a poller (`Placed`). It needs that a batch is the
  front of the queue of a loop that runs (`RunOK`), that the pool is complete before
  anything is accepted (`PoolOK`), that one caller of `start()` makes all of its loops (`StartOK`), that functors are in the right queue and two of one
  connection are `connectEstablished()` and then `connectDestroyed()` (`QueueOK`), and that
  the state is what the application was told (`StateAgrees`). `TypeCorrect`, `OwnThread`,
  `NoDangling` and `OnePlaceOnly` follow. `EvenlySpread` is by an invariant of its own: the
  loops are dealt in turn, so the loads are what `next_` says. `Refinement`: with `Inv`, and
  with whom a batch holds having been accepted, each step maps to `Accept`, `ReportUp`, `ReportDown`,
  `Release`, `Discard`, `Stop` or a stutter of `Sessions`.

Every invariant, every action property and every refinement that a run checks is
so stated by a theorem. Model-checked only, because liveness under fairness is out of
the prover's reach: `EveryFunctorRuns`, `BatchCompletes` and `QuitEndsRunningLoop` of
`EventLoop`; `StartLoopReturns`, `DestructorReturns` and `EveryFunctorRuns` of
`EventLoopThread`; `ReadyIsHandled` of `EPollPoller`; `ShutdownCompletes` and
`CloseReported` of `TcpConnection`; `EveryClientServed`, `ClosedIsReleased` and
`DestructorReturns` of `TcpServer`. `ImplementsTaskQueue` and `ImplementsSessions` are stated
of the specifications without fairness, which is all that they ask for.

## 5. Findings

* **A quit before `loop()` is lost** (`EventLoop.cpp:66`, run
  `EventLoopThread_quit_lost`). `loop()` resets `quit_`. An `EventLoopThread` destroyed right
  after `startLoop()` may call `quit()` before that line and then join for ever.
* **`quit()` touches a loop that may be gone** (`EventLoop.cpp:95`, run
  `EventLoopThread_quit_race`). After `quit_` is stored the loop can end and be destroyed before
  the `wakeup()` of the same call; the destructor of `EventLoopThread` does this itself.
* **The missing join** (`EventLoopThread.cpp:18`, run `EventLoopThread_no_join`). A loop
  that a callback or another thread has quit sets `loop_` to nullptr, and the destructor,
  which joins only if it finds it set, destroys `mutex_` and `cond_` while the thread is
  still in `threadFunc()`.
* **`send()` from another thread keeps a pointer into the caller's string**
  (`TcpConnection.cpp:64`, run `TcpConnection_dangling`).
* **A second DOWN** (`TcpConnection.cpp:135`, run `TcpConnection_down_twice`). A `shutdown()`
  on another thread whose test and store enclose the close leaves `kDisconnecting` in a
  dead connection; a `sendInLoop()` still queued then registers the channel again, and its
  next event closes the connection once more.

Cases that the passing runs contain and their properties name, without a run of their
own: a loop that is quit and left before the owner has looked leaves `startLoop()` waiting
for ever (the exception in `StartLoopReturns`); the pointer that the destructor tests can be
null when it calls `quit()` through it (`LoopPointerLive`: after a `quit()` by somebody else
only); a message that another thread queued is written after the FIN, though
`TcpConnection.cpp:77` says that nothing is sent after `shutdown()` (its test is for
`kDisconnected`; the exception in `FinAfterOutput`); calls of the logger that overlap print
each other's level and time (`LineIsCurrent` lets them, and nobody else); a server whose
destructor comes before a pool thread is in `loop()` loses that `quit()`, as in the first
finding (the condition of `DestructorReturns`).

Met while modelling, and outside of the properties: a server
destroyed during a shutdown never says DOWN for that connection, and one that is
destroyed while a loop of its pool has quit already says it for none of that
loop's (`Discard` in `Sessions`); a loop that handles a close while the server is being
destroyed leaves a functor with a pointer to the server in the base loop, which must
not run again; pieces of lines of calls of the logger that overlap mix; `Acceptor`'s
constructor sets SO_REUSEPORT whatever its argument says
(`Acceptor.cpp:29`, `kNoReusePort` is the default).

## 6. Not modelled

References to a `TcpConnection` that the application keeps, and the raw `this` in the
functors of `send()` and `shutdown()`: what keeps the connection alive is then up
to the application, and it is assumed to hold a `TcpConnectionPtr` while its calls are
in flight. `tie()`: in `TcpServer` no poller knows a channel of a connection that is gone,
so that the weak pointer always locks. A server that is destroyed while its base
loop runs: the code asks for that nowhere, and the example destroys it after
`loop()`. A base loop that is run again after it has ended. A second
`EventLoop` in a thread, which the code only logs. `InetAddress`, `CurrentThread`,
`DefaultPoller` and `Callbacks` are conversions, a cache, a factory and names; `Socket`'s
options are single system calls. Of `errno` the models keep what is tested: a failed
write is EPIPE (or ECONNRESET) or else treated like EAGAIN, as the code does.
SIGPIPE is taken to be ignored by the application. What is formatted into a log
line, and that it is cut at 1023 bytes, is left out.

## 7. Plan

1. `TcpConnection`: an abstract byte stream that it refines, of which `StreamInOrder` is
   then a consequence.
2. Consequences of `Sessions` and `TaskQueue` proved once for all that implement them.
