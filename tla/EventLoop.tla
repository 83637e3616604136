----------------------------- MODULE EventLoop -----------------------------
(***************************************************************************)
(* One EventLoop: the thread that owns it and runs loop(), and any number  *)
(* of other threads that call queueInLoop(), runInLoop() and quit() on it. *)
(*                                                                         *)
(* A cross-thread call has two visible steps: the store to shared state    *)
(* (pendingFunctors_ under mutex_, or the atomic quit_), and later the     *)
(* write to the eventfd; between them the thread is in "waking".  The      *)
(* eventfd is the boolean wakeupFd_: it is readable or it is not.          *)
(*                                                                         *)
(* looping_ is left out: it is assigned once and never read.               *)
(***************************************************************************)
EXTENDS Sequences, SequencesExt

CONSTANTS
    Threads,           \* threads that use the loop, other than its own
    LoopThread,        \* the thread the loop was created in (threadId_)
    Functors,          \* callbacks; each value stands for one call's argument
    Channels,          \* channels registered by the application
    QueueOutsideLoop   \* may LoopThread call queueInLoop outside of loop() ?

ASSUME EventLoopAssumption ==
    /\ LoopThread \notin Threads
    /\ QueueOutsideLoop \in BOOLEAN

VARIABLES
    lpc,                      \* where LoopThread is, see LoopControl
    quit_,
    callingPendingFunctors_,
    pendingFunctors_,         \* callbacks queued for the loop
    functors,                 \* the batch doPendingFunctors() is running
    activeChannels_,          \* what poll() reported and is not handled yet
    wakeupFd_,                \* the eventfd has an unread wakeup
    waking,                   \* threads between their store and their wakeup()
    issued,                   \* functors handed to the loop so far
    executed                  \* functors started so far, in order

vars == <<lpc, quit_, callingPendingFunctors_, pendingFunctors_, functors,
          activeChannels_, wakeupFd_, waking, issued, executed>>

wakeupChannel_ == "wakeupChannel_"

LoopControl == {"idle",      \* constructed, loop() not called yet
                "check",     \* at while(!quit_)
                "poll",      \* in epoll_wait
                "dispatch",  \* in the loop over activeChannels_
                "event",     \* in the callback of a channel
                "functors",  \* in the loop over the local functors
                "functor",   \* in a functor
                "exited",    \* loop() returned
                "destroyed"} \* ~EventLoop ran

AllThreads == Threads \cup {LoopThread}

isInLoopThread(t) == t = LoopThread

(* Application code runs on LoopThread in these states.                    *)
InCallback == lpc \in {"event", "functor"}
InUserCode == lpc \in {"idle", "event", "functor", "exited"}

(* A thread can start a call on the loop: it is not inside another one, and*)
(* LoopThread is not inside the library.                                   *)
CanCall(t) ==
    IF isInLoopThread(t) THEN InUserCode ELSE lpc # "destroyed" /\ t \notin waking

Init ==
    /\ lpc = "idle"
    /\ quit_ = FALSE
    /\ callingPendingFunctors_ = FALSE
    /\ pendingFunctors_ = <<>>
    /\ functors = <<>>
    /\ activeChannels_ = {}
    /\ wakeupFd_ = FALSE
    /\ waking = {}
    /\ issued = {}
    /\ executed = <<>>

-----------------------------------------------------------------------------
(* Calls any thread may make.                                              *)

(* Mutant: forgets the functors queued by a functor.                       *)
needsWakeup_OthersOnly(t) == ~isInLoopThread(t)

(* Does queueInLoop() have to write the eventfd ?                          *)
needsWakeup(t) == ~isInLoopThread(t) \/ callingPendingFunctors_

(* queueInLoop(cb): push under the lock, then decide about the wakeup.     *)
(* LoopThread writes the eventfd in the same step: nobody else can act on  *)
(* the difference.                                                         *)
queueInLoop(t, f) ==
    /\ CanCall(t)
    /\ isInLoopThread(t) => (InCallback \/ QueueOutsideLoop)
    /\ f \notin issued
    /\ issued' = issued \cup {f}
    /\ pendingFunctors_' = Append(pendingFunctors_, f)
    /\ wakeupFd_' = IF isInLoopThread(t) /\ needsWakeup(t) THEN TRUE ELSE wakeupFd_
    /\ waking' = waking \cup IF needsWakeup(t) THEN {t} \ {LoopThread} ELSE {}
    /\ UNCHANGED <<lpc, quit_, callingPendingFunctors_, functors, activeChannels_,
                   executed>>

(* runInLoop(cb) on the loop's own thread: cb is called on the spot.  On   *)
(* any other thread runInLoop is queueInLoop.                              *)
runInLoop(f) ==
    /\ CanCall(LoopThread)
    /\ f \notin issued
    /\ issued' = issued \cup {f}
    /\ executed' = Append(executed, f)
    /\ UNCHANGED <<lpc, quit_, callingPendingFunctors_, pendingFunctors_, functors,
                   activeChannels_, wakeupFd_, waking>>

(* quit(): the flag, and a wakeup if the loop may be in epoll_wait.        *)
(* Mutant: relies on the loop noticing the flag by itself.                 *)
quit_NoWakeup(t) ==
    /\ CanCall(t)
    /\ quit_' = TRUE
    /\ UNCHANGED <<lpc, callingPendingFunctors_, pendingFunctors_, functors,
                   activeChannels_, wakeupFd_, waking, issued, executed>>

quit(t) ==
    /\ CanCall(t)
    /\ quit_' = TRUE
    /\ waking' = IF isInLoopThread(t) THEN waking ELSE waking \cup {t}
    /\ UNCHANGED <<lpc, callingPendingFunctors_, pendingFunctors_, functors,
                   activeChannels_, wakeupFd_, issued, executed>>

(* The tail of queueInLoop() and quit() on another thread: write 1 to the  *)
(* eventfd (to nothing, once the loop has closed it).                      *)
wakeup(t) ==
    /\ t \in waking
    /\ waking' = waking \ {t}
    /\ wakeupFd_' = IF lpc = "destroyed" THEN wakeupFd_ ELSE TRUE
    /\ UNCHANGED <<lpc, quit_, callingPendingFunctors_, pendingFunctors_, functors,
                   activeChannels_, issued, executed>>

-----------------------------------------------------------------------------
(* loop(), on LoopThread.                                                  *)

Loop ==
    /\ lpc \in {"idle", "exited"}
    /\ lpc' = "check"
    /\ quit_' = FALSE
    /\ UNCHANGED <<callingPendingFunctors_, pendingFunctors_, functors,
                   activeChannels_, wakeupFd_, waking, issued, executed>>

While ==
    /\ lpc = "check"
    /\ lpc' = IF quit_ THEN "exited" ELSE "poll"
    /\ activeChannels_' = {}
    /\ UNCHANGED <<quit_, callingPendingFunctors_, pendingFunctors_, functors,
                   wakeupFd_, waking, issued, executed>>

(* epoll_wait returns with some of the ready channels (the event list may  *)
(* be too short for all of them) or, after kPollTimeMs or EINTR, with none.*)
Poll ==
    /\ lpc = "poll"
    /\ lpc' = "dispatch"
    /\ activeChannels_' \in
         SUBSET (Channels \cup IF wakeupFd_ THEN {wakeupChannel_} ELSE {})
    /\ UNCHANGED <<quit_, callingPendingFunctors_, pendingFunctors_, functors,
                   wakeupFd_, waking, issued, executed>>

(* handleEvent() of wakeupChannel_: handleRead() empties the eventfd.      *)
HandleRead ==
    /\ lpc = "dispatch"
    /\ wakeupChannel_ \in activeChannels_
    /\ activeChannels_' = activeChannels_ \ {wakeupChannel_}
    /\ wakeupFd_' = FALSE
    /\ UNCHANGED <<lpc, quit_, callingPendingFunctors_, pendingFunctors_, functors,
                   waking, issued, executed>>

(* handleEvent() of an application channel: its callbacks are entered.     *)
HandleEvent(c) ==
    /\ lpc = "dispatch"
    /\ c \in activeChannels_ \ {wakeupChannel_}
    /\ activeChannels_' = activeChannels_ \ {c}
    /\ lpc' = "event"
    /\ UNCHANGED <<quit_, callingPendingFunctors_, pendingFunctors_, functors,
                   wakeupFd_, waking, issued, executed>>

(* doPendingFunctors(): the flag and the swap under the lock ...           *)
(* Mutant: copies the queue where the code swaps it.                       *)
SwapFunctors_Copy ==
    /\ lpc = "dispatch"
    /\ activeChannels_ = {}
    /\ lpc' = "functors"
    /\ callingPendingFunctors_' = TRUE
    /\ functors' = pendingFunctors_
    /\ UNCHANGED <<quit_, pendingFunctors_, activeChannels_, wakeupFd_, waking,
                   issued, executed>>

SwapFunctors ==
    /\ lpc = "dispatch"
    /\ activeChannels_ = {}
    /\ lpc' = "functors"
    /\ callingPendingFunctors_' = TRUE
    /\ functors' = pendingFunctors_
    /\ pendingFunctors_' = <<>>
    /\ UNCHANGED <<quit_, activeChannels_, wakeupFd_, waking, issued, executed>>

(* ... each functor of the batch in order ...                              *)
(* Mutant: gives the batch up once somebody has asked to quit.             *)
CallFunctor_UnlessQuit ==
    /\ lpc = "functors"
    /\ functors # <<>>
    /\ lpc' = IF quit_ THEN "functors" ELSE "functor"
    /\ executed' = IF quit_ THEN executed ELSE Append(executed, Head(functors))
    /\ functors' = Tail(functors)
    /\ UNCHANGED <<quit_, callingPendingFunctors_, pendingFunctors_, activeChannels_,
                   wakeupFd_, waking, issued>>

CallFunctor ==
    /\ lpc = "functors"
    /\ functors # <<>>
    /\ lpc' = "functor"
    /\ executed' = Append(executed, Head(functors))
    /\ functors' = Tail(functors)
    /\ UNCHANGED <<quit_, callingPendingFunctors_, pendingFunctors_, activeChannels_,
                   wakeupFd_, waking, issued>>

(* ... and the flag again.  Mutant: leaves the flag set.                   *)
EndFunctors_FlagLeftSet ==
    /\ lpc = "functors"
    /\ functors = <<>>
    /\ lpc' = "check"
    /\ UNCHANGED <<quit_, callingPendingFunctors_, pendingFunctors_, functors,
                   activeChannels_, wakeupFd_, waking, issued, executed>>

EndFunctors ==
    /\ lpc = "functors"
    /\ functors = <<>>
    /\ lpc' = "check"
    /\ callingPendingFunctors_' = FALSE
    /\ UNCHANGED <<quit_, pendingFunctors_, functors, activeChannels_, wakeupFd_,
                   waking, issued, executed>>

(* A callback returns to the loop that called it.                          *)
Return ==
    /\ InCallback
    /\ lpc' = IF lpc = "event" THEN "dispatch" ELSE "functors"
    /\ UNCHANGED <<quit_, callingPendingFunctors_, pendingFunctors_, functors,
                   activeChannels_, wakeupFd_, waking, issued, executed>>

(* ~EventLoop on LoopThread: the eventfd is closed, queued functors die.   *)
Destroy ==
    /\ lpc \in {"idle", "exited"}
    /\ lpc' = "destroyed"
    /\ pendingFunctors_' = <<>>
    /\ wakeupFd_' = FALSE
    /\ UNCHANGED <<quit_, callingPendingFunctors_, functors, activeChannels_,
                   waking, issued, executed>>

(* The loop's own steps, but for epoll_wait returning.                     *)
LoopStep ==
    \/ While
    \/ HandleRead
    \/ \E c \in Channels : HandleEvent(c)
    \/ SwapFunctors
    \/ CallFunctor
    \/ EndFunctors
    \/ Return

Next ==
    \/ \E t \in AllThreads, f \in Functors : queueInLoop(t, f)
    \/ \E f \in Functors : runInLoop(f)
    \/ \E t \in AllThreads : quit(t)
    \/ \E t \in Threads : wakeup(t)
    \/ Loop
    \/ Poll
    \/ LoopStep
    \/ Destroy

SafeSpec == Init /\ [][Next]_vars

(* The scheduler runs LoopThread and the calling threads, callbacks return,*)
(* epoll_wait reports a readable eventfd, and the owner of a fresh loop    *)
(* calls loop().  Nothing here relies on kPollTimeMs.                      *)
Spec ==
    /\ SafeSpec
    /\ WF_vars(LoopStep \/ (wakeupFd_ /\ Poll))
    /\ WF_vars(lpc = "idle" /\ Loop)
    /\ \A t \in Threads : WF_vars(wakeup(t))

-----------------------------------------------------------------------------
(* Every variable keeps its type, and the two that mirror where LoopThread *)
(* is agree with it: callingPendingFunctors_ is set during doPendingFunctors*)
(* and at no other time, and no batch outlives the call that took it.      *)
TypeOK ==
    /\ lpc \in LoopControl
    /\ quit_ \in BOOLEAN
    /\ pendingFunctors_ \in Seq(Functors)
    /\ functors \in Seq(Functors)
    /\ activeChannels_ \subseteq Channels \cup {wakeupChannel_}
    /\ wakeupFd_ \in BOOLEAN
    /\ waking \subseteq Threads
    /\ issued \subseteq Functors
    /\ executed \in Seq(Functors)
    /\ callingPendingFunctors_ \in BOOLEAN
    /\ callingPendingFunctors_ <=> lpc \in {"functors", "functor"}
    /\ lpc \notin {"functors", "functor"} => functors = <<>>

(* Somebody has woken the loop, or is about to.                            *)
WakeupComing == wakeupFd_ \/ waking # {}

(* No lost wakeup: whenever the loop sits in epoll_wait, and a functor is  *)
(* queued or the loop was told to quit, the eventfd is readable or a thread*)
(* is on its way to write it.  (queueInLoop, quit, handleRead and          *)
(* doPendingFunctors in any interleaving.)                                 *)
NoSleepOnWork ==
    lpc = "poll" /\ (pendingFunctors_ # <<>> \/ quit_) => WakeupComing

(* The strengthening of NoSleepOnWork that every step keeps: outside of the*)
(* part of an iteration that ends in the swap, queued functors are         *)
(* announced.                                                              *)
WakeupInv ==
    /\ lpc \notin {"dispatch", "event", "destroyed"} /\ pendingFunctors_ # <<>>
          => WakeupComing
    /\ lpc = "poll" /\ quit_ => WakeupComing

(* The loop is a task queue: what is queued and what is in the running     *)
(* batch, in this order, is the abstract queue.  So functors start in the  *)
(* order they were queued, none twice, and none disappears but in the one  *)
(* step of ~EventLoop, after which nothing is queued or started.           *)
Abstract == INSTANCE TaskQueue WITH
    Task <- Functors,
    queue <- functors \o pendingFunctors_,
    done <- executed,
    issued <- issued,
    stopped <- quit_,
    destroyed <- lpc = "destroyed"

ImplementsTaskQueue == Abstract!SafeSpec

(* Every queued functor is started, unless the loop is told to quit or is  *)
(* destroyed (its owner may do so without ever calling loop()).            *)
EveryFunctorRuns == Abstract!Progress

(* A batch that was taken is run to its end, whatever quit() does.         *)
BatchCompletes ==
    \A f \in Functors : f \in ToSet(functors) ~> f \in ToSet(executed)

(* quit(), from any thread, ends a loop() that is running.                 *)
QuitEndsRunningLoop ==
    quit_ /\ lpc \notin {"idle", "exited", "destroyed"} ~> lpc \in {"exited", "destroyed"}

=============================================================================
