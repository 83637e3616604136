-------------------------- MODULE EventLoopThread --------------------------
(***************************************************************************)
(* One EventLoopThread and its Thread: the owner constructs it, starts it  *)
(* with startLoop(), hands the loop to other threads and destroys it; the  *)
(* new thread runs threadFunc(), whose local variable is the EventLoop.    *)
(* The loop is the module EventLoop, its actions composed with these.      *)
(*                                                                         *)
(* loop_ is TRUE when it points to the loop and FALSE when it is nullptr.  *)
(* A section under mutex_ is one step.  exiting_ is never read and left    *)
(* out, and so is started_: tpc tells it.                                  *)
(***************************************************************************)
EXTENDS Sequences, SequencesExt

CONSTANTS
    Owner,             \* the thread that owns the EventLoopThread
    Users,             \* other threads the owner gives the loop to
    LoopThread,        \* the thread it starts
    Functors, Channels,
    QuitByApplication  \* may the application call quit() on the loop ?

ASSUME EventLoopThreadAssumption ==
    /\ Owner # LoopThread
    /\ Owner \notin Users
    /\ LoopThread \notin Users
    /\ QuitByApplication \in BOOLEAN

VARIABLES
    opc,     \* where the owner is
    tpc,     \* where the new thread is in its function
    loop_,   \* is the pointer set ?
    tid_,    \* has Thread::tid_ been stored ?
    joined_, \* has Thread::join() been through ?
    sem,     \* the semaphore of Thread::start()
    lpc, quit_, callingPendingFunctors_, pendingFunctors_, functors,
    activeChannels_, wakeupFd_, waking, issued, executed   \* the EventLoop

loopVars == <<lpc, quit_, callingPendingFunctors_, pendingFunctors_, functors,
              activeChannels_, wakeupFd_, waking, issued, executed>>
vars == <<opc, tpc, loop_, tid_, joined_, sem, loopVars>>

Loop == INSTANCE EventLoop WITH
    Threads <- Users \cup {Owner}, QueueOutsideLoop <- TRUE

OwnerControl == {"constructed",
                 "semwait",  \* in Thread::start(), at sem_wait
                 "cond",     \* in startLoop(), at the predicate of cond_.wait
                 "waiting",  \* blocked in cond_.wait
                 "started",  \* startLoop() returned
                 "dtor",     \* in the destructor, at if(loop_!=nullptr)
                 "quit",     \* at loop_->quit()
                 "quitting", \* inside quit(), at wakeup()
                 "join",     \* at thread_.join()
                 "members",  \* the body of the destructor is done
                 "gone",     \* and so are the members
                 "nullptr"}  \* quit() through a null loop_: undefined, not followed

ThreadControl == {"none",
                  "created",   \* std::thread started
                  "tid",       \* tid_ stored
                  "posted",    \* sem_post done, func_() called
                  "init",      \* the EventLoop exists, in callback_
                  "loop",      \* loop_ published, loop.loop() called
                  "locked",    \* loop_ is null again, mutex_ still held
                  "unwinding", \* mutex_ released
                  "ended"}     \* the EventLoop is destroyed

Init ==
    /\ opc = "constructed"
    /\ tpc = "none"
    /\ loop_ = FALSE
    /\ tid_ = FALSE
    /\ joined_ = FALSE
    /\ sem = FALSE
    /\ Loop!Init

-----------------------------------------------------------------------------
(* startLoop(): Thread::start() creates the thread and waits for its tid.  *)

Start ==
    /\ opc = "constructed"
    /\ opc' = "semwait"
    /\ tpc' = "created"
    /\ UNCHANGED <<loop_, tid_, joined_, sem, loopVars>>

SetTid ==
    /\ tpc = "created"
    /\ tpc' = "tid"
    /\ tid_' = TRUE
    /\ UNCHANGED <<opc, loop_, joined_, sem, loopVars>>

SemPost ==
    /\ tpc = "tid"
    /\ tpc' = "posted"
    /\ sem' = TRUE
    /\ UNCHANGED <<opc, loop_, tid_, joined_, loopVars>>

(* Mutant: Thread::start() does not wait.                                  *)
SemWait_Skipped ==
    /\ opc = "semwait"
    /\ opc' = "cond"
    /\ UNCHANGED <<tpc, loop_, tid_, joined_, sem, loopVars>>

SemWait ==
    /\ opc = "semwait"
    /\ sem
    /\ sem' = FALSE
    /\ opc' = "cond"
    /\ UNCHANGED <<tpc, loop_, tid_, joined_, loopVars>>

(* cond_.wait(lock, loop_ != nullptr): test, then return or block.         *)
(* Mutant: waits without a predicate, and returns when woken.              *)
CondWait_NoPredicate ==
    /\ opc = "cond"
    /\ opc' \in {"waiting", "started"}
    /\ UNCHANGED <<tpc, loop_, tid_, joined_, sem, loopVars>>

CondWait ==
    /\ opc = "cond"
    /\ opc' = IF loop_ THEN "started" ELSE "waiting"
    /\ UNCHANGED <<tpc, loop_, tid_, joined_, sem, loopVars>>

SpuriousWakeup ==
    /\ opc = "waiting"
    /\ opc' = "cond"
    /\ UNCHANGED <<tpc, loop_, tid_, joined_, sem, loopVars>>

-----------------------------------------------------------------------------
(* threadFunc(), on the new thread.                                        *)

ConstructLoop ==
    /\ tpc = "posted"
    /\ tpc' = "init"
    /\ UNCHANGED <<opc, loop_, tid_, joined_, sem, loopVars>>

(* callback_ has returned: loop_ is set and the owner notified.            *)
(* Mutant: no notify_one().                                                *)
Publish_NoNotify ==
    /\ tpc = "init"
    /\ tpc' = "loop"
    /\ loop_' = TRUE
    /\ UNCHANGED <<opc, tid_, joined_, sem, loopVars>>

Publish ==
    /\ tpc = "init"
    /\ tpc' = "loop"
    /\ loop_' = TRUE
    /\ opc' = IF opc = "waiting" THEN "cond" ELSE opc
    /\ UNCHANGED <<tid_, joined_, sem, loopVars>>

RunLoop ==
    /\ tpc = "loop"
    /\ lpc = "idle"
    /\ Loop!Loop
    /\ UNCHANGED <<opc, tpc, loop_, tid_, joined_, sem>>

(* loop() has returned: loop_ is null again, the mutex still held.         *)
(* Mutant: the pointer stays.                                              *)
ClearLoop_PointerStays ==
    /\ tpc = "loop"
    /\ lpc = "exited"
    /\ tpc' = "locked"
    /\ UNCHANGED <<opc, loop_, tid_, joined_, sem, loopVars>>

ClearLoop ==
    /\ tpc = "loop"
    /\ lpc = "exited"
    /\ tpc' = "locked"
    /\ loop_' = FALSE
    /\ UNCHANGED <<opc, tid_, joined_, sem, loopVars>>

Unlock ==
    /\ tpc = "locked"
    /\ tpc' = "unwinding"
    /\ UNCHANGED <<opc, loop_, tid_, joined_, sem, loopVars>>

DestroyLoop ==
    /\ tpc = "unwinding"
    /\ tpc' = "ended"
    /\ Loop!Destroy
    /\ UNCHANGED <<opc, loop_, tid_, joined_, sem>>

-----------------------------------------------------------------------------
(* The application: callbacks on the loop's thread (callback_ included),   *)
(* and other threads between startLoop() and the destructor, which know to *)
(* leave a loop alone whose loop() was left.                               *)

CallbackRuns == Loop!InCallback \/ tpc = "init"

AppCall ==
    /\ \/ \E f \in Functors : CallbackRuns /\ Loop!queueInLoop(LoopThread, f)
       \/ \E f \in Functors : CallbackRuns /\ Loop!runInLoop(f)
       \/ \E t \in Users, f \in Functors :
             opc = "started" /\ tpc = "loop" /\ Loop!queueInLoop(t, f)
       \/ /\ QuitByApplication
          /\ \/ CallbackRuns /\ Loop!quit(LoopThread)
             \/ \E t \in Users : opc = "started" /\ tpc = "loop" /\ Loop!quit(t)
    /\ UNCHANGED <<opc, tpc, loop_, tid_, joined_, sem>>

AppWakeup ==
    /\ \E t \in Users : Loop!wakeup(t)
    /\ UNCHANGED <<opc, tpc, loop_, tid_, joined_, sem>>

(* Mutant: epoll_wait without a time limit, and no channel that is ready.  *)
LoopRuns_WakeupOnly ==
    /\ Loop!LoopStep \/ (wakeupFd_ /\ Loop!Poll)
    /\ UNCHANGED <<opc, tpc, loop_, tid_, joined_, sem>>

LoopRuns ==
    /\ Loop!LoopStep \/ Loop!Poll
    /\ UNCHANGED <<opc, tpc, loop_, tid_, joined_, sem>>

-----------------------------------------------------------------------------
(* ~EventLoopThread, on the owner.  The owner sees to it that no other     *)
(* thread is inside a call on the loop.                                    *)

Destructor ==
    /\ opc \in {"constructed", "started"}
    /\ waking = {}
    /\ opc' = "dtor"
    /\ UNCHANGED <<tpc, loop_, tid_, joined_, sem, loopVars>>

(* The test of loop_, without the lock.                                    *)
TestLoop ==
    /\ opc = "dtor"
    /\ opc' = IF loop_ THEN "quit" ELSE "members"
    /\ UNCHANGED <<tpc, loop_, tid_, joined_, sem, loopVars>>

(* loop_->quit(): loop_ is read again.  Then the flag ...                  *)
(* Mutant: joins without having called quit().                             *)
QuitLoop_Forgotten ==
    /\ opc = "quit"
    /\ opc' = "join"
    /\ UNCHANGED <<tpc, loop_, tid_, joined_, sem, loopVars>>

QuitLoop ==
    /\ opc = "quit"
    /\ IF loop_
         THEN opc' = "quitting" /\ Loop!quit(Owner)
         ELSE opc' = "nullptr" /\ UNCHANGED loopVars
    /\ UNCHANGED <<tpc, loop_, tid_, joined_, sem>>

(* ... and the wakeup.                                                     *)
WakeLoop ==
    /\ opc = "quitting"
    /\ opc' = "join"
    /\ Loop!wakeup(Owner)
    /\ UNCHANGED <<tpc, loop_, tid_, joined_, sem>>

(* Mutant: the destructor does not join.                                   *)
Join_Skipped ==
    /\ opc = "join"
    /\ opc' = "members"
    /\ UNCHANGED <<tpc, loop_, tid_, joined_, sem, loopVars>>

Join ==
    /\ opc = "join"
    /\ tpc = "ended"
    /\ opc' = "members"
    /\ joined_' = TRUE
    /\ UNCHANGED <<tpc, loop_, tid_, sem, loopVars>>

(* The members go, mutex_ and cond_ among them; ~Thread detaches a thread  *)
(* that was started and not joined.                                        *)
DestroyMembers ==
    /\ opc = "members"
    /\ opc' = "gone"
    /\ UNCHANGED <<tpc, loop_, tid_, joined_, sem, loopVars>>

-----------------------------------------------------------------------------
(* What the two threads do of their own accord, once they are in it.       *)
OwnerStep ==
    SemWait \/ CondWait \/ TestLoop \/ QuitLoop \/ WakeLoop \/ Join \/ DestroyMembers

ThreadStep ==
    \/ SetTid \/ SemPost \/ ConstructLoop \/ Publish \/ RunLoop
    \/ ClearLoop \/ Unlock \/ DestroyLoop

Next ==
    \/ Start \/ SpuriousWakeup \/ Destructor
    \/ OwnerStep
    \/ ThreadStep
    \/ AppCall \/ AppWakeup
    \/ LoopRuns

SafeSpec == Init /\ [][Next]_vars

(* The scheduler runs both threads, callbacks return, epoll_wait returns.  *)
Spec ==
    /\ SafeSpec
    /\ WF_vars(OwnerStep)
    /\ WF_vars(ThreadStep)
    /\ WF_vars(LoopRuns)
    /\ WF_vars(AppWakeup)

-----------------------------------------------------------------------------
(* The types, and what opc, tpc and lpc say of each other: the loop runs   *)
(* only while its thread is in loop.loop() and is dead only when it ended. *)
TypeOK ==
    /\ opc \in OwnerControl
    /\ tpc \in ThreadControl
    /\ loop_ \in BOOLEAN /\ tid_ \in BOOLEAN /\ sem \in BOOLEAN
    /\ Loop!TypeOK
    /\ loop_ <=> tpc = "loop"
    /\ tpc \notin {"loop", "locked", "unwinding", "ended"} => lpc = "idle"
    /\ tpc = "ended" <=> lpc = "destroyed"

(* Thread::start() returns only after the new thread has stored its tid.   *)
TidKnown == opc \notin {"constructed", "semwait"} /\ tpc # "none" => tid_

(* What startLoop() returned points to a live loop whose initialisation    *)
(* callback has returned, for as long as nobody tells that loop to quit; and*)
(* only then can the destructor's unlocked test of loop_ and its use of it *)
(* see different pointers.                                                 *)
LoopPointerLive ==
    /\ opc = "started" /\ ~quit_ => loop_ /\ lpc \notin {"exited", "destroyed"}
    /\ opc = "nullptr" => quit_

(* The members are destroyed when the new thread has ended.  Where it was  *)
(* not joined it was never started, or its loop() has returned and it only *)
(* has to leave threadFunc().                                              *)
MembersOutliveThread ==
    opc = "gone" =>
        IF joined_ THEN tpc = "ended"
                   ELSE tpc = "none" \/ (quit_ /\ lpc \in {"exited", "destroyed"})

(* The destructor waits for the thread it started to end.                  *)
DestructorWaits == opc = "gone" => tpc \in {"none", "ended"}

(* Nobody is inside a member function of a destroyed EventLoop.            *)
NoCallOnDestroyedLoop == lpc = "destroyed" => waking = {}

(* startLoop() returns, unless the loop was quit and left loop() before it *)
(* saw the pointer: it then waits for a notification nobody sends.         *)
StartLoopReturns ==
    opc = "semwait" ~> opc = "started" \/ (opc = "waiting" /\ lpc \in {"exited", "destroyed"})

(* ~EventLoopThread comes to its end if loop() had been entered when it    *)
(* looked for the loop, or never will be, whoever else quits the loop.     *)
DestructorReturns ==
    opc = "dtor" /\ (lpc # "idle" \/ tpc = "none") ~> opc \in {"gone", "nullptr"}

(* The destructor ends the event loop bound to the thread and waits for the*)
(* thread to end, whenever it is called.                                   *)
DestructorAlwaysReturns == opc = "dtor" ~> opc = "gone"

(* Every functor handed to the loop is started, unless the loop is told to *)
(* quit or is destroyed - also one that the initialisation callback queues *)
(* before loop() is called, for which nobody writes a wakeup.              *)
EveryFunctorRuns == Loop!EveryFunctorRuns

=============================================================================
