----------------------- MODULE EventLoopThread_proofs -----------------------
(***************************************************************************)
(* Proofs about EventLoopThread for any sets of users, functors and        *)
(* channels.  Fairness plays no part in them.                              *)
(***************************************************************************)
EXTENDS EventLoopThread, SequenceTheorems, TLAPS

(* The state of the EventLoopThread itself.                                *)
threadVars == <<opc, tpc, loop_, tid_, joined_, sem>>

(* What a step does to the loop, and to the rest: the owner's and the new  *)
(* thread's steps that leave the loop alone, ...                           *)
ThreadOnly ==
    /\ \/ Start \/ SetTid \/ SemPost \/ SemWait \/ CondWait \/ SpuriousWakeup
       \/ ConstructLoop \/ Publish \/ ClearLoop \/ Unlock
       \/ Destructor \/ TestLoop \/ Join \/ DestroyMembers
    /\ UNCHANGED loopVars

(* ... the steps of the loop that leave the thread alone, ...              *)
LoopOnly == (AppCall \/ AppWakeup \/ LoopRuns) /\ UNCHANGED threadVars

(* ... and those that are steps of both.                                   *)
Both == RunLoop \/ DestroyLoop \/ QuitLoop \/ WakeLoop

(* The three kinds are all there is.                                       *)
LEMMA Kinds ==
  ASSUME Next
  PROVE  ThreadOnly \/ LoopOnly \/ Both
<1>1. CASE Start \/ SpuriousWakeup \/ Destructor
  BY <1>1 DEF ThreadOnly, Start, SpuriousWakeup, Destructor
<1>2. CASE OwnerStep
  BY <1>2 DEF OwnerStep, ThreadOnly, Both, SemWait, CondWait, TestLoop, Join,
              DestroyMembers
<1>3. CASE ThreadStep
  BY <1>3 DEF ThreadStep, ThreadOnly, Both, SetTid, SemPost, ConstructLoop, Publish,
              ClearLoop, Unlock
<1>4. CASE AppCall \/ AppWakeup \/ LoopRuns
  BY <1>4 DEF LoopOnly, threadVars, AppCall, AppWakeup, LoopRuns
<1>5. QED
  BY <1>1, <1>2, <1>3, <1>4 DEF Next

-----------------------------------------------------------------------------
(* The loop in the thread is an EventLoop.                                 *)

(* What a step does to the loop is a step of it, or nothing.               *)
LEMMA LoopStepOrNothing ==
  ASSUME [Next]_vars
  PROVE  [Loop!Next]_(Loop!vars)
<1> USE EventLoopThreadAssumption DEF Loop!vars, loopVars
<1>1. LoopThread \in Loop!AllThreads /\ Owner \in Loop!AllThreads
      /\ Users \subseteq Loop!AllThreads
  BY DEF Loop!AllThreads
<1>2. CASE ThreadOnly
  BY <1>2 DEF ThreadOnly
<1>3. CASE AppCall
  BY <1>1, <1>3 DEF AppCall, Loop!Next
<1>4. CASE AppWakeup
  BY <1>4 DEF AppWakeup, Loop!Next
<1>5. CASE LoopRuns
  BY <1>5 DEF LoopRuns, Loop!Next
<1>6. CASE RunLoop \/ DestroyLoop \/ WakeLoop
  BY <1>6 DEF RunLoop, DestroyLoop, WakeLoop, Loop!Next
<1>7. CASE QuitLoop
  BY <1>1, <1>7 DEF QuitLoop, Loop!Next
<1>8. CASE UNCHANGED vars
  BY <1>8 DEF vars
<1>9. QED
  BY <1>2, <1>3, <1>4, <1>5, <1>6, <1>7, <1>8, Kinds DEF LoopOnly, Both

(* The module composes, and does not change, the loop: what the owner, the *)
(* new thread and the application do to the loop that startLoop() returns  *)
(* is what EventLoop allows, so what is shown of EventLoop for any callers *)
(* holds here.                                                             *)
THEOREM LoopIsEventLoop == SafeSpec => Loop!SafeSpec
<1>1. Init => Loop!Init
  BY DEF Init
<1>2. [Next]_vars => [Loop!Next]_(Loop!vars)
  BY LoopStepOrNothing
<1>3. QED
  BY <1>1, <1>2, PTL DEF SafeSpec, Loop!SafeSpec

(* The steps of loop() keep the loop's types.                              *)
LEMMA LoopStepTypeOK ==
  ASSUME Loop!TypeOK, Loop!LoopStep \/ Loop!Loop \/ Loop!Poll \/ Loop!Destroy
  PROVE  Loop!TypeOK'
<1> USE DEF Loop!TypeOK, Loop!LoopControl
<1>1. CASE Loop!While
  BY <1>1 DEF Loop!While
<1>2. CASE Loop!HandleRead
  BY <1>2 DEF Loop!HandleRead
<1>3. ASSUME NEW c \in Channels, Loop!HandleEvent(c)
      PROVE  Loop!TypeOK'
  BY <1>3 DEF Loop!HandleEvent
<1>4. CASE Loop!SwapFunctors
  BY <1>4 DEF Loop!SwapFunctors
<1>5. CASE Loop!CallFunctor
  <2>1. /\ Head(functors) \in Functors
        /\ Tail(functors) \in Seq(Functors)
    BY <1>5, HeadTailProperties DEF Loop!CallFunctor
  <2>2. QED
    BY <1>5, <2>1, AppendProperties DEF Loop!CallFunctor
<1>6. CASE Loop!EndFunctors
  BY <1>6 DEF Loop!EndFunctors
<1>7. CASE Loop!Return
  BY <1>7 DEF Loop!Return, Loop!InCallback
<1>8. CASE Loop!Loop
  BY <1>8 DEF Loop!Loop
<1>9. CASE Loop!Poll
  BY <1>9 DEF Loop!Poll
<1>10. CASE Loop!Destroy
  BY <1>10 DEF Loop!Destroy
<1>11. QED
  BY <1>1, <1>2, <1>3, <1>4, <1>5, <1>6, <1>7, <1>8, <1>9, <1>10 DEF Loop!LoopStep

(* So do the calls on it.                                                  *)
LEMMA LoopTypeOK ==
  ASSUME Loop!TypeOK, [Loop!Next]_(Loop!vars)
  PROVE  Loop!TypeOK'
<1>1. ASSUME NEW t \in Loop!AllThreads, NEW f \in Functors, Loop!queueInLoop(t, f)
      PROVE  Loop!TypeOK'
  BY <1>1, AppendProperties
     DEF Loop!TypeOK, Loop!queueInLoop, Loop!needsWakeup, Loop!isInLoopThread,
         Loop!AllThreads
<1>2. ASSUME NEW f \in Functors, Loop!runInLoop(f)
      PROVE  Loop!TypeOK'
  BY <1>2, AppendProperties DEF Loop!TypeOK, Loop!runInLoop
<1>3. ASSUME NEW t \in Loop!AllThreads, Loop!quit(t)
      PROVE  Loop!TypeOK'
  BY <1>3 DEF Loop!TypeOK, Loop!quit, Loop!isInLoopThread, Loop!AllThreads
<1>4. ASSUME NEW t \in Users \cup {Owner}, Loop!wakeup(t)
      PROVE  Loop!TypeOK'
  BY <1>4 DEF Loop!TypeOK, Loop!wakeup
<1>5. CASE UNCHANGED Loop!vars
  BY <1>5 DEF Loop!TypeOK, Loop!vars
<1>6. QED
  BY <1>1, <1>2, <1>3, <1>4, <1>5, LoopStepTypeOK DEF Loop!Next

-----------------------------------------------------------------------------
(* Thread::start() is one handshake: whoever is past sem_wait() has got    *)
(* what was posted after the new thread stored its tid, and a thread that  *)
(* was not started when the destructor came never is.                      *)
TidInv ==
    /\ tpc \in {"none", "created"} \/ tid_
    /\ sem => tid_
    /\ opc = "constructed" => tpc = "none"
    /\ opc \notin {"constructed", "semwait"} => tpc = "none" \/ tid_

(* Every step of the handshake keeps this, in whatever order the two       *)
(* threads take theirs.                                                    *)
THEOREM Handshake == SafeSpec => []TidInv
<1>1. Init => TidInv
  BY DEF Init, TidInv
<1>2. TidInv /\ [Next]_vars => TidInv'
  <2> SUFFICES ASSUME TidInv, [Next]_vars
               PROVE  TidInv'
    OBVIOUS
  <2> USE DEF TidInv
  <2>1. CASE ThreadOnly
    BY <2>1 DEF ThreadOnly, Start, SetTid, SemPost, SemWait, CondWait,
          SpuriousWakeup, ConstructLoop, Publish, ClearLoop, Unlock, Destructor,
          TestLoop, Join, DestroyMembers
  <2>2. CASE LoopOnly
    BY <2>2 DEF LoopOnly, threadVars
  <2>3. CASE Both
    BY <2>3 DEF Both, RunLoop, DestroyLoop, QuitLoop, WakeLoop
  <2>4. CASE UNCHANGED vars
    BY <2>4 DEF vars
  <2>5. QED
    BY <2>1, <2>2, <2>3, <2>4, Kinds
<1>3. QED
  BY <1>1, <1>2, PTL DEF SafeSpec

(* startLoop() gets past Thread::start() only when tid_ has been stored,   *)
(* also when callbacks quit the loop.                                      *)
THEOREM TidStored == SafeSpec => []TidKnown
<1>1. TidInv => TidKnown
  BY DEF TidInv, TidKnown
<1>2. QED
  BY <1>1, Handshake, PTL

-----------------------------------------------------------------------------
(* The types, and the agreement of tpc, loop_ and lpc.                     *)

(* Where the loop can get in a step.                                       *)
LEMMA LoopMoves ==
  ASSUME Loop!TypeOK, LoopOnly
  PROVE  /\ lpc = "idle" <=> lpc' = "idle"
         /\ lpc = "destroyed" <=> lpc' = "destroyed"
<1> USE DEF LoopOnly
<1>1. CASE AppCall
  BY <1>1 DEF AppCall, Loop!queueInLoop, Loop!runInLoop, Loop!quit
<1>2. CASE AppWakeup
  BY <1>2 DEF AppWakeup, Loop!wakeup
<1>3. CASE LoopRuns
  BY <1>3 DEF LoopRuns, Loop!LoopStep, Loop!Poll, Loop!While, Loop!HandleRead,
              Loop!HandleEvent, Loop!SwapFunctors, Loop!CallFunctor, Loop!EndFunctors,
              Loop!Return, Loop!InCallback
<1>4. QED
  BY <1>1, <1>2, <1>3

(* The loop's pointer is set exactly while the new thread is in loop(),    *)
(* which is the only place where the loop runs, and the loop is destroyed  *)
(* when threadFunc() has ended.                                            *)
THEOREM TypeCorrect == SafeSpec => []TypeOK
<1>1. Init => TypeOK
  <2>1. Loop!Init => Loop!TypeOK
    BY EmptySeq DEF Loop!Init, Loop!TypeOK, Loop!LoopControl
  <2>2. QED
    BY <2>1 DEF Init, TypeOK, OwnerControl, ThreadControl, Loop!Init
<1>2. TypeOK /\ TidInv /\ [Next]_vars => TypeOK'
  <2> SUFFICES ASSUME TypeOK, TidInv, [Next]_vars
               PROVE  TypeOK'
    OBVIOUS
  <2>1. Loop!TypeOK'
    BY LoopStepOrNothing, LoopTypeOK DEF TypeOK
  <2> USE DEF TypeOK, OwnerControl, ThreadControl
  <2>2. CASE ThreadOnly
    <3>1. UNCHANGED lpc
      BY <2>2 DEF ThreadOnly, loopVars
    <3>2. CASE Start
      BY <2>1, <3>1, <3>2 DEF Start, TidInv
    <3>3. CASE SetTid
      BY <2>1, <3>1, <3>3 DEF SetTid
    <3>4. CASE SemPost
      BY <2>1, <3>1, <3>4 DEF SemPost
    <3>5. CASE SemWait
      BY <2>1, <3>1, <3>5 DEF SemWait
    <3>6. CASE CondWait
      BY <2>1, <3>1, <3>6 DEF CondWait
    <3>7. CASE SpuriousWakeup
      BY <2>1, <3>1, <3>7 DEF SpuriousWakeup
    <3>8. CASE ConstructLoop
      BY <2>1, <3>1, <3>8 DEF ConstructLoop
    <3>9. CASE Publish
      BY <2>1, <3>1, <3>9 DEF Publish
    <3>10. CASE ClearLoop
      BY <2>1, <3>1, <3>10 DEF ClearLoop
    <3>11. CASE Unlock
      BY <2>1, <3>1, <3>11 DEF Unlock
    <3>12. CASE Destructor
      BY <2>1, <3>1, <3>12 DEF Destructor
    <3>13. CASE TestLoop
      BY <2>1, <3>1, <3>13 DEF TestLoop
    <3>14. CASE Join
      BY <2>1, <3>1, <3>14 DEF Join
    <3>15. CASE DestroyMembers
      BY <2>1, <3>1, <3>15 DEF DestroyMembers
    <3>16. QED
      BY <2>2, <3>2, <3>3, <3>4, <3>5, <3>6, <3>7, <3>8, <3>9, <3>10, <3>11, <3>12,
         <3>13, <3>14, <3>15 DEF ThreadOnly
  <2>3. CASE LoopOnly
    BY <2>1, <2>3, LoopMoves DEF LoopOnly, threadVars
  <2>4. CASE RunLoop
    BY <2>1, <2>4 DEF RunLoop, Loop!Loop
  <2>5. CASE DestroyLoop
    BY <2>1, <2>5 DEF DestroyLoop, Loop!Destroy
  <2>6. CASE QuitLoop
    BY <2>1, <2>6 DEF QuitLoop, Loop!quit, loopVars
  <2>7. CASE WakeLoop
    BY <2>1, <2>7 DEF WakeLoop, Loop!wakeup
  <2>8. CASE UNCHANGED vars
    BY <2>1, <2>8 DEF vars, loopVars
  <2>9. QED
    BY <2>2, <2>3, <2>4, <2>5, <2>6, <2>7, <2>8, Kinds DEF Both
<1>3. QED
  BY <1>1, <1>2, Handshake, PTL DEF SafeSpec

-----------------------------------------------------------------------------
(* Whoever calls quit() and whenever: where the owner is says where the new*)
(* thread may be, a loop that left loop() was told to, and only a thread   *)
(* that ended is joined.                                                   *)
BehindLoop == {"locked", "unwinding", "ended"}

QuitInv ==
    /\ opc = "constructed" => tpc = "none"
    /\ opc \in {"semwait", "cond", "waiting"} => tpc # "none"
    /\ opc \in {"started", "quit", "quitting", "join"} => tpc \in {"loop"} \cup BehindLoop
    /\ opc = "dtor" => tpc \in {"none", "loop"} \cup BehindLoop
    /\ opc = "nullptr" => tpc \in BehindLoop
    /\ joined_ => opc \in {"members", "gone"}
    /\ opc \in {"members", "gone"} =>
          IF joined_ THEN tpc = "ended" ELSE tpc \in {"none"} \cup BehindLoop
    /\ tpc \in {"locked", "unwinding"} => lpc = "exited"
    /\ lpc \in {"exited", "destroyed"} => quit_

(* Every step keeps this: the loop gets to "exited" only with quit_ set,   *)
(* and quit_ is cleared only at the start of loop().                       *)
LEMMA QuitStep ==
  ASSUME TypeOK, QuitInv, [Next]_vars
  PROVE  QuitInv'
<1> USE DEF QuitInv, BehindLoop
<1>1. CASE ThreadOnly
  <2>1. UNCHANGED <<lpc, quit_>>
    BY <1>1 DEF ThreadOnly, loopVars
  <2>2. CASE Start \/ SetTid \/ SemPost \/ SemWait \/ CondWait \/ SpuriousWakeup
    BY <2>1, <2>2 DEF TypeOK, Start, SetTid, SemPost, SemWait, CondWait, SpuriousWakeup
  <2>3. CASE ConstructLoop \/ Publish \/ ClearLoop \/ Unlock
    BY <2>1, <2>3 DEF TypeOK, ConstructLoop, Publish, ClearLoop, Unlock
  <2>4. CASE Destructor \/ TestLoop \/ Join \/ DestroyMembers
    BY <2>1, <2>4 DEF TypeOK, Destructor, TestLoop, Join, DestroyMembers
  <2>5. QED
    BY <1>1, <2>2, <2>3, <2>4 DEF ThreadOnly
<1>2. CASE LoopOnly
  <2>1. UNCHANGED <<opc, tpc, joined_>>
    BY <1>2 DEF LoopOnly, threadVars
  <2>2. /\ quit_ => quit_'
        /\ lpc = "exited" => lpc' = "exited"
        /\ lpc' \in {"exited", "destroyed"} => lpc = lpc' \/ quit_
    <3>1. CASE AppCall
      BY <3>1 DEF AppCall, Loop!queueInLoop, Loop!runInLoop, Loop!quit
    <3>2. CASE AppWakeup
      BY <3>2 DEF AppWakeup, Loop!wakeup
    <3>3. CASE LoopRuns
      <4>1. CASE Loop!While
        BY <4>1 DEF Loop!While, TypeOK, Loop!TypeOK
      <4>2. CASE Loop!Return
        BY <4>2 DEF Loop!Return, Loop!InCallback
      <4>3. CASE Loop!Poll \/ Loop!HandleRead \/ (\E c \in Channels : Loop!HandleEvent(c))
                 \/ Loop!SwapFunctors \/ Loop!CallFunctor \/ Loop!EndFunctors
        BY <4>3 DEF Loop!Poll, Loop!HandleRead, Loop!HandleEvent, Loop!SwapFunctors,
             Loop!CallFunctor, Loop!EndFunctors
      <4>4. QED
        BY <3>3, <4>1, <4>2, <4>3 DEF LoopRuns, Loop!LoopStep
    <3>4. QED
      BY <1>2, <3>1, <3>2, <3>3 DEF LoopOnly
  <2>3. QED
    BY <2>1, <2>2
<1>3. CASE RunLoop
  BY <1>3 DEF RunLoop, Loop!Loop
<1>4. CASE DestroyLoop
  BY <1>4 DEF DestroyLoop, Loop!Destroy
<1>5. CASE QuitLoop
  BY <1>5 DEF QuitLoop, Loop!quit, loopVars, TypeOK, OwnerControl, ThreadControl
<1>6. CASE WakeLoop
  BY <1>6 DEF WakeLoop, Loop!wakeup
<1>7. CASE UNCHANGED vars
  BY <1>7 DEF vars, loopVars
<1>8. QED
  BY <1>1, <1>2, <1>3, <1>4, <1>5, <1>6, <1>7, Kinds DEF Both

(* QuitInv holds whoever calls quit(): callbacks on the loop's own thread, *)
(* users on theirs, the destructor.                                        *)
THEOREM QuitCorrect == SafeSpec => []QuitInv
<1>1. Init => QuitInv
  BY DEF Init, QuitInv, Loop!Init
<1>2. TypeOK /\ QuitInv /\ [Next]_vars => QuitInv'
  BY QuitStep
<1>3. QED
  BY <1>1, <1>2, TypeCorrect, PTL DEF SafeSpec

(* What startLoop() returned stays a pointer to a live loop until somebody *)
(* tells that loop to quit, and no earlier can the destructor's test and   *)
(* use of loop_, which are not under the lock, see different pointers.     *)
THEOREM PointerLive == SafeSpec => []LoopPointerLive
<1>1. TypeOK /\ QuitInv => LoopPointerLive
  BY DEF TypeOK, QuitInv, BehindLoop, LoopPointerLive
<1>2. QED
  BY <1>1, QuitCorrect, TypeCorrect, PTL

(* When the mutex and the condition variable are destroyed, the new thread *)
(* was joined and has ended, was never started, or has left loop() because *)
(* somebody quit it, whoever that was.                                     *)
THEOREM MembersOutlive == SafeSpec => []MembersOutliveThread
<1>1. TypeOK /\ QuitInv => MembersOutliveThread
  BY DEF TypeOK, QuitInv, BehindLoop, MembersOutliveThread
<1>2. QED
  BY <1>1, QuitCorrect, TypeCorrect, PTL

=============================================================================
