-------------------------- MODULE EventLoop_proofs --------------------------
(***************************************************************************)
(* Proofs about EventLoop for any sets of threads, functors and channels.  *)
(***************************************************************************)
EXTENDS EventLoop, SequenceTheorems, TLAPS

(* The steps of loop() keep the types and the agreement of                 *)
(* callingPendingFunctors_ and the batch with the place in the loop.       *)
LEMMA LoopStepTypeOK ==
  ASSUME TypeOK, LoopStep \/ Loop \/ Poll \/ Destroy
  PROVE  TypeOK'
<1> USE DEF TypeOK, LoopControl
<1>1. CASE While
  BY <1>1 DEF While
<1>2. CASE HandleRead
  BY <1>2 DEF HandleRead
<1>3. ASSUME NEW c \in Channels, HandleEvent(c)
      PROVE  TypeOK'
  BY <1>3 DEF HandleEvent
<1>4. CASE SwapFunctors
  BY <1>4 DEF SwapFunctors
<1>5. CASE CallFunctor
  <2>1. /\ Head(functors) \in Functors
        /\ Tail(functors) \in Seq(Functors)
    BY <1>5, HeadTailProperties DEF CallFunctor
  <2>2. QED
    BY <1>5, <2>1, AppendProperties DEF CallFunctor
<1>6. CASE EndFunctors
  BY <1>6 DEF EndFunctors
<1>7. CASE Return
  BY <1>7 DEF Return, InCallback
<1>8. CASE Loop
  BY <1>8 DEF Loop
<1>9. CASE Poll
  BY <1>9 DEF Poll
<1>10. CASE Destroy
  BY <1>10 DEF Destroy
<1>11. QED
  BY <1>1, <1>2, <1>3, <1>4, <1>5, <1>6, <1>7, <1>8, <1>9, <1>10 DEF LoopStep

(* Every reachable state of EventLoop has its types, and LoopThread runs   *)
(* functors exactly while callingPendingFunctors_ says so.                 *)
THEOREM TypeCorrect == SafeSpec => []TypeOK
<1>1. Init => TypeOK
  BY EmptySeq DEF Init, TypeOK, LoopControl
<1>2. TypeOK /\ [Next]_vars => TypeOK'
  <2> SUFFICES ASSUME TypeOK, [Next]_vars
               PROVE  TypeOK'
    OBVIOUS
  <2>1. ASSUME NEW t \in AllThreads, NEW f \in Functors, queueInLoop(t, f)
        PROVE  TypeOK'
    BY <2>1, AppendProperties
       DEF TypeOK, queueInLoop, needsWakeup, isInLoopThread, AllThreads
  <2>2. ASSUME NEW f \in Functors, runInLoop(f)
        PROVE  TypeOK'
    BY <2>2, AppendProperties DEF TypeOK, runInLoop
  <2>3. ASSUME NEW t \in AllThreads, quit(t)
        PROVE  TypeOK'
    BY <2>3 DEF TypeOK, quit, isInLoopThread, AllThreads
  <2>4. ASSUME NEW t \in Threads, wakeup(t)
        PROVE  TypeOK'
    BY <2>4 DEF TypeOK, wakeup
  <2>5. CASE UNCHANGED vars
    BY <2>5 DEF TypeOK, vars
  <2>6. QED
    BY <2>1, <2>2, <2>3, <2>4, <2>5, LoopStepTypeOK DEF Next
<1>3. QED
  BY <1>1, <1>2, PTL DEF SafeSpec

-----------------------------------------------------------------------------
(* With no functor queued by LoopThread outside of loop(), every step keeps*)
(* queued functors announced.                                              *)
LEMMA WakeupStep ==
  ASSUME ~QueueOutsideLoop, TypeOK, WakeupInv, [Next]_vars
  PROVE  WakeupInv'
<1> USE DEF WakeupInv, WakeupComing
<1>1. ASSUME NEW t \in AllThreads, NEW f \in Functors, queueInLoop(t, f)
      PROVE  WakeupInv'
  BY <1>1
     DEF TypeOK, queueInLoop, needsWakeup, CanCall, InCallback, InUserCode, isInLoopThread
<1>2. ASSUME NEW f \in Functors, runInLoop(f)
      PROVE  WakeupInv'
  BY <1>2 DEF runInLoop
<1>3. ASSUME NEW t \in AllThreads, quit(t)
      PROVE  WakeupInv'
  BY <1>3 DEF quit, CanCall, InUserCode, isInLoopThread
<1>4. ASSUME NEW t \in Threads, wakeup(t)
      PROVE  WakeupInv'
  <2>1. CASE lpc = "destroyed"
    BY <1>4, <2>1 DEF wakeup
  <2>2. CASE lpc # "destroyed"
    BY <1>4, <2>2 DEF wakeup
  <2>3. QED
    BY <2>1, <2>2
<1>5. CASE Loop
  BY <1>5 DEF Loop
<1>6. CASE Poll
  BY <1>6 DEF Poll
<1>7. CASE Destroy
  BY <1>7 DEF Destroy
<1>8. CASE LoopStep
  BY <1>8 DEF LoopStep, While, HandleRead, HandleEvent, SwapFunctors, CallFunctor,
              EndFunctors, Return, InCallback, TypeOK
<1>9. CASE UNCHANGED vars
  BY <1>9 DEF vars
<1>10. QED
  BY <1>1, <1>2, <1>3, <1>4, <1>5, <1>6, <1>7, <1>8, <1>9 DEF Next

(* Under the same condition the invariant holds.                           *)
THEOREM WakeupCorrect ==
  ASSUME ~QueueOutsideLoop
  PROVE  SafeSpec => []WakeupInv
<1>1. Init => WakeupInv
  BY DEF Init, WakeupInv
<1>2. TypeOK /\ WakeupInv /\ [Next]_vars => WakeupInv'
  BY WakeupStep
<1>3. QED
  BY <1>1, <1>2, TypeCorrect, PTL DEF SafeSpec

(* No lost wakeup: with any number of threads queueing functors and calling*)
(* quit() in any interleaving, the loop never sits in epoll_wait on work   *)
(* nobody is going to wake it for.                                         *)
THEOREM NoLostWakeup ==
  ASSUME ~QueueOutsideLoop
  PROVE  SafeSpec => []NoSleepOnWork
<1>1. WakeupInv => NoSleepOnWork
  BY DEF WakeupInv, NoSleepOnWork
<1>2. QED
  BY <1>1, WakeupCorrect, PTL

-----------------------------------------------------------------------------
(* Concatenation, Append, Head and Tail on the two halves of the abstract  *)
(* queue.                                                                  *)
LEMMA QueueLemma ==
  ASSUME NEW S, NEW s \in Seq(S), NEW t \in Seq(S)
  PROVE  /\ \A e \in S : s \o Append(t, e) = Append(s \o t, e)
         /\ <<>> \o t = t
         /\ s \o <<>> = s
         /\ s # <<>> => /\ s \o t # <<>>
                        /\ Head(s \o t) = Head(s)
                        /\ Tail(s \o t) = Tail(s) \o t
<1>1. \A e \in S : s \o Append(t, e) = Append(s \o t, e)
  <2> SUFFICES ASSUME NEW e \in S
               PROVE  s \o Append(t, e) = Append(s \o t, e)
    OBVIOUS
  <2>1. <<e>> \in Seq(S)
    OBVIOUS
  <2>2. Append(t, e) = t \o <<e>> /\ Append(s \o t, e) = (s \o t) \o <<e>>
    BY AppendIsConcat, ConcatProperties
  <2>3. QED
    BY <2>1, <2>2, ConcatAssociative
<1>2. <<>> \o t = t /\ s \o <<>> = s
  BY ConcatEmptySeq
<1>3. ASSUME s # <<>>
      PROVE  /\ s \o t # <<>>
             /\ Head(s \o t) = Head(s)
             /\ Tail(s \o t) = Tail(s) \o t
  <2>1. s \o t # <<>>
    BY <1>3, ConcatEqualIffEmpty
  <2>2. s \o t \in Seq(S) /\ Len(s) \in Nat \ {0} /\ Len(t) \in Nat
    BY <1>3, ConcatProperties, EmptySeq, LenProperties
  <2>3. Head(s \o t) = Head(s)
    BY <1>3, <2>1, <2>2, ConcatProperties
  <2>4. /\ Tail(s \o t) \in Seq(S)
        /\ Len(Tail(s \o t)) = Len(s) + Len(t) - 1
        /\ \A i \in 1 .. Len(Tail(s \o t)) : Tail(s \o t)[i] = (s \o t)[i + 1]
    BY <2>1, <2>2, HeadTailProperties, ConcatProperties
  <2>5. /\ Tail(s) \in Seq(S)
        /\ Len(Tail(s)) = Len(s) - 1
        /\ \A i \in 1 .. Len(Tail(s)) : Tail(s)[i] = s[i + 1]
    BY <1>3, HeadTailProperties
  <2>6. /\ Tail(s) \o t \in Seq(S)
        /\ Len(Tail(s) \o t) = Len(s) - 1 + Len(t)
        /\ \A i \in 1 .. Len(s) - 1 + Len(t) :
              (Tail(s) \o t)[i] = IF i <= Len(s) - 1 THEN Tail(s)[i]
                                                    ELSE t[i - (Len(s) - 1)]
    BY <2>5, ConcatProperties
  <2>7. \A i \in 1 .. Len(s) + Len(t) :
          (s \o t)[i] = IF i <= Len(s) THEN s[i] ELSE t[i - Len(s)]
    BY ConcatProperties
  <2>8. ASSUME NEW i \in 1 .. Len(Tail(s \o t))
        PROVE  Tail(s \o t)[i] = (Tail(s) \o t)[i]
    BY <2>2, <2>4, <2>5, <2>6, <2>7
  <2>9. Tail(s \o t) = Tail(s) \o t
    BY <2>2, <2>4, <2>6, <2>8, SeqEqual
  <2>10. QED
    BY <2>1, <2>3, <2>9
<1>4. QED
  BY <1>1, <1>2, <1>3

(* Every step of the loop is a step of the abstract queue, or leaves it.   *)
LEMMA StepSimulation ==
  ASSUME TypeOK, TypeOK', [Next]_vars
  PROVE  [Abstract!Next]_(Abstract!vars)
<1> DEFINE queue == functors \o pendingFunctors_
<1> USE DEF Abstract!Next, Abstract!vars
<1>1. ASSUME NEW t \in AllThreads, NEW f \in Functors, queueInLoop(t, f)
      PROVE  Abstract!Submit(f)
  <2>1. lpc # "destroyed" /\ lpc' # "destroyed"
    BY <1>1 DEF queueInLoop, CanCall, InUserCode, isInLoopThread
  <2>2. QED
    BY <1>1, <2>1, QueueLemma DEF queueInLoop, TypeOK, Abstract!Submit
<1>2. ASSUME NEW f \in Functors, runInLoop(f)
      PROVE  Abstract!RunNow(f)
  BY <1>2 DEF runInLoop, CanCall, InUserCode, isInLoopThread, Abstract!RunNow
<1>3. ASSUME NEW t \in AllThreads, quit(t)
      PROVE  Abstract!SetStopped
  BY <1>3 DEF quit, CanCall, InUserCode, isInLoopThread, Abstract!SetStopped
<1>4. CASE Loop
  BY <1>4 DEF Loop, Abstract!SetStopped
<1>5. CASE CallFunctor
  <2>1. Abstract!RunNext
    BY <1>5, QueueLemma DEF CallFunctor, TypeOK, Abstract!RunNext
  <2>2. QED
    BY <2>1
<1>6. CASE Destroy
  <2>1. functors = <<>> /\ functors' = <<>> /\ pendingFunctors_' = <<>>
    BY <1>6 DEF Destroy, TypeOK
  <2>2. queue' = <<>>
    BY <2>1
  <2>3. Abstract!Discard
    BY <1>6, <2>2 DEF Destroy, Abstract!Discard
  <2>4. QED
    BY <2>3
<1>7. CASE SwapFunctors
  <2>1. functors = <<>> /\ functors' = pendingFunctors_ /\ pendingFunctors_' = <<>>
    BY <1>7 DEF SwapFunctors, TypeOK
  <2>2. queue' = queue
    BY <2>1, QueueLemma DEF TypeOK
  <2>3. QED
    BY <1>7, <2>2 DEF SwapFunctors
<1>8. CASE While \/ HandleRead \/ (\E c \in Channels : HandleEvent(c))
           \/ EndFunctors \/ Return \/ Poll \/ (\E t \in Threads : wakeup(t))
  <2>1. UNCHANGED <<functors, pendingFunctors_, executed, issued, quit_>>
    BY <1>8 DEF While, HandleRead, HandleEvent, EndFunctors, Return, Poll, wakeup
  <2>2. (lpc # "destroyed" /\ lpc' # "destroyed") \/ UNCHANGED lpc
    BY <1>8 DEF While, HandleRead, HandleEvent, EndFunctors, Return, InCallback, Poll,
                wakeup
  <2>3. QED
    BY <2>1, <2>2
<1>9. CASE UNCHANGED vars
  BY <1>9 DEF vars
<1>10. QED
  BY <1>1, <1>2, <1>3, <1>4, <1>5, <1>6, <1>7, <1>8, <1>9 DEF Next, LoopStep

(* EventLoop implements TaskQueue: first-in first-out, nothing run twice,  *)
(* nothing dropped but in the one step of the destructor, nothing accepted *)
(* or started after it, for any number of threads.                         *)
THEOREM Refinement == SafeSpec => ImplementsTaskQueue
<1>1. Init => Abstract!Init
  BY DEF Init, Abstract!Init
<1>2. TypeOK /\ TypeOK' /\ [Next]_vars => [Abstract!Next]_(Abstract!vars)
  BY StepSimulation
<1>3. QED
  BY <1>1, <1>2, TypeCorrect, PTL DEF SafeSpec, ImplementsTaskQueue, Abstract!SafeSpec
=============================================================================
