------------------------ MODULE TcpConnection_proofs ------------------------
(***************************************************************************)
(* Proofs about TcpConnection for any number of threads, messages, units   *)
(* in a message, and room in the kernel.  Fairness plays no part in them.  *)
(***************************************************************************)
EXTENDS TcpConnection, SequenceTheorems, FiniteSetTheorems, FunctionTheorems, TLAPS

(* What a unit and a queued functor may be: sendInLoop() has data and no   *)
(* other functor has.                                                      *)
UnitSet == [from : AllThreads, msg : Nat, unit : 1 .. MsgLen, intact : BOOLEAN]
PlainNames == {"connectEstablished", "shutdownInLoop", "writeComplete",
               "highWater", "connectDestroyed"}
FunctorSet == [fn : PlainNames, data : {<<>>}]
                \cup [fn : {"sendInLoop"}, data : Seq(UnitSet) \ {<<>>}]

(* The flags, apart from the other types, ...                              *)
Booleans ==
    /\ added \in BOOLEAN /\ dropped \in BOOLEAN
    /\ finSent \in BOOLEAN /\ sockErr \in BOOLEAN /\ incoming \in BOOLEAN

(* ... which include those of the sequences.                               *)
Types ==
    /\ state_ \in StateE
    /\ events_ \subseteq {"in", "out"}
    /\ revents_ \subseteq {"in", "out", "err", "hup"}
    /\ overtaken \in Nat /\ removals \in Nat /\ arrived \in Nat /\ peerRead \in Nat
    /\ calls \in Seq(Callbacks)
    /\ pc \in [Threads -> {"idle", "send", "shutdown", "queueShutdown"}]
    /\ sent \in [AllThreads -> Nat]
    /\ peer \in {"open", "fin", "reset"}
    /\ queue \in Seq(FunctorSet)
    /\ outputBuffer_ \in Seq(UnitSet) /\ wire \in Seq(UnitSet)
    /\ peerRead <= Len(wire) /\ Len(wire) - peerRead <= SndBuf

(* Before connectEstablished() has run, it is the first functor in the     *)
(* queue and there is nothing else; afterwards it is in the queue no more. *)
Fresh ==
    /\ calls = <<>> <=> state_ = "kConnecting"
    /\ state_ = "kConnecting" =>
          /\ queue # <<>> /\ Head(queue).fn = "connectEstablished"
          /\ \A i \in 2 .. Len(queue) : queue[i].fn = "connectDestroyed"
          /\ events_ = {} /\ ~added /\ revents_ = {}
          /\ \A t \in Threads : pc[t] = "idle"
          /\ \A t \in AllThreads : sent[t] = 0
          /\ wire = <<>> /\ outputBuffer_ = <<>> /\ ~finSent
    /\ state_ # "kConnecting" => ~Queued("connectEstablished")
    /\ \A i \in DOMAIN calls : calls[i] = "UP" <=> i = 1

(* What "DOWN" leaves behind, what does not come after it, and how often it*)
(* comes: once more for each shutdown() that overwrote kDisconnected.      *)
Final ==
    /\ added => events_ # {}
    /\ state_ = "kDisconnected" => events_ = {} /\ ~added /\ revents_ \subseteq {"err"}
    /\ Down => /\ state_ \in {"kDisconnecting", "kDisconnected"}
               /\ "in" \notin events_ /\ "in" \notin revents_
    /\ \A i, j \in DOMAIN calls : i < j /\ calls[i] = "DOWN" => calls[j] # "message"
    /\ TimesCalled("DOWN") = overtaken + IF state_ = "kDisconnected" THEN 1 ELSE 0

-----------------------------------------------------------------------------
(* The steps, one by one: first those of another thread.                   *)
ThreadAction(t) ==
    BeginCall(t) \/ QueueSend(t) \/ StoreDisconnecting(t) \/ QueueShutdown(t)
    \/ FreeStrings(t)

(* Next, with RunFunctor and HandleEvent taken apart.                      *)
LEMMA Steps ==
  ASSUME [Next]_vars
  PROVE  \/ connectEstablished \/ SendInLoop \/ ShutdownInLoop \/ CallBack
         \/ connectDestroyed \/ Poll
         \/ handleWrite \/ handleRead \/ handleError \/ HandleClose
         \/ RemoveConnection \/ ServerDrops \/ LoopSend \/ LoopShutdown
         \/ \E t \in Threads : ThreadAction(t)
         \/ Peer
         \/ UNCHANGED vars
BY DEF Next, RunFunctor, HandleEvent, ThreadStep, ThreadAction

-----------------------------------------------------------------------------
(* The flags stay flags.                                                   *)
LEMMA BooleansStep ==
  ASSUME Booleans, [Next]_vars
  PROVE  Booleans'
<1> USE DEF Booleans, channelVars, serverVars, kernelVars, update
<1>1. CASE connectEstablished
  BY <1>1, Zenon DEF connectEstablished
<1>2. CASE SendInLoop
  BY <1>2, Zenon DEF SendInLoop, sendInLoop, keepRemaining
<1>3. CASE ShutdownInLoop
  BY <1>3, Zenon DEF ShutdownInLoop, shutdownInLoop
<1>4. CASE CallBack
  BY <1>4, Zenon DEF CallBack
<1>5. CASE connectDestroyed
  BY <1>5, Zenon DEF connectDestroyed
<1>6. CASE Poll
  BY <1>6, Zenon DEF Poll
<1>7. CASE handleWrite
  BY <1>7, Zenon DEF handleWrite, outputGone
<1>8. CASE handleRead
  BY <1>8, Zenon DEF handleRead, handleClose
<1>9. CASE handleError
  BY <1>9, Zenon DEF handleError
<1>10. CASE HandleClose
  BY <1>10, Zenon DEF HandleClose, handleClose
<1>11. CASE RemoveConnection
  BY <1>11, Zenon DEF RemoveConnection
<1>12. CASE ServerDrops
  BY <1>12, Zenon DEF ServerDrops
<1>13. CASE LoopSend
  BY <1>13, Zenon DEF LoopSend, sendInLoop, keepRemaining
<1>14. CASE LoopShutdown
  BY <1>14, Zenon DEF LoopShutdown, shutdownInLoop
<1>15. ASSUME NEW t \in Threads, ThreadAction(t)
       PROVE  Booleans'
  BY <1>15, Zenon DEF ThreadAction, BeginCall, QueueSend, StoreDisconnecting, QueueShutdown,
       FreeStrings, appVars
<1>16. CASE Peer
  BY <1>16, Zenon DEF Peer, PeerReads, PeerSends, PeerCloses, PeerResets
<1>17. CASE UNCHANGED vars
  BY <1>17 DEF vars
<1>18. QED
  BY <1>1, <1>2, <1>3, <1>4, <1>5, <1>6, <1>7, <1>8, <1>9, <1>10, <1>11, <1>12, <1>13,
     <1>14, <1>15, <1>16, <1>17, Steps

-----------------------------------------------------------------------------
(* What sendInLoop() does, for data of a functor or of the loop's thread.  *)

(* k units of data are written, and the rest kept or, when the connection  *)
(* is down or cannot be written to, perhaps given up.                      *)
Kept(data, k) == SubSeq(data, k + 1, Len(data))
QueuesAfter(data, rest, k) ==
    LET len == Len(outputBuffer_)
        reached == reachesHighWaterMark(len, len + Len(Kept(data, k)))
    IN \/ Kept(data, k) = <<>> /\ queue' = Append(rest, Functor("writeComplete"))
       \/ Kept(data, k) # <<>> /\ reached /\ queue' = Append(rest, Functor("highWater"))
       \/ Kept(data, k) # <<>> /\ ~reached /\ queue' = rest
Keeps(data, rest, k) ==
    /\ state_ # "kDisconnected"
    /\ k <= Room
    /\ k > 0 => nothingPending /\ ~finSent /\ peer # "reset"
    /\ wire' = wire \o SubSeq(data, 1, k)
    /\ keepRemaining(Kept(data, k))
    /\ QueuesAfter(data, rest, k)
GivesUp(rest) ==
    /\ state_ = "kDisconnected" \/ finSent \/ peer = "reset"
    /\ queue' = rest
    /\ UNCHANGED <<wire, outputBuffer_, channelVars>>

(* A functor without data is one.                                          *)
LEMMA PlainFunctor ==
  ASSUME NEW fn \in PlainNames
  PROVE  Functor(fn) \in FunctorSet /\ Functor(fn).fn = fn
BY DEF Functor, FunctorSet

(* sendInLoop() is one of the two.                                         *)
LEMMA SendCases ==
  ASSUME Types, NEW data \in Seq(UnitSet), NEW rest \in Seq(FunctorSet),
         sendInLoop(data, rest)
  PROVE  GivesUp(rest) \/ \E k \in 0 .. Len(data) : Keeps(data, rest, k)
<1>1. CASE state_ = "kDisconnected"
  BY <1>1 DEF sendInLoop, GivesUp
<1>2. CASE state_ # "kDisconnected"
  <2> DEFINE Does(n, faultError) ==
          LET nwrote == IF n = EPIPE THEN 0 ELSE n
              remaining == SubSeq(data, nwrote + 1, Len(data))
              oldlen == Len(outputBuffer_)
          IN /\ sockErr' = (sockErr /\ n # EPIPE)
             /\ wire' = wire \o SubSeq(data, 1, nwrote)
             /\ IF faultError
                THEN queue' = rest /\ UNCHANGED <<outputBuffer_, channelVars>>
                ELSE /\ keepRemaining(remaining)
                     /\ queue' = rest
                          \o (IF remaining = <<>> THEN <<Functor("writeComplete")>> ELSE <<>>)
                          \o (IF /\ remaining # <<>>
                                 /\ reachesHighWaterMark(oldlen, oldlen + Len(remaining))
                              THEN <<Functor("highWater")>> ELSE <<>>)
  <2>0. PICK n \in (IF nothingPending THEN write(Len(data)) ELSE {0}) :
             \E faultError \in faultErrors(n) : Does(n, faultError)
    BY <1>2 DEF sendInLoop
  <2>1. PICK faultError \in faultErrors(n) : Does(n, faultError)
    BY <2>0
  <2> DEFINE k == IF n = EPIPE THEN 0 ELSE n
  <2>2. Len(data) \in Nat /\ Len(wire) \in Nat /\ peerRead \in Nat /\ SndBuf \in Nat
    BY TcpConnectionAssumption, LenProperties DEF Types
  <2>3. /\ k \in 0 .. Len(data) /\ k <= Room
        /\ k > 0 => nothingPending /\ ~finSent /\ peer # "reset"
        /\ n = EPIPE => finSent \/ peer = "reset"
    <3>1. Room \in Nat
      BY <2>2 DEF Room, Types
    <3>2. CASE ~nothingPending
      BY <2>2, <3>1, <3>2 DEF EPIPE
    <3>3. CASE nothingPending /\ (finSent \/ peer = "reset")
      BY <2>2, <3>1, <3>3 DEF EPIPE, write
    <3>4. CASE nothingPending /\ ~(finSent \/ peer = "reset")
      <4>1. n \in 0 .. Len(data) /\ n <= Room
        BY <2>2, <3>1, <3>4 DEF write
      <4>2. QED
        BY <3>4, <4>1 DEF EPIPE
    <3>5. QED
      BY <3>2, <3>3, <3>4
  <2>4. CASE faultError
    <3>1. n = EPIPE
      BY <2>4 DEF faultErrors
    <3>2. SubSeq(data, 1, 0) = <<>>
      BY SubSeqEmpty
    <3>3. wire' = wire
      BY <2>1, <3>1, <3>2, ConcatEmptySeq DEF Types
    <3>4. QED
      BY <2>1, <2>3, <2>4, <3>1, <3>3 DEF GivesUp
  <2>5. CASE ~faultError
    <3>1. wire' = wire \o SubSeq(data, 1, k) /\ keepRemaining(Kept(data, k))
      BY <2>1, <2>5 DEF Kept
    <3> DEFINE len == Len(outputBuffer_)
               reached == reachesHighWaterMark(len, len + Len(Kept(data, k)))
    <3>2. queue' = rest \o (IF Kept(data, k) = <<>> THEN <<Functor("writeComplete")>>
                                                   ELSE <<>>)
                        \o (IF Kept(data, k) # <<>> /\ reached
                              THEN <<Functor("highWater")>> ELSE <<>>)
      BY <2>1, <2>5 DEF Kept
    <3>3. /\ Append(rest, Functor("writeComplete")) = rest \o <<Functor("writeComplete")>>
          /\ Append(rest, Functor("highWater")) = rest \o <<Functor("highWater")>>
      BY PlainFunctor, AppendIsConcat DEF PlainNames
    <3>4. /\ rest \o <<>> = rest
          /\ Append(rest, Functor("writeComplete")) \o <<>>
               = Append(rest, Functor("writeComplete"))
      BY ConcatEmptySeq, PlainFunctor, AppendProperties DEF PlainNames
    <3>5. QueuesAfter(data, rest, k)
      <4>1. CASE Kept(data, k) = <<>>
        BY <3>2, <3>3, <3>4, <4>1 DEF QueuesAfter
      <4>2. CASE Kept(data, k) # <<>> /\ reached
        BY <3>2, <3>3, <3>4, <4>2 DEF QueuesAfter
      <4>3. CASE Kept(data, k) # <<>> /\ ~reached
        BY <3>2, <3>3, <3>4, <4>3 DEF QueuesAfter
      <4>4. QED
        BY <4>1, <4>2, <4>3
    <3>6. Keeps(data, rest, k)
      BY <1>2, <2>3, <3>1, <3>5 DEF Keeps
    <3>7. QED
      BY <2>3, <3>6
  <2>6. QED
    BY <2>4, <2>5
<1>3. QED
  BY <1>1, <1>2

-----------------------------------------------------------------------------
(* Sequences: the front of the queue, messages, and both halves of data.   *)

(* What is at the front of the queue and behind it.                        *)
LEMMA QueueFacts ==
  ASSUME Types
  PROVE  /\ Len(queue) \in Nat /\ DOMAIN queue = 1 .. Len(queue)
         /\ \A i \in 1 .. Len(queue) : queue[i] \in FunctorSet
         /\ \A f \in FunctorSet :
              /\ Append(queue, f) \in Seq(FunctorSet)
              /\ Len(Append(queue, f)) = Len(queue) + 1
              /\ \A i \in 1 .. Len(queue) : Append(queue, f)[i] = queue[i]
              /\ Append(queue, f)[Len(queue) + 1] = f
         /\ queue # <<>> =>
              /\ Len(queue) >= 1
              /\ Head(queue) = queue[1] /\ Head(queue) \in FunctorSet
              /\ Tail(queue) \in Seq(FunctorSet)
              /\ Len(Tail(queue)) = Len(queue) - 1
              /\ \A i \in 1 .. Len(queue) - 1 : Tail(queue)[i] = queue[i + 1]
<1>1. queue \in Seq(FunctorSet)
  BY DEF Types
<1>2. Len(queue) \in Nat /\ DOMAIN queue = 1 .. Len(queue)
  BY <1>1, LenProperties
<1>3. \A i \in 1 .. Len(queue) : queue[i] \in FunctorSet
  BY <1>1, ElementOfSeq
<1>4. ASSUME NEW f \in FunctorSet
      PROVE  /\ Append(queue, f) \in Seq(FunctorSet)
             /\ Len(Append(queue, f)) = Len(queue) + 1
             /\ \A i \in 1 .. Len(queue) : Append(queue, f)[i] = queue[i]
             /\ Append(queue, f)[Len(queue) + 1] = f
  BY <1>1, AppendProperties
<1>5. ASSUME queue # <<>>
      PROVE  /\ Len(queue) >= 1
             /\ Head(queue) = queue[1] /\ Head(queue) \in FunctorSet
             /\ Tail(queue) \in Seq(FunctorSet)
             /\ Len(Tail(queue)) = Len(queue) - 1
             /\ \A i \in 1 .. Len(queue) - 1 : Tail(queue)[i] = queue[i + 1]
  <2>1. Len(queue) >= 1
    BY <1>1, <1>5, EmptySeq
  <2>2. QED
    BY <1>1, <1>5, <2>1, HeadTailProperties
<1>6. QED
  BY <1>2, <1>3, <1>4, <1>5

(* A message has MsgLen units, of one thread, with one number, in order.   *)
LEMMA MessageFacts ==
  ASSUME NEW t \in AllThreads, NEW n \in Nat
  PROVE  /\ Message(t, n) \in Seq(UnitSet) \ {<<>>}
         /\ Len(Message(t, n)) = MsgLen
         /\ \A k \in 1 .. MsgLen : Message(t, n)[k] = Unit(t, n, k)
<1> DEFINE m == Message(t, n)
<1>1. MsgLen \in Nat /\ MsgLen >= 1
  BY TcpConnectionAssumption
<1>2. m \in [1 .. MsgLen -> UnitSet] /\ \A k \in 1 .. MsgLen : m[k] = Unit(t, n, k)
  BY DEF Message, Unit, UnitSet
<1>3. m \in Seq(UnitSet)
  BY <1>1, <1>2, SeqDef
<1>4. DOMAIN m = 1 .. Len(m) /\ Len(m) \in Nat
  BY <1>3, LenProperties
<1>5. Len(m) = MsgLen
  BY <1>1, <1>2, <1>4
<1>6. m # <<>>
  BY <1>1, <1>5, EmptySeq
<1>7. QED
  BY <1>2, <1>3, <1>5, <1>6

(* Cutting a sequence in two.                                              *)
LEMMA CutFacts ==
  ASSUME NEW S, NEW s \in Seq(S), NEW k \in 0 .. Len(s)
  PROVE  /\ SubSeq(s, 1, k) \in Seq(S) /\ Len(SubSeq(s, 1, k)) = k
         /\ SubSeq(s, k + 1, Len(s)) \in Seq(S)
         /\ Len(SubSeq(s, k + 1, Len(s))) = Len(s) - k
         /\ SubSeq(s, 1, k) \o SubSeq(s, k + 1, Len(s)) = s
         /\ \A i \in 1 .. k : SubSeq(s, 1, k)[i] = s[i]
<1>1. Len(s) \in Nat /\ \A i \in 1 .. Len(s) : s[i] \in S
  BY LenProperties, ElementOfSeq
<1>2. /\ SubSeq(s, 1, k) \in Seq(S) /\ Len(SubSeq(s, 1, k)) = k
      /\ \A i \in 1 .. k : SubSeq(s, 1, k)[i] = s[i]
  <2>1. \A i \in 1 .. k : s[i] \in S
    BY <1>1
  <2>2. QED
    BY <1>1, <2>1, SubSeqProperties
<1>3. /\ SubSeq(s, k + 1, Len(s)) \in Seq(S)
      /\ Len(SubSeq(s, k + 1, Len(s))) = Len(s) - k
  <2>1. \A i \in k + 1 .. Len(s) : s[i] \in S
    BY <1>1
  <2>2. QED
    BY <1>1, <2>1, SubSeqProperties
<1>4. SubSeq(s, 1, k) \o SubSeq(s, k + 1, Len(s)) = SubSeq(s, 1, Len(s))
  <2>1. 1 \in 1 .. Len(s) + 1 /\ k \in 1 - 1 .. Len(s) /\ Len(s) \in k .. Len(s)
    BY <1>1
  <2>2. QED
    BY <2>1, ConcatAdjacentSubSeq
<1>5. QED
  BY <1>1, <1>2, <1>3, <1>4, SubSeqFull

(* The two ways of calling sendInLoop(): with data of a functor that leaves*)
(* the queue, or with a new message of the loop's thread.                  *)
LEMMA SendInLoopCalls ==
  ASSUME Types, SendInLoop
  PROVE  /\ Head(queue).data \in Seq(UnitSet) \ {<<>>}
         /\ Tail(queue) \in Seq(FunctorSet)
         /\ \/ GivesUp(Tail(queue))
            \/ \E k \in 0 .. Len(Head(queue).data) :
                  Keeps(Head(queue).data, Tail(queue), k)
<1>1. queue # <<>> /\ Head(queue).fn = "sendInLoop"
  BY DEF SendInLoop, RunsNext
<1>2. Head(queue) \in FunctorSet /\ Tail(queue) \in Seq(FunctorSet)
  BY <1>1, QueueFacts
<1>3. Head(queue).data \in Seq(UnitSet) \ {<<>>}
  BY <1>1, <1>2 DEF FunctorSet, PlainNames
<1>4. QED
  BY <1>2, <1>3, SendCases DEF SendInLoop

(* The second way.                                                         *)
LEMMA LoopSendCalls ==
  ASSUME Types, LoopSend
  PROVE  LET n == sent[LoopThread] + 1
             data == Message(LoopThread, n)
         IN /\ sent' = [sent EXCEPT ![LoopThread] = n]
            /\ n \in Nat
            /\ data \in Seq(UnitSet) \ {<<>>}
            /\ \/ GivesUp(queue)
               \/ \E k \in 0 .. Len(data) : Keeps(data, queue, k)
<1>1. LoopThread \in AllThreads /\ sent \in [AllThreads -> Nat] /\ queue \in Seq(FunctorSet)
  BY DEF AllThreads, Types
<1> DEFINE n == sent[LoopThread] + 1
<1>2. sent' = [sent EXCEPT ![LoopThread] = n] /\ n \in Nat /\ sent'[LoopThread] = n
  BY <1>1 DEF LoopSend
<1>3. Message(LoopThread, n) \in Seq(UnitSet) \ {<<>>}
  BY <1>1, <1>2, MessageFacts
<1>4. sendInLoop(Message(LoopThread, n), queue)
  BY <1>2 DEF LoopSend
<1>5. QED
  BY <1>1, <1>2, <1>3, <1>4, SendCases

-----------------------------------------------------------------------------
(* Types.                                                                  *)

(* What sendInLoop() changes keeps its type, and the kernel's room.        *)
LEMMA SendTypes ==
  ASSUME Types, NEW data \in Seq(UnitSet), NEW rest \in Seq(FunctorSet),
         GivesUp(rest) \/ \E k \in 0 .. Len(data) : Keeps(data, rest, k),
         UNCHANGED peerRead
  PROVE  /\ events_' \subseteq {"in", "out"}
         /\ queue' \in Seq(FunctorSet)
         /\ outputBuffer_' \in Seq(UnitSet) /\ wire' \in Seq(UnitSet)
         /\ peerRead' <= Len(wire') /\ Len(wire') - peerRead' <= SndBuf
<1>1. CASE GivesUp(rest)
  BY <1>1 DEF GivesUp, channelVars, Types
<1>2. ASSUME NEW k \in 0 .. Len(data), Keeps(data, rest, k)
      PROVE  /\ events_' \subseteq {"in", "out"}
             /\ queue' \in Seq(FunctorSet)
             /\ outputBuffer_' \in Seq(UnitSet) /\ wire' \in Seq(UnitSet)
             /\ peerRead' <= Len(wire') /\ Len(wire') - peerRead' <= SndBuf
  <2>1. /\ wire \in Seq(UnitSet) /\ outputBuffer_ \in Seq(UnitSet)
        /\ Len(wire) \in Nat /\ peerRead \in Nat /\ SndBuf \in Nat
        /\ peerRead <= Len(wire)
    BY LenProperties, TcpConnectionAssumption DEF Types
  <2>2. /\ SubSeq(data, 1, k) \in Seq(UnitSet) /\ Len(SubSeq(data, 1, k)) = k
        /\ Kept(data, k) \in Seq(UnitSet)
    BY CutFacts DEF Kept
  <2>3. wire' = wire \o SubSeq(data, 1, k) /\ k <= Room
    BY <1>2 DEF Keeps
  <2>4. wire' \in Seq(UnitSet) /\ Len(wire') = Len(wire) + k
    BY <2>1, <2>2, <2>3, ConcatProperties
  <2>5. peerRead' <= Len(wire') /\ Len(wire') - peerRead' <= SndBuf
    BY <2>1, <2>3, <2>4 DEF Room
  <2>6. outputBuffer_' \in Seq(UnitSet) /\ events_' \subseteq {"in", "out"}
    <3>1. outputBuffer_' = outputBuffer_ \o Kept(data, k)
      BY <1>2 DEF Keeps, keepRemaining
    <3>2. outputBuffer_' \in Seq(UnitSet)
      BY <2>1, <2>2, <3>1, ConcatProperties
    <3>3. events_' = events_ \/ events_' = events_ \cup {"out"}
      BY <1>2 DEF Keeps, keepRemaining, update, channelVars
    <3>4. QED
      BY <3>2, <3>3 DEF Types
  <2>7. queue' \in Seq(FunctorSet)
    <3>1. Append(rest, Functor("writeComplete")) \in Seq(FunctorSet)
          /\ Append(rest, Functor("highWater")) \in Seq(FunctorSet)
      BY PlainFunctor, AppendProperties DEF PlainNames
    <3>2. QED
      BY <1>2, <3>1 DEF Keeps, QueuesAfter
  <2>8. QED
    BY <2>4, <2>5, <2>6, <2>7
<1>3. QED
  BY <1>1, <1>2

(* handleWrite() moves units from the output to the wire.                  *)
WritesSome(n) ==
    /\ n \in 1 .. Len(outputBuffer_) /\ n <= Room
    /\ ~finSent /\ peer # "reset" /\ isWriting
    /\ wire' = wire \o SubSeq(outputBuffer_, 1, n)
    /\ outputBuffer_' = Kept(outputBuffer_, n)
    /\ IF Kept(outputBuffer_, n) = <<>> THEN outputGone
       ELSE UNCHANGED <<channelVars, queue, finSent>>
WritesNothing == UNCHANGED <<channelVars, outputBuffer_, queue, wire, finSent>>

(* handleWrite() is one of the two.                                        *)
LEMMA WriteCases ==
  ASSUME Types, handleWrite
  PROVE  WritesNothing \/ \E n \in 1 .. Len(outputBuffer_) : WritesSome(n)
<1>1. Len(outputBuffer_) \in Nat
  BY LenProperties DEF Types
<1>2. CASE ~isWriting
  BY <1>2 DEF handleWrite, WritesNothing
<1>3. CASE isWriting
  <2>1. PICK n \in write(Len(outputBuffer_)) :
            IF n > 0
            THEN LET rest == SubSeq(outputBuffer_, n + 1, Len(outputBuffer_))
                 IN /\ wire' = wire \o SubSeq(outputBuffer_, 1, n)
                    /\ outputBuffer_' = rest
                    /\ IF rest = <<>> THEN outputGone
                       ELSE UNCHANGED <<channelVars, queue, finSent>>
                    /\ UNCHANGED sockErr
            ELSE /\ sockErr' = (sockErr /\ n # EPIPE)
                 /\ UNCHANGED <<channelVars, outputBuffer_, queue, wire, finSent>>
    BY <1>3 DEF handleWrite
  <2>2. CASE n > 0
    <3>1. n \in 1 .. Len(outputBuffer_) /\ n <= Room /\ ~finSent /\ peer # "reset"
      BY <1>1, <2>2 DEF write, EPIPE
    <3>2. WritesSome(n)
      BY <1>3, <2>1, <2>2, <3>1 DEF WritesSome, Kept
    <3>3. QED
      BY <3>1, <3>2
  <2>3. CASE ~(n > 0)
    BY <2>1, <2>3 DEF WritesNothing
  <2>4. QED
    BY <2>2, <2>3
<1>4. QED
  BY <1>2, <1>3

(* What it changes keeps its type, and the kernel's room.                  *)
LEMMA WriteTypes ==
  ASSUME Types, handleWrite
  PROVE  /\ events_' \subseteq {"in", "out"}
         /\ queue' \in Seq(FunctorSet)
         /\ outputBuffer_' \in Seq(UnitSet) /\ wire' \in Seq(UnitSet)
         /\ peerRead' <= Len(wire') /\ Len(wire') - peerRead' <= SndBuf
<1>1. UNCHANGED peerRead
  BY DEF handleWrite, kernelVars
<1>2. CASE WritesNothing
  BY <1>1, <1>2 DEF WritesNothing, channelVars, Types
<1>3. ASSUME NEW n \in 1 .. Len(outputBuffer_), WritesSome(n)
      PROVE  /\ events_' \subseteq {"in", "out"}
             /\ queue' \in Seq(FunctorSet)
             /\ outputBuffer_' \in Seq(UnitSet) /\ wire' \in Seq(UnitSet)
             /\ peerRead' <= Len(wire') /\ Len(wire') - peerRead' <= SndBuf
  <2>1. /\ wire \in Seq(UnitSet) /\ outputBuffer_ \in Seq(UnitSet)
        /\ Len(wire) \in Nat /\ peerRead \in Nat /\ SndBuf \in Nat
        /\ peerRead <= Len(wire) /\ n \in 0 .. Len(outputBuffer_)
    BY LenProperties, TcpConnectionAssumption DEF Types
  <2>2. /\ SubSeq(outputBuffer_, 1, n) \in Seq(UnitSet)
        /\ Len(SubSeq(outputBuffer_, 1, n)) = n
        /\ Kept(outputBuffer_, n) \in Seq(UnitSet)
    BY <2>1, CutFacts DEF Kept
  <2>3. wire' \in Seq(UnitSet) /\ Len(wire') = Len(wire) + n
    BY <1>3, <2>1, <2>2, ConcatProperties DEF WritesSome
  <2>4. peerRead' <= Len(wire') /\ Len(wire') - peerRead' <= SndBuf
    BY <1>1, <1>3, <2>1, <2>3 DEF WritesSome, Room
  <2>5. outputBuffer_' \in Seq(UnitSet)
    BY <1>3, <2>2 DEF WritesSome
  <2>6. /\ events_' = events_ \/ events_' = events_ \ {"out"}
        /\ queue' = queue \/ queue' = Append(queue, Functor("writeComplete"))
    BY <1>3 DEF WritesSome, outputGone, update, channelVars
  <2>7. Append(queue, Functor("writeComplete")) \in Seq(FunctorSet)
    BY PlainFunctor, QueueFacts DEF PlainNames
  <2>8. QED
    BY <2>3, <2>4, <2>5, <2>6, <2>7 DEF Types
<1>4. QED
  BY <1>2, <1>3, WriteCases

(* handleClose(), read as what it does to each variable.                   *)
LEMMA CloseFacts ==
  ASSUME handleClose
  PROVE  /\ state_' = "kDisconnected"
         /\ events_' = {} /\ ~added'
         /\ calls' = Append(calls, "DOWN")
         /\ removals' = removals + 1
BY DEF handleClose, update

(* What it changes keeps its type.                                         *)
LEMMA CloseTypes ==
  ASSUME Types, handleClose
  PROVE  /\ state_' \in StateE /\ events_' \subseteq {"in", "out"} /\ removals' \in Nat
         /\ calls' \in Seq(Callbacks)
<1>1. state_' = "kDisconnected" /\ events_' = {} /\ removals' = removals + 1
  BY CloseFacts
<1>2. calls' = Append(calls, "DOWN")
  BY CloseFacts
<1>3. calls' \in Seq(Callbacks)
  BY <1>2, AppendProperties DEF Types, Callbacks
<1>4. QED
  BY <1>1, <1>3 DEF Types, StateE

(* When a caller's strings go, the functors stay what they are but for the *)
(* memory of their data.                                                   *)
SameFunctor(f, g) ==
    /\ f.fn = g.fn /\ Len(f.data) = Len(g.data)
    /\ \A k \in 1 .. Len(g.data) : /\ f.data[k].from = g.data[k].from
                                   /\ f.data[k].msg = g.data[k].msg
                                   /\ f.data[k].unit = g.data[k].unit

(* FreeStrings(t) changes no more than that.                               *)
LEMMA FreedFacts ==
  ASSUME Types, NEW t \in Threads, FreeStrings(t)
  PROVE  /\ queue' \in Seq(FunctorSet) /\ Len(queue') = Len(queue)
         /\ \A i \in 1 .. Len(queue) :
               queue'[i] \in FunctorSet /\ SameFunctor(queue'[i], queue[i])
<1> DEFINE freed(f) == IF OwnString(t, f) THEN SendFunctor(Overwritten(f.data)) ELSE f
<1>1. Len(queue) \in Nat /\ DOMAIN queue = 1 .. Len(queue)
      /\ \A i \in 1 .. Len(queue) : queue[i] \in FunctorSet
  BY QueueFacts
<1>2. queue' = [i \in 1 .. Len(queue) |-> freed(queue[i])]
  BY <1>1 DEF FreeStrings
<1>3. ASSUME NEW f \in FunctorSet
      PROVE  freed(f) \in FunctorSet /\ SameFunctor(freed(f), f)
  <2>1. CASE ~OwnString(t, f)
    BY <1>3, <2>1 DEF SameFunctor
  <2>2. CASE OwnString(t, f)
    <3>1. f.fn = "sendInLoop" /\ f.data \in Seq(UnitSet) \ {<<>>}
      BY <2>2 DEF OwnString, FunctorSet
    <3> DEFINE d == f.data
               o == Overwritten(d)
    <3>2. /\ Len(d) \in Nat /\ Len(d) >= 1 /\ DOMAIN d = 1 .. Len(d)
          /\ \A k \in 1 .. Len(d) : d[k] \in UnitSet
      BY <3>1, LenProperties, ElementOfSeq, EmptySeq
    <3>3. o = [k \in 1 .. Len(d) |-> [d[k] EXCEPT !.intact = FALSE]]
      BY <3>2 DEF Overwritten
    <3>4. o \in [1 .. Len(d) -> UnitSet]
      BY <3>2, <3>3 DEF UnitSet
    <3>5. o \in Seq(UnitSet)
      BY <3>2, <3>4, SeqDef
    <3>6. DOMAIN o = 1 .. Len(o) /\ Len(o) \in Nat
      BY <3>5, LenProperties
    <3>7. Len(o) = Len(d)
      BY <3>2, <3>4, <3>6
    <3>8. \A k \in 1 .. Len(d) :
            o[k].from = d[k].from /\ o[k].msg = d[k].msg /\ o[k].unit = d[k].unit
      BY <3>2, <3>3 DEF UnitSet
    <3>9. o # <<>>
      BY <3>2, <3>7, EmptySeq
    <3>10. freed(f) = [fn |-> "sendInLoop", data |-> o]
      BY <2>2 DEF SendFunctor
    <3>11. freed(f) \in FunctorSet
      BY <3>5, <3>9, <3>10 DEF FunctorSet
    <3>12. SameFunctor(freed(f), f)
      BY <3>1, <3>7, <3>8, <3>10 DEF SameFunctor
    <3>13. QED
      BY <3>11, <3>12
  <2>3. QED
    BY <2>1, <2>2
<1> HIDE DEF freed
<1>4. queue' \in [1 .. Len(queue) -> FunctorSet]
  BY <1>1, <1>2, <1>3
<1>5. queue' \in Seq(FunctorSet)
  BY <1>1, <1>4, SeqDef
<1>6. DOMAIN queue' = 1 .. Len(queue') /\ Len(queue') \in Nat
  BY <1>5, LenProperties
<1>7. Len(queue') = Len(queue)
  BY <1>1, <1>4, <1>6
<1>8. QED
  BY <1>1, <1>2, <1>3, <1>5, <1>7

(* Every step keeps the types.                                             *)
LEMMA TypesStep ==
  ASSUME Types, [Next]_vars
  PROVE  Types'
<1> USE DEF Types, StateE, Callbacks, channelVars, serverVars, threadVars, kernelVars,
            update
<1>0. \A c \in Callbacks : Append(calls, c) \in Seq(Callbacks)
  BY AppendProperties
<1>1. CASE connectEstablished
  BY <1>0, <1>1, QueueFacts DEF connectEstablished, RunsNext
<1>2. CASE SendInLoop
  <2>1. UNCHANGED peerRead
    BY <1>2 DEF SendInLoop
  <2>2. /\ events_' \subseteq {"in", "out"}
        /\ queue' \in Seq(FunctorSet)
        /\ outputBuffer_' \in Seq(UnitSet) /\ wire' \in Seq(UnitSet)
        /\ peerRead' <= Len(wire') /\ Len(wire') - peerRead' <= SndBuf
    BY <1>2, <2>1, SendInLoopCalls, SendTypes
  <2>3. QED
    BY <1>2, <2>2 DEF SendInLoop
<1>3. CASE ShutdownInLoop
  BY <1>3, QueueFacts DEF ShutdownInLoop, RunsNext
<1>4. CASE CallBack
  BY <1>0, <1>4, QueueFacts DEF CallBack, RunsNext
<1>5. CASE connectDestroyed
  BY <1>0, <1>5, QueueFacts DEF connectDestroyed, RunsNext
<1>6. CASE Poll
  BY <1>6 DEF Poll, Reported, Ready
<1>7. CASE handleWrite
  BY <1>7, WriteTypes DEF handleWrite
<1>8. CASE handleRead
  <2>1. \/ UNCHANGED <<state_, events_, removals, calls>>
        \/ UNCHANGED <<state_, events_, removals>> /\ calls' = Append(calls, "message")
        \/ handleClose
    BY <1>8 DEF handleRead
  <2>2. /\ state_' \in StateE /\ events_' \subseteq {"in", "out"} /\ removals' \in Nat
        /\ calls' \in Seq(Callbacks)
    BY <1>0, <2>1, CloseTypes
  <2>3. /\ UNCHANGED <<queue, outputBuffer_, wire, pc, sent, peer, arrived, peerRead,
                       overtaken>>
        /\ revents_' = revents_ \ {"in", "hup"}
    BY <1>8 DEF handleRead
  <2>4. QED
    BY <2>2, <2>3
<1>9. CASE handleError
  BY <1>9 DEF handleError
<1>10. CASE HandleClose
  BY <1>10, CloseTypes DEF HandleClose
<1>11. CASE RemoveConnection
  BY <1>11, QueueFacts, PlainFunctor DEF RemoveConnection, PlainNames
<1>12. CASE ServerDrops
  BY <1>12, QueueFacts, PlainFunctor DEF ServerDrops, PlainNames
<1>13. CASE LoopSend
  <2>1. UNCHANGED peerRead /\ queue \in Seq(FunctorSet)
    BY <1>13 DEF LoopSend
  <2>2. /\ events_' \subseteq {"in", "out"}
        /\ queue' \in Seq(FunctorSet)
        /\ outputBuffer_' \in Seq(UnitSet) /\ wire' \in Seq(UnitSet)
        /\ peerRead' <= Len(wire') /\ Len(wire') - peerRead' <= SndBuf
    BY <1>13, <2>1, LoopSendCalls, SendTypes
  <2>3. sent' \in [AllThreads -> Nat]
    BY <1>13, LoopSendCalls
  <2>4. QED
    BY <1>13, <2>2, <2>3 DEF LoopSend
<1>14. CASE LoopShutdown
  BY <1>14 DEF LoopShutdown
<1>15. ASSUME NEW t \in Threads, ThreadAction(t)
       PROVE  Types'
  <2> USE DEF appVars
  <2>0. t \in AllThreads
    BY DEF AllThreads
  <2>1. CASE BeginCall(t)
    BY <2>1 DEF BeginCall
  <2>2. CASE QueueSend(t)
    <3>1. sent' = [sent EXCEPT ![t] = sent[t] + 1] /\ sent[t] + 1 \in Nat
      BY <2>0, <2>2 DEF QueueSend
    <3>2. sent'[t] = sent[t] + 1
      BY <2>0, <3>1
    <3>3. SendFunctor(Message(t, sent[t] + 1)) \in FunctorSet
      BY <2>0, <3>1, MessageFacts DEF SendFunctor, FunctorSet
    <3>4. queue' \in Seq(FunctorSet)
      BY <2>2, <3>2, <3>3, QueueFacts DEF QueueSend
    <3>5. sent' \in [AllThreads -> Nat]
      BY <2>0, <3>1
    <3>6. QED
      BY <2>2, <3>4, <3>5 DEF QueueSend
  <2>3. CASE StoreDisconnecting(t)
    BY <2>3 DEF StoreDisconnecting
  <2>4. CASE QueueShutdown(t)
    BY <2>4, QueueFacts, PlainFunctor DEF QueueShutdown, PlainNames
  <2>5. CASE FreeStrings(t)
    <3>1. queue' \in Seq(FunctorSet)
      BY <2>5, FreedFacts
    <3>2. QED
      BY <2>5, <3>1 DEF FreeStrings
  <2>6. QED
    BY <1>15, <2>1, <2>2, <2>3, <2>4, <2>5 DEF ThreadAction
<1>16. CASE Peer
  BY <1>16, LenProperties, TcpConnectionAssumption
     DEF Peer, PeerReads, PeerSends, PeerCloses, PeerResets
<1>17. CASE UNCHANGED vars
  BY <1>17 DEF vars
<1>18. QED
  BY <1>1, <1>2, <1>3, <1>4, <1>5, <1>6, <1>7, <1>8, <1>9, <1>10, <1>11, <1>12, <1>13,
     <1>14, <1>15, <1>16, <1>17, Steps

-----------------------------------------------------------------------------
(* What a step does to the queue and to the record of the callbacks.       *)

(* What a step can queue: connectEstablished() no more; connectDestroyed() *)
(* if it is the server's; and the callback for the high-water mark exactly *)
(* if the output grows to the mark.                                        *)
NewFunctors ==
    {f \in FunctorSet :
        /\ f.fn # "connectEstablished"
        /\ f.fn = "connectDestroyed" => RemoveConnection \/ ServerDrops
        /\ f.fn = "highWater" <=> Crosses}

(* Such a functor is queued, the first one leaves and runs, or both; or    *)
(* memory goes.                                                            *)
QueueEffect ==
    \/ queue' = queue /\ ~Crosses
    \/ RunFunctor /\ queue # <<>> /\ queue' = Tail(queue) /\ ~Crosses
    \/ \E f \in NewFunctors : queue' = Append(queue, f)
    \/ RunFunctor /\ queue # <<>> /\ \E f \in NewFunctors : queue' = Append(Tail(queue), f)
    \/ ~Crosses /\ \E t \in Threads : FreeStrings(t)

(* The output grows in sendInLoop() only.                                  *)
LEMMA CrossesFacts ==
  ASSUME Types
  PROVE  /\ UNCHANGED outputBuffer_ => ~Crosses
         /\ \A n \in 1 .. Len(outputBuffer_) : WritesSome(n) => ~Crosses
         /\ \A data \in Seq(UnitSet) : \A k \in 0 .. Len(data) : \A rest :
              Keeps(data, rest, k) =>
                LET len == Len(outputBuffer_)
                    reached == reachesHighWaterMark(len, len + Len(Kept(data, k)))
                IN Crosses <=> Kept(data, k) # <<>> /\ reached
<1>1. /\ outputBuffer_ \in Seq(UnitSet) /\ Len(outputBuffer_) \in Nat
      /\ highWaterMark_ \in Nat
  BY LenProperties, TcpConnectionAssumption DEF Types
<1>2. UNCHANGED outputBuffer_ => ~Crosses
  BY <1>1 DEF Crosses
<1>3. ASSUME NEW n \in 1 .. Len(outputBuffer_), WritesSome(n)
      PROVE  ~Crosses
  <2>1. Len(outputBuffer_') = Len(outputBuffer_) - n
    BY <1>1, <1>3, CutFacts DEF WritesSome, Kept
  <2>2. QED
    BY <1>1, <2>1 DEF Crosses
<1>4. ASSUME NEW data \in Seq(UnitSet), NEW k \in 0 .. Len(data), NEW rest,
             Keeps(data, rest, k)
      PROVE  LET len == Len(outputBuffer_)
                 reached == reachesHighWaterMark(len, len + Len(Kept(data, k)))
             IN Crosses <=> Kept(data, k) # <<>> /\ reached
  <2>1. Kept(data, k) \in Seq(UnitSet)
    BY CutFacts DEF Kept
  <2>2. outputBuffer_' = outputBuffer_ \o Kept(data, k)
    BY <1>4 DEF Keeps, keepRemaining
  <2>3. Len(outputBuffer_') = Len(outputBuffer_) + Len(Kept(data, k))
    BY <1>1, <2>1, <2>2, ConcatProperties
  <2>4. Len(Kept(data, k)) \in Nat /\ (Kept(data, k) = <<>> <=> Len(Kept(data, k)) = 0)
    BY <2>1, LenProperties, EmptySeq
  <2>5. QED
    BY <1>1, <2>3, <2>4 DEF Crosses, reachesHighWaterMark
<1>5. QED
  BY <1>2, <1>3, <1>4

(* Every step does one of these.                                           *)
LEMMA QueueEffects ==
  ASSUME Types, [Next]_vars
  PROVE  QueueEffect
<1>1. /\ \A fn \in {"writeComplete", "shutdownInLoop"} :
            ~Crosses => Functor(fn) \in NewFunctors
      /\ Crosses => Functor("highWater") \in NewFunctors
      /\ ~Crosses /\ (RemoveConnection \/ ServerDrops)
            => Functor("connectDestroyed") \in NewFunctors
  BY PlainFunctor DEF NewFunctors, PlainNames
<1>2. ASSUME NEW data \in Seq(UnitSet), NEW rest,
             GivesUp(rest) \/ \E k \in 0 .. Len(data) : Keeps(data, rest, k)
      PROVE  (queue' = rest /\ ~Crosses) \/ \E f \in NewFunctors : queue' = Append(rest, f)
  <2>1. CASE GivesUp(rest)
    BY <2>1, CrossesFacts DEF GivesUp
  <2>2. ASSUME NEW k \in 0 .. Len(data), Keeps(data, rest, k)
        PROVE  (queue' = rest /\ ~Crosses) \/ \E f \in NewFunctors : queue' = Append(rest, f)
    BY <1>1, <2>2, CrossesFacts DEF Keeps, QueuesAfter
  <2>3. QED
    BY <1>2, <2>1, <2>2
<1>3. CASE connectEstablished \/ ShutdownInLoop \/ CallBack \/ connectDestroyed
  <2>1. RunFunctor /\ queue # <<>> /\ queue' = Tail(queue) /\ UNCHANGED outputBuffer_
    BY <1>3 DEF RunFunctor, connectEstablished, ShutdownInLoop, CallBack, connectDestroyed,
                RunsNext
  <2>2. QED
    BY <2>1, CrossesFacts DEF QueueEffect
<1>4. CASE SendInLoop
  <2>1. queue # <<>> /\ RunFunctor
    BY <1>4 DEF RunFunctor, SendInLoop, RunsNext
  <2>2. \/ queue' = Tail(queue) /\ ~Crosses
        \/ \E f \in NewFunctors : queue' = Append(Tail(queue), f)
    BY <1>2, <1>4, SendInLoopCalls
  <2>3. QED
    BY <2>1, <2>2 DEF QueueEffect
<1>5. CASE LoopSend
  <2>1. (queue' = queue /\ ~Crosses) \/ \E f \in NewFunctors : queue' = Append(queue, f)
    BY <1>2, <1>5, LoopSendCalls
  <2>2. QED
    BY <2>1 DEF QueueEffect
<1>6. CASE handleWrite
  <2>1. ~Crosses
    BY <1>6, WriteCases, CrossesFacts DEF WritesNothing
  <2>2. queue' = queue \/ queue' = Append(queue, Functor("writeComplete"))
    BY <1>6, WriteCases DEF WritesNothing, WritesSome, outputGone
  <2>3. QED
    BY <1>1, <2>1, <2>2 DEF QueueEffect
<1>7. CASE \/ Poll \/ handleRead \/ handleError \/ HandleClose \/ LoopShutdown \/ Peer
           \/ UNCHANGED vars
  <2>1. UNCHANGED <<queue, outputBuffer_>>
    BY <1>7 DEF Poll, handleRead, handleError, HandleClose, LoopShutdown, Peer, vars
  <2>2. QED
    BY <2>1, CrossesFacts DEF QueueEffect
<1>8. CASE RemoveConnection \/ ServerDrops
  <2>1. queue' = Append(queue, Functor("connectDestroyed")) /\ UNCHANGED outputBuffer_
    BY <1>8 DEF RemoveConnection, ServerDrops
  <2>2. QED
    BY <1>1, <1>8, <2>1, CrossesFacts DEF QueueEffect
<1>9. ASSUME NEW t \in Threads, ThreadAction(t)
      PROVE  QueueEffect
  <2>1. ~Crosses
    <3>1. UNCHANGED outputBuffer_
      BY <1>9 DEF ThreadAction, BeginCall, QueueSend, StoreDisconnecting, QueueShutdown,
                  FreeStrings, appVars
    <3>2. QED
      BY <3>1, CrossesFacts
  <2>2. CASE QueueSend(t)
    <3>1. t \in AllThreads
      BY DEF AllThreads
    <3>2. sent'[t] = sent[t] + 1 /\ sent[t] + 1 \in Nat
      BY <2>2, <3>1 DEF QueueSend, Types
    <3>3. SendFunctor(Message(t, sent'[t])) \in NewFunctors
      BY <2>1, <3>1, <3>2, MessageFacts DEF SendFunctor, NewFunctors, FunctorSet
    <3>4. QED
      BY <2>2, <3>3 DEF QueueSend, QueueEffect
  <2>3. CASE BeginCall(t) \/ StoreDisconnecting(t)
    BY <2>1, <2>3 DEF QueueEffect, BeginCall, StoreDisconnecting
  <2>4. CASE QueueShutdown(t) \/ FreeStrings(t)
    BY <1>1, <2>1, <2>4 DEF QueueEffect, QueueShutdown
  <2>5. QED
    BY <1>9, <2>2, <2>3, <2>4 DEF ThreadAction
<1>10. QED
  BY <1>3, <1>4, <1>5, <1>6, <1>7, <1>8, <1>9, Steps

(* A functor of a name that is not new was queued before: behind the front *)
(* if something has left the queue.                                        *)
LEMMA QueuedNames ==
  ASSUME Types, [Next]_vars, NEW fn, \A f \in NewFunctors : f.fn # fn
  PROVE  /\ ~Queued(fn) => ~Queued(fn)'
         /\ (\A i \in 2 .. Len(queue) : queue[i].fn # fn)
               /\ queue # <<>> /\ (queue' = Tail(queue) \/
                                   \E f \in NewFunctors : queue' = Append(Tail(queue), f))
               => ~Queued(fn)'
<1>1. /\ DOMAIN queue = 1 .. Len(queue) /\ Len(queue) \in Nat
      /\ queue' \in Seq(FunctorSet)
  BY QueueFacts, TypesStep DEF Types
<1>2. DOMAIN queue' = 1 .. Len(queue')
  BY <1>1, LenProperties
<1>3. ASSUME NEW s \in Seq(FunctorSet), NEW f \in NewFunctors
      PROVE  \A i \in DOMAIN Append(s, f) :
                \/ i \in DOMAIN s /\ Append(s, f)[i] = s[i]
                \/ Append(s, f)[i].fn # fn
  <2>1. f \in FunctorSet /\ f.fn # fn
    BY DEF NewFunctors
  <2>2. /\ Append(s, f) \in Seq(FunctorSet)
        /\ Len(Append(s, f)) = Len(s) + 1
        /\ \A i \in 1 .. Len(s) : Append(s, f)[i] = s[i]
        /\ Append(s, f)[Len(s) + 1] = f
    BY <2>1, AppendProperties
  <2>3. DOMAIN s = 1 .. Len(s) /\ Len(s) \in Nat
        /\ DOMAIN Append(s, f) = 1 .. Len(s) + 1
    BY <2>2, LenProperties
  <2>4. QED
    BY <2>1, <2>2, <2>3
<1>4. queue # <<>> => \A i \in DOMAIN Tail(queue) :
                         i + 1 \in 2 .. Len(queue) /\ Tail(queue)[i] = queue[i + 1]
  <2>1. SUFFICES ASSUME queue # <<>>
                 PROVE  \A i \in DOMAIN Tail(queue) :
                         i + 1 \in 2 .. Len(queue) /\ Tail(queue)[i] = queue[i + 1]
    OBVIOUS
  <2>2. /\ Tail(queue) \in Seq(FunctorSet) /\ Len(Tail(queue)) = Len(queue) - 1
        /\ \A i \in 1 .. Len(queue) - 1 : Tail(queue)[i] = queue[i + 1]
    BY <2>1, QueueFacts
  <2>3. DOMAIN Tail(queue) = 1 .. Len(queue) - 1
    BY <2>2, LenProperties
  <2>4. QED
    BY <1>1, <2>2, <2>3
<1>5. queue # <<>> => Tail(queue) \in Seq(FunctorSet)
  BY QueueFacts
<1>6. ASSUME NEW t \in Threads, FreeStrings(t)
      PROVE  \A i \in DOMAIN queue' : i \in DOMAIN queue /\ queue'[i].fn = queue[i].fn
  BY <1>1, <1>2, <1>6, FreedFacts DEF SameFunctor
<1>7. ASSUME \A i \in 2 .. Len(queue) : queue[i].fn # fn,
             queue # <<>>,
             queue' = Tail(queue) \/ \E f \in NewFunctors : queue' = Append(Tail(queue), f)
      PROVE  ~Queued(fn)'
  <2>1. CASE queue' = Tail(queue)
    BY <1>4, <1>7, <2>1 DEF Queued
  <2>2. ASSUME NEW f \in NewFunctors, queue' = Append(Tail(queue), f)
        PROVE  ~Queued(fn)'
    <3>1. \A i \in DOMAIN queue' :
             \/ i \in DOMAIN Tail(queue) /\ queue'[i] = Tail(queue)[i]
             \/ queue'[i].fn # fn
      BY <1>3, <1>5, <1>7, <2>2
    <3>2. QED
      BY <1>4, <1>7, <3>1 DEF Queued
  <2>3. QED
    BY <1>7, <2>1, <2>2
<1>8. ASSUME ~Queued(fn)
      PROVE  ~Queued(fn)'
  <2>1. \A i \in DOMAIN queue : queue[i].fn # fn
    BY <1>8 DEF Queued
  <2>2. CASE queue' = queue
    BY <2>1, <2>2 DEF Queued
  <2>3. CASE queue # <<>> /\ (queue' = Tail(queue) \/
                              \E f \in NewFunctors : queue' = Append(Tail(queue), f))
    BY <1>1, <1>7, <2>1, <2>3
  <2>4. ASSUME NEW f \in NewFunctors, queue' = Append(queue, f)
        PROVE  ~Queued(fn)'
    <3>1. queue \in Seq(FunctorSet)
      BY DEF Types
    <3>2. \A i \in DOMAIN queue' :
             \/ i \in DOMAIN queue /\ queue'[i] = queue[i]
             \/ queue'[i].fn # fn
      BY <1>3, <2>4, <3>1
    <3>3. QED
      BY <2>1, <3>2 DEF Queued
  <2>5. CASE \E t \in Threads : FreeStrings(t)
    BY <1>6, <2>1, <2>5 DEF Queued
  <2>6. QED
    BY <2>2, <2>3, <2>4, <2>5, QueueEffects DEF QueueEffect
<1>9. QED
  BY <1>7, <1>8

(* The record of the callbacks only grows, by one at a time.               *)
LEMMA CallsEffect ==
  ASSUME Types, [Next]_vars
  PROVE  \/ calls' = calls
         \/ connectEstablished /\ calls' = Append(calls, "UP")
         \/ CallBack /\ calls' = Append(calls, "highWater")
         \/ handleRead /\ calls' = Append(calls, "message") /\ UNCHANGED <<state_, events_, added>>
         \/ (handleRead \/ HandleClose) /\ handleClose /\ calls' = Append(calls, "DOWN")
         \/ /\ connectDestroyed /\ state_ = "kConnected" /\ calls' = Append(calls, "DOWN")
            /\ state_' = "kDisconnected" /\ events_' = {} /\ ~added'
<1>1. CASE connectEstablished \/ CallBack \/ HandleClose
  BY <1>1, CloseFacts DEF connectEstablished, CallBack, HandleClose
<1>2. CASE connectDestroyed
  BY <1>2 DEF connectDestroyed
<1>3. CASE handleRead
  BY <1>3, CloseFacts DEF handleRead, channelVars
<1>4. CASE \/ SendInLoop \/ ShutdownInLoop \/ Poll \/ handleWrite \/ handleError
           \/ RemoveConnection \/ ServerDrops \/ LoopSend \/ LoopShutdown \/ Peer
           \/ UNCHANGED vars
  BY <1>4 DEF SendInLoop, ShutdownInLoop, Poll, handleWrite, handleError, RemoveConnection,
              ServerDrops, LoopSend, LoopShutdown, Peer, vars
<1>5. ASSUME NEW t \in Threads, ThreadAction(t)
      PROVE  calls' = calls
  BY <1>5 DEF ThreadAction, BeginCall, QueueSend, StoreDisconnecting, QueueShutdown,
              FreeStrings, appVars
<1>6. QED
  BY <1>1, <1>2, <1>3, <1>4, <1>5, Steps

(* Append() on the record.                                                 *)
LEMMA CallsFacts ==
  ASSUME Types
  PROVE  /\ Len(calls) \in Nat /\ DOMAIN calls = 1 .. Len(calls)
         /\ \A c \in Callbacks :
               LET cs == Append(calls, c)
               IN /\ cs # <<>> /\ DOMAIN cs = 1 .. Len(calls) + 1
                  /\ \A i \in 1 .. Len(calls) : cs[i] = calls[i]
                  /\ cs[Len(calls) + 1] = c
         /\ calls = <<>> <=> Len(calls) = 0
<1>1. calls \in Seq(Callbacks)
  BY DEF Types
<1>2. Len(calls) \in Nat /\ DOMAIN calls = 1 .. Len(calls)
  BY <1>1, LenProperties
<1>3. ASSUME NEW c \in Callbacks
      PROVE  LET cs == Append(calls, c)
             IN /\ cs # <<>> /\ DOMAIN cs = 1 .. Len(calls) + 1
                /\ \A i \in 1 .. Len(calls) : cs[i] = calls[i]
                /\ cs[Len(calls) + 1] = c
  <2> DEFINE cs == Append(calls, c)
  <2>1. /\ cs \in Seq(Callbacks) /\ cs # <<>> /\ Len(cs) = Len(calls) + 1
        /\ \A i \in 1 .. Len(calls) : cs[i] = calls[i]
        /\ cs[Len(calls) + 1] = c
    BY <1>1, AppendProperties
  <2>2. DOMAIN cs = 1 .. Len(cs)
    BY <2>1, LenProperties
  <2>3. QED
    BY <2>1, <2>2
<1>4. calls = <<>> <=> Len(calls) = 0
  BY <1>1, EmptySeq
<1>5. QED
  BY <1>2, <1>3, <1>4

(* What has been called stays called.                                      *)
LEMMA CalledGrows ==
  ASSUME Types, [Next]_vars
  PROVE  \A c : Called(c) => Called(c)'
<1>1. calls' = calls \/ \E c \in Callbacks : calls' = Append(calls, c)
  BY CallsEffect DEF Callbacks
<1>2. CASE calls' = calls
  BY <1>2 DEF Called
<1>3. ASSUME NEW c \in Callbacks, calls' = Append(calls, c)
      PROVE  \A b : Called(b) => Called(b)'
  BY <1>3, CallsFacts DEF Called
<1>4. QED
  BY <1>1, <1>2, <1>3

(* One more place in a set of places of a sequence.                        *)
LEMMA PlacesGrow ==
  ASSUME NEW n \in Nat, NEW A \in SUBSET (1 .. n)
  PROVE  /\ IsFiniteSet(A) /\ Cardinality(A) \in Nat
         /\ Cardinality(A \cup {n + 1}) = Cardinality(A) + 1
         /\ A # {} <=> Cardinality(A) > 0
<1>1. IsFiniteSet(A)
  <2>1. IsFiniteSet(1 .. n)
    BY FS_Interval
  <2>2. QED
    BY <2>1, FS_Subset
<1>2. Cardinality(A) \in Nat
  BY <1>1, FS_CardinalityType
<1>3. n + 1 \notin A
  OBVIOUS
<1>4. Cardinality(A \cup {n + 1}) = Cardinality(A) + 1
  BY <1>1, <1>3, FS_AddElement
<1>5. QED
  BY <1>1, <1>2, <1>4, FS_EmptySet

(* How often a callback has been made.                                     *)
LEMMA TimesFacts ==
  ASSUME Types, NEW b
  PROVE  /\ TimesCalled(b) \in Nat
         /\ Called(b) <=> TimesCalled(b) > 0
         /\ calls' = calls => TimesCalled(b)' = TimesCalled(b)
         /\ \A c \in Callbacks : calls' = Append(calls, c) =>
               TimesCalled(b)' = TimesCalled(b) + IF b = c THEN 1 ELSE 0
<1> DEFINE A == {i \in DOMAIN calls : calls[i] = b}
<1>1. Len(calls) \in Nat /\ DOMAIN calls = 1 .. Len(calls)
  BY CallsFacts
<1>2. A \in SUBSET (1 .. Len(calls)) /\ (Called(b) <=> A # {})
  BY <1>1 DEF Called
<1>3. /\ Cardinality(A) \in Nat /\ (A # {} <=> Cardinality(A) > 0)
      /\ Cardinality(A \cup {Len(calls) + 1}) = Cardinality(A) + 1
  BY <1>1, <1>2, PlacesGrow
<1>4. calls' = calls => TimesCalled(b)' = TimesCalled(b)
  BY DEF TimesCalled
<1>5. ASSUME NEW c \in Callbacks, calls' = Append(calls, c)
      PROVE  TimesCalled(b)' = TimesCalled(b) + IF b = c THEN 1 ELSE 0
  <2> DEFINE B == {i \in DOMAIN calls' : calls'[i] = b}
  <2>0. TimesCalled(b)' = Cardinality(B) /\ TimesCalled(b) = Cardinality(A)
    BY DEF TimesCalled
  <2>1. /\ DOMAIN calls' = 1 .. Len(calls) + 1
        /\ \A i \in 1 .. Len(calls) : calls'[i] = calls[i]
        /\ calls'[Len(calls) + 1] = c
    BY <1>5, CallsFacts
  <2>2. CASE b = c
    <3>1. B = A \cup {Len(calls) + 1}
      BY <1>1, <2>1, <2>2
    <3> HIDE DEF A, B
    <3>2. QED
      BY <1>3, <2>0, <2>2, <3>1
  <2>3. CASE b # c
    <3>1. B = A
      BY <1>1, <2>1, <2>3
    <3> HIDE DEF A, B
    <3>2. QED
      BY <1>3, <2>0, <2>3, <3>1
  <2>4. QED
    BY <2>2, <2>3
<1>6. QED
  BY <1>2, <1>3, <1>4, <1>5 DEF TimesCalled

(* Whoever is told "DOWN" has been.                                        *)
LEMMA DownCalled ==
  ASSUME Types, calls' = Append(calls, "DOWN")
  PROVE  Down'
BY CallsFacts DEF Down, Called, Callbacks

-----------------------------------------------------------------------------
(* The beginning.                                                          *)

(* While connectEstablished() waits, nothing of the connection moves but   *)
(* the queue behind it.                                                    *)
LEMMA WaitingStep ==
  ASSUME Types, Fresh, [Next]_vars, state_ = "kConnecting", ~connectEstablished
  PROVE  /\ UNCHANGED <<state_, calls, events_, added, revents_, pc, sent, wire,
                        outputBuffer_, finSent>>
         /\ \/ queue' = queue
            \/ queue' = Append(queue, Functor("connectDestroyed"))
            \/ \E t \in Threads : FreeStrings(t)
<1> USE DEF Fresh
<1>1. CASE SendInLoop \/ ShutdownInLoop \/ CallBack \/ connectDestroyed
  BY <1>1 DEF SendInLoop, ShutdownInLoop, CallBack, connectDestroyed, RunsNext
<1>2. CASE Poll \/ handleWrite \/ handleRead \/ handleError \/ HandleClose
  BY <1>2 DEF Poll, handleWrite, handleRead, handleError, HandleClose
<1>3. CASE LoopSend \/ LoopShutdown
  BY <1>3 DEF LoopSend, LoopShutdown
<1>4. CASE RemoveConnection \/ ServerDrops
  BY <1>4 DEF RemoveConnection, ServerDrops, channelVars, threadVars
<1>5. CASE Peer \/ UNCHANGED vars
  BY <1>5 DEF Peer, vars, channelVars, threadVars
<1>6. ASSUME NEW t \in Threads, ThreadAction(t)
      PROVE  FreeStrings(t) /\ UNCHANGED <<state_, calls, events_, added, revents_, pc,
                                           sent, wire, outputBuffer_, finSent>>
  BY <1>6 DEF ThreadAction, BeginCall, QueueSend, StoreDisconnecting, QueueShutdown,
              FreeStrings, appVars, channelVars, threadVars
<1>7. QED
  BY <1>1, <1>2, <1>3, <1>4, <1>5, <1>6, Steps

(* connectEstablished() runs once, in a connection that nobody has used.   *)
LEMMA EstablishedOnce ==
  ASSUME Types, Fresh, connectEstablished
  PROVE  state_ = "kConnecting"
<1>1. queue # <<>> /\ queue[1].fn = "connectEstablished" /\ 1 \in DOMAIN queue
  BY QueueFacts DEF connectEstablished, RunsNext
<1>2. QED
  BY <1>1 DEF Fresh, Queued

(* How the state changes: nothing goes back to kConnecting, and every step *)
(* to kDisconnected tells the application.                                 *)
LEMMA StateStep ==
  ASSUME [Next]_vars
  PROVE  \/ state_' \in {state_, "kDisconnecting"}
         \/ connectEstablished /\ state_' = "kConnected"
         \/ state_' = "kDisconnected" /\ calls' = Append(calls, "DOWN")
<1>1. CASE connectEstablished \/ LoopShutdown \/ connectDestroyed
  BY <1>1 DEF connectEstablished, LoopShutdown, connectDestroyed
<1>2. CASE handleRead \/ HandleClose
  BY <1>2, CloseFacts DEF handleRead, HandleClose
<1>3. CASE \/ SendInLoop \/ ShutdownInLoop \/ CallBack \/ Poll \/ handleWrite \/ handleError
           \/ RemoveConnection \/ ServerDrops \/ LoopSend \/ Peer \/ UNCHANGED vars
  BY <1>3 DEF SendInLoop, ShutdownInLoop, CallBack, Poll, handleWrite, handleError,
              RemoveConnection, ServerDrops, LoopSend, Peer, vars
<1>4. ASSUME NEW t \in Threads, ThreadAction(t)
      PROVE  state_' \in {state_, "kDisconnecting"}
  BY <1>4 DEF ThreadAction, BeginCall, QueueSend, StoreDisconnecting, QueueShutdown,
              FreeStrings
<1>5. QED
  BY <1>1, <1>2, <1>3, <1>4, Steps

(* Every step keeps what is known of the beginning.                        *)
LEMMA FreshStep ==
  ASSUME Types, Fresh, [Next]_vars
  PROVE  Fresh'
<1>1. CASE connectEstablished
  <2>1. state_ = "kConnecting" /\ calls = <<>>
    BY <1>1, EstablishedOnce DEF Fresh
  <2>2. state_' = "kConnected" /\ calls' = Append(calls, "UP") /\ queue' = Tail(queue)
    BY <1>1 DEF connectEstablished
  <2>3. calls' # <<>> /\ \A i \in DOMAIN calls' : calls'[i] = "UP" <=> i = 1
    BY <2>1, <2>2, CallsFacts DEF Callbacks
  <2>4. /\ queue # <<>>
        /\ \A i \in 2 .. Len(queue) : queue[i].fn # "connectEstablished"
    BY <2>1 DEF Fresh
  <2>5. ~Queued("connectEstablished")'
    BY <2>2, <2>4, QueuedNames DEF NewFunctors
  <2>6. QED
    BY <2>2, <2>3, <2>5 DEF Fresh
<1>2. CASE state_ = "kConnecting" /\ ~connectEstablished
  <2>1. /\ UNCHANGED <<state_, calls, events_, added, revents_, pc, sent, wire,
                       outputBuffer_, finSent>>
        /\ \/ queue' = queue
           \/ queue' = Append(queue, Functor("connectDestroyed"))
           \/ \E t \in Threads : FreeStrings(t)
    BY <1>2, WaitingStep
  <2>2. /\ queue # <<>> /\ queue[1].fn = "connectEstablished" /\ Len(queue) >= 1
        /\ \A i \in 2 .. Len(queue) : queue[i].fn = "connectDestroyed"
    BY <1>2, QueueFacts DEF Fresh
  <2>3. /\ Len(queue') >= 1 /\ queue'[1].fn = "connectEstablished"
        /\ \A i \in 2 .. Len(queue') : queue'[i].fn = "connectDestroyed"
    <3>1. CASE queue' = queue
      BY <2>2, <3>1
    <3>2. CASE queue' = Append(queue, Functor("connectDestroyed"))
      <4>1. /\ Len(queue) \in Nat /\ Len(queue') = Len(queue) + 1
            /\ \A i \in 1 .. Len(queue) : queue'[i] = queue[i]
            /\ queue'[Len(queue) + 1].fn = "connectDestroyed"
        BY <3>2, QueueFacts, PlainFunctor DEF PlainNames
      <4>2. QED
        BY <2>2, <4>1
    <3>3. ASSUME NEW t \in Threads, FreeStrings(t)
          PROVE  /\ Len(queue') >= 1 /\ queue'[1].fn = "connectEstablished"
                 /\ \A i \in 2 .. Len(queue') : queue'[i].fn = "connectDestroyed"
      <4>1. /\ Len(queue') = Len(queue) /\ Len(queue) \in Nat
            /\ \A i \in 1 .. Len(queue) : queue'[i].fn = queue[i].fn
        BY <3>3, FreedFacts, QueueFacts DEF SameFunctor
      <4>2. QED
        BY <2>2, <4>1
    <3>4. QED
      BY <2>1, <3>1, <3>2, <3>3
  <2>4. queue' # <<>> /\ Head(queue') = queue'[1]
    <3>1. Types'
      BY TypesStep
    <3>2. queue' \in Seq(FunctorSet)
      BY <3>1 DEF Types
    <3>3. queue' # <<>>
      BY <2>3, <3>2, EmptySeq
    <3>4. QED
      BY <3>2, <3>3, HeadTailProperties
  <2>5. QED
    BY <1>2, <2>1, <2>3, <2>4 DEF Fresh
<1>3. CASE state_ # "kConnecting" /\ ~connectEstablished
  <2>1. state_' # "kConnecting"
    BY <1>3, StateStep
  <2>2. ~Queued("connectEstablished")'
    BY <1>3, QueuedNames DEF Fresh, NewFunctors
  <2>3. calls' = calls \/ \E c \in Callbacks \ {"UP"} : calls' = Append(calls, c)
    BY <1>3, CallsEffect DEF Callbacks
  <2>4. calls # <<>> /\ \A i \in DOMAIN calls : calls[i] = "UP" <=> i = 1
    BY <1>3 DEF Fresh
  <2>5. calls' # <<>> /\ \A i \in DOMAIN calls' : calls'[i] = "UP" <=> i = 1
    <3>1. CASE calls' = calls
      BY <2>4, <3>1
    <3>2. ASSUME NEW c \in Callbacks \ {"UP"}, calls' = Append(calls, c)
          PROVE  calls' # <<>> /\ \A i \in DOMAIN calls' : calls'[i] = "UP" <=> i = 1
      BY <2>4, <3>2, CallsFacts
    <3>3. QED
      BY <2>3, <3>1, <3>2
  <2>6. QED
    BY <2>1, <2>2, <2>5 DEF Fresh
<1>4. QED
  <2>1. connectEstablished => state_ = "kConnecting"
    BY EstablishedOnce
  <2>2. QED
    BY <1>1, <1>2, <1>3

-----------------------------------------------------------------------------
(* The end.                                                                *)

(* What a step can do to the state: the connection ends, with a "DOWN"; a  *)
(* shutdown() overwrites kDisconnected; or neither.                        *)
Ends ==
    /\ calls' = Append(calls, "DOWN")
    /\ state_ # "kDisconnected" /\ state_' = "kDisconnected"
    /\ UNCHANGED overtaken
    /\ events_' = {} /\ ~added' /\ revents_' \subseteq {"err"}
Overtakes ==
    /\ state_ = "kDisconnected" /\ state_' = "kDisconnecting"
    /\ overtaken' = overtaken + 1
    /\ UNCHANGED <<calls, events_, added, revents_>>
GoesOn ==
    /\ state_' = "kDisconnected" <=> state_ = "kDisconnected"
    /\ UNCHANGED overtaken
    /\ \E c \in Callbacks \ {"DOWN"} : calls' = calls \/ calls' = Append(calls, c)
    /\ state_ = "kDisconnected" => events_' = {} /\ ~added' /\ revents_' \subseteq {"err"}

(* Every step is one of these.                                             *)
LEMMA StateEffects ==
  ASSUME Types, Fresh, Final, [Next]_vars
  PROVE  Ends \/ Overtakes \/ GoesOn
<1> USE DEF GoesOn
<1>1. \A c \in Callbacks : calls' = calls =>
        \E b \in Callbacks \ {"DOWN"} : calls' = calls \/ calls' = Append(calls, b)
  BY DEF Callbacks
<1>2. ASSUME NEW data, NEW rest, GivesUp(rest) \/ \E k \in 0 .. Len(data) : Keeps(data, rest, k),
             UNCHANGED <<state_, overtaken, calls, revents_>>
      PROVE  GoesOn
  <2>1. state_ = "kDisconnected" => UNCHANGED <<events_, added>>
    BY <1>2 DEF GivesUp, Keeps, channelVars
  <2>2. QED
    BY <1>2, <2>1 DEF Final, Callbacks
<1>3. CASE SendInLoop
  BY <1>2, <1>3, SendInLoopCalls DEF SendInLoop
<1>4. CASE LoopSend
  BY <1>2, <1>4, LoopSendCalls DEF LoopSend
<1>5. CASE connectEstablished
  <2>1. state_ # "kDisconnected"
    BY <1>5, EstablishedOnce
  <2>2. QED
    BY <1>5, <2>1 DEF connectEstablished, Callbacks
<1>6. CASE ShutdownInLoop \/ CallBack
  <2>1. /\ UNCHANGED <<state_, overtaken, events_, added, revents_>>
        /\ calls' = calls \/ calls' = Append(calls, "highWater")
    BY <1>6 DEF ShutdownInLoop, CallBack, channelVars
  <2>2. QED
    BY <2>1 DEF Final, Callbacks
<1>7. CASE connectDestroyed
  <2>1. revents_' = {} /\ UNCHANGED overtaken /\ ~added'
    BY <1>7 DEF connectDestroyed, RunsNext
  <2>2. CASE state_ = "kConnected"
    BY <1>7, <2>1, <2>2 DEF connectDestroyed, Ends
  <2>3. CASE state_ # "kConnected"
    BY <1>7, <2>1, <2>3 DEF connectDestroyed, Final, Callbacks
  <2>4. QED
    BY <2>2, <2>3
<1>8. CASE Poll \/ handleError
  <2>1. /\ UNCHANGED <<state_, overtaken, calls, events_, added>>
        /\ state_ = "kDisconnected" => revents_' \subseteq {"err"}
    BY <1>8 DEF Poll, handleError, channelVars, Final
  <2>2. QED
    BY <2>1 DEF Final, Callbacks
<1>9. CASE handleWrite
  <2>1. state_ # "kDisconnected" /\ UNCHANGED <<state_, overtaken, calls>>
    BY <1>9 DEF handleWrite, Final
  <2>2. QED
    BY <2>1 DEF Callbacks
<1>10. CASE handleRead \/ HandleClose
  <2>1. state_ # "kDisconnected" /\ UNCHANGED overtaken
    BY <1>10 DEF handleRead, HandleClose, Final
  <2>2. CASE handleClose
    <3>1. revents_' \subseteq {"err"}
      BY <1>10 DEF handleRead, HandleClose, Types
    <3>2. QED
      BY <2>1, <2>2, <3>1, CloseFacts DEF Ends
  <2>3. CASE ~handleClose
    <3>1. /\ UNCHANGED state_
          /\ calls' = calls \/ calls' = Append(calls, "message")
      BY <1>10, <2>3 DEF handleRead, HandleClose
    <3>2. QED
      BY <2>1, <3>1 DEF Callbacks
  <2>4. QED
    BY <2>2, <2>3
<1>11. CASE RemoveConnection \/ ServerDrops \/ Peer \/ UNCHANGED vars
  <2>1. UNCHANGED <<state_, overtaken, calls, events_, added, revents_>>
    BY <1>11 DEF RemoveConnection, ServerDrops, Peer, vars, channelVars
  <2>2. QED
    BY <2>1 DEF Final, Callbacks
<1>12. CASE LoopShutdown
  BY <1>12 DEF LoopShutdown, Callbacks
<1>13. ASSUME NEW t \in Threads, ThreadAction(t)
       PROVE  Overtakes \/ GoesOn
  <2>1. UNCHANGED <<calls, events_, added, revents_>>
    BY <1>13 DEF ThreadAction, BeginCall, QueueSend, StoreDisconnecting, QueueShutdown,
                 FreeStrings, appVars, channelVars
  <2>2. CASE StoreDisconnecting(t)
    <3>1. CASE state_ = "kDisconnected"
      BY <2>1, <2>2, <3>1 DEF StoreDisconnecting, Overtakes
    <3>2. CASE state_ # "kDisconnected"
      <4>1. overtaken \in Nat
        BY DEF Types
      <4>2. UNCHANGED overtaken /\ state_' = "kDisconnecting"
        BY <2>2, <3>2, <4>1 DEF StoreDisconnecting
      <4>3. QED
        BY <2>1, <3>2, <4>2 DEF Callbacks
    <3>3. QED
      BY <3>1, <3>2
  <2>3. CASE BeginCall(t) \/ QueueSend(t) \/ QueueShutdown(t) \/ FreeStrings(t)
    <3>1. UNCHANGED <<state_, overtaken>>
      BY <2>3 DEF BeginCall, QueueSend, QueueShutdown, FreeStrings
    <3>2. QED
      BY <2>1, <3>1 DEF Final, Callbacks
  <2>4. QED
    BY <1>13, <2>2, <2>3 DEF ThreadAction
<1>14. QED
  BY <1>3, <1>4, <1>5, <1>6, <1>7, <1>8, <1>9, <1>10, <1>11, <1>12, <1>13, Steps

(* After "DOWN" the channel never asks for data again, and none is         *)
(* reported; nor is the connection established again.                      *)
LEMMA DownStep ==
  ASSUME Types, Fresh, Final, [Next]_vars, Down
  PROVE  /\ state_' \in {"kDisconnecting", "kDisconnected"}
         /\ "in" \notin events_' /\ "in" \notin revents_'
         /\ calls' # Append(calls, "message")
<1>1. /\ state_ \in {"kDisconnecting", "kDisconnected"}
      /\ "in" \notin events_ /\ "in" \notin revents_
  BY DEF Final
<1> DEFINE Goal == /\ state_' \in {"kDisconnecting", "kDisconnected"}
                   /\ "in" \notin events_' /\ "in" \notin revents_'
<1>2. ~connectEstablished
  BY <1>1, EstablishedOnce
<1>3. ~handleRead
  BY <1>1 DEF handleRead
<1>4. calls' # Append(calls, "message")
  <2> DEFINE cs(c) == Append(calls, c)
  <2>1. \A c \in Callbacks : /\ DOMAIN cs(c) = 1 .. Len(calls) + 1
                             /\ cs(c)[Len(calls) + 1] = c
    BY CallsFacts
  <2>2. Len(calls) \in Nat /\ DOMAIN calls = 1 .. Len(calls)
    BY CallsFacts
  <2> HIDE DEF cs
  <2>3. calls # cs("message")
    BY <2>1, <2>2 DEF Callbacks
  <2>4. cs("highWater") # cs("message") /\ cs("DOWN") # cs("message")
    BY <2>1 DEF Callbacks
  <2>5. calls # Append(calls, "message") /\ Append(calls, "highWater") # Append(calls, "message")
        /\ Append(calls, "DOWN") # Append(calls, "message")
    BY <2>3, <2>4 DEF cs
  <2>6. QED
    BY <1>2, <1>3, <2>5, CallsEffect
<1> SUFFICES Goal
  BY <1>4
<1>5. ASSUME NEW data, NEW rest, GivesUp(rest) \/ \E k \in 0 .. Len(data) : Keeps(data, rest, k),
             UNCHANGED <<state_, revents_>>
      PROVE  Goal
  BY <1>1, <1>5 DEF GivesUp, Keeps, keepRemaining, update, channelVars
<1>6. CASE SendInLoop
  BY <1>5, <1>6, SendInLoopCalls DEF SendInLoop
<1>7. CASE LoopSend \/ LoopShutdown
  BY <1>1, <1>7 DEF LoopSend, LoopShutdown
<1>8. CASE ShutdownInLoop \/ CallBack \/ handleError
  BY <1>1, <1>8 DEF ShutdownInLoop, CallBack, handleError, channelVars
<1>9. CASE connectDestroyed
  BY <1>1, <1>9 DEF connectDestroyed, RunsNext
<1>10. CASE Poll
  BY <1>1, <1>10 DEF Poll, Reported, channelVars
<1>11. CASE handleWrite
  <2>1. events_' \subseteq events_
    BY <1>11, WriteCases DEF WritesNothing, WritesSome, outputGone, update, channelVars
  <2>2. QED
    BY <1>1, <1>11, <2>1 DEF handleWrite
<1>12. CASE HandleClose
  BY <1>12, CloseFacts DEF HandleClose
<1>13. CASE RemoveConnection \/ ServerDrops \/ Peer \/ UNCHANGED vars
  BY <1>1, <1>13 DEF RemoveConnection, ServerDrops, Peer, vars, channelVars
<1>14. ASSUME NEW t \in Threads, ThreadAction(t)
       PROVE  Goal
  BY <1>1, <1>14 DEF ThreadAction, BeginCall, QueueSend, StoreDisconnecting, QueueShutdown,
                     FreeStrings, appVars, channelVars
<1>15. QED
  BY <1>2, <1>3, <1>6, <1>7, <1>8, <1>9, <1>10, <1>11, <1>12, <1>13, <1>14, Steps

(* The poller has the channel as update() leaves it, until                 *)
(* connectDestroyed() removes it.                                          *)
LEMMA AddedEffects ==
  ASSUME Types, [Next]_vars
  PROVE  \/ UNCHANGED <<added, events_>>
         \/ added' = (events_' # {})
         \/ connectDestroyed /\ ~added'
<1>1. ASSUME NEW data, NEW rest, GivesUp(rest) \/ \E k \in 0 .. Len(data) : Keeps(data, rest, k)
      PROVE  UNCHANGED <<added, events_>> \/ added' = (events_' # {})
  BY <1>1 DEF GivesUp, Keeps, keepRemaining, update, channelVars
<1>2. CASE SendInLoop
  BY <1>1, <1>2, SendInLoopCalls
<1>3. CASE LoopSend
  BY <1>1, <1>3, LoopSendCalls
<1>4. CASE handleWrite
  BY <1>4, WriteCases DEF WritesNothing, WritesSome, outputGone, update, channelVars
<1>5. CASE connectEstablished
  BY <1>5 DEF connectEstablished, update
<1>6. CASE connectDestroyed
  BY <1>6 DEF connectDestroyed
<1>7. CASE handleRead \/ HandleClose
  BY <1>7 DEF handleRead, HandleClose, handleClose, update, channelVars
<1>8. CASE \/ ShutdownInLoop \/ CallBack \/ Poll \/ handleError \/ RemoveConnection
           \/ ServerDrops \/ LoopShutdown \/ Peer \/ UNCHANGED vars
  BY <1>8 DEF ShutdownInLoop, CallBack, Poll, handleError, RemoveConnection, ServerDrops,
              LoopShutdown, Peer, vars, channelVars
<1>9. ASSUME NEW t \in Threads, ThreadAction(t)
      PROVE  UNCHANGED <<added, events_>>
  BY <1>9 DEF ThreadAction, BeginCall, QueueSend, StoreDisconnecting, QueueShutdown,
              FreeStrings, appVars, channelVars
<1>10. QED
  BY <1>2, <1>3, <1>4, <1>5, <1>6, <1>7, <1>8, <1>9, Steps

(* Every step keeps what is known of the end.                              *)
LEMMA FinalStep ==
  ASSUME Types, Fresh, Final, [Next]_vars
  PROVE  Final'
<1> DEFINE times(state) == IF state = "kDisconnected" THEN 1 ELSE 0
           Nothing(cs) == \A i, j \in DOMAIN cs :
               i < j /\ cs[i] = "DOWN" => cs[j] # "message"
<1>1. added' => events_' # {}
  BY AddedEffects DEF Final
<1>2. state_' = "kDisconnected" => events_' = {} /\ ~added' /\ revents_' \subseteq {"err"}
  BY StateEffects DEF Ends, Overtakes, GoesOn
<1>3. TimesCalled("DOWN")' = overtaken' + times(state_')
  <2>1. /\ TimesCalled("DOWN") = overtaken + times(state_)
        /\ overtaken \in Nat /\ TimesCalled("DOWN") \in Nat
    BY TimesFacts DEF Final, Types
  <2>2. CASE Ends
    <3>1. TimesCalled("DOWN")' = TimesCalled("DOWN") + 1
      BY <2>2, TimesFacts DEF Ends, Callbacks
    <3>2. QED
      BY <2>1, <2>2, <3>1 DEF Ends
  <2>3. CASE Overtakes
    <3>1. TimesCalled("DOWN")' = TimesCalled("DOWN")
      BY <2>3, TimesFacts DEF Overtakes
    <3>2. QED
      BY <2>1, <2>3, <3>1 DEF Overtakes
  <2>4. CASE GoesOn
    <3>1. TimesCalled("DOWN")' = TimesCalled("DOWN")
      BY <2>1, <2>4, TimesFacts DEF GoesOn
    <3>2. QED
      BY <2>1, <2>4, <3>1 DEF GoesOn
  <2>5. QED
    BY <2>2, <2>3, <2>4, StateEffects
<1>4. Down' => /\ state_' \in {"kDisconnecting", "kDisconnected"}
               /\ "in" \notin events_' /\ "in" \notin revents_'
  <2>1. CASE Down
    BY <2>1, DownStep
  <2>2. ASSUME ~Down, Down'
        PROVE  Ends
    <3>1. \A i \in DOMAIN calls : calls[i] # "DOWN"
      BY <2>2 DEF Down, Called
    <3>2. \E i \in DOMAIN calls' : calls'[i] = "DOWN"
      BY <2>2 DEF Down, Called
    <3>3. calls' # calls
      BY <3>1, <3>2
    <3>4. ASSUME NEW c \in Callbacks \ {"DOWN"}
          PROVE  calls' # Append(calls, c)
      BY <3>1, <3>2, CallsFacts
    <3>5. QED
      BY <3>3, <3>4, StateEffects DEF Overtakes, GoesOn
  <2>3. QED
    BY <2>1, <2>2 DEF Ends
<1>5. Nothing(calls')
  <2>1. Nothing(calls)
    BY DEF Final
  <2>2. CASE Down
    <3>1. calls' = calls \/ \E c \in Callbacks \ {"message"} : calls' = Append(calls, c)
      BY <2>2, CallsEffect, DownStep DEF Callbacks
    <3>2. ASSUME NEW c \in Callbacks \ {"message"}, calls' = Append(calls, c)
          PROVE  Nothing(calls')
      BY <2>1, <3>2, CallsFacts
    <3>3. QED
      BY <2>1, <3>1, <3>2
  <2>3. CASE ~Down
    <3>1. \A i \in DOMAIN calls : calls[i] # "DOWN"
      BY <2>3 DEF Down, Called
    <3>2. calls' = calls \/ \E c \in Callbacks : calls' = Append(calls, c)
      BY CallsEffect DEF Callbacks
    <3>3. ASSUME NEW c \in Callbacks, calls' = Append(calls, c)
          PROVE  Nothing(calls')
      BY <3>1, <3>3, CallsFacts
    <3>4. QED
      BY <2>1, <3>2, <3>3
  <2>4. QED
    BY <2>2, <2>3
<1>6. QED
  BY <1>1, <1>2, <1>3, <1>4, <1>5 DEF Final

(* The invariant that the theorems about the life of a connection rest on. *)
Life == Booleans /\ Types /\ Fresh /\ Final

(* It holds of a connection that TcpServer has just made.                  *)
LEMMA LifeInit == Init => Life
<1> SUFFICES ASSUME Init
             PROVE  Life
  OBVIOUS
<1> USE DEF Init
<1>1. Booleans
  BY Zenon DEF Booleans
<1> DEFINE f == Functor("connectEstablished")
<1>2. f \in FunctorSet /\ f.fn = "connectEstablished"
  BY PlainFunctor DEF PlainNames
<1>3. /\ queue \in Seq(FunctorSet) /\ queue # <<>> /\ Len(queue) = 1
      /\ Head(queue).fn = "connectEstablished"
  BY <1>2
<1>4. Types
  <2>1. calls \in Seq(Callbacks) /\ wire \in Seq(UnitSet) /\ outputBuffer_ \in Seq(UnitSet)
        /\ Len(wire) = 0
    BY EmptySeq
  <2>2. sent \in [AllThreads -> Nat]
        /\ pc \in [Threads -> {"idle", "send", "shutdown", "queueShutdown"}]
    OBVIOUS
  <2>3. QED
    BY <1>3, <2>1, <2>2, TcpConnectionAssumption DEF Types, StateE
<1>5. DOMAIN calls = {}
  BY <1>4, CallsFacts
<1>6. Fresh
  <2>1. \A i \in 2 .. Len(queue) : FALSE
    BY <1>3
  <2>2. QED
    BY <1>3, <1>5, <2>1 DEF Fresh
<1>7. Final
  <2>1. ~Down /\ TimesCalled("DOWN") = 0
    BY <1>5, FS_EmptySet DEF Down, Called, TimesCalled
  <2>2. QED
    BY <1>5, <2>1 DEF Final
<1>8. QED
  BY <1>1, <1>4, <1>6, <1>7 DEF Life

(* The life of a connection: established once, by the first functor; and,  *)
(* while its state says that it is down, out of the poller.                *)
THEOREM LifeCorrect == SafeSpec => []Life
<1>1. Life /\ [Next]_vars => Life'
  BY BooleansStep, TypesStep, FreshStep, FinalStep DEF Life
<1>2. QED
  BY <1>1, LifeInit, PTL DEF SafeSpec

(* What the count of "DOWN" says of the state.                             *)
LEMMA DownState ==
  ASSUME Life
  PROVE  /\ state_ = "kDisconnected" => Down
         /\ overtaken = 0 /\ Down => state_ = "kDisconnected"
         /\ ~Down => overtaken = 0
<1>1. Types /\ overtaken \in Nat
      /\ TimesCalled("DOWN") = overtaken + IF state_ = "kDisconnected" THEN 1 ELSE 0
  BY DEF Life, Types, Final
<1>2. Down <=> TimesCalled("DOWN") > 0
  BY <1>1, TimesFacts DEF Down
<1>3. QED
  BY <1>1, <1>2

(* Among the types are that the kernel never holds more than it has room   *)
(* for, and that state_ is kDisconnected from the moment the application   *)
(* is told to the moment a shutdown() overwrites it.                       *)
THEOREM TypeCorrect == SafeSpec => []TypeOK
<1>1. ASSUME Life
      PROVE  TypeOK
  <2>1. {added, dropped, finSent, sockErr, incoming} \subseteq BOOLEAN
    BY <1>1 DEF Life, Booleans
  <2>2. overtaken = 0 => (Down <=> state_ = "kDisconnected")
    BY <1>1, DownState
  <2>3. added => events_ # {}
    BY <1>1 DEF Life, Final
  <2>4. QED
    BY <1>1, <2>1, <2>2, <2>3 DEF Life, Types, TypeOK
<1>2. QED
  BY <1>1, LifeCorrect, PTL

(* "UP" comes first, no data after a "DOWN"; "DOWN" comes once, and once   *)
(* more for each shutdown() that overwrote kDisconnected; and the poller   *)
(* does not have the channel of a connection whose state is kDisconnected: *)
(* whichever of the peer, an error, the server and a shutdown() ends the   *)
(* connection, in any interleaving.                                        *)
THEOREM DownStays == SafeSpec => []DownIsFinal
<1>1. ASSUME Life
      PROVE  DownIsFinal
  <2>1. DOMAIN calls = 1 .. Len(calls) /\ Len(calls) \in Nat
        /\ (calls = <<>> <=> Len(calls) = 0)
    BY <1>1, CallsFacts DEF Life
  <2>2. \A i \in DOMAIN calls : calls[i] = "UP" <=> i = 1
    BY <1>1 DEF Life, Fresh
  <2>3. calls # <<>> => calls[1] = "UP"
    BY <2>1, <2>2
  <2>4. \A i, j \in DOMAIN calls : i < j => calls[j] # "UP"
    BY <2>1, <2>2
  <2>5. QED
    BY <1>1, <2>3, <2>4 DEF Life, Final, DownIsFinal
<1>2. QED
  BY <1>1, LifeCorrect, PTL

-----------------------------------------------------------------------------
(* Output: EPOLLOUT, the FIN and the high-water mark.                      *)

(* What changes the output and what the channel asks for.                  *)
OutputEffect ==
    \/ UNCHANGED <<events_, outputBuffer_>>
    \/ events_' = events_ \cup {"in"} /\ UNCHANGED outputBuffer_
    \/ \E remaining \in Seq(UnitSet) : keepRemaining(remaining)
    \/ \E n \in 1 .. Len(outputBuffer_) : WritesSome(n)
    \/ Down'

(* Every step does one of these.                                           *)
LEMMA OutputEffects ==
  ASSUME Types, [Next]_vars
  PROVE  OutputEffect
<1>1. ASSUME NEW data \in Seq(UnitSet), NEW rest,
             GivesUp(rest) \/ \E k \in 0 .. Len(data) : Keeps(data, rest, k)
      PROVE  OutputEffect
  <2>1. CASE GivesUp(rest)
    BY <2>1 DEF GivesUp, channelVars, OutputEffect
  <2>2. ASSUME NEW k \in 0 .. Len(data), Keeps(data, rest, k)
        PROVE  OutputEffect
    <3>1. Kept(data, k) \in Seq(UnitSet)
      BY CutFacts DEF Kept
    <3>2. QED
      BY <2>2, <3>1 DEF Keeps, OutputEffect
  <2>3. QED
    BY <1>1, <2>1, <2>2
<1>2. CASE SendInLoop
  BY <1>1, <1>2, SendInLoopCalls
<1>3. CASE LoopSend
  BY <1>1, <1>3, LoopSendCalls
<1>4. CASE handleWrite
  BY <1>4, WriteCases DEF WritesNothing, channelVars, OutputEffect
<1>5. CASE connectEstablished
  BY <1>5 DEF connectEstablished, update, OutputEffect
<1>6. CASE handleRead \/ HandleClose
  BY <1>6, CloseFacts, DownCalled DEF handleRead, HandleClose, channelVars, OutputEffect
<1>7. CASE connectDestroyed
  BY <1>7, DownCalled DEF connectDestroyed, OutputEffect
<1>8. CASE \/ ShutdownInLoop \/ CallBack \/ Poll \/ handleError \/ RemoveConnection
           \/ ServerDrops \/ LoopShutdown \/ Peer \/ UNCHANGED vars
  BY <1>8 DEF ShutdownInLoop, CallBack, Poll, handleError, RemoveConnection, ServerDrops,
              LoopShutdown, Peer, vars, channelVars, OutputEffect
<1>9. ASSUME NEW t \in Threads, ThreadAction(t)
      PROVE  UNCHANGED <<events_, outputBuffer_>>
  <2>1. CASE BeginCall(t) \/ QueueSend(t) \/ StoreDisconnecting(t) \/ QueueShutdown(t)
    BY <2>1 DEF BeginCall, QueueSend, StoreDisconnecting, QueueShutdown, appVars,
                channelVars
  <2>2. CASE FreeStrings(t)
    BY <2>2 DEF FreeStrings, appVars, channelVars
  <2>3. QED
    BY <1>9, <2>1, <2>2 DEF ThreadAction
<1>10. QED
  BY <1>2, <1>3, <1>4, <1>5, <1>6, <1>7, <1>8, <1>9, Steps DEF OutputEffect

(* Whoever takes the channel from the poller has been asked to: after      *)
(* "DOWN", or by ~TcpServer.                                               *)
Removing ==
    /\ removals > 0 => Down
    /\ Queued("connectDestroyed") => dropped \/ Down

(* Every step keeps that.                                                  *)
LEMMA RemovingStep ==
  ASSUME Types, Removing, [Next]_vars
  PROVE  Removing'
<1>1. Down => Down'
  BY CalledGrows DEF Down
<1>2. removals' > 0 => Down'
  <2>1. CASE UNCHANGED removals
    BY <1>1, <2>1 DEF Removing
  <2>2. CASE handleClose
    BY <2>2, CloseFacts, DownCalled
  <2>3. CASE RemoveConnection
    BY <1>1, <2>3 DEF Removing, RemoveConnection
  <2>4. CASE ~handleClose /\ ~RemoveConnection
    <3>1. UNCHANGED removals
      BY <2>4, Steps
         DEF connectEstablished, SendInLoop, ShutdownInLoop, CallBack, connectDestroyed, Poll,
             handleWrite, handleRead, handleError, HandleClose, ServerDrops, LoopSend,
             LoopShutdown, ThreadAction, BeginCall, QueueSend, StoreDisconnecting,
             QueueShutdown, FreeStrings, Peer, vars, appVars, serverVars
    <3>2. QED
      BY <2>1, <3>1
  <2>5. QED
    BY <2>2, <2>3, <2>4
<1>3. Queued("connectDestroyed")' => dropped' \/ Down'
  <2>1. CASE ServerDrops
    BY <2>1 DEF ServerDrops
  <2>2. CASE RemoveConnection
    BY <1>1, <2>2 DEF Removing, RemoveConnection
  <2>3. CASE ~RemoveConnection /\ ~ServerDrops
    <3>1. \A f \in NewFunctors : f.fn # "connectDestroyed"
      BY <2>3 DEF NewFunctors
    <3>2. ~Queued("connectDestroyed") => ~Queued("connectDestroyed")'
      BY <3>1, QueuedNames
    <3>3. UNCHANGED dropped
      BY <2>3, Steps
         DEF connectEstablished, SendInLoop, ShutdownInLoop, CallBack, connectDestroyed, Poll,
             handleWrite, handleRead, handleError, HandleClose, LoopSend,
             LoopShutdown, ThreadAction, BeginCall, QueueSend, StoreDisconnecting,
             QueueShutdown, FreeStrings, Peer, vars, appVars, serverVars
    <3>4. QED
      BY <1>1, <3>2, <3>3 DEF Removing
  <2>4. QED
    BY <2>1, <2>2, <2>3
<1>4. QED
  BY <1>2, <1>3 DEF Removing

(* EPOLLOUT is asked for as long as output waits, and no longer.           *)
LEMMA WritingStep ==
  ASSUME Types, WritingWhilePending, [Next]_vars, ~Down'
  PROVE  (isWriting <=> outputBuffer_ # <<>>)'
<1>1. isWriting <=> outputBuffer_ # <<>>
  BY CalledGrows DEF Down, WritingWhilePending
<1>2. outputBuffer_ \in Seq(UnitSet)
  BY DEF Types
<1>3. CASE UNCHANGED outputBuffer_ /\ (UNCHANGED events_ \/ events_' = events_ \cup {"in"})
  BY <1>1, <1>3 DEF isWriting
<1>4. ASSUME NEW remaining \in Seq(UnitSet), keepRemaining(remaining)
      PROVE  (isWriting <=> outputBuffer_ # <<>>)'
  <2>1. outputBuffer_' = outputBuffer_ \o remaining
    BY <1>4 DEF keepRemaining
  <2>2. CASE remaining = <<>>
    <3>1. outputBuffer_' = outputBuffer_
      BY <1>2, <2>1, <2>2, ConcatEmptySeq
    <3>2. UNCHANGED events_
      BY <1>4, <2>2 DEF keepRemaining, channelVars
    <3>3. QED
      BY <1>1, <3>1, <3>2 DEF isWriting
  <2>3. CASE remaining # <<>>
    <3>1. outputBuffer_' # <<>>
      BY <1>2, <2>1, <2>3, ConcatEqualIffEmpty
    <3>2. "out" \in events_'
      BY <1>4, <2>3 DEF keepRemaining, isWriting, update, channelVars
    <3>3. QED
      BY <3>1, <3>2 DEF isWriting
  <2>4. QED
    BY <2>2, <2>3
<1>5. ASSUME NEW n \in 1 .. Len(outputBuffer_), WritesSome(n)
      PROVE  (isWriting <=> outputBuffer_ # <<>>)'
  BY <1>5 DEF WritesSome, outputGone, update, channelVars, isWriting
<1>6. QED
  BY <1>3, <1>4, <1>5, OutputEffects DEF OutputEffect

(* The poller keeps the channel as long, unless ~TcpServer dropped it.     *)
LEMMA InPollerStep ==
  ASSUME Life, Removing, WritingWhilePending, [Next]_vars, ~Down'
  PROVE  (isWriting => added \/ DroppedSilently)'
<1>1. Types /\ Fresh /\ Final /\ ~Down
  BY CalledGrows DEF Life, Down
<1>2. calls' # Append(calls, "DOWN")
  BY <1>1, DownCalled
<1>3. dropped => dropped'
  <2>1. ServerDrops => dropped'
    BY DEF ServerDrops
  <2>2. CASE ~ServerDrops
    <3>1. UNCHANGED dropped
      BY <2>2, Steps
         DEF connectEstablished, SendInLoop, ShutdownInLoop, CallBack, connectDestroyed, Poll,
             handleWrite, handleRead, handleError, HandleClose, RemoveConnection, LoopSend,
             LoopShutdown, ThreadAction, BeginCall, QueueSend, StoreDisconnecting,
             QueueShutdown, FreeStrings, Peer, vars, appVars, serverVars
    <3>2. QED
      BY <3>1
  <2>3. QED
    BY <2>1, <2>2
<1>4. DroppedSilently => DroppedSilently'
  <2>1. state_ = "kDisconnecting" => state_' = "kDisconnecting"
    BY <1>1, <1>2, StateStep, EstablishedOnce
  <2>2. QED
    BY <1>3, <2>1 DEF DroppedSilently
<1>5. CASE UNCHANGED <<added, events_>>
  BY <1>1, <1>4, <1>5 DEF WritingWhilePending, isWriting
<1>6. CASE added' = (events_' # {})
  BY <1>6 DEF isWriting
<1>7. CASE connectDestroyed
  <2>1. queue # <<>> /\ Head(queue).fn = "connectDestroyed"
    BY <1>7 DEF connectDestroyed, RunsNext
  <2>2. Queued("connectDestroyed")
    BY <1>1, <2>1, QueueFacts DEF Queued
  <2>3. dropped
    BY <1>1, <2>2 DEF Removing
  <2>4. state_ # "kConnected"
    BY <1>2, <1>7 DEF connectDestroyed
  <2>5. state_ # "kDisconnected"
    BY <1>1, DownState
  <2>6. state_ # "kConnecting"
    BY <1>1, <2>1 DEF Fresh
  <2>7. DroppedSilently
    BY <1>1, <2>3, <2>4, <2>5, <2>6 DEF Types, StateE, DroppedSilently
  <2>8. QED
    BY <1>4, <2>7
<1>8. QED
  BY <1>1, <1>5, <1>6, <1>7, AddedEffects

(* No output is stuck for want of EPOLLOUT, and the loop does not spin on a*)
(* socket that is writable while there is nothing to write, whatever part  *)
(* of a message each write() takes, and whoever removes the channel from   *)
(* the poller.                                                             *)
THEOREM WritingCorrect == SafeSpec => []WritingWhilePending
<1>1. Init => Removing /\ WritingWhilePending
  <2> SUFFICES ASSUME Init
               PROVE  Removing /\ WritingWhilePending
    OBVIOUS
  <2>1. WritingWhilePending
    BY DEF Init, WritingWhilePending, isWriting
  <2>2. queue = <<Functor("connectEstablished")>> /\ removals = 0
    BY DEF Init
  <2>3. ~Queued("connectDestroyed")
    BY <2>2 DEF Queued, Functor
  <2>4. QED
    BY <2>1, <2>2, <2>3 DEF Removing
<1>2. ASSUME Life, Removing, WritingWhilePending, [Next]_vars
      PROVE  Removing' /\ WritingWhilePending'
  <2>1. Types
    BY <1>2 DEF Life
  <2>2. Removing'
    BY <1>2, <2>1, RemovingStep
  <2>3. ~Down' => (isWriting <=> outputBuffer_ # <<>>)'
    BY <1>2, <2>1, WritingStep
  <2>4. ~Down' => (isWriting => added \/ DroppedSilently)'
    BY <1>2, InPollerStep
  <2>5. QED
    BY <2>2, <2>3, <2>4 DEF WritingWhilePending
<1>3. QED
  BY <1>1, <1>2, LifeCorrect, PTL DEF SafeSpec

(* The step that sends the FIN leaves no output behind.                    *)
LEMMA FinLeavesNone ==
  ASSUME Types, WritingWhilePending, [Next]_vars, finSent', ~finSent, ~Down
  PROVE  /\ ShutdownInLoop \/ LoopShutdown \/ handleWrite
         /\ outputBuffer_' = <<>>
<1>1. isWriting <=> outputBuffer_ # <<>>
  BY DEF WritingWhilePending
<1>2. CASE ShutdownInLoop \/ LoopShutdown
  BY <1>1, <1>2 DEF ShutdownInLoop, LoopShutdown, shutdownInLoop
<1>3. CASE handleWrite
  BY <1>3, WriteCases DEF WritesNothing, WritesSome
<1>4. CASE ~ShutdownInLoop /\ ~LoopShutdown /\ ~handleWrite
  <2>1. UNCHANGED finSent
    BY <1>4, Steps
       DEF connectEstablished, SendInLoop, CallBack, connectDestroyed, Poll, handleRead,
           handleError, HandleClose, RemoveConnection, ServerDrops, LoopSend,
           ThreadAction, BeginCall, QueueSend, StoreDisconnecting, QueueShutdown,
           FreeStrings, Peer, vars, appVars
  <2>2. QED
    BY <2>1
<1>5. QED
  BY <1>2, <1>3, <1>4

-----------------------------------------------------------------------------
(* The high-water mark.                                                    *)

(* How often a functor is in a sequence.                                   *)
Times(s, fn) == Cardinality({i \in DOMAIN s : s[i].fn = fn})

(* Once more behind it, ...                                                *)
LEMMA TimesAppend ==
  ASSUME NEW s \in Seq(FunctorSet), NEW f \in FunctorSet, NEW fn
  PROVE  /\ Times(s, fn) \in Nat
         /\ Times(Append(s, f), fn) = Times(s, fn) + IF f.fn = fn THEN 1 ELSE 0
<1> DEFINE n == Len(s)
           t == Append(s, f)
           A == {i \in DOMAIN s : s[i].fn = fn}
           B == {i \in DOMAIN t : t[i].fn = fn}
<1>1. /\ n \in Nat /\ DOMAIN s = 1 .. n
      /\ t \in Seq(FunctorSet) /\ Len(t) = n + 1
      /\ \A i \in 1 .. n : t[i] = s[i]
      /\ t[n + 1] = f
  BY AppendProperties, LenProperties
<1>2. DOMAIN t = 1 .. n + 1
  BY <1>1, LenProperties
<1>3. A \in SUBSET (1 .. n)
  BY <1>1
<1>4. Cardinality(A) \in Nat /\ Cardinality(A \cup {n + 1}) = Cardinality(A) + 1
  BY <1>1, <1>3, PlacesGrow
<1>5. Times(s, fn) = Cardinality(A) /\ Times(t, fn) = Cardinality(B)
  BY DEF Times
<1>6. f.fn = fn => B = A \cup {n + 1}
  BY <1>1, <1>2
<1>7. f.fn # fn => B = A
  BY <1>1, <1>2
<1>8. Cardinality(B) = Cardinality(A) + IF f.fn = fn THEN 1 ELSE 0
  <2> HIDE DEF A, B, n
  <2>1. CASE f.fn = fn
    BY <1>4, <1>6, <2>1
  <2>2. CASE f.fn # fn
    BY <1>4, <1>7, <2>2
  <2>3. QED
    BY <2>1, <2>2
<1>9. QED
  BY <1>4, <1>5, <1>8

(* ... and once less when it leaves its front.                             *)
LEMMA TimesTail ==
  ASSUME NEW s \in Seq(FunctorSet), s # <<>>, NEW fn
  PROVE  Times(Tail(s), fn) = Times(s, fn) - IF Head(s).fn = fn THEN 1 ELSE 0
<1> DEFINE n == Len(s)
           t == Tail(s)
           A == {i \in DOMAIN s : s[i].fn = fn}
           B == {i \in DOMAIN t : t[i].fn = fn}
           C == A \ {1}
           Shift == [i \in B |-> i + 1]
<1>1. /\ n \in Nat /\ n >= 1 /\ DOMAIN s = 1 .. n
      /\ t \in Seq(FunctorSet) /\ Len(t) = n - 1
      /\ \A i \in 1 .. n - 1 : t[i] = s[i + 1]
      /\ Head(s) = s[1]
  BY HeadTailProperties, LenProperties, EmptySeq
<1>2. DOMAIN t = 1 .. n - 1
  BY <1>1, LenProperties
<1>3. IsFiniteSet(A) /\ IsFiniteSet(B)
  <2>1. A \in SUBSET (1 .. n) /\ B \in SUBSET (1 .. n - 1) /\ n - 1 \in Nat
    BY <1>1, <1>2
  <2>2. QED
    BY <1>1, <2>1, PlacesGrow
<1>4. Cardinality(C) = Cardinality(B) /\ IsFiniteSet(C)
  <2>1. Shift \in [B -> C]
    BY <1>1, <1>2
  <2>2. \A i, j \in B : Shift[i] = Shift[j] => i = j
    BY <1>1, <1>2
  <2>3. \A c \in C : \E i \in B : Shift[i] = c
    <3>1. SUFFICES ASSUME NEW c \in C
                   PROVE  \E i \in B : Shift[i] = c
      OBVIOUS
    <3>2. c - 1 \in B /\ (c - 1) + 1 = c
      BY <1>1, <1>2
    <3>3. QED
      BY <3>2
  <2>4. Shift \in Bijection(B, C)
    BY <2>1, <2>2, <2>3, Fun_IsBij
  <2>5. QED
    BY <1>3, <2>4, FS_Bijection DEF ExistsBijection
<1>5. Times(s, fn) = Cardinality(A) /\ Times(t, fn) = Cardinality(B)
  BY DEF Times
<1>6. 1 \in A <=> Head(s).fn = fn
  BY <1>1
<1>7. Cardinality(A) \in Nat
  BY <1>3, FS_CardinalityType
<1>8. Cardinality(C) = IF 1 \in A THEN Cardinality(A) - 1 ELSE Cardinality(A)
  <2> HIDE DEF A
  <2>1. QED
    BY <1>3, FS_RemoveElement
<1> HIDE DEF A, B, C, Shift
<1>9. QED
  BY <1>4, <1>5, <1>6, <1>7, <1>8

(* When a string goes, nothing leaves the queue.                           *)
LEMMA TimesFreed ==
  ASSUME Types, NEW t \in Threads, FreeStrings(t), NEW fn
  PROVE  TimesQueued(fn)' = TimesQueued(fn)
<1>1. /\ Len(queue) \in Nat /\ DOMAIN queue = 1 .. Len(queue)
      /\ DOMAIN queue' = 1 .. Len(queue)
      /\ \A i \in 1 .. Len(queue) : queue'[i].fn = queue[i].fn
  BY QueueFacts, FreedFacts, LenProperties DEF SameFunctor
<1>2. {i \in DOMAIN queue' : queue'[i].fn = fn} = {i \in DOMAIN queue : queue[i].fn = fn}
  BY <1>1
<1>3. QED
  BY <1>2 DEF TimesQueued

(* The callback for the mark is made by the functor that is queued for it. *)
LEMMA HighWaterCalled ==
  ASSUME Types, [Next]_vars
  PROVE  TimesCalled("highWater")' = TimesCalled("highWater")
            + IF RunFunctor /\ RunsNext("highWater") THEN 1 ELSE 0
<1>1. RunFunctor /\ RunsNext("highWater") <=> CallBack /\ RunsNext("highWater")
  BY DEF RunFunctor, RunsNext, connectEstablished, SendInLoop, ShutdownInLoop, CallBack,
         connectDestroyed
<1>2. CASE CallBack /\ RunsNext("highWater")
  <2>1. calls' = Append(calls, "highWater")
    BY <1>2 DEF CallBack, RunsNext
  <2>2. QED
    BY <1>1, <1>2, <2>1, TimesFacts DEF Callbacks
<1>3. CASE ~(CallBack /\ RunsNext("highWater"))
  <2>1. calls' = calls \/ \E c \in Callbacks \ {"highWater"} : calls' = Append(calls, c)
    BY <1>3, CallsEffect DEF CallBack, Callbacks
  <2>2. TimesCalled("highWater")' = TimesCalled("highWater") /\ TimesCalled("highWater") \in Nat
    BY <2>1, TimesFacts
  <2>3. QED
    BY <1>1, <1>3, <2>2
<1>4. QED
  BY <1>2, <1>3

(* Output that has grown to the mark is announced, by a functor that is    *)
(* queued or a callback that is made, once each time and never else,       *)
(* however small the steps in which it grew and shrank.                    *)
THEOREM HighWater == SafeSpec => HighWaterTold
<1>1. ASSUME Types, [Next]_vars
      PROVE  Announced' = Announced + IF Crosses THEN 1 ELSE 0
  <2> DEFINE one == IF Crosses THEN 1 ELSE 0
             runs == IF RunFunctor /\ RunsNext("highWater") THEN 1 ELSE 0
  <2>1. queue \in Seq(FunctorSet)
    BY <1>1 DEF Types
  <2>2. /\ TimesQueued("highWater") = Times(queue, "highWater")
        /\ TimesQueued("highWater")' = Times(queue', "highWater")
    BY DEF TimesQueued, Times
  <2>3. TimesQueued("highWater") \in Nat /\ TimesCalled("highWater") \in Nat
    <3>1. PlainNames # {} /\ Functor("writeComplete") \in FunctorSet
      BY PlainFunctor DEF PlainNames
    <3>2. QED
      BY <1>1, <2>1, <2>2, <3>1, TimesAppend, TimesFacts
  <2>4. TimesCalled("highWater")' = TimesCalled("highWater") + runs
    BY <1>1, HighWaterCalled
  <2>5. TimesQueued("highWater")' = TimesQueued("highWater") + one - runs
    <3>1. CASE RunFunctor /\ RunsNext("highWater")
      <4>1. queue' = Tail(queue) /\ queue # <<>> /\ UNCHANGED outputBuffer_
            /\ Head(queue).fn = "highWater"
        BY <3>1 DEF RunFunctor, RunsNext, connectEstablished, SendInLoop, ShutdownInLoop,
                    CallBack, connectDestroyed
      <4>2. Times(queue', "highWater") = Times(queue, "highWater") - 1
        BY <2>1, <4>1, TimesTail
      <4>3. ~Crosses
        BY <1>1, <4>1, CrossesFacts
      <4>4. QED
        BY <2>2, <2>3, <3>1, <4>2, <4>3
    <3>2. CASE ~(RunFunctor /\ RunsNext("highWater"))
      <4>1. RunFunctor => Head(queue).fn # "highWater"
        BY <3>2 DEF RunFunctor, RunsNext, connectEstablished, SendInLoop, ShutdownInLoop,
                    CallBack, connectDestroyed
      <4>2. ASSUME RunFunctor, queue # <<>>
            PROVE  /\ Tail(queue) \in Seq(FunctorSet)
                   /\ Times(Tail(queue), "highWater") = Times(queue, "highWater")
        <5>1. Times(Tail(queue), "highWater") = Times(queue, "highWater") - 0
          BY <2>1, <4>1, <4>2, TimesTail
        <5>2. QED
          BY <1>1, <2>2, <2>3, <4>2, <5>1, QueueFacts
      <4>3. ASSUME NEW s \in Seq(FunctorSet), NEW f \in NewFunctors
            PROVE  Times(Append(s, f), "highWater") = Times(s, "highWater") + one
        <5>1. f \in FunctorSet /\ (f.fn = "highWater" <=> Crosses)
          BY DEF NewFunctors
        <5>2. QED
          BY <5>1, TimesAppend
      <4>4. TimesQueued("highWater")' = TimesQueued("highWater") + one
        <5>1. CASE queue' = queue /\ ~Crosses
          BY <2>2, <2>3, <5>1
        <5>2. CASE RunFunctor /\ queue # <<>> /\ queue' = Tail(queue) /\ ~Crosses
          BY <2>2, <2>3, <4>2, <5>2
        <5>3. CASE \E f \in NewFunctors : queue' = Append(queue, f)
          BY <2>1, <2>2, <4>3, <5>3
        <5>4. CASE /\ RunFunctor /\ queue # <<>>
                   /\ \E f \in NewFunctors : queue' = Append(Tail(queue), f)
          BY <2>2, <4>2, <4>3, <5>4
        <5>5. CASE ~Crosses /\ \E t \in Threads : FreeStrings(t)
          BY <1>1, <2>3, <5>5, TimesFreed
        <5>6. QED
          BY <1>1, <5>1, <5>2, <5>3, <5>4, <5>5, QueueEffects DEF QueueEffect
      <4>5. QED
        BY <2>3, <3>2, <4>4
    <3>3. QED
      BY <3>1, <3>2
  <2>6. QED
    BY <2>3, <2>4, <2>5 DEF Announced
<1>2. Life /\ [Next]_vars => [Announced' = Announced + IF Crosses THEN 1 ELSE 0]_vars
  BY <1>1 DEF Life
<1>3. QED
  BY <1>2, LifeCorrect, PTL DEF SafeSpec, HighWaterTold

=============================================================================
