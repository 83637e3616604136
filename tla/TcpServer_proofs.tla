-------------------------- MODULE TcpServer_proofs --------------------------
(***************************************************************************)
(* Proofs about TcpServer for any number of threads, connections,          *)
(* descriptors and calls of start().                                       *)
(***************************************************************************)
EXTENDS TcpServer, SequenceTheorems, FiniteSetTheorems, TLAPS

FunctorNames == {"listen", "connectEstablished", "removeConnectionInLoop",
                 "connectDestroyed"}
FunctorSet == [fn : FunctorNames, conn : Conns \cup {0}]

ToEstablish(c) == Functor("connectEstablished", c)
ToRemove(c) == Functor("removeConnectionInLoop", c)
ToDestroy(c) == Functor("connectDestroyed", c)

(* The pool has all the loops it is to have.                               *)
poolReady == Len(loops_) = numThreads_

(* The part of TypeOK that says nothing of lengths, with the types of the  *)
(* sequences.                                                              *)
Types ==
    /\ opc \in OwnerControl /\ spc \in {"idle", "start"}
    /\ started_ \in BOOLEAN
    /\ numThreads_ \in 0 .. MaxThreads
    /\ loops_ \in Seq(SubLoops)
    /\ made \in [Callers -> Nat] /\ quits \in Nat
    /\ next_ \in Nat
    /\ listening_ \in BOOLEAN /\ backlog \in 0 .. MaxConns
    /\ nextConnId_ \in 1 .. MaxConns + 1
    /\ connections_ \subseteq Accepted
    /\ ioLoop \in [Conns -> Loops]
    /\ state_ \in [Conns -> {"kConnecting", "kConnected", "kDisconnecting",
                             "kDisconnected"}]
    /\ registered \in [Conns -> {"no", "enabled", "disabled"}]
    /\ told \in [Conns -> {<<>>, <<"UP">>, <<"UP", "DOWN">>}]
    /\ ran \in [Conns -> SUBSET Loops] /\ mapUsers \subseteq {Base}
    /\ peer \in [Conns -> {"open", "closed"}]
    /\ loopState \in [Loops -> LoopControl]
    /\ queue \in [Loops -> Seq(FunctorSet)]
    /\ batch \in [Loops -> Nat]
    /\ held \in [Loops -> SUBSET (Conns \cup {0})]
    /\ dispatching \in [Loops -> BOOLEAN]

(* The pool is complete before a connection is accepted; next_ is one of   *)
(* its loops; and there are clients enough.                                *)
PoolOK ==
    /\ Len(loops_) <= numThreads_
    /\ \A i \in 1 .. Len(loops_) : loops_[i] = i
    /\ loops_ # <<>> => next_ < Len(loops_)
    /\ nextConnId_ = 1 => next_ = 0
    /\ listening_ \/ nextConnId_ # 1 => poolReady
    /\ backlog + nextConnId_ <= MaxConns + 1

(* The one caller of start() who goes on makes every loop of the pool.     *)
StartOK ==
    /\ ~started_ => /\ opc # "start" /\ spc = "idle"
                    /\ loops_ = <<>>
                    /\ \A caller \in Callers : made[caller] = 0
    /\ opc = "start" => spc = "idle" /\ made["owner"] = Len(loops_)
    /\ spc = "start" => opc # "start" /\ made["other"] = Len(loops_)
    /\ \A caller \in Callers : made[caller] <= numThreads_
    /\ quits <= Len(loops_)

(* The base loop runs when its owner is in loop(), the loops of the pool   *)
(* until it is destroyed; the batch is the front of the queue of a loop    *)
(* that runs.                                                              *)
BatchOK(l) ==
    /\ batch[l] <= Len(queue[l])
    /\ ~Runs(l) => batch[l] = 0 /\ held[l] = {}
RunOK ==
    /\ Runs(Base) <=> opc = "loop"
    /\ \A l \in SubLoops :
          IF l <= Len(loops_)
            THEN opc \notin {"pool", "gone", "end"}
                   => loopState[l] \in {"published", "running"}
            ELSE loopState[l] = "none"
    /\ loopState[Base] # "published"
    /\ \A l \in Loops : BatchOK(l)

LoopsOK == PoolOK /\ RunOK

(* A functor of a connection is queued in the connection's loop, except    *)
(* for the removal from the server's map, which is in the base loop; and   *)
(* connectEstablished() is not queued there, but called at once.           *)
FunctorOK(l, f) ==
    \/ f.fn = "listen" /\ f.conn = 0 /\ l = Base /\ poolReady
    \/ f.fn = "removeConnectionInLoop" /\ f.conn \in Accepted /\ l = Base
    \/ /\ f.fn \in {"connectEstablished", "connectDestroyed"}
       /\ f.conn \in Accepted
       /\ l = ioLoop[f.conn]
       /\ f.fn = "connectEstablished" => l # Base

(* Two functors of one connection in one queue are connectEstablished()    *)
(* and, behind it, connectDestroyed().                                     *)
Follows(f, g) ==
    f.conn = g.conn /\ f.conn # 0 =>
        f.fn = "connectEstablished" /\ g.fn = "connectDestroyed"
Shape(q) == \A i, j \in 1 .. Len(q) : i < j => Follows(q[i], q[j])

QueueOK(l) ==
    /\ Shape(queue[l])
    /\ \A f \in ToSet(queue[l]) : FunctorOK(l, f)

(* What TypeOK says of the state of a connection, and the state of one     *)
(* that is not there yet.                                                  *)
StateAgrees(c) ==
    /\ state_[c] = "kConnecting" <=> told[c] = <<>>
    /\ state_[c] = "kDisconnected" <=> Down(c)
    /\ registered[c] = "enabled" => told[c] = <<"UP">>
    /\ c \notin Accepted => /\ state_[c] = "kConnecting"
                            /\ registered[c] = "no"
                            /\ ran[c] = {}

(* Where a connection is on its way, also while the server is destroyed:   *)
(* whatever is still to be done for it is queued where it is to be done.   *)
Placed(c) ==
    LET io == ioLoop[c]
    IN /\ io <= Len(loops_) /\ (io = Base <=> numThreads_ = 0)
       /\ ran[c] \subseteq {io}
       /\ Pending(io, ToEstablish(c)) => told[c] = <<>>
       /\ Pending(Base, ToRemove(c)) => Down(c) /\ io # Base
       /\ Pending(io, ToDestroy(c)) => c \notin connections_
       /\ told[c] = <<>> /\ PollerExists(io) => Pending(io, ToEstablish(c))
       /\ c \notin connections_ /\ PollerExists(io)
            /\ (told[c] = <<>> \/ registered[c] # "no") => Pending(io, ToDestroy(c))
       /\ ~Destroying =>
            /\ ~Down(c) => c \in connections_
            /\ Pending(Base, ToRemove(c)) <=> Down(c) /\ c \in connections_

Inv ==
    /\ Types /\ LoopsOK /\ StartOK
    /\ \A l \in Loops : QueueOK(l)
    /\ \A c \in Conns : StateAgrees(c)
    /\ \A c \in Accepted : Placed(c)

-----------------------------------------------------------------------------
(* Queues.                                                                 *)

(* What Append() does to the elements, the order and the types.            *)
LEMMA PushFacts ==
  ASSUME NEW q \in [Loops -> Seq(FunctorSet)], NEW l \in Loops,
         NEW f \in FunctorSet
  PROVE  /\ Push(q, l, f) \in [Loops -> Seq(FunctorSet)]
         /\ \A k \in Loops \ {l} : Push(q, l, f)[k] = q[k]
         /\ Len(Push(q, l, f)[l]) = Len(q[l]) + 1
         /\ \A g : g \in ToSet(Push(q, l, f)[l]) <=> g \in ToSet(q[l]) \/ g = f
         /\ Shape(q[l]) /\ (\A g \in ToSet(q[l]) : Follows(g, f))
              => Shape(Push(q, l, f)[l])
<1> DEFINE s == q[l]
           t == Append(s, f)
<1>1. s \in Seq(FunctorSet)
  OBVIOUS
<1>2. /\ t \in Seq(FunctorSet)
      /\ Len(t) = Len(s) + 1
      /\ \A i \in 1 .. Len(s) : t[i] = s[i]
      /\ t[Len(s) + 1] = f
  BY <1>1, AppendProperties
<1>3. Len(s) \in Nat /\ DOMAIN s = 1 .. Len(s) /\ DOMAIN t = 1 .. Len(t)
  BY <1>1, <1>2, LenProperties
<1>4. /\ Push(q, l, f) \in [Loops -> Seq(FunctorSet)]
      /\ \A k \in Loops \ {l} : Push(q, l, f)[k] = q[k]
      /\ Push(q, l, f)[l] = t
  BY <1>2 DEF Push
<1>5. ToSet(t) = ToSet(s) \cup {f}
  <2> HIDE DEF s, t
  <2>1. DOMAIN t = DOMAIN s \cup {Len(s) + 1}
    BY <1>2, <1>3
  <2>2. QED
    BY <2>1, <1>2, <1>3 DEF ToSet
<1>6. ASSUME Shape(s), \A g \in ToSet(s) : Follows(g, f)
      PROVE  Shape(t)
  <2> HIDE DEF s, t
  <2>1. SUFFICES ASSUME NEW i \in 1 .. Len(t), NEW j \in 1 .. Len(t), i < j
                 PROVE  Follows(t[i], t[j])
    BY DEF Shape
  <2>2. i \in 1 .. Len(s) /\ t[i] = s[i]
    BY <2>1, <1>2, <1>3
  <2>3. CASE j = Len(s) + 1
    <3>1. s[i] \in ToSet(s)
      BY <2>2, <1>3 DEF ToSet
    <3>2. QED
      BY <3>1, <2>2, <2>3, <1>2, <1>6
  <2>4. CASE j # Len(s) + 1
    <3>1. j \in 1 .. Len(s) /\ t[j] = s[j]
      BY <2>4, <1>2, <1>3
    <3>2. QED
      BY <3>1, <2>1, <2>2, <1>6 DEF Shape
  <2>5. QED
    BY <2>3, <2>4
<1>7. QED
  BY <1>2, <1>4, <1>5, <1>6

(* What Tail() does to them.                                               *)
LEMMA PopFacts ==
  ASSUME queue \in [Loops -> Seq(FunctorSet)], NEW l \in Loops,
         queue[l] # <<>>, Shape(queue[l])
  PROVE  /\ Pop(l) \in [Loops -> Seq(FunctorSet)]
         /\ \A k \in Loops \ {l} : Pop(l)[k] = queue[k]
         /\ Len(queue[l]) = Len(Pop(l)[l]) + 1
         /\ Head(queue[l]) \in FunctorSet
         /\ ToSet(queue[l]) = ToSet(Pop(l)[l]) \cup {Head(queue[l])}
         /\ Shape(Pop(l)[l])
         /\ \A g \in ToSet(Pop(l)[l]) : Follows(Head(queue[l]), g)
<1> DEFINE s == queue[l]
           t == Tail(s)
<1>1. s \in Seq(FunctorSet)
  OBVIOUS
<1>2. /\ t \in Seq(FunctorSet)
      /\ Len(s) = Len(t) + 1
      /\ \A i \in 1 .. Len(t) : t[i] = s[i + 1]
      /\ Head(s) \in FunctorSet /\ Head(s) = s[1]
  <2>1. /\ Head(s) \in FunctorSet
        /\ Tail(s) \in Seq(FunctorSet)
        /\ Len(Tail(s)) = Len(s) - 1
        /\ \A i \in 1 .. Len(Tail(s)) : Tail(s)[i] = s[i + 1]
    BY <1>1, HeadTailProperties
  <2>2. Len(s) \in Nat /\ Head(s) = s[1]
    BY <1>1, LenProperties
  <2>3. QED
    BY <2>1, <2>2
<1>3. Len(t) \in Nat /\ DOMAIN s = 1 .. Len(s) /\ DOMAIN t = 1 .. Len(t)
  BY <1>1, <1>2, LenProperties
<1>4. /\ Pop(l) \in [Loops -> Seq(FunctorSet)]
      /\ \A k \in Loops \ {l} : Pop(l)[k] = queue[k]
      /\ Pop(l)[l] = t
  BY <1>2 DEF Pop
<1>5. ToSet(s) = ToSet(t) \cup {Head(s)}
  <2> HIDE DEF s, t
  <2>1. \A i \in DOMAIN s : i = 1 \/ (i - 1 \in DOMAIN t /\ t[i - 1] = s[i])
    BY <1>2, <1>3
  <2>2. \A i \in DOMAIN t : i + 1 \in DOMAIN s /\ t[i] = s[i + 1]
    BY <1>2, <1>3
  <2>3. 1 \in DOMAIN s
    BY <1>2, <1>3
  <2>4. ASSUME NEW f \in ToSet(s)
        PROVE  f \in ToSet(t) \cup {Head(s)}
    <3>1. PICK i \in DOMAIN s : f = s[i]
      BY <2>4 DEF ToSet
    <3>2. QED
      BY <3>1, <2>1, <1>2 DEF ToSet
  <2>5. ToSet(t) \subseteq ToSet(s)
    BY <2>2 DEF ToSet
  <2>6. Head(s) \in ToSet(s)
    BY <2>3, <1>2 DEF ToSet
  <2>7. QED
    BY <2>4, <2>5, <2>6
<1>6. Shape(t)
  <2> HIDE DEF t
  <2>1. SUFFICES ASSUME NEW i \in 1 .. Len(t), NEW j \in 1 .. Len(t), i < j
                 PROVE  Follows(t[i], t[j])
    BY DEF Shape
  <2>2. i + 1 \in 1 .. Len(s) /\ j + 1 \in 1 .. Len(s) /\ i + 1 < j + 1
    BY <2>1, <1>2, <1>3
  <2>3. Follows(s[i + 1], s[j + 1])
    BY <2>2 DEF Shape
  <2>4. QED
    BY <2>3, <1>2
<1>7. ASSUME NEW g \in ToSet(t)
      PROVE  Follows(Head(s), g)
  <2> HIDE DEF t
  <2>1. PICK i \in 1 .. Len(t) : g = t[i]
    BY <1>7, <1>3 DEF ToSet
  <2>2. 1 \in 1 .. Len(s) /\ i + 1 \in 1 .. Len(s) /\ 1 < i + 1
    BY <1>2, <1>3
  <2>3. Follows(s[1], s[i + 1])
    BY <2>2 DEF Shape
  <2>4. QED
    BY <2>1, <2>3, <1>2
<1>8. QED
  BY <1>2, <1>4, <1>5, <1>6, <1>7

-----------------------------------------------------------------------------
(* Facts about the steps that several proofs use.                          *)

(* The base loop and those of the pool.                                    *)
LEMMA LoopsFacts ==
  /\ Base \in Loops /\ Base \notin SubLoops
  /\ \A l \in Loops : l # Base => l \in SubLoops
  /\ SubLoops \subseteq Loops
  /\ 0 \notin Conns
BY TcpServerAssumption DEF Loops, SubLoops, Base, Conns

(* The functor a loop calls is one of the kinds, of a connection that was  *)
(* accepted, at the front of the queue of a loop that runs.                *)
LEMMA CallFacts ==
  ASSUME Types, LoopsOK, NEW l \in Loops, QueueOK(l), NEW fn, Calls(l, fn)
  PROVE  /\ queue[l] # <<>> /\ Len(queue[l]) \in Nat
         /\ batch[l] \in 1 .. Len(queue[l])
         /\ Runs(l)
         /\ Head(queue[l]) = Functor(fn, Head(queue[l]).conn)
         /\ Head(queue[l]) \in ToSet(queue[l])
         /\ FunctorOK(l, Head(queue[l]))
         /\ Head(queue[l]).conn \in Conns \cup {0}
<1>1. queue[l] \in Seq(FunctorSet) /\ batch[l] \in Nat /\ batch[l] > 0
  BY DEF Types, Calls
<1>2. Len(queue[l]) \in Nat /\ DOMAIN queue[l] = 1 .. Len(queue[l])
  BY <1>1, LenProperties
<1>3. batch[l] \in 1 .. Len(queue[l]) /\ Runs(l)
  BY <1>1, <1>2 DEF LoopsOK, PoolOK, RunOK, BatchOK
<1>4. queue[l] # <<>>
  BY <1>1, <1>2, <1>3, EmptySeq
<1>5. Head(queue[l]) \in FunctorSet /\ Head(queue[l]) \in ToSet(queue[l])
  BY <1>1, <1>4, PopFacts DEF Types, QueueOK
<1>6. Head(queue[l]) = Functor(fn, Head(queue[l]).conn)
  BY <1>5 DEF FunctorSet, Functor, Calls
<1>7. QED
  BY <1>2, <1>3, <1>4, <1>5, <1>6 DEF QueueOK, FunctorSet

(* The loop a new connection gets is the base loop if there is no pool,    *)
(* and one of the pool otherwise.                                          *)
LEMMA NextLoopFacts ==
  ASSUME Types, LoopsOK, poolReady
  PROVE  /\ getNextLoop.loop \in Loops /\ getNextLoop.next \in Nat
         /\ getNextLoop.loop <= Len(loops_)
         /\ getNextLoop.loop = Base <=> numThreads_ = 0
         /\ loops_ # <<>> => getNextLoop.next < Len(loops_)
         /\ loops_ # <<>> =>
              /\ getNextLoop.loop = next_ + 1
              /\ getNextLoop.next = IF next_ + 1 = Len(loops_) THEN 0 ELSE next_ + 1
<1>1. /\ Len(loops_) \in Nat /\ Len(loops_) = numThreads_ /\ next_ \in Nat
      /\ loops_ # <<>> <=> Len(loops_) # 0
  BY LenProperties, EmptySeq DEF Types, poolReady
<1>2. CASE loops_ = <<>>
  BY <1>1, <1>2, LoopsFacts DEF getNextLoop, Base
<1>3. CASE loops_ # <<>>
  <2>1. next_ + 1 \in 1 .. Len(loops_)
    BY <1>1, <1>3 DEF LoopsOK, PoolOK, RunOK, BatchOK
  <2>2. loops_[next_ + 1] = next_ + 1 /\ next_ + 1 \in SubLoops
    BY <2>1, ElementOfSeq DEF LoopsOK, PoolOK, RunOK, BatchOK, Types
  <2>3. /\ getNextLoop.loop = next_ + 1
        /\ getNextLoop.next = IF next_ + 1 >= Len(loops_) THEN 0 ELSE next_ + 1
    BY <1>3, <2>2 DEF getNextLoop
  <2>4. QED
    BY <1>1, <1>3, <2>1, <2>2, <2>3, LoopsFacts DEF Base
<1>4. QED
  BY <1>2, <1>3

(* A loop is created when the pool lacks one, and start() comes to an end  *)
(* when it lacks none.                                                     *)
LEMMA StartFacts ==
  ASSUME Types, LoopsOK, StartOK
  PROVE  /\ CreateLoop => /\ Len(loops_) < numThreads_
                          /\ Len(loops_) + 1 \in SubLoops
         /\ ListenByOwner \/ ListenByOther => poolReady
<1>1. /\ Len(loops_) \in Nat /\ numThreads_ \in Nat /\ MaxThreads \in Nat
      /\ numThreads_ <= MaxThreads
  BY TcpServerAssumption, LenProperties DEF Types
<1>2. ASSUME CreateLoop
      PROVE  /\ Len(loops_) < numThreads_
             /\ Len(loops_) + 1 \in SubLoops
  <2>1. PICK caller \in Callers : Starting(caller) /\ made[caller] < numThreads_
    BY <1>2 DEF CreateLoop
  <2>2. made[caller] = Len(loops_)
    BY <2>1 DEF Callers, Starting, StartOK
  <2>3. QED
    BY <1>1, <2>1, <2>2 DEF SubLoops
<1>3. ASSUME ListenByOwner \/ ListenByOther
      PROVE  poolReady
  BY <1>3 DEF ListenByOwner, ListenByOther, Starting, StartOK, poolReady
<1>4. QED
  BY <1>2, <1>3

(* Handling an event leaves everything about the loops' batches alone.     *)
LEMMA HandlesFacts ==
  ASSUME Types, LoopsOK, NEW l \in Loops, Handles(l)
  PROVE  /\ dispatching' \in [Loops -> BOOLEAN]
         /\ Runs(l)
         /\ UNCHANGED <<loopState, batch, held>>
BY DEF Handles, BetweenBatches, Types

-----------------------------------------------------------------------------
(* Types.                                                                  *)

(* The steps that only move control, start the loops or talk to clients.   *)
LEMMA PlainTypes ==
  ASSUME Types, LoopsOK, StartOK,
         \/ StartByOwner \/ StartByOther \/ StartStep \/ RunBaseLoop
         \/ QuitBaseLoop \/ ClientConnects
         \/ \E c \in Conns : PeerCloses(c)
         \/ \E l \in Loops : EnterLoop(l) \/ TakeBatch(l) \/ EndBatch(l) \/ EndLoop(l)
         \/ Destructor \/ DestroyPool
         \/ \E i \in DOMAIN loops_ : QuitLoop(i)
         \/ DestroyAcceptor \/ DestroyBaseLoop
  PROVE  Types'
<1> USE TcpServerAssumption, LoopsFacts DEF poolVars, acceptVars, mapVars, connVars,
        loopVars, OwnerControl, LoopControl, Accepted
<1>1. CASE StartByOwner \/ StartByOther
  <2>1. /\ opc' \in OwnerControl /\ spc' \in {"idle", "start"}
        /\ started_' \in BOOLEAN
    BY <1>1 DEF StartByOwner, StartByOther, Types
  <2>2. UNCHANGED <<numThreads_, loops_, made, quits, acceptVars, mapVars,
                    connVars, peer, loopVars>>
    BY <1>1 DEF StartByOwner, StartByOther
  <2>3. made' \in [Callers -> Nat] /\ quits' \in Nat /\ loops_' \in Seq(SubLoops)
    BY <2>2 DEF Types
  <2>4. UNCHANGED <<numThreads_, acceptVars, mapVars, connVars, peer, loopVars>>
    BY <2>2
  <2>5. QED
    BY <2>1, <2>3, <2>4 DEF Types
<1>2. CASE CreateLoop
  <2>1. Len(loops_) + 1 \in SubLoops
    BY <1>2, StartFacts
  <2>2. loops_' \in Seq(SubLoops)
    BY <1>2, <2>1, AppendProperties DEF CreateLoop, Types
  <2>3. made' \in [Callers -> Nat]
    <3>1. PICK caller \in Callers : made' = [made EXCEPT ![caller] = @ + 1]
      BY <1>2 DEF CreateLoop
    <3>2. QED
      BY <3>1 DEF Types
  <2>4. loopState' \in [Loops -> LoopControl]
    BY <1>2 DEF CreateLoop, Types
  <2>5. UNCHANGED <<opc, spc, started_, numThreads_, quits, acceptVars, mapVars,
                    connVars, peer, queue, batch, held, dispatching>>
    BY <1>2 DEF CreateLoop
  <2>6. QED
    BY <2>2, <2>3, <2>4, <2>5 DEF Types
<1>3. CASE ListenByOwner
  BY <1>3 DEF ListenByOwner, Types
<1>4. CASE ListenByOther
  <2>1. queue' \in [Loops -> Seq(FunctorSet)]
    <3>1. Functor("listen", 0) \in FunctorSet
      BY DEF Functor, FunctorSet, FunctorNames
    <3>2. QED
      BY <1>4, <3>1, PushFacts DEF ListenByOther, Types
  <2>2. QED
    BY <1>4, <2>1 DEF ListenByOther, Types
<1>5. CASE RunBaseLoop \/ QuitBaseLoop
  <2>1. opc' \in OwnerControl
    BY <1>5 DEF RunBaseLoop, QuitBaseLoop, Types
  <2>2. loopState' \in [Loops -> LoopControl]
    <3>1. loopState \in [Loops -> LoopControl]
      BY DEF Types
    <3>2. PICK s \in LoopControl : loopState' = [loopState EXCEPT ![Base] = s]
      BY <1>5 DEF RunBaseLoop, QuitBaseLoop
    <3>3. QED
      BY <3>1, <3>2
  <2>3. UNCHANGED <<poolVars, acceptVars, mapVars, connVars, peer, queue, batch, held,
                    dispatching>>
    BY <1>5 DEF RunBaseLoop, QuitBaseLoop
  <2>4. QED
    BY <2>1, <2>2, <2>3 DEF Types
<1>6. CASE ClientConnects
  <2>1. backlog' \in 0 .. MaxConns
    BY <1>6 DEF ClientConnects, Types
  <2>2. UNCHANGED <<opc, poolVars, listening_, nextConnId_, next_, ioLoop, mapVars,
                    connVars, peer, loopVars>>
    BY <1>6 DEF ClientConnects
  <2>3. QED
    BY <2>1, <2>2 DEF Types
<1>7. ASSUME NEW c \in Conns, PeerCloses(c)
      PROVE  Types'
  BY <1>7 DEF PeerCloses, Types
<1>8. ASSUME NEW l \in Loops, TakeBatch(l)
      PROVE  Types'
  <2>1. Len(queue[l]) \in Nat
    BY LenProperties DEF Types
  <2>2. QED
    BY <1>8, <2>1 DEF TakeBatch, Types
<1>9. ASSUME NEW l \in Loops, EndBatch(l)
      PROVE  Types'
  BY <1>9 DEF EndBatch, Types
<1>10. ASSUME NEW l \in Loops, EndLoop(l)
       PROVE  Types'
  <2>1. queue' \in [Loops -> Seq(FunctorSet)]
    BY <1>10 DEF EndLoop, Types
  <2>2. opc' \in OwnerControl /\ loopState' \in [Loops -> LoopControl]
    BY <1>10 DEF EndLoop, Types
  <2>3. QED
    BY <1>10, <2>1, <2>2 DEF EndLoop, Types
<1>11. CASE Destructor \/ DestroyPool
  BY <1>11 DEF Destructor, DestroyPool, Types
<1>12. ASSUME NEW i \in DOMAIN loops_, QuitLoop(i)
       PROVE  Types'
  BY <1>12 DEF QuitLoop, Types
<1>13. CASE DestroyAcceptor
  <2>0. listening_' \in BOOLEAN
    BY <1>13 DEF DestroyAcceptor
  <2>1. opc' = "gone" /\ backlog' = 0
    BY <1>13 DEF DestroyAcceptor
  <2>2. UNCHANGED <<poolVars, nextConnId_, next_, ioLoop, mapVars, connVars,
                    peer, loopVars>>
    BY <1>13 DEF DestroyAcceptor
  <2>3. QED
    BY <2>0, <2>1, <2>2 DEF Types
<1>14. CASE DestroyBaseLoop
  BY <1>14, EmptySeq DEF DestroyBaseLoop, Types
<1>15. ASSUME NEW l \in Loops, EnterLoop(l)
       PROVE  Types'
  BY <1>15 DEF EnterLoop, Types
<1>16. QED
  BY <1>1, <1>2, <1>3, <1>4, <1>5, <1>6, <1>7, <1>8, <1>9, <1>10, <1>11, <1>12,
     <1>13, <1>14, <1>15 DEF StartStep

(* What the application is told, as a sequence.                            *)
LEMMA ToldAppend ==
  /\ Append(<<>>, "UP") = <<"UP">>
  /\ Append(<<"UP">>, "DOWN") = <<"UP", "DOWN">>
<1> DEFINE Words == {"UP", "DOWN"}
<1>1. /\ <<>> \in Seq(Words) /\ <<"UP">> \in Seq(Words)
      /\ <<"UP", "DOWN">> \in Seq(Words)
      /\ "UP" \in Words /\ "DOWN" \in Words
  OBVIOUS
<1>2. Append(<<>>, "UP") = <<"UP">>
  BY <1>1, AppendIsConcat, ConcatEmptySeq
<1>3. Append(<<"UP">>, "DOWN") = <<"UP", "DOWN">>
  <2> DEFINE s == Append(<<"UP">>, "DOWN")
  <2>1. /\ s \in Seq(Words) /\ Len(s) = 2
        /\ s[1] = "UP" /\ s[2] = "DOWN"
    BY <1>1, AppendProperties
  <2>2. \A i \in 1 .. Len(s) : s[i] = <<"UP", "DOWN">>[i]
    BY <2>1
  <2>3. QED
    BY <1>1, <2>1, <2>2, SeqEqual
<1>4. QED
  BY <1>2, <1>3

(* What the member functions of a connection may do to the types.          *)
LEMMA MemberTypes ==
  ASSUME Types, NEW c \in Conns, StateAgrees(c), NEW t \in Loops,
         \/ connectEstablished(c, t) /\ told[c] = <<>>
         \/ connectDestroyed(c, t)
         \/ handleClose(c, t) /\ registered[c] = "enabled"
  PROVE  /\ state_' \in [Conns -> {"kConnecting", "kConnected", "kDisconnecting",
                                   "kDisconnected"}]
         /\ registered' \in [Conns -> {"no", "enabled", "disabled"}]
         /\ told' \in [Conns -> {<<>>, <<"UP">>, <<"UP", "DOWN">>}]
         /\ ran' \in [Conns -> SUBSET Loops]
<1>1. told[c] \in {<<>>, <<"UP">>, <<"UP", "DOWN">>}
  BY DEF Types
<1>2. /\ Append(<<>>, "UP") = <<"UP">>
      /\ Append(<<"UP">>, "DOWN") = <<"UP", "DOWN">>
  BY ToldAppend
<1>3. CASE connectEstablished(c, t) /\ told[c] = <<>>
  BY <1>2, <1>3 DEF connectEstablished, Types
<1>4. CASE connectDestroyed(c, t)
  <2>1. CASE state_[c] = "kConnected"
    <3>1. told[c] = <<"UP">>
      BY <1>1, <2>1 DEF StateAgrees, Down
    <3>2. /\ state_' = [state_ EXCEPT ![c] = "kDisconnected"]
          /\ told' = [told EXCEPT ![c] = <<"UP", "DOWN">>]
          /\ registered' = [registered EXCEPT ![c] = "no"]
          /\ ran' = [ran EXCEPT ![c] = @ \cup {t}]
      BY <1>2, <1>4, <2>1, <3>1 DEF connectDestroyed
    <3>3. QED
      BY <3>2 DEF Types
  <2>2. CASE state_[c] # "kConnected"
    BY <1>4, <2>2 DEF connectDestroyed, Types
  <2>3. QED
    BY <2>1, <2>2
<1>5. CASE handleClose(c, t) /\ registered[c] = "enabled"
  BY <1>2, <1>5 DEF handleClose, StateAgrees, Types
<1>6. QED
  BY <1>3, <1>4, <1>5

(* A connection that was accepted is one of Conns, and its functors are    *)
(* functors.                                                               *)
LEMMA AcceptedFacts ==
  ASSUME Types
  PROVE  /\ Accepted \subseteq Conns
         /\ nextConnId_ \in Nat /\ nextConnId_ \notin Accepted /\ 0 \notin Accepted
         /\ \A c \in Conns : /\ ToEstablish(c) \in FunctorSet
                             /\ ToRemove(c) \in FunctorSet
                             /\ ToDestroy(c) \in FunctorSet
         /\ Functor("listen", 0) \in FunctorSet
<1>1. Accepted \subseteq Conns
  BY TcpServerAssumption DEF Types, Accepted, Conns
<1>2. nextConnId_ \in Nat /\ nextConnId_ \notin Accepted /\ 0 \notin Accepted
  BY TcpServerAssumption DEF Types, Accepted
<1>3. QED
  BY <1>1, <1>2 DEF Functor, FunctorSet, FunctorNames, ToEstablish, ToRemove,
                    ToDestroy

(* The functor that establishes a connection finds it accepted, on its     *)
(* loop, and not yet told of.                                              *)
LEMMA EstablishFacts ==
  ASSUME Inv, NEW l \in Loops, ConnectEstablished(l)
  PROVE  LET c == Head(queue[l]).conn
         IN /\ c \in Accepted /\ l = ioLoop[c] /\ told[c] = <<>>
            /\ Head(queue[l]) = ToEstablish(c)
            /\ ToEstablish(c) \in ToSet(queue[l])
            /\ connectEstablished(c, l)
<1> DEFINE c == Head(queue[l]).conn
<1>1. /\ Head(queue[l]) = Functor("connectEstablished", c)
      /\ Head(queue[l]) \in ToSet(queue[l])
      /\ FunctorOK(l, Head(queue[l]))
  BY CallFacts DEF Inv, ConnectEstablished
<1>2. c \in Accepted /\ l = ioLoop[c]
  BY <1>1 DEF FunctorOK, Functor
<1>3. told[c] = <<>>
  BY <1>1, <1>2 DEF Inv, Placed, Pending, ToEstablish
<1>4. QED
  BY <1>1, <1>2, <1>3 DEF ConnectEstablished, ToEstablish

(* The one that destroys a connection finds it accepted, on its loop, and  *)
(* out of the map.                                                         *)
LEMMA DestroyFacts ==
  ASSUME Inv, NEW l \in Loops, ConnectDestroyed(l)
  PROVE  LET c == Head(queue[l]).conn
         IN /\ c \in Accepted /\ l = ioLoop[c] /\ c \notin connections_
            /\ Head(queue[l]) = ToDestroy(c)
            /\ ToDestroy(c) \in ToSet(queue[l])
            /\ connectDestroyed(c, l)
<1> DEFINE c == Head(queue[l]).conn
<1>1. /\ Head(queue[l]) = Functor("connectDestroyed", c)
      /\ Head(queue[l]) \in ToSet(queue[l])
      /\ FunctorOK(l, Head(queue[l]))
  BY CallFacts DEF Inv, ConnectDestroyed
<1>2. c \in Accepted /\ l = ioLoop[c]
  BY <1>1 DEF FunctorOK, Functor
<1>3. c \notin connections_
  BY <1>1, <1>2 DEF Inv, Placed, Pending, ToDestroy
<1>4. QED
  BY <1>1, <1>2, <1>3 DEF ConnectDestroyed, ToDestroy

(* The one that removes a connection from the map finds it down, in the    *)
(* map, and of another loop; and the server is not being destroyed.        *)
LEMMA RemoveFacts ==
  ASSUME Inv, RemoveConnectionInLoop
  PROVE  LET c == Head(queue[Base]).conn
         IN /\ c \in Accepted /\ ioLoop[c] # Base /\ c \in connections_ /\ Down(c)
            /\ ~Destroying
            /\ Head(queue[Base]) = ToRemove(c)
            /\ ToRemove(c) \in ToSet(queue[Base])
            /\ removeConnectionInLoop(c, Base, Pop(Base))
<1> DEFINE c == Head(queue[Base]).conn
<1>1. /\ Head(queue[Base]) = Functor("removeConnectionInLoop", c)
      /\ Head(queue[Base]) \in ToSet(queue[Base])
      /\ FunctorOK(Base, Head(queue[Base]))
      /\ Runs(Base)
  BY CallFacts, LoopsFacts DEF Inv, RemoveConnectionInLoop
<1>2. c \in Accepted
  BY <1>1 DEF FunctorOK, Functor
<1>3. Pending(Base, ToRemove(c))
  BY <1>1 DEF Pending, ToRemove
<1>4. ~Destroying
  BY <1>1 DEF Inv, LoopsOK, PoolOK, RunOK, BatchOK, Destroying
<1>5. Down(c) /\ ioLoop[c] # Base /\ c \in connections_
  BY <1>2, <1>3, <1>4 DEF Inv, Placed
<1>6. QED
  BY <1>1, <1>2, <1>3, <1>4, <1>5 DEF RemoveConnectionInLoop, ToRemove, Pending

(* A connection that handles the end of its stream was accepted and is up. *)
LEMMA CloseFacts ==
  ASSUME Inv, NEW c \in Conns, HandleClose(c)
  PROVE  /\ c \in Accepted /\ told[c] = <<"UP">> /\ state_[c] # "kDisconnected"
         /\ ioLoop[c] \in Loops /\ Runs(ioLoop[c]) /\ PollerExists(ioLoop[c])
         /\ UNCHANGED <<loopState, batch, held>>
<1>1. registered[c] = "enabled"
  BY DEF HandleClose
<1>2. c \in Accepted /\ told[c] = <<"UP">> /\ state_[c] # "kDisconnected"
  BY <1>1 DEF Inv, StateAgrees, Down
<1>3. ioLoop[c] \in Loops /\ Runs(ioLoop[c]) /\ UNCHANGED <<loopState, batch, held>>
  BY HandlesFacts DEF Inv, Types, HandleClose
<1>4. PollerExists(ioLoop[c])
  BY <1>3 DEF PollerExists, Inv, LoopsOK, PoolOK, RunOK, BatchOK
<1>5. QED
  BY <1>2, <1>3, <1>4

(* The steps that accept, establish, close, remove or destroy.             *)
LEMMA ConnTypes ==
  ASSUME Inv,
         \/ AcceptOne \/ AcceptFails \/ Listen \/ RemoveConnectionInLoop
         \/ \E l \in Loops : ConnectEstablished(l) \/ ConnectDestroyed(l)
         \/ \E c \in Conns : HandleClose(c) \/ HandleMessage(c) \/ DropConnection(c)
  PROVE  Types'
<1> USE LoopsFacts, AcceptedFacts DEF poolVars, acceptVars, mapVars, connVars, Inv
<1>1. ASSUME NEW l \in Loops, NEW fn, Calls(l, fn), queue' = Pop(l)
      PROVE  /\ queue' \in [Loops -> Seq(FunctorSet)]
             /\ batch' \in [Loops -> Nat]
             /\ held' \in [Loops -> SUBSET (Conns \cup {0})]
             /\ dispatching' \in [Loops -> BOOLEAN]
             /\ loopState' \in [Loops -> LoopControl]
  <2>1. queue' \in [Loops -> Seq(FunctorSet)]
    BY <1>1, CallFacts, PopFacts DEF Types, QueueOK
  <2>2. batch[l] - 1 \in Nat
    BY <1>1, CallFacts
  <2>3. QED
    BY <1>1, <2>1, <2>2, CallFacts DEF Calls, Types
<1>2. ASSUME NEW l \in Loops, Handles(l)
      PROVE  /\ batch' \in [Loops -> Nat]
             /\ held' \in [Loops -> SUBSET (Conns \cup {0})]
             /\ dispatching' \in [Loops -> BOOLEAN]
             /\ loopState' \in [Loops -> LoopControl]
  BY <1>2, HandlesFacts DEF Types
<1>3. CASE AcceptOne
  <2> DEFINE c == nextConnId_
             io == getNextLoop.loop
  <2>1. poolReady /\ c \in Conns
    BY <1>3, TcpServerAssumption DEF AcceptOne, LoopsOK, PoolOK, RunOK, BatchOK, Types, Conns
  <2>2. io \in Loops /\ getNextLoop.next \in Nat
    BY <2>1, NextLoopFacts
  <2>3. told[c] = <<>>
    BY <2>1 DEF StateAgrees
  <2>4. /\ next_' \in Nat /\ nextConnId_' \in 1 .. MaxConns + 1
        /\ ioLoop' \in [Conns -> Loops]
        /\ connections_' \subseteq Accepted'
        /\ mapUsers' \subseteq {Base}
        /\ backlog' \in 0 .. MaxConns
    <3>1. /\ next_' = getNextLoop.next /\ nextConnId_' = c + 1
          /\ ioLoop' = [ioLoop EXCEPT ![c] = io]
          /\ connections_' = connections_ \cup {c}
          /\ mapUsers' = mapUsers \cup {Base}
          /\ backlog > 0 /\ backlog' = backlog - 1
      BY <1>3 DEF AcceptOne, newConnection
    <3>2. c \in 1 .. MaxConns
      BY <2>1 DEF Conns
    <3>3. connections_ \subseteq Accepted /\ Accepted' = Accepted \cup {c}
      BY <3>1, <3>2 DEF Types, Accepted
    <3>4. connections_' \subseteq Accepted'
      BY <3>1, <3>3
    <3>5. backlog' \in 0 .. MaxConns
      BY <3>1, TcpServerAssumption DEF Types
    <3>6. nextConnId_' \in 1 .. MaxConns + 1
      BY <3>1, <3>2, TcpServerAssumption
    <3>7. ioLoop' \in [Conns -> Loops] /\ mapUsers' \subseteq {Base}
      BY <3>1, <2>1, <2>2 DEF Types
    <3>8. QED
      BY <3>1, <3>4, <3>5, <3>6, <3>7, <2>2
  <2>5. /\ state_' \in [Conns -> {"kConnecting", "kConnected", "kDisconnecting",
                                  "kDisconnected"}]
        /\ registered' \in [Conns -> {"no", "enabled", "disabled"}]
        /\ told' \in [Conns -> {<<>>, <<"UP">>, <<"UP", "DOWN">>}]
        /\ ran' \in [Conns -> SUBSET Loops]
        /\ queue' \in [Loops -> Seq(FunctorSet)]
    <3>1. CASE io = Base
      <4>1. connectEstablished(c, Base) /\ queue' = queue
        BY <1>3, <3>1 DEF AcceptOne, newConnection
      <4>2. QED
        BY <4>1, <2>1, <2>3, MemberTypes DEF Types
    <3>2. CASE io # Base
      <4>1. /\ queue' = Push(queue, io, ToEstablish(c))
            /\ UNCHANGED <<state_, registered, told, ran>>
        BY <1>3, <3>2 DEF AcceptOne, newConnection, ToEstablish
      <4>2. QED
        BY <4>1, <2>1, <2>2, PushFacts DEF Types
    <3>3. QED
      BY <3>1, <3>2
  <2>6. /\ UNCHANGED <<opc, poolVars, listening_, peer>>
        /\ Handles(Base)
    BY <1>3 DEF AcceptOne
  <2>7. QED
    BY <2>4, <2>5, <2>6, <1>2 DEF Types
<1>4. CASE AcceptFails
  BY <1>2, <1>4 DEF AcceptFails, Types, Accepted
<1>5. CASE Listen
  <2>1. listening_' \in BOOLEAN
    BY <1>5 DEF Listen
  <2>2. /\ Calls(Base, "listen") /\ queue' = Pop(Base)
        /\ UNCHANGED <<opc, poolVars, backlog, nextConnId_, next_, ioLoop,
                       mapVars, connVars, peer>>
    BY <1>5 DEF Listen
  <2>3. QED
    BY <2>1, <2>2, <1>1 DEF Types, Accepted
<1>6. CASE RemoveConnectionInLoop
  <2> DEFINE c == Head(queue[Base]).conn
  <2>1. /\ c \in Conns
        /\ Calls(Base, "removeConnectionInLoop")
        /\ removeConnectionInLoop(c, Base, Pop(Base))
        /\ UNCHANGED <<opc, poolVars, acceptVars, connVars, peer>>
    BY <1>6, RemoveFacts DEF RemoveConnectionInLoop
  <2>2. Pop(Base) \in [Loops -> Seq(FunctorSet)]
    BY <2>1, CallFacts, PopFacts DEF Types, QueueOK
  <2>3. ioLoop[c] \in Loops
    BY <2>1 DEF Types
  <2>4. queue' \in [Loops -> Seq(FunctorSet)]
    BY <2>1, <2>2, <2>3, PushFacts DEF removeConnectionInLoop, ToDestroy
  <2>5. /\ batch' \in [Loops -> Nat]
        /\ held' \in [Loops -> SUBSET (Conns \cup {0})]
        /\ UNCHANGED <<loopState, dispatching>>
    <3>1. batch[Base] - 1 \in Nat
      BY <2>1, CallFacts
    <3>2. QED
      BY <2>1, <3>1 DEF Calls, Types
  <2>6. connections_' \subseteq Accepted /\ mapUsers' \subseteq {Base}
    BY <2>1 DEF removeConnectionInLoop, Types
  <2>7. QED
    BY <2>1, <2>4, <2>5, <2>6 DEF Types, Accepted
<1>7. ASSUME NEW l \in Loops, ConnectEstablished(l)
      PROVE  Types'
  <2> DEFINE c == Head(queue[l]).conn
  <2>1. c \in Conns /\ told[c] = <<>> /\ connectEstablished(c, l)
    BY <1>7, EstablishFacts
  <2>2. /\ Calls(l, "connectEstablished") /\ queue' = Pop(l)
        /\ UNCHANGED <<opc, poolVars, acceptVars, mapVars, peer>>
    BY <1>7 DEF ConnectEstablished
  <2>3. /\ state_' \in [Conns -> {"kConnecting", "kConnected", "kDisconnecting",
                                  "kDisconnected"}]
        /\ registered' \in [Conns -> {"no", "enabled", "disabled"}]
        /\ told' \in [Conns -> {<<>>, <<"UP">>, <<"UP", "DOWN">>}]
        /\ ran' \in [Conns -> SUBSET Loops]
    <3> HIDE DEF c
    <3>1. QED
      BY <2>1, MemberTypes
  <2>4. QED
    BY <2>2, <2>3, <1>1 DEF Types, Accepted
<1>8. ASSUME NEW l \in Loops, ConnectDestroyed(l)
      PROVE  Types'
  <2> DEFINE c == Head(queue[l]).conn
  <2>1. c \in Conns /\ connectDestroyed(c, l)
    BY <1>8, DestroyFacts
  <2>2. /\ Calls(l, "connectDestroyed") /\ queue' = Pop(l)
        /\ UNCHANGED <<opc, poolVars, acceptVars, mapVars, peer>>
    BY <1>8 DEF ConnectDestroyed
  <2>3. /\ state_' \in [Conns -> {"kConnecting", "kConnected", "kDisconnecting",
                                  "kDisconnected"}]
        /\ registered' \in [Conns -> {"no", "enabled", "disabled"}]
        /\ told' \in [Conns -> {<<>>, <<"UP">>, <<"UP", "DOWN">>}]
        /\ ran' \in [Conns -> SUBSET Loops]
    <3> HIDE DEF c
    <3>1. QED
      BY <2>1, MemberTypes
  <2>4. QED
    BY <2>2, <2>3, <1>1 DEF Types, Accepted
<1>9. ASSUME NEW c \in Conns, HandleClose(c)
      PROVE  Types'
  <2> DEFINE t == ioLoop[c]
  <2>1. /\ t \in Loops /\ Handles(t) /\ registered[c] = "enabled"
        /\ handleClose(c, t) /\ removeConnection(c, t)
        /\ UNCHANGED <<opc, poolVars, acceptVars, peer>>
    BY <1>9 DEF HandleClose, Types
  <2>2. /\ state_' \in [Conns -> {"kConnecting", "kConnected", "kDisconnecting",
                                  "kDisconnected"}]
        /\ registered' \in [Conns -> {"no", "enabled", "disabled"}]
        /\ told' \in [Conns -> {<<>>, <<"UP">>, <<"UP", "DOWN">>}]
        /\ ran' \in [Conns -> SUBSET Loops]
    BY <2>1, MemberTypes
  <2>3. /\ queue' \in [Loops -> Seq(FunctorSet)]
        /\ connections_' \subseteq Accepted /\ mapUsers' \subseteq {Base}
    <3>1. CASE t = Base
      <4>1. removeConnectionInLoop(c, Base, queue)
        BY <2>1, <3>1 DEF removeConnection
      <4>2. QED
        BY <4>1, <2>1, PushFacts DEF removeConnectionInLoop, ToDestroy, Types
    <3>2. CASE t # Base
      <4>1. /\ queue' = Push(queue, Base, ToRemove(c))
            /\ UNCHANGED <<connections_, mapUsers>>
        BY <2>1, <3>2 DEF removeConnection, ToRemove
      <4>2. QED
        BY <4>1, PushFacts DEF Types
    <3>3. QED
      BY <3>1, <3>2
  <2>4. QED
    BY <2>1, <2>2, <2>3, <1>2 DEF Types, Accepted
<1>10. ASSUME NEW c \in Conns, HandleMessage(c)
       PROVE  Types'
  <2>1. ioLoop[c] \in Loops /\ Handles(ioLoop[c])
    BY <1>10 DEF HandleMessage, Types
  <2>2. /\ state_' = [state_ EXCEPT ![c] = "kDisconnecting"]
        /\ UNCHANGED <<opc, poolVars, acceptVars, mapVars, registered, told,
                       ran, peer, queue>>
    BY <1>10 DEF HandleMessage
  <2>3. QED
    BY <2>1, <2>2, <1>2 DEF Types, Accepted
<1>11. ASSUME NEW c \in Conns, DropConnection(c)
       PROVE  Types'
  <2>1. /\ state_' \in [Conns -> {"kConnecting", "kConnected", "kDisconnecting",
                                  "kDisconnected"}]
        /\ registered' \in [Conns -> {"no", "enabled", "disabled"}]
        /\ told' \in [Conns -> {<<>>, <<"UP">>, <<"UP", "DOWN">>}]
        /\ ran' \in [Conns -> SUBSET Loops]
        /\ queue' \in [Loops -> Seq(FunctorSet)]
    <3>1. CASE ioLoop[c] = Base
      <4>1. connectDestroyed(c, Base) /\ queue' = queue
        BY <1>11, <3>1 DEF DropConnection
      <4>2. QED
        BY <4>1, MemberTypes DEF Types
    <3>2. CASE ioLoop[c] # Base
      <4>1. /\ queue' = Push(queue, ioLoop[c], ToDestroy(c))
            /\ UNCHANGED <<state_, registered, told, ran>>
            /\ ioLoop[c] \in Loops
        BY <1>11, <3>2 DEF DropConnection, ToDestroy, Types
      <4>2. QED
        BY <4>1, PushFacts DEF Types
    <3>3. QED
      BY <3>1, <3>2
  <2>2. connections_' \subseteq Accepted /\ mapUsers' \subseteq {Base}
    BY <1>11 DEF DropConnection, Types
  <2>3. UNCHANGED <<opc, poolVars, acceptVars, peer, loopState, batch, held,
                    dispatching>>
    BY <1>11 DEF DropConnection
  <2>4. QED
    BY <2>1, <2>2, <2>3 DEF Types, Accepted
<1>12. QED
  BY <1>3, <1>4, <1>5, <1>6, <1>7, <1>8, <1>9, <1>10, <1>11

-----------------------------------------------------------------------------
(* The pool and the loops.                                                 *)

(* Which steps change what PoolOK is about.                                *)
LEMMA PoolFrame ==
  ASSUME Next
  PROVE  \/ CreateLoop \/ ListenByOwner \/ ClientConnects \/ AcceptOne
         \/ Listen \/ DestroyAcceptor
         \/ UNCHANGED <<loops_, numThreads_, next_, listening_, backlog, nextConnId_>>
<1> USE DEF poolVars, acceptVars
<1>1. CASE \/ StartByOwner \/ StartByOther \/ ListenByOther \/ RunBaseLoop
           \/ QuitBaseLoop \/ AcceptFails \/ Destructor \/ DestroyPool
           \/ DestroyBaseLoop
  BY <1>1 DEF StartByOwner, StartByOther, ListenByOther, RunBaseLoop, QuitBaseLoop,
              AcceptFails, Destructor, DestroyPool, DestroyBaseLoop
<1>2. ASSUME NEW c \in Conns,
             PeerCloses(c) \/ HandleMessage(c) \/ HandleClose(c) \/ DropConnection(c)
      PROVE  UNCHANGED <<loops_, numThreads_, next_, listening_, backlog, nextConnId_>>
  BY <1>2 DEF PeerCloses, HandleMessage, HandleClose, DropConnection
<1>3. ASSUME NEW l \in Loops,
             \/ EnterLoop(l) \/ TakeBatch(l) \/ EndBatch(l) \/ EndLoop(l)
             \/ ConnectEstablished(l) \/ ConnectDestroyed(l) \/ RemoveConnectionInLoop
      PROVE  UNCHANGED <<loops_, numThreads_, next_, listening_, backlog, nextConnId_>>
  BY <1>3 DEF EnterLoop, TakeBatch, EndBatch, EndLoop, ConnectEstablished, ConnectDestroyed,
              RemoveConnectionInLoop
<1>4. ASSUME NEW i \in DOMAIN loops_, QuitLoop(i)
      PROVE  UNCHANGED <<loops_, numThreads_, next_, listening_, backlog, nextConnId_>>
  BY <1>4 DEF QuitLoop
<1>5. QED
  BY <1>1, <1>2, <1>3, <1>4 DEF Next, StartStep, RunBatch, CallFunctor, OwnerStep

(* PoolOK is preserved.                                                    *)
LEMMA PoolStep ==
  ASSUME Inv, Next
  PROVE  PoolOK'
<1> USE DEF Inv, LoopsOK, poolVars, acceptVars
<1>1. /\ Len(loops_) \in Nat /\ numThreads_ \in Nat /\ nextConnId_ \in Nat
      /\ backlog \in Nat /\ MaxConns \in Nat /\ next_ \in Nat
      /\ loops_ # <<>> <=> Len(loops_) # 0
      /\ nextConnId_ >= 1
  BY TcpServerAssumption, LenProperties, EmptySeq DEF Types
<1>2. CASE CreateLoop
  <2>1. Len(loops_) + 1 \in SubLoops /\ Len(loops_) < numThreads_
    BY <1>2, StartFacts
  <2>2. /\ Len(loops_') = Len(loops_) + 1
        /\ \A i \in 1 .. Len(loops_) : loops_'[i] = loops_[i]
        /\ loops_'[Len(loops_) + 1] = Len(loops_) + 1
    BY <1>2, <2>1, AppendProperties DEF CreateLoop, Types
  <2>3. \A i \in 1 .. Len(loops_') : loops_'[i] = i
    BY <1>1, <2>2 DEF PoolOK
  <2>4. UNCHANGED <<numThreads_, next_, listening_, backlog, nextConnId_>>
    BY <1>2 DEF CreateLoop
  <2>5. nextConnId_ = 1 /\ ~listening_ /\ next_ = 0
    BY <1>1, <2>1 DEF PoolOK, poolReady
  <2>6. QED
    BY <1>1, <2>1, <2>2, <2>3, <2>4, <2>5 DEF PoolOK, poolReady
<1>3. CASE ListenByOwner
  <2>1. /\ poolReady
        /\ UNCHANGED <<loops_, numThreads_, next_, backlog, nextConnId_>>
    BY <1>3, StartFacts DEF ListenByOwner
  <2>2. QED
    BY <2>1 DEF PoolOK, poolReady
<1>4. CASE ClientConnects
  <2>1. /\ nextConnId_ + backlog <= MaxConns /\ backlog' = backlog + 1
        /\ UNCHANGED <<loops_, numThreads_, next_, listening_, nextConnId_>>
    BY <1>4 DEF ClientConnects
  <2>2. QED
    BY <1>1, <2>1 DEF PoolOK, poolReady
<1>5. CASE AcceptOne
  <2>1. /\ poolReady
        /\ backlog' = backlog - 1 /\ nextConnId_' = nextConnId_ + 1
        /\ next_' = getNextLoop.next
        /\ UNCHANGED <<loops_, numThreads_, listening_>>
    BY <1>5 DEF AcceptOne, newConnection, PoolOK
  <2>2. loops_ # <<>> => next_' < Len(loops_)
    BY <2>1, NextLoopFacts
  <2>3. QED
    BY <1>1, <2>1, <2>2 DEF PoolOK, poolReady
<1>6. CASE Listen
  <2>1. Head(queue[Base]) = Functor("listen", Head(queue[Base]).conn)
        /\ FunctorOK(Base, Head(queue[Base]))
    BY <1>6, CallFacts, LoopsFacts DEF Listen
  <2>2. poolReady
    BY <2>1 DEF FunctorOK, Functor
  <2>3. UNCHANGED <<loops_, numThreads_, next_, backlog, nextConnId_>>
    BY <1>6 DEF Listen
  <2>4. QED
    BY <2>2, <2>3 DEF PoolOK, poolReady
<1>7. CASE DestroyAcceptor
  <2>1. /\ ~listening_' /\ backlog' = 0
        /\ UNCHANGED <<loops_, numThreads_, next_, nextConnId_>>
    BY <1>7 DEF DestroyAcceptor
  <2>2. QED
    BY <1>1, <2>1 DEF PoolOK, poolReady
<1>8. CASE UNCHANGED <<loops_, numThreads_, next_, listening_, backlog, nextConnId_>>
  BY <1>8 DEF PoolOK, poolReady
<1>9. QED
  BY <1>2, <1>3, <1>4, <1>5, <1>6, <1>7, <1>8, PoolFrame

(* Only one caller of start() goes on, and it alone makes loops.           *)
LEMMA CallersStep ==
  ASSUME Inv, Next
  PROVE  StartOK'
<1> USE DEF Inv, poolVars
<1>1. /\ Len(loops_) \in Nat /\ numThreads_ \in Nat /\ started_ \in BOOLEAN
      /\ quits \in Nat /\ made \in [Callers -> Nat]
      /\ loops_ = <<>> => Len(loops_) = 0
      /\ "owner" \in Callers /\ "other" \in Callers
  BY LenProperties, EmptySeq DEF Types, Callers
<1>2. CASE StartByOwner \/ StartByOther
  BY <1>1, <1>2 DEF StartByOwner, StartByOther, StartOK
<1>3. CASE CreateLoop
  <2>1. PICK caller \in Callers :
           /\ Starting(caller) /\ made[caller] < numThreads_
           /\ made' = [made EXCEPT ![caller] = @ + 1]
    BY <1>3 DEF CreateLoop
  <2>2. Len(loops_') = Len(loops_) + 1
    BY <1>3, StartFacts, AppendProperties DEF CreateLoop, Types
  <2>3. UNCHANGED <<opc, spc, started_, numThreads_, quits>>
    BY <1>3 DEF CreateLoop
  <2>4. QED
    BY <1>1, <2>1, <2>2, <2>3 DEF StartOK, Starting, Callers
<1>4. CASE \/ ListenByOwner \/ ListenByOther \/ RunBaseLoop \/ Destructor
           \/ DestroyPool \/ DestroyAcceptor \/ DestroyBaseLoop
  BY <1>4 DEF ListenByOwner, ListenByOther, RunBaseLoop, Destructor, DestroyPool,
              DestroyAcceptor, DestroyBaseLoop, StartOK
<1>5. ASSUME NEW i \in DOMAIN loops_, QuitLoop(i)
      PROVE  StartOK'
  <2>1. i \in 1 .. Len(loops_)
    BY LenProperties DEF Types
  <2>2. quits' = i /\ UNCHANGED <<opc, spc, started_, numThreads_, loops_, made>>
    BY <1>5 DEF QuitLoop
  <2>3. QED
    BY <2>1, <2>2 DEF StartOK
<1>6. ASSUME NEW l \in Loops, EndLoop(l)
      PROVE  StartOK'
  <2>1. opc' = opc \/ (opc' = "looped" /\ opc = "loop")
    BY <1>6 DEF EndLoop, LoopsOK, RunOK, Runs
  <2>2. UNCHANGED poolVars
    BY <1>6 DEF EndLoop
  <2>3. QED
    BY <2>1, <2>2 DEF StartOK
<1>7. CASE UNCHANGED <<opc, poolVars>>
  BY <1>7 DEF StartOK
<1>8. CASE QuitBaseLoop \/ ClientConnects \/ AcceptOne \/ AcceptFails \/ Listen
           \/ RemoveConnectionInLoop
  BY <1>7, <1>8 DEF QuitBaseLoop, ClientConnects, AcceptOne, AcceptFails, Listen,
                    RemoveConnectionInLoop
<1>9. ASSUME NEW c \in Conns,
             PeerCloses(c) \/ HandleMessage(c) \/ HandleClose(c) \/ DropConnection(c)
      PROVE  UNCHANGED <<opc, poolVars>>
  BY <1>9 DEF PeerCloses, HandleMessage, HandleClose, DropConnection
<1>10. ASSUME NEW l \in Loops,
              \/ EnterLoop(l) \/ TakeBatch(l) \/ EndBatch(l)
              \/ ConnectEstablished(l) \/ ConnectDestroyed(l)
       PROVE  UNCHANGED <<opc, poolVars>>
  BY <1>10 DEF EnterLoop, TakeBatch, EndBatch, ConnectEstablished, ConnectDestroyed
<1>11. QED
  BY <1>2, <1>3, <1>4, <1>5, <1>6, <1>7, <1>8, <1>9, <1>10
  DEF Next, StartStep, RunBatch, CallFunctor, OwnerStep

(* Which steps move the owner or a loop.                                   *)
LEMMA ControlFrame ==
  ASSUME Next
  PROVE  \/ StartByOwner \/ CreateLoop \/ ListenByOwner \/ RunBaseLoop \/ QuitBaseLoop
         \/ \E l \in Loops : EnterLoop(l) \/ EndLoop(l)
         \/ \E i \in DOMAIN loops_ : QuitLoop(i)
         \/ Destructor \/ DestroyPool \/ DestroyAcceptor \/ DestroyBaseLoop
         \/ UNCHANGED <<opc, loopState, loops_>>
<1> USE DEF poolVars, loopVars
<1>1. CASE StartByOther \/ ListenByOther \/ ClientConnects \/ AcceptFails
  BY <1>1 DEF StartByOther, ListenByOther, ClientConnects, AcceptFails, Handles
<1>2. CASE AcceptOne \/ Listen \/ RemoveConnectionInLoop
  BY <1>2 DEF AcceptOne, Handles, Listen, RemoveConnectionInLoop, Calls
<1>3. ASSUME NEW c \in Conns,
             PeerCloses(c) \/ HandleMessage(c) \/ HandleClose(c) \/ DropConnection(c)
      PROVE  UNCHANGED <<opc, loopState, loops_>>
  BY <1>3 DEF PeerCloses, HandleMessage, HandleClose, Handles, DropConnection
<1>4. ASSUME NEW l \in Loops,
             \/ TakeBatch(l) \/ EndBatch(l)
             \/ ConnectEstablished(l) \/ ConnectDestroyed(l)
      PROVE  UNCHANGED <<opc, loopState, loops_>>
  BY <1>4 DEF TakeBatch, EndBatch, ConnectEstablished, ConnectDestroyed, Calls
<1>5. QED
  BY <1>1, <1>2, <1>3, <1>4 DEF Next, StartStep, RunBatch, CallFunctor, OwnerStep

(* The base loop goes on to run while its owner is in loop(), and the      *)
(* loops of the pool until it is destroyed.                                *)
LEMMA ControlStep ==
  ASSUME Inv, Next
  PROVE  /\ (Runs(Base) <=> opc = "loop")'
         /\ \A l \in SubLoops :
               IF l <= Len(loops_')
                 THEN opc' \notin {"pool", "gone", "end"}
                        => loopState'[l] \in {"published", "running"}
                 ELSE loopState'[l] = "none"
         /\ loopState'[Base] # "published"
<1> USE LoopsFacts DEF Inv, LoopsOK, RunOK, Runs, poolVars, loopVars
<1> DEFINE Control(o, ls, n) ==
             /\ ls[Base] \in {"running", "quitting"} <=> o = "loop"
             /\ \A l \in SubLoops :
                   IF l <= n THEN o \notin {"pool", "gone", "end"}
                                    => ls[l] \in {"published", "running"}
                   ELSE ls[l] = "none"
             /\ ls[Base] # "published"
<1>1. Control(opc, loopState, Len(loops_))
  OBVIOUS
<1>2. loopState \in [Loops -> LoopControl] /\ Len(loops_) \in Nat
      /\ Base \in Loops
  BY LenProperties DEF Types
<1>3. SUFFICES Control(opc', loopState', Len(loops_'))
  OBVIOUS
<1>4. CASE StartByOwner \/ ListenByOwner \/ Destructor \/ DestroyPool \/ DestroyAcceptor
           \/ DestroyBaseLoop
  <2>1. /\ opc \notin {"loop"} /\ opc' \notin {"loop"}
        /\ opc' \notin {"pool", "gone", "end"} => opc \notin {"pool", "gone", "end"}
        /\ UNCHANGED <<loopState, loops_>>
    BY <1>4 DEF Starting, StartByOwner, ListenByOwner, Destructor, DestroyPool,
                DestroyAcceptor, DestroyBaseLoop
  <2>2. QED
    BY <1>1, <2>1
<1>5. CASE CreateLoop
  <2>1. /\ Len(loops_') = Len(loops_) + 1
        /\ loopState' = [loopState EXCEPT ![Len(loops_) + 1] = "published"]
        /\ UNCHANGED opc
        /\ Len(loops_) + 1 \in Loops /\ Len(loops_) + 1 # Base
    <3>1. Len(loops_) + 1 \in SubLoops
      BY <1>5, StartFacts
    <3>2. Len(loops_') = Len(loops_) + 1
      BY <1>5, <3>1, AppendProperties DEF CreateLoop, Types
    <3>3. QED
      BY <1>5, <3>1, <3>2 DEF CreateLoop, Base
  <2>2. ASSUME NEW l \in SubLoops
        PROVE  IF l <= Len(loops_) + 1
                 THEN opc \notin {"pool", "gone", "end"}
                        => loopState'[l] \in {"published", "running"}
                 ELSE loopState'[l] = "none"
    <3>1. CASE l = Len(loops_) + 1
      BY <2>1, <3>1, <1>2
    <3>2. CASE l # Len(loops_) + 1
      <4>1. loopState'[l] = loopState[l] /\ (l <= Len(loops_) + 1 <=> l <= Len(loops_))
        BY <2>1, <3>2, <1>2 DEF SubLoops
      <4>2. QED
        BY <4>1, <1>1
    <3>3. QED
      BY <3>1, <3>2
  <2>3. loopState'[Base] = loopState[Base]
    BY <2>1, <1>2
  <2>4. QED
    BY <2>1, <2>2, <2>3, <1>1
<1>6. CASE RunBaseLoop \/ QuitBaseLoop
  <2>1. /\ loopState' = [loopState EXCEPT ![Base] = "running"]
           \/ loopState' = [loopState EXCEPT ![Base] = "quitting"]
        /\ opc' = "loop" /\ opc \notin {"pool", "gone", "end"}
        /\ UNCHANGED loops_
    BY <1>1, <1>6 DEF RunBaseLoop, QuitBaseLoop
  <2>2. /\ loopState'[Base] \in {"running", "quitting"}
        /\ \A l \in SubLoops : loopState'[l] = loopState[l]
    BY <2>1, <1>2
  <2>3. QED
    BY <1>1, <2>1, <2>2
<1>7. ASSUME NEW l \in Loops, EndLoop(l)
      PROVE  Control(opc', loopState', Len(loops_'))
  <2>1. /\ loopState[l] = "quitting"
        /\ loopState' = [loopState EXCEPT ![l] = "ended"]
        /\ opc' = IF l = Base THEN "looped" ELSE opc
        /\ UNCHANGED loops_
    BY <1>7 DEF EndLoop
  <2>2. CASE l = Base
    <3>1. /\ loopState'[Base] = "ended" /\ opc' = "looped"
          /\ \A k \in SubLoops : loopState'[k] = loopState[k]
          /\ opc = "loop"
      BY <1>1, <2>1, <2>2, <1>2
    <3>2. QED
      BY <1>1, <2>1, <3>1
  <2>3. CASE l # Base
    <3>1. l \in SubLoops /\ l <= Len(loops_) /\ opc \in {"pool", "gone", "end"}
      BY <1>1, <2>1, <2>3
    <3>2. /\ loopState'[Base] = loopState[Base] /\ opc' = opc
          /\ \A k \in SubLoops : k # l => loopState'[k] = loopState[k]
      BY <2>1, <2>3, <1>2
    <3>3. QED
      BY <1>1, <2>1, <3>1, <3>2
  <2>4. QED
    BY <2>2, <2>3
<1>8. ASSUME NEW i \in DOMAIN loops_, QuitLoop(i)
      PROVE  Control(opc', loopState', Len(loops_'))
  <2>1. /\ opc = "pool"
        /\ loopState' = [loopState EXCEPT ![loops_[i]] =
                            IF @ = "running" THEN "quitting" ELSE @]
        /\ UNCHANGED <<opc, loops_>>
    BY <1>8 DEF QuitLoop
  <2>2. loops_[i] \in SubLoops /\ loops_[i] <= Len(loops_)
    <3>1. i \in 1 .. Len(loops_)
      BY LenProperties DEF Types
    <3>2. loops_[i] = i
      BY <3>1 DEF PoolOK
    <3>3. QED
      BY <3>1, <3>2, ElementOfSeq, <1>2 DEF Types
  <2>3. /\ loopState'[Base] = loopState[Base]
        /\ \A k \in SubLoops : k # loops_[i] => loopState'[k] = loopState[k]
    BY <2>1, <2>2, <1>2
  <2>4. QED
    BY <1>1, <2>1, <2>2, <2>3
<1>9. CASE UNCHANGED <<opc, loopState, loops_>>
  BY <1>1, <1>9
<1>10. ASSUME NEW l \in Loops, EnterLoop(l)
       PROVE  Control(opc', loopState', Len(loops_'))
  <2>1. /\ loopState[l] = "published"
        /\ loopState' = [loopState EXCEPT ![l] = "running"]
        /\ UNCHANGED <<opc, loops_>>
    BY <1>10 DEF EnterLoop
  <2>2. l \in SubLoops /\ l <= Len(loops_)
    BY <1>1, <2>1
  <2>3. /\ loopState'[Base] = loopState[Base] /\ loopState'[l] = "running"
        /\ \A k \in SubLoops : k # l => loopState'[k] = loopState[k]
    BY <2>1, <2>2, <1>2
  <2>4. QED
    BY <1>1, <2>1, <2>2, <2>3
<1>11. QED
  BY <1>4, <1>5, <1>6, <1>7, <1>8, <1>9, <1>10, ControlFrame

(* Which steps only append to a queue, if that.                            *)
LEMMA AppendFrame ==
  ASSUME Inv, Next
  PROVE  \/ CreateLoop \/ RunBaseLoop \/ QuitBaseLoop
         \/ \E i \in DOMAIN loops_ : QuitLoop(i)
         \/ \E l \in Loops : \/ EnterLoop(l) \/ TakeBatch(l) \/ EndBatch(l)
                            \/ EndLoop(l) \/ CallFunctor(l)
         \/ DestroyBaseLoop
         \/ /\ UNCHANGED <<loopState, batch, held>>
            /\ \/ queue' = queue
               \/ \E l \in Loops, f \in FunctorSet : queue' = Push(queue, l, f)
<1> USE LoopsFacts, AcceptedFacts DEF Inv, poolVars, loopVars
<1>1. CASE \/ StartByOwner \/ StartByOther \/ ListenByOwner \/ ClientConnects
           \/ AcceptFails \/ Destructor \/ DestroyPool \/ DestroyAcceptor
  BY <1>1 DEF StartByOwner, StartByOther, ListenByOwner, ClientConnects, AcceptFails,
              Handles, Destructor, DestroyPool, DestroyAcceptor
<1>2. CASE ListenByOther
  BY <1>2 DEF ListenByOther
<1>3. CASE AcceptOne
  <2>1. UNCHANGED <<loopState, batch, held>>
    BY <1>3 DEF AcceptOne, Handles
  <2>2. \/ queue' = queue
        \/ queue' = Push(queue, getNextLoop.loop, ToEstablish(nextConnId_))
    BY <1>3 DEF AcceptOne, newConnection, ToEstablish
  <2>3. getNextLoop.loop \in Loops
    BY <1>3, NextLoopFacts DEF AcceptOne, LoopsOK, PoolOK
  <2>4. nextConnId_ \in Conns
    BY <1>3, TcpServerAssumption DEF AcceptOne, LoopsOK, PoolOK, Types, Conns
  <2>5. QED
    BY <2>1, <2>2, <2>3, <2>4
<1>4. ASSUME NEW c \in Conns, HandleClose(c)
      PROVE  /\ UNCHANGED <<loopState, batch, held>>
             /\ \E l \in Loops, f \in FunctorSet : queue' = Push(queue, l, f)
  <2>1. UNCHANGED <<loopState, batch, held>> /\ ioLoop[c] \in Loops
    BY <1>4, CloseFacts
  <2>2. \/ queue' = Push(queue, ioLoop[c], ToDestroy(c))
        \/ queue' = Push(queue, Base, ToRemove(c))
    BY <1>4 DEF HandleClose, removeConnection, removeConnectionInLoop, ToDestroy, ToRemove
  <2>3. QED
    BY <2>1, <2>2
<1>5. ASSUME NEW c \in Conns, DropConnection(c)
      PROVE  /\ UNCHANGED <<loopState, batch, held>>
             /\ \/ queue' = queue
                \/ \E l \in Loops, f \in FunctorSet : queue' = Push(queue, l, f)
  <2>1. ioLoop[c] \in Loops
    BY DEF Types
  <2>2. \/ queue' = queue
        \/ queue' = Push(queue, ioLoop[c], ToDestroy(c))
    BY <1>5 DEF DropConnection, ToDestroy
  <2>3. UNCHANGED <<loopState, batch, held>>
    BY <1>5 DEF DropConnection
  <2>4. QED
    BY <2>1, <2>2, <2>3
<1>6. ASSUME NEW c \in Conns, PeerCloses(c) \/ HandleMessage(c)
      PROVE  UNCHANGED <<loopState, batch, held, queue>>
  BY <1>6 DEF PeerCloses, HandleMessage, Handles
<1>7. QED
  BY <1>1, <1>2, <1>3, <1>4, <1>5, <1>6
  DEF Next, StartStep, RunBatch, OwnerStep

(* The functor a loop calls is taken from its queue, and at most one is    *)
(* appended to a queue.                                                    *)
LEMMA CallFrame ==
  ASSUME Inv, NEW l \in Loops, CallFunctor(l)
  PROVE  /\ \E fn \in FunctorNames : Calls(l, fn)
         /\ \/ queue' = Pop(l)
            \/ /\ l = Base /\ RemoveConnectionInLoop
               /\ queue' = Push(Pop(Base), ioLoop[Head(queue[Base]).conn],
                                ToDestroy(Head(queue[Base]).conn))
<1>1. CASE ConnectEstablished(l) \/ ConnectDestroyed(l)
  BY <1>1 DEF ConnectEstablished, ConnectDestroyed, FunctorNames
<1>2. CASE l = Base /\ Listen
  BY <1>2 DEF Listen, FunctorNames
<1>3. CASE l = Base /\ RemoveConnectionInLoop
  BY <1>3, RemoveFacts
  DEF RemoveConnectionInLoop, removeConnectionInLoop, FunctorNames, ToDestroy
<1>4. QED
  BY <1>1, <1>2, <1>3 DEF CallFunctor

(* The batch stays the front of the queue of a loop that runs.             *)
LEMMA BatchStep ==
  ASSUME Inv, Next
  PROVE  \A l \in Loops : BatchOK(l)'
<1> USE LoopsFacts DEF Inv, LoopsOK, RunOK, poolVars, loopVars
<1>1. \A l \in Loops : /\ Len(queue[l]) \in Nat /\ batch[l] \in Nat
                       /\ BatchOK(l)
  BY LenProperties DEF Types
<1>2. SUFFICES ASSUME NEW l \in Loops PROVE BatchOK(l)'
  OBVIOUS
<1>3. CASE UNCHANGED <<queue, batch, held>> /\ (Runs(l) => Runs(l)')
  BY <1>1, <1>3 DEF BatchOK
<1>4. CASE \/ CreateLoop \/ RunBaseLoop \/ QuitBaseLoop
           \/ \E k \in Loops : EnterLoop(k)
  <2>1. UNCHANGED <<queue, batch, held>>
    BY <1>4 DEF CreateLoop, RunBaseLoop, QuitBaseLoop, EnterLoop
  <2>2. \/ CreateLoop
        \/ \E k \in Loops : loopState' = [loopState EXCEPT ![k] = "running"]
        \/ \E k \in Loops : loopState' = [loopState EXCEPT ![k] = "quitting"]
    <3>1. ASSUME NEW k \in Loops, EnterLoop(k)
          PROVE  loopState' = [loopState EXCEPT ![k] = "running"]
      BY <3>1 DEF EnterLoop
    <3>2. RunBaseLoop => loopState' = [loopState EXCEPT ![Base] = "running"]
      BY DEF RunBaseLoop
    <3>3. QuitBaseLoop => loopState' = [loopState EXCEPT ![Base] = "quitting"]
      BY DEF QuitBaseLoop
    <3>4. QED
      BY <1>4, <3>1, <3>2, <3>3
  <2>3. CASE CreateLoop
    <3>1. /\ Len(loops_') = Len(loops_) + 1
          /\ Len(loops_) + 1 \in SubLoops /\ Len(loops_) \in Nat
      <4>1. Len(loops_) + 1 \in SubLoops
        BY <2>3, StartFacts
      <4>2. loops_ \in Seq(SubLoops) /\ loops_' = Append(loops_, Len(loops_) + 1)
        BY <2>3 DEF CreateLoop, Types
      <4>3. QED
        BY <4>1, <4>2, AppendProperties, LenProperties
    <3>2. /\ loopState' = [loopState EXCEPT ![Len(loops_) + 1] = "published"]
          /\ ~Runs(Len(loops_) + 1)
      BY <2>3, <3>1 DEF CreateLoop, Runs
    <3>3. Runs(l) => Runs(l)'
      BY <3>1, <3>2 DEF Runs, Types
    <3>4. QED
      BY <2>1, <3>3, <1>3
  <2>4. CASE ~CreateLoop
    <3>1. Runs(l) => Runs(l)'
      BY <2>2, <2>4 DEF Runs, Types
    <3>2. QED
      BY <2>1, <3>1, <1>3
  <2>5. QED
    BY <2>3, <2>4
<1>5. ASSUME NEW i \in DOMAIN loops_, QuitLoop(i)
      PROVE  BatchOK(l)'
  <2>1. UNCHANGED <<queue, batch, held>>
    BY <1>5 DEF QuitLoop
  <2>2. Runs(l) => Runs(l)'
    BY <1>5 DEF QuitLoop, Runs, Types
  <2>3. QED
    BY <2>1, <2>2, <1>3
<1>6. ASSUME NEW k \in Loops, TakeBatch(k)
      PROVE  BatchOK(l)'
  <2>1. /\ Runs(k) /\ batch' = [batch EXCEPT ![k] = Len(queue[k])]
        /\ UNCHANGED <<loopState, queue, held>>
    BY <1>6 DEF TakeBatch, BetweenBatches
  <2>2. QED
    BY <1>1, <2>1 DEF BatchOK, Runs, Types
<1>7. ASSUME NEW k \in Loops, EndBatch(k)
      PROVE  BatchOK(l)'
  <2>1. held' = [held EXCEPT ![k] = {}] /\ UNCHANGED <<loopState, queue, batch>>
    BY <1>7 DEF EndBatch
  <2>2. QED
    BY <1>1, <2>1 DEF BatchOK, Runs, Types
<1>8. ASSUME NEW k \in Loops, EndLoop(k)
      PROVE  BatchOK(l)'
  <2>1. /\ batch[k] = 0 /\ held[k] = {}
        /\ loopState' = [loopState EXCEPT ![k] = "ended"]
        /\ queue' = queue \/ queue' = [queue EXCEPT ![k] = <<>>]
        /\ UNCHANGED <<batch, held>>
    BY <1>8 DEF EndLoop, BetweenBatches
  <2>2. CASE l = k
    BY <1>1, <2>1, <2>2, EmptySeq DEF BatchOK, Types
  <2>3. CASE l # k
    <3>1. queue'[l] = queue[l] /\ loopState'[l] = loopState[l]
      BY <2>1, <2>3 DEF Types
    <3>2. QED
      BY <1>1, <2>1, <3>1 DEF BatchOK, Runs
  <2>4. QED
    BY <2>2, <2>3
<1>9. ASSUME NEW k \in Loops, CallFunctor(k)
      PROVE  BatchOK(l)'
  <2>1. PICK fn \in FunctorNames : Calls(k, fn)
    BY <1>9, CallFrame
  <2>2. /\ Runs(k) /\ queue[k] # <<>> /\ batch[k] \in 1 .. Len(queue[k])
        /\ UNCHANGED loopState
        /\ batch' = [batch EXCEPT ![k] = batch[k] - 1]
        /\ held' = [held EXCEPT ![k] = @ \cup {Head(queue[k]).conn}]
    BY <2>1, CallFacts DEF Calls
  <2>3. /\ Pop(k) \in [Loops -> Seq(FunctorSet)]
        /\ \A m \in Loops \ {k} : Pop(k)[m] = queue[m]
        /\ Len(queue[k]) = Len(Pop(k)[k]) + 1
    BY <2>2, PopFacts DEF Types, QueueOK
  <2>4. \A m \in Loops : /\ Len(Pop(k)[m]) \in Nat
                         /\ Len(queue'[m]) >= Len(Pop(k)[m])
    <3>1. \A m \in Loops : Len(Pop(k)[m]) \in Nat
      BY <2>3, LenProperties
    <3>2. CASE queue' = Pop(k)
      BY <3>1, <3>2
    <3>3. CASE /\ k = Base /\ RemoveConnectionInLoop
               /\ queue' = Push(Pop(Base), ioLoop[Head(queue[Base]).conn],
                                ToDestroy(Head(queue[Base]).conn))
      <4> DEFINE c == Head(queue[Base]).conn
      <4>1. c \in Conns /\ ioLoop[c] \in Loops /\ ToDestroy(c) \in FunctorSet
        BY <3>3, RemoveFacts, AcceptedFacts DEF Types
      <4>2. /\ \A m \in Loops \ {ioLoop[c]} : queue'[m] = Pop(k)[m]
            /\ Len(queue'[ioLoop[c]]) = Len(Pop(k)[ioLoop[c]]) + 1
        <5>1. queue' = Push(Pop(Base), ioLoop[c], ToDestroy(c))
          BY <3>3
        <5> HIDE DEF c, Inv
        <5>2. Pop(Base) \in [Loops -> Seq(FunctorSet)]
          BY <2>3, <3>3
        <5>3. ASSUME NEW q \in [Loops -> Seq(FunctorSet)],
                     NEW io \in Loops, NEW f \in FunctorSet
              PROVE  /\ \A m \in Loops \ {io} : Push(q, io, f)[m] = q[m]
                     /\ Len(Push(q, io, f)[io]) = Len(q[io]) + 1
          BY PushFacts
        <5> DEFINE q == Pop(Base)
                   r == Push(q, ioLoop[c], ToDestroy(c))
        <5>4. /\ \A m \in Loops \ {ioLoop[c]} : r[m] = q[m]
              /\ Len(r[ioLoop[c]]) = Len(q[ioLoop[c]]) + 1
          BY <4>1, <5>2, <5>3
        <5>5. queue' = r /\ Pop(k) = q
          BY <5>1, <3>3
        <5> HIDE DEF q, r
        <5>6. QED
          BY <5>4, <5>5
      <4>3. QED
        BY <3>1, <4>1, <4>2
    <3>4. QED
      BY <3>2, <3>3, <1>9, CallFrame
  <2>5. CASE l = k
    <3>1. batch'[l] <= Len(queue'[l])
      BY <2>2, <2>3, <2>4, <2>5, <1>1 DEF Types
    <3>2. Runs(l)'
      BY <2>2, <2>5 DEF Runs
    <3>3. QED
      BY <3>1, <3>2 DEF BatchOK
  <2>6. CASE l # k
    <3>1. /\ batch'[l] = batch[l] /\ held'[l] = held[l] /\ loopState'[l] = loopState[l]
          /\ Len(queue'[l]) >= Len(queue[l])
      BY <2>2, <2>3, <2>4, <2>6 DEF Types
    <3>2. Len(queue'[l]) \in Int
      <4>1. queue' \in [Loops -> Seq(FunctorSet)]
        BY <1>9, ConnTypes DEF CallFunctor, Types
      <4>2. QED
        BY <4>1, LenProperties
    <3>3. QED
      BY <1>1, <3>1, <3>2 DEF BatchOK, Runs
  <2>7. QED
    BY <2>5, <2>6
<1>10. CASE DestroyBaseLoop
  <2>1. /\ queue' = [queue EXCEPT ![Base] = <<>>] /\ opc = "gone"
        /\ UNCHANGED <<loopState, batch, held>>
    BY <1>10 DEF DestroyBaseLoop
  <2>2. CASE l = Base
    <3>1. ~Runs(l)
      <4>1. Runs(Base) <=> opc = "loop"
        OBVIOUS
      <4>2. QED
        BY <2>1, <2>2, <4>1
    <3>2. QED
      BY <1>1, <2>1, <2>2, <3>1, EmptySeq DEF BatchOK, Runs, Types
  <2>3. CASE l # Base
    <3>1. queue'[l] = queue[l]
      BY <2>1, <2>3 DEF Types
    <3>2. QED
      BY <1>1, <2>1, <3>1 DEF BatchOK, Runs
  <2>4. QED
    BY <2>2, <2>3
<1>11. CASE UNCHANGED <<loopState, batch, held>> /\ queue' = queue
  BY <1>11, <1>3 DEF Runs
<1>12. ASSUME NEW k \in Loops, NEW f \in FunctorSet, queue' = Push(queue, k, f),
              UNCHANGED <<loopState, batch, held>>
       PROVE  BatchOK(l)'
  <2> DEFINE q == Push(queue, k, f)
  <2>0. /\ \A m \in Loops \ {k} : q[m] = queue[m]
        /\ Len(q[k]) = Len(queue[k]) + 1
    <3>1. queue \in [Loops -> Seq(FunctorSet)]
      BY DEF Types
    <3> HIDE DEF Inv
    <3>2. QED
      BY <3>1, PushFacts
  <2>1. Len(queue'[l]) = Len(queue[l]) \/ Len(queue'[l]) = Len(queue[l]) + 1
    <3> HIDE DEF q
    <3>1. queue' = q
      BY <1>12 DEF q
    <3>2. QED
      BY <2>0, <3>1
  <2>2. QED
    BY <1>1, <1>12, <2>1 DEF BatchOK, Runs
<1>13. QED
  BY <1>4, <1>5, <1>6, <1>7, <1>8, <1>9, <1>10, <1>11, <1>12, AppendFrame

-----------------------------------------------------------------------------
(* Connections.                                                            *)

(* Which steps are about connections or queues; a server that is being     *)
(* destroyed remains so, and no poller comes to exist but that of a loop   *)
(* of the pool that is created.                                            *)
LEMMA DestroyingStep ==
  ASSUME Inv, Next
  PROVE  /\ Destroying => Destroying'
         /\ CreateLoop \/ \A l \in Loops : PollerExists(l)' => PollerExists(l)
<1> USE LoopsFacts DEF Destroying
<1>1. loopState \in [Loops -> LoopControl]
  BY DEF Inv, Types
<1>2. CASE CreateLoop
  BY <1>2 DEF CreateLoop
<1>3. CASE StartByOwner \/ ListenByOwner \/ Destructor \/ DestroyPool \/ DestroyAcceptor
           \/ DestroyBaseLoop
  <2>1. UNCHANGED loopState /\ (Destroying => Destroying') /\ opc # "end"
    BY <1>3 DEF Starting, StartByOwner, ListenByOwner, Destructor, DestroyPool,
                DestroyAcceptor, DestroyBaseLoop, loopVars
  <2>2. QED
    BY <2>1 DEF PollerExists, Runs
<1>4. CASE RunBaseLoop \/ QuitBaseLoop
  <2>1. /\ opc \in {"setup", "loop"} /\ opc' \in {"setup", "loop"}
        /\ \A l \in Loops : l # Base => loopState'[l] = loopState[l]
    BY <1>1, <1>4 DEF RunBaseLoop, QuitBaseLoop, Inv, LoopsOK, RunOK, Runs
  <2>2. QED
    BY <2>1 DEF PollerExists, Runs
<1>5. ASSUME NEW k \in Loops, EndLoop(k)
      PROVE  /\ Destroying => Destroying'
             /\ \A l \in Loops : PollerExists(l)' => PollerExists(l)
  <2>1. /\ loopState' = [loopState EXCEPT ![k] = "ended"]
        /\ opc' = opc \/ (k = Base /\ opc' = "looped")
        /\ Runs(k)
    BY <1>5 DEF EndLoop, Runs
  <2>2. opc' = opc \/ opc = "loop"
    BY <2>1 DEF Inv, LoopsOK, RunOK
  <2>3. \A l \in Loops : l # k => loopState'[l] = loopState[l]
    BY <1>1, <2>1
  <2>4. loopState'[k] = "ended"
    BY <1>1, <2>1
  <2>5. QED
    BY <2>1, <2>2, <2>3, <2>4 DEF PollerExists, Runs
<1>6. ASSUME NEW i \in DOMAIN loops_, QuitLoop(i)
      PROVE  /\ Destroying => Destroying'
             /\ \A l \in Loops : PollerExists(l)' => PollerExists(l)
  BY <1>1, <1>6 DEF QuitLoop, PollerExists, Runs
<1>7. CASE UNCHANGED <<opc, loopState, loops_>>
  BY <1>7 DEF PollerExists, Runs
<1>8. ASSUME NEW k \in Loops, EnterLoop(k)
      PROVE  /\ Destroying => Destroying'
             /\ \A l \in Loops : PollerExists(l)' => PollerExists(l)
  BY <1>1, <1>8 DEF EnterLoop, PollerExists, Runs
<1>9. QED
  BY <1>2, <1>3, <1>4, <1>5, <1>6, <1>7, <1>8, ControlFrame

(* Which steps are about connections and queues.                           *)
LEMMA ConnFrame ==
  ASSUME Next
  PROVE  \/ AcceptOne \/ Listen \/ RemoveConnectionInLoop
         \/ \E l \in Loops : ConnectEstablished(l) \/ ConnectDestroyed(l)
         \/ \E c \in Conns : HandleClose(c) \/ HandleMessage(c) \/ DropConnection(c)
         \/ CreateLoop \/ ListenByOther \/ DestroyBaseLoop
         \/ \E l \in SubLoops : EndLoop(l)
         \/ UNCHANGED <<loops_, numThreads_, nextConnId_, ioLoop, connections_,
                        state_, registered, told, ran, queue>>
<1> USE LoopsFacts DEF poolVars, acceptVars, mapVars, connVars, loopVars
<1>1. CASE \/ StartByOwner \/ StartByOther \/ ListenByOwner \/ RunBaseLoop \/ QuitBaseLoop
           \/ ClientConnects \/ AcceptFails
  BY <1>1 DEF StartByOwner, StartByOther, ListenByOwner, RunBaseLoop, QuitBaseLoop,
              ClientConnects, AcceptFails
<1>2. CASE Destructor \/ DestroyPool \/ DestroyAcceptor
  BY <1>2 DEF Destructor, DestroyPool, DestroyAcceptor
<1>3. ASSUME NEW c \in Conns, PeerCloses(c)
      PROVE  UNCHANGED <<loops_, numThreads_, nextConnId_, ioLoop, connections_,
                         state_, registered, told, ran, queue>>
  BY <1>3 DEF PeerCloses
<1>4. ASSUME NEW l \in Loops,
             EnterLoop(l) \/ TakeBatch(l) \/ EndBatch(l) \/ (EndLoop(l) /\ l = Base)
      PROVE  UNCHANGED <<loops_, numThreads_, nextConnId_, ioLoop, connections_,
                         state_, registered, told, ran, queue>>
  BY <1>4 DEF EnterLoop, TakeBatch, EndBatch, EndLoop
<1>5. ASSUME NEW i \in DOMAIN loops_, QuitLoop(i)
      PROVE  UNCHANGED <<loops_, numThreads_, nextConnId_, ioLoop, connections_,
                         state_, registered, told, ran, queue>>
  BY <1>5 DEF QuitLoop
<1>6. QED
  BY <1>1, <1>2, <1>3, <1>4, <1>5
  DEF Next, StartStep, RunBatch, CallFunctor, OwnerStep

(* What the member functions do to the agreement of a connection's state.  *)
LEMMA MemberAgrees ==
  ASSUME Types, NEW c \in Conns, \A d \in Conns : StateAgrees(d),
         NEW t \in Loops, c \in Accepted', \A d \in Accepted : d \in Accepted',
         \/ connectEstablished(c, t) /\ told[c] = <<>>
         \/ connectDestroyed(c, t)
         \/ handleClose(c, t) /\ registered[c] = "enabled"
  PROVE  \A d \in Conns : StateAgrees(d)'
<1> USE DEF StateAgrees, Down
<1>1. /\ state_ \in [Conns -> {"kConnecting", "kConnected", "kDisconnecting",
                               "kDisconnected"}]
      /\ registered \in [Conns -> {"no", "enabled", "disabled"}]
      /\ told \in [Conns -> {<<>>, <<"UP">>, <<"UP", "DOWN">>}]
      /\ ran \in [Conns -> SUBSET Loops]
  BY DEF Types
<1>2. /\ \A d \in Conns : d # c => /\ state_'[d] = state_[d]
                                   /\ registered'[d] = registered[d]
                                   /\ told'[d] = told[d]
                                   /\ ran'[d] = ran[d]
      /\ \/ /\ state_'[c] = "kConnected" /\ told'[c] = <<"UP">>
         \/ /\ state_'[c] = "kDisconnected" /\ told'[c] = <<"UP", "DOWN">>
            /\ registered'[c] # "enabled"
         \/ /\ state_'[c] = state_[c] /\ told'[c] = told[c]
            /\ registered'[c] = "no"
  <2>1. CASE connectEstablished(c, t) /\ told[c] = <<>>
    BY <1>1, <2>1, ToldAppend DEF connectEstablished
  <2>2. CASE connectDestroyed(c, t)
    <3>1. CASE state_[c] = "kConnected"
      <4>1. told[c] = <<"UP">>
        BY <1>1, <3>1
      <4>2. /\ state_' = [state_ EXCEPT ![c] = "kDisconnected"]
            /\ told' = [told EXCEPT ![c] = <<"UP", "DOWN">>]
            /\ registered' = [registered EXCEPT ![c] = "no"]
            /\ ran' = [ran EXCEPT ![c] = @ \cup {t}]
        BY <2>2, <3>1, <4>1, ToldAppend DEF connectDestroyed
      <4>3. QED
        BY <1>1, <4>2
    <3>2. CASE state_[c] # "kConnected"
      BY <1>1, <2>2, <3>2 DEF connectDestroyed
    <3>3. QED
      BY <3>1, <3>2
  <2>3. CASE handleClose(c, t) /\ registered[c] = "enabled"
    BY <1>1, <2>3, ToldAppend DEF handleClose
  <2>4. QED
    BY <2>1, <2>2, <2>3
<1>3. <<"UP">> # <<>> /\ <<"UP">> # <<"UP", "DOWN">> /\ <<"UP", "DOWN">> # <<>>
  OBVIOUS
<1>4. ASSUME NEW d \in Conns
      PROVE  StateAgrees(d)'
  <2>1. CASE d = c
    BY <1>1, <1>2, <1>3, <2>1
  <2>2. CASE d # c
    BY <1>2, <2>2
  <2>3. QED
    BY <2>1, <2>2
<1>5. QED
  BY <1>4

(* The state of a connection agrees with what its channel is registered    *)
(* for and what the application was told.                                  *)
LEMMA StateStep ==
  ASSUME Inv, Next
  PROVE  \A c \in Conns : StateAgrees(c)'
<1> USE AcceptedFacts, LoopsFacts DEF Inv
<1>1. CASE AcceptOne
  <2> DEFINE c == nextConnId_
  <2>1. /\ c \in Conns /\ poolReady
        /\ nextConnId_' = nextConnId_ + 1
    BY <1>1, TcpServerAssumption DEF AcceptOne, newConnection, LoopsOK, PoolOK, Types, Conns
  <2>2. Accepted' = Accepted \cup {c}
    BY <2>1 DEF Accepted, Types
  <2>3. told[c] = <<>>
    BY <2>1 DEF StateAgrees
  <2>4. CASE connectEstablished(c, Base)
    <3> HIDE DEF c
    <3>1. QED
      BY <2>1, <2>2, <2>3, <2>4, MemberAgrees
  <2>5. CASE UNCHANGED connVars
    BY <2>2, <2>5 DEF connVars, StateAgrees, Down
  <2>6. QED
    BY <1>1, <2>4, <2>5 DEF AcceptOne, newConnection
<1>2. ASSUME NEW l \in Loops, ConnectEstablished(l)
      PROVE  \A c \in Conns : StateAgrees(c)'
  <2>1. PICK c \in Accepted : connectEstablished(c, l) /\ told[c] = <<>>
    BY <1>2, EstablishFacts
  <2>2. Accepted' = Accepted
    BY <1>2 DEF ConnectEstablished, Accepted, acceptVars
  <2>3. QED
    BY <2>1, <2>2, MemberAgrees
<1>3. ASSUME NEW l \in Loops, ConnectDestroyed(l)
      PROVE  \A c \in Conns : StateAgrees(c)'
  <2>1. PICK c \in Accepted : connectDestroyed(c, l)
    BY <1>3, DestroyFacts
  <2>2. Accepted' = Accepted
    BY <1>3 DEF ConnectDestroyed, Accepted, acceptVars
  <2>3. QED
    BY <2>1, <2>2, MemberAgrees
<1>4. ASSUME NEW c \in Conns, HandleClose(c)
      PROVE  \A d \in Conns : StateAgrees(d)'
  <2>1. /\ c \in Accepted /\ ioLoop[c] \in Loops
        /\ handleClose(c, ioLoop[c]) /\ registered[c] = "enabled"
    BY <1>4, CloseFacts DEF HandleClose
  <2>2. Accepted' = Accepted
    BY <1>4 DEF HandleClose, Accepted, acceptVars
  <2>3. QED
    BY <2>1, <2>2, MemberAgrees
<1>5. ASSUME NEW c \in Conns, HandleMessage(c)
      PROVE  \A d \in Conns : StateAgrees(d)'
  <2>1. /\ state_[c] = "kConnected" /\ registered[c] = "enabled"
        /\ state_' = [state_ EXCEPT ![c] = "kDisconnecting"]
        /\ UNCHANGED <<registered, told, ran, nextConnId_>>
    BY <1>5 DEF HandleMessage, acceptVars
  <2>2. state_ \in [Conns -> {"kConnecting", "kConnected", "kDisconnecting",
                              "kDisconnected"}]
    BY DEF Types
  <2>3. QED
    BY <2>1, <2>2 DEF StateAgrees, Down, Accepted
<1>6. ASSUME NEW c \in Conns, DropConnection(c)
      PROVE  \A d \in Conns : StateAgrees(d)'
  <2>1. c \in Accepted /\ Accepted' = Accepted
    BY <1>6 DEF DropConnection, Types, Accepted, acceptVars
  <2>2. CASE connectDestroyed(c, Base)
    BY <2>1, <2>2, MemberAgrees
  <2>3. CASE UNCHANGED connVars
    BY <2>1, <2>3 DEF connVars, StateAgrees, Down
  <2>4. QED
    BY <1>6, <2>2, <2>3 DEF DropConnection
<1>7. CASE UNCHANGED <<state_, registered, told, ran, nextConnId_>>
  BY <1>7 DEF StateAgrees, Down, Accepted
<1>8. CASE Listen \/ RemoveConnectionInLoop \/ CreateLoop \/ ListenByOther \/ DestroyBaseLoop
  BY <1>7, <1>8 DEF Listen, RemoveConnectionInLoop, CreateLoop, ListenByOther,
                    DestroyBaseLoop, acceptVars, connVars
<1>9. ASSUME NEW l \in Loops, EndLoop(l)
      PROVE  UNCHANGED <<state_, registered, told, ran, nextConnId_>>
  BY <1>9 DEF EndLoop, acceptVars, connVars
<1>10. QED
  BY <1>1, <1>2, <1>3, <1>4, <1>5, <1>6, <1>7, <1>8, <1>9, ConnFrame

-----------------------------------------------------------------------------
(* Functors.                                                               *)

(* A connection accepted stays accepted and keeps its loop; the pool stays *)
(* complete, and is when there is a connection.                            *)
LEMMA AcceptedStep ==
  ASSUME Inv, Next
  PROVE  /\ Accepted \subseteq Accepted'
         /\ AcceptOne \/ (nextConnId_' = nextConnId_ /\ ioLoop' = ioLoop)
         /\ \A c \in Accepted : ioLoop'[c] = ioLoop[c]
         /\ poolReady => poolReady' /\ UNCHANGED <<loops_, numThreads_>>
<1> USE DEF Inv, LoopsOK
<1>1. AcceptOne \/ (nextConnId_' = nextConnId_ /\ ioLoop' = ioLoop)
  <2>1. CASE CreateLoop \/ ListenByOther \/ DestroyBaseLoop \/ Listen
             \/ RemoveConnectionInLoop
    BY <2>1 DEF CreateLoop, ListenByOther, DestroyBaseLoop, Listen,
                RemoveConnectionInLoop, acceptVars
  <2>2. ASSUME NEW l \in Loops, ConnectEstablished(l) \/ ConnectDestroyed(l) \/ EndLoop(l)
        PROVE  nextConnId_' = nextConnId_ /\ ioLoop' = ioLoop
    BY <2>2 DEF ConnectEstablished, ConnectDestroyed, EndLoop, acceptVars
  <2>3. ASSUME NEW c \in Conns, HandleClose(c) \/ HandleMessage(c) \/ DropConnection(c)
        PROVE  nextConnId_' = nextConnId_ /\ ioLoop' = ioLoop
    BY <2>3 DEF HandleClose, HandleMessage, DropConnection, acceptVars
  <2>4. QED
    BY <2>1, <2>2, <2>3, ConnFrame, LoopsFacts
<1>2. CASE AcceptOne
  <2>1. /\ nextConnId_' = nextConnId_ + 1 /\ nextConnId_ \in Nat
        /\ \E io : ioLoop' = [ioLoop EXCEPT ![nextConnId_] = io]
        /\ UNCHANGED <<loops_, numThreads_>>
    BY <1>2, AcceptedFacts DEF AcceptOne, newConnection, poolVars
  <2>2. Accepted \subseteq Accepted'
    BY <2>1 DEF Accepted
  <2>3. ASSUME NEW c \in Accepted
        PROVE  ioLoop'[c] = ioLoop[c]
    <3>1. PICK io : ioLoop' = [ioLoop EXCEPT ![nextConnId_] = io]
      BY <2>1
    <3>2. c \in Conns /\ c # nextConnId_ /\ DOMAIN ioLoop = Conns
      BY AcceptedFacts DEF Types
    <3>3. QED
      BY <3>1, <3>2
  <2>4. QED
    BY <1>1, <2>1, <2>2, <2>3 DEF poolReady
<1>3. CASE nextConnId_' = nextConnId_ /\ ioLoop' = ioLoop
  <2>1. CASE CreateLoop
    <3>1. ~poolReady
      BY <2>1, StartFacts, LenProperties DEF poolReady, Inv, Types
    <3>2. QED
      BY <1>3, <3>1 DEF Accepted
  <2>2. CASE \/ ListenByOwner \/ ClientConnects \/ AcceptOne \/ Listen \/ DestroyAcceptor
    <3>1. UNCHANGED <<loops_, numThreads_>>
      BY <2>2 DEF ListenByOwner, ClientConnects, AcceptOne, Listen, DestroyAcceptor,
                  poolVars
    <3>2. QED
      BY <1>3, <3>1 DEF Accepted, poolReady
  <2>3. CASE UNCHANGED <<loops_, numThreads_, next_, listening_, backlog, nextConnId_>>
    BY <1>3, <2>3 DEF Accepted, poolReady
  <2>4. QED
    BY <2>1, <2>2, <2>3, PoolFrame
<1>4. QED
  BY <1>1, <1>2, <1>3

(* A functor that is where it belongs still belongs there.                 *)
LEMMA FunctorStep ==
  ASSUME Inv, Next, NEW l, NEW f, FunctorOK(l, f)
  PROVE  FunctorOK(l, f)'
BY AcceptedStep DEF FunctorOK

(* A queue that gets a functor is in order if it was and none in it but    *)
(* one that establishes the connection is about the same connection.       *)
LEMMA QueuePush ==
  ASSUME Inv, Next, NEW l \in Loops, NEW f \in FunctorSet,
         queue' = Push(queue, l, f),
         FunctorOK(l, f) \/ FunctorOK(l, f)',
         \A g \in ToSet(queue[l]) : Follows(g, f)
  PROVE  \A k \in Loops : QueueOK(k)'
<1> DEFINE q == Push(queue, l, f)
<1>1. /\ \A k \in Loops \ {l} : q[k] = queue[k]
      /\ ToSet(q[l]) = ToSet(queue[l]) \cup {f}
      /\ Shape(q[l])
  <2>1. queue \in [Loops -> Seq(FunctorSet)] /\ Shape(queue[l])
    BY DEF Inv, Types, QueueOK
  <2>2. \A k \in Loops \ {l} : Push(queue, l, f)[k] = queue[k]
    BY <2>1, PushFacts
  <2>3. \A g : g \in ToSet(Push(queue, l, f)[l]) <=> g \in ToSet(queue[l]) \/ g = f
    BY <2>1, PushFacts
  <2>4. Shape(queue[l]) /\ (\A g \in ToSet(queue[l]) : Follows(g, f))
             => Shape(Push(queue, l, f)[l])
    BY <2>1, PushFacts
  <2>5. QED
    BY <2>1, <2>2, <2>3, <2>4
<1>2. queue' = q
  OBVIOUS
<1> HIDE DEF q
<1>3. SUFFICES ASSUME NEW k \in Loops
               PROVE  Shape(queue'[k]) /\ \A g \in ToSet(queue'[k]) : FunctorOK(k, g)'
  BY DEF QueueOK
<1>4. Shape(queue[k]) /\ \A g \in ToSet(queue[k]) : FunctorOK(k, g)'
  BY FunctorStep DEF Inv, QueueOK
<1>5. CASE k = l
  <2>1. FunctorOK(l, f)'
    BY FunctorStep
  <2>2. QED
    BY <1>1, <1>2, <1>4, <1>5, <2>1
<1>6. CASE k # l
  BY <1>1, <1>2, <1>4, <1>6
<1>7. QED
  BY <1>5, <1>6

(* The same of a queue whose first functor is called.                      *)
LEMMA QueuePop ==
  ASSUME Inv, Next, NEW l \in Loops, CallFunctor(l), queue' = Pop(l)
  PROVE  /\ \A k \in Loops : QueueOK(k)'
         /\ \A k \in Loops \ {l} : queue'[k] = queue[k]
         /\ ToSet(queue[l]) = ToSet(queue'[l]) \cup {Head(queue[l])}
         /\ \A g \in ToSet(queue'[l]) : Follows(Head(queue[l]), g)
<1>1. queue \in [Loops -> Seq(FunctorSet)] /\ Shape(queue[l])
  BY DEF Inv, Types, QueueOK
<1>2. queue[l] # <<>>
  BY CallFrame, CallFacts DEF Inv
<1>3. /\ \A k \in Loops \ {l} : queue'[k] = queue[k]
      /\ ToSet(queue[l]) = ToSet(queue'[l]) \cup {Head(queue[l])}
      /\ Shape(queue'[l])
      /\ \A g \in ToSet(queue'[l]) : Follows(Head(queue[l]), g)
  BY <1>1, <1>2, PopFacts
<1>4. \A k \in Loops : /\ Shape(queue[k])
                       /\ \A g \in ToSet(queue[k]) : FunctorOK(k, g)'
  BY FunctorStep DEF Inv, QueueOK
<1>5. \A k \in Loops : QueueOK(k)'
  BY <1>3, <1>4 DEF QueueOK
<1>6. QED
  BY <1>3, <1>5

(* What is pending for a connection, in terms of the functors queued.      *)
LEMMA PendingFacts ==
  ASSUME Inv, NEW l \in Loops, NEW g \in ToSet(queue[l]), NEW c \in Accepted,
         g.conn = c
  PROVE  \/ g = ToEstablish(c) /\ l = ioLoop[c] /\ Pending(l, ToEstablish(c))
         \/ g = ToRemove(c) /\ l = Base /\ Pending(Base, ToRemove(c))
         \/ g = ToDestroy(c) /\ l = ioLoop[c] /\ Pending(l, ToDestroy(c))
<1>1. FunctorOK(l, g) /\ c # 0
  BY AcceptedFacts DEF Inv, QueueOK
<1>2. g \in FunctorSet
  <2>1. queue[l] \in Seq(FunctorSet)
    BY DEF Inv, Types
  <2>2. PICK i \in DOMAIN queue[l] : g = queue[l][i]
    BY DEF ToSet
  <2>3. QED
    BY <2>1, <2>2, LenProperties, ElementOfSeq
<1>3. g = Functor(g.fn, g.conn)
  BY <1>2 DEF FunctorSet, Functor
<1>4. QED
  BY <1>1, <1>3 DEF FunctorOK, Pending, ToEstablish, ToRemove, ToDestroy

(* removeConnectionInLoop() takes its functor from the base loop's queue   *)
(* and appends one to that of the connection's loop.                       *)
LEMMA RemoveQueues ==
  ASSUME Inv, RemoveConnectionInLoop,
         NEW c, c = Head(queue[Base]).conn, NEW io, io = ioLoop[c]
  PROVE  /\ io \in Loops /\ io # Base
         /\ \A k \in Loops \ {Base, io} : queue'[k] = queue[k]
         /\ \A g : g \in ToSet(queue[Base])
                     <=> g \in ToSet(queue'[Base]) \/ g = ToRemove(c)
         /\ \A g \in ToSet(queue'[Base]) : Follows(ToRemove(c), g)
         /\ \A g : g \in ToSet(queue'[io]) <=> g \in ToSet(queue[io]) \/ g = ToDestroy(c)
         /\ Shape(queue'[Base]) /\ Shape(queue'[io])
<1>1. /\ c \in Accepted /\ c \in Conns /\ io # Base /\ c \in connections_ /\ Down(c)
      /\ Head(queue[Base]) = ToRemove(c)
      /\ queue' = Push(Pop(Base), io, ToDestroy(c))
      /\ queue[Base] # <<>>
  BY RemoveFacts, AcceptedFacts, CallFacts, LoopsFacts
  DEF removeConnectionInLoop, RemoveConnectionInLoop, ToDestroy, Inv
<1>2. /\ queue \in [Loops -> Seq(FunctorSet)] /\ io \in Loops
      /\ ToDestroy(c) \in FunctorSet
  BY <1>1, AcceptedFacts DEF Inv, Types
<1>3. \A l \in Loops : Shape(queue[l])
  BY DEF Inv, QueueOK
<1> DEFINE q == Pop(Base)
<1>4. /\ q \in [Loops -> Seq(FunctorSet)]
      /\ \A k \in Loops \ {Base} : q[k] = queue[k]
      /\ ToSet(queue[Base]) = ToSet(q[Base]) \cup {ToRemove(c)}
      /\ Shape(q[Base])
      /\ \A g \in ToSet(q[Base]) : Follows(ToRemove(c), g)
  BY <1>1, <1>2, <1>3, PopFacts, LoopsFacts
<1>5. \A g \in ToSet(queue[io]) : Follows(g, ToDestroy(c))
  <2>1. SUFFICES ASSUME NEW g \in ToSet(queue[io]), g.conn = c
                 PROVE  FALSE
    BY DEF Follows, ToDestroy, Functor
  <2>2. g = ToEstablish(c) \/ g = ToDestroy(c)
    BY <1>1, <1>2, <2>1, PendingFacts
  <2>3. Pending(io, ToEstablish(c)) \/ Pending(io, ToDestroy(c))
    BY <2>1, <2>2 DEF Pending
  <2>4. Placed(c)
    BY <1>1 DEF Inv
  <2>5. QED
    BY <1>1, <2>3, <2>4 DEF Placed, Down
<1>6. queue' = Push(q, io, ToDestroy(c))
  BY <1>1
<1> HIDE DEF q
<1>7. /\ \A k \in Loops \ {io} : queue'[k] = q[k]
      /\ \A g : g \in ToSet(queue'[io]) <=> g \in ToSet(q[io]) \/ g = ToDestroy(c)
  <2>0. /\ q \in [Loops -> Seq(FunctorSet)] /\ io \in Loops
        /\ ToDestroy(c) \in FunctorSet
    BY <1>2, <1>4
  <2>1. \A k \in Loops \ {io} : Push(q, io, ToDestroy(c))[k] = q[k]
    BY <2>0, PushFacts
  <2>2. \A g : g \in ToSet(Push(q, io, ToDestroy(c))[io])
                 <=> g \in ToSet(q[io]) \/ g = ToDestroy(c)
    BY <2>0, PushFacts
  <2>3. QED
    BY <2>1, <2>2, <1>6
<1>8. Shape(queue'[io])
  <2>1. Shape(q[io]) /\ \A g \in ToSet(q[io]) : Follows(g, ToDestroy(c))
    BY <1>1, <1>2, <1>3, <1>4, <1>5
  <2>2. Shape(Push(q, io, ToDestroy(c))[io])
    BY <1>2, <1>4, <2>1, PushFacts
  <2>3. QED
    BY <2>2, <1>6
<1>9. QED
  BY <1>1, <1>2, <1>4, <1>7, <1>8, LoopsFacts

(* Every functor is where it belongs, and in order.                        *)
LEMMA QueueStep ==
  ASSUME Inv, Next
  PROVE  \A k \in Loops : QueueOK(k)'
<1> USE AcceptedFacts, LoopsFacts
<1>1. /\ queue \in [Loops -> Seq(FunctorSet)] /\ ioLoop \in [Conns -> Loops]
      /\ \A l \in Loops : /\ Shape(queue[l])
                          /\ \A f \in ToSet(queue[l]) : FunctorOK(l, f) /\ FunctorOK(l, f)'
  BY FunctorStep DEF Inv, Types, QueueOK
<1>2. CASE queue' = queue
  BY <1>1, <1>2 DEF QueueOK
<1>3. CASE ListenByOther
  <2> DEFINE f == Functor("listen", 0)
  <2>1. queue' = Push(queue, Base, f) /\ poolReady
    BY <1>3, StartFacts DEF ListenByOther, Inv
  <2>2. FunctorOK(Base, f)
    BY <2>1 DEF FunctorOK, Functor
  <2>3. \A g \in ToSet(queue[Base]) : Follows(g, f)
    BY DEF Follows, Functor
  <2> HIDE DEF f
  <2>4. f \in FunctorSet
    BY DEF f, Inv
  <2>5. QED
    BY <2>1, <2>2, <2>3, <2>4, QueuePush
<1>4. CASE AcceptOne
  <2>0. /\ getNextLoop.loop \in Loops /\ nextConnId_ \in Conns
    <3>1. nextConnId_ \in Conns /\ poolReady
      BY <1>4, TcpServerAssumption
      DEF AcceptOne, Inv, LoopsOK, PoolOK, Types, Conns
    <3>2. QED
      BY <3>1, NextLoopFacts DEF Inv
  <2>1. PICK c \in Conns, io \in Loops, f \in FunctorSet :
           c = nextConnId_ /\ io = getNextLoop.loop /\ f = ToEstablish(c)
    BY <2>0 DEF Inv
  <2>2. /\ IF io = Base THEN queue' = queue ELSE queue' = Push(queue, io, f)
        /\ nextConnId_' = c + 1 /\ ioLoop' = [ioLoop EXCEPT ![c] = io]
    BY <1>4, <2>1 DEF AcceptOne, newConnection, ToEstablish
  <2>3. ioLoop'[c] = io
    BY <1>1, <2>2
  <2>4. c \in Accepted'
    BY <2>1, <2>2 DEF Accepted, Inv, Types, Conns
  <2>5. io # Base => FunctorOK(io, f)'
    BY <2>1, <2>3, <2>4 DEF FunctorOK, ToEstablish, Functor
  <2>6. \A g \in ToSet(queue[io]) : Follows(g, f)
    <3>1. SUFFICES ASSUME NEW g \in ToSet(queue[io]), g.conn = c
                   PROVE  FALSE
      BY <2>1 DEF Follows, ToEstablish, Functor
    <3>2. FunctorOK(io, g) /\ c \notin Accepted /\ c # 0
      BY <1>1, <2>1 DEF Inv
    <3>3. QED
      BY <3>1, <3>2 DEF FunctorOK
  <2>7. CASE io # Base
    BY <2>2, <2>5, <2>6, <2>7, QueuePush
  <2>8. QED
    BY <1>2, <2>2, <2>7
<1>5. ASSUME NEW c \in Conns, HandleClose(c)
      PROVE  \A k \in Loops : QueueOK(k)'
  <2> DEFINE t == ioLoop[c]
  <2>1. /\ c \in Accepted /\ told[c] = <<"UP">> /\ t \in Loops /\ Runs(t)
        /\ removeConnection(c, t)
        /\ Placed(c)
    BY <1>5, CloseFacts DEF HandleClose, Inv
  <2>2. CASE t = Base
    <3>1. queue' = Push(queue, Base, ToDestroy(c))
      BY <2>1, <2>2 DEF removeConnection, removeConnectionInLoop, ToDestroy
    <3>2. FunctorOK(Base, ToDestroy(c))
      BY <2>1, <2>2 DEF FunctorOK, ToDestroy, Functor
    <3>3. ~Destroying
      BY <2>1, <2>2 DEF Destroying, Inv, LoopsOK, RunOK
    <3>4. \A g \in ToSet(queue[Base]) : Follows(g, ToDestroy(c))
      <4>1. SUFFICES ASSUME NEW g \in ToSet(queue[Base]), g.conn = c
                     PROVE  FALSE
        BY DEF Follows, ToDestroy, Functor
      <4>2. \/ Pending(t, ToEstablish(c)) \/ Pending(Base, ToRemove(c))
            \/ Pending(t, ToDestroy(c))
        BY <2>1, <2>2, <4>1, PendingFacts
      <4>3. <<"UP">> # <<>> /\ ~Down(c)
        BY <2>1 DEF Down
      <4>4. QED
        BY <2>1, <2>2, <3>3, <4>2, <4>3 DEF Placed
    <3>5. QED
      BY <3>1, <3>2, <3>4, QueuePush DEF Inv
  <2>3. CASE t # Base
    <3>1. queue' = Push(queue, Base, ToRemove(c))
      BY <2>1, <2>3 DEF removeConnection, ToRemove
    <3>2. FunctorOK(Base, ToRemove(c))
      BY <2>1 DEF FunctorOK, ToRemove, Functor
    <3>3. \A g \in ToSet(queue[Base]) : Follows(g, ToRemove(c))
      <4>1. SUFFICES ASSUME NEW g \in ToSet(queue[Base]), g.conn = c
                     PROVE  FALSE
        BY DEF Follows, ToRemove, Functor
      <4>2. Pending(Base, ToRemove(c))
        BY <2>1, <2>3, <4>1, PendingFacts
      <4>3. QED
        BY <2>1, <4>2 DEF Placed, Down
    <3>4. QED
      BY <3>1, <3>2, <3>3, QueuePush DEF Inv
  <2>4. QED
    BY <2>2, <2>3
<1>6. ASSUME NEW c \in Conns, DropConnection(c)
      PROVE  \A k \in Loops : QueueOK(k)'
  <2>1. CASE ioLoop[c] = Base
    BY <1>2, <1>6, <2>1 DEF DropConnection
  <2>2. CASE ioLoop[c] # Base
    <3>1. /\ queue' = Push(queue, ioLoop[c], ToDestroy(c))
          /\ c \in Accepted /\ c \in connections_ /\ ioLoop[c] \in Loops
      BY <1>1, <1>6, <2>2 DEF DropConnection, ToDestroy, Inv, Types
    <3>2. FunctorOK(ioLoop[c], ToDestroy(c))
      BY <3>1 DEF FunctorOK, ToDestroy, Functor
    <3>3. \A g \in ToSet(queue[ioLoop[c]]) : Follows(g, ToDestroy(c))
      <4>1. SUFFICES ASSUME NEW g \in ToSet(queue[ioLoop[c]]), g.conn = c,
                            g # ToEstablish(c)
                     PROVE  FALSE
        BY DEF Follows, ToDestroy, ToEstablish, Functor
      <4>2. Pending(ioLoop[c], ToDestroy(c))
        BY <2>2, <3>1, <4>1, PendingFacts
      <4>3. QED
        BY <3>1, <4>2 DEF Placed, Inv
    <3>4. QED
      BY <3>1, <3>2, <3>3, QueuePush DEF Inv
  <2>3. QED
    BY <2>1, <2>2
<1>7. CASE RemoveConnectionInLoop
  <2>1. PICK c \in Accepted : c = Head(queue[Base]).conn
    BY <1>7, RemoveFacts
  <2>2. PICK io : io = ioLoop[c]
    OBVIOUS
  <2>3. PICK f : f = ToDestroy(c)
    OBVIOUS
  <2>4. FunctorOK(io, f)'
    <3>1. FunctorOK(io, f)
      BY <2>1, <2>2, <2>3 DEF FunctorOK, ToDestroy, Functor
    <3>2. QED
      BY <3>1, FunctorStep
  <2>5. /\ io \in Loops /\ io # Base
        /\ \A k \in Loops \ {Base, io} : queue'[k] = queue[k]
        /\ \A g \in ToSet(queue'[Base]) : g \in ToSet(queue[Base])
        /\ \A g \in ToSet(queue'[io]) : g \in ToSet(queue[io]) \/ g = f
        /\ Shape(queue'[Base]) /\ Shape(queue'[io])
    BY <1>7, <2>1, <2>2, <2>3, RemoveQueues
  <2>6. SUFFICES ASSUME NEW k \in Loops
                 PROVE  Shape(queue'[k]) /\ \A g \in ToSet(queue'[k]) : FunctorOK(k, g)'
    BY DEF QueueOK
  <2>7. Shape(queue'[k])
    BY <1>1, <2>5
  <2>8. ASSUME NEW g \in ToSet(queue'[k])
        PROVE  FunctorOK(k, g)'
    <3>1. g \in ToSet(queue[k]) \/ (k = io /\ g = f)
      BY <2>5
    <3>2. CASE g \in ToSet(queue[k])
      BY <1>1, <3>2
    <3>3. CASE k = io /\ g = f
      BY <2>4, <3>3
    <3>4. QED
      BY <3>1, <3>2, <3>3
  <2>9. QED
    BY <2>7, <2>8
<1>8. ASSUME NEW l \in Loops,
             ConnectEstablished(l) \/ ConnectDestroyed(l) \/ (l = Base /\ Listen)
      PROVE  \A k \in Loops : QueueOK(k)'
  <2>1. CallFunctor(l) /\ queue' = Pop(l)
    BY <1>8 DEF CallFunctor, ConnectEstablished, ConnectDestroyed, Listen
  <2>2. QED
    BY <2>1, QueuePop
<1>9. ASSUME NEW l \in Loops, EndLoop(l) \/ (DestroyBaseLoop /\ l = Base)
      PROVE  \A k \in Loops : QueueOK(k)'
  <2>1. queue' = queue \/ queue' = [queue EXCEPT ![l] = <<>>]
    BY <1>9 DEF EndLoop, DestroyBaseLoop
  <2>2. CASE queue' = [queue EXCEPT ![l] = <<>>]
    <3>1. Shape(<<>>) /\ ToSet(<<>>) = {}
      BY DEF Shape, ToSet
    <3>2. \A k \in Loops : queue'[k] = queue[k] \/ queue'[k] = <<>>
      BY <1>1, <2>2
    <3>3. QED
      BY <1>1, <3>1, <3>2 DEF QueueOK
  <2>3. QED
    BY <1>2, <2>1, <2>2
<1>10. ASSUME NEW c \in Conns, HandleMessage(c)
       PROVE  queue' = queue
  BY <1>10 DEF HandleMessage
<1>11. CASE CreateLoop
  BY <1>2, <1>11 DEF CreateLoop
<1>12. QED
  BY <1>2, <1>3, <1>4, <1>5, <1>6, <1>7, <1>8, <1>9, <1>10, <1>11, ConnFrame

-----------------------------------------------------------------------------
(* Where the connections are.                                              *)

(* What the member functions do to the connection and to the others.       *)
LEMMA MemberEffect ==
  ASSUME Types, NEW c \in Conns, StateAgrees(c), NEW t \in Loops,
         \/ connectEstablished(c, t) /\ told[c] = <<>>
         \/ connectDestroyed(c, t)
         \/ handleClose(c, t) /\ registered[c] = "enabled"
  PROVE  /\ \A d \in Conns : d # c => /\ told'[d] = told[d]
                                      /\ registered'[d] = registered[d]
                                      /\ ran'[d] = ran[d]
         /\ ran'[c] = ran[c] \cup {t}
         /\ connectEstablished(c, t) =>
              told'[c] = <<"UP">> /\ registered'[c] = "enabled"
         /\ connectDestroyed(c, t) =>
              /\ registered'[c] = "no"
              /\ \/ told'[c] = told[c]
                 \/ told[c] = <<"UP">> /\ told'[c] = <<"UP", "DOWN">>
         /\ handleClose(c, t) => Down(c)' /\ registered'[c] = "disabled"
<1>1. /\ state_ \in [Conns -> {"kConnecting", "kConnected", "kDisconnecting",
                               "kDisconnected"}]
      /\ registered \in [Conns -> {"no", "enabled", "disabled"}]
      /\ told \in [Conns -> {<<>>, <<"UP">>, <<"UP", "DOWN">>}]
      /\ ran \in [Conns -> SUBSET Loops]
  BY DEF Types
<1>2. CASE connectEstablished(c, t) /\ told[c] = <<>>
  <2>1. told'[c] = <<"UP">> /\ registered'[c] = "enabled"
    BY <1>1, <1>2, ToldAppend DEF connectEstablished
  <2>2. ran'[c] = ran[c] \cup {t}
    BY <1>1, <1>2 DEF connectEstablished
  <2>3. \A d \in Conns : d # c => /\ told'[d] = told[d]
                                  /\ registered'[d] = registered[d]
                                  /\ ran'[d] = ran[d]
    BY <1>1, <1>2 DEF connectEstablished
  <2>4. ~connectDestroyed(c, t) /\ ~handleClose(c, t)
    BY <1>1, <2>1 DEF connectDestroyed, handleClose
  <2>5. QED
    BY <2>1, <2>2, <2>3, <2>4
<1>3. CASE connectDestroyed(c, t)
  <2>1. registered'[c] = "no" /\ ran'[c] = ran[c] \cup {t}
    BY <1>1, <1>3 DEF connectDestroyed
  <2>2. /\ \/ told'[c] = told[c]
           \/ told[c] = <<"UP">> /\ told'[c] = <<"UP", "DOWN">>
        /\ \A d \in Conns : d # c => told'[d] = told[d]
    <3>1. CASE state_[c] = "kConnected"
      <4>1. told[c] = <<"UP">>
        BY <1>1, <3>1 DEF StateAgrees, Down
      <4>2. told' = [told EXCEPT ![c] = <<"UP", "DOWN">>]
        BY <1>3, <3>1, <4>1, ToldAppend DEF connectDestroyed
      <4>3. QED
        BY <1>1, <4>1, <4>2
    <3>2. CASE state_[c] # "kConnected"
      BY <1>3, <3>2 DEF connectDestroyed
    <3>3. QED
      BY <3>1, <3>2
  <2>3. \A d \in Conns : d # c => /\ registered'[d] = registered[d]
                                  /\ ran'[d] = ran[d]
    BY <1>1, <1>3 DEF connectDestroyed
  <2>4. ~connectEstablished(c, t) /\ ~handleClose(c, t)
    BY <1>1, <2>1 DEF connectEstablished, handleClose
  <2>5. QED
    BY <2>1, <2>2, <2>3, <2>4
<1>4. CASE handleClose(c, t) /\ registered[c] = "enabled"
  <2>1. told'[c] = <<"UP", "DOWN">> /\ registered'[c] = "disabled"
    BY <1>1, <1>4, ToldAppend DEF handleClose, StateAgrees
  <2>2. ran'[c] = ran[c] \cup {t}
    BY <1>1, <1>4 DEF handleClose
  <2>3. \A d \in Conns : d # c => /\ told'[d] = told[d]
                                  /\ registered'[d] = registered[d]
                                  /\ ran'[d] = ran[d]
    BY <1>1, <1>4 DEF handleClose
  <2>4. ~connectDestroyed(c, t) /\ ~connectEstablished(c, t)
    BY <1>1, <2>1 DEF connectDestroyed, connectEstablished
  <2>5. QED
    BY <2>1, <2>2, <2>3, <2>4 DEF Down
<1>5. QED
  BY <1>2, <1>3, <1>4

(* The functors of d stay where they are.                                  *)
Unmoved(d) ==
    \A l \in Loops : \A f \in {ToEstablish(d), ToRemove(d), ToDestroy(d)} :
        f \in ToSet(queue'[l]) <=> f \in ToSet(queue[l])

(* A functor that is queued, taken, or both, is not one of another         *)
(* connection.                                                             *)
LEMMA UnmovedFacts ==
  ASSUME Inv, NEW d \in Accepted
  PROVE  /\ queue' = queue => Unmoved(d)
         /\ \A l \in Loops, f \in FunctorSet :
               queue' = Push(queue, l, f) /\ f.conn # d => Unmoved(d)
         /\ \A l \in Loops :
               queue' = Pop(l) /\ queue[l] # <<>> /\ Head(queue[l]).conn # d => Unmoved(d)
         /\ RemoveConnectionInLoop /\ Head(queue[Base]).conn # d => Unmoved(d)
<1>1. /\ queue \in [Loops -> Seq(FunctorSet)]
      /\ \A l \in Loops : Shape(queue[l])
  BY DEF Inv, Types, QueueOK
<1>2. \A f \in {ToEstablish(d), ToRemove(d), ToDestroy(d)} : f.conn = d
  BY DEF ToEstablish, ToRemove, ToDestroy, Functor
<1>3. queue' = queue => Unmoved(d)
  BY DEF Unmoved
<1>4. ASSUME NEW l \in Loops, NEW f \in FunctorSet,
             queue' = Push(queue, l, f), f.conn # d
      PROVE  Unmoved(d)
  <2>1. \A k \in Loops \ {l} : Push(queue, l, f)[k] = queue[k]
    BY <1>1, PushFacts
  <2>2. \A g : g \in ToSet(Push(queue, l, f)[l]) <=> g \in ToSet(queue[l]) \/ g = f
    BY <1>1, PushFacts
  <2>3. QED
    BY <2>1, <2>2, <1>2, <1>4 DEF Unmoved
<1>5. ASSUME NEW l \in Loops,
             queue' = Pop(l), queue[l] # <<>>, Head(queue[l]).conn # d
      PROVE  Unmoved(d)
  <2>1. /\ \A k \in Loops \ {l} : Pop(l)[k] = queue[k]
        /\ ToSet(queue[l]) = ToSet(Pop(l)[l]) \cup {Head(queue[l])}
    BY <1>1, <1>5, PopFacts
  <2>2. QED
    BY <2>1, <1>2, <1>5 DEF Unmoved
<1>6. ASSUME RemoveConnectionInLoop, Head(queue[Base]).conn # d
      PROVE  Unmoved(d)
  <2>1. PICK c, io : c = Head(queue[Base]).conn /\ io = ioLoop[c]
    OBVIOUS
  <2>2. /\ io \in Loops /\ io # Base
        /\ \A k \in Loops \ {Base, io} : queue'[k] = queue[k]
        /\ \A g : g \in ToSet(queue[Base])
                    <=> g \in ToSet(queue'[Base]) \/ g = ToRemove(c)
        /\ \A g : g \in ToSet(queue'[io]) <=> g \in ToSet(queue[io]) \/ g = ToDestroy(c)
    BY <1>6, <2>1, RemoveQueues
  <2>3. ToRemove(c).conn # d /\ ToDestroy(c).conn # d
    BY <1>6, <2>1 DEF ToRemove, ToDestroy, Functor
  <2>4. QED
    BY <2>2, <2>3, <1>2 DEF Unmoved
<1>7. QED
  BY <1>3, <1>4, <1>5, <1>6

(* What every step leaves alone about the place of a connection.           *)
LEMMA PlaceFrame ==
  ASSUME Inv, Next, NEW c \in Accepted, NEW io, io = ioLoop[c]
  PROVE  /\ Placed(c)
         /\ ioLoop'[c] = io /\ io \in Loops
         /\ UNCHANGED <<loops_, numThreads_>>
         /\ Destroying => Destroying'
         /\ PollerExists(io)' => PollerExists(io)
<1>1. Placed(c)
  BY DEF Inv
<1>2. /\ ioLoop'[c] = io /\ io \in Loops
      /\ UNCHANGED <<loops_, numThreads_>>
  <2>1. poolReady
    BY AcceptedFacts DEF Inv, LoopsOK, PoolOK, Accepted, Types
  <2>2. QED
    BY <2>1, AcceptedStep, AcceptedFacts DEF Inv, Types
<1>3. /\ Destroying => Destroying'
      /\ PollerExists(io)' => PollerExists(io)
  <2>1. ~CreateLoop
    BY <1>2, StartFacts, AppendProperties, LenProperties, AcceptedFacts
    DEF CreateLoop, Inv, LoopsOK, PoolOK, Accepted, Types, poolReady
  <2>2. QED
    BY <1>2, <2>1, DestroyingStep
<1>4. QED
  BY <1>1, <1>2, <1>3

(* A connection stays in its place when nothing of it changes but for the  *)
(* functors that are destroyed with their loop.                            *)
LEMMA PlacedSame ==
  ASSUME Inv, Next, NEW c \in Accepted, NEW io, io = ioLoop[c],
         told'[c] = told[c], registered'[c] = registered[c],
         ran'[c] \subseteq {io},
         c \in connections_' <=> c \in connections_,
         \A f \in {ToEstablish(c), ToDestroy(c)} :
            /\ f \in ToSet(queue'[io]) => f \in ToSet(queue[io])
            /\ f \in ToSet(queue[io]) => f \in ToSet(queue'[io]) \/ ~PollerExists(io)',
         ToRemove(c) \in ToSet(queue'[Base]) => ToRemove(c) \in ToSet(queue[Base]),
         ToRemove(c) \in ToSet(queue[Base]) =>
            ToRemove(c) \in ToSet(queue'[Base]) \/ Destroying'
  PROVE  Placed(c)'
BY PlaceFrame DEF Placed, Pending, Down

(* A connection that a step does not touch stays in its place.             *)
LEMMA PlacedOther ==
  ASSUME Inv, Next, NEW d \in Accepted,
         told'[d] = told[d], registered'[d] = registered[d], ran'[d] = ran[d],
         d \in connections_' <=> d \in connections_,
         Unmoved(d)
  PROVE  Placed(d)'
<1>1. PICK io : io = ioLoop[d]
  OBVIOUS
<1>2. ran[d] \subseteq {io} /\ io \in Loops
  BY <1>1, PlaceFrame DEF Placed
<1>3. \A f \in {ToEstablish(d), ToRemove(d), ToDestroy(d)} :
         /\ f \in ToSet(queue'[io]) <=> f \in ToSet(queue[io])
         /\ f \in ToSet(queue'[Base]) <=> f \in ToSet(queue[Base])
  BY <1>2, LoopsFacts DEF Unmoved
<1>4. QED
  BY <1>1, <1>2, <1>3, PlacedSame

(* connectEstablished() gets its connection into the map and up.           *)
LEMMA PlacedEstablished ==
  ASSUME Inv, Next, NEW l \in Loops, ConnectEstablished(l),
         NEW c \in Accepted, c = Head(queue[l]).conn
  PROVE  Placed(c)'
<1>1. /\ l = ioLoop[c] /\ told[c] = <<>> /\ Head(queue[l]) = ToEstablish(c)
      /\ connectEstablished(c, l) /\ Pending(l, ToEstablish(c))
  BY EstablishFacts DEF Pending
<1>2. /\ told'[c] = <<"UP">> /\ ran'[c] = ran[c] \cup {l}
  BY <1>1, MemberEffect, AcceptedFacts DEF Inv
<1>3. /\ queue' = Pop(l) /\ connections_' = connections_
      /\ CallFunctor(l)
  BY DEF ConnectEstablished, CallFunctor, mapVars
<1>4. /\ \A k \in Loops \ {l} : queue'[k] = queue[k]
      /\ ToSet(queue[l]) = ToSet(queue'[l]) \cup {ToEstablish(c)}
      /\ \A g \in ToSet(queue'[l]) : Follows(ToEstablish(c), g)
  BY <1>1, <1>3, QueuePop
<1>5. /\ ToEstablish(c) \notin ToSet(queue'[l])
      /\ ToDestroy(c) \in ToSet(queue'[l]) <=> ToDestroy(c) \in ToSet(queue[l])
      /\ ToRemove(c) \in ToSet(queue'[Base]) => ToRemove(c) \in ToSet(queue[Base])
  <2>1. c # 0
    BY AcceptedFacts DEF Inv
  <2>2. QED
    BY <1>4, <2>1, LoopsFacts DEF Follows, ToEstablish, ToDestroy, ToRemove, Functor
<1>6. /\ Placed(c)
      /\ ioLoop'[c] = l /\ UNCHANGED <<loops_, numThreads_>>
      /\ Destroying => Destroying'
      /\ PollerExists(l)' => PollerExists(l)
  BY <1>1, PlaceFrame
<1>7. ~Pending(Base, ToRemove(c)) /\ ~Down(c) /\ ~Down(c)'
  <2>1. <<"UP">> # <<"UP", "DOWN">> /\ <<>> # <<"UP", "DOWN">>
    OBVIOUS
  <2>2. QED
    BY <1>1, <1>2, <1>6, <2>1 DEF Placed, Down
<1>8. <<"UP">> # <<>>
  OBVIOUS
<1>9. QED
  BY <1>1, <1>2, <1>3, <1>5, <1>6, <1>7, <1>8 DEF Placed, Pending

(* connectDestroyed() is the last that is done for its connection.         *)
LEMMA PlacedDestroyed ==
  ASSUME Inv, Next, NEW l \in Loops, ConnectDestroyed(l),
         NEW c \in Accepted, c = Head(queue[l]).conn
  PROVE  Placed(c)'
<1>1. /\ l = ioLoop[c] /\ c \notin connections_ /\ Head(queue[l]) = ToDestroy(c)
      /\ connectDestroyed(c, l) /\ Pending(l, ToDestroy(c))
  BY DestroyFacts DEF Pending
<1>2. /\ registered'[c] = "no" /\ ran'[c] = ran[c] \cup {l}
      /\ \/ told'[c] = told[c]
         \/ told[c] = <<"UP">> /\ told'[c] = <<"UP", "DOWN">>
  BY <1>1, MemberEffect, AcceptedFacts DEF Inv
<1>3. /\ queue' = Pop(l) /\ connections_' = connections_
      /\ CallFunctor(l)
  BY DEF ConnectDestroyed, CallFunctor, mapVars
<1>4. /\ \A k \in Loops \ {l} : queue'[k] = queue[k]
      /\ ToSet(queue[l]) = ToSet(queue'[l]) \cup {ToDestroy(c)}
      /\ \A g \in ToSet(queue'[l]) : Follows(ToDestroy(c), g)
  BY <1>1, <1>3, QueuePop
<1>5. /\ ToEstablish(c) \notin ToSet(queue[l]) /\ ToEstablish(c) \notin ToSet(queue'[l])
      /\ ToRemove(c) \in ToSet(queue'[Base]) <=> ToRemove(c) \in ToSet(queue[Base])
  <2>1. c # 0
    BY AcceptedFacts DEF Inv
  <2>2. QED
    BY <1>4, <2>1, LoopsFacts DEF Follows, ToEstablish, ToDestroy, ToRemove, Functor
<1>6. /\ Placed(c)
      /\ ioLoop'[c] = l /\ UNCHANGED <<loops_, numThreads_>>
      /\ Destroying => Destroying'
      /\ PollerExists(l)' => PollerExists(l)
  BY <1>1, PlaceFrame
<1>7. PollerExists(l)' => told'[c] # <<>>
  <2>1. <<"UP", "DOWN">> # <<>>
    OBVIOUS
  <2>2. QED
    BY <1>1, <1>2, <1>5, <1>6, <2>1 DEF Placed, Pending
<1>8. /\ Down(c) => Down(c)'
      /\ ~Destroying => Down(c)
  <2>1. <<"UP", "DOWN">> # <<"UP">>
    OBVIOUS
  <2>2. QED
    BY <1>1, <1>2, <1>6, <2>1 DEF Placed, Down
<1>9. QED
  BY <1>1, <1>2, <1>3, <1>5, <1>6, <1>7, <1>8 DEF Placed, Pending

(* The removal takes a connection from the map to its own loop.            *)
LEMMA PlacedRemoved ==
  ASSUME Inv, Next, RemoveConnectionInLoop,
         NEW c \in Accepted, c = Head(queue[Base]).conn
  PROVE  Placed(c)'
<1>1. PICK io : io = ioLoop[c]
  OBVIOUS
<1>2. Down(c) /\ ~Destroying /\ removeConnectionInLoop(c, Base, Pop(Base))
  BY RemoveFacts
<1>3. /\ io \in Loops /\ io # Base
      /\ \A g \in ToSet(queue'[Base]) : Follows(ToRemove(c), g)
      /\ \A g : g \in ToSet(queue'[io]) <=> g \in ToSet(queue[io]) \/ g = ToDestroy(c)
  BY <1>1, RemoveQueues
<1>4. /\ connections_' = connections_ \ {c}
      /\ told' = told /\ registered' = registered /\ ran' = ran /\ opc' = opc
  BY <1>2 DEF RemoveConnectionInLoop, removeConnectionInLoop, connVars
<1>5. /\ ToRemove(c) \notin ToSet(queue'[Base])
      /\ ToEstablish(c) \in ToSet(queue'[io]) <=> ToEstablish(c) \in ToSet(queue[io])
      /\ ToDestroy(c) \in ToSet(queue'[io])
  <2>1. c # 0
    BY AcceptedFacts DEF Inv
  <2>2. QED
    BY <1>3, <2>1 DEF Follows, ToEstablish, ToDestroy, ToRemove, Functor
<1>6. /\ Placed(c)
      /\ ioLoop'[c] = io /\ UNCHANGED <<loops_, numThreads_>>
  BY <1>1, PlaceFrame
<1>7. told[c] # <<>>
  <2>1. <<"UP", "DOWN">> # <<>>
    OBVIOUS
  <2>2. QED
    BY <1>2, <2>1 DEF Down
<1>8. QED
  BY <1>1, <1>2, <1>3, <1>4, <1>5, <1>6, <1>7 DEF Placed, Pending, Down

(* handleClose() has the connection removed, at once or by the base loop.  *)
LEMMA PlacedClosed ==
  ASSUME Inv, Next, NEW c \in Accepted, HandleClose(c)
  PROVE  Placed(c)'
<1>1. PICK io : io = ioLoop[c]
  OBVIOUS
<1>2. /\ c \in Conns /\ told[c] = <<"UP">> /\ io \in Loops
      /\ handleClose(c, io) /\ removeConnection(c, io)
      /\ registered[c] = "enabled" /\ PollerExists(io) /\ opc' = opc
  BY <1>1, CloseFacts, AcceptedFacts DEF HandleClose, Inv
<1>3. Down(c)' /\ ran'[c] = ran[c] \cup {io}
  BY <1>2, MemberEffect DEF Inv
<1>4. /\ Placed(c)
      /\ ioLoop'[c] = io /\ UNCHANGED <<loops_, numThreads_>>
      /\ Destroying => Destroying'
  BY <1>1, PlaceFrame
<1>5. told[c] # <<>> /\ ~Down(c) /\ told'[c] # <<>>
  <2>1. <<"UP", "DOWN">> # <<"UP">> /\ <<"UP">> # <<>> /\ <<"UP", "DOWN">> # <<>>
    OBVIOUS
  <2>2. QED
    BY <1>2, <1>3, <2>1 DEF Down
<1>6. /\ ToEstablish(c) \notin ToSet(queue[io])
      /\ ToRemove(c) \notin ToSet(queue[Base])
      /\ ~Destroying => c \in connections_
      /\ c \in connections_ \/ ToDestroy(c) \in ToSet(queue[io])
  BY <1>1, <1>2, <1>4, <1>5 DEF Placed, Pending
<1>7. /\ queue \in [Loops -> Seq(FunctorSet)]
      /\ ToDestroy(c) \in FunctorSet /\ ToRemove(c) \in FunctorSet
  BY <1>2, AcceptedFacts DEF Inv, Types
<1>8. CASE io = Base
  <2>1. /\ connections_' = connections_ \ {c}
        /\ queue' = Push(queue, Base, ToDestroy(c))
    BY <1>1, <1>2, <1>8 DEF removeConnection, removeConnectionInLoop, ToDestroy
  <2>2. \A g : g \in ToSet(Push(queue, Base, ToDestroy(c))[Base])
                 <=> g \in ToSet(queue[Base]) \/ g = ToDestroy(c)
    BY <1>7, PushFacts, LoopsFacts
  <2>3. /\ ToEstablish(c) \notin ToSet(queue'[io])
        /\ ToRemove(c) \notin ToSet(queue'[Base])
        /\ ToDestroy(c) \in ToSet(queue'[io])
    BY <1>6, <1>8, <2>1, <2>2 DEF ToEstablish, ToRemove, ToDestroy, Functor
  <2>4. QED
    BY <1>1, <1>3, <1>4, <1>5, <2>1, <2>3 DEF Placed, Pending
<1>9. CASE io # Base
  <2>1. /\ connections_' = connections_
        /\ queue' = Push(queue, Base, ToRemove(c))
    BY <1>1, <1>2, <1>9 DEF removeConnection, mapVars, ToRemove
  <2>2. \A g : g \in ToSet(Push(queue, Base, ToRemove(c))[Base])
                 <=> g \in ToSet(queue[Base]) \/ g = ToRemove(c)
    BY <1>7, PushFacts, LoopsFacts
  <2>3. Push(queue, Base, ToRemove(c))[io] = queue[io]
    BY <1>2, <1>7, <1>9, PushFacts, LoopsFacts
  <2>4. QED
    BY <1>1, <1>3, <1>4, <1>5, <1>6, <1>9, <2>1, <2>2, <2>3
    DEF Placed, Pending, Destroying
<1>10. QED
  BY <1>8, <1>9

(* ~TcpServer has a connection destroyed, at once or by its own loop.      *)
LEMMA PlacedDropped ==
  ASSUME Inv, Next, NEW c \in Accepted, DropConnection(c)
  PROVE  Placed(c)'
<1>1. PICK io : io = ioLoop[c]
  OBVIOUS
<1>2. /\ c \in Conns /\ io \in Loops
      /\ connections_' = connections_ \ {c} /\ Destroying /\ Destroying'
  BY <1>1, PlaceFrame, AcceptedFacts DEF DropConnection, Destroying, Inv
<1>3. /\ Placed(c)
      /\ ioLoop'[c] = io /\ UNCHANGED <<loops_, numThreads_>>
      /\ PollerExists(io)' => PollerExists(io)
  BY <1>1, PlaceFrame
<1>4. CASE io = Base
  <2>1. connectDestroyed(c, Base) /\ queue' = queue
    BY <1>1, <1>4 DEF DropConnection
  <2>2. /\ registered'[c] = "no" /\ ran'[c] = ran[c] \cup {io}
        /\ \/ told'[c] = told[c]
           \/ told[c] = <<"UP">> /\ told'[c] = <<"UP", "DOWN">>
    BY <1>2, <1>4, <2>1, MemberEffect, LoopsFacts DEF Inv
  <2>3. ~Pending(io, ToEstablish(c)) /\ ~Pending(Base, ToRemove(c))
    <3>1. ~FunctorOK(io, ToEstablish(c))
      BY <1>4 DEF FunctorOK, ToEstablish, Functor
    <3>2. QED
      BY <1>1, <1>2, <1>3, <1>4, <3>1 DEF Inv, QueueOK, Pending, Placed
  <2>4. PollerExists(io)' => told'[c] # <<>>
    <3>1. <<"UP", "DOWN">> # <<>>
      OBVIOUS
    <3>2. QED
      BY <1>1, <1>3, <2>2, <2>3, <3>1 DEF Placed
  <2>5. QED
    BY <1>1, <1>2, <1>3, <1>4, <2>1, <2>2, <2>3, <2>4 DEF Placed, Pending
<1>5. CASE io # Base
  <2>1. /\ queue' = Push(queue, io, ToDestroy(c))
        /\ told' = told /\ registered' = registered /\ ran' = ran
    BY <1>1, <1>5 DEF DropConnection, connVars, ToDestroy
  <2>2. /\ queue \in [Loops -> Seq(FunctorSet)] /\ ToDestroy(c) \in FunctorSet
    BY <1>2, AcceptedFacts DEF Inv, Types
  <2>3. \A g : g \in ToSet(Push(queue, io, ToDestroy(c))[io])
                 <=> g \in ToSet(queue[io]) \/ g = ToDestroy(c)
    BY <1>2, <2>2, PushFacts
  <2>4. Push(queue, io, ToDestroy(c))[Base] = queue[Base]
    BY <1>2, <1>5, <2>2, PushFacts, LoopsFacts
  <2>5. /\ ToEstablish(c) \in ToSet(queue'[io]) <=> ToEstablish(c) \in ToSet(queue[io])
        /\ ToDestroy(c) \in ToSet(queue'[io])
    BY <2>1, <2>3 DEF ToEstablish, ToDestroy, Functor
  <2>6. QED
    BY <1>1, <1>2, <1>3, <2>1, <2>4, <2>5 DEF Placed, Pending, Down
<1>6. QED
  BY <1>4, <1>5

(* newConnection() puts the new connection in the map, up or on its way to *)
(* its own loop, and leaves the others where they are.                     *)
LEMMA PlacedAccepted ==
  ASSUME Inv, Next, AcceptOne
  PROVE  \A d \in Accepted' : Placed(d)'
<1> USE LoopsFacts
<1>1. /\ nextConnId_ \in Conns /\ poolReady
      /\ UNCHANGED <<loops_, numThreads_>>
  BY TcpServerAssumption DEF AcceptOne, Inv, LoopsOK, PoolOK, Types, Conns, poolVars
<1>2. PICK c \in Conns, io \in Loops, f \in FunctorSet :
         c = nextConnId_ /\ f = ToEstablish(c) /\ io = getNextLoop.loop
  BY <1>1, NextLoopFacts, AcceptedFacts DEF Inv
<1>3. io <= Len(loops_) /\ (io = Base <=> numThreads_ = 0)
  BY <1>1, <1>2, NextLoopFacts DEF Inv
<1>4. /\ nextConnId_' = c + 1 /\ ioLoop' = [ioLoop EXCEPT ![c] = io]
      /\ connections_' = connections_ \cup {c}
      /\ IF io = Base
           THEN connectEstablished(c, Base) /\ queue' = queue
           ELSE /\ queue' = Push(queue, io, f)
                /\ told' = told /\ registered' = registered /\ ran' = ran
  BY <1>2 DEF AcceptOne, newConnection, connVars, ToEstablish
<1>5. /\ ioLoop'[c] = io /\ c \notin Accepted /\ f \in FunctorSet /\ f.conn = c
      /\ queue \in [Loops -> Seq(FunctorSet)]
  <2>1. ioLoop \in [Conns -> Loops] /\ queue \in [Loops -> Seq(FunctorSet)]
    BY DEF Inv, Types
  <2>2. c \notin Accepted /\ f \in FunctorSet
    BY <1>2, AcceptedFacts DEF Inv
  <2>3. f.conn = c
    BY <1>2 DEF ToEstablish, Functor
  <2>4. QED
    BY <1>4, <2>1, <2>2, <2>3
<1>6. told[c] = <<>> /\ ran[c] = {}
  BY <1>2, <1>5 DEF Inv, StateAgrees
<1>7. \A g \in {ToEstablish(c), ToRemove(c), ToDestroy(c)}, l \in Loops :
         g \notin ToSet(queue[l])
  <2>1. SUFFICES ASSUME NEW l \in Loops, NEW g \in ToSet(queue[l]), g.conn = c
                 PROVE  FALSE
    BY DEF ToEstablish, ToRemove, ToDestroy, Functor
  <2>2. FunctorOK(l, g) /\ c # 0
    BY AcceptedFacts DEF Inv, QueueOK
  <2>3. QED
    BY <1>5, <2>1, <2>2 DEF FunctorOK
<1>8. IF io = Base THEN told'[c] = <<"UP">> /\ ran'[c] = {io}
                   ELSE told'[c] = <<>> /\ ran'[c] = {}
  <2>1. CASE io = Base
    BY <1>4, <1>6, <2>1, MemberEffect DEF Inv
  <2>2. CASE io # Base
    BY <1>4, <1>6, <2>2
  <2>3. QED
    BY <2>1, <2>2
<1>9. /\ ToRemove(c) \notin ToSet(queue'[Base]) /\ ToDestroy(c) \notin ToSet(queue'[io])
      /\ ToEstablish(c) \in ToSet(queue'[io]) <=> io # Base
  <2>1. CASE io = Base
    BY <1>4, <1>7, <2>1
  <2>2. CASE io # Base
    <3>1. \A g : g \in ToSet(Push(queue, io, f)[io]) <=> g \in ToSet(queue[io]) \/ g = f
      BY <1>5, PushFacts
    <3>2. Push(queue, io, f)[Base] = queue[Base]
      BY <1>5, <2>2, PushFacts
    <3>3. ToDestroy(c) # f
      BY <1>2 DEF ToEstablish, ToDestroy, Functor
    <3>4. QED
      BY <1>2, <1>4, <1>7, <2>2, <3>1, <3>2, <3>3
  <2>3. QED
    BY <2>1, <2>2
<1>10. Placed(c)'
  <2>1. <<"UP">> # <<>> /\ <<"UP">> # <<"UP", "DOWN">> /\ <<>> # <<"UP", "DOWN">>
    OBVIOUS
  <2>2. ~Down(c)' /\ ran'[c] \subseteq {io} /\ c \in connections_'
    BY <1>4, <1>8, <2>1 DEF Down
  <2>3. QED
    BY <1>1, <1>3, <1>5, <1>8, <1>9, <2>1, <2>2 DEF Placed, Pending
<1>11. ASSUME NEW d \in Accepted
       PROVE  Placed(d)'
  <2>1. d # c /\ d \in Conns
    BY <1>5, AcceptedFacts DEF Inv
  <2>2. told'[d] = told[d] /\ registered'[d] = registered[d] /\ ran'[d] = ran[d]
    <3>1. CASE io = Base
      BY <1>4, <1>6, <2>1, <3>1, MemberEffect DEF Inv
    <3>2. CASE io # Base
      BY <1>4, <3>2
    <3>3. QED
      BY <3>1, <3>2
  <2>3. Unmoved(d)
    BY <1>4, <1>5, <2>1, UnmovedFacts
  <2>4. QED
    BY <1>4, <2>1, <2>2, <2>3, PlacedOther
<1>12. Accepted' = Accepted \cup {c}
  BY <1>2, <1>4, TcpServerAssumption DEF Accepted, Inv, Types
<1>13. QED
  BY <1>10, <1>11, <1>12

(* Every connection accepted is where it should be after every step.       *)
LEMMA PlacedStep ==
  ASSUME Inv, Next
  PROVE  \A d \in Accepted' : Placed(d)'
<1> USE LoopsFacts
<1>1. CASE AcceptOne
  BY <1>1, PlacedAccepted
<1>2. SUFFICES ASSUME ~AcceptOne, NEW d \in Accepted
               PROVE  Placed(d)'
  BY <1>1, AcceptedStep DEF Accepted
<1>3. /\ d \in Conns
      /\ \A c \in Conns : StateAgrees(c)
      /\ queue \in [Loops -> Seq(FunctorSet)]
  BY AcceptedFacts DEF Inv, Types
<1>4. ASSUME UNCHANGED <<connections_, told, registered, ran>>, Unmoved(d)
      PROVE  Placed(d)'
  BY <1>4, PlacedOther
<1>5. CASE Listen
  <2>1. /\ Calls(Base, "listen") /\ queue' = Pop(Base)
        /\ UNCHANGED <<connections_, told, registered, ran>>
    BY <1>5 DEF Listen, mapVars, connVars
  <2>2. queue[Base] # <<>> /\ Head(queue[Base]).conn = 0
    <3>1. /\ queue[Base] # <<>> /\ FunctorOK(Base, Head(queue[Base]))
          /\ Head(queue[Base]) = Functor("listen", Head(queue[Base]).conn)
      BY <2>1, CallFacts DEF Inv
    <3>2. Head(queue[Base]).fn = "listen"
      BY <3>1 DEF Functor
    <3>3. QED
      BY <3>1, <3>2 DEF FunctorOK
  <2>3. QED
    BY <1>4, <2>1, <2>2, UnmovedFacts, AcceptedFacts DEF Inv
<1>6. CASE RemoveConnectionInLoop
  <2>1. PICK c : c = Head(queue[Base]).conn
    OBVIOUS
  <2>2. CASE d = c
    BY <1>6, <2>1, <2>2, PlacedRemoved
  <2>3. CASE d # c
    <3>1. /\ connections_' = connections_ \ {c}
          /\ UNCHANGED <<told, registered, ran>>
      BY <1>6, <2>1 DEF RemoveConnectionInLoop, removeConnectionInLoop, connVars
    <3>2. Unmoved(d)
      BY <1>6, <2>1, <2>3, UnmovedFacts
    <3>3. QED
      BY <2>3, <3>1, <3>2, PlacedOther
  <2>4. QED
    BY <2>2, <2>3
<1>7. ASSUME NEW l \in Loops, ConnectEstablished(l) \/ ConnectDestroyed(l)
      PROVE  Placed(d)'
  <2>1. PICK c : c = Head(queue[l]).conn
    OBVIOUS
  <2>2. CASE d = c
    BY <1>7, <2>1, <2>2, PlacedEstablished, PlacedDestroyed
  <2>3. CASE d # c
    <3>1. /\ c \in Accepted
          /\ \/ connectEstablished(c, l) /\ told[c] = <<>>
             \/ connectDestroyed(c, l)
      BY <1>7, <2>1, EstablishFacts, DestroyFacts
    <3>2. c \in Conns /\ Types
      BY <3>1, AcceptedFacts DEF Inv
    <3>3. told'[d] = told[d] /\ registered'[d] = registered[d] /\ ran'[d] = ran[d]
      BY <1>3, <2>3, <3>1, <3>2, MemberEffect
    <3>4. queue' = Pop(l) /\ connections_' = connections_ /\ queue[l] # <<>>
      <4>1. Calls(l, "connectEstablished") \/ Calls(l, "connectDestroyed")
        BY <1>7 DEF ConnectEstablished, ConnectDestroyed
      <4>2. QED
        BY <1>7, <4>1, CallFacts DEF ConnectEstablished, ConnectDestroyed, mapVars, Inv
    <3>5. Unmoved(d)
      BY <2>1, <2>3, <3>4, UnmovedFacts
    <3>6. QED
      BY <3>3, <3>4, <3>5, PlacedOther
  <2>4. QED
    BY <2>2, <2>3
<1>8. ASSUME NEW c \in Conns, HandleClose(c)
      PROVE  Placed(d)'
  <2>1. CASE d = c
    BY <1>8, <2>1, PlacedClosed
  <2>2. CASE d # c
    <3>1. PICK io : io = ioLoop[c]
      OBVIOUS
    <3>2. /\ io \in Loops /\ handleClose(c, io) /\ removeConnection(c, io)
          /\ registered[c] = "enabled" /\ Types
      BY <1>8, <3>1, CloseFacts DEF HandleClose, Inv
    <3>3. told'[d] = told[d] /\ registered'[d] = registered[d] /\ ran'[d] = ran[d]
      BY <1>3, <2>2, <3>2, MemberEffect
    <3>4. /\ d \in connections_' <=> d \in connections_
          /\ \/ queue' = Push(queue, io, ToDestroy(c))
             \/ queue' = Push(queue, Base, ToRemove(c))
      BY <2>2, <3>1, <3>2
      DEF removeConnection, removeConnectionInLoop, mapVars, ToDestroy, ToRemove
    <3>5. /\ ToDestroy(c) \in FunctorSet /\ ToDestroy(c).conn = c
          /\ ToRemove(c) \in FunctorSet /\ ToRemove(c).conn = c
      BY <1>8, AcceptedFacts DEF ToDestroy, ToRemove, Functor, Inv
    <3>6. Unmoved(d)
      BY <2>2, <3>2, <3>4, <3>5, UnmovedFacts
    <3>7. QED
      BY <3>3, <3>4, <3>6, PlacedOther
  <2>3. QED
    BY <2>1, <2>2
<1>9. ASSUME NEW c \in Conns, DropConnection(c)
      PROVE  Placed(d)'
  <2>1. CASE d = c
    BY <1>9, <2>1, PlacedDropped
  <2>2. CASE d # c
    <3>1. PICK io : io = ioLoop[c]
      OBVIOUS
    <3>2. /\ io \in Loops /\ connections_' = connections_ \ {c} /\ Types
          /\ \/ connectDestroyed(c, Base) /\ queue' = queue
             \/ /\ queue' = Push(queue, io, ToDestroy(c))
                /\ UNCHANGED <<told, registered, ran>>
      BY <1>9, <3>1 DEF DropConnection, connVars, ToDestroy, Inv, Types
    <3>3. told'[d] = told[d] /\ registered'[d] = registered[d] /\ ran'[d] = ran[d]
      BY <1>3, <2>2, <3>2, MemberEffect
    <3>4. ToDestroy(c) \in FunctorSet /\ ToDestroy(c).conn = c
      BY <1>9, AcceptedFacts DEF ToDestroy, Functor, Inv
    <3>5. Unmoved(d)
      BY <2>2, <3>2, <3>4, UnmovedFacts
    <3>6. QED
      BY <2>2, <3>2, <3>3, <3>5, PlacedOther
  <2>3. QED
    BY <2>1, <2>2
<1>10. ASSUME NEW c \in Conns, HandleMessage(c)
       PROVE  Placed(d)'
  <2>1. queue' = queue /\ UNCHANGED <<connections_, told, registered, ran>>
    BY <1>10 DEF HandleMessage, mapVars
  <2>2. QED
    BY <1>4, <2>1, UnmovedFacts
<1>11. CASE CreateLoop
  <2>1. queue' = queue /\ UNCHANGED <<connections_, told, registered, ran>>
    BY <1>11 DEF CreateLoop, mapVars, connVars
  <2>2. QED
    BY <1>4, <2>1, UnmovedFacts
<1>12. CASE ListenByOther
  <2>1. /\ queue' = Push(queue, Base, Functor("listen", 0))
        /\ UNCHANGED <<connections_, told, registered, ran>>
    BY <1>12 DEF ListenByOther, mapVars, connVars
  <2>2. Functor("listen", 0).conn # d /\ Functor("listen", 0) \in FunctorSet
    BY AcceptedFacts DEF Functor, Inv
  <2>3. QED
    BY <1>4, <2>1, <2>2, UnmovedFacts
<1>13. ASSUME NEW l \in Loops,
              (EndLoop(l) /\ l # Base) \/ (DestroyBaseLoop /\ l = Base)
       PROVE  Placed(d)'
  <2>1. PICK io : io = ioLoop[d]
    OBVIOUS
  <2>2. /\ queue' = [queue EXCEPT ![l] = <<>>]
        /\ UNCHANGED <<connections_, told, registered, ran>>
        /\ ~PollerExists(l)'
        /\ l = Base => Destroying'
    <3>1. CASE EndLoop(l) /\ l # Base
      <4>1. loopState'[l] = "ended"
        BY <3>1 DEF EndLoop, Inv, Types
      <4>2. QED
        BY <3>1, <4>1 DEF EndLoop, mapVars, connVars, PollerExists, Runs
    <3>2. CASE DestroyBaseLoop /\ l = Base
      BY <3>2 DEF DestroyBaseLoop, mapVars, connVars, PollerExists, Destroying
    <3>3. QED
      BY <1>13, <3>1, <3>2
  <2>3. /\ queue'[l] = <<>> /\ ToSet(queue'[l]) = {}
        /\ \A k \in Loops : k # l => queue'[k] = queue[k]
    BY <1>3, <2>2 DEF ToSet
  <2>4. ran[d] \subseteq {io} /\ io \in Loops
    BY <2>1, PlaceFrame DEF Placed
  <2>5. /\ \A f \in {ToEstablish(d), ToDestroy(d)} :
             /\ f \in ToSet(queue'[io]) => f \in ToSet(queue[io])
             /\ f \in ToSet(queue[io]) => f \in ToSet(queue'[io]) \/ ~PollerExists(io)'
        /\ ToRemove(d) \in ToSet(queue'[Base]) => ToRemove(d) \in ToSet(queue[Base])
        /\ ToRemove(d) \in ToSet(queue[Base]) =>
             ToRemove(d) \in ToSet(queue'[Base]) \/ Destroying'
    <3>1. CASE io = l
      BY <2>2, <2>3, <3>1
    <3>2. CASE io # l
      BY <2>2, <2>3, <2>4, <3>2
    <3>3. QED
      BY <3>1, <3>2
  <2>6. QED
    BY <2>1, <2>2, <2>4, <2>5, PlacedSame
<1>14. CASE UNCHANGED <<loops_, numThreads_, nextConnId_, ioLoop, connections_,
                        state_, registered, told, ran, queue>>
  BY <1>4, <1>14, UnmovedFacts
<1>15. CASE DestroyBaseLoop \/ \E l \in SubLoops : EndLoop(l)
  <2>1. DestroyBaseLoop => Placed(d)'
    BY <1>13
  <2>2. ASSUME NEW l \in SubLoops, EndLoop(l)
        PROVE  Placed(d)'
    <3>1. l \in Loops /\ l # Base
      OBVIOUS
    <3>2. QED
      BY <1>13, <2>2, <3>1
  <2>3. QED
    BY <1>15, <2>1, <2>2
<1>16. QED
  BY <1>2, <1>5, <1>6, <1>7, <1>8, <1>9, <1>10, <1>11, <1>12, <1>14, <1>15, ConnFrame

-----------------------------------------------------------------------------
(* The invariant.                                                          *)

(* No loop runs and no connection is there at the start.                   *)
LEMMA InvInit ==
  ASSUME Init
  PROVE  Inv
<1> USE LoopsFacts, TcpServerAssumption
<1>1. /\ \A l \in Loops : /\ queue[l] = <<>> /\ Len(queue[l]) = 0
                          /\ ToSet(queue[l]) = {}
      /\ loops_ = <<>> /\ Len(loops_) = 0
  BY DEF Init, ToSet
<1>2. Accepted = {} /\ nextConnId_ = 1
  BY DEF Init, Accepted
<1>3. Types
  <2>1. <<>> \in Seq(SubLoops) /\ <<>> \in Seq(FunctorSet)
    OBVIOUS
  <2>2. /\ opc \in OwnerControl /\ spc \in {"idle", "start"}
        /\ loops_ \in Seq(SubLoops) /\ queue \in [Loops -> Seq(FunctorSet)]
        /\ loopState \in [Loops -> LoopControl]
    BY <2>1 DEF Init, OwnerControl, LoopControl
  <2>3. /\ ran \in [Conns -> SUBSET Loops]
        /\ held \in [Loops -> SUBSET (Conns \cup {0})]
        /\ ioLoop \in [Conns -> Loops]
    BY DEF Init
  <2>4. /\ next_ \in Nat
        /\ backlog \in 0 .. MaxConns /\ nextConnId_ \in 1 .. MaxConns + 1
    BY SMT DEF Init
  <2>5. /\ state_ \in [Conns -> {"kConnecting", "kConnected", "kDisconnecting",
                                  "kDisconnected"}]
        /\ registered \in [Conns -> {"no", "enabled", "disabled"}]
        /\ told \in [Conns -> {<<>>, <<"UP">>, <<"UP", "DOWN">>}]
        /\ peer \in [Conns -> {"open", "closed"}]
    BY DEF Init
  <2>6. /\ connections_ \subseteq Accepted /\ mapUsers \subseteq {Base}
        /\ batch \in [Loops -> Nat] /\ dispatching \in [Loops -> BOOLEAN]
        /\ numThreads_ \in 0 .. MaxThreads /\ listening_ \in BOOLEAN
        /\ made \in [Callers -> Nat] /\ quits \in Nat /\ started_ \in BOOLEAN
    BY DEF Init
  <2>7. QED
    BY <2>2, <2>3, <2>4, <2>5, <2>6 DEF Types
<1>4. PoolOK
  BY <1>1 DEF Init, PoolOK
<1>5. RunOK
  <2>1. ~Runs(Base) /\ opc # "loop" /\ loopState[Base] # "published"
    BY DEF Init, Runs
  <2>2. \A l \in SubLoops : ~(l <= Len(loops_)) /\ loopState[l] = "none"
    BY <1>1 DEF Init, SubLoops
  <2>3. \A l \in Loops : BatchOK(l)
    BY <1>1 DEF Init, BatchOK
  <2>4. QED
    BY <2>1, <2>2, <2>3 DEF RunOK
<1>6. \A l \in Loops : QueueOK(l)
  BY <1>1 DEF QueueOK, Shape
<1>7. \A c \in Conns : StateAgrees(c)
  <2>1. <<>> # <<"UP", "DOWN">>
    OBVIOUS
  <2>2. QED
    BY <2>1 DEF Init, StateAgrees, Down
<1>8. StartOK
  BY <1>1 DEF Init, StartOK
<1>9. QED
  BY <1>2, <1>3, <1>4, <1>5, <1>6, <1>7, <1>8 DEF Inv, LoopsOK

(* Every step preserves the types.                                         *)
LEMMA TypesStep ==
  ASSUME Inv, Next
  PROVE  Types'
<1>1. CASE \/ StartByOwner \/ StartByOther \/ StartStep \/ RunBaseLoop
           \/ QuitBaseLoop \/ ClientConnects
           \/ \E c \in Conns : PeerCloses(c)
           \/ \E l \in Loops : EnterLoop(l) \/ TakeBatch(l) \/ EndBatch(l) \/ EndLoop(l)
           \/ Destructor \/ DestroyPool
           \/ \E i \in DOMAIN loops_ : QuitLoop(i)
           \/ DestroyAcceptor \/ DestroyBaseLoop
  BY <1>1, PlainTypes DEF Inv
<1>2. CASE \/ AcceptOne \/ AcceptFails \/ Listen \/ RemoveConnectionInLoop
           \/ \E l \in Loops : ConnectEstablished(l) \/ ConnectDestroyed(l)
           \/ \E c \in Conns : HandleClose(c) \/ HandleMessage(c) \/ DropConnection(c)
  BY <1>2, ConnTypes
<1>3. QED
  BY <1>1, <1>2 DEF Next, OwnerStep, RunBatch, CallFunctor

(* Every step preserves the invariant.                                     *)
LEMMA InvStep ==
  ASSUME Inv, [Next]_vars
  PROVE  Inv'
<1>1. CASE Next
  <2>1. Types' /\ PoolOK' /\ StartOK'
    BY <1>1, TypesStep, PoolStep, CallersStep
  <2>2. RunOK'
    BY <1>1, ControlStep, BatchStep DEF RunOK
  <2>3. QED
    BY <1>1, <2>1, <2>2, QueueStep, StateStep, PlacedStep DEF Inv, LoopsOK
<1>2. CASE UNCHANGED vars
  <2>1. Types' /\ LoopsOK' /\ StartOK' /\ \A l \in Loops : QueueOK(l)'
    BY <1>2 DEF Inv, Types, LoopsOK, StartOK, PoolOK, RunOK, BatchOK, Runs, poolReady,
                QueueOK, FunctorOK, Accepted, vars, poolVars, acceptVars, mapVars,
                connVars, loopVars
  <2>2. \A c \in Conns : StateAgrees(c)'
    BY <1>2 DEF Inv, StateAgrees, Down, Accepted, vars, acceptVars, connVars
  <2>3. \A c \in Accepted' : Placed(c)'
    BY <1>2 DEF Inv, Placed, Pending, PollerExists, Runs, Destroying, Down, Accepted,
                vars, poolVars, acceptVars, mapVars, connVars, loopVars
  <2>4. QED
    BY <2>1, <2>2, <2>3 DEF Inv
<1>3. QED
  BY <1>1, <1>2

(* The queues hold what is still to be done for each connection, for any   *)
(* number of threads and connections.                                      *)
THEOREM Invariant == Spec => []Inv
BY InvInit, InvStep, PTL DEF Spec, SafeSpec

-----------------------------------------------------------------------------
(* What the invariant says of the properties that are checked.             *)

(* The pool's loops are numbered from 1.                                   *)
LEMMA InvTypeOK == Inv => TypeOK
<1> SUFFICES ASSUME Inv PROVE TypeOK
  OBVIOUS
<1>1. Types /\ PoolOK
  BY DEF Inv, LoopsOK
<1>2. loops_ = [i \in 1 .. Len(loops_) |-> i]
  <2>1. loops_ \in Seq(SubLoops) /\ \A i \in 1 .. Len(loops_) : loops_[i] = i
    BY <1>1 DEF Types, PoolOK
  <2>2. loops_ = [i \in 1 .. Len(loops_) |-> loops_[i]]
    BY <2>1, LenProperties
  <2>3. QED
    BY <2>1, <2>2
<1>3. \A l \in Loops : batch[l] \in 0 .. Len(queue[l])
  <2>1. ASSUME NEW l \in Loops
        PROVE  batch[l] \in 0 .. Len(queue[l])
    <3>1. queue[l] \in Seq(FunctorSet) /\ batch[l] \in Nat /\ batch[l] <= Len(queue[l])
      BY <1>1 DEF Types, Inv, LoopsOK, RunOK, BatchOK
    <3>2. QED
      BY <3>1, LenProperties
  <2>2. QED
    BY <2>1
<1>4. \A c \in Conns : /\ state_[c] = "kConnecting" <=> told[c] = <<>>
                       /\ state_[c] = "kDisconnected" <=> Down(c)
                       /\ registered[c] = "enabled" => told[c] = <<"UP">>
  BY DEF Inv, StateAgrees
<1>5. Len(loops_) <= numThreads_ /\ (loops_ # <<>> => next_ < Len(loops_))
  BY <1>1 DEF PoolOK
<1>6. mapUsers \subseteq Loops
  BY <1>1, LoopsFacts DEF Types
<1>7. made \in [Callers -> 0 .. numThreads_] /\ quits \in 0 .. Len(loops_)
  <2>1. /\ made \in [Callers -> Nat] /\ quits \in Nat
        /\ numThreads_ \in Nat /\ Len(loops_) \in Nat
    BY <1>1, LenProperties DEF Types
  <2>2. \A caller \in Callers : made[caller] <= numThreads_
    BY DEF Inv, StartOK
  <2>3. quits <= Len(loops_)
    BY DEF Inv, StartOK
  <2>4. QED
    BY <2>1, <2>2, <2>3
<1>8. QED
  BY <1>1, <1>2, <1>3, <1>4, <1>5, <1>6, <1>7 DEF TypeOK, Types

(* The batch is the front of its queue, and state_, the channel's          *)
(* registration and what the application was told agree.                   *)
THEOREM TypeCorrect == Spec => []TypeOK
BY Invariant, InvTypeOK, PTL

(* Every member function runs on its own loop's thread, and the server's   *)
(* map is changed on the base loop's, whichever thread caused it.          *)
THEOREM OwnThread == Spec => []OwnThreadOnly
<1>1. Inv => OwnThreadOnly
  BY DEF Inv, Placed, Types, OwnThreadOnly
<1>2. QED
  BY <1>1, Invariant, PTL

(* A functor of a connection that is queued keeps the connection alive.    *)
LEMMA PendingAlive ==
  ASSUME Inv, NEW l \in Loops, NEW c \in Accepted,
         \/ Pending(l, ToEstablish(c))
         \/ Pending(l, ToRemove(c))
         \/ Pending(l, ToDestroy(c))
  PROVE  Alive(c)
<1>1. PICK f \in ToSet(queue[l]) : f.conn = c
  BY DEF Pending, ToEstablish, ToRemove, ToDestroy, Functor
<1>2. PICK i \in DOMAIN queue[l] : queue[l][i] = f
  BY <1>1 DEF ToSet
<1>3. QED
  BY <1>1, <1>2 DEF Alive

(* ~TcpConnection finds that its channel has left the poller: the channel  *)
(* of a connection that is gone is known to no poller that exists.         *)
THEOREM NoDangling == Spec => []NoDanglingChannel
<1>1. Inv => NoDanglingChannel
  <2>1. SUFFICES ASSUME Inv, NEW c \in Accepted,
                        registered[c] # "no", PollerExists(ioLoop[c])
                 PROVE  Alive(c)
    BY DEF NoDanglingChannel
  <2>2. ioLoop[c] \in Loops /\ Placed(c)
    BY <2>1, PlaceFrame, AcceptedFacts DEF Inv, Types
  <2>3. CASE c \in connections_
    BY <2>3 DEF Alive
  <2>4. CASE c \notin connections_
    BY <2>1, <2>2, <2>4, PendingAlive DEF Placed
  <2>5. QED
    BY <2>3, <2>4
<1>2. QED
  BY <1>1, Invariant, PTL

(* Where functors of a connection are queued.                              *)
WayNames == {"connectEstablished", "removeConnectionInLoop", "connectDestroyed"}
Places(c) == {p \in Loops \X WayNames : Pending(p[1], Functor(p[2], c))}

(* Each kind of functor has one loop where it can be.                      *)
LEMMA PlacesFacts ==
  ASSUME Inv, NEW c \in Accepted, NEW io \in Loops, io = ioLoop[c], NEW p
  PROVE  p \in Places(c) <=>
           \/ p = <<io, "connectEstablished">> /\ Pending(io, ToEstablish(c))
           \/ p = <<Base, "removeConnectionInLoop">> /\ Pending(Base, ToRemove(c))
           \/ p = <<io, "connectDestroyed">> /\ Pending(io, ToDestroy(c))
<1>1. ASSUME NEW l \in Loops, NEW fn \in WayNames, Pending(l, Functor(fn, c))
      PROVE  IF fn = "removeConnectionInLoop" THEN l = Base ELSE l = io
  <2>1. FunctorOK(l, Functor(fn, c))
    BY <1>1 DEF Inv, QueueOK, Pending
  <2>2. QED
    BY <2>1 DEF FunctorOK, Functor, WayNames
<1>2. ASSUME NEW l \in Loops, NEW fn \in WayNames
      PROVE  <<l, fn>> \in Places(c) <=> Pending(l, Functor(fn, c))
  BY DEF Places
<1>3. ASSUME p \in Places(c)
      PROVE  \/ p = <<io, "connectEstablished">> /\ Pending(io, ToEstablish(c))
             \/ p = <<Base, "removeConnectionInLoop">> /\ Pending(Base, ToRemove(c))
             \/ p = <<io, "connectDestroyed">> /\ Pending(io, ToDestroy(c))
  <2>1. PICK l \in Loops, fn \in WayNames : p = <<l, fn>>
    BY <1>3 DEF Places
  <2>2. Pending(l, Functor(fn, c))
    BY <1>2, <1>3, <2>1
  <2>3. QED
    BY <1>1, <2>1, <2>2 DEF WayNames, ToEstablish, ToRemove, ToDestroy
<1>4. QED
  BY <1>2, <1>3, LoopsFacts DEF WayNames, ToEstablish, ToRemove, ToDestroy

(* Until the server is destroyed its loops have pollers.                   *)
LEMMA PollersExist ==
  ASSUME Inv, ~Destroying, NEW c \in Accepted
  PROVE  PollerExists(ioLoop[c])
<1>1. PICK io \in Loops : io = ioLoop[c] /\ io <= Len(loops_)
  BY AcceptedFacts DEF Inv, Types, Placed
<1>2. CASE io = Base
  BY <1>1, <1>2 DEF PollerExists, Destroying
<1>3. CASE io # Base
  <2>1. loopState[io] \in {"published", "running"}
    BY <1>1, <1>3, LoopsFacts DEF Inv, LoopsOK, RunOK, Destroying
  <2>2. QED
    BY <1>1, <1>3, <2>1 DEF PollerExists, Runs
<1>4. QED
  BY <1>2, <1>3

(* A connection is at exactly one place.                                   *)
LEMMA OnePlaceEach ==
  ASSUME Inv, ~Destroying, NEW c \in Accepted
  PROVE  /\ told[c] = <<>> => /\ c \in connections_
                              /\ Places(c) = {<<ioLoop[c], "connectEstablished">>}
         /\ told[c] = <<"UP">> => c \in connections_ /\ Places(c) = {}
         /\ Down(c) /\ c \in connections_ =>
              Places(c) = {<<Base, "removeConnectionInLoop">>}
         /\ Down(c) /\ c \notin connections_ =>
              \/ Places(c) = {<<ioLoop[c], "connectDestroyed">>}
              \/ Places(c) = {} /\ registered[c] = "no"
         /\ told[c] = <<>> \/ told[c] = <<"UP">> \/ Down(c)
<1>1. PICK io \in Loops : io = ioLoop[c]
  BY AcceptedFacts DEF Inv, Types
<1>2. /\ Placed(c) /\ PollerExists(io)
      /\ told[c] = <<>> \/ told[c] = <<"UP">> \/ Down(c)
  BY <1>1, PollersExist, AcceptedFacts DEF Inv, Types, Down
<1>3. \A p : p \in Places(c) <=>
           \/ p = <<io, "connectEstablished">> /\ Pending(io, ToEstablish(c))
           \/ p = <<Base, "removeConnectionInLoop">> /\ Pending(Base, ToRemove(c))
           \/ p = <<io, "connectDestroyed">> /\ Pending(io, ToDestroy(c))
  BY <1>1, PlacesFacts
<1>4. /\ <<>> # <<"UP">> /\ <<>> # <<"UP", "DOWN">> /\ <<"UP">> # <<"UP", "DOWN">>
  OBVIOUS
<1>5. /\ Pending(io, ToEstablish(c)) <=> told[c] = <<>>
      /\ Pending(Base, ToRemove(c)) <=> Down(c) /\ c \in connections_
      /\ Pending(io, ToDestroy(c)) => c \notin connections_
      /\ c \notin connections_ => Down(c)
      /\ c \notin connections_ /\ registered[c] # "no" => Pending(io, ToDestroy(c))
  BY <1>1, <1>2 DEF Placed
<1>6. CASE told[c] = <<>>
  <2>1. Places(c) = {<<io, "connectEstablished">>}
    BY <1>3, <1>4, <1>5, <1>6 DEF Down
  <2>2. QED
    BY <1>1, <1>4, <1>5, <1>6, <2>1 DEF Down
<1>7. CASE told[c] = <<"UP">>
  <2>1. Places(c) = {}
    BY <1>3, <1>4, <1>5, <1>7 DEF Down
  <2>2. QED
    BY <1>4, <1>5, <1>7, <2>1 DEF Down
<1>8. CASE Down(c) /\ c \in connections_
  <2>1. Places(c) = {<<Base, "removeConnectionInLoop">>}
    BY <1>3, <1>4, <1>5, <1>8 DEF Down
  <2>2. QED
    BY <1>4, <1>8, <2>1 DEF Down
<1>9. CASE Down(c) /\ c \notin connections_
  <2>1. \/ Places(c) = {<<io, "connectDestroyed">>}
        \/ Places(c) = {} /\ registered[c] = "no"
    BY <1>3, <1>4, <1>5, <1>9 DEF Down
  <2>2. QED
    BY <1>1, <1>4, <1>9, <2>1 DEF Down
<1>10. QED
  BY <1>2, <1>6, <1>7, <1>8, <1>9

(* No queue has two functors about it.                                     *)
LEMMA OneFunctorEach ==
  ASSUME Inv, ~Destroying, NEW c \in Accepted, NEW l \in Loops,
         NEW i \in DOMAIN queue[l], NEW j \in DOMAIN queue[l],
         queue[l][i].conn = c, queue[l][j].conn = c
  PROVE  i = j
<1>1. /\ DOMAIN queue[l] = 1 .. Len(queue[l]) /\ Len(queue[l]) \in Nat
      /\ \A k \in DOMAIN queue[l] : queue[l][k] \in FunctorSet
  BY LenProperties, ElementOfSeq DEF Inv, Types
<1>2. ASSUME NEW k \in DOMAIN queue[l], NEW m \in DOMAIN queue[l], k < m,
             queue[l][k].conn = c, queue[l][m].conn = c
      PROVE  FALSE
  <2>1. Follows(queue[l][k], queue[l][m])
    BY <1>1, <1>2 DEF Inv, QueueOK, Shape
  <2>2. queue[l][k] = ToEstablish(c) /\ queue[l][m] = ToDestroy(c)
    BY <1>1, <1>2, <2>1, AcceptedFacts
    DEF Follows, ToEstablish, ToDestroy, Functor, FunctorSet, Inv
  <2>3. Pending(l, ToEstablish(c)) /\ Pending(l, ToDestroy(c))
    BY <2>2 DEF Pending, ToSet
  <2>4. l = ioLoop[c]
    BY <2>3 DEF Inv, QueueOK, FunctorOK, Pending, ToEstablish, Functor
  <2>5. told[c] = <<>> /\ Down(c)
    BY <2>3, <2>4 DEF Inv, Placed
  <2>6. <<>> # <<"UP", "DOWN">>
    OBVIOUS
  <2>7. QED
    BY <2>5, <2>6 DEF Down
<1>3. QED
  BY <1>1, <1>2

(* A connection moves from place to place, through the queues of two       *)
(* loops, and is at every moment at exactly one.                           *)
THEOREM OnePlaceOnly == Spec => []OnePlace
<1>1. Inv => OnePlace
  <2>1. Inv /\ ~Destroying => \A c \in Accepted :
           CASE told[c] = <<>> ->
                  /\ c \in connections_
                  /\ Places(c) = {<<ioLoop[c], "connectEstablished">>}
             [] told[c] = <<"UP">> -> c \in connections_ /\ Places(c) = {}
             [] Down(c) /\ c \in connections_
                  -> Places(c) = {<<Base, "removeConnectionInLoop">>}
             [] OTHER -> \/ Places(c) = {<<ioLoop[c], "connectDestroyed">>}
                         \/ Places(c) = {} /\ registered[c] = "no"
    BY OnePlaceEach
  <2>2. Inv /\ ~Destroying => \A c \in Accepted, l \in Loops :
           \A i, j \in DOMAIN queue[l] :
              queue[l][i].conn = c /\ queue[l][j].conn = c => i = j
    BY OneFunctorEach
  <2>3. QED
    BY <2>1, <2>2 DEF OnePlace, Places, WayNames
<1>2. QED
  BY <1>1, Invariant, PTL

-----------------------------------------------------------------------------
(* The balance of the pool.                                                *)

(* The connections of a loop, and how they are dealt out: in turn, and     *)
(* next_ loops have had theirs in the current round.                       *)
Share(l) == {c \in Accepted : ioLoop[c] = l}
DealtInTurn ==
    \E q \in Nat : \A i \in 1 .. Len(loops_) :
        Cardinality(Share(i)) = q + (IF i <= next_ THEN 1 ELSE 0)

(* There are finitely many connections.                                    *)
LEMMA ShareFacts ==
  ASSUME Types, NEW l
  PROVE  IsFiniteSet(Share(l)) /\ Cardinality(Share(l)) \in Nat
<1>1. IsFiniteSet(Accepted)
  <2>1. 1 \in Int /\ nextConnId_ - 1 \in Int
    BY TcpServerAssumption DEF Types
  <2>2. QED
    BY <2>1, FS_Interval DEF Accepted
<1>2. Share(l) \in SUBSET Accepted
  BY DEF Share
<1>3. QED
  BY <1>1, <1>2, FS_Subset, FS_CardinalityType

(* newConnection() gives the next loop in turn one more.                   *)
LEMMA DealtNext ==
  ASSUME Inv, Next, DealtInTurn, AcceptOne
  PROVE  DealtInTurn'
<1>1. /\ nextConnId_ \in Conns /\ poolReady
      /\ UNCHANGED <<loops_, numThreads_>>
  BY TcpServerAssumption DEF AcceptOne, Inv, LoopsOK, PoolOK, Types, Conns, poolVars
<1>2. PICK c \in Conns, io \in Loops : c = nextConnId_ /\ io = getNextLoop.loop
  BY <1>1, NextLoopFacts DEF Inv
<1>3. /\ nextConnId_' = c + 1 /\ ioLoop' = [ioLoop EXCEPT ![c] = io]
      /\ next_' = getNextLoop.next
  BY <1>2 DEF AcceptOne, newConnection
<1>4. /\ ioLoop \in [Conns -> Loops] /\ c \notin Accepted /\ Accepted \subseteq Conns
      /\ Accepted' = Accepted \cup {c}
  <2>1. Accepted' = Accepted \cup {c}
    BY <1>2, <1>3, TcpServerAssumption DEF Accepted, Inv, Types
  <2>2. QED
    BY <1>2, <2>1, AcceptedFacts DEF Inv, Types
<1>5. /\ Share(io)' = Share(io) \cup {c} /\ c \notin Share(io)
      /\ \A i : i # io => Share(i)' = Share(i)
  BY <1>3, <1>4 DEF Share
<1>6. /\ Cardinality(Share(io)') = Cardinality(Share(io)) + 1
      /\ \A i : i # io => Cardinality(Share(i)') = Cardinality(Share(i))
  BY <1>5, ShareFacts, FS_AddElement DEF Inv
<1>7. /\ Len(loops_) \in Nat /\ next_ \in Nat
      /\ loops_ = <<>> <=> Len(loops_) = 0
  BY LenProperties, EmptySeq DEF Inv, Types
<1>8. PICK q \in Nat : \A i \in 1 .. Len(loops_) :
         Cardinality(Share(i)) = q + (IF i <= next_ THEN 1 ELSE 0)
  BY DEF DealtInTurn
<1>9. CASE loops_ = <<>>
  BY <1>1, <1>7, <1>9 DEF DealtInTurn
<1>10. CASE loops_ # <<>>
  <2>1. /\ io = next_ + 1 /\ next_ < Len(loops_)
        /\ next_' = IF next_ + 1 = Len(loops_) THEN 0 ELSE next_ + 1
    BY <1>1, <1>2, <1>3, <1>10, NextLoopFacts DEF Inv, LoopsOK, PoolOK
  <2>2. CASE next_ + 1 = Len(loops_)
    <3>1. \A i \in 1 .. Len(loops_) : Cardinality(Share(i)') = q + 1
      BY <1>6, <1>7, <1>8, <2>1, <2>2
    <3>2. PICK r \in Nat : r = q + 1
      OBVIOUS
    <3>3. \A i \in 1 .. Len(loops_') :
             Cardinality(Share(i)') = r + (IF i <= next_' THEN 1 ELSE 0)
      BY <1>1, <1>7, <2>1, <2>2, <3>1, <3>2
    <3>4. QED
      BY <3>3 DEF DealtInTurn
  <2>3. CASE next_ + 1 # Len(loops_)
    <3>1. \A i \in 1 .. Len(loops_') :
             Cardinality(Share(i)') = q + (IF i <= next_' THEN 1 ELSE 0)
      BY <1>1, <1>6, <1>7, <1>8, <2>1, <2>3
    <3>2. QED
      BY <3>1 DEF DealtInTurn
  <2>4. QED
    BY <2>2, <2>3
<1>11. QED
  BY <1>9, <1>10

(* Nothing else deals out connections, and no loop joins the pool once     *)
(* there is one.                                                           *)
LEMMA DealtStep ==
  ASSUME Inv, DealtInTurn, [Next]_vars
  PROVE  DealtInTurn'
<1>1. CASE UNCHANGED <<loops_, next_, nextConnId_, ioLoop>>
  BY <1>1 DEF DealtInTurn, Share, Accepted
<1>2. CASE AcceptOne
  BY <1>2, DealtNext DEF Next
<1>3. CASE CreateLoop
  <2>1. ~poolReady
    BY <1>3, StartFacts, LenProperties DEF Inv, Types, poolReady
  <2>2. nextConnId_ = 1 /\ next_ = 0
    BY <2>1 DEF Inv, LoopsOK, PoolOK
  <2>3. nextConnId_' = 1 /\ next_' = 0
    BY <1>3, <2>2 DEF CreateLoop, acceptVars
  <2>4. \A i : Cardinality(Share(i)') = 0
    <3>1. \A i : Share(i)' = {}
      BY <2>3 DEF Share, Accepted
    <3>2. QED
      BY <3>1, FS_EmptySet
  <2>5. \A i \in 1 .. Len(loops_') :
           Cardinality(Share(i)') = 0 + (IF i <= next_' THEN 1 ELSE 0)
    BY <2>3, <2>4
  <2>6. QED
    BY <2>5 DEF DealtInTurn
<1>4. CASE ListenByOwner \/ ClientConnects \/ Listen \/ DestroyAcceptor
  BY <1>1, <1>4 DEF ListenByOwner, ClientConnects, Listen, DestroyAcceptor, poolVars
<1>5. CASE UNCHANGED vars
  BY <1>1, <1>5 DEF vars, poolVars, acceptVars
<1>6. CASE Next /\ ~AcceptOne
           /\ UNCHANGED <<loops_, numThreads_, next_, listening_, backlog, nextConnId_>>
  BY <1>1, <1>6, AcceptedStep
<1>7. QED
  BY <1>2, <1>3, <1>4, <1>5, <1>6, PoolFrame

(* getNextLoop() spreads the connections evenly: no loop of the pool has   *)
(* had two more than another, and with a pool the base loop has had none.  *)
THEOREM EvenlySpread == Spec => []Balanced
<1>1. Init => DealtInTurn
  <2>1. SUFFICES ASSUME Init PROVE DealtInTurn
    OBVIOUS
  <2>2. Len(loops_) = 0
    BY <2>1 DEF Init
  <2>3. \A i \in 1 .. Len(loops_) :
           Cardinality(Share(i)) = 0 + (IF i <= next_ THEN 1 ELSE 0)
    BY <2>2
  <2>4. QED
    BY <2>3 DEF DealtInTurn
<1>2. Spec => [](Inv /\ DealtInTurn)
  BY <1>1, InvInit, InvStep, DealtStep, PTL DEF Spec, SafeSpec
<1>3. Inv /\ DealtInTurn => Balanced
  <2>1. SUFFICES ASSUME Inv, DealtInTurn
                 PROVE  /\ \A i, j \in DOMAIN loops_ :
                              Cardinality(Share(loops_[i])) <=
                                 Cardinality(Share(loops_[j])) + 1
                        /\ numThreads_ > 0 => Cardinality(Share(Base)) = 0
    BY DEF Balanced, Share
  <2>2. /\ DOMAIN loops_ = 1 .. Len(loops_)
        /\ \A i \in 1 .. Len(loops_) : loops_[i] = i
    BY <2>1, LenProperties DEF Inv, LoopsOK, PoolOK, Types
  <2>3. PICK q \in Nat : \A i \in 1 .. Len(loops_) :
           Cardinality(Share(i)) = q + (IF i <= next_ THEN 1 ELSE 0)
    BY <2>1 DEF DealtInTurn
  <2>4. ASSUME NEW i \in DOMAIN loops_, NEW j \in DOMAIN loops_
        PROVE  Cardinality(Share(loops_[i])) <= Cardinality(Share(loops_[j])) + 1
    BY <2>2, <2>3, <2>4
  <2>5. ASSUME numThreads_ > 0
        PROVE  Cardinality(Share(Base)) = 0
    <3>1. \A c \in Accepted : ioLoop[c] # Base
      BY <2>1, <2>5 DEF Inv, Placed, Types
    <3>2. Share(Base) = {}
      BY <3>1 DEF Share
    <3>3. QED
      BY <3>2, FS_EmptySet
  <2>6. QED
    BY <2>4, <2>5
<1>4. QED
  BY <1>2, <1>3, PTL

-----------------------------------------------------------------------------
(* Who holds a TcpConnectionPtr.                                           *)

(* The functors of loop l, queued or called, hold one to c.                *)
Refers(l, c) == c \in held[l] \/ \E g \in ToSet(queue[l]) : g.conn = c

(* A connection is alive by the map or by the functors of some loop.       *)
LEMMA AliveFacts ==
  ASSUME NEW c
  PROVE  /\ Alive(c) <=> c \in connections_ \/ \E l \in Loops : Refers(l, c)
         /\ Alive(c)' <=> c \in connections_' \/ \E l \in Loops : Refers(l, c)'
<1>1. \A q : (\E i \in DOMAIN q : q[i].conn = c) <=> (\E g \in ToSet(q) : g.conn = c)
  BY DEF ToSet
<1>2. QED
  BY <1>1 DEF Alive, Refers

(* A functor that is called still holds its connection.                    *)
LEMMA CallRefers ==
  ASSUME Inv, NEW l \in Loops, NEW fn, Calls(l, fn), queue' = Pop(l), NEW c
  PROVE  \A k \in Loops : Refers(k, c)' <=> Refers(k, c)
<1>1. /\ queue \in [Loops -> Seq(FunctorSet)]
      /\ held \in [Loops -> SUBSET (Conns \cup {0})]
      /\ Shape(queue[l])
  BY DEF Inv, Types, QueueOK
<1>2. queue[l] # <<>>
  BY CallFacts DEF Inv
<1>3. /\ \A k \in Loops \ {l} : queue'[k] = queue[k]
      /\ ToSet(queue[l]) = ToSet(queue'[l]) \cup {Head(queue[l])}
  BY <1>1, <1>2, PopFacts
<1>4. /\ \A k \in Loops \ {l} : held'[k] = held[k]
      /\ held'[l] = held[l] \cup {Head(queue[l]).conn}
  BY <1>1 DEF Calls
<1>5. QED
  BY <1>3, <1>4 DEF Refers

(* A functor that is queued holds its own.                                 *)
LEMMA PushRefers ==
  ASSUME Inv, NEW l \in Loops, NEW f \in FunctorSet,
         queue' = Push(queue, l, f), held' = held, NEW c
  PROVE  \A k \in Loops : Refers(k, c)' <=> Refers(k, c) \/ (k = l /\ f.conn = c)
<1>1. queue \in [Loops -> Seq(FunctorSet)]
  BY DEF Inv, Types
<1>2. \A k \in Loops \ {l} : Push(queue, l, f)[k] = queue[k]
  BY <1>1, PushFacts
<1>3. \A g : g \in ToSet(Push(queue, l, f)[l]) <=> g \in ToSet(queue[l]) \/ g = f
  BY <1>1, PushFacts
<1>4. QED
  BY <1>2, <1>3 DEF Refers

(* What is removed from the map goes to its own loop's queue.              *)
LEMMA RemoveRefers ==
  ASSUME Inv, RemoveConnectionInLoop, NEW d \in Accepted
  PROVE  Alive(d)' <=> Alive(d)
<1>1. PICK c, io : c = Head(queue[Base]).conn /\ io = ioLoop[c]
  OBVIOUS
<1>2. /\ io \in Loops /\ io # Base
      /\ \A k \in Loops \ {Base, io} : queue'[k] = queue[k]
      /\ \A g : g \in ToSet(queue[Base]) <=> g \in ToSet(queue'[Base]) \/ g = ToRemove(c)
      /\ \A g : g \in ToSet(queue'[io]) <=> g \in ToSet(queue[io]) \/ g = ToDestroy(c)
  BY <1>1, RemoveQueues
<1>3. c \in connections_ /\ connections_' = connections_ \ {c}
  BY <1>1, RemoveFacts DEF removeConnectionInLoop
<1>4. /\ \A k \in Loops \ {Base} : held'[k] = held[k]
      /\ held'[Base] = held[Base] \cup {c}
  BY <1>1, LoopsFacts DEF RemoveConnectionInLoop, Calls, Inv, Types
<1>5. ToRemove(c).conn = c /\ ToDestroy(c).conn = c
  BY DEF ToRemove, ToDestroy, Functor
<1>6. CASE d = c
  <2>1. Refers(Base, d)'
    BY <1>4, <1>6 DEF Refers
  <2>2. QED
    BY <1>3, <1>6, <2>1, AliveFacts, LoopsFacts
<1>7. CASE d # c
  <2>1. \A k \in Loops : Refers(k, d)' <=> Refers(k, d)
    BY <1>2, <1>4, <1>5, <1>7 DEF Refers
  <2>2. QED
    BY <1>3, <1>7, <2>1, AliveFacts
<1>8. QED
  BY <1>6, <1>7

(* The steps that change who holds a connection.                           *)
LEMMA AliveFrame ==
  ASSUME Next
  PROVE  \/ AcceptOne \/ Listen \/ RemoveConnectionInLoop \/ ListenByOther
         \/ \E l \in Loops : ConnectEstablished(l) \/ ConnectDestroyed(l) \/ EndBatch(l)
         \/ \E c \in Conns : HandleClose(c) \/ DropConnection(c)
         \/ \E l \in SubLoops : EndLoop(l)
         \/ DestroyBaseLoop
         \/ UNCHANGED <<connections_, queue, held>>
<1> USE LoopsFacts DEF poolVars, acceptVars, mapVars, connVars, loopVars
<1>1. CASE \/ StartByOwner \/ StartByOther \/ CreateLoop \/ ListenByOwner
           \/ RunBaseLoop \/ QuitBaseLoop \/ ClientConnects
  BY <1>1 DEF StartByOwner, StartByOther, CreateLoop, ListenByOwner, RunBaseLoop,
              QuitBaseLoop, ClientConnects
<1>2. CASE \/ \E c \in Conns : PeerCloses(c) \/ HandleMessage(c)
           \/ AcceptFails
           \/ \E l \in Loops : EnterLoop(l) \/ TakeBatch(l)
  BY <1>2 DEF PeerCloses, HandleMessage, AcceptFails, EnterLoop, TakeBatch, Handles
<1>3. CASE \/ Destructor \/ DestroyPool \/ DestroyAcceptor
           \/ \E i \in DOMAIN loops_ : QuitLoop(i)
  BY <1>3 DEF Destructor, DestroyPool, DestroyAcceptor, QuitLoop
<1>4. CASE \E l \in Loops : EndLoop(l)
  <2>1. PICK l \in Loops : EndLoop(l)
    BY <1>4
  <2>2. CASE l = Base
    BY <2>1, <2>2 DEF EndLoop
  <2>3. QED
    BY <2>1, <2>2
<1>5. QED
  BY <1>1, <1>2, <1>3, <1>4 DEF Next, StartStep, RunBatch, CallFunctor, OwnerStep

(* The steps after which a connection may be gone.                         *)
Drops(c) ==
    \/ \E l \in Loops : EndBatch(l)
    \/ \E l \in SubLoops : EndLoop(l)
    \/ DropConnection(c)
    \/ DestroyBaseLoop

(* The steps that hand a connection on, or have nothing to do with who     *)
(* holds it, keep it alive.                                                *)
LEMMA AliveKept ==
  ASSUME Inv, NEW d \in Accepted,
         \/ AcceptOne \/ Listen \/ RemoveConnectionInLoop \/ ListenByOther
         \/ \E l \in Loops : ConnectEstablished(l) \/ ConnectDestroyed(l)
         \/ \E c \in Conns : HandleClose(c)
         \/ UNCHANGED <<connections_, queue, held>>
  PROVE  Alive(d)' <=> Alive(d)
<1> USE LoopsFacts
<1>1. /\ queue \in [Loops -> Seq(FunctorSet)]
      /\ held \in [Loops -> SUBSET (Conns \cup {0})]
      /\ d \in Conns /\ d # 0 /\ d # nextConnId_
  BY AcceptedFacts DEF Inv, Types
<1>2. ASSUME d \in connections_' <=> d \in connections_,
             \A k \in Loops : Refers(k, d)' <=> Refers(k, d)
      PROVE  Alive(d)' <=> Alive(d)
  BY <1>2, AliveFacts
<1>3. CASE AcceptOne
  <2>1. held' = held /\ connections_' = connections_ \cup {nextConnId_}
    BY <1>3 DEF AcceptOne, newConnection, Handles
  <2>2. PICK io, f : io = getNextLoop.loop /\ f = ToEstablish(nextConnId_)
    OBVIOUS
  <2>3. io \in Loops /\ f \in FunctorSet /\ f.conn # d
    <3>1. poolReady /\ nextConnId_ \in Conns
      BY <1>3, TcpServerAssumption
      DEF AcceptOne, Inv, LoopsOK, PoolOK, Types, Conns
    <3>2. QED
      BY <1>1, <2>2, <3>1, NextLoopFacts, AcceptedFacts DEF Inv, ToEstablish, Functor
  <2>4. queue' = queue \/ queue' = Push(queue, io, f)
    BY <1>3, <2>2 DEF AcceptOne, newConnection, ToEstablish
  <2>5. \A k \in Loops : Refers(k, d)' <=> Refers(k, d)
    <3>1. CASE queue' = queue
      BY <2>1, <3>1 DEF Refers
    <3>2. CASE queue' = Push(queue, io, f)
      BY <2>1, <2>3, <3>2, PushRefers
    <3>3. QED
      BY <2>4, <3>1, <3>2
  <2>6. QED
    BY <1>1, <1>2, <2>1, <2>5
<1>4. CASE Listen
  BY <1>2, <1>4, CallRefers DEF Listen, mapVars
<1>5. CASE RemoveConnectionInLoop
  BY <1>5, RemoveRefers
<1>6. CASE ListenByOther
  <2>1. PICK f : f = Functor("listen", 0)
    OBVIOUS
  <2>2. f \in FunctorSet /\ f.conn # d
    BY <1>1, <2>1, AcceptedFacts DEF Functor, Inv
  <2>3. queue' = Push(queue, Base, f) /\ held' = held /\ connections_' = connections_
    BY <1>6, <2>1 DEF ListenByOther, mapVars
  <2>4. QED
    BY <1>2, <2>2, <2>3, PushRefers
<1>7. ASSUME NEW l \in Loops, ConnectEstablished(l) \/ ConnectDestroyed(l)
      PROVE  Alive(d)' <=> Alive(d)
  BY <1>2, <1>7, CallRefers DEF ConnectEstablished, ConnectDestroyed, mapVars
<1>8. ASSUME NEW c \in Conns, HandleClose(c)
      PROVE  Alive(d)' <=> Alive(d)
  <2>1. PICK io, l, f : /\ io = ioLoop[c] /\ l = Base
                        /\ f = IF io = Base THEN ToDestroy(c) ELSE ToRemove(c)
    OBVIOUS
  <2>2. /\ c \in Accepted /\ io \in Loops /\ PollerExists(io) /\ held' = held
        /\ removeConnection(c, io) /\ registered[c] # "no"
    BY <1>8, <2>1, CloseFacts DEF HandleClose
  <2>3. /\ queue' = Push(queue, l, f)
        /\ connections_' = connections_ \/ connections_' = connections_ \ {c}
    BY <2>1, <2>2
    DEF removeConnection, removeConnectionInLoop, mapVars, ToDestroy, ToRemove
  <2>4. f \in FunctorSet /\ f.conn = c
    BY <1>8, <2>1, AcceptedFacts DEF ToDestroy, ToRemove, Functor, Inv
  <2>5. \A k \in Loops : Refers(k, d)' <=> Refers(k, d) \/ (k = l /\ c = d)
    BY <2>1, <2>2, <2>3, <2>4, PushRefers
  <2>6. Alive(c)
    <3>1. CASE c \in connections_
      BY <3>1 DEF Alive
    <3>2. CASE c \notin connections_
      BY <2>1, <2>2, <3>2, PendingAlive DEF Placed, Inv
    <3>3. QED
      BY <3>1, <3>2
  <2>7. CASE d = c
    BY <2>1, <2>5, <2>6, <2>7, AliveFacts
  <2>8. CASE d # c
    BY <1>2, <2>3, <2>5, <2>8
  <2>9. QED
    BY <2>7, <2>8
<1>9. CASE UNCHANGED <<connections_, queue, held>>
  BY <1>2, <1>9 DEF Refers
<1>10. QED
  BY <1>3, <1>4, <1>5, <1>6, <1>7, <1>8, <1>9

(* No connection comes back, and one is gone only after one of those.      *)
LEMMA AliveStep ==
  ASSUME Inv, Next, NEW d \in Accepted
  PROVE  /\ Alive(d)' => Alive(d)
         /\ Alive(d) => Alive(d)' \/ Drops(d)
<1> USE LoopsFacts
<1>1. /\ queue \in [Loops -> Seq(FunctorSet)]
      /\ held \in [Loops -> SUBSET (Conns \cup {0})]
      /\ d \in Conns /\ d # 0 /\ d # nextConnId_
  BY AcceptedFacts DEF Inv, Types
<1>2. ASSUME d \in connections_' <=> d \in connections_,
             \A k \in Loops : Refers(k, d)' <=> Refers(k, d)
      PROVE  Alive(d)' <=> Alive(d)
  BY <1>2, AliveFacts
<1>3. ASSUME NEW c \in Conns, DropConnection(c)
      PROVE  /\ Alive(d)' => Alive(d)
             /\ Alive(d) => Alive(d)' \/ d = c
  <2>1. PICK io, f : io = ioLoop[c] /\ f = ToDestroy(c)
    OBVIOUS
  <2>2. /\ io \in Loops /\ held' = held /\ c \in connections_
        /\ connections_' = connections_ \ {c}
        /\ queue' = queue \/ queue' = Push(queue, io, f)
    BY <1>3, <2>1 DEF DropConnection, ToDestroy, Inv, Types
  <2>3. f \in FunctorSet /\ f.conn = c
    BY <1>3, <2>1, AcceptedFacts DEF ToDestroy, Functor, Inv
  <2>4. \A k \in Loops : d # c => (Refers(k, d)' <=> Refers(k, d))
    <3>1. CASE queue' = queue
      BY <2>2, <3>1 DEF Refers
    <3>2. CASE queue' = Push(queue, io, f)
      BY <2>2, <2>3, <3>2, PushRefers
    <3>3. QED
      BY <2>2, <3>1, <3>2
  <2>5. CASE d = c
    BY <2>2, <2>5, AliveFacts
  <2>6. CASE d # c
    BY <1>2, <2>2, <2>4, <2>6
  <2>7. QED
    BY <2>5, <2>6
<1>4. ASSUME NEW l \in Loops, EndBatch(l)
       PROVE  Alive(d)' => Alive(d)
  <2>1. /\ queue' = queue /\ connections_' = connections_
        /\ \A k \in Loops : held'[k] \subseteq held[k]
    BY <1>1, <1>4 DEF EndBatch, mapVars
  <2>2. \A k \in Loops : Refers(k, d)' => Refers(k, d)
    BY <2>1 DEF Refers
  <2>3. QED
    BY <2>1, <2>2, AliveFacts
<1>5. ASSUME NEW l \in Loops,
              (EndLoop(l) /\ l # Base) \/ (DestroyBaseLoop /\ l = Base)
       PROVE  Alive(d)' => Alive(d)
  <2>1. /\ queue' = [queue EXCEPT ![l] = <<>>] /\ connections_' = connections_
        /\ held' = held
    BY <1>5 DEF EndLoop, DestroyBaseLoop, mapVars
  <2>2. ToSet(queue'[l]) = {} /\ \A k \in Loops : k # l => queue'[k] = queue[k]
    BY <1>1, <2>1 DEF ToSet
  <2>3. \A k \in Loops : Refers(k, d)' => Refers(k, d)
    BY <2>1, <2>2 DEF Refers
  <2>4. QED
    BY <2>1, <2>3, AliveFacts
<1>6. CASE DestroyBaseLoop \/ \E l \in SubLoops : EndLoop(l)
  <2>1. DestroyBaseLoop => (Alive(d)' => Alive(d))
    BY <1>5
  <2>2. ASSUME NEW l \in SubLoops, EndLoop(l)
        PROVE  Alive(d)' => Alive(d)
    <3>1. l \in Loops /\ l # Base
      OBVIOUS
    <3>2. QED
      BY <1>5, <2>2, <3>1
  <2>3. QED
    BY <1>6, <2>1, <2>2 DEF Drops
<1>7. QED
  BY <1>3, <1>4, <1>6, AliveKept, AliveFrame DEF Drops
-----------------------------------------------------------------------------
(* The refinement of Sessions.                                             *)

(* The phase of a connection, case by case.                                *)
PhaseIs(c) ==
    PhaseOf(c) = IF c \notin Accepted THEN "none"
                 ELSE IF ~Alive(c) THEN "released"
                 ELSE IF told[c] = <<>> THEN "accepted"
                 ELSE IF told[c] = <<"UP">> THEN "up"
                 ELSE "down"

(* What the functors of a batch hold has been accepted.                    *)
HeldAccepted == \A l \in Loops : held[l] \subseteq Accepted \cup {0}

(* A functor is about a connection that was accepted, or about none.       *)
LEMMA HeldStep ==
  ASSUME Inv, HeldAccepted, [Next]_vars
  PROVE  HeldAccepted'
<1>1. /\ held \in [Loops -> SUBSET (Conns \cup {0})]
      /\ Next => Accepted \subseteq Accepted'
  BY AcceptedStep DEF Inv, Types
<1>2. CASE Next /\ held' = held
  BY <1>1, <1>2 DEF HeldAccepted
<1>3. ASSUME NEW l \in Loops, Next, CallFunctor(l)
      PROVE  HeldAccepted'
  <2>1. PICK fn : Calls(l, fn)
    BY <1>3, CallFrame
  <2>2. Head(queue[l]).conn \in Accepted \cup {0}
    BY <2>1, CallFacts DEF Inv, FunctorOK
  <2>3. held' = [held EXCEPT ![l] = @ \cup {Head(queue[l]).conn}]
    BY <2>1 DEF Calls
  <2>4. QED
    BY <1>1, <1>3, <2>2, <2>3 DEF HeldAccepted
<1>4. ASSUME NEW l \in Loops, Next, EndBatch(l)
      PROVE  HeldAccepted'
  BY <1>1, <1>4 DEF EndBatch, HeldAccepted
<1>5. CASE \/ CreateLoop \/ RunBaseLoop \/ QuitBaseLoop
           \/ \E i \in DOMAIN loops_ : QuitLoop(i)
           \/ \E l \in Loops : EnterLoop(l) \/ TakeBatch(l) \/ EndLoop(l)
           \/ DestroyBaseLoop
  <2>1. held' = held
    BY <1>5 DEF CreateLoop, RunBaseLoop, QuitBaseLoop, QuitLoop, EnterLoop, TakeBatch,
                EndLoop, DestroyBaseLoop
  <2>2. Next
    BY <1>5 DEF Next, StartStep, OwnerStep, RunBatch
  <2>3. QED
    BY <1>2, <2>1, <2>2
<1>6. CASE UNCHANGED vars
  BY <1>6 DEF vars, loopVars, acceptVars, HeldAccepted, Accepted
<1>7. CASE Next
  BY <1>2, <1>3, <1>4, <1>5, <1>7, AppendFrame
<1>8. QED
  BY <1>6, <1>7

(* A client that was not accepted has no connection.                       *)
LEMMA NotAliveYet ==
  ASSUME Inv, HeldAccepted, NEW c \in Conns, c \notin Accepted
  PROVE  ~Alive(c)
<1>1. c \notin connections_ /\ c # 0
  BY LoopsFacts DEF Inv, Types
<1>2. ASSUME NEW l \in Loops
      PROVE  ~Refers(l, c)
  BY <1>1 DEF Refers, HeldAccepted, Inv, QueueOK, FunctorOK
<1>3. QED
  BY <1>1, <1>2, AliveFacts

(* The application was told one of three things about each connection.     *)
LEMMA PhaseCases == Inv /\ HeldAccepted => \A c \in Conns : PhaseIs(c)
<1>1. /\ <<>> # <<"UP">> /\ <<>> # <<"UP", "DOWN">> /\ <<"UP">> # <<"UP", "DOWN">>
  OBVIOUS
<1>2. SUFFICES ASSUME Inv, HeldAccepted, NEW c \in Conns
               PROVE  PhaseIs(c)
  OBVIOUS
<1>3. told[c] \in {<<>>, <<"UP">>, <<"UP", "DOWN">>}
  BY <1>2 DEF Inv, Types
<1>4. CASE c \notin Accepted
  <2>1. ~Alive(c) /\ ~Released(c)
    BY <1>2, <1>4, NotAliveYet DEF Released
  <2>2. PhaseOf(c) = "none"
    BY <1>4, <2>1 DEF PhaseOf
  <2>3. QED
    BY <1>4, <2>2 DEF PhaseIs
<1>5. CASE c \in Accepted /\ ~Alive(c)
  <2>1. Released(c)
    BY <1>5 DEF Released
  <2>2. PhaseOf(c) = "released"
    BY <1>5, <2>1 DEF PhaseOf
  <2>3. QED
    BY <1>5, <2>2 DEF PhaseIs
<1>6. CASE c \in Accepted /\ Alive(c)
  <2>1. ~Released(c)
    BY <1>6 DEF Released
  <2>2. PhaseOf(c) = CASE told[c] = <<>> -> "accepted"
                       [] told[c] = <<"UP">> -> "up"
                       [] told[c] = <<"UP", "DOWN">> -> "down"
                       [] OTHER -> "error"
    BY <1>6, <2>1 DEF PhaseOf
  <2>3. QED
    BY <1>1, <1>3, <1>6, <2>2 DEF PhaseIs
<1>7. QED
  BY <1>4, <1>5, <1>6

(* A connection that nothing happened to keeps its phase.                  *)
LEMMA PhaseSame ==
  ASSUME NEW c \in Conns, PhaseIs(c), PhaseIs(c)',
         c \in Accepted' <=> c \in Accepted,
         c \in Accepted => /\ Alive(c)' <=> Alive(c)
                           /\ Alive(c) => told'[c] = told[c]
  PROVE  PhaseOf(c)' = PhaseOf(c)
BY DEF PhaseIs

(* A step that moves one connection.                                       *)
LEMMA OneMoves ==
  ASSUME NEW c \in Conns, NEW from, NEW to,
         PhaseOf(c) = from, PhaseOf(c)' = to,
         \A d \in Conns \ {c} : PhaseOf(d)' = PhaseOf(d),
         Destroying' <=> Destroying
  PROVE  Abstract!Move(c, from, to)
<1>1. Destroying' = Destroying
  BY DEF Destroying
<1>2. [d \in Conns |-> PhaseOf(d)]' =
        [[d \in Conns |-> PhaseOf(d)] EXCEPT ![c] = to]
  OBVIOUS
<1>3. QED
  BY <1>1, <1>2 DEF Abstract!Move

(* A step after which some connections are gone: those reported down, or   *)
(* any if the server is being destroyed.                                   *)
LEMMA SomeGo ==
  ASSUME NEW gone, gone \subseteq {c \in Accepted : Alive(c)}, Accepted \subseteq Conns,
         \A c \in Conns : PhaseIs(c),
         \A c \in Conns : PhaseOf(c)' = IF c \in gone THEN "released" ELSE PhaseOf(c),
         Destroying' <=> Destroying,
         Destroying \/ \A c \in gone : PhaseOf(c) = "down"
  PROVE  Abstract!Next
<1>1. Destroying' = Destroying
  BY DEF Destroying
<1>2. [c \in Conns |-> PhaseOf(c)]' =
        [c \in Conns |-> IF c \in gone THEN "released" ELSE [d \in Conns |-> PhaseOf(d)][c]]
  OBVIOUS
<1>3. gone \in SUBSET Abstract!Held
  BY DEF Abstract!Held, PhaseIs
<1>4. CASE Destroying
  BY <1>1, <1>2, <1>3, <1>4 DEF Abstract!Discard, Abstract!Next
<1>5. CASE \A c \in gone : PhaseOf(c) = "down"
  <2>1. gone \in SUBSET {c \in Abstract!Held : [d \in Conns |-> PhaseOf(d)][c] = "down"}
    BY <1>3, <1>5 DEF Abstract!Held
  <2>2. QED
    BY <1>1, <1>2, <2>1 DEF Abstract!Release, Abstract!Next
<1>6. QED
  BY <1>4, <1>5

(* The server begins to be destroyed once, in Destructor.                  *)
LEMMA StoppingFrame ==
  ASSUME Inv, Next
  PROVE  Destructor \/ (Destroying' <=> Destroying)
<1>1. CASE \/ StartByOwner \/ ListenByOwner \/ RunBaseLoop
           \/ DestroyPool \/ DestroyAcceptor \/ DestroyBaseLoop
  BY <1>1 DEF StartByOwner, ListenByOwner, RunBaseLoop, DestroyPool, DestroyAcceptor,
              DestroyBaseLoop, Destroying, Starting
<1>2. ASSUME NEW l \in Loops, EndLoop(l)
      PROVE  Destroying' <=> Destroying
  <2>1. CASE l = Base
    BY <1>2, <2>1 DEF EndLoop, Runs, Inv, LoopsOK, RunOK, Destroying
  <2>2. CASE l # Base
    BY <1>2, <2>2 DEF EndLoop, Destroying
  <2>3. QED
    BY <2>1, <2>2
<1>3. CASE opc' = opc
  BY <1>3 DEF Destroying
<1>4. QED
  BY <1>1, <1>2, <1>3, ControlFrame
  DEF CreateLoop, QuitBaseLoop, QuitLoop, EnterLoop

(* Nothing the application can see.                                        *)
LEMMA NothingMoves ==
  ASSUME \A c \in Conns : PhaseOf(c)' = PhaseOf(c), Destroying' <=> Destroying
  PROVE  UNCHANGED Abstract!vars
<1>1. Destroying' = Destroying
  BY DEF Destroying
<1>2. [c \in Conns |-> PhaseOf(c)]' = [c \in Conns |-> PhaseOf(c)]
  OBVIOUS
<1>3. QED
  BY <1>1, <1>2 DEF Abstract!vars

(* A step that takes away the last reference to some connections.          *)
LEMMA GoneStep ==
  ASSUME Inv, Next, \A c \in Conns : PhaseIs(c) /\ PhaseIs(c)',
         nextConnId_' = nextConnId_, Destroying' <=> Destroying,
         \A c \in Accepted : Alive(c)' => told'[c] = told[c],
         Destroying \/ \A c \in Accepted : Alive(c) /\ ~Alive(c)' => Down(c)
  PROVE  Abstract!Next
<1> DEFINE gone == {c \in Accepted : Alive(c) /\ ~Alive(c)'}
<1>1. Accepted \subseteq Conns /\ Accepted' = Accepted
  BY AcceptedFacts DEF Accepted, Inv
<1>2. \A c \in Accepted : Alive(c)' => Alive(c)
  BY AliveStep
<1>3. ASSUME NEW c \in Conns
      PROVE  PhaseOf(c)' = IF c \in gone THEN "released" ELSE PhaseOf(c)
  <2>1. CASE c \in gone
    BY <1>1, <1>3, <2>1 DEF PhaseIs
  <2>2. CASE c \notin gone
    <3>1. c \in Accepted => (Alive(c)' <=> Alive(c))
      BY <1>2, <2>2
    <3>2. QED
      BY <1>1, <1>3, <2>2, <3>1, PhaseSame
  <2>3. QED
    BY <2>1, <2>2
<1>4. Destroying \/ \A c \in gone : PhaseOf(c) = "down"
  <2>1. /\ <<"UP", "DOWN">> # <<>> /\ <<"UP", "DOWN">> # <<"UP">>
    OBVIOUS
  <2>2. QED
    BY <1>1, <2>1 DEF PhaseIs, Down
<1>5. gone \subseteq {c \in Accepted : Alive(c)}
  OBVIOUS
<1> HIDE DEF gone
<1>6. QED
  BY <1>1, <1>3, <1>4, <1>5, SomeGo

(* newConnection() accepts, and reports at once if there is no pool.       *)
LEMMA AcceptStep ==
  ASSUME Inv, AcceptOne, \A c \in Conns : PhaseIs(c) /\ PhaseIs(c)'
  PROVE  Abstract!Next
<1> USE LoopsFacts
<1>1. PICK c \in Conns : c = nextConnId_
  BY TcpServerAssumption DEF AcceptOne, Inv, LoopsOK, PoolOK, Types, Conns
<1>2. /\ c \notin Accepted /\ Accepted \subseteq Conns /\ Accepted' = Accepted \cup {c}
      /\ connections_' = connections_ \cup {c} /\ opc' = opc
  <2>1. nextConnId_' = c + 1 /\ connections_' = connections_ \cup {c} /\ opc' = opc
    BY <1>1 DEF AcceptOne, newConnection
  <2>2. Accepted' = Accepted \cup {c}
    BY <1>1, <2>1, TcpServerAssumption DEF Accepted, Inv, Types
  <2>3. QED
    BY <1>1, <2>1, <2>2, AcceptedFacts DEF Inv
<1>3. told[c] = <<>> /\ StateAgrees(c)
  BY <1>2 DEF Inv, StateAgrees
<1>4. /\ told'[c] = <<>> \/ told'[c] = <<"UP">>
      /\ \A d \in Conns \ {c} : told'[d] = told[d]
  <2>1. CASE getNextLoop.loop = Base
    <3>1. connectEstablished(c, Base)
      BY <1>1, <2>1 DEF AcceptOne, newConnection
    <3>2. QED
      BY <1>3, <3>1, MemberEffect DEF Inv
  <2>2. CASE getNextLoop.loop # Base
    BY <1>3, <2>2 DEF AcceptOne, newConnection, connVars
  <2>3. QED
    BY <2>1, <2>2
<1>5. Alive(c)'
  BY <1>2 DEF Alive
<1>6. /\ PhaseOf(c) = "none"
      /\ PhaseOf(c)' = "accepted" \/ PhaseOf(c)' = "up"
  <2>1. <<"UP">> # <<>>
    OBVIOUS
  <2>2. QED
    BY <1>2, <1>4, <1>5, <2>1 DEF PhaseIs
<1>7. ASSUME NEW d \in Conns \ {c}
      PROVE  PhaseOf(d)' = PhaseOf(d)
  <2>1. d \in Accepted => (Alive(d)' <=> Alive(d))
    BY AliveKept
  <2>2. QED
    BY <1>2, <1>4, <1>7, <2>1, PhaseSame
<1>8. ~Destroying /\ (Destroying' <=> Destroying)
  <2>1. opc = "loop"
    BY DEF AcceptOne, Handles, BetweenBatches, Inv, LoopsOK, RunOK
  <2>2. QED
    BY <1>2, <2>1 DEF Destroying
<1>9. Abstract!Move(c, "none", "accepted") \/ Abstract!Move(c, "none", "up")
  BY <1>6, <1>7, <1>8, OneMoves
<1>10. Cardinality(Abstract!Held) < MaxFds
  <2>1. Abstract!Held = {d \in Accepted : Alive(d)}
    <3>1. \A d \in Conns : PhaseOf(d) \notin {"none", "released"}
                             <=> d \in Accepted /\ Alive(d)
      BY DEF PhaseIs
    <3>2. QED
      BY <1>2, <3>1 DEF Abstract!Held
  <2>2. QED
    BY <2>1 DEF AcceptOne, FdsInUse
<1>11. Abstract!Cardinality(Abstract!Held) = Cardinality(Abstract!Held)
  BY DEF Abstract!Cardinality, Cardinality
<1>12. QED
  BY <1>1, <1>8, <1>9, <1>10, <1>11 DEF Abstract!Next, Abstract!Accept

(* A member function that tells the application something moves its        *)
(* connection.                                                             *)
LEMMA ToldStep ==
  ASSUME Inv, NEW c \in Accepted, Alive(c), opc' = opc, nextConnId_' = nextConnId_,
         \A d \in Conns : PhaseIs(d) /\ PhaseIs(d)',
         \A d \in Accepted : Alive(d)' <=> Alive(d),
         \A d \in Conns \ {c} : told'[d] = told[d],
         \/ told'[c] = told[c]
         \/ told[c] = <<>> /\ told'[c] = <<"UP">>
         \/ told[c] = <<"UP">> /\ told'[c] = <<"UP", "DOWN">>
  PROVE  [Abstract!Next]_(Abstract!vars)
<1>1. c \in Conns /\ Accepted' = Accepted /\ (Destroying' <=> Destroying)
  BY AcceptedFacts DEF Inv, Accepted, Destroying
<1>2. \A d \in Conns \ {c} : PhaseOf(d)' = PhaseOf(d)
  BY <1>1, PhaseSame
<1>3. /\ <<>> # <<"UP">> /\ <<>> # <<"UP", "DOWN">> /\ <<"UP">> # <<"UP", "DOWN">>
  OBVIOUS
<1>4. CASE told'[c] = told[c]
  <2>1. PhaseOf(c)' = PhaseOf(c)
    BY <1>1, <1>4, PhaseSame
  <2>2. QED
    BY <1>1, <1>2, <2>1, NothingMoves
<1>5. CASE told[c] = <<>> /\ told'[c] = <<"UP">>
  <2>1. PhaseOf(c) = "accepted" /\ PhaseOf(c)' = "up"
    BY <1>1, <1>3, <1>5 DEF PhaseIs
  <2>2. Abstract!ReportUp(c)
    BY <1>1, <1>2, <2>1, OneMoves DEF Abstract!ReportUp
  <2>3. QED
    BY <1>1, <2>2 DEF Abstract!Next
<1>6. CASE told[c] = <<"UP">> /\ told'[c] = <<"UP", "DOWN">>
  <2>1. PhaseOf(c) = "up" /\ PhaseOf(c)' = "down"
    BY <1>1, <1>3, <1>6 DEF PhaseIs
  <2>2. Abstract!ReportDown(c)
    BY <1>1, <1>2, <2>1, OneMoves DEF Abstract!ReportDown
  <2>3. QED
    BY <1>1, <2>2 DEF Abstract!Next
<1>7. QED
  BY <1>4, <1>5, <1>6

(* What ~TcpServer does to a connection that is the base loop's own may    *)
(* report it down, or give up the last reference to it, or both.           *)
LEMMA DropStep ==
  ASSUME Inv, Next, NEW c \in Conns, DropConnection(c),
         \A d \in Conns : PhaseIs(d) /\ PhaseIs(d)'
  PROVE  [Abstract!Next]_(Abstract!vars)
<1>1. /\ c \in Accepted /\ Destroying /\ opc' = opc /\ nextConnId_' = nextConnId_
      /\ connections_' = connections_ \ {c} /\ Alive(c) /\ held' = held
  BY DEF DropConnection, Inv, Types, Destroying, acceptVars, Alive
<1>2. Destroying' <=> Destroying
  BY <1>1 DEF Destroying
<1>3. CASE told' = told
  BY <1>1, <1>2, <1>3, GoneStep
<1>4. CASE connectDestroyed(c, Base) /\ queue' = queue
  <2>1. /\ \A d \in Conns \ {c} : told'[d] = told[d]
        /\ \/ told'[c] = told[c]
           \/ told[c] = <<"UP">> /\ told'[c] = <<"UP", "DOWN">>
    BY <1>4, MemberEffect, LoopsFacts DEF Inv
  <2>2. CASE ~Alive(c)'
    <3>1. \A d \in Accepted : Alive(d)' => told'[d] = told[d]
      BY <2>1, <2>2, AcceptedFacts DEF Inv
    <3>2. QED
      BY <1>1, <1>2, <3>1, GoneStep
  <2>3. CASE Alive(c)'
    <3>1. \A d \in Accepted : Alive(d)' <=> Alive(d)
      <4>1. ASSUME NEW d \in Accepted, d # c
            PROVE  Alive(d)' <=> Alive(d)
        BY <1>1, <1>4, <4>1, AliveFacts DEF Refers
      <4>2. QED
        BY <1>1, <2>3, <4>1
    <3>2. QED
      BY <1>1, <2>1, <3>1, ToldStep
  <2>4. QED
    BY <2>2, <2>3
<1>5. QED
  BY <1>3, <1>4 DEF DropConnection, connVars

(* A step that tells the application nothing.                              *)
LEMMA SilentStep ==
  ASSUME Inv, Next, \A c \in Conns : PhaseIs(c) /\ PhaseIs(c)',
         told' = told, nextConnId_' = nextConnId_, ~\E c \in Conns : DropConnection(c)
  PROVE  [Abstract!Next]_(Abstract!vars)
<1> USE LoopsFacts
<1>1. Accepted' = Accepted /\ Accepted \subseteq Conns
  BY AcceptedFacts DEF Accepted, Inv
<1>2. CASE Destructor
  <2>1. /\ UNCHANGED <<connections_, queue, held>>
        /\ opc' = "dtor"
    BY <1>2 DEF Destructor, mapVars, loopVars
  <2>2. \A c \in Accepted : Alive(c)' <=> Alive(c)
    BY <2>1, AliveKept
  <2>3. \A c \in Conns : PhaseOf(c)' = PhaseOf(c)
    BY <1>1, <2>2, PhaseSame
  <2>4. Destroying' = TRUE
    BY <2>1 DEF Destroying
  <2>5. [c \in Conns |-> PhaseOf(c)]' = [c \in Conns |-> PhaseOf(c)]
    BY <2>3
  <2>6. QED
    BY <2>4, <2>5 DEF Abstract!Next, Abstract!Stop
<1>3. CASE ~Destructor
  <2>1. Destroying' <=> Destroying
    BY <1>3, StoppingFrame
  <2>2. ASSUME NEW l \in Loops, EndBatch(l)
        PROVE  Abstract!Next
    <3>1. connections_' = connections_
      BY <2>2 DEF EndBatch, mapVars
    <3>2. ~Destroying => \A c \in Accepted : ~Alive(c)' => Down(c)
      BY <3>1, AliveFacts DEF Inv, Placed
    <3>3. QED
      BY <2>1, <3>2, GoneStep
  <2>3. ASSUME NEW l \in SubLoops, EndLoop(l)
        PROVE  Abstract!Next
    <3>1. Destroying
      BY <2>3 DEF EndLoop, Inv, LoopsOK, RunOK, Destroying
    <3>2. QED
      BY <2>1, <3>1, GoneStep
  <2>4. CASE DestroyBaseLoop
    <3>1. Destroying
      BY <2>4 DEF DestroyBaseLoop, Destroying
    <3>2. QED
      BY <2>1, <3>1, GoneStep
  <2>5. CASE \A c \in Conns : ~Drops(c)
    <3>1. \A c \in Accepted : Alive(c)' <=> Alive(c)
      BY <1>1, <2>5, AliveStep
    <3>2. \A c \in Conns : PhaseOf(c)' = PhaseOf(c)
      BY <1>1, <3>1, PhaseSame
    <3>3. QED
      BY <2>1, <3>2, NothingMoves
  <2>6. QED
    BY <2>2, <2>3, <2>4, <2>5 DEF Drops
<1>4. QED
  BY <1>2, <1>3

(* Every step of the server is one of Sessions, or none.                   *)
LEMMA RefineStep ==
  ASSUME Inv, [Next]_vars, \A c \in Conns : PhaseIs(c) /\ PhaseIs(c)'
  PROVE  [Abstract!Next]_(Abstract!vars)
<1> USE LoopsFacts
<1>1. CASE UNCHANGED vars
  <2>1. UNCHANGED <<connections_, queue, held, told, nextConnId_, opc>>
    BY <1>1 DEF vars, acceptVars, mapVars, connVars, loopVars
  <2>2. \A c \in Accepted : Alive(c)' <=> Alive(c)
    BY <2>1, AliveKept
  <2>3. \A c \in Conns : PhaseOf(c)' = PhaseOf(c)
    BY <2>1, <2>2, PhaseSame DEF Accepted
  <2>4. QED
    BY <2>1, <2>3, NothingMoves DEF Destroying
<1>2. CASE AcceptOne
  BY <1>2, AcceptStep
<1>3. ASSUME NEW l \in Loops, ConnectEstablished(l)
      PROVE  [Abstract!Next]_(Abstract!vars)
  <2>1. PICK c : c = Head(queue[l]).conn
    OBVIOUS
  <2>2. /\ c \in Accepted /\ c \in Conns /\ told[c] = <<>>
        /\ Pending(l, ToEstablish(c)) /\ connectEstablished(c, l)
    BY <1>3, <2>1, EstablishFacts, AcceptedFacts DEF Pending, Inv
  <2>3. Alive(c)
    BY <2>2, PendingAlive
  <2>4. told'[c] = <<"UP">> /\ \A d \in Conns \ {c} : told'[d] = told[d]
    BY <2>2, MemberEffect DEF Inv
  <2>5. opc' = opc /\ nextConnId_' = nextConnId_
    BY <1>3 DEF ConnectEstablished, acceptVars
  <2>6. \A d \in Accepted : Alive(d)' <=> Alive(d)
    BY <1>3, AliveKept
  <2>7. QED
    BY <2>2, <2>3, <2>4, <2>5, <2>6, ToldStep
<1>4. ASSUME NEW l \in Loops, ConnectDestroyed(l)
      PROVE  [Abstract!Next]_(Abstract!vars)
  <2>1. PICK c : c = Head(queue[l]).conn
    OBVIOUS
  <2>2. /\ c \in Accepted /\ c \in Conns
        /\ Pending(l, ToDestroy(c)) /\ connectDestroyed(c, l)
    BY <1>4, <2>1, DestroyFacts, AcceptedFacts DEF Pending, Inv
  <2>3. Alive(c)
    BY <2>2, PendingAlive
  <2>4. /\ \A d \in Conns \ {c} : told'[d] = told[d]
        /\ \/ told'[c] = told[c]
           \/ told[c] = <<"UP">> /\ told'[c] = <<"UP", "DOWN">>
    BY <2>2, MemberEffect DEF Inv
  <2>5. opc' = opc /\ nextConnId_' = nextConnId_
    BY <1>4 DEF ConnectDestroyed, acceptVars
  <2>6. \A d \in Accepted : Alive(d)' <=> Alive(d)
    BY <1>4, AliveKept
  <2>7. QED
    BY <2>2, <2>3, <2>4, <2>5, <2>6, ToldStep
<1>5. ASSUME NEW c \in Conns, HandleClose(c)
      PROVE  [Abstract!Next]_(Abstract!vars)
  <2>1. PICK io : io = ioLoop[c]
    OBVIOUS
  <2>2. /\ c \in Accepted /\ told[c] = <<"UP">> /\ io \in Loops
        /\ PollerExists(io) /\ registered[c] = "enabled" /\ handleClose(c, io)
        /\ opc' = opc /\ nextConnId_' = nextConnId_
    BY <1>5, <2>1, CloseFacts DEF HandleClose, acceptVars
  <2>3. Alive(c)
    <3>1. CASE c \in connections_
      BY <3>1 DEF Alive
    <3>2. CASE c \notin connections_
      BY <2>1, <2>2, <3>2, PendingAlive DEF Placed, Inv
    <3>3. QED
      BY <3>1, <3>2
  <2>4. told'[c] = <<"UP", "DOWN">> /\ \A d \in Conns \ {c} : told'[d] = told[d]
    BY <2>2, MemberEffect DEF Inv, Down
  <2>5. \A d \in Accepted : Alive(d)' <=> Alive(d)
    BY <1>5, AliveKept
  <2>6. QED
    BY <2>2, <2>3, <2>4, <2>5, ToldStep
<1>6. ASSUME NEW c \in Conns, DropConnection(c)
      PROVE  [Abstract!Next]_(Abstract!vars)
  <2>1. Next
    BY <1>6 DEF Next, OwnerStep
  <2>2. QED
    BY <1>6, <2>1, DropStep
<1>7. CASE Next /\ told' = told /\ nextConnId_' = nextConnId_
  BY <1>6, <1>7, SilentStep
<1>8. CASE Next
  <2>1. CASE Listen \/ RemoveConnectionInLoop \/ CreateLoop \/ ListenByOther
             \/ DestroyBaseLoop
    BY <1>7, <1>8, <2>1 DEF Listen, RemoveConnectionInLoop, CreateLoop, ListenByOther,
                            DestroyBaseLoop, acceptVars, connVars
  <2>2. CASE \E c \in Conns : HandleMessage(c)
    BY <1>7, <1>8, <2>2 DEF HandleMessage, acceptVars
  <2>3. CASE \E l \in SubLoops : EndLoop(l)
    BY <1>7, <1>8, <2>3 DEF EndLoop, acceptVars, connVars
  <2>4. CASE UNCHANGED <<loops_, numThreads_, nextConnId_, ioLoop, connections_,
                         state_, registered, told, ran, queue>>
    BY <1>7, <1>8, <2>4
  <2>5. QED
    BY <1>2, <1>3, <1>4, <1>5, <1>6, <1>8, <2>1, <2>2, <2>3, <2>4, ConnFrame
<1>9. QED
  BY <1>1, <1>8

(* To the application the server is what Sessions says: each connection is *)
(* accepted, reported up, reported down and released, in this order, with  *)
(* no more of them at a time than there are descriptors.                   *)
THEOREM Refinement == Spec => ImplementsSessions
<1>1. Spec => [](Inv /\ HeldAccepted)
  <2>1. Init => HeldAccepted
    BY DEF Init, HeldAccepted
  <2>2. QED
    BY <2>1, InvInit, InvStep, HeldStep, PTL DEF Spec, SafeSpec
<1>2. Init => Abstract!Init
  <2>1. SUFFICES ASSUME Init PROVE Abstract!Init
    OBVIOUS
  <2>2. HeldAccepted /\ Accepted = {}
    BY <2>1 DEF Init, HeldAccepted, Accepted
  <2>3. \A c \in Conns : PhaseOf(c) = "none"
    BY <2>1, <2>2, InvInit, PhaseCases DEF PhaseIs
  <2>4. Destroying = FALSE
    BY <2>1 DEF Init, Destroying
  <2>5. QED
    BY <2>3, <2>4 DEF Abstract!Init
<1>3. Inv /\ [Next]_vars /\ (\A c \in Conns : PhaseIs(c)) /\ (\A c \in Conns : PhaseIs(c))'
        => [Abstract!Next]_(Abstract!vars)
  BY RefineStep
<1>4. QED
  BY <1>1, <1>2, <1>3, PhaseCases, PTL DEF Spec, SafeSpec, ImplementsSessions,
                                           Abstract!Spec

=============================================================================
