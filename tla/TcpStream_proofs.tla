-------------------------- MODULE TcpStream_proofs --------------------------
(***************************************************************************)
(* Proof that the output of a TcpConnection is its messages, whole and in  *)
(* order, for any number of threads, messages and units, whatever part of  *)
(* the output each write() takes.                                          *)
(***************************************************************************)
EXTENDS TcpConnection_proofs

(* The data of a message, but for what has become of its memory.           *)
Block(d) ==
    /\ Len(d) = MsgLen
    /\ \A k \in 1 .. MsgLen :
          d[k].from = d[1].from /\ d[k].msg = d[1].msg /\ d[k].unit = k

(* The functors of q hold messages of other threads, those of each thread  *)
(* in the order in which it made them; it has made count[t].               *)
Lined(q, count) ==
    /\ \A i \in DOMAIN q : q[i].data # <<>> =>
          /\ Block(q[i].data)
          /\ q[i].data[1].from \in Threads
          /\ q[i].data[1].msg \in 1 .. count[q[i].data[1].from]
    /\ \A i, j \in DOMAIN q :
          /\ i < j /\ q[i].data # <<>> /\ q[j].data # <<>>
          /\ q[i].data[1].from = q[j].data[1].from
          => q[i].data[1].msg < q[j].data[1].msg

(* What each thread made is in s, whole and in order, or else in q, and    *)
(* what is in q comes later.                                               *)
Stream(s, q, count) ==
    /\ InOrder(s)
    /\ s # <<>> => s[Len(s)].unit = MsgLen
    /\ \A t \in AllThreads : \A n \in Nat :
          n \in 1 .. count[t] <=> InStream(s, t, n) \/ InQueue(q, t, n)
    /\ \A t \in AllThreads : \A n, m \in Nat :
          InStream(s, t, n) /\ InQueue(q, t, m) => n < m

(* The stream; whether the socket takes no more; whether output can still  *)
(* flow, as it does until then or until the connection is down.            *)
all == wire \o outputBuffer_
Closed == finSent \/ peer = "reset"
Flows == ~Closed /\ state_ # "kDisconnected" /\ overtaken = 0

(* The inductive invariant. What is in the queue is always in line; once   *)
(* the output no longer flows, only StreamInOrder is left of Stream.       *)
StreamInv ==
    /\ Lined(queue, sent)
    /\ StreamInOrder
    /\ Flows => Stream(all, queue, sent)

-----------------------------------------------------------------------------
(* InOrder(s), unit by unit.                                               *)
OrderedAt(s, i) ==
    /\ s[i].unit > 1 => /\ i > 1
                        /\ s[i - 1].from = s[i].from /\ s[i - 1].msg = s[i].msg
                        /\ s[i - 1].unit = s[i].unit - 1
    /\ s[i].unit = 1 =>
          /\ i > 1 => s[i - 1].unit = MsgLen
          /\ \A n \in Nat : n \in 1 .. s[i].msg - 1
               <=> \E j \in 1 .. i - 1 : s[j].from = s[i].from /\ s[j].msg = n

(* The two say the same.                                                   *)
LEMMA InOrderPointwise ==
  ASSUME NEW s \in Seq(UnitSet)
  PROVE  InOrder(s) <=> \A i \in 1 .. Len(s) : OrderedAt(s, i)
<1>1. /\ DOMAIN s = 1 .. Len(s) /\ Len(s) \in Nat
      /\ \A i \in 1 .. Len(s) : s[i] \in UnitSet
  BY LenProperties, ElementOfSeq
<1>2. ASSUME NEW i \in 1 .. Len(s)
      PROVE  {s[j].msg : j \in {k \in 1 .. i - 1 : s[k].from = s[i].from}}
                = 1 .. s[i].msg - 1
             <=> \A n \in Nat : n \in 1 .. s[i].msg - 1
                    <=> \E j \in 1 .. i - 1 : s[j].from = s[i].from /\ s[j].msg = n
  <2> DEFINE M == {s[j].msg : j \in {k \in 1 .. i - 1 : s[k].from = s[i].from}}
  <2>1. \A n : n \in M <=> \E j \in 1 .. i - 1 : s[j].from = s[i].from /\ s[j].msg = n
    OBVIOUS
  <2>2. \A n \in M : n \in Nat
    BY <1>1 DEF UnitSet
  <2>3. \A n \in 1 .. s[i].msg - 1 : n \in Nat
    OBVIOUS
  <2> HIDE DEF M
  <2>4. M = 1 .. s[i].msg - 1 <=> \A n \in Nat : n \in 1 .. s[i].msg - 1 <=> n \in M
    <3>1. ASSUME \A n \in Nat : n \in 1 .. s[i].msg - 1 <=> n \in M
          PROVE  M = 1 .. s[i].msg - 1
      <4>1. \A n : n \in M <=> n \in 1 .. s[i].msg - 1
        BY <2>2, <2>3, <3>1, Zenon
      <4>2. QED
        BY <4>1, Zenon
    <3>2. QED
      BY <3>1
  <2>5. QED
    BY <2>1, <2>4, Zenon DEF M
<1>3. QED
  BY <1>1, <1>2, Zenon DEF InOrder, OrderedAt

-----------------------------------------------------------------------------
(* What InOrder() says goes from a sequence to its beginning, and on with  *)
(* a message that is next.                                                 *)

LEMMA InOrderBeginning ==
  ASSUME NEW s \in Seq(UnitSet), NEW d \in Seq(UnitSet), InOrder(s \o d)
  PROVE  InOrder(s)
<1> DEFINE c == s \o d
<1>1. /\ c \in Seq(UnitSet) /\ Len(c) = Len(s) + Len(d)
      /\ \A i \in 1 .. Len(s) : c[i] = s[i]
  BY ConcatProperties
<1>2. Len(s) \in Nat /\ Len(d) \in Nat
  BY LenProperties
<1>3. \A i \in 1 .. Len(c) : OrderedAt(c, i)
  BY <1>1, InOrderPointwise, Zenon
<1> HIDE DEF c
<1>4. ASSUME NEW i \in 1 .. Len(s)
      PROVE  OrderedAt(s, i)
  <2>1. OrderedAt(c, i)
    BY <1>1, <1>2, <1>3
  <2>2. \A j \in 1 .. i - 1 : j \in 1 .. Len(s)
    BY <1>2
  <2>3. i > 1 => i - 1 \in 1 .. i - 1
    BY <1>2
  <2>4. /\ c[i] = s[i]
        /\ i > 1 => c[i - 1] = s[i - 1]
        /\ \A j \in 1 .. i - 1 : c[j] = s[j]
    BY <1>1, <2>2, <2>3
  <2>5. QED
    BY <2>1, <2>4 DEF OrderedAt
<1>5. QED
  BY <1>4, InOrderPointwise

(* The units of d are after those of s.                                    *)
LEMMA StreamGrows ==
  ASSUME NEW s \in Seq(UnitSet), NEW d \in Seq(UnitSet), Block(d)
  PROVE  /\ s \o d \in Seq(UnitSet)
         /\ s \o d # <<>> /\ (s \o d)[Len(s \o d)].unit = MsgLen
         /\ \A t, n : InStream(s \o d, t, n)
                        <=> \/ InStream(s, t, n)
                            \/ t = d[1].from /\ n = d[1].msg
<1> DEFINE c == s \o d
<1>1. /\ c \in Seq(UnitSet) /\ Len(c) = Len(s) + Len(d)
      /\ \A i \in 1 .. Len(s) : c[i] = s[i]
      /\ \A i \in Len(s) + 1 .. Len(s) + Len(d) : c[i] = d[i - Len(s)]
  BY ConcatProperties
<1>2. /\ Len(s) \in Nat /\ Len(d) \in Nat
      /\ DOMAIN s = 1 .. Len(s) /\ DOMAIN c = 1 .. Len(c)
  BY <1>1, LenProperties
<1>3. Len(d) = MsgLen /\ MsgLen \in Nat /\ MsgLen >= 1
  BY TcpConnectionAssumption DEF Block
<1>4. c[Len(c)].unit = MsgLen
  <2>1. c[Len(c)] = d[MsgLen]
    BY <1>1, <1>2, <1>3
  <2>2. QED
    BY <1>3, <2>1 DEF Block
<1>5. c # <<>>
  BY <1>1, <1>2, <1>3, EmptySeq
<1>6. \A i \in 1 .. Len(d) : c[Len(s) + i] = d[i]
  BY <1>1, <1>2
<1>7. ASSUME NEW t, NEW n
      PROVE  InStream(c, t, n)
               <=> InStream(s, t, n) \/ (t = d[1].from /\ n = d[1].msg)
  <2>1. ASSUME InStream(c, t, n)
        PROVE  InStream(s, t, n) \/ (t = d[1].from /\ n = d[1].msg)
    <3>1. PICK j \in 1 .. Len(c) : c[j].from = t /\ c[j].msg = n
      BY <1>2, <2>1 DEF InStream
    <3>2. CASE j \in 1 .. Len(s)
      BY <1>1, <1>2, <3>1, <3>2 DEF InStream
    <3>3. CASE j \notin 1 .. Len(s)
      <4>1. j - Len(s) \in 1 .. MsgLen /\ c[j] = d[j - Len(s)]
        BY <1>1, <1>2, <1>3, <3>3
      <4>2. QED
        BY <3>1, <4>1 DEF Block
    <3>4. QED
      BY <3>2, <3>3
  <2>2. ASSUME InStream(s, t, n)
        PROVE  InStream(c, t, n)
    BY <1>1, <1>2, <2>2 DEF InStream
  <2>3. ASSUME t = d[1].from, n = d[1].msg
        PROVE  InStream(c, t, n)
    <3>1. Len(s) + 1 \in DOMAIN c /\ c[Len(s) + 1] = d[1]
      BY <1>1, <1>2, <1>3, <1>6
    <3>2. QED
      BY <2>3, <3>1 DEF InStream
  <2>4. QED
    BY <2>1, <2>2, <2>3
<1>8. QED
  BY <1>1, <1>4, <1>5, <1>7

(* A message of a thread all of whose earlier ones are in s goes on it.    *)
LEMMA InOrderContinues ==
  ASSUME NEW s \in Seq(UnitSet), NEW d \in Seq(UnitSet), Block(d),
         InOrder(s), s # <<>> => s[Len(s)].unit = MsgLen,
         \A n \in Nat : n \in 1 .. d[1].msg - 1 <=> InStream(s, d[1].from, n)
  PROVE  InOrder(s \o d)
<1> DEFINE c == s \o d
<1>1. /\ c \in Seq(UnitSet) /\ Len(c) = Len(s) + Len(d)
      /\ \A i \in 1 .. Len(s) : c[i] = s[i]
      /\ \A i \in Len(s) + 1 .. Len(s) + Len(d) : c[i] = d[i - Len(s)]
  BY ConcatProperties
<1>2. /\ Len(s) \in Nat /\ Len(d) \in Nat
      /\ DOMAIN s = 1 .. Len(s)
  BY LenProperties
<1>3. Len(d) = MsgLen /\ MsgLen \in Nat /\ MsgLen >= 1
  BY TcpConnectionAssumption DEF Block
<1>4. ASSUME NEW i \in 1 .. Len(s)
      PROVE  OrderedAt(c, i)
  <2>1. OrderedAt(s, i)
    BY InOrderPointwise
  <2>2. \A j \in 1 .. i - 1 : j \in 1 .. Len(s)
    BY <1>2
  <2>3. i > 1 => i - 1 \in 1 .. i - 1
    BY <1>2
  <2>4. /\ c[i] = s[i]
        /\ i > 1 => c[i - 1] = s[i - 1]
        /\ \A j \in 1 .. i - 1 : c[j] = s[j]
    BY <1>1, <2>2, <2>3
  <2>5. QED
    BY <2>1, <2>4 DEF OrderedAt
<1>5. ASSUME NEW k \in 1 .. MsgLen
      PROVE  OrderedAt(c, Len(s) + k)
  <2> DEFINE i == Len(s) + k
  <2>1. i \in Len(s) + 1 .. Len(s) + Len(d) /\ i - Len(s) = k
    BY <1>2, <1>3
  <2>2. c[i] = d[k]
    BY <1>1, <2>1
  <2>3. c[i].from = d[1].from /\ c[i].msg = d[1].msg /\ c[i].unit = k
    BY <2>2 DEF Block
  <2>4. CASE k > 1
    <3>1. /\ i - 1 \in Len(s) + 1 .. Len(s) + Len(d) /\ (i - 1) - Len(s) = k - 1
          /\ k - 1 \in 1 .. MsgLen
      BY <1>2, <1>3, <2>4
    <3>2. c[i - 1] = d[k - 1]
      BY <1>1, <3>1
    <3>3. c[i - 1].from = d[1].from /\ c[i - 1].msg = d[1].msg /\ c[i - 1].unit = k - 1
      BY <3>1, <3>2 DEF Block
    <3>4. i > 1
      BY <1>2, <2>4
    <3>5. k \in Nat
      OBVIOUS
    <3> HIDE DEF i, c
    <3>6. OrderedAt(c, i)
      BY <2>3, <2>4, <3>3, <3>4, <3>5 DEF OrderedAt
    <3>7. QED
      BY <3>6 DEF i
  <2>5. CASE k = 1
    <3>1. i > 1 => c[i - 1].unit = MsgLen
      <4>1. SUFFICES ASSUME i > 1
                     PROVE  c[i - 1].unit = MsgLen
        OBVIOUS
      <4>2. Len(s) >= 1 /\ i - 1 = Len(s)
        BY <1>2, <2>5, <4>1
      <4>3. s # <<>>
        BY <4>2, EmptySeq
      <4>4. QED
        BY <1>1, <1>2, <4>2, <4>3
    <3>2. ASSUME NEW n \in Nat
          PROVE  n \in 1 .. c[i].msg - 1
                   <=> \E j \in 1 .. i - 1 : c[j].from = c[i].from /\ c[j].msg = n
      <4>1. 1 .. i - 1 = DOMAIN s
        BY <1>2, <2>5
      <4>2. \A j \in DOMAIN s : c[j] = s[j]
        BY <1>1, <1>2
      <4>3. n \in 1 .. d[1].msg - 1 <=> InStream(s, d[1].from, n)
        OBVIOUS
      <4> HIDE DEF c, i
      <4>4. QED
        BY <2>3, <4>1, <4>2, <4>3, Zenon DEF InStream
    <3>3. c[i].unit = 1
      BY <2>3, <2>5
    <3> HIDE DEF i, c
    <3>4. OrderedAt(c, i)
      <4>1. ~(c[i].unit > 1)
        BY <3>3
      <4>2. QED
        BY <3>1, <3>2, <4>1, Zenon DEF OrderedAt
    <3>5. QED
      BY <3>4 DEF i
  <2>6. QED
    BY <2>4, <2>5
<1>6. \A i \in 1 .. Len(c) : OrderedAt(c, i)
  <2>1. ASSUME NEW i \in 1 .. Len(c), i \notin 1 .. Len(s)
        PROVE  OrderedAt(c, i)
    <3>1. i - Len(s) \in 1 .. MsgLen /\ Len(s) + (i - Len(s)) = i
      BY <1>1, <1>2, <1>3, <2>1
    <3>2. QED
      BY <1>5, <3>1
  <2>2. QED
    BY <1>4, <2>1
<1>7. QED
  BY <1>1, <1>6, InOrderPointwise

-----------------------------------------------------------------------------
(* What steps do to the messages in the queue.                             *)

(* A functor's data is empty or its message; and with the head of a queue  *)
(* gone, what is left of it.                                               *)
LEMMA LineFacts ==
  ASSUME NEW q \in Seq(FunctorSet)
  PROVE  /\ DOMAIN q = 1 .. Len(q) /\ Len(q) \in Nat
         /\ \A i \in 1 .. Len(q) : q[i] \in FunctorSet /\ q[i].data \in Seq(UnitSet)
         /\ q # <<>> =>
              /\ Len(q) >= 1 /\ Head(q) = q[1]
              /\ Tail(q) \in Seq(FunctorSet) /\ DOMAIN Tail(q) = 1 .. Len(q) - 1
              /\ \A i \in 1 .. Len(q) - 1 : Tail(q)[i] = q[i + 1]
         /\ \A f \in FunctorSet :
              /\ Append(q, f) \in Seq(FunctorSet)
              /\ DOMAIN Append(q, f) = 1 .. Len(q) + 1
              /\ \A i \in 1 .. Len(q) : Append(q, f)[i] = q[i]
              /\ Append(q, f)[Len(q) + 1] = f
<1>1. /\ DOMAIN q = 1 .. Len(q) /\ Len(q) \in Nat
      /\ \A i \in 1 .. Len(q) : q[i] \in FunctorSet
  BY LenProperties, ElementOfSeq
<1>2. \A f \in FunctorSet : f.data \in Seq(UnitSet)
  <2>1. <<>> \in Seq(UnitSet)
    BY EmptySeq
  <2>2. QED
    BY <2>1 DEF FunctorSet
<1>3. ASSUME q # <<>>
      PROVE  /\ Len(q) >= 1 /\ Head(q) = q[1]
             /\ Tail(q) \in Seq(FunctorSet) /\ DOMAIN Tail(q) = 1 .. Len(q) - 1
             /\ \A i \in 1 .. Len(q) - 1 : Tail(q)[i] = q[i + 1]
  <2>1. /\ Head(q) = q[1]
        /\ Tail(q) \in Seq(FunctorSet) /\ Len(Tail(q)) = Len(q) - 1
        /\ \A i \in 1 .. Len(q) - 1 : Tail(q)[i] = q[i + 1]
    BY <1>1, <1>3, EmptySeq, HeadTailProperties
  <2>2. DOMAIN Tail(q) = 1 .. Len(Tail(q)) /\ Len(q) >= 1
    BY <1>1, <1>3, <2>1, LenProperties, EmptySeq
  <2>3. QED
    BY <2>1, <2>2
<1>4. ASSUME NEW f \in FunctorSet
      PROVE  /\ Append(q, f) \in Seq(FunctorSet)
             /\ DOMAIN Append(q, f) = 1 .. Len(q) + 1
             /\ \A i \in 1 .. Len(q) : Append(q, f)[i] = q[i]
             /\ Append(q, f)[Len(q) + 1] = f
  <2>1. /\ Append(q, f) \in Seq(FunctorSet)
        /\ Len(Append(q, f)) = Len(q) + 1
        /\ \A i \in 1 .. Len(q) : Append(q, f)[i] = q[i]
        /\ Append(q, f)[Len(q) + 1] = f
    BY AppendProperties
  <2>2. DOMAIN Append(q, f) = 1 .. Len(Append(q, f))
    BY <2>1, LenProperties
  <2>3. QED
    BY <2>1, <2>2
<1>5. QED
  BY <1>1, <1>2, <1>3, <1>4

(* A functor without data changes nothing of this.                         *)
LEMMA LineAppends ==
  ASSUME NEW q \in Seq(FunctorSet), NEW count, Lined(q, count), NEW fn \in PlainNames
  PROVE  /\ Lined(Append(q, Functor(fn)), count)
         /\ \A t, n : InQueue(Append(q, Functor(fn)), t, n) <=> InQueue(q, t, n)
<1> DEFINE f == Functor(fn)
           p == Append(q, f)
<1>1. f \in FunctorSet /\ f.data = <<>>
  BY PlainFunctor DEF Functor
<1>2. /\ DOMAIN q = 1 .. Len(q) /\ Len(q) \in Nat
      /\ DOMAIN p = 1 .. Len(q) + 1
      /\ \A i \in 1 .. Len(q) : p[i] = q[i]
      /\ p[Len(q) + 1] = f
  BY <1>1, LineFacts
<1> HIDE DEF f, p
<1>3. \A i \in DOMAIN p : p[i].data # <<>> => i \in DOMAIN q /\ p[i] = q[i]
  BY <1>1, <1>2
<1>4. \A i \in DOMAIN q : i \in DOMAIN p /\ p[i] = q[i]
  BY <1>2
<1>5. Lined(p, count)
  BY <1>3, Zenon DEF Lined
<1>6. \A t, n : InQueue(p, t, n) <=> InQueue(q, t, n)
  BY <1>3, <1>4, Zenon DEF InQueue, OwnString
<1>7. QED
  BY <1>5, <1>6 DEF p, f

(* The message of a new functor is in the queue afterwards.                *)
LEMMA QueueGrows ==
  ASSUME NEW q \in Seq(FunctorSet), NEW d \in Seq(UnitSet) \ {<<>>}
  PROVE  \A u, n : InQueue(Append(q, SendFunctor(d)), u, n)
                     <=> InQueue(q, u, n) \/ (u = d[1].from /\ n = d[1].msg)
<1> DEFINE f == SendFunctor(d)
           p == Append(q, f)
<1>1. f \in FunctorSet /\ f.data = d
  BY DEF SendFunctor, FunctorSet
<1>2. /\ DOMAIN q = 1 .. Len(q) /\ Len(q) \in Nat
      /\ DOMAIN p = 1 .. Len(q) + 1
      /\ \A i \in 1 .. Len(q) : p[i] = q[i]
      /\ p[Len(q) + 1] = f
  BY <1>1, LineFacts
<1> HIDE DEF f, p
<1>3. \A i \in DOMAIN p : \/ i \in DOMAIN q /\ p[i] = q[i]
                          \/ i = Len(q) + 1 /\ p[i].data = d
  BY <1>1, <1>2
<1>4. \A i \in DOMAIN q : i \in DOMAIN p /\ p[i] = q[i]
  BY <1>2
<1>5. ASSUME NEW u, NEW n
      PROVE  InQueue(p, u, n) <=> InQueue(q, u, n) \/ (u = d[1].from /\ n = d[1].msg)
  <2>1. Len(q) + 1 \in DOMAIN p /\ p[Len(q) + 1].data = d
    BY <1>1, <1>2
  <2>2. ASSUME u = d[1].from, n = d[1].msg
        PROVE  InQueue(p, u, n)
    BY <2>1, <2>2, Zenon DEF InQueue, OwnString
  <2>3. InQueue(q, u, n) => InQueue(p, u, n)
    BY <1>4, Zenon DEF InQueue
  <2>4. ASSUME InQueue(p, u, n)
        PROVE  InQueue(q, u, n) \/ (u = d[1].from /\ n = d[1].msg)
    <3>1. PICK j \in DOMAIN p : OwnString(u, p[j]) /\ p[j].data[1].msg = n
      BY <2>4 DEF InQueue
    <3>2. CASE j \in DOMAIN q /\ p[j] = q[j]
      BY <3>1, <3>2 DEF InQueue
    <3>3. CASE p[j].data = d
      BY <3>1, <3>3 DEF OwnString
    <3>4. QED
      BY <1>3, <3>2, <3>3
  <2>5. QED
    BY <2>2, <2>3, <2>4
<1>6. QED
  BY <1>5 DEF p, f

(* The next message of a thread goes behind its other ones.                *)
LEMMA LineAppendsMessage ==
  ASSUME NEW q \in Seq(FunctorSet), NEW count \in [AllThreads -> Nat], Lined(q, count),
         NEW t \in Threads, NEW d \in Seq(UnitSet) \ {<<>>}, Block(d),
         d[1].from = t, d[1].msg = count[t] + 1
  PROVE  Lined(Append(q, SendFunctor(d)), [count EXCEPT ![t] = @ + 1])
<1> DEFINE f == SendFunctor(d)
           p == Append(q, f)
           more == [count EXCEPT ![t] = @ + 1]
<1>0. t \in AllThreads /\ Threads \subseteq AllThreads
  BY DEF AllThreads
<1>1. f \in FunctorSet /\ f.data = d
  BY DEF SendFunctor, FunctorSet
<1>2. /\ DOMAIN q = 1 .. Len(q) /\ Len(q) \in Nat
      /\ DOMAIN p = 1 .. Len(q) + 1
      /\ \A i \in 1 .. Len(q) : p[i] = q[i]
      /\ p[Len(q) + 1] = f
  BY <1>1, LineFacts
<1>3. /\ \A u \in AllThreads : more[u] \in Nat /\ count[u] \in Nat /\ more[u] >= count[u]
      /\ more[t] = count[t] + 1
  BY <1>0
<1> HIDE DEF f, p, more
<1>4. \A i \in DOMAIN p : \/ i \in DOMAIN q /\ p[i] = q[i]
                          \/ i = Len(q) + 1 /\ p[i].data = d
  BY <1>1, <1>2
<1>5. ASSUME NEW i \in DOMAIN p, p[i].data # <<>>
      PROVE  /\ Block(p[i].data)
             /\ p[i].data[1].from \in Threads
             /\ p[i].data[1].msg \in 1 .. more[p[i].data[1].from]
  <2>1. CASE i \in DOMAIN q /\ p[i] = q[i]
    <3>1. /\ Block(p[i].data) /\ p[i].data[1].from \in Threads
          /\ p[i].data[1].msg \in 1 .. count[p[i].data[1].from]
      BY <1>5, <2>1 DEF Lined
    <3>2. QED
      BY <1>0, <1>3, <3>1
  <2>2. CASE p[i].data = d
    BY <1>0, <1>3, <2>2
  <2>3. QED
    BY <1>4, <1>5, <2>1, <2>2
<1>6. ASSUME NEW i \in DOMAIN p, NEW j \in DOMAIN p, i < j,
             p[i].data # <<>>, p[j].data # <<>>,
             p[i].data[1].from = p[j].data[1].from
      PROVE  p[i].data[1].msg < p[j].data[1].msg
  <2>1. i \in DOMAIN q /\ p[i] = q[i]
    BY <1>2, <1>6
  <2>2. CASE j \in DOMAIN q /\ p[j] = q[j]
    BY <1>6, <2>1, <2>2 DEF Lined
  <2>3. CASE p[j].data = d
    <3>1. p[i].data[1].msg \in 1 .. count[t]
      BY <1>6, <2>1, <2>3 DEF Lined
    <3>2. QED
      BY <1>0, <1>3, <2>3, <3>1
  <2>4. QED
    BY <1>4, <2>2, <2>3
<1>7. Lined(p, more)
  BY <1>5, <1>6 DEF Lined
<1>8. QED
  BY <1>7 DEF p, f, more

(* The first functor leaves; if it has data, the messages of the same      *)
(* thread behind it are later ones.                                        *)
LEMMA LineMoves ==
  ASSUME NEW q \in Seq(FunctorSet), NEW count, Lined(q, count), q # <<>>
  PROVE  /\ Lined(Tail(q), count)
         /\ \A t, n : InQueue(q, t, n) <=> \/ InQueue(Tail(q), t, n)
                                           \/ /\ OwnString(t, Head(q))
                                              /\ Head(q).data[1].msg = n
         /\ \A t, n : InQueue(Tail(q), t, n) /\ OwnString(t, Head(q))
                        => Head(q).data[1].msg < n
<1> DEFINE p == Tail(q)
<1>1. /\ DOMAIN q = 1 .. Len(q) /\ Len(q) \in Nat /\ Len(q) >= 1 /\ Head(q) = q[1]
      /\ DOMAIN p = 1 .. Len(q) - 1
      /\ \A i \in 1 .. Len(q) - 1 : p[i] = q[i + 1]
  BY LineFacts
<1> HIDE DEF p
<1>2. \A i \in DOMAIN p : i + 1 \in DOMAIN q /\ p[i] = q[i + 1] /\ 1 < i + 1
  BY <1>1
<1>3. \A i \in DOMAIN q : i = 1 \/ (i - 1 \in DOMAIN p /\ p[i - 1] = q[i])
  BY <1>1
<1>4. \A i, j \in DOMAIN p : i < j => i + 1 < j + 1
  BY <1>1
<1>5. Lined(p, count)
  <2>1. ASSUME NEW i \in DOMAIN p, NEW j \in DOMAIN p, i < j,
               p[i].data # <<>>, p[j].data # <<>>,
               p[i].data[1].from = p[j].data[1].from
        PROVE  p[i].data[1].msg < p[j].data[1].msg
    <3>1. /\ i + 1 \in DOMAIN q /\ j + 1 \in DOMAIN q /\ i + 1 < j + 1
          /\ p[i] = q[i + 1] /\ p[j] = q[j + 1]
      BY <1>2, <1>4, <2>1
    <3>2. QED
      BY <2>1, <3>1, Zenon DEF Lined
  <2>2. QED
    BY <1>2, <2>1, Zenon DEF Lined
<1>6. ASSUME NEW t, NEW n
      PROVE  InQueue(q, t, n) <=> \/ InQueue(p, t, n)
                                  \/ OwnString(t, Head(q)) /\ Head(q).data[1].msg = n
  <2>1. 1 \in DOMAIN q
    BY <1>1
  <2>2. InQueue(p, t, n) => InQueue(q, t, n)
    BY <1>2 DEF InQueue
  <2>3. OwnString(t, Head(q)) /\ Head(q).data[1].msg = n => InQueue(q, t, n)
    BY <1>1, <2>1 DEF InQueue
  <2>4. ASSUME InQueue(q, t, n)
        PROVE  InQueue(p, t, n) \/ (OwnString(t, Head(q)) /\ Head(q).data[1].msg = n)
    <3>1. PICK i \in DOMAIN q : OwnString(t, q[i]) /\ q[i].data[1].msg = n
      BY <2>4 DEF InQueue
    <3>2. CASE i = 1
      BY <1>1, <3>1, <3>2
    <3>3. CASE i - 1 \in DOMAIN p /\ p[i - 1] = q[i]
      BY <3>1, <3>3 DEF InQueue
    <3>4. QED
      BY <1>3, <3>2, <3>3
  <2>5. QED
    BY <2>2, <2>3, <2>4
<1>7. ASSUME NEW t, NEW n, InQueue(p, t, n), OwnString(t, Head(q))
      PROVE  Head(q).data[1].msg < n
  <2>1. PICK j \in DOMAIN p : OwnString(t, p[j]) /\ p[j].data[1].msg = n
    BY <1>7 DEF InQueue
  <2>2. j + 1 \in DOMAIN q /\ p[j] = q[j + 1] /\ 1 < j + 1 /\ 1 \in DOMAIN q
    BY <1>1, <1>2
  <2>3. /\ q[1].data # <<>> /\ q[1].data[1].from = t
        /\ q[j + 1].data # <<>> /\ q[j + 1].data[1].from = t /\ q[j + 1].data[1].msg = n
    BY <1>1, <1>7, <2>1, <2>2 DEF OwnString
  <2>4. q[1].data[1].msg < n
    BY <2>2, <2>3 DEF Lined
  <2>5. QED
    BY <1>1, <2>4
<1>8. QED
  BY <1>5, <1>6, <1>7 DEF p

(* What becomes of the memory of data does not matter.                     *)
LEMMA LineStays ==
  ASSUME NEW q \in Seq(FunctorSet), NEW p \in Seq(FunctorSet), NEW count,
         Lined(q, count), Len(p) = Len(q), \A i \in 1 .. Len(q) : SameFunctor(p[i], q[i])
  PROVE  /\ Lined(p, count)
         /\ \A t, n : InQueue(p, t, n) <=> InQueue(q, t, n)
<1>1. /\ DOMAIN q = 1 .. Len(q) /\ DOMAIN p = 1 .. Len(q)
      /\ \A i \in 1 .. Len(q) : p[i].data \in Seq(UnitSet) /\ q[i].data \in Seq(UnitSet)
  BY LineFacts
<1>2. ASSUME NEW i \in 1 .. Len(q)
      PROVE  /\ p[i].data # <<>> <=> q[i].data # <<>>
             /\ q[i].data # <<>> => /\ p[i].data[1].from = q[i].data[1].from
                                    /\ p[i].data[1].msg = q[i].data[1].msg
             /\ q[i].data # <<>> /\ Block(q[i].data) => Block(p[i].data)
  <2> DEFINE d == q[i].data
             e == p[i].data
  <2>1. /\ Len(d) = Len(e) /\ Len(d) \in Nat
        /\ d # <<>> <=> Len(d) # 0
        /\ e # <<>> <=> Len(e) # 0
        /\ \A k \in 1 .. Len(d) : /\ e[k].from = d[k].from /\ e[k].msg = d[k].msg
                                  /\ e[k].unit = d[k].unit
    BY <1>1, LenProperties, EmptySeq DEF SameFunctor
  <2> HIDE DEF d, e
  <2>2. d # <<>> => 1 \in 1 .. Len(d)
    BY <2>1
  <2>3. d # <<>> /\ Block(d) => Block(e)
    BY <2>1, <2>2 DEF Block
  <2>4. QED
    BY <2>1, <2>2, <2>3 DEF d, e
<1>3. Lined(p, count)
  BY <1>1, <1>2 DEF Lined
<1>4. ASSUME NEW t, NEW n
      PROVE  InQueue(p, t, n) <=> InQueue(q, t, n)
  BY <1>1, <1>2 DEF InQueue, OwnString
<1>5. QED
  BY <1>3, <1>4

-----------------------------------------------------------------------------
(* What steps do to the stream.                                            *)

(* The message that is first in the queue is next in the stream.           *)
LEMMA StreamMoves ==
  ASSUME NEW s \in Seq(UnitSet), NEW q \in Seq(FunctorSet), q # <<>>,
         NEW count \in [AllThreads -> Nat],
         Lined(q, count), Stream(s, q, count), Head(q).data # <<>>
  PROVE  Stream(s \o Head(q).data, Tail(q), count)
<1> DEFINE d == Head(q).data
           u == d[1].from
           m == d[1].msg
           r == Tail(q)
<1>1. /\ Head(q) = q[1] /\ 1 \in DOMAIN q /\ d \in Seq(UnitSet)
  BY LineFacts
<1>2. Block(d) /\ u \in Threads /\ m \in 1 .. count[u]
  BY <1>1 DEF Lined
<1>3. u \in AllThreads /\ count[u] \in Nat /\ m \in Nat
  BY <1>2 DEF AllThreads
<1>4. \A t : OwnString(t, Head(q)) <=> t = u
  BY DEF OwnString
<1>5. /\ \A t, n : InQueue(q, t, n) <=> InQueue(r, t, n) \/ (t = u /\ n = m)
      /\ \A n : InQueue(r, u, n) => m < n
  BY <1>4, LineMoves
<1>6. /\ \A t \in AllThreads : \A n \in Nat :
            n \in 1 .. count[t] <=> InStream(s, t, n) \/ InQueue(q, t, n)
      /\ \A t \in AllThreads : \A n, k \in Nat :
            InStream(s, t, n) /\ InQueue(q, t, k) => n < k
      /\ InOrder(s)
      /\ s # <<>> => s[Len(s)].unit = MsgLen
  BY DEF Stream
<1>7. /\ s \o d # <<>> /\ (s \o d)[Len(s \o d)].unit = MsgLen
      /\ \A t, n : InStream(s \o d, t, n) <=> InStream(s, t, n) \/ (t = u /\ n = m)
  BY <1>1, <1>2, StreamGrows
<1> HIDE DEF d, u, m, r
<1>8. \A n \in Nat : n \in 1 .. m - 1 <=> InStream(s, u, n)
  <2>1. ASSUME NEW n \in Nat, n \in 1 .. m - 1
        PROVE  InStream(s, u, n)
    <3>1. n \in 1 .. count[u] /\ n < m
      BY <1>2, <1>3, <2>1
    <3>2. InStream(s, u, n) \/ InQueue(q, u, n)
      BY <1>3, <1>6, <3>1
    <3>3. ~InQueue(q, u, n)
      BY <1>3, <1>5, <3>1
    <3>4. QED
      BY <3>2, <3>3
  <2>2. ASSUME NEW n \in Nat, InStream(s, u, n)
        PROVE  n \in 1 .. m - 1
    <3>1. n \in 1 .. count[u]
      BY <1>3, <1>6, <2>2
    <3>2. n < m
      BY <1>3, <1>5, <1>6, <2>2
    <3>3. QED
      BY <1>3, <3>1, <3>2
  <2>3. QED
    BY <2>1, <2>2
<1>9. InOrder(s \o d)
  BY <1>1, <1>2, <1>6, <1>8, InOrderContinues DEF u, m
<1>10. \A t \in AllThreads : \A n \in Nat :
          n \in 1 .. count[t] <=> InStream(s \o d, t, n) \/ InQueue(r, t, n)
  BY <1>5, <1>6, <1>7
<1>11. ASSUME NEW t \in AllThreads, NEW n \in Nat, NEW k \in Nat,
              InStream(s \o d, t, n), InQueue(r, t, k)
       PROVE  n < k
  <2>1. InQueue(q, t, k)
    BY <1>5, <1>11
  <2>2. CASE InStream(s, t, n)
    BY <1>6, <1>11, <2>1, <2>2
  <2>3. CASE t = u /\ n = m
    BY <1>5, <1>11, <2>3
  <2>4. QED
    BY <1>7, <1>11, <2>2, <2>3
<1>12. QED
  BY <1>7, <1>9, <1>10, <1>11 DEF Stream, d, r

(* What LoopThread sends does not wait in the queue.                       *)
LEMMA LineMore ==
  ASSUME NEW q \in Seq(FunctorSet), NEW count \in [AllThreads -> Nat], Lined(q, count)
  PROVE  Lined(q, [count EXCEPT ![LoopThread] = @ + 1])
<1> DEFINE u == LoopThread
           more == [count EXCEPT ![u] = @ + 1]
<1>1. u \notin Threads /\ Threads \subseteq AllThreads
  BY TcpConnectionAssumption DEF AllThreads
<1>2. \A t \in AllThreads : t # u => more[t] = count[t]
  OBVIOUS
<1>3. \A i \in DOMAIN q : q[i].data # <<>> => q[i].data[1].from \in AllThreads
                                              /\ q[i].data[1].from # u
  BY <1>1 DEF Lined
<1>4. ASSUME NEW i \in DOMAIN q, q[i].data # <<>>
      PROVE  q[i].data[1].msg \in 1 .. more[q[i].data[1].from]
  <2>1. more[q[i].data[1].from] = count[q[i].data[1].from]
    BY <1>2, <1>3, <1>4
  <2>2. QED
    BY <1>4, <2>1, Zenon DEF Lined
<1> HIDE DEF more
<1>5. Lined(q, more)
  BY <1>4, Zenon DEF Lined
<1>6. QED
  BY <1>5 DEF more

(* LoopThread has none in the queue: its next message goes on at once.     *)
LEMMA StreamSends ==
  ASSUME NEW s \in Seq(UnitSet), NEW q \in Seq(FunctorSet),
         NEW count \in [AllThreads -> Nat],
         Lined(q, count), Stream(s, q, count),
         NEW d \in Seq(UnitSet), Block(d),
         d[1].from = LoopThread, d[1].msg = count[LoopThread] + 1
  PROVE  Stream(s \o d, q, [count EXCEPT ![LoopThread] = @ + 1])
<1> DEFINE u == LoopThread
           more == [count EXCEPT ![u] = @ + 1]
<1>1. u \in AllThreads /\ u \notin Threads /\ Threads \subseteq AllThreads
  BY TcpConnectionAssumption DEF AllThreads
<1>2. /\ count[u] \in Nat /\ more[u] = count[u] + 1
      /\ \A t \in AllThreads : t # u => more[t] = count[t]
  BY <1>1
<1>3. \A n : ~InQueue(q, u, n)
  BY <1>1, Zenon DEF InQueue, OwnString, Lined
<1>4. /\ \A t \in AllThreads : \A n \in Nat :
            n \in 1 .. count[t] <=> InStream(s, t, n) \/ InQueue(q, t, n)
      /\ \A t \in AllThreads : \A n, k \in Nat :
            InStream(s, t, n) /\ InQueue(q, t, k) => n < k
      /\ InOrder(s)
      /\ s # <<>> => s[Len(s)].unit = MsgLen
  BY DEF Stream
<1>5. /\ s \o d # <<>> /\ (s \o d)[Len(s \o d)].unit = MsgLen
      /\ \A t, n : InStream(s \o d, t, n)
                     <=> InStream(s, t, n) \/ (t = u /\ n = count[u] + 1)
  BY StreamGrows
<1>6. InOrder(s \o d)
  <2>1. \A n \in Nat : n \in 1 .. count[u] <=> InStream(s, u, n)
    BY <1>1, <1>3, <1>4
  <2>2. d[1].msg - 1 = count[u]
    BY <1>2
  <2>3. QED
    BY <1>4, <2>1, <2>2, InOrderContinues
<1> HIDE DEF more
<1>7. ASSUME NEW t \in AllThreads, NEW n \in Nat
      PROVE  n \in 1 .. more[t] <=> InStream(s \o d, t, n) \/ InQueue(q, t, n)
  <2>1. CASE t # u
    BY <1>2, <1>4, <1>5, <2>1
  <2>2. CASE t = u
    <3>1. /\ n \in 1 .. more[u] <=> n \in 1 .. count[u] \/ n = count[u] + 1
          /\ u \in AllThreads
      <4> HIDE DEF u
      <4>1. QED
        BY <1>1, <1>2
    <3>2. QED
      BY <1>4, <1>5, <2>2, <3>1
  <2>3. QED
    BY <2>1, <2>2
<1>8. ASSUME NEW t \in AllThreads, NEW n \in Nat, NEW k \in Nat,
             InStream(s \o d, t, n), InQueue(q, t, k)
      PROVE  n < k
  BY <1>3, <1>4, <1>5, <1>8
<1>9. QED
  BY <1>5, <1>6, <1>7, <1>8 DEF Stream, more

(* The next message of another thread goes behind what is in the queue.    *)
LEMMA StreamQueues ==
  ASSUME NEW s \in Seq(UnitSet), NEW q \in Seq(FunctorSet),
         NEW count \in [AllThreads -> Nat],
         Lined(q, count), Stream(s, q, count),
         NEW t \in Threads, NEW d \in Seq(UnitSet) \ {<<>>}, Block(d),
         d[1].from = t, d[1].msg = count[t] + 1
  PROVE  Stream(s, Append(q, SendFunctor(d)), [count EXCEPT ![t] = @ + 1])
<1> DEFINE p == Append(q, SendFunctor(d))
           more == [count EXCEPT ![t] = @ + 1]
<1>1. t \in AllThreads
  BY DEF AllThreads
<1>2. /\ count[t] \in Nat /\ more[t] = count[t] + 1
      /\ \A u \in AllThreads : u # t => more[u] = count[u]
  BY <1>1
<1>3. \A u, n : InQueue(p, u, n) <=> InQueue(q, u, n) \/ (u = t /\ n = count[t] + 1)
  BY QueueGrows
<1>4. /\ \A u \in AllThreads : \A n \in Nat :
            n \in 1 .. count[u] <=> InStream(s, u, n) \/ InQueue(q, u, n)
      /\ \A u \in AllThreads : \A n, k \in Nat :
            InStream(s, u, n) /\ InQueue(q, u, k) => n < k
      /\ InOrder(s)
      /\ s # <<>> => s[Len(s)].unit = MsgLen
  BY DEF Stream
<1> HIDE DEF p, more
<1>5. ASSUME NEW u \in AllThreads, NEW n \in Nat
      PROVE  n \in 1 .. more[u] <=> InStream(s, u, n) \/ InQueue(p, u, n)
  <2>1. CASE u # t
    BY <1>2, <1>3, <1>4, <2>1
  <2>2. CASE u = t
    <3>1. n \in 1 .. more[t] <=> n \in 1 .. count[t] \/ n = count[t] + 1
      BY <1>2
    <3>2. QED
      BY <1>3, <1>4, <2>2, <3>1
  <2>3. QED
    BY <2>1, <2>2
<1>6. ASSUME NEW u \in AllThreads, NEW n \in Nat, NEW k \in Nat,
             InStream(s, u, n), InQueue(p, u, k)
      PROVE  n < k
  <2>1. CASE InQueue(q, u, k)
    BY <1>4, <1>6, <2>1
  <2>2. CASE u = t /\ k = count[t] + 1
    <3>1. n \in 1 .. count[t]
      BY <1>1, <1>4, <1>6, <2>2
    <3>2. QED
      BY <1>2, <2>2, <3>1
  <2>3. QED
    BY <1>3, <1>6, <2>1, <2>2
<1>7. QED
  BY <1>4, <1>5, <1>6 DEF Stream, p, more

(* Nothing else matters to it.                                             *)
LEMMA StreamStays ==
  ASSUME NEW s, NEW q, NEW p, NEW count, Stream(s, q, count),
         \A t, n : InQueue(p, t, n) <=> InQueue(q, t, n)
  PROVE  Stream(s, p, count)
BY Zenon DEF Stream

-----------------------------------------------------------------------------
(* What steps do to the wire, the output, and whether they go on.          *)

(* \o is associative.                                                      *)
LEMMA Associates ==
  ASSUME NEW S
  PROVE  \A a, b, c \in Seq(S) : (a \o b) \o c = a \o (b \o c)
<1>1. ASSUME NEW a \in Seq(S), NEW b \in Seq(S), NEW c \in Seq(S)
      PROVE  (a \o b) \o c = a \o (b \o c)
  BY ConcatAssociative, SMTT(30)
<1>2. QED
  BY <1>1, Zenon

(* What sendInLoop() keeps is, with what it writes, behind all the rest.   *)
LEMMA KeepsAll ==
  ASSUME Types, NEW data \in Seq(UnitSet), NEW rest, NEW k \in 0 .. Len(data),
         Keeps(data, rest, k)
  PROVE  all' = all \o data
<1> DEFINE front == SubSeq(data, 1, k)
           kept == Kept(data, k)
<1>0. \A a, b, c \in Seq(UnitSet) : (a \o b) \o c = a \o (b \o c)
  BY Associates, SMTT(30)
<1>1. wire \in Seq(UnitSet) /\ outputBuffer_ \in Seq(UnitSet)
  BY DEF Types
<1>2. front \in Seq(UnitSet) /\ kept \in Seq(UnitSet)
  BY CutFacts DEF Kept
<1>3. front \o kept = data
  BY CutFacts DEF Kept
<1>4. /\ wire' = wire \o front /\ outputBuffer_' = outputBuffer_ \o kept
      /\ k > 0 => outputBuffer_ = <<>>
  BY DEF Keeps, keepRemaining, nothingPending
<1> HIDE DEF front, kept
<1>5. (wire \o front) \o kept = wire \o (front \o kept)
  BY <1>0, <1>1, <1>2, ZenonT(40)
<1>6. wire \o (outputBuffer_ \o data) = (wire \o outputBuffer_) \o data
  BY <1>0, <1>1, ZenonT(40)
<1>7. CASE k > 0
  <2>1. outputBuffer_' = kept /\ all = wire
    BY <1>1, <1>2, <1>4, <1>7, ConcatEmptySeq DEF all
  <2>2. all' = (wire \o front) \o kept
    BY <1>4, <2>1 DEF all
  <2>3. QED
    BY <1>3, <1>5, <2>1, <2>2
<1>8. CASE ~(k > 0)
  <2>1. k = 0
    BY <1>8, LenProperties
  <2>2. front = <<>>
    BY <2>1, SubSeqEmpty DEF front
  <2>3. kept = data
    BY <1>2, <1>3, <2>2, ConcatEmptySeq
  <2>4. wire' = wire
    BY <1>1, <1>4, <2>2, ConcatEmptySeq
  <2>5. all' = wire \o (outputBuffer_ \o data)
    BY <1>4, <2>3, <2>4 DEF all
  <2>6. QED
    BY <1>6, <2>5 DEF all
<1>9. QED
  BY <1>7, <1>8

(* handleWrite() only moves the boundary between the two.                  *)
LEMMA WritesAll ==
  ASSUME Types, NEW n \in 1 .. Len(outputBuffer_), WritesSome(n)
  PROVE  all' = all
<1> DEFINE front == SubSeq(outputBuffer_, 1, n)
           kept == Kept(outputBuffer_, n)
<1>1. n \in 0 .. Len(outputBuffer_)
  OBVIOUS
<1>2. /\ wire \in Seq(UnitSet) /\ front \in Seq(UnitSet) /\ kept \in Seq(UnitSet)
      /\ front \o kept = outputBuffer_
  BY <1>1, CutFacts DEF Types, Kept
<1>3. all' = (wire \o front) \o kept
  BY DEF WritesSome, all
<1>4. (wire \o front) \o kept = wire \o (front \o kept)
  BY <1>2, ConcatAssociative, SMTT(30)
<1>5. QED
  BY <1>2, <1>3, <1>4 DEF all

(* A socket that takes no more does not start again, and a state_ that was *)
(* overtaken stays so.                                                     *)
LEMMA ClosedStays ==
  ASSUME Life, [Next]_vars
  PROVE  /\ Closed => Closed'
         /\ overtaken' = 0 => overtaken = 0
<1>1. finSent => finSent'
  <2>1. CASE ShutdownInLoop
    BY <2>1, Zenon DEF ShutdownInLoop, shutdownInLoop
  <2>2. CASE LoopShutdown
    BY <2>2, Zenon DEF LoopShutdown, shutdownInLoop
  <2>3. CASE handleWrite
    BY <2>3, Zenon DEF handleWrite, outputGone
  <2>4. CASE ~ShutdownInLoop /\ ~LoopShutdown /\ ~handleWrite
    <3>1. UNCHANGED finSent
      BY <2>4, Steps
         DEF connectEstablished, SendInLoop, CallBack, connectDestroyed, Poll, handleRead,
             handleError, HandleClose, RemoveConnection, ServerDrops, LoopSend,
             ThreadAction, BeginCall, QueueSend, StoreDisconnecting, QueueShutdown,
             FreeStrings, Peer, vars, appVars
    <3>2. QED
      BY <3>1
  <2>5. QED
    BY <2>1, <2>2, <2>3, <2>4
<1>2. peer = "reset" => peer' = "reset"
  <2>1. CASE Peer
    BY <2>1 DEF Peer, PeerReads, PeerSends, PeerCloses, PeerResets
  <2>2. CASE ~Peer
    <3>1. UNCHANGED peer
      BY <2>2, Steps
         DEF connectEstablished, SendInLoop, ShutdownInLoop, CallBack, connectDestroyed,
             Poll, handleWrite, handleRead, handleError, HandleClose, RemoveConnection,
             ServerDrops, LoopSend, LoopShutdown, ThreadAction, BeginCall, QueueSend,
             StoreDisconnecting, QueueShutdown, FreeStrings, vars, appVars, kernelVars
    <3>2. QED
      BY <3>1
  <2>3. QED
    BY <2>1, <2>2
<1>3. overtaken' = 0 => overtaken = 0
  <2>1. overtaken \in Nat /\ (Ends \/ Overtakes \/ GoesOn)
    BY StateEffects DEF Life, Types
  <2>2. QED
    BY <2>1 DEF Ends, Overtakes, GoesOn
<1>4. QED
  BY <1>1, <1>2, <1>3 DEF Closed

(* Output that flows after a step did so before.                           *)
LEMMA FlowsBefore ==
  ASSUME Life, [Next]_vars, Flows'
  PROVE  Flows
<1>1. ~Closed /\ overtaken = 0 /\ overtaken' = 0 /\ state_' # "kDisconnected"
  BY ClosedStays DEF Flows
<1>2. state_ # "kDisconnected"
  <2>1. Ends \/ Overtakes \/ GoesOn
    BY StateEffects DEF Life
  <2>2. QED
    BY <1>1, <2>1 DEF Ends, Overtakes, GoesOn
<1>3. QED
  BY <1>1, <1>2 DEF Flows

(* But for the three steps of send(), none changes which messages wait.    *)
LEMMA QuietSteps ==
  ASSUME Types, Lined(queue, sent), [Next]_vars,
         ~SendInLoop, ~LoopSend, \A t \in Threads : ~QueueSend(t)
  PROVE  /\ sent' = sent
         /\ Lined(queue', sent)
         /\ \A t, n : InQueue(queue', t, n) <=> InQueue(queue, t, n)
<1> DEFINE Goal == /\ Lined(queue', sent)
                   /\ \A t, n : InQueue(queue', t, n) <=> InQueue(queue, t, n)
<1>1. queue \in Seq(FunctorSet)
  BY DEF Types
<1>2. sent' = sent
  <2>1. \A t \in Threads : ThreadAction(t) => sent' = sent
    BY DEF ThreadAction, BeginCall, StoreDisconnecting, QueueShutdown, FreeStrings,
           threadVars
  <2>2. QED
    BY <2>1, Steps
       DEF connectEstablished, ShutdownInLoop, CallBack, connectDestroyed, Poll,
           handleWrite, handleRead, handleError, HandleClose, RemoveConnection, ServerDrops,
           LoopShutdown, Peer, vars, threadVars
<1> SUFFICES Goal
  BY <1>2
<1>3. CASE queue' = queue
  BY <1>3
<1>4. ASSUME NEW fn \in PlainNames, queue' = Append(queue, Functor(fn))
      PROVE  Goal
  <2>1. /\ Lined(Append(queue, Functor(fn)), sent)
        /\ \A t, n : InQueue(Append(queue, Functor(fn)), t, n) <=> InQueue(queue, t, n)
    BY <1>1, LineAppends
  <2>2. QED
    BY <1>4, <2>1
<1>5. CASE \E fn \in PlainNames : RunsNext(fn) /\ queue' = Tail(queue)
  <2>1. queue # <<>> /\ Head(queue) \in FunctorSet /\ Head(queue).fn \in PlainNames
    BY <1>5, QueueFacts DEF RunsNext
  <2>2. Head(queue).data = <<>>
    BY <2>1 DEF FunctorSet, PlainNames
  <2>3. \A t : ~OwnString(t, Head(queue))
    BY <2>2 DEF OwnString
  <2>4. /\ Lined(Tail(queue), sent)
        /\ \A t, n : InQueue(queue, t, n) <=> InQueue(Tail(queue), t, n)
    BY <1>1, <2>1, <2>3, LineMoves
  <2>5. QED
    BY <1>5, <2>4
<1>6. ASSUME NEW t \in Threads, FreeStrings(t)
      PROVE  Goal
  <2>1. /\ queue' \in Seq(FunctorSet) /\ Len(queue') = Len(queue)
        /\ \A i \in 1 .. Len(queue) : SameFunctor(queue'[i], queue[i])
    BY <1>6, FreedFacts
  <2>2. QED
    BY <1>1, <2>1, LineStays
<1>7. CASE connectEstablished \/ ShutdownInLoop \/ CallBack \/ connectDestroyed
  BY <1>5, <1>7 DEF connectEstablished, ShutdownInLoop, CallBack, connectDestroyed,
                    PlainNames
<1>8. CASE handleWrite
  BY <1>3, <1>4, <1>8, WriteCases DEF WritesNothing, WritesSome, outputGone, PlainNames
<1>9. CASE RemoveConnection \/ ServerDrops
  BY <1>4, <1>9 DEF RemoveConnection, ServerDrops, PlainNames
<1>10. CASE \/ Poll \/ handleRead \/ handleError \/ HandleClose \/ LoopShutdown \/ Peer
            \/ UNCHANGED vars
  BY <1>3, <1>10 DEF Poll, handleRead, handleError, HandleClose, LoopShutdown, Peer, vars
<1>11. ASSUME NEW t \in Threads, ThreadAction(t)
       PROVE  Goal
  <2>1. CASE BeginCall(t) \/ StoreDisconnecting(t)
    BY <1>3, <2>1 DEF BeginCall, StoreDisconnecting
  <2>2. CASE QueueShutdown(t)
    BY <1>4, <2>2 DEF QueueShutdown, PlainNames
  <2>3. QED
    BY <1>6, <1>11, <2>1, <2>2 DEF ThreadAction
<1>12. QED
  BY <1>7, <1>8, <1>9, <1>10, <1>11, Steps

(* A message is a block.                                                   *)
LEMMA MessageIsBlock ==
  ASSUME NEW t \in AllThreads, NEW n \in Nat
  PROVE  /\ Block(Message(t, n))
         /\ Message(t, n)[1].from = t /\ Message(t, n)[1].msg = n
<1>1. 1 \in 1 .. MsgLen
  BY TcpConnectionAssumption
<1>2. /\ Len(Message(t, n)) = MsgLen
      /\ \A k \in 1 .. MsgLen : /\ Message(t, n)[k].from = t
                                /\ Message(t, n)[k].msg = n
                                /\ Message(t, n)[k].unit = k
  <2>1. /\ Len(Message(t, n)) = MsgLen
        /\ \A k \in 1 .. MsgLen : Message(t, n)[k] = Unit(t, n, k)
    BY MessageFacts
  <2>2. \A k \in 1 .. MsgLen : /\ Unit(t, n, k).from = t /\ Unit(t, n, k).msg = n
                              /\ Unit(t, n, k).unit = k
    BY DEF Unit
  <2>3. QED
    BY <2>1, <2>2
<1>3. QED
  BY <1>1, <1>2 DEF Block

-----------------------------------------------------------------------------
(* The invariant.                                                          *)

(* The wire and the output as sequences, and what a write() of sendInLoop()*)
(* that goes on needs.                                                     *)
LEMMA AllFacts ==
  ASSUME Types
  PROVE  /\ all \in Seq(UnitSet) /\ wire \in Seq(UnitSet) /\ outputBuffer_ \in Seq(UnitSet)
         /\ queue \in Seq(FunctorSet) /\ sent \in [AllThreads -> Nat]
         /\ written = IF Closed THEN wire ELSE all
  BY ConcatProperties DEF Types, all, written, Closed

(* While output flows, sendInLoop() does not give up; and it changes none  *)
(* of what stops the flow.                                                 *)
LEMMA FlowsOn ==
  ASSUME Flows
  PROVE  /\ \A rest : ~GivesUp(rest)
         /\ SendInLoop \/ LoopSend => (overtaken' = 0 => Flows') /\ ~Closed'
<1>1. \A rest : ~GivesUp(rest)
  BY DEF Flows, Closed, GivesUp
<1>2. SendInLoop \/ LoopSend => UNCHANGED <<state_, finSent, peer, overtaken>>
  BY DEF SendInLoop, LoopSend, kernelVars
<1>3. QED
  BY <1>1, <1>2 DEF Flows, Closed

(* What sendInLoop() leaves of the queue.                                  *)
LEMMA LineSends ==
  ASSUME NEW data, NEW rest \in Seq(FunctorSet), NEW count, Lined(rest, count),
         GivesUp(rest) \/ \E k \in 0 .. Len(data) : Keeps(data, rest, k)
  PROVE  /\ Lined(queue', count)
         /\ \A t, n : InQueue(queue', t, n) <=> InQueue(rest, t, n)
<1>1. queue' = rest \/ \E fn \in PlainNames : queue' = Append(rest, Functor(fn))
  BY DEF GivesUp, Keeps, QueuesAfter, PlainNames
<1>2. ASSUME NEW fn \in PlainNames, queue' = Append(rest, Functor(fn))
      PROVE  /\ Lined(queue', count)
             /\ \A t, n : InQueue(queue', t, n) <=> InQueue(rest, t, n)
  <2>1. /\ Lined(Append(rest, Functor(fn)), count)
        /\ \A t, n : InQueue(Append(rest, Functor(fn)), t, n) <=> InQueue(rest, t, n)
    BY LineAppends
  <2>2. QED
    BY <1>2, <2>1
<1>3. QED
  BY <1>1, <1>2

(* SendInLoop(): the first message of the queue goes on, if output flows.  *)
LEMMA SendInLoopStream ==
  ASSUME Life, Lined(queue, sent), SendInLoop
  PROVE  /\ Lined(queue', sent')
         /\ Flows /\ Stream(all, queue, sent) => Stream(all', queue', sent')
<1> DEFINE data == Head(queue).data
           rest == Tail(queue)
<1>1. /\ queue # <<>> /\ sent' = sent /\ Types
  BY DEF SendInLoop, RunsNext, threadVars, Life
<1>2. /\ data \in Seq(UnitSet) \ {<<>>} /\ rest \in Seq(FunctorSet)
      /\ GivesUp(rest) \/ \E k \in 0 .. Len(data) : Keeps(data, rest, k)
  BY <1>1, SendInLoopCalls
<1>3. /\ all \in Seq(UnitSet) /\ queue \in Seq(FunctorSet) /\ sent \in [AllThreads -> Nat]
  BY <1>1, AllFacts
<1>4. Lined(rest, sent)
  BY <1>1, <1>3, LineMoves
<1>5. /\ Lined(queue', sent)
      /\ \A t, n : InQueue(queue', t, n) <=> InQueue(rest, t, n)
  <2> HIDE DEF data, rest
  <2>1. QED
    BY <1>2, <1>4, LineSends
<1>6. ASSUME Flows, Stream(all, queue, sent)
      PROVE  Stream(all', queue', sent)
  <2>1. PICK k \in 0 .. Len(data) : Keeps(data, rest, k)
    BY <1>2, <1>6, FlowsOn
  <2>2. all' = all \o data
    BY <1>1, <1>2, <2>1, KeepsAll
  <2>3. Stream(all \o data, rest, sent)
    BY <1>1, <1>2, <1>3, <1>6, StreamMoves
  <2> HIDE DEF data, rest
  <2>4. Stream(all \o data, queue', sent)
    BY <1>5, <2>3, StreamStays
  <2>5. QED
    BY <2>2, <2>4
<1>7. QED
  BY <1>1, <1>5, <1>6

(* LoopSend: the new message of LoopThread goes on, if output flows; it    *)
(* waits for nothing, as LoopThread puts nothing in the queue.             *)
LEMMA LoopSendStream ==
  ASSUME Life, Lined(queue, sent), LoopSend
  PROVE  /\ Lined(queue', sent')
         /\ Flows /\ Stream(all, queue, sent) => Stream(all', queue', sent')
<1> DEFINE n == sent[LoopThread] + 1
           data == Message(LoopThread, n)
           more == [sent EXCEPT ![LoopThread] = @ + 1]
<1>1. Types /\ LoopThread \in AllThreads
  BY DEF Life, AllThreads
<1>2. /\ sent' = more /\ n \in Nat
      /\ data \in Seq(UnitSet)
      /\ GivesUp(queue) \/ \E k \in 0 .. Len(data) : Keeps(data, queue, k)
  BY <1>1, LoopSendCalls
<1>3. /\ all \in Seq(UnitSet) /\ queue \in Seq(FunctorSet) /\ sent \in [AllThreads -> Nat]
  BY <1>1, AllFacts
<1>4. Block(data) /\ data[1].from = LoopThread /\ data[1].msg = sent[LoopThread] + 1
  BY <1>1, <1>2, MessageIsBlock
<1>5. Lined(queue, more)
  BY <1>3, LineMore
<1>6. /\ Lined(queue', more)
      /\ \A u, m : InQueue(queue', u, m) <=> InQueue(queue, u, m)
  <2> HIDE DEF data, more
  <2>1. QED
    BY <1>2, <1>3, <1>5, LineSends
<1>7. ASSUME Flows, Stream(all, queue, sent)
      PROVE  Stream(all', queue', more)
  <2>1. PICK k \in 0 .. Len(data) : Keeps(data, queue, k)
    BY <1>2, <1>7, FlowsOn
  <2>2. all' = all \o data
    BY <1>1, <1>2, <2>1, KeepsAll
  <2> HIDE DEF data
  <2>3. Stream(all \o data, queue, more)
    BY <1>2, <1>3, <1>4, <1>7, StreamSends
  <2> HIDE DEF more
  <2>4. Stream(all \o data, queue', more)
    BY <1>6, <2>3, StreamStays
  <2>5. QED
    BY <2>2, <2>4
<1>8. QED
  BY <1>2, <1>6, <1>7

(* QueueSend(t): the new message of t is the last in the queue.            *)
LEMMA QueueSendStream ==
  ASSUME Life, Lined(queue, sent), NEW t \in Threads, QueueSend(t)
  PROVE  /\ Lined(queue', sent')
         /\ Stream(all, queue, sent) => Stream(all', queue', sent')
<1> DEFINE n == sent[t] + 1
           data == Message(t, n)
           more == [sent EXCEPT ![t] = @ + 1]
<1>1. Types /\ t \in AllThreads
  BY DEF Life, AllThreads
<1>2. /\ all \in Seq(UnitSet) /\ queue \in Seq(FunctorSet) /\ sent \in [AllThreads -> Nat]
  BY <1>1, AllFacts
<1>3. /\ sent' = more /\ n \in Nat
      /\ queue' = Append(queue, SendFunctor(data))
      /\ UNCHANGED <<wire, outputBuffer_>>
  BY <1>1, <1>2 DEF QueueSend, appVars
<1>4. /\ Block(data) /\ data[1].from = t /\ data[1].msg = sent[t] + 1
      /\ data \in Seq(UnitSet) \ {<<>>}
  BY <1>1, <1>3, MessageIsBlock, MessageFacts
<1>5. all' = all
  BY <1>3 DEF all
<1> HIDE DEF data
<1>6. Lined(queue', sent')
  BY <1>2, <1>3, <1>4, LineAppendsMessage
<1>7. Stream(all, queue, sent) => Stream(all, queue', sent')
  BY <1>2, <1>3, <1>4, StreamQueues
<1>8. QED
  BY <1>5, <1>6, <1>7

(* The steps that neither send nor write leave the wire and the output.    *)
LEMMA OutputStays ==
  ASSUME [Next]_vars, ~SendInLoop, ~LoopSend, ~handleWrite
  PROVE  UNCHANGED <<wire, outputBuffer_>>
BY Steps
   DEF connectEstablished, ShutdownInLoop, CallBack, connectDestroyed, Poll, handleRead,
       handleError, HandleClose, RemoveConnection, ServerDrops, LoopShutdown, ThreadAction,
       BeginCall, QueueSend, StoreDisconnecting, QueueShutdown, FreeStrings, Peer, vars,
       appVars

(* What handleWrite() writes, it writes while output flows.                *)
LEMMA WriteFlows ==
  ASSUME Life, overtaken = 0, NEW n \in 1 .. Len(outputBuffer_), WritesSome(n)
  PROVE  Flows
<1>1. ~Closed /\ isWriting
  BY DEF WritesSome, Closed
<1>2. state_ # "kDisconnected"
  BY <1>1 DEF Life, Final, isWriting
<1>3. QED
  BY <1>1, <1>2 DEF Flows

(* Every step keeps the messages in the queue in order ...                 *)
LEMMA LinedStep ==
  ASSUME Life, Lined(queue, sent), [Next]_vars
  PROVE  Lined(queue', sent')
<1>1. CASE \E t \in Threads : QueueSend(t)
  BY <1>1, QueueSendStream
<1>2. CASE ~\E t \in Threads : QueueSend(t)
  BY <1>2, SendInLoopStream, LoopSendStream, QuietSteps DEF Life
<1>3. QED
  BY <1>1, <1>2

(* ... and, as long as output flows, all that goes on or waits to.         *)
LEMMA FlowStep ==
  ASSUME Life, StreamInv, [Next]_vars, Flows
  PROVE  Stream(all', queue', sent')
<1>1. Types /\ Lined(queue, sent) /\ Stream(all, queue, sent)
  BY DEF Life, StreamInv
<1>2. CASE \E t \in Threads : QueueSend(t)
  BY <1>1, <1>2, QueueSendStream
<1>3. CASE SendInLoop \/ LoopSend
  BY <1>1, <1>3, SendInLoopStream, LoopSendStream
<1>4. CASE ~SendInLoop /\ ~LoopSend /\ ~\E t \in Threads : QueueSend(t)
  <2>1. sent' = sent /\ \A t, n : InQueue(queue', t, n) <=> InQueue(queue, t, n)
    BY <1>1, <1>4, QuietSteps
  <2>2. all' = all
    <3>1. CASE handleWrite
      <4>1. CASE WritesNothing
        BY <4>1 DEF WritesNothing, all
      <4>2. CASE ~WritesNothing
        BY <1>1, <3>1, <4>2, WriteCases, WritesAll
      <4>3. QED
        BY <4>1, <4>2
    <3>2. CASE ~handleWrite
      BY <1>4, <3>2, OutputStays DEF all
    <3>3. QED
      BY <3>1, <3>2
  <2>3. Stream(all, queue', sent)
    BY <1>1, <2>1, StreamStays
  <2>4. QED
    BY <2>1, <2>2, <2>3
<1>5. QED
  BY <1>2, <1>3, <1>4

(* Every step keeps the invariant: while output flows, because the stream  *)
(* grows by what is next; and afterwards, because the wire stays.          *)
LEMMA StreamStep ==
  ASSUME Life, StreamInv, [Next]_vars
  PROVE  StreamInv'
<1>1. Types /\ Lined(queue, sent)
  BY DEF Life, StreamInv
<1>2. Types'
  BY <1>1, TypesStep
<1>3. Lined(queue', sent')
  BY <1>1, LinedStep
<1>4. Flows' => Stream(all', queue', sent')
  BY FlowsBefore, FlowStep
<1>5. ASSUME overtaken' = 0
      PROVE  InOrder(written')
  <2>1. overtaken = 0 /\ InOrder(written)
    BY <1>5, ClosedStays DEF StreamInv, StreamInOrder
  <2>2. /\ written = IF Closed THEN wire ELSE all
        /\ wire \in Seq(UnitSet) /\ outputBuffer_ \in Seq(UnitSet)
    BY <1>1, AllFacts
  <2>3. /\ wire' \in Seq(UnitSet) /\ outputBuffer_' \in Seq(UnitSet)
        /\ all' = wire' \o outputBuffer_'
        /\ Closed' => written' = wire'
        /\ ~Closed' => written' = all'
    BY <1>2 DEF Types, all, written, Closed
  <2>4. ASSUME InOrder(all')
        PROVE  InOrder(written')
    <3>1. InOrder(wire')
      BY <2>3, <2>4, InOrderBeginning
    <3>2. QED
      BY <2>3, <2>4, <3>1
  <2>5. CASE Flows
    <3>1. InOrder(all')
      BY <2>5, FlowStep DEF Stream
    <3>2. QED
      BY <2>4, <3>1
  <2>6. CASE ~Flows
    <3>1. UNCHANGED wire /\ (~Closed => UNCHANGED outputBuffer_)
      <4>1. ASSUME NEW data \in Seq(UnitSet), NEW rest,
                   GivesUp(rest) \/ \E k \in 0 .. Len(data) : Keeps(data, rest, k)
            PROVE  UNCHANGED wire /\ (~Closed => UNCHANGED outputBuffer_)
        <5>1. CASE GivesUp(rest)
          BY <5>1 DEF GivesUp
        <5>2. ASSUME NEW k \in 0 .. Len(data), Keeps(data, rest, k)
              PROVE  UNCHANGED wire /\ Closed
          <6>1. Closed
            BY <2>1, <2>6, <5>2 DEF Keeps, Flows
          <6>2. k = 0
            BY <5>2, <6>1, LenProperties DEF Keeps, Closed
          <6>3. SubSeq(data, 1, k) = <<>>
            BY <6>2, SubSeqEmpty
          <6>4. QED
            BY <2>2, <5>2, <6>1, <6>3, ConcatEmptySeq DEF Keeps
        <5>3. QED
          BY <4>1, <5>1, <5>2
      <4>2. CASE SendInLoop
        BY <1>1, <4>1, <4>2, SendInLoopCalls
      <4>3. CASE LoopSend
        BY <1>1, <4>1, <4>3, LoopSendCalls
      <4>4. CASE handleWrite
        BY <1>1, <2>1, <2>6, <4>4, WriteCases, WriteFlows DEF WritesNothing
      <4>5. QED
        BY <4>2, <4>3, <4>4, OutputStays
    <3>2. CASE Closed
      BY <2>1, <2>2, <2>3, <3>1, <3>2, ClosedStays
    <3>3. CASE ~Closed
      <4>1. all' = all
        BY <3>1, <3>3 DEF all
      <4>2. QED
        BY <2>1, <2>2, <2>4, <3>3, <4>1
    <3>4. QED
      BY <3>2, <3>3
  <2>7. QED
    BY <2>5, <2>6
<1>6. QED
  BY <1>3, <1>4, <1>5 DEF StreamInv, StreamInOrder

(* In the beginning there is nothing.                                      *)
LEMMA StreamInit == Init => StreamInv
<1> SUFFICES ASSUME Init
             PROVE  StreamInv
  OBVIOUS
<1>1. Types
  BY LifeInit DEF Life
<1>2. wire = <<>> /\ outputBuffer_ = <<>> /\ \A t \in AllThreads : sent[t] = 0
  BY DEF Init
<1>3. queue = <<Functor("connectEstablished")>>
  BY DEF Init
<1>4. \A i \in DOMAIN queue : queue[i].data = <<>>
  BY <1>3 DEF Functor
<1>5. Lined(queue, sent) /\ \A t, n : ~InQueue(queue, t, n)
  BY <1>4 DEF Lined, InQueue, OwnString
<1>6. all = <<>> /\ DOMAIN all = {}
  <2>1. all = <<>>
    BY <1>1, <1>2, ConcatEmptySeq DEF all, Types
  <2>2. QED
    BY <1>1, <2>1, AllFacts, LenProperties, EmptySeq
<1>7. InOrder(all) /\ \A t, n : ~InStream(all, t, n)
  BY <1>6 DEF InOrder, InStream
<1>8. Stream(all, queue, sent)
  BY <1>2, <1>5, <1>6, <1>7 DEF Stream
<1>9. StreamInOrder
  BY <1>1, <1>2, <1>6, <1>7, AllFacts DEF StreamInOrder
<1>10. QED
  BY <1>5, <1>8, <1>9 DEF StreamInv

(* The invariant holds in every state.                                     *)
LEMMA StreamInvariant == SafeSpec => []StreamInv
<1>1. Life /\ StreamInv /\ [Next]_vars => StreamInv'
  BY StreamStep
<1>2. QED
  BY <1>1, StreamInit, LifeCorrect, PTL DEF SafeSpec

(* What the socket has taken and what waits for it is, for each thread, its*)
(* messages in the order it sent them with none left out and none torn     *)
(* apart, whichever of the three ways its units went and whatever part of  *)
(* them each write() took - unless a shutdown() overwrote kDisconnected.   *)
THEOREM StreamCorrect == SafeSpec => []StreamInOrder
<1>1. StreamInv => StreamInOrder
  BY DEF StreamInv
<1>2. QED
  BY <1>1, StreamInvariant, PTL

(* A half-close from any thread waits for the output: the step that sends  *)
(* the FIN leaves none behind, and unless the peer reset the connection    *)
(* every message passed to send() is before the FIN, whole, or in a functor*)
(* that another thread queued.                                             *)
THEOREM FinWaits == SafeSpec => FinAfterOutput
<1>1. ASSUME Life, WritingWhilePending, StreamInv, [Next]_vars,
             finSent', ~finSent, ~Down
      PROVE  /\ outputBuffer_' = <<>>
             /\ peer # "reset" =>
                   /\ wire' # <<>> => wire'[Len(wire')].unit = MsgLen
                   /\ \A t \in AllThreads : \A n \in 1 .. sent[t] :
                        InStream(wire', t, n) \/ (t \in Threads /\ InQueue(queue', t, n))
  <2>1. Types /\ Lined(queue, sent)
    BY <1>1 DEF Life, StreamInv
  <2>2. (ShutdownInLoop \/ LoopShutdown \/ handleWrite) /\ outputBuffer_' = <<>>
    BY <1>1, <2>1, FinLeavesNone
  <2>3. ASSUME peer # "reset"
        PROVE  /\ wire' # <<>> => wire'[Len(wire')].unit = MsgLen
               /\ \A t \in AllThreads : \A n \in 1 .. sent[t] :
                    InStream(wire', t, n) \/ (t \in Threads /\ InQueue(queue', t, n))
    <3>1. Flows
      BY <1>1, <2>3, DownState DEF Flows, Closed
    <3>2. Stream(all', queue', sent')
      BY <1>1, <3>1, FlowStep
    <3>3. all' = wire'
      <4>1. wire' \in Seq(UnitSet)
        BY <1>1, <2>1, TypesStep DEF Types
      <4>2. QED
        BY <2>2, <4>1, ConcatEmptySeq DEF all
    <3>4. sent' = sent
      BY <2>2 DEF ShutdownInLoop, LoopShutdown, handleWrite, threadVars
    <3>5. ASSUME NEW t \in AllThreads, NEW n \in 1 .. sent[t]
          PROVE  InStream(wire', t, n) \/ (t \in Threads /\ InQueue(queue', t, n))
      <4>1. InStream(wire', t, n) \/ InQueue(queue', t, n)
        BY <3>2, <3>3, <3>4 DEF Stream
      <4>2. InQueue(queue', t, n) => t \in Threads
        BY <1>1, <2>1, LinedStep, Zenon DEF Lined, InQueue, OwnString
      <4>3. QED
        BY <4>1, <4>2
    <3>6. QED
      BY <3>2, <3>3, <3>5 DEF Stream
  <2>4. QED
    BY <2>2, <2>3
<1>2. Life /\ WritingWhilePending /\ StreamInv /\ [Next]_vars
        => [finSent' /\ ~finSent /\ ~Down =>
              /\ outputBuffer_' = <<>>
              /\ peer # "reset" =>
                   /\ wire' # <<>> => wire'[Len(wire')].unit = MsgLen
                   /\ \A t \in AllThreads : \A n \in 1 .. sent[t] :
                        InStream(wire', t, n) \/ (t \in Threads /\ InQueue(queue', t, n))]_vars
  BY <1>1
<1>3. QED
  BY <1>2, LifeCorrect, WritingCorrect, StreamInvariant, PTL DEF SafeSpec, FinAfterOutput

=============================================================================
