--------------------------- MODULE Buffer_proofs ---------------------------
(***************************************************************************)
(* The buffer is a first-in first-out queue of bytes, whatever the sizes:  *)
(* one lemma for each member function says that it keeps the indices in    *)
(* order and what it does to the readable bytes.                           *)
(***************************************************************************)
EXTENDS Buffer, TLAPS

(* retrieve(len) takes the oldest len readable bytes, or all of them.      *)
LEMMA RetrieveLemma ==
    ASSUME NEW b, WellFormed(b), NEW len \in Nat,
           NEW from \in Nat, NEW to \in Nat, Holds(b, from, to)
    PROVE  /\ WellFormed(retrieve(b, len))
           /\ Holds(retrieve(b, len),
                    from + (IF len < readableBytes(b) THEN len ELSE readableBytes(b)), to)
           /\ retrieve(b, len).size = b.size
<1>1. CASE len < readableBytes(b)
  <2> DEFINE c == retrieve(b, len)
  <2>1. /\ c \in [size: Nat, buffer_: [0 .. b.size - 1 -> Nat],
                  readerIndex_: Nat, writerIndex_: Nat]
        /\ c.size = b.size /\ c.buffer_ = b.buffer_
        /\ c.readerIndex_ = b.readerIndex_ + len
        /\ c.writerIndex_ = b.writerIndex_
    BY <1>1 DEF WellFormed, retrieve
  <2> HIDE DEF c
  <2>2. WellFormed(c)
    BY <1>1, <2>1, BufferAssumption DEF WellFormed, readableBytes
  <2>3. readableBytes(c) = to - (from + len)
    BY <1>1, <2>1 DEF WellFormed, Holds, readableBytes
  <2>4. ASSUME NEW i \in c.readerIndex_ .. c.writerIndex_ - 1
        PROVE  c.buffer_[i] = (from + len) + 1 + (i - c.readerIndex_)
    <3>1. i \in b.readerIndex_ .. b.writerIndex_ - 1
      BY <2>1, BufferAssumption DEF WellFormed
    <3>2. b.buffer_[i] = from + 1 + (i - b.readerIndex_)
      BY <3>1 DEF Holds
    <3> QED BY <2>1, <3>1, <3>2, BufferAssumption DEF WellFormed
  <2>5. Holds(c, from + len, to)
    BY <2>3, <2>4 DEF Holds
  <2> QED BY <1>1, <2>1, <2>2, <2>5 DEF c
<1>2. CASE ~(len < readableBytes(b))
  <2> DEFINE c == retrieve(b, len)
  <2>1. /\ c \in [size: Nat, buffer_: [0 .. b.size - 1 -> Nat],
                  readerIndex_: Nat, writerIndex_: Nat]
        /\ c.size = b.size /\ c.buffer_ = b.buffer_
        /\ c.readerIndex_ = kCheapPrepend
        /\ c.writerIndex_ = kCheapPrepend
    BY <1>2, BufferAssumption DEF WellFormed, retrieve, retrieveall
  <2> HIDE DEF c
  <2>2. WellFormed(c)
    BY <2>1, BufferAssumption DEF WellFormed
  <2>3. from + readableBytes(b) = to
    BY DEF WellFormed, Holds, readableBytes
  <2>4. Holds(c, from + readableBytes(b), to)
    BY <2>1, <2>3, BufferAssumption DEF Holds, readableBytes
  <2> QED BY <1>2, <2>1, <2>2, <2>4 DEF c
<1> QED BY <1>1, <1>2

(* A larger vector holds the same bytes at the same places.                *)
LEMMA ResizedLemma ==
    ASSUME NEW b, WellFormed(b), NEW n \in Nat, n >= b.size,
           NEW from \in Nat, NEW to \in Nat, Holds(b, from, to)
    PROVE  /\ WellFormed(Resized(b, n))
           /\ Holds(Resized(b, n), from, to)
           /\ Resized(b, n).size = n
           /\ writableBytes(Resized(b, n)) = n - b.writerIndex_
           /\ readableBytes(Resized(b, n)) = readableBytes(b)
           /\ Resized(b, n).readerIndex_ = b.readerIndex_
<1> DEFINE c == Resized(b, n)
           bytes == [i \in 0 .. n - 1 |-> IF i < b.size THEN b.buffer_[i] ELSE 0]
<1>1. bytes \in [0 .. n - 1 -> Nat]
  <2> SUFFICES ASSUME NEW i \in 0 .. n - 1
               PROVE  (IF i < b.size THEN b.buffer_[i] ELSE 0) \in Nat
    OBVIOUS
  <2>1. i < b.size => i \in 0 .. b.size - 1
    BY DEF WellFormed
  <2> QED BY <2>1 DEF WellFormed
<1>2. \A i \in 0 .. b.size - 1 : bytes[i] = b.buffer_[i]
  BY DEF WellFormed
<1> HIDE DEF bytes
<1>3. /\ c \in [size: Nat, buffer_: [0 .. n - 1 -> Nat],
                readerIndex_: Nat, writerIndex_: Nat]
      /\ c.size = n /\ c.buffer_ = bytes
      /\ c.readerIndex_ = b.readerIndex_
      /\ c.writerIndex_ = b.writerIndex_
  BY <1>1 DEF WellFormed, Resized, bytes
<1> HIDE DEF c
<1>4. WellFormed(c)
  BY <1>3, BufferAssumption DEF WellFormed
<1>5. Holds(c, from, to)
  <2> SUFFICES ASSUME NEW i \in b.readerIndex_ .. b.writerIndex_ - 1
               PROVE  bytes[i] = b.buffer_[i]
    BY <1>3 DEF Holds, readableBytes
  <2>1. i \in 0 .. b.size - 1
    BY BufferAssumption DEF WellFormed
  <2> QED BY <1>2, <2>1
<1> QED BY <1>3, <1>4, <1>5 DEF c, readableBytes, writableBytes

(* Moving the unread bytes to the front keeps them and their order: they   *)
(* move towards the front, so none is overwritten before it is copied.     *)
LEMMA MovedLemma ==
    ASSUME NEW b, WellFormed(b),
           NEW from \in Nat, NEW to \in Nat, Holds(b, from, to)
    PROVE  /\ WellFormed(MovedToFront(b))
           /\ Holds(MovedToFront(b), from, to)
           /\ MovedToFront(b).size = b.size
           /\ writableBytes(MovedToFront(b)) =
                 writableBytes(b) + prependableBytes(b) - kCheapPrepend
           /\ readableBytes(MovedToFront(b)) = readableBytes(b)
<1> DEFINE c == MovedToFront(b)
           k == kCheapPrepend
           r == readableBytes(b)
           bytes == [i \in 0 .. b.size - 1 |->
                       IF i \in k .. k + r - 1 THEN b.buffer_[i - k + b.readerIndex_]
                                               ELSE b.buffer_[i]]
<1>1. r \in Nat /\ k \in Nat /\ k + r <= b.writerIndex_
  BY BufferAssumption DEF WellFormed, readableBytes
<1>2. ASSUME NEW i \in k .. k + r - 1
      PROVE  /\ i \in 0 .. b.size - 1
             /\ i - k + b.readerIndex_ \in b.readerIndex_ .. b.writerIndex_ - 1
             /\ i - k + b.readerIndex_ \in 0 .. b.size - 1
  <2>1. /\ b.readerIndex_ \in Nat /\ b.writerIndex_ \in Nat /\ b.size \in Nat
        /\ b.readerIndex_ <= b.writerIndex_ /\ b.writerIndex_ <= b.size
        /\ r = b.writerIndex_ - b.readerIndex_
    BY DEF WellFormed, readableBytes
  <2>2. i \in Nat /\ k <= i /\ i < k + r
    BY <1>1
  <2> HIDE DEF k, r
  <2>3. QED
    BY <1>1, <2>1, <2>2
<1>3. bytes \in [0 .. b.size - 1 -> Nat]
  <2> SUFFICES ASSUME NEW i \in 0 .. b.size - 1
               PROVE  (IF i \in k .. k + r - 1 THEN b.buffer_[i - k + b.readerIndex_]
                                               ELSE b.buffer_[i]) \in Nat
    OBVIOUS
  <2>1. CASE i \in k .. k + r - 1
    <3>1. b.buffer_[i - k + b.readerIndex_] \in Nat
      BY <1>2, <2>1 DEF WellFormed
    <3> QED BY <2>1, <3>1
  <2>2. CASE i \notin k .. k + r - 1
    BY <2>2 DEF WellFormed
  <2> QED BY <2>1, <2>2
<1>4. \A i \in k .. k + r - 1 : bytes[i] = b.buffer_[i - k + b.readerIndex_]
  BY <1>2
<1> HIDE DEF bytes
<1>6. c = [size |-> b.size, buffer_ |-> bytes,
           readerIndex_ |-> k, writerIndex_ |-> k + r]
  BY DEF MovedToFront, bytes
<1>10. /\ c \in [size: Nat, buffer_: [0 .. b.size - 1 -> Nat],
                 readerIndex_: Nat, writerIndex_: Nat]
       /\ c.size = b.size /\ c.buffer_ = bytes
       /\ c.readerIndex_ = k
       /\ c.writerIndex_ = k + r
  <2> HIDE DEF c, k, r
  <2> QED BY <1>1, <1>3, <1>6 DEF WellFormed
<1> HIDE DEF c, k, r
<1>7. WellFormed(c)
  BY <1>1, <1>10 DEF WellFormed, k
<1>8. Holds(c, from, to)
  <2>1. readableBytes(c) = to - from
    BY <1>1, <1>10 DEF Holds, readableBytes, r
  <2>2. ASSUME NEW i \in k .. k + r - 1
        PROVE  bytes[i] = from + 1 + (i - k)
    <3>1. b.buffer_[i - k + b.readerIndex_] =
             from + 1 + ((i - k + b.readerIndex_) - b.readerIndex_)
      BY <1>2 DEF Holds
    <3>2. (i - k + b.readerIndex_) - b.readerIndex_ = i - k
      BY <1>1 DEF WellFormed
    <3> QED BY <1>4, <3>1, <3>2
  <2>3. \A i \in c.readerIndex_ .. c.writerIndex_ - 1 :
           c.buffer_[i] = from + 1 + (i - c.readerIndex_)
    <3> SUFFICES ASSUME NEW i \in k .. k + r - 1
                 PROVE  bytes[i] = from + 1 + (i - k)
      BY <1>1, <1>10
    <3> QED BY <2>2
  <2> QED BY <2>1, <2>3 DEF Holds
<1>9. /\ writableBytes(c) = writableBytes(b) + prependableBytes(b) - k
      /\ readableBytes(c) = readableBytes(b)
  BY <1>1, <1>10 DEF WellFormed, writableBytes, prependableBytes, readableBytes, r
<1> QED BY <1>10, <1>7, <1>8, <1>9 DEF c, k

(* Bytes stored in the writable part come after the readable ones.         *)
LEMMA FilledLemma ==
    ASSUME NEW b, WellFormed(b), NEW len \in Nat, len <= writableBytes(b),
           NEW from \in Nat, NEW to \in Nat, Holds(b, from, to)
    PROVE  /\ WellFormed(Filled(b, len, to + 1))
           /\ Holds(Filled(b, len, to + 1), from, to + len)
           /\ Filled(b, len, to + 1).size = b.size
           /\ readableBytes(Filled(b, len, to + 1)) = readableBytes(b) + len
           /\ writableBytes(Filled(b, len, to + 1)) = writableBytes(b) - len
           /\ Filled(b, len, to + 1).readerIndex_ = b.readerIndex_
<1> DEFINE c == Filled(b, len, to + 1)
           w == b.writerIndex_
           bytes == [i \in 0 .. b.size - 1 |->
                       IF i \in w .. w + len - 1 THEN (to + 1) + (i - w)
                                                 ELSE b.buffer_[i]]
<1>1. w \in Nat /\ w + len <= b.size
  BY DEF WellFormed, writableBytes
<1>2. bytes \in [0 .. b.size - 1 -> Nat]
  <2> SUFFICES ASSUME NEW i \in 0 .. b.size - 1
               PROVE  (IF i \in w .. w + len - 1 THEN (to + 1) + (i - w)
                                                 ELSE b.buffer_[i]) \in Nat
    OBVIOUS
  <2>1. b.buffer_[i] \in Nat
    BY DEF WellFormed
  <2> QED BY <1>1, <2>1
<1>3. /\ \A i \in w .. w + len - 1 : bytes[i] = (to + 1) + (i - w)
      /\ \A i \in b.readerIndex_ .. w - 1 : bytes[i] = b.buffer_[i]
  <2>1. b.readerIndex_ \in Nat /\ b.size \in Nat
    BY DEF WellFormed
  <2>2. ASSUME NEW i \in w .. w + len - 1
        PROVE  bytes[i] = (to + 1) + (i - w)
    <3>1. i \in 0 .. b.size - 1
      BY <1>1, <2>1
    <3>2. QED
      BY <3>1
  <2>3. ASSUME NEW i \in b.readerIndex_ .. w - 1
        PROVE  bytes[i] = b.buffer_[i]
    <3>1. i \in 0 .. b.size - 1 /\ i \notin w .. w + len - 1
      BY <1>1, <2>1
    <3>2. QED
      BY <3>1
  <2>4. QED
    BY <2>2, <2>3
<1> HIDE DEF bytes
<1>8. c = [size |-> b.size, buffer_ |-> bytes,
           readerIndex_ |-> b.readerIndex_, writerIndex_ |-> w + len]
  BY DEF Filled, bytes
<1>4. /\ c \in [size: Nat, buffer_: [0 .. b.size - 1 -> Nat],
                readerIndex_: Nat, writerIndex_: Nat]
      /\ c.size = b.size /\ c.buffer_ = bytes
      /\ c.readerIndex_ = b.readerIndex_
      /\ c.writerIndex_ = w + len
  <2> HIDE DEF c
  <2> QED BY <1>1, <1>2, <1>8 DEF WellFormed
<1> HIDE DEF c
<1>5. WellFormed(c)
  BY <1>1, <1>4, BufferAssumption DEF WellFormed
<1>6. Holds(c, from, to + len)
  <2>1. w - b.readerIndex_ = to - from /\ b.readerIndex_ \in Nat /\ b.readerIndex_ <= w
    BY DEF Holds, readableBytes, WellFormed
  <2>2. readableBytes(c) = (to + len) - from
    <3>1. (w + len) - b.readerIndex_ = (to + len) - from
      BY <1>1, <2>1
    <3> QED BY <1>4, <3>1 DEF readableBytes
  <2>3. ASSUME NEW i \in b.readerIndex_ .. w + len - 1
        PROVE  bytes[i] = from + 1 + (i - b.readerIndex_)
    <3>1. CASE i < w
      <4>1. i \in b.readerIndex_ .. w - 1
        BY <1>1, <2>1, <3>1
      <4> QED BY <1>3, <4>1 DEF Holds
    <3>2. CASE i >= w
      <4>1. i \in w .. w + len - 1
        BY <1>1, <2>1, <3>2
      <4> QED BY <1>1, <1>3, <2>1, <4>1
    <3> QED BY <1>1, <2>1, <3>1, <3>2
  <2>4. \A i \in c.readerIndex_ .. c.writerIndex_ - 1 :
           c.buffer_[i] = from + 1 + (i - c.readerIndex_)
    <3> SUFFICES ASSUME NEW i \in b.readerIndex_ .. w + len - 1
                 PROVE  bytes[i] = from + 1 + (i - b.readerIndex_)
      BY <1>1, <1>4 DEF WellFormed
    <3> QED BY <2>3
  <2> QED BY <2>2, <2>4 DEF Holds
<1>7. /\ readableBytes(c) = readableBytes(b) + len
      /\ writableBytes(c) = writableBytes(b) - len
  BY <1>1, <1>4 DEF WellFormed, readableBytes, writableBytes
<1> QED BY <1>4, <1>5, <1>6, <1>7 DEF c

(* What a call may do to the size of the vector when it brings len bytes   *)
(* and leaves readable of them: see GrowsOnlyWhenFull.                     *)
Grows(before, after, readable, len) ==
    after # before => /\ before < kCheapPrepend + readable
                      /\ after < kCheapPrepend + readable + len

(* ensureWritableBytes(len) makes room for len bytes and keeps the others. *)
LEMMA EnsureLemma ==
    ASSUME NEW b, WellFormed(b), NEW len \in Nat,
           NEW from \in Nat, NEW to \in Nat, Holds(b, from, to)
    PROVE  /\ WellFormed(ensureWritableBytes(b, len))
           /\ Holds(ensureWritableBytes(b, len), from, to)
           /\ len <= writableBytes(ensureWritableBytes(b, len))
           /\ readableBytes(ensureWritableBytes(b, len)) = readableBytes(b)
           /\ Grows(b.size, ensureWritableBytes(b, len).size,
                    readableBytes(b) + len, len)
<1>1. /\ b.size \in Nat /\ b.readerIndex_ \in Nat /\ b.writerIndex_ \in Nat
      /\ kCheapPrepend \in Nat /\ kCheapPrepend <= b.readerIndex_
      /\ b.readerIndex_ <= b.writerIndex_ /\ b.writerIndex_ <= b.size
  BY BufferAssumption DEF WellFormed
<1>2. CASE len <= writableBytes(b)
  <2>1. ensureWritableBytes(b, len) = b
    BY <1>1, <1>2 DEF ensureWritableBytes, writableBytes
  <2> QED BY <1>2, <2>1 DEF Grows
<1>3. CASE /\ writableBytes(b) < len
           /\ writableBytes(b) + prependableBytes(b) < len + kCheapPrepend
  <2> DEFINE n == b.writerIndex_ + len
  <2>1. ensureWritableBytes(b, len) = Resized(b, n)
    BY <1>3 DEF ensureWritableBytes, makeSpace
  <2>2. n \in Nat /\ n >= b.size
    BY <1>1, <1>3 DEF writableBytes
  <2>3. /\ WellFormed(Resized(b, n))
        /\ Holds(Resized(b, n), from, to)
        /\ Resized(b, n).size = n
        /\ writableBytes(Resized(b, n)) = n - b.writerIndex_
        /\ readableBytes(Resized(b, n)) = readableBytes(b)
    BY <2>2, ResizedLemma
  <2>4. n - b.writerIndex_ = len
    BY <1>1
  <2>5. Grows(b.size, n, readableBytes(b) + len, len)
    BY <1>1, <1>3 DEF Grows, writableBytes, prependableBytes, readableBytes
  <2> HIDE DEF n
  <2> QED BY <2>1, <2>3, <2>4, <2>5
<1>4. CASE /\ writableBytes(b) < len
           /\ ~(writableBytes(b) + prependableBytes(b) < len + kCheapPrepend)
  <2>1. ensureWritableBytes(b, len) = MovedToFront(b)
    BY <1>4 DEF ensureWritableBytes, makeSpace
  <2>2. len <= writableBytes(b) + prependableBytes(b) - kCheapPrepend
    BY <1>1, <1>4 DEF writableBytes, prependableBytes
  <2> QED BY <2>1, <2>2, MovedLemma DEF Grows
<1> QED BY <1>1, <1>2, <1>3, <1>4 DEF writableBytes

(* append(len bytes) puts them behind the readable ones.                   *)
LEMMA AppendLemma ==
    ASSUME NEW b, WellFormed(b), NEW len \in Nat,
           NEW from \in Nat, NEW to \in Nat, Holds(b, from, to)
    PROVE  /\ WellFormed(append(b, len, to + 1))
           /\ Holds(append(b, len, to + 1), from, to + len)
           /\ readableBytes(append(b, len, to + 1)) = readableBytes(b) + len
           /\ Grows(b.size, append(b, len, to + 1).size, readableBytes(b) + len, len)
<1> DEFINE c == ensureWritableBytes(b, len)
<1>1. /\ WellFormed(c)
      /\ Holds(c, from, to)
      /\ len <= writableBytes(c)
      /\ readableBytes(c) = readableBytes(b)
      /\ Grows(b.size, c.size, readableBytes(b) + len, len)
  BY EnsureLemma
<1>2. append(b, len, to + 1) = Filled(c, len, to + 1)
  BY DEF append
<1> HIDE DEF c
<1> QED BY <1>1, <1>2, FilledLemma

(* readFd() that read n bytes puts them behind the readable ones, part of  *)
(* them by way of extrabuf.                                                *)
LEMMA ReadFdLemma ==
    ASSUME NEW b, WellFormed(b), NEW n \in Nat,
           NEW from \in Nat, NEW to \in Nat, Holds(b, from, to)
    PROVE  /\ WellFormed(readFd(b, n, to + 1))
           /\ Holds(readFd(b, n, to + 1), from, to + n)
           /\ readableBytes(readFd(b, n, to + 1)) = readableBytes(b) + n
           /\ Grows(b.size, readFd(b, n, to + 1).size, readableBytes(b) + n, n)
<1>1. writableBytes(b) \in Nat /\ readableBytes(b) \in Nat
      /\ b.size \in Nat /\ kCheapPrepend \in Nat
  BY BufferAssumption DEF WellFormed, writableBytes, readableBytes
<1>2. CASE n <= writableBytes(b)
  <2>1. readFd(b, n, to + 1) = Filled(b, n, to + 1)
    BY <1>2 DEF readFd
  <2> QED BY <1>2, <2>1, FilledLemma DEF Grows
<1>3. CASE ~(n <= writableBytes(b))
  <2> DEFINE w == writableBytes(b)
             c == Filled(b, w, to + 1)
             d == append(c, n - w, (to + w) + 1)
  <2>1. readFd(b, n, to + 1) = append(c, n - w, (to + 1) + w)
    BY <1>3 DEF readFd
  <2>2. (to + 1) + w = (to + w) + 1
    BY <1>1
  <2>3. w \in Nat /\ n - w \in Nat /\ to + w \in Nat /\ (to + w) + (n - w) = to + n
    BY <1>1, <1>3
  <2>4. /\ WellFormed(c)
        /\ Holds(c, from, to + w)
        /\ c.size = b.size
        /\ readableBytes(c) = readableBytes(b) + w
    BY <1>1, FilledLemma
  <2> HIDE DEF w, c
  <2>5. /\ WellFormed(d)
        /\ Holds(d, from, (to + w) + (n - w))
        /\ readableBytes(d) = readableBytes(c) + (n - w)
        /\ Grows(c.size, d.size, readableBytes(c) + (n - w), n - w)
    BY <2>3, <2>4, AppendLemma
  <2>6. readFd(b, n, to + 1) = d
    BY <2>1, <2>2
  <2> HIDE DEF d
  <2>7. readableBytes(c) + (n - w) = readableBytes(b) + n
    BY <1>1, <2>3, <2>4
  <2>8. d.size \in Nat
    BY <2>5 DEF WellFormed
  <2>9. Grows(b.size, d.size, readableBytes(b) + n, n)
    <3>1. Grows(b.size, d.size, readableBytes(b) + n, n - w)
      BY <2>4, <2>5, <2>7
    <3> QED BY <1>1, <2>3, <2>8, <3>1 DEF Grows
  <2> QED BY <2>3, <2>5, <2>6, <2>7, <2>9
<1> QED BY <1>2, <1>3

-----------------------------------------------------------------------------
(* The invariant is inductive as it stands.                                *)
IInv == TypeOK /\ ReadableIsUnread

(* A fresh buffer is empty and in order.                                   *)
LEMMA InitIInv == Init => IInv
BY BufferAssumption
DEF Init, IInv, TypeOK, ReadableIsUnread, NewBuffer, WellFormed, Holds, readableBytes

(* Every call keeps the invariant, and lets the vector grow only as        *)
(* GrowsOnlyWhenFull allows.                                               *)
LEMMA StepIInv ==
    ASSUME IInv, [Next]_vars
    PROVE  /\ IInv'
           /\ \/ UNCHANGED vars
              \/ Grows(buf.size, buf'.size, readableBytes(buf'), appended' - appended)
<1> USE DEF IInv, TypeOK, ReadableIsUnread
<1>1. ASSUME NEW len \in 0 .. MaxStream, Append(len)
      PROVE  /\ IInv'
             /\ Grows(buf.size, buf'.size, readableBytes(buf'), appended' - appended)
  <2>1. len \in Nat /\ appended' - appended = len /\ appended' \in Nat
    BY <1>1, BufferAssumption DEF Append
  <2>2. /\ WellFormed(buf')
        /\ Holds(buf', retrieved, appended + len)
        /\ readableBytes(buf') = readableBytes(buf) + len
        /\ Grows(buf.size, buf'.size, readableBytes(buf) + len, len)
    BY <1>1, <2>1, AppendLemma DEF Append
  <2> QED BY <1>1, <2>1, <2>2 DEF Append
<1>2. ASSUME NEW n \in 1 .. MaxStream, ReadFd(n)
      PROVE  /\ IInv'
             /\ Grows(buf.size, buf'.size, readableBytes(buf'), appended' - appended)
  <2>1. n \in Nat /\ appended' - appended = n /\ appended' \in Nat
    BY <1>2, BufferAssumption DEF ReadFd
  <2>2. /\ WellFormed(buf')
        /\ Holds(buf', retrieved, appended + n)
        /\ readableBytes(buf') = readableBytes(buf) + n
        /\ Grows(buf.size, buf'.size, readableBytes(buf) + n, n)
    BY <1>2, <2>1, ReadFdLemma DEF ReadFd
  <2> QED BY <1>2, <2>1, <2>2 DEF ReadFd
<1>3. ASSUME NEW len \in 0 .. MaxStream, Retrieve(len)
      PROVE  /\ IInv'
             /\ Grows(buf.size, buf'.size, readableBytes(buf'), appended' - appended)
  <2>1. len \in Nat /\ readableBytes(buf) \in Nat
    BY BufferAssumption DEF WellFormed, readableBytes
  <2>2. retrieved' \in Nat
    BY <1>3, <2>1 DEF Retrieve
  <2>3. /\ WellFormed(buf')
        /\ Holds(buf', retrieved', appended)
        /\ buf'.size = buf.size
    BY <1>3, <2>1, RetrieveLemma DEF Retrieve
  <2> QED BY <1>3, <2>2, <2>3 DEF Retrieve, Grows
<1>4. CASE UNCHANGED vars
  BY <1>4 DEF vars, WellFormed, Holds, readableBytes
<1> QED BY <1>1, <1>2, <1>3, <1>4 DEF Next

(* In every behaviour the indices keep their order inside the vector.      *)
THEOREM TypeCorrect == Spec => []TypeOK
<1>1. Init => IInv
  BY InitIInv
<1>2. IInv /\ [Next]_vars => IInv'
  BY StepIInv
<1>3. IInv => TypeOK
  BY DEF IInv
<1> QED BY <1>1, <1>2, <1>3, PTL DEF Spec

(* In every behaviour, for every size of the prepend, the vector and       *)
(* extrabuf, the readable bytes are those put in and not yet taken out, in *)
(* order: no path of append(), readFd() and retrieve() loses or repeats    *)
(* one.                                                                    *)
THEOREM FirstInFirstOut == Spec => []ReadableIsUnread
<1>1. Init => IInv
  BY InitIInv
<1>2. IInv /\ [Next]_vars => IInv'
  BY StepIInv
<1>3. IInv => ReadableIsUnread
  BY DEF IInv
<1> QED BY <1>1, <1>2, <1>3, PTL DEF Spec

(* In every behaviour the vector grows only when the unread bytes do not   *)
(* fit, and by no more than the last call accounts for.                    *)
THEOREM GrowthJustified == Spec => GrowsOnlyWhenFull
<1>1. Init => IInv
  BY InitIInv
<1>2. IInv /\ [Next]_vars => IInv'
  BY StepIInv
<1>3. IInv /\ [Next]_vars =>
        [buf'.size # buf.size =>
           /\ buf.size < kCheapPrepend + readableBytes(buf')
           /\ buf'.size < kCheapPrepend + readableBytes(buf') + (appended' - appended)]_vars
  BY StepIInv DEF Grows
<1> QED BY <1>1, <1>2, <1>3, PTL DEF Spec, GrowsOnlyWhenFull

=============================================================================
