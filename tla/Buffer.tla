------------------------------- MODULE Buffer -------------------------------
(***************************************************************************)
(* The byte buffer between a socket and the application:                   *)
(*                                                                         *)
(*   | prependable | readable | writable |                                 *)
(*   0         readerIndex_  writerIndex_  size                            *)
(*                                                                         *)
(* The operations are operators on a buffer, a record with the fields of   *)
(* the class; the specification applies them to one buffer in any order.   *)
(*                                                                         *)
(* No step looks at the bytes, so a byte is its position in the stream of  *)
(* all bytes ever put in: 1, 2, 3, ...; 0 fills a fresh std::vector.       *)
(***************************************************************************)
EXTENDS Integers

CONSTANTS
    kCheapPrepend,   \* bytes kept free at the front (8)
    kInitialSize,    \* room behind them at construction (1024)
    kExtraBuf,       \* size of readFd()'s buffer on the stack (65536)
    MaxStream        \* bound on the bytes put in, in one behaviour

ASSUME BufferAssumption ==
    /\ kCheapPrepend \in Nat
    /\ kInitialSize \in Nat
    /\ kExtraBuf \in Nat
    /\ MaxStream \in Nat

VARIABLES
    buf,         \* the buffer
    appended,    \* bytes put in so far: also the label of the last one
    retrieved    \* bytes taken out so far

vars == <<buf, appended, retrieved>>

-----------------------------------------------------------------------------
(* The class.                                                              *)

NewBuffer ==
    [size |-> kCheapPrepend + kInitialSize,
     buffer_ |-> [i \in 0 .. kCheapPrepend + kInitialSize - 1 |-> 0],
     readerIndex_ |-> kCheapPrepend,
     writerIndex_ |-> kCheapPrepend]

readableBytes(b) == b.writerIndex_ - b.readerIndex_
writableBytes(b) == b.size - b.writerIndex_
prependableBytes(b) == b.readerIndex_

retrieveall(b) ==
    [b EXCEPT !.readerIndex_ = kCheapPrepend, !.writerIndex_ = kCheapPrepend]

(* retrieve(len): asked for more than there is, it takes what there is.    *)
retrieve(b, len) ==
    IF len < readableBytes(b)
      THEN [b EXCEPT !.readerIndex_ = @ + len]
      ELSE retrieveall(b)

(* buffer_.resize(n): the vector keeps its bytes and is filled up with 0.  *)
Resized(b, n) ==
    [b EXCEPT !.size = n,
              !.buffer_ = [i \in 0 .. n - 1 |-> IF i < b.size THEN b.buffer_[i] ELSE 0]]

(* std::copy of the unread bytes to the front, and the indices with them.  *)
(* Mutant: the indices are left where they were.                           *)
MovedToFront_BytesOnly(b) ==
    [b EXCEPT !.buffer_ =
        [i \in 0 .. b.size - 1 |->
            IF i \in kCheapPrepend .. kCheapPrepend + readableBytes(b) - 1
              THEN b.buffer_[i - kCheapPrepend + b.readerIndex_]
              ELSE b.buffer_[i]]]

MovedToFront(b) ==
    [size |-> b.size,
     buffer_ |-> [i \in 0 .. b.size - 1 |->
                    IF i \in kCheapPrepend .. kCheapPrepend + readableBytes(b) - 1
                      THEN b.buffer_[i - kCheapPrepend + b.readerIndex_]
                      ELSE b.buffer_[i]],
     readerIndex_ |-> kCheapPrepend,
     writerIndex_ |-> kCheapPrepend + readableBytes(b)]

(* Mutant: does not count the room in front of the unread bytes.           *)
makeSpace_ResizeAlways(b, len) == Resized(b, b.writerIndex_ + len)

makeSpace(b, len) ==
    IF writableBytes(b) + prependableBytes(b) < len + kCheapPrepend
      THEN Resized(b, b.writerIndex_ + len)
      ELSE MovedToFront(b)

ensureWritableBytes(b, len) ==
    IF writableBytes(b) < len THEN makeSpace(b, len) ELSE b

(* The next len bytes of the stream stored from writerIndex_ on.  first is *)
(* the label of the first.                                                 *)
Filled(b, len, first) ==
    [size |-> b.size,
     buffer_ |-> [i \in 0 .. b.size - 1 |->
                    IF i \in b.writerIndex_ .. b.writerIndex_ + len - 1
                      THEN first + (i - b.writerIndex_)
                      ELSE b.buffer_[i]],
     readerIndex_ |-> b.readerIndex_,
     writerIndex_ |-> b.writerIndex_ + len]

append(b, len, first) == Filled(ensureWritableBytes(b, len), len, first)

(* What readv() may deliver: the room in the buffer, and the stack buffer  *)
(* when the room is smaller than that.                                     *)
readvLimit(b) ==
    writableBytes(b) + IF writableBytes(b) < kExtraBuf THEN kExtraBuf ELSE 0

(* readFd() that read n bytes.  Mutant: forgets what went to extrabuf.     *)
readFd_ExtraLost(b, n, first) ==
    IF n <= writableBytes(b) THEN Filled(b, n, first)
                             ELSE Filled(b, writableBytes(b), first)

readFd(b, n, first) ==
    IF n <= writableBytes(b)
      THEN Filled(b, n, first)
      ELSE append(Filled(b, writableBytes(b), first),
                  n - writableBytes(b), first + writableBytes(b))

-----------------------------------------------------------------------------
(* One buffer, used in every order.                                        *)

Init ==
    /\ buf = NewBuffer
    /\ appended = 0
    /\ retrieved = 0

Append(len) ==
    /\ appended + len <= MaxStream
    /\ buf' = append(buf, len, appended + 1)
    /\ appended' = appended + len
    /\ UNCHANGED retrieved

(* readFd() of a socket that has n bytes or more.  An error or the end of  *)
(* the stream changes nothing.                                             *)
ReadFd(n) ==
    /\ n <= readvLimit(buf)
    /\ appended + n <= MaxStream
    /\ buf' = readFd(buf, n, appended + 1)
    /\ appended' = appended + n
    /\ UNCHANGED retrieved

(* retrieve(len) after peek(), writeFd() or retrieveAsString() made use of *)
(* the bytes.                                                              *)
Retrieve(len) ==
    /\ buf' = retrieve(buf, len)
    /\ retrieved' = retrieved + IF len < readableBytes(buf) THEN len
                                                            ELSE readableBytes(buf)
    /\ UNCHANGED appended

Next ==
    \/ \E len \in 0 .. MaxStream : Append(len)
    \/ \E n \in 1 .. MaxStream : ReadFd(n)
    \/ \E len \in 0 .. MaxStream : Retrieve(len)

Spec == Init /\ [][Next]_vars

-----------------------------------------------------------------------------
(* The indices stay in order and inside the vector, and the reader never   *)
(* enters the prepended bytes.                                             *)
WellFormed(b) ==
    /\ b \in [size: Nat, buffer_: [0 .. b.size - 1 -> Nat],
              readerIndex_: Nat, writerIndex_: Nat]
    /\ kCheapPrepend <= b.readerIndex_
    /\ b.readerIndex_ <= b.writerIndex_
    /\ b.writerIndex_ <= b.size

(* The buffer and the counters keep their types, the indices their order.  *)
TypeOK ==
    /\ WellFormed(buf)
    /\ appended \in Nat
    /\ retrieved \in Nat

(* The readable bytes of b are those labelled from + 1 .. to.              *)
Holds(b, from, to) ==
    /\ readableBytes(b) = to - from
    /\ \A i \in b.readerIndex_ .. b.writerIndex_ - 1 :
          b.buffer_[i] = from + 1 + (i - b.readerIndex_)

(* First in, first out: whatever resizing, moving and use of extrabuf came *)
(* before, the readable bytes are exactly those put in and not yet taken   *)
(* out, in the order they came.                                            *)
ReadableIsUnread == Holds(buf, retrieved, appended)

(* The vector grows only when the unread bytes would not fit without it,   *)
(* and then by less than twice what the call brought: the room in front of *)
(* the unread bytes is never abandoned.                                    *)
GrowsOnlyWhenFull ==
    [][buf'.size # buf.size =>
         /\ buf.size < kCheapPrepend + readableBytes(buf')
         /\ buf'.size < kCheapPrepend + readableBytes(buf') + (appended' - appended)]_vars

=============================================================================
