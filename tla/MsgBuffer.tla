----------------------------- MODULE MsgBuffer ------------------------------
(***************************************************************************)
(* MsgBuffer (src/tmms/network/base/msgbuffer.cpp): the bytes between a    *)
(* socket and the code that parses them.  A buffer is a vector with two    *)
(* positions in it: head_ and tail_ delimit the readable bytes, what lies  *)
(* behind tail_ is writable, and kBufferOffset bytes in front are kept for *)
(* AddInFront.  Writing more than is writable moves the readable bytes to  *)
(* the front or, when that is not enough, replaces the vector.             *)
(*                                                                         *)
(* A value of this module is a buffer; the operators are its member        *)
(* functions, as functions from buffers to buffers.  Positions are those   *)
(* of the source, which count from 0.  A byte is a number; the vector's    *)
(* fresh bytes are 0.                                                      *)
(*                                                                         *)
(* Operators named Bug... are deliberately wrong variants of the operator  *)
(* that follows them; no specification uses them.                          *)
(***************************************************************************)
EXTENDS Integers, Sequences

CONSTANTS InitCap,  \* the argument of the constructor: 2048 by default
          ExtSize   \* size of extBuffer in ReadFd: 8192

Offset == 8         \* kBufferOffset

\* With a smaller capacity RetrieveAll would cut the vector below head_.
ASSUME SizesAssumption == /\ InitCap \in Nat /\ InitCap >= Offset
                          /\ ExtSize \in Nat \ {0}

Larger(a, b) == IF a > b THEN a ELSE b
Smaller(a, b) == IF a < b THEN a ELSE b

\* Every layout the member functions may leave behind.
Buffers == {b \in [head : Nat, tail : Nat, init : Nat, mem : Seq(Nat)] :
              /\ b.head <= b.tail /\ b.tail <= Len(b.mem)
              /\ Offset <= b.init /\ Offset <= Len(b.mem)}

New(len) == [head |-> Offset, tail |-> Offset, init |-> len,
             mem |-> [i \in 1..(len + Offset) |-> 0]]

-----------------------------------------------------------------------------
(* Looking.                                                                *)

Readable(b) == b.tail - b.head
Writable(b) == Len(b.mem) - b.tail

\* What Peek and BeginWrite delimit.
Contents(b) == SubSeq(b.mem, b.head + 1, b.tail)

\* PeekInt32, and PeekInt16 and PeekInt64 with another width: network order.
PeekInt(b, width) ==
  LET value[k \in 0..width] ==
        IF k = 0 THEN 0 ELSE 256 * value[k - 1] + Contents(b)[k]
  IN  value[width]

-----------------------------------------------------------------------------
(* Writing.                                                                *)

\* memcpy or std::copy of data to position at.
Put(b, at, data) ==
  [b EXCEPT !.mem = SubSeq(b.mem, 1, at) \o data
                      \o SubSeq(b.mem, at + Len(data) + 1, Len(b.mem))]

\* data behind tail_, where there is room for it: memcpy and tail_ += len; also
\* what a caller of BeginWrite and HasWritten does.
Write(b, data) == [Put(b, b.tail, data) EXCEPT !.tail = b.tail + Len(data)]

\* The readable bytes move to the front of the vector.
Moved(b) ==
  [Put(b, Offset, Contents(b)) EXCEPT !.head = Offset,
                                      !.tail = Offset + Readable(b)]

\* They move into a new buffer, which is swapped in with its capacity.
Grown(b, n) ==
  Write(New(Larger(2 * Len(b.mem), Offset + Readable(b) + n)), Contents(b))

EnsureWritableBytes(b, n) ==
  IF Writable(b) >= n THEN b
  ELSE IF b.head + Writable(b) >= n + Offset THEN Moved(b)
  ELSE Grown(b, n)

AppendBytes(b, data) == Write(EnsureWritableBytes(b, Len(data)), data)

\* The readable bytes are not shifted out of the way.
BugAddInFront(b, data) ==
  IF b.head >= Len(data)
  THEN [Put(b, b.head - Len(data), data) EXCEPT !.head = b.head - Len(data)]
  ELSE [Put(b, b.head, data) EXCEPT !.tail = b.tail + Len(data)]

\* Data in front of head_; into the reserved bytes, or by shifting the readable
\* bytes, or in a new buffer.
AddInFront(b, data) ==
  LET n == Len(data)
      need == n + Readable(b)
  IN  IF b.head >= n
      THEN [Put(b, b.head - n, data) EXCEPT !.head = b.head - n]
      ELSE IF n <= Writable(b)
      THEN [Put(b, b.head, data \o Contents(b)) EXCEPT !.tail = b.tail + n]
      ELSE Write(Write(New(Larger(b.init, need)), data), Contents(b))

\* What readv takes at most: the writable bytes, and extBuffer if there are
\* fewer of them than it holds.
FdCapacity(b) ==
  Writable(b) + (IF Writable(b) < ExtSize THEN ExtSize ELSE 0)

\* Only the bytes in extBuffer are counted.
BugReadFd(b, data) ==
  IF Len(data) <= Writable(b)
  THEN Write(b, data)
  ELSE AppendBytes(b, SubSeq(data, Writable(b) + 1, Len(data)))

\* ReadFd of data: the vector is filled, extBuffer takes the rest and is
\* appended.
ReadFd(b, data) ==
  LET room == Writable(b)
  IN  IF Len(data) <= room
      THEN Write(b, data)
      ELSE AppendBytes(Write(b, SubSeq(data, 1, room)),
                  SubSeq(data, room + 1, Len(data)))

-----------------------------------------------------------------------------
(* Taking.                                                                 *)

RetrieveAll(b) ==
  [b EXCEPT !.head = Offset, !.tail = Offset,
            !.mem = IF Len(b.mem) > 2 * b.init THEN SubSeq(b.mem, 1, b.init)
                                               ELSE b.mem]

\* Also RetrieveUntil and the taking half of Read and ReadInt..
Retrieve(b, n) ==
  IF n >= Readable(b) THEN RetrieveAll(b) ELSE [b EXCEPT !.head = b.head + n]

Unwrite(b, n) == [b EXCEPT !.tail = b.tail - n]

-----------------------------------------------------------------------------

\* What the user of a buffer relies on: whatever the layout of b, it is a queue
\* of bytes to which data can be added at either end and from which bytes can
\* be taken at either end, and none of this disturbs another byte.  The case
\* analyses behind it (fill, move, grow, shift) are exercised by no test.
IsQueue(b, data) ==
  LET old == Contents(b)
      back == AppendBytes(b, data)
      front == AddInFront(b, data)
  IN  /\ back \in Buffers /\ Contents(back) = old \o data
      /\ front \in Buffers /\ Contents(front) = data \o old
      /\ Len(data) <= FdCapacity(b) => Contents(ReadFd(b, data)) = old \o data
      /\ \A n \in 0..(Readable(b) + 1) :
           LET rest == Retrieve(b, n)
           IN  /\ rest \in Buffers
               /\ Contents(rest) = SubSeq(old, n + 1, Len(old))
      /\ \A n \in 0..Readable(b) :
           Contents(Unwrite(b, n)) = SubSeq(old, 1, Len(old) - n)
=============================================================================
