------------------------ MODULE TcpConnectionProofs -------------------------
(***************************************************************************)
(* Theorems about TcpConnection, for any program of Send calls, any size   *)
(* of the kernel's send buffer, any idle times and any of the faults; and,  *)
(* from Timers on, about the TimingWheel that times an idle connection     *)
(* out, for any sizes of the wheels that divide each other, any timers and *)
(* delays, and any clock.                                                  *)
(***************************************************************************)
EXTENDS TcpConnection, TimingWheel, SequenceTheorems, TLAPS


\* A stretch of a buffer's bytes is a sequence of bytes of its length.
LEMMA BytesType ==
  ASSUME NEW i \in 1..Len(Program), NEW first \in Nat, NEW last \in Nat,
         first <= last + 1
  PROVE  /\ Bytes(i, first, last) \in Seq(Byte)
         /\ Len(Bytes(i, first, last)) = last - first + 1
         /\ \A k \in 1..(last - first + 1) :
              Bytes(i, first, last)[k] = <<i, first + k - 1>>
<1> DEFINE n == last - first + 1
<1>1. n \in Nat
  OBVIOUS
<1>2. \A k \in 1..n : <<i, first + k - 1>> \in Byte
  BY DEF Byte
<1>3. Bytes(i, first, last) \in [1..n -> Byte]
  BY <1>2 DEF Bytes
<1>4. Bytes(i, first, last) \in Seq(Byte)
  BY <1>1, <1>3, SeqDef
<1>5. Len(Bytes(i, first, last)) = n
  BY <1>1, <1>3, <1>4, LenProperties DEF Bytes
<1> QED BY <1>4, <1>5 DEF Bytes

\* A buffer that is written in two goes is the buffer.
LEMMA BytesSplit ==
  ASSUME NEW i \in 1..Len(Program), NEW n \in Nat, NEW k \in 0..n
  PROVE  Bytes(i, 1, k) \o Bytes(i, k + 1, n) = Bytes(i, 1, n)
<1> DEFINE a == Bytes(i, 1, k)
           b == Bytes(i, k + 1, n)
           c == Bytes(i, 1, n)
<1>0. /\ 1 \in Nat /\ k \in Nat /\ k + 1 \in Nat
      /\ 1 <= k + 1 /\ 1 <= n + 1 /\ k + 1 <= n + 1
      /\ k - 1 + 1 = k /\ n - 1 + 1 = n /\ n - (k + 1) + 1 = n - k
      /\ \A j \in Int : 1 + j - 1 = j /\ k + 1 + j - 1 = k + j
  OBVIOUS
<1>1. a \in Seq(Byte) /\ Len(a) = k /\ \A j \in 1..k : a[j] = <<i, j>>
  <2>1. /\ a \in Seq(Byte) /\ Len(a) = k - 1 + 1
        /\ \A j \in 1..(k - 1 + 1) : a[j] = <<i, 1 + j - 1>>
    BY <1>0, BytesType
  <2> QED BY <1>0, <2>1
<1>2. /\ b \in Seq(Byte) /\ Len(b) = n - k
      /\ \A j \in 1..(n - k) : b[j] = <<i, k + j>>
  <2>1. /\ b \in Seq(Byte) /\ Len(b) = n - (k + 1) + 1
        /\ \A j \in 1..(n - (k + 1) + 1) : b[j] = <<i, k + 1 + j - 1>>
    BY <1>0, BytesType
  <2> QED BY <1>0, <2>1
<1>3. c \in Seq(Byte) /\ Len(c) = n /\ \A j \in 1..n : c[j] = <<i, j>>
  <2>1. /\ c \in Seq(Byte) /\ Len(c) = n - 1 + 1
        /\ \A j \in 1..(n - 1 + 1) : c[j] = <<i, 1 + j - 1>>
    BY <1>0, BytesType
  <2> QED BY <1>0, <2>1
<1> HIDE DEF a, b, c
<1>4. /\ a \o b \in Seq(Byte)
      /\ Len(a \o b) = n
      /\ \A j \in 1..n : (a \o b)[j] = IF j <= k THEN a[j] ELSE b[j - k]
  <2>1. /\ a \o b \in Seq(Byte)
        /\ Len(a \o b) = Len(a) + Len(b)
        /\ \A j \in 1..Len(a) + Len(b) :
             (a \o b)[j] = IF j <= Len(a) THEN a[j] ELSE b[j - Len(a)]
    BY <1>1, <1>2, ConcatProperties
  <2>2. Len(a) = k /\ Len(a) + Len(b) = n
    BY <1>1, <1>2
  <2> QED BY <2>1, <2>2
<1>5. \A j \in 1..n : (a \o b)[j] = <<i, j>>
  <2> SUFFICES ASSUME NEW j \in 1..n PROVE (a \o b)[j] = <<i, j>>
    OBVIOUS
  <2>1. CASE j <= k
    <3>1. j \in 1..k
      BY <2>1
    <3> QED BY <2>1, <3>1, <1>1, <1>4
  <2>2. CASE ~(j <= k)
    <3>1. j - k \in 1..(n - k) /\ k + (j - k) = j
      BY <2>2
    <3> QED BY <2>2, <3>1, <1>2, <1>4
  <2> QED BY <2>1, <2>2
<1>6. a \o b = c
  BY <1>3, <1>4, <1>5, SeqEqual
<1> QED BY <1>6 DEF a, b, c

\* The output list is split where writev stopped.
LEMMA Split ==
  ASSUME NEW s \in Seq(Byte), NEW k \in 0..Len(s)
  PROVE  /\ SubSeq(s, 1, k) \in Seq(Byte)
         /\ SubSeq(s, k + 1, Len(s)) \in Seq(Byte)
         /\ Len(SubSeq(s, k + 1, Len(s))) = Len(s) - k
         /\ SubSeq(s, 1, k) \o SubSeq(s, k + 1, Len(s)) = s
<1>1. Len(s) \in Nat
  BY LenProperties
<1>2. \A i \in 1..Len(s) : s[i] \in Byte
  BY ElementOfSeq
<1>3. SubSeq(s, 1, k) \in Seq(Byte)
  BY <1>1, <1>2, SubSeqProperties
<1>4. /\ SubSeq(s, k + 1, Len(s)) \in Seq(Byte)
      /\ Len(SubSeq(s, k + 1, Len(s))) = Len(s) - k
  <2>1. \A i \in (k + 1)..Len(s) : s[i] \in Byte
    BY <1>1, <1>2
  <2>2. /\ SubSeq(s, k + 1, Len(s)) \in Seq(Byte)
        /\ Len(SubSeq(s, k + 1, Len(s)))
             = IF k + 1 <= Len(s) THEN Len(s) - (k + 1) + 1 ELSE 0
    BY <1>1, <2>1, SubSeqProperties
  <2> QED BY <1>1, <2>2
<1>5. SubSeq(s, 1, k) \o SubSeq(s, k + 1, Len(s)) = SubSeq(s, 1, Len(s))
  <2>1. /\ 1 \in 1..Len(s) + 1 /\ k \in (1 - 1)..Len(s) /\ Len(s) \in k..Len(s)
    BY <1>1
  <2> QED BY <2>1, ConcatAdjacentSubSeq
<1> QED BY <1>3, <1>4, <1>5, SubSeqFull

\* Streams that are put together in any order of the parts are the same.
LEMMA Regroup ==
  \A s, t, u \in Seq(Byte) : (s \o t) \o u = s \o (t \o u)
<1> SUFFICES ASSUME NEW s \in Seq(Byte), NEW t \in Seq(Byte), NEW u \in Seq(Byte)
             PROVE  (s \o t) \o u = s \o (t \o u)
  OBVIOUS
<1> QED BY ConcatAssociative

\* What write and writev take fits into the send buffer.
LEMMA AcceptedFits ==
  ASSUME TypeOK, NEW n \in Nat
  PROVE  Accepted(n) \in 0..n /\ inKernel + Accepted(n) \in 0..SendSpace
BY BoundsAssumption DEF TypeOK, Accepted, Space

\* The next Send call has a buffer.
LEMMA NextCall ==
  ASSUME TypeOK, sent < Len(Program)
  PROVE  /\ sent + 1 \in 1..Len(Program)
         /\ Program[sent + 1].kind \in {"list", "buf"}
         /\ Program[sent + 1].size \in Nat \ {0}
<1>1. sent + 1 \in 1..Len(Program)
  BY ProgramAssumption, LenProperties DEF TypeOK
<1>2. Program[sent + 1] \in [kind : {"list", "buf"}, size : Nat \ {0}]
  BY <1>1, ProgramAssumption, ElementOfSeq
<1> QED BY <1>1, <1>2

(***************************************************************************)
(* Every variable keeps its type: write and writev never take more than    *)
(* the send buffer holds, and the lists are only cut inside their bounds.  *)
(***************************************************************************)
LEMMA TypeStep == TypeOK /\ [Next]_vars => TypeOK'
<1> SUFFICES ASSUME TypeOK, [Next]_vars PROVE TypeOK'
  OBVIOUS
<1> USE BoundsAssumption
<1> USE DEF TypeOK, kernelVars, connVars, userVars
<1>1. CASE Poll
  BY <1>1 DEF Poll, Conditions
<1>2. CASE DispatchError
  BY <1>2 DEF DispatchError
<1>3. CASE BeginRead
  BY <1>3 DEF BeginRead
<1>4. CASE ReadSome
  BY <1>4 DEF ReadSome
<1>5. CASE ReadEnd
  BY <1>5 DEF ReadEnd, OnClose
<1>6. CASE Write
  <2>1. CASE closed \/ out = <<>>
    BY <1>6, <2>1 DEF Write
  <2>2. CASE ~(closed \/ out = <<>>) /\ reset # "no"
    BY <1>6, <2>2 DEF Write, OnClose
  <2>3. CASE ~(closed \/ out = <<>>) /\ reset = "no"
    <3> DEFINE k == Accepted(Len(out))
    <3>1. /\ FinishWrite(k)
          /\ UNCHANGED <<unread, fin, reset, closed, idle, mask, maxIdle, sent,
                         handed>>
      BY <1>6, <2>3 DEF Write
    <3>2. k \in 0..Len(out) /\ inKernel + k \in 0..SendSpace
      BY AcceptedFits, LenProperties
    <3> HIDE DEF k
    <3>3. wire' \in Seq(Byte) /\ out' \in Seq(Byte)
      <4>1. wire \o SubSeq(out, 1, k) \in Seq(Byte)
        BY <3>2, Split, ConcatProperties
      <4> QED BY <3>1, <3>2, <4>1, Split DEF FinishWrite
    <3> QED BY <3>1, <3>2, <3>3 DEF FinishWrite
  <2> QED BY <2>1, <2>2, <2>3
<1>7. CASE UserReturn
  BY <1>7 DEF UserReturn
<1>8. CASE NoTick
  BY <1>8 DEF NoTick
<1>9. CASE Tick
  <2>1. idle' \in 0..maxIdle
    BY <1>9 DEF Tick
  <2>2. closed' \in BOOLEAN /\ ready' \in BOOLEAN
    BY <1>9 DEF Tick, OnClose
  <2> QED BY <1>9, <2>1, <2>2 DEF Tick
<1>10. CASE UserSend
  <2> DEFINE i == sent + 1
             n == Program[i].size
             k == Accepted(n)
  <2>1. i \in 1..Len(Program) /\ n \in Nat \ {0}
    BY <1>10, NextCall DEF UserSend
  <2>2. sent' \in 0..Len(Program) /\ mask' = mask /\ maxIdle' = maxIdle
    BY <1>10, <2>1, LenProperties, ProgramAssumption DEF UserSend
  <2>3. k \in 0..n /\ inKernel + k \in 0..SendSpace
    BY <2>1, AcceptedFits
  <2> HIDE DEF k
  <2>4. /\ Bytes(i, 0, n) \in Seq(Byte) /\ Bytes(i, 1, n) \in Seq(Byte)
        /\ Bytes(i, 1, k) \in Seq(Byte) /\ Bytes(i, k + 1, n) \in Seq(Byte)
    <3>1. /\ 0 <= n + 1 /\ 1 <= n + 1 /\ 1 <= k + 1 /\ k + 1 <= n + 1
          /\ k \in Nat /\ k + 1 \in Nat
      <4> HIDE DEF n
      <4> QED BY <2>1, <2>3
    <3> QED BY <2>1, <3>1, BytesType
  <2>5. /\ out \o Bytes(i, 1, n) \in Seq(Byte)
        /\ wire \o Bytes(i, 1, n) \in Seq(Byte)
        /\ wire \o Bytes(i, 1, k) \in Seq(Byte)
        /\ handed \o Bytes(i, 0, n) \in Seq(Byte)
        /\ handed \o Bytes(i, 1, n) \in Seq(Byte)
    BY <2>4, ConcatProperties
  <2>6. CASE closed
    BY <1>10, <2>2, <2>6 DEF UserSend
  <2>7. CASE ~closed
    <3>1. handed' \in Seq(Byte)
      BY <1>10, <2>5, <2>7 DEF UserSend
    <3>2. CASE SendList(i)
      BY <2>2, <2>5, <3>1, <3>2 DEF SendList, EnableWriting
    <3>3. CASE SendBuf(i)
      BY <1>10, <2>1, <2>2, <2>3, <2>4, <2>5, <3>1, <3>3
      DEF SendBuf, EnableWriting, UserSend, k
    <3> QED BY <1>10, <2>7, <3>2, <3>3 DEF UserSend
  <2> QED BY <2>6, <2>7
<1>11. CASE ForceClose
  BY <1>11 DEF ForceClose, OnClose
<1>12. CASE Arrive
  BY <1>12 DEF Arrive
<1>13. CASE PeerFin
  BY <1>13 DEF PeerFin
<1>14. CASE PeerReset
  BY <1>14 DEF PeerReset
<1>15. CASE Drain
  BY <1>15 DEF Drain
<1>16. CASE UNCHANGED vars
  BY <1>16 DEF vars
<1> QED
  BY <1>1, <1>2, <1>3, <1>4, <1>5, <1>6, <1>7, <1>8, <1>9, <1>10, <1>11,
     <1>12, <1>13, <1>14, <1>15, <1>16 DEF Next, LoopThread

\* The state of a connection has its type, whatever the user, the peer and the
\* kernel do between two system calls of a handler (tcpconnection.cpp).
THEOREM TypeCorrect == Spec => []TypeOK
<1>1. Init => TypeOK
  <2> SUFFICES ASSUME Init PROVE TypeOK
    OBVIOUS
  <2>1. <<>> \in Seq(Byte) /\ Len(Program) \in Nat
    BY EmptySeq, ProgramAssumption, LenProperties
  <2>2. inKernel \in 0..SendSpace /\ unread \in 0..MaxUnread /\ maxIdle \in IdleTimes
        /\ idle \in 0..maxIdle
    BY BoundsAssumption DEF Init
  <2>3. sent \in 0..Len(Program)
    BY <2>1 DEF Init
  <2> QED BY <2>1, <2>2, <2>3 DEF Init, TypeOK
<1>2. TypeOK /\ [Next]_vars => TypeOK'
  BY TypeStep
<1> QED BY <1>1, <1>2, PTL DEF Spec

-----------------------------------------------------------------------------
(***************************************************************************)
(* The steps that touch the byte stream at all are the user's Send and the *)
(* writes of OnWrite; every other step leaves the wire, the output list    *)
(* and what was handed over as they are.                                   *)
(***************************************************************************)
LEMMA StreamSteps ==
  ASSUME [Next]_vars
  PROVE  \/ UNCHANGED <<wire, out, handed>>
         \/ UserSend /\ ~closed
         \/ ~closed /\ FinishWrite(Accepted(Len(out))) /\ UNCHANGED handed
<1> USE DEF kernelVars, connVars, userVars
<1>1. CASE Poll BY <1>1 DEF Poll
<1>2. CASE DispatchError BY <1>2 DEF DispatchError
<1>3. CASE BeginRead BY <1>3 DEF BeginRead
<1>4. CASE ReadSome BY <1>4 DEF ReadSome
<1>5. CASE ReadEnd BY <1>5 DEF ReadEnd
<1>6. CASE Write BY <1>6 DEF Write
<1>7. CASE UserReturn BY <1>7 DEF UserReturn
<1>8. CASE NoTick BY <1>8 DEF NoTick
<1>9. CASE Tick BY <1>9 DEF Tick
<1>10. CASE UserSend BY <1>10 DEF UserSend
<1>11. CASE ForceClose BY <1>11 DEF ForceClose
<1>12. CASE Arrive BY <1>12 DEF Arrive
<1>13. CASE PeerFin BY <1>13 DEF PeerFin
<1>14. CASE PeerReset BY <1>14 DEF PeerReset
<1>15. CASE Drain BY <1>15 DEF Drain
<1>16. CASE UNCHANGED vars BY <1>16 DEF vars
<1> QED
  BY <1>1, <1>2, <1>3, <1>4, <1>5, <1>6, <1>7, <1>8, <1>9, <1>10, <1>11,
     <1>12, <1>13, <1>14, <1>15, <1>16 DEF Next, LoopThread

\* A Send call adds its bytes at the end of the stream, whichever of the four
\* ways of Send it takes.
LEMMA SendConserves ==
  ASSUME TypeOK, StreamConserved, UserSend, ~closed
  PROVE  StreamConserved'
<1> DEFINE i == sent + 1
           n == Program[i].size
           k == Accepted(n)
           b == Bytes(i, 1, n)
<1>1. /\ i \in 1..Len(Program) /\ n \in Nat \ {0} /\ k \in 0..n
      /\ Program[i].kind \in {"list", "buf"}
  BY NextCall, AcceptedFits DEF UserSend
<1>2. /\ Bytes(i, 0, n) \in Seq(Byte) /\ b \in Seq(Byte)
      /\ Bytes(i, 1, k) \in Seq(Byte) /\ Bytes(i, k + 1, n) \in Seq(Byte)
      /\ Bytes(i, 1, k) \o Bytes(i, k + 1, n) = b
  <2> HIDE DEF n, k
  <2>1. /\ 0 <= n + 1 /\ 1 <= n + 1 /\ 1 <= k + 1 /\ k + 1 <= n + 1
        /\ k \in Nat /\ k + 1 \in Nat /\ n \in Nat
    BY <1>1
  <2> QED BY <1>1, <2>1, BytesType, BytesSplit
<1>3. wire \in Seq(Byte) /\ out \in Seq(Byte) /\ wire \o out = handed
  BY DEF TypeOK, StreamConserved
<1>4. /\ handed' = handed \o Bytes(i, IF Fails(i) THEN 0 ELSE 1, n)
      /\ \/ Program[i].kind = "list" /\ SendList(i)
         \/ Program[i].kind = "buf" /\ SendBuf(i)
  BY DEF UserSend
\* Queued behind what is queued already.
<1>5. CASE wire' = wire /\ out' = out \o b /\ ~Fails(i)
  <2>1. handed' = (wire \o out) \o b
    BY <1>3, <1>4, <1>5
  <2>2. wire \in Seq(Byte) /\ out \in Seq(Byte) /\ b \in Seq(Byte)
    BY <1>2, <1>3
  <2> HIDE DEF b
  <2>3. (wire \o out) \o b = wire \o (out \o b)
    BY <2>2, Regroup
  <2> QED BY <1>5, <2>1, <2>3 DEF StreamConserved
\* Written at once, in full or in part.
<1>6. CASE /\ out = <<>> /\ ~Fails(i) /\ wire' = wire \o b /\ out' = <<>>
  <2>1. wire = handed
    BY <1>3, <1>6, ConcatEmptySeq
  <2>2. wire \o b \in Seq(Byte)
    BY <1>2, <1>3, ConcatProperties
  <2>3. handed' = wire \o b
    BY <1>4, <1>6, <2>1
  <2>4. wire' \o out' = wire \o b
    BY <1>6, <2>2, ConcatEmptySeq
  <2> QED BY <2>3, <2>4 DEF StreamConserved
<1>7. CASE /\ out = <<>> /\ ~Fails(i)
           /\ wire' = wire \o Bytes(i, 1, k) /\ out' = Bytes(i, k + 1, n)
  <2>1. wire = handed
    BY <1>3, <1>7, ConcatEmptySeq
  <2>2. handed' = wire \o b
    BY <1>4, <1>7, <2>1
  <2>3. (wire \o Bytes(i, 1, k)) \o Bytes(i, k + 1, n)
          = wire \o (Bytes(i, 1, k) \o Bytes(i, k + 1, n))
    <3>1. /\ wire \in Seq(Byte) /\ Bytes(i, 1, k) \in Seq(Byte)
          /\ Bytes(i, k + 1, n) \in Seq(Byte)
      BY <1>2, <1>3
    <3> QED BY <3>1, Regroup
  <2>4. wire' \o out' = wire \o b
    BY <1>2, <1>7, <2>3
  <2> QED BY <2>2, <2>4 DEF StreamConserved
\* The failed write that is taken for a success of -1 bytes.
<1>8. CASE out = <<>> /\ Fails(i) /\ wire' = wire /\ out' = Bytes(i, 0, n)
  <2>1. wire = handed
    BY <1>3, <1>8, ConcatEmptySeq
  <2>2. handed' = wire \o Bytes(i, 0, n)
    BY <1>4, <1>8, <2>1
  <2> QED BY <1>8, <2>2 DEF StreamConserved
<1>9. CASE Program[i].kind = "list" /\ SendList(i)
  <2>1. ~Fails(i)
    BY <1>9 DEF Fails
  <2>2. wire' = wire /\ out' = out \o b
    BY <1>9 DEF SendList, kernelVars
  <2> QED BY <1>5, <2>1, <2>2
<1>10. CASE Program[i].kind = "buf" /\ SendBuf(i)
  <2>1. CASE out # <<>>
    <3>1. ~Fails(i)
      BY <2>1 DEF Fails
    <3>2. wire' = wire /\ out' = out \o b
      BY <1>10, <2>1, <3>1 DEF SendBuf, kernelVars
    <3> QED BY <1>5, <3>1, <3>2
  <2>2. CASE out = <<>> /\ Fails(i)
    <3>1. wire' = wire /\ out' = Bytes(i, 0, n)
      BY <1>10, <2>2 DEF SendBuf, kernelVars
    <3> QED BY <1>8, <2>2, <3>1
  <2>3. CASE out = <<>> /\ ~Fails(i)
    <3>1. \/ wire' = wire \o b /\ out' = out
          \/ wire' = wire \o Bytes(i, 1, k) /\ out' = Bytes(i, k + 1, n)
      BY <1>10, <2>3 DEF SendBuf, connVars
    <3> QED BY <1>6, <1>7, <2>3, <3>1
  <2> QED BY <2>1, <2>2, <2>3
<1> QED BY <1>4, <1>9, <1>10

\* writev moves bytes from the head of the list to the wire.
LEMMA WriteConserves ==
  ASSUME TypeOK, StreamConserved, FinishWrite(Accepted(Len(out))),
         UNCHANGED handed
  PROVE  StreamConserved'
<1> DEFINE k == Accepted(Len(out))
           head == SubSeq(out, 1, k)
           rest == SubSeq(out, k + 1, Len(out))
<1>1. wire \in Seq(Byte) /\ out \in Seq(Byte) /\ wire \o out = handed
  BY DEF TypeOK, StreamConserved
<1>2. k \in 0..Len(out)
  BY <1>1, LenProperties, AcceptedFits
<1>3. head \in Seq(Byte) /\ rest \in Seq(Byte) /\ head \o rest = out
  BY <1>1, <1>2, Split
<1>4. wire' = wire \o head /\ out' = rest
  BY DEF FinishWrite
<1> HIDE DEF head, rest
<1>5. wire' \o out' = wire \o out
  <2>1. (wire \o head) \o rest = wire \o (head \o rest)
    BY <1>1, <1>3, Regroup
  <2> QED BY <2>1, <1>3, <1>4
<1> QED BY <1>1, <1>5 DEF StreamConserved

(***************************************************************************)
(* What the socket has taken, followed by the output list, is what was     *)
(* handed to Send: OnWrite and both forms of Send lose, repeat and reorder *)
(* nothing (tcpconnection.cpp:81-257), whatever the sizes of the buffers,  *)
(* of the kernel's buffer and of the partial writes.                       *)
(***************************************************************************)
THEOREM StreamIsConserved == Spec => []StreamConserved
<1>1. Init => StreamConserved
  <2> SUFFICES ASSUME Init PROVE StreamConserved
    OBVIOUS
  <2>1. <<>> \in Seq(Byte)
    BY EmptySeq
  <2> QED BY <2>1, ConcatEmptySeq DEF Init, StreamConserved
<1>2. TypeOK /\ StreamConserved /\ [Next]_vars => StreamConserved'
  <2> SUFFICES ASSUME TypeOK, StreamConserved, [Next]_vars
               PROVE  StreamConserved'
    OBVIOUS
  <2>1. CASE UNCHANGED <<wire, out, handed>>
    BY <2>1 DEF StreamConserved
  <2>2. CASE UserSend /\ ~closed
    BY <2>2, SendConserves
  <2>3. CASE FinishWrite(Accepted(Len(out))) /\ UNCHANGED handed
    BY <2>3, WriteConserves
  <2> QED BY <2>1, <2>2, <2>3, StreamSteps
<1> QED BY <1>1, <1>2, TypeCorrect, PTL DEF Spec

-----------------------------------------------------------------------------
(***************************************************************************)
(* An open connection that has something to write is registered for        *)
(* EPOLLOUT: OnWrite gives the interest up only when the list is empty and *)
(* before it calls back, so a Send made by the write-complete callback     *)
(* takes it again (tcpconnection.cpp:81-135, 189-257).                     *)
(***************************************************************************)
THEOREM WritesStayArmed == Spec => []WriteArmed
<1>1. Init => WriteArmed
  BY DEF Init, WriteArmed
<1>2. TypeOK /\ WriteArmed /\ [Next]_vars => WriteArmed'
  <2> SUFFICES ASSUME TypeOK, WriteArmed, [Next]_vars PROVE WriteArmed'
    OBVIOUS
  <2> USE DEF WriteArmed, kernelVars, connVars, userVars
  <2>1. CASE Poll BY <2>1 DEF Poll
  <2>2. CASE DispatchError BY <2>2 DEF DispatchError
  <2>3. CASE BeginRead BY <2>3 DEF BeginRead
  <2>4. CASE ReadSome BY <2>4 DEF ReadSome
  <2>5. CASE ReadEnd BY <2>5 DEF ReadEnd, OnClose
  <2>6. CASE Write
    <3>1. CASE closed \/ out = <<>> \/ reset # "no"
      BY <2>6, <3>1 DEF Write, OnClose
    <3>2. CASE ~(closed \/ out = <<>> \/ reset # "no")
      <4> DEFINE k == Accepted(Len(out))
      <4>1. FinishWrite(k) /\ closed' = closed
        BY <2>6, <3>2 DEF Write
      <4>2. k \in 0..Len(out) /\ out \in Seq(Byte)
        BY LenProperties, AcceptedFits DEF TypeOK
      <4> HIDE DEF k
      <4>3. CASE k = Len(out)
        <5>1. out' \in Seq(Byte) /\ Len(out') = 0
          BY <4>1, <4>2, <4>3, Split, LenProperties DEF FinishWrite
        <5>2. out' = <<>>
          BY <5>1, EmptySeq
        <5> QED BY <5>2
      <4>4. CASE k # Len(out)
        BY <4>1, <4>4, <3>2 DEF FinishWrite
      <4> QED BY <4>3, <4>4
    <3> QED BY <3>1, <3>2
  <2>7. CASE UserReturn BY <2>7 DEF UserReturn
  <2>8. CASE NoTick BY <2>8 DEF NoTick
  <2>9. CASE Tick BY <2>9 DEF Tick, OnClose
  <2>10. CASE UserSend
    BY <2>10 DEF UserSend, SendList, SendBuf, EnableWriting
  <2>11. CASE ForceClose BY <2>11 DEF ForceClose, OnClose
  <2>12. CASE Arrive BY <2>12 DEF Arrive
  <2>13. CASE PeerFin BY <2>13 DEF PeerFin
  <2>14. CASE PeerReset BY <2>14 DEF PeerReset
  <2>15. CASE Drain BY <2>15 DEF Drain
  <2>16. CASE UNCHANGED vars BY <2>16 DEF vars
  <2> QED
    BY <2>1, <2>2, <2>3, <2>4, <2>5, <2>6, <2>7, <2>8, <2>9, <2>10, <2>11,
       <2>12, <2>13, <2>14, <2>15, <2>16 DEF Next, LoopThread
<1> QED BY <1>1, <1>2, TypeCorrect, PTL DEF Spec

-----------------------------------------------------------------------------
(* Timers: TimingWheel                                                      *)

Refs(v) == [timer : Timers, rest : 0..(Unit[v] - 1)]

-----------------------------------------------------------------------------
(* Arithmetic                                                                *)

LEMMA Constants ==
  /\ Min \in Nat /\ Min >= 2 /\ Hour \in Nat /\ Hour >= 1 /\ Day \in Nat /\ Day >= 1
  /\ Days \in Nat /\ Days >= 1 /\ Hour % Min = 0 /\ Day % Hour = 0
BY WheelAssumption

LEMMA Division ==
  ASSUME NEW n \in Nat, NEW k \in Nat \ {0}
  PROVE  /\ n \div k \in Nat /\ n % k \in 0..(k - 1)
         /\ n = k * (n \div k) + (n % k)
<1>1. n \div k \in Int /\ n \div k >= 0
  OBVIOUS
<1>2. n % k \in 0..(k - 1)
  OBVIOUS
<1>3. n = k * (n \div k) + (n % k)
  OBVIOUS
<1> QED BY <1>1, <1>2, <1>3

LEMMA Unique ==
  ASSUME NEW k \in Nat \ {0}, NEW q \in Int, NEW r \in 0..(k - 1)
  PROVE  (k * q + r) % k = r
OBVIOUS

\* A product grows with its factor.
LEMMA Grows ==
  ASSUME NEW k \in Nat, NEW a \in Int, NEW b \in Int, a <= b
  PROVE  k * a <= k * b
OBVIOUS

\* A multiple of Hour is one of Min, and so the wheels above never turn.
LEMMA MultipleOfMultiple ==
  ASSUME NEW n \in Nat, n % Hour = 0
  PROVE  n % Min = 0
<1> DEFINE a == n \div Hour
           b == Hour \div Min
<1>1. a \in Nat /\ n = Hour * a
  BY Constants, Division
<1>2. b \in Nat /\ Hour = Min * b
  BY Constants, Division
<1> HIDE DEF a, b
<1>3. n = Min * (b * a) + 0
  <2>1. \A x, y, z \in Nat : (x * y) * z = x * (y * z)
    OBVIOUS
  <2>2. n = (Min * b) * a
    BY <1>1, <1>2
  <2> QED BY <1>1, <1>2, <2>1, <2>2, Constants
<1>4. b * a \in Int
  BY <1>1, <1>2
<1>5. \A q \in Int : (Min * q + 0) % Min = 0
  BY Unique, Constants
<1> QED BY <1>3, <1>4, <1>5

\* The tick of the minute wheel's last turn.
LEMMA NextTick ==
  ASSUME NEW n \in Nat
  PROVE  /\ n % Min \in 0..(Min - 1)
         /\ (n + 1) % Min = 0 => n % Min = Min - 1
         /\ (n + 1) % Min # 0 => (n + 1) % Min = (n % Min) + 1
<1> DEFINE q == n \div Min
           r == n % Min
<1>1. q \in Nat /\ r \in 0..(Min - 1) /\ n = Min * q + r
  <2>1. Min \in Nat \ {0}
    BY Constants
  <2>2. /\ n \div Min \in Nat /\ n % Min \in 0..(Min - 1)
        /\ n = Min * (n \div Min) + (n % Min)
    BY <2>1, Division, Zenon
  <2> QED BY <2>2
<1> HIDE DEF q, r
<1>2. CASE r = Min - 1
  <2>1. n + 1 = Min * (q + 1) + 0
    BY <1>1, <1>2, Constants
  <2>2. (n + 1) % Min = 0
    BY <1>1, <2>1, Unique, Constants
  <2> QED BY <1>1, <1>2, <2>2 DEF r
<1>3. CASE r < Min - 1
  <2>1. n + 1 = Min * q + (r + 1) /\ r + 1 \in 0..(Min - 1)
    BY <1>1, <1>3, Constants
  <2>2. (n + 1) % Min = r + 1
    BY <1>1, <2>1, Unique, Constants
  <2> QED BY <1>1, <2>2 DEF r
<1> QED BY <1>1, <1>2, <1>3, Constants

-----------------------------------------------------------------------------
(* Levels and slots                                                          *)

LEMMA LevelValues ==
  /\ Unit["second"] = 1 /\ Unit["minute"] = Min
  /\ Unit["hour"] = Hour /\ Unit["day"] = Day
  /\ Size["second"] = Min /\ Size["minute"] = Hour \div Min
  /\ Size["hour"] = Day \div Hour /\ Size["day"] = Days
BY DEF Unit, Size, Levels

\* Each wheel has at least one slot, and the sizes and units make up each other.
LEMMA WheelSizes ==
  /\ \A v \in Levels : Size[v] \in Nat /\ Size[v] >= 1 /\ Unit[v] \in Nat \ {0}
  /\ Hour = Min * Size["minute"] /\ Day = Hour * Size["hour"]
  /\ Min <= Hour /\ Hour <= Day
<1> DEFINE a == Hour \div Min
           b == Day \div Hour
<1>1. a \in Nat /\ Hour = Min * a
  BY Constants, Division
<1>2. b \in Nat /\ Day = Hour * b
  BY Constants, Division
<1>3. Size["minute"] = a /\ Size["hour"] = b
  BY LevelValues
<1> HIDE DEF a, b
<1>4. a >= 1 /\ b >= 1
  BY <1>1, <1>2, Constants
<1>5. Min <= Hour /\ Hour <= Day
  BY <1>1, <1>2, <1>4, Constants
<1> QED BY <1>1, <1>2, <1>3, <1>4, <1>5, LevelValues, Constants DEF Levels

\* A delay that can be stored has a slot, and what it leaves is less than a unit.
LEMMA Slots ==
  ASSUME NEW d \in Nat, Storable(d)
  PROVE  /\ Level(d) \in Levels
         /\ Slot(d) \in 1..Size[Level(d)]
         /\ Rest(d) \in 0..(Unit[Level(d)] - 1)
         /\ d = Unit[Level(d)] * Slot(d) + Rest(d)
         /\ d < Min => Level(d) = "second"
         /\ ~(d < Min) /\ d < Hour => Level(d) = "minute"
<1> DEFINE v == Level(d)
<1>1. v \in Levels
  BY DEF Level, Levels
<1>2. Unit[v] \in Nat \ {0}
  BY <1>1, WheelSizes
<1>3. /\ Slot(d) \in Nat /\ Rest(d) \in 0..(Unit[v] - 1)
      /\ d = Unit[v] * Slot(d) + Rest(d)
  BY <1>2, Division DEF Slot, Rest
<1>4. d \in Nat /\ d > 0 /\ d < Day * (Days + 1)
  BY DEF Storable
<1>5. /\ Unit[v] <= d /\ d < Unit[v] * (Size[v] + 1)
  <2>1. CASE d < Min
    BY <1>4, <2>1, LevelValues, Constants DEF Level
  <2>2. CASE ~(d < Min) /\ d < Hour
    <3>1. v = "minute" /\ Unit[v] = Min
      BY <2>2, LevelValues DEF Level
    <3>2. Size[v] \in Nat /\ Hour = Min * Size[v]
      BY <1>1, <3>1, WheelSizes
    <3>3. Min * (Size[v] + 1) = Min * Size[v] + Min
      BY <3>2, Constants
    <3> QED BY <1>4, <2>2, <3>1, <3>2, <3>3, Constants
  <2>3. CASE ~(d < Min) /\ ~(d < Hour) /\ d < Day
    <3>1. v = "hour" /\ Unit[v] = Hour
      BY <2>3, LevelValues DEF Level
    <3>2. Size[v] \in Nat /\ Day = Hour * Size[v]
      BY <1>1, <3>1, WheelSizes
    <3>3. Hour * (Size[v] + 1) = Hour * Size[v] + Hour
      BY <3>2, Constants
    <3> QED BY <1>4, <2>3, <3>1, <3>2, <3>3, Constants
  <2>4. CASE ~(d < Min) /\ ~(d < Hour) /\ ~(d < Day)
    BY <1>4, <2>4, LevelValues, WheelSizes, Constants DEF Level, Levels
  <2> QED BY <2>1, <2>2, <2>3, <2>4
<1>6. Size[v] \in Nat
  BY <1>1, WheelSizes
<1>7. Slot(d) >= 1 /\ Slot(d) <= Size[v]
  <2> DEFINE u == Unit[v]
             z == Size[v]
             q == Slot(d)
             r == Rest(d)
  <2>1. /\ u \in Nat \ {0} /\ z \in Nat /\ q \in Nat /\ r \in 0..(u - 1)
        /\ d = u * q + r /\ u <= d /\ d < u * (z + 1)
    BY <1>2, <1>3, <1>5, <1>6
  <2> HIDE DEF u, z, q, r
  <2>2. q # 0
    BY <2>1
  <2>3. ~(q >= z + 1)
    <3> SUFFICES ASSUME q >= z + 1 PROVE FALSE
      OBVIOUS
    <3>1. u * (z + 1) <= u * q
      BY <2>1, Grows
    <3> QED BY <2>1, <3>1, <1>4
  <2> QED BY <2>1, <2>2, <2>3 DEF q, z
<1>8. /\ d < Min => v = "second"
      /\ ~(d < Min) /\ d < Hour => v = "minute"
  BY DEF Level
<1> QED BY <1>1, <1>3, <1>6, <1>7, <1>8

-----------------------------------------------------------------------------
(* Insertions                                                                *)

\* Reference r is in slot i of level v of w.
Holds(w, v, i, r) == v \in Levels /\ i \in 1..Size[v] /\ r \in w[v][i]

\* Inserting the pairs of S puts reference r into slot i of level v.
Puts(S, v, i, r) ==
  \E d \in Nat, x \in Timers :
    /\ <<d, x>> \in S /\ Storable(d)
    /\ v = Level(d) /\ i = Slot(d) /\ r = Ref(x, Rest(d))

LEMMA Inserted ==
  ASSUME NEW w, WheelsOK(w), NEW S \in SUBSET (Nat \X Timers)
  PROVE  /\ WheelsOK(InsertAll(w, S))
         /\ \A v, i, r : Holds(InsertAll(w, S), v, i, r) <=>
                           Holds(w, v, i, r) \/ Puts(S, v, i, r)
<1> DEFINE new(v, i) == {Ref(e[2], Rest(e[1])) :
                           e \in {f \in S : /\ Storable(f[1])
                                            /\ Level(f[1]) = v
                                            /\ Slot(f[1]) = i}}
           all == InsertAll(w, S)
<1>1. all = [v \in Levels |-> [i \in 1..Size[v] |-> w[v][i] \cup new(v, i)]]
  BY DEF InsertAll
<1>2. ASSUME NEW v \in Levels, NEW i \in 1..Size[v], NEW r
      PROVE  r \in new(v, i) <=> Puts(S, v, i, r)
  <2>1. ASSUME r \in new(v, i) PROVE Puts(S, v, i, r)
    <3>1. PICK e \in S : /\ Storable(e[1]) /\ Level(e[1]) = v /\ Slot(e[1]) = i
                         /\ r = Ref(e[2], Rest(e[1]))
      BY <2>1
    <3>2. e[1] \in Nat /\ e[2] \in Timers /\ e = <<e[1], e[2]>>
      OBVIOUS
    <3> QED BY <3>1, <3>2 DEF Puts
  <2>2. ASSUME Puts(S, v, i, r) PROVE r \in new(v, i)
    <3>1. PICK d \in Nat, x \in Timers :
            /\ <<d, x>> \in S /\ Storable(d)
            /\ v = Level(d) /\ i = Slot(d) /\ r = Ref(x, Rest(d))
      BY <2>2 DEF Puts
    <3>2. <<d, x>>[1] = d /\ <<d, x>>[2] = x
      OBVIOUS
    <3> QED BY <3>1, <3>2
  <2> QED BY <2>1, <2>2
<1>3. ASSUME NEW v, NEW i, NEW r, Puts(S, v, i, r)
      PROVE  v \in Levels /\ i \in 1..Size[v] /\ r \in Refs(v)
  <2>1. PICK d \in Nat, x \in Timers :
          /\ <<d, x>> \in S /\ Storable(d)
          /\ v = Level(d) /\ i = Slot(d) /\ r = Ref(x, Rest(d))
    BY <1>3 DEF Puts
  <2>2. v \in Levels /\ i \in 1..Size[v] /\ Rest(d) \in 0..(Unit[v] - 1)
    BY <2>1, Slots
  <2> QED BY <2>1, <2>2 DEF Refs, Ref
<1> HIDE DEF new, all
<1>4. WheelsOK(all)
  <2>1. ASSUME NEW v \in Levels, NEW i \in 1..Size[v]
        PROVE  w[v][i] \cup new(v, i) \in SUBSET Refs(v)
    <3>1. w[v][i] \in SUBSET Refs(v)
      BY DEF WheelsOK, Refs
    <3>2. new(v, i) \subseteq Refs(v)
      BY <1>2, <1>3
    <3> QED BY <3>1, <3>2
  <2>2. DOMAIN all = Levels
    BY <1>1
  <2>3. \A v \in Levels : all[v] \in [1..Size[v] -> SUBSET Refs(v)]
    BY <1>1, <2>1
  <2> QED BY <2>2, <2>3 DEF WheelsOK, Refs
<1>5. ASSUME NEW v, NEW i, NEW r
      PROVE  Holds(all, v, i, r) <=> Holds(w, v, i, r) \/ Puts(S, v, i, r)
  <2>1. CASE v \in Levels /\ i \in 1..Size[v]
    BY <1>1, <1>2, <2>1 DEF Holds
  <2>2. CASE ~(v \in Levels /\ i \in 1..Size[v])
    BY <1>3, <2>2 DEF Holds
  <2> QED BY <2>1, <2>2
<1> QED BY <1>4, <1>5 DEF all

\* A reference that wheels hold is typed.
LEMMA HeldType ==
  ASSUME NEW w, WheelsOK(w), NEW v, NEW i, NEW r, Holds(w, v, i, r)
  PROVE  /\ v \in Levels /\ i \in 1..Size[v] /\ r \in Refs(v)
         /\ i \in Nat /\ i >= 1
         /\ r.timer \in Timers /\ r.rest \in Nat /\ r.rest < Unit[v]
         /\ r = Ref(r.timer, r.rest)
<1>1. v \in Levels /\ i \in 1..Size[v] /\ r \in Refs(v)
  BY DEF Holds, WheelsOK, Refs
<1>2. Size[v] \in Nat /\ Unit[v] \in Nat
  BY <1>1, WheelSizes
<1> QED BY <1>1, <1>2 DEF Refs, Ref

LEMMA ReferencedHeld ==
  ASSUME NEW w, NEW x
  PROVE  x \in Referenced(w) <=>
           x \in Timers /\ \E v, i, r : Holds(w, v, i, r) /\ r.timer = x
BY DEF Referenced, Holds

-----------------------------------------------------------------------------
(* A turn of a lower wheel                                                   *)

Rotated(w, v) == [w EXCEPT ![v] = Append(Tail(@), {})]

LEMMA Rotation ==
  ASSUME NEW w, WheelsOK(w), NEW v \in Levels
  PROVE  /\ WheelsOK(Rotated(w, v))
         /\ \A u, i, r : Holds(Rotated(w, v), u, i, r) <=>
                           \/ u # v /\ Holds(w, u, i, r)
                           \/ u = v /\ i \in 1..Size[v] /\ Holds(w, v, i + 1, r)
<1> DEFINE n == Size[v]
           q == w[v]
           T == Append(Tail(q), {})
           R == Rotated(w, v)
<1>1. n \in Nat /\ n >= 1
  BY WheelSizes
<1>2. q \in [1..n -> SUBSET Refs(v)]
  BY DEF WheelsOK, Refs
<1> HIDE DEF n, q
<1>3. q \in Seq(SUBSET Refs(v)) /\ Len(q) = n /\ q # <<>>
  BY <1>1, <1>2
<1>4. /\ Tail(q) \in Seq(SUBSET Refs(v)) /\ Len(Tail(q)) = n - 1
      /\ \A i \in 1..(n - 1) : Tail(q)[i] = q[i + 1]
  BY <1>1, <1>3, HeadTailProperties
<1>5. /\ T \in Seq(SUBSET Refs(v)) /\ Len(T) = n
      /\ \A i \in 1..(n - 1) : T[i] = q[i + 1]
      /\ T[n] = {}
  <2>1. {} \in SUBSET Refs(v)
    OBVIOUS
  <2>2. /\ T \in Seq(SUBSET Refs(v)) /\ Len(T) = Len(Tail(q)) + 1
        /\ \A i \in 1..Len(Tail(q)) : T[i] = Tail(q)[i]
        /\ T[Len(Tail(q)) + 1] = {}
    BY <1>4, <2>1, AppendProperties
  <2> QED BY <1>1, <1>4, <2>2
<1> HIDE DEF T
<1>6. T \in [1..n -> SUBSET Refs(v)]
  BY <1>5, LenProperties
<1>7. DOMAIN R = Levels /\ R[v] = T /\ \A u \in Levels \ {v} : R[u] = w[u]
  BY DEF Rotated, WheelsOK, T, q
<1> HIDE DEF R
<1>8. WheelsOK(R)
  BY <1>6, <1>7 DEF WheelsOK, Refs, n
<1>9. ASSUME NEW u, NEW i, NEW r
      PROVE  Holds(R, u, i, r) <=>
               \/ u # v /\ Holds(w, u, i, r)
               \/ u = v /\ i \in 1..n /\ Holds(w, v, i + 1, r)
  <2>1. CASE u # v
    BY <1>7, <2>1 DEF Holds
  <2>2. CASE u = v
    <3>1. Holds(R, u, i, r) <=> i \in 1..n /\ r \in T[i]
      BY <1>7, <2>2 DEF Holds, n
    <3>2. \A j \in 1..n : Holds(w, v, j + 1, r) <=> j \in 1..(n - 1) /\ r \in q[j + 1]
      BY <1>1 DEF Holds, n, q
    <3>3. ASSUME NEW j \in 1..n
          PROVE  r \in T[j] <=> j \in 1..(n - 1) /\ r \in q[j + 1]
      <4>1. CASE j = n
        BY <1>1, <1>5, <4>1
      <4>2. CASE j # n
        BY <1>1, <1>5, <4>2
      <4> QED BY <4>1, <4>2
    <3> QED BY <2>2, <3>1, <3>2, <3>3
  <2> QED BY <2>1, <2>2
<1> QED BY <1>8, <1>9 DEF R, n

\* The slot in front is taken away and its wrappers are inserted one level down.
Lowered(w, v) ==
  InsertAll(Rotated(w, v), {<<r.rest, r.timer>> : r \in w[v][1]})

LEMMA Lowering ==
  ASSUME NEW w, WheelsOK(w), NEW v \in Lower
  PROVE  /\ WheelsOK(Lowered(w, v))
         /\ \A u, i, r :
              Holds(Lowered(w, v), u, i, r) <=>
                \/ u # v /\ Holds(w, u, i, r)
                \/ u = v /\ i \in 1..Size[v] /\ Holds(w, v, i + 1, r)
                \/ /\ v = "minute" /\ u = "second"
                   /\ \E q : /\ Holds(w, v, 1, q) /\ q.rest > 0
                             /\ i = q.rest /\ r = Ref(q.timer, 0)
<1> DEFINE S == {<<r.rest, r.timer>> : r \in w[v][1]}
<1>1. v \in Levels /\ 1 \in 1..Size[v]
  BY WheelSizes DEF Lower, Levels
<1>2. \A q : q \in w[v][1] <=> Holds(w, v, 1, q)
  BY <1>1 DEF Holds
<1>3. S \in SUBSET (Nat \X Timers)
  BY <1>2, HeldType
<1>4. ASSUME NEW q, Holds(w, v, 1, q), q.rest > 0
      PROVE  /\ v = "minute" /\ Storable(q.rest) /\ Level(q.rest) = "second"
             /\ Slot(q.rest) = q.rest /\ Rest(q.rest) = 0
  <2>1. q.rest \in Nat /\ q.rest < Unit[v]
    BY <1>4, HeldType
  <2>2. v = "minute" /\ q.rest < Min
    BY <1>4, <2>1, LevelValues DEF Lower
  <2>3. Level(q.rest) = "second"
    BY <2>2 DEF Level
  <2>4. Storable(q.rest)
    <3>1. Min <= Day /\ Day * (Days + 1) >= Day
      BY Constants, WheelSizes
    <3> QED BY <1>4, <2>1, <2>2, <3>1, Constants DEF Storable
  <2>5. Slot(q.rest) = q.rest /\ Rest(q.rest) = 0
    BY <2>1, <2>3, LevelValues DEF Slot, Rest
  <2> QED BY <2>2, <2>3, <2>4, <2>5
<1>5. ASSUME NEW u, NEW i, NEW r
      PROVE  Puts(S, u, i, r) <=>
               /\ v = "minute" /\ u = "second"
               /\ \E q : /\ Holds(w, v, 1, q) /\ q.rest > 0
                         /\ i = q.rest /\ r = Ref(q.timer, 0)
  <2>1. ASSUME Puts(S, u, i, r)
        PROVE  /\ v = "minute" /\ u = "second"
               /\ \E q : /\ Holds(w, v, 1, q) /\ q.rest > 0
                         /\ i = q.rest /\ r = Ref(q.timer, 0)
    <3>1. PICK d \in Nat, x \in Timers :
            /\ <<d, x>> \in S /\ Storable(d)
            /\ u = Level(d) /\ i = Slot(d) /\ r = Ref(x, Rest(d))
      BY <2>1 DEF Puts
    <3>2. PICK q \in w[v][1] : <<d, x>> = <<q.rest, q.timer>>
      BY <3>1
    <3>3. d = q.rest /\ x = q.timer /\ Holds(w, v, 1, q)
      BY <1>2, <3>2
    <3>4. q.rest > 0
      BY <3>1, <3>3 DEF Storable
    <3> QED BY <1>4, <3>1, <3>3, <3>4
  <2>2. ASSUME NEW q, Holds(w, v, 1, q), q.rest > 0,
               u = "second", i = q.rest, r = Ref(q.timer, 0)
        PROVE  Puts(S, u, i, r)
    <3>1. q.rest \in Nat /\ q.timer \in Timers
      BY <1>1, <2>2, HeldType
    <3>2. <<q.rest, q.timer>> \in S
      BY <1>2, <2>2
    <3> QED BY <1>4, <2>2, <3>1, <3>2 DEF Puts
  <2> QED BY <2>1, <2>2
<1> HIDE DEF S
<1>6. WheelsOK(Rotated(w, v))
  BY <1>1, Rotation
<1>7. /\ WheelsOK(InsertAll(Rotated(w, v), S))
      /\ \A u, i, r : Holds(InsertAll(Rotated(w, v), S), u, i, r) <=>
                        Holds(Rotated(w, v), u, i, r) \/ Puts(S, u, i, r)
  BY <1>3, <1>6, Inserted
<1>8. Lowered(w, v) = InsertAll(Rotated(w, v), S)
  BY DEF Lowered, S
<1> QED BY <1>1, <1>5, <1>7, <1>8, Rotation

-----------------------------------------------------------------------------
(* References and the times at which they are used up                        *)

LEMMA DueBounds ==
  ASSUME NEW w, WheelsOK(w), NEW v \in Lower, NEW i, NEW r, Holds(w, v, i, r),
         NEW t \in Int, NEW m \in Int, t <= m + Min
  PROVE  /\ Due(v, i, r, t, m) \in Int
         /\ t <= Due(v, i, r, t, m)
         /\ t < m + Min => t < Due(v, i, r, t, m)
<1>1. i \in Nat /\ i >= 1 /\ r.rest \in Nat
  BY HeldType
<1>2. Min * i \in Nat /\ Min * i >= Min
  <2>1. Min * 1 <= Min * i
    BY <1>1, Constants, Grows
  <2> QED BY <1>1, <2>1, Constants
<1> QED BY <1>1, <1>2, Constants DEF Due

\* In terms of Holds.
LEMMA TimelyHeld ==
  ASSUME NEW w, NEW t, NEW m, NEW s
  PROVE  Timely(w, t, m, s) <=>
           \A v, i, r : Holds(w, v, i, r) /\ Delay[r.timer] < Hour =>
             v \in Lower /\ Due(v, i, r, t, m) <= s[r.timer] + Delay[r.timer]
BY DEF Timely, Holds

LEMMA KeptHeld ==
  ASSUME NEW w, NEW t, NEW m, NEW s
  PROVE  Kept(w, t, m, s) <=>
           \A x \in Referenced(w) :
             \E v, i, r : Holds(w, v, i, r) /\ Keeps(x, v, i, r, t, m, s)
BY DEF Kept, Holds

\* Inserting the timers of X at tick t.
Armed(w, X) == InsertAll(w, {<<Delay[x], x>> : x \in X})

\* Insertions keep the invariant, when the history takes them into account.
LEMMA Arming ==
  ASSUME NEW w, WheelsOK(w), NEW X \in SUBSET Timers,
         NEW t \in Int, NEW m \in Int, t <= m + Min, m <= t,
         NEW s \in [Timers -> Int], NEW s1 \in [Timers -> Int],
         \A x \in X : s1[x] = t /\ s[x] <= t,
         \A x \in Timers \ X : s1[x] = s[x],
         \A x \in X : Storable(Delay[x]) \/ x \notin Referenced(w),
         Timely(w, t, m, s), Kept(w, t, m, s)
  PROVE  /\ WheelsOK(Armed(w, X))
         /\ Referenced(Armed(w, X)) =
              Referenced(w) \cup {x \in X : Storable(Delay[x])}
         /\ Timely(Armed(w, X), t, m, s1)
         /\ Kept(Armed(w, X), t, m, s1)
<1> DEFINE S == {<<Delay[x], x>> : x \in X}
           a == Armed(w, X)
           New(x, v, i, r) == /\ Storable(Delay[x])
                              /\ v = Level(Delay[x]) /\ i = Slot(Delay[x])
                              /\ r = Ref(x, Rest(Delay[x]))
<1>1. \A x \in X : Delay[x] \in Nat /\ x \in Timers
  BY TimerAssumption
<1>2. S \in SUBSET (Nat \X Timers)
  BY <1>1
<1>3. ASSUME NEW v, NEW i, NEW r
      PROVE  Puts(S, v, i, r) <=> \E x \in X : New(x, v, i, r)
  <2>1. ASSUME Puts(S, v, i, r) PROVE \E x \in X : New(x, v, i, r)
    <3>1. PICK d \in Nat, x \in Timers :
            /\ <<d, x>> \in S /\ Storable(d)
            /\ v = Level(d) /\ i = Slot(d) /\ r = Ref(x, Rest(d))
      BY <2>1 DEF Puts
    <3>2. PICK y \in X : <<d, x>> = <<Delay[y], y>>
      BY <3>1
    <3>3. d = Delay[x] /\ x \in X
      BY <3>2
    <3> QED BY <3>1, <3>3
  <2>2. ASSUME NEW x \in X, New(x, v, i, r) PROVE Puts(S, v, i, r)
    <3>1. <<Delay[x], x>> \in S /\ Delay[x] \in Nat /\ x \in Timers
      BY <1>1
    <3> QED BY <2>2, <3>1 DEF Puts
  <2> QED BY <2>1, <2>2
<1>4. a = InsertAll(w, S)
  BY DEF Armed
<1> HIDE DEF S, a
<1>5. /\ WheelsOK(a)
      /\ \A v, i, r : Holds(a, v, i, r) <=>
                        Holds(w, v, i, r) \/ \E x \in X : New(x, v, i, r)
  BY <1>2, <1>3, <1>4, Inserted
\* When the new references are used up.
<1>6. ASSUME NEW x \in X, NEW v, NEW i, NEW r, New(x, v, i, r)
      PROVE  /\ r.timer = x
             /\ Delay[x] < Hour => v \in Lower
             /\ v \in Lower => /\ Due(v, i, r, t, m) <= t + Delay[x]
                               /\ t + Delay[x] <= Due(v, i, r, t, m) + Slack(x)
  <2> DEFINE d == Delay[x]
  <2>1. d \in Nat /\ Storable(d) /\ v = Level(d) /\ i = Slot(d)
    BY <1>1, <1>6
  <2>2. /\ i \in 1..Size[v] /\ Rest(d) \in 0..(Unit[v] - 1)
        /\ d = Unit[v] * i + Rest(d) /\ v \in Levels
        /\ d < Min => v = "second"
        /\ ~(d < Min) /\ d < Hour => v = "minute"
    BY <2>1, Slots
  <2>3. r.timer = x /\ r.rest = Rest(d)
    BY <1>6 DEF Ref
  <2>4. d < Hour => v \in Lower
    BY <2>1, <2>2 DEF Lower
  <2>5. CASE v = "second"
    <3>1. Rest(d) = 0 /\ d = i
      BY <2>2, <2>5, LevelValues, WheelSizes
    <3>2. Due(v, i, r, t, m) = t + d
      BY <2>5, <3>1 DEF Due
    <3> QED BY <2>1, <2>3, <2>4, <3>2, Constants DEF Slack
  <2>6. CASE v = "minute"
    <3>1. d = Min * i + Rest(d) /\ i \in Nat /\ Rest(d) \in Nat
      BY <2>2, <2>6, LevelValues, WheelSizes
    <3>2. Due(v, i, r, t, m) = m + d
      BY <2>3, <2>6, <3>1, Constants DEF Due
    <3>3. ~(d < Min)
      BY <2>1, <2>6 DEF Level
    <3> QED BY <2>1, <2>3, <2>4, <3>2, <3>3, Constants DEF Slack
  <2> QED BY <2>3, <2>4, <2>5, <2>6 DEF Lower
<1>7. \A x \in X : Storable(Delay[x]) => \E v, i, r : New(x, v, i, r)
  OBVIOUS
<1> HIDE DEF New
<1>8. Referenced(a) = Referenced(w) \cup {x \in X : Storable(Delay[x])}
  <2>1. \A x \in X : \A v, i, r : New(x, v, i, r) => Storable(Delay[x])
    BY DEF New
  <2>2. \A x : x \in Referenced(a) <=>
                  x \in Referenced(w) \/ (x \in X /\ Storable(Delay[x]))
    BY <1>1, <1>5, <1>6, <1>7, <2>1, ReferencedHeld
  <2> QED BY <2>2
<1>9. Timely(a, t, m, s1)
  <2> SUFFICES ASSUME NEW v, NEW i, NEW r, Holds(a, v, i, r), Delay[r.timer] < Hour
               PROVE  /\ v \in Lower
                      /\ Due(v, i, r, t, m) <= s1[r.timer] + Delay[r.timer]
    BY TimelyHeld
  <2>1. CASE Holds(w, v, i, r)
    <3>1. v \in Lower /\ Due(v, i, r, t, m) <= s[r.timer] + Delay[r.timer]
      BY <2>1, TimelyHeld
    <3>2. r.timer \in Timers
      BY <2>1, HeldType
    <3>3. Due(v, i, r, t, m) \in Int
      BY <2>1, <3>1, DueBounds
    <3>4. s[r.timer] <= s1[r.timer] /\ s[r.timer] \in Int /\ s1[r.timer] \in Int
      BY <3>2
    <3>5. Delay[r.timer] \in Nat
      BY <3>2, TimerAssumption
    <3> QED BY <3>1, <3>3, <3>4, <3>5
  <2>2. CASE \E x \in X : New(x, v, i, r)
    BY <1>6, <2>2
  <2> QED BY <1>5, <2>1, <2>2
<1>10. Kept(a, t, m, s1)
  <2> SUFFICES ASSUME NEW x \in Referenced(a)
               PROVE  \E v, i, r : Holds(a, v, i, r) /\ Keeps(x, v, i, r, t, m, s1)
    BY KeptHeld
  <2>1. CASE x \in X
    <3>1. Storable(Delay[x])
      BY <1>8, <2>1
    <3>2. PICK v, i, r : New(x, v, i, r)
      BY <1>7, <2>1, <3>1
    <3>3. Holds(a, v, i, r) /\ s1[x] = t
      BY <1>5, <2>1, <3>2
    <3>4. r.timer = x /\ (v \in Lower => t + Delay[x] <= Due(v, i, r, t, m) + Slack(x))
      BY <1>6, <2>1, <3>2
    <3>5. Keeps(x, v, i, r, t, m, s1)
      <4>1. v \in Lower => Due(v, i, r, t, m) \in Int
        BY <1>5, <3>3, DueBounds
      <4>2. Slack(x) \in Int /\ Delay[x] \in Int
        BY <1>1, <2>1, Constants DEF Slack
      <4> QED BY <3>3, <3>4, <4>1, <4>2 DEF Keeps
    <3> QED BY <3>3, <3>5
  <2>2. CASE x \notin X
    <3>1. x \in Referenced(w) /\ x \in Timers
      BY <1>8, <2>2 DEF Referenced
    <3>2. PICK v, i, r : Holds(w, v, i, r) /\ Keeps(x, v, i, r, t, m, s)
      BY <3>1, KeptHeld
    <3>3. s1[x] = s[x]
      BY <2>2, <3>1
    <3> QED BY <1>5, <3>2, <3>3 DEF Keeps
  <2> QED BY <2>1, <2>2
<1> QED BY <1>5, <1>8, <1>9, <1>10 DEF a

-----------------------------------------------------------------------------
(* What a turn keeps                                                         *)

\* Wheel v turns, the minute wheel at the end of a minute: t, m become t1, m1.
Turns(v, t, m, t1, m1) ==
  IF v = "second" THEN t1 = t + 1 /\ m1 = m ELSE t1 = t /\ m1 = t /\ t = m + Min

\* Reference r in slot i of level v at t1, m1 stands for k in slot j of p before.
Same(v, i, r, t1, m1, p, j, k, t, m) ==
  /\ r.timer = k.timer
  /\ v \in Lower <=> p \in Lower
  /\ p \in Lower => Due(v, i, r, t1, m1) = Due(p, j, k, t, m)

\* References are moved, or used up when they are in front and leave nothing.
LEMMA Moves ==
  ASSUME NEW w, WheelsOK(w), NEW v \in Lower,
         NEW t \in Int, NEW m \in Int, NEW t1 \in Int, NEW m1 \in Int,
         Turns(v, t, m, t1, m1)
  PROVE  /\ \A u, i, r : Holds(Lowered(w, v), u, i, r) =>
              \E p, j, k : Holds(w, p, j, k) /\ Same(u, i, r, t1, m1, p, j, k, t, m)
         /\ \A p, j, k : Holds(w, p, j, k) =>
              \/ \E u, i, r : /\ Holds(Lowered(w, v), u, i, r)
                              /\ Same(u, i, r, t1, m1, p, j, k, t, m)
              \/ p = v /\ j = 1 /\ k.rest = 0
<1> DEFINE L == Lowered(w, v)
\* The three ways to move: in another wheel, one slot on, and down.
<1>1. ASSUME NEW u, NEW i, NEW r, u # v, Holds(w, u, i, r)
      PROVE  Same(u, i, r, t1, m1, u, i, r, t, m)
  <2>1. CASE u = "second" /\ v = "minute"
    <3>1. t1 = t
      BY <2>1 DEF Turns
    <3> QED BY <2>1, <3>1 DEF Same, Due
  <2>2. CASE u = "minute" /\ v = "second"
    <3>1. m1 = m
      BY <2>2 DEF Turns
    <3> QED BY <2>2, <3>1 DEF Same, Due
  <2>3. CASE u \notin Lower
    BY <2>3 DEF Same
  <2>4. \/ u \notin Lower
        \/ u = "second" /\ v = "minute"
        \/ u = "minute" /\ v = "second"
    <3>1. v \in {"second", "minute"} /\ u # v
      BY <1>1 DEF Lower
    <3>2. u \in Lower => u \in {"second", "minute"}
      BY DEF Lower
    <3> QED BY <3>1, <3>2
  <2> QED BY <2>1, <2>2, <2>3, <2>4
<1>2. ASSUME NEW i \in Nat, NEW r, Holds(w, v, i + 1, r)
      PROVE  Same(v, i, r, t1, m1, v, i + 1, r, t, m)
  <2>1. r.rest \in Int /\ Min * (i + 1) = Min * i + Min /\ Min * i \in Int
    <3>1. \A a, b \in Int : a * (b + 1) = a * b + a /\ a * b \in Int
      OBVIOUS
    <3>2. Min \in Int /\ i \in Int
      BY Constants
    <3>3. r.rest \in Int
      BY <1>2, HeldType
    <3> QED BY <3>1, <3>2, <3>3
  <2>2. Due(v, i, r, t1, m1) = Due(v, i + 1, r, t, m)
    <3>1. CASE v = "second"
      BY <3>1 DEF Turns, Due
    <3>2. CASE v # "second"
      <4>1. m1 = m + Min
        BY <3>2 DEF Turns
      <4>2. m + Min * (i + 1) + r.rest = m1 + Min * i + r.rest
        <5> DEFINE z == Min * i
        <5>1. z \in Int /\ r.rest \in Int /\ Min * (i + 1) = z + Min
          BY <2>1
        <5> HIDE DEF z
        <5>2. m + (z + Min) + r.rest = m1 + z + r.rest
          BY <4>1, <5>1, Constants
        <5> QED BY <5>1, <5>2 DEF z
      <4> QED BY <3>2, <4>2 DEF Due
    <3> QED BY <3>1, <3>2
  <2> QED BY <2>2 DEF Same
<1>3. ASSUME NEW q, Holds(w, "minute", 1, q), v = "minute"
      PROVE  Same("second", q.rest, Ref(q.timer, 0), t1, m1, "minute", 1, q, t, m)
  <2>1. q.rest \in Int /\ Min * 1 = Min /\ Min \in Int
    BY <1>3, HeldType, Constants
  <2>2. Due("minute", 1, q, t, m) = m + Min + q.rest
    BY <2>1 DEF Due
  <2>3. Due("second", q.rest, Ref(q.timer, 0), t1, m1) = t1 + q.rest
    BY DEF Due
  <2> QED BY <1>3, <2>1, <2>2, <2>3 DEF Same, Turns, Lower, Ref
<1>4. ASSUME NEW u, NEW i, NEW r, Holds(L, u, i, r)
      PROVE  \E p, j, k : Holds(w, p, j, k) /\ Same(u, i, r, t1, m1, p, j, k, t, m)
  <2>1. CASE u # v /\ Holds(w, u, i, r)
    BY <1>1, <2>1
  <2>2. CASE u = v /\ i \in 1..Size[v] /\ Holds(w, v, i + 1, r)
    BY <1>2, <2>2
  <2>3. ASSUME v = "minute", u = "second",
               NEW q, Holds(w, v, 1, q), i = q.rest, r = Ref(q.timer, 0)
        PROVE  \E p, j, k : Holds(w, p, j, k) /\ Same(u, i, r, t1, m1, p, j, k, t, m)
    BY <1>3, <2>3
  <2> QED BY <1>4, <2>1, <2>2, <2>3, Lowering
<1>5. ASSUME NEW p, NEW j, NEW k, Holds(w, p, j, k), ~(p = v /\ j = 1 /\ k.rest = 0)
      PROVE  \E u, i, r : Holds(L, u, i, r) /\ Same(u, i, r, t1, m1, p, j, k, t, m)
  <2>1. CASE p # v
    <3>1. Holds(L, p, j, k)
      BY <1>5, <2>1, Lowering
    <3> QED BY <1>1, <1>5, <2>1, <3>1
  <2>2. CASE p = v /\ j # 1
    <3> DEFINE i == j - 1
    <3>1. j \in 1..Size[v] /\ j \in Nat /\ Size[v] \in Nat
      BY <1>5, <2>2, HeldType, WheelSizes
    <3>2. i \in Nat /\ i \in 1..Size[v] /\ i + 1 = j
      BY <2>2, <3>1
    <3> HIDE DEF i
    <3>3. Holds(L, v, i, k)
      BY <1>5, <2>2, <3>2, Lowering
    <3> QED BY <1>2, <1>5, <2>2, <3>2, <3>3
  <2>3. CASE p = v /\ j = 1 /\ k.rest # 0
    <3>1. k.rest \in Nat /\ k.rest < Unit[v]
      BY <1>5, <2>3, HeldType
    <3>2. v = "minute" /\ k.rest > 0
      BY <2>3, <3>1, LevelValues DEF Lower
    <3>3. Holds(L, "second", k.rest, Ref(k.timer, 0))
      BY <1>5, <2>3, <3>2, Lowering
    <3> QED BY <1>3, <1>5, <2>3, <3>2, <3>3
  <2> QED BY <1>5, <2>1, <2>2, <2>3
<1> QED BY <1>4, <1>5

\* A turn, with what it arms again, keeps the invariant; nothing fires too early.
LEMMA PopKeeps ==
  ASSUME NEW w, WheelsOK(w), NEW v \in Lower,
         NEW t \in Int, NEW m \in Int, NEW t1 \in Int, NEW m1 \in Int,
         Turns(v, t, m, t1, m1), t1 <= m1 + Min, m1 <= t1,
         NEW s \in [Timers -> Int], NEW s1 \in [Timers -> Int],
         \A x \in Referenced(w) : Storable(Delay[x]) /\ s[x] <= t1,
         \A x \in PopUp(w, v).gone : Rearms(x) => s1[x] = t1,
         \A x \in Timers :
           ~(x \in PopUp(w, v).gone /\ Rearms(x)) => s1[x] = s[x],
         Timely(w, t, m, s), Kept(w, t, m, s)
  PROVE  /\ WheelsOK(PopUp(w, v).wheels)
         /\ PopUp(w, v).gone \subseteq Referenced(w)
         /\ Referenced(PopUp(w, v).wheels) =
              Referenced(w) \ {x \in PopUp(w, v).gone : ~Rearms(x)}
         /\ Timely(PopUp(w, v).wheels, t1, m1, s1)
         /\ Kept(PopUp(w, v).wheels, t1, m1, s1)
         /\ \A x \in PopUp(w, v).gone : t1 + Slack(x) >= s[x] + Delay[x]
<1> DEFINE L == Lowered(w, v)
           gone == PopUp(w, v).gone
           X == {x \in gone : Rearms(x)}
<1>1. /\ gone = {r.timer : r \in w[v][1]} \ Referenced(L)
      /\ PopUp(w, v).wheels = Armed(L, X)
  BY DEF PopUp, LastRefs, Lowered, Rotated, Armed
<1> HIDE DEF L, gone, X
<1>2. WheelsOK(L)
  BY Lowering DEF L
<1>3. v \in Levels /\ \A r : r \in w[v][1] <=> Holds(w, v, 1, r)
  BY WheelSizes DEF Lower, Levels, Holds
<1>4. gone \subseteq Referenced(w) /\ gone \cap Referenced(L) = {}
  <2>1. ASSUME NEW r \in w[v][1] PROVE r.timer \in Referenced(w)
    <3>1. Holds(w, v, 1, r)
      BY <1>3
    <3>2. r.timer \in Timers
      BY <3>1, HeldType
    <3> QED BY <3>1, <3>2, ReferencedHeld
  <2> QED BY <1>1, <2>1
<1>20. /\ \A u, i, r : Holds(L, u, i, r) =>
            \E p, j, k : Holds(w, p, j, k) /\ Same(u, i, r, t1, m1, p, j, k, t, m)
       /\ \A p, j, k : Holds(w, p, j, k) =>
            \/ \E u, i, r : /\ Holds(L, u, i, r)
                            /\ Same(u, i, r, t1, m1, p, j, k, t, m)
            \/ p = v /\ j = 1 /\ k.rest = 0
  BY Moves DEF L
<1>5. Referenced(L) \subseteq Referenced(w)
  <2> SUFFICES ASSUME NEW x \in Referenced(L) PROVE x \in Referenced(w)
    OBVIOUS
  <2>1. x \in Timers
    BY DEF Referenced
  <2>2. PICK u, i, r : Holds(L, u, i, r) /\ r.timer = x
    BY <1>2, <2>1, ReferencedHeld
  <2>3. PICK p, j, k : Holds(w, p, j, k) /\ Same(u, i, r, t1, m1, p, j, k, t, m)
    BY <2>2, <1>20, Zenon
  <2>4. k.timer = x
    BY <2>2, <2>3 DEF Same
  <2> QED BY <2>1, <2>3, <2>4, ReferencedHeld
<1>6. ASSUME NEW x \in Referenced(w), x \notin Referenced(L) PROVE x \in gone
  <2>1. PICK p, j, k : Holds(w, p, j, k) /\ k.timer = x
    BY <1>6, ReferencedHeld
  <2>2. x \in Timers
    BY <1>6 DEF Referenced
  <2>3. p = v /\ j = 1
    <3> SUFFICES ASSUME NEW u, NEW i, NEW r, Holds(L, u, i, r),
                        Same(u, i, r, t1, m1, p, j, k, t, m)
                 PROVE  FALSE
      BY <2>1, <1>20, Zenon
    <3>1. r.timer = x
      BY <2>1 DEF Same
    <3>2. x \in Referenced(L)
      BY <3>1, <2>2, ReferencedHeld, Zenon
    <3> QED BY <3>2, <1>6
  <2> QED BY <1>1, <1>3, <1>6, <2>1, <2>3
<1>7. Referenced(w) \subseteq Timers
  BY DEF Referenced
\* A reference that is used up was due.
<1>8. ASSUME NEW k, Holds(w, v, 1, k), k.rest = 0
      PROVE  Due(v, 1, k, t, m) = t1
  BY <1>8, Constants DEF Due, Turns, Lower
<1>9. ASSUME NEW x \in gone PROVE t1 + Slack(x) >= s[x] + Delay[x]
  <2>1. PICK p, j, k : Holds(w, p, j, k) /\ Keeps(x, p, j, k, t, m, s)
    BY <1>4, <1>9, KeptHeld
  <2>2. k.timer = x /\ x \in Timers
    BY <1>4, <1>7, <1>9, <2>1 DEF Keeps
  <2>3. p = v /\ j = 1 /\ k.rest = 0
    BY <1>4, <1>9, <2>1, <2>2, Moves, ReferencedHeld DEF Same, L
  <2> QED BY <1>8, <2>1, <2>3 DEF Keeps
<1>10. Timely(L, t1, m1, s)
  <2> SUFFICES ASSUME NEW u, NEW i, NEW r, Holds(L, u, i, r), Delay[r.timer] < Hour
               PROVE  /\ u \in Lower
                      /\ Due(u, i, r, t1, m1) <= s[r.timer] + Delay[r.timer]
    BY TimelyHeld
  <2>1. PICK p, j, k : Holds(w, p, j, k) /\ Same(u, i, r, t1, m1, p, j, k, t, m)
    BY Moves DEF L
  <2>2. p \in Lower /\ Due(p, j, k, t, m) <= s[k.timer] + Delay[k.timer]
    BY <2>1, TimelyHeld DEF Same
  <2> QED BY <2>1, <2>2 DEF Same
<1>11. Kept(L, t1, m1, s)
  <2> SUFFICES ASSUME NEW x \in Referenced(L)
               PROVE  \E u, i, r : Holds(L, u, i, r) /\ Keeps(x, u, i, r, t1, m1, s)
    BY KeptHeld
  <2>1. PICK p, j, k : Holds(w, p, j, k) /\ Keeps(x, p, j, k, t, m, s)
    BY <1>5, KeptHeld
  <2>2. CASE \E u, i, r : Holds(L, u, i, r) /\ Same(u, i, r, t1, m1, p, j, k, t, m)
    <3>1. PICK u, i, r : Holds(L, u, i, r) /\ Same(u, i, r, t1, m1, p, j, k, t, m)
      BY <2>2
    <3>2. Keeps(x, u, i, r, t1, m1, s)
      BY <2>1, <3>1 DEF Keeps, Same
    <3> QED BY <3>1, <3>2
  \* The one that kept x is used up; any other is due later.
  <2>3. CASE p = v /\ j = 1 /\ k.rest = 0
    <3>1. t1 + Slack(x) >= s[x] + Delay[x]
      BY <1>8, <2>1, <2>3 DEF Keeps
    <3>2. PICK u, i, r : Holds(L, u, i, r) /\ r.timer = x
      BY ReferencedHeld
    <3>3. u \in Lower => Due(u, i, r, t1, m1) \in Int /\ t1 <= Due(u, i, r, t1, m1)
      BY <1>2, <3>2, DueBounds
    <3>4. x \in Timers /\ Slack(x) \in Int /\ s[x] \in Int /\ Delay[x] \in Int
      BY <1>5, <1>7, Constants, TimerAssumption DEF Slack
    <3>5. Keeps(x, u, i, r, t1, m1, s)
      BY <3>1, <3>2, <3>3, <3>4 DEF Keeps
    <3> QED BY <3>2, <3>5
  <2> QED BY <2>1, <2>2, <2>3, Moves DEF L
<1>12. /\ X \in SUBSET Timers
       /\ \A x \in X : s1[x] = t1 /\ s[x] <= t1
       /\ \A x \in Timers \ X : s1[x] = s[x]
       /\ \A x \in X : Storable(Delay[x]) \/ x \notin Referenced(L)
  BY <1>4, <1>7 DEF X, gone
<1>13. /\ WheelsOK(Armed(L, X))
       /\ Referenced(Armed(L, X)) = Referenced(L) \cup {x \in X : Storable(Delay[x])}
       /\ Timely(Armed(L, X), t1, m1, s1)
       /\ Kept(Armed(L, X), t1, m1, s1)
  BY <1>2, <1>10, <1>11, <1>12, Arming
<1>14. Referenced(Armed(L, X)) = Referenced(w) \ {x \in gone : ~Rearms(x)}
  BY <1>4, <1>5, <1>6, <1>13 DEF X
<1> QED BY <1>1, <1>4, <1>9, <1>13, <1>14 DEF gone

-----------------------------------------------------------------------------
(* The invariant                                                             *)

\* Between two turns of the second wheel.
LEMMA MinuteStart ==
  ASSUME NEW n \in Nat
  PROVE  /\ n - (n % Min) \in Int /\ n - (n % Min) <= n
         /\ n < (n - (n % Min)) + Min
BY NextTick, Constants

LEMMA NextMinuteStart ==
  ASSUME NEW n \in Nat, NEW n1, n1 = n + 1
  PROVE  /\ n1 % Min = 0 => /\ n1 = (n - (n % Min)) + Min
                            /\ n1 - (n1 % Min) = n1
         /\ n1 % Min # 0 => n1 - (n1 % Min) = n - (n % Min)
<1> DEFINE a == n % Min
           b == n1 % Min
<1>1. /\ a \in 0..(Min - 1) /\ b \in 0..(Min - 1)
      /\ b = 0 => a = Min - 1
      /\ b # 0 => b = a + 1
  BY NextTick
<1> HIDE DEF a, b
<1>2. /\ b = 0 => n1 = (n - a) + Min /\ n1 - b = n1
      /\ b # 0 => n1 - b = n - a
  BY <1>1, Constants
<1> QED BY <1>2 DEF a, b

\* What the invariant says of the wheels, with the references' timers.
LEMMA InvUnfolded ==
  ASSUME Inv
  PROVE  /\ WheelTypeOK /\ WheelsOK(wheels)
         /\ tick \in Nat /\ LastMinute \in Int /\ LastMinute <= tick
         /\ tick < LastMinute + Min
         /\ since \in [Timers -> Nat] /\ since \in [Timers -> Int]
         /\ \A x \in Timers : since[x] <= tick /\ since[x] \in Nat
         /\ \A x \in Timers : state[x] = "pending" <=> x \in Referenced(wheels)
         /\ \A x \in Timers : state[x] = "pending" => Storable(Delay[x])
         /\ Timely(wheels, tick, LastMinute, since)
         /\ Kept(wheels, tick, LastMinute, since)
<1>1. tick \in Nat /\ since \in [Timers -> Nat]
  BY DEF Inv, WheelTypeOK
<1>2. LastMinute \in Int /\ LastMinute <= tick /\ tick < LastMinute + Min
  BY <1>1, MinuteStart DEF LastMinute
<1> QED BY <1>1, <1>2 DEF Inv, WheelTypeOK, PendingIffReferenced

\* The parts of the invariant, as goals.
LEMMA InvFolded ==
  ASSUME WheelTypeOK,
         \A x \in Timers : since[x] <= tick,
         \A x \in Timers : state[x] = "pending" <=> x \in Referenced(wheels),
         \A x \in Timers : state[x] = "pending" => Storable(Delay[x]),
         Timely(wheels, tick, LastMinute, since),
         Kept(wheels, tick, LastMinute, since)
  PROVE  Inv
BY DEF Inv, PendingIffReferenced

LEMMA InitInv == WheelInit => Inv
<1> SUFFICES ASSUME WheelInit PROVE Inv
  OBVIOUS
<1>1. WheelsOK(wheels)
  BY DEF WheelInit, WheelsOK
<1>2. \A v, i, r : ~Holds(wheels, v, i, r)
  BY DEF WheelInit, Holds
<1>3. Referenced(wheels) = {}
  BY <1>2, ReferencedHeld
<1>4. /\ Timely(wheels, tick, LastMinute, since)
      /\ Kept(wheels, tick, LastMinute, since)
  BY <1>2, <1>3, TimelyHeld, KeptHeld
<1>5. WheelTypeOK
  BY <1>1, ClockAssumption DEF WheelInit, WheelTypeOK
<1> QED BY <1>3, <1>4, <1>5, InvFolded DEF WheelInit

\* Inserting a set of timers, which are pending afterwards if they can be stored.
LEMMA InsertInv ==
  ASSUME Inv, NEW x \in Timers,
         state[x] = "new" \/ state[x] = "pending",
         wheels' = InsertAll(wheels, {<<Delay[x], x>>}),
         since' = [since EXCEPT ![x] = tick],
         UNCHANGED <<tick, lastTs, now, alive>>
  PROVE  /\ WheelsOK(wheels')
         /\ Referenced(wheels') =
              Referenced(wheels) \cup {y \in {x} : Storable(Delay[y])}
         /\ Timely(wheels', tick', LastMinute', since')
         /\ Kept(wheels', tick', LastMinute', since')
         /\ since' \in [Timers -> Nat] /\ \A y \in Timers : since'[y] <= tick'
<1>1. wheels' = Armed(wheels, {x})
  <2>1. {<<Delay[y], y>> : y \in {x}} = {<<Delay[x], x>>}
    OBVIOUS
  <2> QED BY <2>1 DEF Armed
<1>2. Storable(Delay[x]) \/ x \notin Referenced(wheels)
  BY InvUnfolded
<1>3. tick' = tick /\ LastMinute' = LastMinute
  BY DEF LastMinute
<1>4. since' \in [Timers -> Nat] /\ \A y \in Timers : since'[y] <= tick
  BY InvUnfolded
<1>5. /\ since' \in [Timers -> Int] /\ tick \in Int /\ tick <= LastMinute + Min
      /\ \A y \in {x} : since'[y] = tick /\ since[y] <= tick
      /\ \A y \in Timers \ {x} : since'[y] = since[y]
      /\ \A y \in {x} : Storable(Delay[y]) \/ y \notin Referenced(wheels)
      /\ {x} \in SUBSET Timers
  BY <1>2, InvUnfolded, Constants
<1>6. /\ WheelsOK(Armed(wheels, {x}))
      /\ Referenced(Armed(wheels, {x})) =
           Referenced(wheels) \cup {y \in {x} : Storable(Delay[y])}
      /\ Timely(Armed(wheels, {x}), tick, LastMinute, since')
      /\ Kept(Armed(wheels, {x}), tick, LastMinute, since')
  BY <1>5, InvUnfolded, Arming
<1> QED BY <1>1, <1>3, <1>4, <1>6

\* The minute wheel turns after the second wheel when a minute is over, and no
\* other wheel ever does.
LEMMA UpperTurns ==
  ASSUME NEW n \in Nat
  PROVE  UpperWheel(n) = IF n % Min = 0 THEN {"minute"} ELSE {}
<1>1. n % Hour = 0 => n % Min = 0
  BY MultipleOfMultiple
<1>2. n % Day = 0 => n % Hour = 0
  <2> SUFFICES ASSUME n % Day = 0 PROVE n % Hour = 0
    OBVIOUS
  <2> DEFINE a == n \div Day
             b == Day \div Hour
  <2>1. a \in Nat /\ n = Day * a
    BY Constants, Division
  <2>2. b \in Nat /\ Day = Hour * b
    BY Constants, Division
  <2> HIDE DEF a, b
  <2>3. n = Hour * (b * a) + 0
    <3>1. \A x, y, z \in Nat : (x * y) * z = x * (y * z)
      OBVIOUS
    <3>2. n = (Hour * b) * a
      BY <2>1, <2>2
    <3> QED BY <2>1, <2>2, <3>1, <3>2, Constants
  <2>4. b * a \in Int
    BY <2>1, <2>2
  <2>5. \A q \in Int : (Hour * q + 0) % Hour = 0
    BY Unique, Constants
  <2> QED BY <2>3, <2>4, <2>5
<1> QED BY <1>1, <1>2 DEF UpperWheel

\* A turn of the second wheel, as seen by PopKeeps: s1 is the history after it.
LEMMA SecondTurn ==
  ASSUME Inv, NEW s1,
         s1 = [x \in Timers |->
                 IF x \in PopUp(wheels, "second").gone /\ Rearms(x) THEN tick + 1
                 ELSE since[x]]
  PROVE  LET P == PopUp(wheels, "second")
         IN  /\ WheelsOK(P.wheels)
             /\ P.gone \subseteq Referenced(wheels)
             /\ Referenced(P.wheels) =
                  Referenced(wheels) \ {x \in P.gone : ~Rearms(x)}
             /\ Timely(P.wheels, tick + 1, LastMinute, s1)
             /\ Kept(P.wheels, tick + 1, LastMinute, s1)
             /\ s1 \in [Timers -> Nat] /\ \A x \in Timers : s1[x] <= tick + 1
             /\ \A x \in P.gone : tick + 1 + Slack(x) >= since[x] + Delay[x]
<1> DEFINE P == PopUp(wheels, "second")
<1>1. /\ WheelsOK(wheels) /\ tick \in Int /\ LastMinute \in Int
      /\ tick + 1 \in Int /\ tick + 1 <= LastMinute + Min /\ LastMinute <= tick + 1
      /\ since \in [Timers -> Int]
      /\ Timely(wheels, tick, LastMinute, since)
      /\ Kept(wheels, tick, LastMinute, since)
  BY InvUnfolded, Constants
<1>2. \A x \in Referenced(wheels) : Storable(Delay[x]) /\ since[x] <= tick + 1
  BY InvUnfolded DEF Referenced
<1>3. "second" \in Lower /\ Turns("second", tick, LastMinute, tick + 1, LastMinute)
  BY DEF Lower, Turns
<1>4. \A x \in Timers : since[x] \in Nat /\ since[x] <= tick /\ tick \in Nat
  BY InvUnfolded
<1> HIDE DEF P
<1>5. /\ s1 \in [Timers -> Nat] /\ s1 \in [Timers -> Int]
      /\ \A x \in Timers : s1[x] <= tick + 1
      /\ \A x \in Timers : x \in P.gone /\ Rearms(x) => s1[x] = tick + 1
      /\ \A x \in Timers : ~(x \in P.gone /\ Rearms(x)) => s1[x] = since[x]
  BY <1>4 DEF P
<1>6. P.gone \subseteq Timers
  <2>1. P.gone \subseteq {r.timer : r \in wheels["second"][1]}
    BY DEF P, PopUp, LastRefs
  <2>2. \A r \in wheels["second"][1] : Holds(wheels, "second", 1, r)
    BY WheelSizes DEF Holds, Levels
  <2> QED BY <1>1, <2>1, <2>2, HeldType
<1>7. \A x \in P.gone : Rearms(x) => s1[x] = tick + 1
  BY <1>5, <1>6
<1>8. /\ WheelsOK(P.wheels)
      /\ P.gone \subseteq Referenced(wheels)
      /\ Referenced(P.wheels) = Referenced(wheels) \ {x \in P.gone : ~Rearms(x)}
      /\ Timely(P.wheels, tick + 1, LastMinute, s1)
      /\ Kept(P.wheels, tick + 1, LastMinute, s1)
      /\ \A x \in P.gone : tick + 1 + Slack(x) >= since[x] + Delay[x]
  BY <1>1, <1>2, <1>3, <1>5, <1>7, PopKeeps DEF P
<1> QED BY <1>5, <1>8 DEF P

\* What Turn does to the wheels and the entries: those of gone fire, and are armed
\* again or done.
TurnEffect(gone) ==
  /\ WheelsOK(wheels')
  /\ gone \subseteq Referenced(wheels)
  /\ Referenced(wheels') = Referenced(wheels) \ {x \in gone : ~Rearms(x)}
  /\ Timely(wheels', tick', LastMinute', since')
  /\ Kept(wheels', tick', LastMinute', since')
  /\ since' \in [Timers -> Nat] /\ \A x \in Timers : since'[x] <= tick'
  /\ \A x \in gone : tick' + Slack(x) >= since[x] + Delay[x]
  /\ state' = [x \in Timers |->
                 IF x \in gone \ {y \in gone : Rearms(y)} THEN "done" ELSE state[x]]
  /\ popped' = {x \in gone : Runs(x)}

LEMMA TurnHasEffect ==
  ASSUME Inv, Turn
  PROVE  \E gone : TurnEffect(gone)
<1> DEFINE P == PopUp(wheels, "second")
           Q == PopUp(P.wheels, "minute")
           n == tick + 1
           s1 == [x \in Timers |-> IF x \in P.gone /\ Rearms(x) THEN n ELSE since[x]]
<1>1. /\ WheelsOK(P.wheels)
      /\ P.gone \subseteq Referenced(wheels)
      /\ Referenced(P.wheels) = Referenced(wheels) \ {x \in P.gone : ~Rearms(x)}
      /\ Timely(P.wheels, n, LastMinute, s1)
      /\ Kept(P.wheels, n, LastMinute, s1)
      /\ s1 \in [Timers -> Nat] /\ \A x \in Timers : s1[x] <= n
      /\ \A x \in P.gone : n + Slack(x) >= since[x] + Delay[x]
  BY SecondTurn
<1>2. tick \in Nat /\ n \in Nat /\ tick' = n
  BY InvUnfolded DEF Turn
<1>3. CASE n % Min # 0
  <2>1. UpperWheel(n) = {}
    BY <1>2, <1>3, UpperTurns
  <2>2. /\ wheels' = P.wheels /\ since' = s1
        /\ popped' = {x \in P.gone : Runs(x)}
        /\ state' = [x \in Timers |->
                       IF x \in P.gone \ {y \in P.gone : Rearms(y)}
                       THEN "done" ELSE state[x]]
    <3> DEFINE u == {PopUp(P.wheels, v) : v \in UpperWheel(n)}
               g == P.gone \cup UNION {p.gone : p \in u}
    <3>1. u = {}
      BY <2>1
    <3>2. g = P.gone
      BY <3>1
    <3>3. /\ wheels' = (IF u = {} THEN P.wheels ELSE (CHOOSE p \in u : TRUE).wheels)
          /\ popped' = {x \in g : Runs(x)}
          /\ state' = [x \in Timers |->
                         IF x \in g \ {y \in g : Rearms(y)} THEN "done" ELSE state[x]]
          /\ since' = [x \in Timers |->
                         IF x \in {y \in g : Rearms(y)} THEN n ELSE since[x]]
      BY Zenon DEF Turn
    <3> HIDE DEF P, u, g
    <3> QED BY <3>1, <3>2, <3>3
  <2>3. LastMinute' = LastMinute
    BY <1>2, <1>3, NextMinuteStart DEF LastMinute
  <2> HIDE DEF P, s1
  <2>4. TurnEffect(P.gone)
    BY <1>1, <1>2, <2>2, <2>3 DEF TurnEffect
  <2> QED BY <2>4
<1>4. CASE n % Min = 0
  <2> DEFINE g == P.gone \cup Q.gone
  <2>1. UpperWheel(n) = {"minute"}
    BY <1>2, <1>4, UpperTurns
  <2>2. /\ wheels' = Q.wheels
        /\ popped' = {x \in g : Runs(x)}
        /\ state' = [x \in Timers |->
                       IF x \in g \ {y \in g : Rearms(y)} THEN "done" ELSE state[x]]
        /\ since' = [x \in Timers |->
                       IF x \in {y \in g : Rearms(y)} THEN n ELSE since[x]]
    <3> DEFINE u == {PopUp(P.wheels, v) : v \in UpperWheel(n)}
               h == P.gone \cup UNION {p.gone : p \in u}
    <3>1. u = {Q}
      BY <2>1
    <3> HIDE DEF P, Q
    <3>2. h = g
      BY <3>1
    <3>3. /\ wheels' = (IF u = {} THEN P.wheels ELSE (CHOOSE p \in u : TRUE).wheels)
          /\ popped' = {x \in h : Runs(x)}
          /\ state' = [x \in Timers |->
                         IF x \in h \ {y \in h : Rearms(y)} THEN "done" ELSE state[x]]
          /\ since' = [x \in Timers |->
                         IF x \in {y \in h : Rearms(y)} THEN n ELSE since[x]]
      BY Zenon DEF Turn, P
    <3> HIDE DEF u, h, g
    <3>4. (CHOOSE p \in u : TRUE) = Q /\ u # {}
      BY <3>1
    <3> QED BY <3>2, <3>3, <3>4
  <2>3. n = LastMinute + Min /\ LastMinute' = n
    BY <1>2, <1>4, NextMinuteStart DEF LastMinute
  <2>4. /\ "minute" \in Lower /\ Turns("minute", n, LastMinute, n, n)
        /\ n \in Int /\ LastMinute \in Int /\ n <= n + Min
        /\ s1 \in [Timers -> Int] /\ since' \in [Timers -> Int]
        /\ since' \in [Timers -> Nat] /\ \A x \in Timers : since'[x] <= n
    <3>1. \A x \in Timers : since[x] \in Nat /\ since[x] <= n
      BY <1>2, InvUnfolded
    <3> HIDE DEF g, s1
    <3>2. since' \in [Timers -> Nat] /\ \A x \in Timers : since'[x] <= n
      BY <1>2, <2>2, <3>1
    <3> QED BY <1>1, <1>2, <2>3, <3>2, InvUnfolded, Constants DEF Lower, Turns
  <2>5. \A x \in Referenced(P.wheels) : Storable(Delay[x]) /\ s1[x] <= n
    <3>1. \A x \in Referenced(wheels) : x \in Timers /\ Storable(Delay[x])
      BY InvUnfolded DEF Referenced
    <3> HIDE DEF P, s1
    <3> QED BY <1>1, <3>1
  <2>6. Q.gone \subseteq Timers
    <3>1. Q.gone \subseteq {r.timer : r \in P.wheels["minute"][1]}
      BY DEF PopUp, LastRefs
    <3>2. \A r \in P.wheels["minute"][1] : Holds(P.wheels, "minute", 1, r)
      BY WheelSizes DEF Holds, Levels
    <3> HIDE DEF P, Q
    <3> QED BY <1>1, <3>1, <3>2, HeldType
  <2>7. /\ \A x \in Q.gone : Rearms(x) => since'[x] = n
        /\ \A x \in Timers : ~(x \in Q.gone /\ Rearms(x)) => since'[x] = s1[x]
    <3> HIDE DEF P, Q
    <3> QED BY <2>2, <2>6
  <2> HIDE DEF P, s1
  <2>8. /\ WheelsOK(Q.wheels)
        /\ Q.gone \subseteq Referenced(P.wheels)
        /\ Referenced(Q.wheels) = Referenced(P.wheels) \ {x \in Q.gone : ~Rearms(x)}
        /\ Timely(Q.wheels, n, n, since')
        /\ Kept(Q.wheels, n, n, since')
        /\ \A x \in Q.gone : n + Slack(x) >= s1[x] + Delay[x]
    BY <1>1, <2>3, <2>4, <2>5, <2>7, PopKeeps
  <2>9. \A x \in Timers : ~(x \in P.gone) => s1[x] = since[x]
    BY DEF s1
  <2> HIDE DEF Q
  <2>10. \A x \in g : n + Slack(x) >= since[x] + Delay[x]
    BY <1>1, <2>6, <2>8, <2>9
  <2>11. /\ g \subseteq Referenced(wheels)
         /\ Referenced(Q.wheels) = Referenced(wheels) \ {x \in g : ~Rearms(x)}
    BY <1>1, <2>8
  <2> HIDE DEF g
  <2>12. TurnEffect(g)
    BY <1>2, <2>2, <2>3, <2>4, <2>8, <2>10, <2>11 DEF TurnEffect
  <2> QED BY <2>12
<1> QED BY <1>3, <1>4

\* The wheels are left alone.
LEMMA QuietInv ==
  ASSUME Inv, UNCHANGED <<wheels, tick, state, since>>,
         now' \in 1..MaxNow, lastTs' \in 0..MaxNow,
         alive' \subseteq Timers, popped' \subseteq Timers
  PROVE  Inv'
<1>1. WheelTypeOK'
  BY DEF Inv, WheelTypeOK
<1> QED BY <1>1 DEF Inv, PendingIffReferenced, LastMinute, Timely, Kept, Keeps,
                    Referenced, Due

LEMMA StepInv == Inv /\ [WheelNext]_wheelVars => Inv'
<1> SUFFICES ASSUME Inv, [WheelNext]_wheelVars PROVE Inv'
  OBVIOUS
<1>1. /\ WheelTypeOK /\ now \in 1..MaxNow /\ lastTs \in 0..MaxNow
      /\ alive \subseteq Timers /\ popped \subseteq Timers
      /\ state \in [Timers -> {"new", "pending", "done"}]
  BY DEF Inv, WheelTypeOK
<1>2. now \in 0..MaxNow /\ MaxNow \in Nat
  BY <1>1, ClockAssumption
<1>3. CASE Elapse
  BY <1>1, <1>2, <1>3, QuietInv DEF Elapse
<1>4. CASE FirstCall
  BY <1>1, <1>2, <1>4, QuietInv DEF FirstCall
<1>5. ASSUME NEW x \in Timers, Expire(x) PROVE Inv'
  BY <1>1, <1>2, <1>5, QuietInv DEF Expire
<1>6. ASSUME NEW x \in Timers, Insert(x) PROVE Inv'
  <2>1. /\ state[x] = "new"
        /\ wheels' = InsertAll(wheels, {<<Delay[x], x>>})
        /\ since' = [since EXCEPT ![x] = tick]
        /\ UNCHANGED <<tick, lastTs, now, alive>>
    BY <1>6 DEF Insert
  <2>2. /\ WheelsOK(wheels')
        /\ Referenced(wheels') =
             Referenced(wheels) \cup {y \in {x} : Storable(Delay[y])}
        /\ Timely(wheels', tick', LastMinute', since')
        /\ Kept(wheels', tick', LastMinute', since')
        /\ since' \in [Timers -> Nat] /\ \A y \in Timers : since'[y] <= tick'
    BY <2>1, InsertInv
  <2>3. state' = [state EXCEPT ![x] = IF Storable(Delay[x]) THEN "pending" ELSE "done"]
    BY <1>6 DEF Insert
  <2>4. state' \in [Timers -> {"new", "pending", "done"}]
    BY <1>1, <2>3
  <2>5. popped' \subseteq Timers
    BY <1>6 DEF Insert
  <2>6. WheelTypeOK'
    BY <1>1, <2>1, <2>2, <2>4, <2>5 DEF WheelTypeOK
  <2>7. \A y \in Timers : /\ state'[y] = "pending" <=> y \in Referenced(wheels')
                          /\ state'[y] = "pending" => Storable(Delay[y])
    BY <1>1, <2>1, <2>2, <2>3, InvUnfolded
  <2> QED BY <2>2, <2>6, <2>7 DEF Inv, PendingIffReferenced
<1>7. ASSUME NEW x \in Timers, Extend(x) PROVE Inv'
  <2>1. /\ state[x] = "pending" /\ state' = state
        /\ wheels' = InsertAll(wheels, {<<Delay[x], x>>})
        /\ since' = [since EXCEPT ![x] = tick]
        /\ UNCHANGED <<tick, lastTs, now, alive>> /\ popped' = {}
    BY <1>7 DEF Extend
  <2>2. /\ WheelsOK(wheels')
        /\ Referenced(wheels') =
             Referenced(wheels) \cup {y \in {x} : Storable(Delay[y])}
        /\ Timely(wheels', tick', LastMinute', since')
        /\ Kept(wheels', tick', LastMinute', since')
        /\ since' \in [Timers -> Nat] /\ \A y \in Timers : since'[y] <= tick'
    BY <2>1, InsertInv
  <2>3. WheelTypeOK'
    BY <1>1, <2>1, <2>2 DEF WheelTypeOK
  <2>4. \A y \in Timers : /\ state'[y] = "pending" <=> y \in Referenced(wheels')
                          /\ state'[y] = "pending" => Storable(Delay[y])
    BY <2>1, <2>2, InvUnfolded
  <2> QED BY <2>2, <2>3, <2>4 DEF Inv, PendingIffReferenced
<1>8. CASE Turn
  <2>1. PICK gone : TurnEffect(gone)
    BY <1>8, TurnHasEffect
  <2>2. /\ state' = [x \in Timers |->
                       IF x \in gone /\ ~Rearms(x) THEN "done" ELSE state[x]]
        /\ gone \subseteq Timers /\ popped' \subseteq Timers
    BY <2>1 DEF TurnEffect, Referenced
  <2>3. tick' = tick + 1 /\ lastTs' = now /\ UNCHANGED <<now, alive>>
    BY <1>8 DEF Turn
  <2>4. WheelTypeOK'
    <3>1. tick' \in Nat
      BY <2>3, InvUnfolded
    <3>2. state' \in [Timers -> {"new", "pending", "done"}]
      BY <1>1, <2>2
    <3>3. WheelsOK(wheels)' /\ since' \in [Timers -> Nat]
      BY <2>1 DEF TurnEffect
    <3> QED BY <1>1, <1>2, <2>2, <2>3, <3>1, <3>2, <3>3 DEF WheelTypeOK
  <2>5. \A y \in Timers : /\ state'[y] = "pending" <=> y \in Referenced(wheels')
                          /\ state'[y] = "pending" => Storable(Delay[y])
    BY <2>1, <2>2, InvUnfolded DEF TurnEffect
  <2> QED BY <2>1, <2>4, <2>5 DEF Inv, PendingIffReferenced, TurnEffect
<1>9. CASE UNCHANGED wheelVars
  BY <1>1, <1>9, QuietInv DEF wheelVars
<1> QED BY <1>3, <1>4, <1>5, <1>6, <1>7, <1>8, <1>9 DEF WheelNext, OnTimer

-----------------------------------------------------------------------------
(* Theorems                                                                  *)

\* The inductive invariant: types, what a reference in the wheels is worth, and
\* that the entries that have not fired are those with one (timingwheel.cpp:59).
THEOREM WheelInvariantHolds == WheelSpec => []Inv
BY InitInv, StepInv, PTL DEF WheelSpec

\* An entry that has fired is nowhere in the wheels, and one that has not is still
\* referenced, so that it can fire (timingwheel.cpp:87).
THEOREM NoneIsLost == WheelSpec => []PendingIffReferenced
<1>1. Inv => PendingIffReferenced
  BY DEF Inv
<1> QED BY <1>1, WheelInvariantHolds, PTL

\* No timer of less than an hour is pending when its delay has elapsed: its
\* references are all in the two lower wheels and used up by then
\* (timingwheel.cpp:27, 69).
THEOREM NoneIsOverdue == WheelSpec => []NotOverdue
<1>1. Inv => NotOverdue
  <2> SUFFICES ASSUME Inv, NEW x \in Timers, state[x] = "pending", Delay[x] < Hour
               PROVE  tick < since[x] + Delay[x]
    BY DEF NotOverdue
  <2>1. PICK v, i, r : Holds(wheels, v, i, r) /\ r.timer = x
    BY InvUnfolded, ReferencedHeld
  <2>2. v \in Lower /\ Due(v, i, r, tick, LastMinute) <= since[x] + Delay[x]
    BY <2>1, InvUnfolded, TimelyHeld
  <2>3. /\ Due(v, i, r, tick, LastMinute) \in Int
        /\ tick < Due(v, i, r, tick, LastMinute)
    <3>1. /\ WheelsOK(wheels) /\ tick \in Int /\ LastMinute \in Int
          /\ tick < LastMinute + Min /\ tick <= LastMinute + Min
      BY InvUnfolded, Constants
    <3> QED BY <2>1, <2>2, <3>1, DueBounds
  <2>4. since[x] \in Int /\ Delay[x] \in Int /\ tick \in Int
    BY InvUnfolded, TimerAssumption
  <2> QED BY <2>2, <2>3, <2>4
<1> QED BY <1>1, WheelInvariantHolds, PTL

\* A callback comes no earlier than its delay, or up to a minute earlier if that
\* is a minute or more (timingwheel.cpp:87, 173).
THEOREM NoneIsTooEarly == WheelSpec => NeverTooEarly
<1>1. ASSUME Inv, [WheelNext]_wheelVars PROVE [\A x \in popped' : InTime(x)]_wheelVars
  <2>1. ASSUME popped' = {} PROVE \A x \in popped' : InTime(x)
    BY <2>1
  <2>2. ASSUME NEW x \in Timers, Insert(x) PROVE \A y \in popped' : InTime(y)
    BY <2>2 DEF Insert, InTime
  <2>3. ASSUME Turn PROVE \A x \in popped' : InTime(x)
    <3>1. PICK gone : TurnEffect(gone)
      BY <1>1, <2>3, TurnHasEffect
    <3>2. \A x \in gone : tick' + Slack(x) >= since[x] + Delay[x]
      BY <3>1 DEF TurnEffect
    <3>3. popped' \subseteq gone
      BY <3>1 DEF TurnEffect
    <3> QED BY <3>2, <3>3 DEF Slack, InTime
  <2>4. CASE UNCHANGED wheelVars
    BY <2>4
  <2>5. CASE WheelNext
    BY <2>1, <2>2, <2>3, <2>5
       DEF WheelNext, OnTimer, FirstCall, Elapse, Extend, Expire
  <2> QED BY <1>1, <2>4, <2>5
<1> QED BY <1>1, WheelInvariantHolds, PTL DEF WheelSpec, NeverTooEarly
=============================================================================
