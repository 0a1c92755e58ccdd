------------------------- MODULE RtmpSessionProofs --------------------------
(***************************************************************************)
(* Theorems about RtmpSession, for any size of a batch and any number and  *)
(* values of pings; and, from Streams on, about what the sessions carry,   *)
(* the Live stream, for any steps below the limit, any clocks of the       *)
(* publisher, and any number of restarts and packets.                      *)
(***************************************************************************)
EXTENDS RtmpSession, Live, SequenceTheorems, TLAPS


Messages == Seq(Message)

-----------------------------------------------------------------------------
(* Messages and answers                                                      *)

LEMMA HalfIsSeven == Half = 7
BY DEF Half, Events

LEMMA EventTypes == \A i \in 1..7 : Events[i] \in Controls
<1> SUFFICES ASSUME NEW i \in 1..7 PROVE Events[i] \in Controls
  OBVIOUS
<1>1. DOMAIN Events = 1..7
  BY DEF Events
<1> QED BY <1>1 DEF Controls

\* A user control message that carries a value of two halves is a message, with
\* an event that exists.
LEMMA UserCtrlType == \A v \in 0..(Half * Half - 1) : UserCtrl(v) \in Message
<1> SUFFICES ASSUME NEW v \in 0..48 PROVE UserCtrl(v) \in Message
  BY HalfIsSeven
<1>1. v \div 7 + 1 \in 1..7 /\ (v % 7) * 7 \in 0..48
  OBVIOUS
<1>2. Events[v \div 7 + 1] \in Controls
  BY <1>1, EventTypes
<1> QED BY <1>1, <1>2, HalfIsSeven DEF UserCtrl, Message

LEMMA ConnectType == Connect \in Messages /\ ConnectReply \in Messages
BY HalfIsSeven DEF Connect, ConnectReply, Messages, Message, Msg, Controls, Commands

\* What an end answers is a sequence of messages.
LEMMA ReplyType ==
  ASSUME NEW e \in Ends, NEW m \in Message, NEW p \in BOOLEAN
  PROVE  Reply(e, m, p) \in Messages
<1>1. UserCtrl(m.id) \in Message /\ UserCtrl(1) \in Message
  BY UserCtrlType, HalfIsSeven DEF Message
<1>2. /\ Msg("onStatus") \in Message /\ Msg("play") \in Message
      /\ [type |-> "createStream", id |-> 4] \in Message
      /\ [type |-> "publish", id |-> 5] \in Message
      /\ [type |-> "_result", id |-> m.id] \in Message
  BY HalfIsSeven DEF Message, Msg, Commands
<1>3. ResultReply(m.id, p) \in Messages
  BY <1>2 DEF ResultReply, Messages
<1> QED BY <1>1, <1>2, <1>3, ConnectType DEF Reply, Messages

-----------------------------------------------------------------------------
(* Sequences                                                                 *)

LEMMA Concat == \A s, t \in Messages : s \o t \in Messages
BY ConcatProperties DEF Messages

LEMMA Regroup ==
  \A s, t, u \in Messages : (s \o t) \o u = s \o (t \o u)
<1> SUFFICES ASSUME NEW s \in Seq(Message), NEW t \in Seq(Message),
                    NEW u \in Seq(Message)
             PROVE  (s \o t) \o u = s \o (t \o u)
  BY DEF Messages
<1> QED BY ConcatAssociative

LEMMA Empty ==
  /\ <<>> \in Messages
  /\ \A s \in Messages : s \o <<>> = s /\ <<>> \o s = s
BY EmptySeq, ConcatEmptySeq DEF Messages

\* A sequence cut in two.
LEMMA Cut ==
  ASSUME NEW s \in Messages, NEW k \in 0..Len(s)
  PROVE  /\ SubSeq(s, 1, k) \in Messages
         /\ SubSeq(s, k + 1, Len(s)) \in Messages
         /\ Len(SubSeq(s, 1, k)) = k
         /\ Len(SubSeq(s, k + 1, Len(s))) = Len(s) - k
         /\ SubSeq(s, 1, k) \o SubSeq(s, k + 1, Len(s)) = s
<1>0. s \in Seq(Message)
  BY DEF Messages
<1>1. Len(s) \in Nat
  BY <1>0, LenProperties
<1>2. \A i \in 1..Len(s) : s[i] \in Message
  BY <1>0, ElementOfSeq
<1>3. SubSeq(s, 1, k) \in Seq(Message) /\ Len(SubSeq(s, 1, k)) = k
  <2>1. \A i \in 1..k : s[i] \in Message
    BY <1>1, <1>2
  <2>2. /\ SubSeq(s, 1, k) \in Seq(Message)
        /\ Len(SubSeq(s, 1, k)) = IF 1 <= k THEN k - 1 + 1 ELSE 0
    BY <1>1, <2>1, SubSeqProperties
  <2> QED BY <1>1, <2>2
<1>4. /\ SubSeq(s, k + 1, Len(s)) \in Seq(Message)
      /\ Len(SubSeq(s, k + 1, Len(s))) = Len(s) - k
  <2>1. \A i \in (k + 1)..Len(s) : s[i] \in Message
    BY <1>1, <1>2
  <2>2. /\ SubSeq(s, k + 1, Len(s)) \in Seq(Message)
        /\ Len(SubSeq(s, k + 1, Len(s)))
             = IF k + 1 <= Len(s) THEN Len(s) - (k + 1) + 1 ELSE 0
    BY <1>1, <2>1, SubSeqProperties
  <2> QED BY <1>1, <2>2
<1>5. SubSeq(s, 1, k) \o SubSeq(s, k + 1, Len(s)) = SubSeq(s, 1, Len(s))
  <2>1. /\ 1 \in 1..Len(s) + 1 /\ k \in (1 - 1)..Len(s) /\ Len(s) \in k..Len(s)
    BY <1>1
  <2> QED BY <1>0, <2>1, ConcatAdjacentSubSeq
<1> QED BY <1>0, <1>3, <1>4, <1>5, SubSeqFull DEF Messages

\* The head of a non-empty sequence, and the rest.
LEMMA HeadAndTail ==
  ASSUME NEW s \in Messages, s # <<>>
  PROVE  /\ Head(s) \in Message /\ Tail(s) \in Messages
         /\ s = <<Head(s)>> \o Tail(s)
<1>0. s \in Seq(Message) /\ Len(s) \in Nat /\ Len(s) # 0
  BY EmptySeq, LenProperties DEF Messages
<1>1. Head(s) \in Message /\ Tail(s) \in Seq(Message) /\ Tail(s) = SubSeq(s, 2, Len(s))
  BY <1>0, HeadTailProperties, TailIsSubSeq
<1>2. SubSeq(s, 1, Len(s)) = <<s[1]>> \o SubSeq(s, 2, Len(s))
  <2>1. 1 \in 1..Len(s) /\ Len(s) \in 1..Len(s) /\ 1 + 1 = 2
    BY <1>0
  <2> QED BY <1>0, <2>1, SubSeqRecursiveFirst
<1>3. Head(s) = s[1]
  BY <1>0
<1> QED BY <1>0, <1>1, <1>2, <1>3, SubSeqFull DEF Messages

\* The first of a sequence.
LEMMA FirstOfConcat ==
  ASSUME NEW m \in Message, NEW s \in Messages
  PROVE  /\ <<m>> \o s # <<>>
         /\ Head(<<m>> \o s) = m
         /\ Tail(<<m>> \o s) = s
BY DEF Messages

\* The two parts of s \o t.
LEMMA CutConcat ==
  ASSUME NEW s \in Messages, NEW t \in Messages
  PROVE  /\ Len(s) \in 0..Len(s \o t)
         /\ SubSeq(s \o t, 1, Len(s)) = s
         /\ SubSeq(s \o t, Len(s) + 1, Len(s \o t)) = t
<1> DEFINE u == s \o t
<1>0. /\ s \in Seq(Message) /\ t \in Seq(Message) /\ u \in Seq(Message)
      /\ Len(s) \in Nat /\ Len(t) \in Nat /\ Len(u) = Len(s) + Len(t)
      /\ \A i \in 1..Len(s) + Len(t) :
           u[i] = IF i <= Len(s) THEN s[i] ELSE t[i - Len(s)]
  BY ConcatProperties, LenProperties DEF Messages
<1> HIDE DEF u
<1>1. /\ \A i \in 1..Len(s) : u[i] = s[i]
      /\ \A i \in 1..Len(t) : u[Len(s) + i] = t[i]
      /\ \A i \in 1..Len(u) : u[i] \in Message
  <2>1. \A i \in 1..Len(t) : /\ Len(s) + i \in 1..Len(s) + Len(t)
                             /\ ~(Len(s) + i <= Len(s))
                             /\ Len(s) + i - Len(s) = i
    BY <1>0
  <2>2. \A i \in 1..Len(s) : i \in 1..Len(s) + Len(t) /\ i <= Len(s)
    BY <1>0
  <2> QED BY <1>0, <2>1, <2>2, ElementOfSeq
<1>2. SubSeq(u, 1, Len(s)) = s
  <2> DEFINE a == SubSeq(u, 1, Len(s))
  <2>0. \A i \in 1..Len(s) : u[i] \in Message
    BY <1>0, <1>1
  <2>1. /\ a \in Seq(Message)
        /\ Len(a) = IF 1 <= Len(s) THEN Len(s) - 1 + 1 ELSE 0
        /\ \A i \in 1..(Len(s) - 1 + 1) : a[i] = u[1 + i - 1]
    BY <1>0, <2>0, SubSeqProperties
  <2> HIDE DEF a
  <2>2. Len(a) = Len(s) /\ \A i \in 1..Len(s) : a[i] = u[i]
    BY <1>0, <2>1
  <2>3. a = s
    BY <1>0, <1>1, <2>1, <2>2, SeqEqual
  <2> QED BY <2>3 DEF a
<1>3. SubSeq(u, Len(s) + 1, Len(u)) = t
  <2> DEFINE b == SubSeq(u, Len(s) + 1, Len(u))
  <2>0. /\ \A i \in (Len(s) + 1)..Len(u) : u[i] \in Message
        /\ Len(s) + 1 \in Int /\ Len(u) \in Int
    BY <1>0, <1>1
  <2>1. /\ b \in Seq(Message)
        /\ Len(b) = IF Len(s) + 1 <= Len(u) THEN Len(u) - (Len(s) + 1) + 1 ELSE 0
        /\ \A i \in 1..(Len(u) - (Len(s) + 1) + 1) : b[i] = u[Len(s) + 1 + i - 1]
    BY <2>0, SubSeqProperties
  <2> HIDE DEF b
  <2>2. Len(b) = Len(t) /\ \A i \in 1..Len(t) : b[i] = u[Len(s) + i]
    <3>1. /\ Len(u) - (Len(s) + 1) + 1 = Len(t)
          /\ ~(Len(s) + 1 <= Len(u)) => Len(t) = 0
          /\ \A i \in Int : Len(s) + 1 + i - 1 = Len(s) + i
      BY <1>0
    <3> QED BY <2>1, <3>1
  <2>3. b = t
    BY <1>0, <1>1, <2>1, <2>2, SeqEqual
  <2> QED BY <2>3 DEF b
<1> QED BY <1>0, <1>2, <1>3 DEF u

\* Send takes no more than a batch, at least one message of a queue that has one,
\* and leaves the rest in order.
LEMMA FrontAndRest ==
  ASSUME NEW q \in Messages
  PROVE  /\ Front(q) \in Messages /\ Rest(q) \in Messages
         /\ Len(Front(q)) <= MaxBatch
         /\ q # <<>> => Front(q) # <<>>
         /\ Front(q) \o Rest(q) = q
<1> DEFINE k == Smaller(MaxBatch, Len(q))
<1>0. Len(q) \in Nat /\ (q # <<>> => Len(q) # 0) /\ Len(<<>>) = 0
  BY EmptySeq, LenProperties DEF Messages
<1>1. k \in 0..Len(q) /\ k <= MaxBatch /\ (Len(q) # 0 => k # 0)
  BY <1>0, BatchAssumption DEF Smaller
<1> HIDE DEF k
<1>2. /\ SubSeq(q, 1, k) \in Messages /\ SubSeq(q, k + 1, Len(q)) \in Messages
      /\ Len(SubSeq(q, 1, k)) = k
      /\ SubSeq(q, 1, k) \o SubSeq(q, k + 1, Len(q)) = q
  BY <1>1, Cut
<1>3. Front(q) = SubSeq(q, 1, k) /\ Rest(q) = SubSeq(q, k + 1, Len(q))
  BY DEF Front, Rest, k
<1> QED BY <1>0, <1>1, <1>2, <1>3

-----------------------------------------------------------------------------
(* The queue and the batch of an end                                         *)

\* The part of the invariant that is about the sending side.
OutOK ==
  /\ queue \in [Ends -> Messages] /\ batch \in [Ends -> Messages]
  /\ sending \in [Ends -> BOOLEAN]
  /\ \A e \in Ends : /\ Len(batch[e]) <= MaxBatch
                     /\ sending[e] = (batch[e] # <<>>)
                     /\ queue[e] # <<>> => sending[e]

LEMMA OutIsPart ==
  QueueMoves <=> /\ OutOK
                 /\ inChunk \in [Ends -> BOOLEAN]
                 /\ net \in [Ends -> Messages] /\ got \in [Ends -> Messages]
                 /\ told \subseteq {"OnActive", "OnPublishPrepare"}
                 /\ plays \in BOOLEAN /\ pings \in [Ends -> 0..MaxPings]
BY DEF QueueMoves, TypeOK, OutOK, Messages

\* What e still has to write, in order.
Waiting(e) == batch[e] \o queue[e]

\* An end's queue and batch change, and nobody else's: they keep the invariant.
LEMMA OutChange ==
  ASSUME OutOK, NEW e \in Ends, NEW q \in Messages, NEW b \in Messages,
         queue' = [queue EXCEPT ![e] = q], batch' = [batch EXCEPT ![e] = b],
         sending' = [sending EXCEPT ![e] = (b # <<>>)],
         Len(b) <= MaxBatch, q # <<>> => b # <<>>
  PROVE  /\ OutOK'
         /\ Waiting(e)' = b \o q
         /\ \A x \in Ends : x # e => Waiting(x)' = Waiting(x)
<1>1. /\ queue' \in [Ends -> Messages] /\ batch' \in [Ends -> Messages]
      /\ sending' \in [Ends -> BOOLEAN]
  BY DEF OutOK
<1>2. /\ queue'[e] = q /\ batch'[e] = b /\ sending'[e] = (b # <<>>)
      /\ \A x \in Ends : x # e => /\ queue'[x] = queue[x]
                                 /\ batch'[x] = batch[x]
                                 /\ sending'[x] = sending[x]
  BY DEF OutOK
<1>3. ASSUME NEW x \in Ends
      PROVE  /\ Len(batch'[x]) <= MaxBatch
             /\ sending'[x] = (batch'[x] # <<>>)
             /\ queue'[x] # <<>> => sending'[x]
  <2>1. CASE x = e
    <3>1. queue'[x] = q /\ batch'[x] = b /\ sending'[x] = (b # <<>>)
      BY <1>2, <2>1
    <3>2. sending'[x] = (batch'[x] # <<>>)
      BY <3>1
    <3>3. queue'[x] # <<>> => sending'[x]
      BY <3>1
    <3> QED BY <3>1, <3>2, <3>3
  <2>2. CASE x # e
    BY <1>2, <2>2 DEF OutOK
  <2> QED BY <2>1, <2>2
<1> QED BY <1>1, <1>2, <1>3 DEF OutOK, Waiting

\* PushOutQueue puts messages behind everything that waits.
LEMMA PushAppends ==
  ASSUME OutOK, NEW e \in Ends, NEW ms \in Messages, Push(e, ms)
  PROVE  /\ OutOK'
         /\ Waiting(e)' = Waiting(e) \o ms
         /\ \A x \in Ends : x # e => Waiting(x)' = Waiting(x)
<1>0. /\ queue[e] \in Messages /\ batch[e] \in Messages
      /\ sending[e] = (batch[e] # <<>>) /\ (queue[e] # <<>> => sending[e])
      /\ Len(batch[e]) <= MaxBatch
  BY DEF OutOK
<1>1. CASE ms = <<>>
  <2>1. UNCHANGED <<queue, sending, batch>>
    BY <1>1 DEF Push, outVars
  <2>2. Waiting(e) \in Messages
    BY <1>0, Concat DEF Waiting
  <2>3. OutOK' /\ \A x \in Ends : Waiting(x)' = Waiting(x)
    BY <2>1 DEF OutOK, Waiting
  <2> QED BY <1>1, <2>2, <2>3, Empty
<1>2. CASE ms # <<>> /\ sending[e]
  <2>1. /\ queue' = [queue EXCEPT ![e] = queue[e] \o ms]
        /\ UNCHANGED <<sending, batch>>
    BY <1>2 DEF Push
  <2>2. /\ batch' = [batch EXCEPT ![e] = batch[e]]
        /\ sending' = [sending EXCEPT ![e] = (batch[e] # <<>>)]
    BY <1>0, <2>1 DEF OutOK
  <2>3. queue[e] \o ms \in Messages
    BY <1>0, Concat
  <2>4. batch[e] # <<>>
    BY <1>0, <1>2
  <2>5. /\ OutOK'
        /\ Waiting(e)' = batch[e] \o (queue[e] \o ms)
        /\ \A x \in Ends : x # e => Waiting(x)' = Waiting(x)
    BY <1>0, <2>1, <2>2, <2>3, <2>4, OutChange
  <2> QED BY <1>0, <2>5, Regroup DEF Waiting
<1>3. CASE ms # <<>> /\ ~sending[e]
  <2> DEFINE q == Append(queue[e], Head(ms))
  <2>1. /\ sending' = [sending EXCEPT ![e] = TRUE]
        /\ batch' = [batch EXCEPT ![e] = Front(q)]
        /\ queue' = [queue EXCEPT ![e] = Rest(q) \o Tail(ms)]
    BY <1>3 DEF Push
  <2>2. batch[e] = <<>> /\ queue[e] = <<>>
    BY <1>0, <1>3
  <2>3. /\ Head(ms) \in Message /\ Tail(ms) \in Messages
        /\ ms = <<Head(ms)>> \o Tail(ms)
    BY <1>3, HeadAndTail
  <2>4. q = <<Head(ms)>> /\ q \in Messages /\ q # <<>>
    BY <2>2, <2>3 DEF Messages
  <2> HIDE DEF q
  <2>5. /\ Front(q) \in Messages /\ Rest(q) \in Messages
        /\ Len(Front(q)) <= MaxBatch /\ Front(q) # <<>>
        /\ Front(q) \o Rest(q) = q
    BY <2>4, FrontAndRest
  <2>6. Rest(q) \o Tail(ms) \in Messages
    BY <2>3, <2>5, Concat
  <2>7. sending' = [sending EXCEPT ![e] = (Front(q) # <<>>)]
    BY <2>1, <2>5
  <2>8. /\ OutOK'
        /\ Waiting(e)' = Front(q) \o (Rest(q) \o Tail(ms))
        /\ \A x \in Ends : x # e => Waiting(x)' = Waiting(x)
    BY <2>1, <2>5, <2>6, <2>7, OutChange
  <2>9. Front(q) \o (Rest(q) \o Tail(ms)) = ms
    <3>1. Front(q) \o (Rest(q) \o Tail(ms)) = (Front(q) \o Rest(q)) \o Tail(ms)
      BY <2>3, <2>5, Regroup
    <3> QED BY <3>1, <2>3, <2>4, <2>5
  <2>10. Waiting(e) = <<>>
    BY <2>2, Empty DEF Waiting
  <2> QED BY <2>8, <2>9, <2>10, Empty
<1> QED BY <1>1, <1>2, <1>3

\* When a batch is written the next one is taken from the head of the queue.
LEMMA NextBatch ==
  ASSUME OutOK, NEW e \in Ends, CheckAndSend(e),
         told \subseteq {"OnActive", "OnPublishPrepare"}
  PROVE  /\ OutOK'
         /\ Waiting(e)' = queue[e]
         /\ \A x \in Ends : x # e => Waiting(x)' = Waiting(x)
         /\ told' \subseteq {"OnActive", "OnPublishPrepare"}
<1>0. queue[e] \in Messages
  BY DEF OutOK
<1>1. CASE queue[e] # <<>>
  <2>1. /\ sending' = [sending EXCEPT ![e] = TRUE]
        /\ batch' = [batch EXCEPT ![e] = Front(queue[e])]
        /\ queue' = [queue EXCEPT ![e] = Rest(queue[e])]
        /\ told' = told
    BY <1>1 DEF CheckAndSend, Send
  <2>2. /\ Front(queue[e]) \in Messages /\ Rest(queue[e]) \in Messages
        /\ Len(Front(queue[e])) <= MaxBatch /\ Front(queue[e]) # <<>>
        /\ Front(queue[e]) \o Rest(queue[e]) = queue[e]
    BY <1>0, <1>1, FrontAndRest
  <2>3. sending' = [sending EXCEPT ![e] = (Front(queue[e]) # <<>>)]
    BY <2>1, <2>2
  <2> QED BY <2>1, <2>2, <2>3, OutChange
<1>2. CASE queue[e] = <<>>
  <2>1. /\ sending' = [sending EXCEPT ![e] = FALSE]
        /\ batch' = [batch EXCEPT ![e] = <<>>]
        /\ queue' = [queue EXCEPT ![e] = <<>>]
    BY <1>2 DEF CheckAndSend, OutOK
  <2>2. told' \subseteq {"OnActive", "OnPublishPrepare"}
    BY <1>2 DEF CheckAndSend
  <2>3. sending' = [sending EXCEPT ![e] = (<<>> # <<>>)]
    BY <2>1
  <2>4. Len(<<>>) <= MaxBatch
    BY EmptySeq, BatchAssumption
  <2>5. /\ OutOK' /\ Waiting(e)' = <<>> \o <<>>
        /\ \A x \in Ends : x # e => Waiting(x)' = Waiting(x)
    BY <2>1, <2>3, <2>4, Empty, OutChange
  <2> QED BY <1>2, <2>2, <2>5, Empty
<1> QED BY <1>1, <1>2

-----------------------------------------------------------------------------
(***************************************************************************)
(* Each step as it is seen from outside the queues: nothing changes but    *)
(* that one message, the first of those on their way to e, is handled and  *)
(* its answers come last on the other way, or a ping joins the messages on *)
(* their way to e behind those that are written.                           *)
(***************************************************************************)
LEMMA EndsArePeers ==
  \A e \in Ends : /\ Peer(e) \in Ends /\ Peer(e) # e /\ Peer(Peer(e)) = e
                 /\ \A x \in Ends : x = e \/ x = Peer(e)
BY DEF Ends, Peer

LEMMA UnderwayIs ==
  ASSUME OutOK, net \in [Ends -> Messages], NEW e \in Ends
  PROVE  /\ Underway(e) = net[e] \o Waiting(Peer(e))
         /\ net[e] \in Messages /\ Waiting(Peer(e)) \in Messages
         /\ Underway(e) \in Messages
<1>1. /\ net[e] \in Messages
      /\ batch[Peer(e)] \in Messages /\ queue[Peer(e)] \in Messages
  BY EndsArePeers DEF OutOK
<1>2. (net[e] \o batch[Peer(e)]) \o queue[Peer(e)]
        = net[e] \o (batch[Peer(e)] \o queue[Peer(e)])
  BY <1>1, Regroup
<1>3. batch[Peer(e)] \o queue[Peer(e)] \in Messages
  BY <1>1, Concat
<1> QED BY <1>1, <1>2, <1>3, Concat DEF Underway, Waiting

LEMMA UnderwayNext ==
  ASSUME OutOK', NEW e \in Ends, net'[e] \in Messages
  PROVE  Underway(e)' = net'[e] \o Waiting(Peer(e))'
<1>1. batch'[Peer(e)] \in Messages /\ queue'[Peer(e)] \in Messages
  BY EndsArePeers DEF OutOK
<1>2. (net'[e] \o batch'[Peer(e)]) \o queue'[Peer(e)]
        = net'[e] \o (batch'[Peer(e)] \o queue'[Peer(e)])
  BY <1>1, Regroup
<1> QED BY <1>2 DEF Underway, Waiting

\* OnWrite moves messages from the batch to the wire.
LEMMA WriteStep ==
  ASSUME QueueMoves, NEW e \in Ends, Write(e)
  PROVE  /\ QueueMoves'
         /\ \A x \in Ends : Underway(x)' = Underway(x)
         /\ UNCHANGED <<got, plays, pings>>
<1>0. /\ OutOK /\ net \in [Ends -> Messages]
      /\ told \subseteq {"OnActive", "OnPublishPrepare"}
  BY OutIsPart
<1>1. PICK k \in 1..Len(batch[e]) :
        /\ net' = [net EXCEPT ![Peer(e)] = @ \o SubSeq(batch[e], 1, k)]
        /\ IF k = Len(batch[e])
           THEN CheckAndSend(e)
           ELSE /\ batch' = [batch EXCEPT ![e] = SubSeq(@, k + 1, Len(@))]
                /\ UNCHANGED <<queue, sending, told>>
  BY DEF Write
<1> DEFINE b == batch[e]
           done == SubSeq(b, 1, k)
           left == SubSeq(b, k + 1, Len(b))
           p == Peer(e)
<1>2. UNCHANGED <<inChunk, got, plays, pings>> /\ b # <<>>
  BY DEF Write
<1>3. /\ b \in Messages /\ queue[e] \in Messages /\ net[p] \in Messages
      /\ Len(b) \in Nat /\ Len(b) <= MaxBatch /\ k \in 0..Len(b)
      /\ p \in Ends /\ p # e /\ Peer(p) = e
  BY <1>0, EndsArePeers, LenProperties DEF OutOK, Messages
<1>4. /\ done \in Messages /\ left \in Messages /\ done \o left = b
      /\ Len(left) = Len(b) - k
  BY <1>3, Cut
<1>5. net' = [net EXCEPT ![p] = net[p] \o done] /\ net[p] \o done \in Messages
  BY <1>0, <1>1, <1>3, <1>4, Concat
<1>6. /\ net' \in [Ends -> Messages]
      /\ net'[p] = net[p] \o done /\ net'[e] = net[e]
  BY <1>0, <1>3, <1>5
\* What e still has to write is what it had, without what it has written.
<1>7. /\ OutOK' /\ told' \subseteq {"OnActive", "OnPublishPrepare"}
      /\ Waiting(e)' = left \o queue[e]
      /\ \A x \in Ends : x # e => Waiting(x)' = Waiting(x)
  <2>1. CASE k = Len(b)
    <3>1. left = <<>>
      <4>1. Len(left) = 0
        BY <1>3, <1>4, <2>1
      <4> QED BY <1>4, <4>1, EmptySeq DEF Messages
    <3>2. CheckAndSend(e)
      BY <1>1, <2>1
    <3> HIDE DEF left
    <3> QED BY <1>0, <1>3, <3>1, <3>2, NextBatch, Empty
  <2>2. CASE k # Len(b)
    <3>1. left # <<>> /\ Len(left) <= MaxBatch
      <4>1. Len(left) # 0 /\ Len(left) <= MaxBatch
        BY <1>3, <1>4, <2>2, BatchAssumption
      <4> QED BY <4>1, EmptySeq
    <3>2. /\ batch' = [batch EXCEPT ![e] = left]
          /\ UNCHANGED <<queue, sending, told>>
      BY <1>1, <2>2
    <3> HIDE DEF left
    <3>3. /\ queue' = [queue EXCEPT ![e] = queue[e]]
          /\ sending' = [sending EXCEPT ![e] = (left # <<>>)]
      BY <1>0, <1>2, <3>1, <3>2 DEF OutOK
    <3> QED BY <1>0, <1>3, <1>4, <3>1, <3>2, <3>3, OutChange
  <2> QED BY <2>1, <2>2
<1>8. QueueMoves'
  <2>1. UNCHANGED <<inChunk, got, plays, pings>>
    BY <1>2
  <2>2. /\ OutOK' /\ net' \in [Ends -> Messages]
        /\ told' \subseteq {"OnActive", "OnPublishPrepare"}
    BY <1>6, <1>7
  <2> QED BY <2>1, <2>2, OutIsPart DEF QueueMoves, TypeOK, OutOK, Messages
\* What is on the wire, and what waits behind it.
<1>9. Underway(p)' = Underway(p)
  <2>1. Underway(p) = net[p] \o (b \o queue[e])
    BY <1>0, <1>3, UnderwayIs DEF Waiting
  <2>2. Underway(p)' = (net[p] \o done) \o (left \o queue[e])
    <3>1. Underway(p)' = net'[p] \o Waiting(e)'
      BY <1>3, <1>6, <1>7, UnderwayNext
    <3> QED BY <3>1, <1>6, <1>7
  <2>3. left \o queue[e] \in Messages
    BY <1>3, <1>4, Concat
  <2>4. (net[p] \o done) \o (left \o queue[e])
          = net[p] \o (done \o (left \o queue[e]))
    BY <1>3, <1>4, <2>3, Regroup
  <2>5. done \o (left \o queue[e]) = (done \o left) \o queue[e]
    BY <1>3, <1>4, Regroup
  <2> QED BY <1>4, <2>1, <2>2, <2>4, <2>5
<1>10. Underway(e)' = Underway(e)
  <2>1. Underway(e) = net[e] \o Waiting(p)
    BY <1>0, UnderwayIs
  <2>2. Underway(e)' = net'[e] \o Waiting(p)'
    <3>1. net'[e] \in Messages
      BY <1>0, <1>6
    <3> QED BY <3>1, <1>7, UnderwayNext
  <2> QED BY <1>3, <1>6, <1>7, <2>1, <2>2
<1>11. \A x \in Ends : Underway(x)' = Underway(x)
  BY <1>9, <1>10, EndsArePeers
<1> QED BY <1>2, <1>8, <1>11

\* A message that has arrived is handled: it was the first of those on their way
\* to e, and e's answer is now the last on the way to its peer.
LEMMA HandleStep ==
  ASSUME QueueMoves, NEW e \in Ends, Handle(e)
  PROVE  /\ QueueMoves'
         /\ Underway(e) # <<>>
         /\ got' = [got EXCEPT ![e] = Append(@, Head(Underway(e)))]
         /\ Underway(e)' = Tail(Underway(e))
         /\ Underway(Peer(e))'
              = Underway(Peer(e)) \o Reply(e, Head(Underway(e)), plays)
         /\ UNCHANGED <<plays, pings>>
<1> DEFINE m == Head(net[e])
           ms == Reply(e, m, plays)
           p == Peer(e)
           w == Waiting(p)
<1>0. /\ OutOK /\ net \in [Ends -> Messages] /\ got \in [Ends -> Messages]
      /\ inChunk \in [Ends -> BOOLEAN]
      /\ told \subseteq {"OnActive", "OnPublishPrepare"} /\ plays \in BOOLEAN
      /\ pings \in [Ends -> 0..MaxPings]
  BY OutIsPart
<1>1. /\ net[e] # <<>> /\ net[e] \in Messages
      /\ got' = [got EXCEPT ![e] = Append(@, m)]
      /\ inChunk' = [inChunk EXCEPT ![e] = @ \/ m.type = "SetChunkSize"]
      /\ told' = IF e = "client" /\ m.type = "_result" /\ m.id = 5
                 THEN told \cup {"OnPublishPrepare"} ELSE told
      /\ Push(e, ms)
      /\ net' = [net EXCEPT ![e] = Tail(net[e])]
      /\ UNCHANGED <<plays, pings>>
  BY <1>0 DEF Handle
<1>2. p \in Ends /\ p # e /\ Peer(p) = e
  BY EndsArePeers
<1>3. /\ m \in Message /\ Tail(net[e]) \in Messages
      /\ net[e] = <<m>> \o Tail(net[e]) /\ <<m>> \in Messages
  BY <1>1, HeadAndTail DEF Messages
<1>4. ms \in Messages
  BY <1>0, <1>3, ReplyType
<1> HIDE DEF m, ms
<1>5. /\ OutOK'
      /\ Waiting(e)' = Waiting(e) \o ms
      /\ w' = w
  BY <1>0, <1>1, <1>2, <1>4, PushAppends
<1>6. /\ net' \in [Ends -> Messages]
      /\ net'[e] = Tail(net[e]) /\ net'[p] = net[p] /\ net[p] \in Messages
  BY <1>0, <1>1, <1>2, <1>3
<1>7. QueueMoves'
  <2>1. got' \in [Ends -> Messages]
    <3>1. got[e] \in Messages
      BY <1>0
    <3>2. Append(got[e], m) \in Messages
      BY <1>3, <3>1 DEF Messages
    <3> QED BY <1>0, <1>1, <3>2
  <2>2. inChunk' \in [Ends -> BOOLEAN]
    BY <1>0, <1>1
  <2>3. told' \subseteq {"OnActive", "OnPublishPrepare"}
    BY <1>0, <1>1
  <2>4. plays' \in BOOLEAN /\ pings' \in [Ends -> 0..MaxPings]
    BY <1>0, <1>1
  <2> QED BY <1>5, <1>6, <2>1, <2>2, <2>3, <2>4
          DEF QueueMoves, TypeOK, OutOK, Messages
\* What is on its way to e.
<1>8. Underway(e) = net[e] \o w /\ w \in Messages /\ Underway(e) \in Messages
  BY <1>0, UnderwayIs
<1>9. Underway(e) = <<m>> \o (Tail(net[e]) \o w)
  <2>1. <<m>> \in Messages /\ Tail(net[e]) \in Messages /\ w \in Messages
    BY <1>3, <1>8
  <2>2. (<<m>> \o Tail(net[e])) \o w = <<m>> \o (Tail(net[e]) \o w)
    BY <2>1, Regroup
  <2>3. Underway(e) = (<<m>> \o Tail(net[e])) \o w
    BY <1>3, <1>8
  <2> QED BY <2>2, <2>3
<1>10. /\ Underway(e) # <<>> /\ Head(Underway(e)) = m
       /\ Tail(Underway(e)) = Tail(net[e]) \o w
  <2>1. Tail(net[e]) \o w \in Messages
    BY <1>3, <1>8, Concat
  <2>2. /\ <<m>> \o (Tail(net[e]) \o w) # <<>>
        /\ Head(<<m>> \o (Tail(net[e]) \o w)) = m
        /\ Tail(<<m>> \o (Tail(net[e]) \o w)) = Tail(net[e]) \o w
    BY <1>3, <2>1, FirstOfConcat
  <2> QED BY <1>9, <2>2
<1>11. Underway(e)' = Tail(net[e]) \o w
  <2>1. Underway(e)' = net'[e] \o w'
    <3>1. net'[e] \in Messages
      BY <1>3, <1>6
    <3> QED BY <3>1, <1>5, UnderwayNext
  <2> QED BY <1>5, <1>6, <2>1
\* What is on its way to its peer.
<1>12. Underway(p)' = Underway(p) \o ms
  <2>1. /\ Underway(p) = net[p] \o Waiting(e) /\ Waiting(e) \in Messages
    BY <1>0, <1>2, UnderwayIs
  <2>4. Underway(p)' = net[p] \o Waiting(e)'
    <3>1. net'[p] \in Messages
      BY <1>6
    <3>2. Underway(p)' = net'[p] \o Waiting(e)'
      BY <1>2, <1>5, <3>1, UnderwayNext
    <3> QED BY <1>6, <3>2
  <2>5. Underway(p)' = net[p] \o (Waiting(e) \o ms)
    BY <1>5, <2>4
  <2>6. (net[p] \o Waiting(e)) \o ms = net[p] \o (Waiting(e) \o ms)
    <3>1. net[p] \in Messages /\ Waiting(e) \in Messages
      BY <1>6, <2>1
    <3> QED BY <1>4, <3>1, Regroup
  <2> QED BY <2>1, <2>5, <2>6
<1>13. got' = [got EXCEPT ![e] = Append(@, Head(Underway(e)))]
  BY <1>1, <1>10
<1>14. ms = Reply(e, Head(Underway(e)), plays)
  BY <1>10 DEF ms, m
<1> QED BY <1>1, <1>7, <1>10, <1>11, <1>12, <1>13, <1>14

\* A ping joins the messages on their way to e behind those that are written.
LEMMA PingStep ==
  ASSUME QueueMoves, NEW e \in Ends, NEW v \in Values, Ping(e, v)
  PROVE  /\ QueueMoves'
         /\ pings[e] < MaxPings
         /\ \E k \in 0..Len(Underway(e)) :
              Underway(e)' = SubSeq(Underway(e), 1, k) \o <<PingRequest(v)>>
                             \o SubSeq(Underway(e), k + 1, Len(Underway(e)))
         /\ Underway(Peer(e))' = Underway(Peer(e))
         /\ pings' = [pings EXCEPT ![e] = @ + 1]
         /\ UNCHANGED <<got, plays>>
<1> DEFINE m == PingRequest(v)
           p == Peer(e)
           w == Waiting(p)
<1>0. /\ OutOK /\ net \in [Ends -> Messages]
      /\ pings \in [Ends -> 0..MaxPings]
  BY OutIsPart
<1>1. /\ pings[e] < MaxPings
      /\ pings' = [pings EXCEPT ![e] = @ + 1]
      /\ net' = [net EXCEPT ![e] = Append(net[e], m)]
      /\ UNCHANGED <<queue, sending, batch, inChunk, got, told, plays>>
  BY <1>0 DEF Ping, outVars
<1>2. m \in Message /\ <<m>> \in Messages
  <2>1. v \in 0..(Half * Half - 1)
    BY BatchAssumption
  <2>2. "PingRequest" \in Controls
    <3>1. Events[6] = "PingRequest" /\ 6 \in 1..7
      BY DEF Events
    <3> QED BY <3>1, EventTypes
  <2> QED BY <2>1, <2>2 DEF PingRequest, Message, Messages
<1> HIDE DEF m
<1>3. /\ net[e] \in Messages /\ w \in Messages /\ Underway(e) = net[e] \o w
  BY <1>0, UnderwayIs
<1>4. Append(net[e], m) = net[e] \o <<m>> /\ Append(net[e], m) \in Messages
  BY <1>2, <1>3, AppendIsConcat, AppendProperties DEF Messages
<1>5. QueueMoves'
  <2>1. net' \in [Ends -> Messages]
    BY <1>0, <1>1, <1>4
  <2>2. pings' \in [Ends -> 0..MaxPings]
    <3>1. pings[e] + 1 \in 0..MaxPings
      BY <1>0, <1>1, BatchAssumption
    <3> QED BY <1>0, <1>1, <3>1
  <2> QED BY <1>1, <2>1, <2>2 DEF QueueMoves, TypeOK, Messages
<1>6. Underway(e)' = (net[e] \o <<m>>) \o w
  <2>1. net'[e] = net[e] \o <<m>> /\ net'[e] \in Messages
    BY <1>0, <1>1, <1>4
  <2>2. OutOK' /\ w' = w
    BY <1>0, <1>1 DEF OutOK, Waiting
  <2>3. Underway(e)' = net'[e] \o w'
    BY <2>1, <2>2, UnderwayNext
  <2> QED BY <2>1, <2>2, <2>3
<1>7. \E k \in 0..Len(Underway(e)) :
        Underway(e)' = SubSeq(Underway(e), 1, k) \o <<m>>
                       \o SubSeq(Underway(e), k + 1, Len(Underway(e)))
  <2>1. /\ Len(net[e]) \in 0..Len(net[e] \o w)
        /\ SubSeq(net[e] \o w, 1, Len(net[e])) = net[e]
        /\ SubSeq(net[e] \o w, Len(net[e]) + 1, Len(net[e] \o w)) = w
    BY <1>3, CutConcat
  <2>2. /\ Len(net[e]) \in 0..Len(Underway(e))
        /\ SubSeq(Underway(e), 1, Len(net[e])) = net[e]
        /\ SubSeq(Underway(e), Len(net[e]) + 1, Len(Underway(e))) = w
    BY <1>3, <2>1
  <2> QED BY <1>6, <2>2
<1>8. Underway(p)' = Underway(p)
  <2>1. net'[p] = net[p]
    BY <1>0, <1>1, EndsArePeers
  <2> QED BY <1>1, <2>1 DEF Underway
<1> QED BY <1>1, <1>5, <1>7, <1>8 DEF m

-----------------------------------------------------------------------------
(* The theorems                                                              *)

LEMMA InitHolds == Init => QueueMoves
<1> SUFFICES ASSUME Init PROVE QueueMoves
  OBVIOUS
<1>1. /\ <<Head(Connect)>> \in Messages /\ Tail(Connect) \in Messages
      /\ <<>> \in Messages /\ Connect # <<>>
  <2>1. Connect # <<>>
    BY DEF Connect
  <2>2. Head(Connect) \in Message
    BY <2>1, ConnectType, HeadAndTail
  <2> QED BY <2>1, <2>2, ConnectType, HeadAndTail, Empty DEF Messages
<1>2. /\ batch \in [Ends -> Messages] /\ queue \in [Ends -> Messages]
      /\ sending \in [Ends -> BOOLEAN]
      /\ batch["client"] = <<Head(Connect)>> /\ batch["server"] = <<>>
      /\ queue["server"] = <<>>
      /\ sending["client"] = TRUE /\ sending["server"] = FALSE
  <2> DEFINE h == <<Head(Connect)>>
             t == Tail(Connect)
  <2>1. /\ batch = [client |-> h, server |-> <<>>]
        /\ queue = [client |-> t, server |-> <<>>]
        /\ sending = [e \in Ends |-> e = "client"]
    BY DEF Init
  <2>2. h \in Messages /\ t \in Messages /\ <<>> \in Messages
    BY <1>1
  <2> HIDE DEF h, t
  <2>3. batch \in [Ends -> Messages] /\ batch["client"] = h /\ batch["server"] = <<>>
    BY <2>1, <2>2 DEF Ends
  <2>4. queue \in [Ends -> Messages] /\ queue["server"] = <<>>
    BY <2>1, <2>2 DEF Ends
  <2>5. sending \in [Ends -> BOOLEAN] /\ sending["client"] = TRUE
        /\ sending["server"] = FALSE
    <3>1. "client" \in Ends /\ "server" \in Ends
      BY DEF Ends
    <3> QED BY <2>1, <3>1
  <2> QED BY <2>3, <2>4, <2>5 DEF h
<1>3. /\ Len(<<Head(Connect)>>) = 1 /\ Len(<<>>) = 0
      /\ <<Head(Connect)>> # <<>>
  <2>1. Len(<<Head(Connect)>>) = 1 /\ Len(<<>>) = 0
    OBVIOUS
  <2> QED BY <2>1
<1>4. OutOK
  <2>1. ASSUME NEW e \in Ends
        PROVE  /\ Len(batch[e]) <= MaxBatch
               /\ sending[e] = (batch[e] # <<>>)
               /\ queue[e] # <<>> => sending[e]
    <3>1. CASE e = "client"
      <4>1. sending[e] = TRUE /\ batch[e] = <<Head(Connect)>>
        BY <1>2, <3>1
      <4>2. Len(batch[e]) <= MaxBatch /\ batch[e] # <<>>
        BY <1>3, <4>1, BatchAssumption
      <4>3. sending[e] = (batch[e] # <<>>)
        BY <4>1, <4>2
      <4> QED BY <4>1, <4>2, <4>3
    <3>2. CASE e = "server"
      <4>1. ~sending[e] /\ batch[e] = <<>> /\ queue[e] = <<>>
        BY <1>2, <3>2
      <4>2. sending[e] \in BOOLEAN
        BY <1>2
      <4>3. Len(batch[e]) <= MaxBatch
        BY <1>3, <4>1, BatchAssumption
      <4>4. sending[e] = (batch[e] # <<>>)
        BY <4>1, <4>2
      <4> QED BY <4>1, <4>3, <4>4
    <3> QED BY <3>1, <3>2 DEF Ends
  <2> QED BY <1>2, <2>1 DEF OutOK
<1>5. /\ net \in [Ends -> Messages] /\ got \in [Ends -> Messages]
      /\ inChunk \in [Ends -> BOOLEAN] /\ pings \in [Ends -> 0..MaxPings]
      /\ told \subseteq {"OnActive", "OnPublishPrepare"} /\ plays \in BOOLEAN
  BY <1>1, BatchAssumption DEF Init
<1> QED BY <1>4, <1>5, OutIsPart

LEMMA InvariantStep == QueueMoves /\ [Next]_vars => QueueMoves'
<1> SUFFICES ASSUME QueueMoves, [Next]_vars PROVE QueueMoves'
  OBVIOUS
<1>1. CASE UNCHANGED vars
  BY <1>1 DEF vars, outVars, QueueMoves, TypeOK
<1> QED BY <1>1, WriteStep, HandleStep, PingStep DEF Next

(***************************************************************************)
(* Nothing waits in out_waiting_queue_ unless a batch is being written,    *)
(* and no Send takes more than its share, for any size of a batch, any     *)
(* pings and any partial writes (rtmp_context.cpp:521-543, 718-742).       *)
(***************************************************************************)
THEOREM QueueAlwaysMoves == Spec => []QueueMoves
BY InitHolds, InvariantStep, PTL DEF Spec

\* Both modules take what is answered from the same handlers.
LEMMA SameHandlers ==
  /\ Dialogue!Ends = Ends /\ Dialogue!Connect = Connect
  /\ \A e \in Ends : Dialogue!Peer(e) = Peer(e)
  /\ \A v \in Values : Dialogue!PingRequest(v) = PingRequest(v)
  /\ \A e, m, p : Dialogue!Reply(e, m, p) = Reply(e, m, p)
<1>1. \A v : Dialogue!UserCtrl(v) = UserCtrl(v)
  BY DEF Dialogue!UserCtrl, UserCtrl, Dialogue!Events, Events, Dialogue!Half, Half
<1>2. \A i, p : Dialogue!ResultReply(i, p) = ResultReply(i, p)
  BY DEF Dialogue!ResultReply, ResultReply, Dialogue!Msg, Msg
<1>3. Dialogue!ConnectReply = ConnectReply /\ Dialogue!Msg("onStatus") = Msg("onStatus")
  BY DEF Dialogue!ConnectReply, ConnectReply, Dialogue!Msg, Msg
<1>4. \A e, m, p : Dialogue!Reply(e, m, p) = Reply(e, m, p)
  BY <1>1, <1>2, <1>3 DEF Dialogue!Reply, Reply
<1> QED
  BY <1>4 DEF Dialogue!Ends, Ends, Dialogue!Connect, Connect, Dialogue!Msg, Msg,
     Dialogue!Peer, Peer, Dialogue!PingRequest, PingRequest

\* The abstract channels after a step, put together end by end.
LEMMA ChannelsNext ==
  ASSUME NEW e \in Ends, NEW c, NEW d,
         Underway(e)' = c, Underway(Peer(e))' = d
  PROVE  [x \in Ends |-> Underway(x)]'
           = [[x \in Ends |-> Underway(x)] EXCEPT ![e] = c, ![Peer(e)] = d]
<1>1. \A x \in Ends : Underway(x)' = IF x = e THEN c ELSE d
  BY EndsArePeers
<1> QED BY <1>1, EndsArePeers

LEMMA RefinementStep ==
  QueueMoves /\ [Next]_vars => [Dialogue!Next]_(Dialogue!vars)
<1> SUFFICES ASSUME QueueMoves, [Next]_vars
             PROVE  [Dialogue!Next]_(Dialogue!vars)
  OBVIOUS
<1> DEFINE chan == [x \in Ends |-> Underway(x)]
<1>1. ASSUME NEW e \in Ends, Write(e) PROVE UNCHANGED Dialogue!vars
  <2>1. /\ \A x \in Ends : Underway(x)' = Underway(x)
        /\ UNCHANGED <<got, plays, pings>>
    BY <1>1, WriteStep
  <2>2. chan' = chan
    BY <2>1
  <2> QED BY <2>1, <2>2 DEF Dialogue!vars
<1>2. ASSUME NEW e \in Ends, Handle(e) PROVE Dialogue!Handle(e)
  <2>1. /\ Underway(e) # <<>>
        /\ got' = [got EXCEPT ![e] = Append(@, Head(Underway(e)))]
        /\ Underway(e)' = Tail(Underway(e))
        /\ Underway(Peer(e))'
             = Underway(Peer(e)) \o Reply(e, Head(Underway(e)), plays)
        /\ UNCHANGED <<plays, pings>>
    BY <1>2, HandleStep
  <2>2. chan[e] = Underway(e) /\ chan[Peer(e)] = Underway(Peer(e))
    BY EndsArePeers
  <2>3. chan' = [chan EXCEPT ![e] = Tail(@),
                             ![Peer(e)] = @ \o Reply(e, Head(chan[e]), plays)]
    BY <2>1, <2>2, ChannelsNext, EndsArePeers
  <2> QED BY <2>1, <2>2, <2>3, SameHandlers DEF Dialogue!Handle
<1>3. ASSUME NEW e \in Ends, NEW v \in Values, Ping(e, v)
      PROVE  Dialogue!Ping(e, v)
  <2>1. /\ pings[e] < MaxPings
        /\ Underway(Peer(e))' = Underway(Peer(e))
        /\ pings' = [pings EXCEPT ![e] = @ + 1]
        /\ UNCHANGED <<got, plays>>
    BY <1>3, PingStep
  <2>2. PICK k \in 0..Len(Underway(e)) :
          Underway(e)' = SubSeq(Underway(e), 1, k) \o <<PingRequest(v)>>
                         \o SubSeq(Underway(e), k + 1, Len(Underway(e)))
    BY <1>3, PingStep
  <2>3. chan[e] = Underway(e) /\ chan[Peer(e)] = Underway(Peer(e))
    BY EndsArePeers
  <2>4. chan' = [chan EXCEPT ![e] = SubSeq(@, 1, k) \o <<PingRequest(v)>>
                                     \o SubSeq(@, k + 1, Len(@))]
    <3>1. chan' = [chan EXCEPT ![e] = Underway(e)', ![Peer(e)] = Underway(Peer(e))]
      BY <2>1, ChannelsNext
    <3>2. chan' = [chan EXCEPT ![e] = Underway(e)']
      BY <3>1, <2>3, EndsArePeers
    <3> QED BY <2>2, <2>3, <3>2
  <2> QED BY <2>1, <2>2, <2>3, <2>4, SameHandlers DEF Dialogue!Ping
<1>4. CASE UNCHANGED vars
  <2>1. /\ UNCHANGED <<got, plays, pings>>
        /\ \A x \in Ends : Underway(x)' = Underway(x)
    BY <1>4 DEF vars, outVars, Underway
  <2>2. chan' = chan
    BY <2>1
  <2> QED BY <2>1, <2>2 DEF Dialogue!vars
<1> QED BY <1>1, <1>2, <1>3, <1>4, SameHandlers DEF Next, Dialogue!Next

(***************************************************************************)
(* Through queue, batches, partial writes and completion callbacks each    *)
(* end is given the other's messages in the order in which PushOutQueue    *)
(* was called, none lost and none sent twice: the session implements       *)
(* RtmpDialogue.                                                           *)
(***************************************************************************)
THEOREM Refinement == Spec => ImplementsDialogue
<1>1. Init => Dialogue!Init
  <2> SUFFICES ASSUME Init PROVE Dialogue!Init
    OBVIOUS
  <2>1. Underway("client") = <<>>
    BY Empty DEF Init, Underway, Peer, Ends
  <2>2. Underway("server") = Connect
    <3>1. Underway("server") = (<<>> \o <<Head(Connect)>>) \o Tail(Connect)
      BY DEF Init, Underway, Peer, Ends
    <3>2. Connect = <<Head(Connect)>> \o Tail(Connect) /\ Head(Connect) \in Message
      <4>1. Connect # <<>>
        BY DEF Connect
      <4> QED BY <4>1, ConnectType, HeadAndTail
    <3>3. <<>> \o <<Head(Connect)>> = <<Head(Connect)>>
      BY <3>2, Empty DEF Messages
    <3> QED BY <3>1, <3>2, <3>3
  <2>3. [x \in Ends |-> Underway(x)] = [client |-> <<>>, server |-> Connect]
    BY <2>1, <2>2 DEF Ends
  <2> QED BY <2>3, SameHandlers DEF Init, Dialogue!Init
<1> QED BY <1>1, RefinementStep, QueueAlwaysMoves, PTL
        DEF Spec, ImplementsDialogue, Dialogue!Spec

-----------------------------------------------------------------------------
(* Streams: Live                                                            *)

Other(s) == IF s = "video" THEN "audio" ELSE "video"

-----------------------------------------------------------------------------
(* The time corrector                                                        *)

\* The step the players see is below the limit, and is the source's if that is.
LEMMA StepBounds ==
  ASSUME NEW s \in Streams, NEW d \in Int
  PROVE  /\ Step(s, d) \in Int
         /\ Step(s, d) < MaxDelta /\ -MaxDelta < Step(s, d)
         /\ d < MaxDelta /\ -MaxDelta < d => Step(s, d) = d
BY DEF Step, Far, DefaultDelta, MaxDelta, Streams

\* What correcting a frame of stream s does: it leaves the other stream alone,
\* and a first frame keeps its time unless the other stream is elsewhere.
Corrected(s, time) ==
  /\ original' = [original EXCEPT ![s] = time]
  /\ \E c \in Nat :
       /\ corrected' = [corrected EXCEPT ![s] = c]
       /\ original[s] # -1 =>
            c = AtLeast0(corrected[s] + Step(s, time - original[s]))
       /\ original[s] = -1 /\ original[Other(s)] \in {-1, time} => c = time

LEMMA AudioCorrected ==
  ASSUME TimesOK, NEW time \in Nat, CorrectAudio(time)
  PROVE  Corrected("audio", time)
<1> DEFINE st == Step("audio", time - original["audio"])
           c == IF original["audio"] = -1 THEN time
                                          ELSE AtLeast0(corrected["audio"] + st)
<1>1. /\ original["audio"] \in Int /\ corrected["audio"] \in Nat
  BY DEF TimesOK, Times, Streams
<1>2. st \in Int
  BY <1>1, StepBounds DEF Streams
<1>3. c \in Nat
  BY <1>1, <1>2 DEF AtLeast0
<1>4. original' = [original EXCEPT !["audio"] = time]
  BY DEF CorrectAudio
<1>5. corrected' = [corrected EXCEPT !["audio"] = c]
  BY DEF CorrectAudio
<1> QED BY <1>3, <1>4, <1>5 DEF Corrected

LEMMA VideoCorrected ==
  ASSUME TimesOK, NEW time \in Nat, CorrectVideo(time)
  PROVE  Corrected("video", time)
<1> DEFINE base == VideoBase(time)
           st == Step("video", time - base.original)
           c == AtLeast0(base.corrected + st)
<1>1. /\ original["video"] \in Int /\ corrected["video"] \in Nat
      /\ original["audio"] \in Int /\ corrected["audio"] \in Nat
  BY DEF TimesOK, Times, Streams
<1>2. base.original \in Int /\ base.corrected \in Nat
  BY <1>1 DEF VideoBase
<1>3. st \in Int
  BY <1>2, StepBounds DEF Streams
<1>4. c \in Nat
  BY <1>2, <1>3 DEF AtLeast0
<1>5. original' = [original EXCEPT !["video"] = time]
  BY DEF CorrectVideo
<1>6. corrected' = [corrected EXCEPT !["video"] = c]
  BY DEF CorrectVideo
<1>7. ASSUME original["video"] # -1
      PROVE  c = AtLeast0(corrected["video"] + Step("video", time - original["video"]))
  BY <1>7 DEF VideoBase
<1>8. ASSUME original["video"] = -1, original["audio"] \in {-1, time} PROVE c = time
  <2>1. base.original = time /\ base.corrected = time
    BY <1>8 DEF VideoBase, Far, MaxDelta
  <2>2. st = 0
    BY <2>1, StepBounds DEF Streams, MaxDelta
  <2> QED BY <2>1, <2>2 DEF AtLeast0
<1> QED BY <1>4, <1>5, <1>6, <1>7, <1>8 DEF Corrected, Other
-----------------------------------------------------------------------------
(* Packets                                                                   *)

IsSequence(s) == \E S : s \in Seq(S)

LEMMA Join ==
  ASSUME NEW s, NEW t, IsSequence(s), IsSequence(t)
  PROVE  /\ IsSequence(s \o t)
         /\ Len(s \o t) = Len(s) + Len(t) /\ Len(s) \in Nat /\ Len(t) \in Nat
         /\ \A i \in 1..Len(s) : (s \o t)[i] = s[i]
<1>1. PICK S : s \in Seq(S)
  BY DEF IsSequence
<1>2. PICK T : t \in Seq(T)
  BY DEF IsSequence
<1>3. s \in Seq(S \cup T) /\ t \in Seq(S \cup T)
  BY <1>1, <1>2
<1>4. Len(s) \in Nat /\ Len(t) \in Nat
  BY <1>3, LenProperties
<1>5. /\ s \o t \in Seq(S \cup T)
      /\ Len(s \o t) = Len(s) + Len(t)
      /\ \A i \in 1 .. Len(s) + Len(t) :
           (s \o t)[i] = IF i <= Len(s) THEN s[i] ELSE t[i - Len(s)]
  BY <1>3, ConcatProperties
<1>6. ASSUME NEW i \in 1..Len(s) PROVE (s \o t)[i] = s[i]
  BY <1>4, <1>5
<1> QED BY <1>4, <1>5, <1>6 DEF IsSequence

-----------------------------------------------------------------------------
(* The publisher                                                             *)

\* The position of the next frame of stream s, step after the last.
Position(s, step) ==
  IF at[s] = -1 THEN (IF at[Other(s)] = -1 THEN 0 ELSE at[Other(s)])
                ELSE at[s] + step

\* What a frame of stream s does to the times.
Frame(s, step) ==
  /\ at' = [at EXCEPT ![s] = Position(s, step)]
  /\ Corrected(s, clock + Position(s, step))
  /\ UNCHANGED <<clock, restarts, uneven>>

LEMMA SendFrameIsFrame ==
  ASSUME TimesOK, NEW s \in Streams, NEW step \in 1..99, SendFrame(s, step)
  PROVE  Frame(s, step)
<1> DEFINE to == Position(s, step)
<1>1. /\ at' = [at EXCEPT ![s] = to]
      /\ OnRecv(Packet(s, FALSE), clock + to)
      /\ UNCHANGED <<clock, restarts, uneven>>
  BY DEF SendFrame, Position, Other
<1>2. ~IsCodecHeader(Packet(s, FALSE)) /\ Packet(s, FALSE).kind = s
  BY DEF IsCodecHeader, Packet, Data, Streams
<1>3. CorrectTimestamp(s, clock + to)
  BY <1>1, <1>2 DEF OnRecv
<1>4. clock + to \in Nat
  <2>1. \A t \in Streams : at[t] \in Nat \cup {-1}
    BY DEF TimesOK, Times
  <2>2. Other(s) \in Streams /\ clock \in Nat
    BY DEF Other, Streams, TimesOK
  <2> QED BY <2>1, <2>2 DEF Position
<1>5. CASE s = "video"
  BY <1>1, <1>3, <1>4, <1>5, VideoCorrected DEF CorrectTimestamp, Frame
<1>6. CASE s = "audio"
  BY <1>1, <1>3, <1>4, <1>6, AudioCorrected DEF CorrectTimestamp, Frame
<1> QED BY <1>5, <1>6 DEF Streams

\* Tuples are.
LEMMA TupleIsSequence ==
  /\ \A a : IsSequence(<<a>>)
  /\ \A a, b, c : IsSequence(<<a, b, c>>)
  /\ \A a, b, c, d : IsSequence(<<a, b, c, d>>)
  /\ \A a, b, c, d, e : IsSequence(<<a, b, c, d, e>>)
<1>1. ASSUME NEW a PROVE IsSequence(<<a>>)
  <2>1. <<a>> \in Seq({a})
    OBVIOUS
  <2> QED BY <2>1 DEF IsSequence
<1>2. ASSUME NEW a, NEW b, NEW c PROVE IsSequence(<<a, b, c>>)
  <2>1. <<a, b, c>> \in Seq({a, b, c})
    OBVIOUS
  <2> QED BY <2>1 DEF IsSequence
<1>3. ASSUME NEW a, NEW b, NEW c, NEW d PROVE IsSequence(<<a, b, c, d>>)
  <2>1. <<a, b, c, d>> \in Seq({a, b, c, d})
    OBVIOUS
  <2> QED BY <2>1 DEF IsSequence
<1>4. ASSUME NEW a, NEW b, NEW c, NEW d, NEW e PROVE IsSequence(<<a, b, c, d, e>>)
  <2>1. <<a, b, c, d, e>> \in Seq({a, b, c, d, e})
    OBVIOUS
  <2> QED BY <2>1 DEF IsSequence
<1> QED BY <1>1, <1>2, <1>3, <1>4

LEMMA TwoBytes ==
  ASSUME NEW v
  PROVE  IsSequence(BigEndian(v, 2)) /\ Len(BigEndian(v, 2)) = 2
<1> DEFINE byte(i) == (v \div 256^(2 - i)) % 256
           both == {byte(1), byte(2)}
<1>1. \A i \in 1..2 : byte(i) \in both
  <2>1. 1..2 = {1, 2}
    OBVIOUS
  <2> QED BY <2>1
<1> HIDE DEF byte, both
<1>2. [i \in 1..2 |-> byte(i)] \in Seq(both)
  BY <1>1
<1>3. Len([i \in 1..2 |-> byte(i)]) = 2
  OBVIOUS
<1>4. BigEndian(v, 2) = [i \in 1..2 |-> byte(i)]
  BY DEF BigEndian, byte
<1> QED BY <1>2, <1>3, <1>4 DEF IsSequence

LEMMA NamedNumberIsSequence ==
  ASSUME NEW name, NEW n, IsSequence(name)
  PROVE  IsSequence(EncodeNamedNumber(name, n))
<1>1. IsSequence(<<0, 0, 0, 0, 0, 0, 0, 0>>)
  <2>1. <<0, 0, 0, 0, 0, 0, 0, 0>> \in Seq({0})
    OBVIOUS
  <2> QED BY <2>1 DEF IsSequence
<1>2. IsSequence(Double(n))
  BY <1>1, TwoBytes, Join, TupleIsSequence DEF Double
<1> QED BY <1>2, TwoBytes, Join, TupleIsSequence
        DEF EncodeNamedNumber, EncodeName, EncodeNumber

\* A name of one byte: its type, its length in two bytes, and itself.
LEMMA NameBytes ==
  /\ IsSequence(EncodeString(<<1>>))
  /\ Len(EncodeString(<<1>>)) = 4 /\ EncodeString(<<1>>)[2] = 0
<1> DEFINE b == BigEndian(1, 2)
<1>1. /\ b[1] = 0 /\ b[2] = 1 /\ b = [i \in 1..2 |-> b[i]]
  BY DEF BigEndian
<1>2. b = <<0, 1>>
  BY <1>1
<1>3. EncodeString(<<1>>) = <<2>> \o <<0, 1>> \o <<1>>
  BY <1>2 DEF EncodeString, StringType
<1>4. EncodeString(<<1>>) = <<2, 0, 1, 1>>
  BY <1>3
<1> QED BY <1>4, TupleIsSequence

\* Metadata and codec headers are taken for headers: the second byte of the name
\* of the metadata is that of its length.
LEMMA HeaderIsHeader ==
  ASSUME NEW kind \in Kinds
  PROVE  IsCodecHeader(Packet(kind, TRUE))
<1>1. CASE kind \in Streams
  BY <1>1 DEF IsCodecHeader, Packet, Data, Streams
<1>2. CASE kind = "meta"
  <2> DEFINE rest == <<EcmaArrayType, 0, 0, 0, 2>>
                       \o EncodeNamedNumber(<<2>>, 30)
                       \o EncodeNamedNumber(<<3>>, 1280) \o <<0, 0, ObjectEndType>>
  <2>1. IsSequence(rest)
    BY Join, TupleIsSequence, NamedNumberIsSequence
  <2>2. /\ IsSequence(EncodeString(<<1>>))
        /\ Len(EncodeString(<<1>>)) = 4 /\ EncodeString(<<1>>)[2] = 0
    BY NameBytes DEF EncodeString, StringType
  <2>3. Len(Metadata) > 1 /\ Metadata[2] = 0
    <3> HIDE DEF rest
    <3>1. Metadata = EncodeString(<<1>>) \o rest
      BY DEF Metadata, rest
    <3>2. /\ Len(EncodeString(<<1>>) \o rest) = Len(EncodeString(<<1>>)) + Len(rest)
          /\ \A i \in 1..Len(EncodeString(<<1>>)) :
               (EncodeString(<<1>>) \o rest)[i] = EncodeString(<<1>>)[i]
          /\ Len(rest) \in Nat
      BY <2>1, <2>2, Join
    <3> QED BY <2>2, <3>1, <3>2
  <2> QED BY <1>2, <2>3 DEF IsCodecHeader, Packet, Data
<1> QED BY <1>1, <1>2 DEF Kinds

\* Every step is a frame, a restart, or none of the times' business.
LEMMA StepKinds ==
  ASSUME TimesOK, [LiveNext]_liveVars
  PROVE  \/ \E s \in Streams, step \in 1..99 : Frame(s, step)
         \/ \E c \in Clocks : Restart(c)
         \/ UNCHANGED <<clock, at, restarts, uneven, original, corrected>>
<1>1. CASE \E kind \in Kinds : SendHeader(kind)
  <2> PICK kind \in Kinds : SendHeader(kind)
    BY <1>1
  <2>1. IsCodecHeader(Packet(kind, TRUE))
    BY HeaderIsHeader
  <2> QED BY <2>1 DEF SendHeader, OnRecv
<1>2. CASE \E step \in VideoSteps : SendFrame("video", step)
  BY <1>2, SendFrameIsFrame, LiveAssumption DEF Streams
<1>3. CASE \E step \in AudioSteps : SendFrame("audio", step)
  BY <1>3, SendFrameIsFrame, LiveAssumption DEF Streams
<1>4. CASE UNCHANGED liveVars
  BY <1>4 DEF liveVars
<1> QED BY <1>1, <1>2, <1>3, <1>4 DEF LiveNext

-----------------------------------------------------------------------------
(* The invariant                                                             *)

\* What a frame does to its stream: a first frame keeps its time if the other
\* stream has not begun or is at that time too, a frame in time keeps the offset,
\* and after a restart the offset moves by less than the limit up, and by less
\* than twice the limit down.
FrameEffect(s, step) ==
  LET to == Position(s, step)
  IN  /\ to \in Nat
      /\ corrected'[s] \in Nat
      /\ at[s] = -1 /\ (at[Other(s)] = -1 \/ original[Other(s)] = clock + to) =>
           corrected'[s] = clock + to
      /\ at[s] # -1 =>
           /\ corrected'[s] - corrected[s] < MaxDelta
           /\ -MaxDelta < corrected'[s] - corrected[s]
           /\ original[s] = clock + at[s] =>
                corrected'[s] - to = corrected[s] - at[s]
           /\ corrected'[s] - to < corrected[s] - at[s] + MaxDelta
           /\ corrected[s] - at[s] - 2 * MaxDelta < corrected'[s] - to

LEMMA FrameHasEffect ==
  ASSUME TimesOK, NEW s \in Streams, NEW step \in 1..99, Frame(s, step)
  PROVE  /\ FrameEffect(s, step)
         /\ at'[s] = Position(s, step) /\ original'[s] = clock + Position(s, step)
         /\ \A t \in Streams \ {s} : /\ at'[t] = at[t] /\ original'[t] = original[t]
                                     /\ corrected'[t] = corrected[t]
<1> DEFINE o == Other(s)
<1>1. /\ clock \in Nat /\ s \in Streams /\ o \in Streams
      /\ \A t \in Streams : /\ at[t] \in Nat \cup {-1}
                            /\ original[t] \in Nat \cup {-1}
                            /\ corrected[t] \in Nat
                            /\ original[t] = -1 <=> at[t] = -1
  BY DEF TimesOK, Times, Other, Streams
<1>2. /\ at \in [Streams -> Times] /\ original \in [Streams -> Times]
      /\ corrected \in [Streams -> Nat]
  BY DEF TimesOK
<1>3. PICK to \in Nat, time \in Nat : to = Position(s, step) /\ time = clock + to
  BY <1>1 DEF Position
<1>4. /\ Corrected(s, time) /\ at' = [at EXCEPT ![s] = to]
      /\ at[s] # -1 => to = at[s] + step
  BY <1>3 DEF Frame, Position
<1>5. PICK c \in Nat :
        /\ corrected' = [corrected EXCEPT ![s] = c]
        /\ original[s] # -1 => c = AtLeast0(corrected[s] + Step(s, time - original[s]))
        /\ original[s] = -1 /\ original[o] \in {-1, time} => c = time
  BY <1>4 DEF Corrected
<1>6. original' = [original EXCEPT ![s] = time]
  BY <1>4 DEF Corrected
<1>7. /\ corrected'[s] = c /\ at'[s] = to /\ original'[s] = time
      /\ \A t \in Streams \ {s} : /\ at'[t] = at[t] /\ original'[t] = original[t]
                                  /\ corrected'[t] = corrected[t]
  BY <1>2, <1>4, <1>5, <1>6
<1>8. ASSUME at[s] # -1
      PROVE  /\ c - corrected[s] < MaxDelta /\ -MaxDelta < c - corrected[s]
             /\ original[s] = clock + at[s] => c - to = corrected[s] - at[s]
             /\ c - to < corrected[s] - at[s] + MaxDelta
             /\ corrected[s] - at[s] - 2 * MaxDelta < c - to
  <2> DEFINE d == time - original[s]
             st == Step(s, d)
  <2>1. c = AtLeast0(corrected[s] + st)
    BY <1>1, <1>5, <1>8
  <2>2. d \in Int
    BY <1>1, <1>3
  <2>3. original[s] = clock + at[s] => d = step
    BY <1>1, <1>3, <1>4, <1>8
  <2> HIDE DEF d
  <2>4. /\ st \in Int /\ st < MaxDelta /\ -MaxDelta < st
        /\ d < MaxDelta /\ -MaxDelta < d => st = d
    BY <2>2, StepBounds
  <2>5. original[s] = clock + at[s] => st = step
    BY <2>3, <2>4 DEF MaxDelta
  <2> HIDE DEF st
  <2>6. at[s] \in Nat /\ corrected[s] \in Nat /\ to = at[s] + step
    BY <1>1, <1>4, <1>8
  <2> QED BY <2>1, <2>4, <2>5, <2>6 DEF AtLeast0, MaxDelta
<1>9. at[s] = -1 /\ (at[o] = -1 \/ original[o] = time) => c = time
  BY <1>1, <1>5
<1> QED BY <1>1, <1>3, <1>7, <1>8, <1>9 DEF FrameEffect

\* The times have their types, and the corrected ones are not negative.
LEMMA TimesStep ==
  ASSUME TimesOK, [LiveNext]_liveVars
  PROVE  TimesOK'
<1>1. ASSUME NEW s \in Streams, NEW step \in 1..99, Frame(s, step) PROVE TimesOK'
  <2> DEFINE to == Position(s, step)
  <2>1. FrameEffect(s, step)
    BY <1>1, FrameHasEffect
  <2>2. to \in Nat
    BY <2>1 DEF FrameEffect
  <2>3. /\ at' = [at EXCEPT ![s] = to]
        /\ original' = [original EXCEPT ![s] = clock + to]
        /\ UNCHANGED <<clock, restarts, uneven>>
    BY <1>1 DEF Frame, Corrected
  <2>4. PICK c \in Nat : corrected' = [corrected EXCEPT ![s] = c]
    BY <1>1 DEF Frame, Corrected
  <2> HIDE DEF to
  <2> QED BY <2>2, <2>3, <2>4 DEF TimesOK, Times
<1>2. ASSUME NEW c \in Clocks, Restart(c) PROVE TimesOK'
  <2>1. uneven' \in BOOLEAN
    BY <1>2, ZenonT(30) DEF Restart, TimesOK
  <2>2. clock' \in Nat /\ restarts' \in Nat
    BY <1>2, LiveAssumption DEF Restart, TimesOK
  <2>3. UNCHANGED <<at, original, corrected>>
    BY <1>2 DEF Restart
  <2> QED BY <2>1, <2>2, <2>3 DEF TimesOK
<1>3. CASE UNCHANGED <<clock, at, restarts, uneven, original, corrected>>
  BY <1>3 DEF TimesOK
<1> QED BY <1>1, <1>2, <1>3, StepKinds

\* The drift after a frame.
LEMMA FrameDrift ==
  ASSUME TimesOK, Drift, NEW f \in Streams, NEW step \in 1..99, Frame(f, step)
  PROVE  Drift'
<1> DEFINE o == Other(f)
           to == Position(f, step)
<1>1. /\ FrameEffect(f, step)
      /\ at'[f] = to /\ original'[f] = clock + to
      /\ at'[o] = at[o] /\ original'[o] = original[o] /\ corrected'[o] = corrected[o]
      /\ UNCHANGED <<clock, restarts, uneven>>
      /\ Streams = {f, o} /\ f # o
  BY FrameHasEffect DEF Frame, Other, Streams
<1>2. /\ clock \in Nat /\ restarts \in Nat /\ to \in Nat
      /\ at[f] \in Nat \cup {-1} /\ at[o] \in Nat \cup {-1}
      /\ original[f] \in Nat \cup {-1} /\ original[o] \in Nat \cup {-1}
      /\ corrected[f] \in Nat /\ corrected[o] \in Nat /\ corrected'[f] \in Nat
      /\ original[f] = -1 <=> at[f] = -1
      /\ original[o] = -1 <=> at[o] = -1
  BY <1>1 DEF TimesOK, Times, FrameEffect
<1> SUFFICES ASSUME ~uneven
             PROVE  /\ Ahead(f, f)'
                    /\ at[o] # -1 => Ahead(f, o)' /\ Ahead(o, f)' /\ Ahead(o, o)'
                    /\ at[o] = -1 => corrected'[f] = clock + to
  BY <1>1, <1>2 DEF Drift
<1>3. /\ at[f] # -1 => Ahead(f, f)
      /\ at[o] # -1 => Ahead(o, o)
      /\ at[f] # -1 /\ at[o] # -1 => Ahead(f, o) /\ Ahead(o, f)
      /\ at[f] # -1 /\ at[o] = -1 =>
           original[f] = clock + at[f] /\ corrected[f] = clock + at[f]
      /\ at[o] # -1 /\ at[f] = -1 =>
           original[o] = clock + at[o] /\ corrected[o] = clock + at[o]
  BY <1>1 DEF Drift
<1>4. /\ Met(f)' = restarts /\ Met(o)' = Met(o)
      /\ Offset(f)' = corrected'[f] - to /\ Offset(o)' = Offset(o)
  BY <1>1 DEF Met, Offset
<1>5. /\ Offset(f) = corrected[f] - at[f] /\ Offset(o) = corrected[o] - at[o]
      /\ Met(f) = IF original[f] = clock + at[f] THEN restarts ELSE restarts - 1
      /\ Met(o) = IF original[o] = clock + at[o] THEN restarts ELSE restarts - 1
  BY DEF Met, Offset
<1>6. /\ Offset(f)' \in Int /\ Offset(f) \in Int /\ Offset(o) \in Int
      /\ Met(f) \in Int /\ Met(o) \in Int
  BY <1>2, <1>4, <1>5
<1>7. /\ Ahead(f, f)' <=> Offset(f)' - Offset(f)' <= MaxDelta * (restarts + 2 * restarts)
      /\ Ahead(o, o)' <=> Ahead(o, o)
      /\ Ahead(f, o)' <=> Offset(f)' - Offset(o) <= MaxDelta * (restarts + 2 * Met(o))
      /\ Ahead(o, f)' <=> Offset(o) - Offset(f)' <= MaxDelta * (Met(o) + 2 * restarts)
  BY <1>4 DEF Ahead, MaxDelta
<1>8. Ahead(f, f)'
  BY <1>2, <1>6, <1>7 DEF MaxDelta
<1>9. CASE at[f] = -1
  <2>1. CASE at[o] = -1
    BY <1>1, <1>8, <1>9, <2>1 DEF FrameEffect
  <2>2. CASE at[o] # -1
    <3>1. to = at[o]
      BY <1>9, <2>2 DEF Position
    <3>2. corrected'[f] = clock + to
      BY <1>1, <1>3, <1>9, <2>2, <3>1 DEF FrameEffect
    <3>3. Offset(f)' = Offset(o) /\ Met(o) = restarts
      BY <1>2, <1>3, <1>4, <1>5, <1>9, <2>2, <3>1, <3>2
    <3> QED BY <1>2, <1>3, <1>6, <1>7, <1>8, <2>2, <3>3 DEF MaxDelta
  <2> QED BY <2>1, <2>2
<1>10. CASE at[f] # -1
  <2>1. CASE original[f] = clock + at[f]
    <3>1. Offset(f)' = Offset(f) /\ Met(f) = restarts
      BY <1>1, <1>4, <1>5, <1>10, <2>1 DEF FrameEffect
    <3>2. ASSUME at[o] # -1 PROVE Ahead(f, o)' /\ Ahead(o, f)' /\ Ahead(o, o)'
      BY <1>3, <1>7, <1>10, <3>1, <3>2 DEF Ahead
    <3>3. ASSUME at[o] = -1 PROVE corrected'[f] = clock + to
      BY <1>2, <1>3, <1>4, <1>5, <1>10, <3>1, <3>3
    <3> QED BY <1>8, <3>2, <3>3
  <2>2. CASE original[f] # clock + at[f]
    <3>1. /\ Met(f) = restarts - 1
          /\ Offset(f)' < Offset(f) + MaxDelta /\ Offset(f) - 2 * MaxDelta < Offset(f)'
      BY <1>1, <1>2, <1>4, <1>5, <1>10, <2>2 DEF FrameEffect, MaxDelta
    <3>2. at[o] # -1
      BY <1>3, <1>10, <2>2
    <3>3. /\ Offset(f) - Offset(o) <= MaxDelta * (Met(f) + 2 * Met(o))
          /\ Offset(o) - Offset(f) <= MaxDelta * (Met(o) + 2 * Met(f))
      BY <1>3, <1>10, <3>2 DEF Ahead
    <3>4. /\ Offset(f)' - Offset(o) <= MaxDelta * (restarts + 2 * Met(o))
          /\ Offset(o) - Offset(f)' <= MaxDelta * (Met(o) + 2 * restarts)
      BY <1>2, <1>6, <3>1, <3>3 DEF MaxDelta
    <3> QED BY <1>3, <1>7, <1>8, <3>2, <3>4
  <2> QED BY <2>1, <2>2
<1> QED BY <1>9, <1>10

\* The drift after a restart, which neither stream has met.
LEMMA RestartDrift ==
  ASSUME TimesOK, Drift, NEW c \in Clocks, Restart(c)
  PROVE  Drift'
<1>1. /\ restarts' = restarts + 1 /\ UNCHANGED <<at, original, corrected>>
      /\ ~uneven' => ~uneven /\ \A s, t \in Streams : at[s] = -1 => at[t] = -1
  BY DEF Restart
<1>2. /\ restarts \in Nat /\ at \in [Streams -> Times] /\ corrected \in [Streams -> Nat]
  BY DEF TimesOK
<1> SUFFICES ASSUME ~uneven', NEW s \in Streams, NEW t \in Streams, at[s] # -1
             PROVE  Ahead(s, t)' /\ at[t] # -1
  BY <1>1 DEF Drift
<1>3. at[t] # -1 /\ Ahead(s, t)
  BY <1>1 DEF Drift
<1>4. /\ Offset(s)' = Offset(s) /\ Offset(t)' = Offset(t)
      /\ Offset(s) \in Int /\ Offset(t) \in Int
  BY <1>1, <1>2 DEF Offset, Times
<1>5. /\ Met(s) \in Int /\ Met(t) \in Int /\ Met(s)' \in Int /\ Met(t)' \in Int
      /\ Met(s) <= Met(s)' /\ Met(t) <= Met(t)'
  BY <1>1, <1>2 DEF Met
<1>6. Offset(s)' - Offset(t)' <= MaxDelta * (Met(s)' + 2 * Met(t)')
  BY <1>3, <1>4, <1>5 DEF Ahead, MaxDelta
<1> QED BY <1>3, <1>6 DEF Ahead, MaxDelta

-----------------------------------------------------------------------------
(* The packets and the lists of headers                                      *)

\* What a list of headers keeps of the packets rc, whose headers are at hs.
Keeps(ps, hs, rc) ==
  /\ \A n \in DOMAIN ps : ps[n].index \in hs /\ ps[n] = rc[ps[n].index]
  /\ \A m, n \in DOMAIN ps : m < n => ps[m].index < ps[n].index
  /\ \A i \in hs : \E n \in DOMAIN ps : ps[n] = rc[i]

\* Another packet leaves the list in order.
LEMMA KeepsOn ==
  ASSUME NEW ps, NEW hs, NEW rc, NEW rd, Keeps(ps, hs, rc),
         \A i \in hs : rd[i] = rc[i]
  PROVE  Keeps(ps, hs, rd)
BY DEF Keeps

\* So does a header, with a higher number, that is put at the end of it.
LEMMA KeepsHeader ==
  ASSUME NEW ps \in Seq(Packets), NEW len \in Nat, NEW hs \in SUBSET (1..len),
         NEW rc, NEW rd, NEW p \in Packets, Keeps(ps, hs, rc),
         \A i \in 1..len : rd[i] = rc[i],
         rd[len + 1] = p, p.index = len + 1
  PROVE  Keeps(Append(ps, p), hs \cup {len + 1}, rd)
<1> DEFINE qs == Append(ps, p)
<1>1. /\ Len(ps) \in Nat /\ DOMAIN ps = 1..Len(ps)
      /\ DOMAIN qs = 1..(Len(ps) + 1)
      /\ \A n \in 1..Len(ps) : qs[n] = ps[n]
      /\ qs[Len(ps) + 1] = p
  OBVIOUS
<1> HIDE DEF qs
<1>2. /\ \A n \in 1..Len(ps) : ps[n].index \in hs /\ ps[n] = rc[ps[n].index]
      /\ \A m, n \in 1..Len(ps) : m < n => ps[m].index < ps[n].index
      /\ \A i \in hs : \E n \in 1..Len(ps) : ps[n] = rc[i]
  BY <1>1 DEF Keeps
<1>3. \A i \in hs : i \in Nat /\ i <= len /\ rd[i] = rc[i]
  OBVIOUS
<1>4. ASSUME NEW n \in DOMAIN qs
      PROVE  qs[n].index \in hs \cup {len + 1} /\ qs[n] = rd[qs[n].index]
  <2>1. CASE n = Len(ps) + 1
    BY <1>1, <2>1
  <2>2. CASE n \in 1..Len(ps)
    <3>1. qs[n] = ps[n]
      BY <1>1, <2>2
    <3>2. ps[n].index \in hs /\ ps[n] = rc[ps[n].index]
      BY <1>2, <2>2
    <3>3. rd[ps[n].index] = rc[ps[n].index]
      BY <1>3, <3>2
    <3> QED BY <3>1, <3>2, <3>3
  <2>3. n = Len(ps) + 1 \/ n \in 1..Len(ps)
    BY <1>1, <1>4
  <2> QED BY <2>1, <2>2, <2>3
<1>5. ASSUME NEW m \in DOMAIN qs, NEW n \in DOMAIN qs, m < n
      PROVE  qs[m].index < qs[n].index
  <2>1. m \in 1..Len(ps)
    BY <1>1, <1>5
  <2>2. CASE n = Len(ps) + 1
    <3>1. qs[m].index \in Nat /\ qs[m].index <= len
      BY <1>1, <1>2, <1>3, <2>1
    <3> QED BY <1>1, <2>2, <3>1
  <2>3. CASE n \in 1..Len(ps)
    BY <1>1, <1>2, <1>5, <2>1, <2>3
  <2> QED BY <1>1, <1>5, <2>2, <2>3
<1>6. ASSUME NEW i \in hs \cup {len + 1} PROVE \E n \in DOMAIN qs : qs[n] = rd[i]
  <2>1. CASE i = len + 1
    BY <1>1, <2>1
  <2>2. CASE i \in hs
    <3>1. PICK n \in 1..Len(ps) : ps[n] = rc[i]
      BY <1>2, <2>2
    <3> QED BY <1>1, <1>3, <2>2, <3>1
  <2> QED BY <1>6, <2>1, <2>2
<1> QED BY <1>4, <1>5, <1>6 DEF Keeps, qs

LEMMA FrameIsNoHeader ==
  ASSUME NEW s \in Streams
  PROVE  ~IsCodecHeader(Packet(s, FALSE))
BY DEF IsCodecHeader, Packet, Data, Streams

\* A packet is received; a header is put into the list of its kind as well.
Receive(p) ==
  /\ received' = Append(received, p)
  /\ saved' = IF IsCodecHeader(p) THEN [saved EXCEPT ![p.kind] = Append(@, p)]
                                  ELSE saved

LEMMA PacketKinds ==
  ASSUME PacketsOK, [LiveNext]_liveVars
  PROVE  \/ \E p \in Packets : p.index = Len(received) + 1 /\ Receive(p)
         \/ UNCHANGED <<received, saved>>
<1>0. \A kind \in Kinds, h \in BOOLEAN :
        /\ Packet(kind, h) \in Packets
        /\ Packet(kind, h).index = Len(received) + 1 /\ Packet(kind, h).kind = kind
  <2> SUFFICES ASSUME NEW kind \in Kinds, NEW h \in BOOLEAN
               PROVE  /\ Packet(kind, h) \in Packets
                      /\ Packet(kind, h).index = Len(received) + 1
                      /\ Packet(kind, h).kind = kind
    OBVIOUS
  <2>1. Len(received) + 1 \in Nat
    BY DEF PacketsOK
  <2>2. Data(kind, h) \in {Data(k, g) : k \in Kinds, g \in BOOLEAN}
    OBVIOUS
  <2> QED BY <2>1, <2>2 DEF Packet, Packets
<1>1. CASE \E kind \in Kinds : SendHeader(kind)
  <2> PICK kind \in Kinds : SendHeader(kind)
    BY <1>1
  <2>1. IsCodecHeader(Packet(kind, TRUE))
    BY HeaderIsHeader
  <2>2. OnRecv(Packet(kind, TRUE), 0)
    BY DEF SendHeader
  <2>3. Receive(Packet(kind, TRUE))
    BY <2>1, <2>2 DEF OnRecv, ParseCodecHeader, Receive
  <2> QED BY <1>0, <2>3
<1>2. ASSUME NEW s \in Streams, NEW step, SendFrame(s, step)
      PROVE  \E p \in Packets : p.index = Len(received) + 1 /\ Receive(p)
  <2>1. PICK time : OnRecv(Packet(s, FALSE), time)
    BY <1>2 DEF SendFrame
  <2>2. Receive(Packet(s, FALSE))
    BY <2>1, FrameIsNoHeader DEF OnRecv, Receive
  <2> QED BY <1>0, <2>2 DEF Kinds
<1>3. CASE \E c \in Clocks : Restart(c)
  BY <1>3 DEF Restart
<1>4. CASE UNCHANGED liveVars
  BY <1>4 DEF liveVars
<1> QED BY <1>1, <1>2, <1>3, <1>4 DEF LiveNext, Streams

LEMMA PacketsStep ==
  ASSUME PacketsOK, SavedOK, [LiveNext]_liveVars
  PROVE  PacketsOK' /\ SavedOK'
<1>1. ASSUME NEW p \in Packets, p.index = Len(received) + 1, Receive(p)
      PROVE  PacketsOK' /\ SavedOK'
  <2> DEFINE len == Len(received)
  <2>1. /\ received \in Seq(Packets) /\ saved \in [Kinds -> Seq(Packets)]
        /\ \A i \in 1..len : received[i].index = i
        /\ len \in Nat /\ p.kind \in Kinds
    BY DEF PacketsOK, Packets
  <2>2. /\ received' \in Seq(Packets) /\ Len(received') = len + 1
        /\ DOMAIN received' = 1..(len + 1)
        /\ \A i \in 1..len : received'[i] = received[i]
        /\ received'[len + 1] = p
    <3> HIDE DEF len
    <3>1. received' = Append(received, p)
      BY <1>1 DEF Receive
    <3> QED BY <2>1, <3>1 DEF len
  <2>3. PacketsOK'
    <3>1. saved' \in [Kinds -> Seq(Packets)]
      BY <1>1, <2>1 DEF Receive
    <3>2. \A i \in 1..(len + 1) : received'[i].index = i
      <4> SUFFICES ASSUME NEW i \in 1..(len + 1) PROVE received'[i].index = i
        OBVIOUS
      <4>1. CASE i = len + 1
        BY <1>1, <2>2, <4>1
      <4>2. CASE i \in 1..len
        BY <2>1, <2>2, <4>2
      <4> QED BY <2>1, <4>1, <4>2
    <3>3. received' \in Seq(Packets) /\ \A i \in DOMAIN received' : received'[i].index = i
      BY <2>2, <3>2
    <3> QED BY <3>1, <3>3 DEF PacketsOK
  <2>4. ASSUME NEW kind \in Kinds
        PROVE  Keeps(saved'[kind], Headers(kind, Len(received))', received')
    <3> DEFINE hs == Headers(kind, len)
    <3>1. hs \in SUBSET (1..len) /\ Keeps(saved[kind], hs, received)
      BY DEF Headers, SavedOK, Keeps
    <3>2. CASE IsCodecHeader(p) /\ p.kind = kind
      <4>1. Headers(kind, Len(received))' = hs \cup {len + 1}
        BY <2>1, <2>2, <3>2 DEF Headers, IsCodecHeader
      <4>2. saved'[kind] = Append(saved[kind], p)
        BY <1>1, <2>1, <3>2 DEF Receive
      <4> HIDE DEF hs, len
      <4>3. Keeps(Append(saved[kind], p), hs \cup {len + 1}, received')
        BY <1>1, <2>1, <2>2, <3>1, KeepsHeader DEF len
      <4> QED BY <4>1, <4>2, <4>3
    <3>3. CASE ~(IsCodecHeader(p) /\ p.kind = kind)
      <4>1. Headers(kind, Len(received))' = hs
        BY <2>1, <2>2, <3>3 DEF Headers, IsCodecHeader
      <4>2. saved'[kind] = saved[kind]
        BY <1>1, <2>1, <3>3 DEF Receive
      <4>3. \A i \in hs : received'[i] = received[i]
        BY <2>2, <3>1
      <4> QED BY <3>1, <4>1, <4>2, <4>3, KeepsOn
    <3> QED BY <3>2, <3>3
  <2>5. SavedOK'
    BY <2>4 DEF SavedOK, Keeps
  <2> QED BY <2>3, <2>5
<1>2. CASE UNCHANGED <<received, saved>>
  <2>1. PacketsOK'
    BY <1>2 DEF PacketsOK
  <2>2. SavedOK'
    BY <1>2 DEF SavedOK, Headers, IsCodecHeader
  <2> QED BY <2>1, <2>2
<1> QED BY <1>1, <1>2, PacketKinds

\* The search finds the header in force.
LEMMA Found ==
  ASSUME PacketsOK, SavedOK
  PROVE  HeaderInForce
<1> SUFFICES ASSUME NEW kind \in Kinds, NEW k \in 0..Len(received),
                    NEW i \in Headers(kind, IF Headers(kind, k) = {}
                                           THEN Len(received) ELSE k),
                    \A j \in Headers(kind, IF Headers(kind, k) = {}
                                           THEN Len(received) ELSE k) : j <= i
             PROVE  HeaderFor(saved[kind], k) = received[i]
  BY DEF HeaderInForce
<1> DEFINE ps == saved[kind]
           len == Len(received)
           all == Headers(kind, len)
           some == Headers(kind, k)
           older == {n \in DOMAIN ps : ps[n].index <= k}
<1>1. /\ len \in Nat /\ k \in 0..len /\ ps \in Seq(Packets)
      /\ Len(ps) \in Nat /\ DOMAIN ps = 1..Len(ps)
      /\ \A j \in 1..len : received[j].index = j
  BY DEF PacketsOK
<1>2. all \in SUBSET (1..len) /\ some = {j \in all : j <= k}
  BY <1>1 DEF Headers
<1>3. Keeps(ps, all, received)
  BY DEF SavedOK, Keeps
<1>4. i \in all
  BY <1>2
<1>5. PICK n \in 1..Len(ps) : ps[n] = received[i]
  BY <1>1, <1>3, <1>4 DEF Keeps
<1>6. ps[n].index = i
  BY <1>1, <1>2, <1>4, <1>5
<1>7. \A m \in 1..Len(ps) : ps[m].index \in all
  BY <1>1, <1>3 DEF Keeps
<1>8. \A m \in 1..Len(ps) : n < m => i < ps[m].index
  BY <1>1, <1>3, <1>5, <1>6 DEF Keeps
<1>9. i \in Nat /\ k \in Nat /\ \A j \in all : j \in Nat
  BY <1>1, <1>2, <1>4
<1> HIDE DEF ps, len, all
<1>10. CASE some # {}
  <2>1. i <= k /\ \A j \in all : j <= k => j <= i
    BY <1>2, <1>10 DEF len
  <2>2. n \in older
    BY <1>1, <1>5, <1>6, <2>1
  <2>3. \A m \in older : m <= n
    BY <1>1, <1>5, <1>7, <1>8, <1>9, <2>1
  <2>4. \A m \in older : (\A o \in older : o <= m) => m = n
    BY <1>1, <2>2, <2>3
  <2>5. LastOf(ps, older) = ps[n]
    <3> HIDE DEF older
    <3>1. (CHOOSE m \in older : \A o \in older : o <= m) = n
      BY <2>2, <2>3, <2>4
    <3> QED BY <3>1 DEF LastOf
  <2>6. k > 0
    BY <1>2, <1>9, <1>10, <1>1
  <2>7. HeaderFor(ps, k) = LastOf(ps, older)
    BY <1>9, <2>2, <2>6 DEF HeaderFor
  <2> QED BY <1>5, <2>5, <2>7 DEF ps
<1>11. CASE some = {}
  <2>1. \A j \in all : j <= i
    BY <1>11 DEF all, len
  <2>2. older = {}
    BY <1>1, <1>2, <1>7, <1>9, <1>11
  <2>3. n = Len(ps)
    <3>1. ASSUME n # Len(ps) PROVE FALSE
      <4>1. Len(ps) \in 1..Len(ps) /\ n < Len(ps)
        <5>1. \A z \in Nat : n \in 1..z /\ n # z => z \in 1..z /\ n < z
          OBVIOUS
        <5>2. Len(ps) \in Nat
          BY <1>1
        <5> QED BY <1>5, <3>1, <5>1, <5>2
      <4>2. i < ps[Len(ps)].index /\ ps[Len(ps)].index \in all
        BY <1>7, <1>8, <4>1
      <4> QED BY <1>9, <2>1, <4>2
    <3> QED BY <3>1
  <2>4. HeaderFor(ps, k) = Latest(ps)
    BY <2>2 DEF HeaderFor
  <2>5. ps # <<>>
    BY <1>1, <1>5
  <2>6. Latest(ps) = ps[Len(ps)]
    BY <2>5 DEF Latest
  <2> QED BY <1>5, <2>3, <2>4, <2>6 DEF ps
<1> QED BY <1>10, <1>11

-----------------------------------------------------------------------------
(* Theorems                                                                  *)

\* The times keep to the publisher's, and the streams to each other: the inductive
\* invariant (time_corrector.cpp:47, 97).
THEOREM LiveInvariantHolds == LiveSpec => []Inv
<1>1. LiveInit => Inv
  <2> SUFFICES ASSUME LiveInit PROVE Inv
    OBVIOUS
  <2>1. TimesOK
    BY LiveAssumption DEF LiveInit, TimesOK, Times, Streams
  <2>2. Drift
    BY DEF LiveInit, Drift
  <2>3. PacketsOK
    BY DEF LiveInit, PacketsOK
  <2>4. SavedOK
    BY DEF LiveInit, SavedOK, Headers
  <2> QED BY <2>1, <2>2, <2>3, <2>4 DEF Inv
<1>2. Inv /\ [LiveNext]_liveVars => Inv'
  <2> SUFFICES ASSUME TimesOK, Drift, PacketsOK, SavedOK, [LiveNext]_liveVars PROVE Inv'
    BY DEF Inv
  <2>1. TimesOK'
    BY TimesStep
  <2>2. ASSUME NEW s \in Streams, NEW step \in 1..99, Frame(s, step) PROVE Drift'
    BY <2>2, FrameDrift
  <2>3. ASSUME NEW c \in Clocks, Restart(c) PROVE Drift'
    BY <2>3, RestartDrift
  <2>4. ASSUME UNCHANGED <<clock, at, restarts, uneven, original, corrected>>
        PROVE  Drift'
    BY <2>4 DEF Drift, Ahead, Offset, Met
  <2>5. Drift'
    BY <2>2, <2>3, <2>4, StepKinds
  <2>6. PacketsOK' /\ SavedOK'
    BY PacketsStep
  <2> QED BY <2>1, <2>5, <2>6 DEF Inv
<1> QED BY <1>1, <1>2, PTL DEF LiveSpec

\* Audio and video are exactly in step until the publisher restarts, and a restart
\* moves them apart by less than three times the limit (time_corrector.cpp:62, 103).
THEOREM StreamsStayTogether == LiveSpec => []Together
<1>1. Inv => Together
  <2> SUFFICES ASSUME TimesOK, Drift, ~uneven, \A s \in Streams : at[s] # -1
               PROVE  Distance(Offset("video"), Offset("audio"))
                        <= 3 * MaxDelta * restarts
    BY DEF Inv, Together
  <2>1. Ahead("video", "audio") /\ Ahead("audio", "video")
    BY DEF Drift, Streams
  <2>2. /\ Offset("video") \in Int /\ Offset("audio") \in Int
        /\ restarts \in Nat
        /\ Met("video") \in Int /\ Met("audio") \in Int
        /\ Met("video") <= restarts /\ Met("audio") <= restarts
    BY DEF TimesOK, Times, Offset, Met, Streams
  <2> QED BY <2>1, <2>2 DEF Ahead, Distance, MaxDelta
<1> QED BY <1>1, LiveInvariantHolds, PTL

\* Every position has the last header up to there, however many come later
\* (codec_header.cpp:30).
THEOREM RightHeaderIsFound == LiveSpec => []HeaderInForce
<1>1. Inv => HeaderInForce
  BY Found DEF Inv
<1> QED BY <1>1, LiveInvariantHolds, PTL

\* The times a player sees go on in steps below the limit, whatever the
\* publisher's clock does (time_corrector.cpp:89, 115).
THEOREM StepsAreSmall == LiveSpec => SmallSteps
<1>1. ASSUME TimesOK, [LiveNext]_liveVars
      PROVE  [\A s \in Streams :
                /\ corrected'[s] >= 0
                /\ at[s] # -1 => Distance(corrected'[s], corrected[s]) < MaxDelta]_liveVars
  <2>1. \A s \in Streams : corrected[s] \in Nat /\ corrected'[s] \in Nat
    BY <1>1, TimesStep DEF TimesOK
  <2> SUFFICES ASSUME NEW s \in Streams, at[s] # -1
               PROVE  Distance(corrected'[s], corrected[s]) < MaxDelta
    BY <2>1
  <2>2. ASSUME NEW f \in Streams, NEW step \in 1..99, Frame(f, step)
        PROVE  Distance(corrected'[s], corrected[s]) < MaxDelta
    <3>1. CASE s = f
      <4>1. FrameEffect(s, step)
        BY <1>1, <2>2, <3>1, FrameHasEffect
      <4>2. corrected'[s] - corrected[s] < MaxDelta /\ -MaxDelta < corrected'[s] - corrected[s]
        BY <4>1 DEF FrameEffect
      <4> QED BY <2>1, <4>2 DEF Distance, MaxDelta
    <3>2. CASE s # f
      <4>1. corrected'[s] = corrected[s]
        BY <1>1, <2>2, <3>2, FrameHasEffect
      <4> QED BY <2>1, <4>1 DEF Distance, MaxDelta
    <3> QED BY <3>1, <3>2
  <2>3. CASE corrected' = corrected
    BY <2>1, <2>3 DEF Distance, MaxDelta
  <2> QED BY <1>1, <2>2, <2>3, StepKinds DEF Restart
<1> QED BY <1>1, LiveInvariantHolds, PTL DEF LiveSpec, SmallSteps, Inv
=============================================================================
