---------------------------- MODULE TextContext -----------------------------
(***************************************************************************)
(* TextContext (src/tmms/network/base/text_context.cpp), the framing of    *)
(* the text protocol: four bytes of length, then that many bytes.  A       *)
(* TextContext is the message callback of a connection (as in              *)
(* tests/network/test_tcpserver.cpp), so the model is the read loop of     *)
(* TcpConnection over a MsgBuffer, with ParseMessage called after each     *)
(* read.  One action is one round of ParseMessage's loop.                  *)
(*                                                                         *)
(* External: the client, which writes its messages one after the other,    *)
(* and TCP, which may cut the stream anywhere.                             *)
(*                                                                         *)
(* Operators named Bug... are deliberately wrong variants of the operator  *)
(* that follows them; no specification uses them.                          *)
(***************************************************************************)
EXTENDS MsgBuffer, SequencesExt

CONSTANT Messages  \* the bodies the client sends, in order

ASSUME MessagesAssumption ==
  Messages \in Seq(Seq(0..255)) /\ \A m \in ToSet(Messages) : Len(m) < 256

HeaderLength == 4

\* The bytes of a message on the wire, of those after the k-th, and of all.
Frame(m) == <<0, 0, 0, Len(m)>> \o m
Due[k \in 0..Len(Messages)] ==
  IF k = Len(Messages) THEN <<>> ELSE Frame(Messages[k + 1]) \o Due[k + 1]
Stream == Due[0]

VARIABLES
  arrived,         \* number of bytes of Stream that have arrived
  unread,          \* those of them that the kernel holds
  buf,             \* message_buffer_ of the connection
  state,           \* state_
  message_length,  \* message_length_
  delivered,       \* history: what cb_ was called with
  pc               \* the loop thread: "loop", or "parse" in ParseMessage

vars == <<arrived, unread, buf, state, message_length, delivered, pc>>

TypeOK ==
  /\ arrived \in 0..Len(Stream) /\ unread \in Seq(0..255)
  /\ buf \in Buffers
  /\ state \in {"header", "body"} /\ message_length \in Nat
  /\ delivered \in Seq(Seq(0..255))
  /\ pc \in {"loop", "parse"}

Init ==
  /\ arrived = 0 /\ unread = <<>> /\ buf = New(InitCap)
  /\ state = "header" /\ message_length = 0 /\ delivered = <<>>
  /\ pc = "loop"

-----------------------------------------------------------------------------
(* The client and the network.                                             *)

Arrive(n) ==
  /\ arrived + n <= Len(Stream)
  /\ arrived' = arrived + n
  /\ unread' = unread \o SubSeq(Stream, arrived + 1, arrived + n)
  /\ UNCHANGED <<buf, state, message_length, delivered, pc>>

-----------------------------------------------------------------------------
(* The loop thread.                                                        *)

\* OnRead: ReadFd returns data, and message_cb_ calls ParseMessage.
OnRead ==
  LET n == Smaller(Len(unread), FdCapacity(buf))
  IN  /\ pc = "loop" /\ unread # <<>>
      /\ buf' = ReadFd(buf, SubSeq(unread, 1, n))
      /\ unread' = SubSeq(unread, n + 1, Len(unread))
      /\ pc' = "parse"
      /\ UNCHANGED <<arrived, state, message_length, delivered>>

ParseHeader ==
  /\ pc = "parse" /\ state = "header" /\ Readable(buf) >= HeaderLength
  /\ message_length' = PeekInt(buf, HeaderLength)
  /\ buf' = Retrieve(buf, HeaderLength)
  /\ state' = "body"
  /\ UNCHANGED <<arrived, unread, delivered, pc>>

\* Part of a header: return 1; the bytes stay for the next call.
ParseShort ==
  /\ pc = "parse" /\ state = "header" /\ Readable(buf) \in 1..(HeaderLength - 1)
  /\ pc' = "loop"
  /\ UNCHANGED <<arrived, unread, buf, state, message_length, delivered>>

\* A body that fills the buffer exactly is not seen.
BugBodyHere == Readable(buf) > message_length
BodyHere == Readable(buf) >= message_length

\* All of the body is there: cb_ gets it and message_body_ is cleared.
ParseBody ==
  /\ pc = "parse" /\ state = "body"
  /\ Readable(buf) > 0 /\ BodyHere
  /\ delivered' = delivered \o <<SubSeq(Contents(buf), 1, message_length)>>
  /\ buf' = Retrieve(buf, message_length)
  /\ message_length' = 0
  /\ state' = "header"
  /\ UNCHANGED <<arrived, unread, pc>>

\* Part of a body: the loop goes round without returning, and as nobody else
\* fills buf it does so for ever.
ParseSpin ==
  /\ pc = "parse" /\ state = "body" /\ Readable(buf) > 0 /\ ~BodyHere
  /\ UNCHANGED vars

\* Nothing is left: return 0, in whatever state.
ParseEnd ==
  /\ pc = "parse" /\ Readable(buf) = 0
  /\ pc' = "loop"
  /\ UNCHANGED <<arrived, unread, buf, state, message_length, delivered>>

ParseMessage == ParseHeader \/ ParseShort \/ ParseBody \/ ParseSpin \/ ParseEnd

\* Everything is sent and read: the server waits for more.
Quiet == pc = "loop" /\ unread = <<>> /\ arrived = Len(Stream)

Next == \/ \E n \in 1..Len(Stream) : Arrive(n)
        \/ OnRead
        \/ ParseMessage
        \/ Quiet /\ UNCHANGED vars

Spec == Init /\ [][Next]_vars

\* The loop thread runs while it has something to do, and the network delivers.
FairSpec == /\ Spec
            /\ WF_vars(OnRead) /\ WF_vars(ParseMessage)
            /\ WF_vars(\E n \in 1..Len(Stream) : Arrive(n))

-----------------------------------------------------------------------------
(* Properties.                                                             *)

\* At every buffer the reading of a stream leads to, whatever was read, parsed,
\* moved and grown before, the operations of MsgBuffer are those of a queue of
\* bytes (msgbuffer.cpp).  The state has its type.
BufferIsAQueue ==
  /\ TypeOK
  /\ \A data \in {<<1>>, <<1, 2, 3, 4>>, [i \in 1..(2 * Offset + 1) |-> i]} :
       IsQueue(buf, data)

\* The bytes the parser has not taken yet: in the buffer, in the kernel and
\* still to come.
Untaken == Contents(buf) \o unread \o SubSeq(Stream, arrived + 1, Len(Stream))

\* They are exactly the frames of the messages not delivered yet, without the
\* header that was taken when state_ is body: however the stream was cut, no byte
\* is lost, doubled or taken for part of another message, and the messages come
\* out as they were sent (text_context.cpp:13).
FramesIntact ==
  LET k == Len(delivered)
  IN  /\ IsPrefix(delivered, Messages)
      /\ state = "header" => Untaken = Due[k]
      /\ state = "body" =>
           /\ k < Len(Messages) /\ message_length = Len(Messages[k + 1])
           /\ Untaken = SubSeq(Due[k], HeaderLength + 1, Len(Due[k]))

\* The loop that has only a part of a body: it does not end
\* (text_context.cpp:33).
CutBody == state = "body" /\ Readable(buf) \in 1..(message_length - 1)

\* An empty message whose header is the last that has arrived: ParseMessage
\* returns before it looks at the body.
HeldBack == state = "body" /\ message_length = 0 /\ Readable(buf) = 0

\* Every message that is sent is delivered, and the only two things that keep
\* it back are a body that arrives in pieces, which holds the whole loop thread
\* in ParseMessage, and an empty message at the end of what has arrived.
AllDelivered == <>[](delivered = Messages \/ CutBody \/ HeldBack)
=============================================================================
