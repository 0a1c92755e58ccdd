----------------------------- MODULE RtmpChunk ------------------------------
(***************************************************************************)
(* RTMP chunk streams (src/tmms/mmedia/rtmp/rtmp_context.cpp): the chunks  *)
(* that BuildChunk makes of messages, the TCP stream, and ParseMessage,    *)
(* which stops wherever a read ends and starts the chunk again after the   *)
(* next one.  One direction of a connection is modelled.                   *)
(*                                                                         *)
(* A unit of the stream stands for one or more bytes and carries a tag:    *)
(* the basic header, each field of the message header, the two halves of   *)
(* an extended timestamp, a byte of a body.  Lengths and chunk sizes count *)
(* body units.  32-bit numbers have two digits of base Digit, Cap stands   *)
(* for 0xFFFFFF.  Basic headers of two and three bytes are not told apart  *)
(* from those of one.                                                      *)
(*                                                                         *)
(* BuildChunk puts the chunks of a message one after the other; other      *)
(* implementations mix the chunks of messages on different chunk streams,  *)
(* and ParseMessage is made for that, so pending lets them mix.            *)
(*                                                                         *)
(* Operators named Bug... are deliberately wrong variants of the operator  *)
(* that follows them; no specification uses them.                          *)
(***************************************************************************)
EXTENDS Integers, Sequences

CONSTANTS Catalogue,  \* messages that may be sent: [cs, type, len, sid, ts]
          MaxSent,    \* bound on the number of messages
          InChunk,    \* in_chunk_size_ at first (128)
          OutChunk,   \* out_chunk_size_ (4096)
          Window,     \* ack_size_ at first (2500000)
          NewWindow,  \* the one that a message of type "window" sets
          Digit, Cap  \* see above

ASSUME CatalogueAssumption ==
  Catalogue \subseteq [cs : Nat, type : {"size", "window", "data"},
                       len : Nat \ {0}, sid : Nat, ts : 0..(Digit * Digit - 1)]
ASSUME SizesAssumption ==
  /\ MaxSent \in Nat /\ Window \in Nat \ {0} /\ NewWindow \in Nat \ {0}
  /\ InChunk \in Nat \ {0} /\ OutChunk \in Nat \ {0} /\ InChunk <= OutChunk
  /\ Digit \in Nat /\ Cap \in 1..(Digit * Digit - 1)

ChunkStreams == {m.cs : m \in Catalogue}
Headers == [len : Nat, type : {"none", "size", "window", "data"}, sid : Nat,
            ts : 0..(Digit * Digit - 1)]
Blank == [len |-> 0, type |-> "none", sid |-> 0, ts |-> 0]

VARIABLES
  \* the sender
  outPrev,   \* out_message_headers_; Blank: no entry
  outDelta,  \* out_deltas_
  sent,      \* history: the messages built
  pending,   \* pending[c]: chunks on chunk stream c that are still to be written
  net,       \* the stream: units that are written and have not been read
  \* the receiver
  buf,       \* message_buffer_
  parsing,   \* ParseMessage is in its loop
  inPrev,    \* in_message_headers_
  packet,    \* in_packets_
  inDelta,   \* in_deltas_
  inExt,     \* in_ext_
  inChunk,   \* in_chunk_size_
  ackSize, inBytes, lastLeft,  \* ack_size_, in_bytes_, last_left_
  acked,     \* history: the sum of the acknowledgements
  arrived,   \* history: the number of units read
  delivered, \* history: the messages given to MessageComplete
  lost       \* history: ParseMessage has taken one thing for another

senderVars == <<outPrev, outDelta, sent, pending>>
ackVars == <<ackSize, inBytes, lastLeft, acked, arrived>>
chunkVars == <<inPrev, packet, inDelta, inExt, inChunk, delivered>>
vars == <<senderVars, net, buf, parsing, chunkVars, ackVars, lost>>

NoPacket == [cap |-> -1, body |-> <<>>, head |-> Blank]
BodyBytes == (1..MaxSent) \X (Nat \ {0})
Packets == [cap : Nat \cup {-1}, body : Seq(BodyBytes), head : Headers]

\* The types of the parser's state; a packet never holds more than its message,
\* and only as much is left unread as does not make a chunk.
TypeOK ==
  /\ outPrev \in [ChunkStreams -> Headers] /\ inPrev \in [ChunkStreams -> Headers]
  /\ outDelta \in [ChunkStreams -> 0..(Digit * Digit - 1)]
  /\ inDelta \in [ChunkStreams -> 0..(Digit * Digit - 1)]
  /\ inExt \in [ChunkStreams -> BOOLEAN] /\ inChunk \in {InChunk, OutChunk}
  /\ sent \in Seq(Catalogue) /\ Len(sent) <= MaxSent
  /\ packet \in [ChunkStreams -> Packets]
  /\ \A c \in ChunkStreams :
       packet[c] # NoPacket => Len(packet[c].body) < packet[c].cap
  /\ parsing \in BOOLEAN /\ lost \in BOOLEAN
  /\ ackSize \in {Window, NewWindow} /\ lastLeft \in 0..arrived
  /\ inBytes \in Nat /\ acked \in Nat /\ arrived \in Nat

Init ==
  /\ outPrev = [c \in ChunkStreams |-> Blank] /\ inPrev = outPrev
  /\ outDelta = [c \in ChunkStreams |-> 0] /\ inDelta = outDelta
  /\ inExt = [c \in ChunkStreams |-> FALSE] /\ inChunk = InChunk
  /\ sent = <<>> /\ delivered = <<>> /\ net = <<>> /\ buf = <<>>
  /\ pending = [c \in ChunkStreams |-> <<>>]
  /\ packet = [c \in ChunkStreams |-> NoPacket]
  /\ parsing = FALSE /\ lost = FALSE
  /\ ackSize = Window /\ inBytes = 0 /\ lastLeft = 0 /\ acked = 0 /\ arrived = 0

-----------------------------------------------------------------------------
(* Numbers and units                                                       *)

Plus(a, b) == (a + b) % (Digit * Digit)
Smaller(a, b) == IF a < b THEN a ELSE b

\* The 24-bit field of a timestamp.
Field24(t) == Smaller(t, Cap)

\* The extended timestamp as the sender stores it, the lowest byte first, and as
\* ReadUint32T reads it, the highest byte first.
ExtUnits(t) == IF t < Cap THEN <<>>
               ELSE << <<"ext", t % Digit>>, <<"ext", t \div Digit>> >>
ReadExt(first, second) == Digit * first + second

-----------------------------------------------------------------------------
(* The sender                                                              *)

\* BuildChunk: the format of a message's first chunk.
Format(m) ==
  LET prev == outPrev[m.cs]
  IN  IF prev = Blank \/ m.ts < prev.ts \/ m.sid # prev.sid THEN 0
      ELSE IF m.len # prev.len \/ m.type # prev.type THEN 1
      ELSE IF m.ts - prev.ts # outDelta[m.cs] THEN 2 ELSE 3

\* The message header of format f with time t.
HeaderUnits(f, m, t) ==
  SubSeq(<< <<"ts", Field24(t)>>, <<"lentype", [len |-> m.len, type |-> m.type]>>,
            <<"sid", m.sid>> >>, 1, 3 - f)

\* The chunks of message number i, which is m, with first format f and time t.
Chunks(i, m, f, t) ==
  [k \in 1..((m.len + OutChunk - 1) \div OutChunk) |->
     LET from == (k - 1) * OutChunk
         n == Smaller(OutChunk, m.len - from)
         g == IF k = 1 THEN f ELSE 3
     IN  << <<"basic", [fmt |-> g, cs |-> m.cs]>> >> \o HeaderUnits(g, m, t)
         \o ExtUnits(t) \o [j \in 1..n |-> <<"body", <<i, from + j>> >>]]

\* The announcement of the chunk size has been written.
Announced == \E i \in DOMAIN sent : sent[i].type = "size" /\ pending[sent[i].cs] = <<>>

\* out_deltas_ is not reset by a full header.
BugBuild(m) ==
  /\ Len(sent) < MaxSent
  /\ m.len <= InChunk \/ Announced
  /\ LET f == Format(m)
         t == IF f = 0 THEN m.ts ELSE m.ts - outPrev[m.cs].ts
     IN  /\ pending' = [pending EXCEPT ![m.cs] = @ \o Chunks(Len(sent) + 1, m, f, t)]
         /\ outDelta' = [outDelta EXCEPT ![m.cs] = IF f = 0 THEN @ ELSE t]
         /\ outPrev' = [outPrev EXCEPT ![m.cs] = [len |-> m.len, type |-> m.type,
                                                  sid |-> m.sid, ts |-> m.ts]]
  /\ sent' = Append(sent, m)
  /\ UNCHANGED <<net, buf, parsing, chunkVars, ackVars, lost>>
\* BuildChunk.  Chunks longer than the receiver's first chunk size are built
\* after the announcement (ChunkSizeFirst in RtmpAmf: the sessions keep to it).
Build(m) ==
  /\ Len(sent) < MaxSent
  /\ m.len <= InChunk \/ Announced
  /\ LET f == Format(m)
         t == IF f = 0 THEN m.ts ELSE m.ts - outPrev[m.cs].ts
     IN  /\ pending' = [pending EXCEPT ![m.cs] = @ \o Chunks(Len(sent) + 1, m, f, t)]
         /\ outDelta' = [outDelta EXCEPT ![m.cs] = IF f = 0 THEN 0 ELSE t]
         /\ outPrev' = [outPrev EXCEPT ![m.cs] = [len |-> m.len, type |-> m.type,
                                                  sid |-> m.sid, ts |-> m.ts]]
  /\ sent' = Append(sent, m)
  /\ UNCHANGED <<net, buf, parsing, chunkVars, ackVars, lost>>

\* A chunk is written to the stream.
Put(c) ==
  /\ pending[c] # <<>>
  /\ net' = net \o Head(pending[c])
  /\ pending' = [pending EXCEPT ![c] = Tail(@)]
  /\ UNCHANGED <<outPrev, outDelta, sent, buf, parsing, chunkVars, ackVars, lost>>

-----------------------------------------------------------------------------
(* The receiver                                                            *)

\* A read, and the beginning of ParseMessage: the bytes that are new since the
\* last call are counted, and acknowledged when a window is full.
Arrive ==
  /\ ~parsing /\ ~lost
  /\ \E k \in 1..Len(net) :
       LET count == inBytes + Len(buf) + k - lastLeft
       IN  /\ buf' = buf \o SubSeq(net, 1, k)
           /\ net' = SubSeq(net, k + 1, Len(net))
           /\ arrived' = arrived + k
           /\ IF count >= ackSize
              THEN acked' = acked + count /\ inBytes' = 0
              ELSE inBytes' = count /\ UNCHANGED acked
  /\ parsing' = TRUE
  /\ UNCHANGED <<senderVars, chunkVars, ackSize, lastLeft, lost>>

fmt == buf[1][2].fmt
csid == buf[1][2].cs
Field(k) == buf[1 + k][2]
HeadLen == 3 - fmt

\* The loop goes on, and the message header is complete.
HeaderThere == Len(buf) > 1 /\ Len(buf) - 1 >= HeadLen

\* in_packets_ has a packet for the chunk stream.
Started == packet[csid] # NoPacket

\* The capacity of a new packet.
MsgLen == IF fmt \in {0, 1} THEN Field(2).len
          ELSE IF inPrev[csid].len = 0 THEN inChunk ELSE inPrev[csid].len
Capacity == IF Started THEN packet[csid].cap ELSE MsgLen

\* An extended timestamp follows; it has arrived.
ext == IF fmt = 3 THEN inExt[csid] ELSE Field(1) = Cap
BodyAt == 1 + HeadLen + (IF ext THEN 2 ELSE 0)
ExtValue == ReadExt(buf[BodyAt - 1][2], buf[BodyAt][2])
ExtUsed == ext /\ Len(buf) >= BodyAt /\ fmt # 0

\* The header's timestamp is computed anew for every chunk.
BugTimestamp ==
  IF ExtUsed THEN Plus(ExtValue, inPrev[csid].ts)
  ELSE CASE fmt = 0 -> Field(1)
         [] fmt \in {1, 2} -> Plus(Field(1), inPrev[csid].ts)
         [] fmt = 3 -> Plus(inDelta[csid], inPrev[csid].ts)
\* header->timestamp after the chunk's header.  The extended value is used for
\* the formats with a delta only.
Timestamp ==
  IF ExtUsed THEN Plus(ExtValue, inPrev[csid].ts)
  ELSE CASE fmt = 0 -> Field(1)
         [] fmt \in {1, 2} -> Plus(Field(1), inPrev[csid].ts)
         [] fmt = 3 -> IF packet[csid].head.ts = 0
                       THEN Plus(inDelta[csid], inPrev[csid].ts)
                       ELSE packet[csid].head.ts

\* header after the chunk's header.
Header ==
  [len  |-> IF fmt \in {0, 1} THEN Field(2).len ELSE inPrev[csid].len,
   type |-> IF fmt \in {0, 1} THEN Field(2).type ELSE inPrev[csid].type,
   sid  |-> IF fmt = 0 THEN Field(3) ELSE inPrev[csid].sid,
   ts   |-> Timestamp]

\* in_deltas_ after the chunk's header.
Delta == IF ExtUsed THEN ExtValue
         ELSE CASE fmt = 0 -> 0
                [] fmt \in {1, 2} -> Field(1)
                [] fmt = 3 -> inDelta[csid]

\* packet->Space()
Space == Capacity - Len(packet[csid].body)
ChunkLen == Smaller(Space, inChunk)

\* What is at the front of the buffer is not what ParseMessage takes it for.
Misread ==
  \/ buf[1][1] # "basic"
  \/ HeaderThere /\ \E i \in (2 + HeadLen)..Smaller(BodyAt + ChunkLen, Len(buf)) :
                    buf[i][1] # (IF i <= BodyAt THEN "ext" ELSE "body")

\* ParseMessage returns and Parse notes what is left.
Return == parsing' = FALSE /\ lastLeft' = Len(buf)

\* The bytes that are left are not noted.
BugParseStop ==
  /\ parsing /\ ~lost /\ buf # <<>> => ~Misread
  /\ ~HeaderThere
  /\ parsing' = FALSE
  /\ UNCHANGED <<senderVars, net, buf, chunkVars, ackVars, lost>>
\* Nothing is done for want of a header.
ParseStop ==
  /\ parsing /\ ~lost
  /\ buf # <<>> => ~Misread
  /\ ~HeaderThere
  /\ Return
  /\ UNCHANGED <<senderVars, net, buf, chunkVars, ackSize, inBytes, acked,
                 arrived, lost>>

\* The packet stays in in_packets_.
BugComplete(body) ==
  /\ delivered' = Append(delivered, [cs |-> csid, type |-> Header.type,
                                     sid |-> Header.sid, ts |-> Header.ts,
                                     body |-> body])
  /\ packet' = [packet EXCEPT ![csid] =
                  [cap |-> Capacity, body |-> body, head |-> Header]]
  /\ inChunk' = IF Header.type = "size" THEN OutChunk ELSE inChunk
  /\ ackSize' = IF Header.type = "window" THEN NewWindow ELSE ackSize
\* MessageComplete for the messages that concern the stream itself.
Complete(body) ==
  /\ delivered' = Append(delivered, [cs |-> csid, type |-> Header.type,
                                     sid |-> Header.sid, ts |-> Header.ts,
                                     body |-> body])
  /\ packet' = [packet EXCEPT ![csid] = NoPacket]
  /\ inChunk' = IF Header.type = "size" THEN OutChunk ELSE inChunk
  /\ ackSize' = IF Header.type = "window" THEN NewWindow ELSE ackSize

\* What the header changes, whether or not the body has arrived.
ReadHeader ==
  /\ parsing /\ ~lost /\ buf # <<>> /\ ~Misread /\ HeaderThere
  /\ inDelta' = [inDelta EXCEPT ![csid] = Delta]
  /\ inExt' = [inExt EXCEPT ![csid] = ext]

\* The chunk is not complete: its header is kept in the packet, the bytes stay.
ParsePart ==
  /\ ReadHeader
  /\ Len(buf) < BodyAt + ChunkLen
  /\ packet' = [packet EXCEPT ![csid] =
                  [cap |-> Capacity, body |-> @.body, head |-> Header]]
  /\ Return
  /\ UNCHANGED <<senderVars, net, buf, inPrev, inChunk, delivered, ackSize,
                 inBytes, acked, arrived, lost>>

\* A chunk is taken off the buffer; with the last one the message is complete.
ParseChunk ==
  /\ ReadHeader
  /\ Len(buf) >= BodyAt + ChunkLen
  /\ LET body == packet[csid].body \o
                 [j \in 1..ChunkLen |-> buf[BodyAt + j][2]]
     IN  IF Len(body) = Capacity
         THEN Complete(body)
         ELSE /\ packet' = [packet EXCEPT ![csid] =
                              [cap |-> Capacity, body |-> body, head |-> Header]]
              /\ UNCHANGED <<delivered, inChunk, ackSize>>
  /\ inPrev' = [inPrev EXCEPT ![csid] = Header]
  /\ buf' = SubSeq(buf, BodyAt + ChunkLen + 1, Len(buf))
  /\ UNCHANGED <<senderVars, net, parsing, inBytes, lastLeft, acked, arrived, lost>>

\* From here on the stream has no meaning.
LoseTrack ==
  /\ parsing /\ ~lost /\ buf # <<>> /\ Misread
  /\ lost' = TRUE
  /\ UNCHANGED <<senderVars, net, buf, parsing, chunkVars, ackVars>>

Receiver == Arrive \/ ParseStop \/ ParsePart \/ ParseChunk \/ LoseTrack
Next == \/ \E m \in Catalogue : Build(m)
        \/ \E c \in ChunkStreams : Put(c)
        \/ Receiver

Spec == Init /\ [][Next]_vars

-----------------------------------------------------------------------------
(* Properties                                                              *)

\* A message of one chunk stream that is sent right after another one with the
\* same header and the same extended timestamp: it has format 3 and no extended
\* timestamp, but ParseMessage expects one.
Repeats ==
  \E i, j \in DOMAIN sent :
    /\ i < j /\ sent[i] = sent[j] /\ sent[i].ts >= Cap
    /\ \A k \in (i + 1)..(j - 1) : sent[k].cs # sent[i].cs

ExtendedTime == \E i \in DOMAIN sent : sent[i].ts >= Cap

\* The number of the message that d, which has been delivered, was sent as.
Number(d) == d.body[1][1]
Body(i) == [k \in 1..sent[i].len |-> <<i, k>>]
SameButTime(d, i) ==
  d.type = sent[i].type /\ d.sid = sent[i].sid /\ d.body = Body(i)

\* Wherever reads end and however chunk streams are mixed, ParseMessage gives the
\* messages of each chunk stream to MessageComplete once, in order, with the type,
\* the stream id and the body they were built with; and with their timestamps,
\* unless one needs the extended form, although only differences travel, repeated
\* chunks carry none and a chunk may be parsed several times.
Intact ==
  ~Repeats =>
    /\ ~lost
    /\ \A k \in DOMAIN delivered : LET d == delivered[k]  i == Number(d) IN
         /\ i \in DOMAIN sent /\ d.cs = sent[i].cs /\ SameButTime(d, i)
         /\ ~ExtendedTime => d.ts = sent[i].ts
         /\ \A h \in 1..(i - 1) : sent[h].cs = d.cs =>
              \E e \in 1..(k - 1) : Number(delivered[e]) = h
         /\ \A e \in 1..(k - 1) : Number(delivered[e]) # i

AtRest == /\ net = <<>> /\ ~parsing
          /\ \A c \in ChunkStreams : pending[c] = <<>>

\* When everything written has been read and parsed, every message has been
\* delivered and nothing is left in the buffer, since the loop's conditions leave no
\* complete chunk behind; and both ends have the same idea of the previous message
\* and the last difference of each chunk stream, on which the next header builds.
NothingLeft ==
  AtRest =>
    /\ ~Repeats => /\ buf = <<>>
                   /\ \A i \in DOMAIN sent :
                        \E k \in DOMAIN delivered : Number(delivered[k]) = i
    /\ ~ExtendedTime => inPrev = outPrev /\ inDelta = outDelta

\* Every byte is counted once for the acknowledgements, however often the parse
\* stops and starts again with bytes it has seen before.
CountedOnce == acked + inBytes = arrived
=============================================================================
