---------------------------- MODULE RtmpCommands ----------------------------
(***************************************************************************)
(* The messages of an RTMP session between this repository's client and    *)
(* server, and what each end answers to them (the Handle... and Send...    *)
(* operations of src/tmms/mmedia/rtmp/rtmp_context.cpp).                   *)
(*                                                                         *)
(* A message is its type, user control event or command, and its           *)
(* transaction id or the event's value, 0 where it has neither.  Names and *)
(* other parameters are those of the module RtmpAmf.  Pings are sent       *)
(* by no code of this repository; other peers send them.  A value has 32   *)
(* bits; here its halves are digits of base Half, 7 for 2^16.              *)
(*                                                                         *)
(* Operators named Bug... are deliberately wrong variants of the operator  *)
(* that follows them; no specification uses them.                          *)
(***************************************************************************)
EXTENDS Integers, Sequences

Ends == {"client", "server"}
Peer(e) == IF e = "client" THEN "server" ELSE "client"

\* User control events, numbered from 0 in the enumeration.
Events == <<"StreamBegin", "StreamEOF", "StreamDry", "SetBufferLength",
            "StreamsRecorded", "PingRequest", "PingResponse">>
Controls == {"SetChunkSize", "WindowACKSize", "SetPeerBandwidth"}
            \cup {Events[i] : i \in DOMAIN Events}
Commands == {"connect", "createStream", "play", "publish", "_result", "onStatus"}
Half == Len(Events)
Message == [type : Controls \cup Commands, id : 0..(Half * Half - 1)]
Msg(t) == [type |-> t, id |-> 0]
PingRequest(v) == [type |-> "PingRequest", id |-> v]

\* Longer than the 128 bytes of a chunk before its size is announced: names and
\* addresses make commands as long as they like, control messages have 4 to 10.
Long(m) == m.type \in Commands

\* SendUserCtrlMessage of an event with value v: the value is written over the
\* event, the rest of the packet is zero.  What arrives has the upper half of v
\* for its event and the lower half for the upper half of its value.
UserCtrl(v) == [type |-> Events[v \div Half + 1], id |-> (v % Half) * Half]

\* SendConnect
Connect == <<Msg("SetChunkSize"), [type |-> "connect", id |-> 1]>>

\* HandleConnect
ConnectReply == <<Msg("WindowACKSize"), Msg("SetPeerBandwidth"),
                  Msg("SetChunkSize"), [type |-> "_result", id |-> 1]>>

\* The result of createStream is expected under another transaction id.
BugResultReply(id, plays) ==
  CASE id = 1 -> <<[type |-> "createStream", id |-> 4]>>
    [] id = 2 -> IF plays THEN <<Msg("play")>>
                          ELSE <<[type |-> "publish", id |-> 5]>>
    [] OTHER  -> <<>>
\* HandleResult of the client, which plays or publishes; id alone decides.
ResultReply(id, plays) ==
  CASE id = 1 -> <<[type |-> "createStream", id |-> 4]>>
    [] id = 4 -> IF plays THEN <<Msg("play")>>
                          ELSE <<[type |-> "publish", id |-> 5]>>
    [] OTHER  -> <<>>

\* What end e sends when it has been given m: MessageComplete with
\* HandleUserMessage and HandleAmfCommand with the command's handler.  Both ends
\* know the same commands; onStatus is not among them.
Reply(e, m, plays) ==
  CASE m.type = "PingRequest" -> <<UserCtrl(m.id)>>
    [] m.type = "connect" -> ConnectReply
    [] m.type = "createStream" -> <<[type |-> "_result", id |-> m.id]>>
    [] m.type = "play" -> <<UserCtrl(1), Msg("onStatus")>>
    [] m.type = "publish" -> <<Msg("onStatus")>>
    [] m.type = "_result" -> ResultReply(m.id, plays)
    [] OTHER -> <<>>
=============================================================================
