--------------------------- MODULE RtmpHandShake ----------------------------
(***************************************************************************)
(* The RTMP handshake of a client and a server                             *)
(* (src/tmms/mmedia/rtmp/rtmp_hand_shake.cpp), driven by RtmpContext::Parse *)
(* and OnWriteComplete, over a TCP stream that is cut into reads anywhere  *)
(* and whose writes may be completed later.                                *)
(*                                                                         *)
(* A byte is <<message, position>>; the handshake's packets have P bytes   *)
(* instead of 1536.  What follows the handshake is the client's connect,   *)
(* one byte here; Parse hands all bytes after the handshake to             *)
(* ParseMessage (stream).  Digests are modelled by what their check finds  *)
(* out: a whole packet of the peer passes.                                 *)
(*                                                                         *)
(* Both ends are this repository's: the server sends S2 as its answer to   *)
(* C2, never together with S0 and S1.                                      *)
(*                                                                         *)
(* Operators named Bug... are deliberately wrong variants of the operator  *)
(* that follows them; no specification uses them.                          *)
(***************************************************************************)
EXTENDS Integers, Sequences

CONSTANT P  \* kRtmpHandShakePacketSize

ASSUME PAssumption == P \in Nat /\ P >= 2

Ends == {"client", "server"}
Peer(e) == IF e = "client" THEN "server" ELSE "client"
Messages == {"C0C1", "S0S1", "C2", "S2", "connect"}
Size(m) == CASE m \in {"C0C1", "S0S1"} -> P + 1
             [] m \in {"C2", "S2"} -> P
             [] m = "connect" -> 1
Whole(m) == [i \in 1..Size(m) |-> <<m, i>>]
Bytes == Messages \X (1..(P + 1))

VARIABLES
  hs,      \* RtmpHandShake::state_
  ctx,     \* RtmpContext::state_: "handshake" or "message"
  buf,     \* message_buffer_
  call,    \* the ends that have read and are about to call Parse
  net,     \* net[e]: bytes on their way to e
  out,     \* out[e]: bytes e's connection has queued
  taken,   \* history: the packets HandShake has retrieved, [as, bytes]
  stream,  \* history: the bytes given to ParseMessage
  closed   \* an end has called ForceClose

vars == <<hs, ctx, buf, call, net, out, taken, stream, closed>>

Waiting == {"WaitC0C1", "WaitC2", "WaitS0S1", "WaitS2"}

\* The states of each role; kHandShakeDoning is never entered.
States == [client |-> {"Init", "PostC0C1", "WaitS0S1", "PostC2", "WaitS2", "Done"},
           server |-> {"WaitC0C1", "PostS0S1", "WaitC2", "PostS2", "Done"}]

\* The types; an end is only ever in a state of its own role, although
\* HandShake and WriteComplete serve both roles in one switch.
TypeOK ==
  /\ hs \in [Ends -> UNION {States[e] : e \in Ends}]
  /\ \A e \in Ends : hs[e] \in States[e]
  /\ ctx \in [Ends -> {"handshake", "message"}]
  /\ buf \in [Ends -> Seq(Bytes)] /\ net \in [Ends -> Seq(Bytes)]
  /\ call \subseteq Ends
  /\ out \in [Ends -> Seq(Bytes)] /\ stream \in [Ends -> Seq(Bytes)]
  /\ taken \in [Ends -> Seq([as : Messages, bytes : Seq(Bytes)])]
  /\ closed \in BOOLEAN

\* The server's Start has been called when the connection was accepted.
Init ==
  /\ hs = [client |-> "Init", server |-> "WaitC0C1"]
  /\ ctx = [e \in Ends |-> "handshake"]
  /\ buf = [e \in Ends |-> <<>>] /\ net = [e \in Ends |-> <<>>]
  /\ out = [e \in Ends |-> <<>>] /\ stream = [e \in Ends |-> <<>>]
  /\ taken = [e \in Ends |-> <<>>] /\ call = {}
  /\ closed = FALSE

-----------------------------------------------------------------------------
(* Operators                                                               *)

\* WriteComplete leaves the client in PostC2.
BugCompleted(s) == CASE s = "PostS0S1" -> "WaitC2" [] s = "PostS2" -> "Done"
                     [] s = "PostC0C1" -> "WaitS0S1" [] OTHER -> s
\* WriteComplete
Completed(s) == CASE s = "PostS0S1" -> "WaitC2" [] s = "PostS2" -> "Done"
                  [] s = "PostC0C1" -> "WaitS0S1" [] s = "PostC2" -> "WaitS2"
                  [] OTHER -> s

\* Every packet is taken to have 1536 bytes.
BugNeed(s) == P
\* The bytes HandShake wants before it looks at a packet.  For S0S1 the code
\* has kRtmpHandShakePacketSize, one less than it then reads.
Need(s) == IF s = "WaitC0C1" THEN P + 1 ELSE P

\* The bytes it reads and retrieves; Retrieve is content with fewer.
Reads(s) == IF s \in {"WaitC0C1", "WaitS0S1"} THEN P + 1 ELSE P

Smaller(a, b) == IF a < b THEN a ELSE b
Drop(s, n) == SubSeq(s, n + 1, Len(s))

\* The state is set to s and bs are sent with Send(buf, size).  write takes k
\* bytes; if it takes all of them, write_complete_cb_ is called at once and,
\* RtmpContext being in the handshake, ends in WriteComplete.
SendNow(e, s, bs) ==
  \E k \in 1..Len(bs) :
    IF out[e] = <<>>
    THEN /\ net' = [net EXCEPT ![Peer(e)] = @ \o SubSeq(bs, 1, k)]
         /\ out' = [out EXCEPT ![e] = Drop(bs, k)]
         /\ hs' = [hs EXCEPT ![e] = IF k = Len(bs) THEN Completed(s) ELSE s]
    ELSE /\ out' = [out EXCEPT ![e] = @ \o bs]
         /\ hs' = [hs EXCEPT ![e] = s]
         /\ UNCHANGED net

\* The packet at the front of the buffer is retrieved as m.
Take(e, m) ==
  LET n == Smaller(Reads(hs[e]), Len(buf[e]))
  IN  taken' = [taken EXCEPT ![e] =
                  Append(@, [as |-> m, bytes |-> SubSeq(buf[e], 1, n)])]

-----------------------------------------------------------------------------
(* Handlers of an end's loop thread                                        *)

\* Start of the client.
Start ==
  /\ hs["client"] = "Init"
  /\ SendNow("client", "PostC0C1", Whole("C0C1"))
  /\ UNCHANGED <<ctx, buf, call, taken, stream, closed>>

\* OnWrite; when all is written, write_complete_cb_ (OnWriteComplete).
Flush(e) ==
  /\ out[e] # <<>> /\ e \notin call /\ ~closed
  /\ \E k \in 1..Len(out[e]) :
       /\ net' = [net EXCEPT ![Peer(e)] = @ \o SubSeq(out[e], 1, k)]
       /\ out' = [out EXCEPT ![e] = Drop(@, k)]
       /\ hs' = IF k = Len(out[e]) /\ ctx[e] = "handshake"
                THEN [hs EXCEPT ![e] = Completed(@)] ELSE hs
  /\ UNCHANGED <<ctx, buf, call, taken, stream, closed>>

\* OnRead: some of the bytes that have arrived; the message callback follows.
Read(e) ==
  /\ e \notin call /\ ~closed
  /\ \E k \in 1..Len(net[e]) :
       /\ buf' = [buf EXCEPT ![e] = @ \o SubSeq(net[e], 1, k)]
       /\ net' = [net EXCEPT ![e] = Drop(@, k)]
  /\ call' = call \cup {e}
  /\ UNCHANGED <<hs, ctx, out, taken, stream, closed>>

\* HandShake is called in state s.
In(e, s) == e \in call /\ ~closed /\ ctx[e] = "handshake" /\ hs[e] = s
Enough(e) == Len(buf[e]) >= Need(hs[e])

\* HandShake has nothing to do: too few bytes, or a state that waits for a
\* write.  Parse returns and is called again after the next read.
Wait(e) ==
  /\ In(e, hs[e]) /\ (hs[e] \notin Waiting \/ ~Enough(e))
  /\ call' = call \ {e}
  /\ UNCHANGED <<hs, ctx, buf, net, out, taken, stream, closed>>

\* The server gets C0C1 and answers with S0S1.
TakeC0C1 ==
  /\ In("server", "WaitC0C1") /\ Enough("server")
  /\ Take("server", "C0C1")
  /\ buf' = [buf EXCEPT !["server"] = Drop(@, Reads("WaitC0C1"))]
  /\ SendNow("server", "PostS0S1", Whole("S0S1"))
  /\ call' = call \ {"server"}
  /\ UNCHANGED <<ctx, stream, closed>>

\* The server gets C2 and answers with S2; for RtmpContext that is the end of
\* the handshake, and the rest of the buffer goes to ParseMessage.
TakeC2 ==
  /\ In("server", "WaitC2") /\ Enough("server")
  /\ Take("server", "C2")
  /\ SendNow("server", "PostS2", Whole("S2"))
  /\ ctx' = [ctx EXCEPT !["server"] = "message"]
  /\ stream' = [stream EXCEPT !["server"] = Drop(buf["server"], P)]
  /\ buf' = [buf EXCEPT !["server"] = <<>>]
  /\ call' = call \ {"server"}
  /\ UNCHANGED closed

\* The client gets S0S1 and answers with C2.
TakeS0S1 ==
  /\ In("client", "WaitS0S1") /\ Enough("client")
  /\ Take("client", "S0S1")
  /\ buf' = [buf EXCEPT !["client"] = Drop(@, Smaller(P + 1, Len(@)))]
  /\ SendNow("client", "PostC2", Whole("C2"))
  /\ call' = call \ {"client"}
  /\ UNCHANGED <<ctx, stream, closed>>

\* CheckC1S1 reads P + 1 bytes; with P in the buffer it may find the digest
\* wrong, and Parse's caller closes the connection.
RejectS0S1 ==
  /\ In("client", "WaitS0S1") /\ Enough("client") /\ Len(buf["client"]) = P
  /\ closed' = TRUE
  /\ call' = call \ {"client"}
  /\ UNCHANGED <<hs, ctx, buf, net, out, taken, stream>>

\* The client gets S2; RtmpContext sends connect and parses what is left.
TakeS2 ==
  /\ In("client", "WaitS2") /\ Enough("client")
  /\ Take("client", "S2")
  /\ hs' = [hs EXCEPT !["client"] = "Done"]
  /\ ctx' = [ctx EXCEPT !["client"] = "message"]
  /\ out' = [out EXCEPT !["client"] = @ \o Whole("connect")]
  /\ stream' = [stream EXCEPT !["client"] = Drop(buf["client"], P)]
  /\ buf' = [buf EXCEPT !["client"] = <<>>]
  /\ call' = call \ {"client"}
  /\ UNCHANGED <<net, closed>>

\* After the handshake.
TakeMessage(e) ==
  /\ e \in call /\ ~closed /\ ctx[e] = "message"
  /\ stream' = [stream EXCEPT ![e] = @ \o buf[e]]
  /\ buf' = [buf EXCEPT ![e] = <<>>]
  /\ call' = call \ {e}
  /\ UNCHANGED <<hs, ctx, net, out, taken, closed>>

Client == Start \/ TakeS0S1 \/ RejectS0S1 \/ TakeS2
Server == TakeC0C1 \/ TakeC2
Either(e) == Flush(e) \/ Read(e) \/ Wait(e) \/ TakeMessage(e)

Next == Client \/ Server \/ \E e \in Ends : Either(e)

Spec == Init /\ [][Next]_vars

\* Loops run, and TCP carries the bytes.
FairSpec == /\ Spec /\ WF_vars(Client) /\ WF_vars(Server)
            /\ \A e \in Ends : WF_vars(Either(e))

-----------------------------------------------------------------------------
(* Properties                                                              *)

\* The client has taken S0S1 for complete one byte too early.
CutShort == \E i \in DOMAIN taken["client"] :
              taken["client"][i].as = "S0S1" /\ Len(taken["client"][i].bytes) = P

\* However the stream is cut into reads, each packet that HandShake retrieves
\* is one whole packet of the peer, and ParseMessage sees connect from its
\* first byte on and nothing of the handshake.
AlwaysAligned ==
  /\ \A e \in Ends : \A i \in DOMAIN taken[e] :
       taken[e][i].bytes = Whole(taken[e][i].as)
  /\ stream["server"] \in {<<>>, Whole("connect")} /\ stream["client"] = <<>>

\* That is so in every run in which no read of the client ends one byte before
\* the end of S0S1, and at the server in every run; and each end stays in the
\* states of its role.
Aligned ==
  /\ TypeOK
  /\ \A i \in DOMAIN taken["server"] :
       taken["server"][i].bytes = Whole(taken["server"][i].as)
  /\ stream["server"] \in {<<>>, Whole("connect")}
  /\ ~CutShort => AlwaysAligned

\* What makes it so, as an inductive invariant.  What is on its way to e, and
\* what e has not taken yet.
Way(e) == net[e] \o out[Peer(e)]
Ahead(e) == buf[e] \o Way(e)

\* What each end has sent behind a packet of its own, by the state it is in.
AfterC2 == IF hs["client"] = "Done" THEN Whole("connect") ELSE <<>>
AfterC0C1 == IF hs["client"] \in {"PostC2", "WaitS2", "Done"}
             THEN Whole("C2") \o AfterC2 ELSE <<>>
AfterS0S1 == IF hs["server"] \in {"PostS2", "Done"} THEN Whole("S2") ELSE <<>>

Packet(m) == [as |-> m, bytes |-> Whole(m)]

\* In each state the server has taken its packets whole, and what is still to
\* come is what the client has sent behind them.
ServerInv ==
  /\ ctx["server"] = "message" => hs["server"] \in {"PostS2", "Done"}
  /\ hs["server"] = "WaitC0C1" =>
       /\ taken["server"] = <<>> /\ stream["server"] = <<>>
       /\ Ahead("server") = IF hs["client"] = "Init" THEN <<>>
                            ELSE Whole("C0C1") \o AfterC0C1
  /\ hs["server"] \in {"PostS0S1", "WaitC2"} =>
       /\ taken["server"] = <<Packet("C0C1")>> /\ stream["server"] = <<>>
       /\ hs["client"] # "Init" /\ Ahead("server") = AfterC0C1
  /\ hs["server"] \in {"PostS2", "Done"} =>
       /\ taken["server"] = <<Packet("C0C1"), Packet("C2")>>
       /\ hs["client"] \in {"PostC2", "WaitS2", "Done"}
       /\ stream["server"] \o Ahead("server") = AfterC2

\* So has the client, if it has not been content with less of S0S1.
ClientInv ==
  /\ stream["client"] = <<>>
  /\ ctx["client"] = "message" => hs["client"] = "Done"
  /\ hs["client"] \in {"Init", "PostC0C1", "WaitS0S1"} =>
       /\ taken["client"] = <<>>
       /\ Ahead("client") = IF hs["server"] = "WaitC0C1" THEN <<>>
                            ELSE Whole("S0S1") \o AfterS0S1
  /\ hs["client"] \in {"PostC2", "WaitS2"} =>
       /\ taken["client"] = <<Packet("S0S1")>>
       /\ hs["server"] # "WaitC0C1" /\ Ahead("client") = AfterS0S1
  /\ hs["client"] = "Done" =>
       /\ taken["client"] = <<Packet("S0S1"), Packet("S2")>>
       /\ hs["server"] \in {"PostS2", "Done"} /\ Ahead("client") = <<>>

Inv == TypeOK /\ ServerInv /\ (CutShort \/ ClientInv)

\* The handshake ends with connect at the server, or the connection is closed,
\* or S0S1 was cut short.
HandshakeEnds ==
  <>(closed \/ CutShort \/ stream["server"] = Whole("connect"))
=============================================================================
