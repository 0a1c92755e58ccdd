---------------------------- MODULE RtmpSession -----------------------------
(***************************************************************************)
(* A session of an RTMP client and a server after the handshake            *)
(* (src/tmms/mmedia/rtmp/rtmp_context.cpp, rtmp_client.cpp and             *)
(* rtmp_server.cpp): the queue of messages and the batch of each end, and  *)
(* the commands from connect to play or publish.                           *)
(*                                                                         *)
(* The connection is what TcpConnection promises: what is handed to Send   *)
(* is written in order, and the write-complete callback comes when all of  *)
(* it is written.  Chunks are RtmpChunk's subject; messages are whole here.*)
(*                                                                         *)
(* Operators named Bug... are deliberately wrong variants of the operator  *)
(* that follows them; no specification uses them.                          *)
(***************************************************************************)
EXTENDS RtmpCommands

CONSTANTS MaxBatch,  \* packets that one Send takes (10)
          MaxPings,  \* bound on the pings of a peer
          Values     \* their values

ASSUME BatchAssumption ==
  MaxBatch \in Nat \ {0} /\ MaxPings \in Nat /\ Values \subseteq 0..(Half * Half - 1)

VARIABLES
  queue,    \* out_waiting_queue_
  sending,  \* sending_
  batch,    \* what the connection has not yet written of sending_bufs_
  net,      \* net[e]: messages written and on their way to e
  inChunk,  \* in_chunk_size_ is the peer's out_chunk_size_, not the first 128
  got,      \* history: the messages given to MessageComplete
  told,     \* history: which calls the client's RtmpHandler has had
  plays,    \* is_player_ of the client
  pings     \* pings[e]: the pings sent to e

outVars == <<queue, sending, batch>>
vars == <<outVars, net, inChunk, got, told, plays, pings>>

\* The types, and that no Send takes more than its share.
TypeOK ==
  /\ queue \in [Ends -> Seq(Message)] /\ batch \in [Ends -> Seq(Message)]
  /\ sending \in [Ends -> BOOLEAN] /\ inChunk \in [Ends -> BOOLEAN]
  /\ net \in [Ends -> Seq(Message)] /\ got \in [Ends -> Seq(Message)]
  /\ told \subseteq {"OnActive", "OnPublishPrepare"} /\ plays \in BOOLEAN
  /\ pings \in [Ends -> 0..MaxPings]
  /\ \A e \in Ends : Len(batch[e]) <= MaxBatch

-----------------------------------------------------------------------------
(* The queue                                                               *)

Smaller(a, b) == IF a < b THEN a ELSE b
Front(q) == SubSeq(q, 1, Smaller(MaxBatch, Len(q)))
Rest(q) == SubSeq(q, Smaller(MaxBatch, Len(q)) + 1, Len(q))

\* Send, when nothing is being sent and q is waiting: the first packets of q are
\* built and handed to the connection.
Send(e, q) ==
  /\ sending' = [sending EXCEPT ![e] = TRUE]
  /\ batch' = [batch EXCEPT ![e] = Front(q)]
  /\ queue' = [queue EXCEPT ![e] = Rest(q)]

\* PushOutQueue does not look whether a batch is being sent.
BugPush(e, ms) ==
  /\ ms # <<>>
  /\ sending' = [sending EXCEPT ![e] = TRUE]
  /\ batch' = [batch EXCEPT ![e] = <<ms[1]>>]
  /\ queue' = [queue EXCEPT ![e] = @ \o Tail(ms)]
\* PushOutQueue of each of ms: the first starts a Send, unless one is in progress,
\* and the others wait for it.
Push(e, ms) ==
  IF ms = <<>> THEN UNCHANGED outVars
  ELSE IF sending[e]
  THEN /\ queue' = [queue EXCEPT ![e] = @ \o ms]
       /\ UNCHANGED <<sending, batch>>
  ELSE LET q == Append(queue[e], Head(ms))
       IN  /\ sending' = [sending EXCEPT ![e] = TRUE]
           /\ batch' = [batch EXCEPT ![e] = Front(q)]
           /\ queue' = [queue EXCEPT ![e] = Rest(q) \o Tail(ms)]

\* OnWriteComplete only marks the end of sending.
BugCheckAndSend(e) ==
  /\ sending' = [sending EXCEPT ![e] = FALSE]
  /\ batch' = [batch EXCEPT ![e] = <<>>]
  /\ UNCHANGED <<queue, told>>
\* OnWriteComplete: CheckAndSend.  The client has an RtmpHandler, RtmpServer gives
\* its contexts none.
CheckAndSend(e) ==
  IF queue[e] # <<>>
  THEN Send(e, queue[e]) /\ UNCHANGED told
  ELSE /\ sending' = [sending EXCEPT ![e] = FALSE]
       /\ batch' = [batch EXCEPT ![e] = <<>>]
       /\ told' = IF e = "client" THEN told \cup {"OnActive"} ELSE told
       /\ UNCHANGED queue

-----------------------------------------------------------------------------
(* The session                                                             *)

\* The client has got S2 (RtmpHandShake): SendConnect.
Init ==
  /\ plays \in BOOLEAN
  /\ sending = [e \in Ends |-> e = "client"]
  /\ batch = [client |-> <<Head(Connect)>>, server |-> <<>>]
  /\ queue = [client |-> Tail(Connect), server |-> <<>>]
  /\ net = [e \in Ends |-> <<>>] /\ inChunk = [e \in Ends |-> FALSE]
  /\ got = [e \in Ends |-> <<>>] /\ told = {}
  /\ pings = [e \in Ends |-> 0]

\* OnWrite of e's connection writes k of the messages; the last one is followed
\* by the write-complete callback.
Write(e) ==
  /\ batch[e] # <<>>
  /\ \E k \in 1..Len(batch[e]) :
       /\ net' = [net EXCEPT ![Peer(e)] = @ \o SubSeq(batch[e], 1, k)]
       /\ IF k = Len(batch[e])
          THEN CheckAndSend(e)
          ELSE /\ batch' = [batch EXCEPT ![e] = SubSeq(@, k + 1, Len(@))]
               /\ UNCHANGED <<queue, sending, told>>
  /\ UNCHANGED <<inChunk, got, plays, pings>>

\* OnRead of e: a message is complete.
Handle(e) ==
  /\ net[e] # <<>>
  /\ LET m == Head(net[e])
     IN  /\ got' = [got EXCEPT ![e] = Append(@, m)]
         /\ inChunk' = [inChunk EXCEPT ![e] = @ \/ m.type = "SetChunkSize"]
         /\ told' = IF e = "client" /\ m.type = "_result" /\ m.id = 5
                    THEN told \cup {"OnPublishPrepare"} ELSE told
         /\ Push(e, Reply(e, m, plays))
  /\ net' = [net EXCEPT ![e] = Tail(@)]
  /\ UNCHANGED <<plays, pings>>

\* e's peer sends a ping.
Ping(e, v) ==
  /\ pings[e] < MaxPings
  /\ pings' = [pings EXCEPT ![e] = @ + 1]
  /\ net' = [net EXCEPT ![e] = Append(@, PingRequest(v))]
  /\ UNCHANGED <<outVars, inChunk, got, told, plays>>

Next == \E e \in Ends : Write(e) \/ Handle(e) \/ \E v \in Values : Ping(e, v)

Spec == Init /\ [][Next]_vars

\* The loops run and the connection carries what it is given; nothing makes a
\* peer send pings.
FairSpec == Spec /\ \A e \in Ends : WF_vars(Write(e)) /\ WF_vars(Handle(e))

-----------------------------------------------------------------------------
(* Properties                                                              *)

\* What is on its way to e, wherever it is.
Underway(e) == net[e] \o batch[Peer(e)] \o queue[Peer(e)]

Dialogue == INSTANCE RtmpDialogue WITH chan <- [e \in Ends |-> Underway(e)]

\* Through queue, batches, partial writes and completion callbacks each end gets
\* the other's messages in the order PushOutQueue was called, none lost or sent
\* twice.
ImplementsDialogue == Dialogue!Spec

\* Nothing waits in out_waiting_queue_ unless a batch is being written, whose
\* completion callback will take it: sending_ is set exactly while bytes are left.
\* The state has its type.
QueueMoves ==
  /\ TypeOK
  /\ \A e \in Ends : /\ sending[e] = (batch[e] # <<>>)
                     /\ queue[e] # <<>> => sending[e]

\* Every session is started: the client is told by onStatus, and its handler by
\* OnActive once the queue has been written.
SessionStarts ==
  /\ <>(\E i \in DOMAIN got["client"] : got["client"][i].type = "onStatus")
  /\ <>("OnActive" \in told)

=============================================================================
