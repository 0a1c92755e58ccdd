---------------------------- MODULE RtmpDialogue ----------------------------
(***************************************************************************)
(* What a session promises, without queues, batches and buffers: each end  *)
(* gets the messages of the other in the order they were made, and each is *)
(* answered.  RtmpSession implements it.                                   *)
(***************************************************************************)
EXTENDS RtmpCommands

CONSTANTS MaxPings,  \* bound on the pings of a peer
          Values     \* their values

VARIABLES chan,   \* chan[e]: the messages on their way to e
          got,    \* got[e]: the messages e has been given, in order
          plays,  \* is_player_ of the client
          pings   \* pings[e]: the pings sent to e

vars == <<chan, got, plays, pings>>

Init == /\ chan = [client |-> <<>>, server |-> Connect]
        /\ got = [e \in Ends |-> <<>>]
        /\ plays \in BOOLEAN
        /\ pings = [e \in Ends |-> 0]

Handle(e) ==
  /\ chan[e] # <<>>
  /\ LET m == Head(chan[e])
     IN  /\ got' = [got EXCEPT ![e] = Append(@, m)]
         /\ chan' = [chan EXCEPT ![e] = Tail(@),
                                 ![Peer(e)] = @ \o Reply(e, m, plays)]
  /\ UNCHANGED <<plays, pings>>

\* A peer's ping comes after what it has sent, and before what waits to be sent.
Ping(e, v) ==
  /\ pings[e] < MaxPings
  /\ \E k \in 0..Len(chan[e]) :
       chan' = [chan EXCEPT ![e] = SubSeq(@, 1, k) \o <<PingRequest(v)>>
                                   \o SubSeq(@, k + 1, Len(@))]
  /\ pings' = [pings EXCEPT ![e] = @ + 1]
  /\ UNCHANGED <<got, plays>>

Next == \E e \in Ends : Handle(e) \/ \E v \in Values : Ping(e, v)

Spec == Init /\ [][Next]_vars
=============================================================================
