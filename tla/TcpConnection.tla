--------------------------- MODULE TcpConnection ----------------------------
(***************************************************************************)
(* One TcpConnection (src/tmms/network/net/tcpconnection.cpp) in the event *)
(* loop that owns it: edge-triggered dispatch (eventloop.cpp:36-89), the   *)
(* output list, close, and the idle timeout.  The connection belongs to    *)
(* one loop thread, so its handlers interleave only with the peer and the  *)
(* kernel, but they do so between any two of their system calls.           *)
(*                                                                         *)
(* External: the socket.  ready says that the descriptor is on epoll's     *)
(* ready list.  Arrivals and, for a socket that wants to write, free space *)
(* put it there; epoll_wait takes it off and reports every condition that  *)
(* holds at that moment and is in the interest set; EPOLL_CTL_MOD puts it  *)
(* back if a condition holds (the semantics of EPOLLET).                   *)
(*                                                                         *)
(* The user of the connection is code that calls Send and ForceClose from  *)
(* tasks, message callbacks and write-complete callbacks.                  *)
(*                                                                         *)
(* Operators named Bug... are deliberately wrong variants of the operator  *)
(* that follows them; no specification uses them.                          *)
(***************************************************************************)
EXTENDS Integers, Sequences

CONSTANTS Program,    \* the Send calls of the user: [kind |-> "list" or "buf",
                      \* size |-> number of bytes], in order
          SendSpace,  \* bytes the kernel's send buffer holds
          MaxUnread,  \* bound on segments waiting in the receive buffer
          IdleTimes,  \* values of max_idle_time_, in ticks; 0: nobody calls
                      \* EnableCheckIdleTimeout (TcpClient)
          Faults      \* subset of {"fin", "reset", "close"}: what may happen

ASSUME ProgramAssumption ==
  Program \in Seq([kind : {"list", "buf"}, size : Nat \ {0}])
ASSUME BoundsAssumption == /\ SendSpace \in Nat \ {0}
                           /\ MaxUnread \in Nat \ {0} /\ IdleTimes \subseteq Nat
                           /\ Faults \subseteq {"fin", "reset", "close"}

VARIABLES
  \* the kernel's side of the socket
  unread,     \* segments in the receive buffer
  fin,        \* the peer has closed its side
  reset,      \* the connection is dead: "no", "pending" (SO_ERROR set), "seen"
  inKernel,   \* bytes in the send buffer
  wire,       \* history: all bytes accepted by write and writev
  ready,      \* on epoll's ready list
  \* the connection
  writing,    \* event_ contains kEventWrite
  out,        \* io_vec_list_, as the sequence of bytes it refers to
  closed,     \* closed_
  idle,       \* ticks until the idle entry's last slot is popped
  \* the loop thread and the user code it runs
  pc, mask, back,
  maxIdle,    \* max_idle_time_, which is set before the first report
  sent,       \* number of Send calls made
  handed      \* history: the bytes of those calls

kernelVars == <<unread, fin, reset, inKernel, wire>>
connVars == <<writing, out, closed, idle>>
userVars == <<maxIdle, sent, handed>>
vars == <<unread, fin, reset, inKernel, wire, ready, writing, out, closed,
          idle, pc, mask, back, maxIdle, sent, handed>>

\* Byte k of the i-th Send call; byte 0 lies in front of the caller's buffer.
Byte == (1..Len(Program)) \X Nat
Bytes(i, first, last) == [k \in 1..(last - first + 1) |-> <<i, first + k - 1>>]

TypeOK ==
  /\ unread \in 0..MaxUnread /\ fin \in BOOLEAN
  /\ reset \in {"no", "pending", "seen"}
  /\ inKernel \in 0..SendSpace /\ wire \in Seq(Byte) /\ ready \in BOOLEAN
  /\ writing \in BOOLEAN /\ out \in Seq(Byte) /\ closed \in BOOLEAN
  /\ maxIdle \in IdleTimes /\ idle \in 0..maxIdle
  /\ pc \in {"poll", "dispatch", "reading", "message", "complete", "tasks"}
  /\ mask \subseteq {"IN", "OUT", "ERR"} /\ back \in {"reading", "tasks"}
  /\ sent \in 0..Len(Program) /\ handed \in Seq(Byte)

Init ==
  /\ unread = 0 /\ fin = FALSE /\ reset = "no" /\ inKernel = 0 /\ wire = <<>>
  /\ ready = FALSE /\ writing = FALSE /\ out = <<>> /\ closed = FALSE
  /\ maxIdle \in IdleTimes /\ idle = maxIdle
  /\ pc = "poll" /\ mask = {} /\ back = "tasks"
  /\ sent = 0 /\ handed = <<>>

-----------------------------------------------------------------------------
(* The peer and the kernel.                                                *)

Space == SendSpace - inKernel

\* What epoll would report now for interest set IN, or IN and OUT.
Conditions(wants) ==
  {c \in {"IN", "OUT", "ERR"} :
     \/ c = "IN"  /\ (unread > 0 \/ fin \/ reset # "no")
     \/ c = "OUT" /\ wants /\ (Space > 0 \/ reset # "no")
     \/ c = "ERR" /\ reset = "pending"}

\* A segment arrives.
Arrive == /\ ~closed /\ ~fin /\ reset = "no" /\ unread < MaxUnread
          /\ unread' = unread + 1
          /\ ready' = TRUE
          /\ UNCHANGED <<fin, reset, inKernel, wire, connVars, pc, mask, back,
                         userVars>>

\* The peer closes its side.
PeerFin == /\ "fin" \in Faults /\ ~closed /\ ~fin /\ reset = "no"
           /\ fin' = TRUE
           /\ ready' = TRUE
           /\ UNCHANGED <<unread, reset, inKernel, wire, connVars, pc, mask, back,
                          userVars>>

\* The peer resets the connection: what was to be sent is discarded.
PeerReset == /\ "reset" \in Faults /\ ~closed /\ reset = "no"
             /\ reset' = "pending"
             /\ inKernel' = 0
             /\ ready' = TRUE
             /\ UNCHANGED <<unread, fin, wire, connVars, pc, mask, back,
                            userVars>>

\* The peer takes bytes off the send buffer; a full buffer that gets space
\* wakes whoever wants to write.
Drain == /\ ~closed /\ inKernel > 0
         /\ inKernel' = inKernel - 1
         /\ ready' = (ready \/ (writing /\ Space = 0))
         /\ UNCHANGED <<unread, fin, reset, wire, connVars, pc, mask, back,
                        userVars>>

-----------------------------------------------------------------------------
(* Operations of the connection, called inside the actions below.          *)

\* EnableWriting: EPOLL_CTL_MOD with the new interest set.
EnableWriting(on) == /\ writing' = on
                     /\ ready' = (ready \/ Conditions(on) # {})

\* OnClose; nothing when closed_.  close_cb_ takes the connection out of the
\* server and out of epoll, and the descriptor is closed.
OnClose == IF closed
           THEN UNCHANGED <<closed, ready>>
           ELSE /\ closed' = TRUE
                /\ ready' = FALSE

\* Bytes that write or writev can take now, of n.
Accepted(n) == IF Space < n THEN Space ELSE n

\* Send(list), in the loop: queue and enable writing, nothing is written here.
SendList(i) ==
  /\ out' = out \o Bytes(i, 1, Program[i].size)
  /\ EnableWriting(TRUE)
  /\ UNCHANGED <<kernelVars, closed, idle, pc, back>>

\* The direct write of the i-th call would fail, and be taken for a success.
Fails(i) == Program[i].kind = "buf" /\ out = <<>> /\ (reset # "no" \/ Space = 0)

\* Send(buf, size), in the loop: write at once if nothing is queued.  send_len
\* is a size_t, so the test for a failed write never succeeds: after -1 the
\* byte in front of the buffer and all of the buffer are queued, the
\* connection stays open whatever errno says.
SendBuf(i) ==
  LET n == Program[i].size
      k == Accepted(n)
  IN  \/ /\ out = <<>> /\ ~Fails(i) /\ k = n
         /\ wire' = wire \o Bytes(i, 1, n)
         /\ inKernel' = inKernel + n
         /\ pc' = "complete"
         /\ back' = IF pc = "tasks" THEN "tasks" ELSE back
         /\ UNCHANGED <<unread, fin, reset, ready, connVars>>
      \/ /\ out = <<>> /\ ~Fails(i) /\ k < n
         /\ wire' = wire \o Bytes(i, 1, k)
         /\ inKernel' = inKernel + k
         /\ out' = Bytes(i, k + 1, n)
         /\ writing' = TRUE
         /\ ready' = (ready \/ unread > 0 \/ fin) \* no space is left
         /\ UNCHANGED <<unread, fin, reset, closed, idle, pc, back>>
      \/ /\ Fails(i)
         /\ out' = Bytes(i, 0, n)
         /\ EnableWriting(TRUE)
         /\ UNCHANGED <<kernelVars, closed, idle, pc, back>>
      \/ /\ out # <<>>
         /\ out' = out \o Bytes(i, 1, n)
         /\ EnableWriting(TRUE)
         /\ UNCHANGED <<kernelVars, closed, idle, pc, back>>

-----------------------------------------------------------------------------
(* User code: a task of RunFunctions, or a message or write-complete       *)
(* callback.                                                               *)

InUserCode == pc \in {"message", "complete", "tasks"}

\* Send; dropped with a log line when the connection has been closed.
UserSend ==
  /\ InUserCode /\ sent < Len(Program)
  /\ sent' = sent + 1
  /\ IF closed
     THEN UNCHANGED <<kernelVars, ready, connVars, pc, back, handed>>
     ELSE /\ handed' = handed \o Bytes(sent + 1, IF Fails(sent + 1) THEN 0 ELSE 1,
                                     Program[sent + 1].size)
          /\ \/ Program[sent + 1].kind = "list" /\ SendList(sent + 1)
             \/ Program[sent + 1].kind = "buf" /\ SendBuf(sent + 1)
  /\ UNCHANGED <<mask, maxIdle>>

\* ForceClose: in the loop thread OnClose runs on the spot.
ForceClose ==
  /\ "close" \in Faults /\ InUserCode
  /\ OnClose
  /\ UNCHANGED <<kernelVars, writing, out, idle, pc, mask, back, userVars>>

\* Writing is disabled after the write-complete callback, not before it.
BugUserReturn ==
  /\ pc \in {"message", "complete"}
  /\ pc' = back
  /\ writing' = (writing /\ back = "reading")
  /\ UNCHANGED <<kernelVars, ready, out, closed, idle, mask, back, userVars>>

\* The callback returns into the handler that called it.
UserReturn ==
  /\ pc \in {"message", "complete"}
  /\ pc' = back
  /\ UNCHANGED <<kernelVars, ready, connVars, mask, back, userVars>>

-----------------------------------------------------------------------------
(* The loop thread.                                                        *)

\* epoll_wait returns, with the connection's descriptor or for another reason
\* (a timeout, the pipe, another descriptor).
Poll ==
  /\ pc = "poll"
  /\ mask' = IF ready THEN Conditions(writing) ELSE {}
  /\ ready' = FALSE
  /\ pc' = IF mask' = {} THEN "tasks" ELSE "dispatch"
  /\ UNCHANGED <<kernelVars, connVars, back, userVars>>

\* EPOLLERR: getsockopt takes the error, OnError logs it, and that is all.
DispatchError ==
  /\ pc = "dispatch" /\ "ERR" \in mask
  /\ reset' = "seen"
  /\ pc' = "tasks"
  /\ UNCHANGED <<unread, fin, inKernel, wire, ready, connVars, mask, back,
                 userVars>>

\* else if EPOLLIN: OnRead; ExtendLife re-inserts the idle entry.
BeginRead ==
  /\ pc = "dispatch" /\ "ERR" \notin mask /\ "IN" \in mask
  /\ pc' = IF closed THEN "tasks" ELSE "reading"
  /\ idle' = IF closed THEN idle ELSE maxIdle
  /\ UNCHANGED <<kernelVars, ready, writing, out, closed, mask, back, userVars>>

\* One read per report, as with level-triggered epoll.
BugReadOnce ==
  /\ pc = "reading" /\ ~closed /\ unread > 0
  /\ unread' = unread - 1
  /\ pc' = "message" /\ back' = "tasks"
  /\ UNCHANGED <<fin, reset, inKernel, wire, ready, connVars, mask, userVars>>

\* ReadFd returns data and message_cb_ is called.
ReadSome ==
  /\ pc = "reading" /\ ~closed /\ unread > 0
  /\ unread' = 0
  /\ pc' = "message" /\ back' = "reading"
  /\ UNCHANGED <<fin, reset, inKernel, wire, ready, connVars, mask, userVars>>

\* ReadFd returns 0, or an error: EAGAIN ends the loop, the end of the stream
\* and any other error (the descriptor may be -1 by now) close the connection.
ReadEnd ==
  /\ pc = "reading" /\ (closed \/ unread = 0)
  /\ IF closed \/ fin \/ reset # "no"
     THEN OnClose
     ELSE UNCHANGED <<closed, ready>>
  /\ pc' = "tasks"
  /\ UNCHANGED <<kernelVars, writing, out, idle, mask, back, userVars>>

\* A buffer that was written in part is taken off the list as a whole.
BugFinishWrite(k) ==
  /\ wire' = wire \o SubSeq(out, 1, k)
  /\ inKernel' = inKernel + k
  /\ out' = SelectSeq(SubSeq(out, k + 1, Len(out)),
                      LAMBDA b : k = 0 \/ b[1] # out[k][1])
  /\ pc' = "tasks"
  /\ UNCHANGED <<writing, ready, back>>
\* writev until everything is written or EAGAIN; when the list is empty writing
\* is disabled and write_complete_cb_ is called.
FinishWrite(k) ==
  /\ wire' = wire \o SubSeq(out, 1, k)
  /\ inKernel' = inKernel + k
  /\ out' = SubSeq(out, k + 1, Len(out))
  /\ IF k = Len(out)
     THEN /\ writing' = FALSE
          /\ ready' = (ready \/ Conditions(FALSE) # {})
          /\ pc' = "complete" /\ back' = "tasks"
     ELSE /\ pc' = "tasks"
          /\ UNCHANGED <<writing, ready, back>>

\* else if EPOLLOUT: OnWrite.  It is not reached when the report has EPOLLIN.
Write ==
  /\ pc = "dispatch" /\ mask = {"OUT"}
  /\ IF closed \/ out = <<>>
     THEN /\ pc' = "tasks"
          /\ UNCHANGED <<kernelVars, ready, connVars, back>>
     ELSE IF reset # "no"
     THEN /\ OnClose
          /\ pc' = "tasks"
          /\ UNCHANGED <<kernelVars, writing, out, idle, back>>
     ELSE /\ FinishWrite(Accepted(Len(out)))
          /\ UNCHANGED <<unread, fin, reset, closed, idle>>
  /\ UNCHANGED <<mask, userVars>>

\* The entry goes on expiring after its last slot.
BugTickOn ==
  /\ pc = "tasks"
  /\ idle' = idle - 1
  /\ IF idle' = 0 THEN OnClose ELSE UNCHANGED <<closed, ready>>
  /\ pc' = "poll"
  /\ UNCHANGED <<kernelVars, writing, out, mask, back, userVars>>
\* The entry expires without closing anything.
BugTick ==
  /\ pc = "tasks" /\ idle > 0
  /\ idle' = idle - 1
  /\ pc' = "poll"
  /\ UNCHANGED <<kernelVars, ready, writing, out, closed, mask, back, userVars>>
\* OnTimer turns the wheel; the idle entry's destructor calls OnTimeout.
Tick ==
  /\ pc = "tasks" /\ idle > 0
  /\ idle' = idle - 1
  /\ IF idle' = 0 THEN OnClose ELSE UNCHANGED <<closed, ready>>
  /\ pc' = "poll"
  /\ UNCHANGED <<kernelVars, writing, out, mask, back, userVars>>

\* OnTimer within the same second.
NoTick ==
  /\ pc = "tasks"
  /\ pc' = "poll"
  /\ UNCHANGED <<kernelVars, ready, connVars, mask, back, userVars>>

LoopThread == \/ Poll \/ DispatchError \/ BeginRead \/ ReadSome \/ ReadEnd
              \/ Write \/ UserReturn \/ NoTick
Next == \/ LoopThread \/ Tick \/ UserSend \/ ForceClose
        \/ Arrive \/ PeerFin \/ PeerReset \/ Drain

Spec == Init /\ [][Next]_vars

(***************************************************************************)
(* The loop thread runs, its user code returns, the clock ticks again and  *)
(* again, and the peer takes what it is sent.  Nothing makes the peer send *)
(* and nothing makes the user call.                                        *)
(***************************************************************************)
FairSpec == Spec /\ WF_vars(LoopThread) /\ SF_vars(Tick) /\ WF_vars(Drain)

-----------------------------------------------------------------------------
(* Properties.                                                             *)

\* No byte handed to Send is lost, duplicated or reordered: what the socket has
\* taken, followed by what the output list still refers to, is exactly what was
\* handed over, whatever mixture of Send calls, partial writes and callbacks
\* that send again led there.  Excepted: the byte in front of a buffer whose direct
\* write fails is sent too, and so counts as handed over (send_len is unsigned,
\* tcpconnection.cpp:202).
StreamConserved == wire \o out = handed

\* An open connection with something to write is registered for EPOLLOUT, also
\* after a write-complete callback that sends again (OnWrite disables writing
\* before it calls back).
WriteArmed == out # <<>> /\ ~closed => writing

\* What arrives is read without another arrival having to wake the loop, unless
\* the connection is closed or reset: OnRead empties the socket, as
\* edge-triggered reports require.  Where there is no idle check (TcpClient), a
\* lost report is not made good by closing, and nothing else makes it good.
ArrivedIsRead == unread > 0 ~> unread = 0 \/ closed \/ reset # "no"

\* With the idle check the connection of a peer that has gone, by an orderly
\* close or a reset, is closed in the end.
PeerGone == maxIdle > 0 /\ (fin \/ reset # "no") ~> closed

\* What is queued is written in the end, if the connection stays open and the
\* peer keeps reading (comments at tcpconnection.cpp:224 and :252).
QueuedIsWritten == out # <<>> ~> out = <<>> \/ closed
=============================================================================
