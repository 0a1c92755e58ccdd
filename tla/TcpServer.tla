----------------------------- MODULE TcpServer ------------------------------
(***************************************************************************)
(* Acceptor and TcpServer (src/tmms/network/net/acceptor.cpp,              *)
(* tcpserver.cpp) over the tables of Descriptors: listening, accepting,    *)
(* the set of connections, and Start and Stop from the thread that owns    *)
(* the server while its loop runs.                                         *)
(*                                                                         *)
(* A TcpConnection is identified with the peer that connects.  Its reading *)
(* is here what matters for descriptors: data is taken, callbacks run,     *)
(* the end of the stream closes it; writing, resets and the idle wheel are *)
(* those of the module TcpConnection.                                      *)
(*                                                                         *)
(* Operators named Bug... are deliberately wrong variants of the operator  *)
(* that follows them; no specification uses them.                          *)
(***************************************************************************)
EXTENDS Descriptors, Sequences, FiniteSets, SequencesExt

CONSTANTS Acceptor,     \* the server's acceptor_
          Peers,        \* hosts that may connect, once each
          Clients,      \* TcpClient objects in the same loop
          OwnerProgram, \* the owner's calls: "start", "stop"
          Talkers,      \* peers, and clients' servers, that send something
          MaxSegments   \* bound on the segments each of them sends

ASSUME OwnerAssumption == /\ OwnerProgram \in Seq({"start", "stop"})
                          /\ MaxSegments \in Nat /\ Talkers \subseteq Peers \cup Clients

Obj == {Acceptor} \cup Peers \cup Clients

\* They are different objects, and none of them is no object.
ASSUME ObjAssumption == /\ None \notin Obj /\ Acceptor \notin Peers \cup Clients
                        /\ Peers \cap Clients = {}

VARIABLES
  desc,      \* descriptors, epoll and events_
  fd,        \* fd_ of each Event
  closed,    \* closed_ of each connection
  \* the kernel's and the peers' side
  link,      \* of each connection's socket
  unread,    \* segments in its receive buffer
  still,     \* segments that the other side may still send
  backlog,   \* peers waiting to be accepted
  \* the loop thread
  pc, batch, \* reports of the last epoll_wait not yet dispatched
  cur,       \* the object whose handler runs
  opens,     \* tasks of Acceptor::Start in functions_
  \* the server
  connections,  \* connections_
  told,         \* history: callbacks about each connection
  \* the owner
  calls,     \* number of its calls made
  reopened   \* history: Open has closed a listener that was still registered

kernelVars == <<link, unread, still, backlog>>
loopVars == <<pc, batch, cur, opens>>
serverVars == <<connections, told>>
ownerVars == <<calls, reopened>>
baseVars == <<desc, fd, closed, kernelVars, loopVars, serverVars, ownerVars>>

ServerTypeOK ==
  /\ desc \in Tables(Obj) /\ fd \in [Obj -> 0..MaxFd]
  /\ closed \in [Peers \cup Clients -> BOOLEAN]
  /\ link \in [Peers \cup Clients ->
               {"away", "backlog", "left", "syn", "up", "fin", "refused", "gone"}]
  /\ unread \in [Peers \cup Clients -> 0..1]
  /\ still \in [Peers \cup Clients -> 0..MaxSegments]
  /\ backlog \in Seq(Peers) /\ IsInjective(backlog)
  /\ pc \in {"poll", "dispatch", "accept", "read", "message", "tasks"}
  /\ batch \subseteq Fds \X SUBSET {"IN", "OUT", "ERR"}
  /\ cur \in Obj \cup {None} /\ opens \in 0..Len(OwnerProgram)
  /\ connections \subseteq Peers
  /\ told \in [Peers -> Seq({"new", "destroy"})]
  /\ calls \in 0..Len(OwnerProgram) /\ reopened \in BOOLEAN

ServerInit ==
  /\ desc = NoDescriptors /\ fd = [o \in Obj |-> 0]
  /\ closed = [o \in Peers \cup Clients |-> FALSE]
  /\ link = [o \in Peers \cup Clients |-> "away"]
  /\ unread = [o \in Peers \cup Clients |-> 0] /\ backlog = <<>>
  /\ still = [o \in Peers \cup Clients |-> IF o \in Talkers THEN MaxSegments ELSE 0]
  /\ pc = "poll" /\ batch = {} /\ cur = None /\ opens = 0
  /\ connections = {} /\ told = [p \in Peers |-> <<>>]
  /\ calls = 0 /\ reopened = FALSE

-----------------------------------------------------------------------------
(* External: peers and the network.                                        *)

Listening == fd[Acceptor] # 0
Waiting(p) == link[p] \in {"backlog", "left"}

\* A peer connects: into the backlog of a listening socket, refused otherwise.
PeerConnect(p) ==
  /\ link[p] = "away"
  /\ IF Listening
     THEN /\ link' = [link EXCEPT ![p] = "backlog"]
          /\ backlog' = Append(backlog, p)
          /\ desc' = Wake(desc, fd[Acceptor])
     ELSE /\ link' = [link EXCEPT ![p] = "refused"]
          /\ UNCHANGED <<still, backlog, desc>>
  /\ UNCHANGED <<fd, closed, unread, still, loopVars, serverVars, ownerVars>>

\* A segment arrives; the peer of an accepted connection sends one at a time.
Arrive(o) ==
  /\ link[o] \in {"backlog", "up"} /\ unread[o] = 0 /\ still[o] > 0
  /\ unread' = [unread EXCEPT ![o] = 1]
  /\ still' = [still EXCEPT ![o] = @ - 1]
  /\ desc' = Wake(desc, fd[o])
  /\ UNCHANGED <<fd, closed, link, backlog, loopVars, serverVars, ownerVars>>

\* The other side closes, perhaps before it has been accepted ("left").
PeerFin(o) ==
  /\ link[o] \in {"backlog", "up"}
  /\ link' = [link EXCEPT ![o] = IF @ = "up" THEN "fin" ELSE "left"]
  /\ desc' = Wake(desc, fd[o])
  /\ UNCHANGED <<fd, closed, unread, still, backlog, loopVars, serverVars, ownerVars>>

\* What epoll reports of descriptor f now.  A connected socket has space.
Conditions(f) ==
  LET o == desc.owner[f]
      in == IF o = Acceptor THEN backlog # <<>>
            ELSE unread[o] > 0 \/ link[o] \in {"fin", "refused"}
      out == o # Acceptor /\ f \in desc.wants
                          /\ link[o] \in {"up", "fin", "refused"}
  IN  (IF in THEN {"IN"} ELSE {}) \cup (IF out THEN {"OUT"} ELSE {})

-----------------------------------------------------------------------------
(* The loop: epoll_wait and the search of events_; the handlers follow.    *)

\* epoll_wait returns; errors in the set report EPOLLERR as well.
Poll(errors) ==
  /\ pc = "poll"
  /\ batch' = {<<f, Conditions(f) \cup (IF desc.owner[f] \in errors
                                        THEN {"ERR"} ELSE {})>> :
                 f \in {g \in desc.ready : Conditions(g) # {}}}
  /\ desc' = [desc EXCEPT !.ready = {}]
  /\ pc' = IF batch' = {} THEN "tasks" ELSE "dispatch"
  /\ UNCHANGED <<fd, closed, kernelVars, cur, opens, serverVars, ownerVars>>

\* The next report e is taken for handler code at place next.
Take(e, next) ==
  /\ pc = "dispatch" /\ e \in batch
  /\ batch' = batch \ {e}
  /\ pc' = IF next = "dispatch" /\ batch' = {} THEN "tasks" ELSE next

\* The handler returns to the loop.
Return == pc' = (IF batch = {} THEN "tasks" ELSE "dispatch") /\ cur' = None

\* Reports that change nothing: the number has no entry (any more), OnError,
\* or OnRead of a connection that has been closed.
DispatchNothing ==
  /\ \E e \in batch :
       /\ LET o == desc.table[e[1]]
          IN  \/ o = None
              \/ "ERR" \in e[2] /\ o \notin Clients
              \/ o \in Peers /\ closed[o]
              \/ o \notin Clients /\ "IN" \notin e[2]
       /\ Take(e, "dispatch")
  /\ UNCHANGED <<desc, fd, closed, kernelVars, cur, opens, serverVars, ownerVars>>

\* OnRead of the acceptor, or of an accepted connection.
DispatchRead ==
  /\ \E e \in batch :
       LET o == desc.table[e[1]]
       IN  /\ o \in {Acceptor} \cup Peers /\ "ERR" \notin e[2] /\ "IN" \in e[2]
           /\ o \in Peers => ~closed[o]
           /\ Take(e, IF o = Acceptor THEN "accept" ELSE "read")
           /\ cur' = o
  /\ UNCHANGED <<desc, fd, closed, kernelVars, opens, serverVars, ownerVars>>

-----------------------------------------------------------------------------
(* Acceptor.                                                               *)

\* Open on tables d: close the old socket, which resets who waits in its
\* backlog, take the lowest free number, register it, bind and listen.
Open(d) ==
  LET d1 == CloseFd(d, fd[Acceptor])
      f  == Lowest(FreeFds(d1))
  IN  /\ FreeFds(d1) # {}  \* otherwise the program exits
      /\ desc' = AddEvent(Opened(d1, f, Acceptor), f, Acceptor, FALSE)
      /\ fd' = [fd EXCEPT ![Acceptor] = f]
      /\ link' = [p \in DOMAIN link |->
                    IF Waiting(p) THEN "refused" ELSE link[p]]
      /\ unread' = [p \in DOMAIN link |->
                      IF Waiting(p) THEN 0 ELSE unread[p]]
      /\ backlog' = <<>>

\* Stop.
StopAcceptor == DelEvent(desc, fd[Acceptor])

\* TcpServer::OnAccet: a TcpConnection for descriptor f, in connections_ and
\* in the loop's table, with its idle check; new_connection_cb_ is called.
OnAccet(p, f) ==
  /\ desc' = AddEvent(Opened(desc, f, p), f, p, unread[p] > 0 \/ link[p] = "left")
  /\ link' = [link EXCEPT ![p] = IF @ = "left" THEN "fin" ELSE "up"]
  /\ fd' = [fd EXCEPT ![p] = f]
  /\ connections' = connections \cup {p}
  /\ told' = [told EXCEPT ![p] = Append(@, "new")]

\* One accepted connection per report, as with level-triggered epoll.
BugAccept ==
  /\ pc = "accept" /\ FreeFds(desc) # {} /\ backlog # <<>>
  /\ OnAccet(Head(backlog), Lowest(FreeFds(desc)))
  /\ backlog' = Tail(backlog)
  /\ Return
  /\ UNCHANGED <<closed, unread, still, batch, opens, ownerVars>>
\* A round of OnRead's loop that accepts.  cur is the new connection, for user
\* code in new_connection_cb_.
Accept ==
  /\ pc = "accept" /\ FreeFds(desc) # {} /\ backlog # <<>>
  /\ OnAccet(Head(backlog), Lowest(FreeFds(desc)))
  /\ backlog' = Tail(backlog)
  /\ cur' = Head(backlog)
  /\ UNCHANGED <<closed, unread, still, pc, batch, opens, ownerVars>>

\* EAGAIN ends the loop.
AcceptEnd ==
  /\ pc = "accept" /\ FreeFds(desc) # {} /\ backlog = <<>>
  /\ Return
  /\ UNCHANGED <<desc, fd, closed, kernelVars, batch, opens, serverVars, ownerVars>>

\* No descriptor is left, which accept4 looks for before it looks at the
\* backlog: OnClose, that is Stop and Open.
AcceptFail ==
  /\ pc = "accept" /\ FreeFds(desc) = {}
  /\ Open(StopAcceptor)
  /\ Return
  /\ UNCHANGED <<closed, still, batch, opens, serverVars, ownerVars>>

-----------------------------------------------------------------------------
(* Connections of the server.                                              *)

\* The descriptor is closed before close_cb_ looks it up.
BugOnClose(p) ==
  IF closed[p]
  THEN UNCHANGED <<desc, fd, closed, link, unread, connections, told>>
  ELSE /\ closed' = [closed EXCEPT ![p] = TRUE]
       /\ connections' = connections \ {p}
       /\ told' = [told EXCEPT ![p] = Append(@, "destroy")]
       /\ desc' = CloseFd(desc, fd[p])
       /\ fd' = [fd EXCEPT ![p] = 0]
       /\ link' = [link EXCEPT ![p] = "gone"]
       /\ unread' = [unread EXCEPT ![p] = 0]
\* closed_ is not looked at.
BugOnCloseAgain(p) ==
  /\ closed' = [closed EXCEPT ![p] = TRUE]
  /\ connections' = connections \ {p}
  /\ told' = [told EXCEPT ![p] = Append(@, "destroy")]
  /\ desc' = CloseFd(DelEvent(desc, fd[p]), fd[p])
  /\ fd' = [fd EXCEPT ![p] = 0]
  /\ link' = [link EXCEPT ![p] = "gone"]
  /\ unread' = [unread EXCEPT ![p] = 0]
\* OnClose; nothing when closed_.  close_cb_ is TcpServer::OnConnectionClose.
OnClose(p) ==
  IF closed[p]
  THEN UNCHANGED <<desc, fd, closed, link, unread, connections, told>>
  ELSE /\ closed' = [closed EXCEPT ![p] = TRUE]
       /\ connections' = connections \ {p}
       /\ told' = [told EXCEPT ![p] = Append(@, "destroy")]
       /\ desc' = CloseFd(DelEvent(desc, fd[p]), fd[p])
       /\ fd' = [fd EXCEPT ![p] = 0]
       /\ link' = [link EXCEPT ![p] = "gone"]
       /\ unread' = [unread EXCEPT ![p] = 0]

\* A round of OnRead's loop: data, and message_cb_.
Read ==
  /\ pc = "read" /\ unread[cur] > 0
  /\ unread' = [unread EXCEPT ![cur] = 0]
  /\ pc' = "message"
  /\ UNCHANGED <<desc, fd, closed, link, still, backlog, batch, cur, opens, serverVars,
                 ownerVars>>

\* message_cb_ returns into the loop of OnRead.
UserReturn ==
  /\ pc = "message"
  /\ pc' = "read"
  /\ UNCHANGED <<desc, fd, closed, kernelVars, batch, cur, opens, serverVars,
                 ownerVars>>

\* The end of the loop: EAGAIN; or the end of the stream, or the error of a
\* descriptor that the callback has closed: OnClose.
ReadEnd ==
  /\ pc = "read" /\ cur \in Peers /\ unread[cur] = 0
  /\ IF link[cur] \in {"fin", "gone"}
     THEN OnClose(cur)
     ELSE UNCHANGED <<desc, fd, closed, link, unread, connections, told>>
  /\ Return
  /\ UNCHANGED <<still, backlog, batch, opens, ownerVars>>

\* User code runs: a task, message_cb_ or new_connection_cb_.
InUserCode == pc \in {"message", "tasks"} \/ (pc = "accept" /\ cur # Acceptor)

\* ForceClose by user code in the loop, or the idle entry's destructor; either
\* may find the connection closed already.
Close(p) ==
  /\ InUserCode /\ link[p] \in {"up", "fin", "gone"}
  /\ OnClose(p)
  /\ UNCHANGED <<still, backlog, loopVars, ownerVars>>

-----------------------------------------------------------------------------
(* Tasks, and the owner's thread.                                          *)

\* Acceptor::Start's task.
RunOpen ==
  /\ pc = "tasks" /\ opens > 0
  /\ opens' = opens - 1
  /\ Open(desc)
  /\ reopened' = (reopened \/ Acceptor \in {desc.table[f] : f \in Fds})
  /\ UNCHANGED <<closed, still, pc, batch, cur, serverVars, calls>>

TasksDone ==
  /\ pc = "tasks" /\ opens = 0
  /\ pc' = "poll"
  /\ UNCHANGED <<desc, fd, closed, kernelVars, batch, cur, opens, serverVars,
                 ownerVars>>

\* TcpServer::Start hands Open over to the loop.
Start ==
  /\ calls < Len(OwnerProgram) /\ OwnerProgram[calls + 1] = "start"
  /\ calls' = calls + 1 /\ opens' = opens + 1
  /\ UNCHANGED <<desc, fd, closed, kernelVars, pc, batch, cur, serverVars,
                 reopened>>

\* TcpServer::Stop changes the loop's table at once, in the owner's thread.
\* The listening socket stays open.
Stop ==
  /\ calls < Len(OwnerProgram) /\ OwnerProgram[calls + 1] = "stop"
  /\ calls' = calls + 1
  /\ desc' = StopAcceptor
  /\ UNCHANGED <<fd, closed, kernelVars, loopVars, serverVars, reopened>>
=============================================================================
