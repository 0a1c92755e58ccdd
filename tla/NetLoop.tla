------------------------------ MODULE NetLoop -------------------------------
(***************************************************************************)
(* The composition: one event loop with the acceptor and the connections   *)
(* of a TcpServer and with TcpClients, sharing the descriptors of the      *)
(* process and the loop's table, and the thread that owns the server.      *)
(***************************************************************************)
EXTENDS TcpClient

vars == <<baseVars, clientVars>>

TypeOK == ServerTypeOK /\ ClientTypeOK
Init == ServerInit /\ ClientInit

\* Steps of the loop thread that it takes by itself.
LoopStep ==
  \/ Poll(errors) /\ UNCHANGED clientVars
  \/ (\/ DispatchNothing \/ DispatchRead \/ Accept \/ AcceptEnd \/ AcceptFail
      \/ Read \/ UserReturn \/ ReadEnd \/ RunOpen \/ TasksDone)
     /\ UNCHANGED clientVars
  \/ ClientError \/ ClientConnecting \/ ClientDispatch \/ ClientReadEnd

\* What user code called by the loop thread may do.
UserStep == \/ \E p \in Peers : Close(p) /\ UNCHANGED clientVars
            \/ \E c \in Clients : Connect(c) \/ ClientClose(c)

OwnerStep == (Start \/ Stop) /\ UNCHANGED clientVars

\* The loop is about to ask the kernel for something of o: epoll_wait, read of
\* its socket, accept4 and EPOLL_CTL_ADD of who is not accepted yet, the close
\* of a listener.  What happens to o at other times shows only here.
AtSystemCall(o) ==
  \/ pc = "poll"
  \/ pc = "read" /\ o = cur
  \/ pc = "accept" /\ link[o] \in {"away", "backlog"}
  \/ pc = "tasks" /\ opens > 0 /\ link[o] = "away"

\* So may CheckError, for a report of the number that c has now.
CheckErrorNext(c) == pc = "dispatch" /\ \E e \in batch : e[1] = fd[c]

Outside ==
  \/ (\E p \in Peers : AtSystemCall(p) /\ PeerConnect(p)) /\ UNCHANGED clientVars
  \/ (\E o \in Peers \cup Clients : AtSystemCall(o) /\ (Arrive(o) \/ PeerFin(o)))
     /\ UNCHANGED clientVars
  \/ \E c \in Clients : (pc = "poll" \/ CheckErrorNext(c)) /\ ConnectOutcome(c)

Next == LoopStep \/ UserStep \/ OwnerStep \/ Outside

Spec == Init /\ [][Next]_vars

(***************************************************************************)
(* The loop runs and user code returns; a connect in progress is answered  *)
(* or times out.  (A peer that for ever sends faster than OnRead reads     *)
(* would keep the loop in one connection: MaxSegments excludes it.)        *)
(***************************************************************************)
FairSpec == /\ Spec /\ WF_vars(LoopStep)
            /\ \A c \in Clients : WF_vars(ConnectOutcome(c))

-----------------------------------------------------------------------------
(* Properties.                                                             *)

\* Tables d and the objects' fd_, g: whose descriptors are open ...
Owned(d, g) ==
  /\ \A o \in Obj : g[o] # 0 => d.owner[g[o]] = o
  /\ \A f \in Fds : d.owner[f] # None => g[d.owner[f]] = f
\* ... and which Event the loop has for a number.
Mapped(d, g) ==
  /\ \A f \in Fds : d.table[f] # None => g[d.table[f]] = f
  /\ \A o \in Obj \ {Acceptor} :
       g[o] # 0 => d.table[g[o]] = o /\ g[o] \in d.watched

\* The kernel's table, epoll's and the loop's agree, however descriptors are
\* closed and used again within a batch: an object's fd_ is an open descriptor
\* of its own, and every open descriptor is some object's fd_ (none leaks);
\* events_ maps a number to the object that has it, never to an earlier owner,
\* and what is open is registered, except for an acceptor that was stopped.
\* Excepted: after Open has closed a listener that was still in events_, the
\* entry stays, and whoever gets the number is not registered.
TablesAgree == TypeOK /\ Owned(desc, fd) /\ (reopened \/ Mapped(desc, fd))

\* Every accepted connection is announced once and reported destroyed once, in
\* this order, whoever closes it first: peer, user, idle entry; in between, and
\* only then, the server holds it.
ReportedOnce ==
  \A p \in Peers :
    /\ told[p] \in {<<>>, <<"new">>, <<"new", "destroy">>}
    /\ p \in connections <=> told[p] = <<"new">>
    /\ closed[p] <=> told[p] = <<"new", "destroy">>

\* What makes both so, as an inductive invariant.  A peer has a descriptor from
\* its accept to its close, and has been told of accordingly; who waits in the
\* backlog is not accepted yet; a client has none before Connect and after its
\* close, which closed_ and status_ agree about.
PeersInv ==
  \A p \in Peers :
    /\ link[p] \in {"away", "backlog", "left", "refused"} <=> told[p] = <<>>
    /\ link[p] \in {"up", "fin"} <=> told[p] = <<"new">>
    /\ fd[p] # 0 <=> told[p] = <<"new">>
BacklogInv == \A i \in DOMAIN backlog : Waiting(backlog[i])
ClientsInv ==
  \A c \in Clients :
    /\ status[c] = "init" => fd[c] = 0 /\ link[c] = "away"
    /\ closed[c] <=> status[c] = "disconnected"
    /\ closed[c] => fd[c] = 0
Inv == /\ TablesAgree /\ ReportedOnce
       /\ PeersInv /\ BacklogInv /\ ClientsInv
       /\ opens <= calls

\* The owner's last call is Stop.
Stopped == calls > 0 /\ OwnerProgram[calls] = "stop"

\* Nobody is left waiting: a peer in the backlog is accepted or reset, and what
\* a peer or server sends is read, unless the connection is closed.  Excepted:
\* a stopped server, whose socket goes on listening; one that was started again
\* after a Stop that came before its Open, whose listener is never watched
\* (reopened); a client whose connect ended in a report of data.
Waits(o) == Waiting(o) \/ unread[o] > 0
NobodyWaits ==
  \A o \in Peers \cup Clients :
    Waits(o) ~> ~Waits(o) \/ Stopped \/ reopened \/ o \in missed

\* A connect gets an outcome: connected or closed.  Excepted: a refused one,
\* whose error the loop takes before CheckError could see it.
ConnectEnds ==
  \A c \in Clients : status[c] = "connecting" ~>
    status[c] # "connecting" \/ link[c] = "refused"

=============================================================================
