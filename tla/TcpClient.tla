----------------------------- MODULE TcpClient ------------------------------
(***************************************************************************)
(* TcpClient (src/tmms/network/net/tcpclient.cpp): the connect state       *)
(* machine on top of TcpConnection, in one loop with a TcpServer, as in a  *)
(* server that pulls from another one.                                     *)
(***************************************************************************)
EXTENDS TcpServer

CONSTANTS ConnectAt  \* where user code calls Connect in the loop's thread:
                     \* subset of {"tasks", "message"}

ASSUME ConnectAssumption == ConnectAt \subseteq {"tasks", "message"}

VARIABLES status,  \* status_
          errors,  \* clients whose socket has an error pending (SO_ERROR)
          missed   \* history: clients whose connecting ended in a report of
                   \* data, which was not read
clientVars == <<status, errors, missed>>

ClientTypeOK ==
  /\ status \in [Clients -> {"init", "connecting", "connected", "disconnected"}]
  /\ errors \subseteq Clients /\ missed \subseteq Clients

ClientInit == /\ status = [c \in Clients |-> "init"]
              /\ errors = {} /\ missed = {}

-----------------------------------------------------------------------------
(* External: the outcome of a connect that is in progress.                 *)

ConnectOutcome(c) ==
  /\ link[c] = "syn"
  /\ \/ /\ link' = [link EXCEPT ![c] = "up"]
        /\ UNCHANGED errors
     \/ /\ link' = [link EXCEPT ![c] = "refused"]
        /\ errors' = errors \cup {c}
  /\ desc' = Wake(desc, fd[c])
  /\ UNCHANGED <<fd, closed, unread, still, backlog, loopVars, serverVars, ownerVars,
                 status, missed>>

-----------------------------------------------------------------------------
(* ConnectInLoop.                                                          *)

\* No descriptor: OnClose, with closed_ and close_cb_ but nothing to close.
ConnectFails(c) ==
  /\ FreeFds(desc) = {}
  /\ status' = [status EXCEPT ![c] = "disconnected"]
  /\ closed' = [closed EXCEPT ![c] = TRUE]
  /\ UNCHANGED <<desc, fd, link>>

\* The new socket is registered for reading and writing, then connect is
\* called: established at once, in progress, or failed at once, which closes.
ConnectStarts(c) ==
  LET f == Lowest(FreeFds(desc))
      d == EnableWriting(AddEvent(Opened(desc, f, c), f, c, FALSE), f, FALSE)
  IN  /\ FreeFds(desc) # {}
      /\ \/ /\ link' = [link EXCEPT ![c] = "up"]
            /\ status' = [status EXCEPT ![c] = "connected"]
            /\ desc' = Wake(d, f) /\ fd' = [fd EXCEPT ![c] = f]
            /\ UNCHANGED closed
         \/ /\ link' = [link EXCEPT ![c] = "syn"]
            /\ status' = [status EXCEPT ![c] = "connecting"]
            /\ desc' = d /\ fd' = [fd EXCEPT ![c] = f]
            /\ UNCHANGED closed
         \/ /\ link' = [link EXCEPT ![c] = "gone"]
            /\ status' = [status EXCEPT ![c] = "disconnected"]
            /\ desc' = CloseFd(DelEvent(d, f), f)
            /\ closed' = [closed EXCEPT ![c] = TRUE]
            /\ UNCHANGED fd

Connect(c) ==
  /\ pc \in ConnectAt /\ status[c] = "init"
  /\ ConnectFails(c) \/ ConnectStarts(c)
  /\ UNCHANGED <<unread, still, backlog, loopVars, serverVars, ownerVars, errors,
                 missed>>

-----------------------------------------------------------------------------
(* Reports.                                                                *)

\* OnClose; nothing more once closed_.
ClientOnClose(c) ==
  /\ status' = [status EXCEPT ![c] = "disconnected"]
  /\ closed' = [closed EXCEPT ![c] = TRUE]
  /\ LET d == IF status[c] \in {"connecting", "connected"}
              THEN DelEvent(desc, fd[c]) ELSE desc
     IN  desc' = IF closed[c] THEN d ELSE CloseFd(d, fd[c])
  /\ fd' = [fd EXCEPT ![c] = IF closed[c] THEN @ ELSE 0]
  /\ link' = [link EXCEPT ![c] = "gone"]
  /\ unread' = [unread EXCEPT ![c] = 0]
  /\ errors' = errors \ {c}

\* EPOLLERR: the loop's getsockopt takes the error, OnError logs it.
ClientError ==
  /\ \E e \in batch :
       LET c == desc.table[e[1]]
       IN  /\ c \in Clients /\ "ERR" \in e[2]
           /\ Take(e, "dispatch")
           /\ errors' = errors \ {c}
  /\ UNCHANGED <<desc, fd, closed, kernelVars, cur, opens, serverVars, ownerVars,
                 status, missed>>

\* OnWrite does not look at the state, only OnRead does.
BugClientConnecting ==
  /\ \E e \in batch :
       LET c == desc.table[e[1]]
       IN  /\ c \in Clients /\ "ERR" \notin e[2] /\ status[c] = "connecting"
           /\ Take(e, "dispatch")
           /\ status' = [status EXCEPT ![c] =
                           IF "IN" \in e[2] THEN "connected" ELSE @]
  /\ UNCHANGED <<desc, fd, closed, kernelVars, cur, opens, serverVars, ownerVars,
                 errors, missed>>
\* OnRead or OnWrite while connecting: CheckError asks for the socket's error,
\* and no error is taken for an established connection.
ClientConnecting ==
  /\ \E e \in batch :
       LET c == desc.table[e[1]]
       IN  /\ c \in Clients /\ "ERR" \notin e[2] /\ status[c] = "connecting"
           /\ Take(e, "dispatch")
           /\ IF c \in errors
              THEN ClientOnClose(c) /\ UNCHANGED missed
              ELSE /\ status' = [status EXCEPT ![c] = "connected"]
                   /\ missed' = IF "IN" \in e[2] THEN missed \cup {c} ELSE missed
                   /\ UNCHANGED <<desc, fd, closed, link, unread, errors>>
  /\ UNCHANGED <<still, backlog, cur, opens, serverVars, ownerVars>>

\* OnRead once connected is TcpConnection's; other reports do nothing.
ClientDispatch ==
  /\ \E e \in batch :
       LET c == desc.table[e[1]]
       IN  /\ c \in Clients /\ "ERR" \notin e[2] /\ status[c] # "connecting"
           /\ IF "IN" \in e[2] /\ status[c] = "connected" /\ ~closed[c]
              THEN Take(e, "read") /\ cur' = c
              ELSE Take(e, "dispatch") /\ UNCHANGED cur
  /\ UNCHANGED <<desc, fd, closed, kernelVars, opens, serverVars, ownerVars,
                 clientVars>>

\* The end of TcpConnection::OnRead, with TcpClient's OnClose.
ClientReadEnd ==
  /\ pc = "read" /\ cur \in Clients /\ unread[cur] = 0
  /\ IF link[cur] \in {"fin", "gone"}
     THEN ClientOnClose(cur)
     ELSE UNCHANGED <<desc, fd, closed, link, unread, status, errors>>
  /\ Return
  /\ UNCHANGED <<still, backlog, batch, opens, serverVars, ownerVars, missed>>

\* ForceClose of the client by user code in the loop.
ClientClose(c) ==
  /\ InUserCode /\ status[c] # "init"
  /\ ClientOnClose(c)
  /\ UNCHANGED <<still, backlog, loopVars, serverVars, ownerVars, missed>>
=============================================================================
