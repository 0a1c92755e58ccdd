-------------------------- MODULE MCTcpConnection ---------------------------
(* Small instances of TcpConnection: what the user sends, and how much of it *)
(* fits into the kernel's send buffer.                                       *)
EXTENDS TcpConnection

\* Direct writes that complete, that are cut short or find no space at all, and
\* queued lists.
MixedProgram == <<[kind |-> "buf", size |-> 3], [kind |-> "buf", size |-> 2],
                  [kind |-> "list", size |-> 3]>>

OneList == <<[kind |-> "list", size |-> 2]>>
=============================================================================
