---------------------------- MODULE Descriptors -----------------------------
(***************************************************************************)
(* The descriptors of a process with one event loop, as that loop sees     *)
(* them: the kernel's table of open descriptors, epoll's interest and      *)
(* ready lists, and events_ (src/tmms/network/net/eventloop.cpp:102-184),  *)
(* which maps a descriptor NUMBER to the Event it was registered for.      *)
(* Numbers are used again as soon as they are free, lowest first; the      *)
(* three tables therefore stay in step only if every handler registers,    *)
(* unregisters and closes in the right order.                              *)
(*                                                                         *)
(* An operator takes the state d of the tables and returns the next one,   *)
(* so that a handler can call several of them in its order.  Descriptor 0  *)
(* stands for the code's -1.                                               *)
(***************************************************************************)
EXTENDS Integers

CONSTANTS MaxFd,  \* limit on open descriptors (EMFILE beyond it)
          None    \* no object

ASSUME MaxFdAssumption == MaxFd \in Nat \ {0}

Fds == 1..MaxFd

NoDescriptors ==
  [owner   |-> [f \in Fds |-> None],  \* whose open descriptor f is
   watched |-> {},                    \* f is in epoll's interest list
   wants   |-> {},                    \*   ... also for EPOLLOUT
   ready   |-> {},                    \* f is on epoll's ready list (EPOLLET)
   table   |-> [f \in Fds |-> None]]  \* events_

Tables(Obj) == [owner : [Fds -> Obj \cup {None}], watched : SUBSET Fds,
                wants : SUBSET Fds, ready : SUBSET Fds,
                table : [Fds -> Obj \cup {None}]]

FreeFds(d) == {f \in Fds : d.owner[f] = None}
Lowest(S) == CHOOSE f \in S : \A g \in S : f <= g

\* socket and accept4 take the lowest free number.
Opened(d, f, o) == [d EXCEPT !.owner[f] = o]

\* epoll forgets a descriptor: EPOLL_CTL_DEL, or close of the last reference.
Forget(d, f) == [d EXCEPT !.watched = @ \ {f}, !.wants = @ \ {f},
                          !.ready = @ \ {f}]

\* Event::Close: nothing for -1.  events_ is not touched.
CloseFd(d, f) == IF f = 0 THEN d ELSE [Forget(d, f) EXCEPT !.owner[f] = None]

\* AddEvent: refused, with a log line, while the number has an entry.  on says
\* that a condition holds already, which EPOLL_CTL_ADD then reports.
AddEvent(d, f, o, on) ==
  IF d.table[f] # None
  THEN d
  ELSE [d EXCEPT !.table[f] = o, !.watched = @ \cup {f},
                 !.ready = IF on THEN @ \cup {f} ELSE @]

\* DelEvent: by number; nothing, with a log line, if the number has no entry.
DelEvent(d, f) ==
  IF f = 0 \/ d.table[f] = None THEN d
  ELSE [Forget(d, f) EXCEPT !.table[f] = None]

\* EnableEventWriting(true): EPOLL_CTL_MOD, which reports what holds already.
EnableWriting(d, f, on) ==
  IF d.table[f] = None THEN d
  ELSE [d EXCEPT !.wants = @ \cup {f}, !.ready = IF on THEN @ \cup {f} ELSE @]

\* A condition of the socket of f begins to hold.
Wake(d, f) == IF f \in d.watched THEN [d EXCEPT !.ready = @ \cup {f}] ELSE d
=============================================================================
