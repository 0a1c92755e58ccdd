---------------------------- MODULE TaskExecutor ----------------------------
(***************************************************************************)
(* What EventLoop::RunInLoop promises (comment eventloop.cpp:228-233): a   *)
(* task is executed by the thread of its own loop, one at a time, tasks    *)
(* handed over from other threads in the order they were handed over, and  *)
(* a task handed over by the loop thread itself at once.  Nothing here     *)
(* speaks of locks, pipes or epoll.                                        *)
(***************************************************************************)
EXTENDS Sequences

CONSTANTS Loops,    \* the event loops, each identified with its thread
          Tasks,    \* the functions handed to RunInLoop
          Home      \* Home[x] is the loop whose RunInLoop is called with x

VARIABLES queue,    \* queue[l]: handed over, not yet begun
          ran       \* ran[l]: begun by the thread of l, in that order

avars == <<queue, ran>>

AInit == /\ queue = [l \in Loops |-> <<>>]
         /\ ran = [l \in Loops |-> <<>>]

\* Another thread hands x over to its home loop.
Submit(x) == /\ queue' = [queue EXCEPT ![Home[x]] = Append(@, x)]
             /\ UNCHANGED ran

\* Loop l begins the oldest task that is waiting.
ExecOldest(l) == /\ queue[l] # <<>>
                 /\ ran' = [ran EXCEPT ![l] = Append(@, Head(queue[l]))]
                 /\ queue' = [queue EXCEPT ![l] = Tail(@)]

\* The thread of x's home loop hands x over: x is begun at once.
ExecInline(x) == /\ ran' = [ran EXCEPT ![Home[x]] = Append(@, x)]
                 /\ UNCHANGED queue

ANext == \/ \E x \in Tasks : Submit(x) \/ ExecInline(x)
         \/ \E l \in Loops : ExecOldest(l)

ASpec == AInit /\ [][ANext]_avars
=============================================================================
