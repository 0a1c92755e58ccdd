----------------------------- MODULE EventLoop ------------------------------
(***************************************************************************)
(* The event loops of src/tmms/network/net/eventloop.cpp and their wake-up *)
(* pipe (PipeEvent, event.cpp): the cross-thread hand-over of tasks.       *)
(*                                                                         *)
(* A loop is identified with the thread that runs its loop().  Client      *)
(* threads, and loop threads on behalf of the handlers and tasks they run, *)
(* call RunInLoop(x) on x's home loop.  A task is abstracted to the        *)
(* RunInLoop calls its body makes (Posts).  Tasks of a RunFunctions batch  *)
(* run while lock_ is held, exactly as in the code.                        *)
(*                                                                         *)
(* The kernel side is external: the non-blocking pipe holds at most        *)
(* PipeCap 8-byte tokens, and an edge-triggered registration (kEventRead,  *)
(* event.h:15) reports the pipe once after each successful write.          *)
(*                                                                         *)
(* Operators named Bug... are deliberately wrong variants of the operator  *)
(* that follows them; no specification uses them.  They show that the      *)
(* properties at the end of the module can fail.                           *)
(***************************************************************************)
EXTENDS Integers, Sequences

CONSTANTS Clients,  \* threads that run no loop
          Loops,    \* event loops, and the threads that run them
          Tasks,    \* functions handed to RunInLoop
          Home,     \* Home[x]: the loop on which RunInLoop(x) is called
          Posts,    \* Posts[x]: the RunInLoop calls x makes when it runs
          Calls,    \* Calls[t]: the calls of a client, or those the fd and
                    \* timer callbacks of a loop thread make, in order
          Quits,    \* the pairs <<c, l>> such that c finally calls l.Quit()
          PipeCap,  \* capacity of the pipe in 8-byte tokens (Linux: 8192)
          NoThread  \* "nobody holds the mutex"

Threads == Clients \cup Loops

ASSUME ThreadsAssumption == /\ Clients \cap Loops = {}
                            /\ NoThread \notin Threads
ASSUME WorkAssumption == /\ Home \in [Tasks -> Loops]
                         /\ Posts \in [Tasks -> Seq(Tasks)]
                         /\ Calls \in [Threads -> Seq(Tasks)]
                         /\ Quits \subseteq Clients \X Loops
ASSUME PipeAssumption == PipeCap \in Nat \ {0}

VARIABLES
  looping,    \* looping_, written by other threads without a lock
  pc,         \* where the thread of a loop stands in loop()
  batch,      \* the part of epoll_events_ still to be dispatched
  lock,       \* the holder of lock_
  functions,  \* functions_
  pipeMade,   \* pipe_event_ has been created
  tokens,     \* 8-byte tokens in the pipe
  edge,       \* a write to the pipe has not been reported by epoll_wait yet
  todo,       \* the RunInLoop calls the running client, task or callback
              \* of a thread still has to make
  sub,        \* where a thread stands inside such a call
  callbacks,  \* callback activations of a loop still to come
  quits,      \* Quit calls still to come
  ran         \* history: the tasks a loop has begun, in order

lockVars == <<lock, functions>>
pipeVars == <<pipeMade, tokens, edge>>
loopVars == <<looping, pc, batch>>
vars == <<looping, pc, batch, lock, functions, pipeMade, tokens, edge,
          todo, sub, callbacks, quits, ran>>

TypeOK ==
  /\ looping \in [Loops -> BOOLEAN]
  /\ pc \in [Loops -> {"init", "check", "wait", "dispatch", "run", "task",
                       "timer", "exited"}]
  /\ batch \in [Loops -> SUBSET {"pipe", "socket"}]
  /\ lock \in [Loops -> Threads \cup {NoThread}]
  /\ functions \in [Loops -> Seq(Tasks)]
  /\ pipeMade \in [Loops -> BOOLEAN]
  /\ tokens \in [Loops -> 0..PipeCap]
  /\ edge \in [Loops -> BOOLEAN]
  /\ todo \in [Threads -> Seq(Tasks)]
  /\ sub \in [Threads -> {"out", "pushed", "adding"}]
  /\ callbacks \in [Loops -> Seq(Tasks)]
  /\ quits \subseteq Clients \X Loops
  /\ ran \in [Loops -> Seq(Tasks)]

Init ==
  /\ looping = [l \in Loops |-> FALSE]
  /\ pc = [l \in Loops |-> "init"]
  /\ batch = [l \in Loops |-> {}]
  /\ lock = [l \in Loops |-> NoThread]
  /\ functions = [l \in Loops |-> <<>>]
  /\ pipeMade = [l \in Loops |-> FALSE]
  /\ tokens = [l \in Loops |-> 0]
  /\ edge = [l \in Loops |-> FALSE]
  /\ todo = [t \in Threads |-> IF t \in Clients THEN Calls[t] ELSE <<>>]
  /\ sub = [t \in Threads |-> "out"]
  /\ callbacks = [l \in Loops |-> Calls[l]]
  /\ quits = Quits
  /\ ran = [l \in Loops |-> <<>>]

-----------------------------------------------------------------------------
(* RunInLoop, called by thread t with the first task of todo[t].           *)

IsInLoopThread(t, l) == t = l

\* The caller is the loop's own thread: f() is called on the spot, and its
\* own calls come before those the caller still has to make.
RunDirect(t, x) ==
  /\ todo[t] # <<>> /\ x = Head(todo[t])
  /\ IsInLoopThread(t, Home[x])
  /\ ran' = [ran EXCEPT ![Home[x]] = Append(@, x)]
  /\ todo' = [todo EXCEPT ![t] = Posts[x] \o Tail(@)]
  /\ UNCHANGED <<loopVars, lockVars, pipeVars, sub, callbacks, quits>>

\* The caller is another thread: lock_guard lk(lock_); functions_.push(f).
PushLocked(t, x) ==
  /\ todo[t] # <<>> /\ x = Head(todo[t])
  /\ sub[t] = "out"
  /\ ~IsInLoopThread(t, Home[x])
  /\ lock[Home[x]] = NoThread
  /\ lock' = [lock EXCEPT ![Home[x]] = t]
  /\ functions' = [functions EXCEPT ![Home[x]] = Append(@, x)]
  /\ sub' = [sub EXCEPT ![t] = "pushed"]
  /\ UNCHANGED <<loopVars, pipeVars, todo, callbacks, quits, ran>>

\* WakeUp, first use: create the pipe and enter AddEvent, in the caller's
\* thread.
CreatePipe(t, l) ==
  /\ sub[t] = "pushed" /\ l = Home[Head(todo[t])]
  /\ ~pipeMade[l]
  /\ pipeMade' = [pipeMade EXCEPT ![l] = TRUE]
  /\ sub' = [sub EXCEPT ![t] = "adding"]
  /\ UNCHANGED <<loopVars, lockVars, tokens, edge, todo, callbacks, quits, ran>>

\* PipeEvent::Write: a full non-blocking pipe refuses the token, the result
\* of write() is ignored, and no edge arises.
PipeWrite(l) ==
  IF tokens[l] < PipeCap
  THEN /\ tokens' = [tokens EXCEPT ![l] = @ + 1]
       /\ edge' = [edge EXCEPT ![l] = TRUE]
  ELSE UNCHANGED <<tokens, edge>>

\* The rest of WakeUp, and the end of the lock_guard's scope.
WakeUp(t, l) ==
  /\ sub[t] # "out" /\ l = Home[Head(todo[t])]
  /\ pipeMade[l]
  /\ PipeWrite(l)
  /\ lock' = [lock EXCEPT ![l] = NoThread]
  /\ sub' = [sub EXCEPT ![t] = "out"]
  /\ todo' = [todo EXCEPT ![t] = Tail(@)]
  /\ UNCHANGED <<loopVars, functions, pipeMade, callbacks, quits, ran>>

\* Quit sets a plain bool and wakes nobody.
Quit(c, l) ==
  /\ <<c, l>> \in quits /\ todo[c] = <<>>
  /\ quits' = quits \ {<<c, l>>}
  /\ looping' = [looping EXCEPT ![l] = FALSE]
  /\ UNCHANGED <<pc, batch, lockVars, pipeVars, todo, sub, callbacks, ran>>

-----------------------------------------------------------------------------
(* loop(), executed by the thread of l.                                    *)

Enter(l) ==
  /\ pc[l] = "init"
  /\ looping' = [looping EXCEPT ![l] = TRUE]
  /\ pc' = [pc EXCEPT ![l] = "check"]
  /\ UNCHANGED <<batch, lockVars, pipeVars, todo, sub, callbacks, quits, ran>>

\* while (true).
BugCheckLooping(l) ==
  /\ pc[l] = "check"
  /\ pc' = [pc EXCEPT ![l] = "wait"]
  /\ UNCHANGED <<looping, batch, lockVars, pipeVars, todo, sub, callbacks,
                 quits, ran>>

CheckLooping(l) ==
  /\ pc[l] = "check"
  /\ pc' = [pc EXCEPT ![l] = IF looping[l] THEN "wait" ELSE "exited"]
  /\ UNCHANGED <<looping, batch, lockVars, pipeVars, todo, sub, callbacks,
                 quits, ran>>

\* epoll_wait reports every descriptor that is ready: the pipe if a write
\* has not been reported, and possibly sockets.
PollReturn(l, sockets) ==
  /\ pc[l] = "wait"
  /\ sockets \in IF callbacks[l] = <<>> THEN {{}} ELSE {{}, {"socket"}}
  /\ batch' = [batch EXCEPT ![l] = sockets \cup IF edge[l] THEN {"pipe"} ELSE {}]
  /\ edge' = [edge EXCEPT ![l] = FALSE]
  /\ pc' = [pc EXCEPT ![l] = "dispatch"]
  /\ UNCHANGED <<looping, lockVars, pipeMade, tokens, todo, sub, callbacks,
                 quits, ran>>

PollPipe(l) == edge[l] /\ \E s \in {{}, {"socket"}} : PollReturn(l, s)

PollSocket(l) == ~edge[l] /\ PollReturn(l, {"socket"})

\* Nothing was ready for a whole second.
PollTimeout(l) == ~edge[l] /\ PollReturn(l, {})

\* ret < 0: neither the task queue nor the timers are looked at.
PollError(l) ==
  /\ pc[l] = "wait"
  /\ pc' = [pc EXCEPT ![l] = "check"]
  /\ UNCHANGED <<looping, batch, lockVars, pipeVars, todo, sub, callbacks,
                 quits, ran>>

\* OnRead does not read.
BugDispatchNoRead(l) ==
  /\ pc[l] = "dispatch" /\ todo[l] = <<>>
  /\ "pipe" \in batch[l]
  /\ batch' = [batch EXCEPT ![l] = @ \ {"pipe"}]
  /\ UNCHANGED <<looping, pc, lockVars, pipeVars, todo, sub, callbacks, quits,
                 ran>>

\* PipeEvent::OnRead takes one token however many there are.
DispatchPipe(l) ==
  /\ pc[l] = "dispatch" /\ todo[l] = <<>>
  /\ "pipe" \in batch[l]
  /\ batch' = [batch EXCEPT ![l] = @ \ {"pipe"}]
  /\ tokens' = [tokens EXCEPT ![l] = IF @ > 0 THEN @ - 1 ELSE @]
  /\ UNCHANGED <<looping, pc, lockVars, pipeMade, edge, todo, sub, callbacks,
                 quits, ran>>

\* Another event's OnRead, OnWrite, OnClose or OnError.
DispatchSocket(l) ==
  /\ pc[l] = "dispatch" /\ todo[l] = <<>>
  /\ "socket" \in batch[l] /\ callbacks[l] # <<>>
  /\ batch' = [batch EXCEPT ![l] = @ \ {"socket"}]
  /\ todo' = [todo EXCEPT ![l] = <<Head(callbacks[l])>>]
  /\ callbacks' = [callbacks EXCEPT ![l] = Tail(@)]
  /\ UNCHANGED <<looping, pc, lockVars, pipeVars, sub, quits, ran>>

\* RunFunctions without its lock_guard.
BugBeginUnlocked(l) ==
  /\ pc[l] = "dispatch" /\ todo[l] = <<>> /\ batch[l] = {}
  /\ pc' = [pc EXCEPT ![l] = "run"]
  /\ UNCHANGED <<looping, batch, lockVars, pipeVars, todo, sub, callbacks,
                 quits, ran>>

\* RunFunctions takes the lock once the batch has been dispatched.
BeginFunctions(l) ==
  /\ pc[l] = "dispatch" /\ todo[l] = <<>> /\ batch[l] = {}
  /\ lock[l] = NoThread
  /\ lock' = [lock EXCEPT ![l] = l]
  /\ pc' = [pc EXCEPT ![l] = "run"]
  /\ UNCHANGED <<looping, batch, functions, pipeVars, todo, sub, callbacks,
                 quits, ran>>

\* f = functions_.front(); f(): the task stays queued while it runs.
CallFront(l) ==
  /\ pc[l] = "run" /\ functions[l] # <<>>
  /\ ran' = [ran EXCEPT ![l] = Append(@, Head(functions[l]))]
  /\ todo' = [todo EXCEPT ![l] = Posts[Head(functions[l])]]
  /\ pc' = [pc EXCEPT ![l] = "task"]
  /\ UNCHANGED <<looping, batch, lockVars, pipeVars, sub, callbacks, quits>>

\* The queue is emptied instead of popped.
BugPopAll(l) ==
  /\ pc[l] = "task" /\ todo[l] = <<>>
  /\ functions' = [functions EXCEPT ![l] = <<>>]
  /\ pc' = [pc EXCEPT ![l] = "run"]
  /\ UNCHANGED <<looping, batch, lock, pipeVars, todo, sub, callbacks, quits,
                 ran>>

PopFront(l) ==
  /\ pc[l] = "task" /\ todo[l] = <<>>
  /\ functions' = [functions EXCEPT ![l] = Tail(@)]
  /\ pc' = [pc EXCEPT ![l] = "run"]
  /\ UNCHANGED <<looping, batch, lock, pipeVars, todo, sub, callbacks, quits,
                 ran>>

\* The pipe is drained as well, now that the queue is empty.
BugEndDrains(l) ==
  /\ pc[l] = "run" /\ functions[l] = <<>>
  /\ lock' = [lock EXCEPT ![l] = NoThread]
  /\ tokens' = [tokens EXCEPT ![l] = 0]
  /\ pc' = [pc EXCEPT ![l] = "timer"]
  /\ UNCHANGED <<looping, batch, functions, pipeMade, edge, todo, sub, callbacks,
                 quits, ran>>

EndFunctions(l) ==
  /\ pc[l] = "run" /\ functions[l] = <<>>
  /\ lock' = [lock EXCEPT ![l] = NoThread]
  /\ pc' = [pc EXCEPT ![l] = "timer"]
  /\ UNCHANGED <<looping, batch, functions, pipeVars, todo, sub, callbacks,
                 quits, ran>>

\* timingWheel_.OnTimer: due callbacks run without the lock.
TimerCallback(l) ==
  /\ pc[l] = "timer" /\ todo[l] = <<>> /\ callbacks[l] # <<>>
  /\ todo' = [todo EXCEPT ![l] = <<Head(callbacks[l])>>]
  /\ callbacks' = [callbacks EXCEPT ![l] = Tail(@)]
  /\ UNCHANGED <<loopVars, lockVars, pipeVars, sub, quits, ran>>

EndTimer(l) ==
  /\ pc[l] = "timer" /\ todo[l] = <<>>
  /\ pc' = [pc EXCEPT ![l] = "check"]
  /\ UNCHANGED <<looping, batch, lockVars, pipeVars, todo, sub, callbacks,
                 quits, ran>>

-----------------------------------------------------------------------------
RunInLoop(t) == \/ \E x \in Tasks : RunDirect(t, x) \/ PushLocked(t, x)
                \/ \E l \in Loops : CreatePipe(t, l) \/ WakeUp(t, l)

LoopBody(l) == \/ Enter(l) \/ CheckLooping(l)
               \/ DispatchPipe(l) \/ DispatchSocket(l)
               \/ BeginFunctions(l) \/ CallFront(l) \/ PopFront(l)
               \/ EndFunctions(l) \/ EndTimer(l)

Next == \/ \E t \in Threads : RunInLoop(t)
        \/ \E l \in Loops : LoopBody(l) \/ PollPipe(l) \/ PollSocket(l)
                            \/ PollTimeout(l) \/ PollError(l)
                            \/ TimerCallback(l)
        \/ \E c \in Clients, l \in Loops : Quit(c, l)

Spec == Init /\ [][Next]_vars

(***************************************************************************)
(* A thread takes its next step if it can do so again and again: the       *)
(* scheduler runs it, and a mutex that is released for ever more is        *)
(* granted (a thread waiting for a mutex has no other step).  epoll_wait   *)
(* reports the pipe if it is ready again and again: it does not fail for   *)
(* ever.  Quit, sockets and timer callbacks happen or do not.  The         *)
(* one-second timeout of epoll_wait is not part of FairSpec: under it a    *)
(* loop is woken by its pipe or not at all.                                *)
(***************************************************************************)
FairSpec == /\ Spec
            /\ \A c \in Clients : SF_vars(RunInLoop(c))
            /\ \A l \in Loops : SF_vars(RunInLoop(l) \/ LoopBody(l))
            /\ \A l \in Loops : SF_vars(PollPipe(l))
Timeouts == \A l \in Loops : SF_vars(PollPipe(l) \/ PollTimeout(l))

-----------------------------------------------------------------------------
(* Properties                                                              *)

\* Handed over to l and not begun: the running task is still functions_'s
\* front.
Pending(l) == IF pc[l] = "task" THEN Tail(functions[l]) ELSE functions[l]

\* The inductive invariant behind the safety properties below; EventLoopProofs
\* proves it.  A call in progress concerns another thread's loop, tasks and
\* callbacks run only where the loop lets them, and the front of functions_
\* stays in place while it runs.
ControlInv ==
  /\ \A t \in Threads :
       sub[t] # "out" => todo[t] # <<>> /\ Home[Head(todo[t])] # t
  /\ \A l \in Loops :
       /\ pc[l] \notin {"dispatch", "task", "timer"} => todo[l] = <<>>
       /\ pc[l] = "task" => functions[l] # <<>>
       /\ pc[l] # "dispatch" => batch[l] = {}

\* lock_ is held exactly by the loop thread inside RunFunctions or by a caller
\* inside RunInLoop.
Inside(t, l) == \/ t = l /\ pc[l] \in {"run", "task"}
                \/ sub[t] # "out" /\ Home[Head(todo[t])] = l
LockInv == \A l \in Loops, t \in Threads : lock[l] = t <=> Inside(t, l)

\* A pipe report, still in the kernel or already in the batch, stands for a
\* token, and a full pipe has such a report.
PipeInv ==
  \A l \in Loops :
    /\ edge[l] => tokens[l] > 0
    /\ "pipe" \in batch[l] => tokens[l] > 0
    /\ edge[l] /\ "pipe" \in batch[l] => tokens[l] > 1
    /\ tokens[l] = PipeCap => edge[l] \/ "pipe" \in batch[l]

\* Outside the stretch from dispatch to the end of RunFunctions a queued task
\* has a submitter about to wake the loop, or a report to come.
WakeInv ==
  \A l \in Loops :
    (/\ pc[l] \notin {"dispatch", "run", "task"}
     /\ functions[l] # <<>>
     /\ lock[l] = NoThread) => edge[l]

Inv == TypeOK /\ ControlInv /\ LockInv /\ PipeInv /\ WakeInv

\* A queued task is never slept over: when a loop is in epoll_wait and the
\* submitter has left RunInLoop, epoll_wait will report the pipe.  It holds
\* although OnRead leaves tokens behind and a full pipe refuses the token
\* (RunInLoop, WakeUp, RunFunctions; "wakes the loop", eventloop.h:51).
NoLostWakeup ==
  \A l \in Loops :
    (pc[l] = "wait" /\ functions[l] # <<>> /\ lock[l] = NoThread) => edge[l]

\* PipeEvent::OnRead never meets an empty pipe, although writes coalesce into
\* one report and each report reads one token (event.cpp:79-88).
ReadFindsToken ==
  \A l \in Loops : (pc[l] = "dispatch" /\ "pipe" \in batch[l]) => tokens[l] > 0

Done(x) == \E i \in DOMAIN ran[Home[x]] : ran[Home[x]][i] = x

\* x is the next RunInLoop call of some thread.
Called(x) == \E t \in Threads : todo[t] # <<>> /\ Head(todo[t]) = x

\* RunInLoop returns and its task is executed, unless the loop has left loop()
\* (comment eventloop.cpp:228-232): the pipe alone wakes the loop for every
\* hand-over, also when it was full and the token was dropped.
CallIsExecuted ==
  \A x \in Tasks : Called(x) ~> (Done(x) \/ pc[Home[x]] = "exited")

\* After Quit a loop that has entered loop() leaves it; nobody wakes it, so this
\* takes the timeout of epoll_wait.
QuitEndsLoop ==
  Timeouts => \A l \in Loops :
                (pc[l] # "init" /\ ~looping[l]) ~> (pc[l] = "exited")

\* The loops implement the task executor.
Executor == INSTANCE TaskExecutor
              WITH queue <- [l \in Loops |-> Pending(l)]
ImplementsExecutor == Executor!ASpec
=============================================================================
