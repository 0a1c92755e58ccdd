-------------------------- MODULE EventLoopProofs ---------------------------
(* Theorems about EventLoop, for any number of threads, loops and tasks and *)
(* any pipe capacity.                                                       *)
EXTENDS EventLoop, TLAPS

\* What RunDirect leaves to do: the calls of a task in front of the caller's.
LEMMA PrefixedTail ==
  ASSUME NEW S, NEW s \in Seq(S), s # <<>>, NEW p \in Seq(S)
  PROVE  p \o Tail(s) \in Seq(S)
OBVIOUS

\* A queue is not empty after a push.
LEMMA AppendNonEmpty == \A q \in Seq(Tasks), x \in Tasks : Append(q, x) # <<>>
<1> TAKE q \in Seq(Tasks), x \in Tasks
<1>1. Len(Append(q, x)) = Len(q) + 1 /\ Len(q) \in Nat
  OBVIOUS
<1>2. Len(Append(q, x)) # 0
  BY <1>1
<1>3. Len(<<>>) = 0
  OBVIOUS
<1> QED BY <1>2, <1>3

(***************************************************************************)
(* Every variable keeps its type: no sequence operation of the loop is     *)
(* applied to an empty queue and the pipe never exceeds its capacity.      *)
(***************************************************************************)
LEMMA TypeStep == TypeOK /\ ControlInv /\ [Next]_vars => TypeOK'
<1> SUFFICES ASSUME TypeOK, ControlInv, [Next]_vars PROVE TypeOK'
  OBVIOUS
<1>0. /\ Loops \subseteq Threads
      /\ Clients \subseteq Threads
  BY DEF Threads
<1> USE <1>0, WorkAssumption, PipeAssumption
<1> USE DEF TypeOK, lockVars, pipeVars, loopVars
<1>1. ASSUME NEW t \in Threads, NEW x \in Tasks, RunDirect(t, x) PROVE TypeOK'
  <2>1. Posts[x] \o Tail(todo[t]) \in Seq(Tasks)
    BY <1>1, PrefixedTail DEF RunDirect
  <2>2. todo' \in [Threads -> Seq(Tasks)]
    BY <1>1, <2>1 DEF RunDirect
  <2>3. ran' \in [Loops -> Seq(Tasks)]
    <3>1. Append(ran[Home[x]], x) \in Seq(Tasks)
      OBVIOUS
    <3> QED BY <1>1, <3>1 DEF RunDirect
  <2> QED BY <1>1, <2>2, <2>3 DEF RunDirect
<1>2. ASSUME NEW t \in Threads, NEW x \in Tasks, PushLocked(t, x) PROVE TypeOK'
  <2>1. Append(functions[Home[x]], x) \in Seq(Tasks)
    OBVIOUS
  <2>2. functions' \in [Loops -> Seq(Tasks)]
    BY <1>2, <2>1 DEF PushLocked
  <2> QED BY <1>2, <2>2 DEF PushLocked
<1>3. ASSUME NEW t \in Threads, NEW l \in Loops, CreatePipe(t, l) PROVE TypeOK'
  BY <1>3 DEF CreatePipe
<1>4. ASSUME NEW t \in Threads, NEW l \in Loops, WakeUp(t, l) PROVE TypeOK'
  <2>1. /\ tokens' \in [Loops -> 0..PipeCap]
        /\ edge' \in [Loops -> BOOLEAN]
    <3>1. PipeWrite(l)
      BY <1>4 DEF WakeUp
    <3>2. CASE tokens[l] < PipeCap
      <4>1. tokens[l] + 1 \in 0..PipeCap
        BY <3>2
      <4>2. /\ tokens' = [tokens EXCEPT ![l] = @ + 1]
            /\ edge' = [edge EXCEPT ![l] = TRUE]
        BY <3>1, <3>2 DEF PipeWrite
      <4>3. tokens' \in [Loops -> 0..PipeCap]
        BY <4>1, <4>2
      <4>4. edge' \in [Loops -> BOOLEAN]
        BY <4>2
      <4> QED BY <4>3, <4>4
    <3>3. CASE ~(tokens[l] < PipeCap)
      BY <3>1, <3>3 DEF PipeWrite
    <3> QED BY <3>2, <3>3
  <2>2. todo[t] # <<>>
    BY <1>4 DEF WakeUp, ControlInv
  <2>3. todo' \in [Threads -> Seq(Tasks)]
    BY <1>4, <2>2 DEF WakeUp
  <2> QED BY <1>4, <2>1, <2>3 DEF WakeUp
<1>5. ASSUME NEW l \in Loops, LoopBody(l) PROVE TypeOK'
  <2>1. CASE Enter(l) BY <2>1 DEF Enter
  <2>2. CASE CheckLooping(l) BY <2>2 DEF CheckLooping
  <2>3. CASE DispatchPipe(l)
    <3>1. tokens' \in [Loops -> 0..PipeCap]
      BY <2>3 DEF DispatchPipe
    <3> QED BY <2>3, <3>1 DEF DispatchPipe
  <2>4. CASE DispatchSocket(l)
    <3>1. /\ Head(callbacks[l]) \in Tasks
          /\ Tail(callbacks[l]) \in Seq(Tasks)
      BY <2>4 DEF DispatchSocket
    <3>2. <<Head(callbacks[l])>> \in Seq(Tasks)
      BY <3>1
    <3>3. batch' \in [Loops -> SUBSET {"pipe", "socket"}]
      BY <2>4 DEF DispatchSocket
    <3> QED BY <2>4, <3>1, <3>2, <3>3 DEF DispatchSocket
  <2>5. CASE BeginFunctions(l) BY <2>5 DEF BeginFunctions
  <2>6. CASE CallFront(l)
    <3>1. Head(functions[l]) \in Tasks
      BY <2>6 DEF CallFront
    <3>2. Posts[Head(functions[l])] \in Seq(Tasks)
      BY <3>1
    <3>3. Append(ran[l], Head(functions[l])) \in Seq(Tasks)
      BY <3>1
    <3>4. ran' \in [Loops -> Seq(Tasks)]
      BY <2>6, <3>3 DEF CallFront
    <3>5. todo' \in [Threads -> Seq(Tasks)]
      BY <2>6, <3>2 DEF CallFront
    <3> QED BY <2>6, <3>4, <3>5 DEF CallFront
  <2>7. CASE PopFront(l)
    <3>1. functions[l] # <<>>
      BY <2>7 DEF PopFront, ControlInv
    <3>2. Tail(functions[l]) \in Seq(Tasks)
      BY <3>1
    <3> QED BY <2>7, <3>2 DEF PopFront
  <2>8. CASE EndFunctions(l) BY <2>8 DEF EndFunctions
  <2>9. CASE EndTimer(l) BY <2>9 DEF EndTimer
  <2> QED BY <1>5, <2>1, <2>2, <2>3, <2>4, <2>5, <2>6, <2>7, <2>8, <2>9
          DEF LoopBody
<1>6. ASSUME NEW l \in Loops, NEW s, PollReturn(l, s) PROVE TypeOK'
  BY <1>6 DEF PollReturn
<1>7. ASSUME NEW l \in Loops, PollError(l) PROVE TypeOK'
  BY <1>7 DEF PollError
<1>8. ASSUME NEW l \in Loops, TimerCallback(l) PROVE TypeOK'
  <2>1. /\ Head(callbacks[l]) \in Tasks
        /\ Tail(callbacks[l]) \in Seq(Tasks)
    BY <1>8 DEF TimerCallback
  <2>2. <<Head(callbacks[l])>> \in Seq(Tasks)
    BY <2>1
  <2> QED BY <1>8, <2>1, <2>2 DEF TimerCallback
<1>9. ASSUME NEW c \in Clients, NEW l \in Loops, Quit(c, l) PROVE TypeOK'
  BY <1>9 DEF Quit
<1>10. CASE UNCHANGED vars
  BY <1>10 DEF vars
<1> QED
  BY <1>1, <1>2, <1>3, <1>4, <1>5, <1>6, <1>7, <1>8, <1>9, <1>10
  DEF Next, RunInLoop, PollPipe, PollSocket, PollTimeout

(* A thread inside a call keeps the call it is making at the head of todo,  *)
(* and the loop's own steps respect the places where tasks may run.         *)
LEMMA ControlStep == TypeOK /\ ControlInv /\ [Next]_vars => ControlInv'
<1> SUFFICES ASSUME TypeOK, ControlInv, [Next]_vars PROVE ControlInv'
  OBVIOUS
<1>0. /\ Loops \subseteq Threads
      /\ Clients \subseteq Threads
      /\ Clients \cap Loops = {}
      /\ NoThread \notin Threads
  BY ThreadsAssumption DEF Threads
<1> USE <1>0, WorkAssumption, PipeAssumption
<1> USE DEF TypeOK, lockVars, pipeVars, loopVars, ControlInv
<1>1. ASSUME NEW t \in Threads, NEW x \in Tasks, RunDirect(t, x)
      PROVE  ControlInv'
  BY <1>1 DEF RunDirect, IsInLoopThread
<1>2. ASSUME NEW t \in Threads, NEW x \in Tasks, PushLocked(t, x)
      PROVE  ControlInv'
  <2>1. /\ todo[t] # <<>> /\ x = Head(todo[t]) /\ Home[x] # t
        /\ lock[Home[x]] = NoThread
        /\ sub' = [sub EXCEPT ![t] = "pushed"]
        /\ functions' = [functions EXCEPT ![Home[x]] = Append(@, x)]
        /\ todo' = todo /\ pc' = pc /\ batch' = batch
    BY <1>2 DEF PushLocked, IsInLoopThread
  <2>2. ASSUME NEW u \in Threads, sub'[u] # "out"
        PROVE  todo[u] # <<>> /\ Home[Head(todo[u])] # u
    BY <2>1, <2>2
  <2>3. ASSUME NEW l \in Loops, pc[l] = "task" PROVE functions'[l] # <<>>
    <3>1. functions[l] # <<>>
      BY <2>3
    <3>2. Append(functions[Home[x]], x) # <<>>
      BY AppendNonEmpty
    <3>3. functions'[l] = functions[l] \/ functions'[l] = Append(functions[Home[x]], x)
      BY <2>1
    <3> QED BY <3>1, <3>2, <3>3
  <2> QED BY <2>1, <2>2, <2>3
<1>3. ASSUME NEW t \in Threads, NEW l \in Loops, CreatePipe(t, l)
      PROVE  ControlInv'
  BY <1>3 DEF CreatePipe
<1>4. ASSUME NEW t \in Threads, NEW l \in Loops, WakeUp(t, l)
      PROVE  ControlInv'
  <2>1. /\ sub[t] # "out" /\ sub' = [sub EXCEPT ![t] = "out"]
        /\ todo' = [todo EXCEPT ![t] = Tail(@)]
        /\ functions' = functions /\ pc' = pc /\ batch' = batch
    BY <1>4 DEF WakeUp
  <2>2. ASSUME NEW u \in Threads, sub'[u] # "out"
        PROVE  todo'[u] # <<>> /\ Home[Head(todo'[u])] # u
    BY <2>1, <2>2
  <2>3. ASSUME NEW k \in Loops, pc[k] \notin {"dispatch", "task", "timer"}
        PROVE  todo'[k] = <<>>
    <3>1. todo[k] = <<>> /\ sub[k] = "out"
      BY <2>3
    <3>2. k # t
      BY <3>1, <2>1
    <3> QED BY <3>1, <3>2, <2>1
  <2> QED BY <2>1, <2>2, <2>3
<1>5. ASSUME NEW l \in Loops, LoopBody(l) PROVE ControlInv'
  <2>1. CASE Enter(l) BY <2>1 DEF Enter
  <2>2. CASE CheckLooping(l) BY <2>2 DEF CheckLooping
  <2>3. CASE DispatchPipe(l) BY <2>3 DEF DispatchPipe
  <2>4. CASE DispatchSocket(l) BY <2>4 DEF DispatchSocket
  <2>5. CASE BeginFunctions(l) BY <2>5 DEF BeginFunctions
  <2>6. CASE CallFront(l) BY <2>6 DEF CallFront
  <2>7. CASE PopFront(l) BY <2>7 DEF PopFront
  <2>8. CASE EndFunctions(l) BY <2>8 DEF EndFunctions
  <2>9. CASE EndTimer(l) BY <2>9 DEF EndTimer
  <2> QED BY <1>5, <2>1, <2>2, <2>3, <2>4, <2>5, <2>6, <2>7, <2>8, <2>9
          DEF LoopBody
<1>6. ASSUME NEW l \in Loops, NEW s, PollReturn(l, s) PROVE ControlInv'
  BY <1>6 DEF PollReturn
<1>7. ASSUME NEW l \in Loops, PollError(l) PROVE ControlInv'
  BY <1>7 DEF PollError
<1>8. ASSUME NEW l \in Loops, TimerCallback(l) PROVE ControlInv'
  BY <1>8 DEF TimerCallback
<1>9. ASSUME NEW c \in Clients, NEW l \in Loops, Quit(c, l)
      PROVE  ControlInv'
  BY <1>9 DEF Quit
<1>10. CASE UNCHANGED vars
  BY <1>10 DEF vars
<1> QED
  BY <1>1, <1>2, <1>3, <1>4, <1>5, <1>6, <1>7, <1>8, <1>9, <1>10
  DEF Next, RunInLoop, PollPipe, PollSocket, PollTimeout

(* lock_ is always in the hands of the one thread that is inside.           *)
LEMMA LockStep == TypeOK /\ ControlInv /\ LockInv /\ [Next]_vars => LockInv'
<1> SUFFICES ASSUME TypeOK, ControlInv, LockInv, [Next]_vars,
                    NEW k \in Loops, NEW u \in Threads
             PROVE  (lock[k] = u <=> Inside(u, k))'
  BY DEF LockInv
<1>0. /\ Loops \subseteq Threads
      /\ Clients \subseteq Threads
      /\ NoThread \notin Threads
  BY ThreadsAssumption DEF Threads
<1>a. /\ lock[k] = u <=> Inside(u, k)
      /\ lock[k] = k <=> Inside(k, k)
  BY <1>0 DEF LockInv
<1>b. \A t \in Threads : todo[t] = <<>> => sub[t] = "out"
  BY DEF ControlInv
<1>c. \A t \in Threads : sub[t] # "out" => Home[Head(todo[t])] # t
  BY DEF ControlInv
<1>d. /\ pc \in [Loops -> {"init", "check", "wait", "dispatch", "run", "task",
                           "timer", "exited"}]
      /\ lock \in [Loops -> Threads \cup {NoThread}]
      /\ todo \in [Threads -> Seq(Tasks)]
      /\ sub \in [Threads -> {"out", "pushed", "adding"}]
  BY DEF TypeOK
<1> USE <1>0, WorkAssumption DEF Inside, lockVars, pipeVars, loopVars
<1>1. ASSUME NEW t \in Threads, NEW x \in Tasks, RunDirect(t, x)
      PROVE  (lock[k] = u <=> Inside(u, k))'
  <2>a. /\ Home[Head(todo[t])] = t
        /\ sub' = sub /\ lock' = lock /\ pc' = pc
    BY <1>1 DEF RunDirect, IsInLoopThread
  <2>1. sub[t] = "out"
    BY <2>a, <1>c
  <2>2. u # t => todo'[u] = todo[u]
    BY <1>1, <1>d DEF RunDirect
  <2> QED BY <2>a, <2>1, <2>2, <1>a
<1>2. ASSUME NEW t \in Threads, NEW x \in Tasks, PushLocked(t, x)
      PROVE  (lock[k] = u <=> Inside(u, k))'
  <2>1. /\ sub[t] = "out" /\ t # Home[x] /\ lock[Home[x]] = NoThread
        /\ x = Head(todo[t])
        /\ sub' = [sub EXCEPT ![t] = "pushed"]
        /\ lock' = [lock EXCEPT ![Home[x]] = t]
        /\ pc' = pc /\ todo' = todo
    BY <1>2 DEF PushLocked, IsInLoopThread
  <2>2. CASE k = Home[x]
    BY <2>1, <2>2, <1>a, <1>d
  <2>3. CASE k # Home[x]
    BY <2>1, <2>3, <1>a, <1>d
  <2> QED BY <2>2, <2>3
<1>3. ASSUME NEW t \in Threads, NEW l \in Loops, CreatePipe(t, l)
      PROVE  (lock[k] = u <=> Inside(u, k))'
  BY <1>3, <1>a, <1>d DEF CreatePipe
<1>4. ASSUME NEW t \in Threads, NEW l \in Loops, WakeUp(t, l)
      PROVE  (lock[k] = u <=> Inside(u, k))'
  <2>1. /\ sub[t] # "out" /\ l = Home[Head(todo[t])] /\ l # t
        /\ sub' = [sub EXCEPT ![t] = "out"]
        /\ lock' = [lock EXCEPT ![l] = NoThread]
        /\ pc' = pc
    BY <1>4, <1>c DEF WakeUp
  <2>2. /\ todo' = [todo EXCEPT ![t] = Tail(@)]
        /\ lock[l] = t
    BY <1>4, <2>1 DEF WakeUp, LockInv
  <2>3. CASE k = l
    <3>1. lock[k] = t
      BY <2>2, <2>3
    <3>2. u # t => ~Inside(u, k)
      BY <3>1, <1>a
    <3>3. u # t => todo'[u] = todo[u] /\ sub'[u] = sub[u]
      BY <2>1, <2>2, <1>d
    <3>4. sub'[t] = "out" /\ lock'[k] = NoThread
      BY <2>1, <2>3, <1>d
    <3> QED BY <2>1, <2>3, <3>2, <3>3, <3>4
  <2>4. CASE k # l
    <3>1. u # t => todo'[u] = todo[u] /\ sub'[u] = sub[u]
      BY <2>1, <2>2, <1>d
    <3>2. sub'[t] = "out" /\ lock'[k] = lock[k]
      BY <2>1, <2>4, <1>d
    <3> QED BY <2>1, <2>4, <3>1, <3>2, <1>a
  <2> QED BY <2>3, <2>4
<1>5. ASSUME NEW l \in Loops, LoopBody(l)
      PROVE  (lock[k] = u <=> Inside(u, k))'
  <2>1. CASE Enter(l) BY <2>1, <1>a, <1>d DEF Enter
  <2>2. CASE CheckLooping(l) BY <2>2, <1>a, <1>d DEF CheckLooping
  <2>3. CASE DispatchPipe(l) BY <2>3, <1>a, <1>d DEF DispatchPipe
  <2>4. CASE DispatchSocket(l)
    <3>1. /\ sub[l] = "out" /\ sub' = sub /\ lock' = lock /\ pc' = pc
          /\ u # l => todo'[u] = todo[u]
      BY <2>4, <1>b, <1>d DEF DispatchSocket
    <3> QED BY <3>1, <1>a
  <2>5. CASE BeginFunctions(l)
    <3>1. /\ lock[l] = NoThread /\ pc[l] = "dispatch"
          /\ lock' = [lock EXCEPT ![l] = l] /\ pc' = [pc EXCEPT ![l] = "run"]
          /\ sub' = sub /\ todo' = todo
      BY <2>5 DEF BeginFunctions
    <3>2. CASE k = l BY <3>1, <3>2, <1>a, <1>d
    <3>3. CASE k # l BY <3>1, <3>3, <1>a, <1>d
    <3> QED BY <3>2, <3>3
  <2>6. CASE CallFront(l)
    <3>1. todo[l] = <<>>
      BY <2>6 DEF CallFront, ControlInv
    <3>2. /\ sub[l] = "out" /\ sub' = sub /\ lock' = lock
          /\ pc[l] = "run" /\ pc' = [pc EXCEPT ![l] = "task"]
          /\ u # l => todo'[u] = todo[u]
      BY <2>6, <3>1, <1>b, <1>d DEF CallFront
    <3> QED BY <3>2, <1>a, <1>d
  <2>7. CASE PopFront(l) BY <2>7, <1>a, <1>d DEF PopFront
  <2>8. CASE EndFunctions(l)
    <3>1. todo[l] = <<>>
      BY <2>8 DEF EndFunctions, ControlInv
    <3>2. /\ sub' = sub /\ todo' = todo
          /\ lock' = [lock EXCEPT ![l] = NoThread]
          /\ pc[l] = "run" /\ pc' = [pc EXCEPT ![l] = "timer"]
          /\ sub[l] = "out"
      BY <2>8, <3>1, <1>b DEF EndFunctions
    <3>3. CASE k = l
      <4>1. lock[k] = k
        BY <3>2, <3>3, <1>a
      <4> QED BY <4>1, <3>2, <3>3, <1>a, <1>d
    <3>4. CASE k # l BY <3>2, <3>4, <1>a, <1>d
    <3> QED BY <3>3, <3>4
  <2>9. CASE EndTimer(l) BY <2>9, <1>a, <1>d DEF EndTimer
  <2> QED BY <1>5, <2>1, <2>2, <2>3, <2>4, <2>5, <2>6, <2>7, <2>8, <2>9
          DEF LoopBody
<1>6. ASSUME NEW l \in Loops, NEW s, PollReturn(l, s)
      PROVE  (lock[k] = u <=> Inside(u, k))'
  BY <1>6, <1>a, <1>d DEF PollReturn
<1>7. ASSUME NEW l \in Loops, PollError(l)
      PROVE  (lock[k] = u <=> Inside(u, k))'
  BY <1>7, <1>a, <1>d DEF PollError
<1>8. ASSUME NEW l \in Loops, TimerCallback(l)
      PROVE  (lock[k] = u <=> Inside(u, k))'
  <2>1. /\ sub[l] = "out" /\ sub' = sub /\ lock' = lock /\ pc' = pc
        /\ u # l => todo'[u] = todo[u]
    BY <1>8, <1>b, <1>d DEF TimerCallback
  <2> QED BY <2>1, <1>a
<1>9. ASSUME NEW c \in Clients, NEW l \in Loops, Quit(c, l)
      PROVE  (lock[k] = u <=> Inside(u, k))'
  BY <1>9, <1>a DEF Quit
<1>10. CASE UNCHANGED vars
  BY <1>10, <1>a DEF vars
<1> QED
  BY <1>1, <1>2, <1>3, <1>4, <1>5, <1>6, <1>7, <1>8, <1>9, <1>10
  DEF Next, RunInLoop, PollPipe, PollSocket, PollTimeout

(* Writes, reports and reads of the pipe keep their balance.               *)
LEMMA PipeStep == TypeOK /\ ControlInv /\ PipeInv /\ [Next]_vars => PipeInv'
<1> SUFFICES ASSUME TypeOK /\ ControlInv /\ PipeInv, [Next]_vars PROVE PipeInv'
  OBVIOUS
<1>0. /\ Loops \subseteq Threads
      /\ Clients \subseteq Threads
      /\ Clients \cap Loops = {}
      /\ NoThread \notin Threads
  BY ThreadsAssumption DEF Threads
<1> USE <1>0, WorkAssumption, PipeAssumption
<1> USE DEF TypeOK, lockVars, pipeVars, loopVars, ControlInv, PipeInv
<1>1. ASSUME NEW t \in Threads, NEW x \in Tasks, RunDirect(t, x)
      PROVE  PipeInv'
  BY <1>1 DEF RunDirect, IsInLoopThread
<1>2. ASSUME NEW t \in Threads, NEW x \in Tasks, PushLocked(t, x)
      PROVE  PipeInv'
  BY <1>2 DEF PushLocked, IsInLoopThread
<1>3. ASSUME NEW t \in Threads, NEW l \in Loops, CreatePipe(t, l)
      PROVE  PipeInv'
  BY <1>3 DEF CreatePipe
<1>4. ASSUME NEW t \in Threads, NEW l \in Loops, WakeUp(t, l)
      PROVE  PipeInv'
  <2>1. PipeWrite(l) /\ batch' = batch
    BY <1>4 DEF WakeUp
  <2>2. CASE tokens[l] < PipeCap
    <3>1. /\ tokens' = [tokens EXCEPT ![l] = @ + 1]
          /\ edge' = [edge EXCEPT ![l] = TRUE]
      BY <2>1, <2>2 DEF PipeWrite
    <3>2. /\ tokens'[l] = tokens[l] + 1 /\ edge'[l] = TRUE
          /\ \A k \in Loops \ {l} : tokens'[k] = tokens[k] /\ edge'[k] = edge[k]
      BY <3>1
    <3>3. ASSUME NEW k \in Loops \ {l}
          PROVE  /\ edge'[k] => tokens'[k] > 0
                 /\ "pipe" \in batch'[k] => tokens'[k] > 0
                 /\ edge'[k] /\ "pipe" \in batch'[k] => tokens'[k] > 1
                 /\ tokens'[k] = PipeCap => edge'[k] \/ "pipe" \in batch'[k]
      BY <2>1, <3>2
    <3>4. /\ tokens'[l] > 0
          /\ "pipe" \in batch'[l] => tokens'[l] > 1
      BY <2>1, <3>2
    <3> QED BY <3>2, <3>3, <3>4
  <2>3. CASE ~(tokens[l] < PipeCap)
    BY <2>1, <2>3 DEF PipeWrite
  <2> QED BY <2>2, <2>3
<1>5. ASSUME NEW l \in Loops, LoopBody(l) PROVE PipeInv'
  <2>1. CASE Enter(l) BY <2>1 DEF Enter
  <2>2. CASE CheckLooping(l) BY <2>2 DEF CheckLooping
  <2>3. CASE DispatchPipe(l) BY <2>3 DEF DispatchPipe
  <2>4. CASE DispatchSocket(l) BY <2>4 DEF DispatchSocket
  <2>5. CASE BeginFunctions(l) BY <2>5 DEF BeginFunctions
  <2>6. CASE CallFront(l) BY <2>6 DEF CallFront
  <2>7. CASE PopFront(l) BY <2>7 DEF PopFront
  <2>8. CASE EndFunctions(l) BY <2>8 DEF EndFunctions
  <2>9. CASE EndTimer(l) BY <2>9 DEF EndTimer
  <2> QED BY <1>5, <2>1, <2>2, <2>3, <2>4, <2>5, <2>6, <2>7, <2>8, <2>9
          DEF LoopBody
<1>6. ASSUME NEW l \in Loops, NEW s, PollReturn(l, s) PROVE PipeInv'
  <2>a. batch[l] = {} /\ tokens' = tokens
    BY <1>6 DEF PollReturn
  <2>b. s = {} \/ s = {"socket"}
    BY <1>6 DEF PollReturn
  <2>1. batch[l] = {} /\ tokens' = tokens /\ "pipe" \notin s
    BY <2>a, <2>b
  <2>2. /\ edge'[l] = FALSE
        /\ batch'[l] = s \cup IF edge[l] THEN {"pipe"} ELSE {}
        /\ \A k \in Loops \ {l} : batch'[k] = batch[k] /\ edge'[k] = edge[k]
    <3>1. batch' = [batch EXCEPT ![l] = s \cup IF edge[l] THEN {"pipe"} ELSE {}]
      BY <1>6 DEF PollReturn
    <3>4. edge' = [edge EXCEPT ![l] = FALSE]
      BY <1>6 DEF PollReturn
    <3>2. edge'[l] = FALSE /\ \A k \in Loops \ {l} : edge'[k] = edge[k]
      BY <3>4
    <3>3. /\ batch'[l] = s \cup IF edge[l] THEN {"pipe"} ELSE {}
          /\ \A k \in Loops \ {l} : batch'[k] = batch[k]
      BY <3>1
    <3> QED BY <3>2, <3>3
  <2>3. ASSUME NEW k \in Loops \ {l}
        PROVE  /\ edge'[k] => tokens'[k] > 0
               /\ "pipe" \in batch'[k] => tokens'[k] > 0
               /\ edge'[k] /\ "pipe" \in batch'[k] => tokens'[k] > 1
               /\ tokens'[k] = PipeCap => edge'[k] \/ "pipe" \in batch'[k]
    BY <2>1, <2>2
  <2>4. /\ "pipe" \in batch'[l] => tokens'[l] > 0
        /\ tokens'[l] = PipeCap => "pipe" \in batch'[l]
    <3>1. CASE edge[l]
      BY <2>1, <2>2, <3>1
    <3>2. CASE ~edge[l]
      BY <2>1, <2>2, <3>2
    <3> QED BY <3>1, <3>2
  <2> QED BY <2>2, <2>3, <2>4
<1>7. ASSUME NEW l \in Loops, PollError(l) PROVE PipeInv'
  BY <1>7 DEF PollError
<1>8. ASSUME NEW l \in Loops, TimerCallback(l) PROVE PipeInv'
  BY <1>8 DEF TimerCallback
<1>9. ASSUME NEW c \in Clients, NEW l \in Loops, Quit(c, l)
      PROVE  PipeInv'
  BY <1>9 DEF Quit
<1>10. CASE UNCHANGED vars
  BY <1>10 DEF vars
<1> QED
  BY <1>1, <1>2, <1>3, <1>4, <1>5, <1>6, <1>7, <1>8, <1>9, <1>10
  DEF Next, RunInLoop, PollPipe, PollSocket, PollTimeout

(* The submitter's write is reported after the task it announces.          *)
LEMMA WakeStep ==
  TypeOK /\ ControlInv /\ LockInv /\ PipeInv /\ WakeInv /\ [Next]_vars => WakeInv'
<1> SUFFICES ASSUME TypeOK, ControlInv, LockInv, PipeInv, WakeInv, [Next]_vars,
                    NEW k \in Loops,
                    pc'[k] \notin {"dispatch", "run", "task"},
                    functions'[k] # <<>>, lock'[k] = NoThread
             PROVE  edge'[k]
  BY DEF WakeInv
<1>0. /\ Loops \subseteq Threads
      /\ Clients \subseteq Threads
      /\ NoThread \notin Threads
  BY ThreadsAssumption DEF Threads
<1>a. (/\ pc[k] \notin {"dispatch", "run", "task"} /\ functions[k] # <<>>
       /\ lock[k] = NoThread) => edge[k]
  BY DEF WakeInv
<1>d. /\ pc \in [Loops -> {"init", "check", "wait", "dispatch", "run", "task",
                           "timer", "exited"}]
      /\ lock \in [Loops -> Threads \cup {NoThread}]
      /\ functions \in [Loops -> Seq(Tasks)]
      /\ tokens \in [Loops -> 0..PipeCap]
      /\ edge \in [Loops -> BOOLEAN]
  BY DEF TypeOK
<1> USE <1>0, WorkAssumption, PipeAssumption DEF lockVars, pipeVars, loopVars
<1>1. ASSUME NEW t \in Threads, NEW x \in Tasks, RunDirect(t, x) PROVE edge'[k]
  BY <1>1, <1>a DEF RunDirect
<1>2. ASSUME NEW t \in Threads, NEW x \in Tasks, PushLocked(t, x)
      PROVE  edge'[k]
  <2>1. k # Home[x]
    BY <1>2, <1>d DEF PushLocked
  <2> QED BY <1>2, <2>1, <1>a, <1>d DEF PushLocked
<1>3. ASSUME NEW t \in Threads, NEW l \in Loops, CreatePipe(t, l)
      PROVE  edge'[k]
  BY <1>3, <1>a DEF CreatePipe
<1>4. ASSUME NEW t \in Threads, NEW l \in Loops, WakeUp(t, l) PROVE edge'[k]
  <2>1. /\ PipeWrite(l) /\ pc' = pc /\ functions' = functions
        /\ lock' = [lock EXCEPT ![l] = NoThread]
    BY <1>4 DEF WakeUp
  <2>2. CASE k # l
    <3>1. edge'[k] = edge[k] /\ lock'[k] = lock[k]
      BY <2>1, <2>2, <1>d DEF PipeWrite
    <3> QED BY <2>1, <3>1, <1>a
  <2>3. CASE k = l /\ tokens[l] < PipeCap
    BY <2>1, <2>3, <1>d DEF PipeWrite
  <2>4. CASE k = l /\ ~(tokens[l] < PipeCap)
    <3>1. tokens[k] = PipeCap /\ edge' = edge
      BY <2>1, <2>4, <1>d DEF PipeWrite
    <3>2. batch[k] = {}
      BY <2>1 DEF ControlInv
    <3> QED BY <3>1, <3>2 DEF PipeInv
  <2> QED BY <2>2, <2>3, <2>4
<1>5. ASSUME NEW l \in Loops, LoopBody(l) PROVE edge'[k]
  <2>1. CASE Enter(l) BY <2>1, <1>a, <1>d DEF Enter
  <2>2. CASE CheckLooping(l) BY <2>2, <1>a, <1>d DEF CheckLooping
  <2>3. CASE DispatchPipe(l) BY <2>3, <1>a, <1>d DEF DispatchPipe
  <2>4. CASE DispatchSocket(l) BY <2>4, <1>a, <1>d DEF DispatchSocket
  <2>5. CASE BeginFunctions(l) BY <2>5, <1>a, <1>d DEF BeginFunctions
  <2>6. CASE CallFront(l) BY <2>6, <1>a, <1>d DEF CallFront
  <2>7. CASE PopFront(l) BY <2>7, <1>a, <1>d DEF PopFront
  <2>8. CASE EndFunctions(l)
    <3>1. k # l
      BY <2>8 DEF EndFunctions
    <3>2. pc'[k] = pc[k] /\ lock'[k] = lock[k] /\ functions' = functions
          /\ edge' = edge
      BY <2>8, <3>1, <1>d DEF EndFunctions
    <3> QED BY <3>2, <1>a
  <2>9. CASE EndTimer(l) BY <2>9, <1>a, <1>d DEF EndTimer
  <2> QED BY <1>5, <2>1, <2>2, <2>3, <2>4, <2>5, <2>6, <2>7, <2>8, <2>9
          DEF LoopBody
<1>6. ASSUME NEW l \in Loops, NEW s, PollReturn(l, s) PROVE edge'[k]
  BY <1>6, <1>a, <1>d DEF PollReturn
<1>7. ASSUME NEW l \in Loops, PollError(l) PROVE edge'[k]
  BY <1>7, <1>a, <1>d DEF PollError
<1>8. ASSUME NEW l \in Loops, TimerCallback(l) PROVE edge'[k]
  BY <1>8, <1>a DEF TimerCallback
<1>9. ASSUME NEW c \in Clients, NEW l \in Loops, Quit(c, l) PROVE edge'[k]
  BY <1>9, <1>a DEF Quit
<1>10. CASE UNCHANGED vars
  BY <1>10, <1>a DEF vars
<1> QED
  BY <1>1, <1>2, <1>3, <1>4, <1>5, <1>6, <1>7, <1>8, <1>9, <1>10
  DEF Next, RunInLoop, PollPipe, PollSocket, PollTimeout

(***************************************************************************)
(* The invariant holds, and with it the safety properties.                 *)
(***************************************************************************)
LEMMA InitInv == Init => Inv
<1> SUFFICES ASSUME Init PROVE Inv
  OBVIOUS
<1>0. /\ Loops \subseteq Threads
      /\ Clients \subseteq Threads
      /\ Clients \cap Loops = {}
      /\ NoThread \notin Threads
  BY ThreadsAssumption DEF Threads
<1>1. TypeOK
  BY <1>0, WorkAssumption, PipeAssumption DEF Init, TypeOK
<1>2. ControlInv
  BY <1>0 DEF Init, ControlInv
<1>3. LockInv
  BY <1>0 DEF Init, LockInv, Inside
<1>4. PipeInv
  BY PipeAssumption DEF Init, PipeInv
<1>5. WakeInv
  BY DEF Init, WakeInv
<1> QED BY <1>1, <1>2, <1>3, <1>4, <1>5 DEF Inv

\* The inductive invariant holds of every reachable state: lock_ is in the
\* hands of the thread inside RunFunctions or RunInLoop, the pipe balance and
\* the wake-up of queued tasks are kept.
THEOREM InvariantHolds == Spec => []Inv
<1>1. Inv /\ [Next]_vars => Inv'
  BY TypeStep, ControlStep, LockStep, PipeStep, WakeStep DEF Inv
<1> QED BY InitInv, <1>1, PTL DEF Spec

\* Type correctness of every variable of the loops.
THEOREM TypeCorrect == Spec => []TypeOK
<1>1. Inv => TypeOK
  BY DEF Inv
<1> QED BY InvariantHolds, <1>1, PTL

\* No loop sleeps over a queued task, whatever the capacity of the pipe and
\* however many tokens the reads leave behind.
THEOREM NoWakeupIsLost == Spec => []NoLostWakeup
<1>1. Inv => NoLostWakeup
  BY DEF Inv, WakeInv, NoLostWakeup
<1> QED BY InvariantHolds, <1>1, PTL

\* PipeEvent::OnRead always has a token to read.
THEOREM ReadsNeverStarve == Spec => []ReadFindsToken
<1>1. Inv => ReadFindsToken
  BY DEF Inv, PipeInv, ReadFindsToken
<1> QED BY InvariantHolds, <1>1, PTL
(***************************************************************************)
(* Refinement: each step of the loops is a step of the task executor or    *)
(* leaves its queue and its history alone.                                 *)
(***************************************************************************)
LEMMA SamePending ==
  ASSUME ran' = ran, functions' = functions,
         \A l \in Loops : pc'[l] = "task" <=> pc[l] = "task"
  PROVE  UNCHANGED Executor!avars
BY DEF Executor!avars, Pending

LEMMA RefinementStep ==
  Inv /\ [Next]_vars => [Executor!ANext]_(Executor!avars)
<1> SUFFICES ASSUME TypeOK, Inv, [Next]_vars
             PROVE  [Executor!ANext]_(Executor!avars)
  BY DEF Inv
<1>d. /\ pc \in [Loops -> {"init", "check", "wait", "dispatch", "run", "task",
                           "timer", "exited"}]
      /\ functions \in [Loops -> Seq(Tasks)]
      /\ ran \in [Loops -> Seq(Tasks)]
      /\ Loops \subseteq Threads
      /\ NoThread \notin Threads
  BY ThreadsAssumption DEF TypeOK, Threads
<1> USE <1>d, WorkAssumption DEF lockVars, pipeVars, loopVars
<1>1. ASSUME NEW t \in Threads, NEW x \in Tasks, RunDirect(t, x)
      PROVE  Executor!ExecInline(x)
  BY <1>1 DEF RunDirect, Executor!ExecInline, Pending
<1>2. ASSUME NEW t \in Threads, NEW x \in Tasks, PushLocked(t, x)
      PROVE  Executor!Submit(x)
  <2>1. /\ functions' = [functions EXCEPT ![Home[x]] = Append(@, x)]
        /\ pc' = pc /\ ran' = ran
        /\ lock[Home[x]] = NoThread
    BY <1>2 DEF PushLocked
  <2>2. pc[Home[x]] # "task"
    BY <2>1 DEF Inv, LockInv, Inside
  <2>3. ASSUME NEW l \in Loops
        PROVE  Pending(l)' = IF l = Home[x] THEN Append(Pending(l), x)
                                            ELSE Pending(l)
    BY <2>1, <2>2 DEF Pending
  <2>4. [l \in Loops |-> Pending(l)]'
          = [[l \in Loops |-> Pending(l)] EXCEPT ![Home[x]] = Append(@, x)]
    BY <2>3
  <2> QED BY <2>1, <2>4 DEF Executor!Submit
<1>3. ASSUME NEW t \in Threads, NEW l \in Loops, CreatePipe(t, l)
      PROVE  UNCHANGED Executor!avars
  BY <1>3, SamePending DEF CreatePipe
<1>4. ASSUME NEW t \in Threads, NEW l \in Loops, WakeUp(t, l)
      PROVE  UNCHANGED Executor!avars
  BY <1>4, SamePending DEF WakeUp
<1>5. ASSUME NEW l \in Loops, LoopBody(l)
      PROVE  Executor!ExecOldest(l) \/ UNCHANGED Executor!avars
  <2>1. CASE Enter(l) BY <2>1, SamePending DEF Enter
  <2>2. CASE CheckLooping(l) BY <2>2, SamePending DEF CheckLooping
  <2>3. CASE DispatchPipe(l) BY <2>3, SamePending DEF DispatchPipe
  <2>4. CASE DispatchSocket(l) BY <2>4, SamePending DEF DispatchSocket
  <2>5. CASE BeginFunctions(l) BY <2>5, SamePending DEF BeginFunctions
  <2>6. CASE CallFront(l)
    <3>1. /\ pc[l] = "run" /\ functions[l] # <<>>
          /\ ran' = [ran EXCEPT ![l] = Append(@, Head(functions[l]))]
          /\ pc' = [pc EXCEPT ![l] = "task"] /\ functions' = functions
      BY <2>6 DEF CallFront
    <3>2. ASSUME NEW k \in Loops
          PROVE  Pending(k)' = IF k = l THEN Tail(Pending(k)) ELSE Pending(k)
      BY <3>1 DEF Pending
    <3>3. [k \in Loops |-> Pending(k)]'
            = [[k \in Loops |-> Pending(k)] EXCEPT ![l] = Tail(@)]
      BY <3>2
    <3>4. Pending(l) = functions[l]
      BY <3>1 DEF Pending
    <3> QED BY <3>1, <3>3, <3>4 DEF Executor!ExecOldest
  <2>7. CASE PopFront(l)
    <3>1. /\ pc[l] = "task" /\ ran' = ran
          /\ functions' = [functions EXCEPT ![l] = Tail(@)]
          /\ pc' = [pc EXCEPT ![l] = "run"]
      BY <2>7 DEF PopFront
    <3>2. ASSUME NEW k \in Loops PROVE Pending(k)' = Pending(k)
      BY <3>1 DEF Pending
    <3> QED BY <3>1, <3>2 DEF Executor!avars
  <2>8. CASE EndFunctions(l) BY <2>8, SamePending DEF EndFunctions
  <2>9. CASE EndTimer(l) BY <2>9, SamePending DEF EndTimer
  <2> QED BY <1>5, <2>1, <2>2, <2>3, <2>4, <2>5, <2>6, <2>7, <2>8, <2>9
          DEF LoopBody
<1>6. ASSUME NEW l \in Loops, NEW s, PollReturn(l, s)
      PROVE  UNCHANGED Executor!avars
  BY <1>6, SamePending DEF PollReturn
<1>7. ASSUME NEW l \in Loops, PollError(l) PROVE UNCHANGED Executor!avars
  BY <1>7, SamePending DEF PollError
<1>8. ASSUME NEW l \in Loops, TimerCallback(l) PROVE UNCHANGED Executor!avars
  BY <1>8, SamePending DEF TimerCallback
<1>9. ASSUME NEW c \in Clients, NEW l \in Loops, Quit(c, l)
      PROVE  UNCHANGED Executor!avars
  BY <1>9, SamePending DEF Quit
<1>10. CASE UNCHANGED vars
  BY <1>10, SamePending DEF vars
<1> QED
  BY <1>1, <1>2, <1>3, <1>4, <1>5, <1>6, <1>7, <1>8, <1>9, <1>10
  DEF Next, RunInLoop, PollPipe, PollSocket, PollTimeout, Executor!ANext

\* RunInLoop, the wake-up pipe and RunFunctions together implement the task
\* executor: first in first out per loop, direct calls at once, nothing lost
\* and nothing begun twice by the queue.
THEOREM Refinement == Spec => ImplementsExecutor
<1>1. Init => Executor!AInit
  BY DEF Init, Executor!AInit, Pending
<1> QED BY <1>1, RefinementStep, InvariantHolds, PTL
        DEF Spec, ImplementsExecutor, Executor!ASpec
=============================================================================
