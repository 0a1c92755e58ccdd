----------------------- MODULE EventLoopThreadProofs ------------------------
(* Theorems about EventLoopThread, for any number of other threads and any   *)
(* program of calls.                                                         *)
EXTENDS EventLoopThread, SequenceTheorems, TLAPS

\* Every thread has finitely many operations; the owner also has those of the
\* destructor.
LEMMA OpsAreFinite == \A t \in Threads : Len(Ops(t)) \in Nat
<1> DEFINE O == {"run", "use", "quit", "join"}
<1> SUFFICES ASSUME NEW t \in Threads PROVE Ops(t) \in Seq(O)
  BY LenProperties
<1>1. Program[t] \in Seq(O)
  <2>1. {"run", "use", "quit"} \subseteq O
    OBVIOUS
  <2>2. Program[t] \in Seq({"run", "use", "quit"})
    BY ProgramAssumption
  <2> HIDE DEF O
  <2> QED BY <2>1, <2>2, SeqMonotonic
<1>2. Dtor \in Seq(O)
  BY DEF Dtor
<1> HIDE DEF O
<1>3. Program[t] \o Dtor \in Seq(O)
  BY <1>1, <1>2, ConcatProperties
<1> QED BY <1>1, <1>3 DEF Ops

\* A thread that finishes an operation it had left has a place to go on.
LEMMA DoneType ==
  ASSUME TypeOK, NEW t \in Threads, ~Finished(t), Done(t)
  PROVE  /\ pc' \in [Threads -> {"ready", "notify", "get", "call"}]
         /\ op' \in [Threads -> Nat]
         /\ \A u \in Threads : op'[u] \in 1..(Len(Ops(u)) + 1)
<1>1. op \in [Threads -> Nat] /\ op' = [op EXCEPT ![t] = @ + 1]
  BY DEF TypeOK, Done
<1>2. op[t] + 1 \in 1..(Len(Ops(t)) + 1)
  BY OpsAreFinite DEF TypeOK, Finished
<1>3. \A u \in Threads : op[u] \in 1..(Len(Ops(u)) + 1)
  BY DEF TypeOK
<1>4. \A u \in Threads : op'[u] \in 1..(Len(Ops(u)) + 1)
  BY <1>1, <1>2, <1>3
<1>5. pc' \in [Threads -> {"ready", "notify", "get", "call"}]
  BY DEF TypeOK, Done
<1>6. op' \in [Threads -> Nat]
  BY <1>1
<1> QED BY <1>4, <1>5, <1>6

\* One that enters a call stays at the operation.
LEMMA GoType ==
  ASSUME TypeOK, NEW t \in Threads, NEW w \in {"ready", "notify", "get", "call"},
         Go(t, w)
  PROVE  pc' \in [Threads -> {"ready", "notify", "get", "call"}] /\ op' = op
BY DEF TypeOK, Go

(***************************************************************************)
(* What the steps of the threads that use the object have in common: one   *)
(* of them, inside an operation, enters a call or finishes it, and only    *)
(* after the constructor.                                                  *)
(***************************************************************************)
LEMMA ThreadMoves ==
  ASSUME Inv, NEW t \in Threads, Thread(t)
  PROVE  /\ built = "done" /\ built' = "done"
         /\ ~Finished(t)
         /\ Done(t) \/ (\E w \in {"notify", "get", "call"} : Go(t, w))
<1> USE DEF Inv, ConstructorInv, At, memberVars
<1>1. CASE RunOnce(t) BY <1>1 DEF RunOnce
<1>2. CASE RunAgain(t) BY <1>2 DEF RunAgain
<1>3. CASE RunNotify(t) BY <1>3 DEF RunNotify
<1>4. CASE RunGet(t) BY <1>4 DEF RunGet
<1>5. CASE ReadLoop(t) BY <1>5 DEF ReadLoop
<1>6. CASE CallLoop(t) BY <1>6 DEF CallLoop
<1> QED BY <1>1, <1>2, <1>3, <1>4, <1>5, <1>6 DEF Thread

\* Every variable keeps its type; a thread never runs past its program.
LEMMA TypeStep == Inv /\ [Next]_vars => TypeOK'
<1> SUFFICES ASSUME Inv, [Next]_vars PROVE TypeOK'
  OBVIOUS
<1>0. TypeOK
  BY DEF Inv
<1> USE DEF memberVars, historyVars, loopVars
<1> DEFINE Places == /\ pc' \in [Threads -> {"ready", "notify", "get", "call"}]
                     /\ op' \in [Threads -> Nat]
                     /\ \A u \in Threads : op'[u] \in 1..(Len(Ops(u)) + 1)
           Flags == /\ built' \in {"no", "thread", "done"}
                    /\ running' \in BOOLEAN /\ lock' \in {"free", "child"}
                    /\ waiting' \in BOOLEAN
                    /\ once' \in {"new", "done"} \cup Threads
                    /\ promise' \in BOOLEAN /\ published' \in BOOLEAN
                    /\ alive' \in BOOLEAN /\ looping' \in BOOLEAN
                    /\ quitMade' \in BOOLEAN /\ quitLost' \in BOOLEAN
                    /\ overtaken' \in BOOLEAN
                    /\ child' \in {"none", "start", "check", "sleep", "wait",
                                  "woken", "publish", "fulfil", "enter", "loop",
                                  "clear", "destroy", "ended"}
<1>1. Flags /\ Places => TypeOK'
  BY DEF TypeOK, Ops, Finished
\* The threads' places.
<1>2. ASSUME NEW t \in Threads, ~Finished(t),
             Done(t) \/ \E w \in {"notify", "get", "call"} : Go(t, w)
      PROVE  Places
  <2>1. CASE Done(t)
    BY <1>0, <1>2, <2>1, DoneType
  <2>2. ASSUME NEW w \in {"notify", "get", "call"}, Go(t, w) PROVE Places
    BY <1>0, <2>2, GoType DEF TypeOK
  <2> QED BY <1>2, <2>1, <2>2
<1>3. ASSUME UNCHANGED <<pc, op>> PROVE Places
  <2>1. /\ pc \in [Threads -> {"ready", "notify", "get", "call"}]
        /\ op \in [Threads -> Nat]
        /\ \A u \in Threads : op[u] \in 1..(Len(Ops(u)) + 1)
    BY <1>0 DEF TypeOK
  <2> QED BY <1>3, <2>1
\* The other variables.
<1> HIDE DEF Places
<1>11. /\ built \in {"no", "thread", "done"}
       /\ running \in BOOLEAN /\ lock \in {"free", "child"}
       /\ waiting \in BOOLEAN
       /\ once \in {"new", "done"} \cup Threads
       /\ promise \in BOOLEAN /\ published \in BOOLEAN
       /\ alive \in BOOLEAN /\ looping \in BOOLEAN
       /\ quitMade \in BOOLEAN /\ quitLost \in BOOLEAN
       /\ overtaken \in BOOLEAN
       /\ child \in {"none", "start", "check", "sleep", "wait", "woken",
                    "publish", "fulfil", "enter", "loop", "clear", "destroy",
                    "ended"}
  BY <1>0 DEF TypeOK
<1>4. ASSUME Child PROVE Flags /\ UNCHANGED <<pc, op>>
  <2> USE <1>11
  <2>1. CASE ChildLock BY <2>1 DEF ChildLock
  <2>2. CASE ChildCheck BY <2>2 DEF ChildCheck
  <2>3. CASE ChildSleep BY <2>3 DEF ChildSleep
  <2>4. CASE ChildRelock BY <2>4 DEF ChildRelock
  <2>5. CASE ChildPublish BY <2>5 DEF ChildPublish
  <2>6. CASE ChildFulfil BY <2>6 DEF ChildFulfil
  <2>7. CASE ChildEnter BY <2>7 DEF ChildEnter
  <2>8. CASE ChildExit BY <2>8 DEF ChildExit
  <2>9. CASE ChildClear BY <2>9, ZenonT(30) DEF ChildClear
  <2>10. CASE ChildDestroy BY <2>10 DEF ChildDestroy
  <2> QED BY <1>4, <2>1, <2>2, <2>3, <2>4, <2>5, <2>6, <2>7, <2>8, <2>9, <2>10
          DEF Child
<1>5. ASSUME SpuriousWakeUp PROVE Flags /\ UNCHANGED <<pc, op>>
  <2>1. /\ child' = "woken" /\ waiting' = FALSE
        /\ UNCHANGED <<built, running, lock, once, promise, published, alive,
                        looping, pc, op, quitMade, quitLost, overtaken>>
    BY <1>5 DEF SpuriousWakeUp, loopVars, historyVars
  <2> QED BY <1>11, <2>1, ZenonT(30)
<1>6. ASSUME StartThread PROVE Flags /\ UNCHANGED <<pc, op>>
  BY <1>11, <1>6 DEF StartThread
<1>7. ASSUME InitMembers PROVE Flags /\ UNCHANGED <<pc, op>>
  BY <1>11, <1>7 DEF InitMembers
<1>8. ASSUME Join PROVE Flags /\ Places
  <2>1. Owner \in Threads /\ ~Finished(Owner) /\ Done(Owner)
    BY <1>8 DEF Threads, Join, At
  <2>2. Places
    BY <1>2, <2>1
  <2>3. Flags
    BY <1>11, <1>8 DEF Join
  <2> QED BY <2>2, <2>3
<1>9. ASSUME NEW t \in Threads, Thread(t) PROVE Flags /\ Places
  <2>1. Places
    BY <1>2, <1>9, ThreadMoves
  <2>2. Flags
    <3> USE <1>11
    <3>1. CASE RunOnce(t) BY <3>1 DEF RunOnce
    <3>2. CASE RunAgain(t) BY <3>2 DEF RunAgain
    <3>3. CASE RunNotify(t) BY <3>3 DEF RunNotify
    <3>4. CASE RunGet(t) BY <3>4 DEF RunGet
    <3>5. CASE ReadLoop(t) BY <3>5 DEF ReadLoop
    <3>6. CASE CallLoop(t)
      <4>1. looping' \in BOOLEAN /\ quitMade' \in BOOLEAN
        BY <3>6 DEF CallLoop
      <4>2. UNCHANGED <<built, running, lock, waiting, once, promise, published,
                        alive, quitLost, overtaken, child>>
        BY <3>6 DEF CallLoop
      <4> QED BY <4>1, <4>2
    <3> QED BY <1>9, <3>1, <3>2, <3>3, <3>4, <3>5, <3>6 DEF Thread
  <2> QED BY <2>1, <2>2
<1>10. ASSUME UNCHANGED vars PROVE Flags /\ UNCHANGED <<pc, op>>
  BY <1>11, <1>10 DEF vars
<1> HIDE DEF Flags
<1> QED
  BY <1>1, <1>3, <1>4, <1>5, <1>6, <1>7, <1>8, <1>9, <1>10 DEF Next, OwnerStep

(***************************************************************************)
(* The constructor comes first, and nobody is inside a call that it has    *)
(* not finished.                                                           *)
(***************************************************************************)
LEMMA ConstructorStep == Inv /\ [Next]_vars => ConstructorInv'
<1> SUFFICES ASSUME Inv, [Next]_vars PROVE ConstructorInv'
  OBVIOUS
<1> USE DEF Inv, ConstructorInv, memberVars, historyVars, loopVars
<1>0. TypeOK
  OBVIOUS
<1> DEFINE Inside == \A u \in Threads :
                       pc'[u] # "ready" => built' = "done" /\ ~Finished(u)'
           First == /\ built' = "no" => child' = "none"
                    /\ built' # "done" => ~running' /\ once' = "new" /\ ~promise'
<1>1. ASSUME UNCHANGED <<pc, op>>, built = "done" => built' = "done"
      PROVE  Inside
  BY <1>1 DEF Finished, Ops
<1>2. ASSUME NEW t \in Threads, ~Finished(t), built = "done", built' = "done",
             Done(t) \/ \E w \in {"notify", "get", "call"} : Go(t, w)
      PROVE  Inside
  <2>1. CASE Done(t)
    <3>1. ASSUME NEW u \in Threads, pc'[u] # "ready" PROVE ~Finished(u)'
      <4>1. u # t /\ pc[u] # "ready" /\ op'[u] = op[u]
        BY <1>0, <2>1, <3>1 DEF TypeOK, Done
      <4> QED BY <4>1 DEF Finished, Ops
    <3> QED BY <1>2, <3>1
  <2>2. ASSUME NEW w \in {"notify", "get", "call"}, Go(t, w) PROVE Inside
    <3>1. ASSUME NEW u \in Threads, pc'[u] # "ready" PROVE ~Finished(u)
      BY <1>0, <1>2, <2>2, <3>1 DEF TypeOK, Go
    <3>2. op' = op
      BY <2>2 DEF Go
    <3> QED BY <1>2, <3>1, <3>2 DEF Finished, Ops
  <2> QED BY <1>2, <2>1, <2>2
<1> HIDE DEF Inside
<1>3. First /\ Inside => ConstructorInv'
  BY DEF Inside
<1>4. CASE Child
  <2>1. UNCHANGED <<built, running, once, pc, op>> /\ (child # "fulfil" => promise' = promise)
    BY <1>4 DEF Child, ChildLock, ChildCheck, ChildSleep, ChildRelock,
       ChildPublish, ChildFulfil, ChildEnter, ChildExit, ChildClear, ChildDestroy
  <2>2. child # "none"
    BY <1>4 DEF Child, ChildLock, ChildCheck, ChildSleep, ChildRelock,
       ChildPublish, ChildFulfil, ChildEnter, ChildExit, ChildClear, ChildDestroy
  <2>3. ~running => child # "fulfil"
    BY DEF ChildInv, NotYetRun
  <2> QED BY <1>1, <1>3, <2>1, <2>2, <2>3
<1>5. CASE SpuriousWakeUp
  BY <1>1, <1>3, <1>5 DEF SpuriousWakeUp
<1>6. CASE StartThread
  BY <1>1, <1>3, <1>6 DEF StartThread
<1>7. CASE InitMembers
  BY <1>1, <1>3, <1>7 DEF InitMembers
<1>8. CASE Join
  <2>1. Owner \in Threads /\ ~Finished(Owner) /\ Done(Owner) /\ built = "done"
    BY <1>8 DEF Threads, Join, At
  <2>2. UNCHANGED built
    BY <1>8 DEF Join
  <2> QED BY <1>2, <1>3, <2>1, <2>2
<1>9. ASSUME NEW t \in Threads, Thread(t) PROVE ConstructorInv'
  <2>1. /\ ~Finished(t) /\ built = "done" /\ built' = "done"
        /\ Done(t) \/ \E w \in {"notify", "get", "call"} : Go(t, w)
    BY <1>9, ThreadMoves
  <2>2. Inside
    BY <1>2, <2>1
  <2> QED BY <1>3, <2>1, <2>2
<1>10. CASE UNCHANGED vars
  BY <1>1, <1>3, <1>10 DEF vars
<1> QED
  BY <1>4, <1>5, <1>6, <1>7, <1>8, <1>9, <1>10 DEF Next, OwnerStep

(***************************************************************************)
(* The child waits until Run has been called and leaves loop() only after  *)
(* a Quit.  The constructor's late initialisation is harmless here: it     *)
(* meets a child that is still waiting.                                    *)
(***************************************************************************)
LEMMA ChildStep == Inv /\ [Next]_vars => ChildInv'
<1> SUFFICES ASSUME Inv, [Next]_vars PROVE ChildInv'
  OBVIOUS
<1> USE DEF ChildInv, NotYetRun, memberVars, historyVars, loopVars
<1>0. /\ TypeOK /\ ChildInv /\ ConstructorInv
      /\ promise => child \in {"enter", "loop", "clear", "destroy", "ended"}
  BY DEF Inv, PromiseInv
<1>1. CASE Child
  <2>1. CASE ChildLock BY <1>0, <2>1 DEF ChildLock
  <2>2. CASE ChildCheck BY <1>0, <2>2 DEF ChildCheck
  <2>3. CASE ChildSleep BY <1>0, <2>3 DEF ChildSleep
  <2>4. CASE ChildRelock BY <1>0, <2>4 DEF ChildRelock
  <2>5. CASE ChildPublish BY <1>0, <2>5 DEF ChildPublish
  <2>6. CASE ChildFulfil BY <1>0, <2>6 DEF ChildFulfil
  <2>7. CASE ChildEnter BY <1>0, <2>7 DEF ChildEnter
  <2>8. CASE ChildExit BY <1>0, <2>8 DEF ChildExit
  <2>9. CASE ChildClear BY <1>0, <2>9 DEF ChildClear
  <2>10. CASE ChildDestroy BY <1>0, <2>10 DEF ChildDestroy
  <2> QED BY <1>1, <2>1, <2>2, <2>3, <2>4, <2>5, <2>6, <2>7, <2>8, <2>9, <2>10
          DEF Child
<1>2. CASE SpuriousWakeUp
  BY <1>0, <1>2 DEF SpuriousWakeUp
<1>3. CASE StartThread
  BY <1>0, <1>3 DEF StartThread, ConstructorInv
<1>4. CASE InitMembers
  BY <1>0, <1>4 DEF InitMembers, ConstructorInv
<1>5. CASE Join
  BY <1>0, <1>5 DEF Join
<1>6. ASSUME NEW t \in Threads, Thread(t) PROVE ChildInv'
  <2>1. CASE RunOnce(t) BY <1>0, <2>1 DEF RunOnce
  <2>2. CASE RunAgain(t) BY <1>0, <2>2 DEF RunAgain
  <2>3. CASE RunNotify(t) BY <1>0, <2>3 DEF RunNotify
  <2>4. CASE RunGet(t) BY <1>0, <2>4 DEF RunGet
  <2>5. CASE ReadLoop(t) BY <1>0, <2>5 DEF ReadLoop
  <2>6. CASE CallLoop(t) BY <1>0, <2>6 DEF CallLoop
  <2> QED BY <1>6, <2>1, <2>2, <2>3, <2>4, <2>5, <2>6 DEF Thread
<1>7. CASE UNCHANGED vars
  BY <1>0, <1>7 DEF vars
<1> QED BY <1>1, <1>2, <1>3, <1>4, <1>5, <1>6, <1>7 DEF Next, OwnerStep

\* The promise is kept once the loop is published, and call_once ends after it.
LEMMA PromiseStep == Inv /\ [Next]_vars => PromiseInv'
<1> SUFFICES ASSUME Inv, [Next]_vars PROVE PromiseInv'
  OBVIOUS
<1> USE DEF PromiseInv, memberVars, historyVars, loopVars
<1>0. TypeOK /\ PromiseInv /\ ConstructorInv /\ ChildInv
  BY DEF Inv
<1>1. CASE Child
  <2>1. CASE ChildLock BY <1>0, <2>1 DEF ChildLock
  <2>2. CASE ChildCheck BY <1>0, <2>2 DEF ChildCheck
  <2>3. CASE ChildSleep BY <1>0, <2>3 DEF ChildSleep
  <2>4. CASE ChildRelock BY <1>0, <2>4 DEF ChildRelock
  <2>5. CASE ChildPublish BY <1>0, <2>5 DEF ChildPublish
  <2>6. CASE ChildFulfil BY <1>0, <2>6 DEF ChildFulfil
  <2>7. CASE ChildEnter BY <1>0, <2>7 DEF ChildEnter
  <2>8. CASE ChildExit BY <1>0, <2>8 DEF ChildExit
  <2>9. CASE ChildClear BY <1>0, <2>9 DEF ChildClear
  <2>10. CASE ChildDestroy BY <1>0, <2>10 DEF ChildDestroy
  <2> QED BY <1>1, <2>1, <2>2, <2>3, <2>4, <2>5, <2>6, <2>7, <2>8, <2>9, <2>10
          DEF Child
<1>2. CASE SpuriousWakeUp
  BY <1>0, <1>2 DEF SpuriousWakeUp
<1>3. CASE StartThread
  BY <1>0, <1>3 DEF StartThread, ConstructorInv
<1>4. CASE InitMembers
  BY <1>0, <1>4 DEF InitMembers
<1>5. CASE Join
  BY <1>0, <1>5 DEF Join
<1>6. ASSUME NEW t \in Threads, Thread(t) PROVE PromiseInv'
  <2>1. CASE RunOnce(t)
    <3>1. UNCHANGED <<promise, child>> /\ (once' = "done" => t = "done")
      BY <2>1 DEF RunOnce
    <3>2. once = "new" /\ built = "done"
      BY <2>1 DEF RunOnce, At
    <3>3. t # "done"
      BY UsersAssumption
    <3> QED BY <1>0, <3>1, <3>2, <3>3
  <2>2. CASE RunAgain(t) BY <1>0, <2>2 DEF RunAgain
  <2>3. CASE RunNotify(t) BY <1>0, <2>3 DEF RunNotify, ChildInv
  <2>4. CASE RunGet(t) BY <1>0, <2>4 DEF RunGet
  <2>5. CASE ReadLoop(t) BY <1>0, <2>5 DEF ReadLoop
  <2>6. CASE CallLoop(t) BY <1>0, <2>6 DEF CallLoop
  <2> QED BY <1>6, <2>1, <2>2, <2>3, <2>4, <2>5, <2>6 DEF Thread
<1>7. CASE UNCHANGED vars
  BY <1>0, <1>7 DEF vars
<1> QED BY <1>1, <1>2, <1>3, <1>4, <1>5, <1>6, <1>7 DEF Next, OwnerStep

(***************************************************************************)
(* The constructor, startEventLoop, Run, Loop, Quit and the destructor     *)
(* keep the inductive invariant in every interleaving                      *)
(* (eventloopthread.cpp).                                                  *)
(***************************************************************************)
THEOREM InvariantHolds == Spec => []Inv
<1>1. Init => Inv
  <2> SUFFICES ASSUME Init PROVE Inv
    OBVIOUS
  <2>1. TypeOK
    <3>1. op \in [Threads -> Nat] /\ \A t \in Threads : op[t] = 1
      BY DEF Init
    <3>2. \A t \in Threads : op[t] \in 1..(Len(Ops(t)) + 1)
      BY <3>1, OpsAreFinite
    <3>3. pc \in [Threads -> {"ready", "notify", "get", "call"}]
      BY DEF Init
    <3> QED BY <3>1, <3>2, <3>3 DEF Init, TypeOK
  <2>2. ConstructorInv
    BY DEF Init, ConstructorInv
  <2>3. ChildInv /\ PromiseInv
    BY DEF Init, ChildInv, PromiseInv, NotYetRun
  <2> QED BY <2>1, <2>2, <2>3 DEF Inv
<1>2. Inv /\ [Next]_vars => Inv'
  BY TypeStep, ConstructorStep, ChildStep, PromiseStep DEF Inv
<1> QED BY <1>1, <1>2, PTL DEF Spec

(***************************************************************************)
(* When Run has returned, Loop() is the child's EventLoop and not null     *)
(* until somebody calls Quit (eventloopthread.cpp:29-61), for any number   *)
(* of threads that race to call Run and wherever the constructor's late    *)
(* initialisation meets the child.                                         *)
(***************************************************************************)
THEOREM LoopIsThereAfterRun == Spec => []LoopAfterRun
<1>1. Inv => LoopAfterRun
  BY DEF Inv, PromiseInv, ChildInv, LoopAfterRun
<1> QED BY <1>1, InvariantHolds, PTL
=============================================================================
