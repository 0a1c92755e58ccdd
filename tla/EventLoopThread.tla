-------------------------- MODULE EventLoopThread ---------------------------
(***************************************************************************)
(* One EventLoopThread (src/tmms/network/net/eventloopthread.cpp): the     *)
(* constructor that starts the child thread, Run, the child's              *)
(* startEventLoop, and the destructor, with other threads that call Run    *)
(* and use Loop() in between.                                              *)
(*                                                                         *)
(* thread_ is declared before running_, lock_, condition_ and              *)
(* promise_loop_ (eventloopthread.h:26-31), so the child runs while these  *)
(* are still to be constructed.  They are then constructed under the       *)
(* child's hands: a data race whose effect is modelled for an object in    *)
(* zeroed storage (the globals of tests/): a mutex is free again and a     *)
(* condition variable has forgotten who waits.                             *)
(*                                                                         *)
(* Operators named Bug... are deliberately wrong variants of the operator  *)
(* that follows them; no specification uses them.                          *)
(***************************************************************************)
EXTENDS Integers, Sequences

CONSTANTS Owner,     \* the thread that constructs and destroys the object
          Users,     \* the other threads
          Program    \* what each of them does with it: "run", "use", "quit"

Threads == Users \cup {Owner}

\* The threads are distinct, and none is one of the other values of once.
ASSUME UsersAssumption == /\ Owner \notin Users
                          /\ {"new", "done"} \cap Threads = {}
ASSUME ProgramAssumption ==
  Program \in [Threads -> Seq({"run", "use", "quit"})]

\* The destructor: Run, Quit if loop_ is set, join.
Dtor == <<"run", "quit", "join">>

VARIABLES
  built,     \* the constructor: "no", "thread" (thread_ runs), "done"
  running,   \* running_
  lock,      \* lock_: "free" or "child" (Run holds it for one step)
  waiting,   \* condition_ knows that the child waits
  once,      \* once_: "new", "done", or the thread inside call_once
  promise,   \* promise_loop_ has its value
  published, \* loop_ points to the child's EventLoop
  alive,     \* that EventLoop exists
  looping,   \* its looping_
  quitMade,  \* history: Quit was called
  quitLost,  \* history: it was called before loop() set looping_
  overtaken, \* history: the child was inside before the members were constructed
  child,     \* where the child thread is
  pc, op     \* where each other thread is, and which of its operations is next

memberVars == <<running, lock, waiting, once, promise>>
historyVars == <<quitLost, overtaken>>
loopVars == <<published, alive, looping, quitMade>>
vars == <<built, running, lock, waiting, once, promise, published, alive,
          looping, quitMade, quitLost, overtaken, child, pc, op>>

Ops(t) == IF t = Owner THEN Program[t] \o Dtor ELSE Program[t]
Finished(t) == op[t] > Len(Ops(t))

TypeOK ==
  /\ built \in {"no", "thread", "done"}
  /\ running \in BOOLEAN /\ lock \in {"free", "child"}
  /\ waiting \in BOOLEAN /\ once \in {"new", "done"} \cup Threads
  /\ promise \in BOOLEAN /\ published \in BOOLEAN /\ alive \in BOOLEAN
  /\ looping \in BOOLEAN /\ quitMade \in BOOLEAN
  /\ quitLost \in BOOLEAN /\ overtaken \in BOOLEAN
  /\ child \in {"none", "start", "check", "sleep", "wait", "woken", "publish",
                "fulfil", "enter", "loop", "clear", "destroy", "ended"}
  /\ pc \in [Threads -> {"ready", "notify", "get", "call"}]
  /\ op \in [Threads -> Nat]
  /\ \A t \in Threads : op[t] \in 1..(Len(Ops(t)) + 1)

Init ==
  /\ built = "no" /\ running = FALSE /\ lock = "free" /\ waiting = FALSE
  /\ once = "new" /\ promise = FALSE /\ published = FALSE /\ alive = FALSE
  /\ looping = FALSE /\ quitMade = FALSE /\ child = "none"
  /\ quitLost = FALSE /\ overtaken = FALSE
  /\ pc = [t \in Threads |-> "ready"] /\ op = [t \in Threads |-> 1]

-----------------------------------------------------------------------------
(* The constructor, in the owner's thread.                                 *)

StartThread ==
  /\ built = "no"
  /\ built' = "thread"
  /\ child' = "start"
  /\ UNCHANGED <<memberVars, loopVars, pc, op, historyVars>>

\* The members after thread_ get their initial values.
InitMembers ==
  /\ built = "thread"
  /\ built' = "done"
  /\ running' = FALSE /\ lock' = "free" /\ waiting' = FALSE
  /\ once' = "new" /\ promise' = FALSE
  /\ overtaken' = (child # "start")
  /\ UNCHANGED <<loopVars, quitLost, child, pc, op>>

-----------------------------------------------------------------------------
(* startEventLoop, in the child thread.                                    *)

\* EventLoop loop; unique_lock lk(lock_).
ChildLock ==
  /\ child = "start" /\ lock = "free"
  /\ alive' = TRUE
  /\ lock' = "child"
  /\ child' = "check"
  /\ UNCHANGED <<built, running, waiting, once, promise, published, looping,
                 quitMade, pc, op, historyVars>>

\* condition_.wait(lk, running_): test, give the lock up and sleep, lock again.
ChildCheck ==
  /\ child = "check"
  /\ child' = IF running THEN "publish" ELSE "sleep"
  /\ UNCHANGED <<built, memberVars, loopVars, pc, op, historyVars>>

ChildSleep ==
  /\ child = "sleep"
  /\ lock' = "free"
  /\ waiting' = TRUE
  /\ child' = "wait"
  /\ UNCHANGED <<built, running, once, promise, loopVars, pc, op, historyVars>>

SpuriousWakeUp ==
  /\ child = "wait"
  /\ waiting' = FALSE
  /\ child' = "woken"
  /\ UNCHANGED <<built, running, lock, once, promise, loopVars, pc, op,
                 historyVars>>

ChildRelock ==
  /\ child = "woken" /\ lock = "free"
  /\ lock' = "child"
  /\ child' = "check"
  /\ UNCHANGED <<built, running, waiting, once, promise, loopVars, pc, op,
                 historyVars>>

\* loop_ = &loop
ChildPublish ==
  /\ child = "publish"
  /\ published' = TRUE
  /\ child' = "fulfil"
  /\ UNCHANGED <<built, memberVars, alive, looping, quitMade, pc, op,
                 historyVars>>

\* promise_loop_.set_value(1)
ChildFulfil ==
  /\ child = "fulfil"
  /\ promise' = TRUE
  /\ child' = "enter"
  /\ UNCHANGED <<built, running, lock, waiting, once, loopVars, pc, op,
                 historyVars>>

\* loop(): looping_ = true, whatever Quit did before.
ChildEnter ==
  /\ child = "enter"
  /\ looping' = TRUE
  /\ quitLost' = quitMade
  /\ child' = "loop"
  /\ UNCHANGED <<built, memberVars, published, alive, quitMade, overtaken, pc,
                 op>>

\* while (looping_) ends.
ChildExit ==
  /\ child = "loop" /\ ~looping
  /\ child' = "clear"
  /\ UNCHANGED <<built, memberVars, loopVars, pc, op, historyVars>>

\* loop_ = nullptr
ChildClear ==
  /\ child = "clear"
  /\ published' = FALSE
  /\ child' = "destroy"
  /\ UNCHANGED <<built, memberVars, alive, looping, quitMade, pc, op,
                 historyVars>>

\* lk and loop go out of scope.
ChildDestroy ==
  /\ child = "destroy"
  /\ lock' = "free"
  /\ alive' = FALSE
  /\ child' = "ended"
  /\ UNCHANGED <<built, running, waiting, once, promise, published, looping,
                 quitMade, pc, op, historyVars>>

Child == \/ ChildLock \/ ChildCheck \/ ChildSleep \/ ChildRelock
         \/ ChildPublish \/ ChildFulfil \/ ChildEnter \/ ChildExit
         \/ ChildClear \/ ChildDestroy

-----------------------------------------------------------------------------
(* The threads that use the object.  The owner destroys it when the others *)
(* are done with it.                                                       *)

At(t, o) ==
  /\ built = "done" /\ pc[t] = "ready" /\ ~Finished(t) /\ Ops(t)[op[t]] = o
  /\ t = Owner /\ op[t] > Len(Program[t]) => \A u \in Users : Finished(u)

Done(t) == pc' = [pc EXCEPT ![t] = "ready"] /\ op' = [op EXCEPT ![t] = @ + 1]
Go(t, where) == pc' = [pc EXCEPT ![t] = where] /\ UNCHANGED op

\* Run: call_once lets one caller in and makes the others wait for it.
RunOnce(t) ==
  /\ At(t, "run") /\ once = "new"
  /\ once' = t
  /\ Go(t, "notify")
  /\ UNCHANGED <<built, running, lock, waiting, promise, loopVars, child,
                 historyVars>>

RunAgain(t) ==
  /\ At(t, "run") /\ once = "done"
  /\ Done(t)
  /\ UNCHANGED <<built, memberVars, loopVars, child, historyVars>>

\* running_ is set without the lock.
BugRunNotify(t) ==
  /\ pc[t] = "notify"
  /\ running' = TRUE
  /\ waiting' = FALSE
  /\ child' = IF waiting THEN "woken" ELSE child
  /\ Go(t, "get")
  /\ UNCHANGED <<built, lock, once, promise, loopVars, historyVars>>
\* The lock_guard's scope includes f.get().
BugRunHoldsLock(t) ==
  /\ pc[t] = "notify" /\ lock = "free"
  /\ running' = TRUE
  /\ waiting' = FALSE
  /\ lock' = t
  /\ child' = IF waiting THEN "woken" ELSE child
  /\ Go(t, "get")
  /\ UNCHANGED <<built, once, promise, loopVars, historyVars>>
\* Under lock_: running_ = true, notify_all, which wakes the child if
\* condition_ knows of it.
RunNotify(t) ==
  /\ pc[t] = "notify" /\ lock = "free"
  /\ running' = TRUE
  /\ waiting' = FALSE
  /\ child' = IF waiting THEN "woken" ELSE child
  /\ Go(t, "get")
  /\ UNCHANGED <<built, lock, once, promise, loopVars, historyVars>>

\* Run does not wait for the future.
BugRunGet(t) ==
  /\ pc[t] = "get"
  /\ once' = "done"
  /\ Done(t)
  /\ UNCHANGED <<built, running, lock, waiting, promise, loopVars, child,
                 historyVars>>
\* f.get(), and call_once is over.
RunGet(t) ==
  /\ pc[t] = "get" /\ promise
  /\ once' = "done"
  /\ Done(t)
  /\ UNCHANGED <<built, running, lock, waiting, promise, loopVars, child,
                 historyVars>>

\* The destructor calls Quit only if the loop runs already.
BugReadLoop(t) ==
  /\ At(t, "use") \/ At(t, "quit")
  /\ IF published /\ (looping \/ Ops(t)[op[t]] # "quit")
     THEN Go(t, "call") ELSE Done(t)
  /\ UNCHANGED <<built, memberVars, loopVars, child, historyVars>>
\* Loop() is read; a caller does nothing with a null pointer.
ReadLoop(t) ==
  /\ At(t, "use") \/ At(t, "quit")
  /\ IF published THEN Go(t, "call") ELSE Done(t)
  /\ UNCHANGED <<built, memberVars, loopVars, child, historyVars>>

\* The pointer that was read is used: Quit, or some other function.
CallLoop(t) ==
  /\ pc[t] = "call"
  /\ IF Ops(t)[op[t]] = "quit"
     THEN looping' = FALSE /\ quitMade' = TRUE
     ELSE UNCHANGED <<looping, quitMade>>
  /\ Done(t)
  /\ UNCHANGED <<built, memberVars, published, alive, child, historyVars>>

\* thread_.join()
Join ==
  /\ At(Owner, "join") /\ child = "ended"
  /\ Done(Owner)
  /\ UNCHANGED <<built, memberVars, loopVars, child, historyVars>>

Thread(t) == \/ RunOnce(t) \/ RunAgain(t) \/ RunNotify(t) \/ RunGet(t)
             \/ ReadLoop(t) \/ CallLoop(t)
OwnerStep == StartThread \/ InitMembers \/ Join

Next == Child \/ SpuriousWakeUp \/ OwnerStep \/ \E t \in Threads : Thread(t)

Spec == Init /\ [][Next]_vars

\* Every thread is scheduled; lock_ is contended for only once or twice.
FairSpec == /\ Spec /\ WF_vars(Child) /\ WF_vars(OwnerStep)
            /\ \A t \in Threads : SF_vars(Thread(t))

-----------------------------------------------------------------------------
(* Properties.                                                             *)

\* When Run has returned, Loop() is the child's EventLoop until somebody calls
\* Quit.
LoopAfterRun == once = "done" /\ ~quitMade => published /\ alive

(***************************************************************************)
(* Why it is: the inductive invariant.  Until Run has been called the      *)
(* child is inside condition_.wait at the latest, whatever the constructor *)
(* wipes out under its hands; a thread inside a call is past the           *)
(* constructor and has an operation to finish; condition_ knows of the     *)
(* child only while it sleeps; and the child leaves loop() only after a    *)
(* Quit.                                                                   *)
(***************************************************************************)
NotYetRun == {"none", "start", "check", "sleep", "wait", "woken"}

ConstructorInv ==
  /\ built = "no" => child = "none"
  /\ built # "done" => ~running /\ once = "new" /\ ~promise
  /\ \A t \in Threads : pc[t] # "ready" => built = "done" /\ ~Finished(t)

ChildInv ==
  /\ ~running => child \in NotYetRun
  /\ waiting => child = "wait"
  /\ alive <=> child \notin {"none", "start", "ended"}
  /\ published <=> child \in {"fulfil", "enter", "loop", "clear"}
  /\ child = "loop" /\ ~looping => quitMade
  /\ child \in {"clear", "destroy", "ended"} => quitMade

PromiseInv ==
  /\ promise => child \in {"enter", "loop", "clear", "destroy", "ended"}
  /\ once = "done" => promise

Inv == TypeOK /\ ConstructorInv /\ ChildInv /\ PromiseInv

\* A call of Run returns, unless the constructor has wiped out the child's lock or
\* its place among those who wait: notify_all is not lost.
RunReturns ==
  \A t \in Threads : pc[t] = "notify" ~> pc[t] = "ready" \/ overtaken

\* The destructor's Quit ends the loop that Run has waited for and join returns,
\* with two exceptions: the child was ahead of the constructor, or Quit was ahead
\* of the child, which sets looping_ after it has fulfilled the promise.
DestructorEnds ==
  op[Owner] > Len(Program[Owner]) ~> Finished(Owner) \/ overtaken \/ quitLost
=============================================================================
