---------------------------- MODULE TimingWheel -----------------------------
(***************************************************************************)
(* The four-level timing wheel of src/tmms/network/net/timingwheel.cpp,    *)
(* driven by the OnTimer call that ends every iteration of the event loop. *)
(*                                                                         *)
(* A slot holds shared_ptrs.  Destroying the last pointer to an entry runs *)
(* its callback (~CallbackEntry, ~TimeoutEntry), so an entry that was      *)
(* inserted several times fires when the last of its slots is popped: that *)
(* is how ExtendLife postpones an idle timeout.  In the wheels above the   *)
(* first a slot holds wrappers that re-insert the entry with the remaining *)
(* delay; a wrapper is abstracted to the pair of entry and remainder.      *)
(*                                                                         *)
(* Operators named Bug... are deliberately wrong variants of the operator  *)
(* that follows them; no specification uses them.                          *)
(***************************************************************************)
EXTENDS Integers, Sequences

CONSTANTS Min, Hour, Day, \* KTimingMinute, KTimingHour, KTimingDay, in ticks
          Days,           \* slots of the day wheel
          Timers,         \* the entries
          Kind,           \* "once", "recurring", "idle"
          Conditional,    \* the timers of AddConditionTimer, once or recurring
          Delay,          \* delay[x] in seconds, as passed to InsertEntry
          Second,         \* clock units in a second (1000 ms in the code)
          MaxNow          \* bound on the clock

ASSUME WheelAssumption ==
  /\ Min \in Nat \ {0, 1} /\ Hour \in Nat \ {0} /\ Day \in Nat \ {0}
  /\ Hour % Min = 0 /\ Day % Hour = 0 /\ Days \in Nat \ {0}
ASSUME TimerAssumption ==
  /\ Kind \in [Timers -> {"once", "recurring", "idle"}]
  /\ Delay \in [Timers -> Nat]
  /\ Conditional \subseteq {x \in Timers : Kind[x] # "idle"}
  \* a recurring timer of less than a second, or of more than 30 days, is not
  \* stored, so its callback runs and adds it again, without end
  /\ \A x \in Timers : Kind[x] = "recurring" => Delay[x] \in 1..(Day * (Days + 1) - 1)
ASSUME ClockAssumption == Second \in Nat \ {0} /\ MaxNow \in Nat \ {0}

VARIABLES wheels,   \* wheels_: per level a queue of slots, the front one next
          tick,     \* tick_
          lastTs,   \* last_ts_
          now,      \* the clock OnTimer is given
          state,    \* of an entry: "new", "pending", "done"
          alive,    \* conditional timers whose condition can be locked
          since,    \* history: the tick of the latest insertion
          popped    \* history: entries whose callback ran in this step

wheelVars == <<wheels, tick, lastTs, now, state, alive, since, popped>>

Levels == {"second", "minute", "hour", "day"}
Size == [v \in Levels |-> CASE v = "second" -> Min
                            [] v = "minute" -> Hour \div Min
                            [] v = "hour"   -> Day \div Hour
                            [] v = "day"    -> Days]
Unit == [v \in Levels |-> CASE v = "second" -> 1 [] v = "minute" -> Min
                            [] v = "hour" -> Hour [] v = "day" -> Day]

Level(d) == IF d < Min THEN "second"
            ELSE IF d < Hour THEN "minute" ELSE IF d < Day THEN "hour" ELSE "day"
\* wheels_[kTimingTypeSecond][delay], one slot too far.
BugSlot(d) == IF Level(d) = "second" THEN 1 + d ELSE d \div Unit[Level(d)]
\* The slot counted from 1: [delay - 1], [minute - 1], ...
Slot(d) == d \div Unit[Level(d)]
\* The minutes without the seconds.
BugRest(d) == 0
\* The whole delay again.
BugWhole(d) == d
\* What InsertMinuteEntry and its siblings leave for the lower wheels.
Rest(d) == d % Unit[Level(d)]
\* A delay of 0 drops the pointer, more than 30 days is refused.
Storable(d) == d > 0 /\ d < Day * (Days + 1)

Ref(x, r) == [timer |-> x, rest |-> r]

\* InsertEntry(d, x) for every <<d, x>> of a set.
InsertAll(w, S) ==
  [v \in Levels |->
     [i \in 1..Size[v] |->
        w[v][i] \cup {Ref(e[2], Rest(e[1])) :
                      e \in {f \in S : /\ Storable(f[1])
                                       /\ Level(f[1]) = v
                                       /\ Slot(f[1]) = i}}]]

Referenced(w) ==
  {x \in Timers : \E v \in Levels : \E i \in 1..Size[v] :
                    \E r \in w[v][i] : r.timer = x}

\* Whether the callback of x runs, and whether it arms x again.
Runs(x) == x \in Conditional => x \in alive
Rearms(x) == Kind[x] = "recurring" /\ Runs(x)

\* Every popped entry fires, whoever else still refers to it.
BugLastRefs(front, w) == {r.timer : r \in {q \in front : q.rest = 0}}
\* The entries whose last pointer was in the popped slot.
LastRefs(front, w) == {r.timer : r \in front} \ Referenced(w)

\* PopUp of level v: rotate, then destroy the slot that was in front; wrappers
\* re-insert their entry, entries without another pointer fire.
PopUp(w, v) ==
  LET front == w[v][1]
      rotated == [w EXCEPT ![v] = Append(Tail(@), {})]
      lowered == InsertAll(rotated, {<<r.rest, r.timer>> : r \in front})
      gone == LastRefs(front, lowered)
  IN  [wheels |-> InsertAll(lowered, {<<Delay[x], x>> : x \in {y \in gone : Rearms(y)}}),
       gone |-> gone]

\* The if / else if chain of OnTimer: at most one upper wheel turns.
UpperWheel(t) == IF t % Min = 0 THEN {"minute"}
                 ELSE IF t % Hour = 0 THEN {"hour"}
                 ELSE IF t % Day = 0 THEN {"day"} ELSE {}

WheelsOK(w) ==
  /\ DOMAIN w = Levels
  /\ \A v \in Levels :
       w[v] \in [1..Size[v] -> SUBSET [timer : Timers, rest : 0..(Unit[v] - 1)]]

WheelTypeOK ==
  /\ WheelsOK(wheels)
  /\ tick \in Nat /\ now \in 1..MaxNow /\ lastTs \in 0..MaxNow
  /\ state \in [Timers -> {"new", "pending", "done"}]
  /\ alive \subseteq Timers /\ popped \subseteq Timers
  /\ since \in [Timers -> Nat]

WheelInit ==
  /\ wheels = [v \in Levels |-> [i \in 1..Size[v] |-> {}]]
  /\ tick = 0 /\ lastTs = 0 /\ now = 1
  /\ state = [x \in Timers |-> "new"]
  /\ alive = Timers /\ popped = {}
  /\ since = [x \in Timers |-> 0]

\* The clock moves on while the loop does something else.
Elapse == /\ now < MaxNow
          /\ now' = now + 1
          /\ popped' = {}
          /\ UNCHANGED <<wheels, tick, lastTs, state, alive, since>>

\* AddTimer, AddConditionTimer, InsertEntry of a new entry.  The caller's own
\* pointer goes away, so what cannot be stored fires at once.
Insert(x) ==
  /\ state[x] = "new"
  /\ wheels' = InsertAll(wheels, {<<Delay[x], x>>})
  /\ state' = [state EXCEPT ![x] = IF Storable(Delay[x]) THEN "pending" ELSE "done"]
  /\ since' = [since EXCEPT ![x] = tick]
  /\ popped' = IF Storable(Delay[x]) \/ ~Runs(x) THEN {} ELSE {x}
  /\ UNCHANGED <<tick, lastTs, now, alive>>

\* TcpConnection::ExtendLife: timeout_entry_.lock() succeeds while the entry is
\* pending, and the same entry is inserted once more.
Extend(x) ==
  /\ Kind[x] = "idle" /\ state[x] = "pending"
  /\ wheels' = InsertAll(wheels, {<<Delay[x], x>>})
  /\ since' = [since EXCEPT ![x] = tick]
  /\ popped' = {}
  /\ UNCHANGED <<tick, lastTs, now, state, alive>>

\* External: the object behind a conditional timer's weak_ptr goes away.
Expire(x) ==
  /\ x \in Conditional /\ x \in alive
  /\ alive' = alive \ {x}
  /\ popped' = {}
  /\ UNCHANGED <<wheels, tick, lastTs, now, state, since>>

\* One second has passed, or more: the wheel turns by one slot all the same, and
\* what the clock has gone beyond the second is forgotten.
Turn ==
  LET t == tick + 1
      s == PopUp(wheels, "second")
      u == {PopUp(s.wheels, v) : v \in UpperWheel(t)}
      gone == s.gone \cup UNION {p.gone : p \in u}
      again == {x \in gone : Rearms(x)}
  IN  /\ tick' = t
      /\ lastTs' = now
      /\ wheels' = IF u = {} THEN s.wheels ELSE (CHOOSE p \in u : TRUE).wheels
      /\ popped' = {x \in gone : Runs(x)}
      /\ state' = [x \in Timers |-> IF x \in gone \ again THEN "done" ELSE state[x]]
      /\ since' = [x \in Timers |-> IF x \in again THEN t ELSE since[x]]
      /\ UNCHANGED <<now, alive>>

\* last_ts_ is 0 until the first call, which only notes the time.
FirstCall == /\ lastTs = 0
             /\ lastTs' = now
             /\ popped' = {}
             /\ UNCHANGED <<wheels, tick, now, state, alive, since>>

\* OnTimer; a call within the same second returns without effect.
OnTimer == FirstCall \/ (lastTs # 0 /\ now - lastTs >= Second /\ Turn)

WheelNext == \/ Elapse \/ OnTimer
             \/ \E x \in Timers : Insert(x) \/ Extend(x) \/ Expire(x)

WheelSpec == WheelInit /\ [][WheelNext]_wheelVars

-----------------------------------------------------------------------------
(* Properties                                                              *)

\* Counted in turns of the second wheel, no timer of less than an hour is still
\* pending when its delay has elapsed, however insertions, extensions and the
\* turns of the two wheels interleave.  It says nothing of seconds: a turn is one
\* call of OnTimer after a second or more, so the clock may be ahead of the turns
\* by any amount, and every pending timer is late by what it gains.  (Longer
\* timers stay: UpperWheel never turns the wheels above the minutes.)
NotOverdue ==
  \A x \in Timers :
    (state[x] = "pending" /\ Delay[x] < Hour) => tick < since[x] + Delay[x]

InTime(x) ==
  \/ tick' + (IF Delay[x] < Min THEN 0 ELSE Min) >= since[x] + Delay[x]
  \/ ~Storable(Delay[x])

\* A callback never comes before its delay, counted in turns of the second wheel
\* from the latest insertion of its entry; with a delay of a minute or more it may
\* come early by the turns the current minute had already lasted, never by more.
NeverTooEarly == [][\A x \in popped' : InTime(x)]_wheelVars

\* An entry that has fired is nowhere in the wheels and never fires again; an
\* entry that has not is still referenced, so it cannot leak or be forgotten.
PendingIffReferenced ==
  \A x \in Timers : state[x] = "pending" <=> x \in Referenced(wheels)

-----------------------------------------------------------------------------
(* What makes it so, as an inductive invariant.  It is about any wheels w, *)
(* for it holds between the turns of the second and the minute wheel, too: *)
(* t is the tick, m that of the minute wheel's last turn.                  *)

Lower == {"second", "minute"}

\* The tick at which reference r in slot i of a lower wheel is used up.
Due(v, i, r, t, m) == IF v = "second" THEN t + i ELSE m + Min * i + r.rest

\* Every reference of a timer of less than an hour is used up in time.
Timely(w, t, m, s) ==
  \A v \in Levels : \A i \in 1..Size[v] : \A r \in w[v][i] :
    Delay[r.timer] < Hour =>
      v \in Lower /\ Due(v, i, r, t, m) <= s[r.timer] + Delay[r.timer]

\* A reference that is not used up too early, or never.
Slack(x) == IF Delay[x] < Min THEN 0 ELSE Min
Keeps(x, v, i, r, t, m, s) ==
  /\ r.timer = x
  /\ v \in Lower => Due(v, i, r, t, m) + Slack(x) >= s[x] + Delay[x]
Kept(w, t, m, s) ==
  \A x \in Referenced(w) :
    \E v \in Levels : \E i \in 1..Size[v] : \E r \in w[v][i] :
      Keeps(x, v, i, r, t, m, s)

LastMinute == tick - (tick % Min)

Inv ==
  /\ WheelTypeOK
  /\ PendingIffReferenced
  /\ \A x \in Timers : since[x] <= tick
  /\ \A x \in Timers : state[x] = "pending" => Storable(Delay[x])
  /\ Timely(wheels, tick, LastMinute, since)
  /\ Kept(wheels, tick, LastMinute, since)
=============================================================================
