------------------------- MODULE PeriodicTaskProofs -------------------------
(***************************************************************************)
(* For every set of intervals, executions and callers: PeriodicTask is     *)
(* type correct, loses no change of its interval, and takes only steps     *)
(* that LatestValue allows.                                                *)
(***************************************************************************)
EXTENDS PeriodicTask, TLAPS

USE DEF vars, timerVars, execVars

(* A Task that was not started is in range.                                *)
THEOREM TypeInit == Init => TypeOK
  BY RunsAssumption DEF Init, TypeOK, Callers

(* One action at a time keeps the variables in their ranges.               *)
THEOREM TypeStep == TypeOK /\ [Next]_vars => TypeOK'
<1> SUFFICES ASSUME TypeOK, [Next]_vars PROVE TypeOK'
  OBVIOUS
<1> USE RunsAssumption DEF TypeOK, Callers
<1>1. CASE Start \/ Close
  BY <1>1 DEF Start, Close
<1>2. CASE Loop
  <2>1. CASE Launch
    BY <2>1 DEF Launch
  <2>2. CASE Collect
    BY <2>2 DEF Collect
  <2>3. CASE Timeout
    BY <2>3 DEF Timeout
  <2>4. CASE ReadInterval \/ Arm
    BY <2>4 DEF ReadInterval, Arm
  <2>5. CASE Tick \/ OnStop \/ OnChanged
    BY <2>5 DEF Tick, OnStop, OnChanged
  <2>6. QED
    BY <1>2, <2>1, <2>2, <2>3, <2>4, <2>5 DEF Loop
<1>3. CASE TimerFires
  BY <1>3 DEF TimerFires
<1>4. ASSUME NEW r \in Runs, Return(r) PROVE TypeOK'
  BY <1>4 DEF Return
<1>5. ASSUME NEW c \in Callers, NEW v \in Intervals, SetInterval(c, v) PROVE TypeOK'
  BY <1>5 DEF SetInterval
<1>6. ASSUME NEW c \in Callers, Send(c) PROVE TypeOK'
  BY <1>6 DEF Send
<1>7. CASE UNCHANGED vars
  BY <1>7
<1>8. QED
  BY <1>1, <1>2, <1>3, <1>4, <1>5, <1>6, <1>7 DEF Next

(* The variables of a Task stay in their ranges in every behaviour.        *)
THEOREM TypeCorrect == Spec => []TypeOK
  BY TypeInit, TypeStep, PTL DEF Spec

----------------------------------------------------------------------------

(* A caller that is about to send is still about to send after a step of   *)
(* anybody else.                                                           *)
LEMMA SendingKept ==
  ASSUME Sending, UNCHANGED setter
  PROVE  Sending'
  BY DEF Sending

(* Where neither the loop moves to "arm" or "select" nor the interval, the *)
(* channel or the callers change, nothing can be lost.                     *)
LEMMA TrackedFrame ==
  ASSUME Tracked, UNCHANGED <<interval, changed, setter, local, armed>>,
         running' => running,
         loop' \in {"arm", "select"} => loop' = loop
  PROVE  Tracked'
  BY DEF Tracked, IntervalTracked, Sending

(* Tracked is inductive: a signal that is taken is followed by a read,     *)
(* and an interval that changes after the read is followed by a signal.    *)
THEOREM TrackedStep == TypeOK /\ Tracked /\ [Next]_vars => Tracked'
<1> SUFFICES ASSUME TypeOK, Tracked, [Next]_vars PROVE Tracked'
  OBVIOUS
<1>1. CASE Start
  BY <1>1 DEF Start, Tracked, IntervalTracked
<1>2. CASE Close
  BY <1>2, TrackedFrame DEF Close
<1>3. CASE Launch \/ Collect \/ Timeout \/ Tick \/ OnStop \/ TimerFires
  BY <1>3, TrackedFrame DEF Launch, Collect, Timeout, Tick, OnStop, TimerFires
<1>4. CASE ReadInterval
  BY <1>4 DEF ReadInterval, Tracked, IntervalTracked
<1>5. CASE Arm
  BY <1>5, SendingKept DEF Arm, Tracked, IntervalTracked
<1>6. CASE OnChanged
  BY <1>6 DEF OnChanged, Tracked, IntervalTracked
<1>7. ASSUME NEW r \in Runs, Return(r) PROVE Tracked'
  BY <1>7, TrackedFrame DEF Return
<1>8. ASSUME NEW c \in Callers, NEW v \in Intervals, SetInterval(c, v) PROVE Tracked'
  <2>1. setter \in [Callers -> {"idle", "send"}]
    BY DEF TypeOK
  <2>2. CASE MustSignal(v)
    <3>1. setter'[c] = "send"
      BY <1>8, <2>1, <2>2 DEF SetInterval
    <3>2. QED
      BY <3>1 DEF Tracked, IntervalTracked, Sending
  <2>3. CASE ~MustSignal(v)
    <3>1. UNCHANGED <<running, changed, loop, local, armed>> /\ interval' = v
      BY <1>8 DEF SetInterval
    <3>2. UNCHANGED setter
      BY <1>8, <2>1, <2>3 DEF SetInterval, MayCall
    <3>3. v = interval \/ ~running
      BY <2>3 DEF MustSignal
    <3>4. QED
      BY <3>1, <3>2, <3>3, SendingKept DEF Tracked, IntervalTracked
  <2>4. QED
    BY <2>2, <2>3
<1>9. ASSUME NEW c \in Callers, Send(c) PROVE Tracked'
  BY <1>9 DEF Send, Tracked, IntervalTracked
<1>10. CASE UNCHANGED vars
  BY <1>10, TrackedFrame
<1>11. QED
  BY <1>1, <1>2, <1>3, <1>4, <1>5, <1>6, <1>7, <1>8, <1>9, <1>10 DEF Next, Loop

(* No interleaving of SetInterval, its late signal, the one-slot channel   *)
(* and the loop's read leaves a sleeping loop on an outdated interval with *)
(* nothing to wake it.                                                     *)
THEOREM NoIntervalLost == Spec => []IntervalTracked
<1>1. Init => Tracked
  BY DEF Init, Tracked, IntervalTracked
<1>2. Tracked => IntervalTracked
  BY DEF Tracked
<1>3. QED
  BY <1>1, <1>2, TypeCorrect, TrackedStep, PTL DEF Spec

----------------------------------------------------------------------------

(* A Task that was not started is an initial state of LatestValue.         *)
LEMMA InitFollows == Init => Follow!Init
  BY DEF Init, Follow!Init

(* Only ReadInterval changes the value the loop works with, and it adopts  *)
(* the one that is wanted at that moment.                                  *)
LEMMA StepFollows == TypeOK /\ [Next]_vars => [Follow!Next]_(Follow!vars)
<1> SUFFICES ASSUME TypeOK, [Next]_vars PROVE [Follow!Next]_(Follow!vars)
  OBVIOUS
<1> USE DEF Follow!vars
<1>1. CASE Start
  BY <1>1 DEF Start, TypeOK, Follow!Next, Follow!Launch
<1>2. CASE Close
  BY <1>2 DEF Close, Follow!Next, Follow!Halt
<1>3. CASE ReadInterval
  BY <1>3 DEF ReadInterval, Follow!Next, Follow!Adopt
<1>4. CASE Launch \/ Collect \/ Timeout \/ Arm \/ Tick \/ OnStop \/ OnChanged \/ TimerFires
  BY <1>4 DEF Launch, Collect, Timeout, Arm, Tick, OnStop, OnChanged, TimerFires
<1>5. ASSUME NEW r \in Runs, Return(r) PROVE [Follow!Next]_(Follow!vars)
  BY <1>5 DEF Return
<1>6. ASSUME NEW c \in Callers, NEW v \in Intervals, SetInterval(c, v)
      PROVE  [Follow!Next]_(Follow!vars)
  BY <1>6 DEF SetInterval, Follow!Next, Follow!Request
<1>7. ASSUME NEW c \in Callers, Send(c) PROVE [Follow!Next]_(Follow!vars)
  BY <1>7 DEF Send
<1>8. CASE UNCHANGED vars
  BY <1>8
<1>9. QED
  BY <1>1, <1>2, <1>3, <1>4, <1>5, <1>6, <1>7, <1>8 DEF Next, Loop

(* Every behaviour of a Task is one that LatestValue allows, its fairness  *)
(* aside, which is left to TLC.                                            *)
THEOREM FollowsSafely == Spec => Follow!Safety
  BY InitFollows, StepFollows, TypeCorrect, PTL DEF Spec, Follow!Safety
============================================================================
