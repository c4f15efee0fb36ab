---------------------------- MODULE PeriodicTask ----------------------------
(***************************************************************************)
(* common/task/task.go: the goroutine that calls Execute once per          *)
(* interval, gives up waiting for it after a timeout, follows SetInterval  *)
(* while it sleeps, and is told to stop through a channel.                 *)
(*                                                                         *)
(* Three kinds of goroutines share a Task: its loop; the goroutines that   *)
(* run Execute (one per execution, and ExecuteWithTimeout abandons the     *)
(* ones that outlive the timeout); and the goroutines of other tasks that  *)
(* call SetInterval on it (nodeInfoMonitor sets both its own interval and  *)
(* that of reportUserTrafficTask).  SetInterval writes t.Interval under    *)
(* the lock and signals the loop after it has released the lock, so other  *)
(* steps fall between the two.                                             *)
(*                                                                         *)
(* Time is abstract: the timer of an armed loop and the deadline of an     *)
(* execution may pass at any moment.                                       *)
(***************************************************************************)
EXTENDS Naturals

CONSTANTS Intervals,  \* the durations the panel asks for
          Runs,       \* identities of executions: at most this many overlap
          NoRun,      \* the loop waits for no execution
          Peers       \* executions of other tasks that call SetInterval here

ASSUME RunsAssumption == NoRun \notin Runs
ASSUME PeersAssumption == Runs \cap Peers = {}

VARIABLES interval,   \* t.Interval
          running,    \* t.Running; once Start was called, FALSE = t.Stop closed
          changed,    \* t.changed, a channel with one slot, holds a signal
          loop,       \* where the loop's goroutine is
          local,      \* the loop's variable interval
          armed,      \* the duration its timer was last set to
          fired,      \* timer.C holds a tick
          cur,        \* the execution ExecuteWithTimeout waits for
          exec,       \* what each execution's goroutine does
          setter      \* where each caller is inside SetInterval

vars == <<interval, running, changed, loop, local, armed, fired, cur, exec, setter>>
timerVars == <<local, armed, fired>>
execVars == <<cur, exec>>

Callers == Runs \cup Peers

----------------------------------------------------------------------------

Init ==
  /\ interval \in Intervals
  /\ running = FALSE
  /\ changed = FALSE
  /\ loop = "idle"
  /\ local = interval
  /\ armed = interval
  /\ fired = FALSE
  /\ cur = NoRun
  /\ exec = [r \in Runs |-> "none"]
  /\ setter = [c \in Callers |-> "idle"]

(* Start(first): the loop's goroutine begins with an execution, for the    *)
(* renewal of certificates, or with reading the interval, for the others.  *)
Start ==
  /\ loop = "idle"
  /\ ~running
  /\ running' = TRUE
  /\ \E first \in BOOLEAN : loop' = IF first THEN "launch" ELSE "read"
  /\ UNCHANGED <<interval, changed, timerVars, execVars, setter>>

(* safeStop: clears Running and closes t.Stop; nobody waits for the loop.  *)
Close ==
  /\ running
  /\ running' = FALSE
  /\ UNCHANGED <<interval, changed, loop, timerVars, execVars, setter>>

----------------------------------------------------------------------------
(* The loop.                                                               *)

(* ExecuteWithTimeout starts a goroutine for Execute.                      *)
Launch ==
  /\ loop = "launch"
  /\ \E r \in Runs :
       /\ exec[r] = "none"
       /\ exec' = [exec EXCEPT ![r] = "body"]
       /\ cur' = r
  /\ loop' = "wait"
  /\ UNCHANGED <<interval, running, changed, timerVars, setter>>

(* <-done: Execute's result arrived; an error is logged and the loop goes  *)
(* on as after a success.                                                  *)
Collect ==
  /\ loop = "wait"
  /\ exec[cur] = "sent"
  /\ exec' = [exec EXCEPT ![cur] = "none"]
  /\ cur' = NoRun
  /\ loop' = "read"
  /\ UNCHANGED <<interval, running, changed, timerVars, setter>>

\* A wait without the deadline.
TimeoutNever == FALSE

\* A timeout that forgets that nobody waits any more.
TimeoutStillCurrent ==
  /\ loop = "wait"
  /\ loop' = "read"
  /\ UNCHANGED <<interval, running, changed, timerVars, execVars, setter>>

(* <-ctx.Done(): the loop stops waiting.  The goroutine of the execution   *)
(* goes on; its result, if it comes, stays in the buffered channel.        *)
Timeout ==
  /\ loop = "wait"
  /\ exec' = [exec EXCEPT ![cur] = IF @ = "sent" THEN "none" ELSE @]
  /\ cur' = NoRun
  /\ loop' = "read"
  /\ UNCHANGED <<interval, running, changed, timerVars, setter>>

(* interval = t.currentInterval(), under the read lock.                    *)
ReadInterval ==
  /\ loop = "read"
  /\ local' = interval
  /\ loop' = "arm"
  /\ UNCHANGED <<interval, running, changed, armed, fired, execVars, setter>>

(* time.NewTimer or resetTimer: a tick that waits in timer.C is drained.   *)
Arm ==
  /\ loop = "arm"
  /\ armed' = local
  /\ fired' = FALSE
  /\ loop' = "select"
  /\ UNCHANGED <<interval, running, changed, local, execVars, setter>>

TimerFires ==
  /\ loop = "select"
  /\ ~fired
  /\ fired' = TRUE
  /\ UNCHANGED <<interval, running, changed, loop, local, armed, execVars, setter>>

(* <-timer.C                                                               *)
Tick ==
  /\ loop = "select"
  /\ fired
  /\ \E r \in Runs : exec[r] = "none"
  /\ fired' = FALSE
  /\ loop' = "launch"
  /\ UNCHANGED <<interval, running, changed, local, armed, execVars, setter>>

\* A safeStop that clears Running and leaves t.Stop open.
OnStopIgnored == FALSE

(* <-t.Stop                                                                *)
OnStop ==
  /\ loop = "select"
  /\ ~running
  /\ loop' = "exited"
  /\ UNCHANGED <<interval, running, changed, timerVars, execVars, setter>>

\* A loop that takes the signal and keeps the timer it has.
OnChangedNoReset ==
  /\ loop = "select"
  /\ changed
  /\ changed' = FALSE
  /\ UNCHANGED <<interval, running, loop, timerVars, execVars, setter>>

(* <-t.changed: read the interval again and restart the timer, without     *)
(* executing.                                                              *)
OnChanged ==
  /\ loop = "select"
  /\ changed
  /\ changed' = FALSE
  /\ loop' = "read"
  /\ UNCHANGED <<interval, running, timerVars, execVars, setter>>

----------------------------------------------------------------------------
(* Executions and the other callers of SetInterval.                        *)

(* Execute returns: done has a buffer of one, so the goroutine ends even   *)
(* when nobody waits for it any more.                                      *)
Return(r) ==
  /\ exec[r] = "body"
  /\ setter[r] = "idle"
  /\ exec' = [exec EXCEPT ![r] = IF r = cur THEN "sent" ELSE "none"]
  /\ UNCHANGED <<interval, running, changed, loop, timerVars, cur, setter>>

MayCall(c) == setter[c] = "idle" /\ (c \in Runs => exec[c] = "body")

(* The signal is sent when the value differs and the task runs.            *)
MustSignal(v) == v # interval /\ running

(* SetInterval up to the unlock.                                           *)
SetInterval(c, v) ==
  /\ MayCall(c)
  /\ interval' = v
  /\ setter' = [setter EXCEPT ![c] = IF MustSignal(v) THEN "send" ELSE "idle"]
  /\ UNCHANGED <<running, changed, loop, timerVars, execVars>>

\* An unbuffered channel: the signal is lost unless the loop sits in select.
SendUnbuffered(c) ==
  /\ setter[c] = "send"
  /\ setter' = [setter EXCEPT ![c] = "idle"]
  /\ changed' = (changed \/ loop = "select")
  /\ UNCHANGED <<interval, running, loop, timerVars, execVars>>

(* The non-blocking send after the unlock: when the slot is taken, the     *)
(* signal that is there stands for this one too.                           *)
Send(c) ==
  /\ setter[c] = "send"
  /\ setter' = [setter EXCEPT ![c] = "idle"]
  /\ changed' = TRUE
  /\ UNCHANGED <<interval, running, loop, timerVars, execVars>>

----------------------------------------------------------------------------

Loop == Launch \/ Collect \/ Timeout \/ ReadInterval \/ Arm \/ Tick \/ OnStop \/ OnChanged

Next ==
  \/ Start
  \/ Close
  \/ Loop
  \/ TimerFires
  \/ \E r \in Runs : Return(r)
  \/ \E c \in Callers, v \in Intervals : SetInterval(c, v)
  \/ \E c \in Callers : Send(c)

(* The goroutines that can run do run: the loop always has a next step out *)
(* of a timeout, and a send does not block.  select picks a ready case at  *)
(* random, so a closed t.Stop is not passed over for ever.  Nothing is     *)
(* assumed of Execute: it may hang.                                        *)
Fairness ==
  /\ WF_vars(Loop)
  /\ SF_vars(OnStop)
  /\ \A c \in Callers : WF_vars(Send(c))

Spec == Init /\ [][Next]_vars /\ Fairness

----------------------------------------------------------------------------
(* Properties                                                              *)

(* The variables keep to their ranges, and the loop waits for an execution *)
(* exactly while it is in ExecuteWithTimeout.                              *)
TypeOK ==
  /\ interval \in Intervals
  /\ running \in BOOLEAN
  /\ changed \in BOOLEAN
  /\ loop \in {"idle", "launch", "wait", "read", "arm", "select", "exited"}
  /\ local \in Intervals
  /\ armed \in Intervals
  /\ fired \in BOOLEAN
  /\ cur \in Runs \cup {NoRun}
  /\ loop = "wait" <=> cur # NoRun
  /\ exec \in [Runs -> {"none", "body", "sent"}]
  /\ setter \in [Callers -> {"idle", "send"}]

Sending == \E c \in Callers : setter[c] = "send"

(* A running loop that sleeps on an interval that is no longer t.Interval  *)
(* has a signal waiting, or a caller of SetInterval is about to send one:  *)
(* no interleaving of the unlock, the one-slot channel and the loop's read *)
(* loses a change of the interval.                                         *)
IntervalTracked ==
  running /\ loop = "select" /\ armed # interval => changed \/ Sending

(* IntervalTracked is not inductive: the loop takes the value it arms the  *)
(* timer with one step before it does.  This is.                           *)
Tracked ==
  /\ IntervalTracked
  /\ running /\ loop = "arm" /\ local # interval => changed \/ Sending

(* The loop comes back to its select, or has left it for good, however     *)
(* long an Execute hangs: a silent panel does not stop the task ("keep     *)
(* serving with the last known data and retry on the next tick").          *)
LoopResponsive == [](loop # "idle" => <>(loop \in {"select", "exited"}))

(* After Close the loop's goroutine ends.                                  *)
StopHonoured == (loop # "idle" /\ ~running) ~> (loop = "exited")

(* The task follows SetInterval as LatestValue promises.                   *)
Follow == INSTANCE LatestValue
            WITH Values <- Intervals, want <- interval, have <- local, live <- running

FollowsLatest == Follow!Spec
============================================================================
