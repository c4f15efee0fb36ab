---------------------------- MODULE LatestValue ----------------------------
(***************************************************************************)
(* What a component that is reconfigured while it runs promises.  Requests *)
(* change the wanted value at any time; the component adopts values at     *)
(* moments of its own choosing.  It may skip a value that was overwritten  *)
(* before it looked, it never adopts one that was not wanted at that       *)
(* moment, and while it is live it does not stay behind the last request   *)
(* for ever.  No queue is promised: a burst of requests may be served by   *)
(* one adoption.                                                           *)
(***************************************************************************)
CONSTANT Values

VARIABLES want,   \* the value of the last request
          have,   \* the value the component works with
          live    \* has not been told to stop

vars == <<want, have, live>>

Init ==
  /\ want \in Values
  /\ have \in Values
  /\ live \in BOOLEAN

Request ==
  /\ want' \in Values
  /\ UNCHANGED <<have, live>>

Adopt ==
  /\ have' = want
  /\ UNCHANGED <<want, live>>

Launch ==
  /\ ~live
  /\ live' = TRUE
  /\ UNCHANGED <<want, have>>

Halt ==
  /\ live
  /\ live' = FALSE
  /\ UNCHANGED <<want, have>>

Next == Request \/ Adopt \/ Launch \/ Halt

CatchUp == live /\ Adopt

Safety == Init /\ [][Next]_vars

Spec == Safety /\ WF_vars(CatchUp)
============================================================================
