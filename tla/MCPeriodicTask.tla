--------------------------- MODULE MCPeriodicTask ---------------------------
(* PeriodicTask on two overlapping executions, one goroutine of another    *)
(* task and three intervals.                                               *)
EXTENDS PeriodicTask
============================================================================
