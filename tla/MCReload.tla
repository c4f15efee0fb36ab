------------------------------ MODULE MCReload ------------------------------
(* Reload on one or two nodes.  The contents of the config file: all       *)
(* nodes, all nodes with other log settings, one node with other dial      *)
(* settings.  The answers of the panel: two that Prepare makes equal, and  *)
(* a third that differs in the core.                                       *)
EXTENDS Reload

CONSTANTS n1, n2, both, logged, single, b1, b2, b3

OneTag == {n1}
TwoTags == {n1, n2}
AllConfs == {both, logged, single}
TwoConfs == {both, single}
AllBodies == {b1, b2, b3}
TwoBodies == {b1, b3}
MCFirstConfs == {both}
MCFirstBodies == {b1}
MCNodes == [c \in Confs |-> IF c = single THEN {n1} ELSE Tags]
MCLocal == [c \in Confs |-> IF c = single THEN "single" ELSE "both"]
MCFp == [b \in Bodies |-> CASE b = b1 -> "plain" [] b = b2 -> "mixed" [] b = b3 -> "other"]
MCSettled == [f \in {"plain", "mixed", "other"} |-> IF f = "mixed" THEN "plain" ELSE f]
============================================================================
