----------------------------- MODULE MCTraffic -----------------------------
(* Traffic on two users, connections and executions, which are alike.      *)
EXTENDS Traffic, TLC

Alike ==
  Permutations(Users) \cup Permutations(Conns) \cup Permutations(Packets) \cup Permutations(Execs)
============================================================================
