----------------------------- MODULE MCDispatch -----------------------------
(* Dispatch on two users and three connections, which are alike.           *)
EXTENDS Dispatch, TLC

Alike == Permutations(Users) \cup Permutations(Conns)
============================================================================
