----------------------------- MODULE MCUserSync -----------------------------
(* UserSync on three users, one of them unusable for the core, two pairs   *)
(* of limits, two overlapping executions, and the lists that tell the      *)
(* cases apart: nobody; one user; other limits; an exchange of users; one  *)
(* user too many.                                                          *)
EXTENDS UserSync

CONSTANTS u1, u2, bad, slow, fast

MCLists ==
  {[u \in {} |-> slow], [u \in {u1} |-> slow], [u \in {u1} |-> fast],
   [u \in {u1, u2} |-> slow], [u \in {u2} |-> fast],
   [u \in {u1, u2, bad} |-> fast]}
============================================================================
