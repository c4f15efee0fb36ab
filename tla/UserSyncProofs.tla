--------------------------- MODULE UserSyncProofs ---------------------------
(***************************************************************************)
(* For every set of users and lists and any number of overlapping          *)
(* executions: UserSync is type correct, every user of the core has an id, *)
(* and the four copies of the list agree between executions until one      *)
(* fails half-way or is abandoned.                                         *)
(***************************************************************************)
EXTENDS UserSync, TLAPS

USE DEF vars, applied, Stages

(* Lists are functions on sets of users.                                   *)
LEMMA ListShape ==
  ASSUME NEW l \in Lists
  PROVE  DOMAIN l \subseteq Users /\ l = [u \in DOMAIN l |-> l[u]]
<1>1. PICK S \in SUBSET Users : l \in [S -> Limits]
  BY ListsAssumption
<1>2. QED
  BY <1>1

Differences == [deleted : SUBSET Users, added : SUBSET Users, modified : SUBSET Users]

(* The difference of two lists is one of sets of users.                    *)
LEMMA DiffType ==
  ASSUME NEW old \in Lists, NEW new \in Lists
  PROVE  Diff(old, new) \in Differences
  BY ListShape DEF Diff, Differences

(* Deleting, adding and changing what differs turns the old list into the  *)
(* new one.                                                                *)
LEMMA DiffApplies ==
  ASSUME NEW old \in Lists, NEW new \in Lists, limits = old
  PROVE  /\ Update(new, Diff(old, new)) = new
         /\ (DOMAIN old \ Diff(old, new).deleted) \cup Diff(old, new).added = DOMAIN new
<1> DEFINE d == Diff(old, new)
<1>1. /\ d.deleted = DOMAIN old \ DOMAIN new /\ d.added = DOMAIN new \ DOMAIN old
      /\ d.modified = {u \in DOMAIN old \cap DOMAIN new : old[u] # new[u]}
  BY DEF Diff
<1>2. (DOMAIN old \ d.deleted) \cup d.added = DOMAIN new
  BY <1>1
<1>3. \A u \in DOMAIN new : (IF u \in d.added \cup d.modified THEN new[u] ELSE old[u]) = new[u]
  BY <1>1
<1>4. Update(new, d) = [u \in DOMAIN new |-> new[u]]
  BY <1>2, <1>3 DEF Update
<1>5. QED
  BY <1>2, <1>4, ListShape

----------------------------------------------------------------------------

(* A controller that has started is in range.                              *)
THEOREM TypeInit == Init => TypeOK
<1> SUFFICES ASSUME Init PROVE TypeOK
  OBVIOUS
<1>1. panel \in Lists /\ DOMAIN panel \subseteq Users
  BY ListShape DEF Init
<1>2. changes \in 0..MaxChanges
  BY BoundAssumption DEF Init
<1>3. NoDiff \in [deleted : SUBSET Users, added : SUBSET Users, modified : SUBSET Users]
  BY DEF NoDiff
<1>4. QED
  BY <1>1, <1>2, <1>3 DEF Init, TypeOK

(* An execution that returns leaves the executions in range.               *)
LEMMA FinishType ==
  ASSUME TypeOK, NEW e \in Execs, Finish(e)
  PROVE  /\ at' \in [Execs -> Stages]
         /\ got' \in [Execs -> Lists \cup {None}]
         /\ diff' \in [Execs -> Differences]
         /\ waiting' \in Execs \cup {None}
         /\ \A x \in Execs : at'[x] \in {"idle", "list"} => got'[x] = None
         /\ \A x \in Execs : at'[x] \in {"delete", "add", "update"} => got'[x] # None
         /\ waiting' # None => at'[waiting'] # "idle"
<1> USE DEF TypeOK, Finish, Differences
<1>1. NoDiff \in Differences
  BY DEF NoDiff
<1>2. diff' \in [Execs -> Differences]
  BY <1>1
<1>3. at' \in [Execs -> Stages] /\ got' \in [Execs -> Lists \cup {None}]
  OBVIOUS
<1>4. \A x \in Execs : /\ at'[x] = IF x = e THEN "idle" ELSE at[x]
                       /\ got'[x] = IF x = e THEN None ELSE got[x]
  OBVIOUS
<1>5. waiting' \in Execs \cup {None}
  OBVIOUS
<1>6. waiting' # None => at'[waiting'] # "idle"
  BY <1>4
<1>7. QED
  BY <1>2, <1>3, <1>4, <1>5, <1>6

(* One action at a time keeps the variables in their ranges.               *)
THEOREM TypeStep == TypeOK /\ [Next]_vars => TypeOK'
<1> SUFFICES ASSUME TypeOK, [Next]_vars PROVE TypeOK'
  OBVIOUS
<1>1. CASE UNCHANGED vars
  BY <1>1 DEF TypeOK
<1>2. CASE PanelChanges
  BY <1>2, BoundAssumption DEF PanelChanges, TypeOK
<1>3. ASSUME NEW e \in Execs, Tick(e) PROVE TypeOK'
  BY <1>3, NoneAssumption DEF Tick, TypeOK
<1>4. ASSUME NEW e \in Execs, ListUnchanged(e) PROVE TypeOK'
  BY <1>4 DEF ListUnchanged, TypeOK
<1>5. ASSUME NEW e \in Execs, ListPulled(e) PROVE TypeOK'
  BY <1>5, NoneAssumption DEF ListPulled, TypeOK
<1>6. ASSUME NEW e \in Execs, ListFails(e) PROVE TypeOK'
  BY <1>6, FinishType DEF ListFails, TypeOK, Differences
<1>7. ASSUME NEW e \in Execs, AliveDone(e) PROVE TypeOK'
  <2>1. CASE got[e] = None
    BY <1>7, <2>1, FinishType DEF AliveDone, TypeOK, Differences
  <2>2. CASE got[e] # None
    <3>1. Diff(userList, got[e]) \in Differences
      BY <2>2, DiffType DEF TypeOK
    <3>2. diff' \in [Execs -> Differences]
      BY <1>7, <2>2, <3>1 DEF AliveDone, TypeOK, Differences
    <3>3. /\ at' = [at EXCEPT ![e] = "delete"]
          /\ UNCHANGED <<panel, changes, etag, applied, got, waiting, hurt>>
      BY <1>7, <2>2 DEF AliveDone
    <3>4. QED
      BY <2>2, <3>2, <3>3 DEF TypeOK, Differences
  <2>3. QED
    BY <2>1, <2>2
<1>8. ASSUME NEW e \in Execs, DeleteUsers(e) PROVE TypeOK'
  BY <1>8 DEF DeleteUsers, TypeOK
<1>9. ASSUME NEW e \in Execs, AddUsers(e) PROVE TypeOK'
  BY <1>9 DEF AddUsers, TypeOK
<1>10. ASSUME NEW e \in Execs, DeleteFails(e) \/ AddFails(e) PROVE TypeOK'
  <2>1. core' \in SUBSET Users /\ uids' \in SUBSET Users
    BY <1>10 DEF DeleteFails, AddFails, Addable, TypeOK
  <2>2. Finish(e) /\ hurt' \in BOOLEAN /\ UNCHANGED <<panel, changes, etag, userList, limits>>
    BY <1>10 DEF DeleteFails, AddFails
  <2>3. QED
    BY <2>1, <2>2, FinishType DEF TypeOK, Differences
<1>11. ASSUME NEW e \in Execs, UpdateLimiter(e) PROVE TypeOK'
  <2>1. userList' \in Lists /\ DOMAIN limits' \subseteq Users
    BY <1>11 DEF UpdateLimiter, Update, TypeOK
  <2>2. Finish(e) /\ UNCHANGED <<panel, changes, etag, core, uids, hurt>>
    BY <1>11 DEF UpdateLimiter
  <2>3. QED
    BY <2>1, <2>2, FinishType DEF TypeOK, Differences
<1>12. ASSUME NEW e \in Execs, Timeout(e) PROVE TypeOK'
  <2>1. hurt' \in BOOLEAN /\ UNCHANGED <<panel, changes, etag, applied>>
    BY <1>12 DEF Timeout
  <2>2. CASE at[e] \in {"list", "alive"}
    <3>1. Finish(e)
      BY <1>12, <2>2 DEF Timeout
    <3>2. QED
      BY <2>1, <3>1, FinishType DEF TypeOK, Differences
  <2>3. CASE at[e] \notin {"list", "alive"}
    BY <1>12, <2>1, <2>3 DEF Timeout, TypeOK
  <2>4. QED
    BY <2>2, <2>3
<1>13. QED
  BY <1>1, <1>2, <1>3, <1>4, <1>5, <1>6, <1>7, <1>8, <1>9, <1>10, <1>11, <1>12 DEF Next, Apply

(* The variables of UserSync stay in their ranges in every behaviour.      *)
THEOREM TypeCorrect == Spec => []TypeOK
  BY TypeInit, TypeStep, PTL DEF Spec

----------------------------------------------------------------------------

(* No failure and no overlap of executions leaves a user in the core whose *)
(* traffic could not be reported.                                          *)
THEOREM AlwaysBillable == Spec => []BillingKnown
<1>1. Init => BillingKnown
  BY DEF Init, BillingKnown
<1>2. BillingKnown /\ [Next]_vars => BillingKnown'
  <2> SUFFICES ASSUME BillingKnown, [Next]_vars PROVE BillingKnown'
    OBVIOUS
  <2>1. CASE UNCHANGED <<core, uids>>
    BY <2>1 DEF BillingKnown
  <2>2. ASSUME NEW e \in Execs, DeleteUsers(e) \/ DeleteFails(e) PROVE BillingKnown'
    BY <2>2 DEF DeleteUsers, DeleteFails, BillingKnown
  <2>3. ASSUME NEW e \in Execs, AddUsers(e) \/ AddFails(e) PROVE BillingKnown'
    BY <2>3 DEF AddUsers, AddFails, Addable, BillingKnown
  <2>4. QED
    BY <2>1, <2>2, <2>3
       DEF Next, Apply, PanelChanges, Tick, ListUnchanged, ListPulled, ListFails, AliveDone,
           UpdateLimiter, Timeout
<1>3. QED
  BY <1>1, <1>2, PTL DEF Spec

----------------------------------------------------------------------------
(* The copies agree.                                                       *)

(* At the start they do, and nothing runs.                                 *)
LEMMA InStepInit == Init => InStep
  BY DEF Init, InStep, Halfway, Agree

(* A step that leaves the copies, the stages and the task alone.           *)
LEMMA InStepFrame ==
  ASSUME InStep, UNCHANGED <<etag, applied, at, got, diff, waiting, hurt>>
  PROVE  InStep'
  BY DEF InStep, Halfway, Agree

(* Once an execution failed half-way or was abandoned nothing is claimed.  *)
LEMMA HurtStep == ASSUME hurt' PROVE InStep'
  BY DEF InStep

(* An execution that returns with the copies in agreement: no other was    *)
(* running.                                                                *)
LEMMA FinishInStep ==
  ASSUME TypeOK, InStep, ~hurt, NEW e \in Execs, at[e] # "idle", Finish(e), Agree(etag)'
  PROVE  InStep'
<1>1. \A x \in Execs : at'[x] = "idle" /\ Agree(etag)'
  BY DEF InStep, TypeOK, Finish
<1>2. QED
  BY <1>1 DEF InStep, Halfway

(* A step of the only execution there is, which goes on.                   *)
LEMMA OnlyInStep ==
  ASSUME TypeOK, InStep, ~hurt, NEW e \in Execs, at[e] # "idle",
         NEW stage, stage # "idle", at' = [at EXCEPT ![e] = stage], UNCHANGED waiting,
         stage = "list" => Agree(etag)', Halfway(e)'
  PROVE  InStep'
<1>1. waiting = e /\ \A x \in Execs \ {e} : at[x] = "idle"
  BY DEF InStep
<1>2. at'[e] = stage /\ \A x \in Execs \ {e} : at'[x] = "idle"
  BY <1>1 DEF TypeOK
<1>3. waiting' = e /\ waiting' # None
  BY <1>1, NoneAssumption
<1>4. \A x \in Execs : Halfway(x)'
  BY <1>2 DEF Halfway
<1>5. QED
  BY <1>2, <1>3, <1>4 DEF InStep

(* InStep is inductive: one execution at a time takes the copies from one  *)
(* list to the next.                                                       *)
THEOREM InStepStep == TypeOK /\ InStep /\ [Next]_vars => InStep'
<1> SUFFICES ASSUME TypeOK, InStep, [Next]_vars PROVE InStep'
  OBVIOUS
<1>1. CASE UNCHANGED vars \/ PanelChanges
  BY <1>1, InStepFrame DEF PanelChanges
<1>2. CASE hurt
  <2>1. hurt'
    BY <1>1, <1>2 DEF Next, Apply, PanelChanges, Tick, ListUnchanged, ListPulled, ListFails,
                      AliveDone, DeleteUsers, DeleteFails, AddUsers, AddFails, UpdateLimiter,
                      Timeout
  <2>2. QED
    BY <2>1, HurtStep
<1>3. ASSUME ~hurt, NEW e \in Execs, Tick(e) PROVE InStep'
  <2>1. \A x \in Execs : at[x] = "idle"
    BY <1>3, NoneAssumption DEF Tick, InStep, TypeOK
  <2>2. Agree(etag)'
    BY <1>3, <2>1 DEF Tick, InStep, Agree
  <2>3. /\ at'[e] = "list" /\ \A x \in Execs \ {e} : at'[x] = "idle"
        /\ waiting' = e
    BY <1>3, <2>1 DEF Tick, TypeOK
  <2>4. QED
    BY <2>2, <2>3 DEF InStep, Halfway
<1>4. ASSUME ~hurt, NEW e \in Execs, ListUnchanged(e) PROVE InStep'
  <2>1. Agree(etag)' /\ got'[e] = None
    BY <1>4 DEF ListUnchanged, InStep, Agree, TypeOK
  <2>2. at'[e] = "alive"
    BY <1>4 DEF ListUnchanged, TypeOK
  <2>3. Halfway(e)'
    BY <2>1, <2>2 DEF Halfway
  <2>4. QED
    BY <1>4, <2>3, OnlyInStep DEF ListUnchanged
<1>5. ASSUME ~hurt, NEW e \in Execs, ListPulled(e) PROVE InStep'
  <2>1. Agree(etag)
    BY <1>5 DEF ListPulled, InStep
  <2>2. /\ got'[e] = panel /\ etag' = panel /\ panel # None
        /\ at'[e] = "alive" /\ Agree(userList)'
    BY <1>5, <2>1, NoneAssumption DEF ListPulled, TypeOK, Agree
  <2>3. Halfway(e)'
    BY <2>2 DEF Halfway
  <2>4. QED
    BY <1>5, <2>3, OnlyInStep DEF ListPulled
<1>6. ASSUME ~hurt, NEW e \in Execs, ListFails(e) PROVE InStep'
  <2>1. Agree(etag)'
    BY <1>6 DEF ListFails, InStep, Agree
  <2>2. QED
    BY <1>6, <2>1, FinishInStep DEF ListFails
<1>7. ASSUME ~hurt, NEW e \in Execs, AliveDone(e) PROVE InStep'
  <2>1. CASE got[e] = None
    <3>1. Agree(etag)'
      BY <1>7, <2>1 DEF AliveDone, InStep, Halfway, Agree
    <3>2. QED
      BY <1>7, <2>1, <3>1, FinishInStep DEF AliveDone
  <2>2. CASE got[e] # None
    <3>1. got[e] = etag /\ Agree(userList)
      BY <1>7, <2>2 DEF AliveDone, InStep, Halfway
    <3>2. /\ at'[e] = "delete" /\ diff'[e] = Diff(userList, etag) /\ at' = [at EXCEPT ![e] = "delete"]
          /\ UNCHANGED <<etag, applied, got, waiting>>
      BY <1>7, <2>2, <3>1 DEF AliveDone, TypeOK
    <3>3. Halfway(e)'
      BY <3>1, <3>2 DEF Halfway, Agree
    <3>4. QED
      BY <1>7, <3>2, <3>3, OnlyInStep DEF AliveDone
  <2>3. QED
    BY <2>1, <2>2
<1>8. ASSUME ~hurt, NEW e \in Execs, DeleteUsers(e) PROVE InStep'
  <2>1. /\ got[e] = etag /\ diff[e] = Diff(userList, etag) /\ limits = userList
        /\ uids = core /\ core = DOMAIN userList
    BY <1>8 DEF DeleteUsers, InStep, Halfway
  <2>2. at'[e] = "add" /\ at[e] = "delete"
    BY <1>8 DEF DeleteUsers, TypeOK
  <2>3. Halfway(e)'
    BY <1>8, <2>1, <2>2 DEF DeleteUsers, Halfway
  <2>4. QED
    BY <1>8, <2>3, OnlyInStep DEF DeleteUsers
<1>9. ASSUME ~hurt, NEW e \in Execs, AddUsers(e) PROVE InStep'
  <2>1. /\ got[e] = etag /\ diff[e] = Diff(userList, etag) /\ limits = userList
        /\ uids = core /\ core = DOMAIN userList \ diff[e].deleted
    BY <1>9 DEF AddUsers, InStep, Halfway
  <2>2. at'[e] = "update" /\ at[e] = "add"
    BY <1>9 DEF AddUsers, TypeOK
  <2>3. (DOMAIN userList \ diff[e].deleted) \cup diff[e].added = DOMAIN etag
    <3>1. userList \in Lists /\ etag \in Lists
      BY DEF TypeOK
    <3>2. (DOMAIN userList \ Diff(userList, etag).deleted) \cup Diff(userList, etag).added
            = DOMAIN etag
      BY <2>1, <3>1, DiffApplies
    <3>3. QED
      BY <2>1, <3>2
  <2>4. Halfway(e)'
    BY <1>9, <2>1, <2>2, <2>3 DEF AddUsers, Halfway
  <2>5. QED
    BY <1>9, <2>4, OnlyInStep DEF AddUsers
<1>10. ASSUME NEW e \in Execs, DeleteFails(e) \/ AddFails(e) PROVE InStep'
  BY <1>10, HurtStep DEF DeleteFails, AddFails
<1>11. ASSUME ~hurt, NEW e \in Execs, UpdateLimiter(e) PROVE InStep'
  <2>1. /\ got[e] = etag /\ diff[e] = Diff(userList, etag) /\ limits = userList
        /\ uids = core /\ core = DOMAIN etag
    BY <1>11 DEF UpdateLimiter, InStep, Halfway
  <2>2. Update(got[e], diff[e]) = etag
    <3>1. userList \in Lists /\ etag \in Lists
      BY DEF TypeOK
    <3>2. Update(etag, Diff(userList, etag)) = etag
      BY <2>1, <3>1, DiffApplies
    <3>3. QED
      BY <2>1, <3>2
  <2>3. Agree(etag)'
    BY <1>11, <2>1, <2>2 DEF UpdateLimiter, Agree
  <2>4. QED
    BY <1>11, <2>3, FinishInStep DEF UpdateLimiter
<1>12. ASSUME ~hurt, NEW e \in Execs, Timeout(e) PROVE InStep'
  <2>1. CASE got[e] # None
    BY <1>12, <2>1, HurtStep DEF Timeout
  <2>2. CASE got[e] = None
    <3>1. at[e] \in {"list", "alive"}
      BY <1>12, <2>2, NoneAssumption DEF Timeout, TypeOK
    <3>2. Agree(etag)
      BY <1>12, <2>2, <3>1 DEF Timeout, InStep, Halfway
    <3>3. Finish(e) /\ Agree(etag)'
      BY <1>12, <3>1, <3>2 DEF Timeout, Agree
    <3>4. QED
      BY <1>12, <3>1, <3>3, FinishInStep
  <2>3. QED
    BY <2>1, <2>2
<1>13. QED
  BY <1>1, <1>2, <1>3, <1>4, <1>5, <1>6, <1>7, <1>8, <1>9, <1>10, <1>11, <1>12 DEF Next, Apply

(* Between executions the controller, the core, the ids and the limiter    *)
(* hold the list whose ETag the client sends.                              *)
THEOREM AlwaysSynced == Spec => []Synced
<1>1. InStep /\ TypeOK => Synced
  <2> SUFFICES ASSUME InStep, TypeOK, Resting, ~hurt PROVE Agree(etag)
    BY DEF Synced
  <2>1. waiting = None
    BY DEF Resting, TypeOK
  <2>2. QED
    BY <2>1, ExecsAssumption DEF InStep, Resting
<1>2. QED
  BY <1>1, TypeInit, TypeStep, InStepInit, InStepStep, PTL DEF Spec
============================================================================
