--------------------------- MODULE DispatchProofs ---------------------------
(* Proofs about Dispatch, for any users and connections.                   *)
EXTENDS Dispatch, TLAPS

----------------------------------------------------------------------------
(* The variables keep to their ranges when the node starts.                *)
LEMMA TypeInit == Init => TypeOK
BY NoneAssumption DEF Init, TypeOK, Stages, TaskStages, MainStages, Cutters

(* So they do in the steps of a connection.                                *)
LEMMA ConnectionType ==
  ASSUME TypeOK, NEW c \in Conns, Connection(c)
  PROVE  TypeOK'
<1> USE NoneAssumption DEF TypeOK, Stages, accounts, cutters
<1>1. CASE \E u \in Users : Accept(c, u)
  BY <1>1 DEF Accept
<1>2. CASE GetLimiter(c)
  BY <1>2 DEF GetLimiter
<1>3. CASE CheckLimit(c) \/ CheckForeign(c)
  BY <1>3 DEF CheckLimit, CheckForeign
<1>4. CASE LoadManager(c)
  BY <1>4 DEF LoadManager
<1>5. CASE StoreManager(c)
  BY <1>5 DEF StoreManager
<1>6. CASE AddLink(c)
  BY <1>6 DEF AddLink
<1>7. CASE EndLink(c)
  BY <1>7 DEF EndLink
<1>8. QED
  BY <1>1, <1>2, <1>3, <1>4, <1>5, <1>6, <1>7 DEF Connection

(* So they do when links are cut: a link that was taken has a user.        *)
LEMMA CutType ==
  ASSUME TypeOK, Consistent, NEW k \in Cutters, Cut(k)
  PROVE  TypeOK'
<1> USE NoneAssumption DEF TypeOK, Stages, accounts, conns, Cutters, TaskStages, MainStages
<1>1. CASE TakeLinks(k)
  BY <1>1 DEF TakeLinks
<1>2. CASE Unregister(k)
  BY <1>2 DEF Unregister
<1>3. ASSUME NEW c \in Conns, CloseLink(k, c) PROVE TypeOK'
  <2>1. owner[c] \in Users
    BY <1>3 DEF CloseLink, Consistent
  <2>2. QED
    BY <1>3, <2>1 DEF CloseLink
<1>4. QED
  BY <1>1, <1>2, <1>3 DEF Cut

(* So they do in the steps of the task and of the main goroutine.          *)
LEMMA ActorType ==
  ASSUME TypeOK, Task \/ Main
  PROVE  TypeOK'
<1> USE NoneAssumption
    DEF TypeOK, accounts, conns, Cutters, TaskStages, MainStages, InFlight, Admitted
<1>1. CASE \E u \in Users : RemoveUser(u) \/ AddUser(u)
  BY <1>1 DEF RemoveUser, AddUser
<1>2. CASE FindManager
  BY <1>2 DEF FindManager
<1>3. CASE ForgetUser \/ GrantUser \/ SkipUpdate
  BY <1>3 DEF ForgetUser, GrantUser, SkipUpdate
<1>4. CASE DiscardPrepared \/ DeleteLimiter \/ AddLimiter
  BY <1>4 DEF DiscardPrepared, DeleteLimiter, AddLimiter, cutters
<1>5. CASE StartRange
  BY <1>5 DEF StartRange
<1>6. CASE EndRange
  BY <1>6 DEF EndRange
<1>7. CASE \E u \in Users : RangeNext(u)
  BY <1>7 DEF RangeNext
<1>8. QED
  BY <1>1, <1>2, <1>3, <1>4, <1>5, <1>6, <1>7 DEF Task, Main

(* Every step keeps the variables in their ranges.                         *)
LEMMA TypeStep == TypeOK /\ Consistent /\ [Next]_vars => TypeOK'
<1> SUFFICES ASSUME TypeOK, Consistent, [Next]_vars PROVE TypeOK'
  OBVIOUS
<1>1. CASE UNCHANGED vars
  BY <1>1 DEF vars, TypeOK
<1>2. CASE Next
  BY <1>2, ConnectionType, CutType, ActorType DEF Next
<1>3. QED
  BY <1>1, <1>2

----------------------------------------------------------------------------
(* A node that has just been started has the inductive invariant.          *)
LEMMA InitHolds == Init => Consistent /\ WithinReach /\ TaskCuts /\ MainCuts
<1> SUFFICES ASSUME Init PROVE Consistent /\ WithinReach /\ TaskCuts /\ MainCuts
  OBVIOUS
<1>1. Consistent
  BY DEF Init, Consistent, Cutters
<1>2. WithinReach
  BY DEF Init, WithinReach
<1>3. TaskCuts
  BY DEF Init, TaskCuts, InFlight, Left, Cutters
<1>4. MainCuts
  BY DEF Init, MainCuts, Cutters
<1>5. QED
  BY <1>1, <1>2, <1>3, <1>4

(* The steps of a connection keep the names consistent.                    *)
LEMMA ConnectionConsistent ==
  ASSUME TypeOK, Consistent, NEW c \in Conns, Connection(c)
  PROVE  Consistent'
<1> USE NoneAssumption DEF TypeOK, Stages, Consistent, accounts, cutters
<1>1. ASSUME NEW u \in Users, Accept(c, u) PROVE Consistent'
  <2>1. owner[c] = None /\ stage'[c] = "limiter"
    BY <1>1 DEF Accept
  <2>2. \A d \in Conns : owner[d] # None => owner'[d] = owner[d] /\ stage'[d] = stage[d]
    BY <1>1, <2>1 DEF Accept
  <2>3. \A d \in Conns : stage'[d] # stage[d] => d = c
    BY <1>1 DEF Accept
  <2>4. UNCHANGED <<managers, links, manager, at, user, target, taken>>
    BY <1>1 DEF Accept
  <2>5. \A m \in Conns : \A d \in links'[m] : stage'[d] = "open" /\ manager'[d] = m
    BY <2>2, <2>4
  <2>6. \A d \in Conns : stage'[d] = "none" => owner'[d] = None
    BY <1>1, <2>1 DEF Accept
  <2>7. \A d \in Conns : stage'[d] \in {"store", "add", "open"} =>
          owner'[manager'[d]] = owner'[d]
    <3> SUFFICES ASSUME NEW d \in Conns, stage'[d] \in {"store", "add", "open"}
                 PROVE  owner'[manager'[d]] = owner'[d]
      OBVIOUS
    <3>1. stage[d] = stage'[d] /\ owner[d] \in Users /\ manager[d] \in Conns
      BY <2>1, <2>3
    <3>2. owner[manager[d]] = owner[d]
      BY <3>1
    <3>3. QED
      BY <2>2, <2>4, <3>1, <3>2
  <2>8. \A d \in Conns : stage'[d] = "store" => manager'[d] = d
    BY <2>1, <2>3, <2>4
  <2>9. \A v \in Users : managers'[v] # None => owner'[managers'[v]] = v
    BY <2>2, <2>4
  <2>10. \A k \in Cutters : at'[k] \in {"take", "close"} => owner'[target'[k]] = user'[k]
    BY <2>2, <2>4
  <2>11. \A k \in Cutters : \A d \in taken'[k] : at'[k] = "close" /\ owner'[d] = user'[k]
    <3> SUFFICES ASSUME NEW k \in Cutters, NEW d \in taken[k]
                 PROVE  at[k] = "close" /\ owner'[d] = user[k]
      BY <2>4
    <3>1. at[k] = "close" /\ owner[d] = user[k] /\ d \in Conns
      OBVIOUS
    <3>2. user[k] \in Users
      BY <3>1
    <3>3. QED
      BY <2>2, <3>1, <3>2
  <2>12. QED
    BY <2>5, <2>6, <2>7, <2>8, <2>9, <2>10, <2>11
<1>2. CASE GetLimiter(c)
  BY <1>2 DEF GetLimiter
<1>3. CASE CheckLimit(c) \/ CheckForeign(c)
  BY <1>3 DEF CheckLimit, CheckForeign
<1>4. CASE LoadManager(c)
  <2>1. UNCHANGED <<managers, links, owner, cutters>>
    BY <1>4 DEF LoadManager
  <2>2. owner[c] \in Users /\ stage[c] = "load"
    BY <1>4 DEF LoadManager
  <2>3. \A d \in Conns : d # c => stage'[d] = stage[d] /\ manager'[d] = manager[d]
    BY <1>4 DEF LoadManager
  <2>4. stage'[c] \in {"store", "add"} /\ owner[manager'[c]] = owner[c]
    BY <1>4, <2>2 DEF LoadManager
  <2>5. stage'[c] = "store" => manager'[c] = c
    BY <1>4, <2>2 DEF LoadManager
  <2>6. \A d \in Conns : stage'[d] \in {"store", "add", "open"} => owner'[manager'[d]] = owner'[d]
    BY <2>1, <2>3, <2>4
  <2>7. \A m \in Conns : \A d \in links'[m] : stage'[d] = "open" /\ manager'[d] = m
    BY <2>1, <2>2, <2>3
  <2>8. \A d \in Conns : stage'[d] = "none" => owner'[d] = None
    BY <2>1, <2>3, <2>4
  <2>9. \A d \in Conns : stage'[d] = "store" => manager'[d] = d
    BY <2>3, <2>5
  <2>10. QED
    BY <2>1, <2>6, <2>7, <2>8, <2>9
<1>5. CASE StoreManager(c)
  BY <1>5 DEF StoreManager
<1>6. CASE AddLink(c)
  BY <1>6 DEF AddLink
<1>7. CASE EndLink(c)
  BY <1>7 DEF EndLink
<1>8. QED
  BY <1>1, <1>2, <1>3, <1>4, <1>5, <1>6, <1>7 DEF Connection

(* So do the steps that cut links.                                         *)
LEMMA CutConsistent ==
  ASSUME TypeOK, Consistent, NEW k \in Cutters, Cut(k)
  PROVE  Consistent'
<1> USE NoneAssumption DEF TypeOK, Stages, Consistent, accounts, conns
<1>1. CASE TakeLinks(k)
  BY <1>1 DEF TakeLinks
<1>2. CASE Unregister(k)
  BY <1>2 DEF Unregister
<1>3. ASSUME NEW c \in Conns, CloseLink(k, c) PROVE Consistent'
  BY <1>3 DEF CloseLink
<1>4. QED
  BY <1>1, <1>2, <1>3 DEF Cut

(* So do the steps of the task and of the main goroutine.                  *)
LEMMA ActorConsistent ==
  ASSUME TypeOK, Consistent, Task \/ Main
  PROVE  Consistent'
<1> USE NoneAssumption DEF TypeOK, Consistent, accounts, conns, Cutters
<1>1. CASE \E u \in Users : RemoveUser(u) \/ AddUser(u)
  BY <1>1 DEF RemoveUser, AddUser
<1>2. CASE FindManager
  BY <1>2 DEF FindManager
<1>3. CASE ForgetUser \/ GrantUser \/ SkipUpdate
  BY <1>3 DEF ForgetUser, GrantUser, SkipUpdate
<1>4. CASE DiscardPrepared \/ DeleteLimiter \/ AddLimiter
  BY <1>4 DEF DiscardPrepared, DeleteLimiter, AddLimiter, cutters
<1>5. CASE StartRange
  BY <1>5 DEF StartRange
<1>6. CASE EndRange
  BY <1>6 DEF EndRange
<1>7. ASSUME NEW u \in Users, RangeNext(u) PROVE Consistent'
  BY <1>7 DEF RangeNext
<1>8. QED
  BY <1>1, <1>2, <1>3, <1>4, <1>5, <1>6, <1>7 DEF Task, Main

(* Every step does.                                                        *)
LEMMA ConsistentStep == TypeOK /\ Consistent /\ [Next]_vars => Consistent'
<1> SUFFICES ASSUME TypeOK, Consistent, [Next]_vars PROVE Consistent'
  OBVIOUS
<1>1. CASE UNCHANGED vars
  BY <1>1 DEF vars, Consistent
<1>2. CASE Next
  BY <1>2, ConnectionConsistent, CutConsistent, ActorConsistent DEF Next
<1>3. QED
  BY <1>1, <1>2

----------------------------------------------------------------------------
(* The steps of a connection leave every link within reach.                *)
LEMMA ConnectionReach ==
  ASSUME TypeOK, Consistent, WithinReach, NEW c \in Conns, Connection(c)
  PROVE  WithinReach'
<1> USE NoneAssumption DEF TypeOK, Stages, Consistent, WithinReach, Taken, Cutters, accounts, cutters
<1>1. ASSUME NEW u \in Users, Accept(c, u) PROVE WithinReach'
  BY <1>1 DEF Accept
<1>2. CASE GetLimiter(c)
  BY <1>2 DEF GetLimiter
<1>3. CASE CheckLimit(c) \/ CheckForeign(c)
  BY <1>3 DEF CheckLimit, CheckForeign
<1>4. CASE LoadManager(c)
  BY <1>4 DEF LoadManager
<1>5. CASE StoreManager(c)
  BY <1>5 DEF StoreManager
<1>6. CASE AddLink(c)
  BY <1>6 DEF AddLink
<1>7. CASE EndLink(c)
  BY <1>7 DEF EndLink
<1>8. QED
  BY <1>1, <1>2, <1>3, <1>4, <1>5, <1>6, <1>7 DEF Connection

(* So do the steps that cut links: when a manager is unregistered, its     *)
(* links were taken and the others of the user have escaped.               *)
LEMMA CutReach ==
  ASSUME TypeOK, Consistent, WithinReach, TaskCuts, MainCuts, NEW k \in Cutters, Cut(k)
  PROVE  WithinReach'
<1> USE NoneAssumption DEF TypeOK, Stages, Consistent, WithinReach, Taken, Cutters, accounts, conns
<1>1. CASE TakeLinks(k)
  BY <1>1 DEF TakeLinks
<1>2. CASE Unregister(k)
  <2>1. at[k] = "close" /\ user[k] \in Users
    BY <1>2 DEF Unregister
  <2>2. \A c \in Conns : stage[c] = "add" /\ owner[c] = user[k] => c \in escaped
    BY <2>1 DEF TaskCuts, MainCuts, InFlight, Admitted
  <2>3. \A c \in Conns : stage[c] = "open" /\ owner[c] = user[k] => c \in escaped \cup Taken
    BY <2>1 DEF TaskCuts, MainCuts, Left
  <2>4. UNCHANGED <<links, stage, owner, manager, taken, escaped>>
    BY <1>2 DEF Unregister
  <2>5. \A u \in Users : u # user[k] => managers'[u] = managers[u]
    BY <1>2 DEF Unregister
  <2>6. QED
    BY <2>2, <2>3, <2>4, <2>5
<1>3. ASSUME NEW c \in Conns, CloseLink(k, c) PROVE WithinReach'
  BY <1>3 DEF CloseLink
<1>4. QED
  BY <1>1, <1>2, <1>3 DEF Cut

(* So do the steps of the task and of the main goroutine.                  *)
LEMMA ActorReach ==
  ASSUME TypeOK, WithinReach, Task \/ Main
  PROVE  WithinReach'
<1> USE DEF TypeOK, WithinReach, Taken, accounts, conns
<1>1. CASE \E u \in Users : RemoveUser(u) \/ AddUser(u)
  BY <1>1 DEF RemoveUser, AddUser
<1>2. CASE FindManager
  BY <1>2 DEF FindManager
<1>3. CASE ForgetUser \/ GrantUser \/ SkipUpdate
  BY <1>3 DEF ForgetUser, GrantUser, SkipUpdate
<1>4. CASE DiscardPrepared \/ DeleteLimiter \/ AddLimiter
  BY <1>4 DEF DiscardPrepared, DeleteLimiter, AddLimiter, cutters
<1>5. CASE StartRange
  BY <1>5 DEF StartRange
<1>6. CASE EndRange
  BY <1>6 DEF EndRange
<1>7. CASE \E u \in Users : RangeNext(u)
  BY <1>7 DEF RangeNext
<1>8. QED
  BY <1>1, <1>2, <1>3, <1>4, <1>5, <1>6, <1>7 DEF Task, Main

(* The steps of a connection undo nothing of what the task established.    *)
LEMMA ConnectionTask ==
  ASSUME TypeOK, Consistent, WithinReach, TaskCuts, NEW c \in Conns, Connection(c)
  PROVE  TaskCuts'
<1> USE NoneAssumption DEF TypeOK, Stages, Consistent, TaskCuts, InFlight, Left, Taken, Cutters, accounts, cutters
<1>1. ASSUME NEW u \in Users, Accept(c, u) PROVE TaskCuts'
  BY <1>1 DEF Accept
<1>2. CASE GetLimiter(c)
  BY <1>2 DEF GetLimiter
<1>3. CASE CheckLimit(c) \/ CheckForeign(c)
  <2>1. UNCHANGED <<accounts, managers, links, owner, cutters>> /\ escaped \subseteq escaped'
    BY <1>3 DEF CheckLimit, CheckForeign
  <2>2. \A d \in Conns : stage'[d] # stage[d] =>
          d = c /\ stage[d] \notin {"open", "load", "store", "add"} /\ stage'[d] # "open"
    BY <1>3 DEF CheckLimit, CheckForeign
  <2>3. stage'[c] = "load" /\ owner[c] \in Users \ core =>
          c \in escaped' \/ (at["task"] = "find" /\ user["task"] = owner[c])
    BY <1>3 DEF CheckLimit, CheckForeign, Outdated
  <2>4. \A u \in Users : Left(u)' \subseteq Left(u)
    BY <2>1, <2>2
  <2>5. ASSUME NEW u \in Users \ core, InFlight(u) \subseteq escaped
        PROVE  (at["task"] = "find" /\ user["task"] = u) \/ InFlight(u)' \subseteq escaped'
    <3>1. \A d \in Conns \ {c} : d \in InFlight(u)' => d \in InFlight(u)
      BY <2>1, <2>2
    <3>2. c \in InFlight(u)' /\ c \notin InFlight(u) => stage'[c] = "load" /\ owner[c] = u
      BY <1>3, <2>1 DEF CheckLimit, CheckForeign
    <3>3. InFlight(u)' \subseteq Conns
      OBVIOUS
    <3>4. QED
      BY <2>1, <2>3, <2>5, <3>1, <3>2, <3>3
  <2>6. QED
    BY <2>1, <2>4, <2>5
<1>4. CASE LoadManager(c)
  BY <1>4 DEF LoadManager
<1>5. CASE StoreManager(c)
  BY <1>5 DEF StoreManager
<1>6. CASE AddLink(c)
  BY <1>6 DEF AddLink
<1>7. CASE EndLink(c)
  BY <1>7 DEF EndLink
<1>8. QED
  BY <1>1, <1>2, <1>3, <1>4, <1>5, <1>6, <1>7 DEF Connection

(* Cutting links leaves fewer of them.                                     *)
LEMMA CutTask ==
  ASSUME TypeOK, Consistent, WithinReach, TaskCuts, NEW k \in Cutters, Cut(k)
  PROVE  TaskCuts'
<1> USE NoneAssumption DEF TypeOK, Stages, Consistent, TaskCuts, InFlight, Left, Taken, Cutters, accounts, conns
<1>1. CASE TakeLinks(k)
  BY <1>1 DEF TakeLinks
<1>2. CASE Unregister(k)
  BY <1>2 DEF Unregister
<1>3. ASSUME NEW c \in Conns, CloseLink(k, c) PROVE TaskCuts'
  BY <1>3 DEF CloseLink
<1>4. QED
  BY <1>1, <1>2, <1>3 DEF Cut

(* The task itself: a user without an account is the one it is at, or was  *)
(* cut before.                                                             *)
LEMMA ActorTask ==
  ASSUME TypeOK, Consistent, WithinReach, TaskCuts, Task \/ Main
  PROVE  TaskCuts'
<1> USE NoneAssumption DEF TypeOK, TaskCuts, InFlight, Left, Taken, Cutters, accounts, conns
<1>1. ASSUME NEW u \in Users, RemoveUser(u) \/ AddUser(u) PROVE TaskCuts'
  BY <1>1 DEF RemoveUser, AddUser
<1>2. CASE FindManager
  BY <1>2 DEF FindManager, WithinReach, Consistent
<1>3. CASE ForgetUser \/ GrantUser \/ SkipUpdate
  BY <1>3 DEF ForgetUser, GrantUser, SkipUpdate
<1>4. CASE DiscardPrepared \/ DeleteLimiter \/ AddLimiter
  BY <1>4 DEF DiscardPrepared, DeleteLimiter, AddLimiter, cutters
<1>5. CASE StartRange
  BY <1>5 DEF StartRange
<1>6. CASE EndRange
  BY <1>6 DEF EndRange
<1>7. CASE \E u \in Users : RangeNext(u)
  BY <1>7 DEF RangeNext
<1>8. QED
  BY <1>1, <1>2, <1>3, <1>4, <1>5, <1>6, <1>7 DEF Task, Main

(* The steps of a connection undo nothing of what the main goroutine       *)
(* established: without the entry in the registry no other gets in.        *)
LEMMA ConnectionMain ==
  ASSUME TypeOK, Consistent, WithinReach, MainCuts, NEW c \in Conns, Connection(c)
  PROVE  MainCuts'
<1> USE NoneAssumption
    DEF TypeOK, Stages, Consistent, MainCuts, Admitted, InFlight, Left, Taken, Cutters, accounts, cutters
<1>1. ASSUME NEW u \in Users, Accept(c, u) PROVE MainCuts'
  BY <1>1 DEF Accept
<1>2. CASE GetLimiter(c)
  BY <1>2 DEF GetLimiter
<1>3. CASE CheckLimit(c) \/ CheckForeign(c)
  BY <1>3 DEF CheckLimit, CheckForeign
<1>4. CASE LoadManager(c)
  BY <1>4 DEF LoadManager
<1>5. CASE StoreManager(c)
  BY <1>5 DEF StoreManager
<1>6. CASE AddLink(c)
  BY <1>6 DEF AddLink
<1>7. CASE EndLink(c)
  BY <1>7 DEF EndLink
<1>8. QED
  BY <1>1, <1>2, <1>3, <1>4, <1>5, <1>6, <1>7 DEF Connection

(* Cutting links leaves fewer of them.                                     *)
LEMMA CutMain ==
  ASSUME TypeOK, Consistent, WithinReach, MainCuts, NEW k \in Cutters, Cut(k)
  PROVE  MainCuts'
<1> USE NoneAssumption
    DEF TypeOK, Stages, Consistent, MainCuts, Admitted, InFlight, Left, Taken, Cutters, accounts, conns
<1>1. CASE TakeLinks(k)
  BY <1>1 DEF TakeLinks
<1>2. CASE Unregister(k)
  BY <1>2 DEF Unregister
<1>3. ASSUME NEW c \in Conns, CloseLink(k, c) PROVE MainCuts'
  BY <1>3 DEF CloseLink
<1>4. QED
  BY <1>1, <1>2, <1>3 DEF Cut

(* The main goroutine itself: a user it does not come to has no links      *)
(* within reach, and the manager it loads has all there are.               *)
LEMMA ActorMain ==
  ASSUME TypeOK, Consistent, WithinReach, MainCuts, Task \/ Main
  PROVE  MainCuts'
<1> USE NoneAssumption
    DEF TypeOK, MainCuts, Admitted, InFlight, Left, Taken, Cutters, accounts, conns
<1>1. CASE \E u \in Users : RemoveUser(u) \/ AddUser(u)
  BY <1>1 DEF RemoveUser, AddUser
<1>2. CASE FindManager
  BY <1>2 DEF FindManager
<1>3. CASE ForgetUser \/ GrantUser \/ SkipUpdate
  BY <1>3 DEF ForgetUser, GrantUser, SkipUpdate
<1>4. CASE DiscardPrepared \/ DeleteLimiter \/ AddLimiter
  BY <1>4 DEF DiscardPrepared, DeleteLimiter, AddLimiter, cutters
<1>5. CASE StartRange
  BY <1>5 DEF StartRange, WithinReach
<1>6. CASE EndRange
  BY <1>6 DEF EndRange
<1>7. ASSUME NEW u \in Users, RangeNext(u) PROVE MainCuts'
  BY <1>7 DEF RangeNext, WithinReach
<1>8. QED
  BY <1>1, <1>2, <1>3, <1>4, <1>5, <1>6, <1>7 DEF Task, Main

----------------------------------------------------------------------------
(* The inductive invariant.                                                *)
IInv == TypeOK /\ Consistent /\ WithinReach /\ TaskCuts /\ MainCuts

(* It holds when the node starts, and every step keeps it.                 *)
LEMMA Inductive == (Init => IInv) /\ (IInv /\ [Next]_vars => IInv')
<1>1. Init => IInv
  BY TypeInit, InitHolds DEF IInv
<1>2. ASSUME IInv, UNCHANGED vars PROVE IInv'
  BY <1>2 DEF IInv, vars, TypeOK, Consistent, WithinReach, TaskCuts, MainCuts,
              Left, InFlight, Admitted, Taken, CutOff
<1>3. ASSUME IInv, Next PROVE IInv'
  <2>1. TypeOK' /\ Consistent'
    BY <1>3, TypeStep, ConsistentStep DEF IInv
  <2>2. WithinReach'
    BY <1>3, ConnectionReach, CutReach, ActorReach DEF IInv, Next
  <2>3. TaskCuts'
    BY <1>3, ConnectionTask, CutTask, ActorTask DEF IInv, Next
  <2>4. MainCuts'
    BY <1>3, ConnectionMain, CutMain, ActorMain DEF IInv, Next
  <2>5. QED
    BY <2>1, <2>2, <2>3, <2>4 DEF IInv
<1>4. QED
  BY <1>1, <1>2, <1>3

(* When the task is done with a user, none of its links is left: TaskCuts  *)
(* leaves none that has not escaped, and none is with a cutter.            *)
LEMMA CutWhenDone == IInv => DeletedCut
<1> SUFFICES ASSUME IInv, NEW c \in Conns, stage[c] = "open", CutOff(owner[c])
             PROVE  c \in escaped
  BY DEF DeletedCut
<1>1. owner[c] \in Users \ core
  BY DEF IInv, TypeOK, Stages, CutOff
<1>2. c \notin Taken
  BY DEF IInv, Consistent, CutOff, Taken, Cutters
<1>3. Left(owner[c]) = {}
  BY <1>1 DEF IInv, TaskCuts, CutOff
<1>4. QED
  BY <1>2, <1>3 DEF Left

(* When the core is closed, every user was come to.                        *)
LEMMA CutWhenClosed == IInv => ClosedCut
<1> SUFFICES ASSUME IInv, at["main"] = "closed", NEW c \in Conns, stage[c] = "open"
             PROVE  c \in escaped \cup taken["task"]
  BY DEF ClosedCut
<1>1. owner[c] \in Users
  BY DEF IInv, TypeOK, Stages
<1>2. Left(owner[c]) = {}
  BY <1>1 DEF IInv, MainCuts
<1>3. c \notin taken["main"]
  BY DEF IInv, Consistent, Cutters
<1>4. QED
  BY <1>2, <1>3 DEF Left, Taken

(* The variables keep to their ranges, for any users and connections.      *)
THEOREM TypeCorrect == Spec => []TypeOK
<1>1. IInv => TypeOK
  BY DEF IInv
<1>2. QED
  BY Inductive, <1>1, PTL DEF Spec

(* A manager never holds a closed link, in any interleaving of clients     *)
(* that leave, links that open and cutters.                                *)
THEOREM NoDeadLinks == Spec => []OnlyOpenLinks
<1>1. IInv => OnlyOpenLinks
  BY DEF IInv, Consistent, OnlyOpenLinks
<1>2. QED
  BY Inductive, <1>1, PTL DEF Spec

(* However connections, DelUsers, UpdateUser and the closing of the core   *)
(* interleave, and whether or not the inbound lets sessions of the deleted *)
(* user go on, it keeps no link but those of escaped: past the limiter     *)
(* when its manager was looked for, in a manager stored over, or let in    *)
(* later by a limiter that was not told of the deletion.                   *)
THEOREM DeletedAlwaysCut == Spec => []DeletedCut
  BY Inductive, CutWhenDone, PTL DEF Spec

(* A closed core leaves no link but those its closing could not know of,   *)
(* and those let in by the limiter the next runtime has registered since.  *)
THEOREM ClosedAlwaysCut == Spec => []ClosedCut
  BY Inductive, CutWhenClosed, PTL DEF Spec
============================================================================
