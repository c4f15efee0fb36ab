------------------------- MODULE DeviceLimitProofs -------------------------
(***************************************************************************)
(* DeviceLimit: for any users, addresses and connections, and any pairs    *)
(* the history is kept of.  Sole is what makes Remembered inductive and    *)
(* KnownNotRefused follow: a connection that has registered an address of  *)
(* which nothing was mislaid is the only one that has, so that no other    *)
(* can take the address away or let it in before the check.  Warranted     *)
(* says of LimitHonoured that only warranted addresses are in OldUserOnline*)
(* at all.                                                                 *)
(***************************************************************************)
EXTENDS DeviceLimit, TLAPS

(* A pair is a user and an address.                                        *)
LEMMA WatchedPair ==
  ASSUME NEW p \in Watched
  PROVE  p[1] \in Users /\ p[2] \in Addrs /\ p = <<p[1], p[2]>> /\ p[1] # None
  BY WatchedAssumption, NoneAssumption

LEMMA DeviceInit == Init => TypeOK /\ Mapped /\ Remembered /\ Sole /\ Warranted
<1> SUFFICES ASSUME Init PROVE TypeOK /\ Mapped /\ Remembered /\ Sole /\ Warranted
  OBVIOUS
<1>1. TypeOK
  BY DEF Init, TypeOK, Stages, Registering
<1>2. Mapped
  BY NoneAssumption DEF Init, Mapped
<1>3. \A c \in Conns : Pair(c) \notin Watched
  <2>1. SUFFICES ASSUME NEW c \in Conns, Pair(c) \in Watched PROVE FALSE
    OBVIOUS
  <2>2. Pair(c)[1] # None
    BY <2>1, WatchedPair
  <2>3. QED
    BY <2>2 DEF Init, Pair
<1>4. Remembered /\ Sole
  BY <1>3 DEF Init, Remembered, Sole, SoleAt
<1>5. Warranted
  <2>1. \A u \in Users : Present(u) = {}
    BY DEF Init, Present
  <2>2. \A p \in Watched : p[1] \in Users /\ p[2] \in Addrs /\ p[1] # None
    BY WatchedPair
  <2>3. QED
    BY <2>1, <2>2 DEF Init, Warranted
<1>6. QED
  BY <1>1, <1>2, <1>4, <1>5

----------------------------------------------------------------------------
(* Types.                                                                  *)

\* What a connection at work has.
LEMMA AtWork ==
  ASSUME TypeOK, NEW c \in Conns
  PROVE  /\ stage[c] # "none" => user[c] \in Users /\ addr[c] \in Addrs
         /\ map[c] # None => stage[c] \in Registering /\ user[c] \in Users
  BY DEF TypeOK, Pair, Pairs, Registering

LEMMA Detached ==
  ASSUME TypeOK, NEW u, NEW c, Detach(u, c)
  PROVE  /\ map' \in [Conns -> {"own", "found", "loose", None}]
         /\ \A d \in Conns :
              /\ d = c => map'[d] = None
              /\ d # c => (map'[d] = None <=> map[d] = None) /\ (map'[d] = "own" <=> map[d] = "own")
              /\ map'[d] = "found" => map[d] = "found" /\ user[d] # u
              /\ map'[d] = "loose" => map[d] = "loose" \/ (map[d] = "found" /\ user[d] = u)
              /\ map[d] = "loose" /\ d # c => map'[d] = "loose"
              /\ d # c /\ user[d] # u => map'[d] = map[d]
  BY NoneAssumption DEF TypeOK, Detach

LEMMA TypeStep == TypeOK /\ Mapped /\ [Next]_vars => TypeOK' /\ Mapped'
<1> SUFFICES ASSUME TypeOK, Mapped, [Next]_vars PROVE TypeOK' /\ Mapped'
  OBVIOUS
<1> USE NoneAssumption DEF conn, range, history
<1>1. CASE UNCHANGED vars
  BY <1>1 DEF vars, TypeOK, Mapped, Pair
<1>2. ASSUME NEW c \in Conns, NEW u \in Users, NEW a \in Addrs, CheckLimit(c, u, a)
      PROVE  TypeOK' /\ Mapped'
  <2>1. /\ user' = [user EXCEPT ![c] = u] /\ addr' = [addr EXCEPT ![c] = a] /\ stage[c] = "none"
        /\ UNCHANGED <<old, report, todo, taking, seen, listed, warranted, mislaid>>
    BY <1>2 DEF CheckLimit
  <2>2. CASE /\ online[u] = None /\ online' = [online EXCEPT ![u] = {a}]
             /\ map' = [map EXCEPT ![c] = "own"] /\ stage' = [stage EXCEPT ![c] = "old"]
    <3>1. online' \in [Users -> {None} \cup SUBSET Addrs]
      BY <2>2 DEF TypeOK
    <3>2. TypeOK'
      BY <2>1, <2>2, <3>1 DEF TypeOK, Pair, Pairs, Stages, Registering
    <3>3. ASSUME NEW d \in Conns, map'[d] = "found" PROVE online'[user'[d]] # None
      <4>1. d # c /\ map[d] = "found" /\ user'[d] = user[d] /\ user[d] \in Users
        BY <2>1, <2>2, <3>3, AtWork DEF TypeOK
      <4>2. online[user[d]] # None
        BY <4>1 DEF Mapped
      <4>3. QED
        BY <2>2, <4>1, <4>2 DEF TypeOK
    <3>4. \A d \in Conns : stage'[d] = "join" => map'[d] # "own"
      BY <2>2 DEF Mapped, TypeOK
    <3>5. QED
      BY <3>2, <3>3, <3>4 DEF Mapped
  <2>3. CASE /\ online[u] # None /\ online' = online
             /\ map' = [map EXCEPT ![c] = "found"] /\ stage' = [stage EXCEPT ![c] = "join"]
    BY <2>1, <2>3 DEF TypeOK, Mapped, Pair, Pairs, Stages, Registering
  <2>4. QED
    BY <1>2, <2>2, <2>3 DEF CheckLimit
<1>3. ASSUME NEW c \in Conns, JoinKnown(c) PROVE TypeOK' /\ Mapped'
  BY <1>3 DEF JoinKnown, LetIn, Return, Watch, TypeOK, Mapped, Pair, Stages, Registering
<1>4. ASSUME NEW c \in Conns, JoinNew(c) PROVE TypeOK' /\ Mapped'
  <2>1. /\ stage[c] = "join" /\ stage' = [stage EXCEPT ![c] = "old"]
        /\ UNCHANGED <<old, user, addr, map, report, todo, taking, seen, listed, warranted, mislaid>>
        /\ user[c] \in Users /\ addr[c] \in Addrs
    BY <1>4, AtWork DEF JoinNew
  <2>2. online' \in [Users -> {None} \cup SUBSET Addrs] /\ \A u \in Users : online[u] # None => online'[u] # None
    <3>1. CASE map[c] = "found" /\ online' = [online EXCEPT ![user[c]] = @ \cup {addr[c]}]
      <4>1. online[user[c]] \in SUBSET Addrs
        BY <2>1, <3>1 DEF Mapped, TypeOK
      <4>2. online[user[c]] \cup {addr[c]} \in SUBSET Addrs
        BY <2>1, <4>1
      <4>3. QED
        BY <2>1, <3>1, <4>2 DEF TypeOK
    <3>2. CASE online' = online
      BY <3>2 DEF TypeOK
    <3>3. QED
      BY <1>4, <3>1, <3>2 DEF JoinNew
  <2>3. TypeOK'
    BY <2>1, <2>2 DEF TypeOK, Pair, Pairs, Stages, Registering
  <2>4. Mapped'
    BY <2>1, <2>2, AtWork DEF TypeOK, Mapped
  <2>5. QED
    BY <2>3, <2>4
<1>5. ASSUME NEW c \in Conns, KnownFromBefore(c) PROVE TypeOK' /\ Mapped'
  BY <1>5 DEF KnownFromBefore, TypeOK, Mapped, Pair, Stages, Registering
<1>6. ASSUME NEW c \in Conns, Pass(c) PROVE TypeOK' /\ Mapped'
  BY <1>6 DEF Pass, LetIn, Return, Watch, TypeOK, Mapped, Pair, Stages, Registering
<1>7. ASSUME NEW c \in Conns, Refuse(c) PROVE TypeOK' /\ Mapped'
  BY <1>7 DEF Refuse, TypeOK, Mapped, Pair, Stages, Registering
<1>8. ASSUME NEW c \in Conns, Forget(c) PROVE TypeOK' /\ Mapped'
  BY <1>8 DEF Forget, LetIn, Return, Watch, TypeOK, Mapped, Pair, Pairs, Stages, Registering
<1>9. ASSUME NEW c \in Conns, Drop(c) PROVE TypeOK' /\ Mapped'
  <2>0. /\ stage[c] = "drop" /\ user[c] \in Users
        /\ stage' = [stage EXCEPT ![c] = "none"] /\ user' = [user EXCEPT ![c] = None]
        /\ addr' = [addr EXCEPT ![c] = None]
        /\ UNCHANGED <<old, report, todo, taking, seen, listed, warranted>>
    BY <1>9, AtWork DEF Drop, Return
  <2>1. CASE map[c] = "own"
    <3>1. /\ online' = [online EXCEPT ![user[c]] = None]
          /\ mislaid' = mislaid \cup Swept(user[c], {Pair(c)}) /\ Detach(user[c], c)
      BY <1>9, <2>1 DEF Drop
    <3>2. mislaid' \subseteq Watched
      BY <3>1 DEF Swept, TypeOK
    <3>3. TypeOK'
      <4>1. /\ map' \in [Conns -> {"own", "found", "loose", None}]
            /\ \A d \in Conns : map'[d] # None <=> d # c /\ map[d] # None
        BY <3>1, Detached
      <4>2. online' \in [Users -> {None} \cup SUBSET Addrs]
        BY <3>1 DEF TypeOK
      <4>3. /\ stage' \in [Conns -> Stages] /\ user' \in [Conns -> Users \cup {None}]
            /\ addr' \in [Conns -> Addrs \cup {None}]
            /\ \A d \in Conns : stage'[d] \in Registering <=> d # c /\ stage[d] \in Registering
        BY <2>0 DEF TypeOK, Stages, Registering
      <4>4. ASSUME NEW d \in Conns, stage'[d] # "none" PROVE Pair(d)' \in Pairs
        BY <2>0, <4>4 DEF TypeOK, Pair
      <4>5. QED
        BY <2>0, <3>1, <3>2, <4>1, <4>2, <4>3, <4>4 DEF TypeOK
    <3>4. ASSUME NEW d \in Conns, map'[d] = "found" PROVE online'[user'[d]] # None
      <4>1. d # c /\ map[d] = "found" /\ user[d] # user[c]
        BY <3>1, <3>4, Detached
      <4>2. user'[d] = user[d] /\ user[d] \in Users /\ online[user[d]] # None
        BY <2>0, <4>1, AtWork DEF TypeOK, Mapped
      <4>3. QED
        BY <2>0, <3>1, <4>1, <4>2 DEF TypeOK
    <3>5. \A d \in Conns : stage'[d] = "join" => map'[d] # "own"
      BY <2>0, <3>1, Detached DEF TypeOK, Mapped
    <3>6. QED
      BY <3>3, <3>4, <3>5 DEF Mapped
  <2>2. CASE map[c] = "found"
    <3>1. /\ online' = [online EXCEPT ![user[c]] = @ \ {addr[c]}]
          /\ map' = [map EXCEPT ![c] = None] /\ mislaid' = mislaid
      BY <1>9, <2>2 DEF Drop
    <3>2. online[user[c]] \in SUBSET Addrs
      BY <2>0, <2>2 DEF Mapped, TypeOK
    <3>3. online[user[c]] \ {addr[c]} \in SUBSET Addrs
      BY <3>2
    <3>4. online' \in [Users -> {None} \cup SUBSET Addrs] /\ \A u \in Users : online[u] # None => online'[u] # None
      BY <2>0, <3>1, <3>3 DEF TypeOK
    <3>5. TypeOK'
      BY <2>0, <3>1, <3>4 DEF TypeOK, Pair, Pairs, Stages, Registering
    <3>6. Mapped'
      BY <2>0, <3>1, <3>4, AtWork DEF TypeOK, Mapped
    <3>7. QED
      BY <3>5, <3>6
  <2>3. CASE map[c] = "loose"
    BY <1>9, <2>3 DEF Drop, Return, TypeOK, Mapped, Pair, Pairs, Stages, Registering
  <2>4. QED
    BY <1>9, <2>1, <2>2, <2>3 DEF Drop
<1>16. ASSUME NEW u \in Users, NEW gone, online' = [online EXCEPT ![u] = None],
              mislaid' = mislaid \cup Swept(u, gone), seen' \subseteq seen, Detach(u, None),
              UNCHANGED <<old, stage, user, addr, report, todo, listed, warranted>>,
              taking' \in Users \cup {None}
       PROVE  TypeOK' /\ Mapped'
  <2>1. mislaid' \subseteq Watched
    BY <1>16 DEF Swept, TypeOK
  <2>2. /\ map' \in [Conns -> {"own", "found", "loose", None}]
        /\ \A d \in Conns : map'[d] # None <=> map[d] # None
    BY <1>16, Detached
  <2>3. TypeOK'
    BY <1>16, <2>1, <2>2 DEF TypeOK, Pair
  <2>4. ASSUME NEW d \in Conns, map'[d] = "found" PROVE online'[user'[d]] # None
    <3>1. map[d] = "found" /\ user[d] # u
      BY <1>16, <2>4, Detached
    <3>2. user'[d] = user[d] /\ user[d] \in Users /\ online[user[d]] # None
      BY <1>16, <3>1, AtWork DEF Mapped
    <3>3. QED
      BY <1>16, <3>1, <3>2 DEF TypeOK
  <2>5. \A d \in Conns : stage'[d] = "join" => map'[d] # "own"
    BY <1>16, Detached DEF Mapped
  <2>6. QED
    BY <2>3, <2>4, <2>5 DEF Mapped
<1>10. CASE StartReport
  BY <1>10 DEF StartReport, TypeOK, Mapped, Pair
<1>11. CASE ResetUser
  <2>1. /\ taking \in Users /\ taking' = None /\ online' = [online EXCEPT ![taking] = None]
        /\ mislaid' = mislaid \cup Swept(taking, InOld) /\ seen' \subseteq seen /\ Detach(taking, None)
        /\ UNCHANGED <<old, stage, user, addr, report, todo, listed, warranted>>
    BY <1>11 DEF ResetUser, TypeOK
  <2>2. QED
    BY <1>16, <2>1
<1>12. CASE EndReport
  BY <1>12 DEF EndReport, TypeOK, Mapped, Pair
<1>13. ASSUME NEW u \in Users, TakeUser(u) PROVE TypeOK' /\ Mapped'
  BY <1>13 DEF TakeUser, TypeOK, Mapped, Pair
<1>14. ASSUME NEW u \in Users, SkipUser(u) PROVE TypeOK' /\ Mapped'
  BY <1>14 DEF SkipUser, TypeOK, Mapped, Pair
<1>15. ASSUME NEW u \in Users, DeleteUser(u) PROVE TypeOK' /\ Mapped'
  BY <1>15, <1>16 DEF DeleteUser, TypeOK
<1>17. QED
  BY <1>1, <1>2, <1>3, <1>4, <1>5, <1>6, <1>7, <1>8, <1>9, <1>10, <1>11, <1>12,
     <1>13, <1>14, <1>15 DEF Next

(* Every variable keeps to its range, and a connection has a user, an      *)
(* address and a map while CheckLimit works on them.                       *)
THEOREM TypeCorrect == Spec => []TypeOK
  BY DeviceInit, TypeStep, PTL DEF Spec

----------------------------------------------------------------------------
(* What the node remembers.                                                *)

LEMMA WatchedTuple ==
  ASSUME NEW u, NEW a, <<u, a>> \in Watched
  PROVE  u \in Users /\ a \in Addrs /\ u # None
  BY WatchedAssumption, NoneAssumption

\* What Sole says of a connection that has registered.
LEMMA SoleHas ==
  ASSUME TypeOK, Mapped, Sole, NEW c \in Conns, NEW p \in Watched \ mislaid, Pair(c) = p
  PROVE  /\ user[c] = p[1] /\ addr[c] = p[2] /\ p[1] \in Users /\ p[2] \in Addrs
         /\ map[c] # "loose"
         /\ stage[c] \in Registered =>
              /\ p[2] \in Present(p[1])
              /\ \A d \in Conns \ {c} : stage[d] \in Registered => Pair(d) # p
         /\ stage[c] \in {"old", "drop"} => p \notin seen /\ (p \in listed => old[p[2]] = p[1])
  BY WatchedPair DEF Sole, SoleAt, Pair

\* A connection that is not at work is of no watched pair.
LEMMA AtRest ==
  ASSUME NEW c, user[c] = None
  PROVE  Pair(c) \notin Watched
  BY WatchedTuple DEF Pair

(* Sole is kept when the pair of every connection that was one stays where *)
(* it was.                                                                 *)
LEMMA SoleKept ==
  ASSUME TypeOK, Mapped, Sole, NEW d \in Conns, NEW p \in Watched \ mislaid, Pair(d) = p,
         p \notin mislaid', Pair(d)' = p, map'[d] = map[d], stage'[d] = stage[d],
         stage[d] \in Registered =>
           \A e \in Conns : stage'[e] \in Registered /\ Pair(e)' = p
                              => stage[e] \in Registered /\ Pair(e) = p,
         stage[d] \in Registered => p[2] \in Present(p[1])',
         stage[d] \in {"old", "drop"} => p \notin seen' /\ (p \in listed' => old'[p[2]] = p[1])
  PROVE  SoleAt(d)'
<1>1. /\ map[d] # "loose"
      /\ stage[d] \in Registered => \A e \in Conns \ {d} : stage[e] \in Registered => Pair(e) # p
  BY SoleHas
<1>2. user'[d] = p[1] /\ addr'[d] = p[2]
  BY DEF Pair
<1>3. stage'[d] \in Registered =>
        /\ addr'[d] \in Present(user[d])'
        /\ \A e \in Conns \ {d} : stage'[e] \in Registered => Pair(e)' # Pair(d)'
  BY <1>1, <1>2 DEF Present
<1>4. QED
  BY <1>1, <1>2, <1>3 DEF SoleAt

LEMMA CheckLimitKeeps ==
  ASSUME TypeOK, Mapped, Remembered, Sole,
         NEW c \in Conns, NEW u \in Users, NEW a \in Addrs, CheckLimit(c, u, a)
  PROVE  Remembered' /\ Sole'
<1>1. /\ user' = [user EXCEPT ![c] = u] /\ addr' = [addr EXCEPT ![c] = a] /\ stage[c] = "none"
      /\ old' = old /\ seen' = seen /\ listed' = listed /\ mislaid' = mislaid
      /\ Pair(c)' = <<u, a>>
      /\ \A d \in Conns \ {c} : user'[d] = user[d] /\ addr'[d] = addr[d] /\ Pair(d)' = Pair(d)
  BY DEF CheckLimit, range, history, TypeOK, Pair
<1>2. CASE /\ online[u] = None /\ online' = [online EXCEPT ![u] = {a}]
           /\ map' = [map EXCEPT ![c] = "own"] /\ stage' = [stage EXCEPT ![c] = "old"]
  <2>1. /\ \A v \in Users : Present(v) \subseteq Present(v)'
        /\ Present(u) = {} /\ a \in Present(u)'
    BY <1>2, NoneAssumption DEF Present, TypeOK
  <2>2. Remembered'
    BY <1>1, <2>1, WatchedPair DEF Remembered
  <2>3. \A e \in Conns \ {c} : stage[e] \in Registered /\ Pair(e) = <<u, a>>
          => <<u, a>> \notin Watched \ mislaid
    BY <2>1, SoleHas
  <2>4. ASSUME NEW d \in Conns, Pair(d)' \in Watched \ mislaid' PROVE SoleAt(d)'
    <3>1. CASE d = c
      <4>1. <<u, a>> \in Watched \ mislaid
        BY <1>1, <2>4, <3>1
      <4>2. <<u, a>> \notin seen /\ (<<u, a>> \in listed => old[a] = u)
        BY <2>1, <4>1 DEF Remembered
      <4>3. map'[c] = "own" /\ stage'[c] = "old" /\ user'[c] = u /\ addr'[c] = a
        BY <1>1, <1>2 DEF TypeOK
      <4>4. \A e \in Conns \ {c} : stage'[e] \in Registered => Pair(e)' # Pair(c)'
        BY <1>1, <1>2, <2>3, <4>1 DEF TypeOK
      <4>5. addr'[c] \in Present(user[c])'
        BY <2>1, <4>3 DEF Present
      <4>6. QED
        BY <1>1, <3>1, <4>2, <4>3, <4>4, <4>5 DEF SoleAt
    <3>2. CASE d # c
      <4>1. Pair(d)' = Pair(d) /\ map'[d] = map[d] /\ stage'[d] = stage[d]
            /\ Pair(d) \in Watched \ mislaid
        BY <1>1, <1>2, <2>4, <3>2 DEF TypeOK
      <4>2. PICK p \in Watched \ mislaid : p = Pair(d) /\ p[1] \in Users
        BY <4>1, WatchedPair
      <4>3. stage[d] \in Registered => p # <<u, a>> /\ p[2] \in Present(p[1]) /\ p[2] \in Present(p[1])'
        BY <2>1, <2>3, <3>2, <4>1, <4>2, SoleHas
      <4>4. stage[d] \in {"old", "drop"} => p \notin seen' /\ (p \in listed' => old'[p[2]] = p[1])
        BY <1>1, <4>2, SoleHas
      <4>5. ASSUME stage[d] \in Registered, NEW e \in Conns, stage'[e] \in Registered, Pair(e)' = p
            PROVE  stage[e] \in Registered /\ Pair(e) = p
        BY <1>1, <1>2, <4>3, <4>5 DEF TypeOK
      <4>6. p \notin mislaid' /\ Pair(d) = p /\ Pair(d)' = p
        BY <1>1, <4>1, <4>2
      <4>7. QED
        BY <4>1, <4>2, <4>3, <4>4, <4>5, <4>6, SoleKept
    <3>3. QED
      BY <3>1, <3>2
  <2>5. QED
    BY <2>2, <2>4 DEF Sole, SoleAt
<1>3. CASE /\ online' = online
           /\ map' = [map EXCEPT ![c] = "found"] /\ stage' = [stage EXCEPT ![c] = "join"]
  <2>1. Remembered'
    BY <1>1, <1>3 DEF Remembered, Present
  <2>2. ASSUME NEW d \in Conns, Pair(d)' \in Watched \ mislaid' PROVE SoleAt(d)'
    <3>1. CASE d = c
      <4>1. map'[c] = "found" /\ stage'[c] = "join"
        BY <1>3 DEF TypeOK
      <4>2. QED
        BY <3>1, <4>1 DEF SoleAt, Registered
    <3>2. CASE d # c
      <4>1. /\ SoleAt(d)
            /\ Pair(d)' = Pair(d) /\ map'[d] = map[d] /\ stage'[d] = stage[d]
            /\ user'[d] = user[d] /\ addr'[d] = addr[d]
            /\ \A e \in Conns : stage'[e] \in Registered => stage'[e] = stage[e] /\ Pair(e)' = Pair(e)
        BY <1>1, <1>3, <3>2 DEF TypeOK, Sole, Registered
      <4>2. QED
        BY <1>1, <1>3, <4>1 DEF SoleAt, Present
    <3>3. QED
      BY <3>1, <3>2
  <2>3. QED
    BY <2>1, <2>2 DEF Sole, SoleAt
<1>4. QED
  BY <1>2, <1>3 DEF CheckLimit

LEMMA Returned ==
  ASSUME TypeOK, NEW c \in Conns, Return(c)
  PROVE  /\ stage'[c] = "none" /\ Pair(c)' \notin Watched
         /\ \A d \in Conns \ {c} : stage'[d] = stage[d] /\ Pair(d)' = Pair(d)
<1>1. user'[c] = None /\ stage'[c] = "none"
  BY DEF Return, TypeOK
<1>2. Pair(c)' \notin Watched
  BY <1>1, WatchedTuple DEF Pair
<1>3. QED
  BY <1>1, <1>2 DEF Return, TypeOK, Pair

(* Sole is kept when a connection returns that takes nothing from others.  *)
LEMMA ReturnKeeps ==
  ASSUME TypeOK, Mapped, Sole, NEW c \in Conns, Return(c), mislaid \subseteq mislaid',
         ASSUME NEW d \in Conns \ {c}, NEW p \in Watched \ mislaid', p \notin mislaid, Pair(d) = p
         PROVE  /\ map'[d] = map[d]
                /\ stage[d] \in Registered => p[2] \in Present(p[1])'
                /\ stage[d] \in {"old", "drop"} => p \notin seen' /\ (p \in listed' => old'[p[2]] = p[1])
  PROVE  Sole'
<1>1. /\ stage'[c] = "none" /\ Pair(c)' \notin Watched
      /\ \A d \in Conns \ {c} : stage'[d] = stage[d] /\ Pair(d)' = Pair(d)
  BY Returned
<1>2. ASSUME NEW d \in Conns, Pair(d)' \in Watched \ mislaid' PROVE SoleAt(d)'
  <2>1. d # c
    BY <1>1, <1>2
  <2>2. PICK p \in Watched \ mislaid' : Pair(d)' = p
    BY <1>2
  <2>3. p \notin mislaid /\ Pair(d) = p
    BY <1>1, <2>1, <2>2
  <2>4. /\ map'[d] = map[d]
        /\ stage[d] \in Registered => p[2] \in Present(p[1])'
        /\ stage[d] \in {"old", "drop"} => p \notin seen' /\ (p \in listed' => old'[p[2]] = p[1])
    BY <2>1, <2>3
  <2>5. \A e \in Conns : stage'[e] \in Registered /\ Pair(e)' = p
          => stage[e] \in Registered /\ Pair(e) = p
    BY <1>1
  <2>6. stage'[d] = stage[d]
    BY <1>1, <2>1
  <2>7. QED
    BY <2>2, <2>3, <2>4, <2>5, <2>6, SoleKept
<1>3. QED
  BY <1>2 DEF Sole, SoleAt

LEMMA JoinKnownKeeps ==
  ASSUME TypeOK, Mapped, Remembered, Sole, NEW c \in Conns, JoinKnown(c)
  PROVE  Remembered' /\ Sole'
<1> DEFINE raced == \E d \in Conns \ {c} : Pair(d) = Pair(c) /\ Unchecked(d)
<1>1. /\ stage[c] = "join" /\ Return(c) /\ map' = [map EXCEPT ![c] = None]
      /\ online' = online /\ old' = old /\ listed' = listed
      /\ map[c] = "found" => addr[c] \in Present(user[c])
  BY DEF JoinKnown, LetIn, range
<1>2. /\ seen' = IF raced THEN seen ELSE seen \cup Watch(Pair(c))
      /\ mislaid' = IF raced THEN mislaid \cup Watch(Pair(c)) ELSE mislaid
  BY DEF JoinKnown
<1>3. mislaid \subseteq mislaid' /\ \A v : Present(v)' = Present(v)
  BY <1>1, <1>2 DEF Present
<1>4. ASSUME NEW p \in Watched \ mislaid', p \in seen', p \notin seen
      PROVE  p = Pair(c) /\ ~raced
  BY <1>2, <1>4 DEF Watch
<1>5. map[c] \in {"found", "loose"}
  BY <1>1 DEF TypeOK, Mapped, Registering
<1>6. ASSUME NEW p \in Watched \ mislaid'
      PROVE  /\ p \in seen' => p[2] \in Present(p[1])'
             /\ p \in listed' => old'[p[2]] = p[1] \/ p[2] \in Present(p[1])'
  <2>1. CASE p \in seen' /\ p \notin seen
    <3>1. Pair(c) = p /\ p \in Watched \ mislaid
      BY <1>3, <1>4, <2>1
    <3>2. user[c] = p[1] /\ addr[c] = p[2] /\ map[c] # "loose"
      BY <3>1, SoleHas
    <3>3. p[2] \in Present(p[1])
      BY <1>1, <1>5, <3>2
    <3>4. QED
      BY <1>3, <3>3
  <2>2. CASE ~(p \in seen' /\ p \notin seen)
    BY <1>1, <1>3, <2>2 DEF Remembered
  <2>3. QED
    BY <2>1, <2>2
<1>7. ASSUME NEW d \in Conns \ {c}, NEW p \in Watched \ mislaid', p \notin mislaid, Pair(d) = p
      PROVE  /\ map'[d] = map[d]
             /\ stage[d] \in Registered => p[2] \in Present(p[1])'
             /\ stage[d] \in {"old", "drop"} => p \notin seen' /\ (p \in listed' => old'[p[2]] = p[1])
  <2>1. /\ map[d] # "loose"
        /\ stage[d] \in Registered => p[2] \in Present(p[1])
        /\ stage[d] \in {"old", "drop"} => p \notin seen /\ (p \in listed => old[p[2]] = p[1])
    BY <1>7, SoleHas
  <2>2. stage[d] \in {"old", "drop"} => Unchecked(d)
    BY <2>1 DEF Unchecked
  <2>3. stage[d] \in {"old", "drop"} => p \notin seen'
    BY <1>4, <1>7, <2>1, <2>2
  <2>4. QED
    BY <1>1, <1>3, <2>1, <2>3 DEF TypeOK
<1>8. Sole'
  BY <1>1, <1>3, <1>7, ReturnKeeps
<1>9. QED
  BY <1>6, <1>8 DEF Remembered

(* A connection is let in that has registered its address.                 *)
LEMMA LetInKeeps ==
  ASSUME TypeOK, Mapped, Remembered, Sole, NEW c \in Conns, stage[c] \in {"old", "forget"}, LetIn(c),
         online' = online, listed' = listed, seen' = seen \cup Watch(Pair(c)), mislaid \subseteq mislaid',
         \A p \in Watched \ mislaid' : old[p[2]] = p[1] => old'[p[2]] = p[1] \/ p = Pair(c)
  PROVE  Remembered' /\ Sole'
<1>1. Return(c) /\ map' = [map EXCEPT ![c] = None] /\ \A v : Present(v)' = Present(v)
  BY DEF LetIn, Present
<1>2. ASSUME NEW p \in Watched \ mislaid', Pair(c) = p PROVE p[2] \in Present(p[1])'
  BY <1>1, <1>2, SoleHas DEF Registered
<1>3. ASSUME NEW p \in Watched \ mislaid'
      PROVE  /\ p \in seen' => p[2] \in Present(p[1])'
             /\ p \in listed' => old'[p[2]] = p[1] \/ p[2] \in Present(p[1])'
  <2>1. /\ p \in seen => p[2] \in Present(p[1])'
        /\ p \in listed => old[p[2]] = p[1] \/ p[2] \in Present(p[1])'
    BY <1>1 DEF Remembered
  <2>2. QED
    BY <1>2, <2>1 DEF Watch
<1>4. ASSUME NEW d \in Conns \ {c}, NEW p \in Watched \ mislaid', p \notin mislaid, Pair(d) = p
      PROVE  /\ map'[d] = map[d]
             /\ stage[d] \in Registered => p[2] \in Present(p[1])'
             /\ stage[d] \in {"old", "drop"} => p \notin seen' /\ (p \in listed' => old'[p[2]] = p[1])
  <2>1. /\ stage[d] \in Registered => p[2] \in Present(p[1]) /\ Pair(c) # p
        /\ stage[d] \in {"old", "drop"} => p \notin seen /\ (p \in listed => old[p[2]] = p[1])
    BY <1>4, SoleHas DEF Registered
  <2>2. map'[d] = map[d]
    BY <1>1 DEF TypeOK
  <2>3. QED
    BY <1>1, <2>1, <2>2 DEF Watch, Registered
<1>5. Sole'
  BY <1>1, <1>4, ReturnKeeps
<1>6. QED
  BY <1>3, <1>5 DEF Remembered

LEMMA JoinNewKeeps ==
  ASSUME TypeOK, Mapped, Remembered, Sole, NEW c \in Conns, JoinNew(c)
  PROVE  Remembered' /\ Sole'
<1>1. /\ stage[c] = "join" /\ stage' = [stage EXCEPT ![c] = "old"]
      /\ user' = user /\ addr' = addr /\ map' = map /\ old' = old
      /\ seen' = seen /\ listed' = listed /\ mislaid' = mislaid
      /\ user[c] \in Users /\ addr[c] \in Addrs
      /\ \A d \in Conns : Pair(d)' = Pair(d)
  BY AtWork DEF JoinNew, conn, range, history, Pair
<1>2. \A v \in Users : Present(v) \subseteq Present(v)'
  <2>1. CASE map[c] = "found" /\ online' = [online EXCEPT ![user[c]] = @ \cup {addr[c]}]
    BY <1>1, <2>1, NoneAssumption DEF Present, Mapped, TypeOK
  <2>2. CASE online' = online
    BY <2>2 DEF Present
  <2>3. QED
    BY <2>1, <2>2 DEF JoinNew
<1>3. Remembered'
  BY <1>1, <1>2, WatchedPair DEF Remembered
<1>4. ASSUME Pair(c) \in Watched \ mislaid
      PROVE  /\ map[c] # "loose" /\ addr[c] \notin Present(user[c]) /\ addr[c] \in Present(user[c])'
             /\ Pair(c) \notin seen /\ (Pair(c) \in listed => old[addr[c]] = user[c])
  <2>1. map[c] # "loose"
    BY <1>4, SoleHas
  <2>2. /\ map[c] = "found" /\ addr[c] \notin Present(user[c])
        /\ online' = [online EXCEPT ![user[c]] = @ \cup {addr[c]}]
    BY <2>1 DEF JoinNew
  <2>3. addr[c] \in Present(user[c])'
    BY <1>1, <2>2, NoneAssumption DEF Present, Mapped, TypeOK
  <2>4. Pair(c) \notin seen /\ (Pair(c) \in listed => old[addr[c]] = user[c])
    BY <1>4, <2>2 DEF Remembered, Pair
  <2>5. QED
    BY <2>1, <2>2, <2>3, <2>4
<1>5. ASSUME Pair(c) \in Watched \ mislaid, NEW d \in Conns \ {c}, stage[d] \in Registered
      PROVE  Pair(d) # Pair(c)
  <2>1. CASE Pair(d) = Pair(c)
    <3>1. addr[c] \in Present(user[c])
      BY <1>5, <2>1, SoleHas DEF Pair
    <3>2. QED
      BY <1>4, <1>5, <3>1
  <2>2. QED
    BY <2>1
<1>6. ASSUME NEW d \in Conns, Pair(d)' \in Watched \ mislaid' PROVE SoleAt(d)'
  <2>1. CASE d = c
    <3>1. Pair(c) \in Watched \ mislaid /\ stage'[c] = "old"
      BY <1>1, <1>6, <2>1 DEF TypeOK
    <3>2. /\ \A e \in Conns \ {c} : stage'[e] \in Registered => Pair(e)' # Pair(c)'
          /\ addr'[c] \in Present(user[c])'
      BY <1>1, <1>4, <1>5, <3>1 DEF TypeOK
    <3>3. QED
      BY <1>1, <1>4, <2>1, <3>1, <3>2 DEF SoleAt, Present
  <2>2. CASE d # c
    <3>1. PICK p \in Watched \ mislaid : p = Pair(d) /\ p[1] \in Users
      BY <1>1, <1>6, WatchedPair
    <3>2. /\ stage[d] \in Registered => p[2] \in Present(p[1]) /\ p # Pair(c)
          /\ stage[d] \in {"old", "drop"} => p \notin seen /\ (p \in listed => old[p[2]] = p[1])
      BY <1>5, <2>2, <3>1, SoleHas
    <3>3. stage[d] \in Registered =>
            \A e \in Conns : stage'[e] \in Registered /\ Pair(e)' = p
                               => stage[e] \in Registered /\ Pair(e) = p
      BY <1>1, <3>2 DEF TypeOK
    <3>4. /\ p \notin mislaid' /\ Pair(d)' = p /\ map'[d] = map[d] /\ stage'[d] = stage[d]
          /\ stage[d] \in Registered => p[2] \in Present(p[1])'
          /\ stage[d] \in {"old", "drop"} => p \notin seen' /\ (p \in listed' => old'[p[2]] = p[1])
      BY <1>1, <1>2, <2>2, <3>1, <3>2 DEF TypeOK
    <3>5. QED
      BY <3>1, <3>3, <3>4, SoleKept
  <2>3. QED
    BY <2>1, <2>2
<1>7. QED
  BY <1>3, <1>6 DEF Sole, SoleAt

(* A connection looks whether its address is known.                        *)
LEMMA LookKeeps ==
  ASSUME TypeOK, Mapped, Remembered, Sole, NEW c \in Conns, NEW s \in {"forget", "drop"},
         stage[c] = "old", stage' = [stage EXCEPT ![c] = s],
         UNCHANGED <<online, old, user, addr, map, seen, listed, mislaid>>
  PROVE  Remembered' /\ Sole'
<1>1. Remembered'
  BY DEF Remembered, Present
<1>2. /\ \A d \in Conns : Pair(d)' = Pair(d)
      /\ \A d \in Conns : stage'[d] \in Registered <=> stage[d] \in Registered
      /\ \A d \in Conns : stage'[d] \in {"old", "drop"} => stage[d] \in {"old", "drop"}
  BY DEF TypeOK, Pair, Registered
<1>3. ASSUME NEW d \in Conns PROVE SoleAt(d)'
  BY <1>2 DEF Sole, SoleAt, Present
<1>4. QED
  BY <1>1, <1>3 DEF Sole

(* Sole is kept when no connection moves and none loses its address.       *)
LEMMA StayKeeps ==
  ASSUME TypeOK, Mapped, Sole, UNCHANGED <<stage, user, addr>>, mislaid \subseteq mislaid',
         ASSUME NEW d \in Conns, NEW p \in Watched \ mislaid', p \notin mislaid, Pair(d) = p
         PROVE  /\ map'[d] = map[d]
                /\ stage[d] \in Registered => p[2] \in Present(p[1])'
                /\ stage[d] \in {"old", "drop"} => p \notin seen' /\ (p \in listed' => old'[p[2]] = p[1])
  PROVE  Sole'
<1>1. \A d \in Conns : Pair(d)' = Pair(d) /\ stage'[d] = stage[d]
  BY DEF Pair
<1>2. ASSUME NEW d \in Conns, Pair(d)' \in Watched \ mislaid' PROVE SoleAt(d)'
  <2>1. PICK p \in Watched \ mislaid' : Pair(d)' = p
    BY <1>2
  <2>2. p \notin mislaid /\ Pair(d) = p
    BY <1>1, <2>1
  <2>3. /\ map'[d] = map[d]
        /\ stage[d] \in Registered => p[2] \in Present(p[1])'
        /\ stage[d] \in {"old", "drop"} => p \notin seen' /\ (p \in listed' => old'[p[2]] = p[1])
    BY <2>2
  <2>4. QED
    BY <1>1, <2>1, <2>2, <2>3, SoleKept
<1>3. QED
  BY <1>2 DEF Sole, SoleAt

(* A user's map is taken off UserOnlineIP.                                 *)
LEMMA SweptKeeps ==
  ASSUME TypeOK, Mapped, Remembered, Sole, NEW u \in Users, NEW c, NEW gone,
         online' = [online EXCEPT ![u] = None], mislaid' = mislaid \cup Swept(u, gone),
         Detach(u, c), old' = old, listed' = listed, seen' \subseteq seen,
         \A p \in Watched \ mislaid' : p \in gone => p \notin seen' /\ old[p[2]] = p[1],
         (c \in Conns /\ stage[c] = "drop" /\ Return(c)) \/ (c \notin Conns /\ UNCHANGED <<stage, user, addr>>)
  PROVE  Remembered' /\ Sole'
<1>1. /\ mislaid \subseteq mislaid' /\ Present(u)' = {}
      /\ \A v \in Users \ {u} : Present(v)' = Present(v)
  BY DEF Present, TypeOK
<1>2. ASSUME NEW p \in Watched \ mislaid', p[1] = u
      PROVE  /\ p[2] \in Present(u) => p \in gone
             /\ \A d \in Conns : Pair(d) = p => stage[d] \notin Registering
  BY <1>2 DEF Swept
<1>3. ASSUME NEW p \in Watched \ mislaid'
      PROVE  /\ p \in seen' => p[2] \in Present(p[1])'
             /\ p \in listed' => old'[p[2]] = p[1] \/ p[2] \in Present(p[1])'
  <2>1. /\ p[1] \in Users
        /\ p \in seen => p[2] \in Present(p[1])
        /\ p \in listed => old[p[2]] = p[1] \/ p[2] \in Present(p[1])
    BY <1>1, WatchedPair DEF Remembered
  <2>2. CASE p[1] = u
    <3>1. p[2] \in Present(u) => p \notin seen' /\ old[p[2]] = p[1]
      BY <1>2, <2>2
    <3>2. QED
      BY <2>1, <2>2, <3>1
  <2>3. CASE p[1] # u
    BY <1>1, <2>1, <2>3
  <2>4. QED
    BY <2>2, <2>3
<1>4. ASSUME NEW d \in Conns, d # c, NEW p \in Watched \ mislaid', p \notin mislaid, Pair(d) = p
      PROVE  /\ map'[d] = map[d]
             /\ stage[d] \in Registered => p[2] \in Present(p[1])'
             /\ stage[d] \in {"old", "drop"} => p \notin seen' /\ (p \in listed' => old'[p[2]] = p[1])
  <2>1. /\ user[d] = p[1] /\ p[1] \in Users
        /\ stage[d] \in Registered => p[2] \in Present(p[1])
        /\ stage[d] \in {"old", "drop"} => p \notin seen /\ (p \in listed => old[p[2]] = p[1])
    BY <1>4, SoleHas
  <2>2. CASE p[1] = u
    <3>1. stage[d] \notin Registering
      BY <1>2, <1>4, <2>2
    <3>2. map[d] = None
      BY <3>1, AtWork
    <3>3. map'[d] = None
      BY <1>4, <3>2, Detached
    <3>4. QED
      BY <3>1, <3>2, <3>3 DEF Registering, Registered
  <2>3. CASE p[1] # u
    <3>1. map'[d] = map[d]
      BY <1>4, <2>1, <2>3, Detached
    <3>2. QED
      BY <1>1, <2>1, <2>3, <3>1
  <2>4. QED
    BY <2>2, <2>3
<1>5. CASE c \in Conns /\ stage[c] = "drop" /\ Return(c)
  <2>1. Sole'
    BY <1>1, <1>4, <1>5, ReturnKeeps
  <2>2. QED
    BY <1>3, <2>1 DEF Remembered
<1>6. CASE c \notin Conns /\ UNCHANGED <<stage, user, addr>>
  <2>1. Sole'
    BY <1>1, <1>4, <1>6, StayKeeps
  <2>2. QED
    BY <1>3, <2>1 DEF Remembered
<1>7. QED
  BY <1>5, <1>6

LEMMA DropKept ==
  ASSUME TypeOK, Mapped, Remembered, Sole, NEW c \in Conns, Drop(c)
  PROVE  Remembered' /\ Sole'
<1>1. /\ stage[c] = "drop" /\ Return(c) /\ user[c] \in Users
      /\ old' = old /\ seen' = seen /\ listed' = listed
  BY AtWork DEF Drop
<1>2. CASE map[c] = "own"
  <2>1. /\ online' = [online EXCEPT ![user[c]] = None]
        /\ mislaid' = mislaid \cup Swept(user[c], {Pair(c)}) /\ Detach(user[c], c)
    BY <1>2 DEF Drop
  <2>2. Pair(c) \in Watched => Pair(c) \in mislaid'
    BY <1>1, <2>1 DEF Swept, Registering, Pair
  <2>3. PICK u \in Users, q \in {Pair(c)} : u = user[c]
    BY <1>1
  <2>4. \A p \in Watched \ mislaid' : p \in {q} => p \notin seen' /\ old[p[2]] = p[1]
    BY <2>2, <2>3
  <2>5. /\ online' = [online EXCEPT ![u] = None]
        /\ mislaid' = mislaid \cup Swept(u, {q}) /\ Detach(u, c)
    BY <2>1, <2>3
  <2>6. seen' \subseteq seen
    BY <1>1
  <2>7. QED
    BY <1>1, <2>4, <2>5, <2>6, SweptKeeps
<1>3. CASE map[c] = "found"
  <2>1. /\ online' = [online EXCEPT ![user[c]] = @ \ {addr[c]}]
        /\ map' = [map EXCEPT ![c] = None] /\ mislaid' = mislaid
    BY <1>3 DEF Drop
  <2>2. online[user[c]] # None /\ online[user[c]] \in SUBSET Addrs /\ online[user[c]] \ {addr[c]} # None
    BY <1>1, <1>3, NoneAssumption DEF Mapped, TypeOK
  <2>3. \A v \in Users : Present(v)' = IF v = user[c] THEN Present(v) \ {addr[c]} ELSE Present(v)
    BY <1>1, <2>1, <2>2 DEF Present, TypeOK
  <2>4. \A p \in Watched : p[2] \in Present(p[1]) => p[2] \in Present(p[1])' \/ p = Pair(c)
    BY <2>3, WatchedPair DEF Pair
  <2>5. Pair(c) \in Watched \ mislaid
          => Pair(c) \notin seen /\ (Pair(c) \in listed => old[addr[c]] = user[c])
    BY <1>1, SoleHas DEF Pair
  <2>6. ASSUME NEW p \in Watched \ mislaid'
        PROVE  /\ p \in seen' => p[2] \in Present(p[1])'
               /\ p \in listed' => old'[p[2]] = p[1] \/ p[2] \in Present(p[1])'
    <3>1. /\ p \in seen => p[2] \in Present(p[1])
          /\ p \in listed => old[p[2]] = p[1] \/ p[2] \in Present(p[1])
      BY <2>1 DEF Remembered
    <3>2. CASE p = Pair(c)
      BY <1>1, <2>1, <2>5, <3>2 DEF Pair
    <3>3. CASE p # Pair(c)
      BY <1>1, <2>4, <3>1, <3>3
    <3>4. QED
      BY <3>2, <3>3
  <2>7. ASSUME NEW d \in Conns \ {c}, NEW p \in Watched \ mislaid', p \notin mislaid, Pair(d) = p
        PROVE  /\ map'[d] = map[d]
               /\ stage[d] \in Registered => p[2] \in Present(p[1])'
               /\ stage[d] \in {"old", "drop"} => p \notin seen' /\ (p \in listed' => old'[p[2]] = p[1])
    <3>1. /\ stage[d] \in Registered => p[2] \in Present(p[1]) /\ p # Pair(c)
          /\ stage[d] \in {"old", "drop"} => p \notin seen /\ (p \in listed => old[p[2]] = p[1])
      BY <1>1, <2>7, SoleHas DEF Registered
    <3>2. QED
      BY <1>1, <2>1, <2>4, <3>1 DEF TypeOK
  <2>8. Sole'
    BY <1>1, <2>1, <2>7, ReturnKeeps
  <2>9. QED
    BY <2>6, <2>8 DEF Remembered
<1>4. CASE map[c] = "loose"
  <2>1. map' = [map EXCEPT ![c] = None] /\ online' = online /\ mislaid' = mislaid
    BY <1>4 DEF Drop
  <2>2. Remembered'
    BY <1>1, <2>1 DEF Remembered, Present
  <2>3. ASSUME NEW d \in Conns \ {c}, NEW p \in Watched \ mislaid', p \notin mislaid, Pair(d) = p
        PROVE  /\ map'[d] = map[d]
               /\ stage[d] \in Registered => p[2] \in Present(p[1])'
               /\ stage[d] \in {"old", "drop"} => p \notin seen' /\ (p \in listed' => old'[p[2]] = p[1])
    <3>1. /\ stage[d] \in Registered => p[2] \in Present(p[1])
          /\ stage[d] \in {"old", "drop"} => p \notin seen /\ (p \in listed => old[p[2]] = p[1])
      BY <2>3, SoleHas
    <3>2. QED
      BY <1>1, <2>1, <3>1 DEF TypeOK, Present
  <2>4. Sole'
    BY <1>1, <2>1, <2>3, ReturnKeeps
  <2>5. QED
    BY <2>2, <2>4
<1>5. QED
  BY <1>2, <1>3, <1>4 DEF Drop

LEMMA StartReportKeeps ==
  ASSUME TypeOK, Mapped, Remembered, Sole, StartReport
  PROVE  Remembered' /\ Sole'
<1>1. /\ online' = online /\ map' = map /\ seen' = seen /\ mislaid' = mislaid /\ listed' = {}
      /\ UNCHANGED <<stage, user, addr>> /\ \A v : Present(v)' = Present(v)
  BY DEF StartReport, conn, Present
<1>2. Remembered'
  BY <1>1 DEF Remembered
<1>3. ASSUME NEW d \in Conns, NEW p \in Watched \ mislaid', p \notin mislaid, Pair(d) = p
      PROVE  /\ map'[d] = map[d]
             /\ stage[d] \in Registered => p[2] \in Present(p[1])'
             /\ stage[d] \in {"old", "drop"} => p \notin seen' /\ (p \in listed' => old'[p[2]] = p[1])
  BY <1>1, <1>3, SoleHas
<1>4. Sole'
  BY <1>1, <1>3, StayKeeps
<1>5. QED
  BY <1>2, <1>4

LEMMA TakeUserKeeps ==
  ASSUME TypeOK, Mapped, Remembered, Sole, NEW u \in Users, TakeUser(u)
  PROVE  Remembered' /\ Sole'
<1>1. /\ map' = map /\ UNCHANGED <<stage, user, addr>> /\ \A v : Present(v)' = Present(v)
      /\ old' = [a \in Addrs |-> IF a \in Present(u) THEN u ELSE old[a]]
      /\ seen' \subseteq seen
      /\ listed' = listed \cup ({<<u, a>> : a \in Present(u)} \cap Watched)
      /\ mislaid' = mislaid \cup {p \in Watched : p[1] # u /\ p[2] \in Present(u) /\ old[p[2]] = p[1]}
  BY DEF TakeUser, conn, Present
<1>2. ASSUME NEW p \in Watched \ mislaid'
      PROVE  /\ old[p[2]] = p[1] => old'[p[2]] = p[1]
             /\ p \in listed' /\ p \notin listed => old'[p[2]] = p[1]
  <2>1. p[1] \in Users /\ p[2] \in Addrs
    BY WatchedPair
  <2>2. old[p[2]] = p[1] => old'[p[2]] = p[1]
    BY <1>1, <1>2, <2>1
  <2>3. ASSUME p \in listed', p \notin listed PROVE old'[p[2]] = p[1]
    <3>1. PICK a \in Present(u) : p = <<u, a>>
      BY <1>1, <2>3
    <3>2. QED
      BY <1>1, <2>1, <3>1
  <2>4. QED
    BY <2>2, <2>3
<1>3. mislaid \subseteq mislaid'
  BY <1>1
<1>4. Remembered'
  BY <1>1, <1>2, <1>3 DEF Remembered
<1>5. ASSUME NEW d \in Conns, NEW p \in Watched \ mislaid', p \notin mislaid, Pair(d) = p
      PROVE  /\ map'[d] = map[d]
             /\ stage[d] \in Registered => p[2] \in Present(p[1])'
             /\ stage[d] \in {"old", "drop"} => p \notin seen' /\ (p \in listed' => old'[p[2]] = p[1])
  <2>1. /\ stage[d] \in Registered => p[2] \in Present(p[1])
        /\ stage[d] \in {"old", "drop"} => p \notin seen /\ (p \in listed => old[p[2]] = p[1])
    BY <1>5, SoleHas
  <2>2. QED
    BY <1>1, <1>2, <2>1
<1>6. Sole'
  BY <1>1, <1>3, <1>5, StayKeeps
<1>7. QED
  BY <1>4, <1>6

LEMMA SoleStep ==
  TypeOK /\ Mapped /\ Remembered /\ Sole /\ [Next]_vars => Remembered' /\ Sole'
<1> SUFFICES ASSUME TypeOK, Mapped, Remembered, Sole, [Next]_vars PROVE Remembered' /\ Sole'
  OBVIOUS
<1>1. CASE UNCHANGED <<online, old, conn, map, stage, seen, listed, mislaid>>
  BY <1>1 DEF conn, Remembered, Sole, SoleAt, Present, Pair
<1>2. ASSUME NEW c \in Conns, NEW u \in Users, NEW a \in Addrs, CheckLimit(c, u, a)
      PROVE  Remembered' /\ Sole'
  BY <1>2, CheckLimitKeeps
<1>3. ASSUME NEW c \in Conns, JoinKnown(c) PROVE Remembered' /\ Sole'
  BY <1>3, JoinKnownKeeps
<1>4. ASSUME NEW c \in Conns, JoinNew(c) PROVE Remembered' /\ Sole'
  BY <1>4, JoinNewKeeps
<1>5. ASSUME NEW c \in Conns, KnownFromBefore(c) PROVE Remembered' /\ Sole'
  BY <1>5, LookKeeps DEF KnownFromBefore, conn, history
<1>6. ASSUME NEW c \in Conns, Pass(c) PROVE Remembered' /\ Sole'
  BY <1>6, LetInKeeps DEF Pass
<1>7. ASSUME NEW c \in Conns, Refuse(c) PROVE Remembered' /\ Sole'
  BY <1>7, LookKeeps DEF Refuse, conn, history
<1>8. ASSUME NEW c \in Conns, Forget(c) PROVE Remembered' /\ Sole'
  <2>1. /\ stage[c] = "forget" /\ LetIn(c) /\ online' = online /\ listed' = listed
        /\ seen' = seen \cup Watch(Pair(c)) /\ old' = [old EXCEPT ![addr[c]] = None]
        /\ mislaid' = mislaid \cup {p \in Watched : p[2] = addr[c] /\ p[1] = old[addr[c]] /\ p # Pair(c)}
    BY <1>8 DEF Forget
  <2>2. ASSUME NEW p \in Watched \ mislaid', old[p[2]] = p[1] PROVE old'[p[2]] = p[1] \/ p = Pair(c)
    <3>1. p[2] # addr[c] \/ p = Pair(c)
      BY <2>1, <2>2
    <3>2. p[2] \in Addrs
      BY WatchedPair
    <3>3. QED
      BY <2>1, <2>2, <3>1, <3>2 DEF TypeOK
  <2>3. mislaid \subseteq mislaid' /\ stage[c] \in {"old", "forget"}
    BY <2>1
  <2>4. QED
    BY <2>1, <2>2, <2>3, LetInKeeps
<1>9. ASSUME NEW c \in Conns, Drop(c) PROVE Remembered' /\ Sole'
  BY <1>9, DropKept
<1>10. CASE StartReport
  BY <1>10, StartReportKeeps
<1>11. CASE ResetUser
  <2>1. PICK u \in Users : u = taking
    BY <1>11 DEF ResetUser, TypeOK
  <2>2. /\ online' = [online EXCEPT ![u] = None] /\ mislaid' = mislaid \cup Swept(u, InOld)
        /\ seen' = {p \in seen : p[1] = u => p \notin InOld} /\ Detach(u, None)
        /\ old' = old /\ listed' = listed /\ UNCHANGED <<stage, user, addr>>
    BY <1>11, <2>1 DEF ResetUser, conn
  <2>3. None \notin Conns
    BY NoneAssumption
  <2> DEFINE gone == {p \in InOld : p[1] = u}
  <2>4. Swept(u, InOld) = Swept(u, gone)
    BY DEF Swept
  <2>5. \A p \in Watched \ mislaid' : p \in gone => p \notin seen' /\ old[p[2]] = p[1]
    BY <2>2 DEF InOld
  <2>6. PICK left : left = gone
    OBVIOUS
  <2> HIDE DEF gone
  <2>7. \A p \in Watched \ mislaid' : p \in left => p \notin seen' /\ old[p[2]] = p[1]
    BY <2>5, <2>6
  <2>8. mislaid' = mislaid \cup Swept(u, left) /\ seen' \subseteq seen
    BY <2>2, <2>4, <2>6
  <2>9. QED
    BY <2>2, <2>3, <2>7, <2>8, SweptKeeps
<1>12. CASE EndReport
  BY <1>1, <1>12 DEF EndReport, history
<1>13. ASSUME NEW u \in Users, TakeUser(u) PROVE Remembered' /\ Sole'
  BY <1>13, TakeUserKeeps
<1>14. ASSUME NEW u \in Users, SkipUser(u) PROVE Remembered' /\ Sole'
  BY <1>1, <1>14 DEF SkipUser, history
<1>15. ASSUME NEW u \in Users, DeleteUser(u) PROVE Remembered' /\ Sole'
  <2>1. /\ online' = [online EXCEPT ![u] = None] /\ mislaid' = mislaid \cup Swept(u, {})
        /\ Detach(u, None) /\ old' = old /\ listed' = listed /\ seen' \subseteq seen
        /\ UNCHANGED <<stage, user, addr>>
    BY <1>15 DEF DeleteUser, conn
  <2>2. None \notin Conns
    BY NoneAssumption
  <2>3. PICK none : none = {}
    OBVIOUS
  <2>4. \A p \in Watched \ mislaid' : p \in none => p \notin seen' /\ old[p[2]] = p[1]
    BY <2>3
  <2>5. mislaid' = mislaid \cup Swept(u, none)
    BY <2>1, <2>3
  <2>6. QED
    BY <2>1, <2>2, <2>4, <2>5, SweptKeeps
<1>16. CASE UNCHANGED vars
  BY <1>1, <1>16 DEF vars, conn
<1>17. QED
  BY <1>2, <1>3, <1>4, <1>5, <1>6, <1>7, <1>8, <1>9, <1>10, <1>11, <1>12,
     <1>13, <1>14, <1>15, <1>16 DEF Next

(* An address that was let in is in UserOnlineIP until it is reported, and *)
(* one that was reported is known until the next report, unless it was     *)
(* mislaid in one of the known ways (CheckLimit, GetOnlineDevice).         *)
THEOREM AddressesRemembered == Spec => []Remembered
  BY DeviceInit, TypeStep, SoleStep, PTL DEF Spec

(* A device the node has let in or reported in this period is not refused  *)
(* on its next connection, unless its address was mislaid.                 *)
THEOREM KnownLetIn == Spec => KnownNotRefused
<1> DEFINE Refused == \A c \in Conns : stage[c] = "old" /\ stage'[c] = "drop"
                        => Pair(c) \notin (seen \cup listed) \ mislaid
<1>1. ASSUME TypeOK, Mapped, Sole, [Next]_vars PROVE [Refused]_vars
  <2>1. SUFFICES ASSUME Next, NEW c \in Conns, stage[c] = "old", stage'[c] = "drop",
                        Pair(c) \in (seen \cup listed) \ mislaid
                 PROVE  FALSE
    BY <1>1
  <2>2. Refuse(c)
    <3>1. ASSUME NEW d \in Conns \ {c}, NEW s, stage' = [stage EXCEPT ![d] = s]
          PROVE  stage'[c] = stage[c]
      BY <3>1 DEF TypeOK
    <3>2. stage' # stage
      BY <2>1
    <3>3. PICK d \in Conns :
            \/ \E u \in Users, a \in Addrs : CheckLimit(d, u, a)
            \/ JoinKnown(d) \/ JoinNew(d) \/ KnownFromBefore(d)
            \/ Pass(d) \/ Refuse(d) \/ Forget(d) \/ Drop(d)
      BY <2>1, <3>2 DEF Next, StartReport, ResetUser, EndReport, TakeUser, SkipUser, DeleteUser
    <3>4. \/ stage' = [stage EXCEPT ![d] = "join"] \/ stage' = [stage EXCEPT ![d] = "old"]
          \/ stage' = [stage EXCEPT ![d] = "none"] \/ stage' = [stage EXCEPT ![d] = "forget"]
          \/ Refuse(d)
      BY <3>3 DEF CheckLimit, JoinKnown, JoinNew, KnownFromBefore, Pass, Forget, Drop, LetIn, Return
    <3>5. CASE Refuse(d)
      <4>1. stage' = [stage EXCEPT ![d] = "drop"]
        BY <3>5 DEF Refuse
      <4>2. QED
        BY <2>1, <3>1, <3>5, <4>1
    <3>6. CASE ~Refuse(d)
      <4>1. PICK s \in {"join", "old", "none", "forget"} : stage' = [stage EXCEPT ![d] = s]
        BY <3>4, <3>6
      <4>2. s = "drop"
        <5>1. stage'[c] = stage[c] \/ stage'[c] = s
          BY <4>1 DEF TypeOK
        <5>2. QED
          BY <2>1, <5>1
      <4>3. QED
        BY <4>2
    <3>7. QED
      BY <3>5, <3>6
  <2>3. Pair(c) \in Watched \ mislaid
    BY <1>1, <2>1 DEF TypeOK
  <2>4. Pair(c) \notin seen /\ (Pair(c) \in listed => old[addr[c]] = user[c]) /\ user[c] # None
    BY <1>1, <2>1, <2>3, SoleHas, NoneAssumption DEF Pair
  <2>5. QED
    BY <2>1, <2>2, <2>4 DEF Refuse
<1>2. QED
  BY <1>1, DeviceInit, TypeStep, SoleStep, PTL DEF Spec, KnownNotRefused

----------------------------------------------------------------------------
(* What the node lets in.                                                  *)

(* Warranted is kept when only the pairs of one connection's user, or one  *)
(* address, change: what is present stays witnessed.                       *)
LEMMA WarrantKept ==
  ASSUME Warranted, warranted \subseteq warranted',
         ASSUME NEW p \in Watched \ warranted', p \notin warranted
         PROVE  /\ old'[p[2]] = p[1] => old[p[2]] = p[1]
                /\ p[2] \in Present(p[1])' =>
                     \/ \E c \in Conns : Pair(c)' = p /\ Unchecked(c)'
                     \/ /\ p[2] \in Present(p[1])
                        /\ \A c \in Conns : Pair(c) = p /\ Unchecked(c) => Pair(c)' = p /\ Unchecked(c)'
  PROVE  Warranted'
<1>1. ASSUME NEW p \in Watched \ warranted'
      PROVE  /\ old'[p[2]] # p[1]
             /\ p[2] \in Present(p[1])' => \E c \in Conns : Pair(c)' = p /\ Unchecked(c)'
  <2>1. p \notin warranted
    OBVIOUS
  <2>2. /\ old[p[2]] # p[1]
        /\ p[2] \in Present(p[1]) => \E c \in Conns : Pair(c) = p /\ Unchecked(c)
    BY <2>1 DEF Warranted
  <2>3. /\ old'[p[2]] = p[1] => old[p[2]] = p[1]
        /\ p[2] \in Present(p[1])' =>
             \/ \E c \in Conns : Pair(c)' = p /\ Unchecked(c)'
             \/ /\ p[2] \in Present(p[1])
                /\ \A c \in Conns : Pair(c) = p /\ Unchecked(c) => Pair(c)' = p /\ Unchecked(c)'
    BY <2>1
  <2>4. QED
    BY <2>2, <2>3
<1>2. QED
  BY <1>1 DEF Warranted

\* A connection that was not unchecked, or is of no pair that matters, moves.
LEMMA OthersWitness ==
  ASSUME TypeOK, NEW c \in Conns, NEW p \in Watched,
         \A d \in Conns \ {c} : user'[d] = user[d] /\ addr'[d] = addr[d] /\ stage'[d] = stage[d]
                                /\ (Pair(d) = p => (map'[d] = "loose" => map[d] = "loose")),
         ~(Pair(c) = p /\ Unchecked(c))
  PROVE  \A d \in Conns : Pair(d) = p /\ Unchecked(d) => Pair(d)' = p /\ Unchecked(d)'
  BY DEF Pair, Unchecked

LEMMA WarrantStep == TypeOK /\ Mapped /\ Warranted /\ [Next]_vars => Warranted'
<1> SUFFICES ASSUME TypeOK, Mapped, Warranted, [Next]_vars PROVE Warranted'
  OBVIOUS
<1>1. CASE warranted' = warranted /\ UNCHANGED <<online, old, conn, map, stage>>
  BY <1>1 DEF conn, Warranted, Present, Pair, Unchecked
<1>2. ASSUME NEW c \in Conns, NEW u \in Users, NEW a \in Addrs, CheckLimit(c, u, a)
      PROVE  Warranted'
  <2>1. /\ user' = [user EXCEPT ![c] = u] /\ addr' = [addr EXCEPT ![c] = a] /\ stage[c] = "none"
        /\ old' = old /\ warranted' = warranted /\ Pair(c)' = <<u, a>>
        /\ \A d \in Conns \ {c} : user'[d] = user[d] /\ addr'[d] = addr[d]
                                  /\ stage'[d] = stage[d] /\ map'[d] = map[d]
        /\ ~Unchecked(c)
    BY <1>2 DEF CheckLimit, range, history, TypeOK, Pair, Unchecked
  <2>2. \A p \in Watched, d \in Conns : Pair(d) = p /\ Unchecked(d) => Pair(d)' = p /\ Unchecked(d)'
    BY <2>1, OthersWitness
  <2>3. CASE /\ online[u] = None /\ online' = [online EXCEPT ![u] = {a}]
             /\ map' = [map EXCEPT ![c] = "own"] /\ stage' = [stage EXCEPT ![c] = "old"]
    <3>1. Unchecked(c)'
      BY <2>3 DEF Unchecked, TypeOK
    <3>2. \A v \in Users : Present(v)' = IF v = u THEN {a} ELSE Present(v)
      BY <2>3, NoneAssumption DEF Present, TypeOK
    <3>3. ASSUME NEW p \in Watched, p[2] \in Present(p[1])'
          PROVE  p[2] \in Present(p[1]) \/ Pair(c)' = p
      BY <2>1, <3>2, <3>3, WatchedPair
    <3>4. QED
      BY <2>1, <2>2, <3>1, <3>3, WarrantKept
  <2>4. CASE online' = online
    <3>1. \A v : Present(v)' = Present(v)
      BY <2>4 DEF Present
    <3>2. QED
      BY <2>1, <2>2, <3>1, WarrantKept
  <2>5. QED
    BY <1>2, <2>3, <2>4 DEF CheckLimit
<1>3. ASSUME NEW c \in Conns, LetIn(c), online' = online, warranted \subseteq warranted',
             \A b \in Addrs : old'[b] = old[b] \/ old'[b] = None,
             Unchecked(c) => Watch(Pair(c)) \subseteq warranted'
      PROVE  Warranted'
  <2>1. \A v : Present(v)' = Present(v)
    BY <1>3 DEF Present
  <2>2. \A d \in Conns \ {c} : user'[d] = user[d] /\ addr'[d] = addr[d] /\ stage'[d] = stage[d]
                               /\ map'[d] = map[d]
    BY <1>3 DEF LetIn, Return, TypeOK
  <2>3. ASSUME NEW p \in Watched \ warranted'
        PROVE  /\ old'[p[2]] = p[1] => old[p[2]] = p[1]
               /\ \A d \in Conns : Pair(d) = p /\ Unchecked(d) => Pair(d)' = p /\ Unchecked(d)'
    <3>1. p[2] \in Addrs /\ p[1] # None
      BY WatchedPair
    <3>2. ~(Pair(c) = p /\ Unchecked(c))
      BY <1>3 DEF Watch
    <3>3. QED
      BY <1>3, <2>2, <3>1, <3>2, OthersWitness
  <2>4. QED
    BY <1>3, <2>1, <2>3, WarrantKept
<1>4. ASSUME NEW c \in Conns, JoinKnown(c) PROVE Warranted'
  <2>1. /\ LetIn(c) /\ online' = online /\ old' = old /\ stage[c] = "join" /\ warranted \subseteq warranted'
    BY <1>4 DEF JoinKnown
  <2>2. ~Unchecked(c)
    BY <2>1 DEF Unchecked
  <2>3. QED
    BY <1>3, <2>1, <2>2
<1>5. ASSUME NEW c \in Conns, JoinNew(c) PROVE Warranted'
  <2>1. /\ stage[c] = "join" /\ stage' = [stage EXCEPT ![c] = "old"]
        /\ user' = user /\ addr' = addr /\ map' = map /\ old' = old /\ warranted' = warranted
        /\ user[c] \in Users /\ addr[c] \in Addrs
        /\ \A d \in Conns : Pair(d)' = Pair(d)
    BY <1>5, AtWork DEF JoinNew, conn, range, history, Pair
  <2>2. \A d \in Conns : Unchecked(d) => Unchecked(d)'
    BY <2>1 DEF Unchecked, TypeOK
  <2>3. CASE map[c] = "found" /\ online' = [online EXCEPT ![user[c]] = @ \cup {addr[c]}]
    <3>1. Unchecked(c)'
      BY <2>1, <2>3 DEF Unchecked, TypeOK
    <3>2. \A v \in Users : Present(v)' \subseteq Present(v) \cup (IF v = user[c] THEN {addr[c]} ELSE {})
      BY <2>1, <2>3, NoneAssumption DEF Present, TypeOK, Mapped
    <3>3. ASSUME NEW p \in Watched, p[2] \in Present(p[1])'
          PROVE  p[2] \in Present(p[1]) \/ Pair(c)' = p
      BY <2>1, <3>2, <3>3, WatchedPair DEF Pair
    <3>4. QED
      BY <2>1, <2>2, <3>1, <3>3, WarrantKept
  <2>4. CASE online' = online
    <3>1. \A v : Present(v)' = Present(v)
      BY <2>4 DEF Present
    <3>2. QED
      BY <2>1, <2>2, <3>1, WarrantKept
  <2>5. QED
    BY <1>5, <2>3, <2>4 DEF JoinNew
<1>6. ASSUME NEW c \in Conns, KnownFromBefore(c) PROVE Warranted'
  <2>1. /\ stage[c] = "old" /\ old[addr[c]] = user[c] /\ stage' = [stage EXCEPT ![c] = "forget"]
        /\ user' = user /\ addr' = addr /\ map' = map /\ old' = old /\ warranted' = warranted /\ online' = online
    BY <1>6 DEF KnownFromBefore, conn, history
  <2>2. \A v : Present(v)' = Present(v)
    BY <2>1 DEF Present
  <2>3. Pair(c) \in Watched => Pair(c) \in warranted
    BY <2>1 DEF Warranted, Pair
  <2>4. ASSUME NEW p \in Watched \ warranted
        PROVE  \A d \in Conns : Pair(d) = p /\ Unchecked(d) => Pair(d)' = p /\ Unchecked(d)'
    <3>1. \A d \in Conns \ {c} : stage'[d] = stage[d]
      BY <2>1 DEF TypeOK
    <3>2. QED
      BY <2>1, <2>3, <3>1, OthersWitness
  <2>5. QED
    BY <2>1, <2>2, <2>4, WarrantKept
<1>7. ASSUME NEW c \in Conns, Pass(c) PROVE Warranted'
  BY <1>3, <1>7 DEF Pass
<1>8. ASSUME NEW c \in Conns, Refuse(c) PROVE Warranted'
  <2>1. /\ stage[c] = "old" /\ stage' = [stage EXCEPT ![c] = "drop"]
        /\ user' = user /\ addr' = addr /\ map' = map /\ old' = old /\ warranted' = warranted /\ online' = online
    BY <1>8 DEF Refuse, conn, history
  <2>2. \A v : Present(v)' = Present(v)
    BY <2>1 DEF Present
  <2>3. \A d \in Conns : Pair(d)' = Pair(d) /\ (Unchecked(d) => Unchecked(d)')
    BY <2>1 DEF Pair, Unchecked, TypeOK
  <2>4. QED
    BY <2>1, <2>2, <2>3, WarrantKept
<1>9. ASSUME NEW c \in Conns, Forget(c) PROVE Warranted'
  <2>1. /\ stage[c] = "forget" /\ LetIn(c) /\ online' = online /\ warranted' = warranted
        /\ old' = [old EXCEPT ![addr[c]] = None]
    BY <1>9 DEF Forget
  <2>2. ~Unchecked(c) /\ \A b \in Addrs : old'[b] = old[b] \/ old'[b] = None
    BY <2>1 DEF Unchecked, TypeOK
  <2>3. QED
    BY <1>3, <2>1, <2>2
<1>10. ASSUME NEW u \in Users, NEW c, online' = [online EXCEPT ![u] = None], Detach(u, c), old' = old,
              warranted' = warranted,
              \A d \in Conns \ {c} : user'[d] = user[d] /\ addr'[d] = addr[d] /\ stage'[d] = stage[d],
              c \in Conns => user[c] = u
       PROVE  Warranted'
  <2>1. \A v \in Users : Present(v)' = IF v = u THEN {} ELSE Present(v)
    BY <1>10 DEF Present, TypeOK
  <2>2. ASSUME NEW p \in Watched, p[2] \in Present(p[1])'
        PROVE  /\ p[2] \in Present(p[1])
               /\ \A d \in Conns : Pair(d) = p /\ Unchecked(d) => Pair(d)' = p /\ Unchecked(d)'
    <3>1. p[1] \in Users /\ p[1] # u /\ p[2] \in Present(p[1])
      BY <2>1, <2>2, WatchedPair
    <3>2. ASSUME NEW d \in Conns, Pair(d) = p, Unchecked(d) PROVE Pair(d)' = p /\ Unchecked(d)'
      <4>1. user[d] # u /\ d # c
        BY <1>10, <3>1, <3>2 DEF Pair
      <4>2. map'[d] = map[d]
        BY <1>10, <4>1, Detached
      <4>3. QED
        BY <1>10, <3>2, <4>1, <4>2 DEF Pair, Unchecked
    <3>3. QED
      BY <3>1, <3>2
  <2>3. QED
    BY <1>10, <2>2, WarrantKept
<1>11. ASSUME NEW c \in Conns, Drop(c) PROVE Warranted'
  <2>1. /\ stage[c] = "drop" /\ user[c] \in Users /\ old' = old /\ warranted' = warranted
        /\ \A d \in Conns \ {c} : user'[d] = user[d] /\ addr'[d] = addr[d] /\ stage'[d] = stage[d]
    BY <1>11, AtWork DEF Drop, Return, TypeOK
  <2>2. CASE map[c] = "own"
    <3>1. PICK u \in Users : u = user[c]
      BY <2>1
    <3>2. online' = [online EXCEPT ![u] = None] /\ Detach(u, c)
      BY <1>11, <2>2, <3>1 DEF Drop
    <3>3. QED
      BY <1>10, <2>1, <3>1, <3>2
  <2>3. CASE map[c] = "found"
    <3>1. /\ online' = [online EXCEPT ![user[c]] = @ \ {addr[c]}] /\ map' = [map EXCEPT ![c] = None]
      BY <1>11, <2>3 DEF Drop
    <3>2. online[user[c]] # None /\ online[user[c]] \in SUBSET Addrs /\ online[user[c]] \ {addr[c]} # None
      BY <2>1, <2>3, NoneAssumption DEF Mapped, TypeOK
    <3>3. \A v \in Users : Present(v)' = IF v = user[c] THEN Present(v) \ {addr[c]} ELSE Present(v)
      BY <2>1, <3>1, <3>2 DEF Present, TypeOK
    <3>4. ASSUME NEW p \in Watched, p[2] \in Present(p[1])'
          PROVE  p[2] \in Present(p[1]) /\ p # Pair(c)
      BY <3>3, <3>4, WatchedPair DEF Pair
    <3>5. \A d \in Conns \ {c} : map'[d] = map[d]
      BY <3>1 DEF TypeOK
    <3>6. ASSUME NEW p \in Watched, p # Pair(c)
          PROVE  \A d \in Conns : Pair(d) = p /\ Unchecked(d) => Pair(d)' = p /\ Unchecked(d)'
      BY <2>1, <3>5, <3>6, OthersWitness
    <3>7. QED
      BY <2>1, <3>4, <3>6, WarrantKept
  <2>4. CASE map[c] = "loose"
    <3>1. online' = online /\ map' = [map EXCEPT ![c] = None]
      BY <1>11, <2>4 DEF Drop
    <3>2. ~Unchecked(c) /\ \A v : Present(v)' = Present(v)
      BY <2>4, <3>1 DEF Unchecked, Present
    <3>3. \A d \in Conns \ {c} : map'[d] = map[d]
      BY <3>1 DEF TypeOK
    <3>4. \A p \in Watched, d \in Conns : Pair(d) = p /\ Unchecked(d) => Pair(d)' = p /\ Unchecked(d)'
      BY <2>1, <3>2, <3>3, OthersWitness
    <3>5. QED
      BY <2>1, <3>2, <3>4, WarrantKept
  <2>5. QED
    BY <1>11, <2>2, <2>3, <2>4 DEF Drop
<1>12. ASSUME online' = online, map' = map, UNCHANGED <<stage, user, addr>>, warranted \subseteq warranted',
              \A p \in Watched \ warranted' : old'[p[2]] = p[1] => old[p[2]] = p[1]
       PROVE  Warranted'
  <2>1. /\ \A v : Present(v)' = Present(v)
        /\ \A d \in Conns : Pair(d)' = Pair(d) /\ (Unchecked(d) => Unchecked(d)')
    BY <1>12 DEF Present, Pair, Unchecked
  <2>2. QED
    BY <1>12, <2>1, WarrantKept
<1>13. CASE StartReport
  <2>1. \A p \in Watched : old'[p[2]] # p[1]
    BY <1>13, WatchedPair DEF StartReport
  <2>2. QED
    BY <1>12, <1>13, <2>1 DEF StartReport, conn
<1>14. CASE ResetUser
  <2>1. PICK u \in Users : u = taking
    BY <1>14 DEF ResetUser, TypeOK
  <2>2. /\ online' = [online EXCEPT ![u] = None] /\ Detach(u, None)
        /\ old' = old /\ warranted' = warranted /\ UNCHANGED <<stage, user, addr>>
    BY <1>14, <2>1 DEF ResetUser, conn
  <2>3. QED
    BY <1>10, <2>2, NoneAssumption
<1>15. ASSUME NEW u \in Users, TakeUser(u) PROVE Warranted'
  <2>1. /\ online' = online /\ map' = map /\ UNCHANGED <<stage, user, addr>>
        /\ old' = [b \in Addrs |-> IF b \in Present(u) THEN u ELSE old[b]]
        /\ warranted' = warranted \cup {p \in Watched : \E c \in Conns : Pair(c) = p /\ Unchecked(c)}
    BY <1>15 DEF TakeUser, conn
  <2>2. ASSUME NEW p \in Watched \ warranted', old'[p[2]] = p[1] PROVE old[p[2]] = p[1]
    <3>1. p \notin warranted /\ p[2] \in Addrs
      BY <2>1, WatchedPair
    <3>2. ~(p[2] \in Present(p[1]))
      BY <2>1, <3>1 DEF Warranted
    <3>3. QED
      BY <2>1, <2>2, <3>1, <3>2
  <2>3. QED
    BY <1>12, <2>1, <2>2
<1>16. ASSUME NEW u \in Users, DeleteUser(u) PROVE Warranted'
  <2>1. /\ online' = [online EXCEPT ![u] = None] /\ Detach(u, None)
        /\ old' = old /\ warranted' = warranted /\ UNCHANGED <<stage, user, addr>>
    BY <1>16 DEF DeleteUser, conn
  <2>2. QED
    BY <1>10, <2>1, NoneAssumption
<1>17. ASSUME NEW u \in Users, SkipUser(u) PROVE Warranted'
  BY <1>1, <1>17 DEF SkipUser, history
<1>18. CASE EndReport
  BY <1>1, <1>18 DEF EndReport, history
<1>19. CASE UNCHANGED vars
  BY <1>1, <1>19 DEF vars, conn
<1>20. QED
  BY <1>2, <1>4, <1>5, <1>6, <1>7, <1>8, <1>9, <1>11, <1>13, <1>14, <1>15, <1>16, <1>17,
     <1>18, <1>19 DEF Next

(* An address the node knows, for which it lets connections in unchecked,  *)
(* once passed the check of CheckLimit, or is of a connection that is not  *)
(* checked yet, or got in through a known gap.                             *)
THEOREM LimitIsHonoured == Spec => []LimitHonoured
<1>1. ASSUME Warranted PROVE LimitHonoured
  BY <1>1 DEF Warranted, LimitHonoured
<1>2. QED
  BY <1>1, DeviceInit, TypeStep, WarrantStep, PTL DEF Spec
============================================================================
