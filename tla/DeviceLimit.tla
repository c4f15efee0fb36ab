---------------------------- MODULE DeviceLimit ----------------------------
(***************************************************************************)
(* limiter/limiter.go, the device half of CheckLimit with GetOnlineDevice, *)
(* AddLimiter and UpdateUser: which addresses of a user are let in, which  *)
(* the node remembers, and what it reports online (node/user.go).          *)
(*                                                                         *)
(* The panel sets the limit of a user, adds and deletes users, and says    *)
(* how many addresses are alive; the node only passes this on.  What a     *)
(* connection reads of it is any limit and any number up to MaxAlive,      *)
(* chosen where it is used.  An address the node knows from this period    *)
(* (UserOnlineIP) or from the last report (OldUserOnline) is let in        *)
(* without a check.                                                        *)
(*                                                                         *)
(* Nothing is locked.  A connection registers its address, then looks      *)
(* whether it is known, then takes it back if it is not to be let in; the  *)
(* report replaces OldUserOnline and moves the addresses of one user after *)
(* another in two steps.  A user's map of addresses is an object that may  *)
(* be taken off UserOnlineIP while a connection works on it: what such a   *)
(* connection finds and leaves there is of no account.                     *)
(*                                                                         *)
(* A connection over UDP of a protocol that does not run over UDP is let   *)
(* in without any of this and has no place here; a user's uid is the user. *)
(***************************************************************************)
EXTENDS Naturals

CONSTANTS
  Users,     \* users of the node
  Addrs,     \* addresses they connect from
  Conns,     \* connections in CheckLimit at one time
  None,      \* no user, no connection
  Limits,    \* device limits of users; 0 is no limit
  MaxAlive,  \* bound: addresses the panel counts for a user
  Watched    \* pairs of a user and an address the history is kept of

ASSUME NoneAssumption ==
  None \notin Users \cup Conns \cup {"own", "found", "loose"} /\ \A S \in SUBSET Addrs : S # None
ASSUME WatchedAssumption == Watched \subseteq Users \X Addrs
ASSUME BoundsAssumption == Limits \subseteq Nat /\ MaxAlive \in Nat

VARIABLES
  online,    \* UserOnlineIP: the addresses in the map of each user, None if it
             \* has none
  old,       \* OldUserOnline: the user of each address
  stage,     \* where each connection is in CheckLimit: "none" before and after
  user,      \* its user
  addr,      \* its address
  map,       \* the map it works on: its own, the one it found, or one that has
             \* been taken off UserOnlineIP since it was found
  report,    \* where GetOnlineDevice is
  todo,      \* users its Range has not come to
  taking,    \* the user whose addresses it has taken and not yet deleted
  seen,      \* history: user and address let in, not yet reported
  listed,    \* history: user and address in the last report
  warranted, \* history: let in below the limit, or through a known gap
  mislaid    \* history: forgotten in one of the known ways

vars == <<online, old, stage, user, addr, map,
          report, todo, taking, seen, listed, warranted, mislaid>>
conn == <<user, addr>>
range == <<report, todo, taking>>
history == <<seen, listed, warranted, mislaid>>

Pairs == Users \X Addrs
Watch(p) == {p} \cap Watched
Stages == {"none", "join", "old", "forget", "drop"}
Registering == {"join", "old", "forget", "drop"}

\* What connection c is: a user at an address.
Pair(c) == <<user[c], addr[c]>>

\* Connection c has registered its address and may yet be refused.
Unchecked(c) == stage[c] \in {"old", "drop"} /\ map[c] # "loose"

\* As many addresses are alive as the user's device limit allows.
Reached(limit, alive) == limit > 0 /\ limit <= alive

\* The addresses of u the node has in UserOnlineIP.
Present(u) == IF online[u] = None THEN {} ELSE online[u]

(* AddLimiter: nobody is online.                                           *)
Init ==
  /\ online = [u \in Users |-> None]
  /\ old = [a \in Addrs |-> None]
  /\ stage = [c \in Conns |-> "none"]
  /\ user = [c \in Conns |-> None]
  /\ addr = [c \in Conns |-> None]
  /\ map = [c \in Conns |-> None]
  /\ report = "idle" /\ todo = {} /\ taking = None
  /\ seen = {} /\ listed = {} /\ warranted = {} /\ mislaid = {}

----------------------------------------------------------------------------
(* CheckLimit.                                                             *)

(* A connection of a user the limiter knows (another is refused at once):  *)
(* UserOnlineIP.LoadOrStore stores its map as the user's, with the address *)
(* in it, or finds the user's.                                             *)
CheckLimit(c, u, a) ==
  /\ stage[c] = "none"
  /\ user' = [user EXCEPT ![c] = u]
  /\ addr' = [addr EXCEPT ![c] = a]
  /\ \/ /\ online[u] = None
        /\ online' = [online EXCEPT ![u] = {a}]
        /\ map' = [map EXCEPT ![c] = "own"]
        /\ stage' = [stage EXCEPT ![c] = "old"]
     \/ /\ online[u] # None
        /\ map' = [map EXCEPT ![c] = "found"]
        /\ stage' = [stage EXCEPT ![c] = "join"]
        /\ UNCHANGED online
  /\ UNCHANGED <<old, range, history>>

\* CheckLimit returns.
Return(c) ==
  /\ stage' = [stage EXCEPT ![c] = "none"]
  /\ user' = [user EXCEPT ![c] = None]
  /\ addr' = [addr EXCEPT ![c] = None]

\* It lets c in.
LetIn(c) ==
  /\ Return(c)
  /\ map' = [map EXCEPT ![c] = None]

(* oldipMap.LoadOrStore finds the address: let in.  The connection that    *)
(* put it there may not have passed its own check yet.                     *)
JoinKnown(c) ==
  /\ stage[c] = "join"
  /\ map[c] = "found" => addr[c] \in Present(user[c])
  /\ LetIn(c)
  /\ LET raced == \E d \in Conns \ {c} : Pair(d) = Pair(c) /\ Unchecked(d) IN
     /\ seen' = IF raced THEN seen ELSE seen \cup Watch(Pair(c))
     /\ mislaid' = IF raced THEN mislaid \cup Watch(Pair(c)) ELSE mislaid
     /\ warranted' = IF raced THEN warranted \cup Watch(Pair(c)) ELSE warranted
  /\ UNCHANGED <<online, old, range, listed>>

(* oldipMap.LoadOrStore stores the address.                                *)
JoinNew(c) ==
  /\ stage[c] = "join"
  /\ \/ /\ map[c] = "found" /\ addr[c] \notin Present(user[c])
        /\ online' = [online EXCEPT ![user[c]] = @ \cup {addr[c]}]
     \/ map[c] = "loose" /\ UNCHANGED online
  /\ stage' = [stage EXCEPT ![c] = "old"]
  /\ UNCHANGED <<old, conn, map, range, history>>

(* OldUserOnline knows the address as the user's: it is to move to this    *)
(* period.                                                                 *)
KnownFromBefore(c) ==
  /\ stage[c] = "old"
  /\ old[addr[c]] = user[c]
  /\ stage' = [stage EXCEPT ![c] = "forget"]
  /\ UNCHANGED <<online, old, conn, map, range, history>>

(* OldUserOnline knows the address as another user's (no limit is checked  *)
(* then), or not at all and the user is below the limit.                   *)
Pass(c) ==
  /\ stage[c] = "old"
  /\ old[addr[c]] # user[c]
  /\ old[addr[c]] # None \/ \E limit \in Limits, alive \in 0..MaxAlive : ~Reached(limit, alive)
  /\ LetIn(c)
  /\ seen' = seen \cup Watch(Pair(c))
  /\ warranted' = warranted \cup Watch(Pair(c))
  /\ UNCHANGED <<online, old, range, listed, mislaid>>

\* A refusal that does not look whether the address is known.
RefuseKnown(c) ==
  /\ stage[c] = "old"
  /\ \E limit \in Limits, alive \in 0..MaxAlive : Reached(limit, alive)
  /\ stage' = [stage EXCEPT ![c] = "drop"]
  /\ UNCHANGED <<online, old, conn, map, range, history>>

(* The address is new and the limit is reached.                            *)
Refuse(c) ==
  /\ stage[c] = "old"
  /\ old[addr[c]] = None
  /\ \E limit \in Limits, alive \in 0..MaxAlive : Reached(limit, alive)
  /\ stage' = [stage EXCEPT ![c] = "drop"]
  /\ UNCHANGED <<online, old, conn, map, range, history>>

(* OldUserOnline.Delete: whatever the map of that name holds by now.       *)
Forget(c) ==
  /\ stage[c] = "forget"
  /\ old' = [old EXCEPT ![addr[c]] = None]
  /\ LetIn(c)
  /\ seen' = seen \cup Watch(Pair(c))
  /\ mislaid' = mislaid \cup {p \in Watched : p[2] = addr[c] /\ p[1] = old[addr[c]] /\ p # Pair(c)}
  /\ UNCHANGED <<online, range, listed, warranted>>

\* The pairs in OldUserOnline.
InOld == {p \in Pairs : old[p[2]] = p[1]}

\* The pairs of u that are forgotten when its map is taken off UserOnlineIP:
\* those in it, but for the ones in gone, and those of connections that
\* still work on it.
Swept(u, gone) ==
  {p \in Watched : p[1] = u /\
     \/ p[2] \in Present(u) /\ p \notin gone
     \/ \E c \in Conns : Pair(c) = p /\ stage[c] \in Registering}

\* Connections of u are left with the map that is taken off UserOnlineIP; c
\* is done with it.
Detach(u, c) ==
  map' = [d \in Conns |-> IF d = c THEN None
                          ELSE IF user[d] = u /\ map[d] = "found" THEN "loose"
                          ELSE map[d]]

\* A refused connection that takes back only a map of its own.
DropKeeps(c) ==
  /\ stage[c] = "drop"
  /\ Return(c)
  /\ \/ /\ map[c] = "own"
        /\ online' = [online EXCEPT ![user[c]] = None]
        /\ mislaid' = mislaid \cup Swept(user[c], {Pair(c)})
        /\ Detach(user[c], c)
     \/ /\ map[c] # "own"
        /\ map' = [map EXCEPT ![c] = None]
        /\ UNCHANGED <<online, mislaid>>
  /\ UNCHANGED <<old, range, seen, listed, warranted>>

(* The refused connection takes its address back; one that made the map    *)
(* takes the whole map away, with the addresses others put there since     *)
(* (or one that was stored in its place).                                  *)
Drop(c) ==
  /\ stage[c] = "drop"
  /\ Return(c)
  /\ \/ /\ map[c] = "own"
        /\ online' = [online EXCEPT ![user[c]] = None]
        /\ mislaid' = mislaid \cup Swept(user[c], {Pair(c)})
        /\ Detach(user[c], c)
     \/ /\ map[c] = "found"
        /\ online' = [online EXCEPT ![user[c]] = @ \ {addr[c]}]
        /\ map' = [map EXCEPT ![c] = None]
        /\ UNCHANGED mislaid
     \/ /\ map[c] = "loose"
        /\ map' = [map EXCEPT ![c] = None]
        /\ UNCHANGED <<online, mislaid>>
  /\ UNCHANGED <<old, range, seen, listed, warranted>>

----------------------------------------------------------------------------
(* GetOnlineDevice, called by every execution of reportUserTrafficTask.    *)

\* A report that begins with both maps empty.
StartReportClears ==
  /\ report = "idle"
  /\ report' = "range"
  /\ todo' = Users
  /\ old' = [a \in Addrs |-> None]
  /\ online' = [u \in Users |-> None]
  /\ listed' = {}
  /\ UNCHANGED <<stage, conn, map, taking, seen, warranted, mislaid>>

(* OldUserOnline is replaced by an empty map.                              *)
StartReport ==
  /\ report = "idle"
  /\ report' = "range"
  /\ todo' = Users
  /\ old' = [a \in Addrs |-> None]
  /\ listed' = {}
  /\ UNCHANGED <<online, stage, conn, map, taking, seen, warranted, mislaid>>

(* The addresses in the user's map are reported, and remembered until the  *)
(* next report: in place of another user's who has the same address.  The  *)
(* address of a connection that is about to be refused is among them.      *)
TakeUser(u) ==
  /\ report = "range" /\ taking = None
  /\ u \in todo /\ online[u] # None
  /\ taking' = u
  /\ todo' = todo \ {u}
  /\ old' = [a \in Addrs |-> IF a \in Present(u) THEN u ELSE old[a]]
  /\ listed' = listed \cup ({<<u, a>> : a \in Present(u)} \cap Watched)
  /\ seen' = seen \ {<<u, a>> : a \in Present(u)}
  /\ mislaid' = mislaid \cup
       {p \in Watched : p[1] # u /\ p[2] \in Present(u) /\ old[p[2]] = p[1]}
  /\ warranted' = warranted \cup {p \in Watched : \E c \in Conns : Pair(c) = p /\ Unchecked(c)}
  /\ UNCHANGED <<online, stage, conn, map, report>>

(* UserOnlineIP.Delete: with the addresses that came in between, or that a *)
(* connection has moved back from OldUserOnline.                           *)
ResetUser ==
  /\ taking # None
  /\ taking' = None
  /\ online' = [online EXCEPT ![taking] = None]
  /\ mislaid' = mislaid \cup Swept(taking, InOld)
  /\ seen' = {p \in seen : p[1] = taking => p \notin InOld}
  /\ Detach(taking, None)
  /\ UNCHANGED <<old, stage, conn, report, todo, listed, warranted>>

(* The Range passes a user without a map.                                  *)
SkipUser(u) ==
  /\ report = "range" /\ taking = None
  /\ u \in todo /\ online[u] = None
  /\ todo' = todo \ {u}
  /\ UNCHANGED <<online, old, stage, conn, map, report, taking, history>>

(* The report is sent.  It is not repeated if it fails, and nothing in the *)
(* node depends on it.                                                     *)
EndReport ==
  /\ report = "range" /\ taking = None /\ todo = {}
  /\ report' = "idle"
  /\ UNCHANGED <<online, old, stage, conn, map, todo, taking, history>>

----------------------------------------------------------------------------
(* nodeInfoMonitor.                                                        *)

(* UpdateUser: a user is deleted, OldUserOnline keeps its addresses.  The  *)
(* user may be added again at once.                                        *)
DeleteUser(u) ==
  /\ online' = [online EXCEPT ![u] = None]
  /\ mislaid' = mislaid \cup Swept(u, {})
  /\ Detach(u, None)
  /\ UNCHANGED <<old, stage, conn, range, seen, listed, warranted>>

Next ==
  \/ \E c \in Conns, u \in Users, a \in Addrs : CheckLimit(c, u, a)
  \/ \E c \in Conns :
       \/ JoinKnown(c) \/ JoinNew(c) \/ KnownFromBefore(c)
       \/ Pass(c) \/ Refuse(c) \/ Forget(c) \/ Drop(c)
  \/ StartReport \/ ResetUser \/ EndReport
  \/ \E u \in Users : TakeUser(u) \/ SkipUser(u) \/ DeleteUser(u)

Spec == Init /\ [][Next]_vars

----------------------------------------------------------------------------
(* Properties.                                                             *)

(* Every variable keeps to its range, and a connection has a user, an      *)
(* address and a map while CheckLimit (limiter.go) works on them.          *)
TypeOK ==
  /\ online \in [Users -> {None} \cup SUBSET Addrs]
  /\ old \in [Addrs -> Users \cup {None}]
  /\ stage \in [Conns -> Stages]
  /\ user \in [Conns -> Users \cup {None}]
  /\ addr \in [Conns -> Addrs \cup {None}]
  /\ map \in [Conns -> {"own", "found", "loose", None}]
  /\ report \in {"idle", "range"} /\ todo \subseteq Users
  /\ taking \in Users \cup {None}
  /\ seen \subseteq Watched /\ listed \subseteq Watched
  /\ warranted \subseteq Watched /\ mislaid \subseteq Watched
  /\ \A c \in Conns : stage[c] # "none" => Pair(c) \in Pairs
  /\ \A c \in Conns : (map[c] # None) <=> (stage[c] \in Registering)

(* An address that was let in is in UserOnlineIP until it is reported, and *)
(* one that was reported is known until the next report, unless it was     *)
(* mislaid: put there by a connection that is refused (L210), in the map a *)
(* refused connection takes away (L217), added between the report's Range  *)
(* and its Delete (L245), in flight meanwhile, the address of two users    *)
(* (L243), or of a user that was deleted.                                  *)
Remembered ==
  \A p \in Watched \ mislaid :
    /\ p \in seen => p[2] \in Present(p[1])
    /\ p \in listed => old[p[2]] = p[1] \/ p[2] \in Present(p[1])

(* An address the node knows, for which it lets connections in unchecked,  *)
(* once passed the check of CheckLimit, or is of a connection that is not  *)
(* checked yet, or got in through a gap: its connection was let in while   *)
(* the one that registered the address was to be refused, the report ran   *)
(* between the registration and the refusal, or another user had it.       *)
LimitHonoured ==
  \A p \in Watched \ warranted :
    \/ p[2] \notin Present(p[1]) /\ old[p[2]] # p[1]
    \/ \E c \in Conns : Pair(c) = p /\ Unchecked(c)

(* A device the node has let in or reported in this period is not refused  *)
(* on its next connection, whatever the panel counts by then, unless its   *)
(* address was mislaid.                                                    *)
KnownNotRefused ==
  [][\A c \in Conns : stage[c] = "old" /\ stage'[c] = "drop"
       => Pair(c) \notin (seen \cup listed) \ mislaid]_vars

\* Strengthening of TypeOK: a connection that works on a map it found in
\* UserOnlineIP has a user with a map.
Mapped ==
  \A c \in Conns :
    /\ map[c] = "found" => online[user[c]] # None
    /\ stage[c] = "join" => map[c] # "own"

\* Strengthening of Remembered and KnownNotRefused: a connection that has
\* registered an address is the only one, and while it is not checked the address
\* is neither let in nor reported without OldUserOnline knowing it.
Registered == {"old", "forget", "drop"}
SoleAt(c) ==
  Pair(c) \in Watched \ mislaid =>
    /\ map[c] # "loose"
    /\ stage[c] \in Registered =>
         /\ addr[c] \in Present(user[c])
         /\ \A d \in Conns \ {c} : stage[d] \in Registered => Pair(d) # Pair(c)
    /\ stage[c] \in {"old", "drop"} =>
         /\ Pair(c) \notin seen
         /\ Pair(c) \in listed => old[addr[c]] = user[c]
Sole == \A c \in Conns : SoleAt(c)

\* Strengthening of LimitHonoured: what was reported is warranted.
Warranted ==
  \A p \in Watched \ warranted :
    /\ old[p[2]] # p[1]
    /\ p[2] \in Present(p[1]) => \E c \in Conns : Pair(c) = p /\ Unchecked(c)
============================================================================
