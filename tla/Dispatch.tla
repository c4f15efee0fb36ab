------------------------------ MODULE Dispatch ------------------------------
(***************************************************************************)
(* core/app/dispatcher/default.go and linkmanager.go with DelUsers of      *)
(* core/user.go: the links of one node's users, and how they are cut when  *)
(* a user is deleted or the core is closed.                                *)
(*                                                                         *)
(* Every connection runs getLink (or DispatchLink) in a goroutine of its   *)
(* own.  The monitor's task deletes and adds users, the main goroutine     *)
(* closes the core; both cut links, each going through CloseAll of a link  *)
(* manager.  LinkManagers is a sync.Map that is loaded and stored in       *)
(* separate steps; a manager's map of links is behind a lock, which is     *)
(* never held while a link is closed.  Which user the task is at is open:  *)
(* users of one list do not depend on each other.                          *)
(*                                                                         *)
(* What lets a connection in is the limiter that the node's tag finds in a *)
(* global registry.  It learns of a deletion after the links are cut, or   *)
(* never, and a reload puts the limiter of the next runtime there, with    *)
(* the same tag: connections let in on that account are named in escaped.  *)
(***************************************************************************)
EXTENDS Naturals

CONSTANTS
  Users,   \* users of the node
  Conns,   \* connections, one after another or at once
  None     \* no user, no manager

ASSUME NoneAssumption == None \notin Users \cup Conns

\* Who cuts links: the monitor's task and the main goroutine.
Cutters == {"task", "main"}

VARIABLES
  core,      \* users with an account in the inbound
  known,     \* users in the limiter's UserLimitInfo
  limiter,   \* the registry's entry for the node's tag: "own" of this
             \* runtime, "next" of the one after it, or "none"
  managers,  \* LinkManagers: the manager registered for a user; a manager
             \* has the name of the connection that made it
  links,     \* the links in each manager's map
  stage,     \* where each connection is
  owner,     \* its user
  manager,   \* the manager it found or made
  at,        \* where each cutter is
  user,      \* the user it is at
  target,    \* the manager it loaded
  taken,     \* the links it took out of the manager and has not closed yet
  todo,      \* managed users the main goroutine has not come to
  escaped    \* history: connections the cutters could not know of

vars == <<core, known, limiter, managers, links, stage, owner, manager,
          at, user, target, taken, todo, escaped>>
accounts == <<core, known, limiter>>
conns == <<stage, owner, manager>>
cutters == <<at, user, target, taken, todo>>

(* A node that has just been started.                                      *)
Init ==
  /\ core \in SUBSET Users
  /\ known = core
  /\ limiter = "own"
  /\ managers = [u \in Users |-> None]
  /\ links = [m \in Conns |-> {}]
  /\ stage = [c \in Conns |-> "none"]
  /\ owner = [c \in Conns |-> None]
  /\ manager = [c \in Conns |-> None]
  /\ at = [k \in Cutters |-> "idle"]
  /\ user = [k \in Cutters |-> None]
  /\ target = [k \in Cutters |-> None]
  /\ taken = [k \in Cutters |-> {}]
  /\ todo = {}
  /\ escaped = {}

----------------------------------------------------------------------------
(* A connection.                                                           *)

(* The inbound dispatches a request of a user.  Whether the user still has *)
(* an account is not asked here: the sessions of mux, anytls, hysteria2    *)
(* and tuic authenticate once and dispatch their streams later.            *)
Accept(c, u) ==
  /\ stage[c] = "none"
  /\ stage' = [stage EXCEPT ![c] = "limiter"]
  /\ owner' = [owner EXCEPT ![c] = u]
  /\ UNCHANGED <<accounts, managers, links, manager, cutters, escaped>>

(* GetLimiter: without an entry in the registry the connection is          *)
(* rejected.                                                               *)
GetLimiter(c) ==
  /\ stage[c] = "limiter"
  /\ stage' = [stage EXCEPT ![c] = CASE limiter = "own" -> "check"
                                     [] limiter = "next" -> "foreign"
                                     [] OTHER -> "closed"]
  /\ UNCHANGED <<accounts, managers, links, owner, manager, cutters, escaped>>

\* The limiter knows a user whose links DelUsers has cut or is cutting: until
\* UpdateUser, and for good when that is left out.
Outdated(u) ==
  u \in known \ core /\ ~(at["task"] = "find" /\ user["task"] = u)

(* CheckLimit rejects an unknown user, or a known one for its devices.     *)
CheckLimit(c) ==
  /\ stage[c] = "check"
  /\ \/ stage' = [stage EXCEPT ![c] = "closed"] /\ UNCHANGED escaped
     \/ /\ owner[c] \in known
        /\ stage' = [stage EXCEPT ![c] = "load"]
        /\ escaped' = escaped \cup {d \in {c} : Outdated(owner[d])}
  /\ UNCHANGED <<accounts, managers, links, owner, manager, cutters>>

(* The same by the limiter of the next runtime, whose users may be any.    *)
CheckForeign(c) ==
  /\ stage[c] = "foreign"
  /\ \/ stage' = [stage EXCEPT ![c] = "closed"] /\ UNCHANGED escaped
     \/ /\ stage' = [stage EXCEPT ![c] = "load"]
        /\ escaped' = escaped \cup {c}
  /\ UNCHANGED <<accounts, managers, links, owner, manager, cutters>>

\* A getLink in which a new manager is local to the branch that makes it.
LoadManagerShadowed(c) ==
  /\ stage[c] = "load"
  /\ IF managers[owner[c]] = None
     THEN /\ stage' = [stage EXCEPT ![c] = "store"]
          /\ UNCHANGED manager
     ELSE /\ stage' = [stage EXCEPT ![c] = "add"]
          /\ manager' = [manager EXCEPT ![c] = managers[owner[c]]]
  /\ UNCHANGED <<accounts, managers, links, owner, cutters, escaped>>

(* LinkManagers.Load: the manager of the user, or a new one to be stored.  *)
LoadManager(c) ==
  /\ stage[c] = "load"
  /\ IF managers[owner[c]] = None
     THEN /\ stage' = [stage EXCEPT ![c] = "store"]
          /\ manager' = [manager EXCEPT ![c] = c]
     ELSE /\ stage' = [stage EXCEPT ![c] = "add"]
          /\ manager' = [manager EXCEPT ![c] = managers[owner[c]]]
  /\ UNCHANGED <<accounts, managers, links, owner, cutters, escaped>>

(* LinkManagers.Store, over whatever another first connection of the user  *)
(* has stored since: the links of that manager are out of reach then.      *)
StoreManager(c) ==
  /\ stage[c] = "store"
  /\ managers' = [managers EXCEPT ![owner[c]] = c]
  /\ escaped' = escaped \cup
       {d \in Conns : /\ managers[owner[c]] # None
                      /\ stage[d] \in {"add", "open"}
                      /\ manager[d] = managers[owner[c]]}
  /\ stage' = [stage EXCEPT ![c] = "add"]
  /\ UNCHANGED <<accounts, links, owner, manager, cutters>>

(* AddLink.                                                                *)
AddLink(c) ==
  /\ stage[c] = "add"
  /\ links' = [links EXCEPT ![manager[c]] = @ \cup {c}]
  /\ stage' = [stage EXCEPT ![c] = "open"]
  /\ UNCHANGED <<accounts, managers, owner, manager, cutters, escaped>>

\* A writer that closes without a word to its manager.
EndLinkUnnoticed(c) ==
  /\ stage[c] = "open"
  /\ stage' = [stage EXCEPT ![c] = "closed"]
  /\ UNCHANGED <<accounts, managers, links, owner, manager, cutters, escaped>>

\* A manager that is dropped with its last link.
EndLinkDropsManager(c) ==
  /\ stage[c] = "open"
  /\ stage' = [stage EXCEPT ![c] = "closed"]
  /\ links' = [links EXCEPT ![manager[c]] = @ \ {c}]
  /\ managers' = IF links[manager[c]] = {c} /\ managers[owner[c]] = manager[c]
                 THEN [managers EXCEPT ![owner[c]] = None] ELSE managers
  /\ UNCHANGED <<accounts, owner, manager, cutters, escaped>>

(* Either side is done: ManagedWriter.Close removes the writer from its    *)
(* manager and closes the link.                                            *)
EndLink(c) ==
  /\ stage[c] = "open"
  /\ stage' = [stage EXCEPT ![c] = "closed"]
  /\ links' = [links EXCEPT ![manager[c]] = @ \ {c}]
  /\ UNCHANGED <<accounts, managers, owner, manager, cutters, escaped>>

----------------------------------------------------------------------------
(* Cutting the links of one user.                                          *)

\* Connections of u that are let in and not in a manager yet.
InFlight(u) == {c \in Conns : owner[c] = u /\ stage[c] \in {"load", "store", "add"}}

\* With those that hold this runtime's limiter and may be let in by it.
Admitted(u) == InFlight(u) \cup {c \in Conns : owner[c] = u /\ stage[c] = "check"}

(* CloseAll takes the links out of the manager, under the lock.            *)
TakeLinks(k) ==
  /\ at[k] = "take"
  /\ taken' = [taken EXCEPT ![k] = links[target[k]]]
  /\ links' = [links EXCEPT ![target[k]] = {}]
  /\ at' = [at EXCEPT ![k] = "close"]
  /\ UNCHANGED <<accounts, managers, conns, user, target, todo, escaped>>

(* CloseAll closes them one by one, without the lock.  Close of a writer   *)
(* asks the manager to remove it; one that is closed already stays closed. *)
CloseLink(k, c) ==
  /\ at[k] = "close"
  /\ c \in taken[k]
  /\ taken' = [taken EXCEPT ![k] = @ \ {c}]
  /\ stage' = [stage EXCEPT ![c] = "closed"]
  /\ links' = [links EXCEPT ![manager[c]] = @ \ {c}]
  /\ UNCHANGED <<accounts, managers, owner, manager, at, user, target, todo, escaped>>

(* LinkManagers.Delete: whatever is registered for the user by now.        *)
Unregister(k) ==
  /\ at[k] = "close"
  /\ taken[k] = {}
  /\ managers' = [managers EXCEPT ![user[k]] = None]
  /\ at' = [at EXCEPT ![k] = IF k = "task" THEN "forget" ELSE "range"]
  /\ target' = [target EXCEPT ![k] = None]
  /\ UNCHANGED <<accounts, links, conns, user, taken, todo, escaped>>

----------------------------------------------------------------------------
(* The monitor's task.                                                     *)

(* DelUsers: RemoveUser of the inbound.                                    *)
RemoveUser(u) ==
  /\ at["task"] = "idle"
  /\ u \in core
  /\ core' = core \ {u}
  /\ at' = [at EXCEPT !["task"] = "find"]
  /\ user' = [user EXCEPT !["task"] = u]
  /\ UNCHANGED <<known, limiter, managers, links, conns, target, taken, todo, escaped>>

(* DelUsers: LinkManagers.Load.                                            *)
FindManager ==
  /\ at["task"] = "find"
  /\ target' = [target EXCEPT !["task"] = managers[user["task"]]]
  /\ at' = [at EXCEPT !["task"] = IF target'["task"] = None THEN "forget" ELSE "take"]
  /\ escaped' = escaped \cup InFlight(user["task"])
  /\ UNCHANGED <<accounts, managers, links, conns, user, taken, todo>>

(* UpdateUser of the limiter, once DelUsers and AddUsers have done all     *)
(* their users: no new connection is let in.                               *)
ForgetUser ==
  /\ at["task"] = "forget"
  /\ known' = known \ {user["task"]}
  /\ at' = [at EXCEPT !["task"] = "idle"]
  /\ user' = [user EXCEPT !["task"] = None]
  /\ UNCHANGED <<core, limiter, managers, links, conns, target, taken, todo, escaped>>

(* AddUsers.                                                               *)
AddUser(u) ==
  /\ at["task"] = "idle"
  /\ u \notin core
  /\ core' = core \cup {u}
  /\ at' = [at EXCEPT !["task"] = "grant"]
  /\ user' = [user EXCEPT !["task"] = u]
  /\ UNCHANGED <<known, limiter, managers, links, conns, target, taken, todo, escaped>>

(* UpdateUser of the limiter, which follows.                               *)
GrantUser ==
  /\ at["task"] = "grant"
  /\ known' = known \cup {user["task"]}
  /\ at' = [at EXCEPT !["task"] = "idle"]
  /\ user' = [user EXCEPT !["task"] = None]
  /\ UNCHANGED <<core, limiter, managers, links, conns, target, taken, todo, escaped>>

(* A later user fails DelUsers or AddUsers, and the monitor returns before *)
(* UpdateUser.                                                             *)
SkipUpdate ==
  /\ at["task"] \in {"forget", "grant"}
  /\ at' = [at EXCEPT !["task"] = "idle"]
  /\ user' = [user EXCEPT !["task"] = None]
  /\ UNCHANGED <<accounts, managers, links, conns, target, taken, todo, escaped>>

----------------------------------------------------------------------------
(* The main goroutine closes the runtime.                                  *)

\* A Close that leaves the registry's entry to the end.
DeleteLimiterLater ==
  /\ at["main"] = "idle"
  /\ at' = [at EXCEPT !["main"] = "closing"]
  /\ UNCHANGED <<accounts, managers, links, conns, user, target, taken, todo, escaped>>

(* A reload that changes nothing closes the runtime it has prepared, and   *)
(* with it deletes the entry of the serving one.                           *)
DiscardPrepared ==
  /\ at["main"] = "idle"
  /\ limiter = "own"
  /\ limiter' = "none"
  /\ UNCHANGED <<core, known, managers, links, conns, cutters, escaped>>

(* Controller.Close: the registry's entry of the node goes first.          *)
DeleteLimiter ==
  /\ at["main"] = "idle"
  /\ limiter' = "none"
  /\ at' = [at EXCEPT !["main"] = "closing"]
  /\ UNCHANGED <<core, known, managers, links, conns, user, target, taken, todo, escaped>>

(* CloseAllManagedLinks, with the core: Range comes to every user that has *)
(* a manager now, and may come to one that gets it in the meantime.        *)
StartRange ==
  /\ at["main"] = "closing"
  /\ at' = [at EXCEPT !["main"] = "range"]
  /\ todo' = {u \in Users : managers[u] # None}
  /\ escaped' = escaped \cup UNION {Admitted(u) : u \in Users}
  /\ UNCHANGED <<accounts, managers, links, conns, user, target, taken>>

RangeNext(u) ==
  /\ at["main"] = "range"
  /\ todo' = todo \ {u}
  /\ IF managers[u] = None
     THEN u \in todo /\ UNCHANGED <<at, user, target>>
     ELSE /\ at' = [at EXCEPT !["main"] = "take"]
          /\ user' = [user EXCEPT !["main"] = u]
          /\ target' = [target EXCEPT !["main"] = managers[u]]
  /\ UNCHANGED <<accounts, managers, links, conns, taken, escaped>>

EndRange ==
  /\ at["main"] = "range"
  /\ todo = {}
  /\ at' = [at EXCEPT !["main"] = "closed"]
  /\ user' = [user EXCEPT !["main"] = None]
  /\ UNCHANGED <<accounts, managers, links, conns, target, taken, todo, escaped>>

(* The next runtime starts: its limiter has the same tag and is found by   *)
(* what the closed core still dispatches.                                  *)
AddLimiter ==
  /\ at["main"] = "closed"
  /\ limiter = "none"
  /\ limiter' = "next"
  /\ UNCHANGED <<core, known, managers, links, conns, cutters, escaped>>

----------------------------------------------------------------------------

Connection(c) ==
  \/ \E u \in Users : Accept(c, u)
  \/ GetLimiter(c) \/ CheckLimit(c) \/ CheckForeign(c) \/ LoadManager(c)
  \/ StoreManager(c) \/ AddLink(c) \/ EndLink(c)

Cut(k) == TakeLinks(k) \/ Unregister(k) \/ \E c \in Conns : CloseLink(k, c)

Task ==
  \/ \E u \in Users : RemoveUser(u) \/ AddUser(u)
  \/ FindManager \/ ForgetUser \/ GrantUser \/ SkipUpdate

Main ==
  \/ DiscardPrepared \/ DeleteLimiter \/ StartRange \/ EndRange \/ AddLimiter
  \/ \E u \in Users : RangeNext(u)

Next ==
  \/ \E c \in Conns : Connection(c)
  \/ \E k \in Cutters : Cut(k)
  \/ Task
  \/ Main

Spec == Init /\ [][Next]_vars

----------------------------------------------------------------------------
(* Properties                                                              *)

Stages ==
  {"none", "limiter", "check", "foreign", "load", "store", "add", "open", "closed"}
TaskStages == {"idle", "find", "take", "close", "forget", "grant"}
MainStages == {"idle", "closing", "range", "take", "close", "closed"}

(* The variables keep to their ranges: a connection has a user once it is  *)
(* accepted and a manager once it is past the load, a cutter has a user    *)
(* and a manager while it cuts.                                            *)
TypeOK ==
  /\ core \in SUBSET Users
  /\ known \in SUBSET Users
  /\ limiter \in {"own", "next", "none"}
  /\ managers \in [Users -> Conns \cup {None}]
  /\ links \in [Conns -> SUBSET Conns]
  /\ stage \in [Conns -> Stages]
  /\ owner \in [Conns -> Users \cup {None}]
  /\ manager \in [Conns -> Conns \cup {None}]
  /\ at \in [Cutters -> TaskStages \cup MainStages]
  /\ at["task"] \in TaskStages /\ at["main"] \in MainStages
  /\ user \in [Cutters -> Users \cup {None}]
  /\ target \in [Cutters -> Conns \cup {None}]
  /\ taken \in [Cutters -> SUBSET Conns]
  /\ todo \in SUBSET Users
  /\ escaped \in SUBSET Conns
  /\ \A c \in Conns :
       /\ stage[c] # "none" => owner[c] \in Users
       /\ stage[c] \in {"store", "add", "open"} => manager[c] \in Conns
  /\ \A k \in Cutters :
       /\ at[k] \in {"take", "close"} => user[k] \in Users /\ target[k] \in Conns
       /\ at[k] \in {"find", "forget", "grant"} => user[k] \in Users

(* A manager holds open links and nothing else: whichever of a client that *)
(* leaves, a CloseAll and the opening of other links comes first, no       *)
(* closed link stays in a map, and ActiveLinkCount counts no dead link.    *)
OnlyOpenLinks == \A m \in Conns : \A c \in links[m] : stage[c] = "open"

\* The task has cut the links of u, and no links of it are left with main.
CutOff(u) ==
  /\ u \notin core
  /\ user["task"] = u => at["task"] \in {"forget", "idle"}
  /\ \A c \in taken["main"] : owner[c] # u

(* Once DelUsers is done with a user, no link of it is open, except those  *)
(* of connections that were inside getLink, past the limiter, when it      *)
(* looked for the user's manager, those of a manager another first         *)
(* connection of the user stored over, and those a limiter that had not    *)
(* been told of the deletion, or that of the next runtime, let in later.   *)
DeletedCut ==
  \A c \in Conns : stage[c] = "open" /\ CutOff(owner[c]) => c \in escaped

(* Once CloseAllManagedLinks is done, no link is open, except the same and *)
(* those of connections that had found the limiter before.  One that looks *)
(* for it later is rejected, until a reload's next runtime has registered  *)
(* a limiter of the same tag.                                              *)
ClosedCut ==
  at["main"] = "closed" =>
    \A c \in Conns : stage[c] = "open" => c \in escaped \cup taken["task"]

(* The inductive invariant behind the three.  First, that names are used   *)
(* consistently: what a manager, a cutter and a connection are to each     *)
(* other belongs to one user.                                              *)
Consistent ==
  /\ \A m \in Conns : \A c \in links[m] : stage[c] = "open" /\ manager[c] = m
  /\ \A c \in Conns : stage[c] = "none" => owner[c] = None
  /\ \A c \in Conns : stage[c] \in {"store", "add", "open"} => owner[manager[c]] = owner[c]
  /\ \A c \in Conns : stage[c] = "store" => manager[c] = c
  /\ \A u \in Users : managers[u] # None => owner[managers[u]] = u
  /\ \A k \in Cutters : at[k] \in {"take", "close"} => owner[target[k]] = user[k]
  /\ \A k \in Cutters : \A c \in taken[k] : at[k] = "close" /\ owner[c] = user[k]

\* Links somebody is about to close.
Taken == taken["task"] \cup taken["main"]

(* A link is in the manager that is registered for its user, or on its     *)
(* way there, or taken by a cutter, or has escaped.                        *)
WithinReach ==
  \A c \in Conns \ escaped :
    /\ stage[c] = "add" => manager[c] = managers[owner[c]]
    /\ stage[c] = "open" =>
         c \in Taken \/ (manager[c] = managers[owner[c]] /\ c \in links[manager[c]])

\* Links of u that have neither escaped nor been taken.
Left(u) == {c \in Conns \ (escaped \cup Taken) : owner[c] = u /\ stage[c] = "open"}

(* What the task has established of a user without an account.             *)
TaskCuts ==
  /\ at["task"] \in {"find", "take", "close", "forget"} => user["task"] \notin core
  /\ \A u \in Users \ core :
       \/ at["task"] = "find" /\ user["task"] = u
       \/ /\ InFlight(u) \subseteq escaped
          /\ \/ Left(u) = {}
             \/ /\ at["task"] = "take" /\ user["task"] = u
                /\ Left(u) \subseteq links[target["task"]]

(* What the main goroutine has established once it closes the core.        *)
MainCuts ==
  /\ at["main"] # "idle" => limiter # "own"
  /\ at["main"] \in {"range", "take", "close", "closed"} =>
       \A u \in Users :
         /\ Admitted(u) \subseteq escaped
         /\ \/ Left(u) = {}
            \/ u \in todo
            \/ /\ at["main"] = "take" /\ user["main"] = u
               /\ Left(u) \subseteq links[target["main"]]
  /\ at["main"] \in {"take", "close"} => user["main"] \notin todo
  /\ at["main"] = "closed" => todo = {}
============================================================================
