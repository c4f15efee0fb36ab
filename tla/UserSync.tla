------------------------------ MODULE UserSync ------------------------------
(***************************************************************************)
(* The second half of nodeInfoMonitor (node/task.go) with the panel's      *)
(* client, the users of the core and those of the limiter: one node's list *)
(* of users is pulled from the panel and the difference to the last list   *)
(* is applied to three places, one after the other.                        *)
(*                                                                         *)
(* The executions of the task that runs nodeInfoMonitor may overlap: one   *)
(* that outlives its timeout has its requests cancelled and goes on when   *)
(* it is past them, and the next tick starts another.  Deleting and adding *)
(* users in the core hold a lock from beginning to end, so each is one     *)
(* step; either may stop in the middle of its list.                        *)
(***************************************************************************)
EXTENDS Naturals

CONSTANTS
  Users,      \* uuids; a user's id never changes
  Limits,     \* pairs of a speed limit and a device limit
  Lists,      \* lists of users: functions from uuids to limits
  Unusable,   \* users the core has no account for (ToMemoryUser fails)
  Execs,      \* executions of nodeInfoMonitor: at most this many overlap
  None,       \* no list, no execution
  MaxChanges  \* bound: changes of the list on the panel

ASSUME ListsAssumption == Lists \subseteq UNION {[S -> Limits] : S \in SUBSET Users}
ASSUME NoneAssumption == None \notin Lists \cup Execs
ASSUME ExecsAssumption == Execs # {}
ASSUME BoundAssumption == MaxChanges \in Nat

VARIABLES
  panel,      \* the list on the panel
  changes,    \* changes of it so far
  etag,       \* userEtag: stands for the list of the last full answer
  userList,   \* c.userList: the list that was last applied to the end
  core,       \* users of the inbound
  uids,       \* users with an id in uidMap
  limits,     \* UserLimitInfo of the limiter
  at,         \* where each execution is
  got,        \* the list it pulled; None after 304 Not Modified
  diff,       \* the differences it found
  waiting,    \* the execution the task waits for
  hurt        \* history: an execution failed half-way or was abandoned

vars == <<panel, changes, etag, userList, core, uids, limits, at, got, diff, waiting, hurt>>
applied == <<userList, core, uids, limits>>

NoDiff == [deleted |-> {}, added |-> {}, modified |-> {}]

(* compareUserList, for lists without a uuid that occurs twice.            *)
Diff(old, list) ==
  [deleted  |-> DOMAIN old \ DOMAIN list,
   added    |-> DOMAIN list \ DOMAIN old,
   modified |-> {u \in DOMAIN old \cap DOMAIN list : old[u] # list[u]}]

(* A controller whose StartPrepared has succeeded.                         *)
Init ==
  /\ panel \in {l \in Lists : DOMAIN l \cap Unusable = {}}
  /\ changes = 0
  /\ etag = panel /\ userList = panel
  /\ core = DOMAIN panel /\ uids = DOMAIN panel /\ limits = panel
  /\ at = [e \in Execs |-> "idle"]
  /\ got = [e \in Execs |-> None]
  /\ diff = [e \in Execs |-> NoDiff]
  /\ waiting = None
  /\ hurt = FALSE

(* Users are added, removed or given other limits on the panel.            *)
PanelChanges ==
  /\ changes < MaxChanges
  /\ changes' = changes + 1
  /\ panel' \in Lists \ {panel}
  /\ UNCHANGED <<etag, applied, at, got, diff, waiting, hurt>>

----------------------------------------------------------------------------
(* One execution, as far as the users are concerned.                       *)

(* The task starts an execution that finds the node unchanged.             *)
Tick(e) ==
  /\ waiting = None
  /\ at[e] = "idle"
  /\ at' = [at EXCEPT ![e] = "list"]
  /\ waiting' = e
  /\ UNCHANGED <<panel, changes, etag, applied, got, diff, hurt>>

\* An ExecuteWithTimeout that is told of no result.
FinishUnnoticed(e) ==
  /\ at' = [at EXCEPT ![e] = "idle"]
  /\ got' = [got EXCEPT ![e] = None]
  /\ diff' = [diff EXCEPT ![e] = NoDiff]
  /\ UNCHANGED waiting

(* It returns: what it pulled is forgotten.                                *)
Finish(e) ==
  /\ at' = [at EXCEPT ![e] = "idle"]
  /\ got' = [got EXCEPT ![e] = None]
  /\ diff' = [diff EXCEPT ![e] = NoDiff]
  /\ waiting' = IF waiting = e THEN None ELSE waiting

(* GetUserList: 304 Not Modified.                                          *)
ListUnchanged(e) ==
  /\ at[e] = "list"
  /\ etag = panel
  /\ at' = [at EXCEPT ![e] = "alive"]
  /\ UNCHANGED <<panel, changes, etag, applied, got, diff, waiting, hurt>>

(* GetUserList: the whole list; the client remembers its ETag at once.     *)
ListPulled(e) ==
  /\ at[e] = "list"
  /\ etag # panel
  /\ got' = [got EXCEPT ![e] = panel]
  /\ etag' = panel
  /\ at' = [at EXCEPT ![e] = "alive"]
  /\ UNCHANGED <<panel, changes, applied, diff, waiting, hurt>>

(* GetUserList: no answer, or one that cannot be decoded.                  *)
ListFails(e) ==
  /\ at[e] = "list"
  /\ Finish(e)
  /\ UNCHANGED <<panel, changes, etag, applied, hurt>>

\* A monitor that takes an empty list for no list.
AliveDoneIgnoresEmpty(e) ==
  /\ at[e] = "alive"
  /\ IF got[e] = None \/ got[e] = << >>
     THEN Finish(e)
     ELSE /\ at' = [at EXCEPT ![e] = "delete"]
          /\ diff' = [diff EXCEPT ![e] = Diff(userList, got[e])]
          /\ UNCHANGED <<got, waiting>>
  /\ UNCHANGED <<panel, changes, etag, applied, hurt>>

(* GetUserAlive answers, if only with nothing, and the list is compared    *)
(* with the one that was applied last.                                     *)
AliveDone(e) ==
  /\ at[e] = "alive"
  /\ IF got[e] = None
     THEN Finish(e)
     ELSE /\ at' = [at EXCEPT ![e] = "delete"]
          /\ diff' = [diff EXCEPT ![e] = Diff(userList, got[e])]
          /\ UNCHANGED <<got, waiting>>
  /\ UNCHANGED <<panel, changes, etag, applied, hurt>>

(* DelUsers.                                                               *)
DeleteUsers(e) ==
  /\ at[e] = "delete"
  /\ diff[e].deleted \subseteq core
  /\ core' = core \ diff[e].deleted
  /\ uids' = uids \ diff[e].deleted
  /\ at' = [at EXCEPT ![e] = "add"]
  /\ UNCHANGED <<panel, changes, etag, userList, limits, got, diff, waiting, hurt>>

\* A DelUsers that forgets the ids before it removes the users.
DeleteFailsForgets(e) ==
  /\ at[e] = "delete"
  /\ ~(diff[e].deleted \subseteq core)
  /\ \E gone \in SUBSET (diff[e].deleted \cap core) : core' = core \ gone
  /\ uids' = uids \ diff[e].deleted
  /\ Finish(e)
  /\ hurt' = TRUE
  /\ UNCHANGED <<panel, changes, etag, userList, limits>>

(* DelUsers stops at a user the core does not have.                        *)
DeleteFails(e) ==
  /\ at[e] = "delete"
  /\ ~(diff[e].deleted \subseteq core)
  /\ \E gone \in SUBSET (diff[e].deleted \cap core) :
       core' = core \ gone /\ uids' = uids \ gone
  /\ Finish(e)
  /\ hurt' = TRUE
  /\ UNCHANGED <<panel, changes, etag, userList, limits>>

(* The users that AddUsers can add: those the core has an account for and  *)
(* does not have yet.                                                      *)
Addable(e) == diff[e].added \ (core \cup Unusable)

(* AddUsers.                                                               *)
AddUsers(e) ==
  /\ at[e] = "add"
  /\ Addable(e) = diff[e].added
  /\ core' = core \cup diff[e].added
  /\ uids' = uids \cup diff[e].added
  /\ at' = [at EXCEPT ![e] = "update"]
  /\ UNCHANGED <<panel, changes, etag, userList, limits, got, diff, waiting, hurt>>

(* AddUsers stops at a user that cannot be added; the ids of all of them   *)
(* are noted by then.                                                      *)
AddFails(e) ==
  /\ at[e] = "add"
  /\ Addable(e) # diff[e].added
  /\ \E in \in SUBSET Addable(e) : core' = core \cup in
  /\ uids' = uids \cup diff[e].added
  /\ Finish(e)
  /\ hurt' = TRUE
  /\ UNCHANGED <<panel, changes, etag, userList, limits>>

\* An UpdateUser that overlooks the modified users.
UpdateAddedDeleted(list, d) ==
  [u \in (DOMAIN limits \ d.deleted) \cup d.added |->
     IF u \in d.added THEN list[u] ELSE limits[u]]

(* UpdateUser of the limiter; a modified user it does not have is skipped. *)
Update(list, d) ==
  [u \in (DOMAIN limits \ d.deleted) \cup d.added |->
     IF u \in d.added \cup d.modified THEN list[u] ELSE limits[u]]

UpdateLimiter(e) ==
  /\ at[e] = "update"
  /\ limits' = Update(got[e], diff[e])
  /\ userList' = got[e]
  /\ Finish(e)
  /\ UNCHANGED <<panel, changes, etag, core, uids, hurt>>

(* The task stops waiting and cancels the context: a request ends with an  *)
(* error, and an execution past its requests goes on.                      *)
Timeout(e) ==
  /\ waiting = e
  /\ IF at[e] \in {"list", "alive"}
     THEN Finish(e)
     ELSE waiting' = None /\ UNCHANGED <<at, got, diff>>
  /\ hurt' = (hurt \/ got[e] # None)
  /\ UNCHANGED <<panel, changes, etag, applied>>

----------------------------------------------------------------------------

Apply(e) ==
  \/ ListUnchanged(e) \/ AliveDone(e)
  \/ DeleteUsers(e) \/ DeleteFails(e) \/ AddUsers(e) \/ AddFails(e)
  \/ UpdateLimiter(e)

Next ==
  \/ PanelChanges
  \/ \E e \in Execs : Tick(e) \/ ListPulled(e) \/ ListFails(e) \/ Apply(e) \/ Timeout(e)

(* The task keeps ticking, an execution past its request goes on, and a    *)
(* panel that is asked again and again answers in the end.                 *)
Fairness ==
  /\ WF_vars(\E e \in Execs : Tick(e))
  /\ \A e \in Execs : WF_vars(Apply(e)) /\ SF_vars(ListPulled(e))

Spec == Init /\ [][Next]_vars /\ Fairness

----------------------------------------------------------------------------
(* Properties                                                              *)

Stages == {"idle", "list", "alive", "delete", "add", "update"}

(* The variables keep to their ranges; an execution has a list exactly     *)
(* while it applies one, and the task waits for one that has not returned. *)
TypeOK ==
  /\ panel \in Lists
  /\ changes \in 0..MaxChanges
  /\ etag \in Lists
  /\ userList \in Lists
  /\ core \in SUBSET Users
  /\ uids \in SUBSET Users
  /\ DOMAIN limits \subseteq Users
  /\ at \in [Execs -> Stages]
  /\ got \in [Execs -> Lists \cup {None}]
  /\ diff \in [Execs -> [deleted : SUBSET Users, added : SUBSET Users, modified : SUBSET Users]]
  /\ waiting \in Execs \cup {None}
  /\ hurt \in BOOLEAN
  /\ \A e \in Execs : at[e] \in {"idle", "list"} => got[e] = None
  /\ \A e \in Execs : at[e] \in {"delete", "add", "update"} => got[e] # None
  /\ waiting # None => at[waiting] # "idle"

(* Every user of the core has an id: without one GetUserTrafficSlice drops *)
(* what the user has transferred.  Neither a DelUsers or AddUsers that     *)
(* stops half-way nor two executions that apply different lists at once    *)
(* break this.                                                             *)
BillingKnown == core \subseteq uids

Agree(list) ==
  /\ userList = list
  /\ core = DOMAIN list
  /\ uids = DOMAIN list
  /\ limits = list

Resting == \A e \in Execs : at[e] = "idle"

(* Between executions the controller, the core, the ids and the limiter    *)
(* all hold the list whose ETag the client sends, as long as no execution  *)
(* failed half-way or was abandoned with a list in its hands.              *)
Synced == Resting /\ ~hurt => Agree(etag)

(* Synced follows the one execution there is through its stages: this is   *)
(* inductive.                                                              *)
Halfway(e) ==
  /\ at[e] = "alive" /\ got[e] = None => Agree(etag)
  /\ at[e] = "alive" /\ got[e] # None => got[e] = etag /\ Agree(userList)
  /\ at[e] \in {"delete", "add", "update"} =>
       /\ got[e] = etag
       /\ diff[e] = Diff(userList, etag)
       /\ limits = userList
       /\ uids = core
       /\ core = CASE at[e] = "delete" -> DOMAIN userList
                   [] at[e] = "add" -> DOMAIN userList \ diff[e].deleted
                   [] at[e] = "update" -> DOMAIN etag

InStep ==
  ~hurt =>
    /\ \A e \in Execs : at[e] # "idle" => waiting = e
    /\ \A e \in Execs : at[e] \in {"idle", "list"} /\ waiting \in {None, e} => Agree(etag)
    /\ \A e \in Execs : Halfway(e)

(* When the panel comes to rest, all four copies come to hold its list,    *)
(* under the same condition.                                               *)
Converges == <>[](hurt \/ Agree(panel))

(* A list that was pulled is applied, or will be asked for again: what a   *)
(* timeout promises, "keep serving with the last known data and retry on   *)
(* the next tick".  Once the client sends the ETag of the panel's list, it *)
(* gets no list any more.                                                  *)
RetriedNextTick == Resting /\ etag = panel => userList = panel
============================================================================
