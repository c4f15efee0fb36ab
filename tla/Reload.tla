------------------------------- MODULE Reload -------------------------------
(***************************************************************************)
(* cmd/server.go with node/node.go, node/controller.go and the lifecycle   *)
(* parts of core/core.go and limiter/limiter.go: one process serves a      *)
(* runtime (a core and one controller per configured node) and replaces it *)
(* when the config file, a node's information on the panel or a            *)
(* certificate changes.                                                    *)
(*                                                                         *)
(* The main goroutine prepares a second runtime beside the one that        *)
(* serves, compares the signatures, and either discards it or closes the   *)
(* old one and starts the new one.  The tasks of the controllers and the   *)
(* watcher of the config file run beside it and ask for a reload through   *)
(* a channel with one slot.  The registry of limiters is one global map    *)
(* keyed by the tag of a node, shared by both runtimes.                    *)
(***************************************************************************)
EXTENDS Naturals

CONSTANTS
  Tags,       \* tags of nodes
  Confs,      \* contents of the config file that load
  Bad,        \* a content that does not load
  Bodies,     \* answers of the panel to GetNodeInfo
  None,       \* no content, tag or body
  Nodes,      \* the nodes a content configures
  Local,      \* the part of the signature a content determines; a change of
              \* the log settings or of the layout of the file keeps it
  Fp,         \* CoreFingerprint of a body as decoded
  Settled,    \* the same after Prepare normalised CertInfo in place
  FirstConfs, FirstBodies,  \* the contents and answers there are at the start
  MaxEdits,   \* bound: writes of the config file
  MaxChanges  \* bound: changes of node information on the panel

ASSUME NoneAssumption == None \notin Confs \cup Tags \cup Bodies \cup {Bad}
ASSUME BadAssumption == Bad \notin Confs
ASSUME FirstAssumption == FirstConfs \subseteq Confs /\ FirstBodies \subseteq Bodies
ASSUME NodesAssumption == Nodes \in [Confs -> SUBSET Tags]
ASSUME LocalAssumption ==
         \A c, d \in Confs : Local[c] = Local[d] => Nodes[c] = Nodes[d]
ASSUME SettledAssumption == \A b \in Bodies : Settled[Settled[Fp[b]]] = Settled[Fp[b]]
ASSUME BoundsAssumption == MaxEdits \in Nat /\ MaxChanges \in Nat

Reasons == {"config_file_changed", "node_config_changed", "cert_metadata_changed"}
Slots == {"current", "prepared"}
Terminal == {"down", "fatal", "panicked"}

VARIABLES
  disk,       \* content of the config file
  panel,      \* the panel's answer for each node
  edits,      \* writes of the config file so far
  changes,    \* changes on the panel so far
  lastHash,   \* content the watcher knows; None before Watch was called
  dirty,      \* an event of the file waits for the watcher's check
  unread,     \* history: the watcher asked for a reload and the main goroutine
              \* has not read the file since
  queue,      \* reloadCh: "none" or the reason of the event in its slot
  limiter,    \* tags with an entry in the registry of limiters
  rt,         \* the two runtimes
  stray,      \* executions in flight whose task and core are both closed
  pc,         \* where the main goroutine is
  reason,     \* the event it serves; "boot" for the first runtime
  todo,       \* nodes the loop of its phase has not reached
  at,         \* the node it is at
  closing,    \* the runtime it closes
  after,      \* where it goes once that is closed
  retained,   \* history: a reload left the old runtime serving
  skipped     \* history: one did so because the signature was the same

vars == <<disk, panel, edits, changes, lastHash, dirty, unread, queue, limiter, rt,
          stray, pc, reason, todo, at, closing, after, retained, skipped>>
world == <<disk, panel, edits, changes>>
watcher == <<lastHash, dirty, unread>>
goal == <<reason, closing, after>>
history == <<retained, skipped>>

(* A runtimeBundle: its config and controllers; what the panel had         *)
(* answered when they were prepared (base) and at the last request of      *)
(* their clients (seen); the state of the core; the inbounds in it         *)
(* (nodeAdded); the controllers whose tasks run; and those with an         *)
(* execution of nodeInfoMonitor past its request for the node's            *)
(* information.                                                            *)
Absent ==
  [conf |-> None, nodes |-> {}, base |-> [t \in Tags |-> None],
   seen |-> [t \in Tags |-> None], core |-> "none", inbound |-> {}, tasks |-> {}, busy |-> {}]

cur == rt["current"]
new == rt["prepared"]

(* The signature holds the local part and a fingerprint for each node.     *)
Signature(r) == <<Local[r.conf], {<<t, Settled[Fp[r.base[t]]]>> : t \in r.nodes}>>

Init ==
  /\ disk \in FirstConfs
  /\ panel \in [Tags -> FirstBodies]
  /\ edits = 0 /\ changes = 0
  /\ lastHash = None /\ dirty = FALSE /\ unread = FALSE
  /\ queue = "none"
  /\ limiter = {}
  /\ rt = [s \in Slots |-> Absent]
  /\ stray = {}
  /\ pc = "load" /\ reason = "boot"
  /\ todo = {} /\ at = None
  /\ closing = "prepared" /\ after = "down"
  /\ retained = FALSE /\ skipped = FALSE

----------------------------------------------------------------------------
(* Outside the process.                                                    *)

(* fsnotify reports the write to the watcher, once Watch was called.  The  *)
(* watcher sleeps before its check and passes over what it is told for ten *)
(* seconds, so a write may go without a check of its own.                  *)
EditFile ==
  /\ pc \notin Terminal
  /\ edits < MaxEdits
  /\ edits' = edits + 1
  /\ disk' \in (Confs \cup {Bad}) \ {disk}
  /\ \E noticed \in BOOLEAN : dirty' = (dirty \/ (noticed /\ lastHash # None))
  /\ UNCHANGED <<panel, changes, lastHash, unread, queue, limiter, rt, stray, pc, todo, at, goal,
                 history>>

PanelChanges(t) ==
  /\ pc \notin Terminal
  /\ changes < MaxChanges
  /\ changes' = changes + 1
  /\ \E b \in Bodies \ {panel[t]} : panel' = [panel EXCEPT ![t] = b]
  /\ UNCHANGED <<disk, edits, watcher, queue, limiter, rt, stray, pc, todo, at, goal, history>>

----------------------------------------------------------------------------
(* Requests for a reload.                                                  *)

\* A channel without a slot: the event is lost while a reload is under way.
OfferUnbuffered(why) == queue' = IF queue = "none" /\ pc = "serve" THEN why ELSE queue

(* The non-blocking send: an event is dropped when the slot is taken.      *)
Offer(why) == queue' = IF queue = "none" THEN why ELSE queue

(* The watcher's check: it compares the content with lastHash, loads it,   *)
(* and asks for a reload.                                                  *)
WatcherChecks ==
  /\ pc \notin Terminal
  /\ dirty
  /\ dirty' = FALSE
  /\ IF disk \in {lastHash, Bad}
     THEN UNCHANGED <<lastHash, unread, queue>>
     ELSE /\ lastHash' = disk
          /\ unread' = TRUE
          /\ Offer("config_file_changed")
  /\ UNCHANGED <<world, limiter, rt, stray, pc, todo, at, goal, history>>

\* A monitor that remembers another answer and goes on with the users.
MonitorFetchesOnly(s, t) ==
  /\ pc \notin Terminal
  /\ t \in rt[s].tasks \ rt[s].busy
  /\ rt' = [rt EXCEPT ![s].seen[t] = panel[t], ![s].busy = @ \cup {t}]
  /\ UNCHANGED <<world, watcher, queue, limiter, stray, pc, todo, at, goal, history>>

(* nodeInfoMonitor up to its comparison of fingerprints.  The client       *)
(* remembers the answer; one that it has seen before is nil, one with      *)
(* another fingerprint asks for a reload and ends the execution, and       *)
(* otherwise the users are pulled.                                         *)
MonitorFetches(s, t) ==
  /\ pc \notin Terminal
  /\ t \in rt[s].tasks \ rt[s].busy
  /\ LET differs == /\ panel[t] # rt[s].seen[t]
                    /\ Fp[panel[t]] # Settled[Fp[rt[s].base[t]]]
     IN  /\ rt' = [rt EXCEPT ![s].seen[t] = panel[t],
                             ![s].busy = IF differs THEN @ ELSE @ \cup {t}]
         /\ IF differs THEN Offer("node_config_changed") ELSE UNCHANGED queue
  /\ UNCHANGED <<world, watcher, limiter, stray, pc, todo, at, goal, history>>

(* The rest of nodeInfoMonitor: it adds and deletes users in the core,     *)
(* which is open (an inbound that is gone is an error and no more).        *)
MonitorSyncs(s, t) ==
  /\ pc \notin Terminal
  /\ t \in rt[s].busy
  /\ rt' = [rt EXCEPT ![s].busy = @ \ {t}]
  /\ UNCHANGED <<world, watcher, queue, limiter, stray, pc, todo, at, goal, history>>

(* renewCertTask wrote another certificate.                                *)
CertRenewed(s, t) ==
  /\ pc \notin Terminal
  /\ t \in rt[s].tasks
  /\ Offer("cert_metadata_changed")
  /\ UNCHANGED <<world, watcher, limiter, rt, stray, pc, todo, at, goal, history>>

(* An execution that was in flight when its task was closed goes on after  *)
(* the core is closed.  It ends, or asks for a reload, or uses the core,   *)
(* whose dispatcher and inbound manager are nil by now.                    *)
StrayEnds(t) ==
  /\ pc \notin Terminal
  /\ t \in stray
  /\ stray' = stray \ {t}
  /\ \/ UNCHANGED queue
     \/ Offer("node_config_changed")
  /\ UNCHANGED <<world, watcher, limiter, rt, pc, todo, at, goal, history>>

StrayUsesCore(t) ==
  /\ pc \notin Terminal
  /\ t \in stray
  /\ pc' = "panicked"
  /\ UNCHANGED <<world, watcher, queue, limiter, rt, stray, todo, at, goal, history>>

----------------------------------------------------------------------------
(* The main goroutine: serving.                                            *)

TakeEvent ==
  /\ pc = "serve"
  /\ queue # "none"
  /\ reason' = queue
  /\ queue' = "none"
  /\ pc' = "load"
  /\ UNCHANGED <<world, watcher, limiter, rt, stray, todo, at, closing, after, history>>

(* SIGINT or SIGTERM, or Watch failed: the deferred close of the current   *)
(* runtime.                                                                *)
Shutdown ==
  /\ pc \in {"serve", "watch"}
  /\ pc' = "close_nodes"
  /\ closing' = "current" /\ after' = "down" /\ todo' = cur.nodes
  /\ UNCHANGED <<world, watcher, queue, limiter, rt, stray, reason, at, history>>

----------------------------------------------------------------------------
(* The main goroutine: preparing.                                          *)

Booting == reason = "boot"

(* Where a reload that failed before anything was closed goes.             *)
KeepOld ==
  /\ pc' = "serve" /\ reason' = "none"
  /\ retained' = TRUE
  /\ UNCHANGED skipped

(* LoadFromPath reads the file again: the event only says that it may have *)
(* changed.                                                                *)
LoadConfig ==
  /\ pc = "load"
  /\ disk \in Confs
  /\ rt' = [rt EXCEPT !["prepared"] = [Absent EXCEPT !.conf = disk, !.nodes = Nodes[disk]]]
  /\ todo' = Nodes[disk]
  /\ unread' = FALSE
  /\ pc' = "fetch"
  /\ UNCHANGED <<world, lastHash, dirty, queue, limiter, stray, at, goal, history>>

LoadFails ==
  /\ pc = "load"
  /\ disk = Bad
  /\ unread' = FALSE
  /\ IF Booting THEN pc' = "down" /\ UNCHANGED <<reason, history>> ELSE KeepOld
  /\ UNCHANGED <<world, lastHash, dirty, queue, limiter, rt, stray, todo, at, closing, after>>

(* node.New asks the panel for each node with a client of its own.         *)
FetchNode(t) ==
  /\ pc = "fetch"
  /\ t \in todo
  /\ todo' = todo \ {t}
  /\ rt' = [rt EXCEPT !["prepared"].base[t] = panel[t], !["prepared"].seen[t] = panel[t]]
  /\ UNCHANGED <<world, watcher, queue, limiter, stray, pc, at, goal, history>>

(* core.Prepare and the Prepare of every controller (users, certificate).  *)
PrepareDone ==
  /\ pc = "fetch"
  /\ todo = {}
  /\ rt' = [rt EXCEPT !["prepared"].core = "prepared"]
  /\ pc' = IF Booting THEN "start_core" ELSE "compare"
  /\ UNCHANGED <<world, watcher, queue, limiter, stray, todo, at, goal, history>>

FatalReload ==
  \/ Local[cur.conf] # Local[new.conf]
  \/ reason \in {"node_config_changed", "cert_metadata_changed"}

(* A request, the core or a controller failed to prepare.  The controllers *)
(* are dropped without Close.                                              *)
PrepareFails ==
  /\ pc = "fetch"
  /\ rt' = [rt EXCEPT !["prepared"] = Absent]
  /\ todo' = {}
  /\ CASE Booting -> pc' = "down" /\ UNCHANGED <<reason, history>>
       [] ~Booting /\ FatalReload -> pc' = "fatal" /\ UNCHANGED <<reason, history>>
       [] OTHER -> KeepOld
  /\ UNCHANGED <<world, watcher, queue, limiter, stray, at, closing, after>>

(* "runtime_unchanged": the prepared runtime is closed, and with it go the *)
(* registry's entries of its tags, which are those of the one that serves. *)
Skip ==
  /\ pc = "compare"
  /\ Signature(cur) = Signature(new)
  /\ limiter' = limiter \ new.nodes
  /\ rt' = [rt EXCEPT !["prepared"] = Absent]
  /\ pc' = "serve" /\ reason' = "none"
  /\ retained' = TRUE /\ skipped' = TRUE
  /\ UNCHANGED <<world, watcher, queue, stray, todo, at, closing, after>>

\* A reload that starts the new runtime and leaves the old one for later.
ReplaceUnclosed ==
  /\ pc = "compare"
  /\ Signature(cur) # Signature(new)
  /\ pc' = "start_core"
  /\ UNCHANGED <<world, watcher, queue, limiter, rt, stray, todo, at, goal, history>>

Replace ==
  /\ pc = "compare"
  /\ Signature(cur) # Signature(new)
  /\ pc' = "close_nodes"
  /\ closing' = "current" /\ after' = "start_core" /\ todo' = cur.nodes
  /\ UNCHANGED <<world, watcher, queue, limiter, rt, stray, reason, at, history>>

----------------------------------------------------------------------------
(* The main goroutine: closing a runtime.                                  *)

\* A Close that leaves the registry alone.
CloseControllerKeepsLimiter(t) ==
  /\ pc = "close_nodes"
  /\ t \in todo
  /\ todo' = todo \ {t} /\ at' = t
  /\ rt' = [rt EXCEPT ![closing].tasks = @ \ {t}]
  /\ pc' = "del_node"
  /\ UNCHANGED <<world, watcher, queue, limiter, stray, goal, history>>

(* Controller.Close up to DelNode: the registry's entry goes first, then   *)
(* the tasks are told to stop.  Nobody waits for their executions.         *)
CloseController(t) ==
  /\ pc = "close_nodes"
  /\ t \in todo
  /\ todo' = todo \ {t} /\ at' = t
  /\ limiter' = limiter \ {t}
  /\ rt' = [rt EXCEPT ![closing].tasks = @ \ {t}]
  /\ pc' = "del_node"
  /\ UNCHANGED <<world, watcher, queue, stray, goal, history>>

(* DelNode, for a controller whose node was added.                         *)
DelNode ==
  /\ pc = "del_node"
  /\ rt' = [rt EXCEPT ![closing].inbound = @ \ {at}]
  /\ at' = None
  /\ pc' = "close_nodes"
  /\ UNCHANGED <<world, watcher, queue, limiter, stray, todo, goal, history>>

(* The loop goes on with the next controller; a reload then gives up.      *)
DelNodeFails ==
  /\ pc = "del_node"
  /\ at \in rt[closing].inbound
  /\ at' = None
  /\ pc' = "close_nodes"
  /\ after' = IF after = "start_core" THEN "fatal" ELSE after
  /\ UNCHANGED <<world, watcher, queue, limiter, rt, stray, todo, reason, closing, history>>

(* A runtime that was prepared for a reload which has to be given up.      *)
DiscardsPrepared(next) == next = "fatal" /\ closing = "current"

(* CloseWithReason: links are closed, ihm, ohm and dispatcher become nil,  *)
(* and the server closes the inbounds that are left.  Executions in flight *)
(* keep their pointer to this core; one that was still in its request      *)
(* shows only now.                                                         *)
CloseCore ==
  /\ pc = "close_nodes"
  /\ todo = {}
  /\ \E waiting \in SUBSET rt[closing].nodes :
       stray' = stray \cup rt[closing].busy \cup waiting
  /\ rt' = [rt EXCEPT ![closing] = Absent]
  /\ limiter' = IF DiscardsPrepared(after) THEN limiter \ new.nodes ELSE limiter
  /\ pc' = after
  /\ UNCHANGED <<world, watcher, queue, todo, at, goal, history>>

(* Server.Close failed.                                                    *)
CloseCoreFails ==
  /\ pc = "close_nodes"
  /\ todo = {}
  /\ rt[closing].core # "none"
  /\ pc' = IF after = "start_core" THEN "fatal" ELSE after
  /\ limiter' = IF DiscardsPrepared(pc') THEN limiter \ new.nodes ELSE limiter
  /\ UNCHANGED <<world, watcher, queue, rt, stray, todo, at, goal, history>>

----------------------------------------------------------------------------
(* The main goroutine: starting the prepared runtime.                      *)

StartCore ==
  /\ pc = "start_core"
  /\ rt' = [rt EXCEPT !["prepared"].core = "open"]
  /\ todo' = new.nodes
  /\ pc' = "start_nodes"
  /\ UNCHANGED <<world, watcher, queue, limiter, stray, at, goal, history>>

\* A controller whose tag is not known yet.
StartControllerUntagged(t) ==
  /\ pc = "start_nodes"
  /\ t \in todo
  /\ todo' = todo \ {t}
  /\ limiter' = limiter \cup {t}
  /\ pc' = "add_node"
  /\ UNCHANGED <<world, watcher, queue, rt, stray, at, goal, history>>

(* AddLimiter, the first step of Controller.StartPrepared.                 *)
StartController(t) ==
  /\ pc = "start_nodes"
  /\ t \in todo
  /\ todo' = todo \ {t} /\ at' = t
  /\ limiter' = limiter \cup {t}
  /\ pc' = "add_node"
  /\ UNCHANGED <<world, watcher, queue, rt, stray, goal, history>>

AddNode ==
  /\ pc = "add_node"
  /\ rt' = [rt EXCEPT !["prepared"].inbound = @ \cup {at}]
  /\ pc' = "add_users"
  /\ UNCHANGED <<world, watcher, queue, limiter, stray, todo, at, goal, history>>

\* A controller whose tasks are started by somebody else.
AddUsersNoTasks ==
  /\ pc = "add_users"
  /\ at' = None
  /\ pc' = "start_nodes"
  /\ UNCHANGED <<world, watcher, queue, limiter, rt, stray, todo, goal, history>>

(* AddUsers and startTasks.                                                *)
AddUsers ==
  /\ pc = "add_users"
  /\ rt' = [rt EXCEPT !["prepared"].tasks = @ \cup {at}]
  /\ at' = None
  /\ pc' = "start_nodes"
  /\ UNCHANGED <<world, watcher, queue, limiter, stray, todo, goal, history>>

(* The core, AddNode or AddUsers failed: close what was started and exit,  *)
(* with a return during the start and with os.Exit in a reload.            *)
StartFails ==
  /\ pc \in {"start_core", "add_node", "add_users"}
  /\ pc' = "close_nodes"
  /\ closing' = "prepared"
  /\ after' = IF Booting THEN "down" ELSE "fatal"
  /\ todo' = new.nodes
  /\ at' = None
  /\ UNCHANGED <<world, watcher, queue, limiter, rt, stray, reason, history>>

\* A reload that drops what was asked for while it worked.
StartDoneDrains ==
  /\ pc = "start_nodes"
  /\ todo = {}
  /\ rt' = [s \in Slots |-> IF s = "current" THEN new ELSE Absent]
  /\ pc' = IF Booting THEN "watch" ELSE "serve"
  /\ reason' = "none"
  /\ queue' = "none"
  /\ closing' = "prepared" /\ after' = "down"
  /\ retained' = FALSE /\ skipped' = FALSE
  /\ UNCHANGED <<world, watcher, limiter, stray, todo, at>>

(* *current = prepared.                                                    *)
StartDone ==
  /\ pc = "start_nodes"
  /\ todo = {}
  /\ rt' = [s \in Slots |-> IF s = "current" THEN new ELSE Absent]
  /\ pc' = IF Booting THEN "watch" ELSE "serve"
  /\ reason' = "none"
  /\ closing' = "prepared" /\ after' = "down"
  /\ retained' = FALSE /\ skipped' = FALSE
  /\ UNCHANGED <<world, watcher, queue, limiter, stray, todo, at>>

(* Conf.Watch takes the hash of the file as it is now.  It is not called   *)
(* without the flag --watch.                                               *)
Watch ==
  /\ pc = "watch"
  /\ lastHash' \in {disk, None}
  /\ pc' = "serve"
  /\ UNCHANGED <<world, dirty, unread, queue, limiter, rt, stray, todo, at, goal, history>>

----------------------------------------------------------------------------

Main ==
  \/ TakeEvent \/ LoadConfig \/ LoadFails
  \/ \E t \in Tags : FetchNode(t)
  \/ PrepareDone \/ PrepareFails \/ Skip \/ Replace
  \/ \E t \in Tags : CloseController(t)
  \/ DelNode \/ DelNodeFails \/ CloseCore \/ CloseCoreFails
  \/ StartCore
  \/ \E t \in Tags : StartController(t)
  \/ AddNode \/ AddUsers \/ StartFails \/ StartDone \/ Watch

Monitor(s, t) == MonitorFetches(s, t) \/ MonitorSyncs(s, t)

(* The process has ended.                                                  *)
Ended == pc \in Terminal /\ UNCHANGED vars

Next ==
  \/ Main \/ Shutdown
  \/ WatcherChecks
  \/ \E s \in Slots, t \in Tags : Monitor(s, t) \/ CertRenewed(s, t)
  \/ \E t \in Tags : StrayEnds(t) \/ StrayUsesCore(t)
  \/ EditFile
  \/ \E t \in Tags : PanelChanges(t)
  \/ Ended

(* The main goroutine never waits for the tasks: every request it makes    *)
(* has a timeout.  The tasks keep ticking, and the watcher's goroutine     *)
(* wakes up.                                                               *)
Fairness ==
  /\ WF_vars(Main)
  /\ WF_vars(WatcherChecks)
  /\ \A s \in Slots, t \in Tags : WF_vars(Monitor(s, t))

Spec == Init /\ [][Next]_vars /\ Fairness

----------------------------------------------------------------------------
(* Properties                                                              *)

Runtime ==
  [conf : Confs \cup {None}, nodes : SUBSET Tags,
   base : [Tags -> Bodies \cup {None}], seen : [Tags -> Bodies \cup {None}],
   core : {"none", "prepared", "open"}, inbound : SUBSET Tags,
   tasks : SUBSET Tags, busy : SUBSET Tags]

Phases == {"load", "fetch", "compare", "close_nodes", "del_node", "start_core",
           "start_nodes", "add_node", "add_users", "watch", "serve"}

(* The variables keep to their ranges.                                     *)
TypeOK ==
  /\ disk \in Confs \cup {Bad}
  /\ panel \in [Tags -> Bodies]
  /\ edits \in 0..MaxEdits
  /\ changes \in 0..MaxChanges
  /\ lastHash \in Confs \cup {Bad, None}
  /\ dirty \in BOOLEAN
  /\ unread \in BOOLEAN
  /\ queue \in Reasons \cup {"none"}
  /\ limiter \in SUBSET Tags
  /\ rt \in [Slots -> Runtime]
  /\ stray \in SUBSET Tags
  /\ pc \in Phases \cup Terminal
  /\ reason \in Reasons \cup {"boot", "none"}
  /\ todo \in SUBSET Tags
  /\ at \in Tags \cup {None}
  /\ closing \in Slots
  /\ after \in {"start_core", "down", "fatal"}
  /\ retained \in BOOLEAN
  /\ skipped \in BOOLEAN

(* Whenever the main goroutine is back in its select, whatever failed or   *)
(* was skipped before, one runtime is complete (core open, every           *)
(* configured node with its inbound and its tasks) and nothing is left of  *)
(* another.                                                                *)
ServesComplete ==
  pc = "serve" =>
    /\ cur.core = "open"
    /\ cur.nodes = Nodes[cur.conf]
    /\ cur.inbound = cur.nodes
    /\ cur.tasks = cur.nodes
    /\ new = Absent

(* The cores of the two runtimes are never open together: they would bind  *)
(* the same ports.                                                         *)
OneOpenCore == ~(cur.core = "open" /\ new.core = "open")

(* The registry of limiters has an entry for exactly the nodes that serve, *)
(* except that a reload skipped as "runtime_unchanged" has removed them.   *)
(* In particular nothing but a skip, no reload that failed and no change   *)
(* of the configured nodes, makes it deviate.                              *)
RegistryFollows ==
  pc = "serve" => IF skipped THEN limiter = {} ELSE limiter = cur.nodes

(* The inductive invariant behind the three properties above: what the     *)
(* main goroutine has established where it is.                             *)
Complete(r) ==
  /\ r.conf \in Confs
  /\ r.nodes = Nodes[r.conf]
  /\ r.core = "open"
  /\ r.inbound = r.nodes
  /\ r.tasks = r.nodes

Prepared(r, core) ==
  /\ r.conf \in Confs
  /\ r.nodes = Nodes[r.conf]
  /\ r.core = core
  /\ r.inbound = {} /\ r.tasks = {} /\ r.busy = {}

Serving == Complete(cur) /\ limiter = IF skipped THEN {} ELSE cur.nodes

WhileServing ==
  pc \in {"serve", "watch"} => ~Booting /\ Serving /\ new = Absent

WhilePreparing ==
  pc \in {"load", "fetch", "compare"} =>
    /\ IF Booting THEN cur = Absent /\ limiter = {} ELSE Serving
    /\ pc = "load" => new = Absent
    /\ pc = "fetch" => Prepared(new, "none")
    /\ pc = "compare" => ~Booting /\ Prepared(new, "prepared")

WhileClosing ==
  pc \in {"close_nodes", "del_node"} =>
    /\ limiter \subseteq todo
    /\ closing = "current" =>
         \/ after = "down" /\ new = Absent
         \/ after \in {"start_core", "fatal"} /\ Prepared(new, "prepared")
    /\ closing = "prepared" => cur = Absent /\ after # "start_core"

WhileStarting ==
  /\ pc = "start_core" => limiter = {} /\ Prepared(new, "prepared")
  /\ pc \in {"start_nodes", "add_node", "add_users"} =>
       /\ new.core = "open"
       /\ new.conf \in Confs /\ new.nodes = Nodes[new.conf]
       /\ todo \subseteq new.nodes
       /\ limiter = new.nodes \ todo
       /\ pc = "start_nodes" => new.inbound = limiter /\ new.tasks = limiter
       /\ pc # "start_nodes" => at \in limiter /\ new.tasks = limiter \ {at}
       /\ pc = "add_node" => new.inbound = limiter \ {at}
       /\ pc = "add_users" => new.inbound = limiter
  /\ pc \in {"start_core", "start_nodes", "add_node", "add_users"} => cur = Absent

Coherent ==
  /\ WhileServing /\ WhilePreparing /\ WhileClosing /\ WhileStarting
  /\ OneOpenCore

(* A node that serves has its entry in the registry: without it the        *)
(* dispatcher rejects every new connection of the node's users.            *)
ServingHasLimiter == pc = "serve" => cur.nodes \subseteq limiter

(* The last answer a monitor got calls for another core than the one its   *)
(* runtime was built with.                                                 *)
Differs(r, t) ==
  r.seen[t] # r.base[t] /\ Settled[Fp[r.seen[t]]] # Settled[Fp[r.base[t]]]

(* A change of a node that its monitor has seen, and that the serving      *)
(* runtime was not built from, has a reload queued: dropping events at a   *)
(* full slot and remembering an answer before it is applied lose nothing,  *)
(* as long as no reload kept the old runtime.                              *)
NodeChangePending ==
  pc = "serve" => \A t \in cur.nodes : Differs(cur, t) => queue # "none" \/ retained

(* The same without the exception, as nodeInfoMonitor states it: "Reload   *)
(* rebuilds the whole controller, so stop here and let it run."            *)
NodeChangeNotLost ==
  pc = "serve" =>
    \A t \in cur.nodes : Differs(cur, t) /\ panel[t] = cur.seen[t] => queue # "none"

(* When the main goroutine rests, a request of the watcher for which it    *)
(* has not read the file yet still has an event queued: the events dropped *)
(* at a full slot, and those that came in the middle of a reload, are made *)
(* good by the next reading, and one event is enough for any number of     *)
(* writes.                                                                 *)
ConfigChangePending == pc = "serve" /\ unread => queue # "none"

(* What is inductive about the two: an event is in the slot until the main *)
(* goroutine takes it, and then it reads the file and the panel again      *)
(* before it rests.  The answers a runtime was built from are known from   *)
(* the time its tasks run.                                                 *)
Requested ==
  /\ unread => queue # "none" \/ pc \in {"load"} \cup Terminal
  /\ \A t \in Tags :
       Differs(cur, t) => queue # "none" \/ retained \/ pc \notin {"serve", "watch"}
  /\ \A t \in Tags : Differs(new, t) => queue # "none"

BaseKnown ==
  pc \notin Terminal =>
    \A s \in Slots, t \in Tags :
      t \in rt[s].nodes \cup rt[s].tasks =>
        \/ rt[s].base[t] \in Bodies
        \/ pc = "fetch" /\ s = "prepared" /\ t \in todo

(* An execution that outlives its task does not touch a closed core.       *)
NoPanic == pc # "panicked"

InSync ==
  \A t \in cur.nodes : Settled[Fp[panel[t]]] = Settled[Fp[cur.base[t]]]

(* When the panel comes to rest, the process ends up serving what the      *)
(* panel says, unless it ended or a reload kept the old runtime.           *)
Settles == <>[]((pc = "serve" /\ InSync) \/ retained \/ pc \in Terminal)
============================================================================
