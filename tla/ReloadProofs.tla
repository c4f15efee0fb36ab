---------------------------- MODULE ReloadProofs ----------------------------
(***************************************************************************)
(* For every set of nodes, contents of the config file and answers of the  *)
(* panel: Reload is type correct, and whenever the main goroutine serves,  *)
(* exactly one runtime is complete and the registry of limiters has its    *)
(* nodes, or is empty after a reload that was skipped.                     *)
(***************************************************************************)
EXTENDS Reload, TLAPS

USE DEF vars, world, watcher, goal, history, cur, new, Slots, Reasons, Terminal

(* A runtime that is not there is a runtime record.                        *)
LEMMA AbsentType == Absent \in Runtime
  BY DEF Absent, Runtime

(* The tables of the initial state are in their ranges.                    *)
THEOREM TypeInit == Init => TypeOK
<1> SUFFICES ASSUME Init PROVE TypeOK
  OBVIOUS
<1>1. disk \in Confs /\ panel \in [Tags -> Bodies]
  BY FirstAssumption DEF Init
<1>2. edits \in 0..MaxEdits /\ changes \in 0..MaxChanges
  BY BoundsAssumption DEF Init
<1>3. rt \in [Slots -> Runtime]
  BY AbsentType DEF Init
<1>4. QED
  BY <1>1, <1>2, <1>3 DEF Init, TypeOK, Phases

(* Writes of the config file and changes on the panel stay in range.       *)
LEMMA EnvironmentType ==
  ASSUME TypeOK, EditFile \/ \E t \in Tags : PanelChanges(t)
  PROVE  TypeOK'
<1>1. CASE EditFile
  <2>1. disk' \in Confs \cup {Bad} /\ edits' \in 0..MaxEdits
    BY <1>1, BoundsAssumption DEF TypeOK, EditFile
  <2>2. dirty' \in BOOLEAN
    BY <1>1 DEF EditFile
  <2>3. QED
    BY <1>1, <2>1, <2>2 DEF TypeOK, EditFile
<1>2. ASSUME NEW t \in Tags, PanelChanges(t) PROVE TypeOK'
  BY <1>2, BoundsAssumption DEF TypeOK, PanelChanges
<1>3. QED
  BY <1>1, <1>2

(* A runtime that remembers an answer of the panel is a runtime.           *)
LEMMA FetchedType ==
  ASSUME NEW r \in Runtime, NEW t \in Tags, NEW b \in Bodies, NEW B \in SUBSET Tags
  PROVE  [r EXCEPT !.seen[t] = b, !.busy = B] \in Runtime
<1>1. [r.seen EXCEPT ![t] = b] \in [Tags -> Bodies \cup {None}]
  BY DEF Runtime
<1>2. [r EXCEPT !.seen = [r.seen EXCEPT ![t] = b], !.busy = B] \in Runtime
  BY <1>1 DEF Runtime
<1>3. QED
  BY <1>2 DEF Runtime

(* So do the steps of the watcher, of the tasks and of stray executions.   *)
LEMMA TasksType ==
  ASSUME TypeOK,
         \/ WatcherChecks
         \/ \E s \in Slots, t \in Tags : Monitor(s, t) \/ CertRenewed(s, t)
         \/ \E t \in Tags : StrayEnds(t) \/ StrayUsesCore(t)
  PROVE  TypeOK'
<1> USE DEF TypeOK
<1>1. CASE WatcherChecks
  <2>1. dirty' \in BOOLEAN /\ unread' \in BOOLEAN
    BY <1>1 DEF WatcherChecks
  <2>2. lastHash' \in Confs \cup {Bad, None} /\ queue' \in Reasons \cup {"none"}
    BY <1>1 DEF WatcherChecks, Offer
  <2>3. QED
    BY <1>1, <2>1, <2>2 DEF WatcherChecks
<1>2. ASSUME NEW s \in Slots, NEW t \in Tags, MonitorFetches(s, t) PROVE TypeOK'
  <2>1. rt' \in [Slots -> Runtime]
    <3>1. PICK B \in SUBSET Tags :
            rt' = [rt EXCEPT ![s].seen[t] = panel[t], ![s].busy = B]
      <4>1. rt[s].busy \in SUBSET Tags
        BY DEF Runtime
      <4>2. QED
        BY <1>2, <4>1 DEF MonitorFetches
    <3>2. [rt[s] EXCEPT !.seen[t] = panel[t], !.busy = B] \in Runtime
      BY FetchedType
    <3>3. rt' = [rt EXCEPT ![s] = [rt[s] EXCEPT !.seen[t] = panel[t], !.busy = B]]
      BY <3>1
    <3>4. QED
      BY <3>2, <3>3
  <2>2. queue' \in Reasons \cup {"none"}
    BY <1>2 DEF MonitorFetches, Offer
  <2>3. QED
    BY <1>2, <2>1, <2>2 DEF MonitorFetches
<1>3. ASSUME NEW s \in Slots, NEW t \in Tags, MonitorSyncs(s, t) PROVE TypeOK'
  <2>1. rt' \in [Slots -> Runtime]
    BY <1>3 DEF MonitorSyncs, Runtime
  <2>2. QED
    BY <1>3, <2>1 DEF MonitorSyncs
<1>4. ASSUME NEW s \in Slots, NEW t \in Tags, CertRenewed(s, t) PROVE TypeOK'
  BY <1>4 DEF CertRenewed, Offer
<1>5. ASSUME NEW t \in Tags, StrayEnds(t) \/ StrayUsesCore(t) PROVE TypeOK'
  BY <1>5 DEF StrayEnds, StrayUsesCore, Offer
<1>6. QED
  BY <1>1, <1>2, <1>3, <1>4, <1>5 DEF Monitor

(* So do the steps that take an event, prepare a runtime and compare it.   *)
LEMMA PrepareType ==
  ASSUME TypeOK,
         \/ TakeEvent \/ Shutdown \/ LoadConfig \/ LoadFails
         \/ \E t \in Tags : FetchNode(t)
         \/ PrepareDone \/ PrepareFails \/ Skip \/ Replace
  PROVE  TypeOK'
<1> USE AbsentType, NodesAssumption DEF TypeOK, Phases
<1>1. CASE TakeEvent \/ Shutdown
  BY <1>1 DEF TakeEvent, Shutdown, Runtime
<1>2. CASE LoadConfig
  <2>1. [Absent EXCEPT !.conf = disk, !.nodes = Nodes[disk]] \in Runtime
    BY <1>2 DEF LoadConfig, Runtime
  <2>2. rt' \in [Slots -> Runtime] /\ todo' \in SUBSET Tags
    BY <1>2, <2>1 DEF LoadConfig
  <2>3. unread' \in BOOLEAN /\ pc' \in Phases \cup Terminal
    BY <1>2 DEF LoadConfig
  <2>4. UNCHANGED <<world, lastHash, dirty, queue, limiter, stray, at, goal, history>>
    BY <1>2 DEF LoadConfig
  <2>5. QED
    BY <2>2, <2>3, <2>4
<1>3. CASE LoadFails
  <2>1. retained' \in BOOLEAN /\ skipped' \in BOOLEAN
    BY <1>3 DEF LoadFails, KeepOld
  <2>2. unread' \in BOOLEAN
    BY <1>3 DEF LoadFails
  <2>3. pc' \in Phases \cup Terminal /\ reason' \in Reasons \cup {"boot", "none"}
    BY <1>3 DEF LoadFails, KeepOld
  <2>4. UNCHANGED <<world, lastHash, dirty, queue, limiter, rt, stray, todo, at, closing, after>>
    BY <1>3 DEF LoadFails
  <2>5. QED
    BY <2>1, <2>2, <2>3, <2>4
<1>4. ASSUME NEW t \in Tags, FetchNode(t) PROVE TypeOK'
  <2>1. [rt["prepared"] EXCEPT !.base[t] = panel[t], !.seen[t] = panel[t]] \in Runtime
    BY DEF Runtime
  <2>2. rt' = [rt EXCEPT !["prepared"] =
                 [rt["prepared"] EXCEPT !.base[t] = panel[t], !.seen[t] = panel[t]]]
    BY <1>4 DEF FetchNode
  <2>3. rt' \in [Slots -> Runtime]
    BY <2>1, <2>2
  <2>4. todo' \in SUBSET Tags
    BY <1>4 DEF FetchNode
  <2>5. UNCHANGED <<world, watcher, queue, limiter, stray, pc, at, goal, history>>
    BY <1>4 DEF FetchNode
  <2>6. QED
    BY <2>3, <2>4, <2>5
<1>5. CASE PrepareDone
  BY <1>5 DEF PrepareDone, Runtime
<1>6. CASE PrepareFails
  <2>1. retained' \in BOOLEAN /\ skipped' \in BOOLEAN
    BY <1>6 DEF PrepareFails, KeepOld
  <2>2. pc' \in Phases \cup Terminal /\ reason' \in Reasons \cup {"boot", "none"}
    BY <1>6 DEF PrepareFails, KeepOld
  <2>3. rt' \in [Slots -> Runtime] /\ todo' \in SUBSET Tags
    BY <1>6 DEF PrepareFails
  <2>4. QED
    BY <1>6, <2>1, <2>2, <2>3 DEF PrepareFails
<1>7. CASE Skip
  <2>1. retained' \in BOOLEAN /\ skipped' \in BOOLEAN
    BY <1>7 DEF Skip
  <2>2. rt' \in [Slots -> Runtime] /\ limiter' \in SUBSET Tags
    BY <1>7 DEF Skip
  <2>3. QED
    BY <1>7, <2>1, <2>2 DEF Skip
<1>8. CASE Replace
  BY <1>8 DEF Replace, Runtime
<1>9. QED
  BY <1>1, <1>2, <1>3, <1>4, <1>5, <1>6, <1>7, <1>8

(* So do the steps that close a runtime.                                   *)
LEMMA CloseType ==
  ASSUME TypeOK,
         \/ \E t \in Tags : CloseController(t)
         \/ DelNode \/ DelNodeFails \/ CloseCore \/ CloseCoreFails
  PROVE  TypeOK'
<1> USE AbsentType DEF TypeOK, Phases
<1>1. ASSUME NEW t \in Tags, CloseController(t) PROVE TypeOK'
  BY <1>1 DEF CloseController, Runtime
<1>2. CASE DelNode
  BY <1>2 DEF DelNode, Runtime
<1>3. CASE DelNodeFails
  BY <1>3 DEF DelNodeFails
<1>4. CASE CloseCore
  BY <1>4 DEF CloseCore, Runtime
<1>5. CASE CloseCoreFails
  BY <1>5 DEF CloseCoreFails
<1>6. QED
  BY <1>1, <1>2, <1>3, <1>4, <1>5

(* AddNode and AddUsers work on the node the loop is at.                   *)
AtNode == pc \in {"add_node", "add_users"} => at \in Tags

(* So do the steps that start a runtime, as long as the loop has a node.   *)
LEMMA StartType ==
  ASSUME TypeOK, AtNode,
         \/ StartCore \/ AddNode \/ AddUsers \/ StartFails \/ StartDone \/ Watch
         \/ \E t \in Tags : StartController(t)
  PROVE  TypeOK'
<1> USE AbsentType DEF TypeOK, Phases
<1>1. CASE StartCore
  BY <1>1 DEF StartCore, Runtime
<1>2. CASE AddNode
  BY <1>2 DEF AddNode, Runtime, AtNode
<1>3. CASE AddUsers
  BY <1>3 DEF AddUsers, Runtime, AtNode
<1>4. CASE StartFails
  BY <1>4 DEF StartFails, Runtime
<1>5. CASE StartDone
  BY <1>5 DEF StartDone
<1>6. CASE Watch
  BY <1>6 DEF Watch
<1>7. ASSUME NEW t \in Tags, StartController(t) PROVE TypeOK'
  BY <1>7 DEF StartController
<1>8. QED
  BY <1>1, <1>2, <1>3, <1>4, <1>5, <1>6, <1>7

----------------------------------------------------------------------------

(* A step of a task leaves a runtime's shape alone, and does nothing to    *)
(* one in which no task runs.                                              *)
SameShape(r, q) ==
  /\ q.conf = r.conf /\ q.nodes = r.nodes /\ q.core = r.core
  /\ q.inbound = r.inbound /\ q.tasks = r.tasks
  /\ r.tasks = {} /\ r.busy = {} => q = r

mainVars == <<pc, limiter, skipped, reason, todo, at, closing, after>>

(* A step that leaves the main goroutine alone and keeps the shape of      *)
(* both runtimes keeps Coherent.                                           *)
LEMMA FrameStep ==
  ASSUME Coherent, UNCHANGED mainVars,
         SameShape(cur, cur'), SameShape(new, new')
  PROVE  Coherent'
<1> USE DEF mainVars
<1>1. Absent.tasks = {} /\ Absent.busy = {}
  BY DEF Absent
<1>2. /\ cur = Absent => cur' = Absent
      /\ new = Absent => new' = Absent
  BY <1>1 DEF SameShape
<1>3. \A c : Prepared(new, c) => Prepared(new', c)
  BY DEF SameShape, Prepared
<1>4. Complete(cur) => Complete(cur')
  BY DEF SameShape, Complete
<1>5. Serving => Serving'
  BY <1>4 DEF SameShape, Serving
<1>6. Booting' = Booting
  BY DEF Booting
<1>7. WhileServing'
  BY <1>2, <1>5, <1>6 DEF Coherent, WhileServing
<1>8. WhilePreparing'
  BY <1>2, <1>3, <1>5, <1>6 DEF Coherent, WhilePreparing
<1>9. WhileClosing'
  BY <1>2, <1>3 DEF Coherent, WhileClosing
<1>10. WhileStarting'
  BY <1>2, <1>3 DEF Coherent, WhileStarting, SameShape
<1>11. OneOpenCore'
  BY DEF Coherent, OneOpenCore, SameShape
<1>12. QED
  BY <1>7, <1>8, <1>9, <1>10, <1>11 DEF Coherent

(* When the process ends nothing is left to show but OneOpenCore.          *)
LEMMA EndStep ==
  ASSUME OneOpenCore', pc' \in Terminal
  PROVE  Coherent'
  BY DEF Coherent, WhileServing, WhilePreparing, WhileClosing, WhileStarting

(* Before the first runtime is loaded there is nothing to be coherent.     *)
THEOREM CoherentInit == Init => Coherent
<1> SUFFICES ASSUME Init PROVE Coherent
  OBVIOUS
<1>1. cur = Absent /\ new = Absent /\ Absent.core = "none"
  BY DEF Init, Absent
<1>2. QED
  BY <1>1 DEF Init, Coherent, WhileServing, WhilePreparing, WhileClosing, WhileStarting,
              OneOpenCore, Booting

(* The watcher, the tasks and stray executions keep Coherent: they         *)
(* change neither the shape of a runtime nor the registry of limiters.     *)
LEMMA TasksCoherent ==
  ASSUME TypeOK, Coherent,
         \/ WatcherChecks \/ EditFile \/ \E t \in Tags : PanelChanges(t)
         \/ \E s \in Slots, t \in Tags : Monitor(s, t) \/ CertRenewed(s, t)
         \/ \E t \in Tags : StrayEnds(t) \/ StrayUsesCore(t)
  PROVE  Coherent'
<1>1. rt \in [Slots -> Runtime]
  BY DEF TypeOK
<1>2. CASE UNCHANGED <<rt, mainVars>>
  BY <1>2, FrameStep DEF SameShape
<1>3. CASE WatcherChecks \/ EditFile \/ \E t \in Tags : PanelChanges(t)
  BY <1>2, <1>3 DEF WatcherChecks, EditFile, PanelChanges, mainVars
<1>4. ASSUME NEW s \in Slots, NEW t \in Tags, MonitorFetches(s, t) \/ MonitorSyncs(s, t)
      PROVE  Coherent'
  <2>1. \A q \in Slots \ {s} : rt'[q] = rt[q]
    BY <1>1, <1>4 DEF MonitorFetches, MonitorSyncs
  <2>2. ~(rt[s].tasks = {} /\ rt[s].busy = {})
    BY <1>4 DEF MonitorFetches, MonitorSyncs
  <2>3. /\ rt'[s].conf = rt[s].conf /\ rt'[s].nodes = rt[s].nodes
        /\ rt'[s].core = rt[s].core /\ rt'[s].inbound = rt[s].inbound
        /\ rt'[s].tasks = rt[s].tasks
    BY <1>1, <1>4 DEF MonitorFetches, MonitorSyncs, Runtime
  <2>4. \A q \in Slots : SameShape(rt[q], rt'[q])
    BY <2>1, <2>2, <2>3 DEF SameShape
  <2>5. UNCHANGED mainVars
    BY <1>4 DEF MonitorFetches, MonitorSyncs, mainVars
  <2>6. QED
    BY <2>4, <2>5, FrameStep
<1>5. ASSUME NEW s \in Slots, NEW t \in Tags, CertRenewed(s, t) PROVE Coherent'
  BY <1>2, <1>5 DEF CertRenewed, mainVars
<1>6. ASSUME NEW t \in Tags, StrayEnds(t) PROVE Coherent'
  BY <1>2, <1>6 DEF StrayEnds, mainVars
<1>7. ASSUME NEW t \in Tags, StrayUsesCore(t) PROVE Coherent'
  BY <1>7, EndStep DEF StrayUsesCore, Coherent, OneOpenCore
<1>8. QED
  BY <1>3, <1>4, <1>5, <1>6, <1>7 DEF Monitor

(* Taking an event, shutting down and starting the watcher keep            *)
(* Coherent.                                                               *)
LEMMA ServeCoherent ==
  ASSUME TypeOK, Coherent, TakeEvent \/ Shutdown \/ Watch
  PROVE  Coherent'
<1> USE DEF Coherent, WhileServing, WhilePreparing, WhileClosing, WhileStarting,
            OneOpenCore, Booting, Serving, Complete
<1>1. CASE TakeEvent
  BY <1>1 DEF TakeEvent, TypeOK
<1>2. CASE Shutdown
  BY <1>2 DEF Shutdown
<1>3. CASE Watch
  BY <1>3 DEF Watch
<1>4. QED
  BY <1>1, <1>2, <1>3

(* Preparing a runtime and comparing it keep Coherent: what serves stays   *)
(* complete until the comparison, and a skipped reload shows in the        *)
(* registry.                                                               *)
LEMMA PrepareCoherent ==
  ASSUME TypeOK, Coherent,
         \/ LoadConfig \/ LoadFails \/ \E t \in Tags : FetchNode(t)
         \/ PrepareDone \/ PrepareFails \/ Skip \/ Replace
  PROVE  Coherent'
<1> USE DEF Coherent, WhileServing, WhilePreparing, WhileClosing, WhileStarting, OneOpenCore
<1>1. rt \in [Slots -> Runtime]
  BY DEF TypeOK
<1>2. Absent.core = "none" /\ Absent.conf = None
  BY DEF Absent
<1>3. CASE LoadConfig
  <2>1. new' = [Absent EXCEPT !.conf = disk, !.nodes = Nodes[disk]] /\ cur' = cur
    BY <1>1, <1>3 DEF LoadConfig
  <2>2. Prepared(new', "none")
    <3>1. /\ Absent.core = "none" /\ Absent.inbound = {}
          /\ Absent.tasks = {} /\ Absent.busy = {}
      BY DEF Absent
    <3>2. /\ new'.conf = disk /\ new'.nodes = Nodes[disk]
          /\ new'.core = "none" /\ new'.inbound = {}
          /\ new'.tasks = {} /\ new'.busy = {}
      BY <2>1, <3>1, AbsentType DEF Runtime
    <3>3. QED
      BY <1>3, <3>2 DEF LoadConfig, Prepared
  <2>3. new'.core = "none"
    BY <2>2 DEF Prepared
  <2>4. QED
    BY <1>3, <2>1, <2>2, <2>3 DEF LoadConfig, Booting, Serving
<1>4. CASE LoadFails
  BY <1>4, EndStep DEF LoadFails, KeepOld, Booting, Serving
<1>5. ASSUME NEW t \in Tags, FetchNode(t) PROVE Coherent'
  <2>1. cur' = cur
    BY <1>1, <1>5 DEF FetchNode
  <2>2. Prepared(new', "none")
    BY <1>1, <1>5 DEF FetchNode, Prepared, Runtime
  <2>3. new'.core = "none"
    BY <2>2 DEF Prepared
  <2>4. QED
    BY <1>5, <2>1, <2>2, <2>3 DEF FetchNode, Booting, Serving
<1>6. CASE PrepareDone
  <2>1. cur' = cur
    BY <1>1, <1>6 DEF PrepareDone
  <2>2. Prepared(new', "prepared")
    BY <1>1, <1>6 DEF PrepareDone, Prepared, Runtime
  <2>3. new'.core = "prepared"
    BY <2>2 DEF Prepared
  <2>4. QED
    BY <1>6, <2>1, <2>2, <2>3 DEF PrepareDone, Booting, Serving
<1>7. CASE PrepareFails
  <2>1. cur' = cur /\ new' = Absent
    BY <1>1, <1>7 DEF PrepareFails
  <2>2. CASE pc' \in Terminal
    BY <1>2, <2>1, <2>2, EndStep
  <2>3. CASE pc' \notin Terminal
    <3>1. ~Booting /\ pc' = "serve" /\ reason' = "none" /\ UNCHANGED <<limiter, skipped>>
      BY <1>7, <2>3 DEF PrepareFails, KeepOld
    <3>2. QED
      BY <1>2, <1>7, <2>1, <3>1 DEF PrepareFails, Booting, Serving
  <2>4. QED
    BY <2>2, <2>3
<1>8. CASE Skip
  <2>1. Local[cur.conf] = Local[new.conf]
    BY <1>8 DEF Skip, Signature
  <2>2. cur.nodes = new.nodes
    BY <1>8, <2>1, LocalAssumption DEF Skip, Prepared, Serving, Complete
  <2>3. limiter' = {}
    BY <1>8, <2>2 DEF Skip, Serving
  <2>4. cur' = cur /\ new' = Absent
    BY <1>1, <1>8 DEF Skip
  <2>5. QED
    BY <1>2, <1>8, <2>3, <2>4 DEF Skip, Booting, Serving
<1>9. CASE Replace
  BY <1>9 DEF Replace, Serving, Complete
<1>10. QED
  BY <1>3, <1>4, <1>5, <1>6, <1>7, <1>8, <1>9

(* Closing a runtime keeps Coherent: the registry shrinks to the nodes     *)
(* the loop has not reached, and no core is open when a new one starts.    *)
LEMMA CloseCoherent ==
  ASSUME TypeOK, Coherent,
         \/ \E t \in Tags : CloseController(t)
         \/ DelNode \/ DelNodeFails \/ CloseCore \/ CloseCoreFails
  PROVE  Coherent'
<1> USE DEF Coherent, WhileServing, WhilePreparing, WhileClosing, WhileStarting, OneOpenCore
<1>1. rt \in [Slots -> Runtime] /\ closing \in Slots
  BY DEF TypeOK
<1>2. Absent.core = "none"
  BY DEF Absent
<1>3. ASSUME NEW t \in Tags, CloseController(t) PROVE Coherent'
  <2>1. cur'.core = cur.core /\ new'.core = new.core
    BY <1>1, <1>3 DEF CloseController, Runtime
  <2>2. closing = "current" => new' = new
    BY <1>1, <1>3 DEF CloseController
  <2>3. closing = "prepared" => cur' = cur
    BY <1>1, <1>3 DEF CloseController
  <2>4. QED
    BY <1>3, <2>1, <2>2, <2>3 DEF CloseController
<1>4. CASE DelNode
  <2>1. cur'.core = cur.core /\ new'.core = new.core
    BY <1>1, <1>4 DEF DelNode, Runtime
  <2>2. closing = "current" => new' = new
    BY <1>1, <1>4 DEF DelNode
  <2>3. closing = "prepared" => cur' = cur
    BY <1>1, <1>4 DEF DelNode
  <2>4. QED
    BY <1>4, <2>1, <2>2, <2>3 DEF DelNode
<1>5. CASE DelNodeFails
  BY <1>5 DEF DelNodeFails
<1>6. CASE CloseCore
  <2>1. closing = "current" => cur' = Absent /\ new' = new
    BY <1>1, <1>6 DEF CloseCore
  <2>2. closing = "prepared" => cur' = cur /\ new' = Absent
    BY <1>1, <1>6 DEF CloseCore
  <2>3. CASE after = "start_core"
    <3>1. closing = "current" /\ Prepared(new, "prepared")
      BY <1>1, <1>6, <2>3 DEF CloseCore
    <3>2. limiter' = {}
      BY <1>6, <2>3 DEF CloseCore, DiscardsPrepared
    <3>3. QED
      BY <1>2, <1>6, <2>1, <2>3, <3>1, <3>2 DEF CloseCore
  <2>4. CASE after # "start_core"
    <3>1. pc' \in Terminal
      BY <1>6, <2>4 DEF CloseCore, TypeOK
    <3>2. QED
      BY <1>1, <1>2, <2>1, <2>2, <3>1, EndStep
  <2>5. QED
    BY <2>3, <2>4
<1>7. CASE CloseCoreFails
  BY <1>7, EndStep DEF CloseCoreFails, TypeOK
<1>8. QED
  BY <1>3, <1>4, <1>5, <1>6, <1>7

(* Starting a runtime keeps Coherent: the registry, the inbounds and the   *)
(* tasks grow node by node, in this order.                                 *)
LEMMA StartCoherent ==
  ASSUME TypeOK, Coherent,
         \/ StartCore \/ AddNode \/ AddUsers \/ StartFails \/ StartDone
         \/ \E t \in Tags : StartController(t)
  PROVE  Coherent'
<1> USE DEF Coherent, WhileServing, WhilePreparing, WhileClosing, WhileStarting, OneOpenCore
<1>1. rt \in [Slots -> Runtime]
  BY DEF TypeOK
<1>2. Absent.core = "none"
  BY DEF Absent
<1>3. CASE StartCore
  <2>1. cur' = cur
    BY <1>1, <1>3 DEF StartCore
  <2>2. /\ new'.core = "open" /\ new'.conf = new.conf /\ new'.nodes = new.nodes
        /\ new'.inbound = {} /\ new'.tasks = {}
    BY <1>1, <1>3 DEF StartCore, Runtime, Prepared
  <2>3. QED
    BY <1>2, <1>3, <2>1, <2>2 DEF StartCore, Prepared
<1>4. ASSUME NEW t \in Tags, StartController(t) PROVE Coherent'
  <2>1. limiter' = new.nodes \ todo' /\ limiter' \ {t} = limiter /\ t \in limiter'
    BY <1>4 DEF StartController
  <2>2. QED
    BY <1>4, <2>1 DEF StartController
<1>5. CASE AddNode
  <2>1. cur' = cur
    BY <1>1, <1>5 DEF AddNode
  <2>2. /\ new'.core = new.core /\ new'.conf = new.conf /\ new'.nodes = new.nodes
        /\ new'.inbound = new.inbound \cup {at} /\ new'.tasks = new.tasks
    BY <1>1, <1>5 DEF AddNode, Runtime
  <2>3. new'.inbound = limiter
    BY <1>5, <2>2 DEF AddNode
  <2>4. QED
    BY <1>5, <2>1, <2>2, <2>3 DEF AddNode
<1>6. CASE AddUsers
  <2>1. cur' = cur
    BY <1>1, <1>6 DEF AddUsers
  <2>2. /\ new'.core = new.core /\ new'.conf = new.conf /\ new'.nodes = new.nodes
        /\ new'.inbound = new.inbound /\ new'.tasks = new.tasks \cup {at}
    BY <1>1, <1>6 DEF AddUsers, Runtime
  <2>3. new'.tasks = limiter
    BY <1>6, <2>2 DEF AddUsers
  <2>4. QED
    BY <1>6, <2>1, <2>2, <2>3 DEF AddUsers
<1>7. CASE StartFails
  BY <1>7 DEF StartFails, Prepared
<1>8. CASE StartDone
  <2>1. cur' = new /\ new' = Absent
    BY <1>8 DEF StartDone
  <2>2. Complete(new) /\ limiter = new.nodes
    BY <1>8 DEF StartDone, Complete
  <2>3. QED
    BY <1>2, <1>8, <2>1, <2>2 DEF StartDone, Serving, Booting
<1>9. QED
  BY <1>3, <1>4, <1>5, <1>6, <1>7, <1>8

----------------------------------------------------------------------------

(* Coherent gives the node that AddNode and AddUsers work on.              *)
LEMMA CoherentAtNode == ASSUME TypeOK, Coherent PROVE AtNode
  BY DEF TypeOK, Coherent, WhileStarting, AtNode

(* The type invariant and Coherent are inductive together.                 *)
THEOREM CoherentStep == TypeOK /\ Coherent /\ [Next]_vars => TypeOK' /\ Coherent'
<1> SUFFICES ASSUME TypeOK, Coherent, [Next]_vars PROVE TypeOK' /\ Coherent'
  OBVIOUS
<1>1. CASE UNCHANGED vars
  <2>1. TypeOK'
    BY <1>1 DEF TypeOK
  <2>2. Coherent'
    BY <1>1, FrameStep DEF SameShape, mainVars
  <2>3. QED
    BY <2>1, <2>2
<1>2. CASE Main \/ Shutdown
  BY <1>2, CoherentAtNode, PrepareType, CloseType, StartType,
     ServeCoherent, PrepareCoherent, CloseCoherent, StartCoherent DEF Main
<1>3. CASE \/ WatcherChecks \/ EditFile \/ \E t \in Tags : PanelChanges(t)
           \/ \E s \in Slots, t \in Tags : Monitor(s, t) \/ CertRenewed(s, t)
           \/ \E t \in Tags : StrayEnds(t) \/ StrayUsesCore(t)
  BY <1>3, TasksType, EnvironmentType, TasksCoherent
<1>4. QED
  BY <1>1, <1>2, <1>3 DEF Next, Ended

(* The variables of Reload keep to their ranges.                           *)
THEOREM TypeCorrect == Spec => []TypeOK
  BY TypeInit, CoherentInit, CoherentStep, PTL DEF Spec

(* Whatever failed or was skipped before, the main goroutine only serves   *)
(* with one complete runtime and nothing of another.                       *)
THEOREM AlwaysServesComplete == Spec => []ServesComplete
<1>1. Coherent => ServesComplete
  BY DEF Coherent, WhileServing, Serving, Complete, ServesComplete
<1>2. QED
  BY <1>1, TypeInit, CoherentInit, CoherentStep, PTL DEF Spec

(* The two cores are never open together.                                  *)
THEOREM NeverTwoOpenCores == Spec => []OneOpenCore
<1>1. Coherent => OneOpenCore
  BY DEF Coherent
<1>2. QED
  BY <1>1, TypeInit, CoherentInit, CoherentStep, PTL DEF Spec

(* The registry of limiters deviates from the nodes that serve only after  *)
(* a skipped reload, and then it is empty.                                 *)
THEOREM RegistryAlwaysFollows == Spec => []RegistryFollows
<1>1. Coherent => RegistryFollows
  BY DEF Coherent, WhileServing, Serving, RegistryFollows
<1>2. QED
  BY <1>1, TypeInit, CoherentInit, CoherentStep, PTL DEF Spec

----------------------------------------------------------------------------
(* No request for a reload is lost.                                        *)

(* A step that gives no runtime another answer of the panel, and no node   *)
(* or task that it did not have, keeps what is known of the answers.       *)
LEMMA KnownFrame ==
  ASSUME BaseKnown, pc \notin Terminal \/ pc' \in Terminal,
         pc = "fetch" => pc' = pc /\ todo' = todo,
         \A s \in Slots :
           \/ rt'[s] = Absent
           \/ /\ rt'[s].base = rt[s].base
              /\ rt'[s].nodes \cup rt'[s].tasks \subseteq rt[s].nodes \cup rt[s].tasks
  PROVE  BaseKnown'
<1>1. Absent.nodes = {} /\ Absent.tasks = {}
  BY DEF Absent
<1>2. QED
  BY <1>1 DEF BaseKnown

(* The answers that are known stay known while the main goroutine works.   *)
LEMMA MainKnown ==
  ASSUME TypeOK, Coherent, BaseKnown, Main \/ Shutdown
  PROVE  BaseKnown'
<1>1. rt \in [Slots -> Runtime] /\ rt["current"] \in Runtime /\ rt["prepared"] \in Runtime
  BY DEF TypeOK
<1>2. Absent.nodes = {} /\ Absent.tasks = {}
  BY DEF Absent
<1>3. CASE \/ TakeEvent \/ Shutdown \/ LoadFails \/ Replace \/ DelNodeFails \/ CloseCoreFails
           \/ StartFails \/ Watch \/ \E t \in Tags : StartController(t)
  <2>1. UNCHANGED rt /\ pc # "fetch" /\ pc \notin Terminal
    BY <1>3 DEF TakeEvent, Shutdown, LoadFails, Replace, DelNodeFails, CloseCoreFails,
                StartFails, Watch, StartController
  <2>2. QED
    BY <2>1, KnownFrame
<1>4. CASE LoadConfig
  <2>1. /\ rt'["current"] = rt["current"] /\ pc = "load" /\ pc' = "fetch"
        /\ rt'["prepared"] = [Absent EXCEPT !.conf = disk, !.nodes = Nodes[disk]]
        /\ todo' = Nodes[disk]
    BY <1>1, <1>4 DEF LoadConfig
  <2>2. rt'["prepared"].nodes = Nodes[disk] /\ rt'["prepared"].tasks = {}
    BY <2>1 DEF Absent
  <2>3. QED
    BY <2>1, <2>2 DEF BaseKnown
<1>5. ASSUME NEW t \in Tags, FetchNode(t) PROVE BaseKnown'
  <2>1. /\ rt'["current"] = rt["current"] /\ pc = "fetch" /\ pc' = "fetch"
        /\ rt'["prepared"].nodes = rt["prepared"].nodes
        /\ rt'["prepared"].tasks = rt["prepared"].tasks
        /\ rt'["prepared"].base = [rt["prepared"].base EXCEPT ![t] = panel[t]]
        /\ todo' = todo \ {t}
    BY <1>1, <1>5 DEF FetchNode, Runtime
  <2>2. \A u \in Tags : rt'["prepared"].base[u] =
                         IF u = t THEN panel[t] ELSE rt["prepared"].base[u]
    BY <1>1, <2>1 DEF Runtime
  <2>3. panel[t] \in Bodies
    BY DEF TypeOK
  <2>4. QED
    BY <2>1, <2>2, <2>3 DEF BaseKnown
<1>6. CASE PrepareDone
  <2>1. /\ rt'["current"] = rt["current"] /\ pc = "fetch" /\ todo = {}
        /\ rt'["prepared"].nodes = rt["prepared"].nodes
        /\ rt'["prepared"].tasks = rt["prepared"].tasks
        /\ rt'["prepared"].base = rt["prepared"].base
    BY <1>1, <1>6 DEF PrepareDone, Runtime
  <2>2. QED
    BY <2>1 DEF BaseKnown
<1>7. CASE PrepareFails \/ Skip
  <2>1. /\ rt'["current"] = rt["current"] /\ pc \in {"fetch", "compare"}
        /\ rt'["prepared"] = Absent
    BY <1>1, <1>7 DEF PrepareFails, Skip
  <2>2. QED
    BY <1>2, <2>1 DEF BaseKnown
<1>8. CASE \/ \E t \in Tags : CloseController(t)
           \/ DelNode \/ CloseCore \/ StartCore \/ AddNode
  <2>1. \A s \in Slots :
           \/ rt'[s] = Absent
           \/ /\ rt'[s].base = rt[s].base
              /\ rt'[s].nodes \cup rt'[s].tasks \subseteq rt[s].nodes \cup rt[s].tasks
    BY <1>1, <1>8 DEF CloseController, DelNode, CloseCore, StartCore, AddNode, Runtime
  <2>2. pc # "fetch" /\ pc \notin Terminal
    BY <1>8 DEF CloseController, DelNode, CloseCore, StartCore, AddNode
  <2>3. QED
    BY <2>1, <2>2, KnownFrame
<1>9. CASE AddUsers
  <2>1. at \in rt["prepared"].nodes
    BY <1>9 DEF AddUsers, Coherent, WhileStarting
  <2>2. /\ rt'["current"] = rt["current"] /\ pc = "add_users"
        /\ rt'["prepared"].nodes = rt["prepared"].nodes
        /\ rt'["prepared"].tasks = rt["prepared"].tasks \cup {at}
        /\ rt'["prepared"].base = rt["prepared"].base
    BY <1>1, <1>9 DEF AddUsers, Runtime
  <2>3. QED
    BY <2>1, <2>2, KnownFrame
<1>10. CASE StartDone
  <2>1. /\ rt'["current"] = rt["prepared"] /\ rt'["prepared"] = Absent
        /\ pc = "start_nodes"
    BY <1>10 DEF StartDone
  <2>2. QED
    BY <1>2, <2>1 DEF BaseKnown
<1>11. QED
  BY <1>3, <1>4, <1>5, <1>6, <1>7, <1>8, <1>9, <1>10 DEF Main

(* ... and whatever the tasks do meanwhile.                                *)
LEMMA TasksKnown ==
  ASSUME TypeOK, BaseKnown,
         \/ WatcherChecks \/ EditFile \/ \E t \in Tags : PanelChanges(t)
         \/ \E s \in Slots, t \in Tags : Monitor(s, t) \/ CertRenewed(s, t)
         \/ \E t \in Tags : StrayEnds(t) \/ StrayUsesCore(t)
  PROVE  BaseKnown'
<1>1. rt \in [Slots -> Runtime]
  BY DEF TypeOK
<1>2. CASE WatcherChecks \/ EditFile \/ \E t \in Tags : PanelChanges(t)
  BY <1>2, KnownFrame DEF WatcherChecks, EditFile, PanelChanges
<1>3. ASSUME NEW s \in Slots, NEW t \in Tags, MonitorFetches(s, t) \/ MonitorSyncs(s, t)
      PROVE  BaseKnown'
  <2>1. \A q \in Slots : /\ rt'[q].base = rt[q].base
                         /\ rt'[q].nodes = rt[q].nodes /\ rt'[q].tasks = rt[q].tasks
    BY <1>1, <1>3 DEF MonitorFetches, MonitorSyncs, Runtime
  <2>2. UNCHANGED <<pc, todo>>
    BY <1>3 DEF MonitorFetches, MonitorSyncs
  <2>3. QED
    BY <1>3, <2>1, <2>2, KnownFrame DEF MonitorFetches, MonitorSyncs
<1>4. ASSUME NEW s \in Slots, NEW t \in Tags, CertRenewed(s, t) PROVE BaseKnown'
  BY <1>4, KnownFrame DEF CertRenewed
<1>5. ASSUME NEW t \in Tags, StrayEnds(t) PROVE BaseKnown'
  BY <1>5, KnownFrame DEF StrayEnds
<1>6. ASSUME NEW t \in Tags, StrayUsesCore(t) PROVE BaseKnown'
  BY <1>6 DEF StrayUsesCore, BaseKnown
<1>7. QED
  BY <1>2, <1>3, <1>4, <1>5, <1>6 DEF Monitor

(* A step that shows no monitor another answer.                            *)
AnswersKept ==
  \A s \in Slots :
    \/ rt'[s] = Absent
    \/ rt'[s].base = rt[s].base /\ rt'[s].seen = rt[s].seen

(* A step that takes no event, rests only where it rested or by keeping    *)
(* the old runtime, and shows no monitor another answer loses no request.  *)
LEMMA RequestedFrame ==
  ASSUME Requested,
         unread' => unread,
         queue # "none" => queue' # "none",
         ~unread' \/ pc \notin {"load"} \cup Terminal,
         retained => retained',
         retained' \/ (pc' \in {"serve", "watch"} => pc \in {"serve", "watch"}),
         AnswersKept
  PROVE  Requested'
<1>1. \A t \in Tags : ~Differs(Absent, t)
  BY DEF Absent, Differs
<1>2. \A s \in Slots, t \in Tags : Differs(rt'[s], t) => Differs(rt[s], t)
  BY <1>1 DEF Differs, AnswersKept
<1>3. \A t \in Tags : /\ Differs(cur', t) => Differs(cur, t)
                      /\ Differs(new', t) => Differs(new, t)
  BY <1>2
<1>4. unread' => queue' # "none" \/ pc' \in {"load"} \cup Terminal
  BY DEF Requested
<1>5. \A t \in Tags : Differs(cur', t) => \/ queue' # "none" \/ retained'
                                          \/ pc' \notin {"serve", "watch"}
  BY <1>3 DEF Requested
<1>6. \A t \in Tags : Differs(new', t) => queue' # "none"
  BY <1>3 DEF Requested
<1>7. QED
  BY <1>4, <1>5, <1>6 DEF Requested, Differs

(* The main goroutine loses no request.                                    *)
LEMMA MainRequested ==
  ASSUME TypeOK, Coherent, Requested, Main \/ Shutdown
  PROVE  Requested'
<1>1. rt \in [Slots -> Runtime] /\ rt["current"] \in Runtime /\ rt["prepared"] \in Runtime
  BY DEF TypeOK
<1>2. \A t \in Tags : ~Differs(Absent, t)
  BY DEF Absent, Differs
<1>3. CASE TakeEvent
  <2>1. rt'["prepared"] = Absent /\ pc' = "load"
    BY <1>3 DEF TakeEvent, Coherent, WhileServing
  <2>2. QED
    BY <1>2, <2>1 DEF Requested, Differs
<1>4. CASE LoadConfig
  <2>1. /\ ~unread' /\ pc' = "fetch" /\ UNCHANGED <<queue, retained>>
        /\ rt'["current"] = rt["current"]
        /\ rt'["prepared"] = [Absent EXCEPT !.conf = disk, !.nodes = Nodes[disk]]
    BY <1>1, <1>4 DEF LoadConfig
  <2>2. \A t \in Tags : ~Differs(rt'["prepared"], t)
    BY <2>1 DEF Absent, Differs
  <2>3. QED
    BY <2>1, <2>2 DEF Requested, Differs
<1>5. CASE LoadFails
  <2>1. ~unread' /\ UNCHANGED <<queue, rt>> /\ pc = "load"
    BY <1>5 DEF LoadFails
  <2>2. retained => retained'
    BY <1>5 DEF LoadFails, KeepOld
  <2>3. pc' = "serve" => retained'
    BY <1>5 DEF LoadFails, KeepOld
  <2>4. pc' # "watch"
    BY <1>5 DEF LoadFails, KeepOld
  <2>5. AnswersKept
    BY <2>1 DEF AnswersKept
  <2>6. QED
    BY <2>1, <2>2, <2>3, <2>4, <2>5, RequestedFrame
<1>6. ASSUME NEW t \in Tags, FetchNode(t) PROVE Requested'
  <2>1. /\ pc = "fetch" /\ UNCHANGED <<pc, queue, retained, unread>>
        /\ rt'["current"] = rt["current"]
        /\ rt'["prepared"].base = [rt["prepared"].base EXCEPT ![t] = panel[t]]
        /\ rt'["prepared"].seen = [rt["prepared"].seen EXCEPT ![t] = panel[t]]
    BY <1>1, <1>6 DEF FetchNode, Runtime
  <2>2. \A u \in Tags : Differs(rt'["prepared"], u) => Differs(rt["prepared"], u)
    BY <1>1, <2>1 DEF Differs, Runtime
  <2>3. QED
    BY <2>1, <2>2 DEF Requested, Differs
<1>7. CASE PrepareFails
  <2>1. UNCHANGED <<queue, unread>> /\ pc = "fetch"
    BY <1>7 DEF PrepareFails
  <2>2. retained => retained'
    BY <1>7 DEF PrepareFails, KeepOld
  <2>3. pc' \in {"serve", "watch"} => retained'
    BY <1>7 DEF PrepareFails, KeepOld
  <2>4. rt'["current"] = rt["current"] /\ rt'["prepared"] = Absent
    BY <1>1, <1>7 DEF PrepareFails
  <2>5. AnswersKept
    BY <2>4 DEF AnswersKept
  <2>6. pc \notin {"load"} \cup Terminal
    BY <2>1
  <2>7. (unread' => unread) /\ queue' = queue
    BY <2>1
  <2>8. QED
    BY <2>2, <2>3, <2>5, <2>6, <2>7, RequestedFrame
<1>8. CASE Skip
  <2>1. /\ UNCHANGED <<queue, unread>> /\ pc = "compare" /\ retained'
        /\ rt'["current"] = rt["current"] /\ rt'["prepared"] = Absent
    BY <1>1, <1>8 DEF Skip
  <2>2. AnswersKept
    BY <2>1 DEF AnswersKept
  <2>3. pc \notin {"load"} \cup Terminal
    BY <2>1
  <2>4. (unread' => unread) /\ queue' = queue /\ retained'
    BY <2>1
  <2>5. QED
    BY <2>2, <2>3, <2>4, RequestedFrame
<1>9. CASE \/ Shutdown \/ PrepareDone \/ Replace
           \/ \E t \in Tags : CloseController(t) \/ StartController(t)
           \/ DelNode \/ DelNodeFails \/ CloseCore \/ CloseCoreFails
           \/ StartCore \/ AddNode \/ AddUsers \/ StartFails \/ Watch
  <2>1. UNCHANGED <<queue, unread, retained>> /\ pc \notin {"load"} \cup Terminal
    BY <1>9 DEF Shutdown, PrepareDone, Replace, CloseController, StartController, DelNode,
                DelNodeFails, CloseCore, CloseCoreFails, StartCore, AddNode, AddUsers,
                StartFails, Watch
  <2>2. pc' \in {"serve", "watch"} => pc \in {"serve", "watch"}
    BY <1>9 DEF Shutdown, PrepareDone, Replace, CloseController, StartController, DelNode,
                DelNodeFails, CloseCore, CloseCoreFails, StartCore, AddNode, AddUsers,
                StartFails, Watch, TypeOK
  <2>3. AnswersKept
    <3>1. CASE \/ Shutdown \/ Replace \/ DelNodeFails \/ CloseCoreFails \/ StartFails \/ Watch
               \/ \E t \in Tags : StartController(t)
      BY <3>1 DEF Shutdown, Replace, DelNodeFails, CloseCoreFails, StartFails, Watch,
                  StartController, AnswersKept
    <3>2. CASE \/ PrepareDone \/ \E t \in Tags : CloseController(t)
               \/ DelNode \/ CloseCore \/ StartCore \/ AddNode \/ AddUsers
      BY <1>1, <3>2 DEF PrepareDone, CloseController, DelNode, CloseCore, StartCore, AddNode,
                        AddUsers, Runtime, AnswersKept
    <3>3. QED
      BY <1>9, <3>1, <3>2
  <2>4. (unread' => unread) /\ (retained => retained') /\ queue' = queue
    BY <2>1
  <2>5. pc \notin {"load"} \cup Terminal
    BY <2>1
  <2>6. QED
    BY <2>2, <2>3, <2>4, <2>5, RequestedFrame
<1>10. CASE StartDone
  <2>1. /\ UNCHANGED <<queue, unread>> /\ pc = "start_nodes"
        /\ rt'["current"] = rt["prepared"] /\ rt'["prepared"] = Absent
    BY <1>10 DEF StartDone
  <2>2. QED
    BY <1>2, <2>1 DEF Requested, Differs
<1>11. QED
  BY <1>3, <1>4, <1>5, <1>6, <1>7, <1>8, <1>9, <1>10 DEF Main

(* A monitor that sees another core's answer leaves an event in the slot.  *)
LEMMA MonitorRequested ==
  ASSUME TypeOK, Coherent, BaseKnown, Requested,
         NEW s \in Slots, NEW t \in Tags, MonitorFetches(s, t)
  PROVE  Requested'
<1>1. rt \in [Slots -> Runtime]
  BY DEF TypeOK
<1>2. /\ UNCHANGED <<unread, retained, pc>> /\ pc \notin Terminal /\ t \in rt[s].tasks
      /\ queue # "none" => queue' # "none"
  BY DEF MonitorFetches, Offer
<1>3. /\ \A q \in Slots \ {s} : rt'[q] = rt[q]
      /\ rt'[s].base = rt[s].base
      /\ rt'[s].seen = [rt[s].seen EXCEPT ![t] = panel[t]]
  BY <1>1 DEF MonitorFetches, Runtime
<1>4. \A u \in Tags \ {t} : Differs(rt'[s], u) => Differs(rt[s], u)
  BY <1>1, <1>3 DEF Differs, Runtime
<1>5. rt'[s].seen[t] = panel[t]
  BY <1>1, <1>3 DEF Runtime
<1>6. Differs(rt'[s], t) => Differs(rt[s], t) \/ queue' # "none"
  <2>1. CASE panel[t] = rt[s].seen[t]
    BY <1>3, <1>5, <2>1 DEF Differs
  <2>2. CASE panel[t] # rt[s].seen[t] /\ Fp[panel[t]] # Settled[Fp[rt[s].base[t]]]
    BY <2>2 DEF MonitorFetches, Offer
  <2>3. CASE Fp[panel[t]] = Settled[Fp[rt[s].base[t]]]
    <3>1. CASE rt[s].base[t] \in Bodies
      <4>1. Settled[Fp[panel[t]]] = Settled[Fp[rt[s].base[t]]]
        BY <2>3, <3>1, SettledAssumption
      <4>2. QED
        BY <1>3, <1>5, <4>1 DEF Differs
    <3>2. CASE pc = "fetch" /\ s = "prepared"
      BY <1>2, <3>2 DEF Coherent, WhilePreparing, Prepared
    <3>3. QED
      BY <1>2, <3>1, <3>2 DEF BaseKnown
  <2>4. QED
    BY <2>1, <2>2, <2>3
<1>7. \A q \in Slots, u \in Tags : Differs(rt'[q], u) => Differs(rt[q], u) \/ queue' # "none"
  BY <1>3, <1>4, <1>6
<1>8. QED
  BY <1>2, <1>7 DEF Requested, Differs

(* What the tasks, the watcher and the outside do loses no request.        *)
LEMMA TasksRequested ==
  ASSUME TypeOK, Coherent, BaseKnown, Requested,
         \/ WatcherChecks \/ EditFile \/ \E t \in Tags : PanelChanges(t)
         \/ \E s \in Slots, t \in Tags : Monitor(s, t) \/ CertRenewed(s, t)
         \/ \E t \in Tags : StrayEnds(t) \/ StrayUsesCore(t)
  PROVE  Requested'
<1>1. rt \in [Slots -> Runtime]
  BY DEF TypeOK
<1>2. CASE WatcherChecks
  <2>1. UNCHANGED <<rt, pc, retained>> /\ (unread' => unread \/ queue' # "none")
    BY <1>2 DEF WatcherChecks, Offer
  <2>2. queue # "none" => queue' # "none"
    BY <1>2 DEF WatcherChecks, Offer
  <2>3. unread' => queue' # "none" \/ pc' \in {"load"} \cup Terminal
    BY <2>1, <2>2 DEF Requested
  <2>4. QED
    BY <2>1, <2>2, <2>3 DEF Requested, Differs
<1>3. CASE EditFile \/ \E t \in Tags : PanelChanges(t)
  BY <1>3 DEF EditFile, PanelChanges, Requested, Differs
<1>4. ASSUME NEW s \in Slots, NEW t \in Tags, MonitorSyncs(s, t) PROVE Requested'
  <2>1. \A q \in Slots : rt'[q].base = rt[q].base /\ rt'[q].seen = rt[q].seen
    BY <1>1, <1>4 DEF MonitorSyncs, Runtime
  <2>2. UNCHANGED <<unread, queue, retained, pc>>
    BY <1>4 DEF MonitorSyncs
  <2>3. QED
    BY <2>1, <2>2 DEF Requested, Differs
<1>5. ASSUME NEW s \in Slots, NEW t \in Tags, CertRenewed(s, t) PROVE Requested'
  BY <1>5 DEF CertRenewed, Offer, Requested, Differs
<1>6. ASSUME NEW t \in Tags, StrayEnds(t) PROVE Requested'
  BY <1>6 DEF StrayEnds, Offer, Requested, Differs
<1>7. ASSUME NEW t \in Tags, StrayUsesCore(t) PROVE Requested'
  BY <1>7 DEF StrayUsesCore, Requested, Differs
<1>8. QED
  BY <1>2, <1>3, <1>4, <1>5, <1>6, <1>7, MonitorRequested DEF Monitor

(* At the start nothing was requested and no runtime is there.             *)
THEOREM RequestedInit == Init => Requested /\ BaseKnown
<1> SUFFICES ASSUME Init PROVE Requested /\ BaseKnown
  OBVIOUS
<1>1. /\ rt["current"] = Absent /\ rt["prepared"] = Absent
      /\ Absent.nodes = {} /\ Absent.tasks = {} /\ Absent.seen = Absent.base
  BY DEF Init, Absent
<1>2. Requested
  BY <1>1 DEF Init, Requested, Differs
<1>3. BaseKnown
  BY <1>1 DEF BaseKnown
<1>4. QED
  BY <1>2, <1>3

(* Requested and BaseKnown are inductive together with what is known of    *)
(* the main goroutine.                                                     *)
THEOREM RequestedStep ==
  TypeOK /\ Coherent /\ BaseKnown /\ Requested /\ [Next]_vars => BaseKnown' /\ Requested'
<1> SUFFICES ASSUME TypeOK, Coherent, BaseKnown, Requested, [Next]_vars
             PROVE  BaseKnown' /\ Requested'
  OBVIOUS
<1>1. CASE UNCHANGED vars
  BY <1>1 DEF BaseKnown, Requested, Differs
<1>2. CASE Main \/ Shutdown
  BY <1>2, MainKnown, MainRequested
<1>3. CASE \/ WatcherChecks \/ EditFile \/ \E t \in Tags : PanelChanges(t)
           \/ \E s \in Slots, t \in Tags : Monitor(s, t) \/ CertRenewed(s, t)
           \/ \E t \in Tags : StrayEnds(t) \/ StrayUsesCore(t)
  BY <1>3, TasksKnown, TasksRequested
<1>4. QED
  BY <1>1, <1>2, <1>3 DEF Next, Ended

(* A change of the config file that the watcher asked a reload for is      *)
(* never dropped with an event: the file is read again afterwards.         *)
THEOREM NoFileRequestLost == Spec => []ConfigChangePending
<1>1. Requested => ConfigChangePending
  BY DEF Requested, ConfigChangePending
<1>2. QED
  BY <1>1, TypeInit, CoherentInit, CoherentStep, RequestedInit, RequestedStep, PTL DEF Spec

(* A change of a node that its monitor has seen is never dropped with an   *)
(* event, unless a reload kept the old runtime.                            *)
THEOREM NoNodeRequestLost == Spec => []NodeChangePending
<1>1. TypeOK /\ Requested => NodeChangePending
  <2>1. TypeOK => cur.nodes \subseteq Tags
    BY DEF TypeOK, Runtime
  <2>2. QED
    BY <2>1 DEF Requested, NodeChangePending
<1>2. QED
  BY <1>1, TypeInit, CoherentInit, CoherentStep, RequestedInit, RequestedStep, PTL DEF Spec
============================================================================
