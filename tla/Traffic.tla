------------------------------ MODULE Traffic ------------------------------
(***************************************************************************)
(* common/counter/traffic.go with the counters of getLink                  *)
(* (core/app/dispatcher/default.go), GetUserTrafficSlice and DelUsers      *)
(* (core/user.go) and reportUserTrafficTask (node/user.go): what the users *)
(* of one node transfer is counted, taken from the counters and reported.  *)
(*                                                                         *)
(* Connections count without a lock while an execution of the report reads *)
(* a counter and zeroes it in two steps.  mapLock keeps DelUsers and       *)
(* AddUsers away from executions that take counters, but not executions    *)
(* from each other, nor connections from anybody.                          *)
(*                                                                         *)
(* A counter is the set of the packets counted into it: adding a packet's  *)
(* length is adding the packet, zero is the empty set.  Uploads and        *)
(* downloads are treated alike, one after the other, and are one here.     *)
(***************************************************************************)
EXTENDS FiniteSets, Naturals

CONSTANTS
  Users,      \* users of the node
  Conns,      \* connections
  Packets,    \* packets, each the traffic of one unit
  Execs,      \* executions of reportUserTrafficTask: at most this many overlap
  None,       \* no user, no counter, no execution
  Min         \* node_report_min_traffic: a counter of no more is left alone

ASSUME NoneAssumption == None \notin Users \cup Conns \cup Execs
ASSUME MinAssumption == Min \in Nat

VARIABLES
  uids,      \* users with an id in uidMap, who have an account in the inbound
  node,      \* Counter: the TrafficCounter registered for the node's tag; it
             \* has the name of the connection that made it, as have storages
  counters,  \* the storage registered for each user in each TrafficCounter
  value,     \* the packets counted in each storage
  stage,     \* where each connection is
  owner,     \* its user
  table,     \* the TrafficCounter it found or made
  cell,      \* the storage it counts into
  at,        \* where each execution is
  waiting,   \* the execution the task waits for
  source,    \* the TrafficCounter an execution ranges over
  todo,      \* users it has not come to
  key,       \* the user it is at
  hold,      \* that user's storage
  read,      \* what it has loaded from it
  slice,     \* what it reports
  sent,      \* history: packets transferred
  billed,    \* history: packets the panel has booked
  lost,      \* history: packets known to be lost
  repeated,  \* history: two executions took counters at once, or a request
             \* was retried after the panel had booked it
  stranded,  \* history: connections whose storage was taken off the map
  dropped    \* history: those storages

vars == <<uids, node, counters, value, stage, owner, table, cell, at, waiting, source,
          todo, key, hold, read, slice, sent, billed, lost, repeated, stranded, dropped>>
conns == <<stage, owner, table, cell>>
taking == <<source, todo, key, hold, read>>
execs == <<at, waiting, taking, slice>>
ledger == <<sent, billed, lost, repeated>>
strays == <<stranded, dropped>>

Init ==
  /\ uids \in SUBSET Users
  /\ node = None
  /\ counters = [t \in Conns |-> [u \in Users |-> None]]
  /\ value = [c \in Conns |-> {}]
  /\ stage = [c \in Conns |-> "none"]
  /\ owner = [c \in Conns |-> None]
  /\ table = [c \in Conns |-> None]
  /\ cell = [c \in Conns |-> None]
  /\ at = [e \in Execs |-> "idle"]
  /\ waiting = None
  /\ source = [e \in Execs |-> None]
  /\ todo = [e \in Execs |-> {}]
  /\ key = [e \in Execs |-> None]
  /\ hold = [e \in Execs |-> None]
  /\ read = [e \in Execs |-> {}]
  /\ slice = [e \in Execs |-> {}]
  /\ sent = {} /\ billed = {} /\ lost = {}
  /\ repeated = FALSE
  /\ stranded = {} /\ dropped = {}

----------------------------------------------------------------------------
(* A connection.                                                           *)

(* The limiter has let it in, and getLink comes to the counters.  Its user *)
(* may have no account any more.                                           *)
Admit(c, u) ==
  /\ stage[c] = "none"
  /\ stage' = [stage EXCEPT ![c] = "load"]
  /\ owner' = [owner EXCEPT ![c] = u]
  /\ UNCHANGED <<uids, node, counters, value, table, cell, execs, ledger, strays>>

(* Counter.Load: the node's TrafficCounter, or a new one to be stored.     *)
LoadCounter(c) ==
  /\ stage[c] = "load"
  /\ stage' = [stage EXCEPT ![c] = IF node = None THEN "store" ELSE "cell"]
  /\ table' = [table EXCEPT ![c] = IF node = None THEN c ELSE node]
  /\ UNCHANGED <<uids, node, counters, value, owner, cell, execs, ledger, strays>>

(* Counter.Store, over whatever another first connection of the node has   *)
(* stored since: nobody reads that one any more.                           *)
StoreCounter(c) ==
  /\ stage[c] = "store"
  /\ node' = c
  /\ stranded' = stranded \cup
       {d \in Conns : node # None /\ table[d] = node /\ stage[d] \in {"cell", "open"}}
  /\ dropped' = dropped \cup {d \in Conns : node # None /\ \E u \in Users : counters[node][u] = d}
  /\ stage' = [stage EXCEPT ![c] = "cell"]
  /\ UNCHANGED <<uids, counters, value, owner, table, cell, execs, ledger>>

\* A GetCounter that stores without looking.
GetCounterStores(c) ==
  /\ stage[c] = "cell"
  /\ counters' = [counters EXCEPT ![table[c]][owner[c]] = c]
  /\ cell' = [cell EXCEPT ![c] = c]
  /\ stage' = [stage EXCEPT ![c] = "open"]
  /\ dropped' = IF c \in stranded THEN dropped \cup {c} ELSE dropped
  /\ UNCHANGED <<uids, node, value, owner, table, execs, ledger, stranded>>

(* GetCounter: LoadOrStore makes all connections of a user agree.  In a    *)
(* TrafficCounter that is off the map, the storage is as well.             *)
GetCounter(c) ==
  LET found == counters[table[c]][owner[c]]
      mine == IF found = None THEN c ELSE found
  IN  /\ stage[c] = "cell"
      /\ counters' = [counters EXCEPT ![table[c]][owner[c]] = mine]
      /\ cell' = [cell EXCEPT ![c] = mine]
      /\ stage' = [stage EXCEPT ![c] = "open"]
      /\ dropped' = IF c \in stranded THEN dropped \cup {mine} ELSE dropped
      /\ UNCHANGED <<uids, node, value, owner, table, execs, ledger, stranded>>

(* A packet passes, in either direction, and is added to the counter.      *)
Count(c, p) ==
  /\ stage[c] = "open"
  /\ p \notin sent
  /\ value' = [value EXCEPT ![cell[c]] = @ \cup {p}]
  /\ sent' = sent \cup {p}
  /\ UNCHANGED <<uids, node, counters, conns, execs, billed, lost, repeated, strays>>

(* It ends, and what it pointed to is garbage unless others point there.   *)
Disconnect(c) ==
  /\ stage[c] = "open"
  /\ stage' = [stage EXCEPT ![c] = "closed"]
  /\ owner' = [owner EXCEPT ![c] = None]
  /\ table' = [table EXCEPT ![c] = None]
  /\ cell' = [cell EXCEPT ![c] = None]
  /\ stranded' = stranded \ {c}
  /\ UNCHANGED <<uids, node, counters, value, execs, ledger, dropped>>

----------------------------------------------------------------------------
(* The users of the node.                                                  *)

Taking == {e \in Execs : at[e] \in {"range", "zero"}}

\* The connections that lose their storage when t forgets u.
Forgotten(t, u) == {c \in Conns : stage[c] = "open" /\ table[c] = t /\ owner[c] = u}

(* DelUsers, under mapLock: the account, the id, and the counter with      *)
(* whatever was not reported.                                              *)
DeleteUser(u) ==
  /\ u \in uids
  /\ Taking = {}
  /\ uids' = uids \ {u}
  /\ IF node = None
     THEN UNCHANGED <<counters, strays>>
     ELSE /\ counters' = [counters EXCEPT ![node][u] = None]
          /\ stranded' = stranded \cup Forgotten(node, u)
          /\ dropped' = dropped \cup ({counters[node][u]} \ {None})
  /\ UNCHANGED <<node, value, conns, execs, ledger>>

(* AddUsers, under mapLock.                                                *)
AddUser(u) ==
  /\ u \notin uids
  /\ Taking = {}
  /\ uids' = uids \cup {u}
  /\ UNCHANGED <<node, counters, value, conns, execs, ledger, strays>>

----------------------------------------------------------------------------
(* The report.                                                             *)

(* The task starts an execution, which asks for mapLock.                   *)
Tick(e) ==
  /\ waiting = None
  /\ at[e] = "idle"
  /\ at' = [at EXCEPT ![e] = "lock"]
  /\ waiting' = e
  /\ UNCHANGED <<uids, node, counters, value, conns, taking, slice, ledger, strays>>

\* The execution ends.
Finish(e) ==
  /\ at' = [at EXCEPT ![e] = "idle"]
  /\ waiting' = IF waiting = e THEN None ELSE waiting
  /\ slice' = [slice EXCEPT ![e] = {}]

(* GetUserTrafficSlice ranges over the users in any order, under mapLock   *)
(* that is held for reading: another execution may be at it.  A user whose *)
(* storage is registered meanwhile may be passed before.                   *)
TakeSlice(e) ==
  /\ at[e] = "lock"
  /\ IF node = None
     THEN Finish(e) /\ UNCHANGED <<taking, repeated>>
     ELSE /\ at' = [at EXCEPT ![e] = "range"]
          /\ source' = [source EXCEPT ![e] = node]
          /\ todo' = [todo EXCEPT ![e] = Users]
          /\ repeated' = (repeated \/ Taking # {})
          /\ UNCHANGED <<waiting, key, hold, read, slice>>
  /\ UNCHANGED <<uids, node, counters, value, conns, sent, billed, lost, strays>>

\* The storage of u in the map that e ranges over, if it has to be taken.
Due(e, u) ==
  /\ counters[source[e]][u] # None
  /\ Cardinality(value[counters[source[e]][u]]) > Min

(* Range comes to a user with enough traffic: the counter is loaded.       *)
ReadCounter(e, u) ==
  /\ at[e] = "range"
  /\ u \in todo[e]
  /\ Due(e, u)
  /\ at' = [at EXCEPT ![e] = "zero"]
  /\ todo' = [todo EXCEPT ![e] = @ \ {u}]
  /\ key' = [key EXCEPT ![e] = u]
  /\ hold' = [hold EXCEPT ![e] = counters[source[e]][u]]
  /\ read' = [read EXCEPT ![e] = value[counters[source[e]][u]]]
  /\ UNCHANGED <<uids, node, counters, value, conns, waiting, source, slice, ledger, strays>>

\* A report that zeroes the counters below the minimum as well.
PassCounterZeroes(e, u) ==
  /\ at[e] = "range"
  /\ u \in todo[e]
  /\ ~Due(e, u)
  /\ todo' = [todo EXCEPT ![e] = @ \ {u}]
  /\ value' = IF counters[source[e]][u] = None THEN value
              ELSE [value EXCEPT ![counters[source[e]][u]] = {}]
  /\ UNCHANGED <<uids, node, counters, conns, at, waiting, source, key, hold, read, slice,
                 ledger, strays>>

(* One that is not there, or too small to report, is left alone.           *)
PassCounter(e, u) ==
  /\ at[e] = "range"
  /\ u \in todo[e]
  /\ ~Due(e, u)
  /\ todo' = [todo EXCEPT ![e] = @ \ {u}]
  /\ UNCHANGED <<uids, node, counters, value, conns, at, waiting, source, key, hold, read,
                 slice, ledger, strays>>

\* A report that leaves the zeroing to the delivery of the report.
ZeroCounterLater(e) ==
  /\ at[e] = "zero"
  /\ at' = [at EXCEPT ![e] = "range"]
  /\ key' = [key EXCEPT ![e] = None]
  /\ hold' = [hold EXCEPT ![e] = None]
  /\ read' = [read EXCEPT ![e] = {}]
  /\ slice' = [slice EXCEPT ![e] = @ \cup read[e]]
  /\ UNCHANGED <<uids, node, counters, value, conns, waiting, source, todo, ledger, strays>>

(* It is stored as zero: what was counted since the load is lost.  The     *)
(* counter of a user without an id is dropped with what it held; whatever  *)
(* storage is registered by now goes off the map.                          *)
ZeroCounter(e) ==
  LET u == key[e]
  IN  /\ at[e] = "zero"
      /\ at' = [at EXCEPT ![e] = "range"]
      /\ value' = [value EXCEPT ![hold[e]] = {}]
      /\ key' = [key EXCEPT ![e] = None]
      /\ hold' = [hold EXCEPT ![e] = None]
      /\ read' = [read EXCEPT ![e] = {}]
      /\ IF u \in uids
         THEN /\ slice' = [slice EXCEPT ![e] = @ \cup read[e]]
              /\ lost' = lost \cup (value[hold[e]] \ read[e])
              /\ UNCHANGED <<counters, strays>>
         ELSE /\ counters' = [counters EXCEPT ![source[e]][u] = None]
              /\ stranded' = stranded \cup Forgotten(source[e], u)
              /\ dropped' = dropped \cup ({counters[source[e]][u]} \ {None})
              /\ lost' = lost \cup value[hold[e]] \cup read[e]
              /\ UNCHANGED slice
      /\ UNCHANGED <<uids, node, conns, waiting, source, todo, sent, billed, repeated>>

(* Range is through: the report is sent, if there is anything in it.       *)
EndRange(e) ==
  /\ at[e] = "range"
  /\ todo[e] = {}
  /\ source' = [source EXCEPT ![e] = None]
  /\ IF slice[e] = {}
     THEN Finish(e)
     ELSE at' = [at EXCEPT ![e] = "push"] /\ UNCHANGED <<waiting, slice>>
  /\ UNCHANGED <<uids, node, counters, value, conns, todo, key, hold, read, ledger, strays>>

(* ReportUserTraffic: the panel books it.                                  *)
Delivered(e) ==
  /\ at[e] = "push"
  /\ billed' = billed \cup slice[e]
  /\ Finish(e)
  /\ UNCHANGED <<uids, node, counters, value, conns, taking, sent, lost, repeated, strays>>

(* The panel books it, the answer is lost, and the client tries again.     *)
Retried(e) ==
  /\ at[e] = "push"
  /\ billed' = billed \cup slice[e]
  /\ repeated' = TRUE
  /\ UNCHANGED <<uids, node, counters, value, conns, execs, sent, lost, strays>>

\* A task that goes on waiting for an execution that failed.
UndeliveredUnnoticed(e) ==
  /\ at[e] = "push"
  /\ lost' = lost \cup (slice[e] \ billed)
  /\ at' = [at EXCEPT ![e] = "idle"]
  /\ slice' = [slice EXCEPT ![e] = {}]
  /\ UNCHANGED <<uids, node, counters, value, conns, waiting, taking, sent, billed, repeated,
                 strays>>

(* It does not arrive, or the panel answers with an error status, which    *)
(* counts as delivered: either way the slice is dropped.                   *)
Undelivered(e) ==
  /\ at[e] = "push"
  /\ lost' = lost \cup (slice[e] \ billed)
  /\ Finish(e)
  /\ UNCHANGED <<uids, node, counters, value, conns, taking, sent, billed, repeated, strays>>

(* The task stops waiting; the execution goes on.                          *)
Timeout(e) ==
  /\ waiting = e
  /\ waiting' = None
  /\ UNCHANGED <<uids, node, counters, value, conns, at, taking, slice, ledger, strays>>

----------------------------------------------------------------------------

Connection(c) ==
  \/ \E u \in Users : Admit(c, u)
  \/ LoadCounter(c) \/ StoreCounter(c) \/ GetCounter(c)
  \/ \E p \in Packets : Count(c, p)
  \/ Disconnect(c)

Accounts == \E u \in Users : DeleteUser(u) \/ AddUser(u)

Report(e) ==
  \/ TakeSlice(e)
  \/ \E u \in Users : ReadCounter(e, u) \/ PassCounter(e, u)
  \/ ZeroCounter(e) \/ EndRange(e)
  \/ Delivered(e) \/ Undelivered(e)

Next ==
  \/ \E c \in Conns : Connection(c)
  \/ Accounts
  \/ \E e \in Execs : Tick(e) \/ Report(e) \/ Retried(e) \/ Timeout(e)

Spec == Init /\ [][Next]_vars

----------------------------------------------------------------------------
(* Properties                                                              *)

(* The variables keep to their ranges; a connection has a table and a      *)
(* storage where it needs one, an execution a table while it ranges, and   *)
(* the task waits for an execution that has not returned.                  *)
TypeOK ==
  /\ uids \in SUBSET Users
  /\ node \in Conns \cup {None}
  /\ counters \in [Conns -> [Users -> Conns \cup {None}]]
  /\ value \in [Conns -> SUBSET Packets]
  /\ stage \in [Conns -> {"none", "load", "store", "cell", "open", "closed"}]
  /\ owner \in [Conns -> Users \cup {None}]
  /\ table \in [Conns -> Conns \cup {None}]
  /\ cell \in [Conns -> Conns \cup {None}]
  /\ at \in [Execs -> {"idle", "lock", "range", "zero", "push"}]
  /\ waiting \in Execs \cup {None}
  /\ source \in [Execs -> Conns \cup {None}]
  /\ todo \in [Execs -> SUBSET Users]
  /\ key \in [Execs -> Users \cup {None}]
  /\ hold \in [Execs -> Conns \cup {None}]
  /\ read \in [Execs -> SUBSET Packets]
  /\ slice \in [Execs -> SUBSET Packets]
  /\ sent \in SUBSET Packets
  /\ billed \in SUBSET Packets
  /\ lost \in SUBSET Packets
  /\ repeated \in BOOLEAN
  /\ stranded \in SUBSET Conns
  /\ dropped \in SUBSET Conns
  /\ \A c \in Conns :
       /\ stage[c] \notin {"none", "closed"} => owner[c] \in Users
       /\ stage[c] \in {"store", "cell", "open"} => table[c] \in Conns
       /\ stage[c] = "store" => table[c] = c
       /\ stage[c] = "open" => cell[c] \in Conns
  /\ \A e \in Execs :
       /\ at[e] \in {"range", "zero"} => source[e] \in Conns
       /\ at[e] = "zero" => key[e] \in Users /\ hold[e] \in Conns
       /\ at[e] # "zero" => read[e] = {}
       /\ at[e] \in {"idle", "lock"} => slice[e] = {}
  /\ waiting # None => at[waiting] # "idle"

(* An open connection counts into the storage that the next report reads   *)
(* for its user: whichever of several first connections registers first,   *)
(* whatever reports run, and however a user is deleted and comes back,     *)
(* except for the connections whose storage was overwritten with the       *)
(* node's counters, or forgotten with their user.                          *)
CountsReachable ==
  \A c \in Conns \ stranded :
    stage[c] = "open" => table[c] = node /\ counters[node][owner[c]] = cell[c]

(* What is inductive about it: a connection that is about to look for its  *)
(* storage does so in the TrafficCounter that is registered.               *)
Reaching ==
  /\ CountsReachable
  /\ \A c \in Conns \ stranded : stage[c] = "cell" => table[c] = node

\* What was transferred is in a storage that the next report reads, unless
\* that was taken off the map.
Collected ==
  \A c \in Conns \ dropped :
    value[c] # {} => node # None /\ \E u \in Users : counters[node][u] = c

\* What is inductive about it: who counts into a storage that was taken off
\* the map is known to.
Filed ==
  /\ Collected
  /\ \A c \in stranded : stage[c] = "open" => cell[c] \in dropped

\* A packet is in a counter, was loaded from one, or is in a report.
Counted(p) == \E c \in Conns : p \in value[c]
InHand(p) == \E e \in Execs : p \in read[e] \cup slice[e]

\* Every packet is accounted for.
Accounted ==
  \A p \in Packets : p \in sent <=> Counted(p) \/ InHand(p) \/ p \in billed \cup lost

(* A packet that was counted is in a counter, in a report under way, or    *)
(* booked by the panel, or was lost in one of three ways: it came between  *)
(* the load and the zeroing of its counter, its user had no id any more,   *)
(* or its report did not arrive.  The next report reads the counter,       *)
(* unless that was taken off the map: with the counters of the node that   *)
(* another first connection stored over (default.go:248), or when its user *)
(* is deleted, by DelUsers (user.go:65) or by a report that finds no id,   *)
(* reported or not, and with what open connections count into it since.    *)
Kept == Collected /\ Accounted

(* No packet is billed twice, unless two executions took counters at the   *)
(* same time, or the client repeated a request: what is reported was not   *)
(* booked before, is in no other report and in no counter, except in the   *)
(* one that is about to be zeroed.                                         *)
BilledOnce ==
  ~repeated =>
    \A e \in Execs :
      /\ (read[e] \cup slice[e]) \cap billed = {}
      /\ \A f \in Execs \ {e} : (read[e] \cup slice[e]) \cap (read[f] \cup slice[f]) = {}
      /\ \A c \in Conns : slice[e] \cap value[c] = {}

(* What is inductive about it: one execution at a time takes counters, it  *)
(* has read what is still in the counter, and counters, reports and the    *)
(* panel's books have no packet in common.                                 *)
Separate ==
  ~repeated =>
    /\ \A e, f \in Taking : e = f
    /\ \A e \in Execs : at[e] = "zero" => read[e] \subseteq value[hold[e]]
    /\ \A c, d \in Conns : c # d => value[c] \cap value[d] = {}
    /\ \A c \in Conns : value[c] \cap billed = {}
    /\ \A e \in Execs, c \in Conns : slice[e] \cap value[c] = {}
    /\ \A e \in Execs : slice[e] \cap billed = {}
    /\ \A e, f \in Execs : e # f => slice[e] \cap slice[f] = {}
============================================================================
