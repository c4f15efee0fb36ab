--------------------------- MODULE TrafficProofs ---------------------------
(* Proofs about Traffic, for any users, connections, packets, executions   *)
(* and minimum.                                                            *)
EXTENDS Traffic, TLAPS

----------------------------------------------------------------------------
(* The variables keep to their ranges when the node starts.                *)
LEMMA TypeInit == Init => TypeOK
<1> SUFFICES ASSUME Init PROVE TypeOK
  OBVIOUS
<1>1. counters \in [Conns -> [Users -> Conns \cup {None}]]
  BY DEF Init
<1>2. /\ \A c \in Conns : stage[c] = "none"
      /\ \A e \in Execs : at[e] = "idle" /\ read[e] = {} /\ slice[e] = {}
  BY DEF Init
<1>3. QED
  BY <1>1, <1>2 DEF Init, TypeOK

(* So they do in the steps of a connection.                                *)
LEMMA ConnectionType ==
  ASSUME TypeOK, NEW c \in Conns, Connection(c)
  PROVE  TypeOK'
<1> USE NoneAssumption DEF TypeOK, execs, taking, ledger, strays
<1>1. CASE \E u \in Users : Admit(c, u)
  BY <1>1 DEF Admit
<1>2. CASE LoadCounter(c)
  BY <1>2 DEF LoadCounter
<1>3. CASE StoreCounter(c)
  BY <1>3 DEF StoreCounter
<1>4. CASE GetCounter(c)
  <2>1. owner[c] \in Users /\ table[c] \in Conns
    BY <1>4 DEF GetCounter
  <2>2. PICK mine \in Conns :
          /\ counters' = [counters EXCEPT ![table[c]][owner[c]] = mine]
          /\ cell' = [cell EXCEPT ![c] = mine]
          /\ stage' = [stage EXCEPT ![c] = "open"]
          /\ UNCHANGED <<uids, node, value, owner, table, execs, ledger, stranded>>
          /\ dropped' \in SUBSET Conns
    <3>1. CASE counters[table[c]][owner[c]] = None
      BY <1>4, <3>1 DEF GetCounter
    <3>2. CASE counters[table[c]][owner[c]] # None
      <4>1. counters[table[c]][owner[c]] \in Conns
        BY <2>1, <3>2
      <4>2. QED
        BY <1>4, <3>2, <4>1 DEF GetCounter
    <3>3. QED
      BY <3>1, <3>2
  <2>3. counters' \in [Conns -> [Users -> Conns \cup {None}]]
    BY <2>1, <2>2
  <2>4. QED
    BY <2>1, <2>2, <2>3
<1>5. CASE \E p \in Packets : Count(c, p)
  BY <1>5 DEF Count, conns
<1>6. CASE Disconnect(c)
  BY <1>6 DEF Disconnect
<1>7. QED
  BY <1>1, <1>2, <1>3, <1>4, <1>5, <1>6 DEF Connection

(* So they do when users are added and deleted.                            *)
LEMMA AccountsType ==
  ASSUME TypeOK, Accounts
  PROVE  TypeOK'
<1> USE NoneAssumption DEF TypeOK, conns, execs, taking, ledger, strays
<1>1. ASSUME NEW u \in Users, DeleteUser(u) PROVE TypeOK'
  <2>1. counters' \in [Conns -> [Users -> Conns \cup {None}]]
    <3>1. CASE node = None
      BY <1>1, <3>1 DEF DeleteUser
    <3>2. CASE node # None
      <4>1. counters' = [counters EXCEPT ![node][u] = None]
        BY <1>1, <3>2 DEF DeleteUser
      <4>2. QED
        BY <4>1
    <3>3. QED
      BY <3>1, <3>2
  <2>2. stranded' \in SUBSET Conns /\ dropped' \in SUBSET Conns
    BY <1>1 DEF DeleteUser, Forgotten
  <2>3. uids' \in SUBSET Users /\ UNCHANGED <<node, value, conns, execs, ledger>>
    BY <1>1 DEF DeleteUser
  <2>4. QED
    BY <2>1, <2>2, <2>3
<1>2. CASE \E u \in Users : AddUser(u)
  BY <1>2 DEF AddUser
<1>3. QED
  BY <1>1, <1>2 DEF Accounts

(* So they do in the steps of the report.                                  *)
LEMMA ReportType ==
  ASSUME TypeOK, NEW e \in Execs, Tick(e) \/ Report(e) \/ Retried(e) \/ Timeout(e)
  PROVE  TypeOK'
<1> USE NoneAssumption DEF TypeOK, conns, execs, taking, ledger, strays, Finish
<1>1. CASE Tick(e)
  BY <1>1 DEF Tick
<1>2. CASE TakeSlice(e)
  <2>1. CASE node = None
    <3>1. Finish(e) /\ UNCHANGED <<taking, ledger>>
      BY <1>2, <2>1 DEF TakeSlice
    <3>2. at[e] = "lock" /\ UNCHANGED <<uids, node, counters, value, conns, strays>>
      BY <1>2 DEF TakeSlice
    <3>3. QED
      BY <3>1, <3>2
  <2>2. CASE node # None
    <3>1. /\ at' = [at EXCEPT ![e] = "range"]
          /\ source' = [source EXCEPT ![e] = node]
          /\ todo' = [todo EXCEPT ![e] = Users]
          /\ repeated' \in BOOLEAN
          /\ UNCHANGED <<waiting, key, hold, read, slice>>
      BY <1>2, <2>2 DEF TakeSlice
    <3>2. UNCHANGED <<uids, node, counters, value, conns, sent, billed, lost, strays>>
      BY <1>2 DEF TakeSlice
    <3>3. at[e] = "lock"
      BY <1>2 DEF TakeSlice
    <3>4. QED
      BY <2>2, <3>1, <3>2, <3>3
  <2>3. QED
    BY <2>1, <2>2
<1>3. CASE \E u \in Users : ReadCounter(e, u)
  BY <1>3 DEF ReadCounter, Due
<1>4. CASE \E u \in Users : PassCounter(e, u)
  BY <1>4 DEF PassCounter
<1>5. CASE ZeroCounter(e)
  <2>1. key[e] \in Users /\ hold[e] \in Conns /\ source[e] \in Conns
    BY <1>5 DEF ZeroCounter
  <2>2. counters' \in [Conns -> [Users -> Conns \cup {None}]]
    <3>1. \/ counters' = counters
          \/ counters' = [counters EXCEPT ![source[e]][key[e]] = None]
      BY <1>5 DEF ZeroCounter
    <3>2. CASE counters' = counters
      BY <3>2
    <3>3. CASE counters' = [counters EXCEPT ![source[e]][key[e]] = None]
      BY <2>1, <3>3
    <3>4. QED
      BY <3>1, <3>2, <3>3
  <2>3. /\ stranded' \in SUBSET Conns
        /\ dropped' \in SUBSET Conns
        /\ lost' \in SUBSET Packets
        /\ slice' \in [Execs -> SUBSET Packets]
    BY <1>5, <2>1 DEF ZeroCounter, Forgotten
  <2>4. \A f \in Execs : f # e => slice'[f] = slice[f]
    BY <1>5 DEF ZeroCounter
  <2>5. /\ at' = [at EXCEPT ![e] = "range"]
        /\ value' = [value EXCEPT ![hold[e]] = {}]
        /\ key' = [key EXCEPT ![e] = None]
        /\ hold' = [hold EXCEPT ![e] = None]
        /\ read' = [read EXCEPT ![e] = {}]
        /\ at[e] = "zero"
        /\ UNCHANGED <<uids, node, conns, waiting, source, todo, sent, billed, repeated>>
    BY <1>5 DEF ZeroCounter
  <2>6. QED
    BY <2>1, <2>2, <2>3, <2>4, <2>5
<1>6. CASE EndRange(e)
  <2>1. /\ at[e] = "range"
        /\ source' = [source EXCEPT ![e] = None]
        /\ UNCHANGED <<uids, node, counters, value, conns, todo, key, hold, read, ledger, strays>>
    BY <1>6 DEF EndRange
  <2>2. CASE Finish(e)
    BY <2>1, <2>2
  <2>3. CASE at' = [at EXCEPT ![e] = "push"] /\ UNCHANGED <<waiting, slice>>
    BY <2>1, <2>3
  <2>4. QED
    BY <1>6, <2>2, <2>3 DEF EndRange
<1>7. CASE Delivered(e)
  BY <1>7 DEF Delivered
<1>8. CASE Undelivered(e)
  BY <1>8 DEF Undelivered
<1>9. CASE Retried(e)
  BY <1>9 DEF Retried
<1>10. CASE Timeout(e)
  BY <1>10 DEF Timeout
<1>11. QED
  BY <1>1, <1>2, <1>3, <1>4, <1>5, <1>6, <1>7, <1>8, <1>9, <1>10 DEF Report

(* Every step keeps the variables in their ranges.                         *)
LEMMA TypeStep == TypeOK /\ [Next]_vars => TypeOK'
<1> SUFFICES ASSUME TypeOK, [Next]_vars PROVE TypeOK'
  OBVIOUS
<1>1. CASE UNCHANGED vars
  BY <1>1 DEF vars, TypeOK
<1>2. CASE Next
  BY <1>2, ConnectionType, AccountsType, ReportType DEF Next
<1>3. QED
  BY <1>1, <1>2

(* The variables keep to their ranges, for any constants.                  *)
THEOREM TypeCorrect == Spec => []TypeOK
BY TypeInit, TypeStep, PTL DEF Spec

----------------------------------------------------------------------------
(* The steps of a connection leave the storages of the others registered:  *)
(* the one that stores over the node's counters strands who used them.     *)
LEMMA ConnectionReaching ==
  ASSUME TypeOK, Reaching, NEW c \in Conns, Connection(c)
  PROVE  Reaching'
<1> USE NoneAssumption DEF TypeOK, Reaching, CountsReachable, strays
<1>1. CASE \E u \in Users : Admit(c, u)
  BY <1>1 DEF Admit
<1>2. CASE LoadCounter(c)
  BY <1>2 DEF LoadCounter
<1>3. CASE StoreCounter(c)
  BY <1>3 DEF StoreCounter
<1>4. CASE GetCounter(c)
  BY <1>4 DEF GetCounter
<1>5. CASE \E p \in Packets : Count(c, p)
  BY <1>5 DEF Count, conns
<1>6. CASE Disconnect(c)
  BY <1>6 DEF Disconnect
<1>7. QED
  BY <1>1, <1>2, <1>3, <1>4, <1>5, <1>6 DEF Connection

(* Who forgets a user strands its connections.                             *)
LEMMA AccountsReaching ==
  ASSUME TypeOK, Reaching, Accounts
  PROVE  Reaching'
<1> USE NoneAssumption DEF TypeOK, Reaching, CountsReachable, conns, strays
<1>1. CASE \E u \in Users : DeleteUser(u)
  BY <1>1 DEF DeleteUser, Forgotten
<1>2. CASE \E u \in Users : AddUser(u)
  BY <1>2 DEF AddUser
<1>3. QED
  BY <1>1, <1>2 DEF Accounts

(* Of the steps of the report, only ZeroCounter touches the maps.          *)
LEMMA ReportReaching ==
  ASSUME TypeOK, Reaching, NEW e \in Execs, Tick(e) \/ Report(e) \/ Retried(e) \/ Timeout(e)
  PROVE  Reaching'
<1> USE DEF Reaching, CountsReachable, conns, strays
<1>1. CASE ZeroCounter(e)
  <2>1. CASE key[e] \in uids
    BY <1>1, <2>1 DEF ZeroCounter
  <2>2. CASE key[e] \notin uids
    <3>1. key[e] \in Users /\ source[e] \in Conns
      BY <1>1 DEF ZeroCounter, TypeOK
    <3>2. /\ counters' = [counters EXCEPT ![source[e]] = [@ EXCEPT ![key[e]] = None]]
          /\ stranded' = stranded \cup Forgotten(source[e], key[e])
          /\ UNCHANGED <<node, stage, owner, table, cell>>
      BY <1>1, <2>2 DEF ZeroCounter
    <3>3. \A c \in Conns : stage[c] = "open" => owner[c] \in Users /\ table[c] \in Conns
      BY DEF TypeOK
    <3>4. QED
      BY <3>1, <3>2, <3>3 DEF Forgotten, TypeOK
  <2>3. QED
    BY <2>1, <2>2
<1>2. CASE UNCHANGED <<node, counters, conns, strays>>
  BY <1>2
<1>3. QED
  BY <1>1, <1>2 DEF Report, Tick, TakeSlice, ReadCounter, PassCounter, EndRange, Delivered,
                    Undelivered, Retried, Timeout

(* Every step keeps them registered.                                       *)
LEMMA ReachingStep == TypeOK /\ Reaching /\ [Next]_vars => Reaching'
<1> SUFFICES ASSUME TypeOK, Reaching, [Next]_vars PROVE Reaching'
  OBVIOUS
<1>1. CASE UNCHANGED vars
  BY <1>1 DEF vars, strays, Reaching, CountsReachable
<1>2. CASE Next
  BY <1>2, ConnectionReaching, AccountsReaching, ReportReaching DEF Next
<1>3. QED
  BY <1>1, <1>2

(* Open connections count where the next report looks, for any constants.  *)
THEOREM AlwaysReachable == Spec => []CountsReachable
<1>1. Init => Reaching
  BY DEF Init, Reaching, CountsReachable
<1>2. Reaching => CountsReachable
  BY DEF Reaching
<1>3. QED
  BY TypeCorrect, ReachingStep, <1>1, <1>2, PTL DEF Spec

----------------------------------------------------------------------------
(* A connection counts where it is registered, or in a storage that is     *)
(* known to be dropped.                                                    *)
LEMMA ConnectionFiled ==
  ASSUME TypeOK, Reaching, Filed, NEW c \in Conns, Connection(c)
  PROVE  Filed'
<1> USE NoneAssumption DEF TypeOK, Filed, Collected
<1>1. CASE \E u \in Users : Admit(c, u)
  BY <1>1 DEF Admit, strays
<1>2. CASE LoadCounter(c)
  BY <1>2 DEF LoadCounter, strays
<1>3. CASE StoreCounter(c)
  <2>1. \A d \in Conns \ dropped' : value'[d] = {}
    BY <1>3 DEF StoreCounter
  <2>2. \A d \in stranded' : stage'[d] = "open" => cell'[d] \in dropped'
    <3> SUFFICES ASSUME NEW d \in stranded', stage'[d] = "open"
                 PROVE  cell'[d] \in dropped'
      OBVIOUS
    <3>1. d \in Conns /\ stage[d] = "open" /\ cell'[d] = cell[d] /\ dropped \subseteq dropped'
      BY <1>3 DEF StoreCounter
    <3>2. CASE d \in stranded
      BY <3>1, <3>2
    <3>3. CASE d \notin stranded
      <4>1. node # None /\ counters[node][owner[d]] = cell[d]
        BY <1>3, <3>1, <3>3 DEF StoreCounter, Reaching, CountsReachable
      <4>2. QED
        BY <1>3, <3>1, <4>1 DEF StoreCounter
    <3>4. QED
      BY <3>2, <3>3
  <2>3. QED
    BY <2>1, <2>2
<1>4. CASE GetCounter(c)
  <2> DEFINE found == counters[table[c]][owner[c]]
             mine == IF found = None THEN c ELSE found
  <2>1. /\ owner[c] \in Users /\ table[c] \in Conns /\ stage[c] = "cell"
        /\ counters' = [counters EXCEPT ![table[c]] = [@ EXCEPT ![owner[c]] = mine]]
        /\ cell' = [cell EXCEPT ![c] = mine]
        /\ stage' = [stage EXCEPT ![c] = "open"]
        /\ dropped' = IF c \in stranded THEN dropped \cup {mine} ELSE dropped
        /\ UNCHANGED <<node, value, stranded>>
    BY <1>4 DEF GetCounter
  <2>2. \A d \in Conns \ dropped' : value'[d] # {} =>
          node # None /\ \E u \in Users : counters'[node][u] = d
    <3> SUFFICES ASSUME NEW d \in Conns \ dropped, value[d] # {}
                 PROVE  node # None /\ \E u \in Users : counters'[node][u] = d
      BY <2>1
    <3>1. PICK u \in Users : node # None /\ counters[node][u] = d
      OBVIOUS
    <3>2. counters'[node][u] = d
      BY <2>1, <3>1
    <3>3. QED
      BY <3>1, <3>2
  <2>3. \A d \in stranded' : stage'[d] = "open" => cell'[d] \in dropped'
    BY <2>1
  <2>4. QED
    BY <2>1, <2>2, <2>3
<1>5. ASSUME NEW q \in Packets, Count(c, q) PROVE Filed'
  <2>1. /\ stage[c] = "open"
        /\ value' = [value EXCEPT ![cell[c]] = @ \cup {q}]
        /\ UNCHANGED <<node, counters, stage, cell, stranded, dropped>>
    BY <1>5 DEF Count, conns, strays
  <2>2. /\ cell[c] \in Conns /\ owner[c] \in Users /\ table[c] \in Conns
        /\ value' \in [Conns -> SUBSET Packets]
        /\ \A d \in Conns : d # cell[c] => value'[d] = value[d]
    BY <2>1
  <2>3. \/ cell[c] \in dropped
        \/ node # None /\ \E u \in Users : counters[node][u] = cell[c]
    <3> HIDE DEF TypeOK, Collected
    <3>1. CASE c \in stranded
      BY <2>1, <3>1
    <3>2. CASE c \notin stranded
      BY <2>1, <2>2, <3>2 DEF Reaching, CountsReachable
    <3>3. QED
      BY <3>1, <3>2
  <2>4. \A d \in Conns \ dropped' : value'[d] # {} =>
          node' # None /\ \E u \in Users : counters'[node'][u] = d
    BY <2>1, <2>2, <2>3
  <2>5. QED
    BY <2>1, <2>4
<1>6. CASE Disconnect(c)
  BY <1>6 DEF Disconnect
<1>7. QED
  BY <1>1, <1>2, <1>3, <1>4, <1>5, <1>6 DEF Connection

(* Who takes a user off the node's counters drops the storage, and knows   *)
(* who goes on counting into it.                                           *)
LEMMA ForgetFiled ==
  ASSUME TypeOK, Reaching, Filed, NEW t \in Conns, NEW u \in Users,
         counters' = [counters EXCEPT ![t] = [@ EXCEPT ![u] = None]],
         stranded' = stranded \cup Forgotten(t, u),
         dropped' = dropped \cup ({counters[t][u]} \ {None}),
         \A c \in Conns : value'[c] \subseteq value[c],
         UNCHANGED <<node, stage, cell>>
  PROVE  Filed'
<1> USE NoneAssumption DEF TypeOK, Filed, Collected
<1>1. ASSUME NEW d \in Conns \ dropped', value'[d] # {}
      PROVE  node # None /\ \E v \in Users : counters'[node][v] = d
  <2>1. PICK v \in Users : node # None /\ counters[node][v] = d
    BY <1>1
  <2>2. ~(node = t /\ v = u)
    BY <1>1, <2>1
  <2>3. counters'[node][v] = d
    BY <2>1, <2>2
  <2>4. QED
    BY <2>1, <2>3
<1>2. ASSUME NEW d \in stranded', stage[d] = "open" PROVE cell[d] \in dropped'
  <2>1. d \in Conns /\ cell[d] \in Conns
    BY <1>2 DEF Forgotten
  <2>2. CASE d \in stranded
    BY <1>2, <2>2
  <2>3. CASE d \notin stranded
    BY <1>2, <2>1, <2>3 DEF Forgotten, Reaching, CountsReachable
  <2>4. QED
    BY <2>2, <2>3
<1>3. QED
  BY <1>1, <1>2

(* The rest of the report reads counters and empties them.                 *)
LEMMA ReportFiled ==
  ASSUME TypeOK, Reaching, Filed, NEW e \in Execs,
         Tick(e) \/ Report(e) \/ Retried(e) \/ Timeout(e)
  PROVE  Filed'
<1>1. CASE ZeroCounter(e)
  <2>1. /\ key[e] \in Users /\ source[e] \in Conns /\ hold[e] \in Conns
        /\ value' = [value EXCEPT ![hold[e]] = {}]
        /\ UNCHANGED <<node, stage, cell>>
    BY <1>1 DEF ZeroCounter, TypeOK, conns
  <2>2. \A c \in Conns : value'[c] \subseteq value[c]
    BY <2>1 DEF TypeOK
  <2>3. CASE key[e] \in uids
    <3>1. UNCHANGED <<counters, stranded, dropped>>
      BY <1>1, <2>3 DEF ZeroCounter, strays
    <3>2. QED
      BY <2>1, <2>2, <3>1 DEF Filed, Collected
  <2>4. CASE key[e] \notin uids
    <3>1. /\ counters' = [counters EXCEPT ![source[e]] = [@ EXCEPT ![key[e]] = None]]
          /\ stranded' = stranded \cup Forgotten(source[e], key[e])
          /\ dropped' = dropped \cup ({counters[source[e]][key[e]]} \ {None})
      BY <1>1, <2>4 DEF ZeroCounter
    <3>2. QED
      BY <2>1, <2>2, <3>1, ForgetFiled
  <2>5. QED
    BY <2>3, <2>4
<1>2. CASE UNCHANGED <<node, counters, value, conns, strays>>
  BY <1>2 DEF Filed, Collected, conns, strays
<1>3. QED
  BY <1>1, <1>2 DEF Report, Tick, TakeSlice, ReadCounter, PassCounter, EndRange, Delivered,
                    Undelivered, Retried, Timeout

(* What was transferred is where the report finds it but for the storages  *)
(* that were taken off the map, for any constants.                         *)
THEOREM AlwaysCollected == Spec => []Collected
<1>1. Init => Reaching /\ Filed
  BY DEF Init, Reaching, CountsReachable, Filed, Collected
<1>2. TypeOK /\ Reaching /\ Filed /\ [Next]_vars => Filed'
  <2> SUFFICES ASSUME TypeOK, Reaching, Filed, [Next]_vars PROVE Filed'
    OBVIOUS
  <2>1. CASE UNCHANGED vars
    BY <2>1 DEF vars, Filed, Collected
  <2>2. CASE Accounts
    <3>1. ASSUME NEW u \in Users, DeleteUser(u) PROVE Filed'
      <4>1. UNCHANGED <<node, value, stage, cell>>
        BY <3>1 DEF DeleteUser, conns
      <4>2. CASE node = None
        BY <3>1, <4>1, <4>2 DEF DeleteUser, Filed, Collected, strays
      <4>3. CASE node # None
        <5>1. /\ counters' = [counters EXCEPT ![node] = [@ EXCEPT ![u] = None]]
              /\ stranded' = stranded \cup Forgotten(node, u)
              /\ dropped' = dropped \cup ({counters[node][u]} \ {None})
          BY <3>1, <4>3 DEF DeleteUser
        <5>2. node \in Conns
          BY <4>3 DEF TypeOK
        <5>3. QED
          BY <4>1, <5>1, <5>2, ForgetFiled
      <4>4. QED
        BY <4>2, <4>3
    <3>2. CASE \E u \in Users : AddUser(u)
      BY <3>2 DEF AddUser, Filed, Collected, conns, strays
    <3>3. QED
      BY <2>2, <3>1, <3>2 DEF Accounts
  <2>3. CASE Next
    BY <2>2, <2>3, ConnectionFiled, ReportFiled DEF Next
  <2>4. QED
    BY <2>1, <2>3
<1>3. TypeOK /\ Reaching /\ [Next]_vars => Reaching'
  BY ReachingStep
<1>4. Filed => Collected
  BY DEF Filed
<1>5. QED
  BY TypeCorrect, <1>1, <1>2, <1>3, <1>4, PTL DEF Spec

----------------------------------------------------------------------------
(* The steps of a connection, and users that come and go, only add to the  *)
(* counters, and what they add is noted as sent.                           *)
LEMMA ConnectionKept ==
  ASSUME TypeOK, Accounted, (\E c \in Conns : Connection(c)) \/ Accounts
  PROVE  Accounted'
<1>1. ASSUME NEW c \in Conns, NEW q \in Packets, Count(c, q) PROVE Accounted'
  <2>1. cell[c] \in Conns
    BY <1>1 DEF Count, TypeOK
  <2>2. /\ value' = [value EXCEPT ![cell[c]] = @ \cup {q}]
        /\ sent' = sent \cup {q}
        /\ UNCHANGED <<read, slice, billed, lost>>
    BY <1>1 DEF Count, execs, taking
  <2>3. \A p \in Packets : Counted(p)' <=> Counted(p) \/ p = q
    BY <2>1, <2>2 DEF Counted, TypeOK
  <2>4. \A p \in Packets : InHand(p)' <=> InHand(p)
    BY <2>2 DEF InHand
  <2>5. QED
    BY <2>2, <2>3, <2>4 DEF Accounted
<1>2. CASE UNCHANGED <<value, read, slice, sent, billed, lost>>
  BY <1>2 DEF Accounted, Counted, InHand
<1>3. QED
  BY <1>1, <1>2
     DEF Connection, Admit, LoadCounter, StoreCounter, GetCounter, Disconnect, Accounts,
         DeleteUser, AddUser, execs, taking, ledger

(* The report moves packets on, and loses some, which are noted.           *)
LEMMA ReportKept ==
  ASSUME TypeOK, Accounted, NEW e \in Execs, Tick(e) \/ Report(e) \/ Retried(e) \/ Timeout(e)
  PROVE  Accounted'
<1> USE DEF TypeOK, Accounted, Counted, InHand
<1>1. CASE UNCHANGED <<value, read, slice, sent, billed, lost>>
  BY <1>1
<1>2. CASE TakeSlice(e)
  BY <1>2 DEF TakeSlice, Finish, taking
<1>3. ASSUME NEW u \in Users, ReadCounter(e, u) PROVE Accounted'
  <2>1. counters[source[e]][u] \in Conns
    BY <1>3 DEF ReadCounter, Due
  <2>2. QED
    BY <1>3, <2>1 DEF ReadCounter, ledger
<1>4. CASE ZeroCounter(e)
  <2>1. hold[e] \in Conns
    BY <1>4 DEF ZeroCounter
  <2>2. CASE key[e] \in uids
    <3>1. /\ value' = [value EXCEPT ![hold[e]] = {}]
          /\ read' = [read EXCEPT ![e] = {}]
          /\ slice' = [slice EXCEPT ![e] = @ \cup read[e]]
          /\ lost' = lost \cup (value[hold[e]] \ read[e])
          /\ UNCHANGED <<sent, billed>>
      BY <1>4, <2>2 DEF ZeroCounter
    <3>2. \A p \in Packets : Counted(p) => Counted(p)' \/ p \in read[e] \/ p \in lost'
      BY <2>1, <3>1
    <3>3. \A p \in Packets : Counted(p)' => Counted(p)
      BY <2>1, <3>1
    <3>4. \A p \in Packets : InHand(p)' <=> InHand(p)
      BY <3>1
    <3>5. \A p \in Packets : p \in read[e] => InHand(p)'
      BY <3>1
    <3>6. \A p \in Packets : p \in lost' => p \in lost \/ Counted(p)
      BY <2>1, <3>1
    <3> HIDE DEF Counted, InHand
    <3>7. QED
      BY <3>1, <3>2, <3>3, <3>4, <3>5, <3>6
  <2>3. CASE key[e] \notin uids
    BY <1>4, <2>1, <2>3 DEF ZeroCounter
  <2>4. QED
    BY <2>2, <2>3
<1>5. CASE EndRange(e)
  BY <1>5 DEF EndRange, Finish, ledger
<1>6. CASE Delivered(e)
  BY <1>6 DEF Delivered, Finish, taking
<1>7. CASE Undelivered(e)
  BY <1>7 DEF Undelivered, Finish, taking
<1>8. CASE Retried(e)
  BY <1>8 DEF Retried, execs, taking
<1>9. QED
  BY <1>1, <1>2, <1>3, <1>4, <1>5, <1>6, <1>7, <1>8
     DEF Report, Tick, Timeout, PassCounter, taking, ledger

(* Every step accounts for every packet.                                   *)
LEMMA AccountedStep == TypeOK /\ Accounted /\ [Next]_vars => Accounted'
<1> SUFFICES ASSUME TypeOK, Accounted, [Next]_vars PROVE Accounted'
  OBVIOUS
<1>1. CASE UNCHANGED vars
  BY <1>1 DEF vars, Accounted, Counted, InHand
<1>2. CASE Next
  BY <1>2, ConnectionKept, ReportKept DEF Next
<1>3. QED
  BY <1>1, <1>2

(* No packet vanishes but in the ways Kept names, for any constants.       *)
THEOREM NothingVanishes == Spec => []Kept
<1>1. Init => Accounted
  BY DEF Init, Accounted, Counted, InHand
<1>2. Collected /\ Accounted => Kept
  BY DEF Kept
<1>3. QED
  BY TypeCorrect, AlwaysCollected, AccountedStep, <1>1, <1>2, PTL DEF Spec

----------------------------------------------------------------------------
(* A packet is counted once: what a connection counts was nowhere before.  *)
LEMMA ConnectionSeparate ==
  ASSUME TypeOK, Accounted, Separate, (\E c \in Conns : Connection(c)) \/ Accounts
  PROVE  Separate'
<1>1. ASSUME NEW c \in Conns, NEW q \in Packets, Count(c, q) PROVE Separate'
  <2>1. cell[c] \in Conns
    BY <1>1 DEF Count, TypeOK
  <2>2. /\ value' = [value EXCEPT ![cell[c]] = @ \cup {q}]
        /\ UNCHANGED <<at, hold, read, slice, billed, repeated>>
    BY <1>1 DEF Count, execs, taking
  <2>3. /\ \A d \in Conns : q \notin value[d]
        /\ \A e \in Execs : q \notin read[e] \cup slice[e]
        /\ q \notin billed
    BY <1>1 DEF Count, Accounted, Counted, InHand
  <2>4. QED
    BY <2>1, <2>2, <2>3 DEF Separate, Taking, TypeOK
<1>2. CASE UNCHANGED <<value, at, hold, read, slice, billed, repeated>>
  BY <1>2 DEF Separate, Taking
<1>3. QED
  BY <1>1, <1>2
     DEF Connection, Admit, LoadCounter, StoreCounter, GetCounter, Disconnect, Accounts,
         DeleteUser, AddUser, execs, taking, ledger

(* The report takes a packet from its counter into one slice, and from the *)
(* slice into the books.                                                   *)
LEMMA ReportSeparate ==
  ASSUME TypeOK, Separate, NEW e \in Execs, Tick(e) \/ Report(e) \/ Retried(e) \/ Timeout(e)
  PROVE  Separate'
<1> USE DEF TypeOK, Separate, Taking
<1>1. CASE Tick(e)
  BY <1>1 DEF Tick, taking, ledger
<1>2. CASE TakeSlice(e)
  <2>1. at[e] = "lock" /\ UNCHANGED <<value, billed, hold, read>>
    BY <1>2 DEF TakeSlice, taking
  <2>2. CASE node = None
    <3>1. /\ at' = [at EXCEPT ![e] = "idle"]
          /\ slice' = [slice EXCEPT ![e] = {}]
          /\ repeated' = repeated
      BY <1>2, <2>2 DEF TakeSlice, Finish
    <3>2. QED
      BY <2>1, <3>1
  <2>3. CASE node # None
    <3>1. /\ at' = [at EXCEPT ![e] = "range"]
          /\ slice' = slice
          /\ ~repeated' => ~repeated /\ Taking = {}
      BY <1>2, <2>3 DEF TakeSlice
    <3>2. ~repeated' => Taking' = {e}
      BY <3>1
    <3>3. QED
      BY <2>1, <3>1, <3>2
  <2>4. QED
    BY <2>2, <2>3
<1>3. ASSUME NEW u \in Users, ReadCounter(e, u) PROVE Separate'
  <2>1. counters[source[e]][u] \in Conns
    BY <1>3 DEF ReadCounter, Due
  <2>2. QED
    BY <1>3, <2>1 DEF ReadCounter, ledger
<1>4. ASSUME NEW u \in Users, PassCounter(e, u) PROVE Separate'
  BY <1>4 DEF PassCounter, ledger
<1>5. CASE ZeroCounter(e)
  <2>1. hold[e] \in Conns
    BY <1>5 DEF ZeroCounter
  <2>2. CASE key[e] \in uids
    <3>1. /\ at[e] = "zero"
          /\ at' = [at EXCEPT ![e] = "range"]
          /\ value' = [value EXCEPT ![hold[e]] = {}]
          /\ hold' = [hold EXCEPT ![e] = None]
          /\ read' = [read EXCEPT ![e] = {}]
          /\ slice' = [slice EXCEPT ![e] = @ \cup read[e]]
          /\ UNCHANGED <<billed, repeated>>
      BY <1>5, <2>2 DEF ZeroCounter
    <3> SUFFICES ASSUME ~repeated PROVE Separate'
      BY <3>1
    <3>2. Taking' = Taking
      BY <3>1
    <3>3. \A f \in Execs : at'[f] = "zero" => read'[f] \subseteq value'[hold'[f]]
      BY <3>1
    <3>4. /\ \A c, d \in Conns : c # d => value'[c] \cap value'[d] = {}
          /\ \A c \in Conns : value'[c] \cap billed' = {}
      BY <2>1, <3>1
    <3>5. read[e] \subseteq value[hold[e]]
      BY <3>1
    <3>6. \A f \in Execs, c \in Conns : slice'[f] \cap value'[c] = {}
      BY <2>1, <3>1, <3>5
    <3>7. \A f \in Execs : slice'[f] \cap billed' = {}
      BY <2>1, <3>1, <3>5
    <3>8. \A f, g \in Execs : f # g => slice'[f] \cap slice'[g] = {}
      BY <2>1, <3>1, <3>5
    <3>9. QED
      BY <3>1, <3>2, <3>3, <3>4, <3>6, <3>7, <3>8
  <2>3. CASE key[e] \notin uids
    BY <1>5, <2>1, <2>3 DEF ZeroCounter
  <2>4. QED
    BY <2>2, <2>3
<1>6. CASE EndRange(e)
  <2>1. /\ at[e] = "range"
        /\ at' = [at EXCEPT ![e] = "push"] \/ at' = [at EXCEPT ![e] = "idle"]
        /\ slice' = slice \/ slice' = [slice EXCEPT ![e] = {}]
        /\ UNCHANGED <<value, hold, read, billed, repeated>>
    BY <1>6 DEF EndRange, Finish, ledger
  <2>2. \A f \in Execs : slice'[f] \subseteq slice[f]
    BY <2>1
  <2>3. Taking' \subseteq Taking /\ \A f \in Execs : at'[f] = "zero" => at[f] = "zero"
    BY <2>1
  <2>4. QED
    BY <2>1, <2>2, <2>3
<1>7. CASE Delivered(e)
  BY <1>7 DEF Delivered, Finish, taking
<1>8. CASE Undelivered(e)
  BY <1>8 DEF Undelivered, Finish, taking
<1>9. CASE Retried(e)
  BY <1>9 DEF Retried
<1>10. CASE Timeout(e)
  BY <1>10 DEF Timeout, taking, ledger
<1>11. QED
  BY <1>1, <1>2, <1>3, <1>4, <1>5, <1>6, <1>7, <1>8, <1>9, <1>10 DEF Report

(* No packet is billed twice but where BilledOnce says, for any constants. *)
THEOREM NeverBilledTwice == Spec => []BilledOnce
<1>1. Init => Separate
  BY DEF Init, Separate, Taking
<1>2. TypeOK /\ Accounted /\ Separate /\ [Next]_vars => Separate'
  <2> SUFFICES ASSUME TypeOK, Accounted, Separate, [Next]_vars PROVE Separate'
    OBVIOUS
  <2>1. CASE UNCHANGED vars
    BY <2>1 DEF vars, Separate, Taking
  <2>2. CASE Next
    BY <2>2, ConnectionSeparate, ReportSeparate DEF Next
  <2>3. QED
    BY <2>1, <2>2
<1>3. TypeOK /\ Separate => BilledOnce
  <2> SUFFICES ASSUME TypeOK, Separate, ~repeated, NEW e \in Execs
               PROVE  /\ (read[e] \cup slice[e]) \cap billed = {}
                      /\ \A f \in Execs \ {e} : (read[e] \cup slice[e]) \cap (read[f] \cup slice[f]) = {}
                      /\ \A c \in Conns : slice[e] \cap value[c] = {}
    BY DEF BilledOnce
  <2>1. \A f \in Execs : \/ read[f] = {}
                         \/ f \in Taking /\ hold[f] \in Conns /\ read[f] \subseteq value[hold[f]]
    BY DEF TypeOK, Separate, Taking
  <2>2. QED
    BY <2>1 DEF Separate
<1>4. Kept => Accounted
  BY DEF Kept
<1>5. QED
  BY TypeCorrect, NothingVanishes, <1>1, <1>2, <1>3, <1>4, PTL DEF Spec
============================================================================
