--------------------------- MODULE ServingProofs ---------------------------
(***************************************************************************)
(* What stands between the panel's answer and a served connection, for any *)
(* answers, users, connections, speeds, nodes and routes: an inbound has   *)
(* the TLS its node asks for and follows the panel; the speed follows the  *)
(* limit; no connection leaves by a way its node's panel did not say, or   *)
(* because of another node.  DeviceLimitProofs has the device limit.  The  *)
(* inductive invariants are in the modules of the parts, after the         *)
(* properties they strengthen.                                             *)
(***************************************************************************)
EXTENDS MCServing, DeviceLimitProofs, FiniteSetTheorems, SequenceTheorems,
        WellFoundedInduction, TLAPS

----------------------------------------------------------------------------
(* SpeedLimit.                                                             *)

(* There is always a bucket that nobody knows.                             *)
LEMMA NewBucketExists ==
  ASSUME SpeedTypeOK
  PROVE  /\ NewBucket \in Buckets /\ NewBucket # bucket /\ NewBucket # NoBucket
         /\ \A c \in Streams : held[c] # NewBucket
<1> DEFINE holding == {held[c] : c \in Streams}
<1>1. held \in Surjection(Streams, holding)
  <2>1. held \in [Streams -> holding]
    BY DEF SpeedTypeOK
  <2>2. QED
    BY <2>1 DEF Surjection
<1>2. IsFiniteSet(holding) /\ Cardinality(holding) <= Cardinality(Streams)
  BY <1>1, BucketsAssumption, FS_Surjection
<1>3. /\ IsFiniteSet(holding \cup {bucket})
      /\ Cardinality(holding \cup {bucket}) <= Cardinality(holding) + 1
  <2>1. Cardinality(holding) \in Nat
    BY <1>2, FS_CardinalityType
  <2> HIDE DEF holding
  <2>2. /\ IsFiniteSet(holding \cup {bucket})
        /\ Cardinality(holding \cup {bucket}) =
             IF bucket \in holding THEN Cardinality(holding) ELSE Cardinality(holding) + 1
    BY <1>2, FS_AddElement
  <2>3. QED
    BY <2>1, <2>2
<1>4. ~(Buckets \subseteq holding \cup {bucket})
  <2>1. ASSUME Buckets \subseteq holding \cup {bucket}
        PROVE  Cardinality(Buckets) <= Cardinality(holding \cup {bucket})
    BY <1>3, <2>1, FS_Subset
  <2>2. /\ Cardinality(Streams) \in Nat /\ Cardinality(Buckets) \in Nat
        /\ Cardinality(holding) \in Nat /\ Cardinality(holding \cup {bucket}) \in Nat
    BY <1>2, <1>3, BucketsAssumption, FS_CardinalityType
  <2>3. QED
    BY <1>2, <1>3, <2>1, <2>2, BucketsAssumption
<1>5. \E b \in Buckets : b # bucket /\ \A c \in Streams : held[c] # b
  BY <1>4
<1>6. QED
  BY <1>5, NoBucketAssumption DEF NewBucket

LEMMA SpeedShapeInit == SpeedInit => SpeedShape /\ InReach
<1>1. SpeedInit => SpeedShape
  BY SpeedsAssumption DEF SpeedInit, SpeedShape, SpeedTypeOK, Places
<1>2. SpeedInit => InReach
  BY DEF SpeedInit, InReach
<1>3. QED
  BY <1>1, <1>2

LEMMA SpeedShapeStep == SpeedShape /\ [SpeedNext]_speedVars => SpeedShape'
<1> SUFFICES ASSUME SpeedShape, [SpeedNext]_speedVars PROVE SpeedShape'
  OBVIOUS
<1> USE SpeedsAssumption, NoBucketAssumption DEF SpeedShape, SpeedTypeOK, Places, Holders
<1>1. CASE UNCHANGED speedVars
  BY <1>1 DEF speedVars
<1>2. ASSUME NEW c \in Streams, ReadLimit(c) PROVE SpeedShape'
  BY <1>2 DEF ReadLimit
<1>3. ASSUME NEW c \in Streams, LoadBucket(c) PROVE SpeedShape'
  BY <1>3 DEF LoadBucket
<1>4. ASSUME NEW c \in Streams, StoreBucket(c) PROVE SpeedShape'
  BY <1>4, NewBucketExists DEF StoreBucket
<1>5. ASSUME NEW c \in Streams, EndStream(c) PROVE SpeedShape'
  BY <1>5 DEF EndStream
<1>6. ASSUME NEW s \in Speeds, ModifySpeed(s) PROVE SpeedShape'
  BY <1>6 DEF ModifySpeed
<1>7. ASSUME NEW s \in Speeds, AddSpeed(s) PROVE SpeedShape'
  BY <1>7 DEF AddSpeed
<1>8. CASE UpdateBucket
  <2>1. astray' \subseteq astray \cup {c \in Streams : place[c] = "open"}
    BY <1>8 DEF UpdateBucket
  <2>2. rate' \in [Buckets -> Speeds] /\ bucket' \in {bucket, NoBucket}
    BY <1>8 DEF UpdateBucket
  <2>3. /\ update = "bucket" /\ update' \in {"idle", "make"} /\ dated' = FALSE
        /\ UNCHANGED <<speed, place, want, held>>
    BY <1>8 DEF UpdateBucket
  <2>4. QED
    BY <2>1, <2>2, <2>3
<1>9. CASE MakeBucket
  <2>1. astray' \subseteq astray \cup {c \in Streams : place[c] = "open"}
    BY <1>9 DEF MakeBucket
  <2>2. rate' \in [Buckets -> Speeds]
    BY <1>9 DEF MakeBucket
  <2>3. bucket' \in Buckets
    BY <1>9, NewBucketExists DEF MakeBucket
  <2>4. update' = "idle" /\ dated' = FALSE /\ UNCHANGED <<speed, place, want, held>>
    BY <1>9 DEF MakeBucket
  <2>5. QED
    BY <2>1, <2>2, <2>3, <2>4
<1>10. CASE ForgetSpeed
  <2>1. PICK closed \in SUBSET {c \in Streams : place[c] = "open"} :
          /\ place' = [c \in Streams |-> IF c \in closed THEN "none" ELSE place[c]]
          /\ held' = [c \in Streams |-> IF c \in closed THEN NoBucket ELSE held[c]]
          /\ want' = [c \in Streams |-> IF c \in closed THEN 0 ELSE want[c]]
          /\ astray' = {c \in Streams : place[c] = "open"} \ closed
    BY <1>10 DEF ForgetSpeed
  <2>2. /\ update = "idle" /\ speed' = Unknown /\ bucket' = NoBucket /\ dated' = FALSE
        /\ UNCHANGED <<rate, update>>
    BY <1>10 DEF ForgetSpeed
  <2>3. place' \in [Streams -> Places] /\ want' \in [Streams -> Speeds]
        /\ held' \in [Streams -> Buckets \cup {NoBucket}]
    BY <2>1
  <2>4. \A c \in Streams : held'[c] # NoBucket => place'[c] = "open"
    BY <2>1
  <2>5. \A c \in Streams : place'[c] \in {"load", "store"} => want'[c] # 0
    BY <2>1
  <2>6. astray' \subseteq {c \in Streams : place'[c] = "open"}
    BY <2>1
  <2>7. QED
    BY <2>2, <2>3, <2>4, <2>5, <2>6
<1>11. QED
  BY <1>1, <1>2, <1>3, <1>4, <1>5, <1>6, <1>7, <1>8, <1>9, <1>10 DEF SpeedNext

(* Whatever connections and UpdateUser do to the bucket between each       *)
(* other's steps, those that are not astray stay in reach.                 *)
LEMMA InReachStep == SpeedShape /\ InReach /\ [SpeedNext]_speedVars => InReach'
<1> SUFFICES ASSUME SpeedShape, InReach, [SpeedNext]_speedVars PROVE InReach'
  OBVIOUS
<1> USE SpeedsAssumption, NoBucketAssumption
    DEF SpeedShape, SpeedTypeOK, Places, Holders, InReach
<1>1. CASE UNCHANGED speedVars
  BY <1>1 DEF speedVars
<1>2. ASSUME NEW c \in Streams, ReadLimit(c) PROVE InReach'
  BY <1>2 DEF ReadLimit
<1>3. ASSUME NEW c \in Streams, LoadBucket(c) PROVE InReach'
  BY <1>3 DEF LoadBucket
<1>4. ASSUME NEW c \in Streams, StoreBucket(c) PROVE InReach'
  <2>1. /\ place' = [place EXCEPT ![c] = "open"] /\ held' = [held EXCEPT ![c] = NewBucket]
        /\ bucket' = NewBucket /\ UNCHANGED <<speed, update>>
        /\ rate' = [rate EXCEPT ![NewBucket] = want[c]]
        /\ dated' = (want[c] # speed)
        /\ astray' = (IF bucket = NoBucket THEN astray ELSE astray \cup Holders(bucket))
                       \cup (IF want[c] = speed THEN {} ELSE {c})
    BY <1>4 DEF StoreBucket
  <2>2. rate'[bucket'] = want[c] /\ bucket' # NoBucket /\ want[c] # 0 /\ want[c] # Unknown
    BY <1>4, <2>1, NewBucketExists DEF StoreBucket
  <2>3. \A d \in Streams \ astray' : place'[d] = "open" =>
          IF d = c THEN held'[d] = bucket' /\ ~dated' ELSE held'[d] = NoBucket /\ held[d] = NoBucket
    BY <2>1
  <2>4. QED
    BY <2>1, <2>2, <2>3
<1>5. ASSUME NEW c \in Streams, EndStream(c) PROVE InReach'
  BY <1>5 DEF EndStream
<1>6. ASSUME NEW s \in Speeds, ModifySpeed(s) PROVE InReach'
  BY <1>6 DEF ModifySpeed
<1>7. ASSUME NEW s \in Speeds, AddSpeed(s) PROVE InReach'
  BY <1>7 DEF AddSpeed
<1>8. CASE UpdateBucket
  <2>1. /\ update = "bucket" /\ speed # Unknown
        /\ dated' = FALSE /\ UNCHANGED <<speed, place, want, held>>
    BY <1>8 DEF UpdateBucket
  <2>2. CASE /\ speed = 0 /\ bucket' = NoBucket /\ update' = "idle"
             /\ astray' = IF bucket = NoBucket THEN astray ELSE astray \cup Holders(bucket)
    BY <2>1, <2>2
  <2>3. CASE /\ speed > 0 /\ bucket # NoBucket /\ rate' = [rate EXCEPT ![bucket] = speed]
             /\ update' = "idle" /\ bucket' = bucket
             /\ astray' = (astray \ Holders(bucket)) \cup Holders(NoBucket)
    BY <2>1, <2>3
  <2>4. CASE /\ speed > 0 /\ bucket = NoBucket /\ update' = "make" /\ bucket' = bucket
             /\ astray' = astray \cup Holders(NoBucket)
    BY <2>1, <2>4
  <2>5. QED
    BY <1>8, <2>2, <2>3, <2>4 DEF UpdateBucket
<1>9. CASE MakeBucket
  <2>1. /\ update = "make" /\ update' = "idle" /\ dated' = FALSE /\ speed \notin {0, Unknown}
        /\ bucket' = NewBucket /\ rate' = [rate EXCEPT ![NewBucket] = speed]
        /\ UNCHANGED <<speed, place, want, held>>
        /\ astray' = IF bucket = NoBucket THEN astray ELSE astray \cup Holders(bucket)
    BY <1>9 DEF MakeBucket
  <2>2. rate'[bucket'] = speed
    BY <2>1, NewBucketExists
  <2>3. \A d \in Streams \ astray' : place[d] # "open"
    BY <2>1
  <2>4. QED
    BY <2>1, <2>2, <2>3
<1>10. CASE ForgetSpeed
  <2>1. PICK closed \in SUBSET {c \in Streams : place[c] = "open"} :
          /\ place' = [c \in Streams |-> IF c \in closed THEN "none" ELSE place[c]]
          /\ astray' = {c \in Streams : place[c] = "open"} \ closed
    BY <1>10 DEF ForgetSpeed
  <2>2. speed' = Unknown /\ bucket' = NoBucket /\ update' = "idle"
    BY <1>10 DEF ForgetSpeed
  <2>3. \A c \in Streams : place'[c] = "open" => c \in astray'
    BY <2>1
  <2>4. QED
    BY <2>2, <2>3
<1>11. QED
  BY <1>1, <1>2, <1>3, <1>4, <1>5, <1>6, <1>7, <1>8, <1>9, <1>10 DEF SpeedNext

(* Every variable of SpeedLimit keeps to its range.                        *)
THEOREM SpeedTypeCorrect == SpeedSpec => []SpeedTypeOK
<1>1. SpeedShape => SpeedTypeOK
  BY DEF SpeedShape
<1>2. QED
  BY <1>1, SpeedShapeInit, SpeedShapeStep, PTL DEF SpeedSpec

(* Open connections follow the user's limit but for those that went astray *)
(* in one of the known ways (limiter.go).                                  *)
THEOREM LimitIsFollowed == SpeedSpec => []LimitFollows
<1>1. SpeedShape /\ InReach => LimitFollows
  BY SpeedsAssumption DEF SpeedShape, InReach, LimitFollows
<1>2. QED
  BY <1>1, SpeedShapeInit, SpeedShapeStep, InReachStep, PTL DEF SpeedSpec

(* NodeSettings.                                                           *)

(* Nodes with the same fingerprint differ only in their intervals.         *)
LEMMA SameFingerprint ==
  ASSUME NEW m \in NodeInfos, NEW n \in NodeInfos, CoreFingerprint(m) = CoreFingerprint(n)
  PROVE  /\ m.type = n.type /\ m.tls = n.tls /\ m.security = n.security /\ m.mode = n.mode
         /\ m.odd = n.odd /\ m.network = n.network /\ m.settings = n.settings
  BY DEF NodeInfos, CoreFingerprint, Requested, Decode

LEMMA SameController ==
  ASSUME NEW m \in NodeInfos, NEW n \in NodeInfos, CoreFingerprint(m) = CoreFingerprint(n)
  PROVE  /\ buildInbound(m) = buildInbound(n) /\ Wanted(m) = Wanted(n) /\ Renews(m) = Renews(n)
         /\ Preparable(m) <=> Preparable(n)
<1> USE SameFingerprint
<1>1. Transport(m) = Transport(n) /\ Secured(m) = Secured(n)
  BY DEF Transport, Secured, Networked, Streamless, Named
<1>2. QED
  BY <1>1 DEF buildInbound, Wanted, Renews, Preparable, Named

(* What requestCert does to a node.                                        *)
LEMMA RequestedNode ==
  ASSUME NEW a \in Told
  PROVE  LET d == Decode(a)
             n == Requested(d) IN
         /\ d \in NodeInfos /\ n \in NodeInfos
         /\ n.security = d.security /\ n.mode = d.mode
         /\ Preparable(n) <=> Preparable(d)
         /\ n.security = Tls => n.odd = FALSE
         /\ n # d => a.odd
         /\ d.security # Tls \/ d.odd = FALSE => n = d
  BY ToldAssumption DEF NodeInfos, Requested, Decode, Preparable

LEMMA SettingsInitial == SettingsInit => SettingsShape /\ Pursued
  BY DEF SettingsInit, SettingsShape, Pursued, Told

(* A controller starts with a prepared node.                               *)
LEMMA StartShape ==
  ASSUME SettingsShape, NEW a \in Told, ~a.refused, Preparable(Decode(a)),
         StartPrepared(Requested(Decode(a))), hash' = a, good' = a, life' = "up",
         next' = NoNode, event' = event, lost' \in BOOLEAN, answer' = answer
  PROVE  SettingsShape' /\ Pursued'
<1> DEFINE n == Requested(Decode(a))
<1>1. /\ n \in NodeInfos /\ Preparable(n) /\ (n.security = Tls => n.odd = FALSE)
  BY RequestedNode
<1>2. /\ info' = n /\ mark' = CoreFingerprint(n) /\ inbound' = buildInbound(n)
      /\ ensured' = Wanted(n) /\ renewing' = Renews(n)
  BY DEF StartPrepared
<1> HIDE DEF n
<1>3. SettingsShape'
  BY <1>1, <1>2 DEF SettingsShape
<1>4. info' = Requested(Decode(good')) /\ ~Behind'
  BY <1>2 DEF Behind, n
<1>5. QED
  BY <1>3, <1>4 DEF Pursued

LEMMA SettingsStep == SettingsShape /\ Pursued /\ [SettingsNext]_settingsVars => SettingsShape' /\ Pursued'
<1> SUFFICES ASSUME SettingsShape, Pursued, [SettingsNext]_settingsVars
             PROVE  SettingsShape' /\ Pursued'
  OBVIOUS
<1> USE DEF client, running, prepared
<1>1. CASE UNCHANGED settingsVars
  BY <1>1 DEF settingsVars, SettingsShape, Pursued, Behind
<1>2. ASSUME NEW a \in Changes, PanelChanges(a) PROVE SettingsShape' /\ Pursued'
  BY <1>2 DEF PanelChanges, SettingsShape, Pursued, Behind, Told
<1>3. CASE StartNode
  <2>1. Preparable(Decode(answer))
    BY <1>3, RequestedNode DEF StartNode, SettingsShape
  <2>2. QED
    BY <1>3, <2>1, StartShape DEF StartNode, SettingsShape
<1>4. CASE LearnRefused
  BY <1>4 DEF LearnRefused, SettingsShape, Pursued, Behind
<1>5. CASE LearnCore
  <2>1. SettingsShape'
    BY <1>5 DEF LearnCore, SettingsShape
  <2>2. event' # "none"
    BY <1>5 DEF LearnCore
  <2>3. CoreFingerprint(Decode(answer)) # mark /\ good' = answer /\ answer \in Told /\ mark' = mark
    BY <1>5 DEF LearnCore, SettingsShape
  <2>4. ~Behind' => Requested(Decode(answer)) # Decode(answer)
    BY <2>3 DEF Behind
  <2>5. QED
    BY <2>1, <2>2, <2>3, <2>4, RequestedNode DEF Pursued
<1>6. CASE LearnIntervals
  <2> DEFINE n == Decode(answer)
  <2>1. /\ life # "down" /\ answer \in Told /\ n \in NodeInfos /\ info \in NodeInfos
        /\ CoreFingerprint(n) = CoreFingerprint(info)
    BY <1>6, RequestedNode DEF LearnIntervals, SettingsShape
  <2>2. SettingsShape'
    BY <1>6, <2>1, SameFingerprint, SameController DEF LearnIntervals, SettingsShape
  <2>3. Requested(n) = n
    <3>1. n.security = info.security /\ n.odd = info.odd
      BY <2>1, SameFingerprint
    <3>2. n.security # Tls \/ n.odd = FALSE
      BY <2>1, <3>1 DEF SettingsShape
    <3>3. QED
      BY <2>1, <3>2, RequestedNode
  <2>4. info' = Requested(Decode(good')) /\ ~Behind'
    BY <1>6, <2>1, <2>3 DEF LearnIntervals, Behind, SettingsShape
  <2>5. QED
    BY <2>2, <2>4 DEF Pursued
<1>7. CASE OtherEvent
  BY <1>7 DEF OtherEvent, SettingsShape, Pursued, Behind
<1>8. CASE PrepareReload
  BY <1>8, RequestedNode DEF PrepareReload, SettingsShape, Pursued, Behind
<1>9. ASSUME Gone, answer' = answer PROVE SettingsShape' /\ Pursued'
  BY <1>9 DEF Gone, SettingsShape, Pursued
<1>10. CASE LoadFails \/ PrepareFails
  <2>1. CASE event' = "none" /\ lost' = Behind /\ UNCHANGED <<life, client, running, prepared>>
    BY <1>10, <2>1 DEF LoadFails, PrepareFails, SettingsShape, Pursued, Behind
  <2>2. QED
    BY <1>9, <1>10, <2>1 DEF LoadFails, PrepareFails
<1>11. CASE SkipReload
  BY <1>11 DEF SkipReload, SettingsShape, Pursued, Behind
<1>12. CASE ReplaceNode
  <2>1. CASE Buildable(next)
    <3>1. asked \in Told /\ ~asked.refused /\ next = Requested(Decode(asked))
          /\ Preparable(Decode(asked))
      BY <1>12, RequestedNode DEF ReplaceNode, SettingsShape
    <3>2. QED
      BY <1>12, <2>1, <3>1, StartShape DEF ReplaceNode
  <2>2. QED
    BY <1>9, <1>12, <2>1 DEF ReplaceNode
<1>13. QED
  BY <1>1, <1>2, <1>3, <1>4, <1>5, <1>6, <1>7, <1>8, <1>10, <1>11, <1>12 DEF SettingsNext

LEMMA SettingsShapeIsType == SettingsShape => SettingsTypeOK
<1> SUFFICES ASSUME SettingsShape PROVE SettingsTypeOK
  OBVIOUS
<1>1. CASE life = "down"
  BY <1>1 DEF SettingsShape, SettingsTypeOK
<1>2. CASE life # "down"
  <2>1. NoNode \notin {hash, good, info, mark, inbound}
    BY <1>2, NoNodeAssumption DEF SettingsShape
  <2>2. info.security \in {NoTls, Tls, Reality, info.tls}
    <3>1. PICK a \in Told : info \in {Decode(a), Requested(Decode(a))}
      BY <1>2 DEF SettingsShape, NodeInfos
    <3>2. /\ info.security = EffectiveSecurity(a.protocol, flexibleInt(a.tls))
          /\ info.tls = flexibleInt(a.tls)
      BY <3>1 DEF Requested, Decode
    <3>3. QED
      BY <3>2 DEF EffectiveSecurity
  <2>3. (next # NoNode) <=> (life = "prepared")
    <3>1. ASSUME life = "prepared" PROVE next \in NodeInfos
      <4>1. asked \in Told /\ next = Requested(Decode(asked))
        BY <3>1 DEF SettingsShape
      <4>2. QED
        BY <4>1 DEF NodeInfos
    <3>2. \A n \in NodeInfos : n # NoNode
      BY NoNodeAssumption
    <3>3. QED
      BY <3>1, <3>2 DEF SettingsShape
  <2>4. QED
    BY <1>2, <2>1, <2>2, <2>3 DEF SettingsShape, SettingsTypeOK
<1>3. QED
  BY <1>1, <1>2

(* Nodes are there when the program is up, and the fingerprint a           *)
(* controller keeps is that of its node.                                   *)
THEOREM SettingsTypeCorrect == SettingsSpec => []SettingsTypeOK
  BY SettingsInitial, SettingsStep, SettingsShapeIsType, PTL DEF SettingsSpec

(* However the panel spells the mode, the three places that read it agree: *)
(* an inbound with TLS serves a certificate that was requested, and ACME's *)
(* are renewed (cert.go, inbound.go, task.go).                             *)
THEOREM TlsIsServed == SettingsSpec => []TlsServed
<1>1. ASSUME SettingsShape PROVE TlsServed
  <2>1. SUFFICES ASSUME life # "down"
                 PROVE  /\ inbound.secured = "tls" <=> ensured \notin {"", "none"}
                        /\ renewing <=> ensured \in {"auto", "dns", "http"}
                        /\ Wanted(info) = ensured
    BY DEF TlsServed
  <2>2. /\ Preparable(info) /\ (info.security = Tls => info.odd = FALSE)
        /\ inbound.secured = Secured(info) /\ ensured = Wanted(info) /\ renewing = Renews(info)
    BY <2>1, <1>1 DEF SettingsShape, buildInbound
  <2>3. QED
    <3>1. CASE info.security = Tls
      <4>1. info.odd = FALSE /\ info.mode \in Modes /\ ensured = info.mode
        BY <2>2, <3>1 DEF Preparable, Wanted
      <4>2. inbound.secured = "tls" <=> info.mode \notin {"", "none"}
        <5>1. Named(info, {"none", ""}) <=> info.mode \in {"none", ""}
          BY <4>1 DEF Named
        <5>2. info.security # Reality
          BY <3>1 DEF Tls, Reality
        <5>3. CASE Named(info, {"none", ""})
          <6>1. Secured(info) = "no"
            BY <5>2, <5>3 DEF Secured
          <6>2. QED
            BY <2>2, <5>1, <5>3, <6>1
        <5>4. CASE ~Named(info, {"none", ""})
          <6>1. Secured(info) = "tls"
            BY <3>1, <5>2, <5>4 DEF Secured
          <6>2. QED
            BY <2>2, <5>1, <5>4, <6>1
        <5>5. QED
          BY <5>3, <5>4
      <4>3. renewing <=> info.mode \notin {"none", "", "file", "self"}
        BY <2>2, <3>1, <4>1 DEF Renews, Named
      <4>4. QED
        BY <2>2, <4>1, <4>2, <4>3 DEF Modes
    <3>2. CASE info.security # Tls
      <4>1. ensured = "" /\ inbound.secured # "tls"
        BY <2>2, <3>2 DEF Wanted, Secured
      <4>2. renewing = FALSE
        BY <2>2, <3>2 DEF Renews
      <4>3. QED
        BY <2>2, <4>1, <4>2
    <3>3. QED
      BY <3>1, <3>2
<1>2. QED
  BY <1>1, SettingsInitial, SettingsStep, PTL DEF SettingsSpec

(* The node runs what its controller has last read from the panel, but for *)
(* an answer whose reload kept the old runtime, its own included, because  *)
(* the file could not be loaded, the preparation failed or a later answer  *)
(* was read, and the intervals of one that spells the certificate oddly    *)
(* (task.go, server.go).                                                   *)
THEOREM AnswersFollowed == SettingsSpec => []Followed
<1>1. ASSUME SettingsShape, Pursued PROVE Followed
  <2> DEFINE told == Requested(Decode(good))
  <2>1. SUFFICES ASSUME life = "up", event = "none", ~lost
                 PROVE  /\ CoreFingerprint(told) = CoreFingerprint(info)
                        /\ inbound = buildInbound(told)
                        /\ good.odd \/ told = info
    BY DEF Followed
  <2>2. /\ good \in Told /\ info \in NodeInfos
        /\ mark = CoreFingerprint(info) /\ inbound = buildInbound(info)
    BY <1>1, <2>1 DEF SettingsShape
  <2>3. ~Behind /\ (good.odd \/ info = told)
    BY <1>1, <2>1 DEF Pursued
  <2>4. told \in NodeInfos /\ CoreFingerprint(told) = mark
    BY <2>2, <2>3, RequestedNode DEF Behind
  <2>5. QED
    BY <2>2, <2>3, <2>4, SameController
<1>2. QED
  BY <1>1, SettingsInitial, SettingsStep, PTL DEF SettingsSpec

----------------------------------------------------------------------------

----------------------------------------------------------------------------
(* Routing.                                                                *)

(* A set of numbers that is not empty has a least one.                     *)
LEMMA Least ==
  ASSUME NEW S \in SUBSET Nat, S # {}
  PROVE  \E i \in S : \A j \in S : i <= j
<1>1. PICK R : IsWellFoundedOn(R, Nat) /\ \A i, j \in Nat : j < i => <<j, i>> \in R
  <2>1. \A i, j \in Nat : j < i => <<j, i>> \in OpToRel(<, Nat)
    BY DEF OpToRel
  <2>2. QED
    BY <2>1, NatLessThanWellFounded, Zenon
<1>2. PICK i \in S : \A j \in S : <<j, i>> \notin R
  BY <1>1, WFMin
<1>3. ASSUME NEW j \in S PROVE i <= j
  <2>1. i \in Nat /\ j \in Nat /\ ~(j < i)
    BY <1>1, <1>2
  <2>2. QED
    BY <2>1, SMT
<1>4. QED
  BY <1>3

(* The first rule that applies is one of them.                             *)
LEMMA Picked ==
  ASSUME NEW cfg, Sound(cfg), NEW n, NEW k, Ruled(cfg, n, k)
  PROVE  /\ PickRoute(cfg, n, k) \in Applying(cfg, n, k)
         /\ \A j \in Applying(cfg, n, k) : PickRoute(cfg, n, k) <= j
<1>1. Applying(cfg, n, k) \in SUBSET Nat /\ Applying(cfg, n, k) # {}
  <2>1. DOMAIN cfg.rules = 1..Len(cfg.rules) /\ Len(cfg.rules) \in Nat
    BY LenProperties DEF Sound, Configs
  <2>2. QED
    BY <2>1 DEF Ruled, Applying
<1>2. \E i \in Applying(cfg, n, k) : \A j \in Applying(cfg, n, k) : i <= j
  BY <1>1, Least
<1>3. QED
  BY <1>2, Zenon DEF PickRoute

\* What a rule sends connections to.
Targets == {Block} \cup Outbounds \cup {Warp(n) : n \in Nodes}

LEMMA TargetShape ==
  ASSUME NEW o \in Targets
  PROVE  /\ o \in Outs /\ o.tag \in Tags /\ o.builds \in BOOLEAN
         /\ o.tag \notin {"Default", "dns_out", "closed"}
<1>1. CASE o = Block
  BY <1>1 DEF Outs, Tags, Block
<1>2. CASE o \in Outbounds
  BY <1>2, OutboundAssumption DEF Outs, Tags
<1>3. ASSUME NEW n \in Nodes, o = Warp(n)
      PROVE  /\ o \in Outs /\ o.tag \in Tags /\ o.builds \in BOOLEAN
             /\ o.tag \notin {"Default", "dns_out", "closed"}
  <2>1. o.tag = WarpTag[n] /\ o.builds = TRUE
    BY <1>3 DEF Warp
  <2>2. QED
    BY <1>3, <2>1, OutboundAssumption DEF Outs, Tags
<1>4. QED
  BY <1>1, <1>2, <1>3 DEF Targets

\* new is cfg with a rule at the end.
WithRule(new, cfg, on, kinds, tag) ==
  /\ Len(cfg.rules) \in Nat /\ DOMAIN cfg.rules = 1..Len(cfg.rules)
  /\ DOMAIN new.rules = 1..(Len(cfg.rules) + 1)
  /\ \A i \in 1..Len(cfg.rules) : new.rules[i] = cfg.rules[i]
  /\ new.rules[Len(cfg.rules) + 1] = [on |-> on, kinds |-> kinds, to |-> tag]

\* new is cfg with an outbound unless it does not build or there is one of that tag.
WithOutbound(new, cfg, o) ==
  new.outs = cfg.outs \cup {p \in {o} : o.builds /\ \A q \in cfg.outs : q.tag # o.tag}

LEMMA RuleAdded ==
  ASSUME NEW cfg, Sound(cfg), NEW on \in SUBSET Nodes, NEW kinds \in SUBSET Kinds, NEW tag \in Tags
  PROVE  /\ Sound(AddRule(cfg, on, kinds, tag))
         /\ AddRule(cfg, on, kinds, tag).outs = cfg.outs
         /\ WithRule(AddRule(cfg, on, kinds, tag), cfg, on, kinds, tag)
<1> DEFINE rule == [on |-> on, kinds |-> kinds, to |-> tag]
           longer == Append(cfg.rules, rule)
           new == [cfg EXCEPT !.rules = longer]
<1>1. cfg \in Configs /\ cfg.rules \in Seq(Rules)
  BY DEF Sound, Configs
<1>2. rule \in Rules
  BY DEF Rules
<1>3. new = AddRule(cfg, on, kinds, tag)
  BY DEF AddRule
<1> HIDE DEF rule
<1>4. /\ longer \in Seq(Rules)
      /\ Len(longer) = Len(cfg.rules) + 1
      /\ \A i \in 1..Len(cfg.rules) : longer[i] = cfg.rules[i]
      /\ longer[Len(cfg.rules) + 1] = rule
  BY <1>1, <1>2, AppendProperties
<1> HIDE DEF longer
<1>5. new.rules = longer /\ new.outs = cfg.outs /\ new \in Configs
  BY <1>1, <1>4 DEF Configs
<1> HIDE DEF new
<1>6. Sound(new)
  BY <1>5 DEF Sound
<1>7. /\ Len(cfg.rules) \in Nat /\ DOMAIN cfg.rules = 1..Len(cfg.rules)
      /\ DOMAIN new.rules = 1..(Len(cfg.rules) + 1)
  BY <1>1, <1>4, <1>5, LenProperties
<1>8. WithRule(new, cfg, on, kinds, tag)
  BY <1>4, <1>5, <1>7 DEF WithRule, rule
<1>9. QED
  BY <1>3, <1>5, <1>6, <1>8

LEMMA OutboundAdded ==
  ASSUME NEW cfg, Sound(cfg), NEW o \in Outs, o.builds \in BOOLEAN
  PROVE  /\ Sound(AddOutbound(cfg, o)) /\ AddOutbound(cfg, o).rules = cfg.rules
         /\ WithOutbound(AddOutbound(cfg, o), cfg, o)
<1> DEFINE new == AddOutbound(cfg, o)
<1>1. cfg \in Configs
  BY DEF Sound
<1>2. CASE (\E p \in cfg.outs : p.tag = o.tag) \/ ~o.builds
  BY <1>2 DEF AddOutbound, WithOutbound
<1>3. CASE ~((\E p \in cfg.outs : p.tag = o.tag) \/ ~o.builds)
  <2>1. new.rules = cfg.rules /\ new.outs = cfg.outs \cup {o}
        /\ new = [rules |-> cfg.rules, outs |-> cfg.outs \cup {o}]
    BY <1>1, <1>3 DEF AddOutbound, Configs
  <2>2. Sound(new)
    BY <1>1, <1>3, <2>1 DEF Sound, Configs
  <2>3. QED
    BY <1>3, <2>1, <2>2 DEF WithOutbound
<1>4. QED
  BY <1>2, <1>3

\* new is cfg with a rule for n, and with its outbound.
Gains(new, cfg, n, kinds, o) ==
  Sound(new) /\ WithRule(new, cfg, {n}, kinds, o.tag) /\ WithOutbound(new, cfg, o)

LEMMA TargetAdded ==
  ASSUME NEW cfg, Sound(cfg), NEW n \in Nodes, NEW kinds \in SUBSET Kinds, NEW o \in Targets
  PROVE  Gains(AddTarget(cfg, n, kinds, o), cfg, n, kinds, o)
<1> DEFINE mid == AddRule(cfg, {n}, kinds, o.tag)
           new == AddOutbound(mid, o)
<1>1. o \in Outs /\ o.tag \in Tags /\ o.builds \in BOOLEAN /\ {n} \in SUBSET Nodes
  BY TargetShape
<1>2. Sound(mid) /\ mid.outs = cfg.outs /\ WithRule(mid, cfg, {n}, kinds, o.tag)
  BY <1>1, RuleAdded
<1> HIDE DEF mid
<1>3. Sound(new) /\ new.rules = mid.rules /\ WithOutbound(new, mid, o)
  BY <1>1, <1>2, OutboundAdded
<1> HIDE DEF new
<1>4. Gains(new, cfg, n, kinds, o)
  BY <1>2, <1>3 DEF Gains, WithRule, WithOutbound
<1>5. QED
  BY <1>4 DEF AddTarget, mid, new

LEMMA BlockAdded ==
  ASSUME NEW cfg, Sound(cfg), NEW n \in Nodes, NEW kinds \in SUBSET Kinds
  PROVE  Gains(AddRule(cfg, {n}, kinds, "block"), cfg, n, kinds, Block)
<1> DEFINE new == AddRule(cfg, {n}, kinds, "block")
<1>1. "block" \in Tags /\ {n} \in SUBSET Nodes /\ Block \in cfg.outs /\ Block.tag = "block"
  BY DEF Tags, Sound, Block
<1>2. Sound(new) /\ new.outs = cfg.outs /\ WithRule(new, cfg, {n}, kinds, "block")
  BY <1>1, RuleAdded
<1> HIDE DEF new
<1>3. WithOutbound(new, cfg, Block)
  BY <1>1, <1>2 DEF WithOutbound
<1>4. QED
  BY <1>1, <1>2, <1>3 DEF Gains, new

LEMMA WarpAdded ==
  ASSUME NEW cfg, Sound(cfg), NEW n \in Nodes
  PROVE  Gains(AddRule(AddOutbound(cfg, Warp(n)), {n}, Kinds, WarpTag[n]), cfg, n, Kinds, Warp(n))
<1> DEFINE mid == AddOutbound(cfg, Warp(n))
           new == AddRule(mid, {n}, Kinds, WarpTag[n])
<1>1. /\ Warp(n) \in Outs /\ WarpTag[n] \in Tags /\ Warp(n).builds \in BOOLEAN
      /\ Warp(n).tag = WarpTag[n] /\ {n} \in SUBSET Nodes /\ Kinds \in SUBSET Kinds
  BY DEF Outs, Tags, Warp
<1>2. Sound(mid) /\ mid.rules = cfg.rules /\ WithOutbound(mid, cfg, Warp(n))
  BY <1>1, OutboundAdded
<1> HIDE DEF mid
<1>3. Sound(new) /\ new.outs = mid.outs /\ WithRule(new, mid, {n}, Kinds, WarpTag[n])
  BY <1>1, <1>2, RuleAdded
<1> HIDE DEF new
<1>4. Gains(new, cfg, n, Kinds, Warp(n))
  BY <1>1, <1>2, <1>3 DEF Gains, WithRule, WithOutbound
<1>5. QED
  BY <1>4 DEF mid, new

(* The rules of a node stay in order when a rule of its own comes to both. *)
LEMMA FollowsOwn ==
  ASSUME NEW n, NEW few, NEW all, NEW few2, NEW all2, NEW kinds, NEW tag,
         NEW at, Follows(few, all, n, at),
         WithRule(few2, few, {n}, kinds, tag), WithRule(all2, all, {n}, kinds, tag)
  PROVE  \E at2 \in [DOMAIN few2.rules -> DOMAIN all2.rules] : Follows(few2, all2, n, at2)
<1> DEFINE f == Len(few.rules)
           a == Len(all.rules)
           at2 == [i \in 1..(f + 1) |-> IF i = f + 1 THEN a + 1 ELSE at[i]]
<1> HIDE DEF f, a
<1>1. /\ f \in Nat /\ DOMAIN few.rules = 1..f /\ DOMAIN few2.rules = 1..(f + 1)
      /\ a \in Nat /\ DOMAIN all.rules = 1..a /\ DOMAIN all2.rules = 1..(a + 1)
      /\ \A i \in 1..f : few2.rules[i] = few.rules[i]
      /\ \A i \in 1..a : all2.rules[i] = all.rules[i]
      /\ few2.rules[f + 1] = [on |-> {n}, kinds |-> kinds, to |-> tag]
      /\ all2.rules[a + 1] = [on |-> {n}, kinds |-> kinds, to |-> tag]
  BY DEF WithRule, f, a
<1>2. at \in [1..f -> 1..a]
  BY <1>1 DEF Follows
<1>3. /\ at2 \in [1..(f + 1) -> 1..(a + 1)] /\ at2[f + 1] = a + 1
      /\ \A i \in 1..f : at2[i] = at[i] /\ at[i] \in 1..a
  <2>1. \A i \in 1..f : at[i] \in 1..a /\ i # f + 1 /\ i \in 1..(f + 1)
    BY <1>1, <1>2
  <2>2. \A i \in 1..(f + 1) : i = f + 1 \/ i \in 1..f
    BY <1>1
  <2>3. a + 1 \in 1..(a + 1) /\ f + 1 \in 1..(f + 1) /\ 1..a \subseteq 1..(a + 1)
    BY <1>1
  <2>4. \A i \in 1..(f + 1) : (IF i = f + 1 THEN a + 1 ELSE at[i]) \in 1..(a + 1)
    BY <2>1, <2>2, <2>3
  <2>5. QED
    BY <2>1, <2>3, <2>4
<1> HIDE DEF at2
<1>4. \A i, j \in 1..(f + 1) : i < j => at2[i] < at2[j]
  <2>1. SUFFICES ASSUME NEW i \in 1..(f + 1), NEW j \in 1..(f + 1), i < j
                 PROVE  at2[i] < at2[j]
    OBVIOUS
  <2>2. i \in 1..f
    BY <1>1, <2>1
  <2>3. CASE j = f + 1
    BY <1>1, <1>3, <2>2, <2>3
  <2>4. CASE j \in 1..f
    <3>1. at[i] < at[j]
      BY <1>1, <2>1, <2>2, <2>4 DEF Follows
    <3>2. QED
      BY <1>3, <2>2, <2>4, <3>1
  <2>5. QED
    BY <1>1, <2>3, <2>4
<1>5. ASSUME NEW i \in 1..(f + 1)
      PROVE  /\ n \in few2.rules[i].on /\ n \in all2.rules[at2[i]].on
             /\ few2.rules[i].kinds = all2.rules[at2[i]].kinds
             /\ few2.rules[i].to = all2.rules[at2[i]].to
  <2>1. CASE i = f + 1
    BY <1>1, <1>3, <2>1
  <2>2. CASE i \in 1..f
    <3>1. few2.rules[i] = few.rules[i] /\ all2.rules[at2[i]] = all.rules[at[i]]
      BY <1>1, <1>3, <2>2
    <3>2. QED
      BY <1>1, <2>2, <3>1 DEF Follows
  <2>3. QED
    BY <1>1, <2>1, <2>2
<1>6. ASSUME NEW j \in 1..(a + 1), n \in all2.rules[j].on
      PROVE  \E i \in 1..(f + 1) : at2[i] = j
  <2>1. CASE j = a + 1
    BY <1>1, <1>3, <2>1
  <2>2. CASE j \in 1..a
    <3>1. n \in all.rules[j].on
      BY <1>1, <1>6, <2>2
    <3>2. PICK i \in 1..f : at[i] = j
      BY <1>1, <2>2, <3>1 DEF Follows
    <3>3. QED
      BY <1>1, <1>3, <3>2
  <2>3. QED
    BY <1>1, <2>1, <2>2
<1>7. Follows(few2, all2, n, at2)
  BY <1>1, <1>3, <1>4, <1>5, <1>6 DEF Follows
<1>8. QED
  BY <1>1, <1>3, <1>7

(* And when another node's rule comes to the common list.                  *)
LEMMA FollowsOther ==
  ASSUME NEW n, NEW m, m # n, NEW few, NEW all, NEW all2, NEW kinds, NEW tag,
         NEW at, Follows(few, all, n, at), WithRule(all2, all, {m}, kinds, tag)
  PROVE  \E at2 \in [DOMAIN few.rules -> DOMAIN all2.rules] : Follows(few, all2, n, at2)
<1> DEFINE a == Len(all.rules)
<1>1. /\ a \in Nat /\ DOMAIN all.rules = 1..a /\ DOMAIN all2.rules = 1..(a + 1)
      /\ \A i \in 1..a : all2.rules[i] = all.rules[i]
      /\ all2.rules[a + 1] = [on |-> {m}, kinds |-> kinds, to |-> tag]
  BY DEF WithRule
<1> HIDE DEF a
<1>2. at \in [DOMAIN few.rules -> 1..a]
  BY <1>1 DEF Follows
<1>3. at \in [DOMAIN few.rules -> DOMAIN all2.rules]
  BY <1>1, <1>2
<1>4. ASSUME NEW i \in DOMAIN few.rules
      PROVE  /\ n \in few.rules[i].on /\ n \in all2.rules[at[i]].on
             /\ few.rules[i].kinds = all2.rules[at[i]].kinds
             /\ few.rules[i].to = all2.rules[at[i]].to
  <2>1. all2.rules[at[i]] = all.rules[at[i]]
    BY <1>1, <1>2
  <2>2. QED
    BY <2>1 DEF Follows
<1>5. ASSUME NEW j \in DOMAIN all2.rules, n \in all2.rules[j].on
      PROVE  \E i \in DOMAIN few.rules : at[i] = j
  <2>1. j # a + 1
    BY <1>1, <1>5
  <2>2. j \in 1..a /\ n \in all.rules[j].on
    BY <1>1, <1>5, <2>1
  <2>3. QED
    BY <1>1, <2>2 DEF Follows
<1>6. Follows(few, all2, n, at)
  BY <1>3, <1>4, <1>5 DEF Follows
<1>7. QED
  BY <1>3, <1>6

LEMMA RuledMore ==
  ASSUME NEW n, NEW new, NEW cfg, NEW kinds, NEW tag, WithRule(new, cfg, {n}, kinds, tag)
  PROVE  /\ \A m, k : Ruled(cfg, m, k) => Ruled(new, m, k)
         /\ \A k \in kinds : Ruled(new, n, k)
<1> DEFINE a == Len(cfg.rules)
<1>1. /\ a \in Nat /\ DOMAIN cfg.rules = 1..a /\ DOMAIN new.rules = 1..(a + 1)
      /\ \A i \in 1..a : i \in 1..(a + 1) /\ new.rules[i] = cfg.rules[i]
      /\ a + 1 \in 1..(a + 1)
      /\ new.rules[a + 1] = [on |-> {n}, kinds |-> kinds, to |-> tag]
  BY DEF WithRule
<1> HIDE DEF a
<1>2. ASSUME NEW m, NEW k, Ruled(cfg, m, k) PROVE Ruled(new, m, k)
  BY <1>1, <1>2 DEF Ruled
<1>3. ASSUME NEW k \in kinds PROVE Ruled(new, n, k)
  BY <1>1 DEF Ruled
<1>4. QED
  BY <1>2, <1>3

(* Node n gains a rule and its outbound, in the common lists and its own.  *)
LEMMA Gained ==
  ASSUME RouteShape, Embedded, node \in Nodes, NEW kinds \in SUBSET Kinds,
         NEW o \in {Block} \cup Outbounds \cup {Warp(node)},
         Gains(config', config, node, kinds, o),
         Gains(solo'[node], solo[node], node, kinds, o),
         \A m \in Nodes \ {node} : solo'[m] = solo[m] /\ named'[m] = named[m],
         named[node] \subseteq named'[node], o \in Outbounds => o.tag \in named'[node]
  PROVE  /\ Sound(config') /\ \A m \in Nodes : Sound(solo'[m])
         /\ Embedded'
         /\ \A m, k : Ruled(config, m, k) => Ruled(config', m, k)
         /\ \A k \in kinds : Ruled(config', node, k)
         /\ \A i \in DOMAIN config'.rules : config'.rules[i].to = "dns_out"
              => i \in DOMAIN config.rules /\ config'.rules[i] = config.rules[i]
<1>1. /\ Sound(config') /\ WithRule(config', config, {node}, kinds, o.tag)
      /\ WithOutbound(config', config, o)
      /\ Sound(solo'[node]) /\ WithRule(solo'[node], solo[node], {node}, kinds, o.tag)
      /\ WithOutbound(solo'[node], solo[node], o)
      /\ Sound(config) /\ \A m \in Nodes : Sound(solo[m])
  BY DEF Gains, RouteShape
<1>2. \A m \in Nodes : Sound(solo'[m])
  BY <1>1
<1>3. o \in Targets
  BY DEF Targets
<1>4. ASSUME NEW m \in Nodes
      PROVE  \E at \in [DOMAIN solo'[m].rules -> DOMAIN config'.rules] :
               Follows(solo'[m], config', m, at)
  <2>1. PICK at : Follows(solo[m], config, m, at)
    BY DEF Embedded
  <2>2. CASE m = node
    BY <1>1, <2>1, <2>2, FollowsOwn
  <2>3. CASE m # node
    BY <1>1, <2>1, <2>3, FollowsOther
  <2>4. QED
    BY <2>2, <2>3
<1>5. ASSUME NEW i \in DOMAIN config'.rules
      PROVE  \/ i \in DOMAIN config.rules /\ config'.rules[i] = config.rules[i]
             \/ config'.rules[i] = [on |-> {node}, kinds |-> kinds, to |-> o.tag]
  BY <1>1 DEF WithRule
<1>6. ASSUME NEW m \in Nodes, NEW i \in DOMAIN config'.rules, m \in config'.rules[i].on
      PROVE  config'.rules[i].to \in {"block", "dns_out", WarpTag[m]} \cup named'[m]
  <2>1. CASE i \in DOMAIN config.rules /\ config'.rules[i] = config.rules[i]
    <3>1. config'.rules[i].to \in {"block", "dns_out", WarpTag[m]} \cup named[m]
      BY <1>6, <2>1 DEF Embedded
    <3>2. named[m] \subseteq named'[m]
      OBVIOUS
    <3>3. QED
      BY <3>1, <3>2
  <2>2. CASE config'.rules[i] = [on |-> {node}, kinds |-> kinds, to |-> o.tag]
    <3>1. m = node /\ config'.rules[i].to = o.tag
      BY <1>6, <2>2
    <3>2. o.tag \in {"block", WarpTag[node]} \cup named'[node]
      BY DEF Block, Warp
    <3>3. QED
      BY <3>1, <3>2
  <2>3. QED
    BY <1>5, <2>1, <2>2
<1>7. ASSUME NEW m \in Nodes PROVE Foreign(m) \subseteq Foreign(m)'
  <2>1. \A l \in Nodes : named[l] \subseteq named'[l]
    OBVIOUS
  <2>2. QED
    BY <2>1 DEF Foreign
<1>8. ASSUME NEW m \in Nodes, NEW p \in Outs, p.tag \notin Foreign(m)'
      PROVE  p \in config'.outs <=> p \in solo'[m].outs
  <2>1. \A q \in Outs : q.tag = p.tag => (q \in config.outs <=> q \in solo[m].outs)
    BY <1>7, <1>8 DEF Embedded
  <2>2. CASE m = node
    <3>1. CASE p # o
      BY <1>1, <2>1, <2>2, <3>1 DEF WithOutbound
    <3>2. CASE p = o
      <4>1. (\E q \in config.outs : q.tag = o.tag) <=> (\E q \in solo[m].outs : q.tag = o.tag)
        <5>1. config.outs \subseteq Outs /\ solo[m].outs \subseteq Outs
          BY <1>1 DEF Sound, Configs
        <5>2. QED
          BY <2>1, <3>2, <5>1
      <4>2. QED
        BY <1>1, <2>1, <2>2, <3>2, <4>1 DEF WithOutbound
    <3>3. QED
      BY <3>1, <3>2
  <2>3. CASE m # node
    <3>1. p # o \/ o = Block
      <4>1. named'[node] \cup {WarpTag[node]} \subseteq Foreign(m)'
        BY <2>3 DEF Foreign
      <4>2. (o \notin Outbounds /\ o # Warp(node)) \/ p # o
        BY <1>8, <4>1 DEF Warp
      <4>3. QED
        BY <4>2
    <3>2. CASE p # o
      BY <1>1, <2>1, <2>3, <3>2 DEF WithOutbound
    <3>3. CASE o = Block
      <4>1. config'.outs = config.outs
        BY <1>1, <3>3 DEF WithOutbound, Sound, Configs
      <4>2. QED
        BY <2>1, <2>3, <4>1
    <3>4. QED
      BY <3>1, <3>2, <3>3
  <2>4. QED
    BY <2>2, <2>3
<1>9. Embedded'
  BY <1>4, <1>6, <1>8 DEF Embedded
<1>10. \A i \in DOMAIN config'.rules : config'.rules[i].to = "dns_out"
         => i \in DOMAIN config.rules /\ config'.rules[i] = config.rules[i]
  <2>1. o.tag # "dns_out"
    BY <1>3, TargetShape
  <2>2. QED
    BY <1>5, <2>1
<1>11. QED
  BY <1>1, <1>2, <1>9, <1>10, RuledMore

\* Nodes without WARP.
Plain(nodes, w) == {n \in nodes : w[n] = "off"}

(* What a build begins with: the built-in outbounds and the rule for DNS.  *)
LEMMA DefaultsShape ==
  ASSUME NEW w \in [Nodes -> {"off", "on"}], NEW nodes \in SUBSET Nodes
  PROVE  /\ Sound(Defaults(nodes, w))
         /\ Defaults(nodes, w).outs = {Direct, Block, DnsOut}
         /\ Plain(nodes, w) = {} => DOMAIN Defaults(nodes, w).rules = {}
         /\ Plain(nodes, w) # {} => DOMAIN Defaults(nodes, w).rules = {1}
         /\ \A i \in DOMAIN Defaults(nodes, w).rules :
              /\ Defaults(nodes, w).rules[i].on = Plain(nodes, w)
              /\ Defaults(nodes, w).rules[i].kinds = {Dns}
              /\ Defaults(nodes, w).rules[i].to = "dns_out"
<1> DEFINE plain == Plain(nodes, w)
           empty == [rules |-> <<>>, outs |-> {Direct, Block, DnsOut}]
<1>1. Sound(empty) /\ empty.outs = {Direct, Block, DnsOut} /\ empty.rules = <<>>
  <2>1. {Direct, Block, DnsOut} \subseteq Outs
    BY DEF Outs
  <2>2. <<>> \in Seq(Rules)
    BY EmptySeq
  <2>3. Direct.tag = "Default" /\ Block.tag = "block" /\ DnsOut.tag = "dns_out"
    BY DEF Direct, Block, DnsOut
  <2>4. \A o, p \in {Direct, Block, DnsOut} : o.tag = p.tag => o = p
    BY <2>3
  <2>5. QED
    BY <2>1, <2>2, <2>4 DEF Sound, Configs
<1>2. Len(empty.rules) = 0 /\ DOMAIN empty.rules = {}
  BY <1>1
<1> HIDE DEF empty
<1>3. plain \in SUBSET Nodes /\ {Dns} \in SUBSET Kinds /\ "dns_out" \in Tags
  BY KindsAssumption DEF Tags, Plain
<1>4. CASE plain = {}
  <2>1. Defaults(nodes, w) = empty
    BY <1>4 DEF Defaults, empty, Plain
  <2>2. QED
    BY <1>1, <1>2, <1>4, <2>1
<1>5. CASE plain # {}
  <2> DEFINE full == AddRule(empty, plain, {Dns}, "dns_out")
  <2>1. Sound(full) /\ full.outs = empty.outs /\ WithRule(full, empty, plain, {Dns}, "dns_out")
    BY <1>1, <1>3, RuleAdded
  <2>2. full = Defaults(nodes, w)
    BY <1>5 DEF Defaults, empty, Plain
  <2> HIDE DEF full
  <2>3. DOMAIN full.rules = {1} /\ full.rules[1] = [on |-> plain, kinds |-> {Dns}, to |-> "dns_out"]
    BY <1>2, <2>1 DEF WithRule
  <2>4. QED
    BY <1>1, <1>5, <2>1, <2>2, <2>3
<1>6. QED
  BY <1>4, <1>5

LEMMA DefaultsFollow ==
  ASSUME NEW w \in [Nodes -> {"off", "on"}], NEW n \in Nodes
  PROVE  \E at \in [DOMAIN Defaults({n}, w).rules -> DOMAIN Defaults(Nodes, w).rules] :
           Follows(Defaults({n}, w), Defaults(Nodes, w), n, at)
<1> DEFINE few == Defaults({n}, w)
           all == Defaults(Nodes, w)
           at == [i \in DOMAIN few.rules |-> 1]
<1>1. /\ Plain({n}, w) = {} => DOMAIN few.rules = {}
      /\ Plain({n}, w) # {} => DOMAIN few.rules = {1}
      /\ \A i \in DOMAIN few.rules :
           few.rules[i].on = Plain({n}, w) /\ few.rules[i].kinds = {Dns} /\ few.rules[i].to = "dns_out"
  BY DefaultsShape
<1>2. /\ Plain(Nodes, w) = {} => DOMAIN all.rules = {}
      /\ Plain(Nodes, w) # {} => DOMAIN all.rules = {1}
      /\ \A i \in DOMAIN all.rules :
           all.rules[i].on = Plain(Nodes, w) /\ all.rules[i].kinds = {Dns} /\ all.rules[i].to = "dns_out"
  BY DefaultsShape
<1> HIDE DEF few, all
<1>3. CASE w[n] = "off"
  <2>1. n \in Plain({n}, w) /\ n \in Plain(Nodes, w)
    BY <1>3 DEF Plain
  <2>2. /\ DOMAIN few.rules = {1} /\ DOMAIN all.rules = {1}
        /\ n \in few.rules[1].on /\ few.rules[1].kinds = {Dns} /\ few.rules[1].to = "dns_out"
        /\ n \in all.rules[1].on /\ all.rules[1].kinds = {Dns} /\ all.rules[1].to = "dns_out"
    BY <1>1, <1>2, <2>1
  <2>3. at \in [DOMAIN few.rules -> DOMAIN all.rules] /\ at[1] = 1
    BY <2>2
  <2> HIDE DEF at
  <2>4. Follows(few, all, n, at)
    BY <2>2, <2>3 DEF Follows
  <2>5. QED
    BY <2>3, <2>4 DEF few, all
<1>4. CASE w[n] # "off"
  <2>1. Plain({n}, w) = {} /\ n \notin Plain(Nodes, w)
    BY <1>4 DEF Plain
  <2>2. DOMAIN few.rules = {} /\ \A i \in DOMAIN all.rules : n \notin all.rules[i].on
    BY <1>1, <1>2, <2>1
  <2>3. at \in [DOMAIN few.rules -> DOMAIN all.rules]
    BY <2>2
  <2> HIDE DEF at
  <2>4. Follows(few, all, n, at)
    BY <2>2, <2>3 DEF Follows
  <2>5. QED
    BY <2>3, <2>4 DEF few, all
<1>5. QED
  BY <1>3, <1>4

LEMMA RouteInitial == RouteInit => RouteShape /\ Covered /\ Embedded
<1> SUFFICES ASSUME RouteInit PROVE RouteShape /\ Covered /\ Embedded
  OBVIOUS
<1>1. /\ warp \in [Nodes -> {"off", "on"}] /\ policy \in [Nodes -> {"block", "direct"}]
      /\ failed = {} /\ node = 1 /\ read = 0
      /\ config = Defaults(Nodes, warp) /\ solo = [n \in Nodes |-> Defaults({n}, warp)]
      /\ \A n \in Nodes : solo[n] = Defaults({n}, warp)
      /\ claimed \in [Nodes -> SUBSET Kinds] /\ \A n \in Nodes : claimed[n] = {}
      /\ named \in [Nodes -> SUBSET {o.tag : o \in Outbounds}] /\ \A n \in Nodes : named[n] = {}
  BY DEF RouteInit
<1>3. Sound(config) /\ \A n \in Nodes : Sound(solo[n]) /\ solo[n].outs = config.outs
  <2>1. Sound(config) /\ config.outs = {Direct, Block, DnsOut}
    BY <1>1, DefaultsShape
  <2>2. ASSUME NEW n \in Nodes PROVE Sound(solo[n]) /\ solo[n].outs = {Direct, Block, DnsOut}
    <3>1. Sound(Defaults({n}, warp)) /\ Defaults({n}, warp).outs = {Direct, Block, DnsOut}
      BY <1>1, DefaultsShape
    <3>2. QED
      BY <1>1, <3>1
  <2>3. QED
    BY <2>1, <2>2
<1>4. node \in 1..(NumNodes + 1) /\ read \in 0..MaxRoutes
  BY <1>1, KindsAssumption
<1>5. RouteShape
  BY <1>1, <1>3, <1>4 DEF RouteShape, Sound
<1>6. \A i \in DOMAIN config.rules :
        config.rules[i].on = Plain(Nodes, warp) /\ config.rules[i].to = "dns_out"
  BY <1>1, DefaultsShape
<1>7. Covered
  <2>1. \A n \in Nodes : ~(n < node)
    BY <1>1, KindsAssumption DEF Nodes
  <2>2. QED
    BY <1>1, <1>6, <2>1 DEF Covered, Plain
<1>8. \A n \in Nodes : \E at \in [DOMAIN solo[n].rules -> DOMAIN config.rules] :
        Follows(solo[n], config, n, at)
  <2>1. SUFFICES ASSUME NEW n \in Nodes
                 PROVE  \E at \in [DOMAIN solo[n].rules -> DOMAIN config.rules] :
                          Follows(solo[n], config, n, at)
    OBVIOUS
  <2>2. solo[n] = Defaults({n}, warp) /\ config = Defaults(Nodes, warp)
    BY <1>1
  <2>3. \E at \in [DOMAIN Defaults({n}, warp).rules -> DOMAIN Defaults(Nodes, warp).rules] :
          Follows(Defaults({n}, warp), Defaults(Nodes, warp), n, at)
    BY <1>1, DefaultsFollow
  <2>4. QED
    BY <2>2, <2>3
<1>10. Embedded
  BY <1>3, <1>6, <1>8 DEF Embedded
<1>11. QED
  BY <1>5, <1>7, <1>10

LEMMA BuildAgainShape == BuildAgain => RouteShape' /\ Covered' /\ Embedded'
<1>1. BuildAgain => RouteInit'
  BY DEF BuildAgain, Begun, RouteInit
<1>2. (RouteInit => RouteShape /\ Covered /\ Embedded)'
  BY RouteInitial, PTL
<1>3. QED
  BY <1>1, <1>2

\* The rule a route makes for its node, if any.
Made(r, w) ==
  \/ r.action = "block"
  \/ r.out # NoValue /\ (r.action = "route" \/ (r.action = "default_out" /\ w = "off"))

LEMMA RouteAdds ==
  ASSUME NEW r \in Routes, NEW w \in {"off", "on"}, NEW n \in Nodes, NEW cfg, Sound(cfg)
  PROVE  /\ r.match \in SUBSET Kinds
         /\ ~Made(r, w) => AddRoute(cfg, n, r, w) = cfg
         /\ Made(r, w) => LET o == IF r.action = "block" THEN Block ELSE r.out IN
              o \in {Block} \cup Outbounds /\ Gains(AddRoute(cfg, n, r, w), cfg, n, r.match, o)
<1>1. /\ r.match \in SUBSET Kinds /\ r.action \in {"dns", "block", "route", "default_out"}
      /\ r.out \in Outbounds \cup {NoValue} /\ (r.action = "default_out" => r.match = Kinds)
  BY DEF Routes
<1>2. CASE ~Made(r, w)
  <2>1. /\ ~(r.action = "block")
        /\ ~(r.action = "route" /\ r.out # NoValue)
        /\ ~(r.action = "default_out" /\ r.out # NoValue /\ w = "off")
    BY <1>2 DEF Made
  <2>2. QED
    BY <1>1, <1>2, <2>1 DEF AddRoute
<1>3. CASE r.action = "block"
  <2>1. AddRoute(cfg, n, r, w) = AddRule(cfg, {n}, r.match, "block")
    BY <1>3 DEF AddRoute
  <2>2. QED
    BY <1>1, <1>3, <2>1, BlockAdded DEF Made
<1>4. CASE Made(r, w) /\ r.action # "block"
  <2>1. r.out \in Outbounds /\ r.out \in Targets /\ (r.action = "route" \/ (r.action = "default_out" /\ w = "off"))
    BY <1>1, <1>4 DEF Made, Targets
  <2>2. AddRoute(cfg, n, r, w) = AddTarget(cfg, n, r.match, r.out)
    BY <1>1, <2>1, OutboundAssumption DEF AddRoute
  <2>3. QED
    BY <1>1, <1>4, <2>1, <2>2, TargetAdded
<1>5. QED
  BY <1>1, <1>2, <1>3, <1>4 DEF Made

LEMMA ReadRouteShape ==
  ASSUME RouteShape, Covered, Embedded, NEW r \in Routes, ReadRoute(r)
  PROVE  RouteShape' /\ Covered' /\ Embedded'
<1> DEFINE new == AddRoute(config, node, r, warp[node])
           own == AddRoute(solo[node], node, r, warp[node])
           o == IF r.action = "block" THEN Block ELSE r.out
<1>1. /\ node \in Nodes /\ read < MaxRoutes /\ read' = read + 1
      /\ config' = new /\ solo' = [solo EXCEPT ![node] = own]
      /\ warp' = warp /\ policy' = policy /\ failed' = failed /\ node' = node
  <2>1. read < (IF node = 1 THEN MaxRoutes ELSE MaxRoutes - 1)
    BY DEF ReadRoute
  <2>2. read < MaxRoutes
    BY <2>1, KindsAssumption DEF RouteShape
  <2>3. QED
    BY <2>2 DEF ReadRoute
<1>2. /\ Sound(config) /\ solo \in [Nodes -> Configs] /\ \A n \in Nodes : Sound(solo[n])
      /\ warp \in [Nodes -> {"off", "on"}] /\ warp[node] \in {"off", "on"}
  BY <1>1 DEF RouteShape
<1>3. r.match \in SUBSET Kinds
  BY <1>1, <1>2, RouteAdds
<1>4. IF Made(r, warp[node]) THEN claimed' = [claimed EXCEPT ![node] = @ \cup r.match]
      ELSE claimed' = claimed /\ named' = named
  <2>1. r.action \in {"dns", "block", "route", "default_out"}
        /\ (r.action = "dns" => r.out = NoValue)
    BY DEF Routes
  <2>2. Made(r, warp[node]) <=> \/ r.action = "block"
                                \/ r.out # NoValue /\ (r.action = "default_out" => warp[node] = "off")
    BY <2>1 DEF Made
  <2>3. QED
    BY <2>2 DEF ReadRoute
<1>5. IF Made(r, warp[node]) /\ r.out # NoValue
      THEN named' = [named EXCEPT ![node] = @ \cup {r.out.tag}] ELSE named' = named
  <2>1. r.action \in {"dns", "block", "route", "default_out"}
        /\ (r.action = "dns" => r.out = NoValue)
    BY DEF Routes
  <2>2. Made(r, warp[node]) <=> \/ r.action = "block"
                                \/ r.out # NoValue /\ (r.action = "default_out" => warp[node] = "off")
    BY <2>1 DEF Made
  <2>3. QED
    BY <2>2 DEF ReadRoute
<1>6. /\ claimed \in [Nodes -> SUBSET Kinds] /\ claimed' \in [Nodes -> SUBSET Kinds]
      /\ named \in [Nodes -> SUBSET {p.tag : p \in Outbounds}]
      /\ named' \in [Nodes -> SUBSET {p.tag : p \in Outbounds}]
      /\ \A m \in Nodes \ {node} : solo'[m] = solo[m] /\ named'[m] = named[m] /\ claimed'[m] = claimed[m]
      /\ solo'[node] = own /\ named[node] \subseteq named'[node]
  <2>1. claimed \in [Nodes -> SUBSET Kinds] /\ named \in [Nodes -> SUBSET {p.tag : p \in Outbounds}]
    BY DEF RouteShape
  <2>2. r.out \in Outbounds \cup {NoValue}
    BY DEF Routes
  <2>3. r.out # NoValue => {r.out.tag} \subseteq {p.tag : p \in Outbounds}
    BY <2>2
  <2>4. solo \in [Nodes -> Configs]
    BY DEF RouteShape
  <2>5. QED
    BY <1>1, <1>2, <1>3, <1>4, <1>5, <2>1, <2>3, <2>4
<1>7. CASE ~Made(r, warp[node])
  <2>1. new = config /\ own = solo[node]
    BY <1>1, <1>2, <1>7, RouteAdds
  <2>2. config' = config /\ solo' = solo /\ claimed' = claimed /\ named' = named
    BY <1>1, <1>2, <1>4, <1>5, <1>7, <2>1
  <2>3. read' \in 0..MaxRoutes
    BY <1>1, KindsAssumption DEF RouteShape
  <2>4. QED
    BY <1>1, <2>2, <2>3 DEF RouteShape, Covered, Embedded, Foreign
<1>8. CASE Made(r, warp[node])
  <2>1. /\ o \in {Block} \cup Outbounds
        /\ Gains(new, config, node, r.match, o) /\ Gains(own, solo[node], node, r.match, o)
    BY <1>1, <1>2, <1>8, RouteAdds
  <2>2. o \in Outbounds => o.tag \in named'[node]
    <3>1. Block.tag \notin {p.tag : p \in Outbounds}
      BY OutboundAssumption DEF Block
    <3>2. ASSUME o \in Outbounds PROVE o = r.out /\ r.out # NoValue
      BY <3>1, <3>2, OutboundAssumption DEF Routes
    <3>3. QED
      BY <1>1, <1>5, <1>6, <1>8, <3>2
  <2> HIDE DEF new, own, o
  <2>3. Gains(config', config, node, r.match, o) /\ Gains(solo'[node], solo[node], node, r.match, o)
    BY <1>1, <1>6, <2>1
  <2>4. /\ Sound(config') /\ \A m \in Nodes : Sound(solo'[m])
        /\ Embedded'
        /\ \A m, k : Ruled(config, m, k) => Ruled(config', m, k)
        /\ \A k \in r.match : Ruled(config', node, k)
        /\ \A i \in DOMAIN config'.rules : config'.rules[i].to = "dns_out"
              => i \in DOMAIN config.rules /\ config'.rules[i] = config.rules[i]
    BY <1>1, <1>3, <1>6, <2>1, <2>2, <2>3, Gained
  <2>5. read' \in 0..MaxRoutes
    BY <1>1, KindsAssumption DEF RouteShape
  <2>6. RouteShape'
    <3>1. own \in Configs
      BY <1>6, <2>1, <1>1, <2>3 DEF Gains, Sound
    <3>2. solo' \in [Nodes -> Configs]
      BY <1>1, <1>2, <3>1
    <3>3. QED
      BY <1>1, <1>6, <2>4, <2>5, <3>2 DEF RouteShape
  <2>7. \A n \in Nodes : \A k \in claimed'[n] : Ruled(config', n, k)
    <3>1. claimed'[node] = claimed[node] \cup r.match
      BY <1>1, <1>4, <1>6, <1>8
    <3>2. QED
      BY <1>6, <2>4, <3>1 DEF Covered
  <2>8. Covered'
    BY <1>1, <2>4, <2>7 DEF Covered
  <2>9. QED
    BY <2>4, <2>6, <2>8
<1>9. QED
  BY <1>7, <1>8

LEMMA EndNodeShape ==
  ASSUME RouteShape, Covered, Embedded, EndNode
  PROVE  RouteShape' /\ Covered' /\ Embedded'
<1>1. /\ node \in Nodes /\ node' = node + 1 /\ read' = 0
      /\ warp' = warp /\ policy' = policy /\ claimed' = claimed /\ named' = named
  BY DEF EndNode
<1>2. PICK built \in (IF warp[node] = "on" THEN BOOLEAN ELSE {FALSE}) :
        IF warp[node] = "off" THEN UNCHANGED <<config, solo, failed>>
        ELSE /\ config' = AddWarp(config, node, built, policy[node])
             /\ solo' = [solo EXCEPT ![node] = AddWarp(@, node, built, policy[node])]
             /\ failed' = IF built THEN failed ELSE failed \cup {node}
  BY DEF EndNode
<1>3. /\ Sound(config) /\ solo \in [Nodes -> Configs] /\ \A n \in Nodes : Sound(solo[n])
      /\ warp \in [Nodes -> {"off", "on"}] /\ warp[node] \in {"off", "on"}
      /\ policy[node] \in {"block", "direct"} /\ failed \subseteq {n \in Nodes : warp[n] = "on"}
  BY <1>1 DEF RouteShape
<1>4. /\ node' \in 1..(NumNodes + 1) /\ read' \in 0..MaxRoutes
      /\ \A n \in Nodes : n < node' => n < node \/ n = node
  BY <1>1, KindsAssumption DEF Nodes
<1>5. CASE warp[node] = "off"
  <2>1. config' = config /\ solo' = solo /\ failed' = failed
    BY <1>2, <1>5
  <2>2. RouteShape'
    BY <1>1, <1>4, <2>1 DEF RouteShape
  <2>3. Covered'
    <3>1. warp[node] # "on"
      BY <1>5
    <3>2. QED
      BY <1>1, <1>4, <2>1, <3>1 DEF Covered
  <2>4. Embedded'
    BY <1>1, <2>1 DEF Embedded, Foreign
  <2>5. QED
    BY <2>2, <2>3, <2>4
<1>6. CASE warp[node] = "on" /\ ~built /\ policy[node] = "direct"
  <2>1. /\ AddWarp(config, node, built, policy[node]) = config
        /\ AddWarp(solo[node], node, built, policy[node]) = solo[node]
    BY <1>6 DEF AddWarp
  <2>2. config' = config /\ solo' = solo /\ failed' = failed \cup {node}
    BY <1>2, <1>3, <1>6, <2>1
  <2>3. RouteShape'
    BY <1>1, <1>3, <1>4, <1>6, <2>2 DEF RouteShape
  <2>4. Covered'
    <3>1. node \in failed' /\ policy'[node] # "block"
      BY <1>1, <1>6, <2>2
    <3>2. failed \subseteq failed'
      BY <2>2
    <3>3. QED
      BY <1>1, <1>4, <2>2, <3>1, <3>2 DEF Covered
  <2>5. Embedded'
    BY <1>1, <2>2 DEF Embedded, Foreign
  <2>6. QED
    BY <2>3, <2>4, <2>5
<1>7. ASSUME warp[node] = "on", NEW o \in {Block, Warp(node)},
             Gains(AddWarp(config, node, built, policy[node]), config, node, Kinds, o),
             Gains(AddWarp(solo[node], node, built, policy[node]), solo[node], node, Kinds, o)
      PROVE  RouteShape' /\ Covered' /\ Embedded'
  <2> DEFINE new == AddWarp(config, node, built, policy[node])
             own == AddWarp(solo[node], node, built, policy[node])
  <2>1. /\ config' = new /\ solo' = [solo EXCEPT ![node] = own]
        /\ failed \subseteq failed' /\ failed' \subseteq failed \cup {node}
    BY <1>2, <1>7
  <2>2. own \in Configs /\ Gains(own, solo[node], node, Kinds, o) /\ Gains(new, config, node, Kinds, o)
    BY <1>7 DEF Gains, Sound
  <2> HIDE DEF new, own
  <2>3. /\ solo' \in [Nodes -> Configs] /\ solo'[node] = own
        /\ \A m \in Nodes \ {node} : solo'[m] = solo[m]
    BY <1>1, <1>3, <2>1, <2>2
  <2>4. o \in {Block} \cup Outbounds \cup {Warp(node)} /\ o \notin Outbounds
    <3>1. o.tag \in {"block", WarpTag[node]}
      BY <1>7 DEF Block, Warp
    <3>2. QED
      BY <1>1, <3>1, OutboundAssumption
  <2>5. /\ Sound(config') /\ \A m \in Nodes : Sound(solo'[m])
        /\ Embedded'
        /\ \A m, k : Ruled(config, m, k) => Ruled(config', m, k)
        /\ \A k \in Kinds : Ruled(config', node, k)
        /\ \A i \in DOMAIN config'.rules : config'.rules[i].to = "dns_out"
              => i \in DOMAIN config.rules /\ config'.rules[i] = config.rules[i]
    BY <1>1, <2>1, <2>2, <2>3, <2>4, Gained
  <2>6. RouteShape'
    BY <1>1, <1>3, <1>4, <1>7, <2>1, <2>3, <2>5 DEF RouteShape
  <2>7. Covered'
    <3>1. \A n \in Nodes : \A k \in claimed'[n] : Ruled(config', n, k)
      BY <1>1, <2>5 DEF Covered
    <3>2. \A i \in DOMAIN config'.rules :
            config'.rules[i].to = "dns_out" => \A n \in config'.rules[i].on : warp'[n] = "off"
      BY <1>1, <2>5 DEF Covered
    <3>3. ASSUME NEW n \in Nodes, n < node', warp'[n] = "on", n \in failed' => policy'[n] = "block",
                 NEW k \in Kinds
          PROVE  Ruled(config', n, k)
      <4>1. CASE n = node
        BY <2>5, <4>1
      <4>2. CASE n < node
        BY <1>1, <2>1, <2>5, <3>3, <4>2 DEF Covered
      <4>3. QED
        BY <1>4, <3>3, <4>1, <4>2
    <3>4. QED
      BY <3>1, <3>2, <3>3 DEF Covered
  <2>8. QED
    BY <2>5, <2>6, <2>7
<1>8. CASE warp[node] = "on" /\ built
  <2>1. \A cfg : AddWarp(cfg, node, built, policy[node])
                   = AddRule(AddOutbound(cfg, Warp(node)), {node}, Kinds, WarpTag[node])
    BY <1>8 DEF AddWarp
  <2>2. /\ Gains(AddWarp(config, node, built, policy[node]), config, node, Kinds, Warp(node))
        /\ Gains(AddWarp(solo[node], node, built, policy[node]), solo[node], node, Kinds, Warp(node))
    BY <1>1, <1>3, <2>1, WarpAdded
  <2>3. QED
    BY <1>7, <1>8, <2>2
<1>9. CASE warp[node] = "on" /\ ~built /\ policy[node] = "block"
  <2>1. \A cfg : AddWarp(cfg, node, built, policy[node]) = AddRule(cfg, {node}, Kinds, "block")
    BY <1>9 DEF AddWarp
  <2>2. /\ Gains(AddWarp(config, node, built, policy[node]), config, node, Kinds, Block)
        /\ Gains(AddWarp(solo[node], node, built, policy[node]), solo[node], node, Kinds, Block)
    BY <1>1, <1>3, <2>1, BlockAdded
  <2>3. QED
    BY <1>7, <1>9, <2>2
<1>10. QED
  BY <1>3, <1>5, <1>6, <1>8, <1>9

LEMMA RouteStep ==
  RouteShape /\ Covered /\ Embedded /\ [RouteNext]_routeVars
    => RouteShape' /\ Covered' /\ Embedded'
<1> SUFFICES ASSUME RouteShape, Covered, Embedded, [RouteNext]_routeVars
             PROVE  RouteShape' /\ Covered' /\ Embedded'
  OBVIOUS
<1>1. CASE UNCHANGED routeVars
  BY <1>1 DEF routeVars, RouteShape, Covered, Embedded, Foreign
<1>2. CASE RouteNext
  BY <1>2, ReadRouteShape, EndNodeShape, BuildAgainShape DEF RouteNext
<1>3. QED
  BY <1>1, <1>2

LEMMA RouteShapeIsType == RouteShape => RouteTypeOK
<1> SUFFICES ASSUME RouteShape PROVE RouteTypeOK
  OBVIOUS
<1>1. ASSUME NEW cfg \in {config} \cup {solo[n] : n \in Nodes}
      PROVE  \A o, p \in cfg.outs : o.tag = p.tag => o = p
  BY DEF RouteShape, Sound
<1>2. QED
  BY <1>1 DEF RouteShape, RouteTypeOK

(* Every variable keeps to its range; tags of outbounds are different.     *)
THEOREM RouteTypeCorrect == RouteSpec => []RouteTypeOK
  BY RouteInitial, RouteStep, RouteShapeIsType, PTL DEF RouteSpec

(* Where a connection goes that a rule applies to.                         *)
LEMMA Dispatched ==
  ASSUME NEW cfg, Sound(cfg), NEW n, NEW k, Ruled(cfg, n, k)
  PROVE  LET i == PickRoute(cfg, n, k)
             d == routedDispatch(cfg, n, k) IN
         /\ i \in DOMAIN cfg.rules /\ n \in cfg.rules[i].on
         /\ \/ d \in cfg.outs /\ d.tag = cfg.rules[i].to
            \/ d = Closed /\ \A o \in cfg.outs : o.tag # cfg.rules[i].to
<1> DEFINE i == PickRoute(cfg, n, k)
           d == routedDispatch(cfg, n, k)
<1>1. i \in Applying(cfg, n, k)
  BY Picked
<1> HIDE DEF i
<1>2. i \in DOMAIN cfg.rules /\ n \in cfg.rules[i].on /\ Applying(cfg, n, k) # {}
  BY <1>1 DEF Applying
<1>3. d = IF \E o \in cfg.outs : o.tag = cfg.rules[i].to
          THEN CHOOSE o \in cfg.outs : o.tag = cfg.rules[i].to ELSE Closed
  BY <1>2 DEF routedDispatch, i
<1> HIDE DEF d
<1>4. CASE \E o \in cfg.outs : o.tag = cfg.rules[i].to
  <2>1. d = CHOOSE o \in cfg.outs : o.tag = cfg.rules[i].to
    BY <1>3, <1>4
  <2>2. d \in cfg.outs /\ d.tag = cfg.rules[i].to
    BY <1>4, <2>1
  <2>3. QED
    BY <1>2, <2>2 DEF i, d
<1>5. CASE ~\E o \in cfg.outs : o.tag = cfg.rules[i].to
  BY <1>2, <1>3, <1>5 DEF i, d
<1>6. QED
  BY <1>4, <1>5

(* Rules send connections to no built-in outbound but "block" and DNS.     *)
LEMMA RuleTargets ==
  ASSUME RouteShape, NEW i \in DOMAIN config.rules
  PROVE  config.rules[i].to \notin {"Default", "closed"}
<1>1. config.rules \in Seq(Rules) /\ i \in 1..Len(config.rules)
  BY LenProperties DEF RouteShape, Sound, Configs
<1>2. config.rules[i] \in Rules
  BY <1>1, ElementOfSeq
<1>3. config.rules[i].to \in Tags
  BY <1>2 DEF Rules
<1>4. QED
  BY <1>3, OutboundAssumption DEF Tags

(* No connection leaves directly that was to go elsewhere: not one that a  *)
(* route of its node names, even if the outbound could not be built, and   *)
(* none of a node with WARP unless WARP failed and its policy is "direct". *)
THEOREM NothingLeaks == RouteSpec => []NoLeak
<1>1. ASSUME RouteShape, Covered PROVE NoLeak
  <2>1. ASSUME NEW n \in Nodes, NEW k \in Kinds, Ruled(config, n, k)
        PROVE  /\ routedDispatch(config, n, k) # Direct
               /\ warp[n] # "off" => routedDispatch(config, n, k) # DnsOut
    <3> DEFINE i == PickRoute(config, n, k)
               d == routedDispatch(config, n, k)
    <3>1. /\ i \in DOMAIN config.rules /\ n \in config.rules[i].on
          /\ \/ d \in config.outs /\ d.tag = config.rules[i].to
             \/ d = Closed /\ \A o \in config.outs : o.tag # config.rules[i].to
      BY <1>1, <2>1, Dispatched DEF RouteShape
    <3> HIDE DEF i, d
    <3>2. config.rules[i].to \notin {"Default", "closed"}
      BY <1>1, <3>1, RuleTargets
    <3>3. /\ Direct.tag = "Default" /\ DnsOut.tag = "dns_out" /\ Closed.tag = "closed"
      BY DEF Direct, DnsOut, Closed
    <3>4. config.rules[i].to = "dns_out" => warp[n] = "off"
      BY <1>1, <3>1 DEF Covered
    <3>5. d # Direct /\ (warp[n] # "off" => d # DnsOut)
      BY <3>1, <3>2, <3>3, <3>4
    <3>6. QED
      BY <3>5 DEF d
  <2>2. SUFFICES ASSUME Built, NEW n \in Nodes, NEW k \in Kinds
                 PROVE  /\ k \in claimed[n] => routedDispatch(config, n, k) # Direct
                        /\ warp[n] = "on" /\ (n \in failed => policy[n] = "block")
                             => routedDispatch(config, n, k) \notin {Direct, DnsOut}
    BY DEF NoLeak
  <2>3. n < node
    BY <1>1, <2>2, KindsAssumption DEF Built, RouteShape, Nodes
  <2>4. k \in claimed[n] => Ruled(config, n, k)
    BY <1>1 DEF Covered
  <2>5. warp[n] = "on" /\ (n \in failed => policy[n] = "block") => Ruled(config, n, k)
    BY <1>1, <2>3 DEF Covered
  <2>6. QED
    BY <2>1, <2>4, <2>5
<1>2. QED
  BY <1>1, RouteInitial, RouteStep, PTL DEF RouteSpec

(* The first rule for a connection is, alone and among all nodes, the same.*)
LEMMA SamePick ==
  ASSUME NEW few, Sound(few), NEW all, Sound(all), NEW n, NEW k, Ruled(all, n, k),
         NEW at, Follows(few, all, n, at)
  PROVE  /\ Ruled(few, n, k)
         /\ few.rules[PickRoute(few, n, k)].to = all.rules[PickRoute(all, n, k)].to
<1> DEFINE p == PickRoute(all, n, k)
           q == PickRoute(few, n, k)
<1>1. p \in Applying(all, n, k) /\ \A j \in Applying(all, n, k) : p <= j
  BY Picked
<1>2. PICK i \in DOMAIN few.rules : at[i] = p
  BY <1>1 DEF Applying, Follows
<1>3. i \in Applying(few, n, k)
  BY <1>1, <1>2 DEF Applying, Follows
<1>4. Ruled(few, n, k)
  BY <1>3 DEF Applying, Ruled
<1>5. q \in Applying(few, n, k) /\ \A j \in Applying(few, n, k) : q <= j
  BY <1>4, Picked
<1> HIDE DEF p, q
<1>6. at[q] \in Applying(all, n, k) /\ few.rules[q].to = all.rules[at[q]].to /\ q \in DOMAIN few.rules
  BY <1>5 DEF Applying, Follows
<1>7. /\ DOMAIN few.rules \subseteq Nat /\ DOMAIN all.rules \subseteq Nat
  <2>1. DOMAIN few.rules = 1..Len(few.rules) /\ DOMAIN all.rules = 1..Len(all.rules)
    BY LenProperties DEF Sound, Configs
  <2>2. Len(few.rules) \in Nat /\ Len(all.rules) \in Nat
    BY LenProperties DEF Sound, Configs
  <2>3. QED
    BY <2>1, <2>2
<1>8. q <= i /\ p <= at[q]
  BY <1>1, <1>3, <1>5, <1>6
<1>9. q \in Nat /\ i \in Nat /\ at[q] \in Nat /\ p \in Nat
  BY <1>1, <1>2, <1>6, <1>7 DEF Applying
<1>10. q < i => at[q] < at[i]
  BY <1>2, <1>6 DEF Follows
<1>11. q = i
  BY <1>2, <1>8, <1>9, <1>10
<1>12. QED
  BY <1>2, <1>4, <1>6, <1>11 DEF p, q

(* The connections of a node go where they would go if it were alone, but  *)
(* for an outbound whose tag another node's routes name too.               *)
THEOREM NodesAreIsolated == RouteSpec => []Isolated
<1>1. ASSUME RouteShape, Embedded PROVE Isolated
  <2>1. SUFFICES ASSUME NEW n \in Nodes, NEW k \in Kinds,
                        \A m \in Nodes \ {n} :
                          config.rules[PickRoute(config, n, k)].to \notin named[m] \cap named[n]
                 PROVE  routedDispatch(config, n, k) = routedDispatch(solo[n], n, k)
    BY DEF Isolated
  <2>2. Sound(config) /\ Sound(solo[n])
    BY <1>1 DEF RouteShape
  <2>3. PICK at : Follows(solo[n], config, n, at)
    BY <1>1 DEF Embedded
  <2>4. CASE ~Ruled(config, n, k)
    <3>1. ~Ruled(solo[n], n, k)
      BY <2>3, <2>4 DEF Ruled, Follows
    <3>2. Applying(config, n, k) = {} /\ Applying(solo[n], n, k) = {}
      BY <2>4, <3>1 DEF Ruled, Applying
    <3>3. QED
      BY <3>2 DEF routedDispatch
  <2>5. CASE Ruled(config, n, k)
    <3> DEFINE i == PickRoute(config, n, k)
               to == config.rules[i].to
               d == routedDispatch(config, n, k)
               e == routedDispatch(solo[n], n, k)
    <3>1. Ruled(solo[n], n, k) /\ solo[n].rules[PickRoute(solo[n], n, k)].to = to
      BY <2>2, <2>3, <2>5, SamePick
    <3>2. /\ i \in DOMAIN config.rules /\ n \in config.rules[i].on
          /\ \/ d \in config.outs /\ d.tag = to
             \/ d = Closed /\ \A o \in config.outs : o.tag # to
      BY <2>2, <2>5, Dispatched
    <3>3. \/ e \in solo[n].outs /\ e.tag = to
          \/ e = Closed /\ \A o \in solo[n].outs : o.tag # to
      BY <2>2, <3>1, Dispatched
    <3>4. \A m \in Nodes \ {n} : to \notin named[m] \cap named[n]
      BY <2>1
    <3> HIDE DEF i, d, e
    <3>5. to \in {"block", "dns_out", WarpTag[n]} \cup named[n]
      BY <1>1, <3>2 DEF Embedded
    <3>6. named \in [Nodes -> SUBSET {o.tag : o \in Outbounds}]
      BY <1>1 DEF RouteShape
    <3>7. ASSUME NEW m \in Nodes \ {n} PROVE to \notin named[m] \cup {WarpTag[m]}
      <4>1. \A t \in named[m] \cup named[n] :
              t \notin {"block", "dns_out"} /\ \A l \in Nodes : t # WarpTag[l]
        BY <3>6, OutboundAssumption
      <4>2. to \notin named[m]
        BY <3>4, <3>5, <4>1
      <4>3. to # WarpTag[m]
        BY <3>5, <4>1, OutboundAssumption
      <4>4. QED
        BY <4>2, <4>3
    <3>8. to \notin Foreign(n)
      BY <3>7 DEF Foreign
    <3>9. \A o \in Outs : o.tag = to => (o \in config.outs <=> o \in solo[n].outs)
      BY <1>1, <3>8 DEF Embedded
    <3>10. config.outs \subseteq Outs /\ solo[n].outs \subseteq Outs
      BY <2>2 DEF Sound, Configs
    <3>11. \A o, p \in config.outs : o.tag = p.tag => o = p
      BY <2>2 DEF Sound
    <3> HIDE DEF to
    <3>12. d = e
      BY <3>2, <3>3, <3>9, <3>10, <3>11
    <3>13. QED
      BY <3>12 DEF d, e
  <2>6. QED
    BY <2>4, <2>5
<1>2. QED
  BY <1>1, RouteInitial, RouteStep, PTL DEF RouteSpec

----------------------------------------------------------------------------
(* The four parts together.                                                *)

\* Every part is in its ranges, also the ones that stay as they are.
ServingShape == SettingsShape /\ Pursued /\ TypeOK /\ Mapped /\ SpeedShape /\ RouteShape
                /\ Covered /\ Embedded

LEMMA PartsStep ==
  [ServingNext]_<<part, settingsVars, vars, speedVars, routeVars>>
    => [SettingsNext]_settingsVars /\ [Next]_vars /\ [SpeedNext]_speedVars /\ [RouteNext]_routeVars
  BY DEF ServingNext

(* The type invariants of the parts hold of the behaviours that TLC        *)
(* explores together.                                                      *)
THEOREM ServingTypeCorrect == ServingSpec => []ServingTypeOK
<1>1. ServingInit => ServingShape
  BY SettingsInitial, DeviceInit, SpeedShapeInit, RouteInitial DEF ServingInit, ServingShape
<1>2. ServingShape /\ [ServingNext]_<<part, settingsVars, vars, speedVars, routeVars>> => ServingShape'
  BY PartsStep, SettingsStep, TypeStep, SpeedShapeStep, RouteStep DEF ServingShape
<1>3. ServingShape => ServingTypeOK
  BY SettingsShapeIsType, RouteShapeIsType DEF ServingShape, ServingTypeOK, SpeedShape
<1>4. QED
  BY <1>1, <1>2, <1>3, PTL DEF ServingSpec

(* A behaviour of the parts together is one of each part, so that what is  *)
(* proved of a part holds of it.                                           *)
THEOREM PartsAreKept == ServingSpec => SettingsSpec /\ Spec /\ SpeedSpec /\ RouteSpec
<1>1. ServingInit => SettingsInit /\ Init /\ SpeedInit /\ RouteInit
  BY DEF ServingInit
<1>2. QED
  BY <1>1, PartsStep, PTL DEF ServingSpec, SettingsSpec, Spec, SpeedSpec, RouteSpec
============================================================================
