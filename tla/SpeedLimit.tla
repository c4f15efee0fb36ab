----------------------------- MODULE SpeedLimit -----------------------------
(***************************************************************************)
(* limiter/limiter.go, the speed half of CheckLimit and UpdateUser, with   *)
(* the buckets of common/rate/writer.go that links write through: how fast *)
(* the connections of one user may be.  Users do not meet here, and one is *)
(* enough.                                                                 *)
(*                                                                         *)
(* SpeedLimiter is loaded and stored in two steps by connections and by    *)
(* the monitor, without a lock.  UpdateUser changes a bucket in place, for *)
(* all connections that hold it, and makes or removes one when the limit   *)
(* comes or goes.  Nothing sets a limit of the node or a dynamic limit     *)
(* (l.SpeedLimit and UpdateDynamicSpeedLimit have no caller), so that the  *)
(* user's own limit is the one that counts.                                *)
(***************************************************************************)
EXTENDS Naturals, FiniteSets

CONSTANTS
  Streams,    \* connections of the user
  Buckets,    \* DynamicBuckets: two more than there are connections
  NoBucket,   \* no bucket
  Speeds,     \* speed limits, none of them negative; 0 is no limit
  Unknown     \* in place of a limit: the limiter has no entry for the user

ASSUME NoBucketAssumption == NoBucket \notin Buckets
ASSUME BucketsAssumption ==
  IsFiniteSet(Streams) /\ IsFiniteSet(Buckets) /\ Cardinality(Buckets) > Cardinality(Streams) + 1
ASSUME SpeedsAssumption == Speeds \subseteq Nat /\ 0 \in Speeds /\ Unknown \notin Speeds

VARIABLES
  speed,      \* UserLimitInfo.SpeedLimit
  bucket,     \* SpeedLimiter: the bucket registered for the user
  rate,       \* what each bucket lets through
  place,      \* where each connection is
  want,       \* the limit it has read
  held,       \* the bucket its writers wait for
  update,     \* where UpdateUser is with the user
  dated,      \* history: the registered bucket was stored for an older limit
  astray      \* history: connections that no change of the limit reaches

speedVars == <<speed, bucket, rate, place, want, held, update, dated, astray>>

Places == {"none", "load", "store", "open"}

\* NewDynamicBucket: one that nobody knows; which, is no matter.
NewBucket == CHOOSE b \in Buckets : b # bucket /\ \A c \in Streams : held[c] # b

\* Open connections that hold bucket b.
Holders(b) == {c \in Streams : place[c] = "open" /\ held[c] = b}

SpeedInit ==
  /\ speed \in Speeds \cup {Unknown}
  /\ bucket = NoBucket
  /\ rate = [b \in Buckets |-> 0]
  /\ place = [c \in Streams |-> "none"]
  /\ want = [c \in Streams |-> 0]
  /\ held = [c \in Streams |-> NoBucket]
  /\ update = "idle"
  /\ dated = FALSE /\ astray = {}

(* CheckLimit reads the limit; without one the connection has no bucket.   *)
ReadLimit(c) ==
  /\ place[c] = "none"
  /\ speed # Unknown
  /\ want' = [want EXCEPT ![c] = speed]
  /\ place' = [place EXCEPT ![c] = IF speed > 0 THEN "load" ELSE "open"]
  /\ UNCHANGED <<speed, bucket, rate, held, update, dated, astray>>

(* SpeedLimiter.Load: the user's bucket, or a new one is to be made.       *)
LoadBucket(c) ==
  /\ place[c] = "load"
  /\ held' = [held EXCEPT ![c] = bucket]
  /\ place' = [place EXCEPT ![c] = IF bucket = NoBucket THEN "store" ELSE "open"]
  /\ astray' = IF bucket # NoBucket /\ dated THEN astray \cup {c} ELSE astray
  /\ UNCHANGED <<speed, bucket, rate, want, update, dated>>

(* SpeedLimiter.Store: in place of a bucket stored since, with the limit   *)
(* the connection has read, even if that is no more the user's.            *)
StoreBucket(c) ==
  /\ place[c] = "store"
  /\ bucket' = NewBucket
  /\ rate' = [rate EXCEPT ![NewBucket] = want[c]]
  /\ held' = [held EXCEPT ![c] = NewBucket]
  /\ place' = [place EXCEPT ![c] = "open"]
  /\ astray' = (IF bucket = NoBucket THEN astray ELSE astray \cup Holders(bucket))
                 \cup (IF want[c] = speed THEN {} ELSE {c})
  /\ dated' = (want[c] # speed)
  /\ UNCHANGED <<speed, want, update>>

(* The connection ends.                                                    *)
EndStream(c) ==
  /\ place[c] = "open"
  /\ place' = [place EXCEPT ![c] = "none"]
  /\ held' = [held EXCEPT ![c] = NoBucket]
  /\ want' = [want EXCEPT ![c] = 0]
  /\ astray' = astray \ {c}
  /\ UNCHANGED <<speed, bucket, rate, update, dated>>

(* UpdateUser, of a modified user: the entry first, with the same speed if *)
(* only the limit of devices has changed.                                  *)
ModifySpeed(s) ==
  /\ update = "idle"
  /\ speed # Unknown
  /\ speed' = s
  /\ update' = "bucket"
  /\ UNCHANGED <<bucket, rate, place, want, held, dated, astray>>

\* A limit that is lifted without removing the bucket.
UpdateBucketKept ==
  /\ update = "bucket"
  /\ IF bucket # NoBucket
     THEN rate' = [rate EXCEPT ![bucket] = speed] /\ update' = "idle"
     ELSE update' = (IF speed > 0 THEN "make" ELSE "idle") /\ UNCHANGED rate
  /\ UNCHANGED <<speed, bucket, place, want, held, dated, astray>>

(* Then the bucket: removed when there is no limit, changed in place when  *)
(* there is one registered, or to be made.  Connections without a bucket,  *)
(* or with one that was removed, are out of reach.                         *)
UpdateBucket ==
  /\ update = "bucket"
  /\ \/ /\ speed = 0
        /\ bucket' = NoBucket
        /\ update' = "idle"
        /\ astray' = IF bucket = NoBucket THEN astray ELSE astray \cup Holders(bucket)
        /\ UNCHANGED rate
     \/ /\ speed > 0 /\ bucket # NoBucket
        /\ rate' = [rate EXCEPT ![bucket] = speed]
        /\ update' = "idle"
        /\ astray' = (astray \ Holders(bucket)) \cup Holders(NoBucket)
        /\ UNCHANGED bucket
     \/ /\ speed > 0 /\ bucket = NoBucket
        /\ update' = "make"
        /\ astray' = astray \cup Holders(NoBucket)
        /\ UNCHANGED <<bucket, rate>>
  /\ dated' = FALSE
  /\ UNCHANGED <<speed, place, want, held>>

(* Store of the monitor's own bucket, in place of one stored since.        *)
MakeBucket ==
  /\ update = "make"
  /\ bucket' = NewBucket
  /\ rate' = [rate EXCEPT ![NewBucket] = speed]
  /\ astray' = IF bucket = NoBucket THEN astray ELSE astray \cup Holders(bucket)
  /\ dated' = FALSE
  /\ update' = "idle"
  /\ UNCHANGED <<speed, place, want, held>>

(* UpdateUser, of a deleted user: entry and bucket are removed.  DelUsers  *)
(* has closed the connections before; those it did not see go on.          *)
ForgetSpeed ==
  /\ update = "idle"
  /\ speed # Unknown
  /\ speed' = Unknown
  /\ bucket' = NoBucket
  /\ \E closed \in SUBSET {c \in Streams : place[c] = "open"} :
       /\ place' = [c \in Streams |-> IF c \in closed THEN "none" ELSE place[c]]
       /\ held' = [c \in Streams |-> IF c \in closed THEN NoBucket ELSE held[c]]
       /\ want' = [c \in Streams |-> IF c \in closed THEN 0 ELSE want[c]]
       /\ astray' = {c \in Streams : place[c] = "open"} \ closed
  /\ dated' = FALSE
  /\ UNCHANGED <<rate, update>>

(* UpdateUser, of an added user: an entry, and whatever bucket a           *)
(* connection from before has left behind.                                 *)
AddSpeed(s) ==
  /\ update = "idle"
  /\ speed = Unknown
  /\ speed' = s
  /\ UNCHANGED <<bucket, rate, place, want, held, update, dated, astray>>

SpeedNext ==
  \/ \E c \in Streams : ReadLimit(c) \/ LoadBucket(c) \/ StoreBucket(c) \/ EndStream(c)
  \/ \E s \in Speeds : ModifySpeed(s) \/ AddSpeed(s)
  \/ UpdateBucket \/ MakeBucket \/ ForgetSpeed

SpeedSpec == SpeedInit /\ [][SpeedNext]_speedVars

----------------------------------------------------------------------------
(* Properties.                                                             *)

(* Every variable keeps to its range, and a bucket is held by open         *)
(* connections only (CheckLimit, limiter.go).                              *)
SpeedTypeOK ==
  /\ speed \in Speeds \cup {Unknown}
  /\ bucket \in Buckets \cup {NoBucket}
  /\ rate \in [Buckets -> Speeds]
  /\ place \in [Streams -> Places]
  /\ want \in [Streams -> Speeds]
  /\ held \in [Streams -> Buckets \cup {NoBucket}]
  /\ update \in {"idle", "bucket", "make"} /\ dated \in BOOLEAN
  /\ astray \subseteq {c \in Streams : place[c] = "open"}
  /\ \A c \in Streams : held[c] # NoBucket => place[c] = "open"

(* Between updates every open connection is as fast as the user's limit    *)
(* now allows, whatever it was when the connection came, unless it went    *)
(* astray: it came when there was no limit, or stored the bucket of an     *)
(* older one (L230) or found such a bucket, or its bucket was overwritten  *)
(* (L121, L230) or removed (L103, L124).                                   *)
LimitFollows ==
  update = "idle" /\ speed # Unknown =>
    \A c \in Streams \ astray :
      place[c] = "open" =>
        IF speed = 0 THEN held[c] = NoBucket
        ELSE held[c] # NoBucket /\ rate[held[c]] = speed

\* Strengthening of SpeedTypeOK: a bucket is looked for if a limit was read, and
\* brought up to date for a user the limiter knows.
SpeedShape ==
  /\ SpeedTypeOK
  /\ \A c \in Streams : place[c] \in {"load", "store"} => want[c] # 0
  /\ update # "idle" => speed # Unknown

\* Strengthening of LimitFollows: a connection that is not astray holds the
\* registered bucket, which is not dated, or came without a limit.
InReach ==
  /\ \A c \in Streams \ astray :
       place[c] = "open" =>
         /\ held[c] # NoBucket => held[c] = bucket /\ ~dated
         /\ held[c] = NoBucket /\ update # "bucket" => speed = 0
  /\ bucket # NoBucket /\ ~dated /\ update = "idle"
       => speed \notin {0, Unknown} /\ rate[bucket] = speed
  /\ update = "make" => speed # 0
  /\ speed = Unknown => \A c \in Streams : place[c] = "open" => c \in astray

============================================================================
