---------------------------- MODULE UpkeepProofs ----------------------------
(***************************************************************************)
(* What is kept in files, for any number of requests and certificates, any *)
(* values of the panel, any registrations and any contents: certificate    *)
(* and key match, a valid certificate is kept and a new one heard of; the  *)
(* WARP identity stays; no content of the configuration file is missed but *)
(* in the known ways.  The inductive invariants are in the modules of the  *)
(* parts, after the properties they strengthen.                            *)
(***************************************************************************)
EXTENDS MCUpkeep, TLAPS

----------------------------------------------------------------------------
(* ConfigWatch.                                                            *)

LEMMA WatchTypeInit == WatchInit => WatchTypeOK
  BY ContentAssumption DEF WatchInit, WatchTypeOK, Contents

LEMMA WatchTypeStep == WatchTypeOK /\ [WatchNext]_watchVars => WatchTypeOK'
<1> SUFFICES ASSUME WatchTypeOK, [WatchNext]_watchVars PROVE WatchTypeOK'
  OBVIOUS
<1> USE ContentAssumption DEF WatchTypeOK, Contents, watcher, applied
<1>1. CASE UNCHANGED watchVars
  BY <1>1 DEF watchVars
<1>2. ASSUME NEW v \in Contents, Write(v) PROVE WatchTypeOK'
  BY <1>2 DEF Write
<1>3. ASSUME NEW v \in Contents, Replace(v) PROVE WatchTypeOK'
  BY <1>3 DEF Replace
<1>4. CASE LoadFromPath
  BY <1>4 DEF LoadFromPath
<1>5. CASE TakeHash
  BY <1>5 DEF TakeHash
<1>6. CASE AddWatch
  BY <1>6 DEF AddWatch
<1>7. CASE HandleEvent
  <2>1. CASE deaf /\ UNCHANGED <<deaf, step>>
    BY <1>7, <2>1 DEF HandleEvent
  <2>2. CASE ~deaf /\ deaf' = TRUE /\ step' = "sleep"
    BY <1>7, <2>2 DEF HandleEvent
  <2>3. QED
    BY <1>7, <2>1, <2>2 DEF HandleEvent
<1>8. CASE HashFile
  BY <1>8 DEF HashFile
<1>9. CASE LoadChanged
  BY <1>9 DEF LoadChanged
<1>10. CASE EndDeaf
  BY <1>10 DEF EndDeaf
<1>11. CASE ReloadFile
  BY <1>11 DEF ReloadFile
<1>12. CASE EndProgram
  BY <1>12 DEF EndProgram
<1>13. QED
  BY <1>1, <1>2, <1>3, <1>4, <1>5, <1>6, <1>7, <1>8, <1>9, <1>10, <1>11, <1>12 DEF WatchNext

(* What the runtime does not run with is attended to at first (nothing     *)
(* runs) and after every step.                                             *)
LEMMA AttendedStep == WatchTypeOK /\ Attended /\ [WatchNext]_watchVars => Attended'
<1> SUFFICES ASSUME WatchTypeOK, Attended, [WatchNext]_watchVars PROVE Attended'
  OBVIOUS
<1> USE ContentAssumption DEF WatchTypeOK, Attended, Reflected, Contents, watcher, applied
<1>1. CASE UNCHANGED watchVars
  BY <1>1 DEF watchVars
<1>2. ASSUME NEW v \in Contents, Write(v) PROVE Attended'
  BY <1>2 DEF Write
<1>3. ASSUME NEW v \in Contents, Replace(v) PROVE Attended'
  BY <1>3 DEF Replace
<1>4. CASE LoadFromPath
  BY <1>4 DEF LoadFromPath
<1>5. CASE TakeHash
  BY <1>5 DEF TakeHash
<1>6. CASE AddWatch
  BY <1>6 DEF AddWatch
<1>7. CASE HandleEvent
  BY <1>7 DEF HandleEvent
<1>8. CASE HashFile
  BY <1>8 DEF HashFile
<1>9. CASE LoadChanged
  BY <1>9 DEF LoadChanged
<1>10. CASE EndDeaf
  BY <1>10 DEF EndDeaf
<1>11. CASE ReloadFile
  BY <1>11 DEF ReloadFile
<1>12. CASE EndProgram
  BY <1>12 DEF EndProgram
<1>13. QED
  BY <1>1, <1>2, <1>3, <1>4, <1>5, <1>6, <1>7, <1>8, <1>9, <1>10, <1>11, <1>12 DEF WatchNext

(* Every variable of the watcher keeps to its range.                       *)
THEOREM WatchTypeCorrect == WatchSpec => []WatchTypeOK
  BY WatchTypeInit, WatchTypeStep, PTL DEF WatchSpec

(* No content of the file is missed, whether reloads apply it, find the    *)
(* nodes unchanged or fail to prepare them, but for one that was written   *)
(* before the watch, into the deaf seconds or after a replacement, or      *)
(* compared with the wrong hash (watch.go), and but for the settings of    *)
(* the log of one with the runtime's own nodes (server.go).                *)
THEOREM NothingMissed == WatchSpec => []NotMissed
<1>1. WatchInit => Attended
  BY DEF WatchInit, Attended
<1>2. Attended => NotMissed
  BY DEF Attended, NotMissed
<1>3. QED
  BY <1>1, <1>2, AttendedStep, WatchTypeCorrect, PTL DEF WatchSpec

(* WarpIdentity.                                                           *)

(* What the panel sets with an identity of a registration is complete, and *)
(* differs from it only where the panel sets something; so is an identity  *)
(* of the panel with the defaults.                                         *)
LEMMA ResolvedComplete ==
  ASSUME NEW s \in Settings, NEW of \in Complete
  PROVE  /\ Resolved(s, of) \in Complete
         /\ \A f \in Fields : Resolved(s, of)[f] = Or(s.set[f], of[f])
  BY ValuesAssumption DEF Settings, Complete, Resolved, Or

LEMMA ManualComplete ==
  ASSUME NEW s \in Settings, HasManual(s)
  PROVE  Resolved(s, [f \in Fields |-> Unset]) \in Complete
  BY ValuesAssumption DEF Settings, Complete, Resolved, Or, HasManual, Fields

LEMMA AnswerComplete ==
  ASSUME NEW s \in Settings, NEW answer \in [Fields -> {Registered, Unset}],
         Resolved(s, answer)["peer"] # Unset
  PROVE  Resolved(s, answer) \in Complete
  BY ValuesAssumption DEF Settings, Complete, Resolved, Or, Fields

\* The identity of the panel.
Manual == [key |-> 0, of |-> [f \in Fields |-> Unset]]

(* No identity and a torn file are no records.                             *)
LEMMA NoRecords ==
  /\ NoIdentity # TornFile
  /\ {NoIdentity, TornFile} \cap Identities = {} /\ {NoIdentity, TornFile} \cap Uses = {}
  /\ NoIdentity \notin Identities /\ TornFile \notin Identities /\ NoIdentity \notin Uses
  BY IdentityAssumption

(* The end of a build leaves the runtime, or one with the identity.        *)
LEMMA EndsRuntime ==
  ASSUME WarpShape, NEW s \in Settings, NEW id, Ends(s, id),
         id \in Identities \cup {NoIdentity} \/ (HasManual(s) /\ id = Manual)
  PROVE  /\ build' = "idle" /\ fresh' = NoIdentity
         /\ runtime' \in Uses \cup {NoIdentity}
         /\ first' \in Identities \cup {NoIdentity}
         /\ \/ runtime' = runtime /\ first' = first
            \/ runtime' = NoIdentity /\ first' = first
            \/ runtime'.key = 0 /\ first' = first
            \/ /\ id \in Identities
               /\ runtime'.key = id.key
               /\ \A f \in Fields : runtime'.of[f] = Or(runtime'.set[f], id.of[f])
               /\ first' = IF first = NoIdentity THEN id ELSE first
<1> DEFINE new == [key |-> id.key, of |-> Resolved(s, id.of), set |-> s.set]
<1>1. /\ build' = "idle" /\ fresh' = NoIdentity
      /\ runtime' = runtime \/ runtime' = IF id = NoIdentity THEN id ELSE new
      /\ first' = IF first = NoIdentity /\ runtime' # runtime /\ id # NoIdentity /\ id.key > 0
                  THEN id ELSE first
  BY DEF Ends
<1>2. runtime \in Uses \cup {NoIdentity} /\ first \in Identities \cup {NoIdentity}
  BY DEF WarpShape
<1>3. CASE runtime' = runtime
  BY <1>1, <1>2, <1>3
<1>4. CASE runtime' # runtime /\ id = NoIdentity
  BY <1>1, <1>2, <1>4
<1>5. CASE runtime' # runtime /\ id # NoIdentity /\ id = Manual /\ HasManual(s)
  <2>1. new \in Uses /\ new.key = 0 /\ ~(id.key > 0)
    BY <1>5, ManualComplete, MaxKeysAssumption DEF Uses, Manual, Settings
  <2>2. QED
    BY <1>1, <1>2, <1>5, <2>1
<1>6. CASE runtime' # runtime /\ id # NoIdentity /\ id \in Identities
  <2>1. id.key \in 1..MaxKeys /\ id.of \in Complete /\ id.key > 0
    BY <1>6, MaxKeysAssumption DEF Identities
  <2>2. new \in Uses /\ new.key = id.key
    BY <2>1, ResolvedComplete, MaxKeysAssumption DEF Uses, Settings
  <2>3. \A f \in Fields : new.of[f] = Or(new.set[f], id.of[f])
    BY <2>1, ResolvedComplete
  <2>4. runtime' = new /\ first' = IF first = NoIdentity THEN id ELSE first
    BY <1>1, <1>6, <2>1
  <2>5. QED
    BY <1>1, <1>2, <1>6, <2>2, <2>3, <2>4
<1>7. QED
  BY <1>3, <1>4, <1>5, <1>6

(* After the end of a build all is as it was, but for an identity that is  *)
(* now in the sidecar and the first one.                                   *)
LEMMA EndsKept ==
  ASSUME WarpShape, FirstKept, NEW s \in Settings, NEW id, Ends(s, id),
         id \in Identities \cup {NoIdentity} \/ (HasManual(s) /\ id = Manual),
         panel' \in Settings, keys' = keys, unread' = unread,
         IF id \in Identities THEN sidecar' = id ELSE sidecar' = sidecar,
         id \in Identities /\ ~unread => first \in {NoIdentity, id}
  PROVE  WarpShape' /\ FirstKept'
<1> USE NoRecords
<1>1. /\ build' = "idle" /\ fresh' = NoIdentity
      /\ runtime' \in Uses \cup {NoIdentity}
      /\ first' \in Identities \cup {NoIdentity}
      /\ sidecar' \in Identities \cup {NoIdentity, TornFile}
  BY EndsRuntime DEF WarpShape
<1>2. WarpShape'
  BY <1>1 DEF WarpShape
<1>3. \/ runtime' = runtime /\ first' = first
      \/ runtime' = NoIdentity /\ first' = first
      \/ runtime'.key = 0 /\ first' = first
      \/ /\ id \in Identities
         /\ runtime'.key = id.key
         /\ \A f \in Fields : runtime'.of[f] = Or(runtime'.set[f], id.of[f])
         /\ first' = IF first = NoIdentity THEN id ELSE first
  BY EndsRuntime
<1>4. ASSUME ~unread PROVE first' # NoIdentity => sidecar' = first'
  BY <1>3, <1>4 DEF FirstKept
<1>5. ASSUME ~unread, runtime' # NoIdentity
      PROVE  \/ runtime'.key = 0
             \/ /\ first' # NoIdentity /\ runtime'.key = first'.key
                /\ \A f \in Fields : runtime'.of[f] = Or(runtime'.set[f], first'.of[f])
  BY <1>3, <1>5 DEF FirstKept
<1>6. QED
  BY <1>1, <1>2, <1>4, <1>5 DEF FirstKept

LEMMA WarpShapeInit == WarpInit => WarpShape /\ FirstKept
<1>1. ASSUME WarpInit PROVE WarpShape
  <2>1. keys \in 0..MaxKeys
    BY <1>1, MaxKeysAssumption DEF WarpInit
  <2>2. QED
    BY <1>1, <2>1 DEF WarpInit, WarpShape
<1>2. WarpInit => FirstKept
  BY DEF WarpInit, FirstKept
<1>3. QED
  BY <1>1, <1>2

(* Identities are complete after every step, and the first one that was    *)
(* used is used on.                                                        *)
LEMMA FirstKeptStep ==
  WarpShape /\ FirstKept /\ [WarpNext]_warpVars => WarpShape' /\ FirstKept'
<1> SUFFICES ASSUME WarpShape, FirstKept, [WarpNext]_warpVars PROVE WarpShape' /\ FirstKept'
  OBVIOUS
<1> USE MaxKeysAssumption, NoRecords
<1>1. CASE UNCHANGED warpVars
  BY <1>1 DEF warpVars, WarpShape, FirstKept
<1>2. ASSUME NEW s \in Settings, BeginBuild(s) PROVE WarpShape' /\ FirstKept'
  <2>1. panel' = s /\ UNCHANGED <<sidecar, keys, unread>>
    BY <1>2 DEF BeginBuild
  <2>2. CASE HasManual(s) /\ Ends(s, Manual)
    <3>1. Manual \notin Identities
      BY DEF Manual, Identities
    <3>2. QED
      BY <2>1, <2>2, <3>1, EndsKept
  <2>3. CASE Ends(s, NoIdentity)
    BY <2>1, <2>3, EndsKept
  <2>4. CASE build' = "load" /\ UNCHANGED <<runtime, fresh, first>> /\ build = "idle"
    BY <2>1, <2>4 DEF WarpShape, FirstKept
  <2>5. QED
    BY <1>2, <2>2, <2>3, <2>4 DEF BeginBuild, Manual
<1>3. CASE LoadSidecar
  <2>1. panel \in Settings /\ build = "load" /\ UNCHANGED <<panel, sidecar, keys>>
    BY <1>3 DEF LoadSidecar, WarpShape
  <2>2. CASE sidecar \notin {NoIdentity, TornFile} /\ Ends(panel, sidecar) /\ UNCHANGED unread
    <3>1. sidecar \in Identities /\ (~unread => first \in {NoIdentity, sidecar})
      BY <2>2 DEF WarpShape, FirstKept
    <3>2. QED
      BY <2>1, <2>2, <3>1, EndsKept
  <2>3. CASE /\ build' = "register" /\ UNCHANGED <<runtime, fresh, first>>
             /\ unread' = (unread \/ sidecar \notin {NoIdentity, TornFile})
    BY <2>1, <2>3 DEF WarpShape, FirstKept
  <2>4. QED
    BY <1>3, <2>2, <2>3 DEF LoadSidecar
<1>4. ASSUME Ends(panel, NoIdentity), UNCHANGED <<panel, sidecar, keys, unread>>
      PROVE  WarpShape' /\ FirstKept'
  <2>1. panel \in Settings
    BY DEF WarpShape
  <2>2. QED
    BY <1>4, <2>1, EndsKept
<1>5. ASSUME NEW answer \in [Fields -> {Registered, Unset}], RegisterIdentity(answer)
      PROVE  WarpShape' /\ FirstKept'
  <2>1. /\ build = "register" /\ build' = "save" /\ keys' \in 1..MaxKeys
        /\ fresh' = [key |-> keys', of |-> Resolved(panel, answer)]
        /\ UNCHANGED <<panel, sidecar, runtime, first, unread>>
    BY <1>5 DEF RegisterIdentity, WarpShape
  <2>2. Resolved(panel, answer) \in Complete
    BY <1>5, AnswerComplete DEF RegisterIdentity, WarpShape
  <2>3. fresh' \in Identities
    BY <2>1, <2>2 DEF Identities
  <2>4. QED
    BY <2>1, <2>3 DEF WarpShape, FirstKept
<1>6. CASE OpenSidecar
  <2>1. CASE sidecar' = TornFile /\ build' = "write" /\ UNCHANGED <<runtime, fresh, first>>
    <3>1. build = "save" /\ UNCHANGED <<panel, keys, unread>>
      BY <1>6 DEF OpenSidecar
    <3>2. WarpShape'
      BY <2>1, <3>1 DEF WarpShape
    <3>3. ~unread => first = NoIdentity
      BY <3>1 DEF WarpShape, FirstKept
    <3>4. QED
      BY <2>1, <3>1, <3>2, <3>3 DEF FirstKept
  <2>2. CASE Ends(panel, NoIdentity) /\ UNCHANGED sidecar
    BY <1>4, <1>6, <2>2 DEF OpenSidecar
  <2>3. QED
    BY <1>6, <2>1, <2>2 DEF OpenSidecar
<1>7. CASE WriteSidecar
  <2>1. CASE sidecar' = fresh /\ Ends(panel, fresh)
    <3>1. fresh \in Identities /\ panel \in Settings /\ (~unread => first = NoIdentity)
      BY <1>7 DEF WriteSidecar, WarpShape, FirstKept
    <3>2. QED
      BY <1>7, <2>1, <3>1, EndsKept DEF WriteSidecar
  <2>2. CASE Ends(panel, NoIdentity) /\ UNCHANGED sidecar
    BY <1>4, <1>7, <2>2 DEF WriteSidecar
  <2>3. QED
    BY <1>7, <2>1, <2>2 DEF WriteSidecar
<1>8. CASE EndBuild
  BY <1>8 DEF EndBuild, WarpShape, FirstKept
<1>9. QED
  BY <1>1, <1>2, <1>3, <1>4, <1>5, <1>6, <1>7, <1>8 DEF WarpNext, RegisterFails

(* Every variable of WarpIdentity keeps to its range, and identities are   *)
(* complete.                                                               *)
LEMMA ShapeIsType == WarpShape => WarpTypeOK
  BY ValuesAssumption, MaxKeysAssumption, IdentityAssumption
     DEF WarpShape, WarpTypeOK, Identity, Identities, Uses, Complete, Fields

THEOREM WarpTypeCorrect == WarpSpec => []WarpTypeOK
  BY WarpShapeInit, FirstKeptStep, ShapeIsType, PTL DEF WarpSpec

(* A node goes on using the first identity it has registered and used,     *)
(* whatever fails, unless the sidecar could not be read once (warp.go).    *)
THEOREM FirstIdentityKept == WarpSpec => []IdentityKept
<1>1. FirstKept => IdentityKept
  BY DEF FirstKept, IdentityKept
<1>2. QED
  BY <1>1, WarpShapeInit, FirstKeptStep, PTL DEF WarpSpec
(* CertStore.                                                              *)

LEMMA CertShapeInit == CertInit => CertShape
<1> SUFFICES ASSUME CertInit PROVE CertShape
  OBVIOUS
<1>1. made \in 0..MaxCerts /\ crashes \in 0..MaxCrashes /\ 1 \in Certs
  BY CertAssumption DEF CertInit, Certs
<1>2. cert \in (1..made) \cup {NoCert, Torn} /\ key \in Certs \cup {NoCert, Torn}
  BY <1>1 DEF CertInit
<1>3. QED
  BY <1>1, <1>2 DEF CertInit, CertShape, RequestShape, Steps, Holding

(* A request goes on, with what it has made or found or without anything.  *)
LEMMA GoShape ==
  ASSUME CertShape, NEW r \in Requests, at[r] # "none", UNCHANGED <<role, previous>>,
         made' \in made..MaxCerts,
         NEW g \in (1..made') \cup {NoCert}, got' = [got EXCEPT ![r] = g],
         NEW s \in Steps \ {"none", "check"}, at' = [at EXCEPT ![r] = s],
         s \in Holding => g # NoCert
  PROVE  RequestShape' /\ made' \in 0..MaxCerts
<1> USE CertAssumption DEF CertShape, RequestShape
<1>1. 1..made \subseteq 1..made' /\ made' \in 0..MaxCerts
  OBVIOUS
<1>2. previous' \in [Requests -> (1..made') \cup {NoCert}]
  BY <1>1
<1>3. got' \in [Requests -> (1..made') \cup {NoCert}]
  BY <1>1
<1>4. \A q \in Requests : /\ at'[q] = IF q = r THEN s ELSE at[q]
                         /\ got'[q] = IF q = r THEN g ELSE got[q]
  OBVIOUS
<1>5. \A q \in Requests : at'[q] \in Holding => got'[q] # NoCert
  BY <1>4
<1>6. \A q \in Requests : /\ (at'[q] = "none") <=> (role'[q] = "none")
                         /\ at'[q] \in {"none", "check"} => got'[q] = NoCert
  BY <1>4
<1>7. QED
  BY <1>1, <1>2, <1>3, <1>5, <1>6

(* A request fails, or has a certificate.                                  *)
LEMMA FailShape ==
  ASSUME CertShape, NEW r \in Requests, at[r] \notin {"none", "done"}, Fail(r),
         UNCHANGED <<mode, cert, key, issues, program, soiled>>,
         account' \in {"absent", "torn", "saved"}
  PROVE  CertShape'
<1> DEFINE s == IF mode = "auto" /\ Issuing(r) /\ got[r] \notin self THEN "generate" ELSE "done"
<1>1. s \in {"generate", "done"}
  OBVIOUS
<1>2. /\ got' = [got EXCEPT ![r] = NoCert] /\ at' = [at EXCEPT ![r] = s]
      /\ UNCHANGED <<role, previous, heard, meta, made>>
  BY DEF Fail, Go, issues
<1>3. made' \in made..MaxCerts
  BY <1>2, CertAssumption DEF CertShape
<1> HIDE DEF s
<1>4. QED
  BY <1>1, <1>2, <1>3, GoShape DEF CertShape, issues, program, Steps, Holding

LEMMA HaveShape ==
  ASSUME CertShape, NEW r \in Requests, at[r] \notin {"none", "done"}, Have(r), cert \in Certs,
         UNCHANGED <<mode, cert, key, account, issues, program, soiled>>
  PROVE  CertShape'
<1> DEFINE s == IF mode = "file" THEN "done" ELSE "fillMeta"
<1>1. s \in {"fillMeta", "done"}
  OBVIOUS
<1>2. /\ got' = [got EXCEPT ![r] = cert] /\ at' = [at EXCEPT ![r] = s]
      /\ heard' \in {heard, heard \cup {cert}} /\ meta' \in {meta, NoCert}
      /\ UNCHANGED <<role, previous, made>>
  BY DEF Have, Go, issues
<1>3. made' \in made..MaxCerts
  BY <1>2, CertAssumption DEF CertShape
<1>4. cert \in 1..made /\ cert # NoCert
  BY NoCertAssumption DEF CertShape
<1> HIDE DEF s
<1>5. heard' \subseteq 1..made
  BY <1>2, <1>4 DEF CertShape
<1>6. RequestShape' /\ made' \in 0..MaxCerts
  BY <1>1, <1>2, <1>3, <1>4, GoShape DEF Steps, Holding
<1>7. QED
  BY <1>2, <1>5, <1>6 DEF CertShape, issues, program

(* A certificate is made: one more than before.                            *)
LEMMA MakeShape ==
  ASSUME CertShape, NEW r \in Requests, at[r] \notin {"none", "done"}, Make(r),
         self' \in {self, self \cup {made + 1}},
         UNCHANGED <<mode, key, account, meta, due, program, annals>>
  PROVE  CertShape'
<1>1. /\ made < MaxCerts /\ made' = made + 1 /\ cert' = Torn
      /\ got' = [got EXCEPT ![r] = made + 1] /\ at' = [at EXCEPT ![r] = "fillCert"]
      /\ UNCHANGED <<role, previous>>
  BY DEF Make, Go
<1>2. made' \in made..MaxCerts /\ made + 1 \in Certs /\ made + 1 \in 1..made'
  BY <1>1, CertAssumption DEF CertShape, Certs
<1>3. made + 1 # NoCert
  BY <1>2, NoCertAssumption
<1>4. 1..made \subseteq 1..made' /\ made + 1 \notin 1..made
  BY <1>1, CertAssumption DEF CertShape
<1>5. /\ self' \subseteq 1..made' /\ due' \subseteq (1..made') \ self'
      /\ heard' \subseteq 1..made' /\ meta' \in (1..made') \cup {NoCert}
  BY <1>2, <1>4 DEF CertShape, annals
<1>6. RequestShape' /\ made' \in 0..MaxCerts
  BY <1>1, <1>2, <1>3, GoShape DEF Steps, Holding
<1>7. QED
  BY <1>1, <1>5, <1>6 DEF CertShape, program, annals

LEMMA CertShapeStep == CertShape /\ [CertNext]_certVars => CertShape'
<1> SUFFICES ASSUME CertShape, [CertNext]_certVars PROVE CertShape'
  OBVIOUS
<1> USE CertAssumption, NoCertAssumption
    DEF CertShape, RequestShape, Steps, Holding, files, issues, requests, program, annals
<1>1. CASE UNCHANGED certVars
  BY <1>1 DEF certVars
<1>2. ASSUME NEW r \in Requests, Check(r) PROVE CertShape'
  <2>1. /\ at' \in {[at EXCEPT ![r] = s] : s \in {"reread", "done", "generate", "account"}}
        /\ soiled' \in BOOLEAN
        /\ at[r] = "check"
        /\ UNCHANGED <<role, previous, heard, mode, files, issues, got, program>>
    BY <1>2 DEF Check, Go
  <2>2. QED
    BY <2>1
<1>3. ASSUME NEW r \in Requests, Reread(r) PROVE CertShape'
  BY <1>3, FailShape, HaveShape DEF Reread
<1>4. ASSUME NEW r \in Requests, LoadAccount(r) PROVE CertShape'
  <2>1. CASE Fail(r)
    BY <1>4, <2>1, FailShape DEF LoadAccount
  <2>2. CASE ~Fail(r)
    <3>1. PICK s \in {"obtain", "register"} : at' = [at EXCEPT ![r] = s]
      BY <1>4, <2>2 DEF LoadAccount, Go
    <3>2. /\ at[r] = "account"
          /\ UNCHANGED <<mode, files, issues, role, previous, got, program, soiled, heard>>
      BY <1>4, <2>2 DEF LoadAccount, Go
    <3>3. QED
      BY <3>1, <3>2
  <2>3. QED
    BY <2>1, <2>2
<1>5. ASSUME NEW r \in Requests, Register(r) PROVE CertShape'
  BY <1>5 DEF Register, Go
<1>6. ASSUME NEW r \in Requests, SaveAccount(r) PROVE CertShape'
  BY <1>6 DEF SaveAccount, Go
<1>7. ASSUME NEW r \in Requests, Obtain(r) PROVE CertShape'
  BY <1>7, MakeShape DEF Obtain
<1>8. ASSUME NEW r \in Requests, AcmeFails(r) PROVE CertShape'
  BY <1>8, FailShape DEF AcmeFails
<1>9. ASSUME NEW r \in Requests, Generate(r) PROVE CertShape'
  BY <1>9, MakeShape DEF Generate
<1>10. ASSUME NEW r \in Requests, GenerateFails(r) PROVE CertShape'
  BY <1>10 DEF GenerateFails, Go
<1>11. ASSUME NEW r \in Requests, FillCert(r) PROVE CertShape'
  BY <1>11 DEF FillCert, Go
<1>12. ASSUME NEW r \in Requests, TruncateKey(r) PROVE CertShape'
  BY <1>12 DEF TruncateKey, Go
<1>13. ASSUME NEW r \in Requests, FillKey(r) PROVE CertShape'
  BY <1>13 DEF FillKey, Go, Certs
<1>14. ASSUME NEW r \in Requests, Load(r) PROVE CertShape'
  BY <1>14, FailShape, HaveShape DEF Load
<1>15. ASSUME NEW r \in Requests, FillMeta(r) PROVE CertShape'
  BY <1>15 DEF FillMeta, Go
<1>16. ASSUME NEW r \in Requests, EndRenewal(r) PROVE CertShape'
  BY <1>16 DEF EndRenewal, End, Changed
<1>17. ASSUME NEW r \in Requests, Started(r) PROVE CertShape'
  BY <1>17 DEF Started, End
<1>18. ASSUME NEW r \in Requests, ReloadKeeps(r) PROVE CertShape'
  BY <1>18 DEF ReloadKeeps, End
<1>19. ASSUME NEW r \in Requests, ReloadReplaces(r) PROVE CertShape'
  BY <1>19 DEF ReloadReplaces
<1>20. ASSUME NEW r \in Requests, Exit(r) PROVE CertShape'
  BY <1>20 DEF Exit, Stop
<1>21. CASE Crash
  BY <1>21 DEF Crash, Stop
<1>22. ASSUME NEW r \in Requests, RenewCertTask(r) PROVE CertShape'
  BY <1>22 DEF RenewCertTask, Begin
<1>23. ASSUME NEW r \in Requests, StartProgram(r) PROVE CertShape'
  BY <1>23 DEF StartProgram, Begin
<1>24. ASSUME NEW r \in Requests, BeginReload(r) PROVE CertShape'
  BY <1>24 DEF BeginReload, Begin
<1>25. CASE ComesDue
  BY <1>25 DEF ComesDue, Certs
<1>26. QED
  BY <1>1, <1>2, <1>3, <1>4, <1>5, <1>6, <1>7, <1>8, <1>9, <1>10, <1>11, <1>12, <1>13, <1>14,
     <1>15, <1>16, <1>17, <1>18, <1>19, <1>20, <1>21, <1>22, <1>23, <1>24, <1>25
     DEF CertNext, Step
(* A request that is alone stays so, or another one takes that from it.    *)
LEMMA AloneStep == CertShape /\ Alone /\ [CertNext]_certVars => Alone'
<1> SUFFICES ASSUME CertShape, Alone, [CertNext]_certVars PROVE Alone'
  OBVIOUS
<1> USE CertAssumption, NoCertAssumption
    DEF CertShape, RequestShape, Alone, Issuing, Steps, files, issues, requests, program, annals
<1>1. CASE UNCHANGED certVars
  BY <1>1 DEF certVars
<1>2. ASSUME NEW r \in Requests, Check(r) PROVE Alone'
  <2> DEFINE others == {q \in Requests \ {r} : Issuing(q)}
  <2>1. CASE at' = [at EXCEPT ![r] = "reread"] /\ UNCHANGED annals
    BY <1>2, <2>1 DEF Check
  <2>2. CASE at' = [at EXCEPT ![r] = "done"] /\ UNCHANGED annals
    BY <1>2, <2>2 DEF Check
  <2>3. CASE /\ at' \in {[at EXCEPT ![r] = "generate"], [at EXCEPT ![r] = "account"]}
             /\ alone' = IF others = {} THEN alone \cup {r} ELSE alone \ others
    <3>1. at[r] = "check" /\ UNCHANGED <<mode, files, issues, got, program>>
      BY <1>2 DEF Check
    <3>2. r \notin alone
      BY <3>1
    <3>3. CASE others = {}
      BY <2>3, <3>1, <3>2, <3>3
    <3>4. CASE others # {}
      BY <2>3, <3>1, <3>2, <3>4
    <3>5. QED
      BY <3>3, <3>4
  <2>4. QED
    BY <1>2, <2>1, <2>2, <2>3 DEF Check, Go
<1>3. ASSUME NEW r \in Requests, Reread(r) PROVE Alone'
  BY <1>3 DEF Reread, Have, Fail, Go
<1>4. ASSUME NEW r \in Requests, LoadAccount(r) PROVE Alone'
  BY <1>4 DEF LoadAccount, Fail, Go
<1>5. ASSUME NEW r \in Requests, Register(r) PROVE Alone'
  BY <1>5 DEF Register, Go
<1>6. ASSUME NEW r \in Requests, SaveAccount(r) PROVE Alone'
  BY <1>6 DEF SaveAccount, Go
<1>7. ASSUME NEW r \in Requests, Obtain(r) PROVE Alone'
  BY <1>7 DEF Obtain, Make, Go
<1>8. ASSUME NEW r \in Requests, AcmeFails(r) PROVE Alone'
  BY <1>8 DEF AcmeFails, Fail, Go
<1>9. ASSUME NEW r \in Requests, Generate(r) PROVE Alone'
  BY <1>9 DEF Generate, Make, Go
<1>10. ASSUME NEW r \in Requests, GenerateFails(r) PROVE Alone'
  BY <1>10 DEF GenerateFails, Go
<1>11. ASSUME NEW r \in Requests, FillCert(r) PROVE Alone'
  BY <1>11 DEF FillCert, Go
<1>12. ASSUME NEW r \in Requests, TruncateKey(r) PROVE Alone'
  BY <1>12 DEF TruncateKey, Go
<1>13. ASSUME NEW r \in Requests, FillKey(r) PROVE Alone'
  BY <1>13 DEF FillKey, Go
<1>14. ASSUME NEW r \in Requests, Load(r) PROVE Alone'
  <2>1. /\ at[r] = "load" /\ alone' = alone \ {r}
        /\ \A q \in Requests \ {r} : at'[q] = at[q] /\ got'[q] = got[q]
        /\ cert' = cert
    BY <1>14 DEF Load, Have, Fail, Go
  <2>2. QED
    BY <2>1
<1>15. ASSUME NEW r \in Requests, FillMeta(r) PROVE Alone'
  BY <1>15 DEF FillMeta, Go
<1>16. ASSUME NEW r \in Requests, EndRenewal(r) PROVE Alone'
  BY <1>16 DEF EndRenewal, End, Changed
<1>17. ASSUME NEW r \in Requests, Started(r) PROVE Alone'
  BY <1>17 DEF Started, End
<1>18. ASSUME NEW r \in Requests, ReloadKeeps(r) PROVE Alone'
  BY <1>18 DEF ReloadKeeps, End
<1>19. ASSUME NEW r \in Requests, ReloadReplaces(r) PROVE Alone'
  BY <1>19 DEF ReloadReplaces
<1>20. ASSUME NEW r \in Requests, Exit(r) PROVE Alone'
  BY <1>20 DEF Exit, Stop
<1>21. CASE Crash
  BY <1>21 DEF Crash, Stop
<1>22. ASSUME NEW r \in Requests, RenewCertTask(r) PROVE Alone'
  BY <1>22 DEF RenewCertTask, Begin
<1>23. ASSUME NEW r \in Requests, StartProgram(r) PROVE Alone'
  BY <1>23 DEF StartProgram, Begin
<1>24. ASSUME NEW r \in Requests, BeginReload(r) PROVE Alone'
  BY <1>24 DEF BeginReload, Begin
<1>25. CASE ComesDue
  BY <1>25 DEF ComesDue
<1>26. QED
  BY <1>1, <1>2, <1>3, <1>4, <1>5, <1>6, <1>7, <1>8, <1>9, <1>10, <1>11, <1>12,
     <1>13, <1>14, <1>15, <1>16, <1>17, <1>18, <1>19, <1>20, <1>21, <1>22, <1>23,
     <1>24, <1>25
     DEF CertNext, Step

(* Files that are not soiled are whole but where the request that is alone *)
(* works on them.                                                          *)
LEMMA CleanStep == CertShape /\ Alone /\ Clean /\ [CertNext]_certVars => Clean'
<1> SUFFICES ASSUME CertShape, Alone, Clean, [CertNext]_certVars PROVE Clean'
  OBVIOUS
<1> USE CertAssumption, NoCertAssumption
    DEF CertShape, RequestShape, Alone, Clean, Issuing, Writing, Steps, Holding,
        files, issues, requests, program, annals
<1>1. CASE UNCHANGED certVars
  BY <1>1 DEF certVars
<1>2. ASSUME NEW r \in Requests, Check(r) PROVE Clean'
  <2> DEFINE others == {q \in Requests \ {r} : Issuing(q)}
  <2>1. at[r] = "check" /\ UNCHANGED <<mode, files, issues, got, program>>
    BY <1>2 DEF Check
  <2>2. CASE at' = [at EXCEPT ![r] = "reread"] /\ UNCHANGED annals
    BY <2>1, <2>2
  <2>3. CASE at' = [at EXCEPT ![r] = "done"] /\ UNCHANGED annals
    BY <2>1, <2>3
  <2>4. CASE /\ ~Ready /\ mode # "file"
             /\ at' \in {[at EXCEPT ![r] = "generate"], [at EXCEPT ![r] = "account"]}
             /\ alone' = IF others = {} THEN alone \cup {r} ELSE alone \ others
             /\ soiled' = (soiled \/ others # {})
    <3>1. SUFFICES ASSUME ~soiled, others = {} PROVE Clean'
      BY <2>4
    <3>2. \A q \in Requests : ~Writing(q)
      BY <2>1, <3>1
    <3>3. cert = key /\ cert \notin Certs \ (self \cup due)
      BY <2>4, <3>1, <3>2 DEF Ready
    <3>4. \A q \in Requests \ {r} : ~Issuing(q) /\ at'[q] = at[q]
      BY <2>4, <3>1
    <3>5. r \in alone' /\ at'[r] \in {"generate", "account"}
      BY <2>4, <3>1
    <3>6. QED
      BY <2>1, <3>3, <3>4, <3>5
  <2>5. QED
    BY <1>2, <2>2, <2>3, <2>4 DEF Check, Go
<1>3. ASSUME NEW r \in Requests, Reread(r) PROVE Clean'
  BY <1>3 DEF Reread, Have, Fail, Go
<1>4. ASSUME NEW r \in Requests, LoadAccount(r) PROVE Clean'
  BY <1>4 DEF LoadAccount, Fail, Go
<1>5. ASSUME NEW r \in Requests, Register(r) PROVE Clean'
  BY <1>5 DEF Register, Go
<1>6. ASSUME NEW r \in Requests, SaveAccount(r) PROVE Clean'
  BY <1>6 DEF SaveAccount, Go
<1>7. ASSUME NEW r \in Requests, Obtain(r) PROVE Clean'
  BY <1>7 DEF Obtain, Make, Go
<1>8. ASSUME NEW r \in Requests, AcmeFails(r) PROVE Clean'
  BY <1>8 DEF AcmeFails, Fail, Go
<1>9. ASSUME NEW r \in Requests, Generate(r) PROVE Clean'
  BY <1>9 DEF Generate, Make, Go
<1>10. ASSUME NEW r \in Requests, GenerateFails(r) PROVE Clean'
  BY <1>10 DEF GenerateFails, Go
<1>11. ASSUME NEW r \in Requests, FillCert(r) PROVE Clean'
  BY <1>11 DEF FillCert, Go
<1>12. ASSUME NEW r \in Requests, TruncateKey(r) PROVE Clean'
  BY <1>12 DEF TruncateKey, Go
<1>13. ASSUME NEW r \in Requests, FillKey(r) PROVE Clean'
  BY <1>13 DEF FillKey, Go
<1>14. ASSUME NEW r \in Requests, Load(r) PROVE Clean'
  <2>1. /\ at[r] = "load" /\ alone' = alone \ {r}
        /\ UNCHANGED <<mode, cert, key, account, issues, program, soiled>>
        /\ IF cert \in Certs THEN Have(r) ELSE Fail(r)
    BY <1>14 DEF Load
  <2>2. SUFFICES ASSUME ~soiled PROVE Clean'
    BY <2>1
  <2>3. r \in alone /\ cert = got[r] /\ cert \in Certs
    BY <2>1, <2>2 DEF Certs
  <2>4. at' \in {[at EXCEPT ![r] = "done"], [at EXCEPT ![r] = "fillMeta"]}
    BY <2>1, <2>3 DEF Have, Go
  <2>5. QED
    BY <2>1, <2>2, <2>4
<1>15. ASSUME NEW r \in Requests, FillMeta(r) PROVE Clean'
  BY <1>15 DEF FillMeta, Go
<1>16. ASSUME NEW r \in Requests, EndRenewal(r) PROVE Clean'
  BY <1>16 DEF EndRenewal, End, Changed
<1>17. ASSUME NEW r \in Requests, Started(r) PROVE Clean'
  BY <1>17 DEF Started, End
<1>18. ASSUME NEW r \in Requests, ReloadKeeps(r) PROVE Clean'
  BY <1>18 DEF ReloadKeeps, End
<1>19. ASSUME NEW r \in Requests, ReloadReplaces(r) PROVE Clean'
  BY <1>19 DEF ReloadReplaces
<1>20. ASSUME NEW r \in Requests, Exit(r) PROVE Clean'
  BY <1>20 DEF Exit, Stop
<1>21. CASE Crash
  BY <1>21 DEF Crash, Stop
<1>22. ASSUME NEW r \in Requests, RenewCertTask(r) PROVE Clean'
  BY <1>22 DEF RenewCertTask, Begin
<1>23. ASSUME NEW r \in Requests, StartProgram(r) PROVE Clean'
  BY <1>23 DEF StartProgram, Begin
<1>24. ASSUME NEW r \in Requests, BeginReload(r) PROVE Clean'
  BY <1>24 DEF BeginReload, Begin
<1>25. CASE ComesDue
  BY <1>25 DEF ComesDue
<1>26. QED
  BY <1>1, <1>2, <1>3, <1>4, <1>5, <1>6, <1>7, <1>8, <1>9, <1>10, <1>11, <1>12,
     <1>13, <1>14, <1>15, <1>16, <1>17, <1>18, <1>19, <1>20, <1>21, <1>22, <1>23,
     <1>24, <1>25
     DEF CertNext, Step
(* What the metadata describes stays known.                                *)
LEMMA HeardStep == CertShape /\ Heard /\ [CertNext]_certVars => Heard'
<1> SUFFICES ASSUME CertShape, Heard, [CertNext]_certVars PROVE Heard'
  OBVIOUS
<1> USE NoCertAssumption
    DEF CertShape, RequestShape, Heard, Known, WillTell, Preparing, Steps, Holding,
        files, issues, requests, program, annals
<1>1. CASE UNCHANGED certVars
  BY <1>1 DEF certVars
<1>2. ASSUME NEW r \in Requests, Check(r) PROVE Heard'
  <2>1. PICK s \in {"reread", "done", "generate", "account"} : at' = [at EXCEPT ![r] = s]
    BY <1>2 DEF Check, Go
  <2>2. /\ at[r] = "check"
        /\ UNCHANGED <<role, previous, heard, mode, files, issues, got, program>>
    BY <1>2 DEF Check, Go
  <2>3. got[r] = NoCert
    BY <2>2
  <2>4. QED
    BY <2>1, <2>2, <2>3
<1>3. ASSUME NEW r \in Requests, Reread(r) PROVE Heard'
  BY <1>3 DEF Reread, Have, Fail, Go
<1>4. ASSUME NEW r \in Requests, LoadAccount(r) PROVE Heard'
  BY <1>4 DEF LoadAccount, Fail, Go
<1>5. ASSUME NEW r \in Requests, Register(r) PROVE Heard'
  BY <1>5 DEF Register, Go
<1>6. ASSUME NEW r \in Requests, SaveAccount(r) PROVE Heard'
  BY <1>6 DEF SaveAccount, Go
<1>7. ASSUME NEW r \in Requests, Obtain(r) PROVE Heard'
  BY <1>7 DEF Obtain, Make, Go
<1>8. ASSUME NEW r \in Requests, AcmeFails(r) PROVE Heard'
  BY <1>8 DEF AcmeFails, Fail, Go
<1>9. ASSUME NEW r \in Requests, Generate(r) PROVE Heard'
  BY <1>9 DEF Generate, Make, Go
<1>10. ASSUME NEW r \in Requests, GenerateFails(r) PROVE Heard'
  BY <1>10 DEF GenerateFails, Go
<1>11. ASSUME NEW r \in Requests, FillCert(r) PROVE Heard'
  BY <1>11 DEF FillCert, Go
<1>12. ASSUME NEW r \in Requests, TruncateKey(r) PROVE Heard'
  BY <1>12 DEF TruncateKey, Go
<1>13. ASSUME NEW r \in Requests, FillKey(r) PROVE Heard'
  BY <1>13 DEF FillKey, Go
<1>14. ASSUME NEW r \in Requests, Load(r) PROVE Heard'
  BY <1>14 DEF Load, Have, Fail, Go
<1>15. ASSUME NEW r \in Requests, FillMeta(r) PROVE Heard'
  BY <1>15 DEF FillMeta, Go
<1>16. ASSUME NEW r \in Requests, EndRenewal(r) PROVE Heard'
  BY <1>16 DEF EndRenewal, End, Changed
<1>17. ASSUME NEW r \in Requests, Started(r) PROVE Heard'
  BY <1>17 DEF Started, End
<1>18. ASSUME NEW r \in Requests, ReloadKeeps(r) PROVE Heard'
  BY <1>18 DEF ReloadKeeps, End
<1>19. ASSUME NEW r \in Requests, ReloadReplaces(r) PROVE Heard'
  BY <1>19 DEF ReloadReplaces
<1>20. ASSUME NEW r \in Requests, Exit(r) PROVE Heard'
  BY <1>20 DEF Exit, Stop
<1>21. CASE Crash
  BY <1>21 DEF Crash, Stop
<1>22. ASSUME NEW r \in Requests, RenewCertTask(r) PROVE Heard'
  BY <1>22 DEF RenewCertTask, Begin
<1>23. ASSUME NEW r \in Requests, StartProgram(r) PROVE Heard'
  BY <1>23 DEF StartProgram, Begin
<1>24. ASSUME NEW r \in Requests, BeginReload(r) PROVE Heard'
  BY <1>24 DEF BeginReload, Begin
<1>25. CASE ComesDue
  BY <1>25 DEF ComesDue
<1>26. QED
  BY <1>1, <1>2, <1>3, <1>4, <1>5, <1>6, <1>7, <1>8, <1>9, <1>10, <1>11, <1>12,
     <1>13, <1>14, <1>15, <1>16, <1>17, <1>18, <1>19, <1>20, <1>21, <1>22, <1>23,
     <1>24, <1>25
     DEF CertNext, Step
LEMMA CertInitial == CertInit => CertShape /\ Alone /\ Clean /\ Heard
<1>1. CertInit => Alone
  BY DEF CertInit, Alone
<1>2. CertInit => Clean
  BY DEF CertInit, Clean, Issuing
<1>3. CertInit => Heard
  BY NoCertAssumption DEF CertInit, Heard, Preparing
<1>4. QED
  BY <1>1, <1>2, <1>3, CertShapeInit

LEMMA ShapeIsCertType == CertShape /\ Alone => CertTypeOK
<1> SUFFICES ASSUME CertShape, Alone PROVE CertTypeOK
  OBVIOUS
<1>1. 1..made \subseteq Certs
  BY CertAssumption DEF CertShape, Certs
<1>2. alone \subseteq {r \in Requests : role[r] # "none"}
  BY DEF CertShape, RequestShape, Alone, Issuing
<1>3. previous \in [Requests -> Certs \cup {NoCert}] /\ got \in [Requests -> Certs \cup {NoCert}]
  BY <1>1 DEF CertShape, RequestShape
<1>4. QED
  BY <1>1, <1>2, <1>3 DEF CertShape, RequestShape, CertTypeOK

(* Every variable of CertStore keeps to its range, and a certificate is    *)
(* made before it is due or heard of.                                      *)
THEOREM CertTypeCorrect == CertSpec => []CertTypeOK
  BY CertInitial, CertShapeStep, AloneStep, ShapeIsCertType, PTL DEF CertSpec

(* However requests of Prepare and of the renewal task overlap and are     *)
(* cut, the two files belong together unless a cut or an overlap has       *)
(* soiled them, which the next request that issues alone mends (cert.go).  *)
THEOREM FilesMatch == CertSpec => []PairMatches
<1>1. Clean => PairMatches
  BY DEF Clean, PairMatches
<1>2. QED
  BY <1>1, CertInitial, CertShapeStep, AloneStep, CleanStep, PTL DEF CertSpec

(* A certificate that is valid is not overwritten, unless the files are    *)
(* soiled: whoever makes one has found none (cert.go).                     *)
LEMMA ValidKeptStep ==
  ASSUME CertShape, Alone, Clean, [CertNext]_certVars,
         mode # "file", cert \in Certs \ (self \cup due), cert' # cert
  PROVE  soiled
<1> USE NoCertAssumption DEF files, requests
<1>1. ASSUME NEW r \in Requests, Obtain(r) \/ Generate(r) PROVE soiled
  BY <1>1 DEF Obtain, Generate, Clean
<1>2. ASSUME NEW r \in Requests, FillCert(r) PROVE soiled
  BY <1>2 DEF FillCert, Clean, Alone, Issuing
<1>3. ASSUME NEW r \in Requests, Step(r), ~Obtain(r), ~Generate(r), ~FillCert(r) PROVE cert' = cert
  BY <1>3 DEF Step, Check, Reread, LoadAccount, Register, SaveAccount, AcmeFails, GenerateFails,
       TruncateKey, FillKey, Load, FillMeta, EndRenewal, Started, ReloadKeeps, ReloadReplaces,
       Exit, Stop
<1>4. ASSUME NEW r \in Requests, RenewCertTask(r) \/ StartProgram(r) \/ BeginReload(r)
      PROVE  cert' = cert
  BY <1>4 DEF RenewCertTask, StartProgram, BeginReload
<1>5. Crash \/ ComesDue \/ UNCHANGED certVars => cert' = cert
  BY DEF Crash, Stop, ComesDue, certVars
<1>6. QED
  BY <1>1, <1>2, <1>3, <1>4, <1>5 DEF CertNext

THEOREM ValidNotOverwritten == CertSpec => ValidKept
<1>1. CertShape /\ Alone /\ Clean /\ [CertNext]_certVars
        => [mode # "file" /\ cert \in Certs \ (self \cup due) /\ cert' # cert => soiled]_certVars
  BY ValidKeptStep
<1>2. QED
  BY <1>1, CertInitial, CertShapeStep, AloneStep, CleanStep, PTL DEF CertSpec, ValidKept

(* While nothing runs the metadata describes a certificate that a reload   *)
(* was requested for or a Prepare has seen: no change of the certificate   *)
(* is lost, also when the program ends in the middle of one (cert.go).     *)
THEOREM ChangesHeard == CertSpec => []ChangeHeard
<1>1. Heard => ChangeHeard
  BY DEF Heard, ChangeHeard, Known, WillTell
<1>2. QED
  BY <1>1, CertInitial, CertShapeStep, HeardStep, PTL DEF CertSpec

----------------------------------------------------------------------------
(* The three parts together.                                               *)

\* Every part is in its ranges, also the ones that stay as they are.
UpkeepShape == CertShape /\ Alone /\ WarpShape /\ FirstKept /\ WatchTypeOK

LEMMA PartsStep ==
  [UpkeepNext]_<<part, certVars, warpVars, watchVars>>
    => [CertNext]_certVars /\ [WarpNext]_warpVars /\ [WatchNext]_watchVars
  BY DEF UpkeepNext, OfCertificate

(* The type invariants of the parts hold of the behaviours that TLC        *)
(* explores together.                                                      *)
THEOREM UpkeepTypeCorrect == UpkeepSpec => []UpkeepTypeOK
<1>1. UpkeepInit => UpkeepShape
  BY CertInitial, WarpShapeInit, WatchTypeInit DEF UpkeepInit, UpkeepShape
<1>2. UpkeepShape /\ [UpkeepNext]_<<part, certVars, warpVars, watchVars>> => UpkeepShape'
  BY PartsStep, CertShapeStep, AloneStep, FirstKeptStep, WatchTypeStep DEF UpkeepShape
<1>3. UpkeepShape => UpkeepTypeOK
  BY ShapeIsCertType, ShapeIsType DEF UpkeepShape, UpkeepTypeOK
<1>4. QED
  BY <1>1, <1>2, <1>3, PTL DEF UpkeepSpec

(* A behaviour of the parts together is one of each part, so that what is  *)
(* proved of a part holds of it: the fairness of CertSpec is not used.     *)
THEOREM PartsAreKept ==
  UpkeepSpec => CertInit /\ [][CertNext]_certVars /\ WarpSpec /\ WatchSpec
<1>1. UpkeepInit => CertInit /\ WarpInit /\ WatchInit
  BY DEF UpkeepInit
<1>2. QED
  BY <1>1, PartsStep, PTL DEF UpkeepSpec, WarpSpec, WatchSpec
============================================================================
