----------------------------- MODULE CertStore -----------------------------
(***************************************************************************)
(* node/cert.go with node/lego.go: the certificate of one TLS node, kept   *)
(* in two files beside the ACME account and the metadata.                  *)
(*                                                                         *)
(* A request runs in the Prepare of a start or a reload and in every       *)
(* execution of the renewal task, which outlives its controller and may    *)
(* meet the Prepare and the task of the next one.  Nothing is locked, and  *)
(* every file is truncated and then written in place: a request that is    *)
(* cut between two steps leaves what it has done, and another one reads    *)
(* it.  certificateReady looks into the certificate and only for the       *)
(* presence of the key.                                                    *)
(*                                                                         *)
(* A certificate stands for itself and its key, and is not due until it    *)
(* comes near its end (self-signed ones last thirty years); that the mode  *)
(* or the target of the node changes is left out, and so is a write that   *)
(* fails without ending the program.                                       *)
(***************************************************************************)
EXTENDS Naturals

CONSTANTS
  Requests,    \* requestCertAndReport at one time
  MaxCerts,    \* bound: certificates made
  MaxCrashes,  \* bound: crashes of the program
  NoCert,      \* no file, or no certificate
  Torn         \* a file that is truncated, and not yet or never written

Certs == 1..MaxCerts

ASSUME CertAssumption == MaxCerts \in Nat \ {0} /\ MaxCrashes \in Nat
ASSUME NoCertAssumption == NoCert \notin Certs \cup {Torn} /\ Torn \notin Certs

VARIABLES
  mode,        \* CertMode; "auto" with SelfFallback, without it it is "managed"
  cert, key,   \* the two files
  account,     \* the file of the ACME account
  meta,        \* the certificate the metadata file describes; NoCert if unreadable
  made,        \* certificates made so far
  self, due,   \* the self-signed ones, the ones to be renewed
  role,        \* what each request is part of: "none", "prepare", "attempt", a
               \* Prepare whose failure the program survives, "renew", or
               \* "late", a renewal of a controller that has been closed
  at,          \* where it is in requestCertAndReport
  previous,    \* the metadata it has read first
  got,         \* the certificate it has made or found; NoCert is an error
  life,        \* the program: "down", "starting", "up"
  event,       \* a reload for a changed certificate is requested
  crashes,
  alone,       \* history: requests that issue without another one beside
  soiled,      \* history: the files were left by a cut or by two requests
  heard        \* history: certificates a reload was requested for, or a
               \* Prepare found or made

files == <<cert, key, account, meta>>
issues == <<made, self, due>>
requests == <<role, at, previous, got>>
program == <<life, event, crashes>>
annals == <<alone, soiled, heard>>
certVars == <<mode, files, issues, requests, program, annals>>

Issuing(r) == at[r] \in {"account", "register", "save", "obtain", "generate",
                         "fillCert", "truncKey", "fillKey", "load"}
Writing(r) == at[r] \in {"fillCert", "truncKey", "fillKey"}
Preparing(r) == role[r] \in {"prepare", "attempt"}

CertInit ==
  /\ mode \in {"file", "self", "managed", "auto"}
  /\ made = (IF mode = "file" THEN 1 ELSE 0)
  /\ cert = (IF mode = "file" THEN 1 ELSE NoCert) /\ key = cert
  /\ account = "absent" /\ meta = NoCert
  /\ self = {} /\ due = {}
  /\ role = [r \in Requests |-> "none"]
  /\ at = [r \in Requests |-> "none"]
  /\ previous = [r \in Requests |-> NoCert]
  /\ got = [r \in Requests |-> NoCert]
  /\ life = "down" /\ event = FALSE /\ crashes = 0
  /\ alone = {} /\ soiled = FALSE /\ heard = {}

----------------------------------------------------------------------------
(* requestCertAndReport.                                                   *)

(* Its first step reads the metadata.                                      *)
Begin(r, what) ==
  /\ role[r] = "none"
  /\ role' = [role EXCEPT ![r] = what]
  /\ at' = [at EXCEPT ![r] = "check"]
  /\ previous' = [previous EXCEPT ![r] = meta]
  /\ UNCHANGED got

\* The next step of request r.
Go(r, step) ==
  /\ at' = [at EXCEPT ![r] = step]
  /\ UNCHANGED <<role, previous>>

\* The comparison with the end of the certificate the wrong way round.
ReadyDue ==
  /\ cert # NoCert /\ key # NoCert
  /\ mode # "file" => cert \in Certs /\ (cert \in self \/ cert \in due)
  /\ mode \in {"managed", "auto"} => cert \notin self

\* Whether the certificate's own half of Ready is left out.
ReadyPresent == cert # NoCert /\ key # NoCert

(* ensureCertFilesExist and certificateReady: whether the files are used   *)
(* as they are.                                                            *)
Ready ==
  /\ cert # NoCert /\ key # NoCert
  /\ mode # "file" => cert \in Certs \ due
  /\ mode \in {"managed", "auto"} => cert \notin self

Check(r) ==
  /\ at[r] = "check"
  /\ LET others == {q \in Requests \ {r} : Issuing(q)} IN
     \/ /\ Ready
        /\ Go(r, "reread")
        /\ UNCHANGED annals
     \/ /\ ~Ready /\ mode = "file"
        /\ Go(r, "done")
        /\ UNCHANGED annals
     \/ /\ ~Ready /\ mode # "file"
        /\ Go(r, IF mode = "self" THEN "generate" ELSE "account")
        /\ alone' = IF others = {} THEN alone \cup {r} ELSE alone \ others
        /\ soiled' = (soiled \/ others # {})
        /\ UNCHANGED heard
  /\ UNCHANGED <<mode, files, issues, got, program>>

\* It has a certificate; the metadata file, which only "file" does without,
\* is truncated.
Have(r) ==
  /\ got' = [got EXCEPT ![r] = cert]
  /\ heard' = IF Preparing(r) THEN heard \cup {cert} ELSE heard
  /\ Go(r, IF mode = "file" THEN "done" ELSE "fillMeta")
  /\ meta' = IF mode = "file" THEN meta ELSE NoCert

(* It ends in an error, or goes on with a self-signed certificate if it    *)
(* was to have another one.                                                *)
Fail(r) ==
  /\ got' = [got EXCEPT ![r] = NoCert]
  /\ Go(r, IF mode = "auto" /\ Issuing(r) /\ got[r] \notin self THEN "generate" ELSE "done")
  /\ UNCHANGED <<heard, meta>>

(* metadataFromCertFile: the file is read once more.                       *)
Reread(r) ==
  /\ at[r] = "reread"
  /\ IF cert \in Certs THEN Have(r) ELSE Fail(r)
  /\ UNCHANGED <<mode, cert, key, account, issues, program, alone, soiled>>

(* NewLegoUser: the account is loaded, if its file is whole; without a     *)
(* file one is to be registered.                                           *)
LoadAccount(r) ==
  /\ at[r] = "account"
  /\ \/ account = "saved" /\ Go(r, "obtain") /\ UNCHANGED <<got, heard, meta>>
     \/ account = "torn" /\ Fail(r)
     \/ account = "absent" /\ Go(r, "register") /\ UNCHANGED <<got, heard, meta>>
  /\ UNCHANGED <<mode, cert, key, account, issues, program, alone, soiled>>

(* registerUser: a new account is registered and its file truncated, also  *)
(* if another request has written it since.                                *)
Register(r) ==
  /\ at[r] = "register"
  /\ account' = "torn"
  /\ Go(r, "save")
  /\ UNCHANGED <<mode, cert, key, meta, issues, got, program, annals>>

(* User.Save: the account is written.                                      *)
SaveAccount(r) ==
  /\ at[r] = "save"
  /\ account' = "saved"
  /\ Go(r, "obtain")
  /\ UNCHANGED <<mode, cert, key, meta, issues, got, program, annals>>

\* A new certificate, and the file truncated for it.
Make(r) ==
  /\ made < MaxCerts
  /\ made' = made + 1
  /\ got' = [got EXCEPT ![r] = made + 1]
  /\ cert' = Torn
  /\ Go(r, "fillCert")

(* SetProvider and Obtain, with writeCert's first step.                    *)
Obtain(r) ==
  /\ at[r] = "obtain"
  /\ Make(r)
  /\ UNCHANGED <<mode, key, account, meta, self, due, program, annals>>

(* ACME fails to register an account or to give a certificate.             *)
AcmeFails(r) ==
  /\ at[r] \in {"register", "obtain"}
  /\ Fail(r)
  /\ UNCHANGED <<mode, cert, key, account, issues, program, alone, soiled>>

(* generateSelfSslCertificate, up to its first step on the files.          *)
Generate(r) ==
  /\ at[r] = "generate"
  /\ Make(r)
  /\ self' = self \cup {made + 1}
  /\ UNCHANGED <<mode, key, account, meta, due, program, annals>>

(* No key, no certificate or no directory for them.                        *)
GenerateFails(r) ==
  /\ at[r] = "generate"
  /\ got' = [got EXCEPT ![r] = NoCert]
  /\ Go(r, "done")
  /\ UNCHANGED <<mode, files, issues, program, annals>>

FillCert(r) ==
  /\ at[r] = "fillCert"
  /\ cert' = got[r]
  /\ Go(r, "truncKey")
  /\ UNCHANGED <<mode, key, account, meta, issues, got, program, annals>>

\* A key file that is there is kept.
TruncateKeyMissing(r) ==
  /\ at[r] = "truncKey"
  /\ key' = IF key = NoCert THEN Torn ELSE key
  /\ Go(r, IF key = NoCert THEN "fillKey" ELSE "load")
  /\ UNCHANGED <<mode, cert, account, meta, issues, got, program, annals>>

TruncateKey(r) ==
  /\ at[r] = "truncKey"
  /\ key' = Torn
  /\ Go(r, "fillKey")
  /\ UNCHANGED <<mode, cert, account, meta, issues, got, program, annals>>

FillKey(r) ==
  /\ at[r] = "fillKey"
  /\ key' = got[r]
  /\ Go(r, "load")
  /\ soiled' = (soiled /\ r \notin alone)
  /\ UNCHANGED <<mode, cert, account, meta, issues, got, program, alone, heard>>

(* loadCertificate of the file that was written.                           *)
Load(r) ==
  /\ at[r] = "load"
  /\ IF cert \in Certs THEN Have(r) ELSE Fail(r)
  /\ alone' = alone \ {r}
  /\ UNCHANGED <<mode, cert, key, account, issues, program, soiled>>

FillMeta(r) ==
  /\ at[r] = "fillMeta"
  /\ meta' = got[r]
  /\ Go(r, "done")
  /\ UNCHANGED <<mode, cert, key, account, issues, got, program, annals>>

\* Request r is over.
End(r) ==
  /\ at[r] = "done"
  /\ role' = [role EXCEPT ![r] = "none"]
  /\ at' = [at EXCEPT ![r] = "none"]
  /\ previous' = [previous EXCEPT ![r] = NoCert]
  /\ got' = [got EXCEPT ![r] = NoCert]
  /\ alone' = alone \ {r}

----------------------------------------------------------------------------
(* The renewal task.                                                       *)

(* It runs at once when a controller starts, and every day; a task's       *)
(* executions do not overlap within a day.                                 *)
RenewCertTask(r) ==
  /\ life = "up" /\ mode \in {"managed", "auto"}
  /\ \A q \in Requests : role[q] # "renew"
  /\ Begin(r, "renew")
  /\ UNCHANGED <<mode, files, issues, program, annals>>

\* certMetadataChanged: a certificate the metadata did not describe.
Changed(r) == got[r] # NoCert /\ got[r] # previous[r]

\* What an execution finds unchanged if it reads the metadata last.
EndRenewalLast(r) ==
  /\ role[r] \in {"renew", "late"}
  /\ End(r)
  /\ event' = (event \/ (got[r] # NoCert /\ got[r] # meta))
  /\ heard' = IF got[r] # NoCert /\ got[r] # meta THEN heard \cup {got[r]} ELSE heard
  /\ UNCHANGED <<mode, files, issues, life, crashes, soiled>>

(* It is over, and requests a reload for a changed certificate.  An event  *)
(* that finds another one in the channel is dropped, which is as good.     *)
EndRenewal(r) ==
  /\ role[r] \in {"renew", "late"}
  /\ End(r)
  /\ event' = (event \/ Changed(r))
  /\ heard' = IF Changed(r) THEN heard \cup {got[r]} ELSE heard
  /\ UNCHANGED <<mode, files, issues, life, crashes, soiled>>

----------------------------------------------------------------------------
(* Starts, reloads, crashes.                                               *)

StartProgram(r) ==
  /\ life = "down"
  /\ life' = "starting"
  /\ Begin(r, "prepare")
  /\ UNCHANGED <<mode, files, issues, event, crashes, annals>>

(* A reload for the certificate, whose failure ends the program            *)
(* (isFatalReloadFailure), or for another reason, with which it may or may *)
(* not.                                                                    *)
BeginReload(r) ==
  /\ life = "up"
  /\ \A q \in Requests : ~Preparing(q)
  /\ \/ event /\ event' = FALSE /\ Begin(r, "prepare")
     \/ UNCHANGED event /\ (Begin(r, "prepare") \/ Begin(r, "attempt"))
  /\ UNCHANGED <<mode, files, issues, life, crashes, annals>>

(* The first runtime starts.                                               *)
Started(r) ==
  /\ life = "starting" /\ got[r] # NoCert
  /\ End(r)
  /\ life' = "up"
  /\ UNCHANGED <<mode, files, issues, event, crashes, soiled, heard>>

(* The old runtime stays: the certificate is no part of a runtime's        *)
(* signature, so that a reload for it alone is skipped, and a failed one   *)
(* may be survived.                                                        *)
ReloadKeeps(r) ==
  /\ Preparing(r) /\ life = "up"
  /\ got[r] # NoCert \/ role[r] = "attempt"
  /\ End(r)
  /\ UNCHANGED <<mode, files, issues, program, soiled, heard>>

(* The old runtime is replaced.  An execution of its renewal task goes on. *)
ReloadReplaces(r) ==
  /\ Preparing(r) /\ life = "up"
  /\ at[r] = "done" /\ got[r] # NoCert
  /\ role' = [q \in Requests |-> IF q = r THEN "none"
                                 ELSE IF role[q] = "renew" THEN "late" ELSE role[q]]
  /\ at' = [at EXCEPT ![r] = "none"]
  /\ previous' = [previous EXCEPT ![r] = NoCert]
  /\ got' = [got EXCEPT ![r] = NoCert]
  /\ UNCHANGED <<mode, files, issues, program, annals>>

\* The program ends; a request in the middle of the files is cut.
Stop ==
  /\ life' = "down"
  /\ role' = [r \in Requests |-> "none"]
  /\ at' = [r \in Requests |-> "none"]
  /\ previous' = [r \in Requests |-> NoCert]
  /\ got' = [r \in Requests |-> NoCert]
  /\ event' = FALSE
  /\ alone' = {}
  /\ soiled' = (soiled \/ \E r \in Requests : Writing(r))
  /\ UNCHANGED <<mode, files, issues, heard>>

(* Prepare fails, at the start or in a reload that must not.               *)
Exit(r) ==
  /\ role[r] = "prepare" /\ at[r] = "done" /\ got[r] = NoCert
  /\ Stop
  /\ UNCHANGED crashes

Crash ==
  /\ life # "down"
  /\ crashes < MaxCrashes
  /\ crashes' = crashes + 1
  /\ Stop

(* A certificate of an authority comes near its end.                       *)
ComesDue ==
  /\ cert \in Certs \ (self \cup due)
  /\ due' = due \cup {cert}
  /\ UNCHANGED <<mode, files, made, self, requests, program, annals>>

Step(r) ==
  \/ Check(r) \/ Reread(r)
  \/ LoadAccount(r) \/ Register(r) \/ SaveAccount(r)
  \/ Obtain(r) \/ AcmeFails(r) \/ Generate(r) \/ GenerateFails(r)
  \/ FillCert(r) \/ TruncateKey(r) \/ FillKey(r) \/ Load(r) \/ FillMeta(r)
  \/ EndRenewal(r) \/ Started(r) \/ ReloadKeeps(r) \/ ReloadReplaces(r) \/ Exit(r)

CertNext ==
  \/ \E r \in Requests : Step(r) \/ RenewCertTask(r) \/ StartProgram(r) \/ BeginReload(r)
  \/ Crash \/ ComesDue

(* Requests come to an end, the service manager starts the program and the *)
(* task its executions, and of the requests to ACME some one succeeds.     *)
CertFairness ==
  /\ \A r \in Requests : WF_certVars(Step(r))
  /\ SF_certVars(\E r \in Requests : Register(r) \/ Obtain(r))
  /\ WF_certVars(\E r \in Requests : StartProgram(r))
  /\ WF_certVars(\E r \in Requests : RenewCertTask(r))

CertSpec == CertInit /\ [][CertNext]_certVars /\ CertFairness

----------------------------------------------------------------------------
(* Properties.                                                             *)

(* Every variable keeps to its range, and certificates exist before they   *)
(* are due or heard of (requestCertAndReport, cert.go).                    *)
CertTypeOK ==
  /\ cert \in Certs \cup {NoCert, Torn} /\ key \in Certs \cup {NoCert, Torn}
  /\ account \in {"absent", "torn", "saved"} /\ meta \in Certs \cup {NoCert}
  /\ made \in 0..MaxCerts /\ self \subseteq 1..made /\ due \subseteq (1..made) \ self
  /\ role \in [Requests -> {"none", "prepare", "attempt", "renew", "late"}]
  /\ previous \in [Requests -> Certs \cup {NoCert}]
  /\ got \in [Requests -> Certs \cup {NoCert}]
  /\ \A r \in Requests : (at[r] = "none") <=> (role[r] = "none")
  /\ life \in {"down", "starting", "up"} /\ crashes \in 0..MaxCrashes
  /\ alone \subseteq {r \in Requests : role[r] # "none"} /\ soiled \in BOOLEAN
  /\ heard \subseteq 1..made

(* Unless a request is at it, the key in the one file is that of the       *)
(* certificate in the other, but for what a cut (by a crash, or by the     *)
(* exit of a failed reload) or two requests that issue at a time have left *)
(* (cert.go:539, lego.go:163), up to the next request that issues alone.   *)
PairMatches ==
  ~soiled /\ (\A r \in Requests : ~Writing(r)) => cert = key

(* A certificate that is not due is overwritten, by a self-signed one or   *)
(* another, only by requests that overlap or mend what was cut.            *)
ValidKept ==
  [][mode # "file" /\ cert \in Certs \ (self \cup due) /\ cert' # cert => soiled]_certVars

(* What the metadata describes while nothing runs, so that no renewal will *)
(* ever take it for a change, is what a reload was requested for or a      *)
(* Prepare has seen (requestCertAndReport).                                *)
ChangeHeard ==
  life = "up" /\ (\A r \in Requests : role[r] = "none") => meta \in heard \cup {NoCert}

(* A due certificate is replaced, if ACME works now and then, unless the   *)
(* program was ended while it wrote the account, which nothing mends: all  *)
(* later requests fail on the file (lego.go:282).  (That the bound leaves  *)
(* no certificate to make is no matter either, if the last one is due or   *)
(* its files are not whole.)                                               *)
Renewed ==
  (mode \in {"managed", "auto"} /\ cert \in due)
    ~> \/ cert \notin due /\ cert # Torn
       \/ account = "torn"
       \/ made = MaxCerts /\ (cert \in due \/ soiled)

Steps == {"none", "check", "reread", "account", "register", "save", "obtain", "generate",
          "fillCert", "truncKey", "fillKey", "load", "fillMeta", "done"}
Holding == {"fillCert", "truncKey", "fillKey", "load", "fillMeta"}

\* Where requests are, and that they have a certificate in the steps that use
\* it, and none at first.
RequestShape ==
  /\ role \in [Requests -> {"none", "prepare", "attempt", "renew", "late"}]
  /\ at \in [Requests -> Steps]
  /\ previous \in [Requests -> (1..made) \cup {NoCert}]
  /\ got \in [Requests -> (1..made) \cup {NoCert}]
  /\ \A r \in Requests : (at[r] = "none") <=> (role[r] = "none")
  /\ \A r \in Requests : at[r] \in Holding => got[r] # NoCert
  /\ \A r \in Requests : at[r] \in {"none", "check"} => got[r] = NoCert

\* Strengthening of CertTypeOK: what is in the files and what requests have
\* was made.
CertShape ==
  /\ mode \in {"file", "self", "managed", "auto"}
  /\ made \in 0..MaxCerts
  /\ cert \in (1..made) \cup {NoCert, Torn} /\ key \in Certs \cup {NoCert, Torn}
  /\ account \in {"absent", "torn", "saved"} /\ meta \in (1..made) \cup {NoCert}
  /\ self \subseteq 1..made /\ due \subseteq (1..made) \ self
  /\ RequestShape
  /\ life \in {"down", "starting", "up"} /\ crashes \in 0..MaxCrashes
  /\ soiled \in BOOLEAN /\ heard \subseteq 1..made

\* A request that is alone is the only one that issues, and finds in the
\* certificate file what it has put there; or it has failed.
Alone ==
  /\ alone \subseteq Requests
  /\ \A r \in alone :
       /\ Issuing(r) \/ (at[r] = "done" /\ got[r] = NoCert)
       /\ Issuing(r) => \A q \in Requests \ {r} : ~Issuing(q)
       /\ at[r] = "fillCert" => cert = Torn
       /\ at[r] \in {"truncKey", "fillKey", "load"} => cert = got[r]

\* Strengthening of PairMatches, and of ValidKept: unless the files are soiled
\* every request that issues is alone, and has found no valid certificate.
Clean ==
  ~soiled =>
    /\ \A r \in Requests : Issuing(r) => r \in alone
    /\ (\A r \in Requests : ~Writing(r)) => cert = key
    /\ \A r \in Requests :
         at[r] \in {"account", "register", "save", "obtain", "generate"}
           => cert \notin Certs \ (self \cup due)

\* A renewal that is over or nearly so will request a reload for c.
WillTell(c) ==
  \E q \in Requests :
    /\ role[q] \in {"renew", "late"} /\ at[q] \in {"fillMeta", "done"}
    /\ got[q] = c /\ previous[q] # c

\* A certificate that was heard of, or that a renewal will tell of.
Known(c) == c \in heard \cup {NoCert} \/ WillTell(c)

\* Strengthening of ChangeHeard: what the metadata describes, or a renewal has
\* read there, is known, and the first runtime starts with what it describes.
Heard ==
  /\ \A r \in Requests :
       Preparing(r) /\ at[r] \in {"fillMeta", "done"} => got[r] \in heard \cup {NoCert}
  /\ mode = "file" => meta = NoCert /\ \A r \in Requests : at[r] # "fillMeta"
  /\ life = "down" => \A r \in Requests : role[r] = "none"
  /\ life = "starting" =>
       /\ \A r \in Requests : role[r] \in {"none", "prepare"}
       /\ \A q, r \in Requests : role[q] # "none" /\ role[r] # "none" => q = r
       /\ \A r \in Requests : at[r] = "done" => got[r] = NoCert \/ meta \in {got[r], NoCert}
  /\ life = "up" =>
       /\ Known(meta)
       /\ \A r \in Requests : role[r] \in {"renew", "late"} => Known(previous[r])
============================================================================
