---------------------------- MODULE NodeSettings ----------------------------
(***************************************************************************)
(* api/zicboard/node.go with node/controller.go, node/task.go and          *)
(* core/inbound.go: what the panel says of one node, from its answer to    *)
(* the inbound that serves it.                                             *)
(*                                                                         *)
(* A client takes an answer once, by the hash of its body.  The monitor    *)
(* compares the fingerprint of a new answer with the one its controller    *)
(* took at the end of Prepare, after requestCert had rewritten CertInfo in *)
(* place; if they differ it requests a reload and keeps nothing of the     *)
(* answer, otherwise it takes over the intervals.  A reload has a client   *)
(* and an answer of its own, and is skipped when its fingerprint is that   *)
(* of the running info.                                                    *)
(*                                                                         *)
(* An answer is the fields that decide something, as JSON values where     *)
(* decoding decides; that the rest of it cannot be decoded or is not for   *)
(* this program is `refused`.  Reload models the reload itself, CertStore  *)
(* what requestCert does with the files.                                   *)
(***************************************************************************)
EXTENDS Naturals

CONSTANTS
  Answers,   \* what the panel says when the program is first started
  Changes,   \* what it may say later
  NoNode     \* in place of a node

VARIABLES
  answer,    \* the panel's answer now
  life,      \* the program: "down", "up"; "prepared" in a reload
  hash,      \* responseBodyHash of the running controller's client
  good,      \* history: the last of its answers that was decoded
  info,      \* c.info of the running controller
  mark,      \* its nodeFingerprint
  ensured,   \* CertMode for which its Prepare has requested the certificate
  renewing,  \* it has a renewal task
  inbound,   \* the inbound that serves it
  next,      \* c.info of the controller a reload has prepared
  asked,     \* the answer it was made from
  event,     \* the reload requested: "none", "node" for this monitor, "other"
  lost       \* history: the last reload was to bring that answer into force,
             \* but failed and the old runtime was kept, or it read a later
             \* answer and was skipped

client == <<hash, good>>
running == <<info, mark, ensured, renewing, inbound>>
prepared == <<next, asked>>
settingsVars == <<answer, life, client, running, prepared, event, lost>>

----------------------------------------------------------------------------
(* Decoding.                                                               *)

\* A JSON value: "number", "text" of a number, "bool"; anything else is 0.
flexibleInt(v) == IF v.is \in {"number", "text", "bool"} THEN v.of ELSE 0

NoTls == 0
Tls == 1
Reality == 2
Protocols == {"vless", "vmess", "trojan", "anytls", "shadowsocks", "hysteria2", "tuic"}
UsesNormalTLS == {"trojan", "anytls", "hysteria2", "tuic"}
AllowsReality == {"vless", "anytls"}

EffectiveSecurity(protocol, tls) ==
  CASE protocol = "shadowsocks" -> NoTls
    [] protocol # "shadowsocks" /\ tls = Reality ->
         IF protocol \in AllowsReality THEN Reality ELSE Tls
    [] OTHER -> IF protocol \in UsesNormalTLS THEN Tls ELSE tls

(* GetNodeInfo of a decodable answer.  The mode and the target of the      *)
(* certificate keep the panel's spelling: "odd" if requestCert would       *)
(* change it ("AUTO", "host:443").                                         *)
Decode(a) ==
  [type |-> a.protocol, tls |-> flexibleInt(a.tls),
   security |-> EffectiveSecurity(a.protocol, flexibleInt(a.tls)),
   mode |-> a.mode, odd |-> a.odd, network |-> a.network, settings |-> a.settings,
   pull |-> flexibleInt(a.pull), push |-> flexibleInt(a.push)]

\* A fingerprint that leaves out the transport as well.
CoreFingerprintShort(n) ==
  [n EXCEPT !.pull = 0, !.push = 0, !.network = "", !.settings = ""]

(* Everything but BaseConfig, which carries the intervals.                 *)
CoreFingerprint(n) == [n EXCEPT !.pull = 0, !.push = 0]

----------------------------------------------------------------------------
(* A controller from its information to its inbound.                       *)

Modes == {"", "none", "file", "self", "auto", "dns", "http"}

\* requestCert that works on a copy of CertInfo.
RequestedCopy(n) == n

(* requestCert rewrites CertInfo in place.                                 *)
Requested(n) == IF n.security = Tls THEN [n EXCEPT !.odd = FALSE] ELSE n

\* What Prepare asks for with a node: "" without TLS.
Wanted(n) == IF n.security = Tls THEN n.mode ELSE ""

\* Prepare can succeed: requestCert knows the mode.
Preparable(n) == n.security = Tls => n.mode \in Modes

\* A mode as the code compares it.
Named(n, modes) == ~n.odd /\ n.mode \in modes

\* buildVLess and buildVMess give no stream without network settings.
Streamless(n) == n.type \in {"vless", "vmess"} /\ n.settings = "absent"

Networked(n) == n.type \in {"vless", "vmess", "trojan", "anytls"} /\ ~Streamless(n)

(* buildInbound with the builder of the protocol fails for settings that   *)
(* are no object, and for an unknown network where it is used.             *)
Buildable(n) ==
  /\ n.settings # "list"
  /\ Networked(n) => n.network # "unknown"

\* What carries its connections, by the builder of the protocol.
Transport(n) ==
  CASE Networked(n) -> n.network
    [] n.type \in {"hysteria2", "tuic"} -> n.type
    [] OTHER -> "tcp"

\* What secures them.
Secured(n) ==
  CASE n.security = Tls /\ ~Named(n, {"none", ""}) -> "tls"
    [] n.security = Reality -> "reality"
    [] OTHER -> "no"

(* The inbound.                                                            *)
buildInbound(n) == [network |-> Transport(n), secured |-> Secured(n)]

\* startTasks: the task that renews the certificate.
Renews(n) == n.security = Tls /\ ~Named(n, {"none", "", "file", "self"})

\* A fingerprint that is taken once.
StartPreparedOnce(n) ==
  /\ info' = n
  /\ mark' = IF mark = NoNode THEN CoreFingerprint(n) ELSE mark
  /\ ensured' = Wanted(n)
  /\ renewing' = Renews(n)
  /\ inbound' = buildInbound(n)

(* The controller of a prepared node.                                      *)
StartPrepared(n) ==
  /\ info' = n
  /\ mark' = CoreFingerprint(n)
  /\ ensured' = Wanted(n)
  /\ renewing' = Renews(n)
  /\ inbound' = buildInbound(n)

\* What a client may be told, and what a controller may have.
Told == Answers \cup Changes
NodeInfos == {Decode(a) : a \in Told} \cup {Requested(Decode(a)) : a \in Told}

ASSUME ToldAssumption == \A a \in Told : a.odd \in BOOLEAN /\ a.refused \in BOOLEAN
ASSUME NoNodeAssumption ==
  NoNode \notin Told /\ \A n \in NodeInfos : NoNode \notin {n, CoreFingerprint(n), buildInbound(n)}

\* The answer the monitor has read last is not the one that runs.
Behind == CoreFingerprint(Requested(Decode(good))) # mark

\* No controller is left.
Gone ==
  /\ life' = "down"
  /\ info' = NoNode /\ mark' = NoNode /\ ensured' = "" /\ renewing' = FALSE
  /\ inbound' = NoNode /\ next' = NoNode
  /\ hash' = NoNode /\ good' = NoNode /\ asked' = NoNode
  /\ event' = "none" /\ lost' = FALSE

SettingsInit ==
  /\ answer \in Answers
  /\ life = "down"
  /\ info = NoNode /\ mark = NoNode /\ ensured = "" /\ renewing = FALSE
  /\ inbound = NoNode /\ next = NoNode
  /\ hash = NoNode /\ good = NoNode /\ asked = NoNode
  /\ event = "none" /\ lost = FALSE

(* The panel changes its mind.                                             *)
PanelChanges(a) ==
  /\ answer' = a
  /\ UNCHANGED <<life, client, running, prepared, event, lost>>

(* The program is started (by the service manager, external) and comes up, *)
(* or exits.                                                               *)
StartNode ==
  /\ life = "down"
  /\ ~answer.refused
  /\ LET n == Requested(Decode(answer)) IN
     /\ Preparable(n) /\ Buildable(n)
     /\ StartPrepared(n)
  /\ life' = "up"
  /\ hash' = answer /\ good' = answer
  /\ UNCHANGED <<answer, prepared, event, lost>>

----------------------------------------------------------------------------
(* nodeInfoMonitor: GetNodeInfo keeps the hash before it decodes.  With an *)
(* interval of zero every execution times out at once.                     *)

(* An answer that is refused is an error, and is not looked at again.      *)
LearnRefused ==
  /\ life \in {"up", "prepared"} /\ info.pull > 0
  /\ answer # hash /\ answer.refused
  /\ hash' = answer
  /\ UNCHANGED <<answer, life, good, running, prepared, event, lost>>

(* One with another fingerprint: a reload, which is not requested if one   *)
(* is waiting.                                                             *)
LearnCore ==
  /\ life \in {"up", "prepared"} /\ info.pull > 0
  /\ answer # hash /\ ~answer.refused
  /\ CoreFingerprint(Decode(answer)) # mark
  /\ hash' = answer /\ good' = answer
  /\ event' = (IF event = "none" THEN "node" ELSE event)
  /\ lost' = FALSE
  /\ UNCHANGED <<answer, life, running, prepared>>

(* One with the same: applyRuntimeNodeInfo.                                *)
LearnIntervals ==
  /\ life \in {"up", "prepared"} /\ info.pull > 0
  /\ answer # hash /\ ~answer.refused
  /\ CoreFingerprint(Decode(answer)) = mark
  /\ hash' = answer /\ good' = answer
  /\ info' = Decode(answer)
  /\ lost' = FALSE
  /\ UNCHANGED <<answer, life, mark, ensured, renewing, inbound, prepared, event>>

----------------------------------------------------------------------------
(* A reload, as far as this node goes.                                     *)

\* Something else requests one: another node, the configuration file.
OtherEvent ==
  /\ life # "down" /\ event = "none"
  /\ event' = "other"
  /\ UNCHANGED <<answer, life, client, running, prepared, lost>>

(* newPreparedRuntime: a client of its own, the answer, and Prepare.       *)
PrepareReload ==
  /\ life = "up" /\ event # "none"
  /\ ~answer.refused /\ Preparable(Decode(answer))
  /\ life' = "prepared"
  /\ next' = Requested(Decode(answer))
  /\ asked' = answer
  /\ event' = "none"
  /\ UNCHANGED <<answer, client, running, lost>>

(* The configuration file cannot be loaded: the old runtime is kept,       *)
(* whoever has asked for the reload.                                       *)
LoadFails ==
  /\ life = "up" /\ event # "none"
  /\ event' = "none"
  /\ lost' = Behind
  /\ UNCHANGED <<answer, life, client, running, prepared>>

(* The panel does not answer, or not for this program, or the certificate  *)
(* cannot be had: fatal when a node has asked for the reload, or for some  *)
(* other reasons (isFatalReloadFailure).                                   *)
PrepareFails ==
  /\ life = "up" /\ event # "none"
  /\ \/ Gone
     \/ /\ event = "other"
        /\ event' = "none"
        /\ lost' = Behind
        /\ UNCHANGED <<life, client, running, prepared>>
  /\ UNCHANGED answer

(* The signatures are equal: the old controller goes on as it is.  If the  *)
(* panel took back what the monitor had read, the monitor does not notice  *)
(* when it says so again.                                                  *)
SkipReload ==
  /\ life = "prepared"
  /\ CoreFingerprint(next) = CoreFingerprint(info)
  /\ life' = "up"
  /\ next' = NoNode /\ asked' = NoNode
  /\ lost' = Behind
  /\ UNCHANGED <<answer, client, running, event>>

(* They differ: closed, and replaced by the new one, unless its inbound    *)
(* cannot be built, which ends the program.                                *)
ReplaceNode ==
  /\ life = "prepared"
  /\ CoreFingerprint(next) # CoreFingerprint(info)
  /\ \/ /\ Buildable(next)
        /\ StartPrepared(next)
        /\ life' = "up"
        /\ hash' = asked /\ good' = asked
        /\ next' = NoNode /\ asked' = NoNode
        /\ lost' = FALSE
        /\ UNCHANGED event
     \/ ~Buildable(next) /\ Gone
  /\ UNCHANGED answer

SettingsNext ==
  \/ \E a \in Changes : PanelChanges(a)
  \/ StartNode \/ LearnRefused \/ LearnCore \/ LearnIntervals
  \/ OtherEvent \/ LoadFails \/ PrepareReload \/ PrepareFails \/ SkipReload \/ ReplaceNode

SettingsSpec == SettingsInit /\ [][SettingsNext]_settingsVars

----------------------------------------------------------------------------
(* Properties.                                                             *)

(* Nodes are there when the program is up, and the fingerprint a           *)
(* controller keeps is that of its node (Controller, controller.go).       *)
SettingsTypeOK ==
  /\ life \in {"down", "up", "prepared"}
  /\ event \in {"none", "node", "other"} /\ lost \in BOOLEAN
  /\ life = "down" <=> NoNode \in {hash, good, info, mark, inbound}
  /\ life # "down" =>
       /\ mark = CoreFingerprint(info)
       /\ info.security \in {NoTls, Tls, Reality, info.tls}
       /\ ~good.refused
  /\ (next # NoNode) <=> life = "prepared"

(* An inbound with TLS serves a certificate that the Prepare of its        *)
(* controller has requested in a mode that has one, a node that asks for   *)
(* TLS with a certificate has such an inbound, and its certificate, even a *)
(* self-signed one made in place of ACME's, is looked at for renewal if    *)
(* and only if the mode is one of ACME's, however the panel spells it:     *)
(* three places read the mode (cert.go:95, inbound.go:157, task.go:38),    *)
(* and the intervals may have brought another NodeInfo since.              *)
TlsServed ==
  life # "down" =>
    /\ inbound.secured = "tls" <=> ensured \notin {"", "none"}
    /\ renewing <=> ensured \in {"auto", "dns", "http"}
    /\ Wanted(info) = ensured

(* The node runs what its controller has last read from the panel, its     *)
(* transport and security at once when no reload is waiting or under way,  *)
(* unless the reload kept the old runtime, because the configuration file  *)
(* could not be loaded (server.go:184) or, requested for another reason,   *)
(* it could not be prepared (L189), or read a later answer that changed    *)
(* nothing (L197); its intervals as well, unless the panel spells the      *)
(* certificate oddly: then the reload is skipped, and the intervals are    *)
(* lost with it (task.go:83).                                              *)
Followed ==
  life = "up" /\ event = "none" /\ ~lost =>
    LET told == Requested(Decode(good)) IN
    /\ CoreFingerprint(told) = CoreFingerprint(info)
    /\ inbound = buildInbound(told)
    /\ good.odd \/ told = info

\* Strengthening of SettingsTypeOK and TlsServed: all a controller has follows
\* from its information, also after the monitor has taken over intervals.
SettingsShape ==
  /\ answer \in Told
  /\ life \in {"down", "up", "prepared"}
  /\ event \in {"none", "node", "other"} /\ lost \in BOOLEAN
  /\ life = "down" => hash = NoNode
  /\ life # "down" =>
       /\ hash \in Told /\ good \in Told /\ ~good.refused
       /\ info \in NodeInfos /\ Preparable(info) /\ (info.security = Tls => info.odd = FALSE)
       /\ mark = CoreFingerprint(info) /\ inbound = buildInbound(info)
       /\ ensured = Wanted(info) /\ renewing = Renews(info)
  /\ IF life = "prepared"
     THEN asked \in Told /\ ~asked.refused
          /\ next = Requested(Decode(asked)) /\ Preparable(next)
     ELSE next = NoNode

\* Strengthening of Followed: an answer that does not run yet is one that a
\* reload is to bring into force, or was lost; its intervals go with the rest.
Pursued ==
  life # "down" =>
    /\ ~Behind \/ event # "none" \/ life = "prepared" \/ lost
    /\ ~Behind => good.odd \/ info = Requested(Decode(good))
============================================================================
