----------------------------- MODULE MCServing -----------------------------
(***************************************************************************)
(* What stands between the panel's answer and a served connection: the     *)
(* settings of a node, the addresses and the speed of its users, and the   *)
(* way out.  The four parts share no variable, and a behaviour is one of   *)
(* one of them: the others stay as they are at first.                      *)
(***************************************************************************)
EXTENDS NodeSettings, DeviceLimit, SpeedLimit, Routing, TLC

VARIABLE part

\* Node settings: a node with TLS and what may become of it, and at the start
\* one of any protocol.
Number(n) == [is |-> "number", of |-> n]
Text(n) == [is |-> "text", of |-> n]
Word == [is |-> "word", of |-> 0]
Vless ==
  [protocol |-> "vless", tls |-> Number(1), mode |-> "auto", odd |-> FALSE,
   network |-> "ws", settings |-> "object", pull |-> Number(1), push |-> Number(1),
   refused |-> FALSE]
MCChanges ==
  {Vless,
   [Vless EXCEPT !.pull = Text(2)], [Vless EXCEPT !.pull = Word],
   [Vless EXCEPT !.odd = TRUE, !.push = Number(2)],
   [Vless EXCEPT !.settings = "list"], [Vless EXCEPT !.settings = "absent"],
   [Vless EXCEPT !.refused = TRUE]}
MCAnswers ==
  MCChanges \cup
  {[Vless EXCEPT !.protocol = p, !.tls = t, !.mode = m, !.odd = o, !.settings = "absent"] :
     p \in Protocols, t \in {Text(1), Number(2)}, m \in {"none", "self", "bogus"},
     o \in BOOLEAN}
    \cup {[Vless EXCEPT !.protocol = p, !.network = "unknown"] : p \in Protocols}

\* Addresses: the history is kept of one user at one address.
OnePair == {CHOOSE p \in Users \X Addrs : TRUE}

\* Ways out: an outbound that is defined twice, and builds or not; another
\* one; one without a tag.
MCOutbounds ==
  {[tag |-> "x", builds |-> TRUE], [tag |-> "x", builds |-> FALSE],
   [tag |-> "y", builds |-> TRUE], [tag |-> NoTag, builds |-> TRUE]}
MCWarpTag == <<"warp-1", "warp-2">>

Alike == Permutations(Conns)

ServingInit ==
  /\ part \in {"settings", "devices", "speed", "routes"}
  /\ SettingsInit /\ (part = "settings" \/ answer = Vless)
  /\ Init
  /\ SpeedInit /\ (part = "speed" \/ speed = Unknown)
  /\ RouteInit
  /\ part = "routes" \/ \A n \in Nodes : warp[n] = "off" /\ policy[n] = "block"

ServingNext ==
  /\ UNCHANGED part
  /\ \/ /\ part = "settings" /\ SettingsNext
        /\ UNCHANGED <<vars, speedVars, routeVars>>
     \/ /\ part = "devices" /\ Next
        /\ UNCHANGED <<settingsVars, speedVars, routeVars>>
     \/ /\ part = "speed" /\ SpeedNext
        /\ UNCHANGED <<settingsVars, vars, routeVars>>
     \/ /\ part = "routes" /\ RouteNext
        /\ UNCHANGED <<settingsVars, vars, speedVars>>

ServingSpec == ServingInit /\ [][ServingNext]_<<part, settingsVars, vars, speedVars, routeVars>>

(* The type invariant of the part.                                         *)
ServingTypeOK ==
  /\ part = "settings" => SettingsTypeOK
  /\ part = "devices" => TypeOK
  /\ part = "speed" => SpeedTypeOK
  /\ part = "routes" => RouteTypeOK
============================================================================
