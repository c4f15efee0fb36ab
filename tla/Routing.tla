------------------------------ MODULE Routing ------------------------------
(***************************************************************************)
(* core/custom.go, outbound.go and warp.go, with routedDispatch of the     *)
(* dispatcher: which outbound a connection leaves through.  GetCustomConfig*)
(* makes one list of rules and one of outbounds from the routes of all     *)
(* nodes; the first rule that applies to a connection decides.             *)
(*                                                                         *)
(* The panel's routes are drawn as they are read.  Connections are of a    *)
(* node and a kind: a route matches some kinds (by domain, address, port   *)
(* or protocol), and one with an empty list all of its node, because its   *)
(* rule then has no other condition (xray).  An outbound of a route is a   *)
(* tag and a definition that builds or not.  Routes for dns add servers to *)
(* the resolver that all nodes share and touch no connection's way.        *)
(***************************************************************************)
EXTENDS Naturals, Sequences

CONSTANTS
  NumNodes,   \* nodes, in the order of infos
  Kinds,      \* kinds of connections
  Dns,        \* the kind of UDP to port 53
  Outbounds,  \* outbounds of routes: [tag, builds]
  NoTag,      \* the tag of an outbound without one
  WarpTag,    \* the tag of each node's WARP outbound
  NoValue,    \* in place of an outbound: no action_value, or one that does not parse
  MaxRoutes   \* bound: routes of the first node; of another one less

Nodes == 1..NumNodes
Direct == [tag |-> "Default", builds |-> TRUE]
Block == [tag |-> "block", builds |-> TRUE]
DnsOut == [tag |-> "dns_out", builds |-> TRUE]
Warp(n) == [tag |-> WarpTag[n], builds |-> TRUE]
Closed == [tag |-> "closed", builds |-> FALSE]

ASSUME KindsAssumption == Dns \in Kinds /\ NumNodes \in Nat \ {0} /\ MaxRoutes \in Nat
ASSUME OutboundAssumption ==
  /\ NoValue \notin Outbounds
  /\ \A o \in Outbounds :
       /\ o.builds \in BOOLEAN
       /\ o.tag \notin {"Default", "block", "dns_out", "closed"}
       /\ \A n \in Nodes : o.tag # WarpTag[n]
  /\ \A m, n \in Nodes : WarpTag[m] = WarpTag[n] => m = n
  /\ \A n \in Nodes : WarpTag[n] \notin {"Default", "block", "dns_out", "closed"}

VARIABLES
  warp,      \* warp_settings of each node: "off", "on"
  policy,    \* fail_policy: "block", "direct"
  failed,    \* nodes whose WARP outbound could not be built
  node,      \* the node GetCustomConfig is at; NumNodes + 1 when it is done
  read,      \* routes of that node it has read
  config,    \* the rules and the outbounds so far
  solo,      \* history: what they would be for each node alone
  claimed,   \* history: kinds of each node that a route of it names
  named      \* history: tags that routes of each node name

routeVars == <<warp, policy, failed, node, read, config, solo, claimed, named>>

----------------------------------------------------------------------------
(* Rules and outbounds.                                                    *)

AddRule(cfg, on, kinds, tag) ==
  [cfg EXCEPT !.rules = Append(@, [on |-> on, kinds |-> kinds, to |-> tag])]

\* hasOutboundWithTag keeps the first of a tag; one that does not build is
\* left out.
AddOutbound(cfg, o) ==
  IF (\E p \in cfg.outs : p.tag = o.tag) \/ ~o.builds THEN cfg
  ELSE [cfg EXCEPT !.outs = @ \cup {o}]

\* The rule only if the outbound is there.
AddTargetBuilt(cfg, n, kinds, o) ==
  LET with == AddOutbound(cfg, o) IN
  IF \E p \in with.outs : p.tag = o.tag THEN AddRule(with, {n}, kinds, o.tag) ELSE with

(* A route with an outbound of its own: the rule comes first.              *)
AddTarget(cfg, n, kinds, o) == AddOutbound(AddRule(cfg, {n}, kinds, o.tag), o)

(* The built-in outbounds, and the rule for DNS: nonWarpInboundTags.       *)
Defaults(nodes, w) ==
  LET plain == {n \in nodes : w[n] = "off"}
      empty == [rules |-> <<>>, outs |-> {Direct, Block, DnsOut}]
  IN  IF plain = {} THEN empty ELSE AddRule(empty, plain, {Dns}, "dns_out")

\* A rule for blocking that names no inbound.
AddRouteAnywhere(cfg, n, r, w) ==
  IF r.action = "block" THEN AddRule(cfg, Nodes, r.match, "block")
  ELSE IF r.out # NoValue /\ r.action = "route" THEN AddTarget(cfg, n, r.match, r.out)
  ELSE IF r.out # NoValue /\ r.action = "default_out" /\ w = "off"
  THEN AddTarget(cfg, n, Kinds, r.out)
  ELSE cfg

(* One route of node n, whose WARP setting is w.                           *)
AddRoute(cfg, n, r, w) ==
  CASE r.action = "block" -> AddRule(cfg, {n}, r.match, "block")
    [] r.action = "route" /\ r.out # NoValue -> AddTarget(cfg, n, r.match, r.out)
    [] r.action = "default_out" /\ r.out # NoValue /\ w = "off"
         -> AddTarget(cfg, n, Kinds, r.out)
    [] OTHER -> cfg

(* The catch-all of a node with WARP: its outbound, or what the policy     *)
(* says when it cannot be built.                                           *)
AddWarp(cfg, n, built, pol) ==
  CASE built -> AddRule(AddOutbound(cfg, Warp(n)), {n}, Kinds, WarpTag[n])
    [] ~built /\ pol = "block" -> AddRule(cfg, {n}, Kinds, "block")
    [] OTHER -> cfg

\* Whether the configuration builds: xray wants a target in every rule.
Builds(cfg) == \A i \in DOMAIN cfg.rules : cfg.rules[i].to # NoTag

\* The rules that apply to a connection.
Applying(cfg, n, k) ==
  {i \in DOMAIN cfg.rules : n \in cfg.rules[i].on /\ k \in cfg.rules[i].kinds}

\* The first of them.
PickRoute(cfg, n, k) ==
  CHOOSE i \in Applying(cfg, n, k) : \A j \in Applying(cfg, n, k) : i <= j

(* routedDispatch: the outbound of the rule, or none at all if that is     *)
(* missing; the first outbound of the list if no rule applies.             *)
routedDispatch(cfg, n, k) ==
  IF Applying(cfg, n, k) = {} THEN Direct
  ELSE LET to == cfg.rules[PickRoute(cfg, n, k)].to IN
       IF \E o \in cfg.outs : o.tag = to THEN CHOOSE o \in cfg.outs : o.tag = to
       ELSE Closed

----------------------------------------------------------------------------
(* GetCustomConfig, for a start or a reload.                               *)

Routes ==
  [action : {"dns", "block"}, match : {Kinds} \cup {{k} : k \in Kinds}, out : {NoValue}]
    \cup [action : {"route"}, match : {Kinds} \cup {{k} : k \in Kinds},
          out : Outbounds \cup {NoValue}]
    \cup [action : {"default_out"}, match : {Kinds}, out : Outbounds \cup {NoValue}]

\* What a build begins with.
Begun(w) ==
  /\ failed' = {}
  /\ node' = 1 /\ read' = 0
  /\ config' = Defaults(Nodes, w)
  /\ solo' = [n \in Nodes |-> Defaults({n}, w)]
  /\ claimed' = [n \in Nodes |-> {}]
  /\ named' = [n \in Nodes |-> {}]

RouteInit ==
  /\ warp \in [Nodes -> {"off", "on"}]
  /\ policy \in [Nodes -> {"block", "direct"}]
  /\ failed = {} /\ node = 1 /\ read = 0
  /\ config = Defaults(Nodes, warp)
  /\ solo = [n \in Nodes |-> Defaults({n}, warp)]
  /\ claimed = [n \in Nodes |-> {}]
  /\ named = [n \in Nodes |-> {}]

(* The next route of the node.                                             *)
ReadRoute(r) ==
  /\ node \in Nodes
  /\ read < (IF node = 1 THEN MaxRoutes ELSE MaxRoutes - 1)
  /\ read' = read + 1
  /\ config' = AddRoute(config, node, r, warp[node])
  /\ solo' = [solo EXCEPT ![node] = AddRoute(@, node, r, warp[node])]
  /\ LET used == \/ r.action = "block"
                 \/ r.out # NoValue /\ (r.action = "default_out" => warp[node] = "off") IN
     /\ claimed' = IF used THEN [claimed EXCEPT ![node] = @ \cup r.match] ELSE claimed
     /\ named' = IF used /\ r.out # NoValue
                 THEN [named EXCEPT ![node] = @ \cup {r.out.tag}] ELSE named
  /\ UNCHANGED <<warp, policy, failed, node>>

(* The end of a node: buildWarpOutbound, which fails if it cannot register *)
(* or keep an identity, is misconfigured or does not build.                *)
EndNode ==
  /\ node \in Nodes
  /\ \E built \in (IF warp[node] = "on" THEN BOOLEAN ELSE {FALSE}) :
       /\ IF warp[node] = "off" THEN UNCHANGED <<config, solo, failed>>
          ELSE /\ config' = AddWarp(config, node, built, policy[node])
               /\ solo' = [solo EXCEPT ![node] = AddWarp(@, node, built, policy[node])]
               /\ failed' = IF built THEN failed ELSE failed \cup {node}
  /\ node' = node + 1 /\ read' = 0
  /\ UNCHANGED <<warp, policy, claimed, named>>

(* A reload, after the panel may have changed the nodes.                   *)
BuildAgain ==
  /\ node \notin Nodes
  /\ warp' \in [Nodes -> {"off", "on"}]
  /\ policy' \in [Nodes -> {"block", "direct"}]
  /\ Begun(warp')

RouteNext == (\E r \in Routes : ReadRoute(r)) \/ EndNode \/ BuildAgain

RouteSpec == RouteInit /\ [][RouteNext]_routeVars

----------------------------------------------------------------------------
(* Properties.                                                             *)

\* A runtime is built from the configuration.
Built == node \notin Nodes /\ Builds(config)

(* Every variable keeps to its range; tags of outbounds are different      *)
(* (GetCustomConfig, custom.go).                                           *)
RouteTypeOK ==
  /\ warp \in [Nodes -> {"off", "on"}] /\ policy \in [Nodes -> {"block", "direct"}]
  /\ failed \subseteq {n \in Nodes : warp[n] = "on"}
  /\ node \in 1..(NumNodes + 1) /\ read \in 0..MaxRoutes
  /\ claimed \in [Nodes -> SUBSET Kinds]
  /\ \A cfg \in {config} \cup {solo[n] : n \in Nodes} :
       \A o, p \in cfg.outs : o.tag = p.tag => o = p

(* No connection leaves directly that was to go elsewhere: not one that a  *)
(* route of its node names, even if the outbound could not be built        *)
(* (custom.go:285), and none of a node with WARP, its DNS included, unless *)
(* WARP failed and the node's policy is "direct".                          *)
NoLeak ==
  Built => \A n \in Nodes, k \in Kinds :
    /\ k \in claimed[n] => routedDispatch(config, n, k) # Direct
    /\ warp[n] = "on" /\ (n \in failed => policy[n] = "block")
         => routedDispatch(config, n, k) \notin {Direct, DnsOut}

(* The connections of a node go where they would go if it were alone,      *)
(* whatever the panels of other nodes say, but for an outbound whose tag   *)
(* another node's routes name too: the first one is used for both          *)
(* (custom.go:279).  A route without a tag stops all nodes (L385).         *)
Isolated ==
  Built => \A n \in Nodes, k \in Kinds :
    \/ routedDispatch(config, n, k) = routedDispatch(solo[n], n, k)
    \/ \E m \in Nodes \ {n} :
         config.rules[PickRoute(config, n, k)].to \in named[m] \cap named[n]

\* Strengthening of RouteTypeOK: what rules and outbounds are made of.
Tags == {"block", "dns_out"} \cup {o.tag : o \in Outbounds} \cup {WarpTag[n] : n \in Nodes}
Outs == {Direct, Block, DnsOut} \cup Outbounds \cup {Warp(n) : n \in Nodes}
Rules == [on : SUBSET Nodes, kinds : SUBSET Kinds, to : Tags]
Configs == [rules : Seq(Rules), outs : SUBSET Outs]
Sound(cfg) ==
  /\ cfg \in Configs
  /\ {Direct, Block, DnsOut} \subseteq cfg.outs
  /\ \A o, p \in cfg.outs : o.tag = p.tag => o = p
RouteShape ==
  /\ warp \in [Nodes -> {"off", "on"}] /\ policy \in [Nodes -> {"block", "direct"}]
  /\ failed \subseteq {n \in Nodes : warp[n] = "on"}
  /\ node \in 1..(NumNodes + 1) /\ read \in 0..MaxRoutes
  /\ claimed \in [Nodes -> SUBSET Kinds]
  /\ named \in [Nodes -> SUBSET {o.tag : o \in Outbounds}]
  /\ Sound(config) /\ solo \in [Nodes -> Configs]
  /\ \A n \in Nodes : Sound(solo[n])

\* Some rule applies to a connection.
Ruled(cfg, n, k) ==
  \E i \in DOMAIN cfg.rules : n \in cfg.rules[i].on /\ k \in cfg.rules[i].kinds

\* Strengthening of NoLeak: the rules that are there when a node has been read.
Covered ==
  /\ \A n \in Nodes : \A k \in claimed[n] : Ruled(config, n, k)
  /\ \A i \in DOMAIN config.rules :
       config.rules[i].to = "dns_out" => \A n \in config.rules[i].on : warp[n] = "off"
  /\ \A n \in Nodes :
       n < node /\ warp[n] = "on" /\ (n \in failed => policy[n] = "block")
         => \A k \in Kinds : Ruled(config, n, k)

\* Strengthening of Isolated: the rules for a node are, in their order, those it
\* would have alone, and so are the outbounds with tags that are its own.
Follows(few, all, n, at) ==
  /\ at \in [DOMAIN few.rules -> DOMAIN all.rules]
  /\ \A i, j \in DOMAIN few.rules : i < j => at[i] < at[j]
  /\ \A i \in DOMAIN few.rules :
       /\ n \in few.rules[i].on /\ n \in all.rules[at[i]].on
       /\ few.rules[i].kinds = all.rules[at[i]].kinds
       /\ few.rules[i].to = all.rules[at[i]].to
  /\ \A j \in DOMAIN all.rules :
       n \in all.rules[j].on => \E i \in DOMAIN few.rules : at[i] = j
Foreign(n) == UNION {named[m] \cup {WarpTag[m]} : m \in Nodes \ {n}}
Embedded ==
  \A n \in Nodes :
    /\ \E at \in [DOMAIN solo[n].rules -> DOMAIN config.rules] : Follows(solo[n], config, n, at)
    /\ \A i \in DOMAIN config.rules :
         n \in config.rules[i].on
           => config.rules[i].to \in {"block", "dns_out", WarpTag[n]} \cup named[n]
    /\ \A o \in Outs : o.tag \notin Foreign(n) => (o \in config.outs <=> o \in solo[n].outs)
============================================================================
