---------------------------- MODULE WarpIdentity ----------------------------
(***************************************************************************)
(* core/warp.go: the identity a node with WARP shows to Cloudflare.        *)
(* resolveWarpRuntimeConfig runs in every build of a runtime, one at a     *)
(* time.  An identity the panel gives is used as it is; otherwise the one  *)
(* in the node's sidecar file, or a new one is registered and saved before *)
(* it is used.  The file is truncated and written in place, and the        *)
(* program may end at any step.                                            *)
(*                                                                         *)
(* What the panel sets goes before what was registered: "peer" is the      *)
(* public key of the peer, "endpoint" stands for its address, the node's   *)
(* own addresses and the reserved bytes, all of which follow one rule.     *)
(* Routing models what becomes of the outbound or of the error.            *)
(***************************************************************************)
EXTENDS Naturals

CONSTANTS
  PanelValues, \* values the panel may set
  Registered,  \* what the answer to a registration gives
  Default,     \* the default
  Unset,       \* no value
  NoIdentity,  \* no identity; no sidecar
  TornFile,    \* a sidecar that is truncated or cannot be used
  MaxKeys      \* bound: registrations

ASSUME ValuesAssumption ==
  /\ PanelValues \cap {Registered, Default, Unset} = {}
  /\ Registered # Default /\ Default # Unset /\ Registered # Unset
ASSUME MaxKeysAssumption == MaxKeys \in Nat

Fields == {"peer", "endpoint"}
Settings ==
  [mode : {"auto", "manual"}, private : BOOLEAN, set : [Fields -> PanelValues \cup {Unset}]]

\* Complete fields; identities of registrations, and what a runtime has.
Complete == [Fields -> PanelValues \cup {Registered, Default}]
Identities == [key : 1..MaxKeys, of : Complete]
Uses == [key : 0..MaxKeys, of : Complete, set : [Fields -> PanelValues \cup {Unset}]]

ASSUME IdentityAssumption ==
  NoIdentity # TornFile /\ {NoIdentity, TornFile} \cap (Identities \cup Uses) = {}

VARIABLES
  panel,       \* WarpSettings of the build
  build,       \* where resolveWarpRuntimeConfig is
  fresh,       \* the identity it has registered
  sidecar,     \* the sidecar file
  runtime,     \* the identity the current runtime uses, its key 0 if it is the
               \* panel's, and what the panel has set; NoIdentity without one
  keys,        \* registrations so far
  first,       \* history: the first registered identity that was used
  unread       \* history: the file was there and could not be read

warpVars == <<panel, build, fresh, sidecar, runtime, keys, first, unread>>

\* firstNonEmpty.
Or(value, other) == IF value # Unset THEN value ELSE other

HasManual(s) == s.private /\ s.set["peer"] # Unset

\* Fields of an identity: the panel's value, what is kept, the default.
Resolved(s, kept) ==
  [f \in Fields |-> Or(s.set[f], Or(kept[f], IF f = "peer" THEN Unset ELSE Default))]

WarpInit ==
  /\ panel \in Settings
  /\ build = "idle" /\ fresh = NoIdentity
  /\ sidecar = NoIdentity /\ runtime = NoIdentity
  /\ keys = 0 /\ first = NoIdentity /\ unread = FALSE

\* The build goes on with an identity, or without WARP's outbound; its
\* runtime takes the place of the current one, or is discarded.
Ends(s, id) ==
  /\ build' = "idle" /\ fresh' = NoIdentity
  /\ runtime' \in {runtime, IF id = NoIdentity THEN id
                            ELSE [key |-> id.key, of |-> Resolved(s, id.of), set |-> s.set]}
  /\ first' = IF first = NoIdentity /\ runtime' # runtime /\ id # NoIdentity /\ id.key > 0
              THEN id ELSE first

(* A runtime is built for what the panel says now: with a manual identity, *)
(* with an error if that is incomplete, or the sidecar is to be read.      *)
BeginBuild(s) ==
  /\ build = "idle"
  /\ panel' = s
  /\ \/ /\ HasManual(s)
        /\ Ends(s, [key |-> 0, of |-> [f \in Fields |-> Unset]])
     \/ /\ ~HasManual(s) /\ s.mode = "manual"
        /\ Ends(s, NoIdentity)
     \/ /\ ~HasManual(s) /\ s.mode = "auto"
        /\ build' = "load"
        /\ UNCHANGED <<runtime, fresh, first>>
  /\ UNCHANGED <<sidecar, keys, unread>>

(* loadWarpSidecar: any error is one, also that of a file that is there.   *)
LoadSidecar ==
  /\ build = "load"
  /\ \/ /\ sidecar \notin {NoIdentity, TornFile}
        /\ Ends(panel, sidecar)
        /\ UNCHANGED unread
     \/ /\ build' = "register"
        /\ unread' = (unread \/ sidecar \notin {NoIdentity, TornFile})
        /\ UNCHANGED <<runtime, fresh, first>>
  /\ UNCHANGED <<panel, sidecar, keys>>

(* registerWarpIdentity fails, or the answer has no peer and the panel     *)
(* sets none.                                                              *)
RegisterFails ==
  /\ build = "register"
  /\ Ends(panel, NoIdentity)
  /\ UNCHANGED <<panel, sidecar, keys, unread>>

\* An identity that is used before it is saved.
RegisterIdentityUsed(answer) ==
  /\ build = "register" /\ keys < MaxKeys
  /\ Resolved(panel, answer)["peer"] # Unset
  /\ keys' = keys + 1
  /\ fresh' = [key |-> keys', of |-> Resolved(panel, answer)]
  /\ runtime' = [key |-> keys', of |-> fresh'.of, set |-> panel.set]
  /\ first' = (IF first = NoIdentity THEN fresh' ELSE first)
  /\ build' = "save"
  /\ UNCHANGED <<panel, sidecar, unread>>

(* A new key, with what the panel sets in place of the answer's values.    *)
RegisterIdentity(answer) ==
  /\ build = "register" /\ keys < MaxKeys
  /\ Resolved(panel, answer)["peer"] # Unset
  /\ keys' = keys + 1
  /\ fresh' = [key |-> keys', of |-> Resolved(panel, answer)]
  /\ build' = "save"
  /\ UNCHANGED <<panel, sidecar, runtime, first, unread>>

(* saveWarpSidecar: the file is truncated, or cannot be opened.            *)
OpenSidecar ==
  /\ build = "save"
  /\ \/ /\ sidecar' = TornFile
        /\ build' = "write"
        /\ UNCHANGED <<runtime, fresh, first>>
     \/ Ends(panel, NoIdentity) /\ UNCHANGED sidecar
  /\ UNCHANGED <<panel, keys, unread>>

(* It is written, and the identity used; or the write fails.               *)
WriteSidecar ==
  /\ build = "write"
  /\ \/ /\ sidecar' = fresh
        /\ Ends(panel, fresh)
     \/ Ends(panel, NoIdentity) /\ UNCHANGED sidecar
  /\ UNCHANGED <<panel, keys, unread>>

(* The program ends, and is started again.                                 *)
EndBuild ==
  /\ build' = "idle" /\ fresh' = NoIdentity /\ runtime' = NoIdentity
  /\ UNCHANGED <<panel, sidecar, keys, first, unread>>

WarpNext ==
  \/ \E s \in Settings : BeginBuild(s)
  \/ \E answer \in [Fields -> {Registered, Unset}] : RegisterIdentity(answer)
  \/ LoadSidecar \/ RegisterFails \/ OpenSidecar \/ WriteSidecar \/ EndBuild

WarpSpec == WarpInit /\ [][WarpNext]_warpVars

----------------------------------------------------------------------------
(* Properties.                                                             *)

\* An identity of a registration, or of the panel.
Identity(id) ==
  /\ id.key \in 0..MaxKeys
  /\ id.of["peer"] # Unset /\ id.of["endpoint"] # Unset

(* Every variable keeps to its range, and identities are complete          *)
(* (warpRuntimeConfig, warp.go).                                           *)
WarpTypeOK ==
  /\ panel \in Settings
  /\ build \in {"idle", "load", "register", "save", "write"}
  /\ keys \in 0..MaxKeys /\ unread \in BOOLEAN
  /\ (fresh # NoIdentity) <=> build \in {"save", "write"}
  /\ \A id \in {fresh, sidecar, runtime, first} \ {NoIdentity, TornFile} : Identity(id)

(* A node that registers its identity itself goes on using the first one   *)
(* it has used, through failures, ends of the program and changes of the   *)
(* settings, unless the sidecar could not be read once (warp.go:126).  Its *)
(* fields are the panel's where it sets them, and else those of that       *)
(* registration, which are the panel's of that time where it set them      *)
(* then (L257, L262): what the panel takes back stays.                     *)
IdentityKept ==
  runtime # NoIdentity /\ ~unread =>
    \/ runtime.key = 0
    \/ /\ runtime.key = first.key
       /\ \A f \in Fields : runtime.of[f] = Or(runtime.set[f], first.of[f])

\* Strengthening of WarpTypeOK.
WarpShape ==
  /\ panel \in Settings
  /\ build \in {"idle", "load", "register", "save", "write"}
  /\ keys \in 0..MaxKeys /\ unread \in BOOLEAN
  /\ IF build \in {"save", "write"} THEN fresh \in Identities ELSE fresh = NoIdentity
  /\ sidecar \in Identities \cup {NoIdentity, TornFile}
  /\ first \in Identities \cup {NoIdentity}
  /\ runtime \in Uses \cup {NoIdentity}

\* Strengthening of IdentityKept: the first identity stays in the sidecar, and
\* no other one is registered.
FirstKept ==
  ~unread =>
    /\ first # NoIdentity => sidecar = first
    /\ build \in {"register", "save", "write"} => sidecar \in {NoIdentity, TornFile}
    /\ runtime # NoIdentity =>
         \/ runtime.key = 0
         \/ /\ first # NoIdentity /\ runtime.key = first.key
            /\ \A f \in Fields : runtime.of[f] = Or(runtime.set[f], first.of[f])
============================================================================
