------------------------------ MODULE MCUpkeep ------------------------------
(***************************************************************************)
(* What the program keeps in files: the certificate of a node, its WARP    *)
(* identity, and the configuration it is told by.  The three parts share   *)
(* no variable, and a behaviour is one of one of them: the others stay as  *)
(* they are at first.                                                      *)
(***************************************************************************)
EXTENDS CertStore, WarpIdentity, ConfigWatch

VARIABLE part

CONSTANTS g1, g3

\* Contents of the configuration file: g3 has other nodes.
MCLocal == [c \in Good |-> c = g3]

UpkeepInit ==
  /\ part \in {"certificate", "identity", "watch"}
  /\ CertInit /\ (part = "certificate" \/ mode = "auto")
  /\ WarpInit
  /\ \/ part = "identity"
     \/ panel = [mode |-> "auto", private |-> FALSE, set |-> [f \in Fields |-> Unset]]
  /\ WatchInit /\ (part = "watch" \/ content = g1)

OfCertificate(A) == part = "certificate" /\ A /\ UNCHANGED <<part, warpVars, watchVars>>

UpkeepNext ==
  \/ OfCertificate(CertNext)
  \/ /\ part = "identity" /\ WarpNext
     /\ UNCHANGED <<part, certVars, watchVars>>
  \/ /\ part = "watch" /\ WatchNext
     /\ UNCHANGED <<part, certVars, warpVars>>

\* That of CertStore, for the behaviours that are its own.
UpkeepFairness == part = "certificate" => CertFairness

UpkeepSpec ==
  UpkeepInit /\ [][UpkeepNext]_<<part, certVars, warpVars, watchVars>> /\ UpkeepFairness

(* The type invariant of the part.                                         *)
UpkeepTypeOK ==
  /\ part = "certificate" => CertTypeOK
  /\ part = "identity" => WarpTypeOK
  /\ part = "watch" => WatchTypeOK
============================================================================
