---------------------------- MODULE MCDeployment ----------------------------
(***************************************************************************)
(* Deployment for TLC.  No action tells one device from another, nor one   *)
(* worker slot from another, so the safety runs use their permutations.    *)
(***************************************************************************)
EXTENDS DeploymentInvariant, TLC

Symmetry == Permutations(Devices) \cup Permutations(Orchestrators)
              \cup Permutations(Workers)
=============================================================================
