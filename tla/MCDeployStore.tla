---------------------------- MODULE MCDeployStore ----------------------------
(***************************************************************************)
(* DeployStore under its most general client, for TLC.                     *)
(***************************************************************************)
EXTENDS DeployStore

\* The running version and the one being installed.
MCVersions == {"v1", "v2"}
==============================================================================
