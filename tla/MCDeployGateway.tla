--------------------------- MODULE MCDeployGateway ---------------------------
(***************************************************************************)
(* DeployGateway for TLC.                                                  *)
(***************************************************************************)
EXTENDS DeployGateway

MCVersions      == {"old", "new"}
MCContainers    == {"compose", "swarm"}     \* an application in containers
MCSelfMethods   == {"node", "compose"}      \* the gateway's own two modes
MCSelfContainer == {"compose"}
MCText          == {"text"}
==============================================================================
