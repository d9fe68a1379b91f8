---------------------------- MODULE MCSwarmRollout ----------------------------
(* The service that is deployed and another one of its stack.                *)
EXTENDS SwarmRollout
CONSTANTS svc1, svc2

MCServices == {svc1, svc2}
MCTarget == svc1
=============================================================================
