---------------------------- MODULE DeployVerdict ----------------------------
(***************************************************************************)
(* What a caller of the deploy gateway is promised about ONE release id,   *)
(* which is the idempotency key of POST /deploy.                           *)
(*                                                                         *)
(* The release may be deployed several times, one run after another.  A    *)
(* run is accepted, is `running' for a while, and is then decided once:    *)
(* `completed' or `failed'.  The gateway's record, its log file, restarts  *)
(* and supervisors are all absent here; DeployGateway is shown to          *)
(* implement this module.                                                  *)
(***************************************************************************)
EXTENDS Naturals

CONSTANT MaxRuns        \* bound on the number of accepted runs

VARIABLE seen           \* seen[r]: the last status a client could read for run r

Runs  == 1..MaxRuns
Final == {"completed", "failed"}

VerdictInit == seen = [r \in Runs |-> "unknown"]

\* A run is accepted only when no other run of the release is in progress.
Accept(r) ==
  /\ seen[r] = "unknown"
  /\ \A q \in Runs : seen[q] # "running"
  /\ \A q \in Runs : q > r => seen[q] = "unknown"
  /\ seen' = [seen EXCEPT ![r] = "running"]

\* The run ends; nothing ever changes its verdict again.
Decide(r) ==
  /\ seen[r] = "running"
  /\ \E v \in Final : seen' = [seen EXCEPT ![r] = v]

VerdictNext == \E r \in Runs : Accept(r) \/ Decide(r)

VerdictSpec == VerdictInit /\ [][VerdictNext]_seen

==============================================================================
