------------------------------ MODULE DeployHost ------------------------------
(***************************************************************************)
(* The host a release is deployed to, and the processes that outlive the   *)
(* gateway there: the supervisor that executes a SupervisorPlan            *)
(* (supervisor/supervise.ts) and the restart script of an npm.node bundle  *)
(* (artifacts/restart.sh).  Each run of the release has at most one.  They *)
(* share deploy.log and the slot's state directory with the gateway, and   *)
(* when the gateway deploys itself they stop and start it.                 *)
(*                                                                         *)
(* The slot's state is what DeploymentStateService keeps on disk:          *)
(* state.json names a deployment, current/ holds the bundle of one; run 0  *)
(* is the deployment that was there before.                                *)
(***************************************************************************)
EXTENDS DeployStore

CONSTANTS
  Methods,         \* deploy methods a bundle may use
  Containerized,   \* those that run in a container (CONTAINERIZED_METHODS)
  Self,            \* TRUE: the release is the gateway's own, in its own slot
  SameVersion,     \* TRUE: the release is the version already installed
  CommandLines,    \* what the commands of a bundle print, a subset of Texts
  SupervisorMayDie \* TRUE: a supervisor may die at any point

ASSUME HostAssumption ==
  /\ Containerized \subseteq Methods
  /\ CommandLines \subseteq Texts
  /\ {Self, SameVersion, SupervisorMayDie} \subseteq BOOLEAN
  /\ {"old", "new"} \subseteq Versions

VARIABLES
  man,       \* manifest of each run's bundle; man[0] of the first deployment
  prior,     \* what state.json said when the run was resolved ({} for nothing)
  live,      \* modes of the slot that are up
  installed, \* the gateway version that boots
  state,     \* {r}: state.json describes run r; {}: get() finds nothing usable
  bundle,    \* {r}: current/ is the bundle of run r; {}: it is missing
  staged,    \* {r}: state.new.json describes run r
  sup,       \* where the outside process of each run stands
  deployed   \* history: the runs whose deploy command has exited with 0

hostVars == <<man, prior, live, installed, state, bundle, staged, sup, deployed>>

Deployments == 0..MaxRuns
Manifest    == [method : Methods, teardown : BOOLEAN]

\* Steps of supervise.ts, then those of restart.sh; an `orphan' is the deploy
\* command of a gateway that died before it returned.
Working ==
  {"waiting", "teardown", "deploy", "swapped", "commit", "commitSwap",
   "commitState", "exit0", "exit1", "rollback",
   "banner", "restart", "verify", "rsExit0", "rsExit1", "orphan"}
SupState == {"none", "succeeded", "failed", "dead"} \cup Working

\* A plausible bug, for the checks: the version with the prefix of its tag.
TargetTagged == IF SameVersion THEN "vold" ELSE "vnew"

Target == IF SameVersion THEN "old" ELSE "new"

Method(r)      == man[r].method
PriorOf(r)     == CHOOSE p \in prior[r] : TRUE
ModeChange(r)  == prior[r] # {} /\ Method(PriorOf(r)) # Method(r)
HasTeardown(r) == man[PriorOf(r)].teardown

\* A plausible bug, for the checks: `>' for `>>'.
SayAfresh(t, r) ==
  /\ dlog' = <<Ln(t, r)>>
  /\ UNCHANGED <<up, rec, meta, pend, runs>>

Goto(r, s) == sup' = [sup EXCEPT ![r] = s]
Say(t, r)  == ExternalAppend(Ln(t, r))
Quiet      == UNCHANGED <<up, rec, meta, dlog, pend, runs>>

HostTypeOK ==
  /\ man \in [Deployments -> Manifest]
  /\ prior \in [Runs -> SUBSET Deployments]
  /\ live \subseteq Methods
  /\ installed \in {"old", "new"}
  /\ {state, bundle, staged} \subseteq SUBSET Deployments
  /\ sup \in [Runs -> SupState]
  /\ deployed \subseteq Runs

\* The mode the gateway runs in is stopped or replaced under it.
Stops == IF Self /\ up THEN Die ELSE Quiet

-----------------------------------------------------------------------------
(* supervise.ts *)

SupBanner(r) ==
  /\ sup[r] = "waiting"
  /\ Goto(r, IF ModeChange(r) /\ HasTeardown(r) THEN "teardown" ELSE "deploy")
  /\ Say("text", r)
  /\ UNCHANGED <<man, prior, live, installed, state, bundle, staged, deployed>>

\* The teardown command runs in current/; if that is gone it cannot start.
SupTeardown(r) ==
  /\ sup[r] = "teardown"
  /\ bundle # {}
  /\ live' = live \ {Method(PriorOf(r))}
  /\ Stops
  /\ Goto(r, "deploy")
  /\ UNCHANGED <<man, prior, installed, state, bundle, staged, deployed>>

\* A failed teardown is reported and not fatal.
SupTeardownFails(r) ==
  /\ sup[r] = "teardown"
  /\ Goto(r, "deploy")
  /\ Say("text", r)
  /\ UNCHANGED <<man, prior, live, installed, state, bundle, staged, deployed>>

\* The deploy command brings the new release up: from here on it may boot.
SupSwap(r) ==
  /\ sup[r] = "deploy"
  /\ live' = live \cup {Method(r)}
  /\ installed' = Target
  /\ Stops
  /\ Goto(r, "swapped")
  /\ UNCHANGED <<man, prior, state, bundle, staged, deployed>>

\* ... and exits with 0.
SupDeployed(r) ==
  /\ sup[r] = "swapped"
  /\ deployed' = deployed \cup {r}
  /\ Goto(r, "commit")
  /\ Quiet
  /\ UNCHANGED <<man, prior, live, installed, state, bundle, staged>>

\* ... or fails, before or after the new release came up.
SupDeployFails(r) ==
  /\ sup[r] \in {"deploy", "swapped"}
  /\ staged' = {}
  /\ Goto(r, "exit1")
  /\ Say("text", r)
  /\ UNCHANGED <<man, prior, live, installed, state, bundle, deployed>>

\* commit(): copy, remove, rename, rename; any error is logged and ignored.
SupCommit(r) ==
  /\ sup[r] = "commit"
  /\ bundle' = {}
  /\ Goto(r, "commitSwap")
  /\ Quiet
  /\ UNCHANGED <<man, prior, live, installed, state, staged, deployed>>

SupCommitSwap(r) ==
  /\ sup[r] = "commitSwap"
  /\ bundle' = {r}
  /\ Goto(r, "commitState")
  /\ Quiet
  /\ UNCHANGED <<man, prior, live, installed, state, staged, deployed>>

SupCommitState(r) ==
  /\ sup[r] = "commitState"
  /\ staged # {}
  /\ state' = staged
  /\ staged' = {}
  /\ Goto(r, "exit0")
  /\ Quiet
  /\ UNCHANGED <<man, prior, live, installed, bundle, deployed>>

SupCommitFails(r) ==
  /\ sup[r] \in {"commit", "commitSwap", "commitState"}
  /\ Goto(r, "exit0")
  /\ Say("text", r)
  /\ UNCHANGED <<man, prior, live, installed, state, bundle, staged, deployed>>

SupExit0(r) ==
  /\ sup[r] = "exit0"
  /\ Goto(r, "succeeded")
  /\ Say("EXIT:0", r)
  /\ UNCHANGED <<man, prior, live, installed, state, bundle, staged, deployed>>

\* The failure is on record before the rollback, which may reboot the gateway.
SupExit1(r) ==
  /\ sup[r] = "exit1"
  /\ Goto(r, "rollback")
  /\ Say("EXIT:1", r)
  /\ UNCHANGED <<man, prior, live, installed, state, bundle, staged, deployed>>

SupRollback(r) ==
  /\ sup[r] = "rollback"
  /\ prior[r] # {} /\ bundle # {}
  /\ live' = live \cup {Method(PriorOf(r))}
  /\ installed' = "old"
  /\ Stops
  /\ Goto(r, "failed")
  /\ UNCHANGED <<man, prior, state, bundle, staged, deployed>>

\* The rollback command fails, or there is nothing to roll back to.
SupNoRollback(r) ==
  /\ sup[r] = "rollback"
  /\ Goto(r, "failed")
  /\ Quiet
  /\ UNCHANGED <<man, prior, live, installed, state, bundle, staged, deployed>>

\* The output of a command goes to the log line by line; that of the rollback
\* is filtered (runFiltered), so that it cannot contradict the EXIT above it.
SupOutput(r) ==
  /\ sup[r] \in {"teardown", "deploy", "swapped", "rollback"}
  /\ Room
  /\ \E l \in CommandLines :
       /\ sup[r] = "rollback" => ~IsExit(Ln(l, r))
       /\ Say(l, r)
  /\ UNCHANGED hostVars

Supervise(r) ==
  \/ SupOutput(r) \/ SupBanner(r) \/ SupTeardown(r) \/ SupTeardownFails(r)
  \/ SupSwap(r) \/ SupDeployed(r) \/ SupDeployFails(r)
  \/ SupCommit(r) \/ SupCommitSwap(r) \/ SupCommitState(r) \/ SupCommitFails(r)
  \/ SupExit0(r) \/ SupExit1(r) \/ SupRollback(r) \/ SupNoRollback(r)

-----------------------------------------------------------------------------
(* restart.sh, phase 2: detached, writes to deploy.log by itself *)

RsBanner(r) ==
  /\ sup[r] = "banner"
  /\ Goto(r, "restart")
  /\ Say("text", r)
  /\ UNCHANGED <<man, prior, live, installed, state, bundle, staged, deployed>>

\* pm2 restart: kills the gateway when that is the application deployed.  pm2
\* starts the script path it has registered, which may still be an old install.
RsRestart(r) ==
  /\ sup[r] = "restart"
  /\ Stops
  /\ installed' \in {installed, "old"}
  /\ Goto(r, "verify")
  /\ UNCHANGED <<man, prior, live, state, bundle, staged, deployed>>

\* no pm2, or it exits with an error
RsRestartFails(r) ==
  /\ sup[r] = "restart"
  /\ Goto(r, "rsExit1")
  /\ Say("text", r)
  /\ UNCHANGED <<man, prior, live, installed, state, bundle, staged, deployed>>

\* /status answered with the expected version, or never answered at all
RsVerified(r) ==
  /\ sup[r] = "verify"
  /\ Self => (up => installed = Target)
  /\ Goto(r, "rsExit0")
  /\ Say("text", r)
  /\ UNCHANGED <<man, prior, live, installed, state, bundle, staged, deployed>>

RsMismatch(r) ==
  /\ sup[r] = "verify"
  /\ Self => (up /\ installed # Target)
  /\ Goto(r, "rsExit1")
  /\ Say("text", r)
  /\ UNCHANGED <<man, prior, live, installed, state, bundle, staged, deployed>>

RsExit(r) ==
  /\ \/ sup[r] = "rsExit0" /\ Goto(r, "succeeded") /\ Say("EXIT:0", r)
     \/ sup[r] = "rsExit1" /\ Goto(r, "failed") /\ Say("EXIT:1", r)
  /\ UNCHANGED <<man, prior, live, installed, state, bundle, staged, deployed>>

Restart(r) ==
  \/ RsBanner(r) \/ RsRestart(r) \/ RsRestartFails(r)
  \/ RsVerified(r) \/ RsMismatch(r) \/ RsExit(r)

-----------------------------------------------------------------------------
\* The deploy command of a gateway that died runs on, and ends unobserved.
OrphanEnds(r) ==
  /\ sup[r] = "orphan"
  /\ \/ /\ live' = live \cup {Method(r)}
        /\ installed' = IF Self THEN Target ELSE installed
        /\ deployed' = deployed \cup {r}
        /\ Goto(r, IF Method(r) = "node" THEN "banner" ELSE "succeeded")
     \/ /\ Goto(r, "failed")
        /\ UNCHANGED <<live, installed, deployed>>
  /\ Quiet
  /\ UNCHANGED <<man, prior, state, bundle, staged>>

SupervisorDies(r) ==
  /\ SupervisorMayDie
  /\ sup[r] \in Working
  /\ Goto(r, "dead")
  /\ Quiet
  /\ UNCHANGED <<man, prior, live, installed, state, bundle, staged, deployed>>

HostInit ==
  /\ \E m \in Manifest : man = [d \in Deployments |-> m]  \* man[r]: set by the fetch
  /\ prior = [r \in Runs |-> {}]
  /\ installed = "old"
  /\ state \in {{}, {0}}          \* nothing is known of a slot never deployed to
  /\ bundle = state
  /\ live = IF Self \/ state # {} THEN {man[0].method} ELSE {}
  /\ staged = {}
  /\ sup = [r \in Runs |-> "none"]
  /\ deployed = {}

HostProgress(r) == Supervise(r) \/ Restart(r) \/ OrphanEnds(r)
HostStep(r)     == HostProgress(r) \/ SupervisorDies(r)

===============================================================================
