---------------------------- MODULE DeployGateway ----------------------------
(***************************************************************************)
(* One release deployed by the gateway service: the controller's           *)
(* runDeployAsync and its helpers (deploy/deploy.controller.ts) over the   *)
(* record of DeployStore, on the host of DeployHost, whose supervisors run *)
(* beside it and after it.                                                 *)
(*                                                                         *)
(* `flow' is where the promise started by POST /deploy stands: between two *)
(* of its awaits anything else may happen, and all of it is lost when the  *)
(* process dies.  The steps of save() are apart because it may die there.  *)
(***************************************************************************)
EXTENDS DeployHost

CONSTANTS
  MaxCrashes,      \* bound: how often the process dies of its own
  SlowSupervisor,  \* TRUE: an outside process may take longer than
                   \* TAIL_MAX_WAIT_MS
  TightRaces       \* TRUE: it may append between the moment a synchronous
                   \* method reads deploy.log and the write that follows

ASSUME GatewayAssumption ==
  MaxCrashes \in Nat /\ {SlowSupervisor, TightRaces} \subseteq BOOLEAN

VARIABLES
  flow,     \* what the promise of the current run does next
  crashes   \* how often the process died of its own (bound)

flowVars == <<flow, crashes>>
vars == <<storeVars, hostVars, flowVars>>

Flow ==
  {"idle", "fetch", "prepare", "resolve", "stage", "launch", "teardown",
   "deploy", "save", "saveRename", "saveJson", "report", "rollback"}

cur == rec.run                        \* the run in the gateway's hands
OldMode == Method(PriorOf(cur))
Free == Quiescent /\ IsRunning        \* the promise may go on
At(f) == flow = f /\ Free
Then(f) == flow' = f

\* supervisorPlacement
Placement(from, to) ==
  CASE from \notin Containerized -> "bare"
    [] from \in Containerized /\ to \in Containerized -> "container"
    [] OTHER -> "unsupported"

One == <<Ln("text", rec.run)>>        \* one message of the service
Fail == Finish(One, 1) /\ Then("idle")
Same(vs) == UNCHANGED <<vs, crashes>>

-----------------------------------------------------------------------------
(* triggerDeploy and the preparation of the bundle *)

\* A release that is running is only observed (200); else a run starts (202).
Trigger ==
  /\ Start
  /\ Then("fetch")
  /\ Same(hostVars)

\* fetchDeployBundle
Fetched ==
  /\ At("fetch")
  /\ AppendLines(One)
  /\ \E m \in Manifest : man' = [man EXCEPT ![cur] = m]
  /\ Then("prepare")
  /\ Same(<<prior, live, installed, state, bundle, staged, sup, deployed>>)

\* prepareSharedStorage, prepareStorageMigrations, prepareSeedStorage
Prepared ==
  /\ At("prepare")
  /\ Then("resolve")
  /\ UNCHANGED <<up, rec, meta, dlog, pend, runs>>
  /\ Same(hostVars)

PreparationFails ==
  /\ At("fetch") \/ At("prepare")
  /\ Fail
  /\ Same(hostVars)

-----------------------------------------------------------------------------
(* The slot's state is read and decides how to go on. *)

\* A slot without state never changes mode.
Changes == state # {} /\ LET p == CHOOSE p \in state : TRUE
                         IN  Method(p) # Method(cur)
StateMode == Method(CHOOSE p \in state : TRUE)

ReadState == prior' = [prior EXCEPT ![cur] = state]

\* startSelfModeChange, refuseModeChange: nothing has been torn down yet
Refuse ==
  /\ At("resolve")
  /\ Self /\ Changes
  /\ Placement(StateMode, Method(cur)) = "unsupported"
  /\ ReadState
  /\ Fail
  /\ Same(<<man, live, installed, state, bundle, staged, sup, deployed>>)

\* The run is marked as a self update before anything can kill the process.
MarkSelfUpdate ==
  /\ At("resolve")
  /\ Self
  /\ Changes => Placement(StateMode, Method(cur)) # "unsupported"
  /\ ReadState
  /\ SetSelfUpdate(Target)
  /\ Then(IF Changes \/ Method(cur) \in Containerized THEN "stage" ELSE "deploy")
  /\ Same(<<man, live, installed, state, bundle, staged, sup, deployed>>)

\* Another application: its old mode is torn down first, if it can be.
ResolveOther ==
  /\ At("resolve")
  /\ ~Self
  /\ ReadState
  /\ AppendLines(One)
  /\ Then(IF Changes /\ man[CHOOSE p \in state : TRUE].teardown
          THEN "teardown" ELSE "deploy")
  /\ Same(<<man, live, installed, state, bundle, staged, sup, deployed>>)

-----------------------------------------------------------------------------
(* A supervisor takes over: startSelfModeChange, startSelfRedeploy *)

\* stageState
Stage ==
  /\ At("stage")
  /\ staged' = {cur}
  /\ Then("launch")
  /\ UNCHANGED <<up, rec, meta, dlog, pend, runs>>
  /\ Same(<<man, prior, live, installed, state, bundle, sup, deployed>>)

\* The sibling container survives what kills a child of this one.
Sibling == ModeChange(cur) => OldMode \in Containerized

\* startSupervisor: plan written, supervisor started, log tailed
Launched ==
  /\ At("launch")
  /\ Goto(cur, "waiting")
  /\ StartTail(One)
  /\ Then("idle")
  /\ Same(<<man, prior, live, installed, state, bundle, staged, deployed>>)

\* ... the plan cannot be written, or the supervisor not be started: its CLI
\* is missing, or docker run fails
LaunchFails ==
  /\ At("launch")
  /\ Fail
  /\ Same(hostVars)

\* When resolveSelfContainer finds no container of the slot, or several, there
\* is no sibling: the mode change is refused ...
ModeChangeAlone ==
  /\ At("launch")
  /\ Sibling /\ ModeChange(cur)
  /\ staged' = {}
  /\ Fail
  /\ Same(<<man, prior, live, installed, state, bundle, sup, deployed>>)

\* ... and the redeploy run inline, which may kill this container.
RedeployAlone ==
  /\ At("launch")
  /\ Sibling /\ ~ModeChange(cur)
  /\ staged' = {}
  /\ AppendLines(One) /\ Then("deploy")
  /\ Same(<<man, prior, live, installed, state, bundle, sup, deployed>>)

-----------------------------------------------------------------------------
(* The commands the gateway runs itself (runDeploy, runShell) *)

Output ==
  /\ At("teardown") \/ At("deploy") \/ At("rollback")
  /\ Room
  /\ \E l \in CommandLines : AppendLines(<<Ln(l, cur)>>)
  /\ Then(flow)
  /\ Same(hostVars)

TeardownDone ==
  /\ At("teardown")
  /\ bundle # {}
  /\ live' = live \ {OldMode}
  /\ AppendLines(One)
  /\ Then("deploy")
  /\ Same(<<man, prior, installed, state, bundle, staged, sup, deployed>>)

\* A plausible bug, for the checks: the deploy goes on regardless.
TeardownFailsOn ==
  /\ At("teardown")
  /\ bundle # {}
  /\ live' \in {live, live \ {OldMode}}
  /\ AppendLines(One)
  /\ Then("deploy")
  /\ Same(<<man, prior, installed, state, bundle, staged, sup, deployed>>)

TeardownFails ==
  /\ At("teardown")
  /\ bundle # {}
  /\ live' \in {live, live \ {OldMode}}
  /\ Fail
  /\ Same(<<man, prior, installed, state, bundle, staged, sup, deployed>>)

\* spawn() fails in a directory that is gone, the rejection is not handled,
\* and Node ends the process.
Unhandled ==
  /\ At("teardown") \/ At("rollback")
  /\ bundle = {}
  /\ Die
  /\ Then("idle")
  /\ Same(hostVars)

\* The deploy command replaces what is installed before it ends.
Installs ==
  /\ At("deploy")
  /\ Self /\ Method(cur) \notin Containerized
  /\ installed # Target
  /\ installed' = Target
  /\ Then(flow)
  /\ UNCHANGED <<up, rec, meta, dlog, pend, runs>>
  /\ Same(<<man, prior, live, state, bundle, staged, sup, deployed>>)

\* npm.node: the command starts restart.sh in a new session before it ends.
DeployDone ==
  /\ At("deploy")
  /\ live' = live \cup {Method(cur)}
  /\ installed' = IF Self THEN Target ELSE installed
  /\ deployed' = deployed \cup {cur}
  /\ sup' = [sup EXCEPT ![cur] = IF Method(cur) = "node" THEN "banner" ELSE @]
  /\ Then("save")
  /\ UNCHANGED <<up, rec, meta, dlog, pend, runs>>
  /\ Same(<<man, prior, state, bundle, staged>>)

\* A plausible bug, for the checks: the exit code is not looked at.
DeployFailsUnseen ==
  /\ At("deploy")
  /\ live' \in {live, live \cup {Method(cur)}}
  /\ AppendLines(One)
  /\ Then("report")
  /\ Same(<<man, prior, installed, state, bundle, staged, sup, deployed>>)

\* A mode that failed may still have come up in part.
DeployFails ==
  /\ At("deploy")
  /\ live' \in {live, live \cup {Method(cur)}}
  /\ IF ModeChange(cur) THEN AppendLines(One) /\ Then("rollback")
                      ELSE Fail
  /\ Same(<<man, prior, installed, state, bundle, staged, sup, deployed>>)

\* A plausible bug, for the checks: the run is not finished after it.
RollbackUnfinished ==
  /\ At("rollback")
  /\ bundle # {}
  /\ AppendLines(One)
  /\ Then("idle")
  /\ Same(hostVars)

RollbackDone ==
  /\ At("rollback")
  /\ bundle # {}
  /\ \/ live' = live \cup {OldMode}
     \/ UNCHANGED live
  /\ Fail
  /\ Same(<<man, prior, installed, state, bundle, staged, sup, deployed>>)

\* Run inline, the command that replaces the gateway's own container kills it
\* in the window in which neither container is up.
KilledInSwap ==
  /\ At("deploy")
  /\ Self /\ Method(cur) \in Containerized
  /\ live' = {}
  /\ Die
  /\ Then("idle")
  /\ Same(<<man, prior, installed, state, bundle, staged, sup, deployed>>)

-----------------------------------------------------------------------------
(* DeploymentStateService.save() and the end of the run *)

\* copy to .next, remove current/
Save ==
  /\ At("save")
  /\ bundle' = {}
  /\ Then("saveRename")
  /\ UNCHANGED <<up, rec, meta, dlog, pend, runs>>
  /\ Same(<<man, prior, live, installed, state, staged, sup, deployed>>)

SaveRename ==
  /\ At("saveRename")
  /\ bundle' = {cur}
  /\ Then("saveJson")
  /\ UNCHANGED <<up, rec, meta, dlog, pend, runs>>
  /\ Same(<<man, prior, live, installed, state, staged, sup, deployed>>)

SaveJson ==
  /\ At("saveJson")
  /\ state' = {cur}
  /\ Then("report")
  /\ UNCHANGED <<up, rec, meta, dlog, pend, runs>>
  /\ Same(<<man, prior, live, installed, bundle, staged, sup, deployed>>)

\* An error of save() is a warning.
SaveFails ==
  /\ At("save") \/ At("saveRename") \/ At("saveJson")
  /\ AppendLines(One)
  /\ Then("report")
  /\ Same(hostVars)

\* A self update is left to the restart supervisor, all else is finished here.
Report ==
  /\ At("report")
  /\ IF Self THEN StartTail(One) ELSE Finish(<<>>, 0)
  /\ Then("idle")
  /\ Same(hostVars)

-----------------------------------------------------------------------------
(* The process dies, and is started again by whatever runs the slot.  The    *)
(* deploy command of the dead process may run on.                            *)

Crash ==
  /\ crashes < MaxCrashes
  /\ crashes' = crashes + 1
  /\ Die
  /\ Then("idle")
  /\ \/ UNCHANGED sup
     \/ flow = "deploy" /\ Goto(cur, "orphan")
  /\ \/ UNCHANGED state
     \/ flow = "saveJson" /\ state' = {}      \* torn: it does not parse
  /\ UNCHANGED <<man, prior, live, installed, bundle, staged, deployed>>

\* SelfRegistrationService: before it listens, a gateway that finds no state
\* for its own slot records the bundle it runs from, if it can find it.
Running == IF installed = "old" THEN 0 ELSE runs

SelfRegister ==
  \/ UNCHANGED <<state, bundle>>
  \/ /\ Self /\ state = {}
     /\ state' = {Running}
     /\ bundle' = {Running}

\* The gateway boots in whatever mode of it is up.
BootUp ==
  /\ Self => live # {}
  /\ Boot(installed)
  /\ SelfRegister
  /\ Then("idle")
  /\ Same(<<man, prior, live, installed, staged, sup, deployed>>)

\* The tail gives up while an outside process is at work only if that is slow.
Timer ==
  /\ \/ TailEmit \/ TailExit \/ TailTruncated \/ TailExpire
     \/ TailQuiet /\ (SlowSupervisor \/ sup[cur] \notin Working)
  /\ Then(flow)
  /\ Same(hostVars)

\* The rest of a synchronous method.
Persist == (PersistMeta \/ BootFinish) /\ Then(flow) /\ Same(hostVars)

\* A step of the host ends the promise when it stops the gateway.
Host(step) ==
  /\ TightRaces \/ pend \in {"none", "persist"}
  /\ step
  /\ Then(IF up' THEN flow ELSE "idle")
  /\ UNCHANGED crashes

-----------------------------------------------------------------------------
\* The promise goes on.
Step ==
  \/ Fetched \/ Prepared \/ PreparationFails
  \/ Refuse \/ MarkSelfUpdate \/ ResolveOther
  \/ Stage \/ Launched \/ LaunchFails \/ ModeChangeAlone \/ RedeployAlone
  \/ TeardownDone \/ TeardownFails \/ Unhandled
  \/ DeployDone \/ DeployFails \/ RollbackDone \/ KilledInSwap
  \/ Save \/ SaveRename \/ SaveJson \/ SaveFails \/ Report

Serve == Persist \/ Timer \/ Step

GatewayInit == StoreInit /\ HostInit /\ flow = "idle" /\ crashes = 0

GatewayNext ==
  /\ \/ Trigger \/ Serve \/ Output \/ Installs \/ Crash \/ BootUp
     \/ \E s \in Runs : Host(HostStep(s))
  /\ Observe

\* What is started goes on as long as the process lives; timers tick; a mode
\* that is up is kept up by pm2, compose or swarm; and an outside process that
\* has not died goes on too.
GatewayFairness ==
  /\ WF_vars(Serve /\ Observe)
  /\ WF_vars(BootUp /\ Observe)
  /\ \A s \in Runs : WF_vars(Host(HostProgress(s)) /\ Observe)

GatewaySpec == GatewayInit /\ [][GatewayNext]_vars /\ GatewayFairness

-----------------------------------------------------------------------------
GatewayTypeOK ==
  /\ TypeOK
  /\ HostTypeOK
  /\ flow \in Flow
  /\ crashes \in 0..MaxCrashes

(* A running record always has somebody who will decide it: the promise, the *)
(* tail, or the rest of the method in progress (deploy-store.ts: "so the     *)
(* record never stays 'running' forever").                                   *)
RunningHasFinisher ==
  (Quiescent /\ IsRunning) => (flow # "idle" \/ rec.tail)

(* The verdict in memory is that of the first terminal line of the log, the  *)
(* one restoreRecord() will go by: the verdict survives a restart.           *)
LogDecides ==
  (HasRecord /\ rec.run = runs /\ rec.status \in Final) =>
    \E i \in DOMAIN dlog :
      FirstExit(dlog, i) /\ VerdictOf(dlog[i]) = rec.status

(* Nothing an outside process has already said about the end of the run is   *)
(* behind the tail's count of lines: the tick will see it.                   *)
TailSeesExit ==
  (rec.tail /\ Exits(dlog) # {}) =>
    \E i \in Exits(dlog) : FirstExit(dlog, i) /\ i > rec.emitted

(* A success is announced only for a run whose deploy command succeeded.     *)
SuccessWasDeployed ==
  (HasRecord /\ rec.status = "completed") => rec.run \in deployed

(* A run is recorded as completed only by an EXIT that was written for it    *)
(* (start(): "fresh log for this run").                                      *)
OwnVerdict ==
  (HasRecord /\ rec.run = runs /\ rec.status = "completed") =>
    \E i \in DOMAIN dlog :
      dlog[i].by = rec.run /\ VerdictOf(dlog[i]) = "completed" /\ IsExit(dlog[i])

(* On a mode change the new mode is not deployed before the old one is down, *)
(* when the old bundle says how (controller: "aborting to avoid running two  *)
(* modes").  The command of an earlier run that outlived the gateway is      *)
(* beyond its control.                                                       *)
TornDownFirst ==
  (/\ flow \in {"deploy", "save"} /\ IsRunning
   /\ ModeChange(cur) /\ HasTeardown(cur)
   /\ \A s \in Runs : sup[s] = "none") => OldMode \notin live

Verdict == INSTANCE DeployVerdict WITH seen <- seen

(* The gateway implements the promise made to its callers: each accepted run *)
(* is decided once and for all, and one run is in progress at a time.        *)
ImplementsVerdict == Verdict!VerdictSpec

(* The controller, the host and the supervisors use the store only through   *)
(* its methods: what holds of the store, under any client and with logs of   *)
(* any length, holds here.                                                   *)
UsesStore == StoreOfAnyLength

(* Every run that a client can see running is decided, unless the gateway    *)
(* stays down for good.                                                      *)
EveryRunDecided ==
  \A s \in Runs : (seen[s] = "running") ~> (seen[s] \in Final \/ [](~up))

==============================================================================
