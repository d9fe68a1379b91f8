------------------------ MODULE DeployGatewayProofs ------------------------
(***************************************************************************)
(* Proofs about DeployGateway, for any methods, manifests, runs, crashes   *)
(* and log lengths: parts 1 to 5 about what the gateway does, parts 6 to 9 *)
(* about what deploy.log says of a run while the gateway, a supervisor and *)
(* a restart script write to it.                                           *)
(***************************************************************************)
EXTENDS DeployGateway, DeployStoreProofs, WellFoundedInduction

-----------------------------------------------------------------------------
(* Part 1: what the store's methods do to the record                       *)

\* The run, its status and who is to decide it stay.
SameRun ==
  /\ rec'.run = rec.run /\ rec'.status = rec.status /\ rec'.tail = rec.tail
  /\ rec'.selfUpdate = rec.selfUpdate

LEMMA AppendEffect ==
  ASSUME StoreInv, NEW ls, AppendLines(ls)
  PROVE  SameRun /\ Free /\ UNCHANGED <<up, meta, pend, runs>>
BY DEF AppendLines, SameRun, Free, StoreInv, TypeOK, Record

LEMMA FinishEffect ==
  ASSUME StoreInv, NEW ls, NEW c, Finish(ls, c)
  PROVE  /\ Free /\ UNCHANGED <<up, meta, runs>> /\ pend' = "persist"
         /\ rec'.run = rec.run /\ rec'.status = VerdictOfCode(c) /\ ~rec'.tail
         /\ rec'.selfUpdate = rec.selfUpdate /\ VerdictOfCode(c) \in Final
BY DEF Finish, Free, StoreInv, TypeOK, Record, VerdictOfCode, Final

LEMMA StartTailEffect ==
  ASSUME StoreInv, NEW ls, StartTail(ls)
  PROVE  /\ Free /\ UNCHANGED <<up, meta, pend, runs>>
         /\ rec'.run = rec.run /\ rec'.status = "running" /\ rec'.tail
         /\ rec'.selfUpdate = rec.selfUpdate
BY DEF StartTail, Free, IsRunning, StoreInv, TypeOK, Record

LEMMA SelfUpdateEffect ==
  ASSUME StoreInv, NEW v, SetSelfUpdate(v)
  PROVE  /\ Free /\ UNCHANGED <<up, meta, dlog, runs>> /\ pend' = "persist"
         /\ rec'.run = rec.run /\ rec'.status = "running" /\ rec'.tail = rec.tail
         /\ rec'.selfUpdate
BY DEF SetSelfUpdate, Free, IsRunning, StoreInv, TypeOK, Record

LEMMA StartEffect ==
  ASSUME Start
  PROVE  /\ Quiescent /\ ~IsRunning /\ UNCHANGED <<up, meta>>
         /\ pend' = "persist" /\ runs' = runs + 1
         /\ rec'.run = runs + 1 /\ rec'.status = "running" /\ ~rec'.tail
         /\ ~rec'.selfUpdate
BY DEF Start, NoRecord

LEMMA DieEffect ==
  ASSUME Die
  PROVE  /\ up /\ ~up' /\ pend' = "none" /\ rec' = NoRecord
         /\ UNCHANGED <<dlog, runs>>
BY DEF Die

LEMMA TimerEffect ==
  ASSUME StoreInv, TailEmit \/ TailExit \/ TailTruncated \/ TailExpire \/ TailQuiet
  PROVE  /\ up /\ up' /\ UNCHANGED <<meta, runs>> /\ rec.tail
         /\ rec'.run = rec.run /\ rec'.selfUpdate = rec.selfUpdate
         /\ \/ TailEmit /\ SameRun /\ pend = "none" /\ pend' = "none"
            \/ TailQuiet /\ rec' = rec /\ pend = "none" /\ pend' = "expire"
            \/ TailTruncated /\ pend = "none" /\ pend' = "none"
               /\ ~rec'.tail /\ rec'.status = "running"
            \/ (TailExit \/ TailExpire) /\ rec'.status \in Final /\ ~rec'.tail
               /\ pend' = "persist"
<1> USE DEF StoreInv, TypeOK, Coherent, Record, Quiescent
<1>1. CASE TailEmit
  BY <1>1 DEF TailEmit, SameRun
<1>2. CASE TailExit
  <2>1. PICK k \in Fresh \cap Exits(dlog) :
          rec' = [rec EXCEPT
                    !.log = @ \o SubSeq(dlog, rec.emitted + 1, k),
                    !.emitted = k, !.status = VerdictOf(dlog[k]), !.tail = FALSE]
    BY <1>2 DEF TailExit
  <2>2. VerdictOf(dlog[k]) \in Final
    BY DEF VerdictOf, Final
  <2> QED
    BY <1>2, <2>1, <2>2 DEF TailExit
<1>3. CASE TailTruncated
  BY <1>3 DEF TailTruncated
<1>4. CASE TailExpire
  BY <1>4 DEF TailExpire, Final
<1>5. CASE TailQuiet
  BY <1>5 DEF TailQuiet
<1> QED
  BY <1>1, <1>2, <1>3, <1>4, <1>5

\* A boot finds the run decided, or leaves it to a tail or the boot itself.
LEMMA BootEffect ==
  ASSUME StoreInv, NEW v, Boot(v)
  PROVE  /\ ~up /\ up' /\ UNCHANGED <<meta, dlog, runs>>
         /\ \/ BootNothing /\ rec' = rec /\ rec.run = 0 /\ pend' = "none"
            \/ /\ meta.file = "ok" /\ rec'.run = meta.run
               /\ rec'.selfUpdate = meta.selfUpdate
               /\ \/ rec'.status \in Final /\ ~rec'.tail /\ pend' = "none"
                     /\ (BootReconcile \/ BootDecided)
                  \/ rec'.status = "running" /\ rec'.tail /\ pend' = "none"
                     /\ BootTail(v)
                  \/ rec'.status = "running" /\ ~rec'.tail /\ pend' = "verified"
                     /\ BootVerified(v)
                  \/ rec'.status = "running" /\ ~rec'.tail /\ pend' = "interrupted"
                     /\ BootFailed
<1> USE DEF StoreInv, TypeOK, Coherent, Restored
<1>1. CASE BootNothing
  BY <1>1 DEF BootNothing
<1>2. CASE BootReconcile
  BY <1>2 DEF BootReconcile, VerdictOf, Final
<1>3. CASE BootDecided
  BY <1>3 DEF BootDecided, Meta, Status
<1>4. CASE BootVerified(v)
  BY <1>4 DEF BootVerified, Interrupted
<1>5. CASE BootTail(v)
  BY <1>5 DEF BootTail
<1>6. CASE BootFailed
  BY <1>6 DEF BootFailed, Interrupted
<1> QED
  BY <1>1, <1>2, <1>3, <1>4, <1>5, <1>6 DEF Boot

LEMMA BootFinishEffect ==
  ASSUME StoreInv, BootFinish
  PROVE  /\ up /\ up' /\ UNCHANGED <<meta, runs>> /\ pend' = "persist"
         /\ pend \in {"verified", "interrupted"}
         /\ rec.status = "running" /\ rec.run # 0 /\ ~rec.tail
         /\ rec'.run = rec.run /\ rec'.status \in Final /\ ~rec'.tail
         /\ rec'.selfUpdate = rec.selfUpdate
BY DEF BootFinish, StoreInv, TypeOK, Coherent, Record, VerdictOfCode, Final

-----------------------------------------------------------------------------
(* Part 2: the gateway uses the store through its methods                  *)

\* The groups of actions the proofs go by.
Starting  == Trigger \/ Fetched \/ Prepared \/ PreparationFails
Resolving == Refuse \/ MarkSelfUpdate \/ ResolveOther
Launching == Stage \/ Launched \/ LaunchFails \/ ModeChangeAlone \/ RedeployAlone
Commands  == \/ Output \/ TeardownDone \/ TeardownFails \/ Unhandled \/ Installs
             \/ DeployDone \/ DeployFails \/ RollbackDone \/ KilledInSwap
Ending    == Save \/ SaveRename \/ SaveJson \/ SaveFails \/ Report
Serving   == Persist \/ Timer \/ Crash \/ BootUp
Hosting   == \E r \in Runs : Host(HostStep(r))

LEMMA NextGroups ==
  ASSUME GatewayNext
  PROVE  /\ Observe
         /\ \/ Starting \/ Resolving \/ Launching \/ Commands \/ Ending
            \/ Serving \/ Hosting
BY DEF GatewayNext, Serve, Step, Starting, Resolving, Launching, Commands,
       Ending, Serving, Hosting

\* The store as the service uses it, and as outside processes do.
OwnUse ==
  \/ Quiet \/ StoreWork
  \/ \E t \in Texts : AppendLines(<<Ln(t, rec.run)>>)
  \/ \E ls \in Preamble : StartTail(ls)
Uses == OwnUse \/ \E l \in Line : ExternalAppend(l)

LEMMA Appended ==
  ASSUME NEW t \in Texts, AppendLines(<<Ln(t, rec.run)>>)
  PROVE  OwnUse
BY DEF OwnUse

LEMMA Finished ==
  ASSUME NEW c \in {0, 1}, Finish(One, c) \/ Finish(<<>>, c)
  PROVE  OwnUse
BY DEF OwnUse, StoreWork, One, Preamble

LEMMA MessageUses ==
  ASSUME AppendLines(One) \/ Fail \/ StartTail(One)
  PROVE  OwnUse
<1>1. CASE AppendLines(One)
  <2>1. "text" \in Texts
    BY DEF Texts
  <2> QED
    BY <1>1, <2>1, Appended DEF One
<1>2. CASE Fail
  BY <1>2, Finished DEF Fail
<1>3. CASE StartTail(One)
  BY <1>3 DEF OwnUse, One, Preamble
<1> QED
  BY <1>1, <1>2, <1>3

LEMMA TargetVersion == Target \in Versions
BY HostAssumption DEF Target

LEMMA PromiseUses ==
  ASSUME Starting \/ Resolving \/ Launching \/ Commands \/ Ending
  PROVE  OwnUse
<1> USE DEF OwnUse
<1>1. CASE Starting
  BY <1>1, MessageUses
  DEF Starting, Trigger, Fetched, Prepared, PreparationFails, StoreWork, Quiet
<1>2. CASE Resolving
  BY <1>2, MessageUses, TargetVersion
  DEF Resolving, Refuse, MarkSelfUpdate, ResolveOther, StoreWork
<1>3. CASE Launching
  BY <1>3, MessageUses
  DEF Launching, Stage, Launched, LaunchFails, ModeChangeAlone, RedeployAlone, Quiet
<1>4. CASE Commands
  <2>1. CASE Output
    BY <2>1, HostAssumption, Appended DEF Output, cur
  <2>2. CASE Unhandled \/ KilledInSwap
    BY <2>2 DEF Unhandled, KilledInSwap, StoreWork
  <2>3. CASE Installs \/ DeployDone
    BY <2>3 DEF Installs, DeployDone, Quiet
  <2>4. CASE TeardownDone \/ TeardownFails \/ DeployFails \/ RollbackDone
    BY <2>4, MessageUses DEF TeardownDone, TeardownFails, DeployFails, RollbackDone
  <2> QED
    BY <1>4, <2>1, <2>2, <2>3, <2>4 DEF Commands
<1>5. CASE Ending
  <2>1. CASE Report
    BY <2>1, MessageUses, Finished DEF Report
  <2>2. CASE Save \/ SaveRename \/ SaveJson \/ SaveFails
    BY <2>2, MessageUses DEF Save, SaveRename, SaveJson, SaveFails, Quiet
  <2> QED
    BY <1>5, <2>1, <2>2 DEF Ending
<1> QED
  BY <1>1, <1>2, <1>3, <1>4, <1>5

LEMMA ServingUses ==
  ASSUME Serving, installed \in {"old", "new"}
  PROVE  OwnUse
BY HostAssumption
DEF Serving, Persist, Timer, Crash, BootUp, OwnUse, StoreWork, Tick

\* What an outside process does to the store: nothing, a line, or an end.
LEMMA HostEffect ==
  ASSUME NEW r \in Runs, HostStep(r)
  PROVE  Quiet \/ Die \/ \E t \in Texts : ExternalAppend(Ln(t, r))
<1> USE DEF Texts, Stops, Say
<1>1. CASE SupOutput(r)
  BY <1>1, HostAssumption DEF SupOutput
<1>2. CASE SupBanner(r) \/ SupTeardown(r) \/ SupTeardownFails(r) \/ SupSwap(r)
           \/ SupDeployed(r) \/ SupDeployFails(r)
  BY <1>2
  DEF SupBanner, SupTeardown, SupTeardownFails, SupSwap, SupDeployed, SupDeployFails
<1>3. CASE SupCommit(r) \/ SupCommitSwap(r) \/ SupCommitState(r) \/ SupCommitFails(r)
  BY <1>3 DEF SupCommit, SupCommitSwap, SupCommitState, SupCommitFails
<1>4. CASE SupExit0(r) \/ SupExit1(r) \/ SupRollback(r) \/ SupNoRollback(r)
  BY <1>4 DEF SupExit0, SupExit1, SupRollback, SupNoRollback
<1>5. CASE Restart(r)
  BY <1>5
  DEF Restart, RsBanner, RsRestart, RsRestartFails, RsVerified, RsMismatch, RsExit
<1>6. CASE OrphanEnds(r) \/ SupervisorDies(r)
  BY <1>6 DEF OrphanEnds, SupervisorDies
<1> QED
  BY <1>1, <1>2, <1>3, <1>4, <1>5, <1>6 DEF HostStep, HostProgress, Supervise

LEMMA HostUses == ASSUME Hosting PROVE Uses
<1>1. PICK r \in Runs : HostStep(r)
  BY DEF Hosting, Host
<1>2. \A t \in Texts : Ln(t, r) \in Line
  BY LineType
<1> QED
  BY <1>1, <1>2, HostEffect DEF Uses, OwnUse, StoreWork

\* A client has read the status that can be read.
SeenAgrees == (HasRecord /\ pend = "none" /\ up) => seen[rec.run] = rec.status

LEMMA ObserveAgrees ==
  ASSUME TypeOK, TypeOK', Observe
  PROVE  SeenAgrees'
<1>1. rec'.run \in 0..MaxRuns /\ rec'.status \in Status
  BY DEF TypeOK, Record
<1>2. rec'.run # 0 => rec'.run \in Runs
  BY <1>1, StoreAssumption DEF Runs
<1> QED
  BY <1>1, <1>2 DEF TypeOK, Observe, SeenAgrees, HasRecord

\* Where the store is left alone there is nothing new to see.
LEMMA NothingNew ==
  ASSUME TypeOK, SeenAgrees, Quiet, Observe
  PROVE  UNCHANGED storeVars
<1>1. CASE rec'.run # 0 /\ pend' = "none" /\ up'
  <2>1. rec.run \in Runs /\ seen[rec.run] = rec.status
    BY <1>1, StoreAssumption DEF TypeOK, Record, Runs, Quiet, SeenAgrees, HasRecord
  <2>2. seen' = [seen EXCEPT ![rec.run] = rec.status]
    BY <1>1 DEF Observe, Quiet
  <2> QED
    BY <2>1, <2>2 DEF TypeOK, Quiet, storeVars
<1>2. CASE ~(rec'.run # 0 /\ pend' = "none" /\ up')
  BY <1>2 DEF Observe, Quiet, storeVars
<1> QED
  BY <1>1, <1>2

LEMMA NextUsesStore ==
  ASSUME TypeOK, SeenAgrees, installed \in {"old", "new"}, [GatewayNext]_vars
  PROVE  [AnyLengthNext]_storeVars
<1>1. CASE GatewayNext
  <2>1. Observe /\ Uses
    BY <1>1, NextGroups, PromiseUses, ServingUses, HostUses DEF Uses
  <2> QED
    BY <2>1, NothingNew DEF Uses, OwnUse, Chatter, AnyLengthNext
<1>2. CASE UNCHANGED vars
  BY <1>2 DEF vars
<1> QED
  BY <1>1, <1>2

-----------------------------------------------------------------------------
(* Part 3: types, and who has the run                                      *)

\* A promise that goes on has a running record, which nobody tails; a method
\* of it may have a write due.
FlowHasRun ==
  flow # "idle" => up /\ IsRunning /\ ~rec.tail /\ pend \in {"none", "persist"}

\* A rollback has a mode to roll back to.
RollbackHasPrior == flow = "rollback" => prior[cur] # {}

GatewayInv ==
  /\ StoreInv
  /\ SeenAgrees
  /\ HostTypeOK
  /\ flow \in Flow
  /\ crashes \in 0..MaxCrashes
  /\ FlowHasRun
  /\ RollbackHasPrior

LEMMA GatewayInvInit == GatewayInit => GatewayInv
<1> SUFFICES ASSUME GatewayInit PROVE GatewayInv
  OBVIOUS
<1>1. StoreInv
  BY StoreInvInit DEF GatewayInit
<1>2. HostTypeOK
  <2>1. 0 \in Deployments
    BY StoreAssumption DEF Deployments
  <2>2. PICK m \in Manifest : man = [d \in Deployments |-> m]
    BY DEF GatewayInit, HostInit
  <2>3. man \in [Deployments -> Manifest] /\ man[0].method \in Methods
    BY <2>1, <2>2 DEF Manifest
  <2> QED
    BY <2>1, <2>3 DEF GatewayInit, HostInit, HostTypeOK, SupState
<1>3. SeenAgrees
  BY DEF GatewayInit, StoreInit, NoRecord, SeenAgrees, HasRecord
<1> QED
  BY <1>1, <1>2, <1>3, GatewayAssumption
  DEF GatewayInit, GatewayInv, Flow, FlowHasRun, RollbackHasPrior

LEMMA CurType ==
  ASSUME StoreInv, HasRecord
  PROVE  cur \in Runs /\ cur \in Deployments
BY StoreAssumption DEF StoreInv, TypeOK, Record, HasRecord, cur, Runs, Deployments

\* The deployment a run replaces is one there is, with a mode there is.
LEMMA MethodType ==
  ASSUME HostTypeOK, NEW r \in Runs
  PROVE  /\ r \in Deployments /\ Method(r) \in Methods
         /\ prior[r] # {} => PriorOf(r) \in Deployments /\ Method(PriorOf(r)) \in Methods
<1>1. r \in Deployments
  BY StoreAssumption DEF Runs, Deployments
<1>2. ASSUME prior[r] # {} PROVE PriorOf(r) \in prior[r]
  BY <1>2 DEF PriorOf
<1> QED
  BY <1>1, <1>2 DEF HostTypeOK, Manifest, Method

\* The promise goes on when the event loop is free, with its run.
LEMMA PromiseFree ==
  ASSUME StoreInv,
         \/ Fetched \/ Prepared \/ PreparationFails
         \/ Resolving \/ Launching \/ Commands \/ Ending
  PROVE  Free /\ cur \in Runs /\ cur \in Deployments
<1>1. Free
  BY DEF Resolving, Launching, Commands, Ending, Fetched, Prepared,
         PreparationFails, Refuse, MarkSelfUpdate, ResolveOther, Stage, Launched,
         LaunchFails, ModeChangeAlone, RedeployAlone, Output, TeardownDone,
         TeardownFails, Unhandled, Installs, DeployDone, DeployFails, RollbackDone,
         KilledInSwap, Save, SaveRename, SaveJson, SaveFails, Report, At
<1> QED
  BY <1>1, CurType DEF Free, IsRunning

\* The steps of the promise keep the types of the host and of the flow.
LEMMA PromiseTypes ==
  ASSUME GatewayInv, Starting \/ Resolving \/ Launching \/ Commands \/ Ending
  PROVE  HostTypeOK' /\ flow' \in Flow /\ crashes' \in 0..MaxCrashes
<1> USE DEF Then, Same, Flow
<1>0. /\ HostTypeOK /\ flow \in Flow /\ crashes \in 0..MaxCrashes /\ StoreInv
  BY DEF GatewayInv
<1>1. CASE Trigger
  BY <1>0, <1>1 DEF Trigger, hostVars, HostTypeOK
<1>3. CASE Fetched \/ Prepared \/ PreparationFails
  <2>1. CASE Fetched
    <3>1. PICK m \in Manifest : man' = [man EXCEPT ![cur] = m]
      BY <2>1 DEF Fetched
    <3> QED
      BY <1>0, <2>1, <3>1 DEF Fetched, HostTypeOK
  <2> QED
    BY <1>0, <1>3, <2>1 DEF Prepared, PreparationFails, Fail, hostVars, HostTypeOK
<1>4. CASE Resolving
  <2>1. cur \in Runs
    BY <1>0, <1>4, PromiseFree
  <2> QED
    BY <1>0, <1>4, <2>1
    DEF Resolving, Refuse, MarkSelfUpdate, ResolveOther, ReadState, Fail, HostTypeOK
<1>5. CASE Launching
  <2>1. cur \in Runs /\ cur \in Deployments
    BY <1>0, <1>5, PromiseFree
  <2> QED
    BY <1>0, <1>5, <2>1
    DEF Launching, Stage, Launched, LaunchFails, ModeChangeAlone, RedeployAlone,
        Fail, Goto, hostVars, HostTypeOK, SupState, Working
<1>6. CASE Commands
  <2>1. /\ cur \in Runs /\ Method(cur) \in Methods
        /\ flow = "rollback" => OldMode \in Methods
    <3>1. cur \in Runs
      BY <1>0, <1>6, PromiseFree
    <3> QED
      BY <1>0, <3>1, MethodType DEF GatewayInv, RollbackHasPrior, OldMode
  <2>2. CASE Output \/ Unhandled \/ KilledInSwap
    BY <1>0, <2>2 DEF Output, Unhandled, KilledInSwap, hostVars, HostTypeOK
  <2>3. CASE Installs
    BY <1>0, <2>3 DEF Installs, HostTypeOK, Target
  <2>4. CASE TeardownDone \/ TeardownFails
    BY <1>0, <2>4 DEF TeardownDone, TeardownFails, Fail, HostTypeOK
  <2>5. CASE DeployDone
    BY <1>0, <2>1, <2>5 DEF DeployDone, HostTypeOK, Target, SupState, Working
  <2>6. CASE DeployFails
    BY <1>0, <2>1, <2>6 DEF DeployFails, Fail, HostTypeOK
  <2>7. CASE RollbackDone
    BY <1>0, <2>1, <2>7 DEF RollbackDone, Fail, HostTypeOK, At
  <2> QED
    BY <1>6, <2>2, <2>3, <2>4, <2>5, <2>6, <2>7 DEF Commands
<1>7. CASE Ending
  <2>1. cur \in Deployments
    BY <1>0, <1>7, PromiseFree
  <2> QED
    BY <1>0, <1>7, <2>1
    DEF Ending, Save, SaveRename, SaveJson, SaveFails, Report, hostVars, HostTypeOK
<1> QED
  BY <1>1, <1>3, <1>4, <1>5, <1>6, <1>7 DEF Starting

LEMMA ServingTypes ==
  ASSUME GatewayInv, Serving
  PROVE  HostTypeOK' /\ flow' \in Flow /\ crashes' \in 0..MaxCrashes
<1> USE DEF Then, Same
<1>0. /\ HostTypeOK /\ flow \in Flow /\ crashes \in 0..MaxCrashes /\ StoreInv
  BY DEF GatewayInv
<1>1. CASE Persist \/ Timer
  BY <1>0, <1>1 DEF Persist, Timer, hostVars, HostTypeOK
<1>2. CASE Crash
  <2>1. crashes' \in 0..MaxCrashes
    BY <1>0, <1>2, GatewayAssumption DEF Crash
  <2>2. flow = "deploy" => cur \in Runs
    BY <1>0, CurType DEF GatewayInv, FlowHasRun, IsRunning
  <2> QED
    BY <1>0, <1>2, <2>1, <2>2 DEF Crash, HostTypeOK, Goto, SupState, Working, Flow
<1>3. CASE BootUp
  <2>1. Running \in Deployments
    BY <1>0, StoreAssumption DEF Running, Deployments, StoreInv, TypeOK
  <2> QED
    BY <1>0, <1>3, <2>1 DEF BootUp, SelfRegister, HostTypeOK, Flow
<1> QED
  BY <1>1, <1>2, <1>3 DEF Serving

LEMMA HostStepTypes ==
  ASSUME HostTypeOK, NEW r \in Runs, HostStep(r)
  PROVE  HostTypeOK'
<1> USE DEF HostTypeOK, Goto, SupState, Working
<1>0. Method(r) \in Methods /\ (prior[r] # {} => Method(PriorOf(r)) \in Methods)
  BY MethodType
<1>1. CASE SupOutput(r) \/ SupBanner(r) \/ SupTeardown(r) \/ SupTeardownFails(r)
  BY <1>1 DEF SupOutput, SupBanner, SupTeardown, SupTeardownFails, hostVars
<1>2. CASE SupSwap(r) \/ SupDeployed(r) \/ SupDeployFails(r)
  BY <1>0, <1>2 DEF SupSwap, SupDeployed, SupDeployFails, Target
<1>3. CASE SupCommit(r) \/ SupCommitSwap(r) \/ SupCommitState(r) \/ SupCommitFails(r)
  BY <1>0, <1>3, MethodType DEF SupCommit, SupCommitSwap, SupCommitState, SupCommitFails
<1>4. CASE SupExit0(r) \/ SupExit1(r) \/ SupRollback(r) \/ SupNoRollback(r)
  BY <1>0, <1>4 DEF SupExit0, SupExit1, SupRollback, SupNoRollback
<1>5. CASE Restart(r)
  BY <1>5
  DEF Restart, RsBanner, RsRestart, RsRestartFails, RsVerified, RsMismatch, RsExit
<1>6. CASE OrphanEnds(r) \/ SupervisorDies(r)
  BY <1>0, <1>6 DEF OrphanEnds, SupervisorDies, Target
<1> QED
  BY <1>1, <1>2, <1>3, <1>4, <1>5, <1>6 DEF HostStep, HostProgress, Supervise

LEMMA HostingTypes ==
  ASSUME GatewayInv, Hosting
  PROVE  HostTypeOK' /\ flow' \in Flow /\ crashes' \in 0..MaxCrashes
<1>1. PICK r \in Runs : Host(HostStep(r))
  BY DEF Hosting
<1>2. HostTypeOK'
  BY <1>1, HostStepTypes DEF GatewayInv, Host
<1> QED
  BY <1>1, <1>2 DEF GatewayInv, Host, Then, Flow

\* A step of the promise goes on with the run, or ends it, or hands it over,
\* or is the last thing the process did.
GoesOn ==
  /\ IsRunning /\ flow' # "idle" /\ up' /\ rec'.run = rec.run /\ rec'.status = "running"
  /\ ~rec'.tail /\ pend' \in {"none", "persist"}
EndsRun ==
  /\ IsRunning /\ flow' = "idle" /\ up' /\ rec'.run = rec.run /\ rec'.status \in Final
  /\ ~rec'.tail /\ pend' = "persist"
HandsOver ==
  /\ IsRunning /\ flow' = "idle" /\ up' /\ rec'.run = rec.run /\ rec'.status = "running"
  /\ rec'.tail /\ pend' = "none"
Dies == flow' = "idle" /\ Die

LEMMA AppendGoesOn ==
  ASSUME GatewayInv, flow # "idle", NEW ls, AppendLines(ls), flow' # "idle"
  PROVE  GoesOn
BY AppendEffect
DEF GatewayInv, FlowHasRun, GoesOn, SameRun, Free, Quiescent, IsRunning

LEMMA QuietGoesOn ==
  ASSUME GatewayInv, flow # "idle", UNCHANGED <<up, rec, pend>>, flow' # "idle"
  PROVE  GoesOn
BY DEF GatewayInv, FlowHasRun, GoesOn, IsRunning

LEMMA FinishEnds ==
  ASSUME GatewayInv, NEW ls, NEW c, Finish(ls, c), flow' = "idle"
  PROVE  EndsRun
BY FinishEffect DEF GatewayInv, EndsRun, Free, Quiescent

LEMMA TailHandsOver ==
  ASSUME GatewayInv, NEW ls, StartTail(ls), flow' = "idle"
  PROVE  HandsOver
BY StartTailEffect DEF GatewayInv, HandsOver, Free, Quiescent

LEMMA PromiseEffect ==
  ASSUME GatewayInv,
         \/ Fetched \/ Prepared \/ PreparationFails
         \/ Resolving \/ Launching \/ Commands \/ Ending
  PROVE  GoesOn \/ EndsRun \/ HandsOver \/ Dies
<1> USE DEF Then, At
<1>1. CASE Fetched \/ Prepared \/ PreparationFails
  BY <1>1, AppendGoesOn, QuietGoesOn, FinishEnds
  DEF Fetched, Prepared, PreparationFails, Fail
<1>2. CASE Resolving
  <2>1. CASE MarkSelfUpdate
    BY <2>1, SelfUpdateEffect
    DEF MarkSelfUpdate, GatewayInv, FlowHasRun, GoesOn, Free, Quiescent
  <2> QED
    BY <1>2, <2>1, AppendGoesOn, FinishEnds DEF Resolving, Refuse, ResolveOther, Fail
<1>3. CASE Launching
  BY <1>3, AppendGoesOn, QuietGoesOn, FinishEnds, TailHandsOver
  DEF Launching, Stage, Launched, LaunchFails, ModeChangeAlone, RedeployAlone, Fail
<1>4. CASE Commands
  <2>1. CASE Unhandled \/ KilledInSwap
    BY <2>1 DEF Unhandled, KilledInSwap, Dies
  <2>2. CASE Output \/ TeardownDone
    BY <2>2, AppendGoesOn DEF Output, TeardownDone
  <2>3. CASE Installs \/ DeployDone
    BY <2>3, QuietGoesOn DEF Installs, DeployDone
  <2>4. CASE TeardownFails \/ DeployFails \/ RollbackDone
    BY <2>4, AppendGoesOn, FinishEnds DEF TeardownFails, DeployFails, RollbackDone, Fail
  <2> QED
    BY <1>4, <2>1, <2>2, <2>3, <2>4 DEF Commands
<1>5. CASE Ending
  BY <1>5, AppendGoesOn, QuietGoesOn, FinishEnds, TailHandsOver
  DEF Ending, Save, SaveRename, SaveJson, SaveFails, Report
<1> QED
  BY <1>1, <1>2, <1>3, <1>4, <1>5

LEMMA FlowHasRunStep ==
  ASSUME GatewayInv, StoreInv', GatewayNext
  PROVE  FlowHasRun'
<1>0. StoreInv
  BY DEF GatewayInv
<1>1. CASE Trigger
  BY <1>0, <1>1, StartEffect
  DEF Trigger, GatewayInv, StoreInv, TypeOK, FlowHasRun, Quiescent, IsRunning, HasRecord
<1>2. CASE GoesOn \/ EndsRun \/ HandsOver \/ Dies
  BY <1>2
  DEF GoesOn, EndsRun, HandsOver, Dies, FlowHasRun, StoreInv, Coherent, GatewayInv,
      IsRunning, HasRecord
<1>3. CASE Persist
  <2>1. CASE PersistMeta
    BY <1>3, <2>1 DEF Persist, PersistMeta, Then, GatewayInv, FlowHasRun, IsRunning, HasRecord
  <2>2. CASE BootFinish
    BY <1>3, <2>2, <1>0, BootFinishEffect DEF Persist, Then, GatewayInv, FlowHasRun
  <2> QED
    BY <1>3, <2>1, <2>2 DEF Persist
<1>4. CASE Timer
  BY <1>4, <1>0, TimerEffect DEF Timer, Then, GatewayInv, FlowHasRun
<1>5. CASE Crash \/ BootUp
  BY <1>5 DEF Crash, BootUp, Then, FlowHasRun
<1>6. CASE Hosting
  <2>1. PICK r \in Runs : Host(HostStep(r))
    BY <1>6 DEF Hosting
  <2>2. HostStep(r) /\ flow' = IF up' THEN flow ELSE "idle"
    BY <2>1 DEF Host, Then
  <2> QED
    BY <2>2, HostEffect
    DEF Quiet, Die, ExternalAppend, GatewayInv, FlowHasRun, IsRunning, HasRecord
<1> QED
  BY <1>1, <1>2, <1>3, <1>4, <1>5, <1>6, NextGroups, PromiseEffect DEF Starting, Serving

\* prior of the current run is set before the commands, and then left alone.
LEMMA RollbackHasPriorStep ==
  ASSUME GatewayInv, StoreInv', GatewayNext
  PROVE  RollbackHasPrior'
<1> USE DEF Then, Same, cur
<1>0. StoreInv
  BY DEF GatewayInv
<1> SUFFICES ASSUME flow' = "rollback" PROVE prior'[rec'.run] # {}
  BY DEF RollbackHasPrior
<1>1. CASE Starting \/ Resolving \/ Launching \/ Ending
  BY <1>1
  DEF Starting, Trigger, Fetched, Prepared, PreparationFails, Fail,
      Resolving, Refuse, MarkSelfUpdate, ResolveOther,
      Launching, Stage, Launched, LaunchFails, ModeChangeAlone, RedeployAlone,
      Ending, Save, SaveRename, SaveJson, SaveFails, Report
<1>2. CASE DeployFails
  <2>1. ModeChange(rec.run) /\ (\E ls : AppendLines(ls)) /\ UNCHANGED prior
    BY <1>2 DEF DeployFails, Fail
  <2>2. rec'.run = rec.run
    BY <1>0, <2>1, AppendEffect DEF SameRun
  <2> QED
    BY <2>1, <2>2 DEF ModeChange
<1>3. CASE Output \/ Installs
  <2>1. flow = "rollback" /\ UNCHANGED prior /\ (rec' = rec \/ \E ls : AppendLines(ls))
    BY <1>3 DEF Output, Installs, hostVars
  <2>2. rec'.run = rec.run
    BY <1>0, <2>1, AppendEffect DEF SameRun
  <2> QED
    BY <2>1, <2>2 DEF GatewayInv, RollbackHasPrior
<1>4. CASE TeardownDone \/ TeardownFails \/ Unhandled \/ DeployDone \/ RollbackDone
           \/ KilledInSwap
  BY <1>4 DEF TeardownDone, TeardownFails, Unhandled, DeployDone, RollbackDone,
              KilledInSwap, Fail
<1>5. CASE Serving
  <2>1. /\ Persist \/ Timer
        /\ flow = "rollback" /\ UNCHANGED prior
    BY <1>5 DEF Serving, Persist, Timer, Crash, BootUp, hostVars
  <2>2. rec'.run = rec.run
    BY <1>0, <2>1, BootFinishEffect, TimerEffect DEF Persist, Timer, PersistMeta
  <2> QED
    BY <2>1, <2>2 DEF GatewayInv, RollbackHasPrior
<1>6. CASE Hosting
  <2>1. PICK r \in Runs : HostStep(r) /\ flow' = IF up' THEN flow ELSE "idle"
    BY <1>6 DEF Hosting, Host
  <2>2. up' /\ flow = "rollback"
    BY <2>1
  <2>3. rec' = rec
    BY <2>1, <2>2, HostEffect DEF Quiet, Die, ExternalAppend
  <2>4. UNCHANGED prior
    BY <2>1
    DEF HostStep, HostProgress, Supervise, Restart, OrphanEnds, SupervisorDies,
        SupOutput, SupBanner, SupTeardown, SupTeardownFails, SupSwap, SupDeployed,
        SupDeployFails, SupCommit, SupCommitSwap, SupCommitState, SupCommitFails,
        SupExit0, SupExit1, SupRollback, SupNoRollback, RsBanner, RsRestart,
        RsRestartFails, RsVerified, RsMismatch, RsExit, hostVars
  <2> QED
    BY <2>2, <2>3, <2>4 DEF GatewayInv, RollbackHasPrior
<1> QED
  BY <1>1, <1>2, <1>3, <1>4, <1>5, <1>6, NextGroups DEF Commands

LEMMA GatewayInvStep == GatewayInv /\ [GatewayNext]_vars => GatewayInv'
<1> SUFFICES ASSUME GatewayInv, [GatewayNext]_vars PROVE GatewayInv'
  OBVIOUS
<1>1. StoreInv'
  BY NextUsesStore, StoreInvStep DEF GatewayInv, StoreInv, HostTypeOK
<1>2. CASE GatewayNext
  <2>1. HostTypeOK' /\ flow' \in Flow /\ crashes' \in 0..MaxCrashes
    BY <1>2, NextGroups, PromiseTypes, ServingTypes, HostingTypes
  <2>2. SeenAgrees'
    BY <1>1, <1>2, NextGroups, ObserveAgrees DEF GatewayInv, StoreInv
  <2> QED
    BY <1>1, <1>2, <2>1, <2>2, FlowHasRunStep, RollbackHasPriorStep DEF GatewayInv
<1>3. CASE UNCHANGED vars
  BY <1>1, <1>3
  DEF vars, storeVars, hostVars, flowVars, GatewayInv, SeenAgrees, HasRecord,
      HostTypeOK, FlowHasRun, RollbackHasPrior, IsRunning, cur
<1> QED
  BY <1>2, <1>3

LEMMA GatewayInvariance == GatewaySpec => []GatewayInv
BY GatewayInvInit, GatewayInvStep, PTL DEF GatewaySpec

\* The gateway, its supervisors and its crashes never leave the record, the
\* slot's state or the promise of runDeployAsync in a form the code does not
\* know.
THEOREM GatewayTypes == GatewaySpec => []GatewayTypeOK
<1>1. GatewayInv => GatewayTypeOK
  BY DEF GatewayInv, StoreInv, GatewayTypeOK
<1> QED
  BY <1>1, GatewayInvariance, PTL

\* The controller, the supervisors and the restart script use the store only
\* through its methods, in an order its general client may choose: whatever is
\* proved of StoreOfAnyLength holds of the gateway.
THEOREM GatewayUsesStore == GatewaySpec => UsesStore
<1>1. GatewayInit => StoreInit
  BY DEF GatewayInit
<1>2. GatewayInv /\ [GatewayNext]_vars => [AnyLengthNext]_storeVars
  BY NextUsesStore DEF GatewayInv, StoreInv, HostTypeOK
<1> QED
  BY <1>1, <1>2, GatewayInvariance, PTL DEF GatewaySpec, UsesStore, StoreOfAnyLength

-----------------------------------------------------------------------------
(* Part 4: what is proved of the store holds of the gateway, and a running *)
(* record has somebody who will decide it                                  *)

\* A verdict of the gateway is final while the process lives, whatever the
\* controller, the tail and the supervisors do (deploy-store.ts: a record that
\* is not running takes no lines).
THEOREM GatewayVerdictIsFinal == GatewaySpec => DecidedIsFinal
BY GatewayUsesStore, VerdictIsFinal, PTL DEF UsesStore

LEMMA GatewayDurable == ASSUME ~LostWrites PROVE GatewaySpec => []Durable
<1>1. StoreInv /\ Durable /\ [AnyLengthNext]_storeVars => Durable'
  BY DurableStep
<1> QED
  BY <1>1, DurableInit, StoreInvariance, GatewayUsesStore, PTL
  DEF UsesStore, StoreOfAnyLength

\* When best-effort writes succeed, a verdict the gateway announces is in
\* deploy.log, where the next boot will find it.
THEOREM GatewayLogIsTruth ==
  ASSUME ~LostWrites
  PROVE  GatewaySpec => [](VerdictDurable /\ MetaFollowsLog /\ TailWithinLog)
BY GatewayUsesStore, LogIsTruth, PTL DEF UsesStore

\* RunningHasFinisher, while a write of metadata is due as well.
HasFinisher ==
  (up /\ pend \in {"none", "persist"} /\ IsRunning) => (flow # "idle" \/ rec.tail)

LEMMA HasFinisherStep ==
  ASSUME GatewayInv, Durable, HasFinisher, [GatewayNext]_vars
  PROVE  HasFinisher'
<1>0. StoreInv
  BY DEF GatewayInv
<1>1. CASE Trigger
  BY <1>1 DEF Trigger, Then, HasFinisher
<1>2. CASE GoesOn \/ EndsRun \/ HandsOver \/ Dies
  BY <1>2 DEF GoesOn, EndsRun, HandsOver, Dies, Die, HasFinisher, IsRunning, Final
<1>3. CASE Persist
  <2>1. CASE PersistMeta
    BY <1>3, <2>1 DEF Persist, PersistMeta, Then, HasFinisher, IsRunning, HasRecord
  <2>2. CASE BootFinish
    BY <2>2, <1>0, BootFinishEffect DEF HasFinisher, IsRunning, Final
  <2> QED
    BY <1>3, <2>1, <2>2 DEF Persist
<1>4. CASE Timer
  <2>1. ~TailTruncated
    <3>1. rec.emitted \in Nat /\ Len(dlog) \in Nat
      BY <1>0, LenProperties DEF StoreInv, TypeOK, Record
    <3> QED
      BY <3>1 DEF Durable, TailWithinLog, TailTruncated
  <2> QED
    BY <1>4, <2>1, <1>0, TimerEffect
    DEF Timer, Then, SameRun, HasFinisher, IsRunning, HasRecord, Final
<1>5. CASE Crash
  BY <1>5 DEF Crash, Die, HasFinisher
<1>6. CASE BootUp
  BY <1>6, <1>0, BootEffect DEF BootUp, HasFinisher, IsRunning, HasRecord, Final
<1>7. CASE Hosting
  <2>1. PICK r \in Runs : HostStep(r) /\ flow' = IF up' THEN flow ELSE "idle"
    BY <1>7 DEF Hosting, Host, Then
  <2> QED
    BY <2>1, HostEffect
    DEF Quiet, Die, ExternalAppend, HasFinisher, IsRunning, HasRecord
<1>8. CASE UNCHANGED vars
  BY <1>8 DEF vars, storeVars, flowVars, HasFinisher, IsRunning, HasRecord
<1> QED
  BY <1>1, <1>2, <1>3, <1>4, <1>5, <1>6, <1>7, <1>8, NextGroups, PromiseEffect
  DEF Starting, Serving

\* The record never stays `running' with nobody to decide it: when the event
\* loop is free, a running record is in the hands of the promise or of a tail,
\* across hand-overs, crashes and boots. Where an append to deploy.log may be
\* swallowed this fails: the tail then takes the file for a truncated one.
THEOREM RunsHaveFinisher == ASSUME ~LostWrites PROVE GatewaySpec => []RunningHasFinisher
<1>1. GatewayInit => HasFinisher
  BY DEF GatewayInit, StoreInit, NoRecord, HasFinisher, IsRunning, HasRecord
<1>2. GatewayInv /\ Durable /\ HasFinisher /\ [GatewayNext]_vars => HasFinisher'
  BY HasFinisherStep
<1>3. HasFinisher => RunningHasFinisher
  BY DEF HasFinisher, RunningHasFinisher, Quiescent
<1> QED
  BY <1>1, <1>2, <1>3, GatewayInvariance, GatewayDurable, PTL DEF GatewaySpec

-----------------------------------------------------------------------------
(* Part 5: one mode at a time                                              *)

\* An outside process that has begun does not become one that has not.
LEMMA HostStepNotNone ==
  ASSUME HostTypeOK, NEW r \in Runs, HostStep(r)
  PROVE  sup'[r] # "none"
BY DEF HostTypeOK, HostStep, HostProgress, Supervise, Restart, OrphanEnds,
       SupervisorDies, Goto, SupOutput, SupBanner, SupTeardown, SupTeardownFails,
       SupSwap, SupDeployed, SupDeployFails, SupCommit, SupCommitSwap,
       SupCommitState, SupCommitFails, SupExit0, SupExit1, SupRollback,
       SupNoRollback, RsBanner, RsRestart, RsRestartFails, RsVerified, RsMismatch,
       RsExit, hostVars

\* What TornDownFirst says of run c.
TornDown(c) ==
  (/\ ModeChange(c) /\ HasTeardown(c)
   /\ \A s \in Runs : sup[s] = "none") => Method(PriorOf(c)) \notin live

LEMMA TornDownStep ==
  ASSUME GatewayInv, TornDownFirst, GatewayNext
  PROVE  TornDownFirst'
<1> USE DEF Then, Same
<1>0. StoreInv /\ HostTypeOK
  BY DEF GatewayInv
<1> SUFFICES ASSUME flow' \in {"deploy", "save"}, IsRunning'
             PROVE  TornDown(rec.run)'
  BY DEF TornDownFirst, TornDown, OldMode, cur
<1>1. CASE MarkSelfUpdate \/ ResolveOther
  <2>1. /\ Free /\ cur \in Runs
        /\ (\E v : SetSelfUpdate(v)) \/ (\E ls : AppendLines(ls))
        /\ prior' = [prior EXCEPT ![cur] = state] /\ UNCHANGED man
    BY <1>0, <1>1, PromiseFree DEF Resolving, MarkSelfUpdate, ResolveOther, ReadState
  <2>2. rec'.run = cur
    BY <1>0, <2>1, SelfUpdateEffect, AppendEffect DEF SameRun, cur
  <2>3. prior'[cur] = state
    BY <1>0, <2>1 DEF HostTypeOK
  <2>4. ~(Changes /\ man[CHOOSE p \in state : TRUE].teardown)
    BY <1>1 DEF MarkSelfUpdate, ResolveOther
  <2> QED
    BY <2>1, <2>2, <2>3, <2>4
    DEF TornDown, ModeChange, HasTeardown, PriorOf, Changes, Method
<1>2. CASE RedeployAlone
  <2>1. ~ModeChange(cur) /\ (\E ls : AppendLines(ls)) /\ UNCHANGED <<man, prior>>
    BY <1>2 DEF RedeployAlone
  <2>2. rec'.run = cur
    BY <1>0, <2>1, AppendEffect DEF SameRun, cur
  <2> QED
    BY <2>1, <2>2 DEF TornDown, ModeChange, Method, PriorOf
<1>3. CASE TeardownDone
  <2>1. /\ live' = live \ {OldMode} /\ (\E ls : AppendLines(ls))
        /\ UNCHANGED <<man, prior>>
    BY <1>3 DEF TeardownDone
  <2>2. rec'.run = cur
    BY <1>0, <2>1, AppendEffect DEF SameRun, cur
  <2> QED
    BY <2>1, <2>2 DEF TornDown, OldMode, Method, PriorOf
<1>4. CASE DeployDone
  <2>1. /\ flow = "deploy" /\ IsRunning /\ cur \in Runs
        /\ live' = live \cup {Method(cur)} /\ UNCHANGED <<man, prior, rec>>
        /\ sup' = [sup EXCEPT ![cur] = IF Method(cur) = "node" THEN "banner" ELSE @]
    BY <1>0, <1>4, PromiseFree DEF Commands, DeployDone, At, Free
  <2>2. (\A s \in Runs : sup'[s] = "none") => \A s \in Runs : sup[s] = "none"
    BY <1>0, <2>1 DEF HostTypeOK
  <2>3. TornDown(cur)
    BY <2>1 DEF TornDownFirst, TornDown, OldMode
  <2> QED
    BY <2>1, <2>2, <2>3 DEF TornDown, ModeChange, HasTeardown, Method, PriorOf, cur
<1>5. CASE Output \/ Installs
  <2>1. /\ flow \in {"deploy", "save"} /\ IsRunning
        /\ rec' = rec \/ \E ls : AppendLines(ls)
        /\ UNCHANGED <<man, prior, live, sup>>
    BY <1>5 DEF Output, Installs, hostVars, At, Free
  <2>2. rec'.run = rec.run
    BY <1>0, <2>1, AppendEffect DEF SameRun
  <2> QED
    BY <2>1, <2>2
    DEF TornDownFirst, TornDown, ModeChange, HasTeardown, Method, PriorOf, OldMode, cur
<1>6. CASE Persist \/ Timer
  <2>1. flow \in {"deploy", "save"} /\ UNCHANGED <<man, prior, live, sup>>
    BY <1>6 DEF Persist, Timer, hostVars
  <2>2. IsRunning /\ rec'.run = rec.run
    BY <1>0, <1>6, BootFinishEffect, TimerEffect
    DEF Persist, Timer, PersistMeta, GatewayInv, FlowHasRun, IsRunning, HasRecord, Final
  <2> QED
    BY <2>1, <2>2
    DEF TornDownFirst, TornDown, ModeChange, HasTeardown, Method, PriorOf, OldMode, cur
<1>7. CASE Hosting
  <2>1. PICK r \in Runs : HostStep(r)
    BY <1>7 DEF Hosting, Host
  <2>2. sup'[r] # "none"
    BY <1>0, <2>1, HostStepNotNone
  <2> QED
    BY <2>2 DEF TornDown
<1>8. /\ ~Trigger /\ ~Fetched /\ ~Prepared /\ ~PreparationFails /\ ~Refuse
      /\ ~Stage /\ ~Launched /\ ~LaunchFails /\ ~ModeChangeAlone
      /\ ~TeardownFails /\ ~Unhandled /\ ~RollbackDone /\ ~KilledInSwap
      /\ ~DeployFails /\ ~Ending /\ ~Crash /\ ~BootUp
  BY DEF Trigger, Fetched, Prepared, PreparationFails, Refuse, Fail, Stage, Launched,
         LaunchFails, ModeChangeAlone, TeardownFails, Unhandled, RollbackDone,
         KilledInSwap, DeployFails, Ending, Save, SaveRename, SaveJson, SaveFails,
         Report, Crash, BootUp
<1> QED
  BY <1>1, <1>2, <1>3, <1>4, <1>5, <1>6, <1>7, <1>8, NextGroups
  DEF Starting, Resolving, Launching, Commands, Serving

\* On a mode change the new mode is not deployed while the old one is up,
\* wherever the old bundle says how to tear it down (deploy.controller.ts:
\* "aborting to avoid running two modes"): for the gateway's own slot and any
\* other, with lost writes, and with crashes at any await.
THEOREM OneModeAtATime == GatewaySpec => []TornDownFirst
<1>1. GatewayInit => TornDownFirst
  BY DEF GatewayInit, TornDownFirst
<1>2. GatewayInv /\ TornDownFirst /\ [GatewayNext]_vars => TornDownFirst'
  <2>1. ASSUME GatewayInv, TornDownFirst, UNCHANGED vars PROVE TornDownFirst'
    BY <2>1
    DEF vars, storeVars, hostVars, flowVars, TornDownFirst, IsRunning, HasRecord,
        ModeChange, HasTeardown, Method, PriorOf, OldMode, cur
  <2> QED
    BY <2>1, TornDownStep
<1> QED
  BY <1>1, <1>2, GatewayInvariance, PTL DEF GatewaySpec

-----------------------------------------------------------------------------
(* What is assumed of the writers                                          *)

\* Nobody is still writing for an earlier run of the release.
Writing    == Working \ {"orphan"}
NoLeftover == \A s \in Runs : s # runs => sup[s] \notin Writing

\* Appends succeed, and no command prints a line that reads as a verdict.
LogIsKept == ~LostWrites /\ CommandLines \subseteq {"text"}

\* The outside process of a run never decides it between two steps of one
\* method: for the gateway's own deploys because it does not append just there,
\* for others because there is none once the deploy command has returned.
NoRace == (Self /\ ~TightRaces) \/ (~Self /\ "node" \notin Methods)

-----------------------------------------------------------------------------
(* Part 6: where the promise and the outside process of its run stand      *)

Early == {"fetch", "prepare", "resolve", "stage", "launch", "teardown", "deploy",
          "rollback"}
Late  == {"save", "saveRename", "saveJson", "report"}

\* The states of the restart script, and of a process that writes no more.
Restarting == {"banner", "restart", "verify", "rsExit0", "rsExit1"}
Ended      == {"none", "succeeded", "failed", "dead"}

\* A run that was not started has no outside process; the promise is that of
\* the latest run, which has none before its deploy command returned, and then
\* at most the restart script.
Begun          == \A s \in Runs : s > runs => sup[s] = "none"
FlowIsLatest   == flow # "idle" => cur = runs
EarlyAlone     == flow \in Early => sup[cur] = "none"
LateRestarting == flow \in Late => sup[cur] \in Restarting \cup Ended

\* An application other than the gateway is not handed to a supervisor.
NoneOutside ==
  ~Self => /\ flow \notin {"stage", "launch"}
           /\ \A s \in Runs : sup[s] \in {"orphan"} \cup Ended

Places == Begun /\ FlowIsLatest /\ EarlyAlone /\ LateRestarting /\ NoneOutside

LEMMA PlacesInit == GatewayInit => Places
BY DEF GatewayInit, HostInit, Places, Begun, FlowIsLatest, EarlyAlone,
       LateRestarting, NoneOutside, Early, Late, Ended

\* A step of a run's outside process leaves the others' alone; what has not
\* begun does not step, the restart script goes on as one or ends, and an
\* orphan of an application without restart script just ends.
LEMMA HostPlaces ==
  ASSUME HostTypeOK, NEW r \in Runs, HostStep(r)
  PROVE  /\ \A s \in Runs : s # r => sup'[s] = sup[s]
         /\ sup[r] # "none" /\ sup[r] \in Working
         /\ sup[r] \in Restarting => sup'[r] \in Restarting \cup Ended
         /\ sup[r] = "orphan" /\ "node" \notin Methods => sup'[r] \in Ended
<1> USE DEF HostTypeOK, Goto, Restarting, Ended, Working
<1>1. CASE SupOutput(r) \/ SupBanner(r) \/ SupTeardown(r) \/ SupTeardownFails(r)
  BY <1>1 DEF SupOutput, SupBanner, SupTeardown, SupTeardownFails, hostVars
<1>2. CASE SupSwap(r) \/ SupDeployed(r) \/ SupDeployFails(r)
  BY <1>2 DEF SupSwap, SupDeployed, SupDeployFails
<1>3. CASE SupCommit(r) \/ SupCommitSwap(r) \/ SupCommitState(r) \/ SupCommitFails(r)
  BY <1>3 DEF SupCommit, SupCommitSwap, SupCommitState, SupCommitFails
<1>4. CASE SupExit0(r) \/ SupExit1(r) \/ SupRollback(r) \/ SupNoRollback(r)
  BY <1>4 DEF SupExit0, SupExit1, SupRollback, SupNoRollback
<1>5. CASE Restart(r)
  BY <1>5
  DEF Restart, RsBanner, RsRestart, RsRestartFails, RsVerified, RsMismatch, RsExit
<1>6. CASE OrphanEnds(r) \/ SupervisorDies(r)
  <2>1. Method(r) \in Methods
    BY MethodType
  <2> QED
    BY <1>6, <2>1 DEF OrphanEnds, SupervisorDies
<1> QED
  BY <1>1, <1>2, <1>3, <1>4, <1>5, <1>6 DEF HostStep, HostProgress, Supervise

LEMMA RunsKept ==
  ASSUME StoreInv, GatewayNext
  PROVE  Trigger \/ runs' = runs
<1> USE DEF Fail, AppendLines, Finish, StartTail, SetSelfUpdate, Die
<1>1. CASE Fetched \/ Prepared \/ PreparationFails \/ Resolving \/ Launching \/ Ending
  BY <1>1
  DEF Fetched, Prepared, PreparationFails, Resolving, Refuse, MarkSelfUpdate,
      ResolveOther, Launching, Stage, Launched, LaunchFails, ModeChangeAlone,
      RedeployAlone, Ending, Save, SaveRename, SaveJson, SaveFails, Report
<1>2. CASE Commands
  BY <1>2
  DEF Commands, Output, TeardownDone, TeardownFails, Unhandled, Installs, DeployDone,
      DeployFails, RollbackDone, KilledInSwap
<1>3. CASE Serving
  BY <1>3, TimerEffect, BootFinishEffect, BootEffect
  DEF Serving, Persist, PersistMeta, Timer, Crash, BootUp
<1>4. CASE Hosting
  BY <1>4, HostEffect DEF Hosting, Host, Quiet, ExternalAppend
<1> QED
  BY <1>1, <1>2, <1>3, <1>4, NextGroups DEF Starting

\* The steps of the promise, for its place and that of the outside process.
LEMMA PromisePlaces ==
  ASSUME GatewayInv, Places, NoRace,
         \/ Fetched \/ Prepared \/ PreparationFails
         \/ Resolving \/ Launching \/ Commands \/ Ending
  PROVE  /\ cur \in Runs
         /\ \/ sup' = sup
            \/ Self /\ flow' = "idle" /\ sup' = [sup EXCEPT ![cur] = "waiting"]
            \/ /\ flow' = "save" /\ sup[cur] = "none"
               /\ sup' = [sup EXCEPT ![cur] = "banner"] /\ Method(cur) = "node"
         /\ flow' \in Early => flow \in Early /\ sup' = sup
         /\ flow' \in Late => flow \in Late \/ sup[cur] = "none"
         /\ ~Self => flow' \notin {"stage", "launch"}
<1> USE DEF Then, Same, hostVars, Fail, Early, Late
<1>0. cur \in Runs /\ HostTypeOK
  BY PromiseFree DEF GatewayInv
<1>1. CASE Fetched \/ Prepared \/ PreparationFails \/ Resolving
  BY <1>0, <1>1
  DEF Fetched, Prepared, PreparationFails, Resolving, Refuse, MarkSelfUpdate,
      ResolveOther, At
<1>2. CASE Launching
  BY <1>0, <1>2
  DEF Launching, Stage, Launched, LaunchFails, ModeChangeAlone, RedeployAlone, At,
      Goto, Places, NoneOutside
<1>3. CASE DeployDone
  <2>1. sup[cur] = "none"
    BY <1>3 DEF DeployDone, At, Places, EarlyAlone
  <2>2. sup' = [sup EXCEPT ![cur] = IF Method(cur) = "node" THEN "banner" ELSE @]
    BY <1>3 DEF DeployDone
  <2>3. Method(cur) = "node" => sup' = [sup EXCEPT ![cur] = "banner"]
    BY <2>2
  <2>4. Method(cur) # "node" => sup' = sup
    BY <1>0, <2>2 DEF HostTypeOK
  <2> QED
    BY <1>0, <1>3, <2>1, <2>3, <2>4 DEF DeployDone
<1>4. CASE Commands /\ ~DeployDone
  BY <1>0, <1>4
  DEF Commands, Output, TeardownDone, TeardownFails, Unhandled, Installs,
      DeployFails, RollbackDone, KilledInSwap, At
<1>5. CASE Ending
  BY <1>0, <1>5 DEF Ending, Save, SaveRename, SaveJson, SaveFails, Report, At
<1> QED
  BY <1>1, <1>2, <1>3, <1>4, <1>5

LEMMA PlacesStep ==
  ASSUME GatewayInv, Places, NoRace, [GatewayNext]_vars
  PROVE  Places'
<1> USE DEF Then, Same
<1>0. /\ StoreInv /\ HostTypeOK /\ flow \in Flow /\ runs \in Nat /\ rec.run <= runs
      /\ MaxRuns \in Nat
  <2>1. StoreInv /\ HostTypeOK /\ flow \in Flow /\ runs \in Nat
    BY StoreAssumption DEF GatewayInv, StoreInv, TypeOK
  <2> QED
    BY <2>1, StoreAssumption DEF StoreInv, TypeOK, Coherent
<1>1. CASE Trigger
  <2>1. /\ rec'.run = runs + 1 /\ runs' = runs + 1 /\ flow' = "fetch" /\ sup' = sup
        /\ runs < MaxRuns
    BY <1>1, StartEffect DEF Trigger, Start, hostVars
  <2>2. runs + 1 \in Runs
    BY <1>0, <2>1 DEF Runs
  <2>3. sup[runs + 1] = "none"
    BY <1>0, <2>2 DEF Places, Begun
  <2>4. Begun'
    BY <1>0, <2>1 DEF Places, Begun, Runs
  <2> QED
    BY <1>0, <2>1, <2>3, <2>4
    DEF Places, FlowIsLatest, EarlyAlone, LateRestarting, NoneOutside, Late, cur
<1>2. ASSUME GatewayNext, ~Trigger,
             \/ Fetched \/ Prepared \/ PreparationFails
             \/ Resolving \/ Launching \/ Commands \/ Ending
      PROVE  Places'
  <2>1. /\ cur \in Runs
        /\ \/ sup' = sup
           \/ Self /\ flow' = "idle" /\ sup' = [sup EXCEPT ![cur] = "waiting"]
           \/ /\ flow' = "save" /\ sup[cur] = "none"
              /\ sup' = [sup EXCEPT ![cur] = "banner"] /\ Method(cur) = "node"
        /\ flow' \in Early => flow \in Early /\ sup' = sup
        /\ flow' \in Late => flow \in Late \/ sup[cur] = "none"
        /\ ~Self => flow' \notin {"stage", "launch"}
    BY <1>2, PromisePlaces
  <2>2. runs' = runs
    BY <1>0, <1>2, RunsKept
  <2>3. flow' # "idle" => rec'.run = rec.run /\ flow # "idle"
    BY <1>2, PromiseEffect, <2>1
    DEF GoesOn, EndsRun, HandsOver, Dies, Fetched, Prepared, PreparationFails, Resolving,
        Refuse, MarkSelfUpdate, ResolveOther, Launching, Stage, Launched, LaunchFails,
        ModeChangeAlone, RedeployAlone, Commands, Output, TeardownDone, TeardownFails,
        Unhandled, Installs, DeployDone, DeployFails, RollbackDone, KilledInSwap,
        Ending, Save, SaveRename, SaveJson, SaveFails, Report, At
  <2>4. ~Self => Method(cur) # "node"
    BY <1>0, <2>1, MethodType DEF NoRace
  <2>5. Begun'
    BY <1>0, <2>1, <2>2 DEF Places, Begun, Runs, HostTypeOK, cur
  <2>6. NoneOutside'
    BY <1>0, <2>1, <2>4 DEF Places, NoneOutside
  <2>7. FlowIsLatest'
    BY <2>2, <2>3 DEF Places, FlowIsLatest, cur
  <2>8. EarlyAlone'
    BY <2>1, <2>3 DEF Places, EarlyAlone, cur, Early
  <2>9. LateRestarting'
    BY <1>0, <2>1, <2>3
    DEF Places, LateRestarting, cur, Late, HostTypeOK, Restarting, Ended
  <2> QED
    BY <2>5, <2>6, <2>7, <2>8, <2>9 DEF Places
<1>3. ASSUME GatewayNext, ~Trigger, Persist \/ Timer
      PROVE  Places'
  <2>1. /\ runs' = runs /\ sup' = sup /\ flow' = flow
    BY <1>0, <1>3, RunsKept DEF Persist, Timer, hostVars
  <2>2. rec'.run = rec.run
    BY <1>0, <1>3, TimerEffect, BootFinishEffect DEF Persist, PersistMeta, Timer
  <2> QED
    BY <2>1, <2>2
    DEF Places, Begun, FlowIsLatest, EarlyAlone, LateRestarting, NoneOutside, cur
<1>4. ASSUME GatewayNext, ~Trigger, Crash \/ BootUp
      PROVE  Places'
  <2>1. /\ runs' = runs /\ flow' = "idle"
        /\ sup' = sup \/ (flow = "deploy" /\ sup' = [sup EXCEPT ![cur] = "orphan"])
    BY <1>0, <1>4, RunsKept DEF Crash, BootUp, Goto
  <2>2. flow = "deploy" => cur \in Runs
    BY <1>0, CurType DEF GatewayInv, FlowHasRun, IsRunning
  <2> QED
    BY <1>0, <2>1, <2>2
    DEF Places, Begun, FlowIsLatest, EarlyAlone, LateRestarting, NoneOutside, cur,
        HostTypeOK, Early, Late, Runs
<1>5. ASSUME GatewayNext, ~Trigger, Hosting
      PROVE  Places'
  <2>1. PICK r \in Runs : HostStep(r) /\ flow' = IF up' THEN flow ELSE "idle"
    BY <1>5 DEF Hosting, Host
  <2>2. runs' = runs
    BY <1>0, <1>5, RunsKept
  <2>3. flow' # "idle" => flow' = flow /\ rec' = rec
    BY <2>1, HostEffect DEF Quiet, Die, ExternalAppend
  <2>4. /\ \A s \in Runs : s # r => sup'[s] = sup[s]
        /\ sup[r] # "none" /\ sup[r] \in Working
        /\ sup[r] \in Restarting => sup'[r] \in Restarting \cup Ended
        /\ sup[r] = "orphan" /\ "node" \notin Methods => sup'[r] \in Ended
    BY <1>0, <2>1, HostPlaces
  <2>5. Begun'
    BY <2>2, <2>4 DEF Places, Begun
  <2>6. NoneOutside'
    BY <2>3, <2>4 DEF Places, NoneOutside, NoRace, Ended, Working
  <2>7. FlowIsLatest'
    BY <2>2, <2>3 DEF Places, FlowIsLatest, cur
  <2>8. flow # "idle" => cur \in Runs
    BY <1>0, CurType DEF GatewayInv, FlowHasRun, IsRunning
  <2>9. EarlyAlone'
    BY <2>3, <2>4, <2>8 DEF Places, EarlyAlone, cur, Early
  <2>10. LateRestarting'
    BY <2>3, <2>4, <2>8 DEF Places, LateRestarting, cur, Late, Ended, Working
  <2> QED
    BY <2>5, <2>6, <2>7, <2>9, <2>10 DEF Places
<1>6. CASE UNCHANGED vars
  BY <1>6
  DEF vars, storeVars, hostVars, flowVars, Places, Begun, FlowIsLatest, EarlyAlone,
      LateRestarting, NoneOutside, cur
<1> QED
  BY <1>1, <1>2, <1>3, <1>4, <1>5, <1>6, NextGroups DEF Starting, Serving

-----------------------------------------------------------------------------
(* Part 7: logs that grow                                                  *)

\* Appending leaves the exits that are there, and the first of them.
LEMMA GrownExits ==
  ASSUME NEW log \in Seq(Line), NEW b \in Seq(Line)
  PROVE  /\ Len(log \o b) = Len(log) + Len(b) /\ Len(log) \in Nat /\ Len(b) \in Nat
         /\ Exits(log) \subseteq Exits(log \o b)
         /\ \A i \in Exits(log \o b) : i \in Nat /\ i <= Len(log) + Len(b)
         /\ \A i \in Exits(log \o b) :
              i \in Exits(log) \/ (i > Len(log) /\ IsExit(b[i - Len(log)]))
         /\ \A i : FirstExit(log, i) => FirstExit(log \o b, i) /\ (log \o b)[i] = log[i]
<1>1. /\ Len(log) \in Nat /\ Len(b) \in Nat /\ Len(log \o b) = Len(log) + Len(b)
      /\ DOMAIN log = 1..Len(log) /\ DOMAIN (log \o b) = 1..(Len(log) + Len(b))
      /\ \A i \in 1..(Len(log) + Len(b)) :
           (log \o b)[i] = IF i <= Len(log) THEN log[i] ELSE b[i - Len(log)]
  BY ConcatProperties, LenProperties
<1>2. Exits(log) \subseteq Exits(log \o b)
  BY <1>1 DEF Exits
<1>3. \A i \in Exits(log \o b) :
        i \in Nat /\ i <= Len(log) + Len(b)
        /\ (i \in Exits(log) \/ (i > Len(log) /\ IsExit(b[i - Len(log)])))
  BY <1>1 DEF Exits
<1>4. \A i : FirstExit(log, i) => FirstExit(log \o b, i) /\ (log \o b)[i] = log[i]
  <2> SUFFICES ASSUME NEW i, FirstExit(log, i)
               PROVE  FirstExit(log \o b, i) /\ (log \o b)[i] = log[i]
    OBVIOUS
  <2>1. i \in 1..Len(log) /\ i \in Exits(log)
    BY <1>1 DEF FirstExit, Exits
  <2>2. \A j \in Exits(log \o b) : i <= j
    BY <1>1, <1>3, <2>1 DEF FirstExit
  <2> QED
    BY <1>1, <1>2, <2>1, <2>2 DEF FirstExit
<1> QED
  BY <1>1, <1>2, <1>3, <1>4

\* Text adds no exit.
LEMMA TextAddsNone ==
  ASSUME NEW log \in Seq(Line), NEW b \in Seq(Line),
         \A i \in 1..Len(b) : ~IsExit(b[i])
  PROVE  Exits(log \o b) = Exits(log)
<1>1. \A i \in Exits(log \o b) : i \in Exits(log)
  BY GrownExits
<1> QED
  BY <1>1, GrownExits

\* The first verdict of a log is the one that closes the lines appended to it.
LEMMA FirstVerdict ==
  ASSUME NEW log \in Seq(Line), Exits(log) = {}, NEW b \in Seq(Line),
         b # <<>>, IsExit(b[Len(b)]), \A i \in 1..(Len(b) - 1) : ~IsExit(b[i])
  PROVE  \E i \in DOMAIN (log \o b) :
           FirstExit(log \o b, i) /\ (log \o b)[i] = b[Len(b)]
<1>1. /\ Len(log) \in Nat /\ Len(b) \in Nat /\ Len(b) # 0
      /\ DOMAIN (log \o b) = 1..(Len(log) + Len(b))
      /\ \A i \in 1..(Len(log) + Len(b)) :
           (log \o b)[i] = IF i <= Len(log) THEN log[i] ELSE b[i - Len(log)]
  BY ConcatProperties, LenProperties, EmptySeq
<1> DEFINE n == Len(log) + Len(b)
<1>2. n \in DOMAIN (log \o b) /\ (log \o b)[n] = b[Len(b)]
  BY <1>1
<1>3. n \in Exits(log \o b)
  BY <1>2 DEF Exits
<1>4. \A j \in Exits(log \o b) : n <= j
  <2> SUFFICES ASSUME NEW j \in Exits(log \o b), ~(n <= j) PROVE FALSE
    OBVIOUS
  <2>1. j \in 1..n /\ j > Len(log) /\ IsExit(b[j - Len(log)])
    BY <1>1, GrownExits DEF Exits
  <2>2. j - Len(log) \in 1..(Len(b) - 1)
    BY <1>1, <2>1
  <2> QED
    BY <2>1, <2>2
<1> QED
  BY <1>2, <1>3, <1>4 DEF FirstExit

\* A set of exits that is not empty has a first one.
LEMMA HasFirst ==
  ASSUME NEW log \in Seq(Line), Exits(log) # {}
  PROVE  \E i \in DOMAIN log : FirstExit(log, i)
<1>1. Exits(log) \subseteq Nat /\ Exits(log) \subseteq DOMAIN log
  BY LenProperties DEF Exits
<1>2. IsWellFoundedOn(OpToRel(<, Nat), Nat)
  BY NatLessThanWellFounded
<1>3. PICK i \in Exits(log) : \A j \in Exits(log) : ~(<<j, i>> \in OpToRel(<, Nat))
  BY <1>1, <1>2, WFMin
<1>4. \A j \in Exits(log) : ~(j < i)
  BY <1>1, <1>3, Zenon DEF OpToRel
<1>5. \A j \in Exits(log) : i <= j
  BY <1>1, <1>4
<1> QED
  BY <1>1, <1>3, <1>5 DEF FirstExit

-----------------------------------------------------------------------------
(* Part 8: no verdict of the run is behind those who wait for it           *)

\* While the promise has the run, before its restart script may have written,
\* and while a boot has it, the log holds no verdict.
Undecided == (IsRunning /\ ~rec.tail /\ flow \notin Late) => Exits(dlog) = {}

\* A tail counts no verdict among the lines it has emitted, one that is about
\* to expire has seen all there are, and the hand-over to the tail, which will
\* count one message more, finds every verdict beyond that.
Margin     == IF flow = "report" THEN 1 ELSE 2
TailAhead  == rec.tail => \A i \in Exits(dlog) : i > rec.emitted
NoneMissed == pend = "expire" => Exits(dlog) = {}
HandOverAhead == flow \in Late => \A i \in Exits(dlog) : i > Len(rec.log) + Margin

\* It does so because the restart script has written two lines before its EXIT
\* that the gateway has not.
RestartLines ==
  flow \in Late =>
    /\ sup[cur] \in {"restart", "verify"} => Len(dlog) > Len(rec.log)
    /\ sup[cur] \in {"rsExit0", "rsExit1"} => Len(dlog) > Len(rec.log) + 1

\* For any other application the gateway alone writes a verdict.
AloneDecides == (~Self /\ IsRunning) => Exits(dlog) = {}

LogInv ==
  /\ Undecided /\ TailAhead /\ NoneMissed /\ HandOverAhead /\ RestartLines
  /\ AloneDecides /\ LogDecides

LEMMA LenGrows ==
  ASSUME NEW log \in Seq(Line), NEW b \in Seq(Line), NEW n \in Nat, Len(b) = n
  PROVE  Len(log) \in Nat /\ Len(log \o b) = Len(log) + n
BY GrownExits

LEMMA OneMore ==
  ASSUME NEW log \in Seq(Line), NEW b \in Seq(Line), Len(b) = 1
  PROVE  \A i \in Exits(log \o b) : i \in Exits(log) \/ i = Len(log) + 1
<1>1. \A i \in Exits(log \o b) :
        /\ i \in Nat /\ i <= Len(log) + 1 /\ Len(log) \in Nat
        /\ i \in Exits(log) \/ i > Len(log)
  BY GrownExits
<1> QED
  BY <1>1

\* The two messages the promise may add, and what it says at the end.
LEMMA MessageAdded ==
  ASSUME StoreInv, LogIsKept, AppendLines(One) \/ StartTail(One)
  PROVE  /\ Exits(dlog') = Exits(dlog) /\ Len(dlog') = Len(dlog) + 1
         /\ Len(rec'.log) = Len(rec.log) + 1 /\ Len(rec.log) \in Nat /\ Len(dlog) \in Nat
         /\ StartTail(One) => rec'.emitted = Len(rec.log) + 1
         /\ dlog' = dlog \o One /\ One \in Seq(Line)
<1>1. dlog \in Seq(Line) /\ rec \in Record /\ rec.log \in Seq(Line)
  BY DEF StoreInv, TypeOK, Record
<1>2. rec.run # 0
  BY DEF AppendLines, StartTail, IsRunning, HasRecord
<1>3. One \in Seq(Line) /\ Len(One) = 1 /\ \A i \in 1..Len(One) : ~IsExit(One[i])
  <2>1. Ln("text", rec.run) \in Line
    BY <1>2, StoreAssumption, LineType DEF StoreInv, TypeOK, Record, Runs, Texts
  <2>2. One[1] = Ln("text", rec.run) /\ Len(One) = 1
    BY DEF One
  <2> QED
    BY <2>1, <2>2 DEF One, Ln, IsExit
<1>4. dlog' = dlog \o One
  BY <1>3 DEF AppendLines, StartTail, Appends, LogIsKept
<1>5. rec'.log = rec.log \o One /\ (StartTail(One) => rec'.emitted = Len(rec'.log))
  BY <1>1 DEF AppendLines, StartTail, Record
<1>6. Len(rec.log) \in Nat /\ Len(rec.log \o One) = Len(rec.log) + 1
  BY <1>1, <1>3, LenGrows
<1>7. Len(dlog) \in Nat /\ Len(dlog \o One) = Len(dlog) + 1
  BY <1>1, <1>3, LenGrows
<1> QED
  BY <1>1, <1>3, <1>4, <1>5, <1>6, <1>7, TextAddsNone

LEMMA LastWord ==
  ASSUME StoreInv, ~LostWrites, Exits(dlog) = {}, NEW c \in {0, 1}, rec.run # 0,
         NEW b, b \in {<<ExitLine(c, rec.run)>>,
                       <<Ln("text", rec.run), ExitLine(c, rec.run)>>},
         Appends(b)
  PROVE  \E i \in DOMAIN dlog' :
           FirstExit(dlog', i) /\ VerdictOf(dlog'[i]) = VerdictOfCode(c)
<1>1. dlog \in Seq(Line) /\ rec.run \in Runs
  BY StoreAssumption DEF StoreInv, TypeOK, Record, Runs
<1>2. ExitLine(c, rec.run) \in Line /\ Ln("text", rec.run) \in Line
  BY <1>1, ExitLineType, LineType DEF Texts
<1>3. /\ b \in Seq(Line) /\ b # <<>> /\ b[Len(b)] = ExitLine(c, rec.run)
      /\ \A i \in 1..(Len(b) - 1) : ~IsExit(b[i])
  <2>1. CASE b = <<ExitLine(c, rec.run)>>
    BY <1>2, <2>1
  <2>2. CASE b = <<Ln("text", rec.run), ExitLine(c, rec.run)>>
    <3>1. Len(b) = 2 /\ b[1] = Ln("text", rec.run) /\ b[2] = ExitLine(c, rec.run)
      BY <2>2
    <3>2. ~IsExit(b[1])
      BY <3>1 DEF Ln, IsExit
    <3> QED
      BY <1>2, <2>2, <3>1, <3>2
  <2> QED
    BY <2>1, <2>2
<1>4. dlog' = dlog \o b
  BY <1>3 DEF Appends
<1>5. IsExit(b[Len(b)]) /\ VerdictOf(b[Len(b)]) = VerdictOfCode(c)
  BY <1>3, ExitLineSays
<1>6. \E i \in DOMAIN (dlog \o b) :
        FirstExit(dlog \o b, i) /\ (dlog \o b)[i] = b[Len(b)]
  BY <1>1, <1>3, <1>5, FirstVerdict
<1> QED
  BY <1>4, <1>5, <1>6

LEMMA TwoLines ==
  ASSUME NEW x \in Line, NEW y \in Line
  PROVE  Append(<<>>, y) = <<y>> /\ Append(<<x>>, y) = <<x, y>>
<1>1. <<>> \in Seq(Line) /\ <<x>> \in Seq(Line) /\ <<y>> \in Seq(Line) /\ <<x, y>> \in Seq(Line)
  OBVIOUS
<1>2. Append(<<>>, y) \in Seq(Line) /\ Append(<<x>>, y) \in Seq(Line)
  BY <1>1, AppendProperties
<1>3. Append(<<>>, y) = <<y>>
  BY <1>1, AppendProperties
<1>4. Append(<<x>>, y) = <<x, y>>
  <2>1. /\ Len(Append(<<x>>, y)) = 2
        /\ Append(<<x>>, y)[1] = x /\ Append(<<x>>, y)[2] = y
    <3>1. Len(<<x>>) = 1 /\ <<x>>[1] = x
      OBVIOUS
    <3> QED
      BY <1>1, <3>1, AppendProperties
  <2>2. \A i \in 1..Len(Append(<<x>>, y)) : Append(<<x>>, y)[i] = <<x, y>>[i]
    BY <2>1
  <2>3. Len(<<x, y>>) = 2
    OBVIOUS
  <2> QED
    BY <1>1, <1>2, <2>1, <2>2, <2>3, SeqEqual
<1> QED
  BY <1>3, <1>4

LEMMA FinishDecides ==
  ASSUME StoreInv, ~LostWrites, Exits(dlog) = {}, NEW c \in {0, 1},
         Finish(One, c) \/ Finish(<<>>, c)
  PROVE  \E i \in DOMAIN dlog' :
           FirstExit(dlog', i) /\ VerdictOf(dlog'[i]) = rec'.status
<1>1. rec.run # 0 /\ rec'.status = VerdictOfCode(c)
  BY FinishEffect DEF Finish, IsRunning, HasRecord
<1>2. Append(<<>>, ExitLine(c, rec.run)) = <<ExitLine(c, rec.run)>>
      /\ Append(One, ExitLine(c, rec.run)) = <<Ln("text", rec.run), ExitLine(c, rec.run)>>
  <2>1. Ln("text", rec.run) \in Line /\ ExitLine(c, rec.run) \in Line
    BY <1>1, StoreAssumption, LineType, ExitLineType
    DEF StoreInv, TypeOK, Record, Runs, Texts
  <2> QED
    BY <2>1, TwoLines DEF One
<1> QED
  BY <1>1, <1>2, LastWord DEF Finish

\* Three ways to be in order: no verdict yet, one that is in the log, no record.
LEMMA NoVerdictYet ==
  ASSUME Exits(dlog') = {}, flow' \notin Late, rec'.status = "running"
  PROVE  LogInv'
BY DEF LogInv, Undecided, TailAhead, NoneMissed, HandOverAhead, RestartLines,
       AloneDecides, LogDecides, Final

LEMMA InTheLog ==
  ASSUME flow' = "idle", ~rec'.tail, pend' # "expire", rec'.status \in Final,
         \E i \in DOMAIN dlog' : FirstExit(dlog', i) /\ VerdictOf(dlog'[i]) = rec'.status
  PROVE  LogInv'
BY DEF LogInv, Undecided, TailAhead, NoneMissed, HandOverAhead, RestartLines,
       AloneDecides, LogDecides, Final, Late, IsRunning

LEMMA NothingKnown ==
  ASSUME flow' = "idle", rec' = NoRecord, pend' = "none"
  PROVE  LogInv'
BY DEF LogInv, Undecided, TailAhead, NoneMissed, HandOverAhead, RestartLines,
       AloneDecides, LogDecides, Late, IsRunning, HasRecord, NoRecord

\* Before the deploy command has returned, the steps of the promise.
LEMMA EarlyLog ==
  ASSUME GatewayInv, LogInv, LogIsKept,
         \/ Fetched \/ Prepared \/ PreparationFails
         \/ Resolving \/ Launching \/ (Commands /\ ~DeployDone)
  PROVE  LogInv'
<1> USE DEF Then, Early, Late
<1>0. StoreInv /\ ~LostWrites
  BY DEF GatewayInv, LogIsKept
<1>1. Exits(dlog) = {} /\ flow \notin Late /\ rec.status = "running"
  <2>1. flow # "idle" /\ flow \notin Late
    BY DEF Fetched, Prepared, PreparationFails, Resolving, Refuse, MarkSelfUpdate,
           ResolveOther, Launching, Stage, Launched, LaunchFails, ModeChangeAlone,
           RedeployAlone, Commands, Output, TeardownDone, TeardownFails, Unhandled,
           Installs, DeployDone, DeployFails, RollbackDone, KilledInSwap, At
  <2> QED
    BY <2>1 DEF LogInv, Undecided, GatewayInv, FlowHasRun, IsRunning
<1>2. ASSUME Fail PROVE LogInv'
  <2>1. Finish(One, 1) /\ flow' = "idle"
    BY <1>2 DEF Fail
  <2>2. \E i \in DOMAIN dlog' : FirstExit(dlog', i) /\ VerdictOf(dlog'[i]) = rec'.status
    BY <1>0, <1>1, <2>1, FinishDecides
  <2> QED
    BY <1>0, <2>1, <2>2, FinishEffect, InTheLog
<1>3. ASSUME AppendLines(One), flow' \notin Late PROVE LogInv'
  <2>1. Exits(dlog') = {}
    BY <1>0, <1>1, <1>3, MessageAdded
  <2> QED
    BY <1>0, <1>1, <1>3, <2>1, AppendEffect, NoVerdictYet DEF SameRun
<1>4. ASSUME UNCHANGED <<rec, dlog>>, flow' \notin Late PROVE LogInv'
  BY <1>1, <1>4, NoVerdictYet
<1>5. ASSUME Die, flow' = "idle" PROVE LogInv'
  BY <1>5, DieEffect, NothingKnown
<1>6. CASE Fetched \/ Prepared \/ PreparationFails
  BY <1>2, <1>3, <1>4, <1>6 DEF Fetched, Prepared, PreparationFails
<1>7. CASE Resolving
  <2>1. CASE MarkSelfUpdate
    BY <1>0, <1>1, <2>1, SelfUpdateEffect, NoVerdictYet DEF MarkSelfUpdate
  <2> QED
    BY <1>2, <1>3, <1>7, <2>1 DEF Resolving, Refuse, ResolveOther
<1>8. CASE Launching
  <2>1. CASE Launched
    BY <1>0, <1>1, <2>1, MessageAdded, StartTailEffect, NoVerdictYet DEF Launched
  <2> QED
    BY <1>2, <1>3, <1>4, <1>8, <2>1
    DEF Launching, Stage, LaunchFails, ModeChangeAlone, RedeployAlone
<1>9. CASE Commands /\ ~DeployDone
  <2>1. CASE Output
    <3>1. AppendLines(One) /\ flow' \notin Late
      BY <2>1 DEF Output, LogIsKept, One, cur, At
    <3> QED
      BY <1>3, <3>1
  <2> QED
    BY <1>2, <1>3, <1>4, <1>5, <1>9, <2>1
    DEF Commands, TeardownDone, TeardownFails, Unhandled, Installs, DeployFails,
        RollbackDone, KilledInSwap, At
<1> QED
  BY <1>6, <1>7, <1>8, <1>9

\* The deploy command returns, and what the promise does after it.
LEMMA LateLog ==
  ASSUME GatewayInv, Durable, LogInv, LogIsKept, NoRace, Places, DeployDone \/ Ending
  PROVE  LogInv'
<1> USE DEF Then, Late
<1>0. StoreInv /\ ~LostWrites /\ HostTypeOK
  BY DEF GatewayInv, LogIsKept
<1>1. /\ rec.status = "running" /\ IsRunning /\ ~rec.tail
      /\ Len(dlog) \in Nat /\ Len(rec.log) \in Nat
      /\ pend = "none" /\ cur \in Runs
  <2>1. Free /\ cur \in Runs
    BY <1>0, PromiseFree DEF Commands
  <2>2. flow # "idle"
    BY DEF DeployDone, Ending, Save, SaveRename, SaveJson, SaveFails, Report, At
  <2> QED
    BY <1>0, <2>1, <2>2, LenProperties
    DEF Free, Quiescent, GatewayInv, FlowHasRun, IsRunning, StoreInv, TypeOK, Record
<1>2. \A i \in Exits(dlog) : i \in Nat
  BY <1>0, LenProperties DEF StoreInv, TypeOK, Exits
<1>3. CASE DeployDone
  <2>1. /\ flow = "deploy" /\ flow' = "save" /\ UNCHANGED <<rec, dlog, pend>>
        /\ sup' = [sup EXCEPT ![cur] = IF Method(cur) = "node" THEN "banner" ELSE @]
    BY <1>3 DEF DeployDone, At
  <2>2. Exits(dlog) = {}
    BY <1>1, <2>1 DEF LogInv, Undecided
  <2>3. sup'[cur] \in {"none", "banner"}
    BY <1>0, <1>1, <2>1 DEF HostTypeOK, Places, EarlyAlone, Early
  <2> QED
    BY <1>1, <2>1, <2>2, <2>3
    DEF LogInv, Undecided, TailAhead, NoneMissed, HandOverAhead, RestartLines,
        AloneDecides, LogDecides, Final, cur
<1>4. CASE Save \/ SaveRename \/ SaveJson
  <2>1. /\ flow \in Late /\ flow' \in Late /\ UNCHANGED <<rec, dlog, pend, sup>>
        /\ flow # "report"
    BY <1>4 DEF Save, SaveRename, SaveJson, At, Same, hostVars
  <2>2. \A i \in Exits(dlog) : i \in Nat /\ i > Len(rec.log) + 2
    BY <1>1, <2>1, <1>2 DEF LogInv, HandOverAhead, Margin
  <2>3. HandOverAhead'
    <3>1. Exits(dlog') = Exits(dlog) /\ rec'.log = rec.log /\ Margin' \in {1, 2}
      BY <2>1 DEF Margin
    <3> QED
      BY <1>1, <2>2, <3>1 DEF HandOverAhead
  <2>4. RestartLines'
    BY <2>1 DEF LogInv, RestartLines, cur
  <2>5. AloneDecides' /\ LogDecides'
    BY <1>1, <2>1 DEF LogInv, AloneDecides, LogDecides, IsRunning, HasRecord, Exits, Final
  <2> QED
    BY <1>1, <2>1, <2>3, <2>4, <2>5
    DEF LogInv, Undecided, TailAhead, NoneMissed
<1>5. CASE SaveFails
  <2>1. /\ flow \in Late \ {"report"} /\ flow' = "report" /\ UNCHANGED sup
        /\ AppendLines(One)
    BY <1>5 DEF SaveFails, At, Same, hostVars
  <2>2. /\ Exits(dlog') = Exits(dlog) /\ Len(dlog') = Len(dlog) + 1
        /\ Len(rec'.log) = Len(rec.log) + 1
        /\ SameRun /\ pend' = pend
    BY <1>0, <2>1, MessageAdded, AppendEffect
  <2>3. \A i \in Exits(dlog) : i \in Nat /\ i > Len(rec.log) + 2
    BY <1>1, <2>1, <1>2 DEF LogInv, HandOverAhead, Margin
  <2>4. HandOverAhead'
    BY <1>1, <2>1, <2>2, <2>3 DEF HandOverAhead, Margin
  <2>5. RestartLines'
    BY <1>1, <2>1, <2>2 DEF LogInv, RestartLines, cur, SameRun
  <2>6. AloneDecides' /\ LogDecides'
    BY <1>1, <2>1, <2>2
    DEF LogInv, AloneDecides, LogDecides, IsRunning, HasRecord, SameRun, Final
  <2> QED
    BY <1>1, <2>1, <2>2, <2>4, <2>5, <2>6
    DEF LogInv, Undecided, TailAhead, NoneMissed, SameRun
<1>6. CASE Report
  <2>1. flow = "report" /\ flow' = "idle"
        /\ IF Self THEN StartTail(One) ELSE Finish(<<>>, 0)
    BY <1>6 DEF Report, At
  <2>2. CASE Self
    <3>1. StartTail(One)
      BY <2>1, <2>2
    <3>2. /\ Exits(dlog') = Exits(dlog) /\ rec'.emitted = Len(rec.log) + 1
          /\ rec'.status = "running" /\ rec'.tail /\ pend' = "none"
      BY <1>0, <1>1, <3>1, MessageAdded, StartTailEffect
    <3>3. \A i \in Exits(dlog) : i > Len(rec.log) + 1
      BY <2>1 DEF LogInv, HandOverAhead, Margin
    <3> QED
      BY <2>1, <2>2, <3>2, <3>3
      DEF LogInv, Undecided, TailAhead, NoneMissed, HandOverAhead, RestartLines,
          AloneDecides, LogDecides, Final
  <2>3. CASE ~Self
    <3>1. Exits(dlog) = {} /\ Finish(<<>>, 0)
      BY <1>1, <2>1, <2>3 DEF LogInv, AloneDecides
    <3>2. \E i \in DOMAIN dlog' : FirstExit(dlog', i) /\ VerdictOf(dlog'[i]) = rec'.status
      BY <1>0, <3>1, FinishDecides
    <3> QED
      BY <1>0, <2>1, <3>1, <3>2, FinishEffect, InTheLog
  <2> QED
    BY <2>2, <2>3
<1> QED
  BY <1>3, <1>4, <1>5, <1>6 DEF Ending

\* The tail: what it has not emitted holds every verdict there is, so the first
\* one it finds is the first of the log.
LEMMA TimerLog ==
  ASSUME GatewayInv, Durable, LogInv, LogIsKept, Timer
  PROVE  LogInv'
<1> USE DEF Then, Late, Quiescent
<1>0. StoreInv /\ ~LostWrites
  BY DEF GatewayInv, LogIsKept
<1>1. /\ rec.tail /\ IsRunning /\ rec.run # 0 /\ flow = "idle" /\ flow' = "idle"
      /\ dlog \in Seq(Line) /\ Len(dlog) \in Nat /\ DOMAIN dlog = 1..Len(dlog)
      /\ rec \in Record /\ rec.emitted \in Nat /\ rec.emitted <= Len(dlog)
  <2>1. rec.tail /\ IsRunning /\ rec.run # 0
    BY <1>0, TimerEffect DEF Timer, StoreInv, Coherent, IsRunning, HasRecord
  <2>2. flow = "idle" /\ flow' = flow
    BY <2>1 DEF GatewayInv, FlowHasRun, Timer
  <2> QED
    BY <1>0, <2>1, <2>2, LenProperties
    DEF StoreInv, TypeOK, Record, Durable, TailWithinLog
<1>2. \A i \in Exits(dlog) : i \in Fresh
  BY <1>1 DEF LogInv, TailAhead, Exits, Fresh
<1>3. CASE TailEmit
  <2>1. /\ Exits(dlog) = {} /\ dlog' = dlog
    BY <1>2, <1>3 DEF TailEmit
  <2>2. rec'.status = "running"
    BY <1>0, <1>1, <1>3, TimerEffect DEF SameRun, IsRunning, TailEmit, TailQuiet
  <2> QED
    BY <1>1, <2>1, <2>2, NoVerdictYet
<1>4. CASE TailExit
  <2>1. PICK k \in Fresh \cap Exits(dlog) :
          /\ \A j \in Fresh \cap Exits(dlog) : k <= j
          /\ rec' = [rec EXCEPT
               !.log = @ \o SubSeq(dlog, rec.emitted + 1, k),
               !.emitted = k, !.status = VerdictOf(dlog[k]), !.tail = FALSE]
    BY <1>4 DEF TailExit
  <2>2. rec'.status = VerdictOf(dlog[k]) /\ ~rec'.tail
    BY <1>1, <2>1 DEF Record
  <2>3. FirstExit(dlog, k) /\ k \in DOMAIN dlog
    BY <1>2, <2>1 DEF FirstExit, Exits
  <2>4. VerdictOf(dlog[k]) \in Final
    BY DEF VerdictOf, Final
  <2>5. dlog' = dlog /\ pend' = "persist"
    BY <1>4 DEF TailExit
  <2> QED
    BY <1>1, <2>2, <2>3, <2>4, <2>5, InTheLog
<1>5. CASE TailTruncated
  BY <1>1, <1>5 DEF TailTruncated
<1>6. CASE TailQuiet
  <2>1. Exits(dlog) = {} /\ dlog' = dlog /\ rec' = rec
    BY <1>1, <1>2, <1>6 DEF TailQuiet, Fresh
  <2> QED
    BY <1>1, <2>1, NoVerdictYet DEF IsRunning
<1>7. CASE TailExpire
  <2>1. /\ Exits(dlog) = {} /\ pend' = "persist"
        /\ rec'.status = "failed" /\ ~rec'.tail
        /\ Appends(<<Ln("text", rec.run), Ln("EXIT:1", rec.run)>>)
    BY <1>1, <1>7 DEF TailExpire, LogInv, NoneMissed, Record
  <2>2. Ln("EXIT:1", rec.run) = ExitLine(1, rec.run) /\ VerdictOfCode(1) = "failed"
    BY DEF ExitLine, VerdictOfCode
  <2>3. \E i \in DOMAIN dlog' : FirstExit(dlog', i) /\ VerdictOf(dlog'[i]) = rec'.status
    BY <1>0, <1>1, <2>1, <2>2, LastWord
  <2> QED
    BY <1>1, <2>1, <2>3, InTheLog DEF Final
<1> QED
  BY <1>3, <1>4, <1>5, <1>6, <1>7 DEF Timer

LEMMA PersistLog ==
  ASSUME GatewayInv, LogInv, LogIsKept, Persist
  PROVE  LogInv'
<1> USE DEF Then, Same
<1>0. StoreInv /\ ~LostWrites
  BY DEF GatewayInv, LogIsKept
<1>1. CASE PersistMeta
  <2>1. UNCHANGED <<rec, dlog, flow, sup, runs>> /\ pend' = "none"
    BY <1>1 DEF Persist, PersistMeta, hostVars
  <2> QED
    BY <2>1
    DEF LogInv, Undecided, TailAhead, NoneMissed, HandOverAhead, RestartLines,
        AloneDecides, LogDecides, Margin, IsRunning, HasRecord, cur, Exits, FirstExit
<1>2. CASE BootFinish
  <2> DEFINE code == IF pend = "verified" THEN 0 ELSE 1
  <2>1. /\ pend \in {"verified", "interrupted"} /\ rec.run # 0 /\ IsRunning /\ ~rec.tail
        /\ rec'.status \in Final /\ ~rec'.tail /\ pend' = "persist"
    BY <1>0, <1>2, BootFinishEffect DEF IsRunning, HasRecord
  <2>2. flow = "idle" /\ flow' = "idle"
    BY <1>2, <2>1 DEF Persist, GatewayInv, FlowHasRun
  <2>3. Exits(dlog) = {}
    BY <2>1, <2>2 DEF LogInv, Undecided, Late
  <2>4. code \in {0, 1} /\ rec'.status = VerdictOfCode(code)
        /\ Appends(<<Ln("text", rec.run), ExitLine(code, rec.run)>>)
    BY <1>0, <1>2 DEF BootFinish, StoreInv, TypeOK, Record
  <2>5. \E i \in DOMAIN dlog' : FirstExit(dlog', i) /\ VerdictOf(dlog'[i]) = rec'.status
    BY <1>0, <2>1, <2>3, <2>4, LastWord
  <2> QED
    BY <2>1, <2>2, <2>5, InTheLog
<1> QED
  BY <1>1, <1>2 DEF Persist

\* A boot reads the log to its first verdict; without one the metadata cannot
\* hold a verdict of the latest run either.
LEMMA BootLog ==
  ASSUME GatewayInv, Durable, LogInv, BootUp
  PROVE  LogInv'
<1> USE DEF Then, Late
<1>0. StoreInv /\ flow' = "idle" /\ Boot(installed)
  BY DEF GatewayInv, BootUp
<1>1. CASE BootNothing
  <2>1. rec' = rec /\ rec.run = 0 /\ ~rec.tail /\ pend' = "none"
    BY <1>0, <1>1 DEF BootNothing, StoreInv, Coherent
  <2> QED
    BY <1>0, <2>1
    DEF LogInv, Undecided, TailAhead, NoneMissed, HandOverAhead, RestartLines,
        AloneDecides, LogDecides, IsRunning, HasRecord
<1>2. CASE BootReconcile
  <2>1. PICK i \in DOMAIN dlog :
          FirstExit(dlog, i) /\ rec' = [Restored EXCEPT !.status = VerdictOf(dlog[i])]
    BY <1>2 DEF BootReconcile
  <2>2. rec'.status = VerdictOf(dlog[i]) /\ ~rec'.tail /\ dlog' = dlog /\ pend' = "none"
    BY <1>0, <1>2, <2>1 DEF BootReconcile, Restored, StoreInv, Coherent
  <2>3. VerdictOf(dlog[i]) \in Final
    BY DEF VerdictOf, Final
  <2> QED
    BY <1>0, <2>1, <2>2, <2>3, InTheLog
<1>3. CASE BootDecided
  <2>1. /\ Exits(dlog) = {} /\ dlog' = dlog /\ runs' = runs /\ pend' = "none"
        /\ rec'.run = meta.run /\ rec'.status = meta.status /\ ~rec'.tail
        /\ meta.file = "ok" /\ meta.status \in Final
    BY <1>0, <1>3
    DEF BootDecided, Restored, StoreInv, Coherent, TypeOK, Meta, Status
  <2>2. meta.run # runs
    BY <2>1 DEF Durable, MetaFollowsLog
  <2> QED
    BY <1>0, <2>1, <2>2
    DEF LogInv, Undecided, TailAhead, NoneMissed, HandOverAhead, RestartLines,
        AloneDecides, LogDecides, IsRunning
<1>4. CASE BootVerified(installed) \/ BootTail(installed) \/ BootFailed
  <2>1. Exits(dlog) = {} /\ dlog' = dlog /\ meta.status = "running"
        /\ (rec' = Restored
            \/ rec' = [Restored EXCEPT !.tail = TRUE, !.emitted = Len(dlog)])
    BY <1>4 DEF BootVerified, BootTail, BootFailed, Interrupted
  <2>2. rec'.status = "running"
    <3>1. Restored.status = "running"
      BY <2>1 DEF Restored
    <3>2. [Restored EXCEPT !.tail = TRUE, !.emitted = Len(dlog)].status = "running"
      BY <2>1 DEF Restored
    <3> QED
      BY <2>1, <3>1, <3>2
  <2> QED
    BY <1>0, <2>1, <2>2, NoVerdictYet
<1> QED
  BY <1>0, <1>1, <1>2, <1>3, <1>4 DEF Boot

\* What an outside process adds to the log, and where it then stands.
LEMMA HostSays ==
  ASSUME HostTypeOK, LogIsKept, NoLeftover, NEW r \in Runs, HostStep(r)
  PROVE  \/ Quiet /\ (sup[r] \in Restarting =>
                        (sup[r] = "restart" /\ sup'[r] = "verify") \/ sup'[r] \in Ended)
         \/ Die
         \/ /\ r = runs /\ sup[r] \notin {"orphan"} \cup Ended
            /\ \/ /\ Say("text", r)
                  /\ sup[r] \in Restarting =>
                       \/ sup[r] = "banner" /\ sup'[r] = "restart"
                       \/ sup[r] \in {"restart", "verify"}
                          /\ sup'[r] \in {"rsExit0", "rsExit1"}
               \/ /\ \E c \in {"EXIT:0", "EXIT:1"} : Say(c, r)
                  /\ sup[r] \in Restarting =>
                       sup[r] \in {"rsExit0", "rsExit1"} /\ sup'[r] \in Ended
<1> USE DEF HostTypeOK, Goto, Restarting, Ended, Working, Writing, NoLeftover, Stops
<1>1. CASE SupOutput(r)
  BY <1>1 DEF SupOutput, LogIsKept
<1>2. CASE SupBanner(r) \/ SupTeardown(r) \/ SupTeardownFails(r) \/ SupSwap(r)
           \/ SupDeployed(r) \/ SupDeployFails(r)
  BY <1>2
  DEF SupBanner, SupTeardown, SupTeardownFails, SupSwap, SupDeployed, SupDeployFails
<1>3. CASE SupCommit(r) \/ SupCommitSwap(r) \/ SupCommitState(r) \/ SupCommitFails(r)
  BY <1>3 DEF SupCommit, SupCommitSwap, SupCommitState, SupCommitFails
<1>4. CASE SupExit0(r) \/ SupExit1(r) \/ SupRollback(r) \/ SupNoRollback(r)
  BY <1>4 DEF SupExit0, SupExit1, SupRollback, SupNoRollback
<1>5. CASE Restart(r)
  BY <1>5
  DEF Restart, RsBanner, RsRestart, RsRestartFails, RsVerified, RsMismatch, RsExit
<1>6. CASE OrphanEnds(r) \/ SupervisorDies(r)
  BY <1>6 DEF OrphanEnds, SupervisorDies
<1> QED
  BY <1>1, <1>2, <1>3, <1>4, <1>5, <1>6 DEF HostStep, HostProgress, Supervise

LEMMA HostingLog ==
  ASSUME GatewayInv, Durable, HasFinisher, LogInv, LogIsKept, NoRace, NoLeftover,
         Places, Hosting
  PROVE  LogInv'
<1> USE DEF Then, Late
<1>0. /\ StoreInv /\ HostTypeOK /\ dlog \in Seq(Line) /\ rec \in Record
      /\ Len(dlog) \in Nat /\ Len(rec.log) \in Nat /\ rec.emitted \in Nat
      /\ \A i \in Exits(dlog) : i \in Nat /\ i <= Len(dlog)
  BY LenProperties DEF GatewayInv, StoreInv, TypeOK, Record, Exits
<1>1. PICK r \in Runs : Host(HostStep(r))
  BY DEF Hosting
<1>2. /\ HostStep(r) /\ flow' = IF up' THEN flow ELSE "idle"
      /\ TightRaces \/ pend \in {"none", "persist"}
  BY <1>1 DEF Host
<1>3. /\ \A s \in Runs : s # r => sup'[s] = sup[s]
      /\ sup[r] # "none" /\ sup[r] \in Working
      /\ sup[r] \in Restarting => sup'[r] \in Restarting \cup Ended
  BY <1>0, <1>2, HostPlaces
<1>4. CASE Die
  BY <1>2, <1>4, DieEffect, NothingKnown
\* The current run, while the promise is late.
<1>5. flow \in Late => cur \in Runs /\ IsRunning /\ ~rec.tail /\ up
  BY <1>0, CurType DEF GatewayInv, FlowHasRun, IsRunning
<1>6. CASE Quiet /\ (sup[r] \in Restarting =>
                       (sup[r] = "restart" /\ sup'[r] = "verify") \/ sup'[r] \in Ended)
  <2>1. UNCHANGED <<up, rec, dlog, pend, runs>> /\ flow' \in {flow, "idle"}
    BY <1>2, <1>6 DEF Quiet
  <2>2. flow' \in Late => flow' = flow
    BY <2>1
  <2>3. RestartLines'
    <3> SUFFICES ASSUME flow \in Late PROVE RestartLines'
      BY <2>1, <2>2 DEF RestartLines
    <3>1. rec'.run = rec.run /\ Len(dlog') = Len(dlog) /\ Len(rec'.log) = Len(rec.log)
      BY <2>1
    <3>2. CASE cur = r
      <4>1. sup[r] \in Restarting
        BY <1>3, <3>2 DEF Places, LateRestarting, Ended, Working
      <4>2. (sup[r] = "restart" /\ sup'[r] = "verify") \/ sup'[r] \in Ended
        BY <1>6, <4>1
      <4> QED
        BY <3>1, <3>2, <4>2 DEF LogInv, RestartLines, cur, Ended
    <3>3. CASE cur # r
      BY <1>3, <1>5, <3>1, <3>3 DEF LogInv, RestartLines, cur
    <3> QED
      BY <3>2, <3>3
  <2>4. flow' = "idle" => ~up \/ flow = "idle"
    BY <1>2, <2>1
  <2>5. HandOverAhead'
    <3>1. flow' = flow => Margin' = Margin
      BY DEF Margin
    <3> QED
      BY <2>1, <2>2, <3>1 DEF LogInv, HandOverAhead, Exits
  <2>6. Undecided'
    BY <1>0, <2>1, <2>4, <1>5
    DEF LogInv, Undecided, IsRunning, HasRecord, Exits, StoreInv, Coherent
  <2> QED
    BY <2>1, <2>3, <2>5, <2>6
    DEF LogInv, TailAhead, NoneMissed, AloneDecides, LogDecides, IsRunning, HasRecord,
        Exits, FirstExit
\* A line more: nothing but the log changes, and nothing in it.
<1>7. ASSUME NEW t \in Texts, Say(t, r), r = runs, sup[r] \notin {"orphan"} \cup Ended
      PROVE  /\ UNCHANGED <<up, rec, pend, runs>>
             /\ ~up => rec.run = 0 /\ ~rec.tail /\ pend = "none" /\ flow = "idle"
             /\ flow' = flow
             /\ Len(dlog') = Len(dlog) + 1
             /\ t = "text" => Exits(dlog') = Exits(dlog)
             /\ \A i \in Exits(dlog') : i \in Exits(dlog) \/ i = Len(dlog) + 1
             /\ LogDecides'
             /\ flow \in Late => cur = r /\ sup[r] \in Restarting
             /\ flow \in Flow \ Late => flow = "idle"
             /\ Self
  <2>1. UNCHANGED <<up, rec, pend, runs>> /\ dlog' = Append(dlog, Ln(t, r))
    BY <1>7 DEF Say, ExternalAppend
  <2>2. ~up => rec.run = 0 /\ ~rec.tail /\ pend = "none" /\ flow = "idle"
    BY <1>0 DEF StoreInv, Coherent, GatewayInv, FlowHasRun
  <2>3. <<Ln(t, r)>> \in Seq(Line) /\ dlog' = dlog \o <<Ln(t, r)>>
        /\ Len(<<Ln(t, r)>>) = 1
    <3>1. Ln(t, r) \in Line
      BY LineType
    <3> QED
      BY <1>0, <2>1, <3>1, AppendIsConcat
  <2>4. Len(dlog') = Len(dlog) + 1
    BY <1>0, <2>3, LenGrows
  <2>5. t = "text" => Exits(dlog') = Exits(dlog)
    <3>1. t = "text" => \A i \in 1..Len(<<Ln(t, r)>>) : ~IsExit(<<Ln(t, r)>>[i])
      BY <2>3 DEF IsExit, Ln
    <3> QED
      BY <1>0, <2>3, <3>1, TextAddsNone
  <2>6. \A i \in Exits(dlog') : i \in Exits(dlog) \/ i = Len(dlog) + 1
    BY <1>0, <2>3, OneMore
  <2>7. LogDecides'
    <3>1. \A i : FirstExit(dlog, i) => FirstExit(dlog', i) /\ dlog'[i] = dlog[i]
      BY <1>0, <2>3, GrownExits
    <3>2. \A i : FirstExit(dlog', i) => i \in DOMAIN dlog'
      BY DEF FirstExit, Exits
    <3> QED
      BY <2>1, <3>1, <3>2 DEF LogInv, LogDecides, HasRecord
  <2>8. flow # "idle" => cur = r
    BY <1>7 DEF Places, FlowIsLatest
  <2>9. flow \in Late => sup[r] \in Restarting
    BY <1>7, <2>8 DEF Places, LateRestarting
  <2>10. flow \notin Early
    BY <1>3, <2>8 DEF Places, EarlyAlone, Early
  <2>11. Self
    BY <1>7 DEF Places, NoneOutside
  <2> QED
    BY <1>2, <2>1, <2>2, <2>4, <2>5, <2>6, <2>7, <2>8, <2>9, <2>10, <2>11
    DEF Flow, Early, Late
<1>8. ASSUME Say("text", r), r = runs, sup[r] \notin {"orphan"} \cup Ended,
             sup[r] \in Restarting =>
               \/ sup[r] = "banner" /\ sup'[r] = "restart"
               \/ sup[r] \in {"restart", "verify"} /\ sup'[r] \in {"rsExit0", "rsExit1"}
      PROVE  LogInv'
  <2>1. /\ UNCHANGED <<up, rec, pend, runs>> /\ flow' = flow
        /\ Len(dlog') = Len(dlog) + 1 /\ Exits(dlog') = Exits(dlog) /\ LogDecides'
        /\ flow \in Late => cur = r /\ sup[r] \in Restarting
    BY <1>7, <1>8 DEF Texts
  <2>2. flow \in Late => Len(rec.log) <= Len(dlog)
    BY <1>5 DEF Durable, LogKeepsPace
  <2>3. RestartLines'
    BY <1>0, <1>8, <2>1, <2>2 DEF LogInv, RestartLines, cur
  <2> QED
    BY <2>1, <2>3
    DEF LogInv, Undecided, TailAhead, NoneMissed, HandOverAhead, Margin, AloneDecides,
        IsRunning, HasRecord
<1>9. ASSUME NEW t \in {"EXIT:0", "EXIT:1"}, Say(t, r), r = runs,
             sup[r] \notin {"orphan"} \cup Ended,
             sup[r] \in Restarting => sup[r] \in {"rsExit0", "rsExit1"} /\ sup'[r] \in Ended
      PROVE  LogInv'
  <2>1. /\ UNCHANGED <<up, rec, pend, runs>> /\ flow' = flow
        /\ ~up => rec.run = 0 /\ ~rec.tail /\ pend = "none" /\ flow = "idle"
        /\ \A i \in Exits(dlog') : i \in Exits(dlog) \/ i = Len(dlog) + 1
        /\ LogDecides' /\ Self
        /\ flow \in Late => cur = r /\ sup[r] \in Restarting
        /\ flow \in Flow \ Late => flow = "idle"
    BY <1>7, <1>9 DEF Texts
  <2>2. pend \in {"none", "persist"}
    BY <1>2, <2>1 DEF NoRace
  <2>3. Undecided'
    BY <2>1, <2>2
    DEF HasFinisher, Undecided, IsRunning, HasRecord, GatewayInv
  <2>4. TailAhead'
    BY <1>0, <2>1 DEF LogInv, TailAhead, Durable, TailWithinLog
  <2>5. HandOverAhead'
    <3>1. flow \in Late => Len(dlog) + 1 > Len(rec.log) + 2
      BY <1>0, <1>9, <2>1 DEF LogInv, RestartLines, cur
    <3>2. Margin' = Margin /\ Margin \in {1, 2}
      BY <2>1 DEF Margin
    <3> QED
      BY <1>0, <2>1, <3>1, <3>2 DEF LogInv, HandOverAhead
  <2>6. RestartLines'
    BY <1>9, <2>1 DEF RestartLines, Ended, cur
  <2> QED
    BY <2>1, <2>2, <2>3, <2>4, <2>5, <2>6 DEF LogInv, NoneMissed, AloneDecides
<1> QED
  BY <1>0, <1>2, <1>4, <1>6, <1>8, <1>9, HostSays

LEMMA LogTrigger == ASSUME Trigger, LogIsKept PROVE LogInv'
<1>1. dlog' = <<>> /\ rec'.status = "running" /\ flow' = "fetch"
  BY StartEffect DEF Trigger, Start, Then, LogIsKept
<1>2. Exits(dlog') = {}
  BY <1>1 DEF Exits
<1> QED
  BY <1>1, <1>2, NoVerdictYet DEF Late

LEMMA LogInvStep ==
  ASSUME GatewayInv, Durable, HasFinisher, LogInv, LogIsKept, NoRace, NoLeftover,
         Places, [GatewayNext]_vars
  PROVE  LogInv'
<1>1. CASE Crash
  BY <1>1, DieEffect, NothingKnown DEF Crash, Then
<1>2. CASE UNCHANGED vars
  BY <1>2
  DEF vars, storeVars, hostVars, flowVars, LogInv, Undecided, TailAhead, NoneMissed,
      HandOverAhead, RestartLines, AloneDecides, LogDecides, Margin, IsRunning,
      HasRecord, cur, Exits, FirstExit
<1>3. CASE Serving
  BY <1>1, <1>3, PersistLog, TimerLog, BootLog DEF Serving
<1> QED
  BY <1>2, <1>3, NextGroups, LogTrigger, EarlyLog, LateLog, HostingLog
  DEF Starting, Commands

LEMMA LogInvInit == GatewayInit => LogInv
BY DEF GatewayInit, StoreInit, NoRecord, LogInv, Undecided, TailAhead, NoneMissed,
       HandOverAhead, RestartLines, AloneDecides, LogDecides, IsRunning, HasRecord, Late

-----------------------------------------------------------------------------
(* Part 9: the theorems                                                    *)

LEMMA PlacesInvariance == ASSUME NoRace PROVE GatewaySpec => []Places
<1>1. GatewayInv /\ Places /\ [GatewayNext]_vars => Places'
  BY PlacesStep
<1> QED
  BY <1>1, PlacesInit, GatewayInvariance, PTL DEF GatewaySpec

LEMMA FinisherInvariance == ASSUME ~LostWrites PROVE GatewaySpec => []HasFinisher
<1>1. GatewayInit => HasFinisher
  BY DEF GatewayInit, StoreInit, NoRecord, HasFinisher, IsRunning, HasRecord
<1>2. GatewayInv /\ Durable /\ HasFinisher /\ [GatewayNext]_vars => HasFinisher'
  BY HasFinisherStep
<1> QED
  BY <1>1, <1>2, GatewayInvariance, GatewayDurable, PTL DEF GatewaySpec

LEMMA LogInvariance ==
  ASSUME LogIsKept, NoRace
  PROVE  GatewaySpec /\ []NoLeftover => []LogInv
<1>1. GatewayInv /\ Durable /\ HasFinisher /\ NoLeftover /\ Places /\ LogInv
      /\ [GatewayNext]_vars => LogInv'
  BY LogInvStep
<1>2. ~LostWrites
  BY DEF LogIsKept
<1>3. GatewaySpec => []Durable
  BY <1>2, GatewayDurable
<1>4. GatewaySpec => []HasFinisher
  BY <1>2, FinisherInvariance
<1> QED
  BY <1>1, <1>3, <1>4, LogInvInit, GatewayInvariance, PlacesInvariance, PTL
  DEF GatewaySpec

\* Only a release of the gateway itself that is deployed twice can have an
\* outside process left over.
LEMMA NoneLeft ==
  ASSUME NoRace, ~Self \/ MaxRuns = 1
  PROVE  GatewaySpec => []NoLeftover
<1>1. GatewayInv /\ Places => NoLeftover
  <2> SUFFICES ASSUME GatewayInv, Places, NEW s \in Runs, s # runs
               PROVE  sup[s] \notin Writing
    BY DEF NoLeftover
  <2>1. CASE ~Self
    BY <2>1 DEF Places, NoneOutside, Writing, Working, Ended
  <2>2. CASE MaxRuns = 1
    <3>1. s > runs
      BY <2>2 DEF GatewayInv, StoreInv, TypeOK, Runs
    <3> QED
      BY <3>1 DEF Places, Begun, Writing, Working
  <2> QED
    BY <2>1, <2>2
<1> QED
  BY <1>1, GatewayInvariance, PlacesInvariance, PTL

\* The tail never counts past a verdict: whatever the supervisor or the restart
\* script has said about the end of the run, before or after the promise handed
\* over, the next tick will see (deploy-store.ts, startTail: "the tailer only
\* emits lines appended beyond that point").
THEOREM TailMissesNothing ==
  ASSUME LogIsKept, NoRace
  PROVE  GatewaySpec /\ []NoLeftover => []TailSeesExit
<1>1. GatewayInv /\ LogInv => TailSeesExit
  <2> SUFFICES ASSUME GatewayInv, LogInv, rec.tail, Exits(dlog) # {}
               PROVE  \E i \in Exits(dlog) : FirstExit(dlog, i) /\ i > rec.emitted
    BY DEF TailSeesExit
  <2>1. dlog \in Seq(Line)
    BY DEF GatewayInv, StoreInv, TypeOK
  <2>2. PICK i \in DOMAIN dlog : FirstExit(dlog, i)
    BY <2>1, HasFirst
  <2> QED
    BY <2>2 DEF FirstExit, LogInv, TailAhead
<1> QED
  BY <1>1, GatewayInvariance, LogInvariance, PTL

\* The verdict in memory is that of the first terminal line of the log, the one
\* that restoreRecord() goes by: whoever wrote it, a restart of the gateway
\* comes to the same verdict.
THEOREM FirstVerdictCounts ==
  ASSUME LogIsKept, NoRace
  PROVE  GatewaySpec /\ []NoLeftover => []LogDecides
<1>1. LogInv => LogDecides
  BY DEF LogInv
<1> QED
  BY <1>1, LogInvariance, PTL

\* Both without that premise, for an application whose mode has no restart
\* script, and for a release of the gateway that is deployed once.
THEOREM LogIsRead ==
  ASSUME LogIsKept, NoRace, ~Self \/ MaxRuns = 1
  PROVE  GatewaySpec => [](TailSeesExit /\ LogDecides)
BY NoneLeft, TailMissesNothing, FirstVerdictCounts, PTL

=============================================================================
