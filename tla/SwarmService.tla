----------------------------- MODULE SwarmService -----------------------------
(***************************************************************************)
(* Docker swarm, as far as the waiters of SwarmRollout read it: the        *)
(* UpdateStatus and the running tasks of each service of a stack, and the  *)
(* task counts of one job.  `docker stack deploy' returns when the manager *)
(* has accepted the spec; until it has registered the update, or the next  *)
(* iteration of the job, an inspection shows what was there before.  The   *)
(* swarm owes nobody progress.                                             *)
(***************************************************************************)
EXTENDS Naturals

CONSTANTS
  Services,   \* the services of the stack
  Replicas,   \* tasks a service, or the job, is to have
  MaxFails    \* bound: tasks of each service, and of the job, that die

ASSUME SwarmAssumption == Replicas \in Nat \ {0} /\ MaxFails \in Nat

VARIABLES
  svc,   \* of each service: its UpdateStatus ("nil": none), whether an update
         \* is accepted but not registered, its running tasks, new and old
  job    \* of the job: task counts, and tasks the swarm retries no more

swarmVars == <<svc, job>>

GivenUp == {"paused", "rollback_completed", "rollback_paused"}
Statuses == {"nil", "completed", "updating", "rollback_started"} \cup GivenUp

Service == [update : Statuses, pending : BOOLEAN, desired : {0, Replicas},
            fresh : 0..Replicas, stale : 0..Replicas, fails : 0..MaxFails]
Job == [pending : BOOLEAN, desired : {0, Replicas}, running : 0..Replicas,
        done : 0..Replicas, lost : 0..Replicas, fails : 0..MaxFails]

SwarmTypeOK == svc \in [Services -> Service] /\ job \in Job

\* A service nobody updates: not created yet, or as its last update left it.
Absent == [update |-> "nil", pending |-> FALSE, desired |-> 0,
           fresh |-> 0, stale |-> 0, fails |-> 0]
Idle == {[Absent EXCEPT !.update = u, !.desired = Replicas, !.stale = Replicas] :
            u \in {"nil", "completed", "paused", "rollback_completed"}}

\* A job: never run, complete, failed, or still running.
NoJob == [pending |-> FALSE, desired |-> 0, running |-> 0, done |-> 0,
          lost |-> 0, fails |-> 0]
Ran == [NoJob EXCEPT !.desired = Replicas]
Jobs == {NoJob, [Ran EXCEPT !.done = Replicas], [Ran EXCEPT !.lost = Replicas],
         [Ran EXCEPT !.running = Replicas]}

SwarmInit == svc \in [Services -> Idle \cup {Absent}] /\ job \in Jobs

-----------------------------------------------------------------------------
Set(s, r) == svc' = [svc EXCEPT ![s] = r] /\ UNCHANGED job

\* The manager accepts a spec; it may clear the status of the last update.
Accept(s) ==
  /\ ~svc[s].pending
  /\ IF svc[s].desired = 0
     THEN Set(s, [svc[s] EXCEPT !.desired = Replicas])
     ELSE \E u \in {"nil", svc[s].update} :
            Set(s, [svc[s] EXCEPT !.pending = TRUE, !.update = u])

Register(s) ==
  /\ svc[s].pending
  /\ Set(s, [svc[s] EXCEPT !.pending = FALSE, !.update = "updating"])

\* Start-first: while it updates, a service may run one task more.
StartTask(s) ==
  /\ svc[s].fresh < Replicas
  /\ \/ svc[s].update = "updating"
     \/ /\ svc[s].update \in {"nil", "completed"}
        /\ svc[s].fresh + svc[s].stale < svc[s].desired
        /\ ~svc[s].pending
  /\ Set(s, [svc[s] EXCEPT !.fresh = @ + 1])

StopOldTask(s) ==
  /\ svc[s].update = "updating"
  /\ svc[s].stale > 0
  /\ Set(s, [svc[s] EXCEPT !.stale = @ - 1])

TaskDies(s) ==
  /\ svc[s].fresh > 0
  /\ svc[s].fails < MaxFails
  /\ Set(s, [svc[s] EXCEPT !.fresh = @ - 1, !.fails = @ + 1])

Completes(s) ==
  /\ svc[s].update = "updating"
  /\ svc[s].fresh = Replicas /\ svc[s].stale = 0
  /\ Set(s, [svc[s] EXCEPT !.update = "completed"])

\* failure_action: pause or rollback
UpdateFails(s) ==
  /\ svc[s].update = "updating"
  /\ svc[s].fails > 0
  /\ \E u \in {"paused", "rollback_started"} : Set(s, [svc[s] EXCEPT !.update = u])

RollsBack(s) ==
  /\ svc[s].update = "rollback_started"
  /\ \E u \in {"rollback_completed", "rollback_paused"} :
       Set(s, [svc[s] EXCEPT !.update = u, !.fresh = 0,
                             !.stale = IF u = "rollback_completed" THEN Replicas ELSE @])

-----------------------------------------------------------------------------
SetJob(j) == job' = j /\ UNCHANGED svc

AcceptJob ==
  IF job.desired = 0 THEN SetJob(Ran) ELSE SetJob([job EXCEPT !.pending = TRUE])

\* The next iteration replaces the last one.
Iterates ==
  /\ job.pending
  /\ SetJob([Ran EXCEPT !.fails = job.fails])

JobTaskStarts ==
  /\ job.running + job.done + job.lost < job.desired
  /\ SetJob([job EXCEPT !.running = @ + 1])

JobTaskEnds ==
  /\ job.running > 0
  /\ SetJob([job EXCEPT !.running = @ - 1, !.done = @ + 1])

\* restart_policy: the task is tried again, or it is lost
JobTaskFails ==
  /\ job.running > 0
  /\ job.fails < MaxFails
  /\ \E l \in {0, 1} :
       SetJob([job EXCEPT !.running = @ - 1, !.lost = @ + l, !.fails = @ + 1])

SwarmStep ==
  \/ \E s \in Services :
       \/ Register(s) \/ StartTask(s) \/ StopOldTask(s) \/ TaskDies(s)
       \/ Completes(s) \/ UpdateFails(s) \/ RollsBack(s)
  \/ Iterates \/ JobTaskStarts \/ JobTaskEnds \/ JobTaskFails
=============================================================================
