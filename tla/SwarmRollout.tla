----------------------------- MODULE SwarmRollout -----------------------------
(***************************************************************************)
(* The waiters of packages/git-flow-deploy/src/swarm-rollout.ts and the    *)
(* two commands of the deploy CLI that use them: `run', which executes the *)
(* deploy command and then waits for the service to converge or the job to *)
(* complete, and `swarm status', which tells how the rollout of a stack or *)
(* of one service stands.                                                  *)
(*                                                                         *)
(* Every inspection is a docker command of its own, run synchronously: it  *)
(* is one atomic read, and between two of them the swarm goes on.  A       *)
(* command may fail, after which its caller knows nothing.                 *)
(***************************************************************************)
EXTENDS SwarmService

CONSTANTS
  Target,      \* swarmService of the manifest
  Timeout,     \* the time a wait takes, in intervals: timeoutMs
  Grace,       \* startGraceMs
  FailPolls    \* failStabilityPolls

ASSUME RolloutAssumption ==
  /\ Target \in Services
  /\ Timeout \in Nat \ {0} /\ Grace \in Nat /\ FailPolls \in Nat \ {0}

VARIABLES
  cmd,       \* the command: run, by method of the manifest, or swarm status
  pc,
  verdict,   \* what the command found, "none" while it runs
  clock,     \* intervals since the wait began, up to the deadline
  state,     \* the rollout state read in this poll
  started,   \* the run of the job counts as started
  streak,    \* polls with unmet completions and nothing running
  watched,   \* the services `swarm status' reports on
  seen,      \* their states, as read
  blind      \* history: services whose last inspection failed, or was made
             \* while their update was accepted but not registered

waitVars == <<verdict, clock, state, started, streak, seen, blind>>
vars == <<svc, job, cmd, pc, watched, waitVars>>

States == {"converged", "rolled-back", "in-progress", "unknown"}
Verdicts == States \cup {"none", "completed", "failed", "timed-out",
                         "command failed", "not waited for"}

RolloutTypeOK ==
  /\ SwarmTypeOK
  /\ cmd \in {"swarm", "swarm-job", "other", "status"}
  /\ pc \in {"begin", "rollout", "replicas", "job", "inspect", "done"}
  /\ verdict \in Verdicts
  /\ clock \in 0..Timeout
  /\ state \in States
  /\ started \in BOOLEAN
  /\ streak \in 0..FailPolls - 1
  /\ watched \subseteq Services
  /\ seen \in [Services -> States \cup {"unread"}]
  /\ blind \subseteq Services

Init ==
  /\ SwarmInit
  /\ cmd \in {"swarm", "swarm-job", "other", "status"}
  /\ cmd \in {"swarm-job", "other"} => \A s \in Services : svc[s] = Absent
  /\ cmd # "swarm-job" => job = NoJob
  /\ pc = "begin" /\ verdict = "none" /\ clock = 0 /\ state = "unknown"
  /\ started = FALSE /\ streak = 0
  /\ watched = {} /\ seen = [s \in Services |-> "unread"] /\ blind = {}

Decide(v) == pc' = "done" /\ verdict' = v
Goto(l) == pc' = l /\ UNCHANGED verdict

-----------------------------------------------------------------------------
(* Reading the rollout.                                                      *)

\* A plausible bug, for the checks: an update under way is not told from none.
RolloutUntilDone(raw) ==
  IF raw = "completed" THEN "converged"
  ELSE IF raw \in GivenUp THEN "rolled-back"
  ELSE "unknown"

RolloutStateOf(raw) ==
  IF raw = "completed" THEN "converged"
  ELSE IF raw \in {"updating", "rollback_started"} THEN "in-progress"
  ELSE IF raw \in GivenUp THEN "rolled-back"
  ELSE "unknown"

\* inspectService; a failed command is no answer
Inspected(s, answered) == IF answered THEN RolloutStateOf(svc[s].update) ELSE "unknown"

BlindTo(s, answered) ==
  IF answered /\ ~svc[s].pending THEN blind \ {s} ELSE blind \cup {s}

Aggregate(states) ==
  IF "rolled-back" \in states THEN "rolled-back"
  ELSE IF "in-progress" \in states THEN "in-progress"
  ELSE IF states = {"converged"} THEN "converged"
  ELSE "unknown"

-----------------------------------------------------------------------------
(* swarm status, while others deploy; it does not span a deploy of theirs.   *)

OtherDeploys ==
  /\ cmd = "status" /\ pc = "begin"
  /\ \E s \in Services : Accept(s)
  /\ UNCHANGED <<cmd, pc, watched, waitVars>>

\* docker stack services, when no --service is given
Ask ==
  /\ cmd = "status" /\ pc = "begin"
  /\ \/ Goto("inspect") /\ watched' \in {Services} \cup {{s} : s \in Services}
     \/ Decide("unknown") /\ UNCHANGED watched
  /\ UNCHANGED <<svc, job, cmd, clock, state, started, streak, seen, blind>>

Inspect(s) ==
  /\ cmd = "status" /\ pc = "inspect"
  /\ s \in watched /\ seen[s] = "unread"
  /\ \E answered \in BOOLEAN :
       /\ seen' = [seen EXCEPT ![s] = Inspected(s, answered)]
       /\ blind' = BlindTo(s, answered)
  /\ UNCHANGED <<svc, job, cmd, pc, watched, verdict, clock, state, started, streak>>

Tell ==
  /\ cmd = "status" /\ pc = "inspect"
  /\ \A s \in watched : seen[s] # "unread"
  /\ Decide(Aggregate({seen[s] : s \in watched}))
  /\ UNCHANGED <<svc, job, cmd, watched, clock, state, started, streak, seen, blind>>

-----------------------------------------------------------------------------
(* run: the deploy command, and what is waited for after it.                 *)

Deploy ==
  /\ pc = "begin"
  /\ \/ cmd = "swarm" /\ Accept(Target) /\ Goto("rollout")
     \/ cmd = "swarm-job" /\ AcceptJob /\ Goto("job")
     \/ cmd = "other" /\ UNCHANGED swarmVars /\ Decide("not waited for")
  /\ UNCHANGED <<cmd, watched, clock, state, started, streak, seen, blind>>

DeployFails ==
  /\ cmd # "status" /\ pc = "begin"
  /\ \/ UNCHANGED swarmVars
     \/ cmd = "swarm" /\ Accept(Target)
     \/ cmd = "swarm-job" /\ AcceptJob
  /\ Decide("command failed")
  /\ UNCHANGED <<cmd, watched, clock, state, started, streak, seen, blind>>

\* A plausible bug, for the checks: no deadline.
NextPollAlways(l) == Goto(l) /\ clock' \in (clock + 1..Timeout) \cup {Timeout}

\* The end of each round; the docker commands take time too.
NextPoll(l) ==
  IF clock >= Timeout THEN Decide("timed-out") /\ UNCHANGED clock
  ELSE Goto(l) /\ clock' \in clock + 1..Timeout

\* waitForSwarmConvergence: serviceRollout ...
ReadRollout ==
  /\ pc = "rollout"
  /\ \E answered \in BOOLEAN :
       /\ blind' = BlindTo(Target, answered)
       /\ state' = Inspected(Target, answered)
  /\ IF state' \in {"converged", "rolled-back"} THEN Decide(state') ELSE Goto("replicas")
  /\ UNCHANGED <<svc, job, cmd, watched, clock, started, streak, seen>>

\* ... and then serviceReplicas, all that a first deploy has to show.
Full(s) == svc[s].desired > 0 /\ svc[s].fresh + svc[s].stale >= svc[s].desired

ReadReplicas ==
  /\ pc = "replicas"
  /\ \/ state = "unknown" /\ Full(Target) /\ Decide("converged") /\ UNCHANGED clock
     \/ ~(state = "unknown" /\ Full(Target)) /\ NextPoll("rollout")
     \/ NextPoll("rollout")   \* docker service ls has failed
  /\ UNCHANGED <<svc, job, cmd, watched, state, started, streak, seen, blind>>

\* waitForSwarmJobCompletion
Active == job.running > 0 \/ job.done < job.desired
Waits == ~started /\ ~Active /\ job.desired > 0 /\ clock < Grace
Met == job.desired > 0 /\ job.running = 0 /\ job.done >= job.desired
Unmet == job.desired > 0 /\ job.running = 0 /\ job.done < job.desired

\* A plausible bug, for the checks: one poll too many.
SettledLate == streak >= FailPolls
Settled == streak + 1 >= FailPolls

ReadJob ==
  /\ pc = "job"
  /\ \/ UNCHANGED <<started, streak>> /\ NextPoll("job")   \* no answer
     \/ Waits /\ UNCHANGED <<started, streak>> /\ NextPoll("job")
     \/ /\ ~Waits
        /\ started' = TRUE
        /\ \/ Met /\ Decide("completed") /\ UNCHANGED <<clock, streak>>
           \/ Unmet /\ Settled /\ Decide("failed") /\ UNCHANGED <<clock, streak>>
           \/ Unmet /\ ~Settled /\ streak' = streak + 1 /\ NextPoll("job")
           \/ ~Met /\ ~Unmet /\ streak' = 0 /\ NextPoll("job")
  /\ UNCHANGED <<svc, job, cmd, watched, state, seen, blind>>

-----------------------------------------------------------------------------
Command ==
  \/ Ask \/ (\E s \in Services : Inspect(s)) \/ Tell
  \/ Deploy \/ DeployFails \/ ReadRollout \/ ReadReplicas \/ ReadJob

\* What the swarm does before anyone looks, or after, is not followed.
Swarm == SwarmStep /\ pc # "done" /\ UNCHANGED <<cmd, pc, watched, waitVars>>

Next == Command \/ Swarm \/ OtherDeploys

\* The command is a process of its own that nothing blocks.
Spec == Init /\ [][Next]_vars /\ WF_vars(Command)

-----------------------------------------------------------------------------
\* The exit code is 0: `run' has done what it is to do, `swarm status' has seen
\* it done.  It is 1 when it failed; status also has 2, for neither.
ExitsZero(v) == v \in {"converged", "completed", "not waited for"}

\* What the swarm has come to: the update of s is done, or this first deploy
\* of it is up; or the swarm has given it up.
Updated(s) == ~svc[s].pending /\ svc[s].update = "completed"
Up(s) == svc[s].update = "nil" /\ svc[s].stale = 0 /\ svc[s].fresh = Replicas
Abandoned(s) == ~svc[s].pending /\ svc[s].update \in GivenUp

\* The exit code of a command that has read the swarm is the swarm's own
\* verdict on this rollout, whatever the swarm does between two inspections:
\* 0 only when each update is complete, or the tasks of a first deploy are all
\* running; rolled back only when the swarm has given one up.  For a job: 0
\* only when every task of the forced iteration is done, unless that has not
\* registered when the grace is over or the one before it was seen active.
\* Services whose deciding inspection was blind are exempt: see the hazards.
HonestWait ==
  cmd = "swarm" =>
    /\ ExitsZero(verdict') => Target \in blind' \/ Updated(Target) \/ Up(Target)
    /\ verdict' = "rolled-back" => Target \in blind' \/ Abandoned(Target)

HonestJob ==
  cmd = "swarm-job" =>
    /\ ExitsZero(verdict') => \/ ~job.pending /\ job.done = Replicas
                              \/ job.pending /\ (clock >= Grace \/ started)
    /\ verdict' = "failed" => job.done < Replicas

HonestStatus ==
  cmd = "status" =>
    /\ ExitsZero(verdict') => \A s \in watched : s \in blind \/ Updated(s)
    /\ verdict' = "rolled-back" => \E s \in watched : s \in blind \/ Abandoned(s)

HonestExit ==
  [][verdict' # verdict => HonestWait /\ HonestJob /\ HonestStatus]_vars

\* Whatever the swarm does, and when it never decides or answers nothing, the
\* command comes to an exit code: a gateway waits for it.
EveryWaitEnds == <>(pc = "done")
=============================================================================
