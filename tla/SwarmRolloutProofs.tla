-------------------------- MODULE SwarmRolloutProofs --------------------------
(***************************************************************************)
(* The exit code of a deploy or of `swarm status' is the swarm's own       *)
(* verdict, for any stack, any number of replicas and of failing tasks,    *)
(* and whatever the timeouts are.                                          *)
(***************************************************************************)
EXTENDS SwarmRollout, TLAPS

\* Where a command can be, and the tasks of a job.
Places ==
  /\ RolloutTypeOK
  /\ pc \in {"rollout", "replicas"} => cmd = "swarm"
  /\ pc = "job" => cmd = "swarm-job"
  /\ pc = "inspect" => cmd = "status"
  /\ job.running + job.done + job.lost <= job.desired

\* A service without a status has no old tasks once its deploy is accepted;
\* what was read and is remembered still holds of the swarm.
Known ==
  /\ \A s \in Services : svc[s].desired = 0 =>
       ~svc[s].pending /\ svc[s].update = "nil" /\ svc[s].fresh = 0 /\ svc[s].stale = 0
  /\ pc \in {"rollout", "replicas"} =>
       /\ svc[Target].desired = Replicas
       /\ ~svc[Target].pending /\ svc[Target].update = "nil" => svc[Target].stale = 0
  /\ pc = "replicas" /\ state = "unknown" /\ Target \notin blind =>
       ~svc[Target].pending /\ svc[Target].update = "nil"
  /\ pc = "begin" \/ cmd # "status" => \A s \in Services : seen[s] = "unread"
  /\ \A s \in Services \ blind :
       /\ seen[s] = "converged" => Updated(s)
       /\ seen[s] = "rolled-back" => Abandoned(s)

RolloutInv == Places /\ Known

-----------------------------------------------------------------------------
LEMMA Untouched ==
  \A o \in Idle \cup {Absent} :
    /\ o \in Service
    /\ o.desired = 0 => ~o.pending /\ o.update = "nil" /\ o.fresh = 0 /\ o.stale = 0
<1>1. Absent \in Service
  BY SwarmAssumption DEF Absent, Service, Statuses
<1>2. ASSUME NEW o \in Idle
      PROVE  o \in Service /\ o.desired # 0
  <2>1. PICK u \in {"nil", "completed", "paused", "rollback_completed"} :
          o = [Absent EXCEPT !.update = u, !.desired = Replicas, !.stale = Replicas]
    BY <1>2 DEF Idle
  <2>2. o = [update |-> u, pending |-> FALSE, desired |-> Replicas,
             fresh |-> 0, stale |-> Replicas, fails |-> 0]
    BY <2>1 DEF Absent
  <2> QED
    BY <2>2, SwarmAssumption DEF Service, Statuses, GivenUp
<1>3. ~Absent.pending /\ Absent.update = "nil" /\ Absent.fresh = 0 /\ Absent.stale = 0
  BY DEF Absent
<1> QED
  BY <1>1, <1>2, <1>3

LEMMA JobsTyped == \A j \in Jobs : j \in Job /\ j.running + j.done + j.lost <= j.desired
<1> DEFINE Counts(d, r, c, l) == [pending |-> FALSE, desired |-> d, running |-> r,
                                  done |-> c, lost |-> l, fails |-> 0]
<1> SUFFICES ASSUME NEW j \in Jobs
             PROVE  j \in Job /\ j.running + j.done + j.lost <= j.desired
  OBVIOUS
<1>1. ASSUME j = NoJob PROVE j = Counts(0, 0, 0, 0)
  BY <1>1 DEF NoJob
<1>2. ASSUME j = [Ran EXCEPT !.done = Replicas] PROVE j = Counts(Replicas, 0, Replicas, 0)
  BY <1>2 DEF Ran, NoJob
<1>3. ASSUME j = [Ran EXCEPT !.lost = Replicas] PROVE j = Counts(Replicas, 0, 0, Replicas)
  BY <1>3 DEF Ran, NoJob
<1>4. ASSUME j = [Ran EXCEPT !.running = Replicas] PROVE j = Counts(Replicas, Replicas, 0, 0)
  BY <1>4 DEF Ran, NoJob
<1>5. Counts(0, 0, 0, 0) \in Job /\ Counts(Replicas, 0, Replicas, 0) \in Job
      /\ Counts(Replicas, 0, 0, Replicas) \in Job /\ Counts(Replicas, Replicas, 0, 0) \in Job
  BY SwarmAssumption DEF Job
<1>6. j \in {Counts(0, 0, 0, 0), Counts(Replicas, 0, Replicas, 0),
             Counts(Replicas, 0, 0, Replicas), Counts(Replicas, Replicas, 0, 0)}
  BY <1>1, <1>2, <1>3, <1>4 DEF Jobs
<1>7. \A d, r, c, l : /\ Counts(d, r, c, l).running = r /\ Counts(d, r, c, l).done = c
                       /\ Counts(d, r, c, l).lost = l /\ Counts(d, r, c, l).desired = d
  OBVIOUS
<1> HIDE DEF Counts
<1> QED
  BY <1>5, <1>6, <1>7, SwarmAssumption

LEMMA InvInit == Init => RolloutInv
<1> SUFFICES ASSUME Init PROVE RolloutInv
  OBVIOUS
<1>1. SwarmTypeOK
  BY Untouched, JobsTyped DEF Init, SwarmInit, SwarmTypeOK
<1>2. \A s \in Services : svc[s].desired = 0 =>
       ~svc[s].pending /\ svc[s].update = "nil" /\ svc[s].fresh = 0 /\ svc[s].stale = 0
  BY Untouched DEF Init, SwarmInit
<1>3. job.running + job.done + job.lost <= job.desired
  BY JobsTyped DEF Init, SwarmInit
<1>4. RolloutTypeOK
  <2>1. clock \in 0..Timeout /\ streak \in 0..FailPolls - 1
    BY RolloutAssumption DEF Init
  <2> QED
    BY <1>1, <2>1 DEF Init, RolloutTypeOK, Verdicts, States
<1> QED
  BY <1>2, <1>3, <1>4 DEF Init, RolloutInv, Places, Known

\* What the swarm does to a service: the update is neither taken back nor
\* does its status vanish, and a decision of the swarm's is final.
Follows(o, n) ==
  /\ n \in Service
  /\ n.desired = o.desired
  /\ o.desired = 0 /\ ~o.pending /\ o.update = "nil" /\ o.fresh = 0 /\ o.stale = 0 => n = o
  /\ ~n.pending /\ n.update = "nil" => ~o.pending /\ o.update = "nil" /\ n.stale = o.stale
  /\ ~o.pending /\ o.update = "nil" => ~n.pending /\ n.update = "nil"
  /\ ~o.pending /\ o.update = "completed" => ~n.pending /\ n.update = "completed"
  /\ ~o.pending /\ o.update \in GivenUp => ~n.pending /\ n.update \in GivenUp

LEMMA ServiceStep ==
  ASSUME SwarmTypeOK, SwarmStep
  PROVE  /\ svc' \in [Services -> Service]
         /\ \A s \in Services : Follows(svc[s], svc'[s])
<1> USE SwarmAssumption DEF SwarmTypeOK
<1>0. \A o \in Service : Follows(o, o)
  BY DEF Follows
<1>1. ASSUME NEW r \in Services, NEW n, Follows(svc[r], n), Set(r, n)
      PROVE  /\ svc' \in [Services -> Service]
             /\ \A s \in Services : Follows(svc[s], svc'[s])
  BY <1>0, <1>1 DEF Set, Follows
<1>2. ASSUME NEW r \in Services, Register(r)
      PROVE  \E n : Follows(svc[r], n) /\ Set(r, n)
  BY <1>2 DEF Register, Follows, Service, Statuses, GivenUp
<1>3. ASSUME NEW r \in Services, StartTask(r)
      PROVE  \E n : Follows(svc[r], n) /\ Set(r, n)
  BY <1>3 DEF StartTask, Follows, Service, Statuses, GivenUp
<1>4. ASSUME NEW r \in Services, StopOldTask(r)
      PROVE  \E n : Follows(svc[r], n) /\ Set(r, n)
  BY <1>4 DEF StopOldTask, Follows, Service, Statuses, GivenUp
<1>5. ASSUME NEW r \in Services, TaskDies(r)
      PROVE  \E n : Follows(svc[r], n) /\ Set(r, n)
  <2>1. svc[r] \in Service /\ svc[r].fresh - 1 \in 0..Replicas
        /\ svc[r].fails + 1 \in 0..MaxFails
    BY <1>5 DEF TaskDies, Service
  <2> DEFINE n == [svc[r] EXCEPT !.fresh = @ - 1, !.fails = @ + 1]
  <2>2. n \in Service
    BY <2>1 DEF Service
  <2>3. n.update = svc[r].update /\ n.pending = svc[r].pending
        /\ n.desired = svc[r].desired /\ n.stale = svc[r].stale
    BY <2>1 DEF Service
  <2> HIDE DEF n
  <2>4. Set(r, n)
    BY <1>5 DEF TaskDies, n
  <2> QED
    BY <1>5, <2>2, <2>3, <2>4 DEF TaskDies, Follows
<1>6. ASSUME NEW r \in Services, Completes(r)
      PROVE  \E n : Follows(svc[r], n) /\ Set(r, n)
  BY <1>6 DEF Completes, Follows, Service, Statuses, GivenUp
<1>7. ASSUME NEW r \in Services, UpdateFails(r)
      PROVE  \E n : Follows(svc[r], n) /\ Set(r, n)
  BY <1>7 DEF UpdateFails, Follows, Service, Statuses, GivenUp
<1>8. ASSUME NEW r \in Services, RollsBack(r)
      PROVE  \E n : Follows(svc[r], n) /\ Set(r, n)
  <2>1. PICK u \in {"rollback_completed", "rollback_paused"} :
          Set(r, [svc[r] EXCEPT !.update = u, !.fresh = 0,
                    !.stale = IF u = "rollback_completed" THEN Replicas ELSE @])
    BY <1>8 DEF RollsBack
  <2> DEFINE old == IF u = "rollback_completed" THEN Replicas ELSE svc[r].stale
  <2>2. PICK o : o \in 0..Replicas /\ o = old
    BY DEF Service
  <2>3. Set(r, [svc[r] EXCEPT !.update = u, !.fresh = 0, !.stale = o])
    BY <2>1, <2>2
  <2>4. [svc[r] EXCEPT !.update = u, !.fresh = 0, !.stale = o] \in Service
    <3>1. u \in Statuses /\ 0 \in 0..Replicas /\ svc[r] \in Service
      BY DEF Statuses, GivenUp
    <3> QED
      BY <2>2, <3>1 DEF Service
  <2> QED
    BY <1>8, <2>3, <2>4 DEF RollsBack, Follows, Service, GivenUp
<1>9. ASSUME UNCHANGED svc
      PROVE  /\ svc' \in [Services -> Service]
             /\ \A s \in Services : Follows(svc[s], svc'[s])
  BY <1>0, <1>9
<1> QED
  BY <1>1, <1>2, <1>3, <1>4, <1>5, <1>6, <1>7, <1>8, <1>9
  DEF SwarmStep, Iterates, JobTaskStarts, JobTaskEnds, JobTaskFails, SetJob

\* The tasks of a job are counted once each.
LEMMA JobStep ==
  ASSUME SwarmTypeOK, SwarmStep, job.running + job.done + job.lost <= job.desired
  PROVE  job' \in Job /\ job'.running + job'.done + job'.lost <= job'.desired
<1> USE SwarmAssumption DEF SwarmTypeOK, Job, SetJob
<1>1. CASE Iterates
  <2>1. job' = [pending |-> FALSE, desired |-> Replicas, running |-> 0, done |-> 0,
               lost |-> 0, fails |-> job.fails]
    BY <1>1 DEF Iterates, Ran, NoJob
  <2> QED
    BY <2>1
<1>2. CASE JobTaskStarts
  BY <1>2 DEF JobTaskStarts
<1>3. CASE JobTaskEnds
  <2>1. job.running - 1 \in 0..Replicas /\ job.done + 1 \in 0..Replicas
    BY <1>3 DEF JobTaskEnds
  <2>2. job' = [job EXCEPT !.running = @ - 1, !.done = @ + 1]
    BY <1>3 DEF JobTaskEnds
  <2>3. job'.running = job.running - 1 /\ job'.done = job.done + 1
        /\ job'.lost = job.lost /\ job'.desired = job.desired
    BY <2>2
  <2>4. job' \in Job
    BY <2>1, <2>2
  <2> QED
    BY <2>1, <2>3, <2>4
<1>4. CASE JobTaskFails
  <2>1. PICK l \in {0, 1} :
          job' = [job EXCEPT !.running = @ - 1, !.lost = @ + l, !.fails = @ + 1]
    BY <1>4 DEF JobTaskFails
  <2>2. /\ job.running - 1 \in 0..Replicas /\ job.lost + l \in 0..Replicas
        /\ job.fails + 1 \in 0..MaxFails
    BY <1>4 DEF JobTaskFails
  <2>3. job'.running = job.running - 1 /\ job'.done = job.done
        /\ job'.lost = job.lost + l /\ job'.desired = job.desired
    BY <2>1
  <2>4. job' \in Job
    BY <2>1, <2>2
  <2> QED
    BY <2>2, <2>3, <2>4
<1>5. CASE UNCHANGED job
  BY <1>5
<1> QED
  BY <1>1, <1>2, <1>3, <1>4, <1>5
  DEF SwarmStep, Register, StartTask, StopOldTask, TaskDies, Completes, UpdateFails,
      RollsBack, Set

-----------------------------------------------------------------------------
\* The manager accepts a spec: the service exists, and its update is pending
\* or it has no old tasks.
LEMMA Accepts ==
  ASSUME Places, Known, NEW r \in Services, Accept(r)
  PROVE  /\ svc' \in [Services -> Service] /\ UNCHANGED job
         /\ svc'[r].desired = Replicas
         /\ ~svc'[r].pending /\ svc'[r].update = "nil" => svc'[r].stale = 0
         /\ \A s \in Services : svc'[s].desired = 0 =>
              /\ ~svc'[s].pending /\ svc'[s].update = "nil"
              /\ svc'[s].fresh = 0 /\ svc'[s].stale = 0
<1>1. svc \in [Services -> Service]
  BY DEF Places, RolloutTypeOK, SwarmTypeOK
<1>2. PICK n : /\ Set(r, n) /\ n \in Service
               /\ n.desired = Replicas
               /\ ~n.pending /\ n.update = "nil" => n.stale = 0
  <2>1. CASE svc[r].desired = 0
    <3>1. [svc[r] EXCEPT !.desired = Replicas] \in Service
      BY <1>1 DEF Service
    <3> QED
      BY <1>1, <2>1, <3>1 DEF Accept, Known, Service
  <2>2. CASE svc[r].desired # 0
    <3>1. PICK u \in {"nil", svc[r].update} :
            Set(r, [svc[r] EXCEPT !.pending = TRUE, !.update = u])
      BY <2>2 DEF Accept
    <3>2. [svc[r] EXCEPT !.pending = TRUE, !.update = u] \in Service
      BY <1>1 DEF Service, Statuses
    <3> QED
      BY <1>1, <2>2, <3>1, <3>2 DEF Service
  <2> QED
    BY <2>1, <2>2
<1> QED
  BY <1>1, <1>2, SwarmAssumption DEF Set, Known

LEMMA AcceptsJob ==
  ASSUME Places, AcceptJob
  PROVE  /\ job' \in Job /\ UNCHANGED svc
         /\ job'.running + job'.done + job'.lost <= job'.desired
<1>1. job \in Job /\ job.running + job.done + job.lost <= job.desired
  BY DEF Places, RolloutTypeOK, SwarmTypeOK
<1>2. CASE job.desired = 0
  <2>1. job' = [pending |-> FALSE, desired |-> Replicas, running |-> 0, done |-> 0,
               lost |-> 0, fails |-> 0]
    BY <1>2 DEF AcceptJob, SetJob, Ran, NoJob
  <2> QED
    BY <1>2, <2>1, SwarmAssumption DEF AcceptJob, SetJob, Job
<1>3. CASE job.desired # 0
  <2>1. job' = [job EXCEPT !.pending = TRUE]
    BY <1>3 DEF AcceptJob, SetJob
  <2> QED
    BY <1>1, <1>3, <2>1 DEF AcceptJob, SetJob, Job
<1> QED
  BY <1>2, <1>3

LEMMA Reads ==
  ASSUME SwarmTypeOK, NEW s \in Services, NEW answered \in BOOLEAN
  PROVE  /\ Inspected(s, answered) \in States
         /\ Inspected(s, answered) = "converged" => svc[s].update = "completed"
         /\ Inspected(s, answered) = "rolled-back" => svc[s].update \in GivenUp
         /\ answered /\ Inspected(s, answered) = "unknown" => svc[s].update = "nil"
<1> QED
  BY DEF Inspected, RolloutStateOf, States, SwarmTypeOK, Service, Statuses, GivenUp

-----------------------------------------------------------------------------
LEMMA StatusStep ==
  ASSUME RolloutInv, NEW s \in Services, Inspect(s)
  PROVE  RolloutInv'
<1>1. PICK answered \in BOOLEAN :
        /\ seen' = [seen EXCEPT ![s] = Inspected(s, answered)]
        /\ blind' = BlindTo(s, answered)
  BY DEF Inspect
<1>2. Places'
  <2>1. Inspected(s, answered) \in States /\ blind' \subseteq Services
    BY <1>1, Reads DEF BlindTo, RolloutInv, Places, RolloutTypeOK
  <2> QED
    BY <1>1, <2>1 DEF Inspect, RolloutInv, Places, RolloutTypeOK, SwarmTypeOK
<1>3. ASSUME NEW r \in Services \ blind'
      PROVE  /\ seen'[r] = "converged" => Updated(r)'
             /\ seen'[r] = "rolled-back" => Abandoned(r)'
  <2>1. CASE r = s
    <3>1. answered /\ ~svc[s].pending /\ seen'[s] = Inspected(s, answered)
      BY <1>1, <1>3, <2>1 DEF BlindTo, RolloutInv, Places, RolloutTypeOK
    <3> QED
      BY <2>1, <3>1, Reads
      DEF Inspect, Updated, Abandoned, RolloutInv, Places, RolloutTypeOK
  <2>2. CASE r # s
    <3>1. r \notin blind /\ seen'[r] = seen[r]
      BY <1>1, <1>3, <2>2 DEF BlindTo, RolloutInv, Places, RolloutTypeOK
    <3> QED
      BY <1>3, <3>1 DEF Inspect, Updated, Abandoned, RolloutInv, Known
  <2> QED
    BY <2>1, <2>2
<1> QED
  BY <1>2, <1>3 DEF Inspect, RolloutInv, Known

\* A deploy of the service: what is known of it afterwards.
LEMMA DeployStep ==
  ASSUME RolloutInv, Deploy \/ DeployFails \/ OtherDeploys
  PROVE  RolloutInv'
<1> USE DEF RolloutInv
<1>1. ASSUME NEW r \in Services, Accept(r), pc = "begin",
             UNCHANGED <<cmd, watched, clock, state, started, streak, seen, blind>>,
             \/ pc' = "rollout" /\ cmd = "swarm" /\ r = Target
             \/ pc' \in {"begin", "done"},
             verdict' \in Verdicts
      PROVE  RolloutInv'
  <2>1. Places'
    BY <1>1, Accepts DEF Places, RolloutTypeOK, SwarmTypeOK
  <2>2. Known'
    BY <1>1, Accepts DEF Known
  <2> QED
    BY <2>1, <2>2
<1>2. ASSUME AcceptJob, pc = "begin",
             UNCHANGED <<cmd, watched, clock, state, started, streak, seen, blind>>,
             \/ pc' = "job" /\ cmd = "swarm-job"
             \/ pc' = "done",
             verdict' \in Verdicts
      PROVE  RolloutInv'
  BY <1>2, AcceptsJob
  DEF Places, Known, RolloutTypeOK, SwarmTypeOK, Updated, Abandoned
<1>3. ASSUME UNCHANGED swarmVars, pc = "begin",
             UNCHANGED <<cmd, watched, clock, state, started, streak, seen, blind>>,
             pc' = "done",
             verdict' \in Verdicts
      PROVE  RolloutInv'
  BY <1>3 DEF Places, Known, RolloutTypeOK, SwarmTypeOK, Updated, Abandoned, swarmVars
<1>4. verdict' \in Verdicts
  BY DEF Deploy, DeployFails, OtherDeploys, waitVars, Decide, Goto, Verdicts,
         Places, RolloutTypeOK
<1>5. CASE Deploy
  BY <1>1, <1>2, <1>3, <1>4, <1>5, RolloutAssumption DEF Deploy, Decide, Goto
<1>6. CASE DeployFails
  BY <1>1, <1>2, <1>3, <1>4, <1>6, RolloutAssumption DEF DeployFails, Decide
<1>7. CASE OtherDeploys
  BY <1>1, <1>4, <1>7 DEF OtherDeploys, waitVars
<1> QED
  BY <1>5, <1>6, <1>7

LEMMA RolloutStep ==
  ASSUME RolloutInv, ReadRollout
  PROVE  RolloutInv'
<1> USE DEF RolloutInv
<1>1. PICK answered \in BOOLEAN :
        blind' = BlindTo(Target, answered) /\ state' = Inspected(Target, answered)
  BY DEF ReadRollout
<1>2. /\ state' \in States
      /\ answered /\ state' = "unknown" => svc[Target].update = "nil"
  BY <1>1, Reads, RolloutAssumption DEF Places, RolloutTypeOK
<1>3. blind' \subseteq Services
  BY <1>1, RolloutAssumption DEF BlindTo, Places, RolloutTypeOK
<1>4. verdict' \in Verdicts /\ pc' \in {"replicas", "done"} /\ cmd = "swarm"
  BY DEF ReadRollout, Decide, Goto, Verdicts, States, Places, RolloutTypeOK
<1>5. Places'
  BY <1>2, <1>3, <1>4 DEF ReadRollout, Places, RolloutTypeOK, SwarmTypeOK
<1>6. Target \notin blind' => answered /\ ~svc[Target].pending
  BY <1>1 DEF BlindTo
<1>7. \A s \in Services \ blind' : s = Target \/ s \notin blind
  BY <1>1 DEF BlindTo
<1>8. Target \notin blind' /\ state' = "unknown" =>
        ~svc[Target].pending /\ svc[Target].update = "nil"
  BY <1>2, <1>6
<1>9. \A s \in Services : seen[s] = "unread"
  BY <1>4 DEF Known
<1> QED
  BY <1>4, <1>5, <1>7, <1>8, <1>9 DEF ReadRollout, Known, Updated, Abandoned

LEMMA Poll ==
  ASSUME RolloutInv, NEW l \in {"rollout", "job"}, NextPoll(l)
  PROVE  /\ verdict' \in {verdict, "timed-out"}
         /\ verdict' # verdict => verdict' = "timed-out"
         /\ pc' \in {l, "done"}
         /\ clock' \in 0..Timeout
BY RolloutAssumption DEF NextPoll, Decide, Goto, RolloutInv, Places, RolloutTypeOK

LEMMA ReplicasStep ==
  ASSUME RolloutInv, ReadReplicas
  PROVE  RolloutInv'
<1> USE DEF RolloutInv
<1>1. /\ verdict' \in Verdicts /\ pc' \in {"rollout", "done"} /\ cmd = "swarm"
      /\ clock' \in 0..Timeout
  <2>1. verdict \in Verdicts /\ clock \in 0..Timeout /\ cmd = "swarm"
    BY DEF ReadReplicas, Places, RolloutTypeOK
  <2>2. CASE NextPoll("rollout")
    BY <2>1, <2>2, Poll DEF Verdicts
  <2>3. CASE Decide("converged") /\ UNCHANGED clock
    BY <2>1, <2>3 DEF Decide, Verdicts, States
  <2> QED
    BY <2>2, <2>3 DEF ReadReplicas
<1>2. Places'
  BY <1>1 DEF ReadReplicas, Places, RolloutTypeOK, SwarmTypeOK
<1> QED
  BY <1>1, <1>2 DEF ReadReplicas, Known, Updated, Abandoned

LEMMA JobPollStep ==
  ASSUME RolloutInv, ReadJob
  PROVE  RolloutInv'
<1> USE DEF RolloutInv
<1>1. /\ verdict' \in Verdicts /\ pc' \in {"job", "done"} /\ cmd = "swarm-job"
      /\ clock' \in 0..Timeout
      /\ started' \in BOOLEAN /\ streak' \in 0..FailPolls - 1
  <2>1. /\ verdict \in Verdicts /\ clock \in 0..Timeout /\ cmd = "swarm-job"
        /\ started \in BOOLEAN /\ streak \in 0..FailPolls - 1
    BY DEF ReadJob, Places, RolloutTypeOK
  <2>2. started' \in BOOLEAN
    BY <2>1 DEF ReadJob
  <2>3. streak' \in 0..FailPolls - 1
    BY <2>1, RolloutAssumption DEF ReadJob, Settled
  <2>4. CASE NextPoll("job")
    BY <2>1, <2>2, <2>3, <2>4, Poll DEF Verdicts
  <2>5. CASE (Decide("completed") \/ Decide("failed")) /\ UNCHANGED clock
    BY <2>1, <2>2, <2>3, <2>5 DEF Decide, Verdicts
  <2> QED
    BY <2>4, <2>5 DEF ReadJob
<1>2. Places'
  BY <1>1 DEF ReadJob, Places, RolloutTypeOK, SwarmTypeOK
<1> QED
  BY <1>1, <1>2 DEF ReadJob, Known, Updated, Abandoned

LEMMA AskStep ==
  ASSUME RolloutInv, Ask \/ Tell
  PROVE  RolloutInv'
<1> USE DEF RolloutInv
<1>1. /\ verdict' \in Verdicts /\ pc' \in {"inspect", "done"} /\ cmd = "status"
      /\ watched' \subseteq Services
  <2>1. Aggregate({seen[s] : s \in watched}) \in States
    BY DEF Aggregate, States
  <2>2. CASE Ask
    BY <2>2 DEF Ask, Goto, Decide, Verdicts, States, Places, RolloutTypeOK
  <2>3. CASE Tell
    BY <2>1, <2>3 DEF Tell, Decide, Verdicts, Places, RolloutTypeOK
  <2> QED
    BY <2>2, <2>3
<1>2. Places'
  BY <1>1 DEF Ask, Tell, Places, RolloutTypeOK, SwarmTypeOK
<1> QED
  BY <1>1, <1>2 DEF Ask, Tell, Known, Updated, Abandoned

LEMMA SwarmsStep ==
  ASSUME RolloutInv, Swarm
  PROVE  RolloutInv'
<1> USE DEF RolloutInv
<1>1. SwarmTypeOK /\ SwarmStep
  BY DEF Swarm, Places, RolloutTypeOK
<1>2. UNCHANGED <<cmd, pc, watched, verdict, clock, state, started, streak, seen, blind>>
  BY DEF Swarm, waitVars
<1>3. Places'
  BY <1>1, <1>2, ServiceStep, JobStep DEF Places, RolloutTypeOK, SwarmTypeOK
<1>4. \A s \in Services :
        /\ Follows(svc[s], svc'[s])
        /\ Updated(s) => Updated(s)'
        /\ Abandoned(s) => Abandoned(s)'
  BY <1>1, ServiceStep DEF Follows, Updated, Abandoned
<1>5. \A s \in Services : svc'[s].desired = 0 =>
        ~svc'[s].pending /\ svc'[s].update = "nil" /\ svc'[s].fresh = 0 /\ svc'[s].stale = 0
  BY <1>4 DEF Known, Follows
<1> QED
  BY <1>2, <1>3, <1>4, <1>5, RolloutAssumption DEF Known, Follows

LEMMA InvStep == RolloutInv /\ [Next]_vars => RolloutInv'
<1> SUFFICES ASSUME RolloutInv, [Next]_vars PROVE RolloutInv'
  OBVIOUS
<1>1. CASE UNCHANGED vars
  BY <1>1 DEF vars, waitVars, RolloutInv, Places, Known, RolloutTypeOK, SwarmTypeOK,
              Updated, Abandoned
<1> QED
  BY <1>1, StatusStep, DeployStep, RolloutStep, ReplicasStep, JobPollStep, AskStep,
     SwarmsStep
  DEF Next, Command

LEMMA RolloutInvariance == Spec => []RolloutInv
BY InvInit, InvStep, PTL DEF Spec

-----------------------------------------------------------------------------
\* Type correctness, for any stack and any timeouts: no count and no streak
\* of swarm-rollout.ts leaves its range.
THEOREM TypeInvariance == Spec => []RolloutTypeOK
<1>1. RolloutInv => RolloutTypeOK
  BY DEF RolloutInv, Places
<1> QED
  BY <1>1, RolloutInvariance, PTL

\* waitForSwarmConvergence decides by what the swarm has decided.
LEMMA WaitIsHonest ==
  ASSUME RolloutInv, Next, verdict' # verdict
  PROVE  HonestWait
<1> SUFFICES ASSUME cmd = "swarm"
             PROVE  /\ ExitsZero(verdict') =>
                         Target \in blind' \/ Updated(Target) \/ Up(Target)
                    /\ verdict' = "rolled-back" => Target \in blind' \/ Abandoned(Target)
  BY DEF HonestWait
<1> USE DEF RolloutInv
<1>1. CASE ReadRollout
  <2>1. PICK answered \in BOOLEAN :
          blind' = BlindTo(Target, answered) /\ state' = Inspected(Target, answered)
    BY <1>1 DEF ReadRollout
  <2>2. verdict' \in {"converged", "rolled-back"} /\ verdict' = state'
    BY <1>1 DEF ReadRollout, Decide, Goto
  <2>3. Target \notin blind' => ~svc[Target].pending
    BY <2>1 DEF BlindTo
  <2>4. /\ state' = "converged" => svc[Target].update = "completed"
        /\ state' = "rolled-back" => svc[Target].update \in GivenUp
    BY <2>1, Reads, RolloutAssumption DEF Places, RolloutTypeOK
  <2>5. ExitsZero(verdict') => verdict' = "converged"
    BY <2>2 DEF ExitsZero
  <2> QED
    BY <2>2, <2>3, <2>4, <2>5 DEF Updated, Abandoned
<1>2. CASE ReadReplicas
  <2>1. CASE NextPoll("rollout")
    BY <2>1, Poll DEF ExitsZero
  <2>2. CASE state = "unknown" /\ Full(Target) /\ Decide("converged")
    <3>1. Target \notin blind =>
            /\ ~svc[Target].pending /\ svc[Target].update = "nil"
            /\ svc[Target].stale = 0 /\ svc[Target].desired = Replicas
      BY <1>2, <2>2 DEF ReadReplicas, Known
    <3>2. svc[Target] \in Service
      BY RolloutAssumption DEF Places, RolloutTypeOK, SwarmTypeOK
    <3>3. Target \notin blind => svc[Target].fresh = Replicas
      BY <2>2, <3>1, <3>2, SwarmAssumption DEF Full, Service
    <3> QED
      BY <1>2, <2>2, <3>1, <3>3 DEF ReadReplicas, Decide, Up
  <2> QED
    BY <1>2, <2>1, <2>2 DEF ReadReplicas
<1>3. CASE Deploy \/ DeployFails
  <2>1. verdict' = "command failed"
    BY <1>3 DEF Deploy, DeployFails, Decide, Goto
  <2>2. ~ExitsZero(verdict')
    BY <2>1 DEF ExitsZero
  <2> QED
    BY <2>1, <2>2
<1>4. CASE ReadJob
  BY <1>4 DEF ReadJob, Places
<1>5. CASE OtherDeploys \/ Swarm \/ Ask \/ Tell \/ \E s \in Services : Inspect(s)
  BY <1>5 DEF OtherDeploys, Swarm, Ask, Tell, Inspect, waitVars
<1> QED
  BY <1>1, <1>2, <1>3, <1>4, <1>5 DEF Next, Command

\* waitForSwarmJobCompletion counts the tasks of the iteration it waits for.
LEMMA JobIsHonest ==
  ASSUME RolloutInv, Next, verdict' # verdict
  PROVE  HonestJob
<1> SUFFICES ASSUME cmd = "swarm-job"
             PROVE  /\ ExitsZero(verdict') =>
                         \/ ~job.pending /\ job.done = Replicas
                         \/ job.pending /\ (clock >= Grace \/ started)
                    /\ verdict' = "failed" => job.done < Replicas
  BY DEF HonestJob
<1> USE DEF RolloutInv
<1>0. job \in Job /\ clock \in 0..Timeout
  BY DEF Places, RolloutTypeOK, SwarmTypeOK
<1>1. CASE ReadJob
  <2>1. CASE NextPoll("job")
    BY <2>1, Poll DEF ExitsZero
  <2>2. CASE ~Waits /\ Met /\ Decide("completed")
    <3>1. job.done = Replicas /\ ~Active
      BY <1>0, <2>2, SwarmAssumption DEF Met, Active, Job
    <3>2. started \/ clock >= Grace
      BY <1>0, <2>2, <3>1, RolloutAssumption DEF Waits, Met
    <3> QED
      BY <1>0, <2>2, <3>1, <3>2 DEF Decide, Job
  <2>3. CASE Unmet /\ Decide("failed")
    BY <1>0, <2>3, SwarmAssumption DEF Unmet, Decide, ExitsZero, Job
  <2> QED
    BY <1>1, <2>1, <2>2, <2>3 DEF ReadJob
<1>2. CASE Deploy \/ DeployFails
  <2>1. verdict' = "command failed"
    BY <1>2 DEF Deploy, DeployFails, Decide, Goto
  <2>2. ~ExitsZero(verdict')
    BY <2>1 DEF ExitsZero
  <2> QED
    BY <2>1, <2>2
<1>3. CASE ReadRollout \/ ReadReplicas
  BY <1>3 DEF ReadRollout, ReadReplicas, Places
<1>4. CASE OtherDeploys \/ Swarm \/ Ask \/ Tell \/ \E s \in Services : Inspect(s)
  BY <1>4 DEF OtherDeploys, Swarm, Ask, Tell, Inspect, waitVars
<1> QED
  BY <1>1, <1>2, <1>3, <1>4 DEF Next, Command

\* What swarm status has read of one service still holds when it has read the
\* last one.
LEMMA StatusIsHonest ==
  ASSUME RolloutInv, Next, verdict' # verdict
  PROVE  HonestStatus
<1> SUFFICES ASSUME cmd = "status"
             PROVE  /\ ExitsZero(verdict') =>
                         \A s \in watched : s \in blind \/ Updated(s)
                    /\ verdict' = "rolled-back" =>
                         \E s \in watched : s \in blind \/ Abandoned(s)
  BY DEF HonestStatus
<1> USE DEF RolloutInv
<1>1. CASE Tell
  <2> DEFINE states == {seen[s] : s \in watched}
  <2>1. verdict' = Aggregate(states)
    BY <1>1 DEF Tell, Decide
  <2>2. watched \subseteq Services
    BY DEF Places, RolloutTypeOK
  <2>3. verdict' = "rolled-back" => "rolled-back" \in states
    BY <2>1 DEF Aggregate
  <2>4. ExitsZero(verdict') => states = {"converged"}
    BY <2>1 DEF Aggregate, ExitsZero
  <2>5. states = {"converged"} => \A s \in watched : seen[s] = "converged"
    OBVIOUS
  <2> QED
    BY <2>2, <2>3, <2>4, <2>5 DEF Known
<1>2. CASE Ask
  <2>1. verdict' = "unknown"
    BY <1>2 DEF Ask, Goto, Decide
  <2> QED
    BY <2>1 DEF ExitsZero
<1>3. CASE Deploy \/ DeployFails
  BY <1>3 DEF Deploy, DeployFails
<1>4. CASE ReadRollout \/ ReadReplicas \/ ReadJob
  BY <1>4 DEF ReadRollout, ReadReplicas, ReadJob, Places
<1>5. CASE OtherDeploys \/ Swarm \/ \E s \in Services : Inspect(s)
  BY <1>5 DEF OtherDeploys, Swarm, Inspect, waitVars
<1> QED
  BY <1>1, <1>2, <1>3, <1>4, <1>5 DEF Next, Command

\* The exit code of a deploy or of swarm status is the swarm's verdict.
THEOREM Honesty == Spec => HonestExit
<1>1. ASSUME RolloutInv, [Next]_vars
      PROVE  [verdict' # verdict => HonestWait /\ HonestJob /\ HonestStatus]_vars
  <2>1. CASE UNCHANGED vars
    BY <2>1
  <2>2. CASE Next
    BY <1>1, <2>2, WaitIsHonest, JobIsHonest, StatusIsHonest
  <2> QED
    BY <1>1, <2>1, <2>2
<1> QED
  BY <1>1, RolloutInvariance, PTL DEF Spec, HonestExit
=============================================================================
