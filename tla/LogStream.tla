------------------------------ MODULE LogStream ------------------------------
(***************************************************************************)
(* The deploy Action and the gateway it follows: POST /deploy, the log     *)
(* stream GET /deploy/:id/logs?from=, GET /deploy/:id and GET /status      *)
(* (deploy.controller.ts), and the client that reconnects to the stream,   *)
(* counts what it has read and reports a verdict (actions/deploy).         *)
(*                                                                         *)
(* The record is that of DeployStore.  A connection belongs to the record  *)
(* in memory: every line pushed to the record is written to it, and it     *)
(* ends with the run.  Lines travel in `chan' and are lost when the        *)
(* connection is cut, which the network or a restart may do at any time.   *)
(* The gateway and the process it hands the log over to do not write at    *)
(* the same time.                                                          *)
(***************************************************************************)
EXTENDS DeployStore

CONSTANTS
  Clients,        \* jobs that deploy the release, followed to their end
  MaxReconnects   \* MAX_RECONNECTS

ASSUME StreamAssumption == MaxReconnects \in Nat

VARIABLE job      \* the state of each client

streamVars == <<storeVars, job>>

\* run: the run the client was told of; got: history, the lines it has read;
\* gh: the GitHub Deployment; conn: none, open, ended by the gateway, or cut
Job == [pc : {"post", "asked", "connect", "stream", "confirm", "health",
              "success", "failure"},
        run : 0..MaxRuns, conn : {"none", "open", "ended", "cut"},
        chan : Seq(Line), cursor : Nat, reconnects : 0..MaxReconnects + 1,
        fatal : BOOLEAN, got : Seq(Line),
        gh : {"none", "in_progress", "success", "failure"}]

NewJob == [pc |-> "post", run |-> 0, conn |-> "none", chan |-> <<>>, cursor |-> 0,
           reconnects |-> 0, fatal |-> FALSE, got |-> <<>>, gh |-> "in_progress"]

Reported(c) == job[c].pc \in {"success", "failure"}

Is(c, pc) == job[c].pc = pc
Set(c, j) == job' = [job EXCEPT ![c] = j]

\* setFailed, and setDeploymentStatus, which is best effort: it never throws
WithStatus(j, s) == [j EXCEPT !.pc = s, !.gh = IF j.gh = "none" THEN "none" ELSE s]
Reports(c, s) ==
  \E told \in BOOLEAN : Set(c, IF told THEN WithStatus(job[c], s)
                                       ELSE [job[c] EXCEPT !.pc = s])

\* The promise of run() rejects: the Deployment is left as it is.
Throws(c) == Set(c, [job[c] EXCEPT !.pc = "failure"])

-----------------------------------------------------------------------------
(* The gateway.                                                              *)

\* What streamLogs does with every 'line' and 'done' that the record emits; a
\* process that dies cuts its connections.
Attached(c) == job[c].conn = "open"
Emitted == SubSeq(rec'.log, Len(rec.log) + 1, Len(rec'.log))
Streamed(c) ==
  IF ~Attached(c) THEN job[c]
  ELSE IF ~up' THEN [job[c] EXCEPT !.conn = "cut"]
  ELSE [job[c] EXCEPT !.chan = @ \o Emitted,
                      !.conn = IF rec'.status = "running" THEN "open" ELSE "ended"]

\* Another process may write; not while the tail gives up waiting for it.
Handed == runs # 0 /\ pend # "expire" /\ (rec.tail \/ ~up)

Decide == \/ ~rec.tail /\ \E x \in {0, 1}, ls \in Preamble : Finish(ls, x)
          \/ PersistMeta \/ TailExit \/ TailEmit \/ TailQuiet \/ TailExpire
          \/ BootFinish
Restart == \E v \in Versions : Boot(v)

GatewayStep ==
  /\ \/ Decide \/ Restart \/ Die
     \/ Start      \* POST /deploy of a job that is not followed here
     \/ Room /\ ~rec.tail /\ AppendLines(<<Ln("text", rec.run)>>)
     \/ ~rec.selfUpdate /\ (\E v \in Versions : SetSelfUpdate(v))
     \/ Room /\ rec.selfUpdate /\ (\E ls \in Preamble : StartTail(ls))
     \/ Room /\ Handed /\ (\E t \in Texts : ExternalAppend(Ln(t, runs)))
  /\ Observe
  /\ job' = [c \in Clients |-> Streamed(c)]

-----------------------------------------------------------------------------
(* The client: run().                                                        *)

\* The release cannot be resolved, or POST cannot be sent ...
NotSent(c) ==
  /\ Is(c, "post")
  /\ ~up
  /\ Throws(c)
  /\ UNCHANGED storeVars

\* ... or is refused: the method is not allowed here; 400, 401, 403.
Refused(c) ==
  /\ Is(c, "post")
  /\ Reports(c, "failure")
  /\ UNCHANGED storeVars

\* triggerDeploy: 200, an observer of the run that goes on
Attach(c) ==
  /\ Is(c, "post")
  /\ Quiescent
  /\ IsRunning
  /\ Set(c, [job[c] EXCEPT !.pc = "connect", !.run = rec.run])
  /\ UNCHANGED storeVars

\* ... or a run of its own, 202 once start() has returned
Trigger(c) ==
  /\ Is(c, "post")
  /\ Start
  /\ Observe
  /\ Set(c, [job[c] EXCEPT !.pc = "asked", !.run = runs + 1])

Answered(c) ==
  /\ Is(c, "asked")
  /\ IF up /\ rec.run = job[c].run
     THEN pend = "none" /\ Set(c, [job[c] EXCEPT !.pc = "connect"])
     ELSE Throws(c)
  /\ UNCHANGED storeVars

\* A plausible bug, for the checks: every reconnect starts from the first line.
ConnectFromStart(c) ==
  /\ Is(c, "connect")
  /\ job[c].reconnects <= MaxReconnects
  /\ Quiescent
  /\ HasRecord
  /\ Set(c, [job[c] EXCEPT !.pc = "stream", !.chan = rec.log,
                           !.conn = IF rec.status = "running" THEN "open" ELSE "ended"])
  /\ UNCHANGED storeVars

\* streamLines: the lines from the cursor on, then what follows
Connect(c) ==
  /\ Is(c, "connect")
  /\ job[c].reconnects <= MaxReconnects
  /\ Quiescent
  /\ HasRecord
  /\ Set(c, [job[c] EXCEPT !.pc = "stream",
                           !.chan = SubSeq(rec.log, job[c].cursor + 1, Len(rec.log)),
                           !.conn = IF rec.status = "running" THEN "open" ELSE "ended"])
  /\ UNCHANGED storeVars

\* A plausible bug, for the checks: the old connection is kept.
AgainKeeping(c) == Set(c, [job[c] EXCEPT !.pc = "connect", !.reconnects = @ + 1])

\* One reconnect of at most MAX_RECONNECTS.
Again(c) ==
  Set(c, [job[c] EXCEPT !.pc = "connect", !.conn = "none", !.chan = <<>>,
                        !.reconnects = @ + 1])

\* No answer, or 404.
NoStream(c) ==
  /\ Is(c, "connect")
  /\ job[c].reconnects <= MaxReconnects
  /\ ~up \/ ~HasRecord
  /\ Again(c)
  /\ UNCHANGED storeVars

\* Any line that is no verdict is counted; one that starts with the mark of a
\* fatal error is remembered.
ReadLine(c) ==
  /\ Is(c, "stream")
  /\ job[c].chan # <<>>
  /\ ~IsExit(Head(job[c].chan))
  /\ \E fatal \in {job[c].fatal, TRUE} :
       Set(c, [job[c] EXCEPT !.cursor = @ + 1, !.fatal = fatal,
                             !.chan = Tail(@), !.got = Append(@, Head(job[c].chan))])
  /\ UNCHANGED storeVars

\* A plausible bug, for the checks: any verdict is taken for a success.
ReadAnyExit(c) ==
  /\ Is(c, "stream")
  /\ job[c].chan # <<>>
  /\ IsExit(Head(job[c].chan))
  /\ Set(c, [job[c] EXCEPT !.conn = "none", !.chan = <<>>, !.pc = "health"])
  /\ UNCHANGED storeVars

\* The first verdict stops the stream; only a zero without an error is good.
ReadExit(c) ==
  /\ Is(c, "stream")
  /\ job[c].chan # <<>>
  /\ IsExit(Head(job[c].chan))
  /\ LET good == VerdictOf(Head(job[c].chan)) = "completed" /\ ~job[c].fatal
         read == [job[c] EXCEPT !.conn = "none", !.chan = <<>>]
     IN  IF good THEN Set(c, [read EXCEPT !.pc = "confirm"])
         ELSE \E told \in BOOLEAN :
                Set(c, IF told THEN WithStatus(read, "failure")
                               ELSE [read EXCEPT !.pc = "failure"])
  /\ UNCHANGED storeVars

\* The stream ends without a verdict, or breaks off.
StreamEnds(c) ==
  /\ Is(c, "stream")
  /\ \/ job[c].conn = "ended" /\ job[c].chan = <<>>
     \/ job[c].conn = "cut"
  /\ Again(c)
  /\ UNCHANGED storeVars

\* The network cuts the connection, with what is on its way.
Cut(c) ==
  /\ Is(c, "stream")
  /\ Again(c)
  /\ UNCHANGED storeVars

\* A plausible bug, for the checks: the stream is asked for once more, for ever.
NeverGivesUp(c) ==
  /\ Is(c, "connect")
  /\ job[c].reconnects > MaxReconnects
  /\ UNCHANGED streamVars

\* 'Log stream ended without EXIT marker'
GivesUp(c) ==
  /\ Is(c, "connect")
  /\ job[c].reconnects > MaxReconnects
  /\ Reports(c, "failure")
  /\ UNCHANGED storeVars

\* recordConfirmsSuccess: the record says no ...
Denied(c) ==
  /\ Is(c, "confirm")
  /\ Quiescent
  /\ HasRecord
  /\ rec.status = "failed"
  /\ Reports(c, "failure")
  /\ UNCHANGED storeVars

\* ... or yes, or cannot be read in time: the stream is trusted then.
Confirmed(c) ==
  /\ Is(c, "confirm")
  /\ ~(Quiescent /\ HasRecord /\ rec.status = "failed")
  /\ Set(c, [job[c] EXCEPT !.pc = "health"])
  /\ UNCHANGED storeVars

\* GET /status within HEALTH_TIMEOUT_MS
Healthy(c) ==
  /\ Is(c, "health")
  /\ Quiescent
  /\ Reports(c, "success")
  /\ UNCHANGED storeVars

Unhealthy(c) ==
  /\ Is(c, "health")
  /\ ~up
  /\ Reports(c, "failure")
  /\ UNCHANGED storeVars

ClientStep(c) ==
  \/ NotSent(c) \/ Attach(c) \/ Trigger(c) \/ Answered(c)
  \/ Connect(c) \/ NoStream(c) \/ ReadLine(c) \/ ReadExit(c) \/ StreamEnds(c)
  \/ GivesUp(c) \/ Denied(c) \/ Confirmed(c) \/ Healthy(c) \/ Unhealthy(c)

-----------------------------------------------------------------------------
\* createDeployment is best effort, too.
Init ==
  /\ StoreInit
  /\ job \in [Clients -> {NewJob, [NewJob EXCEPT !.gh = "none"]}]

Next ==
  \/ GatewayStep
  \/ \E c \in Clients : ClientStep(c) \/ Refused(c) \/ Cut(c)

\* The gateway finishes its methods and, as DeployGateway shows, its runs; a
\* supervisor boots it again.  A client that finds the gateway up, or down,
\* again and again goes on: its timers do not wait for the gateway.
Spec ==
  /\ Init
  /\ [][Next]_streamVars
  /\ WF_streamVars((Decide \/ Restart) /\ Observe
                   /\ job' = [c \in Clients |-> Streamed(c)])
  /\ \A c \in Clients : SF_streamVars(ClientStep(c))

-----------------------------------------------------------------------------
\* Every client is in a state its comment describes; the gateway never streams
\* to a client that does not listen.
StreamTypeOK ==
  /\ job \in [Clients -> Job]
  /\ \A c \in Clients : job[c].conn # "none" <=> Is(c, "stream")

(* Across reconnects, restarts and hand-overs a client reads the log of its  *)
(* run from the first line on, without a gap, a repetition or a swap: the    *)
(* cursor counts what the gateway counts.  A later run of the release, which *)
(* truncates the log under the cursor, is excepted.                          *)
ReadsTheLog ==
  \A c \in Clients :
    job[c].run = runs /\ runs # 0 =>
      /\ job[c].cursor = Len(job[c].got)
      /\ job[c].cursor <= Len(dlog)
      /\ job[c].got = SubSeq(dlog, 1, job[c].cursor)

(* A job that reports success, to the workflow or to the GitHub Deployment,  *)
(* has deployed: as long as no later run has replaced it, the first verdict  *)
(* in the durable log of the run is EXIT:0.                                  *)
SuccessIsReal ==
  \A c \in Clients :
    (job[c].gh = "success" \/ Is(c, "success")) /\ job[c].run = runs =>
      \E i \in DOMAIN dlog : FirstExit(dlog, i) /\ dlog[i].text = "EXIT:0"

(* A job that was accepted reports a verdict in the end, whatever is cut or  *)
(* restarted on the way: it neither hangs nor drains its event loop.         *)
EveryJobReports ==
  \A c \in Clients : (Is(c, "connect") \/ Is(c, "asked")) ~> Reported(c)

=============================================================================
