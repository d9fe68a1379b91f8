----------------------------- MODULE DeployStore -----------------------------
(***************************************************************************)
(* The record the deploy gateway keeps for one release id                  *)
(* (git-flow-deploy-service, deploy/deploy-store.ts).                      *)
(*                                                                         *)
(* A record lives in three places: in the memory of the service process,   *)
(* in deploy-record.json (the metadata) and in the append-only deploy.log, *)
(* to which a process outside the service - a restart supervisor - also    *)
(* writes.  The methods of DeployStore are the operators below; a method   *)
(* runs to its end without yielding to the event loop, but the process may *)
(* die, and an outside process may append, between two of its writes.      *)
(* `pend' holds the write that is still due.                               *)
(*                                                                         *)
(* StoreSpec is the store under its most general client: any method in any *)
(* order the types allow, any external writer, a crash at any moment.      *)
(* DeployGateway drives the same operators the way the controller does.    *)
(***************************************************************************)
EXTENDS Naturals, Sequences

CONSTANTS
  MaxRuns,        \* bound: how often the release is deployed
  MaxLog,         \* bound: no chatter is appended to a deploy.log this long
  Versions,       \* versions of the service that can be installed
  TornWrites,     \* TRUE: a crash inside writeFileSync leaves an unparsable file
  LostWrites      \* TRUE: a best-effort file write may fail and be swallowed

ASSUME StoreAssumption ==
  /\ MaxRuns \in Nat \ {0}
  /\ MaxLog \in Nat
  /\ TornWrites \in BOOLEAN
  /\ LostWrites \in BOOLEAN

VARIABLES
  up,     \* the service process is alive and has booted
  rec,    \* the in-memory record, NoRecord when there is none
  meta,   \* deploy-record.json
  dlog,   \* deploy.log
  pend,   \* the rest of the synchronous method in progress
  runs,   \* how many runs were started (startedAt tells them apart)
  seen    \* history: the last status a client could read for each run

storeVars == <<up, rec, meta, dlog, pend, runs, seen>>

-----------------------------------------------------------------------------
Runs   == 1..MaxRuns
Final  == {"completed", "failed"}
Status == {"running"} \cup Final

\* A log line is what its first characters make it; `by' is the run for which
\* it was written (history: the code does not store it).
Texts == {"text", "EXIT:0", "EXIT:1"}
Line  == [text : Texts, by : Runs]

Ln(t, r)     == [text |-> t, by |-> r]
IsExit(l)    == l.text # "text"
\* A plausible bug, for the checks: a status the API does not know.
ExitStatus(l) == IF l.text = "EXIT:0" THEN "completed" ELSE "exited"

VerdictOf(l) == IF l.text = "EXIT:0" THEN "completed" ELSE "failed"
ExitLine(c, r) == Ln(IF c = 0 THEN "EXIT:0" ELSE "EXIT:1", r)
VerdictOfCode(c) == IF c = 0 THEN "completed" ELSE "failed"

\* Indices of the terminal lines of a log, and "line i is the first of them".
Exits(log)        == {i \in DOMAIN log : IsExit(log[i])}
FirstExit(log, i) == i \in Exits(log) /\ \A j \in Exits(log) : i <= j

NoVersion == "none"
NoRecord ==
  [run |-> 0, status |-> "failed", log |-> <<>>, selfUpdate |-> FALSE,
   target |-> NoVersion, tail |-> FALSE, emitted |-> 0]

Record ==
  [run : 0..MaxRuns, status : Status, log : Seq(Line), selfUpdate : BOOLEAN,
   target : Versions \cup {NoVersion}, tail : BOOLEAN, emitted : Nat]

\* deploy-record.json: `file' says whether it can be read back.
Meta ==
  [file : {"absent", "torn", "ok"}, run : 0..MaxRuns, status : Status,
   selfUpdate : BOOLEAN, target : Versions \cup {NoVersion}]

MetaOf(r) ==
  [file |-> "ok", run |-> r.run, status |-> r.status,
   selfUpdate |-> r.selfUpdate, target |-> r.target]
NoMeta == [MetaOf(NoRecord) EXCEPT !.file = "absent"]

HasRecord  == rec.run # 0
IsRunning  == HasRecord /\ rec.status = "running"
Quiescent  == up /\ pend = "none"      \* the event loop is free for a callback

-----------------------------------------------------------------------------
(* Writes.  appendToFile, persistMeta and the truncation in start() swallow  *)
(* their errors, so with LostWrites each may leave the file as it was.       *)

Appends(lines) ==
  \/ dlog' = dlog \o lines
  \/ LostWrites /\ lines # <<>> /\ dlog' = dlog

\* What a client can read once the method has returned.
Observe ==
  seen' = IF rec'.run # 0 /\ pend' = "none" /\ up'
          THEN [seen EXCEPT ![rec'.run] = rec'.status] ELSE seen

\* persistMeta
PersistMeta ==
  /\ up
  /\ pend = "persist"
  /\ \/ meta' = MetaOf(rec)
     \/ LostWrites /\ UNCHANGED meta
  /\ pend' = "none"
  /\ UNCHANGED <<up, rec, dlog, runs>>

\* start(): a fresh record replaces any earlier one and the log is truncated.
\* The controller calls it only for a release that is not running.
Start ==
  /\ Quiescent
  /\ ~IsRunning
  /\ runs < MaxRuns
  /\ runs' = runs + 1
  /\ rec' = [NoRecord EXCEPT !.run = runs + 1, !.status = "running"]
  /\ dlog' = <<>> \/ (LostWrites /\ UNCHANGED dlog)
  /\ pend' = "persist"
  /\ UNCHANGED <<up, meta>>

\* appendLine(), once per line
AppendLines(lines) ==
  /\ Quiescent
  /\ IsRunning
  /\ rec' = [rec EXCEPT !.log = @ \o lines]
  /\ Appends(lines)
  /\ UNCHANGED <<up, meta, pend, runs>>

\* A plausible bug, for the checks: the end of the run is kept in memory.
FinishInMemory(lines, code) ==
  /\ Quiescent
  /\ IsRunning
  /\ rec' = [rec EXCEPT !.log = Append(@ \o lines, ExitLine(code, rec.run)),
                        !.status = VerdictOfCode(code), !.tail = FALSE]
  /\ pend' = "persist"
  /\ UNCHANGED <<up, meta, dlog, runs>>

\* appendLine() for each of `lines', then finish(code)
Finish(lines, code) ==
  LET all == Append(lines, ExitLine(code, rec.run)) IN
  /\ Quiescent
  /\ IsRunning
  /\ rec' = [rec EXCEPT !.log = @ \o all, !.status = VerdictOfCode(code),
                        !.tail = FALSE]
  /\ Appends(all)
  /\ pend' = "persist"
  /\ UNCHANGED <<up, meta, runs>>

\* setSelfUpdate()
SetSelfUpdate(v) ==
  /\ Quiescent
  /\ IsRunning
  /\ rec' = [rec EXCEPT !.selfUpdate = TRUE, !.target = v]
  /\ pend' = "persist"
  /\ UNCHANGED <<up, meta, dlog, runs>>

\* appendLine() for each of `lines', then startTail(): the lines already in
\* memory are the baseline, and they are COUNTED, not located in the file.
StartTail(lines) ==
  /\ Quiescent
  /\ IsRunning
  /\ ~rec.tail
  /\ LET log == rec.log \o lines
     IN  rec' = [rec EXCEPT !.log = log, !.tail = TRUE, !.emitted = Len(log)]
  /\ Appends(lines)
  /\ UNCHANGED <<up, meta, pend, runs>>

-----------------------------------------------------------------------------
(* One tick of the tail timer; the four outcomes of the callback.            *)

Fresh == (rec.emitted + 1)..Len(dlog)      \* lines the tick has not seen

\* New lines without a verdict are copied to memory.
TailEmit ==
  /\ Quiescent /\ rec.tail
  /\ Fresh # {}
  /\ Fresh \cap Exits(dlog) = {}
  /\ rec' = [rec EXCEPT
       !.log = @ \o SubSeq(dlog, rec.emitted + 1, Len(dlog)),
       !.emitted = Len(dlog)]
  /\ UNCHANGED <<up, meta, dlog, pend, runs>>

\* A plausible bug, for the checks: the timer is not cleared.
TailExitKeepsTailing ==
  /\ Quiescent /\ rec.tail
  /\ \E k \in Fresh \cap Exits(dlog) :
       /\ \A j \in Fresh \cap Exits(dlog) : k <= j
       /\ rec' = [rec EXCEPT
            !.log = @ \o SubSeq(dlog, rec.emitted + 1, k),
            !.emitted = k, !.status = VerdictOf(dlog[k])]
  /\ pend' = "persist"
  /\ UNCHANGED <<up, meta, dlog, runs>>

\* The first EXIT among the new lines finalizes the record (finalizeFromTail).
TailExit ==
  /\ Quiescent /\ rec.tail
  /\ \E k \in Fresh \cap Exits(dlog) :
       /\ \A j \in Fresh \cap Exits(dlog) : k <= j
       /\ rec' = [rec EXCEPT
            !.log = @ \o SubSeq(dlog, rec.emitted + 1, k),
            !.emitted = k, !.status = VerdictOf(dlog[k]), !.tail = FALSE]
  /\ pend' = "persist"
  /\ UNCHANGED <<up, meta, dlog, runs>>

\* The file is shorter than what was counted: stop tailing, decide nothing.
TailTruncated ==
  /\ Quiescent /\ rec.tail
  /\ Len(dlog) < rec.emitted
  /\ rec' = [rec EXCEPT !.tail = FALSE]
  /\ UNCHANGED <<up, meta, dlog, pend, runs>>

\* A plausible bug, for the checks: the tail has no time limit.
TailPatient ==
  /\ Quiescent /\ rec.tail
  /\ Len(dlog) = rec.emitted
  /\ UNCHANGED <<up, rec, meta, dlog, pend, runs>>

\* Nothing new, and TAIL_MAX_WAIT_MS have passed since the tail began: the
\* file has been read, the verdict is to be written next (TailExpire); an
\* outside append may fall in between.
TailQuiet ==
  /\ Quiescent /\ rec.tail
  /\ Len(dlog) = rec.emitted
  /\ pend' = "expire"
  /\ UNCHANGED <<up, rec, meta, dlog, runs>>

TailExpire ==
  /\ up
  /\ pend = "expire"
  /\ LET all == <<Ln("text", rec.run), Ln("EXIT:1", rec.run)>>
     IN  /\ rec' = [rec EXCEPT !.log = @ \o all, !.status = "failed",
                               !.tail = FALSE]
         /\ Appends(all)
  /\ pend' = "persist"
  /\ UNCHANGED <<up, meta, runs>>

-----------------------------------------------------------------------------
(* The process dies, and boots again (onModuleInit, before it listens).      *)

Die ==
  /\ up
  /\ up' = FALSE
  /\ rec' = NoRecord
  /\ \/ UNCHANGED meta
     \/ TornWrites /\ pend = "persist" /\ meta' = [meta EXCEPT !.file = "torn"]
  /\ pend' = "none"
  /\ UNCHANGED <<dlog, runs>>

\* restoreRecord(): the record as the metadata and the log describe it
Restored ==
  [run |-> meta.run, status |-> meta.status, log |-> dlog,
   selfUpdate |-> meta.selfUpdate, target |-> meta.target,
   tail |-> FALSE, emitted |-> 0]

BootNothing ==                      \* no metadata, or it does not parse
  /\ ~up /\ up' = TRUE
  /\ meta.file # "ok"
  /\ UNCHANGED <<rec, meta, dlog, pend, runs>>

\* A plausible bug, for the checks: the LAST verdict of the log counts.
BootReconcileLast ==
  /\ ~up /\ up' = TRUE
  /\ meta.file = "ok"
  /\ \E i \in Exits(dlog) :
       /\ \A j \in Exits(dlog) : j <= i
       /\ rec' = [Restored EXCEPT !.status = VerdictOf(dlog[i])]
  /\ UNCHANGED <<meta, dlog, pend, runs>>

BootReconcile ==                    \* the log already holds a verdict
  /\ ~up /\ up' = TRUE
  /\ meta.file = "ok"
  /\ \E i \in DOMAIN dlog :
       /\ FirstExit(dlog, i)
       /\ rec' = [Restored EXCEPT !.status = VerdictOf(dlog[i])]
  /\ UNCHANGED <<meta, dlog, pend, runs>>

BootDecided ==                      \* the metadata holds it, the log does not
  /\ ~up /\ up' = TRUE
  /\ meta.file = "ok"
  /\ Exits(dlog) = {}
  /\ meta.status # "running"
  /\ rec' = Restored
  /\ UNCHANGED <<meta, dlog, pend, runs>>

\* A plausible bug, for the checks: the log is not looked at.
InterruptedUnread(why) ==
  /\ ~up /\ up' = TRUE
  /\ meta.file = "ok"
  /\ meta.status = "running"
  /\ rec' = Restored
  /\ pend' = why
  /\ UNCHANGED <<meta, dlog, runs>>

\* The log has been read and holds no verdict; `why' is what is due next.
Interrupted(why) ==
  /\ ~up /\ up' = TRUE
  /\ meta.file = "ok"
  /\ Exits(dlog) = {}
  /\ meta.status = "running"
  /\ rec' = Restored
  /\ pend' = why
  /\ UNCHANGED <<meta, dlog, runs>>

BootVerified(v) ==                  \* a self update, and its version booted
  /\ meta.selfUpdate /\ meta.target = v
  /\ Interrupted("verified")

BootFailed ==                       \* an ordinary deploy, cut short
  /\ ~meta.selfUpdate
  /\ Interrupted("interrupted")

\* ... then a line that says why, and finish()
BootFinish ==
  /\ up
  /\ pend \in {"verified", "interrupted"}
  /\ LET code == IF pend = "verified" THEN 0 ELSE 1
         all  == <<Ln("text", rec.run), ExitLine(code, rec.run)>>
     IN  /\ rec' = [rec EXCEPT !.log = @ \o all, !.status = VerdictOfCode(code)]
         /\ Appends(all)
  /\ pend' = "persist"
  /\ UNCHANGED <<up, meta, runs>>

\* Plausible bugs, for the checks: no timer; a log that ends is tailed.
BootUntailed(v) ==
  /\ ~up /\ up' = TRUE
  /\ meta.file = "ok"
  /\ Exits(dlog) = {}
  /\ meta.status = "running"
  /\ meta.selfUpdate /\ meta.target # v
  /\ rec' = Restored
  /\ UNCHANGED <<meta, dlog, pend, runs>>

BootTailBlind(v) ==
  /\ ~up /\ up' = TRUE
  /\ meta.file = "ok"
  /\ meta.status = "running"
  /\ meta.selfUpdate /\ meta.target # v
  /\ rec' = [Restored EXCEPT !.tail = TRUE, !.emitted = Len(dlog)]
  /\ UNCHANGED <<meta, dlog, pend, runs>>

BootTail(v) ==                      \* a self update still in other hands
  /\ ~up /\ up' = TRUE
  /\ meta.file = "ok"
  /\ Exits(dlog) = {}
  /\ meta.status = "running"
  /\ meta.selfUpdate /\ meta.target # v
  /\ rec' = [Restored EXCEPT !.tail = TRUE, !.emitted = Len(dlog)]
  /\ UNCHANGED <<meta, dlog, pend, runs>>

Boot(v) ==
  \/ BootNothing \/ BootReconcile \/ BootDecided
  \/ BootVerified(v) \/ BootTail(v) \/ BootFailed

-----------------------------------------------------------------------------
\* Another process appends one complete line to deploy.log.
ExternalAppend(l) ==
  /\ dlog' = Append(dlog, l)
  /\ UNCHANGED <<up, rec, meta, pend, runs>>

Tick == TailEmit \/ TailExit \/ TailTruncated \/ TailQuiet \/ TailExpire

StoreInit ==
  /\ up = TRUE
  /\ rec = NoRecord
  /\ meta = NoMeta
  /\ dlog = <<>>
  /\ pend = "none"
  /\ runs = 0
  /\ seen = [r \in Runs |-> "unknown"]

\* What the service says before it finishes a run: nothing, or one line more.
Preamble == {<<>>, <<Ln("text", rec.run)>>}

\* Room for chatter (bound).
Room == Len(dlog) < MaxLog /\ Len(rec.log) < MaxLog

\* What the store writes of its own accord, and chatter, its own or another's.
StoreWork ==
  \/ PersistMeta
  \/ Start
  \/ \E c \in {0, 1}, ls \in Preamble : Finish(ls, c)
  \/ \E v \in Versions : SetSelfUpdate(v)
  \/ Tick
  \/ Die
  \/ \E v \in Versions : Boot(v)
  \/ BootFinish

Chatter ==
  \/ \E t \in Texts : AppendLines(<<Ln(t, rec.run)>>)
  \/ \E ls \in Preamble : StartTail(ls)
  \/ \E l \in Line : ExternalAppend(l)

StoreNext == (StoreWork \/ (Room /\ Chatter)) /\ Observe

\* The store without the bound: any log may grow by one more line.
AnyLengthNext == (StoreWork \/ Chatter) /\ Observe

StoreOfAnyLength == StoreInit /\ [][AnyLengthNext]_storeVars

StoreSpec == StoreInit /\ [][StoreNext]_storeVars

-----------------------------------------------------------------------------
TypeOK ==
  /\ up \in BOOLEAN
  /\ rec \in Record
  /\ meta \in Meta
  /\ dlog \in Seq(Line)
  /\ pend \in {"none", "persist", "expire", "verified", "interrupted"}
  /\ runs \in 0..MaxRuns
  /\ seen \in [Runs -> {"unknown"} \cup Status]

(* A verdict the service announces for the release's latest run can be       *)
(* read back from the durable log: finish() appends EXIT before it sets the  *)
(* status, finalizeFromTail() and restoreRecord() take the status from a     *)
(* line that is there.  An older run is excepted: when start() is cut off    *)
(* between the truncation and persistMeta, the old metadata outlive the log. *)
VerdictDurable ==
  (HasRecord /\ rec.run = runs /\ rec.status \in Final) =>
    \E i \in Exits(dlog) : VerdictOf(dlog[i]) = rec.status

(* The same of the metadata file, which is written last: a crash before      *)
(* persistMeta leaves the verdict in the log only, never the reverse.        *)
MetaFollowsLog ==
  (meta.file = "ok" /\ meta.run = runs /\ meta.status \in Final) =>
    \E i \in Exits(dlog) : VerdictOf(dlog[i]) = meta.status

(* The tailer counts lines instead of locating them, so it is sound only     *)
(* while the file has at least as many lines as memory: otherwise the tick   *)
(* takes the file for a truncated one and gives the record up.               *)
TailWithinLog == rec.tail => rec.emitted <= Len(dlog)

(* An announced verdict is never taken back while the process lives, and     *)
(* only start() opens a new run: no tail tick, finish or late append of      *)
(* another process reaches a decided record.                                 *)
DecidedIsFinal ==
  [][(HasRecord /\ rec.status \in Final /\ up') =>
       \/ rec' = rec
       \/ rec'.run > rec.run /\ rec'.status = "running"]_storeVars

==============================================================================
