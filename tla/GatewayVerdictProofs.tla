------------------------ MODULE GatewayVerdictProofs ------------------------
(***************************************************************************)
(* Proofs about what the callers of the gateway are told: DeployGateway    *)
(* implements DeployVerdict, and a success is one that was deployed.       *)
(***************************************************************************)
EXTENDS DeployGatewayProofs

-----------------------------------------------------------------------------
(* Part 1: what the metadata and the log say of what callers have seen     *)

\* No run is seen before it starts, or running after the next one started.
UnseenAhead   == \A r \in Runs : r > runs => seen[r] = "unknown"
DecidedBefore == \A r \in Runs : r < runs => seen[r] # "running"

\* What is seen can be restored: a latest run that is seen running is in the
\* metadata, one that is seen decided in the first verdict of the log.
RunningInMeta ==
  (runs # 0 /\ seen[runs] = "running") => meta.file = "ok" /\ meta.run = runs
SeenInLog ==
  (runs # 0 /\ seen[runs] \in Final) =>
    \E i \in DOMAIN dlog : FirstExit(dlog, i) /\ VerdictOf(dlog[i]) = seen[runs]

\* What can be restored was seen, as it will be restored.
MetaWasSeen ==
  meta.file = "ok" =>
    seen[meta.run] # "unknown" /\ (meta.status \in Final => seen[meta.run] = meta.status)

\* Metadata that outlived the log of their run: the log is that of the next
\* run and holds no verdict yet, and they hold theirs, unless the process lives
\* to overwrite them.
Outlived == meta.file = "ok" /\ meta.run # runs
OutlivedLog  == Outlived => Exits(dlog) = {}
OutlivedMeta == (Outlived /\ ~(up /\ rec.run = runs)) => meta.status \in Final

\* A record of an earlier run is at rest, and what is due was not decided.
OldAtRest == (HasRecord /\ rec.run # runs) => rec.status \in Final /\ pend = "none"
DueUndecided ==
  /\ pend \in {"expire", "verified", "interrupted"} => seen[rec.run] = "running"
  /\ pend = "persist" =>
       \/ seen[rec.run] = "running"
       \/ seen[rec.run] = "unknown" /\ rec.status = "running"

SeenInv ==
  /\ MetaCurrent /\ UnseenAhead /\ DecidedBefore /\ RunningInMeta /\ SeenInLog
  /\ MetaWasSeen /\ OutlivedLog /\ OutlivedMeta /\ OldAtRest /\ DueUndecided

\* A process that dies between the truncation of the log and the metadata of
\* the new run leaves metadata that hold the verdict of the old one.
NoStaleRestart ==
  (up /\ ~up') => ~(/\ pend = "persist" /\ meta.file = "ok"
                    /\ meta.run # rec.run /\ meta.status = "running")

-----------------------------------------------------------------------------
(* Part 2: the store's steps, for what callers see                         *)

\* The service works on the run it has.
Works ==
  /\ up /\ up' /\ IsRunning /\ UNCHANGED <<meta, runs>> /\ rec'.run = rec.run
  /\ \/ pend = "none" /\ pend' \in {"none", "persist", "expire"}
        /\ rec'.status = "running"
     \/ pend # "persist" /\ pend' = "persist" /\ rec'.status \in Final

LEMMA WorkSteps ==
  ASSUME StoreInv,
         \/ \E ls : AppendLines(ls) \/ StartTail(ls)
         \/ \E ls, c : Finish(ls, c)
         \/ \E v : SetSelfUpdate(v)
         \/ Tick \/ BootFinish
  PROVE  Works
<1> USE DEF Works, Free, Quiescent
<1>1. ASSUME NEW ls, AppendLines(ls) PROVE Works
  BY <1>1, AppendEffect DEF SameRun, IsRunning
<1>2. ASSUME NEW ls, StartTail(ls) PROVE Works
  BY <1>2, StartTailEffect
<1>3. ASSUME NEW ls, NEW c, Finish(ls, c) PROVE Works
  BY <1>3, FinishEffect
<1>6. ASSUME NEW v, SetSelfUpdate(v) PROVE Works
  BY <1>6, SelfUpdateEffect
<1>4. CASE Tick
  <2>1. IsRunning /\ rec.status = "running"
    BY <1>4, TimerEffect DEF Tick, StoreInv, Coherent, IsRunning, HasRecord
  <2>2. TailExit \/ TailExpire => pend # "persist"
    BY DEF TailExit, TailExpire
  <2> QED
    BY <1>4, <2>1, <2>2, TimerEffect DEF Tick, SameRun
<1>5. CASE BootFinish
  BY <1>5, BootFinishEffect DEF IsRunning, HasRecord
<1> QED
  BY <1>1, <1>2, <1>3, <1>4, <1>5, <1>6

LEMMA OwnUseSteps ==
  ASSUME StoreInv, OwnUse, Quiet => FALSE
  PROVE  Works \/ PersistMeta \/ Start \/ Die \/ \E v : Boot(v)
BY WorkSteps DEF OwnUse, StoreWork

LEMMA SeenInit == GatewayInit => SeenInv
BY DEF GatewayInit, StoreInit, NoRecord, NoMeta, MetaOf, SeenInv, MetaCurrent,
       UnseenAhead, DecidedBefore, RunningInMeta, SeenInLog, MetaWasSeen, Outlived,
       OutlivedLog, OutlivedMeta, OldAtRest, DueUndecided, HasRecord, Final

\* The types the steps below go by.
LEMMA SeenTypes ==
  ASSUME StoreInv
  PROVE  /\ seen \in [Runs -> {"unknown", "running", "completed", "failed"}]
         /\ runs \in Nat /\ runs <= MaxRuns /\ MaxRuns \in Nat
         /\ rec.run \in Nat /\ rec.run <= runs /\ meta.run \in Nat /\ meta.run <= runs
         /\ HasRecord => rec.run \in Runs
         /\ meta.file = "ok" => meta.run \in Runs
         /\ runs # 0 => runs \in Runs
         /\ rec.status \in {"running", "completed", "failed"}
         /\ meta.status \in {"running", "completed", "failed"}
         /\ \A r \in Runs : r \in Nat
         /\ pend # "none" => HasRecord
BY StoreAssumption
DEF StoreInv, TypeOK, Coherent, Record, Meta, Status, Final, Runs, HasRecord

\* The verdict to be seen is that of the run the record has.
Seeing == up' /\ pend' = "none" /\ rec'.run # 0

LEMMA Sees ==
  ASSUME StoreInv, StoreInv', Observe
  PROVE  /\ ~Seeing => seen' = seen
         /\ Seeing => /\ rec'.run \in Runs /\ seen'[rec'.run] = rec'.status
                      /\ \A r \in Runs : r # rec'.run => seen'[r] = seen[r]
         /\ (Seeing /\ seen[rec'.run] = rec'.status) => seen' = seen
<1>1. Seeing => rec'.run \in Runs
  BY SeenTypes, StoreAssumption DEF Seeing, StoreInv, TypeOK, Record, Runs
<1> QED
  BY <1>1, SeenTypes DEF Seeing, Observe

LEMMA WorksSeen ==
  ASSUME StoreInv, StoreInv', SeenAgrees, SeenInv, Works, Observe
  PROVE  SeenInv' /\ seen' = seen
<1> USE DEF Works, IsRunning, HasRecord
<1>1. /\ rec.run = runs /\ meta.file = "ok" /\ meta.run = runs /\ pend # "persist"
      /\ runs \in Runs
  BY SeenTypes DEF SeenInv, OldAtRest, MetaCurrent, Final
<1>2. seen[runs] = "running"
  BY <1>1 DEF SeenAgrees, SeenInv, DueUndecided, StoreInv, TypeOK
<1>3. seen' = seen
  BY <1>1, <1>2, Sees DEF Seeing
<1> QED
  BY <1>1, <1>2, <1>3
  DEF SeenInv, MetaCurrent, UnseenAhead, DecidedBefore, RunningInMeta, SeenInLog,
      MetaWasSeen, Outlived, OutlivedLog, OutlivedMeta, OldAtRest, DueUndecided, Final

LEMMA StartSeen ==
  ASSUME StoreInv, StoreInv', SeenAgrees, SeenInv, ~LostWrites, Start, Observe
  PROVE  SeenInv' /\ seen' = seen
<1>1. /\ Quiescent /\ ~IsRunning /\ UNCHANGED <<up, meta>>
      /\ pend' = "persist" /\ runs' = runs + 1 /\ rec'.run = runs + 1
      /\ rec'.status = "running" /\ dlog' = <<>>
  BY StartEffect DEF Start
<1>2. seen' = seen /\ runs + 1 \in Runs
  BY <1>1, Sees, SeenTypes, StoreAssumption DEF Seeing, StoreInv, TypeOK, Runs
<1>3. seen[runs + 1] = "unknown"
  BY <1>2, SeenTypes DEF SeenInv, UnseenAhead
<1>4. Exits(dlog') = {}
  BY <1>1 DEF Exits
<1>5. runs # 0 => seen[runs] # "running"
  BY <1>1, SeenTypes
  DEF SeenInv, RunningInMeta, MetaCurrent, SeenAgrees, Quiescent, IsRunning, HasRecord
<1>6. UnseenAhead' /\ DecidedBefore'
  <2>1. runs \in Nat /\ \A r \in Runs : r \in Nat /\ r > 0
    BY SeenTypes DEF Runs
  <2>2. \A r \in Runs : r > runs + 1 => r > runs
    BY <2>1
  <2>3. \A r \in Runs : r < runs + 1 => r < runs \/ (r = runs /\ runs # 0)
    BY <2>1
  <2> QED
    BY <1>1, <1>2, <1>5, <2>2, <2>3 DEF SeenInv, UnseenAhead, DecidedBefore
<1> QED
  BY <1>1, <1>2, <1>3, <1>4, <1>6
  DEF SeenInv, MetaCurrent, RunningInMeta, SeenInLog, MetaWasSeen, Outlived,
      OutlivedLog, OutlivedMeta, OldAtRest, DueUndecided, HasRecord, Final, Quiescent

\* The three things that callers can see happen.
LEMMA AcceptSeen ==
  ASSUME StoreInv, NEW r \in Runs, seen[r] = "unknown",
         \A q \in Runs : seen[q] # "running",
         \A q \in Runs : q > r => seen[q] = "unknown",
         seen'[r] = "running", \A q \in Runs : q # r => seen'[q] = seen[q],
         StoreInv'
  PROVE  Verdict!VerdictNext
<1>1. seen' = [seen EXCEPT ![r] = "running"]
  BY SeenTypes DEF StoreInv, TypeOK
<1> QED
  BY <1>1 DEF Verdict!VerdictNext, Verdict!Accept, Verdict!Runs, Runs

LEMMA DecideSeen ==
  ASSUME StoreInv, NEW r \in Runs, seen[r] = "running",
         seen'[r] \in Final, \A q \in Runs : q # r => seen'[q] = seen[q],
         StoreInv'
  PROVE  Verdict!VerdictNext
<1>1. seen' = [seen EXCEPT ![r] = seen'[r]]
  BY SeenTypes DEF StoreInv, TypeOK
<1> QED
  BY <1>1 DEF Verdict!VerdictNext, Verdict!Decide, Verdict!Runs, Verdict!Final, Runs, Final

LEMMA SaveSeen ==
  ASSUME StoreInv, StoreInv', SeenInv, LogDecides, ~LostWrites, PersistMeta, Observe
  PROVE  SeenInv' /\ [Verdict!VerdictNext]_seen
<1>1. /\ up /\ up' /\ pend = "persist" /\ pend' = "none" /\ UNCHANGED <<rec, dlog, runs>>
      /\ meta' = MetaOf(rec)
  BY DEF PersistMeta
<1>2. rec.run = runs /\ runs \in Runs
  BY <1>1, SeenTypes DEF SeenInv, OldAtRest, HasRecord
<1>3. meta'.file = "ok" /\ meta'.run = runs /\ meta'.status = rec.status
  BY <1>1, <1>2 DEF MetaOf
<1>4. /\ seen'[runs] = rec.status /\ rec.status \in {"running", "completed", "failed"}
      /\ \A r \in Runs : r # runs => seen'[r] = seen[r]
  BY <1>1, <1>2, Sees, SeenTypes DEF Seeing, Runs
<1>5. [Verdict!VerdictNext]_seen
  <2>1. CASE seen[runs] = "running" /\ rec.status # "running"
    BY <1>2, <1>4, <2>1, DecideSeen DEF Final
  <2>2. CASE seen[runs] = "running" /\ rec.status = "running"
    BY <1>1, <1>2, <2>2, Sees DEF Seeing, Runs
  <2>3. CASE seen[runs] # "running"
    <3>1. seen[runs] = "unknown" /\ rec.status = "running"
      BY <1>1, <1>2, <2>3 DEF SeenInv, DueUndecided
    <3>2. \A q \in Runs : q \in Nat
      BY SeenTypes
    <3>3. \A q \in Runs : seen[q] # "running"
      <4>1. \A q \in Runs : q > runs \/ q < runs \/ q = runs
        BY <1>2, <3>2
      <4> QED
        BY <2>3, <4>1 DEF SeenInv, UnseenAhead, DecidedBefore
    <3> QED
      BY <1>2, <1>4, <3>1, <3>3, AcceptSeen DEF SeenInv, UnseenAhead
  <2> QED
    BY <2>1, <2>2, <2>3
<1>6. SeenInLog'
  BY <1>1, <1>2, <1>4 DEF LogDecides, SeenInLog, HasRecord, Runs, FirstExit, Exits
<1>7. UnseenAhead' /\ DecidedBefore'
  <2>1. \A r \in Runs : (r > runs \/ r < runs) => r # runs
    BY <1>2 DEF Runs
  <2> QED
    BY <1>1, <1>4, <2>1 DEF SeenInv, UnseenAhead, DecidedBefore
<1>8. HasRecord'
  BY <1>1, <1>2 DEF HasRecord, Runs
<1> QED
  BY <1>1, <1>2, <1>3, <1>4, <1>5, <1>6, <1>7, <1>8
  DEF SeenInv, MetaCurrent, RunningInMeta, MetaWasSeen, Outlived, OutlivedLog,
      OutlivedMeta, OldAtRest, DueUndecided, Final

LEMMA DieSeen ==
  ASSUME StoreInv, StoreInv', SeenInv, ~TornWrites, NoStaleRestart, Die, Observe
  PROVE  SeenInv' /\ seen' = seen
<1>1. /\ up /\ ~up' /\ pend' = "none" /\ rec'.run = 0 /\ UNCHANGED <<meta, dlog, runs>>
  BY DEF Die, NoRecord
<1>2. seen' = seen
  BY <1>1, Sees DEF Seeing
<1>3. OutlivedMeta'
  <2> SUFFICES ASSUME Outlived PROVE meta.status \in Final
    BY <1>1 DEF Outlived, OutlivedMeta
  <2>1. CASE rec.run = runs
    <3>1. pend = "persist"
      BY <1>1, <2>1, SeenTypes DEF SeenInv, MetaCurrent, Outlived, HasRecord, Runs
    <3> QED
      BY <1>1, <2>1, <3>1, SeenTypes DEF NoStaleRestart, Outlived, Final
  <2>2. CASE rec.run # runs
    BY <2>2 DEF SeenInv, OutlivedMeta
  <2> QED
    BY <2>1, <2>2
<1> QED
  BY <1>1, <1>2, <1>3
  DEF SeenInv, MetaCurrent, UnseenAhead, DecidedBefore, RunningInMeta, SeenInLog,
      MetaWasSeen, Outlived, OutlivedLog, OldAtRest, DueUndecided, HasRecord, FirstExit,
      Exits

\* An outside process appends, once the metadata of the run are written.
LEMMA OutsideSeen ==
  ASSUME StoreInv, StoreInv', SeenAgrees, SeenInv, NEW l \in Line, ExternalAppend(l),
         Observe, ~Outlived
  PROVE  SeenInv' /\ seen' = seen
<1>1. UNCHANGED <<up, rec, meta, pend, runs>> /\ dlog' = Append(dlog, l)
  BY DEF ExternalAppend
<1>2. seen' = seen
  BY <1>1, Sees DEF Seeing, SeenAgrees, HasRecord
<1>3. SeenInLog'
  <2>1. dlog \in Seq(Line) /\ <<l>> \in Seq(Line)
    BY DEF StoreInv, TypeOK
  <2>2. dlog' = dlog \o <<l>>
    BY <1>1, <2>1, AppendIsConcat
  <2>3. \A i : FirstExit(dlog, i) => FirstExit(dlog', i) /\ dlog'[i] = dlog[i]
    BY <2>1, <2>2, GrownExits
  <2>4. \A i : FirstExit(dlog', i) => i \in DOMAIN dlog'
    BY DEF FirstExit, Exits
  <2> QED
    BY <1>1, <1>2, <2>3, <2>4 DEF SeenInv, SeenInLog
<1>4. ~Outlived'
  BY <1>1 DEF Outlived
<1> QED
  BY <1>1, <1>2, <1>3, <1>4
  DEF SeenInv, MetaCurrent, UnseenAhead, DecidedBefore, RunningInMeta, MetaWasSeen,
      OutlivedLog, OutlivedMeta, OldAtRest, DueUndecided, HasRecord

\* A boot tells callers what they have seen, or decides what was running.
LEMMA BootSeen ==
  ASSUME StoreInv, StoreInv', SeenInv, NEW v, Boot(v), Observe
  PROVE  SeenInv' /\ [Verdict!VerdictNext]_seen
<1>1. ~up /\ up' /\ UNCHANGED <<meta, dlog, runs>>
  BY BootEffect
<1>2. CASE BootNothing
  <2>1. meta.file # "ok" /\ rec'.run = 0 /\ pend' = "none"
    BY <1>2 DEF BootNothing, StoreInv, Coherent
  <2>2. seen' = seen
    BY <2>1, Sees DEF Seeing
  <2> QED
    BY <1>1, <2>1, <2>2
    DEF SeenInv, MetaCurrent, UnseenAhead, DecidedBefore, RunningInMeta, SeenInLog,
        MetaWasSeen, Outlived, OutlivedLog, OutlivedMeta, OldAtRest, DueUndecided,
        HasRecord, FirstExit, Exits
<1>3. ASSUME ~BootNothing
      PROVE  /\ meta.file = "ok" /\ rec'.run = meta.run /\ meta.run \in Runs /\ HasRecord'
             /\ pend' \in {"none", "verified", "interrupted"}
             /\ meta.run # runs => Exits(dlog) = {} /\ meta.status \in Final
             /\ seen[meta.run] \in {"running", "completed", "failed"}
             /\ (meta.run = runs /\ seen[meta.run] # "running") =>
                  \E i \in DOMAIN dlog :
                    FirstExit(dlog, i) /\ VerdictOf(dlog[i]) = seen[meta.run]
  <2>1. meta.file = "ok" /\ rec'.run = meta.run /\ meta.run \in Runs
        /\ pend' \in {"none", "verified", "interrupted"}
    BY <1>3, BootEffect, SeenTypes
  <2>2. HasRecord'
    BY <2>1 DEF HasRecord, Runs
  <2>3. seen[meta.run] \in {"running", "completed", "failed"}
    BY <2>1, SeenTypes DEF SeenInv, MetaWasSeen
  <2>4. meta.run # runs => Exits(dlog) = {} /\ meta.status \in Final
    BY <1>1, <2>1 DEF SeenInv, Outlived, OutlivedLog, OutlivedMeta
  <2>5. (meta.run = runs /\ seen[meta.run] # "running") =>
          \E i \in DOMAIN dlog : FirstExit(dlog, i) /\ VerdictOf(dlog[i]) = seen[meta.run]
    BY <2>1, <2>3 DEF SeenInv, SeenInLog, Final, Runs
  <2> QED
    BY <2>1, <2>2, <2>3, <2>4, <2>5
\* What is left to show: what is seen of the run, and where.
<1>4. ASSUME ~BootNothing,
             \/ seen' = seen
             \/ /\ seen[meta.run] = "running" /\ seen'[meta.run] \in Final
                /\ \A r \in Runs : r # meta.run => seen'[r] = seen[r],
             meta.status \in Final => seen' = seen,
             meta.run = runs /\ seen' # seen =>
               \E i \in DOMAIN dlog :
                 FirstExit(dlog, i) /\ VerdictOf(dlog[i]) = seen'[meta.run],
             meta.run # runs => rec'.status \in Final /\ pend' = "none",
             pend' # "none" => seen[meta.run] = "running" /\ seen' = seen
      PROVE  SeenInv' /\ [Verdict!VerdictNext]_seen
  <2>1. [Verdict!VerdictNext]_seen
    BY <1>3, <1>4, DecideSeen
  <2>2. \A r \in Runs : seen'[r] = seen[r] \/ (r = meta.run /\ seen'[r] \in Final /\ seen[r] = "running")
    BY <1>4
  <2>3. UnseenAhead' /\ DecidedBefore'
    BY <1>1, <1>3, <2>2 DEF SeenInv, UnseenAhead, DecidedBefore, Final
  <2>4. RunningInMeta'
    BY <1>1, <1>3, <2>2, SeenTypes DEF SeenInv, RunningInMeta, Final
  <2>5. SeenInLog'
    <3> SUFFICES ASSUME runs # 0, seen'[runs] \in Final
                 PROVE  \E i \in DOMAIN dlog :
                          FirstExit(dlog, i) /\ VerdictOf(dlog[i]) = seen'[runs]
      BY <1>1 DEF SeenInLog, FirstExit, Exits
    <3>1. CASE seen' = seen
      BY <3>1 DEF SeenInv, SeenInLog
    <3>2. CASE seen' # seen
      <4>1. runs \in Runs
        BY SeenTypes
      <4>2. CASE meta.run = runs
        BY <1>4, <3>2, <4>2
      <4>3. CASE meta.run # runs
        BY <1>4, <3>2, <4>1, <4>3 DEF SeenInv, SeenInLog
      <4> QED
        BY <4>2, <4>3
    <3> QED
      BY <3>1, <3>2
  <2>6. MetaWasSeen'
    BY <1>1, <1>3, <1>4 DEF SeenInv, MetaWasSeen, Final
  <2>7. OutlivedLog' /\ OutlivedMeta'
    BY <1>1, <1>3, <1>4 DEF Outlived, OutlivedLog, OutlivedMeta, Exits
  <2>8. MetaCurrent' /\ OldAtRest'
    BY <1>1, <1>3, <1>4 DEF MetaCurrent, OldAtRest
  <2>9. DueUndecided'
    BY <1>3, <1>4 DEF DueUndecided
  <2> QED
    BY <2>1, <2>3, <2>4, <2>5, <2>6, <2>7, <2>8, <2>9 DEF SeenInv
<1>5. CASE BootReconcile
  <2>1. PICK i \in DOMAIN dlog :
          FirstExit(dlog, i) /\ rec' = [Restored EXCEPT !.status = VerdictOf(dlog[i])]
    BY <1>5 DEF BootReconcile
  <2>2. /\ rec'.status = VerdictOf(dlog[i]) /\ rec'.status \in Final
        /\ meta.file = "ok" /\ pend' = "none"
    BY <1>5, <2>1 DEF BootReconcile, Restored, StoreInv, Coherent, VerdictOf, Final
  <2>3. ~BootNothing
    BY <2>2 DEF BootNothing
  <2>4. meta.run = runs
    BY <1>3, <2>1, <2>3 DEF FirstExit
  <2>5. /\ seen'[meta.run] = rec'.status
        /\ \A r \in Runs : r # meta.run => seen'[r] = seen[r]
        /\ seen[meta.run] = rec'.status => seen' = seen
    BY <1>1, <1>3, <2>2, <2>3, Sees DEF Seeing, HasRecord
  <2>6. seen[meta.run] # "running" => seen[meta.run] = rec'.status
    <3> SUFFICES ASSUME seen[meta.run] # "running" PROVE seen[meta.run] = VerdictOf(dlog[i])
      BY <2>2
    <3>1. PICK j \in DOMAIN dlog : FirstExit(dlog, j) /\ VerdictOf(dlog[j]) = seen[meta.run]
      BY <1>3, <2>3, <2>4
    <3>2. i = j
      <4>1. i \in Nat /\ j \in Nat
        BY LenProperties DEF StoreInv, TypeOK
      <4> QED
        BY <2>1, <3>1, <4>1 DEF FirstExit
    <3> QED
      BY <3>1, <3>2
  <2>7. meta.status \in Final => seen' = seen
    BY <2>2, <2>5, <2>6 DEF SeenInv, MetaWasSeen, Final
  <2> QED
    BY <1>4, <2>1, <2>2, <2>3, <2>4, <2>5, <2>6, <2>7
<1>6. CASE BootDecided
  <2>1. /\ rec'.status = meta.status /\ meta.status \in Final /\ pend' = "none"
        /\ meta.file = "ok"
    BY <1>6, SeenTypes DEF BootDecided, Restored, StoreInv, Coherent, Final
  <2>2. ~BootNothing
    BY <2>1 DEF BootNothing
  <2>3. seen[meta.run] = rec'.status
    BY <2>1 DEF SeenInv, MetaWasSeen
  <2>4. seen' = seen
    BY <1>1, <1>3, <2>1, <2>2, <2>3, Sees DEF Seeing, HasRecord
  <2> QED
    BY <1>4, <2>1, <2>2, <2>4
<1>7. CASE BootVerified(v) \/ BootTail(v) \/ BootFailed
  <2>1. meta.status = "running" /\ Exits(dlog) = {} /\ meta.file = "ok"
    BY <1>7 DEF BootVerified, BootTail, BootFailed, Interrupted
  <2>2. ~BootNothing
    BY <2>1 DEF BootNothing
  <2>3. meta.run = runs
    BY <1>3, <2>1, <2>2 DEF Final
  <2>4. seen[meta.run] = "running"
    BY <1>3, <2>1, <2>2, <2>3 DEF FirstExit
  <2>5. pend' = "none" => rec'.status = "running"
    BY <2>1, <2>2, BootEffect DEF BootReconcile, BootDecided, FirstExit
  <2>6. seen' = seen
    BY <1>1, <1>3, <2>2, <2>4, <2>5, Sees DEF Seeing, HasRecord
  <2> QED
    BY <1>4, <2>1, <2>2, <2>3, <2>4, <2>6 DEF Final
<1> QED
  BY <1>2, <1>5, <1>6, <1>7 DEF Boot

-----------------------------------------------------------------------------
(* Part 3: the same of the gateway's steps                                 *)

\* The metadata of a run are there before anything of it is fetched ...
MetaFirst ==
  (up /\ HasRecord /\ flow # "fetch") => meta.file = "ok" /\ meta.run = rec.run

\* ... so an outside process never works for a run without metadata.
OutsideHasMeta == (runs # 0 /\ sup[runs] # "none") => ~Outlived

LEMMA AnyUse == ASSUME StoreInv, GatewayNext, installed \in {"old", "new"} PROVE Uses
BY NextGroups, PromiseUses, ServingUses, HostUses DEF Uses

\* The store's steps, as the proofs tell them apart.
LEMMA StoreSteps ==
  ASSUME StoreInv, Uses
  PROVE  \/ Quiet \/ Works \/ PersistMeta \/ Start \/ Die
         \/ (\E v : Boot(v)) \/ (\E l \in Line : ExternalAppend(l))
BY OwnUseSteps DEF Uses

LEMMA MetaMoves ==
  ASSUME StoreInv, Uses, ~LostWrites
  PROVE  meta' = meta \/ meta'.file # "ok" \/ (PersistMeta /\ meta' = MetaOf(rec))
<1>1. Works \/ Quiet \/ Start => meta' = meta
  BY DEF Works, Quiet, Start
<1>2. Die => meta' = meta \/ meta'.file # "ok"
  BY DEF Die, StoreInv, TypeOK, Meta
<1>3. PersistMeta => meta' = MetaOf(rec)
  BY DEF PersistMeta
<1>4. (\E v : Boot(v)) => meta' = meta
  BY BootEffect
<1>5. (\E l \in Line : ExternalAppend(l)) => meta' = meta
  BY DEF ExternalAppend
<1> QED
  BY <1>1, <1>2, <1>3, <1>4, <1>5, StoreSteps

\* A promise does not leave the fetch while the metadata are to be written.
LEMMA FetchWaits ==
  ASSUME GatewayInv, GatewayNext, up', pend = "persist", ~Trigger
  PROVE  flow' = flow
<1> USE DEF Then
<1>0. StoreInv
  BY DEF GatewayInv
<1>1. ~(\/ Fetched \/ Prepared \/ PreparationFails
        \/ Resolving \/ Launching \/ Commands \/ Ending)
  BY <1>0, PromiseFree DEF Free, Quiescent
<1>2. up
  BY <1>0 DEF StoreInv, Coherent
<1>3. Serving => flow' = flow
  BY <1>0, <1>2, BootEffect DEF Serving, Persist, Timer, Crash, BootUp, Die
<1>4. Hosting => flow' = flow
  BY DEF Hosting, Host
<1> QED
  BY <1>1, <1>3, <1>4, NextGroups DEF Starting

LEMMA MetaFirstStep ==
  ASSUME GatewayInv, MetaCurrent, MetaFirst, MetaCurrent', GatewayNext
  PROVE  MetaFirst'
<1>0. StoreInv /\ Uses
  BY AnyUse DEF GatewayInv, HostTypeOK
<1> SUFFICES ASSUME up', HasRecord', flow' # "fetch"
             PROVE  meta'.file = "ok" /\ meta'.run = rec'.run
  BY DEF MetaFirst
<1>1. CASE pend' # "persist"
  BY <1>1 DEF MetaCurrent
<1>2. CASE pend' = "persist"
  <2>1. ~Trigger
    BY DEF Trigger, Then
  <2>2. ~Start
    <3>1. runs' = runs /\ runs \in Nat
      BY <1>0, <2>1, RunsKept, SeenTypes
    <3>2. Start => runs' = runs + 1
      BY StartEffect
    <3> QED
      BY <3>1, <3>2
  <2>3. CASE Works
    BY <2>3, <1>2 DEF Works, MetaCurrent, IsRunning
  <2>4. CASE Quiet \/ \E l \in Line : ExternalAppend(l)
    <3>1. UNCHANGED <<up, rec, meta, pend>>
      BY <2>4 DEF Quiet, ExternalAppend
    <3>2. flow' = flow
      BY <1>2, <2>1, <3>1, FetchWaits
    <3> QED
      BY <3>1, <3>2 DEF MetaFirst, HasRecord
  <2>5. ~PersistMeta /\ ~Die /\ ~\E v : Boot(v)
    BY <1>0, <1>2, BootEffect DEF PersistMeta, Die
  <2> QED
    BY <1>0, <2>2, <2>3, <2>4, <2>5, StoreSteps
<1> QED
  BY <1>1, <1>2

\* The outside process of the latest run begins when its promise says so.
LEMMA OutsideBegins ==
  ASSUME GatewayInv, Places, NoRace, GatewayNext, runs \in Runs,
         sup[runs] = "none", sup'[runs] # "none"
  PROVE  flow \notin {"idle", "fetch"} \/ (Free /\ flow # "idle")
<1> USE DEF Then, Same, hostVars
<1>0. StoreInv /\ HostTypeOK
  BY DEF GatewayInv
<1>1. ~Trigger
  BY DEF Trigger
<1>2. CASE \/ Fetched \/ Prepared \/ PreparationFails
           \/ Resolving \/ Launching \/ Commands \/ Ending
  <2>1. flow # "idle"
    BY <1>2
    DEF Fetched, Prepared, PreparationFails, Resolving, Refuse, MarkSelfUpdate,
        ResolveOther, Launching, Stage, Launched, LaunchFails, ModeChangeAlone,
        RedeployAlone, Commands, Output, TeardownDone, TeardownFails, Unhandled,
        Installs, DeployDone, DeployFails, RollbackDone, KilledInSwap, Ending, Save,
        SaveRename, SaveJson, SaveFails, Report, At
  <2> QED
    BY <1>0, <1>2, <2>1, PromiseFree
<1>3. CASE Serving
  BY <1>3 DEF Serving, Persist, Timer, Crash, BootUp
<1>4. ~Hosting
  <2> SUFFICES ASSUME NEW r \in Runs, HostStep(r) PROVE FALSE
    BY DEF Hosting, Host
  <2> QED
    BY <1>0, HostPlaces
<1> QED
  BY <1>1, <1>2, <1>3, <1>4, NextGroups DEF Starting

LEMMA OutsideHasMetaStep ==
  ASSUME GatewayInv, GatewayInv', Places, NoRace, MetaCurrent, OldAtRest, MetaFirst,
         OutsideHasMeta, ~LostWrites, GatewayNext
  PROVE  OutsideHasMeta'
<1>0. StoreInv /\ Uses /\ StoreInv'
  BY AnyUse DEF GatewayInv, HostTypeOK
<1> SUFFICES ASSUME runs' # 0, sup'[runs'] # "none", meta'.file = "ok"
             PROVE  meta'.run = runs'
  BY DEF OutsideHasMeta, Outlived
<1>1. CASE Trigger
  <2>1. runs' = runs + 1 /\ sup' = sup /\ runs \in Nat /\ runs < MaxRuns
    BY <1>0, <1>1, SeenTypes DEF Trigger, Start, Same, hostVars
  <2>2. runs + 1 \in Runs /\ runs + 1 > runs
    BY <2>1, StoreAssumption DEF Runs
  <2> QED
    BY <2>1, <2>2 DEF Places, Begun
<1>2. CASE ~Trigger
  <2>1. runs' = runs /\ runs \in Runs
    BY <1>0, <1>2, RunsKept, SeenTypes
  <2>2. CASE PersistMeta /\ meta' = MetaOf(rec)
    <3>1. rec.run = runs
      BY <1>0, <2>2, SeenTypes DEF OldAtRest, PersistMeta
    <3> QED
      BY <2>1, <2>2, <3>1 DEF MetaOf
  <2>3. CASE meta' = meta /\ sup[runs] # "none"
    BY <2>1, <2>3 DEF OutsideHasMeta, Outlived, Runs
  <2>4. CASE meta' = meta /\ sup[runs] = "none"
    <3>1. flow \notin {"idle", "fetch"} \/ (Free /\ flow # "idle")
      BY <2>1, <2>4, OutsideBegins
    <3>2. rec.run = runs /\ up /\ HasRecord
      BY <3>1 DEF Places, FlowIsLatest, cur, GatewayInv, FlowHasRun, IsRunning
    <3>3. meta.run = rec.run
      BY <3>1, <3>2 DEF MetaFirst, MetaCurrent, Free, Quiescent
    <3> QED
      BY <2>1, <2>4, <3>2, <3>3
  <2> QED
    BY <1>0, <2>2, <2>3, <2>4, MetaMoves
<1> QED
  BY <1>1, <1>2

\* No outside process writes to the log that metadata have outlived.
LEMMA HostUsesKnown ==
  ASSUME HostTypeOK, LogIsKept, NoLeftover, OutsideHasMeta, Hosting
  PROVE  OwnUse \/ \E l \in Line : ExternalAppend(l) /\ ~Outlived
<1>1. PICK r \in Runs : HostStep(r)
  BY DEF Hosting, Host
<1>2. \A t \in Texts : Ln(t, r) \in Line
  BY LineType
<1>3. ASSUME NEW t \in Texts, Say(t, r), r = runs, sup[r] \notin {"orphan"} \cup Ended
      PROVE  \E l \in Line : ExternalAppend(l) /\ ~Outlived
  <2>1. runs # 0 /\ sup[runs] # "none"
    BY <1>3 DEF Runs, Ended
  <2> QED
    BY <1>2, <1>3, <2>1 DEF Say, OutsideHasMeta
<1> QED
  BY <1>1, <1>3, HostSays DEF OwnUse, StoreWork, Texts

LEMMA SeenStep ==
  ASSUME GatewayInv, GatewayInv', LogDecides, SeenInv, OutsideHasMeta, LogIsKept,
         ~TornWrites, NoLeftover, NoStaleRestart, [GatewayNext]_vars
  PROVE  SeenInv' /\ [Verdict!VerdictNext]_seen
<1>0. /\ StoreInv /\ StoreInv' /\ SeenAgrees /\ HostTypeOK /\ ~LostWrites
      /\ installed \in {"old", "new"}
  BY DEF GatewayInv, HostTypeOK, LogIsKept
<1>1. ASSUME UNCHANGED storeVars PROVE SeenInv' /\ [Verdict!VerdictNext]_seen
  BY <1>1
  DEF storeVars, SeenInv, MetaCurrent, UnseenAhead, DecidedBefore, RunningInMeta,
      SeenInLog, MetaWasSeen, Outlived, OutlivedLog, OutlivedMeta, OldAtRest,
      DueUndecided, HasRecord, FirstExit, Exits
<1>2. CASE UNCHANGED vars
  BY <1>1, <1>2 DEF vars
<1>3. CASE GatewayNext
  <2>1. Observe
    BY <1>3, NextGroups
  <2>2. CASE OwnUse
    <3>1. CASE Quiet
      BY <1>0, <1>1, <2>1, <3>1, NothingNew DEF StoreInv
    <3>2. CASE Works
      BY <1>0, <2>1, <3>2, WorksSeen
    <3>3. CASE PersistMeta
      BY <1>0, <2>1, <3>3, SaveSeen
    <3>4. CASE Start
      BY <1>0, <2>1, <3>4, StartSeen
    <3>5. CASE Die
      BY <1>0, <2>1, <3>5, DieSeen
    <3>6. ASSUME NEW v, Boot(v) PROVE SeenInv' /\ [Verdict!VerdictNext]_seen
      BY <1>0, <2>1, <3>6, BootSeen
    <3> QED
      BY <1>0, <2>2, <3>1, <3>2, <3>3, <3>4, <3>5, <3>6, OwnUseSteps
  <2>3. ASSUME NEW l \in Line, ExternalAppend(l), ~Outlived
        PROVE  SeenInv' /\ [Verdict!VerdictNext]_seen
    BY <1>0, <2>1, <2>3, OutsideSeen
  <2>4. OwnUse \/ \E l \in Line : ExternalAppend(l) /\ ~Outlived
    BY <1>0, <1>3, NextGroups, PromiseUses, ServingUses, HostUsesKnown
  <2> QED
    BY <2>2, <2>3, <2>4
<1> QED
  BY <1>2, <1>3

VerdictInv == SeenInv /\ MetaFirst /\ OutsideHasMeta

LEMMA VerdictInvStep ==
  ASSUME GatewayInv, GatewayInv', LogDecides, Places, VerdictInv, LogIsKept, NoRace,
         ~TornWrites, NoLeftover, NoStaleRestart, [GatewayNext]_vars
  PROVE  VerdictInv' /\ [Verdict!VerdictNext]_seen
<1>1. SeenInv' /\ [Verdict!VerdictNext]_seen
  BY SeenStep DEF VerdictInv
<1>2. CASE GatewayNext
  BY <1>1, <1>2, MetaFirstStep, OutsideHasMetaStep DEF VerdictInv, SeenInv, LogIsKept
<1>3. CASE UNCHANGED vars
  BY <1>1, <1>3
  DEF vars, storeVars, hostVars, flowVars, VerdictInv, MetaFirst, OutsideHasMeta,
      Outlived, HasRecord
<1> QED
  BY <1>1, <1>2, <1>3

LEMMA VerdictInvInit == GatewayInit => VerdictInv
<1>1. GatewayInit => MetaFirst /\ OutsideHasMeta
  BY DEF GatewayInit, StoreInit, NoRecord, HasRecord, MetaFirst, OutsideHasMeta
<1> QED
  BY <1>1, SeenInit DEF VerdictInv

-----------------------------------------------------------------------------
(* Part 4: the gateway implements the promise made to its callers          *)

LEMMA VerdictInvariance ==
  ASSUME LogIsKept, NoRace, ~TornWrites
  PROVE  GatewaySpec /\ []NoLeftover /\ [][NoStaleRestart]_vars
           => [](GatewayInv /\ LogDecides /\ Places /\ VerdictInv)
<1>1. GatewayInv /\ GatewayInv' /\ LogDecides /\ Places /\ VerdictInv /\ NoLeftover
      /\ [GatewayNext]_vars /\ [NoStaleRestart]_vars => VerdictInv'
  <2>1. ASSUME UNCHANGED vars, VerdictInv PROVE VerdictInv'
    BY <2>1
    DEF vars, storeVars, hostVars, flowVars, VerdictInv, MetaFirst, OutsideHasMeta,
        SeenInv, MetaCurrent, UnseenAhead, DecidedBefore, RunningInMeta, SeenInLog,
        MetaWasSeen, Outlived, OutlivedLog, OutlivedMeta, OldAtRest, DueUndecided,
        HasRecord, FirstExit, Exits
  <2> QED
    BY <2>1, VerdictInvStep
<1> QED
  BY <1>1, VerdictInvInit, GatewayInvariance, PlacesInvariance, FirstVerdictCounts, PTL
  DEF GatewaySpec

\* A caller's run is accepted once, while no other run is in progress, and is
\* decided once; neither a crash nor a boot nor a supervisor takes a verdict
\* back or changes it, or forgets a run that was seen (deploy-store.ts: a
\* record survives restarts). The process must not die between the truncation
\* of the log by start() and the metadata it writes next while the metadata on
\* disk still say that the previous run is running.
THEOREM GatewayImplementsVerdict ==
  ASSUME LogIsKept, NoRace, ~TornWrites
  PROVE  GatewaySpec /\ []NoLeftover /\ [][NoStaleRestart]_vars => ImplementsVerdict
<1>1. GatewayInit => Verdict!VerdictInit
  BY DEF GatewayInit, StoreInit, Verdict!VerdictInit, Verdict!Runs, Runs
<1>2. GatewayInv /\ GatewayInv' /\ LogDecides /\ Places /\ VerdictInv /\ NoLeftover
      /\ [GatewayNext]_vars /\ [NoStaleRestart]_vars => [Verdict!VerdictNext]_seen
  <2>1. ASSUME UNCHANGED vars PROVE UNCHANGED seen
    BY <2>1 DEF vars, storeVars
  <2> QED
    BY <2>1, VerdictInvStep
<1> QED
  BY <1>1, <1>2, VerdictInvariance, PTL
  DEF GatewaySpec, ImplementsVerdict, Verdict!VerdictSpec

\* Without those premises where a release of the gateway is deployed once:
\* whatever crashes, whoever writes and however often the gateway boots.
THEOREM OneRunIsPromised ==
  ASSUME LogIsKept, NoRace, ~TornWrites, MaxRuns = 1
  PROVE  GatewaySpec => ImplementsVerdict
<1>1. GatewayInv => NoStaleRestart
  <2> SUFFICES ASSUME GatewayInv, up, pend = "persist", meta.file = "ok"
               PROVE  meta.run = rec.run
    BY DEF NoStaleRestart
  <2> QED
    BY SeenTypes DEF GatewayInv, HasRecord, Runs
<1> QED
  BY <1>1, GatewayInvariance, NoneLeft, GatewayImplementsVerdict, PTL

-----------------------------------------------------------------------------
(* Part 5: a success of an application is one that was deployed            *)

\* The log says that the run has completed.
SaysDone == \E i \in DOMAIN dlog : dlog[i].text = "EXIT:0"

\* Wherever the gateway may take a success from, it was deployed; and no other
\* application's run is marked a self update, which a boot alone completes.
Done(r) == r \in deployed
DoneInv ==
  /\ HasRecord /\ (rec.status = "completed" \/ SaysDone) => Done(rec.run)
  /\ meta.file = "ok" /\ (meta.status = "completed" \/ SaysDone) => Done(meta.run)
  /\ flow \in Late => Done(cur)
  /\ ~rec.selfUpdate /\ ~rec.tail /\ pend \notin {"verified", "expire"}
  /\ meta.file = "ok" => ~meta.selfUpdate

\* The outside process of an application can only be the deploy command of a
\* gateway that has died, which leaves the store alone.
LEMMA OrphanQuiet ==
  ASSUME HostTypeOK, Places, ~Self, Hosting
  PROVE  Quiet
<1>1. PICK r \in Runs : HostStep(r)
  BY DEF Hosting, Host
<1>2. sup[r] = "orphan"
  BY <1>1, HostPlaces DEF Places, NoneOutside, Ended, Working
<1> QED
  BY <1>1, <1>2
  DEF HostStep, HostProgress, Supervise, Restart, OrphanEnds, SupervisorDies,
      SupOutput, SupBanner, SupTeardown, SupTeardownFails, SupSwap, SupDeployed,
      SupDeployFails, SupCommit, SupCommitSwap, SupCommitState, SupCommitFails,
      SupExit0, SupExit1, SupRollback, SupNoRollback, RsBanner, RsRestart,
      RsRestartFails, RsVerified, RsMismatch, RsExit

\* What the deployment of an application does to its record.
LEMMA AppSteps ==
  ASSUME ~Self, LogIsKept, GatewayInv, Places, ~rec.tail, GatewayNext
  PROVE  \/ Quiet \/ AppendLines(One) \/ Finish(One, 1)
         \/ flow = "report" /\ Finish(<<>>, 0)
         \/ Start \/ PersistMeta \/ BootFinish \/ Die \/ Boot(installed)
<1> USE DEF Fail
<1>0. StoreInv /\ HostTypeOK
  BY DEF GatewayInv
<1>1. CASE Starting
  BY <1>1 DEF Starting, Trigger, Fetched, Prepared, PreparationFails, Quiet
<1>2. CASE Resolving
  BY <1>2 DEF Resolving, Refuse, MarkSelfUpdate, ResolveOther
<1>3. ~Launching
  BY DEF Launching, Stage, Launched, LaunchFails, ModeChangeAlone, RedeployAlone, At,
         Places, NoneOutside
<1>4. CASE Commands
  <2>1. CASE Output
    BY <2>1 DEF Output, LogIsKept, One, cur
  <2> QED
    BY <1>4, <2>1
    DEF Commands, TeardownDone, TeardownFails, Unhandled, Installs, DeployDone,
        DeployFails, RollbackDone, KilledInSwap, Quiet
<1>5. CASE Ending
  BY <1>5 DEF Ending, Save, SaveRename, SaveJson, SaveFails, Report, At, Quiet
<1>6. CASE Serving
  <2>1. ~Timer
    BY <1>0, TimerEffect DEF Timer
  <2> QED
    BY <1>6, <2>1 DEF Serving, Persist, Crash, BootUp
<1> QED
  BY <1>0, <1>1, <1>2, <1>3, <1>4, <1>5, <1>6, NextGroups, OrphanQuiet

LEMMA DeployedStays == ASSUME GatewayNext PROVE deployed \subseteq deployed'
<1>1. CASE Starting \/ Resolving \/ Launching
  BY <1>1
  DEF Starting, Trigger, Fetched, Prepared, PreparationFails, Resolving, Refuse,
      MarkSelfUpdate, ResolveOther, Launching, Stage, Launched, LaunchFails,
      ModeChangeAlone, RedeployAlone, Same, hostVars
<1>2. CASE Commands
  BY <1>2
  DEF Commands, Output, TeardownDone, TeardownFails, Unhandled, Installs, DeployDone,
      DeployFails, RollbackDone, KilledInSwap, Same, hostVars
<1>3. CASE Ending \/ Serving
  BY <1>3
  DEF Ending, Save, SaveRename, SaveJson, SaveFails, Report, Serving, Persist, Timer,
      Crash, BootUp, Same, hostVars
<1>4. CASE Hosting
  BY <1>4
  DEF Hosting, Host, HostStep, HostProgress, Supervise, Restart, OrphanEnds,
      SupervisorDies, SupOutput, SupBanner, SupTeardown, SupTeardownFails, SupSwap,
      SupDeployed, SupDeployFails, SupCommit, SupCommitSwap, SupCommitState,
      SupCommitFails, SupExit0, SupExit1, SupRollback, SupNoRollback, RsBanner,
      RsRestart, RsRestartFails, RsVerified, RsMismatch, RsExit, hostVars
<1> QED
  BY <1>1, <1>2, <1>3, <1>4, NextGroups

\* Lines without a success add none.
LEMMA NoNewSuccess ==
  ASSUME dlog \in Seq(Line), NEW b \in Seq(Line), dlog' = dlog \o b,
         \A i \in 1..Len(b) : b[i].text # "EXIT:0"
  PROVE  SaysDone' => SaysDone
<1>1. /\ Len(dlog) \in Nat /\ Len(b) \in Nat
      /\ DOMAIN dlog = 1..Len(dlog) /\ DOMAIN dlog' = 1..(Len(dlog) + Len(b))
      /\ \A i \in 1..(Len(dlog) + Len(b)) :
           dlog'[i] = IF i <= Len(dlog) THEN dlog[i] ELSE b[i - Len(dlog)]
  BY ConcatProperties, LenProperties
<1> SUFFICES ASSUME NEW i \in DOMAIN dlog', dlog'[i].text = "EXIT:0"
             PROVE  i \in DOMAIN dlog /\ dlog[i].text = "EXIT:0"
  BY DEF SaysDone
<1>2. i > Len(dlog) => i - Len(dlog) \in 1..Len(b)
  BY <1>1
<1> QED
  BY <1>1, <1>2

LEMMA FailureAdded ==
  ASSUME StoreInv, ~LostWrites, rec.run # 0,
         NEW b, b \in {<<Ln("text", rec.run)>>,
                       <<Ln("text", rec.run), ExitLine(1, rec.run)>>},
         Appends(b)
  PROVE  SaysDone' => SaysDone
<1>1. dlog \in Seq(Line) /\ rec.run \in Runs
  BY SeenTypes DEF StoreInv, TypeOK, HasRecord
<1>2. Ln("text", rec.run) \in Line /\ ExitLine(1, rec.run) \in Line
  BY <1>1, LineType, ExitLineType DEF Texts
<1>3. Ln("text", rec.run).text # "EXIT:0" /\ ExitLine(1, rec.run).text # "EXIT:0"
  BY DEF Ln, ExitLine
<1>4. b \in Seq(Line) /\ b # <<>> /\ \A i \in 1..Len(b) : b[i].text # "EXIT:0"
  <2>1. CASE b = <<Ln("text", rec.run)>>
    BY <1>2, <1>3, <2>1
  <2>2. CASE b = <<Ln("text", rec.run), ExitLine(1, rec.run)>>
    <3>1. Len(b) = 2 /\ b[1] = Ln("text", rec.run) /\ b[2] = ExitLine(1, rec.run)
      BY <2>2
    <3>2. \A i \in 1..Len(b) : i = 1 \/ i = 2
      BY <3>1
    <3> QED
      BY <1>2, <1>3, <2>2, <3>1, <3>2
  <2> QED
    BY <2>1, <2>2
<1> QED
  BY <1>1, <1>4, NoNewSuccess DEF Appends

\* Only the end of a run that was deployed adds a success to the log.
LEMMA SuccessAdded ==
  ASSUME ~Self, LogIsKept, GatewayInv, Places, MetaCurrent, DoneInv, GatewayNext
  PROVE  \/ SaysDone' => SaysDone
         \/ flow = "report" /\ Finish(<<>>, 0)
<1>0. StoreInv /\ ~LostWrites
  BY DEF GatewayInv, LogIsKept
<1>1. CASE AppendLines(One)
  BY <1>0, <1>1, FailureAdded DEF AppendLines, IsRunning, HasRecord, One
<1>2. CASE Finish(One, 1)
  <2>1. rec.run # 0 /\ Appends(Append(One, ExitLine(1, rec.run)))
    BY <1>2 DEF Finish, IsRunning, HasRecord
  <2>2. Append(One, ExitLine(1, rec.run)) = <<Ln("text", rec.run), ExitLine(1, rec.run)>>
    <3>1. Ln("text", rec.run) \in Line /\ ExitLine(1, rec.run) \in Line
      BY <1>0, <2>1, SeenTypes, LineType, ExitLineType DEF HasRecord, Texts
    <3> QED
      BY <3>1, TwoLines DEF One
  <2> QED
    BY <1>0, <2>1, <2>2, FailureAdded
<1>3. CASE BootFinish
  <2>1. rec.run # 0 /\ pend = "interrupted"
    BY <1>0, <1>3, BootFinishEffect DEF DoneInv
  <2>2. Appends(<<Ln("text", rec.run), ExitLine(1, rec.run)>>)
    BY <1>3, <2>1 DEF BootFinish
  <2> QED
    BY <1>0, <2>1, <2>2, FailureAdded
<1>4. CASE Start
  <2>1. dlog' = <<>>
    BY <1>0, <1>4 DEF Start
  <2> QED
    BY <2>1 DEF SaysDone
<1>5. CASE Quiet \/ PersistMeta \/ Die \/ Boot(installed)
  <2>1. dlog' = dlog
    BY <1>0, <1>5, BootEffect DEF Quiet, PersistMeta, Die
  <2> QED
    BY <2>1 DEF SaysDone
<1> QED
  BY <1>1, <1>2, <1>3, <1>4, <1>5, AppSteps DEF DoneInv

\* What the promise does after its deploy command concerns the same run.
LEMMA LateIsDone ==
  ASSUME GatewayInv, Places, NoRace, DoneInv, GatewayNext, flow' \in Late
  PROVE  Done(cur)'
<1> USE DEF Then, Late
<1>0. StoreInv
  BY DEF GatewayInv
<1>1. CASE DeployDone
  BY <1>1 DEF DeployDone, Done, cur
<1>2. ~Trigger
  BY DEF Trigger
<1>3. CASE ~DeployDone
  <2>1. flow \in Late
    <3>1. CASE \/ Fetched \/ Prepared \/ PreparationFails
               \/ Resolving \/ Launching \/ Commands \/ Ending
      BY <1>3, <3>1
      DEF Fetched, Prepared, PreparationFails, Fail, Resolving, Refuse, MarkSelfUpdate,
          ResolveOther, Launching, Stage, Launched, LaunchFails, ModeChangeAlone,
          RedeployAlone, Commands, Output, TeardownDone, TeardownFails, Unhandled,
          Installs, DeployFails, RollbackDone, KilledInSwap, Ending, Save, SaveRename,
          SaveJson, SaveFails, Report, At
    <3>2. CASE Serving \/ Hosting
      BY <3>2 DEF Serving, Persist, Timer, Crash, BootUp, Hosting, Host
    <3> QED
      BY <1>2, <3>1, <3>2, NextGroups DEF Starting
  <2>2. flow' # "idle"
    OBVIOUS
  <2>3. rec'.run = rec.run
    <3>1. CASE \/ Fetched \/ Prepared \/ PreparationFails
               \/ Resolving \/ Launching \/ Commands \/ Ending
      BY <2>2, <3>1, PromiseEffect DEF GoesOn, EndsRun, HandsOver, Dies
    <3>2. CASE Serving
      BY <1>0, <2>2, <3>2, TimerEffect, BootFinishEffect
      DEF Serving, Persist, PersistMeta, Timer, Crash, BootUp
    <3>3. CASE Hosting
      BY <2>2, <3>3, HostEffect DEF Hosting, Host, Quiet, Die, ExternalAppend
    <3> QED
      BY <1>2, <3>1, <3>2, <3>3, NextGroups DEF Starting
  <2> QED
    BY <2>1, <2>3, DeployedStays DEF DoneInv, Done, cur
<1> QED
  BY <1>1, <1>3

LEMMA DoneInvStep ==
  ASSUME ~Self, LogIsKept, NoRace, GatewayInv, Places, MetaCurrent, DoneInv,
         [GatewayNext]_vars
  PROVE  DoneInv'
<1>0. StoreInv /\ ~LostWrites
  BY DEF GatewayInv, LogIsKept
<1>1. CASE UNCHANGED vars
  BY <1>1
  DEF vars, storeVars, hostVars, flowVars, DoneInv, HasRecord, SaysDone, Done, cur
<1>2. CASE GatewayNext
  <2>1. deployed \subseteq deployed' /\ (flow' \in Late => Done(cur)')
    BY <1>2, DeployedStays, LateIsDone
  <2>2. SaysDone' => SaysDone \/ (flow = "report" /\ Finish(<<>>, 0))
    BY <1>2, SuccessAdded
  <2>3. CASE Quiet \/ AppendLines(One)
    <3>1. UNCHANGED <<up, meta, pend>> /\ rec'.run = rec.run /\ rec'.status = rec.status
          /\ rec'.tail = rec.tail /\ rec'.selfUpdate = rec.selfUpdate
      BY <1>0, <2>3, AppendEffect DEF Quiet, SameRun
    <3>2. ~Finish(<<>>, 0) \/ rec'.status # rec.status
      BY <1>0, FinishEffect DEF Free, IsRunning, Final
    <3> QED
      BY <2>1, <2>2, <3>1, <3>2 DEF DoneInv, HasRecord, Done
  <2>4. CASE Finish(One, 1)
    <3>1. /\ UNCHANGED <<up, meta>> /\ pend' = "persist" /\ rec'.run = rec.run
          /\ rec'.status = "failed" /\ ~rec'.tail /\ rec'.selfUpdate = rec.selfUpdate
      BY <1>0, <2>4, FinishEffect DEF VerdictOfCode
    <3>2. ~Finish(<<>>, 0)
      <4>1. Finish(<<>>, 0) => rec'.status = "completed"
        BY <1>0, FinishEffect DEF VerdictOfCode
      <4> QED
        BY <3>1, <4>1
    <3> QED
      BY <2>1, <2>2, <3>1, <3>2 DEF DoneInv, HasRecord, Done
  <2>5. CASE flow = "report" /\ Finish(<<>>, 0)
    <3>1. /\ UNCHANGED <<up, meta>> /\ pend' = "persist" /\ rec'.run = rec.run
          /\ ~rec'.tail /\ rec'.selfUpdate = rec.selfUpdate /\ Free
      BY <1>0, <2>5, FinishEffect
    <3>2. Done(rec.run) /\ meta.run = rec.run
      BY <2>5, <3>1 DEF DoneInv, Late, cur, MetaCurrent, Free, Quiescent, IsRunning
    <3> QED
      BY <2>1, <3>1, <3>2 DEF DoneInv, Done
  <2>6. CASE Start
    <3>1. /\ UNCHANGED <<up, meta>> /\ pend' = "persist" /\ rec'.status = "running"
          /\ ~rec'.tail /\ ~rec'.selfUpdate /\ dlog' = <<>>
      BY <1>0, <2>6, StartEffect DEF Start
    <3>2. ~SaysDone'
      BY <3>1 DEF SaysDone
    <3> QED
      BY <2>1, <3>1, <3>2 DEF DoneInv, Done
  <2>7. CASE PersistMeta
    <3>1. /\ UNCHANGED <<rec, dlog>> /\ pend' = "none" /\ HasRecord
          /\ meta'.run = rec.run /\ meta'.status = rec.status
          /\ meta'.selfUpdate = rec.selfUpdate
      BY <1>0, <2>7, SeenTypes DEF PersistMeta, MetaOf
    <3>2. SaysDone' = SaysDone
      BY <3>1 DEF SaysDone
    <3> QED
      BY <2>1, <3>1, <3>2 DEF DoneInv, HasRecord, Done
  <2>8. CASE BootFinish
    <3>1. /\ UNCHANGED meta /\ pend' = "persist" /\ pend = "interrupted"
          /\ rec'.run = rec.run /\ ~rec'.tail /\ rec'.selfUpdate = rec.selfUpdate
      BY <1>0, <2>8, BootFinishEffect DEF DoneInv
    <3>2. rec'.status = "failed" /\ rec.status = "running"
      BY <1>0, <2>8, <3>1, BootFinishEffect
      DEF BootFinish, VerdictOfCode, StoreInv, TypeOK, Record
    <3>3. ~Finish(<<>>, 0)
      BY <3>1 DEF Finish, Quiescent
    <3> QED
      BY <2>1, <2>2, <3>1, <3>2, <3>3 DEF DoneInv, HasRecord, Done
  <2>9. CASE Die
    <3>1. /\ rec'.run = 0 /\ ~rec'.tail /\ ~rec'.selfUpdate /\ dlog' = dlog /\ ~up'
          /\ pend' = "none" /\ (meta' = meta \/ meta' = [meta EXCEPT !.file = "torn"])
      BY <2>9 DEF Die, NoRecord
    <3>2. SaysDone' = SaysDone /\ (meta'.file = "ok" => meta' = meta)
      BY <1>0, <3>1 DEF SaysDone, StoreInv, TypeOK, Meta
    <3> QED
      BY <2>1, <3>1, <3>2 DEF DoneInv, HasRecord, Done
  <2>10. CASE Boot(installed)
    <3>1. ~up /\ up' /\ UNCHANGED <<meta, dlog, runs>>
      BY <1>0, <2>10, BootEffect
    <3>2. SaysDone' = SaysDone
      BY <3>1 DEF SaysDone
    <3>3. CASE BootNothing
      BY <1>0, <2>1, <3>1, <3>2, <3>3
      DEF BootNothing, StoreInv, Coherent, DoneInv, HasRecord, Done
    <3>4. CASE BootReconcile
      <4>1. PICK i \in DOMAIN dlog :
              FirstExit(dlog, i) /\ rec' = [Restored EXCEPT !.status = VerdictOf(dlog[i])]
        BY <3>4 DEF BootReconcile
      <4>2. /\ rec'.run = meta.run /\ rec'.status = VerdictOf(dlog[i]) /\ ~rec'.tail
            /\ rec'.selfUpdate = meta.selfUpdate /\ meta.file = "ok"
            /\ UNCHANGED pend
        BY <3>4, <4>1 DEF BootReconcile, Restored
      <4>3. rec'.status = "completed" => SaysDone
        BY <4>2 DEF VerdictOf, SaysDone
      <4> QED
        BY <2>1, <3>1, <3>2, <4>2, <4>3 DEF DoneInv, Done
    <3>5. CASE BootDecided
      BY <2>1, <3>1, <3>2, <3>5 DEF BootDecided, Restored, DoneInv, Done
    <3>6. CASE BootFailed
      BY <2>1, <3>1, <3>2, <3>6 DEF BootFailed, Interrupted, Restored, DoneInv, Done
    <3>7. ~BootVerified(installed) /\ ~BootTail(installed)
      BY DEF BootVerified, BootTail, Interrupted, DoneInv
    <3> QED
      BY <2>10, <3>3, <3>4, <3>5, <3>6, <3>7 DEF Boot
  <2> QED
    BY <1>2, <2>3, <2>4, <2>5, <2>6, <2>7, <2>8, <2>9, <2>10, AppSteps DEF DoneInv
<1> QED
  BY <1>1, <1>2

\* An application's run is announced as completed only when its own deploy
\* command has exited with 0, whatever mode it replaces and however the gateway
\* crashes, tears its files or boots on the way (deploy.controller.ts: a failed
\* step ends the run).
THEOREM SuccessIsDeployed ==
  ASSUME ~Self, LogIsKept, NoRace
  PROVE  GatewaySpec => []SuccessWasDeployed
<1>1. GatewayInit => MetaCurrent /\ DoneInv
  BY MetaCurrentInit
  DEF GatewayInit, StoreInit, NoRecord, NoMeta, MetaOf, DoneInv, HasRecord, Late
<1>2. GatewayInv /\ Places /\ MetaCurrent /\ DoneInv /\ [GatewayNext]_vars
      => MetaCurrent' /\ DoneInv'
  <2> SUFFICES ASSUME GatewayInv, Places, MetaCurrent, DoneInv, [GatewayNext]_vars
               PROVE  MetaCurrent' /\ DoneInv'
    OBVIOUS
  <2>1. MetaCurrent'
    BY NextUsesStore, MetaCurrentStep DEF GatewayInv, StoreInv, HostTypeOK, LogIsKept
  <2> QED
    BY <2>1, DoneInvStep
<1>3. DoneInv => SuccessWasDeployed
  BY DEF DoneInv, SuccessWasDeployed, Done
<1> QED
  BY <1>1, <1>2, <1>3, GatewayInvariance, PlacesInvariance, PTL DEF GatewaySpec

=============================================================================
