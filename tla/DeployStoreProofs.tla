-------------------------- MODULE DeployStoreProofs --------------------------
(***************************************************************************)
(* Proofs about DeployStore, for any number of runs and versions and logs  *)
(* of any length.                                                          *)
(***************************************************************************)
EXTENDS DeployStore, SequenceTheorems, TLAPS

-----------------------------------------------------------------------------
(* Part 1: types, and what is due when *)

\* The parts of the record agree with each other, and with the write due.
Coherent ==
  /\ rec.run <= runs /\ meta.run <= runs
  /\ meta.file = "ok" => meta.run # 0
  /\ pend # "none" => rec.run # 0
  /\ rec.tail => rec.run # 0 /\ rec.status = "running"
  /\ pend = "expire" => rec.tail
  /\ pend \in {"verified", "interrupted"} => rec.status = "running" /\ ~rec.tail
  /\ ~up => rec.run = 0 /\ ~rec.tail /\ pend = "none"

StoreInv == TypeOK /\ Coherent

LEMMA LineType ==
  ASSUME NEW t \in Texts, NEW r \in Runs
  PROVE  Ln(t, r) \in Line
BY DEF Ln, Line

LEMMA ExitLineType ==
  ASSUME NEW c, NEW r \in Runs
  PROVE  ExitLine(c, r) \in Line /\ IsExit(ExitLine(c, r))
BY DEF ExitLine, Ln, Line, Texts, IsExit

LEMMA AppendsType ==
  ASSUME StoreInv, NEW lines \in Seq(Line), Appends(lines)
  PROVE  dlog' \in Seq(Line)
<1>1. dlog \in Seq(Line)
  BY DEF StoreInv, TypeOK
<1>2. dlog \o lines \in Seq(Line)
  BY <1>1, ConcatProperties
<1> QED
  BY <1>1, <1>2 DEF Appends

LEMMA LogType ==
  ASSUME StoreInv, NEW lines \in Seq(Line)
  PROVE  rec.log \o lines \in Seq(Line)
<1>1. rec.log \in Seq(Line)
  BY DEF StoreInv, TypeOK, Record
<1> QED
  BY <1>1, ConcatProperties

LEMMA ObserveType ==
  ASSUME TypeOK, Observe, rec' \in Record
  PROVE  seen' \in [Runs -> {"unknown"} \cup Status]
<1>1. rec'.status \in Status
  BY DEF Record
<1>2. seen \in [Runs -> {"unknown"} \cup Status]
  BY DEF TypeOK
<1> HIDE DEF Status
<1> QED
  BY <1>1, <1>2 DEF Observe

LEMMA NoRecordType == NoRecord \in Record
<1>1. <<>> \in Seq(Line)
  OBVIOUS
<1> QED
  BY <1>1, StoreAssumption DEF NoRecord, Record, Status, Final

LEMMA MetaOfType == \A r \in Record : MetaOf(r) \in Meta
BY DEF MetaOf, Meta, Record

LEMMA StoreInvInit == StoreInit => StoreInv
<1> SUFFICES ASSUME StoreInit PROVE StoreInv
  OBVIOUS
<1>1. meta \in Meta
  BY NoRecordType, MetaOfType DEF StoreInit, NoMeta, Meta
<1>2. seen \in [Runs -> {"unknown"} \cup Status]
  BY DEF StoreInit
<1>3. rec \in Record /\ dlog \in Seq(Line) /\ runs \in 0..MaxRuns
  BY NoRecordType, StoreAssumption DEF StoreInit
<1> QED
  BY <1>1, <1>2, <1>3
  DEF StoreInit, StoreInv, TypeOK, Coherent, NoMeta, MetaOf, NoRecord

\* What the service appends consists of lines.
LEMMA LinesType ==
  ASSUME StoreInv, rec.run # 0
  PROVE  /\ \A t \in Texts : <<Ln(t, rec.run)>> \in Seq(Line)
         /\ Preamble \subseteq Seq(Line)
         /\ \A c \in {0, 1}, ls \in Seq(Line) :
              Append(ls, ExitLine(c, rec.run)) \in Seq(Line)
<1>1. rec.run \in Runs
  BY DEF StoreInv, TypeOK, Record, Runs
<1>2. \A t \in Texts : Ln(t, rec.run) \in Line
  BY <1>1, LineType
<1>3. "text" \in Texts
  BY DEF Texts
<1>4. \A c \in {0, 1} : ExitLine(c, rec.run) \in Line
  BY <1>1, ExitLineType
<1> QED
  BY <1>2, <1>3, <1>4 DEF Preamble

\* The store's methods keep the invariant.
LEMMA MethodsKeep ==
  ASSUME StoreInv, Observe,
         \/ PersistMeta \/ Start
         \/ \E t \in Texts : AppendLines(<<Ln(t, rec.run)>>)
         \/ \E c \in {0, 1}, ls \in Preamble : Finish(ls, c)
         \/ \E v \in Versions : SetSelfUpdate(v)
         \/ \E ls \in Preamble : StartTail(ls)
  PROVE  StoreInv'
<1> USE StoreAssumption DEF Quiescent, IsRunning, HasRecord
<1>1. CASE PersistMeta
  <2>1. rec' \in Record /\ meta' \in Meta
    BY <1>1, MetaOfType DEF PersistMeta, StoreInv, TypeOK
  <2>2. seen' \in [Runs -> {"unknown"} \cup Status]
    BY <2>1, ObserveType DEF StoreInv
  <2>3. Coherent'
    BY <1>1 DEF PersistMeta, StoreInv, TypeOK, Coherent, MetaOf
  <2> QED
    BY <1>1, <2>1, <2>2, <2>3 DEF PersistMeta, StoreInv, TypeOK
<1>2. CASE Start
  <2>0. runs + 1 \in 0..MaxRuns
    BY <1>2 DEF Start, StoreInv, TypeOK
  <2>1. rec' \in Record
    BY <1>2, <2>0, NoRecordType DEF Start, Record, Status
  <2>2. seen' \in [Runs -> {"unknown"} \cup Status]
    BY <2>1, ObserveType DEF StoreInv
  <2>3. Coherent'
    BY <1>2 DEF Start, StoreInv, TypeOK, Meta, Record, Coherent, NoRecord
  <2>4. runs' \in 0..MaxRuns
    BY <1>2 DEF Start, StoreInv, TypeOK
  <2>5. dlog' \in Seq(Line)
    BY <1>2, EmptySeq DEF Start, StoreInv, TypeOK
  <2> QED
    BY <1>2, <2>1, <2>2, <2>3, <2>4, <2>5 DEF Start, StoreInv, TypeOK
<1>3. ASSUME NEW t \in Texts, AppendLines(<<Ln(t, rec.run)>>)
      PROVE  StoreInv'
  <2>1. <<Ln(t, rec.run)>> \in Seq(Line)
    BY <1>3, LinesType DEF AppendLines
  <2>2. dlog' \in Seq(Line)
    BY <1>3, <2>1, AppendsType DEF AppendLines
  <2>3. rec' \in Record
    BY <1>3, <2>1, LogType DEF AppendLines, StoreInv, TypeOK, Record
  <2>4. seen' \in [Runs -> {"unknown"} \cup Status]
    BY <2>3, ObserveType DEF StoreInv
  <2>5. Coherent'
    BY <1>3 DEF AppendLines, StoreInv, TypeOK, Coherent, Record
  <2> QED
    BY <1>3, <2>2, <2>3, <2>4, <2>5 DEF AppendLines, StoreInv, TypeOK
<1>4. ASSUME NEW c \in {0, 1}, NEW ls \in Preamble, Finish(ls, c)
      PROVE  StoreInv'
  <2> DEFINE all == Append(ls, ExitLine(c, rec.run))
  <2>1. all \in Seq(Line)
    BY <1>4, LinesType DEF Finish
  <2>2. dlog' \in Seq(Line)
    BY <1>4, <2>1, AppendsType DEF Finish
  <2>3. VerdictOfCode(c) \in Final
    BY DEF VerdictOfCode, Final
  <2> HIDE DEF all
  <2>4. rec' \in Record /\ rec' = [rec EXCEPT !.log = @ \o all, !.status = VerdictOfCode(c), !.tail = FALSE]
    BY <1>4, <2>1, <2>3, LogType DEF Finish, StoreInv, TypeOK, Record, Status, all
  <2>5. seen' \in [Runs -> {"unknown"} \cup Status]
    BY <2>4, ObserveType DEF StoreInv
  <2>6. Coherent'
    BY <1>4, <2>4 DEF Finish, StoreInv, TypeOK, Coherent, Record
  <2> QED
    BY <1>4, <2>2, <2>4, <2>5, <2>6 DEF Finish, StoreInv, TypeOK
<1>5. ASSUME NEW v \in Versions, SetSelfUpdate(v) PROVE StoreInv'
  <2>1. rec' \in Record
    BY <1>5 DEF SetSelfUpdate, StoreInv, TypeOK, Record
  <2>2. seen' \in [Runs -> {"unknown"} \cup Status]
    BY <2>1, ObserveType DEF StoreInv
  <2>3. Coherent'
    BY <1>5 DEF SetSelfUpdate, StoreInv, TypeOK, Coherent, Record
  <2> QED
    BY <1>5, <2>1, <2>2, <2>3 DEF SetSelfUpdate, StoreInv, TypeOK
<1>6. ASSUME NEW ls \in Preamble, StartTail(ls) PROVE StoreInv'
  <2>1. ls \in Seq(Line)
    BY <1>6, LinesType DEF StartTail
  <2>2. dlog' \in Seq(Line)
    BY <1>6, <2>1, AppendsType DEF StartTail
  <2>3. rec.log \o ls \in Seq(Line) /\ Len(rec.log \o ls) \in Nat
    BY <2>1, LogType, LenProperties
  <2>4. rec' \in Record
    BY <1>6, <2>3 DEF StartTail, StoreInv, TypeOK, Record
  <2>5. seen' \in [Runs -> {"unknown"} \cup Status]
    BY <2>4, ObserveType DEF StoreInv
  <2>6. Coherent'
    BY <1>6 DEF StartTail, StoreInv, TypeOK, Coherent, Record
  <2> QED
    BY <1>6, <2>2, <2>4, <2>5, <2>6 DEF StartTail, StoreInv, TypeOK
<1> QED
  BY <1>1, <1>2, <1>3, <1>4, <1>5, <1>6

LEMMA SliceType ==
  ASSUME StoreInv, NEW k \in Nat, k <= Len(dlog)
  PROVE  SubSeq(dlog, rec.emitted + 1, k) \in Seq(Line)
<1>1. dlog \in Seq(Line) /\ rec.emitted \in Nat
  BY DEF StoreInv, TypeOK, Record
<1>2. \A i \in (rec.emitted + 1)..k : dlog[i] \in Line
  BY <1>1, ElementOfSeq
<1> QED
  BY <1>1, <1>2, SubSeqProperties

\* So does the tail.
LEMMA TicksKeep ==
  ASSUME StoreInv, Observe, Tick
  PROVE  StoreInv'
<1> USE StoreAssumption DEF Quiescent
<1>0. /\ dlog \in Seq(Line) /\ Len(dlog) \in Nat /\ DOMAIN dlog = 1..Len(dlog)
  BY LenProperties DEF StoreInv, TypeOK
<1>1. CASE TailEmit
  <2> DEFINE new == SubSeq(dlog, rec.emitted + 1, Len(dlog))
  <2>1. rec.log \o new \in Seq(Line)
    BY <1>0, SliceType, LogType
  <2>2. rec' = [rec EXCEPT !.log = rec.log \o new, !.emitted = Len(dlog)]
    BY <1>1 DEF TailEmit
  <2> HIDE DEF new
  <2>3. rec' \in Record
    BY <1>0, <2>1, <2>2 DEF StoreInv, TypeOK, Record
  <2>4. seen' \in [Runs -> {"unknown"} \cup Status]
    BY <2>3, ObserveType DEF StoreInv
  <2>5. Coherent'
    BY <1>1, <2>2 DEF TailEmit, StoreInv, TypeOK, Coherent, Record
  <2> QED
    BY <1>1, <2>3, <2>4, <2>5 DEF TailEmit, StoreInv, TypeOK
<1>2. CASE TailExit
  <2>1. PICK k \in Fresh \cap Exits(dlog) :
          rec' = [rec EXCEPT
                    !.log = @ \o SubSeq(dlog, rec.emitted + 1, k),
                    !.emitted = k, !.status = VerdictOf(dlog[k]), !.tail = FALSE]
    BY <1>2 DEF TailExit
  <2>2. k \in Nat /\ k <= Len(dlog)
    BY <1>0, <2>1 DEF Exits
  <2> DEFINE log == rec.log \o SubSeq(dlog, rec.emitted + 1, k)
             verdict == VerdictOf(dlog[k])
  <2>3. log \in Seq(Line) /\ verdict \in Final
    BY <2>2, SliceType, LogType DEF VerdictOf, Final
  <2>4. rec' = [rec EXCEPT !.log = log, !.emitted = k, !.status = verdict,
                           !.tail = FALSE]
    BY <2>1
  <2> HIDE DEF log, verdict
  <2>5. rec' \in Record
    BY <2>2, <2>3, <2>4 DEF StoreInv, TypeOK, Record, Status
  <2>6. seen' \in [Runs -> {"unknown"} \cup Status]
    BY <2>5, ObserveType DEF StoreInv
  <2>7. Coherent'
    BY <1>2, <2>3, <2>4 DEF TailExit, StoreInv, TypeOK, Coherent, Record, Final
  <2> QED
    BY <1>2, <2>5, <2>6, <2>7 DEF TailExit, StoreInv, TypeOK
<1>3. CASE TailTruncated \/ TailQuiet
  <2>1. rec' \in Record
    BY <1>3 DEF TailTruncated, TailQuiet, StoreInv, TypeOK, Record
  <2>2. seen' \in [Runs -> {"unknown"} \cup Status]
    BY <2>1, ObserveType DEF StoreInv
  <2>3. Coherent'
    BY <1>3 DEF TailTruncated, TailQuiet, StoreInv, TypeOK, Coherent, Record
  <2> QED
    BY <1>3, <2>1, <2>2, <2>3 DEF TailTruncated, TailQuiet, StoreInv, TypeOK
<1>4. CASE TailExpire
  <2> DEFINE all == <<Ln("text", rec.run), Ln("EXIT:1", rec.run)>>
  <2>1. rec.run \in Runs
    BY <1>4 DEF TailExpire, StoreInv, TypeOK, Coherent, Record, Runs
  <2>2. all \in Seq(Line)
    BY <2>1, LineType DEF Texts
  <2>3. dlog' \in Seq(Line)
    BY <1>4, <2>2, AppendsType DEF TailExpire
  <2>4. rec.log \o all \in Seq(Line)
    BY <2>2, LogType
  <2>5. rec' = [rec EXCEPT !.log = rec.log \o all, !.status = "failed", !.tail = FALSE]
    BY <1>4 DEF TailExpire
  <2> HIDE DEF all
  <2>6. rec' \in Record
    BY <2>4, <2>5 DEF StoreInv, TypeOK, Record, Status, Final
  <2>7. seen' \in [Runs -> {"unknown"} \cup Status]
    BY <2>6, ObserveType DEF StoreInv
  <2>8. Coherent'
    BY <1>4, <2>5 DEF TailExpire, StoreInv, TypeOK, Coherent, Record
  <2> QED
    BY <1>4, <2>3, <2>6, <2>7, <2>8 DEF TailExpire, StoreInv, TypeOK
<1> QED
  BY <1>1, <1>2, <1>3, <1>4 DEF Tick

LEMMA RestoredType ==
  ASSUME StoreInv, meta.file = "ok"
  PROVE  /\ \A v \in Final : [Restored EXCEPT !.status = v] \in Record
         /\ Restored \in Record
         /\ [Restored EXCEPT !.tail = TRUE, !.emitted = Len(dlog)] \in Record
<1>1. dlog \in Seq(Line) /\ Len(dlog) \in Nat /\ meta \in Meta
  BY LenProperties DEF StoreInv, TypeOK
<1> QED
  BY <1>1 DEF Restored, Record, Meta, Status

\* So do a crash, a boot, and the lines of another process.
LEMMA RestartKeeps ==
  ASSUME StoreInv, Observe,
         \/ Die \/ BootFinish
         \/ \E v \in Versions : Boot(v)
         \/ \E l \in Line : ExternalAppend(l)
  PROVE  StoreInv'
<1> USE StoreAssumption
<1>1. CASE Die
  <2>1. rec' \in Record /\ meta' \in Meta
    BY <1>1, NoRecordType DEF Die, StoreInv, TypeOK, Meta
  <2>2. seen' \in [Runs -> {"unknown"} \cup Status]
    BY <2>1, ObserveType DEF StoreInv
  <2>3. Coherent'
    BY <1>1 DEF Die, StoreInv, TypeOK, Coherent, NoRecord, Meta
  <2> QED
    BY <1>1, <2>1, <2>2, <2>3 DEF Die, StoreInv, TypeOK
<1>2. ASSUME NEW v \in Versions, Boot(v) PROVE StoreInv'
  <2>1. rec' \in Record
    BY <1>2, RestoredType
    DEF Boot, BootNothing, BootReconcile, BootDecided, BootVerified, BootTail,
        BootFailed, Interrupted, StoreInv, TypeOK, VerdictOf, Final
  <2>2. seen' \in [Runs -> {"unknown"} \cup Status]
    BY <2>1, ObserveType DEF StoreInv
  <2>3. Coherent'
    <3>1. CASE BootNothing
      BY <1>2, <3>1 DEF BootNothing, StoreInv, TypeOK, Coherent
    <3>2. CASE BootReconcile \/ BootDecided
      BY <1>2, <3>2 DEF BootReconcile, BootDecided, Restored, StoreInv, TypeOK, Coherent
    <3>3. CASE BootVerified(v) \/ BootFailed
      BY <1>2, <3>3
      DEF BootVerified, BootFailed, Interrupted, Restored, StoreInv, TypeOK, Coherent
    <3>4. CASE BootTail(v)
      BY <1>2, <3>4 DEF BootTail, Restored, StoreInv, TypeOK, Coherent
    <3> QED
      BY <1>2, <3>1, <3>2, <3>3, <3>4 DEF Boot
  <2> QED
    BY <1>2, <2>1, <2>2, <2>3
    DEF Boot, BootNothing, BootReconcile, BootDecided, BootVerified, BootTail,
        BootFailed, Interrupted, StoreInv, TypeOK
<1>3. CASE BootFinish
  <2> DEFINE code == IF pend = "verified" THEN 0 ELSE 1
             all == <<Ln("text", rec.run), ExitLine(code, rec.run)>>
  <2>1. rec.run \in Runs
    BY <1>3 DEF BootFinish, StoreInv, TypeOK, Coherent, Record, Runs
  <2>2. all \in Seq(Line)
    BY <2>1, LineType, ExitLineType DEF Texts
  <2>3. VerdictOfCode(code) \in Final
    BY DEF VerdictOfCode, Final
  <2>4. dlog' \in Seq(Line)
    BY <1>3, <2>2, AppendsType DEF BootFinish
  <2>5. rec.log \o all \in Seq(Line)
    BY <2>2, LogType
  <2>6. rec' = [rec EXCEPT !.log = rec.log \o all, !.status = VerdictOfCode(code)]
    BY <1>3 DEF BootFinish
  <2> HIDE DEF all, code
  <2>7. rec' \in Record
    BY <2>3, <2>5, <2>6 DEF StoreInv, TypeOK, Record, Status
  <2>8. seen' \in [Runs -> {"unknown"} \cup Status]
    BY <2>7, ObserveType DEF StoreInv
  <2>9. Coherent'
    BY <1>3, <2>6 DEF BootFinish, StoreInv, TypeOK, Coherent, Record
  <2> QED
    BY <1>3, <2>4, <2>7, <2>8, <2>9 DEF BootFinish, StoreInv, TypeOK
<1>4. ASSUME NEW l \in Line, ExternalAppend(l) PROVE StoreInv'
  <2>1. dlog' \in Seq(Line)
    BY <1>4 DEF ExternalAppend, StoreInv, TypeOK
  <2>2. rec' \in Record
    BY <1>4 DEF ExternalAppend, StoreInv, TypeOK
  <2>3. seen' \in [Runs -> {"unknown"} \cup Status]
    BY <2>2, ObserveType DEF StoreInv
  <2> QED
    BY <1>4, <2>1, <2>2, <2>3 DEF ExternalAppend, StoreInv, TypeOK, Coherent
<1> QED
  BY <1>1, <1>2, <1>3, <1>4

LEMMA StoreInvStep == StoreInv /\ [AnyLengthNext]_storeVars => StoreInv'
<1> SUFFICES ASSUME StoreInv, [AnyLengthNext]_storeVars PROVE StoreInv'
  OBVIOUS
<1>1. CASE AnyLengthNext
  BY <1>1, MethodsKeep, TicksKeep, RestartKeeps
  DEF AnyLengthNext, StoreWork, Chatter
<1>2. CASE UNCHANGED storeVars
  BY <1>2 DEF storeVars, StoreInv, TypeOK, Coherent
<1> QED
  BY <1>1, <1>2

LEMMA StoreInvariance == StoreOfAnyLength => []StoreInv
BY StoreInvInit, StoreInvStep, PTL DEF StoreOfAnyLength

\* The bound on the logs only takes steps away: what holds of the store with
\* logs of any length holds of the one that is model-checked.
THEOREM BoundedStore == StoreSpec => StoreOfAnyLength
<1>1. [StoreNext]_storeVars => [AnyLengthNext]_storeVars
  BY DEF StoreNext, AnyLengthNext
<1> QED
  BY <1>1, PTL DEF StoreSpec, StoreOfAnyLength

\* Every reachable state is well typed: no restart, tick or write of another
\* process leaves the record, its file or the log of deploy-store.ts in a
\* form the service does not know.
THEOREM TypeInvariance == StoreOfAnyLength => []TypeOK
<1>1. StoreInv => TypeOK
  BY DEF StoreInv
<1> QED
  BY <1>1, StoreInvariance, PTL

-----------------------------------------------------------------------------
(* Part 2: a decided record is left alone *)

LEMMA DecidedStep ==
  ASSUME StoreInv, [AnyLengthNext]_storeVars,
         HasRecord, rec.status \in Final, up'
  PROVE  \/ rec' = rec
         \/ rec'.run > rec.run /\ rec'.status = "running"
<1>1. /\ up /\ ~IsRunning /\ ~rec.tail
      /\ pend \notin {"expire", "verified", "interrupted"}
  BY DEF StoreInv, TypeOK, Coherent, HasRecord, IsRunning, Final
<1>2. CASE Start
  <2>1. rec.run \in Nat /\ runs \in Nat /\ rec.run <= runs
    BY StoreAssumption DEF StoreInv, TypeOK, Coherent, Record
  <2> QED
    BY <1>2, <2>1 DEF Start, NoRecord
<1>3. CASE PersistMeta \/ \E l \in Line : ExternalAppend(l)
  BY <1>3 DEF PersistMeta, ExternalAppend
<1>4. ~Tick
  BY <1>1
  DEF Tick, TailEmit, TailExit, TailTruncated, TailQuiet, TailExpire
<1>5. ~Die /\ ~BootFinish /\ \A v \in Versions : ~Boot(v)
  BY <1>1
  DEF Die, BootFinish, Boot, BootNothing, BootReconcile, BootDecided,
      BootVerified, BootTail, BootFailed, Interrupted
<1>6. /\ \A ls : ~AppendLines(ls) /\ ~StartTail(ls)
      /\ \A ls, c : ~Finish(ls, c)
      /\ \A v : ~SetSelfUpdate(v)
  BY <1>1 DEF AppendLines, StartTail, Finish, SetSelfUpdate
<1>7. CASE UNCHANGED storeVars
  BY <1>7 DEF storeVars
<1> QED
  BY <1>2, <1>3, <1>4, <1>5, <1>6, <1>7
  DEF AnyLengthNext, StoreWork, Chatter

\* A verdict of deploy-store.ts is final, under lost and torn writes too: no
\* tick of the tail, no finish() and no append of another process reaches a
\* record that is decided, and only start() replaces it, by a later run.
THEOREM VerdictIsFinal == StoreOfAnyLength => DecidedIsFinal
<1>1. /\ StoreInv /\ [AnyLengthNext]_storeVars
      => [(HasRecord /\ rec.status \in Final /\ up') =>
            \/ rec' = rec
            \/ rec'.run > rec.run /\ rec'.status = "running"]_storeVars
  BY DecidedStep
<1> QED
  BY <1>1, StoreInvariance, PTL DEF StoreOfAnyLength, DecidedIsFinal

-----------------------------------------------------------------------------
(* Part 3: the log holds what the record says                              *)
(*                                                                         *)
(* Best-effort writes are taken to succeed here: with LostWrites the       *)
(* three properties fail, because appendToFile swallows the error.         *)

\* The file keeps pace with memory while the record is not tailed, so that
\* startTail() may count lines instead of locating them.
LogKeepsPace == (IsRunning /\ ~rec.tail) => Len(rec.log) <= Len(dlog)

Durable == VerdictDurable /\ MetaFollowsLog /\ TailWithinLog /\ LogKeepsPace

\* "The durable log holds verdict v."
Says(v) == \E i \in Exits(dlog) : VerdictOf(dlog[i]) = v

\* Terminal lines stay where they are when lines are appended ...
LEMMA SaysGrows ==
  ASSUME dlog \in Seq(Line), NEW b \in Seq(Line), dlog' = dlog \o b
  PROVE  /\ \A v : Says(v) => Says(v)'
         /\ Len(dlog') = Len(dlog) + Len(b) /\ Len(b) \in Nat /\ Len(dlog) \in Nat
<1>1. /\ Len(dlog') = Len(dlog) + Len(b) /\ Len(b) \in Nat /\ Len(dlog) \in Nat
      /\ \A i \in 1..Len(dlog) : dlog'[i] = dlog[i]
      /\ DOMAIN dlog = 1..Len(dlog) /\ DOMAIN dlog' = 1..Len(dlog')
  BY ConcatProperties, LenProperties
<1>2. \A i \in Exits(dlog) : i \in Exits(dlog)' /\ dlog'[i] = dlog[i]
  BY <1>1 DEF Exits
<1> QED
  BY <1>1, <1>2 DEF Says

\* ... and a terminal line that is appended last is one of them.
LEMMA SaysLast ==
  ASSUME dlog \in Seq(Line), NEW b \in Seq(Line), dlog' = dlog \o b,
         b # <<>>, IsExit(b[Len(b)])
  PROVE  Says(VerdictOf(b[Len(b)]))'
<1>1. Len(b) \in Nat \ {0} /\ Len(dlog) \in Nat
  BY LenProperties, EmptySeq
<1>2. /\ Len(dlog') = Len(dlog) + Len(b)
      /\ dlog'[Len(dlog) + Len(b)] = b[Len(b)]
      /\ DOMAIN dlog' = 1..Len(dlog')
  BY <1>1, ConcatProperties, LenProperties
<1>3. Len(dlog) + Len(b) \in Exits(dlog)'
  BY <1>1, <1>2 DEF Exits
<1> QED
  BY <1>2, <1>3 DEF Says

\* finish() says in the log what it says in the record.
LEMMA ExitLineSays ==
  ASSUME NEW c \in {0, 1}, NEW r
  PROVE  IsExit(ExitLine(c, r)) /\ VerdictOf(ExitLine(c, r)) = VerdictOfCode(c)
BY DEF ExitLine, IsExit, VerdictOf, VerdictOfCode, Ln

\* While a run is in progress, appending to the log keeps Durable.
LEMMA GrowingKeeps ==
  ASSUME StoreInv, Durable, NEW b \in Seq(Line), dlog' = dlog \o b,
         UNCHANGED <<meta, runs>>, rec' \in Record,
         \/ rec' = rec
         \/ /\ rec'.status = "running" /\ ~rec.tail
            /\ rec'.tail => rec'.emitted <= Len(rec.log) + Len(b)
            /\ IsRunning /\ Len(rec'.log) <= Len(rec.log) + Len(b)
         \/ rec'.status = "running" /\ rec.tail /\ rec'.tail
            /\ rec'.emitted = rec.emitted
  PROVE  Durable'
<1>1. /\ dlog \in Seq(Line) /\ rec.emitted \in Nat /\ Len(rec.log) \in Nat
      /\ rec'.emitted \in Nat /\ Len(rec'.log) \in Nat
  BY LenProperties DEF StoreInv, TypeOK, Record
<1>2. /\ \A v : Says(v) => Says(v)'
      /\ Len(dlog') = Len(dlog) + Len(b) /\ Len(b) \in Nat /\ Len(dlog) \in Nat
  BY <1>1, SaysGrows
<1>3. MetaFollowsLog'
  BY <1>2 DEF Durable, MetaFollowsLog, Says
<1>4. VerdictDurable'
  BY <1>2 DEF Durable, VerdictDurable, Says, HasRecord, Final
<1>5. TailWithinLog' /\ LogKeepsPace'
  BY <1>1, <1>2 DEF Durable, TailWithinLog, LogKeepsPace, IsRunning, HasRecord
<1> QED
  BY <1>3, <1>4, <1>5 DEF Durable

\* So does the end of a run: the terminal line comes last.
LEMMA EndingKeeps ==
  ASSUME StoreInv, Durable, NEW b \in Seq(Line), dlog' = dlog \o b,
         b # <<>>, IsExit(b[Len(b)]), UNCHANGED <<meta, runs>>,
         rec'.status = VerdictOf(b[Len(b)]), rec'.status \in Final, ~rec'.tail
  PROVE  Durable'
<1>1. dlog \in Seq(Line)
  BY DEF StoreInv, TypeOK
<1>2. (\A v : Says(v) => Says(v)') /\ Says(VerdictOf(b[Len(b)]))'
  BY <1>1, SaysGrows, SaysLast
<1>3. MetaFollowsLog' /\ VerdictDurable'
  BY <1>2 DEF Durable, MetaFollowsLog, VerdictDurable, Says
<1>4. TailWithinLog' /\ LogKeepsPace'
  BY DEF TailWithinLog, LogKeepsPace, IsRunning, HasRecord, Final
<1> QED
  BY <1>3, <1>4 DEF Durable

LEMMA MethodsKeepDurable ==
  ASSUME StoreInv, StoreInv', Durable, ~LostWrites,
         \/ PersistMeta \/ Start
         \/ \E t \in Texts : AppendLines(<<Ln(t, rec.run)>>)
         \/ \E c \in {0, 1}, ls \in Preamble : Finish(ls, c)
         \/ \E v \in Versions : SetSelfUpdate(v)
         \/ \E ls \in Preamble : StartTail(ls)
  PROVE  Durable'
<1> USE DEF Quiescent
<1>0. /\ runs \in Nat /\ meta.run \in Nat /\ meta.run <= runs
      /\ rec \in Record /\ rec.log \in Seq(Line) /\ Len(rec.log) \in Nat
      /\ dlog \in Seq(Line) /\ Len(dlog) \in Nat /\ rec' \in Record
  BY StoreAssumption, LenProperties
  DEF StoreInv, TypeOK, Coherent, Record, Meta
<1>1. CASE PersistMeta
  <2>1. meta' = MetaOf(rec) /\ rec.run # 0 /\ UNCHANGED <<rec, dlog, runs>>
    BY <1>1 DEF PersistMeta, StoreInv, Coherent
  <2> QED
    BY <2>1
    DEF Durable, VerdictDurable, MetaFollowsLog, TailWithinLog, LogKeepsPace,
        IsRunning, HasRecord, Exits, MetaOf
<1>2. CASE Start
  <2>1. dlog' = <<>> /\ Len(dlog') = 0 /\ UNCHANGED meta /\ runs' = runs + 1
    BY <1>2, EmptySeq DEF Start
  <2>2. rec'.status = "running" /\ ~rec'.tail /\ rec'.log = <<>> /\ Len(rec'.log) = 0
    BY <1>2, EmptySeq DEF Start, NoRecord
  <2> QED
    BY <1>0, <2>1, <2>2
    DEF Durable, VerdictDurable, MetaFollowsLog, TailWithinLog, LogKeepsPace, Final
<1>3. ASSUME NEW t \in Texts, AppendLines(<<Ln(t, rec.run)>>)
      PROVE  Durable'
  <2> DEFINE b == <<Ln(t, rec.run)>>
  <2>1. b \in Seq(Line)
    BY <1>3, LinesType DEF AppendLines, IsRunning, HasRecord
  <2> HIDE DEF b
  <2>2. /\ dlog' = dlog \o b /\ rec' = [rec EXCEPT !.log = rec.log \o b]
        /\ IsRunning /\ UNCHANGED <<meta, runs>>
    BY <1>3 DEF AppendLines, Appends, b
  <2>3. Len(rec.log \o b) = Len(rec.log) + Len(b) /\ Len(b) \in Nat
    BY <1>0, <2>1, ConcatProperties, LenProperties
  <2>4. /\ rec'.status = "running" /\ rec'.tail = rec.tail
        /\ rec'.emitted = rec.emitted /\ rec'.log = rec.log \o b
    BY <1>0, <2>2 DEF IsRunning, Record
  <2>5. rec.tail \in BOOLEAN
    BY <1>0 DEF Record
  <2>6. CASE rec.tail
    BY <1>0, <2>1, <2>2, <2>4, <2>6, GrowingKeeps
  <2>7. CASE ~rec.tail
    <3>1. Len(rec'.log) <= Len(rec.log) + Len(b)
      BY <1>0, <2>3, <2>4
    <3> QED
      BY <1>0, <2>1, <2>2, <2>4, <2>7, <3>1, GrowingKeeps
  <2> QED
    BY <2>5, <2>6, <2>7
<1>4. ASSUME NEW c \in {0, 1}, NEW ls \in Preamble, Finish(ls, c)
      PROVE  Durable'
  <2> DEFINE b == Append(ls, ExitLine(c, rec.run))
  <2>1. ls \in Seq(Line) /\ b \in Seq(Line)
    BY <1>4, LinesType DEF Finish, IsRunning, HasRecord
  <2>2. b # <<>> /\ b[Len(b)] = ExitLine(c, rec.run)
    BY <2>1, AppendProperties, LenProperties
  <2> HIDE DEF b
  <2>3. /\ dlog' = dlog \o b /\ UNCHANGED <<meta, runs>>
        /\ rec'.status = VerdictOfCode(c) /\ ~rec'.tail
    BY <1>0, <1>4 DEF Finish, Appends, Record, b
  <2>4. VerdictOfCode(c) \in Final
    BY DEF VerdictOfCode, Final
  <2> QED
    BY <2>1, <2>2, <2>3, <2>4, ExitLineSays, EndingKeeps
<1>5. ASSUME NEW v \in Versions, SetSelfUpdate(v) PROVE Durable'
  <2>1. /\ rec'.status = rec.status /\ rec'.tail = rec.tail /\ rec'.log = rec.log
        /\ rec'.emitted = rec.emitted /\ rec'.run = rec.run
        /\ UNCHANGED <<meta, dlog, runs>>
    BY <1>0, <1>5 DEF SetSelfUpdate, Record
  <2> QED
    BY <2>1
    DEF Durable, VerdictDurable, MetaFollowsLog, TailWithinLog, LogKeepsPace,
        IsRunning, HasRecord, Exits
<1>6. ASSUME NEW ls \in Preamble, StartTail(ls) PROVE Durable'
  <2>1. ls \in Seq(Line)
    BY <1>6, LinesType DEF StartTail, IsRunning, HasRecord
  <2>2. Len(rec.log \o ls) = Len(rec.log) + Len(ls) /\ Len(ls) \in Nat
    BY <1>0, <2>1, ConcatProperties, LenProperties
  <2>3. /\ dlog' = dlog \o ls /\ UNCHANGED <<meta, runs>>
        /\ ~rec.tail /\ IsRunning /\ rec'.status = "running"
        /\ rec'.emitted = Len(rec.log \o ls) /\ rec'.log = rec.log \o ls
    BY <1>0, <1>6 DEF StartTail, Appends, IsRunning, Record
  <2> QED
    BY <1>0, <2>1, <2>2, <2>3, GrowingKeeps
<1> QED
  BY <1>1, <1>2, <1>3, <1>4, <1>5, <1>6

\* A tick that emits or gives up writes nothing; one that sees EXIT takes the
\* verdict from the log; one that expires writes it there first.
LEMMA TicksKeepDurable ==
  ASSUME StoreInv, StoreInv', Durable, ~LostWrites, Tick
  PROVE  Durable'
<1> USE DEF Quiescent
<1>0. /\ rec \in Record /\ rec' \in Record /\ rec.emitted \in Nat
      /\ dlog \in Seq(Line) /\ Len(dlog) \in Nat /\ DOMAIN dlog = 1..Len(dlog)
  BY LenProperties DEF StoreInv, TypeOK, Record
<1>1. CASE TailEmit
  <2>1. /\ rec'.status = rec.status /\ rec'.tail /\ rec'.emitted = Len(dlog)
        /\ rec'.run = rec.run /\ UNCHANGED <<meta, dlog, runs>>
    BY <1>0, <1>1 DEF TailEmit, Record
  <2> QED
    BY <1>0, <2>1
    DEF Durable, VerdictDurable, MetaFollowsLog, TailWithinLog, LogKeepsPace,
        HasRecord, Exits
<1>2. CASE TailExit
  <2>1. PICK k \in Fresh \cap Exits(dlog) :
          rec' = [rec EXCEPT
                    !.log = @ \o SubSeq(dlog, rec.emitted + 1, k),
                    !.emitted = k, !.status = VerdictOf(dlog[k]), !.tail = FALSE]
    BY <1>2 DEF TailExit
  <2>2. /\ rec'.status = VerdictOf(dlog[k]) /\ ~rec'.tail
        /\ UNCHANGED <<meta, dlog, runs>>
    BY <1>0, <1>2, <2>1 DEF TailExit, Record
  <2>3. VerdictOf(dlog[k]) # "running"
    BY DEF VerdictOf
  <2> QED
    BY <2>1, <2>2, <2>3
    DEF Durable, VerdictDurable, MetaFollowsLog, TailWithinLog, LogKeepsPace,
        IsRunning, HasRecord, Exits
<1>3. CASE TailTruncated
  BY <1>0, <1>3 DEF TailTruncated, Durable, TailWithinLog
<1>4. CASE TailQuiet
  BY <1>4
  DEF TailQuiet, Durable, VerdictDurable, MetaFollowsLog, TailWithinLog,
      LogKeepsPace, IsRunning, HasRecord, Exits
<1>5. CASE TailExpire
  <2> DEFINE b == <<Ln("text", rec.run), Ln("EXIT:1", rec.run)>>
  <2>1. rec.run \in Runs
    BY <1>5 DEF TailExpire, StoreInv, TypeOK, Coherent, Record, Runs
  <2>2. b \in Seq(Line) /\ b # <<>> /\ Len(b) = 2
    BY <2>1, LineType DEF Texts
  <2>3. IsExit(b[2]) /\ VerdictOf(b[2]) = "failed"
    BY DEF IsExit, VerdictOf, Ln
  <2> HIDE DEF b
  <2>4. /\ dlog' = dlog \o b /\ UNCHANGED <<meta, runs>>
        /\ rec'.status = "failed" /\ ~rec'.tail
    BY <1>0, <1>5 DEF TailExpire, Appends, Record, b
  <2> QED
    BY <2>2, <2>3, <2>4, EndingKeeps DEF Final
<1> QED
  BY <1>1, <1>2, <1>3, <1>4, <1>5 DEF Tick

\* A crash loses the record, and a boot takes it from the metadata and the
\* log, which agree.
LEMMA RestartKeepsDurable ==
  ASSUME StoreInv, StoreInv', Durable, ~LostWrites,
         \/ Die \/ BootFinish
         \/ \E v \in Versions : Boot(v)
         \/ \E l \in Line : ExternalAppend(l)
  PROVE  Durable'
<1>0. /\ rec \in Record /\ rec' \in Record /\ meta \in Meta
      /\ dlog \in Seq(Line) /\ Len(dlog) \in Nat
  BY LenProperties DEF StoreInv, TypeOK
<1>1. CASE Die
  <2>1. /\ rec'.run = 0 /\ ~rec'.tail /\ UNCHANGED <<dlog, runs>>
        /\ meta' = meta \/ meta'.file = "torn"
    BY <1>0, <1>1 DEF Die, NoRecord, Meta
  <2> QED
    BY <2>1
    DEF Durable, VerdictDurable, MetaFollowsLog, TailWithinLog, LogKeepsPace,
        IsRunning, HasRecord, Exits
<1>2. ASSUME NEW v \in Versions, Boot(v) PROVE Durable'
  <2>1. UNCHANGED <<meta, dlog, runs>>
    BY <1>2
    DEF Boot, BootNothing, BootReconcile, BootDecided, BootVerified, BootTail,
        BootFailed, Interrupted
  <2>2. MetaFollowsLog'
    BY <2>1 DEF Durable, MetaFollowsLog, Exits
  <2>3. CASE BootNothing
    BY <2>1, <2>3
    DEF BootNothing, StoreInv, Coherent, Durable, VerdictDurable, MetaFollowsLog,
        TailWithinLog, LogKeepsPace, IsRunning, HasRecord, Exits
  <2>4. CASE BootReconcile
    <3>1. PICK i \in Exits(dlog) :
            rec' = [Restored EXCEPT !.status = VerdictOf(dlog[i])]
      BY <2>4 DEF BootReconcile, FirstExit
    <3>2. rec'.status = VerdictOf(dlog[i]) /\ ~rec'.tail /\ rec'.log = dlog
      BY <3>1 DEF Restored
    <3> QED
      BY <1>0, <2>1, <2>2, <3>1, <3>2
      DEF Durable, VerdictDurable, TailWithinLog, LogKeepsPace, Exits
  <2>5. CASE BootDecided
    <3>1. rec' = Restored /\ meta.status \in Final /\ meta.file = "ok"
      BY <1>0, <2>5 DEF BootDecided, Meta, Status
    <3>2. /\ rec'.status = meta.status /\ rec'.run = meta.run
          /\ ~rec'.tail /\ rec'.log = dlog
      BY <3>1 DEF Restored
    <3> QED
      BY <1>0, <2>1, <2>2, <3>1, <3>2
      DEF Durable, VerdictDurable, MetaFollowsLog, TailWithinLog, LogKeepsPace, Exits
  <2>6. CASE BootVerified(v) \/ BootFailed
    <3>1. rec' = Restored /\ meta.status = "running"
      BY <2>6 DEF BootVerified, BootFailed, Interrupted
    <3>2. rec'.status = "running" /\ ~rec'.tail /\ rec'.log = dlog
      BY <3>1 DEF Restored
    <3> QED
      BY <1>0, <2>1, <2>2, <3>2
      DEF Durable, VerdictDurable, TailWithinLog, LogKeepsPace, Final
  <2>7. CASE BootTail(v)
    <3>1. rec'.status = "running" /\ rec'.tail /\ rec'.emitted = Len(dlog)
      BY <2>7 DEF BootTail, Restored
    <3> QED
      BY <1>0, <2>1, <2>2, <3>1
      DEF Durable, VerdictDurable, TailWithinLog, LogKeepsPace, Final
  <2> QED
    BY <1>2, <2>3, <2>4, <2>5, <2>6, <2>7 DEF Boot
<1>3. CASE BootFinish
  <2> DEFINE code == IF pend = "verified" THEN 0 ELSE 1
             b == <<Ln("text", rec.run), ExitLine(code, rec.run)>>
  <2>1. rec.run \in Runs /\ code \in {0, 1} /\ ~rec.tail
    BY <1>3 DEF BootFinish, StoreInv, TypeOK, Coherent, Record, Runs
  <2>2. /\ b \in Seq(Line) /\ b # <<>> /\ Len(b) = 2
        /\ b[2] = ExitLine(code, rec.run)
    BY <2>1, LineType, ExitLineType DEF Texts
  <2>3. VerdictOfCode(code) \in Final
    BY DEF VerdictOfCode, Final
  <2>4. /\ dlog' = dlog \o b /\ UNCHANGED <<meta, runs>>
        /\ rec' = [rec EXCEPT !.log = @ \o b, !.status = VerdictOfCode(code)]
    BY <1>3 DEF BootFinish, Appends
  <2>5. IsExit(b[2]) /\ VerdictOf(b[2]) = VerdictOfCode(code)
    BY <2>1, <2>2, ExitLineSays
  <2> HIDE DEF b, code
  <2>6. rec'.status = VerdictOfCode(code) /\ rec'.tail = rec.tail
    BY <1>0, <2>4 DEF Record
  <2> QED
    BY <2>1, <2>2, <2>3, <2>4, <2>5, <2>6, EndingKeeps
<1>4. ASSUME NEW l \in Line, ExternalAppend(l) PROVE Durable'
  <2>1. dlog' = dlog \o <<l>> /\ UNCHANGED <<rec, meta, runs>>
    BY <1>0, <1>4, AppendIsConcat DEF ExternalAppend
  <2>2. <<l>> \in Seq(Line)
    OBVIOUS
  <2> QED
    BY <1>0, <2>1, <2>2, GrowingKeeps
<1> QED
  BY <1>1, <1>2, <1>3, <1>4

LEMMA DurableInit == StoreInit => Durable
BY EmptySeq
DEF StoreInit, NoMeta, MetaOf, NoRecord, Durable, VerdictDurable,
    MetaFollowsLog, TailWithinLog, LogKeepsPace, IsRunning, HasRecord

LEMMA DurableStep ==
  ASSUME ~LostWrites, StoreInv, Durable, [AnyLengthNext]_storeVars
  PROVE  Durable'
<1>1. StoreInv'
  BY StoreInvStep
<1>2. CASE AnyLengthNext
  BY <1>1, <1>2, MethodsKeepDurable, TicksKeepDurable, RestartKeepsDurable
  DEF AnyLengthNext, StoreWork, Chatter
<1>3. CASE UNCHANGED storeVars
  BY <1>3
  DEF storeVars, Durable, VerdictDurable, MetaFollowsLog, TailWithinLog,
      LogKeepsPace, IsRunning, HasRecord, Exits
<1> QED
  BY <1>2, <1>3

\* When best-effort writes succeed, deploy.log is the durable truth: a verdict
\* the service announces, and one deploy-record.json holds, can be read in
\* it, whatever is crashed, restarted, torn or appended by others; and a tail
\* never counts more lines than the file has, so that it is never given up.
THEOREM LogIsTruth ==
  ASSUME ~LostWrites
  PROVE  StoreOfAnyLength => [](VerdictDurable /\ MetaFollowsLog /\ TailWithinLog)
<1>1. StoreInv /\ Durable /\ [AnyLengthNext]_storeVars => Durable'
  BY DurableStep
<1>2. Durable => VerdictDurable /\ MetaFollowsLog /\ TailWithinLog
  BY DEF Durable
<1> QED
  BY <1>1, <1>2, DurableInit, StoreInvariance, PTL DEF StoreOfAnyLength

\* deploy-record.json never says more than the log, under the same condition.
THEOREM MetaIsLog == ASSUME ~LostWrites PROVE StoreOfAnyLength => []MetaFollowsLog
<1>1. VerdictDurable /\ MetaFollowsLog /\ TailWithinLog => MetaFollowsLog
  OBVIOUS
<1> QED
  BY <1>1, LogIsTruth, PTL

\* The tail never counts more lines than the file has, so it is never given up.
THEOREM TailInLog == ASSUME ~LostWrites PROVE StoreOfAnyLength => []TailWithinLog
<1>1. VerdictDurable /\ MetaFollowsLog /\ TailWithinLog => TailWithinLog
  OBVIOUS
<1> QED
  BY <1>1, LogIsTruth, PTL

-----------------------------------------------------------------------------
(* Part 4: whose metadata are on disk                                      *)

\* The metadata are those of the record, unless they are to be written next;
\* with no record there are none that can be read.
MetaCurrent ==
  (up /\ pend # "persist") =>
    IF HasRecord THEN meta.file = "ok" /\ meta.run = rec.run ELSE meta.file # "ok"

LEMMA MetaCurrentInit == StoreInit => MetaCurrent
BY DEF StoreInit, NoRecord, NoMeta, MetaOf, MetaCurrent, HasRecord

LEMMA MetaCurrentStep ==
  ASSUME ~LostWrites, StoreInv, MetaCurrent, [AnyLengthNext]_storeVars
  PROVE  MetaCurrent'
<1> USE DEF MetaCurrent, HasRecord, Quiescent, StoreInv, Coherent
<1>0. rec \in Record
  BY DEF TypeOK
<1>1. CASE PersistMeta
  BY <1>1 DEF PersistMeta, MetaOf
<1>2. CASE Start \/ Die
  BY <1>2 DEF Start, Die
<1>3. ASSUME NEW ls, AppendLines(ls) \/ StartTail(ls) PROVE MetaCurrent'
  BY <1>0, <1>3 DEF AppendLines, StartTail, IsRunning, Record
<1>4. ASSUME NEW ls, NEW c, Finish(ls, c) PROVE MetaCurrent'
  BY <1>0, <1>4 DEF Finish
<1>5. ASSUME NEW v, SetSelfUpdate(v) PROVE MetaCurrent'
  BY <1>0, <1>5 DEF SetSelfUpdate
<1>6. CASE Tick \/ BootFinish
  <2>1. UNCHANGED <<up, meta>> /\ rec'.run = rec.run /\ pend # "persist"
    BY <1>0, <1>6
    DEF Tick, TailEmit, TailExit, TailTruncated, TailQuiet, TailExpire, BootFinish, Record
  <2> QED
    BY <2>1
<1>7. ASSUME NEW v, Boot(v) PROVE MetaCurrent'
  <2>1. /\ Restored.run = meta.run
        /\ [Restored EXCEPT !.tail = TRUE, !.emitted = Len(dlog)].run = meta.run
    BY DEF Restored
  <2>2. \A s : [Restored EXCEPT !.status = s].run = meta.run
    BY DEF Restored
  <2>3. UNCHANGED meta /\ (BootNothing \/ (meta.file = "ok" /\ rec'.run = meta.run))
    BY <1>7, <2>1, <2>2
    DEF Boot, BootNothing, BootReconcile, BootDecided, BootVerified, BootTail, BootFailed,
        Interrupted
  <2> QED
    BY <1>7, <2>3 DEF BootNothing
<1>8. ASSUME NEW l, ExternalAppend(l) PROVE MetaCurrent'
  BY <1>8 DEF ExternalAppend
<1>9. CASE UNCHANGED storeVars
  BY <1>9 DEF storeVars
<1> QED
  BY <1>1, <1>2, <1>3, <1>4, <1>5, <1>6, <1>7, <1>8, <1>9
  DEF AnyLengthNext, StoreWork, Chatter

\* The metadata on disk are those of the run the service has, before anybody
\* can learn of it: a job that was accepted does not depend on memory.
THEOREM MetaIsCurrent == ASSUME ~LostWrites PROVE StoreOfAnyLength => []MetaCurrent
<1>1. StoreInv /\ MetaCurrent /\ [AnyLengthNext]_storeVars => MetaCurrent'
  BY MetaCurrentStep
<1> QED
  BY <1>1, MetaCurrentInit, StoreInvariance, PTL DEF StoreOfAnyLength

=============================================================================
