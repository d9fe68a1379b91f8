---------------------- MODULE StorageMigrationsProofs ------------------------
(***************************************************************************)
(* Proofs about StorageMigrations, for any number of replicas, files and   *)
(* directories.                                                            *)
(*                                                                         *)
(* What holds whatever crashes and whoever breaks whose lock: the types,   *)
(* the order of the ledger, and that data of the service itself is kept.   *)
(* What needs that nobody dies, outlives staleMs or fails half way: mutual *)
(* exclusion, that no file is applied twice, and that the ledger means     *)
(* data.  With deaths, exclusion is left as long as no lock is broken that *)
(* is not stale any more.                                                  *)
(***************************************************************************)
EXTENDS StorageMigrations, TLAPS

-----------------------------------------------------------------------------
(* Part 1: without assumptions *)

\* What a replica knows is in the ledger, in order; what it copies over is
\* not the service's own data.
Knows(p) ==
  /\ done[p] \subseteq ledger
  /\ pc[p] \in Copying => next[p] \in Files
  /\ pc[p] \in {"file"} \cup Copying =>
       \A g \in Files : g < next[p] => g \in ledger
  /\ pc[p] \in {"copy", "copying"} => data[Target[next[p]]] # "own"

OrderInv ==
  /\ TypeOK
  /\ \A p \in Replicas : Knows(p)
  /\ LedgerInOrder

LEMMA OrderInit == Init => OrderInv
<1> SUFFICES ASSUME Init PROVE OrderInv
  OBVIOUS
<1> USE MigrationsAssumption DEF Init, Contents, Waiting, Copying, Critical
<1>1. TypeOK
  <2>1. data \in [Dests -> Contents]
    BY [Dests -> {"empty", "own"}] \subseteq [Dests -> Contents]
  <2>2. pc \in [Replicas -> {"idle"} \cup Waiting \cup Critical]
    OBVIOUS
  <2>3. next \in [Replicas -> 1..(NumFiles + 1)]
    OBVIOUS
  <2>4. done \in [Replicas -> SUBSET Files]
    OBVIOUS
  <2>5. crashes \in 0..MaxCrashes /\ ledger \subseteq Files
    OBVIOUS
  <2>6. holder \in Replicas \cup {Nobody} /\ stale \in BOOLEAN
    OBVIOUS
  <2> QED
    BY <2>1, <2>2, <2>3, <2>4, <2>5, <2>6 DEF TypeOK
<1>2. (\A p \in Replicas : Knows(p)) /\ LedgerInOrder
  BY DEF Knows, LedgerInOrder
<1> QED
  BY <1>1, <1>2 DEF OrderInv

LEMMA OrderStep == OrderInv /\ [Next]_vars => OrderInv'
<1> SUFFICES ASSUME OrderInv, [Next]_vars PROVE OrderInv'
  OBVIOUS
<1> USE MigrationsAssumption
    DEF OrderInv, TypeOK, Knows, LedgerInOrder, Files, Contents, Waiting,
        Copying, Critical, Goto, Local
<1>1. CASE Age
  BY <1>1 DEF Age, Held
<1>2. ASSUME NEW p \in Replicas, Replica(p) PROVE OrderInv'
  <2>1. CASE Begin(p)
    BY <2>1 DEF Begin
  <2>2. CASE Exists(p)
    BY <2>2 DEF Exists
  <2>3. CASE Retry(p)
    BY <2>3 DEF Retry
  <2>4. CASE GiveUp(p)
    BY <2>4 DEF GiveUp
  <2>5. CASE FindStale(p)
    BY <2>5 DEF FindStale
  <2>6. CASE Create(p)
    BY <2>6 DEF Create
  <2>7. CASE Break(p)
    BY <2>7 DEF Break
  <2>8. CASE Release(p)
    BY <2>8 DEF Release
  <2>9. CASE ReadLedger(p)
    BY <2>9 DEF ReadLedger
  <2>10. CASE SkipApplied(p)
    <3>1. next[p] \in Files /\ next[p] \in ledger
      BY <2>10 DEF SkipApplied
    <3>2. next' \in [Replicas -> 1..(NumFiles + 1)]
      BY <2>10, <3>1 DEF SkipApplied
    <3>3. TypeOK'
      BY <2>10, <3>2 DEF SkipApplied
    <3>4. \A q \in Replicas : Knows(q)'
      BY <2>10, <3>1 DEF SkipApplied
    <3> QED
      BY <2>10, <3>3, <3>4 DEF SkipApplied
  <2>11. CASE SkipMapping(p)
    BY <2>11 DEF SkipMapping
  <2>12. CASE FindEmpty(p)
    BY <2>12 DEF FindEmpty
  <2>13. CASE CopyStart(p)
    BY <2>13 DEF CopyStart
  <2>14. CASE CopyEnd(p)
    BY <2>14 DEF CopyEnd
  <2>15. CASE CopyFails(p)
    BY <2>15 DEF CopyFails
  <2>16. CASE AppendLedgerEntry(p)
    <3>1. next[p] \in Files
      BY <2>16 DEF AppendLedgerEntry
    <3>2. next' \in [Replicas -> 1..(NumFiles + 1)]
      BY <2>16, <3>1 DEF AppendLedgerEntry
    <3>3. TypeOK'
      BY <2>16, <3>1, <3>2 DEF AppendLedgerEntry
    <3>4. \A q \in Replicas : Knows(q)'
      BY <2>16, <3>1 DEF AppendLedgerEntry
    <3>5. LedgerInOrder'
      BY <2>16, <3>1 DEF AppendLedgerEntry
    <3> QED
      BY <3>3, <3>4, <3>5
  <2>17. CASE AllApplied(p)
    BY <2>17 DEF AllApplied
  <2>18. CASE Crash(p)
    BY <2>18 DEF Crash
  <2> QED
    BY <1>2, <2>1, <2>2, <2>3, <2>4, <2>5, <2>6, <2>7, <2>8, <2>9, <2>10,
       <2>11, <2>12, <2>13, <2>14, <2>15, <2>16, <2>17, <2>18 DEF Replica
<1>3. CASE UNCHANGED vars
  BY <1>3 DEF vars
<1> QED
  BY <1>1, <1>2, <1>3 DEF Next

LEMMA OrderInvariance == Spec => []OrderInv
BY OrderInit, OrderStep, PTL DEF Spec

\* Types, for every number of replicas and files.
THEOREM TypeInvariance == Spec => []TypeOK
<1>1. OrderInv => TypeOK
  BY DEF OrderInv
<1> QED
  BY <1>1, OrderInvariance, PTL

\* The ledger grows in the order in which the files are to be executed, even
\* when two replicas have both broken into the lock.
THEOREM LedgerOrder == Spec => []LedgerInOrder
<1>1. OrderInv => LedgerInOrder
  BY DEF OrderInv
<1> QED
  BY <1>1, OrderInvariance, PTL

\* Data the service has put into a directory is never overwritten.
THEOREM NewerDataKept == Spec => KeepsNewerData
<1>1. OrderInv /\ [Next]_vars =>
        [\A d \in Dests : data[d] = "own" => data'[d] = "own"]_vars
  <2> SUFFICES ASSUME OrderInv, Next, NEW d \in Dests, data[d] = "own"
               PROVE  data'[d] = "own"
    OBVIOUS
  <2> USE MigrationsAssumption DEF OrderInv, TypeOK, Knows, Contents, Copying
  <2>1. CASE Age
    BY <2>1 DEF Age
  <2>2. ASSUME NEW p \in Replicas, CopyStart(p) \/ CopyEnd(p)
        PROVE  data'[d] = "own"
    <3>1. data[Target[next[p]]] # "own"
      BY <2>2 DEF CopyStart, CopyEnd
    <3> QED
      BY <2>2, <3>1 DEF CopyStart, CopyEnd
  <2>3. ASSUME NEW p \in Replicas, Replica(p), ~CopyStart(p), ~CopyEnd(p)
        PROVE  data'[d] = "own"
    BY <2>3 DEF Replica, Local, Begin, Create, Exists, Retry, GiveUp, FindStale,
       Break, ReadLedger, SkipApplied, SkipMapping, FindEmpty, CopyFails,
       AppendLedgerEntry, AllApplied, Release, Crash
  <2> QED
    BY <2>1, <2>2, <2>3 DEF Next
<1> QED
  BY <1>1, OrderInvariance, PTL DEF Spec, KeepsNewerData

-----------------------------------------------------------------------------
(* Part 2: nobody dies, and nobody outlives staleMs *)

\* The lock file is its creator's until the creator removes it.
LockInv ==
  /\ OrderInv
  /\ crashes = 0
  /\ ~stale
  /\ holder # Nobody => pc[holder] \in Critical
  /\ \A p \in Replicas :
       /\ pc[p] # "break"
       /\ pc[p] \in Critical => holder = p
       /\ pc[p] \in {"file"} \cup Copying => done[p] = ledger
       /\ pc[p] \in Copying => next[p] \notin done[p]

LEMMA LockInit == Init => LockInv
BY OrderInit, MigrationsAssumption DEF Init, LockInv, Critical, Copying

LEMMA LockStep ==
  ASSUME MaxCrashes = 0, ~SlowHolder
  PROVE  LockInv /\ [Next]_vars => LockInv'
<1> SUFFICES ASSUME LockInv, [Next]_vars PROVE LockInv'
  OBVIOUS
<1>0. OrderInv'
  BY OrderStep DEF LockInv
<1> USE <1>0, MigrationsAssumption
    DEF LockInv, OrderInv, TypeOK, Waiting, Copying, Critical, Goto, Local, Held
<1>1. CASE Age
  BY <1>1 DEF Age
<1>2. ASSUME NEW p \in Replicas, Replica(p) PROVE LockInv'
  <2>1. CASE Begin(p)
    BY <2>1 DEF Begin
  <2>2. CASE Exists(p)
    BY <2>2 DEF Exists
  <2>3. CASE Retry(p)
    BY <2>3 DEF Retry
  <2>4. CASE GiveUp(p)
    BY <2>4 DEF GiveUp
  <2>5. CASE FindStale(p)
    BY <2>5 DEF FindStale
  <2>6. CASE Create(p)
    BY <2>6 DEF Create
  <2>7. CASE Break(p)
    BY <2>7 DEF Break
  <2>8. CASE Release(p)
    BY <2>8 DEF Release
  <2>9. CASE ReadLedger(p)
    BY <2>9 DEF ReadLedger
  <2>10. CASE SkipApplied(p)
    BY <2>10 DEF SkipApplied
  <2>11. CASE SkipMapping(p)
    BY <2>11 DEF SkipMapping
  <2>12. CASE FindEmpty(p)
    BY <2>12 DEF FindEmpty
  <2>13. CASE CopyStart(p)
    BY <2>13 DEF CopyStart
  <2>14. CASE CopyEnd(p)
    BY <2>14 DEF CopyEnd
  <2>15. CASE CopyFails(p)
    BY <2>15 DEF CopyFails
  <2>16. CASE AppendLedgerEntry(p)
    BY <2>16 DEF AppendLedgerEntry
  <2>17. CASE AllApplied(p)
    BY <2>17 DEF AllApplied
  <2>18. CASE Crash(p)
    BY <2>18 DEF Crash
  <2> QED
    BY <1>2, <2>1, <2>2, <2>3, <2>4, <2>5, <2>6, <2>7, <2>8, <2>9,
       <2>10, <2>11, <2>12, <2>13, <2>14, <2>15, <2>16, <2>17, <2>18 DEF Replica
<1>3. CASE UNCHANGED vars
  BY <1>3 DEF vars
<1> QED
  BY <1>1, <1>2, <1>3 DEF Next

LEMMA LockInvariance ==
  ASSUME MaxCrashes = 0, ~SlowHolder
  PROVE  Spec => []LockInv
BY LockInit, LockStep, PTL DEF Spec

\* One replica at a time is under the lock.
THEOREM Exclusion ==
  ASSUME MaxCrashes = 0, ~SlowHolder
  PROVE  Spec => []MutualExclusion
<1>1. LockInv => MutualExclusion
  BY DEF LockInv, MutualExclusion
<1> QED
  BY <1>1, LockInvariance, PTL

\* No file is applied twice.
THEOREM OnlyOnce ==
  ASSUME MaxCrashes = 0, ~SlowHolder
  PROVE  Spec => []AppliedOnce
<1>1. LockInv => AppliedOnce
  BY DEF LockInv, AppliedOnce, Copying
<1> QED
  BY <1>1, LockInvariance, PTL

-----------------------------------------------------------------------------
(* Part 3: and no copy fails half way *)

\* Half a copy belongs to the replica that is copying.
DataInv ==
  /\ LockInv
  /\ \A d \in Dests : data[d] = "partial" =>
       holder # Nobody /\ pc[holder] = "copying" /\ Target[next[holder]] = d
  /\ \A p \in Replicas :
       /\ pc[p] = "copy" => data[Target[next[p]]] = "empty"
       /\ pc[p] = "append" /\ next[p] \in Sources =>
            data[Target[next[p]]] \in {"full", "own"}
  /\ LedgerMeansData

LEMMA DataInit == Init => DataInv
<1> SUFFICES ASSUME Init PROVE DataInv
  OBVIOUS
<1>1. \A d \in Dests : data[d] # "partial"
  BY DEF Init
<1> QED
  BY <1>1, LockInit DEF Init, DataInv, LedgerMeansData

LEMMA DataStep ==
  ASSUME MaxCrashes = 0, ~SlowHolder, ~CopyMayFail
  PROVE  DataInv /\ [Next]_vars => DataInv'
<1> SUFFICES ASSUME DataInv, [Next]_vars PROVE DataInv'
  OBVIOUS
<1>0. LockInv'
  BY LockStep DEF DataInv
<1> USE <1>0, MigrationsAssumption
    DEF DataInv, LockInv, OrderInv, TypeOK, Knows, LedgerMeansData, Contents,
        Waiting, Copying, Critical, Goto, Local, Held
<1>1. CASE Age
  BY <1>1 DEF Age
<1>2. ASSUME NEW p \in Replicas, Replica(p) PROVE DataInv'
  <2>1. CASE Begin(p)
    BY <2>1 DEF Begin
  <2>2. CASE Exists(p)
    BY <2>2 DEF Exists
  <2>3. CASE Retry(p)
    BY <2>3 DEF Retry
  <2>4. CASE GiveUp(p)
    BY <2>4 DEF GiveUp
  <2>5. CASE FindStale(p)
    BY <2>5 DEF FindStale
  <2>6. CASE Create(p)
    BY <2>6 DEF Create
  <2>7. CASE Break(p)
    BY <2>7 DEF Break
  <2>8. CASE Release(p)
    BY <2>8 DEF Release
  <2>9. CASE ReadLedger(p)
    BY <2>9 DEF ReadLedger
  <2>10. CASE SkipApplied(p)
    BY <2>10 DEF SkipApplied
  <2>11. CASE SkipMapping(p)
    BY <2>11 DEF SkipMapping
  <2>12. CASE FindEmpty(p)
    BY <2>12 DEF FindEmpty
  <2>13. CASE CopyStart(p)
    BY <2>13 DEF CopyStart
  <2>14. CASE CopyEnd(p)
    BY <2>14 DEF CopyEnd
  <2>15. CASE CopyFails(p)
    BY <2>15 DEF CopyFails
  <2>16. CASE AppendLedgerEntry(p)
    BY <2>16 DEF AppendLedgerEntry
  <2>17. CASE AllApplied(p)
    BY <2>17 DEF AllApplied
  <2>18. CASE Crash(p)
    BY <2>18 DEF Crash
  <2> QED
    BY <1>2, <2>1, <2>2, <2>3, <2>4, <2>5, <2>6, <2>7, <2>8, <2>9,
       <2>10, <2>11, <2>12, <2>13, <2>14, <2>15, <2>16, <2>17, <2>18 DEF Replica
<1>3. CASE UNCHANGED vars
  BY <1>3 DEF vars
<1> QED
  BY <1>1, <1>2, <1>3 DEF Next

\* What the ledger records is there.
THEOREM LedgerIsTrue ==
  ASSUME MaxCrashes = 0, ~SlowHolder, ~CopyMayFail
  PROVE  Spec => []LedgerMeansData
<1>1. DataInv => LedgerMeansData
  BY DEF DataInv
<1> QED
  BY <1>1, DataInit, DataStep, PTL DEF Spec
-----------------------------------------------------------------------------
(* Part 4: replicas die, and locks are broken in time *)

\* A lock is removed only while it is stale: nobody acts on what it saw of a
\* lock that another replica has removed since (shared-storage.ts:333).
Timely == \A p \in Replicas : Break(p) => stale

\* A stale lock has lost its creator, or the creator waits for it like others.
OrphanInv ==
  /\ OrderInv
  /\ stale => holder # Nobody /\ pc[holder] \notin Critical
  /\ \A p \in Replicas :
       /\ pc[p] \in Critical => holder = p
       /\ pc[p] \in {"file"} \cup Copying => done[p] = ledger
       /\ pc[p] \in Copying => next[p] \notin done[p]

LEMMA OrphanInit == Init => OrphanInv
BY OrderInit, MigrationsAssumption DEF Init, OrphanInv, Critical, Copying

LEMMA OrphanStep ==
  ASSUME ~SlowHolder
  PROVE  OrphanInv /\ [Next]_vars /\ [Timely]_vars => OrphanInv'
<1> SUFFICES ASSUME OrphanInv, [Next]_vars, [Timely]_vars PROVE OrphanInv'
  OBVIOUS
<1>0. OrderInv'
  BY OrderStep DEF OrphanInv
<1> USE <1>0, MigrationsAssumption
    DEF OrphanInv, OrderInv, TypeOK, Waiting, Copying, Critical, Goto, Local, Held
<1>1. CASE Age
  BY <1>1 DEF Age
<1>2. CASE UNCHANGED vars
  BY <1>2 DEF vars
<1>3. ASSUME NEW p \in Replicas, Replica(p), Timely PROVE OrphanInv'
  <2>1. CASE Begin(p)
    BY <2>1 DEF Begin
  <2>2. CASE Exists(p)
    BY <2>2 DEF Exists
  <2>3. CASE Retry(p)
    BY <2>3 DEF Retry
  <2>4. CASE GiveUp(p)
    BY <2>4 DEF GiveUp
  <2>5. CASE FindStale(p)
    BY <2>5 DEF FindStale
  <2>6. CASE Create(p)
    BY <2>6 DEF Create
  <2>7. CASE Break(p)
    BY <2>7, <1>3 DEF Break, Timely
  <2>8. CASE Release(p)
    BY <2>8 DEF Release
  <2>9. CASE ReadLedger(p)
    BY <2>9 DEF ReadLedger
  <2>10. CASE SkipApplied(p)
    BY <2>10 DEF SkipApplied
  <2>11. CASE SkipMapping(p)
    BY <2>11 DEF SkipMapping
  <2>12. CASE FindEmpty(p)
    BY <2>12 DEF FindEmpty
  <2>13. CASE CopyStart(p)
    BY <2>13 DEF CopyStart
  <2>14. CASE CopyEnd(p)
    BY <2>14 DEF CopyEnd
  <2>15. CASE CopyFails(p)
    BY <2>15 DEF CopyFails
  <2>16. CASE AppendLedgerEntry(p)
    BY <2>16 DEF AppendLedgerEntry
  <2>17. CASE AllApplied(p)
    BY <2>17 DEF AllApplied
  <2>18. CASE Crash(p)
    BY <2>18 DEF Crash
  <2> QED
    BY <1>3, <2>1, <2>2, <2>3, <2>4, <2>5, <2>6, <2>7, <2>8, <2>9,
       <2>10, <2>11, <2>12, <2>13, <2>14, <2>15, <2>16, <2>17, <2>18 DEF Replica
<1> QED
  BY <1>1, <1>2, <1>3 DEF Next

LEMMA OrphanInvariance ==
  ASSUME ~SlowHolder
  PROVE  Spec /\ [][Timely]_vars => []OrphanInv
BY OrphanInit, OrphanStep, PTL DEF Spec

\* However many replicas die in the middle of a run, one at a time is under the
\* lock, as long as no lock is broken that is not stale any more.
THEOREM ExclusionWithCrashes ==
  ASSUME ~SlowHolder
  PROVE  Spec /\ [][Timely]_vars => []MutualExclusion
<1>1. OrphanInv => MutualExclusion
  BY DEF OrphanInv, MutualExclusion
<1> QED
  BY <1>1, OrphanInvariance, PTL

\* And what a dead replica has recorded is not applied again.
THEOREM OnlyOnceWithCrashes ==
  ASSUME ~SlowHolder
  PROVE  Spec /\ [][Timely]_vars => []AppliedOnce
<1>1. OrphanInv => AppliedOnce
  BY DEF OrphanInv, AppliedOnce, Copying
<1> QED
  BY <1>1, OrphanInvariance, PTL
==============================================================================
