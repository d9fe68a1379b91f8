-------------------------- MODULE StorageMigrations --------------------------
(***************************************************************************)
(* prepareStorageMigrations and withMigrationLock                          *)
(* (git-flow-deploy, shared-storage.ts): the gateway's replicas, each      *)
(* deploying some release of the same service, apply the migration files   *)
(* of its bundle to the storage they share.                                *)
(*                                                                         *)
(* A lock file created with O_EXCL serializes them; whoever finds it older *)
(* than staleMs removes it.  Every await is a step of its own.  A file has *)
(* one mapping here, from a source to Target[f].                           *)
(***************************************************************************)
EXTENDS Naturals

CONSTANTS
  Replicas,
  Nobody,       \* the creator of a lock file that is not there
  NumFiles,     \* migration files, numbered in their order of execution
  Dests,        \* directories of the service's storage
  Target,       \* the directory a file copies to
  Sources,      \* the files whose source exists
  MaxCrashes,   \* bound: how many replicas die in a run
  SlowHolder,   \* TRUE: a live holder may keep the lock for over staleMs
  CopyMayFail   \* TRUE: cp() may throw half way

Files == 1..NumFiles

ASSUME MigrationsAssumption ==
  /\ Nobody \notin Replicas
  /\ NumFiles \in Nat
  /\ Target \in [Files -> Dests]
  /\ Sources \subseteq Files
  /\ MaxCrashes \in Nat
  /\ {SlowHolder, CopyMayFail} \subseteq BOOLEAN

VARIABLES
  holder,   \* who created the lock file that is there
  stale,    \* it is older than staleMs
  ledger,   \* the files recorded in .storage-migrations.yml
  data,     \* what is in each directory
  pc,       \* the next await of each replica's run
  done,     \* the ledger as the replica read it, plus what it applied
  next,     \* the file the replica is at
  crashes

vars == <<holder, stale, ledger, data, pc, done, next, crashes>>

-----------------------------------------------------------------------------
Held == holder # Nobody

\* `own': data the service put there itself, newer than any migration.
Contents == {"empty", "partial", "full", "own"}

Waiting  == {"create", "stat", "break"}
Copying  == {"copy", "copying", "append"}
Critical == {"read", "file", "release"} \cup Copying

Goto(p, l) == pc' = [pc EXCEPT ![p] = l]
Local(p)   == UNCHANGED <<holder, stale, ledger, data, done, next, crashes>>

-----------------------------------------------------------------------------
(* withMigrationLock *)

\* A deploy of a bundle with migrations; no files, no run.
Begin(p) ==
  /\ pc[p] = "idle"
  /\ NumFiles > 0
  /\ Goto(p, "create")
  /\ Local(p)

\* A plausible bug, for the checks: flag 'w'.
CreateAnyway(p) ==
  /\ pc[p] = "create"
  /\ holder' = p
  /\ stale' = FALSE
  /\ Goto(p, "read")
  /\ UNCHANGED <<ledger, data, done, next, crashes>>

\* writeFile(lockPath, ..., { flag: 'wx' })
Create(p) ==
  /\ pc[p] = "create"
  /\ ~Held
  /\ holder' = p
  /\ stale' = FALSE
  /\ Goto(p, "read")
  /\ UNCHANGED <<ledger, data, done, next, crashes>>

Exists(p) ==
  /\ pc[p] = "create"
  /\ Held
  /\ Goto(p, "stat")
  /\ Local(p)

\* Released between create and stat, or fresh: try again (after pollMs).
Retry(p) ==
  /\ pc[p] = "stat"
  /\ Held => ~stale
  /\ Goto(p, "create")
  /\ Local(p)

GiveUp(p) ==
  /\ pc[p] = "stat"
  /\ Held /\ ~stale
  /\ Goto(p, "idle")
  /\ Local(p)

FindStale(p) ==
  /\ pc[p] = "stat"
  /\ Held /\ stale
  /\ Goto(p, "break")
  /\ Local(p)

\* rm(lockPath, { force: true }): whatever lock is there by now
Break(p) ==
  /\ pc[p] = "break"
  /\ holder' = Nobody
  /\ stale' = FALSE
  /\ Goto(p, "create")
  /\ UNCHANGED <<ledger, data, done, next, crashes>>

-----------------------------------------------------------------------------
(* The run under the lock *)

\* A plausible bug, for the checks: the ledger is taken for empty.
ReadNoLedger(p) ==
  /\ pc[p] = "read"
  /\ done' = [done EXCEPT ![p] = {}]
  /\ next' = [next EXCEPT ![p] = 1]
  /\ Goto(p, "file")
  /\ UNCHANGED <<holder, stale, ledger, data, crashes>>

ReadLedger(p) ==
  /\ pc[p] = "read"
  /\ done' = [done EXCEPT ![p] = ledger]
  /\ next' = [next EXCEPT ![p] = 1]
  /\ Goto(p, "file")
  /\ UNCHANGED <<holder, stale, ledger, data, crashes>>

SkipApplied(p) ==
  /\ pc[p] = "file"
  /\ next[p] \in done[p]
  /\ next' = [next EXCEPT ![p] = @ + 1]
  /\ UNCHANGED <<holder, stale, ledger, data, pc, done, crashes>>

\* Nothing to migrate, or the target is not empty: the file counts as applied.
SkipMapping(p) ==
  /\ pc[p] = "file"
  /\ next[p] \in Files \ done[p]
  /\ next[p] \notin Sources \/ data[Target[next[p]]] # "empty"
  /\ Goto(p, "append")
  /\ Local(p)

\* A plausible bug, for the checks: no look at the target.
FindAny(p) ==
  /\ pc[p] = "file"
  /\ next[p] \in Sources \ done[p]
  /\ Goto(p, "copy")
  /\ Local(p)

FindEmpty(p) ==
  /\ pc[p] = "file"
  /\ next[p] \in Sources \ done[p]
  /\ data[Target[next[p]]] = "empty"
  /\ Goto(p, "copy")
  /\ Local(p)

\* cp() creates the target and fills it
CopyStart(p) ==
  /\ pc[p] = "copy"
  /\ data' = [data EXCEPT ![Target[next[p]]] = "partial"]
  /\ Goto(p, "copying")
  /\ UNCHANGED <<holder, stale, ledger, done, next, crashes>>

\* A plausible bug, for the checks: the copy is not awaited.
CopyUnawaited(p) ==
  /\ pc[p] = "copying"
  /\ Goto(p, "append")
  /\ Local(p)

\* ... and the marker is written
CopyEnd(p) ==
  /\ pc[p] = "copying"
  /\ data' = [data EXCEPT ![Target[next[p]]] = "full"]
  /\ Goto(p, "append")
  /\ UNCHANGED <<holder, stale, ledger, done, next, crashes>>

\* A plausible bug, for the checks: the next file is tried.
CopyFailsOn(p) ==
  /\ CopyMayFail
  /\ pc[p] = "copying"
  /\ next' = [next EXCEPT ![p] = @ + 1]
  /\ Goto(p, "file")
  /\ UNCHANGED <<holder, stale, ledger, data, done, crashes>>

CopyFails(p) ==
  /\ CopyMayFail
  /\ pc[p] = "copying"
  /\ Goto(p, "release")
  /\ Local(p)

\* A plausible bug, for the checks: one file too far.
AppendAndSkip(p) ==
  /\ pc[p] = "append"
  /\ ledger' = ledger \cup {next[p]}
  /\ done' = [done EXCEPT ![p] = @ \cup {next[p]}]
  /\ next' = [next EXCEPT ![p] = @ + 2]
  /\ Goto(p, "file")
  /\ UNCHANGED <<holder, stale, data, crashes>>

AppendLedgerEntry(p) ==
  /\ pc[p] = "append"
  /\ ledger' = ledger \cup {next[p]}
  /\ done' = [done EXCEPT ![p] = @ \cup {next[p]}]
  /\ next' = [next EXCEPT ![p] = @ + 1]
  /\ Goto(p, "file")
  /\ UNCHANGED <<holder, stale, data, crashes>>

AllApplied(p) ==
  /\ pc[p] = "file"
  /\ next[p] > NumFiles
  /\ Goto(p, "release")
  /\ Local(p)

\* finally: rm(lockPath, { force: true })
Release(p) ==
  /\ pc[p] = "release"
  /\ holder' = Nobody
  /\ stale' = FALSE
  /\ Goto(p, "idle")
  /\ UNCHANGED <<ledger, data, done, next, crashes>>

-----------------------------------------------------------------------------
Crash(p) ==
  /\ crashes < MaxCrashes
  /\ pc[p] # "idle"
  /\ crashes' = crashes + 1
  /\ Goto(p, "idle")
  /\ UNCHANGED <<holder, stale, ledger, data, done, next>>

\* The lock gets older than staleMs.
Age ==
  /\ Held /\ ~stale
  /\ SlowHolder \/ pc[holder] \notin Critical
  /\ stale' = TRUE
  /\ UNCHANGED <<holder, ledger, data, pc, done, next, crashes>>

Init ==
  /\ holder = Nobody
  /\ stale = FALSE
  /\ ledger = {}
  /\ data \in [Dests -> {"empty", "own"}]
  /\ pc = [p \in Replicas |-> "idle"]
  /\ done = [p \in Replicas |-> {}]
  /\ next = [p \in Replicas |-> 1]
  /\ crashes = 0

Replica(p) ==
  \/ Begin(p)
  \/ Create(p) \/ Exists(p) \/ Retry(p) \/ GiveUp(p) \/ FindStale(p) \/ Break(p)
  \/ ReadLedger(p) \/ SkipApplied(p) \/ SkipMapping(p) \/ FindEmpty(p)
  \/ CopyStart(p) \/ CopyEnd(p) \/ CopyFails(p) \/ AppendLedgerEntry(p)
  \/ AllApplied(p) \/ Release(p)
  \/ Crash(p)

Next == Age \/ \E p \in Replicas : Replica(p)

Spec == Init /\ [][Next]_vars

-----------------------------------------------------------------------------
TypeOK ==
  /\ holder \in Replicas \cup {Nobody}
  /\ stale \in BOOLEAN
  /\ ledger \subseteq Files
  /\ data \in [Dests -> Contents]
  /\ pc \in [Replicas -> {"idle"} \cup Waiting \cup Critical]
  /\ done \in [Replicas -> SUBSET Files]
  /\ next \in [Replicas -> 1..(NumFiles + 1)]
  /\ crashes \in 0..MaxCrashes

(* "the create still admits only one" (withMigrationLock): one replica at a  *)
(* time reads the ledger, copies and appends.                                *)
MutualExclusion ==
  \A p, q \in Replicas : {pc[p], pc[q]} \subseteq Critical => p = q

(* "an applied file is NEVER run again": what a replica is about to apply is *)
(* not in the ledger, whoever put it there.                                  *)
AppliedOnce ==
  \A p \in Replicas : pc[p] \in Copying => next[p] \notin ledger

(* The ledger "records each file that has completed": its target holds all   *)
(* of the source, or data of its own, never the half of an interrupted copy. *)
LedgerMeansData ==
  \A f \in ledger \cap Sources : data[Target[f]] \in {"full", "own"}

(* Files complete in their order of execution.                               *)
LedgerInOrder == \A f \in ledger : \A g \in Files : g < f => g \in ledger

(* "migrate-if-empty so newer data is never clobbered", whatever crashes and *)
(* whoever breaks whose lock.                                                *)
KeepsNewerData ==
  [][\A d \in Dests : data[d] = "own" => data'[d] = "own"]_vars

==============================================================================
