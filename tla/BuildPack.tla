------------------------------ MODULE BuildPack ------------------------------
(***************************************************************************)
(* The build-pack job: runBuildPack with executePack and executeUpload for *)
(* each release project, and the clean-up of the action after a failure.   *)
(*                                                                         *)
(* The scheduler (runScripts, not in this repository) runs the build of a  *)
(* project when those of its workspace dependencies have passed, several   *)
(* at a time; packing and uploading hang on the end of the build, so the   *)
(* steps of different projects interleave.  Any of these steps may fail,   *)
(* and the job may be killed between any two; MaxFaults bounds both.       *)
(***************************************************************************)
EXTENDS GitHubReleases, Sequences

CONSTANTS
    Workspace,   \* every project discovered in the workspace
    Deps,        \* dependencies and devDependencies within the workspace
    Packs,       \* what a release project packs: "ng-lib", "npm", "image"
    AssetSeq,    \* the assets of a release in the order of their upload
    MaxFaults    \* bound: failing steps, killed jobs, foreign clean-ups

ASSUME BuildAssumption ==
    /\ Projects \subseteq Workspace
    /\ Deps \in [Workspace -> SUBSET Workspace]
    /\ Packs \in [Projects -> SUBSET {"ng-lib", "npm", "image"}]
    /\ AssetSeq \in [Projects -> Seq(Assets)]
    /\ \A p \in Projects : AssetSeq[p] # <<>>
    /\ MaxFaults \in Nat

VARIABLES
    job,       \* where the workflow stands
    faults,    \* faults so far
    suffixed,  \* the version ends in .build.N
    build,     \* the number of this attempt
    forced,    \* the drafts that Force Rebuild has still to delete
    relId,     \* project.releaseId of the run
    task,      \* the step each project is at
    at,        \* the asset being uploaded
    before,    \* ng-lib: the staging directory before pnpm pack
    staging,   \* the projects whose tarball is in the staging directory
    tarball,   \* whose tarball the descriptor of a project names
    image,     \* the build of the image under the project's temp tag
    disturbed  \* history: what else got in the way

runVars == <<build, forced, relId, task, at, before, staging, tarball, image>>
buildVars == <<job, faults, suffixed, runVars, disturbed>>

None == "none"
Working == {"snapshot", "pack", "login", "draft", "clear", "put", "mark"}
Settled == {None, "passed", "failed", "cancelled"}
Tasks == {"wait", "build"} \cup Working \cup Settled

\* findAllDependencies: the projects to release and everything in the
\* workspace they need, directly or not
Closed(S) == \A w \in S : Deps[w] \subseteq S
AllDependencies(R) ==
    {w \in Workspace : \A S \in SUBSET Workspace : R \subseteq S /\ Closed(S) => w \in S}

Fault == faults < MaxFaults /\ faults' = faults + 1

(***************************************************************************)
(* One attempt: read the PR, delete drafts if asked to, look for what an   *)
(* earlier attempt completed.                                              *)
(***************************************************************************)
\* run() of the action, extractPRMetadata, buildProjectConfigs.  The box for
\* Force Rebuild may be ticked; the checkout and its directories are new.
StartBuild ==
    /\ build < MaxBuilds
    /\ job' = "plan"
    /\ build' = build + 1
    /\ forced' \in {{}, Projects}
    /\ relId' = prIds
    /\ task' = [w \in Workspace |-> None]
    /\ at' = [p \in Projects |-> 1]
    /\ before' = [p \in Projects |-> {}]
    /\ staging' = {}
    /\ tarball' = [p \in Projects |-> None]
    /\ UNCHANGED <<gitHubVars, faults, suffixed, image>>

DeleteForced(p) ==
    /\ job = "plan"
    /\ p \in forced
    /\ forced' = forced \ {p}
    /\ DeleteDraft(p, relId[p])
    /\ UNCHANGED <<made, tags, prIds, job, faults, suffixed, build, relId, task, at,
                   before, staging, tarball, image, disturbed>>

\* findCompletedProjects looks for an asset named after the descriptor; the
\* uploads of this repository publish none of that name.
DescriptorAsset == "artifact.yml"
Completed(p) ==
    LET i == Resolve(p, relId[p])
    IN  i # 0 /\ DescriptorAsset \in Assets /\ rels[i].assets[DescriptorAsset] # 0

Plan ==
    LET skip == {p \in Projects : Completed(p)}
        all  == AllDependencies(Projects \ skip)
    IN  /\ job = "plan"
        /\ forced = {}
        /\ relId' = [p \in Projects |-> IF Resolve(p, relId[p]) # 0
                                        THEN Resolve(p, relId[p]) ELSE relId[p]]
        /\ task' = [w \in Workspace |-> IF w \in all THEN "wait" ELSE None]
        /\ job' = "build"
        /\ UNCHANGED <<gitHubVars, faults, suffixed, build, forced, at, before, staging,
                       tarball, image, disturbed>>

(***************************************************************************)
(* The tasks.                                                              *)
(***************************************************************************)
Goes(w, s) == task' = [task EXCEPT ![w] = s]

\* Fail-fast: the scheduler starts no further build and stops those that run;
\* a project that is being packed or uploaded carries on.
Fails(w) ==
    task' = [v \in Workspace |-> IF v = w THEN "failed"
                                 ELSE IF task[v] \in {"wait", "build"} THEN "cancelled"
                                 ELSE task[v]]

\* beforeTask, applyVersion
Build(w) ==
    /\ job = "build"
    /\ task[w] = "wait"
    /\ \A d \in Deps[w] : task[d] = "passed"
    /\ Goes(w, "build")
    /\ UNCHANGED <<gitHubVars, job, faults, suffixed, build, forced, relId, at, before,
                   staging, tarball, image, disturbed>>

\* where executePack begins, and what follows its tarball
FirstStep(p) == IF "ng-lib" \in Packs[p] THEN "snapshot"
                ELSE IF "npm" \in Packs[p] THEN "pack"
                ELSE IF "image" \in Packs[p] THEN "login" ELSE "draft"
AfterTarball(p) == IF "image" \in Packs[p] THEN "login" ELSE "draft"

\* afterTask: a dependency that is not released is built and no more
Built(w) ==
    /\ job = "build"
    /\ task[w] = "build"
    /\ Goes(w, IF w \in Projects THEN FirstStep(w) ELSE "passed")
    /\ UNCHANGED <<gitHubVars, job, faults, suffixed, build, forced, relId, at, before,
                   staging, tarball, image, disturbed>>

BuildFails(w) ==
    /\ job = "build"
    /\ task[w] = "build"
    /\ Fault
    /\ Fails(w)
    /\ UNCHANGED <<gitHubVars, job, suffixed, build, forced, relId, at, before, staging,
                   tarball, image, disturbed>>

\* ng-lib pack(): readdir of the shared staging directory
Snapshot(p) ==
    /\ job = "build"
    /\ task[p] = "snapshot"
    /\ before' = [before EXCEPT ![p] = staging]
    /\ Goes(p, "pack")
    /\ UNCHANGED <<gitHubVars, job, faults, suffixed, build, forced, relId, at, staging,
                   tarball, image, disturbed>>

\* A plausible bug, for the checks: whichever new file comes first
FirstNewTarball(p) ==
    IF "ng-lib" \in Packs[p] THEN {CHOOSE q \in (staging \cup {p}) \ before[p] : TRUE} ELSE {p}

\* The tarball of an ng-lib is the one new file; npm computes the name.
NewTarballs(p) == IF "ng-lib" \in Packs[p] THEN (staging \cup {p}) \ before[p] ELSE {p}

Pack(p) ==
    LET one == Cardinality(NewTarballs(p)) = 1
    IN  /\ job = "build"
        /\ task[p] = "pack"
        /\ staging' = staging \cup {p}
        /\ IF one
           THEN /\ tarball' = [tarball EXCEPT ![p] = CHOOSE q \in NewTarballs(p) : TRUE]
                /\ Goes(p, AfterTarball(p))
                /\ UNCHANGED disturbed
           ELSE /\ Fails(p)
                /\ disturbed' = disturbed \cup {"sibling"}
                /\ UNCHANGED tarball
        /\ UNCHANGED <<gitHubVars, job, faults, suffixed, build, forced, relId, at,
                       before, image>>

\* docker-image pack(): login, push under the temp tag of the commit, logout
PushTemp(p) ==
    /\ job = "build"
    /\ task[p] = "login"
    /\ image' = [image EXCEPT ![p] = build]
    /\ Goes(p, "draft")
    /\ UNCHANGED <<gitHubVars, job, faults, suffixed, build, forced, relId, at, before,
                   staging, tarball, disturbed>>

(***************************************************************************)
(* executeUpload.                                                          *)
(***************************************************************************)
\* findOrCreateDraftRelease refuses a version that is published
RefusePublished(p) ==
    LET i == Resolve(p, relId[p])
    IN  /\ job = "build"
        /\ task[p] = "draft"
        /\ i # 0
        /\ ~ rels[i].draft
        /\ Fails(p)
        /\ UNCHANGED <<gitHubVars, job, faults, suffixed, build, forced, relId, at,
                       before, staging, tarball, image, disturbed>>

\* ... rewrites the body of a draft, and creates one when there is none
FindOrCreateDraft(p) ==
    LET i == Resolve(p, relId[p])
    IN  /\ job = "build"
        /\ task[p] = "draft"
        /\ \/ i # 0 /\ rels[i].draft /\ RewriteBody(i, build)
           \/ i = 0 /\ CreateDraft(p, build)
        /\ relId' = [relId EXCEPT ![p] = IF i # 0 THEN i ELSE made + 1]
        /\ Goes(p, "clear")
        /\ UNCHANGED <<tags, prIds, job, faults, suffixed, build, forced, at, before,
                       staging, tarball, image, disturbed>>

\* uploadArtifact, once per asset: replace, never skip
ClearAsset(p) ==
    /\ job = "build"
    /\ task[p] = "clear"
    /\ IF Exists(relId[p])
       THEN DeleteAsset(relId[p], AssetSeq[p][at[p]]) /\ Goes(p, "put")
       ELSE Fails(p) /\ UNCHANGED rels
    /\ UNCHANGED <<made, tags, prIds, job, faults, suffixed, build, forced, relId, at,
                   before, staging, tarball, image, disturbed>>

PutAsset(p) ==
    /\ job = "build"
    /\ task[p] = "put"
    /\ IF Exists(relId[p])
       THEN /\ UploadAsset(relId[p], AssetSeq[p][at[p]], build)
            /\ at' = [at EXCEPT ![p] = at[p] + 1]
            /\ Goes(p, IF at[p] = Len(AssetSeq[p]) THEN "mark" ELSE "clear")
       ELSE Fails(p) /\ UNCHANGED <<rels, at>>
    /\ UNCHANGED <<made, tags, prIds, job, faults, suffixed, build, forced, relId,
                   before, staging, tarball, image, disturbed>>

Mark(p) ==
    /\ job = "build"
    /\ task[p] = "mark"
    /\ MarkPublished(relId[p], build)
    /\ Goes(p, "passed")
    /\ UNCHANGED <<made, tags, prIds, job, faults, suffixed, build, forced, relId, at,
                   before, staging, tarball, image, disturbed>>

\* any step of executePack or executeUpload throws
StepFails(p) ==
    /\ job = "build"
    /\ task[p] \in Working
    /\ Fault
    /\ Fails(p)
    /\ UNCHANGED <<gitHubVars, job, suffixed, build, forced, relId, at, before, staging,
                   tarball, image, disturbed>>

(***************************************************************************)
(* The end of the attempt.                                                 *)
(***************************************************************************)
AllSettled == \A w \in Workspace : task[w] \in Settled
Uploaded == {p \in Projects : task[p] = "passed"}

\* A plausible bug, for the checks: what was uploaded makes a success
ReportPartial ==
    /\ job = "build"
    /\ AllSettled
    /\ RecordIds(Uploaded, relId)
    /\ job' = IF Uploaded # {} THEN "built" ELSE "cleanup"
    /\ UNCHANGED <<rels, made, tags, faults, suffixed, runVars, disturbed>>

\* recordReleaseIdsInPR swallows an error; the result is a failure if any
\* release project failed or has nothing packed.
Report ==
    /\ job = "build"
    /\ AllSettled
    /\ \/ RecordIds(Uploaded, relId) /\ UNCHANGED faults
       \/ Fault /\ UNCHANGED prIds
    /\ job' = IF \A w \in Workspace : task[w] \in {None, "passed"}
              THEN "built" ELSE "cleanup"
    /\ UNCHANGED <<rels, made, tags, suffixed, runVars, disturbed>>

\* cleanupEmptyDraftReleases: the run number of this workflow may or may not
\* be part of a version that another workflow numbered; deletions that fail
\* are logged.
CleanUp ==
    /\ job = "cleanup"
    /\ \E S \in SUBSET EmptyDrafts : (~ suffixed => S = {}) /\ DeleteReleases(S)
    /\ job' = "buildFailed"
    /\ UNCHANGED <<made, tags, prIds, faults, suffixed, runVars, disturbed>>

\* the clean-up of another pull request's run, whose number our suffix contains
ForeignCleanUp ==
    /\ suffixed
    /\ job = "build"
    /\ Fault
    /\ \E i \in EmptyDrafts : DeleteReleases({i})
    /\ UNCHANGED <<made, tags, prIds, job, suffixed, runVars, disturbed>>

\* the runner is lost or the run cancelled
BuildKilled ==
    /\ job \in {"plan", "build", "cleanup"}
    /\ Fault
    /\ job' = "buildFailed"
    /\ UNCHANGED <<gitHubVars, suffixed, runVars, disturbed>>

TaskStep(w) ==
    \/ Build(w) \/ Built(w) \/ BuildFails(w)

ProjectStep(p) ==
    \/ Snapshot(p) \/ Pack(p) \/ PushTemp(p)
    \/ RefusePublished(p) \/ FindOrCreateDraft(p)
    \/ ClearAsset(p) \/ PutAsset(p) \/ Mark(p) \/ StepFails(p)

BuildInit ==
    /\ GitHubInit
    /\ job = "merged"
    /\ faults = 0
    /\ suffixed \in BOOLEAN
    /\ build = 0
    /\ forced = {}
    /\ relId = [p \in Projects |-> 0]
    /\ task = [w \in Workspace |-> None]
    /\ at = [p \in Projects |-> 1]
    /\ before = [p \in Projects |-> {}]
    /\ staging = {}
    /\ tarball = [p \in Projects |-> None]
    /\ image = [p \in Projects |-> 0]
    /\ disturbed = {}
=============================================================================
