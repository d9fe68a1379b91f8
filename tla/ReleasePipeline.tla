-------------------------- MODULE ReleasePipeline --------------------------
(***************************************************************************)
(* The release of one merged PR: the workflow build-pack-publish.yml with  *)
(* its two jobs and the operator who re-runs what failed.                  *)
(*                                                                         *)
(* "Re-run failed jobs" repeats the job that failed; "re-run all jobs"     *)
(* builds again whatever the publish job has done by then.                 *)
(***************************************************************************)
EXTENDS PublishRelease

vars == <<gitHubVars, buildVars, pubVars>>

Init == BuildInit /\ PublishInit

FirstRun ==
    /\ job \in {"merged", "buildFailed"}
    /\ StartBuild
    /\ UNCHANGED <<disturbed, pubVars>>

RerunAll ==
    /\ job \in {"publishFailed", "released"}
    /\ StartBuild
    /\ disturbed' = disturbed \cup {"rerunAll"}
    /\ UNCHANGED pubVars

\* A plausible bug, for the checks: the job runs whatever build-pack did
RunPublishAlways == job \in {"built", "buildFailed", "publishFailed"} /\ StartPublish

RunPublish == job \in {"built", "publishFailed"} /\ StartPublish

BuildSteps ==
    \/ \E p \in Projects : DeleteForced(p)
    \/ Plan
    \/ \E w \in Workspace : TaskStep(w)
    \/ \E p \in Projects : ProjectStep(p)
    \/ Report \/ CleanUp

Mishap == ForeignCleanUp \/ BuildKilled

Next ==
    \/ FirstRun \/ RerunAll \/ RunPublish
    \/ (BuildSteps \/ Mishap) /\ UNCHANGED pubVars
    \/ PublishSteps \/ PublishFails

\* A job that started goes on; an operator re-runs what failed, and does not
\* have to re-run everything.  StepFails and the other faults are bounded.
Spec ==
    /\ Init
    /\ [][Next]_vars
    /\ WF_vars(BuildSteps /\ UNCHANGED pubVars)
    /\ WF_vars(PublishSteps)
    /\ WF_vars(FirstRun)
    /\ WF_vars(RunPublish)

(***************************************************************************)
(* Type invariant.                                                         *)
(***************************************************************************)
\* Every variable holds what its comment says.
TypeOK ==
    /\ GitHubTypeOK
    /\ job \in {"merged", "plan", "build", "built", "cleanup", "buildFailed",
                "publish", "publishFailed", "released"}
    /\ faults \in 0 .. MaxFaults
    /\ suffixed \in BOOLEAN
    /\ build \in MaybeBuild
    /\ forced \subseteq Projects
    /\ relId \in [Projects -> MaybeId]
    /\ task \in [Workspace -> Tasks]
    /\ \A p \in Projects : at[p] \in 1 .. Len(AssetSeq[p]) + 1
    /\ before \in [Projects -> SUBSET Projects]
    /\ staging \subseteq Projects
    /\ tarball \in [Projects -> Projects \cup {None}]
    /\ image \in [Projects -> MaybeBuild]
    /\ disturbed \subseteq {"sibling", "rerunAll"}
    /\ registry \in [Targets -> MaybeBuild]
    /\ pointers \subseteq Targets
    /\ pub.pc \in {"idle", "resolve", "verify", "push", "pointers", "reverify", "flags",
                   "finalize", "group", "simple", "comment"}

(***************************************************************************)
(* Safety.                                                                 *)
(***************************************************************************)
Listed(i) == {AssetSeq[rels[i].proj][k] : k \in DOMAIN AssetSeq[rels[i].proj]}

\* A body that says published:true describes files that are all attached, and
\* all of the build that the body describes: executeUpload marks last and
\* rewrites the body first, whatever failed or was repeated in between.
FlagMeansComplete ==
    \A i \in Ids : Exists(i) /\ rels[i].flag =>
        \A a \in Listed(i) : rels[i].assets[a] = rels[i].build

\* A release is made public only when every target of its project that this
\* version goes to is in its registry, through every failure, lagging
\* verification and re-run.
PublicMeansPushed ==
    \A p \in Projects : \A k \in DOMAIN TargetSeq[p] :
        (\E i \in ReleasesOf(p) : ~ rels[i].draft) =>
            Skipped(TargetSeq[p][k]) \/ registry[TargetSeq[p][k]] # 0

\* A build-pack job that succeeds leaves a finished release for every project,
\* one that publish-release will find by the ids recorded in the PR or by tag:
\* the "built ... but never packed" check of runBuildPack.
SuccessMeansReleases ==
    job = "built" => \A p \in Projects :
        LET i == Resolve(p, prIds[p])
        IN  i # 0 /\ rels[i].flag /\ rels[i].build = build

\* Unless the whole workflow was run again after its publish job had begun,
\* what is in a registry is the build that the release on GitHub describes.
RegistryIsRelease ==
    "rerunAll" \notin disturbed =>
        \A t \in Targets : registry[t] # 0 =>
            \E i \in ReleasesOf(t.proj) : rels[i].flag /\ rels[i].build = registry[t]

\* The tags and the releases agree: a package tag exists exactly when a release
\* of the package is public, and the group and plain tags come after it.
TagsFollowReleases ==
    /\ \A p \in Projects :
         PackageTag(p) \in tags <=> \E i \in ReleasesOf(p) : ~ rels[i].draft
    /\ SimpleTag \in tags => GroupTag \in tags
    /\ GroupTag \in tags => PackageTag(ProjectSeq[1]) \in tags

\* The descriptor of a project never names the tarball of another one that was
\* packed into the same staging directory at the same time.
OwnTarball == \A p \in Projects : tarball[p] \in {None, p}

(***************************************************************************)
(* Liveness.                                                               *)
(***************************************************************************)
\* With finitely many faults, an operator who re-runs the failed job gets the
\* release out, unless two ng-lib tarballs collided or everything was re-run.
EventuallyReleased == <>(job = "released" \/ disturbed # {})

(***************************************************************************)
(* What the code says of itself.                                           *)
(***************************************************************************)
\* "Every remaining step is idempotent, so resume rather than skip": a publish
\* job that succeeds leaves every floating pointer of the version moved.
PointersMoved ==
    job = "released" => \A t \in Targets : Earns(t) => t \in pointers
=============================================================================
