--------------------------- MODULE PublishRelease ---------------------------
(***************************************************************************)
(* The publish-release job: runPublishRelease over the projects of the PR, *)
(* in order and stopping at the first error, with publishProjectArtifacts, *)
(* the publishers of npm and docker registries and verifyPublication.      *)
(***************************************************************************)
EXTENDS BuildPack

CONSTANTS
    ProjectSeq,   \* the projects in the order of the PR
    Targets,      \* pairs of an artifact and a registry, as records
    TargetSeq     \* the targets of a project in the order of its descriptor

\* github: a registry hosted by GitHub; pointed: the artifact takes floating tags
Target == [kind : {"npm", "docker"}, asset : Assets \cup {None}, github : BOOLEAN,
           pointed : BOOLEAN, proj : Projects]

\* The PR lists at least one project, and a package that is published is one of
\* the assets that executeUpload attaches.
ASSUME PublishAssumption ==
    /\ ProjectSeq \in Seq(Projects) /\ ProjectSeq # <<>>
    /\ {ProjectSeq[k] : k \in DOMAIN ProjectSeq} = Projects
    /\ Targets \subseteq Target
    /\ TargetSeq \in [Projects -> Seq(Targets)]
    /\ \A p \in Projects : \A k \in DOMAIN TargetSeq[p] : TargetSeq[p][k].proj = p
    /\ \A t \in Targets : t.kind = "npm" =>
         \E k \in DOMAIN AssetSeq[t.proj] : AssetSeq[t.proj][k] = t.asset

VARIABLES
    pub,       \* the publish job: its step, project and target, and the
               \* release as it was fetched
    registry,  \* the build of the package or final image tag in a registry
    pointers   \* targets whose floating pointers name this version

pubVars == <<pub, registry, pointers>>

Idle == [pc |-> "idle", k |-> 1, t |-> 1, rel |-> 0, draft |-> FALSE, build |-> 0,
         files |-> [a \in Assets |-> 0]]

Project == ProjectSeq[pub.k]
Here == TargetSeq[Project][pub.t]

\* isBuildVersion: such a version goes to registries of GitHub alone and,
\* not being eligible (isFloatingEligible), earns no pointer.  Any other
\* version of the instance is the highest of its kind.
Skipped(t) == suffixed /\ ~ t.github
Earns(t) == t.pointed /\ ~ suffixed

PublishStep(pc) == job = "publish" /\ pub.pc = pc
Then(pc) == pub' = [pub EXCEPT !.pc = pc]

\* A plausible bug, for the checks: the last target is left out
NextTargetShort ==
    pub' = IF pub.t + 1 >= Len(TargetSeq[Project])
           THEN [pub EXCEPT !.pc = "flags"]
           ELSE [pub EXCEPT !.pc = "verify", !.t = pub.t + 1]

\* the next target, or the body when there is none
NextTarget ==
    pub' = IF pub.t = Len(TargetSeq[Project])
           THEN [pub EXCEPT !.pc = "flags"]
           ELSE [pub EXCEPT !.pc = "verify", !.t = pub.t + 1]

\* The workflow starts the job when build-pack succeeded, or again when
\* the operator re-runs the failed jobs.
StartPublish ==
    /\ job' = "publish"
    /\ pub' = [Idle EXCEPT !.pc = "resolve"]
    /\ UNCHANGED <<gitHubVars, faults, suffixed, runVars, disturbed, registry, pointers>>

\* resolveRelease, the descriptor from its body, downloadReleaseAssets
ResolveRelease ==
    LET i == Resolve(Project, prIds[Project])
    IN  /\ PublishStep("resolve")
        /\ i # 0
        /\ pub' = [pub EXCEPT !.rel = i, !.draft = rels[i].draft, !.build = rels[i].build,
                              !.files = rels[i].assets, !.t = 1,
                              !.pc = IF TargetSeq[Project] = <<>> THEN "flags" ELSE "verify"]
        /\ UNCHANGED <<gitHubVars, buildVars, registry, pointers>>

(***************************************************************************)
(* publishProjectArtifacts.                                                *)
(***************************************************************************)
\* A plausible bug, for the checks: what is published is not skipped
SkipForeign ==
    /\ PublishStep("verify")
    /\ Skipped(Here)
    /\ NextTarget
    /\ UNCHANGED <<gitHubVars, buildVars, registry, pointers>>

\* A build version stays off other registries; what is published is skipped.
SkipTarget ==
    /\ PublishStep("verify")
    /\ Skipped(Here) \/ registry[Here] # 0
    /\ NextTarget
    /\ UNCHANGED <<gitHubVars, buildVars, registry, pointers>>

\* verifyPublication says no: it is not there, or the question failed, since
\* any error counts as not published
NotPublished ==
    /\ PublishStep("verify")
    /\ ~ Skipped(Here)
    /\ \/ registry[Here] = 0 /\ UNCHANGED faults
       \/ registry[Here] # 0 /\ Fault
    /\ Then("push")
    /\ UNCHANGED <<gitHubVars, job, suffixed, runVars, disturbed, registry, pointers>>

\* publishToNpm: the version and its first pointer in one call, which the
\* registry refuses for a version it has
PushNpm ==
    /\ PublishStep("push")
    /\ Here.kind = "npm"
    /\ registry[Here] = 0
    /\ registry' = [registry EXCEPT ![Here] = pub.files[Here.asset]]
    /\ pointers' = IF Earns(Here) THEN pointers \cup {Here} ELSE pointers
    /\ Then("reverify")
    /\ UNCHANGED <<gitHubVars, buildVars>>

\* publishToDocker: the image under the temp tag is pulled and checked against
\* the digest of the descriptor, then pushed under the release tag ...
PushImage ==
    /\ PublishStep("push")
    /\ Here.kind = "docker"
    /\ image[Project] = pub.build
    /\ registry' = [registry EXCEPT ![Here] = pub.build]
    /\ Then(IF Earns(Here) THEN "pointers" ELSE "reverify")
    /\ UNCHANGED <<gitHubVars, buildVars, pointers>>

\* ... and after it under each floating pointer, dockerPushWithRetry each
PushPointers ==
    /\ PublishStep("pointers")
    /\ pointers' = pointers \cup {Here}
    /\ Then("reverify")
    /\ UNCHANGED <<gitHubVars, buildVars, registry>>

Reverify ==
    /\ PublishStep("reverify")
    /\ registry[Here] # 0
    /\ NextTarget
    /\ UNCHANGED <<gitHubVars, buildVars, registry, pointers>>

(***************************************************************************)
(* The body, the release, the tags.                                        *)
(***************************************************************************)
\* A plausible bug, for the checks: the release stays a draft
UpdateFlagsOnly ==
    /\ PublishStep("flags")
    /\ MarkPublished(pub.rel, pub.build)
    /\ Then("group")
    /\ UNCHANGED <<made, tags, prIds, buildVars, registry, pointers>>

UpdateFlags ==
    /\ PublishStep("flags")
    /\ MarkPublished(pub.rel, pub.build)
    /\ Then(IF pub.draft THEN "finalize" ELSE "group")
    /\ UNCHANGED <<made, tags, prIds, buildVars, registry, pointers>>

FinalizeRelease ==
    /\ PublishStep("finalize")
    /\ Finalize(pub.rel)
    /\ Then("group")
    /\ UNCHANGED <<made, prIds, buildVars, registry, pointers>>

\* createGitTag: a tag that exists is no error
CreateGroupTag ==
    /\ PublishStep("group")
    /\ tags' = tags \cup {GroupTag}
    /\ Then("simple")
    /\ UNCHANGED <<rels, made, prIds, buildVars, registry, pointers>>

\* ... then on to the next project, or to the comment on the PR
CreateSimpleTag ==
    /\ PublishStep("simple")
    /\ tags' = tags \cup {SimpleTag}
    /\ pub' = IF pub.k = Len(ProjectSeq)
              THEN [pub EXCEPT !.pc = "comment"]
              ELSE [pub EXCEPT !.pc = "resolve", !.k = pub.k + 1]
    /\ UNCHANGED <<rels, made, prIds, buildVars, registry, pointers>>

\* postPRReleaseComment swallows its errors
Comment ==
    /\ PublishStep("comment")
    /\ job' = "released"
    /\ pub' = Idle
    /\ UNCHANGED <<gitHubVars, faults, suffixed, runVars, disturbed, registry, pointers>>

(***************************************************************************)
(* Failures end the job.                                                   *)
(***************************************************************************)
EndFailed ==
    /\ job' = "publishFailed"
    /\ pub' = Idle
    /\ UNCHANGED <<gitHubVars, suffixed, runVars, disturbed, registry, pointers>>

\* No release is found; npm refuses to publish a version again; the image
\* under the temp tag has not the digest of the descriptor.
Refused ==
    CASE pub.pc = "resolve" -> Resolve(Project, prIds[Project]) = 0
      [] pub.pc = "push"    -> IF Here.kind = "npm" THEN registry[Here] # 0
                               ELSE image[Project] # pub.build
      [] OTHER              -> FALSE

PublishRefused ==
    /\ job = "publish"
    /\ Refused
    /\ EndFailed
    /\ UNCHANGED faults

\* a call fails, a registry lags behind its verification, the job is killed
PublishFails ==
    /\ job = "publish"
    /\ pub.pc # "comment"
    /\ Fault
    /\ EndFailed

PublishSteps ==
    \/ ResolveRelease \/ SkipTarget \/ NotPublished \/ PushNpm \/ PushImage
    \/ PushPointers \/ Reverify \/ UpdateFlags \/ FinalizeRelease
    \/ CreateGroupTag \/ CreateSimpleTag \/ Comment \/ PublishRefused

PublishInit ==
    /\ pub = Idle
    /\ registry = [t \in Targets |-> 0]
    /\ pointers = {}
=============================================================================
