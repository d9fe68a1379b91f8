--------------------------- MODULE GitHubReleases ---------------------------
(***************************************************************************)
(* The GitHub state that the release phases share, as build-pack/github.ts *)
(* uses it: releases with their assets and the metadata in their bodies,   *)
(* the git tags, and the release ids written into the release PR.          *)
(*                                                                         *)
(* A build number stands for the bytes of one build attempt: an asset, a   *)
(* descriptor or an image carries the number of the build it came from.    *)
(* The PR gives every project one version, so a project names its tag.     *)
(***************************************************************************)
EXTENDS Naturals, FiniteSetsExt

CONSTANTS
    Projects,      \* the projects the release PR lists
    Assets,        \* the names of release assets
    MaxReleases,   \* bound: releases ever created
    MaxBuilds      \* bound: attempts of the build job

ASSUME GitHubAssumption ==
    /\ IsFiniteSet(Projects)
    /\ MaxReleases \in Nat
    /\ MaxBuilds \in Nat

VARIABLES
    rels,    \* the releases by id
    made,    \* how many were created: ids are never used again
    tags,    \* git tags
    prIds    \* the `releaseId:' lines in the PR body, 0 for none

gitHubVars == <<rels, made, tags, prIds>>

Ids == 1 .. MaxReleases
Builds == 1 .. MaxBuilds
MaybeBuild == 0 .. MaxBuilds
MaybeId == 0 .. MaxReleases

\* body: the build whose descriptor the body carries and the published flag
\* of its artifacts; an asset that is not there has build 0.
Release == [proj : Projects, draft : BOOLEAN, build : Builds, flag : BOOLEAN,
            assets : [Assets -> MaybeBuild]]
NoRelease == [proj |-> "none"]

Exists(i) == i \in Ids /\ rels[i] # NoRelease
ReleasesOf(p) == {i \in Ids : Exists(i) /\ rels[i].proj = p}

\* getReleaseTag, getGroupTag and the plain tag of the MAIN group
PackageTag(p) == <<"package", p>>
GroupTag == <<"group", "MAIN">>
SimpleTag == <<"simple", "v">>

\* resolveRelease: by id when one is known and still exists, else the newest
\* match in the release list; 0 when there is none.
Resolve(p, id) ==
    IF Exists(id) THEN id
    ELSE IF ReleasesOf(p) = {} THEN 0 ELSE Max(ReleasesOf(p))

\* A plausible bug, for the checks: a draft without its descriptor
CreateDraftBare(p, b) ==
    /\ made < MaxReleases
    /\ made' = made + 1
    /\ rels' = [rels EXCEPT ![made + 1] =
                  [proj |-> p, draft |-> TRUE, build |-> 0, flag |-> FALSE,
                   assets |-> [a \in Assets |-> 0]]]

\* createDraftRelease
CreateDraft(p, b) ==
    /\ made < MaxReleases
    /\ made' = made + 1
    /\ rels' = [rels EXCEPT ![made + 1] =
                  [proj |-> p, draft |-> TRUE, build |-> b, flag |-> FALSE,
                   assets |-> [a \in Assets |-> 0]]]

\* A plausible bug, for the checks: the old flag survives the new body
RewriteBodyOnly(i, b) == rels' = [rels EXCEPT ![i].build = b] /\ UNCHANGED made

\* updateDraftReleaseBody with a new descriptor: every artifact published:false
RewriteBody(i, b) ==
    /\ rels' = [rels EXCEPT ![i].build = b, ![i].flag = FALSE]
    /\ UNCHANGED made

\* markReleasePublished, updateReleaseBodyPublishedFlags
MarkPublished(i, b) == rels' = [rels EXCEPT ![i].build = b, ![i].flag = TRUE]

\* uploadArtifact: the stale asset is deleted, then the file is uploaded
DeleteAsset(i, a) == rels' = [rels EXCEPT ![i].assets[a] = 0]
UploadAsset(i, a, b) == rels' = [rels EXCEPT ![i].assets[a] = b]

DeleteReleases(S) == rels' = [i \in Ids |-> IF i \in S THEN NoRelease ELSE rels[i]]

\* deleteDraftRelease: a published release is left alone
DeleteDraft(p, id) ==
    LET i == Resolve(p, id)
    IN  DeleteReleases(IF i # 0 /\ rels[i].draft THEN {i} ELSE {})

\* cleanupEmptyDraftReleases considers drafts without an asset
EmptyDrafts == {i \in Ids : /\ Exists(i)
                            /\ rels[i].draft
                            /\ \A a \in Assets : rels[i].assets[a] = 0}

\* finalizeReleaseById: GitHub creates the package tag as it publishes
Finalize(i) ==
    /\ rels' = [rels EXCEPT ![i].draft = FALSE]
    /\ tags' = tags \cup {PackageTag(rels[i].proj)}

\* recordReleaseIds: only the lines of the named projects are rewritten
RecordIds(S, ids) == prIds' = [p \in Projects |-> IF p \in S THEN ids[p] ELSE prIds[p]]

GitHubInit ==
    /\ rels = [i \in Ids |-> NoRelease]
    /\ made = 0
    /\ tags = {}
    /\ prIds = [p \in Projects |-> 0]

GitHubTypeOK ==
    /\ rels \in [Ids -> Release \cup {NoRelease}]
    /\ made \in MaybeId
    /\ tags \subseteq {PackageTag(p) : p \in Projects} \cup {GroupTag, SimpleTag}
    /\ prIds \in [Projects -> MaybeId]
=============================================================================
