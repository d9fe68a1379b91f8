------------------------- MODULE ReleasePipelineProofs -------------------------
(***************************************************************************)
(* What holds of a release for any projects, assets, registries, and any   *)
(* number of failures, lost jobs and repeated attempts.                    *)
(*                                                                         *)
(* The argument: a project has at most one release, and the ids that are   *)
(* passed on never point to the release of another one (Owned).  While an  *)
(* attempt works on it, its body names that attempt and the assets put so  *)
(* far are of it (Uploads).  So a finished build leaves every project with *)
(* a complete release of this build, and nothing changes that until the    *)
(* next attempt (Finished), which the publish job relies on (Publishes).   *)
(***************************************************************************)
EXTENDS ReleasePipeline, FiniteSetTheorems, TLAPS

PubSteps == {"idle", "resolve", "verify", "push", "pointers", "reverify", "flags",
             "finalize", "group", "simple", "comment"}
PubTyped == [pc : PubSteps, k : DOMAIN ProjectSeq, t : Nat \ {0}, rel : MaybeId,
             draft : BOOLEAN, build : MaybeBuild, files : [Assets -> MaybeBuild]]

Early == {"wait", "build", "snapshot", "pack", "login", "draft"}

Typed ==
    /\ TypeOK
    /\ at \in [Projects -> Nat \ {0}]
    /\ pub \in PubTyped
    /\ job # "merged" => build # 0
    /\ \A p \in Projects :
         /\ task[p] \in {"clear", "put"} => at[p] \in DOMAIN AssetSeq[p]
         /\ job = "plan" \/ task[p] \in Early => at[p] = 1

Owned ==
    /\ \A i \in Ids : Exists(i) => i <= made
    /\ \A i, j \in Ids : Exists(i) /\ Exists(j) /\ rels[i].proj = rels[j].proj => i = j
    /\ \A p \in Projects :
         /\ prIds[p] <= made /\ (Exists(prIds[p]) => rels[prIds[p]].proj = p)
         /\ relId[p] <= made /\ (Exists(relId[p]) => rels[relId[p]].proj = p)

\* what p has put, when it is about to work on the asset at[p]
Put(p) ==
    \A k \in DOMAIN AssetSeq[p] : k < at[p] =>
        \/ rels[relId[p]].assets[AssetSeq[p][k]] = build
        \/ task[p] = "put" /\ AssetSeq[p][k] = AssetSeq[p][at[p]]

Uploading(p) ==
    /\ task[p] # None
    /\ task[p] \in {"clear", "put", "mark"} /\ Exists(relId[p]) =>
         rels[relId[p]].build = build /\ ~rels[relId[p]].flag /\ Put(p)
    /\ task[p] = "mark" => Exists(relId[p]) /\ at[p] > Len(AssetSeq[p])
    /\ task[p] = "passed" =>
         Exists(relId[p]) /\ rels[relId[p]].flag /\ rels[relId[p]].build = build

Uploads == job = "build" => \A p \in Projects : Uploading(p)

\* a release of this build for every project
Ready(p) == \E i \in ReleasesOf(p) : rels[i].flag /\ rels[i].build = build
Finished ==
    job \in {"built", "publish", "publishFailed", "released"} =>
        \A p \in Projects : Ready(p)

Pushed(t) == Skipped(t) \/ registry[t] # 0
Public(p) == \E i \in ReleasesOf(p) : ~rels[i].draft

\* the release at hand is as it was fetched
Fetched ==
    /\ Exists(pub.rel)
    /\ rels[pub.rel].proj = Project
    /\ rels[pub.rel].flag
    /\ rels[pub.rel].build = build
    /\ pub.build = build
    /\ pub.files = rels[pub.rel].assets
    /\ pub.draft = rels[pub.rel].draft

AllPushed(ks) == \A k \in ks : Pushed(TargetSeq[Project][k])

Publishes ==
    job = "publish" =>
        /\ pub.pc # "idle"
        /\ pub.pc \in {"verify", "push", "pointers", "reverify", "flags", "finalize"} => Fetched
        /\ pub.pc \in {"verify", "push", "pointers", "reverify"} =>
             pub.t \in DOMAIN TargetSeq[Project] /\ AllPushed(1 .. pub.t - 1)
        /\ pub.pc \in {"flags", "finalize"} => AllPushed(DOMAIN TargetSeq[Project])
        /\ pub.pc \in {"group", "simple"} => PackageTag(Project) \in tags
        /\ pub.pc = "simple" => GroupTag \in tags
        /\ pub.k > 1 => PackageTag(ProjectSeq[1]) \in tags

Registers ==
    "rerunAll" \notin disturbed => \A t \in Targets :
        /\ job \notin {"publish", "publishFailed", "released"} => registry[t] = 0
        /\ registry[t] \in {0, build}

Stages ==
    /\ job = "plan" => staging = {}
    /\ \A p \in Projects :
         /\ task[p] \in {"wait", "build", "snapshot", "pack"} => p \notin staging
         /\ task[p] = "pack" /\ "ng-lib" \in Packs[p] => p \notin before[p]

PipelineInv ==
    /\ Typed /\ Owned /\ Uploads /\ Finished /\ Publishes /\ Registers /\ Stages
    /\ FlagMeansComplete /\ PublicMeansPushed /\ TagsFollowReleases /\ OwnTarball

-----------------------------------------------------------------------------
LEMMA NoReleaseIsNone == NoRelease \notin Release
<1>1. DOMAIN NoRelease = {"proj"}
  BY DEF NoRelease
<1>2. \A r \in Release : "draft" \in DOMAIN r
  BY DEF Release
<1> QED
  BY <1>1, <1>2

LEMMA Existing ==
  ASSUME GitHubTypeOK, NEW i, Exists(i)
  PROVE  i \in Ids /\ i \in Nat /\ i # 0 /\ rels[i] \in Release
BY GitHubAssumption DEF GitHubTypeOK, Exists, Ids

\* A known id finds the release of its project; so does the list of releases.
LEMMA Resolves ==
  ASSUME GitHubTypeOK, Owned, NEW p \in Projects, NEW id \in MaybeId,
         Exists(id) => rels[id].proj = p
  PROVE  /\ Resolve(p, id) = 0 => ReleasesOf(p) = {}
         /\ Resolve(p, id) # 0 => ReleasesOf(p) = {Resolve(p, id)}
         /\ Resolve(p, id) \in MaybeId
<1>1. \A i, j \in ReleasesOf(p) : i = j
  BY DEF Owned, ReleasesOf, Exists
<1>2. CASE Exists(id)
  <2>1. id \in ReleasesOf(p) /\ id # 0
    BY <1>2, Existing DEF ReleasesOf
  <2> QED
    BY <1>1, <1>2, <2>1 DEF Resolve
<1>3. CASE ~Exists(id) /\ ReleasesOf(p) = {}
  BY <1>3, GitHubAssumption DEF Resolve, MaybeId
<1>4. CASE ~Exists(id) /\ ReleasesOf(p) # {}
  <2>1. PICK i \in ReleasesOf(p) : TRUE
    BY <1>4
  <2>2. ReleasesOf(p) = {i} /\ i \in Nat /\ i # 0 /\ i \in MaybeId
    BY <1>1, <2>1, Existing, GitHubAssumption DEF ReleasesOf, Ids, MaybeId
  <2>3. Max({i}) = i
    BY <2>2 DEF Max
  <2> QED
    BY <1>4, <2>2, <2>3 DEF Resolve
<1> QED
  BY <1>2, <1>3, <1>4

\* The records of the publish job, field by field.
LEMMA PubFields ==
  ASSUME NEW v \in PubTyped
  PROVE  /\ v.pc \in PubSteps /\ v.k \in DOMAIN ProjectSeq /\ v.t \in Nat \ {0}
         /\ v.rel \in MaybeId /\ v.draft \in BOOLEAN /\ v.build \in MaybeBuild
         /\ v.files \in [Assets -> MaybeBuild]
         /\ \A pc \in PubSteps : [v EXCEPT !.pc = pc] \in PubTyped
         /\ \A pc \in PubSteps, t \in Nat \ {0} : [v EXCEPT !.pc = pc, !.t = t] \in PubTyped
         /\ \A pc \in PubSteps, k \in DOMAIN ProjectSeq :
              [v EXCEPT !.pc = pc, !.k = k] \in PubTyped
         /\ \A rel \in MaybeId, draft \in BOOLEAN, b \in MaybeBuild,
              files \in [Assets -> MaybeBuild], t \in Nat \ {0}, pc \in PubSteps :
              [v EXCEPT !.rel = rel, !.draft = draft, !.build = b, !.files = files,
                        !.t = t, !.pc = pc] \in PubTyped
BY DEF PubTyped

LEMMA IdleTyped == Idle \in PubTyped /\ [Idle EXCEPT !.pc = "resolve"] \in PubTyped
<1>1. 1 \in DOMAIN ProjectSeq
  BY PublishAssumption
<1>2. [a \in Assets |-> 0] \in [Assets -> MaybeBuild] /\ 0 \in MaybeBuild /\ 0 \in MaybeId
  BY GitHubAssumption DEF MaybeBuild, MaybeId
<1>3. Idle \in PubTyped
  BY <1>1, <1>2 DEF Idle, PubTyped, PubSteps
<1>4. "resolve" \in PubSteps
  BY DEF PubSteps
<1> QED
  BY <1>3, <1>4, PubFields

-----------------------------------------------------------------------------
(* Init.                                                                     *)

LEMMA Starts == Init => PipelineInv
<1> SUFFICES ASSUME Init PROVE PipelineInv
  OBVIOUS
<1> USE DEF Init, BuildInit, GitHubInit, PublishInit
<1>1. \A i : ~Exists(i)
  BY DEF Exists
<1>2. \A p : ReleasesOf(p) = {}
  BY <1>1 DEF ReleasesOf
<1>3. GitHubTypeOK
  BY GitHubAssumption DEF GitHubTypeOK, MaybeId, Ids
<1>4. pub \in PubTyped /\ pub.pc = "idle"
  BY IdleTyped DEF Idle
<1>5. Typed
  <2>1. \A p \in Projects : at[p] \in 1..Len(AssetSeq[p]) + 1
    BY BuildAssumption
  <2> QED
    BY <1>3, <1>4, <2>1, BuildAssumption, GitHubAssumption
    DEF Typed, TypeOK, MaybeBuild, MaybeId, Tasks, Settled
<1>6. Owned
  BY <1>1, GitHubAssumption DEF Owned
<1>7. FlagMeansComplete /\ PublicMeansPushed /\ TagsFollowReleases
  BY <1>1, <1>2 DEF FlagMeansComplete, PublicMeansPushed, TagsFollowReleases
<1> QED
  BY <1>4, <1>5, <1>6, <1>7
  DEF PipelineInv, Uploads, Finished, Publishes, Registers, Stages, OwnTarball, None

-----------------------------------------------------------------------------
(* Types.                                                                    *)

\* The bodies and assets that the steps write are releases.
LEMMA Written ==
  ASSUME GitHubTypeOK, NEW i \in Ids, rels[i] \in Release
  PROVE  /\ \A b \in Builds, f \in BOOLEAN :
              [rels EXCEPT ![i].build = b, ![i].flag = f] \in [Ids -> Release \cup {NoRelease}]
         /\ [rels EXCEPT ![i].draft = FALSE] \in [Ids -> Release \cup {NoRelease}]
         /\ \A n \in MaybeBuild, a \in Assets :
              [rels EXCEPT ![i].assets[a] = n] \in [Ids -> Release \cup {NoRelease}]
BY DEF GitHubTypeOK, Release

LEMMA TypedStart == ASSUME PipelineInv, FirstRun \/ RerunAll PROVE Typed'
<1> USE BuildAssumption, GitHubAssumption
<1>1. StartBuild /\ UNCHANGED pubVars
      /\ disturbed' \subseteq {"sibling", "rerunAll"}
  BY DEF FirstRun, RerunAll, PipelineInv, Typed, TypeOK
<1>2. build \in Nat /\ build + 1 \in MaybeBuild /\ build + 1 # 0
  BY <1>1 DEF StartBuild, PipelineInv, Typed, TypeOK, MaybeBuild
<1>3. \A p \in Projects : 1 \in 1..Len(AssetSeq[p]) + 1
  OBVIOUS
<1>4. at' \in [Projects -> Nat \ {0}] /\ \A p \in Projects : at'[p] \in 1..Len(AssetSeq[p]) + 1
  BY <1>1, <1>3 DEF StartBuild
<1>5. task' \in [Workspace -> Tasks] /\ \A w \in Workspace : task'[w] = None
  BY <1>1 DEF StartBuild, Tasks, Settled
<1> QED
  BY <1>1, <1>2, <1>4, <1>5
  DEF StartBuild, PipelineInv, Typed, TypeOK, GitHubTypeOK, gitHubVars, pubVars, None

LEMMA TypedPlan ==
  ASSUME PipelineInv, Plan \/ (\E p \in Projects : DeleteForced(p)), UNCHANGED pubVars
  PROVE  Typed'
<1> USE BuildAssumption, GitHubAssumption DEF pubVars
<1>1. ASSUME NEW p \in Projects, DeleteForced(p) PROVE Typed'
  <2>1. GitHubTypeOK'
    BY <1>1 DEF DeleteForced, DeleteDraft, DeleteReleases, PipelineInv, Typed, TypeOK, GitHubTypeOK
  <2> QED
    BY <1>1, <2>1 DEF DeleteForced, PipelineInv, Typed, TypeOK
<1>2. ASSUME Plan PROVE Typed'
  <2>1. \A p \in Projects : Resolve(p, relId[p]) \in MaybeId
    BY Resolves DEF PipelineInv, Typed, TypeOK, Owned
  <2>2. relId' \in [Projects -> MaybeId]
    BY <1>2, <2>1 DEF Plan, PipelineInv, Typed, TypeOK
  <2>3. task' \in [Workspace -> Tasks]
        /\ \A w \in Workspace : task'[w] \in {"wait", None}
    BY <1>2 DEF Plan, Tasks, Settled
  <2>4. \A p \in Projects : at'[p] = 1 /\ task'[p] \notin {"clear", "put"}
    BY <1>2, <2>3 DEF Plan, None, PipelineInv, Typed
  <2> QED
    BY <1>2, <2>2, <2>3, <2>4 DEF Plan, PipelineInv, Typed, TypeOK, GitHubTypeOK, gitHubVars
<1> QED
  BY <1>1, <1>2

\* The steps that leave GitHub alone only move tasks.
Moves(w) ==
    \/ TaskStep(w)
    \/ w \in Projects /\ (Snapshot(w) \/ Pack(w) \/ PushTemp(w)
                          \/ RefusePublished(w) \/ StepFails(w))

LEMMA TypedMoves ==
  ASSUME PipelineInv, NEW w \in Workspace, Moves(w), UNCHANGED pubVars
  PROVE  Typed'
<1> USE BuildAssumption, GitHubAssumption DEF pubVars
<1> DEFINE Kept == /\ task' \in [Workspace -> Tasks]
                   /\ \A p \in Projects :
                        /\ task'[p] \in {"clear", "put"} => task[p] \in {"clear", "put"}
                        /\ task'[p] \in Early => task[p] \in Early
<1>1. ASSUME NEW l \in Tasks \ {"clear", "put"}, Goes(w, l), l \in Early => task[w] \in Early
      PROVE  Kept
  BY <1>1 DEF Goes, PipelineInv, Typed, TypeOK
<1>2. ASSUME Fails(w) PROVE Kept
  BY <1>2 DEF Fails, PipelineInv, Typed, TypeOK, Tasks, Settled, Early
<1>3. Kept
  <2>1. {"build", "pack", "login", "draft", "passed", FirstStep(w), AfterTarball(w)}
          \subseteq Tasks \ {"clear", "put"}
    BY DEF FirstStep, AfterTarball, Tasks, Working, Settled
  <2>2. {"wait", "build", "snapshot", "pack", "login", "draft"} \subseteq Early
    BY DEF Early
  <2>3. CASE TaskStep(w)
    BY <1>1, <1>2, <2>1, <2>2, <2>3 DEF TaskStep, Build, Built, BuildFails, Early
  <2>4. CASE w \in Projects /\ (Snapshot(w) \/ Pack(w) \/ PushTemp(w))
    BY <1>1, <1>2, <2>1, <2>2, <2>4 DEF Snapshot, Pack, PushTemp, Early
  <2>5. CASE w \in Projects /\ (RefusePublished(w) \/ StepFails(w))
    BY <1>2, <2>5 DEF RefusePublished, StepFails
  <2> QED
    BY <2>3, <2>4, <2>5 DEF Moves
<1>4. UNCHANGED <<gitHubVars, at, job, build, forced, relId, suffixed>>
      /\ faults' \in 0..MaxFaults
  BY DEF Moves, TaskStep, Build, Built, BuildFails, Snapshot, Pack, PushTemp,
         RefusePublished, StepFails, Fault, PipelineInv, Typed, TypeOK
<1>5. disturbed' \subseteq {"sibling", "rerunAll"}
  BY DEF Moves, TaskStep, Build, Built, BuildFails, Snapshot, Pack, PushTemp,
         RefusePublished, StepFails, PipelineInv, Typed, TypeOK
<1>6. staging' \subseteq Projects /\ before' \in [Projects -> SUBSET Projects]
      /\ image' \in [Projects -> MaybeBuild]
  <2> staging \subseteq Projects /\ before \in [Projects -> SUBSET Projects]
      /\ image \in [Projects -> MaybeBuild] /\ build \in MaybeBuild
    BY DEF PipelineInv, Typed, TypeOK
  <2>1. CASE TaskStep(w) \/ (w \in Projects /\ (RefusePublished(w) \/ StepFails(w)))
    BY <2>1 DEF TaskStep, Build, Built, BuildFails, RefusePublished, StepFails
  <2>2. CASE w \in Projects /\ (Snapshot(w) \/ Pack(w) \/ PushTemp(w))
    BY <2>2 DEF Snapshot, Pack, PushTemp
  <2> QED
    BY <2>1, <2>2 DEF Moves
<1>7. tarball' \in [Projects -> Projects \cup {None}]
  <2>1. ASSUME Pack(w), w \in Projects PROVE tarball' \in [Projects -> Projects \cup {None}]
    <3>1. staging \subseteq Projects /\ NewTarballs(w) \subseteq Projects
      BY <2>1 DEF NewTarballs, PipelineInv, Typed, TypeOK
    <3>2. CASE Cardinality(NewTarballs(w)) = 1
      <4>1. NewTarballs(w) # {}
        <5>1. Cardinality({}) # 1
          BY FS_EmptySet
        <5> QED
          BY <3>2, <5>1
      <4>2. (CHOOSE q \in NewTarballs(w) : TRUE) \in Projects
        BY <3>1, <4>1
      <4> QED
        BY <2>1, <3>2, <4>2 DEF Pack, PipelineInv, Typed, TypeOK
    <3> QED
      BY <2>1, <3>2 DEF Pack, PipelineInv, Typed, TypeOK
  <2> QED
    BY <2>1
    DEF Moves, TaskStep, Build, Built, BuildFails, Snapshot, PushTemp,
        RefusePublished, StepFails, PipelineInv, Typed, TypeOK
<1> QED
  BY <1>3, <1>4, <1>5, <1>6, <1>7 DEF PipelineInv, Typed, TypeOK, GitHubTypeOK, gitHubVars, Early

\* What the upload steps do to releases, which all are releases of Projects.
LEMMA TypedUploads ==
  ASSUME PipelineInv, NEW p \in Projects, UNCHANGED pubVars,
         FindOrCreateDraft(p) \/ ClearAsset(p) \/ PutAsset(p) \/ Mark(p)
  PROVE  Typed'
<1> USE BuildAssumption, GitHubAssumption DEF pubVars
<1>0. /\ build \in Builds /\ build \in MaybeBuild /\ 0 \in MaybeBuild /\ job = "build"
      /\ GitHubTypeOK /\ Owned /\ relId \in [Projects -> MaybeId]
      /\ task \in [Workspace -> Tasks] /\ at \in [Projects -> Nat \ {0}]
  BY DEF FindOrCreateDraft, ClearAsset, PutAsset, Mark, PipelineInv, Typed, TypeOK,
         MaybeBuild, Builds
<1>1. ASSUME rels' \in [Ids -> Release \cup {NoRelease}], made' \in MaybeId,
             relId' \in [Projects -> MaybeId], task' \in [Workspace -> Tasks],
             at' \in [Projects -> Nat \ {0}],
             \A q \in Projects : at'[q] = at[q] \/ at'[q] \in 1..Len(AssetSeq[q]) + 1,
             \A q \in Projects : task'[q] \in {"clear", "put"} => at'[q] \in DOMAIN AssetSeq[q],
             \A q \in Projects : task'[q] \in Early => at'[q] = 1,
             UNCHANGED <<tags, prIds, job, faults, suffixed, build, forced,
                         before, staging, tarball, image, disturbed>>
      PROVE  Typed'
  BY <1>0, <1>1 DEF PipelineInv, Typed, TypeOK, GitHubTypeOK
<1>2. ASSUME Fails(p)
      PROVE  /\ task' \in [Workspace -> Tasks]
             /\ \A q \in Projects : task'[q] \in {"clear", "put"} => task[q] \in {"clear", "put"}
             /\ \A q \in Projects : task'[q] \in Early => task[q] \in Early
  BY <1>0, <1>2 DEF Fails, Tasks, Settled, Early
<1>3. CASE FindOrCreateDraft(p)
  <2> DEFINE i == Resolve(p, relId[p])
  <2>1. /\ i = 0 => ReleasesOf(p) = {}
        /\ i # 0 => i \in ReleasesOf(p)
        /\ i \in MaybeId
    BY <1>0, Resolves DEF Owned
  <2>4. rels' \in [Ids -> Release \cup {NoRelease}] /\ made' \in MaybeId
    <3>1. (i # 0 /\ rels[i].draft /\ RewriteBody(i, build)) \/ (i = 0 /\ CreateDraft(p, build))
      BY <1>3 DEF FindOrCreateDraft
    <3>2. CASE i # 0 /\ rels[i].draft /\ RewriteBody(i, build)
      <4>1. i \in Ids /\ rels[i] \in Release
        BY <1>0, <2>1, <3>2, Existing DEF ReleasesOf
      <4> QED
        BY <1>0, <3>2, <4>1, Written DEF RewriteBody, GitHubTypeOK
    <3>3. CASE i = 0 /\ CreateDraft(p, build)
      <4>1. [proj |-> p, draft |-> TRUE, build |-> build, flag |-> FALSE,
             assets |-> [a \in Assets |-> 0]] \in Release
        BY <1>0 DEF Release
      <4>2. made + 1 \in MaybeId
        BY <1>0, <3>3 DEF CreateDraft, GitHubTypeOK, MaybeId
      <4> QED
        BY <1>0, <3>3, <4>1, <4>2 DEF CreateDraft, GitHubTypeOK
    <3> QED
      BY <3>1, <3>2, <3>3
  <2>5. i # 0 \/ made + 1 \in MaybeId
    BY <1>0, <1>3 DEF FindOrCreateDraft, CreateDraft, GitHubTypeOK, MaybeId
  <2>6. relId' \in [Projects -> MaybeId]
    BY <1>0, <1>3, <2>1, <2>5 DEF FindOrCreateDraft
  <2>7. task' = [task EXCEPT ![p] = "clear"] /\ UNCHANGED at /\ task[p] = "draft"
    BY <1>3 DEF FindOrCreateDraft, Goes
  <2>8. task' \in [Workspace -> Tasks]
        /\ \A q \in Projects : task'[q] = IF q = p THEN "clear" ELSE task[q]
    BY <1>0, <2>7 DEF Tasks, Working
  <2>9. at[p] = 1 /\ 1 \in DOMAIN AssetSeq[p]
    BY <2>7 DEF Early, PipelineInv, Typed
  <2> QED
    BY <1>1, <1>3, <2>4, <2>6, <2>7, <2>8, <2>9
    DEF FindOrCreateDraft, PipelineInv, Typed, Early
<1>4. CASE ClearAsset(p)
  <2>1. at[p] \in DOMAIN AssetSeq[p] /\ task[p] = "clear" /\ AssetSeq[p][at[p]] \in Assets
    BY <1>4 DEF ClearAsset, PipelineInv, Typed
  <2>2. CASE Exists(relId[p])
    <3>1. rels' \in [Ids -> Release \cup {NoRelease}]
      <4>1. relId[p] \in Ids /\ rels[relId[p]] \in Release
        BY <1>0, <2>2, Existing
      <4>2. \A i \in Ids, a \in Assets : rels[i] \in Release =>
              [rels EXCEPT ![i].assets[a] = 0] \in [Ids -> Release \cup {NoRelease}]
        BY <1>0, Written
      <4>3. rels' = [rels EXCEPT ![relId[p]].assets[AssetSeq[p][at[p]]] = 0]
        BY <1>4, <2>2 DEF ClearAsset, DeleteAsset
      <4> HIDE <1>4, <2>2
      <4> QED
        BY <2>1, <4>1, <4>2, <4>3
    <3>2. task' \in [Workspace -> Tasks]
          /\ \A q \in Projects : task'[q] = IF q = p THEN "put" ELSE task[q]
      BY <1>0, <1>4, <2>2 DEF ClearAsset, Goes, Tasks, Working
    <3> QED
      BY <1>1, <1>4, <2>1, <3>1, <3>2, <1>0 DEF ClearAsset, PipelineInv, Typed, Early, GitHubTypeOK
  <2>3. CASE ~Exists(relId[p])
    BY <1>0, <1>1, <1>2, <1>4, <2>3 DEF ClearAsset, PipelineInv, Typed, GitHubTypeOK
  <2> QED
    BY <2>2, <2>3
<1>5. CASE PutAsset(p)
  <2>1. at[p] \in DOMAIN AssetSeq[p] /\ task[p] = "put" /\ AssetSeq[p][at[p]] \in Assets
        /\ at[p] \in 1..Len(AssetSeq[p])
    BY <1>5 DEF PutAsset, PipelineInv, Typed
  <2>2. CASE Exists(relId[p])
    <3>1. rels' \in [Ids -> Release \cup {NoRelease}]
      <4>1. relId[p] \in Ids /\ rels[relId[p]] \in Release
        BY <1>0, <2>2, Existing
      <4>2. \A i \in Ids, a \in Assets : rels[i] \in Release =>
              [rels EXCEPT ![i].assets[a] = build] \in [Ids -> Release \cup {NoRelease}]
        BY <1>0, Written
      <4>3. rels' = [rels EXCEPT ![relId[p]].assets[AssetSeq[p][at[p]]] = build]
        BY <1>5, <2>2 DEF PutAsset, UploadAsset
      <4> HIDE <1>5, <2>2
      <4> QED
        BY <2>1, <4>1, <4>2, <4>3
    <3>2. task' \in [Workspace -> Tasks]
          /\ \A q \in Projects :
               task'[q] = IF q = p THEN IF at[p] = Len(AssetSeq[p]) THEN "mark" ELSE "clear"
                          ELSE task[q]
      BY <1>0, <1>5, <2>2 DEF PutAsset, Goes, Tasks, Working
    <3>3. /\ at' \in [Projects -> Nat \ {0}]
          /\ \A q \in Projects : at'[q] = IF q = p THEN at[p] + 1 ELSE at[q]
      BY <1>0, <1>5, <2>2 DEF PutAsset
    <3>4. /\ at[p] + 1 \in 1..Len(AssetSeq[p]) + 1
          /\ at[p] # Len(AssetSeq[p]) => at[p] + 1 \in DOMAIN AssetSeq[p]
      BY <2>1
    <3> QED
      BY <1>0, <1>1, <1>5, <2>1, <3>1, <3>2, <3>3, <3>4
      DEF PutAsset, PipelineInv, Typed, Early, GitHubTypeOK
  <2>3. CASE ~Exists(relId[p])
    BY <1>0, <1>1, <1>2, <1>5, <2>3 DEF PutAsset, PipelineInv, Typed, GitHubTypeOK
  <2> QED
    BY <2>2, <2>3
<1>6. CASE Mark(p)
  <2>1. Exists(relId[p]) /\ task[p] = "mark"
    BY <1>0, <1>6 DEF Mark, PipelineInv, Uploads, Uploading
  <2>2. rels' \in [Ids -> Release \cup {NoRelease}]
    <3>1. relId[p] \in Ids /\ rels[relId[p]] \in Release
      BY <1>0, <2>1, Existing
    <3> QED
      BY <1>0, <1>6, <3>1, Written DEF Mark, MarkPublished
  <2>3. task' \in [Workspace -> Tasks]
        /\ \A q \in Projects : task'[q] = IF q = p THEN "passed" ELSE task[q]
    BY <1>0, <1>6 DEF Mark, Goes, Tasks, Settled
  <2> QED
    BY <1>0, <1>1, <1>6, <2>2, <2>3 DEF Mark, PipelineInv, Typed, Early, GitHubTypeOK
<1> QED
  BY <1>3, <1>4, <1>5, <1>6

LEMMA TypedEnd ==
  ASSUME PipelineInv, UNCHANGED pubVars,
         Report \/ CleanUp \/ ForeignCleanUp \/ BuildKilled
  PROVE  Typed'
<1> USE DEF pubVars, runVars
<1>1. \A S : DeleteReleases(S) => rels' \in [Ids -> Release \cup {NoRelease}]
  BY DEF DeleteReleases, PipelineInv, Typed, TypeOK, GitHubTypeOK
<1>2. CASE Report
  <2>1. prIds' \in [Projects -> MaybeId] /\ faults' \in 0..MaxFaults
    <3>1. prIds \in [Projects -> MaybeId] /\ relId \in [Projects -> MaybeId] /\ faults \in 0..MaxFaults
      BY DEF PipelineInv, Typed, TypeOK, GitHubTypeOK
    <3>2. CASE RecordIds(Uploaded, relId) /\ UNCHANGED faults
      BY <3>1, <3>2 DEF RecordIds
    <3>3. CASE Fault /\ UNCHANGED prIds
      BY <3>1, <3>3, BuildAssumption DEF Fault
    <3> QED
      BY <1>2, <3>2, <3>3 DEF Report
  <2> QED
    BY <1>2, <2>1 DEF Report, PipelineInv, Typed, TypeOK, GitHubTypeOK, Early
<1>3. CASE CleanUp
  BY <1>1, <1>3 DEF CleanUp, PipelineInv, Typed, TypeOK, GitHubTypeOK, Early
<1>4. CASE ForeignCleanUp
  <2>1. faults' \in 0..MaxFaults
    BY <1>4, BuildAssumption DEF ForeignCleanUp, Fault, PipelineInv, Typed, TypeOK
  <2> QED
    BY <1>1, <1>4, <2>1 DEF ForeignCleanUp, PipelineInv, Typed, TypeOK, GitHubTypeOK, Early
<1>5. CASE BuildKilled
  <2>1. faults' \in 0..MaxFaults
    BY <1>5, BuildAssumption DEF BuildKilled, Fault, PipelineInv, Typed, TypeOK
  <2> QED
    BY <1>5, <2>1 DEF BuildKilled, PipelineInv, Typed, TypeOK, GitHubTypeOK, gitHubVars, Early
<1> QED
  BY <1>2, <1>3, <1>4, <1>5

\* The target at hand is one of the project at hand.
LEMMA AtTarget ==
  ASSUME PipelineInv, job = "publish", pub.pc \in {"verify", "push", "pointers", "reverify"}
  PROVE  Project \in Projects /\ pub.t \in DOMAIN TargetSeq[Project] /\ Here \in Targets
         /\ Here.proj = Project
<1>1. pub.k \in DOMAIN ProjectSeq
  BY DEF PipelineInv, Typed, PubTyped
<1>2. Project \in Projects /\ TargetSeq[Project] \in Seq(Targets)
  BY <1>1, PublishAssumption DEF Project
<1>3. pub.t \in DOMAIN TargetSeq[Project]
  BY DEF PipelineInv, Publishes
<1> QED
  BY <1>2, <1>3, PublishAssumption DEF Here

\* What a step of the publish job leaves alone, and what it must keep.
LEMMA TypedPublish ==
  ASSUME PipelineInv, RunPublish \/ PublishSteps \/ PublishFails PROVE Typed'
<1> USE PublishAssumption, GitHubAssumption
<1>1. ASSUME GitHubTypeOK', pub' \in PubTyped, registry' \in [Targets -> MaybeBuild],
             pointers' \subseteq Targets, faults' \in 0..MaxFaults,
             job' \in {"publish", "publishFailed", "released"}, build # 0,
             UNCHANGED <<suffixed, runVars, disturbed>>
      PROVE  Typed'
  <2>1. pub'.pc \in PubSteps
    BY <1>1 DEF PubTyped
  <2> QED
    BY <1>1, <2>1 DEF PipelineInv, Typed, TypeOK, runVars, PubSteps
<1>2. /\ GitHubTypeOK /\ Owned /\ pub \in PubTyped /\ registry \in [Targets -> MaybeBuild]
      /\ pointers \subseteq Targets /\ faults \in 0..MaxFaults /\ build \in MaybeBuild
  BY DEF PipelineInv, Typed, TypeOK
<1>3. Idle \in PubTyped /\ [Idle EXCEPT !.pc = "resolve"] \in PubTyped
  BY IdleTyped
<1>4. ASSUME PublishSteps \/ PublishFails PROVE job = "publish" /\ build # 0 /\ Project \in Projects
  <2>1. job = "publish"
    BY <1>4 DEF PublishSteps, PublishFails, ResolveRelease, SkipTarget, NotPublished, PushNpm,
       PushImage, PushPointers, Reverify, UpdateFlags, FinalizeRelease, CreateGroupTag,
       CreateSimpleTag, Comment, PublishRefused, PublishStep
  <2> QED
    BY <1>2, <2>1 DEF PipelineInv, Typed, PubTyped, Project
<1>23. pub.k \in DOMAIN ProjectSeq /\ pub.t \in Nat \ {0}
  BY <1>2, PubFields
<1>9. /\ \A pc \in PubSteps : [pub EXCEPT !.pc = pc] \in PubTyped
      /\ \A pc \in PubSteps, t \in Nat \ {0} : [pub EXCEPT !.pc = pc, !.t = t] \in PubTyped
      /\ \A pc \in PubSteps, k \in DOMAIN ProjectSeq :
           [pub EXCEPT !.pc = pc, !.k = k] \in PubTyped
      /\ \A rel \in MaybeId, draft \in BOOLEAN, b \in MaybeBuild,
           files \in [Assets -> MaybeBuild], t \in Nat \ {0}, pc \in PubSteps :
           [pub EXCEPT !.rel = rel, !.draft = draft, !.build = b, !.files = files,
                     !.t = t, !.pc = pc] \in PubTyped
  BY <1>2, PubFields
<1>5. ASSUME NextTarget \/ (\E pc \in {"push", "reverify", "pointers", "finalize", "group", "simple"} : Then(pc))
      PROVE  pub' \in PubTyped
  <2>1. pub.t + 1 \in Nat \ {0}
    BY <1>23
  <2>2. {"push", "reverify", "pointers", "finalize", "group", "simple", "flags", "verify"} \subseteq PubSteps
    BY DEF PubSteps
  <2>3. CASE NextTarget
    BY <1>9, <2>1, <2>2, <2>3 DEF NextTarget
  <2>4. CASE \E pc \in {"push", "reverify", "pointers", "finalize", "group", "simple"} : Then(pc)
    <3>1. PICK pc \in {"push", "reverify", "pointers", "finalize", "group", "simple"} : Then(pc)
      BY <2>4
    <3>2. pc \in PubSteps
      BY <2>2
    <3> QED
      BY <1>9, <3>1, <3>2 DEF Then
  <2> QED
    BY <1>5, <2>3, <2>4
<1>6. ASSUME UNCHANGED gitHubVars PROVE GitHubTypeOK'
  BY <1>2, <1>6 DEF gitHubVars, GitHubTypeOK
<1>7. ASSUME Fault PROVE faults' \in 0..MaxFaults
  BY <1>2, <1>7, BuildAssumption DEF Fault
<1>8. ASSUME pub.pc \in {"verify", "push", "pointers", "reverify", "flags", "finalize"}, job = "publish"
      PROVE  pub.rel \in Ids /\ rels[pub.rel] \in Release /\ pub.build = build
  BY <1>2, <1>8, Existing DEF PipelineInv, Publishes, Fetched
<1>10. CASE RunPublish
  BY <1>1, <1>2, <1>3, <1>6, <1>10 DEF RunPublish, StartPublish, PipelineInv, Typed
<1>11. CASE ResolveRelease
  <2> DEFINE i == Resolve(Project, prIds[Project])
  <2>1. i \in ReleasesOf(Project) /\ i \in MaybeId
    <3>1. Project \in Projects /\ i # 0
      BY <1>4, <1>11 DEF ResolveRelease, PublishSteps
    <3>2. prIds[Project] \in MaybeId
          /\ (Exists(prIds[Project]) => rels[prIds[Project]].proj = Project)
      BY <1>2, <3>1 DEF Owned, GitHubTypeOK
    <3> QED
      BY <1>2, <3>1, <3>2, Resolves
  <2>2. rels[i] \in Release
    BY <1>2, <2>1, Existing DEF ReleasesOf
  <2>3. rels[i].draft \in BOOLEAN /\ rels[i].build \in MaybeBuild /\ rels[i].assets \in [Assets -> MaybeBuild]
    BY <2>2 DEF Release, Builds, MaybeBuild
  <2>4. pub' \in PubTyped
    <3>1. "flags" \in PubSteps /\ "verify" \in PubSteps /\ 1 \in Nat \ {0}
      BY DEF PubSteps
    <3>2. pub' = [pub EXCEPT !.rel = i, !.draft = rels[i].draft, !.build = rels[i].build,
                             !.files = rels[i].assets, !.t = 1,
                             !.pc = IF TargetSeq[Project] = <<>> THEN "flags" ELSE "verify"]
      BY <1>11 DEF ResolveRelease
    <3> DEFINE pc == IF TargetSeq[Project] = <<>> THEN "flags" ELSE "verify"
               d == rels[i].draft
               b == rels[i].build
               f == rels[i].assets
    <3>3. pc \in PubSteps
      BY <3>1
    <3>4. i \in MaybeId /\ d \in BOOLEAN /\ b \in MaybeBuild /\ f \in [Assets -> MaybeBuild]
      BY <2>1, <2>3
    <3>5. pub' = [pub EXCEPT !.rel = i, !.draft = d, !.build = b, !.files = f,
                             !.t = 1, !.pc = pc]
      BY <3>2
    <3> HIDE <1>11 DEF i, d, b, f, pc
    <3>6. [pub EXCEPT !.rel = i, !.draft = d, !.build = b, !.files = f, !.t = 1, !.pc = pc]
            \in PubTyped
      BY <1>9, <3>1, <3>3, <3>4
    <3> QED
      BY <3>5, <3>6
  <2> QED
    BY <1>1, <1>2, <1>4, <1>6, <1>11, <2>4 DEF ResolveRelease, PublishSteps, buildVars, PublishStep
<1>12. CASE SkipTarget \/ Reverify
  BY <1>1, <1>2, <1>4, <1>5, <1>6, <1>12 DEF SkipTarget, Reverify, PublishSteps, buildVars
<1>13. CASE NotPublished
  BY <1>1, <1>2, <1>4, <1>5, <1>6, <1>7, <1>13 DEF NotPublished, PublishSteps
<1>14. CASE PushNpm
  <2>1. Here \in Targets /\ Here.asset \in Assets
    <3>1. Here \in Targets
      BY <1>4, <1>14, AtTarget DEF PushNpm, PublishStep, PublishSteps
    <3>2. AssetSeq[Here.proj] \in Seq(Assets)
      BY <3>1, BuildAssumption DEF Target
    <3> QED
      BY <1>14, <3>1, <3>2 DEF PushNpm
  <2>2. registry' \in [Targets -> MaybeBuild] /\ pointers' \subseteq Targets
    BY <1>2, <1>14, <2>1 DEF PushNpm, PubTyped
  <2> QED
    BY <1>1, <1>2, <1>4, <1>5, <1>6, <1>14, <2>2 DEF PushNpm, PublishSteps, buildVars
<1>15. CASE PushImage
  <2>1. Here \in Targets
    BY <1>4, <1>15, AtTarget DEF PushImage, PublishStep, PublishSteps
  <2>2. registry' \in [Targets -> MaybeBuild]
    BY <1>2, <1>15, <2>1 DEF PushImage, PubTyped
  <2>3. pub' \in PubTyped
    BY <1>5, <1>15 DEF PushImage
  <2> QED
    BY <1>1, <1>2, <1>4, <1>6, <1>15, <2>2, <2>3 DEF PushImage, PublishSteps, buildVars
<1>16. CASE PushPointers
  <2>1. Here \in Targets
    BY <1>4, <1>16, AtTarget DEF PushPointers, PublishStep, PublishSteps
  <2> QED
    BY <1>1, <1>2, <1>4, <1>5, <1>6, <1>16, <2>1 DEF PushPointers, PublishSteps, buildVars
<1>17. CASE UpdateFlags
  <2>1. pub.rel \in Ids /\ rels[pub.rel] \in Release /\ pub.build \in Builds
    <3>1. job = "publish" /\ pub.pc = "flags" /\ build # 0
      BY <1>4, <1>17 DEF UpdateFlags, PublishStep, PublishSteps
    <3> QED
      BY <1>2, <1>8, <3>1 DEF Builds, MaybeBuild
  <2>2. GitHubTypeOK'
    BY <1>2, <1>17, <2>1, Written DEF UpdateFlags, MarkPublished, GitHubTypeOK
  <2>3. pub' \in PubTyped
    BY <1>5, <1>17 DEF UpdateFlags
  <2> QED
    BY <1>1, <1>2, <1>4, <1>17, <2>2, <2>3 DEF UpdateFlags, PublishSteps, buildVars
<1>18. CASE FinalizeRelease
  <2>1. pub.rel \in Ids /\ rels[pub.rel] \in Release /\ rels[pub.rel].proj \in Projects
    BY <1>4, <1>8, <1>18 DEF FinalizeRelease, PublishStep, PublishSteps, Release
  <2>2. GitHubTypeOK'
    BY <1>2, <1>18, <2>1, Written DEF FinalizeRelease, Finalize, GitHubTypeOK
  <2> QED
    BY <1>1, <1>2, <1>4, <1>5, <1>18, <2>2 DEF FinalizeRelease, PublishSteps, buildVars
<1>19. CASE CreateGroupTag
  <2>1. GitHubTypeOK'
    BY <1>2, <1>19 DEF CreateGroupTag, GitHubTypeOK
  <2> QED
    BY <1>1, <1>2, <1>4, <1>5, <1>19, <2>1 DEF CreateGroupTag, PublishSteps, buildVars
<1>20. CASE CreateSimpleTag
  <2>1. GitHubTypeOK'
    BY <1>2, <1>20 DEF CreateSimpleTag, GitHubTypeOK
  <2>2. pub' \in PubTyped
    <3>1. pub.k # Len(ProjectSeq) => pub.k + 1 \in DOMAIN ProjectSeq
      <4>1. DOMAIN ProjectSeq = 1..Len(ProjectSeq) /\ Len(ProjectSeq) \in Nat
        OBVIOUS
      <4> QED
        BY <1>23, <4>1
    <3>2. "comment" \in PubSteps /\ "resolve" \in PubSteps
      BY DEF PubSteps
    <3> QED
      BY <1>9, <1>20, <3>1, <3>2 DEF CreateSimpleTag
  <2> QED
    BY <1>1, <1>2, <1>4, <1>20, <2>1, <2>2 DEF CreateSimpleTag, PublishSteps, buildVars
<1>21. CASE Comment
  BY <1>1, <1>2, <1>3, <1>4, <1>6, <1>21 DEF Comment, PublishSteps
<1>22. CASE PublishRefused \/ PublishFails
  BY <1>1, <1>2, <1>3, <1>4, <1>6, <1>7, <1>22
  DEF PublishRefused, PublishFails, EndFailed, PublishSteps
<1> QED
  BY <1>10, <1>11, <1>12, <1>13, <1>14, <1>15, <1>16, <1>17, <1>18, <1>19, <1>20, <1>21, <1>22
  DEF PublishSteps

-----------------------------------------------------------------------------
(* What the writes leave alone.                                              *)

\* every release is still there, of the same project, and none is new
SameReleases == \A j : /\ Exists(j)' <=> Exists(j)
                       /\ Exists(j) => rels'[j].proj = rels[j].proj

LEMMA Rewritten ==
  ASSUME GitHubTypeOK, NEW i, Exists(i), NEW b \in Builds, NEW f \in BOOLEAN,
         rels' = [rels EXCEPT ![i].build = b, ![i].flag = f]
  PROVE  /\ SameReleases
         /\ \A j : Exists(j) => /\ rels'[j].draft = rels[j].draft
                                /\ rels'[j].assets = rels[j].assets
                                /\ j # i => rels'[j] = rels[j]
         /\ rels'[i].build = b /\ rels'[i].flag = f
<1>1. i \in Ids /\ rels[i] \in Release
  BY Existing
<1>2. rels'[i] \in Release /\ \A j \in Ids : j # i => rels'[j] = rels[j]
  BY <1>1 DEF GitHubTypeOK, Release
<1>3. rels'[i].proj = rels[i].proj /\ rels'[i].draft = rels[i].draft
      /\ rels'[i].assets = rels[i].assets /\ rels'[i].build = b /\ rels'[i].flag = f
  BY <1>1 DEF GitHubTypeOK, Release
<1>4. rels'[i] # NoRelease /\ rels[i] # NoRelease
  BY <1>1, <1>2, NoReleaseIsNone
<1> QED
  BY <1>1, <1>2, <1>3, <1>4 DEF SameReleases, Exists

LEMMA Attached ==
  ASSUME GitHubTypeOK, NEW i, Exists(i), NEW n \in MaybeBuild, NEW a \in Assets,
         rels' = [rels EXCEPT ![i].assets[a] = n]
  PROVE  /\ SameReleases
         /\ \A j : Exists(j) => /\ rels'[j].draft = rels[j].draft
                                /\ rels'[j].flag = rels[j].flag
                                /\ rels'[j].build = rels[j].build
                                /\ j # i => rels'[j] = rels[j]
         /\ rels'[i].assets[a] = n
         /\ \A c \in Assets : c # a => rels'[i].assets[c] = rels[i].assets[c]
<1>1. i \in Ids /\ rels[i] \in Release /\ rels[i].assets \in [Assets -> MaybeBuild]
  BY Existing DEF Release
<1>2. rels'[i] \in Release /\ \A j \in Ids : j # i => rels'[j] = rels[j]
  BY <1>1 DEF GitHubTypeOK, Release
<1>3. rels'[i].proj = rels[i].proj /\ rels'[i].draft = rels[i].draft
      /\ rels'[i].flag = rels[i].flag /\ rels'[i].build = rels[i].build
      /\ rels'[i].assets = [rels[i].assets EXCEPT ![a] = n]
  BY <1>1 DEF GitHubTypeOK, Release
<1>4. rels'[i] # NoRelease /\ rels[i] # NoRelease
  BY <1>1, <1>2, NoReleaseIsNone
<1> QED
  BY <1>1, <1>2, <1>3, <1>4 DEF SameReleases, Exists

LEMMA Finalized ==
  ASSUME GitHubTypeOK, NEW i, Exists(i), rels' = [rels EXCEPT ![i].draft = FALSE]
  PROVE  /\ SameReleases
         /\ \A j : Exists(j) => /\ rels'[j].assets = rels[j].assets
                                /\ rels'[j].flag = rels[j].flag
                                /\ rels'[j].build = rels[j].build
                                /\ j # i => rels'[j] = rels[j]
         /\ rels'[i].draft = FALSE
<1>1. i \in Ids /\ rels[i] \in Release
  BY Existing
<1>2. rels'[i] \in Release /\ \A j \in Ids : j # i => rels'[j] = rels[j]
  BY <1>1 DEF GitHubTypeOK, Release
<1>3. rels'[i].proj = rels[i].proj /\ rels'[i].draft = FALSE
      /\ rels'[i].flag = rels[i].flag /\ rels'[i].build = rels[i].build
      /\ rels'[i].assets = rels[i].assets
  BY <1>1 DEF GitHubTypeOK, Release
<1>4. rels'[i] # NoRelease /\ rels[i] # NoRelease
  BY <1>1, <1>2, NoReleaseIsNone
<1> QED
  BY <1>1, <1>2, <1>3, <1>4 DEF SameReleases, Exists

LEMMA Deleted ==
  ASSUME NEW S, DeleteReleases(S)
  PROVE  \A j : /\ Exists(j)' <=> Exists(j) /\ j \notin S
                /\ Exists(j)' => rels'[j] = rels[j]
BY DEF DeleteReleases, Exists

LEMMA Created ==
  ASSUME GitHubTypeOK, Owned, NEW p \in Projects, NEW b \in Builds, CreateDraft(p, b)
  PROVE  /\ made + 1 \in Ids /\ ~Exists(made + 1) /\ made' = made + 1
         /\ \A j : Exists(j)' <=> Exists(j) \/ j = made + 1
         /\ \A j : Exists(j) => rels'[j] = rels[j]
         /\ LET r == rels'[made + 1]
            IN  r.proj = p /\ r.draft = TRUE /\ r.build = b /\ r.flag = FALSE
<1>1. made + 1 \in Ids /\ made \in Nat /\ made' = made + 1
  BY GitHubAssumption DEF CreateDraft, GitHubTypeOK, MaybeId, Ids
<1>2. ~Exists(made + 1)
  BY <1>1 DEF Owned
<1>3. rels'[made + 1] = [proj |-> p, draft |-> TRUE, build |-> b, flag |-> FALSE,
                         assets |-> [a \in Assets |-> 0]]
      /\ \A j \in Ids : j # made + 1 => rels'[j] = rels[j]
  BY <1>1 DEF CreateDraft, GitHubTypeOK
<1>4. rels'[made + 1] \in Release
  BY <1>3, GitHubAssumption DEF Release, MaybeBuild
<1>5. rels'[made + 1] # NoRelease
  BY <1>4, NoReleaseIsNone
<1> QED
  BY <1>1, <1>2, <1>3, <1>5 DEF Exists

-----------------------------------------------------------------------------
(* The steps, by what they work on.                                          *)

Starting == FirstRun \/ RerunAll
Planning == Plan \/ \E p \in Projects : DeleteForced(p)
Upload(p) == FindOrCreateDraft(p) \/ ClearAsset(p) \/ PutAsset(p) \/ Mark(p)
Ending == Report \/ CleanUp \/ ForeignCleanUp \/ BuildKilled
Publishing == RunPublish \/ PublishSteps \/ PublishFails

LEMMA Steps ==
  ASSUME Next
  PROVE  \/ Starting
         \/ UNCHANGED pubVars /\ Planning
         \/ UNCHANGED pubVars /\ \E w \in Workspace : Moves(w)
         \/ UNCHANGED pubVars /\ \E p \in Projects : Upload(p)
         \/ UNCHANGED pubVars /\ Ending
         \/ Publishing
BY BuildAssumption
DEF Next, BuildSteps, Mishap, ProjectStep, Starting, Planning, Upload, Ending, Publishing, Moves

LEMMA TypedKept == ASSUME PipelineInv, Next PROVE Typed'
BY Steps, TypedStart, TypedPlan, TypedMoves, TypedUploads, TypedEnd, TypedPublish
DEF Starting, Planning, Upload, Ending, Publishing

\* The same releases or fewer, and ids that were known before.
LEMMA OwnedSame ==
  ASSUME Owned, made' = made,
         \A j : Exists(j)' => Exists(j) /\ rels'[j].proj = rels[j].proj,
         \A p \in Projects : prIds'[p] \in {prIds[p], relId[p]},
         \A p \in Projects : relId'[p] \in {prIds[p], relId[p]} \cup ReleasesOf(p)
  PROVE  Owned'
<1>1. \A p \in Projects : \A i \in ReleasesOf(p) : i <= made /\ Exists(i) /\ rels[i].proj = p
  BY DEF Owned, ReleasesOf
<1>2. \A i \in Ids : Exists(i)' => i <= made'
  BY DEF Owned
<1>3. \A i, j \in Ids : Exists(i)' /\ Exists(j)' /\ rels'[i].proj = rels'[j].proj => i = j
  BY DEF Owned
<1>4. ASSUME NEW p \in Projects
      PROVE  /\ prIds'[p] <= made' /\ (Exists(prIds[p])' => rels'[prIds'[p]].proj = p)
             /\ relId'[p] <= made' /\ (Exists(relId[p])' => rels'[relId'[p]].proj = p)
  <2> DEFINE Good(i) == i <= made /\ (Exists(i) => rels[i].proj = p)
  <2>1. Good(prIds[p]) /\ Good(relId[p]) /\ \A i \in ReleasesOf(p) : Good(i)
    BY <1>1 DEF Owned
  <2>2. Good(prIds'[p]) /\ Good(relId'[p])
    BY <2>1
  <2> QED
    BY <2>2 DEF Exists
<1> QED
  BY <1>2, <1>3, <1>4 DEF Owned, Ids

LEMMA OwnedKept == ASSUME PipelineInv, Next PROVE Owned'
<1>0. GitHubTypeOK /\ Owned /\ build \in MaybeBuild /\ relId \in [Projects -> MaybeId]
      /\ prIds \in [Projects -> MaybeId]
  BY DEF PipelineInv, Typed, TypeOK, GitHubTypeOK
<1>1. ASSUME UNCHANGED <<rels, made>>,
             \A p \in Projects : prIds'[p] \in {prIds[p], relId[p]},
             \A p \in Projects : relId'[p] \in {prIds[p], relId[p]} \cup ReleasesOf(p)
      PROVE  Owned'
  <2>1. \A j : Exists(j)' => Exists(j) /\ rels'[j].proj = rels[j].proj
    BY <1>1 DEF Exists
  <2> QED
    BY <1>0, <1>1, <2>1, OwnedSame
<1>2. ASSUME SameReleases, UNCHANGED <<made, prIds, relId>> PROVE Owned'
  BY <1>0, <1>2, OwnedSame DEF SameReleases
<1>3. ASSUME NEW S, DeleteReleases(S), UNCHANGED <<made, prIds, relId>> PROVE Owned'
  BY <1>0, <1>3, Deleted, OwnedSame
<1>4. CASE Starting
  BY <1>1, <1>4 DEF Starting, FirstRun, RerunAll, StartBuild, gitHubVars
<1>5. CASE Planning
  <2>1. CASE Plan
    <3>1. ASSUME NEW p \in Projects PROVE relId'[p] \in {prIds[p], relId[p]} \cup ReleasesOf(p)
      BY <1>0, <2>1, Resolves DEF Plan, Owned
    <3> QED
      BY <1>1, <2>1, <3>1 DEF Plan, gitHubVars
  <2>2. ASSUME NEW p \in Projects, DeleteForced(p) PROVE Owned'
    BY <1>3, <2>2 DEF DeleteForced, DeleteDraft
  <2> QED
    BY <1>5, <2>1, <2>2 DEF Planning
<1>6. ASSUME NEW w \in Workspace, Moves(w) PROVE Owned'
  <2>1. UNCHANGED <<rels, made, prIds, relId>>
    BY <1>6 DEF Moves, TaskStep, Build, Built, BuildFails, Snapshot, Pack, PushTemp,
       RefusePublished, StepFails, gitHubVars
  <2> QED
    BY <1>1, <2>1
<1>7. ASSUME NEW p \in Projects, Upload(p) PROVE Owned'
  <2>0. build \in Builds /\ job = "build" /\ build \in MaybeBuild /\ 0 \in MaybeBuild
    BY <1>0, <1>7, GitHubAssumption DEF Upload, FindOrCreateDraft, ClearAsset, PutAsset, Mark,
       PipelineInv, Typed, MaybeBuild, Builds
  <2>1. CASE FindOrCreateDraft(p)
    <3> DEFINE i == Resolve(p, relId[p])
    <3>1. /\ i = 0 => ReleasesOf(p) = {}
          /\ i # 0 => i \in ReleasesOf(p)
      BY <1>0, Resolves DEF Owned
    <3>2. CASE i # 0 /\ RewriteBody(i, build)
      <4>1. SameReleases
        BY <1>0, <2>0, <3>1, <3>2, Rewritten DEF RewriteBody, ReleasesOf
      <4>2. \A q \in Projects : relId'[q] \in {prIds[q], relId[q]} \cup ReleasesOf(q)
        BY <1>0, <2>1, <3>1, <3>2 DEF FindOrCreateDraft
      <4> QED
        BY <1>0, <2>1, <3>2, <4>1, <4>2, OwnedSame
        DEF FindOrCreateDraft, RewriteBody, SameReleases
    <3>3. CASE i = 0 /\ CreateDraft(p, build)
      <4> DEFINE n == made + 1
      <4>1. /\ n \in Ids /\ ~Exists(n) /\ made' = n
            /\ \A j : Exists(j)' <=> Exists(j) \/ j = n
            /\ \A j : Exists(j) => rels'[j] = rels[j]
            /\ rels'[n].proj = p
        BY <1>0, <2>0, <3>3, Created
      <4>2. made \in Nat /\ n > made /\ n \notin 0..made
        BY <1>0, GitHubAssumption DEF GitHubTypeOK, MaybeId
      <4>3. \A j \in Ids : Exists(j) => rels[j].proj # p
        BY <3>1, <3>3 DEF ReleasesOf
      <4>4. relId' = [relId EXCEPT ![p] = n] /\ prIds' = prIds
        BY <2>1, <3>3 DEF FindOrCreateDraft
      <4>5. \A j \in Ids : Exists(j)' => j <= made'
        BY <1>0, <4>1, <4>2 DEF Owned, Ids
      <4>6. \A j, k \in Ids : Exists(j)' /\ Exists(k)' /\ rels'[j].proj = rels'[k].proj => j = k
        BY <1>0, <4>1, <4>3 DEF Owned
      <4>7. ASSUME NEW q \in Projects
            PROVE  /\ prIds[q] <= n /\ (Exists(prIds[q])' => rels'[prIds[q]].proj = q)
                   /\ relId'[q] <= n /\ (Exists(relId[q])' => rels'[relId'[q]].proj = q)
        <5>1. prIds[q] <= made /\ relId[q] <= made /\ prIds[q] \in Nat /\ relId[q] \in Nat
          BY <1>0 DEF Owned, MaybeId
        <5>2. prIds[q] # n /\ relId[q] # n
          BY <4>2, <5>1
        <5>3. (Exists(prIds[q]) => rels[prIds[q]].proj = q)
              /\ (Exists(relId[q]) => rels[relId[q]].proj = q)
          BY <1>0 DEF Owned
        <5>4. prIds[q] <= n /\ relId'[q] <= n
          BY <1>0, <4>2, <4>4, <5>1
        <5>5. Exists(prIds[q])' => rels'[prIds[q]].proj = q
          BY <4>1, <4>4, <5>2, <5>3 DEF Exists
        <5>6. Exists(relId[q])' => rels'[relId'[q]].proj = q
          BY <1>0, <4>1, <4>4, <5>2, <5>3 DEF Exists
        <5> QED
          BY <5>4, <5>5, <5>6
      <4> QED
        BY <4>1, <4>4, <4>5, <4>6, <4>7 DEF Owned, Ids
    <3> QED
      BY <2>1, <3>2, <3>3 DEF FindOrCreateDraft
  <2>2. CASE ClearAsset(p)
    <3>1. CASE Exists(relId[p])
      <4>1. AssetSeq[p][at[p]] \in Assets
        BY <2>2, BuildAssumption DEF ClearAsset, PipelineInv, Typed
      <4>2. SameReleases
        BY <1>0, <2>0, <2>2, <3>1, <4>1, Attached DEF ClearAsset, DeleteAsset
      <4> QED
        BY <1>2, <2>2, <4>2 DEF ClearAsset
    <3>2. CASE ~Exists(relId[p])
      BY <1>1, <2>2, <3>2 DEF ClearAsset
    <3> QED
      BY <3>1, <3>2
  <2>3. CASE PutAsset(p)
    <3>1. CASE Exists(relId[p])
      <4>1. AssetSeq[p][at[p]] \in Assets
        BY <2>3, BuildAssumption DEF PutAsset, PipelineInv, Typed
      <4>2. SameReleases
        BY <1>0, <2>0, <2>3, <3>1, <4>1, Attached DEF PutAsset, UploadAsset
      <4> QED
        BY <1>2, <2>3, <4>2 DEF PutAsset
    <3>2. CASE ~Exists(relId[p])
      BY <1>1, <2>3, <3>2 DEF PutAsset
    <3> QED
      BY <3>1, <3>2
  <2>4. CASE Mark(p)
    <3>1. Exists(relId[p])
      BY <2>0, <2>4 DEF Mark, PipelineInv, Uploads, Uploading
    <3>2. SameReleases
      BY <1>0, <2>0, <2>4, <3>1, Rewritten DEF Mark, MarkPublished
    <3> QED
      BY <1>2, <2>4, <3>2 DEF Mark
  <2> QED
    BY <1>7, <2>1, <2>2, <2>3, <2>4 DEF Upload
<1>8. CASE Ending
  <2>1. CASE Report
    BY <1>0, <1>1, <2>1 DEF Report, RecordIds, runVars
  <2>2. CASE CleanUp \/ ForeignCleanUp
    BY <1>3, <2>2 DEF CleanUp, ForeignCleanUp, runVars
  <2>3. CASE BuildKilled
    BY <1>1, <2>3 DEF BuildKilled, gitHubVars, runVars
  <2> QED
    BY <1>8, <2>1, <2>2, <2>3 DEF Ending
<1>9. CASE Publishing
  <2>1. CASE UpdateFlags \/ FinalizeRelease
    <3>1. job = "publish" /\ pub.pc \in {"flags", "finalize"}
      BY <2>1 DEF UpdateFlags, FinalizeRelease, PublishStep
    <3>2. Exists(pub.rel) /\ pub.build \in Builds
      BY <1>0, <3>1 DEF PipelineInv, Publishes, Fetched, Typed, MaybeBuild, Builds
    <3>3. SameReleases
      BY <1>0, <2>1, <3>2, Rewritten, Finalized DEF UpdateFlags, MarkPublished, FinalizeRelease, Finalize
    <3> QED
      BY <1>2, <2>1, <3>3 DEF UpdateFlags, FinalizeRelease, buildVars, runVars
  <2>2. CASE UNCHANGED <<rels, made, prIds, relId>>
    BY <1>1, <2>2
  <2> QED
    BY <1>9, <2>1, <2>2
    DEF Publishing, PublishSteps, RunPublish, StartPublish, PublishFails, EndFailed, ResolveRelease,
        SkipTarget, NotPublished, PushNpm, PushImage, PushPointers, Reverify, CreateGroupTag,
        CreateSimpleTag, Comment, PublishRefused, gitHubVars, buildVars, runVars
<1> QED
  BY <1>4, <1>5, <1>6, <1>7, <1>8, <1>9, Steps

-----------------------------------------------------------------------------
(* Uploads.                                                                  *)

\* No attempt finds a project completed by its descriptor asset.
LEMMA PlansAll ==
  ASSUME DescriptorAsset \notin Assets, Plan
  PROVE  \A p \in Projects : task'[p] = "wait"
<1>1. {p \in Projects : Completed(p)} = {}
  BY DEF Completed
<1>2. Projects \ {p \in Projects : Completed(p)} = Projects
  BY <1>1
<1>3. Projects \subseteq AllDependencies(Projects)
  BY BuildAssumption DEF AllDependencies
<1> QED
  BY <1>2, <1>3, BuildAssumption DEF Plan

\* An upload works on the release of its own project only.
LEMMA UploadsOwn ==
  ASSUME PipelineInv, NEW p \in Projects, Upload(p), NEW q \in Projects, q # p
  PROVE  /\ relId'[q] = relId[q] /\ at'[q] = at[q]
         /\ Exists(relId[q])' <=> Exists(relId[q])
         /\ Exists(relId[q]) => rels'[relId[q]] = rels[relId[q]]
         /\ task'[q] \in {task[q], "cancelled"}
<1>0. /\ GitHubTypeOK /\ Owned /\ build \in MaybeBuild /\ relId \in [Projects -> MaybeId]
      /\ 0 \in MaybeBuild /\ build \in Builds /\ task \in [Workspace -> Tasks]
      /\ at \in [Projects -> Nat \ {0}] /\ Projects \subseteq Workspace
  BY BuildAssumption, GitHubAssumption DEF PipelineInv, Typed, TypeOK, GitHubTypeOK, Upload, FindOrCreateDraft, ClearAsset,
     PutAsset, Mark, MaybeBuild, Builds
<1>1. Exists(relId[q]) => rels[relId[q]].proj = q
  BY <1>0 DEF Owned
<1>2. relId'[q] = relId[q] /\ at'[q] = at[q]
  BY <1>0 DEF Upload, FindOrCreateDraft, ClearAsset, PutAsset, Mark
<1>3. task'[q] \in {task[q], "cancelled"}
  BY <1>0 DEF Upload, FindOrCreateDraft, ClearAsset, PutAsset, Mark, Goes, Fails
<1>4. ASSUME NEW i, rels[i].proj = p, Exists(i), SameReleases,
             \A j : Exists(j) /\ j # i => rels'[j] = rels[j]
      PROVE  /\ Exists(relId[q])' <=> Exists(relId[q])
             /\ Exists(relId[q]) => rels'[relId[q]] = rels[relId[q]]
  BY <1>1, <1>2, <1>4 DEF SameReleases, Exists
<1>5. /\ Exists(relId[q])' <=> Exists(relId[q])
      /\ Exists(relId[q]) => rels'[relId[q]] = rels[relId[q]]
  <2>1. CASE FindOrCreateDraft(p)
    <3> DEFINE i == Resolve(p, relId[p])
    <3>1. i # 0 => i \in ReleasesOf(p)
      BY <1>0, Resolves DEF Owned
    <3>2. CASE i # 0 /\ RewriteBody(i, build)
      <4>1. Exists(i) /\ rels[i].proj = p
        BY <3>1, <3>2 DEF ReleasesOf
      <4>2. SameReleases /\ \A j : Exists(j) /\ j # i => rels'[j] = rels[j]
        BY <1>0, <3>2, <4>1, Rewritten DEF RewriteBody
      <4> QED
        BY <1>4, <4>1, <4>2
    <3>3. CASE i = 0 /\ CreateDraft(p, build)
      <4>1. /\ \A j : Exists(j)' <=> Exists(j) \/ j = made + 1
            /\ \A j : Exists(j) => rels'[j] = rels[j]
        BY <1>0, <3>3, Created
      <4>2. relId[q] # made + 1
        BY <1>0, GitHubAssumption DEF Owned, GitHubTypeOK, MaybeId
      <4> QED
        BY <1>2, <4>1, <4>2 DEF Exists
    <3> QED
      BY <2>1, <3>2, <3>3 DEF FindOrCreateDraft
  <2>2. CASE ClearAsset(p) \/ PutAsset(p)
    <3>1. CASE Exists(relId[p])
      <4>1. AssetSeq[p][at[p]] \in Assets
        BY <2>2, BuildAssumption DEF ClearAsset, PutAsset, PipelineInv, Typed
      <4>2. SameReleases /\ \A j : Exists(j) /\ j # relId[p] => rels'[j] = rels[j]
        BY <1>0, <2>2, <3>1, <4>1, Attached DEF ClearAsset, PutAsset, DeleteAsset, UploadAsset
      <4>3. rels[relId[p]].proj = p
        BY <1>0, <3>1 DEF Owned
      <4> QED
        BY <1>4, <3>1, <4>2, <4>3
    <3>2. CASE ~Exists(relId[p])
      BY <1>2, <2>2, <3>2 DEF ClearAsset, PutAsset, Exists
    <3> QED
      BY <3>1, <3>2
  <2>3. CASE Mark(p)
    <3>1. Exists(relId[p])
      BY <2>3 DEF Mark, PipelineInv, Uploads, Uploading
    <3>2. SameReleases /\ \A j : Exists(j) /\ j # relId[p] => rels'[j] = rels[j]
      BY <1>0, <2>3, <3>1, Rewritten DEF Mark, MarkPublished
    <3>3. rels[relId[p]].proj = p
      BY <1>0, <3>1 DEF Owned
    <3> QED
      BY <1>4, <3>1, <3>2, <3>3
  <2> QED
    BY <2>1, <2>2, <2>3 DEF Upload
<1> QED
  BY <1>2, <1>3, <1>5

\* What an upload does to the release it works on.
LEMMA UploadStep ==
  ASSUME PipelineInv, NEW p \in Projects, Upload(p)
  PROVE  Uploading(p)'
<1>0. /\ GitHubTypeOK /\ Owned /\ build \in MaybeBuild /\ relId \in [Projects -> MaybeId]
      /\ 0 \in MaybeBuild /\ build \in Builds /\ task \in [Workspace -> Tasks]
      /\ at \in [Projects -> Nat \ {0}] /\ Projects \subseteq Workspace /\ build' = build
      /\ Uploading(p) /\ task[p] \in {"draft", "clear", "put", "mark"}
  BY BuildAssumption, GitHubAssumption
  DEF PipelineInv, Typed, TypeOK, GitHubTypeOK, Upload, FindOrCreateDraft, ClearAsset,
      PutAsset, Mark, MaybeBuild, Builds, Uploads
<1>1. AssetSeq[p] \in Seq(Assets) /\ Len(AssetSeq[p]) \in Nat
      /\ DOMAIN AssetSeq[p] = 1..Len(AssetSeq[p])
  BY BuildAssumption
<1>2. ASSUME Fails(p) PROVE Uploading(p)'
  BY <1>0, <1>2 DEF Fails, Uploading, None
<1>3. CASE FindOrCreateDraft(p)
  <2> DEFINE i == Resolve(p, relId[p])
  <2>1. i # 0 => i \in ReleasesOf(p)
    BY <1>0, Resolves DEF Owned
  <2>2. task'[p] = "clear" /\ at'[p] = 1
    BY <1>0, <1>3 DEF FindOrCreateDraft, Goes, PipelineInv, Typed, Early
  <2>3. Exists(relId[p])' /\ rels'[relId'[p]].build = build /\ ~rels'[relId'[p]].flag
    <3>1. CASE i # 0 /\ RewriteBody(i, build)
      <4>1. Exists(i)
        BY <2>1, <3>1 DEF ReleasesOf
      <4>2. i \in Ids /\ rels'[i] # NoRelease /\ rels'[i].build = build /\ rels'[i].flag = FALSE
        <5> HIDE DEF i
        <5> QED
          BY <1>0, <3>1, <4>1, Rewritten DEF RewriteBody, SameReleases, Exists
      <4>3. relId'[p] = i
        BY <1>0, <1>3, <3>1 DEF FindOrCreateDraft
      <4> QED
        BY <4>2, <4>3 DEF Exists
    <3>2. CASE i = 0 /\ CreateDraft(p, build)
      <4>1. made + 1 \in Ids /\ rels'[made + 1] # NoRelease
            /\ rels'[made + 1].build = build /\ rels'[made + 1].flag = FALSE
        <5>1. \A j : Exists(j)' <=> Exists(j) \/ j = made + 1
          BY <1>0, <3>2, Created
        <5> QED
          BY <1>0, <3>2, <5>1, Created DEF Exists
      <4>2. relId'[p] = made + 1
        BY <1>0, <1>3, <3>2 DEF FindOrCreateDraft
      <4> QED
        BY <4>1, <4>2 DEF Exists
    <3> QED
      BY <1>3, <3>1, <3>2 DEF FindOrCreateDraft
  <2>4. Put(p)'
    BY <1>1, <2>2 DEF Put
  <2> QED
    BY <1>0, <2>2, <2>3, <2>4 DEF Uploading, None
<1>4. CASE ClearAsset(p)
  <2>1. CASE Exists(relId[p])
    <3> DEFINE i == relId[p]
               a == AssetSeq[p][at[p]]
    <3>1. a \in Assets /\ at[p] \in DOMAIN AssetSeq[p]
      BY <1>1, <1>4 DEF ClearAsset, PipelineInv, Typed
    <3>2. rels' = [rels EXCEPT ![i].assets[a] = 0]
      BY <1>4, <2>1 DEF ClearAsset, DeleteAsset
    <3>3. /\ rels'[i].flag = rels[i].flag /\ rels'[i].build = rels[i].build
          /\ \A c \in Assets : c # a => rels'[i].assets[c] = rels[i].assets[c]
          /\ i \in Ids /\ rels'[i] # NoRelease
      <4> HIDE DEF a, i
      <4>1. Exists(i)
        BY <2>1 DEF i
      <4>2. rels'[i].flag = rels[i].flag /\ rels'[i].build = rels[i].build
        BY <1>0, <3>1, <3>2, <4>1, Attached
      <4>3. \A c \in Assets : c # a => rels'[i].assets[c] = rels[i].assets[c]
        BY <1>0, <3>1, <3>2, <4>1, Attached
      <4>4. SameReleases
        BY <1>0, <3>1, <3>2, <4>1, Attached
      <4>5. i \in Ids /\ rels'[i] # NoRelease
        BY <4>1, <4>4 DEF SameReleases, Exists
      <4> QED
        BY <4>2, <4>3, <4>5
    <3>4. task'[p] = "put" /\ at' = at /\ relId' = relId /\ task[p] = "clear"
      BY <1>0, <1>4, <2>1 DEF ClearAsset, Goes
    <3>5. \A k \in DOMAIN AssetSeq[p] : k < at[p] =>
             AssetSeq[p][k] \in Assets /\ rels[i].assets[AssetSeq[p][k]] = build
      BY <1>0, <1>1, <2>1, <3>4 DEF Uploading, Put
    <3>6. Put(p)'
      BY <1>0, <3>3, <3>4, <3>5 DEF Put
    <3> QED
      BY <1>0, <2>1, <3>3, <3>4, <3>6 DEF Uploading, Exists, None
  <2>2. CASE ~Exists(relId[p])
    BY <1>2, <1>4, <2>2 DEF ClearAsset
  <2> QED
    BY <2>1, <2>2
<1>5. CASE PutAsset(p)
  <2>1. CASE Exists(relId[p])
    <3> DEFINE i == relId[p]
               a == AssetSeq[p][at[p]]
    <3>1. a \in Assets /\ at[p] \in 1..Len(AssetSeq[p])
      BY <1>1, <1>5 DEF PutAsset, PipelineInv, Typed
    <3>2. rels' = [rels EXCEPT ![i].assets[a] = build]
      BY <1>5, <2>1 DEF PutAsset, UploadAsset
    <3>3. /\ rels'[i].flag = rels[i].flag /\ rels'[i].build = rels[i].build
          /\ \A c \in Assets : c # a => rels'[i].assets[c] = rels[i].assets[c]
          /\ rels'[i].assets[a] = build
          /\ i \in Ids /\ rels'[i] # NoRelease
      <4> HIDE DEF a, i
      <4>1. Exists(i)
        BY <2>1 DEF i
      <4>2. rels'[i].flag = rels[i].flag /\ rels'[i].build = rels[i].build
        BY <1>0, <3>1, <3>2, <4>1, Attached
      <4>3. \A c \in Assets : c # a => rels'[i].assets[c] = rels[i].assets[c]
        BY <1>0, <3>1, <3>2, <4>1, Attached
      <4>4. SameReleases
        BY <1>0, <3>1, <3>2, <4>1, Attached
      <4>5. i \in Ids /\ rels'[i] # NoRelease
        BY <4>1, <4>4 DEF SameReleases, Exists
      <4>6. rels'[i].assets[a] = build
        <5>1. rels[i] \in Release
          BY <1>0, <4>1, Existing
        <5> QED
          BY <1>0, <3>1, <3>2, <4>5, <5>1 DEF GitHubTypeOK, Release
      <4> QED
        BY <4>2, <4>3, <4>5, <4>6
    <3>4. /\ task'[p] = IF at[p] = Len(AssetSeq[p]) THEN "mark" ELSE "clear"
          /\ at'[p] = at[p] + 1 /\ relId' = relId /\ task[p] = "put"
      BY <1>0, <1>5, <2>1 DEF PutAsset, Goes
    <3>5. \A k \in DOMAIN AssetSeq[p] : k < at[p] =>
             AssetSeq[p][k] \in Assets
             /\ (rels[i].assets[AssetSeq[p][k]] = build \/ AssetSeq[p][k] = a)
      BY <1>0, <1>1, <2>1, <3>4 DEF Uploading, Put
    <3>6. \A k \in DOMAIN AssetSeq[p] : k < at[p] + 1 => rels'[i].assets[AssetSeq[p][k]] = build
      <4> SUFFICES ASSUME NEW k \in DOMAIN AssetSeq[p], k < at[p] + 1
                   PROVE  rels'[i].assets[AssetSeq[p][k]] = build
        OBVIOUS
      <4>1. k = at[p] \/ k < at[p]
        BY <1>1, <3>1
      <4> QED
        BY <3>3, <3>5, <4>1
    <3>7. Put(p)'
      BY <1>0, <3>4, <3>6 DEF Put
    <3>8. task'[p] = "mark" => at'[p] > Len(AssetSeq[p])
      BY <1>1, <3>4
    <3> QED
      BY <1>0, <2>1, <3>3, <3>4, <3>7, <3>8 DEF Uploading, Exists, None
  <2>2. CASE ~Exists(relId[p])
    BY <1>2, <1>5, <2>2 DEF PutAsset
  <2> QED
    BY <2>1, <2>2
<1>6. CASE Mark(p)
  <2>1. Exists(relId[p])
    BY <1>0, <1>6 DEF Mark, Uploading
  <2>2. Exists(relId[p])' /\ rels'[relId[p]].build = build /\ rels'[relId[p]].flag = TRUE
    <3>1. SameReleases /\ rels'[relId[p]].build = build /\ rels'[relId[p]].flag = TRUE
      BY <1>0, <1>6, <2>1, Rewritten DEF Mark, MarkPublished
    <3>2. relId' = relId
      BY <1>6 DEF Mark
    <3> QED
      BY <2>1, <3>1, <3>2 DEF SameReleases, Exists
  <2>3. task'[p] = "passed" /\ relId' = relId
    BY <1>0, <1>6 DEF Mark, Goes
  <2> QED
    BY <1>0, <2>2, <2>3 DEF Uploading, Exists, None
<1> QED
  BY <1>3, <1>4, <1>5, <1>6 DEF Upload

\* Nothing changed for p but that an unfinished release may have gone.
LEMMA UploadingSame ==
  ASSUME NEW p \in Projects, Uploading(p), build' = build,
         at'[p] = at[p], relId'[p] = relId[p],
         Exists(relId[p])' => Exists(relId[p]) /\ rels'[relId[p]] = rels[relId[p]],
         task[p] \in {"mark", "passed"} /\ Exists(relId[p]) => Exists(relId[p])',
         \/ task'[p] = task[p]
         \/ task'[p] \notin {"clear", "put", "mark", "passed", None}
  PROVE  Uploading(p)'
<1>1. CASE task'[p] \notin {"clear", "put", "mark", "passed", None}
  BY <1>1 DEF Uploading
<1>2. CASE task'[p] = task[p]
  <2>1. Exists(relId[p])' => (Put(p) => Put(p)')
    BY <1>2 DEF Put
  <2> QED
    BY <1>2, <2>1 DEF Uploading
<1> QED
  BY <1>1, <1>2

\* Packing never marks a project of the release as done or as left out.
LEMMA MovesTask ==
  ASSUME PipelineInv, NEW w \in Workspace, Moves(w), NEW p \in Projects
  PROVE  /\ \/ task'[p] = task[p]
            \/ task'[p] \notin {"clear", "put", "mark", "passed", None}
         /\ job = "build"
         /\ UNCHANGED <<rels, made, tags, prIds, job, build, relId, at, suffixed>>
<1>0. task \in [Workspace -> Tasks] /\ p \in Workspace
  BY BuildAssumption DEF PipelineInv, Typed, TypeOK
<1>1. FirstStep(w) \notin {"clear", "put", "mark", "passed", None}
      /\ AfterTarball(w) \notin {"clear", "put", "mark", "passed", None}
  BY DEF FirstStep, AfterTarball, None
<1>2. CASE TaskStep(w)
  BY <1>0, <1>1, <1>2 DEF TaskStep, Build, Built, BuildFails, Goes, Fails, None, gitHubVars
<1>3. CASE Snapshot(w) \/ Pack(w) \/ PushTemp(w)
  BY <1>0, <1>1, <1>3 DEF Snapshot, Pack, PushTemp, Goes, Fails, None, gitHubVars
<1>4. CASE RefusePublished(w) \/ StepFails(w)
  BY <1>0, <1>4 DEF RefusePublished, StepFails, Fails, None, gitHubVars
<1> QED
  BY <1>2, <1>3, <1>4 DEF Moves

\* A clean-up that takes empty drafts takes none that is complete.
LEMMA EmptyIsUnfinished ==
  ASSUME PipelineInv, NEW i \in EmptyDrafts
  PROVE  ~rels[i].flag
<1>1. Exists(i) /\ \A a \in Assets : rels[i].assets[a] = 0
  BY DEF EmptyDrafts
<1>2. rels[i] \in Release /\ i \in Ids
  BY <1>1, Existing DEF PipelineInv, Typed, TypeOK
<1>3. rels[i].proj \in Projects /\ rels[i].build \in Builds
  BY <1>2 DEF Release
<1>4. 1 \in DOMAIN AssetSeq[rels[i].proj] /\ AssetSeq[rels[i].proj][1] \in Assets
  BY <1>3, BuildAssumption
<1> QED
  BY <1>1, <1>2, <1>3, <1>4 DEF PipelineInv, FlagMeansComplete, Listed, Builds

LEMMA UploadsKept ==
  ASSUME DescriptorAsset \notin Assets, PipelineInv, Next PROVE Uploads'
<1>1. SUFFICES ASSUME job' = "build", NEW p \in Projects PROVE Uploading(p)'
  BY DEF Uploads
<1>2. CASE Starting
  BY <1>1, <1>2 DEF Starting, FirstRun, RerunAll, StartBuild
<1>3. CASE Planning
  BY <1>1, <1>3, PlansAll DEF Planning, DeleteForced, Plan, Uploading, None
<1>4. ASSUME NEW w \in Workspace, Moves(w) PROVE Uploading(p)'
  <2>1. Uploading(p) /\ build' = build /\ relId' = relId /\ at' = at /\ rels' = rels
    BY <1>4, MovesTask DEF PipelineInv, Uploads
  <2> QED
    BY <1>4, <2>1, MovesTask, UploadingSame DEF Exists
<1>5. ASSUME NEW q \in Projects, Upload(q) PROVE Uploading(p)'
  <2>1. CASE q = p
    BY <1>5, <2>1, UploadStep
  <2>2. CASE q # p
    <3>1. Uploading(p) /\ build' = build
      BY <1>5 DEF Upload, FindOrCreateDraft, ClearAsset, PutAsset, Mark, PipelineInv, Uploads
    <3>2. "cancelled" \notin {"clear", "put", "mark", "passed", None}
      BY DEF None
    <3> QED
      BY <1>5, <2>2, <3>1, <3>2, UploadsOwn, UploadingSame
  <2> QED
    BY <2>1, <2>2
<1>6. CASE Ending
  <2>1. ForeignCleanUp
    BY <1>1, <1>6 DEF Ending, Report, CleanUp, BuildKilled
  <2>2. PICK i \in EmptyDrafts : DeleteReleases({i})
    BY <2>1 DEF ForeignCleanUp
  <2>3. \A j : /\ Exists(j)' <=> Exists(j) /\ j # i
               /\ Exists(j)' => rels'[j] = rels[j]
    BY <2>2, Deleted
  <2>4. Uploading(p) /\ UNCHANGED <<build, at, relId, task>> /\ build # 0
        /\ build \in MaybeBuild
    BY <2>1 DEF ForeignCleanUp, runVars, PipelineInv, Uploads, Typed, TypeOK
  <2>5. task[p] = "passed" => relId[p] # i
    BY <2>4, EmptyIsUnfinished DEF Uploading
  <2>6. task[p] = "mark" => relId[p] # i
    <3>1. 1 \in DOMAIN AssetSeq[p] /\ AssetSeq[p][1] \in Assets /\ Len(AssetSeq[p]) \in Nat
          /\ Len(AssetSeq[p]) >= 1 /\ at[p] \in Nat
      BY BuildAssumption DEF PipelineInv, Typed
    <3>2. task[p] = "mark" => rels[relId[p]].assets[AssetSeq[p][1]] = build
      BY <2>4, <3>1 DEF Uploading, Put
    <3> QED
      BY <2>4, <3>1, <3>2 DEF EmptyDrafts
  <2>7. Exists(relId[p])' => Exists(relId[p]) /\ rels'[relId[p]] = rels[relId[p]]
    BY <2>3, <2>4 DEF Exists
  <2>8. task[p] \in {"mark", "passed"} /\ Exists(relId[p]) => Exists(relId[p])'
    BY <2>3, <2>4, <2>5, <2>6 DEF Exists
  <2> QED
    BY <2>4, <2>7, <2>8, UploadingSame
<1>7. CASE Publishing
  BY <1>1, <1>7
  DEF Publishing, PublishSteps, RunPublish, StartPublish, PublishFails, EndFailed, ResolveRelease,
      SkipTarget, NotPublished, PushNpm, PushImage, PushPointers, Reverify, CreateGroupTag, UpdateFlags,
      FinalizeRelease, CreateSimpleTag, Comment, PublishRefused, PublishStep, gitHubVars, buildVars, runVars
<1> QED
  BY <1>2, <1>3, <1>4, <1>5, <1>6, <1>7, Steps

-----------------------------------------------------------------------------
(* Complete releases.                                                        *)

\* The release that an upload works on; it is complete when it is marked.
Works(i, p) ==
    /\ i \in Ids /\ rels'[i] # NoRelease /\ rels'[i].proj = p
    /\ \A j \in Ids : j # i => rels'[j] = rels[j]
    /\ Exists(i) => rels[i].proj = p /\ rels'[i].draft = rels[i].draft
    /\ ~Exists(i) => rels'[i].draft
    /\ rels'[i].flag => \A k \in DOMAIN AssetSeq[p] :
                          rels'[i].assets[AssetSeq[p][k]] = rels'[i].build

LEMMA UploadEffect ==
  ASSUME PipelineInv, NEW p \in Projects, Upload(p)
  PROVE  rels' = rels \/ \E i : Works(i, p)
<1>0. /\ GitHubTypeOK /\ Owned /\ build \in MaybeBuild /\ relId \in [Projects -> MaybeId]
      /\ 0 \in MaybeBuild /\ build \in Builds /\ Uploading(p)
  BY GitHubAssumption
  DEF PipelineInv, Typed, TypeOK, Upload, FindOrCreateDraft, ClearAsset, PutAsset, Mark,
      MaybeBuild, Builds, Uploads
<1>1. CASE FindOrCreateDraft(p)
  <2> DEFINE i == Resolve(p, relId[p])
  <2>1. i # 0 => Exists(i) /\ rels[i].proj = p
    BY <1>0, Resolves DEF Owned, ReleasesOf
  <2>2. CASE i # 0 /\ RewriteBody(i, build)
    <3> HIDE DEF i
    <3>1. /\ SameReleases /\ rels'[i].flag = FALSE /\ rels'[i].draft = rels[i].draft
          /\ \A j : Exists(j) /\ j # i => rels'[j] = rels[j]
      BY <1>0, <2>1, <2>2, Rewritten DEF RewriteBody
    <3>2. \A j \in Ids : j # i => rels'[j] = rels[j]
      BY <2>2 DEF RewriteBody, GitHubTypeOK, PipelineInv, Typed, TypeOK
    <3>3. Works(i, p)
      BY <2>1, <2>2, <3>1, <3>2 DEF Works, SameReleases, Exists
    <3> QED
      BY <3>3
  <2>3. CASE i = 0 /\ CreateDraft(p, build)
    <3> DEFINE n == made + 1
    <3>1. /\ n \in Ids /\ ~Exists(n)
          /\ \A j : Exists(j)' <=> Exists(j) \/ j = n
          /\ rels'[n].proj = p /\ rels'[n].draft = TRUE /\ rels'[n].flag = FALSE
      BY <1>0, <2>3, Created
    <3>2. \A j \in Ids : j # n => rels'[j] = rels[j]
      BY <1>0, <2>3 DEF CreateDraft, GitHubTypeOK
    <3>3. Works(n, p)
      BY <3>1, <3>2 DEF Works, Exists
    <3> QED
      BY <3>3
  <2> QED
    BY <1>1, <2>2, <2>3 DEF FindOrCreateDraft
<1>2. CASE ClearAsset(p) \/ PutAsset(p)
  <2>1. CASE Exists(relId[p])
    <3> DEFINE i == relId[p]
    <3>1. AssetSeq[p][at[p]] \in Assets /\ ~rels[i].flag /\ rels[i].proj = p
      BY <1>0, <1>2, <2>1, BuildAssumption
      DEF ClearAsset, PutAsset, PipelineInv, Typed, Uploading, Owned
    <3>2. /\ SameReleases /\ rels'[i].flag = rels[i].flag /\ rels'[i].draft = rels[i].draft
          /\ \A j \in Ids : j # i => rels'[j] = rels[j]
      <4> HIDE DEF i
      <4>1. PICK a \in Assets, n \in {0, build} : rels' = [rels EXCEPT ![i].assets[a] = n]
        BY <1>2, <2>1, <3>1 DEF ClearAsset, PutAsset, DeleteAsset, UploadAsset, i
      <4>2. Exists(i) /\ n \in MaybeBuild
        BY <1>0, <2>1 DEF i
      <4>3. SameReleases /\ rels'[i].flag = rels[i].flag /\ rels'[i].draft = rels[i].draft
        BY <1>0, <4>1, <4>2, Attached
      <4>4. \A j \in Ids : j # i => rels'[j] = rels[j]
        BY <1>0, <4>1 DEF GitHubTypeOK
      <4> QED
        BY <4>3, <4>4
    <3>3. Works(i, p)
      BY <2>1, <3>1, <3>2 DEF Works, SameReleases, Exists
    <3> QED
      BY <3>3
  <2>2. CASE ~Exists(relId[p])
    BY <1>2, <2>2 DEF ClearAsset, PutAsset
  <2> QED
    BY <2>1, <2>2
<1>3. CASE Mark(p)
  <2> DEFINE i == relId[p]
  <2>1. Exists(i) /\ rels[i].proj = p /\ Put(p) /\ at[p] > Len(AssetSeq[p])
    BY <1>0, <1>3 DEF Mark, Uploading, Owned
  <2>2. \A k \in DOMAIN AssetSeq[p] : rels[i].assets[AssetSeq[p][k]] = build
    <3>1. \A k \in DOMAIN AssetSeq[p] : k < at[p]
      BY <2>1, BuildAssumption DEF PipelineInv, Typed
    <3> QED
      BY <1>3, <2>1, <3>1 DEF Mark, Put
  <2>3. /\ SameReleases /\ rels'[i].assets = rels[i].assets /\ rels'[i].draft = rels[i].draft
        /\ rels'[i].build = build
    BY <1>0, <1>3, <2>1, Rewritten DEF Mark, MarkPublished
  <2>4. \A j \in Ids : j # i => rels'[j] = rels[j]
    BY <1>0, <1>3 DEF Mark, MarkPublished, GitHubTypeOK
  <2>5. Works(i, p)
    BY <2>1, <2>2, <2>3, <2>4 DEF Works, SameReleases, Exists
  <2> QED
    BY <2>5
<1> QED
  BY <1>1, <1>2, <1>3 DEF Upload

\* In the publish job only the draft state of a release changes.
SameBodies == \A j : Exists(j) => /\ rels'[j].assets = rels[j].assets
                                  /\ rels'[j].flag = rels[j].flag
                                  /\ rels'[j].build = rels[j].build
SameDrafts == \A j : Exists(j) => rels'[j].draft = rels[j].draft

LEMMA PublishEffect ==
  ASSUME PipelineInv, Publishing
  PROVE  /\ SameReleases /\ SameBodies
         /\ ~FinalizeRelease => SameDrafts
         /\ UNCHANGED <<build, suffixed, disturbed>>
<1>0. GitHubTypeOK /\ build \in MaybeBuild
  BY DEF PipelineInv, Typed, TypeOK
<1>1. UNCHANGED <<build, suffixed, disturbed>>
  BY DEF Publishing, PublishSteps, RunPublish, StartPublish, PublishFails, EndFailed,
     ResolveRelease, SkipTarget, NotPublished, PushNpm, PushImage, PushPointers, Reverify, UpdateFlags,
     FinalizeRelease, CreateGroupTag, CreateSimpleTag, Comment, PublishRefused, buildVars, runVars
<1>2. ASSUME UpdateFlags \/ FinalizeRelease
      PROVE  /\ Exists(pub.rel) /\ pub.build \in Builds
             /\ rels[pub.rel].flag = TRUE /\ rels[pub.rel].build = pub.build
  <2>1. job = "publish" /\ pub.pc \in {"flags", "finalize"}
    BY <1>2 DEF UpdateFlags, FinalizeRelease, PublishStep
  <2>2. Exists(pub.rel) /\ pub.build \in Builds /\ rels[pub.rel].flag
        /\ rels[pub.rel].build = pub.build
    BY <1>0, <2>1 DEF PipelineInv, Publishes, Fetched, Typed, MaybeBuild, Builds
  <2>3. rels[pub.rel] \in Release
    BY <1>0, <2>2, Existing
  <2> QED
    BY <2>2, <2>3 DEF Release
<1>3. CASE UpdateFlags
  <2>1. \A r, b : /\ Exists(r) /\ b \in Builds
                  /\ rels' = [rels EXCEPT ![r].build = b, ![r].flag = TRUE]
                  /\ rels[r].flag = TRUE /\ rels[r].build = b
                  => SameReleases /\ SameBodies /\ SameDrafts
    <3> SUFFICES ASSUME NEW r, NEW b, Exists(r), b \in Builds,
                        rels' = [rels EXCEPT ![r].build = b, ![r].flag = TRUE],
                        rels[r].flag = TRUE, rels[r].build = b
                 PROVE  SameReleases /\ SameBodies /\ SameDrafts
      OBVIOUS
    <3>1. /\ SameReleases
          /\ \A j : Exists(j) => /\ rels'[j].draft = rels[j].draft
                                 /\ rels'[j].assets = rels[j].assets
                                 /\ j # r => rels'[j] = rels[j]
          /\ rels'[r].build = b /\ rels'[r].flag = TRUE
      BY <1>0, Rewritten
    <3> QED
      BY <3>1 DEF SameBodies, SameDrafts
  <2>2. rels' = [rels EXCEPT ![pub.rel].build = pub.build, ![pub.rel].flag = TRUE]
    BY <1>3 DEF UpdateFlags, MarkPublished
  <2>3. SameReleases /\ SameBodies /\ SameDrafts
    BY <1>2, <1>3, <2>1, <2>2
  <2> QED
    BY <1>1, <2>3
<1>4. CASE FinalizeRelease
  <2>1. \A r : Exists(r) /\ rels' = [rels EXCEPT ![r].draft = FALSE] => SameReleases /\ SameBodies
    BY <1>0, Finalized DEF SameBodies
  <2>2. rels' = [rels EXCEPT ![pub.rel].draft = FALSE]
    BY <1>4 DEF FinalizeRelease, Finalize
  <2>3. SameReleases /\ SameBodies
    BY <1>2, <1>4, <2>1, <2>2
  <2> QED
    BY <1>1, <1>4, <2>3
<1>5. CASE rels' = rels
  <2>1. SameReleases /\ SameBodies /\ SameDrafts
    BY <1>5 DEF SameReleases, SameBodies, SameDrafts, Exists
  <2> QED
    BY <1>1, <2>1
<1> QED
  BY <1>3, <1>4, <1>5
  DEF Publishing, PublishSteps, RunPublish, StartPublish, PublishFails, EndFailed,
     ResolveRelease, SkipTarget, NotPublished, PushNpm, PushImage, PushPointers, Reverify,
     CreateGroupTag, CreateSimpleTag, Comment, PublishRefused, gitHubVars

\* Every other step leaves the releases alone, or deletes drafts.
LEMMA OtherEffect ==
  ASSUME PipelineInv, Starting \/ Planning \/ Ending \/ \E w \in Workspace : Moves(w)
  PROVE  /\ \A j : Exists(j)' => Exists(j) /\ rels'[j] = rels[j]
         /\ \A j : Exists(j) /\ ~rels[j].draft => Exists(j)'
         /\ UNCHANGED <<tags, suffixed>>
<1>1. ASSUME UNCHANGED <<rels, tags, suffixed>>
      PROVE  /\ \A j : Exists(j)' => Exists(j) /\ rels'[j] = rels[j]
             /\ \A j : Exists(j) /\ ~rels[j].draft => Exists(j)'
             /\ UNCHANGED <<tags, suffixed>>
  BY <1>1 DEF Exists
<1>2. ASSUME NEW S, DeleteReleases(S), \A i \in S : rels[i].draft, UNCHANGED <<tags, suffixed>>
      PROVE  /\ \A j : Exists(j)' => Exists(j) /\ rels'[j] = rels[j]
             /\ \A j : Exists(j) /\ ~rels[j].draft => Exists(j)'
             /\ UNCHANGED <<tags, suffixed>>
  BY <1>2, Deleted
<1>3. CASE Starting
  BY <1>1, <1>3 DEF Starting, FirstRun, RerunAll, StartBuild, gitHubVars
<1>4. CASE Planning
  <2>1. CASE Plan
    BY <1>1, <2>1 DEF Plan, gitHubVars
  <2>2. ASSUME NEW p \in Projects, DeleteForced(p)
        PROVE  \E S : DeleteReleases(S) /\ (\A i \in S : rels[i].draft) /\ UNCHANGED <<tags, suffixed>>
    <3> DEFINE i == Resolve(p, relId[p])
               S == IF i # 0 /\ rels[i].draft THEN {i} ELSE {}
    <3>1. DeleteReleases(S) /\ UNCHANGED <<tags, suffixed>>
      BY <2>2 DEF DeleteForced, DeleteDraft
    <3>2. \A j \in S : rels[j].draft
      OBVIOUS
    <3> HIDE DEF S
    <3> QED
      BY <3>1, <3>2
  <2> QED
    BY <1>2, <1>4, <2>1, <2>2 DEF Planning
<1>5. CASE \E w \in Workspace : Moves(w)
  BY <1>1, <1>5 DEF Moves, TaskStep, Build, Built, BuildFails, Snapshot, Pack, PushTemp,
     RefusePublished, StepFails, gitHubVars
<1>6. CASE Ending
  <2>1. CASE Report \/ BuildKilled
    BY <1>1, <2>1 DEF Report, BuildKilled, gitHubVars
  <2>2. CASE CleanUp \/ ForeignCleanUp
    <3>1. \A i \in EmptyDrafts : rels[i].draft
      BY DEF EmptyDrafts
    <3> QED
      BY <1>2, <2>2, <3>1 DEF CleanUp, ForeignCleanUp
  <2> QED
    BY <1>6, <2>1, <2>2 DEF Ending
<1> QED
  BY <1>3, <1>4, <1>5, <1>6

LEMMA FlagKept ==
  ASSUME DescriptorAsset \notin Assets, PipelineInv, Next PROVE FlagMeansComplete'
<1>1. SUFFICES ASSUME NEW i \in Ids, rels'[i] # NoRelease, rels'[i].flag,
                      NEW k \in DOMAIN AssetSeq[rels'[i].proj]
               PROVE  rels'[i].assets[AssetSeq[rels'[i].proj][k]] = rels'[i].build
  BY DEF FlagMeansComplete, Listed, Exists
<1>2. ASSUME rels'[i] = rels[i]
      PROVE  rels'[i].assets[AssetSeq[rels'[i].proj][k]] = rels'[i].build
  BY <1>1, <1>2 DEF PipelineInv, FlagMeansComplete, Listed, Exists
<1>3. CASE Starting \/ Planning \/ Ending \/ \E w \in Workspace : Moves(w)
  BY <1>1, <1>2, <1>3, OtherEffect DEF Exists
<1>4. ASSUME NEW p \in Projects, Upload(p)
      PROVE  rels'[i].assets[AssetSeq[rels'[i].proj][k]] = rels'[i].build
  BY <1>1, <1>2, <1>4, UploadEffect DEF Works
<1>5. CASE Publishing
  <2>1. Exists(i) /\ rels[i].proj = rels'[i].proj /\ rels[i].flag
        /\ rels'[i].assets = rels[i].assets /\ rels'[i].build = rels[i].build
    BY <1>1, <1>5, PublishEffect DEF SameReleases, SameBodies, Exists
  <2> QED
    BY <1>1, <2>1 DEF PipelineInv, FlagMeansComplete, Listed
<1> QED
  BY <1>3, <1>4, <1>5, Steps

-----------------------------------------------------------------------------
(* A finished build.                                                         *)

LEMMA FinishedKept == ASSUME PipelineInv, Next PROVE Finished'
<1>1. SUFFICES ASSUME job' \in {"built", "publish", "publishFailed", "released"}, NEW p \in Projects
               PROVE  Ready(p)'
  BY DEF Finished
<1>2. ~Starting /\ ~Planning /\ \A q \in Projects : ~Upload(q)
  BY <1>1 DEF Starting, FirstRun, RerunAll, StartBuild, Planning, Plan, DeleteForced,
     Upload, FindOrCreateDraft, ClearAsset, PutAsset, Mark
<1>3. \A w \in Workspace : ~Moves(w)
  <2>1. ASSUME NEW w \in Workspace, Moves(w) PROVE FALSE
    BY <1>1, <2>1, MovesTask
  <2> QED
    BY <2>1
<1>4. CASE Ending
  <2>1. Report /\ \A w \in Workspace : task[w] \in {None, "passed"}
    BY <1>1, <1>4 DEF Ending, Report, CleanUp, ForeignCleanUp, BuildKilled
  <2>2. Uploading(p) /\ task[p] \in {None, "passed"}
    BY <2>1, BuildAssumption DEF Report, PipelineInv, Uploads
  <2>3. Exists(relId[p]) /\ rels[relId[p]].flag /\ rels[relId[p]].build = build
        /\ rels[relId[p]].proj = p
    BY <2>2 DEF Uploading, PipelineInv, Owned
  <2>4. UNCHANGED <<rels, build>>
    BY <2>1 DEF Report, runVars
  <2> QED
    BY <2>3, <2>4 DEF Ready, ReleasesOf, Exists
<1>5. CASE Publishing
  <2>1. job \in {"built", "publish", "publishFailed", "released"}
    BY <1>5 DEF Publishing, RunPublish, PublishFails, PublishSteps, PublishRefused, Comment,
       ResolveRelease, SkipTarget, NotPublished, PushNpm, PushImage, PushPointers, Reverify,
       UpdateFlags, FinalizeRelease, CreateGroupTag, CreateSimpleTag, PublishStep
  <2>2. PICK i \in ReleasesOf(p) : rels[i].flag /\ rels[i].build = build
    BY <2>1 DEF PipelineInv, Finished, Ready
  <2>3. SameReleases /\ SameBodies /\ build' = build
    BY <1>5, PublishEffect
  <2> QED
    BY <2>2, <2>3 DEF Ready, ReleasesOf, Exists, SameReleases, SameBodies
<1> QED
  BY <1>2, <1>3, <1>4, <1>5, Steps

\* While the publish job runs, what it finds is the release of this build.
LEMMA FindsBuild ==
  ASSUME PipelineInv, job \in {"built", "publish", "publishFailed", "released"},
         NEW p \in Projects
  PROVE  LET i == Resolve(p, prIds[p])
         IN  /\ i # 0 /\ Exists(i) /\ rels[i].proj = p
             /\ rels[i].flag /\ rels[i].build = build
<1>1. PICK i \in ReleasesOf(p) : rels[i].flag /\ rels[i].build = build
  BY DEF PipelineInv, Finished, Ready
<1>2. /\ Resolve(p, prIds[p]) = 0 => ReleasesOf(p) = {}
      /\ Resolve(p, prIds[p]) # 0 => ReleasesOf(p) = {Resolve(p, prIds[p])}
  BY Resolves DEF PipelineInv, Typed, TypeOK, GitHubTypeOK, Owned
<1>3. i = Resolve(p, prIds[p]) /\ i # 0
  BY <1>1, <1>2
<1> QED
  BY <1>1, <1>3 DEF ReleasesOf

-----------------------------------------------------------------------------
(* Public releases and tags.                                                 *)

LEMMA PublicKept ==
  ASSUME PipelineInv, Next, ~FinalizeRelease, NEW p \in Projects
  PROVE  Public(p)' <=> Public(p)
<1>1. Public(p) <=> \E i \in Ids : Exists(i) /\ rels[i].proj = p /\ ~rels[i].draft
  BY DEF Public, ReleasesOf
<1>2. Public(p)' <=> \E i \in Ids : Exists(i)' /\ rels'[i].proj = p /\ ~rels'[i].draft
  BY DEF Public, ReleasesOf, Ids
<1>3. CASE Starting \/ Planning \/ Ending \/ \E w \in Workspace : Moves(w)
  BY <1>1, <1>2, <1>3, OtherEffect
<1>4. ASSUME NEW q \in Projects, Upload(q) PROVE Public(p)' <=> Public(p)
  <2>1. CASE rels' = rels
    BY <1>1, <1>2, <2>1 DEF Exists
  <2>2. CASE \E i : Works(i, q)
    <3>1. PICK i : Works(i, q)
      BY <2>2
    <3>2. \A j \in Ids : j # i => (Exists(j)' <=> Exists(j)) /\ rels'[j] = rels[j]
      BY <3>1 DEF Works, Exists
    <3>3. /\ i \in Ids /\ rels'[i].proj = q
          /\ ~rels'[i].draft => Exists(i) /\ rels[i].proj = q /\ ~rels[i].draft
          /\ Exists(i) => rels[i].proj = q /\ rels'[i].draft = rels[i].draft
          /\ rels'[i] # NoRelease
      BY <3>1 DEF Works
    <3> QED
      BY <1>1, <1>2, <3>2, <3>3 DEF Exists
  <2> QED
    BY <1>4, <2>1, <2>2, UploadEffect
<1>5. CASE Publishing
  BY <1>1, <1>2, <1>5, PublishEffect DEF SameReleases, SameDrafts
<1> QED
  BY <1>3, <1>4, <1>5, Steps

\* What only the publish job does: registries fill up and tags appear.
LEMMA TagsOnly ==
  ASSUME PipelineInv, Next
  PROVE  /\ suffixed' = suffixed
         /\ tags' = tags \/ FinalizeRelease \/ CreateGroupTag \/ CreateSimpleTag
         /\ registry' = registry \/ PushNpm \/ PushImage
<1>1. ASSUME \/ Starting
             \/ UNCHANGED pubVars /\ (Planning \/ Ending \/ \E w \in Workspace : Moves(w))
      PROVE  UNCHANGED <<tags, suffixed, registry>>
  <2>1. UNCHANGED <<tags, suffixed>>
    BY <1>1, OtherEffect
  <2>2. UNCHANGED registry
    BY <1>1 DEF pubVars, Starting, FirstRun, RerunAll
  <2> QED
    BY <2>1, <2>2
<1>2. ASSUME NEW p \in Projects, Upload(p), UNCHANGED pubVars
      PROVE  UNCHANGED <<tags, suffixed, registry>>
  BY <1>2 DEF Upload, FindOrCreateDraft, ClearAsset, PutAsset, Mark, pubVars
<1>3. CASE Publishing
  <2>1. suffixed' = suffixed
    BY <1>3, PublishEffect
  <2> QED
    BY <1>3, <2>1 DEF Publishing, RunPublish, StartPublish,
       PublishSteps, PublishFails, EndFailed, ResolveRelease, SkipTarget, NotPublished, PushNpm,
       PushImage, PushPointers, Reverify, UpdateFlags, FinalizeRelease, CreateGroupTag,
       CreateSimpleTag, Comment, PublishRefused, gitHubVars, buildVars
<1> QED
  BY <1>1, <1>2, <1>3, Steps

\* The release that the publish job makes public.
LEMMA AtFinalize ==
  ASSUME PipelineInv, FinalizeRelease
  PROVE  /\ Project \in Projects /\ Exists(pub.rel) /\ rels[pub.rel].proj = Project
         /\ \A k \in DOMAIN TargetSeq[Project] : Pushed(TargetSeq[Project][k])
         /\ tags' = tags \cup {PackageTag(Project)} /\ UNCHANGED <<registry, suffixed>>
         /\ \A p \in Projects : Public(p)' <=> Public(p) \/ p = Project
<1>1. job = "publish" /\ pub.pc = "finalize" /\ Exists(pub.rel) /\ rels[pub.rel].proj = Project
      /\ \A k \in DOMAIN TargetSeq[Project] : Pushed(TargetSeq[Project][k])
  BY DEF FinalizeRelease, PublishStep, PipelineInv, Publishes, Fetched, AllPushed
<1>2. pub.rel \in Ids /\ rels[pub.rel] \in Release
  BY <1>1, Existing DEF PipelineInv, Typed, TypeOK
<1>3. Project \in Projects
  BY <1>1, <1>2 DEF Release
<1>4. tags' = tags \cup {PackageTag(Project)} /\ UNCHANGED <<registry, suffixed>>
  BY <1>1 DEF FinalizeRelease, Finalize, buildVars
<1>5. \A r : Exists(r) /\ rels' = [rels EXCEPT ![r].draft = FALSE] =>
        /\ SameReleases /\ rels'[r].draft = FALSE
        /\ \A j : Exists(j) /\ j # r => rels'[j] = rels[j]
  <2> SUFFICES ASSUME NEW r, Exists(r), rels' = [rels EXCEPT ![r].draft = FALSE]
               PROVE  /\ SameReleases /\ rels'[r].draft = FALSE
                      /\ \A j : Exists(j) /\ j # r => rels'[j] = rels[j]
    OBVIOUS
  <2>1. GitHubTypeOK
    BY DEF PipelineInv, Typed, TypeOK
  <2>2. SameReleases
    BY <2>1, Finalized
  <2>3. r \in Ids /\ rels[r] \in Release
    BY <2>1, Existing
  <2>4. rels'[r].draft = FALSE /\ \A j \in Ids : j # r => rels'[j] = rels[j]
    BY <2>1, <2>3 DEF GitHubTypeOK, Release
  <2> QED
    BY <2>2, <2>4 DEF Exists
<1>6. /\ SameReleases /\ rels'[pub.rel].draft = FALSE
      /\ \A j : Exists(j) /\ j # pub.rel => rels'[j] = rels[j]
  BY <1>1, <1>5 DEF FinalizeRelease, Finalize
<1>7. \A p : Public(p)' <=> \E i \in Ids : Exists(i)' /\ rels'[i].proj = p /\ ~rels'[i].draft
  BY DEF Public, ReleasesOf, Ids
<1>8. \A p : Public(p) <=> \E i \in Ids : Exists(i) /\ rels[i].proj = p /\ ~rels[i].draft
  BY DEF Public, ReleasesOf
<1>9. ASSUME NEW p \in Projects, p = Project PROVE Public(p)'
  <2>1. pub.rel \in Ids /\ Exists(pub.rel) /\ rels'[pub.rel] # NoRelease
        /\ rels'[pub.rel].proj = p /\ ~rels'[pub.rel].draft
    BY <1>1, <1>2, <1>6, <1>9 DEF SameReleases, Exists
  <2>2. \E i \in Ids : rels'[i] # NoRelease /\ rels'[i].proj = p /\ ~rels'[i].draft
    BY <2>1
  <2> QED
    BY <1>7, <2>2 DEF Exists
<1>10. ASSUME NEW p \in Projects, p # Project PROVE Public(p)' <=> Public(p)
  BY <1>1, <1>6, <1>7, <1>8, <1>10 DEF SameReleases
<1> QED
  BY <1>1, <1>3, <1>4, <1>9, <1>10

-----------------------------------------------------------------------------
(* Registries.                                                               *)

\* What goes into a registry is this build.
LEMMA Pushes ==
  ASSUME PipelineInv, PushNpm \/ PushImage
  PROVE  /\ Here \in Targets /\ build # 0 /\ job = "publish" /\ job' = job
         /\ registry' = [registry EXCEPT ![Here] = build]
<1>1. job = "publish" /\ pub.pc = "push" /\ job' = job
  BY DEF PushNpm, PushImage, PublishStep, buildVars
<1>2. /\ Exists(pub.rel) /\ rels[pub.rel].proj = Project /\ rels[pub.rel].flag
      /\ rels[pub.rel].build = build /\ pub.build = build /\ pub.files = rels[pub.rel].assets
  BY <1>1 DEF PipelineInv, Publishes, Fetched
<1>3. Here \in Targets /\ Here.proj = Project /\ build # 0
  BY <1>1, AtTarget DEF PipelineInv, Typed
<1>4. CASE PushNpm
  <2>1. Here.asset \in Listed(pub.rel)
    BY <1>2, <1>3, <1>4, PublishAssumption DEF PushNpm, Listed
  <2>2. rels[pub.rel].assets[Here.asset] = build
    BY <1>2, <2>1 DEF PipelineInv, FlagMeansComplete, Exists
  <2> QED
    BY <1>1, <1>2, <1>3, <1>4, <2>2 DEF PushNpm
<1>5. CASE PushImage
  BY <1>1, <1>2, <1>3, <1>5 DEF PushImage
<1> QED
  BY <1>4, <1>5

LEMMA PushedKept ==
  ASSUME PipelineInv, Next, NEW t \in Targets, Pushed(t) PROVE Pushed(t)'
<1>1. suffixed' = suffixed /\ registry \in [Targets -> MaybeBuild]
  BY TagsOnly DEF PipelineInv, Typed, TypeOK
<1>2. registry'[t] = registry[t] \/ registry'[t] # 0
  BY <1>1, TagsOnly, Pushes
<1> QED
  BY <1>1, <1>2 DEF Pushed, Skipped

LEMMA PublicPushedKept == ASSUME PipelineInv, Next PROVE PublicMeansPushed'
<1>0. \A p \in Projects : \A k \in DOMAIN TargetSeq[p] : TargetSeq[p][k] \in Targets
  BY PublishAssumption
<1>1. \A p \in Projects : \A k \in DOMAIN TargetSeq[p] : Public(p) => Pushed(TargetSeq[p][k])
  BY DEF PipelineInv, PublicMeansPushed, Public, Pushed
<1>2. SUFFICES ASSUME NEW p \in Projects, NEW k \in DOMAIN TargetSeq[p], Public(p)'
               PROVE  Pushed(TargetSeq[p][k])'
  BY DEF PublicMeansPushed, Public, Pushed
<1>3. CASE FinalizeRelease
  <2>1. Public(p) \/ p = Project
    BY <1>2, <1>3, AtFinalize
  <2>2. Pushed(TargetSeq[p][k])
    BY <1>1, <1>3, <2>1, AtFinalize
  <2> QED
    BY <1>0, <2>2, PushedKept
<1>4. CASE ~FinalizeRelease
  <2>1. Pushed(TargetSeq[p][k])
    BY <1>1, <1>2, <1>4, PublicKept
  <2> QED
    BY <1>0, <2>1, PushedKept
<1> QED
  BY <1>3, <1>4

LEMMA TagsKept == ASSUME PipelineInv, Next PROVE TagsFollowReleases'
<1>0. /\ \A p \in Projects : PackageTag(p) \in tags <=> Public(p)
      /\ SimpleTag \in tags => GroupTag \in tags
      /\ GroupTag \in tags => PackageTag(ProjectSeq[1]) \in tags
  BY DEF PipelineInv, TagsFollowReleases, Public
<1>1. SUFFICES /\ \A p \in Projects : PackageTag(p) \in tags' <=> Public(p)'
               /\ SimpleTag \in tags' => GroupTag \in tags'
               /\ GroupTag \in tags' => PackageTag(ProjectSeq[1]) \in tags'
  BY DEF TagsFollowReleases, Public, PackageTag, GroupTag, SimpleTag
<1>2. /\ \A p, q : PackageTag(p) = PackageTag(q) => p = q
      /\ \A p : PackageTag(p) # GroupTag /\ PackageTag(p) # SimpleTag
      /\ GroupTag # SimpleTag
  BY DEF PackageTag, GroupTag, SimpleTag
<1>3. CASE FinalizeRelease
  BY <1>0, <1>2, <1>3, AtFinalize
<1>4. CASE CreateGroupTag
  <2>1. ~FinalizeRelease /\ tags' = tags \cup {GroupTag}
    BY <1>4 DEF CreateGroupTag, FinalizeRelease, PublishStep
  <2>2. PackageTag(ProjectSeq[1]) \in tags
    <3>1. PackageTag(Project) \in tags /\ (pub.k > 1 => PackageTag(ProjectSeq[1]) \in tags)
      BY <1>4 DEF CreateGroupTag, PublishStep, PipelineInv, Publishes
    <3>2. pub.k \in DOMAIN ProjectSeq
      BY PubFields DEF PipelineInv, Typed
    <3>3. pub.k = 1 \/ pub.k > 1
      BY <3>2, PublishAssumption
    <3> QED
      BY <3>1, <3>3 DEF Project
  <2> QED
    BY <1>0, <1>2, <2>1, <2>2, PublicKept
<1>5. CASE CreateSimpleTag
  <2>1. ~FinalizeRelease /\ tags' = tags \cup {SimpleTag} /\ GroupTag \in tags
    BY <1>5 DEF CreateSimpleTag, FinalizeRelease, PublishStep, PipelineInv, Publishes
  <2> QED
    BY <1>0, <1>2, <2>1, PublicKept
<1>6. CASE tags' = tags /\ ~FinalizeRelease
  BY <1>0, <1>6, PublicKept
<1> QED
  BY <1>3, <1>4, <1>5, <1>6, TagsOnly

LEMMA RegistersKept == ASSUME PipelineInv, Next PROVE Registers'
<1>0. /\ Registers /\ registry \in [Targets -> MaybeBuild] /\ disturbed \subseteq {"sibling", "rerunAll"}
  BY DEF PipelineInv, Typed, TypeOK
<1>1. CASE Starting
  <2>1. CASE FirstRun
    BY <1>0, <2>1 DEF FirstRun, StartBuild, pubVars, Registers
  <2>2. CASE RerunAll
    BY <2>2 DEF RerunAll, Registers
  <2> QED
    BY <1>1, <2>1, <2>2 DEF Starting
<1>2. ASSUME UNCHANGED <<registry, build>>, disturbed \subseteq disturbed',
             job' \in {"publish", "publishFailed", "released"}
             \/ job \notin {"publish", "publishFailed", "released"}
      PROVE  Registers'
  BY <1>0, <1>2 DEF Registers
<1>3. CASE UNCHANGED pubVars /\ Planning
  BY <1>2, <1>3 DEF pubVars, Planning, Plan, DeleteForced
<1>4. ASSUME NEW w \in Workspace, Moves(w), UNCHANGED pubVars PROVE Registers'
  BY <1>2, <1>4 DEF pubVars, Moves, TaskStep, Build, Built, BuildFails, Snapshot, Pack, PushTemp,
     RefusePublished, StepFails
<1>5. ASSUME NEW p \in Projects, Upload(p), UNCHANGED pubVars PROVE Registers'
  BY <1>2, <1>5 DEF pubVars, Upload, FindOrCreateDraft, ClearAsset, PutAsset, Mark
<1>6. CASE UNCHANGED pubVars /\ Ending
  BY <1>2, <1>6 DEF pubVars, Ending, Report, CleanUp, ForeignCleanUp, BuildKilled, runVars
<1>7. CASE Publishing
  <2>1. CASE PushNpm \/ PushImage
    <3>1. UNCHANGED <<build, disturbed>>
      BY <1>7, PublishEffect
    <3> QED
      BY <1>0, <2>1, <3>1, Pushes DEF Registers
  <2>2. CASE ~(PushNpm \/ PushImage)
    <3>1. UNCHANGED <<build, disturbed>>
      BY <1>7, PublishEffect
    <3>2. UNCHANGED registry /\ job' \in {"publish", "publishFailed", "released"}
      BY <1>7, <2>2 DEF Publishing, RunPublish, StartPublish,
       PublishSteps, PublishFails, EndFailed, ResolveRelease, SkipTarget, NotPublished, PushNpm,
       PushImage, PushPointers, Reverify, UpdateFlags, FinalizeRelease, CreateGroupTag,
       CreateSimpleTag, Comment, PublishRefused, gitHubVars, buildVars, PublishStep
    <3> QED
      BY <1>2, <3>1, <3>2
  <2> QED
    BY <2>1, <2>2
<1> QED
  BY <1>1, <1>3, <1>4, <1>5, <1>6, <1>7, Steps

-----------------------------------------------------------------------------
(* The staging directory.                                                    *)

LEMMA StagesKept ==
  ASSUME DescriptorAsset \notin Assets, PipelineInv, Next PROVE Stages'
<1>0. Stages /\ task \in [Workspace -> Tasks] /\ Projects \subseteq Workspace
      /\ before \in [Projects -> SUBSET Projects]
  BY BuildAssumption DEF PipelineInv, Typed, TypeOK
<1>1. ASSUME UNCHANGED <<staging, before>>, job' = "plan" => staging = {},
             \A p \in Projects : \/ task'[p] \notin {"wait", "build", "snapshot", "pack"}
                                 \/ task'[p] = task[p]
      PROVE  Stages'
  BY <1>0, <1>1 DEF Stages
<1>2. CASE Starting
  BY <1>0, <1>2 DEF Starting, FirstRun, RerunAll, StartBuild, Stages, None
<1>3. CASE Planning
  <2>1. CASE Plan
    BY <1>0, <2>1, PlansAll DEF Plan, Stages
  <2>2. ASSUME NEW p \in Projects, DeleteForced(p) PROVE Stages'
    BY <1>0, <1>1, <2>2 DEF DeleteForced, Stages
  <2> QED
    BY <1>3, <2>1, <2>2 DEF Planning
<1>4. ASSUME NEW w \in Workspace, Moves(w) PROVE Stages'
  <2>1. CASE Build(w)
    BY <1>0, <2>1 DEF Build, Goes, Stages
  <2>2. CASE Built(w)
    <3>1. FirstStep(w) = "pack" => "ng-lib" \notin Packs[w]
      BY DEF FirstStep
    <3>2. /\ job' = job /\ UNCHANGED <<staging, before>> /\ task[w] = "build"
          /\ \A p \in Projects : task'[p] = IF p = w THEN FirstStep(w) ELSE task[p]
      BY <1>0, <2>2 DEF Built, Goes
    <3> QED
      BY <1>0, <3>1, <3>2 DEF Stages
  <2>3. CASE BuildFails(w) \/ RefusePublished(w) \/ StepFails(w)
    BY <1>0, <1>1, <2>3 DEF BuildFails, RefusePublished, StepFails, Fails, Stages
  <2>4. CASE w \in Projects /\ Snapshot(w)
    BY <1>0, <2>4 DEF Snapshot, Goes, Stages
  <2>5. CASE w \in Projects /\ Pack(w)
    <3>1. /\ staging' = staging \cup {w} /\ job' = job /\ job = "build" /\ before' = before
          /\ \A p \in Projects : \/ p # w /\ task'[p] = task[p]
                                 \/ task'[p] \notin {"wait", "build", "snapshot", "pack"}
      BY <1>0, <2>5 DEF Pack, Goes, Fails, AfterTarball
    <3> QED
      BY <1>0, <3>1 DEF Stages
  <2>6. CASE PushTemp(w)
    BY <1>0, <1>1, <2>6 DEF PushTemp, Goes, Stages
  <2> QED
    BY <1>4, <2>1, <2>2, <2>3, <2>4, <2>5, <2>6 DEF Moves, TaskStep
<1>5. ASSUME NEW p \in Projects, Upload(p) PROVE Stages'
  BY <1>0, <1>1, <1>5 DEF Upload, FindOrCreateDraft, ClearAsset, PutAsset, Mark, Goes, Fails, Stages
<1>6. CASE Ending
  BY <1>0, <1>1, <1>6 DEF Ending, Report, CleanUp, ForeignCleanUp, BuildKilled, runVars, Stages
<1>7. CASE Publishing
  BY <1>0, <1>1, <1>7 DEF Publishing, RunPublish, StartPublish,
       PublishSteps, PublishFails, EndFailed, ResolveRelease, SkipTarget, NotPublished, PushNpm,
       PushImage, PushPointers, Reverify, UpdateFlags, FinalizeRelease, CreateGroupTag,
       CreateSimpleTag, Comment, PublishRefused, gitHubVars, buildVars, runVars, PublishStep, Stages
<1> QED
  BY <1>2, <1>3, <1>4, <1>5, <1>6, <1>7, Steps

LEMMA OwnTarballKept == ASSUME PipelineInv, Next PROVE OwnTarball'
<1>0. OwnTarball /\ tarball \in [Projects -> Projects \cup {None}] /\ staging \subseteq Projects
  BY DEF PipelineInv, Typed, TypeOK
<1>1. ASSUME tarball' = tarball PROVE OwnTarball'
  BY <1>0, <1>1 DEF OwnTarball
<1>2. CASE Starting
  BY <1>2 DEF Starting, FirstRun, RerunAll, StartBuild, OwnTarball
<1>3. CASE Planning
  BY <1>1, <1>3 DEF Planning, Plan, DeleteForced
<1>4. ASSUME NEW w \in Workspace, Moves(w) PROVE OwnTarball'
  <2>1. CASE w \in Projects /\ Pack(w) /\ Cardinality(NewTarballs(w)) = 1
    <3>1. w \in NewTarballs(w)
      BY <2>1 DEF Pack, NewTarballs, PipelineInv, Stages
    <3>2. NewTarballs(w) \in SUBSET Projects
      BY <1>0, <2>1 DEF NewTarballs
    <3>3. IsFiniteSet(NewTarballs(w))
      BY <3>2, GitHubAssumption, FS_Subset
    <3>4. PICK x : NewTarballs(w) = {x}
      BY <2>1, <3>3, FS_Singleton
    <3>5. (CHOOSE q \in NewTarballs(w) : TRUE) = w
      BY <3>1, <3>4
    <3>6. tarball' = [tarball EXCEPT ![w] = w]
      BY <2>1, <3>5 DEF Pack
    <3> QED
      BY <1>0, <2>1, <3>6 DEF OwnTarball
  <2>2. CASE ~(w \in Projects /\ Pack(w) /\ Cardinality(NewTarballs(w)) = 1)
    BY <1>1, <1>4, <2>2 DEF Moves, TaskStep, Build, Built, BuildFails, Snapshot, Pack, PushTemp,
     RefusePublished, StepFails
  <2> QED
    BY <2>1, <2>2
<1>5. ASSUME NEW p \in Projects, Upload(p) PROVE OwnTarball'
  BY <1>1, <1>5 DEF Upload, FindOrCreateDraft, ClearAsset, PutAsset, Mark
<1>6. CASE Ending
  BY <1>1, <1>6 DEF Ending, Report, CleanUp, ForeignCleanUp, BuildKilled, runVars
<1>7. CASE Publishing
  BY <1>1, <1>7 DEF Publishing, RunPublish, StartPublish,
       PublishSteps, PublishFails, EndFailed, ResolveRelease, SkipTarget, NotPublished, PushNpm,
       PushImage, PushPointers, Reverify, UpdateFlags, FinalizeRelease, CreateGroupTag,
       CreateSimpleTag, Comment, PublishRefused, gitHubVars, buildVars, runVars
<1> QED
  BY <1>2, <1>3, <1>4, <1>5, <1>6, <1>7, Steps

-----------------------------------------------------------------------------
(* The publish job.                                                          *)

LEMMA PublishesKept == ASSUME PipelineInv, Next PROVE Publishes'
<1>0. pub \in PubTyped /\ pub.k \in DOMAIN ProjectSeq /\ pub.t \in Nat \ {0}
      /\ TargetSeq[Project] \in Seq(Targets)
  BY PubFields, PublishAssumption DEF PipelineInv, Typed, Project
<1>1. CASE Starting \/ (UNCHANGED pubVars /\ (Planning \/ Ending))
  BY <1>1 DEF Starting, FirstRun, RerunAll, StartBuild, Planning, Plan, DeleteForced, Ending, Report,
     CleanUp, ForeignCleanUp, BuildKilled, Publishes
<1>2. ASSUME \/ \E w \in Workspace : Moves(w)
             \/ \E p \in Projects : Upload(p)
      PROVE  job' # "publish"
  BY <1>2 DEF Moves, TaskStep, Build, Built, BuildFails, Snapshot, Pack, PushTemp,
     RefusePublished, StepFails, Upload, FindOrCreateDraft, ClearAsset, PutAsset, Mark
<1>3. CASE RunPublish
  BY <1>3 DEF RunPublish, StartPublish, Idle, Publishes
<1>4. CASE Comment \/ PublishRefused \/ PublishFails
  BY <1>4 DEF Comment, PublishRefused, PublishFails, EndFailed, Publishes
<1>5. CASE PublishSteps /\ ~Comment /\ ~PublishRefused
  <2>1. job = "publish" /\ job' = "publish"
    BY <1>5 DEF PublishSteps, ResolveRelease, SkipTarget, NotPublished, PushNpm, PushImage,
       PushPointers, Reverify, UpdateFlags, FinalizeRelease, CreateGroupTag, CreateSimpleTag,
       PublishStep, buildVars
  <2>2. build' = build /\ SameReleases /\ SameBodies /\ (~FinalizeRelease => SameDrafts)
    BY <1>5, PublishEffect DEF Publishing
  <2>3. \A t \in Targets : Pushed(t) => Pushed(t)'
    BY PushedKept
  <2>4. Project \in Projects /\ DOMAIN TargetSeq[Project] = 1..Len(TargetSeq[Project])
        /\ Len(TargetSeq[Project]) \in Nat
        /\ \A k \in DOMAIN TargetSeq[Project] : TargetSeq[Project][k] \in Targets
    BY <1>0, PublishAssumption DEF Project
  <2>5. pub.k > 1 => PackageTag(ProjectSeq[1]) \in tags
    BY <2>1 DEF PipelineInv, Publishes
  <2>6. tags \subseteq tags'
    BY TagsOnly DEF FinalizeRelease, Finalize, CreateGroupTag, CreateSimpleTag
  \* the fetched release stays what it was
  <2>7. ASSUME pub.pc \in {"verify", "push", "pointers", "reverify", "flags"}, ~FinalizeRelease,
               pub'.k = pub.k, pub'.rel = pub.rel, pub'.draft = pub.draft,
               pub'.build = pub.build, pub'.files = pub.files
        PROVE  Fetched'
    <3>1. Fetched
      BY <2>1, <2>7 DEF PipelineInv, Publishes
    <3> QED
      BY <2>2, <2>7, <3>1
      DEF Fetched, Exists, Project, SameReleases, SameBodies, SameDrafts
  \* a step within a target
  <2>8. ASSUME NEW pc \in {"push", "pointers", "reverify"}, Then(pc), ~FinalizeRelease,
               pub.pc \in {"verify", "push", "pointers"}
        PROVE  Publishes'
    <3>1. /\ pub'.pc = pc /\ pub'.k = pub.k /\ pub'.rel = pub.rel /\ pub'.draft = pub.draft
          /\ pub'.build = pub.build /\ pub'.files = pub.files /\ pub'.t = pub.t
      BY <1>0, <2>8 DEF Then, PubTyped
    <3>2. Fetched'
      BY <2>7, <2>8, <3>1
    <3>3. pub.t \in DOMAIN TargetSeq[Project] /\ AllPushed(1 .. pub.t - 1)
      BY <2>1, <2>8 DEF PipelineInv, Publishes
    <3>4. Project' = Project
      BY <3>1 DEF Project
    <3>5. AllPushed(1 .. pub.t - 1)'
      <4>1. \A k \in 1 .. pub.t - 1 : k \in DOMAIN TargetSeq[Project]
        BY <2>4, <3>3
      <4>2. \A k \in 1 .. pub.t - 1 : \E t \in Targets : t = TargetSeq[Project][k] /\ Pushed(t)'
        BY <2>3, <2>4, <3>3, <4>1 DEF AllPushed
      <4> QED
        BY <3>1, <3>4, <4>2 DEF AllPushed, Pushed
    <3> QED
      BY <2>5, <2>6, <2>8, <3>1, <3>2, <3>3, <3>4, <3>5 DEF Publishes
  \* on to the next target
  <2>9. ASSUME NextTarget, ~FinalizeRelease, pub.pc \in {"verify", "reverify"}, Pushed(Here)
        PROVE  Publishes'
    <3>0. pub.t \in DOMAIN TargetSeq[Project] /\ AllPushed(1 .. pub.t - 1)
      BY <2>1, <2>9 DEF PipelineInv, Publishes
    <3>1. /\ pub'.k = pub.k /\ pub'.rel = pub.rel /\ pub'.draft = pub.draft
          /\ pub'.build = pub.build /\ pub'.files = pub.files
          /\ \/ pub.t = Len(TargetSeq[Project]) /\ pub'.pc = "flags"
             \/ pub.t # Len(TargetSeq[Project]) /\ pub'.pc = "verify" /\ pub'.t = pub.t + 1
      BY <1>0, <2>9 DEF NextTarget, PubTyped
    <3>2. Fetched'
      BY <2>7, <2>9, <3>1
    <3>3. Project' = Project
      BY <3>1 DEF Project
    <3>4. \A k \in 1 .. pub.t : \E t \in Targets : t = TargetSeq[Project][k] /\ Pushed(t)'
      <4>1. \A k \in 1 .. pub.t : k \in DOMAIN TargetSeq[Project]
        BY <2>4, <3>0
      <4>2. \A k \in 1 .. pub.t : k = pub.t \/ k \in 1 .. pub.t - 1
        BY <2>4, <3>0
      <4>3. \A k \in 1 .. pub.t : Pushed(TargetSeq[Project][k])
        BY <2>9, <3>0, <4>2 DEF AllPushed, Here
      <4> QED
        BY <2>3, <2>4, <4>1, <4>3
    <3>5. CASE pub.t = Len(TargetSeq[Project]) /\ pub'.pc = "flags"
      <4>1. AllPushed(DOMAIN TargetSeq[Project])'
        BY <2>4, <3>3, <3>4, <3>5 DEF AllPushed, Pushed
      <4> QED
        BY <2>5, <2>6, <3>1, <3>2, <3>5, <4>1 DEF Publishes
    <3>6. CASE pub.t # Len(TargetSeq[Project]) /\ pub'.pc = "verify" /\ pub'.t = pub.t + 1
      <4>1. pub'.t \in DOMAIN TargetSeq[Project] /\ pub'.t - 1 = pub.t
        BY <2>4, <3>0, <3>6
      <4>2. AllPushed(1 .. pub.t - 1)'
        BY <3>3, <3>4, <4>1 DEF AllPushed, Pushed
      <4> QED
        BY <2>5, <2>6, <3>1, <3>2, <3>3, <3>6, <4>1, <4>2 DEF Publishes
    <3> QED
      BY <3>1, <3>5, <3>6
  <2>10. CASE ResolveRelease
    <3> DEFINE i == Resolve(Project, prIds[Project])
    <3>1. /\ Exists(i) /\ rels[i].proj = Project /\ rels[i].flag /\ rels[i].build = build
      BY <2>1, <2>4, FindsBuild
    <3>2. /\ pub'.k = pub.k /\ pub'.rel = i /\ pub'.draft = rels[i].draft
          /\ pub'.build = rels[i].build /\ pub'.files = rels[i].assets /\ pub'.t = 1
          /\ pub'.pc = IF TargetSeq[Project] = <<>> THEN "flags" ELSE "verify"
      BY <1>0, <2>10 DEF ResolveRelease, PubTyped
    <3>3. rels' = rels /\ Project' = Project
      BY <2>10, <3>2 DEF ResolveRelease, gitHubVars, Project
    <3>4. Fetched'
      BY <2>2, <3>1, <3>2, <3>3 DEF Fetched, Exists
    <3>5. CASE TargetSeq[Project] = <<>>
      BY <2>5, <2>6, <3>2, <3>3, <3>4, <3>5 DEF Publishes, AllPushed
    <3>6. CASE TargetSeq[Project] # <<>>
      <4>1. 1 \in DOMAIN TargetSeq[Project]
        BY <1>0, <3>6
      <4>2. AllPushed(1 .. pub.t - 1)'
        BY <3>2 DEF AllPushed
      <4> QED
        BY <2>5, <2>6, <3>2, <3>3, <3>4, <3>6, <4>1, <4>2 DEF Publishes
    <3> QED
      BY <3>5, <3>6
  <2>11. CASE SkipTarget \/ Reverify
    BY <2>9, <2>11 DEF SkipTarget, Reverify, PublishStep, FinalizeRelease, Pushed
  <2>12. CASE NotPublished \/ PushNpm \/ PushImage \/ PushPointers
    BY <2>8, <2>12 DEF NotPublished, PushNpm, PushImage, PushPointers, PublishStep, FinalizeRelease
  <2>13. CASE UpdateFlags
    <3>1. pub.pc = "flags" /\ Fetched /\ AllPushed(DOMAIN TargetSeq[Project]) /\ ~FinalizeRelease
      BY <2>13 DEF UpdateFlags, PublishStep, PipelineInv, Publishes, FinalizeRelease
    <3>2. /\ pub'.k = pub.k /\ pub'.rel = pub.rel /\ pub'.draft = pub.draft
          /\ pub'.build = pub.build /\ pub'.files = pub.files
          /\ pub'.pc = IF pub.draft THEN "finalize" ELSE "group"
      BY <1>0, <2>13 DEF UpdateFlags, Then, PubTyped
    <3>3. Fetched' /\ Project' = Project
      BY <2>7, <3>1, <3>2 DEF Project
    <3>4. AllPushed(DOMAIN TargetSeq[Project])'
      BY <2>3, <2>4, <3>1, <3>3 DEF AllPushed, Pushed
    <3>5. ~pub.draft => PackageTag(Project) \in tags
      <4>1. ~pub.draft => pub.rel \in ReleasesOf(Project) /\ ~rels[pub.rel].draft
        BY <3>1 DEF Fetched, ReleasesOf, Exists
      <4> QED
        BY <2>4, <4>1 DEF PipelineInv, TagsFollowReleases
    <3> QED
      BY <2>5, <2>6, <3>2, <3>3, <3>4, <3>5 DEF Publishes, PackageTag
  <2>14. CASE FinalizeRelease
    <3>1. pub'.pc = "group" /\ pub'.k = pub.k /\ PackageTag(Project) \in tags' /\ Project' = Project
      BY <1>0, <2>14, AtFinalize DEF FinalizeRelease, Then, PubTyped, Project
    <3> QED
      BY <2>5, <2>6, <3>1 DEF Publishes, PackageTag
  <2>15. CASE CreateGroupTag
    <3>1. /\ pub'.pc = "simple" /\ pub'.k = pub.k /\ PackageTag(Project) \in tags
          /\ GroupTag \in tags' /\ Project' = Project
      BY <1>0, <2>15 DEF CreateGroupTag, PublishStep, Then, PubTyped, Project, PipelineInv, Publishes
    <3> QED
      BY <2>5, <2>6, <3>1 DEF Publishes, PackageTag, GroupTag
  <2>16. CASE CreateSimpleTag
    <3>1. pub'.pc \in {"comment", "resolve"} /\ pub.pc = "simple" /\ PackageTag(Project) \in tags
      BY <1>0, <2>16 DEF CreateSimpleTag, PublishStep, PubTyped, PipelineInv, Publishes
    <3>2. PackageTag(ProjectSeq[1]) \in tags
      <4>1. pub.k = 1 \/ pub.k > 1
        BY <1>0, PublishAssumption
      <4> QED
        BY <2>5, <3>1, <4>1 DEF Project
    <3> QED
      BY <2>6, <3>1, <3>2 DEF Publishes, PackageTag
  <2> QED
    BY <1>5, <2>10, <2>11, <2>12, <2>13, <2>14, <2>15, <2>16 DEF PublishSteps
<1> QED
  BY <1>1, <1>2, <1>3, <1>4, <1>5, Steps DEF Publishing, Publishes

-----------------------------------------------------------------------------
(* The theorems.                                                             *)

LEMMA Stutters == ASSUME PipelineInv, UNCHANGED vars PROVE PipelineInv'
<1> USE DEF vars, gitHubVars, buildVars, runVars, pubVars
<1>1. Typed' /\ Owned' /\ Uploads' /\ Finished'
  BY DEF PipelineInv, Typed, TypeOK, GitHubTypeOK, Owned, Exists, Uploads, Uploading, Put,
     Finished, Ready, ReleasesOf
<1>2. Publishes' /\ Registers' /\ Stages'
  BY DEF PipelineInv, Publishes, Fetched, AllPushed, Pushed, Skipped, Project, Exists,
     Registers, Stages
<1>3. FlagMeansComplete' /\ PublicMeansPushed' /\ TagsFollowReleases' /\ OwnTarball'
  BY DEF PipelineInv, FlagMeansComplete, Listed, PublicMeansPushed, ReleasesOf, Exists, Skipped,
     TagsFollowReleases, OwnTarball
<1> QED
  BY <1>1, <1>2, <1>3 DEF PipelineInv

\* The invariant of the pipeline is inductive.
THEOREM PipelineInvariance == ASSUME DescriptorAsset \notin Assets PROVE Spec => []PipelineInv
<1>1. Init => PipelineInv
  BY Starts
<1>2. PipelineInv /\ [Next]_vars => PipelineInv'
  <2> SUFFICES ASSUME PipelineInv, [Next]_vars PROVE PipelineInv'
    OBVIOUS
  <2>1. CASE Next
    <3>1. Typed' /\ Owned' /\ Uploads' /\ Finished' /\ Publishes' /\ Registers' /\ Stages'
      BY <2>1, TypedKept, OwnedKept, UploadsKept, FinishedKept, PublishesKept, RegistersKept, StagesKept
    <3>2. FlagMeansComplete' /\ PublicMeansPushed' /\ TagsFollowReleases' /\ OwnTarball'
      BY <2>1, FlagKept, PublicPushedKept, TagsKept, OwnTarballKept
    <3> QED
      BY <3>1, <3>2 DEF PipelineInv
  <2>2. CASE UNCHANGED vars
    BY <2>2, Stutters
  <2> QED
    BY <2>1, <2>2
<1> QED
  BY <1>1, <1>2, PTL DEF Spec

\* Every variable holds what its comment says, for any projects and bounds.
THEOREM TypeInvariance == ASSUME DescriptorAsset \notin Assets PROVE Spec => []TypeOK
<1>1. PipelineInv => TypeOK
  BY DEF PipelineInv, Typed
<1> QED
  BY <1>1, PipelineInvariance, PTL

\* A body that says published:true describes files that are all attached: no
\* failure, repeated attempt or clean-up leaves the flag over a partial upload.
THEOREM Completeness == ASSUME DescriptorAsset \notin Assets PROVE Spec => []FlagMeansComplete
<1>1. PipelineInv => FlagMeansComplete
  BY DEF PipelineInv
<1> QED
  BY <1>1, PipelineInvariance, PTL

\* A release becomes public after every registry has its targets.
THEOREM PublicLast == ASSUME DescriptorAsset \notin Assets PROVE Spec => []PublicMeansPushed
<1>1. PipelineInv => PublicMeansPushed
  BY DEF PipelineInv
<1> QED
  BY <1>1, PipelineInvariance, PTL

\* A build-pack job that succeeds leaves a release for every project that the
\* publish job will find.
THEOREM Success == ASSUME DescriptorAsset \notin Assets PROVE Spec => []SuccessMeansReleases
<1>1. PipelineInv => SuccessMeansReleases
  BY FindsBuild DEF SuccessMeansReleases
<1> QED
  BY <1>1, PipelineInvariance, PTL

\* A registry holds the build that the release describes, until the whole
\* workflow is run again after its publish job began.
THEOREM Registry == ASSUME DescriptorAsset \notin Assets PROVE Spec => []RegistryIsRelease
<1>1. PipelineInv => RegistryIsRelease
  <2> SUFFICES ASSUME PipelineInv, "rerunAll" \notin disturbed, NEW t \in Targets, registry[t] # 0
               PROVE  \E i \in ReleasesOf(t.proj) : rels[i].flag /\ rels[i].build = registry[t]
    BY DEF RegistryIsRelease
  <2>1. registry[t] = build /\ job \in {"publish", "publishFailed", "released"}
    BY DEF PipelineInv, Registers
  <2>2. t.proj \in Projects
    BY PublishAssumption DEF Target
  <2>3. Ready(t.proj)
    BY <2>1, <2>2 DEF PipelineInv, Finished
  <2> QED
    BY <2>1, <2>3 DEF Ready
<1> QED
  BY <1>1, PipelineInvariance, PTL

\* The tags follow the public releases.
THEOREM Tags == ASSUME DescriptorAsset \notin Assets PROVE Spec => []TagsFollowReleases
<1>1. PipelineInv => TagsFollowReleases
  BY DEF PipelineInv
<1> QED
  BY <1>1, PipelineInvariance, PTL

\* A descriptor never names the tarball of another project, whatever packs into
\* the shared staging directory at the same time.
THEOREM Tarballs == ASSUME DescriptorAsset \notin Assets PROVE Spec => []OwnTarball
<1>1. PipelineInv => OwnTarball
  BY DEF PipelineInv
<1> QED
  BY <1>1, PipelineInvariance, PTL
=============================================================================
