----------------------------- MODULE VersionFlow -----------------------------
(***************************************************************************)
(* The life of versions: gitflow version bumps a group in versions.yml on  *)
(* a branch, create-release-pr resolves the version of every project and   *)
(* writes them into the release PR of the branch, and the release of the   *)
(* PR pushes the projects, moves their floating pointers and tags them.    *)
(*                                                                         *)
(* Branches release side by side and share tags, registries and pointers.  *)
(* A release may be given up between any two of its steps; its branch then *)
(* has a new PR.  GitHubReleases and its extensions have the steps of one  *)
(* release in detail; here they are as few as the properties tell apart.   *)
(***************************************************************************)
EXTENDS ReleasePR

CONSTANTS
    Branches,    \* branch names
    BranchIds,   \* sanitizeBranchName, as identifiers
    Mainlines,   \* isMainlineBranch: the branches without a slash
    GroupSeq,    \* the groups with the names of their projects
    Files,       \* versions.yml of each branch at the start
    MaxRuns,     \* bound: runs of create-release-pr
    MaxBumps     \* bound: bumps

Groups == {GroupSeq[k].name : k \in DOMAIN GroupSeq}
NamesOf(k) == {GroupSeq[k].names[j] : j \in DOMAIN GroupSeq[k].names}
Names == UNION {NamesOf(k) : k \in DOMAIN GroupSeq}

\* Names are not empty and every project of the monorepo belongs to one group;
\* versions.yml holds what semver can parse.
ASSUME FlowAssumption ==
    /\ Mainlines \subseteq Branches
    /\ BranchIds \in [Branches -> Seq(Ident)]
    /\ GroupSeq \in Seq([name : Groups, names : Seq(Names)])
    /\ "" \notin Groups \cup Names
    /\ \A k, l \in DOMAIN GroupSeq :
         \A i \in DOMAIN GroupSeq[k].names, j \in DOMAIN GroupSeq[l].names :
           GroupSeq[k].names[i] = GroupSeq[l].names[j] => k = l /\ i = j
    /\ Files \in [Branches -> [Groups -> Version]]
    /\ MaxRuns \in Nat
    /\ MaxBumps \in Nat

VARIABLES
    file,     \* versions.yml on each branch: group -> version
    bumps,    \* how many bumps there were
    run,      \* the number of the last run of create-release-pr
    pr,       \* the release of each branch: where it stands, the PR body and
              \* what a job reads from it, the project it is at and the tags
              \* that were listed for it
    tags,     \* package tags: pairs of project and version
    plain,    \* plain tags v<version>
    pushed,   \* what is in a registry: pairs of project and version
    ptr,      \* the version each pointer of a project names, in a set
    stale     \* history: a pointer was moved on an outdated list

vars == <<file, bumps, run, pr, tags, plain, pushed, ptr, stale>>

VersionsIn(n, S) == {t[2] : t \in {u \in S : u[1] = n}}
NoPR == [pc |-> "none", body |-> <<>>, meta |-> <<>>, k |-> 1, known |-> {}]

(***************************************************************************)
(* gitflow version                                                         *)
(***************************************************************************)
Bump(b, g) ==
    /\ bumps < MaxBumps
    /\ bumps' = bumps + 1
    /\ \E o \in Offered(file[b][g], plain) : file' = [file EXCEPT ![b][g] = o]
    /\ UNCHANGED <<run, pr, tags, plain, pushed, ptr, stale>>

(***************************************************************************)
(* create-release-pr                                                       *)
(***************************************************************************)
\* resolveVersion for one project; a draft is not a taken version
Resolve(b, v, n, r) ==
    LET taken == VersionsIn(n, tags)
    IN  IF b \in Mainlines THEN Mainline(v, BranchIds[b], r, taken)
        ELSE Development(v, BranchIds[b], r, taken)

Resolved(b, k, r) == {Resolve(b, file[b][GroupSeq[k].name], n, r) : n \in NamesOf(k)}
Mixed(b, k, r) == Cardinality(Resolved(b, k, r)) > 1

\* The highest version of a group goes to all of its projects, whose flag
\* stays what it was before.
GroupIn(b, k, r) ==
    LET version == Highest(Resolved(b, k, r))
        of(n)   == Resolve(b, file[b][GroupSeq[k].name], n, r)
        pre(n)  == b \notin Mainlines \/ IsPre(of(n))
    IN  [name |-> GroupSeq[k].name,
         projects |-> [j \in DOMAIN GroupSeq[k].names |->
            LET n == GroupSeq[k].names[j] IN ProjectOf(n, version, pre(n), 0)]]

\* The PR is opened, or its body is written anew.
CreatePR(b) ==
    /\ run < MaxRuns
    /\ pr[b].pc \in {"none", "open"}
    /\ run' = run + 1
    /\ LET body == Render([k \in DOMAIN GroupSeq |-> GroupIn(b, k, run + 1)])
       IN  pr' = [pr EXCEPT ![b] = [NoPR EXCEPT !.pc = "open", !.body = body,
                                                !.meta = Extract(body)]]
    /\ UNCHANGED <<file, bumps, tags, plain, pushed, ptr, stale>>

(***************************************************************************)
(* The release of a merged PR.                                             *)
(***************************************************************************)
Project(b) == pr[b].meta[pr[b].k].project
Done(b) == pr[b].k > Len(pr[b].meta)

\* build-pack: it refuses a version that is released; the ids of the projects
\* that were uploaded are recorded.
BuildPack(b) ==
    /\ pr[b].pc = "open"
    /\ \A p \in Listed(pr[b].meta) : <<p.name, p.version>> \notin tags
    /\ \E S \in {Names, {}} :
         LET body == SetIds(pr[b].body, [n \in S |-> run])
         IN  pr' = [pr EXCEPT ![b].pc = "built", ![b].body = body, ![b].meta = Extract(body)]
    /\ UNCHANGED <<file, bumps, run, tags, plain, pushed, ptr, stale>>

\* A plausible bug, for the checks: what earns no pointer is not pushed.
ListEligible(b) ==
    /\ pr[b].pc = "built"
    /\ ~Done(b)
    /\ pr' = [pr EXCEPT ![b].pc = IF Eligible(Project(b).version) THEN "listed" ELSE "pushed",
                        ![b].known = VersionsIn(Project(b).name, tags)]
    /\ UNCHANGED <<file, bumps, run, tags, plain, pushed, ptr, stale>>

\* listProjectVersions, before anything of the project is pushed
ListVersions(b) ==
    /\ pr[b].pc = "built"
    /\ ~Done(b)
    /\ pr' = [pr EXCEPT ![b].pc = "listed",
                        ![b].known = VersionsIn(Project(b).name, tags)]
    /\ UNCHANGED <<file, bumps, run, tags, plain, pushed, ptr, stale>>

\* publishProjectArtifacts, with every pointer the version earns
PushProject(b) ==
    LET p == Project(b)
    IN  /\ pr[b].pc = "listed"
        /\ pushed' = pushed \cup {<<p.name, p.version>>}
        /\ ptr' = [ptr EXCEPT ![p.name] = [q \in Pointers |->
                     IF q \in FloatingTags(p.version, pr[b].known) THEN {p.version} ELSE @[q]]]
        /\ stale' = (stale \/ ~ VersionsIn(p.name, pushed) \subseteq pr[b].known \cup {p.version})
        /\ pr' = [pr EXCEPT ![b].pc = "pushed"]
        /\ UNCHANGED <<file, bumps, run, tags, plain>>

\* finalizeReleaseById and createGitTag.  The placeholder that is read back has
\* no dash, so that every group counts as MAIN and gets a plain tag.
TagProject(b) ==
    LET p == Project(b)
    IN  /\ pr[b].pc = "pushed"
        /\ tags' = tags \cup {<<p.name, p.version>>}
        /\ plain' = plain \cup {p.version}
        /\ pr' = [pr EXCEPT ![b].pc = "built", ![b].k = @ + 1, ![b].known = {}]
        /\ UNCHANGED <<file, bumps, run, pushed, ptr, stale>>

\* The release is through, or is given up.
Close(b) ==
    /\ pr[b].pc # "none"
    /\ pr' = [pr EXCEPT ![b] = NoPR]
    /\ UNCHANGED <<file, bumps, run, tags, plain, pushed, ptr, stale>>

Init ==
    /\ file = Files
    /\ bumps = 0
    /\ run = 0
    /\ pr = [b \in Branches |-> NoPR]
    /\ tags = {}
    /\ plain = {}
    /\ pushed = {}
    /\ ptr = [n \in Names |-> [q \in Pointers |-> {}]]
    /\ stale = FALSE

Next ==
    \E b \in Branches :
        \/ \E g \in Groups : Bump(b, g)
        \/ CreatePR(b) \/ BuildPack(b) \/ ListVersions(b) \/ PushProject(b)
        \/ TagProject(b) \/ Close(b)

Spec == Init /\ [][Next]_vars

(***************************************************************************)
(* Properties.                                                             *)
(***************************************************************************)
\* Every pointer names at most one version, one that is in the registry; a tag
\* is only there for what was pushed, and a release is at a project of its PR.
FlowTypeOK ==
    /\ tags \subseteq pushed
    /\ \A n \in Names : \A q \in Pointers :
         Cardinality(ptr[n][q]) <= 1 /\ ptr[n][q] \subseteq VersionsIn(n, pushed)
    /\ plain = {t[2] : t \in tags}
    /\ \A b \in Branches :
         /\ pr[b].pc \in {"none", "open", "built", "listed", "pushed"}
         /\ pr[b].k \in 1 .. Len(pr[b].meta) + 1
         /\ pr[b].pc \in {"listed", "pushed"} => ~Done(b)

\* latest is the highest stable version that was published, next the highest
\* of all mainline versions, a channel the highest of the channel - whatever
\* branches publish, in whatever order, a maintenance patch after a newer line
\* included - as long as no release acted on a list of tags that lacked what
\* another one had already pushed.
PointersAreHighest ==
    ~stale => \A n \in Names : \A q \in Pointers :
        LET all == Class(q, VersionsIn(n, pushed))
        IN  ptr[n][q] = IF all = {} THEN {} ELSE {Highest(all)}

\* What one job writes into the PR another one reads: every project of every
\* group once, with the version of its group, and after build-pack with the id
\* of its release or without any.
MetadataSurvives ==
    \A b \in Branches : pr[b].pc # "none" =>
        /\ Len(pr[b].meta) = Cardinality(Names)
        /\ {p.name : p \in Listed(pr[b].meta)} = Names
        /\ \A p \in Listed(pr[b].meta) : \A k \in DOMAIN GroupSeq :
             p.name \in NamesOf(k) =>
               \A q \in Listed(pr[b].meta) : q.name \in NamesOf(k) =>
                 p.version = q.version /\ p.id = q.id
        /\ \A p \in Listed(pr[b].meta) :
             /\ p.version # <<>>
             /\ pr[b].pc = "open" => p.id = 0

\* A bump goes up, to a version that no release of the repository has.
BumpsGoUp ==
    [][\A b \in Branches : \A g \in Groups : file'[b][g] # file[b][g] =>
         Less(file[b][g], file'[b][g]) /\ file'[b][g] \notin plain]_vars

\* A new PR proposes to release what has not been released: the run number
\* makes a taken version a new one.  A group of which one project was released
\* and another was not is excepted; see the README.
FreshVersions ==
    [][\A b \in Branches : pr'[b].pc = "open" /\ run' # run /\ pr'[b] # pr[b] =>
         \A k \in DOMAIN GroupSeq : ~Mixed(b, k, run') =>
           \A p \in Listed(pr'[b].meta) :
             p.name \in NamesOf(k) => <<p.name, p.version>> \notin tags]_vars
=============================================================================
