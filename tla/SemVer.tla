------------------------------- MODULE SemVer -------------------------------
(***************************************************************************)
(* Versions: their order, the bumps that are offered (version/bumps.ts),   *)
(* what a branch makes of a version (version/resolve.ts) and the floating  *)
(* pointers it earns (publishing/floating-tags.ts).                        *)
(*                                                                         *)
(* A pre-release identifier is <<0, n>> for a number and <<1, k>> for the  *)
(* k-th word in ASCII order, so that numbers sort before words, as the     *)
(* semver library (not in the repository) has it.                          *)
(***************************************************************************)
EXTENDS Integers, Sequences, FiniteSetsExt, SequencesExt

Words == <<"alpha", "beta", "build", "feature", "main", "rc", "v1", "x">>

Num(n)  == <<0, n>>
Word(w) == <<1, CHOOSE k \in DOMAIN Words : Words[k] = w>>
IsNum(i) == i[1] = 0

\* What a version is made of: semver parses nothing else.
Ident   == {0, 1} \X Nat
Triple  == Nat \X Nat \X Nat
Version == [base : Triple, pre : Seq(Ident)]

Stable(base) == [base |-> base, pre |-> <<>>]
Ver(base, pre) == [base |-> base, pre |-> pre]

\* isPreRelease
IsPre(v) == v.pre # <<>>

\* A shorter sequence sorts before the longer ones that begin with it.
Before(s, t) ==
    \/ \E i \in DOMAIN s \cap DOMAIN t :
         /\ \A j \in 1 .. i - 1 : s[j] = t[j]
         /\ \/ s[i][1] < t[i][1]
            \/ s[i][1] = t[i][1] /\ s[i][2] < t[i][2]
    \/ Len(s) < Len(t) /\ \A j \in DOMAIN s : s[j] = t[j]

BaseBefore(s, t) ==
    \E i \in 1 .. 3 : s[i] < t[i] /\ \A j \in 1 .. i - 1 : s[j] = t[j]

Less(v, w) ==
    \/ BaseBefore(v.base, w.base)
    \/ /\ v.base = w.base
       /\ \/ IsPre(v) /\ ~IsPre(w)
          \/ IsPre(v) /\ IsPre(w) /\ Before(v.pre, w.pre)

\* rsort(S)[0]
Highest(S) == CHOOSE v \in S : \A w \in S : w = v \/ Less(w, v)

(***************************************************************************)
(* The bumps offered for the version of a group.                           *)
(***************************************************************************)
Channels == <<"alpha", "beta", "rc">>
ChannelIds == {Word(Channels[k]) : k \in DOMAIN Channels}

\* getChannel: the position in the pre-release of its first channel, or 0
ChannelAt(pre) ==
    LET at == {i \in DOMAIN pre : pre[i] \in ChannelIds}
    IN  IF at = {} THEN 0 ELSE Min(at)

\* advancePrerelease: the last number is counted up; without one, 1 follows
Advance(pre) ==
    LET at == {i \in DOMAIN pre : IsNum(pre[i])}
    IN  IF at = {} THEN Append(pre, Num(1))
        ELSE [pre EXCEPT ![Max(at)] = Num(@[2] + 1)]

\* changeChannel: what follows the channel is replaced by a zero
ChangeChannel(pre, channel) ==
    Append(Append(SubSeq(pre, 1, ChannelAt(pre) - 1), channel), Num(0))

Patch(b) == <<b[1], b[2], b[3] + 1>>
Minor(b) == <<b[1], b[2] + 1, 0>>
Major(b) == <<b[1] + 1, 0, 0>>

\* nextVersionOptions: semver.inc of the base, as a first alpha and as it is
NextVersions(base) ==
    UNION {{Ver(b, <<Word("alpha"), Num(0)>>), Stable(b)} :
             b \in {Patch(base), Minor(base), Major(base)}}

\* computeBumpOptions
BumpOptions(v) ==
    NextVersions(v.base) \cup
    IF ~IsPre(v) THEN {}
    ELSE {Stable(v.base), Ver(v.base, Advance(v.pre))} \cup
         {Ver(v.base, ChangeChannel(v.pre, c)) :
            c \in {d \in ChannelIds : ChannelAt(v.pre) # 0 /\ d[2] > v.pre[ChannelAt(v.pre)][2]}}

\* A plausible bug, for the checks: a released version is offered again.
OfferedAll(v, plain) == BumpOptions(v)

\* filterExistingTags: the plain tag of a result or of its stable version
Offered(v, plain) ==
    {o \in BumpOptions(v) : o \notin plain /\ Stable(o.base) \notin plain}

(***************************************************************************)
(* What a branch makes of a version.  ids: its sanitised name, one or more *)
(* identifiers; mainline: it has no slash; taken: versionExists.           *)
(***************************************************************************)
Suffix(run) == <<Word("build"), Num(run)>>

\* A plausible bug, for the checks: nobody asks whether the version is taken.
MainlineAsIs(v, ids, run, taken) == v

\* resolveMainlineBranch
Mainline(v, ids, run, taken) ==
    IF v \notin taken THEN v
    ELSE Ver(v.base, (IF IsPre(v) THEN v.pre ELSE ids) \o Suffix(run))

\* resolveDevelopmentBranch
Development(v, ids, run, taken) ==
    LET w == Ver(v.base, ids \o v.pre)
    IN  IF w \notin taken THEN w ELSE Ver(w.base, w.pre \o Suffix(run))

(***************************************************************************)
(* Floating pointers.                                                      *)
(***************************************************************************)
\* channelOf: the channel of X.Y.Z-<channel>.N
HasChannel(v) == Len(v.pre) = 2 /\ v.pre[1] \in ChannelIds /\ IsNum(v.pre[2])

\* isFloatingEligible
Eligible(v) == ~IsPre(v) \/ HasChannel(v)

\* The class of versions of which a pointer names the highest.
Pointers == {"latest", "next"} \cup {Channels[k] : k \in DOMAIN Channels}
Class(ptr, S) ==
    {v \in S : /\ Eligible(v)
               /\ ptr = "latest" => ~IsPre(v)
               /\ ptr \notin {"latest", "next"} => HasChannel(v) /\ v.pre[1] = Word(ptr)}

\* A plausible bug, for the checks: every version is the latest of its class.
AlwaysLatest(v, existing) == {ptr \in Pointers : v \in Class(ptr, {v})}

\* computeFloatingTags
FloatingTags(v, existing) ==
    {ptr \in Pointers : LET all == Class(ptr, existing \cup {v})
                        IN  v \in all /\ v = Highest(all)}
=============================================================================
