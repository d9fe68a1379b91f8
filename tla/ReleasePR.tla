------------------------------ MODULE ReleasePR ------------------------------
(***************************************************************************)
(* The body of the release PR as a message between the jobs: the lines     *)
(* that create-release-pr writes (generateYamlMetadata), that build-pack   *)
(* and publish-release read back (extractPRMetadata), and to which         *)
(* build-pack adds release ids (setReleaseIdsInPRBody), build-pack/options.*)
(*                                                                         *)
(* A line is a record of a key and a value; indentation and the parts of   *)
(* the body that no reader looks at are left out.                          *)
(***************************************************************************)
EXTENDS SemVer

Line(k, v) == [key |-> k, value |-> v]

\* A project as it is rendered and as it is read back; id 0: no releaseId
ProjectOf(name, version, prerelease, id) ==
    [name |-> name, version |-> version, prerelease |-> prerelease, id |-> id]

ProjectLines(p) ==
    <<Line("- name", p.name), Line("version", p.version), Line("prerelease", p.prerelease),
      Line("tags", "-"), Line("- tag", p.name)>>

\* generateYamlMetadata: groups is a sequence of a name and its projects
GroupLines(g) ==
    <<Line("group", g.name), Line("tags", "-"), Line("- tag", g.name), Line("projects", "-")>>
    \o FlattenSeq([k \in DOMAIN g.projects |-> ProjectLines(g.projects[k])])
Render(groups) == FlattenSeq([k \in DOMAIN groups |-> GroupLines(groups[k])])

Nobody == ProjectOf("", <<>>, FALSE, 0)

\* The state of the reader: the group it is in, the project it is reading, and
\* what it has pushed so far - under the group it is in BY THEN, which is the
\* next one for the last project of a group.
Start == [group |-> "", current |-> Nobody, inProjects |-> FALSE, out |-> <<>>]
Push(r) ==
    IF r.current = Nobody \/ r.group = "" THEN r
    ELSE [r EXCEPT !.out = Append(@, [group |-> r.group, project |-> r.current])]

Read(r, l) ==
    CASE l.key = "group" -> [r EXCEPT !.group = l.value, !.inProjects = FALSE]
      [] l.key = "projects" -> [r EXCEPT !.inProjects = TRUE]
      [] l.key = "- name" /\ r.inProjects ->
           [Push(r) EXCEPT !.current = ProjectOf(l.value, <<>>, FALSE, 0)]
      [] l.key \in {"version", "prerelease"} /\ r.current # Nobody ->
           [r EXCEPT !.current[l.key] = l.value]
      [] l.key = "releaseId" /\ r.current # Nobody /\ l.value > 0 ->
           [r EXCEPT !.current.id = l.value]
      [] OTHER -> r

\* A plausible bug, for the checks: the last project is forgotten.
ExtractOpen(body) == FoldLeft(Read, Start, body).out

\* extractPRMetadata, the projects in the order in which they were pushed
Extract(body) == Push(FoldLeft(Read, Start, body)).out

Listed(meta) == {meta[k].project : k \in DOMAIN meta}

\* setReleaseIdsInPRBody: an id line under the name of each project in ids; a
\* line that an earlier attempt wrote for it is dropped.
Owner(body, k) ==
    LET names == {j \in 1 .. k : body[j].key = "- name"}
    IN  IF names = {} \/ \E j \in Max(names) .. k : body[j].key = "group"
        THEN "" ELSE body[Max(names)].value
SetIds(body, ids) ==
    FlattenSeq([k \in DOMAIN body |->
        CASE body[k].key = "- name" /\ body[k].value \in DOMAIN ids ->
               <<body[k], Line("releaseId", ids[body[k].value])>>
          [] body[k].key = "releaseId" /\ Owner(body, k) \in DOMAIN ids -> <<>>
          [] OTHER -> <<body[k]>>])
=============================================================================
