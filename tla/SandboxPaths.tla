---------------------------- MODULE SandboxPaths ----------------------------
(***************************************************************************)
(* Paths: how the path of a request becomes a path inside the sandbox      *)
(* (handler/file.go), which directory of the host is mounted there         *)
(* (executor/bwrap.go), which one the handlers take it for                 *)
(* (handler/util.go), and how a path is shown in an answer.                *)
(*                                                                         *)
(* A path is the sequence of its components; "/" and "." are dropped, as   *)
(* filepath.Clean does, and a relative path is an absolute one, as all     *)
(* code that takes a path makes it.                                        *)
(***************************************************************************)
EXTENDS Naturals, Sequences, SequencesExt

Home == <<"home">>                  \* SandboxHome
Skills == <<"agents", "skills">>    \* SandboxSkillsDir
Project == <<"home", "project">>    \* SandboxProjectdataDir

(* hasSandboxPathPrefix, and the same test spelled out in many places.     *)
Within(prefix, path) == IsPrefix(prefix, path)

(* The part of path below prefix: filepath.Rel.                            *)
Below(prefix, path) == SubSeq(path, Len(prefix) + 1, Len(path))

-----------------------------------------------------------------------------
(* From the request into the sandbox. *)

HasDotDot(request) == \E i \in DOMAIN request : request[i] = ".."

Resolve(request) ==
  IF Within(Skills, request) \/ Within(Home, request) THEN request
  ELSE Home \o request

(* Whether a path may be read and written at all; the requests for others  *)
(* end in 400 or 403 before they touch anything.                           *)
Readable(request) == ~HasDotDot(request)

Writable(request) ==
  /\ ~HasDotDot(request)
  /\ ~Within(Skills, request)
  /\ Within(Home, Resolve(request))

-----------------------------------------------------------------------------
(* Which directories a request's sandbox is made of: that of the session   *)
(* or of the agent's workspace at /, the agent's skills, and those of the  *)
(* user and of the project if the request names them.                      *)
Roots == [host : {"session", "workspace"}, user : BOOLEAN, project : BOOLEAN]

Mount(dir, dest) == [dir |-> dir, dest |-> dest]

If(condition, mount) == IF condition THEN <<mount>> ELSE <<>>

(* fileOpOpts and commandExecBinds *)
RWBinds(roots) ==
  <<Mount(roots.host, <<>>)>>
    \o If(roots.user, Mount("user", Home))
    \o If(roots.project, Mount("project", Project))

ROBinds(roots) == <<Mount("skills", Skills)>>

Shorter(m, n) == Len(m.dest) < Len(n.dest)

(* The same mounts, none after one with a longer destination: sort.Slice.  *)
SortedByDest(mounts) ==
  CHOOSE order \in [DOMAIN mounts -> Range(mounts)] :
    /\ Range(order) = Range(mounts)
    /\ \A i, j \in DOMAIN mounts : i < j => ~Shorter(order[j], order[i])

LongestFirst(roots) ==  \* MUTANT of MountOrder: children before parents
  Reverse(RWBinds(roots)) \o ROBinds(roots)

(* The order in which bwrap mounts them: / first, parents before children, *)
(* the read-only ones last.                                                *)
MountOrder(roots) ==
  SortedByDest(RWBinds(roots)) \o ROBinds(roots)

(* What is at a path of the sandbox: the mount made last hides the others. *)
Location(dir, rest) == [dir |-> dir, rest |-> rest]

Mounted(roots, path) ==
  LET order == MountOrder(roots)
      covering == {i \in DOMAIN order : Within(order[i].dest, path)}
      top == order[CHOOSE i \in covering : \A j \in covering : j <= i]
  IN Location(top.dir, Below(top.dest, path))

(* hostPathForSandboxPath *)
HostPath(roots, path) ==
  CASE Within(Skills, path) -> Location("skills", Below(Skills, path))
    [] roots.project /\ Within(Project, path) ->
         Location("project", Below(Project, path))
    [] roots.user /\ Within(Home, path) /\ ~(roots.project /\ Within(Project, path)) ->
         Location("user", Below(Home, path))
    [] OTHER -> Location(roots.host, path)

-----------------------------------------------------------------------------
(* From the sandbox into an answer. *)

(* resolveDisplayContextForSandboxPath: the prefix of what is shown, given *)
(* the path that was asked for.                                            *)
DisplayRoot(asked) ==
  CASE Within(Skills, asked) -> Skills
    [] Within(Project, asked) -> Project
    [] OTHER -> Home

(* formatDisplayPath: paths below /home are shown without it.              *)
DisplayBare(asked, path) ==  \* MUTANT of Display: without its prefix
  Below(DisplayRoot(asked), path)

Display(asked, path) ==
  LET root == DisplayRoot(asked)
  IN IF root = Home THEN Below(Home, path) ELSE root \o Below(root, path)

(* shouldSkipImplicitVirtualPath: the skills and the project's data are    *)
(* left out of a search that was not for them.                             *)
Implicit(asked, path) ==
  \/ Within(Skills, path) /\ DisplayRoot(asked) # Skills
  \/ Within(Project, path) /\ DisplayRoot(asked) # Project

-----------------------------------------------------------------------------
(* All paths of up to four of the names that mean something, and another.  *)
Names == {"home", "project", "agents", "skills", "x"}
SomePaths == UNION {[1 .. n -> Names] : n \in 0 .. 4}

(* hostPathForSandboxPath takes a path for what the mounts make of it.     *)
PathsAgree ==
  \A roots \in Roots, request \in SomePaths :
    HostPath(roots, Resolve(request)) = Mounted(roots, Resolve(request))

(* A path below a "home" or an "agents/skills" in the home directory is    *)
(* shown as one that leads elsewhere.                                      *)
Misleading(path) == Within(Home \o Home, path) \/ Within(Home \o Skills, path)

ShownPathsLead ==
  \A asked \in SomePaths, path \in SomePaths :
    Within(Resolve(asked), path) =>
      (Resolve(Display(Resolve(asked), path)) = path <=> ~Misleading(path))
=============================================================================
