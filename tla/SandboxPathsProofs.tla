------------------------- MODULE SandboxPathsProofs -------------------------
(***************************************************************************)
(* Theorems about SandboxPaths: what TLC checks for short paths holds for  *)
(* all.                                                                    *)
(***************************************************************************)
EXTENDS SandboxPaths, SequenceTheorems, TLAPS

(* (The provers do not know of a particular string that it is one.)        *)
Path == Seq(STRING \cup Names)

(* A path below a prefix is the prefix and what is below it.               *)
LEMMA WithinBelow ==
  ASSUME NEW p \in Path, NEW q \in Path, Within(p, q)
  PROVE  /\ Below(p, q) \in Path
         /\ p \o Below(p, q) = q
         /\ \A i \in 1 .. Len(p) : q[i] = p[i]
         /\ Len(p) <= Len(q) /\ Len(Below(p, q)) = Len(q) - Len(p)
BY DEF Path, Within, Below, IsPrefix

(* A path is below a prefix if it begins with the prefix's components.     *)
LEMMA WithinPointwise ==
  ASSUME NEW p \in Path, NEW q \in Path
  PROVE  Within(p, q) <=>
           Len(p) <= Len(q) /\ \A i \in 1 .. Len(p) : q[i] = p[i]
BY DEF Path, Within, IsPrefix

(* The directories with a mount of their own are paths, and these are      *)
(* their names.                                                            *)
LEMMA DirsArePaths ==
  /\ Home \in Path /\ Len(Home) = 1 /\ Home[1] = "home"
  /\ /\ Skills \in Path /\ Len(Skills) = 2
     /\ Skills[1] = "agents" /\ Skills[2] = "skills"
  /\ /\ Project \in Path /\ Len(Project) = 2
     /\ Project[1] = "home" /\ Project[2] = "project"
  /\ <<>> \in Path
<1> DEFINE S == STRING \cup Names
<1>1. "home" \in S /\ "project" \in S /\ "agents" \in S /\ "skills" \in S
  BY DEF Names
<1>2. Path = Seq(S)
  BY DEF Path
<1> HIDE DEF S
<1>3. /\ Home \in Seq(S) /\ Len(Home) = 1 /\ Home[1] = "home"
  BY <1>1 DEF Home
<1>4. /\ Skills \in Seq(S) /\ Len(Skills) = 2
      /\ Skills[1] = "agents" /\ Skills[2] = "skills"
  BY <1>1 DEF Skills
<1>5. /\ Project \in Seq(S) /\ Len(Project) = 2
      /\ Project[1] = "home" /\ Project[2] = "project"
  BY <1>1 DEF Project
<1>6. <<>> \in Seq(S)
  OBVIOUS
<1> QED
  BY <1>2, <1>3, <1>4, <1>5, <1>6

(* A path taken to be below the home directory.                            *)
LEMMA AfterHome ==
  ASSUME NEW p \in Path
  PROVE  /\ Home \o p \in Path /\ Len(Home \o p) = Len(p) + 1
         /\ (Home \o p)[1] = "home"
         /\ \A i \in 1 .. Len(p) : (Home \o p)[i + 1] = p[i]
<1> DEFINE S == STRING \cup Names
<1>1. Path = Seq(S)
  BY DEF Path
<1> HIDE DEF S
<1>2. Len(p) \in Nat
  BY <1>1
<1> QED
  BY <1>1, <1>2, DirsArePaths, ConcatProperties

(* Which paths are below the directories that mean something.              *)
LEMMA PathFacts ==
  ASSUME NEW q \in Path
  PROVE  /\ Len(q) \in Nat /\ Within(<<>>, q) /\ Below(<<>>, q) = q
         /\ Within(Home, q) <=> Len(q) >= 1 /\ q[1] = "home"
         /\ Within(Skills, q) <=>
              Len(q) >= 2 /\ q[1] = "agents" /\ q[2] = "skills"
         /\ Within(Project, q) <=>
              Len(q) >= 2 /\ q[1] = "home" /\ q[2] = "project"
<1>1. Len(q) \in Nat /\ Within(<<>>, q) /\ Below(<<>>, q) = q
  BY DEF Path, Within, Below, IsPrefix
<1>2. \A p \in {Home, Skills, Project} : Within(p, q) <=>
        Len(p) <= Len(q) /\ \A i \in 1 .. Len(p) : q[i] = p[i]
  BY DirsArePaths, WithinPointwise
<1>3. Within(Home, q) <=> Len(q) >= 1 /\ q[1] = "home"
  <2>1. 1 .. Len(Home) = {1}
    BY DirsArePaths
  <2> QED
    BY <1>1, <1>2, <2>1, DirsArePaths
<1>4. Within(Skills, q) <=> Len(q) >= 2 /\ q[1] = "agents" /\ q[2] = "skills"
  <2>1. 1 .. Len(Skills) = {1, 2}
    BY DirsArePaths
  <2> QED
    BY <1>1, <1>2, <2>1, DirsArePaths
<1>5. Within(Project, q) <=> Len(q) >= 2 /\ q[1] = "home" /\ q[2] = "project"
  <2>1. 1 .. Len(Project) = {1, 2}
    BY DirsArePaths
  <2> QED
    BY <1>1, <1>2, <2>1, DirsArePaths
<1> QED
  BY <1>1, <1>3, <1>4, <1>5

-----------------------------------------------------------------------------

(* Short paths, joined.                                                    *)
LEMMA Joined ==
  ASSUME NEW a, NEW b, NEW c, NEW d
  PROVE  /\ <<a>> \o <<>> = <<a>> /\ <<a, b>> \o <<>> = <<a, b>>
         /\ <<a>> \o <<b>> = <<a, b>> /\ <<a, b>> \o <<c>> = <<a, b, c>>
         /\ <<a, b, c>> \o <<d>> = <<a, b, c, d>>
<1> DEFINE S == {a, b, c, d}
<1>1. /\ <<>> \in Seq(S) /\ <<a>> \in Seq(S) /\ <<b>> \in Seq(S)
      /\ <<c>> \in Seq(S) /\ <<d>> \in Seq(S)
      /\ <<a, b>> \in Seq(S) /\ <<a, b, c>> \in Seq(S)
      /\ <<a, b, c, d>> \in Seq(S)
  OBVIOUS
<1> HIDE DEF S
<1>2. <<a>> \o <<>> = <<a>> /\ <<a, b>> \o <<>> = <<a, b>>
  OBVIOUS
<1>3. <<a>> \o <<b>> = <<a, b>>
  <2> DEFINE s == <<a>> \o <<b>>
             t == <<a, b>>
  <2>1. /\ s \in Seq(S) /\ Len(s) = 2
        /\ s[1] = a /\ s[2] = b
    BY <1>1, ConcatProperties
  <2>2. /\ t \in Seq(S) /\ Len(t) = 2
        /\ t[1] = a /\ t[2] = b
    BY <1>1
  <2> HIDE DEF s, t
  <2>3. s = t
    BY <2>1, <2>2, SeqEqual
  <2> QED
    BY <2>3 DEF s, t
<1>4. <<a, b>> \o <<c>> = <<a, b, c>>
  <2> DEFINE s == <<a, b>> \o <<c>>
             t == <<a, b, c>>
  <2>1. /\ s \in Seq(S) /\ Len(s) = 3
        /\ s[1] = a /\ s[2] = b /\ s[3] = c
    BY <1>1, ConcatProperties
  <2>2. /\ t \in Seq(S) /\ Len(t) = 3
        /\ t[1] = a /\ t[2] = b /\ t[3] = c
    BY <1>1
  <2> HIDE DEF s, t
  <2>3. s = t
    BY <2>1, <2>2, SeqEqual
  <2> QED
    BY <2>3 DEF s, t
<1>5. <<a, b, c>> \o <<d>> = <<a, b, c, d>>
  <2> DEFINE s == <<a, b, c>> \o <<d>>
             t == <<a, b, c, d>>
  <2>1. /\ s \in Seq(S) /\ Len(s) = 4
        /\ s[1] = a /\ s[2] = b /\ s[3] = c /\ s[4] = d
    BY <1>1, ConcatProperties
  <2>2. /\ t \in Seq(S) /\ Len(t) = 4
        /\ t[1] = a /\ t[2] = b /\ t[3] = c /\ t[4] = d
    BY <1>1
  <2> HIDE DEF s, t
  <2>3. s = t
    BY <2>1, <2>2, SeqEqual
  <2> QED
    BY <2>3 DEF s, t
<1> QED
  BY <1>2, <1>3, <1>4, <1>5

(* Mounts that are in their order stay in it.                              *)
Sorted(order, mounts) ==
  /\ Range(order) = Range(mounts)
  /\ \A i, j \in DOMAIN mounts : i < j => ~Shorter(order[j], order[i])

(* Mounts that are listed the shortest destination first are mounted as    *)
(* they are listed: one mount,                                             *)
LEMMA SortedOne ==
  ASSUME NEW a
  PROVE  SortedByDest(<<a>>) = <<a>>
<1>1. /\ <<a>> \in [DOMAIN <<a>> -> Range(<<a>>)] /\ Sorted(<<a>>, <<a>>)
  BY DEF Sorted, Range
<1>2. ASSUME NEW o \in [DOMAIN <<a>> -> Range(<<a>>)], Sorted(o, <<a>>)
      PROVE  o = <<a>>
  BY <1>2 DEF Range
<1> QED
  BY <1>1, <1>2 DEF SortedByDest, Sorted

(* two mounts,                                                             *)
LEMMA SortedTwo ==
  ASSUME NEW a, NEW b,
         Len(a.dest) \in Nat, Len(b.dest) \in Nat, Shorter(a, b)
  PROVE  SortedByDest(<<a, b>>) = <<a, b>>
<1> DEFINE m == <<a, b>>
<1>1. /\ DOMAIN m = 1 .. 2 /\ m[1] = a /\ m[2] = b
      /\ Range(m) = {a, b}
  BY DEF Range
<1>2. m \in [DOMAIN m -> Range(m)] /\ Sorted(m, m)
  BY <1>1 DEF Sorted, Shorter
<1>3. ASSUME NEW o \in [DOMAIN m -> Range(m)], Sorted(o, m)
      PROVE  o = m
  <2>1. /\ o[1] \in {a, b} /\ o[2] \in {a, b}
        /\ {o[1], o[2]} = {a, b} /\ ~Shorter(o[2], o[1])
    BY <1>1, <1>3 DEF Sorted, Range
  <2>2. o[1] = a /\ o[2] = b
    BY <2>1 DEF Shorter
  <2> QED
    BY <1>1, <2>2
<1> QED
  BY <1>2, <1>3 DEF SortedByDest, Sorted

(* and three, which is all there are that matter to a path.                *)
LEMMA SortedThree ==
  ASSUME NEW a, NEW b, NEW c,
         Len(a.dest) \in Nat, Len(b.dest) \in Nat, Len(c.dest) \in Nat,
         Shorter(a, b), Shorter(b, c)
  PROVE  SortedByDest(<<a, b, c>>) = <<a, b, c>>
<1> DEFINE m == <<a, b, c>>
<1>1. /\ DOMAIN m = 1 .. 3 /\ m[1] = a /\ m[2] = b /\ m[3] = c
      /\ Range(m) = {a, b, c}
  BY DEF Range
<1>2. m \in [DOMAIN m -> Range(m)] /\ Sorted(m, m)
  BY <1>1 DEF Sorted, Shorter
<1>3. ASSUME NEW o \in [DOMAIN m -> Range(m)], Sorted(o, m)
      PROVE  o = m
  <2>1. o[1] \in {a, b, c} /\ o[2] \in {a, b, c} /\ o[3] \in {a, b, c}
    BY <1>1, <1>3
  <2>2. Range(o) = {o[1], o[2], o[3]}
    BY <1>1, <1>3 DEF Range
  <2>3. {o[1], o[2], o[3]} = {a, b, c}
    BY <1>1, <1>3, <2>2 DEF Sorted
  <2>4. ~Shorter(o[2], o[1]) /\ ~Shorter(o[3], o[2]) /\ ~Shorter(o[3], o[1])
    BY <1>1, <1>3 DEF Sorted
  <2>5. Shorter(a, c) /\ a # b /\ b # c /\ a # c
    BY DEF Shorter
  <2>6. o[1] = a
    BY <2>1, <2>3, <2>4, <2>5
  <2>7. o[3] = c
    BY <2>1, <2>3, <2>4, <2>5
  <2>8. o[2] = b
    BY <2>1, <2>3, <2>5, <2>6, <2>7
  <2> QED
    BY <1>1, <2>6, <2>7, <2>8
<1> QED
  BY <1>2, <1>3 DEF SortedByDest, Sorted

(* Whatever a request's sandbox is made of, bwrap mounts / first, then what*)
(* there is of the user and of the project, and the skills last.           *)
LEMMA Ordered ==
  ASSUME NEW roots \in Roots
  PROVE  MountOrder(roots) = RWBinds(roots) \o ROBinds(roots)
<1> DEFINE root == Mount(roots.host, <<>>)
           user == Mount("user", Home)
           project == Mount("project", Project)
<1>1. /\ Len(root.dest) = 0 /\ Len(user.dest) = 1 /\ Len(project.dest) = 2
  BY DEF Mount, Home, Project
<1>3. RWBinds(roots) =
        <<root>> \o (IF roots.user THEN <<user>> ELSE <<>>)
                 \o (IF roots.project THEN <<project>> ELSE <<>>)
  BY DEF RWBinds, If
<1> HIDE DEF root, user, project
<1>2. Shorter(root, user) /\ Shorter(root, project) /\ Shorter(user, project)
  BY <1>1 DEF Shorter
<1>4. \/ RWBinds(roots) = <<root>>
      \/ RWBinds(roots) = <<root, user>>
      \/ RWBinds(roots) = <<root, project>>
      \/ RWBinds(roots) = <<root, user, project>>
  BY <1>3, Joined
<1>5. SortedByDest(RWBinds(roots)) = RWBinds(roots)
  BY <1>1, <1>2, <1>4, SortedOne, SortedTwo, SortedThree
<1> QED
  BY <1>5 DEF MountOrder

(* At a path is what the last of the mounts that cover it has there.       *)
LEMMA LastCovers ==
  ASSUME NEW roots \in Roots, NEW path \in Path,
         NEW i \in DOMAIN MountOrder(roots),
         Within(MountOrder(roots)[i].dest, path),
         \A j \in DOMAIN MountOrder(roots) :
           Within(MountOrder(roots)[j].dest, path) => j <= i,
         DOMAIN MountOrder(roots) \subseteq Nat
  PROVE  Mounted(roots, path) =
           Location(MountOrder(roots)[i].dir,
                    Below(MountOrder(roots)[i].dest, path))
<1> DEFINE order == MountOrder(roots)
           covering == {j \in DOMAIN order : Within(order[j].dest, path)}
<1>1. i \in covering /\ \A j \in covering : j <= i
  OBVIOUS
<1>2. (CHOOSE k \in covering : \A j \in covering : j <= k) = i
  BY <1>1
<1> QED
  BY <1>2 DEF Mounted

(* hostPathForSandboxPath (util.go:236-296) takes every path for what the  *)
(* mounts make of it (bwrap.go:75-132).                                    *)
THEOREM HostPathIsMounted ==
  ASSUME NEW roots \in Roots, NEW path \in Path
  PROVE  HostPath(roots, path) = Mounted(roots, path)
<1> DEFINE root == Mount(roots.host, <<>>)
           user == Mount("user", Home)
           project == Mount("project", Project)
           skills == Mount("skills", Skills)
           order == MountOrder(roots)
<1>1. /\ ~roots.user /\ ~roots.project => order = <<root, skills>>
      /\ roots.user /\ ~roots.project => order = <<root, user, skills>>
      /\ ~roots.user /\ roots.project => order = <<root, project, skills>>
      /\ roots.user /\ roots.project =>
           order = <<root, user, project, skills>>
  <2>1. order = <<root>> \o (IF roots.user THEN <<user>> ELSE <<>>)
                         \o (IF roots.project THEN <<project>> ELSE <<>>)
                         \o <<skills>>
    BY Ordered DEF RWBinds, ROBinds, If
  <2> HIDE DEF root, user, project, skills, order
  <2>2. /\ <<root>> \o <<>> = <<root>> /\ <<root, user>> \o <<>> = <<root, user>>
        /\ <<root>> \o <<user>> = <<root, user>>
    BY Joined
  <2>3. /\ <<root>> \o <<project>> = <<root, project>>
        /\ <<root, user>> \o <<project>> = <<root, user, project>>
    BY Joined
  <2>4. /\ <<root>> \o <<skills>> = <<root, skills>>
        /\ <<root, user>> \o <<skills>> = <<root, user, skills>>
        /\ <<root, project>> \o <<skills>> = <<root, project, skills>>
        /\ <<root, user, project>> \o <<skills>> =
             <<root, user, project, skills>>
    BY Joined
  <2>5. CASE ~roots.user /\ ~roots.project
    <3>1. order = <<root>> \o <<>> \o <<>> \o <<skills>>
      BY <2>1, <2>5
    <3> QED
      BY <2>2, <2>4, <2>5, <3>1
  <2>6. CASE roots.user /\ ~roots.project
    <3>1. order = <<root>> \o <<user>> \o <<>> \o <<skills>>
      BY <2>1, <2>6
    <3> QED
      BY <2>2, <2>4, <2>6, <3>1
  <2>7. CASE ~roots.user /\ roots.project
    <3>1. order = <<root>> \o <<>> \o <<project>> \o <<skills>>
      BY <2>1, <2>7
    <3> QED
      BY <2>2, <2>3, <2>4, <2>7, <3>1
  <2>8. CASE roots.user /\ roots.project
    <3>1. order = <<root>> \o <<user>> \o <<project>> \o <<skills>>
      BY <2>1, <2>8
    <3> QED
      BY <2>2, <2>3, <2>4, <2>8, <3>1
  <2> QED
    BY <2>5, <2>6, <2>7, <2>8
<1>2. roots.user \in BOOLEAN /\ roots.project \in BOOLEAN
  BY DEF Roots
<1>3. /\ root.dir = roots.host /\ root.dest = <<>>
      /\ user.dir = "user" /\ user.dest = Home
      /\ project.dir = "project" /\ project.dest = Project
      /\ skills.dir = "skills" /\ skills.dest = Skills
  BY DEF Mount
<1>4. /\ Within(<<>>, path) /\ Below(<<>>, path) = path
      /\ Within(Project, path) => Within(Home, path)
      /\ Within(Skills, path) => ~Within(Home, path)
  BY PathFacts
<1> HIDE DEF root, user, project, skills
<1>5. CASE Within(Skills, path)
  <2>1. Mounted(roots, path) = Location("skills", Below(Skills, path))
    BY <1>1, <1>2, <1>3, <1>4, <1>5, LastCovers
  <2> QED
    BY <2>1, <1>4, <1>5 DEF HostPath
<1>6. CASE ~Within(Skills, path) /\ roots.project /\ Within(Project, path)
  <2>1. Mounted(roots, path) = Location("project", Below(Project, path))
    BY <1>1, <1>2, <1>3, <1>4, <1>6, LastCovers
  <2> QED
    BY <2>1, <1>4, <1>6 DEF HostPath
<1>7. CASE /\ ~Within(Skills, path)
           /\ ~(roots.project /\ Within(Project, path))
           /\ roots.user /\ Within(Home, path)
  <2>1. Mounted(roots, path) = Location("user", Below(Home, path))
    BY <1>1, <1>2, <1>3, <1>4, <1>7, LastCovers
  <2> QED
    BY <2>1, <1>4, <1>7 DEF HostPath
<1>8. CASE /\ ~Within(Skills, path)
           /\ ~(roots.project /\ Within(Project, path))
           /\ ~(roots.user /\ Within(Home, path))
  <2>1. Mounted(roots, path) = Location(roots.host, path)
    BY <1>1, <1>2, <1>3, <1>4, <1>8, LastCovers
  <2> QED
    BY <2>1, <1>4, <1>8 DEF HostPath
<1> QED
  BY <1>5, <1>6, <1>7, <1>8

(* What is mounted, and where.                                             *)
Dirs == {"session", "workspace", "user", "project", "skills"}

Tops == {Skills, Project, Home, <<>>}

(* What is between a path and the mount that covers it is in that mount.   *)
LEMMA SameMount ==
  ASSUME NEW roots \in Roots, NEW p \in Path
  PROVE  \E top \in Tops, dir \in Dirs :
           /\ Within(top, p)
           /\ \A q \in Path : Within(top, q) /\ Within(q, p) =>
                Mounted(roots, q) = Location(dir, Below(top, q))
<1>1. ASSUME NEW q \in Path, Within(q, p)
      PROVE  /\ Within(Skills, q) => Within(Skills, p) /\ ~Within(Home, q)
             /\ Within(Project, q) => Within(Project, p) /\ Within(Home, q)
             /\ Within(Home, q) => Within(Home, p)
             /\ Mounted(roots, q) = HostPath(roots, q)
  <2>1. Len(q) <= Len(p) /\ \A i \in 1 .. Len(q) : p[i] = q[i]
    BY <1>1, WithinPointwise
  <2>2. Len(p) \in Nat /\ Len(q) \in Nat
    BY PathFacts
  <2>3. /\ Len(q) >= 1 => p[1] = q[1] /\ Len(p) >= 1
        /\ Len(q) >= 2 => p[2] = q[2] /\ Len(p) >= 2
    BY <2>1, <2>2
  <2>4. Mounted(roots, q) = HostPath(roots, q)
    BY HostPathIsMounted
  <2> QED
    BY <2>2, <2>3, <2>4, PathFacts
<1>2. roots.host \in Dirs /\ "user" \in Dirs /\ "project" \in Dirs
      /\ "skills" \in Dirs
  BY DEF Roots, Dirs
<1>3. CASE Within(Skills, p)
  <2>1. \A q \in Path : Within(Skills, q) /\ Within(q, p) =>
          Mounted(roots, q) = Location("skills", Below(Skills, q))
    BY <1>1 DEF HostPath
  <2> QED
    BY <1>2, <1>3, <2>1 DEF Tops
<1>4. CASE ~Within(Skills, p) /\ roots.project /\ Within(Project, p)
  <2>1. \A q \in Path : Within(Project, q) /\ Within(q, p) =>
          Mounted(roots, q) = Location("project", Below(Project, q))
    BY <1>1, <1>4 DEF HostPath
  <2> QED
    BY <1>2, <1>4, <2>1 DEF Tops
<1>5. CASE /\ ~Within(Skills, p) /\ ~(roots.project /\ Within(Project, p))
           /\ roots.user /\ Within(Home, p)
  <2>1. \A q \in Path : Within(Home, q) /\ Within(q, p) =>
          Mounted(roots, q) = Location("user", Below(Home, q))
    <3> TAKE q \in Path
    <3> HAVE Within(Home, q) /\ Within(q, p)
    <3>1. ~Within(Skills, q) /\ ~(roots.project /\ Within(Project, q))
      BY <1>1, <1>5
    <3> QED
      BY <1>1, <1>5, <3>1 DEF HostPath
  <2> QED
    BY <1>2, <1>5, <2>1 DEF Tops
<1>6. CASE /\ ~Within(Skills, p) /\ ~(roots.project /\ Within(Project, p))
           /\ ~(roots.user /\ Within(Home, p))
  <2>1. \A q \in Path : Within(<<>>, q) /\ Within(q, p) =>
          Mounted(roots, q) = Location(roots.host, Below(<<>>, q))
    <3> TAKE q \in Path
    <3> HAVE Within(<<>>, q) /\ Within(q, p)
    <3>1. /\ ~Within(Skills, q) /\ ~(roots.project /\ Within(Project, q))
          /\ ~(roots.user /\ Within(Home, q))
      BY <1>1, <1>6
    <3>2. Below(<<>>, q) = q
      BY PathFacts
    <3> QED
      BY <1>1, <3>1, <3>2 DEF HostPath
  <2>2. Within(<<>>, p)
    BY PathFacts
  <2> QED
    BY <1>2, <2>1, <2>2 DEF Tops
<1> QED
  BY <1>3, <1>4, <1>5, <1>6

(* Every path has a place in one of the directories that are mounted.      *)
LEMMA MountedIs ==
  ASSUME NEW roots \in Roots, NEW p \in Path
  PROVE  \E dir \in Dirs, rest \in Path :
           Mounted(roots, p) = Location(dir, rest)
<1>1. PICK top \in Tops, dir \in Dirs :
        /\ Within(top, p)
        /\ \A q \in Path : Within(top, q) /\ Within(q, p) =>
             Mounted(roots, q) = Location(dir, Below(top, q))
  BY SameMount
<1>2. top \in Path
  BY DirsArePaths DEF Tops
<1>3. Within(p, p)
  BY PathFacts, WithinPointwise
<1>4. Below(top, p) \in Path
  BY <1>1, <1>2, WithinBelow
<1> QED
  BY <1>1, <1>3, <1>4

(* The first components of a path, and of those the first.                 *)
LEMMA Beginnings ==
  ASSUME NEW p \in Path, NEW n \in 0 .. Len(p)
  PROVE  /\ SubSeq(p, 1, n) \in Path /\ Len(SubSeq(p, 1, n)) = n
         /\ \A i \in 1 .. n : SubSeq(p, 1, n)[i] = p[i]
         /\ Within(SubSeq(p, 1, n), p)
         /\ \A m \in 0 .. n : SubSeq(SubSeq(p, 1, n), 1, m) = SubSeq(p, 1, m)
<1>0. n \in Nat /\ Len(p) \in Nat /\ n <= Len(p)
  BY DEF Path
<1>1. /\ SubSeq(p, 1, n) \in Path /\ Len(SubSeq(p, 1, n)) = n
      /\ \A i \in 1 .. n : SubSeq(p, 1, n)[i] = p[i]
  BY <1>0, SubSeqProperties DEF Path
<1>2. Within(SubSeq(p, 1, n), p)
  BY <1>0, <1>1, WithinPointwise
<1>3. ASSUME NEW m \in 0 .. n
      PROVE  SubSeq(SubSeq(p, 1, n), 1, m) = SubSeq(p, 1, m)
  <2>1. /\ SubSeq(p, 1, m) \in Path /\ Len(SubSeq(p, 1, m)) = m
        /\ \A i \in 1 .. m : SubSeq(p, 1, m)[i] = p[i]
    BY <1>0, SubSeqProperties DEF Path
  <2>2. /\ SubSeq(SubSeq(p, 1, n), 1, m) \in Path
        /\ Len(SubSeq(SubSeq(p, 1, n), 1, m)) = m
        /\ \A i \in 1 .. m : SubSeq(SubSeq(p, 1, n), 1, m)[i] = p[i]
    BY <1>0, <1>1, SubSeqProperties DEF Path
  <2> QED
    BY <2>1, <2>2, SeqEqual DEF Path
<1> QED
  BY <1>1, <1>2, <1>3

(* All but the last component of a path.                                   *)
LEMMA FrontIs ==
  ASSUME NEW p \in Path
  PROVE  /\ p = <<>> => Front(p) = <<>>
         /\ p # <<>> => Front(p) = SubSeq(p, 1, Len(p) - 1)
         /\ Front(p) \in Path
<1>1. p # <<>> => Len(p) - 1 \in 0 .. Len(p)
  BY DEF Path
<1>2. Front(<<>>) = <<>>
  BY DEF Front
<1>3. p # <<>> => Front(p) = SubSeq(p, 1, Len(p) - 1)
  BY DEF Front
<1> QED
  BY <1>1, <1>2, <1>3, Beginnings, DirsArePaths

(* The part of a path below a prefix of a path between.                    *)
LEMMA BelowBetween ==
  ASSUME NEW top \in Path, NEW q \in Path, NEW p \in Path,
         Within(top, q), Within(q, p)
  PROVE  /\ Len(q) - Len(top) \in 0 .. Len(Below(top, p))
         /\ Len(q) <= Len(p) /\ Below(top, p) \in Path
         /\ Below(top, q) = SubSeq(Below(top, p), 1, Len(q) - Len(top))
<1>1. /\ Len(top) <= Len(q) /\ \A i \in 1 .. Len(top) : q[i] = top[i]
      /\ Len(q) <= Len(p) /\ \A i \in 1 .. Len(q) : p[i] = q[i]
  BY WithinPointwise
<1>2. Len(top) \in Nat /\ Len(q) \in Nat /\ Len(p) \in Nat
  BY PathFacts
<1>3. Within(top, p)
  BY <1>1, <1>2, WithinPointwise
<1>4. /\ Below(top, p) \in Path /\ Len(Below(top, p)) = Len(p) - Len(top)
      /\ Below(top, q) \in Path /\ Len(Below(top, q)) = Len(q) - Len(top)
  BY <1>3, WithinBelow
<1>5. Len(q) - Len(top) \in 0 .. Len(Below(top, p))
  BY <1>1, <1>2, <1>4
<1>6. /\ \A i \in 1 .. Len(p) - Len(top) : Below(top, p)[i] = p[i + Len(top)]
      /\ \A i \in 1 .. Len(q) - Len(top) : Below(top, q)[i] = q[i + Len(top)]
  BY <1>1, <1>2 DEF Path, Below
<1>7. /\ SubSeq(Below(top, p), 1, Len(q) - Len(top)) \in Path
      /\ Len(SubSeq(Below(top, p), 1, Len(q) - Len(top))) = Len(q) - Len(top)
      /\ \A i \in 1 .. Len(q) - Len(top) :
           SubSeq(Below(top, p), 1, Len(q) - Len(top))[i] = Below(top, p)[i]
  BY <1>4, <1>5, Beginnings
<1>8. \A i \in 1 .. Len(q) - Len(top) :
        Below(top, q)[i] = SubSeq(Below(top, p), 1, Len(q) - Len(top))[i]
  <2> TAKE i \in 1 .. Len(q) - Len(top)
  <2>1. i \in 1 .. Len(p) - Len(top) /\ i + Len(top) \in 1 .. Len(q)
    BY <1>1, <1>2
  <2> QED
    BY <1>1, <1>6, <1>7, <2>1
<1>9. Below(top, q) = SubSeq(Below(top, p), 1, Len(q) - Len(top))
  BY <1>4, <1>7, <1>8, SeqEqual DEF Path
<1> QED
  BY <1>1, <1>4, <1>5, <1>9

-----------------------------------------------------------------------------

(* A request's path resolves to one in the sandbox's home directory or     *)
(* among the skills.                                                       *)
LEMMA ResolveWithin ==
  ASSUME NEW request \in Path
  PROVE  /\ Resolve(request) \in Path
         /\ Within(Skills, Resolve(request)) \/ Within(Home, Resolve(request))
<1>1. CASE Within(Skills, request) \/ Within(Home, request)
  BY <1>1 DEF Resolve
<1>2. CASE ~(Within(Skills, request) \/ Within(Home, request))
  <2>1. /\ Home \o request \in Path /\ Len(Home \o request) >= 1
        /\ (Home \o request)[1] = "home"
    BY AfterHome, PathFacts
  <2> QED
    BY <1>2, <2>1, PathFacts DEF Resolve
<1> QED
  BY <1>1, <1>2

(* The part of a path below the home directory.                            *)
LEMMA BelowHome ==
  ASSUME NEW path \in Path, Within(Home, path)
  PROVE  /\ Below(Home, path) \in Path
         /\ Home \o Below(Home, path) = path
         /\ Len(Below(Home, path)) = Len(path) - 1
         /\ \A i \in 1 .. Len(path) - 1 : Below(Home, path)[i] = path[i + 1]
<1>0. /\ Below(Home, path) \in Path
      /\ Home \o Below(Home, path) = path
      /\ Len(Below(Home, path)) = Len(path) - Len(Home)
  BY DirsArePaths, WithinBelow
<1>1. Len(Below(Home, path)) = Len(path) - 1
  BY <1>0, DirsArePaths
<1>2. \A i \in 1 .. Len(path) - 1 : Below(Home, path)[i] = path[i + 1]
  BY <1>0, <1>1, AfterHome
<1> QED
  BY <1>0, <1>1, <1>2

(* A path below p in the home directory is one below p after "home".       *)
LEMMA WithinAfterHome ==
  ASSUME NEW p \in Path, NEW path \in Path
  PROVE  Within(Home \o p, path) <=>
           Within(Home, path) /\ Within(p, Below(Home, path))
<1>1. /\ Home \o p \in Path /\ Len(Home \o p) = Len(p) + 1
      /\ (Home \o p)[1] = "home"
      /\ \A i \in 1 .. Len(p) : (Home \o p)[i + 1] = p[i]
  BY AfterHome
<1>2. Len(p) \in Nat /\ Len(path) \in Nat
  BY PathFacts
<1>3. Within(Home \o p, path) <=>
        /\ Len(p) + 1 <= Len(path)
        /\ \A i \in 1 .. Len(p) + 1 : path[i] = (Home \o p)[i]
  BY <1>1, WithinPointwise
<1>4. CASE ~Within(Home, path)
  BY <1>1, <1>2, <1>3, <1>4, PathFacts
<1>5. CASE Within(Home, path)
  <2> DEFINE rest == Below(Home, path)
  <2>1. /\ rest \in Path /\ Len(rest) = Len(path) - 1
        /\ \A i \in 1 .. Len(path) - 1 : rest[i] = path[i + 1]
    BY <1>5, BelowHome
  <2>2. Len(path) >= 1 /\ path[1] = "home"
    BY <1>5, PathFacts
  <2>3. Within(p, rest) <=>
          Len(p) <= Len(rest) /\ \A i \in 1 .. Len(p) : rest[i] = p[i]
    BY <2>1, WithinPointwise
  <2> HIDE DEF rest
  <2>4. ASSUME Within(Home \o p, path)  PROVE Within(p, rest)
    BY <1>1, <1>2, <1>3, <2>1, <2>3, <2>4
  <2>5. ASSUME Within(p, rest)  PROVE Within(Home \o p, path)
    <3>1. \A i \in 2 .. Len(p) + 1 : path[i] = (Home \o p)[i]
      <4> SUFFICES ASSUME NEW i \in 2 .. Len(p) + 1
                   PROVE  path[i] = (Home \o p)[i]
        OBVIOUS
      <4>1. i - 1 \in 1 .. Len(p) /\ i = (i - 1) + 1
        BY <1>2
      <4> QED
        BY <1>1, <1>2, <2>1, <2>3, <2>5, <4>1
    <3> QED
      BY <1>1, <1>2, <1>3, <2>1, <2>2, <2>3, <2>5, <3>1
  <2> QED
    BY <1>5, <2>4, <2>5 DEF rest
<1> QED
  BY <1>4, <1>5

(* What a search finds below the path it was asked for is shown as a path  *)
(* that leads back to it (file.go:122-141, 965-1003), unless it is below a *)
(* "home" or an "agents/skills" in the home directory.                     *)
THEOREM ShownLeadsBack ==
  ASSUME NEW asked \in Path, NEW path \in Path, Within(Resolve(asked), path)
  PROVE  Resolve(Display(Resolve(asked), path)) = path <=> ~Misleading(path)
<1> DEFINE at == Resolve(asked)
<1>1. at \in Path /\ (Within(Skills, at) \/ Within(Home, at))
  BY ResolveWithin
<1>2. /\ Within(Skills, at) => Within(Skills, path)
      /\ Within(Project, at) => Within(Project, path)
      /\ Within(Home, at) => Within(Home, path)
  <2>1. Len(at) <= Len(path) /\ \A i \in 1 .. Len(at) : path[i] = at[i]
    BY <1>1, WithinPointwise
  <2> HIDE DEF at
  <2>2. /\ Len(at) >= 1 => path[1] = at[1]
        /\ Len(at) >= 2 => path[2] = at[2]
    BY <1>1, <2>1, PathFacts
  <2> QED
    BY <1>1, <2>1, <2>2, PathFacts
<1>3. Misleading(path) <=>
        /\ Within(Home, path)
        /\ Within(Home, Below(Home, path)) \/ Within(Skills, Below(Home, path))
  BY DirsArePaths, WithinAfterHome DEF Misleading
<1>0. Skills # Home /\ Project # Home
  BY DirsArePaths
<1> HIDE DEF at
<1>4. CASE Within(Skills, at)
  <2>1. DisplayRoot(at) = Skills
    BY <1>1, <1>4, PathFacts DEF DisplayRoot
  <2>2. Display(at, path) = path
    BY <1>0, <1>2, <1>4, <2>1, DirsArePaths, WithinBelow DEF Display
  <2>3. Resolve(path) = path /\ ~Within(Home, path)
    BY <1>2, <1>4, PathFacts DEF Resolve
  <2> QED
    BY <1>3, <2>2, <2>3 DEF at
<1>5. CASE Within(Project, at)
  <2>1. Within(Project, path) /\ Within(Home, path) /\ ~Within(Skills, at)
    BY <1>1, <1>2, <1>5, PathFacts
  <2>2. DisplayRoot(at) = Project
    BY <1>5, <2>1 DEF DisplayRoot
  <2>3. Display(at, path) = path
    BY <1>0, <2>1, <2>2, DirsArePaths, WithinBelow DEF Display
  <2>4. Resolve(path) = path
    BY <2>1 DEF Resolve
  <2>5. /\ Below(Home, path) \in Path
        /\ Len(Below(Home, path)) >= 1 /\ Below(Home, path)[1] = "project"
    BY <2>1, BelowHome, PathFacts
  <2>6. ~Misleading(path)
    BY <1>3, <2>5, PathFacts
  <2> QED
    BY <2>3, <2>4, <2>6 DEF at
<1>6. CASE ~Within(Skills, at) /\ ~Within(Project, at)
  <2> DEFINE rest == Below(Home, path)
  <2>1. DisplayRoot(at) = Home /\ Within(Home, path)
    BY <1>1, <1>2, <1>6 DEF DisplayRoot
  <2>2. /\ Display(at, path) = rest /\ rest \in Path
        /\ Home \o rest = path /\ Len(rest) = Len(path) - 1
    BY <2>1, BelowHome DEF Display
  <2>3. rest # path
    BY <2>2, PathFacts
  <2> QED
    BY <1>3, <2>1, <2>2, <2>3 DEF Resolve, at
<1> QED
  BY <1>4, <1>5, <1>6

(* So what TLC checks for short paths holds for them, too.                 *)
LEMMA SomeArePaths ==
  ASSUME NEW path \in SomePaths
  PROVE  path \in Path
<1>1. PICK n \in 0 .. 4 : path \in [1 .. n -> Names]
  BY DEF SomePaths
<1>2. path \in Seq(Names)
  BY <1>1, SeqDef
<1> QED
  BY <1>2, SeqMonotonic DEF Path

(* PathsAgree, as an instance (util.go:236-296, bwrap.go:75-132).          *)
THEOREM PathsAlwaysAgree == PathsAgree
BY SomeArePaths, ResolveWithin, HostPathIsMounted DEF PathsAgree

(* ShownPathsLead, as an instance (file.go:122-141, 965-1003).             *)
THEOREM ShownPathsAlwaysLead == ShownPathsLead
BY SomeArePaths, ShownLeadsBack DEF ShownPathsLead
=============================================================================
