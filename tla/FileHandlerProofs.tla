-------------------------- MODULE FileHandlerProofs -------------------------
(***************************************************************************)
(* Theorems about FileHandler, for any requests, mounts and files.         *)
(***************************************************************************)
EXTENDS FileHandler, SandboxPathsProofs, FiniteSetTheorems

(* The paths that requests work on.                                        *)
Shown == Places \cup AskedPaths

Jobs == [op : Ops, at : AskedPaths, roots : Mounts, limit : Nat,
         id : 1 .. MaxRequests]

(* The variables have their types.  A location, a list of files and a list *)
(* of numbers of lines are any, but of the right kind.                     *)
ShapeInv ==
  /\ inode \in [Locations -> Nat] /\ \A l \in Locations : inode[l] <= Len(data)
  /\ data \in Seq(Seq(Blocks))
  /\ pc \in [Slots -> Steps]
  /\ job \in [Slots -> Jobs \cup {NoJob}]
  /\ file \in [Slots -> Shown \cup {<<>>}]
  /\ fd \in [Slots -> Nat]
  /\ buffer \in [Slots -> Seq(Blocks)]
  /\ pos \in [Slots -> Nat]
  /\ todo \in [Slots -> SUBSET Places]
  /\ found \in [Slots -> SUBSET (Places \X Nat)]
  /\ begun \in 0 .. MaxRequests
  /\ alone \subseteq Slots /\ safe \subseteq Slots /\ vanished \subseteq Slots
  /\ ideal \in [Locations -> Seq(Blocks) \cup {None, Unknown}]
  /\ appended \in [Locations -> SUBSET (1 .. MaxRequests)]
  /\ steady \in [Slots -> SUBSET Places]

(* The steps at which a request of an operation can be.                    *)
StepsOf(op) ==
  CASE op = "read" -> {"open read", "read", "answer"}
    [] op = "download" -> {"stat", "open read", "read", "answer"}
    [] op = "replace" -> {"open read", "read", "open write", "write", "chmod"}
    [] op = "write" -> {"open write", "write", "chmod"}
    [] op = "upload" -> {"open write", "write"}
    [] op = "append" -> {"touch", "chmod append", "open append", "append"}
    [] op = "list" -> {"list", "stat entries", "answer"}
    [] op \in {"tree", "find", "glob"} -> {"walk", "answer"}
    [] op = "grep" -> {"walk", "next file", "open read", "read", "answer"}
    [] op = "exec" -> {"make dir", "run"}
    [] OTHER -> {"idle"}

(* What a request has at each of its steps.                                *)
StageOf(s) ==
  /\ pc[s] \in StepsOf(job[s].op)
  /\ pc[s] # "idle" => file[s] \in Shown
  /\ pc[s] \in {"read", "write", "append"} => fd[s] \in 1 .. Len(data)
  /\ pos[s] <= Len(buffer[s])
  /\ pc[s] \in {"write", "append"} => pos[s] < Len(buffer[s])
  /\ pc[s] \notin {"write", "chmod", "append"} => pos[s] = 0
  /\ job[s].op \in {"write", "upload"} => buffer[s] = <<job[s].id, Text>>
  /\ job[s].op = "append" => buffer[s] = <<job[s].id, job[s].id>>
  /\ pc[s] = "open write" => Len(buffer[s]) > 0
  /\ job[s].op \in Limited => job[s].limit > 0
  /\ job[s].op # "grep" => file[s] = job[s].at

StageInv == \A s \in Slots : StageOf(s)

(* Nothing in a file, or in what was read of it, is of a request later     *)
(* than the n-th.                                                          *)
KnownTo(n, content) == \A k \in DOMAIN content : content[k] <= n

(* Requests have numbers of their own, and only those that began wrote.    *)
IdInv ==
  /\ \A s \in Slots : pc[s] # "idle" => job[s].id <= begun
  /\ \A s, t \in Slots :
       pc[s] # "idle" /\ pc[t] # "idle" /\ s # t => job[s].id # job[t].id
  /\ \A i \in DOMAIN data : KnownTo(begun, data[i])
  /\ \A s \in Slots : KnownTo(begun, buffer[s])

(* Files at two locations are two files; and a request has open the file   *)
(* of its own location, or one that was removed.                           *)
InodeInv ==
  /\ \A l, m \in Locations : inode[l] # 0 /\ inode[l] = inode[m] => l = m
  /\ \A s \in Slots : pc[s] \in {"read", "write", "append"} =>
       \A l \in Locations : inode[l] = fd[s] => l = At(s)

(* A command that runs has its directory.                                  *)
DirInv ==
  \A s \in Slots : pc[s] = "run" => Where[job[s].roots][job[s].at] \in dirs

(* A search finds, and has still to look at, only what is below the        *)
(* directory that it searches.                                             *)
FoundOf(s) ==
  /\ \A e \in found[s] : Within(job[s].at, e[1])
  /\ \A p \in todo[s] : Within(job[s].at, p)
  /\ job[s].op = "grep" /\ pc[s] \in {"open read", "read"} =>
       file[s] \in Places /\ Within(job[s].at, file[s])
  /\ IsFiniteSet(found[s])
  /\ pc[s] \in {"idle", "list", "walk"} => found[s] = {} /\ todo[s] = {}

FoundInv == \A s \in Slots : FoundOf(s)

(* What a request has read is the beginning of the file.                   *)
ReadsOf(s) ==
  /\ fd[s] = inode[At(s)]
  /\ Len(buffer[s]) <= Len(data[fd[s]])
  /\ \A i \in 1 .. Len(buffer[s]) : buffer[s][i] = data[fd[s]][i]

(* An append that was answered is in the file; one whose file nobody has   *)
(* overwritten has written to it as many blocks as it knows of.            *)
Times(content, id) == Cardinality({i \in DOMAIN content : content[i] = id})

KeptAt(l, id) ==
  /\ Overwriters(l) = {}
  /\ inode[l] # 0 /\ Times(data[inode[l]], id) = 2
  /\ id <= begun /\ \A s \in Slots : pc[s] # "idle" => job[s].id # id

SafeOf(s) ==
  /\ job[s].op = "append" /\ Overwriters(At(s)) = {}
  /\ pc[s] = "append" =>
       inode[At(s)] = fd[s] /\ Times(data[fd[s]], job[s].id) = pos[s]
  /\ pc[s] # "append" /\ inode[At(s)] # 0 =>
       Times(data[inode[At(s)]], job[s].id) = 0

AppendInv ==
  /\ \A l \in Locations : \A id \in appended[l] : KeptAt(l, id)
  /\ \A s \in safe : SafeOf(s)

(* A writer that has not touched its file; what an append that began then  *)
(* adds to.                                                                *)
Clean(w) == pc[w] \in {"open read", "read", "open write", "touch"}
Base(l) == IF ideal[l] = None THEN <<>> ELSE ideal[l]

(* A file that no writer has touched is as it would be had requests been   *)
(* atomic.  While a writer that has is under way and its file is gone,     *)
(* nothing is promised.                                                    *)
SerialInv ==
  /\ \A l \in Locations :
       ideal[l] # Unknown /\ (\A w \in Writers(l) : Clean(w)) =>
         Content(l) = ideal[l]
  /\ \A w \in Slots :
       job[w].op \in Writing /\ ~Clean(w) /\ inode[At(w)] = 0 =>
         ideal[At(w)] = Unknown

(* A request that nobody disturbs knows how much of its work is in the     *)
(* file.                                                                   *)
AloneOf(w) ==
  /\ job[w].op \in Writing \cup Reading /\ Writers(At(w)) \subseteq {w}
  /\ pc[w] = "read" => ReadsOf(w)
  /\ pc[w] = "write" =>
       /\ inode[At(w)] = fd[w] /\ Len(data[fd[w]]) = pos[w]
       /\ \A i \in 1 .. pos[w] : data[fd[w]][i] = buffer[w][i]
  /\ pc[w] = "chmod" => inode[At(w)] # 0 /\ data[inode[At(w)]] = buffer[w]
  /\ ideal[At(w)] # Unknown =>
       /\ pc[w] = "answer" => buffer[w] = ideal[At(w)]
       /\ pc[w] \in {"open write", "write", "chmod"}
           /\ job[w].op = "replace" =>
            ideal[At(w)] # None /\ buffer[w] = Effect(w, ideal[At(w)])
       /\ pc[w] \in {"chmod append", "open append"} =>
            inode[At(w)] # 0 /\ data[inode[At(w)]] = Base(At(w))
       /\ pc[w] = "append" =>
            /\ inode[At(w)] = fd[w]
            /\ data[fd[w]] = Base(At(w)) \o SubSeq(buffer[w], 1, pos[w])

AloneInv == \A w \in alone : AloneOf(w)

(* The directory and its parents up to that of a file, or of a directory.  *)
Above(l) == Ancestors(Location(l.dir, Front(l.rest)))

(* Directories have parents, up to those that are mounted; and a file that *)
(* is there, or is about to be, is in one.                                 *)
TreeInv ==
  /\ \A d \in Dirs : Location(d, <<>>) \in dirs
  /\ \A d \in {"session", "workspace"} : Location(d, Home) \in dirs
  /\ \A d \in dirs : Ancestors(d) \subseteq dirs
  /\ \A l \in Locations : inode[l] # 0 => Above(l) \subseteq dirs
  /\ \A s \in Slots : pc[s] \in {"chmod append", "open append"} =>
       Above(At(s)) \subseteq dirs

(* A file that a search is to report is there, and for grep has the text   *)
(* and nobody writes it.                                                   *)
Place(s, p) == Where[job[s].roots][p]

Stands(s, p) ==
  /\ job[s].op \in Searching /\ InScope(job[s].op, job[s].at, p) /\ Plain(p)
  /\ inode[Place(s, p)] # 0
  /\ job[s].op = "grep" => /\ Writers(Place(s, p)) = {}
                           /\ Holds(data[inode[Place(s, p)]], Text)

(* The search has it among the files that it has still to look at, or is   *)
(* looking at it, or has found it.                                         *)
FoundPath(s, p) == \E e \in found[s] : e[1] = p

Pursued(s, p) ==
  /\ pc[s] = "stat entries" => p \in todo[s] \/ FoundPath(s, p)
  /\ pc[s] \in {"next file", "open read", "read"} /\ ~Truncated(s) =>
       p \in todo[s] \/ FoundPath(s, p) \/ (pc[s] # "next file" /\ file[s] = p)
  /\ job[s].op = "grep" /\ pc[s] = "read" /\ file[s] = p => ReadsOf(s)
  /\ pc[s] = "answer" /\ s \notin vanished /\ ~Truncated(s) => FoundPath(s, p)

SteadyOf(s) ==
  /\ job[s].op = "grep" /\ pc[s] \in {"open read", "read"} => ~Truncated(s)
  /\ \A p \in steady[s] : Stands(s, p) /\ Pursued(s, p)

SteadyInv == \A s \in Slots : SteadyOf(s)

(* The steps of a request, sorted by what they do.  Requests of all kinds  *)
(* begin alike; what fails is dropped; some go on without a word.          *)
Asked == FileRequests \cup DirRequests \cup WorkingDirs

Begins(s) ==
  \E op \in Ops, request \in Asked, roots \in Mounts, limit \in Nat :
    Begin(s, op, request, roots, limit) /\ (op \in Limited => limit > 0)

Dropped(s) ==
  /\ Fails(s) /\ pc[s] # "idle"
  /\ job[s].op \in Writing => Clean(s) \/ inode[At(s)] = 0

Moved(s) ==
  /\ UNCHANGED <<disk, job, work, begun, faults, ghosts>>
  /\ \/ pc[s] = "stat" /\ Go(s, "open read")
     \/ /\ pc[s] = "open read" /\ job[s].op = "grep" /\ inode[At(s)] = 0
        /\ Go(s, "next file")
     \/ (AtEnd(s, "read") \/ AtEnd(s, "download")) /\ Go(s, "answer")
     \/ pc[s] = "chmod append" /\ inode[At(s)] # 0 /\ Go(s, "open append")
     \/ pc[s] = "stat entries" /\ todo[s] = {} /\ Go(s, "answer")
     \/ /\ pc[s] \in {"list", "walk"} /\ (s \in vanished \/ ~IsThere(s))
        /\ Go(s, "answer")

Finished(s) ==
  pc[s] = "chmod" /\ inode[At(s)] # 0 /\ Written(s) /\ UNCHANGED disk

Touched(s) ==
  /\ pc[s] = "touch" /\ Go(s, "chmod append")
  /\ UNCHANGED <<dirs, job, work, begun, faults, ghosts>>
  /\ \/ /\ inode[At(s)] = 0 /\ Created(At(s))
        /\ Mounted(job[s].roots, Front(file[s])) \in dirs
     \/ inode[At(s)] # 0 /\ UNCHANGED <<inode, data>>

MadeDir(s) ==
  LET dir == HostPath(job[s].roots, job[s].at) IN
  /\ pc[s] = "make dir" /\ Go(s, "run")
  /\ \/ Within(Skills, job[s].at) /\ dir \in dirs /\ UNCHANGED dirs
     \/ ~Within(Skills, job[s].at) /\ dirs' = dirs \cup Ancestors(dir)
  /\ UNCHANGED <<inode, data, job, work, begun, faults, ghosts>>

Kinds(s) ==
  \/ Begins(s) \/ Cancel(s) \/ Dropped(s) \/ Moved(s) \/ OpenRead(s)
  \/ ReadBlock(s) \/ ReplaceMatches(s) \/ ReplaceFindsNothing(s)
  \/ GrepMatches(s) \/ OpenWrite(s) \/ WriteBlock(s) \/ Finished(s)
  \/ Touched(s) \/ OpenAppend(s) \/ AppendBlock(s) \/ ReadDir(s)
  \/ StatEntry(s) \/ Walk(s) \/ NextFile(s) \/ MadeDir(s)
  \/ \E p \in Places : RunRemoves(s, p)

-----------------------------------------------------------------------------

(* What begins was idle.                                                   *)
LEMMA BeginsIdle ==
  ASSUME NEW s \in Slots, Begins(s)
  PROVE  pc[s] = "idle"
<1>1. \A op, request, roots, limit :
        Begin(s, op, request, roots, limit) => pc[s] = "idle"
  BY DEF Begin
<1> QED
  BY <1>1 DEF Begins

(* Every request begins in the same way.                                   *)
LEMMA RequestBegins ==
  ASSUME NEW s \in Slots, Request(s)
  PROVE  Begins(s)
<1>0. /\ Limits \subseteq Nat \ {0} /\ 0 \in Nat
      /\ FileRequests \subseteq Asked /\ DirRequests \subseteq Asked
      /\ WorkingDirs \subseteq Asked
  BY FileAssumption DEF Asked
<1>1. ASSUME NEW op \in Ops \ Limited, BeginFileRequest(s, op)
      PROVE  Begins(s)
  BY <1>0, <1>1 DEF BeginFileRequest, Begins
<1>2. ASSUME NEW op \in Ops \ Limited, BeginSearch(s, op, {0})
      PROVE  Begins(s)
  BY <1>0, <1>2 DEF BeginSearch, Begins
<1>3. ASSUME NEW op \in Ops, BeginSearch(s, op, Limits)
      PROVE  Begins(s)
  BY <1>0, <1>3 DEF BeginSearch, Begins
<1>4. ASSUME Command(s)
      PROVE  Begins(s)
  BY <1>0, <1>4 DEF Command, Begins, Ops, Limited
<1>5. /\ {"read", "write", "append", "replace", "upload", "download", "list",
         "tree", "find"} \subseteq Ops \ Limited
      /\ {"glob", "grep"} \subseteq Ops
  BY DEF Ops, Writing, Overwriting, Reading, Searching, Limited
<1> QED
  BY <1>1, <1>2, <1>3, <1>4, <1>5 DEF Request, ReadRequest, WriteRequest,
     ReplaceRequest, UploadRequest, DownloadRequest, ListRequest, FindRequest,
     GrepRequest, GlobRequest

(* A writer that fails is as one that is killed there.                     *)
LEMMA FailsLikeKilled ==
  ASSUME StageInv, NEW s \in Slots, WriteFails(s)
  PROVE  Cancel(s)
<1>1. pc[s] \in StepsOf(job[s].op)
  BY DEF StageInv, StageOf
<1>2. job[s].op # "exec"
  BY <1>1 DEF StepsOf, WriteFails
<1> QED
  BY <1>2 DEF WriteFails, Cancel

(* What a search looks at is what is in its scope.                         *)
LEMMA ScopeIs ==
  ASSUME NEW op \in Searching, NEW at \in AskedPaths
  PROVE  Scope[op][at] = {p \in Places : InScope(op, at, p)}
BY DEF Scope

(* Every step of a request is one of these.                                *)
LEMMA NextCases ==
  ASSUME StageInv, Next
  PROVE  \E s \in Slots : Kinds(s)
<1> SUFFICES ASSUME NEW s \in Slots,
                    \/ Request(s) \/ Cancel(s) \/ WriteFails(s) \/ Answer(s)
                    \/ Read(s) \/ Write(s) \/ Search(s)
                    \/ MakeDir(s) \/ RunEnds(s)
                    \/ \E p \in Places : RunRemoves(s, p)
             PROVE  Kinds(s)
  BY DEF Next
<1>1. CASE Request(s)
  BY <1>1, RequestBegins DEF Kinds
<1>01. CASE WriteFails(s)
  BY <1>01, FailsLikeKilled DEF Kinds
<1>2. /\ pc[s] \in StepsOf(job[s].op)
      /\ pc[s] \in {"answer", "run", "make dir", "stat", "walk"} =>
           job[s].op \notin Writing
      /\ pc[s] \in {"open read", "touch"} => Clean(s)
  BY DEF StageInv, StageOf, StepsOf, Writing, Overwriting, Clean
<1>3. CASE Answer(s) \/ RunEnds(s)
  BY <1>2, <1>3 DEF Answer, RunEnds, Dropped, Kinds
<1>4. CASE MakeDir(s)
  BY <1>2, <1>4 DEF MakeDir, Dropped, MadeDir, Kinds
<1>5. CASE Read(s)
  <2>1. CASE Stat(s)
    BY <1>2, <2>1 DEF Stat, Dropped, Moved, Kinds
  <2>2. CASE OpenReadFails(s)
    BY <1>2, <2>2 DEF OpenReadFails, Dropped, Moved, Kinds
  <2>3. CASE ReadEnds(s)
    BY <1>2, <2>3 DEF ReadEnds, Moved, Kinds
  <2> QED
    BY <1>5, <2>1, <2>2, <2>3 DEF Read, Kinds
<1>6. CASE Write(s)
  <2>1. CASE Chmod(s)
    BY <2>1 DEF Chmod, Dropped, Finished, Kinds
  <2>2. CASE Touch(s)
    BY <1>2, <2>2 DEF Touch, Dropped, Touched, Kinds
  <2>3. CASE ChmodAppend(s)
    BY <2>3 DEF ChmodAppend, Dropped, Moved, Kinds
  <2> QED
    BY <1>6, <2>1, <2>2, <2>3 DEF Write, Kinds
<1>7. CASE Search(s)
  <2>1. CASE ListEnds(s)
    BY <2>1 DEF ListEnds, Moved, Kinds
  <2>2. CASE FindFails(s)
    <3>1. CASE job[s].op = "glob"
      BY <2>2, <3>1 DEF FindFails, Dropped, Kinds, Writing, Overwriting
    <3>2. CASE job[s].op # "glob"
      BY <2>2, <3>2 DEF FindFails, Moved, Kinds
    <3> QED
      BY <3>1, <3>2
  <2> QED
    BY <1>7, <2>1, <2>2 DEF Search, Kinds
<1> QED
  BY <1>1, <1>01, <1>3, <1>4, <1>5, <1>6, <1>7 DEF Kinds

-----------------------------------------------------------------------------

(* What is asked for, and what is found, are paths; what is asked for lies *)
(* in the home directory or among the skills; and each mount gives every   *)
(* path its location.                                                      *)
LEMMA PlacesOK ==
  /\ AskedPaths \subseteq Path /\ Places \subseteq Path
  /\ \A p \in AskedPaths : Within(Skills, p) \/ Within(Home, p)
  /\ \A p \in AskedPaths : \E q \in Path : p = Resolve(q)
  /\ \A request \in Asked : Resolve(request) \in AskedPaths
  /\ \A m \in Mounts : m \in Roots /\ \A p \in Shown :
       Where[m][p] \in Locations /\ Where[m][p] = Mounted(m, p)
<1>1. \A p \in Asked \cup Places : p \in Path
  BY FileAssumption, SeqMonotonic DEF Asked, Path
<1>2. AskedPaths = {Resolve(p) : p \in Asked}
  BY DEF AskedPaths, Asked
<1>3. \A m \in Mounts : m \in Roots /\ \A p \in Shown :
        Where[m][p] \in Locations /\ Where[m][p] = Mounted(m, p)
  BY FileAssumption DEF Where, Locations, Shown
<1>4. \A p \in AskedPaths :
        p \in Path /\ (Within(Skills, p) \/ Within(Home, p))
  BY <1>1, <1>2, ResolveWithin
<1> QED
  BY <1>1, <1>2, <1>3, <1>4

(* A request that is not over has a job, and works on a file.              *)
LEMMA Busy ==
  ASSUME ShapeInv, StageInv, NEW s \in Slots
  PROVE  /\ pc[s] = "idle" <=> job[s] = NoJob
         /\ pc[s] = "idle" <=> job[s].op \notin Ops
         /\ pc[s] # "idle" =>
              /\ job[s] \in Jobs /\ file[s] \in Shown
              /\ job[s].roots \in Mounts /\ job[s].at \in AskedPaths
              /\ At(s) \in Locations
<1>1. job[s] \in Jobs \cup {NoJob} /\ pc[s] \in StepsOf(job[s].op)
      /\ (pc[s] # "idle" => file[s] \in Shown)
  BY DEF ShapeInv, StageInv, StageOf
<1>2. job[s] = NoJob => job[s].op \notin Ops /\ pc[s] = "idle"
  BY <1>1 DEF NoJob, Ops, Writing, Overwriting, Reading, Searching, StepsOf
<1>3. job[s] \in Jobs => job[s].op \in Ops /\ pc[s] # "idle"
  BY <1>1 DEF Jobs, Ops, Writing, Overwriting, Reading, Searching, StepsOf
<1>4. job[s] \in Jobs => job[s].roots \in Mounts /\ job[s].at \in AskedPaths
  BY DEF Jobs
<1> QED
  BY <1>1, <1>2, <1>3, <1>4, PlacesOK DEF At

(* A search sees what is in its scope.                                     *)
LEMMA SeenIsThere ==
  ASSUME ShapeInv, StageInv, NEW s \in Slots, pc[s] \in {"list", "walk"}
  PROVE  /\ job[s].op \in Searching /\ Seen(s) \subseteq Places
         /\ \A p \in Seen(s) : Within(job[s].at, p)
<1>1. job[s].op \in Searching
  BY DEF StageInv, StageOf, StepsOf, Searching
<1>2. job[s].at \in AskedPaths
  BY Busy
<1>3. Scope[job[s].op][job[s].at] =
        {p \in Places : InScope(job[s].op, job[s].at, p)}
  BY <1>1, <1>2, ScopeIs
<1>4. Seen(s) \subseteq Scope[job[s].op][job[s].at]
  BY DEF Seen
<1> QED
  BY <1>1, <1>3, <1>4 DEF InScope

(* What requests write are sequences of blocks.                            *)
LEMMA BlocksOK ==
  /\ Text \in Blocks /\ Hole \in Blocks /\ 1 .. MaxRequests \subseteq Blocks
  /\ \A a, b \in Blocks : <<a, b>> \in Seq(Blocks)
  /\ <<>> \in Seq(Blocks) /\ MaxRequests \in Nat
BY FileAssumption DEF Blocks

(* The content of a file of which one block was written: it is as long as  *)
(* it was, or ends with that block.                                        *)
LEMMA PutOK ==
  ASSUME NEW content \in Seq(Blocks), NEW n \in Nat \ {0}, NEW block \in Blocks
  PROVE  /\ Put(content, n, block) \in Seq(Blocks)
         /\ Len(Put(content, n, block)) =
              IF n > Len(content) THEN n ELSE Len(content)
         /\ \A i \in 1 .. Len(Put(content, n, block)) :
              Put(content, n, block)[i] =
                IF i = n THEN block
                ELSE IF i <= Len(content) THEN content[i] ELSE Hole
<1> DEFINE k == IF n > Len(content) THEN n ELSE Len(content)
<1>1. k \in Nat
  OBVIOUS
<1>2. Put(content, n, block) \in [1 .. k -> Blocks]
  BY <1>1, BlocksOK DEF Put
<1>3. Put(content, n, block) \in Seq(Blocks) /\ Len(Put(content, n, block)) = k
  BY <1>1, <1>2, SeqDef
<1> QED
  BY <1>1, <1>3 DEF Put

(* What a request has open is a file; what it writes next, a block.        *)
LEMMA Opened ==
  ASSUME ShapeInv, StageInv, NEW s \in Slots,
         pc[s] \in {"read", "write", "append"}
  PROVE  /\ fd[s] \in 1 .. Len(data) /\ data[fd[s]] \in Seq(Blocks)
         /\ buffer[s] \in Seq(Blocks)
         /\ pc[s] # "read" => /\ pos[s] + 1 \in 1 .. Len(buffer[s])
                              /\ buffer[s][pos[s] + 1] \in Blocks
<1>1. fd[s] \in 1 .. Len(data) /\ (pc[s] # "read" => pos[s] < Len(buffer[s]))
  BY DEF StageInv, StageOf
<1>2. buffer[s] \in Seq(Blocks) /\ pos[s] \in Nat /\ data \in Seq(Seq(Blocks))
  BY DEF ShapeInv
<1> QED
  BY <1>1, <1>2

(* A created file is new and empty.                                        *)
LEMMA CreatedOK ==
  ASSUME ShapeInv, NEW loc \in Locations, Created(loc)
  PROVE  /\ data' \in Seq(Seq(Blocks)) /\ Len(data') = Len(data) + 1
         /\ data'[Len(data) + 1] = <<>>
         /\ \A i \in 1 .. Len(data) : data'[i] = data[i]
         /\ inode' \in [Locations -> Nat] /\ inode'[loc] = Len(data) + 1
         /\ \A l \in Locations \ {loc} : inode'[l] = inode[l]
         /\ \A l \in Locations : inode'[l] <= Len(data')
<1>1. /\ data \in Seq(Seq(Blocks)) /\ Len(data) \in Nat
      /\ inode \in [Locations -> Nat]
      /\ \A l \in Locations : inode[l] <= Len(data)
  BY DEF ShapeInv
<1>2. /\ data' = Append(data, <<>>)
      /\ inode' = [inode EXCEPT ![loc] = Len(data) + 1]
  BY DEF Created
<1>3. <<>> \in Seq(Blocks)
  BY BlocksOK
<1>4. /\ data' \in Seq(Seq(Blocks)) /\ Len(data') = Len(data) + 1
      /\ data'[Len(data) + 1] = <<>>
      /\ \A i \in 1 .. Len(data) : data'[i] = data[i]
  BY <1>1, <1>2, <1>3, AppendProperties
<1>5. /\ inode' \in [Locations -> Nat] /\ inode'[loc] = Len(data) + 1
      /\ \A l \in Locations \ {loc} : inode'[l] = inode[l]
  BY <1>1, <1>2
<1>6. \A l \in Locations : inode'[l] <= Len(data')
  <2> TAKE l \in Locations
  <2>1. CASE l = loc
    BY <1>1, <1>4, <1>5, <2>1
  <2>2. CASE l # loc
    <3>1. inode'[l] = inode[l] /\ inode[l] <= Len(data) /\ inode[l] \in Nat
      BY <1>1, <1>5, <2>2
    <3> QED
      BY <1>1, <1>4, <3>1
  <2> QED
    BY <2>1, <2>2
<1> QED
  BY <1>4, <1>5, <1>6

(* When a request is over, nothing of it is left.                          *)
LEMMA OverShape ==
  ASSUME ShapeInv, NEW s \in Slots, Over(s)
  PROVE  /\ pc' \in [Slots -> Steps] /\ job' \in [Slots -> Jobs \cup {NoJob}]
         /\ file' \in [Slots -> Shown \cup {<<>>}] /\ fd' \in [Slots -> Nat]
         /\ buffer' \in [Slots -> Seq(Blocks)] /\ pos' \in [Slots -> Nat]
         /\ todo' \in [Slots -> SUBSET Places]
         /\ found' \in [Slots -> SUBSET (Places \X Nat)]
         /\ alone' \subseteq Slots /\ safe' \subseteq Slots
         /\ vanished' \subseteq Slots /\ steady' \in [Slots -> SUBSET Places]
<1>1. pc' \in [Slots -> Steps] /\ job' \in [Slots -> Jobs \cup {NoJob}]
  BY DEF ShapeInv, Over, Go, Steps
<1>2. file' \in [Slots -> Shown \cup {<<>>}] /\ fd' \in [Slots -> Nat]
  BY DEF ShapeInv, Over
<1>3. buffer' \in [Slots -> Seq(Blocks)] /\ pos' \in [Slots -> Nat]
  BY BlocksOK DEF ShapeInv, Over
<1>4. todo' \in [Slots -> SUBSET Places]
      /\ found' \in [Slots -> SUBSET (Places \X Nat)]
  BY DEF ShapeInv, Over
<1>5. /\ alone' \subseteq Slots /\ safe' \subseteq Slots
      /\ vanished' \subseteq Slots /\ steady' \in [Slots -> SUBSET Places]
  BY DEF ShapeInv, Over
<1> QED
  BY <1>1, <1>2, <1>3, <1>4, <1>5

(* The effect of a request on a content is a content, if it is known.      *)
LEMMA EffectOK ==
  ASSUME ShapeInv, NEW s \in Slots, job[s].id \in 1 .. MaxRequests,
         NEW before \in Seq(Blocks) \cup {None, Unknown}
  PROVE  Effect(s, before) \in Seq(Blocks) \cup {None, Unknown}
<1>1. <<job[s].id, Text>> \in Seq(Blocks)
  BY BlocksOK
<1>2. /\ before \in Seq(Blocks) => before \o buffer[s] \in Seq(Blocks)
      /\ <<>> \o buffer[s] \in Seq(Blocks)
  BY BlocksOK, ConcatProperties DEF ShapeInv
<1>3. before \in Seq(Blocks) =>
        [i \in DOMAIN before |->
           IF before[i] = Text THEN job[s].id ELSE before[i]] \in Seq(Blocks)
  BY BlocksOK
<1>4. CASE job[s].op = "append" /\ before # Unknown
  BY <1>2, <1>4 DEF Effect
<1>5. CASE job[s].op = "replace" /\ before \notin {None, Unknown}
  BY <1>3, <1>5 DEF Effect
<1>6. CASE job[s].op \in {"write", "upload"}
  BY <1>1, <1>6 DEF Effect
<1>7. CASE /\ ~(job[s].op = "append" /\ before # Unknown)
           /\ ~(job[s].op = "replace" /\ before \notin {None, Unknown})
           /\ job[s].op \notin {"write", "upload"}
  BY <1>7 DEF Effect
<1> QED
  BY <1>4, <1>5, <1>6, <1>7

(* Whatever a request does, the state keeps its shape.                     *)
LEMMA ShapeNext ==
  ASSUME ShapeInv, StageInv, FoundInv, [Next]_vars
  PROVE  ShapeInv'
<1>0. pc \in [Slots -> Steps] /\ todo \in [Slots -> SUBSET Places]
  BY DEF ShapeInv
<1>1. ASSUME NEW s \in Slots, NEW op \in Ops, NEW request \in Asked,
             NEW roots \in Mounts, NEW limit \in Nat,
             Begin(s, op, request, roots, limit)
      PROVE  ShapeInv'
  <2>1. /\ Resolve(request) \in AskedPaths /\ begun + 1 \in 1 .. MaxRequests
        /\ begun + 1 \in Nat /\ FirstStep(op) \in Steps
    <3>1. Resolve(request) \in AskedPaths
      BY PlacesOK
    <3>2. begun + 1 \in 1 .. MaxRequests /\ begun + 1 \in Nat
      BY <1>1, BlocksOK DEF Begin, ShapeInv
    <3>3. FirstStep(op) \in Steps
      BY DEF FirstStep, Steps, Ops, Writing, Overwriting, Reading, Searching
    <3> QED
      BY <3>1, <3>2, <3>3
  <2>2. job' \in [Slots -> Jobs \cup {NoJob}]
    BY <1>1, <2>1 DEF Begin, Jobs, ShapeInv
  <2>3. pc' \in [Slots -> Steps]
    BY <1>1, <2>1 DEF Begin, ShapeInv
  <2>4. file' \in [Slots -> Shown \cup {<<>>}]
    BY <1>1, <2>1 DEF Begin, ShapeInv, Shown
  <2>5. begun' \in 0 .. MaxRequests
    BY <1>1, <2>1 DEF Begin
  <2>6. /\ <<begun + 1, Text>> \in Seq(Blocks)
        /\ <<begun + 1, begun + 1>> \in Seq(Blocks)
    BY <1>1, <2>1, BlocksOK
  <2>7. buffer' \in [Slots -> Seq(Blocks)]
    BY <1>1, <2>6, BlocksOK DEF Begin, ShapeInv
  <2>8. alone' \subseteq Slots /\ safe' \subseteq Slots
    BY <1>1 DEF Begin, WriterBegins, ShapeInv
  <2>9. appended' \in [Locations -> SUBSET (1 .. MaxRequests)]
    BY <1>1 DEF Begin, WriterBegins, ShapeInv
  <2>10. steady' \in [Slots -> SUBSET Places]
    <3>1. steady \in [Slots -> SUBSET Places]
      BY DEF ShapeInv
    <3>2. CASE op \in Writing
      BY <1>1, <3>1, <3>2 DEF Begin, WriterBegins
    <3>3. CASE op \in Searching
      <4>1. Resolve(request) \in AskedPaths
        BY <1>1 DEF AskedPaths, Asked
      <4>2. Scope[op][Resolve(request)] \subseteq Places
        BY <3>3, <4>1, ScopeIs
      <4>3. Present(op, Resolve(request), roots) \subseteq Places
        BY <4>2 DEF Present
      <4>4. op \notin Writing
        BY <3>3 DEF Searching, Writing, Overwriting
      <4>5. steady' = [steady EXCEPT
                         ![s] = Present(op, Resolve(request), roots)]
        BY <1>1, <3>3, <4>4 DEF Begin
      <4> QED
        BY <3>1, <4>3, <4>5
    <3>4. CASE op \notin Writing \cup Searching
      BY <1>1, <3>1, <3>4 DEF Begin
    <3> QED
      BY <3>2, <3>3, <3>4
  <2> QED
    BY <1>1, <2>1, <2>2, <2>3, <2>4, <2>5, <2>6, <2>7, <2>8, <2>9, <2>10 DEF
       ShapeInv, Begin
<1>2. ASSUME NEW s \in Slots, Cancel(s)
      PROVE  ShapeInv'
  <2>1. Over(s)
    BY <1>2 DEF Cancel, BreaksOff
  <2>2. ideal' \in [Locations -> Seq(Blocks) \cup {None, Unknown}]
    BY <1>2 DEF Cancel, BreaksOff, ShapeInv
  <2> QED
    BY <1>2, <2>1, <2>2, OverShape DEF ShapeInv, Cancel, BreaksOff, disk
<1>3. ASSUME NEW s \in Slots, Dropped(s)
      PROVE  ShapeInv'
  <2>1. Over(s)
    BY <1>3 DEF Dropped, Fails
  <2> QED
    BY <1>3, <2>1, OverShape DEF ShapeInv, Dropped, Fails, disk
<1>4. ASSUME NEW s \in Slots, Moved(s)
      PROVE  ShapeInv'
  <2>1. pc' \in [Slots -> Steps]
    BY <1>0, <1>4 DEF Moved, Go, Steps
  <2> QED
    BY <1>4, <2>1 DEF ShapeInv, Moved, disk, work, ghosts
<1>5. ASSUME NEW s \in Slots, OpenRead(s)
      PROVE  ShapeInv'
  <2>1. pc' \in [Slots -> Steps]
    BY <1>0, <1>5 DEF OpenRead, Go, Steps
  <2>2. inode[At(s)] \in Nat
    BY <1>5, Busy DEF OpenRead, ShapeInv
  <2>3. fd' \in [Slots -> Nat]
    BY <1>5, <2>2 DEF OpenRead, ShapeInv
  <2>4. buffer' \in [Slots -> Seq(Blocks)]
    BY <1>5, BlocksOK DEF OpenRead, ShapeInv
  <2> QED
    BY <1>5, <2>1, <2>2, <2>3, <2>4 DEF ShapeInv, OpenRead, disk, ghosts
<1>6. ASSUME NEW s \in Slots, ReadBlock(s)
      PROVE  ShapeInv'
  <2>1. /\ data[fd[s]] \in Seq(Blocks)
        /\ Len(buffer[s]) + 1 \in 1 .. Len(data[fd[s]])
    BY <1>6, Opened DEF ReadBlock
  <2>2. Append(buffer[s], data[fd[s]][Len(buffer[s]) + 1]) \in Seq(Blocks)
    BY <1>6, <2>1 DEF ShapeInv
  <2>3. buffer' \in [Slots -> Seq(Blocks)]
    BY <1>6, <2>2 DEF ReadBlock, ShapeInv
  <2> QED
    BY <1>6, <2>1, <2>2, <2>3 DEF ShapeInv, ReadBlock, disk, ghosts
<1>7. ASSUME NEW s \in Slots, ReplaceMatches(s)
      PROVE  ShapeInv'
  <2>1. pc' \in [Slots -> Steps]
    BY <1>0, <1>7 DEF ReplaceMatches, Go, Steps
  <2>2. job[s].id \in Blocks
    BY <1>7, Busy, BlocksOK DEF ReplaceMatches, AtEnd, Jobs
  <2>3. [i \in DOMAIN buffer[s] |-> IF buffer[s][i] = Text THEN job[s].id
                                  ELSE buffer[s][i]] \in Seq(Blocks)
    <3>1. buffer[s] \in Seq(Blocks)
      BY DEF ShapeInv
    <3> QED
      BY <2>2, <3>1
  <2>4. buffer' \in [Slots -> Seq(Blocks)]
    BY <1>7, <2>3 DEF ReplaceMatches, ShapeInv
  <2> QED
    BY <1>7, <2>1, <2>2, <2>3, <2>4 DEF ShapeInv, ReplaceMatches, disk,
       ghosts
<1>8. ASSUME NEW s \in Slots, ReplaceFindsNothing(s)
      PROVE  ShapeInv'
  <2>1. Over(s) /\ pc[s] = "read"
    BY <1>8 DEF ReplaceFindsNothing, AtEnd, Written
  <2>2. ideal' \in [Locations -> Seq(Blocks) \cup {None, Unknown}]
        /\ appended' \in [Locations -> SUBSET (1 .. MaxRequests)]
    <3>1. job[s].id \in 1 .. MaxRequests /\ At(s) \in Locations
      BY <2>1, Busy DEF Jobs
    <3> QED
      BY <1>8, <2>1, <3>1, EffectOK DEF ReplaceFindsNothing, Written, ShapeInv
  <2> QED
    BY <1>8, <2>1, <2>2, OverShape DEF ShapeInv, ReplaceFindsNothing,
       Written, disk
<1>9. ASSUME NEW s \in Slots, GrepMatches(s)
      PROVE  ShapeInv'
  <2>1. pc' \in [Slots -> Steps]
    BY <1>0, <1>9 DEF GrepMatches, Go, Steps
  <2>2. Matches(s) \subseteq Places \X Nat
    <3>1. file[s] \in Places /\ buffer[s] \in Seq(Blocks)
      BY <1>9 DEF GrepMatches, AtEnd, ShapeInv, FoundInv, FoundOf
    <3>2. \A e \in Matches(s) : \E i \in DOMAIN buffer[s] : e = <<file[s], i>>
      BY DEF Matches
    <3> QED
      BY <3>1, <3>2
  <2>3. found' \in [Slots -> SUBSET (Places \X Nat)]
    BY <1>9, <2>2 DEF GrepMatches, ShapeInv
  <2> QED
    BY <1>9, <2>1, <2>2, <2>3 DEF ShapeInv, GrepMatches, disk, ghosts
<1>10. ASSUME NEW s \in Slots, OpenWrite(s)
       PROVE  ShapeInv'
  <2>1. pc' \in [Slots -> Steps]
    BY <1>0, <1>10 DEF OpenWrite, Go, Steps
  <2>2. /\ At(s) \in Locations
        /\ inode[At(s)] \in Nat /\ inode[At(s)] <= Len(data)
    BY <1>10, Busy DEF OpenWrite, ShapeInv
  <2>3. data' \in Seq(Seq(Blocks)) /\ Len(data') >= Len(data)
    <3>0. /\ data \in Seq(Seq(Blocks)) /\ Len(data) \in Nat
          /\ inode \in [Locations -> Nat]
          /\ \A l \in Locations : inode[l] <= Len(data)
      BY DEF ShapeInv
    <3>1. CASE inode[At(s)] = 0
      <4>1. Created(At(s))
        BY <1>10, <3>1 DEF OpenWrite
      <4> QED
        BY <2>2, <3>0, <4>1, CreatedOK
    <3>2. CASE inode[At(s)] # 0
      <4>1. data' = [data EXCEPT ![inode[At(s)]] = <<>>]
        BY <1>10, <3>2 DEF OpenWrite, Emptied
      <4>2. inode[At(s)] \in 1 .. Len(data)
        BY <2>2, <3>0, <3>2
      <4>3. <<>> \in Seq(Blocks)
        BY BlocksOK
      <4> QED
        BY <3>0, <4>1, <4>2, <4>3, ExceptSeq
    <3> QED
      BY <3>1, <3>2
  <2>4. /\ inode' \in [Locations -> Nat]
        /\ \A l \in Locations : inode'[l] <= Len(data')
    <3>0. /\ data \in Seq(Seq(Blocks)) /\ Len(data) \in Nat
          /\ inode \in [Locations -> Nat]
          /\ \A l \in Locations : inode[l] <= Len(data)
      BY DEF ShapeInv
    <3>1. CASE inode[At(s)] = 0
      BY <1>10, <2>2, <3>1, CreatedOK DEF OpenWrite
    <3>2. CASE inode[At(s)] # 0
      <4>1. UNCHANGED inode
        BY <1>10, <3>2 DEF OpenWrite
      <4> QED
        BY <2>3, <3>0, <4>1
    <3> QED
      BY <3>1, <3>2
  <2>5. fd' \in [Slots -> Nat]
    BY <1>10, <2>2, <2>4 DEF OpenWrite, ShapeInv
  <2> QED
    BY <1>10, <2>1, <2>2, <2>3, <2>4, <2>5 DEF ShapeInv, OpenWrite, ghosts
<1>11. ASSUME NEW s \in Slots, WriteBlock(s)
       PROVE  ShapeInv'
  <2>1. pos[s] + 1 \in 1 .. Len(buffer[s]) /\ fd[s] \in 1 .. Len(data)
    BY <1>11, Opened DEF WriteBlock
  <2>2. Put(data[fd[s]], pos[s] + 1, buffer[s][pos[s] + 1]) \in Seq(Blocks)
    <3>1. /\ data[fd[s]] \in Seq(Blocks) /\ buffer[s][pos[s] + 1] \in Blocks
          /\ pos[s] + 1 \in Nat \ {0}
      BY <1>11, <2>1, Opened DEF WriteBlock
    <3> QED
      BY <3>1, PutOK
  <2>3. data' \in Seq(Seq(Blocks)) /\ Len(data') >= Len(data)
    BY <1>11, <2>1, <2>2 DEF WriteBlock, ShapeInv
  <2>4. Len(data') = Len(data) /\ UNCHANGED <<inode, begun>>
    BY <1>11, <2>1 DEF WriteBlock, MoreToWrite, Written, ShapeInv
  <2>5. CASE MoreToWrite(s)
    <3>1. pos' \in [Slots -> Nat]
      BY <2>5 DEF MoreToWrite, ShapeInv
    <3>2. inode' \in [Locations -> Nat]
          /\ \A l \in Locations : inode'[l] <= Len(data')
      BY <2>4 DEF ShapeInv
    <3>3. UNCHANGED <<pc, job, file, fd, buffer, todo, found, begun, alone,
                      safe, vanished, ideal, appended, steady>>
      BY <2>5 DEF MoreToWrite, ghosts
    <3> QED
      BY <2>3, <3>1, <3>2, <3>3 DEF ShapeInv
  <2>6. CASE Written(s)
    <3>1. Over(s) /\ pc[s] # "idle"
      BY <1>11, <2>6 DEF Written, WriteBlock
    <3>2. job[s].id \in 1 .. MaxRequests /\ At(s) \in Locations
      BY <3>1, Busy DEF Jobs
    <3>3. ideal' \in [Locations -> Seq(Blocks) \cup {None, Unknown}]
          /\ appended' \in [Locations -> SUBSET (1 .. MaxRequests)]
      BY <2>6, <3>1, <3>2, EffectOK DEF Written, ShapeInv
    <3> QED
      BY <2>3, <2>4, <3>1, <3>3, OverShape DEF ShapeInv
  <2>7. CASE /\ Go(s, "chmod")
             /\ UNCHANGED <<job, work, begun, faults, ghosts>>
    BY <1>11, <2>3, <2>4, <2>7 DEF Go, Steps, work, ghosts, ShapeInv
  <2> QED
    BY <1>11, <2>1, <2>2, <2>3, <2>4, <2>5, <2>6, <2>7 DEF ShapeInv,
       WriteBlock
<1>12. ASSUME NEW s \in Slots, Finished(s)
       PROVE  ShapeInv'
  <2>1. Over(s) /\ pc[s] # "idle"
    BY <1>12 DEF Finished, Written
  <2>2. ideal' \in [Locations -> Seq(Blocks) \cup {None, Unknown}]
        /\ appended' \in [Locations -> SUBSET (1 .. MaxRequests)]
    <3>1. job[s].id \in 1 .. MaxRequests /\ At(s) \in Locations
      BY <2>1, Busy DEF Jobs
    <3> QED
      BY <1>12, <2>1, <3>1, EffectOK DEF Finished, Written, ShapeInv
  <2> QED
    BY <1>12, <2>1, <2>2, OverShape DEF ShapeInv, Finished, Written, disk
<1>13. ASSUME NEW s \in Slots, Touched(s)
       PROVE  ShapeInv'
  <2>1. pc' \in [Slots -> Steps]
    BY <1>0, <1>13 DEF Touched, Go, Steps
  <2>2. At(s) \in Locations /\ inode[At(s)] \in Nat
    BY <1>13, Busy DEF Touched, ShapeInv
  <2>3. data' \in Seq(Seq(Blocks)) /\ Len(data') >= Len(data)
    <3>0. /\ data \in Seq(Seq(Blocks)) /\ Len(data) \in Nat
          /\ inode \in [Locations -> Nat]
          /\ \A l \in Locations : inode[l] <= Len(data)
      BY DEF ShapeInv
    <3>1. CASE inode[At(s)] = 0
      <4>1. Created(At(s))
        BY <1>13, <3>1 DEF Touched
      <4> QED
        BY <2>2, <3>0, <4>1, CreatedOK
    <3>2. CASE inode[At(s)] # 0
      <4>1. data' = data
        BY <1>13, <3>2 DEF Touched
      <4> QED
        BY <3>0, <4>1
    <3> QED
      BY <3>1, <3>2
  <2>4. /\ inode' \in [Locations -> Nat]
        /\ \A l \in Locations : inode'[l] <= Len(data')
    <3>1. CASE inode[At(s)] = 0
      BY <1>13, <2>2, <3>1, CreatedOK DEF Touched
    <3>2. CASE inode[At(s)] # 0
      BY <1>13, <2>2, <2>3, <3>2 DEF Touched, ShapeInv
    <3> QED
      BY <3>1, <3>2
  <2> QED
    BY <1>13, <2>1, <2>2, <2>3, <2>4 DEF ShapeInv, Touched, work, ghosts
<1>14. ASSUME NEW s \in Slots, OpenAppend(s)
       PROVE  ShapeInv'
  <2>1. pc' \in [Slots -> Steps]
    BY <1>0, <1>14 DEF OpenAppend, Go, Steps
  <2>2. At(s) \in Locations /\ inode[At(s)] \in Nat
    BY <1>14, Busy DEF OpenAppend, ShapeInv
  <2>3. data' \in Seq(Seq(Blocks)) /\ Len(data') >= Len(data)
    <3>0. /\ data \in Seq(Seq(Blocks)) /\ Len(data) \in Nat
          /\ inode \in [Locations -> Nat]
          /\ \A l \in Locations : inode[l] <= Len(data)
      BY DEF ShapeInv
    <3>1. CASE inode[At(s)] = 0
      <4>1. Created(At(s))
        BY <1>14, <3>1 DEF OpenAppend
      <4> QED
        BY <2>2, <3>0, <4>1, CreatedOK
    <3>2. CASE inode[At(s)] # 0
      <4>1. data' = data
        BY <1>14, <3>2 DEF OpenAppend
      <4> QED
        BY <3>0, <4>1
    <3> QED
      BY <3>1, <3>2
  <2>4. /\ inode' \in [Locations -> Nat]
        /\ \A l \in Locations : inode'[l] <= Len(data')
    <3>1. CASE inode[At(s)] = 0
      BY <1>14, <2>2, <3>1, CreatedOK DEF OpenAppend
    <3>2. CASE inode[At(s)] # 0
      BY <1>14, <2>2, <2>3, <3>2 DEF OpenAppend, ShapeInv
    <3> QED
      BY <3>1, <3>2
  <2>5. fd' \in [Slots -> Nat]
    BY <1>14, <2>2, <2>4 DEF OpenAppend, ShapeInv
  <2>6. pos' \in [Slots -> Nat]
    BY <1>14 DEF OpenAppend, ShapeInv
  <2> QED
    BY <1>14, <2>1, <2>2, <2>3, <2>4, <2>5, <2>6 DEF ShapeInv, OpenAppend,
       ghosts
<1>15. ASSUME NEW s \in Slots, AppendBlock(s)
       PROVE  ShapeInv'
  <2>1. pos[s] + 1 \in 1 .. Len(buffer[s]) /\ fd[s] \in 1 .. Len(data)
    BY <1>15, Opened DEF AppendBlock
  <2>2. Appended(s) \in Seq(Blocks)
    BY <1>15, <2>1, Opened DEF AppendBlock, Appended
  <2>3. data' \in Seq(Seq(Blocks)) /\ Len(data') >= Len(data)
    BY <1>15, <2>1, <2>2 DEF AppendBlock, ShapeInv
  <2>4. Len(data') = Len(data) /\ UNCHANGED <<inode, begun>>
    BY <1>15, <2>1 DEF AppendBlock, MoreToWrite, Written, ShapeInv
  <2>5. CASE MoreToWrite(s)
    <3>1. pos' \in [Slots -> Nat]
      BY <2>5 DEF MoreToWrite, ShapeInv
    <3>2. inode' \in [Locations -> Nat]
          /\ \A l \in Locations : inode'[l] <= Len(data')
      BY <2>4 DEF ShapeInv
    <3>3. UNCHANGED <<pc, job, file, fd, buffer, todo, found, begun, alone,
                      safe, vanished, ideal, appended, steady>>
      BY <2>5 DEF MoreToWrite, ghosts
    <3> QED
      BY <2>3, <3>1, <3>2, <3>3 DEF ShapeInv
  <2>6. CASE Written(s)
    <3>1. Over(s) /\ pc[s] # "idle"
      BY <1>15, <2>6 DEF Written, AppendBlock
    <3>2. job[s].id \in 1 .. MaxRequests /\ At(s) \in Locations
      BY <3>1, Busy DEF Jobs
    <3>3. ideal' \in [Locations -> Seq(Blocks) \cup {None, Unknown}]
          /\ appended' \in [Locations -> SUBSET (1 .. MaxRequests)]
      BY <2>6, <3>1, <3>2, EffectOK DEF Written, ShapeInv
    <3> QED
      BY <2>3, <2>4, <3>1, <3>3, OverShape DEF ShapeInv
  <2> QED
    BY <1>15, <2>1, <2>2, <2>3, <2>4, <2>5, <2>6 DEF ShapeInv, AppendBlock
<1>16. ASSUME NEW s \in Slots, ReadDir(s)
       PROVE  ShapeInv'
  <2>1. pc' \in [Slots -> Steps]
    BY <1>0, <1>16 DEF ReadDir, Go, Steps
  <2>2. todo' \in [Slots -> SUBSET Places]
    BY <1>0, <1>16, SeenIsThere DEF ReadDir
  <2> QED
    BY <1>16, <2>1, <2>2 DEF ShapeInv, ReadDir, disk, ghosts
<1>17. ASSUME NEW s \in Slots, StatEntry(s)
       PROVE  ShapeInv'
  <2>1. todo' \in [Slots -> SUBSET Places]
    BY <1>0, <1>17 DEF StatEntry, Kept
  <2>2. found' \in [Slots -> SUBSET (Places \X Nat)]
    <3>1. \A p \in Places : Paths({p}) \subseteq Places \X Nat
      BY DEF Paths
    <3> QED
      <4>1. /\ todo \in [Slots -> SUBSET Places]
            /\ found \in [Slots -> SUBSET (Places \X Nat)]
        BY DEF ShapeInv
      <4>2. \/ found' = found
            \/ \E p \in todo[s] :
                 found' = [found EXCEPT ![s] = @ \cup Paths({p})]
        BY <1>17 DEF StatEntry
      <4> QED
        BY <3>1, <4>1, <4>2
  <2> QED
    BY <1>17, <2>1, <2>2 DEF ShapeInv, StatEntry, disk, ghosts
<1>18. ASSUME NEW s \in Slots, Walk(s)
       PROVE  ShapeInv'
  <2>1. pc' \in [Slots -> Steps]
    BY <1>0, <1>18 DEF Walk, Go, Steps
  <2>2. todo' \in [Slots -> SUBSET Places]
    BY <1>0, <1>18, SeenIsThere DEF Walk
  <2>3. found' \in [Slots -> SUBSET (Places \X Nat)]
    <3>1. \A places \in SUBSET Places : Paths(places) \subseteq Places \X Nat
      BY DEF Paths
    <3> QED
      <4>1. found \in [Slots -> SUBSET (Places \X Nat)]
        BY DEF ShapeInv
      <4>2. \/ found' = found
            \/ \E places \in SUBSET Places :
                 found' = [found EXCEPT ![s] = Paths(places)]
        BY <1>18 DEF Walk
      <4> QED
        BY <3>1, <4>1, <4>2
  <2> QED
    BY <1>18, <2>1, <2>2, <2>3 DEF ShapeInv, Walk, disk, ghosts
<1>19. ASSUME NEW s \in Slots, NextFile(s)
       PROVE  ShapeInv'
  <2>1. pc' \in [Slots -> Steps]
    BY <1>0, <1>19 DEF NextFile, Go, Steps
  <2>2. todo' \in [Slots -> SUBSET Places]
    <3>1. todo \in [Slots -> SUBSET Places]
      BY DEF ShapeInv
    <3> QED
      BY <1>19, <3>1 DEF NextFile
  <2>3. file' \in [Slots -> Shown \cup {<<>>}]
    <3>1. /\ todo \in [Slots -> SUBSET Places]
          /\ file \in [Slots -> Shown \cup {<<>>}]
      BY DEF ShapeInv
    <3> QED
      BY <1>19, <3>1 DEF NextFile, Shown
  <2> QED
    BY <1>19, <2>1, <2>2, <2>3 DEF ShapeInv, NextFile, disk, ghosts
<1>20. ASSUME NEW s \in Slots, MadeDir(s)
       PROVE  ShapeInv'
  <2>1. pc' \in [Slots -> Steps]
    BY <1>0, <1>20 DEF MadeDir, Go, Steps
  <2> QED
    BY <1>20, <2>1 DEF ShapeInv, MadeDir, work, ghosts
<1>21. ASSUME NEW s \in Slots, NEW p \in Places, RunRemoves(s, p)
       PROVE  ShapeInv'
  <2>1. /\ inode' \in [Locations -> Nat]
        /\ \A l \in Locations : inode'[l] <= Len(data')
    <3>1. /\ inode \in [Locations -> Nat] /\ Len(data) \in Nat
          /\ \A l \in Locations : inode[l] <= Len(data)
      BY DEF ShapeInv
    <3>2. /\ inode' = [inode EXCEPT ![Where[job[s].roots][p]] = 0]
          /\ data' = data
      BY <1>21 DEF RunRemoves
    <3>3. inode' \in [Locations -> Nat]
      BY <3>1, <3>2
    <3>4. \A l \in Locations : inode'[l] \in {0, inode[l]}
      BY <3>1, <3>2
    <3>5. \A l \in Locations : inode'[l] <= Len(data)
      BY <3>1, <3>4
    <3> QED
      BY <3>2, <3>3, <3>5
  <2>2. alone' \subseteq Slots /\ safe' \subseteq Slots
    BY <1>21 DEF RunRemoves, ShapeInv
  <2>3. vanished' \subseteq Slots
    BY <1>21 DEF RunRemoves, ShapeInv
  <2>4. ideal' \in [Locations -> Seq(Blocks) \cup {None, Unknown}]
    BY <1>21 DEF RunRemoves, ShapeInv
  <2>5. appended' \in [Locations -> SUBSET (1 .. MaxRequests)]
    BY <1>21 DEF RunRemoves, ShapeInv
  <2>6. steady' \in [Slots -> SUBSET Places]
    BY <1>21 DEF RunRemoves, ShapeInv
  <2> QED
    BY <1>21, <2>1, <2>2, <2>3, <2>4, <2>5, <2>6 DEF ShapeInv, RunRemoves,
       work
<1>22. CASE UNCHANGED vars
  BY <1>22 DEF vars, disk, work, ghosts, ShapeInv
<1> QED
  BY <1>1, <1>2, <1>3, <1>4, <1>5, <1>6, <1>7, <1>8, <1>9, <1>10, <1>11,
     <1>12, <1>13, <1>14, <1>15, <1>16, <1>17, <1>18, <1>19, <1>20, <1>21,
     <1>22, NextCases DEF Kinds, Begins

(* The request of another slot is where it was.                            *)
Same(t) ==
  /\ pc'[t] = pc[t] /\ job'[t] = job[t] /\ file'[t] = file[t]
  /\ fd'[t] = fd[t] /\ buffer'[t] = buffer[t] /\ pos'[t] = pos[t]
  /\ todo'[t] = todo[t] /\ found'[t] = found[t]

(* A step is one of one request.                                           *)
LEMMA OthersAreSame ==
  ASSUME ShapeInv, NEW s \in Slots, Kinds(s), NEW t \in Slots \ {s}
  PROVE  Same(t)
<1>0. /\ DOMAIN pc = Slots /\ DOMAIN job = Slots /\ DOMAIN file = Slots
      /\ DOMAIN fd = Slots /\ DOMAIN buffer = Slots /\ DOMAIN pos = Slots
      /\ DOMAIN todo = Slots /\ DOMAIN found = Slots
  BY DEF ShapeInv
<1>1. CASE Begins(s)
  BY <1>1, <1>0 DEF Begins, Begin, Same
<1>2. CASE Cancel(s)
  BY <1>2, <1>0 DEF Cancel, BreaksOff, Over, Go, Same
<1>3. CASE Dropped(s)
  BY <1>3, <1>0 DEF Dropped, Fails, Over, Go, Same
<1>4. CASE Moved(s)
  BY <1>4, <1>0 DEF Moved, Go, work, Same
<1>5. CASE OpenRead(s)
  BY <1>5, <1>0 DEF OpenRead, Go, Same
<1>6. CASE ReadBlock(s)
  BY <1>6, <1>0 DEF ReadBlock, Same
<1>7. CASE ReplaceMatches(s)
  BY <1>7, <1>0 DEF ReplaceMatches, Go, Same
<1>8. CASE ReplaceFindsNothing(s)
  BY <1>8, <1>0 DEF ReplaceFindsNothing, Written, Over, Go, Same
<1>9. CASE GrepMatches(s)
  BY <1>9, <1>0 DEF GrepMatches, Go, Same
<1>10. CASE OpenWrite(s)
  BY <1>10, <1>0 DEF OpenWrite, Go, Same
<1>11. CASE WriteBlock(s)
  BY <1>11, <1>0 DEF WriteBlock, MoreToWrite, Written, Over, Go, work, Same
<1>12. CASE Finished(s)
  BY <1>12, <1>0 DEF Finished, Written, Over, Go, Same
<1>13. CASE Touched(s)
  BY <1>13, <1>0 DEF Touched, Go, work, Same
<1>14. CASE OpenAppend(s)
  BY <1>14, <1>0 DEF OpenAppend, Go, Same
<1>15. CASE AppendBlock(s)
  BY <1>15, <1>0 DEF AppendBlock, MoreToWrite, Written, Over, Go, work, Same
<1>16. CASE ReadDir(s)
  BY <1>16, <1>0 DEF ReadDir, Go, Same
<1>17. CASE StatEntry(s)
  BY <1>17, <1>0 DEF StatEntry, Same
<1>18. CASE Walk(s)
  BY <1>18, <1>0 DEF Walk, Go, Same
<1>19. CASE NextFile(s)
  BY <1>19, <1>0 DEF NextFile, Go, Same
<1>20. CASE MadeDir(s)
  BY <1>20, <1>0 DEF MadeDir, Go, work, Same
<1>21. ASSUME NEW p \in Places, RunRemoves(s, p)
       PROVE  Same(t)
  BY <1>21, <1>0 DEF RunRemoves, work, Same
<1> QED
  BY <1>1, <1>2, <1>3, <1>4, <1>5, <1>6, <1>7, <1>8, <1>9, <1>10, <1>11,
     <1>12, <1>13, <1>14, <1>15, <1>16, <1>17, <1>18, <1>19, <1>20, <1>21 DEF
     Kinds

(* What there is on the disk.                                              *)
LEMMA DiskOK ==
  ASSUME ShapeInv
  PROVE  /\ data \in Seq(Seq(Blocks)) /\ Len(data) \in Nat
         /\ inode \in [Locations -> Nat]
         /\ \A l \in Locations : inode[l] <= Len(data)
BY DEF ShapeInv

(* Which requests there are at a step.                                     *)
LEMMA OpAt ==
  ASSUME StageInv, NEW s \in Slots
  PROVE  /\ pc[s] = "stat" => job[s].op = "download"
         /\ pc[s] \in {"open read", "read"} =>
              job[s].op \in {"read", "download", "replace", "grep"}
         /\ pc[s] \in {"open write", "write"} =>
              job[s].op \in {"write", "upload", "replace"}
         /\ pc[s] = "chmod" => job[s].op \in {"write", "replace"}
         /\ pc[s] \in {"touch", "chmod append", "open append", "append"} =>
              job[s].op = "append"
         /\ pc[s] \in {"list", "stat entries"} => job[s].op = "list"
         /\ pc[s] = "walk" => job[s].op \in {"tree", "find", "glob", "grep"}
         /\ pc[s] = "next file" => job[s].op = "grep"
         /\ pc[s] \in {"make dir", "run"} => job[s].op = "exec"
         /\ pc[s] = "answer" => job[s].op \in Reading \cup Searching
         /\ pc[s] = "idle" => job[s].op \notin Ops
<1>1. pc[s] \in StepsOf(job[s].op)
  BY DEF StageInv, StageOf
<1> QED
  BY <1>1 DEF StepsOf, Reading, Searching, Ops, Writing, Overwriting

(* An idle slot has nothing.                                               *)
LEMMA OverStage ==
  ASSUME ShapeInv, NEW s \in Slots, Over(s)
  PROVE  StageOf(s)'
<1>1. /\ pc'[s] = "idle" /\ job'[s] = NoJob /\ file'[s] = <<>>
      /\ buffer'[s] = <<>> /\ pos'[s] = 0
  BY DEF ShapeInv, Over, Go
<1>2. /\ NoJob.op = "none" /\ NoJob.at = <<>> /\ "none" \notin Limited
      /\ "idle" \in StepsOf("none")
  BY DEF NoJob, StepsOf, Limited
<1> QED
  BY <1>1, <1>2 DEF StageOf

(* Files are made, never forgotten.                                        *)
Grown ==
  Len(data) \in Nat /\ Len(data') \in Nat /\ Len(data) <= Len(data')

(* A request that goes on to a step of its operation is where it should be.*)
LEMMA StageMoves ==
  ASSUME ShapeInv, StageInv, NEW s \in Slots, Kinds(s), Grown
  PROVE  StageOf(s)'
<1>0. /\ DOMAIN pc = Slots /\ DOMAIN job = Slots /\ DOMAIN file = Slots
      /\ DOMAIN fd = Slots /\ DOMAIN buffer = Slots /\ DOMAIN pos = Slots
      /\ buffer[s] \in Seq(Blocks) /\ pos[s] \in Nat
      /\ StageOf(s)
  BY DEF ShapeInv, StageInv
<1>00. pc[s] # "idle" => job[s] \in Jobs /\ At(s) \in Locations
  BY Busy
<1>1. CASE Begins(s)
  <2>1. PICK op \in Ops, request \in Asked, roots \in Mounts, limit \in Nat :
          /\ Begin(s, op, request, roots, limit)
          /\ op \in Limited => limit > 0
    BY <1>1 DEF Begins
  <2>2. /\ pc[s] = "idle" /\ pc'[s] = FirstStep(op) /\ pos'[s] = pos[s]
        /\ file'[s] = Resolve(request)
        /\ job'[s] = [op |-> op, at |-> Resolve(request), roots |-> roots,
                      limit |-> limit, id |-> begun + 1]
        /\ op \in {"write", "upload"} => buffer'[s] = <<begun + 1, Text>>
        /\ op = "append" => buffer'[s] = <<begun + 1, begun + 1>>
        /\ op \notin {"write", "upload", "append"} => buffer'[s] = <<>>
    BY <2>1, <1>0 DEF Begin
  <2>3. FirstStep(op) \in StepsOf(op) /\ FirstStep(op) # "idle"
        /\ FirstStep(op) \notin {"read", "write", "append", "chmod"}
        /\ (FirstStep(op) = "open write" => op \in {"write", "upload"})
    BY DEF FirstStep, StepsOf, Ops, Writing, Overwriting, Reading, Searching
  <2>4. Resolve(request) \in Shown
    BY PlacesOK DEF Shown
  <2>5. pos'[s] = 0
    BY <1>0, <2>2 DEF StageOf
  <2>7. /\ job'[s].op = op /\ job'[s].at = Resolve(request)
        /\ job'[s].limit = limit /\ job'[s].id = begun + 1
    BY <2>2
  <2>6. Len(buffer'[s]) \in Nat
        /\ (op \in {"write", "upload"} => Len(buffer'[s]) > 0)
    <3>1. /\ <<begun + 1, Text>> \in Seq({begun + 1, Text})
          /\ Len(<<begun + 1, Text>>) = 2 /\ 2 > 0 /\ 2 \in Nat
      OBVIOUS
    <3>2. CASE op \in {"write", "upload"}
      BY <2>2, <3>1, <3>2
    <3>3. CASE op \notin {"write", "upload"}
      BY <2>2, <3>3
    <3> QED
      BY <3>2, <3>3
  <2> QED
    <3>1. pc'[s] = FirstStep(op) /\ file'[s] = Resolve(request)
      BY <2>2
    <3>2. /\ op \in {"write", "upload"} => buffer'[s] = <<begun + 1, Text>>
          /\ op = "append" => buffer'[s] = <<begun + 1, begun + 1>>
      BY <2>2
    <3> QED
      <4>1. pc'[s] \in StepsOf(job'[s].op) /\ file'[s] \in Shown
        BY <2>3, <2>4, <2>7, <3>1
      <4>2. /\ pc'[s] \notin {"read", "write", "append", "chmod"}
            /\ pc'[s] = "open write" => Len(buffer'[s]) > 0
            /\ pos'[s] = 0 /\ pos'[s] <= Len(buffer'[s])
        <5>1. pos'[s] = 0 /\ pos'[s] <= Len(buffer'[s])
          BY <2>5, <2>6
        <5>2. pc'[s] = "open write" => Len(buffer'[s]) > 0
          <6>1. pc'[s] = "open write" => op \in {"write", "upload"}
            BY <2>3, <3>1
          <6> QED
            BY <2>6, <6>1
        <5> QED
          BY <2>3, <3>1, <5>1, <5>2
      <4>3. /\ job'[s].op \in {"write", "upload"} =>
                 buffer'[s] = <<job'[s].id, Text>>
            /\ job'[s].op = "append" =>
                 buffer'[s] = <<job'[s].id, job'[s].id>>
        BY <2>7, <3>2
      <4>4. /\ job'[s].op \in Limited => job'[s].limit > 0
            /\ file'[s] = job'[s].at
        BY <2>1, <2>7, <3>1
      <4> QED
        BY <4>1, <4>2, <4>3, <4>4 DEF StageOf
<1>2. CASE Cancel(s)
  <2>1. Over(s)
    BY <1>2 DEF Cancel, BreaksOff
  <2> QED
    BY <2>1, OverStage
<1>3. CASE Dropped(s)
  <2>1. Over(s)
    BY <1>3 DEF Dropped, Fails
  <2> QED
    BY <2>1, OverStage
<1>4. CASE Moved(s)
  <2>1. /\ UNCHANGED <<file[s], job[s], fd[s], buffer[s], pos[s], data>>
        /\ pc[s] \notin {"write", "chmod", "append"} /\ pos[s] = 0
    BY <1>4, <1>0 DEF Moved, work, disk, StageOf, AtEnd
  <2>2. /\ pc'[s] \in StepsOf(job[s].op) /\ pc[s] # "idle"
        /\ pc'[s] \in {"open read", "next file", "answer", "open append"}
    BY <1>4, <1>0, OpAt DEF Moved, Go, AtEnd, StepsOf, Reading, Searching
  <2> QED
    BY <1>0, <2>1, <2>2 DEF StageOf
<1>5. CASE OpenRead(s)
  <2>1. /\ pc[s] = "open read" /\ pc'[s] = "read" /\ buffer'[s] = <<>>
        /\ fd'[s] = inode[At(s)] /\ inode[At(s)] # 0
        /\ UNCHANGED <<file[s], job[s], pos[s], data>>
    BY <1>5, <1>0 DEF OpenRead, Go, disk
  <2>2. inode[At(s)] \in 1 .. Len(data)
    <3>1. At(s) \in Locations
      BY <2>1, <1>00
    <3>2. /\ Len(data) \in Nat
          /\ inode[At(s)] \in Nat /\ inode[At(s)] <= Len(data)
      BY <3>1, DiskOK
    <3>3. inode[At(s)] # 0
      BY <1>5 DEF OpenRead
    <3> QED
      BY <3>2, <3>3
  <2>3. "read" \in StepsOf(job[s].op)
        /\ job[s].op \in {"read", "download", "replace", "grep"}
    BY <2>1, OpAt DEF StepsOf
  <2>4. /\ pos'[s] = 0 /\ pos'[s] <= Len(buffer'[s])
        /\ fd'[s] \in 1 .. Len(data')
    <3>1. pos'[s] = 0
      BY <1>0, <2>1 DEF StageOf
    <3>0. buffer'[s] = <<>>
      BY <2>1
    <3>2. Len(buffer'[s]) = 0
      BY <3>0
    <3>3. fd'[s] \in 1 .. Len(data')
      BY <2>1, <2>2 DEF Grown
    <3> QED
      BY <3>1, <3>2, <3>3
  <2> QED
    BY <1>0, <2>1, <2>3, <2>4 DEF StageOf
<1>6. CASE ReadBlock(s)
  <2>1. /\ pc[s] = "read" /\ job[s].op \notin {"write", "upload", "append"}
        /\ UNCHANGED <<pc[s], file[s], job[s], fd[s], pos[s], data>>
        /\ pos[s] = 0 /\ fd[s] \in 1 .. Len(data)
    BY <1>6, <1>0, OpAt DEF ReadBlock, disk, StageOf
  <2>2. Len(buffer'[s]) \in Nat
    <3>1. /\ data[fd[s]] \in Seq(Blocks)
          /\ Len(buffer[s]) + 1 \in 1 .. Len(data[fd[s]])
      BY <1>6, <1>0, Opened DEF ReadBlock
    <3>2. buffer'[s] = Append(buffer[s], data[fd[s]][Len(buffer[s]) + 1])
      BY <1>6, <1>0 DEF ReadBlock
    <3> QED
      BY <1>0, <3>1, <3>2
  <2> QED
    BY <1>0, <2>1, <2>2 DEF StageOf
<1>7. CASE ReplaceMatches(s)
  <2>1. /\ pc[s] = "read" /\ job[s].op = "replace" /\ Holds(buffer[s], Text)
        /\ pc'[s] = "open write"
        /\ buffer'[s] = [i \in DOMAIN buffer[s] |->
                           IF buffer[s][i] = Text THEN job[s].id
                            ELSE buffer[s][i]]
        /\ UNCHANGED <<file[s], job[s], pos[s], data>>
    BY <1>7, <1>0 DEF ReplaceMatches, Go, AtEnd, disk
  <2>2. Len(buffer'[s]) = Len(buffer[s]) /\ Len(buffer[s]) > 0
    <3>1. DOMAIN buffer[s] = 1 .. Len(buffer[s]) /\ Len(buffer[s]) \in Nat
      BY <1>0
    <3>2. Len(buffer[s]) > 0
      <4>1. Holds(buffer[s], Text)
        BY <2>1
      <4> QED
        BY <3>1, <4>1 DEF Holds
    <3>3. buffer'[s] \in Seq(Blocks) /\ DOMAIN buffer'[s] = DOMAIN buffer[s]
      <4>1. job[s].id \in Blocks
        BY <1>00, <2>1, BlocksOK DEF Jobs
      <4> QED
        <5> DEFINE b == [i \in DOMAIN buffer[s] |->
                           IF buffer[s][i] = Text THEN job[s].id
                           ELSE buffer[s][i]]
        <5>1. b \in Seq(Blocks) /\ DOMAIN b = DOMAIN buffer[s]
          BY <1>0, <4>1
        <5> QED
          BY <2>1, <5>1
    <3>4. Len(buffer'[s]) = Len(buffer[s])
      BY <3>1, <3>3
    <3> QED
      BY <3>2, <3>4
  <2>3. "open write" \in StepsOf(job[s].op)
    BY <2>1 DEF StepsOf
  <2> QED
    BY <1>0, <2>1, <2>2, <2>3 DEF StageOf, Limited
<1>8. CASE ReplaceFindsNothing(s)
  <2>1. Over(s)
    BY <1>8 DEF ReplaceFindsNothing, Written
  <2> QED
    BY <2>1, OverStage
<1>9. CASE GrepMatches(s)
  <2>1. /\ pc[s] = "read" /\ job[s].op = "grep" /\ pc'[s] = "next file"
        /\ UNCHANGED <<file[s], job[s], buffer[s], pos[s], data>>
    BY <1>9, <1>0 DEF GrepMatches, Go, AtEnd, disk
  <2>2. "next file" \in StepsOf(job[s].op)
    BY <2>1 DEF StepsOf
  <2> QED
    BY <1>0, <2>1, <2>2 DEF StageOf
<1>10. CASE OpenWrite(s)
  <2>1. /\ pc[s] = "open write" /\ pc'[s] = "write"
        /\ fd'[s] = inode'[At(s)]
        /\ UNCHANGED <<file[s], job[s], buffer[s], pos[s]>>
    BY <1>10, <1>0 DEF OpenWrite, Go
  <2>2. inode'[At(s)] \in 1 .. Len(data')
    <3>1. inode[At(s)] \in Nat /\ inode[At(s)] <= Len(data)
      BY <1>00, <2>1, DiskOK
    <3>2. CASE inode[At(s)] = 0
      <4>1. Created(At(s))
        BY <1>10, <3>2 DEF OpenWrite
      <4>2. At(s) \in Locations
        BY <1>00, <2>1
      <4>3. inode'[At(s)] = Len(data) + 1 /\ Len(data') = Len(data) + 1
        BY <4>1, <4>2, CreatedOK
      <4> QED
        BY <4>3 DEF Grown
    <3>3. CASE inode[At(s)] # 0
      <4>1. inode' = inode
        BY <1>10, <3>3 DEF OpenWrite
      <4> QED
        BY <3>1, <3>3, <4>1 DEF Grown
    <3> QED
      BY <3>2, <3>3
  <2>3. "write" \in StepsOf(job[s].op)
    BY <2>1, OpAt DEF StepsOf
  <2> QED
    BY <1>0, <2>1, <2>2, <2>3 DEF StageOf
<1>11. CASE WriteBlock(s)
  <2>1. pc[s] = "write"
    BY <1>11 DEF WriteBlock
  <2>2. pos[s] < Len(buffer[s]) /\ fd[s] \in 1 .. Len(data)
    BY <1>0, <2>1 DEF StageOf
  <2>3. CASE MoreToWrite(s)
    <3>1. /\ UNCHANGED <<pc[s], file[s], job[s], buffer[s], fd[s]>>
          /\ pos'[s] = pos[s] + 1
      BY <1>0, <2>3 DEF MoreToWrite
    <3>2. pos[s] + 1 < Len(buffer[s])
      BY <1>11, <3>1, <2>1, <1>0, <2>3 DEF WriteBlock, Written, Over, Go
    <3> QED
      BY <1>0, <2>1, <2>2, <3>1, <3>2 DEF StageOf, Grown
  <2>4. CASE Written(s)
    BY <2>4, OverStage DEF Written
  <2>5. CASE Go(s, "chmod") /\ UNCHANGED <<job, work>>
    <3>1. job[s].op # "upload"
      BY <1>11, <2>5, <1>0 DEF WriteBlock, Written, Over, Go, MoreToWrite
    <3>2. "chmod" \in StepsOf(job[s].op)
      BY <2>1, <3>1, OpAt DEF StepsOf
    <3> QED
      BY <1>0, <2>1, <2>5, <3>2 DEF StageOf, Go, work
  <2> QED
    BY <1>11, <2>3, <2>4, <2>5 DEF WriteBlock
<1>12. CASE Finished(s)
  <2>1. Over(s)
    BY <1>12 DEF Finished, Written
  <2> QED
    BY <2>1, OverStage
<1>13. CASE Touched(s)
  BY <1>13, <1>0, <1>00, OpAt DEF Touched, Go, work, StageOf, StepsOf,
     Limited
<1>14. CASE OpenAppend(s)
  <2>1. /\ pc[s] = "open append" /\ pc'[s] = "append"
        /\ fd'[s] = inode'[At(s)] /\ pos'[s] = 0
        /\ UNCHANGED <<file[s], job[s], buffer[s]>>
    BY <1>14, <1>0 DEF OpenAppend, Go
  <2>2. inode'[At(s)] \in 1 .. Len(data')
    <3>1. inode[At(s)] \in Nat /\ inode[At(s)] <= Len(data)
      BY <1>00, <2>1, DiskOK
    <3>2. CASE inode[At(s)] = 0
      <4>1. Created(At(s))
        BY <1>14, <3>2 DEF OpenAppend
      <4>2. At(s) \in Locations
        BY <1>00, <2>1
      <4>3. inode'[At(s)] = Len(data) + 1 /\ Len(data') = Len(data) + 1
        BY <4>1, <4>2, CreatedOK
      <4> QED
        BY <4>3 DEF Grown
    <3>3. CASE inode[At(s)] # 0
      <4>1. inode' = inode
        BY <1>14, <3>3 DEF OpenAppend
      <4> QED
        BY <3>1, <3>3, <4>1 DEF Grown
    <3> QED
      BY <3>2, <3>3
  <2>3. "append" \in StepsOf(job[s].op) /\ job[s].op = "append"
    BY <2>1, OpAt DEF StepsOf
  <2>4. buffer[s] = <<job[s].id, job[s].id>>
    BY <1>0, <2>3 DEF StageOf
  <2> QED
    <3>1. pos'[s] < Len(buffer'[s])
      <4>1. Len(buffer[s]) = 2
        BY <2>4
      <4>2. pos'[s] = 0 /\ buffer'[s] = buffer[s]
        BY <2>1
      <4> QED
        BY <4>1, <4>2
    <3> QED
      BY <1>0, <2>1, <2>2, <2>3, <2>4, <3>1, OpAt DEF StageOf, Limited
<1>15. CASE AppendBlock(s)
  <2>1. pc[s] = "append"
    BY <1>15 DEF AppendBlock
  <2>2. pos[s] < Len(buffer[s]) /\ fd[s] \in 1 .. Len(data)
    BY <1>0, <2>1 DEF StageOf
  <2>3. CASE MoreToWrite(s)
    <3>1. /\ UNCHANGED <<pc[s], file[s], job[s], buffer[s], fd[s]>>
          /\ pos'[s] = pos[s] + 1
      BY <1>0, <2>3 DEF MoreToWrite
    <3>2. pos[s] + 1 < Len(buffer[s])
      BY <1>15, <3>1, <2>1, <1>0, <2>3 DEF AppendBlock, Written, Over, Go
    <3> QED
      BY <1>0, <2>1, <2>2, <3>1, <3>2 DEF StageOf, Grown
  <2>4. CASE Written(s)
    BY <2>4, OverStage DEF Written
  <2> QED
    BY <1>15, <2>3, <2>4 DEF AppendBlock
<1>16. CASE ReadDir(s)
  BY <1>16, <1>0, <1>00, OpAt DEF ReadDir, Go, StageOf, StepsOf, Limited
<1>17. CASE StatEntry(s)
  BY <1>17, <1>0, <1>00, OpAt DEF StatEntry, StageOf, StepsOf, Limited
<1>18. CASE Walk(s)
  BY <1>18, <1>0, <1>00, OpAt DEF Walk, Go, StageOf, StepsOf, Limited
<1>19. CASE NextFile(s)
  <2>1. /\ pc[s] = "next file" /\ job[s].op = "grep"
        /\ UNCHANGED <<job[s], buffer[s], pos[s], data>>
    BY <1>19, <1>0, OpAt DEF NextFile, disk
  <2>2. /\ pc'[s] \in {"open read", "answer"}
        /\ file'[s] \in Places \/ file'[s] = file[s]
    <3>1. todo[s] \subseteq Places
      BY DEF ShapeInv
    <3> QED
      BY <1>19, <1>0, <3>1 DEF NextFile, Go
  <2>3. {"open read", "answer"} \subseteq StepsOf(job[s].op)
    BY <2>1 DEF StepsOf
  <2> QED
    BY <1>0, <2>1, <2>2, <2>3 DEF StageOf, Shown
<1>20. CASE MadeDir(s)
  BY <1>20, <1>0, <1>00, OpAt DEF MadeDir, Go, work, StageOf, StepsOf,
     Limited
<1>21. ASSUME NEW p \in Places, RunRemoves(s, p)
       PROVE  StageOf(s)'
  BY <1>21, <1>0, <1>00, OpAt DEF RunRemoves, work, StageOf, StepsOf, Limited
<1> QED
  BY <1>1, <1>2, <1>3, <1>4, <1>5, <1>6, <1>7, <1>8, <1>9, <1>10, <1>11,
     <1>12, <1>13, <1>14, <1>15, <1>16, <1>17, <1>18, <1>19, <1>20, <1>21 DEF
     Kinds

(* What a step does to the files.                                          *)
NothingDone == UNCHANGED <<inode, data>>

FileMade(s) ==
  /\ pc[s] \in {"open write", "touch", "open append"}
  /\ inode[At(s)] = 0 /\ Created(At(s))

FileEmptied(s) ==
  /\ pc[s] = "open write" /\ inode[At(s)] # 0 /\ UNCHANGED inode
  /\ data' = [data EXCEPT ![inode[At(s)]] = <<>>]

BlockPut(s) ==
  /\ pc[s] = "write" /\ UNCHANGED inode
  /\ data' = [data EXCEPT ![fd[s]] =
                Put(data[fd[s]], pos[s] + 1, buffer[s][pos[s] + 1])]

BlockAppended(s) ==
  /\ pc[s] = "append" /\ UNCHANGED inode
  /\ data' = [data EXCEPT ![fd[s]] = Appended(s)]

FileRemoved(s) ==
  /\ pc[s] = "run" /\ UNCHANGED data
  /\ \E p \in Places : RunRemoves(s, p)

FilesChange(s) ==
  \/ NothingDone \/ FileMade(s) \/ FileEmptied(s) \/ BlockPut(s)
  \/ BlockAppended(s) \/ FileRemoved(s)

(* What a step does to the files: nothing, or one of these.                *)
LEMMA FileSteps ==
  ASSUME NEW s \in Slots, Kinds(s)
  PROVE  FilesChange(s)
<1>1. CASE Begins(s)
  BY <1>1 DEF Begins, Begin, disk, NothingDone, FilesChange
<1>2. CASE Cancel(s)
  BY <1>2 DEF Cancel, BreaksOff, disk, NothingDone, FilesChange
<1>3. CASE Dropped(s)
  BY <1>3 DEF Dropped, Fails, disk, disk, NothingDone, FilesChange
<1>4. CASE Moved(s)
  BY <1>4 DEF Moved, disk, NothingDone, FilesChange
<1>5. CASE OpenRead(s)
  BY <1>5 DEF OpenRead, disk, NothingDone, FilesChange
<1>6. CASE ReadBlock(s)
  BY <1>6 DEF ReadBlock, disk, NothingDone, FilesChange
<1>7. CASE ReplaceMatches(s)
  BY <1>7 DEF ReplaceMatches, disk, NothingDone, FilesChange
<1>8. CASE ReplaceFindsNothing(s)
  BY <1>8 DEF ReplaceFindsNothing, disk, NothingDone, FilesChange
<1>9. CASE GrepMatches(s)
  BY <1>9 DEF GrepMatches, disk, NothingDone, FilesChange
<1>10. CASE OpenWrite(s)
  BY <1>10 DEF OpenWrite, FileMade, FileEmptied, Emptied, NothingDone,
     FilesChange
<1>11. CASE WriteBlock(s)
  BY <1>11 DEF WriteBlock, BlockPut, FilesChange
<1>12. CASE Finished(s)
  BY <1>12 DEF Finished, disk, disk, NothingDone, FilesChange
<1>13. CASE Touched(s)
  BY <1>13 DEF Touched, FileMade, NothingDone, FilesChange
<1>14. CASE OpenAppend(s)
  BY <1>14 DEF OpenAppend, FileMade, NothingDone, FilesChange
<1>15. CASE AppendBlock(s)
  BY <1>15 DEF AppendBlock, BlockAppended, FilesChange
<1>16. CASE ReadDir(s)
  BY <1>16 DEF ReadDir, disk, NothingDone, FilesChange
<1>17. CASE StatEntry(s)
  BY <1>17 DEF StatEntry, disk, NothingDone, FilesChange
<1>18. CASE Walk(s)
  BY <1>18 DEF Walk, disk, NothingDone, FilesChange
<1>19. CASE NextFile(s)
  BY <1>19 DEF NextFile, disk, NothingDone, FilesChange
<1>20. CASE MadeDir(s)
  BY <1>20 DEF MadeDir, disk, NothingDone, FilesChange
<1>21. ASSUME NEW p \in Places, RunRemoves(s, p)
       PROVE  FilesChange(s)
  BY <1>21 DEF RunRemoves, FileRemoved, FilesChange
<1> QED
  BY <1>1, <1>2, <1>3, <1>4, <1>5, <1>6, <1>7, <1>8, <1>9, <1>10, <1>11,
     <1>12, <1>13, <1>14, <1>15, <1>16, <1>17, <1>18, <1>19, <1>20, <1>21 DEF
     Kinds

(* No step forgets a file there has been.                                  *)
LEMMA FilesGrow ==
  ASSUME ShapeInv, StageInv, NEW s \in Slots, Kinds(s)
  PROVE  Grown
<1>0. data \in Seq(Seq(Blocks)) /\ Len(data) \in Nat
  BY DiskOK
<1>1. CASE NothingDone \/ FileRemoved(s)
  BY <1>0, <1>1 DEF NothingDone, FileRemoved, Grown
<1>2. CASE FileMade(s)
  <2>1. At(s) \in Locations
    BY <1>2, Busy DEF FileMade
  <2>2. Len(data') = Len(data) + 1
    BY <1>2, <2>1, CreatedOK DEF FileMade
  <2> QED
    BY <1>0, <2>2 DEF Grown
<1>3. ASSUME NEW i, NEW new, data' = [data EXCEPT ![i] = new]
      PROVE  Grown
  BY <1>0, <1>3 DEF Grown
<1> QED
  BY <1>1, <1>2, <1>3, FileSteps DEF FilesChange, FileEmptied, BlockPut,
     BlockAppended

(* Whatever a request does, it and the others are where they should be.    *)
LEMMA StageNext ==
  ASSUME ShapeInv, StageInv, [Next]_vars
  PROVE  StageInv'
<1>1. ASSUME NEW s \in Slots, Kinds(s)
      PROVE  StageInv'
  <2>1. Grown
    BY <1>1, FilesGrow
  <2>2. StageOf(s)'
    BY <1>1, <2>1, StageMoves
  <2>3. ASSUME NEW t \in Slots \ {s}
        PROVE  StageOf(t)'
    <3>1. Same(t) /\ StageOf(t)
      BY <1>1, OthersAreSame DEF StageInv
    <3>2. fd[t] \in 1 .. Len(data) => fd[t] \in 1 .. Len(data')
      BY <2>1 DEF Grown
    <3> QED
      BY <3>1, <3>2 DEF Same, StageOf
  <2> QED
    BY <2>2, <2>3 DEF StageInv
<1>2. CASE UNCHANGED vars
  BY <1>2 DEF vars, disk, work, StageInv, StageOf
<1> QED
  BY <1>1, <1>2, NextCases

(* What FileTypeOK says is part of it.                                     *)
LEMMA TypeFollows ==
  ASSUME ShapeInv, StageInv
  PROVE  FileTypeOK
<1>1. inode \in [Locations -> 0 .. Len(data)]
  BY DiskOK
<1>2. \A i \in DOMAIN data : data[i] \in Seq(Blocks)
  BY DiskOK
<1>3. ASSUME NEW s \in Slots
      PROVE  /\ job[s] = NoJob <=> pc[s] = "idle"
             /\ pc[s] # "idle" => job[s].op \in Ops /\ job[s].roots \in Mounts
             /\ pc[s] \in {"read", "write", "append"} => fd[s] \in DOMAIN data
             /\ buffer[s] \in Seq(Blocks) /\ pos[s] \in 0 .. Len(buffer[s])
             /\ todo[s] \subseteq Places
             /\ \A e \in found[s] : e[1] \in Places
  <2>1. /\ job[s] = NoJob <=> pc[s] = "idle"
        /\ pc[s] # "idle" => job[s].op \in Ops /\ job[s].roots \in Mounts
    BY Busy
  <2>2. pc[s] \in {"read", "write", "append"} => fd[s] \in DOMAIN data
    BY Opened, DiskOK
  <2>3. buffer[s] \in Seq(Blocks) /\ pos[s] \in 0 .. Len(buffer[s])
    <3>1. buffer[s] \in Seq(Blocks) /\ pos[s] \in Nat
      BY DEF ShapeInv
    <3>2. pos[s] <= Len(buffer[s])
      BY DEF StageInv, StageOf
    <3> QED
      BY <3>1, <3>2
  <2>4. todo[s] \subseteq Places /\ \A e \in found[s] : e[1] \in Places
    BY DEF ShapeInv
  <2> QED
    BY <2>1, <2>2, <2>3, <2>4
<1>4. /\ pc \in [Slots -> Steps]
      /\ alone \subseteq Slots /\ safe \subseteq Slots
      /\ vanished \subseteq Slots
  BY DEF ShapeInv
<1> QED
  BY <1>1, <1>2, <1>3, <1>4 DEF FileTypeOK

(* As many files are reported as there are.                                *)
LEMMA PathsFinite ==
  ASSUME NEW S, IsFiniteSet(S)
  PROVE  /\ IsFiniteSet(Paths(S)) /\ Cardinality(Paths(S)) = Cardinality(S)
         /\ \A e \in Paths(S) : e[1] \in S
<1> DEFINE f == [p \in S |-> <<p, 0>>]
<1>1. /\ f \in [S -> Paths(S)] /\ \A p, q \in S : f[p] = f[q] => p = q
      /\ \A e \in Paths(S) : \E p \in S : f[p] = e
  BY DEF Paths
<1>2. f \in Bijection(S, Paths(S))
  BY <1>1 DEF Bijection, Injection, Surjection, IsInjective
<1>3. ExistsBijection(S, Paths(S))
  BY <1>2 DEF ExistsBijection
<1> QED
  BY <1>3, FS_Bijection DEF Paths

(* A search reports finitely many lines of a file, of which it is.         *)
LEMMA MatchesFinite ==
  ASSUME ShapeInv, NEW s \in Slots
  PROVE  IsFiniteSet(Matches(s)) /\ \A e \in Matches(s) : e[1] = file[s]
<1> DEFINE D == DOMAIN buffer[s]
           R == {i \in D : <<file[s], i>> \in Matches(s)}
           f == [i \in R |-> <<file[s], i>>]
<1>1. D = 1 .. Len(buffer[s]) /\ Len(buffer[s]) \in Nat
  BY DEF ShapeInv
<1>2. IsFiniteSet(D)
  BY <1>1, FS_Interval
<1>3. IsFiniteSet(R)
  BY <1>2, FS_Subset
<1>4. \A e \in Matches(s) : \E i \in D : e = <<file[s], i>>
  BY DEF Matches
<1>5. f \in [R -> Matches(s)] /\ \A e \in Matches(s) : \E i \in R : f[i] = e
  BY <1>4
<1>6. f \in Surjection(R, Matches(s))
  BY <1>5 DEF Surjection
<1> QED
  BY <1>3, <1>4, <1>6, FS_Surjection

(* A slot that is over has found nothing.                                  *)
LEMMA OverFound ==
  ASSUME ShapeInv, NEW s \in Slots, Over(s)
  PROVE  FoundOf(s)'
<1>1. /\ found'[s] = {} /\ todo'[s] = {} /\ job'[s] = NoJob
  BY DEF ShapeInv, Over
<1>2. NoJob.op # "grep" /\ IsFiniteSet({})
  BY FS_EmptySet DEF NoJob
<1> QED
  BY <1>1, <1>2 DEF FoundOf

(* What a search finds, and has still to look at, is below the directory   *)
(* that was asked for.                                                     *)
LEMMA FoundMoves ==
  ASSUME ShapeInv, StageInv, FoundInv, NEW s \in Slots, Kinds(s)
  PROVE  FoundOf(s)'
<1>0. /\ DOMAIN pc = Slots /\ DOMAIN job = Slots /\ DOMAIN file = Slots
      /\ DOMAIN fd = Slots /\ DOMAIN buffer = Slots /\ DOMAIN pos = Slots
      /\ DOMAIN todo = Slots /\ DOMAIN found = Slots
      /\ todo[s] \subseteq Places
      /\ FoundOf(s)
  BY DEF ShapeInv, FoundInv
<1>01. pc[s] \in {"list", "walk"} =>
         /\ Seen(s) \subseteq Places
         /\ \A p \in Seen(s) : Within(job[s].at, p)
  BY SeenIsThere
<1>02. \A S \in SUBSET Places :
         IsFiniteSet(Paths(S)) /\ \A e \in Paths(S) : e[1] \in S
  <2> SUFFICES ASSUME NEW S \in SUBSET Places
               PROVE  IsFiniteSet(Paths(S)) /\ \A e \in Paths(S) : e[1] \in S
    OBVIOUS
  <2>1. IsFiniteSet(S)
    BY FileAssumption, FS_Subset
  <2> QED
    BY <2>1, PathsFinite
<1>1. CASE Begins(s)
  <2>1. PICK op \in Ops, request \in Asked, roots \in Mounts, limit \in Nat :
          Begin(s, op, request, roots, limit)
    BY <1>1 DEF Begins
  <2>2. /\ pc[s] = "idle" /\ UNCHANGED <<todo, found>>
        /\ pc'[s] = FirstStep(op) /\ job'[s].op = op
    BY <2>1, <1>0 DEF Begin
  <2>3. op = "grep" => FirstStep(op) \notin {"open read", "read"}
    BY DEF FirstStep
  <2>4. found[s] = {} /\ todo[s] = {}
    BY <1>0, <2>2 DEF FoundOf
  <2>5. found'[s] = {} /\ todo'[s] = {}
    BY <2>2, <2>4
  <2> QED
    BY <2>2, <2>3, <2>5, FS_EmptySet DEF FoundOf
<1>2. CASE Over(s)
  BY <1>2, OverFound
<1>3. CASE Moved(s)
  <2>1. /\ UNCHANGED <<file[s], job[s], todo[s], found[s]>>
        /\ pc'[s] \notin {"idle", "list", "walk", "read"}
        /\ pc'[s] = "open read" => job[s].op = "download"
    BY <1>3, <1>0, OpAt DEF Moved, Go, work
  <2> QED
    BY <1>0, <2>1 DEF FoundOf
<1>4. CASE OpenRead(s)
  BY <1>0, <1>4 DEF OpenRead, Go, FoundOf
<1>5. CASE ReadBlock(s)
  BY <1>0, <1>5 DEF ReadBlock, FoundOf
<1>6. CASE ReplaceMatches(s)
  BY <1>0, <1>6 DEF ReplaceMatches, Go, FoundOf
<1>7. CASE GrepMatches(s)
  <2>1. /\ pc[s] = "read" /\ job[s].op = "grep" /\ pc'[s] = "next file"
        /\ UNCHANGED <<file[s], job[s], todo[s]>>
        /\ found'[s] = found[s] \cup Matches(s)
    BY <1>0, <1>7 DEF GrepMatches, Go, AtEnd
  <2>2. IsFiniteSet(Matches(s)) /\ \A e \in Matches(s) : e[1] = file[s]
    BY MatchesFinite
  <2>3. IsFiniteSet(found[s])
    BY <1>0 DEF FoundOf
  <2>4. IsFiniteSet(found'[s])
    BY <2>1, <2>2, <2>3, FS_Union
  <2> QED
    BY <1>0, <2>1, <2>2, <2>4 DEF FoundOf
<1>8. CASE OpenWrite(s)
  BY <1>0, <1>8 DEF OpenWrite, Go, FoundOf
<1>9. CASE /\ pc[s] \in {"write", "append"} /\ ~Over(s)
           /\ WriteBlock(s) \/ AppendBlock(s)
  <2>1. /\ UNCHANGED <<file[s], job[s], todo[s], found[s]>>
        /\ pc'[s] \in {"write", "append", "chmod"}
    BY <1>9, <1>0 DEF WriteBlock, AppendBlock, MoreToWrite, Written, Go, work
  <2> QED
    BY <1>0, <2>1 DEF FoundOf
<1>10. CASE Touched(s)
  BY <1>0, <1>10 DEF Touched, Go, work, FoundOf
<1>11. CASE OpenAppend(s)
  BY <1>0, <1>11 DEF OpenAppend, Go, FoundOf
<1>12. CASE ReadDir(s)
  BY <1>0, <1>01, <1>12 DEF ReadDir, Go, FoundOf
<1>13. CASE StatEntry(s)
  <2>1. UNCHANGED <<pc[s], file[s], job[s]>> /\ pc[s] = "stat entries"
        /\ todo'[s] \subseteq todo[s]
    BY <1>0, <1>13 DEF StatEntry, Kept
  <2>2. \/ found'[s] = found[s]
        \/ \E p \in todo[s] : found'[s] = found[s] \cup Paths({p})
    BY <1>0, <1>13 DEF StatEntry
  <2>3. IsFiniteSet(found'[s]) /\ \A e \in found'[s] : Within(job[s].at, e[1])
    <3>1. CASE found'[s] = found[s]
      BY <1>0, <3>1 DEF FoundOf
    <3>2. ASSUME NEW p \in todo[s], found'[s] = found[s] \cup Paths({p})
          PROVE  /\ IsFiniteSet(found'[s])
                 /\ \A e \in found'[s] : Within(job[s].at, e[1])
      <4>1. IsFiniteSet(Paths({p})) /\ \A e \in Paths({p}) : e[1] = p
        BY PathsFinite, FS_Singleton
      <4>2. IsFiniteSet(found[s]) /\ Within(job[s].at, p)
            /\ \A e \in found[s] : Within(job[s].at, e[1])
        BY <1>0 DEF FoundOf
      <4> QED
        BY <3>2, <4>1, <4>2, FS_Union
    <3> QED
      BY <2>2, <3>1, <3>2
  <2> QED
    BY <1>0, <2>1, <2>3 DEF FoundOf
<1>14. CASE Walk(s)
  <2>1. /\ UNCHANGED <<file[s], job[s]>>
        /\ pc'[s] \in {"next file", "answer"}
        /\ todo'[s] = todo[s] \/ todo'[s] = Seen(s)
    BY <1>0, <1>14 DEF Walk, Go
  <2>2. \/ found'[s] = found[s]
        \/ \E S \in SUBSET Seen(s) : found'[s] = Paths(S)
    BY <1>0, <1>14 DEF Walk, Reported
  <2>3. IsFiniteSet(found'[s]) /\ \A e \in found'[s] : Within(job[s].at, e[1])
    <3>1. CASE found'[s] = found[s]
      BY <1>0, <3>1 DEF FoundOf
    <3>2. ASSUME NEW S \in SUBSET Seen(s), found'[s] = Paths(S)
          PROVE  /\ IsFiniteSet(found'[s])
                 /\ \A e \in found'[s] : Within(job[s].at, e[1])
      <4>1. pc[s] \in {"list", "walk"}
        BY <1>14 DEF Walk
      <4>2. S \in SUBSET Places /\ \A p \in S : Within(job[s].at, p)
        BY <1>01, <4>1
      <4> QED
        BY <1>02, <3>2, <4>2
    <3> QED
      BY <2>2, <3>1, <3>2
  <2> QED
    BY <1>0, <1>01, <1>14, <2>1, <2>3 DEF FoundOf, Walk
<1>15. CASE NextFile(s)
  <2>1. /\ UNCHANGED <<job[s], found[s]>> /\ pc'[s] \in {"open read", "answer"}
        /\ todo'[s] \subseteq todo[s]
        /\ pc'[s] = "open read" => file'[s] \in todo[s]
    <3>1. CASE Go(s, "answer") /\ UNCHANGED <<todo, file>>
      BY <1>0, <1>15, <3>1 DEF NextFile, Go
    <3>2. ASSUME NEW p \in todo[s], Go(s, "open read"),
                 todo' = [todo EXCEPT ![s] = @ \ {p}],
                 file' = [file EXCEPT ![s] = p]
          PROVE  /\ UNCHANGED <<job[s], found[s]>>
                 /\ pc'[s] \in {"open read", "answer"}
                 /\ todo'[s] \subseteq todo[s]
                 /\ pc'[s] = "open read" => file'[s] \in todo[s]
      BY <1>0, <1>15, <3>2 DEF NextFile, Go
    <3> QED
      BY <1>15, <3>1, <3>2 DEF NextFile
  <2> QED
    BY <1>0, <2>1 DEF FoundOf
<1>16. CASE MadeDir(s)
  BY <1>0, <1>16 DEF MadeDir, Go, work, FoundOf
<1>17. ASSUME NEW p \in Places, RunRemoves(s, p)
       PROVE  FoundOf(s)'
  BY <1>0, <1>17 DEF RunRemoves, work, FoundOf
<1> QED
  BY <1>1, <1>2, <1>3, <1>4, <1>5, <1>6, <1>7, <1>8, <1>9, <1>10, <1>11,
     <1>12, <1>13, <1>14, <1>15, <1>16, <1>17 DEF Kinds, Cancel, BreaksOff,
     Dropped, Fails, ReplaceFindsNothing, Finished, Written, WriteBlock,
     AppendBlock

(* FoundInv is inductive.                                                  *)
LEMMA FoundNext ==
  ASSUME ShapeInv, StageInv, FoundInv, [Next]_vars
  PROVE  FoundInv'
<1>1. ASSUME NEW s \in Slots, Kinds(s)
      PROVE  FoundInv'
  <2>1. FoundOf(s)'
    BY <1>1, FoundMoves
  <2>2. ASSUME NEW t \in Slots \ {s}
        PROVE  FoundOf(t)'
    <3>1. Same(t) /\ FoundOf(t)
      BY <1>1, OthersAreSame DEF FoundInv
    <3> QED
      BY <3>1 DEF Same, FoundOf
  <2> QED
    BY <2>1, <2>2 DEF FoundInv
<1>2. CASE UNCHANGED vars
  BY <1>2 DEF vars, work, FoundInv, FoundOf
<1> QED
  BY <1>1, <1>2, NextCases

(* What is found is shown as a path that leads back to it.                 *)
LEMMA DisplayedFollows ==
  ASSUME ShapeInv, StageInv, FoundInv
  PROVE  \A s \in Slots : \A e \in found[s] :
           Resolve(Display(job[s].at, e[1])) = e[1] \/ Misleading(e[1])
<1> SUFFICES ASSUME NEW s \in Slots, NEW e \in found[s]
             PROVE  \/ Resolve(Display(job[s].at, e[1])) = e[1]
                    \/ Misleading(e[1])
  OBVIOUS
<1>1. e[1] \in Path /\ Within(job[s].at, e[1])
  <2>1. e \in Places \X Nat
    BY DEF ShapeInv
  <2> QED
    BY <2>1, PlacesOK DEF FoundInv, FoundOf
<1>2. job[s].at \in AskedPaths
  <2>1. pc[s] # "idle"
    BY DEF FoundInv, FoundOf
  <2> QED
    BY <2>1, Busy
<1>3. PICK q \in Path : job[s].at = Resolve(q)
  BY <1>2, PlacesOK
<1> QED
  BY <1>1, <1>3, ShownLeadsBack

(* The host's directory for a working directory is the one mounted there,  *)
(* and it is among those that mkdir -p makes.                              *)
LEMMA WorkingDirOK ==
  ASSUME NEW roots \in Mounts, NEW at \in AskedPaths
  PROVE  /\ Where[roots][at] = HostPath(roots, at)
         /\ HostPath(roots, at) \in Ancestors(HostPath(roots, at))
<1>1. roots \in Roots /\ at \in Path /\ Where[roots][at] = Mounted(roots, at)
  BY PlacesOK DEF Shown
<1>2. \E dir : \E rest \in Path : HostPath(roots, at) = Location(dir, rest)
  <2>1. \A prefix \in {Skills, Project, Home} :
          Within(prefix, at) => Below(prefix, at) \in Path
    BY <1>1, WithinBelow, DirsArePaths
  <2> QED
    BY <1>1, <2>1 DEF HostPath
<1>4. PICK dir : \E rest \in Path : HostPath(roots, at) = Location(dir, rest)
  BY <1>2
<1>5. PICK rest \in Path : HostPath(roots, at) = Location(dir, rest)
  BY <1>4
<1>3. SubSeq(rest, 1, Len(rest)) = rest /\ Len(rest) \in 0 .. Len(rest)
  BY DEF Path
<1> QED
  BY <1>1, <1>3, <1>5, HostPathIsMounted DEF Ancestors, Location

(* Directories are made, never removed.                                    *)
LEMMA DirsGrow ==
  ASSUME NEW s \in Slots, Kinds(s)
  PROVE  dirs \subseteq dirs'
<1>1. CASE Begins(s)
  BY <1>1 DEF Begins, Begin
<1>2. CASE Cancel(s)
  BY <1>2 DEF Cancel, BreaksOff, disk
<1>3. CASE Dropped(s)
  BY <1>3 DEF Dropped, Fails, disk
<1>4. CASE Moved(s)
  BY <1>4 DEF Moved, disk
<1>5. CASE OpenRead(s) \/ ReadBlock(s)
  BY <1>5 DEF OpenRead, ReadBlock, disk
<1>6. CASE ReplaceMatches(s) \/ ReplaceFindsNothing(s) \/ GrepMatches(s)
  BY <1>6 DEF ReplaceMatches, ReplaceFindsNothing, GrepMatches, disk
<1>7. CASE OpenWrite(s) \/ WriteBlock(s) \/ Finished(s)
  BY <1>7 DEF OpenWrite, WriteBlock, Finished, disk
<1>8. CASE Touched(s) \/ OpenAppend(s) \/ AppendBlock(s)
  BY <1>8 DEF Touched, OpenAppend, AppendBlock
<1>9. CASE ReadDir(s) \/ StatEntry(s) \/ Walk(s) \/ NextFile(s)
  BY <1>9 DEF ReadDir, StatEntry, Walk, NextFile, disk
<1>10. CASE MadeDir(s)
  BY <1>10 DEF MadeDir
<1>11. ASSUME NEW p \in Places, RunRemoves(s, p)
       PROVE  dirs \subseteq dirs'
  BY <1>11 DEF RunRemoves
<1> QED
  BY <1>1, <1>2, <1>3, <1>4, <1>5, <1>6, <1>7, <1>8, <1>9, <1>10, <1>11
     DEF Kinds

(* A command begins to run when its working directory is there.            *)
LEMMA RunBegins ==
  ASSUME ShapeInv, StageInv, NEW s \in Slots, Kinds(s), pc'[s] = "run"
  PROVE  MadeDir(s) \/ (pc[s] = "run" /\ job'[s] = job[s])
<1>0. DOMAIN pc = Slots /\ DOMAIN job = Slots
  BY DEF ShapeInv
<1>1. ~Over(s)
  BY <1>0 DEF Over, Go
<1>2. CASE Begins(s)
  <2>1. PICK op \in Ops, request \in Asked, roots \in Mounts, limit \in Nat :
          Begin(s, op, request, roots, limit)
    BY <1>2 DEF Begins
  <2>2. pc'[s] = FirstStep(op)
    BY <1>0, <2>1 DEF Begin
  <2> QED
    BY <2>2 DEF FirstStep, Ops, Writing, Overwriting, Reading, Searching
<1>3. CASE Moved(s)
  BY <1>0, <1>3 DEF Moved, Go
<1>4. CASE OpenRead(s) \/ ReadBlock(s)
  BY <1>0, <1>4 DEF OpenRead, ReadBlock, Go
<1>5. CASE ReplaceMatches(s) \/ GrepMatches(s)
  BY <1>0, <1>5 DEF ReplaceMatches, GrepMatches, Go
<1>6. CASE OpenWrite(s) \/ WriteBlock(s)
  BY <1>0, <1>1, <1>6 DEF OpenWrite, WriteBlock, MoreToWrite, Written, Go
<1>7. CASE Touched(s) \/ OpenAppend(s) \/ AppendBlock(s)
  BY <1>0, <1>1, <1>7 DEF Touched, OpenAppend, AppendBlock, MoreToWrite,
     Written, Go
<1>8. CASE ReadDir(s) \/ StatEntry(s) \/ Walk(s) \/ NextFile(s)
  BY <1>0, <1>8 DEF ReadDir, StatEntry, Walk, NextFile, Go
<1>9. ASSUME NEW p \in Places, RunRemoves(s, p)
      PROVE  pc[s] = "run" /\ job'[s] = job[s]
  BY <1>9 DEF RunRemoves
<1> QED
  BY <1>1, <1>2, <1>3, <1>4, <1>5, <1>6, <1>7, <1>8, <1>9 DEF Kinds, Cancel,
     BreaksOff, Dropped, Fails, ReplaceFindsNothing, Finished, Written

(* A command that runs keeps its working directory.                        *)
LEMMA DirNext ==
  ASSUME ShapeInv, StageInv, DirInv, [Next]_vars
  PROVE  DirInv'
<1>1. ASSUME NEW s \in Slots, Kinds(s), NEW t \in Slots, pc'[t] = "run"
      PROVE  Where[job'[t].roots][job'[t].at] \in dirs'
  <2>1. dirs \subseteq dirs'
    BY <1>1, DirsGrow
  <2>2. CASE pc[t] = "run" /\ job'[t] = job[t]
    BY <2>1, <2>2 DEF DirInv
  <2>3. CASE t # s
    BY <1>1, <2>2, <2>3, OthersAreSame DEF Same
  <2>4. CASE MadeDir(s) /\ t = s
    <3>1. pc[s] = "make dir" /\ job' = job
      BY <2>4 DEF MadeDir
    <3>2. job[s].roots \in Mounts /\ job[s].at \in AskedPaths
      BY <3>1, Busy
    <3>3. HostPath(job[s].roots, job[s].at) \in dirs'
      BY <2>4, <3>2, WorkingDirOK DEF MadeDir
    <3> QED
      BY <2>4, <3>1, <3>2, <3>3, WorkingDirOK
  <2> QED
    BY <1>1, <2>2, <2>3, <2>4, RunBegins
<1>2. CASE UNCHANGED vars
  BY <1>2 DEF vars, disk, DirInv
<1> QED
  BY <1>1, <1>2, NextCases DEF DirInv

(* The locations that hold a file at first are numbered.                   *)
LEMMA HeldNumbered ==
  /\ Cardinality(Held) \in Nat
  /\ \A l \in Held :
       (CHOOSE i \in 1 .. Cardinality(Held) : SetToSeq(Held)[i] = l)
         \in 1 .. Cardinality(Held)
  /\ \A l \in Held : SetToSeq(Held)[
       CHOOSE i \in 1 .. Cardinality(Held) : SetToSeq(Held)[i] = l] = l
<1> DEFINE n == Cardinality(Held)
           Numbers(f) == f \in [1 .. n -> Held] /\ IsInjective(f)
<1>1. n \in Nat /\ ExistsBijection(1 .. n, Held)
  BY DiskAssumption, FS_CardinalityType
<1>2. PICK b : b \in Bijection(1 .. n, Held)
  BY <1>1 DEF ExistsBijection
<1>3. Numbers(b)
  BY <1>2 DEF Bijection, Injection
<1>4. SetToSeq(Held) = CHOOSE f \in [1 .. n -> Held] : IsInjective(f)
  BY DEF SetToSeq
<1>5. Numbers(SetToSeq(Held))
  BY <1>3, <1>4
<1>6. SetToSeq(Held) \in Injection(1 .. n, Held)
  BY <1>5 DEF Injection
<1>7. SetToSeq(Held) \in Surjection(1 .. n, Held)
  <2>1. IsFiniteSet(1 .. n) /\ Cardinality(1 .. n) = n
    BY <1>1, FS_Interval
  <2> QED
    BY <1>6, <2>1, DiskAssumption, FS_Injection
<1>8. \A l \in Held : \E i \in 1 .. n : SetToSeq(Held)[i] = l
  BY <1>7 DEF Surjection
<1> QED
  BY <1>1, <1>8

(* At first nothing is asked for, and the files there are hold the text.   *)
LEMMA FilesInit ==
  ASSUME Init
  PROVE  ShapeInv /\ StageInv /\ FoundInv /\ DirInv
<1> DEFINE n == Cardinality(Held)
<1>1. /\ data \in Seq(Seq(Blocks)) /\ Len(data) = n /\ n \in Nat
  <2>1. n \in Nat /\ <<Text>> \in Seq(Blocks)
    BY HeldNumbered, BlocksOK
  <2>2. data = [i \in 1 .. n |-> <<Text>>]
    BY DEF Init
  <2>3. [i \in 1 .. n |-> <<Text>>] \in Seq(Seq(Blocks))
        /\ Len([i \in 1 .. n |-> <<Text>>]) = n
    <3> HIDE DEF n
    <3> QED
      BY <2>1
  <2> QED
    BY <2>1, <2>2, <2>3
<1>2. inode \in [Locations -> 0 .. n]
  <2>1. \A l \in Held :
          (CHOOSE i \in 1 .. n : SetToSeq(Held)[i] = l) \in 0 .. n
    <3>1. 1 .. n \subseteq 0 .. n
      BY <1>1
    <3> HIDE DEF n
    <3> QED
      BY <3>1, HeldNumbered DEF n
  <2> QED
    BY <1>1, <2>1 DEF Init
<1>3. /\ inode \in [Locations -> Nat]
      /\ \A l \in Locations : inode[l] <= Len(data)
  BY <1>1, <1>2
<1>4. /\ pc = [s \in Slots |-> "idle"] /\ job = [s \in Slots |-> NoJob]
      /\ file = [s \in Slots |-> <<>>] /\ fd = [s \in Slots |-> 0]
      /\ buffer = [s \in Slots |-> <<>>] /\ pos = [s \in Slots |-> 0]
      /\ todo = [s \in Slots |-> {}] /\ found = [s \in Slots |-> {}]
      /\ begun = 0 /\ alone = {} /\ safe = {} /\ vanished = {}
      /\ appended = [l \in Locations |-> {}]
      /\ steady = [s \in Slots |-> {}]
  BY DEF Init
<1>5. ideal \in [Locations -> Seq(Blocks) \cup {None, Unknown}]
  <2>1. <<Text>> \in Seq(Blocks)
    BY BlocksOK
  <2> QED
    BY <2>1 DEF Init
<1>6. ShapeInv
  <2>1. pc \in [Slots -> Steps] /\ job \in [Slots -> Jobs \cup {NoJob}]
    BY <1>4 DEF Steps
  <2>2. buffer \in [Slots -> Seq(Blocks)] /\ begun \in 0 .. MaxRequests
    BY <1>4, BlocksOK
  <2>3. /\ file \in [Slots -> Shown \cup {<<>>}] /\ fd \in [Slots -> Nat]
        /\ pos \in [Slots -> Nat] /\ todo \in [Slots -> SUBSET Places]
        /\ found \in [Slots -> SUBSET (Places \X Nat)]
        /\ appended \in [Locations -> SUBSET (1 .. MaxRequests)]
        /\ steady \in [Slots -> SUBSET Places]
        /\ alone \subseteq Slots /\ safe \subseteq Slots
        /\ vanished \subseteq Slots
    BY <1>4
  <2> QED
    BY <1>1, <1>3, <1>5, <2>1, <2>2, <2>3 DEF ShapeInv
<1>7. StageInv
  <2>1. NoJob.op = "none" /\ NoJob.at = <<>> /\ "idle" \in StepsOf("none")
    BY DEF NoJob, StepsOf
  <2> QED
    BY <1>4, <2>1 DEF StageInv, StageOf, Limited
<1>8. FoundInv
  BY <1>4, FS_EmptySet DEF FoundInv, FoundOf
<1>9. DirInv
  BY <1>4 DEF DirInv
<1> QED
  BY <1>6, <1>7, <1>8, <1>9

(* A request that goes on leaves what is known of the files as it was.     *)
Works(s) == UNCHANGED <<job, begun, ghosts>> /\ pc[s] # "idle"

Ends(s) ==
  /\ Written(s) /\ pc[s] # "idle"
  /\ ReplaceFindsNothing(s) \/ WriteBlock(s) \/ Finished(s) \/ AppendBlock(s)

Removes(s) == \E p \in Places : RunRemoves(s, p)

(* A step begins a request, gives it up, ends it, removes a file, or goes  *)
(* on with a request.                                                      *)
LEMMA Sorts ==
  ASSUME NEW s \in Slots, Kinds(s)
  PROVE  \/ Begins(s) \/ Cancel(s) \/ Dropped(s) \/ Ends(s) \/ Removes(s)
         \/ Works(s)
<1>1. CASE Begins(s) \/ Cancel(s) \/ Dropped(s)
  BY <1>1
<1>2. CASE Moved(s)
  BY <1>2 DEF Moved, AtEnd, Works
<1>3. CASE OpenRead(s) \/ ReadBlock(s)
  BY <1>3 DEF OpenRead, ReadBlock, Works
<1>4. CASE ReplaceMatches(s) \/ GrepMatches(s)
  BY <1>4 DEF ReplaceMatches, GrepMatches, AtEnd, Works
<1>5. CASE ReplaceFindsNothing(s)
  BY <1>5 DEF ReplaceFindsNothing, AtEnd, Ends
<1>6. CASE OpenWrite(s)
  BY <1>6 DEF OpenWrite, Works
<1>7. CASE WriteBlock(s)
  BY <1>7 DEF WriteBlock, MoreToWrite, Works, Ends
<1>8. CASE Finished(s)
  BY <1>8 DEF Finished, Ends
<1>9. CASE Touched(s) \/ OpenAppend(s)
  BY <1>9 DEF Touched, OpenAppend, Works
<1>10. CASE AppendBlock(s)
  BY <1>10 DEF AppendBlock, MoreToWrite, Works, Ends
<1>11. CASE ReadDir(s) \/ StatEntry(s) \/ Walk(s) \/ NextFile(s)
  BY <1>11 DEF ReadDir, StatEntry, Walk, NextFile, Works
<1>12. CASE MadeDir(s)
  BY <1>12 DEF MadeDir, Works
<1>13. ASSUME NEW p \in Places, RunRemoves(s, p)
       PROVE  Removes(s)
  BY <1>13 DEF Removes
<1> QED
  BY <1>1, <1>2, <1>3, <1>4, <1>5, <1>6, <1>7, <1>8, <1>9, <1>10, <1>11,
     <1>12, <1>13 DEF Kinds

(* Where a request works depends on what was asked for, but for grep.      *)
Target(t) == Where[job[t].roots][job[t].at]

(* Who uses a file depends on the jobs alone.                              *)
LEMMA UsersOf ==
  /\ StageInv => \A l :
       /\ Writers(l) = {t \in Slots : job[t].op \in Writing /\ Target(t) = l}
       /\ Overwriters(l) =
            {t \in Slots : job[t].op \in Overwriting /\ Target(t) = l}
       /\ Users(l) = {t \in Slots :
                        job[t].op \in Writing \cup Reading /\ Target(t) = l}
       /\ \A t \in Slots : job[t].op # "grep" => At(t) = Target(t)
  /\ StageInv' => \A l :
       /\ Writers(l)' = {t \in Slots : job'[t].op \in Writing
                                       /\ Target(t)' = l}
       /\ Overwriters(l)' =
            {t \in Slots : job'[t].op \in Overwriting /\ Target(t)' = l}
       /\ Users(l)' = {t \in Slots :
                         job'[t].op \in Writing \cup Reading /\ Target(t)' = l}
       /\ \A t \in Slots : job'[t].op # "grep" => At(t)' = Target(t)'
<1>1. /\ StageInv => \A t \in Slots : job[t].op # "grep" => At(t) = Target(t)
      /\ StageInv' =>
            \A t \in Slots : job'[t].op # "grep" => At(t)' = Target(t)'
  BY DEF StageInv, StageOf, At, Target
<1>2. /\ "grep" \notin Writing /\ "grep" \notin Overwriting
      /\ "grep" \notin Writing \cup Reading /\ Overwriting \subseteq Writing
  BY DEF Writing, Overwriting, Reading
<1>3. \A l : Users(l) =
         {t \in Slots : job[t].op \in Writing \cup Reading /\ At(t) = l}
  BY DEF Users
<1>4. \A l : Users(l)' =
         {t \in Slots : job'[t].op \in Writing \cup Reading /\ At(t)' = l}
  BY DEF Users
<1>5. StageInv => \A l : Users(l) = {t \in Slots :
                        job[t].op \in Writing \cup Reading /\ Target(t) = l}
  BY <1>1, <1>2, <1>3
<1>6. StageInv' => \A l : Users(l)' = {t \in Slots :
                         job'[t].op \in Writing \cup Reading /\ Target(t)' = l}
  BY <1>1, <1>2, <1>4
<1>7. /\ \A l : Writers(l) = {t \in Users(l) : job[t].op \in Writing}
      /\ \A l : Overwriters(l) = {t \in Users(l) : job[t].op \in Overwriting}
      /\ \A l : Writers(l)' = {t \in Users(l)' : job'[t].op \in Writing}
      /\ \A l : Overwriters(l)' =
            {t \in Users(l)' : job'[t].op \in Overwriting}
  BY DEF Writers, Overwriters
<1>8. StageInv => \A l :
        /\ Writers(l) = {t \in Slots : job[t].op \in Writing /\ Target(t) = l}
        /\ Overwriters(l) =
             {t \in Slots : job[t].op \in Overwriting /\ Target(t) = l}
  BY <1>2, <1>5, <1>7
<1>9. StageInv' => \A l :
        /\ Writers(l)' = {t \in Slots : job'[t].op \in Writing
                                        /\ Target(t)' = l}
        /\ Overwriters(l)' =
             {t \in Slots : job'[t].op \in Overwriting /\ Target(t)' = l}
  BY <1>2, <1>6, <1>7
<1> QED
  BY <1>1, <1>5, <1>6, <1>8, <1>9

(* An open file goes by no other name than that of the request that has it *)
(* open, and by that only until it is removed.                             *)
LEMMA NewlyOpen ==
  ASSUME ShapeInv, NEW s \in Slots, Kinds(s),
         pc'[s] \in {"read", "write", "append"}
  PROVE  /\ job'[s] = job[s] /\ file'[s] = file[s]
         /\ \/ pc'[s] = pc[s] /\ fd'[s] = fd[s]
            \/ /\ fd'[s] = inode'[At(s)]
               /\ pc[s] \in {"open read", "open write", "open append"}
<1>0. /\ DOMAIN pc = Slots /\ DOMAIN job = Slots /\ DOMAIN file = Slots
      /\ DOMAIN fd = Slots
  BY DEF ShapeInv
<1>1. ~Over(s)
  BY <1>0 DEF Over, Go
<1>2. ~Begins(s)
  <2>1. ASSUME NEW op \in Ops, NEW request \in Asked, NEW roots \in Mounts,
               NEW limit \in Nat, Begin(s, op, request, roots, limit)
        PROVE  FALSE
    <3>1. pc'[s] = FirstStep(op)
      BY <1>0, <2>1 DEF Begin
    <3> QED
      BY <3>1 DEF FirstStep, Ops, Writing, Overwriting, Reading, Searching
  <2> QED
    BY <2>1 DEF Begins
<1>3. ~Moved(s) /\ ~Touched(s) /\ ~MadeDir(s)
  BY <1>0 DEF Moved, Go, Touched, MadeDir
<1>4. CASE OpenRead(s)
  BY <1>0, <1>4 DEF OpenRead, disk
<1>5. CASE ReadBlock(s)
  BY <1>0, <1>5 DEF ReadBlock
<1>6. ~ReplaceMatches(s) /\ ~GrepMatches(s)
  BY <1>0 DEF ReplaceMatches, GrepMatches, Go
<1>7. CASE OpenWrite(s)
  BY <1>0, <1>7 DEF OpenWrite
<1>8. CASE WriteBlock(s)
  BY <1>0, <1>1, <1>8 DEF WriteBlock, MoreToWrite, Written, Go
<1>9. CASE OpenAppend(s)
  BY <1>0, <1>9 DEF OpenAppend
<1>10. CASE AppendBlock(s)
  BY <1>0, <1>1, <1>10 DEF AppendBlock, MoreToWrite, Written
<1>11. ~ReadDir(s) /\ ~Walk(s) /\ ~NextFile(s)
  BY <1>0 DEF ReadDir, Walk, NextFile, Go
<1>12. CASE StatEntry(s)
  BY <1>0, <1>12 DEF StatEntry
<1>13. ASSUME NEW p \in Places, RunRemoves(s, p)
       PROVE  FALSE
  BY <1>13 DEF RunRemoves
<1> QED
  BY <1>1, <1>2, <1>3, <1>4, <1>5, <1>6, <1>7, <1>8, <1>9, <1>10, <1>11,
     <1>12, <1>13 DEF Kinds, Cancel, BreaksOff, Dropped, Fails,
     ReplaceFindsNothing, Finished, Written

(* Where a file is found, after a step.                                    *)
LEMMA NamesAfter ==
  ASSUME ShapeInv, StageInv, NEW s \in Slots, Kinds(s), NEW l \in Locations
  PROVE  \/ inode'[l] = inode[l]
         \/ inode'[l] = 0
         \/ inode'[l] = Len(data) + 1 /\ l = At(s)
<1>0. inode \in [Locations -> Nat]
  BY DiskOK
<1>1. CASE FileMade(s)
  <2>1. At(s) \in Locations
    BY <1>1, Busy DEF FileMade
  <2> QED
    BY <1>1, <2>1, CreatedOK DEF FileMade
<1>2. CASE FileRemoved(s)
  BY <1>0, <1>2 DEF FileRemoved, RunRemoves
<1>3. CASE UNCHANGED inode
  BY <1>3
<1> QED
  BY <1>1, <1>2, <1>3, FileSteps DEF FilesChange, NothingDone, FileEmptied,
     BlockPut, BlockAppended

(* InodeInv is inductive.                                                  *)
LEMMA InodeNext ==
  ASSUME ShapeInv, StageInv, InodeInv, [Next]_vars
  PROVE  InodeInv'
<1>1. CASE UNCHANGED vars
  BY <1>1 DEF vars, disk, work, InodeInv, At
<1>2. ASSUME NEW s \in Slots, Kinds(s)
      PROVE  InodeInv'
  <2>0. /\ Len(data) \in Nat
        /\ \A l \in Locations : inode[l] \in Nat /\ inode[l] <= Len(data)
    BY DiskOK
  <2>1. \A l \in Locations :
          \/ inode'[l] = inode[l]
          \/ inode'[l] = 0
          \/ inode'[l] = Len(data) + 1 /\ l = At(s)
    BY <1>2, NamesAfter
  <2>2. \A l, m \in Locations :
          inode'[l] # 0 /\ inode'[l] = inode'[m] => l = m
    BY <2>0, <2>1 DEF InodeInv
  <2>3. ASSUME NEW t \in Slots, pc'[t] \in {"read", "write", "append"},
               NEW l \in Locations, inode'[l] = fd'[t]
        PROVE  l = At(t)'
    <3>1. CASE /\ Same(t) \/ (pc'[t] = pc[t] /\ fd'[t] = fd[t])
               /\ job'[t] = job[t] /\ file'[t] = file[t]
      <4>1. pc[t] \in {"read", "write", "append"} /\ fd'[t] = fd[t]
            /\ At(t)' = At(t)
        BY <2>3, <3>1 DEF Same, At
      <4>2. fd[t] \in 1 .. Len(data)
        BY <4>1, Opened
      <4>3. inode'[l] = inode[l]
        BY <2>0, <2>1, <2>3, <4>1, <4>2
      <4> QED
        BY <2>3, <4>1, <4>3 DEF InodeInv
    <3>2. CASE t # s
      BY <1>2, <3>1, <3>2, OthersAreSame DEF Same
    <3>3. CASE /\ t = s /\ fd'[s] = inode'[At(s)] /\ pc[s] # "idle"
               /\ job'[s] = job[s] /\ file'[s] = file[s]
      <4>1. At(s)' = At(s) /\ At(s) \in Locations
        BY <3>3, Busy DEF At
      <4>2. fd'[s] # 0
        <5>1. fd'[s] \in 1 .. Len(data')
          <6>1. StageOf(s)'
            BY <1>2, FilesGrow, StageMoves
          <6> QED
            BY <2>3, <3>3, <6>1 DEF StageOf
        <5> QED
          BY <5>1
      <4> QED
        BY <2>2, <2>3, <3>3, <4>1, <4>2
    <3> QED
      BY <1>2, <2>3, <3>1, <3>2, <3>3, NewlyOpen
  <2> QED
    BY <2>2, <2>3 DEF InodeInv
<1> QED
  BY <1>1, <1>2, NextCases

(* Blocks are numbers; so no block is unknown for ever.                    *)
LEMMA BlocksAreNumbers ==
  /\ Blocks \subseteq Int /\ Text = 0 /\ Hole = -1
  /\ ShapeInv => begun \in Nat
BY FileAssumption DEF Blocks, Text, Hole, ShapeInv

(* What was known before is known later.                                   *)
LEMMA KnownLonger ==
  ASSUME NEW content \in Seq(Blocks), NEW m \in Nat, NEW n \in Nat, m <= n,
         KnownTo(m, content)
  PROVE  KnownTo(n, content)
<1> SUFFICES ASSUME NEW k \in DOMAIN content
             PROVE  content[k] <= n
  BY DEF KnownTo
<1>1. content[k] \in Blocks /\ content[k] <= m
  BY DEF KnownTo
<1>2. content[k] \in Int
  BY <1>1, BlocksAreNumbers
<1> QED
  BY <1>1, <1>2

(* What is in the files was written by requests that have begun.           *)
LEMMA DataKnown ==
  ASSUME ShapeInv, StageInv, IdInv, NEW s \in Slots, Kinds(s)
  PROVE  \A i \in DOMAIN data' : KnownTo(begun, data'[i])
<1>0. /\ data \in Seq(Seq(Blocks)) /\ begun \in Nat
      /\ \A i \in DOMAIN data : KnownTo(begun, data[i])
      /\ KnownTo(begun, buffer[s]) /\ KnownTo(begun, <<>>)
  BY DiskOK, BlocksAreNumbers DEF IdInv, KnownTo
<1>1. CASE NothingDone \/ FileRemoved(s)
  BY <1>0, <1>1 DEF NothingDone, FileRemoved
<1>2. CASE FileMade(s)
  <2>1. At(s) \in Locations
    BY <1>2, Busy DEF FileMade
  <2>2. data' = Append(data, <<>>)
    BY <1>2 DEF FileMade, Created
  <2> QED
    BY <1>0, <2>2, AppendProperties, BlocksOK
<1>3. ASSUME NEW j, NEW new, data' = [data EXCEPT ![j] = new],
             KnownTo(begun, new)
      PROVE  \A i \in DOMAIN data' : KnownTo(begun, data'[i])
  BY <1>0, <1>3
<1>4. CASE FileEmptied(s)
  BY <1>0, <1>3, <1>4 DEF FileEmptied
<1>5. CASE BlockPut(s)
  <2> DEFINE c == data[fd[s]]
             b == buffer[s][pos[s] + 1]
  <2>1. /\ c \in Seq(Blocks) /\ b \in Blocks /\ pos[s] + 1 \in Nat \ {0}
        /\ fd[s] \in DOMAIN data /\ pos[s] + 1 \in DOMAIN buffer[s]
    BY <1>0, <1>5, Opened DEF BlockPut
  <2>2. KnownTo(begun, c) /\ b <= begun
    BY <1>0, <2>1 DEF KnownTo
  <2>3. Hole <= begun
    BY <1>0, BlocksAreNumbers
  <2> HIDE DEF c, b
  <2>4. KnownTo(begun, Put(c, pos[s] + 1, b))
    <3>1. Put(c, pos[s] + 1, b) \in Seq(Blocks)
      BY <2>1, PutOK
    <3>2. \A i \in DOMAIN Put(c, pos[s] + 1, b) :
            Put(c, pos[s] + 1, b)[i] \in {b, Hole} \/
              (i \in DOMAIN c /\ Put(c, pos[s] + 1, b)[i] = c[i])
      <4>1. /\ DOMAIN Put(c, pos[s] + 1, b) = 1 .. Len(Put(c, pos[s] + 1, b))
            /\ DOMAIN c = 1 .. Len(c) /\ Len(c) \in Nat
        BY <2>1, <3>1
      <4>2. \A i \in 1 .. Len(Put(c, pos[s] + 1, b)) :
              Put(c, pos[s] + 1, b)[i] =
                IF i = pos[s] + 1 THEN b
                ELSE IF i <= Len(c) THEN c[i] ELSE Hole
        BY ONLY <2>1, PutOK
      <4>3. \A i \in DOMAIN Put(c, pos[s] + 1, b) :
              i <= Len(c) => i \in DOMAIN c
        BY <4>1
      <4> QED
        BY ONLY <4>1, <4>2, <4>3
    <3> QED
      BY <2>2, <2>3, <3>2 DEF KnownTo
  <2> QED
    BY <1>3, <1>5, <2>4 DEF BlockPut, c, b
<1>6. CASE BlockAppended(s)
  <2> DEFINE c == data[fd[s]]
             b == buffer[s][pos[s] + 1]
  <2>1. /\ c \in Seq(Blocks) /\ b \in Blocks
        /\ fd[s] \in DOMAIN data /\ pos[s] + 1 \in DOMAIN buffer[s]
    BY <1>0, <1>6, Opened DEF BlockAppended
  <2>2. KnownTo(begun, c) /\ b <= begun
    BY <1>0, <2>1 DEF KnownTo
  <2> HIDE DEF c, b
  <2>3. KnownTo(begun, Append(c, b))
    BY <2>1, <2>2, AppendProperties DEF KnownTo
  <2> QED
    BY <1>3, <1>6, <2>3 DEF BlockAppended, Appended, c, b
<1> QED
  BY <1>1, <1>2, <1>4, <1>5, <1>6, FileSteps DEF FilesChange

(* So is what a request has in hand.                                       *)
LEMMA BufferKnown ==
  ASSUME ShapeInv, StageInv, IdInv, NEW s \in Slots, Kinds(s), ~Begins(s)
  PROVE  KnownTo(begun, buffer'[s])
<1>0. /\ DOMAIN buffer = Slots /\ buffer[s] \in Seq(Blocks)
      /\ KnownTo(begun, buffer[s]) /\ KnownTo(begun, <<>>)
  BY DEF ShapeInv, IdInv, KnownTo
<1>1. CASE Over(s)
  BY <1>0, <1>1 DEF Over
<1>2. CASE buffer'[s] = buffer[s]
  BY <1>0, <1>2
<1>3. CASE OpenRead(s)
  BY <1>0, <1>3 DEF OpenRead
<1>4. CASE ReadBlock(s)
  <2> DEFINE c == data[fd[s]]
             n == Len(buffer[s]) + 1
  <2>1. /\ c \in Seq(Blocks) /\ n \in DOMAIN c /\ fd[s] \in DOMAIN data
    BY <1>4, Opened, DiskOK DEF ReadBlock
  <2>2. c[n] <= begun /\ c[n] \in Blocks
    BY <2>1 DEF IdInv, KnownTo
  <2>3. buffer'[s] = Append(buffer[s], c[n])
    BY <1>0, <1>4 DEF ReadBlock
  <2> HIDE DEF c, n
  <2> QED
    BY <1>0, <2>2, <2>3, AppendProperties DEF KnownTo
<1>5. CASE ReplaceMatches(s)
  <2>1. buffer'[s] = [i \in DOMAIN buffer[s] |->
                        IF buffer[s][i] = Text THEN job[s].id
                            ELSE buffer[s][i]]
    BY <1>0, <1>5 DEF ReplaceMatches
  <2>2. job[s].id <= begun
    BY <1>5 DEF ReplaceMatches, AtEnd, IdInv
  <2> QED
    BY <1>0, <2>1, <2>2 DEF KnownTo
<1>6. CASE Moved(s) \/ GrepMatches(s) \/ OpenWrite(s)
  BY <1>2, <1>6 DEF Moved, work, GrepMatches, OpenWrite
<1>7. CASE WriteBlock(s) \/ AppendBlock(s)
  BY <1>1, <1>2, <1>7 DEF WriteBlock, AppendBlock, MoreToWrite, Written, work
<1>8. CASE Touched(s) \/ OpenAppend(s)
  BY <1>2, <1>8 DEF Touched, OpenAppend, work
<1>9. CASE ReadDir(s) \/ StatEntry(s) \/ Walk(s) \/ NextFile(s) \/ MadeDir(s)
  BY <1>2, <1>9 DEF ReadDir, StatEntry, Walk, NextFile, MadeDir, work
<1>10. ASSUME NEW p \in Places, RunRemoves(s, p)
       PROVE  buffer'[s] = buffer[s]
  BY <1>10 DEF RunRemoves, work
<1> QED
  BY <1>1, <1>2, <1>3, <1>4, <1>5, <1>6, <1>7, <1>8, <1>9, <1>10 DEF Kinds,
     Cancel, BreaksOff, Dropped, Fails, ReplaceFindsNothing, Finished, Written

(* A request that begins has a number of its own.                          *)
LEMMA IdNext ==
  ASSUME ShapeInv, StageInv, IdInv, [Next]_vars
  PROVE  IdInv'
<1>1. CASE UNCHANGED vars
  BY <1>1 DEF vars, disk, work, IdInv, KnownTo
<1>2. ASSUME NEW s \in Slots, Kinds(s)
      PROVE  IdInv'
  <2>0. /\ DOMAIN pc = Slots /\ DOMAIN job = Slots /\ DOMAIN buffer = Slots
        /\ begun \in Nat /\ data \in Seq(Seq(Blocks))
    BY BlocksAreNumbers DEF ShapeInv
  <2>1. \A t \in Slots \ {s} : Same(t)
    BY <1>2, OthersAreSame
  <2>2. CASE Begins(s)
    <3>1. PICK op \in Ops, request \in Asked, roots \in Mounts, limit \in Nat :
            Begin(s, op, request, roots, limit)
      BY <2>2 DEF Begins
    <3>2. /\ begun' = begun + 1 /\ job'[s].id = begun + 1 /\ data' = data
          /\ buffer'[s] \in
                {<<begun + 1, Text>>, <<begun + 1, begun + 1>>, <<>>}
      BY <2>0, <3>1 DEF Begin
    <3>3. \A t \in Slots \ {s} : pc[t] # "idle" => job[t].id \in 1 .. begun
      <4>1. \A t \in Slots : pc[t] # "idle" =>
               job[t].id \in Nat /\ job[t].id > 0
        BY Busy DEF Jobs
      <4> QED
        BY <2>0, <4>1 DEF IdInv
    <3>4. /\ \A t \in Slots : pc'[t] # "idle" => job'[t].id <= begun'
          /\ \A t, u \in Slots : pc'[t] # "idle" /\ pc'[u] # "idle" /\ t # u =>
               job'[t].id # job'[u].id
      <4>1. \A t \in Slots \ {s} : pc'[t] = pc[t] /\ job'[t] = job[t]
        BY <2>1 DEF Same
      <4>2. \A t \in Slots \ {s} : pc'[t] # "idle" => job'[t].id \in 1 .. begun
        BY <3>3, <4>1
      <4>3. \A t, u \in Slots \ {s} :
              pc'[t] # "idle" /\ pc'[u] # "idle" /\ t # u =>
                job'[t].id # job'[u].id
        BY <4>1 DEF IdInv
      <4>4. job'[s].id <= begun' /\ job'[s].id \notin 1 .. begun
            /\ \A n \in 1 .. begun : n <= begun'
        BY <2>0, <3>2
      <4>5. \A t \in Slots \ {s} : pc'[t] # "idle" => job'[t].id # job'[s].id
        BY <4>2, <4>4
      <4> QED
        BY <4>2, <4>3, <4>4, <4>5
    <3>5. \A i \in DOMAIN data' : KnownTo(begun', data'[i])
      BY <2>0, <3>2, KnownLonger DEF IdInv
    <3>6. \A t \in Slots : KnownTo(begun', buffer'[t])
      <4>1. KnownTo(begun', buffer'[s])
        <5>1. /\ KnownTo(begun + 1, <<begun + 1, Text>>)
              /\ KnownTo(begun + 1, <<begun + 1, begun + 1>>)
              /\ KnownTo(begun + 1, <<>>)
          BY <2>0, BlocksAreNumbers DEF KnownTo
        <5> QED
          BY <3>2, <5>1
      <4>2. \A t \in Slots : buffer[t] \in Seq(Blocks)
        BY DEF ShapeInv
      <4>3. \A t \in Slots \ {s} : KnownTo(begun', buffer'[t])
        BY <2>0, <2>1, <3>2, <4>2, KnownLonger DEF IdInv, Same
      <4> QED
        BY <4>1, <4>3
    <3> QED
      BY <3>4, <3>5, <3>6 DEF IdInv
  <2>3. CASE ~Begins(s)
    <3>1. begun' = begun
      BY <1>2, <2>3, Sorts DEF Cancel, BreaksOff, Dropped, Fails, Ends,
         Written, Removes, RunRemoves, Works
    <3>2. pc'[s] = "idle" \/ (job'[s] = job[s] /\ pc[s] # "idle")
      BY <1>2, <2>0, <2>3, Sorts DEF Cancel, BreaksOff, Dropped, Fails, Ends,
         Written, Over, Go, Removes, RunRemoves, Works
    <3>3. \A t \in Slots :
            pc'[t] = "idle" \/ (job'[t] = job[t] /\ pc[t] # "idle")
      BY <2>1, <3>2 DEF Same
    <3>4. \A i \in DOMAIN data' : KnownTo(begun, data'[i])
      BY <1>2, DataKnown
    <3>5. \A t \in Slots : KnownTo(begun, buffer'[t])
      BY <1>2, <2>1, <2>3, BufferKnown DEF IdInv, Same
    <3> QED
      BY <3>1, <3>3, <3>4, <3>5 DEF IdInv
  <2> QED
    BY <2>2, <2>3
<1> QED
  BY <1>1, <1>2, NextCases

(* A step leaves the files alone that its request does not write.          *)
LEMMA Elsewhere ==
  ASSUME ShapeInv, StageInv, InodeInv, NEW s \in Slots, Kinds(s),
         NEW l \in Locations,
         l # At(s) \/ job[s].op \notin Writing,
         \A p \in Places : RunRemoves(s, p) => l # Where[job[s].roots][p]
  PROVE  /\ inode'[l] = inode[l]
         /\ inode[l] # 0 => data'[inode[l]] = data[inode[l]]
<1>0. /\ data \in Seq(Seq(Blocks)) /\ inode \in [Locations -> Nat]
      /\ Len(data) \in Nat /\ inode[l] \in Nat /\ inode[l] <= Len(data)
  BY DiskOK
<1>1. /\ pc[s] \in {"open write", "write", "touch", "open append", "append"} =>
           l # At(s)
      /\ pc[s] # "idle" => At(s) \in Locations
  BY OpAt, Busy DEF Writing, Overwriting
<1>2. CASE NothingDone
  BY <1>2 DEF NothingDone
<1>3. CASE FileMade(s)
  <2>1. inode[l] # 0 => inode[l] \in 1 .. Len(data)
    BY <1>0
  <2> QED
    BY <1>1, <1>3, <2>1, CreatedOK DEF FileMade
<1>4. CASE FileEmptied(s)
  <2>1. inode[l] # 0 => inode[l] # inode[At(s)]
    BY <1>1, <1>4 DEF FileEmptied, InodeInv
  <2> QED
    <3>1. inode[l] # 0 => inode[l] \in DOMAIN data
      BY <1>0
    <3> QED
      BY <1>4, <2>1, <3>1 DEF FileEmptied
<1>5. CASE BlockPut(s) \/ BlockAppended(s)
  <2>1. inode[l] # fd[s]
    BY <1>1, <1>5 DEF BlockPut, BlockAppended, InodeInv
  <2> QED
    BY <1>5, <2>1, <1>0 DEF BlockPut, BlockAppended
<1>6. CASE FileRemoved(s)
  BY <1>0, <1>6 DEF FileRemoved, RunRemoves
<1> QED
  BY <1>2, <1>3, <1>4, <1>5, <1>6, FileSteps DEF FilesChange

(* How often a block occurs, counted as a file grows.                      *)
LEMMA TimesCounted ==
  ASSUME NEW content \in Seq(Blocks), NEW id
  PROVE  /\ Times(content, id) \in Nat /\ Times(<<>>, id) = 0
         /\ (\A k \in DOMAIN content : content[k] # id) =>
               Times(content, id) = 0
         /\ \A b \in Blocks :
              Times(Append(content, b), id) =
                Times(content, id) + (IF b = id THEN 1 ELSE 0)
<1> DEFINE n == Len(content)
           at(c) == {i \in DOMAIN c : c[i] = id}
<1>0. n \in Nat /\ DOMAIN content = 1 .. n
  OBVIOUS
<1>1. IsFiniteSet(at(content)) /\ Times(content, id) \in Nat
  <2>1. IsFiniteSet(1 .. n)
    BY <1>0, FS_Interval
  <2>2. IsFiniteSet(at(content))
    BY <1>0, <2>1, FS_Subset
  <2> QED
    BY <2>2, FS_CardinalityType DEF Times
<1>2. Times(<<>>, id) = 0
  <2>1. at(<<>>) = {}
    OBVIOUS
  <2> QED
    BY <2>1, FS_EmptySet DEF Times
<1>3. (\A k \in DOMAIN content : content[k] # id) => Times(content, id) = 0
  <2>1. (\A k \in DOMAIN content : content[k] # id) => at(content) = {}
    OBVIOUS
  <2> QED
    BY <2>1, FS_EmptySet DEF Times
<1>4. ASSUME NEW b \in Blocks
      PROVE  Times(Append(content, b), id) =
               Times(content, id) + (IF b = id THEN 1 ELSE 0)
  <2> DEFINE c == Append(content, b)
  <2>1. /\ DOMAIN c = 1 .. n + 1 /\ c[n + 1] = b
        /\ \A i \in 1 .. n : c[i] = content[i]
    BY <1>0, AppendProperties
  <2> HIDE DEF c
  <2>2. at(c) = IF b = id THEN at(content) \cup {n + 1} ELSE at(content)
    BY <1>0, <2>1
  <2>3. n + 1 \notin at(content)
    BY <1>0
  <2>4. Cardinality(at(content) \cup {n + 1}) = Cardinality(at(content)) + 1
    BY <1>1, <2>3, FS_AddElement
  <2>5. Times(c, id) = IF b = id THEN Times(content, id) + 1
                       ELSE Times(content, id)
    BY <2>2, <2>4 DEF Times
  <2> QED
    BY <1>1, <2>5 DEF c
<1> QED
  BY <1>1, <1>2, <1>3, <1>4

(* What a step can do to a file that nobody overwrites or removes: make    *)
(* it, or add a block to it.                                               *)
LEMMA TimesKept ==
  ASSUME ShapeInv, StageInv, InodeInv, NEW s \in Slots, Kinds(s),
         NEW l \in Locations, Overwriters(l) = {},
         \A p \in Places : RunRemoves(s, p) => l # Where[job[s].roots][p],
         NEW id, pc[s] # "idle" => job[s].id # id
  PROVE  \/ /\ inode[l] = 0
            /\ inode'[l] # 0 => data'[inode'[l]] = <<>>
         \/ /\ inode[l] # 0 /\ inode'[l] = inode[l]
            /\ Times(data'[inode[l]], id) = Times(data[inode[l]], id)
<1>0. /\ data \in Seq(Seq(Blocks)) /\ inode \in [Locations -> Nat]
      /\ Len(data) \in Nat /\ inode[l] \in Nat /\ inode[l] <= Len(data)
  BY DiskOK
<1>1. CASE l # At(s) \/ job[s].op \notin Writing
  BY <1>0, <1>1, Elsewhere
<1>2. CASE l = At(s) /\ job[s].op \in Writing
  <2>1. job[s].op = "append"
    <3>1. s \in Overwriters(l) \/ job[s].op \notin Overwriting
      BY <1>2 DEF Overwriters, Users, Writing
    <3> QED
      BY <1>2, <3>1 DEF Writing
  <2>2. /\ pc[s] \in {"touch", "chmod append", "open append", "append"}
        /\ buffer[s] = <<job[s].id, job[s].id>>
    BY <2>1 DEF StageInv, StageOf, StepsOf
  <2>3. CASE NothingDone
    BY <2>3 DEF NothingDone
  <2>4. CASE FileMade(s)
    <3>1. inode[l] = 0 /\ Created(l)
      BY <1>2, <2>4 DEF FileMade
    <3>2. inode'[l] = Len(data) + 1 /\ data'[Len(data) + 1] = <<>>
      BY <3>1, CreatedOK
    <3> QED
      BY <3>1, <3>2
  <2>5. CASE BlockAppended(s)
    <3>1. /\ inode'[l] = inode[l] /\ fd[s] \in 1 .. Len(data)
          /\ data' = [data EXCEPT ![fd[s]] = Appended(s)]
          /\ pos[s] + 1 \in 1 .. Len(buffer[s])
          /\ buffer[s][pos[s] + 1] \in Blocks
      BY <2>5, Opened DEF BlockAppended
    <3>2. buffer[s][pos[s] + 1] # id
      <4>1. \A x : \A k \in 1 .. Len(<<x, x>>) : <<x, x>>[k] = x
        OBVIOUS
      <4>3. buffer[s] = <<job[s].id, job[s].id>>
        BY <2>2
      <4>4. \A k \in 1 .. Len(buffer[s]) : buffer[s][k] = job[s].id
        BY <4>1, <4>3
      <4>2. job[s].id # id
        BY <2>2
      <4> QED
        BY <3>1, <4>2, <4>4
    <3>3. CASE inode[l] # 0
      <4>1. inode[l] \in 1 .. Len(data) /\ data[inode[l]] \in Seq(Blocks)
        BY <1>0, <3>3
      <4>2. CASE inode[l] = fd[s]
        <5>1. data'[inode[l]] = Append(data[inode[l]], buffer[s][pos[s] + 1])
          BY <1>0, <3>1, <4>1, <4>2 DEF Appended
        <5>2. /\ Times(data[inode[l]], id) \in Nat
              /\ \A b \in Blocks :
                   Times(Append(data[inode[l]], b), id) =
                     Times(data[inode[l]], id) + (IF b = id THEN 1 ELSE 0)
          BY <4>1, TimesCounted
        <5>3. Times(Append(data[inode[l]], buffer[s][pos[s] + 1]), id) =
                Times(data[inode[l]], id)
          BY <3>1, <3>2, <5>2
        <5> QED
          BY <3>1, <3>3, <5>1, <5>3
      <4>3. CASE inode[l] # fd[s]
        BY <1>0, <3>1, <3>3, <4>1, <4>3
      <4> QED
        BY <4>2, <4>3
    <3> QED
      BY <3>1, <3>3
  <2> QED
    BY <2>2, <2>3, <2>4, <2>5, FileSteps DEF FilesChange, FileEmptied,
       BlockPut, FileRemoved
<1> QED
  BY <1>1, <1>2

(* Who works on a file after a step: who did, but for a request that is    *)
(* over, and one that begins.                                              *)
LEMMA UsersAfter ==
  ASSUME ShapeInv, StageInv, StageInv', NEW s \in Slots, NEW l
  PROVE  /\ job' = job => /\ Writers(l)' = Writers(l)
                          /\ Overwriters(l)' = Overwriters(l)
                          /\ Users(l)' = Users(l)
         /\ Over(s) => /\ Writers(l)' = Writers(l) \ {s}
                       /\ Overwriters(l)' = Overwriters(l) \ {s}
                       /\ Users(l)' = Users(l) \ {s}
<1>0. DOMAIN job = Slots
  BY DEF ShapeInv
<1>1. /\ Writers(l) = {t \in Slots : job[t].op \in Writing /\ Target(t) = l}
      /\ Overwriters(l) =
           {t \in Slots : job[t].op \in Overwriting /\ Target(t) = l}
      /\ Users(l) = {t \in Slots :
                       job[t].op \in Writing \cup Reading /\ Target(t) = l}
      /\ Writers(l)' = {t \in Slots : job'[t].op \in Writing /\ Target(t)' = l}
      /\ Overwriters(l)' =
           {t \in Slots : job'[t].op \in Overwriting /\ Target(t)' = l}
      /\ Users(l)' = {t \in Slots :
                        job'[t].op \in Writing \cup Reading /\ Target(t)' = l}
  BY UsersOf
<1>2. CASE job' = job
  <2>1. \A t \in Slots : Target(t)' = Target(t)
    BY <1>2 DEF Target
  <2>2. ~Over(s) \/ (s \notin Users(l) /\ s \notin Writers(l)
                       /\ s \notin Overwriters(l))
    <3>1. Over(s) => job[s] = NoJob
      BY <1>0, <1>2 DEF Over
    <3>2. NoJob.op \notin Writing \cup Reading \cup Overwriting
      BY DEF NoJob, Writing, Overwriting, Reading
    <3> QED
      BY <1>1, <3>1, <3>2
  <2> QED
    BY <1>1, <1>2, <2>1, <2>2
<1>3. CASE Over(s)
  <2>1. \A t \in Slots \ {s} : job'[t] = job[t] /\ Target(t)' = Target(t)
    BY <1>0, <1>3 DEF Over, Target
  <2>2. job'[s].op \notin Writing \cup Reading \cup Overwriting
    BY <1>0, <1>3 DEF Over, NoJob, Writing, Overwriting, Reading
  <2>3. Overwriting \subseteq Writing
    BY DEF Writing
  <2>4. Users(l)' = Users(l) \ {s}
    BY <1>1, <2>1, <2>2
  <2>5. Writers(l)' = Writers(l) \ {s}
    BY <1>1, <2>1, <2>2
  <2>6. Overwriters(l)' = Overwriters(l) \ {s}
    BY <1>1, <2>1, <2>2
  <2> QED
    BY <1>2, <2>4, <2>5, <2>6
<1> QED
  BY <1>2, <1>3

(* A request that begins is one more user of its file, and of no other.    *)
LEMMA UsersBegin ==
  ASSUME ShapeInv, StageInv, StageInv', NEW s \in Slots, NEW op \in Ops,
         NEW request \in Asked, NEW roots \in Mounts, NEW limit \in Nat,
         Begin(s, op, request, roots, limit), NEW l
  PROVE  LET here == l = Where[roots][Resolve(request)] IN
         /\ At(s)' = Where[roots][Resolve(request)]
         /\ s \notin Users(l) /\ Users(l) \subseteq Users(l)'
         /\ Writers(l)' = IF op \in Writing /\ here THEN Writers(l) \cup {s}
                          ELSE Writers(l)
         /\ Overwriters(l)' = IF op \in Overwriting /\ here
                              THEN Overwriters(l) \cup {s} ELSE Overwriters(l)
<1>0. DOMAIN job = Slots /\ DOMAIN file = Slots
  BY DEF ShapeInv
<1>1. /\ Writers(l) = {t \in Slots : job[t].op \in Writing /\ Target(t) = l}
      /\ Overwriters(l) =
           {t \in Slots : job[t].op \in Overwriting /\ Target(t) = l}
      /\ Users(l) = {t \in Slots :
                       job[t].op \in Writing \cup Reading /\ Target(t) = l}
      /\ Writers(l)' = {t \in Slots : job'[t].op \in Writing /\ Target(t)' = l}
      /\ Overwriters(l)' =
           {t \in Slots : job'[t].op \in Overwriting /\ Target(t)' = l}
      /\ Users(l)' = {t \in Slots :
                        job'[t].op \in Writing \cup Reading /\ Target(t)' = l}
  BY UsersOf
<1>2. \A t \in Slots \ {s} : job'[t] = job[t] /\ Target(t)' = Target(t)
  BY <1>0 DEF Begin, Target
<1>3. /\ job'[s].op = op /\ job'[s].at = Resolve(request)
      /\ job'[s].roots = roots /\ file'[s] = Resolve(request)
  BY <1>0 DEF Begin
<1>4. At(s)' = Where[roots][Resolve(request)]
      /\ Target(s)' = Where[roots][Resolve(request)]
  BY <1>3 DEF At, Target
<1>5. job[s].op \notin Ops
  BY Busy DEF Begin
<1>6. Writing \cup Reading \subseteq Ops /\ Overwriting \subseteq Writing
  BY DEF Ops, Writing
<1>7. s \notin Users(l) /\ s \notin Writers(l) /\ s \notin Overwriters(l)
  BY <1>1, <1>5, <1>6
<1>8. Writers(l)' = IF op \in Writing /\ l = Where[roots][Resolve(request)]
                    THEN Writers(l) \cup {s} ELSE Writers(l)
  BY <1>1, <1>2, <1>3, <1>4, <1>7
<1>9. Overwriters(l)' =
        IF op \in Overwriting /\ l = Where[roots][Resolve(request)]
        THEN Overwriters(l) \cup {s} ELSE Overwriters(l)
  BY <1>1, <1>2, <1>3, <1>4, <1>7
<1>10. Users(l) \subseteq Users(l)'
  BY <1>1, <1>2, <1>7
<1> QED
  BY <1>4, <1>7, <1>8, <1>9, <1>10

(* What has been appended stays, where nobody overwrites it.               *)
LEMMA KeptAfter ==
  ASSUME ShapeInv, StageInv, InodeInv, StageInv', IdInv, NEW s \in Slots,
         Kinds(s), NEW l \in Locations, NEW id, KeptAt(l, id), id \in Nat,
         Overwriters(l)' = {},
         \A p \in Places : RunRemoves(s, p) => l # Where[job[s].roots][p]
  PROVE  KeptAt(l, id)'
<1>1. pc[s] # "idle" => job[s].id # id
  BY DEF KeptAt
<1>2. Overwriters(l) = {} /\ inode[l] # 0 /\ Times(data[inode[l]], id) = 2
  BY DEF KeptAt
<1>3. /\ inode'[l] = inode[l]
      /\ Times(data'[inode[l]], id) = Times(data[inode[l]], id)
  BY <1>1, <1>2, TimesKept
<1>4. id <= begun' /\ \A t \in Slots : pc'[t] # "idle" => job'[t].id # id
  <2>0. begun \in Nat /\ id <= begun
    BY BlocksAreNumbers DEF KeptAt
  <2>1. \A t \in Slots \ {s} : pc'[t] = pc[t] /\ job'[t] = job[t]
    BY OthersAreSame DEF Same
  <2>2. CASE Begins(s)
    <3>1. begun' = begun + 1 /\ job'[s].id = begun + 1
      <4>1. DOMAIN job = Slots
        BY DEF ShapeInv
      <4> QED
        BY <2>2, <4>1 DEF Begins, Begin
    <3>2. id <= begun' /\ job'[s].id # id
      BY <2>0, <3>1
    <3> QED
      BY <2>1, <3>2 DEF KeptAt
  <2>3. CASE ~Begins(s)
    <3>0. DOMAIN pc = Slots /\ DOMAIN job = Slots
      BY DEF ShapeInv
    <3>1. begun' = begun
      BY <2>3, Sorts DEF Cancel, BreaksOff, Dropped, Fails, Ends, Written,
         Removes, RunRemoves, Works
    <3>2. pc'[s] = "idle" \/ (job'[s] = job[s] /\ pc[s] # "idle")
      BY <2>3, <3>0, Sorts DEF Cancel, BreaksOff, Dropped, Fails, Ends,
         Written, Over, Go, Removes, RunRemoves, Works
    <3> QED
      BY <2>0, <2>1, <3>1, <3>2 DEF KeptAt
  <2> QED
    BY <2>2, <2>3
<1> QED
  BY <1>2, <1>3, <1>4 DEF KeptAt

(* An append that nobody disturbs stays so while others take their steps.  *)
LEMMA SafeOthers ==
  ASSUME ShapeInv, StageInv, InodeInv, StageInv', IdInv, NEW s \in Slots,
         Kinds(s), NEW t \in Slots \ {s}, SafeOf(t), Overwriters(At(t))' = {},
         \A p \in Places : RunRemoves(s, p) => At(t) # Where[job[s].roots][p]
  PROVE  SafeOf(t)'
<1>1. Same(t) /\ At(t)' = At(t)
  BY OthersAreSame DEF Same, At
<1>2. pc[t] # "idle" /\ At(t) \in Locations
  BY Busy, OpAt DEF SafeOf, Ops, Writing
<1>3. pc[s] # "idle" => job[s].id # job[t].id
  BY <1>2 DEF IdInv
<1>4. Overwriters(At(t)) = {}
  BY DEF SafeOf
<1>5. \/ /\ inode[At(t)] = 0
         /\ inode'[At(t)] # 0 => data'[inode'[At(t)]] = <<>>
      \/ /\ inode[At(t)] # 0 /\ inode'[At(t)] = inode[At(t)]
         /\ Times(data'[inode[At(t)]], job[t].id) =
              Times(data[inode[At(t)]], job[t].id)
  <2> DEFINE l == At(t)
             id == job[t].id
  <2>1. /\ l \in Locations /\ Overwriters(l) = {}
        /\ pc[s] # "idle" => job[s].id # id
        /\ \A p \in Places : RunRemoves(s, p) => l # Where[job[s].roots][p]
    BY <1>2, <1>3, <1>4
  <2> HIDE DEF l, id
  <2>2. \/ /\ inode[l] = 0
           /\ inode'[l] # 0 => data'[inode'[l]] = <<>>
        \/ /\ inode[l] # 0 /\ inode'[l] = inode[l]
           /\ Times(data'[inode[l]], id) = Times(data[inode[l]], id)
    BY <2>1, TimesKept
  <2> QED
    BY <2>2 DEF l, id
<1>6. Times(<<>>, job[t].id) = 0
  BY TimesCounted, BlocksOK
<1>7. pc[t] = "append" => inode[At(t)] # 0 /\ fd[t] = inode[At(t)]
  <2>1. pc[t] = "append" => fd[t] \in 1 .. Len(data)
    BY Opened
  <2> QED
    BY <2>1 DEF SafeOf
<1>8. (Overwriters(At(t)))' = {}
  BY <1>1
<1> QED
  BY <1>1, <1>5, <1>6, <1>7, <1>8 DEF SafeOf, Same

(* An append that begins where nobody overwrites has added nothing yet.    *)
LEMMA SafeBegins ==
  ASSUME ShapeInv, StageInv, InodeInv, StageInv', IdInv, NEW s \in Slots,
         NEW request \in Asked, NEW roots \in Mounts, NEW limit \in Nat,
         Begin(s, "append", request, roots, limit),
         Overwriters(Where[roots][Resolve(request)]) = {}
  PROVE  SafeOf(s)'
<1> DEFINE l == Where[roots][Resolve(request)]
<1>0. /\ DOMAIN pc = Slots /\ DOMAIN job = Slots /\ "append" \in Ops
      /\ inode \in [Locations -> Nat] /\ data \in Seq(Seq(Blocks))
      /\ begun \in Nat
  BY DiskOK, BlocksAreNumbers DEF ShapeInv, Ops, Writing
<1>1. /\ job'[s].op = "append" /\ job'[s].id = begun + 1
      /\ pc'[s] = "touch" /\ inode' = inode /\ data' = data
  BY <1>0 DEF Begin, FirstStep
<1>2. At(s)' = l /\ Overwriters(l)' = Overwriters(l)
  <2>1. "append" \in Ops /\ "append" \notin Overwriting
    BY DEF Ops, Writing, Overwriting
  <2>2. At(s)' = l
    BY <2>1, UsersBegin
  <2>3. \A m : Overwriters(m)' = Overwriters(m)
    BY <2>1, UsersBegin
  <2> QED
    BY <2>2, <2>3
<1>3. l \in Locations
  BY PlacesOK DEF Shown
<1>4. inode[l] # 0 => Times(data[inode[l]], begun + 1) = 0
  <2>1. inode[l] # 0 => inode[l] \in DOMAIN data
    BY <1>0, <1>3, DiskOK
  <2> SUFFICES ASSUME inode[l] # 0
               PROVE  Times(data[inode[l]], begun + 1) = 0
    OBVIOUS
  <2> DEFINE c == data[inode[l]]
  <2>2. c \in Seq(Blocks) /\ KnownTo(begun, c)
    BY <1>0, <2>1 DEF IdInv
  <2> HIDE DEF c
  <2>3. ASSUME NEW k \in DOMAIN c
        PROVE  c[k] \in Int /\ c[k] <= begun
    <3>1. c[k] \in Blocks
      BY <2>2
    <3>2. c[k] <= begun
      BY <2>2 DEF KnownTo
    <3> QED
      BY <3>1, <3>2, BlocksAreNumbers
  <2>4. \A k \in DOMAIN c : c[k] # begun + 1
    BY <1>0, <2>3
  <2> QED
    BY <2>2, <2>4, TimesCounted DEF c
<1>5. (Overwriters(At(s)))' = {}
  BY <1>2
<1> QED
  BY <1>1, <1>2, <1>4, <1>5 DEF SafeOf

(* It has added as many blocks as it has written.                          *)
LEMMA SafeMoves ==
  ASSUME ShapeInv, StageInv, InodeInv, StageInv', IdInv, NEW s \in Slots,
         Kinds(s), Works(s), SafeOf(s)
  PROVE  SafeOf(s)'
<1>0. /\ DOMAIN pc = Slots /\ DOMAIN fd = Slots /\ DOMAIN pos = Slots
      /\ DOMAIN job = Slots /\ inode \in [Locations -> Nat]
      /\ data \in Seq(Seq(Blocks))
      /\ Len(data) \in Nat /\ At(s) \in Locations /\ StageOf(s)
      /\ inode[At(s)] \in Nat /\ inode[At(s)] <= Len(data)
  BY DiskOK, Busy DEF ShapeInv, Works, StageInv
<1>1. /\ job' = job /\ job[s].op = "append" /\ At(s)' = At(s)
      /\ Overwriters(At(s))' = {} /\ pc[s] # "idle"
      /\ pc[s] \in {"touch", "chmod append", "open append", "append"}
  <2>1. job' = job /\ pc[s] # "idle"
    BY DEF Works
  <2>2. job[s].op = "append" /\ Overwriters(At(s)) = {}
    BY DEF SafeOf
  <2>3. At(s)' = At(s)
    BY <2>1, <2>2, UsersOf DEF Target
  <2>4. Overwriters(At(s))' = Overwriters(At(s))
    <3> DEFINE l == At(s)
    <3>1. \A m : Overwriters(m)' = Overwriters(m)
      BY <2>1, UsersAfter
    <3> QED
      BY <3>1, <2>3 DEF Overwriters, Users
  <2>5. pc[s] \in StepsOf("append")
    BY <2>2, <1>0 DEF StageOf
  <2> QED
    BY <2>1, <2>2, <2>3, <2>4, <2>5 DEF StepsOf
<1>2. ASSUME Touched(s) \/ OpenAppend(s)
      PROVE  /\ inode'[At(s)] # 0 => Times(data'[inode'[At(s)]], job[s].id) = 0
             /\ OpenAppend(s) => fd'[s] = inode'[At(s)] /\ pos'[s] = 0
             /\ pc'[s] = IF Touched(s) THEN "chmod append" ELSE "append"
  <2>1. /\ pc[s] # "append"
        /\ IF inode[At(s)] = 0 THEN Created(At(s))
            ELSE UNCHANGED <<inode, data>>
    BY <1>2 DEF Touched, OpenAppend
  <2>2. inode[At(s)] = 0 => data'[inode'[At(s)]] = <<>>
    BY <1>0, <2>1, CreatedOK
  <2>3. Times(<<>>, job[s].id) = 0
    BY TimesCounted, BlocksOK
  <2>4. inode[At(s)] # 0 => Times(data'[inode'[At(s)]], job[s].id) = 0
    BY <2>1 DEF SafeOf
  <2>5. /\ OpenAppend(s) => fd'[s] = inode'[At(s)] /\ pos'[s] = 0
        /\ pc'[s] = IF Touched(s) THEN "chmod append" ELSE "append"
    BY <1>0, <1>2 DEF Touched, OpenAppend, Go
  <2> QED
    BY <2>2, <2>3, <2>4, <2>5
<1>3. CASE Touched(s)
  BY <1>1, <1>2, <1>3 DEF SafeOf
<1>4. CASE OpenAppend(s)
  <2>1. ~Touched(s)
    BY <1>4 DEF OpenAppend, Touched
  <2>2. fd'[s] \in 1 .. Len(data') /\ pc'[s] = "append"
    BY <1>2, <1>4, <2>1 DEF StageInv, StageOf
  <2>3. inode'[At(s)] # 0
    BY <1>2, <1>4, <2>2
  <2> QED
    BY <1>1, <1>2, <1>4, <2>2, <2>3 DEF SafeOf
<1>5. CASE Moved(s)
  BY <1>0, <1>1, <1>5 DEF Moved, Go, disk, AtEnd, SafeOf
<1>6. CASE AppendBlock(s)
  <2> DEFINE c == data[fd[s]]
             b == buffer[s][pos[s] + 1]
             id == job[s].id
  <2>1. /\ pc[s] = "append" /\ fd[s] \in 1 .. Len(data) /\ c \in Seq(Blocks)
        /\ b \in Blocks /\ pos[s] + 1 \in 1 .. Len(buffer[s])
        /\ inode[At(s)] = fd[s] /\ Times(c, id) = pos[s]
    BY <1>6, Opened DEF AppendBlock, SafeOf
  <2>2. pc'[s] = "append" /\ fd'[s] = fd[s] /\ pos'[s] = pos[s] + 1
    <3>1. ~Over(s)
      <4>1. Over(s) => job'[s] = NoJob
        BY <1>0 DEF Over
      <4>2. NoJob.op = "none"
        BY DEF NoJob
      <4> QED
        BY <1>1, <4>1, <4>2
    <3>2. MoreToWrite(s)
      BY <1>6, <3>1 DEF AppendBlock, Written
    <3> QED
      BY <1>0, <2>1, <3>2 DEF MoreToWrite
  <2>3. data'[fd[s]] = Append(c, b) /\ inode' = inode
    BY <1>0, <1>6, <2>1 DEF AppendBlock, Appended
  <2>4. b = id
    <3>1. \A x : \A k \in 1 .. Len(<<x, x>>) : <<x, x>>[k] = x
      OBVIOUS
    <3>2. buffer[s] = <<id, id>>
      BY <1>0, <1>1 DEF StageOf
    <3>3. \A k \in 1 .. Len(buffer[s]) : buffer[s][k] = id
      BY <3>1, <3>2
    <3> QED
      BY <2>1, <3>3
  <2>5. Times(Append(c, b), id) = pos[s] + 1
    <3> HIDE DEF c, b, id
    <3> QED
      BY <2>1, <2>4, TimesCounted
  <2> QED
    BY <1>1, <2>1, <2>2, <2>3, <2>5 DEF SafeOf
<1>7. ~Begins(s) /\ ~Cancel(s) /\ ~Dropped(s) /\ ~Finished(s)
  <2>1. ~Over(s)
    <3>1. Over(s) => job'[s] = NoJob
      BY <1>0 DEF Over
    <3>2. NoJob.op = "none"
      BY DEF NoJob
    <3> QED
      BY <1>1, <3>1, <3>2
  <2>2. ~Begins(s)
    <3> SUFFICES ASSUME NEW op \in Ops, NEW request \in Asked,
                        NEW roots \in Mounts, NEW limit \in Nat,
                        Begin(s, op, request, roots, limit)
                 PROVE  FALSE
      BY DEF Begins
    <3>1. pc[s] = "idle"
      BY DEF Begin
    <3> QED
      BY <1>1, <3>1
  <2>3. ~Cancel(s)
    BY <2>1 DEF Cancel, BreaksOff
  <2>4. ~Dropped(s) /\ ~Finished(s)
    BY <2>1 DEF Dropped, Fails, Finished, Written
  <2> QED
    BY <2>2, <2>3, <2>4
<1>8. ~OpenRead(s) /\ ~ReadBlock(s) /\ ~ReplaceMatches(s)
      /\ ~ReplaceFindsNothing(s) /\ ~GrepMatches(s) /\ ~OpenWrite(s)
      /\ ~WriteBlock(s)
  BY <1>1 DEF OpenRead, ReadBlock, ReplaceMatches, ReplaceFindsNothing,
     GrepMatches, AtEnd, OpenWrite, WriteBlock
<1>9. ~ReadDir(s) /\ ~StatEntry(s) /\ ~Walk(s) /\ ~NextFile(s)
      /\ ~MadeDir(s) /\ \A p \in Places : ~RunRemoves(s, p)
  BY <1>1 DEF ReadDir, StatEntry, Walk, NextFile, MadeDir, RunRemoves
<1> QED
  BY <1>3, <1>4, <1>5, <1>6, <1>7, <1>8, <1>9 DEF Kinds

(* An append that ends is in the file, if nobody overwrote it meanwhile.   *)
LEMMA AppendEnds ==
  ASSUME ShapeInv, StageInv, StageInv', IdInv, NEW s \in Slots,
         Ends(s), job[s].op = "append", SafeOf(s)
  PROVE  \A l, id : l = At(s) /\ id = job[s].id => KeptAt(l, id)'
<1> SUFFICES ASSUME NEW l, NEW id, l = At(s), id = job[s].id
             PROVE  KeptAt(l, id)'
  OBVIOUS
<1> DEFINE c == data[fd[s]]
           b == buffer[s][pos[s] + 1]
<1>0. /\ DOMAIN pc = Slots /\ DOMAIN job = Slots /\ StageOf(s)
      /\ data \in Seq(Seq(Blocks)) /\ begun \in Nat
  BY DiskOK, BlocksAreNumbers DEF ShapeInv, StageInv
<1>1. pc[s] \in {"touch", "chmod append", "open append", "append"}
  <2>1. pc[s] \in StepsOf("append")
    BY DEF StageInv, StageOf
  <2> QED
    BY <2>1 DEF StepsOf
<1>2. AppendBlock(s)
  BY <1>1 DEF Ends, ReplaceFindsNothing, AtEnd, WriteBlock, Finished
<1>3. /\ pc[s] = "append" /\ fd[s] \in 1 .. Len(data) /\ c \in Seq(Blocks)
      /\ b \in Blocks /\ pos[s] + 1 \in 1 .. Len(buffer[s])
      /\ inode[l] = fd[s] /\ Times(c, id) = pos[s]
  BY <1>2, Opened DEF AppendBlock, SafeOf
<1>4. /\ data'[fd[s]] = Append(c, b) /\ inode' = inode
  BY <1>0, <1>2, <1>3 DEF AppendBlock, Appended
<1>5. b = id /\ Len(buffer[s]) = 2
  <2>1. \A x : Len(<<x, x>>) = 2
               /\ \A k \in 1 .. Len(<<x, x>>) : <<x, x>>[k] = x
    OBVIOUS
  <2>2. buffer[s] = <<id, id>>
    BY <1>0 DEF StageOf
  <2>3. Len(buffer[s]) = 2 /\ \A k \in 1 .. Len(buffer[s]) : buffer[s][k] = id
    BY <2>1, <2>2
  <2> QED
    BY <1>3, <2>3
<1>6. job'[s] = NoJob /\ pc'[s] = "idle"
  BY <1>0 DEF Ends, Written, Over, Go
<1>7. pos[s] + 1 = 2
  <2>1. ~(pos[s] + 1 < Len(buffer[s]))
    <3>1. MoreToWrite(s) => pc'[s] = pc[s]
      BY DEF MoreToWrite
    <3> QED
      BY <1>2, <1>3, <1>6, <3>1 DEF AppendBlock
  <2> QED
    BY <1>3, <1>5, <2>1
<1>8. Times(Append(c, b), id) = 2
  <2>1. Times(Append(c, b), id) = Times(c, id) + 1
    <3> HIDE DEF c, b
    <3> QED
      BY <1>3, <1>5, TimesCounted
  <2> QED
    BY <1>3, <1>7, <2>1
<1>9. Overwriters(l)' = {}
  <2>1. Overwriters(l)' = Overwriters(l) \ {s}
    BY UsersAfter DEF Ends, Written
  <2> QED
    BY <2>1 DEF SafeOf
<1>10. inode'[l] # 0 /\ Times(data'[inode'[l]], id) = 2
  <2>1. inode'[l] = fd[s] /\ fd[s] # 0
    BY <1>3, <1>4
  <2>2. data'[inode'[l]] = Append(c, b)
    BY <1>4, <2>1
  <2> HIDE DEF c, b
  <2> QED
    BY <1>8, <2>1, <2>2
<1>11. id <= begun' /\ \A t \in Slots : pc'[t] # "idle" => job'[t].id # id
  <2>1. id <= begun /\ \A t \in Slots \ {s} : pc[t] # "idle" => job[t].id # id
    BY <1>3 DEF IdInv
  <2>2. begun' = begun
    BY DEF Ends, Written
  <2>3. \A t \in Slots \ {s} : pc'[t] = pc[t] /\ job'[t] = job[t]
    BY <1>0 DEF Ends, Written, Over, Go
  <2> QED
    BY <1>6, <2>1, <2>2, <2>3
<1> QED
  BY <1>9, <1>10, <1>11 DEF KeptAt

(* What is known of appends holds after every step.                        *)
LEMMA AppendMoves ==
  ASSUME ShapeInv, StageInv, InodeInv, IdInv, AppendInv, ShapeInv', StageInv',
         NEW s \in Slots, Kinds(s)
  PROVE  AppendInv'
<1>1. \A l \in Locations : \A id \in appended'[l] : id \in Nat
  <2>1. appended' \in [Locations -> SUBSET (1 .. MaxRequests)]
    BY DEF ShapeInv
  <2> QED
    BY <2>1
<1>2. ASSUME NEW p \in Places, RunRemoves(s, p)
      PROVE  /\ \A l \in Locations : appended'[l] # {} =>
                     l # Where[job[s].roots][p]
             /\ \A t \in safe' : t \in safe /\ At(t) # Where[job[s].roots][p]
             /\ pc[s] = "run"
  <2>1. DOMAIN appended = Locations
    BY DEF ShapeInv
  <2>2. \A t \in safe : t \in Users(At(t))
    BY DEF AppendInv, SafeOf, ShapeInv, Users, Writing
  <2> QED
    BY <1>2, <2>1, <2>2 DEF RunRemoves
<1>3. ASSUME NEW l \in Locations, NEW id \in appended'[l], id \in appended[l],
             Overwriters(l)' = {}
      PROVE  KeptAt(l, id)'
  <2>1. KeptAt(l, id) /\ id \in Nat
    BY <1>1, <1>3 DEF AppendInv
  <2>2. \A p \in Places : RunRemoves(s, p) => l # Where[job[s].roots][p]
    BY <1>2
  <2> QED
    BY <1>3, <2>1, <2>2, KeptAfter
<1>4. ASSUME NEW t \in safe', t # s, t \in safe, Overwriters(At(t))' = {}
      PROVE  SafeOf(t)'
  <2>1. SafeOf(t) /\ t \in Slots \ {s}
    BY <1>4 DEF AppendInv, ShapeInv
  <2>2. \A p \in Places : RunRemoves(s, p) => At(t) # Where[job[s].roots][p]
    BY <1>2
  <2> QED
    BY <1>4, <2>1, <2>2, SafeOthers
<1>5. \A t \in safe : t \in Slots /\ SafeOf(t) /\ job[t].op = "append"
        /\ Overwriters(At(t)) = {} /\ t \in Users(At(t))
  BY DEF AppendInv, SafeOf, ShapeInv, Users, Writing
<1>6. \A l \in Locations : appended[l] # {} => Overwriters(l) = {}
  BY DEF AppendInv, KeptAt
<1>7. \A t \in Slots \ {s} : At(t)' = At(t)
  BY OthersAreSame DEF Same, At
<1>8. CASE Begins(s)
  <2>1. PICK op \in Ops, request \in Asked, roots \in Mounts, limit \in Nat :
          Begin(s, op, request, roots, limit)
    BY <1>8 DEF Begins
  <2> DEFINE here == Where[roots][Resolve(request)]
  <2>2. /\ \A l : Overwriters(l)' = IF op \in Overwriting /\ l = here
                                    THEN Overwriters(l) \cup {s}
                                    ELSE Overwriters(l)
        /\ At(s)' = here
    BY <2>1, UsersBegin
  <2>3. pc[s] = "idle" /\ DOMAIN appended = Locations
    BY <2>1 DEF Begin, ShapeInv
  <2>4. s \notin safe
    <3>1. job[s].op \notin Ops
      BY <2>3, Busy
    <3> QED
      BY <1>5, <3>1 DEF Ops, Writing
  <2>5. /\ appended' = IF op \in Overwriting
                       THEN [appended EXCEPT ![here] = {}] ELSE appended
        /\ safe' = IF op \in Overwriting THEN safe \ Users(here)
                   ELSE IF op = "append" /\ Overwriters(here) = {}
                   THEN safe \cup {s} ELSE safe
    BY <2>1 DEF Begin, WriterBegins, Writing
  <2>6. ASSUME NEW l \in Locations, NEW id \in appended'[l]
        PROVE  KeptAt(l, id)'
    <3>1. id \in appended[l] /\ ~(op \in Overwriting /\ l = here)
      BY <2>3, <2>5, <2>6
    <3>2. Overwriters(l)' = {}
      BY <1>6, <2>2, <3>1
    <3> QED
      BY <1>3, <2>6, <3>1, <3>2
  <2>7. ASSUME NEW t \in safe', t # s
        PROVE  SafeOf(t)'
    <3>1. t \in safe /\ (op \in Overwriting => t \notin Users(here))
      BY <2>5, <2>7
    <3>2. op \in Overwriting => At(t) # here
      BY <1>5, <3>1
    <3>3. Overwriters(At(t))' = {}
      <4>1. \A l : l = At(t) => Overwriters(l)' = {}
        BY <1>5, <2>2, <3>1, <3>2
      <4>2. At(t)' = At(t)
        BY <1>5, <1>7, <2>7, <3>1
      <4> QED
        BY <4>1, <4>2 DEF Overwriters, Users
    <3> QED
      BY <1>4, <2>7, <3>1, <3>3
  <2>8. ASSUME s \in safe'
        PROVE  SafeOf(s)'
    <3>1. op = "append" /\ Overwriters(here) = {}
      BY <2>4, <2>5, <2>8
    <3>2. Begin(s, "append", request, roots, limit)
      BY <2>1, <3>1
    <3> QED
      BY <3>1, <3>2, SafeBegins
  <2> QED
    BY <2>6, <2>7, <2>8 DEF AppendInv
<1>9. ASSUME Over(s)
      PROVE  /\ \A l : Overwriters(l)' = Overwriters(l) \ {s}
             /\ \A t \in safe' : SafeOf(t)'
  <2>1. \A l : Overwriters(l)' = Overwriters(l) \ {s}
    BY <1>9, UsersAfter
  <2>2. ASSUME NEW t \in safe'
        PROVE  SafeOf(t)'
    <3>1. t \in safe /\ t # s
      BY <1>9, <2>2 DEF Over
    <3>2. Overwriters(At(t))' = {}
      <4>1. \A l : l = At(t) => Overwriters(l)' = {}
        BY <1>5, <2>1, <3>1
      <4>2. At(t)' = At(t)
        BY <1>5, <1>7, <3>1
      <4> QED
        BY <4>1, <4>2 DEF Overwriters, Users
    <3> QED
      BY <1>4, <2>2, <3>1, <3>2
  <2> QED
    BY <2>1, <2>2
<1>10. CASE Cancel(s) \/ Dropped(s)
  <2>1. Over(s) /\ appended' = appended
    BY <1>10 DEF Cancel, BreaksOff, Dropped, Fails
  <2> QED
    BY <1>3, <1>6, <1>9, <2>1 DEF AppendInv
<1>11. CASE Ends(s)
  <2>1. Over(s) /\ DOMAIN appended = Locations
    BY <1>11 DEF Ends, Written, ShapeInv
  <2>2. ASSUME NEW l \in Locations, NEW id \in appended'[l]
        PROVE  KeptAt(l, id)'
    <3>1. CASE id \in appended[l]
      BY <1>3, <1>6, <1>9, <2>1, <3>1
    <3>2. CASE id \notin appended[l]
      <4>1. l = At(s) /\ id = job[s].id /\ job[s].op = "append" /\ s \in safe
        BY <1>11, <2>1, <2>2, <3>2 DEF Ends, Written
      <4> QED
        BY <1>5, <1>11, <4>1, AppendEnds
    <3> QED
      BY <3>1, <3>2
  <2> QED
    BY <1>9, <2>1, <2>2 DEF AppendInv
<1>12. CASE Removes(s)
  <2>1. PICK p \in Places : RunRemoves(s, p)
    BY <1>12 DEF Removes
  <2> DEFINE loc == Where[job[s].roots][p]
  <2>2. /\ appended' = [appended EXCEPT ![loc] = {}]
        /\ job' = job /\ pc[s] = "run"
    BY <2>1 DEF RunRemoves
  <2>3. \A l : Overwriters(l)' = Overwriters(l)
    BY <2>2, UsersAfter
  <2>4. DOMAIN appended = Locations
    BY DEF ShapeInv
  <2>5. ASSUME NEW l \in Locations, NEW id \in appended'[l]
        PROVE  KeptAt(l, id)'
    <3>1. id \in appended[l]
      BY <2>2, <2>4, <2>5
    <3> QED
      BY <1>3, <1>6, <2>3, <2>5, <3>1
  <2>6. ASSUME NEW t \in safe'
        PROVE  SafeOf(t)'
    <3>1. t \in safe
      BY <1>2, <2>1, <2>6
    <3>2. t # s
      BY <1>5, <2>2, <3>1, OpAt
    <3>3. Overwriters(At(t))' = {}
      <4>1. \A l : l = At(t) => Overwriters(l)' = {}
        BY <1>5, <2>3, <3>1
      <4>2. At(t)' = At(t)
        BY <1>5, <1>7, <3>1, <3>2
      <4> QED
        BY <4>1, <4>2 DEF Overwriters, Users
    <3> QED
      BY <1>4, <2>6, <3>1, <3>2, <3>3
  <2> QED
    BY <2>5, <2>6 DEF AppendInv
<1>13. CASE Works(s)
  <2>1. job' = job /\ appended' = appended /\ safe' = safe
    BY <1>13 DEF Works, ghosts
  <2>2. \A l : Overwriters(l)' = Overwriters(l)
    BY <2>1, UsersAfter
  <2>3. ASSUME NEW t \in safe'
        PROVE  SafeOf(t)'
    <3>1. CASE t = s
      BY <1>5, <1>13, <2>1, <3>1, SafeMoves
    <3>2. CASE t # s
      <4>1. \A l : l = At(t) => Overwriters(l)' = {}
        BY <1>5, <2>1, <2>2
      <4>2. At(t)' = At(t)
        BY <1>5, <1>7, <2>1, <3>2
      <4>3. Overwriters(At(t))' = {}
        BY <4>1, <4>2 DEF Overwriters, Users
      <4> QED
        BY <1>4, <2>1, <3>2, <4>3
    <3> QED
      BY <3>1, <3>2
  <2> QED
    BY <1>3, <1>6, <2>1, <2>2, <2>3 DEF AppendInv
<1> QED
  BY <1>8, <1>10, <1>11, <1>12, <1>13, Sorts

(* AppendInv is inductive.                                                 *)
LEMMA AppendNext ==
  ASSUME ShapeInv, StageInv, InodeInv, IdInv, AppendInv, ShapeInv', StageInv',
         [Next]_vars
  PROVE  AppendInv'
<1>1. CASE Next
  BY <1>1, NextCases, AppendMoves
<1>2. CASE UNCHANGED vars
  BY <1>2 DEF vars, disk, work, ghosts, AppendInv, KeptAt, SafeOf,
     Overwriters, Users, At
<1> QED
  BY <1>1, <1>2

(* So every answered append is in the file.                                *)
LEMMA AppendsFollow ==
  ASSUME AppendInv
  PROVE  AppendsAreKept
<1> SUFFICES ASSUME NEW l \in Locations, NEW id \in appended[l]
             PROVE  /\ inode[l] # 0
                    /\ Times(Content(l), id) = 2
  BY DEF AppendsAreKept, Times
<1>1. KeptAt(l, id)
  BY DEF AppendInv
<1> QED
  BY <1>1 DEF KeptAt, Content

(* Only a command that removes a file leaves none.                         *)
LEMMA Unremoved ==
  ASSUME ShapeInv, StageInv, NEW s \in Slots, Kinds(s), NEW l \in Locations,
         \A p \in Places : RunRemoves(s, p) => l # Where[job[s].roots][p],
         inode'[l] = 0
  PROVE  inode[l] = 0
<1>0. /\ inode \in [Locations -> Nat] /\ Len(data) \in Nat
  BY DiskOK
<1>1. CASE FileMade(s)
  <2>1. At(s) \in Locations
    BY <1>1, Busy DEF FileMade
  <2> QED
    BY <1>0, <1>1, <2>1, CreatedOK DEF FileMade
<1>2. CASE FileRemoved(s)
  BY <1>0, <1>2 DEF FileRemoved, RunRemoves
<1>3. CASE UNCHANGED inode
  BY <1>3
<1> QED
  BY <1>1, <1>2, <1>3, FileSteps DEF FilesChange, NothingDone, FileEmptied,
     BlockPut, BlockAppended

(* A request that ends is one that writes.                                 *)
LEMMA EndsWriting ==
  ASSUME ShapeInv, StageInv, NEW s \in Slots, Ends(s)
  PROVE  /\ job[s].op \in Writing /\ Over(s) /\ At(s) \in Locations
         /\ s \in Writers(At(s))
<1>1. job[s].op \in Writing
  BY OpAt DEF Ends, ReplaceFindsNothing, AtEnd, WriteBlock, Finished,
     AppendBlock, Writing, Overwriting
<1>2. At(s) \in Locations
  BY Busy DEF Ends
<1> QED
  BY <1>1, <1>2 DEF Ends, Written, Writers, Users

(* What a step does to what a file would hold if requests were atomic.     *)
LEMMA IdealAfter ==
  ASSUME ShapeInv, StageInv, NEW s \in Slots, Kinds(s), NEW l \in Locations
  PROVE  \/ ideal'[l] = ideal[l]
         \/ l = At(s) /\ s \in Writers(l) /\ Over(s)
            /\ \/ ideal'[l] = Unknown
               \/ Ends(s) /\ s \in alone /\ ideal'[l] = Effect(s, ideal[l])
         \/ \E p \in Places :
              /\ RunRemoves(s, p) /\ l = Where[job[s].roots][p]
              /\ ideal'[l] = IF Writers(l) = {} THEN None ELSE Unknown
<1>0. DOMAIN ideal = Locations
  BY DEF ShapeInv
<1>1. CASE Begins(s)
  BY <1>1 DEF Begins, Begin
<1>2. CASE Cancel(s)
  BY <1>0, <1>2 DEF Cancel, BreaksOff, Writers, Users
<1>3. CASE Dropped(s)
  BY <1>3 DEF Dropped, Fails
<1>4. CASE Ends(s)
  <2>1. CASE l = At(s)
    <3>1. ideal'[l] = IF s \in alone THEN Effect(s, ideal[l]) ELSE Unknown
      BY <1>0, <1>4, <2>1 DEF Ends, Written
    <3> QED
      BY <1>4, <2>1, <3>1, EndsWriting
  <2>2. CASE l # At(s)
    BY <1>0, <1>4, <2>2 DEF Ends, Written
  <2> QED
    BY <2>1, <2>2
<1>5. CASE Removes(s)
  BY <1>0, <1>5 DEF Removes, RunRemoves
<1>6. CASE Works(s)
  BY <1>6 DEF Works, ghosts
<1> QED
  BY <1>1, <1>2, <1>3, <1>4, <1>5, <1>6, Sorts

(* Two sequences with the same blocks are the same.                        *)
LEMMA SameBlocks ==
  ASSUME NEW c \in Seq(Blocks), NEW d \in Seq(Blocks), Len(c) = Len(d),
         \A k \in 1 .. Len(c) : c[k] = d[k]
  PROVE  c = d
OBVIOUS

(* What a read that nobody disturbs has read at its end is the file.       *)
LEMMA AllRead ==
  ASSUME ShapeInv, StageInv, SerialInv, NEW s \in Slots, AloneOf(s),
         pc[s] = "read", Len(buffer[s]) >= Len(data[fd[s]])
  PROVE  /\ inode[At(s)] = fd[s] /\ inode[At(s)] # 0
         /\ fd[s] \in 1 .. Len(data)
         /\ Content(At(s)) = buffer[s] /\ buffer[s] = data[fd[s]]
         /\ ideal[At(s)] # Unknown => ideal[At(s)] = buffer[s]
<1>1. /\ fd[s] \in 1 .. Len(data) /\ data[fd[s]] \in Seq(Blocks)
      /\ buffer[s] \in Seq(Blocks)
  BY Opened
<1>2. ReadsOf(s) /\ Writers(At(s)) \subseteq {s}
  BY DEF AloneOf
<1>3. buffer[s] = data[fd[s]]
  <2> DEFINE c == buffer[s]
             d == data[fd[s]]
  <2>1. /\ c \in Seq(Blocks) /\ d \in Seq(Blocks) /\ Len(c) >= Len(d)
        /\ Len(c) <= Len(d) /\ \A k \in 1 .. Len(c) : c[k] = d[k]
    BY <1>1, <1>2 DEF ReadsOf
  <2> HIDE DEF c, d
  <2>2. Len(c) = Len(d)
    BY <2>1
  <2>3. c = d
    BY <2>1, <2>2, SameBlocks
  <2> QED
    BY <2>3 DEF c, d
<1>4. inode[At(s)] = fd[s] /\ fd[s] # 0
  BY <1>1, <1>2 DEF ReadsOf
<1>5. Content(At(s)) = buffer[s]
  BY <1>3, <1>4 DEF Content
<1>6. At(s) \in Locations /\ \A w \in Writers(At(s)) : Clean(w)
  BY <1>2, Busy DEF Clean
<1> QED
  BY <1>1, <1>3, <1>4, <1>5, <1>6 DEF SerialInv

(* The effect of a write, by its operation.                                *)
LEMMA EffectIs ==
  ASSUME NEW s \in Slots, NEW before
  PROVE  /\ job[s].op \in {"write", "upload"} =>
              Effect(s, before) = <<job[s].id, Text>>
         /\ job[s].op = "append" /\ before # Unknown => Effect(s, before) =
              (IF before = None THEN <<>> ELSE before) \o buffer[s]
         /\ job[s].op = "append" /\ before = Unknown =>
              Effect(s, before) = Unknown
         /\ job[s].op = "replace" /\ before \notin {None, Unknown} =>
              Effect(s, before) = [i \in DOMAIN before |->
                IF before[i] = Text THEN job[s].id ELSE before[i]]
         /\ job[s].op = "replace" /\ before \in {None, Unknown} =>
              Effect(s, before) = before
<1>1. CASE job[s].op \in {"write", "upload"}
  BY <1>1 DEF Effect
<1>2. CASE job[s].op = "append"
  <2>1. CASE before # Unknown
    BY <1>2, <2>1 DEF Effect
  <2>2. CASE before = Unknown
    BY <1>2, <2>2 DEF Effect
  <2> QED
    BY <1>2, <2>1, <2>2
<1>3. CASE job[s].op = "replace"
  <2>1. CASE before \notin {None, Unknown}
    BY <1>3, <2>1 DEF Effect
  <2>2. CASE before \in {None, Unknown}
    BY <1>3, <2>2 DEF Effect
  <2> QED
    BY <1>3, <2>1, <2>2
<1> QED
  BY <1>1, <1>2, <1>3

(* Putting a block at the end of a file that is the beginning of what is   *)
(* to be written makes it a longer beginning.                              *)
LEMMA PutGoesOn ==
  ASSUME NEW c \in Seq(Blocks), NEW d \in Seq(Blocks), NEW n \in Nat,
         Len(c) = n, NEW m \in 1 .. Len(d), m = n + 1, NEW b, b = d[m],
         \A k \in 1 .. n : c[k] = d[k]
  PROVE  /\ Put(c, m, b) \in Seq(Blocks) /\ Len(Put(c, m, b)) = m
         /\ \A k \in 1 .. m : Put(c, m, b)[k] = d[k]
<1>0. c \in Seq(Blocks)
  OBVIOUS
<1>1. b \in Blocks /\ m \in Nat \ {0}
  OBVIOUS
<1>2. Put(c, m, b) \in Seq(Blocks)
  BY <1>1, PutOK
<1>3. Len(Put(c, m, b)) = m
  <2>1. Len(Put(c, m, b)) = IF m > Len(c) THEN m ELSE Len(c)
    BY ONLY <1>0, <1>1, PutOK
  <2> QED
    BY <1>0, <1>1, <2>1
<1>4. \A i \in 1 .. Len(Put(c, m, b)) : Put(c, m, b)[i] =
        IF i = m THEN b ELSE IF i <= Len(c) THEN c[i] ELSE Hole
  BY ONLY <1>0, <1>1, PutOK
<1>5. ASSUME NEW k \in 1 .. m
      PROVE  Put(c, m, b)[k] = d[k]
  BY <1>1, <1>3, <1>4
<1> QED
  BY <1>2, <1>3, <1>5

(* Appending a block, too.                                                 *)
LEMMA AppendGoesOn ==
  ASSUME NEW base \in Seq(Blocks), NEW d \in Seq(Blocks), NEW n \in Nat,
         n + 1 \in 1 .. Len(d)
  PROVE  /\ Append(base \o SubSeq(d, 1, n), d[n + 1]) =
              base \o SubSeq(d, 1, n + 1)
         /\ base \o SubSeq(d, 1, 0) = base
         /\ n + 1 = Len(d) => base \o SubSeq(d, 1, n + 1) = base \o d
<1>1. /\ SubSeq(d, 1, n) \in Seq(Blocks) /\ Len(SubSeq(d, 1, n)) = n
      /\ SubSeq(d, 1, n + 1) \in Seq(Blocks)
      /\ Len(SubSeq(d, 1, n + 1)) = n + 1
      /\ \A k \in 1 .. n : SubSeq(d, 1, n)[k] = d[k]
      /\ \A k \in 1 .. n + 1 : SubSeq(d, 1, n + 1)[k] = d[k]
      /\ SubSeq(d, 1, 0) = <<>>
  OBVIOUS
<1>2. n + 1 = Len(d) => SubSeq(d, 1, n + 1) = d
  OBVIOUS
<1>3. base \o <<>> = base
  OBVIOUS
<1>4. Append(base \o SubSeq(d, 1, n), d[n + 1]) = base \o SubSeq(d, 1, n + 1)
  <2> DEFINE u == SubSeq(d, 1, n)
             v == SubSeq(d, 1, n + 1)
             b == d[n + 1]
  <2>1. /\ u \in Seq(Blocks) /\ v \in Seq(Blocks) /\ b \in Blocks
        /\ Len(u) = n /\ Len(v) = n + 1 /\ v[n + 1] = b
        /\ \A k \in 1 .. n : u[k] = v[k]
    BY <1>1
  <2> HIDE DEF u, v, b
  <2>2. Append(u, b) = v
    BY <2>1
  <2>3. Append(base \o u, b) = base \o Append(u, b)
    <3>1. <<b>> \in Seq(Blocks) /\ base \o u \in Seq(Blocks)
      BY <2>1, ConcatProperties
    <3>2. Append(base \o u, b) = (base \o u) \o <<b>>
          /\ Append(u, b) = u \o <<b>>
      BY <2>1, <3>1, AppendIsConcat
    <3>3. u \in Seq(Blocks)
      BY <2>1
    <3>4. (base \o u) \o <<b>> = base \o (u \o <<b>>)
      BY ONLY <3>1, <3>3, base \in Seq(Blocks), ConcatAssociative
    <3> QED
      BY <3>2, <3>4
  <2> QED
    BY <2>2, <2>3 DEF u, v, b
<1> QED
  BY <1>1, <1>2, <1>3, <1>4

(* A block written alone makes the file a longer beginning of what is to   *)
(* be written.                                                             *)
LEMMA WritesOn ==
  ASSUME ShapeInv, StageInv, NEW s \in Slots, AloneOf(s), WriteBlock(s)
  PROVE  /\ inode'[At(s)] = fd[s] /\ fd[s] \in 1 .. Len(data)
         /\ data'[fd[s]] \in Seq(Blocks) /\ Len(data'[fd[s]]) = pos[s] + 1
         /\ \A k \in 1 .. pos[s] + 1 : data'[fd[s]][k] = buffer[s][k]
<1> DEFINE c == data[fd[s]]
           d == buffer[s]
           n == pos[s]
           m == pos[s] + 1
           b == buffer[s][pos[s] + 1]
<1>0. data \in Seq(Seq(Blocks)) /\ pos[s] \in Nat
  BY DEF ShapeInv
<1>1. /\ c \in Seq(Blocks) /\ d \in Seq(Blocks) /\ n \in Nat /\ m = n + 1
      /\ m \in 1 .. Len(d) /\ fd[s] \in 1 .. Len(data) /\ b = d[m]
  BY <1>0, Opened DEF WriteBlock
<1>2. /\ inode[At(s)] = fd[s] /\ Len(c) = n
      /\ \A k \in 1 .. n : c[k] = d[k]
  BY DEF AloneOf, WriteBlock
<1>3. inode' = inode /\ data'[fd[s]] = Put(c, m, b)
  BY <1>0, <1>1 DEF WriteBlock
<1>4. /\ Put(c, m, b) \in Seq(Blocks) /\ Len(Put(c, m, b)) = m
      /\ \A k \in 1 .. m : Put(c, m, b)[k] = d[k]
  <2>1. c \in Seq(Blocks) /\ d \in Seq(Blocks) /\ n \in Nat /\ Len(c) = n
        /\ m \in 1 .. Len(d) /\ m = n + 1 /\ b = d[m]
        /\ \A k \in 1 .. n : c[k] = d[k]
    BY <1>1, <1>2
  <2> HIDE DEF c, d, n, m, b
  <2> QED
    BY ONLY <2>1, PutGoesOn
<1> QED
  BY <1>1, <1>2, <1>3, <1>4

(* The last block makes it the whole of it.                                *)
LEMMA WritesAll ==
  ASSUME ShapeInv, StageInv, NEW s \in Slots, AloneOf(s), WriteBlock(s),
         pos[s] + 1 = Len(buffer[s])
  PROVE  /\ inode'[At(s)] = fd[s] /\ fd[s] \in 1 .. Len(data)
         /\ data'[fd[s]] = buffer[s]
<1> DEFINE c == data'[fd[s]]
           d == buffer[s]
<1>1. /\ c \in Seq(Blocks) /\ d \in Seq(Blocks) /\ Len(c) = Len(d)
      /\ \A k \in 1 .. Len(d) : c[k] = d[k]
  BY WritesOn DEF ShapeInv
<1>2. c = d
  <2> HIDE DEF c, d
  <2> QED
    BY <1>1, SameBlocks
<1> QED
  BY <1>2, WritesOn

(* The same for appending, where the file was known.                       *)
LEMMA AppendsOn ==
  ASSUME ShapeInv, StageInv, NEW s \in Slots, AloneOf(s), AppendBlock(s),
         ideal[At(s)] # Unknown
  PROVE  /\ inode'[At(s)] = fd[s] /\ fd[s] \in 1 .. Len(data)
         /\ Base(At(s)) \in Seq(Blocks) /\ pos[s] + 1 \in 1 .. Len(buffer[s])
         /\ data'[fd[s]] = Base(At(s)) \o SubSeq(buffer[s], 1, pos[s] + 1)
<1> DEFINE base == Base(At(s))
           d == buffer[s]
           n == pos[s]
<1>0. /\ data \in Seq(Seq(Blocks)) /\ pos[s] \in Nat
      /\ ideal \in [Locations -> Seq(Blocks) \cup {None, Unknown}]
  BY DEF ShapeInv
<1>1. base \in Seq(Blocks)
  <2>1. At(s) \in Locations
    BY Busy DEF AppendBlock
  <2> QED
    BY <1>0, <2>1, BlocksOK DEF Base
<1>2. /\ d \in Seq(Blocks) /\ n \in Nat /\ n + 1 \in 1 .. Len(d)
      /\ fd[s] \in 1 .. Len(data)
  BY <1>0, Opened DEF AppendBlock
<1>3. inode[At(s)] = fd[s] /\ data[fd[s]] = base \o SubSeq(d, 1, n)
  BY DEF AloneOf, AppendBlock
<1>4. inode' = inode /\ data'[fd[s]] = Append(data[fd[s]], d[n + 1])
  BY <1>0, <1>2 DEF AppendBlock, Appended
<1>5. Append(base \o SubSeq(d, 1, n), d[n + 1]) = base \o SubSeq(d, 1, n + 1)
  <2> HIDE DEF base, d, n
  <2> QED
    BY <1>1, <1>2, AppendGoesOn
<1> QED
  BY <1>1, <1>2, <1>3, <1>4, <1>5

(* A write that ends and that nobody disturbed leaves what it would have   *)
(* left had it been atomic.                                                *)
LEMMA SerialEnds ==
  ASSUME ShapeInv, StageInv, SerialInv, NEW s \in Slots, Ends(s), AloneOf(s),
         NEW l, l = At(s), Effect(s, ideal[l]) # Unknown
  PROVE  Content(l)' = Effect(s, ideal[l])
<1>0. /\ DOMAIN job = Slots /\ DOMAIN pc = Slots
      /\ StageOf(s) /\ l \in Locations
      /\ buffer[s] \in Seq(Blocks)
      /\ ideal[l] \in Seq(Blocks) \cup {None, Unknown}
  BY EndsWriting DEF ShapeInv, StageInv
<1>1. job'[s] # job[s]
  <2>1. job'[s] = NoJob /\ NoJob.op = "none" /\ job[s].op \in Writing
    BY <1>0, EndsWriting DEF Over, NoJob
  <2> QED
    BY <2>1 DEF Writing, Overwriting
<1>2. CASE ReplaceFindsNothing(s)
  <2>1. pc[s] = "read" /\ job[s].op = "replace" /\ ~Holds(buffer[s], Text)
        /\ Len(buffer[s]) >= Len(data[fd[s]]) /\ UNCHANGED <<inode, data>>
    BY <1>2 DEF ReplaceFindsNothing, AtEnd, disk
  <2>2. ideal[l] # Unknown
    BY <2>1, EffectIs
  <2>3. ideal[l] = buffer[s] /\ Content(l) = buffer[s]
    BY <2>1, <2>2, AllRead
  <2>4. buffer[s] \notin {None, Unknown}
    BY <1>0, DiskAssumption
  <2>5. Effect(s, ideal[l]) = [i \in DOMAIN buffer[s] |->
          IF buffer[s][i] = Text THEN job[s].id
                            ELSE buffer[s][i]]
    <3>1. Effect(s, buffer[s]) = [i \in DOMAIN buffer[s] |->
            IF buffer[s][i] = Text THEN job[s].id
                            ELSE buffer[s][i]]
      BY <2>1, <2>4, EffectIs
    <3> QED
      BY <2>3, <3>1
  <2>6. Effect(s, ideal[l]) = [i \in DOMAIN buffer[s] |-> buffer[s][i]]
    BY <2>1, <2>5 DEF Holds
  <2>7. buffer[s] = [i \in DOMAIN buffer[s] |-> buffer[s][i]]
    BY <1>0
  <2>8. Content(l)' = Content(l)
    BY <2>1 DEF Content
  <2> QED
    BY <2>3, <2>6, <2>7, <2>8
<1>3. CASE WriteBlock(s)
  <2>1. ~MoreToWrite(s) /\ ~UNCHANGED job
    BY <1>1 DEF MoreToWrite
  <2>2. pos[s] + 1 = Len(buffer[s]) /\ job[s].op = "upload"
    BY <1>3, <2>1 DEF WriteBlock
  <2>3. Effect(s, ideal[l]) = buffer[s]
    BY <1>0, <2>2, EffectIs DEF StageOf
  <2> QED
    BY <1>3, <2>2, <2>3, WritesAll DEF Content
<1>4. CASE Finished(s)
  <2>1. /\ pc[s] = "chmod" /\ UNCHANGED <<inode, data>>
        /\ inode[l] # 0 /\ data[inode[l]] = buffer[s]
        /\ job[s].op \in {"write", "replace"}
    BY <1>4, OpAt DEF Finished, disk, AloneOf
  <2>2. Content(l)' = buffer[s]
    BY <2>1 DEF Content
  <2>3. CASE job[s].op = "write"
    BY <1>0, <2>2, <2>3, EffectIs DEF StageOf
  <2>4. CASE job[s].op = "replace"
    <3>1. ideal[l] # Unknown
      BY <2>4, EffectIs
    <3> QED
      BY <2>1, <2>2, <2>4, <3>1 DEF AloneOf
  <2> QED
    BY <2>1, <2>3, <2>4
<1>5. CASE AppendBlock(s)
  <2>1. job[s].op = "append" /\ ~MoreToWrite(s)
    BY <1>1, <1>5, OpAt DEF AppendBlock, MoreToWrite
  <2>2. ideal[l] # Unknown
    BY <2>1, EffectIs
  <2> DEFINE base == Base(l)
             d == buffer[s]
             n == pos[s]
  <2>3. /\ inode'[l] = fd[s] /\ fd[s] \in 1 .. Len(data)
        /\ base \in Seq(Blocks) /\ n + 1 \in 1 .. Len(d)
        /\ data'[fd[s]] = base \o SubSeq(d, 1, n + 1)
    BY <1>5, <2>2, AppendsOn
  <2>4. n \in Nat /\ d \in Seq(Blocks)
    BY DEF ShapeInv
  <2>5. n + 1 = Len(d)
    BY <1>5, <2>1, <2>3, <2>4 DEF AppendBlock
  <2>6. base \o SubSeq(d, 1, n + 1) = base \o d
    <3> HIDE DEF base, d, n
    <3> QED
      BY <2>3, <2>4, <2>5, AppendGoesOn
  <2>7. Effect(s, ideal[l]) = base \o d
    BY <2>1, <2>2, EffectIs DEF Base
  <2> HIDE DEF base, d, n
  <2>8. inode'[l] # 0 /\ inode'[l] = fd[s]
    BY <2>3
  <2>9. Content(l)' = data'[fd[s]]
    BY <2>8 DEF Content
  <2> QED
    BY <2>3, <2>6, <2>7, <2>9
<1> QED
  BY <1>2, <1>3, <1>4, <1>5 DEF Ends

(* A write that goes on without having touched the file has not touched it *)
(* before either, and one that has finds it again, or found none before.   *)
LEMMA CleanWorks ==
  ASSUME ShapeInv, StageInv, NEW s \in Slots, Kinds(s), Works(s),
         job[s].op \in Writing
  PROVE  /\ Clean(s)' => Clean(s) /\ UNCHANGED <<inode, data>>
         /\ ~Clean(s)' /\ inode'[At(s)] = 0 => ~Clean(s) /\ inode[At(s)] = 0
<1>0. /\ DOMAIN pc = Slots /\ inode \in [Locations -> Nat]
      /\ Len(data) \in Nat /\ At(s) \in Locations /\ DOMAIN job = Slots
      /\ job[s].op \notin Searching \cup {"download", "read", "exec"}
  BY DiskOK, Busy DEF ShapeInv, Works, Writing, Overwriting, Searching
<1>1. job'[s] = job[s] /\ ~Over(s) /\ ~Begins(s)
  <2>1. job' = job /\ pc[s] # "idle"
    BY DEF Works
  <2>2. Over(s) => job'[s] = NoJob
    BY <1>0 DEF Over
  <2>3. NoJob.op \notin Writing
    BY DEF NoJob, Writing, Overwriting
  <2> QED
    BY <2>1, <2>2, <2>3 DEF Begins, Begin
<1>2. CASE OpenRead(s) \/ ReadBlock(s)
  BY <1>0, <1>2 DEF OpenRead, ReadBlock, Go, Clean, disk
<1>3. CASE ReplaceMatches(s)
  BY <1>0, <1>3 DEF ReplaceMatches, AtEnd, Go, Clean, disk
<1>4. CASE OpenWrite(s)
  <2>1. pc'[s] = "write"
    BY <1>0, <1>4 DEF OpenWrite, Go
  <2>2. inode'[At(s)] # 0
    <3>1. \/ inode[At(s)] = 0 /\ Created(At(s))
          \/ inode[At(s)] # 0 /\ inode' = inode
      BY <1>4 DEF OpenWrite
    <3>2. Created(At(s)) => inode'[At(s)] = Len(data) + 1
      BY <1>0, CreatedOK
    <3> QED
      BY <1>0, <3>1, <3>2
  <2> QED
    BY <2>1, <2>2 DEF Clean
<1>5. CASE WriteBlock(s)
  <2>1. pc[s] = "write" /\ inode' = inode /\ pc'[s] \in {"write", "chmod"}
    BY <1>0, <1>1, <1>5 DEF WriteBlock, MoreToWrite, Written, Go
  <2> QED
    BY <2>1 DEF Clean
<1>6. CASE Touched(s)
  <2>1. pc'[s] = "chmod append"
    BY <1>0, <1>6 DEF Touched, Go
  <2>2. inode'[At(s)] # 0
    <3>1. \/ inode[At(s)] = 0 /\ Created(At(s))
          \/ inode[At(s)] # 0 /\ inode' = inode
      BY <1>6 DEF Touched
    <3>2. Created(At(s)) => inode'[At(s)] = Len(data) + 1
      BY <1>0, CreatedOK
    <3> QED
      BY <1>0, <3>1, <3>2
  <2> QED
    BY <2>1, <2>2 DEF Clean
<1>7. CASE OpenAppend(s)
  <2>1. pc'[s] = "append"
    BY <1>0, <1>7 DEF OpenAppend, Go
  <2>2. inode'[At(s)] # 0
    <3>1. \/ inode[At(s)] = 0 /\ Created(At(s))
          \/ inode[At(s)] # 0 /\ inode' = inode
      BY <1>7 DEF OpenAppend
    <3>2. Created(At(s)) => inode'[At(s)] = Len(data) + 1
      BY <1>0, CreatedOK
    <3> QED
      BY <1>0, <3>1, <3>2
  <2> QED
    BY <2>1, <2>2 DEF Clean
<1>8. CASE AppendBlock(s)
  <2>1. pc[s] = "append" /\ inode' = inode /\ pc'[s] = "append"
    BY <1>0, <1>1, <1>8 DEF AppendBlock, MoreToWrite, Written
  <2> QED
    BY <2>1 DEF Clean
<1>9. CASE Moved(s)
  <2>1. pc[s] = "chmod append" /\ pc'[s] = "open append" /\ inode' = inode
    BY <1>0, <1>9, OpAt DEF Moved, AtEnd, Go, disk, Searching
  <2> QED
    BY <2>1 DEF Clean
<1>10. ~Cancel(s) /\ ~Dropped(s) /\ ~Finished(s) /\ ~ReplaceFindsNothing(s)
  BY <1>1 DEF Cancel, BreaksOff, Dropped, Fails, Finished, ReplaceFindsNothing,
     Written
<1>11. ~GrepMatches(s) /\ ~ReadDir(s) /\ ~StatEntry(s) /\ ~Walk(s)
       /\ ~NextFile(s) /\ ~MadeDir(s) /\ \A p \in Places : ~RunRemoves(s, p)
  BY <1>0, OpAt DEF GrepMatches, AtEnd, ReadDir, StatEntry, Walk, NextFile,
     MadeDir, RunRemoves, Searching
<1> QED
  BY <1>1, <1>2, <1>3, <1>4, <1>5, <1>6, <1>7, <1>8, <1>9, <1>10, <1>11
     DEF Kinds

(* What is known of the files holds after every step.                      *)
LEMMA SerialMoves ==
  ASSUME ShapeInv, StageInv, InodeInv, SerialInv, AloneInv, StageInv',
         NEW s \in Slots, Kinds(s)
  PROVE  SerialInv'
<1>0. DOMAIN job = Slots /\ DOMAIN pc = Slots /\ DOMAIN ideal = Locations
  BY DEF ShapeInv
<1>1. \A w \in Slots \ {s} : /\ job'[w] = job[w] /\ At(w)' = At(w)
                             /\ Clean(w)' <=> Clean(w)
  BY OthersAreSame DEF Same, At, Clean
<1>2. \A w \in Slots : job[w].op \in Writing => /\ pc[w] # "idle"
                                                /\ At(w) \in Locations
                                                /\ w \in Writers(At(w))
  BY Busy DEF Ops, Writers, Users
<1>3. \A l, p : RunRemoves(s, p) /\ l = Where[job[s].roots][p]
        /\ l \in Locations =>
        /\ inode'[l] = 0
        /\ ideal'[l] = IF Writers(l) = {} THEN None ELSE Unknown
  <2>1. DOMAIN inode = Locations
    BY DEF ShapeInv
  <2> QED
    BY <1>0, <2>1 DEF RunRemoves
<1>4. ASSUME Ends(s), s \in alone, NEW l, l = At(s), ideal'[l] # Unknown,
             ideal'[l] = Effect(s, ideal[l])
      PROVE  Content(l)' = ideal'[l]
  BY <1>4, SerialEnds DEF AloneInv
<1>5. ASSUME NEW l \in Locations, ideal'[l] # Unknown,
             \A w \in Writers(l)' : Clean(w)'
      PROVE  Content(l)' = ideal'[l]
  <2>1. CASE \E p \in Places : RunRemoves(s, p) /\ l = Where[job[s].roots][p]
    BY <1>3, <1>5, <2>1 DEF Content
  <2>2. CASE Ends(s) /\ s \in alone /\ l = At(s)
             /\ ideal'[l] = Effect(s, ideal[l])
    BY <1>4, <1>5, <2>2
  <2>3. CASE /\ ideal'[l] = ideal[l]
             /\ \A p \in Places : RunRemoves(s, p) =>
                    l # Where[job[s].roots][p]
    <3>1. CASE s \notin Writers(l)
      <4>1. l # At(s) \/ job[s].op \notin Writing
        BY <3>1 DEF Writers, Users
      <4>2. Content(l)' = Content(l)
        BY <2>3, <4>1, Elsewhere DEF Content
      <4>3. ASSUME NEW w \in Writers(l)
            PROVE  Clean(w)
        <5>1. w \in Slots \ {s} /\ job[w].op \in Writing /\ At(w) = l
          BY <3>1, <4>3 DEF Writers, Users
        <5>2. w \in Writers(l)'
          BY <1>1, <5>1 DEF Writers, Users
        <5> QED
          BY <1>1, <1>5, <5>1, <5>2
      <4> QED
        BY <1>5, <2>3, <4>2, <4>3 DEF SerialInv
    <3>2. CASE s \in Writers(l)
      <4>1. l = At(s) /\ job[s].op \in Writing /\ pc[s] # "idle"
        BY <1>2, <3>2 DEF Writers, Users
      <4>2. \A w \in Writers(l) \ {s} : w \in Slots /\ job[w].op \in Writing
                                        /\ At(w) = l
        BY DEF Writers, Users
      <4>3. \A w \in Writers(l) \ {s} : Clean(w)
        <5>1. \A w \in Writers(l) \ {s} : w \in Writers(l)'
          BY <1>1, <4>2 DEF Writers, Users
        <5> QED
          BY <1>1, <1>5, <4>2, <5>1
      <4>4. ASSUME Clean(s), UNCHANGED <<inode, data>>
            PROVE  Content(l)' = ideal'[l]
        BY <1>5, <2>3, <4>3, <4>4 DEF SerialInv, Content
      <4>5. CASE Dropped(s)
        <5>1. Clean(s)
          BY <1>5, <2>3, <4>1, <4>5 DEF Dropped, SerialInv
        <5>2. UNCHANGED <<inode, data>>
          BY <4>5 DEF Dropped, Fails, disk
        <5> QED
          BY <4>4, <5>1, <5>2
      <4>6. CASE Works(s)
        <5>1. s \in Writers(l)'
          <6>1. Writers(l)' = Writers(l)
            BY <4>6, UsersAfter DEF Works
          <6> QED
            BY <3>2, <6>1
        <5>2. Clean(s)'
          BY <1>5, <5>1
        <5> QED
          BY <4>1, <4>4, <4>6, <5>2, CleanWorks
      <4>7. CASE Ends(s)
        BY <1>0, <1>4, <1>5, <4>1, <4>7 DEF Ends, Written
      <4>8. ~Begins(s)
        BY <4>1 DEF Begins, Begin
      <4>9. CASE Cancel(s)
        BY <1>0, <1>5, <4>1, <4>9 DEF Cancel, BreaksOff
      <4>10. ~Removes(s)
        BY <4>1, OpAt DEF Removes, RunRemoves, Writing, Overwriting
      <4> QED
        BY <4>5, <4>6, <4>7, <4>8, <4>9, <4>10, Sorts
    <3> QED
      BY <3>1, <3>2
  <2> QED
    BY <1>5, <2>1, <2>2, <2>3, IdealAfter
<1>6. ASSUME NEW w \in Slots \ {s}, job[w].op \in Writing, ~Clean(w),
             inode'[At(w)] = 0
      PROVE  ideal'[At(w)] = Unknown
  <2> DEFINE l == At(w)
  <2>1. l \in Locations /\ w \in Writers(l)
    BY <1>2, <1>6
  <2>2. CASE \E p \in Places : RunRemoves(s, p) /\ l = Where[job[s].roots][p]
    BY <1>3, <2>1, <2>2
  <2>3. CASE \A p \in Places : RunRemoves(s, p) => l # Where[job[s].roots][p]
    <3>1. inode[l] = 0
      <4> HIDE DEF l
      <4>1. inode'[l] = 0
        BY <1>6 DEF l
      <4> QED
        BY <2>1, <2>3, <4>1, Unremoved
    <3>2. ideal[l] = Unknown
      BY <1>6, <3>1 DEF SerialInv
    <3>3. s \in alone => ~(s \in Writers(l) /\ l = At(s))
      BY <1>6, <2>1 DEF AloneInv, AloneOf
    <3> HIDE DEF l
    <3>4. ideal'[l] = Unknown
      BY <2>1, <2>3, <3>2, <3>3, IdealAfter
    <3> QED
      BY <3>4 DEF l
  <2> QED
    BY <2>2, <2>3
<1>7. ASSUME job'[s].op \in Writing, ~Clean(s)', inode'[At(s)'] = 0
      PROVE  ideal'[At(s)'] = Unknown
  <2>1. ~Over(s)
    <3>1. Over(s) => job'[s] = NoJob
      BY <1>0 DEF Over
    <3>2. NoJob.op \notin Writing
      BY DEF NoJob, Writing, Overwriting
    <3> QED
      BY <1>7, <3>1, <3>2
  <2>2. ~Begins(s)
    <3>1. ASSUME NEW op \in Ops, NEW request, NEW roots, NEW limit,
                 Begin(s, op, request, roots, limit)
          PROVE  FALSE
      <4>1. job'[s].op = op /\ pc'[s] = FirstStep(op)
        BY <1>0, <3>1 DEF Begin
      <4>2. op \in Writing =>
            FirstStep(op) \in {"open read", "open write", "touch"}
        BY DEF FirstStep, Writing, Overwriting
      <4> QED
        BY <1>7, <4>1, <4>2 DEF Clean
    <3> QED
      BY <3>1 DEF Begins
  <2>3. ~Removes(s)
    <3>1. Removes(s) => job' = job /\ pc[s] = "run"
      BY DEF Removes, RunRemoves
    <3> QED
      BY <1>7, <3>1, OpAt DEF Writing, Overwriting
  <2>4. Works(s)
    BY <2>1, <2>2, <2>3, Sorts DEF Cancel, BreaksOff, Dropped, Fails, Ends,
       Written
  <2>5. job' = job /\ ideal' = ideal
    BY <2>4 DEF Works, ghosts
  <2>6. At(s)' = At(s)
    <3>1. job[s].op # "grep"
      BY <1>7, <2>5 DEF Writing, Overwriting
    <3> QED
      BY <2>5, <3>1, UsersOf DEF Target
  <2>7. ~Clean(s) /\ inode[At(s)] = 0
    BY <1>7, <2>4, <2>5, <2>6, CleanWorks
  <2> QED
    BY <1>7, <2>5, <2>6, <2>7 DEF SerialInv
<1> QED
  <2>1. \A w \in Slots : job'[w].op \in Writing /\ ~Clean(w)'
          /\ inode'[At(w)'] = 0 => ideal'[At(w)'] = Unknown
    <3> TAKE w \in Slots
    <3>1. CASE w = s
      BY <1>7, <3>1
    <3>2. CASE w # s
      BY <1>1, <1>6, <3>2
    <3> QED
      BY <3>1, <3>2
  <2> QED
    BY <1>5, <2>1 DEF SerialInv

(* Whom nobody disturbs is where it was when others have taken a step.     *)
LEMMA AloneOthers ==
  ASSUME ShapeInv, StageInv, InodeInv, StageInv', NEW s \in Slots, Kinds(s),
         NEW w \in Slots \ {s}, AloneOf(w), w \in alone, w \in alone'
  PROVE  AloneOf(w)'
<1> DEFINE l == At(w)
<1>1. Same(w) /\ At(w)' = At(w)
  BY OthersAreSame DEF Same, At
<1>2. l \in Locations /\ w \in Users(l) /\ pc[w] # "idle"
  BY Busy DEF AloneOf, Ops, Users
<1>3. \A p \in Places : RunRemoves(s, p) => l # Where[job[s].roots][p]
  BY <1>2 DEF RunRemoves
<1>4. s \notin Writers(l) /\ (l # At(s) \/ job[s].op \notin Writing)
  BY DEF AloneOf, Writers, Users
<1>5. /\ inode'[l] = inode[l]
      /\ inode[l] # 0 => data'[inode[l]] = data[inode[l]]
  <2> HIDE DEF l
  <2> QED
    BY <1>2, <1>3, <1>4, Elsewhere
<1>6. ideal'[l] = ideal[l]
  <2> HIDE DEF l
  <2> QED
    BY <1>2, <1>3, <1>4, IdealAfter
<1>7. Writers(l)' \subseteq {w}
  <2>0. At(w)' = l /\ Writers(l) \subseteq {w}
    BY <1>1 DEF AloneOf
  <2>1. \A m : m = l => Writers(m)' \subseteq {w}
    <3> SUFFICES ASSUME NEW m, m = l
                 PROVE  Writers(m)' \subseteq {w}
      OBVIOUS
    <3>1. CASE Begins(s)
      <4>1. PICK op \in Ops, request \in Asked, roots \in Mounts,
                limit \in Nat :
              Begin(s, op, request, roots, limit)
        BY <3>1 DEF Begins
      <4>2. ~(op \in Writing /\ m = Where[roots][Resolve(request)])
        BY <1>2, <4>1 DEF Begin, WriterBegins
      <4>3. Writers(m)' = Writers(m)
        BY <4>1, <4>2, UsersBegin
      <4> QED
        BY <2>0, <4>3
    <3>2. CASE Over(s) \/ job' = job
      <4>1. Writers(m)' \subseteq Writers(m)
        BY <3>2, UsersAfter
      <4> QED
        BY <2>0, <4>1
    <3> QED
      BY <3>1, <3>2, Sorts DEF Cancel, BreaksOff, Dropped, Fails, Ends,
         Written, Removes, RunRemoves, Works
  <2> QED
    BY <2>0, <2>1 DEF Writers, Users
<1>8. pc[w] \in {"read", "write", "append"} => fd[w] # 0
  <2>1. pc[w] \in {"read", "write", "append"} => fd[w] \in 1 .. Len(data)
    BY Opened
  <2> QED
    BY <2>1
<1>9. \A x : Effect(w, x)' = Effect(w, x)
  BY <1>1 DEF Effect, Same
<1>10. Base(l)' = Base(l)
  BY <1>1, <1>6 DEF Base
<1>11. pc[w] = "read" => ReadsOf(w)'
  BY <1>1, <1>5, <1>8 DEF AloneOf, ReadsOf, Same
<1>12. pc[w] = "write" =>
        /\ inode'[l] = fd[w] /\ Len(data'[fd[w]]) = pos[w]
        /\ \A i \in 1 .. pos[w] : data'[fd[w]][i] = buffer[w][i]
  BY <1>5, <1>8 DEF AloneOf
<1>13. pc[w] = "chmod" => inode'[l] # 0 /\ data'[inode'[l]] = buffer[w]
  BY <1>5 DEF AloneOf
<1>14. ideal[l] # Unknown =>
        /\ pc[w] = "answer" => buffer[w] = ideal[l]
        /\ pc[w] \in {"open write", "write", "chmod"}
           /\ job[w].op = "replace" =>
             ideal[l] # None /\ buffer[w] = Effect(w, ideal[l])
        /\ pc[w] \in {"chmod append", "open append"} =>
             inode'[l] # 0 /\ data'[inode'[l]] = Base(l)
        /\ pc[w] = "append" =>
             /\ inode'[l] = fd[w]
             /\ data'[fd[w]] = Base(l) \o SubSeq(buffer[w], 1, pos[w])
  BY <1>5, <1>8 DEF AloneOf
<1>15. Effect(w, ideal[l])' = Effect(w, ideal[l])
  BY <1>1, <1>6, <1>9
<1>16. job[w].op \in Writing \cup Reading
  BY DEF AloneOf
<1> QED
  BY <1>1, <1>6, <1>7, <1>10, <1>11, <1>12, <1>13, <1>14, <1>15, <1>16
     DEF AloneOf, Same

(* A request that begins alone has done nothing yet.                       *)
LEMMA AloneBegins ==
  ASSUME ShapeInv, StageInv, AloneInv, StageInv', NEW s \in Slots, Begins(s),
         s \in alone'
  PROVE  AloneOf(s)'
<1>1. PICK op \in Ops, request \in Asked, roots \in Mounts, limit \in Nat :
        Begin(s, op, request, roots, limit)
  BY DEF Begins
<1> DEFINE here == Where[roots][Resolve(request)]
<1>2. /\ job'[s].op = op /\ pc'[s] = FirstStep(op) /\ pc[s] = "idle"
  BY <1>1 DEF Begin, ShapeInv
<1>3. s \notin alone
  BY <1>2, Busy DEF AloneInv, AloneOf, Ops
<1>4. op \in Writing \cup Reading /\ Writers(here) = {}
  BY <1>1, <1>3 DEF Begin, WriterBegins
<1>5. FirstStep(op) \in {"open read", "touch", "stat"}
      \/ (FirstStep(op) = "open write" /\ op # "replace")
  BY <1>4 DEF FirstStep, Writing, Overwriting, Reading
<1>6. Writers(At(s))' \subseteq {s}
  <2>1. At(s)' = here
    BY <1>1, UsersBegin
  <2>2. \A m : m = here => Writers(m)' \subseteq {s}
    BY <1>1, <1>4, UsersBegin
  <2> QED
    BY <2>1, <2>2 DEF Writers, Users
<1> QED
  BY <1>2, <1>4, <1>5, <1>6 DEF AloneOf

(* What has been read of a file is its beginning, block by block.          *)
LEMMA ReadsOn ==
  ASSUME ShapeInv, StageInv, NEW s \in Slots
  PROVE  /\ OpenRead(s) => ReadsOf(s)'
         /\ ReadBlock(s) /\ ReadsOf(s) => ReadsOf(s)'
<1>0. /\ DOMAIN fd = Slots /\ DOMAIN buffer = Slots
      /\ data \in Seq(Seq(Blocks)) /\ inode \in [Locations -> Nat]
      /\ \A l \in Locations : inode[l] <= Len(data)
  BY DiskOK DEF ShapeInv
<1>1. ASSUME OpenRead(s)
      PROVE  ReadsOf(s)'
  <2>1. /\ fd'[s] = inode[At(s)] /\ buffer'[s] = <<>> /\ At(s)' = At(s)
        /\ inode' = inode /\ data' = data /\ inode[At(s)] # 0
        /\ pc[s] # "idle"
    BY <1>0, <1>1 DEF OpenRead, disk, At
  <2>2. At(s) \in Locations
    BY <2>1, Busy
  <2>3. inode[At(s)] \in 1 .. Len(data)
    BY <1>0, <2>1, <2>2
  <2>4. data[inode[At(s)]] \in Seq(Blocks)
    BY <1>0, <2>3
  <2>5. Len(<<>>) = 0 /\ Len(data[inode[At(s)]]) \in Nat
    BY <2>4
  <2> QED
    BY <2>1, <2>5 DEF ReadsOf
<1>2. ASSUME ReadBlock(s), ReadsOf(s)
      PROVE  ReadsOf(s)'
  <2> DEFINE c == buffer[s]
             d == data[fd[s]]
             e == Append(c, d[Len(c) + 1])
  <2>1. /\ fd'[s] = fd[s] /\ buffer'[s] = e /\ At(s)' = At(s)
        /\ inode' = inode /\ data' = data /\ pc[s] = "read"
        /\ Len(c) < Len(d)
    BY <1>0, <1>2 DEF ReadBlock, disk, At
  <2>2. c \in Seq(Blocks) /\ d \in Seq(Blocks)
    BY <2>1, Opened
  <2>3. \A i \in 1 .. Len(c) : c[i] = d[i]
    BY <1>2 DEF ReadsOf
  <2>4. Len(e) <= Len(d) /\ \A i \in 1 .. Len(e) : e[i] = d[i]
    <3> HIDE DEF c, d
    <3>1. d[Len(c) + 1] \in Blocks
      BY <2>1, <2>2
    <3>2. Len(e) = Len(c) + 1
      BY <2>2, <3>1
    <3>3. ASSUME NEW i \in 1 .. Len(c) + 1
          PROVE  e[i] = d[i]
      BY <2>2, <2>3, <3>1, <3>3
    <3>4. Len(c) + 1 <= Len(d)
      BY <2>1, <2>2
    <3> QED
      BY <3>2, <3>3, <3>4
  <2> QED
    BY <1>2, <2>1, <2>4 DEF ReadsOf
<1> QED
  BY <1>1, <1>2

(* What is known of it as it goes on.                                      *)
LEMMA AloneWorks ==
  ASSUME ShapeInv, StageInv, SerialInv, StageInv', ShapeInv',
         NEW s \in Slots, Kinds(s), Works(s), AloneOf(s)
  PROVE  AloneOf(s)'
<1> DEFINE l == At(s)
<1>0. /\ DOMAIN pc = Slots /\ DOMAIN fd = Slots /\ DOMAIN pos = Slots
      /\ DOMAIN job = Slots /\ DOMAIN buffer = Slots
      /\ data \in Seq(Seq(Blocks)) /\ inode \in [Locations -> Nat]
      /\ Len(data) \in Nat /\ l \in Locations /\ StageOf(s)
      /\ buffer[s] \in Seq(Blocks) /\ pos[s] \in Nat
      /\ ideal[l] \in Seq(Blocks) \cup {None, Unknown}
      /\ inode[l] \in Nat /\ inode[l] <= Len(data)
  BY DiskOK, Busy DEF ShapeInv, Works, StageInv
<1>1. /\ job[s].op \in Writing \cup Reading /\ Writers(l) \subseteq {s}
      /\ job' = job /\ ideal' = ideal
  BY DEF AloneOf, Works, ghosts
<1>2. At(s)' = l
  <2>1. job[s].op # "grep"
    BY <1>1 DEF Writing, Overwriting, Reading
  <2> QED
    BY <1>1, <2>1, UsersOf DEF Target
<1>3. Writers(l)' \subseteq {s}
  <2>1. \A m : Writers(m)' = Writers(m)
    BY <1>1, UsersAfter
  <2>2. Writers(l)' = Writers(l)
    BY <1>2, <2>1 DEF Writers, Users
  <2> QED
    BY <1>1, <2>2
<1>4. ~Over(s) /\ ~Begins(s)
  <2>1. Over(s) => job'[s] = NoJob
    BY <1>0 DEF Over
  <2>2. NoJob.op \notin Writing \cup Reading
    BY DEF NoJob, Writing, Overwriting, Reading
  <2> QED
    BY <1>1, <2>1, <2>2 DEF Works, Begins, Begin
<1>5. (\A w \in Writers(l) : Clean(w)) /\ ideal[l] # Unknown =>
        Content(l) = ideal[l]
  BY <1>0 DEF SerialInv
<1>6. /\ job'[s].op \in Writing \cup Reading /\ Writers(At(s))' \subseteq {s}
      /\ job'[s] = job[s] /\ ideal'[At(s)'] = ideal[l]
  BY <1>1, <1>2, <1>3 DEF Writers, Users
<1>7. CASE OpenRead(s)
  <2>1. pc'[s] = "read" /\ ReadsOf(s)'
    BY <1>0, <1>7, ReadsOn DEF OpenRead, Go
  <2> QED
    BY <1>6, <2>1 DEF AloneOf
<1>8. CASE ReadBlock(s)
  <2>1. pc[s] = "read" /\ pc'[s] = "read"
    BY <1>8 DEF ReadBlock
  <2>2. ReadsOf(s)'
    BY <1>8, <2>1, ReadsOn DEF AloneOf
  <2> QED
    BY <1>6, <2>1, <2>2 DEF AloneOf
<1>9. CASE Moved(s)
  <2>0. inode' = inode /\ data' = data /\ buffer' = buffer
    BY <1>9 DEF Moved, disk, work
  <2>1. CASE pc[s] = "stat" /\ Go(s, "open read")
    <3>1. pc'[s] = "open read"
      BY <1>0, <2>1 DEF Go
    <3> QED
      BY <1>6, <3>1 DEF AloneOf
  <2>2. CASE (AtEnd(s, "read") \/ AtEnd(s, "download")) /\ Go(s, "answer")
    <3>1. pc[s] = "read" /\ pc'[s] = "answer"
          /\ Len(buffer[s]) >= Len(data[fd[s]])
      BY <1>0, <2>2 DEF AtEnd, Go
    <3>2. ideal[l] # Unknown => buffer'[s] = ideal[l]
      BY <2>0, <3>1, AllRead
    <3> QED
      BY <1>6, <3>1, <3>2 DEF AloneOf
  <2>3. CASE pc[s] = "chmod append" /\ Go(s, "open append")
    <3>1. pc'[s] = "open append"
      BY <1>0, <2>3 DEF Go
    <3>2. ideal[l] # Unknown => inode[l] # 0 /\ data[inode[l]] = Base(l)
      BY <2>3 DEF AloneOf
    <3>3. Base(At(s))' = Base(l)
      BY <1>2, <1>6 DEF Base
    <3> QED
      BY <1>2, <1>6, <2>0, <3>1, <3>2, <3>3 DEF AloneOf
  <2> QED
    BY <1>1, <1>9, <2>1, <2>2, <2>3, OpAt DEF Moved, Writing, Overwriting,
       Reading
<1>10. CASE ReplaceMatches(s)
  <2>1. /\ pc[s] = "read" /\ pc'[s] = "open write" /\ job[s].op = "replace"
        /\ Len(buffer[s]) >= Len(data[fd[s]])
        /\ buffer'[s] = [i \in DOMAIN buffer[s] |->
              IF buffer[s][i] = Text THEN job[s].id
                            ELSE buffer[s][i]]
    BY <1>0, <1>10 DEF ReplaceMatches, AtEnd, Go
  <2>2. ideal[l] # Unknown => ideal[l] = buffer[s]
    BY <2>1, AllRead
  <2>3. buffer[s] \notin {None, Unknown}
    BY <1>0, DiskAssumption
  <2>4. Effect(s, buffer[s]) = buffer'[s]
    BY <2>1, <2>3, EffectIs
  <2>5. ideal[l] # Unknown =>
          ideal[l] # None /\ buffer'[s] = Effect(s, ideal[l])
    BY <2>2, <2>3, <2>4
  <2>6. Effect(s, ideal[At(s)])' = Effect(s, ideal[l])
    <3>1. \A x : Effect(s, x)' = Effect(s, x)
      BY <1>6, <2>1 DEF Effect
    <3> QED
      BY <1>6, <3>1
  <2> QED
    BY <1>6, <2>1, <2>5, <2>6 DEF AloneOf
<1>11. CASE OpenWrite(s)
  <2>1. /\ pc[s] = "open write" /\ pc'[s] = "write" /\ fd'[s] = inode'[l]
        /\ buffer'[s] = buffer[s] /\ pos'[s] = 0
    BY <1>0, <1>11 DEF OpenWrite, Go, StageOf
  <2>2. data'[inode'[l]] = <<>>
    <3>1. CASE inode[l] = 0
      BY <1>0, <1>11, <3>1, CreatedOK DEF OpenWrite
    <3>2. CASE inode[l] # 0
      <4>1. inode[l] \in DOMAIN data
        BY <1>0, <3>2
      <4> QED
        BY <1>0, <1>11, <3>2, <4>1 DEF OpenWrite, Emptied
    <3> QED
      BY <3>1, <3>2
  <2>3. Len(data'[fd'[s]]) = 0
    <3>1. data'[fd'[s]] = <<>>
      BY <2>1, <2>2
    <3> QED
      BY <3>1
  <2>4. \A x : job[s].op = "replace" => Effect(s, x)' = Effect(s, x)
    BY <1>6 DEF Effect
  <2>5. ideal[l] # Unknown /\ job[s].op = "replace" =>
          ideal[l] # None /\ buffer[s] = Effect(s, ideal[l])
    BY <2>1 DEF AloneOf
  <2>6. job[s].op = "replace" =>
          Effect(s, ideal[At(s)])' = Effect(s, ideal[l])
    BY <1>6, <2>4
  <2>7. \A i \in 1 .. pos'[s] : data'[fd'[s]][i] = buffer'[s][i]
    <3>1. pos'[s] = 0
      BY <2>1
    <3>2. 1 .. 0 = {}
      OBVIOUS
    <3> QED
      BY <3>1, <3>2
  <2>8. inode'[At(s)'] = fd'[s]
    BY <1>2, <2>1
  <2> QED
    BY <1>6, <2>1, <2>3, <2>5, <2>6, <2>7, <2>8 DEF AloneOf
<1>12. CASE WriteBlock(s)
  <2>1. /\ pc[s] = "write" /\ buffer' = buffer /\ fd' = fd
        /\ \/ pc' = pc /\ pos'[s] = pos[s] + 1
           \/ pc'[s] = "chmod" /\ pos[s] + 1 = Len(buffer[s])
    BY <1>0, <1>4, <1>12 DEF WriteBlock, MoreToWrite, Written, Go, work
  <2>2. /\ inode'[l] = fd[s] /\ fd[s] \in 1 .. Len(data)
        /\ Len(data'[fd[s]]) = pos[s] + 1
        /\ \A k \in 1 .. pos[s] + 1 : data'[fd[s]][k] = buffer[s][k]
        /\ pos[s] + 1 = Len(buffer[s]) => data'[fd[s]] = buffer[s]
    BY <1>12, WritesOn, WritesAll
  <2>3. \A x : job[s].op = "replace" => Effect(s, x)' = Effect(s, x)
    BY <1>6 DEF Effect
  <2>4. ideal[l] # Unknown /\ job[s].op = "replace" =>
          ideal[l] # None /\ buffer[s] = Effect(s, ideal[l])
    BY <2>1 DEF AloneOf
  <2>5. job[s].op = "replace" =>
          Effect(s, ideal[At(s)])' = Effect(s, ideal[l])
    BY <1>6, <2>3
  <2>6. fd[s] # 0
    BY <2>2
  <2>7. CASE pc' = pc /\ pos'[s] = pos[s] + 1
    BY <1>2, <1>6, <2>1, <2>2, <2>4, <2>5, <2>7 DEF AloneOf
  <2>8. CASE pc'[s] = "chmod" /\ pos[s] + 1 = Len(buffer[s])
    BY <1>2, <1>6, <2>1, <2>2, <2>4, <2>5, <2>6, <2>8 DEF AloneOf
  <2> QED
    BY <2>1, <2>7, <2>8
<1>13. CASE Touched(s)
  <2>1. pc[s] = "touch" /\ pc'[s] = "chmod append"
    BY <1>0, <1>13 DEF Touched, Go
  <2>2. ideal[l] # Unknown => Content(l) = ideal[l]
    BY <1>1, <1>5, <2>1 DEF Clean
  <2>3. ideal[l] # Unknown => inode'[l] # 0 /\ data'[inode'[l]] = Base(l)
    <3>1. CASE inode[l] = 0 /\ Created(l)
      <4>1. inode'[l] = Len(data) + 1 /\ data'[Len(data) + 1] = <<>>
        BY <1>0, <3>1, CreatedOK
      <4>2. ideal[l] # Unknown => Base(l) = <<>>
        BY <2>2, <3>1 DEF Content, Base
      <4> QED
        BY <1>0, <4>1, <4>2
    <3>2. CASE inode[l] # 0 /\ UNCHANGED <<inode, data>>
      <4>1. data[inode[l]] \in Seq(Blocks)
        BY <1>0, <3>2
      <4>2. ideal[l] # Unknown => Base(l) = data[inode[l]]
        BY <2>2, <3>2, <4>1, DiskAssumption DEF Content, Base
      <4> QED
        BY <3>2, <4>2
    <3> QED
      BY <1>13, <3>1, <3>2 DEF Touched
  <2>4. Base(At(s))' = Base(l)
    BY <1>2, <1>6 DEF Base
  <2> QED
    BY <1>2, <1>6, <2>1, <2>3, <2>4 DEF AloneOf
<1>14. CASE OpenAppend(s)
  <2>1. /\ pc[s] = "open append" /\ pc'[s] = "append" /\ pos'[s] = 0
        /\ fd'[s] = inode'[l] /\ buffer' = buffer
    BY <1>0, <1>14 DEF OpenAppend, Go
  <2>2. ideal[l] # Unknown => /\ inode[l] # 0 /\ data[inode[l]] = Base(l)
                             /\ inode' = inode /\ data' = data
    BY <1>14, <2>1 DEF AloneOf, OpenAppend
  <2>3. Base(At(s))' = Base(l)
    BY <1>2, <1>6 DEF Base
  <2>4. ideal[l] # Unknown => Base(l) \o SubSeq(buffer[s], 1, 0) = Base(l)
    <3>1. ideal[l] # Unknown => Base(l) \in Seq(Blocks)
      BY <1>0, BlocksOK DEF Base
    <3>2. SubSeq(buffer[s], 1, 0) = <<>>
      BY <1>0, SubSeqEmpty
    <3> QED
      BY <3>1, <3>2, ConcatEmptySeq
  <2>5. ideal[l] # Unknown =>
          data'[fd'[s]] = Base(l) \o SubSeq(buffer[s], 1, 0)
    BY <2>1, <2>2, <2>4
  <2> QED
    BY <1>2, <1>6, <2>1, <2>3, <2>5 DEF AloneOf
<1>15. CASE AppendBlock(s)
  <2>1. /\ pc[s] = "append" /\ pc' = pc /\ buffer' = buffer /\ fd' = fd
        /\ pos'[s] = pos[s] + 1
    BY <1>0, <1>4, <1>15 DEF AppendBlock, MoreToWrite, Written
  <2>2. ideal[l] # Unknown =>
          /\ inode'[l] = fd[s]
          /\ data'[fd[s]] = Base(l) \o SubSeq(buffer[s], 1, pos[s] + 1)
    BY <1>15, AppendsOn
  <2>3. Base(At(s))' = Base(l)
    BY <1>2, <1>6 DEF Base
  <2> QED
    BY <1>2, <1>6, <2>1, <2>2, <2>3 DEF AloneOf
<1>16. ~Cancel(s) /\ ~Dropped(s) /\ ~Finished(s) /\ ~ReplaceFindsNothing(s)
  BY <1>4 DEF Cancel, BreaksOff, Dropped, Fails, Finished, ReplaceFindsNothing,
     Written
<1>17. ~GrepMatches(s) /\ ~ReadDir(s) /\ ~StatEntry(s) /\ ~Walk(s)
       /\ ~NextFile(s) /\ ~MadeDir(s) /\ \A p \in Places : ~RunRemoves(s, p)
  BY <1>1, OpAt DEF GrepMatches, AtEnd, ReadDir, StatEntry, Walk, NextFile,
     MadeDir, RunRemoves, Writing, Overwriting, Reading
<1> QED
  BY <1>4, <1>7, <1>8, <1>9, <1>10, <1>11, <1>12, <1>13, <1>14, <1>15,
     <1>16, <1>17 DEF Kinds

(* SerialInv and AloneInv are inductive together.                          *)
LEMMA SerialNext ==
  ASSUME ShapeInv, StageInv, InodeInv, SerialInv, AloneInv, ShapeInv',
         StageInv', [Next]_vars
  PROVE  SerialInv' /\ AloneInv'
<1>1. CASE UNCHANGED vars
  <2>1. /\ \A w : At(w)' = At(w) /\ Clean(w)' = Clean(w)
        /\ \A l : Content(l)' = Content(l) /\ Base(l)' = Base(l)
        /\ \A w, x : Effect(w, x)' = Effect(w, x)
    BY <1>1 DEF vars, disk, work, ghosts, At, Clean, Content, Base, Effect
  <2>2. \A l : Writers(l)' = Writers(l)
    BY <1>1, <2>1 DEF vars, Writers, Users
  <2>3. SerialInv'
    BY <1>1, <2>1, <2>2 DEF vars, disk, ghosts, SerialInv
  <2>4. ASSUME NEW w \in alone
        PROVE  AloneOf(w)'
    <3>1. AloneOf(w) /\ (Writers(At(w)))' = Writers(At(w))
      BY <2>1, <2>2 DEF AloneInv, Writers, Users
    <3>2. ReadsOf(w)' = ReadsOf(w)
      BY <1>1, <2>1 DEF vars, disk, work, ReadsOf
    <3>3. Base(At(w))' = Base(At(w))
          /\ Effect(w, ideal[At(w)])' = Effect(w, ideal[At(w)])
      BY <1>1, <2>1 DEF vars, ghosts, Base
    <3> QED
      BY <1>1, <2>1, <3>1, <3>2, <3>3 DEF vars, disk, work, ghosts, AloneOf
  <2> QED
    BY <1>1, <2>3, <2>4 DEF vars, ghosts, AloneInv
<1>2. ASSUME NEW s \in Slots, Kinds(s)
      PROVE  AloneInv'
  <2> SUFFICES ASSUME NEW w \in alone'
               PROVE  AloneOf(w)'
    BY DEF AloneInv
  <2>1. w \in Slots /\ alone' \subseteq alone \cup {s}
    <3>1. CASE Begins(s)
      BY <3>1 DEF Begins, Begin, WriterBegins, ShapeInv
    <3>2. CASE Over(s)
      BY <3>2 DEF Over, ShapeInv
    <3>3. CASE Removes(s)
      BY <3>3 DEF Removes, RunRemoves, ShapeInv
    <3>4. CASE Works(s)
      BY <3>4 DEF Works, ghosts, ShapeInv
    <3> QED
      BY <1>2, <3>1, <3>2, <3>3, <3>4, Sorts DEF Cancel, BreaksOff, Dropped,
         Fails, Ends, Written
  <2>2. CASE w # s
    <3>1. w \in alone /\ AloneOf(w)
      BY <2>1, <2>2 DEF AloneInv
    <3> QED
      BY <1>2, <2>1, <2>2, <3>1, AloneOthers
  <2>3. CASE w = s
    <3>1. CASE Begins(s)
      BY <1>2, <2>3, <3>1, AloneBegins
    <3>2. ~Over(s)
      BY <2>3 DEF Over
    <3>3. ~Removes(s)
      <4>1. Removes(s) => s \in alone /\ job[s].op = "exec"
        BY <2>3, OpAt DEF Removes, RunRemoves
      <4>2. s \in alone => job[s].op \in Writing \cup Reading
        BY DEF AloneInv, AloneOf
      <4> QED
        BY <4>1, <4>2 DEF Writing, Overwriting, Reading
    <3>4. CASE Works(s)
      <4>1. AloneOf(s)
        BY <2>3, <3>4 DEF Works, ghosts, AloneInv
      <4> QED
        BY <1>2, <2>3, <3>4, <4>1, AloneWorks
    <3> QED
      BY <1>2, <3>1, <3>2, <3>3, <3>4, Sorts DEF Cancel, BreaksOff, Dropped,
         Fails, Ends, Written
  <2> QED
    BY <2>2, <2>3
<1>3. CASE Next
  BY <1>2, <1>3, NextCases, SerialMoves
<1> QED
  BY <1>1, <1>3

(* So undisturbed requests are as if atomic.                               *)
LEMMA SerialFollows ==
  ASSUME ShapeInv, StageInv, SerialInv, AloneInv
  PROVE  UndisturbedIsSerial
<1>1. ASSUME NEW l \in Locations, Writers(l) = {}, ideal[l] # Unknown
      PROVE  Content(l) = ideal[l]
  BY <1>1 DEF SerialInv
<1>2. ASSUME NEW s \in Slots, pc[s] = "answer", s \in alone,
             ideal[At(s)] # Unknown
      PROVE  buffer[s] = ideal[At(s)]
  BY <1>2 DEF AloneInv, AloneOf
<1> QED
  BY <1>1, <1>2 DEF UndisturbedIsSerial

(* At first no request is known of, and every file holds what it would     *)
(* hold had requests been atomic.                                          *)
LEMMA KnownInit ==
  ASSUME Init, ShapeInv, StageInv
  PROVE  IdInv /\ InodeInv /\ AppendInv /\ SerialInv /\ AloneInv
<1> DEFINE n == Cardinality(Held)
           number(l) == CHOOSE i \in 1 .. n : SetToSeq(Held)[i] = l
<1>1. /\ pc = [s \in Slots |-> "idle"] /\ job = [s \in Slots |-> NoJob]
      /\ buffer = [s \in Slots |-> <<>>] /\ begun = 0
      /\ alone = {} /\ safe = {} /\ appended = [l \in Locations |-> {}]
      /\ data = [i \in 1 .. n |-> <<Text>>]
  BY DEF Init
<1>2. \A l \in Locations :
        /\ inode[l] = IF l \in Held THEN number(l) ELSE 0
        /\ ideal[l] = IF l \in Held THEN <<Text>> ELSE None
  BY DEF Init
<1>3. \A l \in Held : number(l) \in 1 .. n /\ SetToSeq(Held)[number(l)] = l
  BY HeldNumbered
<1>4. n \in Nat
  BY HeldNumbered
<1> HIDE DEF number, n
<1>5. IdInv
  <2>1. ASSUME NEW i \in DOMAIN data
        PROVE  KnownTo(begun, data[i])
    <3>1. data[i] = <<Text>>
      BY <1>1, <2>1
    <3>2. \A k \in DOMAIN <<Text>> : <<Text>>[k] = Text
      OBVIOUS
    <3>3. Text <= begun
      BY <1>1 DEF Text
    <3> QED
      BY <3>1, <3>2, <3>3 DEF KnownTo
  <2>2. \A s \in Slots : KnownTo(begun, buffer[s])
    <3>1. DOMAIN <<>> = {}
      OBVIOUS
    <3> QED
      BY <1>1, <3>1 DEF KnownTo
  <2> QED
    BY <1>1, <2>1, <2>2 DEF IdInv
<1>6. InodeInv
  <2>1. \A l \in Locations : inode[l] # 0 => l \in Held /\ inode[l] = number(l)
    BY <1>2
  <2> QED
    BY <1>1, <1>3, <2>1 DEF InodeInv
<1>7. AppendInv /\ AloneInv
  BY <1>1 DEF AppendInv, AloneInv
<1>8. SerialInv
  <2>1. ASSUME NEW l \in Locations
        PROVE  Content(l) = ideal[l]
    <3>1. CASE l \in Held
      <4>1. inode[l] \in 1 .. n /\ inode[l] # 0
        BY <1>2, <1>3, <1>4, <3>1
      <4> QED
        BY <1>1, <1>2, <3>1, <4>1 DEF Content
    <3>2. CASE l \notin Held
      BY <1>2, <3>2 DEF Content
    <3> QED
      BY <3>1, <3>2
  <2>2. \A w \in Slots : job[w].op \notin Writing
    BY <1>1 DEF NoJob, Writing, Overwriting
  <2> QED
    BY <2>1, <2>2 DEF SerialInv
<1> QED
  BY <1>5, <1>6, <1>7, <1>8

(* The ancestors of a directory's ancestors are its ancestors.             *)
LEMMA AncestorsClosed ==
  ASSUME NEW dir, NEW rest \in Path, NEW a \in Ancestors(Location(dir, rest))
  PROVE  Ancestors(a) \subseteq Ancestors(Location(dir, rest))
<1>1. PICK n \in 0 .. Len(rest) : a = Location(dir, SubSeq(rest, 1, n))
  BY DEF Ancestors, Location
<1>2. Len(rest) \in Nat
  BY DEF Path
<1>3. SUFFICES ASSUME NEW m \in 0 .. Len(SubSeq(rest, 1, n))
               PROVE  Location(dir, SubSeq(SubSeq(rest, 1, n), 1, m))
                        \in Ancestors(Location(dir, rest))
  BY <1>1 DEF Ancestors, Location
<1>4. m \in 0 .. n /\ m \in 0 .. Len(rest)
  BY <1>2, Beginnings
<1>5. SubSeq(SubSeq(rest, 1, n), 1, m) = SubSeq(rest, 1, m)
  BY <1>4, Beginnings
<1> QED
  BY <1>4, <1>5 DEF Ancestors, Location

(* The directory that mkdir -p makes for a file is the one that it is in.  *)
LEMMA ParentDir ==
  ASSUME NEW roots \in Roots, NEW p \in Path
  PROVE  Above(Mounted(roots, p)) \subseteq
           Ancestors(Mounted(roots, Front(p)))
             \cup {Location(dir, <<>>) : dir \in Dirs}
<1>1. PICK top \in Tops, dir \in Dirs :
        /\ Within(top, p)
        /\ \A q \in Path : Within(top, q) /\ Within(q, p) =>
             Mounted(roots, q) = Location(dir, Below(top, q))
  BY SameMount
<1>2. /\ top \in Path /\ Len(top) \in Nat /\ Len(p) \in Nat
      /\ Len(top) <= Len(p) /\ \A i \in 1 .. Len(top) : p[i] = top[i]
  BY <1>1, DirsArePaths, PathFacts, WithinPointwise DEF Tops
<1>3. Within(p, p)
  BY <1>2, WithinPointwise
<1>4. /\ Below(top, p) \in Path /\ Len(Below(top, p)) = Len(p) - Len(top)
      /\ Mounted(roots, p) = Location(dir, Below(top, p))
  BY <1>1, <1>2, <1>3, WithinBelow
<1>5. Above(Mounted(roots, p)) = Ancestors(Location(dir, Front(Below(top, p))))
  BY <1>4 DEF Above, Location
<1>6. CASE Len(top) = Len(p)
  <2>1. Below(top, p) = <<>>
    BY <1>2, <1>4, <1>6 DEF Path
  <2>2. Front(<<>>) = <<>>
    BY FrontIs, DirsArePaths
  <2>3. Ancestors(Location(dir, <<>>)) = {Location(dir, <<>>)}
    <3>1. Len(<<>>) = 0 /\ SubSeq(<<>>, 1, 0) = <<>> /\ 0 .. 0 = {0}
      OBVIOUS
    <3> QED
      BY <3>1 DEF Ancestors, Location
  <2> QED
    BY <1>5, <2>1, <2>2, <2>3
<1>7. CASE Len(top) # Len(p)
  <2>1. Len(p) - 1 \in 0 .. Len(p) /\ Len(top) <= Len(p) - 1 /\ p # <<>>
        /\ Below(top, p) # <<>>
    BY <1>2, <1>4, <1>7
  <2>2. /\ Front(p) = SubSeq(p, 1, Len(p) - 1) /\ Front(p) \in Path
        /\ Front(Below(top, p)) =
             SubSeq(Below(top, p), 1, Len(p) - Len(top) - 1)
    <3>1. Len(p) - Len(top) - 1 = Len(Below(top, p)) - 1
      BY <1>2, <1>4
    <3> QED
      BY <1>4, <2>1, <3>1, FrontIs
  <2>3. /\ Len(Front(p)) = Len(p) - 1 /\ Within(Front(p), p)
        /\ \A i \in 1 .. Len(p) - 1 : Front(p)[i] = p[i]
    <3> DEFINE k == Len(p) - 1
    <3>1. k \in 0 .. Len(p) /\ Front(p) = SubSeq(p, 1, k)
      BY <2>1, <2>2
    <3> HIDE DEF k
    <3>2. /\ Len(Front(p)) = k /\ Within(Front(p), p)
          /\ \A i \in 1 .. k : Front(p)[i] = p[i]
      BY <3>1, Beginnings
    <3> QED
      BY <3>2 DEF k
  <2>4. Within(top, Front(p))
    <3>1. \A i \in 1 .. Len(top) : Front(p)[i] = top[i]
      BY <1>2, <2>1, <2>3
    <3> QED
      BY <1>2, <2>1, <2>2, <2>3, <3>1, WithinPointwise
  <2>5. Below(top, Front(p)) =
          SubSeq(Below(top, p), 1, Len(Front(p)) - Len(top))
    BY <1>2, <2>2, <2>3, <2>4, BelowBetween
  <2>6. Len(Front(p)) - Len(top) = Len(p) - Len(top) - 1
    BY <1>2, <2>3
  <2>7. Mounted(roots, Front(p)) = Location(dir, Front(Below(top, p)))
    BY <1>1, <2>2, <2>3, <2>4, <2>5, <2>6
  <2> QED
    BY <1>5, <2>7
<1> QED
  BY <1>6, <1>7

(* The directory that is searched is one that every file below it is in,   *)
(* or the home directory.                                                  *)
LEMMA SearchedDir ==
  ASSUME NEW roots \in Roots, NEW at \in Path, NEW p \in Path,
         Within(Skills, at) \/ Within(Home, at),
         Within(at, p), p # at
  PROVE  Mounted(roots, at) \in Above(Mounted(roots, p)) \/ at = Home
<1>1. PICK top \in Tops, dir \in Dirs :
        /\ Within(top, p)
        /\ \A q \in Path : Within(top, q) /\ Within(q, p) =>
             Mounted(roots, q) = Location(dir, Below(top, q))
  BY SameMount
<1>2. /\ top \in Path /\ Len(top) \in Nat /\ Len(p) \in Nat
      /\ Len(top) <= Len(p) /\ \A i \in 1 .. Len(top) : p[i] = top[i]
  BY <1>1, DirsArePaths, PathFacts, WithinPointwise DEF Tops
<1>3. /\ Len(at) \in Nat /\ Len(at) < Len(p)
      /\ \A i \in 1 .. Len(at) : p[i] = at[i]
  <2>1. /\ Len(at) \in Nat /\ Len(at) <= Len(p)
        /\ \A i \in 1 .. Len(at) : p[i] = at[i]
    BY PathFacts, WithinPointwise
  <2>2. Len(at) = Len(p) => at = p
    BY <2>1, SeqEqual DEF Path
  <2> QED
    BY <1>2, <2>1, <2>2
<1>4. Within(p, p)
  BY <1>2, WithinPointwise
<1>5. /\ Below(top, p) \in Path /\ Len(Below(top, p)) = Len(p) - Len(top)
      /\ Mounted(roots, p) = Location(dir, Below(top, p))
  BY <1>1, <1>2, <1>4, WithinBelow
<1>6. CASE Len(top) <= Len(at)
  <2>1. Within(top, at)
    BY <1>2, <1>3, <1>6, WithinPointwise
  <2> DEFINE below == Below(top, p)
             n == Len(at) - Len(top)
  <2>2. Mounted(roots, at) = Location(dir, SubSeq(below, 1, n))
    BY <1>1, <1>2, <2>1, BelowBetween
  <2>3. /\ Len(below) \in Nat /\ Len(below) - 1 \in 0 .. Len(below)
        /\ n \in 0 .. Len(below) - 1 /\ below # <<>>
    BY <1>2, <1>3, <1>5, <1>6
  <2> HIDE DEF below, n
  <2>4. below \in Path
    BY <1>5 DEF below
  <2>5. Front(below) = SubSeq(below, 1, Len(below) - 1)
    BY <2>3, <2>4, FrontIs
  <2>6. /\ Len(Front(below)) = Len(below) - 1
        /\ SubSeq(Front(below), 1, n) = SubSeq(below, 1, n)
    BY <2>3, <2>4, <2>5, Beginnings
  <2>7. Above(Mounted(roots, p)) = Ancestors(Location(dir, Front(below)))
    BY <1>5 DEF below, Above, Location
  <2>8. Location(dir, SubSeq(Front(below), 1, n)) \in
          Ancestors(Location(dir, Front(below)))
    BY <2>3, <2>6 DEF Ancestors, Location
  <2> QED
    BY <2>2, <2>6, <2>7, <2>8
<1>7. CASE Len(at) < Len(top)
  <2> DEFINE m == Len(at)
             n == Len(top)
  <2>1. n \in {0, 1, 2} /\ m \in Nat /\ m < n
    <3>1. /\ Len(<<>>) = 0 /\ Len(Home) = 1
          /\ Len(Skills) = 2 /\ Len(Project) = 2
      BY DirsArePaths
    <3> QED
      BY <1>3, <1>7, <3>1 DEF Tops
  <2>2. /\ Within(Skills, at) => m >= 2
        /\ Within(Home, at) => m >= 1 /\ at[1] = "home"
    BY PathFacts
  <2> HIDE DEF m, n
  <2>3. m <= 1
    BY <2>1
  <2>4. m = 1 /\ at[1] = "home"
    BY <2>1, <2>2, <2>3
  <2>5. Len(at) = Len(Home) /\ \A i \in 1 .. Len(at) : at[i] = Home[i]
    BY <2>4, DirsArePaths DEF m
  <2> QED
    BY <2>5, DirsArePaths, SeqEqual DEF Path
<1> QED
  BY <1>2, <1>3, <1>6, <1>7

(* What mkdir -p makes: a directory and its parents.                       *)
LEMMA DirsChange ==
  ASSUME ShapeInv, StageInv, NEW s \in Slots, Kinds(s)
  PROVE  \/ dirs' = dirs
         \/ \E dir \in Dirs, rest \in Path :
              dirs' = dirs \cup Ancestors(Location(dir, rest))
<1>1. CASE Begins(s)
  <2>1. PICK op \in Ops, request \in Asked, roots \in Mounts, limit \in Nat :
          Begin(s, op, request, roots, limit)
    BY <1>1 DEF Begins
  <2>2. dirs' = dirs \cup MountPoints(roots)
    BY <2>1 DEF Begin
  <2>3. [roots EXCEPT !.project = FALSE] \in Roots /\ Project \in Path
    BY PlacesOK, DirsArePaths DEF Roots
  <2> QED
    BY <2>2, <2>3, MountedIs DEF MountPoints
<1>2. CASE Cancel(s)
  BY <1>2 DEF Cancel, BreaksOff, disk
<1>3. CASE Dropped(s)
  BY <1>3 DEF Dropped, Fails, disk
<1>4. CASE Moved(s)
  BY <1>4 DEF Moved, disk
<1>5. CASE OpenRead(s) \/ ReadBlock(s)
  BY <1>5 DEF OpenRead, ReadBlock, disk
<1>6. CASE ReplaceMatches(s) \/ ReplaceFindsNothing(s) \/ GrepMatches(s)
  BY <1>6 DEF ReplaceMatches, ReplaceFindsNothing, GrepMatches, disk
<1>7. CASE WriteBlock(s) \/ Finished(s)
  BY <1>7 DEF WriteBlock, Finished, disk
<1>8. CASE Touched(s) \/ OpenAppend(s) \/ AppendBlock(s)
  BY <1>8 DEF Touched, OpenAppend, AppendBlock
<1>9. CASE ReadDir(s) \/ StatEntry(s) \/ Walk(s) \/ NextFile(s)
  BY <1>9 DEF ReadDir, StatEntry, Walk, NextFile, disk
<1>10. CASE OpenWrite(s)
  <2>1. job[s].roots \in Roots /\ file[s] \in Path
    BY <1>10, Busy, PlacesOK DEF OpenWrite, Shown
  <2>2. Front(file[s]) \in Path
    BY <2>1, FrontIs
  <2>3. dirs' = dirs \cup Ancestors(Mounted(job[s].roots, Front(file[s])))
    BY <1>10 DEF OpenWrite
  <2> QED
    BY <2>1, <2>2, <2>3, MountedIs
<1>11. CASE MadeDir(s)
  <2>1. job[s].roots \in Roots /\ job[s].at \in Path
    BY <1>11, Busy, PlacesOK DEF MadeDir
  <2>2. \/ dirs' = dirs
        \/ dirs' = dirs \cup Ancestors(Mounted(job[s].roots, job[s].at))
    BY <1>11, <2>1, HostPathIsMounted DEF MadeDir
  <2> QED
    BY <2>1, <2>2, MountedIs
<1>12. ASSUME NEW p \in Places, RunRemoves(s, p)
       PROVE  dirs' = dirs
  BY <1>12 DEF RunRemoves
<1> QED
  BY <1>1, <1>2, <1>3, <1>4, <1>5, <1>6, <1>7, <1>8, <1>9, <1>10, <1>11,
     <1>12 DEF Kinds

(* Which requests create the file they work on.                            *)
LEMMA FileMakers ==
  ASSUME NEW s \in Slots, Kinds(s)
  PROVE  UNCHANGED inode \/ OpenWrite(s) \/ Touched(s) \/ OpenAppend(s)
         \/ Removes(s)
<1>1. CASE Begins(s)
  BY <1>1 DEF Begins, Begin
<1>2. CASE Cancel(s) \/ Dropped(s)
  BY <1>2 DEF Cancel, BreaksOff, Dropped, Fails, disk
<1>4. CASE Moved(s)
  BY <1>4 DEF Moved, disk
<1>5. CASE OpenRead(s) \/ ReadBlock(s)
  BY <1>5 DEF OpenRead, ReadBlock, disk
<1>6. CASE ReplaceMatches(s) \/ ReplaceFindsNothing(s) \/ GrepMatches(s)
  BY <1>6 DEF ReplaceMatches, ReplaceFindsNothing, GrepMatches, disk
<1>7. CASE WriteBlock(s) \/ Finished(s) \/ AppendBlock(s)
  BY <1>7 DEF WriteBlock, Finished, AppendBlock, disk
<1>9. CASE ReadDir(s) \/ StatEntry(s) \/ Walk(s) \/ NextFile(s)
  BY <1>9 DEF ReadDir, StatEntry, Walk, NextFile, disk
<1>11. CASE MadeDir(s)
  BY <1>11 DEF MadeDir
<1> QED
  BY <1>1, <1>2, <1>4, <1>5, <1>6, <1>7, <1>9, <1>11 DEF Kinds, Removes

(* An append goes on when its file is there.                               *)
LEMMA AppendsBegin ==
  ASSUME ShapeInv, StageInv, NEW s \in Slots, Kinds(s),
         pc'[s] \in {"chmod append", "open append"}
  PROVE  Touched(s) \/ (Moved(s) /\ pc[s] = "chmod append")
<1>0. DOMAIN pc = Slots /\ DOMAIN job = Slots
  BY DEF ShapeInv
<1>1. ~Over(s)
  BY <1>0 DEF Over, Go
<1>2. ~Begins(s)
  <2> SUFFICES ASSUME NEW op \in Ops, NEW request \in Asked,
                      NEW roots \in Mounts, NEW limit \in Nat,
                      Begin(s, op, request, roots, limit)
               PROVE  FALSE
    BY DEF Begins
  <2>2. pc'[s] = FirstStep(op)
    BY <1>0 DEF Begin
  <2> QED
    BY <2>2 DEF FirstStep, Ops, Writing, Overwriting, Reading, Searching
<1>3. CASE Moved(s)
  BY <1>0, <1>3 DEF Moved, Go
<1>4. ~OpenRead(s) /\ ~ReadBlock(s)
  BY <1>0 DEF OpenRead, ReadBlock, Go
<1>5. ~ReplaceMatches(s) /\ ~GrepMatches(s)
  BY <1>0 DEF ReplaceMatches, GrepMatches, Go
<1>6. ~OpenWrite(s) /\ ~WriteBlock(s)
  BY <1>0, <1>1 DEF OpenWrite, WriteBlock, MoreToWrite, Written, Go
<1>7. ~OpenAppend(s) /\ ~AppendBlock(s)
  BY <1>0, <1>1 DEF OpenAppend, AppendBlock, MoreToWrite, Written, Go
<1>8. ~ReadDir(s) /\ ~StatEntry(s) /\ ~Walk(s)
  BY <1>0 DEF ReadDir, StatEntry, Walk, Go
<1>9. ~NextFile(s) /\ ~MadeDir(s)
  BY <1>0 DEF NextFile, MadeDir, Go
<1>10. ASSUME NEW p \in Places, RunRemoves(s, p)
       PROVE  FALSE
  BY <1>10 DEF RunRemoves
<1> QED
  BY <1>1, <1>2, <1>3, <1>4, <1>5, <1>6, <1>7, <1>8, <1>9, <1>10 DEF Kinds,
     Cancel, BreaksOff, Dropped, Fails, ReplaceFindsNothing, Finished, Written

(* A file is made where its directory is.                                  *)
LEMMA ParentThere ==
  ASSUME ShapeInv, StageInv, TreeInv, NEW s \in Slots, Kinds(s),
         OpenWrite(s) \/ Touched(s) \/ OpenAppend(s)
  PROVE  Above(At(s)) \subseteq dirs'
<1> DEFINE parent == Mounted(job[s].roots, Front(file[s]))
<1>0. pc[s] # "idle"
  BY DEF OpenWrite, Touched, OpenAppend
<1>1. /\ job[s].roots \in Roots /\ file[s] \in Path /\ At(s) \in Locations
      /\ At(s) = Mounted(job[s].roots, file[s])
  BY <1>0, Busy, PlacesOK DEF Shown, At
<1>2. Above(At(s)) \subseteq Ancestors(parent)
        \cup {Location(dir, <<>>) : dir \in Dirs}
  BY <1>1, ParentDir
<1>3. /\ dirs \subseteq dirs'
      /\ {Location(dir, <<>>) : dir \in Dirs} \subseteq dirs
  BY DirsGrow DEF TreeInv
<1>4. CASE OpenWrite(s)
  BY <1>2, <1>3, <1>4 DEF OpenWrite
<1>5. CASE Touched(s)
  BY <1>1, <1>2, <1>3, <1>5 DEF Touched, TreeInv
<1>6. CASE OpenAppend(s)
  BY <1>3, <1>6 DEF OpenAppend, TreeInv
<1> QED
  BY <1>4, <1>5, <1>6

(* TreeInv is inductive.                                                   *)
LEMMA TreeNext ==
  ASSUME ShapeInv, StageInv, TreeInv, [Next]_vars
  PROVE  TreeInv'
<1>1. CASE UNCHANGED vars
  BY <1>1 DEF vars, disk, work, TreeInv, At
<1>2. ASSUME NEW s \in Slots, Kinds(s)
      PROVE  TreeInv'
  <2>1. dirs \subseteq dirs'
    BY <1>2, DirsGrow
  <2>2. /\ \A d \in Dirs : Location(d, <<>>) \in dirs'
        /\ \A d \in {"session", "workspace"} : Location(d, Home) \in dirs'
    BY <2>1 DEF TreeInv
  <2>3. \A d \in dirs' : Ancestors(d) \subseteq dirs'
    BY <1>2, DirsChange, AncestorsClosed DEF TreeInv
  <2>4. ASSUME NEW l \in Locations, inode'[l] # 0
        PROVE  Above(l) \subseteq dirs'
    <3>1. CASE inode[l] # 0
      BY <2>1, <3>1 DEF TreeInv
    <3>2. CASE inode[l] = 0
      <4>1. CASE OpenWrite(s) \/ Touched(s) \/ OpenAppend(s)
        <5>1. inode'[l] # inode[l]
          BY <2>4, <3>2
        <5>2. l = At(s)
          BY <1>2, <2>4, <5>1, NamesAfter
        <5> QED
          BY <1>2, <4>1, <5>2, ParentThere
      <4>2. CASE UNCHANGED inode \/ Removes(s)
        BY <2>4, <3>2, <4>2, DiskOK DEF Removes, RunRemoves
      <4> QED
        BY <1>2, <4>1, <4>2, FileMakers
    <3> QED
      BY <3>1, <3>2
  <2>5. ASSUME NEW t \in Slots, pc'[t] \in {"chmod append", "open append"}
        PROVE  Above(At(t)') \subseteq dirs'
    <3>1. CASE t # s
      <4>1. pc'[t] = pc[t] /\ At(t)' = At(t)
        BY <1>2, <3>1, OthersAreSame DEF Same, At
      <4> QED
        BY <2>1, <2>5, <4>1 DEF TreeInv
    <3>2. CASE t = s
      <4>1. CASE Touched(s)
        <5>1. At(s)' = At(s)
          BY <4>1 DEF Touched, work, At
        <5> QED
          BY <1>2, <3>2, <4>1, <5>1, ParentThere
      <4>2. CASE Moved(s) /\ pc[s] = "chmod append"
        <5>1. At(s)' = At(s)
          BY <4>2 DEF Moved, work, At
        <5> QED
          BY <2>1, <3>2, <4>2, <5>1 DEF TreeInv
      <4> QED
        BY <1>2, <2>5, <3>2, <4>1, <4>2, AppendsBegin
    <3> QED
      BY <3>1, <3>2
  <2>6. /\ \A l : Above(l)' = Above(l)
        /\ \A t \in Slots : Above(At(t))' = Above(At(t)')
    BY DEF Above, At, Ancestors
  <2> QED
    BY <2>2, <2>3, <2>4, <2>5, <2>6 DEF TreeInv
<1> QED
  BY <1>1, <1>2, NextCases

(* At first what is there is in its directory.                             *)
LEMMA TreeInit ==
  ASSUME Init
  PROVE  TreeInv
<1>1. /\ pc = [s \in Slots |-> "idle"]
      /\ dirs = {Location(d, <<>>) : d \in Dirs}
                \cup {Location(d, Home) : d \in {"session", "workspace"}}
                \cup UNION {Above(l) : l \in Held}
      /\ \A l \in Locations : inode[l] # 0 => l \in Held
  BY DEF Init, Dirs, Above
<1>2. ASSUME NEW d \in Dirs
      PROVE  Ancestors(Location(d, <<>>)) \subseteq dirs
  <2>1. Len(<<>>) = 0 /\ SubSeq(<<>>, 1, 0) = <<>> /\ 0 .. 0 = {0}
    OBVIOUS
  <2> QED
    BY <1>1, <2>1 DEF Ancestors, Location
<1>3. ASSUME NEW d \in {"session", "workspace"}
      PROVE  Ancestors(Location(d, Home)) \subseteq dirs
  <2>1. /\ Len(Home) = 1 /\ SubSeq(Home, 1, 0) = <<>> /\ 0 .. 1 = {0, 1}
        /\ SubSeq(Home, 1, 1) = Home
    <3>1. Len(Home) = 1 /\ Home \in Path /\ 0 .. 1 = {0, 1}
      BY DirsArePaths
    <3>2. SubSeq(Home, 1, 0) = <<>>
      BY <3>1, EmptySeq DEF Path
    <3>3. SubSeq(Home, 1, 1) = Home
      BY <3>1, SubSeqProperties, SeqEqual DEF Path
    <3> QED
      BY <3>1, <3>2, <3>3
  <2>2. d \in Dirs
    BY DEF Dirs
  <2> QED
    BY <1>1, <2>1, <2>2 DEF Ancestors, Location
<1>4. ASSUME NEW l \in Held, NEW d \in Above(l)
      PROVE  Ancestors(d) \subseteq dirs
  <2>1. Front(l.rest) \in Path
    BY DiskAssumption, FrontIs DEF Path
  <2> QED
    BY <1>1, <1>4, <2>1, AncestorsClosed DEF Above
<1> QED
  BY <1>1, <1>2, <1>3, <1>4 DEF TreeInv

(* Nobody who does not search has files to report.                         *)
LEMMA NoneSteady ==
  ASSUME SteadyInv, NEW s \in Slots, job[s].op \notin Searching
  PROVE  steady[s] = {}
BY DEF SteadyInv, SteadyOf, Stands

(* What a step leaves of the files that a search is to report, and of what *)
(* disturbs it: who begins to write one, or removes one, is noted.         *)
LEMMA SteadyAfter ==
  ASSUME ShapeInv, StageInv, SteadyInv, NEW s \in Slots, Kinds(s),
         NEW t \in Slots, t # s \/ (Works(s) /\ job[s].op \in Searching)
  PROVE  /\ steady'[t] \subseteq steady[t]
         /\ t \in vanished => t \in vanished'
         /\ \A p \in steady'[t], q \in Places :
              RunRemoves(s, q) => Place(t, p) # Where[job[s].roots][q]
         /\ \A op \in Writing, request \in Asked, roots \in Mounts,
              limit \in Nat, p \in steady'[t] :
                Begin(s, op, request, roots, limit) /\ job[t].op = "grep" =>
                  Place(t, p) # Where[roots][Resolve(request)]
<1>0. DOMAIN steady = Slots /\ DOMAIN job = Slots
  BY DEF ShapeInv
<1>1. CASE Begins(s)
  <2>0. t # s
    BY <1>1, Busy DEF Begins, Begin, Works
  <2>1. vanished' = vanished /\ \A q \in Places : ~RunRemoves(s, q)
    BY <1>1 DEF Begins, Begin, RunRemoves
  <2>2. ASSUME NEW op \in Ops, NEW request \in Asked, NEW roots \in Mounts,
               NEW limit \in Nat, Begin(s, op, request, roots, limit)
        PROVE  /\ steady'[t] \subseteq steady[t]
               /\ op \in Writing /\ job[t].op = "grep" =>
                    \A p \in steady'[t] :
                      Place(t, p) # Where[roots][Resolve(request)]
    <3>1. CASE op \in Writing
      <4>1. steady' = [u \in Slots |->
              IF job[u].op = "grep"
              THEN {p \in steady[u] : Where[job[u].roots][p]
                                        # Where[roots][Resolve(request)]}
              ELSE steady[u]]
        BY <2>2, <3>1 DEF Begin, WriterBegins
      <4> QED
        BY <4>1 DEF Place
    <3>2. CASE op \notin Writing
      BY <1>0, <2>0, <2>2, <3>2 DEF Begin
    <3> QED
      BY <3>1, <3>2
  <2>3. Writing \subseteq Ops
    BY DEF Ops
  <2> QED
    BY <1>1, <2>1, <2>2, <2>3 DEF Begins
<1>2. CASE Over(s) /\ pc[s] # "idle"
  <2>0. t # s
    <3>1. job'[s] = NoJob /\ NoJob.op = "none" /\ "none" \notin Searching
      BY <1>0, <1>2 DEF Over, NoJob, Searching
    <3> QED
      BY <3>1 DEF Works
  <2>1. steady'[t] = steady[t] /\ (t \in vanished => t \in vanished')
    BY <1>0, <1>2, <2>0 DEF Over
  <2>2. \A q \in Places : ~RunRemoves(s, q)
    <3>1. ASSUME NEW q \in Places, RunRemoves(s, q)
          PROVE  FALSE
      <4>1. pc'[s] = pc[s]
        BY <3>1 DEF RunRemoves
      <4>2. DOMAIN pc = Slots
        BY DEF ShapeInv
      <4> QED
        BY <1>2, <4>1, <4>2 DEF Over, Go
    <3> QED
      BY <3>1
  <2>3. \A op, request, roots, limit : ~Begin(s, op, request, roots, limit)
    BY <1>2 DEF Begin
  <2> QED
    BY <2>1, <2>2, <2>3
<1>3. ASSUME NEW p \in Places, RunRemoves(s, p)
      PROVE  /\ steady'[t] \subseteq steady[t]
             /\ t \in vanished => t \in vanished'
             /\ \A q \in steady'[t] : Place(t, q) # Where[job[s].roots][p]
             /\ pc[s] # "idle"
  BY <1>3 DEF RunRemoves, Place
<1>4. CASE Works(s)
  <2>1. steady' = steady /\ vanished' = vanished /\ pc[s] # "idle"
    BY <1>4 DEF Works, ghosts
  <2>2. \A op, request, roots, limit : ~Begin(s, op, request, roots, limit)
    BY <2>1 DEF Begin
  <2> QED
    BY <1>3, <2>1, <2>2
<1>5. CASE Removes(s)
  <2>1. \A op, request, roots, limit : ~Begin(s, op, request, roots, limit)
    BY <1>5 DEF Begin, Removes, RunRemoves
  <2> QED
    BY <1>3, <1>5, <2>1 DEF Removes
<1> QED
  BY <1>1, <1>2, <1>4, <1>5, Sorts DEF Cancel, BreaksOff, Dropped, Fails, Ends,
     Written

(* What is to be reported stays where it is, and grep's files unwritten.   *)
LEMMA StandsAfter ==
  ASSUME ShapeInv, StageInv, InodeInv, SteadyInv, StageInv', NEW s \in Slots,
         Kinds(s), NEW t \in Slots,
         t # s \/ (Works(s) /\ job[s].op \in Searching), NEW p \in steady'[t]
  PROVE  /\ p \in steady[t] /\ job'[t] = job[t] /\ Stands(t, p)'
         /\ inode'[Place(t, p)] # 0
         /\ job[t].op = "grep" =>
              /\ inode'[Place(t, p)] = inode[Place(t, p)]
              /\ data'[inode[Place(t, p)]] = data[inode[Place(t, p)]]
<1> DEFINE l == Place(t, p)
<1>1. p \in steady[t] /\ Stands(t, p) /\ p \in Places
  BY SteadyAfter DEF SteadyInv, SteadyOf, ShapeInv
<1>2. job'[t] = job[t] /\ Place(t, p)' = l
  BY OthersAreSame DEF Same, Works, Place
<1>3. l \in Locations
  BY <1>1, Busy, PlacesOK DEF Stands, Ops, Place, Shown
<1>4. \A q \in Places : RunRemoves(s, q) => l # Where[job[s].roots][q]
  BY SteadyAfter
<1>5. inode[l] # 0 /\ inode'[l] # 0
  <2>1. inode[l] # 0
    BY <1>1 DEF Stands
  <2> HIDE DEF l
  <2> QED
    BY <1>3, <1>4, <2>1, Unremoved
<1>6. ASSUME job[t].op = "grep"
      PROVE  /\ inode'[l] = inode[l] /\ data'[inode[l]] = data[inode[l]]
             /\ Writers(l)' = {}
  <2>1. Writers(l) = {}
    BY <1>1, <1>6 DEF Stands
  <2>2. l # At(s) \/ job[s].op \notin Writing
    <3> HIDE DEF l
    <3> QED
      BY <2>1 DEF Writers, Users
  <2>3. inode'[l] = inode[l] /\ data'[inode[l]] = data[inode[l]]
    <3> HIDE DEF l
    <3> QED
      BY <1>3, <1>4, <1>5, <2>2, Elsewhere
  <2>4. Writers(l)' = {}
    <3>1. \A m : m = l => Writers(m)' = {}
      <4> SUFFICES ASSUME NEW m, m = l
                   PROVE  Writers(m)' = {}
        OBVIOUS
      <4>1. CASE Begins(s)
        <5>1. PICK op \in Ops, request \in Asked, roots \in Mounts,
                  limit \in Nat :
                Begin(s, op, request, roots, limit)
          BY <4>1 DEF Begins
        <5>2. ~(op \in Writing /\ m = Where[roots][Resolve(request)])
          BY <1>6, <5>1, SteadyAfter
        <5>3. Writers(m)' = Writers(m)
          BY <5>1, <5>2, UsersBegin
        <5> QED
          BY <2>1, <5>3
      <4>2. CASE Over(s) \/ job' = job
        <5>1. Writers(m)' \subseteq Writers(m)
          BY <4>2, UsersAfter
        <5> QED
          BY <2>1, <5>1
      <4> QED
        BY <4>1, <4>2, Sorts DEF Cancel, BreaksOff, Dropped, Fails, Ends,
           Written, Removes, RunRemoves, Works
    <3>2. Place(t, p)' = l
      BY <1>2
    <3> QED
      BY <3>1, <3>2 DEF Writers, Users
  <2> QED
    BY <2>3, <2>4
<1>7. Stands(t, p)'
  <2>1. /\ job'[t].op \in Searching /\ InScope(job'[t].op, job'[t].at, p)
        /\ Plain(p) /\ inode'[l] # 0
        /\ job'[t].op = "grep" =>
             Writers(l)' = {} /\ Holds(data'[inode'[l]], Text)
    BY <1>1, <1>2, <1>5, <1>6 DEF Stands
  <2>2. Writers(Place(t, p))' = Writers(l)'
    BY <1>2 DEF Writers, Users
  <2> QED
    BY <1>2, <2>1, <2>2 DEF Stands, InScope, Holds, Plain
<1> QED
  BY <1>1, <1>2, <1>5, <1>6, <1>7

(* Whatever others do, a search goes on with it.                           *)
LEMMA SteadyOthers ==
  ASSUME ShapeInv, StageInv, InodeInv, SteadyInv, StageInv', NEW s \in Slots,
         Kinds(s), NEW t \in Slots \ {s}
  PROVE  SteadyOf(t)'
<1>1. Same(t) /\ Truncated(t)' = Truncated(t) /\ At(t)' = At(t)
  BY OthersAreSame DEF Same, Truncated, At
<1>2. SteadyOf(t)
  BY DEF SteadyInv
<1>3. ASSUME NEW p \in steady'[t]
      PROVE  Stands(t, p)' /\ Pursued(t, p)'
  <2>1. /\ p \in steady[t] /\ Stands(t, p)' /\ Pursued(t, p)
        /\ job[t].op = "grep" =>
             /\ inode'[Place(t, p)] = inode[Place(t, p)]
             /\ data'[inode[Place(t, p)]] = data[inode[Place(t, p)]]
    BY <1>2, <1>3, StandsAfter DEF SteadyOf
  <2>2. FoundPath(t, p)' = FoundPath(t, p)
    BY <1>1 DEF Same, FoundPath
  <2>3. t \in vanished => t \in vanished'
    BY SteadyAfter
  <2>4. job[t].op = "grep" /\ pc[t] = "read" /\ file[t] = p => ReadsOf(t)'
    <3> HAVE job[t].op = "grep" /\ pc[t] = "read" /\ file[t] = p
    <3>1. At(t) = Place(t, p)
      BY DEF At, Place
    <3>2. ReadsOf(t)
      BY <2>1 DEF Pursued
    <3> QED
      BY <1>1, <2>1, <3>1, <3>2 DEF ReadsOf, Same
  <2>5. Pursued(t, p)'
    BY <1>1, <2>1, <2>2, <2>3, <2>4 DEF Pursued, Same
  <2> QED
    BY <2>1, <2>5
<1> QED
  BY <1>1, <1>2, <1>3 DEF SteadyOf, Same

(* A search that begins is to report what is there.                        *)
LEMMA SteadyBegins ==
  ASSUME ShapeInv, StageInv, SteadyInv, StageInv', NEW s \in Slots, Begins(s)
  PROVE  SteadyOf(s)'
<1>1. PICK op \in Ops, request \in Asked, roots \in Mounts, limit \in Nat :
        Begin(s, op, request, roots, limit)
  BY DEF Begins
<1> DEFINE at == Resolve(request)
<1>2. /\ pc[s] = "idle" /\ pc'[s] = FirstStep(op)
      /\ job'[s].op = op /\ job'[s].at = at /\ job'[s].roots = roots
      /\ UNCHANGED <<inode, data>>
  BY <1>1 DEF Begin, ShapeInv
<1>3. steady[s] = {} /\ job[s].op \notin Ops
  <2>1. job[s].op \notin Ops
    BY <1>2, Busy
  <2> QED
    BY <2>1, NoneSteady DEF Ops
<1>4. CASE op \notin Searching
  <2>1. steady'[s] = {}
    <3>1. CASE op \in Writing
      BY <1>1, <1>3, <3>1 DEF Begin, WriterBegins, Ops, Searching
    <3>2. CASE op \notin Writing
      BY <1>1, <1>4, <3>2 DEF Begin, ShapeInv
    <3> QED
      BY <3>1, <3>2
  <2>2. job'[s].op # "grep"
    BY <1>2, <1>4 DEF Searching
  <2> QED
    BY <2>1, <2>2 DEF SteadyOf
<1>5. CASE op \in Searching
  <2>1. op \notin Writing /\ pc'[s] \in {"list", "walk"}
    BY <1>2, <1>5 DEF Searching, Writing, Overwriting, FirstStep
  <2>2. steady'[s] = Present(op, at, roots)
    BY <1>1, <1>5, <2>1 DEF Begin, ShapeInv
  <2>3. ASSUME NEW p \in steady'[s]
        PROVE  Stands(s, p)'
    <3> DEFINE l == Where[roots][p]
    <3>1. /\ InScope(op, at, p) /\ Plain(p) /\ inode[l] # 0
          /\ op = "grep" => Writers(l) = {} /\ Holds(Content(l), Text)
      BY <1>5, <2>2, <2>3, ScopeIs DEF Present, Exists, AskedPaths, Asked
    <3>2. Place(s, p)' = l
      BY <1>2 DEF Place
    <3>3. op = "grep" => Writers(l)' = {}
      <4>1. \A m : Writers(m)' = Writers(m)
        BY <1>1, <2>1, UsersBegin
      <4> QED
        BY <3>1, <4>1 DEF Writers, Users
    <3>4. Writers(Place(s, p))' = Writers(l)'
      BY <3>2 DEF Writers, Users
    <3>5. Content(l) = data'[inode'[l]] /\ inode'[l] # 0
      BY <1>2, <3>1 DEF Content
    <3> QED
      BY <1>2, <1>5, <3>1, <3>2, <3>3, <3>4, <3>5 DEF Stands, InScope, Holds
  <2>4. ASSUME NEW p
        PROVE  Pursued(s, p)'
    BY <2>1 DEF Pursued
  <2> QED
    BY <2>1, <2>3, <2>4 DEF SteadyOf
<1> QED
  BY <1>4, <1>5

(* What is to be reported is in find's output, under its name.             *)
LEMMA StandsSeen ==
  ASSUME ShapeInv, StageInv, NEW s \in Slots, NEW p \in Places, Stands(s, p)
  PROVE  p \in Seen(s)
<1>1. job[s].op \in Searching /\ job[s].at \in AskedPaths
  BY Busy DEF Stands, Ops
<1>2. p \in Scope[job[s].op][job[s].at]
  BY <1>1, ScopeIs DEF Stands
<1> QED
  BY <1>2 DEF Seen, Stands, Exists, Place, Plain

(* The directory of what is to be reported is there.                       *)
LEMMA SearchedThere ==
  ASSUME ShapeInv, StageInv, TreeInv, NEW s \in Slots, NEW p \in Places,
         Stands(s, p)
  PROVE  IsThere(s)
<1>1. /\ job[s].roots \in Mounts /\ job[s].roots \in Roots
      /\ job[s].at \in AskedPaths /\ job[s].at \in Path
      /\ Within(Skills, job[s].at) \/ Within(Home, job[s].at)
      /\ p \in Path /\ p \in Shown
  BY Busy, PlacesOK DEF Stands, Ops, Shown
<1>2. /\ Place(s, p) = Mounted(job[s].roots, p) /\ Place(s, p) \in Locations
      /\ Where[job[s].roots][job[s].at] = Mounted(job[s].roots, job[s].at)
  BY <1>1, PlacesOK DEF Place, Shown
<1>3. Within(job[s].at, p)
  BY DEF Stands, InScope
<1>4. Above(Place(s, p)) \subseteq dirs
  BY <1>2 DEF Stands, TreeInv
<1>5. CASE job[s].at = Home
  <2>1. ~Within(Skills, Home) /\ ~Within(Project, Home) /\ Within(Home, Home)
        /\ Below(Home, Home) = <<>>
    <3>0. Home \in Path /\ Len(Home) = 1
      BY DirsArePaths
    <3>1. ~Within(Skills, Home) /\ ~Within(Project, Home)
      BY <3>0, PathFacts
    <3>2. Within(Home, Home)
      BY <3>0, WithinPointwise
    <3>3. Below(Home, Home) \in Path /\ Len(Below(Home, Home)) = 0
      BY <3>0, <3>2, WithinBelow
    <3> QED
      BY <3>1, <3>2, <3>3 DEF Path
  <2>2. Mounted(job[s].roots, Home) = HostPath(job[s].roots, Home)
    BY <1>1, DirsArePaths, HostPathIsMounted
  <2>3. job[s].roots.host \in {"session", "workspace"} /\ "user" \in Dirs
    BY <1>1 DEF Roots, Dirs
  <2>4. Mounted(job[s].roots, Home) \in dirs
    BY <2>1, <2>2, <2>3 DEF HostPath, TreeInv
  <2> QED
    BY <1>2, <1>5, <2>4 DEF IsThere
<1>6. CASE job[s].at # Home /\ p # job[s].at
  BY <1>1, <1>2, <1>3, <1>4, <1>6, SearchedDir DEF IsThere
<1>7. CASE p = job[s].at
  BY <1>7 DEF IsThere, Stands, Place
<1> QED
  BY <1>5, <1>6, <1>7

(* Among numbers there is a least one.                                     *)
LEMMA LeastNumber ==
  ASSUME NEW S, S \subseteq Nat, S # {}
  PROVE  \E i \in S : \A j \in S : ~(j < i)
<1> DEFINE R == OpToRel(<, Nat)
<1>1. IsWellFoundedOn(R, Nat)
  BY NatLessThanWellFounded, Zenon
<1>2. \A i, j \in Nat : j < i => <<j, i>> \in R
  BY DEF OpToRel
<1> HIDE DEF R
<1>3. PICK i \in S : \A j \in S : ~(<<j, i>> \in R)
  BY <1>1, WFMin
<1> QED
  BY <1>2, <1>3

(* A line with the text that is the first is among the first few.          *)
LEMMA FirstMatch ==
  ASSUME ShapeInv, FoundInv, NEW s \in Slots, job[s].op = "grep",
         ~Truncated(s), Holds(buffer[s], Text)
  PROVE  \E e \in Matches(s) : e[1] = file[s]
<1> DEFINE lines == {i \in DOMAIN buffer[s] : buffer[s][i] = Text}
           n == Cardinality(found[s])
<1>1. job[s].limit \in Nat /\ n \in Nat /\ n < job[s].limit
  <2>1. job[s] \in Jobs
    BY DEF ShapeInv, NoJob
  <2>2. n \in Nat
    BY FS_CardinalityType DEF FoundInv, FoundOf
  <2>3. job[s].limit \in Nat /\ ~(n >= job[s].limit)
    BY <2>1 DEF Jobs, Truncated, Limited
  <2> QED
    BY <2>2, <2>3
<1>2. lines \subseteq Nat /\ lines # {}
  BY DEF ShapeInv, Holds
<1>3. PICK i \in lines : \A j \in lines : ~(j < i)
  <2> HIDE DEF lines
  <2> QED
    BY <1>2, LeastNumber
<1>4. {j \in lines : j < i} = {}
  BY <1>3
<1>5. Cardinality({j \in lines : j < i}) < job[s].limit - n
  BY <1>1, <1>4, FS_EmptySet
<1>6. <<file[s], i>> \in Matches(s)
  BY <1>3, <1>5 DEF Matches
<1> QED
  BY <1>6

(* A search looks at every file that it has to.                            *)
LEMMA SearchMoves ==
  ASSUME ShapeInv, StageInv, FoundInv, TreeInv, NEW s \in Slots, Kinds(s),
         Works(s), job[s].op \in Searching, NEW p \in Places, Stands(s, p),
         Pursued(s, p), SteadyOf(s)
  PROVE  Pursued(s, p)'
<1>0. /\ DOMAIN pc = Slots /\ DOMAIN file = Slots /\ DOMAIN fd = Slots
      /\ DOMAIN buffer = Slots /\ DOMAIN todo = Slots
      /\ DOMAIN found = Slots
  BY DEF ShapeInv
<1>01. /\ job' = job /\ vanished' = vanished /\ pc[s] # "idle"
       /\ inode[Place(s, p)] # 0
  BY DEF Works, ghosts, Stands
<1>02. pc[s] \in {"list", "stat entries", "walk", "next file", "open read",
                  "read", "answer"}
       /\ (pc[s] \in {"next file", "open read", "read"} => job[s].op = "grep")
  BY OpAt DEF Searching, Reading, StageInv, StageOf, StepsOf
<1>03. /\ file'[s] = file[s] => At(s)' = At(s)
       /\ found'[s] = found[s] => /\ Truncated(s)' = Truncated(s)
                                  /\ FoundPath(s, p)' = FoundPath(s, p)
       /\ found[s] \subseteq found'[s] /\ FoundPath(s, p) => FoundPath(s, p)'
  BY <1>01 DEF At, Truncated, FoundPath
<1>1. CASE Moved(s)
  <2>1. UNCHANGED <<todo, found, file, fd, buffer>>
    BY <1>1 DEF Moved, work
  <2>2. CASE /\ pc[s] = "open read" /\ inode[At(s)] = 0
             /\ pc'[s] = "next file"
    <3>1. file[s] # p
      BY <1>01, <2>2 DEF At, Place
    <3> QED
      BY <1>01, <1>03, <2>1, <2>2, <3>1 DEF Pursued
  <2>3. CASE pc[s] = "stat entries" /\ todo[s] = {} /\ pc'[s] = "answer"
    BY <1>03, <2>1, <2>3 DEF Pursued
  <2>4. CASE s \in vanished /\ pc'[s] = "answer"
    BY <1>01, <2>4 DEF Pursued
  <2>5. ~(pc[s] \in {"list", "walk"} /\ ~IsThere(s))
    BY SearchedThere
  <2>6. ~AtEnd(s, "read") /\ ~AtEnd(s, "download")
    BY DEF AtEnd, Searching
  <2>7. \A step : Go(s, step) => pc'[s] = step
    BY <1>0 DEF Go
  <2>8. pc[s] # "stat" /\ pc[s] # "chmod append"
    BY <1>02
  <2> QED
    BY <1>1, <2>2, <2>3, <2>4, <2>5, <2>6, <2>7, <2>8 DEF Moved
<1>2. CASE OpenRead(s)
  <2>1. /\ pc[s] = "open read" /\ pc'[s] = "read" /\ todo'[s] = todo[s]
        /\ found'[s] = found[s] /\ file'[s] = file[s]
    BY <1>0, <1>2 DEF OpenRead, Go
  <2>2. ReadsOf(s)'
    BY <1>2, ReadsOn
  <2> QED
    BY <1>03, <2>1, <2>2 DEF Pursued
<1>3. CASE ReadBlock(s)
  <2>1. /\ pc[s] = "read" /\ pc'[s] = "read" /\ todo'[s] = todo[s]
        /\ found'[s] = found[s] /\ file'[s] = file[s]
    BY <1>3 DEF ReadBlock
  <2>2. ReadsOf(s) => ReadsOf(s)'
    BY <1>3, ReadsOn
  <2> QED
    BY <1>01, <1>03, <2>1, <2>2 DEF Pursued
<1>4. CASE GrepMatches(s)
  <2>1. /\ pc[s] = "read" /\ job[s].op = "grep" /\ pc'[s] = "next file"
        /\ todo'[s] = todo[s] /\ found'[s] = found[s] \cup Matches(s)
        /\ Len(buffer[s]) >= Len(data[fd[s]])
    BY <1>0, <1>4 DEF GrepMatches, AtEnd, Go
  <2>2. ~Truncated(s)
    BY <2>1 DEF SteadyOf
  <2>3. CASE file[s] = p
    <3>1. ReadsOf(s) /\ Holds(data[inode[Place(s, p)]], Text)
      BY <2>1, <2>3 DEF Pursued, Stands
    <3>2. fd[s] = inode[Place(s, p)]
      BY <2>3, <3>1 DEF ReadsOf, At, Place
    <3>3. buffer[s] \in Seq(Blocks) /\ data[fd[s]] \in Seq(Blocks)
      BY <2>1, Opened
    <3>4. Holds(buffer[s], Text)
      <4> DEFINE d == data[fd[s]]
      <4>1. PICK i \in DOMAIN d : d[i] = Text
        BY <3>1, <3>2 DEF Holds
      <4>2. /\ Len(buffer[s]) <= Len(d)
            /\ \A k \in 1 .. Len(buffer[s]) : buffer[s][k] = d[k]
        BY <3>1 DEF ReadsOf
      <4> HIDE DEF d
      <4>3. d \in Seq(Blocks) /\ Len(buffer[s]) >= Len(d)
        BY <2>1, <3>3 DEF d
      <4>4. i \in DOMAIN buffer[s] /\ buffer[s][i] = Text
        BY <3>3, <4>1, <4>2, <4>3
      <4> QED
        BY <4>4 DEF Holds
    <3>5. \E e \in Matches(s) : e[1] = p
      BY <2>1, <2>2, <2>3, <3>4, FirstMatch
    <3>6. FoundPath(s, p)'
      BY <2>1, <3>5 DEF FoundPath
    <3> QED
      BY <2>1, <3>6 DEF Pursued
  <2>4. CASE file[s] # p
    <3>1. p \in todo[s] \/ FoundPath(s, p)
      BY <2>1, <2>2, <2>4 DEF Pursued
    <3> QED
      BY <1>03, <2>1, <3>1 DEF Pursued
  <2> QED
    BY <2>3, <2>4
<1>5. CASE ReadDir(s)
  <2>1. pc'[s] = "stat entries" /\ todo'[s] = Seen(s)
    BY <1>0, <1>5 DEF ReadDir, Go
  <2>2. p \in Seen(s)
    BY StandsSeen
  <2> QED
    BY <2>1, <2>2 DEF Pursued
<1>6. CASE StatEntry(s)
  <2>1. pc[s] = "stat entries" /\ pc'[s] = pc[s]
    BY <1>6 DEF StatEntry
  <2>2. PICK q \in todo[s] :
          IF Exists(job[s].roots, q)
          THEN /\ found' = [found EXCEPT ![s] = @ \cup Paths({q})]
               /\ todo' = [todo EXCEPT ![s] = @ \ {q}]
          ELSE /\ todo' = [todo EXCEPT ![s] = Kept(s, q)]
               /\ UNCHANGED found
    BY <1>6 DEF StatEntry
  <2>3. found[s] \subseteq found'[s] /\ todo'[s] = todo[s] \ {q}
    BY <1>0, <2>2 DEF Kept
  <2>4. CASE q = p
    <3>1. <<p, 0>> \in found'[s] /\ <<p, 0>>[1] = p
      BY <1>0, <1>01, <2>2, <2>4 DEF Exists, Place, Paths
    <3>2. FoundPath(s, p)'
      BY <3>1 DEF FoundPath
    <3> QED
      BY <2>1, <3>2 DEF Pursued
  <2>5. CASE q # p
    BY <1>03, <2>1, <2>3, <2>5 DEF Pursued
  <2> QED
    BY <2>4, <2>5
<1>7. CASE Walk(s)
  <2>1. p \in Seen(s)
    BY StandsSeen
  <2>2. CASE job[s].op = "grep"
    <3>1. pc'[s] = "next file" /\ todo'[s] = Seen(s)
      BY <1>0, <1>7, <2>2 DEF Walk, Go
    <3> QED
      BY <2>1, <3>1 DEF Pursued
  <2>3. CASE job[s].op # "grep"
    <3>1. pc'[s] = "answer"
      BY <1>0, <1>7, <2>3 DEF Walk, Go
    <3>2. PICK places \in SUBSET Places :
            Reported(s, places) /\ found'[s] = Paths(places)
      BY <1>0, <1>7, <2>3 DEF Walk
    <3>3. CASE places = Seen(s)
      <4>1. <<p, 0>> \in found'[s] /\ <<p, 0>>[1] = p
        BY <2>1, <3>2, <3>3 DEF Paths
      <4>2. FoundPath(s, p)'
        BY <4>1 DEF FoundPath
      <4> QED
        BY <3>1, <4>2 DEF Pursued
    <3>4. CASE places # Seen(s)
      <4>1. job[s].op = "glob" /\ Cardinality(places) = job[s].limit
        BY <3>2, <3>4 DEF Reported
      <4>2. IsFiniteSet(places) /\ Cardinality(found'[s]) = job[s].limit
        BY <3>2, <4>1, FileAssumption, FS_Subset, PathsFinite
      <4>3. job[s].limit \in Nat
        BY <1>01, Busy DEF Jobs
      <4>4. Truncated(s)'
        BY <1>01, <4>1, <4>2, <4>3 DEF Truncated, Limited
      <4> QED
        BY <3>1, <4>4 DEF Pursued
    <3> QED
      BY <3>3, <3>4
  <2> QED
    BY <2>2, <2>3
<1>8. CASE NextFile(s)
  <2>1. pc[s] = "next file" /\ found'[s] = found[s]
    BY <1>8 DEF NextFile
  <2>2. CASE todo[s] = {} \/ Truncated(s)
    <3>1. pc'[s] = "answer"
      BY <1>0, <1>8, <2>2 DEF NextFile, Go
    <3> QED
      BY <1>03, <2>1, <2>2, <3>1 DEF Pursued
  <2>3. CASE ~(todo[s] = {} \/ Truncated(s))
    <3>1. PICK q \in todo[s] :
            /\ todo' = [todo EXCEPT ![s] = @ \ {q}]
            /\ file' = [file EXCEPT ![s] = q]
            /\ Go(s, "open read")
      BY <1>8, <2>3 DEF NextFile
    <3>2. /\ todo'[s] = todo[s] \ {q} /\ file'[s] = q
          /\ pc'[s] = "open read"
      BY <1>0, <3>1 DEF Go
    <3> QED
      BY <1>03, <2>1, <2>3, <3>2 DEF Pursued
  <2> QED
    BY <2>2, <2>3
<1>9. ~Begins(s) /\ ~Over(s)
  <2>1. Over(s) => job'[s] = NoJob
    BY DEF Over, ShapeInv
  <2>2. NoJob.op \notin Searching
    BY DEF NoJob, Searching
  <2>3. ~Over(s)
    BY <1>01, <2>1, <2>2
  <2>4. ~Begins(s)
    BY <1>01, BeginsIdle
  <2> QED
    BY <2>3, <2>4
<1>10. /\ ~ReplaceMatches(s) /\ ~OpenWrite(s) /\ ~WriteBlock(s)
       /\ ~Touched(s) /\ ~OpenAppend(s) /\ ~AppendBlock(s) /\ ~MadeDir(s)
       /\ \A q \in Places : ~RunRemoves(s, q)
  <2>1. ~ReplaceMatches(s)
    BY DEF ReplaceMatches, AtEnd, Searching
  <2>2. pc[s] \notin {"open write", "write", "touch", "open append", "append",
                     "make dir", "run"}
    BY <1>02
  <2> QED
    BY <2>1, <2>2 DEF OpenWrite, WriteBlock, Touched, OpenAppend, AppendBlock,
       MadeDir, RunRemoves
<1> QED
  BY <1>1, <1>2, <1>3, <1>4, <1>5, <1>6, <1>7, <1>8, <1>9, <1>10 DEF Kinds,
     Cancel, BreaksOff, Dropped, Fails, ReplaceFindsNothing, Finished, Written

(* Grep looks for matches in a file only while it has room for them.       *)
LEMMA RoomKept ==
  ASSUME ShapeInv, StageInv, NEW s \in Slots, Kinds(s), Works(s), SteadyOf(s),
         job[s].op = "grep", pc'[s] \in {"open read", "read"}
  PROVE  ~Truncated(s)'
<1>0. DOMAIN pc = Slots /\ DOMAIN found = Slots
  BY DEF ShapeInv
<1>1. job' = job /\ (found'[s] = found[s] => Truncated(s)' = Truncated(s))
  BY DEF Works, Truncated
<1>2. CASE pc[s] \in {"open read", "read"} /\ found' = found
  BY <1>1, <1>2 DEF SteadyOf
<1>3. CASE NextFile(s)
  BY <1>0, <1>1, <1>3 DEF NextFile, Go
<1>4. ~Begins(s) /\ ~Over(s)
  <2>1. Over(s) => job'[s] = NoJob
    BY DEF Over, ShapeInv
  <2>2. NoJob.op # "grep"
    BY DEF NoJob
  <2>3. ~Over(s)
    BY <1>1, <2>1, <2>2
  <2>4. ~Begins(s)
    BY BeginsIdle DEF Works
  <2> QED
    BY <2>3, <2>4
<1>5. pc[s] \in {"walk", "next file", "open read", "read", "answer"}
  BY DEF StageInv, StageOf, StepsOf
<1>6. CASE Moved(s)
  <2>1. found' = found /\ pc[s] \in {"open read", "read"}
    BY <1>0, <1>5, <1>6 DEF Moved, Go, work
  <2> QED
    BY <1>2, <2>1
<1>7. CASE OpenRead(s) \/ ReadBlock(s)
  BY <1>2, <1>7 DEF OpenRead, ReadBlock
<1>8. ~ReplaceMatches(s) /\ ~GrepMatches(s)
  BY <1>0 DEF ReplaceMatches, GrepMatches, Go
<1>9. ~ReadDir(s) /\ ~StatEntry(s) /\ ~Walk(s)
  BY <1>0, <1>5 DEF ReadDir, StatEntry, Walk, Go
<1>10. /\ ~OpenWrite(s) /\ ~WriteBlock(s) /\ ~Touched(s) /\ ~OpenAppend(s)
       /\ ~AppendBlock(s) /\ ~MadeDir(s)
       /\ \A q \in Places : ~RunRemoves(s, q)
  BY <1>5 DEF OpenWrite, WriteBlock, Touched, OpenAppend, AppendBlock,
     MadeDir, RunRemoves
<1> QED
  BY <1>3, <1>4, <1>6, <1>7, <1>8, <1>9, <1>10 DEF Kinds, Cancel, BreaksOff,
     Dropped, Fails, ReplaceFindsNothing, Finished, Written

(* Who does not search has nothing to report after a step, either.         *)
LEMMA NoSearch ==
  ASSUME ShapeInv, StageInv, SteadyInv, NEW s \in Slots, Kinds(s),
         Over(s) \/ Removes(s) \/ (Works(s) /\ job[s].op \notin Searching)
  PROVE  SteadyOf(s)'
<1>1. CASE Over(s)
  <2>1. job'[s] = NoJob /\ steady'[s] = {} /\ NoJob.op # "grep"
    BY <1>1 DEF Over, ShapeInv, NoJob
  <2> QED
    BY <2>1 DEF SteadyOf
<1>2. CASE Removes(s)
  <2>1. job[s].op = "exec" /\ job' = job
    BY <1>2, OpAt DEF Removes, RunRemoves
  <2>2. steady[s] = {}
    BY <2>1, NoneSteady DEF Searching
  <2>3. steady'[s] = {}
    <3>1. PICK p \in Places : RunRemoves(s, p)
      BY <1>2 DEF Removes
    <3>2. steady'[s] = {q \in steady[s] : Where[job[s].roots][q]
                                            # Where[job[s].roots][p]}
      BY <3>1 DEF RunRemoves
    <3> QED
      BY <2>2, <3>2
  <2> QED
    BY <2>1, <2>3 DEF SteadyOf
<1>3. CASE Works(s) /\ job[s].op \notin Searching
  <2>1. steady'[s] = {} /\ job' = job
    BY <1>3, NoneSteady DEF Works, ghosts
  <2>2. job[s].op # "grep"
    BY <1>3 DEF Searching
  <2> QED
    BY <2>1, <2>2 DEF SteadyOf
<1> QED
  BY <1>1, <1>2, <1>3

(* SteadyInv is inductive.                                                 *)
LEMMA SteadyNext ==
  ASSUME ShapeInv, StageInv, InodeInv, FoundInv, TreeInv, SteadyInv,
         StageInv', [Next]_vars
  PROVE  SteadyInv'
<1>1. CASE UNCHANGED vars
  <2>1. \A t \in Slots : At(t)' = At(t) /\ Truncated(t)' = Truncated(t)
    BY <1>1 DEF vars, work, At, Truncated
  <2>2. \A l : Writers(l)' = Writers(l)
    BY <1>1, <2>1 DEF vars, Writers, Users
  <2>3. ASSUME NEW t \in Slots, NEW p
        PROVE  /\ Place(t, p)' = Place(t, p)
               /\ FoundPath(t, p)' = FoundPath(t, p)
               /\ ReadsOf(t)' = ReadsOf(t)
    BY <1>1, <2>1 DEF vars, disk, work, Place, FoundPath, ReadsOf
  <2>4. \A t \in Slots : \A p : Writers(Place(t, p))' = Writers(Place(t, p))
    BY <2>2, <2>3 DEF Writers, Users
  <2>5. ASSUME NEW t \in Slots, NEW p
        PROVE  /\ Stands(t, p)' = Stands(t, p)
               /\ Pursued(t, p)' = Pursued(t, p)
    BY <1>1, <2>1, <2>3, <2>4 DEF vars, disk, work, ghosts, Stands, InScope,
       Holds, Pursued
  <2> QED
    BY <1>1, <2>1, <2>5 DEF vars, ghosts, SteadyInv, SteadyOf
<1>2. ASSUME NEW s \in Slots, Kinds(s)
      PROVE  SteadyInv'
  <2>1. SteadyOf(s)'
    <3>1. CASE Begins(s)
      BY <3>1, SteadyBegins
    <3>2. CASE Over(s) \/ Removes(s)
      BY <1>2, <3>2, NoSearch
    <3>3. CASE Works(s) /\ job[s].op \notin Searching
      BY <1>2, <3>3, NoSearch
    <3>4. CASE Works(s) /\ job[s].op \in Searching
      <4>1. SteadyOf(s) /\ job'[s] = job[s]
        BY <3>4 DEF SteadyInv, Works
      <4>2. ASSUME NEW p \in steady'[s]
            PROVE  Stands(s, p)' /\ Pursued(s, p)'
        <5>1. p \in steady[s] /\ p \in Places /\ Stands(s, p)'
          BY <1>2, <3>4, <4>2, StandsAfter DEF ShapeInv
        <5>2. Pursued(s, p)'
          BY <1>2, <3>4, <4>1, <5>1, SearchMoves DEF SteadyOf
        <5> QED
          BY <5>1, <5>2
      <4>3. job'[s].op = "grep" /\ pc'[s] \in {"open read", "read"} =>
              ~Truncated(s)'
        BY <1>2, <3>4, <4>1, RoomKept
      <4> QED
        BY <4>2, <4>3 DEF SteadyOf
    <3> QED
      BY <1>2, <3>1, <3>2, <3>3, <3>4, Sorts DEF Cancel, BreaksOff, Dropped,
         Fails, Ends, Written
  <2>2. ASSUME NEW t \in Slots \ {s}
        PROVE  SteadyOf(t)'
    BY <1>2, SteadyOthers
  <2> QED
    BY <2>1, <2>2 DEF SteadyInv
<1> QED
  BY <1>1, <1>2, NextCases

(* At first nobody searches.                                               *)
LEMMA SteadyInit ==
  ASSUME Init
  PROVE  SteadyInv
<1>1. /\ job = [s \in Slots |-> NoJob] /\ steady = [s \in Slots |-> {}]
      /\ NoJob.op # "grep"
  BY DEF Init, NoJob
<1> QED
  BY <1>1 DEF SteadyInv, SteadyOf

(* So a search reports what was there all along.                           *)
LEMMA SteadyFollows ==
  ASSUME SteadyInv
  PROVE  SteadyIsReported
BY DEF SteadyInv, SteadyOf, Pursued, FoundPath, SteadyIsReported

-----------------------------------------------------------------------------
(* Pages.                                                                  *)

(* What FlattenSeq chooses: a function that its recursion describes.       *)
Solved(F) == CHOOSE f :
  f = [i \in 1 .. Len(F) |-> IF i = 1 THEN F[i] ELSE f[i - 1] \o F[i]]

(* A function that solves the recursion has its value: there is no other,  *)
(* by induction, since of the places where two differ none is the first.   *)
LEMMA FlattenIs ==
  ASSUME NEW F, NEW n \in Nat \ {0}, Len(F) = n,
         NEW g, \A i \in 1 .. n :
                  g[i] = IF i = 1 THEN F[i] ELSE g[i - 1] \o F[i]
  PROVE  FlattenSeq(F) = g[n]
<1> DEFINE f == Solved(F)
<1>1. f = [i \in 1 .. n |-> IF i = 1 THEN F[i] ELSE f[i - 1] \o F[i]]
  <2> DEFINE G == [i \in 1 .. n |-> g[i]]
             next(i) == IF i = 1 THEN F[i] ELSE G[i - 1] \o F[i]
  <2>1. \A i \in 1 .. n : g[i] = next(i)
    <3>1. \A i \in 1 .. n : i # 1 => i - 1 \in 1 .. n
      OBVIOUS
    <3> QED
      BY <3>1
  <2> HIDE DEF next
  <2>2. G = [i \in 1 .. n |-> next(i)]
    BY <2>1
  <2>3. G = [i \in 1 .. n |-> IF i = 1 THEN F[i] ELSE G[i - 1] \o F[i]]
    BY <2>2 DEF next
  <2> HIDE DEF G
  <2> QED
    BY <2>3, Zenon DEF Solved
<1>2. FlattenSeq(F) = f[n]
  <2>1. Len(F) # 0
    OBVIOUS
  <2> QED
    BY <2>1, Zenon DEF FlattenSeq, Solved
<1> HIDE DEF f
<1>3. \A i \in 1 .. n : f[i] = g[i]
  <2> DEFINE S == {i \in 1 .. n : f[i] # g[i]}
  <2>1. SUFFICES ASSUME S # {} PROVE FALSE
    OBVIOUS
  <2>2. PICK i \in S : \A j \in S : ~(j < i)
    <3>1. S \subseteq Nat
      OBVIOUS
    <3> QED
      BY <2>1, <3>1, LeastNumber
  <2>3. /\ i \in 1 .. n /\ f[i] # g[i]
        /\ \A j \in 1 .. n : j < i => f[j] = g[j]
    BY <2>2
  <2> HIDE DEF S
  <2>4. i # 1 => i - 1 \in 1 .. n /\ i - 1 < i
    BY <2>3
  <2>5. /\ f[i] = IF i = 1 THEN F[i] ELSE f[i - 1] \o F[i]
        /\ g[i] = IF i = 1 THEN F[i] ELSE g[i - 1] \o F[i]
    BY <1>1, <2>3
  <2> QED
    BY <2>3, <2>4, <2>5
<1> QED
  BY <1>2, <1>3

(* The numbers that are given are in use, within the file.                 *)
LEMMA SliceIs ==
  ASSUME NEW S, NEW lines \in Seq(S), NEW first \in Nat, NEW end \in Nat
  PROVE  \A from, to \in Nat :
           /\ from = IF first < Len(lines) THEN first ELSE 0
           /\ to = IF end < Len(lines) THEN end ELSE Len(lines)
           /\ from <= to
           => Slice(lines, first, end) = SubSeq(lines, from + 1, to)
<1> SUFFICES ASSUME NEW from \in Nat, NEW to \in Nat,
                    from = IF first < Len(lines) THEN first ELSE 0,
                    to = IF end < Len(lines) THEN end ELSE Len(lines),
                    from <= to
             PROVE  Slice(lines, first, end) = SubSeq(lines, from + 1, to)
  OBVIOUS
<1>1. LineNumber(first, lines, 0) = from
  BY DiskAssumption DEF LineNumber
<1>2. LineNumber(end, lines, Len(lines)) = to
  BY DiskAssumption DEF LineNumber
<1>3. ~(LineNumber(first, lines, 0) > LineNumber(end, lines, Len(lines)))
  BY <1>1, <1>2
<1>4. Slice(lines, first, end) =
        SubSeq(lines, LineNumber(first, lines, 0) + 1,
                      LineNumber(end, lines, Len(lines)))
  BY <1>3, Zenon DEF Slice
<1> QED
  BY <1>1, <1>2, <1>4
(* Two parts that meet are one.                                            *)
LEMMA SubSeqJoin ==
  ASSUME NEW S, NEW s \in Seq(S), NEW m \in 0 .. Len(s), NEW k \in m .. Len(s)
  PROVE  SubSeq(s, 1, m) \o SubSeq(s, m + 1, k) = SubSeq(s, 1, k)
<1> DEFINE a == SubSeq(s, 1, m)
           b == SubSeq(s, m + 1, k)
           c == SubSeq(s, 1, k)
<1>1. /\ a \in Seq(S) /\ Len(a) = m /\ \A i \in 1 .. m : a[i] = s[i]
  OBVIOUS
<1>2. /\ b \in Seq(S) /\ Len(b) = k - m
      /\ \A i \in 1 .. k - m : b[i] = s[m + i]
  OBVIOUS
<1>3. /\ c \in Seq(S) /\ Len(c) = k /\ \A i \in 1 .. k : c[i] = s[i]
  OBVIOUS
<1> HIDE DEF a, b, c
<1>4. /\ a \o b \in Seq(S) /\ Len(a \o b) = k
      /\ \A i \in 1 .. k : (a \o b)[i] = s[i]
  <2>1. /\ a \o b \in Seq(S) /\ Len(a \o b) = Len(a) + Len(b)
        /\ \A i \in 1 .. Len(a) + Len(b) :
             (a \o b)[i] = IF i <= Len(a) THEN a[i] ELSE b[i - Len(a)]
    BY <1>1, <1>2, ConcatProperties
  <2>2. Len(a) + Len(b) = k
    BY <1>1, <1>2
  <2>3. ASSUME NEW i \in 1 .. k
        PROVE  (a \o b)[i] = s[i]
    <3>1. CASE i <= m
      BY <1>1, <2>1, <2>2, <3>1
    <3>2. CASE ~(i <= m)
      <4>1. i - m \in 1 .. k - m /\ m + (i - m) = i
        BY <3>2
      <4>2. (a \o b)[i] = b[i - m]
        BY <1>1, <2>1, <2>2, <3>2
      <4> QED
        BY <1>2, <4>1, <4>2
    <3> QED
      BY <3>1, <3>2
  <2> QED
    BY <2>1, <2>2, <2>3
<1>5. a \o b = c
  BY <1>3, <1>4, SeqEqual
<1> QED
  BY <1>5 DEF a, b, c

(* Pages of any size, each from where the one before ended, are the file.  *)
LEMMA PagesJoin ==
  ASSUME NEW S, NEW lines \in Seq(S), NEW size \in Nat \ {0}
  PROVE  FlattenSeq(
           [k \in 1 .. (Len(lines) + size - 1) \div size |->
              Slice(lines, (k - 1) * size, (k - 1 + 1) * size)]) = lines
<1> DEFINE l == Len(lines)
           n == (l + size - 1) \div size
           F == [k \in 1 .. n |->
                   Slice(lines, (k - 1) * size, (k - 1 + 1) * size)]
           end(k) == IF k * size < l THEN k * size ELSE l
           g == [k \in 1 .. n |-> SubSeq(lines, 1, end(k))]
<1>1. /\ l \in Nat /\ n \in Nat /\ l <= n * size
      /\ \A k \in 1 .. n :
           /\ (k - 1) * size < l /\ (k - 1) * size <= k * size
           /\ (k - 1) * size \in Nat /\ k * size \in Nat /\ k - 1 + 1 = k
           /\ (k = 1 => (k - 1) * size = 0)
      /\ l = 0 => n = 0
  <2>1. l \in Nat
    OBVIOUS
  <2> HIDE DEF l
  <2>2. n = (l + size - 1) \div size
    OBVIOUS
  <2> HIDE DEF n
  <2>3. /\ n \in Nat /\ l <= n * size
        /\ \A k \in 1 .. n :
             /\ (k - 1) * size < l /\ k * size = (k - 1) * size + size
             /\ (k - 1) * size \in Nat /\ k * size \in Nat
             /\ (k = 1 => (k - 1) * size = 0)
        /\ l = 0 => n = 0
    BY ONLY <2>1, <2>2, size \in Nat \ {0}
  <2>4. \A k \in 1 .. n : (k - 1) * size <= k * size
    BY <2>3
  <2>5. \A k \in 1 .. n : k - 1 + 1 = k
    BY <2>3
  <2> QED
    BY <2>1, <2>3, <2>4, <2>5
<1>2. n = 0 => l = 0
  BY <1>1
<1>3. Len(F) = n
  BY <1>1
<1>4. CASE n = 0
  <2>1. F = <<>> /\ lines = <<>>
    BY <1>1, <1>2, <1>4
  <2> QED
    BY <2>1, Zenon DEF FlattenSeq
<1>5. CASE n # 0
  <2>1. ASSUME NEW k \in 1 .. n
        PROVE  F[k] = SubSeq(lines, (k - 1) * size + 1, end(k))
    <3> DEFINE a == (k - 1) * size
               b == k * size
    <3>1. /\ a \in Nat /\ b \in Nat /\ a < Len(lines) /\ a <= b
          /\ F[k] = Slice(lines, a, b) /\ Len(lines) \in Nat
      BY <1>1
    <3> HIDE DEF a, b, F
    <3>2. PICK to \in Nat : to = IF b < Len(lines) THEN b ELSE Len(lines)
      BY <3>1
    <3>3. a <= to /\ a = IF a < Len(lines) THEN a ELSE 0
      BY <3>1, <3>2
    <3>4. \A c, d \in Nat :
            /\ c = IF a < Len(lines) THEN a ELSE 0
            /\ d = IF b < Len(lines) THEN b ELSE Len(lines)
            /\ c <= d
            => Slice(lines, a, b) = SubSeq(lines, c + 1, d)
      BY <3>1, SliceIs
    <3>5. Slice(lines, a, b) = SubSeq(lines, a + 1, to)
      BY <3>1, <3>2, <3>3, <3>4
    <3> QED
      BY <3>1, <3>2, <3>5 DEF a, b
  <2>2. \A k \in 1 .. n : end(k) \in (k - 1) * size .. l
    BY <1>1
  <2>3. \A k \in 1 .. n : k # 1 =>
          k - 1 \in 1 .. n /\ end(k - 1) = (k - 1) * size
    BY <1>1
  <2>4. end(n) = l
    BY <1>1
  <2> HIDE DEF end, n, F
  <2>5. \A k \in 1 .. n : g[k] = IF k = 1 THEN F[k] ELSE g[k - 1] \o F[k]
    <3> SUFFICES ASSUME NEW k \in 1 .. n
                 PROVE  g[k] = IF k = 1 THEN F[k] ELSE g[k - 1] \o F[k]
      OBVIOUS
    <3>1. CASE k = 1
      <4>1. (k - 1) * size + 1 = 1
        BY <1>1, <3>1
      <4> QED
        BY <2>1, <3>1, <4>1
    <3>2. CASE k # 1
      <4>1. /\ g[k - 1] = SubSeq(lines, 1, (k - 1) * size)
            /\ g[k] = SubSeq(lines, 1, end(k))
        BY <2>3, <3>2
      <4>2. (k - 1) * size \in 0 .. l /\ end(k) \in (k - 1) * size .. l
        BY <1>1, <2>2
      <4>3. SubSeq(lines, 1, (k - 1) * size)
              \o SubSeq(lines, (k - 1) * size + 1, end(k))
              = SubSeq(lines, 1, end(k))
        BY <4>2, SubSeqJoin
      <4> QED
        BY <2>1, <3>2, <4>1, <4>3
    <3> QED
      BY <3>1, <3>2
  <2>6. FlattenSeq(F) = g[n]
    <3> HIDE DEF g
    <3>1. n \in Nat \ {0} /\ Len(F) = n
      BY <1>1, <1>3, <1>5
    <3> QED
      BY <2>5, <3>1, FlattenIs
  <2>7. g[n] = SubSeq(lines, 1, l)
    BY <1>1, <1>5, <2>4
  <2>8. SubSeq(lines, 1, l) = lines
    OBVIOUS
  <2> QED
    BY <2>6, <2>7, <2>8 DEF F, n
<1> QED
  BY <1>4, <1>5

(* So they do for what a read answers; and a page that begins behind the   *)
(* last line is the whole file again.                                      *)
LEMMA PagesFollow ==
  ASSUME ShapeInv
  PROVE  PagesJoinUp
<1> SUFFICES ASSUME NEW s \in Slots, NEW size \in 1 .. Len(buffer[s]) + 1
             PROVE  /\ FlattenSeq(
                         [k \in 1 .. (Len(buffer[s]) + size - 1) \div size |->
                            Slice(buffer[s], (k - 1) * size,
                                             (k - 1 + 1) * size)]) = buffer[s]
                    /\ Slice(buffer[s], Len(buffer[s]), Len(buffer[s]) + size)
                         = buffer[s]
  BY DEF PagesJoinUp
<1>1. /\ buffer[s] \in Seq(Blocks) /\ size \in Nat \ {0}
      /\ Len(buffer[s]) \in Nat /\ Len(buffer[s]) + size \in Nat
      /\ ~(Len(buffer[s]) + size < Len(buffer[s]))
  BY DEF ShapeInv
<1>2. Slice(buffer[s], Len(buffer[s]), Len(buffer[s]) + size)
        = SubSeq(buffer[s], 1, Len(buffer[s]))
  <2> DEFINE lines == buffer[s]
             first == Len(lines)
             end == Len(lines) + size
  <2>1. /\ lines \in Seq(Blocks) /\ first \in Nat /\ end \in Nat
        /\ ~(first < Len(lines)) /\ ~(end < Len(lines))
    BY <1>1
  <2> HIDE DEF lines, first, end
  <2>2. Slice(lines, first, end) = SubSeq(lines, 0 + 1, Len(lines))
    <3>1. Len(lines) \in Nat /\ 0 \in Nat /\ 0 <= Len(lines)
      BY <2>1
    <3>2. /\ 0 = IF first < Len(lines) THEN first ELSE 0
          /\ Len(lines) = IF end < Len(lines) THEN end ELSE Len(lines)
      BY <2>1
    <3>3. \A c, d \in Nat :
            /\ c = IF first < Len(lines) THEN first ELSE 0
            /\ d = IF end < Len(lines) THEN end ELSE Len(lines)
            /\ c <= d
            => Slice(lines, first, end) = SubSeq(lines, c + 1, d)
      BY <2>1, SliceIs
    <3> QED
      BY <3>1, <3>2, <3>3
  <2> QED
    BY <2>2 DEF lines, first, end
<1>3. SubSeq(buffer[s], 1, Len(buffer[s])) = buffer[s]
  BY <1>1
<1> QED
  BY <1>1, <1>2, <1>3, PagesJoin

-----------------------------------------------------------------------------
(* The invariant: what a request has where it is, which requests know what *)
(* of which file, what of a file is known, and which files are on the way  *)
(* into the answer of a search.                                            *)
FileInv ==
  /\ ShapeInv /\ StageInv /\ IdInv /\ InodeInv /\ DirInv /\ FoundInv
  /\ AppendInv /\ SerialInv /\ AloneInv /\ TreeInv /\ SteadyInv

(* FileInv is an invariant.                                                *)
LEMMA FileInvAlways == Spec => []FileInv
<1>1. Init => FileInv
  BY FilesInit, KnownInit, TreeInit, SteadyInit DEF FileInv
<1>2. FileInv /\ [Next]_vars => FileInv'
  BY ShapeNext, StageNext, IdNext, InodeNext, DirNext, FoundNext, AppendNext,
     SerialNext, TreeNext, SteadyNext DEF FileInv
<1> QED
  BY <1>1, <1>2, PTL DEF Spec

(* Every variable has its type: a request that reads or writes has a file  *)
(* open, and never writes behind the end of what it has to write.          *)
THEOREM FileTypeCorrect == Spec => []FileTypeOK
<1>1. FileInv => FileTypeOK
  BY TypeFollows DEF FileInv
<1> QED
  BY <1>1, FileInvAlways, PTL

(* A file that nobody is writing holds what the requests on it would have  *)
(* left had each been atomic, and a read that no write met answers just    *)
(* that, as long as no write met another, failed or was killed             *)
(* (file.go:159-346, 683-816).                                             *)
THEOREM UndisturbedAlwaysSerial == Spec => []UndisturbedIsSerial
<1>1. FileInv => UndisturbedIsSerial
  BY SerialFollows DEF FileInv
<1> QED
  BY <1>1, FileInvAlways, PTL

(* Every block of an answered append stays in the file, once, until the    *)
(* file is overwritten or removed, whatever other appends and reads run    *)
(* beside it (file_ops_bwrap.go:91).                                       *)
THEOREM AppendsAlwaysKept == Spec => []AppendsAreKept
<1>1. FileInv => AppendsAreKept
  BY AppendsFollow DEF FileInv
<1> QED
  BY <1>1, FileInvAlways, PTL

(* A search reports every file that was there from its beginning to its    *)
(* answer, whose line of find's output gives its name, and for grep has    *)
(* the text and was not written meanwhile, whatever came and went beside   *)
(* it and whatever other lines are taken for; only if a file went while    *)
(* find was at work is that not so (file.go:523-525, 925-928).             *)
THEOREM SteadyAlwaysReported == Spec => []SteadyIsReported
<1>1. FileInv => SteadyIsReported
  BY SteadyFollows DEF FileInv
<1> QED
  BY <1>1, FileInvAlways, PTL

(* A command that runs finds its working directory in its sandbox, however *)
(* the mounts are nested (util.go:236-296 against bwrap.go:75-132).        *)
THEOREM MappedAlwaysMounted == Spec => []MappedIsMounted
<1>1. FileInv => MappedIsMounted
  BY PathsAlwaysAgree DEF FileInv, DirInv, MappedIsMounted
<1> QED
  BY <1>1, FileInvAlways, PTL

(* A path that a search answers leads to the file it found when it is      *)
(* asked for, but below a "home" or an "agents/skills" in the home         *)
(* directory (file.go:122-141 against 965-1003).                           *)
THEOREM DisplayedAlwaysReaches == Spec => []DisplayedReaches
<1>1. FileInv => DisplayedReaches
  BY ShownPathsAlwaysLead, DisplayedFollows DEF FileInv, DisplayedReaches
<1> QED
  BY <1>1, FileInvAlways, PTL

(* A file that is read page by page, with pages of any size, is what it is *)
(* when it is read at once (file.go:187-198).                              *)
THEOREM PagesAlwaysJoinUp == Spec => []PagesJoinUp
<1>1. FileInv => PagesJoinUp
  BY PagesFollow DEF FileInv
<1> QED
  BY <1>1, FileInvAlways, PTL
=============================================================================
