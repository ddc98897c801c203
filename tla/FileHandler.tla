---------------------------- MODULE FileHandler ----------------------------
(***************************************************************************)
(* The file API (handler/file.go) on the file operator                     *)
(* (executor/file_ops_bwrap.go), and the start of commands beside it.      *)
(*                                                                         *)
(* Every operation of the operator is a process of its own (base64, stat,  *)
(* find, a small shell script) in a sandbox of its own, and no lock ties   *)
(* the processes of different requests, or those of one request, together. *)
(* A step below is one system call on a file: opening it, which may        *)
(* truncate or create it, or reading or writing one block.  The processes  *)
(* of a request are killed when its client goes away, and those that write *)
(* may fail, for want of space, say, at any step.                          *)
(*                                                                         *)
(* A file is a sequence of blocks.  A block is the number of the request   *)
(* that made it, or Text, which is what edits replace and searches look    *)
(* for, or Hole, which a write behind the end of a file leaves.  What a    *)
(* request writes is two blocks long, so that it can be cut in two.        *)
(***************************************************************************)
EXTENDS SandboxPaths, FiniteSets

CONSTANTS
  Slots,         \* requests served at the same time
  FileRequests,  \* paths that are asked for as files
  DirRequests,   \* paths that are searched
  WorkingDirs,   \* paths that are asked for as working directories
  Mounts,        \* the roots that requests have
  Places,        \* paths, in the sandbox, of the files there may be
  ReadAs,        \* place -> the path that its line in find's output gives
  Held,          \* locations that hold a file at first
  None,
  Unknown,
  Limits,        \* max_results of searches
  MaxRequests,   \* bounds the model
  MaxFaults      \* bounds the model

ASSUME FileAssumption ==
  /\ \A p \in FileRequests \cup DirRequests \cup WorkingDirs \cup Places :
       p \in Seq(STRING)
  /\ IsFiniteSet(Places) /\ Mounts \subseteq Roots
  /\ Limits \subseteq Nat \ {0} /\ MaxRequests \in Nat /\ MaxFaults \in Nat

(* find prints path|size|mode|time|type for each file.  What is taken for  *)
(* its path ends at the first "|", be it one of the name, and a line break *)
(* in the name leaves nothing that makes sense.                            *)
Plain(p) == ReadAs[p] = p

ASSUME FindAssumption ==
  /\ ReadAs \in [Places -> Places \cup {None}]
  /\ \A p \in Places : ReadAs[p] # None => Front(ReadAs[p]) = Front(p)
  /\ \A p \in DirRequests : Resolve(p) \in Places => Plain(Resolve(p))

VARIABLES
  inode,        \* location -> the file there, an index of data, or 0
  data,         \* the contents of the files there have been
  dirs,         \* locations that are directories
  pc,           \* slot -> what its request does next
  job,          \* slot -> its request
  file,         \* slot -> path of the file it works on
  fd,           \* slot -> the file it has open
  buffer,       \* slot -> what it has read, or has to write
  pos,          \* slot -> how much of that it has written
  todo,         \* slot -> paths it has still to look at
  found,        \* slot -> what it has found: paths and line numbers
  begun, faults,
  alone,        \* slots whose file nobody else has written meanwhile
  safe,         \* slots whose file nobody has overwritten meanwhile
  ideal,        \* location -> its content if requests were atomic
  appended,     \* location -> appends answered since it was last overwritten
  steady,       \* slot -> files its search must come upon
  vanished      \* slots under whose search a file was removed

disk == <<inode, data, dirs>>
work == <<file, fd, buffer, pos, todo, found>>
ghosts == <<alone, safe, ideal, appended, steady, vanished>>
vars == <<disk, pc, job, work, begun, faults, ghosts>>

Text == 0
Hole == -1

Overwriting == {"write", "upload", "replace"}
Writing == Overwriting \cup {"append"}
Reading == {"read", "download"}
Searching == {"list", "tree", "find", "glob", "grep"}
Limited == {"glob", "grep"}
Ops == Writing \cup Reading \cup Searching \cup {"exec"}

AskedPaths ==
  {Resolve(p) : p \in FileRequests \cup DirRequests \cup WorkingDirs}
Where == [m \in Mounts |-> [p \in Places \cup AskedPaths |-> Mounted(m, p)]]
Locations == {Where[m][p] : m \in Mounts, p \in Places \cup AskedPaths}
Blocks == {Text, Hole} \cup 1 .. MaxRequests

ASSUME DiskAssumption ==
  /\ IsFiniteSet(Held) /\ \A l \in Held : l.rest \in Seq(STRING)
  /\ None \notin Seq(Blocks) \cup Nat /\ Unknown \notin Seq(Blocks) \cup {None}

NoJob == [op |-> "none", at |-> <<>>, roots |-> None, limit |-> 0, id |-> 0]

Steps ==
  {"idle", "open read", "read", "open write", "write", "chmod", "touch",
   "chmod append", "open append", "append", "stat", "list", "stat entries",
   "walk", "next file", "make dir", "run", "answer"}

FileTypeOK ==
  /\ inode \in [Locations -> 0 .. Len(data)]
  /\ \A i \in DOMAIN data : data[i] \in Seq(Blocks)
  /\ pc \in [Slots -> Steps]
  /\ \A s \in Slots :
       /\ (job[s] = NoJob) <=> (pc[s] = "idle")
       /\ pc[s] # "idle" => job[s].op \in Ops /\ job[s].roots \in Mounts
       /\ pc[s] \in {"read", "write", "append"} => fd[s] \in DOMAIN data
       /\ buffer[s] \in Seq(Blocks) /\ pos[s] \in 0 .. Len(buffer[s])
       /\ todo[s] \subseteq Places
       /\ \A e \in found[s] : e[1] \in Places
  /\ alone \subseteq Slots /\ safe \subseteq Slots /\ vanished \subseteq Slots

-----------------------------------------------------------------------------
At(s) == Where[job[s].roots][file[s]]

Users(loc) ==
  {s \in Slots : job[s].op \in Writing \cup Reading /\ At(s) = loc}
Writers(loc) == {s \in Users(loc) : job[s].op \in Writing}
Overwriters(loc) == {s \in Users(loc) : job[s].op \in Overwriting}

Exists(roots, p) == inode[Where[roots][p]] # 0
Content(loc) == IF inode[loc] = 0 THEN None ELSE data[inode[loc]]
Holds(content, block) == \E i \in DOMAIN content : content[i] = block
Ancestors(loc) ==
  {Location(loc.dir, SubSeq(loc.rest, 1, n)) : n \in 0 .. Len(loc.rest)}

Init ==
  /\ inode = [l \in Locations |->
       IF l \in Held THEN CHOOSE i \in 1 .. Cardinality(Held) :
                            SetToSeq(Held)[i] = l
       ELSE 0]
  /\ data = [i \in 1 .. Cardinality(Held) |-> <<Text>>]
  /\ dirs = {Location(d, <<>>) : d \in {"session", "workspace", "user",
                                        "project", "skills"}}
            \cup {Location(d, Home) : d \in {"session", "workspace"}}
            \cup UNION {Ancestors(Location(l.dir, Front(l.rest))) : l \in Held}
  /\ pc = [s \in Slots |-> "idle"] /\ job = [s \in Slots |-> NoJob]
  /\ file = [s \in Slots |-> <<>>] /\ fd = [s \in Slots |-> 0]
  /\ buffer = [s \in Slots |-> <<>>] /\ pos = [s \in Slots |-> 0]
  /\ todo = [s \in Slots |-> {}] /\ found = [s \in Slots |-> {}]
  /\ begun = 0 /\ faults = 0
  /\ alone = {} /\ safe = {} /\ vanished = {}
  /\ ideal = [l \in Locations |-> IF l \in Held THEN <<Text>> ELSE None]
  /\ appended = [l \in Locations |-> {}]
  /\ steady = [s \in Slots |-> {}]

-----------------------------------------------------------------------------
(* A request comes in.                                                     *)

FirstStep(op) ==
  CASE op \in {"read", "replace"} -> "open read"
    [] op \in {"write", "upload"} -> "open write"
    [] op = "append" -> "touch"
    [] op = "download" -> "stat"
    [] op = "list" -> "list"
    [] op \in {"tree", "find", "glob", "grep"} -> "walk"
    [] op = "exec" -> "make dir"

(* The files in the directory, or below it, that a search is to report.    *)
(* It may also be a file: find and grep report that one.                   *)
InScope(op, at, p) ==
  /\ Within(at, p)
  /\ op \in {"tree", "glob"} => p # at
  /\ IF op = "list" THEN Len(p) = Len(at) + 1 ELSE ~Implicit(at, p)

Scope == [op \in Searching |-> [at \in AskedPaths |->
            {p \in Places : InScope(op, at, p)}]]

(* What a search that begins now must come upon: the files that are there, *)
(* if find's output names them, and for grep those with the text that      *)
(* nobody is writing.                                                      *)
Present(op, at, roots) ==
  {p \in Scope[op][at] :
     /\ Exists(roots, p) /\ Plain(p)
     /\ op = "grep" =>
          LET loc == Where[roots][p]
          IN Writers(loc) = {} /\ Holds(Content(loc), Text)}

(* What others lose when a request begins to write a file.                 *)
WriterBegins(s, loc, op) ==
  /\ alone' = (alone \ Users(loc)) \cup (IF Writers(loc) = {} THEN {s} ELSE {})
  /\ safe' = IF op \in Overwriting THEN safe \ Users(loc)
             ELSE IF Overwriters(loc) = {} THEN safe \cup {s} ELSE safe
  /\ appended' = IF op \in Overwriting
                 THEN [appended EXCEPT ![loc] = {}] ELSE appended
  /\ steady' = [t \in Slots |->
       IF job[t].op = "grep"
       THEN {p \in steady[t] : Where[job[t].roots][p] # loc} ELSE steady[t]]

(* bwrap makes the directory on which it mounts the project's data.        *)
MountPoints(roots) ==
  IF roots.project
  THEN Ancestors(Mounted([roots EXCEPT !.project = FALSE], Project)) ELSE {}

Begin(s, op, request, roots, limit) ==
  LET at == Resolve(request)
      loc == Where[roots][at]
  IN
  /\ pc[s] = "idle" /\ begun < MaxRequests /\ begun' = begun + 1
  /\ Readable(request) /\ (op \in Writing => Writable(request))
  /\ pc' = [pc EXCEPT ![s] = FirstStep(op)]
  /\ job' = [job EXCEPT ![s] =
       [op |-> op, at |-> at, roots |-> roots, limit |-> limit,
        id |-> begun + 1]]
  /\ file' = [file EXCEPT ![s] = at]
  /\ buffer' = [buffer EXCEPT ![s] =
       CASE op \in {"write", "upload"} -> <<begun + 1, Text>>
         [] op = "append" -> <<begun + 1, begun + 1>>
         [] OTHER -> <<>>]
  /\ IF op \in Writing THEN WriterBegins(s, loc, op)
     ELSE /\ alone' = IF op \in Reading /\ Writers(loc) = {}
                      THEN alone \cup {s} ELSE alone
          /\ steady' = [steady EXCEPT ![s] =
               IF op \in Searching THEN Present(op, at, roots) ELSE {}]
          /\ UNCHANGED <<safe, appended>>
  /\ dirs' = dirs \cup MountPoints(roots)
  /\ UNCHANGED <<inode, data, fd, pos, todo, found, faults, ideal, vanished>>

BeginFileRequest(s, op) ==
  \E request \in FileRequests, roots \in Mounts : Begin(s, op, request, roots, 0)

ReadRequest(s) == BeginFileRequest(s, "read")
WriteRequest(s) == BeginFileRequest(s, "write") \/ BeginFileRequest(s, "append")
ReplaceRequest(s) == BeginFileRequest(s, "replace")
UploadRequest(s) == BeginFileRequest(s, "upload")
DownloadRequest(s) == BeginFileRequest(s, "download")

BeginSearch(s, op, limits) ==
  \E request \in DirRequests, roots \in Mounts, limit \in limits :
    Begin(s, op, request, roots, limit)

(* A recursive list is much like a find.                                   *)
ListRequest(s) == \E op \in {"list", "tree"} : BeginSearch(s, op, {0})
FindRequest(s) == BeginSearch(s, "find", {0})
GrepRequest(s) == BeginSearch(s, "grep", Limits)
GlobRequest(s) == BeginSearch(s, "glob", Limits)

Command(s) ==
  \E request \in WorkingDirs, roots \in Mounts :
    Begin(s, "exec", request, roots, 0)

(* It goes on to another step, or is over.                                 *)
Go(s, step) == pc' = [pc EXCEPT ![s] = step]

Over(s) ==
  /\ Go(s, "idle") /\ job' = [job EXCEPT ![s] = NoJob]
  /\ file' = [file EXCEPT ![s] = <<>>] /\ fd' = [fd EXCEPT ![s] = 0]
  /\ buffer' = [buffer EXCEPT ![s] = <<>>] /\ pos' = [pos EXCEPT ![s] = 0]
  /\ todo' = [todo EXCEPT ![s] = {}] /\ found' = [found EXCEPT ![s] = {}]
  /\ alone' = alone \ {s} /\ safe' = safe \ {s} /\ vanished' = vanished \ {s}
  /\ steady' = [steady EXCEPT ![s] = {}]

(* An error is answered.                                                   *)
Fails(s) == Over(s) /\ UNCHANGED <<disk, begun, faults, ideal, appended>>

(* A write is answered.  Had requests been atomic, the file would now hold *)
(* what effect says; that is known if nobody else wrote it meanwhile.      *)
Effect(s, before) ==
  CASE job[s].op \in {"write", "upload"} -> <<job[s].id, Text>>
    [] job[s].op = "append" /\ before # Unknown ->
         (IF before = None THEN <<>> ELSE before) \o buffer[s]
    [] job[s].op = "replace" /\ before \notin {None, Unknown} ->
         [i \in DOMAIN before |->
            IF before[i] = Text THEN job[s].id ELSE before[i]]
    [] OTHER -> before

Written(s) ==
  /\ Over(s)
  /\ ideal' = [ideal EXCEPT ![At(s)] =
       IF s \in alone THEN Effect(s, @) ELSE Unknown]
  /\ appended' = [appended EXCEPT ![At(s)] =
       IF job[s].op = "append" /\ s \in safe THEN @ \cup {job[s].id} ELSE @]
  /\ UNCHANGED <<begun, faults>>

(* It ends where it is, and what its process has done to the file stays.   *)
BreaksOff(s) ==
  /\ faults < MaxFaults /\ faults' = faults + 1
  /\ Over(s)
  /\ ideal' = IF job[s].op \in Writing
              THEN [ideal EXCEPT ![At(s)] = Unknown] ELSE ideal
  /\ UNCHANGED <<disk, begun, appended>>

(* The client goes away: the process is killed.                            *)
Cancel(s) ==
  /\ pc[s] \notin {"idle", "answer"} /\ job[s].op # "exec"
  /\ BreaksOff(s)

(* A step of a script that writes fails, and so the script: 500.           *)
WriteFails(s) ==
  /\ pc[s] \in {"open write", "write", "chmod",
               "touch", "chmod append", "open append", "append"}
  /\ BreaksOff(s)

(* A read, a download or a search sends its answer.  (Search reads a file  *)
(* as Read does, and answers the lines that match.)                        *)
Answer(s) == pc[s] = "answer" /\ Fails(s)

-----------------------------------------------------------------------------
(* Reading: base64, or cat for a download, which looks at the file first.  *)

Stat(s) ==
  /\ pc[s] = "stat"
  /\ IF inode[At(s)] = 0 THEN Fails(s)
     ELSE Go(s, "open read")
          /\ UNCHANGED <<disk, job, work, begun, faults, ghosts>>

OpenRead(s) ==
  /\ pc[s] = "open read" /\ inode[At(s)] # 0
  /\ Go(s, "read")
  /\ fd' = [fd EXCEPT ![s] = inode[At(s)]]
  /\ buffer' = [buffer EXCEPT ![s] = <<>>]
  /\ UNCHANGED <<disk, job, file, pos, todo, found, begun, faults, ghosts>>

(* It is not there: 404, or not worth a word to grep.                      *)
OpenReadFails(s) ==
  /\ pc[s] = "open read" /\ inode[At(s)] = 0
  /\ IF job[s].op = "grep"
     THEN Go(s, "next file")
          /\ UNCHANGED <<disk, job, work, begun, faults, ghosts>>
     ELSE Fails(s)

ReadBlock(s) ==
  /\ pc[s] = "read" /\ Len(buffer[s]) < Len(data[fd[s]])
  /\ buffer' = [buffer EXCEPT ![s] =
       Append(@, data[fd[s]][Len(buffer[s]) + 1])]
  /\ UNCHANGED <<disk, pc, job, file, fd, pos, todo, found, begun, faults,
                 ghosts>>

AtEnd(s, op) ==
  pc[s] = "read" /\ job[s].op = op /\ Len(buffer[s]) >= Len(data[fd[s]])

(* The lines of a file that an answer has, if the request has the numbers  *)
(* of a first line and of one past the last: a number that is not one of a *)
(* line, or is not given (None), is ignored.  An end before its beginning  *)
(* is a panic, which gin makes a 500: None.                                *)
LineNumber(n, lines, otherwise) ==
  IF n # None /\ n < Len(lines) THEN n ELSE otherwise

SliceWithEnd(lines, first, end) ==  \* MUTANT of Slice: the last line, too
  SubSeq(lines, LineNumber(first, lines, 0) + 1,
                LineNumber(end, lines, Len(lines) - 1) + 1)

Slice(lines, first, end) ==
  LET from == LineNumber(first, lines, 0)
      to == LineNumber(end, lines, Len(lines))
  IN IF from > to THEN None ELSE SubSeq(lines, from + 1, to)

ReadEnds(s) ==
  /\ AtEnd(s, "read") \/ AtEnd(s, "download")
  /\ Go(s, "answer")
  /\ UNCHANGED <<disk, job, work, begun, faults, ghosts>>

(* Replace writes the file again if the text occurs in what it has read.   *)
ReplaceMatches(s) ==
  /\ AtEnd(s, "replace") /\ Holds(buffer[s], Text)
  /\ Go(s, "open write")
  /\ buffer' = [buffer EXCEPT ![s] =
       [i \in DOMAIN @ |-> IF @[i] = Text THEN job[s].id ELSE @[i]]]
  /\ UNCHANGED <<disk, job, file, fd, pos, todo, found, begun, faults, ghosts>>

ReplaceFindsNothing(s) ==
  /\ AtEnd(s, "replace") /\ ~Holds(buffer[s], Text)
  /\ Written(s) /\ UNCHANGED disk

-----------------------------------------------------------------------------
(* Writing: mkdir -p, base64 -d > file, chmod; or touch, chmod, base64 -d  *)
(* >> file.                                                                *)

CreatedNothing(loc) ==  \* MUTANT of Created: a name without a file
  /\ data' = data
  /\ inode' = [inode EXCEPT ![loc] = Len(data) + 1]

Created(loc) ==
  /\ data' = Append(data, <<>>)
  /\ inode' = [inode EXCEPT ![loc] = Len(data) + 1]

KeptContent(content) == content  \* MUTANT of Emptied: opened without O_TRUNC

Emptied(content) == <<>>

OpenWrite(s) ==
  LET loc == At(s)
      parent == Mounted(job[s].roots, Front(file[s]))
  IN
  /\ pc[s] = "open write" /\ Go(s, "write")
  /\ dirs' = dirs \cup Ancestors(parent)
  /\ IF inode[loc] = 0 THEN Created(loc)
     ELSE data' = [data EXCEPT ![inode[loc]] = Emptied(@)] /\ UNCHANGED inode
  /\ fd' = [fd EXCEPT ![s] = inode'[loc]]
  /\ UNCHANGED <<job, file, buffer, pos, todo, found, begun, faults, ghosts>>

(* Block n of a file that may by now be shorter than that.                 *)
Put(content, n, block) ==
  [i \in 1 .. (IF n > Len(content) THEN n ELSE Len(content)) |->
     IF i = n THEN block ELSE IF i <= Len(content) THEN content[i] ELSE Hole]

MoreToWrite(s) ==
  /\ pos' = [pos EXCEPT ![s] = @ + 1]
  /\ UNCHANGED <<pc, job, file, fd, buffer, todo, found, begun, faults, ghosts>>

WriteBlock(s) ==
  LET n == pos[s] + 1 IN
  /\ pc[s] = "write"
  /\ data' = [data EXCEPT ![fd[s]] = Put(@, n, buffer[s][n])]
  /\ UNCHANGED <<inode, dirs>>
  /\ \/ n < Len(buffer[s]) /\ MoreToWrite(s)
     \/ n = Len(buffer[s]) /\ job[s].op = "upload" /\ Written(s)
     \/ /\ n = Len(buffer[s]) /\ job[s].op # "upload" /\ Go(s, "chmod")
        /\ UNCHANGED <<job, work, begun, faults, ghosts>>

Chmod(s) ==
  /\ pc[s] = "chmod"
  /\ IF inode[At(s)] = 0 THEN Fails(s) ELSE Written(s) /\ UNCHANGED disk

(* Unlike the others, an append makes no directory.                        *)
Touch(s) ==
  LET loc == At(s)
      parent == Mounted(job[s].roots, Front(file[s]))
  IN
  /\ pc[s] = "touch"
  /\ IF inode[loc] = 0 /\ parent \notin dirs THEN Fails(s)
     ELSE /\ IF inode[loc] = 0 THEN Created(loc) ELSE UNCHANGED <<inode, data>>
          /\ Go(s, "chmod append")
          /\ UNCHANGED <<dirs, job, work, begun, faults, ghosts>>

ChmodAppend(s) ==
  /\ pc[s] = "chmod append"
  /\ IF inode[At(s)] = 0 THEN Fails(s)
     ELSE Go(s, "open append")
          /\ UNCHANGED <<disk, job, work, begun, faults, ghosts>>

OpenAppend(s) ==
  LET loc == At(s) IN
  /\ pc[s] = "open append" /\ Go(s, "append")
  /\ IF inode[loc] = 0 THEN Created(loc) ELSE UNCHANGED <<inode, data>>
  /\ fd' = [fd EXCEPT ![s] = inode'[loc]]
  /\ pos' = [pos EXCEPT ![s] = 0]
  /\ UNCHANGED <<dirs, job, file, buffer, todo, found, begun, faults, ghosts>>

AppendedAtPos(s) ==  \* MUTANT of Appended: opened for writing only
  Put(data[fd[s]], pos[s] + 1, buffer[s][pos[s] + 1])

(* The file is open for appending: a block goes to where its end is then.  *)
Appended(s) == Append(data[fd[s]], buffer[s][pos[s] + 1])

AppendBlock(s) ==
  /\ pc[s] = "append"
  /\ data' = [data EXCEPT ![fd[s]] = Appended(s)]
  /\ UNCHANGED <<inode, dirs>>
  /\ IF pos[s] + 1 < Len(buffer[s]) THEN MoreToWrite(s) ELSE Written(s)

-----------------------------------------------------------------------------
(* Searching: find, and then a process for each entry.                     *)

Paths(places) == {<<p, 0>> : p \in places}

IsThere(s) ==
  LET loc == Where[job[s].roots][job[s].at]
  IN loc \in dirs \/ inode[loc] # 0

(* What find's output is understood to say is there.  (What reads alike is *)
(* one here; the answer has it as often as find printed it.)               *)
Seen(s) ==
  LET scope == Scope[job[s].op][job[s].at]
      printed == {p \in scope : Exists(job[s].roots, p)}
  IN {ReadAs[p] : p \in printed} \cap scope

ReadDir(s) ==
  /\ pc[s] = "list" /\ IsThere(s) /\ Go(s, "stat entries")
  /\ todo' = [todo EXCEPT ![s] = Seen(s)]
  /\ UNCHANGED <<disk, job, file, fd, buffer, pos, found, begun, faults, ghosts>>

StopAtGone(s, p) == {}  \* MUTANT of Kept: the first that is gone ends the list

(* The entries that have gone since are left out.                          *)
Kept(s, p) == todo[s] \ {p}

StatEntry(s) ==
  /\ pc[s] = "stat entries"
  /\ \E p \in todo[s] :
       IF Exists(job[s].roots, p)
       THEN /\ found' = [found EXCEPT ![s] = @ \cup Paths({p})]
            /\ todo' = [todo EXCEPT ![s] = @ \ {p}]
       ELSE /\ todo' = [todo EXCEPT ![s] = Kept(s, p)]
            /\ UNCHANGED found
  /\ UNCHANGED <<disk, pc, job, file, fd, buffer, pos, begun, faults, ghosts>>

ListEnds(s) ==
  /\ pc[s] = "stat entries" /\ todo[s] = {} /\ Go(s, "answer")
  /\ UNCHANGED <<disk, job, work, begun, faults, ghosts>>

(* Find and a recursive list report all of it, glob the first few.         *)
Reported(s, places) ==
  /\ places \subseteq Seen(s)
  /\ IF job[s].op = "glob" /\ Cardinality(Seen(s)) > job[s].limit
     THEN Cardinality(places) = job[s].limit ELSE places = Seen(s)

Walk(s) ==
  /\ pc[s] = "walk" /\ IsThere(s)
  /\ IF job[s].op = "grep"
     THEN /\ todo' = [todo EXCEPT ![s] = Seen(s)]
          /\ Go(s, "next file") /\ UNCHANGED found
     ELSE /\ \E places \in SUBSET Places :
               /\ Reported(s, places)
               /\ found' = [found EXCEPT ![s] = Paths(places)]
          /\ Go(s, "answer") /\ UNCHANGED todo
  /\ UNCHANGED <<disk, job, file, fd, buffer, pos, begun, faults, ghosts>>

(* A file removed while find is at work makes it fail, as a directory does *)
(* that is not there.  Glob reports that; the others drop the error, or    *)
(* take the one for the other, and answer that there is nothing.           *)
FindFails(s) ==
  /\ pc[s] \in {"list", "walk"} /\ (s \in vanished \/ ~IsThere(s))
  /\ IF job[s].op = "glob" THEN Fails(s)
     ELSE Go(s, "answer")
          /\ UNCHANGED <<disk, job, work, begun, faults, ghosts>>

Truncated(s) ==
  job[s].op \in Limited /\ Cardinality(found[s]) >= job[s].limit

NextFile(s) ==
  /\ pc[s] = "next file"
  /\ IF todo[s] = {} \/ Truncated(s)
     THEN Go(s, "answer") /\ UNCHANGED <<todo, file>>
     ELSE \E p \in todo[s] :
            /\ todo' = [todo EXCEPT ![s] = @ \ {p}]
            /\ file' = [file EXCEPT ![s] = p]
            /\ Go(s, "open read")
  /\ UNCHANGED <<disk, job, fd, buffer, pos, found, begun, faults, ghosts>>

(* The lines of the file with the text, as many as there is room for.      *)
Matches(s) ==
  LET lines == {i \in DOMAIN buffer[s] : buffer[s][i] = Text}
      room == job[s].limit - Cardinality(found[s])
  IN {<<file[s], i>> : i \in {i \in lines :
        Cardinality({j \in lines : j < i}) < room}}

GrepMatches(s) ==
  /\ AtEnd(s, "grep") /\ Go(s, "next file")
  /\ found' = [found EXCEPT ![s] = @ \cup Matches(s)]
  /\ UNCHANGED <<disk, job, file, fd, buffer, pos, todo, begun, faults, ghosts>>

-----------------------------------------------------------------------------
(* Commands: the handlers make the working directory on the host, and the  *)
(* command finds it in its sandbox.  What it does there is up to it: here  *)
(* it may remove a file.                                                   *)

MakeDir(s) ==
  LET dir == HostPath(job[s].roots, job[s].at) IN
  /\ pc[s] = "make dir"
  /\ IF Within(Skills, job[s].at) /\ dir \notin dirs THEN Fails(s)
     ELSE /\ Go(s, "run")
          /\ dirs' = IF Within(Skills, job[s].at) THEN dirs
                     ELSE dirs \cup Ancestors(dir)
          /\ UNCHANGED <<inode, data, job, work, begun, faults, ghosts>>

RunEnds(s) == pc[s] = "run" /\ Fails(s)

RunRemoves(s, p) ==
  LET loc == Where[job[s].roots][p]
      under == {t \in Slots : pc[t] \in {"list", "walk"}
                  /\ \E q \in Places : Within(job[t].at, q)
                                       /\ Where[job[t].roots][q] = loc}
  IN
  /\ pc[s] = "run" /\ ~Within(Skills, p) /\ inode[loc] # 0
  /\ inode' = [inode EXCEPT ![loc] = 0]
  /\ alone' = alone \ Users(loc) /\ safe' = safe \ Users(loc)
  /\ appended' = [appended EXCEPT ![loc] = {}]
  /\ ideal' = [ideal EXCEPT ![loc] = IF Writers(loc) = {} THEN None ELSE Unknown]
  /\ steady' = [t \in Slots |->
       {q \in steady[t] : Where[job[t].roots][q] # loc}]
  /\ vanished' = vanished \cup under
  /\ UNCHANGED <<data, dirs, pc, job, work, begun, faults>>

-----------------------------------------------------------------------------
Request(s) ==
  ReadRequest(s) \/ WriteRequest(s) \/ ReplaceRequest(s) \/ UploadRequest(s)
    \/ DownloadRequest(s) \/ ListRequest(s) \/ FindRequest(s)
    \/ GrepRequest(s) \/ GlobRequest(s) \/ Command(s)

Read(s) ==
  Stat(s) \/ OpenRead(s) \/ OpenReadFails(s) \/ ReadBlock(s) \/ ReadEnds(s)
    \/ ReplaceMatches(s) \/ ReplaceFindsNothing(s) \/ GrepMatches(s)

Write(s) ==
  OpenWrite(s) \/ WriteBlock(s) \/ Chmod(s)
    \/ Touch(s) \/ ChmodAppend(s) \/ OpenAppend(s) \/ AppendBlock(s)

Search(s) ==
  ReadDir(s) \/ StatEntry(s) \/ ListEnds(s) \/ Walk(s) \/ FindFails(s)
    \/ NextFile(s)

Next ==
  \E s \in Slots :
    \/ Request(s) \/ Cancel(s) \/ WriteFails(s) \/ Answer(s)
    \/ Read(s) \/ Write(s) \/ Search(s)
    \/ MakeDir(s) \/ RunEnds(s) \/ \E p \in Places : RunRemoves(s, p)

Spec == Init /\ [][Next]_vars

-----------------------------------------------------------------------------
(* Requests that nobody disturbs do what they would do one at a time: a    *)
(* file that nobody is writing holds what the requests on it would have    *)
(* left had each been atomic, and a read or a download that no write met   *)
(* answers just that.  (Read, Write, Replace, Upload and Download, file.go *)
(* lines 159-346 and 683-816: their processes, opens and blocks are steps  *)
(* of their own.)  A write that meets another, fails, or is killed, leaves *)
(* a file of which nothing is promised, until the next write of the whole  *)
(* of it: the script truncates the file first (file_ops_bwrap.go:82), and  *)
(* an error answered says nothing of what became of it.                    *)
UndisturbedIsSerial ==
  /\ \A loc \in Locations :
       (Writers(loc) = {} /\ ideal[loc] # Unknown) => Content(loc) = ideal[loc]
  /\ \A s \in Slots :
       (pc[s] = "answer" /\ job[s].op \in Reading /\ s \in alone
          /\ ideal[At(s)] # Unknown)
         => buffer[s] = ideal[At(s)]

(* Appends need nobody's absence but that of overwriters: whatever other   *)
(* appends and reads ran meanwhile, every block of an answered append is   *)
(* in the file once, until the file is overwritten or removed              *)
(* (file_ops_bwrap.go:91 opens it for appending, and touch keeps it).      *)
AppendsAreKept ==
  \A loc \in Locations : \A id \in appended[loc] :
    /\ inode[loc] # 0
    /\ Cardinality({i \in DOMAIN Content(loc) : Content(loc)[i] = id}) = 2

(* A search reports every file that was there from its beginning to its    *)
(* answer (for grep: with the text, and unwritten), whatever came and went *)
(* beside it: an entry that is gone by the time it is looked at is left    *)
(* out, and ends nothing (file.go:523-525, 925-928), and so is one that    *)
(* was there only in find's output, cut at the "|" of a longer name.  Not  *)
(* so if a file went while find itself was at work: then the answer is     *)
(* empty; nor for names with "|" or a line break, whose lines of find's    *)
(* output are misunderstood (file_ops_bwrap.go:207-229).                   *)
SteadyIsReported ==
  \A s \in Slots :
    (pc[s] = "answer" /\ job[s].op \in Searching /\ s \notin vanished
       /\ ~Truncated(s))
      => \A p \in steady[s] : \E e \in found[s] : e[1] = p

(* However the mounts are nested, a command that runs finds its working    *)
(* directory in its sandbox: the host's directory in which the handler     *)
(* made it, or looked for it, is the one mounted there (util.go:236-296    *)
(* against bwrap.go:75-132), as for all of SomePaths.                      *)
MappedIsMounted ==
  /\ PathsAgree
  /\ \A s \in Slots :
       pc[s] = "run" => Where[job[s].roots][job[s].at] \in dirs

(* The paths a search answers lead to the files it found when they are     *)
(* asked for (file.go:122-141 against 965-1003), as do all of SomePaths    *)
(* but those below a "home" or an "agents/skills" in the home directory.   *)
DisplayedReaches ==
  /\ ShownPathsLead
  /\ \A s \in Slots : \A e \in found[s] :
       Resolve(Display(job[s].at, e[1])) = e[1] \/ Misleading(e[1])

(* Pages join up: read page by page, each beginning at the line where the  *)
(* one before ended, a file is what it is when read at once; only a page   *)
(* asked for behind the last line is not empty but begins again at the     *)
(* first (file.go:187-198; client/file.go:373 says "0-based").             *)
PagesJoinUp ==
  \A s \in Slots : pc[s] = "answer" /\ job[s].op = "read" =>
    LET lines == buffer[s]
        page(k, size) == Slice(lines, k * size, (k + 1) * size)
    IN \A size \in 1 .. Len(lines) + 1 :
         /\ FlattenSeq([k \in 1 .. (Len(lines) + size - 1) \div size |->
                         page(k - 1, size)]) = lines
         /\ Slice(lines, Len(lines), Len(lines) + size) = lines
=============================================================================
