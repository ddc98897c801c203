# TLA+ models of sandbox-container

sandbox-container is an HTTP server (Go, Gin) that runs commands and code for
AI agents inside bubblewrap (`bwrap`), keeps a file tree per agent and session,
a registry of versioned *skills* that it copies to agents, and an audit log.
All of its state is in files under a few roots and in maps in memory. There is
no database and there are no transactions. What is hard about it is exactly
that: handlers that lock different mutexes, or none, work on the same
directories, and a failing system call or the end of the process can fall
between any two of their steps.

This directory holds TLA+ modules for those parts, TLC configurations that
model-check them on small instances, and proofs, checked by the TLA+ proof
system (TLAPS), that nearly all of the safety properties hold in instances of
every size. Paths below are relative to the repository's root.

## 1. The system

### 1.1 Components

| Component | Source | State it keeps | Operations that change state |
|---|---|---|---|
| Skill registry | `handler/registry.go` | `<root>/registry/<name>/_meta.json` (name, list of versions, active version), one directory per version, and the store `/data/skills/<name>` agents are served from; `RegistryHandler.mu` | create, update, delete, rename, copy; version create, clone, delete; version file write, update, delete, mkdir; activate, commit from an agent or user, import from a URL or an upload |
| Skill sync | `handler/skill.go` | per agent a cache of skills copied from the store; `SkillHandler.mu` | list and load for an agent (both copy what is outdated, and with `cleanup` remove the rest), delete of an agent's cache |
| Audit writer | `audit/writer.go` | map from session to open file handle; `Writer.mu`, and one mutex per handle | WriteEntry, CloseSession, SyncSession, Close, the eviction loop |
| Audit middleware | `middleware/audit.go` | none | wraps a handler, writes one entry after it |
| Session manager | `session/manager.go` | map from session to time of last use, a flag per agent with a workspace, session directories; `Manager.mu` | Touch, TouchWorkspace, DeleteSession, ListSessions, the cleanup loop |
| Session handlers | `handler/session.go` | none | list, delete, page through the audit log |
| Bash handler | `handler/bash.go` | map from session key to running command with buffers, context and status; `BashHandler.mu`, one mutex per buffer | Exec (synchronous or not), waitCommand, Output, Write, Kill, CreateSession, ListSessions, CloseSession |
| Command executor | `executor/bwrap.go` | none | builds the `bwrap` command line (which directories are mounted where, and in which order), kills on the context's end |
| File handler | `handler/file.go` | none of its own; the files of the session | read, write (or append), replace, upload, download, list, find, grep, glob, search |
| File operator | `executor/file_ops_bwrap.go` | none | each operation on a file as one process in `bwrap`: `base64`, `stat`, `find`, a shell script |
| Sandbox paths | `handler/util.go`, parts of `handler/file.go` and `executor/bwrap.go` | none | resolve a path of a request, find its directory on the host, show a path in an answer; make a working directory |
| Code handler | `handler/code.go` | none | run Python or JavaScript in a working directory |
| User and project data | `userdata/`, `projectdata/` | one directory per id | make the directory |
| Authentication | `middleware/auth.go` | none | compare a key |
| Client library | `client/` | `agentListCache` (answers with an expiry), a `singleflight.Group`; `Client.agentListMu` | one HTTP call per method; list of an agent's skills through the cache and shared requests; deletion of the agent's cache on the server, which invalidates the client's |
| Start-up | `main.go` | none | wires the components; ends in `log.Fatalf`, there is no shutdown |

### 1.2 How they interact

- The **registry** writes the store under `RegistryHandler.mu`; the **skill
  sync** reads it under `SkillHandler.mu`. The two handlers share nothing but
  the files, so a deployment and a copy interleave system call by system call.
  The `_meta.json` in the store carries a time stamp, and the sync decides by
  comparing it with the stamp in the cache.
- Handlers of exec, file and code requests call **Touch** of the session
  manager (or **TouchWorkspace**, when the agent's shared workspace is asked
  for) and then work in the directory without a lock.
- The **audit middleware** runs the handler first and writes the entry after
  it, so the entry of a request that deletes a session, or that outlives one,
  is written when the session is gone. It is not installed on `/v1/sessions`.
- The **session manager** calls **CloseSession** of the audit writer, then
  removes the session's directory and its audit file, for DELETE and for
  cleanup, with `Manager.mu` held. The audit writer knows nothing of that lock.
- The **bash handler** holds its mutex only to read or write the map; what it
  found there it uses after releasing it. The goroutine that waits for an
  asynchronous command looks its session up again, by key.
- The **file handler** calls the **file operator** once or more per request,
  with nothing held in between: reading is one process, Replace is two, grep one
  for `find` and one for each file. The request's context kills them. The paths
  in requests and answers are of the sandbox; the handlers of commands and of
  code make the working directory on the host, at the place the path
  functions compute.
- The **client** polls Output with the offsets of the previous answer. Its
  cache knows of a deletion on the server only if the same client asked for it
  and got the answer.

### 1.3 What is hard, and what correctness means

| Component | Hard behaviour | What should hold |
|---|---|---|
| Skill registry | several files per operation with one mutex: failures and kills part-way, rollbacks in some handlers and none in others; version paths resolved before the lock | the store serves the active version of each skill; an active version is listed and has content; history is not dropped; operations on one skill do not touch another |
| Skill sync | copies against deployments, cache deletions, other copies | a copy is of one deployment; answers do not go back in time; the cache catches up; every request ends |
| Audit writer | a handle can be closed between being found and being used; the file can be removed under it | the map holds open handles on the right file; no handle leaks; entries are not lost |
| Session manager | removal in several steps against requests at work; the TTL map is in memory | only expired sessions are cleaned up, and all of them are; directory and map agree |
| Bash handler | unlocked use of shared sessions; process end, deadline, kill and close race | every process and request ends; status and process agree; closing leaves nothing running |
| Output | two locks per answer | the client is given all of the output, once |
| File handler | processes without a lock, of one request and of several; a client that goes away; files that vanish under a search | requests that do not overlap leave what atomic ones would; appends are not lost; a search reports what is there throughout; pages of a file join up |
| Sandbox paths | nested mounts | the directory found on the host is the one mounted; a shown path leads back to its file |
| Client cache | an answer that arrives after an invalidation, callers that share a request, a request that fails or times out | answers are no older than TTL and timeout; an outdated one had a deletion beside it; every call returns |

The places where these can go wrong are listed, each with its line and the
properties aimed at it, under `hazards` in `PROJECT.json`.

## 2. The modules

Every module says in its header what it stands for. `PROJECT.json` (`map`) gives
for every definition the lines it models.

### 2.1 SkillRegistry

State: `dirs` and `meta` are the registry directories and their `_meta.json`
(`Absent` when it is missing or cannot be parsed; handlers treat both alike),
`files` the version directories, `served` the store, `pend` the version file
operations that have resolved their path and wait for the lock. The handlers
that run under the mutex from start to end are one action each.

Each write can fail, in every place where the code makes a system call
that can. A handler that then returns may have rolled back what it did
(`RenameRolledBack`, `CommitCopyFails`; a rollback that leaves everything as it
was needs no action). But the rollbacks are best effort: the code ignores the
error of `os.Rename` (`registry.go:386`, 395) and of `os.RemoveAll` (464, 492,
563, 659, 677, 1324), so what is left is the same after a step that
failed with a rollback that failed as well (`Failed`) as after a kill at that
step (`Crashed`, which also loses every request in flight). `Interrupted` is
either: in `RenameHalfway` and `CopyHalfway`, which leave metadata under another
skill's name, in `AddVersionFails` and `CommitHalfway`, which leave a version
directory that no list has, and wherever there is no rollback at all.
`MetaWriteFails` says that a failed `os.WriteFile` leaves the old
file or an unparsable one. `DeployAndRecord` is the order of the activating
handlers: store first, metadata second.

Two history variables, not in the code: `tainted` is the set of names on which
a step failed and that nothing repaired since; `faults` counts failing steps and
kills up to `MaxFaults`. `ServedIsActive` is stated for the untainted names.
That is not a retreat to the trivial: the taint is removed by the operations that
are supposed to repair (activating, deleting), and it is never set by
any interleaving without a fault, with one exception the code makes itself:
a rename onto a name that is still served (`RenameDeployed`, third
disjunct), which the handler only logs. `NamesAgree` has the other half: a skill whose
metadata names another one is in doubt and stays so through everything but its
deletion or renaming, so that no activation of it can pass for a repair.

It implements `SkillStore` (`RegistryIsStore`), where there are no directories,
metadata or deployments, and no operation comes in two parts: a skill is its
versions and the active one, and agents are given that one's content under the
skill's name in the same step. The mapping takes from a skill what its clients
see (`Skill`: the versions that are listed, with their content, and the active
one) and what agents see (`served`), and only for names that are not tainted:
`Damage` of the store takes names out of the map, `Repair` and `Withdraw`, an
activation and a deletion, put them back. So where `ServedIsActive` speaks of
single states, this says of every step whose skill it changes and how: a file
operation that resolved its path before other handlers ran still only adds or
changes one version, an operation on one skill leaves all others that are not in doubt
as they were, and nothing but a drop, a withdrawal or a move takes versions away.
Operations that see nothing of the map (a path resolved, a
version that fails to be created) are stutters.

### 2.2 SkillSync

One skill, one agent, three files: one that `filepath.Walk` visits before
`_meta.json` (`SKILLS.md`, upper case), `_meta.json` itself and one that is
visited after. The content of a file is the time (one of `Times`, later for later
deployments) of the deployment that wrote it, which for `_meta.json` is the
stamp in it;
`Blank` is a file that has been created or truncated and not yet written. Every
system call of a deployment, of a copy, of a cache deletion and of the reading
of `SKILLS.md` is a step; a write truncates the file first. `SkillHandler.mu` is
`mu`.

A version can have a `_meta.json` of its own, because `extractZip`
(`handler/skill.go:183`) keeps the one of an uploaded archive. `copyDir`
copies it to the store where the walk meets it (`DeployOwn`), and the stamp
of the deployment is written over it at the end. What it says is any of `OwnStamps`,
or unreadable. These are kept apart from `Times` so that a state
shows where a stamp came from; there are some before, between and after
the deployments' times, and one that is equal to a deployment's would compare
like its neighbours.

The removal of the old copy can stop part-way, which the code does not look at
(`ClearFails`, `skill.go:393`): the copy then goes on top of what is left.

History variables: `disturbed` says that the copy now in the cache was taken
while a deployment, a deletion, a fault or a kill was under way, or on top of
left-overs; `leftover` says the last alone.

### 2.3 AuditWriter

One critical section per step, since no code path holds `Writer.mu` and a
handle's mutex together. `handles` is the map, `fh` the handles; `linked` says
that the file a handle is open on is still at the session's path. The deletion
of a session is there as far as the audit file is concerned: CloseSession (two
critical sections) and `os.Remove`. A closed handle nobody refers to can be
made again, so four handles are never used up. `SyncSession` changes nothing
the model sees, and `Close` is never called by a running server (`main` ends in
`log.Fatalf`, which skips deferred calls).

Where a writer is between two entries (`Done`) tells what became of the last
one: it is in the file at the session's path, it went into another file, the file
could not be opened or written, or the writer gave up.

It implements `AuditLog` (`EntriesAreKept`), where there are no handles, retries
or eviction: writes begin and end, deletions begin and end. There an entry may only be
lost, or given up, if its session was being deleted beside its write (`met`), or
lost if a write beside an earlier deletion opened the file between the two halves of
that deletion and what it opened is still open (`astray`). What has no name in
AuditLog (eviction collects, purges and finds that are tried again) is a stutter;
closing handles can only make less astray.

### 2.4 SessionManager

Touch is one step (it holds `Manager.mu` throughout); a removal holds `mu` over
several steps because requests work on the disk without it. Time is the one
bit the code distinguishes: not touched for the TTL (`"stale"`) or touched
since. `Restart` empties the map and leaves the disk. `excused`, `missing` and
`steady` are history variables: why an untracked session may be on disk,
which sessions the last Touch could not make a directory for, and whether the session
a ListSessions call looks at was tracked ever since.

The audit file is seen from here as a file a request makes or not; its handles
are in AuditWriter. `WorkspaceWork` is a request at work in the workspace, which
makes it if it is not there (`ensureSandboxWorkingDir`). That `resolveRoots`
also makes the directories of user and project data, which nothing ever removes,
is left out.

### 2.5 BashSessions

One key of the map: Exec, Output and Kill use `"default"` for every session,
and keys do not affect each other except by ending the server. An Exec
request, the session it puts in the map and its process have one name. `epc`
is where its handler, and for an asynchronous command afterwards its waiting
goroutine, stands. `ServerDies` is the end of the Go process by a panic in a
goroutine (waitCommand finds a session that CreateSession made, which has no
buffers; `WaiterPanics` for this key, `OtherPanics` for any other) or by the
runtime's check for a map read that races a write (`CreateShow`, which reads
the map without the lock while requests of any key may write it: an undefined
outcome, so a choice). The processes go with the server, because `bwrap` runs
with `--die-with-parent`.

### 2.6 CommandOutput

The two buffers of one command, the Output handler step by step (read, read,
length, length, status: five acquisitions of a lock or none), and a client that
polls with the offsets it is given until it is told the command has ended.
Output is counted in writes. The module is there for one question, whether all
output is given, and the code's answer is no (section 4).

### 2.7 SandboxPaths and FileHandler

`SandboxPaths` has no state: paths are sequences of names, and `Resolve`,
`Writable`, `Mounted` (what the order of `bwrap`'s mounts puts at a path),
`HostPath` (where the handlers believe it is) and `Display` are the functions
of the code on them. `PathsAgree` and `ShownPathsLead` compare them over all
paths of up to four components made of the four names that mean something and one
that does not.

`FileHandler` is the file API on these paths. A location is a directory of the
host and a path below it; `inode` says which file is there, and `data` what
each file there has been contains, so that a process that has a file open
goes on writing it after it was removed. `pc`, `job`, `file`, `fd`, `buffer`,
`pos`, `todo`, `found` are a request's place and its local state. Opening a file
(which may create or truncate it) and reading or writing a block are steps:
what the code sends is cut into blocks by `base64` and the pipe, so a request
writes two. `Cancel` is the client that goes away: the process is killed where it
is. `WriteFails` is a write that fails by itself (no space, a quota, a directory that
cannot be made), at any step of its script, which is answered with 500. Both leave
of the file what the process has made of it so far (`BreaksOff`), and `faults`
counts them. `Command` is a request of the bash or code handler: the working directory
is made on the host, the command finds it in its sandbox, and what the command
does is to remove a file, which is what the other requests can notice.

A search knows of a file what `find` prints of it, `path|size|mode|time|type`,
split at line breaks and at `|` (`parseFindLine`). `ReadAs` gives for each file
the path its line is taken for: its own if it is `Plain`; the beginning of the name,
as a path in the same directory, if there is a `|` in the name; none if what a
line break leaves makes no sense. So `Seen` can lack files that are there, have one
that is not, and give two files the same path. Find and grep also take a
file to search, and report it (`InScope`).

The history variables are `ideal` (what a file would hold had the requests on
it been atomic, `Unknown` once writes have overlapped or one has failed or was
killed, until it is next written whole),
`alone` and `safe` (requests that no other writer, no other overwriter has met),
`appended`, `steady` (files that a search must report) and `vanished`
(searches under whose `find` a file was removed).

### 2.8 ClientListCache and StaleReads

`StaleReads` is what callers of a cached list may rely on: whatever a call
answers was the server's list at some moment not longer ago than `Bound`.

`ClientListCache` is `SkillAgentList` and `SkillAgentCacheDelete` of one
client. `cache` is `agentListCache`, `flight` the requests of the singleflight
group with the callers that wait for them. A list is reduced to the time at
which the server made it and the number of deletions the server had carried out
for the agent by then. `Deleted` is the server's part of a deletion,
`Invalidate` the client's; `DeleteFails` between them is the lost answer, after
which the cache keeps its entries. `Tick` lets time pass but lets no request
outlast `http.Client.Timeout`. `since` and `invalidated`, and the mark `overlapped`
on requests and answers, are history: which deletion the caller could
know of, and whether one was in progress beside a request.

It implements `StaleReads` with `Bound` = TTL + Timeout (`AnswersAreRecent`):
`Hit` and `FlightEnds` are its Give, a failing request its Fail, and
everything about deletions is invisible to it.

### 2.9 Proofs

`SkillRegistryProofs`, `SkillSyncProofs`, `AuditWriterProofs`,
`SessionManagerProofs`, `BashSessionsProofs`, `SandboxPathsProofs`,
`FileHandlerProofs` and `ClientListCacheProofs` extend the module they are
about and TLAPS; `FileHandlerProofs` builds on `SandboxPathsProofs`, as the
modules do. See section 5.

## 3. The runs

All bounds are constants of the modules, named in their declarations.

| Run | Configuration | Instance | Shows |
|---|---|---|---|
| `registry` | MCSkillRegistry | 2 skills, 2 version ids, 2 contents, 1 client with a file operation in flight, 1 fault | TypeOK; ServedIsActive, ActiveIsListed, NamesAgree; ActiveVersionKept; RegistryIsStore (refinement) |
| `skill_sync` | MCSkillSync | 2 requests, 2 deployments or deletions (at 2 and 4), versions' own stamps of 1, 3 and 5, 1 cache deletion, 1 fault | TypeOK; WholeUnlessDisturbed, StampBetween; AnswersNeverGoBack |
| `skill_sync_live` | MCSkillSyncLive | 2 requests, 2 deployments, versions' own stamps of 3, no faults or cache deletions, fair | EveryRequestEnds, CacheCatchesUp |
| `skill_sync_stale` | MCSkillSyncStale | as above | *violated*: CurrentStampCurrentContent |
| `audit` | MCAuditWriter | 2 writers, 2 sessions, 4 handles, 2 deletions | AuditTypeOK; MappedIsOpen, NoLeakedHandle, StrayOnlyFromGap; EntriesAreKept (refinement) |
| `audit_gap` | MCAuditWriterGap | the same | *violated*: EntriesReachTheFile |
| `session` | MCSessionManager | 2 requests, 1 session, every kind of fault, any number of them, fair | SessionTypeOK; TrackedHasDir, NothingLeftBehind, SteadyIsListed, FlagMeansWorkspace; FreshSurvivesCleanup; ExpiredIsRemoved |
| `session_ttl` | MCSessionManagerTTL | the same, restarts only | *violated*: EverySessionExpires |
| `bash` | MCBashSessions | 2 commands, 1 CreateSession, any number of Kill and CloseSession | BashTypeOK; StrayWasOverwritten, EarlyMarkIsAnothers; EveryExecEnds, NoneRunsForEver |
| `output_skip` | MCCommandOutputSkip | 3 writes per stream, any number of polls | *violated*: NothingSkipped |
| `files` | MCFileHandler | 3 requests of any kind, 2 at a time, 3 files (`f`, `g\|h`, `g`), with and without user and project mounts, 1 client that goes away or write that fails, any number of removals by commands | FileTypeOK; UndisturbedIsSerial, AppendsAreKept, SteadyIsReported; MappedIsMounted, DisplayedReaches, PagesJoinUp |
| `client` | MCClientListCache | 2 callers, 2 keys of 1 agent, TTL and timeout of 1 each, time up to 3, 1 deletion carried out, any number of failures, fair | CacheTypeOK; OlderOnlyIfOverlapped; AnswersAreRecent (refinement); EveryCallReturns |

Why the bounds are enough to be interesting:

- *registry*: two names are what rename, copy and a deployment under another
  skill's name need; two version ids are an active and an inactive version, or
  a deleted and a new one; one fault reaches every failing step, with and
  without a rollback that works, and every kill,
  followed by any sequence of repairs. The theorems remove all three bounds.
- *skill_sync*: a mix of files needs two deployments, serialisation two
  requests; with a third actor, the cache deletion, all pairs of unlocked
  actors meet. The versions' own stamps are before, between and after the
  deployments'. `skill_sync_live` has neither faults nor cache deletions: its
  question is whether the lock and the comparison get everybody on, and what a
  fault leaves is a state that `skill_sync` reaches.
- *audit*: retrying twice against eviction needs one writer and handles that
  are closed and made again; a stray handle needs one deletion; two of
  everything let the wrong session's handle be dropped or purged.
- *session*: the map's entries are independent and all share one lock, so one
  session meets every interleaving except two sessions in one pass of cleanup
  (`todo` with two elements). That run is too large for TLC; the theorems of
  section 5 cover it, as they do any number of sessions.
- *bash*: a wrong mark needs two commands on one key; the third actor,
  CreateSession, is what makes a session without buffers.
- *output_skip*: three writes are more than one read can find in each gap.
- *files*: what one request can do to another needs two at a time; the third
  finds what the two left (a truncated file, a mix, an append kept). Three files
  are what a search needs for one to go and one to stay, and for a name (`g|h`) that
  reads like another file's (`g`), which may be there or not; the limits 1 and 3
  are below and above what there is to find. A directory is searched, and a
  file. At first there is only `g|h`; requests make `f`, and nothing makes `g`. The
  files are at a path
  that is another directory of the host with the project's mount than without
  it. Paths are checked against each other over all of `SomePaths`, which is
  independent of the instance. The slots are interchangeable, so they are
  a symmetry set; no liveness is checked in this run. The theorems of section 5
  remove all bounds, and that on the length of the paths.
- *client*: a hit, a shared request and an outdated answer need two callers, an
  invalidation that must drop more than one entry two keys, an entry that
  expires while another is fetched a time of three. The theorems of section 5
  remove all bounds.

Eight configurations state `CHECK_DEADLOCK FALSE` for a reason of the bounds: in
the registry version ids run out, in the sync deployments and cache deletions
do, in the bash and output models commands end and clients stop polling, the
files model ends after its three requests, and in the client's time stops.
The audit and session models never stop and are checked for deadlock.

Each property of a passing run has a mutant in `PROJECT.json`: a changed
definition (marked `MUTANT of` in the module, used by nothing else) that is
what a plausible bug would make of the code, under which TLC finds the property
violated. So none of them holds by the shape of its model.

### Fairness

Liveness is only stated with fairness the code's scheduling gives:

- SkillSync: goroutines that can run do run (weak fairness of the steps of
  a deployment, of a cache deletion and of each request), and a `sync.Mutex` is handed
  to every waiter in the end, since in starvation mode it is a queue (strong
  fairness of `Lock`). That requests come, or deployments, is not assumed.
- SessionManager: the ticker calls cleanup again and again, and a writer
  waiting for a `sync.RWMutex` blocks later readers, so it gets the lock (strong
  fairness of `CleanupBegin`); a removal that has begun goes on (weak fairness).
  Of requests nothing is assumed.
- BashSessions: deadlines pass, `exec.CommandContext` kills what outlives its
  context, and goroutines run on. Of commands (that they exit, that they mind a
  signal) and callers nothing is assumed.
- ClientListCache: a goroutine that can go on does (weak fairness of `Call`),
  and a request ends, by an answer or by `http.Client.Timeout` (weak fairness
  of `Request`). That anybody calls, that deletions end or that time passes
  otherwise is not assumed.

## 4. What the runs found

Four statements of the repository that the code does not keep, each the
subject of a run that TLC ends with a counterexample:

1. **A cache can hold old content under a new stamp** (`skill_sync_stale`,
   `handler/skill.go:478`, against README.md:295). A copy that overlaps a
   deployment takes SKILLS.md of the old one and `_meta.json` of the new one; the
   next comparisons find it current. `StampBetween` is the part that does hold:
   what comes after the stamp in the walk is never older than the stamp.
2. **Audit entries can go to a removed file** (`audit_gap`,
   `session/manager.go:420`, against audit/writer.go:91). A handle opened
   between CloseSession and `os.Remove` stays in the map; entries of later,
   unrelated requests of the session go there until it has been idle for five
   minutes. `StrayOnlyFromGap` says that there is no other way.
3. **Sessions survive their TTL across a restart** (`session_ttl`,
   `session/manager.go:55`, against README.md:482). Nothing on disk is tracked
   again until it is used.
4. **Output can be skipped** (`output_skip`, `handler/bash.go:367`, against
   client/bash.go:26). The offset is taken after the output, under another
   acquisition of the lock.

Not a contradiction of any document, but worth knowing: the cache need not
settle. A request that compares stamps while another one copies finds none, waits for
the lock and copies again, and so may the next one; `CacheCatchesUp` therefore
says that the store's stamp comes back again and again and that no older one
does, and not that it stays.

And it need not come: a copy beside a deployment can take the `_meta.json`
that came with the version (`registry.go:117` before 129). If that has a stamp
from the future, the cache counts as current, whatever is deployed, until that
time has come or the cache is deleted. README.md:295 ("refreshes outdated
cached copies") does not speak of such archives; `CacheCatchesUp` names this
as the one exception (`Misled`), and `StampBetween` is only about stamps that
deployments wrote.

The session manager's model contains, without a run of its own, that a
workspace may be used before it is there: TouchWorkspace sets the agent's flag
before the directories are made (`session/manager.go:304`), and a second request
that finds the flag goes ahead.

The file API promises nothing about requests that overlap, and the model shows
what they do: a write is not atomic, so a reader may see a file empty or half
written, writers may mix, and one of two edits may be lost; a client that goes
away in the middle, or a write that fails there, leaves a truncated file, and for
the second the answer is a 500. `UndisturbedIsSerial` and
`AppendsAreKept` are what holds all the same. More that the modules
contain and no document contradicts:

- If a file vanishes while `find` is at work, `find` fails. Glob answers 500;
  find, grep and the recursive list answer 200 with nothing, and so does the
  list of one directory, which takes the failure for a directory that is not
  there (`FindFails`).
- A file with a `|` or a line break in its name is not listed and not found.
  What is before the `|` is taken for a path instead: find, glob and the recursive list report
  it whether there is such a file or not, grep and the list of one directory look and leave
  it out if not (`Seen`, `StatEntry`).
- An append to a file in a directory that does not exist fails, where a write
  makes the directory (`Touch`, `OpenWrite`).
- Glob and grep say `truncated` when they have found exactly as many as asked
  for (`Truncated`).
- A start line behind the end of a file is ignored, so that the page behind the
  last is the whole file again (`PagesJoinUp` says so). An end line before
  the start line panics (file.go:197) and is answered by Gin's recovery with 500; no
  client of the repository asks for it.
- A path of the sandbox below `/home/home` or `/home/agents/skills` is shown in
  answers as one that leads to another file (`Misleading`).
- If the answer of a deletion is lost, the client's cache keeps the agent's
  lists until they expire (`DeleteFails`).

While modelling the bash handler, three more were met that no document of the
repository speaks about, and that the model contains: two Execs on one session
overwrite each other in the map (the first command can then only be ended by
its deadline, `StrayWasOverwritten`), a waiter marks another command's session
(`EarlyMarkIsAnothers`), and a nil dereference ends the server
(`WaiterPanics`).

## 5. What is proved

### The registry

`SkillRegistryProofs`, for every set of names, version ids, contents and
clients and every number of faults. The only assumption is
`RegistryAssumption`: the empty content is a content, `MaxFaults` is a natural
number, and the mark `Absent` is none of the values it stands for the absence of.

| Theorem | States |
|---|---|
| `TypeCorrect` | `Spec => []TypeOK` |
| `ServedIsActiveAlways` | `Spec => []ServedIsActive` |
| `ActiveIsListedAlways` | `Spec => []ActiveIsListed` |
| `NamesAgreeAlways` | `Spec => []NamesAgree` |
| `ActiveVersionAlwaysKept` | `Spec => ActiveVersionKept` |
| `RegistryAlwaysIsStore` | `Spec => RegistryIsStore`, that is `Spec => Store!Spec` |

`ServedIsActive` is not inductive. A new version's directory may be filled
without redeploying only because its id cannot be that of the active version;
that needs the ids in metadata to be ids handed out (`MetaInv`). Deploying
repairs the skill it was called for only if the metadata in its directory has
its name; after a rename or copy that was killed, or failed together with its
rollback, it has not, and the skill is tainted then (`NameInv`). And a skill
that is created or brought back by a file operation has no metadata only
because none is left where there is no directory (`MetaInv`). So the invariant
proved is

    RegistryInv == TypeOK /\ MetaInv /\ NameInv /\ ServedIsActive

The argument is laid out once for what handlers share (`DeployAndRecordKeeps`,
`RecordKeeps`, `AddVersionKeeps`, `ChangeVersionKeeps`, `RenameDoneKeeps`,
`DeleteDoneKeeps`, `DoubtKeeps` for steps that taint), and `RegistryStep` then
has one case per handler and, under it, one per way the handler ends. The
lemmas `MetaFrame`, `NameFrame` and `ServedFrame` say that the invariant need
only be looked at for the names a step touches. `ActiveIsListed` and
`NamesAgree` follow from the invariant; `ActiveVersionKept` is an action
property, proved by the same cases (`ActiveVersionStep`).

The refinement rests on the same invariant. `ServedIsActive` before and after a
step says that what agents are served is what the store offers
(`ServedIsOffered`), so `NextShows` need only follow metadata, files and taint.
Its cases end in one of five ways: names that the step wrote are tainted and
nothing else shows (`DoubtShows`, `FailureShows`); one skill that is known, or is
repaired, becomes what its metadata and files now say (`OneBecomes`, with
`PutShows` and `PublishShows` for the versions); a skill moves with its damage
(`MoveShows`); a deployment under another name's label damages that name
(`DeployShows`); or nothing shows.

### The audit writer

`AuditWriterProofs`, for every set of writers, sessions and handles and every
number of deletions. The assumption is `AuditAssumption`: `None` is no handle and
no session, and the bound on deletions is a natural number.

| Theorem | States |
|---|---|
| `AuditTypeCorrect` | `AuditSpec => []AuditTypeOK` |
| `MappedAlwaysOpen` | `AuditSpec => []MappedIsOpen` |
| `NoHandleEverLeaks` | `AuditSpec => []NoLeakedHandle` |
| `EvictionNeverLoses` | `AuditSpec => []EvictionLosesNothing` |
| `StrayOnlyEverFromGap` | `AuditSpec => []StrayOnlyFromGap` |

| `EntriesAlwaysKept` | `AuditSpec => EntriesAreKept`, that is `AuditSpec => Log!Spec` |

All follow from `AuditInv`. `MapInv` says that a handle in the map is open on the
file of its own session and that nobody is about to close it; with it, a purge
never takes an open handle out of the map, so nothing leaks. `GapInv` says that
once a deletion has taken the session's handle, one that is found in the map was
opened in the gap. `RetryInv` is the argument for two attempts: a writer that no
deletion overlaps can lose a handle only to eviction, and only one that was idle
when it got it; what it gets next is not idle and cannot become idle while
somebody writes to the session, so it is not evicted.

The refinement needs two more parts. `HandInv`: the handle a writer has got is
open on the file of its own session, or closed for good, and that file has
left the path only by a deletion beside the write or because the handle is
from the gap. `LinkInv`: a handle from the gap is open, and keeps its file
only until that deletion removes it. `NextShows` then has one case per action:
a step of AuditLog, or one that changes nothing it sees (`GapsKept`,
`OutcomesKept`, `ReturnShows`).

### The client's cache

`ClientListCacheProofs`, for every set of callers, keys and agents, every TTL
and timeout, and every bound on time and deletions. The assumptions are
`CacheAssumption` (every key has an agent, times and bounds are natural numbers) and
`NoneAssumption` (the mark `None` is no entry, request, answer or number).

| Theorem | States |
|---|---|
| `CacheTypeCorrect` | `Spec => []CacheTypeOK` |
| `AnswersRecent` | `Spec => AnswersAreRecent`, that is `Spec => Reads!Spec` |
| `OldAnswersOverlapped` | `Spec => []OlderOnlyIfOverlapped` |

`Typed` adds to the types whom the state is about: a caller that lists has a key,
one that deletes an agent, and the callers in a request wait for its key.

The refinement needs that a hit is recent, which the entry's expiry alone does
not say. `Recent` adds that an entry expires no later than TTL + Timeout
after the server made its list (`CacheRecent`), which holds when it is stored
because a request is at most Timeout old and its list no older than the request
(`FlightRecent`). `NextReads` then maps each action to a step of StaleReads
(`Giving`, `Quiet`) or to a stutter.

`OlderOnlyIfOverlapped` looks only at the last step, and is not inductive. `Marked`
says where the cause is kept until then: no invalidation is ahead of the server
and no list began after one that is still to come (`Counted`); a request beside
which a deletion is running has the mark, and a request without it has a list from
after the latest invalidation (`FlightsMarked`); so has an entry without the mark
(`EntriesMarked`), since an invalidation drops the others.

### The skill sync

`SkillSyncProofs`, for every set of requests, all times of deployments, all
stamps that versions bring and every number of cache deletions and faults. The
assumption is `SyncAssumption`: `None` is no request, times and stamps are positive
and different, and the bounds are natural numbers.

| Theorem | States |
|---|---|
| `SyncTypeCorrect` | `Spec => []TypeOK` |
| `StampedAlwaysWhole` | `Spec => []WholeUnlessDisturbed` |
| `StampAlwaysBetween` | `Spec => []StampBetween` |
| `AnswersAlwaysGoForward` | `Spec => AnswersNeverGoBack` |

None of the three is inductive: a copy that is about to go wrong has its cause in
the hands of a request, or in the store. `LockInv` says that only the holder of
`SkillHandler.mu` has files listed and content in hand; `StoreInv` what a deployment
has done at each of its steps, so that all content of the store is of one
deployment; `SeenInv` that nothing read from the store is newer than what the
store has, or will have again; `AheadInv` that the files a copy has not come to
are empty; and `HandInv` that the content in hand is no older than what the copy
wrote before it. The last two are `StampBetween` in the middle of a copy.
`UndisturbedInv` says how far an undisturbed copy is equal to the store. That
answers go forward is an action property: an answer is read from the cache,
which is no older than any answer (`AnswerInv`), and the first file a new
copy has in hand is no older either (`HandInv`).

### The session manager

`SessionManagerProofs`, for every set of requests and sessions and every choice
of faults, any number of each. The assumption is `SessionAssumption`: `None` is
neither a session nor a time, and the faults are among the three there are.

| Theorem | States |
|---|---|
| `SessionTypeCorrect` | `Spec => []SessionTypeOK` |
| `TrackedAlwaysHasDir` | `Spec => []TrackedHasDir` |
| `NothingIsLeftBehind` | `Spec => []NothingLeftBehind` |
| `SteadyIsAlwaysListed` | `Spec => []SteadyIsListed` |
| `FlagAlwaysMeansWorkspace` | `Spec => []FlagMeansWorkspace` |
| `FreshAlwaysSurvives` | `Spec => FreshSurvivesCleanup` |

`SessionInv` adds what the removal knows between its steps, with the lock held: what
cleanup has still to remove has expired and stays so (`CleanupInv`, from which the
action property follows), and a directory that is there between the two halves of
its removal is accounted for (`VictimInv`). `ListInv` is the middle of a
ListSessions, between the disk and the map. The theorems are about any number of
sessions in one pass of cleanup, which no run reaches.

### The bash handler

`BashSessionsProofs`, for every set of commands and creations of one key. The
assumption is `BashAssumption`: commands and creations are different things, and
`None` is neither.

| Theorem | States |
|---|---|
| `BashTypeCorrect` | `Spec => []BashTypeOK` |
| `StrayAlwaysWasOverwritten` | `Spec => []StrayWasOverwritten` |
| `EarlyMarkIsAlwaysAnothers` | `Spec => []EarlyMarkIsAnothers` |

A waiter that goes on to mark has seen its own process end (`WaiterInv`), and a
command that is not in the map yet is found, killed and marked by nobody
(`BeforeInsertInv`): without that, a CloseSession could pick up a command before it
is started, and leave it behind.

### The paths

`SandboxPathsProofs`, for every path. Nothing is assumed.

| Theorem | States |
|---|---|
| `HostPathIsMounted` | for all roots and paths, `HostPath(roots, path) = Mounted(roots, path)` |
| `ShownLeadsBack` | for what is found below a path that was asked for, `Resolve(Display(...))` is the path itself exactly if it is not `Misleading` |
| `PathsAlwaysAgree`, `ShownPathsAlwaysLead` | `PathsAgree` and `ShownPathsLead`, which the run evaluates for short paths |

The first compares two algorithms: bwrap's, which sorts the mounts and lets the last
that covers a path win, and the handlers', which test prefixes in an order that
must be the reverse of it. Sorting is what it promises (`SortedByDest`: the same
mounts, none after one with a longer destination); for the mounts of a request,
whose destinations differ in length, that is one order only (`SortedOne`,
`SortedTwo`, `SortedThree`).

### The file API

`FileHandlerProofs`, for every set of slots, paths, mounts, places and limits,
every number of requests and of writes that fail or clients that go away. The
assumptions are `FileAssumption` (paths are sequences of strings, the files
there may be are at finitely many places, mounts are roots, limits are
positive), `FindAssumption` (a line of `find` is taken for nothing or for a
path in the same directory, and what is asked to be searched has a plain name)
and `DiskAssumption` (finitely many files at first, each below its root by a
sequence of strings; the marks `None` and `Unknown` are no content, and `None`
is no number).

| Theorem | States |
|---|---|
| `FileTypeCorrect` | `Spec => []FileTypeOK` |
| `UndisturbedAlwaysSerial` | `Spec => []UndisturbedIsSerial` |
| `AppendsAlwaysKept` | `Spec => []AppendsAreKept` |
| `SteadyAlwaysReported` | `Spec => []SteadyIsReported` |
| `MappedAlwaysMounted` | `Spec => []MappedIsMounted` |
| `DisplayedAlwaysReaches` | `Spec => []DisplayedReaches` |
| `PagesAlwaysJoinUp` | `Spec => []PagesJoinUp` |

The invariant is

    FileInv == ShapeInv /\ StageInv /\ IdInv /\ InodeInv /\ DirInv /\ FoundInv
                 /\ AppendInv /\ SerialInv /\ AloneInv
                 /\ TreeInv /\ SteadyInv

`ShapeInv` has the types and `StageInv` what a request has at each step of its
operation; together they give `FileTypeOK`. `IdInv` says that no request shares
its number and that no file has blocks of a request that is still to come, and
`InodeInv` that a request has open the file of its own location or one that was
removed, so that what it writes is in no other.

`AppendInv` is the argument for appends: of an append whose file nobody has
overwritten, the file has as many blocks as the request knows to have written,
and of one that was answered it has both. A block of another request changes
neither number, because it has another id; adding one block adds one to the
number of its own (`TimesCounted`, the one place where blocks are counted).

`SerialInv` and `AloneInv` are the argument for requests that nobody disturbs.
They are proved together: a file that no writer has touched yet is what atomic
requests would have left (`SerialInv`), so what an undisturbed request reads
is that; and how much of its effect is in the file at each of its steps
(`AloneOf`), so that the file is what `Effect` says when it is answered. That
a request is alone means that no other is writing its file, now or since it
began, which every beginning of a writer makes true of itself and false of the
others (`UsersBegin`).

`SteadyInv` follows a file that was there all along, and whose name find's
output gives, through a search: it stands (`Stands`), and the search has it
still to do, in hand or found (`Pursued`). One way to lose it is a search that
finds no directory (`FindFails`), which answers nothing. That it cannot have
missed a file is `TreeInv`: every file there is, or that an append is about to
open, is in a directory, and directories have parents; and the directory that
is searched is one of those parents, because what is between a path and its
mount is in that mount (`SandboxPathsProofs`, `SameMount`), or it is the home
directory, which is always there (`SearchedDir`). Other names do no harm to
it: what they are misread as is one path more to look at (`SeenIsThere`,
`StandsSeen`).

That pages join up (`PagesJoin`) is an induction over the pages. `FlattenSeq`,
which joins them in the property, is recursive: `FlattenIs` shows that its
recursion has one solution only, because two differ first at a least place and
there the equation says they agree, so that it may be replaced by the function
that is built page by page.

Steps are first sorted by what they do (`Kinds`, `NextCases`; `FilesChange`,
`FileSteps` for the files), and one request's step leaves the others
where they are (`OthersAreSame`), so that each invariant has one lemma for the
request that makes the step and one for the rest.

### Only model-checked

- The liveness properties: `EveryRequestEnds`, `CacheCatchesUp`,
  `ExpiredIsRemoved`, `EveryExecEnds`, `NoneRunsForEver` and
  `EveryCallReturns`. Fairness is out of TLAPS's reach. Every other property
  of a passing run is a theorem.

## 6. What is not modelled, and why

- File handler: which names and lines a glob or a regular expression means (a
  line matches or it does not), encodings, permissions and symbolic links; so
  also reads, and calls of `find`, that fail for another reason than that there is
  nothing (any more); directories with a `|` or a line break in their names; the
  rest of a name after a line break, which find and glob report as a path without a
  directory; and how often: what a search has found is a set, so files whose names are
  read alike are in it once and count once against `max_results`, where the code
  counts each; and
  `MkdirAll` and `Lstat` of the operator, which no handler calls.
- Command executor: the read-only directories of the system, runtime paths and
  environment variables it adds to every command line.
- Path resolution of the session manager (ResolvePath, EnsureDir): called by no handler.
- Client: methods that are one HTTP call and keep nothing.
- Audit: extraction of ids, redaction and truncation of bodies, pagination of
  the log.
- User and project data managers, authentication, sandbox information,
  start-up: idempotent, stateless or read-only.
- Skill sync: the user's layer of skills, which is only read, and the parsing
  of frontmatter.
- Read-only registry handlers (get, list, tree, read, export); descriptions
  and the time stamps of versions; collisions of generated version ids
  (they carry a random suffix); clocks that are set back.
- Bash: writing to stdin, and ListSessions, which only reads.

## 7. Plan

Done, in order of weight: SkillRegistry, SkillSync, AuditWriter,
SessionManager, BashSessions, SandboxPaths, FileHandler and ClientListCache,
each with its proofs, and CommandOutput; the abstract specifications SkillStore,
AuditLog and StaleReads, each implemented by its component and the refinement
proved.

Left: an abstract specification of the session manager, a set of sessions
from which only the expired are removed, which SessionManager would implement
only while nothing but its own removals fails; and clocks, so that
version ids may collide and stamps go back (the two hazards without a property).
