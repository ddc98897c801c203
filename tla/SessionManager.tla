--------------------------- MODULE SessionManager ---------------------------
(***************************************************************************)
(* The session manager (session/manager.go) under concurrent requests:     *)
(* which session directories and audit files exist, which sessions are     *)
(* tracked for the TTL, and what deletion, cleanup and a restart leave.    *)
(*                                                                         *)
(* Manager.mu makes Touch one step.  A removal holds it over several       *)
(* steps, because requests work in directories, and write audit entries,   *)
(* without it.  The audit writer is seen from here as a file that a        *)
(* request creates; AuditWriter has its handles.                           *)
(***************************************************************************)
EXTENDS FiniteSets

CONSTANTS
  Requests,     \* request handlers
  Sessions,     \* session keys, agentID/sessionID, of one agent
  None,
  Faults        \* what may go wrong: "restart", "mkdir", "remove"

ASSUME SessionAssumption ==
  /\ None \notin Sessions \cup {"fresh", "stale"}
  /\ Faults \subseteq {"restart", "mkdir", "remove"}

VARIABLES
  access,       \* accessTime: None, "fresh", or "stale" once the TTL is over
  dir,          \* session -> its directory exists
  auditFile,    \* session -> its audit file exists
  mu,           \* holder of Manager.mu between steps
  todo,         \* sessions the holder has still to remove
  victim,       \* session whose directory the holder has just removed
  leaving,      \* session a DELETE request found, and waits for mu to remove
  rpc,          \* request -> what it does next
  rsession,     \* request -> its session
  workspaceInited,  \* the agent's workspace is set up, or being set up
  workspace,        \* the agent's workspace directory exists
  lpc,          \* the ListSessions call: what it does next
  looked,       \* a session it may list
  listed,       \* how it lists that one: None, "zero" or "time"
  missing,      \* sessions whose last Touch could not make the directory
  excused,      \* untracked sessions with a known reason to be on disk
  steady        \* the session looked at was tracked ever since

manager == <<access, mu, todo, victim, leaving>>
requests == <<rpc, rsession>>
workspaces == <<workspaceInited, workspace>>
listing == <<lpc, looked, listed>>
vars == <<manager, dir, auditFile, requests, workspaces, listing, missing,
          excused, steady>>

SessionTypeOK ==
  /\ access \in [Sessions -> {None, "fresh", "stale"}]
  /\ dir \in [Sessions -> BOOLEAN] /\ auditFile \in [Sessions -> BOOLEAN]
  /\ mu \in {"free", "delete", "cleanup"}
  /\ todo \subseteq Sessions /\ victim \in todo \cup {None}
  /\ mu = "free" <=> todo = {}
  /\ leaving \in Sessions \cup {None}
  /\ rpc \in [Requests ->
       {"idle", "touch", "work", "flag", "make", "workspace", "audit"}]
  /\ rsession \in [Requests -> Sessions \cup {None}]
  /\ workspaceInited \in BOOLEAN /\ workspace \in BOOLEAN
  /\ lpc \in {"idle", "merge", "done"}
  /\ looked \in Sessions \cup {None}
  /\ listed \in {None, "zero", "time"} /\ steady \in BOOLEAN
  /\ missing \subseteq Sessions /\ excused \subseteq Sessions

Init ==
  /\ access = [s \in Sessions |-> None]
  /\ dir = [s \in Sessions |-> FALSE]
  /\ auditFile = [s \in Sessions |-> FALSE]
  /\ mu = "free" /\ todo = {} /\ victim = None /\ leaving = None
  /\ rpc = [r \in Requests |-> "idle"]
  /\ rsession = [r \in Requests |-> None]
  /\ workspaceInited = FALSE /\ workspace = FALSE
  /\ lpc = "idle" /\ looked = None /\ listed = None /\ steady = FALSE
  /\ missing = {} /\ excused = {}

Tracked == {s \in Sessions : access[s] # None}

(* Something is made for s on disk: if s is not tracked, or is just being  *)
(* removed, this is why it may stay there.                                 *)
Leave(s) ==
  excused' = IF s \in Tracked \ todo THEN excused ELSE excused \cup {s}

-----------------------------------------------------------------------------
(* Requests.                                                               *)

Goto(r, pc) == rpc' = [rpc EXCEPT ![r] = pc]

(* A request for session s arrives.  It touches the session, works in the  *)
(* workspace instead (enable_agent_workspace), or touches neither: it is   *)
(* refused, or is one of those that only look at a running command.        *)
RequestBegin(r, s) ==
  /\ rpc[r] = "idle"
  /\ \E pc \in {"touch", "flag", "audit"} : Goto(r, pc)
  /\ rsession' = [rsession EXCEPT ![r] = s]
  /\ UNCHANGED <<manager, dir, auditFile, workspaces, listing, missing, excused,
                 steady>>

NoLock == TRUE  \* MUTANT of CanLock: Touch does not wait for Manager.mu

CanLock == mu = "free"

(* Touch: track the session, then make its directory; a failure is logged. *)
Touch(r) ==
  LET s == rsession[r] IN
  /\ rpc[r] = "touch" /\ CanLock
  /\ access' = [access EXCEPT ![s] = "fresh"]
  /\ \/ dir' = [dir EXCEPT ![s] = TRUE] /\ missing' = missing \ {s}
     \/ "mkdir" \in Faults /\ ~dir[s] /\ dir' = dir /\ missing' = missing \cup {s}
  /\ excused' = excused \ {s}
  /\ Goto(r, "work")
  /\ UNCHANGED <<mu, todo, victim, leaving, auditFile, rsession, workspaces,
                 listing, steady>>

(* The handler works in the session, with no lock: it may make a directory *)
(* there, with its parents (ensureSandboxWorkingDir).                      *)
Work(r) ==
  /\ rpc[r] = "work"
  /\ \/ dir' = [dir EXCEPT ![rsession[r]] = TRUE] /\ Leave(rsession[r])
     \/ UNCHANGED <<dir, excused>>
  /\ Goto(r, "audit")
  /\ UNCHANGED <<manager, auditFile, rsession, workspaces, listing, missing,
                 steady>>

(* AuditLogger, after the handler: WriteEntry appends to the session's     *)
(* file, which it creates, or to one that was just removed, or fails.      *)
Audit(r) ==
  LET s == rsession[r] IN
  /\ rpc[r] = "audit"
  /\ \/ /\ auditFile' = [auditFile EXCEPT ![s] = TRUE]
        /\ Leave(s)
     \/ UNCHANGED <<auditFile, excused>>
  /\ Goto(r, "idle")
  /\ rsession' = [rsession EXCEPT ![r] = None]
  /\ UNCHANGED <<manager, dir, workspaces, listing, missing, steady>>

-----------------------------------------------------------------------------
(* TouchWorkspace.                                                         *)

(* LoadOrStore: only the request that sets the flag makes the directories. *)
WorkspaceFlag(r) ==
  /\ rpc[r] = "flag"
  /\ workspaceInited' = TRUE
  /\ Goto(r, IF workspaceInited THEN "workspace" ELSE "make")
  /\ UNCHANGED <<manager, dir, auditFile, rsession, workspace, listing, missing,
                 excused, steady>>

FlagStays == workspaceInited  \* MUTANT of FlagAfterFailure: it is not taken back

(* The flag when one of the directories, the workspace or that for the     *)
(* agent's skills, could not be made: it is deleted.                       *)
FlagAfterFailure == FALSE

WorkspaceMake(r) ==
  /\ rpc[r] = "make"
  /\ \/ workspace' = TRUE /\ UNCHANGED workspaceInited
     \/ /\ "mkdir" \in Faults /\ workspace' \in {workspace, TRUE}
        /\ workspaceInited' = FlagAfterFailure
  /\ Goto(r, "workspace")
  /\ UNCHANGED <<manager, dir, auditFile, rsession, listing, missing, excused,
                 steady>>

(* The same, in the workspace.                                             *)
WorkspaceWork(r) ==
  /\ rpc[r] = "workspace"
  /\ workspace' \in {workspace, TRUE}
  /\ Goto(r, "audit")
  /\ UNCHANGED <<manager, dir, auditFile, rsession, workspaceInited, listing,
                 missing, excused, steady>>

-----------------------------------------------------------------------------
(* Removal: the DELETE handler and the cleanup loop.                       *)

(* The handler first looks, without the lock, whether the directory is     *)
(* there (Exists).                                                         *)
DeleteRequested(s) ==
  /\ dir[s] /\ leaving = None
  /\ leaving' = s
  /\ UNCHANGED <<access, mu, todo, victim, dir, auditFile, requests,
                 workspaces, listing, missing, excused, steady>>

DeleteBegin(s) ==
  /\ s = leaving /\ mu = "free"
  /\ mu' = "delete" /\ todo' = {s} /\ leaving' = None
  /\ UNCHANGED <<access, victim, dir, auditFile, requests, workspaces, listing,
                 missing, excused, steady>>

WholeMap == Tracked  \* MUTANT of Expired: the TTL is not looked at

(* The sessions not touched for the TTL.                                   *)
Expired == {s \in Sessions : access[s] = "stale"}

CleanupBegin ==
  /\ mu = "free" /\ Expired # {}
  /\ mu' = "cleanup" /\ todo' = Expired
  /\ UNCHANGED <<access, victim, leaving, dir, auditFile, requests, workspaces,
                 listing, missing, excused, steady>>

(* CloseSession and RemoveAll(SessionRoot), whose error is ignored.        *)
RemoveDir(s) ==
  /\ s \in todo /\ victim = None
  /\ victim' = s
  /\ \/ dir' = [dir EXCEPT ![s] = FALSE] /\ UNCHANGED excused
     \/ "remove" \in Faults /\ dir[s] /\ UNCHANGED dir /\ Leave(s)
  /\ UNCHANGED <<access, mu, todo, leaving, auditFile, requests, workspaces,
                 listing, missing, steady>>

ForgetsUnlock == "cleanup"  \* MUTANT of Unlocked: an early return keeps mu

Unlocked == "free"

KeepsEntry(s) == access  \* MUTANT of Forgotten: the session stays in the map

(* accessTime without s.                                                   *)
Forgotten(s) == [access EXCEPT ![s] = None]

(* Remove(AuditPath), whose error is ignored, and delete(accessTime);      *)
(* after the last session, the lock is released.                           *)
RemoveFile ==
  /\ victim # None
  /\ \/ auditFile' = [auditFile EXCEPT ![victim] = FALSE]
     \/ "remove" \in Faults /\ UNCHANGED auditFile
  /\ access' = Forgotten(victim)
  /\ todo' = todo \ {victim} /\ victim' = None
  /\ mu' = IF todo' = {} THEN Unlocked ELSE mu
  /\ steady' = (steady /\ victim # looked)
  /\ missing' = missing \ {victim}
  /\ excused' = IF auditFile'[victim] THEN excused \cup {victim}
                ELSE IF dir[victim] THEN excused ELSE excused \ {victim}
  /\ UNCHANGED <<leaving, dir, requests, workspaces, listing>>

-----------------------------------------------------------------------------
(* ListSessions; the entries are independent, so one session stands for    *)
(* all.                                                                    *)

(* The directories, read without the lock.                                 *)
ListScan(s) ==
  /\ lpc = "idle"
  /\ lpc' = "merge" /\ looked' = s
  /\ listed' = IF dir[s] THEN "zero" ELSE None
  /\ steady' = (s \in Tracked)
  /\ UNCHANGED <<manager, dir, auditFile, requests, workspaces, missing, excused>>

(* MUTANT of Merged: the map only adds to what was found on disk.          *)
DiskWins == IF looked \in Tracked /\ listed = None THEN "time" ELSE listed

(* The access times override what was found on disk.                       *)
Merged == IF looked \in Tracked THEN "time" ELSE listed

ListMerge ==
  /\ lpc = "merge" /\ mu = "free"
  /\ lpc' = "done" /\ listed' = Merged
  /\ UNCHANGED <<manager, dir, auditFile, requests, workspaces, looked, missing,
                 excused, steady>>

ListEnd ==
  /\ lpc = "done"
  /\ lpc' = "idle" /\ looked' = None /\ listed' = None /\ steady' = FALSE
  /\ UNCHANGED <<manager, dir, auditFile, requests, workspaces, missing, excused>>

-----------------------------------------------------------------------------
(* The TTL of a session passes: 24 hours without a Touch.                  *)
TimePasses(s) ==
  /\ access[s] = "fresh"
  /\ access' = [access EXCEPT ![s] = "stale"]
  /\ UNCHANGED <<mu, todo, victim, leaving, dir, auditFile, requests, workspaces,
                 listing, missing, excused, steady>>

(* The process ends and starts again: NewManager makes an empty map and    *)
(* looks at nothing on disk.                                               *)
Restart ==
  /\ "restart" \in Faults
  /\ access' = [s \in Sessions |-> None]
  /\ mu' = "free" /\ todo' = {} /\ victim' = None /\ leaving' = None
  /\ rpc' = [r \in Requests |-> "idle"]
  /\ rsession' = [r \in Requests |-> None]
  /\ workspaceInited' = FALSE
  /\ lpc' = "idle" /\ looked' = None /\ listed' = None /\ steady' = FALSE
  /\ excused' = {s \in Sessions : dir[s] \/ auditFile[s]}
  /\ missing' = {}
  /\ UNCHANGED <<dir, auditFile, workspace>>

RequestStep(r) ==
  \/ Touch(r) \/ Work(r) \/ Audit(r)
  \/ WorkspaceFlag(r) \/ WorkspaceMake(r) \/ WorkspaceWork(r)

RemoveStep == RemoveFile \/ \E s \in Sessions : RemoveDir(s)

Next ==
  \/ \E r \in Requests, s \in Sessions : RequestBegin(r, s)
  \/ \E r \in Requests : RequestStep(r)
  \/ \E s \in Sessions :
       DeleteRequested(s) \/ DeleteBegin(s) \/ TimePasses(s) \/ ListScan(s)
  \/ CleanupBegin \/ RemoveStep
  \/ ListMerge \/ ListEnd
  \/ Restart

Spec == Init /\ [][Next]_vars

(* The ticker calls cleanup again and again, and a goroutine waiting for a *)
(* sync.RWMutex gets it in the end, however often others take it.          *)
FairSpec == Spec /\ WF_vars(RemoveStep) /\ SF_vars(CleanupBegin)

-----------------------------------------------------------------------------
(* A tracked session has its directory, unless its removal is under way or *)
(* Touch failed to make it: the map and the disk change together although  *)
(* a removal takes several steps (manager.go:276-297, 417-432).            *)
TrackedHasDir ==
  \A s \in Tracked \ todo : dir[s] \/ s \in missing

(* What a removal leaves on disk without an entry in the map, which the    *)
(* TTL then never removes, has a known reason: a restart, a removal that   *)
(* failed, or a request that made a directory or wrote its audit entry     *)
(* while or after the session was removed.                                 *)
NothingLeftBehind ==
  \A s \in Sessions \ Tracked : dir[s] \/ auditFile[s] => s \in excused

(* The cleanup loop removes only what was not touched for the TTL: a Touch *)
(* cannot slip in between the check of the time and the removal            *)
(* (manager.go:449-463).                                                   *)
FreshSurvivesCleanup ==
  [][\A s \in Sessions :
       mu = "cleanup" /\ dir[s] /\ ~dir'[s] => access[s] = "stale"]_vars

(* A session tracked throughout a call of ListSessions is listed with its  *)
(* access time, although the disk and the map are read one after the other *)
(* (manager.go:370-390).                                                   *)
SteadyIsListed ==
  lpc = "done" /\ steady => listed = "time"

(* A set flag means that the workspace is there or that a request is about *)
(* to make it: a TouchWorkspace that fails leaves no flag behind that      *)
(* would keep every later one from trying (manager.go:303-325).            *)
FlagMeansWorkspace ==
  workspaceInited => workspace \/ \E r \in Requests : rpc[r] = "make"

(* An expired session does not stay: it is removed, or touched again.      *)
ExpiredIsRemoved ==
  \A s \in Sessions : access[s] = "stale" ~> access[s] # "stale"

(* README.md:482 "Each session gets a fresh, isolated filesystem that is   *)
(* automatically cleaned up after the TTL expires": a session's directory  *)
(* is removed unless the session is used again and again.                  *)
EverySessionExpires ==
  \A s \in Sessions : dir[s] ~> ~dir[s] \/ access[s] = "fresh"
=============================================================================
