------------------------ MODULE SessionManagerProofs ------------------------
(***************************************************************************)
(* Theorems about SessionManager, for any requests and sessions and any of *)
(* the faults: the invariants of the runs, and that the cleanup loop       *)
(* removes only what has expired.                                          *)
(***************************************************************************)
EXTENDS SessionManager, TLAPS

(* A request that goes on has a session.                                   *)
RequestInv ==
  \A r \in Requests : rpc[r] # "idle" => rsession[r] \in Sessions

(* What the cleanup loop still has to remove was expired when the lock was *)
(* taken, and is so until it is removed: nobody touches it meanwhile.      *)
CleanupInv ==
  mu = "cleanup" => \A s \in todo : access[s] = "stale"

(* Between the two halves of a removal: a directory that is there was left *)
(* or made again meanwhile, and is accounted for.                          *)
VictimInv ==
  victim # None /\ dir[victim] => victim \in excused

(* A ListSessions that has read the disk, of a session tracked ever since. *)
ListInv ==
  lpc = "merge" /\ steady => looked \in Tracked

SessionInv ==
  /\ SessionTypeOK /\ RequestInv /\ CleanupInv /\ VictimInv /\ ListInv
  /\ TrackedHasDir /\ NothingLeftBehind /\ SteadyIsListed /\ FlagMeansWorkspace

-----------------------------------------------------------------------------

(* Nothing is tracked, nothing is on disk, and nobody is at work.          *)
LEMMA InitInv == Init => SessionInv
BY SessionAssumption DEF Init, SessionInv, SessionTypeOK, RequestInv,
   CleanupInv, VictimInv, ListInv, TrackedHasDir, NothingLeftBehind,
   SteadyIsListed, FlagMeansWorkspace, Tracked

(* Every action keeps the invariant.                                       *)
LEMMA NextInv ==
  ASSUME SessionInv, [Next]_vars
  PROVE  SessionInv'
<1>0. None \notin Sessions \cup {"fresh", "stale"}
  BY SessionAssumption
<1> USE <1>0
<1>1. ASSUME NEW r \in Requests, NEW s \in Sessions, RequestBegin(r, s)
      PROVE  SessionInv'
  <2>1. /\ CleanupInv' /\ VictimInv' /\ ListInv' /\ TrackedHasDir'
        /\ NothingLeftBehind' /\ SteadyIsListed'
    BY <1>1 DEF SessionInv, CleanupInv, VictimInv, ListInv, TrackedHasDir,
       NothingLeftBehind, SteadyIsListed, Tracked, manager, listing,
       RequestBegin
  <2>2. SessionTypeOK'
    BY <1>1 DEF SessionInv, SessionTypeOK, manager, workspaces, listing,
       RequestBegin, Goto
  <2>3. RequestInv'
    BY <1>1 DEF SessionInv, SessionTypeOK, RequestInv, RequestBegin, Goto
  <2>4. FlagMeansWorkspace'
    BY <1>1 DEF SessionInv, FlagMeansWorkspace, workspaces, RequestBegin,
       Goto
  <2> QED
    BY <2>1, <2>2, <2>3, <2>4 DEF SessionInv
<1>2. ASSUME NEW r \in Requests, Touch(r)
      PROVE  SessionInv'
  <2>1. SteadyIsListed'
    BY <1>2 DEF SessionInv, SteadyIsListed, listing, Touch
  <2>2. SessionTypeOK'
    BY <1>2 DEF SessionInv, SessionTypeOK, RequestInv, manager, requests,
       workspaces, listing, Touch, Goto, CanLock
  <2>3. RequestInv'
    BY <1>2 DEF SessionInv, RequestInv, Touch, Goto
  <2>4. CleanupInv'
    BY <1>2 DEF CleanupInv, Touch, CanLock
  <2>5. VictimInv'
    BY <1>2 DEF SessionInv, SessionTypeOK, VictimInv, Touch, CanLock
  <2>6. ListInv'
    BY <1>2 DEF SessionInv, ListInv, Tracked, listing, Touch
  <2>7. TrackedHasDir'
    BY <1>2 DEF SessionInv, SessionTypeOK, TrackedHasDir, Tracked, Touch
  <2>8. NothingLeftBehind'
    BY <1>2 DEF SessionInv, SessionTypeOK, NothingLeftBehind, Tracked, Touch
  <2>9. FlagMeansWorkspace'
    BY <1>2 DEF SessionInv, FlagMeansWorkspace, workspaces, Touch, Goto
  <2> QED
    BY <2>1, <2>2, <2>3, <2>4, <2>5, <2>6, <2>7, <2>8, <2>9 DEF SessionInv
<1>3. ASSUME NEW r \in Requests, Work(r)
      PROVE  SessionInv'
  <2>1. /\ dir' \in [Sessions -> BOOLEAN]
        /\ \A s \in Sessions : dir[s] => dir'[s]
    BY <1>3 DEF Work, SessionInv, SessionTypeOK
  <2>2. excused' \subseteq Sessions
    BY <1>3 DEF Work, Leave, SessionInv, SessionTypeOK, RequestInv
  <2>3. /\ rpc' = [rpc EXCEPT ![r] = "audit"] /\ rpc[r] = "work"
        /\ UNCHANGED <<manager, auditFile, rsession, workspaces, listing,
                       missing, steady>>
    BY <1>3 DEF Work, Goto
  <2>4. CleanupInv' /\ ListInv' /\ SteadyIsListed'
    BY <2>3 DEF SessionInv, CleanupInv, ListInv, SteadyIsListed, Tracked,
       manager, listing
  <2>5. SessionTypeOK'
    BY <2>1, <2>2, <2>3 DEF SessionInv, SessionTypeOK, manager, workspaces,
       listing
  <2>6. RequestInv'
    BY <2>3 DEF SessionInv, RequestInv
  <2>7. VictimInv'
    BY <1>3 DEF SessionInv, SessionTypeOK, VictimInv, manager, Work, Leave
  <2>8. TrackedHasDir'
    BY <2>1, <2>3 DEF SessionInv, TrackedHasDir, Tracked, manager
  <2>9. NothingLeftBehind'
    BY <2>1, <1>3 DEF SessionInv, NothingLeftBehind, Tracked, manager, Work,
       Leave
  <2>10. FlagMeansWorkspace'
    BY <2>3 DEF SessionInv, FlagMeansWorkspace, workspaces
  <2> QED
    BY <2>4, <2>5, <2>6, <2>7, <2>8, <2>9, <2>10 DEF SessionInv
<1>4. ASSUME NEW r \in Requests, Audit(r)
      PROVE  SessionInv'
  <2>1. auditFile' \in [Sessions -> BOOLEAN]
    BY <1>4 DEF Audit, SessionInv, SessionTypeOK
  <2>2. excused' \subseteq Sessions
    BY <1>4 DEF Audit, Leave, SessionInv, SessionTypeOK, RequestInv
  <2>3. /\ rpc' = [rpc EXCEPT ![r] = "idle"] /\ rpc[r] = "audit"
        /\ rsession' = [rsession EXCEPT ![r] = None]
        /\ UNCHANGED <<manager, dir, workspaces, listing, missing, steady>>
    BY <1>4 DEF Audit, Goto
  <2>4. CleanupInv' /\ ListInv' /\ TrackedHasDir' /\ SteadyIsListed'
    BY <2>3 DEF SessionInv, CleanupInv, ListInv, TrackedHasDir,
       SteadyIsListed, Tracked, manager, listing
  <2>5. SessionTypeOK'
    BY <2>1, <2>2, <2>3 DEF SessionInv, SessionTypeOK, manager, workspaces,
       listing
  <2>6. RequestInv'
    BY <2>3 DEF SessionInv, SessionTypeOK, RequestInv
  <2>7. VictimInv'
    BY <1>4 DEF SessionInv, VictimInv, manager, Audit, Leave
  <2>8. NothingLeftBehind'
    BY <2>1, <1>4 DEF SessionInv, NothingLeftBehind, Tracked, manager, Audit,
       Leave
  <2>9. FlagMeansWorkspace'
    BY <2>3 DEF SessionInv, FlagMeansWorkspace, workspaces
  <2> QED
    BY <2>4, <2>5, <2>6, <2>7, <2>8, <2>9 DEF SessionInv
<1>5. ASSUME NEW r \in Requests, WorkspaceFlag(r)
      PROVE  SessionInv'
  <2>1. /\ CleanupInv' /\ VictimInv' /\ ListInv' /\ TrackedHasDir'
        /\ NothingLeftBehind' /\ SteadyIsListed'
    BY <1>5 DEF SessionInv, CleanupInv, VictimInv, ListInv, TrackedHasDir,
       NothingLeftBehind, SteadyIsListed, Tracked, manager, listing,
       WorkspaceFlag
  <2>2. SessionTypeOK'
    BY <1>5 DEF SessionInv, SessionTypeOK, manager, listing, WorkspaceFlag,
       Goto
  <2>3. RequestInv'
    BY <1>5 DEF SessionInv, RequestInv, WorkspaceFlag, Goto
  <2>4. FlagMeansWorkspace'
    BY <1>5 DEF SessionInv, SessionTypeOK, FlagMeansWorkspace, WorkspaceFlag,
       Goto
  <2> QED
    BY <2>1, <2>2, <2>3, <2>4 DEF SessionInv
<1>6. ASSUME NEW r \in Requests, WorkspaceMake(r)
      PROVE  SessionInv'
  <2>1. /\ CleanupInv' /\ VictimInv' /\ ListInv' /\ TrackedHasDir'
        /\ NothingLeftBehind' /\ SteadyIsListed'
    BY <1>6 DEF SessionInv, CleanupInv, VictimInv, ListInv, TrackedHasDir,
       NothingLeftBehind, SteadyIsListed, Tracked, manager, listing,
       WorkspaceMake
  <2>2. SessionTypeOK'
    BY <1>6 DEF SessionInv, SessionTypeOK, RequestInv, manager, requests,
       workspaces, listing, WorkspaceMake, Goto, FlagAfterFailure
  <2>3. RequestInv'
    BY <1>6 DEF SessionInv, RequestInv, WorkspaceMake, Goto
  <2>4. FlagMeansWorkspace'
    BY <1>6 DEF FlagMeansWorkspace, WorkspaceMake, FlagAfterFailure
  <2> QED
    BY <2>1, <2>2, <2>3, <2>4 DEF SessionInv
<1>7. ASSUME NEW r \in Requests, WorkspaceWork(r)
      PROVE  SessionInv'
  <2>1. /\ CleanupInv' /\ VictimInv' /\ ListInv' /\ TrackedHasDir'
        /\ NothingLeftBehind' /\ SteadyIsListed'
    BY <1>7 DEF SessionInv, CleanupInv, VictimInv, ListInv, TrackedHasDir,
       NothingLeftBehind, SteadyIsListed, Tracked, manager, listing,
       WorkspaceWork
  <2>2. SessionTypeOK'
    BY <1>7 DEF SessionInv, SessionTypeOK, manager, workspaces, listing,
       WorkspaceWork, Goto
  <2>3. RequestInv'
    BY <1>7 DEF SessionInv, RequestInv, WorkspaceWork, Goto
  <2>4. FlagMeansWorkspace'
    <3>1. CASE workspace' = TRUE
      BY <3>1 DEF FlagMeansWorkspace
    <3>2. CASE workspace' = workspace
      BY <1>7, <3>2 DEF SessionInv, SessionTypeOK, FlagMeansWorkspace,
         WorkspaceWork, Goto
    <3> QED
      BY <1>7, <3>1, <3>2 DEF WorkspaceWork
  <2> QED
    BY <2>1, <2>2, <2>3, <2>4 DEF SessionInv
<1>8. ASSUME NEW s \in Sessions, DeleteRequested(s)
      PROVE  SessionInv'
  <2>1. /\ RequestInv' /\ CleanupInv' /\ VictimInv' /\ ListInv'
        /\ TrackedHasDir' /\ NothingLeftBehind' /\ SteadyIsListed'
        /\ FlagMeansWorkspace'
    BY <1>8 DEF SessionInv, RequestInv, CleanupInv, VictimInv, ListInv,
       TrackedHasDir, NothingLeftBehind, SteadyIsListed, FlagMeansWorkspace,
       Tracked, requests, workspaces, listing, DeleteRequested
  <2>2. SessionTypeOK'
    BY <1>8 DEF SessionInv, SessionTypeOK, requests, workspaces, listing,
       DeleteRequested
  <2> QED
    BY <2>1, <2>2 DEF SessionInv
<1>9. ASSUME NEW s \in Sessions, DeleteBegin(s)
      PROVE  SessionInv'
  <2>1. /\ RequestInv' /\ VictimInv' /\ ListInv' /\ NothingLeftBehind'
        /\ SteadyIsListed' /\ FlagMeansWorkspace'
    BY <1>9 DEF SessionInv, RequestInv, VictimInv, ListInv,
       NothingLeftBehind, SteadyIsListed, FlagMeansWorkspace, Tracked,
       requests, workspaces, listing, DeleteBegin
  <2>2. SessionTypeOK'
    BY <1>9 DEF SessionInv, SessionTypeOK, requests, workspaces, listing,
       DeleteBegin
  <2>3. CleanupInv'
    BY <1>9 DEF CleanupInv, DeleteBegin
  <2>4. TrackedHasDir'
    BY <1>9 DEF SessionInv, SessionTypeOK, TrackedHasDir, Tracked,
       DeleteBegin
  <2> QED
    BY <2>1, <2>2, <2>3, <2>4 DEF SessionInv
<1>10. ASSUME CleanupBegin
       PROVE  SessionInv'
  <2>1. /\ RequestInv' /\ VictimInv' /\ ListInv' /\ NothingLeftBehind'
        /\ SteadyIsListed' /\ FlagMeansWorkspace'
    BY <1>10 DEF SessionInv, RequestInv, VictimInv, ListInv,
       NothingLeftBehind, SteadyIsListed, FlagMeansWorkspace, Tracked,
       requests, workspaces, listing, CleanupBegin
  <2>2. SessionTypeOK'
    BY <1>10 DEF SessionInv, SessionTypeOK, requests, workspaces, listing,
       CleanupBegin, Expired
  <2>3. CleanupInv'
    BY <1>10 DEF CleanupInv, CleanupBegin, Expired
  <2>4. TrackedHasDir'
    BY <1>10 DEF SessionInv, SessionTypeOK, TrackedHasDir, Tracked,
       CleanupBegin
  <2> QED
    BY <2>1, <2>2, <2>3, <2>4 DEF SessionInv
<1>11. ASSUME NEW s \in Sessions, RemoveDir(s)
       PROVE  SessionInv'
  <2>1. /\ RequestInv' /\ CleanupInv' /\ ListInv' /\ SteadyIsListed'
        /\ FlagMeansWorkspace'
    BY <1>11 DEF SessionInv, RequestInv, CleanupInv, ListInv, SteadyIsListed,
       FlagMeansWorkspace, Tracked, requests, workspaces, listing, RemoveDir
  <2>2. SessionTypeOK'
    BY <1>11 DEF SessionInv, SessionTypeOK, RequestInv, manager, requests,
       workspaces, listing, RemoveDir, Leave
  <2>3. VictimInv'
    BY <1>11 DEF SessionInv, SessionTypeOK, VictimInv, RemoveDir, Leave
  <2>4. TrackedHasDir'
    BY <1>11 DEF SessionInv, SessionTypeOK, TrackedHasDir, Tracked, RemoveDir
  <2>5. NothingLeftBehind'
    BY <1>11 DEF SessionInv, SessionTypeOK, NothingLeftBehind, Tracked,
       RemoveDir, Leave
  <2> QED
    BY <2>1, <2>2, <2>3, <2>4, <2>5 DEF SessionInv
<1>12. ASSUME RemoveFile
       PROVE  SessionInv'
  <2>1. RequestInv' /\ FlagMeansWorkspace'
    BY <1>12 DEF SessionInv, RequestInv, FlagMeansWorkspace, requests,
       workspaces, RemoveFile
  <2>2. SessionTypeOK'
    BY <1>12 DEF SessionInv, SessionTypeOK, RequestInv, manager, requests,
       workspaces, listing, RemoveFile, Forgotten, Unlocked
  <2>3. CleanupInv'
    BY <1>12 DEF SessionInv, CleanupInv, RemoveFile, Forgotten
  <2>4. VictimInv'
    BY <1>12 DEF VictimInv, RemoveFile
  <2>5. ListInv'
    BY <1>12 DEF SessionInv, SessionTypeOK, ListInv, Tracked, listing,
       RemoveFile, Forgotten
  <2>6. TrackedHasDir'
    BY <1>12 DEF SessionInv, SessionTypeOK, TrackedHasDir, Tracked,
       RemoveFile, Forgotten
  <2>7. NothingLeftBehind'
    BY <1>12 DEF SessionInv, SessionTypeOK, VictimInv, NothingLeftBehind,
       Tracked, RemoveFile, Forgotten
  <2>8. SteadyIsListed'
    BY <1>12 DEF SessionInv, SessionTypeOK, SteadyIsListed, listing,
       RemoveFile
  <2> QED
    BY <2>1, <2>2, <2>3, <2>4, <2>5, <2>6, <2>7, <2>8 DEF SessionInv
<1>13. ASSUME NEW s \in Sessions, ListScan(s)
       PROVE  SessionInv'
  <2>1. /\ RequestInv' /\ CleanupInv' /\ VictimInv' /\ TrackedHasDir'
        /\ NothingLeftBehind' /\ FlagMeansWorkspace'
    BY <1>13 DEF SessionInv, RequestInv, CleanupInv, VictimInv,
       TrackedHasDir, NothingLeftBehind, FlagMeansWorkspace, Tracked,
       manager, requests, workspaces, ListScan
  <2>2. SessionTypeOK'
    BY <1>13 DEF SessionInv, SessionTypeOK, manager, requests, workspaces,
       ListScan
  <2>3. ListInv'
    BY <1>13 DEF ListInv, Tracked, manager, ListScan
  <2>4. SteadyIsListed'
    BY <1>13 DEF SteadyIsListed, ListScan
  <2> QED
    BY <2>1, <2>2, <2>3, <2>4 DEF SessionInv
<1>14. ASSUME ListMerge
       PROVE  SessionInv'
  <2>1. /\ RequestInv' /\ CleanupInv' /\ VictimInv' /\ TrackedHasDir'
        /\ NothingLeftBehind' /\ FlagMeansWorkspace'
    BY <1>14 DEF SessionInv, RequestInv, CleanupInv, VictimInv,
       TrackedHasDir, NothingLeftBehind, FlagMeansWorkspace, Tracked,
       manager, requests, workspaces, ListMerge
  <2>2. SessionTypeOK'
    BY <1>14 DEF SessionInv, SessionTypeOK, manager, requests, workspaces,
       ListMerge, Merged
  <2>3. ListInv'
    BY <1>14 DEF ListInv, ListMerge
  <2>4. SteadyIsListed'
    BY <1>14 DEF SessionInv, ListInv, SteadyIsListed, ListMerge, Merged
  <2> QED
    BY <2>1, <2>2, <2>3, <2>4 DEF SessionInv
<1>15. ASSUME ListEnd
       PROVE  SessionInv'
  <2>1. /\ RequestInv' /\ CleanupInv' /\ VictimInv' /\ TrackedHasDir'
        /\ NothingLeftBehind' /\ FlagMeansWorkspace'
    BY <1>15 DEF SessionInv, RequestInv, CleanupInv, VictimInv,
       TrackedHasDir, NothingLeftBehind, FlagMeansWorkspace, Tracked,
       manager, requests, workspaces, ListEnd
  <2>2. SessionTypeOK'
    BY <1>15 DEF SessionInv, SessionTypeOK, RequestInv, manager, requests,
       workspaces, listing, ListEnd
  <2>3. ListInv'
    BY <1>15 DEF ListInv, ListEnd
  <2>4. SteadyIsListed'
    BY <1>15 DEF SteadyIsListed, ListEnd
  <2> QED
    BY <2>1, <2>2, <2>3, <2>4 DEF SessionInv
<1>16. ASSUME NEW s \in Sessions, TimePasses(s)
       PROVE  SessionInv'
  <2>1. RequestInv' /\ VictimInv' /\ SteadyIsListed' /\ FlagMeansWorkspace'
    BY <1>16 DEF SessionInv, RequestInv, VictimInv, SteadyIsListed,
       FlagMeansWorkspace, requests, workspaces, listing, TimePasses
  <2>2. SessionTypeOK'
    BY <1>16 DEF SessionInv, SessionTypeOK, requests, workspaces, listing,
       TimePasses
  <2>3. CleanupInv'
    BY <1>16 DEF SessionInv, CleanupInv, TimePasses
  <2>4. ListInv'
    BY <1>16 DEF SessionInv, ListInv, Tracked, listing, TimePasses
  <2>5. TrackedHasDir'
    BY <1>16 DEF SessionInv, TrackedHasDir, Tracked, TimePasses
  <2>6. NothingLeftBehind'
    BY <1>16 DEF SessionInv, NothingLeftBehind, Tracked, TimePasses
  <2> QED
    BY <2>1, <2>2, <2>3, <2>4, <2>5, <2>6 DEF SessionInv
<1>17. ASSUME Restart
       PROVE  SessionInv'
  <2>1. SessionTypeOK'
    BY <1>17 DEF SessionInv, SessionTypeOK, RequestInv, manager, requests,
       workspaces, listing, Restart
  <2>2. RequestInv'
    BY <1>17 DEF RequestInv, Restart
  <2>3. CleanupInv'
    BY <1>17 DEF CleanupInv, Restart
  <2>4. VictimInv'
    BY <1>17 DEF VictimInv, Restart
  <2>5. ListInv'
    BY <1>17 DEF ListInv, Restart
  <2>6. TrackedHasDir'
    BY <1>17 DEF TrackedHasDir, Tracked, Restart
  <2>7. NothingLeftBehind'
    BY <1>17 DEF NothingLeftBehind, Restart
  <2>8. SteadyIsListed'
    BY <1>17 DEF SteadyIsListed, Restart
  <2>9. FlagMeansWorkspace'
    BY <1>17 DEF FlagMeansWorkspace, Restart
  <2> QED
    BY <2>1, <2>2, <2>3, <2>4, <2>5, <2>6, <2>7, <2>8, <2>9 DEF SessionInv
<1>18. ASSUME UNCHANGED vars
       PROVE  SessionInv'
  <2>1. /\ SessionTypeOK' /\ RequestInv' /\ CleanupInv' /\ VictimInv'
        /\ ListInv' /\ TrackedHasDir' /\ NothingLeftBehind'
        /\ SteadyIsListed' /\ FlagMeansWorkspace'
    BY <1>18 DEF SessionInv, SessionTypeOK, RequestInv, CleanupInv,
       VictimInv, ListInv, TrackedHasDir, NothingLeftBehind, SteadyIsListed,
       FlagMeansWorkspace, Tracked, manager, requests, workspaces, listing,
       vars
  <2> QED
    BY <2>1 DEF SessionInv
<1> QED
  BY <1>1, <1>2, <1>3, <1>4, <1>5, <1>6, <1>7, <1>8, <1>9, <1>10, <1>11,
     <1>12, <1>13, <1>14, <1>15, <1>16, <1>17, <1>18 DEF Next, RequestStep,
     RemoveStep

(* SessionInv is an invariant.                                             *)
LEMMA InvAlways == Spec => []SessionInv
BY InitInv, NextInv, PTL DEF Spec

(* Types are kept; a removal has sessions to remove exactly while it holds *)
(* Manager.mu (session/manager.go:276-297, 404-432).                       *)
THEOREM SessionTypeCorrect == Spec => []SessionTypeOK
<1>1. SessionInv => SessionTypeOK
  BY DEF SessionInv
<1> QED
  BY <1>1, InvAlways, PTL

(* The map and the disk agree on the tracked sessions, whatever requests   *)
(* meet in them (session/manager.go:276-297, 417-432).                     *)
THEOREM TrackedAlwaysHasDir == Spec => []TrackedHasDir
<1>1. SessionInv => TrackedHasDir
  BY DEF SessionInv
<1> QED
  BY <1>1, InvAlways, PTL

(* What is on disk of a session that is not tracked has a known reason     *)
(* (session/manager.go:404-432).                                           *)
THEOREM NothingIsLeftBehind == Spec => []NothingLeftBehind
<1>1. SessionInv => NothingLeftBehind
  BY DEF SessionInv
<1> QED
  BY <1>1, InvAlways, PTL

(* A session tracked throughout a call of ListSessions is listed with its  *)
(* access time (session/manager.go:370-390).                               *)
THEOREM SteadyIsAlwaysListed == Spec => []SteadyIsListed
<1>1. SessionInv => SteadyIsListed
  BY DEF SessionInv
<1> QED
  BY <1>1, InvAlways, PTL

(* A set flag means that the workspace is there, or about to be made       *)
(* (session/manager.go:303-325).                                           *)
THEOREM FlagAlwaysMeansWorkspace == Spec => []FlagMeansWorkspace
<1>1. SessionInv => FlagMeansWorkspace
  BY DEF SessionInv
<1> QED
  BY <1>1, InvAlways, PTL

(* Only RemoveDir takes a directory away, and during a cleanup only one of *)
(* those the loop has still to remove.                                     *)
LEMMA OnlyRemoved ==
  ASSUME SessionInv, [Next]_vars, NEW s \in Sessions,
         mu = "cleanup", dir[s], ~dir'[s]
  PROVE  s \in todo
<1>1. ASSUME NEW r \in Requests, RequestStep(r)
      PROVE  dir'[s]
  BY <1>1 DEF RequestStep, Touch, Work, Audit, WorkspaceFlag, WorkspaceMake,
     WorkspaceWork, SessionInv, SessionTypeOK
<1>2. ASSUME NEW t \in Sessions, RemoveDir(t)
      PROVE  s \in todo
  BY <1>2 DEF RemoveDir, SessionInv, SessionTypeOK
<1>3. ASSUME dir' = dir
      PROVE  FALSE
  BY <1>3
<1> QED
  BY <1>1, <1>2, <1>3 DEF Next, vars, RequestBegin, RemoveStep, RemoveFile,
     DeleteRequested, DeleteBegin, TimePasses, ListScan, CleanupBegin,
     ListMerge, ListEnd, Restart

(* The cleanup loop removes only what was not touched for the TTL: what it *)
(* has still to remove stays expired (session/manager.go:449-463).         *)
THEOREM FreshAlwaysSurvives == Spec => FreshSurvivesCleanup
<1>1. ASSUME SessionInv, [Next]_vars
      PROVE  [\A s \in Sessions :
                mu = "cleanup" /\ dir[s] /\ ~dir'[s] =>
                  access[s] = "stale"]_vars
  <2>1. ASSUME NEW s \in Sessions, mu = "cleanup", dir[s], ~dir'[s]
        PROVE  access[s] = "stale"
    BY <1>1, <2>1, OnlyRemoved DEF SessionInv, CleanupInv
  <2> QED
    BY <2>1
<1> QED
  BY <1>1, InvAlways, PTL DEF Spec, FreshSurvivesCleanup
=============================================================================
