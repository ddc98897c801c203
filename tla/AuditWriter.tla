---------------------------- MODULE AuditWriter ----------------------------
(***************************************************************************)
(* The audit writer (audit/writer.go): one append-only file per session,   *)
(* with a map of open handles.                                             *)
(*                                                                         *)
(* Writer.mu guards the map, fileHandle.mu each handle.  Neither is held   *)
(* while the other is taken, so a step below is one critical section, and  *)
(* writers, the eviction loop and the deletion of a session, which closes  *)
(* the session's handle and then removes its file, interleave between      *)
(* them.  An entry is abstract; what matters is whether the file it is     *)
(* appended to is still the one at the session's path.                     *)
(*                                                                         *)
(* Writer.Close is left out: no running server calls it, since main ends   *)
(* in log.Fatalf, which skips deferred calls.                              *)
(***************************************************************************)
EXTENDS Naturals

CONSTANTS
  Writers,      \* requests that write an audit entry
  Sessions,     \* session keys, agentID/sessionID
  Handles,      \* file handles; a closed one nobody refers to is used again
  None,
  MaxDeletes    \* number of session deletions (bounds the model)

ASSUME AuditAssumption ==
  /\ None \notin Handles \cup Sessions
  /\ MaxDeletes \in Nat

VARIABLES
  handles,      \* session -> its handle in the map
  fh,           \* handle -> its fileHandle, see FileHandle
  wpc,          \* writer -> what it does next
  wsession,     \* writer -> session of the entry it is writing
  hand,         \* writer -> handle it got
  attempt,      \* writer -> attempts that found the handle closed
  overlapped,   \* writer -> its session was being deleted during its write
  toClose,      \* handles the eviction loop has taken out of the map
  del,          \* what the deletion in progress does next
  delSession,   \* session it deletes
  delHandle,    \* handle it took out of the map
  deletes       \* number of deletions begun

writerVars == <<wpc, wsession, hand, attempt, overlapped>>
deleteVars == <<del, delSession, delHandle, deletes>>
auditVars == <<handles, fh, writerVars, toClose, deleteVars>>

MaxRetries == 2  \* maxRetries, writer.go:111

(* owner: the session whose file it is open on, None once it is closed;    *)
(* linked: that file is still the one at the session's path; idle: last    *)
(* written more than maxIdle ago; inGap: opened while the session was      *)
(* being deleted.                                                          *)
FileHandle ==
  [owner : Sessions \cup {None}, linked : BOOLEAN, idle : BOOLEAN,
   inGap : BOOLEAN]

Closed == [owner |-> None, linked |-> FALSE, idle |-> FALSE, inGap |-> FALSE]

Open(h) == fh[h].owner # None

Busy == {"get", "write", "purge"}

(* Where a writer is between two entries: the last one is in the file at   *)
(* its session's path, or went into another; the file could not be opened  *)
(* or written; or the writer gave up.                                      *)
Done == {"idle", "kept", "lost", "refused", "failed"}

AuditTypeOK ==
  /\ handles \in [Sessions -> Handles \cup {None}]
  /\ fh \in [Handles -> FileHandle]
  /\ wpc \in [Writers -> Busy \cup Done]
  /\ wsession \in [Writers -> Sessions \cup {None}]
  /\ hand \in [Writers -> Handles \cup {None}]
  /\ attempt \in [Writers -> 0 .. MaxRetries]
  /\ overlapped \in [Writers -> BOOLEAN]
  /\ toClose \subseteq Handles
  /\ del \in {"idle", "take", "close", "remove"}
  /\ delSession \in Sessions \cup {None}
  /\ delHandle \in Handles \cup {None}
  /\ deletes \in 0 .. MaxDeletes

AuditInit ==
  /\ handles = [s \in Sessions |-> None]
  /\ fh = [h \in Handles |-> Closed]
  /\ wpc = [w \in Writers |-> "idle"]
  /\ wsession = [w \in Writers |-> None]
  /\ hand = [w \in Writers |-> None]
  /\ attempt = [w \in Writers |-> 0]
  /\ overlapped = [w \in Writers |-> FALSE]
  /\ toClose = {}
  /\ del = "idle" /\ delSession = None /\ delHandle = None /\ deletes = 0

Deleting(s) == del # "idle" /\ delSession = s

Mapped(h) == \E s \in Sessions : handles[s] = h

HasOpen(s) == handles[s] # None /\ Open(handles[s])

-----------------------------------------------------------------------------
(* WriteEntry. *)

WriteBegin(w, s) ==
  /\ wpc[w] \in Done
  /\ wpc' = [wpc EXCEPT ![w] = "get"]
  /\ wsession' = [wsession EXCEPT ![w] = s]
  /\ overlapped' = [overlapped EXCEPT ![w] = Deleting(s)]
  /\ UNCHANGED <<handles, fh, hand, attempt, toClose, deleteVars>>

(* It returns; pc tells what became of the entry.                          *)
WriteReturns(w, pc) ==
  /\ wpc' = [wpc EXCEPT ![w] = pc]
  /\ wsession' = [wsession EXCEPT ![w] = None]
  /\ hand' = [hand EXCEPT ![w] = None]
  /\ attempt' = [attempt EXCEPT ![w] = 0]
  /\ overlapped' = [overlapped EXCEPT ![w] = pc = "failed" /\ @]

(* A handle that can be made: closed, and no longer referred to. *)
Unused(h) ==
  ~Open(h) /\ ~Mapped(h) /\ h \notin toClose /\ h # delHandle
    /\ \A w \in Writers : hand[w] # h

Hold(w, h) ==
  /\ hand' = [hand EXCEPT ![w] = h]
  /\ wpc' = [wpc EXCEPT ![w] = "write"]

(* The file is opened, and created if it is not there. *)
OpenHandle(s, h) ==
  /\ handles' = [handles EXCEPT ![s] = h]
  /\ fh' = [fh EXCEPT ![h] = [owner |-> s, linked |-> TRUE, idle |-> FALSE,
                              inGap |-> Deleting(s)]]

(* getOrCreate, under Writer.mu. *)
GetOrCreate(w) ==
  LET s == wsession[w] IN
  /\ wpc[w] = "get"
  /\ IF HasOpen(s)
     THEN Hold(w, handles[s]) /\ UNCHANGED <<handles, fh>>
     ELSE \E h \in Handles : Unused(h) /\ OpenHandle(s, h) /\ Hold(w, h)
  /\ UNCHANGED <<wsession, attempt, overlapped, toClose, deleteVars>>

(* There is no open handle, and the file cannot be opened. *)
OpenFails(w) ==
  /\ wpc[w] = "get"
  /\ ~HasOpen(wsession[w])
  /\ WriteReturns(w, "refused")
  /\ UNCHANGED <<handles, fh, toClose, deleteVars>>

(* Where an entry goes that is written through the handle. *)
Reached(w) ==
  IF fh[hand[w]].linked /\ fh[hand[w]].owner = wsession[w]
  THEN "kept" ELSE "lost"

(* Under fileHandle.mu: append the entry, unless the handle was closed     *)
(* since the writer got it.  The file may refuse it.                       *)
WriteData(w) ==
  /\ wpc[w] = "write"
  /\ IF Open(hand[w])
     THEN /\ fh' = [fh EXCEPT ![hand[w]].idle = FALSE]
          /\ WriteReturns(w, Reached(w)) \/ WriteReturns(w, "refused")
     ELSE /\ wpc' = [wpc EXCEPT ![w] = "purge"]
          /\ UNCHANGED <<fh, wsession, hand, attempt, overlapped>>
  /\ UNCHANGED <<handles, toClose, deleteVars>>

GivesUpAtOnce(w) == TRUE  \* MUTANT of Exhausted: no second attempt
NeverGivesUp(w) == FALSE  \* MUTANT of Exhausted: the attempts are not counted

(* This attempt was the last. *)
Exhausted(w) == attempt[w] + 1 = MaxRetries

(* Under Writer.mu: take the closed handle out of the map, and try again.  *)
Purge(w) ==
  /\ wpc[w] = "purge"
  /\ handles' = [handles EXCEPT ![wsession[w]] =
                   IF @ = hand[w] THEN None ELSE @]
  /\ IF Exhausted(w)
     THEN WriteReturns(w, "failed")
     ELSE /\ wpc' = [wpc EXCEPT ![w] = "get"]
          /\ hand' = [hand EXCEPT ![w] = None]
          /\ attempt' = [attempt EXCEPT ![w] = @ + 1]
          /\ UNCHANGED <<wsession, overlapped>>
  /\ UNCHANGED <<fh, toClose, deleteVars>>

-----------------------------------------------------------------------------
(* Eviction. *)

(* maxIdle passes since the last write.  It is minutes (main.go:74), so it *)
(* does not pass during one WriteEntry; but a handle that was idle before  *)
(* can be handed out and be evicted before it is written to.               *)
BecomeIdle(h) ==
  /\ Mapped(h) /\ ~fh[h].idle
  /\ \A w \in Writers : wsession[w] # fh[h].owner
  /\ fh' = [fh EXCEPT ![h].idle = TRUE]
  /\ UNCHANGED <<handles, writerVars, toClose, deleteVars>>

KeepsMapped(S) == handles  \* MUTANT of Without: closed but left in the map

(* The map without the handles in S. *)
Without(S) ==
  [s \in Sessions |-> IF handles[s] \in S THEN None ELSE handles[s]]

(* evictIdle, under Writer.mu: every idle handle leaves the map. *)
EvictCollect ==
  LET S == {h \in Handles : Mapped(h) /\ fh[h].idle} IN
  /\ toClose = {} /\ S # {}
  /\ toClose' = S
  /\ handles' = Without(S)
  /\ UNCHANGED <<fh, writerVars, deleteVars>>

(* Then each is closed, under its own lock. *)
EvictClose(h) ==
  /\ h \in toClose
  /\ fh' = [fh EXCEPT ![h] = Closed]
  /\ toClose' = toClose \ {h}
  /\ UNCHANGED <<handles, writerVars, deleteVars>>

-----------------------------------------------------------------------------
(* DeleteSession and cleanup, as far as the audit file goes: CloseSession, *)
(* then os.Remove.  Manager.mu allows one at a time.                       *)

DeleteBegin(s) ==
  /\ del = "idle" /\ deletes < MaxDeletes
  /\ del' = "take" /\ delSession' = s /\ deletes' = deletes + 1
  /\ overlapped' = [w \in Writers |-> overlapped[w] \/ wsession[w] = s]
  /\ UNCHANGED <<handles, fh, wpc, wsession, hand, attempt, toClose,
                 delHandle>>

ForgetsHandle(h) == None  \* MUTANT of Taken: dropped without being closed

(* What CloseSession has in hand when it leaves Writer.mu. *)
Taken(h) == h

LeavesMapped(s) == handles  \* MUTANT of Dropped: the map keeps the handle

(* The map without session s's handle. *)
Dropped(s) == [handles EXCEPT ![s] = None]

(* CloseSession, under Writer.mu ... *)
DeleteTake ==
  /\ del = "take"
  /\ delHandle' = Taken(handles[delSession])
  /\ handles' = Dropped(delSession)
  /\ del' = "close"
  /\ UNCHANGED <<fh, writerVars, toClose, delSession, deletes>>

(* ... and under the handle's lock, if there was a handle. *)
DeleteClose ==
  /\ del = "close"
  /\ fh' = [h \in Handles |-> IF h = delHandle THEN Closed ELSE fh[h]]
  /\ delHandle' = None /\ del' = "remove"
  /\ UNCHANGED <<handles, writerVars, toClose, delSession, deletes>>

(* Handles that are open on the removed file keep it, off the path. *)
Unlinked(s) ==
  [h \in Handles |->
     [fh[h] EXCEPT !.linked = @ /\ fh[h].owner # s]]

DeleteRemove ==
  /\ del = "remove"
  /\ fh' = Unlinked(delSession)
  /\ del' = "idle" /\ delSession' = None
  /\ UNCHANGED <<handles, writerVars, toClose, delHandle, deletes>>

-----------------------------------------------------------------------------

WriteStep(w) == GetOrCreate(w) \/ OpenFails(w) \/ WriteData(w) \/ Purge(w)
EvictStep == EvictCollect \/ \E h \in Handles : BecomeIdle(h) \/ EvictClose(h)
DeleteStep == DeleteTake \/ DeleteClose \/ DeleteRemove

AuditNext ==
  \/ \E w \in Writers, s \in Sessions : WriteBegin(w, s)
  \/ \E w \in Writers : WriteStep(w)
  \/ EvictStep
  \/ \E s \in Sessions : DeleteBegin(s)
  \/ DeleteStep

AuditSpec == AuditInit /\ [][AuditNext]_auditVars

-----------------------------------------------------------------------------
(* A handle in the map is open: evictIdle and CloseSession take a handle   *)
(* out of the map before they close it (writer.go:200-213, 258-269).  So   *)
(* getOrCreate, which reads fh.closed without the handle's lock, never     *)
(* hands out a handle that was already closed.                             *)
MappedIsOpen == \A s \in Sessions : handles[s] # None => Open(handles[s])

(* An open handle is in the map or about to be closed: none leaks when     *)
(* eviction, deletion and the purge of a closed handle interleave.         *)
NoLeakedHandle ==
  \A h \in Handles : Open(h) => h \in toClose \/ h = delHandle \/ Mapped(h)

(* A write that gives up because its handle kept being closed overlapped   *)
(* the deletion of its session: two attempts, maxRetries, are enough       *)
(* against eviction, however the loop interleaves.                         *)
EvictionLosesNothing ==
  \A w \in Writers : wpc[w] = "failed" => overlapped[w]

(* An open handle that a deletion is about to lose, or has lost, because   *)
(* it was opened in the gap.                                               *)
GapHandle(h, s, linked) ==
  fh[h].owner = s /\ fh[h].inGap /\ fh[h].linked = linked

Met == {w \in Writers : wpc[w] \in Busy /\ overlapped[w]}

Outcome ==
  [w \in Writers |-> IF wpc[w] \in Done \ {"idle"} THEN wpc[w] ELSE None]

GapOpened == \E h \in Handles : GapHandle(h, delSession, TRUE)

Astray == {s \in Sessions : \E h \in Handles : GapHandle(h, s, FALSE)}

(* What the log shows of the writer. *)
Log == INSTANCE AuditLog WITH
  writing <- wsession, met <- Met, last <- Outcome,
  removing <- delSession, opened <- GapOpened, astray <- Astray

(* The handles, their eviction and the retries do not show: an entry goes  *)
(* into the file of its own session, and is lost only by a deletion of the *)
(* session beside the write, or by the handle that another write opened in *)
(* the gap of one (writer.go:91-136, 143-269, manager.go:420-428).         *)
EntriesAreKept == Log!Spec

(* A handle in the map is open on the file at the session's path, unless   *)
(* it was opened while the session was being deleted, between CloseSession *)
(* and os.Remove (manager.go:420-428): that gap is the only way to lose    *)
(* the file from under the map.                                            *)
StrayOnlyFromGap ==
  \A s \in Sessions : LET h == handles[s] IN
    h # None /\ ~fh[h].linked => fh[h].inGap

(* README.md:671 "All requests are logged", writer.go:91 "WriteEntry       *)
(* writes a JSON-marshaled audit entry to the per-session audit file": an  *)
(* entry whose write did not meet a deletion would be in the file at the   *)
(* session's path.                                                         *)
EntriesReachTheFile ==
  [][\A w \in Writers : wpc[w] = "write" /\ wpc'[w] = "lost"
       => overlapped[w]]_auditVars

=============================================================================
