---------------------------- MODULE BashSessions ----------------------------
(***************************************************************************)
(* Commands and bash sessions (handler/bash.go) for one key of             *)
(* BashHandler.sessions: Exec, Output and Kill always use the key of the   *)
(* sandbox session and "default", and the only thing that a request of     *)
(* another key can do to this one is in CreateShow.                        *)
(*                                                                         *)
(* BashHandler.mu guards the map and nothing else: the fields of a         *)
(* bashSession are written by the Exec handler that made it, by Kill, and  *)
(* by the goroutine that waits for an asynchronous command and then marks  *)
(* whatever session it finds under the key.  A session is named for the    *)
(* request that made it, and so is its process.                            *)
(*                                                                         *)
(* Writing to stdin changes no state of the server and is left out; what   *)
(* the processes print is in CommandOutput.                                *)
(***************************************************************************)

CONSTANTS
  Execs,        \* Exec requests, and the sessions and processes they make
  Creates,      \* CreateSession requests, and the sessions they make
  None

ASSUME BashAssumption ==
  Execs \cap Creates = {} /\ None \notin Execs \cup Creates

VARIABLES
  current,      \* the session in the map
  overwritten,  \* commands whose session was overwritten in the map
  mode,         \* exec -> "sync" or "async"
  epc,          \* exec -> what its handler, or then its waiter, does next
  cpc,          \* create -> what its handler does next
  proc,         \* exec -> its process: "none", "running" or "exited"
  bad,          \* exec -> its process exited with a code that is not 0
  expired,      \* exec -> its context is done
  status,       \* exec -> status of its session
  killing,      \* session the Kill request in progress looked up
  crashed       \* the server died of a panic in a goroutine, or a fatal error

processVars == <<proc, bad, expired>>
mapVars == <<current, overwritten>>
vars == <<mapVars, mode, epc, cpc, processVars, status, killing, crashed>>

BashTypeOK ==
  /\ current \in Execs \cup Creates \cup {None}
  /\ overwritten \subseteq Execs
  /\ mode \in [Execs -> {"sync", "async"}]
  /\ epc \in [Execs -> {"idle", "insert", "wait", "mark", "done"}]
  /\ cpc \in [Creates -> {"idle", "show", "insert", "done"}]
  /\ proc \in [Execs -> {"none", "running", "exited"}]
  /\ bad \in [Execs -> BOOLEAN] /\ expired \in [Execs -> BOOLEAN]
  /\ status \in [Execs -> {"running", "completed", "timed_out", "killed"}]
  /\ killing \in Execs \cup {None}
  /\ crashed \in BOOLEAN

Init ==
  /\ current = None /\ overwritten = {}
  /\ mode \in [Execs -> {"sync", "async"}]
  /\ epc = [e \in Execs |-> "idle"] /\ cpc = [c \in Creates |-> "idle"]
  /\ proc = [e \in Execs |-> "none"] /\ bad = [e \in Execs |-> FALSE]
  /\ expired = [e \in Execs |-> FALSE]
  /\ status = [e \in Execs |-> "running"]
  /\ killing = None
  /\ crashed = FALSE

-----------------------------------------------------------------------------
(* Processes.                                                              *)

(* The process ends by itself, or hard_timeout kills it.                   *)
Exit(e) ==
  /\ proc[e] = "running"
  /\ proc' = [proc EXCEPT ![e] = "exited"]
  /\ \E b \in BOOLEAN : bad' = [bad EXCEPT ![e] = b]
  /\ UNCHANGED <<mapVars, mode, epc, cpc, expired, status, killing, crashed>>

(* The deadline of the context: timeout seconds, 30 by default.            *)
Deadline(e) ==
  /\ epc[e] \in {"insert", "wait"} /\ ~expired[e]
  /\ expired' = [expired EXCEPT ![e] = TRUE]
  /\ UNCHANGED <<mapVars, mode, epc, cpc, proc, bad, status, killing, crashed>>

NotReaped(e) ==  \* MUTANT of Killed: killed, and never waited for
  proc' = [proc EXCEPT ![e] = "zombie"] /\ bad' = bad

(* What killing e does to the processes.                                   *)
Killed(e) ==
  /\ proc' = [proc EXCEPT ![e] = IF @ = "running" THEN "exited" ELSE @]
  /\ bad' = [bad EXCEPT ![e] = @ \/ proc[e] = "running"]

NoContext(e) == FALSE  \* MUTANT of ContextDone: exec.Command was used

ContextDone(e) == expired[e]

(* exec.CommandContext kills the process when the context is done.         *)
KillExpired(e) ==
  /\ proc[e] = "running" /\ ContextDone(e)
  /\ Killed(e)
  /\ UNCHANGED <<mapVars, mode, epc, cpc, expired, status, killing, crashed>>

-----------------------------------------------------------------------------
(* Exec.                                                                   *)

(* Put session o in the map, in place of whatever is there.                *)
Insert(o) ==
  /\ current' = o
  /\ overwritten' = overwritten \cup ({current} \cap Execs)

(* cmd.Start; a command that cannot be started leaves nothing.             *)
ExecStart(e) ==
  /\ epc[e] = "idle"
  /\ epc' = [epc EXCEPT ![e] = "insert"]
  /\ proc' = [proc EXCEPT ![e] = "running"]
  /\ UNCHANGED <<mapVars, mode, cpc, bad, expired, status, killing, crashed>>

ExecInsert(e) ==
  /\ epc[e] = "insert"
  /\ Insert(e)
  /\ epc' = [epc EXCEPT ![e] = "wait"]
  /\ UNCHANGED <<mode, cpc, processVars, status, killing, crashed>>

(* How the handler, or the waiter, of e ends: session o gets status st.    *)
Finish(e, o, st) ==
  /\ status' = [status EXCEPT ![o] = st]
  /\ epc' = [epc EXCEPT ![e] = "done"]

(* The select of a synchronous Exec: its process has ended ...             *)
ExecDone(e) ==
  /\ epc[e] = "wait" /\ mode[e] = "sync" /\ proc[e] = "exited"
  /\ Finish(e, e, "completed")
  /\ UNCHANGED <<mapVars, mode, cpc, processVars, killing, crashed>>

(* ... or its context is done; if both, either branch may be taken.        *)
ExecTimedOut(e) ==
  /\ epc[e] = "wait" /\ mode[e] = "sync" /\ expired[e]
  /\ Killed(e)
  /\ Finish(e, e, "timed_out")
  /\ UNCHANGED <<mapVars, mode, cpc, expired, killing, crashed>>

NoWait(e) == TRUE  \* MUTANT of WaitOver: it does not wait for the process

WaitOver(e) == proc[e] = "exited"

(* waitCommand, for an asynchronous command: cmd.Wait returns.             *)
WaitReturns(e) ==
  /\ epc[e] = "wait" /\ mode[e] = "async" /\ WaitOver(e)
  /\ epc' = [epc EXCEPT ![e] = "mark"]
  /\ UNCHANGED <<mapVars, mode, cpc, processVars, status, killing,
                 crashed>>

NoMark(e) ==  \* MUTANT of Mark: the status is left as it was
  epc' = [epc EXCEPT ![e] = "done"] /\ UNCHANGED status

(* The session that is in the map now is completed, be it the command's,   *)
(* another one's, or one that never had a command.                         *)
Mark(e) ==
  IF current \in Execs
  THEN Finish(e, current, "completed")
  ELSE epc' = [epc EXCEPT ![e] = "done"] /\ UNCHANGED status

(* A session made by CreateSession has no buffer: reading the stderr of a  *)
(* failed command from it is a nil dereference.                            *)
FindsNoBuffer(e) == current \in Creates /\ bad[e]

(* Under BashHandler.mu.                                                   *)
WaitMarks(e) ==
  /\ epc[e] = "mark" /\ ~FindsNoBuffer(e)
  /\ Mark(e)
  /\ UNCHANGED <<mapVars, mode, cpc, processVars, killing, crashed>>

(* The server dies: handlers and goroutines are gone, and so are the       *)
(* processes (bwrap runs with --die-with-parent).                          *)
ServerDies ==
  /\ crashed' = TRUE
  /\ current' = None
  /\ epc' = [e \in Execs |-> "done"] /\ cpc' = [c \in Creates |-> "done"]
  /\ proc' = [e \in Execs |-> IF proc[e] = "none" THEN "none" ELSE "exited"]
  /\ killing' = None
  /\ UNCHANGED <<overwritten, mode, bad, expired, status>>

WaiterPanics(e) == epc[e] = "mark" /\ FindsNoBuffer(e) /\ ServerDies

(* The waiter of a command of any other key panics likewise.               *)
OtherPanics == ~crashed /\ ServerDies

-----------------------------------------------------------------------------
(* CreateSession, CloseSession, Kill.                                      *)

(* The key is looked up under the lock, which is then released.            *)
CreateCheck(c) ==
  /\ cpc[c] = "idle"
  /\ cpc' = [cpc EXCEPT ![c] = IF current = None THEN "insert" ELSE "show"]
  /\ UNCHANGED <<mapVars, mode, epc, processVars, status, killing,
                 crashed>>

(* The session is read from the map again, with no lock: should a request  *)
(* of this or any other key write the map at that moment, the runtime may  *)
(* end the process.  If the session has gone, only this request fails.     *)
CreateShow(c) ==
  /\ cpc[c] = "show"
  /\ \/ /\ cpc' = [cpc EXCEPT ![c] = "done"]
        /\ UNCHANGED <<mapVars, mode, epc, processVars, status, killing, crashed>>
     \/ ServerDies

(* Whatever came into the map since the check is overwritten.              *)
CreateInsert(c) ==
  /\ cpc[c] = "insert"
  /\ Insert(c)
  /\ cpc' = [cpc EXCEPT ![c] = "done"]
  /\ UNCHANGED <<mode, epc, processVars, status, killing, crashed>>

(* MUTANT of CloseKills: the session is dropped and its process runs on.   *)
CloseForgets(e) == UNCHANGED <<proc, bad, expired>>

(* The context is cancelled and the process killed.                        *)
CloseKills(e) == expired' = [expired EXCEPT ![e] = TRUE] /\ Killed(e)

CloseSession ==
  /\ current # None
  /\ \/ current \in Execs /\ CloseKills(current)
     \/ current \in Creates /\ UNCHANGED <<proc, bad, expired>>
  /\ current' = None
  /\ UNCHANGED <<overwritten, mode, epc, cpc, status, killing,
                 crashed>>

(* Kill looks the session up under the lock ...                            *)
KillBegin ==
  /\ killing = None /\ current \in Execs
  /\ killing' = current
  /\ UNCHANGED <<mapVars, mode, epc, cpc, processVars, status, crashed>>

(* ... and then signals and marks it without: SIGKILL ends the process, an *)
(* interrupt, which stands for every other signal, may not.                *)
KillEnd ==
  /\ killing # None
  /\ Killed(killing) \/ UNCHANGED <<proc, bad>>
  /\ status' = [status EXCEPT ![killing] = "killed"]
  /\ killing' = None
  /\ UNCHANGED <<mapVars, mode, epc, cpc, expired, crashed>>

-----------------------------------------------------------------------------
ProcessStep(e) == Exit(e) \/ Deadline(e) \/ KillExpired(e)
ExecStep(e) ==
  ExecInsert(e) \/ ExecDone(e) \/ ExecTimedOut(e) \/ WaitReturns(e)
    \/ WaitMarks(e) \/ WaiterPanics(e)
CreateStep(c) == CreateCheck(c) \/ CreateShow(c) \/ CreateInsert(c)

Next ==
  \/ \E e \in Execs : ExecStart(e) \/ ExecStep(e) \/ ProcessStep(e)
  \/ \E c \in Creates : CreateStep(c)
  \/ CloseSession \/ KillBegin \/ KillEnd \/ OtherPanics

Spec == Init /\ [][Next]_vars

(* Deadlines pass, a context that is done kills its process, and           *)
(* goroutines run on.  Nothing is assumed of commands or callers.          *)
Fairness ==
  \A e \in Execs :
    WF_vars(Deadline(e)) /\ WF_vars(KillExpired(e)) /\ WF_vars(ExecStep(e))

FairSpec == Spec /\ Fairness

-----------------------------------------------------------------------------
(* A process that runs without being the one in the map was overwritten    *)
(* there by a later request, or is about to be inserted: closing a session *)
(* never leaves its process behind (bash.go:491-500).                      *)
StrayWasOverwritten ==
  \A e \in Execs :
    proc[e] = "running" /\ epc[e] # "insert" /\ current # e => e \in overwritten

(* Every Exec is answered, every waiter ends, and so does every process,   *)
(* even one that is overwritten, ignores signals and never exits by        *)
(* itself: nothing but the deadline of its context stops it (bash.go:158-  *)
(* 342, executor/bwrap.go Prepare).                                        *)
EveryExecEnds ==
  \A e \in Execs :
    epc[e] # "idle" ~> epc[e] = "done" /\ proc[e] # "running"

(* No command in the map is shown as running for ever: whoever overwrites  *)
(* or closes it, its own waiter or handler, or another one's, marks it.    *)
NoneRunsForEver ==
  \A e \in Execs :
    current = e /\ status[e] = "running"
      ~> current # e \/ status[e] # "running"

(* A command is marked as completed while its process still runs only by   *)
(* the waiter of another, asynchronous, command, which had the same key    *)
(* before (waitCommand looks the session up by key, bash.go:329).          *)
EarlyMarkIsAnothers ==
  \A e \in Execs :
    status[e] = "completed" /\ proc[e] = "running" =>
      \E d \in Execs \ {e} : mode[d] = "async" /\ epc[d] = "done"

=============================================================================
