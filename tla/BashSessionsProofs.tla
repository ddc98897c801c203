-------------------------- MODULE BashSessionsProofs -------------------------
(***************************************************************************)
(* Theorems about BashSessions, for any Execs and Creates of one key.      *)
(***************************************************************************)
EXTENDS BashSessions, TLAPS

(* The command of an asynchronous Exec has ended when its waiter goes on   *)
(* to mark it; only such an Exec has a waiter.                             *)
WaiterInv ==
  \A e \in Execs : epc[e] = "mark" => mode[e] = "async" /\ proc[e] = "exited"

(* Nobody finds, kills or marks a command that is not in the map yet.      *)
BeforeInsertInv ==
  \A e \in Execs : epc[e] \in {"idle", "insert"} =>
    current # e /\ killing # e /\ status[e] = "running"

BashInv ==
  /\ BashTypeOK /\ WaiterInv /\ BeforeInsertInv
  /\ StrayWasOverwritten /\ EarlyMarkIsAnothers

-----------------------------------------------------------------------------

(* No command has been started.                                            *)
LEMMA InitInv == Init => BashInv
<1> SUFFICES ASSUME Init  PROVE BashInv
  OBVIOUS
<1>1. BashTypeOK
  BY BashAssumption DEF BashTypeOK, Init
<1>2. WaiterInv
  BY DEF WaiterInv, Init
<1>3. BeforeInsertInv
  BY BashAssumption DEF BeforeInsertInv, Init
<1>4. StrayWasOverwritten
  BY DEF StrayWasOverwritten, Init
<1>5. EarlyMarkIsAnothers
  BY DEF EarlyMarkIsAnothers, Init
<1> QED
  BY <1>1, <1>2, <1>3, <1>4, <1>5 DEF BashInv

(* Killing a command ends its process if it runs, and touches no other.    *)
LEMMA KilledEnds ==
  ASSUME BashTypeOK, NEW e \in Execs, Killed(e)
  PROVE  /\ proc' \in [Execs -> {"none", "running", "exited"}]
         /\ bad' \in [Execs -> BOOLEAN]
         /\ proc'[e] # "running"
         /\ \A d \in Execs : proc[d] = "exited" => proc'[d] = "exited"
         /\ \A d \in Execs : proc'[d] = "running" => proc[d] = "running"
BY DEF BashTypeOK, Killed

(* Every action keeps the invariant.                                       *)
LEMMA NextInv ==
  ASSUME BashInv, [Next]_vars
  PROVE  BashInv'
<1>0. Execs \cap Creates = {} /\ None \notin Execs \cup Creates
  BY BashAssumption
<1> USE <1>0
<1>1. ASSUME NEW e \in Execs, Exit(e)
      PROVE  BashInv'
  <2>1. BeforeInsertInv'
    BY <1>1 DEF BashInv, BeforeInsertInv, mapVars, Exit
  <2>2. BashTypeOK'
    BY <1>1 DEF BashInv, BashTypeOK, mapVars, Exit
  <2>3. WaiterInv'
    BY <1>1 DEF BashInv, WaiterInv, Exit
  <2>4. StrayWasOverwritten'
    BY <1>1 DEF BashInv, StrayWasOverwritten, mapVars, Exit
  <2>5. EarlyMarkIsAnothers'
    BY <1>1 DEF BashInv, EarlyMarkIsAnothers, Exit
  <2> QED
    BY <2>1, <2>2, <2>3, <2>4, <2>5 DEF BashInv
<1>2. ASSUME NEW e \in Execs, Deadline(e)
      PROVE  BashInv'
  <2>1. /\ WaiterInv' /\ BeforeInsertInv' /\ StrayWasOverwritten'
        /\ EarlyMarkIsAnothers'
    BY <1>2 DEF BashInv, WaiterInv, BeforeInsertInv, StrayWasOverwritten,
       EarlyMarkIsAnothers, mapVars, Deadline
  <2>2. BashTypeOK'
    BY <1>2 DEF BashInv, BashTypeOK, mapVars, Deadline
  <2> QED
    BY <2>1, <2>2 DEF BashInv
<1>3. ASSUME NEW e \in Execs, KillExpired(e)
      PROVE  BashInv'
  <2>1. BeforeInsertInv'
    BY <1>3 DEF BashInv, BeforeInsertInv, mapVars, KillExpired
  <2>2. BashTypeOK'
    BY <1>3 DEF BashInv, BashTypeOK, mapVars, KillExpired, Killed
  <2>3. WaiterInv'
    BY <1>3 DEF BashInv, WaiterInv, KillExpired, Killed
  <2>4. StrayWasOverwritten'
    BY <1>3 DEF BashInv, StrayWasOverwritten, mapVars, KillExpired, Killed
  <2>5. EarlyMarkIsAnothers'
    BY <1>3 DEF BashInv, EarlyMarkIsAnothers, KillExpired, Killed
  <2> QED
    BY <2>1, <2>2, <2>3, <2>4, <2>5 DEF BashInv
<1>4. ASSUME NEW e \in Execs, ExecStart(e)
      PROVE  BashInv'
  <2>1. BashTypeOK'
    BY <1>4 DEF BashInv, BashTypeOK, mapVars, ExecStart
  <2>2. WaiterInv'
    BY <1>4 DEF BashInv, WaiterInv, ExecStart
  <2>3. BeforeInsertInv'
    BY <1>4 DEF BashInv, BeforeInsertInv, mapVars, ExecStart
  <2>4. StrayWasOverwritten'
    BY <1>4 DEF BashInv, BashTypeOK, StrayWasOverwritten, mapVars, ExecStart
  <2>5. EarlyMarkIsAnothers'
    BY <1>4 DEF BashInv, BeforeInsertInv, EarlyMarkIsAnothers, ExecStart
  <2> QED
    BY <2>1, <2>2, <2>3, <2>4, <2>5 DEF BashInv
<1>5. ASSUME NEW e \in Execs, ExecInsert(e)
      PROVE  BashInv'
  <2>1. BashTypeOK'
    BY <1>5 DEF BashInv, BashTypeOK, processVars, ExecInsert, Insert
  <2>2. WaiterInv'
    BY <1>5 DEF BashInv, WaiterInv, processVars, ExecInsert
  <2>3. BeforeInsertInv'
    BY <1>5 DEF BashInv, BashTypeOK, BeforeInsertInv, ExecInsert, Insert
  <2>4. StrayWasOverwritten'
    BY <1>5 DEF BashInv, StrayWasOverwritten, processVars, ExecInsert, Insert
  <2>5. EarlyMarkIsAnothers'
    BY <1>5 DEF BashInv, EarlyMarkIsAnothers, processVars, ExecInsert
  <2> QED
    BY <2>1, <2>2, <2>3, <2>4, <2>5 DEF BashInv
<1>6. ASSUME NEW e \in Execs, ExecDone(e)
      PROVE  BashInv'
  <2>1. BashTypeOK'
    BY <1>6 DEF BashInv, BashTypeOK, mapVars, processVars, ExecDone, Finish
  <2>2. WaiterInv'
    BY <1>6 DEF BashInv, WaiterInv, processVars, ExecDone, Finish
  <2>3. BeforeInsertInv'
    BY <1>6 DEF BashInv, BeforeInsertInv, mapVars, ExecDone, Finish
  <2>4. StrayWasOverwritten'
    BY <1>6 DEF BashInv, StrayWasOverwritten, mapVars, processVars, ExecDone,
       Finish
  <2>5. EarlyMarkIsAnothers'
    BY <1>6 DEF BashInv, EarlyMarkIsAnothers, processVars, ExecDone, Finish
  <2> QED
    BY <2>1, <2>2, <2>3, <2>4, <2>5 DEF BashInv
<1>7. ASSUME NEW e \in Execs, ExecTimedOut(e)
      PROVE  BashInv'
  <2>1. BashTypeOK'
    BY <1>7 DEF BashInv, BashTypeOK, mapVars, ExecTimedOut, Finish, Killed
  <2>2. WaiterInv'
    BY <1>7 DEF BashInv, WaiterInv, ExecTimedOut, Finish, Killed
  <2>3. BeforeInsertInv'
    BY <1>7 DEF BashInv, BeforeInsertInv, mapVars, ExecTimedOut, Finish
  <2>4. StrayWasOverwritten'
    BY <1>7 DEF BashInv, StrayWasOverwritten, mapVars, ExecTimedOut, Finish,
       Killed
  <2>5. EarlyMarkIsAnothers'
    BY <1>7 DEF BashInv, EarlyMarkIsAnothers, ExecTimedOut, Finish, Killed
  <2> QED
    BY <2>1, <2>2, <2>3, <2>4, <2>5 DEF BashInv
<1>8. ASSUME NEW e \in Execs, WaitReturns(e)
      PROVE  BashInv'
  <2>1. BashTypeOK'
    BY <1>8 DEF BashInv, BashTypeOK, mapVars, processVars, WaitReturns
  <2>2. WaiterInv'
    BY <1>8 DEF BashInv, WaiterInv, processVars, WaitReturns, WaitOver
  <2>3. BeforeInsertInv'
    BY <1>8 DEF BashInv, BeforeInsertInv, mapVars, WaitReturns
  <2>4. StrayWasOverwritten'
    BY <1>8 DEF BashInv, StrayWasOverwritten, mapVars, processVars,
       WaitReturns
  <2>5. EarlyMarkIsAnothers'
    BY <1>8 DEF BashInv, EarlyMarkIsAnothers, processVars, WaitReturns
  <2> QED
    BY <2>1, <2>2, <2>3, <2>4, <2>5 DEF BashInv
<1>9. ASSUME NEW e \in Execs, WaitMarks(e)
      PROVE  BashInv'
  <2>1. BashTypeOK'
    BY <1>9 DEF BashInv, BashTypeOK, mapVars, processVars, WaitMarks, Mark,
       Finish
  <2>2. WaiterInv'
    BY <1>9 DEF BashInv, BashTypeOK, WaiterInv, processVars, WaitMarks, Mark,
       Finish
  <2>3. BeforeInsertInv'
    BY <1>9 DEF BashInv, BashTypeOK, BeforeInsertInv, mapVars, WaitMarks,
       Mark, Finish
  <2>4. StrayWasOverwritten'
    BY <1>9 DEF BashInv, BashTypeOK, StrayWasOverwritten, mapVars,
       processVars, WaitMarks, Mark, Finish
  <2>5. EarlyMarkIsAnothers'
    BY <1>9 DEF BashInv, BashTypeOK, WaiterInv, EarlyMarkIsAnothers,
       processVars, WaitMarks, Mark, Finish
  <2> QED
    BY <2>1, <2>2, <2>3, <2>4, <2>5 DEF BashInv
<1>10. ASSUME ServerDies
       PROVE  BashInv'
  <2>1. BashTypeOK'
    BY <1>10 DEF BashInv, BashTypeOK, ServerDies
  <2>2. WaiterInv'
    BY <1>10 DEF WaiterInv, ServerDies
  <2>3. BeforeInsertInv'
    BY <1>10 DEF BeforeInsertInv, ServerDies
  <2>4. StrayWasOverwritten'
    BY <1>10 DEF StrayWasOverwritten, ServerDies
  <2>5. EarlyMarkIsAnothers'
    BY <1>10 DEF EarlyMarkIsAnothers, ServerDies
  <2> QED
    BY <2>1, <2>2, <2>3, <2>4, <2>5 DEF BashInv
<1>11. ASSUME NEW c \in Creates, CreateCheck(c)
       PROVE  BashInv'
  <2>1. /\ WaiterInv' /\ BeforeInsertInv' /\ StrayWasOverwritten'
        /\ EarlyMarkIsAnothers'
    BY <1>11 DEF BashInv, WaiterInv, BeforeInsertInv, StrayWasOverwritten,
       EarlyMarkIsAnothers, mapVars, processVars, CreateCheck
  <2>2. BashTypeOK'
    BY <1>11 DEF BashInv, BashTypeOK, mapVars, processVars, CreateCheck
  <2> QED
    BY <2>1, <2>2 DEF BashInv
<1>12. ASSUME NEW c \in Creates, CreateShow(c), ~ServerDies
       PROVE  BashInv'
  <2>1. /\ WaiterInv' /\ BeforeInsertInv' /\ StrayWasOverwritten'
        /\ EarlyMarkIsAnothers'
    BY <1>12 DEF BashInv, WaiterInv, BeforeInsertInv, StrayWasOverwritten,
       EarlyMarkIsAnothers, mapVars, processVars, CreateShow
  <2>2. BashTypeOK'
    BY <1>12 DEF BashInv, BashTypeOK, mapVars, processVars, CreateShow
  <2> QED
    BY <2>1, <2>2 DEF BashInv
<1>13. ASSUME NEW c \in Creates, CreateInsert(c)
       PROVE  BashInv'
  <2>1. WaiterInv' /\ EarlyMarkIsAnothers'
    BY <1>13 DEF BashInv, WaiterInv, EarlyMarkIsAnothers, processVars,
       CreateInsert
  <2>2. BashTypeOK'
    BY <1>13 DEF BashInv, BashTypeOK, processVars, CreateInsert, Insert
  <2>3. BeforeInsertInv'
    BY <1>13 DEF BashInv, BeforeInsertInv, CreateInsert, Insert
  <2>4. StrayWasOverwritten'
    BY <1>13 DEF BashInv, StrayWasOverwritten, processVars, CreateInsert,
       Insert
  <2> QED
    BY <2>1, <2>2, <2>3, <2>4 DEF BashInv
<1>14. ASSUME CloseSession
       PROVE  BashInv'
  <2>1. /\ proc' \in [Execs -> {"none", "running", "exited"}]
        /\ bad' \in [Execs -> BOOLEAN]
        /\ \A d \in Execs : proc[d] = "exited" => proc'[d] = "exited"
        /\ \A d \in Execs : proc'[d] = "running" => proc[d] = "running"
        /\ current \in Execs => proc'[current] # "running"
    BY <1>14, KilledEnds DEF CloseSession, CloseKills, BashInv, BashTypeOK
  <2>2. expired' \in [Execs -> BOOLEAN]
    BY <2>1, <1>14 DEF CloseSession, CloseKills, BashInv, BashTypeOK
  <2>3. /\ current' = None
        /\ UNCHANGED <<overwritten, mode, epc, cpc, status, killing, crashed>>
    BY <1>14 DEF CloseSession
  <2>4. BashTypeOK'
    BY <2>1, <2>2, <2>3 DEF BashInv, BashTypeOK
  <2>5. WaiterInv'
    BY <2>1, <2>3 DEF BashInv, WaiterInv
  <2>6. BeforeInsertInv'
    BY <2>3 DEF BashInv, BeforeInsertInv
  <2>7. StrayWasOverwritten'
    BY <2>1, <2>3 DEF BashInv, StrayWasOverwritten
  <2>8. EarlyMarkIsAnothers'
    BY <2>1, <2>3 DEF BashInv, EarlyMarkIsAnothers
  <2> QED
    BY <2>4, <2>5, <2>6, <2>7, <2>8 DEF BashInv
<1>15. ASSUME KillBegin
       PROVE  BashInv'
  <2>1. WaiterInv' /\ StrayWasOverwritten' /\ EarlyMarkIsAnothers'
    BY <1>15 DEF BashInv, WaiterInv, StrayWasOverwritten,
       EarlyMarkIsAnothers, mapVars, processVars, KillBegin
  <2>2. BashTypeOK'
    BY <1>15 DEF BashInv, BashTypeOK, mapVars, processVars, KillBegin
  <2>3. BeforeInsertInv'
    BY <1>15 DEF BashInv, BeforeInsertInv, mapVars, KillBegin
  <2> QED
    BY <2>1, <2>2, <2>3 DEF BashInv
<1>16. ASSUME KillEnd
       PROVE  BashInv'
  <2>1. killing \in Execs
    BY <1>16 DEF KillEnd, BashInv, BashTypeOK
  <2>2. /\ proc' \in [Execs -> {"none", "running", "exited"}]
        /\ bad' \in [Execs -> BOOLEAN]
        /\ \A d \in Execs : proc[d] = "exited" => proc'[d] = "exited"
        /\ \A d \in Execs : proc'[d] = "running" => proc[d] = "running"
    BY <1>16, KilledEnds DEF KillEnd, BashInv, BashTypeOK
  <2>3. /\ killing' = None /\ status' = [status EXCEPT ![killing] = "killed"]
        /\ UNCHANGED <<mapVars, mode, epc, cpc, expired, crashed>>
    BY <1>16 DEF KillEnd
  <2>4. BashTypeOK'
    BY <2>1, <2>2, <2>3 DEF BashInv, mapVars, BashTypeOK
  <2>5. WaiterInv'
    BY <2>2, <2>3 DEF BashInv, WaiterInv
  <2>6. BeforeInsertInv'
    BY <2>3 DEF BashInv, mapVars, BeforeInsertInv
  <2>7. StrayWasOverwritten'
    BY <2>2, <2>3 DEF BashInv, mapVars, StrayWasOverwritten
  <2>8. EarlyMarkIsAnothers'
    BY <2>2, <2>3 DEF BashInv, EarlyMarkIsAnothers
  <2> QED
    BY <2>4, <2>5, <2>6, <2>7, <2>8 DEF BashInv
<1>17. ASSUME UNCHANGED vars
       PROVE  BashInv'
  <2>1. /\ BashTypeOK' /\ WaiterInv' /\ BeforeInsertInv'
        /\ StrayWasOverwritten' /\ EarlyMarkIsAnothers'
    BY <1>17 DEF BashInv, BashTypeOK, WaiterInv, BeforeInsertInv,
       StrayWasOverwritten, EarlyMarkIsAnothers, mapVars, processVars, vars
  <2> QED
    BY <2>1 DEF BashInv
<1> QED
  BY <1>1, <1>2, <1>3, <1>4, <1>5, <1>6, <1>7, <1>8, <1>9, <1>10, <1>11,
     <1>12, <1>13, <1>14, <1>15, <1>16, <1>17 DEF Next, ExecStep,
     ProcessStep, CreateStep, WaiterPanics, OtherPanics

(* Every reachable state satisfies the invariant.                          *)
LEMMA InvAlways == Spec => []BashInv
BY InitInv, NextInv, PTL DEF Spec

(* Types are kept, also through the panic of a waiter that ends the server *)
(* (bash.go:327-345, 366-415, 463-520).                                    *)
THEOREM BashTypeCorrect == Spec => []BashTypeOK
<1>1. BashInv => BashTypeOK
  BY DEF BashInv
<1> QED
  BY <1>1, InvAlways, PTL

(* A process that runs outside the map was overwritten there by a later    *)
(* request of the same key, and by nothing else: no path of CloseSession,  *)
(* KillProcess or the waiter loses one (bash.go:366-415, 463-520).         *)
THEOREM StrayAlwaysWasOverwritten == Spec => []StrayWasOverwritten
<1>1. BashInv => StrayWasOverwritten
  BY DEF BashInv
<1> QED
  BY <1>1, InvAlways, PTL

(* A command is never marked completed by its own waiter while it runs:    *)
(* only by that of another command of the same key (bash.go:327-345).      *)
THEOREM EarlyMarkIsAlwaysAnothers == Spec => []EarlyMarkIsAnothers
<1>1. BashInv => EarlyMarkIsAnothers
  BY DEF BashInv
<1> QED
  BY <1>1, InvAlways, PTL
=============================================================================
