------------------------------ MODULE AuditLog ------------------------------
(***************************************************************************)
(* What the audit log promises to those who write to it: which entries are *)
(* in the file at their session's path when the write has returned.  There *)
(* are no handles here, no map of them, no retries and no eviction.        *)
(*                                                                         *)
(* An entry is kept, unless its session was being deleted beside its       *)
(* write, or a write beside an earlier deletion opened the file between    *)
(* the two halves of that deletion and what it opened is still open.       *)
(***************************************************************************)
CONSTANTS
  Writers,
  Sessions,
  None

VARIABLES
  writing,      \* writer -> session of the entry it is writing
  met,          \* writers whose session was being deleted meanwhile
  last,         \* writer -> what became of its last entry
  removing,     \* session that is being deleted
  opened,       \* a write that met the deletion has opened the file
  astray        \* sessions with such a file open that is no longer at the path

vars == <<writing, met, last, removing, opened, astray>>

Outcomes == {"kept", "lost", "refused", "failed"}

Init ==
  /\ writing = [w \in Writers |-> None] /\ met = {}
  /\ last = [w \in Writers |-> None]
  /\ removing = None /\ opened = FALSE /\ astray = {}

Begin(w, s) ==
  /\ writing[w] = None
  /\ writing' = [writing EXCEPT ![w] = s]
  /\ met' = IF removing = s THEN met \cup {w} ELSE met
  /\ last' = [last EXCEPT ![w] = None]
  /\ UNCHANGED <<removing, opened, astray>>

(* The file is opened beside the deletion of the session. *)
Open(w) ==
  /\ w \in met /\ removing # None /\ writing[w] = removing
  /\ opened' = TRUE
  /\ UNCHANGED <<writing, met, last, removing, astray>>

(* The write returns; refused means that the file was not to be had. *)
End(w, outcome) ==
  /\ writing[w] # None
  /\ outcome = "lost" => w \in met \/ writing[w] \in astray
  /\ outcome = "failed" => w \in met
  /\ writing' = [writing EXCEPT ![w] = None]
  /\ met' = met \ {w}
  /\ last' = [last EXCEPT ![w] = outcome]
  /\ UNCHANGED <<removing, opened, astray>>

RemoveBegin(s) ==
  /\ removing = None
  /\ removing' = s
  /\ met' = met \cup {w \in Writers : writing[w] = s}
  /\ UNCHANGED <<writing, last, opened, astray>>

(* The file at the path is gone. *)
RemoveEnd ==
  /\ removing # None
  /\ removing' = None /\ opened' = FALSE
  /\ astray' = IF opened THEN astray \cup {removing} ELSE astray
  /\ UNCHANGED <<writing, met, last>>

(* What was open is closed. *)
Close ==
  /\ opened' \in {opened, FALSE} /\ astray' \in SUBSET astray
  /\ UNCHANGED <<writing, met, last, removing>>

Next ==
  \/ \E w \in Writers, s \in Sessions : Begin(w, s)
  \/ \E w \in Writers : Open(w) \/ \E outcome \in Outcomes : End(w, outcome)
  \/ \E s \in Sessions : RemoveBegin(s)
  \/ RemoveEnd \/ Close

Spec == Init /\ [][Next]_vars
=============================================================================
