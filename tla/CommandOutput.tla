--------------------------- MODULE CommandOutput ---------------------------
(***************************************************************************)
(* The output of a running command (threadSafeBuffer and the Output        *)
(* handler of handler/bash.go) and the client that polls it.               *)
(*                                                                         *)
(* The process appends to two buffers, each with a lock of its own, while  *)
(* a request reads what is there from an offset, then asks for the length, *)
(* which is the offset the client comes back with, and reads the status    *)
(* last.  Each of these takes a lock anew, or none.                        *)
(***************************************************************************)
EXTENDS Naturals

CONSTANT MaxOutput  \* writes to a stream (bounds the model)

VARIABLES
  out,          \* stream -> length of its buffer
  running,      \* the status of the command is running
  polling,      \* what the Output request in progress does next
  offset,       \* stream -> offset of the client's next request
  given,        \* stream -> how much of it the client was given
  told          \* whether the last answer said that the command is running

vars == <<out, running, polling, offset, given, told>>

Streams == {"stdout", "stderr"}
Nothing == [s \in Streams |-> 0]

Init ==
  /\ out = Nothing /\ running = TRUE
  /\ polling = "no" /\ offset = Nothing /\ given = Nothing /\ told = TRUE

(* The process writes to a stream. *)
Write(s) ==
  /\ running /\ out[s] < MaxOutput
  /\ out' = [out EXCEPT ![s] = @ + 1]
  /\ UNCHANGED <<running, polling, offset, given, told>>

(* It ends, its output is copied, and its session is marked. *)
Exit ==
  /\ running /\ running' = FALSE
  /\ UNCHANGED <<out, polling, offset, given, told>>

(* A client asks until it is told that the command has ended. *)
PollBegin ==
  /\ polling = "no" /\ told
  /\ polling' = "stdout"
  /\ UNCHANGED <<out, running, offset, given, told>>

(* ReadFromOffset: what follows the offset, or nothing. *)
Rest(s) == IF offset[s] < out[s] THEN out[s] - offset[s] ELSE 0

Read(s, next) ==
  /\ polling = s /\ polling' = next
  /\ given' = [given EXCEPT ![s] = @ + Rest(s)]
  /\ UNCHANGED <<out, running, offset, told>>

(* Len, for the offset in the answer. *)
Length(s, here, next) ==
  /\ polling = here /\ polling' = next
  /\ offset' = [offset EXCEPT ![s] = out[s]]
  /\ UNCHANGED <<out, running, given, told>>

Answer ==
  /\ polling = "status" /\ polling' = "no"
  /\ told' = running
  /\ UNCHANGED <<out, running, offset, given>>

Next ==
  \/ \E s \in Streams : Write(s)
  \/ Exit \/ PollBegin
  \/ Read("stdout", "stderr") \/ Read("stderr", "stdout length")
  \/ Length("stdout", "stdout length", "stderr length")
  \/ Length("stderr", "stderr length", "status")
  \/ Answer

Spec == Init /\ [][Next]_vars

-----------------------------------------------------------------------------
(* client/bash.go:26 "BashOutput reads incremental output from a running   *)
(* command": a client that passes on the offset of each answer has been    *)
(* given all of the output up to it.                                       *)
NothingSkipped ==
  polling = "no" => \A s \in Streams : given[s] >= offset[s]
=============================================================================
