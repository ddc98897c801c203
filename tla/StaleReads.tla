----------------------------- MODULE StaleReads -----------------------------
(***************************************************************************)
(* What callers of a list that is cached may rely on: whatever a call      *)
(* answers was the server's list at some moment not longer ago than Bound. *)
(* How the answer came about, from a cache, a request of the caller's own  *)
(* or one it shares with others, is left open.                             *)
(***************************************************************************)
EXTENDS Naturals

CONSTANTS
  Callers,
  Bound,        \* how old an answer may be
  None

VARIABLES
  now,          \* the time
  asking,       \* callers that wait for an answer
  given         \* caller -> the moment its answer is from, if the last step
                \* gave it one

vars == <<now, asking, given>>

Nobody == [c \in Callers |-> None]

Init == now = 0 /\ asking = {} /\ given = Nobody

Ask(c) == asking' = asking \cup {c} /\ given' = Nobody /\ UNCHANGED now

(* The callers of S get the list of moment t. *)
Give(S, t) ==
  /\ S \subseteq asking /\ asking' = asking \ S
  /\ t <= now /\ now <= t + Bound
  /\ given' = [c \in Callers |-> IF c \in S THEN t ELSE None]
  /\ UNCHANGED now

(* They get an error. *)
Fail(S) ==
  /\ S \subseteq asking /\ asking' = asking \ S
  /\ given' = Nobody /\ UNCHANGED now

Tick == now' = now + 1 /\ given' = Nobody /\ UNCHANGED asking

Next ==
  \/ \E c \in Callers : Ask(c)
  \/ \E S \in SUBSET Callers : Fail(S) \/ \E t \in 0 .. now : Give(S, t)
  \/ Tick

Spec == Init /\ [][Next]_vars
=============================================================================
