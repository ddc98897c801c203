-------------------------- MODULE MCSessionManager --------------------------
(* SessionManager with two requests that meet in one session. *)
EXTENDS SessionManager

CONSTANTS r1, r2, s1

MCRequests == {r1, r2}
MCSessions == {s1}
=============================================================================
