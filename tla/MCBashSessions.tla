--------------------------- MODULE MCBashSessions ---------------------------
(* BashSessions with two commands and one CreateSession request. *)
EXTENDS BashSessions

CONSTANTS e1, e2, c1

MCExecs == {e1, e2}
MCCreates == {c1}
=============================================================================
