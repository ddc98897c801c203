------------------------- MODULE MCClientListCache -------------------------
(* ClientListCache with two callers and two keys of one agent. *)
EXTENDS ClientListCache

CONSTANTS c1, c2, k1, k2, a

MCCallers == {c1, c2}
MCKeys == {k1, k2}
MCAgents == {a}
MCAgentOf == [k \in MCKeys |-> a]
=============================================================================
