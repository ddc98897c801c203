---------------------------- MODULE MCSkillSync ----------------------------
(* SkillSync with two requests, which are interchangeable. *)
EXTENDS SkillSync, TLC

CONSTANTS r1, r2

MCRequests == {r1, r2}
Symmetry == Permutations(MCRequests)
=============================================================================
