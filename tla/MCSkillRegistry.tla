-------------------------- MODULE MCSkillRegistry --------------------------
(* SkillRegistry on two names, so that renames and copies meet, and few    *)
(* version ids.                                                            *)
EXTENDS SkillRegistry, TLC

CONSTANTS a, b, v1, v2, empty, text

MCNames == {a, b}
MCVersionIds == {v1, v2}
MCContents == {empty, text}

Symmetry == Permutations(MCNames) \cup Permutations(MCVersionIds)
=============================================================================
