--------------------------- MODULE MCAuditWriter ---------------------------
(* AuditWriter with interchangeable writers, sessions and handles. *)
EXTENDS AuditWriter, TLC

CONSTANTS w1, w2, s1, s2, h1, h2, h3, h4

MCWriters == {w1, w2}
MCSessions == {s1, s2}
MCHandles == {h1, h2, h3, h4}

Symmetry ==
  Permutations(MCWriters) \cup Permutations(MCSessions)
    \cup Permutations(MCHandles)
=============================================================================
