--------------------------- MODULE MCFileHandler ---------------------------
(* Two requests at a time, by sessions with and without project data.      *)
EXTENDS FileHandler

CONSTANTS s1, s2

MCSlots == {s1, s2}
MCMounts == {[host |-> "session", user |-> FALSE, project |-> FALSE],
             [host |-> "session", user |-> TRUE, project |-> TRUE]}
MCFileRequests == {<<"home", "project", "f">>}
MCDirRequests == {<<"home", "project">>, <<"home", "project", "f">>}
MCWorkingDirs == {<<"home", "project", "w">>, <<"agents", "skills", "x">>}
MCPlaces == {<<"home", "project", n>> : n \in {"f", "g|h", "g"}}
MCReadAs == [p \in MCPlaces |-> <<"home", "project",
               IF p = <<"home", "project", "f">> THEN "f" ELSE "g">>]
MCHeld == {Location("project", <<"g|h">>)}
MCLimits == {1, 3}
Symmetry == Permutations(MCSlots)
=============================================================================
