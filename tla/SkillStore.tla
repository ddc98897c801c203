----------------------------- MODULE SkillStore -----------------------------
(***************************************************************************)
(* What the skill registry promises: named skills, each some versions and  *)
(* perhaps an active one, which agents are given at once, under the name   *)
(* of the skill.  There are no directories or metadata here, no deployment *)
(* beside the recording of it, and no operation that comes in two parts.   *)
(*                                                                         *)
(* Nothing is promised of a name on which a step failed, until a later     *)
(* operation repairs it: it is not in the domain of skills.                *)
(***************************************************************************)
CONSTANTS
  Names,
  VersionIds,
  Contents,
  Absent

VARIABLES
  skills,       \* name -> its versions and which of them is active
  agents        \* name -> what agents are given

vars == <<skills, agents>>

Versions == [VersionIds -> Contents \cup {Absent}]

None == [v \in VersionIds |-> Absent]

Nothing == [versions |-> None, active |-> Absent]

Known == DOMAIN skills

(* What agents are given of skill n. *)
Offered(n, versions, active) ==
  IF active = Absent THEN Absent
  ELSE [content |-> versions[active], label |-> n]

Init ==
  /\ skills = [n \in Names |-> Nothing]
  /\ agents = [n \in Names |-> Absent]

With(f, n, x) == [m \in DOMAIN f \cup {n} |-> IF m = n THEN x ELSE f[m]]
Without(f, ns) == [m \in DOMAIN f \ ns |-> f[m]]

(* Skill n changes, for its clients and for agents, and no other does.     *)
Becomes(n, versions, active) ==
  /\ skills' = With(skills, n, [versions |-> versions, active |-> active])
  /\ agents' = With(agents, n, Offered(n, versions, active))

(* Version v of n is added, or changed. *)
Put(n, v, c) ==
  /\ n \in Known
  /\ Becomes(n, [skills[n].versions EXCEPT ![v] = c], skills[n].active)

Drop(n, v) ==
  /\ n \in Known /\ skills[n].active # v
  /\ Becomes(n, [skills[n].versions EXCEPT ![v] = Absent], skills[n].active)

Activate(n, v) ==
  /\ n \in Known /\ skills[n].versions[v] # Absent
  /\ Becomes(n, skills[n].versions, v)

(* A new version is active from the first. *)
Publish(n, v, c) ==
  /\ n \in Known
  /\ Becomes(n, [skills[n].versions EXCEPT ![v] = c], v)

(* An activation repairs the name. *)
Repair(n, v) ==
  /\ n \notin Known
  /\ \E versions \in Versions :
       versions[v] # Absent /\ Becomes(n, versions, v)

Withdraw(n) == Becomes(n, None, Absent)

Copy(n, m) ==
  /\ m \in Known /\ skills[m] = Nothing
  /\ \E versions \in Versions :
       /\ n \in Known => versions = skills[n].versions
       /\ Becomes(m, versions, Absent)

(* The old name is free again; what is known of the new one is what was    *)
(* known of the old.                                                       *)
Move(n, m) ==
  /\ n # m
  /\ m \in Known => skills[m] = Nothing
  /\ IF {n, m} \subseteq Known
     THEN LET given == Offered(m, skills[n].versions, skills[n].active) IN
          /\ skills' = With(With(skills, m, skills[n]), n, Nothing)
          /\ agents' = With(With(agents, m, given), n, Absent)
     ELSE /\ skills' = With(Without(skills, {m}), n, Nothing)
          /\ agents' = With(Without(agents, {m}), n, Absent)

Damage(ns) ==
  skills' = Without(skills, ns) /\ agents' = Without(agents, ns)

Next ==
  \/ \E ns \in SUBSET Names : Damage(ns)
  \/ \E n \in Names :
       \/ Withdraw(n)
       \/ \E m \in Names : Move(n, m) \/ Copy(n, m)
       \/ \E v \in VersionIds :
            \/ Drop(n, v) \/ Activate(n, v) \/ Repair(n, v)
            \/ \E c \in Contents : Put(n, v, c) \/ Publish(n, v, c)

Spec == Init /\ [][Next]_vars
=============================================================================
