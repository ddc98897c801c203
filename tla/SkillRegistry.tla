--------------------------- MODULE SkillRegistry ---------------------------
(***************************************************************************)
(* The skill registry (handler/registry.go): named skills, each a          *)
(* directory of versions with a _meta.json that lists them and names the   *)
(* active one, and the store /data/skills/<name> from which agents are     *)
(* served, a copy of the active version.                                   *)
(*                                                                         *)
(* RegistryHandler.mu serialises the handlers, so a handler that runs      *)
(* under the lock is one action.  Three things are left outside the lock   *)
(* or outside its control, and are modelled:                               *)
(*   - the version file operations resolve their path BEFORE they lock, so *)
(*     they are two actions with any other handler in between;             *)
(*   - every write is several system calls, and one of them can fail: each *)
(*     handler has a disjunct per failing step, with the rollback (or none)*)
(*     that the code performs;                                             *)
(*   - a rollback can fail as well, which the code ignores, and the process*)
(*     can be killed inside a handler: the same steps without rollback.    *)
(* Contents of a version are abstract values; descriptions and timestamps  *)
(* are left out.  A _meta.json that is missing and one that cannot be      *)
(* parsed are the same to every handler but for the error code returned.   *)
(***************************************************************************)
EXTENDS Naturals

CONSTANTS
  Names,        \* skill names
  VersionIds,   \* version identifiers that can be handed out (bounds the model)
  Contents,     \* contents of a version directory
  Empty,        \* the content of a freshly made directory
  Clients,      \* callers that can have a file operation in flight
  Absent,       \* no directory, no metadata, no active version, no label
  MaxFaults     \* how many failing steps and kills there may be (bounds the
                \* model)

VARIABLES
  dirs,         \* the names with a directory in the registry
  meta,         \* name -> readable _meta.json of the registry directory
  files,        \* name -> version id -> content of the version directory
  served,       \* name -> /data/skills/<name>
  pend,         \* client -> file operation whose path is resolved
  allocated,    \* version ids ever used
  tainted,      \* names on which a step failed that no later call repaired
  faults        \* number of steps that failed, and of kills

vars == <<dirs, meta, files, served, pend, allocated, tainted, faults>>

(* model.RegistryMetaJSON: Name, ActiveVersion and the ids in Versions. *)
Meta == [name : Names, active : VersionIds \cup {Absent},
         versions : SUBSET VersionIds]

(* A deployed skill: its files, and the name in its own _meta.json. *)
Deployment == [content : Contents, label : Names \cup {Absent}]

(* A file operation with its path resolved.  makes: it creates what is     *)
(* missing on the path (write, mkdir) rather than needing it (update,      *)
(* delete); that is all that sets the four operations apart here.          *)
Pending == [makes : BOOLEAN, name : Names, version : VersionIds]

ASSUME RegistryAssumption ==
  /\ Empty \in Contents
  /\ MaxFaults \in Nat
  /\ Absent \notin Names \cup VersionIds \cup Contents
  /\ Absent \notin Meta \cup Deployment \cup Pending

TypeOK ==
  /\ dirs \subseteq Names
  /\ meta \in [Names -> Meta \cup {Absent}]
  /\ files \in [Names -> [VersionIds -> Contents \cup {Absent}]]
  /\ served \in [Names -> Deployment \cup {Absent}]
  /\ pend \in [Clients -> Pending \cup {Absent}]
  /\ allocated \subseteq VersionIds
  /\ tainted \subseteq Names
  /\ faults \in Nat

NoVersions == [v \in VersionIds |-> Absent]
NoPending == [p \in Clients |-> Absent]

Init ==
  /\ dirs = {}
  /\ meta = [n \in Names |-> Absent]
  /\ files = [n \in Names |-> NoVersions]
  /\ served = [n \in Names |-> Absent]
  /\ pend = NoPending
  /\ allocated = {}
  /\ tainted = {}
  /\ faults = 0

-----------------------------------------------------------------------------
(* Metadata. *)

Readable(n) == meta[n] # Absent
Active(n) == IF Readable(n) THEN meta[n].active ELSE Absent
Listed(n) == IF Readable(n) THEN meta[n].versions ELSE {}

FreshMeta(n) == [name |-> n, active |-> Absent, versions |-> {}]

ForgetfulBaseMeta(n) == FreshMeta(n)  \* MUTANT of BaseMeta: history dropped

(* Commit and import start from the metadata on disk or, when it cannot be *)
(* read for whatever reason, from fresh metadata.                          *)
BaseMeta(n) == IF Readable(n) THEN meta[n] ELSE FreshMeta(n)

PrunesVersions(m, v) ==  \* MUTANT of WithVersion: idle versions are dropped
  [m EXCEPT !.versions = {m.active, v} \ {Absent}]

WithVersion(m, v) == [m EXCEPT !.versions = @ \cup {v}]

NoVersionList(m, v) ==  \* MUTANT of WithoutVersion: the list is left out
  [name |-> m.name, active |-> m.active]

WithoutVersion(m, v) == [m EXCEPT !.versions = @ \ {v}]
Activated(m, v) == [m EXCEPT !.active = v]

KeepsOldName(m, n) == m  \* MUTANT of WithName: rename leaves the old name

WithName(m, n) == [m EXCEPT !.name = n]

(* os.WriteFile of _meta.json fails: either nothing was written or the     *)
(* file was truncated and can no longer be parsed.                         *)
MetaWriteFails(n, old) ==
  \E m \in {old, Absent} : meta' = [meta EXCEPT ![n] = m]

-----------------------------------------------------------------------------
(* How a handler ends.                                                     *)

Returned(t) == tainted' = t /\ UNCHANGED <<pend, faults>>

Fault(ns) ==
  /\ faults < MaxFaults /\ faults' = faults + 1
  /\ tainted' = tainted \cup ns

(* A step failed and the handler returned (or swallowed) the error. *)
Failed(ns) == Fault(ns) /\ UNCHANGED pend

(* The process was killed at that step; requests in flight are gone. *)
Crashed(ns) == Fault(ns) /\ pend' = NoPending

(* What is left is the same if the process was killed and if the step      *)
(* failed and there was no rollback, or one that failed, too.              *)
Interrupted(ns) == Failed(ns) \/ Crashed(ns)

-----------------------------------------------------------------------------
(* deployVersionToSkills: remove /data/skills/<k>, copy the version there, *)
(* write its _meta.json.  k is the name in the registry metadata, not the  *)
(* name of the directory the version came from.                            *)

Published(k, c) == [content |-> c, label |-> k]

Deploy(k, c) == served' = [served EXCEPT ![k] = Published(k, c)]

(* Stopped part-way it may leave the old copy's _meta.json, or one that    *)
(* came with the version, which can name any skill.                        *)
DeployFails(k) ==
  \E d \in Deployment \cup {Absent} : served' = [served EXCEPT ![k] = d]

(* The taint after version c of n was published under name k: publishing   *)
(* under one's own name repairs n, under another name it damages k.        *)
TaintAfterDeploy(n, k) == IF k = n THEN tainted \ {n} ELSE tainted \cup {k}

(* Deploy first, write the new metadata second: the order all three        *)
(* activating handlers use.  old is the metadata on disk until then.       *)
DeployAndRecord(n, c, old, new) ==
  \/ /\ Deploy(new.name, c)
     /\ meta' = [meta EXCEPT ![n] = new]
     /\ Returned(TaintAfterDeploy(n, new.name))
  \/ /\ DeployFails(new.name)
     /\ meta' = [meta EXCEPT ![n] = old]
     /\ Interrupted({n, new.name})
  \/ /\ Deploy(new.name, c)
     /\ MetaWriteFails(n, old)
     /\ Interrupted({n, new.name})

(* Write metadata only; nothing is deployed. *)
Record(n, old, new) ==
  /\ UNCHANGED served
  /\ \/ meta' = [meta EXCEPT ![n] = new] /\ Returned(tainted)
     \/ MetaWriteFails(n, old) /\ Interrupted({n})

-----------------------------------------------------------------------------
(* Skills. *)

Create(n) ==
  /\ n \notin dirs
  /\ dirs' = dirs \cup {n}
  /\ \/ meta' = [meta EXCEPT ![n] = FreshMeta(n)] /\ Returned(tainted)
     \/ UNCHANGED meta /\ Interrupted({n})
  /\ UNCHANGED <<files, served, allocated>>

Update(n) ==
  /\ Readable(n)
  /\ Record(n, meta[n], meta[n])
  /\ UNCHANGED <<dirs, files, allocated>>

(* The removal of the deployment is attempted last and its error ignored.  *)
DeleteDone(n) ==
  /\ dirs' = dirs \ {n}
  /\ meta' = [meta EXCEPT ![n] = Absent]
  /\ files' = [files EXCEPT ![n] = NoVersions]
  /\ \/ /\ served' = [served EXCEPT ![n] = Absent]
        /\ Returned(tainted \ {n})
     \/ /\ served[n] # Absent
        /\ \E c \in Contents, k \in {served[n].label, Absent} :
             served' = [served EXCEPT ![n] = [content |-> c, label |-> k]]
        /\ Interrupted({n})

(* os.RemoveAll of the registry directory stops part-way. *)
DeletePartial(n) ==
  /\ \E gone \in SUBSET VersionIds :
       files' = [files EXCEPT ![n] =
                   [v \in VersionIds |-> IF v \in gone THEN Absent ELSE @[v]]]
  /\ MetaWriteFails(n, meta[n])
  /\ Interrupted({n})
  /\ UNCHANGED <<dirs, served>>

Delete(n) ==
  /\ n \in dirs
  /\ DeleteDone(n) \/ DeletePartial(n)
  /\ UNCHANGED allocated

Moved(f, n, m, gone) == [f EXCEPT ![m] = f[n], ![n] = gone]

Relabelled(d, m) == IF d.label = Absent THEN d ELSE [d EXCEPT !.label = m]

(* All state of n is now m's, and so is the damage done to it. *)
MovedTaint(n, m) ==
  IF n \in tainted THEN (tainted \ {n}) \cup {m} ELSE tainted

(* The deployed directory follows; a failure to move it, which includes a  *)
(* target that exists, is only logged.                                     *)
RenameDeployed(n, m) ==
  \/ served[n] = Absent /\ UNCHANGED served /\ Returned(MovedTaint(n, m))
  \/ /\ served[n] # Absent /\ served[m] = Absent
     /\ \/ /\ served' = [Moved(served, n, m, Absent)
                           EXCEPT ![m] = Relabelled(served[n], m)]
           /\ Returned(MovedTaint(n, m))
        \/ /\ \E k \in {served[n].label, Absent} :
                served' = [Moved(served, n, m, Absent) EXCEPT ![m].label = k]
           /\ Interrupted({n, m})
  \/ /\ served[n] # Absent /\ UNCHANGED served
     /\ IF served[m] = Absent THEN Interrupted({n, m})
                              ELSE Returned(tainted \cup {n, m})

RenameDone(n, m) ==
  /\ Readable(n)
  /\ dirs' = (dirs \ {n}) \cup {m}
  /\ meta' = [meta EXCEPT ![m] = WithName(meta[n], m), ![n] = Absent]
  /\ files' = Moved(files, n, m, NoVersions)
  /\ RenameDeployed(n, m)

(* The new metadata was lost in writing it; the directory is renamed back. *)
RenameRolledBack(n) ==
  /\ Readable(n)
  /\ meta' = [meta EXCEPT ![n] = Absent]
  /\ Failed({n})
  /\ UNCHANGED <<dirs, files, served>>

(* The directory was moved, its metadata not rewritten, perhaps because it *)
(* could not be read, and the directory was not, or could not be, renamed  *)
(* back: what is there under the new name says the old one.                *)
RenameHalfway(n, m) ==
  /\ dirs' = (dirs \ {n}) \cup {m}
  /\ \E x \in {meta[n], Absent} :
       meta' = [meta EXCEPT ![m] = x, ![n] = Absent]
  /\ files' = Moved(files, n, m, NoVersions)
  /\ Interrupted({n, m})
  /\ UNCHANGED served

Rename(n, m) ==
  /\ n # m /\ n \in dirs /\ m \notin dirs
  /\ RenameDone(n, m) \/ RenameRolledBack(n) \/ RenameHalfway(n, m)
  /\ UNCHANGED allocated

(* Copy takes the whole directory, the source's _meta.json included, and   *)
(* then overwrites that file.                                              *)
CopyDone(n, m) ==
  /\ files' = [files EXCEPT ![m] = files[n]]
  /\ meta' = [meta EXCEPT ![m] = [FreshMeta(m) EXCEPT !.versions = Listed(n)]]
  /\ Returned(tainted)

(* What was copied by then stays: the removal of it is best effort.        *)
CopyHalfway(n, m) ==
  /\ \E copied \in [VersionIds -> Contents \cup {Absent}] :
       files' = [files EXCEPT ![m] = copied]
  /\ \E x \in {meta[n], Absent} : meta' = [meta EXCEPT ![m] = x]
  /\ Interrupted({m})

Copy(n, m) ==
  /\ n # m /\ n \in dirs /\ m \notin dirs
  /\ dirs' = dirs \cup {m}
  /\ CopyDone(n, m) \/ CopyHalfway(n, m)
  /\ UNCHANGED <<served, allocated>>

-----------------------------------------------------------------------------
(* Versions. *)

(* The common end of VersionCreate and VersionClone: fill the new version  *)
(* directory, then list it.                                                *)
AddVersion(n, v, c) ==
  /\ files' = [files EXCEPT ![n][v] = c]
  /\ meta' = [meta EXCEPT ![n] = WithVersion(meta[n], v)]
  /\ allocated' = allocated \cup {v}
  /\ Returned(tainted)

(* If it cannot be filled or listed the directory is removed, but that may *)
(* fail as well; what is left is in no list.                               *)
AddVersionFails(n, v) ==
  /\ \E d \in Contents \cup {Absent} : files' = [files EXCEPT ![n][v] = d]
  /\ allocated' = allocated \cup {v}
  /\ \/ UNCHANGED meta /\ Interrupted({})
     \/ meta' = [meta EXCEPT ![n] = Absent] /\ Interrupted({n})

VersionCreate(n, v, copyFromActive) ==
  LET active == Active(n)
      copies == copyFromActive /\ active # Absent
      content == IF copies THEN files[n][active] ELSE Empty
  IN /\ Readable(n)
     /\ v \notin allocated
     /\ \/ content # Absent /\ AddVersion(n, v, content)
        \/ AddVersionFails(n, v)
     /\ UNCHANGED <<dirs, served>>

(* The caller may choose the new id w, so it can be one used before. *)
VersionClone(n, v, w) ==
  /\ Readable(n)
  /\ v \in Listed(n) /\ files[n][v] # Absent
  /\ w \notin Listed(n) /\ files[n][w] = Absent
  /\ AddVersion(n, w, files[n][v]) \/ AddVersionFails(n, w)
  /\ UNCHANGED <<dirs, served>>

DeletableEvenIfActive(n, v) == v \in Listed(n)  \* MUTANT of Deletable

(* The active version cannot be deleted. *)
Deletable(n, v) == v \in Listed(n) /\ Active(n) # v

VersionDelete(n, v) ==
  /\ Readable(n)
  /\ Deletable(n, v)
  /\ \/ /\ files' = [files EXCEPT ![n][v] = Absent]
        /\ Record(n, meta[n], WithoutVersion(meta[n], v))
     \/ /\ \E c \in Contents : files' = [files EXCEPT ![n][v] = c]
        /\ Interrupted({})
        /\ UNCHANGED <<meta, served>>
  /\ UNCHANGED <<dirs, allocated>>

-----------------------------------------------------------------------------
(* Version file operations: the path is resolved, and the version found,   *)
(* without the lock; the operation itself runs later, under it.            *)

ResolveVersionPath(p, makes, n, v) ==
  /\ pend[p] = Absent
  /\ files[n][v] # Absent
  /\ pend' = [pend EXCEPT ![p] = [makes |-> makes, name |-> n, version |-> v]]
  /\ UNCHANGED <<dirs, meta, files, served, allocated, tainted, faults>>

FileDone(p, t) ==
  /\ tainted' = t
  /\ pend' = [pend EXCEPT ![p] = Absent]
  /\ UNCHANGED faults

FileInterrupted(p, ns) ==
  (Fault(ns) /\ pend' = [pend EXCEPT ![p] = Absent]) \/ Crashed(ns)

NeverSyncs(p, n, v, c) ==  \* MUTANT of SyncIfActive: the store is forgotten
  UNCHANGED served /\ FileDone(p, tainted)

(* syncIfActive after version v of n was changed to c.  A failure to       *)
(* redeploy is logged and the operation still succeeds.                    *)
SyncIfActive(p, n, v, c) ==
  IF Active(n) = v /\ v \in Listed(n)
  THEN LET k == meta[n].name IN
       \/ /\ Deploy(k, c)
          /\ FileDone(p, IF k = n THEN tainted ELSE tainted \cup {k})
       \/ DeployFails(k) /\ FileInterrupted(p, {n, k})
  ELSE UNCHANGED served /\ FileDone(p, tainted)

(* The file operation leaves content c in the version directory.  Making   *)
(* parent directories brings the version and skill directories back if     *)
(* they are gone.                                                          *)
ChangeVersion(p, c) ==
  LET n == pend[p].name
      v == pend[p].version
      damaged == IF Active(n) = v THEN {n} ELSE {}
  IN /\ dirs' = dirs \cup {n}
     /\ files' = [files EXCEPT ![n][v] = c]
     /\ \/ SyncIfActive(p, n, v, c)
        \/ UNCHANGED served /\ FileInterrupted(p, damaged)
     /\ UNCHANGED <<meta, allocated>>

PathNotFound(p) ==
  /\ files[pend[p].name][pend[p].version] = Absent
  /\ FileDone(p, tainted)
  /\ UNCHANGED <<dirs, meta, files, served, allocated>>

PathStillThere(p) == files[pend[p].name][pend[p].version] # Absent

VersionFileWrite(p) ==
  /\ pend[p] # Absent /\ pend[p].makes
  /\ \E c \in Contents : ChangeVersion(p, c)

VersionFileMkdir(p) ==
  /\ pend[p] # Absent /\ pend[p].makes
  /\ \E c \in Contents : ChangeVersion(p, c)

VersionFileUpdate(p) ==
  /\ pend[p] # Absent /\ ~pend[p].makes
  /\ \/ PathStillThere(p) /\ \E c \in Contents : ChangeVersion(p, c)
     \/ PathNotFound(p)

VersionFileDelete(p) ==
  /\ pend[p] # Absent /\ ~pend[p].makes
  /\ \/ PathStillThere(p) /\ \E c \in Contents : ChangeVersion(p, c)
     \/ PathNotFound(p)

-----------------------------------------------------------------------------
(* Activation, and the two ways content comes in from outside. *)

Activate(n, v) ==
  /\ Readable(n)
  /\ v \in Listed(n) /\ files[n][v] # Absent
  /\ DeployAndRecord(n, files[n][v], meta[n], Activated(meta[n], v))
  /\ UNCHANGED <<dirs, files, allocated>>

(* An agent's or user's copy of the skill, content c, becomes version v.   *)
(* Fresh metadata is written before anything else.                         *)
CommitDone(n, v, c, activate) ==
  LET new == WithVersion(BaseMeta(n), v) IN
  /\ files' = [files EXCEPT ![n][v] = c]
  /\ IF activate
     THEN DeployAndRecord(n, c, BaseMeta(n), Activated(new, v))
     ELSE Record(n, BaseMeta(n), new)

(* Copying the source fails; the version directory is removed again. *)
CommitCopyFails(n) ==
  /\ meta' = [meta EXCEPT ![n] = BaseMeta(n)]
  /\ Returned(tainted)
  /\ UNCHANGED <<files, served>>

(* Unable to write the fresh metadata, or to remove what was copied of the *)
(* version, which is in no list.                                           *)
CommitHalfway(n, v) ==
  /\ \/ /\ \E c \in Contents : files' = [files EXCEPT ![n][v] = c]
        /\ meta' = [meta EXCEPT ![n] = BaseMeta(n)]
     \/ ~Readable(n) /\ UNCHANGED <<files, meta>>
  /\ Interrupted({})
  /\ UNCHANGED served

Commit(n, v, c, activate) ==
  /\ v \notin allocated
  /\ allocated' = allocated \cup {v}
  /\ dirs' = dirs \cup {n}
  /\ \/ CommitDone(n, v, c, activate)
     \/ CommitCopyFails(n)
     \/ CommitHalfway(n, v)

(* importAsNewVersion: content c of a downloaded or uploaded archive       *)
(* becomes version v and is activated.  An archive that cannot be          *)
(* extracted leaves the skill directory behind, without metadata if the    *)
(* skill is new, and what was extracted if that cannot be removed.         *)
ImportAsNewVersion(n, v, c) ==
  /\ v \notin allocated
  /\ allocated' = allocated \cup {v}
  /\ dirs' = dirs \cup {n}
  /\ \/ /\ files' = [files EXCEPT ![n][v] = c]
        /\ DeployAndRecord(n, c, meta[n],
                           Activated(WithVersion(BaseMeta(n), v), v))
     \/ Returned(tainted) /\ UNCHANGED <<meta, files, served>>
     \/ /\ \E d \in Contents : files' = [files EXCEPT ![n][v] = d]
        /\ Interrupted({})
        /\ UNCHANGED <<meta, served>>

(* Killed between two handlers: only the resolved paths are lost. *)
Restart == Crashed({}) /\ UNCHANGED <<dirs, meta, files, served, allocated>>

-----------------------------------------------------------------------------

SkillNext(n) ==
  \/ Create(n) \/ Update(n) \/ Delete(n)
  \/ \E m \in Names : Rename(n, m) \/ Copy(n, m)

VersionNext(n, v) ==
  \/ \E b \in BOOLEAN : VersionCreate(n, v, b)
  \/ \E w \in VersionIds : VersionClone(n, v, w)
  \/ VersionDelete(n, v)
  \/ Activate(n, v)
  \/ \E c \in Contents :
       \/ \E b \in BOOLEAN : Commit(n, v, c, b)
       \/ ImportAsNewVersion(n, v, c)

FileNext(p) ==
  \/ \E makes \in BOOLEAN, n \in Names, v \in VersionIds :
       ResolveVersionPath(p, makes, n, v)
  \/ VersionFileWrite(p) \/ VersionFileMkdir(p)
  \/ VersionFileUpdate(p) \/ VersionFileDelete(p)

Next ==
  \/ \E n \in Names : SkillNext(n)
  \/ \E n \in Names, v \in VersionIds : VersionNext(n, v)
  \/ \E p \in Clients : FileNext(p)
  \/ Restart

Spec == Init /\ [][Next]_vars

-----------------------------------------------------------------------------
(* What agents are served for n is the current content of its active       *)
(* version, labelled with its name; a name without an active version is    *)
(* not served at all.                                                      *)
Consistent(n) ==
  IF Active(n) = Absent
  THEN served[n] = Absent
  ELSE /\ files[n][Active(n)] # Absent
       /\ served[n] = Published(n, files[n][Active(n)])

(* The registry and the store agree on every name except those on which a  *)
(* step failed and that no later activation or deletion has repaired, in   *)
(* spite of operations that lock only after they have looked (deploy and   *)
(* auto-sync, registry.go:107-130 and 931-944).  In particular nothing is  *)
(* served for a deleted or renamed skill.                                  *)
ServedIsActive == \A n \in Names \ tainted : Consistent(n)

(* The active version of a skill is one of its listed versions, whatever   *)
(* failed and wherever the process was killed: VersionDelete refuses the   *)
(* active version and no handler lists or activates one without the other. *)
ActiveIsListed ==
  \A n \in Names : Active(n) # Absent => Active(n) \in Listed(n)

(* A rename or copy that stopped half-way, because the process was killed  *)
(* or a step failed and its rollback as well (registry.go:386, 395, 464,   *)
(* 492 ignore that), leaves metadata that names another skill, so that     *)
(* deploying this one overwrites the other in the store (meta.Name in      *)
(* registry.go:109).  Nothing else does, and nothing hides it: the skill   *)
(* stays in doubt, whatever is activated, committed or imported meanwhile, *)
(* until it is renamed or deleted.  And no name without a directory has    *)
(* metadata to come back to.                                               *)
NamesAgree ==
  \A n \in Names : Readable(n) =>
    n \in dirs /\ (meta[n].name # n => n \in tainted)

(* As long as a skill's metadata stays readable, no step drops its active  *)
(* version from the list: commits and imports extend the history they find *)
(* (registry.go:1279-1282, 1573-1576), even while other clients delete     *)
(* versions, and an activation never discards the version it replaces.     *)
ActiveVersionKept ==
  [][\A n \in Names :
       Active(n) # Absent /\ Readable(n)' => Active(n) \in Listed(n)']_vars

(* A skill as its clients see it: the versions that are listed and there,  *)
(* and which is active.                                                    *)
Versions(n) ==
  [v \in VersionIds |-> IF v \in Listed(n) THEN files[n][v] ELSE Absent]

Skill(n) == [versions |-> Versions(n), active |-> Active(n)]

Intact == Names \ tainted

Skills == [n \in Intact |-> Skill(n)]
Agents == [n \in Intact |-> served[n]]

Store == INSTANCE SkillStore WITH skills <- Skills, agents <- Agents

(* The registry implements the store: to clients and agents each operation *)
(* happens at once or not at all, and changes the skill it is about, or    *)
(* leaves it in doubt, and no other; in spite of copies to the store and   *)
(* metadata that are written one after the other, and file operations that *)
(* resolve their path before they lock (registry.go:107-130, 931-944).     *)
RegistryIsStore == Store!Spec

=============================================================================
