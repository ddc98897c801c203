------------------------ MODULE SkillRegistryProofs ------------------------
(***************************************************************************)
(* Theorems about SkillRegistry, for any names, version ids, contents and  *)
(* clients and any number of faults: the types, the inductive invariant,   *)
(* and the properties its runs check, the refinement of SkillStore among   *)
(* them.                                                                   *)
(***************************************************************************)
EXTENDS SkillRegistry, TLAPS

-----------------------------------------------------------------------------
(* Records. *)

(* What the operations on metadata produce. *)
LEMMA WithNameFields ==
  ASSUME NEW m \in Meta, NEW n \in Names
  PROVE  /\ WithName(m, n) \in Meta
         /\ WithName(m, n).name = n
         /\ WithName(m, n).active = m.active
         /\ WithName(m, n).versions = m.versions
BY DEF Meta, WithName

LEMMA FreshMetaFields ==
  ASSUME NEW n \in Names
  PROVE  /\ FreshMeta(n) \in Meta
         /\ FreshMeta(n).name = n
         /\ FreshMeta(n).active = Absent
         /\ FreshMeta(n).versions = {}
BY DEF Meta, FreshMeta

LEMMA MetaFields ==
  ASSUME NEW m \in Meta, NEW v \in VersionIds
  PROVE  /\ WithVersion(m, v) \in Meta
         /\ WithVersion(m, v).name = m.name
         /\ WithVersion(m, v).active = m.active
         /\ WithVersion(m, v).versions = m.versions \cup {v}
         /\ WithoutVersion(m, v) \in Meta
         /\ WithoutVersion(m, v).name = m.name
         /\ WithoutVersion(m, v).active = m.active
         /\ WithoutVersion(m, v).versions = m.versions \ {v}
         /\ Activated(m, v) \in Meta
         /\ Activated(m, v).name = m.name
         /\ Activated(m, v).active = v
         /\ Activated(m, v).versions = m.versions
BY DEF Meta, WithVersion, WithoutVersion, Activated

(* Metadata is never the mark for its absence. *)
LEMMA MetaPresent == Absent \notin Meta /\ Absent \notin Names \cup VersionIds
BY RegistryAssumption

(* The metadata a commit or an import starts from. *)
LEMMA BaseMetaFields ==
  ASSUME TypeOK, NEW n \in Names
  PROVE  /\ BaseMeta(n) \in Meta
         /\ BaseMeta(n).active = Active(n)
         /\ BaseMeta(n).versions = Listed(n)
         /\ Readable(n) => BaseMeta(n) = meta[n]
         /\ ~Readable(n) => BaseMeta(n).name = n
BY FreshMetaFields DEF TypeOK, BaseMeta, Active, Listed, Readable, FreshMeta, Meta

(* What a copied skill starts with. *)
LEMMA CopiedMetaFields ==
  ASSUME TypeOK, NEW n \in Names, NEW m \in Names
  PROVE  LET x == [FreshMeta(m) EXCEPT !.versions = Listed(n)]
         IN x \in Meta /\ x.name = m /\ x.active = Absent
            /\ x.versions = Listed(n)
BY DEF TypeOK, FreshMeta, Meta, Listed, Readable

(* A published skill is a deployment. *)
LEMMA PublishedFields ==
  ASSUME NEW k \in Names, NEW c \in Contents
  PROVE  Published(k, c) \in Deployment /\ Published(k, c).label = k
BY DEF Published, Deployment

(* Renaming a deployment keeps its content. *)
LEMMA RelabelledFields ==
  ASSUME NEW d \in Deployment, NEW m \in Names
  PROVE  /\ Relabelled(d, m) \in Deployment
         /\ \A k \in Names, c \in Contents :
              d = Published(k, c) => Relabelled(d, m) = Published(m, c)
<1>1. Relabelled(d, m) \in Deployment
  BY DEF Relabelled, Deployment
<1>2. ASSUME NEW k \in Names, NEW c \in Contents, d = Published(k, c)
      PROVE  Relabelled(d, m) = Published(m, c)
  BY <1>2, MetaPresent DEF Relabelled, Published
<1> QED  BY <1>1, <1>2

-----------------------------------------------------------------------------
(* Types. *)

MetaOK == meta' \in [Names -> Meta \cup {Absent}]
ServedOK == served' \in [Names -> Deployment \cup {Absent}]
FilesOK == files' \in [Names -> [VersionIds -> Contents \cup {Absent}]]
EndOK ==
  /\ pend' \in [Clients -> Pending \cup {Absent}]
  /\ tainted' \subseteq Names
  /\ faults' \in Nat

LEMMA TypeParts ==
  /\ dirs' \subseteq Names /\ allocated' \subseteq VersionIds
  /\ MetaOK /\ FilesOK /\ ServedOK /\ EndOK
  => TypeOK'
BY DEF TypeOK, MetaOK, FilesOK, ServedOK, EndOK

(* However a handler ends, what it leaves has the right type. *)
LEMMA EndType ==
  ASSUME TypeOK, NEW ns \in SUBSET Names,
         Returned(ns) \/ Failed(ns) \/ Crashed(ns) \/ Interrupted(ns)
  PROVE  EndOK
BY DEF TypeOK, Returned, Failed, Crashed, Fault, Interrupted, NoPending,
       EndOK

(* The same for the second half of a file operation. *)
LEMMA FileEndType ==
  ASSUME TypeOK, NEW p \in Clients, NEW ns \in SUBSET Names,
         FileDone(p, ns) \/ FileInterrupted(p, ns)
  PROVE  EndOK
BY DEF TypeOK, FileDone, FileInterrupted, Crashed, Fault, NoPending, EndOK

LEMMA MetaWriteFailsType ==
  ASSUME TypeOK, NEW n \in Names, NEW old \in Meta \cup {Absent},
         MetaWriteFails(n, old)
  PROVE  MetaOK
BY DEF TypeOK, MetaWriteFails, MetaOK

LEMMA DeployType ==
  ASSUME TypeOK, NEW k \in Names, NEW c \in Contents,
         Deploy(k, c) \/ DeployFails(k)
  PROVE  ServedOK
<1>1. CASE Deploy(k, c)
  BY <1>1, PublishedFields DEF TypeOK, Deploy, ServedOK
<1>2. CASE DeployFails(k)
  BY <1>2 DEF TypeOK, DeployFails, ServedOK, Deployment
<1> QED  BY <1>1, <1>2

LEMMA DeployAndRecordType ==
  ASSUME TypeOK, NEW n \in Names, NEW c \in Contents,
         NEW old \in Meta \cup {Absent}, NEW new \in Meta,
         DeployAndRecord(n, c, old, new)
  PROVE  MetaOK /\ ServedOK /\ EndOK
<1>1. new.name \in Names
  BY DEF Meta
<1>2. CASE /\ Deploy(new.name, c)
           /\ meta' = [meta EXCEPT ![n] = new]
           /\ Returned(TaintAfterDeploy(n, new.name))
  <2>1. TaintAfterDeploy(n, new.name) \in SUBSET Names
    BY <1>1 DEF TypeOK, TaintAfterDeploy
  <2> QED  BY <1>1, <1>2, <2>1, DeployType, EndType DEF TypeOK, MetaOK
<1>3. CASE /\ DeployFails(new.name)
           /\ meta' = [meta EXCEPT ![n] = old]
           /\ Interrupted({n, new.name})
  BY <1>1, <1>3, DeployType, EndType DEF TypeOK, MetaOK
<1>4. CASE /\ Deploy(new.name, c)
           /\ MetaWriteFails(n, old)
           /\ Interrupted({n, new.name})
  BY <1>1, <1>4, DeployType, EndType, MetaWriteFailsType
<1> QED  BY <1>2, <1>3, <1>4 DEF DeployAndRecord

LEMMA RecordType ==
  ASSUME TypeOK, NEW n \in Names, NEW old \in Meta \cup {Absent},
         NEW new \in Meta, Record(n, old, new)
  PROVE  MetaOK /\ ServedOK /\ EndOK
<1>1. tainted \in SUBSET Names /\ ServedOK
  BY DEF TypeOK, Record, ServedOK
<1>2. CASE meta' = [meta EXCEPT ![n] = new] /\ Returned(tainted)
  BY <1>1, <1>2, EndType DEF TypeOK, MetaOK
<1>3. CASE MetaWriteFails(n, old) /\ Interrupted({n})
  BY <1>1, <1>3, EndType, MetaWriteFailsType
<1> QED  BY <1>2, <1>3 DEF Record

LEMMA AddVersionType ==
  ASSUME TypeOK, NEW n \in Names, NEW v \in VersionIds, Readable(n),
         UNCHANGED <<dirs, served>>,
         \/ \E c \in Contents : AddVersion(n, v, c)
         \/ AddVersionFails(n, v)
  PROVE  TypeOK'
<1>1. meta[n] \in Meta /\ WithVersion(meta[n], v) \in Meta
  BY MetaFields DEF TypeOK, Readable
<1>2. dirs' \subseteq Names /\ ServedOK /\ allocated' \subseteq VersionIds
  BY DEF TypeOK, AddVersion, AddVersionFails, ServedOK
<1>3. FilesOK
  <2>1. PICK d \in Contents \cup {Absent} : files' = [files EXCEPT ![n][v] = d]
    BY DEF AddVersion, AddVersionFails
  <2> QED  BY <2>1 DEF TypeOK, FilesOK
<1>4. MetaOK
  BY <1>1 DEF TypeOK, AddVersion, AddVersionFails, MetaOK
<1>5. tainted \in SUBSET Names /\ {n} \in SUBSET Names
  BY DEF TypeOK
<1>6. EndOK
  BY <1>5, EndType DEF AddVersion, AddVersionFails
<1> QED  BY <1>2, <1>3, <1>4, <1>6, TypeParts

LEMMA ChangeVersionType ==
  ASSUME TypeOK, NEW p \in Clients, pend[p] # Absent, NEW c \in Contents,
         ChangeVersion(p, c)
  PROVE  TypeOK'
<1> DEFINE n == pend[p].name
           v == pend[p].version
<1>1. n \in Names /\ v \in VersionIds
  BY DEF TypeOK, Pending
<1>2. /\ dirs' \subseteq Names /\ FilesOK /\ MetaOK
      /\ allocated' \subseteq VersionIds
  BY <1>1 DEF TypeOK, ChangeVersion, FilesOK, MetaOK
<1>3. CASE SyncIfActive(p, n, v, c)
  <2>1. CASE Active(n) = v /\ v \in Listed(n)
    <3> DEFINE k == meta[n].name
    <3>1. k \in Names
      BY <2>1, <1>1 DEF TypeOK, Listed, Readable, Meta
    <3>2. \/ Deploy(k, c) /\ FileDone(p, IF k = n THEN tainted
                                                 ELSE tainted \cup {k})
          \/ DeployFails(k) /\ FileInterrupted(p, {n, k})
      BY <1>3, <2>1 DEF SyncIfActive
    <3>3. ServedOK
      BY <3>1, <3>2, DeployType
    <3>4. (IF k = n THEN tainted ELSE tainted \cup {k}) \in SUBSET Names
      BY <3>1 DEF TypeOK
    <3>5. {n, k} \in SUBSET Names
      BY <1>1, <3>1
    <3>6. EndOK
      BY <3>2, <3>4, <3>5, FileEndType
    <3> QED  BY <1>2, <3>3, <3>6 DEF TypeOK, MetaOK, ServedOK, FilesOK, EndOK
  <2>2. CASE ~(Active(n) = v /\ v \in Listed(n))
    <3>1. UNCHANGED served /\ FileDone(p, tainted)
      BY <1>3, <2>2 DEF SyncIfActive
    <3>2. ServedOK /\ EndOK
      BY <3>1, FileEndType DEF TypeOK, ServedOK
    <3> QED  BY <1>2, <3>2 DEF TypeOK, MetaOK, ServedOK, FilesOK, EndOK
  <2> QED  BY <2>1, <2>2
<1>4. CASE /\ UNCHANGED served
           /\ FileInterrupted(p, IF Active(n) = v THEN {n} ELSE {})
  <2>1. ServedOK /\ EndOK
    BY <1>1, <1>4, FileEndType DEF TypeOK, ServedOK
  <2> QED  BY <1>2, <2>1 DEF TypeOK, MetaOK, ServedOK, FilesOK, EndOK
<1> QED  BY <1>3, <1>4 DEF ChangeVersion

LEMMA RenameDoneType ==
  ASSUME TypeOK, NEW n \in Names, NEW m \in Names, n # m, Readable(n),
         RenameDone(n, m)
  PROVE  /\ dirs' \subseteq Names
         /\ MetaOK /\ FilesOK /\ ServedOK /\ EndOK
<1>1. meta[n] \in Meta /\ WithName(meta[n], m) \in Meta
  BY WithNameFields DEF TypeOK, Readable
<1>2. dirs' \subseteq Names /\ MetaOK /\ FilesOK
  BY <1>1 DEF TypeOK, RenameDone, Moved, MetaOK, FilesOK, NoVersions
<1>3. MovedTaint(n, m) \in SUBSET Names /\ tainted \cup {n, m} \in SUBSET Names
  BY DEF TypeOK, MovedTaint
<1>4. RenameDeployed(n, m)
  BY DEF RenameDone
<1>5. CASE served[n] = Absent /\ UNCHANGED served /\ Returned(MovedTaint(n, m))
  BY <1>2, <1>3, <1>5, EndType DEF TypeOK, ServedOK
<1>6. CASE /\ served[n] # Absent /\ served[m] = Absent
           /\ served' = [Moved(served, n, m, Absent)
                           EXCEPT ![m] = Relabelled(served[n], m)]
           /\ Returned(MovedTaint(n, m))
  <2>1. Relabelled(served[n], m) \in Deployment
    BY <1>6, RelabelledFields DEF TypeOK
  <2>2. ServedOK
    BY <1>6, <2>1 DEF TypeOK, ServedOK, Moved
  <2> QED  BY <1>2, <1>3, <1>6, <2>2, EndType
<1>7. CASE /\ served[n] # Absent /\ served[m] = Absent
           /\ \E k \in {served[n].label, Absent} :
                served' = [Moved(served, n, m, Absent) EXCEPT ![m].label = k]
           /\ Interrupted({n, m})
  <2>1. served[n] \in Deployment
    BY <1>7 DEF TypeOK
  <2>2. PICK k \in Names \cup {Absent} :
          served' = [Moved(served, n, m, Absent) EXCEPT ![m].label = k]
    BY <1>7, <2>1 DEF Deployment
  <2>3. [served[n] EXCEPT !.label = k] \in Deployment
    BY <2>1, <2>2 DEF Deployment
  <2>4. served' = [Moved(served, n, m, Absent)
                     EXCEPT ![m] = [served[n] EXCEPT !.label = k]]
    BY <2>2 DEF TypeOK, Moved
  <2>5. ServedOK
    BY <2>3, <2>4 DEF TypeOK, ServedOK, Moved
  <2> QED  BY <1>2, <1>7, <2>5, EndType
<1>8. CASE /\ served[n] # Absent /\ UNCHANGED served
           /\ Interrupted({n, m}) \/ Returned(tainted \cup {n, m})
  BY <1>2, <1>3, <1>8, EndType DEF TypeOK, ServedOK
<1> QED  BY <1>4, <1>5, <1>6, <1>7, <1>8 DEF RenameDeployed

(* What a new version holds is the content of the active one, or nothing.  *)
LEMMA CreatesVersion ==
  ASSUME TypeOK, NEW n \in Names, NEW v \in VersionIds, NEW b \in BOOLEAN,
         VersionCreate(n, v, b)
  PROVE  \/ \E c \in Contents : AddVersion(n, v, c)
         \/ AddVersionFails(n, v)
<1>1. /\ Active(n) \in VersionIds \cup {Absent}
      /\ Active(n) # Absent => files[n][Active(n)] \in Contents \cup {Absent}
  BY DEF TypeOK, VersionCreate, Active, Readable, Meta
<1> QED  BY <1>1, RegistryAssumption DEF VersionCreate

(* Every action keeps every variable within its type. *)
LEMMA TypeStep == TypeOK /\ [Next]_vars => TypeOK'
<1> SUFFICES ASSUME TypeOK, [Next]_vars PROVE TypeOK'
  OBVIOUS
<1>1. ASSUME NEW n \in Names, Create(n) PROVE TypeOK'
  <2>1. dirs' \subseteq Names /\ MetaOK
    BY <1>1, FreshMetaFields DEF TypeOK, Create, MetaOK
  <2> QED
    BY <1>1, <2>1, EndType, TypeParts
    DEF TypeOK, Create, FilesOK, ServedOK
<1>2. ASSUME NEW n \in Names, Update(n) PROVE TypeOK'
  <2>1. MetaOK /\ ServedOK /\ EndOK
    BY <1>2, RecordType DEF TypeOK, Update, Readable
  <2> QED  BY <1>2, <2>1, TypeParts DEF TypeOK, Update, FilesOK
<1>3. ASSUME NEW n \in Names, Delete(n) PROVE TypeOK'
  <2>1. CASE DeleteDone(n)
    <3>1. MetaOK /\ FilesOK /\ dirs' \subseteq Names
      BY <2>1 DEF TypeOK, DeleteDone, NoVersions, MetaOK, FilesOK
    <3>2. ASSUME served' = [served EXCEPT ![n] = Absent] PROVE ServedOK
      BY <3>2 DEF TypeOK, ServedOK
    <3>3. ASSUME NEW c \in Contents, NEW k \in {served[n].label, Absent},
                 served[n] # Absent,
                 served' = [served EXCEPT ![n] = [content |-> c, label |-> k]]
          PROVE  ServedOK
      <4>1. [content |-> c, label |-> k] \in Deployment
        BY <3>3 DEF TypeOK, Deployment
      <4> QED  BY <3>3, <4>1 DEF TypeOK, ServedOK
    <3>4. ServedOK
      BY <2>1, <3>2, <3>3 DEF DeleteDone
    <3>5. EndOK
      BY <2>1, EndType DEF TypeOK, DeleteDone
    <3> QED  BY <1>3, <3>1, <3>4, <3>5, TypeParts DEF TypeOK, Delete
  <2>2. CASE DeletePartial(n)
    <3>1. FilesOK
      BY <2>2 DEF TypeOK, DeletePartial, FilesOK
    <3>2. MetaOK /\ EndOK
      BY <2>2, EndType, MetaWriteFailsType DEF TypeOK, DeletePartial
    <3> QED
      BY <1>3, <2>2, <3>1, <3>2, TypeParts
      DEF TypeOK, Delete, DeletePartial, ServedOK
  <2> QED  BY <1>3, <2>1, <2>2 DEF Delete
<1>4. ASSUME NEW n \in Names, NEW m \in Names, Rename(n, m) PROVE TypeOK'
  <2>1. CASE RenameDone(n, m)
    BY <1>4, <2>1, RenameDoneType, TypeParts DEF TypeOK, Rename, RenameDone
  <2>2. CASE RenameRolledBack(n)
    <3>1. MetaOK /\ EndOK
      BY <2>2, EndType DEF TypeOK, RenameRolledBack, MetaOK
    <3> QED
      BY <1>4, <2>2, <3>1, TypeParts
      DEF TypeOK, Rename, RenameRolledBack, FilesOK, ServedOK
  <2>3. CASE RenameHalfway(n, m)
    <3>1. MetaOK /\ FilesOK /\ dirs' \subseteq Names
      BY <2>3 DEF TypeOK, RenameHalfway, Moved, NoVersions, MetaOK, FilesOK
    <3>2. EndOK
      BY <2>3, EndType DEF RenameHalfway
    <3> QED
      BY <1>4, <2>3, <3>1, <3>2, TypeParts
      DEF TypeOK, Rename, RenameHalfway, ServedOK
  <2> QED  BY <1>4, <2>1, <2>2, <2>3 DEF Rename
<1>5. ASSUME NEW n \in Names, NEW m \in Names, Copy(n, m) PROVE TypeOK'
  <2>1. dirs' \subseteq Names /\ ServedOK /\ allocated' \subseteq VersionIds
    BY <1>5 DEF TypeOK, Copy, ServedOK
  <2>2. FilesOK
    BY <1>5 DEF TypeOK, Copy, CopyDone, CopyHalfway, FilesOK
  <2>3. PICK x \in Meta \cup {Absent} : meta' = [meta EXCEPT ![m] = x]
    BY <1>5, CopiedMetaFields DEF TypeOK, Copy, CopyDone, CopyHalfway
  <2>4. MetaOK
    BY <2>3 DEF TypeOK, MetaOK
  <2>5. EndOK
    BY <1>5, EndType DEF TypeOK, Copy, CopyDone, CopyHalfway
  <2> QED  BY <2>1, <2>2, <2>4, <2>5, TypeParts
<1>6. ASSUME NEW n \in Names, NEW v \in VersionIds, NEW b \in BOOLEAN,
             VersionCreate(n, v, b)
      PROVE  TypeOK'
  <2>1. \/ \E c \in Contents : AddVersion(n, v, c)
        \/ AddVersionFails(n, v)
    BY <1>6, CreatesVersion
  <2> QED  BY <1>6, <2>1, AddVersionType DEF VersionCreate
<1>7. ASSUME NEW n \in Names, NEW v \in VersionIds, NEW w \in VersionIds,
             VersionClone(n, v, w)
      PROVE  TypeOK'
  <2>1. files[n][v] \in Contents
    BY <1>7 DEF TypeOK, VersionClone
  <2> QED  BY <1>7, <2>1, AddVersionType DEF VersionClone
<1>8. ASSUME NEW n \in Names, NEW v \in VersionIds, VersionDelete(n, v)
      PROVE  TypeOK'
  <2>1. meta[n] \in Meta /\ WithoutVersion(meta[n], v) \in Meta
    BY <1>8, MetaFields DEF TypeOK, VersionDelete, Readable
  <2>2. FilesOK
    BY <1>8 DEF TypeOK, VersionDelete, FilesOK
  <2>3. MetaOK /\ ServedOK /\ EndOK
    BY <1>8, <2>1, RecordType, EndType
    DEF TypeOK, VersionDelete, MetaOK, ServedOK
  <2> QED  BY <1>8, <2>2, <2>3, TypeParts DEF TypeOK, VersionDelete
<1>9. ASSUME NEW n \in Names, NEW v \in VersionIds, Activate(n, v)
      PROVE  TypeOK'
  <2>1. /\ files[n][v] \in Contents /\ meta[n] \in Meta
        /\ Activated(meta[n], v) \in Meta
    BY <1>9, MetaFields DEF TypeOK, Activate, Readable
  <2>2. MetaOK /\ ServedOK /\ EndOK
    BY <1>9, <2>1, DeployAndRecordType DEF Activate
  <2> QED  BY <1>9, <2>2, TypeParts DEF TypeOK, Activate, FilesOK
<1>10. ASSUME NEW n \in Names, NEW v \in VersionIds, NEW c \in Contents,
              NEW b \in BOOLEAN, Commit(n, v, c, b)
       PROVE  TypeOK'
  <2>1. BaseMeta(n) \in Meta
    BY BaseMetaFields
  <2>2. dirs' \subseteq Names /\ allocated' \subseteq VersionIds
    BY <1>10 DEF TypeOK, Commit
  <2>3. CASE CommitDone(n, v, c, b)
    <3> DEFINE new == WithVersion(BaseMeta(n), v)
    <3>1. new \in Meta /\ Activated(new, v) \in Meta
      BY <2>1, MetaFields
    <3>2. FilesOK
      BY <2>3 DEF TypeOK, CommitDone, FilesOK
    <3>3. \/ DeployAndRecord(n, c, BaseMeta(n), Activated(new, v))
          \/ Record(n, BaseMeta(n), new)
      BY <2>3 DEF CommitDone
    <3>4. MetaOK /\ ServedOK /\ EndOK
      BY <2>1, <3>1, <3>3, DeployAndRecordType, RecordType
    <3> QED  BY <2>2, <3>2, <3>4, TypeParts
  <2>4. CASE CommitCopyFails(n)
    <3>1. MetaOK /\ ServedOK /\ FilesOK
      BY <2>1, <2>4
      DEF TypeOK, CommitCopyFails, MetaOK, ServedOK, FilesOK
    <3>2. EndOK
      BY <2>4, EndType DEF TypeOK, CommitCopyFails
    <3> QED  BY <2>2, <3>1, <3>2, TypeParts
  <2>5. CASE CommitHalfway(n, v)
    <3>1. ServedOK /\ FilesOK
      <4>1. \/ files' = files
            \/ \E d \in Contents : files' = [files EXCEPT ![n][v] = d]
        BY <2>5 DEF CommitHalfway
      <4> QED  BY <2>5, <4>1 DEF TypeOK, CommitHalfway, ServedOK, FilesOK
    <3>2. MetaOK
      BY <2>1, <2>5 DEF TypeOK, CommitHalfway, MetaOK
    <3>3. {} \in SUBSET Names
      OBVIOUS
    <3>4. EndOK
      BY <2>5, <3>3, EndType DEF CommitHalfway
    <3> QED  BY <2>2, <3>1, <3>2, <3>4, TypeParts
  <2> QED  BY <1>10, <2>3, <2>4, <2>5 DEF Commit
<1>11. ASSUME NEW n \in Names, NEW v \in VersionIds, NEW c \in Contents,
              ImportAsNewVersion(n, v, c)
       PROVE  TypeOK'
  <2> DEFINE new == Activated(WithVersion(BaseMeta(n), v), v)
  <2>1. new \in Meta
    BY BaseMetaFields, MetaFields
  <2>2. dirs' \subseteq Names /\ allocated' \subseteq VersionIds
    BY <1>11 DEF TypeOK, ImportAsNewVersion
  <2>3. FilesOK
    BY <1>11 DEF TypeOK, ImportAsNewVersion, FilesOK
  <2>4. CASE DeployAndRecord(n, c, meta[n], new)
    <3>1. MetaOK /\ ServedOK /\ EndOK
      BY <2>1, <2>4, DeployAndRecordType DEF TypeOK
    <3> QED  BY <2>2, <2>3, <3>1, TypeParts
  <2>5. CASE /\ Returned(tainted) \/ Interrupted({})
             /\ UNCHANGED <<meta, served>>
    <3>1. {} \in SUBSET Names /\ tainted \in SUBSET Names
      BY DEF TypeOK
    <3>2. EndOK
      BY <2>5, <3>1, EndType
    <3> QED
      BY <2>2, <2>3, <2>5, <3>2, TypeParts DEF TypeOK, MetaOK, ServedOK
  <2> QED  BY <1>11, <2>4, <2>5 DEF ImportAsNewVersion
<1>12. ASSUME NEW p \in Clients, FileNext(p) PROVE TypeOK'
  <2>1. ASSUME NEW b \in BOOLEAN, NEW n \in Names, NEW v \in VersionIds,
               ResolveVersionPath(p, b, n, v)
        PROVE  TypeOK'
    BY <2>1 DEF TypeOK, ResolveVersionPath, Pending
  <2>2. ASSUME PathNotFound(p) PROVE TypeOK'
    BY <2>2, FileEndType DEF TypeOK, PathNotFound, EndOK
  <2>3. CASE pend[p] # Absent /\ \E c \in Contents : ChangeVersion(p, c)
    BY <2>3, ChangeVersionType
  <2> QED
    BY <1>12, <2>1, <2>2, <2>3
    DEF FileNext, VersionFileWrite, VersionFileMkdir, VersionFileUpdate,
        VersionFileDelete
<1>13. CASE Restart
  BY <1>13, EndType DEF TypeOK, Restart, EndOK
<1>14. CASE UNCHANGED vars
  BY <1>14 DEF TypeOK, vars
<1> QED
  BY <1>1, <1>2, <1>3, <1>4, <1>5, <1>6, <1>7, <1>8, <1>9, <1>10, <1>11,
     <1>12, <1>13, <1>14
  DEF Next, SkillNext, VersionNext

(* The types of all variables, for any number of names and faults. *)
THEOREM TypeCorrect == Spec => []TypeOK
<1>1. Init => TypeOK
  BY DEF Init, TypeOK, NoVersions, NoPending
<1> QED  BY <1>1, TypeStep, PTL DEF Spec

-----------------------------------------------------------------------------
(* The inductive invariant.  ServedIsActive alone is not inductive: it     *)
(* needs that a new version id is not the active one (MetaInv), that an    *)
(* untainted skill deploys under its own name (NameInv), and that a name   *)
(* without a directory has no metadata to come back to (MetaInv).          *)

WellFormed(m, known) ==
  m # Absent => /\ m.active # Absent => m.active \in m.versions
                /\ m.versions \subseteq known

MetaInv ==
  /\ \A n \in Names \ dirs : meta[n] = Absent
  /\ \A n \in Names : WellFormed(meta[n], allocated)

NameInv ==
  \A n \in Names : Readable(n) /\ meta[n].name # n => n \in tainted

RegistryInv == TypeOK /\ MetaInv /\ NameInv /\ ServedIsActive

(* What a step must do to metadata it changes, and to metadata it keeps. *)
MetaSettled(n) ==
  /\ WellFormed(meta'[n], allocated')
  /\ n \notin dirs' => meta'[n] = Absent
MetaKept(n) == meta'[n] = meta[n] /\ (n \in dirs => n \in dirs')

LEMMA MetaFrame ==
  ASSUME MetaInv, allocated \subseteq allocated',
         \A n \in Names : MetaSettled(n) \/ MetaKept(n)
  PROVE  MetaInv'
BY DEF MetaInv, MetaSettled, MetaKept, WellFormed

(* The common case: only the metadata of n is written. *)
LEMMA MetaWritten ==
  ASSUME TypeOK, MetaInv, allocated \subseteq allocated', dirs \subseteq dirs',
         NEW n \in Names, n \in dirs', NEW x, WellFormed(x, allocated'),
         meta' = [meta EXCEPT ![n] = x]
  PROVE  MetaInv'
<1>1. MetaSettled(n)
  BY DEF TypeOK, MetaSettled
<1>2. \A m \in Names \ {n} : MetaKept(m)
  BY DEF TypeOK, MetaKept
<1> QED  BY <1>1, <1>2, MetaFrame

LEMMA FailedWrite ==
  ASSUME TypeOK, NEW n \in Names, NEW old, MetaWriteFails(n, old)
  PROVE  \E x \in {old, Absent} : meta' = [meta EXCEPT ![n] = x]
BY DEF MetaWriteFails

(* Metadata survives a version being added to it or taken from it. *)
LEMMA WellFormedFacts ==
  ASSUME NEW m \in Meta, NEW v \in VersionIds, NEW known, NEW known2,
         WellFormed(m, known), known \subseteq known2
  PROVE  /\ WellFormed(Absent, known2)
         /\ WellFormed(m, known2)
         /\ v \in known2 => WellFormed(WithVersion(m, v), known2)
         /\ v \in m.versions => WellFormed(Activated(m, v), known2)
         /\ v # m.active => WellFormed(WithoutVersion(m, v), known2)
         /\ v \in known2 =>
              WellFormed(Activated(WithVersion(m, v), v), known2)
<1>1. WithVersion(m, v) \in Meta
  BY MetaFields
<1> QED  BY <1>1, MetaFields, MetaPresent DEF WellFormed

(* The metadata of n a handler may leave behind. *)
LEMMA OneOfThree ==
  ASSUME TypeOK, NEW n \in Names, NEW c, NEW old, NEW new,
         Record(n, old, new) \/ DeployAndRecord(n, c, old, new)
  PROVE  \E x \in {old, new, Absent} : meta' = [meta EXCEPT ![n] = x]
BY DEF Record, DeployAndRecord, MetaWriteFails

(* A name keeps its taint, or no longer needs it. *)
NameSettled(n) == Readable(n)' => meta'[n].name = n
NameKept(n) ==
  /\ Readable(n)' => Readable(n) /\ meta'[n].name = meta[n].name
  /\ n \in tainted => n \in tainted'
NameTainted(n) == n \in tainted'

LEMMA NameFrame ==
  ASSUME TypeOK, NameInv,
         \A n \in Names : NameSettled(n) \/ NameKept(n) \/ NameTainted(n)
  PROVE  NameInv'
BY DEF TypeOK, NameInv, NameSettled, NameKept, NameTainted

(* A name is unaffected when its active version, that version's content    *)
(* and its deployment are; and it was untainted before.                    *)
ServedKept(n) ==
  /\ n \notin tainted
  /\ Active(n)' = Active(n)
  /\ Active(n) # Absent => files'[n][Active(n)] = files[n][Active(n)]
  /\ served'[n] = served[n]

LEMMA ServedFrame ==
  ASSUME ServedIsActive,
         \A n \in Names \ tainted' : ServedKept(n) \/ Consistent(n)'
  PROVE  ServedIsActive'
<1> SUFFICES ASSUME NEW n \in Names \ tainted', ServedKept(n)
             PROVE  Consistent(n)'
  BY DEF ServedIsActive
<1>1. Consistent(n)
  BY DEF ServedIsActive, ServedKept
<1> QED  BY <1>1 DEF ServedKept, Consistent, Published

(* What the ways to end do to taint.          *)
LEMMA EndKeeps ==
  ASSUME TypeOK, NEW ns \in SUBSET Names,
         Returned(tainted) \/ Interrupted(ns) \/ Failed(ns) \/ Crashed(ns)
  PROVE  /\ tainted \subseteq tainted'
         /\ ~Returned(tainted) => ns \subseteq tainted'
BY DEF TypeOK, Returned, Interrupted, Failed, Crashed, Fault

(* Activating version v of n, whose content is c, from metadata old to     *)
(* metadata new: names stay right and what is served is what is active.    *)
LEMMA DeployAndRecordKeeps ==
  ASSUME TypeOK, NameInv, ServedIsActive,
         NEW n \in Names, NEW v \in VersionIds, NEW c \in Contents,
         NEW old \in Meta \cup {Absent}, NEW new \in Meta,
         new.active = v,
         new.name = IF Readable(n) THEN meta[n].name ELSE n,
         old # Absent => old.name = new.name,
         DeployAndRecord(n, c, old, new),
         files'[n][v] = c,
         \A m \in Names \ {n} : files'[m] = files[m]
  PROVE  NameInv' /\ ServedIsActive'
<1> DEFINE k == new.name
<1>1. k \in Names
  BY DEF Meta
<1>2. k # n => n \in tainted /\ Readable(n)
  BY DEF NameInv
<1>3. \/ /\ Deploy(k, c)
         /\ meta' = [meta EXCEPT ![n] = new]
         /\ Returned(TaintAfterDeploy(n, k))
      \/ /\ Deploy(k, c) \/ DeployFails(k)
         /\ Interrupted({n, k})
  BY DEF DeployAndRecord
<1>4. \A m \in Names \ {n} : meta'[m] = meta[m]
  BY OneOfThree DEF TypeOK
<1>5. meta'[n] \in {old, new, Absent}
  BY OneOfThree DEF TypeOK
<1>6. /\ \A m \in Names \ {n} : m \in tainted => m \in tainted'
      /\ n \in tainted' \/ (k = n /\ meta'[n] = new /\ Deploy(k, c))
      /\ k \in tainted' \/ k = n
  <2>1. CASE /\ Deploy(k, c)
             /\ meta' = [meta EXCEPT ![n] = new]
             /\ Returned(TaintAfterDeploy(n, k))
    BY <1>2, <2>1 DEF TypeOK, Returned, TaintAfterDeploy
  <2>2. CASE Interrupted({n, k})
    BY <1>1, <2>2, EndKeeps DEF TypeOK, Interrupted, Failed, Crashed, Fault
  <2> QED  BY <1>3, <2>1, <2>2
<1>7. NameInv'
  <2>1. ASSUME NEW m \in Names \ {n} PROVE NameKept(m)
    BY <1>4, <1>6 DEF NameKept, Readable
  <2>2. NameSettled(n) \/ NameKept(n)
    <3>1. k = n => NameSettled(n)
      BY <1>5 DEF NameSettled, Readable
    <3>2. k # n => NameKept(n)
      BY <1>2, <1>5, <1>6 DEF NameKept, Readable
    <3> QED  BY <3>1, <3>2
  <2> QED  BY <1>6, <2>1, <2>2, NameFrame
<1>8. ServedIsActive'
  <2>1. ASSUME NEW m \in Names \ {n}, m \notin tainted' PROVE ServedKept(m)
    <3>1. m # k
      BY <1>6, <2>1
    <3>2. served'[m] = served[m]
      BY <1>3, <3>1 DEF TypeOK, Deploy, DeployFails
    <3> QED  BY <1>4, <1>6, <2>1, <3>2 DEF ServedKept, Active, Readable
  <2>2. ASSUME n \notin tainted' PROVE Consistent(n)'
    <3>1. k = n /\ meta'[n] = new /\ served'[n] = Published(n, c)
      BY <1>6, <2>2 DEF TypeOK, Deploy
    <3>2. Active(n)' = v
      BY <3>1, MetaPresent DEF Active, Readable
    <3>3. v # Absent /\ c # Absent
      BY RegistryAssumption
    <3> QED  BY <3>1, <3>2, <3>3 DEF Consistent, Published
  <2> QED  BY <2>1, <2>2, ServedFrame
<1> QED  BY <1>7, <1>8

(* Writing metadata new for n without deploying anything: the active       *)
(* version must stay what it was, and so must its content.                 *)
LEMMA RecordKeeps ==
  ASSUME TypeOK, NameInv, ServedIsActive,
         NEW n \in Names, NEW old \in Meta \cup {Absent}, NEW new \in Meta,
         new.active = Active(n),
         new.name = IF Readable(n) THEN meta[n].name ELSE n,
         old # Absent => old.name = new.name,
         Record(n, old, new),
         Active(n) # Absent => files'[n][Active(n)] = files[n][Active(n)],
         \A m \in Names \ {n} : files'[m] = files[m]
  PROVE  NameInv' /\ ServedIsActive'
<1>1. \A m \in Names \ {n} : meta'[m] = meta[m]
  BY DEF TypeOK, Record, MetaWriteFails
<1>2. meta'[n] \in {old, new, Absent}
  BY DEF TypeOK, Record, MetaWriteFails
<1>3. /\ tainted \subseteq tainted'
      /\ n \in tainted' \/ meta'[n] = new
  <2>1. {n} \in SUBSET Names
    OBVIOUS
  <2>2. CASE meta' = [meta EXCEPT ![n] = new] /\ Returned(tainted)
    BY <2>2 DEF TypeOK, Returned
  <2>3. CASE Interrupted({n})
    BY <2>1, <2>3, EndKeeps DEF TypeOK, Interrupted, Failed, Crashed, Fault
  <2> QED  BY <2>2, <2>3 DEF Record
<1>4. NameInv'
  <2>1. ASSUME NEW m \in Names \ {n} PROVE NameKept(m)
    BY <1>1, <1>3 DEF NameKept, Readable
  <2>2. NameSettled(n) \/ NameKept(n)
    <3>1. Readable(n) => NameKept(n)
      BY <1>2, <1>3 DEF NameKept, Readable
    <3>2. ~Readable(n) => NameSettled(n)
      BY <1>2 DEF NameSettled, Readable
    <3> QED  BY <3>1, <3>2
  <2> QED  BY <1>3, <2>1, <2>2, NameFrame
<1>5. ServedIsActive'
  <2>1. served' = served
    BY DEF Record
  <2>2. ASSUME NEW m \in Names \ {n}, m \notin tainted' PROVE ServedKept(m)
    BY <1>1, <1>3, <2>1, <2>2 DEF ServedKept, Active, Readable
  <2>3. ASSUME n \notin tainted' PROVE ServedKept(n)
    <3>1. Active(n)' = Active(n)
      BY <1>3, <2>3, MetaPresent DEF Active, Readable
    <3> QED  BY <1>3, <2>1, <2>3, <3>1 DEF ServedKept
  <2> QED  BY <2>2, <2>3, ServedFrame
<1> QED  BY <1>4, <1>5

(* A step that leaves n in doubt: it may keep the metadata or lose it, but *)
(* it taints n or leaves n's deployment and active content alone.          *)
LEMMA DoubtKeeps ==
  ASSUME TypeOK, NameInv, ServedIsActive, NEW n \in Names,
         NEW ns \in SUBSET Names,
         Returned(tainted) \/ Interrupted(ns) \/ Failed(ns) \/ Crashed(ns),
         meta'[n] \in {meta[n], BaseMeta(n), Absent},
         \A m \in Names \ {n} :
           /\ meta'[m] = meta[m] /\ files'[m] = files[m]
           /\ served'[m] = served[m],
         n \notin tainted' => ServedKept(n)
  PROVE  NameInv' /\ ServedIsActive'
<1>1. /\ tainted \subseteq tainted'
  BY EndKeeps
<1>2. \A m \in Names \ {n} : NameKept(m)
  BY <1>1 DEF NameKept, Readable
<1>3. NameKept(n) \/ NameSettled(n)
  <2>1. CASE Readable(n)
    BY <1>1, <2>1, BaseMetaFields DEF NameKept, Readable
  <2>2. CASE ~Readable(n)
    BY <2>2, BaseMetaFields DEF NameSettled, Readable
  <2> QED  BY <2>1, <2>2
<1>4. NameInv'
  BY <1>1, <1>2, <1>3, NameFrame
<1>5. \A m \in Names \ tainted' : ServedKept(m)
  BY <1>1 DEF ServedKept, Active, Readable
<1> QED  BY <1>4, <1>5, ServedFrame

(* A new version v of n does not disturb what n serves: v is not active.   *)
LEMMA AddVersionKeeps ==
  ASSUME RegistryInv, NEW n \in Names, NEW v \in VersionIds,
         Readable(n), v # Active(n), UNCHANGED <<dirs, served>>,
         \/ \E c \in Contents : AddVersion(n, v, c)
         \/ AddVersionFails(n, v)
  PROVE  MetaInv' /\ NameInv' /\ ServedIsActive'
<1> DEFINE new == WithVersion(meta[n], v)
<1> USE DEF RegistryInv
<1>1. /\ meta[n] \in Meta /\ new \in Meta /\ new.name = meta[n].name
      /\ new.active = Active(n)
  BY MetaFields DEF TypeOK, Readable, Active
<1>2. allocated' = allocated \cup {v} /\ n \in dirs
  BY DEF AddVersion, AddVersionFails, MetaInv, Readable
<1>3. PICK x \in {meta[n], new, Absent} : meta' = [meta EXCEPT ![n] = x]
  BY DEF AddVersion, AddVersionFails, TypeOK
<1>4. /\ \A m \in Names \ {n} : files'[m] = files[m]
      /\ Active(n) # Absent => files'[n][Active(n)] = files[n][Active(n)]
  BY <1>1 DEF TypeOK, AddVersion, AddVersionFails, Meta
<1>5. MetaInv'
  <2>1. WellFormed(meta[n], allocated) /\ v \in allocated'
    BY <1>2 DEF MetaInv
  <2>2. WellFormed(x, allocated')
    BY <1>1, <1>2, <2>1, WellFormedFacts
  <2> QED  BY <1>2, <1>3, <2>2, MetaWritten
<1>6. CASE meta' = [meta EXCEPT ![n] = new] /\ Returned(tainted)
  <2>1. Record(n, meta[n], new)
    BY <1>6 DEF Record
  <2>2. NameInv' /\ ServedIsActive'
    BY <1>1, <1>4, <2>1, RecordKeeps
  <2> QED  BY <1>5, <2>2
<1>7. CASE UNCHANGED meta /\ Interrupted({})
  <2>1. {} \in SUBSET Names /\ tainted \subseteq tainted'
    BY <1>7, EndKeeps
  <2>2. n \notin tainted' => ServedKept(n)
    BY <1>4, <1>7, <2>1 DEF ServedKept, Active, Readable
  <2>3. NameInv' /\ ServedIsActive'
    BY <1>4, <1>7, <2>1, <2>2, DoubtKeeps
  <2> QED  BY <1>5, <2>3
<1>8. CASE meta' = [meta EXCEPT ![n] = Absent] /\ Interrupted({n})
  <2>1. {n} \in SUBSET Names /\ n \in tainted'
    BY <1>8 DEF Interrupted, Failed, Crashed, Fault
  <2>2. NameInv' /\ ServedIsActive'
    BY <1>4, <1>8, <2>1, DoubtKeeps DEF TypeOK
  <2> QED  BY <1>5, <2>2
<1> QED  BY <1>6, <1>7, <1>8 DEF AddVersion, AddVersionFails

(* A file operation, which runs after its path was resolved: metadata is   *)
(* kept, and a change of the active version's content is published.        *)
LEMMA ChangeVersionKeeps ==
  ASSUME RegistryInv, NEW p \in Clients, pend[p] # Absent,
         NEW n \in Names, NEW v \in VersionIds,
         pend[p].name = n, pend[p].version = v,
         NEW c \in Contents, ChangeVersion(p, c)
  PROVE  MetaInv' /\ NameInv' /\ ServedIsActive'
<1> USE DEF RegistryInv
<1>1. n \in Names /\ v \in VersionIds
  OBVIOUS
<1>2. /\ dirs' = dirs \cup {n} /\ files' = [files EXCEPT ![n][v] = c]
      /\ meta' = meta /\ allocated' = allocated
  BY DEF ChangeVersion
<1>3. MetaInv'
  BY <1>2, MetaFrame DEF MetaKept
<1>4. \A m \in Names \ {n} : files'[m] = files[m]
  BY <1>2 DEF TypeOK
<1>5. Active(n) # v => \/ Active(n) = Absent
                       \/ files'[n][Active(n)] = files[n][Active(n)]
  BY <1>1, <1>2 DEF TypeOK
<1>6. CASE Active(n) = v
  <2>1. v \in Listed(n) /\ Readable(n) /\ meta[n] \in Meta
    BY <1>1, <1>6, MetaPresent
    DEF MetaInv, WellFormed, Active, Listed, Readable, TypeOK
  <2> DEFINE k == meta[n].name
  <2>2. k \in Names /\ (k # n => n \in tainted)
    BY <1>1, <2>1 DEF NameInv, Meta
  <2>3. /\ tainted \subseteq tainted'
        /\ \A m \in Names \ tainted' :
             served'[m] = IF m = n THEN Published(n, c) ELSE served[m]
    <3>1. CASE /\ Deploy(k, c)
               /\ FileDone(p, IF k = n THEN tainted ELSE tainted \cup {k})
      BY <1>1, <2>2, <3>1 DEF TypeOK, Deploy, FileDone
    <3>2. CASE DeployFails(k) /\ FileInterrupted(p, {n, k})
      <4>1. n \in tainted' /\ k \in tainted'
        BY <3>2 DEF FileInterrupted, Crashed, Fault
      <4> QED
        BY <1>1, <2>2, <3>2, <4>1
        DEF TypeOK, DeployFails, FileInterrupted, Crashed, Fault
    <3>3. CASE UNCHANGED served /\ FileInterrupted(p, {n})
      BY <3>3 DEF TypeOK, FileInterrupted, Crashed, Fault
    <3> QED
      BY <1>6, <2>1, <3>1, <3>2, <3>3 DEF ChangeVersion, SyncIfActive
  <2>4. NameInv'
    BY <1>2, <2>3, NameFrame DEF NameKept, Readable
  <2>5. ASSUME NEW m \in Names \ {n}, m \notin tainted' PROVE ServedKept(m)
    BY <1>2, <1>4, <2>3, <2>5 DEF ServedKept, Active, Readable
  <2>6. ASSUME n \notin tainted' PROVE Consistent(n)'
    <3>1. Active(n)' = v /\ served'[n] = Published(n, c) /\ files'[n][v] = c
      BY <1>1, <1>2, <1>6, <2>3, <2>6 DEF TypeOK, Active, Readable
    <3>2. v # Absent /\ c # Absent
      BY <1>1, RegistryAssumption
    <3> QED  BY <3>1, <3>2 DEF Consistent, Published
  <2> QED  BY <1>3, <2>4, <2>5, <2>6, ServedFrame
<1>7. CASE Active(n) # v
  <2>1. /\ UNCHANGED served
        /\ FileDone(p, tainted) \/ FileInterrupted(p, {})
    BY <1>7 DEF ChangeVersion, SyncIfActive
  <2>2. tainted \subseteq tainted'
    BY <2>1 DEF TypeOK, FileDone, FileInterrupted, Crashed, Fault
  <2>3. NameInv'
    BY <1>2, <2>2, NameFrame DEF NameKept, Readable
  <2>4. \A m \in Names \ tainted' : ServedKept(m)
    BY <1>2, <1>4, <1>5, <1>7, <2>1, <2>2 DEF ServedKept, Active, Readable
  <2> QED  BY <1>3, <2>3, <2>4, ServedFrame
<1> QED  BY <1>6, <1>7

(* Deleting a skill, when the registry directory goes.                     *)
LEMMA DeleteDoneKeeps ==
  ASSUME RegistryInv, NEW n \in Names, DeleteDone(n), allocated' = allocated
  PROVE  MetaInv' /\ NameInv' /\ ServedIsActive'
<1> USE DEF RegistryInv
<1>1. /\ meta'[n] = Absent /\ dirs' = dirs \ {n}
      /\ \A m \in Names \ {n} : /\ meta'[m] = meta[m] /\ files'[m] = files[m]
                                /\ served'[m] = served[m]
  BY DEF DeleteDone, TypeOK
<1>2. /\ \A m \in Names \ {n} : m \in tainted => m \in tainted'
      /\ n \in tainted' \/ served'[n] = Absent
  BY DEF DeleteDone, Returned, Interrupted, Failed, Crashed, Fault, TypeOK
<1>3. MetaInv'
  BY <1>1, MetaFrame DEF MetaKept, MetaSettled, WellFormed
<1>4. NameInv'
  <2>1. NameSettled(n)
    BY <1>1 DEF NameSettled, Readable
  <2>2. \A m \in Names \ {n} : NameKept(m)
    BY <1>1, <1>2 DEF NameKept, Readable
  <2> QED  BY <1>2, <2>1, <2>2, NameFrame
<1>5. ServedIsActive'
  <2>1. n \notin tainted' => Consistent(n)'
    BY <1>1, <1>2 DEF Consistent, Active, Readable
  <2>2. \A m \in Names \ {n} : m \notin tainted' => ServedKept(m)
    BY <1>1, <1>2 DEF ServedKept, Active, Readable
  <2> QED  BY <2>1, <2>2, ServedFrame
<1> QED  BY <1>3, <1>4, <1>5

(* Renaming n to m when the directory and its metadata have moved: the     *)
(* deployment has moved too, or both names are tainted.                    *)
LEMMA RenameDoneKeeps ==
  ASSUME RegistryInv, NEW n \in Names, NEW m \in Names, n # m,
         n \in dirs, m \notin dirs, Readable(n), RenameDone(n, m),
         allocated' = allocated
  PROVE  MetaInv' /\ NameInv' /\ ServedIsActive'
<1> USE DEF RegistryInv
<1>1. /\ meta[n] \in Meta /\ WithName(meta[n], m) \in Meta
      /\ WithName(meta[n], m).name = m
      /\ WithName(meta[n], m).active = meta[n].active
      /\ WithName(meta[n], m).versions = meta[n].versions
  BY WithNameFields DEF TypeOK, Readable
<1>2. /\ dirs' = (dirs \ {n}) \cup {m}
      /\ meta'[m] = WithName(meta[n], m) /\ meta'[n] = Absent
      /\ files'[m] = files[n]
      /\ \A q \in Names \ {n, m} : meta'[q] = meta[q] /\ files'[q] = files[q]
  BY DEF RenameDone, Moved, TypeOK
<1>3. MetaInv'
  <2>1. MetaSettled(n)
    BY <1>2 DEF MetaSettled, WellFormed
  <2>2. WellFormed(meta[n], allocated) /\ meta[n] # Absent
    BY DEF MetaInv, Readable
  <2>3. MetaSettled(m)
    BY <1>1, <1>2, <2>2 DEF MetaSettled, WellFormed
  <2>4. \A q \in Names \ {n, m} : MetaKept(q)
    BY <1>2 DEF MetaKept
  <2> QED  BY <2>1, <2>3, <2>4, MetaFrame
<1>4. RenameDeployed(n, m)
  BY DEF RenameDone
<1>5. Active(m) = Absent /\ Active(n) = meta[n].active
  BY DEF MetaInv, Active, Readable
<1>6.
      /\ \A q \in Names \ {n, m} :
           (q \in tainted => q \in tainted') /\ served'[q] = served[q]
      /\ n \notin tainted' => served'[n] = Absent
      /\ m \notin tainted' =>
           /\ n \notin tainted /\ m \notin tainted
           /\ served'[m] = IF served[n] = Absent THEN served[m]
                           ELSE Relabelled(served[n], m)
  <2>1. CASE served[n] = Absent /\ UNCHANGED served /\ Returned(MovedTaint(n, m))
    BY <2>1 DEF TypeOK, Returned, MovedTaint
  <2>2. CASE /\ served[n] # Absent /\ served[m] = Absent
             /\ served' = [Moved(served, n, m, Absent)
                             EXCEPT ![m] = Relabelled(served[n], m)]
             /\ Returned(MovedTaint(n, m))
    <3>1. /\ served'[n] = Absent /\ served'[m] = Relabelled(served[n], m)
          /\ \A q \in Names \ {n, m} : served'[q] = served[q]
      BY <2>2 DEF TypeOK, Moved
    <3> QED  BY <2>2, <3>1 DEF TypeOK, Returned, MovedTaint
  <2>3. CASE /\ \E k : served' = [Moved(served, n, m, Absent)
                                    EXCEPT ![m].label = k]
             /\ Interrupted({n, m})
    <3>1. \A q \in Names \ {n, m} : served'[q] = served[q]
      BY <2>3 DEF TypeOK, Moved
    <3> QED  BY <2>3, <3>1 DEF TypeOK, Interrupted, Failed, Crashed, Fault
  <2>4. CASE /\ UNCHANGED served
             /\ Interrupted({n, m}) \/ Returned(tainted \cup {n, m})
    BY <2>4 DEF TypeOK, Returned, Interrupted, Failed, Crashed, Fault
  <2> QED  BY <1>4, <2>1, <2>2, <2>3, <2>4 DEF RenameDeployed
<1>7. NameInv'
  <2>1. NameSettled(n) /\ NameSettled(m)
    BY <1>1, <1>2 DEF NameSettled, Readable
  <2>2. \A q \in Names \ {n, m} : NameKept(q)
    BY <1>2, <1>6 DEF NameKept, Readable
  <2> QED  BY <1>6, <2>1, <2>2, NameFrame
<1>8. ServedIsActive'
  <2>1. n \notin tainted' => Consistent(n)'
    BY <1>2, <1>6 DEF Consistent, Active, Readable
  <2>2. ASSUME m \notin tainted' PROVE Consistent(m)'
    <3>1. Consistent(n) /\ Consistent(m)
      BY <1>6, <2>2 DEF ServedIsActive
    <3>2. Active(m)' = Active(n) /\ files'[m] = files[n] /\ served[m] = Absent
      BY <1>1, <1>2, <1>5, <3>1, MetaPresent
      DEF Active, Readable, Consistent
    <3>3. CASE served[n] = Absent
      <4>1. Active(n) = Absent
        <5>1. \A v \in VersionIds : files[n][v] # Absent =>
                Published(n, files[n][v]) \in Deployment
          BY PublishedFields DEF TypeOK
        <5>2. Active(n) \in VersionIds \cup {Absent}
          BY <1>1, <1>5 DEF Meta
        <5> QED  BY <3>1, <3>3, <5>1, <5>2, RegistryAssumption DEF Consistent
      <4> QED  BY <1>6, <2>2, <3>2, <3>3, <4>1 DEF Consistent
    <3>4. CASE served[n] # Absent
      <4>1. served[n] \in Deployment
        BY <3>4 DEF TypeOK
      <4>2. Active(n) # Absent
        BY <3>1, <3>4 DEF Consistent
      <4>3. /\ files[n][Active(n)] \in Contents
            /\ served[n] = Published(n, files[n][Active(n)])
        BY <1>1, <1>5, <3>1, <4>2 DEF Consistent, TypeOK, Meta
      <4>4. served'[m] = Published(m, files[n][Active(n)])
        BY <1>6, <2>2, <3>4, <4>1, <4>3, RelabelledFields
      <4> QED  BY <3>2, <4>2, <4>3, <4>4, RegistryAssumption
               DEF Consistent, Published
    <3> QED  BY <3>3, <3>4
  <2>3. \A q \in Names \ {n, m} : q \notin tainted' => ServedKept(q)
    BY <1>2, <1>6 DEF ServedKept, Active, Readable
  <2> QED  BY <2>1, <2>2, <2>3, ServedFrame
<1> QED  BY <1>3, <1>7, <1>8

(* Every action keeps the inductive invariant. *)
LEMMA RegistryStep == RegistryInv /\ [Next]_vars => RegistryInv'
<1> SUFFICES ASSUME RegistryInv, [Next]_vars
             PROVE  MetaInv' /\ NameInv' /\ ServedIsActive'
  BY TypeStep DEF RegistryInv
<1> USE DEF RegistryInv
<1> DEFINE Goal == MetaInv' /\ NameInv' /\ ServedIsActive'
<1>1. ASSUME NEW n \in Names, Create(n) PROVE Goal
  <2>1. /\ dirs' = dirs \cup {n} /\ meta[n] = Absent
        /\ files' = files /\ served' = served /\ allocated' = allocated
    BY <1>1 DEF Create, MetaInv
  <2>2. PICK x \in {FreshMeta(n), Absent} : meta' = [meta EXCEPT ![n] = x]
    BY <1>1, <2>1 DEF Create, TypeOK
  <2>3. WellFormed(x, allocated')
    BY FreshMetaFields DEF WellFormed
  <2>4. MetaInv'
    BY <2>1, <2>2, <2>3, MetaWritten
  <2>5. BaseMeta(n) = FreshMeta(n)
    BY <2>1 DEF BaseMeta, Readable
  <2>6. Active(n)' = Active(n)
    BY <2>1, <2>2, FreshMetaFields DEF TypeOK, Active, Readable
  <2>7. /\ {n} \in SUBSET Names
        /\ Returned(tainted) \/ Interrupted({n})
    BY <1>1 DEF Create
  <2>8. tainted \subseteq tainted'
    BY <2>7, EndKeeps
  <2>9. NameInv' /\ ServedIsActive'
    BY <2>1, <2>2, <2>5, <2>6, <2>7, <2>8, DoubtKeeps DEF TypeOK, ServedKept
  <2> QED  BY <2>4, <2>9
<1>2. ASSUME NEW n \in Names, Update(n) PROVE Goal
  <2>1. meta[n] \in Meta /\ n \in dirs
    BY <1>2 DEF Update, MetaInv, TypeOK, Readable
  <2>2. Record(n, meta[n], meta[n])
    BY <1>2 DEF Update
  <2>3. PICK x \in {meta[n], Absent} : meta' = [meta EXCEPT ![n] = x]
    BY <2>2 DEF Record, MetaWriteFails
  <2>4. WellFormed(x, allocated)
    BY DEF MetaInv, WellFormed
  <2>5. MetaInv'
    BY <1>2, <2>1, <2>3, <2>4, MetaWritten DEF Update
  <2>6. NameInv' /\ ServedIsActive'
    BY <1>2, <2>1, <2>2, RecordKeeps DEF Update, Active, Readable
  <2> QED  BY <2>5, <2>6
<1>3. ASSUME NEW n \in Names, Delete(n) PROVE Goal
  <2>1. CASE DeleteDone(n)
    BY <1>3, <2>1, DeleteDoneKeeps DEF Delete
  <2>2. CASE DeletePartial(n)
    <3>1. PICK x \in {meta[n], Absent} : meta' = [meta EXCEPT ![n] = x]
      BY <2>2 DEF DeletePartial, MetaWriteFails
    <3>2. WellFormed(x, allocated)
      BY DEF MetaInv, WellFormed
    <3>3. MetaInv'
      BY <1>3, <2>2, <3>1, <3>2, MetaWritten DEF Delete, DeletePartial
    <3>4. {n} \in SUBSET Names /\ Interrupted({n}) /\ n \in tainted'
      BY <2>2 DEF DeletePartial, Interrupted, Failed, Crashed, Fault
    <3>5. \A m \in Names \ {n} :
            /\ meta'[m] = meta[m] /\ files'[m] = files[m]
            /\ served'[m] = served[m]
      BY <2>2, <3>1 DEF DeletePartial, TypeOK
    <3>6. NameInv' /\ ServedIsActive'
      BY <3>1, <3>4, <3>5, DoubtKeeps DEF TypeOK
    <3> QED  BY <3>3, <3>6
  <2> QED  BY <1>3, <2>1, <2>2 DEF Delete
<1>4. ASSUME NEW n \in Names, NEW m \in Names, Rename(n, m) PROVE Goal
  <2>1. CASE RenameDone(n, m)
    BY <1>4, <2>1, RenameDoneKeeps DEF Rename, RenameDone
  <2>2. CASE RenameRolledBack(n)
    <3>1. meta' = [meta EXCEPT ![n] = Absent]
      BY <2>2 DEF RenameRolledBack
    <3>2. WellFormed(Absent, allocated)
      BY DEF WellFormed
    <3>3. MetaInv'
      BY <1>4, <2>2, <3>1, <3>2, MetaWritten DEF Rename, RenameRolledBack
    <3>4. {n} \in SUBSET Names /\ Failed({n}) /\ n \in tainted'
      BY <2>2 DEF RenameRolledBack, Failed, Fault
    <3>5. NameInv' /\ ServedIsActive'
      BY <2>2, <3>1, <3>4, DoubtKeeps DEF RenameRolledBack, TypeOK
    <3> QED  BY <3>3, <3>5
  <2>3. CASE RenameHalfway(n, m)
    <3>1. /\ dirs' = (dirs \ {n}) \cup {m} /\ allocated' = allocated
          /\ meta'[m] \in {meta[n], Absent} /\ meta'[n] = Absent
          /\ \A q \in Names \ {n, m} : /\ meta'[q] = meta[q]
                                       /\ files'[q] = files[q]
                                       /\ served'[q] = served[q]
      BY <1>4, <2>3 DEF Rename, RenameHalfway, Moved, TypeOK
    <3>2. tainted' = tainted \cup {n, m}
      BY <2>3 DEF RenameHalfway, Interrupted, Failed, Crashed, Fault
    <3>3. WellFormed(meta[n], allocated)
      BY DEF MetaInv
    <3>4. MetaSettled(n) /\ MetaSettled(m)
      BY <3>1, <3>3 DEF MetaSettled, WellFormed
    <3>5. \A q \in Names \ {n, m} : MetaKept(q)
      BY <3>1 DEF MetaKept
    <3>6. MetaInv'
      BY <3>1, <3>4, <3>5, MetaFrame
    <3>7. NameTainted(n) /\ NameTainted(m)
      BY <3>2 DEF NameTainted
    <3>8. \A q \in Names \ {n, m} : NameKept(q)
      BY <3>1, <3>2 DEF NameKept, Readable
    <3>9. NameInv'
      BY <3>2, <3>7, <3>8, NameFrame
    <3>10. \A q \in Names \ tainted' : ServedKept(q)
      BY <3>1, <3>2 DEF ServedKept, Active, Readable
    <3> QED  BY <3>6, <3>9, <3>10, ServedFrame
  <2> QED  BY <1>4, <2>1, <2>2, <2>3 DEF Rename
<1>5. ASSUME NEW n \in Names, NEW m \in Names, Copy(n, m) PROVE Goal
  <2> DEFINE new == [FreshMeta(m) EXCEPT !.versions = Listed(n)]
  <2>1. new \in Meta /\ new.name = m /\ new.active = Absent
        /\ new.versions = Listed(n)
    BY CopiedMetaFields
  <2>2. /\ dirs' = dirs \cup {m} /\ allocated' = allocated /\ served' = served
        /\ meta[m] = Absent /\ ~Readable(m)
    BY <1>5 DEF Copy, MetaInv, Readable
  <2>3. \A q \in Names \ {m} : meta'[q] = meta[q] /\ files'[q] = files[q]
    BY <1>5 DEF Copy, CopyDone, CopyHalfway, TypeOK
  <2>4. CASE CopyDone(n, m)
    <3>1. /\ meta' = [meta EXCEPT ![m] = new] /\ meta'[m] = new
          /\ tainted' = tainted
      BY <2>4 DEF CopyDone, Returned, TypeOK
    <3>2. Listed(n) \subseteq allocated
      BY DEF MetaInv, WellFormed, Listed, Readable
    <3>3. WellFormed(new, allocated)
      BY <2>1, <3>2 DEF WellFormed
    <3>4. MetaInv'
      BY <2>2, <3>1, <3>3, MetaWritten
    <3>5. NameSettled(m)
      BY <2>1, <3>1 DEF NameSettled
    <3>6. \A q \in Names \ {m} : NameKept(q)
      BY <2>3, <3>1 DEF NameKept, Readable
    <3>7. NameInv'
      BY <3>1, <3>5, <3>6, NameFrame DEF TypeOK
    <3>8. Active(m)' = Active(m) /\ Active(m) = Absent
      BY <2>1, <2>2, <3>1 DEF Active, Readable
    <3>9. \A q \in Names \ tainted' : ServedKept(q)
      BY <2>2, <2>3, <3>1, <3>8 DEF ServedKept, Active, Readable
    <3> QED  BY <3>4, <3>7, <3>9, ServedFrame
  <2>5. CASE CopyHalfway(n, m)
    <3>1. PICK x \in {meta[n], Absent} : meta' = [meta EXCEPT ![m] = x]
      BY <2>5 DEF CopyHalfway
    <3>2. WellFormed(x, allocated)
      BY DEF MetaInv, WellFormed
    <3>3. MetaInv'
      BY <2>2, <3>1, <3>2, MetaWritten
    <3>4. tainted' = tainted \cup {m}
      BY <2>5 DEF CopyHalfway, Interrupted, Failed, Crashed, Fault
    <3>5. NameTainted(m)
      BY <3>4 DEF NameTainted
    <3>6. \A q \in Names \ {m} : NameKept(q)
      BY <2>3, <3>4 DEF NameKept, Readable
    <3>7. NameInv'
      BY <3>4, <3>5, <3>6, NameFrame
    <3>8. \A q \in Names \ tainted' : ServedKept(q)
      BY <2>2, <2>3, <3>4 DEF ServedKept, Active, Readable
    <3> QED  BY <3>3, <3>7, <3>8, ServedFrame
  <2> QED  BY <1>5, <2>4, <2>5 DEF Copy
<1>6. ASSUME NEW n \in Names, NEW v \in VersionIds, NEW b \in BOOLEAN,
             VersionCreate(n, v, b)
      PROVE  Goal
  <2>1. \/ \E c \in Contents : AddVersion(n, v, c)
        \/ AddVersionFails(n, v)
    BY <1>6, CreatesVersion
  <2>2. v # Active(n)
    BY <1>6, MetaPresent
    DEF VersionCreate, MetaInv, WellFormed, Active, Readable
  <2> QED  BY <1>6, <2>1, <2>2, AddVersionKeeps DEF VersionCreate
<1>7. ASSUME NEW n \in Names, NEW v \in VersionIds, NEW w \in VersionIds,
             VersionClone(n, v, w)
      PROVE  Goal
  <2>1. files[n][v] \in Contents
    BY <1>7 DEF TypeOK, VersionClone
  <2>2. w # Active(n)
    BY <1>7, MetaPresent
    DEF VersionClone, MetaInv, WellFormed, Active, Readable, Listed
  <2> QED  BY <1>7, <2>1, <2>2, AddVersionKeeps DEF VersionClone
<1>8. ASSUME NEW n \in Names, NEW v \in VersionIds, VersionDelete(n, v)
      PROVE  Goal
  <2> DEFINE new == WithoutVersion(meta[n], v)
  <2>1. /\ meta[n] \in Meta /\ new \in Meta /\ new.name = meta[n].name
        /\ new.active = Active(n) /\ n \in dirs
    BY <1>8, MetaFields
    DEF TypeOK, VersionDelete, Readable, Active, MetaInv
  <2>2. /\ v # Active(n) /\ v # meta[n].active
        /\ dirs' = dirs /\ allocated' = allocated
    BY <1>8 DEF VersionDelete, Deletable, Active
  <2>3. /\ \A m \in Names \ {n} : files'[m] = files[m]
        /\ Active(n) # Absent => files'[n][Active(n)] = files[n][Active(n)]
    BY <1>8, <2>1, <2>2 DEF VersionDelete, TypeOK, Meta
  <2>4. CASE Record(n, meta[n], new)
    <3>1. PICK x \in {meta[n], new, Absent} : meta' = [meta EXCEPT ![n] = x]
      BY <2>4 DEF Record, MetaWriteFails
    <3>2. WellFormed(meta[n], allocated)
      BY DEF MetaInv
    <3>3. WellFormed(x, allocated)
      BY <2>1, <2>2, <3>2, WellFormedFacts
    <3>4. MetaInv'
      BY <2>1, <2>2, <3>1, <3>3, MetaWritten
    <3> QED  BY <1>8, <2>1, <2>3, <2>4, <3>4, RecordKeeps DEF VersionDelete
  <2>5. CASE Interrupted({}) /\ UNCHANGED <<meta, served>>
    <3>1. MetaInv'
      BY <2>2, <2>5, MetaFrame DEF MetaKept
    <3>2. {} \in SUBSET Names /\ tainted \subseteq tainted'
      BY <2>5, EndKeeps
    <3>3. n \notin tainted' => ServedKept(n)
      BY <2>3, <2>5, <3>2 DEF ServedKept, Active, Readable
    <3>4. NameInv' /\ ServedIsActive'
      BY <2>3, <2>5, <3>2, <3>3, DoubtKeeps
    <3> QED  BY <3>1, <3>4
  <2> QED  BY <1>8, <2>4, <2>5 DEF VersionDelete
<1>9. ASSUME NEW n \in Names, NEW v \in VersionIds, Activate(n, v)
      PROVE  Goal
  <2> DEFINE new == Activated(meta[n], v)
             c == files[n][v]
  <2>1. /\ c \in Contents /\ meta[n] \in Meta /\ new \in Meta
        /\ new.name = meta[n].name /\ new.active = v
        /\ n \in dirs /\ v \in meta[n].versions
    BY <1>9, MetaFields DEF TypeOK, Activate, Readable, Listed, MetaInv
  <2>2. /\ DeployAndRecord(n, c, meta[n], new)
        /\ dirs' = dirs /\ files' = files /\ allocated' = allocated
        /\ Readable(n)
    BY <1>9 DEF Activate
  <2>3. PICK x \in {meta[n], new, Absent} : meta' = [meta EXCEPT ![n] = x]
    BY <2>2, OneOfThree
  <2>4. WellFormed(meta[n], allocated)
    BY DEF MetaInv
  <2>5. WellFormed(x, allocated)
    BY <2>1, <2>4, WellFormedFacts
  <2>6. MetaInv'
    BY <2>1, <2>2, <2>3, <2>5, MetaWritten
  <2>7. NameInv' /\ ServedIsActive'
    BY <2>1, <2>2, DeployAndRecordKeeps
  <2> QED  BY <2>6, <2>7
<1>10. ASSUME NEW n \in Names, NEW v \in VersionIds, NEW c \in Contents,
              NEW b \in BOOLEAN, Commit(n, v, c, b)
       PROVE  Goal
  <2> DEFINE base == BaseMeta(n)
             new == WithVersion(base, v)
  <2>1. /\ base \in Meta /\ base.active = Active(n)
        /\ base.name = IF Readable(n) THEN meta[n].name ELSE n
        /\ new \in Meta /\ new.name = base.name /\ new.active = base.active
        /\ Activated(new, v) \in Meta /\ Activated(new, v).name = base.name
        /\ Activated(new, v).active = v
    BY BaseMetaFields, MetaFields
  <2>2. /\ dirs' = dirs \cup {n} /\ allocated' = allocated \cup {v}
        /\ v \notin allocated
    BY <1>10 DEF Commit
  <2>3. WellFormed(base, allocated)
    BY BaseMetaFields DEF MetaInv, WellFormed, Listed, Active, Readable
  <2>4. /\ WellFormed(Absent, allocated') /\ WellFormed(base, allocated')
        /\ WellFormed(new, allocated')
        /\ WellFormed(Activated(new, v), allocated')
    BY <2>1, <2>2, <2>3, WellFormedFacts
  <2>5. v # Active(n)
    BY <2>2, MetaPresent DEF MetaInv, WellFormed, Active, Readable
  <2>6. ASSUME NEW x, WellFormed(x, allocated'),
               meta' = [meta EXCEPT ![n] = x]
        PROVE  MetaInv'
    BY <2>2, <2>6, MetaWritten
  <2>7. CASE CommitDone(n, v, c, b)
    <3>1. /\ files' = [files EXCEPT ![n][v] = c] /\ files'[n][v] = c
          /\ \A m \in Names \ {n} : files'[m] = files[m]
          /\ Active(n) # Absent => files'[n][Active(n)] = files[n][Active(n)]
      BY <2>1, <2>5, <2>7 DEF CommitDone, TypeOK, Meta
    <3>2. CASE DeployAndRecord(n, c, base, Activated(new, v))
      <4>1. PICK x \in {base, Activated(new, v), Absent} :
              meta' = [meta EXCEPT ![n] = x]
        BY <3>2, OneOfThree
      <4>2. MetaInv'
        BY <2>4, <2>6, <4>1
      <4> QED  BY <2>1, <3>1, <3>2, <4>2, DeployAndRecordKeeps
    <3>3. CASE Record(n, base, new)
      <4>1. PICK x \in {base, new, Absent} : meta' = [meta EXCEPT ![n] = x]
        BY <3>3 DEF Record, MetaWriteFails
      <4>2. MetaInv'
        BY <2>4, <2>6, <4>1
      <4> QED  BY <2>1, <3>1, <3>3, <4>2, RecordKeeps
    <3> QED  BY <2>7, <3>2, <3>3 DEF CommitDone
  <2>8. CASE CommitCopyFails(n)
    <3>1. /\ meta' = [meta EXCEPT ![n] = base] /\ tainted' = tainted
          /\ Returned(tainted) /\ files' = files /\ served' = served
          /\ {n} \in SUBSET Names
      BY <2>8 DEF CommitCopyFails, Returned
    <3>2. MetaInv'
      BY <2>4, <2>6, <3>1
    <3>3. Active(n)' = Active(n)
      BY <2>1, <3>1, MetaPresent DEF TypeOK, Active, Readable
    <3>4. n \notin tainted' => ServedKept(n)
      BY <3>1, <3>3 DEF ServedKept
    <3>5. NameInv' /\ ServedIsActive'
      BY <3>1, <3>4, DoubtKeeps DEF TypeOK
    <3> QED  BY <3>2, <3>5
  <2>9. CASE CommitHalfway(n, v)
    <3>1. /\ meta' = [meta EXCEPT ![n] = base] \/ meta' = meta
          /\ served' = served /\ Interrupted({})
      BY <2>9 DEF CommitHalfway
    <3>2. MetaInv'
      BY <2>2, <2>4, <2>6, <3>1, MetaFrame DEF MetaKept
    <3>3. {} \in SUBSET Names /\ tainted \subseteq tainted'
      BY <3>1, EndKeeps
    <3>4. /\ \A m \in Names \ {n} : files'[m] = files[m]
          /\ Active(n) # Absent => files'[n][Active(n)] = files[n][Active(n)]
      BY <2>1, <2>5, <2>9 DEF CommitHalfway, TypeOK, Meta
    <3>5. Active(n)' = Active(n)
      BY <2>1, <3>1, MetaPresent DEF TypeOK, Active, Readable
    <3>6. n \notin tainted' => ServedKept(n)
      BY <3>1, <3>3, <3>4, <3>5 DEF ServedKept
    <3>7. /\ meta'[n] \in {meta[n], base, Absent}
          /\ \A m \in Names \ {n} :
               /\ meta'[m] = meta[m] /\ files'[m] = files[m]
               /\ served'[m] = served[m]
      BY <3>1, <3>4 DEF TypeOK
    <3>8. NameInv' /\ ServedIsActive'
      BY <3>1, <3>3, <3>6, <3>7, DoubtKeeps
    <3> QED  BY <3>2, <3>8
  <2> QED  BY <1>10, <2>7, <2>8, <2>9 DEF Commit
<1>11. ASSUME NEW n \in Names, NEW v \in VersionIds, NEW c \in Contents,
              ImportAsNewVersion(n, v, c)
       PROVE  Goal
  <2> DEFINE base == BaseMeta(n)
             new == Activated(WithVersion(base, v), v)
  <2>1. /\ base \in Meta
        /\ base.name = IF Readable(n) THEN meta[n].name ELSE n
        /\ new \in Meta /\ new.name = base.name /\ new.active = v
    BY BaseMetaFields, MetaFields
  <2>2. /\ dirs' = dirs \cup {n} /\ allocated' = allocated \cup {v}
        /\ v \notin allocated
    BY <1>11 DEF ImportAsNewVersion
  <2>3. /\ WellFormed(base, allocated) /\ WellFormed(meta[n], allocated')
    BY <2>2, BaseMetaFields
    DEF MetaInv, WellFormed, Listed, Active, Readable
  <2>4. WellFormed(Absent, allocated') /\ WellFormed(new, allocated')
    BY <2>1, <2>2, <2>3, WellFormedFacts
  <2>5. v # Active(n)
    BY <2>2, MetaPresent DEF MetaInv, WellFormed, Active, Readable
  <2>6. CASE /\ files' = [files EXCEPT ![n][v] = c]
             /\ DeployAndRecord(n, c, meta[n], new)
    <3>1. PICK x \in {meta[n], new, Absent} : meta' = [meta EXCEPT ![n] = x]
      BY <2>6, OneOfThree
    <3>2. MetaInv'
      BY <2>2, <2>3, <2>4, <3>1, MetaWritten
    <3>3. files'[n][v] = c /\ \A m \in Names \ {n} : files'[m] = files[m]
      BY <2>6 DEF TypeOK
    <3>4. meta[n] \in Meta \cup {Absent}
      BY DEF TypeOK
    <3>5. meta[n] # Absent => meta[n].name = new.name
      BY <2>1 DEF Readable
    <3>6. NameInv' /\ ServedIsActive'
      BY <2>1, <2>6, <3>3, <3>4, <3>5, DeployAndRecordKeeps
    <3> QED  BY <3>2, <3>6
  <2>7. CASE /\ Returned(tainted) \/ Interrupted({})
             /\ UNCHANGED <<meta, served>>
             /\ \/ files' = files
                \/ \E d \in Contents : files' = [files EXCEPT ![n][v] = d]
    <3>1. MetaInv'
      BY <2>2, <2>7, MetaFrame DEF MetaKept, MetaInv
    <3>2. {} \in SUBSET Names /\ tainted \subseteq tainted'
      BY <2>7, EndKeeps
    <3>3. /\ \A m \in Names \ {n} : files'[m] = files[m]
          /\ Active(n) \in VersionIds =>
               files'[n][Active(n)] = files[n][Active(n)]
      BY <2>5, <2>7 DEF TypeOK
    <3>4. Active(n) \in VersionIds \cup {Absent}
      BY DEF TypeOK, Active, Readable, Meta
    <3>5. n \notin tainted' => ServedKept(n)
      BY <2>7, <3>2, <3>3, <3>4 DEF ServedKept, Active, Readable
    <3>6. NameInv' /\ ServedIsActive'
      BY <2>7, <3>2, <3>3, <3>5, DoubtKeeps
    <3> QED  BY <3>1, <3>6
  <2> QED  BY <1>11, <2>6, <2>7 DEF ImportAsNewVersion
<1>12. ASSUME NEW p \in Clients, FileNext(p) PROVE Goal
  <2>1. ASSUME UNCHANGED <<dirs, meta, files, served, allocated, tainted>>
        PROVE  Goal
    <3>1. MetaInv'
      BY <2>1, MetaFrame DEF MetaKept
    <3>2. NameInv'
      BY <2>1 DEF NameInv, Readable
    <3>3. ServedIsActive'
      BY <2>1 DEF ServedIsActive, Consistent, Active, Readable
    <3> QED  BY <3>1, <3>2, <3>3
  <2>2. ASSUME NEW b \in BOOLEAN, NEW n \in Names, NEW v \in VersionIds,
               ResolveVersionPath(p, b, n, v)
        PROVE  Goal
    BY <2>1, <2>2 DEF ResolveVersionPath
  <2>3. ASSUME PathNotFound(p) PROVE Goal
    BY <2>1, <2>3 DEF PathNotFound, FileDone
  <2>4. CASE pend[p] # Absent /\ \E c \in Contents : ChangeVersion(p, c)
    <3>1. pend[p].name \in Names /\ pend[p].version \in VersionIds
      BY <2>4 DEF TypeOK, Pending
    <3> QED  BY <2>4, <3>1, ChangeVersionKeeps
  <2> QED
    BY <1>12, <2>2, <2>3, <2>4
    DEF FileNext, VersionFileWrite, VersionFileMkdir, VersionFileUpdate,
        VersionFileDelete
<1>13. CASE Restart
  <2>1. /\ UNCHANGED <<dirs, meta, files, served, allocated>>
        /\ tainted' = tainted
    BY <1>13 DEF Restart, Crashed, Fault, TypeOK
  <2>2. MetaInv'
    BY <2>1, MetaFrame DEF MetaKept
  <2>3. NameInv'
    BY <2>1, NameFrame DEF NameKept, Readable
  <2>4. ServedIsActive'
    BY <2>1 DEF ServedIsActive, Consistent, Active, Readable
  <2> QED  BY <2>2, <2>3, <2>4
<1>14. CASE UNCHANGED vars
  <2>1. UNCHANGED <<dirs, meta, files, served, allocated, tainted>>
    BY <1>14 DEF vars
  <2>2. MetaInv'
    BY <2>1, MetaFrame DEF MetaKept
  <2>3. NameInv'
    BY <2>1 DEF NameInv, Readable
  <2>4. ServedIsActive'
    BY <2>1 DEF ServedIsActive, Consistent, Active, Readable
  <2> QED  BY <2>2, <2>3, <2>4
<1> QED
  BY <1>1, <1>2, <1>3, <1>4, <1>5, <1>6, <1>7, <1>8, <1>9, <1>10, <1>11,
     <1>12, <1>13, <1>14
  DEF Next, SkillNext, VersionNext

(* The inductive invariant holds throughout. *)
LEMMA RegistryInvariant == Spec => []RegistryInv
<1>1. Init => RegistryInv
  <2> SUFFICES ASSUME Init PROVE RegistryInv
    OBVIOUS
  <2>1. TypeOK
    BY DEF Init, TypeOK, NoVersions, NoPending
  <2>2. \A n \in Names : meta[n] = Absent /\ served[n] = Absent
    BY DEF Init
  <2>3. MetaInv /\ NameInv
    BY <2>2 DEF MetaInv, WellFormed, NameInv, Readable
  <2>4. ServedIsActive
    BY <2>2 DEF ServedIsActive, Consistent, Active, Readable
  <2> QED  BY <2>1, <2>3, <2>4 DEF RegistryInv
<1> QED  BY <1>1, RegistryStep, PTL DEF Spec

-----------------------------------------------------------------------------
(* The properties. *)

(* Whatever clients do and however their operations interleave, every name *)
(* that is not tainted by a failed step is served exactly the content of   *)
(* its active version, or nothing if it has none.                          *)
THEOREM ServedIsActiveAlways == Spec => []ServedIsActive
<1>1. RegistryInv => ServedIsActive
  BY DEF RegistryInv
<1> QED  BY <1>1, RegistryInvariant, PTL

(* The active version is listed, after any failures and kills. *)
THEOREM ActiveIsListedAlways == Spec => []ActiveIsListed
<1>1. RegistryInv => ActiveIsListed
  BY DEF RegistryInv, MetaInv, WellFormed, ActiveIsListed, Active, Listed,
         Readable
<1> QED  BY <1>1, RegistryInvariant, PTL

(* Metadata names its own directory, or the skill is in doubt: nothing     *)
(* that is done to it hides that a rename or a copy stopped half-way.      *)
THEOREM NamesAgreeAlways == Spec => []NamesAgree
<1>1. RegistryInv => NamesAgree
  BY DEF RegistryInv, MetaInv, NameInv, NamesAgree, Readable
<1> QED  BY <1>1, RegistryInvariant, PTL

-----------------------------------------------------------------------------
(* The action property. *)

ActiveKept(n) == Active(n) # Absent /\ Readable(n)' => Active(n) \in Listed(n)'

LEMMA WrittenKept ==
  ASSUME TypeOK, ActiveIsListed, NEW n \in Names, NEW x,
         meta' = [meta EXCEPT ![n] = x],
         \/ x = Absent
         \/ x = meta[n]
         \/ Active(n) = Absent
         \/ Active(n) \in x.versions
  PROVE  \A m \in Names : ActiveKept(m)
BY DEF TypeOK, ActiveIsListed, ActiveKept, Active, Listed, Readable

LEMMA ActiveVersionStep ==
  RegistryInv /\ [Next]_vars => [\A n \in Names : ActiveKept(n)]_vars
<1> SUFFICES ASSUME RegistryInv, Next PROVE \A q \in Names : ActiveKept(q)
  OBVIOUS
<1> DEFINE Kept == \A q \in Names : ActiveKept(q)
<1>0. TypeOK /\ ActiveIsListed
  BY DEF RegistryInv, MetaInv, WellFormed, ActiveIsListed, Active, Listed,
         Readable
<1>1. ASSUME meta' = meta PROVE Kept
  BY <1>0, <1>1 DEF ActiveIsListed, ActiveKept, Active, Listed, Readable
<1>2. ASSUME NEW n \in Names, Create(n) PROVE Kept
  <2>1. Active(n) = Absent
    BY <1>2 DEF Create, RegistryInv, MetaInv, Active, Readable
  <2> QED  BY <1>0, <1>1, <1>2, <2>1, WrittenKept DEF Create
<1>3. ASSUME NEW n \in Names, Update(n) PROVE Kept
  BY <1>0, <1>3, WrittenKept DEF Update, Record, MetaWriteFails
<1>4. ASSUME NEW n \in Names, Delete(n) PROVE Kept
  BY <1>0, <1>4, WrittenKept DEF Delete, DeleteDone, DeletePartial,
                                 MetaWriteFails
<1>5. ASSUME NEW n \in Names, NEW m \in Names, Rename(n, m) PROVE Kept
  <2>1. CASE RenameRolledBack(n)
    BY <1>0, <2>1, WrittenKept DEF RenameRolledBack
  <2>2. CASE RenameDone(n, m) \/ RenameHalfway(n, m)
    <3>1. /\ meta'[n] = Absent
          /\ \A q \in Names \ {n, m} : meta'[q] = meta[q]
      BY <1>0, <2>2 DEF RenameDone, RenameHalfway, TypeOK
    <3>2. Active(m) = Absent
      BY <1>5 DEF Rename, RegistryInv, MetaInv, Active, Readable
    <3> QED
      BY <1>0, <3>1, <3>2
      DEF ActiveIsListed, ActiveKept, Active, Listed, Readable
  <2> QED  BY <1>5, <2>1, <2>2 DEF Rename
<1>6. ASSUME NEW n \in Names, NEW m \in Names, Copy(n, m) PROVE Kept
  <2>1. Active(m) = Absent
    BY <1>6 DEF Copy, RegistryInv, MetaInv, Active, Readable
  <2>2. \E x : meta' = [meta EXCEPT ![m] = x]
    BY <1>6 DEF Copy, CopyDone, CopyHalfway
  <2> QED  BY <1>0, <2>1, <2>2, WrittenKept
<1>7. ASSUME NEW n \in Names, NEW v \in VersionIds, Readable(n),
             \/ \E c : AddVersion(n, v, c)
             \/ AddVersionFails(n, v)
      PROVE  Kept
  <2>1. PICK x \in {meta[n], WithVersion(meta[n], v), Absent} :
          meta' = [meta EXCEPT ![n] = x]
    BY <1>0, <1>7 DEF AddVersion, AddVersionFails, TypeOK
  <2>2. WithVersion(meta[n], v).versions = Listed(n) \cup {v}
    BY <1>0, <1>7, MetaFields DEF TypeOK, Readable, Listed
  <2> QED  BY <1>0, <2>1, <2>2, WrittenKept DEF ActiveIsListed
<1>8. ASSUME NEW n \in Names, NEW v \in VersionIds, VersionDelete(n, v)
      PROVE  Kept
  <2>1. \E x \in {meta[n], WithoutVersion(meta[n], v), Absent} :
          meta' = [meta EXCEPT ![n] = x]
    BY <1>0, <1>8 DEF VersionDelete, Record, MetaWriteFails, TypeOK
  <2>2. WithoutVersion(meta[n], v).versions = Listed(n) \ {v}
    BY <1>0, <1>8, MetaFields DEF TypeOK, VersionDelete, Readable, Listed
  <2>3. v # Active(n)
    BY <1>8 DEF VersionDelete, Deletable
  <2> QED  BY <1>0, <2>1, <2>2, <2>3, WrittenKept DEF ActiveIsListed
<1>9. ASSUME NEW n \in Names, NEW v \in VersionIds, Activate(n, v) PROVE Kept
  <2>1. \E x \in {meta[n], Activated(meta[n], v), Absent} :
          meta' = [meta EXCEPT ![n] = x]
    BY <1>0, <1>9, OneOfThree DEF Activate
  <2>2. Activated(meta[n], v).versions = Listed(n)
    BY <1>0, <1>9, MetaFields DEF TypeOK, Activate, Readable, Listed
  <2> QED  BY <1>0, <2>1, <2>2, WrittenKept DEF ActiveIsListed
<1>10. ASSUME NEW n \in Names, NEW v \in VersionIds, NEW c \in Contents,
              NEW b \in BOOLEAN,
              Commit(n, v, c, b) \/ ImportAsNewVersion(n, v, c)
       PROVE  Kept
  <2> DEFINE base == BaseMeta(n)
             new == WithVersion(base, v)
  <2>1. /\ base.versions = Listed(n) /\ new.versions = Listed(n) \cup {v}
        /\ Activated(new, v).versions = Listed(n) \cup {v}
    BY <1>0, BaseMetaFields, MetaFields
  <2>2. \E x \in {meta[n], base, new, Activated(new, v), Absent} :
          meta' = [meta EXCEPT ![n] = x]
    <3>1. CASE Commit(n, v, c, b)
      <4>1. CASE CommitDone(n, v, c, b)
        BY <1>0, <4>1, OneOfThree DEF CommitDone, Record, MetaWriteFails
      <4>2. CASE CommitCopyFails(n)
        BY <4>2 DEF CommitCopyFails
      <4>3. CASE CommitHalfway(n, v)
        BY <1>0, <4>3 DEF CommitHalfway, TypeOK
      <4> QED  BY <3>1, <4>1, <4>2, <4>3 DEF Commit
    <3>2. CASE ImportAsNewVersion(n, v, c)
      BY <1>0, <3>2, OneOfThree DEF ImportAsNewVersion, TypeOK
    <3> QED  BY <1>10, <3>1, <3>2
  <2> QED  BY <1>0, <2>1, <2>2, WrittenKept DEF ActiveIsListed
<1>11. ASSUME NEW p \in Clients, FileNext(p) PROVE Kept
  BY <1>1, <1>11
  DEF FileNext, ResolveVersionPath, VersionFileWrite, VersionFileMkdir,
      VersionFileUpdate, VersionFileDelete, ChangeVersion, PathNotFound
<1>12. ASSUME Restart PROVE Kept
  BY <1>1, <1>12 DEF Restart
<1> QED
  <2>1. ASSUME NEW n \in Names, SkillNext(n) PROVE Kept
    BY <2>1, <1>2, <1>3, <1>4, <1>5, <1>6 DEF SkillNext
  <2>2. ASSUME NEW n \in Names, NEW v \in VersionIds, VersionNext(n, v)
        PROVE  Kept
    BY <2>2, <1>7, <1>8, <1>9, <1>10
    DEF VersionNext, VersionCreate, VersionClone
  <2> QED  BY <2>1, <2>2, <1>11, <1>12 DEF Next

(* No step drops the active version of a skill from its list: neither a    *)
(* client that deletes versions nor one that commits or imports, nor any   *)
(* failure or kill that leaves the metadata readable.                      *)
THEOREM ActiveVersionAlwaysKept == Spec => ActiveVersionKept
<1>1. RegistryInv /\ [Next]_vars =>
        [\A n \in Names :
           Active(n) # Absent /\ Readable(n)' => Active(n) \in Listed(n)']_vars
  BY ActiveVersionStep DEF ActiveKept
<1> QED
  BY <1>1, RegistryInvariant, PTL DEF Spec, ActiveVersionKept
-----------------------------------------------------------------------------
(* The store that clients and agents see.                                  *)

Shown == [Store!Next]_(Store!vars)

(* What agents are served is what the store offers, before and after.      *)
LEMMA ServedIsOffered ==
  ASSUME RegistryInv, NEW n \in Intact
  PROVE  served[n] = Store!Offered(n, Versions(n), Active(n))
<1>1. Consistent(n) /\ (Active(n) # Absent => Active(n) \in Listed(n))
  BY DEF RegistryInv, ServedIsActive, Intact, MetaInv, WellFormed, Active,
     Listed, Readable
<1>2. Active(n) \in VersionIds \cup {Absent}
  BY DEF RegistryInv, TypeOK, Intact, Active, Readable, Meta
<1> QED
  BY <1>1, <1>2 DEF Consistent, Published, Store!Offered, Versions

LEMMA ServedIsOfferedNext ==
  ASSUME RegistryInv', NEW n \in Intact'
  PROVE  served'[n] = Store!Offered(n, Versions(n)', Active(n)')
<1>1. Consistent(n)' /\ (Active(n)' # Absent => Active(n)' \in Listed(n)')
  BY DEF RegistryInv, ServedIsActive, Intact, MetaInv, WellFormed, Active,
     Listed, Readable
<1>2. Active(n)' \in VersionIds \cup {Absent}
  BY DEF RegistryInv, TypeOK, Intact, Active, Readable, Meta
<1> QED
  BY <1>1, <1>2 DEF Consistent, Published, Store!Offered, Versions

(* A skill is what its metadata and its files say.                         *)
Same(n) == Versions(n)' = Versions(n) /\ Active(n)' = Active(n)

LEMMA SameSkill ==
  ASSUME NEW n, meta'[n] = meta[n],
         \A v \in Listed(n) : files'[n][v] = files[n][v]
  PROVE  Same(n)
BY DEF Same, Versions, Active, Listed, Readable

LEMMA SkillType ==
  ASSUME RegistryInv', NEW n \in Names
  PROVE  Versions(n)' \in Store!Versions
BY DEF RegistryInv, TypeOK, Versions, Listed, Readable, Store!Versions

(* A name without metadata has nothing.                                    *)
LEMMA NoSkill ==
  ASSUME NEW n
  PROVE  /\ meta[n] = Absent =>
              Versions(n) = Store!None /\ Active(n) = Absent
         /\ meta'[n] = Absent =>
              Versions(n)' = Store!None /\ Active(n)' = Absent
BY DEF Versions, Active, Listed, Readable, Store!None

LEMMA PutSkill ==
  ASSUME TypeOK, NEW n \in Names, NEW v \in VersionIds, NEW c,
         files'[n] = [files[n] EXCEPT ![v] = c],
         \A u \in VersionIds : u \in Listed(n)' <=> u \in Listed(n) \/ u = v
  PROVE  Versions(n)' = [Versions(n) EXCEPT ![v] = c]
BY DEF TypeOK, Versions

(* A step that leaves names in doubt, and nothing else, or does not show.  *)
LEMMA DoubtShows ==
  ASSUME RegistryInv, RegistryInv', tainted \subseteq tainted',
         \A n \in Names \ tainted' : Same(n)
  PROVE  Shown
<1>1. tainted' \in SUBSET Names
  BY DEF RegistryInv, TypeOK
<1>2. Intact' = Intact \ tainted' /\ Intact' = Names \ tainted'
  BY DEF Intact
<1>3. Skills' = Store!Without(Skills, tainted')
  BY <1>2 DEF Skills, Skill, Same, Store!Without
<1>4. \A n \in Intact' : served'[n] = served[n]
  BY <1>2, ServedIsOffered, ServedIsOfferedNext DEF Same
<1>5. Agents' = Store!Without(Agents, tainted')
  BY <1>2, <1>4 DEF Agents, Store!Without
<1> QED
  BY <1>1, <1>3, <1>5 DEF Shown, Store!Next, Store!Damage

(* Skill n is now what its metadata and files say, and no other changed.   *)
Becoming(n) ==
  /\ Skills' = Store!With(Skills, n,
                 [versions |-> Versions(n)', active |-> Active(n)'])
  /\ Agents' = Store!With(Agents, n,
                 Store!Offered(n, Versions(n)', Active(n)'))

(* One skill changes, or is repaired.                                      *)
LEMMA OneBecomes ==
  ASSUME RegistryInv, RegistryInv', NEW n \in Names,
         tainted' = tainted \ {n},
         \A m \in Names \ {n} : m \notin tainted => Same(m)
  PROVE  Becoming(n)
<1>1. /\ Intact' = Intact \cup {n}
      /\ \A m \in Intact' : m # n => m \in Intact /\ Same(m)
  <2>1. Intact' = Intact \cup {n}
    BY DEF Intact
  <2>2. \A m \in Intact' : m # n => m \in Names \ {n} /\ m \notin tainted
    BY DEF Intact
  <2> QED
    BY <2>1, <2>2
<1>2. Skills' = Store!With(Skills, n,
                  [versions |-> Versions(n)', active |-> Active(n)'])
  <2>1. \A m \in Intact' : m # n => m \in Intact /\ Skill(m)' = Skill(m)
    BY <1>1 DEF Skill, Same
  <2> QED
    BY <1>1, <2>1 DEF Skills, Skill, Store!With
<1>3. \A m \in Intact' : m # n => served'[m] = served[m]
  BY <1>1, ServedIsOffered, ServedIsOfferedNext DEF Same
<1>4. served'[n] = Store!Offered(n, Versions(n)', Active(n)')
  BY <1>1, ServedIsOfferedNext
<1>5. Agents' = Store!With(Agents, n,
                  Store!Offered(n, Versions(n)', Active(n)'))
  BY <1>1, <1>3, <1>4 DEF Agents, Store!With
<1> QED
  BY <1>2, <1>5 DEF Becoming

LEMMA RepairShows ==
  ASSUME RegistryInv, RegistryInv', NEW n \in Names, n \in tainted,
         Active(n)' # Absent, n \notin tainted',
         Becoming(n)
  PROVE  Shown
<1>1. n \notin Store!Known
  BY DEF Store!Known, Skills, Intact
<1>2. /\ Consistent(n)' /\ Active(n)' \in Listed(n)'
      /\ Active(n)' \in VersionIds
  BY DEF RegistryInv, ServedIsActive, MetaInv, WellFormed, Active, Listed,
         Readable, TypeOK, Meta
<1>3. Versions(n)'[Active(n)'] # Absent
  BY <1>2 DEF Consistent, Versions
<1>4. Versions(n)' \in Store!Versions
  BY SkillType
<1>5. Store!Repair(n, Active(n)')
  BY <1>1, <1>3, <1>4
  DEF Becoming, Store!Becomes, Store!Repair
<1> QED
  BY <1>2, <1>5 DEF Shown, Store!Next

(* A change of a skill that is known, or a step on one in doubt.           *)
LEMMA KnownIs ==
  ASSUME NEW n \in Names, n \notin tainted
  PROVE  /\ n \in Store!Known
         /\ Skills[n].versions = Versions(n)
         /\ Skills[n].active = Active(n)
         /\ Versions(n) = Store!None /\ Active(n) = Absent =>
              Skills[n] = Store!Nothing
BY DEF Store!Known, Skills, Intact, Skill, Store!Nothing

LEMMA PutShows ==
  ASSUME RegistryInv, RegistryInv', NEW n \in Names, NEW v \in VersionIds,
         NEW c \in Contents, tainted' = tainted,
         files'[n] = [files[n] EXCEPT ![v] = c],
         \A u \in VersionIds : u \in Listed(n)' <=> u \in Listed(n) \/ u = v,
         Active(n)' = Active(n),
         \A m \in Names \ {n} : meta'[m] = meta[m] /\ files'[m] = files[m]
  PROVE  Shown
<1>1. \A m \in Names \ {n} : Same(m)
  BY SameSkill
<1>2. CASE n \in tainted
  BY <1>1, <1>2, DoubtShows
<1>3. CASE n \notin tainted
  <2>1. Becoming(n)
    BY <1>1, <1>3, OneBecomes
  <2>2. Versions(n)' = [Versions(n) EXCEPT ![v] = c]
    BY PutSkill DEF RegistryInv
  <2>3. Store!Put(n, v, c)
    BY <1>3, <2>1, <2>2, KnownIs
    DEF Becoming, Store!Becomes, Store!Put
  <2> QED
    BY <2>3 DEF Shown, Store!Next
<1> QED
  BY <1>2, <1>3

(* An activation that is not shown as damage has deployed and recorded.    *)
LEMMA DeployShows ==
  ASSUME RegistryInv, RegistryInv', NEW n \in Names, NEW c,
         NEW old, NEW new \in Meta,
         new.name = IF Readable(n) THEN meta[n].name ELSE n,
         DeployAndRecord(n, c, old, new),
         \A m \in Names \ {n} : files'[m] = files[m]
  PROVE  \/ Shown
         \/ /\ tainted' = tainted \ {n} /\ meta' = [meta EXCEPT ![n] = new]
            /\ \A m \in Names \ {n} : Same(m)
<1> DEFINE k == new.name
<1>0. TypeOK /\ NameInv
  BY DEF RegistryInv
<1>1. k \in Names /\ (k # n => n \in tainted)
  BY <1>0 DEF Meta, NameInv
<1>2. \A m \in Names \ {n} : meta'[m] = meta[m]
  BY <1>0, OneOfThree DEF TypeOK
<1>3. \A m \in Names \ {n} : Same(m)
  BY <1>2, SameSkill
<1>4. CASE /\ meta' = [meta EXCEPT ![n] = new]
           /\ Returned(TaintAfterDeploy(n, k))
  <2>1. CASE k = n
    BY <1>3, <1>4, <2>1 DEF Returned, TaintAfterDeploy
  <2>2. CASE k # n
    <3>1. tainted' = tainted \cup {k} /\ n \in tainted
      BY <1>1, <1>4, <2>2 DEF Returned, TaintAfterDeploy
    <3> QED
      BY <1>3, <3>1, DoubtShows
  <2> QED
    BY <2>1, <2>2
<1>5. CASE Interrupted({n, k})
  <2>1. tainted' = tainted \cup {n, k}
    BY <1>5 DEF Interrupted, Failed, Crashed, Fault
  <2> QED
    BY <1>3, <2>1, DoubtShows
<1> QED
  BY <1>4, <1>5 DEF DeployAndRecord

(* A new active version v of content c is shown at once.                   *)
LEMMA PublishShows ==
  ASSUME RegistryInv, RegistryInv', NEW n \in Names, NEW v \in VersionIds,
         NEW c \in Contents, NEW old,
         files' = [files EXCEPT ![n][v] = c],
         DeployAndRecord(n, c, old,
                         Activated(WithVersion(BaseMeta(n), v), v))
  PROVE  Shown
<1> DEFINE new == Activated(WithVersion(BaseMeta(n), v), v)
<1>0. TypeOK
  BY DEF RegistryInv
<1>1. /\ new \in Meta /\ new.active = v /\ new.versions = Listed(n) \cup {v}
      /\ new.name = IF Readable(n) THEN meta[n].name ELSE n
  BY <1>0, BaseMetaFields, MetaFields
<1>2. /\ files'[n] = [files[n] EXCEPT ![v] = c]
      /\ \A m \in Names \ {n} : files'[m] = files[m]
  BY <1>0 DEF TypeOK
<1>3. CASE /\ tainted' = tainted \ {n} /\ meta' = [meta EXCEPT ![n] = new]
           /\ \A m \in Names \ {n} : Same(m)
  <2>1. Active(n)' = v /\ Listed(n)' = Listed(n) \cup {v} /\ v # Absent
    BY <1>0, <1>1, <1>3, MetaPresent DEF TypeOK, Active, Listed, Readable
  <2>2. Becoming(n)
    BY <1>3, OneBecomes
  <2>3. CASE n \in tainted
    BY <1>3, <2>1, <2>2, <2>3, RepairShows
  <2>4. CASE n \notin tainted
    <3>1. Versions(n)' = [Versions(n) EXCEPT ![v] = c]
      BY <1>0, <1>2, <2>1, PutSkill
    <3>2. Store!Publish(n, v, c)
      BY <2>1, <2>2, <2>4, <3>1, KnownIs
      DEF Becoming, Store!Becomes, Store!Publish
    <3> QED
      BY <3>2 DEF Shown, Store!Next
  <2> QED
    BY <2>3, <2>4
<1> HIDE DEF new
<1> QED
  BY <1>1, <1>2, <1>3, DeployShows DEF new
(* A step that marks everything it writes as in doubt.                     *)
LEMMA FailureShows ==
  ASSUME RegistryInv, RegistryInv', NEW ns \in SUBSET Names,
         tainted' = tainted \cup ns,
         \A m \in Names \ ns : meta'[m] = meta[m] /\ files'[m] = files[m]
  PROVE  Shown
BY SameSkill, DoubtShows

LEMMA EndTaints ==
  ASSUME NEW ns
  PROVE  /\ Failed(ns) \/ Crashed(ns) \/ Interrupted(ns) =>
              tainted' = tainted \cup ns
         /\ Returned(ns) => tainted' = ns
BY DEF Failed, Crashed, Fault, Interrupted, Returned

LEMMA WriteKeepsOthers ==
  ASSUME TypeOK, NEW n \in Names, NEW old, MetaWriteFails(n, old)
  PROVE  \A m \in Names \ {n} : meta'[m] = meta[m]
BY DEF TypeOK, MetaWriteFails

(* Skills that come, go and move.                                          *)
LEMMA CreateShows ==
  ASSUME RegistryInv, RegistryInv', NEW n \in Names, Create(n)
  PROVE  Shown
<1>0. TypeOK
  BY DEF RegistryInv
<1>1. CASE meta' = [meta EXCEPT ![n] = FreshMeta(n)] /\ Returned(tainted)
  <2>1. meta[n] = Absent
    BY DEF Create, RegistryInv, MetaInv, Readable
  <2>2. /\ Listed(n)' = {} /\ Active(n)' = Absent
        /\ Listed(n) = {} /\ Active(n) = Absent
    BY <1>0, <1>1, <2>1, FreshMetaFields, MetaPresent
    DEF TypeOK, Listed, Active, Readable
  <2>3. Same(n)
    BY <2>2 DEF Same, Versions
  <2>4. \A m \in Names \ {n} : Same(m)
    BY <1>0, <1>1, SameSkill DEF Create, TypeOK
  <2> QED
    BY <1>1, <2>3, <2>4, EndTaints, DoubtShows
<1>2. CASE UNCHANGED meta /\ Interrupted({n})
  BY <1>2, EndTaints, FailureShows DEF Create
<1> QED
  BY <1>1, <1>2 DEF Create

LEMMA DeleteShows ==
  ASSUME RegistryInv, RegistryInv', NEW n \in Names, Delete(n)
  PROVE  Shown
<1>0. TypeOK
  BY DEF RegistryInv
<1>1. CASE DeleteDone(n)
  <2>1. /\ meta'[n] = Absent
        /\ \A m \in Names \ {n} : meta'[m] = meta[m] /\ files'[m] = files[m]
    BY <1>0, <1>1 DEF DeleteDone, TypeOK
  <2>2. CASE Returned(tainted \ {n})
    <3>1. Becoming(n)
      BY <2>1, <2>2, EndTaints, SameSkill, OneBecomes
    <3>2. Store!Withdraw(n)
      BY <2>1, <3>1, NoSkill
      DEF Becoming, Store!Becomes, Store!Withdraw
    <3> QED
      BY <3>2 DEF Shown, Store!Next
  <2>3. CASE Interrupted({n})
    BY <2>1, <2>3, EndTaints, FailureShows
  <2> QED
    BY <1>1, <2>2, <2>3 DEF DeleteDone
<1>2. CASE DeletePartial(n)
  <2>1. \A m \in Names \ {n} : meta'[m] = meta[m] /\ files'[m] = files[m]
    BY <1>0, <1>2, WriteKeepsOthers DEF DeletePartial, TypeOK
  <2> QED
    BY <1>2, <2>1, EndTaints, FailureShows DEF DeletePartial
<1> QED
  BY <1>1, <1>2 DEF Delete

LEMMA CopyShows ==
  ASSUME RegistryInv, RegistryInv', NEW n \in Names, NEW m \in Names,
         Copy(n, m)
  PROVE  Shown
<1>0. TypeOK
  BY DEF RegistryInv
<1>1. CASE CopyDone(n, m)
  <2> DEFINE x == [FreshMeta(m) EXCEPT !.versions = Listed(n)]
  <2>1. /\ n # m /\ meta[m] = Absent
        /\ Versions(m) = Store!None /\ Active(m) = Absent
    BY NoSkill DEF Copy, RegistryInv, MetaInv, Readable
  <2>2. x \in Meta /\ x.active = Absent /\ x.versions = Listed(n)
    BY <1>0, CopiedMetaFields
  <2>3. meta'[m] = x /\ files'[m] = files[n]
    BY <1>0, <1>1 DEF CopyDone, TypeOK
  <2> HIDE DEF x
  <2>4. Listed(m)' = Listed(n) /\ Active(m)' = Absent
    BY <2>2, <2>3, MetaPresent DEF Listed, Active, Readable
  <2>5. Versions(m)' = Versions(n)
    BY <2>3, <2>4 DEF Versions
  <2>6. \A q \in Names \ {m} : meta'[q] = meta[q] /\ files'[q] = files[q]
    BY <1>0, <1>1 DEF CopyDone, TypeOK
  <2>7. tainted' = tainted
    BY <1>1, EndTaints DEF CopyDone
  <2>8. \A q \in Names \ {m} : Same(q)
    BY <2>6, SameSkill
  <2>9. CASE m \in tainted
    BY <2>7, <2>8, <2>9, DoubtShows
  <2>10. CASE m \notin tainted
    <3>1. Becoming(m)
      BY <2>7, <2>8, <2>10, OneBecomes
    <3>2. Versions(m)' \in Store!Versions
      BY SkillType
    <3>3. n \in Store!Known => Versions(m)' = Skills[n].versions
      BY <2>5 DEF Store!Known, Skills, Skill
    <3>4. Store!Copy(n, m)
      BY <2>1, <2>4, <2>10, <3>1, <3>2, <3>3, KnownIs
      DEF Becoming, Store!Becomes, Store!Copy
    <3> QED
      BY <3>4 DEF Shown, Store!Next
  <2> QED
    BY <2>9, <2>10
<1>2. CASE CopyHalfway(n, m)
  <2>1. \A q \in Names \ {m} : meta'[q] = meta[q] /\ files'[q] = files[q]
    BY <1>0, <1>2 DEF CopyHalfway, TypeOK
  <2> QED
    BY <1>2, <2>1, EndTaints, FailureShows DEF CopyHalfway
<1> QED
  BY <1>1, <1>2 DEF Copy

(* A skill and its damage move together, or both names are in doubt.      *)
LEMMA MoveShows ==
  ASSUME RegistryInv, RegistryInv', NEW n \in Names, NEW m \in Names, n # m,
         Versions(m) = Store!None, Active(m) = Absent,
         Versions(m)' = Versions(n), Active(m)' = Active(n),
         Versions(n)' = Store!None, Active(n)' = Absent,
         \A q \in Names \ {n, m} : Same(q),
         tainted' = MovedTaint(n, m)
  PROVE  Shown
<1> SUFFICES Store!Move(n, m)
  BY DEF Shown, Store!Next
<1>1. tainted \subseteq Names
  BY DEF RegistryInv, TypeOK
<1>2. m \in Store!Known => Skills[m] = Store!Nothing
  BY KnownIs DEF Store!Known, Skills, Intact
<1>3. \A q \in Intact' : q \notin {n, m} => q \in Intact /\ Same(q)
  BY DEF Intact, MovedTaint
<1>4. \A q \in Intact' : q \notin {n, m} => served'[q] = served[q]
  BY <1>3, ServedIsOffered, ServedIsOfferedNext DEF Same
<1>5. n \in Intact' => /\ [versions |-> Versions(n)', active |-> Active(n)']
                            = Store!Nothing
                       /\ served'[n] = Absent
  BY ServedIsOfferedNext DEF Store!Nothing, Store!Offered
<1>6. CASE n \in Intact /\ m \in Intact
  <2>1. Intact' = (Intact \cup {m}) \cup {n} /\ n \in Intact'
    BY <1>6 DEF Intact, MovedTaint
  <2>2. /\ {n, m} \subseteq Store!Known
        /\ Skills[n] = [versions |-> Versions(n), active |-> Active(n)]
    BY <1>6 DEF Store!Known, Skills, Skill
  <2>3. Skills' = Store!With(Store!With(Skills, m, Skills[n]), n,
                             Store!Nothing)
    BY <1>3, <1>5, <1>6, <2>1, <2>2 DEF Skills, Skill, Same, Store!With
  <2>4. served'[m] = Store!Offered(m, Skills[n].versions, Skills[n].active)
    BY <1>6, <2>1, <2>2, ServedIsOfferedNext
  <2>5. Agents' =
          Store!With(Store!With(Agents, m,
            Store!Offered(m, Skills[n].versions, Skills[n].active)), n, Absent)
    BY <1>4, <1>5, <1>6, <2>1, <2>4 DEF Agents, Store!With
  <2> QED
    BY <1>2, <2>2, <2>3, <2>5 DEF Store!Move
<1>7. CASE ~(n \in Intact /\ m \in Intact)
  <2>1. Intact' = (Intact \ {m}) \cup {n} /\ n \in Intact'
    BY <1>1, <1>7 DEF Intact, MovedTaint
  <2>2. ~({n, m} \subseteq Store!Known)
    BY <1>7 DEF Store!Known, Skills
  <2>3. Skills' = Store!With(Store!Without(Skills, {m}), n, Store!Nothing)
    BY <1>3, <1>5, <2>1 DEF Skills, Skill, Same, Store!With, Store!Without
  <2>4. Agents' = Store!With(Store!Without(Agents, {m}), n, Absent)
    BY <1>4, <1>5, <2>1 DEF Agents, Store!With, Store!Without
  <2> QED
    BY <1>2, <2>2, <2>3, <2>4 DEF Store!Move
<1> QED
  BY <1>6, <1>7

LEMMA RenameShows ==
  ASSUME RegistryInv, RegistryInv', NEW n \in Names, NEW m \in Names,
         Rename(n, m)
  PROVE  Shown
<1>0. TypeOK
  BY DEF RegistryInv
<1>1. CASE RenameDone(n, m)
  <2> DEFINE x == WithName(meta[n], m)
  <2>1. /\ n # m /\ meta[m] = Absent
        /\ Versions(m) = Store!None /\ Active(m) = Absent
    BY NoSkill DEF Rename, RegistryInv, MetaInv, Readable
  <2>2. meta[n] \in Meta /\ meta[n] # Absent /\ x \in Meta
    BY <1>0, <1>1, WithNameFields DEF RenameDone, Readable, TypeOK
  <2>3. x.active = meta[n].active /\ x.versions = meta[n].versions
    BY <2>2, WithNameFields
  <2>4. /\ meta'[m] = x /\ meta'[n] = Absent /\ files'[m] = files[n]
        /\ \A q \in Names \ {n, m} : meta'[q] = meta[q] /\ files'[q] = files[q]
    BY <1>0, <1>1, <2>1 DEF RenameDone, Moved, TypeOK
  <2> HIDE DEF x
  <2>5. Listed(m)' = Listed(n) /\ Active(m)' = Active(n)
    BY <2>2, <2>3, <2>4, MetaPresent DEF Listed, Active, Readable
  <2>6. Versions(m)' = Versions(n)
    BY <2>4, <2>5 DEF Versions
  <2>7. Versions(n)' = Store!None /\ Active(n)' = Absent
    BY <2>4, NoSkill
  <2>8. \A q \in Names \ {n, m} : Same(q)
    BY <2>4, SameSkill
  <2>9. CASE tainted' = MovedTaint(n, m)
    BY <2>1, <2>5, <2>6, <2>7, <2>8, <2>9, MoveShows
  <2>10. CASE tainted' = tainted \cup {n, m}
    BY <2>8, <2>10, DoubtShows
  <2>11. \/ Returned(MovedTaint(n, m)) \/ Returned(tainted \cup {n, m})
         \/ Interrupted({n, m})
    BY <1>1 DEF RenameDone, RenameDeployed
  <2> QED
    BY <2>9, <2>10, <2>11, EndTaints
<1>2. CASE RenameRolledBack(n)
  <2>1. \A q \in Names \ {n} : meta'[q] = meta[q] /\ files'[q] = files[q]
    BY <1>0, <1>2 DEF RenameRolledBack, TypeOK
  <2> QED
    BY <1>2, <2>1, EndTaints, FailureShows DEF RenameRolledBack
<1>3. CASE RenameHalfway(n, m)
  <2>1. \A q \in Names \ {n, m} : meta'[q] = meta[q] /\ files'[q] = files[q]
    BY <1>0, <1>3 DEF RenameHalfway, Moved, TypeOK
  <2>2. tainted' = tainted \cup {n, m} /\ {n, m} \in SUBSET Names
    BY <1>3, EndTaints DEF RenameHalfway
  <2> QED
    BY <2>1, <2>2, FailureShows
<1> QED
  BY <1>1, <1>2, <1>3 DEF Rename

(* Versions that are added, listed or deleted.                             *)
LEMMA ListsOneMore ==
  ASSUME TypeOK, NEW n \in Names, NEW v \in VersionIds,
         meta' = [meta EXCEPT ![n] = WithVersion(BaseMeta(n), v)]
  PROVE  Active(n)' = Active(n) /\ Listed(n)' = Listed(n) \cup {v}
<1> DEFINE x == WithVersion(BaseMeta(n), v)
<1>1. /\ x \in Meta /\ x.active = Active(n)
      /\ x.versions = Listed(n) \cup {v}
  BY BaseMetaFields, MetaFields
<1>2. meta'[n] = x
  BY DEF TypeOK
<1> HIDE DEF x
<1> QED
  BY <1>1, <1>2, MetaPresent DEF Active, Listed, Readable

(* A skill is the same when its metadata is written anew.                  *)
LEMMA BaseIsSame ==
  ASSUME TypeOK, NEW n \in Names, meta' = [meta EXCEPT ![n] = BaseMeta(n)],
         \A v \in Listed(n) : files'[n][v] = files[n][v]
  PROVE  Same(n)
<1>1. BaseMeta(n) \in Meta /\ meta'[n] = BaseMeta(n)
  BY BaseMetaFields DEF TypeOK
<1>2. Active(n)' = Active(n) /\ Listed(n)' = Listed(n)
  BY <1>1, BaseMetaFields, MetaPresent DEF Active, Listed, Readable
<1> QED
  BY <1>2 DEF Same, Versions

(* A version that is in no list does not show.                             *)
LEMMA UnlistedShows ==
  ASSUME RegistryInv, RegistryInv', NEW n \in Names, NEW v \in VersionIds,
         v \notin Listed(n), NEW d, files' = [files EXCEPT ![n][v] = d],
         \/ UNCHANGED meta
         \/ meta' = [meta EXCEPT ![n] = BaseMeta(n)],
         Interrupted({})
  PROVE  Shown
<1>0. TypeOK
  BY DEF RegistryInv
<1>1. /\ \A u \in Listed(n) : files'[n][u] = files[n][u]
      /\ \A m \in Names \ {n} : meta'[m] = meta[m] /\ files'[m] = files[m]
  BY <1>0 DEF TypeOK, Listed, Readable, Meta
<1>2. Same(n)
  BY <1>0, <1>1, SameSkill, BaseIsSame
<1>3. \A m \in Names \ {n} : Same(m)
  BY <1>1, SameSkill
<1>4. tainted' = tainted
  BY DEF Interrupted, Failed, Crashed, Fault
<1> QED
  BY <1>2, <1>3, <1>4, DoubtShows

LEMMA AddVersionShows ==
  ASSUME RegistryInv, RegistryInv', NEW n \in Names, NEW v \in VersionIds,
         Readable(n), v \notin Listed(n),
         \/ \E c \in Contents : AddVersion(n, v, c)
         \/ AddVersionFails(n, v)
  PROVE  Shown
<1>0. TypeOK /\ BaseMeta(n) = meta[n]
  BY BaseMetaFields DEF RegistryInv
<1>1. \A m \in Names \ {n} : meta'[m] = meta[m] /\ files'[m] = files[m]
  BY <1>0 DEF AddVersion, AddVersionFails, TypeOK
<1>2. ASSUME NEW c \in Contents, AddVersion(n, v, c) PROVE Shown
  <2>1. files'[n] = [files[n] EXCEPT ![v] = c]
    BY <1>0, <1>2 DEF AddVersion, TypeOK
  <2>2. Active(n)' = Active(n) /\ Listed(n)' = Listed(n) \cup {v}
    BY <1>0, <1>2, ListsOneMore DEF AddVersion
  <2> QED
    BY <1>1, <1>2, <2>1, <2>2, EndTaints, PutShows DEF AddVersion
<1>3. CASE /\ \E d : files' = [files EXCEPT ![n][v] = d]
           /\ UNCHANGED meta /\ Interrupted({})
  BY <1>3, UnlistedShows
<1>4. CASE Interrupted({n})
  BY <1>1, <1>4, EndTaints, FailureShows
<1> QED
  BY <1>2, <1>3, <1>4 DEF AddVersionFails

LEMMA VersionDeleteShows ==
  ASSUME RegistryInv, RegistryInv', NEW n \in Names, NEW v \in VersionIds,
         VersionDelete(n, v)
  PROVE  Shown
<1>0. TypeOK
  BY DEF RegistryInv
<1>1. v \in Listed(n) /\ Active(n) # v /\ Readable(n)
  BY DEF VersionDelete, Deletable
<1>2. \A m \in Names \ {n} : files'[m] = files[m]
  BY <1>0 DEF VersionDelete, TypeOK
<1>3. CASE /\ files' = [files EXCEPT ![n][v] = Absent]
           /\ meta' = [meta EXCEPT ![n] = WithoutVersion(meta[n], v)]
           /\ Returned(tainted)
  <2> DEFINE x == WithoutVersion(meta[n], v)
  <2>1. meta[n] \in Meta /\ meta'[n] = x
    BY <1>0, <1>1, <1>3 DEF Readable, TypeOK
  <2>2. x \in Meta /\ x.active = Active(n) /\ x.versions = Listed(n) \ {v}
    BY <1>1, <2>1, MetaFields DEF Active, Listed
  <2> HIDE DEF x
  <2>3. Active(n)' = Active(n) /\ Listed(n)' = Listed(n) \ {v}
    BY <2>1, <2>2, MetaPresent DEF Active, Listed, Readable
  <2>4. Versions(n)' = [Versions(n) EXCEPT ![v] = Absent]
    BY <1>0, <1>3, <2>3 DEF Versions, TypeOK
  <2>5. \A m \in Names \ {n} : Same(m)
    BY <1>0, <1>2, <1>3, SameSkill DEF TypeOK
  <2>6. CASE n \in tainted
    BY <1>3, <2>5, <2>6, EndTaints, DoubtShows
  <2>7. CASE n \notin tainted
    <3>1. Becoming(n)
      BY <1>3, <2>5, <2>7, EndTaints, OneBecomes
    <3>2. Store!Drop(n, v)
      BY <1>1, <2>3, <2>4, <2>7, <3>1, KnownIs
      DEF Becoming, Store!Becomes, Store!Drop
    <3> QED
      BY <3>2 DEF Shown, Store!Next
  <2> QED
    BY <2>6, <2>7
<1>4. CASE MetaWriteFails(n, meta[n]) /\ Interrupted({n})
  BY <1>0, <1>2, <1>4, WriteKeepsOthers, EndTaints, FailureShows
<1>5. CASE /\ \E c \in Contents : files' = [files EXCEPT ![n][v] = c]
           /\ Interrupted({}) /\ UNCHANGED meta
  <2>1. PICK c \in Contents : files'[n] = [files[n] EXCEPT ![v] = c]
    BY <1>0, <1>5 DEF TypeOK
  <2>2. Active(n)' = Active(n) /\ Listed(n)' = Listed(n)
    BY <1>5 DEF Active, Listed, Readable
  <2>3. tainted' = tainted
    BY <1>5 DEF Interrupted, Failed, Crashed, Fault
  <2>4. /\ \A u \in VersionIds : u \in Listed(n)' <=> u \in Listed(n) \/ u = v
        /\ \A m \in Names \ {n} : meta'[m] = meta[m] /\ files'[m] = files[m]
    BY <1>1, <1>2, <1>5, <2>2
  <2> QED
    BY <2>1, <2>2, <2>3, <2>4, PutShows
<1> QED
  BY <1>3, <1>4, <1>5 DEF VersionDelete, Record

(* A file operation changes one version, whoever else changed it before.   *)
LEMMA ChangeShows ==
  ASSUME RegistryInv, RegistryInv', NEW p \in Clients, NEW c \in Contents,
         NEW n \in Names, NEW v \in VersionIds,
         pend[p].name = n, pend[p].version = v, ChangeVersion(p, c)
  PROVE  Shown
<1>0. TypeOK
  BY DEF RegistryInv
<1>1. /\ meta' = meta /\ files' = [files EXCEPT ![n][v] = c]
      /\ \/ SyncIfActive(p, n, v, c)
         \/ FileInterrupted(p, IF Active(n) = v THEN {n} ELSE {})
  BY DEF ChangeVersion
<1>2. /\ files'[n] = [files[n] EXCEPT ![v] = c]
      /\ \A m \in Names \ {n} : files'[m] = files[m]
  BY <1>0, <1>1 DEF TypeOK
<1>3. Active(n)' = Active(n) /\ Listed(n)' = Listed(n)
  BY <1>1 DEF Active, Listed, Readable
<1>4. \A m \in Names \ {n} : Same(m)
  BY <1>1, <1>2, SameSkill
<1>5. ASSUME tainted' = tainted PROVE Shown
  <2>1. CASE v \in Listed(n)
    BY <1>0, <1>1, <1>2, <1>3, <1>5, <2>1, PutShows
  <2>2. CASE v \notin Listed(n)
    <3>1. \A u \in Listed(n) : files'[n][u] = files[n][u]
      BY <1>0, <1>1, <2>2
      DEF TypeOK, Listed, Readable, Meta
    <3>2. Same(n)
      BY <1>1, <3>1, SameSkill
    <3> QED
      BY <1>4, <1>5, <3>2, DoubtShows
  <2> QED
    BY <2>1, <2>2
<1>6. ASSUME n \in tainted', tainted \subseteq tainted' PROVE Shown
  BY <1>4, <1>6, DoubtShows
<1>7. ASSUME NEW ns, FileInterrupted(p, ns) PROVE tainted' = tainted \cup ns
  BY <1>7 DEF FileInterrupted, Crashed, Fault
<1>8. CASE FileInterrupted(p, IF Active(n) = v THEN {n} ELSE {})
  BY <1>5, <1>6, <1>7, <1>8
<1>9. CASE SyncIfActive(p, n, v, c)
  <2>1. CASE UNCHANGED served /\ FileDone(p, tainted)
    BY <1>5, <2>1 DEF FileDone
  <2>2. CASE Readable(n) /\ FileDone(p, IF meta[n].name = n THEN tainted
                                        ELSE tainted \cup {meta[n].name})
    <3>1. meta[n].name # n => n \in tainted
      BY <1>0, <2>2 DEF RegistryInv, NameInv
    <3> QED
      BY <1>5, <1>6, <2>2, <3>1 DEF FileDone
  <2>3. CASE FileInterrupted(p, {n, meta[n].name})
    BY <1>6, <1>7, <2>3
  <2>4. v \in Listed(n) => Readable(n)
    BY DEF Listed
  <2> QED
    BY <1>9, <2>1, <2>2, <2>3, <2>4 DEF SyncIfActive
<1> QED
  BY <1>1, <1>8, <1>9

LEMMA ActivateShows ==
  ASSUME RegistryInv, RegistryInv', NEW n \in Names, NEW v \in VersionIds,
         Activate(n, v)
  PROVE  Shown
<1> DEFINE new == Activated(meta[n], v)
<1>0. TypeOK /\ Readable(n) /\ v \in Listed(n) /\ files[n][v] # Absent
  BY DEF RegistryInv, Activate
<1>1. /\ meta[n] \in Meta /\ new \in Meta /\ new.active = v
      /\ new.versions = Listed(n) /\ new.name = meta[n].name
  BY <1>0, MetaFields DEF TypeOK, Readable, Listed
<1>2. files' = files /\ DeployAndRecord(n, files[n][v], meta[n], new)
  BY DEF Activate
<1> HIDE DEF new
<1>3. CASE /\ tainted' = tainted \ {n} /\ meta' = [meta EXCEPT ![n] = new]
           /\ \A m \in Names \ {n} : Same(m)
  <2>1. Active(n)' = v /\ Listed(n)' = Listed(n) /\ v # Absent
    BY <1>0, <1>1, <1>3, MetaPresent DEF TypeOK, Active, Listed, Readable
  <2>2. Versions(n)' = Versions(n) /\ Versions(n)[v] # Absent
    BY <1>0, <1>2, <2>1 DEF Versions
  <2>3. Becoming(n)
    BY <1>3, OneBecomes
  <2>4. CASE n \in tainted
    BY <1>3, <2>1, <2>3, <2>4, RepairShows
  <2>5. CASE n \notin tainted
    <3>1. Store!Activate(n, v)
      BY <2>1, <2>2, <2>3, <2>5, KnownIs
      DEF Becoming, Store!Becomes, Store!Activate
    <3> QED
      BY <3>1 DEF Shown, Store!Next
  <2> QED
    BY <2>4, <2>5
<1> QED
  BY <1>0, <1>1, <1>2, <1>3, DeployShows

(* Content that comes in from outside.                                     *)
LEMMA CommitShows ==
  ASSUME RegistryInv, RegistryInv', NEW n \in Names, NEW v \in VersionIds,
         NEW c \in Contents, NEW b \in BOOLEAN, Commit(n, v, c, b)
  PROVE  Shown
<1>0. TypeOK
  BY DEF RegistryInv
<1>1. CASE CommitDone(n, v, c, b)
  <2>1. /\ files'[n] = [files[n] EXCEPT ![v] = c]
        /\ \A m \in Names \ {n} : files'[m] = files[m]
    BY <1>0, <1>1 DEF CommitDone, TypeOK
  <2>2. CASE b
    BY <1>1, <2>2, PublishShows DEF CommitDone
  <2>3. CASE /\ meta' = [meta EXCEPT ![n] = WithVersion(BaseMeta(n), v)]
             /\ Returned(tainted)
    <3>1. Active(n)' = Active(n) /\ Listed(n)' = Listed(n) \cup {v}
      BY <1>0, <2>3, ListsOneMore
    <3>2. \A m \in Names \ {n} : meta'[m] = meta[m] /\ files'[m] = files[m]
      BY <1>0, <2>1, <2>3 DEF TypeOK
    <3> QED
      BY <2>1, <2>3, <3>1, <3>2, EndTaints, PutShows
  <2>4. CASE MetaWriteFails(n, BaseMeta(n)) /\ Interrupted({n})
    BY <1>0, <2>1, <2>4, WriteKeepsOthers, EndTaints, FailureShows
  <2> QED
    BY <1>1, <2>2, <2>3, <2>4 DEF CommitDone, Record
<1>2. CASE CommitCopyFails(n)
  <2>1. Same(n)
    BY <1>0, <1>2, BaseIsSame DEF CommitCopyFails
  <2>2. \A m \in Names \ {n} : Same(m)
    BY <1>0, <1>2, SameSkill DEF CommitCopyFails, TypeOK
  <2> QED
    BY <1>2, <2>1, <2>2, EndTaints, DoubtShows DEF CommitCopyFails
<1>4. v \notin Listed(n)
  BY DEF Commit, RegistryInv, MetaInv, WellFormed, Listed, Readable
<1>3. CASE CommitHalfway(n, v)
  <2>1. CASE \E d : files' = [files EXCEPT ![n][v] = d]
    BY <1>3, <1>4, <2>1, UnlistedShows DEF CommitHalfway
  <2>2. CASE UNCHANGED <<files, meta>>
    BY <1>3, <2>2, EndTaints, SameSkill, DoubtShows DEF CommitHalfway
  <2> QED
    BY <1>3, <2>1, <2>2 DEF CommitHalfway
<1> QED
  BY <1>1, <1>2, <1>3 DEF Commit

LEMMA ImportShows ==
  ASSUME RegistryInv, RegistryInv', NEW n \in Names, NEW v \in VersionIds,
         NEW c \in Contents, ImportAsNewVersion(n, v, c)
  PROVE  Shown
<1>0. TypeOK
  BY DEF RegistryInv
<1>1. CASE /\ files' = [files EXCEPT ![n][v] = c]
           /\ DeployAndRecord(n, c, meta[n],
                              Activated(WithVersion(BaseMeta(n), v), v))
  BY <1>1, PublishShows
<1>2. CASE Returned(tainted) /\ UNCHANGED <<meta, files, served>>
  BY <1>2, EndTaints, SameSkill, DoubtShows
<1>3. CASE /\ \E d \in Contents : files' = [files EXCEPT ![n][v] = d]
           /\ Interrupted({}) /\ UNCHANGED meta
  <2>1. v \notin Listed(n)
    BY DEF ImportAsNewVersion, RegistryInv, MetaInv, WellFormed, Listed,
           Readable
  <2> QED
    BY <1>3, <2>1, UnlistedShows
<1> QED
  BY <1>1, <1>2, <1>3 DEF ImportAsNewVersion

(* Every step of the registry is a step of the store, or does not show.    *)
LEMMA NextShows == RegistryInv /\ RegistryInv' /\ [Next]_vars => Shown
<1> SUFFICES ASSUME RegistryInv, RegistryInv', [Next]_vars PROVE Shown
  OBVIOUS
<1>0. TypeOK
  BY DEF RegistryInv
<1>1. ASSUME UNCHANGED <<meta, files, tainted>> PROVE Shown
  BY <1>1, SameSkill, DoubtShows
<1>2. ASSUME NEW n \in Names, SkillNext(n) PROVE Shown
  <2>1. CASE Update(n)
    <3>1. \A m \in Names \ {n} : meta'[m] = meta[m] /\ files'[m] = files[m]
      BY <1>0, <2>1, WriteKeepsOthers DEF Update, Record, TypeOK
    <3>2. CASE meta' = [meta EXCEPT ![n] = meta[n]] /\ Returned(tainted)
      <4>1. meta' = meta /\ files' = files
        BY <1>0, <2>1, <3>2 DEF Update, TypeOK
      <4> QED
        BY <1>1, <3>2, <4>1, EndTaints
    <3>3. CASE Interrupted({n})
      BY <3>1, <3>3, EndTaints, FailureShows
    <3> QED
      BY <2>1, <3>2, <3>3 DEF Update, Record
  <2> QED
    BY <1>2, <2>1, CreateShows, DeleteShows, RenameShows, CopyShows
    DEF SkillNext
<1>3. ASSUME NEW n \in Names, NEW v \in VersionIds, VersionNext(n, v)
      PROVE  Shown
  <2>1. ASSUME NEW b \in BOOLEAN, VersionCreate(n, v, b) PROVE Shown
    <3>1. Readable(n) /\ v \notin Listed(n)
      BY <2>1 DEF VersionCreate, RegistryInv, MetaInv, WellFormed, Listed,
                  Readable
    <3> QED
      BY <1>0, <2>1, <3>1, CreatesVersion, AddVersionShows
  <2>2. ASSUME NEW w \in VersionIds, VersionClone(n, v, w) PROVE Shown
    <3>1. files[n][v] \in Contents
      BY <1>0, <2>2 DEF VersionClone, TypeOK
    <3> QED
      BY <2>2, <3>1, AddVersionShows DEF VersionClone
  <2> QED
    BY <1>3, <2>1, <2>2, VersionDeleteShows, ActivateShows, CommitShows,
       ImportShows
    DEF VersionNext
<1>4. ASSUME NEW p \in Clients, FileNext(p) PROVE Shown
  <2>1. ASSUME pend[p] # Absent, NEW c \in Contents, ChangeVersion(p, c)
        PROVE  Shown
    <3>1. pend[p].name \in Names /\ pend[p].version \in VersionIds
      BY <1>0, <2>1 DEF TypeOK, Pending
    <3> QED
      BY <2>1, <3>1, ChangeShows
  <2>2. ASSUME PathNotFound(p) PROVE Shown
    BY <1>1, <2>2 DEF PathNotFound, FileDone
  <2>3. ASSUME NEW b \in BOOLEAN, NEW n \in Names, NEW v \in VersionIds,
               ResolveVersionPath(p, b, n, v)
        PROVE  Shown
    BY <1>1, <2>3 DEF ResolveVersionPath
  <2> QED
    BY <1>4, <2>1, <2>2, <2>3
    DEF FileNext, VersionFileWrite, VersionFileMkdir, VersionFileUpdate,
        VersionFileDelete
<1>5. CASE Restart
  <2>1. UNCHANGED <<meta, files, tainted>>
    BY <1>5 DEF Restart, Crashed, Fault
  <2> QED
    BY <1>1, <2>1
<1>6. CASE UNCHANGED vars
  BY <1>1, <1>6 DEF vars
<1> QED
  BY <1>2, <1>3, <1>4, <1>5, <1>6 DEF Next

(* To clients and agents the registry is the store: an operation takes     *)
(* effect at once, for both and on one skill only, or it leaves the skill  *)
(* in doubt until it is activated or deleted; whatever else runs between   *)
(* the two steps of a file operation, and whatever fails or is killed.     *)
THEOREM RegistryAlwaysIsStore == Spec => RegistryIsStore
<1>1. Init => Store!Init
  <2> SUFFICES ASSUME Init PROVE Store!Init
    OBVIOUS
  <2>1. Intact = Names
    BY DEF Init, Intact
  <2>2. \A n \in Names :
          /\ Versions(n) = Store!None /\ Active(n) = Absent
          /\ served[n] = Absent
    BY NoSkill DEF Init
  <2>3. \A n \in Names : Skill(n) = Store!Nothing
    BY <2>2 DEF Skill, Store!Nothing
  <2> QED
    BY <2>1, <2>2, <2>3 DEF Store!Init, Skills, Agents
<1>2. RegistryInv /\ RegistryInv' /\ [Next]_vars =>
        [Store!Next]_(Store!vars)
  BY NextShows DEF Shown
<1> QED
  BY <1>1, <1>2, RegistryInvariant, PTL DEF Spec, RegistryIsStore, Store!Spec
=============================================================================
