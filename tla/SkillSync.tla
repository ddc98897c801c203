----------------------------- MODULE SkillSync -----------------------------
(***************************************************************************)
(* How one skill gets from the global store, /data/skills/<name>, to one   *)
(* agent's cache (handler/skill.go), file by file.                         *)
(*                                                                         *)
(* Deployments run under RegistryHandler.mu, so there is one at a time;    *)
(* copies to the cache run under SkillHandler.mu, another mutex; and the   *)
(* comparison of stamps before a copy, the reading of SKILLS.md after it   *)
(* and the deletion of a cache take no lock.  Every step below is one      *)
(* system call, so all of these interleave.                                *)
(*                                                                         *)
(* A skill is three files, named for where filepath.Walk, which visits in  *)
(* lexical order, meets them: "md" (SKILLS.md) comes before _meta.json,    *)
(* "meta", and "aux" (any lower-case name) after it.  A deployment copies  *)
(* the version in the order of the walk and writes its stamp, _meta.json,  *)
(* last; a copy to the cache follows the walk.  The content of a file is   *)
(* the time of the deployment that wrote it, which for _meta.json is the   *)
(* UpdatedAt it holds.  But an uploaded version may bring a _meta.json of  *)
(* its own, which says whatever it says, and which is deployed first.      *)
(***************************************************************************)
EXTENDS Integers

CONSTANTS
  Requests,     \* agent list and load requests that can be in progress
  None,         \* nobody holds SkillHandler.mu
  Times,        \* when skills are deployed or deleted (bounds the model)
  OwnStamps,    \* what a _meta.json that comes with a version can say
  MaxCleans,    \* number of cache deletions (bounds the model)
  MaxFaults     \* number of failing writes and kills (bounds the model)

ASSUME SyncAssumption ==
  /\ None \notin Requests
  /\ Times \subseteq Nat \ {0} /\ OwnStamps \subseteq Nat \ {0}
  /\ Times \cap OwnStamps = {}   \* to tell them apart
  /\ MaxCleans \in Nat /\ MaxFaults \in Nat

VARIABLES
  store,        \* file -> content, in the global store
  storeDir,     \* the skill's directory exists there
  deploy,       \* what the deployment in progress does next
  latest,       \* time of the latest deployment
  cache,        \* file -> content, in the agent's cache
  cacheDir,     \* the skill's directory exists there
  cleaning,     \* a cache deletion is in progress
  cleans,       \* number of cache deletions begun
  mu,           \* holder of SkillHandler.mu
  pc,           \* request -> what it does next
  stamp,        \* request -> the store's stamp it read and will compare
  todo,         \* request -> files listed and not yet copied
  buf,          \* request -> content read and not yet written
  answered,     \* the newest SKILLS.md any request was answered with
  leftover,     \* the last copy began with files of the one before it
  disturbed,    \* the copy in the cache was taken while something else ran
  faults        \* number of failed writes and kills

storeVars == <<store, storeDir, deploy, latest>>
cleanVars == <<cleaning, cleans>>
copyVars == <<mu, todo, buf, leftover>>
vars == <<storeVars, cache, cacheDir, cleanVars, copyVars, pc, stamp, answered,
          disturbed, faults>>

Files == {"md", "meta", "aux"}
Missing == -1   \* no such file
Blank == 0      \* created or truncated and not yet written, or unreadable
Content == {Missing, Blank} \cup Times \cup OwnStamps

NoFiles == [f \in Files |-> Missing]
Whole(dir) == \E t \in Times : dir = [f \in Files |-> t]

TypeOK ==
  /\ store \in [Files -> Content] /\ cache \in [Files -> Content]
  /\ storeDir \in BOOLEAN /\ cacheDir \in BOOLEAN
  /\ deploy \in {"idle", "clear", "mkdir", "md", "own", "aux", "meta"}
  /\ latest \in Times \cup {0} /\ cleans \in 0 .. MaxCleans
  /\ faults \in 0 .. MaxFaults
  /\ cleaning \in BOOLEAN /\ leftover \in BOOLEAN /\ disturbed \in BOOLEAN
  /\ mu \in Requests \cup {None}
  /\ pc \in [Requests -> {"idle", "compare", "lock", "clear", "list", "copy",
                          "answer"}]
  /\ stamp \in [Requests -> Content]
  /\ todo \in [Requests -> SUBSET Files]
  /\ buf \in [Requests -> Content] /\ answered \in Content

Init ==
  /\ store = NoFiles /\ storeDir = FALSE /\ deploy = "idle" /\ latest = 0
  /\ cache = NoFiles /\ cacheDir = FALSE
  /\ cleaning = FALSE /\ cleans = 0
  /\ mu = None
  /\ pc = [r \in Requests |-> "idle"]
  /\ stamp = [r \in Requests |-> Missing]
  /\ todo = [r \in Requests |-> {}]
  /\ buf = [r \in Requests |-> Missing]
  /\ answered = Missing
  /\ leftover = FALSE /\ disturbed = FALSE /\ faults = 0

Copying == \E r \in Requests : pc[r] \in {"clear", "list", "copy"}

-----------------------------------------------------------------------------
(* A deployment (deployVersionToSkills), or the removal of one (Delete):   *)
(* its time stands for the content it writes.                              *)

DeployBegin ==
  /\ deploy = "idle"
  /\ \E t \in Times : t > latest /\ latest' = t
  /\ deploy' = "clear"
  /\ disturbed' = (disturbed \/ Copying)
  /\ UNCHANGED <<store, storeDir, cache, cacheDir, cleanVars, copyVars, pc,
                 stamp, answered, faults>>

(* os.RemoveAll, which takes the files in any order. *)
DeployRemove(f) ==
  /\ deploy = "clear" /\ store[f] # Missing
  /\ store' = [store EXCEPT ![f] = Missing]
  /\ UNCHANGED <<storeDir, deploy, latest, cache, cacheDir, cleanVars,
                 copyVars, pc, stamp, answered, disturbed, faults>>

(* The directory itself goes last; that is the end of a deletion. *)
DeployRmdir ==
  /\ deploy = "clear" /\ store = NoFiles
  /\ storeDir' = FALSE
  /\ deploy' \in {"mkdir", "idle"}
  /\ UNCHANGED <<store, latest, cache, cacheDir, cleanVars, copyVars, pc,
                 stamp, answered, disturbed, faults>>

DeployMkdir ==
  /\ deploy = "mkdir"
  /\ storeDir' = TRUE /\ deploy' = "md"
  /\ UNCHANGED <<store, latest, cache, cacheDir, cleanVars, copyVars, pc,
                 stamp, answered, disturbed, faults>>

NeverEnds(f) ==  \* MUTANT of AfterFile: one more file, which nobody writes
  CASE f = "md" -> {"own", "aux"}
    [] f = "aux" -> {"meta"}
    [] f = "meta" -> {"end"}

(* copyDir walks the version: "own" is the _meta.json that it may hold.    *)
(* The stamp is written over it after all of the content.                  *)
AfterFile(f) ==
  CASE f = "md" -> {"own", "aux"}
    [] f = "aux" -> {"meta"}
    [] f = "meta" -> {"idle"}

(* os.WriteFile: create or truncate, then write. *)
DeployWrite(f) ==
  /\ deploy = f
  /\ IF store[f] # Blank
     THEN store' = [store EXCEPT ![f] = Blank] /\ UNCHANGED deploy
     ELSE store' = [store EXCEPT ![f] = latest] /\ deploy' \in AfterFile(f)
  /\ UNCHANGED <<storeDir, latest, cache, cacheDir, cleanVars, copyVars, pc,
                 stamp, answered, disturbed, faults>>

(* The same for the _meta.json of the version: extractZip keeps the one of *)
(* an archive.  It need not be readable.                                   *)
DeployOwn ==
  /\ deploy = "own"
  /\ IF store["meta"] = Missing
     THEN store' = [store EXCEPT !["meta"] = Blank] /\ UNCHANGED deploy
     ELSE /\ \E v \in OwnStamps \cup {Blank} :
               store' = [store EXCEPT !["meta"] = v]
          /\ deploy' = "aux"
  /\ UNCHANGED <<storeDir, latest, cache, cacheDir, cleanVars, copyVars, pc,
                 stamp, answered, disturbed, faults>>

(* A step of the deployment fails and what was done so far stays. *)
DeployFails ==
  /\ deploy # "idle" /\ faults < MaxFaults
  /\ deploy' = "idle" /\ faults' = faults + 1
  /\ UNCHANGED <<store, storeDir, latest, cache, cacheDir, cleanVars,
                 copyVars, pc, stamp, answered, disturbed>>

-----------------------------------------------------------------------------
(* AgentCacheDelete, or the clean-up at the end of a request for other     *)
(* skills.  No lock.                                                       *)

CleanBegin ==
  /\ ~cleaning /\ cacheDir /\ cleans < MaxCleans
  /\ cleaning' = TRUE /\ cleans' = cleans + 1
  /\ disturbed' = TRUE
  /\ UNCHANGED <<storeVars, cache, cacheDir, copyVars, pc, stamp, answered,
                 faults>>

CleanRemove(f) ==
  /\ cleaning /\ cache[f] # Missing
  /\ cache' = [cache EXCEPT ![f] = Missing]
  /\ UNCHANGED <<storeVars, cacheDir, cleanVars, copyVars, pc, stamp, answered,
                 disturbed, faults>>

(* The directory is removed if it is empty by then. *)
CleanEnd ==
  /\ cleaning
  /\ cleaning' = FALSE
  /\ cacheDir' = (cacheDir /\ cache # NoFiles)
  /\ UNCHANGED <<storeVars, cache, cleans, copyVars, pc, stamp, answered,
                 disturbed, faults>>

-----------------------------------------------------------------------------
(* A request that lists or loads the skill: syncSkillToAgent, then         *)
(* readSkillsMD.                                                           *)

Goto(r, l) == pc' = [pc EXCEPT ![r] = l]

(* The store's _meta.json is read; without a readable one the request      *)
(* skips the skill and nothing happens.                                    *)
Begin(r) ==
  /\ pc[r] = "idle" /\ storeDir /\ store["meta"] > Blank
  /\ stamp' = [stamp EXCEPT ![r] = store["meta"]]
  /\ Goto(r, "compare")
  /\ UNCHANGED <<storeVars, cache, cacheDir, cleanVars, copyVars, answered,
                 disturbed, faults>>

(* enable_agent_workspace: the cache as it is. *)
BeginLocal(r) ==
  /\ pc[r] = "idle" /\ cacheDir
  /\ Goto(r, "answer")
  /\ UNCHANGED <<storeVars, cache, cacheDir, cleanVars, copyVars, stamp,
                 answered, disturbed, faults>>

TrustsAnyStamp(r) == cache["meta"] <= Blank  \* MUTANT of NeedCopy

(* A cache without a readable stamp counts as outdated. *)
NeedCopy(r) == cache["meta"] < stamp[r]

Compare(r) ==
  /\ pc[r] = "compare"
  /\ Goto(r, IF NeedCopy(r) THEN "lock" ELSE "answer")
  /\ stamp' = [stamp EXCEPT ![r] = Missing]
  /\ UNCHANGED <<storeVars, cache, cacheDir, cleanVars, copyVars, answered,
                 disturbed, faults>>

NoLock(r) == pc[r] = "lock"  \* MUTANT of CanLock: the copy takes no lock

CanLock(r) == pc[r] = "lock" /\ mu = None

Lock(r) ==
  /\ CanLock(r)
  /\ mu' = r /\ Goto(r, "clear")
  /\ UNCHANGED <<storeVars, cache, cacheDir, cleanVars, todo, buf, leftover,
                 stamp, answered, disturbed, faults>>

ClearOne(r, f) ==
  /\ pc[r] = "clear" /\ cache[f] # Missing
  /\ cache' = [cache EXCEPT ![f] = Missing]
  /\ UNCHANGED <<storeVars, cacheDir, cleanVars, copyVars, pc, stamp, answered,
                 disturbed, faults>>

ClearDone(r) ==
  /\ pc[r] = "clear" /\ cache = NoFiles
  /\ cacheDir' = FALSE /\ leftover' = FALSE
  /\ Goto(r, "list")
  /\ UNCHANGED <<storeVars, cache, cleanVars, mu, todo, buf, stamp, answered,
                 disturbed, faults>>

(* os.RemoveAll fails, and nobody looks: the copy goes on top of what is   *)
(* left.                                                                   *)
ClearFails(r) ==
  /\ pc[r] = "clear" /\ faults < MaxFaults
  /\ faults' = faults + 1 /\ leftover' = TRUE
  /\ Goto(r, "list")
  /\ UNCHANGED <<storeVars, cache, cacheDir, cleanVars, mu, todo, buf, stamp,
                 answered, disturbed>>

KeepsMu(r, l) == mu' = mu /\ Goto(r, l)  \* MUTANT of Unlock: no defer

Unlock(r, l) == mu' = None /\ Goto(r, l)

(* The copy fails: the lock is released, the files copied so far stay, and *)
(* the request skips the skill.                                            *)
CopyFails(r) ==
  /\ Unlock(r, "idle")
  /\ todo' = [todo EXCEPT ![r] = {}]
  /\ buf' = [buf EXCEPT ![r] = Missing]
  /\ disturbed' = TRUE

(* The walk reads the names in the store's directory once.  A copy counts  *)
(* as disturbed when it goes on top of another, or when the store is not a *)
(* finished deployment, or changes before the copy ends.                   *)
List(r) ==
  /\ pc[r] = "list"
  /\ \/ /\ storeDir
        /\ cacheDir' = TRUE
        /\ todo' = [todo EXCEPT ![r] = {f \in Files : store[f] # Missing}]
        /\ disturbed' =
             (leftover \/ deploy # "idle" \/ cleaning \/ ~Whole(store))
        /\ Goto(r, "copy")
        /\ UNCHANGED <<mu, buf>>
     \/ /\ ~storeDir
        /\ CopyFails(r)
        /\ UNCHANGED cacheDir
  /\ UNCHANGED <<storeVars, cache, cleanVars, leftover, stamp, answered,
                 faults>>

StampFirst(S) ==  \* MUTANT of FirstOf: the copy takes _meta.json first
  IF "meta" \in S THEN "meta" ELSE IF "md" \in S THEN "md" ELSE "aux"

(* The next file of the walk. *)
FirstOf(S) == IF "md" \in S THEN "md" ELSE IF "meta" \in S THEN "meta" ELSE "aux"

(* A listed file that is gone ends the walk with an error. *)
CopyRead(r) ==
  LET f == FirstOf(todo[r]) IN
  /\ pc[r] = "copy" /\ todo[r] # {} /\ buf[r] = Missing
  /\ \/ /\ store[f] # Missing
        /\ buf' = [buf EXCEPT ![r] = store[f]]
        /\ UNCHANGED <<mu, todo, pc, disturbed>>
     \/ store[f] = Missing /\ CopyFails(r)
  /\ UNCHANGED <<storeVars, cache, cacheDir, cleanVars, leftover, stamp,
                 answered, faults>>

(* os.WriteFile again.  It fails when the directory has been deleted, and  *)
(* may fail for reasons of its own.                                        *)
CopyWrite(r) ==
  LET f == FirstOf(todo[r]) IN
  /\ pc[r] = "copy" /\ buf[r] # Missing
  /\ \/ /\ cacheDir /\ cache[f] # Blank
        /\ cache' = [cache EXCEPT ![f] = Blank]
        /\ UNCHANGED <<mu, todo, buf, pc, disturbed, faults>>
     \/ /\ cacheDir /\ cache[f] = Blank
        /\ cache' = [cache EXCEPT ![f] = buf[r]]
        /\ todo' = [todo EXCEPT ![r] = @ \ {f}]
        /\ buf' = [buf EXCEPT ![r] = Missing]
        /\ UNCHANGED <<mu, pc, disturbed, faults>>
     \/ /\ ~cacheDir
        /\ CopyFails(r)
        /\ UNCHANGED <<cache, faults>>
     \/ /\ faults < MaxFaults
        /\ faults' = faults + 1
        /\ CopyFails(r)
        /\ UNCHANGED cache
  /\ UNCHANGED <<storeVars, cacheDir, cleanVars, leftover, stamp, answered>>

CopyDone(r) ==
  /\ pc[r] = "copy" /\ todo[r] = {}
  /\ Unlock(r, "answer")
  /\ UNCHANGED <<storeVars, cache, cacheDir, cleanVars, todo, buf, leftover,
                 stamp, answered, disturbed, faults>>

(* SKILLS.md is read from the cache; if it is not there the skill is left  *)
(* out of the response.                                                    *)
Answer(r) ==
  /\ pc[r] = "answer"
  /\ answered' = IF cache["md"] > answered THEN cache["md"] ELSE answered
  /\ Goto(r, "idle")
  /\ UNCHANGED <<storeVars, cache, cacheDir, cleanVars, copyVars, stamp,
                 disturbed, faults>>

-----------------------------------------------------------------------------
(* The process is killed: files stay, locks and requests go.               *)
Crash ==
  /\ faults < MaxFaults
  /\ faults' = faults + 1
  /\ deploy' = "idle" /\ cleaning' = FALSE /\ mu' = None
  /\ pc' = [r \in Requests |-> "idle"]
  /\ stamp' = [r \in Requests |-> Missing]
  /\ todo' = [r \in Requests |-> {}]
  /\ buf' = [r \in Requests |-> Missing]
  /\ disturbed' = (disturbed \/ Copying)
  /\ UNCHANGED <<store, storeDir, latest, cache, cacheDir, cleans, leftover,
                 answered>>

DeployStep ==
  \/ DeployRmdir \/ DeployMkdir \/ DeployOwn
  \/ \E f \in Files : DeployRemove(f) \/ DeployWrite(f)

CleanStep == CleanEnd \/ \E f \in Files : CleanRemove(f)

RequestStep(r) ==
  \/ Compare(r)
  \/ ClearDone(r) \/ \E f \in Files : ClearOne(r, f)
  \/ List(r) \/ CopyRead(r) \/ CopyWrite(r) \/ CopyDone(r)
  \/ Answer(r)

Next ==
  \/ DeployBegin \/ DeployStep \/ DeployFails
  \/ CleanBegin \/ CleanStep
  \/ \E r \in Requests :
       Begin(r) \/ BeginLocal(r) \/ Lock(r) \/ ClearFails(r) \/ RequestStep(r)
  \/ Crash

(* Goroutines run on; a sync.Mutex is handed to every waiter in the end.   *)
(* No fairness for what callers or faults decide.                          *)
Fairness ==
  /\ WF_vars(DeployStep) /\ WF_vars(CleanStep)
  /\ \A r \in Requests : WF_vars(RequestStep(r)) /\ SF_vars(Lock(r))

Spec == Init /\ [][Next]_vars
FairSpec == Spec /\ Fairness

-----------------------------------------------------------------------------
(* A stamped copy that nobody is working on is one whole deployment, all   *)
(* files of it, unless a deployment, a cache deletion, a failing removal   *)
(* or write, or a kill fell within the copying (skill.go:390-399 against   *)
(* registry.go:107-130): requests that race each other never mix files.    *)
WholeUnlessDisturbed ==
  mu = None /\ cache["meta"] > Blank /\ ~disturbed => Whole(cache)

(* Even then, what is copied before the stamp is never newer than it and   *)
(* what is copied after it never older: the stamp is read in between, and  *)
(* a deployment stamps last.  So newer content than the stamp says is      *)
(* replaced by the next request, never mistaken for the old deployment.    *)
(* Nothing of the kind is true of a stamp that came with a version, for a  *)
(* copy taken while that one is deployed can hold it beside any content,   *)
(* nor of files that a failed removal left in the way of a copy.           *)
StampBetween ==
  cache["meta"] > Blank /\ cache["meta"] \notin OwnStamps /\ ~leftover =>
    /\ cache["md"] <= cache["meta"]
    /\ cache["aux"] > Blank => cache["aux"] >= cache["meta"]

(* No request is answered with an older SKILLS.md than any request before  *)
(* it was: copies are serialised, and each reads the store after the one   *)
(* before it.                                                              *)
AnswersNeverGoBack ==
  [][\A r \in Requests :
       Answer(r) /\ cache["md"] > Blank => answered <= cache["md"]]_vars

(* Every request ends, also when a deployment takes the files away that it *)
(* copies: the lock is released on every path of copySkillToAgent.         *)
EveryRequestEnds ==
  \A r \in Requests : pc[r] # "idle" ~> pc[r] = "idle"

(* The cache has a stamp from beside the deployments that counts as newer  *)
(* than the store's.                                                       *)
Misled == cache["meta"] \in OwnStamps /\ cache["meta"] >= store["meta"]

(* Once a deployment stands, requests bring the cache up to its stamp, and *)
(* an older one does not come back, however many copies were decided on    *)
(* before.  It need not STAY there: a request that compares while another  *)
(* one copies finds no stamp and copies again (skill.go:478 against 390).  *)
(* The one thing that keeps it from there is a stamp that came with a      *)
(* version, copied before the deployment wrote its own over it             *)
(* (registry.go:117 against 129), and that says a later time.              *)
CacheCatchesUp ==
  (/\ <>[](deploy = "idle" /\ storeDir /\ store["meta"] > Blank)
   /\ []<>(\E r \in Requests : pc[r] = "compare"))
  => \/ <>[]Misled
     \/ /\ []<>(cache["meta"] = store["meta"])
        /\ <>[](cache["meta"] \in {Missing, Blank, store["meta"]})

(* README.md:295: "the system compares the version timestamp (_meta.json)  *)
(* and refreshes outdated cached copies from the global store".  A cache   *)
(* that the comparison takes for current would then have the content of    *)
(* the store.                                                              *)
CurrentStampCurrentContent ==
  deploy = "idle" /\ mu = None /\ ~cleaning /\ Whole(store)
    /\ cache["meta"] = store["meta"] => cache["md"] = store["md"]

=============================================================================
