-------------------------- MODULE SkillSyncProofs --------------------------
(***************************************************************************)
(* Theorems about SkillSync, for any requests and any number of            *)
(* deployments, cache deletions and faults.                                *)
(***************************************************************************)
EXTENDS SkillSync, TLAPS

(* At most one request is copying, the one that holds SkillHandler.mu; the *)
(* others have no files listed and no content in hand.                     *)
Working(r) == pc[r] \in {"clear", "list", "copy"}

LockInv ==
  \A r \in Requests :
    /\ Working(r) <=> mu = r
    /\ pc[r] # "copy" => todo[r] = {}
    /\ buf[r] # Missing => pc[r] = "copy" /\ todo[r] # {}

(* What is in the store is of one deployment, the one in progress once the *)
(* old files are cleared away, but for a stamp that came with the version; *)
(* and where that deployment is.                                           *)
StoreInv ==
  /\ \A f \in {"md", "aux"} : store[f] \notin OwnStamps
  /\ \A f \in Files : store[f] \in Times => store[f] <= latest
  /\ \A f, g \in Files :
       store[f] \in Times /\ store[g] \in Times => store[f] = store[g]
  /\ deploy = "clear" =>
       \A f \in Files : store[f] \in Times => store[f] < latest
  /\ deploy = "mkdir" => store = NoFiles
  /\ deploy = "md" => store["md"] <= Blank /\ store["meta"] = Missing
  /\ deploy \in {"own", "aux", "meta"} =>
       store["md"] = latest /\ store["meta"] \notin Times
  /\ deploy \in {"md", "own"} => store["aux"] = Missing
  /\ deploy = "own" => store["meta"] <= Blank
  /\ deploy = "aux" => store["aux"] <= Blank
  /\ deploy = "meta" => store["aux"] = latest
  /\ deploy # "idle" => latest \in Times

(* Nothing in the store is, or will be, older than v.                      *)
Seen(v) == v <= latest /\ \A f \in Files : store[f] \in Times => v <= store[f]

(* So it is for whatever was read from the store, but the stamps that came *)
(* with versions, which are stamps and nothing else.                       *)
SeenInv ==
  /\ \A f \in Files : cache[f] \in Times => Seen(cache[f])
  /\ \A r \in Requests : buf[r] \in Times => Seen(buf[r])
  /\ answered \in Times => Seen(answered)
  /\ \A f \in {"md", "aux"} : cache[f] \notin OwnStamps
  /\ \A r \in Requests :
       buf[r] \in OwnStamps => FirstOf(todo[r]) = "meta"
  /\ answered \notin OwnStamps

(* The files a copy has not come to yet have no content, unless the old    *)
(* ones could not be removed.                                              *)
AheadInv ==
  ~leftover => \A r \in Requests :
    /\ pc[r] = "list" => cache = NoFiles
    /\ "md" \in todo[r] => cache["md"] <= Blank
    /\ todo[r] \cap {"md", "meta"} # {} => cache["meta"] <= Blank
    /\ todo[r] # {} => cache["aux"] <= Blank

(* The content in hand is no older than what was copied before it, and     *)
(* than any answer.                                                        *)
HandInv ==
  \A r \in Requests : buf[r] \in Times =>
    /\ FirstOf(todo[r]) = "md" => answered <= buf[r] /\ cache["md"] <= buf[r]
    /\ FirstOf(todo[r]) = "meta" => cache["md"] <= buf[r]
    /\ FirstOf(todo[r]) = "aux" =>
         (cache["meta"] \in Times => cache["meta"] <= buf[r])

(* No answer is newer than the cache.                                      *)
AnswerInv == cache["md"] > Blank => answered <= cache["md"]

(* An undisturbed copy has the store's files as far as it has come.        *)
UndisturbedInv ==
  /\ cleaning => disturbed
  /\ \A r \in Requests : pc[r] = "copy" /\ ~disturbed =>
       /\ deploy = "idle" /\ Whole(store)
       /\ \A f \in Files \ todo[r] : cache[f] = store[f]
       /\ buf[r] # Missing => buf[r] = store[FirstOf(todo[r])]

SyncInv ==
  /\ TypeOK /\ LockInv /\ StoreInv /\ SeenInv /\ AheadInv /\ HandInv
  /\ AnswerInv /\ UndisturbedInv /\ WholeUnlessDisturbed /\ StampBetween

-----------------------------------------------------------------------------

(* The invariant holds at first: nothing is deployed, copied or answered.  *)
LEMMA InitInv == Init => SyncInv
<1> SUFFICES ASSUME Init  PROVE SyncInv
  OBVIOUS
<1>0. /\ NoFiles \in [Files -> Content]
      /\ \A f \in Files : NoFiles[f] = Missing
      /\ Missing \in Content /\ {} \in SUBSET Files
      /\ 0 \in Times \cup {0} /\ 0 \in 0 .. MaxCleans /\ 0 \in 0 .. MaxFaults
      /\ Missing \notin Times /\ Missing \notin OwnStamps
  BY SyncAssumption DEF NoFiles, Content, Missing
<1> USE <1>0
<1>a. cache["md"] = -1 /\ 0 \in Int
  BY DEF Init, Missing, Files
<1>1. TypeOK
  BY SyncAssumption DEF Init, TypeOK
<1>2. LockInv
  BY SyncAssumption DEF LockInv, Init, Working
<1>3. StoreInv
  BY DEF StoreInv, Init, Missing, Files
<1>4. SeenInv
  BY DEF SeenInv, Init, Missing, Seen, Files
<1>5. AheadInv
  BY DEF AheadInv, Init
<1>6. HandInv
  BY DEF HandInv, Init, Missing, Files
<1>7. AnswerInv
  BY <1>a DEF AnswerInv, Blank
<1>8. UndisturbedInv
  BY DEF UndisturbedInv, Init
<1>9. WholeUnlessDisturbed
  BY DEF WholeUnlessDisturbed, Init, Missing, Blank, Files
<1>10. StampBetween
  BY DEF StampBetween, Init, Missing, Files
<1> QED
  BY <1>1, <1>2, <1>3, <1>4, <1>5, <1>6, <1>7, <1>8, <1>9, <1>10 DEF SyncInv

(* Every step keeps it, those of a deployment, of the deletion of the cache*)
(* and of each request, and the faults.                                    *)
LEMMA NextInv ==
  ASSUME SyncInv, [Next]_vars
  PROVE  SyncInv'
<1>0. /\ None \notin Requests
      /\ Times \subseteq Nat \ {0} /\ OwnStamps \subseteq Nat \ {0}
      /\ Times \cap OwnStamps = {}
      /\ MaxCleans \in Nat /\ MaxFaults \in Nat
      /\ \A v \in Content : v \in Int /\ v >= Missing
      /\ \A t \in Times : t > Blank /\ t > Missing /\ t \notin OwnStamps
      /\ \A t \in Times : t \in Int /\ Missing <= t /\ Blank <= t
      /\ Missing \in Int /\ Blank \in Int /\ Missing < Blank /\ Blank \notin Times /\ Blank \notin OwnStamps
      /\ Missing \notin Times /\ Missing \notin OwnStamps
  BY SyncAssumption DEF Content, Missing, Blank
<1> USE <1>0
<1>1. ASSUME DeployBegin
      PROVE  SyncInv'
  <2>1. disturbed' <=> (disturbed \/ Copying)
    BY <1>1 DEF DeployBegin
  <2>2. \A r \in Requests : pc[r] = "copy" => Copying
    BY <2>1, <1>1 DEF Copying
  <2>3. /\ disturbed' \in BOOLEAN /\ cleaning' = cleaning
        /\ UNCHANGED <<copyVars, pc>>
    BY <2>1, <2>2, <1>1 DEF DeployBegin, Copying, SyncInv, TypeOK, cleanVars
  <2>4. LockInv' /\ AheadInv' /\ HandInv' /\ AnswerInv' /\ StampBetween'
    BY <1>1 DEF SyncInv, LockInv, AheadInv, HandInv, AnswerInv, StampBetween,
       copyVars, Working, DeployBegin
  <2>5. TypeOK'
    BY <2>1, <2>2, <2>3, <1>1 DEF SyncInv, TypeOK, DeployBegin, cleanVars,
       copyVars, Content
  <2>0. /\ latest \in Int /\ latest' \in Int /\ latest' \in Times
        /\ latest < latest' /\ deploy' = "clear"
        /\ \A f \in Files : store[f] \in Int /\ cache[f] \in Int
        /\ \A r \in Requests : buf[r] \in Int
        /\ answered \in Int
        /\ UNCHANGED <<store, cache, buf, todo, answered>>
    BY <1>1 DEF DeployBegin, SyncInv, TypeOK, copyVars
  <2>6. StoreInv'
    BY <2>0 DEF SyncInv, StoreInv
  <2>7. SeenInv'
    BY <2>0 DEF SyncInv, SeenInv, Seen
  <2>8. UndisturbedInv'
    BY <2>1, <2>2, <2>3, <1>1 DEF SyncInv, UndisturbedInv, copyVars
  <2>9. WholeUnlessDisturbed'
    BY <2>1, <2>2, <2>3, <1>1 DEF SyncInv, TypeOK, Content, Missing, Blank,
       Files, storeVars, cleanVars, copyVars, WholeUnlessDisturbed, LockInv,
       Working, UndisturbedInv, Whole, Copying, DeployBegin
  <2> QED
    BY <2>4, <2>5, <2>6, <2>7, <2>8, <2>9 DEF SyncInv
<1>2. ASSUME NEW f \in Files, DeployRemove(f)
      PROVE  SyncInv'
  <2>1. /\ LockInv' /\ AheadInv' /\ HandInv' /\ AnswerInv'
        /\ WholeUnlessDisturbed' /\ StampBetween'
    BY <1>2 DEF SyncInv, LockInv, AheadInv, HandInv, AnswerInv,
       WholeUnlessDisturbed, StampBetween, copyVars, Working, DeployRemove
  <2>2. TypeOK'
    BY <1>2 DEF SyncInv, TypeOK, storeVars, cleanVars, copyVars, Content,
       Files, Missing, Blank, DeployRemove
  <2>3. StoreInv'
    BY <1>2 DEF SyncInv, TypeOK, Content, Missing, Blank, Files, storeVars,
       cleanVars, copyVars, StoreInv, NoFiles, DeployRemove
  <2>4. SeenInv'
    BY <1>2 DEF SyncInv, TypeOK, Content, Missing, Blank, Files, storeVars,
       cleanVars, copyVars, SeenInv, Seen, StoreInv, DeployRemove
  <2>5. UndisturbedInv'
    BY <1>2 DEF SyncInv, TypeOK, Content, Missing, Blank, Files, storeVars,
       cleanVars, copyVars, UndisturbedInv, LockInv, Working, FirstOf, Whole,
       DeployRemove
  <2> QED
    BY <2>1, <2>2, <2>3, <2>4, <2>5 DEF SyncInv
<1>3. ASSUME DeployRmdir
      PROVE  SyncInv'
  <2>1. /\ LockInv' /\ SeenInv' /\ AheadInv' /\ HandInv' /\ AnswerInv'
        /\ WholeUnlessDisturbed' /\ StampBetween'
    BY <1>3 DEF SyncInv, LockInv, SeenInv, AheadInv, HandInv, AnswerInv,
       WholeUnlessDisturbed, StampBetween, copyVars, Working, Seen,
       DeployRmdir
  <2>2. TypeOK'
    BY <1>3 DEF SyncInv, TypeOK, storeVars, cleanVars, copyVars, Content,
       Files, Missing, Blank, DeployRmdir
  <2>3. StoreInv'
    BY <1>3 DEF SyncInv, TypeOK, Content, Missing, Blank, Files, storeVars,
       cleanVars, copyVars, StoreInv, NoFiles, DeployRmdir
  <2>4. UndisturbedInv'
    BY <1>3 DEF SyncInv, TypeOK, Content, Missing, Blank, Files, storeVars,
       cleanVars, copyVars, UndisturbedInv, LockInv, Working, FirstOf, Whole,
       DeployRmdir
  <2> QED
    BY <2>1, <2>2, <2>3, <2>4 DEF SyncInv
<1>4. ASSUME DeployMkdir
      PROVE  SyncInv'
  <2>1. /\ LockInv' /\ SeenInv' /\ AheadInv' /\ HandInv' /\ AnswerInv'
        /\ WholeUnlessDisturbed' /\ StampBetween'
    BY <1>4 DEF SyncInv, LockInv, SeenInv, AheadInv, HandInv, AnswerInv,
       WholeUnlessDisturbed, StampBetween, copyVars, Working, Seen,
       DeployMkdir
  <2>2. TypeOK'
    BY <1>4 DEF SyncInv, TypeOK, storeVars, cleanVars, copyVars, Content,
       Files, Missing, Blank, DeployMkdir
  <2>3. StoreInv'
    BY <1>4 DEF SyncInv, TypeOK, Content, Missing, Blank, Files, storeVars,
       cleanVars, copyVars, StoreInv, NoFiles, DeployMkdir
  <2>4. UndisturbedInv'
    BY <1>4 DEF SyncInv, TypeOK, Content, Missing, Blank, Files, storeVars,
       cleanVars, copyVars, UndisturbedInv, LockInv, Working, FirstOf, Whole,
       DeployMkdir
  <2> QED
    BY <2>1, <2>2, <2>3, <2>4 DEF SyncInv
<1>5. ASSUME NEW f \in Files, DeployWrite(f)
      PROVE  SyncInv'
  <2>1. /\ LockInv' /\ AheadInv' /\ HandInv' /\ AnswerInv'
        /\ WholeUnlessDisturbed' /\ StampBetween'
    BY <1>5 DEF SyncInv, LockInv, AheadInv, HandInv, AnswerInv,
       WholeUnlessDisturbed, StampBetween, copyVars, Working, DeployWrite
  <2>2. TypeOK'
    BY <1>5 DEF SyncInv, TypeOK, storeVars, cleanVars, copyVars, Content,
       Files, Missing, Blank, DeployWrite, AfterFile
  <2>3. StoreInv'
    BY <1>5 DEF SyncInv, TypeOK, Content, Missing, Blank, Files, storeVars,
       cleanVars, copyVars, StoreInv, NoFiles, DeployWrite, AfterFile
  <2>4. SeenInv'
    BY <1>5 DEF SyncInv, TypeOK, Content, Missing, Blank, Files, storeVars,
       cleanVars, copyVars, SeenInv, Seen, StoreInv, DeployWrite, AfterFile
  <2>5. UndisturbedInv'
    BY <1>5 DEF SyncInv, TypeOK, Content, Missing, Blank, Files, storeVars,
       cleanVars, copyVars, UndisturbedInv, LockInv, Working, FirstOf, Whole,
       DeployWrite, AfterFile
  <2> QED
    BY <2>1, <2>2, <2>3, <2>4, <2>5 DEF SyncInv
<1>6. ASSUME DeployFails
      PROVE  SyncInv'
  <2>1. /\ LockInv' /\ SeenInv' /\ AheadInv' /\ HandInv' /\ AnswerInv'
        /\ WholeUnlessDisturbed' /\ StampBetween'
    BY <1>6 DEF SyncInv, LockInv, SeenInv, AheadInv, HandInv, AnswerInv,
       WholeUnlessDisturbed, StampBetween, copyVars, Working, Seen,
       DeployFails
  <2>2. TypeOK'
    BY <1>6 DEF SyncInv, TypeOK, storeVars, cleanVars, copyVars, Content,
       Files, Missing, Blank, DeployFails
  <2>3. StoreInv'
    BY <1>6 DEF SyncInv, TypeOK, Content, Missing, Blank, Files, storeVars,
       cleanVars, copyVars, StoreInv, NoFiles, DeployFails
  <2>4. UndisturbedInv'
    BY <1>6 DEF SyncInv, TypeOK, Content, Missing, Blank, Files, storeVars,
       cleanVars, copyVars, UndisturbedInv, LockInv, Working, FirstOf, Whole,
       DeployFails
  <2> QED
    BY <2>1, <2>2, <2>3, <2>4 DEF SyncInv
<1>7. ASSUME CleanBegin
      PROVE  SyncInv'
  <2>1. /\ LockInv' /\ StoreInv' /\ SeenInv' /\ AheadInv' /\ HandInv'
        /\ AnswerInv' /\ StampBetween'
    BY <1>7 DEF SyncInv, LockInv, StoreInv, SeenInv, AheadInv, HandInv,
       AnswerInv, StampBetween, storeVars, copyVars, Working, Seen,
       CleanBegin
  <2>2. TypeOK'
    BY <1>7 DEF SyncInv, TypeOK, storeVars, cleanVars, copyVars, Content,
       Files, Missing, Blank, CleanBegin
  <2>3. UndisturbedInv'
    BY <1>7 DEF SyncInv, TypeOK, Content, Missing, Blank, Files, storeVars,
       cleanVars, copyVars, UndisturbedInv, LockInv, Working, FirstOf, Whole,
       CleanBegin
  <2>4. WholeUnlessDisturbed'
    BY <1>7 DEF SyncInv, TypeOK, Content, Missing, Blank, Files, storeVars,
       cleanVars, copyVars, WholeUnlessDisturbed, LockInv, Working,
       UndisturbedInv, Whole, Copying, CleanBegin
  <2> QED
    BY <2>1, <2>2, <2>3, <2>4 DEF SyncInv
<1>8. ASSUME NEW f \in Files, CleanRemove(f)
      PROVE  SyncInv'
  <2>1. LockInv' /\ StoreInv'
    BY <1>8 DEF SyncInv, LockInv, StoreInv, storeVars, copyVars, Working,
       CleanRemove
  <2>2. TypeOK'
    BY <1>8 DEF SyncInv, TypeOK, storeVars, cleanVars, copyVars, Content,
       Files, Missing, Blank, CleanRemove
  <2>3. SeenInv'
    BY <1>8 DEF SyncInv, TypeOK, Content, Missing, Blank, Files, storeVars,
       cleanVars, copyVars, SeenInv, Seen, StoreInv, CleanRemove
  <2>4. AheadInv'
    BY <1>8 DEF SyncInv, TypeOK, Content, Missing, Blank, Files, storeVars,
       cleanVars, copyVars, AheadInv, LockInv, Working, FirstOf, NoFiles,
       CleanRemove
  <2>5. HandInv'
    <3>1. /\ \A g \in Files : cache'[g] = cache[g] \/ cache'[g] = Missing
          /\ UNCHANGED <<buf, todo, answered>>
      BY <1>8 DEF SyncInv, TypeOK, copyVars, CleanRemove
    <3>2. \A q \in Requests : buf[q] \in Times => Missing <= buf[q]
      OBVIOUS
    <3> QED
      BY <3>1, <3>2 DEF SyncInv, HandInv, Files
  <2>6. AnswerInv'
    BY <1>8 DEF SyncInv, TypeOK, Content, Missing, Blank, Files, storeVars,
       cleanVars, copyVars, AnswerInv, HandInv, AheadInv, LockInv, FirstOf,
       CleanRemove
  <2>7. UndisturbedInv'
    BY <1>8 DEF SyncInv, TypeOK, Content, Missing, Blank, Files, storeVars,
       cleanVars, copyVars, UndisturbedInv, LockInv, Working, FirstOf, Whole,
       CleanRemove
  <2>8. WholeUnlessDisturbed'
    BY <1>8 DEF SyncInv, TypeOK, Content, Missing, Blank, Files, storeVars,
       cleanVars, copyVars, WholeUnlessDisturbed, LockInv, Working,
       UndisturbedInv, Whole, Copying, CleanRemove
  <2>9. StampBetween'
    <3>1. /\ \A g \in Files : cache'[g] = cache[g] \/ cache'[g] = Missing
          /\ UNCHANGED leftover
      BY <1>8 DEF SyncInv, TypeOK, copyVars, CleanRemove
    <3>2. \A g \in Files : cache[g] > Blank => Missing <= cache[g]
      BY DEF Missing, Blank, SyncInv, TypeOK
    <3>3. ~(Missing > Blank)
      BY DEF Missing, Blank
    <3> QED
      BY <3>1, <3>2, <3>3 DEF SyncInv, StampBetween, Files
  <2> QED
    BY <2>1, <2>2, <2>3, <2>4, <2>5, <2>6, <2>7, <2>8, <2>9 DEF SyncInv
<1>9. ASSUME CleanEnd
      PROVE  SyncInv'
  <2>1. /\ LockInv' /\ StoreInv' /\ SeenInv' /\ AheadInv' /\ HandInv'
        /\ AnswerInv' /\ WholeUnlessDisturbed' /\ StampBetween'
    BY <1>9 DEF SyncInv, LockInv, StoreInv, SeenInv, AheadInv, HandInv,
       AnswerInv, WholeUnlessDisturbed, StampBetween, storeVars, copyVars,
       Working, Seen, CleanEnd
  <2>2. TypeOK'
    BY <1>9 DEF SyncInv, TypeOK, storeVars, cleanVars, copyVars, Content,
       Files, Missing, Blank, CleanEnd
  <2>3. UndisturbedInv'
    BY <1>9 DEF SyncInv, TypeOK, Content, Missing, Blank, Files, storeVars,
       cleanVars, copyVars, UndisturbedInv, LockInv, Working, FirstOf, Whole,
       CleanEnd
  <2> QED
    BY <2>1, <2>2, <2>3 DEF SyncInv
<1>10. ASSUME NEW r \in Requests, Begin(r)
       PROVE  SyncInv'
  <2>1. /\ StoreInv' /\ SeenInv' /\ HandInv' /\ AnswerInv'
        /\ WholeUnlessDisturbed' /\ StampBetween'
    BY <1>10 DEF SyncInv, StoreInv, SeenInv, HandInv, AnswerInv,
       WholeUnlessDisturbed, StampBetween, storeVars, copyVars, Seen, Begin
  <2>2. TypeOK'
    BY <1>10 DEF SyncInv, TypeOK, storeVars, cleanVars, copyVars, Content,
       Files, Missing, Blank, Begin, Goto
  <2>3. LockInv'
    BY <1>10 DEF SyncInv, TypeOK, Content, Missing, Blank, Files, storeVars,
       cleanVars, copyVars, LockInv, Working, Begin, Goto
  <2>4. AheadInv'
    BY <1>10 DEF SyncInv, TypeOK, Content, Missing, Blank, Files, storeVars,
       cleanVars, copyVars, AheadInv, LockInv, Working, FirstOf, NoFiles,
       Begin, Goto
  <2>5. UndisturbedInv'
    BY <1>10 DEF SyncInv, TypeOK, Content, Missing, Blank, Files, storeVars,
       cleanVars, copyVars, UndisturbedInv, LockInv, Working, FirstOf, Whole,
       Begin, Goto
  <2> QED
    BY <2>1, <2>2, <2>3, <2>4, <2>5 DEF SyncInv
<1>11. ASSUME NEW r \in Requests, BeginLocal(r)
       PROVE  SyncInv'
  <2>1. /\ StoreInv' /\ SeenInv' /\ HandInv' /\ AnswerInv'
        /\ WholeUnlessDisturbed' /\ StampBetween'
    BY <1>11 DEF SyncInv, StoreInv, SeenInv, HandInv, AnswerInv,
       WholeUnlessDisturbed, StampBetween, storeVars, copyVars, Seen,
       BeginLocal
  <2>2. TypeOK'
    BY <1>11 DEF SyncInv, TypeOK, storeVars, cleanVars, copyVars, Content,
       Files, Missing, Blank, BeginLocal, Goto
  <2>3. LockInv'
    BY <1>11 DEF SyncInv, TypeOK, Content, Missing, Blank, Files, storeVars,
       cleanVars, copyVars, LockInv, Working, BeginLocal, Goto
  <2>4. AheadInv'
    BY <1>11 DEF SyncInv, TypeOK, Content, Missing, Blank, Files, storeVars,
       cleanVars, copyVars, AheadInv, LockInv, Working, FirstOf, NoFiles,
       BeginLocal, Goto
  <2>5. UndisturbedInv'
    BY <1>11 DEF SyncInv, TypeOK, Content, Missing, Blank, Files, storeVars,
       cleanVars, copyVars, UndisturbedInv, LockInv, Working, FirstOf, Whole,
       BeginLocal, Goto
  <2> QED
    BY <2>1, <2>2, <2>3, <2>4, <2>5 DEF SyncInv
<1>12. ASSUME NEW r \in Requests, Compare(r)
       PROVE  SyncInv'
  <2>1. /\ StoreInv' /\ SeenInv' /\ HandInv' /\ AnswerInv'
        /\ WholeUnlessDisturbed' /\ StampBetween'
    BY <1>12 DEF SyncInv, StoreInv, SeenInv, HandInv, AnswerInv,
       WholeUnlessDisturbed, StampBetween, storeVars, copyVars, Seen, Compare
  <2>2. TypeOK'
    BY <1>12 DEF SyncInv, TypeOK, storeVars, cleanVars, copyVars, Content,
       Files, Missing, Blank, Compare, Goto, NeedCopy
  <2>3. LockInv'
    BY <1>12 DEF SyncInv, TypeOK, Content, Missing, Blank, Files, storeVars,
       cleanVars, copyVars, LockInv, Working, Compare, Goto, NeedCopy
  <2>4. AheadInv'
    BY <1>12 DEF SyncInv, TypeOK, Content, Missing, Blank, Files, storeVars,
       cleanVars, copyVars, AheadInv, LockInv, Working, FirstOf, NoFiles,
       Compare, Goto, NeedCopy
  <2>5. UndisturbedInv'
    BY <1>12 DEF SyncInv, TypeOK, Content, Missing, Blank, Files, storeVars,
       cleanVars, copyVars, UndisturbedInv, LockInv, Working, FirstOf, Whole,
       Compare, Goto, NeedCopy
  <2> QED
    BY <2>1, <2>2, <2>3, <2>4, <2>5 DEF SyncInv
<1>13. ASSUME NEW r \in Requests, Lock(r)
       PROVE  SyncInv'
  <2>1. StoreInv' /\ SeenInv' /\ HandInv' /\ AnswerInv' /\ StampBetween'
    BY <1>13 DEF SyncInv, StoreInv, SeenInv, HandInv, AnswerInv,
       StampBetween, storeVars, Seen, Lock
  <2>2. TypeOK'
    BY <1>13 DEF SyncInv, TypeOK, storeVars, cleanVars, copyVars, Content,
       Files, Missing, Blank, Lock, CanLock, Goto
  <2>3. LockInv'
    BY <1>13 DEF SyncInv, TypeOK, Content, Missing, Blank, Files, storeVars,
       cleanVars, copyVars, LockInv, Working, Lock, CanLock, Goto
  <2>4. AheadInv'
    BY <1>13 DEF SyncInv, TypeOK, Content, Missing, Blank, Files, storeVars,
       cleanVars, copyVars, AheadInv, LockInv, Working, FirstOf, NoFiles,
       Lock, CanLock, Goto
  <2>5. UndisturbedInv'
    BY <1>13 DEF SyncInv, TypeOK, Content, Missing, Blank, Files, storeVars,
       cleanVars, copyVars, UndisturbedInv, LockInv, Working, FirstOf, Whole,
       Lock, CanLock, Goto
  <2>6. WholeUnlessDisturbed'
    BY <1>13 DEF SyncInv, TypeOK, Content, Missing, Blank, Files, storeVars,
       cleanVars, copyVars, WholeUnlessDisturbed, LockInv, Working,
       UndisturbedInv, Whole, Copying, Lock, CanLock, Goto
  <2> QED
    BY <2>1, <2>2, <2>3, <2>4, <2>5, <2>6 DEF SyncInv
<1>14. ASSUME NEW r \in Requests, NEW f \in Files, ClearOne(r, f)
       PROVE  SyncInv'
  <2>1. LockInv' /\ StoreInv'
    BY <1>14 DEF SyncInv, LockInv, StoreInv, storeVars, copyVars, Working,
       ClearOne
  <2>2. TypeOK'
    BY <1>14 DEF SyncInv, TypeOK, storeVars, cleanVars, copyVars, Content,
       Files, Missing, Blank, ClearOne
  <2>3. SeenInv'
    BY <1>14 DEF SyncInv, TypeOK, Content, Missing, Blank, Files, storeVars,
       cleanVars, copyVars, SeenInv, Seen, StoreInv, ClearOne
  <2>4. AheadInv'
    BY <1>14 DEF SyncInv, TypeOK, Content, Missing, Blank, Files, storeVars,
       cleanVars, copyVars, AheadInv, LockInv, Working, FirstOf, NoFiles,
       ClearOne
  <2>5. HandInv'
    <3>1. /\ \A g \in Files : cache'[g] = cache[g] \/ cache'[g] = Missing
          /\ UNCHANGED <<buf, todo, answered>>
      BY <1>14 DEF SyncInv, TypeOK, copyVars, ClearOne
    <3>2. \A q \in Requests : buf[q] \in Times => Missing <= buf[q]
      OBVIOUS
    <3> QED
      BY <3>1, <3>2 DEF SyncInv, HandInv, Files
  <2>6. AnswerInv'
    BY <1>14 DEF SyncInv, TypeOK, Content, Missing, Blank, Files, storeVars,
       cleanVars, copyVars, AnswerInv, HandInv, AheadInv, LockInv, FirstOf,
       ClearOne
  <2>7. UndisturbedInv'
    BY <1>14 DEF SyncInv, TypeOK, Content, Missing, Blank, Files, storeVars,
       cleanVars, copyVars, UndisturbedInv, LockInv, Working, FirstOf, Whole,
       ClearOne
  <2>8. WholeUnlessDisturbed'
    BY <1>14 DEF SyncInv, TypeOK, Content, Missing, Blank, Files, storeVars,
       cleanVars, copyVars, WholeUnlessDisturbed, LockInv, Working,
       UndisturbedInv, Whole, Copying, ClearOne
  <2>9. StampBetween'
    <3>1. /\ \A g \in Files : cache'[g] = cache[g] \/ cache'[g] = Missing
          /\ UNCHANGED leftover
      BY <1>14 DEF SyncInv, TypeOK, copyVars, ClearOne
    <3>2. \A g \in Files : cache[g] > Blank => Missing <= cache[g]
      BY DEF Missing, Blank, SyncInv, TypeOK
    <3>3. ~(Missing > Blank)
      BY DEF Missing, Blank
    <3> QED
      BY <3>1, <3>2, <3>3 DEF SyncInv, StampBetween, Files
  <2> QED
    BY <2>1, <2>2, <2>3, <2>4, <2>5, <2>6, <2>7, <2>8, <2>9 DEF SyncInv
<1>15. ASSUME NEW r \in Requests, ClearDone(r)
       PROVE  SyncInv'
  <2>1. /\ StoreInv' /\ SeenInv' /\ HandInv' /\ AnswerInv'
        /\ WholeUnlessDisturbed'
    BY <1>15 DEF SyncInv, StoreInv, SeenInv, HandInv, AnswerInv,
       WholeUnlessDisturbed, storeVars, Seen, ClearDone
  <2>6. StampBetween'
    BY <1>15 DEF StampBetween, ClearDone, NoFiles, Files, Missing, Blank
  <2>2. TypeOK'
    BY <1>15 DEF SyncInv, TypeOK, storeVars, cleanVars, copyVars, Content,
       Files, Missing, Blank, ClearDone, Goto
  <2>3. LockInv'
    BY <1>15 DEF SyncInv, TypeOK, Content, Missing, Blank, Files, storeVars,
       cleanVars, copyVars, LockInv, Working, ClearDone, Goto
  <2>4. AheadInv'
    BY <1>15 DEF SyncInv, TypeOK, Content, Missing, Blank, Files, storeVars,
       cleanVars, copyVars, AheadInv, LockInv, Working, FirstOf, NoFiles,
       ClearDone, Goto
  <2>5. UndisturbedInv'
    BY <1>15 DEF SyncInv, TypeOK, Content, Missing, Blank, Files, storeVars,
       cleanVars, copyVars, UndisturbedInv, LockInv, Working, FirstOf, Whole,
       ClearDone, Goto
  <2> QED
    BY <2>1, <2>2, <2>3, <2>4, <2>5, <2>6 DEF SyncInv
<1>16. ASSUME NEW r \in Requests, List(r)
       PROVE  SyncInv'
  <2>1. cacheDir' \in BOOLEAN
    BY <1>16 DEF SyncInv, TypeOK, List, CopyFails
  <2>2. disturbed' \in BOOLEAN
    BY <2>1, <1>16 DEF SyncInv, TypeOK, List, CopyFails
  <2>3. todo' \in [Requests -> SUBSET Files]
    BY <2>1, <2>2, <1>16 DEF SyncInv, TypeOK, List, CopyFails
  <2>4. buf' \in [Requests -> Content]
    BY <2>1, <2>2, <2>3, <1>16 DEF SyncInv, TypeOK, Content, Missing, Blank,
       List, CopyFails
  <2>5. /\ pc' \in [Requests -> {"idle", "compare", "lock", "clear", "list",
                             "copy", "answer"}]
        /\ mu' \in Requests \cup {None}
    BY <2>1, <2>2, <2>3, <2>4, <1>16 DEF SyncInv, TypeOK, List, CopyFails,
       Unlock, Goto
  <2>6. StoreInv' /\ AnswerInv' /\ StampBetween'
    BY <1>16 DEF SyncInv, StoreInv, AnswerInv, StampBetween, storeVars, List
  <2>7. TypeOK'
    BY <2>1, <2>2, <2>3, <2>4, <2>5, <1>16 DEF SyncInv, TypeOK, storeVars,
       cleanVars, copyVars, List
  <2>8. LockInv'
    BY <2>1, <2>2, <2>3, <2>4, <2>5, <1>16 DEF SyncInv, TypeOK, Content,
       Missing, Blank, Files, storeVars, cleanVars, copyVars, LockInv,
       Working, List, CopyFails, Unlock, Goto
  <2>9. SeenInv'
    <3>1. \A q \in Requests : buf'[q] = Missing \/
            (buf'[q] = buf[q] /\ todo'[q] = todo[q])
      BY <1>16 DEF SyncInv, TypeOK, LockInv, List, CopyFails
    <3> QED
      BY <3>1, <1>16 DEF SyncInv, SeenInv, Seen, List, storeVars
  <2>10. AheadInv'
    BY <2>1, <2>2, <2>3, <2>4, <2>5, <1>16 DEF SyncInv, TypeOK, Content,
       Missing, Blank, Files, storeVars, cleanVars, copyVars, AheadInv,
       LockInv, Working, FirstOf, NoFiles, List, CopyFails, Unlock, Goto
  <2>11. HandInv'
    BY <2>3, <2>4, <1>16 DEF SyncInv, Missing, Blank, HandInv, LockInv, List,
       CopyFails
  <2>12. UndisturbedInv'
    BY <2>1, <2>2, <2>3, <2>4, <2>5, <1>16 DEF SyncInv, TypeOK, Content,
       Missing, Blank, Files, storeVars, cleanVars, copyVars, UndisturbedInv,
       LockInv, Working, FirstOf, Whole, List, CopyFails, Unlock, Goto
  <2>13. WholeUnlessDisturbed'
    BY <1>16 DEF SyncInv, WholeUnlessDisturbed, LockInv, Working, List,
       CopyFails
  <2> QED
    BY <2>6, <2>7, <2>8, <2>9, <2>10, <2>11, <2>12, <2>13 DEF SyncInv
<1>17. ASSUME NEW r \in Requests, CopyRead(r)
       PROVE  SyncInv'
  <2>1. FirstOf(todo[r]) \in Files
    BY <1>17 DEF FirstOf, Files
  <2>2. disturbed' \in BOOLEAN
    BY <2>1, <1>17 DEF SyncInv, TypeOK, CopyRead, CopyFails
  <2>3. todo' \in [Requests -> SUBSET Files]
    BY <2>1, <2>2, <1>17 DEF SyncInv, TypeOK, CopyRead, CopyFails
  <2>4. buf' \in [Requests -> Content]
    BY <2>1, <2>2, <2>3, <1>17 DEF SyncInv, TypeOK, Content, Missing, Blank,
       CopyRead, CopyFails
  <2>5. /\ pc' \in [Requests -> {"idle", "compare", "lock", "clear", "list",
                             "copy", "answer"}]
        /\ mu' \in Requests \cup {None}
    BY <2>1, <2>2, <2>3, <2>4, <1>17 DEF SyncInv, TypeOK, CopyRead,
       CopyFails, Unlock, Goto
  <2>6. StoreInv' /\ AnswerInv' /\ StampBetween'
    BY <1>17 DEF SyncInv, StoreInv, AnswerInv, StampBetween, storeVars,
       CopyRead
  <2>7. TypeOK'
    BY <2>1, <2>2, <2>3, <2>4, <2>5, <1>17 DEF SyncInv, TypeOK, storeVars,
       cleanVars, copyVars, CopyRead
  <2>8. LockInv'
    BY <2>1, <2>2, <2>3, <2>4, <2>5, <1>17 DEF SyncInv, TypeOK, Content,
       Missing, Blank, Files, storeVars, cleanVars, copyVars, LockInv,
       Working, CopyRead, CopyFails, Unlock, Goto
  <2>0. \A q \in Requests :
          \/ buf'[q] = Missing
          \/ buf'[q] = buf[q] /\ todo'[q] = todo[q]
          \/ buf'[q] = store[FirstOf(todo[q])] /\ todo'[q] = todo[q]
               /\ FirstOf(todo[q]) \in Files
    BY <2>1, <1>17 DEF SyncInv, TypeOK, CopyRead, CopyFails
  <2>14. UNCHANGED <<store, cache, answered, latest>>
    BY <1>17 DEF CopyRead, storeVars
  <2>9. SeenInv'
    <3>1. \A f \in Files : store[f] \in OwnStamps => f = "meta"
      BY DEF SyncInv, StoreInv, Files
    <3>2. \A f \in Files : store[f] \in Times => Seen(store[f])
      BY DEF SyncInv, StoreInv, Seen, TypeOK
    <3> QED
      BY <2>0, <2>14, <3>1, <3>2 DEF SyncInv, SeenInv, Seen
  <2>10. AheadInv'
    BY <2>1, <2>2, <2>3, <2>4, <2>5, <1>17 DEF SyncInv, TypeOK, Content,
       Missing, Blank, Files, storeVars, cleanVars, copyVars, AheadInv,
       LockInv, Working, FirstOf, NoFiles, CopyRead, CopyFails, Unlock, Goto
  <2>11. HandInv'
    <3>1. ASSUME NEW f \in Files, store[f] \in Times
          PROVE  /\ answered <= store[f] /\ cache["md"] <= store[f]
                 /\ cache["meta"] \in Times => cache["meta"] <= store[f]
      <4>1. /\ answered \in Content /\ answered \notin OwnStamps
            /\ cache["md"] \in Content /\ cache["md"] \notin OwnStamps
        BY DEF SyncInv, TypeOK, SeenInv, Files
      <4>2. \A v \in Content : v \notin OwnStamps =>
              v \in Times \/ v < store[f]
        BY <3>1 DEF Content
      <4>3. \A v \in {answered} \cup {cache[g] : g \in Files} :
              v \in Times => v <= store[f]
        BY <3>1 DEF SyncInv, SeenInv, Seen
      <4>4. answered \in Int /\ cache["md"] \in Int /\ store[f] \in Int
        BY <4>1, <3>1
      <4>5. answered <= store[f]
        BY <4>1, <4>2, <4>3, <4>4
      <4>6. cache["md"] <= store[f]
        BY <4>1, <4>2, <4>3, <4>4 DEF Files
      <4>7. cache["meta"] \in Times => cache["meta"] <= store[f]
        BY <4>3 DEF Files
      <4> QED
        BY <4>5, <4>6, <4>7
    <3> QED
      BY <2>0, <2>14, <3>1 DEF SyncInv, HandInv
  <2>12. UndisturbedInv'
    BY <2>1, <2>2, <2>3, <2>4, <2>5, <1>17 DEF SyncInv, TypeOK, Content,
       Missing, Blank, Files, storeVars, cleanVars, copyVars, UndisturbedInv,
       LockInv, Working, FirstOf, Whole, CopyRead, CopyFails, Unlock, Goto
  <2>13. WholeUnlessDisturbed'
    BY <1>17 DEF SyncInv, WholeUnlessDisturbed, CopyRead, CopyFails
  <2> QED
    BY <2>6, <2>7, <2>8, <2>9, <2>10, <2>11, <2>12, <2>13 DEF SyncInv
<1>18. ASSUME NEW r \in Requests, CopyWrite(r)
       PROVE  SyncInv'
  <2>1. FirstOf(todo[r]) \in Files
    BY <1>18 DEF FirstOf, Files
  <2>2. disturbed' \in BOOLEAN
    BY <2>1, <1>18 DEF SyncInv, TypeOK, CopyWrite, CopyFails
  <2>3. faults' \in 0 .. MaxFaults
    BY <2>1, <2>2, <1>18 DEF SyncInv, TypeOK, CopyWrite, copyVars
  <2>4. cache' \in [Files -> Content]
    BY <2>1, <2>2, <2>3, <1>18 DEF SyncInv, TypeOK, Content, Missing, Blank,
       CopyWrite, CopyFails
  <2>5. todo' \in [Requests -> SUBSET Files]
    BY <2>1, <2>2, <2>3, <2>4, <1>18 DEF SyncInv, TypeOK, CopyWrite,
       CopyFails, copyVars
  <2>6. buf' \in [Requests -> Content]
    BY <2>1, <2>2, <2>3, <2>4, <2>5, <1>18 DEF SyncInv, TypeOK, Content,
       Missing, Blank, CopyWrite, CopyFails, copyVars
  <2>7. /\ pc' \in [Requests -> {"idle", "compare", "lock", "clear", "list",
                             "copy", "answer"}]
        /\ mu' \in Requests \cup {None}
    BY <2>1, <2>2, <2>3, <2>4, <2>5, <2>6, <1>18 DEF SyncInv, TypeOK,
       CopyWrite, CopyFails, Unlock, Goto, copyVars
  <2>8. StoreInv'
    BY <2>1, <2>2, <2>3, <2>4, <2>5, <2>6, <2>7, <1>18 DEF SyncInv, TypeOK,
       Content, Missing, Blank, Files, storeVars, cleanVars, copyVars,
       StoreInv, NoFiles, CopyWrite, CopyFails, Unlock, Goto
  <2>9. TypeOK'
    BY <2>1, <2>2, <2>3, <2>4, <2>5, <2>6, <2>7, <1>18 DEF SyncInv, TypeOK,
       storeVars, cleanVars, copyVars, CopyWrite
  <2>10. LockInv'
    BY <2>1, <2>2, <2>3, <2>4, <2>5, <2>6, <2>7, <1>18 DEF SyncInv, TypeOK,
       Content, Missing, Blank, Files, storeVars, cleanVars, copyVars,
       LockInv, Working, CopyWrite, CopyFails, Unlock, Goto
  <2>11. SeenInv'
    BY <2>1, <2>2, <2>3, <2>4, <2>5, <2>6, <2>7, <1>18 DEF SyncInv, TypeOK,
       Content, Missing, Blank, Files, storeVars, cleanVars, copyVars,
       SeenInv, Seen, StoreInv, CopyWrite, CopyFails, Unlock, Goto
  <2>12. AheadInv'
    BY <2>1, <2>2, <2>3, <2>4, <2>5, <2>6, <2>7, <1>18 DEF SyncInv, TypeOK,
       Content, Missing, Blank, Files, storeVars, cleanVars, copyVars,
       AheadInv, LockInv, Working, FirstOf, NoFiles, CopyWrite, CopyFails,
       Unlock, Goto
  <2>0. /\ \A q \in Requests :
             buf'[q] # Missing => buf'[q] = buf[q] /\ todo'[q] = todo[q]
        /\ \A g \in Files : cache'[g] # cache[g] =>
             /\ g = FirstOf(todo[r])
             /\ \/ cache'[g] = Blank
                \/ cache'[g] = buf[r] /\ buf'[r] = Missing
        /\ UNCHANGED <<answered, leftover>>
    BY <2>1, <1>18 DEF SyncInv, TypeOK, CopyWrite, CopyFails
  <2>18. \A q \in Requests : buf[q] # Missing => q = r
    BY <1>18 DEF SyncInv, LockInv, Working, CopyWrite
  <2>13. HandInv'
    <3>1. \A q \in Requests : buf'[q] \in Times => Blank <= buf'[q]
      OBVIOUS
    <3>2. ASSUME NEW q \in Requests, buf'[q] \in Times
          PROVE  /\ buf'[q] = buf[q] /\ todo'[q] = todo[q]
                 /\ \A g \in Files : cache'[g] = cache[g] \/ cache'[g] = Blank
      BY <3>2, <2>0, <2>18
    <3> QED
      BY <3>1, <3>2, <2>0 DEF SyncInv, HandInv, Files
  <2>14. AnswerInv'
    <3>1. CASE cache'["md"] = cache["md"]
      BY <3>1, <2>0 DEF SyncInv, AnswerInv
    <3>2. CASE cache'["md"] = Blank
      BY <3>2 DEF AnswerInv, Blank
    <3>3. CASE /\ FirstOf(todo[r]) = "md" /\ cache'["md"] = buf[r]
      <4>1. buf[r] > Blank => buf[r] \in Times
        BY <3>3 DEF SyncInv, TypeOK, SeenInv, Content, Missing, Blank
      <4> QED
        BY <3>3, <4>1, <2>0 DEF SyncInv, HandInv, AnswerInv
    <3> QED
      BY <3>1, <3>2, <3>3, <2>0 DEF Files
  <2>15. UndisturbedInv'
    BY <2>1, <2>2, <2>3, <2>4, <2>5, <2>6, <2>7, <1>18 DEF SyncInv, TypeOK,
       Content, Missing, Blank, Files, storeVars, cleanVars, copyVars,
       UndisturbedInv, LockInv, Working, FirstOf, Whole, CopyWrite,
       CopyFails, Unlock, Goto
  <2>16. WholeUnlessDisturbed'
    BY <1>18 DEF SyncInv, copyVars, WholeUnlessDisturbed, LockInv, Working,
       CopyWrite, CopyFails
  <2>17. StampBetween'
    <3> SUFFICES ASSUME cache'["meta"] \in Times, ~leftover
                 PROVE  /\ cache'["md"] <= cache'["meta"]
                        /\ cache'["aux"] > Blank =>
                             cache'["aux"] >= cache'["meta"]
      BY <2>0, <2>4 DEF StampBetween, Files, Content, Missing, Blank
    <3>1. \A f \in Files : cache[f] \in Int /\ cache'[f] \in Int
      BY <2>4 DEF SyncInv, TypeOK
    <3>2. CASE UNCHANGED cache
      BY <3>1, <3>2 DEF SyncInv, StampBetween, Files
    <3>3. CASE cache' # cache /\ FirstOf(todo[r]) = "md"
      <4>1. "md" \in todo[r]
        BY <3>3, <1>18 DEF FirstOf, CopyWrite, SyncInv, LockInv
      <4>2. cache["meta"] <= Blank
        BY <4>1 DEF SyncInv, AheadInv
      <4>3. cache'["meta"] = cache["meta"]
        BY <3>3, <2>0 DEF Files
      <4>4. cache'["meta"] > Blank
        OBVIOUS
      <4> QED
        BY <4>2, <4>3, <4>4, <3>1 DEF Files
    <3>4. CASE cache' # cache /\ FirstOf(todo[r]) = "meta"
      <4>1. /\ cache'["md"] = cache["md"] /\ cache'["aux"] = cache["aux"]
            /\ cache'["meta"] # cache["meta"] => cache'["meta"] = buf[r]
        BY <3>4, <2>0 DEF Files
      <4>2. todo[r] # {} /\ "meta" \in todo[r]
        BY <3>4, <1>18 DEF FirstOf, CopyWrite, SyncInv, LockInv
      <4>3. cache["aux"] <= Blank /\ cache["meta"] <= Blank
        BY <4>2 DEF SyncInv, AheadInv
      <4>4. cache'["meta"] > Blank
        OBVIOUS
      <4>5. cache'["meta"] = buf[r]
        BY <4>1, <4>3, <4>4, <3>1 DEF Files, Blank
      <4>6. cache["md"] <= buf[r]
        BY <3>4, <4>5 DEF SyncInv, HandInv
      <4>7. ~(cache'["aux"] > Blank)
        BY <4>1, <4>3, <3>1 DEF Files, Blank
      <4> QED
        BY <4>1, <4>5, <4>6, <4>7
    <3>5. CASE cache' # cache /\ FirstOf(todo[r]) = "aux"
      <4>1. /\ cache'["md"] = cache["md"] /\ cache'["meta"] = cache["meta"]
            /\ cache'["aux"] \in {cache["aux"], Blank, buf[r]}
        BY <3>5, <2>0 DEF Files
      <4>2. buf[r] > Blank => buf[r] \in Times
        BY <3>5 DEF SyncInv, TypeOK, SeenInv, Content, Missing, Blank
      <4> QED
        BY <3>5, <4>1, <4>2, <3>1 DEF SyncInv, HandInv, StampBetween, Files
    <3> QED
      BY <2>1, <3>2, <3>3, <3>4, <3>5 DEF Files
  <2> QED
    BY <2>8, <2>9, <2>10, <2>11, <2>12, <2>13, <2>14, <2>15, <2>16, <2>17 DEF
       SyncInv
<1>19. ASSUME NEW r \in Requests, CopyDone(r)
       PROVE  SyncInv'
  <2>1. StoreInv' /\ SeenInv' /\ HandInv' /\ AnswerInv' /\ StampBetween'
    BY <1>19 DEF SyncInv, StoreInv, SeenInv, HandInv, AnswerInv,
       StampBetween, storeVars, Seen, CopyDone
  <2>2. TypeOK'
    BY <1>19 DEF SyncInv, TypeOK, storeVars, cleanVars, copyVars, Content,
       Files, Missing, Blank, CopyDone, Unlock, Goto
  <2>3. LockInv'
    BY <1>19 DEF SyncInv, TypeOK, Content, Missing, Blank, Files, storeVars,
       cleanVars, copyVars, LockInv, Working, CopyDone, Unlock, Goto
  <2>4. AheadInv'
    BY <1>19 DEF SyncInv, TypeOK, Content, Missing, Blank, Files, storeVars,
       cleanVars, copyVars, AheadInv, LockInv, Working, FirstOf, NoFiles,
       CopyDone, Unlock, Goto
  <2>5. UndisturbedInv'
    BY <1>19 DEF SyncInv, TypeOK, Content, Missing, Blank, Files, storeVars,
       cleanVars, copyVars, UndisturbedInv, LockInv, Working, FirstOf, Whole,
       CopyDone, Unlock, Goto
  <2>6. WholeUnlessDisturbed'
    BY <1>19 DEF SyncInv, TypeOK, Content, Missing, Blank, Files, storeVars,
       cleanVars, copyVars, WholeUnlessDisturbed, LockInv, Working,
       UndisturbedInv, Whole, Copying, CopyDone, Unlock, Goto
  <2> QED
    BY <2>1, <2>2, <2>3, <2>4, <2>5, <2>6 DEF SyncInv
<1>20. ASSUME NEW r \in Requests, Answer(r)
       PROVE  SyncInv'
  <2>1. StoreInv' /\ WholeUnlessDisturbed' /\ StampBetween'
    BY <1>20 DEF SyncInv, StoreInv, WholeUnlessDisturbed, StampBetween,
       storeVars, copyVars, Answer
  <2>2. TypeOK'
    BY <1>20 DEF SyncInv, TypeOK, storeVars, cleanVars, copyVars, Content,
       Files, Missing, Blank, Answer, Goto
  <2>3. LockInv'
    BY <1>20 DEF SyncInv, TypeOK, Content, Missing, Blank, Files, storeVars,
       cleanVars, copyVars, LockInv, Working, Answer, Goto
  <2>4. SeenInv'
    BY <1>20 DEF SyncInv, TypeOK, Content, Missing, Blank, Files, storeVars,
       cleanVars, copyVars, SeenInv, Seen, StoreInv, Answer, Goto
  <2>5. AheadInv'
    BY <1>20 DEF SyncInv, TypeOK, Content, Missing, Blank, Files, storeVars,
       cleanVars, copyVars, AheadInv, LockInv, Working, FirstOf, NoFiles,
       Answer, Goto
  <2>6. HandInv'
    BY <1>20 DEF SyncInv, TypeOK, Content, Missing, Blank, copyVars, HandInv,
       AheadInv, FirstOf, Answer
  <2>7. AnswerInv'
    BY <1>20 DEF SyncInv, TypeOK, Content, Missing, Blank, Files, storeVars,
       cleanVars, copyVars, AnswerInv, HandInv, AheadInv, LockInv, FirstOf,
       Answer, Goto
  <2>8. UndisturbedInv'
    BY <1>20 DEF SyncInv, TypeOK, Content, Missing, Blank, Files, storeVars,
       cleanVars, copyVars, UndisturbedInv, LockInv, Working, FirstOf, Whole,
       Answer, Goto
  <2> QED
    BY <2>1, <2>2, <2>3, <2>4, <2>5, <2>6, <2>7, <2>8 DEF SyncInv
<1>21. ASSUME Crash
       PROVE  SyncInv'
  <2>1. disturbed \/ Copying => disturbed'
    BY <1>21 DEF Crash
  <2>2. mu # None => Copying
    BY <2>1, <1>21 DEF Copying, Working, SyncInv, TypeOK, LockInv
  <2>3. faults' \in 0 .. MaxFaults
    BY <2>1, <2>2, <1>21 DEF SyncInv, TypeOK, Crash
  <2>4. /\ UNCHANGED <<store, storeDir, latest, cache, cacheDir, cleans,
                       leftover, answered>>
        /\ deploy' = "idle" /\ cleaning' = FALSE
    BY <2>1, <2>2, <2>3, <1>21 DEF Crash
  <2>5. disturbed' \in BOOLEAN
    BY <2>1, <2>2, <2>3, <2>4, <1>21 DEF SyncInv, TypeOK, Crash, Copying
  <2>6. buf' \in [Requests -> Content]
    BY <2>1, <2>2, <2>3, <2>4, <2>5, <1>21 DEF SyncInv, TypeOK, Content,
       Missing, Blank, Crash
  <2>7. todo' \in [Requests -> SUBSET Files]
    BY <2>1, <2>2, <2>3, <2>4, <2>5, <2>6, <1>21 DEF SyncInv, TypeOK, Crash
  <2>8. /\ pc' \in [Requests -> {"idle", "compare", "lock", "clear", "list",
                             "copy", "answer"}]
        /\ mu' \in Requests \cup {None}
    BY <2>1, <2>2, <2>3, <2>4, <2>5, <2>6, <2>7, <1>21 DEF SyncInv, TypeOK,
       Crash
  <2>9. AnswerInv' /\ StampBetween'
    BY <2>4 DEF SyncInv, AnswerInv, StampBetween
  <2>18. stamp' \in [Requests -> Content]
    BY <1>21 DEF Crash, Content
  <2>10. TypeOK'
    BY <2>3, <2>4, <2>5, <2>6, <2>7, <2>8, <2>18 DEF SyncInv, TypeOK
  <2>11. LockInv'
    BY <2>1, <2>2, <2>3, <2>4, <2>5, <2>6, <2>7, <2>8, <1>21 DEF SyncInv,
       TypeOK, Content, Missing, Blank, Files, storeVars, cleanVars,
       copyVars, LockInv, Working, Crash, Copying
  <2>12. StoreInv'
    BY <2>1, <2>2, <2>3, <2>4, <2>5, <2>6, <2>7, <2>8, <1>21 DEF SyncInv,
       TypeOK, Content, Missing, Blank, Files, storeVars, cleanVars,
       copyVars, StoreInv, NoFiles, Crash, Copying
  <2>13. SeenInv'
    BY <2>1, <2>2, <2>3, <2>4, <2>5, <2>6, <2>7, <2>8, <1>21 DEF SyncInv,
       TypeOK, Content, Missing, Blank, Files, storeVars, cleanVars,
       copyVars, SeenInv, Seen, StoreInv, Crash, Copying
  <2>14. AheadInv'
    BY <2>1, <2>2, <2>3, <2>4, <2>5, <2>6, <2>7, <2>8, <1>21 DEF SyncInv,
       TypeOK, Content, Missing, Blank, Files, storeVars, cleanVars,
       copyVars, AheadInv, LockInv, Working, FirstOf, NoFiles, Crash, Copying
  <2>15. HandInv'
    BY <1>21 DEF Missing, Blank, HandInv, Crash
  <2>16. UndisturbedInv'
    BY <2>1, <2>2, <2>3, <2>4, <2>5, <2>6, <2>7, <2>8, <1>21 DEF SyncInv,
       TypeOK, Content, Missing, Blank, Files, storeVars, cleanVars,
       copyVars, UndisturbedInv, LockInv, Working, FirstOf, Whole, Crash,
       Copying
  <2>17. WholeUnlessDisturbed'
    BY <2>1, <2>2, <2>3, <2>4, <2>5, <2>6, <2>7, <2>8, <1>21 DEF SyncInv,
       WholeUnlessDisturbed
  <2> QED
    BY <2>9, <2>10, <2>11, <2>12, <2>13, <2>14, <2>15, <2>16, <2>17 DEF
       SyncInv
<1>22. ASSUME DeployOwn
       PROVE  SyncInv'
  <2>1. /\ LockInv' /\ AheadInv' /\ HandInv' /\ AnswerInv'
        /\ WholeUnlessDisturbed' /\ StampBetween'
    BY <1>22 DEF SyncInv, LockInv, AheadInv, HandInv, AnswerInv,
       WholeUnlessDisturbed, StampBetween, copyVars, Working, DeployOwn
  <2>2. TypeOK'
    BY <1>22 DEF SyncInv, TypeOK, storeVars, cleanVars, copyVars, Content,
       Files, Missing, Blank, DeployOwn
  <2>3. StoreInv'
    BY <1>22 DEF SyncInv, TypeOK, Content, Missing, Blank, Files, storeVars,
       cleanVars, copyVars, StoreInv, NoFiles, DeployOwn
  <2>4. SeenInv'
    BY <1>22 DEF SyncInv, TypeOK, Content, Missing, Blank, Files, storeVars,
       cleanVars, copyVars, SeenInv, Seen, StoreInv, DeployOwn
  <2>5. UndisturbedInv'
    BY <1>22 DEF SyncInv, TypeOK, Content, Missing, Blank, Files, storeVars,
       cleanVars, copyVars, UndisturbedInv, LockInv, Working, FirstOf, Whole,
       DeployOwn
  <2> QED
    BY <2>1, <2>2, <2>3, <2>4, <2>5 DEF SyncInv
<1>23. ASSUME NEW r \in Requests, ClearFails(r)
       PROVE  SyncInv'
  <2>1. /\ StoreInv' /\ SeenInv' /\ HandInv' /\ AnswerInv'
        /\ WholeUnlessDisturbed' /\ StampBetween' /\ AheadInv'
    BY <1>23 DEF SyncInv, StoreInv, SeenInv, HandInv, AnswerInv, AheadInv,
       WholeUnlessDisturbed, StampBetween, storeVars, Seen, ClearFails
  <2>2. TypeOK'
    BY <1>23 DEF SyncInv, TypeOK, storeVars, cleanVars, copyVars, Content,
       Files, Missing, Blank, ClearFails, Goto
  <2>3. LockInv'
    BY <1>23 DEF SyncInv, TypeOK, Content, Missing, Blank, Files, storeVars,
       cleanVars, LockInv, Working, ClearFails, Goto
  <2>4. UndisturbedInv'
    BY <1>23 DEF SyncInv, TypeOK, Content, Missing, Blank, Files, storeVars,
       cleanVars, UndisturbedInv, LockInv, Working, FirstOf, Whole,
       ClearFails, Goto
  <2> QED
    BY <2>1, <2>2, <2>3, <2>4 DEF SyncInv
<1>24. ASSUME UNCHANGED vars
       PROVE  SyncInv'
  <2>1. /\ TypeOK' /\ LockInv' /\ StoreInv' /\ SeenInv' /\ AheadInv'
        /\ HandInv' /\ AnswerInv' /\ UndisturbedInv'
        /\ WholeUnlessDisturbed' /\ StampBetween'
    BY <1>24 DEF SyncInv, TypeOK, LockInv, StoreInv, SeenInv, AheadInv,
       HandInv, AnswerInv, UndisturbedInv, WholeUnlessDisturbed,
       StampBetween, storeVars, cleanVars, copyVars, Working, Seen, vars
  <2> QED
    BY <2>1 DEF SyncInv
<1> QED
  BY <1>1, <1>2, <1>3, <1>4, <1>5, <1>6, <1>7, <1>8, <1>9, <1>10, <1>11,
     <1>12, <1>13, <1>14, <1>15, <1>16, <1>17, <1>18, <1>19, <1>20, <1>21,
     <1>22, <1>23, <1>24 DEF Next, DeployStep, CleanStep, RequestStep

(* Every reachable state satisfies the invariant.                          *)
LEMMA InvAlways == Spec => []SyncInv
BY InitInv, NextInv, PTL DEF Spec

(* Types are kept, whatever fails or is killed (skill.go:354-431).         *)
THEOREM SyncTypeCorrect == Spec => []TypeOK
<1>1. SyncInv => TypeOK
  BY DEF SyncInv
<1> QED
  BY <1>1, InvAlways, PTL

(* However many requests race to copy a skill, a stamped copy that nothing *)
(* disturbed is of one deployment (skill.go:390-399, registry.go:107-130). *)
THEOREM StampedAlwaysWhole == Spec => []WholeUnlessDisturbed
<1>1. SyncInv => WholeUnlessDisturbed
  BY DEF SyncInv
<1> QED
  BY <1>1, InvAlways, PTL

(* Disturbed or not, what a copy has is no newer than a deployment's stamp *)
(* as far as it was copied before it, and no older after it, unless files  *)
(* were left in its way (skill.go:390-399).                                *)
THEOREM StampAlwaysBetween == Spec => []StampBetween
<1>1. SyncInv => StampBetween
  BY DEF SyncInv
<1> QED
  BY <1>1, InvAlways, PTL

(* The answers given for a skill never go back to an older deployment: an  *)
(* answer comes after copying, and copies come one after the other         *)
(* (skill.go:354-388).                                                     *)
THEOREM AnswersAlwaysGoForward == Spec => AnswersNeverGoBack
<1>1. ASSUME SyncInv, [Next]_vars
      PROVE  [\A r \in Requests :
                Answer(r) /\ cache["md"] > Blank =>
                  answered <= cache["md"]]_vars
  BY <1>1 DEF SyncInv, AnswerInv
<1> QED
  BY <1>1, InvAlways, PTL DEF Spec, AnswersNeverGoBack
=============================================================================
