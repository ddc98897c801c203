----------------------- MODULE ClientListCacheProofs -----------------------
(***************************************************************************)
(* Theorems about ClientListCache, for any callers, keys and agents, any   *)
(* TTL and timeout, and with or without a bound on time and deletions: the *)
(* types, that the cache implements StaleReads, and that an outdated       *)
(* answer had a deletion beside it.                                        *)
(***************************************************************************)
EXTENDS ClientListCache, TLAPS

Calls == {"check", "do", "wait"}

(* The types, and whom the pieces of state are about.                      *)
Busy ==
  \A c \in Callers :
    /\ pc[c] \in Calls => key[c] \in Keys
    /\ pc[c] \in {"delete", "deleted"} => agent[c] \in Agents

Shared ==
  \A k \in Keys : flight[k] # None =>
    \A c \in flight[k].waiting : pc[c] = "wait" /\ key[c] = k

Typed == CacheTypeOK /\ Busy /\ Shared

(* What the mark for absence is not.                                       *)
LEMMA Absence ==
  /\ \A e \in Entry : e # None
  /\ \A f \in Flight : f # None
  /\ \A g \in Answered : g # None
  /\ \A n \in Nat : n # None
BY NoneAssumption

(* The idle client.                                                        *)
LEMMA InitTyped == Init => Typed
BY CacheAssumption DEF Init, Typed, Busy, Shared, CacheTypeOK, Calls, Nobody

(* The pieces of the records that the actions put together.                *)
LEMMA FlightFields ==
  ASSUME Typed, NEW k \in Keys, flight[k] # None
  PROVE  /\ flight[k] \in Flight
         /\ flight[k].waiting \subseteq Callers
         /\ flight[k].began \in Nat
         /\ flight[k].overlapped \in BOOLEAN
         /\ flight[k].step \in {"post", "store", "end"}
         /\ flight[k].answer \in Answer
         /\ flight[k].answer.from \in Nat
         /\ flight[k].answer.epoch \in Nat
         /\ Fetched(k) \in Answer
         /\ Fetched(k).from = flight[k].answer.from
         /\ Fetched(k).epoch = flight[k].answer.epoch
         /\ Fetched(k).overlapped = flight[k].overlapped
<1>1. flight[k] \in Flight
  BY DEF Typed, Busy, Shared, CacheTypeOK
<1> QED
  BY <1>1 DEF Flight, Answer, Fetched

LEMMA EntryFields ==
  ASSUME Typed, NEW k \in Keys, cache[k] # None
  PROVE  /\ cache[k] \in Entry
         /\ cache[k].expires \in Nat
         /\ cache[k].answer \in Answer
         /\ cache[k].answer.from \in Nat
         /\ cache[k].answer.epoch \in Nat
<1>1. cache[k] \in Entry
  BY DEF Typed, Busy, Shared, CacheTypeOK
<1> QED
  BY <1>1 DEF Entry, Answer

LEMMA GivenTyped ==
  ASSUME Typed, NEW c \in Callers, NEW a \in Answer
  PROVE  /\ Given(c, a) \in Answered
         /\ Given(c, a).answer = a
         /\ Given(c, a).since = since[c]
BY DEF Typed, Busy, Shared, CacheTypeOK, Given, Answered

-----------------------------------------------------------------------------
(* Type correctness. *)

(* Every action keeps the types, and whom the state is about.              *)
LEMMA NextTyped ==
  ASSUME Typed, [Next]_vars
  PROVE  Typed'
<1>0. /\ Nobody \in [Callers -> Answered \cup {None}]
      /\ AgentOf \in [Keys -> Agents]
      /\ TTL \in Nat
  BY CacheAssumption DEF Nobody
<1> USE <1>0
<1>1. ASSUME NEW c \in Callers, NEW k \in Keys, ListBegin(c, k)
      PROVE  Typed'
  BY <1>1 DEF Typed, Busy, Shared, CacheTypeOK, ListBegin, Go, Calls, deleteVars
<1>2. ASSUME NEW c \in Callers, Hit(c)
      PROVE  Typed'
  <2>1. key[c] \in Keys /\ cache[key[c]] # None
    BY <1>2 DEF Hit, Valid, Typed, Busy, Calls
  <2>2. Given(c, cache[key[c]].answer) \in Answered
    BY <2>1, EntryFields, GivenTyped
  <2> QED
    BY <1>2, <2>2 DEF Typed, Busy, Shared, CacheTypeOK, Hit, Go, Calls, deleteVars
<1>3. ASSUME NEW c \in Callers, Miss(c)
      PROVE  Typed'
  BY <1>3 DEF Typed, Busy, Shared, CacheTypeOK, Miss, Go, Calls, deleteVars, listVars
<1>4. ASSUME NEW c \in Callers, Lead(c)
      PROVE  Typed'
  <2>1. key[c] \in Keys
    BY <1>4 DEF Lead, Typed, Busy, Calls
  <2> DEFINE f == [began |-> now, overlapped |-> Deleting(AgentOf[key[c]]),
                   waiting |-> {c}, step |-> "post", answer |-> NoAnswer]
  <2>2. Deleting(AgentOf[key[c]]) \in BOOLEAN
    BY DEF Deleting
  <2>3. f \in Flight /\ f.waiting = {c}
    BY <2>2 DEF Typed, Busy, Shared, CacheTypeOK, Flight, NoAnswer, Answer
  <2>4. flight' = [flight EXCEPT ![key[c]] = f]
    BY <1>4 DEF Lead
  <2> HIDE DEF f
  <2>5. flight' \in [Keys -> Flight \cup {None}]
    BY <2>1, <2>3, <2>4 DEF Typed, CacheTypeOK
  <2>6. /\ pc' = [pc EXCEPT ![c] = "wait"] /\ given' = Nobody
        /\ UNCHANGED <<now, key, cache, since, deleteVars>>
    BY <1>4 DEF Lead, Go
  <2>8. CacheTypeOK'
    BY <2>5, <2>6 DEF Typed, CacheTypeOK, deleteVars
  <2>9. Busy'
    BY <2>6, <1>4 DEF Typed, CacheTypeOK, Busy, Lead, Calls, deleteVars
  <2>7. Shared'
    BY <1>4, <2>1, <2>3, <2>4 DEF Typed, CacheTypeOK, Shared, Lead, Go
  <2> QED
    BY <2>7, <2>8, <2>9 DEF Typed
<1>5. ASSUME NEW c \in Callers, Join(c)
      PROVE  Typed'
  <2>1. key[c] \in Keys /\ flight[key[c]] # None
    BY <1>5 DEF Join, Typed, Busy, Calls
  <2>2. flight[key[c]] \in Flight
    BY <2>1, FlightFields
  <2> DEFINE f == [flight[key[c]] EXCEPT !.waiting = @ \cup {c}]
  <2>3. f \in Flight /\ f.waiting = flight[key[c]].waiting \cup {c}
    BY <2>2 DEF Flight
  <2>4. flight' = [flight EXCEPT ![key[c]] = f]
    BY <1>5 DEF Join
  <2> HIDE DEF f
  <2>5. flight' \in [Keys -> Flight \cup {None}]
    BY <2>1, <2>3, <2>4 DEF Typed, CacheTypeOK
  <2>6. /\ pc' = [pc EXCEPT ![c] = "wait"] /\ given' = Nobody
        /\ UNCHANGED <<now, key, cache, since, deleteVars>>
    BY <1>5 DEF Join, Go
  <2>8. CacheTypeOK'
    BY <2>5, <2>6 DEF Typed, CacheTypeOK, deleteVars
  <2>9. Busy'
    BY <2>6, <1>5 DEF Typed, CacheTypeOK, Busy, Join, Calls, deleteVars
  <2>7. Shared'
    BY <1>5, <2>1, <2>3, <2>4 DEF Typed, CacheTypeOK, Shared, Join, Go
  <2> QED
    BY <2>7, <2>8, <2>9 DEF Typed
<1>6. ASSUME NEW k \in Keys, Posted(k)
      PROVE  Typed'
  <2> DEFINE a == [from |-> now, epoch |-> epoch[AgentOf[k]], overlapped |-> FALSE]
             f == [flight[k] EXCEPT !.step = "store", !.answer = a]
  <2>1. flight[k] \in Flight
    BY <1>6, FlightFields DEF Posted
  <2>2. a \in Answer
    BY DEF Typed, Busy, Shared, CacheTypeOK, Answer
  <2>3. f \in Flight /\ f.waiting = flight[k].waiting
    BY <2>1, <2>2 DEF Flight
  <2>4. flight' = [flight EXCEPT ![k] = f]
    BY <1>6 DEF Posted
  <2> HIDE DEF f
  <2>5. flight' \in [Keys -> Flight \cup {None}]
    BY <2>3, <2>4 DEF Typed, CacheTypeOK
  <2>6. given' = Nobody /\ UNCHANGED <<now, pc, key, cache, since, deleteVars>>
    BY <1>6 DEF Posted
  <2>8. CacheTypeOK'
    BY <2>5, <2>6 DEF Typed, CacheTypeOK, deleteVars
  <2>9. Busy'
    BY <2>6 DEF Typed, Busy, deleteVars
  <2>7. Shared'
    BY <1>6, <2>1, <2>3, <2>4, Absence DEF Typed, CacheTypeOK, Shared, Posted, Go
  <2> QED
    BY <2>7, <2>8, <2>9 DEF Typed
<1>7. ASSUME NEW k \in Keys, flight[k] # None, Released(k),
             UNCHANGED <<now, cache, deleteVars>>,
             given' \in [Callers -> Answered \cup {None}]
      PROVE  Typed'
  BY <1>7, FlightFields DEF Typed, Busy, Shared, CacheTypeOK, Released, Calls, deleteVars
<1>8. ASSUME NEW k \in Keys, PostFails(k)
      PROVE  Typed'
  BY <1>7, <1>8 DEF PostFails
<1>9. ASSUME NEW k \in Keys, Store(k)
      PROVE  Typed'
  <2> DEFINE e == [answer |-> Fetched(k), expires |-> now + TTL]
             f == [flight[k] EXCEPT !.step = "end"]
  <2>1. flight[k] \in Flight /\ Fetched(k) \in Answer
    BY <1>9, FlightFields DEF Store
  <2>2. e \in Entry
    BY <2>1 DEF Typed, Busy, Shared, CacheTypeOK, Entry
  <2>3. f \in Flight /\ f.waiting = flight[k].waiting
    BY <2>1 DEF Flight
  <2>4. /\ flight' = [flight EXCEPT ![k] = f]
        /\ cache' = [j \in Keys |-> IF j = k THEN e ELSE Evicted(cache[j])]
    BY <1>9 DEF Store
  <2> HIDE DEF e, f
  <2>5. cache' \in [Keys -> Entry \cup {None}]
    BY <2>2, <2>4 DEF Typed, Busy, Shared, CacheTypeOK, Evicted
  <2> QED
    BY <1>9, <2>1, <2>3, <2>4, <2>5, Absence
    DEF Typed, Busy, Shared, CacheTypeOK, Store, Calls, deleteVars
<1>10. ASSUME NEW k \in Keys, FlightEnds(k)
       PROVE  Typed'
  <2>1. Fetched(k) \in Answer
    BY <1>10, FlightFields DEF FlightEnds
  <2>2. given' \in [Callers -> Answered \cup {None}]
    BY <1>10, <2>1, GivenTyped DEF FlightEnds
  <2> QED
    BY <1>7, <1>10, <2>2 DEF FlightEnds
<1>11. ASSUME NEW c \in Callers, NEW a \in Agents, DeleteBegin(c, a)
       PROVE  Typed'
  <2> DEFINE f(k) == [flight[k] EXCEPT !.overlapped = TRUE]
  <2>1. \A k \in Keys : flight[k] # None =>
          f(k) \in Flight /\ f(k).waiting = flight[k].waiting
    BY FlightFields DEF Flight
  <2>2. flight' = [k \in Keys |-> IF AgentOf[k] = a /\ flight[k] # None
                                  THEN f(k) ELSE flight[k]]
    BY <1>11 DEF DeleteBegin
  <2> HIDE DEF f
  <2>5. flight' \in [Keys -> Flight \cup {None}]
    BY <2>1, <2>2 DEF Typed, CacheTypeOK
  <2>6. /\ pc[c] = "idle" /\ pc' = [pc EXCEPT ![c] = "delete"]
        /\ agent' = [agent EXCEPT ![c] = a] /\ given' = Nobody
        /\ UNCHANGED <<now, key, cache, since, handled, epoch, invalidated>>
    BY <1>11 DEF DeleteBegin, Go
  <2>8. CacheTypeOK'
    BY <2>5, <2>6 DEF Typed, CacheTypeOK
  <2>9. Busy'
    BY <2>6 DEF Typed, CacheTypeOK, Busy, Calls
  <2>7. Shared'
    BY <1>11, <2>1, <2>2 DEF Typed, CacheTypeOK, Shared, DeleteBegin, Go
  <2> QED
    BY <2>7, <2>8, <2>9 DEF Typed
<1>12. ASSUME NEW c \in Callers, Deleted(c)
       PROVE  Typed'
  BY <1>12 DEF Typed, Busy, Shared, CacheTypeOK, Deleted, Go, Calls, listVars
<1>13. ASSUME NEW c \in Callers, DeleteFails(c)
       PROVE  Typed'
  BY <1>13 DEF Typed, Busy, Shared, CacheTypeOK, DeleteFails, DeleteReturns, Go, Calls, listVars
<1>14. ASSUME NEW c \in Callers, Invalidate(c)
       PROVE  Typed'
  <2>1. cache' \in [Keys -> Entry \cup {None}]
    BY <1>14 DEF Typed, Busy, Shared, CacheTypeOK, Invalidate, Dropped
  <2>2. invalidated' \in [Agents -> Nat]
    BY <1>14 DEF Typed, Busy, Shared, CacheTypeOK, Invalidate, Later
  <2> QED
    BY <1>14, <2>1, <2>2 DEF Typed, Busy, Shared, CacheTypeOK, Invalidate, DeleteReturns, Go, Calls
<1>15. CASE Tick
  BY <1>15 DEF Typed, Busy, Shared, CacheTypeOK, Tick, Calls, deleteVars, listVars
<1>16. CASE UNCHANGED vars
  BY <1>16 DEF Typed, Busy, Shared, CacheTypeOK, Calls, vars, deleteVars, listVars
<1> QED
  BY <1>1, <1>2, <1>3, <1>4, <1>5, <1>6, <1>8, <1>9, <1>10, <1>11, <1>12,
     <1>13, <1>14, <1>15, <1>16
  DEF Next, Call, Request

(* Types are kept: every variable of the cache has its type in every state *)
(* (client/client.go:27-36, client/skill.go:48-143).                       *)
THEOREM CacheTypeCorrect == Spec => []CacheTypeOK
<1>1. Spec => []Typed
  BY InitTyped, NextTyped, PTL DEF Spec
<1>2. Typed => CacheTypeOK
  BY DEF Typed, Busy, Shared
<1> QED
  BY <1>1, <1>2, PTL

-----------------------------------------------------------------------------
(* How old answers are. *)

(* The times of cache entries and of requests: an entry expires no later   *)
(* than TTL after it was stored, which is no later than Timeout after its  *)
(* request was posted, which is no later than the server made the list.    *)
CacheRecent ==
  \A k \in Keys : cache[k] # None =>
    /\ cache[k].answer.from <= now
    /\ cache[k].expires <= cache[k].answer.from + (TTL + Timeout)

FlightRecent ==
  \A k \in Keys : flight[k] # None =>
    /\ flight[k].began <= now /\ now <= flight[k].began + Timeout
    /\ flight[k].step # "post" =>
         /\ flight[k].began <= flight[k].answer.from
         /\ flight[k].answer.from <= now

Recent == Typed /\ CacheRecent /\ FlightRecent

(* No request and no entry: no time to speak of.                           *)
LEMMA InitRecent == Init => Recent
BY InitTyped DEF Init, Recent, CacheRecent, FlightRecent

(* Actions that leave time and the cache alone and put a fitting request   *)
(* at one key.                                                             *)
LEMMA OneFlightRecent ==
  ASSUME Recent, NEW k \in Keys, NEW f, UNCHANGED now,
         flight' = [flight EXCEPT ![k] = f],
         f = None \/ (/\ f.began <= now /\ now <= f.began + Timeout
                      /\ f.step # "post" => /\ f.began <= f.answer.from
                                            /\ f.answer.from <= now)
  PROVE  FlightRecent'
BY DEF Recent, FlightRecent, Typed, CacheTypeOK

(* Every action keeps the times; what matters is that time stands still    *)
(* when a request is at its limit (Tick).                                  *)
LEMMA NextRecent ==
  ASSUME Recent, [Next]_vars
  PROVE  Recent'
<1>0. Typed /\ Typed' /\ now \in Nat /\ TTL \in Nat /\ Timeout \in Nat
  BY NextTyped, CacheAssumption DEF Recent, Typed, CacheTypeOK
<1>1. ASSUME UNCHANGED <<now, cache>>
      PROVE  CacheRecent'
  BY <1>1 DEF Recent, CacheRecent
<1>2. ASSUME UNCHANGED <<now, flight>>
      PROVE  FlightRecent'
  BY <1>2 DEF Recent, FlightRecent
<1>3. ASSUME NEW c \in Callers, Lead(c)
      PROVE  CacheRecent' /\ FlightRecent'
  <2> DEFINE f == [began |-> now, overlapped |-> Deleting(AgentOf[key[c]]),
                   waiting |-> {c}, step |-> "post", answer |-> NoAnswer]
  <2>1. /\ key[c] \in Keys /\ UNCHANGED <<now, cache>>
        /\ flight' = [flight EXCEPT ![key[c]] = f]
    BY <1>0, <1>3 DEF Lead, Typed, Busy, Calls
  <2>2. f.began <= now /\ now <= f.began + Timeout /\ f.step = "post"
    BY <1>0
  <2> HIDE DEF f
  <2> QED
    BY <1>1, <2>1, <2>2, OneFlightRecent
<1>4. ASSUME NEW c \in Callers, Join(c)
      PROVE  CacheRecent' /\ FlightRecent'
  <2> DEFINE f == [flight[key[c]] EXCEPT !.waiting = @ \cup {c}]
  <2>1. /\ key[c] \in Keys /\ flight[key[c]] # None
        /\ UNCHANGED <<now, cache>>
        /\ flight' = [flight EXCEPT ![key[c]] = f]
    BY <1>0, <1>4 DEF Join, Typed, Busy, Calls
  <2>2. /\ f.began = flight[key[c]].began /\ f.step = flight[key[c]].step
        /\ f.answer = flight[key[c]].answer
    BY <1>0, <2>1, FlightFields DEF Flight
  <2> HIDE DEF f
  <2>3. /\ f.began <= now /\ now <= f.began + Timeout
        /\ f.step # "post" =>
             f.began <= f.answer.from /\ f.answer.from <= now
    BY <2>1, <2>2 DEF Recent, FlightRecent
  <2> QED
    BY <1>1, <2>1, <2>3, OneFlightRecent
<1>5. ASSUME NEW k \in Keys, Posted(k)
      PROVE  CacheRecent' /\ FlightRecent'
  <2> DEFINE a == [from |-> now, epoch |-> epoch[AgentOf[k]],
                   overlapped |-> FALSE]
             f == [flight[k] EXCEPT !.step = "store", !.answer = a]
  <2>1. /\ flight[k] # None /\ UNCHANGED <<now, cache>>
        /\ flight' = [flight EXCEPT ![k] = f]
    BY <1>5 DEF Posted
  <2>2. f.began = flight[k].began /\ f.answer = a /\ a.from = now
    BY <1>0, <2>1, FlightFields DEF Flight
  <2> HIDE DEF f, a
  <2>3. /\ f.began <= now /\ now <= f.began + Timeout
        /\ f.began <= f.answer.from /\ f.answer.from <= now
    BY <1>0, <2>1, <2>2 DEF Recent, FlightRecent
  <2> QED
    BY <1>1, <2>1, <2>3, OneFlightRecent
<1>6. ASSUME NEW k \in Keys, Released(k), UNCHANGED <<now, cache>>
      PROVE  CacheRecent' /\ FlightRecent'
  BY <1>1, <1>6, OneFlightRecent DEF Released
<1>7. ASSUME NEW k \in Keys, Store(k)
      PROVE  CacheRecent' /\ FlightRecent'
  <2> DEFINE e == [answer |-> Fetched(k), expires |-> now + TTL]
             f == [flight[k] EXCEPT !.step = "end"]
  <2>1. /\ flight[k] # None /\ flight[k].step = "store" /\ UNCHANGED now
        /\ flight' = [flight EXCEPT ![k] = f]
        /\ cache' = [j \in Keys |-> IF j = k THEN e ELSE Evicted(cache[j])]
    BY <1>7 DEF Store
  <2>2. /\ f.began = flight[k].began /\ f.answer = flight[k].answer
        /\ f.step = "end" /\ f.began \in Nat /\ f.answer.from \in Nat
        /\ e.answer.from = f.answer.from /\ e.expires = now + TTL
    BY <1>0, <2>1, FlightFields DEF Flight
  <2> HIDE DEF e, f
  <2>3. /\ f.began <= now /\ now <= f.began + Timeout
        /\ f.began <= f.answer.from /\ f.answer.from <= now
    BY <2>1, <2>2 DEF Recent, FlightRecent
  <2>4. e.expires <= e.answer.from + (TTL + Timeout)
    BY <1>0, <2>2, <2>3
  <2>5. \A j \in Keys : cache'[j] # None => cache'[j] = e \/ cache'[j] = cache[j]
    BY <2>1 DEF Evicted
  <2>6. CacheRecent'
    BY <2>1, <2>2, <2>3, <2>4, <2>5 DEF Recent, CacheRecent, Evicted
  <2> QED
    BY <2>1, <2>3, <2>6, OneFlightRecent
<1>8. ASSUME NEW c \in Callers, NEW a \in Agents, DeleteBegin(c, a)
      PROVE  CacheRecent' /\ FlightRecent'
  <2> DEFINE f(k) == [flight[k] EXCEPT !.overlapped = TRUE]
  <2>1. \A k \in Keys : flight[k] # None =>
          /\ f(k).began = flight[k].began /\ f(k).step = flight[k].step
          /\ f(k).answer = flight[k].answer
    BY <1>0, FlightFields DEF Flight
  <2>2. /\ UNCHANGED <<now, cache>>
        /\ flight' = [k \in Keys |-> IF AgentOf[k] = a /\ flight[k] # None
                                     THEN f(k) ELSE flight[k]]
    BY <1>8 DEF DeleteBegin
  <2> HIDE DEF f
  <2> QED
    BY <1>1, <2>1, <2>2 DEF Recent, FlightRecent
<1>9. ASSUME NEW c \in Callers, Invalidate(c)
      PROVE  CacheRecent' /\ FlightRecent'
  <2>1. UNCHANGED <<now, flight>> /\ cache' = Dropped(agent[c])
    BY <1>9 DEF Invalidate
  <2> QED
    BY <1>2, <2>1 DEF Recent, CacheRecent, Dropped
<1>10. ASSUME Tick
       PROVE  CacheRecent' /\ FlightRecent'
  <2>1. /\ UNCHANGED <<cache, flight>> /\ now' = now + 1
        /\ \A k \in Keys : flight[k] # None => now < flight[k].began + Timeout
    BY <1>10 DEF Tick, listVars
  <2>2. CacheRecent'
    <3> SUFFICES ASSUME NEW k \in Keys, cache[k] # None
                 PROVE  /\ cache[k].answer.from <= now + 1
                        /\ cache[k].expires <=
                             cache[k].answer.from + (TTL + Timeout)
      BY <2>1 DEF CacheRecent
    <3> QED
      BY <1>0, EntryFields DEF Recent, CacheRecent
  <2>3. FlightRecent'
    <3> SUFFICES ASSUME NEW k \in Keys, flight[k] # None
                 PROVE  /\ flight[k].began <= now + 1
                        /\ now + 1 <= flight[k].began + Timeout
                        /\ flight[k].step # "post" =>
                             /\ flight[k].began <= flight[k].answer.from
                             /\ flight[k].answer.from <= now + 1
      BY <2>1 DEF FlightRecent
    <3> QED
      BY <1>0, <2>1, FlightFields DEF Recent, FlightRecent
  <2> QED
    BY <2>2, <2>3
<1>11. ASSUME NEW c \in Callers, NEW k \in Keys, ListBegin(c, k)
       PROVE  CacheRecent' /\ FlightRecent'
  BY <1>1, <1>2, <1>11 DEF ListBegin
<1>12. ASSUME NEW c \in Callers,
              Hit(c) \/ Miss(c) \/ Deleted(c) \/ DeleteFails(c)
       PROVE  CacheRecent' /\ FlightRecent'
  BY <1>1, <1>2, <1>12 DEF Hit, Miss, Deleted, DeleteFails, listVars
<1>13. ASSUME UNCHANGED vars
       PROVE  CacheRecent' /\ FlightRecent'
  BY <1>1, <1>2, <1>13 DEF vars, listVars
<1>14. CacheRecent' /\ FlightRecent'
  BY <1>3, <1>4, <1>5, <1>6, <1>7, <1>8, <1>9, <1>10, <1>11, <1>12, <1>13
  DEF Next, Call, Request, PostFails, FlightEnds
<1> QED
  BY <1>0, <1>14 DEF Recent

-----------------------------------------------------------------------------
(* The cache implements StaleReads. *)

Moments ==
  [c \in Callers |-> IF given[c] = None THEN None ELSE given[c].answer.from]

(* A step that answers nobody, and after which the callers of S wait no    *)
(* more, is one in which their calls fail; with nobody in S, it is one the *)
(* abstract specification does not see.                                    *)
LEMMA Quiet ==
  ASSUME NEW S \in SUBSET Callers, S \subseteq Listing,
         Listing' = Listing \ S, given' = Nobody, UNCHANGED now
  PROVE  Reads!Next
<1>1. Moments' = Reads!Nobody
  BY DEF Nobody, Moments, Reads!Nobody
<1> QED
  BY <1>1 DEF Reads!Next, Reads!Fail, Moments

(* An answer no older than the bound is a step of StaleReads.              *)
LEMMA Giving ==
  ASSUME NEW S \in SUBSET Callers, NEW t \in 0 .. now, Reads!Give(S, t)
  PROVE  Reads!Next
BY DEF Reads!Next

(* The request of key k releases its callers.                              *)
LEMMA ReleasedListing ==
  ASSUME Typed, NEW k \in Keys, flight[k] # None, Released(k)
  PROVE  /\ flight[k].waiting \subseteq Listing
         /\ Listing' = Listing \ flight[k].waiting
BY FlightFields DEF Typed, Shared, CacheTypeOK, Released, Listing

(* Every step of the cache is a step of StaleReads, or one it does not     *)
(* see.                                                                    *)
LEMMA NextReads ==
  ASSUME Recent, [Next]_vars
  PROVE  [Reads!Next]_(Reads!vars)
<1>0. /\ Typed /\ now \in Nat /\ TTL \in Nat /\ Timeout \in Nat
      /\ pc \in [Callers -> {"idle", "check", "do", "wait", "delete", "deleted"}]
  BY CacheAssumption DEF Recent, Typed, CacheTypeOK
<1>1. ASSUME Listing' = Listing, given' = Nobody, UNCHANGED now
      PROVE  Reads!Next
  <2>1. /\ {} \in SUBSET Callers /\ {} \subseteq Listing
        /\ Listing' = Listing \ {}
    BY <1>1
  <2> QED
    BY <1>1, <2>1, Quiet
<1>2. ASSUME NEW c \in Callers, NEW k \in Keys, ListBegin(c, k)
      PROVE  Reads!Next
  <2>1. Listing' = Listing \cup {c}
    BY <1>0, <1>2 DEF ListBegin, Go, Listing
  <2>2. Moments' = Reads!Nobody
    BY <1>2 DEF ListBegin, Nobody, Moments, Reads!Nobody
  <2> QED
    BY <1>2, <2>1, <2>2 DEF ListBegin, Reads!Next, Reads!Ask, Moments
<1>3. ASSUME NEW c \in Callers, Hit(c)
      PROVE  Reads!Next
  <2> DEFINE k == key[c]
             t == cache[k].answer.from
  <2>1. /\ k \in Keys /\ cache[k] # None /\ now < cache[k].expires
        /\ c \in Listing /\ Listing' = Listing \ {c} /\ UNCHANGED now
    BY <1>0, <1>3 DEF Hit, Valid, Typed, Busy, Calls, Go, Listing
  <2>2. /\ t \in Nat /\ cache[k].expires \in Nat /\ cache[k].answer \in Answer
        /\ t <= now /\ cache[k].expires <= t + (TTL + Timeout)
    BY <1>0, <2>1, EntryFields DEF Recent, CacheRecent
  <2>3. t \in 0 .. now /\ now <= t + (TTL + Timeout)
    BY <1>0, <2>1, <2>2
  <2>4. /\ Given(c, cache[k].answer) # None
        /\ Given(c, cache[k].answer).answer.from = t
    BY <1>0, <2>2, GivenTyped, Absence
  <2>5. given' = [Nobody EXCEPT ![c] = Given(c, cache[k].answer)]
    BY <1>3 DEF Hit
  <2> HIDE DEF t, k
  <2>6. Moments' = [d \in Callers |-> IF d \in {c} THEN t ELSE None]
    BY <2>4, <2>5 DEF Nobody, Moments
  <2>7. PICK m \in 0 .. now : m = t
    BY <2>3
  <2>8. Reads!Give({c}, m)
    BY <1>0, <2>1, <2>2, <2>3, <2>6, <2>7 DEF Reads!Give, Moments
  <2> QED
    BY <2>8, Giving
<1>4. ASSUME NEW c \in Callers, Miss(c) \/ Lead(c) \/ Join(c)
      PROVE  Reads!Next
  <2>1. Listing' = Listing
    BY <1>0, <1>4 DEF Miss, Lead, Join, Go, Listing
  <2> QED
    BY <1>1, <1>4, <2>1 DEF Miss, Lead, Join
<1>5. ASSUME NEW k \in Keys, Posted(k) \/ Store(k)
      PROVE  Reads!Next
  <2>1. Listing' = Listing
    BY <1>5 DEF Posted, Store, Listing
  <2> QED
    BY <1>1, <1>5, <2>1 DEF Posted, Store
<1>6. ASSUME NEW k \in Keys, PostFails(k)
      PROVE  Reads!Next
  <2>1. flight[k] # None /\ Released(k) /\ given' = Nobody /\ UNCHANGED now
    BY <1>6 DEF PostFails
  <2> QED
    BY <1>0, <2>1, FlightFields, ReleasedListing, Quiet
<1>7. ASSUME NEW k \in Keys, FlightEnds(k)
      PROVE  Reads!Next
  <2> DEFINE S == flight[k].waiting
             t == Fetched(k).from
  <2>1. /\ flight[k] # None /\ flight[k].step = "end" /\ Released(k)
        /\ given' = [c \in Callers |->
                       IF c \in S THEN Given(c, Fetched(k)) ELSE None]
        /\ UNCHANGED now
    BY <1>7 DEF FlightEnds
  <2>2. /\ S \subseteq Callers /\ Fetched(k) \in Answer /\ t \in Nat
        /\ t = flight[k].answer.from /\ flight[k].began \in Nat
    BY <1>0, <2>1, FlightFields
  <2>3. S \subseteq Listing /\ Listing' = Listing \ S
    BY <1>0, <2>1, ReleasedListing
  <2>4. t \in 0 .. now /\ t <= now /\ now <= t + (TTL + Timeout)
    BY <1>0, <2>1, <2>2 DEF Recent, FlightRecent
  <2>5. \A c \in Callers : /\ Given(c, Fetched(k)) # None
                           /\ Given(c, Fetched(k)).answer.from = t
    BY <1>0, <2>2, GivenTyped, Absence
  <2> HIDE DEF S, t
  <2>6. Moments' = [c \in Callers |-> IF c \in S THEN t ELSE None]
    BY <2>1, <2>5 DEF Moments
  <2>7. PICK m \in 0 .. now, T \in SUBSET Callers : m = t /\ T = S
    BY <2>2, <2>4
  <2>8. Reads!Give(T, m)
    BY <2>1, <2>3, <2>4, <2>6, <2>7 DEF Reads!Give, Moments
  <2> QED
    BY <2>8, Giving
<1>8. ASSUME NEW c \in Callers, NEW a \in Agents, DeleteBegin(c, a)
      PROVE  Reads!Next
  <2>1. Listing' = Listing
    BY <1>0, <1>8 DEF DeleteBegin, Go, Listing
  <2> QED
    BY <1>1, <1>8, <2>1 DEF DeleteBegin
<1>9. ASSUME NEW c \in Callers, Deleted(c) \/ DeleteFails(c) \/ Invalidate(c)
      PROVE  Reads!Next
  <2>1. Listing' = Listing
    BY <1>0, <1>9 DEF Deleted, DeleteFails, Invalidate, DeleteReturns, Go, Listing
  <2> QED
    BY <1>1, <1>9, <2>1 DEF Deleted, DeleteFails, Invalidate
<1>10. CASE Tick
  <2>1. Listing' = Listing /\ now' = now + 1
    BY <1>10 DEF Tick, Listing
  <2>2. Moments' = Reads!Nobody
    BY <1>10 DEF Tick, Nobody, Moments, Reads!Nobody
  <2> QED
    BY <2>1, <2>2 DEF Reads!Next, Reads!Tick, Moments
<1>11. CASE UNCHANGED vars
  <2>1. UNCHANGED <<now, pc, given>>
    BY <1>11 DEF vars
  <2> QED
    BY <2>1 DEF Reads!vars, Listing
<1> QED
  BY <1>2, <1>3, <1>4, <1>5, <1>6, <1>7, <1>8, <1>9, <1>10, <1>11
  DEF Next, Call, Request

(* Answers are recent, for every TTL and timeout and whatever calls        *)
(* overlap: the cache and the requests that callers share implement        *)
(* StaleReads (client/skill.go:60-84, client/client.go:139-186).           *)
THEOREM AnswersRecent == Spec => AnswersAreRecent
<1>1. Init => Reads!Init
  BY DEF Init, Listing, Nobody, Reads!Init, Reads!Nobody
<1>2. Spec => []Recent
  BY InitRecent, NextRecent, PTL DEF Spec
<1>3. Recent /\ [Next]_vars => [Reads!Next]_(Reads!vars)
  BY NextReads
<1> QED
  BY <1>1, <1>2, <1>3, PTL DEF Spec, AnswersAreRecent, Reads!Spec

-----------------------------------------------------------------------------
(* Lists from before a deletion. *)

(* Deletions are counted in the order in which they end: no invalidation   *)
(* is ahead of the server, and no list began after an invalidation yet to  *)
(* come.                                                                   *)
Counted ==
  /\ \A a \in Agents : invalidated[a] <= epoch[a]
  /\ \A c \in Callers :
       /\ pc[c] = "deleted" => handled[c] <= epoch[agent[c]]
       /\ pc[c] \in Calls => since[c] <= invalidated[AgentOf[key[c]]]

(* A request that a deletion is running beside knows it; one that knows of *)
(* none has a list from after the latest invalidation, and so has an entry *)
(* it left in the cache.                                                   *)
Current(answer, k) == answer.epoch >= invalidated[AgentOf[k]]

FlightsMarked ==
  \A k \in Keys : flight[k] # None =>
    /\ Deleting(AgentOf[k]) => flight[k].overlapped
    /\ (flight[k].step # "post" /\ ~flight[k].overlapped)
         => Current(flight[k].answer, k)

EntriesMarked ==
  \A k \in Keys : cache[k] # None =>
    (~cache[k].answer.overlapped => Current(cache[k].answer, k))

Marked == Typed /\ Counted /\ FlightsMarked /\ EntriesMarked

(* Nothing is cached and nobody deletes.                                   *)
LEMMA InitMarked == Init => Marked /\ OlderOnlyIfOverlapped
<1>1. Init => Typed
  BY InitTyped
<1>2. Init => Counted
  BY CacheAssumption DEF Init, Counted, Calls
<1>3. Init => FlightsMarked /\ EntriesMarked /\ OlderOnlyIfOverlapped
  BY DEF Init, FlightsMarked, EntriesMarked, OlderOnlyIfOverlapped, Nobody
<1> QED
  BY <1>1, <1>2, <1>3 DEF Marked

(* The counters are kept by steps that leave them alone, and by those that *)
(* only end a list.                                                        *)
LEMMA CountedKept ==
  ASSUME Marked, UNCHANGED deleteVars,
         \A c \in Callers :
           /\ pc'[c] = "deleted" => pc[c] = "deleted"
           /\ pc'[c] \in Calls =>
                pc[c] \in Calls /\ key'[c] = key[c] /\ since'[c] = since[c]
  PROVE  Counted'
BY DEF Marked, Counted, deleteVars

(* A step that changes no deletion changes no mark but that of the         *)
(* requests it touches.                                                    *)
LEMMA SameDeleting ==
  ASSUME Marked, UNCHANGED agent,
         \A c \in Callers : pc'[c] \in {"delete", "deleted"}
                              <=> pc[c] \in {"delete", "deleted"}
  PROVE  \A a \in Agents : Deleting(a)' <=> Deleting(a)
BY DEF Deleting

LEMMA OneFlightMarked ==
  ASSUME Marked, NEW k \in Keys, NEW f,
         UNCHANGED <<agent, invalidated>>,
         \A c \in Callers : pc'[c] \in {"delete", "deleted"}
                              <=> pc[c] \in {"delete", "deleted"},
         flight' = [flight EXCEPT ![k] = f],
         f = None \/ (/\ Deleting(AgentOf[k]) => f.overlapped
                      /\ (f.step # "post" /\ ~f.overlapped)
                           => Current(f.answer, k))
  PROVE  FlightsMarked'
<1>1. \A a \in Agents : Deleting(a)' <=> Deleting(a)
  BY SameDeleting
<1>2. \A j \in Keys : AgentOf[j] \in Agents
  BY CacheAssumption
<1> QED
  BY <1>1, <1>2
  DEF Marked, FlightsMarked, Typed, CacheTypeOK, Current

LEMMA NextMarked ==
  ASSUME Marked, [Next]_vars
  PROVE  Marked'
<1>0. /\ Typed /\ Typed' /\ TTL \in Nat
      /\ \A k \in Keys : AgentOf[k] \in Agents
      /\ epoch \in [Agents -> Nat] /\ invalidated \in [Agents -> Nat]
      /\ handled \in [Callers -> Nat] /\ since \in [Callers -> Nat]
      /\ agent \in [Callers -> Agents \cup {None}]
      /\ key \in [Callers -> Keys \cup {None}]
      /\ pc \in [Callers -> {"idle", "check", "do", "wait", "delete", "deleted"}]
  BY NextTyped, CacheAssumption DEF Marked, Typed, CacheTypeOK
<1>a. ASSUME UNCHANGED <<cache, invalidated>>
      PROVE  EntriesMarked'
  BY <1>a DEF Marked, EntriesMarked, Current
<1>1. ASSUME NEW c \in Callers, NEW k \in Keys, ListBegin(c, k)
      PROVE  Counted' /\ FlightsMarked' /\ EntriesMarked'
  <2>1. /\ pc[c] = "idle" /\ pc' = [pc EXCEPT ![c] = "check"]
        /\ key' = [key EXCEPT ![c] = k]
        /\ since' = [since EXCEPT ![c] = invalidated[AgentOf[k]]]
        /\ UNCHANGED <<cache, flight, agent, handled, epoch, invalidated>>
    BY <1>1 DEF ListBegin, Go, deleteVars
  <2>2. Counted'
    BY <1>0, <2>1 DEF Marked, Counted, Calls
  <2>3. \A a \in Agents : Deleting(a)' <=> Deleting(a)
    BY <1>0, <2>1, SameDeleting
  <2>4. FlightsMarked'
    BY <1>0, <2>1, <2>3 DEF Marked, FlightsMarked, Current
  <2> QED
    BY <1>a, <2>1, <2>2, <2>4
<1>2. ASSUME NEW c \in Callers, Hit(c) \/ Miss(c)
      PROVE  Counted' /\ FlightsMarked' /\ EntriesMarked'
  <2>1. /\ pc[c] = "check"
        /\ \E s \in {"idle", "do"} :
             /\ pc' = [pc EXCEPT ![c] = s]
             /\ s = "do" => UNCHANGED <<key, since>>
        /\ \A d \in Callers : d # c => key'[d] = key[d] /\ since'[d] = since[d]
        /\ UNCHANGED <<cache, flight, deleteVars>>
    BY <1>0, <1>2 DEF Hit, Miss, Go, listVars
  <2>2. Counted'
    BY <1>0, <2>1, CountedKept DEF Calls
  <2>3. UNCHANGED <<agent, invalidated>>
    BY <2>1 DEF deleteVars
  <2>4. \A a \in Agents : Deleting(a)' <=> Deleting(a)
    BY <1>0, <2>1, <2>3, SameDeleting
  <2>5. FlightsMarked'
    BY <1>0, <2>1, <2>3, <2>4 DEF Marked, FlightsMarked, Current
  <2> QED
    BY <1>a, <2>1, <2>2, <2>3, <2>5
<1>3. ASSUME NEW c \in Callers, Lead(c)
      PROVE  Counted' /\ FlightsMarked' /\ EntriesMarked'
  <2> DEFINE f == [began |-> now, overlapped |-> Deleting(AgentOf[key[c]]),
                   waiting |-> {c}, step |-> "post", answer |-> NoAnswer]
  <2>1. /\ key[c] \in Keys /\ pc[c] = "do" /\ pc' = [pc EXCEPT ![c] = "wait"]
        /\ flight' = [flight EXCEPT ![key[c]] = f]
        /\ UNCHANGED <<key, since, cache, deleteVars>>
    BY <1>0, <1>3 DEF Lead, Go, Typed, Busy, Calls
  <2>2. f.step = "post" /\ f.overlapped = Deleting(AgentOf[key[c]])
    OBVIOUS
  <2> HIDE DEF f
  <2>3. UNCHANGED <<agent, invalidated>>
    BY <2>1 DEF deleteVars
  <2>4. FlightsMarked'
    BY <1>0, <2>1, <2>2, <2>3, OneFlightMarked
  <2>5. Counted'
    BY <1>0, <2>1, CountedKept DEF Calls
  <2> QED
    BY <1>a, <2>1, <2>3, <2>4, <2>5
<1>4. ASSUME NEW c \in Callers, Join(c)
      PROVE  Counted' /\ FlightsMarked' /\ EntriesMarked'
  <2> DEFINE f == [flight[key[c]] EXCEPT !.waiting = @ \cup {c}]
  <2>1. /\ key[c] \in Keys /\ pc[c] = "do" /\ pc' = [pc EXCEPT ![c] = "wait"]
        /\ flight[key[c]] # None
        /\ flight' = [flight EXCEPT ![key[c]] = f]
        /\ UNCHANGED <<key, since, cache, deleteVars>>
    BY <1>0, <1>4 DEF Join, Go, Typed, Busy, Calls
  <2>2. /\ f.overlapped = flight[key[c]].overlapped
        /\ f.step = flight[key[c]].step /\ f.answer = flight[key[c]].answer
    BY <1>0, <2>1, FlightFields DEF Flight
  <2> HIDE DEF f
  <2>3. UNCHANGED <<agent, invalidated>>
    BY <2>1 DEF deleteVars
  <2>6. /\ Deleting(AgentOf[key[c]]) => f.overlapped
        /\ (f.step # "post" /\ ~f.overlapped) => Current(f.answer, key[c])
    BY <2>1, <2>2 DEF Marked, FlightsMarked
  <2>4. FlightsMarked'
    BY <1>0, <2>1, <2>3, <2>6, OneFlightMarked
  <2>5. Counted'
    BY <1>0, <2>1, CountedKept DEF Calls
  <2> QED
    BY <1>a, <2>1, <2>3, <2>4, <2>5
<1>5. ASSUME NEW k \in Keys, Posted(k)
      PROVE  Counted' /\ FlightsMarked' /\ EntriesMarked'
  <2> DEFINE a == [from |-> now, epoch |-> epoch[AgentOf[k]],
                   overlapped |-> FALSE]
             f == [flight[k] EXCEPT !.step = "store", !.answer = a]
  <2>1. /\ flight[k] # None /\ flight' = [flight EXCEPT ![k] = f]
        /\ UNCHANGED <<pc, key, since, cache, deleteVars>>
    BY <1>5 DEF Posted
  <2>2. /\ f.overlapped = flight[k].overlapped
        /\ f.answer = a /\ a.epoch = epoch[AgentOf[k]]
    BY <1>0, <2>1, FlightFields DEF Flight
  <2> HIDE DEF f, a
  <2>3. UNCHANGED <<agent, invalidated>>
    BY <2>1 DEF deleteVars
  <2>6. /\ Deleting(AgentOf[k]) => f.overlapped
        /\ Current(f.answer, k)
    BY <1>0, <2>1, <2>2 DEF Marked, FlightsMarked, Counted, Current
  <2>4. FlightsMarked'
    BY <1>0, <2>1, <2>3, <2>6, OneFlightMarked
  <2>5. Counted'
    BY <1>0, <2>1, CountedKept DEF Calls
  <2> QED
    BY <1>a, <2>1, <2>3, <2>4, <2>5
<1>6. ASSUME NEW k \in Keys, flight[k] # None, Released(k),
             UNCHANGED <<cache, deleteVars>>
      PROVE  Counted' /\ FlightsMarked' /\ EntriesMarked'
  <2>1. \A c \in flight[k].waiting : pc[c] = "wait"
    BY <1>0, <1>6 DEF Typed, Shared
  <2>2. UNCHANGED <<agent, invalidated>>
    BY <1>6 DEF deleteVars
  <2>3. FlightsMarked'
    BY <1>6, <2>1, <2>2, OneFlightMarked DEF Released
  <2>4. Counted'
    BY <1>6, CountedKept DEF Released, Calls
  <2> QED
    BY <1>a, <1>6, <2>2, <2>3, <2>4
<1>7. ASSUME NEW k \in Keys, Store(k)
      PROVE  Counted' /\ FlightsMarked' /\ EntriesMarked'
  <2> DEFINE e == [answer |-> Fetched(k), expires |-> now + TTL]
             f == [flight[k] EXCEPT !.step = "end"]
  <2>1. /\ flight[k] # None /\ flight[k].step = "store"
        /\ flight' = [flight EXCEPT ![k] = f]
        /\ cache' = [j \in Keys |-> IF j = k THEN e ELSE Evicted(cache[j])]
        /\ UNCHANGED <<pc, key, since, deleteVars>>
    BY <1>7 DEF Store
  <2>2. /\ f.overlapped = flight[k].overlapped /\ f.answer = flight[k].answer
        /\ e.answer.overlapped = flight[k].overlapped
        /\ e.answer.epoch = flight[k].answer.epoch
    BY <1>0, <2>1, FlightFields DEF Flight
  <2> HIDE DEF e, f
  <2>3. UNCHANGED <<agent, invalidated>>
    BY <2>1 DEF deleteVars
  <2>4. /\ Deleting(AgentOf[k]) => f.overlapped
        /\ ~f.overlapped => Current(f.answer, k) /\ Current(e.answer, k)
    BY <2>1, <2>2 DEF Marked, FlightsMarked, Current
  <2>5. FlightsMarked'
    BY <1>0, <2>1, <2>3, <2>4, OneFlightMarked
  <2>6. Counted'
    BY <1>0, <2>1, CountedKept DEF Calls
  <2>7. EntriesMarked'
    BY <2>1, <2>2, <2>3, <2>4 DEF Marked, EntriesMarked, Current, Evicted
  <2> QED
    BY <2>5, <2>6, <2>7
<1>8. ASSUME NEW c \in Callers, NEW a \in Agents, DeleteBegin(c, a)
      PROVE  Counted' /\ FlightsMarked' /\ EntriesMarked'
  <2> DEFINE f(k) == [flight[k] EXCEPT !.overlapped = TRUE]
  <2>1. \A k \in Keys : flight[k] # None => f(k).overlapped
    BY <1>0, FlightFields DEF Flight
  <2>2. /\ flight' = [k \in Keys |-> IF AgentOf[k] = a /\ flight[k] # None
                                     THEN f(k) ELSE flight[k]]
        /\ pc[c] = "idle" /\ pc' = [pc EXCEPT ![c] = "delete"]
        /\ agent' = [agent EXCEPT ![c] = a]
        /\ UNCHANGED <<key, cache, since, handled, epoch, invalidated>>
    BY <1>8 DEF DeleteBegin, Go
  <2> HIDE DEF f
  <2>3. \A b \in Agents : b # a => (Deleting(b)' <=> Deleting(b))
    BY <1>0, <2>2 DEF Deleting
  <2>4. FlightsMarked'
    BY <1>0, <2>1, <2>2, <2>3 DEF Marked, FlightsMarked, Current
  <2>5. Counted'
    BY <1>0, <2>2 DEF Marked, Counted, Calls
  <2> QED
    BY <1>a, <2>2, <2>4, <2>5
<1>9. ASSUME NEW c \in Callers, Deleted(c)
      PROVE  Counted' /\ FlightsMarked' /\ EntriesMarked'
  <2>1. /\ pc[c] = "delete" /\ pc' = [pc EXCEPT ![c] = "deleted"]
        /\ agent[c] \in Agents
        /\ epoch' = [epoch EXCEPT ![agent[c]] = @ + 1]
        /\ handled' = [handled EXCEPT ![c] = epoch[agent[c]] + 1]
        /\ UNCHANGED <<agent, invalidated, key, cache, flight, since>>
    BY <1>0, <1>9 DEF Deleted, Go, listVars, Typed, Busy
  <2>2. \A a \in Agents : epoch[a] <= epoch'[a]
    BY <1>0, <2>1
  <2>3. Counted'
    BY <1>0, <2>1, <2>2 DEF Marked, Counted, Calls, Typed, Busy
  <2>4. \A a \in Agents : Deleting(a)' <=> Deleting(a)
    BY <1>0, <2>1, SameDeleting
  <2>5. FlightsMarked'
    BY <1>0, <2>1, <2>4 DEF Marked, FlightsMarked, Current
  <2> QED
    BY <1>a, <2>1, <2>3, <2>5
<1>10. ASSUME NEW c \in Callers, DeleteFails(c)
       PROVE  Counted' /\ FlightsMarked' /\ EntriesMarked'
  <2>1. /\ pc' = [pc EXCEPT ![c] = "idle"]
        /\ agent' = [agent EXCEPT ![c] = None]
        /\ handled' = [handled EXCEPT ![c] = 0]
        /\ UNCHANGED <<epoch, invalidated, key, cache, flight, since>>
    BY <1>10 DEF DeleteFails, DeleteReturns, Go, listVars
  <2>2. Counted'
    BY <1>0, <2>1 DEF Marked, Counted, Calls
  <2>3. \A a \in Agents : Deleting(a)' => Deleting(a)
    BY <1>0, <2>1 DEF Deleting
  <2>4. FlightsMarked'
    BY <1>0, <2>1, <2>3 DEF Marked, FlightsMarked, Current
  <2> QED
    BY <1>a, <2>1, <2>2, <2>4
<1>11. ASSUME NEW c \in Callers, Invalidate(c)
       PROVE  Counted' /\ FlightsMarked' /\ EntriesMarked'
  <2>1. /\ pc[c] = "deleted" /\ pc' = [pc EXCEPT ![c] = "idle"]
        /\ agent[c] \in Agents /\ agent' = [agent EXCEPT ![c] = None]
        /\ handled' = [handled EXCEPT ![c] = 0]
        /\ cache' = Dropped(agent[c])
        /\ invalidated' =
             [invalidated EXCEPT ![agent[c]] = Later(@, handled[c])]
        /\ UNCHANGED <<key, flight, since, epoch>>
    BY <1>0, <1>11 DEF Invalidate, DeleteReturns, Go, Typed, Busy
  <2>2. /\ \A a \in Agents : a # agent[c] => invalidated'[a] = invalidated[a]
        /\ \A a \in Agents : invalidated[a] <= invalidated'[a]
        /\ invalidated'[agent[c]] \in {invalidated[agent[c]], handled[c]}
    BY <1>0, <2>1 DEF Later
  <2>3. handled[c] <= epoch[agent[c]]
    BY <2>1 DEF Marked, Counted
  <2>4. Counted'
    <3>1. \A a \in Agents : invalidated'[a] <= epoch'[a]
      BY <1>0, <2>1, <2>2, <2>3 DEF Marked, Counted
    <3>2. \A d \in Callers : pc'[d] = "deleted" => handled'[d] <= epoch'[agent'[d]]
      BY <1>0, <2>1 DEF Marked, Counted
    <3>3. ASSUME NEW d \in Callers, pc'[d] \in Calls
          PROVE  since'[d] <= invalidated'[AgentOf[key'[d]]]
      <4>1. pc[d] \in Calls /\ key[d] \in Keys
        BY <1>0, <2>1, <3>3 DEF Calls, Typed, Busy
      <4>2. since[d] <= invalidated[AgentOf[key[d]]]
        BY <4>1 DEF Marked, Counted
      <4>3. /\ AgentOf[key[d]] \in Agents
            /\ invalidated[AgentOf[key[d]]] <= invalidated'[AgentOf[key[d]]]
            /\ invalidated'[AgentOf[key[d]]] \in Nat
        BY <1>0, <2>2, <4>1 DEF Typed, CacheTypeOK
      <4> QED
        BY <1>0, <2>1, <4>2, <4>3
    <3> QED
      BY <3>1, <3>2, <3>3 DEF Counted
  <2>5. \A a \in Agents : Deleting(a)' => Deleting(a)
    BY <1>0, <2>1 DEF Deleting
  <2>6. Deleting(agent[c])
    BY <2>1 DEF Deleting
  <2>7. FlightsMarked'
    <3> SUFFICES ASSUME NEW k \in Keys, flight[k] # None
                 PROVE  /\ Deleting(AgentOf[k])' => flight[k].overlapped
                        /\ (flight[k].step # "post" /\ ~flight[k].overlapped)
                             => Current(flight[k].answer, k)'
      BY <2>1 DEF FlightsMarked, Current
    <3>1. CASE AgentOf[k] = agent[c]
      BY <2>6, <3>1 DEF Marked, FlightsMarked
    <3>2. CASE AgentOf[k] # agent[c]
      BY <1>0, <2>1, <2>2, <2>5, <3>2 DEF Marked, FlightsMarked, Current
    <3> QED
      BY <3>1, <3>2
  <2>8. EntriesMarked'
    BY <1>0, <2>1, <2>2 DEF Marked, EntriesMarked, Current, Dropped
  <2> QED
    BY <2>4, <2>7, <2>8
<1>12. ASSUME Tick \/ UNCHANGED vars
       PROVE  Counted' /\ FlightsMarked' /\ EntriesMarked'
  <2>1. UNCHANGED <<pc, key, since, cache, flight, deleteVars>>
    BY <1>12 DEF Tick, vars, listVars
  <2>2. UNCHANGED <<agent, invalidated>>
    BY <2>1 DEF deleteVars
  <2>3. Counted'
    BY <2>1, CountedKept
  <2>4. FlightsMarked'
    BY <2>1, <2>2 DEF Marked, FlightsMarked, Current, Deleting
  <2> QED
    BY <1>a, <2>1, <2>2, <2>3, <2>4
<1>13. Counted' /\ FlightsMarked' /\ EntriesMarked'
  BY <1>1, <1>2, <1>3, <1>4, <1>5, <1>6, <1>7, <1>8, <1>9, <1>10, <1>11, <1>12
  DEF Next, Call, Request, PostFails, FlightEnds
<1> QED
  BY <1>0, <1>13 DEF Marked

(* Only a hit and the end of a request give answers.                       *)
LEMMA NextOlder ==
  ASSUME Marked, OlderOnlyIfOverlapped, [Next]_vars
  PROVE  OlderOnlyIfOverlapped'
<1>0. /\ Typed
      /\ \A k \in Keys : AgentOf[k] \in Agents
      /\ invalidated \in [Agents -> Nat] /\ since \in [Callers -> Nat]
  BY CacheAssumption DEF Marked, Typed, CacheTypeOK
<1>1. ASSUME given' = Nobody
      PROVE  OlderOnlyIfOverlapped'
  BY <1>1 DEF OlderOnlyIfOverlapped, Nobody
<1>2. ASSUME NEW c \in Callers, Hit(c)
      PROVE  OlderOnlyIfOverlapped'
  <2> DEFINE k == key[c]
             a == cache[k].answer
  <2>1. /\ k \in Keys /\ cache[k] # None /\ pc[c] = "check"
        /\ given' = [Nobody EXCEPT ![c] = Given(c, a)]
    BY <1>0, <1>2 DEF Hit, Valid, Typed, Busy, Calls
  <2>2. a \in Answer /\ a.epoch \in Nat
    BY <1>0, <2>1, EntryFields
  <2>3. Given(c, a).answer = a /\ Given(c, a).since = since[c]
    BY <1>0, <2>2, GivenTyped
  <2>4. since[c] <= invalidated[AgentOf[k]]
    BY <2>1 DEF Marked, Counted, Calls
  <2>5. a.overlapped \/ a.epoch >= invalidated[AgentOf[k]]
    BY <2>1 DEF Marked, EntriesMarked, Current
  <2>6. a.epoch < since[c] => a.overlapped
    BY <1>0, <2>1, <2>2, <2>4, <2>5
  <2> HIDE DEF k, a
  <2> QED
    BY <2>1, <2>3, <2>6 DEF OlderOnlyIfOverlapped, Nobody
<1>3. ASSUME NEW k \in Keys, FlightEnds(k)
      PROVE  OlderOnlyIfOverlapped'
  <2> DEFINE a == Fetched(k)
  <2>1. /\ flight[k] # None /\ flight[k].step = "end"
        /\ given' = [c \in Callers |->
                       IF c \in flight[k].waiting THEN Given(c, a) ELSE None]
    BY <1>3 DEF FlightEnds
  <2>2. /\ a \in Answer /\ a.epoch \in Nat /\ a.epoch = flight[k].answer.epoch
        /\ a.overlapped = flight[k].overlapped
    BY <1>0, <2>1, FlightFields
  <2> HIDE DEF a
  <2>3. a.overlapped \/ a.epoch >= invalidated[AgentOf[k]]
    BY <2>1, <2>2 DEF Marked, FlightsMarked, Current
  <2>4. ASSUME NEW c \in Callers, c \in flight[k].waiting
        PROVE  a.epoch < Given(c, a).since => Given(c, a).answer.overlapped
    <3>1. since[c] <= invalidated[AgentOf[k]]
      BY <1>0, <2>1, <2>4 DEF Marked, Counted, Typed, Shared, Calls
    <3>2. Given(c, a).answer = a /\ Given(c, a).since = since[c]
      BY <1>0, <2>2, GivenTyped
    <3> QED
      BY <1>0, <2>2, <2>3, <3>1, <3>2
  <2>5. \A c \in Callers : Given(c, a).answer = a
    BY <1>0, <2>2, GivenTyped
  <2> QED
    BY <2>1, <2>4, <2>5 DEF OlderOnlyIfOverlapped
<1>4. CASE UNCHANGED vars
  BY <1>4 DEF vars, OlderOnlyIfOverlapped
<1>5. ASSUME NEW c \in Callers, NEW k \in Keys, ListBegin(c, k)
      PROVE  given' = Nobody
  BY <1>5 DEF ListBegin
<1>6. ASSUME NEW c \in Callers, NEW a \in Agents, DeleteBegin(c, a)
      PROVE  given' = Nobody
  BY <1>6 DEF DeleteBegin
<1>7. ASSUME NEW c \in Callers,
             \/ Miss(c) \/ Lead(c) \/ Join(c)
             \/ Deleted(c) \/ DeleteFails(c) \/ Invalidate(c)
      PROVE  given' = Nobody
  BY <1>7 DEF Miss, Lead, Join, Deleted, DeleteFails, Invalidate
<1>8. ASSUME NEW k \in Keys, Posted(k) \/ PostFails(k) \/ Store(k)
      PROVE  given' = Nobody
  BY <1>8 DEF Posted, PostFails, Store
<1>9. ASSUME Tick
      PROVE  given' = Nobody
  BY <1>9 DEF Tick
<1> QED
  BY <1>1, <1>2, <1>3, <1>4, <1>5, <1>6, <1>7, <1>8, <1>9
  DEF Next, Call, Request

(* A list from before the last deletion known to the client reaches a      *)
(* caller only if it was fetched beside a deletion, however many callers,  *)
(* keys and deletions overlap (client/skill.go:74, client/client.go:186).  *)
THEOREM OldAnswersOverlapped == Spec => []OlderOnlyIfOverlapped
<1>1. Init => Marked /\ OlderOnlyIfOverlapped
  BY InitMarked
<1>2. (Marked /\ OlderOnlyIfOverlapped) /\ [Next]_vars
        => (Marked /\ OlderOnlyIfOverlapped)'
  BY NextMarked, NextOlder
<1> QED
  BY <1>1, <1>2, PTL DEF Spec
=============================================================================
