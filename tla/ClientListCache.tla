-------------------------- MODULE ClientListCache --------------------------
(***************************************************************************)
(* The client library's cache of skill lists (client/client.go and         *)
(* client/skill.go).                                                       *)
(*                                                                         *)
(* SkillAgentList looks for an unexpired entry under Client.agentListMu    *)
(* and, if there is none, goes through a singleflight group: one caller    *)
(* posts the request, those that come meanwhile with the same key wait for *)
(* its result, and the result is stored under the mutex before any of them *)
(* gets it.  SkillAgentCacheDelete asks the server first and drops the     *)
(* agent's entries when the server has said yes.  Nothing ties a list that *)
(* is on its way to a deletion.                                            *)
(*                                                                         *)
(* A list is abstract: what matters of it is when the server made it and   *)
(* how many deletions the server had then carried out for the agent.       *)
(* A request lasts at most Timeout (http.Client.Timeout), and what the     *)
(* client does with an answer takes no time compared with that.            *)
(***************************************************************************)
EXTENDS Naturals

CONSTANTS
  Callers,      \* goroutines that use one Client
  Keys,         \* cache keys: agent, skill ids and options
  Agents,
  AgentOf,      \* key -> its agent
  None,
  TTL,          \* agentListTTL
  Timeout,      \* http.Client.Timeout
  MaxTime,      \* how long a behaviour lasts (bounds the model)
  MaxDeletes    \* deletions the server carries out (bounds the model)

ASSUME CacheAssumption ==
  /\ AgentOf \in [Keys -> Agents]
  /\ TTL \in Nat /\ Timeout \in Nat /\ MaxTime \in Nat /\ MaxDeletes \in Nat

(* A list on the wire, a cache entry and a request that others may share.  *)
(* overlapped: a deletion for the agent was in progress during it.         *)
Answer == [from : Nat, epoch : Nat, overlapped : BOOLEAN]
Entry == [answer : Answer, expires : Nat]
Answered == [answer : Answer, since : Nat]
Flight ==
  [began : Nat, overlapped : BOOLEAN, waiting : SUBSET Callers,
   step : {"post", "store", "end"}, answer : Answer]

(* In place of the answer, until there is one.                             *)
NoAnswer == [from |-> 0, epoch |-> 0, overlapped |-> FALSE]
Nobody == [c \in Callers |-> None]

ASSUME NoneAssumption == None \notin Entry \cup Flight \cup Answered \cup Nat

VARIABLES
  now,
  pc,           \* caller -> what it does next
  key,          \* caller -> the key of its list
  agent,        \* caller -> the agent of its deletion
  handled,      \* caller -> deletions done when the server did this one
  cache,        \* agentListCache: key -> entry
  flight,       \* agentListFlight: key -> the request in progress
  epoch,        \* agent -> deletions the server has carried out
  invalidated,  \* agent -> the latest of them that ended in an invalidation
  since,        \* caller -> the value of invalidated when its list began
  given         \* caller -> its answer, if the last step gave it one

deleteVars == <<agent, handled, epoch, invalidated>>
listVars == <<key, cache, flight, since>>
vars == <<now, pc, deleteVars, listVars, given>>

CacheTypeOK ==
  /\ now \in Nat
  /\ pc \in [Callers -> {"idle", "check", "do", "wait", "delete", "deleted"}]
  /\ key \in [Callers -> Keys \cup {None}]
  /\ agent \in [Callers -> Agents \cup {None}]
  /\ handled \in [Callers -> Nat]
  /\ cache \in [Keys -> Entry \cup {None}]
  /\ flight \in [Keys -> Flight \cup {None}]
  /\ epoch \in [Agents -> Nat]
  /\ invalidated \in [Agents -> Nat]
  /\ since \in [Callers -> Nat]
  /\ given \in [Callers -> Answered \cup {None}]

Init ==
  /\ now = 0
  /\ pc = [c \in Callers |-> "idle"]
  /\ key = [c \in Callers |-> None]
  /\ agent = [c \in Callers |-> None]
  /\ handled = [c \in Callers |-> 0]
  /\ cache = [k \in Keys |-> None]
  /\ flight = [k \in Keys |-> None]
  /\ epoch = [a \in Agents |-> 0]
  /\ invalidated = [a \in Agents |-> 0]
  /\ since = [c \in Callers |-> 0]
  /\ given = Nobody

Go(c, step) == pc' = [pc EXCEPT ![c] = step]

(* A deletion for agent a is in progress. *)
Deleting(a) ==
  \E c \in Callers : pc[c] \in {"delete", "deleted"} /\ agent[c] = a

-----------------------------------------------------------------------------
(* SkillAgentList. *)

ListBegin(c, k) ==
  /\ pc[c] = "idle" /\ Go(c, "check")
  /\ key' = [key EXCEPT ![c] = k]
  /\ since' = [since EXCEPT ![c] = invalidated[AgentOf[k]]]
  /\ given' = Nobody
  /\ UNCHANGED <<now, cache, flight, deleteVars>>

Given(c, answer) == [answer |-> answer, since |-> since[c]]

InCache(k) == cache[k] # None  \* MUTANT of Valid: the expiry is not looked at

Valid(k) == cache[k] # None /\ now < cache[k].expires

(* The fast path. *)
Hit(c) ==
  /\ pc[c] = "check" /\ Valid(key[c])
  /\ Go(c, "idle")
  /\ given' = [Nobody EXCEPT ![c] = Given(c, cache[key[c]].answer)]
  /\ key' = [key EXCEPT ![c] = None]
  /\ since' = [since EXCEPT ![c] = 0]
  /\ UNCHANGED <<now, cache, flight, deleteVars>>

Miss(c) ==
  /\ pc[c] = "check" /\ ~Valid(key[c])
  /\ Go(c, "do")
  /\ given' = Nobody
  /\ UNCHANGED <<now, listVars, deleteVars>>

(* singleflight.Do: the first caller posts, the others wait for it. *)
Lead(c) ==
  /\ pc[c] = "do" /\ flight[key[c]] = None
  /\ Go(c, "wait")
  /\ flight' = [flight EXCEPT ![key[c]] =
       [began |-> now, overlapped |-> Deleting(AgentOf[key[c]]),
        waiting |-> {c}, step |-> "post", answer |-> NoAnswer]]
  /\ given' = Nobody
  /\ UNCHANGED <<now, key, cache, since, deleteVars>>

Join(c) ==
  /\ pc[c] = "do" /\ flight[key[c]] # None
  /\ Go(c, "wait")
  /\ flight' = [flight EXCEPT ![key[c]].waiting = @ \cup {c}]
  /\ given' = Nobody
  /\ UNCHANGED <<now, key, cache, since, deleteVars>>

(* The server makes the list, and the client gets it. *)
Posted(k) ==
  /\ flight[k] # None /\ flight[k].step = "post"
  /\ flight' = [flight EXCEPT
       ![k].step = "store",
       ![k].answer = [from |-> now, epoch |-> epoch[AgentOf[k]],
                      overlapped |-> FALSE]]
  /\ given' = Nobody
  /\ UNCHANGED <<now, pc, key, cache, since, deleteVars>>

OnlyLeader(k) ==  \* MUTANT of Released: one of those that wait goes on
  LET first == CHOOSE c \in flight[k].waiting : TRUE
  IN /\ pc' = [pc EXCEPT ![first] = "idle"]
     /\ key' = [key EXCEPT ![first] = None]
     /\ since' = [since EXCEPT ![first] = 0]
     /\ flight' = [flight EXCEPT ![k] = None]

(* The callers that share a request go on when it is over. *)
Released(k) ==
  LET Waits(c) == c \in flight[k].waiting
  IN /\ pc' = [c \in Callers |-> IF Waits(c) THEN "idle" ELSE pc[c]]
     /\ key' = [c \in Callers |-> IF Waits(c) THEN None ELSE key[c]]
     /\ since' = [c \in Callers |-> IF Waits(c) THEN 0 ELSE since[c]]
     /\ flight' = [flight EXCEPT ![k] = None]

(* No connection, an error status or the timeout: all of them get the      *)
(* error, and nothing is stored.                                           *)
PostFails(k) ==
  /\ flight[k] # None /\ flight[k].step = "post"
  /\ Released(k)
  /\ given' = Nobody
  /\ UNCHANGED <<now, cache, deleteVars>>

Unfinished(k) == flight[k]  \* MUTANT of Fetched: the request, not its answer

(* The answer of the request, with what is known of it at its end. *)
Fetched(k) ==
  [flight[k].answer EXCEPT !.overlapped = flight[k].overlapped]

(* evictExpiredAgentListCacheLocked, for one entry. *)
Evicted(entry) == IF entry # None /\ now > entry.expires THEN None ELSE entry

Store(k) ==
  /\ flight[k] # None /\ flight[k].step = "store"
  /\ cache' = [j \in Keys |->
       IF j = k THEN [answer |-> Fetched(k), expires |-> now + TTL]
       ELSE Evicted(cache[j])]
  /\ flight' = [flight EXCEPT ![k].step = "end"]
  /\ given' = Nobody
  /\ UNCHANGED <<now, pc, key, since, deleteVars>>

FlightEnds(k) ==
  /\ flight[k] # None /\ flight[k].step = "end"
  /\ Released(k)
  /\ given' = [c \in Callers |->
       IF c \in flight[k].waiting THEN Given(c, Fetched(k)) ELSE None]
  /\ UNCHANGED <<now, cache, deleteVars>>

-----------------------------------------------------------------------------
(* SkillAgentCacheDelete. *)

DeleteBegin(c, a) ==
  /\ pc[c] = "idle" /\ epoch[a] < MaxDeletes /\ Go(c, "delete")
  /\ agent' = [agent EXCEPT ![c] = a]
  /\ flight' = [k \in Keys |->
       IF AgentOf[k] = a /\ flight[k] # None
       THEN [flight[k] EXCEPT !.overlapped = TRUE] ELSE flight[k]]
  /\ given' = Nobody
  /\ UNCHANGED <<now, key, cache, since, handled, epoch, invalidated>>

(* The server carries it out. *)
Deleted(c) ==
  /\ pc[c] = "delete" /\ epoch[agent[c]] < MaxDeletes
  /\ Go(c, "deleted")
  /\ epoch' = [epoch EXCEPT ![agent[c]] = @ + 1]
  /\ handled' = [handled EXCEPT ![c] = epoch[agent[c]] + 1]
  /\ given' = Nobody
  /\ UNCHANGED <<now, agent, invalidated, listVars>>

DeleteReturns(c) ==
  /\ Go(c, "idle")
  /\ agent' = [agent EXCEPT ![c] = None]
  /\ handled' = [handled EXCEPT ![c] = 0]

(* It fails, or its answer is lost: the entries stay. *)
DeleteFails(c) ==
  /\ pc[c] \in {"delete", "deleted"} /\ DeleteReturns(c)
  /\ given' = Nobody
  /\ UNCHANGED <<now, epoch, invalidated, listVars>>

Later(n, m) == IF n < m THEN m ELSE n

WithoutKey(a) ==  \* MUTANT of Dropped: only one of the agent's keys goes
  [cache EXCEPT ![CHOOSE k \in Keys : AgentOf[k] = a] = None]

(* invalidateAgentListCache. *)
Dropped(a) == [k \in Keys |-> IF AgentOf[k] = a THEN None ELSE cache[k]]

Invalidate(c) ==
  /\ pc[c] = "deleted" /\ DeleteReturns(c)
  /\ cache' = Dropped(agent[c])
  /\ invalidated' =
       [invalidated EXCEPT ![agent[c]] = Later(@, handled[c])]
  /\ given' = Nobody
  /\ UNCHANGED <<now, key, flight, since, epoch>>

-----------------------------------------------------------------------------
(* Time passes, but no request outlasts its timeout. *)
Tick ==
  /\ now < MaxTime
  /\ \A k \in Keys : flight[k] # None => now < flight[k].began + Timeout
  /\ now' = now + 1
  /\ given' = Nobody
  /\ UNCHANGED <<pc, deleteVars, listVars>>

Call(c) == Hit(c) \/ Miss(c) \/ Lead(c) \/ Join(c)
Request(k) == Posted(k) \/ PostFails(k) \/ Store(k) \/ FlightEnds(k)

Next ==
  \/ \E c \in Callers, k \in Keys : ListBegin(c, k)
  \/ \E c \in Callers, a \in Agents : DeleteBegin(c, a)
  \/ \E c \in Callers :
       Call(c) \/ Deleted(c) \/ DeleteFails(c) \/ Invalidate(c)
  \/ \E k \in Keys : Request(k)
  \/ Tick

Spec == Init /\ [][Next]_vars

(* A goroutine that can go on does, and a request ends, at the latest by   *)
(* its timeout.                                                            *)
Fairness ==
  /\ \A c \in Callers : WF_vars(Call(c))
  /\ \A k \in Keys : WF_vars(Request(k))

FairSpec == Spec /\ Fairness

-----------------------------------------------------------------------------
Listing == {c \in Callers : pc[c] \in {"check", "do", "wait"}}

Reads == INSTANCE StaleReads WITH
  Bound <- TTL + Timeout,
  asking <- Listing,
  given <- [c \in Callers |->
              IF given[c] = None THEN None ELSE given[c].answer.from]

(* No list that a caller gets is older than the TTL and one request's      *)
(* timeout: what is cached, stored late or shared with others is no older  *)
(* (client/skill.go:60-84).                                                *)
AnswersAreRecent == Reads!Spec

(* A caller that lists an agent's skills after a deletion has invalidated  *)
(* the cache gets a list from before that deletion only if some deletion   *)
(* was in progress while the list was fetched: a list in flight is stored  *)
(* after the invalidation all the same (client/skill.go:74,                *)
(* client/client.go:186).                                                  *)
OlderOnlyIfOverlapped ==
  \A c \in Callers :
    (given[c] # None /\ given[c].answer.epoch < given[c].since)
      => given[c].answer.overlapped

(* Every call returns, whoever posts its request (client/skill.go:70): the *)
(* callers that wait are released when the request ends, however it ends.  *)
EveryCallReturns ==
  \A c \in Callers : c \in Listing ~> c \notin Listing
=============================================================================
