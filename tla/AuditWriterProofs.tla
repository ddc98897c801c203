------------------------- MODULE AuditWriterProofs -------------------------
(***************************************************************************)
(* Theorems about AuditWriter, for any writers, sessions and handles and   *)
(* any number of deletions: the map of handles and the handles stay in     *)
(* step, nothing leaks, a handle in the map loses its file only by the gap *)
(* in a deletion, and the writer does what AuditLog promises.              *)
(***************************************************************************)
EXTENDS AuditWriter, TLAPS

(* What a writer has, depending on where it is.                            *)
WriterInv ==
  \A w \in Writers :
    /\ attempt[w] \in {0, 1}
    /\ wpc[w] \in Done => attempt[w] = 0 /\ wsession[w] = None
    /\ wpc[w] \in Busy => wsession[w] \in Sessions
    /\ wpc[w] \in {"write", "purge"} => hand[w] \in Handles
    /\ wpc[w] = "purge" => ~Open(hand[w])

DeleteInv ==
  /\ del # "idle" => delSession \in Sessions
  /\ del = "idle" => delSession = None
  /\ del # "close" => delHandle = None

(* A handle in the map is open on the file of its session, and nobody is   *)
(* about to close it.                                                      *)
MapInv ==
  \A s \in Sessions : handles[s] # None =>
    /\ fh[handles[s]].owner = s
    /\ handles[s] \notin toClose /\ handles[s] # delHandle

(* Once the deletion of a session has taken its handle, a handle in the    *)
(* map is one from the gap.                                                *)
GapInv ==
  (del \in {"close", "remove"} /\ handles[delSession] # None)
    => fh[handles[delSession]].inGap

(* A handle that a writer got is open on the file of its session, or closed *)
(* for good; that file has left the path only by a deletion beside the     *)
(* write, or the handle is from the gap of an earlier one.                 *)
HandInv ==
  \A w \in Writers : wpc[w] = "write" /\ Open(hand[w]) =>
    /\ fh[hand[w]].owner = wsession[w]
    /\ overlapped[w] \/ fh[hand[w]].linked \/ fh[hand[w]].inGap

(* A handle from the gap keeps its file until the deletion removes it.     *)
LinkInv ==
  \A h \in Handles : fh[h].inGap =>
    Open(h) /\ (fh[h].linked => Deleting(fh[h].owner))

(* The session has no idle handle for the eviction loop to take.           *)
Fresh(s) == handles[s] # None => ~fh[handles[s]].idle

(* A writer that no deletion overlaps can lose an idle handle to the       *)
(* eviction loop once; what it finds then is not idle, and does not become *)
(* idle as long as it writes.                                              *)
RetryInv ==
  \A w \in Writers : (wpc[w] \in Busy /\ ~overlapped[w]) =>
    /\ ~Deleting(wsession[w])
    /\ wpc[w] = "write" => hand[w] = handles[wsession[w]] \/ Fresh(wsession[w])
    /\ wpc[w] = "purge" => Fresh(wsession[w]) /\ attempt[w] = 0
    /\ attempt[w] = 1 =>
         /\ Fresh(wsession[w])
         /\ wpc[w] = "write" => hand[w] = handles[wsession[w]]

AuditInv ==
  /\ AuditTypeOK
  /\ WriterInv /\ DeleteInv /\ MapInv /\ GapInv /\ RetryInv
  /\ HandInv /\ LinkInv
  /\ NoLeakedHandle /\ StrayOnlyFromGap /\ EvictionLosesNothing

(* No handle is open, and nobody writes or deletes.                        *)
LEMMA InitInv == AuditInit => AuditInv
BY AuditAssumption
DEF AuditInit, AuditInv, AuditTypeOK, WriterInv, DeleteInv, MapInv, GapInv,
    RetryInv, NoLeakedHandle, StrayOnlyFromGap, EvictionLosesNothing, Closed,
    FileHandle, Open, Busy, Done, MaxRetries, Deleting, HandInv, LinkInv

-----------------------------------------------------------------------------
(* Steps that leave a part of the state alone. *)

(* No handle is touched, and no deletion goes on.                          *)
LEMMA HandlesKept ==
  ASSUME AuditInv, UNCHANGED <<handles, fh, toClose, deleteVars>>
  PROVE  /\ DeleteInv' /\ MapInv' /\ GapInv' /\ LinkInv'
         /\ NoLeakedHandle' /\ StrayOnlyFromGap'
BY DEF AuditInv, deleteVars, DeleteInv, MapInv, GapInv, LinkInv,
       NoLeakedHandle, StrayOnlyFromGap, Mapped, Open, Deleting

(* No writer goes on, and no closed handle is made again.                  *)
LEMMA WritersKept ==
  ASSUME AuditInv, UNCHANGED writerVars,
         \A h \in Handles : Open(h)' => Open(h)
  PROVE  WriterInv' /\ EvictionLosesNothing'
BY DEF AuditInv, writerVars, WriterInv, EvictionLosesNothing

(* And what is open stays on its file.                                     *)
LEMMA HandsKept ==
  ASSUME AuditInv, UNCHANGED writerVars,
         \A h \in Handles : Open(h)' =>
           /\ Open(h) /\ fh'[h].owner = fh[h].owner
           /\ fh'[h].linked = fh[h].linked /\ fh'[h].inGap = fh[h].inGap
  PROVE  HandInv'
BY DEF AuditInv, AuditTypeOK, WriterInv, writerVars, HandInv

(* One handle is written to, or not for long.                              *)
LEMMA SetIdle ==
  ASSUME fh \in [Handles -> FileHandle], NEW h \in Handles, NEW b \in BOOLEAN,
         fh' = [fh EXCEPT ![h].idle = b]
  PROVE  /\ fh' \in [Handles -> FileHandle]
         /\ fh'[h].idle = b
         /\ \A g \in Handles :
              /\ fh'[g].owner = fh[g].owner /\ fh'[g].linked = fh[g].linked
              /\ fh'[g].inGap = fh[g].inGap /\ (g # h => fh'[g] = fh[g])
BY DEF FileHandle

-----------------------------------------------------------------------------
(* Every action keeps the invariant. *)

(* Each step on a part of the state that others use must leave that part   *)
(* as they need it: a handle leaves the map before it is closed, a purge   *)
(* finds its handle gone from the map, and what a deletion begins beside   *)
(* is marked.                                                              *)
LEMMA NextInv ==
  ASSUME AuditInv, [AuditNext]_auditVars
  PROVE  AuditInv'
<1>0. /\ None \notin Handles /\ None \notin Sessions /\ MaxDeletes \in Nat
      /\ fh \in [Handles -> FileHandle]
      /\ \A h \in Handles : /\ fh[h].owner \in Sessions \cup {None}
                            /\ fh[h].linked \in BOOLEAN
                            /\ fh[h].idle \in BOOLEAN
                            /\ fh[h].inGap \in BOOLEAN
  BY AuditAssumption DEF AuditInv, AuditTypeOK, FileHandle
<1> USE <1>0
<1>1. ASSUME NEW w \in Writers, NEW s \in Sessions, WriteBegin(w, s)
      PROVE  AuditInv'
  <2>1. /\ UNCHANGED <<handles, fh, toClose, deleteVars, attempt, hand>>
        /\ wpc[w] \in Done
        /\ wpc' = [wpc EXCEPT ![w] = "get"]
        /\ wsession' = [wsession EXCEPT ![w] = s]
        /\ overlapped'[w] = Deleting(s)
        /\ \A v \in Writers : v # w => overlapped'[v] = overlapped[v]
    BY <1>1 DEF AuditInv, AuditTypeOK, WriteBegin
  <2>2. overlapped'[w] \/ ~Deleting(s)'
    BY <2>1 DEF Deleting, deleteVars
  <2>3. /\ DeleteInv' /\ MapInv' /\ GapInv' /\ LinkInv'
        /\ NoLeakedHandle' /\ StrayOnlyFromGap'
    BY <2>1, HandlesKept
  <2>4. AuditTypeOK'
    BY <1>1 DEF AuditInv, AuditTypeOK, Deleting, deleteVars, WriteBegin,
       Busy, Done
  <2>5. WriterInv'
    BY <2>1 DEF AuditInv, AuditTypeOK, WriterInv, Open, Busy, Done
  <2>6. RetryInv'
    BY <2>1, <2>2 DEF AuditInv, AuditTypeOK, WriterInv, RetryInv, Fresh,
       Deleting, deleteVars
  <2>7. EvictionLosesNothing'
    BY <2>1 DEF AuditInv, AuditTypeOK, EvictionLosesNothing
  <2>20. HandInv'
    BY <2>1, <1>1 DEF AuditInv, AuditTypeOK, HandInv, Open
  <2> QED
    BY <2>3, <2>4, <2>5, <2>6, <2>7, <2>20 DEF AuditInv
<1>2. ASSUME NEW w \in Writers, GetOrCreate(w)
      PROVE  AuditInv'
  <2>1. wsession[w] \in Sessions /\ Deleting(wsession[w]) \in BOOLEAN
    BY <1>2 DEF GetOrCreate, Deleting, AuditInv, WriterInv, Busy
  <2>2. \A h \in Handles : OpenHandle(wsession[w], h) =>
          /\ handles' \in [Sessions -> Handles \cup {None}]
          /\ fh' \in [Handles -> FileHandle]
    BY <2>1 DEF OpenHandle, FileHandle, AuditInv, AuditTypeOK
  <2>3. /\ handles' \in [Sessions -> Handles \cup {None}]
        /\ fh' \in [Handles -> FileHandle]
        /\ hand' \in [Writers -> Handles \cup {None}]
        /\ wpc' = [wpc EXCEPT ![w] = "write"]
        /\ UNCHANGED <<wsession, attempt, overlapped, toClose, deleteVars>>
    BY <2>1, <2>2, <1>2 DEF GetOrCreate, Hold, AuditInv, AuditTypeOK
  <2>4. AuditTypeOK'
    BY <2>3 DEF AuditInv, AuditTypeOK, deleteVars, Busy, Done
  <2>5. WriterInv'
    BY <2>1, <2>3, <1>2 DEF AuditInv, WriterInv, Open, GetOrCreate, HasOpen,
       Unused, OpenHandle, Hold, Busy, Done
  <2>6. DeleteInv'
    BY <2>3 DEF AuditInv, DeleteInv, deleteVars
  <2>7. MapInv'
    BY <2>3, <1>2 DEF AuditInv, MapInv, Mapped, deleteVars, GetOrCreate,
       Unused, OpenHandle
  <2>8. GapInv'
    BY <1>2 DEF AuditInv, AuditTypeOK, DeleteInv, GapInv, RetryInv, Busy,
       Mapped, Deleting, deleteVars, GetOrCreate, Unused, OpenHandle
  <2>9. RetryInv'
    BY <2>3, <1>2 DEF AuditInv, WriterInv, MapInv, RetryInv, Busy, Open,
       Fresh, Deleting, deleteVars, GetOrCreate, HasOpen, OpenHandle, Hold
  <2>10. NoLeakedHandle'
    BY <2>1, <2>3, <1>2 DEF AuditInv, NoLeakedHandle, Open, Mapped,
       deleteVars, GetOrCreate, HasOpen, OpenHandle
  <2>11. StrayOnlyFromGap'
    BY <2>3, <1>2 DEF AuditInv, StrayOnlyFromGap, GetOrCreate, OpenHandle
  <2>12. EvictionLosesNothing'
    BY <2>3 DEF AuditInv, EvictionLosesNothing
  <2>20. HandInv'
    BY <2>1, <2>3, <1>2 DEF AuditInv, AuditTypeOK, WriterInv, MapInv, HandInv,
       RetryInv, StrayOnlyFromGap, Busy, Open, GetOrCreate, HasOpen, Unused,
       OpenHandle, Hold
  <2>21. LinkInv'
    <3>1. \A s \in Sessions : Deleting(s)' = Deleting(s)
      BY <2>3 DEF Deleting, deleteVars
    <3>2. CASE UNCHANGED fh
      BY <2>3, <3>1, <3>2 DEF AuditInv, LinkInv, Open
    <3>3. ASSUME NEW h \in Handles, OpenHandle(wsession[w], h)
          PROVE  LinkInv'
      <4>1. /\ fh'[h].owner = wsession[w]
            /\ fh'[h].inGap = Deleting(wsession[w])
            /\ \A g \in Handles : g # h => fh'[g] = fh[g]
        BY <3>3 DEF OpenHandle
      <4> QED
        BY <2>1, <3>1, <4>1 DEF AuditInv, LinkInv, Open
    <3> QED
      BY <3>2, <3>3, <1>2 DEF GetOrCreate
  <2> QED
    BY <2>4, <2>5, <2>6, <2>7, <2>8, <2>9, <2>10, <2>11, <2>12, <2>20, <2>21
    DEF AuditInv
<1>3. ASSUME NEW w \in Writers, OpenFails(w)
      PROVE  AuditInv'
  <2>1. /\ UNCHANGED <<handles, fh, toClose, deleteVars>>
        /\ wpc' = [wpc EXCEPT ![w] = "refused"]
        /\ wsession' = [wsession EXCEPT ![w] = None]
        /\ hand' = [hand EXCEPT ![w] = None]
        /\ attempt' = [attempt EXCEPT ![w] = 0]
        /\ overlapped' \in [Writers -> BOOLEAN]
    BY <1>3 DEF OpenFails, WriteReturns, AuditInv, AuditTypeOK
  <2>2. /\ DeleteInv' /\ MapInv' /\ GapInv' /\ LinkInv'
        /\ NoLeakedHandle' /\ StrayOnlyFromGap'
    BY <2>1, HandlesKept
  <2>3. AuditTypeOK'
    BY <2>1 DEF AuditInv, AuditTypeOK, deleteVars, MaxRetries, Busy, Done
  <2>4. WriterInv'
    BY <2>1 DEF AuditInv, AuditTypeOK, WriterInv, Busy, Open
  <2>5. RetryInv'
    BY <1>3 DEF AuditInv, AuditTypeOK, RetryInv, Busy, Fresh, Deleting,
       deleteVars, OpenFails, WriteReturns
  <2>6. EvictionLosesNothing'
    BY <1>3 DEF AuditInv, EvictionLosesNothing, OpenFails, WriteReturns
  <2>20. HandInv'
    BY <1>3, <2>1 DEF AuditInv, AuditTypeOK, HandInv, Open, OpenFails,
       WriteReturns
  <2> QED
    BY <2>2, <2>3, <2>4, <2>5, <2>6, <2>20 DEF AuditInv
<1>4. ASSUME NEW w \in Writers, WriteData(w)
      PROVE  AuditInv'
  <2>1. hand[w] \in Handles
    BY <1>4 DEF WriteData, AuditInv, WriterInv
  <2>2. /\ fh' \in [Handles -> FileHandle]
        /\ \A h \in Handles :
             /\ fh'[h].owner = fh[h].owner /\ fh'[h].linked = fh[h].linked
             /\ fh'[h].inGap = fh[h].inGap /\ (fh'[h].idle => fh[h].idle)
    BY <2>1, <1>4, SetIdle DEF WriteData
  <2>3. overlapped' \in [Writers -> BOOLEAN]
    BY <2>2, <1>4 DEF WriteData, WriteReturns, AuditInv, AuditTypeOK
  <2>4. /\ UNCHANGED <<handles, toClose, deleteVars>>
        /\ \A v \in Writers : v # w =>
             /\ wpc'[v] = wpc[v] /\ wsession'[v] = wsession[v]
             /\ hand'[v] = hand[v] /\ attempt'[v] = attempt[v]
             /\ overlapped'[v] = overlapped[v]
    BY <1>4 DEF WriteData, WriteReturns, AuditInv, AuditTypeOK
  <2>5. /\ Reached(w) \in {"kept", "lost"}
        /\ \/ \E o \in {Reached(w), "refused"} : wpc' = [wpc EXCEPT ![w] = o]
           \/ /\ wpc' = [wpc EXCEPT ![w] = "purge"] /\ ~Open(hand[w])
              /\ UNCHANGED <<wsession, hand, attempt, overlapped>>
    BY <1>4 DEF WriteData, WriteReturns, Reached
  <2>6. /\ wsession' \in [Writers -> Sessions \cup {None}]
        /\ hand' \in [Writers -> Handles \cup {None}]
        /\ attempt' \in [Writers -> 0 .. MaxRetries]
        /\ attempt'[w] = 0 \/ attempt' = attempt
    BY <1>4 DEF WriteData, WriteReturns, MaxRetries, AuditInv, AuditTypeOK
  <2>7. AuditTypeOK'
    BY <2>2, <2>3, <2>4, <2>5, <2>6 DEF AuditInv, AuditTypeOK, deleteVars,
       Busy, Done
  <2>8. WriterInv'
    <3>1. \/ wpc'[w] \in Done /\ attempt'[w] = 0 /\ wsession'[w] = None
          \/ wpc'[w] = "purge" /\ ~Open(hand[w]) /\ hand'[w] = hand[w]
             /\ wsession'[w] = wsession[w] /\ attempt'[w] = attempt[w]
      BY <2>5, <1>4 DEF WriteData, WriteReturns, Done, AuditInv, AuditTypeOK
    <3> QED
      BY <2>1, <2>2, <2>4, <3>1, <1>4
      DEF AuditInv, WriterInv, Busy, Open, Done, WriteData
  <2>9. DeleteInv'
    BY <2>4 DEF AuditInv, DeleteInv, deleteVars
  <2>10. MapInv'
    BY <2>2, <2>4 DEF AuditInv, AuditTypeOK, MapInv, deleteVars
  <2>11. GapInv'
    BY <2>2, <2>4 DEF AuditInv, AuditTypeOK, DeleteInv, GapInv, deleteVars
  <2>12. RetryInv'
    BY <2>2, <2>4, <2>5, <1>4 DEF AuditInv, AuditTypeOK, WriterInv, MapInv,
       RetryInv, Busy, Open, Fresh, Deleting, deleteVars, WriteData, Done
  <2>13. NoLeakedHandle'
    BY <2>2, <2>4 DEF AuditInv, NoLeakedHandle, Open, Mapped, deleteVars
  <2>14. StrayOnlyFromGap'
    BY <2>2, <2>4 DEF AuditInv, AuditTypeOK, StrayOnlyFromGap
  <2>15. EvictionLosesNothing'
    BY <2>4, <2>5 DEF AuditInv, AuditTypeOK, EvictionLosesNothing, Done
  <2>20. HandInv'
    BY <2>2, <2>4, <2>5 DEF AuditInv, AuditTypeOK, WriterInv, HandInv, Open
  <2>21. LinkInv'
    BY <2>2, <2>4 DEF AuditInv, LinkInv, Open, Deleting, deleteVars
  <2> QED
    BY <2>7, <2>8, <2>9, <2>10, <2>11, <2>12, <2>13, <2>14, <2>15, <2>20, <2>21
    DEF AuditInv
<1>5. ASSUME NEW w \in Writers, Purge(w)
      PROVE  AuditInv'
  <2>1. UNCHANGED <<handles, fh, toClose, deleteVars>>
    BY <1>5 DEF Purge, AuditInv, AuditTypeOK, WriterInv, MapInv, Open
  <2>2. /\ DeleteInv' /\ MapInv' /\ GapInv' /\ LinkInv'
        /\ NoLeakedHandle' /\ StrayOnlyFromGap'
    BY <2>1, HandlesKept
  <2>3. AuditTypeOK'
    BY <2>1, <1>5 DEF AuditInv, AuditTypeOK, WriterInv, deleteVars, Purge,
       WriteReturns, MaxRetries, Busy, Done
  <2>4. WriterInv'
    BY <1>5 DEF AuditInv, AuditTypeOK, WriterInv, Busy, Open, Purge,
       WriteReturns, Exhausted, MaxRetries, Done
  <2>5. RetryInv'
    BY <2>1, <1>5 DEF AuditInv, AuditTypeOK, RetryInv, Busy, Fresh,
       Deleting, deleteVars, Purge, WriteReturns
  <2>6. EvictionLosesNothing'
    BY <1>5 DEF AuditInv, AuditTypeOK, RetryInv, EvictionLosesNothing, Busy,
       Purge, WriteReturns, Exhausted, MaxRetries
  <2>20. HandInv'
    BY <2>1, <1>5 DEF AuditInv, AuditTypeOK, HandInv, Open, Purge,
       WriteReturns
  <2> QED
    BY <2>2, <2>3, <2>4, <2>5, <2>6, <2>20 DEF AuditInv
<1>6. ASSUME NEW h \in Handles, BecomeIdle(h)
      PROVE  AuditInv'
  <2>1. /\ fh' \in [Handles -> FileHandle]
        /\ \A g \in Handles :
             /\ fh'[g].owner = fh[g].owner /\ fh'[g].linked = fh[g].linked
             /\ fh'[g].inGap = fh[g].inGap
             /\ g # h => fh'[g] = fh[g]
    BY <1>6, SetIdle DEF BecomeIdle
  <2>2. /\ UNCHANGED <<handles, writerVars, toClose, deleteVars>>
        /\ \A w \in Writers : wsession[w] # fh[h].owner
    BY <1>6 DEF BecomeIdle
  <2>3. WriterInv' /\ EvictionLosesNothing'
    BY <2>1, <2>2, WritersKept DEF Open
  <2>4. AuditTypeOK'
    BY <2>1, <2>2 DEF AuditInv, AuditTypeOK, writerVars, deleteVars
  <2>5. DeleteInv'
    BY <2>2 DEF AuditInv, DeleteInv, deleteVars
  <2>6. MapInv'
    BY <2>1, <2>2 DEF AuditInv, AuditTypeOK, MapInv, deleteVars
  <2>7. GapInv'
    BY <2>1, <2>2 DEF AuditInv, AuditTypeOK, DeleteInv, GapInv, deleteVars
  <2>8. RetryInv'
    BY <2>1, <2>2 DEF AuditInv, AuditTypeOK, WriterInv, MapInv, RetryInv,
       Fresh, Deleting, writerVars, deleteVars
  <2>9. NoLeakedHandle'
    BY <2>1, <2>2 DEF AuditInv, NoLeakedHandle, Open, Mapped, deleteVars
  <2>10. StrayOnlyFromGap'
    BY <2>1, <2>2 DEF AuditInv, AuditTypeOK, StrayOnlyFromGap
  <2>20. HandInv'
    BY <2>1, <2>2, HandsKept DEF Open
  <2>21. LinkInv'
    BY <2>1, <2>2 DEF AuditInv, LinkInv, Open, Deleting, deleteVars
  <2> QED
    BY <2>3, <2>4, <2>5, <2>6, <2>7, <2>8, <2>9, <2>10, <2>20, <2>21
    DEF AuditInv
<1>7. ASSUME EvictCollect
      PROVE  AuditInv'
  <2>1. WriterInv' /\ EvictionLosesNothing'
    BY <1>7, WritersKept DEF EvictCollect, Open
  <2>2. AuditTypeOK'
    BY <1>7 DEF AuditInv, AuditTypeOK, writerVars, deleteVars, EvictCollect,
       Without
  <2>3. DeleteInv'
    BY <1>7 DEF AuditInv, DeleteInv, deleteVars, EvictCollect
  <2>4. MapInv'
    BY <1>7 DEF AuditInv, MapInv, deleteVars, EvictCollect, Without
  <2>5. GapInv'
    BY <1>7 DEF AuditInv, DeleteInv, GapInv, deleteVars, EvictCollect,
       Without
  <2>6. RetryInv'
    BY <1>7 DEF AuditInv, WriterInv, RetryInv, Fresh, Deleting, writerVars,
       deleteVars, EvictCollect, Without
  <2>7. NoLeakedHandle'
    BY <1>7 DEF AuditInv, NoLeakedHandle, Open, Mapped, deleteVars,
       EvictCollect, Without
  <2>8. StrayOnlyFromGap'
    BY <1>7 DEF AuditInv, StrayOnlyFromGap, EvictCollect, Without
  <2>20. HandInv'
    BY <1>7, HandsKept DEF EvictCollect, Open
  <2>21. LinkInv'
    BY <1>7 DEF AuditInv, LinkInv, Open, Deleting, deleteVars, EvictCollect
  <2> QED
    BY <2>1, <2>2, <2>3, <2>4, <2>5, <2>6, <2>7, <2>8, <2>20, <2>21
    DEF AuditInv
<1>8. ASSUME NEW h \in Handles, EvictClose(h)
      PROVE  AuditInv'
  <2>1. WriterInv' /\ EvictionLosesNothing'
    BY <1>8, WritersKept DEF EvictClose, Closed, Open
  <2>2. AuditTypeOK'
    BY <1>8 DEF AuditInv, AuditTypeOK, writerVars, deleteVars, EvictClose,
       Closed, FileHandle
  <2>3. DeleteInv'
    BY <1>8 DEF AuditInv, DeleteInv, deleteVars, EvictClose
  <2>4. MapInv'
    BY <1>8 DEF AuditInv, MapInv, deleteVars, EvictClose
  <2>5. GapInv'
    BY <1>8 DEF AuditInv, DeleteInv, MapInv, GapInv, deleteVars, EvictClose
  <2>6. RetryInv'
    BY <1>8 DEF AuditInv, RetryInv, Fresh, Deleting, writerVars, deleteVars,
       EvictClose, Closed
  <2>7. NoLeakedHandle'
    BY <1>8 DEF AuditInv, NoLeakedHandle, Open, Mapped, deleteVars,
       EvictClose, Closed
  <2>8. StrayOnlyFromGap'
    BY <1>8 DEF AuditInv, MapInv, StrayOnlyFromGap, EvictClose
  <2>20. HandInv'
    BY <1>8, HandsKept DEF EvictClose, Closed, Open
  <2>21. LinkInv'
    BY <1>8 DEF AuditInv, LinkInv, Open, Deleting, deleteVars, EvictClose,
       Closed
  <2> QED
    BY <2>1, <2>2, <2>3, <2>4, <2>5, <2>6, <2>7, <2>8, <2>20, <2>21
    DEF AuditInv
<1>9. ASSUME NEW s \in Sessions, DeleteBegin(s)
      PROVE  AuditInv'
  <2>1. AuditTypeOK'
    BY <1>9 DEF AuditInv, AuditTypeOK, DeleteBegin
  <2>2. WriterInv'
    BY <1>9 DEF AuditInv, WriterInv, Open, DeleteBegin
  <2>3. DeleteInv'
    BY <1>9 DEF AuditInv, DeleteInv, DeleteBegin
  <2>4. MapInv'
    BY <1>9 DEF AuditInv, MapInv, DeleteBegin
  <2>5. GapInv'
    BY <1>9 DEF GapInv, DeleteBegin
  <2>6. RetryInv'
    BY <1>9 DEF AuditInv, RetryInv, Fresh, Deleting, deleteVars, DeleteBegin
  <2>7. NoLeakedHandle'
    BY <1>9 DEF AuditInv, NoLeakedHandle, Open, Mapped, DeleteBegin
  <2>8. StrayOnlyFromGap'
    BY <1>9 DEF AuditInv, StrayOnlyFromGap, DeleteBegin
  <2>9. EvictionLosesNothing'
    BY <1>9 DEF AuditInv, EvictionLosesNothing, DeleteBegin
  <2>20. HandInv'
    BY <1>9 DEF AuditInv, HandInv, Open, DeleteBegin
  <2>21. LinkInv'
    BY <1>9 DEF AuditInv, LinkInv, Open, Deleting, DeleteBegin
  <2> QED
    BY <2>1, <2>2, <2>3, <2>4, <2>5, <2>6, <2>7, <2>8, <2>9, <2>20, <2>21
    DEF AuditInv
<1>10. ASSUME DeleteTake
       PROVE  AuditInv'
  <2>1. WriterInv' /\ EvictionLosesNothing'
    BY <1>10, WritersKept DEF DeleteTake, Open
  <2>2. AuditTypeOK'
    BY <1>10 DEF AuditInv, AuditTypeOK, DeleteInv, writerVars, DeleteTake,
       Taken, Dropped
  <2>3. DeleteInv'
    BY <1>10 DEF AuditInv, DeleteInv, DeleteTake
  <2>4. MapInv'
    BY <1>10 DEF AuditInv, AuditTypeOK, DeleteInv, MapInv, DeleteTake,
       Taken, Dropped
  <2>5. GapInv'
    BY <1>10 DEF AuditInv, AuditTypeOK, DeleteInv, GapInv, DeleteTake,
       Dropped
  <2>6. RetryInv'
    BY <1>10 DEF AuditInv, RetryInv, Fresh, Deleting, writerVars,
       DeleteTake, Dropped
  <2>7. NoLeakedHandle'
    BY <1>10 DEF AuditInv, DeleteInv, NoLeakedHandle, Open, Mapped,
       DeleteTake, Taken, Dropped
  <2>8. StrayOnlyFromGap'
    BY <1>10 DEF AuditInv, StrayOnlyFromGap, DeleteTake, Dropped
  <2>20. HandInv'
    BY <1>10, HandsKept DEF DeleteTake, Open
  <2>21. LinkInv'
    BY <1>10 DEF AuditInv, LinkInv, Open, Deleting, DeleteTake
  <2> QED
    BY <2>1, <2>2, <2>3, <2>4, <2>5, <2>6, <2>7, <2>8, <2>20, <2>21
    DEF AuditInv
<1>11. ASSUME DeleteClose
       PROVE  AuditInv'
  <2>1. WriterInv' /\ EvictionLosesNothing'
    BY <1>11, WritersKept DEF DeleteClose, Closed, Open
  <2>2. AuditTypeOK'
    BY <1>11 DEF AuditInv, AuditTypeOK, writerVars, DeleteClose, Closed,
       FileHandle
  <2>3. DeleteInv'
    BY <1>11 DEF AuditInv, DeleteInv, DeleteClose
  <2>4. MapInv'
    BY <1>11 DEF AuditInv, AuditTypeOK, MapInv, DeleteClose
  <2>5. GapInv'
    BY <1>11 DEF AuditInv, AuditTypeOK, DeleteInv, MapInv, GapInv,
       DeleteClose
  <2>6. RetryInv'
    BY <1>11 DEF AuditInv, AuditTypeOK, WriterInv, RetryInv, Fresh,
       Deleting, writerVars, DeleteClose, Closed
  <2>7. NoLeakedHandle'
    BY <1>11 DEF AuditInv, NoLeakedHandle, Open, Mapped, DeleteClose, Closed
  <2>8. StrayOnlyFromGap'
    BY <1>11 DEF AuditInv, AuditTypeOK, MapInv, StrayOnlyFromGap,
       DeleteClose
  <2>20. HandInv'
    BY <1>11, HandsKept DEF DeleteClose, Closed, Open
  <2>21. LinkInv'
    BY <1>11 DEF AuditInv, LinkInv, Open, Deleting, DeleteClose, Closed
  <2> QED
    BY <2>1, <2>2, <2>3, <2>4, <2>5, <2>6, <2>7, <2>8, <2>20, <2>21
    DEF AuditInv
<1>12. ASSUME DeleteRemove
       PROVE  AuditInv'
  <2>1. /\ fh' \in [Handles -> FileHandle]
        /\ \A h \in Handles :
             /\ fh'[h].owner = fh[h].owner /\ fh'[h].idle = fh[h].idle
             /\ fh'[h].inGap = fh[h].inGap
             /\ fh[h].owner # delSession => fh'[h].linked = fh[h].linked
             /\ fh[h].owner = delSession => ~fh'[h].linked
    BY <1>12 DEF DeleteRemove, Unlinked, FileHandle
  <2>2. /\ del = "remove" /\ del' = "idle" /\ delSession' = None
        /\ UNCHANGED <<handles, writerVars, toClose, delHandle, deletes>>
    BY <1>12 DEF DeleteRemove
  <2>3. WriterInv' /\ EvictionLosesNothing'
    BY <2>1, <2>2, WritersKept DEF Open
  <2>4. AuditTypeOK'
    BY <2>1, <2>2 DEF AuditInv, AuditTypeOK, writerVars
  <2>5. DeleteInv'
    BY <2>2 DEF AuditInv, DeleteInv
  <2>6. MapInv'
    BY <2>1, <2>2 DEF AuditInv, AuditTypeOK, MapInv
  <2>7. GapInv'
    BY <2>2 DEF GapInv
  <2>8. RetryInv'
    BY <2>1, <2>2 DEF AuditInv, AuditTypeOK, WriterInv, RetryInv, Fresh,
       Deleting, writerVars
  <2>9. NoLeakedHandle'
    BY <2>1, <2>2 DEF AuditInv, NoLeakedHandle, Open, Mapped
  <2>10. StrayOnlyFromGap'
    BY <2>1, <2>2 DEF AuditInv, AuditTypeOK, MapInv, GapInv,
       StrayOnlyFromGap
  <2>20. HandInv'
    BY <2>1, <2>2 DEF AuditInv, AuditTypeOK, WriterInv, HandInv, RetryInv,
       Busy, Open, Deleting, writerVars
  <2>21. LinkInv'
    BY <2>1, <2>2 DEF AuditInv, LinkInv, Open, Deleting
  <2> QED
    BY <2>3, <2>4, <2>5, <2>6, <2>7, <2>8, <2>9, <2>10, <2>20, <2>21
    DEF AuditInv
<1>13. ASSUME UNCHANGED auditVars
       PROVE  AuditInv'
  <2>1. UNCHANGED <<handles, fh, writerVars, toClose, deleteVars>>
    BY <1>13 DEF auditVars
  <2>2. /\ DeleteInv' /\ MapInv' /\ GapInv' /\ LinkInv'
        /\ NoLeakedHandle' /\ StrayOnlyFromGap'
    BY <2>1, HandlesKept
  <2>3. WriterInv' /\ EvictionLosesNothing'
    BY <2>1, WritersKept DEF Open
  <2>4. AuditTypeOK'
    BY <2>1 DEF AuditInv, AuditTypeOK, writerVars, deleteVars
  <2>5. RetryInv'
    BY <2>1 DEF AuditInv, RetryInv, Fresh, Deleting, writerVars, deleteVars
  <2>20. HandInv'
    BY <2>1, HandsKept DEF Open
  <2> QED
    BY <2>2, <2>3, <2>4, <2>5, <2>20 DEF AuditInv
<1> QED
  BY <1>1, <1>2, <1>3, <1>4, <1>5, <1>6, <1>7, <1>8, <1>9, <1>10,
     <1>11, <1>12, <1>13
  DEF AuditNext, WriteStep, EvictStep, DeleteStep

LEMMA InvAlways == AuditSpec => []AuditInv
BY InitInv, NextInv, PTL DEF AuditSpec

(* Types are kept (audit/writer.go:31-45).                                 *)
THEOREM AuditTypeCorrect == AuditSpec => []AuditTypeOK
<1>1. AuditInv => AuditTypeOK
  BY DEF AuditInv
<1> QED
  BY <1>1, InvAlways, PTL

(* A handle in the map is open, so getOrCreate, which looks without the    *)
(* handle's lock, hands out none that was closed before                    *)
(* (audit/writer.go:200-213, 258-269).                                     *)
THEOREM MappedAlwaysOpen == AuditSpec => []MappedIsOpen
<1>1. AuditInv => MappedIsOpen
  BY AuditAssumption DEF AuditInv, MapInv, MappedIsOpen, Open
<1> QED
  BY <1>1, InvAlways, PTL

(* Every open handle is in the map or about to be closed, by the eviction  *)
(* loop or by a deletion (audit/writer.go:200-213, 258-269).               *)
THEOREM NoHandleEverLeaks == AuditSpec => []NoLeakedHandle
<1>1. AuditInv => NoLeakedHandle
  BY DEF AuditInv
<1> QED
  BY <1>1, InvAlways, PTL

(* Two attempts are enough against the eviction loop, with any number of   *)
(* writers and sessions (audit/writer.go:110-136).                         *)
THEOREM EvictionNeverLoses == AuditSpec => []EvictionLosesNothing
<1>1. AuditInv => EvictionLosesNothing
  BY DEF AuditInv
<1> QED
  BY <1>1, InvAlways, PTL

(* A handle in the map has its file, unless it was opened in the gap of a  *)
(* deletion (session/manager.go:420-428).                                  *)
THEOREM StrayOnlyEverFromGap == AuditSpec => []StrayOnlyFromGap
<1>1. AuditInv => StrayOnlyFromGap
  BY DEF AuditInv
<1> QED
  BY <1>1, InvAlways, PTL

-----------------------------------------------------------------------------
(* What the log shows (audit/writer.go:91-136). *)

(* The handles from the gap, as the log sees them.                         *)
LEMMA GapsKept ==
  ASSUME delSession' = delSession,
         \A h \in Handles :
           /\ fh'[h].owner = fh[h].owner /\ fh'[h].linked = fh[h].linked
           /\ fh'[h].inGap = fh[h].inGap
  PROVE  GapOpened' = GapOpened /\ Astray' = Astray
BY DEF GapOpened, Astray, GapHandle

LEMMA GapsClosed ==
  ASSUME delSession' = delSession,
         \A h \in Handles : fh'[h] = fh[h] \/ fh'[h] = Closed
  PROVE  GapOpened' \in {GapOpened, FALSE} /\ Astray' \in SUBSET Astray
BY DEF GapOpened, Astray, GapHandle, Closed

(* What becomes of the entries and who met a deletion, when the writers    *)
(* stay among those that write or among those that do not.                 *)
LEMMA OutcomesKept ==
  ASSUME UNCHANGED overlapped,
         \A w \in Writers :
           wpc'[w] = wpc[w] \/ (wpc[w] \in Busy /\ wpc'[w] \in Busy)
  PROVE  Met' = Met /\ Outcome' = Outcome
BY DEF Met, Outcome, Busy, Done

(* A write returns.                                                        *)
LEMMA ReturnShows ==
  ASSUME AuditInv, NEW w \in Writers, NEW o \in Done \ {"idle"},
         wpc[w] \in Busy, WriteReturns(w, o), delSession' = delSession,
         GapOpened' = GapOpened, Astray' = Astray,
         o = "lost" => overlapped[w] \/ wsession[w] \in Astray,
         o = "failed" => overlapped[w]
  PROVE  Log!End(w, o)
<1>1. wsession[w] # None /\ o \in Log!Outcomes
  BY AuditAssumption DEF AuditInv, WriterInv, Log!Outcomes, Done
<1>2. /\ wpc' = [wpc EXCEPT ![w] = o] /\ wpc' [w] = o
      /\ \A v \in Writers : v # w =>
           wpc'[v] = wpc[v] /\ overlapped'[v] = overlapped[v]
  BY DEF WriteReturns, AuditInv, AuditTypeOK
<1>3. Met' = Met \ {w}
  BY <1>2 DEF Met, Busy, Done
<1>4. Outcome' = [Outcome EXCEPT ![w] = o]
  BY <1>2 DEF Outcome, Done
<1>5. w \in Met <=> overlapped[w]
  BY DEF Met
<1> QED
  BY <1>1, <1>3, <1>4, <1>5 DEF Log!End, WriteReturns

(* Every step of the writer is one of the log, or none it shows.           *)
LEMMA NextShows ==
  ASSUME AuditInv, [AuditNext]_auditVars
  PROVE  [Log!Next]_Log!vars
<1>0. /\ None \notin Handles /\ None \notin Sessions
      /\ \A h \in Handles : /\ fh[h].owner \in Sessions \cup {None}
                            /\ fh[h].linked \in BOOLEAN
                            /\ fh[h].inGap \in BOOLEAN
  BY AuditAssumption DEF AuditInv, AuditTypeOK, FileHandle
<1> USE <1>0
<1>1. ASSUME NEW w \in Writers, NEW s \in Sessions, WriteBegin(w, s)
      PROVE  Log!Begin(w, s)
  <2>1. /\ wpc[w] \in Done /\ wsession[w] = None /\ wpc'[w] = "get"
        /\ \A v \in Writers : v # w =>
             wpc'[v] = wpc[v] /\ overlapped'[v] = overlapped[v]
        /\ overlapped'[w] <=> delSession = s
        /\ UNCHANGED <<fh, delSession>>
    BY <1>1 DEF WriteBegin, Deleting, AuditInv, AuditTypeOK, WriterInv,
       DeleteInv, deleteVars
  <2>2. Met' = IF delSession = s THEN Met \cup {w} ELSE Met
    BY <2>1 DEF Met, Busy, Done
  <2>3. Outcome' = [Outcome EXCEPT ![w] = None]
    BY <2>1 DEF Outcome, Done
  <2>4. GapOpened' = GapOpened /\ Astray' = Astray
    BY <2>1, GapsKept
  <2> QED
    BY <2>1, <2>2, <2>3, <2>4, <1>1 DEF Log!Begin, WriteBegin
<1>2. ASSUME NEW w \in Writers, GetOrCreate(w)
      PROVE  Log!Open(w) \/ UNCHANGED Log!vars
  <2>1. /\ wpc[w] = "get" /\ wsession[w] \in Sessions
        /\ wpc' = [wpc EXCEPT ![w] = "write"]
        /\ UNCHANGED <<wsession, overlapped, delSession, del>>
    BY <1>2 DEF GetOrCreate, Hold, AuditInv, WriterInv, Busy, deleteVars
  <2>2. Met' = Met /\ Outcome' = Outcome
    BY <2>1, OutcomesKept DEF Busy, AuditInv, AuditTypeOK
  <2>3. CASE UNCHANGED fh
    BY <2>1, <2>2, <2>3, GapsKept DEF Log!vars
  <2>4. ASSUME NEW h \in Handles, Unused(h), OpenHandle(wsession[w], h)
        PROVE  Log!Open(w) \/ UNCHANGED Log!vars
    <3>1. /\ fh'[h].owner = wsession[w] /\ fh'[h].linked
          /\ fh'[h].inGap = Deleting(wsession[w])
          /\ \A g \in Handles : g # h => fh'[g] = fh[g]
          /\ ~fh[h].inGap
      BY <2>4 DEF OpenHandle, Unused, AuditInv, AuditTypeOK, LinkInv
    <3>2. Astray' = Astray
      BY <3>1 DEF Astray, GapHandle
    <3>3. CASE Deleting(wsession[w])
      <4>1. w \in Met /\ wsession[w] = delSession
        BY <2>1, <3>3 DEF Met, Deleting, Busy, AuditInv, AuditTypeOK, RetryInv
      <4>2. GapOpened'
        BY <2>1, <3>1, <3>3, <4>1 DEF GapOpened, GapHandle
      <4> QED
        BY <2>1, <2>2, <3>2, <4>1, <4>2 DEF Log!Open
    <3>4. CASE ~Deleting(wsession[w])
      <4>1. GapOpened' = GapOpened
        BY <2>1, <3>1, <3>4 DEF GapOpened, GapHandle
      <4> QED
        BY <2>1, <2>2, <3>2, <4>1 DEF Log!vars
    <3> QED
      BY <3>3, <3>4
  <2> QED
    BY <2>3, <2>4, <1>2 DEF GetOrCreate
<1>3. ASSUME NEW w \in Writers, OpenFails(w)
      PROVE  Log!End(w, "refused")
  <2>1. /\ wpc[w] \in Busy /\ WriteReturns(w, "refused")
        /\ UNCHANGED <<fh, delSession>> /\ "refused" \in Done \ {"idle"}
    BY <1>3 DEF OpenFails, Busy, Done, deleteVars
  <2> QED
    BY <2>1, GapsKept, ReturnShows
<1>4. ASSUME NEW w \in Writers, WriteData(w)
      PROVE  (\E o \in Log!Outcomes : Log!End(w, o)) \/ UNCHANGED Log!vars
  <2>1. /\ wpc[w] = "write" /\ hand[w] \in Handles
        /\ wsession[w] \in Sessions /\ UNCHANGED delSession
    BY <1>4 DEF WriteData, AuditInv, WriterInv, Busy, deleteVars
  <2>2. GapOpened' = GapOpened /\ Astray' = Astray
    <3>1. fh \in [Handles -> FileHandle]
      BY DEF AuditInv, AuditTypeOK
    <3>2. \A h \in Handles :
            /\ fh'[h].owner = fh[h].owner /\ fh'[h].linked = fh[h].linked
            /\ fh'[h].inGap = fh[h].inGap
      BY <1>4, <2>1, <3>1, SetIdle DEF WriteData
    <3> QED
      BY <2>1, <3>2, GapsKept
  <2>3. CASE Open(hand[w])
    <3>1. /\ WriteReturns(w, Reached(w)) \/ WriteReturns(w, "refused")
          /\ Reached(w) \in {"kept", "lost"}
          /\ Reached(w) = "lost" =>
               ~(fh[hand[w]].linked /\ fh[hand[w]].owner = wsession[w])
      BY <1>4, <2>3 DEF WriteData, Reached
    <3>2. Reached(w) = "lost" => overlapped[w] \/ wsession[w] \in Astray
      BY <2>1, <2>3, <3>1 DEF AuditInv, HandInv, Astray, GapHandle
    <3>3. /\ wpc[w] \in Busy /\ Reached(w) \in Done \ {"idle"}
          /\ "refused" \in Done \ {"idle"}
      BY <2>1, <3>1 DEF Busy, Done
    <3>4. Reached(w) # "failed"
      BY <3>1
    <3>5. Log!End(w, Reached(w)) \/ Log!End(w, "refused")
      BY <2>1, <2>2, <3>1, <3>2, <3>3, <3>4, ReturnShows
    <3> QED
      BY <3>1, <3>5 DEF Log!Outcomes
  <2>4. CASE ~Open(hand[w])
    <3>1. /\ UNCHANGED <<wsession, overlapped>>
          /\ wpc' = [wpc EXCEPT ![w] = "purge"]
      BY <1>4, <2>4 DEF WriteData
    <3>2. Met' = Met /\ Outcome' = Outcome
      BY <2>1, <3>1, OutcomesKept DEF Busy, AuditInv, AuditTypeOK
    <3> QED
      BY <2>1, <2>2, <3>1, <3>2 DEF Log!vars
  <2> QED
    BY <2>3, <2>4
<1>5. ASSUME NEW w \in Writers, Purge(w)
      PROVE  Log!End(w, "failed") \/ UNCHANGED Log!vars
  <2>1. wpc[w] = "purge" /\ UNCHANGED <<fh, delSession>>
    BY <1>5 DEF Purge, deleteVars
  <2>2. GapOpened' = GapOpened /\ Astray' = Astray
    BY <2>1, GapsKept
  <2>3. CASE Exhausted(w)
    <3>1. WriteReturns(w, "failed") /\ overlapped[w]
      BY <1>5, <2>1, <2>3 DEF Purge, Exhausted, MaxRetries, AuditInv,
         RetryInv, Busy
    <3>2. wpc[w] \in Busy /\ "failed" \in Done \ {"idle"}
      BY <2>1 DEF Busy, Done
    <3> QED
      BY <2>1, <2>2, <3>1, <3>2, ReturnShows
  <2>4. CASE ~Exhausted(w)
    <3>1. /\ UNCHANGED <<wsession, overlapped>>
          /\ wpc' = [wpc EXCEPT ![w] = "get"]
      BY <1>5, <2>4 DEF Purge
    <3>2. Met' = Met /\ Outcome' = Outcome
      BY <2>1, <3>1, OutcomesKept DEF Busy, AuditInv, AuditTypeOK
    <3> QED
      BY <2>1, <2>2, <3>1, <3>2 DEF Log!vars
  <2> QED
    BY <2>3, <2>4
<1>6. ASSUME NEW h \in Handles, BecomeIdle(h)
      PROVE  UNCHANGED Log!vars
  <2>1. fh \in [Handles -> FileHandle]
    BY DEF AuditInv, AuditTypeOK
  <2>2. /\ UNCHANGED <<writerVars, delSession>>
        /\ \A g \in Handles :
             /\ fh'[g].owner = fh[g].owner /\ fh'[g].linked = fh[g].linked
             /\ fh'[g].inGap = fh[g].inGap
    BY <1>6, <2>1, SetIdle DEF BecomeIdle, deleteVars
  <2> QED
    BY <2>2, GapsKept, OutcomesKept DEF writerVars, Log!vars
<1>7. ASSUME EvictCollect \/ DeleteTake \/ UNCHANGED auditVars
      PROVE  UNCHANGED Log!vars
  <2>1. UNCHANGED <<fh, writerVars, delSession>>
    BY <1>7 DEF EvictCollect, DeleteTake, auditVars, deleteVars
  <2> QED
    BY <2>1, GapsKept, OutcomesKept DEF writerVars, Log!vars
<1>8. ASSUME DeleteClose \/ \E h \in Handles : EvictClose(h)
      PROVE  Log!Close
  <2>1. /\ UNCHANGED <<writerVars, delSession>>
        /\ \A h \in Handles : fh'[h] = fh[h] \/ fh'[h] = Closed
    BY <1>8 DEF DeleteClose, EvictClose, deleteVars, AuditInv, AuditTypeOK
  <2>2. GapOpened' \in {GapOpened, FALSE} /\ Astray' \in SUBSET Astray
    BY <2>1, GapsClosed
  <2>3. Met' = Met /\ Outcome' = Outcome
    BY <2>1, OutcomesKept DEF writerVars
  <2> QED
    BY <2>1, <2>2, <2>3 DEF Log!Close, writerVars
<1>9. ASSUME NEW s \in Sessions, DeleteBegin(s)
      PROVE  Log!RemoveBegin(s)
  <2>1. /\ del = "idle" /\ delSession = None /\ delSession' = s
        /\ UNCHANGED <<fh, wpc, wsession>>
        /\ \A w \in Writers :
             overlapped'[w] = (overlapped[w] \/ wsession[w] = s)
    BY <1>9 DEF DeleteBegin, AuditInv, DeleteInv
  <2>2. \A w \in Writers : wsession[w] = s => wpc[w] \in Busy
    BY DEF AuditInv, AuditTypeOK, WriterInv
  <2>3. Met' = Met \cup {w \in Writers : wsession[w] = s}
    BY <2>1, <2>2 DEF Met
  <2>4. Outcome' = Outcome
    BY <2>1 DEF Outcome
  <2>5. \A h \in Handles : fh[h].inGap => fh[h].owner # None /\ ~fh[h].linked
    BY <2>1 DEF AuditInv, LinkInv, Open, Deleting
  <2>6. GapOpened' = GapOpened
    BY <2>1, <2>5 DEF GapOpened, GapHandle
  <2>7. Astray' = Astray
    BY <2>1 DEF Astray, GapHandle
  <2> QED
    BY <2>1, <2>3, <2>4, <2>6, <2>7 DEF Log!RemoveBegin
<1>10. ASSUME DeleteRemove
       PROVE  Log!RemoveEnd
  <2>1. /\ del = "remove" /\ delSession \in Sessions /\ delSession' = None
        /\ UNCHANGED writerVars
        /\ \A h \in Handles :
             /\ fh'[h].owner = fh[h].owner /\ fh'[h].inGap = fh[h].inGap
             /\ fh'[h].linked = (fh[h].linked /\ fh[h].owner # delSession)
    BY <1>10 DEF DeleteRemove, Unlinked, AuditInv, AuditTypeOK, DeleteInv,
       FileHandle
  <2>2. Met' = Met /\ Outcome' = Outcome
    BY <2>1, OutcomesKept DEF writerVars
  <2>3. GapOpened' = FALSE
    BY <2>1 DEF GapOpened, GapHandle, AuditInv, LinkInv, Open
  <2>4. Astray' = IF GapOpened THEN Astray \cup {delSession} ELSE Astray
    <3>1. \A s \in Sessions :
            s # delSession => (s \in Astray' <=> s \in Astray)
      BY <2>1 DEF Astray, GapHandle
    <3>2. delSession \in Astray'
            <=> \E h \in Handles : fh[h].owner = delSession /\ fh[h].inGap
      BY <2>1 DEF Astray, GapHandle
    <3>3. delSession \in Astray \/ GapOpened
            <=> \E h \in Handles : fh[h].owner = delSession /\ fh[h].inGap
      BY <2>1 DEF Astray, GapOpened, GapHandle
    <3>4. Astray \subseteq Sessions /\ Astray' \subseteq Sessions
      BY DEF Astray
    <3>5. delSession \in Astray' <=> delSession \in Astray \/ GapOpened
      BY <3>2, <3>3
    <3>6. CASE GapOpened
      <4>1. \A s \in Sessions :
              s \in Astray' <=> s \in Astray \cup {delSession}
        BY <3>1, <3>5, <3>6
      <4>2. Astray' = Astray \cup {delSession}
        BY <2>1, <3>4, <4>1
      <4> QED
        BY <3>6, <4>2
    <3>7. CASE ~GapOpened
      <4>1. \A s \in Sessions : s \in Astray' <=> s \in Astray
        BY <3>1, <3>5, <3>7
      <4>2. Astray' = Astray
        BY <3>4, <4>1
      <4> QED
        BY <3>7, <4>2
    <3> QED
      BY <3>6, <3>7
  <2> QED
    BY <2>1, <2>2, <2>3, <2>4 DEF Log!RemoveEnd, writerVars
<1> QED
  <2>1. CASE UNCHANGED auditVars
    BY <1>7, <2>1
  <2>2. ASSUME NEW w \in Writers, WriteStep(w)
        PROVE  [Log!Next]_Log!vars
    BY <1>2, <1>3, <1>4, <1>5, <2>2 DEF WriteStep, Log!Next, Log!Outcomes
  <2>3. CASE EvictStep
    BY <1>6, <1>7, <1>8, <2>3 DEF EvictStep, Log!Next
  <2>4. CASE DeleteStep
    BY <1>7, <1>8, <1>10, <2>4 DEF DeleteStep, Log!Next
  <2> QED
    BY <1>1, <1>9, <2>1, <2>2, <2>3, <2>4 DEF AuditNext, Log!Next

LEMMA InitShows == AuditInit => Log!Init
BY AuditAssumption
DEF AuditInit, Log!Init, Met, Outcome, GapOpened, Astray, GapHandle, Closed,
    Busy, Done

(* The writer keeps the promise of the log, with any number of writers,    *)
(* sessions, handles and deletions: an entry goes into the file of its own *)
(* session, and is lost only by a deletion of the session beside the write *)
(* or through a handle from the gap of an earlier one; a write gives up    *)
(* only beside a deletion (audit/writer.go:91-136, 143-269).               *)
THEOREM EntriesAlwaysKept == AuditSpec => EntriesAreKept
<1>1. AuditInv /\ [AuditNext]_auditVars => [Log!Next]_Log!vars
  BY NextShows
<1> QED
  BY <1>1, InitShows, InvAlways, PTL DEF AuditSpec, EntriesAreKept, Log!Spec
=============================================================================
