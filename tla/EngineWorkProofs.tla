------------------------- MODULE EngineWorkProofs -------------------------
(***************************************************************************)
(* Theorems about the background work of an engine: the upload cap and the *)
(* tasks that hash under it, for every set of torrents, threads and tasks, *)
(* every cap and every limit; and content copied from another engine, for  *)
(* any number of copies, files and pieces.                                 *)
(***************************************************************************)
EXTENDS Creator, ContentCopy, FiniteSetTheorems, TLAPS

(* Where a task stands when it holds the cap, when it is listed, and when  *)
(* its status is no longer to be changed.                                  *)
TaskOK ==
    \A k \in Jobs :
        /\ task[k].held => task[k].at \in {"held", "hash", "check", "commit", "off"}
        /\ task[k].listed => task[k].at # "new"
        /\ task[k].listed /\ task[k].status \in Active =>
              task[k].at \notin {"off", "last", "over"}

(* The executor's queue has the tasks that wait for a worker, each once.   *)
PoolOK ==
    /\ \A i \in 1..Len(pool) : task[pool[i]].at = "pool"
    /\ \A i, j \in 1..Len(pool) : pool[i] = pool[j] => i = j

MarkOK == \A k \in cancelled : task[k].at \notin {"new", "over"}

ObsType ==
    [Observers -> [at : {"idle", "read", "copied"}, t : Hashed,
                   full : BOOLEAN, seen : SUBSET Hashed]]

Records == [at : {"new", "pool", "over"} \union Begun,
            status : {"none", "completed", "failed", "cancelled"} \union Active,
            listed : BOOLEAN, held : BOOLEAN]

IInv ==
    CreatorTypeOK /\ TaskOK /\ PoolOK /\ MarkOK /\ SessionFollows /\ HoldAccounted

-----------------------------------------------------------------------------
(* What session_limit returns is a limit the session may have.             *)
LEMMA LimitType ==
    ASSUME NEW d \in Rates, NEW n \in Nat
    PROVE  SessionLimit(d, n) \in Rates \union {Cap}
<1> QED
  BY UploadHoldAssumption DEF SessionLimit

(* A call of observe that moves on is still one.                           *)
LEMMA ObsUpdate ==
    ASSUME NEW f \in ObsType, NEW o \in Observers,
           NEW at \in {"idle", "read", "copied"}, NEW S \in SUBSET Hashed
    PROVE  [f EXCEPT ![o].at = at, ![o].seen = S] \in ObsType
<1> DEFINE g == [f EXCEPT ![o].at = at, ![o].seen = S]
           R == [at : {"idle", "read", "copied"}, t : Hashed, full : BOOLEAN, seen : SUBSET Hashed]
<1>1. f \in [Observers -> R] /\ f[o] \in R
  BY DEF ObsType
<1>2. g[o] = [at |-> at, t |-> f[o].t, full |-> f[o].full, seen |-> S]
  BY <1>1
<1>3. g[o] \in R
  BY <1>1, <1>2
<1>4. \A q \in Observers \ {o} : g[q] = f[q]
  BY <1>1
<1>5. g = [q \in Observers |-> g[q]]
  BY <1>1
<1> HIDE DEF g, R
<1>6. \A q \in Observers : g[q] \in R
  BY <1>1, <1>3, <1>4
<1>7. g \in [Observers -> R]
  BY <1>5, <1>6
<1> QED
  BY <1>7 DEF g, R, ObsType

(* The tasks that hold the cap are finitely many.                          *)
LEMMA HoldersFinite ==
    /\ IsFiniteSet(CreatorHolds) /\ Cardinality(CreatorHolds) \in Nat
    /\ \A S \in SUBSET Hashed : IsFiniteSet(S) /\ Cardinality(S) \in Nat
<1>1. CreatorHolds \subseteq Jobs
  BY DEF CreatorHolds
<1> QED
  BY <1>1, CreatorAssumption, UploadHoldAssumption, FS_Subset, FS_CardinalityType

LEMMA DisjointCount ==
    ASSUME NEW S, IsFiniteSet(S), NEW T, IsFiniteSet(T), S \cap T = {}
    PROVE  /\ Cardinality(S \union T) = Cardinality(S) + Cardinality(T)
           /\ Cardinality(S) \in Nat /\ Cardinality(T) \in Nat
<1>1. Cardinality(S \union T) = Cardinality(S) + Cardinality(T) - Cardinality(S \cap T)
  BY FS_Union
<1>2. Cardinality(S \cap T) = 0
  BY FS_EmptySet
<1>3. Cardinality(S) \in Nat /\ Cardinality(T) \in Nat
  BY FS_CardinalityType
<1> QED
  BY <1>1, <1>2, <1>3

(* Taking R out of W and putting A in moves its size by their difference.  *)
LEMMA SwapCount ==
    ASSUME NEW W, IsFiniteSet(W), NEW A, IsFiniteSet(A), NEW R \in SUBSET W,
           A \cap W = {}
    PROVE  /\ Cardinality((W \ R) \union A)
                 = (Cardinality(W) + Cardinality(A)) - Cardinality(R)
           /\ Cardinality(W) \in Nat /\ Cardinality(A) \in Nat
           /\ Cardinality(R) \in Nat /\ Cardinality(R) <= Cardinality(W)
<1> DEFINE K == W \ R
<1>1. IsFiniteSet(R) /\ IsFiniteSet(K)
  BY FS_Subset
<1>2. K \union R = W /\ K \cap R = {} /\ K \cap A = {}
  OBVIOUS
<1> HIDE DEF K
<1>3. /\ Cardinality(W) = Cardinality(K) + Cardinality(R)
      /\ Cardinality(K) \in Nat /\ Cardinality(R) \in Nat
  BY <1>1, <1>2, DisjointCount
<1>4. /\ Cardinality(K \union A) = Cardinality(K) + Cardinality(A)
      /\ Cardinality(A) \in Nat
  BY <1>1, <1>2, DisjointCount
<1>5. Cardinality((W \ R) \union A) = Cardinality(K) + Cardinality(A)
  BY <1>4 DEF K
<1> QED
  BY <1>3, <1>4, <1>5

(* A sync gives every torrent it begins to watch one reference, and takes  *)
(* the reference of every torrent it leaves.                               *)
LEMMA SyncKeeps ==
    ASSUME IInv, NEW S \in SUBSET Hashed, Sync(S), UNCHANGED creatorOwn
    PROVE  /\ desired' \in Rates /\ refs' \in Nat /\ session' \in Rates \union {Cap}
           /\ pending' \in [Hashed -> {"no", "fresh", "due"}]
           /\ watched' \in SUBSET Hashed /\ last' \in SUBSET Hashed
           /\ HoldAccounted'
           /\ session = SessionLimit(desired, refs) =>
                 session' = SessionLimit(desired', refs')
<1> DEFINE added   == IF Holding THEN Wanted(S) \ watched ELSE {}
           removed == watched \ Wanted(S)
<1>1. /\ desired \in Rates /\ refs \in Nat /\ session \in Rates \union {Cap}
      /\ pending \in [Hashed -> {"no", "fresh", "due"}] /\ watched \in SUBSET Hashed
  BY DEF IInv, CreatorTypeOK, HoldTypeOK
<1>2. Wanted(S) \in SUBSET Hashed /\ added \in SUBSET Hashed /\ removed \in SUBSET watched
  BY DEF Wanted
<1>3. /\ desired' = desired /\ last' = S
      /\ watched' = (watched \ removed) \union added
      /\ refs' = (refs + Cardinality(added)) - Cardinality(removed)
      /\ session' = IF added \union removed = {} THEN session ELSE SessionLimit(desired, refs')
      /\ pending' = [t \in Hashed |-> IF t \in Wanted(S) \ S THEN pending[t] ELSE "no"]
  BY DEF Sync
<1>4. /\ Cardinality(watched') = (Cardinality(watched) + Cardinality(added)) - Cardinality(removed)
      /\ Cardinality(watched) \in Nat /\ Cardinality(added) \in Nat
      /\ Cardinality(removed) \in Nat /\ Cardinality(removed) <= Cardinality(watched)
  <2>1. IsFiniteSet(watched) /\ IsFiniteSet(added) /\ added \cap watched = {}
    BY <1>1, <1>2, HoldersFinite
  <2> HIDE DEF added, removed
  <2>2. /\ Cardinality((watched \ removed) \union added)
              = (Cardinality(watched) + Cardinality(added)) - Cardinality(removed)
        /\ Cardinality(watched) \in Nat /\ Cardinality(added) \in Nat
        /\ Cardinality(removed) \in Nat /\ Cardinality(removed) <= Cardinality(watched)
    <3>1. removed \in SUBSET watched
      BY <1>2
    <3> QED
      BY ONLY <2>1, <3>1, SwapCount
  <2> QED
    BY <1>3, <2>2
<1>5. refs = Cardinality(watched) + Cardinality(CreatorHolds) /\ Cardinality(CreatorHolds) \in Nat
  BY HoldersFinite DEF IInv, HoldAccounted
<1>6. CreatorHolds' = CreatorHolds
  BY DEF CreatorHolds, creatorOwn
<1>7. refs' \in Nat /\ HoldAccounted'
  <2> HIDE DEF added, removed
  <2> QED
    BY <1>1, <1>3, <1>4, <1>5, <1>6 DEF HoldAccounted
<1>8. added \union removed = {} => refs' = refs
  <2>1. ASSUME added = {}, removed = {}
        PROVE  refs' = refs
    <3>1. refs' = (refs + Cardinality({})) - Cardinality({})
      BY <1>3, <2>1
    <3> QED
      BY <1>1, <3>1, FS_EmptySet
  <2> QED
    BY <2>1
<1>9. session' \in Rates \union {Cap}
  BY <1>1, <1>3, <1>7, LimitType
<1>10. watched' \in SUBSET Hashed
  BY <1>1, <1>2, <1>3
<1>11. pending' \in [Hashed -> {"no", "fresh", "due"}]
  BY <1>1, <1>3
<1> HIDE DEF added, removed
<1> QED
  BY <1>1, <1>3, <1>7, <1>8, <1>9, <1>10, <1>11

-----------------------------------------------------------------------------
(* What the hold does leaves the creator's part of the invariant alone.    *)
LEMMA CreatorPartKept ==
    ASSUME IInv, UNCHANGED creatorOwn
    PROVE  /\ TaskOK' /\ PoolOK' /\ MarkOK'
           /\ CreatorHolds' = CreatorHolds
           /\ HoldTypeOK' => CreatorTypeOK'
<1>1. UNCHANGED <<pool, task, child, told, cancelled>>
  BY DEF creatorOwn
<1>2. TaskOK' /\ PoolOK' /\ MarkOK' /\ CreatorHolds' = CreatorHolds
  BY <1>1 DEF IInv, TaskOK, PoolOK, MarkOK, CreatorHolds
<1>3. HoldTypeOK' => CreatorTypeOK'
  BY <1>1 DEF IInv, CreatorTypeOK
<1> QED
  BY <1>2, <1>3

(* A step of the hold that keeps the references and the watched torrents   *)
(* keeps the count.                                                        *)
LEMMA CountKept ==
    ASSUME IInv, UNCHANGED <<refs, watched, creatorOwn>>
    PROVE  HoldAccounted'
<1> QED
  BY CreatorPartKept DEF IInv, HoldAccounted

LEMMA HoldPreserves ==
    ASSUME IInv, HoldNext, UNCHANGED creatorOwn
    PROVE  IInv'
<1> USE DEF HoldTypeOK, SessionFollows
<1>1. HoldTypeOK /\ SessionFollows /\ UploadHoldAssumption
  BY UploadHoldAssumption DEF IInv, CreatorTypeOK
<1>2. SUFFICES HoldTypeOK' /\ SessionFollows' /\ HoldAccounted'
  BY CreatorPartKept DEF IInv
<1>3. ASSUME NEW t \in Hashed, TorrentStep(t)
      PROVE  HoldTypeOK' /\ SessionFollows' /\ HoldAccounted'
  <2>1. UNCHANGED gate /\ UNCHANGED watched /\ UNCHANGED save
    BY <1>3 DEF TorrentStep, Relabel, Admit, GraceOver, ObserveRead, NoteRecheck,
                ObserveRemoved, tracker, threads
  <2>2. HoldTypeOK'
    <3>1. CASE Relabel(t) \/ Admit(t) \/ GraceOver(t)
      BY <1>1, <2>1, <3>1 DEF Relabel, Admit, GraceOver, gate, tracker, threads
    <3>2. ASSUME NEW o \in Observers, ObserveRead(o, t)
          PROVE  HoldTypeOK'
      BY <1>1, <2>1, <3>2 DEF ObserveRead, gate, tracker
    <3>3. ASSUME NEW o \in Observers, NoteRecheck(o, t)
          PROVE  HoldTypeOK'
      BY <1>1, <2>1, <3>3 DEF NoteRecheck, gate
    <3>4. ASSUME NEW o \in Observers, ObserveRemoved(o, t)
          PROVE  HoldTypeOK'
      BY <1>1, <2>1, <3>4 DEF ObserveRemoved, gate, tracker
    <3> QED
      BY <1>3, <3>1, <3>2, <3>3, <3>4 DEF TorrentStep
  <2>3. SessionFollows'
    BY <1>1, <2>1 DEF gate, SessionLimit
  <2>4. HoldAccounted'
    BY <2>1, CountKept DEF gate
  <2> QED
    BY <2>2, <2>3, <2>4
<1>4. ASSUME NEW o \in Observers, ObserverStep(o)
      PROVE  HoldTypeOK' /\ SessionFollows' /\ HoldAccounted'
  <2>1. CASE ObserveCopy(o)
    <3>1. UNCHANGED gate /\ UNCHANGED watched /\ UNCHANGED save
      BY <2>1 DEF ObserveCopy, tracker
    <3>2. Observed(o) \in SUBSET Hashed
      BY <1>1 DEF Observed
    <3>3. HoldTypeOK'
      <4>1. obs \in ObsType
        BY <1>1 DEF ObsType
      <4>2. obs' = [obs EXCEPT ![o].at = "copied", ![o].seen = Observed(o)]
        BY <2>1 DEF ObserveCopy
      <4>3. obs' \in ObsType
        BY <3>2, <4>1, <4>2, ObsUpdate
      <4> QED
        BY <1>1, <2>1, <4>3 DEF ObserveCopy, ObsType, gate, tracker
    <3>4. SessionFollows'
      BY <1>1, <3>1 DEF gate, SessionLimit
    <3> QED
      BY <3>1, <3>3, <3>4, CountKept DEF gate
  <2>2. CASE ObserveSync(o)
    <3>1. obs[o].seen \in SUBSET Hashed /\ Sync(obs[o].seen)
      BY <1>1, <2>2 DEF ObserveSync
    <3>2. UNCHANGED <<label, poll, save>>
      BY <2>2 DEF ObserveSync
    <3>3. obs' \in ObsType
      <4>1. obs \in ObsType
        BY <1>1 DEF ObsType
      <4>2. obs' = [obs EXCEPT ![o].at = "idle", ![o].seen = {}]
        BY <2>2 DEF ObserveSync
      <4> QED
        BY <4>1, <4>2, ObsUpdate
    <3> QED
      BY <1>1, <3>1, <3>2, <3>3, SyncKeeps DEF ObsType
  <2> QED
    BY <1>4, <2>1, <2>2 DEF ObserverStep
<1>5. ASSUME NEW p \in Pollers, PollerStep(p)
      PROVE  HoldTypeOK' /\ SessionFollows' /\ HoldAccounted'
  <2>1. CASE PollRead(p)
    <3>1. UNCHANGED gate /\ UNCHANGED watched /\ UNCHANGED save
      BY <2>1 DEF PollRead, tracker
    <3>2. HoldTypeOK'
      BY <1>1, <2>1 DEF PollRead, gate, tracker
    <3>3. SessionFollows'
      BY <1>1, <3>1 DEF gate, SessionLimit
    <3> QED
      BY <3>1, <3>2, <3>3, CountKept DEF gate
  <2>2. CASE PollSync(p)
    <3>1. poll[p].seen \in SUBSET Hashed /\ Sync(poll[p].seen)
      BY <1>1, <2>2 DEF PollSync
    <3>2. UNCHANGED <<label, obs, save>>
      BY <2>2 DEF PollSync
    <3>3. poll' \in [Pollers -> [at : {"idle", "read"}, seen : SUBSET Hashed]]
      BY <1>1, <2>2 DEF PollSync, Quiet
    <3> QED
      BY <1>1, <3>1, <3>2, <3>3, SyncKeeps
  <2> QED
    BY <1>5, <2>1, <2>2 DEF PollerStep
<1>6. ASSUME NEW s \in Savers, SaveLook(s) \/ SaverStep(s)
      PROVE  HoldTypeOK' /\ SessionFollows' /\ HoldAccounted'
  <2>1. UNCHANGED <<refs, label, tracker, obs, poll>>
    BY <1>6 DEF SaveLook, SaverStep, SaveLift, SaveRestore, gate
  <2>2. HoldAccounted'
    BY <2>1, CountKept DEF tracker
  <2>3. CASE SaveLook(s)
    <3>1. HoldTypeOK'
      BY <1>1, <2>1, <2>3 DEF SaveLook, gate, tracker
    <3>2. SessionFollows'
      <4>1. UNCHANGED gate /\ \A q \in Savers : save'[q].at # "lifted" => save[q].at # "lifted"
        BY <1>1, <2>3 DEF SaveLook
      <4> QED
        BY <1>1, <4>1 DEF gate, SessionLimit
    <3> QED
      BY <2>2, <3>1, <3>2
  <2>4. CASE SaveLift(s)
    <3>1. save[s].wanted \in Rates
      BY <1>1
    <3>2. session' \in Rates \union {Cap} /\ UNCHANGED desired
      BY <1>1, <2>4, <3>1 DEF SaveLift
    <3>4. save' \in [Savers -> [at : {"idle", "looked", "lifted"}, wanted : Rates, held : BOOLEAN]]
      <4>1. save' = [save EXCEPT ![s].at = "lifted"] \/ save' = [save EXCEPT ![s] = NotSaving]
        BY <2>4 DEF SaveLift
      <4>2. save \in [Savers -> [at : {"idle", "looked", "lifted"}, wanted : Rates, held : BOOLEAN]]
        BY <1>1
      <4>3. NotSaving \in [at : {"idle", "looked", "lifted"}, wanted : Rates, held : BOOLEAN]
        BY <1>1 DEF NotSaving, UploadHoldAssumption
      <4> QED
        BY <4>1, <4>2, <4>3
    <3>5. HoldTypeOK'
      BY <1>1, <2>1, <3>2, <3>4 DEF tracker
    <3>3. SessionFollows'
      <4>1. CASE save[s].held
        BY <1>1, <2>4, <4>1 DEF SaveLift
      <4>2. CASE ~save[s].held
        <5>1. /\ UNCHANGED <<session, desired, refs>>
              /\ \A q \in Savers : save'[q].at # "lifted" => save[q].at # "lifted"
          BY <1>1, <2>4, <4>2 DEF SaveLift
        <5> QED
          BY <1>1, <5>1 DEF SessionLimit
      <4> QED
        BY <4>1, <4>2
    <3> QED
      BY <2>2, <3>3, <3>5
  <2>5. CASE SaveRestore(s)
    <3>1. /\ save[s].wanted \in Rates /\ refs' = refs /\ desired' = save[s].wanted
          /\ session' = SessionLimit(save[s].wanted, refs)
      BY <1>1, <2>5 DEF SaveRestore
    <3>2. session' \in Rates \union {Cap}
      BY <1>1, <3>1, LimitType
    <3>3. HoldTypeOK'
      BY <1>1, <2>1, <2>5, <3>1, <3>2 DEF SaveRestore, NotSaving, tracker
    <3>4. SessionFollows'
      BY <3>1 DEF SessionLimit
    <3> QED
      BY <2>2, <3>3, <3>4
  <2> QED
    BY <1>6, <2>3, <2>4, <2>5 DEF SaverStep
<1>7. ASSUME NEW r \in Rates, SetDesired(r)
      PROVE  HoldTypeOK' /\ SessionFollows' /\ HoldAccounted'
  <2>1. session' \in Rates \union {Cap}
    BY <1>1, <1>7, LimitType DEF SetDesired
  <2>2. HoldTypeOK'
    BY <1>1, <1>7, <2>1 DEF SetDesired, tracker, threads
  <2>3. SessionFollows'
    BY <1>7 DEF SetDesired, SessionLimit
  <2>4. HoldAccounted'
    BY <1>7, CountKept DEF SetDesired, tracker
  <2> QED
    BY <2>2, <2>3, <2>4
<1> QED
  BY <1>3, <1>4, <1>5, <1>6, <1>7 DEF HoldNext

-----------------------------------------------------------------------------
(* A task takes a reference when it begins to hold the cap, and gives it   *)
(* back when it stops.                                                     *)
LEMMA TakeCounts ==
    ASSUME IInv, NEW k \in Jobs, TakeHold(k)
    PROVE  /\ desired' \in Rates /\ refs' \in Nat /\ session' \in Rates \union {Cap}
           /\ SessionFollows' /\ HoldAccounted'
<1>1. /\ desired \in Rates /\ refs \in Nat /\ session \in Rates \union {Cap}
      /\ task \in [Jobs -> [at : {"new", "pool", "over"} \union Begun,
                            status : {"none", "completed", "failed", "cancelled"} \union Active,
                            listed : BOOLEAN, held : BOOLEAN]]
      /\ SessionFollows /\ HoldAccounted /\ task[k].at = "begin" /\ ~task[k].held
  BY DEF IInv, CreatorTypeOK, HoldTypeOK, TaskOK, TakeHold
<1>2. /\ desired' = desired /\ watched' = watched /\ save' = save
      /\ refs' = IF Holding THEN refs + 1 ELSE refs
      /\ session' = IF Holding THEN SessionLimit(desired, refs + 1) ELSE session
      /\ task' = [task EXCEPT ![k].at = "held", ![k].held = Holding]
  BY DEF TakeHold, BeginCreate, tracker, threads
<1>3. Holding \in BOOLEAN
  BY UploadHoldAssumption DEF Holding
<1>4. refs' \in Nat /\ session' \in Rates \union {Cap}
  BY <1>1, <1>2, LimitType
<1>5. SessionFollows'
  BY <1>1, <1>2 DEF SessionFollows, SessionLimit
<1>6. CreatorHolds' = IF Holding THEN CreatorHolds \union {k} ELSE CreatorHolds
  <2>1. \A j \in Jobs : task'[j].held <=> IF j = k THEN Holding ELSE task[j].held
    BY <1>1, <1>2, <1>3
  <2> QED
    BY <1>1, <1>3, <2>1 DEF CreatorHolds
<1>7. Cardinality(CreatorHolds') = IF Holding THEN Cardinality(CreatorHolds) + 1
                                   ELSE Cardinality(CreatorHolds)
  <2>1. k \notin CreatorHolds /\ IsFiniteSet(CreatorHolds)
    BY <1>1, HoldersFinite DEF CreatorHolds
  <2> QED
    BY <1>6, <2>1, FS_AddElement
<1>8. Cardinality(watched) \in Nat /\ Cardinality(CreatorHolds) \in Nat
  BY HoldersFinite DEF IInv, CreatorTypeOK, HoldTypeOK
<1>9. HoldAccounted'
  BY <1>1, <1>2, <1>7, <1>8 DEF HoldAccounted
<1> QED
  BY <1>1, <1>2, <1>4, <1>5, <1>9

LEMMA ReleaseCounts ==
    ASSUME IInv, NEW k \in Jobs, Release(k)
    PROVE  /\ desired' \in Rates /\ refs' \in Nat /\ session' \in Rates \union {Cap}
           /\ SessionFollows' /\ HoldAccounted'
<1>1. /\ desired \in Rates /\ refs \in Nat /\ session \in Rates \union {Cap}
      /\ task \in [Jobs -> [at : {"new", "pool", "over"} \union Begun,
                            status : {"none", "completed", "failed", "cancelled"} \union Active,
                            listed : BOOLEAN, held : BOOLEAN]]
      /\ SessionFollows /\ HoldAccounted
  BY DEF IInv, CreatorTypeOK, HoldTypeOK
<1>2. /\ watched' = watched /\ save' = save
      /\ task' = [task EXCEPT ![k].at = "last", ![k].held = FALSE]
      /\ IF task[k].held THEN EndCreate ELSE UNCHANGED gate
  BY DEF Release, tracker, threads
<1>3. CreatorHolds' = CreatorHolds \ {k}
  <2>1. \A j \in Jobs : task'[j].held <=> (j # k /\ task[j].held)
    BY <1>1, <1>2
  <2> QED
    BY <2>1 DEF CreatorHolds
<1>4. /\ IsFiniteSet(CreatorHolds) /\ Cardinality(CreatorHolds) \in Nat
      /\ Cardinality(CreatorHolds') = IF task[k].held THEN Cardinality(CreatorHolds) - 1
                                      ELSE Cardinality(CreatorHolds)
      /\ task[k].held => Cardinality(CreatorHolds) > 0
  <2>1. IsFiniteSet(CreatorHolds) /\ Cardinality(CreatorHolds) \in Nat
    BY HoldersFinite
  <2>2. k \in CreatorHolds <=> task[k].held
    BY DEF CreatorHolds
  <2>3. Cardinality(CreatorHolds \ {k}) = IF k \in CreatorHolds THEN Cardinality(CreatorHolds) - 1
                                          ELSE Cardinality(CreatorHolds)
    BY <2>1, FS_RemoveElement
  <2>4. k \in CreatorHolds => Cardinality(CreatorHolds) # 0
    BY <2>1, FS_EmptySet
  <2> QED
    BY <1>3, <2>1, <2>2, <2>3, <2>4
<1>5. Cardinality(watched) \in Nat
  BY HoldersFinite DEF IInv, CreatorTypeOK, HoldTypeOK
<1>6. CASE task[k].held
  <2>1. refs > 0
    BY <1>1, <1>4, <1>5, <1>6 DEF HoldAccounted
  <2>2. desired' = desired /\ refs' = refs - 1 /\ session' = SessionLimit(desired, refs - 1)
    BY <1>2, <1>6, <2>1 DEF EndCreate
  <2>3. refs' \in Nat /\ session' \in Rates \union {Cap}
    BY <1>1, <2>1, <2>2, LimitType
  <2>4. HoldAccounted'
    BY <1>1, <1>2, <1>4, <1>5, <1>6, <2>2 DEF HoldAccounted
  <2>5. SessionFollows'
    BY <2>2 DEF SessionFollows, SessionLimit
  <2> QED
    BY <1>1, <2>2, <2>3, <2>4, <2>5
<1>7. CASE ~task[k].held
  <2>1. UNCHANGED <<desired, refs, session>>
    BY <1>2, <1>7 DEF gate
  <2>2. HoldAccounted'
    BY <1>1, <1>2, <1>4, <1>7, <2>1 DEF HoldAccounted
  <2>3. SessionFollows'
    BY <1>1, <1>2, <2>1 DEF SessionFollows, SessionLimit
  <2> QED
    BY <1>1, <2>1, <2>2, <2>3
<1> QED
  BY <1>6, <1>7

(* Every other step of a task leaves the hold and its holders alone.       *)
LEMMA HoldPartKept ==
    ASSUME IInv, UNCHANGED holdVars, CreatorHolds' = CreatorHolds
    PROVE  HoldTypeOK' /\ SessionFollows' /\ HoldAccounted'
<1>1. UNCHANGED <<desired, refs, session, label, pending, watched, last, obs, poll, save>>
  BY DEF holdVars, gate, tracker, threads
<1>2. HoldTypeOK'
  BY <1>1 DEF IInv, CreatorTypeOK, HoldTypeOK
<1>3. SessionFollows' /\ HoldAccounted'
  BY <1>1 DEF IInv, SessionFollows, SessionLimit, HoldAccounted
<1> QED
  BY <1>2, <1>3

(* The hold's half of the invariant, for the steps of a task.              *)
LEMMA JobHolds ==
    ASSUME IInv, NEW k \in Jobs, JobStep(k)
    PROVE  HoldTypeOK' /\ SessionFollows' /\ HoldAccounted'
<1>1. task \in [Jobs -> Records] /\ HoldTypeOK /\ TaskOK
  BY DEF IInv, CreatorTypeOK, Records
<1>2. CASE TakeHold(k)
  <2>1. UNCHANGED <<label, tracker, threads>>
    BY <1>2 DEF TakeHold
  <2> QED
    BY <1>1, <1>2, <2>1, TakeCounts DEF HoldTypeOK, tracker, threads
<1>3. CASE Release(k)
  <2>1. UNCHANGED <<label, tracker, threads>>
    BY <1>3 DEF Release
  <2> QED
    BY <1>1, <1>3, <2>1, ReleaseCounts DEF HoldTypeOK, tracker, threads
<1>4. CASE ~TakeHold(k) /\ ~Release(k)
  <2>1. UNCHANGED holdVars
    BY <1>4 DEF JobStep, SupervisorStep, Create, Cancel, Delete, Prune, TakeWorker, StartHash,
                Tell, Hear, CheckMark, Commit, Finish, ChildSays, ChildStops
  <2>2. \A j \in Jobs : task'[j].held = task[j].held
    <3>1. CASE Create(k)
      BY <1>1, <3>1 DEF Create, TaskOK, Records
    <3>2. CASE Cancel(k) \/ Delete(k) \/ Prune(k) \/ Finish(k)
      BY <1>1, <3>2 DEF Cancel, Delete, Prune, Finish, Records
    <3>3. ASSUME NEW at, NEW status, Go(k, at, status)
          PROVE  \A j \in Jobs : task'[j].held = task[j].held
      BY <1>1, <3>3 DEF Go
    <3>4. CASE TakeWorker(k)
      BY <3>3, <3>4 DEF TakeWorker
    <3>5. CASE StartHash(k)
      BY <3>3, <3>5 DEF StartHash
    <3>6. CASE Hear(k)
      BY <3>3, <3>6 DEF Hear
    <3>7. CASE CheckMark(k) \/ Commit(k)
      BY <3>3, <3>7 DEF CheckMark, Commit
    <3>8. CASE Tell(k) \/ ChildSays(k) \/ ChildStops(k)
      BY <3>8 DEF Tell, ChildSays, ChildStops
    <3> QED
      BY <1>4, <3>1, <3>2, <3>4, <3>5, <3>6, <3>7, <3>8 DEF JobStep, SupervisorStep
  <2>3. CreatorHolds' = CreatorHolds
    BY <2>2 DEF CreatorHolds
  <2> QED
    BY <2>1, <2>3, HoldPartKept
<1> QED
  BY <1>2, <1>3, <1>4

-----------------------------------------------------------------------------
(* The record of a task after a step that moves it on.                     *)
LEMMA GoRecord ==
    ASSUME IInv, NEW k \in Jobs, NEW at \in {"pool", "over"} \union Begun,
           NEW status \in {"none", "completed", "failed", "cancelled"} \union Active,
           Go(k, at, status)
    PROVE  /\ task' \in [Jobs -> Records]
           /\ \A j \in Jobs \ {k} : task'[j] = task[j]
           /\ task'[k] = [at |-> at, status |-> IF task[k].listed THEN status ELSE task[k].status,
                          listed |-> task[k].listed, held |-> task[k].held]
<1>1. task \in [Jobs -> Records] /\ task[k] \in Records
  BY DEF IInv, CreatorTypeOK, Records
<1>2. task' = [task EXCEPT ![k].at = at, ![k].status = Updated(k, status)]
  BY DEF Go
<1>3. Updated(k, status) \in {"none", "completed", "failed", "cancelled"} \union Active
  BY <1>1 DEF Updated, Records
<1>4. /\ \A j \in Jobs \ {k} : task'[j] = task[j]
      /\ task'[k] = [at |-> at, status |-> Updated(k, status),
                     listed |-> task[k].listed, held |-> task[k].held]
      /\ task' = [j \in Jobs |-> task'[j]]
  BY <1>1, <1>2 DEF Records
<1>5. \A j \in Jobs : task'[j] \in Records
  <2>1. task'[k] \in Records
    BY <1>1, <1>3, <1>4 DEF Records
  <2> QED
    BY <1>1, <1>4, <2>1
<1>6. task' \in [Jobs -> Records]
  BY <1>4, <1>5
<1> QED
  BY <1>4, <1>6 DEF Updated

(* A record of which the place and the hold change.                        *)
LEMMA RecordUpdate ==
    ASSUME task \in [Jobs -> Records], NEW k \in Jobs, NEW at \in Begun, NEW held \in BOOLEAN,
           task' = [task EXCEPT ![k].at = at, ![k].held = held]
    PROVE  /\ task' \in [Jobs -> Records]
           /\ \A j \in Jobs \ {k} : task'[j] = task[j]
           /\ task'[k] = [at |-> at, status |-> task[k].status, listed |-> task[k].listed,
                          held |-> held]
<1>1. /\ \A j \in Jobs \ {k} : task'[j] = task[j]
      /\ task'[k] = [at |-> at, status |-> task[k].status, listed |-> task[k].listed,
                     held |-> held]
      /\ task' = [j \in Jobs |-> task'[j]]
  BY DEF Records
<1>2. \A j \in Jobs : task'[j] \in Records
  <2>1. task'[k] \in Records
    BY <1>1 DEF Records
  <2> QED
    BY <1>1, <2>1
<1> QED
  BY <1>1, <1>2

(* The queue does not notice what happens to a task that is not in it.     *)
LEMMA PoolKept ==
    ASSUME PoolOK, pool \in Seq(Jobs), pool' = pool, NEW k \in Jobs, task[k].at # "pool",
           \A j \in Jobs \ {k} : task'[j] = task[j]
    PROVE  PoolOK'
<1>1. \A i \in 1..Len(pool) : pool[i] \in Jobs \ {k}
  BY DEF PoolOK
<1> QED
  BY <1>1 DEF PoolOK

(* A supervisor that moves on within _run keeps all of it, when it says a  *)
(* last word before it stops to hold the cap.                              *)
LEMMA MovesOn ==
    ASSUME IInv, NEW k \in Jobs, NEW at \in Begun,
           NEW status \in {"none", "completed", "failed", "cancelled"} \union Active,
           Go(k, at, status), cancelled' = cancelled, pool' = pool, task[k].at # "pool",
           task[k].held => at \in {"held", "hash", "check", "commit", "off"},
           at \in {"off", "last"} => status \notin Active
    PROVE  task' \in [Jobs -> Records] /\ TaskOK' /\ PoolOK' /\ MarkOK'
<1>1. /\ task' \in [Jobs -> Records]
      /\ \A j \in Jobs \ {k} : task'[j] = task[j]
      /\ task'[k] = [at |-> at, status |-> IF task[k].listed THEN status ELSE task[k].status,
                     listed |-> task[k].listed, held |-> task[k].held]
  BY GoRecord
<1>2. TaskOK /\ MarkOK /\ PoolOK /\ cancelled \in SUBSET Jobs /\ pool \in Seq(Jobs)
  BY DEF IInv, CreatorTypeOK
<1>3. at \notin {"new", "pool", "over"}
  BY DEF Begun
<1>4. TaskOK'
  BY <1>1, <1>2, <1>3 DEF TaskOK
<1>5. MarkOK'
  BY <1>1, <1>2, <1>3 DEF MarkOK
<1>6. PoolOK'
  <2>1. \A i \in 1..Len(pool) : pool[i] \in Jobs \ {k}
    BY <1>2 DEF PoolOK
  <2> QED
    BY <1>1, <1>2, <2>1 DEF PoolOK
<1> QED
  BY <1>1, <1>4, <1>5, <1>6

(* A mark has a thread that will clear it, whatever else the step does.    *)
LEMMA JobParts ==
    ASSUME IInv, NEW k \in Jobs, JobStep(k)
    PROVE  /\ pool' \in Seq(Jobs) /\ task' \in [Jobs -> Records]
           /\ child' \in [Jobs -> {"none", "hashing", "done", "cancelled", "error", "dead"}]
           /\ told' \in SUBSET Jobs /\ cancelled' \in SUBSET Jobs
           /\ TaskOK' /\ PoolOK' /\ MarkOK'
<1> DEFINE Parts ==
        /\ pool' \in Seq(Jobs) /\ task' \in [Jobs -> Records]
        /\ child' \in [Jobs -> {"none", "hashing", "done", "cancelled", "error", "dead"}]
        /\ told' \in SUBSET Jobs /\ cancelled' \in SUBSET Jobs
        /\ TaskOK' /\ PoolOK' /\ MarkOK'
<1>1. /\ pool \in Seq(Jobs) /\ task \in [Jobs -> Records]
      /\ child \in [Jobs -> {"none", "hashing", "done", "cancelled", "error", "dead"}]
      /\ told \in SUBSET Jobs /\ cancelled \in SUBSET Jobs
      /\ TaskOK /\ PoolOK /\ MarkOK
  BY DEF IInv, CreatorTypeOK, Records
<1>2. CASE Create(k)
  <2>1. /\ task[k].at = "new" /\ UNCHANGED <<child, told, cancelled>>
        /\ task' = [task EXCEPT ![k] = [at |-> "pool", status |-> "queued",
                                       listed |-> TRUE, held |-> FALSE]]
        /\ pool' = Append(pool, k)
    BY <1>2 DEF Create
  <2>2. task' \in [Jobs -> Records]
    BY <1>1, <2>1 DEF Records, Active
  <2>3. TaskOK' /\ MarkOK'
    BY <1>1, <2>1 DEF TaskOK, MarkOK, Active
  <2>4. /\ pool' \in Seq(Jobs) /\ Len(pool') = Len(pool) + 1 /\ Len(pool) \in Nat
        /\ \A i \in 1..Len(pool) : pool'[i] = pool[i] /\ pool[i] \in Jobs
        /\ pool'[Len(pool) + 1] = k
    BY <1>1, <2>1
  <2>5. \A i \in 1..Len(pool) : pool[i] # k
    BY <1>1, <2>1 DEF PoolOK
  <2>6. PoolOK'
    <3>1. \A i \in 1..Len(pool') : i \in 1..Len(pool) \/ i = Len(pool) + 1
      BY <2>4
    <3>2. \A i \in 1..Len(pool') : task'[pool'[i]].at = "pool"
      BY <1>1, <2>1, <2>4, <2>5, <3>1 DEF PoolOK
    <3>3. \A i, j \in 1..Len(pool') : pool'[i] = pool'[j] => i = j
      BY <1>1, <2>4, <2>5, <3>1 DEF PoolOK
    <3> QED
      BY <3>2, <3>3 DEF PoolOK
  <2> QED
    BY <1>1, <2>1, <2>2, <2>3, <2>4, <2>6
<1>3. CASE Cancel(k)
  <2>1. /\ task[k].listed /\ task[k].status \in Active
        /\ task' = [task EXCEPT ![k].status = "cancelled"] /\ cancelled' = cancelled \union {k}
        /\ UNCHANGED <<pool, child, told>>
    BY <1>3 DEF Cancel
  <2>2. task' \in [Jobs -> Records]
    BY <1>1, <2>1 DEF Records
  <2>3. \A j \in Jobs : task'[j].at = task[j].at
    BY <1>1, <2>1 DEF Records
  <2>4. TaskOK'
    BY <1>1, <2>1 DEF TaskOK, Records, Active
  <2>5. PoolOK'
    <3>1. \A i \in 1..Len(pool) : pool[i] \in Jobs
      BY <1>1
    <3> QED
      BY <1>1, <2>1, <2>3, <3>1 DEF PoolOK
  <2>6. MarkOK'
    <3>1. task[k].at \notin {"new", "over"}
      BY <1>1, <2>1 DEF TaskOK
    <3> QED
      BY <1>1, <2>1, <2>3, <3>1 DEF MarkOK
  <2> QED
    BY <1>1, <2>1, <2>2, <2>4, <2>5, <2>6
<1>4. CASE Delete(k) \/ Prune(k)
  <2>1. /\ task[k].listed /\ task' = [task EXCEPT ![k].listed = FALSE]
        /\ UNCHANGED <<pool, child, told>>
        /\ \/ cancelled' = cancelled \union {k} /\ task[k].status \in Active
           \/ cancelled' \subseteq cancelled
    BY <1>4 DEF Delete, Prune
  <2>2. task' \in [Jobs -> Records]
    BY <1>1, <2>1 DEF Records
  <2>3. \A j \in Jobs : task'[j].at = task[j].at
    BY <1>1, <2>1 DEF Records
  <2>4. TaskOK'
    BY <1>1, <2>1 DEF TaskOK, Records
  <2>5. PoolOK'
    <3>1. \A i \in 1..Len(pool) : pool[i] \in Jobs
      BY <1>1
    <3> QED
      BY <1>1, <2>1, <2>3, <3>1 DEF PoolOK
  <2>6. MarkOK'
    <3>1. task[k].status \in Active => task[k].at \notin {"new", "over"}
      BY <1>1, <2>1 DEF TaskOK
    <3> QED
      BY <1>1, <2>1, <2>3, <3>1 DEF MarkOK
  <2> QED
    BY <1>1, <2>1, <2>2, <2>4, <2>5, <2>6
<1>5. CASE TakeWorker(k)
  <2>1. /\ pool # <<>> /\ k = Head(pool) /\ pool' = Tail(pool)
        /\ UNCHANGED <<child, told, cancelled>>
        /\ IF k \in cancelled THEN Go(k, "last", "cancelled") ELSE Go(k, "begin", task[k].status)
    BY <1>5 DEF TakeWorker
  <2>2. /\ pool' \in Seq(Jobs) /\ Len(pool) \in Nat /\ Len(pool) > 0 /\ pool[1] = k
        /\ Len(pool') = Len(pool) - 1
        /\ \A i \in 1..Len(pool') : pool'[i] = pool[i + 1] /\ pool[i + 1] \in Jobs
    BY <1>1, <2>1
  <2>3. task[k].at = "pool" /\ ~task[k].held /\ task[k].status \in
            {"none", "completed", "failed", "cancelled"} \union Active
    <3>1. task[pool[1]].at = "pool"
      BY <1>1, <2>2 DEF PoolOK
    <3> QED
      BY <1>1, <2>2, <3>1 DEF TaskOK, Records
  <2>4. /\ task' \in [Jobs -> Records]
        /\ \A j \in Jobs \ {k} : task'[j] = task[j]
        /\ \/ task'[k] = [at |-> "last",
                          status |-> IF task[k].listed THEN "cancelled" ELSE task[k].status,
                          listed |-> task[k].listed, held |-> task[k].held]
           \/ task'[k] = [at |-> "begin", status |-> task[k].status,
                          listed |-> task[k].listed, held |-> task[k].held]
    <3>1. "last" \in Begun /\ "begin" \in Begun
      BY DEF Begun
    <3>2. CASE Go(k, "last", "cancelled")
      <4> QED
        BY <3>1, <3>2, GoRecord
    <3>3. CASE Go(k, "begin", task[k].status)
      <4>1. /\ task' \in [Jobs -> Records]
            /\ \A j \in Jobs \ {k} : task'[j] = task[j]
            /\ task'[k] = [at |-> "begin",
                           status |-> IF task[k].listed THEN task[k].status ELSE task[k].status,
                           listed |-> task[k].listed, held |-> task[k].held]
        BY <2>3, <3>1, <3>3, GoRecord
      <4>2. (IF task[k].listed THEN task[k].status ELSE task[k].status) = task[k].status
        OBVIOUS
      <4> QED
        BY <4>1, <4>2
    <3> QED
      BY <2>1, <3>2, <3>3
  <2>5. TaskOK'
    BY <1>1, <2>3, <2>4 DEF TaskOK, Active
  <2>6. MarkOK'
    BY <1>1, <2>1, <2>4 DEF MarkOK
  <2>7. PoolOK'
    <3>1. \A i \in 1..Len(pool') : i + 1 \in 1..Len(pool) /\ i + 1 # 1
      BY <2>2
    <3>2. \A i \in 1..Len(pool') : pool[i + 1] # k
      BY <1>1, <2>2, <3>1 DEF PoolOK
    <3>3. \A i \in 1..Len(pool') : task'[pool'[i]].at = "pool"
      BY <1>1, <2>2, <2>4, <3>1, <3>2 DEF PoolOK
    <3>4. \A i, j \in 1..Len(pool') : pool'[i] = pool'[j] => i = j
      <4>1. ASSUME NEW i \in 1..Len(pool'), NEW j \in 1..Len(pool'), pool'[i] = pool'[j]
            PROVE  i + 1 = j + 1
        BY <1>1, <2>2, <3>1, <4>1 DEF PoolOK
      <4>2. \A i, j \in 1..Len(pool') : i + 1 = j + 1 => i = j
        BY <2>2
      <4> QED
        BY <4>1, <4>2
    <3> QED
      BY <3>3, <3>4 DEF PoolOK
  <2> QED
    BY <1>1, <2>1, <2>2, <2>4, <2>5, <2>6, <2>7
<1>6. CASE TakeHold(k)
  <2>1. /\ task[k].at = "begin" /\ UNCHANGED <<pool, child, told, cancelled>>
        /\ task' = [task EXCEPT ![k].at = "held", ![k].held = Holding]
    BY <1>6 DEF TakeHold
  <2>2. Holding \in BOOLEAN /\ "held" \in Begun
    BY UploadHoldAssumption DEF Holding, Begun
  <2>3. /\ task' \in [Jobs -> Records]
        /\ \A j \in Jobs \ {k} : task'[j] = task[j]
        /\ task'[k] = [at |-> "held", status |-> task[k].status, listed |-> task[k].listed,
                       held |-> Holding]
    <3>1. CASE Holding = TRUE
      <4>1. task' = [task EXCEPT ![k].at = "held", ![k].held = TRUE]
        BY <2>1, <3>1, Zenon
      <4> QED
        BY <1>1, <2>2, <3>1, <4>1, RecordUpdate
    <3>2. CASE Holding = FALSE
      <4>1. task' = [task EXCEPT ![k].at = "held", ![k].held = FALSE]
        BY <2>1, <3>2, Zenon
      <4> QED
        BY <1>1, <2>2, <3>2, <4>1, RecordUpdate
    <3> QED
      BY <2>2, <3>1, <3>2, Zenon
  <2>4. TaskOK' /\ MarkOK'
    BY <1>1, <2>1, <2>3 DEF TaskOK, MarkOK
  <2>5. PoolOK'
    BY <1>1, <2>1, <2>3, PoolKept
  <2> QED
    BY <1>1, <2>1, <2>3, <2>4, <2>5
<1>7. CASE Release(k)
  <2>1. /\ task[k].at = "off" /\ UNCHANGED <<pool, child, told, cancelled>>
        /\ task' = [task EXCEPT ![k].at = "last", ![k].held = FALSE]
    BY <1>7 DEF Release
  <2>2. "last" \in Begun
    BY DEF Begun
  <2>3. /\ task' \in [Jobs -> Records]
        /\ \A j \in Jobs \ {k} : task'[j] = task[j]
        /\ task'[k] = [at |-> "last", status |-> task[k].status, listed |-> task[k].listed,
                       held |-> FALSE]
    BY <1>1, <2>1, <2>2, RecordUpdate
  <2>4. TaskOK' /\ MarkOK'
    BY <1>1, <2>1, <2>3 DEF TaskOK, MarkOK
  <2>5. PoolOK'
    BY <1>1, <2>1, <2>3, PoolKept
  <2> QED
    BY <1>1, <2>1, <2>3, <2>4, <2>5
<1>8. CASE Finish(k)
  <2>1. /\ task[k].at = "last" /\ UNCHANGED <<pool, child, told>>
        /\ task' = [task EXCEPT ![k].at = "over"] /\ cancelled' = cancelled \ {k}
    BY <1>8 DEF Finish
  <2>2. task' \in [Jobs -> Records]
    BY <1>1, <2>1 DEF Records
  <2>3. /\ \A j \in Jobs \ {k} : task'[j] = task[j]
        /\ task'[k] = [at |-> "over", status |-> task[k].status, listed |-> task[k].listed,
                       held |-> task[k].held]
    BY <1>1, <2>1 DEF Records
  <2>4. TaskOK' /\ MarkOK'
    <3>1. ~task[k].held /\ ~(task[k].listed /\ task[k].status \in Active)
      BY <1>1, <2>1 DEF TaskOK
    <3>2. TaskOK'
      BY <1>1, <2>3, <3>1 DEF TaskOK
    <3> QED
      BY <1>1, <2>1, <2>3, <3>2 DEF MarkOK
  <2>5. PoolOK'
    BY <1>1, <2>1, <2>3, PoolKept
  <2> QED
    BY <1>1, <2>1, <2>2, <2>4, <2>5
<1>9. CASE StartHash(k)
  <2>1. /\ task[k].at = "held" /\ Go(k, "hash", "processing") /\ UNCHANGED <<pool, told, cancelled>>
        /\ child' = [child EXCEPT ![k] = "hashing"]
    BY <1>9 DEF StartHash
  <2> QED
    BY <1>1, <2>1, MovesOn DEF Begun, Active
<1>10. CASE Hear(k)
  <2>1. /\ task[k].at = "hash" /\ UNCHANGED <<pool, child, told, cancelled>>
        /\ \/ Go(k, "check", task[k].status)
           \/ Go(k, "off", "cancelled")
           \/ Go(k, "off", "failed")
    BY <1>10 DEF Hear
  <2>2. task[k].status \in {"none", "completed", "failed", "cancelled"} \union Active
    BY <1>1 DEF Records
  <2> QED
    BY <1>1, <2>1, <2>2, MovesOn DEF Begun, Active
<1>11. CASE CheckMark(k)
  <2>1. /\ task[k].at = "check" /\ UNCHANGED <<pool, child, told, cancelled>>
        /\ Go(k, "off", "cancelled") \/ Go(k, "commit", task[k].status)
    BY <1>11 DEF CheckMark
  <2>2. task[k].status \in {"none", "completed", "failed", "cancelled"} \union Active
    BY <1>1 DEF Records
  <2> QED
    BY <1>1, <2>1, <2>2, MovesOn DEF Begun, Active
<1>12. CASE Commit(k)
  <2>1. /\ task[k].at = "commit" /\ UNCHANGED <<pool, child, told, cancelled>>
        /\ Go(k, "off", "completed")
    BY <1>12 DEF Commit
  <2> QED
    BY <1>1, <2>1, MovesOn DEF Begun, Active
<1>13. CASE Tell(k) \/ ChildSays(k) \/ ChildStops(k)
  <2>1. UNCHANGED <<pool, task, cancelled>>
    BY <1>13 DEF Tell, ChildSays, ChildStops
  <2>2. TaskOK' /\ PoolOK' /\ MarkOK'
    BY <1>1, <2>1 DEF TaskOK, PoolOK, MarkOK
  <2>3. told' \in SUBSET Jobs
    BY <1>1, <1>13 DEF Tell, ChildSays, ChildStops
  <2>4. child' \in [Jobs -> {"none", "hashing", "done", "cancelled", "error", "dead"}]
    <3>1. CASE Tell(k) \/ ChildStops(k)
      BY <1>1, <3>1 DEF Tell, ChildStops
    <3>2. CASE ChildSays(k)
      <4>1. PICK said \in {"error", "dead", "done"} : child' = [child EXCEPT ![k] = said]
        BY <3>2 DEF ChildSays
      <4> QED
        BY <1>1, <4>1
    <3> QED
      BY <1>13, <3>1, <3>2
  <2> QED
    BY <1>1, <2>1, <2>2, <2>3, <2>4
<1> QED
  BY <1>2, <1>3, <1>4, <1>5, <1>6, <1>7, <1>8, <1>9, <1>10, <1>11, <1>12, <1>13
     DEF JobStep, SupervisorStep

-----------------------------------------------------------------------------
LEMMA InitIInv == CreatorInit => IInv
<1> SUFFICES ASSUME CreatorInit PROVE IInv
  OBVIOUS
<1>1. HoldTypeOK
  BY UploadHoldAssumption DEF CreatorInit, HoldInit, HoldTypeOK, Quiet, NotSaving
<1>2. CreatorTypeOK
  BY <1>1 DEF CreatorInit, CreatorTypeOK
<1>3. TaskOK /\ PoolOK /\ MarkOK
  BY DEF CreatorInit, TaskOK, PoolOK, MarkOK
<1>4. SessionFollows
  BY DEF CreatorInit, HoldInit, SessionFollows, SessionLimit
<1>5. HoldAccounted
  <2>1. CreatorHolds = {} /\ watched = {} /\ refs = 0
    BY DEF CreatorInit, HoldInit, CreatorHolds
  <2> QED
    BY <2>1, FS_EmptySet DEF HoldAccounted
<1> QED
  BY <1>2, <1>3, <1>4, <1>5 DEF IInv

LEMMA StepIInv == IInv /\ [CreatorNext]_creatorVars => IInv'
<1> SUFFICES ASSUME IInv, [CreatorNext]_creatorVars PROVE IInv'
  OBVIOUS
<1>1. CASE HoldNext /\ UNCHANGED creatorOwn
  BY <1>1, HoldPreserves
<1>2. ASSUME NEW k \in Jobs, JobStep(k)
      PROVE  IInv'
  BY <1>2, JobHolds, JobParts DEF IInv, CreatorTypeOK, Records
<1>3. CASE UNCHANGED creatorVars
  <2>1. UNCHANGED holdVars /\ UNCHANGED creatorOwn
    BY <1>3 DEF creatorVars
  <2> QED
    BY <2>1, CreatorPartKept, HoldPartKept DEF IInv
<1> QED
  BY <1>1, <1>2, <1>3 DEF CreatorNext

LEMMA Inductive == CreatorSpec => []IInv
<1> QED
  BY InitIInv, StepIInv, PTL DEF CreatorSpec

(* The variables of the hold and of the creator keep their types.          *)
THEOREM TypeCorrect == CreatorSpec => []CreatorTypeOK
<1>1. IInv => CreatorTypeOK
  BY DEF IInv
<1> QED
  BY <1>1, Inductive, PTL

(* For any torrents, tasks and threads the session has the limit that the  *)
(* operator's wish and the references give, and every reference has one    *)
(* owner (begin_create, end_create, sync, _write_session_state).           *)
THEOREM CapIsSound == CreatorSpec => []CapSound
<1>1. IInv => CapSound
  BY DEF IInv, CapSound
<1> QED
  BY <1>1, Inductive, PTL

(* No task outlives its thread in an active status, and no cancel mark     *)
(* outlives the thread that clears it (cancel, delete, _run).              *)
THEOREM TasksHaveThreads == CreatorSpec => []ThreadsAnswer
<1>1. IInv => ThreadsAnswer
  BY DEF IInv, ThreadsAnswer, TaskOK, MarkOK
<1> QED
  BY <1>1, Inductive, PTL

-----------------------------------------------------------------------------
(* Copies of a torrent's content (ContentCopy).                            *)

(* All ways of copying put a file where libtorrent looks for it.           *)
Alike == SingleFile => Modes \intersect {"direct", "http"} = {}

Pieces == {"good", "hole"}
Media == {"disk", "part"}
File(f, o) == IF o = "disk" THEN disk[<<f>>] ELSE part[f]

Writes(c, f, o) == copier[c].at = "write" /\ copier[c].f = f /\ copier[c].onto = o

(* A piece is good, or a copy at work is still to write it.                *)
Reached(f, o, i) ==
    \/ i <= Len(File(f, o)) /\ File(f, o)[i] = "good"
    \/ \E c \in Copiers : Writes(c, f, o) /\ copier[c].pos < i

(* So are the pieces that are there, those a copy has behind it, and those *)
(* a copy is about to keep.                                                *)
Behind(f, o) ==
    /\ Len(File(f, o)) <= Size[f]
    /\ \A i \in 1..Size[f] : i <= Len(File(f, o)) => Reached(f, o, i)
    /\ \A c \in Copiers : Writes(c, f, o) =>
          /\ copier[c].pos <= Size[f]
          /\ \A i \in 1..Size[f] : i <= copier[c].pos => Reached(f, o, i)

Kept(f) ==
    \A c \in Copiers : copier[c].at = "open" /\ copier[c].f = f =>
        /\ copier[c].have <= Size[f]
        /\ \A i \in 1..Size[f] : i <= copier[c].have => Reached(f, "disk", i)

FilesOK == \A f \in Files : Behind(f, "disk") /\ Behind(f, "part") /\ Kept(f)

(* Only a local copy has a .part, and only direct and http go on from      *)
(* where the file ends.                                                    *)
ModesOK == \A c \in Copiers :
    /\ copier[c].at = "write" /\ copier[c].onto = "part" => copier[c].mode = "local"
    /\ copier[c].at = "open" /\ copier[c].mode \in {"local", "stream"} => copier[c].have = 0

(* A copy that was alone all the time is alone now, the files it has done  *)
(* have their length, and it writes at the end of the one it is at.        *)
Beside(c) == \A d \in Copiers : Working(d) => d = c
FilesDone(c) ==
    \A f \in Files :
        f \notin copier[c].todo /\ ~(copier[c].at \in {"open", "write"} /\ copier[c].f = f)
            => Len(disk[<<f>>]) = Size[f]
AtEnd(c) ==
    /\ copier[c].at # "failed"
    /\ copier[c].at = "open" => copier[c].have <= Len(disk[<<copier[c].f>>])
    /\ copier[c].at = "write" =>
          /\ copier[c].onto = (IF copier[c].mode = "local" THEN "part" ELSE "disk")
          /\ copier[c].pos = Len(File(copier[c].f, copier[c].onto))

LoneOK ==
    \A c \in Copiers : Working(c) /\ ~copier[c].shared => Beside(c) /\ FilesDone(c) /\ AtEnd(c)

(* Nothing is written below a root of the file's own name.                 *)
NoRoots == \A f \in Files : disk[<<f, f>>] = <<>>

CopyInv == CopyTypeOK /\ NoRoots /\ (~broken => FilesOK /\ ModesOK /\ LoneOK)
-----------------------------------------------------------------------------
(* Cut and Put as functions on sequences of pieces.                        *)
LEMMA CutPieces ==
  ASSUME NEW s \in Seq(Pieces), NEW n \in Nat
  PROVE  /\ Cut(s, n) \in Seq(Pieces) /\ Len(Cut(s, n)) = n
         /\ \A i \in 1..n : Cut(s, n)[i] = IF i <= Len(s) THEN s[i] ELSE "hole"
<1>1. Len(s) \in Nat /\ \A i \in 1..Len(s) : s[i] \in Pieces
  OBVIOUS
<1>2. \A i \in 1..n : (IF i <= Len(s) THEN s[i] ELSE "hole") \in Pieces
  BY <1>1 DEF Pieces
<1> QED
  BY <1>1, <1>2 DEF Cut

LEMMA PutPieces ==
  ASSUME NEW s \in Seq(Pieces), NEW n \in Nat
  PROVE  /\ Put(s, n) \in Seq(Pieces)
         /\ Len(Put(s, n)) = IF Len(s) > n THEN Len(s) ELSE n + 1
         /\ n + 1 \in 1..Len(Put(s, n)) /\ Put(s, n)[n + 1] = "good"
         /\ \A i \in 1..Len(s) : i # n + 1 => Put(s, n)[i] = s[i]
<1> DEFINE m == IF Len(s) > n THEN Len(s) ELSE n + 1
<1>1. m \in Nat /\ n + 1 \in 1..m /\ Len(s) \in Nat /\ Len(s) <= m
  OBVIOUS
<1>2. /\ Cut(s, m) \in Seq(Pieces) /\ Len(Cut(s, m)) = m
      /\ \A i \in 1..m : Cut(s, m)[i] = IF i <= Len(s) THEN s[i] ELSE "hole"
  BY <1>1, CutPieces
<1>3. Put(s, n) = [Cut(s, m) EXCEPT ![n + 1] = "good"]
  BY DEF Put
<1> HIDE DEF m
<1>4. /\ Put(s, n) \in Seq(Pieces) /\ Len(Put(s, n)) = m /\ Put(s, n)[n + 1] = "good"
      /\ \A i \in 1..m : i # n + 1 => Put(s, n)[i] = Cut(s, m)[i]
  BY <1>1, <1>2, <1>3 DEF Pieces
<1>5. \A i \in 1..Len(s) : i \in 1..m
  BY <1>1
<1> QED
  BY <1>1, <1>2, <1>4, <1>5 DEF m

(* The paths of files, and of files below a root of their own name.        *)
LEMMA PathsApart ==
  /\ \A f \in Files : <<f>> \in Paths /\ <<f, f>> \in Paths
  /\ \A f, g \in Files : <<f>> # <<g, g>> /\ (<<f>> = <<g>> => f = g)
<1>1. \A f, g : Len(<<f>>) = 1 /\ Len(<<g, g>>) = 2 /\ <<f>>[1] = f
  OBVIOUS
<1> QED
  BY <1>1 DEF Paths

(* The file is written where it is looked for.                             *)
LEMMA TargetIsFile ==
  ASSUME Alike, NEW m \in Modes \union {"none"}, NEW f
  PROVE  Target(m, f) = <<f>>
  BY CopyAssumption DEF Alike, Target

(* The path that is written is one of the file's.                          *)
LEMMA TargetPath ==
  ASSUME NEW m, NEW f \in Files
  PROVE  Target(m, f) \in Paths /\ Target(m, f)[1] = f
  BY PathsApart DEF Target

CopierStates ==
    [mode : Modes \union {"none"},
     at : {"away", "next", "file", "open", "write", "failed"}, todo : SUBSET Files,
     f : Files, have : Nat, pos : Nat, onto : {"disk", "part", "lost"}, shared : BOOLEAN]

(* What the types say of a copy and of a file.                             *)
LEMMA CopyTypes ==
  ASSUME CopyTypeOK
  PROVE  /\ copier \in [Copiers -> CopierStates]
         /\ \A c \in Copiers : copier[c] \in CopierStates
         /\ \A f \in Files : disk[<<f>>] \in Seq(Pieces) /\ part[f] \in Seq(Pieces)
         /\ \A f \in Files : Len(disk[<<f>>]) \in Nat /\ Len(part[f]) \in Nat /\ Size[f] \in Nat
         /\ \A p \in Paths : disk[p] \in Seq(Pieces)
<1>1. disk \in [Paths -> Seq(Pieces)] /\ part \in [Files -> Seq(Pieces)] /\ copier \in [Copiers -> CopierStates]
  BY DEF CopyTypeOK, CopierStates, Pieces
<1>2. \A f \in Files : disk[<<f>>] \in Seq(Pieces) /\ part[f] \in Seq(Pieces)
  BY <1>1, PathsApart
<1> QED
  BY <1>1, <1>2, CopyAssumption

LEMMA AwayType == Away \in CopierStates /\ Away.at = "away"
<1>1. (CHOOSE f \in Files : TRUE) \in Files
  BY CopyAssumption
<1> QED
  BY <1>1 DEF Away, CopierStates

LEMMA InitCopy == CopyInit => CopyInv
<1> SUFFICES ASSUME CopyInit PROVE CopyInv
  OBVIOUS
<1>1. CopyTypeOK
  <2>1. <<>> \in Seq({"good", "hole"})
    OBVIOUS
  <2>2. copier \in [Copiers -> CopierStates]
    BY AwayType DEF CopyInit
  <2> QED
    BY <2>1, <2>2 DEF CopyInit, CopyTypeOK, CopierStates
<1>2. NoRoots
  BY PathsApart DEF CopyInit, NoRoots
<1>3. \A c \in Copiers : copier[c].at = "away"
  BY DEF CopyInit, Away
<1>4. \A f \in Files : disk[<<f>>] = <<>> /\ part[f] = <<>>
  BY PathsApart DEF CopyInit
<1>5. FilesOK
  <2> SUFFICES ASSUME NEW f \in Files PROVE Behind(f, "disk") /\ Behind(f, "part") /\ Kept(f)
    BY DEF FilesOK
  <2>1. \A o \in Media : Len(File(f, o)) = 0
    BY <1>4 DEF File, Media
  <2>2. \A o \in Media : Behind(f, o)
    BY <1>3, <2>1, CopyAssumption DEF Behind, Writes
  <2> QED
    BY <1>3, <2>2 DEF Kept, Media
<1>6. ModesOK /\ LoneOK
  BY <1>3 DEF ModesOK, LoneOK, Working
<1> QED
  BY <1>1, <1>2, <1>5, <1>6 DEF CopyInv

(* One copy takes a step, the others stay as they are.                     *)
Others(c) == \A d \in Copiers : d # c => copier'[d] = copier[d]

LEMMA OneMoves ==
  ASSUME CopyTypeOK, NEW c \in Copiers, NEW n \in CopierStates, copier' = [copier EXCEPT ![c] = n]
  PROVE  copier' \in [Copiers -> CopierStates] /\ copier'[c] = n /\ Others(c)
<1>1. copier \in [Copiers -> CopierStates]
  BY CopyTypes
<1> QED
  BY <1>1 DEF Others

(* What each action does to the copies.                                    *)
LEMMA BeginEffect ==
  ASSUME CopyTypeOK, NEW c \in Copiers, NEW m \in Modes, CopyBegin(c, m)
  PROVE  /\ ~Working(c) /\ copier' \in [Copiers -> CopierStates]
         /\ copier'[c].at = "next" /\ copier'[c].mode = m /\ copier'[c].todo = Files
         /\ copier'[c].shared = (\E d \in Copiers : Working(d))
         /\ \A d \in Copiers : d # c =>
              copier'[d] = IF Working(d) THEN [copier[d] EXCEPT !.shared = TRUE] ELSE copier[d]
         /\ UNCHANGED <<disk, part, broken>> /\ staged' = (staged \/ m \in {"http", "stream"})
<1> DEFINE others == {d \in Copiers : Working(d)}
           n == [Away EXCEPT !.mode = m, !.at = "next", !.todo = Files, !.shared = (others # {})]
<1>1. (others # {}) \in BOOLEAN /\ (others # {}) = (\E d \in Copiers : Working(d))
  OBVIOUS
<1>2. /\ ~Working(c) /\ UNCHANGED <<disk, part, broken>> /\ staged' = (staged \/ m \in {"http", "stream"})
      /\ copier' = [d \in Copiers |->
            IF d = c THEN n
            ELSE IF d \in others THEN [copier[d] EXCEPT !.shared = TRUE] ELSE copier[d]]
  BY DEF CopyBegin
<1>3. PICK b \in BOOLEAN : b = (others # {})
  BY <1>1
<1> HIDE DEF others
<1>4. n \in CopierStates /\ n.at = "next" /\ n.mode = m /\ n.todo = Files /\ n.shared = (others # {})
  BY <1>3, AwayType DEF CopierStates
<1> HIDE DEF n
<1>5. \A d \in Copiers : [copier[d] EXCEPT !.shared = TRUE] \in CopierStates /\ copier[d] \in CopierStates
  BY CopyTypes DEF CopierStates
<1>6. /\ copier' \in [Copiers -> CopierStates] /\ copier'[c] = n
      /\ \A d \in Copiers : d # c =>
            copier'[d] = IF d \in others THEN [copier[d] EXCEPT !.shared = TRUE] ELSE copier[d]
  BY <1>2, <1>4, <1>5
<1> QED
  BY <1>1, <1>2, <1>4, <1>6 DEF others

LEMMA StagedEffect ==
  ASSUME CopyTypeOK, NEW c \in Copiers, TakeStaged(c)
  PROVE  /\ copier[c].mode = "stream" /\ copier[c].at = "next" /\ Others(c)
         /\ copier' \in [Copiers -> CopierStates]
         /\ copier'[c] = [copier[c] EXCEPT !.at = "file"] \/ copier'[c] = Away
         /\ UNCHANGED <<disk, part, broken>> /\ staged' = FALSE
<1> DEFINE n == IF staged THEN [copier[c] EXCEPT !.at = "file"] ELSE Away
<1>1. n \in CopierStates
  BY AwayType, CopyTypes DEF CopierStates
<1>2. copier' = [copier EXCEPT ![c] = n]
  BY DEF TakeStaged
<1> QED
  BY <1>1, <1>2, OneMoves DEF TakeStaged

LEMMA LookChanges ==
  ASSUME CopyTypeOK, NEW c \in Copiers, NEW f \in Files, Look(c, f)
  PROVE  /\ Ready(c) /\ f \in copier[c].todo /\ Others(c)
         /\ copier' \in [Copiers -> CopierStates] /\ UNCHANGED <<disk, part, broken, staged>>
         /\ copier'[c].todo = copier[c].todo \ {f} /\ copier'[c].mode = copier[c].mode
         /\ copier'[c].shared = copier[c].shared
         /\ \/ Skip(c, f) /\ copier'[c].at = copier[c].at
            \/ /\ ~Skip(c, f) /\ copier'[c].at = "open" /\ copier'[c].f = f
               /\ copier'[c].have <= Size[f] /\ copier'[c].have <= Len(disk[Target(copier[c].mode, f)])
               /\ copier'[c].mode \in {"direct", "http"}
                    => copier'[c].have = Smaller(Len(disk[Target(copier[c].mode, f)]), Size[f])
               /\ copier'[c].mode \in {"local", "stream"} => copier'[c].have = 0
<1> DEFINE small == Smaller(Len(disk[Target(copier[c].mode, f)]), Size[f])
           have == IF copier[c].mode \in {"direct", "http"} THEN small ELSE 0
           skipped == [copier[c] EXCEPT !.todo = @ \ {f}]
           begun == [copier[c] EXCEPT !.todo = @ \ {f}, !.at = "open", !.f = f, !.have = have]
<1>0. Len(disk[Target(copier[c].mode, f)]) \in Nat /\ Size[f] \in Nat
  <2>1. disk[Target(copier[c].mode, f)] \in Seq(Pieces)
    BY TargetPath, CopyTypes
  <2> QED
    BY <2>1, CopyAssumption
<1>1. small \in Nat /\ small <= Len(disk[Target(copier[c].mode, f)]) /\ small <= Size[f]
  BY <1>0 DEF Smaller
<1>2. /\ have \in Nat /\ have <= Len(disk[Target(copier[c].mode, f)]) /\ have <= Size[f]
      /\ copier[c].mode \in {"local", "stream"} => have = 0
      /\ copier[c].mode \in {"direct", "http"} => have = small
  <2> HIDE DEF small
  <2>1. CASE copier[c].mode \in {"direct", "http"}
    BY <1>1, <2>1
  <2>2. CASE copier[c].mode \notin {"direct", "http"}
    BY <1>0, <2>2
  <2> QED
    BY <2>1, <2>2
<1>3. copier' = [copier EXCEPT ![c] = IF Skip(c, f) THEN skipped ELSE begun]
  BY DEF Look
<1> HIDE DEF have
<1>4. skipped \in CopierStates /\ begun \in CopierStates
  BY <1>2, CopyTypes DEF CopierStates
<1>5. /\ skipped.todo = copier[c].todo \ {f} /\ skipped.mode = copier[c].mode
      /\ skipped.shared = copier[c].shared /\ skipped.at = copier[c].at
      /\ begun.todo = copier[c].todo \ {f} /\ begun.mode = copier[c].mode
      /\ begun.shared = copier[c].shared /\ begun.at = "open" /\ begun.f = f /\ begun.have = have
  BY CopyTypes DEF CopierStates
<1>6. Ready(c) /\ f \in copier[c].todo /\ UNCHANGED <<disk, part, broken, staged>>
  BY DEF Look
<1> HIDE DEF skipped, begun
<1>7. CASE Skip(c, f)
  <2>1. copier' = [copier EXCEPT ![c] = skipped]
    BY <1>3, <1>7
  <2>2. copier' \in [Copiers -> CopierStates] /\ copier'[c] = skipped /\ Others(c)
    BY <1>4, <2>1, OneMoves
  <2> QED
    BY <1>5, <1>6, <1>7, <2>2
<1>8. CASE ~Skip(c, f)
  <2>1. copier' = [copier EXCEPT ![c] = begun]
    BY <1>3, <1>8
  <2>2. copier' \in [Copiers -> CopierStates] /\ copier'[c] = begun /\ Others(c)
    BY <1>4, <2>1, OneMoves
  <2> QED
    BY <1>2, <1>5, <1>6, <1>8, <2>2
<1> QED
  BY <1>7, <1>8

(* The same when every way of copying writes the file itself.              *)
LEMMA LookEffect ==
  ASSUME Alike, CopyTypeOK, NEW c \in Copiers, NEW f \in Files, Look(c, f)
  PROVE  /\ Ready(c) /\ f \in copier[c].todo /\ Others(c)
         /\ copier' \in [Copiers -> CopierStates] /\ UNCHANGED <<disk, part, broken, staged>>
         /\ copier'[c].todo = copier[c].todo \ {f} /\ copier'[c].mode = copier[c].mode
         /\ copier'[c].shared = copier[c].shared
         /\ \/ Skip(c, f) /\ copier'[c].at = copier[c].at
            \/ /\ ~Skip(c, f) /\ copier'[c].at = "open" /\ copier'[c].f = f
               /\ copier'[c].have <= Len(disk[<<f>>]) /\ copier'[c].have <= Size[f]
               /\ copier'[c].mode \in {"local", "stream"} => copier'[c].have = 0
<1>1. Target(copier[c].mode, f) = <<f>>
  BY CopyTypes, TargetIsFile DEF CopierStates
<1> QED
  BY <1>1, LookChanges

LEMMA OpenChanges ==
  ASSUME CopyTypeOK, NEW c \in Copiers, Open(c)
  PROVE  /\ copier[c].at = "open" /\ Others(c)
         /\ copier' \in [Copiers -> CopierStates] /\ UNCHANGED <<broken, staged>>
         /\ copier'[c].at = "write" /\ copier'[c].f = copier[c].f /\ copier'[c].todo = copier[c].todo
         /\ copier'[c].pos = copier[c].have /\ copier'[c].mode = copier[c].mode
         /\ copier'[c].shared = copier[c].shared
         /\ copier'[c].onto = IF copier[c].mode = "local" THEN "part" ELSE "disk"
         /\ IF copier[c].mode = "local"
            THEN part' = [part EXCEPT ![copier[c].f] = <<>>] /\ disk' = disk
            ELSE disk' = [disk EXCEPT ![Target(copier[c].mode, copier[c].f)] = Cut(@, copier[c].have)] /\ part' = part
<1> DEFINE onto == IF copier[c].mode = "local" THEN "part" ELSE "disk"
           n == [copier[c] EXCEPT !.at = "write", !.pos = copier[c].have, !.onto = onto]
<1>1. copier' = [copier EXCEPT ![c] = n]
  BY CopyTypes DEF Open, OpenAt
<1>2. /\ n \in CopierStates /\ n.at = "write" /\ n.f = copier[c].f /\ n.todo = copier[c].todo
      /\ n.pos = copier[c].have /\ n.mode = copier[c].mode /\ n.shared = copier[c].shared /\ n.onto = onto
  BY CopyTypes DEF CopierStates
<1> HIDE DEF n
<1>3. copier' \in [Copiers -> CopierStates] /\ copier'[c] = n /\ Others(c)
  BY <1>1, <1>2, OneMoves
<1>4. /\ copier[c].at = "open" /\ UNCHANGED <<broken, staged>>
      /\ IF copier[c].mode = "local"
         THEN part' = [part EXCEPT ![copier[c].f] = <<>>] /\ disk' = disk
         ELSE disk' = [disk EXCEPT ![Target(copier[c].mode, copier[c].f)] = Cut(@, copier[c].have)] /\ part' = part
  BY DEF Open, OpenAt
<1> QED
  BY <1>2, <1>3, <1>4

LEMMA OpenEffect ==
  ASSUME Alike, CopyTypeOK, NEW c \in Copiers, Open(c)
  PROVE  /\ copier[c].at = "open" /\ Others(c)
         /\ copier' \in [Copiers -> CopierStates] /\ UNCHANGED <<broken, staged>>
         /\ copier'[c].at = "write" /\ copier'[c].f = copier[c].f /\ copier'[c].todo = copier[c].todo
         /\ copier'[c].pos = copier[c].have /\ copier'[c].mode = copier[c].mode
         /\ copier'[c].shared = copier[c].shared
         /\ copier'[c].onto = IF copier[c].mode = "local" THEN "part" ELSE "disk"
         /\ IF copier[c].mode = "local"
            THEN part' = [part EXCEPT ![copier[c].f] = <<>>] /\ disk' = disk
            ELSE disk' = [disk EXCEPT ![<<copier[c].f>>] = Cut(@, copier[c].have)] /\ part' = part
<1>1. Target(copier[c].mode, copier[c].f) = <<copier[c].f>>
  BY CopyTypes, TargetIsFile DEF CopierStates
<1> QED
  BY <1>1, OpenChanges

LEMMA WriteChanges ==
  ASSUME CopyTypeOK, NEW c \in Copiers, Write(c)
  PROVE  /\ copier[c].at = "write" /\ copier[c].pos < Size[copier[c].f] /\ Others(c)
         /\ copier' \in [Copiers -> CopierStates] /\ UNCHANGED <<broken, staged>>
         /\ copier'[c] = [copier[c] EXCEPT !.pos = @ + 1]
         /\ CASE copier[c].onto = "part" ->
                   part' = [part EXCEPT ![copier[c].f] = Put(@, copier[c].pos)] /\ disk' = disk
              [] copier[c].onto = "disk" ->
                   disk' = [disk EXCEPT ![Target(copier[c].mode, copier[c].f)] = Put(@, copier[c].pos)] /\ part' = part
              [] OTHER -> disk' = disk /\ part' = part
<1> DEFINE n == [copier[c] EXCEPT !.pos = @ + 1]
<1>1. copier' = [copier EXCEPT ![c] = n] /\ n \in CopierStates
  <2>1. copier[c] \in CopierStates /\ copier[c].pos + 1 \in Nat
    BY CopyTypes DEF CopierStates
  <2>2. n \in CopierStates
    BY <2>1 DEF CopierStates
  <2>3. copier' = [copier EXCEPT ![c].pos = @ + 1]
    BY DEF Write
  <2> QED
    BY <2>2, <2>3, CopyTypes
<1>2. copier' \in [Copiers -> CopierStates] /\ copier'[c] = n /\ Others(c)
  BY <1>1, OneMoves
<1> HIDE DEF n
<1> SUFFICES /\ copier[c].at = "write" /\ copier[c].pos < Size[copier[c].f] /\ UNCHANGED <<broken, staged>>
             /\ CASE copier[c].onto = "part" ->
                   part' = [part EXCEPT ![copier[c].f] = Put(@, copier[c].pos)] /\ disk' = disk
                [] copier[c].onto = "disk" ->
                   disk' = [disk EXCEPT ![Target(copier[c].mode, copier[c].f)] = Put(@, copier[c].pos)] /\ part' = part
                [] OTHER -> disk' = disk /\ part' = part
  BY <1>2 DEF n
<1> QED
  BY DEF Write

LEMMA WriteEffect ==
  ASSUME Alike, CopyTypeOK, NEW c \in Copiers, Write(c)
  PROVE  /\ copier[c].at = "write" /\ copier[c].pos < Size[copier[c].f] /\ Others(c)
         /\ copier' \in [Copiers -> CopierStates] /\ UNCHANGED <<broken, staged>>
         /\ copier'[c] = [copier[c] EXCEPT !.pos = @ + 1]
         /\ CASE copier[c].onto = "part" ->
                   part' = [part EXCEPT ![copier[c].f] = Put(@, copier[c].pos)] /\ disk' = disk
              [] copier[c].onto = "disk" ->
                   disk' = [disk EXCEPT ![<<copier[c].f>>] = Put(@, copier[c].pos)] /\ part' = part
              [] OTHER -> disk' = disk /\ part' = part
<1>1. Target(copier[c].mode, copier[c].f) = <<copier[c].f>>
  BY CopyTypes, TargetIsFile DEF CopierStates
<1> QED
  BY <1>1, WriteChanges

(* A local copy closes its .part: the others that had it open now write to *)
(* the file, and those that wrote to the old file write into nothing.      *)
LEMMA RenameChanges ==
  ASSUME CopyTypeOK, NEW c \in Copiers, CloseFile(c),
         copier[c].mode = "local", copier[c].onto = "part"
  PROVE  /\ copier[c].at = "write" /\ copier[c].pos >= Size[copier[c].f]
         /\ copier' \in [Copiers -> CopierStates] /\ UNCHANGED <<broken, staged>>
         /\ disk' = [disk EXCEPT ![<<copier[c].f>>] = part[copier[c].f]]
         /\ part' = [part EXCEPT ![copier[c].f] = <<>>]
         /\ \A d \in Copiers :
              /\ copier'[d].f = copier[d].f /\ copier'[d].todo = copier[d].todo
              /\ copier'[d].pos = copier[d].pos /\ copier'[d].mode = copier[d].mode
              /\ copier'[d].shared = copier[d].shared /\ copier'[d].have = copier[d].have
         /\ copier'[c].at = "next"
         /\ \A d \in Copiers : d # c =>
              /\ copier'[d].at = copier[d].at
              /\ copier'[d].onto = IF ~Working(d) \/ copier[d].f # copier[c].f THEN copier[d].onto
                                   ELSE IF copier[d].onto = "part" THEN "disk"
                                   ELSE IF Target(copier[d].mode, copier[d].f) = <<copier[d].f>>
                                        THEN "lost" ELSE copier[d].onto
<1> DEFINE f == copier[c].f
<1>1. f \in Files /\ \A d \in Copiers : copier[d] \in CopierStates
  BY CopyTypes DEF CopierStates
<1>2. /\ copier[c].at = "write" /\ copier[c].pos >= Size[f] /\ UNCHANGED <<broken, staged>>
      /\ disk' = [disk EXCEPT ![<<f>>] = part[f]] /\ part' = [part EXCEPT ![f] = <<>>]
      /\ copier' = [Renamed(f) EXCEPT ![c].at = NextFile(c), ![c].onto = "lost"]
  BY DEF CloseFile
<1>3. \A d \in Copiers : Renamed(f)[d] =
        IF ~Working(d) \/ copier[d].f # f THEN copier[d]
        ELSE IF copier[d].onto = "part" THEN [copier[d] EXCEPT !.onto = "disk"]
        ELSE IF copier[d].onto = "disk" /\ Target(copier[d].mode, copier[d].f) = <<copier[d].f>>
             THEN [copier[d] EXCEPT !.onto = "lost"] ELSE copier[d]
  <2> SUFFICES ASSUME NEW d \in Copiers
               PROVE  Renamed(f)[d] =
        IF ~Working(d) \/ copier[d].f # f THEN copier[d]
        ELSE IF copier[d].onto = "part" THEN [copier[d] EXCEPT !.onto = "disk"]
        ELSE IF copier[d].onto = "disk" /\ Target(copier[d].mode, copier[d].f) = <<copier[d].f>>
             THEN [copier[d] EXCEPT !.onto = "lost"] ELSE copier[d]
    OBVIOUS
  <2> HIDE DEF f
  <2> QED
    BY DEF Renamed
<1> HIDE DEF f
<1>4. \A d \in Copiers :
        LET r == copier[d]
            s == Renamed(f)[d]
        IN  /\ s \in CopierStates /\ s.at = r.at /\ s.f = r.f /\ s.todo = r.todo /\ s.pos = r.pos
            /\ s.mode = r.mode /\ s.shared = r.shared /\ s.have = r.have
            /\ s.onto = IF ~Working(d) \/ r.f # f THEN r.onto ELSE IF r.onto = "part" THEN "disk"
                      ELSE IF Target(r.mode, r.f) = <<r.f>> THEN "lost" ELSE r.onto
  <2> TAKE d \in Copiers
  <2>1. CASE ~Working(d) \/ copier[d].f # f
    BY <1>1, <1>3, <2>1
  <2>2. CASE Working(d) /\ copier[d].f = f
    <3>1. copier[d] \in CopierStates /\ copier[d].onto \in {"disk", "part", "lost"}
      BY <1>1 DEF CopierStates
    <3>2. CASE copier[d].onto = "part"
      <4>1. Renamed(f)[d] = [copier[d] EXCEPT !.onto = "disk"]
        BY <1>3, <2>2, <3>2
      <4> QED
        BY <2>2, <3>1, <3>2, <4>1 DEF CopierStates
    <3>3. CASE copier[d].onto = "disk" /\ Target(copier[d].mode, copier[d].f) = <<copier[d].f>>
      <4>1. Renamed(f)[d] = [copier[d] EXCEPT !.onto = "lost"]
        BY <1>3, <2>2, <3>3
      <4> QED
        BY <2>2, <3>1, <3>3, <4>1 DEF CopierStates
    <3>4. CASE \/ copier[d].onto = "lost"
               \/ copier[d].onto = "disk" /\ Target(copier[d].mode, copier[d].f) # <<copier[d].f>>
      BY <1>3, <2>2, <3>1, <3>4
    <3> QED
      BY <3>1, <3>2, <3>3, <3>4
  <2> QED
    BY <2>1, <2>2
<1>5. NextFile(c) = "next" /\ DOMAIN Renamed(f) = Copiers /\ Renamed(f) = [d \in Copiers |-> Renamed(f)[d]]
  BY DEF NextFile, Renamed
<1>6. PICK g : g = Renamed(f)
  OBVIOUS
<1>7. /\ copier' = [g EXCEPT ![c].at = "next", ![c].onto = "lost"]
      /\ g \in [Copiers -> CopierStates]
  BY <1>2, <1>4, <1>5, <1>6
<1> DEFINE n == [g[c] EXCEPT !.at = "next", !.onto = "lost"]
<1>8. copier' = [g EXCEPT ![c] = n]
  BY <1>7
<1>9. /\ n \in CopierStates /\ n.at = "next" /\ n.f = g[c].f /\ n.todo = g[c].todo
      /\ n.pos = g[c].pos /\ n.mode = g[c].mode /\ n.shared = g[c].shared /\ n.have = g[c].have
  BY <1>7 DEF CopierStates
<1> HIDE DEF n
<1>12. /\ copier' \in [Copiers -> CopierStates] /\ copier'[c] = n
       /\ \A d \in Copiers : d # c => copier'[d] = g[d]
  BY <1>7, <1>8, <1>9
<1>10. \A d \in Copiers :
              /\ copier'[d].f = copier[d].f /\ copier'[d].todo = copier[d].todo
              /\ copier'[d].pos = copier[d].pos /\ copier'[d].mode = copier[d].mode
              /\ copier'[d].shared = copier[d].shared /\ copier'[d].have = copier[d].have
  BY <1>4, <1>6, <1>9, <1>12
<1>11. \A d \in Copiers : d # c =>
              /\ copier'[d].at = copier[d].at
              /\ copier'[d].onto = IF ~Working(d) \/ copier[d].f # f THEN copier[d].onto
                                   ELSE IF copier[d].onto = "part" THEN "disk"
                                   ELSE IF Target(copier[d].mode, copier[d].f) = <<copier[d].f>>
                                        THEN "lost" ELSE copier[d].onto
  BY <1>4, <1>6, <1>12
<1> QED
  BY <1>2, <1>9, <1>10, <1>11, <1>12 DEF f

LEMMA RenameEffect ==
  ASSUME Alike, CopyTypeOK, NEW c \in Copiers, CloseFile(c),
         copier[c].mode = "local", copier[c].onto = "part"
  PROVE  /\ copier[c].at = "write" /\ copier[c].pos >= Size[copier[c].f]
         /\ copier' \in [Copiers -> CopierStates] /\ UNCHANGED <<broken, staged>>
         /\ disk' = [disk EXCEPT ![<<copier[c].f>>] = part[copier[c].f]]
         /\ part' = [part EXCEPT ![copier[c].f] = <<>>]
         /\ \A d \in Copiers :
              /\ copier'[d].f = copier[d].f /\ copier'[d].todo = copier[d].todo
              /\ copier'[d].pos = copier[d].pos /\ copier'[d].mode = copier[d].mode
              /\ copier'[d].shared = copier[d].shared /\ copier'[d].have = copier[d].have
         /\ copier'[c].at = "next"
         /\ \A d \in Copiers : d # c =>
              /\ copier'[d].at = copier[d].at
              /\ copier'[d].onto = IF ~Working(d) \/ copier[d].f # copier[c].f THEN copier[d].onto
                                   ELSE IF copier[d].onto = "part" THEN "disk" ELSE "lost"
<1>1. \A d \in Copiers : Target(copier[d].mode, copier[d].f) = <<copier[d].f>>
  BY CopyTypes, TargetIsFile DEF CopierStates
<1> QED
  BY <1>1, RenameChanges

LEMMA CloseEffect ==
  ASSUME CopyTypeOK, NEW c \in Copiers, CloseFile(c),
         ~(copier[c].mode = "local" /\ copier[c].onto = "part")
  PROVE  /\ copier[c].at = "write" /\ copier[c].pos >= Size[copier[c].f] /\ Others(c)
         /\ copier' \in [Copiers -> CopierStates] /\ UNCHANGED <<disk, part, broken, staged>>
         /\ copier'[c].at = IF copier[c].mode = "local" THEN "failed"
                            ELSE IF copier[c].mode = "stream" THEN "file" ELSE "next"
         /\ copier'[c].todo = copier[c].todo /\ copier'[c].mode = copier[c].mode
         /\ copier'[c].shared = copier[c].shared
<1> DEFINE at == IF copier[c].mode = "local" THEN "failed" ELSE NextFile(c)
           n == [copier[c] EXCEPT !.onto = "lost", !.at = at]
<1>1. at = IF copier[c].mode = "local" THEN "failed"
           ELSE IF copier[c].mode = "stream" THEN "file" ELSE "next"
  BY DEF NextFile
<1>2. copier' = [copier EXCEPT ![c] = n]
  <2>1. copier' = [copier EXCEPT ![c].onto = "lost",
                     ![c].at = IF copier[c].mode = "local" THEN "failed" ELSE NextFile(c)]
    BY DEF CloseFile
  <2> QED
    BY <2>1, CopyTypes
<1>3. at \in {"failed", "file", "next"}
  BY <1>1
<1> HIDE DEF at
<1>4. n \in CopierStates /\ n.at = at /\ n.todo = copier[c].todo /\ n.mode = copier[c].mode
      /\ n.shared = copier[c].shared
  BY <1>3, CopyTypes DEF CopierStates
<1> HIDE DEF n
<1>5. copier' \in [Copiers -> CopierStates] /\ copier'[c] = n /\ Others(c)
  BY <1>2, <1>4, OneMoves
<1>6. /\ copier[c].at = "write" /\ copier[c].pos >= Size[copier[c].f]
      /\ UNCHANGED <<disk, part, broken, staged>>
  BY DEF CloseFile
<1> QED
  BY <1>1, <1>4, <1>5, <1>6

LEMMA EndEffect ==
  ASSUME CopyTypeOK, NEW c \in Copiers, CopyDone(c) \/ CopyBreaks(c)
  PROVE  /\ Working(c) /\ Others(c) /\ copier' \in [Copiers -> CopierStates] /\ copier'[c] = Away
         /\ UNCHANGED <<disk, part>>
         /\ staged' \in {FALSE, staged}
         /\ CopyDone(c) => Ready(c) /\ broken' = broken
         /\ CopyBreaks(c) => broken' = (broken \/ (copier[c].at # "failed" /\ copier[c].shared))
<1>1. copier' = [copier EXCEPT ![c] = Away]
  BY DEF CopyDone, CopyBreaks
<1>2. copier' \in [Copiers -> CopierStates] /\ copier'[c] = Away /\ Others(c)
  BY <1>1, AwayType, OneMoves
<1> QED
  BY <1>2 DEF CopyDone, CopyBreaks, Ready, Working

(* The types are kept.                                                     *)
LEMMA StepCopyType ==
  ASSUME CopyTypeOK, CopyNext
  PROVE  CopyTypeOK'
<1>0. PICK c \in Copiers :
        \/ \E m \in Modes : CopyBegin(c, m)
        \/ TakeStaged(c) \/ (\E f \in Files : Look(c, f))
        \/ Open(c) \/ Write(c) \/ CloseFile(c) \/ CopyDone(c) \/ CopyBreaks(c)
  BY DEF CopyNext
<1> SUFFICES /\ disk' \in [Paths -> Seq(Pieces)] /\ part' \in [Files -> Seq(Pieces)]
             /\ copier' \in [Copiers -> CopierStates]
             /\ staged' \in BOOLEAN /\ broken' \in BOOLEAN
  BY DEF CopyTypeOK, CopierStates, Pieces
<1>t. /\ disk \in [Paths -> Seq(Pieces)] /\ part \in [Files -> Seq(Pieces)]
      /\ staged \in BOOLEAN /\ broken \in BOOLEAN
      /\ <<>> \in Seq(Pieces)
  BY DEF CopyTypeOK, Pieces
<1>s. copier[c] \in CopierStates /\ copier[c].f \in Files /\ copier[c].have \in Nat
      /\ copier[c].pos \in Nat /\ copier[c].shared \in BOOLEAN
  BY CopyTypes DEF CopierStates
<1>1. CASE \E m \in Modes : CopyBegin(c, m)
  BY <1>t, <1>1, BeginEffect
<1>2. CASE TakeStaged(c)
  BY <1>t, <1>2, StagedEffect
<1>3. CASE \E f \in Files : Look(c, f)
  BY <1>t, <1>3, LookChanges
<1>4. CASE Open(c)
  <2>1. Cut(disk[Target(copier[c].mode, copier[c].f)], copier[c].have) \in Seq(Pieces)
    BY <1>s, CutPieces, CopyTypes, TargetPath
  <2> QED
    BY <1>t, <1>s, <1>4, <2>1, OpenChanges, TargetPath
<1>5. CASE Write(c)
  <2>1. /\ Put(disk[Target(copier[c].mode, copier[c].f)], copier[c].pos) \in Seq(Pieces)
        /\ Put(part[copier[c].f], copier[c].pos) \in Seq(Pieces)
    BY <1>s, PutPieces, CopyTypes, TargetPath
  <2>2. CASE copier[c].onto = "part"
    BY <1>t, <1>s, <1>5, <2>1, <2>2, WriteChanges
  <2>3. CASE copier[c].onto = "disk"
    <3>1. /\ part' = part /\ copier' \in [Copiers -> CopierStates] /\ UNCHANGED <<broken, staged>>
          /\ disk' = [disk EXCEPT ![Target(copier[c].mode, copier[c].f)] =
                        Put(disk[Target(copier[c].mode, copier[c].f)], copier[c].pos)]
      BY <1>5, <2>3, WriteChanges
    <3> QED
      BY <1>t, <1>s, <2>1, <3>1
  <2>4. CASE copier[c].onto \notin {"disk", "part"}
    BY <1>t, <1>s, <1>5, <2>4, WriteChanges
  <2> QED
    BY <2>2, <2>3, <2>4
<1>6. CASE CloseFile(c)
  <2>1. CASE copier[c].mode = "local" /\ copier[c].onto = "part"
    <3>1. part[copier[c].f] \in Seq(Pieces)
      BY <1>t, <1>s
    <3> QED
      BY <1>t, <1>s, <1>6, <2>1, <3>1, RenameChanges, PathsApart
  <2>2. CASE ~(copier[c].mode = "local" /\ copier[c].onto = "part")
    BY <1>t, <1>6, <2>2, CloseEffect
  <2> QED
    BY <2>1, <2>2
<1>7. CASE CopyDone(c) \/ CopyBreaks(c)
  BY <1>t, <1>s, <1>7, EndEffect
<1> QED
  BY <1>0, <1>1, <1>2, <1>3, <1>4, <1>5, <1>6, <1>7
-----------------------------------------------------------------------------
(* The pieces that are there, or are still to come.                        *)

(* A copy keeps the file it writes and its place in it.                    *)
SameWriter(d) ==
    /\ copier'[d].at = copier[d].at /\ copier'[d].f = copier[d].f
    /\ copier'[d].onto = copier[d].onto /\ copier'[d].pos = copier[d].pos

LEMMA FileTypes ==
  ASSUME CopyTypeOK, NEW f \in Files, NEW o \in Media
  PROVE  File(f, o) \in Seq(Pieces) /\ Len(File(f, o)) \in Nat /\ Size[f] \in Nat
  BY CopyTypes DEF File

(* A step that leaves the files alone, and the copies that write, but for  *)
(* those that have come to the end of their file.                          *)
LEMMA FilesAlone ==
  ASSUME CopyTypeOK, FilesOK, disk' = disk, part' = part,
         \A d \in Copiers : copier'[d].at = "write" => SameWriter(d),
         \A d \in Copiers : copier[d].at = "write" =>
            SameWriter(d) \/ copier[d].pos >= Size[copier[d].f]
  PROVE  \A f \in Files, o \in Media :
            /\ \A i \in 1..Size[f] : Reached(f, o, i) => Reached(f, o, i)'
            /\ Behind(f, o)'
<1> TAKE f \in Files, o \in Media
<1>1. Behind(f, o) /\ File(f, o)' = File(f, o) /\ Size[f] \in Nat
  BY FileTypes DEF FilesOK, Media, File
<1>2. \A d \in Copiers : copier[d].pos \in Nat
  BY CopyTypes DEF CopierStates
<1>3. \A i \in 1..Size[f] : Reached(f, o, i) => Reached(f, o, i)'
  <2> SUFFICES ASSUME NEW i \in 1..Size[f], Reached(f, o, i) PROVE Reached(f, o, i)'
    OBVIOUS
  <2>1. CASE i <= Len(File(f, o)) /\ File(f, o)[i] = "good"
    BY <1>1, <2>1 DEF Reached
  <2>2. CASE \E c \in Copiers : Writes(c, f, o) /\ copier[c].pos < i
    <3> PICK c \in Copiers : Writes(c, f, o) /\ copier[c].pos < i
      BY <2>2
    <3>1. SameWriter(c)
      BY <1>1, <1>2 DEF Writes
    <3> QED
      BY <3>1 DEF Reached, Writes, SameWriter
  <2> QED
    BY <2>1, <2>2 DEF Reached
<1>4. \A d \in Copiers : Writes(d, f, o)' => Writes(d, f, o) /\ copier'[d].pos = copier[d].pos
  BY DEF Writes, SameWriter
<1> QED
  BY <1>1, <1>3, <1>4 DEF Behind

(* What a copy is about to keep is still there or to come.                 *)
LEMMA KeptAlone ==
  ASSUME FilesOK, NEW f \in Files, \A i \in 1..Size[f] : Reached(f, "disk", i) => Reached(f, "disk", i)',
         \A d \in Copiers : copier'[d].at = "open" =>
            \/ copier[d].at = "open" /\ copier'[d].f = copier[d].f /\ copier'[d].have = copier[d].have
            \/ copier'[d].f # f
            \/ copier'[d].have <= Size[f] /\ \A i \in 1..Size[f] : i <= copier'[d].have => Reached(f, "disk", i)
  PROVE  Kept(f)'
<1>1. Kept(f)
  BY DEF FilesOK
<1> QED
  BY <1>1 DEF Kept

(* A step writes to one file, or to one .part.                             *)
LEMMA DiskChange ==
  ASSUME CopyTypeOK, NEW g \in Files, NEW s \in Seq(Pieces), disk' = [disk EXCEPT ![<<g>>] = s], part' = part
  PROVE  /\ File(g, "disk")' = s
         /\ \A f \in Files, o \in Media : (f # g \/ o # "disk") => File(f, o)' = File(f, o)
<1>1. disk \in [Paths -> Seq(Pieces)]
  BY DEF CopyTypeOK, Pieces
<1>2. disk'[<<g>>] = s /\ \A f \in Files : f # g => disk'[<<f>>] = disk[<<f>>]
  BY <1>1, PathsApart
<1> QED
  BY <1>2 DEF File, Media

LEMMA PartChange ==
  ASSUME CopyTypeOK, NEW g \in Files, NEW s \in Seq(Pieces), part' = [part EXCEPT ![g] = s], disk' = disk
  PROVE  /\ File(g, "part")' = s
         /\ \A f \in Files, o \in Media : (f # g \/ o # "part") => File(f, o)' = File(f, o)
<1>1. part \in [Files -> Seq(Pieces)]
  BY DEF CopyTypeOK, Pieces
<1> QED
  BY <1>1 DEF File, Media

(* Opening a file, or a .part, for writing.                                *)
LEMMA OpenFiles ==
  ASSUME Alike, CopyTypeOK, FilesOK, ModesOK, NEW c \in Copiers, Open(c)
  PROVE  FilesOK'
<1>a. /\ copier[c].f \in Files /\ copier[c].have \in Nat
      /\ \A d \in Copiers : copier[d].pos \in Nat
      /\ \A h \in Files : Size[h] \in Nat
  BY CopyTypes DEF CopierStates
<1>g. PICK g \in Files : g = copier[c].f
  BY <1>a
<1>m. PICK med \in Media : med = IF copier[c].mode = "local" THEN "part" ELSE "disk"
  BY DEF Media
<1>k. PICK keep \in Nat : keep = copier[c].have
  BY <1>a
<1>1. /\ g \in Files /\ keep \in Nat /\ med \in Media
      /\ \A d \in Copiers : copier[d].pos \in Nat
      /\ \A h \in Files : Size[h] \in Nat
  BY <1>a
<1>2. /\ copier[c].at = "open" /\ Others(c)
      /\ copier'[c].at = "write" /\ copier'[c].f = g /\ copier'[c].pos = keep /\ copier'[c].onto = med
  BY <1>g, <1>m, <1>k, OpenEffect
<1>3. /\ keep <= Size[g] /\ \A i \in 1..Size[g] : i <= keep => Reached(g, "disk", i)
      /\ med = "part" => keep = 0
  BY <1>g, <1>m, <1>k, <1>2 DEF FilesOK, Kept, ModesOK
<1>s. PICK s \in Seq(Pieces) :
        /\ File(g, med)' = s /\ \A f \in Files, o \in Media : (f # g \/ o # med) => File(f, o)' = File(f, o)
        /\ Len(s) = keep
        /\ \A i \in 1..keep : s[i] = IF i <= Len(File(g, med)) THEN File(g, med)[i] ELSE "hole"
  <2>1. CASE med = "part"
    <3>e. <<>> \in Seq(Pieces) /\ Len(<<>>) = 0
      OBVIOUS
    <3>1. PICK t \in Seq(Pieces) : t = <<>> /\ Len(t) = 0
      BY <3>e
    <3>2. part' = [part EXCEPT ![g] = t] /\ disk' = disk
      BY <1>g, <1>m, <2>1, <3>1, OpenEffect
    <3>3. /\ File(g, "part")' = t
          /\ \A f \in Files, o \in Media : (f # g \/ o # "part") => File(f, o)' = File(f, o)
      BY <3>2, PartChange
    <3>4. Len(t) = keep /\ \A i \in 1..keep : t[i] = IF i <= Len(File(g, med)) THEN File(g, med)[i] ELSE "hole"
      BY <1>3, <2>1, <3>1
    <3> QED
      BY <2>1, <3>3, <3>4
  <2>2. CASE med = "disk"
    <3> DEFINE t == Cut(File(g, "disk"), keep)
    <3>1. disk' = [disk EXCEPT ![<<g>>] = t] /\ part' = part
      BY <1>g, <1>m, <1>k, <2>2, OpenEffect DEF File
    <3>2. /\ t \in Seq(Pieces) /\ Len(t) = keep
          /\ \A i \in 1..keep : t[i] = IF i <= Len(File(g, "disk")) THEN File(g, "disk")[i] ELSE "hole"
      BY <1>1, <2>2, FileTypes, CutPieces
    <3> HIDE DEF t
    <3> QED
      BY <2>2, <3>1, <3>2, DiskChange
  <2> QED
    BY <2>1, <2>2 DEF Media
<1>4. \A f \in Files, o \in Media : (f # g \/ o # med) => File(f, o)' = File(f, o)
  BY <1>s
<1>5. /\ Len(File(g, med)') = keep
      /\ \A i \in 1..keep : File(g, med)'[i] = IF i <= Len(File(g, med)) THEN File(g, med)[i] ELSE "hole"
  BY <1>s
<1>6. \A d \in Copiers : \A f, o : Writes(d, f, o)' <=>
        IF d = c THEN f = g /\ o = med ELSE Writes(d, f, o)
  BY <1>2 DEF Writes, Others
<1>7. \A d \in Copiers : d # c => copier'[d] = copier[d]
  BY <1>2 DEF Others
<1>8. ~\E f, o : Writes(c, f, o)
  BY <1>2 DEF Writes
<1>9. ASSUME NEW f \in Files, NEW o \in Media, NEW i \in 1..Size[f], Reached(f, o, i)
      PROVE  Reached(f, o, i)'
  <2>1. CASE \E d \in Copiers : Writes(d, f, o) /\ copier[d].pos < i
    BY <1>6, <1>7, <1>8, <2>1 DEF Reached
  <2>2. CASE (i <= Len(File(f, o)) /\ File(f, o)[i] = "good") /\ (f # g \/ o # med)
    BY <1>4, <2>2 DEF Reached
  <2>3. CASE (i <= Len(File(f, o)) /\ File(f, o)[i] = "good") /\ f = g /\ o = med /\ i <= keep
    <3>1. i \in 1..keep
      BY <1>1, <2>3
    <3>2. i <= Len(File(f, o)') /\ File(f, o)'[i] = "good"
      BY <1>5, <2>3, <3>1
    <3> QED
      BY <3>2 DEF Reached
  <2>4. CASE f = g /\ o = med /\ ~(i <= keep)
    <3>1. Writes(c, f, o)' /\ copier'[c].pos < i
      BY <1>1, <1>2, <1>6, <2>4
    <3> QED
      BY <3>1 DEF Reached
  <2> QED
    BY <1>9, <2>1, <2>2, <2>3, <2>4 DEF Reached
<1>10. ASSUME NEW i \in 1..Size[g], i <= keep PROVE Reached(g, med, i)
  <2>1. med = "disk"
    BY <1>1, <1>3, <1>10 DEF Media
  <2> QED
    BY <1>3, <1>10, <2>1
<1>11. ASSUME NEW f \in Files, NEW o \in Media PROVE Behind(f, o)'
  <2>1. Behind(f, o)
    BY DEF FilesOK, Media
  <2>2. Len(File(f, o)') <= Size[f]
    BY <1>3, <1>4, <1>5, <2>1 DEF Behind
  <2>3. ASSUME NEW i \in 1..Size[f], i <= Len(File(f, o)') PROVE Reached(f, o, i)'
    BY <1>4, <1>5, <1>9, <1>10, <2>1, <2>3 DEF Behind
  <2>4. ASSUME NEW d \in Copiers, Writes(d, f, o)'
        PROVE  copier'[d].pos <= Size[f] /\ \A i \in 1..Size[f] : i <= copier'[d].pos => Reached(f, o, i)'
    <3>1. CASE d = c
      BY <1>2, <1>3, <1>6, <1>9, <1>10, <2>4, <3>1
    <3>2. CASE d # c
      BY <1>6, <1>7, <1>9, <2>1, <2>4, <3>2 DEF Behind
    <3> QED
      BY <3>1, <3>2
  <2> QED
    BY <2>2, <2>3, <2>4 DEF Behind
<1>12. ASSUME NEW f \in Files PROVE Kept(f)'
  <2>1. \A i \in 1..Size[f] : Reached(f, "disk", i) => Reached(f, "disk", i)'
    BY <1>9 DEF Media
  <2>2. \A d \in Copiers : copier'[d].at = "open" => copier'[d] = copier[d]
    BY <1>2, <1>7
  <2> QED
    BY <2>1, <2>2, KeptAlone
<1> QED
  BY <1>11, <1>12 DEF FilesOK, Media

(* Writing one piece.                                                      *)
LEMMA WriteFiles ==
  ASSUME Alike, CopyTypeOK, FilesOK, NEW c \in Copiers, Write(c)
  PROVE  FilesOK'
<1>a. /\ copier[c].f \in Files /\ copier[c].pos \in Nat /\ copier[c].onto \in {"disk", "part", "lost"}
      /\ \A d \in Copiers : copier[d].pos \in Nat
      /\ \A h \in Files : Size[h] \in Nat
  BY CopyTypes DEF CopierStates
<1>g. PICK g \in Files : g = copier[c].f
  BY <1>a
<1>m. PICK med \in {"disk", "part", "lost"} : med = copier[c].onto
  BY <1>a
<1>p. PICK p \in Nat : p = copier[c].pos
  BY <1>a
<1>1. /\ g \in Files /\ p \in Nat /\ med \in {"disk", "part", "lost"}
      /\ \A d \in Copiers : copier[d].pos \in Nat
      /\ \A h \in Files : Size[h] \in Nat
  BY <1>a
<1>2. /\ copier[c].at = "write" /\ p < Size[g] /\ Others(c)
      /\ copier'[c].at = "write" /\ copier'[c].f = g /\ copier'[c].pos = p + 1 /\ copier'[c].onto = med
  <2>1. copier[c] \in CopierStates /\ copier'[c] = [copier[c] EXCEPT !.pos = @ + 1]
    BY CopyTypes, WriteEffect
  <2>2. /\ copier'[c].at = copier[c].at /\ copier'[c].f = g /\ copier'[c].pos = p + 1
        /\ copier'[c].onto = med
    BY <1>g, <1>m, <1>p, <2>1 DEF CopierStates
  <2> QED
    BY <1>g, <1>p, <2>2, WriteEffect
<1>s. /\ \A f \in Files, o \in Media : (f # g \/ o # med) => File(f, o)' = File(f, o)
      /\ med \in Media => File(g, med)' = Put(File(g, med), p)
  <2>1. CASE med = "part"
    <3> DEFINE t == Put(File(g, "part"), p)
    <3>1. part' = [part EXCEPT ![g] = t] /\ disk' = disk
      BY <1>g, <1>m, <1>p, <2>1, WriteEffect DEF File
    <3>2. t \in Seq(Pieces)
      BY <1>1, FileTypes, PutPieces DEF Media
    <3> HIDE DEF t
    <3>3. /\ File(g, "part")' = t
          /\ \A f \in Files, o \in Media : (f # g \/ o # "part") => File(f, o)' = File(f, o)
      BY <3>1, <3>2, PartChange
    <3> QED
      BY <2>1, <3>3 DEF t
  <2>2. CASE med = "disk"
    <3> DEFINE t == Put(File(g, "disk"), p)
    <3>1. disk' = [disk EXCEPT ![<<g>>] = t] /\ part' = part
      BY <1>g, <1>m, <1>p, <2>2, WriteEffect DEF File
    <3>2. t \in Seq(Pieces)
      BY <1>1, FileTypes, PutPieces DEF Media
    <3> HIDE DEF t
    <3>3. /\ File(g, "disk")' = t
          /\ \A f \in Files, o \in Media : (f # g \/ o # "disk") => File(f, o)' = File(f, o)
      BY <3>1, <3>2, DiskChange
    <3> QED
      BY <2>2, <3>3 DEF t
  <2>3. CASE med = "lost"
    BY <1>m, <2>3, WriteEffect DEF File, Media
  <2> QED
    BY <1>1, <2>1, <2>2, <2>3
<1>3. \A f \in Files, o \in Media : (f # g \/ o # med) => File(f, o)' = File(f, o)
  BY <1>s
<1>4. med \in Media =>
        /\ Len(File(g, med)') = IF Len(File(g, med)) > p THEN Len(File(g, med)) ELSE p + 1
        /\ File(g, med)'[p + 1] = "good" /\ p + 1 <= Len(File(g, med)')
        /\ \A i \in 1..Len(File(g, med)) : i # p + 1 => File(g, med)'[i] = File(g, med)[i]
  <2> SUFFICES ASSUME med \in Media
               PROVE  /\ Len(File(g, med)') = IF Len(File(g, med)) > p THEN Len(File(g, med)) ELSE p + 1
                      /\ File(g, med)'[p + 1] = "good" /\ p + 1 <= Len(File(g, med)')
                      /\ \A i \in 1..Len(File(g, med)) : i # p + 1 => File(g, med)'[i] = File(g, med)[i]
    OBVIOUS
  <2> PICK t \in Seq(Pieces) : t = File(g, med)
    BY FileTypes
  <2>1. File(g, med)' = Put(t, p)
    BY <1>s
  <2>2. /\ Len(Put(t, p)) = IF Len(t) > p THEN Len(t) ELSE p + 1
        /\ Put(t, p)[p + 1] = "good" /\ p + 1 <= Len(Put(t, p))
        /\ \A i \in 1..Len(t) : i # p + 1 => Put(t, p)[i] = t[i]
    BY PutPieces
  <2> QED
    BY <2>1, <2>2
<1>5. \A d \in Copiers : \A f, o : Writes(d, f, o)' <=> Writes(d, f, o)
  BY <1>g, <1>m, <1>2 DEF Writes, Others
<1>6. \A d \in Copiers : d # c => copier'[d] = copier[d]
  BY <1>2 DEF Others
<1>7. \A f, o : Writes(c, f, o) => f = g /\ o = med
  BY <1>g, <1>m DEF Writes
<1>8. ASSUME NEW f \in Files, NEW o \in Media, NEW i \in 1..Size[f], Reached(f, o, i)
      PROVE  Reached(f, o, i)'
  <2>l. Len(File(f, o)) \in Nat
    BY FileTypes
  <2>1. CASE f = g /\ o = med /\ i = p + 1
    BY <1>4, <2>1 DEF Reached
  <2>2. CASE (i <= Len(File(f, o)) /\ File(f, o)[i] = "good") /\ (f # g \/ o # med)
    BY <1>3, <2>2 DEF Reached
  <2>3. CASE (i <= Len(File(f, o)) /\ File(f, o)[i] = "good") /\ f = g /\ o = med /\ i # p + 1
    <3>1. i \in 1..Len(File(f, o))
      BY <1>1, <2>l, <2>3
    <3>2. i <= Len(File(f, o)') /\ File(f, o)'[i] = "good"
      BY <1>1, <1>4, <2>l, <2>3, <3>1
    <3> QED
      BY <3>2 DEF Reached
  <2>4. CASE (\E d \in Copiers : Writes(d, f, o) /\ copier[d].pos < i) /\ ~(f = g /\ o = med /\ i = p + 1)
    <3> PICK d \in Copiers : Writes(d, f, o) /\ copier[d].pos < i
      BY <2>4
    <3>1. Writes(d, f, o)'
      BY <1>5
    <3>2. copier'[d].pos < i
      <4>1. CASE d # c
        BY <1>6, <4>1
      <4>2. CASE d = c
        <5>1. f = g /\ o = med /\ i # p + 1 /\ p < i
          BY <1>p, <1>7, <2>4, <4>2
        <5> QED
          BY <1>1, <1>2, <4>2, <5>1
      <4> QED
        BY <4>1, <4>2
    <3> QED
      BY <3>1, <3>2 DEF Reached
  <2> QED
    BY <1>8, <2>1, <2>2, <2>3, <2>4 DEF Reached
<1>9. ASSUME NEW f \in Files, NEW o \in Media PROVE Behind(f, o)'
  <2>1. Behind(f, o) /\ Len(File(f, o)) \in Nat
    BY FileTypes DEF FilesOK, Media
  <2>2. CASE f = g /\ o = med
    <3>1. Writes(c, f, o)
      BY <1>g, <1>m, <1>2, <2>2 DEF Writes
    <3>2. \A i \in 1..Size[f] : i <= p + 1 => Reached(f, o, i)'
      <4> SUFFICES ASSUME NEW i \in 1..Size[f], i <= p + 1 PROVE Reached(f, o, i)'
        OBVIOUS
      <4>1. CASE i <= p
        BY <1>p, <1>8, <2>1, <3>1, <4>1 DEF Behind
      <4>2. CASE i = p + 1
        BY <1>4, <2>2, <4>2 DEF Reached
      <4> QED
        BY <1>1, <4>1, <4>2
    <3>3. Len(File(f, o)') <= Size[f]
      BY <1>1, <1>2, <1>4, <2>1, <2>2 DEF Behind
    <3>4. \A i \in 1..Size[f] : i <= Len(File(f, o)') => Reached(f, o, i)'
      <4> SUFFICES ASSUME NEW i \in 1..Size[f], i <= Len(File(f, o)') PROVE Reached(f, o, i)'
        OBVIOUS
      <4>1. i <= Len(File(f, o)) \/ i <= p + 1
        BY <1>1, <1>4, <2>1, <2>2
      <4> QED
        BY <1>8, <2>1, <3>2, <4>1 DEF Behind
    <3>5. ASSUME NEW d \in Copiers, Writes(d, f, o)'
          PROVE  copier'[d].pos <= Size[f] /\ \A i \in 1..Size[f] : i <= copier'[d].pos => Reached(f, o, i)'
      <4>1. CASE d = c
        BY <1>1, <1>2, <2>2, <3>2, <4>1
      <4>2. CASE d # c
        BY <1>5, <1>6, <1>8, <2>1, <3>5, <4>2 DEF Behind
      <4> QED
        BY <4>1, <4>2
    <3> QED
      BY <3>3, <3>4, <3>5 DEF Behind
  <2>3. CASE ~(f = g /\ o = med)
    <3>1. \A d \in Copiers : Writes(d, f, o)' => Writes(d, f, o) /\ copier'[d].pos = copier[d].pos
      BY <1>5, <1>6, <1>7, <2>3
    <3>2. File(f, o)' = File(f, o)
      BY <1>3, <2>3
    <3> QED
      BY <1>8, <2>1, <3>1, <3>2 DEF Behind
  <2> QED
    BY <2>2, <2>3
<1>10. ASSUME NEW f \in Files PROVE Kept(f)'
  <2>1. \A i \in 1..Size[f] : Reached(f, "disk", i) => Reached(f, "disk", i)'
    BY <1>8 DEF Media
  <2>2. \A d \in Copiers : copier'[d].at = "open" => copier'[d] = copier[d]
    BY <1>2, <1>6
  <2> QED
    BY <2>1, <2>2, KeptAlone
<1> QED
  BY <1>9, <1>10 DEF FilesOK, Media
(* Renaming a .part: whoever wrote to it now writes to the file.           *)
LEMMA RenameFiles ==
  ASSUME Alike, CopyTypeOK, FilesOK, NEW c \in Copiers, CloseFile(c),
         copier[c].mode = "local", copier[c].onto = "part"
  PROVE  FilesOK'
<1>a. /\ copier[c].f \in Files
      /\ \A d \in Copiers : copier[d].pos \in Nat /\ copier[d].f \in Files
      /\ \A h \in Files : Size[h] \in Nat
  BY CopyTypes DEF CopierStates
<1>g. PICK g \in Files : g = copier[c].f
  BY <1>a
<1>1. /\ copier[c].at = "write" /\ copier[c].pos >= Size[g] /\ copier'[c].at = "next"
      /\ \A d \in Copiers : copier'[d].f = copier[d].f /\ copier'[d].pos = copier[d].pos
                            /\ copier'[d].have = copier[d].have
      /\ \A d \in Copiers : d # c =>
            /\ copier'[d].at = copier[d].at
            /\ copier'[d].onto = IF ~Working(d) \/ copier[d].f # g THEN copier[d].onto
                                 ELSE IF copier[d].onto = "part" THEN "disk" ELSE "lost"
  BY <1>g, RenameEffect
<1>2. /\ File(g, "disk")' = File(g, "part") /\ Len(File(g, "part")') = 0
      /\ \A f \in Files, o \in Media : f # g => File(f, o)' = File(f, o)
  <2>1. disk' = [disk EXCEPT ![<<g>>] = part[g]] /\ part' = [part EXCEPT ![g] = <<>>]
    BY <1>g, RenameEffect
  <2>2. disk \in [Paths -> Seq(Pieces)] /\ part \in [Files -> Seq(Pieces)]
    BY DEF CopyTypeOK, Pieces
  <2>3. disk'[<<g>>] = part[g] /\ part'[g] = <<>>
        /\ \A f \in Files : f # g => disk'[<<f>>] = disk[<<f>>] /\ part'[f] = part[f]
    BY <2>1, <2>2, PathsApart
  <2> QED
    BY <2>3 DEF File, Media
<1>3. \A d \in Copiers : d # c => (copier[d].at = "write" => Working(d))
  BY DEF Working
<1>4. \A d \in Copiers :
        /\ \A f \in Files, o \in Media : f # g =>
              (Writes(d, f, o)' <=> Writes(d, f, o))
        /\ Writes(d, g, "disk")' <=> d # c /\ Writes(d, g, "part")
        /\ ~Writes(d, g, "part")'
  <2> TAKE d \in Copiers
  <2>1. CASE d = c
    BY <1>g, <1>1, <2>1 DEF Writes
  <2>2. CASE d # c
    BY <1>1, <1>3, <2>2 DEF Writes
  <2> QED
    BY <2>1, <2>2
<1>5. Behind(g, "part") /\ Writes(c, g, "part")
  BY <1>g, <1>1 DEF FilesOK, Writes
<1>6. \A i \in 1..Size[g] : Reached(g, "disk", i)'
  <2> SUFFICES ASSUME NEW i \in 1..Size[g] PROVE Reached(g, "disk", i)'
    OBVIOUS
  <2>1. Reached(g, "part", i)
    BY <1>a, <1>1, <1>5 DEF Behind
  <2>2. CASE i <= Len(File(g, "part")) /\ File(g, "part")[i] = "good"
    BY <1>2, <2>2 DEF Reached
  <2>3. CASE \E d \in Copiers : Writes(d, g, "part") /\ copier[d].pos < i
    <3> PICK d \in Copiers : Writes(d, g, "part") /\ copier[d].pos < i
      BY <2>3
    <3>1. d # c
      BY <1>a, <1>1
    <3> QED
      BY <1>1, <1>4, <3>1 DEF Reached
  <2> QED
    BY <2>1, <2>2, <2>3 DEF Reached
<1>7. \A f \in Files, o \in Media : f # g =>
        /\ \A i \in 1..Size[f] : Reached(f, o, i)' <=> Reached(f, o, i)
        /\ Behind(f, o)'
  <2> SUFFICES ASSUME NEW f \in Files, NEW o \in Media, f # g
               PROVE  /\ \A i \in 1..Size[f] : Reached(f, o, i)' <=> Reached(f, o, i)
                      /\ Behind(f, o)'
    OBVIOUS
  <2>1. \A i \in 1..Size[f] : Reached(f, o, i)' <=> Reached(f, o, i)
    BY <1>1, <1>2, <1>4 DEF Reached
  <2>2. Behind(f, o)
    BY DEF FilesOK, Media
  <2> QED
    BY <1>1, <1>2, <1>4, <2>1, <2>2 DEF Behind
<1>8. Behind(g, "disk")' /\ Behind(g, "part")'
  <2>1. Behind(g, "disk")'
    BY <1>1, <1>2, <1>4, <1>5, <1>6 DEF Behind
  <2>2. Behind(g, "part")'
    BY <1>a, <1>2, <1>4 DEF Behind
  <2> QED
    BY <2>1, <2>2
<1>9. ASSUME NEW f \in Files PROVE Kept(f)'
  <2>1. \A i \in 1..Size[f] : Reached(f, "disk", i) => Reached(f, "disk", i)'
    BY <1>6, <1>7 DEF Media
  <2>2. \A d \in Copiers : copier'[d].at = "open" =>
          copier[d].at = "open" /\ copier'[d].f = copier[d].f /\ copier'[d].have = copier[d].have
    BY <1>1
  <2> QED
    BY <2>1, <2>2, KeptAlone
<1> QED
  BY <1>7, <1>8, <1>9 DEF FilesOK, Media

(* A copy that was alone and breaks off leaves good pieces only.           *)
LEMMA LoneIsClean ==
  ASSUME CopyTypeOK, FilesOK, LoneOK, NEW c \in Copiers, Working(c), ~copier[c].shared
  PROVE  \A f \in Files, o \in Media : \A i \in 1..Len(File(f, o)) : File(f, o)[i] = "good"
<1> SUFFICES ASSUME NEW f \in Files, NEW o \in Media, NEW i \in 1..Len(File(f, o))
             PROVE  File(f, o)[i] = "good"
  OBVIOUS
<1>1. Behind(f, o) /\ Len(File(f, o)) \in Nat /\ Size[f] \in Nat
  BY FileTypes DEF FilesOK, Media
<1>2. Reached(f, o, i)
  BY <1>1 DEF Behind
<1>3. \A d \in Copiers : Writes(d, f, o) => d = c
  BY DEF LoneOK, Beside, Writes, Working
<1>4. Writes(c, f, o) => copier[c].pos = Len(File(f, o))
  BY DEF LoneOK, AtEnd, Writes
<1> QED
  BY <1>1, <1>2, <1>3, <1>4 DEF Reached

LEMMA LoneBreaks ==
  ASSUME CopyTypeOK, FilesOK, LoneOK, NEW c \in Copiers, CopyBreaks(c), ~copier[c].shared
  PROVE  FilesOK'
<1>1. Working(c) /\ Others(c) /\ copier'[c] = Away /\ disk' = disk /\ part' = part
  BY EndEffect
<1>2. \A d \in Copiers : copier'[d].at = "away"
  BY <1>1 DEF LoneOK, Beside, Working, Others, Away
<1>3. ASSUME NEW f \in Files, NEW o \in Media PROVE Behind(f, o)'
  <2>1. /\ Behind(f, o) /\ File(f, o)' = File(f, o) /\ Len(File(f, o)) \in Nat /\ Size[f] \in Nat
    BY <1>1, FileTypes DEF FilesOK, Media, File
  <2>2. \A i \in 1..Size[f] : i <= Len(File(f, o)) => Reached(f, o, i)'
    BY <1>1, <2>1, LoneIsClean DEF Reached
  <2> QED
    BY <1>2, <2>1, <2>2 DEF Behind, Writes
<1> QED
  BY <1>2, <1>3 DEF FilesOK, Kept, Media

(* What is there, or still to come, under every step.                      *)
LEMMA StepFiles ==
  ASSUME Alike, CopyTypeOK, FilesOK, ModesOK, LoneOK, CopyNext, ~broken'
  PROVE  FilesOK'
<1>0. PICK c \in Copiers :
        \/ \E m \in Modes : CopyBegin(c, m)
        \/ TakeStaged(c) \/ (\E f \in Files : Look(c, f))
        \/ Open(c) \/ Write(c) \/ CloseFile(c) \/ CopyDone(c) \/ CopyBreaks(c)
  BY DEF CopyNext
<1>a. \A d \in Copiers : copier[d] \in CopierStates
  BY CopyTypes
<1>q. ASSUME disk' = disk, part' = part,
             \A d \in Copiers : copier'[d].at = "write" => SameWriter(d),
             \A d \in Copiers : copier[d].at = "write" =>
                SameWriter(d) \/ copier[d].pos >= Size[copier[d].f],
             \A d \in Copiers : copier'[d].at = "open" =>
                \/ copier[d].at = "open" /\ copier'[d].f = copier[d].f /\ copier'[d].have = copier[d].have
                \/ copier'[d].f \in Files /\ copier'[d].have <= Size[copier'[d].f]
                     /\ copier'[d].have <= Len(File(copier'[d].f, "disk"))
      PROVE  FilesOK'
  <2>1. \A f \in Files, o \in Media :
            /\ \A i \in 1..Size[f] : Reached(f, o, i) => Reached(f, o, i)'
            /\ Behind(f, o)'
    BY <1>q, FilesAlone
  <2>2. ASSUME NEW f \in Files PROVE Kept(f)'
    <3>1. Behind(f, "disk")
      BY DEF FilesOK
    <3>2. ASSUME NEW d \in Copiers, copier'[d].at = "open"
          PROVE  \/ copier[d].at = "open" /\ copier'[d].f = copier[d].f /\ copier'[d].have = copier[d].have
                 \/ copier'[d].f # f
                 \/ copier'[d].have <= Size[f] /\ \A i \in 1..Size[f] : i <= copier'[d].have => Reached(f, "disk", i)
      <4>1. CASE copier'[d].f = f /\ copier'[d].have <= Size[f] /\ copier'[d].have <= Len(File(f, "disk"))
        <5> PICK h : h = copier'[d].have
          OBVIOUS
        <5>1. \A i \in 1..Size[f] : i <= h => i <= Len(File(f, "disk"))
          <6>1. Len(File(f, "disk")) \in Nat /\ h \in Nat /\ Size[f] \in Nat
            <7>1. copier' \in [Copiers -> CopierStates]
              BY StepCopyType DEF CopyTypeOK, CopierStates
            <7> QED
              BY <7>1, FileTypes DEF Media, CopierStates
          <6> QED
            BY <4>1, <6>1
        <5> QED
          BY <3>1, <4>1, <5>1 DEF Behind
      <4> QED
        BY <1>q, <3>2, <4>1
    <3> QED
      BY <2>1, <3>2, KeptAlone DEF Media
  <2> QED
    BY <2>1, <2>2 DEF FilesOK, Media
<1>1. CASE \E m \in Modes : CopyBegin(c, m)
  <2> PICK m \in Modes : CopyBegin(c, m)
    BY <1>1
  <2>1. /\ copier[c].at = "away" /\ copier'[c].at = "next" /\ disk' = disk /\ part' = part
        /\ \A d \in Copiers : d # c =>
             copier'[d] = IF Working(d) THEN [copier[d] EXCEPT !.shared = TRUE] ELSE copier[d]
    BY BeginEffect DEF Working
  <2>2. \A d \in Copiers : d # c => SameWriter(d) /\ copier'[d].have = copier[d].have
    BY <1>a, <2>1 DEF SameWriter, CopierStates
  <2> QED
    BY <1>q, <2>1, <2>2 DEF SameWriter
<1>2. CASE TakeStaged(c)
  <2>1. /\ copier[c].at = "next" /\ copier'[c].at \in {"file", "away"} /\ Others(c)
        /\ disk' = disk /\ part' = part
    BY <1>2, <1>a, StagedEffect, AwayType DEF CopierStates
  <2> QED
    BY <1>q, <2>1 DEF SameWriter, Others
<1>3. CASE \E f \in Files : Look(c, f)
  <2> PICK f \in Files : Look(c, f)
    BY <1>3
  <2>1. /\ copier[c].at \in {"next", "file"} /\ Others(c) /\ disk' = disk /\ part' = part
        /\ \/ copier'[c].at = copier[c].at
           \/ /\ copier'[c].at = "open" /\ copier'[c].f = f
              /\ copier'[c].have <= Len(File(f, "disk")) /\ copier'[c].have <= Size[f]
    BY LookEffect DEF Ready, File
  <2> QED
    BY <1>q, <2>1 DEF SameWriter, Others
<1>4. CASE Open(c)
  BY <1>4, OpenFiles
<1>5. CASE Write(c)
  BY <1>5, WriteFiles
<1>6. CASE CloseFile(c)
  <2>1. CASE copier[c].mode = "local" /\ copier[c].onto = "part"
    BY <1>6, <2>1, RenameFiles
  <2>2. CASE ~(copier[c].mode = "local" /\ copier[c].onto = "part")
    <3>1. /\ copier[c].at = "write" /\ copier[c].pos >= Size[copier[c].f] /\ Others(c)
          /\ disk' = disk /\ part' = part /\ copier'[c].at \in {"failed", "file", "next"}
      BY <1>6, <2>2, CloseEffect
    <3> QED
      BY <1>q, <3>1 DEF SameWriter, Others
  <2> QED
    BY <2>1, <2>2
<1>7. CASE CopyDone(c)
  <2>1. /\ copier[c].at \in {"next", "file"} /\ Others(c) /\ disk' = disk /\ part' = part
        /\ copier'[c].at = "away"
    BY <1>7, EndEffect, AwayType DEF Ready
  <2> QED
    BY <1>q, <2>1 DEF SameWriter, Others
<1>8. CASE CopyBreaks(c)
  <2>1. CASE copier[c].at = "failed"
    <3>1. Others(c) /\ disk' = disk /\ part' = part /\ copier'[c].at = "away"
      BY <1>8, EndEffect, AwayType
    <3> QED
      BY <1>q, <2>1, <3>1 DEF SameWriter, Others
  <2>2. CASE copier[c].at # "failed"
    <3>1. ~copier[c].shared
      BY <1>8, <2>2, EndEffect
    <3> QED
      BY <1>8, <3>1, LoneBreaks
  <2> QED
    BY <2>1, <2>2
<1> QED
  BY <1>0, <1>1, <1>2, <1>3, <1>4, <1>5, <1>6, <1>7, <1>8
-----------------------------------------------------------------------------
(* The ways of copying, and copies that were alone.                        *)
LEMMA StepModes ==
  ASSUME Alike, CopyTypeOK, ModesOK, CopyNext
  PROVE  ModesOK'
<1>0. PICK c \in Copiers :
        \/ \E m \in Modes : CopyBegin(c, m)
        \/ TakeStaged(c) \/ (\E f \in Files : Look(c, f))
        \/ Open(c) \/ Write(c) \/ CloseFile(c) \/ CopyDone(c) \/ CopyBreaks(c)
  BY DEF CopyNext
<1>a. \A d \in Copiers : copier[d] \in CopierStates
  BY CopyTypes
<1>q. ASSUME \A d \in Copiers : d # c => copier'[d].at = copier[d].at /\ copier'[d].mode = copier[d].mode
                                         /\ copier'[d].onto = copier[d].onto /\ copier'[d].have = copier[d].have,
             copier'[c].at = "write" /\ copier'[c].onto = "part" => copier'[c].mode = "local",
             copier'[c].at = "open" /\ copier'[c].mode \in {"local", "stream"} => copier'[c].have = 0
      PROVE  ModesOK'
  BY <1>q DEF ModesOK
<1>1. CASE \E m \in Modes : CopyBegin(c, m)
  <2> PICK m \in Modes : CopyBegin(c, m)
    BY <1>1
  <2>1. /\ copier'[c].at = "next"
        /\ \A d \in Copiers : d # c =>
             copier'[d] = IF Working(d) THEN [copier[d] EXCEPT !.shared = TRUE] ELSE copier[d]
    BY BeginEffect
  <2>2. \A d \in Copiers : d # c =>
          copier'[d].at = copier[d].at /\ copier'[d].mode = copier[d].mode
          /\ copier'[d].onto = copier[d].onto /\ copier'[d].have = copier[d].have
    BY <1>a, <2>1 DEF CopierStates
  <2> QED
    BY <1>q, <2>1, <2>2
<1>2. CASE TakeStaged(c)
  <2>1. copier'[c].at \in {"file", "away"} /\ Others(c)
    BY <1>2, <1>a, StagedEffect, AwayType DEF CopierStates
  <2> QED
    BY <1>q, <2>1 DEF Others
<1>3. CASE \E f \in Files : Look(c, f)
  <2> PICK f \in Files : Look(c, f)
    BY <1>3
  <2>1. /\ copier[c].at \in {"next", "file"} /\ Others(c)
        /\ \/ copier'[c].at = copier[c].at
           \/ /\ copier'[c].at = "open"
              /\ copier'[c].mode \in {"local", "stream"} => copier'[c].have = 0
    BY LookEffect DEF Ready
  <2> QED
    BY <1>q, <2>1 DEF Others
<1>4. CASE Open(c)
  <2>1. /\ Others(c) /\ copier'[c].at = "write" /\ copier'[c].mode = copier[c].mode
        /\ copier'[c].onto = IF copier[c].mode = "local" THEN "part" ELSE "disk"
    BY <1>4, OpenEffect
  <2> QED
    BY <1>q, <2>1 DEF Others
<1>5. CASE Write(c)
  <2>1. /\ copier[c].at = "write" /\ Others(c) /\ copier'[c] = [copier[c] EXCEPT !.pos = @ + 1]
    BY <1>5, WriteEffect
  <2>2. copier'[c].at = "write" /\ copier'[c].mode = copier[c].mode /\ copier'[c].onto = copier[c].onto
    BY <1>a, <2>1 DEF CopierStates
  <2> QED
    BY <1>q, <2>1, <2>2 DEF Others, ModesOK
<1>6. CASE CloseFile(c)
  <2>1. CASE copier[c].mode = "local" /\ copier[c].onto = "part"
    <3>1. /\ copier'[c].at = "next"
          /\ \A d \in Copiers : copier'[d].mode = copier[d].mode /\ copier'[d].have = copier[d].have
          /\ \A d \in Copiers : d # c =>
               /\ copier'[d].at = copier[d].at
               /\ copier'[d].onto = IF ~Working(d) \/ copier[d].f # copier[c].f THEN copier[d].onto
                                    ELSE IF copier[d].onto = "part" THEN "disk" ELSE "lost"
      BY <1>6, <2>1, RenameEffect
    <3>2. \A d \in Copiers : d # c /\ copier'[d].onto = "part" => copier[d].onto = "part"
      BY <3>1
    <3> QED
      BY <3>1, <3>2 DEF ModesOK
  <2>2. CASE ~(copier[c].mode = "local" /\ copier[c].onto = "part")
    <3>1. Others(c) /\ copier'[c].at \in {"failed", "file", "next"}
      BY <1>6, <2>2, CloseEffect
    <3> QED
      BY <1>q, <3>1 DEF Others
  <2> QED
    BY <2>1, <2>2
<1>7. CASE CopyDone(c) \/ CopyBreaks(c)
  <2>1. Others(c) /\ copier'[c].at = "away"
    BY <1>7, EndEffect, AwayType
  <2> QED
    BY <1>q, <2>1 DEF Others
<1> QED
  BY <1>0, <1>1, <1>2, <1>3, <1>4, <1>5, <1>6, <1>7

(* A copy that was alone all the time: nobody else moves, and it goes from *)
(* file to file.                                                           *)
LEMMA StepLone ==
  ASSUME Alike, CopyTypeOK, FilesOK, ModesOK, LoneOK, CopyNext
  PROVE  LoneOK'
<1>0. PICK c \in Copiers :
        \/ \E m \in Modes : CopyBegin(c, m)
        \/ TakeStaged(c) \/ (\E f \in Files : Look(c, f))
        \/ Open(c) \/ Write(c) \/ CloseFile(c) \/ CopyDone(c) \/ CopyBreaks(c)
  BY DEF CopyNext
<1>a. /\ \A d \in Copiers : copier[d] \in CopierStates
      /\ copier[c].f \in Files /\ copier[c].todo \subseteq Files /\ copier[c].have \in Nat
      /\ copier[c].pos \in Nat /\ copier[c].shared \in BOOLEAN /\ copier[c].mode \in Modes \union {"none"}
      /\ copier[c].onto \in {"disk", "part", "lost"}
  BY CopyTypes DEF CopierStates
<1>b. \A f \in Files : Len(disk[<<f>>]) \in Nat /\ Len(part[f]) \in Nat /\ Size[f] \in Nat
  BY CopyTypes
<1>1. CASE \E m \in Modes : CopyBegin(c, m)
  <2> PICK m \in Modes : CopyBegin(c, m)
    BY <1>1
  <2>1. /\ copier'[c].at = "next" /\ copier'[c].todo = Files
        /\ copier'[c].shared = (\E d \in Copiers : Working(d))
        /\ \A d \in Copiers : d # c =>
             copier'[d] = IF Working(d) THEN [copier[d] EXCEPT !.shared = TRUE] ELSE copier[d]
    BY BeginEffect
  <2>2. \A d \in Copiers : d # c => copier'[d].at = copier[d].at /\ (Working(d) => copier'[d].shared)
    BY <1>a, <2>1 DEF CopierStates
  <2>3. SUFFICES ASSUME NEW d \in Copiers, Working(d)', ~copier'[d].shared
                 PROVE  Beside(d)' /\ FilesDone(d)' /\ AtEnd(d)'
    BY DEF LoneOK
  <2>4. d = c /\ ~\E x \in Copiers : Working(x)
    BY <2>1, <2>2, <2>3 DEF Working
  <2>5. \A x \in Copiers : x # c => copier'[x].at = "away"
    BY <2>2, <2>4 DEF Working
  <2> QED
    BY <2>1, <2>4, <2>5 DEF Beside, FilesDone, AtEnd, Working
<1>2. CASE ~\E m \in Modes : CopyBegin(c, m)
  <2>w. Working(c)
    BY <1>0, <1>2, StagedEffect, LookEffect, OpenEffect, WriteEffect, EndEffect DEF Working, Ready, CloseFile
  <2>s. \A d \in Copiers : d # c => copier'[d].at = copier[d].at /\ copier'[d].shared = copier[d].shared
    <3>1. CASE CloseFile(c)
      BY <3>1, RenameEffect, CloseEffect DEF Others
    <3>2. CASE ~CloseFile(c)
      BY <1>0, <1>2, <3>2, StagedEffect, LookEffect, OpenEffect, WriteEffect, EndEffect DEF Others
    <3> QED
      BY <3>1, <3>2
  <2>c. copier'[c].at = "away" \/ copier'[c].shared = copier[c].shared
    <3>1. CASE TakeStaged(c)
      BY <1>a, <3>1, StagedEffect, AwayType DEF CopierStates
    <3>2. CASE Write(c)
      <4>1. copier'[c] = [copier[c] EXCEPT !.pos = @ + 1]
        BY <3>2, WriteEffect
      <4> QED
        BY <1>a, <4>1 DEF CopierStates
    <3>3. CASE CloseFile(c)
      BY <3>3, RenameEffect, CloseEffect
    <3>4. CASE ~TakeStaged(c) /\ ~Write(c) /\ ~CloseFile(c)
      BY <1>0, <1>2, <3>4, LookEffect, OpenEffect, EndEffect, AwayType
    <3> QED
      BY <3>1, <3>2, <3>3, <3>4
  <2>1. SUFFICES ASSUME NEW d \in Copiers, Working(d)', ~copier'[d].shared
                 PROVE  Beside(d)' /\ FilesDone(d)' /\ AtEnd(d)'
    BY DEF LoneOK
  <2>2. d = c /\ ~copier[c].shared /\ copier'[c].at # "away"
    BY <2>w, <2>s, <2>c, <2>1 DEF LoneOK, Beside, Working
  <2>3. Beside(c) /\ FilesDone(c) /\ AtEnd(c)
    BY <2>w, <2>2 DEF LoneOK
  <2>4. Beside(c)'
    BY <2>s, <2>3 DEF Beside, Working
  <2> SUFFICES FilesDone(c)' /\ AtEnd(c)'
    BY <2>2, <2>4
  <2>5. CASE TakeStaged(c)
    <3>1. copier[c].at = "next" /\ copier'[c] = [copier[c] EXCEPT !.at = "file"] /\ disk' = disk
      BY <2>2, <2>5, StagedEffect, AwayType
    <3>2. copier'[c].at = "file" /\ copier'[c].todo = copier[c].todo
      BY <1>a, <3>1 DEF CopierStates
    <3> QED
      BY <2>3, <3>1, <3>2 DEF FilesDone, AtEnd
  <2>6. CASE \E f \in Files : Look(c, f)
    <3> PICK f \in Files : Look(c, f)
      BY <2>6
    <3>1. /\ copier[c].at \in {"next", "file"} /\ disk' = disk /\ part' = part
          /\ copier'[c].todo = copier[c].todo \ {f}
          /\ \/ Skip(c, f) /\ copier'[c].at = copier[c].at
             \/ copier'[c].at = "open" /\ copier'[c].f = f /\ copier'[c].have <= Len(disk[<<f>>])
      BY LookEffect DEF Ready
    <3>2. CASE Skip(c, f) /\ copier'[c].at = copier[c].at
      <4>1. Len(disk[<<f>>]) = Size[f]
        <5>1. Len(disk[<<f>>]) <= Size[f]
          BY DEF FilesOK, Behind, File
        <5>2. Target(copier[c].mode, f) = <<f>>
          BY CopyTypes, TargetIsFile DEF CopierStates
        <5> QED
          BY <1>b, <3>2, <5>1, <5>2 DEF Skip
      <4> QED
        BY <2>3, <3>1, <3>2, <4>1 DEF FilesDone, AtEnd
    <3>3. CASE copier'[c].at = "open" /\ copier'[c].f = f /\ copier'[c].have <= Len(disk[<<f>>])
      BY <2>3, <3>1, <3>3 DEF FilesDone, AtEnd
    <3> QED
      BY <3>1, <3>2, <3>3
  <2>7. CASE Open(c)
    <3>1. /\ copier[c].at = "open" /\ copier'[c].at = "write" /\ copier'[c].f = copier[c].f
          /\ copier'[c].todo = copier[c].todo /\ copier'[c].pos = copier[c].have
          /\ copier'[c].mode = copier[c].mode
          /\ copier'[c].onto = IF copier[c].mode = "local" THEN "part" ELSE "disk"
      BY <2>7, OpenEffect
    <3>g. PICK g \in Files : g = copier[c].f
      BY <1>a
    <3>2. \A f \in Files : f # g => disk'[<<f>>] = disk[<<f>>]
      <4>1. disk \in [Paths -> Seq(Pieces)]
        BY DEF CopyTypeOK, Pieces
      <4> QED
        BY <2>7, <3>g, <4>1, OpenEffect, PathsApart
    <3>3. FilesDone(c)'
      BY <2>3, <3>1, <3>2, <3>g DEF FilesDone
    <3>4. AtEnd(c)'
      <4>1. CASE copier[c].mode = "local"
        <5>1. part \in [Files -> Seq(Pieces)] /\ part' = [part EXCEPT ![g] = <<>>]
          BY <2>7, <3>g, <4>1, OpenEffect DEF CopyTypeOK, Pieces
        <5>2. File(g, "part")' = <<>>
          BY <5>1 DEF File
        <5>3. copier[c].have = 0
          BY <3>1, <4>1 DEF ModesOK
        <5> QED
          BY <3>1, <3>g, <4>1, <5>2, <5>3 DEF AtEnd
      <4>2. CASE copier[c].mode # "local"
        <5> PICK n \in Nat : n = copier[c].have
          BY <1>a
        <5> PICK s \in Seq(Pieces) : s = disk[<<g>>]
          BY CopyTypes
        <5>1. disk \in [Paths -> Seq(Pieces)] /\ disk' = [disk EXCEPT ![<<g>>] = Cut(s, n)]
          BY <2>7, <3>g, <4>2, OpenEffect DEF CopyTypeOK, Pieces
        <5>2. Len(Cut(s, n)) = n
          BY CutPieces
        <5>3. File(g, "disk")' = Cut(s, n)
          BY <5>1, PathsApart DEF File
        <5> QED
          BY <3>1, <3>g, <4>2, <5>2, <5>3 DEF AtEnd
      <4> QED
        BY <4>1, <4>2
    <3> QED
      BY <3>3, <3>4
  <2>8. CASE Write(c)
    <3>1. /\ copier[c].at = "write" /\ copier'[c] = [copier[c] EXCEPT !.pos = @ + 1]
      BY <2>8, WriteEffect
    <3>2. /\ copier'[c].at = "write" /\ copier'[c].f = copier[c].f /\ copier'[c].todo = copier[c].todo
          /\ copier'[c].pos = copier[c].pos + 1 /\ copier'[c].mode = copier[c].mode
          /\ copier'[c].onto = copier[c].onto
      BY <1>a, <3>1 DEF CopierStates
    <3>g. PICK g \in Files : g = copier[c].f
      BY <1>a
    <3>p. PICK p \in Nat : p = copier[c].pos
      BY <1>a
    <3>3. disk \in [Paths -> Seq(Pieces)] /\ part \in [Files -> Seq(Pieces)]
      BY DEF CopyTypeOK, Pieces
    <3>4. CASE copier[c].mode = "local"
      <4>1. copier[c].onto = "part" /\ p = Len(part[g])
        BY <2>3, <3>1, <3>4, <3>g, <3>p DEF AtEnd, File
      <4> PICK s \in Seq(Pieces) : s = part[g]
        BY CopyTypes
      <4>2. part' = [part EXCEPT ![g] = Put(s, p)] /\ disk' = disk
        BY <2>8, <3>g, <3>p, <4>1, WriteEffect
      <4>3. Len(Put(s, p)) = p + 1
        BY <4>1, PutPieces
      <4>4. File(g, "part")' = Put(s, p)
        BY <3>3, <4>2 DEF File
      <4> QED
        BY <2>3, <3>1, <3>2, <3>4, <3>g, <3>p, <4>1, <4>2, <4>3, <4>4 DEF FilesDone, AtEnd
    <3>5. CASE copier[c].mode # "local"
      <4>1. copier[c].onto = "disk" /\ p = Len(disk[<<g>>])
        BY <2>3, <3>1, <3>5, <3>g, <3>p DEF AtEnd, File
      <4> PICK s \in Seq(Pieces) : s = disk[<<g>>]
        BY CopyTypes
      <4>2. disk' = [disk EXCEPT ![<<g>>] = Put(s, p)]
        BY <2>8, <3>g, <3>p, <4>1, WriteEffect
      <4>3. Len(Put(s, p)) = p + 1
        BY <4>1, PutPieces
      <4>4. File(g, "disk")' = Put(s, p) /\ \A f \in Files : f # g => disk'[<<f>>] = disk[<<f>>]
        BY <3>3, <4>2, PathsApart DEF File
      <4>5. AtEnd(c)'
        BY <3>2, <3>5, <3>g, <3>p, <4>1, <4>3, <4>4 DEF AtEnd
      <4>6. FilesDone(c)'
        BY <2>3, <3>1, <3>2, <3>g, <4>4 DEF FilesDone
      <4> QED
        BY <4>5, <4>6
    <3> QED
      BY <3>4, <3>5
  <2>9. CASE CloseFile(c)
    <3>g. PICK g \in Files : g = copier[c].f
      BY <1>a
    <3>1. copier[c].at = "write" /\ copier[c].pos >= Size[g]
      BY <2>9, <3>g DEF CloseFile
    <3>2. /\ Len(File(g, copier[c].onto)) = copier[c].pos
          /\ copier[c].onto = IF copier[c].mode = "local" THEN "part" ELSE "disk"
      BY <2>3, <3>1, <3>g DEF AtEnd
    <3>3. Len(File(g, copier[c].onto)) = Size[g]
      <4>1. copier[c].onto = "part" \/ copier[c].onto = "disk"
        BY <3>2
      <4>2. Writes(c, g, copier[c].onto)
        BY <3>1, <3>g DEF Writes
      <4>3. Behind(g, copier[c].onto)
        BY <4>1 DEF FilesOK
      <4>4. copier[c].pos <= Size[g]
        BY <4>2, <4>3 DEF Behind
      <4>5. copier[c].pos \in Nat /\ Size[g] \in Nat
        BY <1>a, <1>b
      <4>6. copier[c].pos = Size[g]
        BY <3>1, <4>4, <4>5
      <4> QED
        BY <3>2, <4>6
    <3>4. CASE copier[c].mode = "local"
      <4>1. /\ disk' = [disk EXCEPT ![<<g>>] = part[g]]
            /\ copier'[c].at = "next" /\ copier'[c].todo = copier[c].todo
        BY <2>9, <3>2, <3>4, <3>g, RenameEffect
      <4>2. disk \in [Paths -> Seq(Pieces)]
        BY DEF CopyTypeOK, Pieces
      <4>3. disk'[<<g>>] = part[g] /\ \A f \in Files : f # g => disk'[<<f>>] = disk[<<f>>]
        BY <4>1, <4>2, PathsApart
      <4>4. Len(part[g]) = Size[g]
        BY <3>2, <3>3, <3>4 DEF File
      <4> QED
        BY <2>3, <3>1, <3>g, <4>1, <4>3, <4>4 DEF FilesDone, AtEnd
    <3>5. CASE copier[c].mode # "local"
      <4>1. /\ disk' = disk /\ copier'[c].at \in {"file", "next"} /\ copier'[c].todo = copier[c].todo
        BY <2>9, <3>5, CloseEffect
      <4>2. Len(disk[<<g>>]) = Size[g]
        BY <3>2, <3>3, <3>5 DEF File
      <4> QED
        BY <2>3, <3>1, <3>g, <4>1, <4>2 DEF FilesDone, AtEnd
    <3> QED
      BY <3>4, <3>5
  <2>10. CASE CopyDone(c) \/ CopyBreaks(c)
    BY <2>2, <2>10, EndEffect, AwayType
  <2> QED
    BY <1>0, <1>2, <2>5, <2>6, <2>7, <2>8, <2>9, <2>10
<1> QED
  BY <1>1, <1>2

LEMMA StepRoots ==
  ASSUME Alike, CopyTypeOK, NoRoots, CopyNext
  PROVE  NoRoots'
<1>1. \A f \in Files : disk'[<<f, f>>] = disk[<<f, f>>]
  <2>0. PICK c \in Copiers :
          \/ \E m \in Modes : CopyBegin(c, m)
          \/ TakeStaged(c) \/ (\E f \in Files : Look(c, f))
          \/ Open(c) \/ Write(c) \/ CloseFile(c) \/ CopyDone(c) \/ CopyBreaks(c)
    BY DEF CopyNext
  <2>1. disk \in [Paths -> Seq(Pieces)] /\ copier[c].f \in Files
    BY CopyTypes DEF CopyTypeOK, Pieces, CopierStates
  <2>2. disk' = disk \/ \E s : disk' = [disk EXCEPT ![<<copier[c].f>>] = s]
    <3>1. CASE CloseFile(c)
      BY <3>1, RenameEffect, CloseEffect
    <3>2. CASE Open(c)
      BY <3>2, OpenEffect
    <3>3. CASE Write(c)
      <4>1. CASE copier[c].onto = "part"
        BY <3>3, <4>1, WriteEffect
      <4>2. CASE copier[c].onto = "disk"
        BY <3>3, <4>2, WriteEffect
      <4>3. CASE copier[c].onto \notin {"part", "disk"}
        BY <3>3, <4>3, WriteEffect
      <4> QED
        BY <4>1, <4>2, <4>3
    <3> QED
      BY <2>0, <3>1, <3>2, <3>3, BeginEffect, StagedEffect, LookEffect, EndEffect
  <2>3. CASE \E s : disk' = [disk EXCEPT ![<<copier[c].f>>] = s]
    BY <2>1, <2>3, PathsApart
  <2> QED
    BY <2>2, <2>3
<1> QED
  BY <1>1 DEF NoRoots

LEMMA StepCopy ==
  ASSUME Alike, CopyInv, [CopyNext]_copyVars
  PROVE  CopyInv'
<1>1. CASE UNCHANGED copyVars
  <2>1. disk' = disk /\ part' = part /\ copier' = copier /\ staged' = staged /\ broken' = broken
    BY <1>1 DEF copyVars
  <2>2. CopyTypeOK' = CopyTypeOK /\ NoRoots' = NoRoots
    BY <2>1 DEF CopyTypeOK, NoRoots
  <2>3. \A f \in Files : \A o : File(f, o)' = File(f, o)
    BY <2>1 DEF File
  <2>4. FilesOK' = FilesOK
    BY <2>1, <2>3 DEF FilesOK, Behind, Kept, Reached, Writes
  <2>5. ModesOK' = ModesOK
    BY <2>1 DEF ModesOK
  <2>6. LoneOK' = LoneOK
    BY <2>1 DEF LoneOK, Beside, FilesDone, AtEnd, Working, File
  <2> QED
    BY <2>1, <2>2, <2>4, <2>5, <2>6 DEF CopyInv
<1>2. CASE CopyNext
  <2>1. broken => broken'
    BY <1>2, BeginEffect, StagedEffect, LookEffect, OpenEffect, WriteEffect, EndEffect
    DEF CopyNext, CloseFile, CopyInv
  <2> QED
    BY <1>2, <2>1, StepCopyType, StepRoots, StepFiles, StepModes, StepLone DEF CopyInv
<1> QED
  BY <1>1, <1>2

LEMMA CopySays == CopyInv => ContentSound
<1> SUFFICES ASSUME CopyInv, ~broken PROVE ContentSound
  BY DEF ContentSound
<1>1. /\ CopyTypeOK /\ NoRoots /\ FilesOK /\ LoneOK
  BY DEF CopyInv
<1>2. ASSUME \A c \in Copiers : ~Working(c), NEW p \in Paths
      PROVE  Clean(disk[p])
  <2>1. CASE \E f \in Files : p = <<f>>
    <3> PICK f \in Files : p = <<f>>
      BY <2>1
    <3>1. /\ Behind(f, "disk") /\ File(f, "disk") = disk[p] /\ Len(disk[p]) \in Nat /\ Size[f] \in Nat
      BY <1>1, CopyTypes DEF FilesOK, File
    <3>2. \A i \in 1..Len(disk[p]) : disk[p][i] = "good"
      BY <1>2, <3>1 DEF Behind, Reached, Writes, Working
    <3> QED
      BY <3>2 DEF Clean
  <2>2. CASE \E f \in Files : p = <<f, f>>
    <3>1. disk[p] = <<>>
      BY <1>1, <2>2 DEF NoRoots
    <3> QED
      BY <3>1 DEF Clean
  <2> QED
    BY <2>1, <2>2 DEF Paths
<1>3. ASSUME NEW c \in Copiers, ~copier[c].shared, Ready(c), copier[c].todo = {}, NEW f \in Files
      PROVE  Len(disk[<<f>>]) = Size[f] /\ Clean(disk[<<f>>])
  <2>1. Working(c) /\ copier[c].at \notin {"open", "write"}
    BY <1>3 DEF Ready, Working
  <2>2. Len(disk[<<f>>]) = Size[f]
    BY <1>1, <1>3, <2>1 DEF LoneOK, FilesDone
  <2>3. \A i \in 1..Len(File(f, "disk")) : File(f, "disk")[i] = "good"
    BY <1>1, <1>3, <2>1, LoneIsClean DEF Media
  <2> QED
    BY <2>2, <2>3 DEF File, Clean
<1> QED
  BY <1>2, <1>3 DEF ContentSound

(* The content of a torrent at its target: what copies that break off   *)
(* and are tried again leave behind, in whatever ways they follow or       *)
(* overlap each other, for any number of copies, files and pieces.  A      *)
(* torrent of one file may be copied in two of the ways only, because the  *)
(* other two do not put it where it is looked for (see Target).            *)
THEOREM ContentIsSound ==
    ASSUME Alike
    PROVE  CopySpec => []ContentSound
<1>1. CopyInv /\ [CopyNext]_copyVars => CopyInv'
  BY StepCopy
<1> QED
  BY <1>1, CopySays, InitCopy, PTL DEF CopySpec

-----------------------------------------------------------------------------
(* What a retry keeps: here Alike is not needed, and copies that met may   *)
(* have broken off before.                                                 *)

(* A copy that is alone goes on where the file it writes ends, and its     *)
(* .part is as long as it has got.                                         *)
GoesOn(c) ==
    LET f == copier[c].f IN
    /\ copier[c].at = "open" /\ copier[c].mode \in {"direct", "http"}
          => copier[c].have = Len(disk[Target(copier[c].mode, f)])
    /\ copier[c].at = "write" /\ copier[c].onto = "part"
          => Clean(part[f]) /\ Len(part[f]) = copier[c].pos

(* RetryKeeps needs to know that no file is longer than at the source: it  *)
(* would be cut to that length, or replaced by one that is shorter.        *)
Fits ==
    /\ \A p \in Paths : Len(disk[p]) <= Size[p[1]]
    /\ \A f \in Files : Len(part[f]) <= Size[f]

LoneGoesOn ==
    \A c \in Copiers : Working(c) /\ ~copier[c].shared => Beside(c) /\ GoesOn(c)

(* What a copy that has looked at a file is about to keep of it.           *)
Decided(c) ==
    /\ copier[c].at = "open" => copier[c].have <= Size[copier[c].f]
    /\ copier[c].at = "open" /\ copier[c].mode \in {"local", "stream"} => copier[c].have = 0
    /\ Working(c) => copier[c].mode \in Modes

RetryInv ==
    /\ CopyTypeOK /\ Fits /\ LoneGoesOn /\ \A c \in Copiers : Decided(c)

(* More good pieces, when no good piece is lost.                           *)
LEMMA MoreGood ==
  ASSUME NEW s \in Seq(Pieces), NEW r \in Seq(Pieces),
         \A i \in 1..Len(s) : s[i] = "good" => i \in 1..Len(r) /\ r[i] = "good"
  PROVE  GoodPieces(r) >= GoodPieces(s)
<1> DEFINE S == {i \in 1..Len(s) : s[i] = "good"}
           R == {i \in 1..Len(r) : r[i] = "good"}
<1>1. Len(s) \in Nat /\ Len(r) \in Nat /\ S \subseteq R /\ R \subseteq 1..Len(r)
  OBVIOUS
<1>2. IsFiniteSet(1..Len(r))
  BY <1>1, FS_Interval
<1>3. IsFiniteSet(R) /\ Cardinality(S) <= Cardinality(R)
  BY <1>1, <1>2, FS_Subset
<1>4. IsFiniteSet(S) /\ Cardinality(S) \in Nat /\ Cardinality(R) \in Nat
  BY <1>1, <1>3, FS_Subset, FS_CardinalityType
<1> QED
  BY <1>3, <1>4 DEF GoodPieces

LEMMA InitRetry == CopyInit => RetryInv
<1> SUFFICES ASSUME CopyInit PROVE RetryInv
  OBVIOUS
<1>1. CopyTypeOK
  BY InitCopy DEF CopyInv
<1>2. \A c \in Copiers : copier[c].at = "away"
  BY DEF CopyInit, Away
<1>3. \A p \in Paths : disk[p] = <<>> /\ Size[p[1]] \in Nat
  <2> TAKE p \in Paths
  <2>1. PICK f \in Files : p = <<f>> \/ p = <<f, f>>
    BY DEF Paths
  <2>2. p[1] = f
    BY <2>1
  <2> QED
    BY <2>2, CopyAssumption DEF CopyInit
<1>4. Fits
  BY <1>3, CopyAssumption DEF Fits, CopyInit
<1> QED
  BY <1>1, <1>2, <1>4 DEF RetryInv, Decided, LoneGoesOn, Working

(* The file of a path, and its length.                                     *)
LEMMA PathTypes ==
  ASSUME CopyTypeOK, NEW p \in Paths
  PROVE  /\ p[1] \in Files /\ Size[p[1]] \in Nat /\ disk[p] \in Seq(Pieces) /\ Len(disk[p]) \in Nat
<1>1. PICK f \in Files : p = <<f>> \/ p = <<f, f>>
  BY DEF Paths
<1>2. p[1] = f
  BY <1>1
<1>3. disk[p] \in Seq(Pieces)
  BY CopyTypes
<1> QED
  BY <1>2, <1>3, CopyAssumption

(* One file changes, and stays within its length.                          *)
LEMMA FitsStill ==
  ASSUME CopyTypeOK, Fits, NEW q \in Paths, NEW s \in Seq(Pieces), Len(s) <= Size[q[1]],
         disk' = [disk EXCEPT ![q] = s], \A f \in Files : Len(part'[f]) <= Size[f]
  PROVE  Fits' /\ disk'[q] = s /\ \A p \in Paths : p # q => disk'[p] = disk[p]
<1>1. disk \in [Paths -> Seq(Pieces)]
  BY DEF CopyTypeOK, Pieces
<1> QED
  BY <1>1 DEF Fits

(* One copy steps: no other one can be alone, so what matters is that this *)
(* one goes on as it should.                                               *)
LEMMA LoneStill ==
  ASSUME LoneGoesOn, NEW c \in Copiers, Working(c),
         \A d \in Copiers : d # c => copier'[d].at = copier[d].at /\ copier'[d].shared = copier[d].shared,
         copier'[c].at # "away" => copier'[c].shared = copier[c].shared,
         copier'[c].at # "away" /\ ~copier[c].shared /\ GoesOn(c) => GoesOn(c)'
  PROVE  LoneGoesOn'
<1>1. ASSUME NEW d \in Copiers, copier'[d].at # "away", ~copier'[d].shared
      PROVE  d = c
  BY <1>1 DEF LoneGoesOn, Beside, Working
<1>2. ASSUME copier'[c].at # "away", ~copier'[c].shared
      PROVE  GoesOn(c)' /\ \A d \in Copiers : copier'[d].at # "away" => d = c
  BY <1>2 DEF LoneGoesOn, Beside, Working
<1> QED
  BY <1>1, <1>2 DEF LoneGoesOn, Beside, Working

LEMMA BeginRetry ==
  ASSUME RetryInv, NEW c \in Copiers, NEW m \in Modes, CopyBegin(c, m)
  PROVE  Fits' /\ LoneGoesOn' /\ \A d \in Copiers : Decided(d)'
<1> USE DEF RetryInv
<1>1. /\ copier'[c].at = "next" /\ copier'[c].mode = m
      /\ copier'[c].shared = (\E d \in Copiers : Working(d))
      /\ UNCHANGED <<disk, part>>
  BY BeginEffect
<1>2. ASSUME NEW d \in Copiers, d # c
      PROVE  /\ copier'[d].at = copier[d].at /\ copier'[d].have = copier[d].have
             /\ copier'[d].mode = copier[d].mode /\ copier'[d].f = copier[d].f
             /\ Working(d) => copier'[d].shared
  <2>1. copier[d] \in CopierStates /\ copier'[d] = IF Working(d) THEN [copier[d] EXCEPT !.shared = TRUE] ELSE copier[d]
    BY <1>2, BeginEffect, CopyTypes
  <2> QED
    BY <2>1 DEF CopierStates
<1>3. Fits'
  BY <1>1 DEF Fits
<1>4. \A d \in Copiers : Decided(d)'
  BY <1>1, <1>2 DEF Decided, Working
<1>5. LoneGoesOn'
  <2> SUFFICES ASSUME NEW d \in Copiers, copier'[d].at # "away", ~copier'[d].shared
               PROVE  Beside(d)' /\ GoesOn(d)'
    BY DEF LoneGoesOn, Working
  <2>1. d = c
    BY <1>2 DEF Working
  <2>2. \A e \in Copiers : e # c => copier'[e].at = "away"
    BY <1>1, <1>2, <2>1 DEF Working
  <2> QED
    BY <1>1, <2>1, <2>2 DEF Beside, Working, GoesOn
<1> QED
  BY <1>3, <1>4, <1>5

LEMMA LookRetry ==
  ASSUME RetryInv, NEW c \in Copiers, NEW f \in Files, Look(c, f)
  PROVE  Fits' /\ LoneGoesOn' /\ \A d \in Copiers : Decided(d)'
<1> USE DEF RetryInv
<1> DEFINE p == Target(copier[c].mode, f)
<1>1. /\ Ready(c) /\ Others(c) /\ UNCHANGED <<disk, part>>
      /\ copier'[c].mode = copier[c].mode /\ copier'[c].shared = copier[c].shared
      /\ \/ copier'[c].at = copier[c].at
         \/ /\ copier'[c].at = "open" /\ copier'[c].f = f /\ copier'[c].have <= Size[f]
            /\ copier'[c].mode \in {"direct", "http"} => copier'[c].have = Smaller(Len(disk[p]), Size[f])
            /\ copier'[c].mode \in {"local", "stream"} => copier'[c].have = 0
  BY LookChanges
<1>2. Working(c) /\ copier[c].at \notin {"open", "write"} /\ copier[c].mode \in Modes
  BY <1>1 DEF Ready, Working, Decided
<1>3. p \in Paths /\ p[1] = f
  BY TargetPath
<1> HIDE DEF p
<1>4. Smaller(Len(disk[p]), Size[f]) = Len(disk[p])
  BY <1>3, PathTypes DEF Fits, Smaller
<1>5. GoesOn(c)'
  <2>1. Target(copier'[c].mode, copier'[c].f) = p \/ copier'[c].at = copier[c].at
    BY <1>1 DEF p
  <2> QED
    BY <1>1, <1>2, <1>4, <2>1 DEF GoesOn
<1>6. LoneGoesOn'
  BY <1>1, <1>2, <1>5, LoneStill DEF Others
<1>7. \A d \in Copiers : Decided(d)'
  BY <1>1, <1>2 DEF Others, Decided, Working
<1> QED
  BY <1>1, <1>6, <1>7 DEF Fits

LEMMA OpenRetry ==
  ASSUME RetryInv, NEW c \in Copiers, Open(c)
  PROVE  /\ Fits' /\ LoneGoesOn' /\ \A d \in Copiers : Decided(d)'
         /\ ~copier[c].shared /\ copier[c].mode # "stream"
              => \A p \in Paths : GoodPieces(disk'[p]) >= GoodPieces(disk[p])
<1> USE DEF RetryInv
<1> DEFINE f == copier[c].f
           n == copier[c].have
           p == Target(copier[c].mode, f)
<1>1. /\ copier[c].at = "open" /\ Others(c) /\ copier'[c].at = "write" /\ copier'[c].f = f
      /\ copier'[c].pos = n /\ copier'[c].mode = copier[c].mode /\ copier'[c].shared = copier[c].shared
      /\ copier'[c].onto = IF copier[c].mode = "local" THEN "part" ELSE "disk"
      /\ IF copier[c].mode = "local"
         THEN part' = [part EXCEPT ![f] = <<>>] /\ disk' = disk
         ELSE disk' = [disk EXCEPT ![p] = Cut(@, n)] /\ part' = part
  BY OpenChanges
<1>2. /\ f \in Files /\ n \in Nat /\ n <= Size[f] /\ Size[f] \in Nat /\ p \in Paths /\ p[1] = f
      /\ copier[c].mode \in Modes /\ Working(c)
      /\ copier[c].mode \in {"local", "stream"} => n = 0
  BY <1>1, TargetPath, CopyTypes, CopyAssumption DEF Decided, Working, CopierStates
<1>3. disk[p] \in Seq(Pieces) /\ Len(disk[p]) \in Nat /\ Len(disk[p]) <= Size[f]
  BY <1>2, PathTypes DEF Fits
<1>4. /\ Cut(disk[p], n) \in Seq(Pieces) /\ Len(Cut(disk[p], n)) = n
      /\ \A i \in 1..n : Cut(disk[p], n)[i] = IF i <= Len(disk[p]) THEN disk[p][i] ELSE "hole"
  BY <1>2, <1>3, CutPieces
<1>5. part \in [Files -> Seq(Pieces)] /\ \A q \in Paths : disk[q] \in Seq(Pieces)
  BY CopyTypes DEF CopyTypeOK, Pieces
<1> HIDE DEF p, f, n
<1>6. CASE copier[c].mode = "local"
  <2>1. part'[f] = <<>> /\ \A g \in Files : g # f => part'[g] = part[g]
    BY <1>1, <1>2, <1>5, <1>6
  <2>2. Fits'
    BY <1>1, <1>2, <1>6, <2>1 DEF Fits
  <2>3. GoesOn(c)'
    BY <1>1, <1>2, <1>6, <2>1 DEF GoesOn, Clean
  <2>4. \A q \in Paths : GoodPieces(disk'[q]) >= GoodPieces(disk[q])
    BY <1>1, <1>5, <1>6, MoreGood
  <2> QED
    BY <2>2, <2>3, <2>4, <1>1, <1>2, LoneStill DEF Others, Decided, Working
<1>7. CASE copier[c].mode # "local"
  <2>1. disk' = [disk EXCEPT ![p] = Cut(disk[p], n)] /\ part' = part
    BY <1>1, <1>7
  <2>2. /\ Fits' /\ disk'[p] = Cut(disk[p], n)
        /\ \A q \in Paths : q # p => disk'[q] = disk[q]
    BY <1>2, <1>4, <2>1, FitsStill DEF Fits
  <2>3. GoesOn(c)'
    BY <1>1, <1>7 DEF GoesOn
  <2>4. ASSUME ~copier[c].shared, copier[c].mode # "stream", NEW q \in Paths
        PROVE  GoodPieces(disk'[q]) >= GoodPieces(disk[q])
    <3>1. copier[c].mode \in {"direct", "http"}
      BY <1>2, <1>7, <2>4, CopyAssumption
    <3>2. n = Len(disk[p])
      BY <1>1, <1>2, <2>4, <3>1 DEF LoneGoesOn, GoesOn, p, f, n
    <3>3. \A i \in 1..Len(disk[p]) : i \in 1..Len(disk'[p]) /\ disk'[p][i] = disk[p][i]
      BY <1>3, <1>4, <2>2, <3>2
    <3>4. disk'[q] \in Seq(Pieces) /\ disk[q] \in Seq(Pieces)
      BY <1>4, <1>5, <2>2
    <3>5. CASE q = p
      BY <3>3, <3>4, <3>5, MoreGood
    <3>6. CASE q # p
      BY <2>2, <3>4, <3>6, MoreGood
    <3> QED
      BY <3>5, <3>6
  <2> QED
    BY <2>2, <2>3, <2>4, <1>1, <1>2, LoneStill DEF Others, Decided, Working
<1> QED
  BY <1>6, <1>7

LEMMA WriteRetry ==
  ASSUME RetryInv, NEW c \in Copiers, Write(c)
  PROVE  /\ Fits' /\ LoneGoesOn' /\ \A d \in Copiers : Decided(d)'
         /\ \A p \in Paths : GoodPieces(disk'[p]) >= GoodPieces(disk[p])
<1> USE DEF RetryInv
<1> DEFINE f == copier[c].f
           n == copier[c].pos
           p == Target(copier[c].mode, f)
<1>1. /\ copier[c].at = "write" /\ n < Size[f] /\ Others(c)
      /\ copier'[c] = [copier[c] EXCEPT !.pos = @ + 1]
      /\ CASE copier[c].onto = "part" -> part' = [part EXCEPT ![f] = Put(@, n)] /\ disk' = disk
           [] copier[c].onto = "disk" -> disk' = [disk EXCEPT ![p] = Put(@, n)] /\ part' = part
           [] OTHER -> disk' = disk /\ part' = part
  BY WriteChanges
<1>2. /\ f \in Files /\ n \in Nat /\ Size[f] \in Nat /\ p \in Paths /\ p[1] = f
      /\ Working(c) /\ copier[c].mode \in Modes /\ copier[c].onto \in {"disk", "part", "lost"}
  BY <1>1, TargetPath, CopyTypes, CopyAssumption DEF Decided, Working, CopierStates
<1>3. /\ copier'[c].at = "write" /\ copier'[c].f = f /\ copier'[c].pos = n + 1
      /\ copier'[c].mode = copier[c].mode /\ copier'[c].onto = copier[c].onto
      /\ copier'[c].shared = copier[c].shared
  BY <1>1, CopyTypes DEF CopierStates
<1>4. part \in [Files -> Seq(Pieces)] /\ \A q \in Paths : disk[q] \in Seq(Pieces)
  BY CopyTypes DEF CopyTypeOK, Pieces
<1>5. ASSUME NEW s \in Seq(Pieces), Len(s) <= Size[f]
      PROVE  /\ Put(s, n) \in Seq(Pieces) /\ Len(Put(s, n)) <= Size[f]
             /\ GoodPieces(Put(s, n)) >= GoodPieces(s)
             /\ Clean(s) /\ Len(s) = n => Clean(Put(s, n)) /\ Len(Put(s, n)) = n + 1
  <2>1. /\ Put(s, n) \in Seq(Pieces)
        /\ Len(Put(s, n)) = IF Len(s) > n THEN Len(s) ELSE n + 1
        /\ n + 1 \in 1..Len(Put(s, n)) /\ Put(s, n)[n + 1] = "good"
        /\ \A i \in 1..Len(s) : i # n + 1 => Put(s, n)[i] = s[i]
    BY <1>2, <1>5, PutPieces
  <2>2. Len(s) \in Nat /\ Len(Put(s, n)) \in Nat
    BY <2>1
  <2>3. \A i \in 1..Len(s) : s[i] = "good" => i \in 1..Len(Put(s, n)) /\ Put(s, n)[i] = "good"
    BY <2>1, <2>2, <1>2
  <2>4. GoodPieces(Put(s, n)) >= GoodPieces(s)
    BY <2>1, <2>3, MoreGood
  <2>5. ASSUME Clean(s), Len(s) = n
        PROVE  Clean(Put(s, n)) /\ Len(Put(s, n)) = n + 1
    <3>1. Len(Put(s, n)) = n + 1
      BY <1>2, <2>1, <2>5
    <3>2. \A i \in 1..(n + 1) : Put(s, n)[i] = "good"
      BY <1>2, <2>1, <2>5 DEF Clean
    <3> QED
      BY <3>1, <3>2 DEF Clean
  <2>6. Len(Put(s, n)) <= Size[f]
    BY <1>1, <1>2, <1>5, <2>1, <2>2
  <2> QED
    BY <2>1, <2>4, <2>5, <2>6
<1>6. /\ disk[p] \in Seq(Pieces) /\ Len(disk[p]) <= Size[f]
      /\ part[f] \in Seq(Pieces) /\ Len(part[f]) <= Size[f]
  BY <1>2, <1>4 DEF Fits
<1>7. \A s \in Seq(Pieces) : GoodPieces(s) >= GoodPieces(s)
  BY MoreGood
<1> HIDE DEF p, f, n
<1>8. \A d \in Copiers : Decided(d)'
  BY <1>1, <1>2, <1>3 DEF Others, Decided, Working
<1>9. CASE copier[c].onto = "part"
  <2>1. part' = [part EXCEPT ![f] = Put(part[f], n)] /\ disk' = disk
    BY <1>1, <1>9
  <2>2. part'[f] = Put(part[f], n) /\ \A g \in Files : g # f => part'[g] = part[g]
    BY <1>2, <1>4, <2>1
  <2>3. Fits'
    BY <1>5, <1>6, <2>1, <2>2 DEF Fits
  <2>4. ~copier[c].shared /\ GoesOn(c) => GoesOn(c)'
    BY <1>1, <1>3, <1>5, <1>6, <1>9, <2>2 DEF GoesOn, f, n
  <2>5. LoneGoesOn'
    BY <1>1, <1>2, <1>3, <2>4, LoneStill DEF Others
  <2> QED
    BY <1>4, <1>7, <1>8, <2>1, <2>3, <2>5
<1>10. CASE copier[c].onto # "part"
  <2>1. GoesOn(c)'
    BY <1>3, <1>10 DEF GoesOn
  <2>2. LoneGoesOn'
    BY <1>1, <1>2, <1>3, <2>1, LoneStill DEF Others
  <2>3. CASE copier[c].onto = "disk"
    <3>1. disk' = [disk EXCEPT ![p] = Put(disk[p], n)] /\ part' = part
      BY <1>1, <2>3
    <3>2. /\ Fits' /\ disk'[p] = Put(disk[p], n)
          /\ \A q \in Paths : q # p => disk'[q] = disk[q]
      BY <1>2, <1>5, <1>6, <3>1, FitsStill DEF Fits
    <3> QED
      BY <1>4, <1>5, <1>6, <1>7, <1>8, <2>2, <3>2
  <2>4. CASE copier[c].onto = "lost"
    <3>1. disk' = disk /\ part' = part
      BY <1>1, <2>4
    <3> QED
      BY <1>4, <1>7, <1>8, <2>2, <3>1 DEF Fits
  <2> QED
    BY <1>2, <1>10, <2>3, <2>4
<1> QED
  BY <1>9, <1>10

LEMMA CloseRetry ==
  ASSUME RetryInv, NEW c \in Copiers, CloseFile(c)
  PROVE  /\ Fits' /\ LoneGoesOn' /\ \A d \in Copiers : Decided(d)'
         /\ ~copier[c].shared => \A p \in Paths : GoodPieces(disk'[p]) >= GoodPieces(disk[p])
<1> USE DEF RetryInv
<1> DEFINE f == copier[c].f
<1>1. /\ f \in Files /\ Size[f] \in Nat /\ <<f>> \in Paths /\ <<f>>[1] = f
      /\ copier[c].at = "write" /\ Working(c) /\ copier[c].mode \in Modes
  BY PathsApart, CopyTypes, CopyAssumption DEF CloseFile, Decided, Working, CopierStates
<1>2. part \in [Files -> Seq(Pieces)] /\ \A q \in Paths : disk[q] \in Seq(Pieces)
  BY CopyTypes DEF CopyTypeOK, Pieces
<1>3. \A s \in Seq(Pieces) : GoodPieces(s) >= GoodPieces(s)
  BY MoreGood
<1> HIDE DEF f
<1>4. CASE copier[c].mode = "local" /\ copier[c].onto = "part"
  <2>1. /\ copier[c].pos >= Size[f] /\ copier'[c].at = "next"
        /\ disk' = [disk EXCEPT ![<<f>>] = part[f]] /\ part' = [part EXCEPT ![f] = <<>>]
        /\ \A d \in Copiers :
              /\ copier'[d].f = copier[d].f /\ copier'[d].mode = copier[d].mode
              /\ copier'[d].shared = copier[d].shared /\ copier'[d].have = copier[d].have
              /\ d # c => copier'[d].at = copier[d].at
    BY <1>4, RenameChanges DEF f
  <2>2. part[f] \in Seq(Pieces) /\ Len(part[f]) <= Size[f] /\ Len(part[f]) \in Nat
    BY <1>1, <1>2 DEF Fits
  <2>3. \A g \in Files : Len(part'[g]) <= Size[g]
    BY <1>1, <1>2, <2>1 DEF Fits
  <2>4. /\ Fits' /\ disk'[<<f>>] = part[f]
        /\ \A q \in Paths : q # <<f>> => disk'[q] = disk[q]
    BY <1>1, <2>1, <2>2, <2>3, FitsStill
  <2>5. GoesOn(c)'
    BY <2>1 DEF GoesOn
  <2>6. LoneGoesOn'
    BY <1>1, <2>1, <2>5, LoneStill
  <2>7. \A d \in Copiers : Decided(d)'
    BY <1>1, <2>1 DEF Decided, Working
  <2>8. ASSUME ~copier[c].shared, NEW q \in Paths
        PROVE  GoodPieces(disk'[q]) >= GoodPieces(disk[q])
    <3>1. Clean(part[f]) /\ Len(part[f]) = copier[c].pos
      BY <1>1, <1>4, <2>8 DEF LoneGoesOn, GoesOn, f
    <3>2. Len(part[f]) = Size[f]
      BY <1>1, <2>1, <2>2, <3>1
    <3>3. Len(disk[<<f>>]) <= Size[f] /\ disk[<<f>>] \in Seq(Pieces)
      BY <1>1, <1>2 DEF Fits
    <3>4. \A i \in 1..Len(disk[<<f>>]) : i \in 1..Len(part[f]) /\ part[f][i] = "good"
      BY <2>2, <3>1, <3>2, <3>3, <1>1 DEF Clean
    <3>5. GoodPieces(part[f]) >= GoodPieces(disk[<<f>>])
      BY <2>2, <3>3, <3>4, MoreGood
    <3> QED
      BY <1>2, <1>3, <2>4, <3>5
  <2> QED
    BY <2>4, <2>6, <2>7, <2>8
<1>5. CASE ~(copier[c].mode = "local" /\ copier[c].onto = "part")
  <2>1. /\ Others(c) /\ UNCHANGED <<disk, part>> /\ copier'[c].at \in {"failed", "file", "next"}
        /\ copier'[c].mode = copier[c].mode /\ copier'[c].shared = copier[c].shared
    BY <1>5, CloseEffect
  <2>2. GoesOn(c)'
    BY <2>1 DEF GoesOn
  <2>3. LoneGoesOn'
    BY <1>1, <2>1, <2>2, LoneStill DEF Others
  <2>4. \A d \in Copiers : Decided(d)'
    BY <1>1, <2>1 DEF Others, Decided, Working
  <2> QED
    BY <1>2, <1>3, <2>1, <2>3, <2>4 DEF Fits
<1> QED
  BY <1>4, <1>5

LEMMA EndRetry ==
  ASSUME RetryInv, NEW c \in Copiers, TakeStaged(c) \/ CopyDone(c) \/ CopyBreaks(c)
  PROVE  /\ Fits' /\ LoneGoesOn' /\ (\A d \in Copiers : Decided(d)') /\ disk' = disk
<1> USE DEF RetryInv
<1>1. /\ Working(c) /\ Others(c) /\ UNCHANGED <<disk, part>>
      /\ \/ copier'[c] = Away
         \/ copier'[c] = [copier[c] EXCEPT !.at = "file"]
  BY StagedEffect, EndEffect DEF Working
<1>2. /\ copier'[c].at \in {"away", "file"}
      /\ copier'[c].at # "away" => copier'[c].shared = copier[c].shared /\ copier'[c].mode = copier[c].mode
  BY <1>1, AwayType, CopyTypes DEF CopierStates
<1>3. GoesOn(c)'
  BY <1>2 DEF GoesOn
<1>4. LoneGoesOn'
  BY <1>1, <1>2, <1>3, LoneStill DEF Others
<1>5. \A d \in Copiers : Decided(d)'
  BY <1>1, <1>2 DEF Others, Decided, Working
<1> QED
  BY <1>1, <1>4, <1>5 DEF Fits

(* The good pieces that there are stay, when no stream and no copy that    *)
(* met another is at work.                                                 *)
LEMMA StepRetry ==
  ASSUME RetryInv, [CopyNext]_copyVars
  PROVE  /\ RetryInv'
         /\ (\A c \in Copiers : copier[c].mode # "stream" /\ ~copier[c].shared)
              => \A p \in Paths : GoodPieces(disk'[p]) >= GoodPieces(disk[p])
<1>1. \A p \in Paths : disk[p] \in Seq(Pieces)
  BY CopyTypes DEF RetryInv
<1>2. disk' = disk => \A p \in Paths : GoodPieces(disk'[p]) >= GoodPieces(disk[p])
  BY <1>1, MoreGood
<1>3. CASE UNCHANGED copyVars
  <2>1. disk' = disk /\ part' = part /\ copier' = copier /\ staged' = staged /\ broken' = broken
    BY <1>3 DEF copyVars
  <2> QED
    BY <1>2, <2>1 DEF RetryInv, CopyTypeOK, Fits, LoneGoesOn, Beside, GoesOn, Decided, Working
<1>4. CASE CopyNext
  <2>1. CopyTypeOK'
    BY <1>4, StepCopyType DEF RetryInv
  <2> PICK c \in Copiers :
        \/ \E m \in Modes : CopyBegin(c, m)
        \/ TakeStaged(c) \/ (\E f \in Files : Look(c, f))
        \/ Open(c) \/ Write(c) \/ CloseFile(c) \/ CopyDone(c) \/ CopyBreaks(c)
    BY <1>4 DEF CopyNext
  <2>2. CASE \E m \in Modes : CopyBegin(c, m)
    BY <1>2, <2>1, <2>2, BeginRetry DEF RetryInv, CopyBegin
  <2>3. CASE \E f \in Files : Look(c, f)
    BY <1>2, <2>1, <2>3, LookRetry DEF RetryInv, Look
  <2>4. CASE Open(c)
    BY <2>1, <2>4, OpenRetry DEF RetryInv
  <2>5. CASE Write(c)
    BY <2>1, <2>5, WriteRetry DEF RetryInv
  <2>6. CASE CloseFile(c)
    BY <2>1, <2>6, CloseRetry DEF RetryInv
  <2>7. CASE TakeStaged(c) \/ CopyDone(c) \/ CopyBreaks(c)
    BY <1>2, <2>1, <2>7, EndRetry DEF RetryInv
  <2> QED
    BY <2>2, <2>3, <2>4, <2>5, <2>6, <2>7
<1> QED
  BY <1>3, <1>4

(* The variables of the copies keep their types, in every way of copying.  *)
THEOREM CopyTypesKept == CopySpec => []CopyTypeOK
<1>1. RetryInv => CopyTypeOK
  BY DEF RetryInv
<1>2. RetryInv /\ [CopyNext]_copyVars => RetryInv'
  BY StepRetry
<1> QED
  BY <1>1, <1>2, InitRetry, PTL DEF CopySpec

(* "A retry only copies what is missing": a copy that is alone, and is no  *)
(* tar stream, takes no piece away, whatever the copies before it left     *)
(* (_copy_incremental, import_direct, import_file).                        *)
THEOREM RetriesKeep == CopySpec => RetryKeeps
<1>1. RetryInv /\ [CopyNext]_copyVars => RetryInv'
  BY StepRetry
<1>2. RetryInv /\ [CopyNext]_copyVars =>
        [(\A c \in Copiers : copier[c].mode # "stream" /\ ~copier[c].shared)
          => \A p \in Paths : GoodPieces(disk'[p]) >= GoodPieces(disk[p])]_copyVars
  BY StepRetry
<1> QED
  BY <1>1, <1>2, InitRetry, PTL DEF CopySpec, RetryKeeps
=============================================================================
