------------------------- MODULE TransferSlotsProofs -------------------------
(***************************************************************************)
(* Theorems about TransferSlots, for every set of transfers and engines    *)
(* and every bounded set of limits.                                        *)
(***************************************************************************)
EXTENDS TransferSlots, FiniteSetTheorems, TLAPS

(* How far a task got, given where it stands. *)
PhaseOK ==
    \A t \in Tasks :
        /\ held[t] <= Len(KeyList(t))
        /\ pc[t] \in {"idle", "done"} => held[t] = 0
        /\ pc[t] \in {"read", "lock", "wait"} => held[t] < Len(KeyList(t))
        /\ pc[t] = "hold" => held[t] = Len(KeyList(t))

(* A queued future belongs to a task that waits for that key, and to one   *)
(* place of the queue only.                                                *)
QueueOK ==
    \A k \in Keys :
        /\ \A i \in DOMAIN waiters[k] :
              pc[waiters[k][i]] = "wait" /\ Wanted(waiters[k][i]) = k
        /\ \A i, j \in DOMAIN waiters[k] :
              waiters[k][i] = waiters[k][j] => i = j

(* No slot is taken above the largest limit a task can have read. *)
BoundOK ==
    /\ \A t \in Tasks : seen[t] <= TopLimit
    /\ \A k \in Keys : active[k] <= TopLimit

IInv == TypeOK /\ PhaseOK /\ QueueOK /\ SlotsAccounted /\ BoundOK

-----------------------------------------------------------------------------
(* The largest limit exists and is one of the limits. *)
LEMMA TopLimitIsTop ==
    /\ TopLimit \in Nat
    /\ \E l \in Limits : TopLimit = AtLeastOne(l)
    /\ \A l \in Limits : AtLeastOne(l) <= TopLimit
<1> DEFINE Values == {AtLeastOne(l) : l \in Limits}
<1>1. PICK top \in Limits : \A l \in Limits : l <= top
  BY ConstantsAssumption
<1>2. \A l \in Limits : l \in Nat /\ AtLeastOne(l) \in Nat
                          /\ AtLeastOne(l) <= AtLeastOne(top)
  BY <1>1, ConstantsAssumption DEF AtLeastOne
<1>3. \E x \in Values : \A l \in Limits : AtLeastOne(l) <= x
  BY <1>1, <1>2
<1>4. TopLimit \in Values /\ \A l \in Limits : AtLeastOne(l) <= TopLimit
  BY <1>3 DEF TopLimit
<1> QED
  BY <1>2, <1>4

(* What the sorted key list of a transfer looks like. *)
LEMMA KeyListShape ==
    ASSUME NEW t \in Tasks
    PROVE  /\ Len(KeyList(t)) \in 1..2
           /\ DOMAIN KeyList(t) = 1..Len(KeyList(t))
           /\ \A i \in 1..Len(KeyList(t)) : KeyList(t)[i] \in Keys
           /\ \A i, j \in 1..Len(KeyList(t)) :
                 KeyList(t)[i] = KeyList(t)[j] => i = j
<1>1. Source[t] \in Engines /\ Target[t] \in Engines
  BY ConstantsAssumption
<1>2. CASE Target[t] = Source[t]
  <2>1. KeyList(t) = <<<<"src", Source[t]>>>>
    BY <1>2 DEF KeyList
  <2> QED
    BY <1>1, <2>1 DEF Keys
<1>3. CASE Target[t] # Source[t]
  <2>1. KeyList(t) = <<<<"dst", Target[t]>>, <<"src", Source[t]>>>>
    BY <1>3 DEF KeyList
  <2> QED
    BY <1>1, <2>1 DEF Keys
<1> QED
  BY <1>2, <1>3

(* The holders of a key are finitely many. *)
LEMMA HoldersFinite ==
    ASSUME NEW k
    PROVE  IsFiniteSet(Holders(k)) /\ Cardinality(Holders(k)) \in Nat
<1>1. Holders(k) \subseteq Tasks
  BY DEF Holders
<1> QED
  BY <1>1, ConstantsAssumption, FS_Subset, FS_CardinalityType

(* A task on its way to a slot wants one of its keys. *)
LEMMA WantedKey ==
    ASSUME IInv, NEW t \in Tasks, pc[t] \in {"read", "lock", "wait"}
    PROVE  /\ held[t] \in Nat /\ held[t] + 1 \in 1..Len(KeyList(t))
           /\ Len(KeyList(t)) \in 1..2
           /\ held[t] + 1 \in 0..2
           /\ Wanted(t) \in Keys
<1>1. Len(KeyList(t)) \in 1..2
  BY KeyListShape
<1>2. held[t] \in 0..2 /\ held[t] < Len(KeyList(t))
  BY DEF IInv, TypeOK, PhaseOK
<1>3. held[t] + 1 \in 1..Len(KeyList(t)) /\ held[t] + 1 \in 0..2
  <2>1. \A h \in 0..2, n \in 1..2 : h < n => h + 1 \in 1..n /\ h + 1 \in 0..2
    OBVIOUS
  <2> QED
    BY <1>1, <1>2, <2>1
<1>4. Wanted(t) \in Keys
  BY <1>3, KeyListShape DEF Wanted
<1> QED
  BY <1>1, <1>2, <1>3, <1>4

-----------------------------------------------------------------------------
(* The counters under the two actions that change them. *)
LEMMA TakeAccounts ==
    ASSUME IInv, NEW t \in Tasks, Take(t)
    PROVE  SlotsAccounted'
<1> DEFINE w == Wanted(t)
<1>1. /\ held[t] \in Nat /\ held[t] + 1 \in 1..Len(KeyList(t))
      /\ w \in Keys /\ w \notin Acquired(t)
  <2>1. held[t] \in Nat /\ held[t] + 1 \in 1..Len(KeyList(t)) /\ w \in Keys
    BY WantedKey DEF Take
  <2> QED
    BY <2>1, KeyListShape DEF Wanted, Acquired
<1>2. \A u \in Tasks : u # t => Acquired(u)' = Acquired(u)
  BY DEF IInv, TypeOK, Take, Acquired
<1>3. Acquired(t)' = Acquired(t) \cup {w}
  <2>1. held'[t] = held[t] + 1
    BY DEF IInv, TypeOK, Take
  <2>2. 1..held'[t] = (1..held[t]) \cup {held[t] + 1}
    BY <1>1, <2>1
  <2> QED
    BY <2>1, <2>2 DEF Acquired, Wanted
<1>4. SUFFICES ASSUME NEW k \in Keys
               PROVE  active'[k] = Cardinality(Holders(k)')
  BY DEF SlotsAccounted
<1>5. CASE k = w
  <2>1. Holders(k)' = Holders(k) \cup {t} /\ t \notin Holders(k)
    BY <1>1, <1>2, <1>3, <1>5 DEF Holders
  <2>2. Cardinality(Holders(k)') = Cardinality(Holders(k)) + 1
    BY <2>1, HoldersFinite, FS_AddElement
  <2>3. active'[k] = active[k] + 1
    BY <1>1, <1>5 DEF IInv, TypeOK, Take
  <2> QED
    BY <2>2, <2>3 DEF IInv, SlotsAccounted
<1>6. CASE k # w
  <2>1. Holders(k)' = Holders(k)
    BY <1>2, <1>3, <1>6 DEF Holders
  <2>2. active'[k] = active[k]
    BY <1>1, <1>6 DEF IInv, TypeOK, Take
  <2> QED
    BY <2>1, <2>2 DEF IInv, SlotsAccounted
<1> QED
  BY <1>5, <1>6

(* Giving a slot back keeps counters and holders together.                 *)
LEMMA ReleaseAccounts ==
    ASSUME IInv, NEW t \in Tasks, Release(t)
    PROVE  SlotsAccounted'
<1> DEFINE w == KeyList(t)[held[t]]
<1>1. /\ held[t] \in 1..Len(KeyList(t)) /\ w \in Keys /\ w \in Acquired(t)
  <2>1. held[t] \in 1..Len(KeyList(t))
    BY KeyListShape DEF IInv, TypeOK, PhaseOK, Release
  <2>2. held[t] \in 1..held[t]
    BY <2>1, KeyListShape
  <2> QED
    BY <2>1, <2>2, KeyListShape DEF Acquired
<1>2. \A u \in Tasks : u # t => Acquired(u)' = Acquired(u)
  BY DEF IInv, TypeOK, Release, Acquired
<1>3. Acquired(t)' = Acquired(t) \ {w}
  <2>1. held'[t] = held[t] - 1
    BY DEF IInv, TypeOK, Release
  <2>2. 1..held'[t] = (1..held[t]) \ {held[t]}
    BY <1>1, <2>1
  <2>3. \A i \in 1..held[t] : KeyList(t)[i] = w <=> i = held[t]
    BY <1>1, KeyListShape
  <2> QED
    BY <2>1, <2>2, <2>3 DEF Acquired
<1>4. SUFFICES ASSUME NEW k \in Keys
               PROVE  active'[k] = Cardinality(Holders(k)')
  BY DEF SlotsAccounted
<1>5. CASE k = w
  <2>1. Holders(k)' = Holders(k) \ {t} /\ t \in Holders(k)
    BY <1>1, <1>2, <1>3, <1>5 DEF Holders
  <2>2. Cardinality(Holders(k)') = Cardinality(Holders(k)) - 1
    BY <2>1, HoldersFinite, FS_RemoveElement
  <2>3. Holders(k) # {} => Cardinality(Holders(k)) > 0
    BY HoldersFinite, FS_EmptySet
  <2>4. active'[k] = active[k] - 1
    BY <1>1, <1>5, <2>1, <2>3, HoldersFinite
    DEF IInv, TypeOK, Release, OneLess, SlotsAccounted
  <2> QED
    BY <2>2, <2>4 DEF IInv, SlotsAccounted
<1>6. CASE k # w
  <2>1. Holders(k)' = Holders(k)
    BY <1>2, <1>3, <1>6 DEF Holders
  <2>2. active'[k] = active[k]
    BY <1>1, <1>6 DEF IInv, TypeOK, Release
  <2> QED
    BY <2>1, <2>2 DEF IInv, SlotsAccounted
<1> QED
  BY <1>5, <1>6

(* Steps that move no slot keep counters and holders together.             *)
LEMMA SameHeldAccounts ==
    ASSUME IInv, UNCHANGED <<active, held>>
    PROVE  SlotsAccounted'
<1>1. \A k : Holders(k)' = Holders(k)
  BY DEF Holders, Acquired
<1> QED
  BY <1>1 DEF IInv, SlotsAccounted

-----------------------------------------------------------------------------
(* A step of one task that neither takes nor gives back a slot and moves   *)
(* no future.                                                              *)
LEMMA LocalStep ==
    ASSUME IInv, NEW t \in Tasks, pc[t] # "wait",
           NEW p \in Phases, pc' = [pc EXCEPT ![t] = p],
           p \in {"idle", "done"} => held[t] = 0,
           p \in {"read", "lock", "wait"} => held[t] < Len(KeyList(t)),
           p # "hold",
           UNCHANGED <<active, waiters, held>>,
           limit' \in Limits,
           seen' \in [Tasks -> Nat],
           \A u \in Tasks : seen'[u] <= TopLimit
    PROVE  IInv'
<1>1. TypeOK'
  BY DEF IInv, TypeOK
<1>2. PhaseOK'
  BY DEF IInv, TypeOK, PhaseOK
<1>3. QueueOK'
  BY DEF IInv, TypeOK, QueueOK, Wanted
<1>4. SlotsAccounted'
  BY SameHeldAccounts
<1>5. BoundOK'
  BY DEF IInv, BoundOK
<1> QED
  BY <1>1, <1>2, <1>3, <1>4, <1>5 DEF IInv

(* Taking a slot keeps the invariant.                                      *)
LEMMA TakeStep ==
    ASSUME IInv, NEW t \in Tasks, Take(t)
    PROVE  IInv'
<1>1. /\ held[t] \in Nat /\ held[t] + 1 \in 1..Len(KeyList(t))
      /\ Len(KeyList(t)) \in 1..2 /\ held[t] + 1 \in 0..2
      /\ Wanted(t) \in Keys
  BY WantedKey DEF Take
<1>2. /\ held' = [held EXCEPT ![t] = held[t] + 1]
      /\ active' = [active EXCEPT ![Wanted(t)] = active[Wanted(t)] + 1]
      /\ pc' \in [Tasks -> Phases] /\ UNCHANGED <<limit, waiters, seen>>
  BY DEF IInv, TypeOK, Take, Phases
<1>3. TypeOK'
  BY <1>1, <1>2 DEF IInv, TypeOK
<1>4. PhaseOK'
  BY <1>1, <1>2 DEF IInv, TypeOK, PhaseOK, Take
<1>5. QueueOK'
  BY <1>2 DEF IInv, TypeOK, QueueOK, Wanted, Take
<1>6. SlotsAccounted'
  BY TakeAccounts
<1>7. BoundOK'
  BY <1>1, <1>2, TopLimitIsTop DEF IInv, TypeOK, BoundOK, Take
<1> QED
  BY <1>3, <1>4, <1>5, <1>6, <1>7 DEF IInv

(* Queueing keeps the invariant.                                           *)
LEMMA EnqueueStep ==
    ASSUME IInv, NEW t \in Tasks, Enqueue(t)
    PROVE  IInv'
<1> DEFINE w == Wanted(t)
<1>1. w \in Keys
  BY WantedKey DEF Enqueue
<1>2. /\ waiters' = [waiters EXCEPT ![w] = Append(waiters[w], t)]
      /\ pc' = [pc EXCEPT ![t] = "wait"]
      /\ UNCHANGED <<limit, active, held, seen>>
  BY DEF Enqueue
<1>3. TypeOK'
  <2>1. Append(waiters[w], t) \in Seq(Tasks)
    BY <1>1 DEF IInv, TypeOK
  <2> QED
    BY <1>1, <1>2, <2>1 DEF IInv, TypeOK, Phases
<1>4. PhaseOK'
  BY <1>2 DEF IInv, TypeOK, PhaseOK, Enqueue
<1>5. QueueOK'
  <2>1. \A u : Wanted(u)' = Wanted(u)
    BY <1>2 DEF Wanted
  <2>2. \A k \in Keys : k # w => waiters'[k] = waiters[k]
    BY <1>2 DEF IInv, TypeOK
  <2>3. /\ DOMAIN waiters'[w] = 1..(Len(waiters[w]) + 1)
        /\ DOMAIN waiters[w] = 1..Len(waiters[w]) /\ Len(waiters[w]) \in Nat
        /\ \A i \in DOMAIN waiters[w] : waiters'[w][i] = waiters[w][i]
        /\ waiters'[w][Len(waiters[w]) + 1] = t
    BY <1>1, <1>2 DEF IInv, TypeOK
  <2>4. \A k \in Keys : \A i \in DOMAIN waiters[k] :
            waiters[k][i] \in Tasks /\ waiters[k][i] # t
    BY DEF IInv, TypeOK, QueueOK, Enqueue
  <2>5. pc'[t] = "wait" /\ \A u \in Tasks : u # t => pc'[u] = pc[u]
    BY <1>2 DEF IInv, TypeOK
  <2>6. SUFFICES ASSUME NEW k \in Keys
                 PROVE  /\ \A i \in DOMAIN waiters'[k] :
                              /\ pc'[waiters'[k][i]] = "wait"
                              /\ Wanted(waiters'[k][i]) = k
                        /\ \A i, j \in DOMAIN waiters'[k] :
                              waiters'[k][i] = waiters'[k][j] => i = j
    BY <2>1 DEF QueueOK
  <2>7. CASE k # w
    BY <2>2, <2>4, <2>5, <2>7 DEF IInv, QueueOK
  <2>8. CASE k = w
    <3> DEFINE n == Len(waiters[w])
    <3>1. \A i \in DOMAIN waiters'[w] : i \in DOMAIN waiters[w] \/ i = n + 1
      BY <2>3
    <3>2. \A i \in DOMAIN waiters[w] :
             /\ waiters'[w][i] = waiters[w][i] /\ waiters[w][i] # t
             /\ pc'[waiters[w][i]] = "wait" /\ Wanted(waiters[w][i]) = w
      BY <1>1, <2>3, <2>4, <2>5 DEF IInv, QueueOK
    <3>3. \A i, j \in DOMAIN waiters[w] :
             waiters[w][i] = waiters[w][j] => i = j
      BY <1>1 DEF IInv, QueueOK
    <3> QED
      BY <2>3, <2>5, <2>8, <3>1, <3>2, <3>3
  <2> QED
    BY <2>7, <2>8
<1>6. SlotsAccounted'
  BY <1>2, SameHeldAccounts
<1>7. BoundOK'
  BY <1>2 DEF IInv, BoundOK
<1> QED
  BY <1>3, <1>4, <1>5, <1>6, <1>7 DEF IInv

(* Giving a slot back wakes the first waiter of that key, if there is one. *)
LEMMA ReleaseStep ==
    ASSUME IInv, NEW t \in Tasks, Release(t)
    PROVE  IInv'
<1> DEFINE w == KeyList(t)[held[t]]
<1>1. held[t] \in 1..2 /\ held[t] <= Len(KeyList(t)) /\ w \in Keys
  BY KeyListShape DEF IInv, TypeOK, PhaseOK, Release
<1>2. /\ held' = [held EXCEPT ![t] = held[t] - 1]
      /\ active' = [active EXCEPT ![w] = OneLess(w)]
      /\ waiters' = [waiters EXCEPT ![w] =
                        IF waiters[w] = <<>> THEN waiters[w] ELSE Tail(waiters[w])]
      /\ pc' = WakeFirst(w, pc)
      /\ pc[t] = "free"
      /\ UNCHANGED <<limit, seen>>
  BY DEF Release
<1>3. held[t] - 1 \in 0..2 /\ held[t] - 1 <= Len(KeyList(t))
  <2>1. \A h \in 1..2 : h - 1 \in 0..2 /\ h - 1 < h
    OBVIOUS
  <2>2. Len(KeyList(t)) \in 1..2
    BY KeyListShape
  <2> QED
    BY <1>1, <2>1, <2>2
<1>4. OneLess(w) \in Nat /\ OneLess(w) <= active[w]
  BY <1>1 DEF IInv, TypeOK, OneLess
<1>5. SlotsAccounted'
  BY ReleaseAccounts
<1>6. BoundOK'
  BY <1>1, <1>2, <1>4, TopLimitIsTop DEF IInv, TypeOK, BoundOK
<1>6a. \A k \in Keys : \A i \in DOMAIN waiters[k] :
         /\ waiters[k][i] \in Tasks /\ waiters[k][i] # t
         /\ held'[waiters[k][i]] = held[waiters[k][i]]
  BY <1>2 DEF IInv, TypeOK, QueueOK
<1>7. CASE waiters[w] = <<>>
  <2>1. UNCHANGED <<waiters, pc>>
    BY <1>1, <1>2, <1>7 DEF IInv, TypeOK, WakeFirst
  <2>2. TypeOK'
    BY <1>1, <1>2, <1>3, <1>4, <2>1 DEF IInv, TypeOK
  <2>3. PhaseOK'
    BY <1>2, <1>3, <2>1 DEF IInv, TypeOK, PhaseOK
  <2>4. QueueOK'
    BY <1>6a, <2>1 DEF IInv, QueueOK, Wanted
  <2> QED
    BY <1>5, <1>6, <2>2, <2>3, <2>4 DEF IInv
<1>8. CASE waiters[w] # <<>>
  <2> DEFINE h == Head(waiters[w])
             n == Len(waiters[w])
  <2>1. /\ n \in Nat \ {0} /\ DOMAIN waiters[w] = 1..n
        /\ h = waiters[w][1] /\ h \in Tasks
        /\ Tail(waiters[w]) \in Seq(Tasks)
        /\ DOMAIN Tail(waiters[w]) = 1..(n - 1)
        /\ \A i \in 1..(n - 1) : Tail(waiters[w])[i] = waiters[w][i + 1]
    BY <1>1, <1>8 DEF IInv, TypeOK
  <2>2. /\ waiters' = [waiters EXCEPT ![w] = Tail(waiters[w])]
        /\ pc' = [pc EXCEPT ![h] = "read"]
    BY <1>2, <1>8 DEF WakeFirst
  <2>3. pc[h] = "wait" /\ Wanted(h) = w /\ h # t
    BY <1>1, <1>2, <2>1 DEF IInv, QueueOK
  <2>4. TypeOK'
    BY <1>1, <1>2, <1>3, <1>4, <2>1, <2>2 DEF IInv, TypeOK, Phases
  <2>5. PhaseOK'
    BY <1>2, <1>3, <2>1, <2>2, <2>3 DEF IInv, TypeOK, PhaseOK
  <2>6. QueueOK'
    <3>1. \A u \in Tasks : u # t => held'[u] = held[u]
      BY <1>2 DEF IInv, TypeOK
    <3>2. \A k \in Keys : \A i \in DOMAIN waiters[k] :
             /\ waiters[k][i] \in Tasks /\ waiters[k][i] # t
             /\ k # w => waiters[k][i] # h
      BY <1>2, <2>3 DEF IInv, TypeOK, QueueOK
    <3>3. SUFFICES ASSUME NEW k \in Keys
                   PROVE  /\ \A i \in DOMAIN waiters'[k] :
                                /\ waiters'[k][i] \in Tasks \ {t}
                                /\ pc'[waiters'[k][i]] = "wait"
                                /\ Wanted(waiters'[k][i]) = k
                          /\ \A i, j \in DOMAIN waiters'[k] :
                                waiters'[k][i] = waiters'[k][j] => i = j
      BY <3>1 DEF QueueOK, Wanted
    <3>4. CASE k # w
      <4>1. waiters'[k] = waiters[k]
        BY <2>2, <3>4 DEF IInv, TypeOK
      <4> QED
        BY <2>2, <3>2, <3>4, <4>1 DEF IInv, TypeOK, QueueOK
    <3>5. CASE k = w
      <4>1. waiters'[w] = Tail(waiters[w])
        BY <1>1, <2>2 DEF IInv, TypeOK
      <4>2. \A i \in 1..(n - 1) : i + 1 \in 1..n /\ i + 1 # 1
        BY <2>1
      <4>3. \A i \in 1..(n - 1) : waiters[w][i + 1] # h
        BY <1>1, <2>1, <4>2 DEF IInv, QueueOK
      <4>4. \A i \in 1..(n - 1) :
               /\ waiters[w][i + 1] \in Tasks \ {t}
               /\ pc'[waiters[w][i + 1]] = "wait"
               /\ Wanted(waiters[w][i + 1]) = w
        <5>1. \A i \in 1..n :
                 /\ waiters[w][i] \in Tasks \ {t}
                 /\ pc[waiters[w][i]] = "wait" /\ Wanted(waiters[w][i]) = w
          BY <1>1, <2>1, <3>2 DEF IInv, QueueOK
        <5>2. \A u \in Tasks : u # h => pc'[u] = pc[u]
          BY <2>2 DEF IInv, TypeOK
        <5> QED
          BY <4>2, <4>3, <5>1, <5>2
      <4>5. \A i, j \in 1..(n - 1) :
               waiters[w][i + 1] = waiters[w][j + 1] => i = j
        <5>1. \A i, j \in 1..n : waiters[w][i] = waiters[w][j] => i = j
          BY <1>1, <2>1 DEF IInv, QueueOK
        <5> QED
          BY <2>1, <4>2, <5>1
      <4> QED
        BY <2>1, <3>5, <4>1, <4>4, <4>5
    <3> QED
      BY <3>4, <3>5
  <2> QED
    BY <1>5, <1>6, <2>4, <2>5, <2>6 DEF IInv
<1> QED
  BY <1>7, <1>8

-----------------------------------------------------------------------------
(* The initial state satisfies the invariant.                              *)
LEMMA InitIInv == Init => IInv
<1> SUFFICES ASSUME Init PROVE IInv
  OBVIOUS
<1>1. TypeOK /\ QueueOK
  BY DEF Init, TypeOK, QueueOK, Phases
<1>2. PhaseOK
  BY KeyListShape DEF Init, PhaseOK
<1>3. SlotsAccounted
  <2>1. \A k : Holders(k) = {}
    BY DEF Init, Holders, Acquired
  <2> QED
    BY <2>1, FS_EmptySet DEF Init, SlotsAccounted
<1>4. BoundOK
  <2>1. \A l \in Limits : l \in Nat /\ AtLeastOne(l) >= 0
    BY ConstantsAssumption DEF AtLeastOne
  <2> QED
    BY <2>1, TopLimitIsTop DEF Init, BoundOK
<1> QED
  BY <1>1, <1>2, <1>3, <1>4 DEF IInv

(* The invariant is inductive.                                             *)
LEMMA StepIInv == IInv /\ [Next]_vars => IInv'
<1> SUFFICES ASSUME IInv, [Next]_vars PROVE IInv'
  OBVIOUS
<1>1. ASSUME NEW l \in Limits, SetLimit(l) PROVE IInv'
  <2>1. TypeOK' /\ PhaseOK' /\ QueueOK' /\ BoundOK'
    BY <1>1 DEF IInv, TypeOK, PhaseOK, QueueOK, BoundOK, SetLimit, Wanted
  <2>2. SlotsAccounted'
    BY <1>1, SameHeldAccounts DEF SetLimit
  <2> QED
    BY <2>1, <2>2 DEF IInv
<1>2. ASSUME NEW t \in Tasks, Start(t) PROVE IInv'
  <2>1. held[t] < Len(KeyList(t))
    BY <1>2, KeyListShape DEF Start, IInv, PhaseOK
  <2> QED
    BY <1>2, <2>1, LocalStep DEF Start, Phases, IInv, TypeOK, BoundOK
<1>3. ASSUME NEW t \in Tasks, ReadLimit(t) PROVE IInv'
  <2>1. AtLeastOne(limit) \in Nat /\ AtLeastOne(limit) <= TopLimit
    BY TopLimitIsTop, ConstantsAssumption DEF IInv, TypeOK, AtLeastOne
  <2> QED
    BY <1>3, <2>1, LocalStep DEF ReadLimit, Phases, IInv, TypeOK, PhaseOK, BoundOK
<1>4. ASSUME NEW t \in Tasks, ReadFails(t) PROVE IInv'
  BY <1>4, LocalStep DEF ReadFails, Phases, IInv, TypeOK, BoundOK
<1>5. ASSUME NEW t \in Tasks, Step(t) PROVE IInv'
  <2>1. CASE Finish(t)
    BY <2>1, LocalStep DEF Finish, Phases, IInv, TypeOK, BoundOK
  <2>2. CASE Leave(t)
    BY <2>2, LocalStep DEF Leave, Phases, IInv, TypeOK, BoundOK
  <2> QED
    BY <1>3, <1>5, <2>1, <2>2, TakeStep, EnqueueStep, ReleaseStep DEF Step
<1>6. CASE AllDone \/ UNCHANGED vars
  <2>1. UNCHANGED vars
    BY <1>6 DEF AllDone
  <2>2. TypeOK' /\ PhaseOK' /\ QueueOK' /\ BoundOK'
    BY <2>1 DEF IInv, TypeOK, PhaseOK, QueueOK, BoundOK, Wanted, vars
  <2>3. SlotsAccounted'
    BY <2>1, SameHeldAccounts DEF vars
  <2> QED
    BY <2>2, <2>3 DEF IInv
<1> QED
  BY <1>1, <1>2, <1>4, <1>5, <1>6 DEF Next

(* The inductive invariant holds in every reachable state, for any number  *)
(* of transfers, engines and limits.                                       *)
THEOREM InductiveInvariant == Spec => []IInv
  BY InitIInv, StepIInv, PTL DEF Spec

(* The variables keep their types. *)
THEOREM TypeCorrect == Spec => []TypeOK
<1>1. IInv => TypeOK
  BY DEF IInv
<1> QED
  BY <1>1, InductiveInvariant, PTL

(* A key's counter is the number of transfers that hold one of its slots:  *)
(* EngineSlots neither leaks a slot nor gives one back twice, also when    *)
(* reading the limit fails between the first and the second slot.          *)
THEOREM Accounting == Spec => []SlotsAccounted
<1>1. IInv => SlotsAccounted
  BY DEF IInv
<1> QED
  BY <1>1, InductiveInvariant, PTL

(* No engine is the source, or the target, of more transfers at once than  *)
(* the largest limit allows, whatever limit changes the transfers race.    *)
THEOREM Bounded == Spec => []LimitRespected
<1>1. IInv => LimitRespected
  BY TopLimitIsTop, HoldersFinite DEF IInv, TypeOK, SlotsAccounted, BoundOK, LimitRespected
<1> QED
  BY <1>1, InductiveInvariant, PTL

-----------------------------------------------------------------------------
(* The mapping of TransferSlots to TransferLimits. *)
Copying == {t \in Tasks : pc[t] = "hold"}
KeysUsed == [t \in Tasks |-> {KeyList(t)[i] : i \in DOMAIN KeyList(t)}]

(* A copy that runs holds a slot of each of its keys. *)
LEMMA CopyingHolds ==
    ASSUME IInv, NEW t \in Copying
    PROVE  KeysUsed[t] = Acquired(t)
<1>1. t \in Tasks /\ held[t] = Len(KeyList(t))
  BY DEF IInv, PhaseOK, Copying
<1>2. DOMAIN KeyList(t) = 1..held[t]
  BY <1>1, KeyListShape
<1> QED
  BY <1>1, <1>2 DEF KeysUsed, Acquired

(* The last slot of a transfer is taken only when each of its keys has     *)
(* room for one more copy.                                                 *)
LEMMA GrantHasRoom ==
    ASSUME IInv, NEW t \in Tasks, Take(t), held[t] + 1 = Len(KeyList(t)),
           NEW k \in KeysUsed[t]
    PROVE  Cardinality({u \in Copying : k \in KeysUsed[u]}) < TopLimit
<1> DEFINE Users == {u \in Copying : k \in KeysUsed[u]}
           w == Wanted(t)
<1>1. /\ held[t] \in Nat /\ w \in Keys
      /\ DOMAIN KeyList(t) = 1..(held[t] + 1)
      /\ pc[t] = "lock" /\ active[w] < seen[t] /\ seen[t] <= TopLimit
  BY WantedKey, KeyListShape DEF Take, IInv, BoundOK
<1>2. k \in Keys /\ (k = w \/ k \in Acquired(t))
  <2>1. PICK i \in 1..(held[t] + 1) : k = KeyList(t)[i]
    BY <1>1 DEF KeysUsed
  <2>2. i = held[t] + 1 \/ i \in 1..held[t]
    BY <1>1
  <2>3. k \in Keys
    BY <1>1, <2>1, KeyListShape
  <2> QED
    BY <2>1, <2>2, <2>3 DEF Wanted, Acquired
<1>3. Users \subseteq Holders(k) /\ t \notin Users
  BY <1>1, CopyingHolds DEF Holders, Copying
<1>4. /\ IsFiniteSet(Holders(k)) /\ Cardinality(Holders(k)) \in Nat
      /\ active[k] = Cardinality(Holders(k)) /\ active[k] <= TopLimit
  BY <1>2, HoldersFinite DEF IInv, SlotsAccounted, BoundOK
<1>5. /\ Cardinality(Users) \in Nat /\ Cardinality(Users) <= Cardinality(Holders(k))
      /\ Cardinality(Users) = Cardinality(Holders(k)) => Users = Holders(k)
  BY <1>3, <1>4, FS_Subset, FS_CardinalityType
<1>6. CASE k = w
  BY <1>1, <1>4, <1>5, <1>6, TopLimitIsTop DEF IInv, TypeOK
<1>7. CASE k \in Acquired(t)
  <2>1. t \in Holders(k)
    BY <1>7 DEF Holders
  <2> QED
    BY <1>3, <1>4, <1>5, <2>1, TopLimitIsTop
<1> QED
  BY <1>2, <1>6, <1>7

(* Every step grants, releases or stutters in TransferLimits.              *)
LEMMA StepAbstract ==
    ASSUME IInv, [Next]_vars
    PROVE  \/ \E t \in Tasks :
                /\ t \notin Copying /\ Copying' = Copying \cup {t}
                /\ \A k \in KeysUsed[t] :
                      Cardinality({u \in Copying : k \in KeysUsed[u]}) < TopLimit
           \/ \E t \in Tasks : t \in Copying /\ Copying' = Copying \ {t}
           \/ Copying' = Copying
<1>1. ASSUME NEW t \in Tasks, Take(t), held[t] + 1 = Len(KeyList(t))
      PROVE  t \notin Copying /\ Copying' = Copying \cup {t}
  BY <1>1 DEF IInv, TypeOK, Take, Copying
<1>2. ASSUME NEW t \in Tasks, Take(t), held[t] + 1 # Len(KeyList(t))
      PROVE  Copying' = Copying
  BY <1>2 DEF IInv, TypeOK, Take, Copying
<1>3. ASSUME NEW t \in Tasks, Finish(t)
      PROVE  t \in Copying /\ Copying' = Copying \ {t}
  BY <1>3 DEF IInv, TypeOK, Finish, Copying
<1>4. ASSUME NEW t \in Tasks, Start(t) \/ ReadLimit(t) \/ ReadFails(t)
                                \/ Enqueue(t) \/ Leave(t)
      PROVE  Copying' = Copying
  BY <1>4 DEF IInv, TypeOK, Start, ReadLimit, ReadFails, Enqueue, Leave, Copying
<1>5. ASSUME NEW t \in Tasks, Release(t)
      PROVE  Copying' = Copying
  <2> DEFINE w == KeyList(t)[held[t]]
  <2>1. w \in Keys /\ pc' = WakeFirst(w, pc)
    <3>1. held[t] \in 1..Len(KeyList(t)) /\ pc' = WakeFirst(w, pc)
      BY <1>5, KeyListShape DEF IInv, TypeOK, PhaseOK, Release
    <3> QED
      BY <3>1, KeyListShape
  <2>2. CASE waiters[w] = <<>>
    BY <2>1, <2>2 DEF WakeFirst, Copying
  <2>3. CASE waiters[w] # <<>>
    <3>1. 1 \in DOMAIN waiters[w] /\ Head(waiters[w]) = waiters[w][1]
          /\ Head(waiters[w]) \in Tasks
      BY <2>1, <2>3 DEF IInv, TypeOK
    <3>2. pc[Head(waiters[w])] = "wait"
      BY <2>1, <3>1 DEF IInv, QueueOK
    <3>3. pc' = [pc EXCEPT ![Head(waiters[w])] = "read"]
      BY <2>1, <2>3 DEF WakeFirst
    <3> QED
      BY <3>1, <3>2, <3>3 DEF IInv, TypeOK, Copying
  <2> QED
    BY <2>2, <2>3
<1>6. CASE AllDone \/ UNCHANGED vars \/ \E l \in Limits : SetLimit(l)
  BY <1>6 DEF AllDone, SetLimit, vars, Copying
<1>7. CASE \E t \in Tasks : Take(t)
  BY <1>1, <1>2, <1>7, GrantHasRoom
<1> QED
  BY <1>3, <1>4, <1>5, <1>6, <1>7 DEF Next, Step

(* The instance reads Cardinality as this module does. *)
LEMMA SameCardinality ==
    ASSUME NEW S
    PROVE  Abstract!Cardinality(S) = Cardinality(S)
  BY DEF Abstract!Cardinality, Cardinality

(* The queue implements its promise: a transfer copies only between a      *)
(* grant that finds room on each of its engines and a release.             *)
THEOREM Refinement == Spec => ImplementsLimits
<1>1. Init => Abstract!Init
  BY DEF Init, Abstract!Init
<1>2. IInv /\ [Next]_vars => [Abstract!Next]_Copying
  BY StepAbstract, SameCardinality
  DEF Abstract!Next, Abstract!Grant, Abstract!Release, Abstract!Users,
      Copying, KeysUsed
<1> QED
  BY <1>1, <1>2, InductiveInvariant, PTL
  DEF Spec, ImplementsLimits, Abstract!Spec, Copying

-----------------------------------------------------------------------------
(* Work waits only behind used slots.  NoIdleSlot says nothing while some  *)
(* task is on its way to the key, so it is not inductive; what is, counts  *)
(* the tasks on their way: whoever gives back a slot with a queue behind   *)
(* it sends one task on its way.                                           *)
SeenOK == \A t \in Tasks : pc[t] = "lock" => \E l \in Limits : seen[t] = AtLeastOne(l)

Busy ==
    \A k \in Keys : waiters[k] # <<>> =>
        \E l \in Limits : AtLeastOne(l) <= active[k] + Cardinality(InFlight(k))

BusyInv == IInv /\ SeenOK /\ Busy

(* The tasks on their way to a key are finitely many.                      *)
LEMMA InFlightFinite ==
    ASSUME NEW k
    PROVE  IsFiniteSet(InFlight(k)) /\ Cardinality(InFlight(k)) \in Nat
<1>1. InFlight(k) \subseteq Tasks
  BY DEF InFlight
<1> QED
  BY <1>1, ConstantsAssumption, FS_Subset, FS_CardinalityType

(* Nobody leaves the way to a key, and no slot of it is given back.        *)
LEMMA StaysBusy ==
    ASSUME IInv, Busy, NEW k \in Keys, active'[k] \in Nat, active[k] <= active'[k],
           waiters'[k] = waiters[k],
           IsFiniteSet(InFlight(k)'), InFlight(k) \subseteq InFlight(k)'
    PROVE  waiters'[k] # <<>> =>
             \E l \in Limits : AtLeastOne(l) <= active'[k] + Cardinality(InFlight(k)')
<1>1. /\ Cardinality(InFlight(k)) <= Cardinality(InFlight(k)')
      /\ Cardinality(InFlight(k)) \in Nat /\ Cardinality(InFlight(k)') \in Nat
  BY InFlightFinite, FS_Subset, FS_CardinalityType
<1>2. active[k] \in Nat /\ \A l \in Limits : AtLeastOne(l) \in Nat
  BY ConstantsAssumption DEF IInv, TypeOK, AtLeastOne
<1> QED
  BY <1>1, <1>2 DEF Busy

(* The tasks on their way are finitely many in the next state, too.        *)
LEMMA InFlightFiniteNext ==
    ASSUME NEW k
    PROVE  IsFiniteSet(InFlight(k)')
<1>1. InFlight(k)' \subseteq Tasks
  BY DEF InFlight
<1> QED
  BY <1>1, ConstantsAssumption, FS_Subset

(* A step that only changes where one task stands, and takes it off no way.*)
LEMMA LocalBusy ==
    ASSUME IInv, Busy, NEW t \in Tasks, NEW p, pc' = [pc EXCEPT ![t] = p],
           pc[t] \in {"read", "lock"} => p \in {"read", "lock"},
           UNCHANGED <<active, waiters, held>>
    PROVE  Busy'
<1>1. \A k \in Keys : InFlight(k) \subseteq InFlight(k)'
  BY DEF InFlight, Wanted, IInv, TypeOK
<1>2. \A k \in Keys : active[k] \in Nat
  BY DEF IInv, TypeOK
<1> QED
  BY <1>1, <1>2, StaysBusy, InFlightFiniteNext DEF Busy

(* A slot is taken: one task less on its way, one slot more in use.        *)
LEMMA TakeBusy ==
    ASSUME IInv, Busy, NEW t \in Tasks, Take(t)
    PROVE  Busy'
<1> DEFINE w == Wanted(t)
<1>1. w \in Keys
  BY WantedKey DEF Take
<1>2. /\ active' = [active EXCEPT ![w] = active[w] + 1] /\ waiters' = waiters
      /\ \A u \in Tasks : u # t => pc'[u] = pc[u] /\ held'[u] = held[u]
  BY DEF Take, IInv, TypeOK
<1>3. \A k \in Keys : InFlight(k) \ {t} \subseteq InFlight(k)'
  BY <1>2 DEF InFlight, Wanted
<1>4. \A k \in Keys : k # w => InFlight(k) \subseteq InFlight(k)'
  BY <1>3 DEF InFlight
<1>5. active \in [Keys -> Nat]
  BY DEF IInv, TypeOK
<1>6. SUFFICES ASSUME NEW k \in Keys, waiters'[k] # <<>>
               PROVE  \E l \in Limits : AtLeastOne(l) <= active'[k] + Cardinality(InFlight(k)')
  BY DEF Busy
<1>7. CASE k # w
  <2>1. active'[k] = active[k] /\ active[k] \in Nat
    BY <1>2, <1>5, <1>7
  <2>2. InFlight(k) \subseteq InFlight(k)' /\ IsFiniteSet(InFlight(k)')
    BY <1>4, <1>7, InFlightFiniteNext
  <2>3. active[k] <= active'[k] /\ waiters'[k] = waiters[k]
    BY <1>2, <2>1
  <2> QED
    BY <1>6, <2>1, <2>2, <2>3, StaysBusy
<1>8. CASE k = w
  <2>1. active'[k] = active[k] + 1 /\ active[k] \in Nat
    BY <1>2, <1>5, <1>8
  <2>2. t \in InFlight(k)
    BY <1>8 DEF InFlight, Take
  <2>3. Cardinality(InFlight(k) \ {t}) = Cardinality(InFlight(k)) - 1
    BY <2>2, InFlightFinite, FS_RemoveElement
  <2>4. Cardinality(InFlight(k) \ {t}) <= Cardinality(InFlight(k)')
    BY <1>3, InFlightFiniteNext, FS_Subset
  <2>5. Cardinality(InFlight(k)) \in Nat /\ Cardinality(InFlight(k)') \in Nat
    BY InFlightFinite, InFlightFiniteNext, FS_CardinalityType
  <2>6. PICK l \in Limits : AtLeastOne(l) <= active[k] + Cardinality(InFlight(k))
    BY <1>2, <1>6 DEF Busy
  <2>7. AtLeastOne(l) \in Nat
    BY ConstantsAssumption DEF AtLeastOne
  <2> QED
    BY <2>1, <2>3, <2>4, <2>5, <2>6, <2>7
<1> QED
  BY <1>7, <1>8

(* A task queues only when the limit it read is used up.                   *)
LEMMA EnqueueBusy ==
    ASSUME IInv, SeenOK, Busy, NEW t \in Tasks, Enqueue(t)
    PROVE  Busy'
<1> DEFINE w == Wanted(t)
<1>1. w \in Keys
  BY WantedKey DEF Enqueue
<1>2. /\ UNCHANGED <<active, held>>
      /\ \A k \in Keys : k # w => waiters'[k] = waiters[k]
      /\ \A u \in Tasks : u # t => pc'[u] = pc[u]
  BY DEF Enqueue, IInv, TypeOK
<1>3. SUFFICES ASSUME NEW k \in Keys, waiters'[k] # <<>>
               PROVE  \E l \in Limits : AtLeastOne(l) <= active'[k] + Cardinality(InFlight(k)')
  BY DEF Busy
<1>4. active[k] \in Nat
  BY DEF IInv, TypeOK
<1>5. CASE k # w
  <2>1. InFlight(k) \subseteq InFlight(k)'
    BY <1>2, <1>5 DEF InFlight, Wanted
  <2> QED
    BY <1>2, <1>3, <1>4, <1>5, <2>1, StaysBusy, InFlightFiniteNext
<1>6. CASE k = w
  <2>1. PICK l \in Limits : seen[t] = AtLeastOne(l)
    BY DEF SeenOK, Enqueue
  <2>2. AtLeastOne(l) <= active[k] /\ AtLeastOne(l) \in Nat
    BY <1>6, <2>1, ConstantsAssumption DEF Enqueue, AtLeastOne, IInv, TypeOK
  <2>3. Cardinality(InFlight(k)') \in Nat
    BY InFlightFiniteNext, FS_CardinalityType
  <2> QED
    BY <1>2, <1>4, <2>2, <2>3
<1> QED
  BY <1>5, <1>6

(* A slot is given back: one slot less in use, one task more on its way.   *)
LEMMA ReleaseBusy ==
    ASSUME IInv, Busy, NEW t \in Tasks, Release(t)
    PROVE  Busy'
<1> DEFINE w == KeyList(t)[held[t]]
<1>1. held[t] \in 1..2 /\ held[t] <= Len(KeyList(t)) /\ w \in Keys
  BY KeyListShape DEF IInv, TypeOK, PhaseOK, Release
<1>2. /\ active' = [active EXCEPT ![w] = OneLess(w)]
      /\ waiters' = [waiters EXCEPT ![w] =
                        IF waiters[w] = <<>> THEN waiters[w] ELSE Tail(waiters[w])]
      /\ pc' = WakeFirst(w, pc)
      /\ pc[t] = "free"
      /\ \A u \in Tasks : u # t => held'[u] = held[u]
  BY DEF Release, IInv, TypeOK
<1>3. waiters[w] # <<>> => Head(waiters[w]) \in Tasks
  BY <1>1 DEF IInv, TypeOK
<1>4. \A u \in Tasks : pc[u] \in {"read", "lock"} => pc'[u] \in {"read", "lock"}
  BY <1>2, <1>3 DEF WakeFirst, IInv, TypeOK
<1>5. \A k \in Keys : InFlight(k) \subseteq InFlight(k)'
  BY <1>2, <1>4 DEF InFlight, Wanted
<1>6. SUFFICES ASSUME NEW k \in Keys, waiters'[k] # <<>>
               PROVE  \E l \in Limits : AtLeastOne(l) <= active'[k] + Cardinality(InFlight(k)')
  BY DEF Busy
<1>7. active \in [Keys -> Nat]
  BY DEF IInv, TypeOK
<1>8. CASE k # w
  <2>1. active'[k] = active[k] /\ waiters'[k] = waiters[k] /\ active[k] \in Nat
    BY <1>1, <1>2, <1>7, <1>8 DEF IInv, TypeOK
  <2>2. active[k] <= active'[k]
    BY <2>1
  <2> QED
    BY <1>5, <1>6, <2>1, <2>2, StaysBusy, InFlightFiniteNext
<1>9. CASE k = w
  <2> DEFINE h == Head(waiters[w])
  <2>1. waiters[w] # <<>>
    BY <1>1, <1>2, <1>6, <1>9 DEF IInv, TypeOK
  <2>2. h \in Tasks /\ pc[h] = "wait" /\ Wanted(h) = w
    <3>1. h = waiters[w][1] /\ 1 \in DOMAIN waiters[w] /\ h \in Tasks
      BY <1>1, <2>1 DEF IInv, TypeOK
    <3> QED
      BY <1>1, <3>1 DEF IInv, QueueOK
  <2>3. pc'[h] = "read" /\ held'[h] = held[h]
    BY <1>2, <2>1, <2>2 DEF WakeFirst, IInv, TypeOK
  <2>4. h \in InFlight(k)' /\ h \notin InFlight(k)
    BY <1>9, <2>2, <2>3 DEF InFlight, Wanted
  <2>5. Cardinality(InFlight(k) \cup {h}) = Cardinality(InFlight(k)) + 1
    BY <2>4, InFlightFinite, FS_AddElement
  <2>6. Cardinality(InFlight(k) \cup {h}) <= Cardinality(InFlight(k)')
    <3>1. InFlight(k) \cup {h} \subseteq InFlight(k)'
      BY <1>5, <2>4
    <3> QED
      BY <3>1, InFlightFiniteNext, FS_Subset
  <2>7. Cardinality(InFlight(k)) \in Nat /\ Cardinality(InFlight(k)') \in Nat
    BY InFlightFinite, InFlightFiniteNext, FS_CardinalityType
  <2>8. active'[k] \in Nat /\ active[k] \in Nat /\ active[k] <= active'[k] + 1
    BY <1>1, <1>2, <1>7, <1>9 DEF OneLess
  <2>9. PICK l \in Limits : AtLeastOne(l) <= active[k] + Cardinality(InFlight(k))
    BY <1>9, <2>1 DEF Busy
  <2>10. AtLeastOne(l) \in Nat
    BY ConstantsAssumption DEF AtLeastOne
  <2> QED
    BY <2>5, <2>6, <2>7, <2>8, <2>9, <2>10
<1> QED
  BY <1>8, <1>9

(* The counting invariant under every step.                                *)
LEMMA StepBusy ==
    ASSUME BusyInv, ~ReadsMayFail, [Next]_vars
    PROVE  BusyInv'
<1> USE DEF BusyInv
<1>1. IInv'
  BY StepIInv
<1>2. SeenOK'
  <2>1. ASSUME NEW t \in Tasks, ReadLimit(t) PROVE SeenOK'
    BY <2>1 DEF ReadLimit, SeenOK, IInv, TypeOK
  <2>2. ASSUME NEW t \in Tasks, Start(t) \/ Take(t) \/ Enqueue(t) \/ Finish(t) \/ Leave(t)
        PROVE  SeenOK'
    BY <2>2 DEF Start, Take, Enqueue, Finish, Leave, SeenOK, IInv, TypeOK
  <2>3. ASSUME NEW t \in Tasks, Release(t) PROVE SeenOK'
    <3>1. \A u \in Tasks : pc'[u] = "lock" => pc[u] = "lock"
      BY <2>3 DEF Release, WakeFirst, IInv, TypeOK
    <3> QED
      BY <2>3, <3>1 DEF Release, SeenOK
  <2>4. CASE (\E l \in Limits : SetLimit(l)) \/ AllDone \/ UNCHANGED vars
    BY <2>4 DEF SetLimit, AllDone, vars, SeenOK
  <2> QED
    BY <2>1, <2>2, <2>3, <2>4 DEF Next, Step, ReadFails
<1>3. Busy'
  <2>1. ASSUME NEW t \in Tasks, Start(t) \/ ReadLimit(t) \/ Finish(t) \/ Leave(t)
        PROVE  Busy'
    <3>1. PICK p : /\ pc' = [pc EXCEPT ![t] = p]
                   /\ pc[t] \in {"read", "lock"} => p \in {"read", "lock"}
      BY <2>1 DEF Start, ReadLimit, Finish, Leave
    <3>2. UNCHANGED <<active, waiters, held>>
      BY <2>1 DEF Start, ReadLimit, Finish, Leave
    <3> QED
      BY <3>1, <3>2, LocalBusy
  <2>2. CASE (\E l \in Limits : SetLimit(l)) \/ AllDone \/ UNCHANGED vars
    <3>1. UNCHANGED <<active, waiters, held, pc>>
      BY <2>2 DEF SetLimit, AllDone, vars
    <3> QED
      BY <3>1 DEF Busy, InFlight, Wanted
  <2> QED
    BY <2>1, <2>2, TakeBusy, EnqueueBusy, ReleaseBusy DEF Next, Step, ReadFails
<1> QED
  BY <1>1, <1>2, <1>3

(* While the setting stands and can be read, a transfer waits only behind  *)
(* used slots: every slot given back is taken up by the queue, or somebody *)
(* is on the way to it.  (After a raise, or a read that fails, the queue   *)
(* may stand before free slots.)                                           *)
THEOREM SlotsAreUsed ==
    ASSUME ~ReadsMayFail, \A l, m \in Limits : l = m
    PROVE  Spec => []NoIdleSlot
<1>1. Init => BusyInv
  BY InitIInv DEF Init, BusyInv, SeenOK, Busy
<1>2. BusyInv => NoIdleSlot
  <2>1. SUFFICES ASSUME BusyInv, NEW k \in Keys, waiters[k] # <<>>, InFlight(k) = {}
                 PROVE  active[k] >= AtLeastOne(limit)
    BY DEF NoIdleSlot
  <2>2. PICK l \in Limits : AtLeastOne(l) <= active[k] + Cardinality(InFlight(k))
    BY <2>1 DEF BusyInv, Busy
  <2>3. l = limit /\ Cardinality(InFlight(k)) = 0 /\ active[k] \in Nat /\ l \in Nat
    BY <2>1, FS_EmptySet, ConstantsAssumption DEF BusyInv, IInv, TypeOK
  <2> QED
    BY <2>2, <2>3 DEF AtLeastOne
<1>3. BusyInv /\ [Next]_vars => BusyInv'
  BY StepBusy
<1> QED
  BY <1>1, <1>2, <1>3, PTL DEF Spec
=============================================================================
