---------------------------- MODULE TransferSlots ----------------------------
(***************************************************************************)
(* The transfer slots of the API process: class EngineSlots and the        *)
(* context manager transfer_slots of api/seeding_api/work_queue.py.        *)
(*                                                                         *)
(* A transfer takes one slot for its target engine and one for its source  *)
(* engine, in the order of the sorted key names ("dst:..." sorts before    *)
(* "src:..."), and gives them back in the reverse order.  The limit is     *)
(* read from the database outside the lock, so an interleaving between     *)
(* the read and the locked section is a step of its own; the locked        *)
(* sections contain no await and are single steps.                         *)
(***************************************************************************)
EXTENDS Naturals, Sequences, FiniteSets

CONSTANTS Tasks,          \* coroutines that call transfer_slots
          Engines,
          Source, Target, \* [Tasks -> Engines]
          Limits,         \* values the setting migrate_per_engine may take
          ReadsMayFail    \* may limit_of() raise (the database is away)?

ASSUME ConstantsAssumption ==
    /\ IsFiniteSet(Tasks)
    /\ Source \in [Tasks -> Engines]
    /\ Target \in [Tasks -> Engines]
    /\ Limits \subseteq Nat
    /\ \E top \in Limits : \A l \in Limits : l <= top
    /\ ReadsMayFail \in BOOLEAN

Keys == {"dst", "src"} \X Engines

(* The keys of a transfer in the order it takes them: keys.sort(). A       *)
(* transfer within one engine has the source key only.                     *)
KeyList(t) ==
    IF Target[t] = Source[t] THEN <<<<"src", Source[t]>>>>
    ELSE <<<<"dst", Target[t]>>, <<"src", Source[t]>>>>

Phases == {"idle", "read", "lock", "wait", "hold", "free", "done"}

VARIABLES
    limit,    \* the stored setting
    active,   \* EngineSlots._active, 0 for an absent key
    waiters,  \* EngineSlots._waiters: futures, named by the task that awaits
    pc,       \* where each task is
    held,     \* len(acquired) of each task
    seen      \* the limit the task read last

vars == <<limit, active, waiters, pc, held, seen>>

(* max(1, int(await limit_of())) *)
AtLeastOne(l) == IF l < 1 THEN 1 ELSE l

Wanted(t) == KeyList(t)[held[t] + 1]
Acquired(t) == {KeyList(t)[i] : i \in 1..held[t]}

Init ==
    /\ limit \in Limits
    /\ active = [k \in Keys |-> 0]
    /\ waiters = [k \in Keys |-> <<>>]
    /\ pc = [t \in Tasks |-> "idle"]
    /\ held = [t \in Tasks |-> 0]
    /\ seen = [t \in Tasks |-> 0]

(* The administrator stores another limit. *)
SetLimit(l) ==
    /\ l # limit
    /\ limit' = l
    /\ UNCHANGED <<active, waiters, pc, held, seen>>

(* A launched transfer enters transfer_slots. *)
Start(t) ==
    /\ pc[t] = "idle"
    /\ pc' = [pc EXCEPT ![t] = "read"]
    /\ UNCHANGED <<limit, active, waiters, held, seen>>

(* limit = max(1, int(await limit_of())), before the lock. *)
ReadLimit(t) ==
    /\ pc[t] = "read"
    /\ seen' = [seen EXCEPT ![t] = AtLeastOne(limit)]
    /\ pc' = [pc EXCEPT ![t] = "lock"]
    /\ UNCHANGED <<limit, active, waiters, held>>

(* limit_of() raises: acquire() propagates it and the finally block of     *)
(* transfer_slots gives back what was acquired.                            *)
ReadFails(t) ==
    /\ ReadsMayFail
    /\ pc[t] = "read"
    /\ pc' = [pc EXCEPT ![t] = "free"]
    /\ UNCHANGED <<limit, active, waiters, held, seen>>

(* Mutant of Take: one slot more than the limit. *)
TakeOneMore(t) ==
    /\ pc[t] = "lock"
    /\ active[Wanted(t)] <= seen[t]
    /\ active' = [active EXCEPT ![Wanted(t)] = @ + 1]
    /\ held' = [held EXCEPT ![t] = @ + 1]
    /\ pc' = [pc EXCEPT ![t] =
                 IF held[t] + 1 = Len(KeyList(t)) THEN "hold" ELSE "read"]
    /\ UNCHANGED <<limit, waiters, seen>>

(* The locked section of acquire, a slot being free. *)
Take(t) ==
    /\ pc[t] = "lock"
    /\ active[Wanted(t)] < seen[t]
    /\ active' = [active EXCEPT ![Wanted(t)] = @ + 1]
    /\ held' = [held EXCEPT ![t] = @ + 1]
    /\ pc' = [pc EXCEPT ![t] =
                 IF held[t] + 1 = Len(KeyList(t)) THEN "hold" ELSE "read"]
    /\ UNCHANGED <<limit, waiters, seen>>

(* The locked section of acquire, no slot being free, and await fut. *)
Enqueue(t) ==
    /\ pc[t] = "lock"
    /\ active[Wanted(t)] >= seen[t]
    /\ waiters' = [waiters EXCEPT ![Wanted(t)] = Append(@, t)]
    /\ pc' = [pc EXCEPT ![t] = "wait"]
    /\ UNCHANGED <<limit, active, held, seen>>

(* The copy is over, with whatever result: the with block is left. *)
Finish(t) ==
    /\ pc[t] = "hold"
    /\ pc' = [pc EXCEPT ![t] = "free"]
    /\ UNCHANGED <<limit, active, waiters, held, seen>>

(* Mutants of OneLess: the key is forgotten while others hold its slots; a *)
(* slot is given back twice.                                               *)
ForgetKey(k) == 0
TwoLess(k) == active[k] - 2

(* The slots left for a key once one is given back. *)
OneLess(k) == IF active[k] > 0 THEN active[k] - 1 ELSE 0

(* Mutant of WakeFirst: the future is dropped, not resolved. *)
WakeNobody(k, phases) == phases

(* Whoever waits longest for key k is woken; it starts its loop again. *)
WakeFirst(k, phases) ==
    IF waiters[k] = <<>> THEN phases
    ELSE [phases EXCEPT ![Head(waiters[k])] = "read"]

(* release(key) for the key taken last. *)
Release(t) ==
    /\ pc[t] = "free"
    /\ held[t] > 0
    /\ LET k == KeyList(t)[held[t]]
       IN /\ active' = [active EXCEPT ![k] = OneLess(k)]
          /\ waiters' = [waiters EXCEPT ![k] = IF @ = <<>> THEN @ ELSE Tail(@)]
          /\ pc' = WakeFirst(k, pc)
    /\ held' = [held EXCEPT ![t] = @ - 1]
    /\ UNCHANGED <<limit, seen>>

(* Mutant of Leave: the first slot is never given back. *)
LeaveEarly(t) ==
    /\ pc[t] = "free"
    /\ held[t] <= 1
    /\ pc' = [pc EXCEPT ![t] = "done"]
    /\ UNCHANGED <<limit, active, waiters, held, seen>>

Leave(t) ==
    /\ pc[t] = "free"
    /\ held[t] = 0
    /\ pc' = [pc EXCEPT ![t] = "done"]
    /\ UNCHANGED <<limit, active, waiters, held, seen>>

(* Every transfer ran once: the bound of the model, not of the code. *)
AllDone == /\ \A t \in Tasks : pc[t] = "done"
           /\ UNCHANGED vars

Step(t) == \/ ReadLimit(t) \/ Take(t) \/ Enqueue(t)
           \/ Finish(t) \/ Release(t) \/ Leave(t)

Next ==
    \/ \E l \in Limits : SetLimit(l)
    \/ \E t \in Tasks : Start(t) \/ ReadFails(t) \/ Step(t)
    \/ AllDone

Spec == Init /\ [][Next]_vars

-----------------------------------------------------------------------------
TypeOK ==
    /\ limit \in Limits
    /\ active \in [Keys -> Nat]
    /\ waiters \in [Keys -> Seq(Tasks)]
    /\ pc \in [Tasks -> Phases]
    /\ held \in [Tasks -> 0..2]
    /\ seen \in [Tasks -> Nat]

Holders(k) == {t \in Tasks : k \in Acquired(t)}

(* The counter of a key is the number of transfers that hold a slot of it: *)
(* no slot leaks when a limit read fails half way, and none is given back  *)
(* twice (work_queue.py acquire/release/transfer_slots).                   *)
SlotsAccounted == \A k \in Keys : active[k] = Cardinality(Holders(k))

(* However the limit changes while transfers wait, no key is used by more  *)
(* transfers than the largest limit that was ever in force allows.         *)
LimitRespected ==
    \A k \in Keys : \E l \in Limits : Cardinality(Holders(k)) <= AtLeastOne(l)

(* Tasks on their way to the counter of k: woken or newly arrived. *)
InFlight(k) == {t \in Tasks : pc[t] \in {"read", "lock"} /\ Wanted(t) = k}

(* Work waits only behind full slots: when nobody is on the way to key k   *)
(* and all its holders took their slot under the limit now stored, a queue *)
(* on k means that the limit is used up.                                   *)
NoIdleSlot ==
    \A k \in Keys :
        (/\ waiters[k] # <<>>
         /\ InFlight(k) = {}
         /\ \A t \in Holders(k) : seen[t] = AtLeastOne(limit))
        => active[k] >= AtLeastOne(limit)

(* A changed limit acts on the queue as soon as slots are handed out again *)
(* (work_queue.py:3-4): a task that takes a slot under the stored limit,   *)
(* nobody else being on the way to that key, leaves waiters behind only if *)
(* the limit is used up.                                                   *)
RaisedLimitReachesQueue ==
    [][\A t \in Tasks :
          (/\ pc[t] = "lock" /\ held'[t] = held[t] + 1
           /\ seen[t] = AtLeastOne(limit)
           /\ InFlight(Wanted(t)) = {t})
          => \/ waiters'[Wanted(t)] = <<>>
             \/ active'[Wanted(t)] >= AtLeastOne(limit)]_vars

-----------------------------------------------------------------------------
(* The queue implements the promise. *)
TopLimit == CHOOSE top \in {AtLeastOne(l) : l \in Limits} :
                \A l \in Limits : AtLeastOne(l) <= top

Abstract == INSTANCE TransferLimits WITH
    running <- {t \in Tasks : pc[t] = "hold"},
    KeysOf  <- [t \in Tasks |-> {KeyList(t)[i] : i \in DOMAIN KeyList(t)}],
    Limit   <- TopLimit

(* At any moment the copies that run use no engine as a source, or as a    *)
(* target, more often than the limit allows.                               *)
ImplementsLimits == Abstract!Spec
=============================================================================
