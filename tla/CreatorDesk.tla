---------------------------- MODULE CreatorDesk ----------------------------
(***************************************************************************)
(* The creation queue as the orchestrator sees it (routers/creator.py):    *)
(* the tasks live in the memory of the engine, which numbers them and      *)
(* forgets them after a while (creator.py, module Creator has their work). *)
(* Users delete and seed tasks by number; every task that goes is          *)
(* announced to Kafka, by the orchestrator after a DELETE, and for tasks   *)
(* that grew too old by a batch the engine sends from a thread of its own. *)
(***************************************************************************)
EXTENDS Naturals, FiniteSets

CONSTANTS Deleters, Seeders,
          MaxTasks,     \* bound on the tasks created
          MaxDeskFaults \* bound on lost calls, crashes and restarts

ASSUME DeskAssumption == MaxTasks \in Nat \ {0} /\ MaxDeskFaults \in Nat

VARIABLES
    shelf,      \* CreatorService._tasks: records [id, no, done, old]
    counter,    \* CreatorService._counter
    batches,    \* old tasks on their way: [todo, at]
    deleter,    \* DELETE requests
    seeder,     \* seed requests
    seeded,     \* history: rows made by seed_task
    ordered, \* history: how many tasks were created; each has a number
    announced,  \* history: how often each was announced
    lost,       \* history: those a fault kept from being announced
    deskFaults

deskVars == <<shelf, counter, batches, deleter, seeder, seeded, ordered, announced, lost, deskFaults>>

Numbers == 1..MaxTasks
NoDelete == [at |-> "idle", id |-> 0, no |-> 0]
NoSeed == [at |-> "idle", id |-> 0, meant |-> 0, path |-> 0, payload |-> 0, crossed |-> FALSE]

DeskInit ==
    /\ shelf = {} /\ counter = 0 /\ batches = {} /\ seeded = {}
    /\ deleter = [d \in Deleters |-> NoDelete] /\ seeder = [s \in Seeders |-> NoSeed]
    /\ ordered = 0 /\ announced = [n \in Numbers |-> 0] /\ lost = {} /\ deskFaults = 0

With(id) == {t \in shelf : t.id = id}
NumbersOf(ts) == {t.no : t \in ts}
FaultNow == deskFaults < MaxDeskFaults /\ deskFaults' = deskFaults + 1

-----------------------------------------------------------------------------
(* Mutant of NextId: the number of tasks on the shelf.                     *)
NextFree == Cardinality(shelf)

NextId == counter

CreateTask ==
    /\ ordered < MaxTasks
    /\ ordered' = ordered + 1 /\ counter' = counter + 1
    /\ shelf' = shelf \union {[id |-> NextId, no |-> ordered + 1, done |-> FALSE, old |-> FALSE]}
    /\ UNCHANGED <<batches, deleter, seeder, seeded, announced, lost, deskFaults>>

(* Its torrent is built; it passes the time to live.                       *)
Built(t) ==
    /\ t \in shelf /\ ~t.done
    /\ shelf' = (shelf \ {t}) \union {[t EXCEPT !.done = TRUE]}
    /\ UNCHANGED <<counter, batches, deleter, seeder, seeded, ordered, announced, lost, deskFaults>>

Ages(t) ==
    /\ t \in shelf /\ ~t.old
    /\ shelf' = (shelf \ {t}) \union {[t EXCEPT !.old = TRUE]}
    /\ UNCHANGED <<counter, batches, deleter, seeder, seeded, ordered, announced, lost, deskFaults>>

Old == {t \in shelf : t.old}

(* Mutant of Kept: a task that is still being built stays.                 *)
KeptUnbuilt == {t \in shelf : ~t.old \/ ~t.done}

(* _prune_locked and _emit_deleted, under one lock and then in a thread;   *)
(* every look at a task or at the list does it first, and the reaper.      *)
Kept == shelf \ Old

(* Mutant of Pruned: tasks that go at a look are not announced.            *)
PrunedQuietly == shelf' = Kept /\ UNCHANGED batches

Pruned ==
    /\ shelf' = Kept
    /\ batches' = IF Old = {} THEN batches
                  ELSE batches \union {[todo |-> NumbersOf(Old), at |-> "engine"]}

Reap ==
    /\ Old # {} /\ Pruned
    /\ UNCHANGED <<counter, deleter, seeder, seeded, ordered, announced, lost, deskFaults>>

-----------------------------------------------------------------------------
(* The batch is posted, once, with a timeout.                              *)
BatchArrives(b) ==
    /\ b \in batches /\ b.at = "engine"
    /\ batches' = (batches \ {b}) \union {[b EXCEPT !.at = "api"]}
    /\ UNCHANGED <<shelf, counter, deleter, seeder, seeded, ordered, announced, lost, deskFaults>>

BatchLost(b) ==
    /\ b \in batches /\ b.at = "engine" /\ FaultNow
    /\ batches' = batches \ {b} /\ lost' = lost \union b.todo
    /\ UNCHANGED <<shelf, counter, deleter, seeder, seeded, ordered, announced>>

(* publish_creator_deleted: Kafka takes the message, or the flush gives up *)
(* on it, whether it comes there or not.                                   *)
ToKafka(n) ==
    \/ announced' = [announced EXCEPT ![n] = @ + 1] /\ UNCHANGED <<lost, deskFaults>>
    \/ FaultNow /\ lost' = lost \union {n}
         /\ \/ UNCHANGED announced
            \/ announced' = [announced EXCEPT ![n] = @ + 1]

BatchPublish(b, n) ==
    /\ b \in batches /\ b.at = "api" /\ n \in b.todo
    /\ ToKafka(n)
    /\ batches' = (batches \ {b}) \union
         (IF b.todo = {n} THEN {} ELSE {[b EXCEPT !.todo = @ \ {n}]})
    /\ UNCHANGED <<shelf, counter, deleter, seeder, seeded, ordered>>

-----------------------------------------------------------------------------
(* DELETE: the engine first, whose answer may be lost, then Kafka.         *)
DeleteCall(d, t) ==
    /\ t \in shelf /\ deleter[d].at = "idle"
    /\ deleter' = [deleter EXCEPT ![d] = [NoDelete EXCEPT !.at = "asked", !.id = t.id]]
    /\ UNCHANGED <<shelf, counter, batches, seeder, seeded, ordered, announced, lost, deskFaults>>

DeleteTask(d) ==
    /\ deleter[d].at = "asked"
    /\ LET found == With(deleter[d].id)
       IN  /\ shelf' = shelf \ found
           /\ \/ /\ deleter' = [deleter EXCEPT ![d] =
                      IF found = {} THEN NoDelete
                      ELSE [@ EXCEPT !.at = "publish", !.no = CHOOSE n \in NumbersOf(found) : TRUE]]
                 /\ UNCHANGED <<lost, deskFaults>>
              \/ /\ FaultNow /\ lost' = lost \union NumbersOf(found)
                 /\ deleter' = [deleter EXCEPT ![d] = NoDelete]
    /\ UNCHANGED <<counter, batches, seeder, seeded, ordered, announced>>

DeletePublish(d) ==
    /\ deleter[d].at = "publish" /\ ToKafka(deleter[d].no)
    /\ deleter' = [deleter EXCEPT ![d] = NoDelete]
    /\ UNCHANGED <<shelf, counter, batches, seeder, seeded, ordered>>

-----------------------------------------------------------------------------
(* seed_task: the task's save path, then its torrent, then the row with    *)
(* the engine's registration.                                              *)
SeedCall(s, t) ==
    /\ t \in shelf /\ t.done /\ seeder[s].at = "idle"
    /\ seeder' = [seeder EXCEPT ![s] = [NoSeed EXCEPT !.at = "task", !.id = t.id, !.meant = t.no]]
    /\ UNCHANGED <<shelf, counter, batches, deleter, seeded, ordered, announced, lost, deskFaults>>

Ready(s) == {t \in Kept : t.id = seeder[s].id /\ t.done}
TheOne(s) == CHOOSE n \in NumbersOf(Ready(s)) : TRUE

SeedGet(s) ==
    /\ seeder[s].at \in {"task", "bytes"} /\ Pruned
    /\ seeder' = [seeder EXCEPT ![s] =
         CASE Ready(s) = {} -> NoSeed
           [] Ready(s) # {} /\ @.at = "task" -> [@ EXCEPT !.at = "bytes", !.path = TheOne(s)]
           [] OTHER -> [@ EXCEPT !.at = "add", !.payload = TheOne(s)]]
    /\ UNCHANGED <<counter, deleter, seeded, ordered, announced, lost, deskFaults>>

SeedAdd(s) ==
    /\ seeder[s].at = "add"
    /\ \/ seeded' = seeded \union {seeder[s]} /\ UNCHANGED deskFaults
       \/ FaultNow /\ UNCHANGED seeded
    /\ seeder' = [seeder EXCEPT ![s] = NoSeed]
    /\ UNCHANGED <<shelf, counter, batches, deleter, ordered, announced, lost>>

-----------------------------------------------------------------------------
(* The engine restarts: tasks, threads and ids begin anew.                 *)
EngineGoes ==
    /\ FaultNow
    /\ shelf' = {} /\ counter' = 0 /\ batches' = {b \in batches : b.at = "api"}
    /\ lost' = lost \union NumbersOf(shelf) \union UNION {b.todo : b \in batches \ batches'}
    /\ seeder' = [s \in Seeders |-> [seeder[s] EXCEPT !.crossed = (@ \/ seeder[s].at # "idle")]]
    /\ UNCHANGED <<deleter, seeded, ordered, announced>>

(* The orchestrator restarts: its requests are gone.                       *)
DeskGoes ==
    /\ FaultNow
    /\ batches' = {b \in batches : b.at = "engine"}
    /\ lost' = lost \union (UNION {b.todo : b \in batches \ batches'})
                    \union {deleter[d].no : d \in {e \in Deleters : deleter[e].at = "publish"}}
    /\ deleter' = [d \in Deleters |-> NoDelete] /\ seeder' = [s \in Seeders |-> NoSeed]
    /\ UNCHANGED <<shelf, counter, seeded, ordered, announced>>

BatchStep(b) == BatchArrives(b) \/ \E n \in b.todo : BatchPublish(b, n)

DeskNext ==
    \/ CreateTask \/ Reap \/ EngineGoes \/ DeskGoes
    \/ \E t \in shelf : Built(t) \/ Ages(t)
    \/ \E b \in batches : BatchStep(b) \/ BatchLost(b)
    \/ \E d \in Deleters : (\E t \in shelf : DeleteCall(d, t)) \/ DeleteTask(d) \/ DeletePublish(d)
    \/ \E s \in Seeders : (\E t \in shelf : SeedCall(s, t)) \/ SeedGet(s) \/ SeedAdd(s)

DeskFairness ==
    /\ WF_deskVars(\E b \in batches : BatchStep(b))
    /\ \A d \in Deleters : WF_deskVars(DeletePublish(d))

DeskSpec == DeskInit /\ [][DeskNext]_deskVars /\ DeskFairness

DeskTypeOK ==
    /\ shelf \subseteq [id : 0..MaxTasks, no : Numbers, done : BOOLEAN, old : BOOLEAN]
    /\ counter \in 0..MaxTasks /\ ordered \in 0..MaxTasks /\ deskFaults \in 0..MaxDeskFaults
    /\ batches \subseteq [todo : SUBSET Numbers, at : {"engine", "api"}]
    /\ deleter \in [Deleters -> [at : {"idle", "asked", "publish"},
                                 id : 0..MaxTasks, no : 0..MaxTasks]]
    /\ seeder \in [Seeders -> [at : {"idle", "task", "bytes", "add"}, id : 0..MaxTasks,
         meant : 0..MaxTasks, path : 0..MaxTasks, payload : 0..MaxTasks, crossed : BOOLEAN]]
    /\ announced \in [Numbers -> Nat] /\ lost \subseteq Numbers

(* A torrent made from a task is seeded from the folder it was built from, *)
(* and is the task that was asked for, although path and torrent are       *)
(* fetched by number in two calls and tasks come and go between them:      *)
(* unless the engine restarted meanwhile, which gives numbers out again.   *)
SeedMatches == \A s \in seeded : s.crossed \/ (s.path = s.meant /\ s.payload = s.meant)

(* A task that is on the shelf was not announced as deleted, and none is   *)
(* announced twice, whoever takes it off: DELETE, the reaper or a look at  *)
(* the queue.                                                              *)
NeverTwice == \A n \in Numbers : announced[n] <= (IF n \in NumbersOf(shelf) THEN 0 ELSE 1)

(* What the requests and announcements say of a task is true of that task. *)
DeskSound == SeedMatches /\ NeverTwice

(* A task that went is announced in the end, unless a fault got in the     *)
(* way: nothing repeats a lost announcement.                               *)
AllAnnounced ==
    []<>(\A n \in 1..ordered : n \in NumbersOf(shelf) \/ announced[n] = 1 \/ n \in lost)
=============================================================================
