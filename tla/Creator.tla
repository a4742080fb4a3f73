------------------------------ MODULE Creator ------------------------------
(***************************************************************************)
(* CreatorService of one engine (creator.py) on top of its upload hold:    *)
(* tasks that build a .torrent, each run by a supervisor thread of a       *)
(* bounded pool and hashed in a child process, with requests that cancel   *)
(* or delete a task and a reaper that forgets old ones at any moment.      *)
(*                                                                         *)
(* A step is one section under the service's lock, one call of the hold,   *)
(* or one message between the supervisor and its child.                    *)
(***************************************************************************)
EXTENDS UploadHold, Sequences

CONSTANTS Jobs,     \* the tasks that will be created
          Workers   \* SEEDING_CREATOR_WORKERS

ASSUME CreatorAssumption == IsFiniteSet(Jobs) /\ Workers \in Nat \ {0}

VARIABLES
    pool,       \* the executor's queue
    task,       \* [Jobs -> ...] the record and its supervisor
    child,      \* [Jobs -> ...] the process and the last thing it sent
    told,       \* the children whose cancel event is set
    cancelled   \* CreatorService._cancelled

creatorOwn == <<pool, task, child, told, cancelled>>
creatorVars == <<holdVars, creatorOwn>>

Active == {"queued", "processing"}
Begun == {"begin", "held", "hash", "check", "commit", "off", "last"}
Busy(k) == task[k].at \in Begun
CreatorHolds == {k \in Jobs : task[k].held}

CreatorInit ==
    /\ HoldInit
    /\ pool = <<>>
    /\ task = [k \in Jobs |-> [at |-> "new", status |-> "none", listed |-> FALSE, held |-> FALSE]]
    /\ child = [k \in Jobs |-> "none"]
    /\ told = {} /\ cancelled = {}

(* _update: nothing happens to a task that was forgotten.                  *)
Updated(k, status) == IF task[k].listed THEN status ELSE task[k].status

Go(k, at, status) ==
    task' = [task EXCEPT ![k].at = at, ![k].status = Updated(k, status)]

-----------------------------------------------------------------------------
(* Requests, and the reaper.                                               *)
Create(k) ==
    /\ task[k].at = "new"
    /\ task' = [task EXCEPT ![k] = [at |-> "pool", status |-> "queued",
                                    listed |-> TRUE, held |-> FALSE]]
    /\ pool' = Append(pool, k)
    /\ UNCHANGED <<holdVars, child, told, cancelled>>

Cancel(k) ==
    /\ task[k].listed /\ task[k].status \in Active
    /\ task' = [task EXCEPT ![k].status = "cancelled"]
    /\ cancelled' = cancelled \union {k}
    /\ UNCHANGED <<holdVars, pool, child, told>>

Delete(k) ==
    /\ task[k].listed
    /\ task' = [task EXCEPT ![k].listed = FALSE]
    /\ cancelled' = IF task[k].status \in Active THEN cancelled \union {k} ELSE cancelled
    /\ UNCHANGED <<holdVars, pool, child, told>>

(* _prune_locked forgets the mark together with the task.                  *)
Prune(k) ==
    /\ task[k].listed
    /\ task' = [task EXCEPT ![k].listed = FALSE]
    /\ cancelled' = cancelled \ {k}
    /\ UNCHANGED <<holdVars, pool, child, told>>

-----------------------------------------------------------------------------
(* The supervisor thread: _run and _build_torrent.                         *)
TakeWorker(k) ==
    /\ pool # <<>> /\ k = Head(pool)
    /\ Cardinality({j \in Jobs : Busy(j)}) < Workers
    /\ pool' = Tail(pool)
    /\ IF k \in cancelled THEN Go(k, "last", "cancelled") ELSE Go(k, "begin", task[k].status)
    /\ UNCHANGED <<holdVars, child, told, cancelled>>

TakeHold(k) ==
    /\ task[k].at = "begin"
    /\ BeginCreate
    /\ task' = [task EXCEPT ![k].at = "held", ![k].held = Holding]
    /\ UNCHANGED <<label, tracker, threads, pool, child, told, cancelled>>

StartHash(k) ==
    /\ task[k].at = "held"
    /\ Go(k, "hash", "processing")
    /\ child' = [child EXCEPT ![k] = "hashing"]
    /\ UNCHANGED <<holdVars, pool, told, cancelled>>

(* Mutant of Tell: the child is told once, before it hashes.               *)
TellNobody(k) == FALSE /\ UNCHANGED creatorVars

Tell(k) ==
    /\ task[k].at = "hash" /\ k \in cancelled \ told
    /\ told' = told \union {k}
    /\ UNCHANGED <<holdVars, pool, task, child, cancelled>>

(* Mutant of Hear: a child that died without a word leaves its task alone. *)
HearDeath(k) ==
    /\ task[k].at = "hash" /\ child[k] \in {"done", "cancelled", "error", "dead"}
    /\ CASE child[k] = "done"      -> Go(k, "check", task[k].status)
         [] child[k] = "dead"      -> Go(k, "off", task[k].status)
         [] child[k] = "cancelled" -> Go(k, "off", "cancelled")
         [] OTHER                  -> Go(k, "off", "failed")
    /\ UNCHANGED <<holdVars, pool, child, told, cancelled>>

Hear(k) ==
    /\ task[k].at = "hash" /\ child[k] \in {"done", "cancelled", "error", "dead"}
    /\ CASE child[k] = "done" -> Go(k, "check", task[k].status)
         [] child[k] = "cancelled" \/ (child[k] = "dead" /\ k \in cancelled)
                              -> Go(k, "off", "cancelled")
         [] OTHER             -> Go(k, "off", "failed")
    /\ UNCHANGED <<holdVars, pool, child, told, cancelled>>

CheckMark(k) ==
    /\ task[k].at = "check"
    /\ IF k \in cancelled THEN Go(k, "off", "cancelled") ELSE Go(k, "commit", task[k].status)
    /\ UNCHANGED <<holdVars, pool, child, told, cancelled>>

(* A cancel since the check above is overwritten.                          *)
Commit(k) ==
    /\ task[k].at = "commit"
    /\ Go(k, "off", "completed")
    /\ UNCHANGED <<holdVars, pool, child, told, cancelled>>

(* Mutant of Release: the hold is given back by tasks that completed.      *)
ReleaseDone(k) ==
    /\ task[k].at = "off"
    /\ IF task[k].held /\ task[k].status = "completed" THEN EndCreate ELSE UNCHANGED gate
    /\ task' = [task EXCEPT ![k].at = "last", ![k].held = FALSE]
    /\ UNCHANGED <<label, tracker, threads, pool, child, told, cancelled>>

Release(k) ==
    /\ task[k].at = "off"
    /\ IF task[k].held THEN EndCreate ELSE UNCHANGED gate
    /\ task' = [task EXCEPT ![k].at = "last", ![k].held = FALSE]
    /\ UNCHANGED <<label, tracker, threads, pool, child, told, cancelled>>

Finish(k) ==
    /\ task[k].at = "last"
    /\ task' = [task EXCEPT ![k].at = "over"]
    /\ cancelled' = cancelled \ {k}
    /\ UNCHANGED <<holdVars, pool, child, told>>

(* The child process: _hash_worker.  It may hash for hours, fail or die.   *)
ChildSays(k) ==
    /\ child[k] = "hashing"
    /\ \E said \in {"error", "dead"} \union (IF k \in told THEN {} ELSE {"done"}) :
          child' = [child EXCEPT ![k] = said]
    /\ UNCHANGED <<holdVars, pool, task, told, cancelled>>

ChildStops(k) ==
    /\ child[k] = "hashing" /\ k \in told
    /\ child' = [child EXCEPT ![k] = "cancelled"]
    /\ UNCHANGED <<holdVars, pool, task, told, cancelled>>

SupervisorStep(k) ==
    \/ TakeWorker(k) \/ TakeHold(k) \/ StartHash(k) \/ Tell(k) \/ Hear(k)
    \/ CheckMark(k) \/ Commit(k) \/ Release(k) \/ Finish(k)

JobStep(k) ==
    \/ Create(k) \/ Cancel(k) \/ Delete(k) \/ Prune(k)
    \/ SupervisorStep(k) \/ ChildSays(k) \/ ChildStops(k)

CreatorNext ==
    \/ HoldNext /\ UNCHANGED creatorOwn
    \/ \E k \in Jobs : JobStep(k)

CreatorSpec == CreatorInit /\ [][CreatorNext]_creatorVars

-----------------------------------------------------------------------------
CreatorTypeOK ==
    /\ HoldTypeOK
    /\ pool \in Seq(Jobs)
    /\ task \in [Jobs -> [at : {"new", "pool", "over"} \union Begun,
                          status : {"none", "completed", "failed", "cancelled"} \union Active,
                          listed : BOOLEAN, held : BOOLEAN]]
    /\ child \in [Jobs -> {"none", "hashing", "done", "cancelled", "error", "dead"}]
    /\ told \in SUBSET Jobs /\ cancelled \in SUBSET Jobs

(* Every reference of the cap belongs to a torrent the tracker keeps or to *)
(* a task inside _run, and each of those holds exactly one: whatever ends  *)
(* a task, and whatever order the syncs take, no cap stays behind and none *)
(* is taken off while another one hashes (begin_create, end_create).       *)
HoldAccounted == refs = Cardinality(watched) + Cardinality(CreatorHolds)

(* The cap is on exactly while somebody holds it.                          *)
CapSound == SessionFollows /\ HoldAccounted

(* A task that the list shows as queued or processing has a thread that    *)
(* will still speak for it, and a cancel mark has a thread that will clear *)
(* it: neither outlives _run, in whatever order cancel, delete, the reaper *)
(* and the end of the hashing come.                                        *)
ThreadsAnswer ==
    /\ \A k \in Jobs : task[k].listed /\ task[k].status \in Active => task[k].at # "over"
    /\ \A k \in cancelled : task[k].at \notin {"new", "over"}

(* The cap is neither forgotten nor left out: once nothing is checked,     *)
(* asked for or hashed, it comes off, and a torrent that is read from the  *)
(* disk gets it, unless that changes first, however the observers          *)
(* overwrite each other's sets (observe, sync by the pollers).             *)
NothingHashed ==
    /\ \A t \in Hashed : label[t] = "idle" /\ pending[t] # "fresh"
    /\ CreatorHolds = {}
CapFollowsHashing ==
    /\ NothingHashed ~> (refs = 0 \/ ~NothingHashed)
    /\ Holding => \A t \in Hashed : label[t] = "hashing" ~> (refs > 0 \/ label[t] # "hashing")

(* A cancel or a delete reaches a task that is being hashed, even when the *)
(* hashing itself would never end, unless the reaper forgets the task.     *)
CancelHeard ==
    \A k \in Jobs : (k \in cancelled /\ task[k].at \in Begun)
                       ~> (task[k].at = "over" \/ k \notin cancelled)
=============================================================================
