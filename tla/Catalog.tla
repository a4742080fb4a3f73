------------------------------ MODULE Catalog ------------------------------
(***************************************************************************)
(* Rows of torrents and their handles on an engine: the requests that make *)
(* and remove both (routers/torrents.py), and what brings the handles back *)
(* after a restart of the engine: restore.py when the orchestrator starts, *)
(* restore_engine and bulk_register_engine of the queue worker.            *)
(*                                                                         *)
(* A request has one session (deps.py): it calls the engine for one row    *)
(* after the other, flushes what it writes of them, and commits all rows   *)
(* at the end, or none.  A call may not arrive, or its answer may be lost. *)
(* A restore reads all rows, and then works on each of them for a while;   *)
(* a bulk registration writes its rows as a request does.                  *)
(***************************************************************************)
EXTENDS Naturals, FiniteSets

CONSTANTS Rows,        \* ids, each given out once
          Requests, Restorers,
          Strict,      \* the values SEEDING_REQUIRE_ENGINE_FOR_DELETE may have
          MaxRestarts, \* bound on restarts of the engine
          MaxFaults    \* bound on calls that fail or are not answered

ASSUME CatalogAssumption ==
    /\ "none" \notin Rows
    /\ Restorers \subseteq {"startup", "worker", "bulk"}
    /\ Requests \cap {"startup", "worker", "bulk", "mess"} = {}
    /\ Strict \subseteq BOOLEAN /\ Strict # {}
    /\ MaxRestarts \in Nat /\ MaxFaults \in Nat

VARIABLES
    row,       \* the rows, as committed
    handle,    \* the engine: "none", "running" or "paused"
    disk,      \* the rows whose .torrent is on the engine's volume
    whole,     \* the torrents whose content is complete
    magnets,   \* the rows that have a magnet link; others need the file on disk
    req,       \* requests at work
    job,       \* [Restorers -> [Rows -> where the restore is with a row]]
    held,      \* history: who is at work on a row
    made,      \* history: who was last to finish with a row, alone, answered and committed
    restarts, faults

catalogVars == <<row, handle, disk, whole, magnets, req, job, held, made, restarts, faults>>

Shown == {"active", "paused"}
InTable == Shown \union {"queued"}
Actors == Requests \union Restorers
NoReq == [op |-> "idle", many |-> FALSE, rows |-> {}, new |-> "none", same |-> {},
          todo |-> {}, done |-> {}, cur |-> "none", at |-> "none"]
NoJob == [at |-> "idle", saw |-> "none", st |-> "none"]

CatalogInit ==
    /\ row \in [Rows -> {"fresh", "queued", "active", "paused"}]
    /\ handle = [r \in Rows |-> CASE row[r] = "active" -> "running"
                                  [] row[r] = "paused" -> "paused"
                                  [] OTHER -> "none"]
    /\ disk = {r \in Rows : row[r] \in Shown}
    /\ whole \in SUBSET Rows /\ magnets \in SUBSET Rows
    /\ req = [q \in Requests |-> NoReq]
    /\ job = [p \in Restorers |-> [r \in Rows |-> NoJob]]
    /\ held = [r \in Rows |-> {}]
    /\ made = [r \in Rows |-> "no"]
    /\ restarts = 0 /\ faults = 0

-----------------------------------------------------------------------------
(* History.  "mess" stays among the holders until all of them are through. *)
Join(R, a) ==
    /\ held' = [r \in Rows |-> IF r \notin R THEN held[r]
                               ELSE held[r] \union {a} \union (IF held[r] = {} THEN {} ELSE {"mess"})]
    /\ made' = [r \in Rows |-> IF r \in R THEN "no" ELSE made[r]]

Through(R, a, kind) ==
    /\ held' = [r \in Rows |-> IF r \notin R THEN held[r]
                               ELSE IF held[r] \subseteq {a, "mess"} THEN {} ELSE held[r] \ {a}]
    /\ made' = [r \in Rows |-> IF r \in R THEN (IF held[r] = {a} THEN kind ELSE "no") ELSE made[r]]

Fault == faults < MaxFaults /\ faults' = faults + 1

-----------------------------------------------------------------------------
(* The engine.  A torrent that is added again is the one that is there.    *)
Added(r, s) == IF handle[r] = "none" THEN [handle EXCEPT ![r] = s] ELSE handle
Removed(r) == [handle EXCEPT ![r] = "none"]

(* Set(r, s): pause or resume; 404 without a handle.                       *)
PauseSet(r, s) == IF handle[r] = "none" THEN handle ELSE [handle EXCEPT ![r] = s]

(* The engine comes back with some of its torrents, as they were saved; of *)
(* the others it may have the .torrent.                                    *)
EngineRestart ==
    /\ restarts < MaxRestarts
    /\ \E lost \in SUBSET {r \in Rows : handle[r] # "none"}, s \in {"running", "paused"} :
          /\ handle' = [r \in Rows |-> IF r \in lost THEN "none"
                                       ELSE IF handle[r] = "none" THEN "none" ELSE s]
          /\ \E kept \in {disk, disk \ lost} : disk' = kept
    /\ restarts' = restarts + 1
    /\ made' = [r \in Rows |-> "no"]
    /\ held' = [r \in Rows |-> IF held[r] = {} THEN {} ELSE held[r] \union {"mess"}]
    /\ UNCHANGED <<row, whole, magnets, req, job, faults>>

-----------------------------------------------------------------------------
(* The requests.  Of its rows a request still has todo to call the engine  *)
(* for, is about to write cur, and has flushed done; same are the rows     *)
(* that were read with the status it is to write.                          *)
Idle(q) == req[q].op = "idle"
Begin(q, op, many, R, new, same) ==
    /\ Idle(q) /\ R # {}
    /\ many \/ \E r \in R : R \subseteq {r, new}
    /\ req' = [req EXCEPT ![q] = [op |-> op, many |-> many, rows |-> R, new |-> new, same |-> same,
                                  todo |-> R, done |-> {}, cur |-> "none", at |-> "call"]]
    /\ Join(R, q)
    /\ UNCHANGED <<row, handle, disk, whole, magnets, job, restarts, faults>>

Unborn == {r \in Rows : row[r] = "fresh" /\ \A p \in Requests : r \notin req[p].rows}

(* create_torrent, upload_torrent_file and _files, create_torrent_from_url: *)
(* the rows are inserted, not yet visible.                                 *)
CreateBegin(q, R, many) == R \subseteq Unborn /\ Begin(q, "create", many, R, "none", {})

(* pause_torrent, resume_torrent, bulk_pause, bulk_resume.  An "active" row *)
(* may have another status than the one a resume writes.                   *)
PauseBegin(q, op, R, many) ==
    /\ \A r \in R : row[r] \in InTable
    /\ \/ op = "pause" /\ Begin(q, op, many, R, "none", {r \in R : row[r] = "paused"})
       \/ /\ op = "resume"
          /\ \E same \in SUBSET {r \in R : row[r] = "active"} : Begin(q, op, many, R, "none", same)

(* delete_torrent, bulk_delete.                                            *)
DeleteBegin(q, R, many) ==
    (\A r \in R : row[r] \in InTable) /\ Begin(q, "delete", many, R, "none", {})

(* replace_torrent: the old torrent goes from the engine, and its row in   *)
(* the transaction; then the new one is added.                             *)
ReplaceBegin(q, r, new) ==
    row[r] \in InTable /\ new \in Unborn /\ Begin(q, "replace", FALSE, {r, new}, new, {})

(* What a call does on the engine.                                         *)
Effect(op, r) ==
    \/ /\ op = "create" /\ handle' = Added(r, "running") /\ disk' = disk \union {r}
    \/ /\ op = "delete" /\ handle' = Removed(r) /\ disk' = disk \ {r}
    \/ /\ op = "pause" /\ handle' = PauseSet(r, "paused") /\ UNCHANGED disk
    \/ /\ op = "resume" /\ handle' = PauseSet(r, "running") /\ UNCHANGED disk

CallOp(q, r) == IF req[q].op # "replace" THEN req[q].op
                ELSE IF r = req[q].new THEN "create" ELSE "delete"

MayCall(q, r) ==
    /\ req[q].at = "call" /\ r \in req[q].todo
    /\ r = req[q].new => req[q].todo = {r}

ToWrite(q, r) == [req EXCEPT ![q].todo = @ \ {r}, ![q].cur = r, ![q].at = "write"]
Skipped(q, r) == [req EXCEPT ![q].todo = @ \ {r}]
Failed(q) == [req EXCEPT ![q].at = "error", ![q].cur = "none"]

(* A pause or resume that finds no torrent: 404, which pause_torrent and   *)
(* resume_torrent pass over, and which for bulk_ is a row that failed.     *)
Missing(q, r) == req[q].many /\ CallOp(q, r) \in {"pause", "resume"} /\ handle[r] = "none"

CallAnswered(q, r) ==
    /\ MayCall(q, r) /\ Effect(CallOp(q, r), r)
    /\ req' = IF Missing(q, r) THEN Skipped(q, r) ELSE ToWrite(q, r)
    /\ UNCHANGED <<row, whole, magnets, job, held, made, restarts, faults>>

(* The engine does not answer, whether the call arrived or not             *)
(* (httpx.HTTPError).  A delete that does not require the engine goes on;  *)
(* a request for many rows leaves this one out, every other one ends.      *)
CallFails(q, r) ==
    /\ MayCall(q, r) /\ Fault
    /\ Effect(CallOp(q, r), r) \/ UNCHANGED <<handle, disk>>
    /\ \/ req[q].op = "delete" /\ FALSE \in Strict /\ req' = ToWrite(q, r)
       \/ /\ req[q].op = "delete" => TRUE \in Strict
          /\ req' = IF req[q].many THEN Skipped(q, r) ELSE Failed(q)
    /\ held' = [held EXCEPT ![r] = @ \union {"mess"}]
    /\ UNCHANGED <<row, whole, magnets, job, made, restarts>>

(* What a row says when the request is through with it.                    *)
StatusOf(op) == CASE op \in {"create", "resume"} -> "active"
                  [] op = "pause" -> "paused"
                  [] op = "delete" -> "gone"

(* Whoever has flushed a row keeps others from writing it until the commit. *)
Locked(a, r) ==
    \/ \E q \in Requests \ {a} : r \in req[q].done
    \/ \E p \in Restorers \ {a} : job[p][r].at = "written"

(* The flush: nothing for a status that does not change, and an error      *)
(* (StaleDataError) for one of a row that another request deleted.         *)
Write(q) ==
    LET r == req[q].cur
    IN  /\ req[q].at = "write"
        /\ \/ r \in req[q].same /\ req' = [req EXCEPT ![q].cur = "none", ![q].at = "call"]
           \/ /\ r \notin req[q].same /\ ~Locked(q, r)
              /\ req' = IF CallOp(q, r) \in {"pause", "resume"} /\ row[r] = "gone" THEN Failed(q)
                        ELSE [req EXCEPT ![q].done = @ \union {r}, ![q].cur = "none", ![q].at = "call"]
        /\ UNCHANGED <<row, handle, disk, whole, magnets, job, held, made, restarts, faults>>

(* Any exception but httpx.HTTPError, wherever the request is: the engine  *)
(* is no longer in the pool (client_for_row: KeyError), the database gives *)
(* up, the process dies.                                                   *)
Breaks(q) ==
    /\ req[q].at \in {"call", "write"} /\ Fault
    /\ req' = Failed(q)
    /\ UNCHANGED <<row, handle, disk, whole, magnets, job, held, made, restarts>>

(* get_db_session: all rows at once.  The id of a row that was not created *)
(* is spent.                                                               *)
Commit(q) ==
    /\ req[q].at = "call" /\ req[q].todo = {}
    /\ row' = [r \in Rows |-> IF r \in req[q].done THEN StatusOf(CallOp(q, r))
                              ELSE IF r \in req[q].rows /\ row[r] = "fresh" THEN "gone" ELSE row[r]]
    /\ Through(req[q].rows, q, IF req[q].op \in {"pause", "resume"} THEN "set" ELSE "request")
    /\ req' = [req EXCEPT ![q] = NoReq]
    /\ UNCHANGED <<handle, disk, whole, magnets, job, restarts, faults>>

(* No row, whatever the engine has done for those that were called.        *)
RollBack(q) ==
    /\ req[q].at = "error"
    /\ row' = [r \in Rows |-> IF r \in req[q].rows /\ row[r] = "fresh" THEN "gone" ELSE row[r]]
    /\ Through(req[q].rows, q, "no")
    /\ req' = [req EXCEPT ![q] = NoReq]
    /\ UNCHANGED <<handle, disk, whole, magnets, job, restarts, faults>>

-----------------------------------------------------------------------------
(* A restore reads the rows it will bring back: list_for_engine_restore    *)
(* and list_for_torrent_file_restore, list_by_engine, or the queued ones.  *)
Wanted(p) == {r \in Rows : IF p = "bulk" THEN row[r] = "queued" ELSE row[r] \in Shown}
Working(p) == \E r \in Rows : job[p][r].at # "idle"

RestoreRead(p) ==
    /\ ~Working(p) /\ Wanted(p) # {}
    /\ job' = [job EXCEPT ![p] = [r \in Rows |->
                  IF r \in Wanted(p) THEN [at |-> IF p = "bulk" THEN "add" ELSE "look",
                                           saw |-> "none", st |-> row[r]]
                  ELSE NoJob]]
    /\ Join(Wanted(p), p)
    /\ UNCHANGED <<row, handle, disk, whole, magnets, req, restarts, faults>>

RowsDone(p, R, kind) ==
    /\ job' = [job EXCEPT ![p] = [r \in Rows |-> IF r \in R THEN NoJob ELSE job[p][r]]]
    /\ Through(R, p, kind)

(* runtime_snapshot of the row's torrent.                                  *)
RestoreLook(p, r) ==
    /\ job[p][r].at = "look"
    /\ job' = [job EXCEPT ![p][r].at = IF handle[r] = "none" THEN "add" ELSE "sync",
                          ![p][r].saw = handle[r]]
    /\ UNCHANGED <<row, handle, disk, whole, magnets, req, held, made, restarts, faults>>

(* A magnet link is registered, a file is looked for on the engine's disk, *)
(* but not by bulk_register_engine, whose call has no file either and is   *)
(* refused.  From its files a torrent comes back as it was saved.          *)
Known(p, r) == r \in magnets \/ (p # "bulk" /\ r \in disk)

Brought(r) ==
    /\ \E s \in {"running", "paused"} : (s = "paused" => r \in disk) /\ handle' = Added(r, s)
    /\ disk' = disk \union {r}

RestoreAdd(p, r) ==
    /\ job[p][r].at = "add" /\ Known(p, r) /\ Brought(r)
    /\ job' = [job EXCEPT ![p][r].at = "sync", ![p][r].saw = handle'[r]]
    /\ UNCHANGED <<row, whole, magnets, req, held, made, restarts, faults>>

RestoreAddNone(p, r) ==
    /\ job[p][r].at = "add" /\ ~Known(p, r)
    /\ RowsDone(p, {r}, "no")
    /\ UNCHANGED <<row, handle, disk, whole, magnets, req, restarts, faults>>

(* Mutant of Synced: the pause of the row is not looked at.                *)
SyncedAll(p, r) == IF p = "startup" /\ job[p][r].saw = "paused" THEN "running" ELSE "as is"

(* _sync_pause_from_db: a complete torrent is resumed, another one follows *)
(* its row as it was read; the worker only pauses.                         *)
Synced(p, r) ==
    LET k == job[p][r]
    IN  CASE p = "startup" /\ r \in whole -> IF k.saw = "paused" THEN "running" ELSE "as is"
          [] p = "startup" /\ r \notin whole /\ k.st = "paused" /\ k.saw = "running" -> "paused"
          [] p = "startup" /\ r \notin whole /\ k.st = "active" /\ k.saw = "paused" -> "running"
          [] p = "worker" /\ k.st = "paused" -> "paused"
          [] OTHER -> "as is"

RestoreSync(p, r) ==
    /\ job[p][r].at = "sync" /\ p # "bulk"
    /\ handle' = IF Synced(p, r) = "as is" THEN handle ELSE PauseSet(r, Synced(p, r))
    /\ RowsDone(p, {r}, p)
    /\ UNCHANGED <<row, disk, whole, magnets, req, restarts, faults>>

(* A call that fails, whether it arrived or not: the row is left as it is. *)
RestoreFails(p, r) ==
    /\ job[p][r].at \in {"look", "add"} \/ (job[p][r].at = "sync" /\ p # "bulk")
    /\ Fault
    /\ \/ UNCHANGED <<handle, disk>>
       \/ job[p][r].at = "add" /\ Known(p, r) /\ Brought(r)
       \/ /\ job[p][r].at = "sync" /\ Synced(p, r) # "as is"
          /\ handle' = PauseSet(r, Synced(p, r)) /\ UNCHANGED disk
    /\ RowsDone(p, {r}, "no")
    /\ UNCHANGED <<row, whole, magnets, req, restarts>>

-----------------------------------------------------------------------------
(* bulk_register_engine: the coroutines of the pass write their rows in    *)
(* one session, which cannot be flushed twice at a time.                   *)
At(p, place) == {r \in Rows : job[p][r].at = place}
Place(p, r, place) ==
    /\ job' = [job EXCEPT ![p][r].at = place]
    /\ UNCHANGED <<row, handle, disk, whole, magnets, req, held, made, restarts>>

FlushBegin(p, r) ==
    /\ p = "bulk" /\ job[p][r].at = "sync" /\ UNCHANGED faults
    /\ Place(p, r, IF At(p, "flush") = {} THEN "flush" ELSE "broken")

FlushEnd(p, r) ==
    /\ job[p][r].at = "flush" /\ ~Locked(p, r) /\ UNCHANGED faults
    /\ Place(p, r, IF row[r] = "gone" THEN "broken" ELSE "written")

(* Another error of the database, or the process dies.                     *)
FlushFails(p, r) == job[p][r].at = "flush" /\ Fault /\ Place(p, r, "broken")

(* The gather is over: all rows, or none.                                  *)
Pass(p) == Rows \ At(p, "idle")

BatchCommit(p) ==
    /\ At(p, "written") # {} /\ At(p, "written") = Pass(p)
    /\ row' = [r \in Rows |-> IF r \in Pass(p) THEN "active" ELSE row[r]]
    /\ RowsDone(p, Pass(p), p)
    /\ UNCHANGED <<handle, disk, whole, magnets, req, restarts, faults>>

BatchRollBack(p) ==
    /\ At(p, "broken") # {} /\ At(p, "add") = {}
    /\ RowsDone(p, Pass(p), "no")
    /\ UNCHANGED <<row, handle, disk, whole, magnets, req, restarts, faults>>

(* The first exception closes the client under the other coroutines.       *)
BatchDrops(p, r) ==
    /\ At(p, "broken") # {} /\ job[p][r].at = "add"
    /\ RowsDone(p, {r}, "no")
    /\ UNCHANGED <<row, handle, disk, whole, magnets, req, restarts, faults>>

Proceed(q) == Write(q) \/ Breaks(q) \/ Commit(q) \/ RollBack(q)
              \/ \E r \in Rows : CallAnswered(q, r) \/ CallFails(q, r)

RequestStep(q) ==
    \/ \E R \in SUBSET Rows, many \in BOOLEAN :
          \/ CreateBegin(q, R, many) \/ DeleteBegin(q, R, many)
          \/ \E op \in {"pause", "resume"} : PauseBegin(q, op, R, many)
    \/ \E r, new \in Rows : ReplaceBegin(q, r, new)
    \/ Proceed(q)

RestoreStep(p) ==
    \/ RestoreRead(p) \/ BatchCommit(p) \/ BatchRollBack(p)
    \/ \E r \in Rows : RestoreLook(p, r) \/ RestoreAdd(p, r) \/ RestoreAddNone(p, r)
                       \/ RestoreSync(p, r) \/ RestoreFails(p, r) \/ BatchDrops(p, r)
                       \/ FlushBegin(p, r) \/ FlushEnd(p, r) \/ FlushFails(p, r)

CatalogNext ==
    \/ EngineRestart
    \/ \E q \in Requests : RequestStep(q)
    \/ \E p \in Restorers : RestoreStep(p)

CatalogSpec == CatalogInit /\ [][CatalogNext]_catalogVars

-----------------------------------------------------------------------------
ReqType == [op : {"idle", "create", "pause", "resume", "delete", "replace"}, many : BOOLEAN,
            rows : SUBSET Rows, new : Rows \union {"none"}, same : SUBSET Rows, todo : SUBSET Rows,
            done : SUBSET Rows, cur : Rows \union {"none"}, at : {"none", "call", "write", "error"}]
JobType == [at : {"idle", "look", "add", "sync", "flush", "written", "broken"},
            saw : {"none", "running", "paused"}, st : {"none", "queued", "active", "paused"}]

CatalogTypeOK ==
    /\ row \in [Rows -> {"fresh", "queued", "active", "paused", "gone"}]
    /\ handle \in [Rows -> {"none", "running", "paused"}]
    /\ disk \subseteq Rows /\ whole \subseteq Rows /\ magnets \subseteq Rows
    /\ req \in [Requests -> ReqType] /\ job \in [Restorers -> [Rows -> JobType]]
    /\ held \in [Rows -> SUBSET (Actors \union {"mess"})]
    /\ made \in [Rows -> Restorers \union {"no", "request", "set"}]
    /\ restarts \in 0..MaxRestarts /\ faults \in 0..MaxFaults

(* What one actor did with a torrent, alone, answered and committed, is    *)
(* complete, whatever earlier calls, rollbacks and restarts had left       *)
(* behind, and stays so until somebody begins with it again: after a       *)
(* torrent was made, replaced or removed there is a handle just where      *)
(* there is a row; a pause or resume holds on both; after the restore of   *)
(* the orchestrator's start handles follow their rows, but that complete   *)
(* torrents run; after the worker's, paused rows are paused; after a bulk  *)
(* registration an active row has a handle.  Other rows of the same        *)
(* request or pass whose call failed do not matter, unless all are rolled  *)
(* back: nothing is said of rows that were rolled back, whose torrents may *)
(* have been added, removed, paused or resumed already.                    *)
Catalogued ==
    \A r \in Rows :
        /\ made[r] = "request" => (handle[r] = "none" <=> row[r] = "gone")
        /\ made[r] \in {"request", "set"} =>
              (handle[r] = "paused" => row[r] = "paused") /\ (handle[r] = "running" => row[r] = "active")
        /\ made[r] = "startup" => /\ handle[r] # "none" /\ row[r] \in Shown
                                  /\ (handle[r] = "paused") = (row[r] = "paused" /\ r \notin whole)
        /\ made[r] = "worker" => /\ handle[r] # "none"
                                 /\ (row[r] = "paused" => handle[r] = "paused")
        /\ made[r] = "bulk" => handle[r] # "none" /\ row[r] = "active"
=============================================================================
