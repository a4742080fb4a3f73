------------------------------ MODULE Migration ------------------------------
(***************************************************************************)
(* The transfer of one torrent between engines: the background task of     *)
(* api/seeding_api/migrate.py, the HTTP requests of routers/torrents.py    *)
(* that start, resume, cancel or disturb it, the periodic status sync, and *)
(* the recovery after a crash of the API process.                          *)
(*                                                                         *)
(* Every database transaction and every call to an engine is one step;     *)
(* between two of them any other coroutine may run.  The wait for the      *)
(* slots (module TransferSlots) is the time a task spends at "slot".       *)
(***************************************************************************)
EXTENDS FiniteSets, Naturals

CONSTANTS Engines, Home,   \* the engines; the one that seeds at first
          Tasks,           \* bound: transfer tasks alive at one time
          Requests,        \* bound: HTTP requests and sync rounds at one time
          Ops,             \* the operations this instance uses
          MayFail,         \* the calls to an engine that may fail
          MaxCrashes       \* bound: crashes of the API process

ASSUME MigrationAssumption ==
    /\ Home \in Engines
    /\ MayFail \subseteq {"fetch", "pause", "resume", "wipe", "import",
                    "ask", "delete", "turn"}
    /\ MaxCrashes \in Nat

VARIABLES
    row,      \* the torrents row: does it exist, its engine, its status
    job,      \* the migration_jobs row
    copy,     \* [Engines -> ...] the content on each engine's disk; "full" is
              \* what the code takes for whole, a progress of 0.999 or more
    handle,   \* [Engines -> ...] the torrent in each engine's session
    imports,  \* <<source, target>>: imports that run on the target engine
    task,     \* the transfer tasks of the API process
    req,      \* the requests in progress
    api,      \* "up", or restarting in two steps
    crashes   \* how often the API process crashed

vars == <<row, job, copy, handle, imports, task, req, api, crashes>>

Moving == {"migrate_queued", "migrating"}          \* MIGRATION_STATUSES
Statuses == Moving \cup {"seeding", "paused", "downloading"}

NoJob == [state |-> "none", src |-> Home, dst |-> Home]
Job(state, m) == [state |-> state, src |-> m.src, dst |-> m.dst]

Steps == {"idle", "persist", "slot", "begin", "upsert", "fetch", "pause",
          "mark", "send", "await", "verify", "switch", "cleanup", "unjob",
          "f_resume", "f_status", "f_job"}
Idle == [pc |-> "idle", src |-> Home, dst |-> Home]

ReqSteps == {"idle", "migrate", "migrate_commit", "resume", "cancel_queued",
             "cancel", "cancel_resume", "cancel_drop", "delete", "delete_queued",
             "delete_row", "delete_row_job", "turn", "bulk_turn", "sync",
             "set_status"}
NoReq == [pc |-> "idle", src |-> Home, dst |-> Home, old |-> "seeding",
          new |-> "seeding"]

Init ==
    /\ row = [exists |-> TRUE, engine |-> Home, status |-> "seeding"]
    /\ job = NoJob
    /\ copy = [e \in Engines |-> IF e = Home THEN "full" ELSE "none"]
    /\ handle = [e \in Engines |-> IF e = Home THEN "active" ELSE "none"]
    /\ imports = {}
    /\ task = [t \in Tasks |-> Idle]
    /\ req = [r \in Requests |-> NoReq]
    /\ api = "up"
    /\ crashes = 0

-----------------------------------------------------------------------------
(* Calls and writes that several handlers make. *)

(* Mutants of WithStatus: the job's state is written into the torrent; a   *)
(* torrent that moves is protected from every other status.                *)
WithJobAsStatus(s) == IF row.exists THEN [row EXCEPT !.status = job.state] ELSE row
WithMovingKept(s) == IF row.exists /\ (s \in Moving \/ row.status \notin Moving)
                     THEN [row EXCEPT !.status = s] ELSE row

(* TorrentRepository.update_status: nothing happens to a missing row. *)
WithStatus(s) == IF row.exists THEN [row EXCEPT !.status = s] ELSE row

(* Mutant of WithJobState: the change is not committed. *)
WithoutCommit(s) == job

(* MigrationRepository.set_state: nothing happens to a missing job. *)
WithJobState(s) == IF job.state = "none" THEN job ELSE [job EXCEPT !.state = s]

(* Mutant of Turned: what was paused is not resumed. *)
OnlyPaused(e, mode) == IF handle[e] = "none" \/ mode # "paused" THEN handle
                       ELSE [handle EXCEPT ![e] = mode]

(* engine.pause and engine.resume: 404 when the torrent is not there. *)
Turned(e, mode) == IF handle[e] = "none" THEN handle
                   ELSE [handle EXCEPT ![e] = mode]

(* An engine call whose errors are logged and ignored. *)
TryTurn(e, mode) == \/ handle' = Turned(e, mode)
                    \/ /\ (IF mode = "paused" THEN "pause" ELSE "resume") \in MayFail
                       /\ UNCHANGED handle

(* remove_from_runtime(delete_files=True), errors ignored. *)
TryWipe(e) ==
    \/ /\ copy' = [copy EXCEPT ![e] = "none"]
       /\ handle' = [handle EXCEPT ![e] = "none"]
    \/ "wipe" \in MayFail /\ UNCHANGED <<copy, handle>>

(* DELETE of a queued torrent deletes the job first and commits last: until *)
(* then every other write to the job waits for its row lock.               *)
JobLocked == \E r \in Requests : req[r].pc \in {"delete_queued", "delete_row_job"}

Go(t, step) == task' = [task EXCEPT ![t].pc = step]
Done(t) == task' = [task EXCEPT ![t] = Idle]

(* launch_migration: a new task, not yet run. *)
Launch(src, dst) ==
    \E t \in Tasks : /\ task[t].pc = "idle"
                     /\ task' = [task EXCEPT ![t] =
                           [pc |-> "persist", src |-> src, dst |-> dst]]

-----------------------------------------------------------------------------
(* The task: _run_migration_when_slot and run_migration. *)

(* _persist_queued: job and status in one transaction. *)
Persist(t) ==
    /\ task[t].pc = "persist" /\ ~JobLocked
    /\ job' = Job("queued", task[t])
    /\ row' = WithStatus("migrate_queued")
    /\ Go(t, "slot")
    /\ UNCHANGED <<copy, handle, imports, req, api, crashes>>

(* The slots are granted; _still_queued reads the job. *)
GetSlot(t) ==
    /\ task[t].pc = "slot"
    /\ IF job.state = "queued" THEN Go(t, "begin") ELSE Done(t)
    /\ UNCHANGED <<row, job, copy, handle, imports, req, api, crashes>>

Begin(t) ==
    /\ task[t].pc = "begin"
    /\ row' = WithStatus("migrating")
    /\ Go(t, "upsert")
    /\ UNCHANGED <<job, copy, handle, imports, req, api, crashes>>

Upsert(t) ==
    /\ task[t].pc = "upsert" /\ ~JobLocked
    /\ job' = Job("running", task[t])
    /\ Go(t, "fetch")
    /\ UNCHANGED <<row, copy, handle, imports, req, api, crashes>>

(* source.get_torrent_file *)
Fetch(t) ==
    /\ task[t].pc = "fetch"
    /\ \/ handle[task[t].src] # "none" /\ Go(t, "pause")
       \/ (handle[task[t].src] = "none" \/ "fetch" \in MayFail) /\ Go(t, "f_resume")
    /\ UNCHANGED <<row, job, copy, handle, imports, req, api, crashes>>

PauseSource(t) ==
    /\ task[t].pc = "pause"
    /\ TryTurn(task[t].src, "paused")
    /\ Go(t, "mark")
    /\ UNCHANGED <<row, job, copy, imports, req, api, crashes>>

MarkCopying(t) ==
    /\ task[t].pc = "mark" /\ ~JobLocked
    /\ job' = WithJobState("running")
    /\ Go(t, "send")
    /\ UNCHANGED <<row, copy, handle, imports, req, api, crashes>>

(* The import request reaches the target, or finds no content to copy. *)
SendImport(t) ==
    LET m == task[t] IN
    /\ m.pc = "send"
    /\ \/ /\ copy[m.src] # "none"
          /\ imports' = imports \cup {<<m.src, m.dst>>}
          /\ copy' = [copy EXCEPT ![m.dst] = IF @ = "none" THEN "partial" ELSE @]
          /\ Go(t, "await")
       \/ /\ copy[m.src] = "none"
          /\ Go(t, "f_resume")
          /\ UNCHANGED <<copy, imports>>
    /\ UNCHANGED <<row, job, handle, req, api, crashes>>

(* The connection to the target breaks; the import itself goes on there. *)
LoseImport(t) ==
    /\ "import" \in MayFail
    /\ task[t].pc = "await"
    /\ Go(t, "f_resume")
    /\ UNCHANGED <<row, job, copy, handle, imports, req, api, crashes>>

(* Mutant of VerifyFull: the torrent on the target is enough. *)
VerifyAdded(t) ==
    /\ task[t].pc = "verify"
    /\ handle[task[t].dst] # "none"
    /\ Go(t, "switch")
    /\ UNCHANGED <<row, job, copy, handle, imports, req, api, crashes>>

(* _wait_until_checked saw the whole content checked on the target. *)
VerifyFull(t) ==
    /\ task[t].pc = "verify"
    /\ handle[task[t].dst] # "none"
    /\ copy[task[t].dst] = "full"
    /\ Go(t, "switch")
    /\ UNCHANGED <<row, job, copy, handle, imports, req, api, crashes>>

(* It saw a stable partial copy, or its timeout came first. *)
VerifyShort(t) ==
    /\ task[t].pc = "verify"
    /\ Go(t, "f_resume")
    /\ UNCHANGED <<row, job, copy, handle, imports, req, api, crashes>>

(* _commit_switch *)
Switch(t) ==
    /\ task[t].pc = "switch"
    /\ row' = IF row.exists
              THEN [row EXCEPT !.engine = task[t].dst, !.status = "seeding"]
              ELSE row
    /\ Go(t, "cleanup")
    /\ UNCHANGED <<job, copy, handle, imports, req, api, crashes>>

Cleanup(t) ==
    /\ task[t].pc = "cleanup"
    /\ TryWipe(task[t].src)
    /\ Go(t, "unjob")
    /\ UNCHANGED <<row, job, imports, req, api, crashes>>

Unjob(t) ==
    /\ task[t].pc = "unjob" /\ ~JobLocked
    /\ job' = NoJob
    /\ Done(t)
    /\ UNCHANGED <<row, copy, handle, imports, req, api, crashes>>

(* The incomplete copy and the except branch end alike: source resumed,    *)
(* status seeding, job failed; the partial copy stays.                     *)
FailResume(t) ==
    /\ task[t].pc = "f_resume"
    /\ TryTurn(task[t].src, "active")
    /\ Go(t, "f_status")
    /\ UNCHANGED <<row, job, copy, imports, req, api, crashes>>

FailStatus(t) ==
    /\ task[t].pc = "f_status"
    /\ row' = WithStatus("seeding")
    /\ Go(t, "f_job")
    /\ UNCHANGED <<job, copy, handle, imports, req, api, crashes>>

FailJob(t) ==
    /\ task[t].pc = "f_job" /\ ~JobLocked
    /\ job' = WithJobState("failed")
    /\ Done(t)
    /\ UNCHANGED <<row, copy, handle, imports, req, api, crashes>>

WriteJob(t) ==
    Persist(t) \/ Upsert(t) \/ MarkCopying(t) \/ Unjob(t) \/ FailJob(t)

TaskStep(t) ==
    \/ WriteJob(t) \/ GetSlot(t) \/ Begin(t) \/ Fetch(t) \/ PauseSource(t)
    \/ SendImport(t) \/ LoseImport(t) \/ VerifyFull(t) \/ VerifyShort(t)
    \/ Switch(t) \/ Cleanup(t) \/ FailResume(t) \/ FailStatus(t)

-----------------------------------------------------------------------------
(* The import on the target engine: copy what is missing, add the torrent, *)
(* recheck.  Tasks that wait for it get its answer.                        *)

(* Mutant of Answered: an answer that is lost is waited for for ever. *)
Unanswered(i, step) == task

Answered(i, step) ==
    [t \in Tasks |-> IF task[t].pc = "await" /\ <<task[t].src, task[t].dst>> = i
                     THEN [task[t] EXCEPT !.pc = step] ELSE task[t]]

(* What the recheck on the target finds: a whole copy only if the source   *)
(* was whole, or the target already is.                                    *)
Copied(i) ==
    {c \in {"partial", "full"} :
        IF c = "full" THEN "full" \in {copy[i[1]], copy[i[2]]} ELSE copy[i[2]] # "full"}

ImportDone(i) ==
    /\ i \in imports
    /\ imports' = imports \ {i}
    /\ \E c \in Copied(i) : copy' = [copy EXCEPT ![i[2]] = c]
    /\ handle' = [handle EXCEPT ![i[2]] = "active"]
    /\ task' = Answered(i, "verify")
    /\ UNCHANGED <<row, job, req, api, crashes>>

ImportFails(i) ==
    /\ i \in imports
    /\ imports' = imports \ {i}
    /\ task' = Answered(i, "f_resume")
    /\ UNCHANGED <<row, job, copy, handle, req, api, crashes>>

-----------------------------------------------------------------------------
(* Requests.  The first step reads the database, the next ones act on what *)
(* was read.                                                               *)

Accept(r, step, src, dst, new) ==
    /\ api = "up"
    /\ req[r].pc = "idle"
    /\ req' = [req EXCEPT ![r] = [pc |-> step, src |-> src, dst |-> dst,
                                  old |-> row.status, new |-> new]]
Advance(r, step) == req' = [req EXCEPT ![r].pc = step]
Reply(r) == req' = [req EXCEPT ![r] = NoReq]

(* POST /migrate: the checks on the row, calls to both engines, the commit *)
(* of migrate_queued and launch_migration.                                 *)
MigrateCheck(r, dst) ==
    /\ "migrate" \in Ops
    /\ row.exists
    /\ dst # row.engine
    /\ row.status \notin Moving
    /\ Accept(r, "migrate", row.engine, dst, "migrate_queued")
    /\ UNCHANGED <<row, job, copy, handle, imports, task, api, crashes>>

MigrateAsk(r) ==
    /\ req[r].pc = "migrate"
    /\ \/ handle[req[r].src] # "none" /\ Advance(r, "migrate_commit")
       \/ (handle[req[r].src] = "none" \/ "ask" \in MayFail) /\ Reply(r)
    /\ UNCHANGED <<row, job, copy, handle, imports, task, api, crashes>>

MigrateCommit(r) ==
    /\ req[r].pc = "migrate_commit"
    /\ row' = WithStatus("migrate_queued")
    /\ IF row.exists THEN Launch(req[r].src, req[r].dst) ELSE UNCHANGED task
    /\ Reply(r)
    /\ UNCHANGED <<job, copy, handle, imports, api, crashes>>

(* POST /migrate/resume *)
ResumeCheck(r) ==
    /\ "resume" \in Ops
    /\ job.state \notin {"none", "running", "queued"}
    /\ Accept(r, "resume", job.src, job.dst, "migrate_queued")
    /\ UNCHANGED <<row, job, copy, handle, imports, task, api, crashes>>

ResumeCommit(r) ==
    /\ req[r].pc = "resume"
    /\ row' = WithStatus("migrate_queued")
    /\ Launch(req[r].src, req[r].dst)
    /\ Reply(r)
    /\ UNCHANGED <<job, copy, handle, imports, api, crashes>>

(* POST /migrate/cancel: cancel_migration *)
CancelRead(r) ==
    /\ "cancel" \in Ops
    /\ job.state # "none"
    /\ Accept(r, IF job.state = "queued" THEN "cancel_queued" ELSE "cancel",
              job.src, job.dst, "seeding")
    /\ UNCHANGED <<row, job, copy, handle, imports, task, api, crashes>>

CancelWipe(r) ==
    /\ req[r].pc = "cancel"
    /\ TryWipe(req[r].dst)
    /\ Advance(r, "cancel_resume")
    /\ UNCHANGED <<row, job, imports, task, api, crashes>>

CancelResume(r) ==
    /\ req[r].pc = "cancel_resume"
    /\ TryTurn(req[r].src, "active")
    /\ Advance(r, "cancel_drop")
    /\ UNCHANGED <<row, job, copy, imports, task, api, crashes>>

CancelDrop(r) ==
    /\ req[r].pc \in {"cancel_queued", "cancel_drop"}
    /\ ~JobLocked
    /\ row' = WithStatus("seeding")
    /\ job' = NoJob
    /\ Reply(r)
    /\ UNCHANGED <<copy, handle, imports, task, api, crashes>>

(* DELETE: refused while the copy runs; a queued job goes with the row.    *)
DeleteCheck(r) ==
    /\ "delete" \in Ops
    /\ row.exists
    /\ row.status # "migrating"
    /\ ~JobLocked
    /\ Accept(r, IF row.status = "migrate_queued" /\ job.state # "none"
                 THEN "delete_queued" ELSE "delete",
              row.engine, row.engine, row.status)
    /\ UNCHANGED <<row, job, copy, handle, imports, task, api, crashes>>

(* POST /bulk/delete asks for no status and leaves the job. *)
BulkDeleteCheck(r) ==
    /\ "bulk_delete" \in Ops
    /\ row.exists
    /\ Accept(r, "delete", row.engine, row.engine, row.status)
    /\ UNCHANGED <<row, job, copy, handle, imports, task, api, crashes>>

(* remove_from_runtime with delete_files = wipe. *)
DeleteRemove(r, wipe) ==
    /\ req[r].pc \in {"delete", "delete_queued"}
    /\ \/ /\ handle' = [handle EXCEPT ![req[r].src] = "none"]
          /\ copy' = IF wipe THEN [copy EXCEPT ![req[r].src] = "none"] ELSE copy
       \/ "delete" \in MayFail /\ UNCHANGED <<copy, handle>>
    /\ Advance(r, IF req[r].pc = "delete_queued" THEN "delete_row_job" ELSE "delete_row")
    /\ UNCHANGED <<row, job, imports, task, api, crashes>>

(* SEEDING_REQUIRE_ENGINE_FOR_DELETE: the request fails and rolls back. *)
DeleteRefused(r) ==
    /\ "delete" \in MayFail
    /\ req[r].pc \in {"delete", "delete_queued"}
    /\ Reply(r)
    /\ UNCHANGED <<row, job, copy, handle, imports, task, api, crashes>>

(* A task whose write waited for the deleted job finds no row to update:   *)
(* before run_migration's try the error ends the task.                     *)
Overtaken(t) ==
    CASE task[t].pc = "mark" -> [task[t] EXCEPT !.pc = "f_resume"]
      [] task[t].pc \in {"persist", "upsert", "unjob", "f_job"} -> Idle

(* The request's transaction commits: row and job disappear together. *)
DeleteCommit(r) ==
    /\ req[r].pc \in {"delete_row", "delete_row_job"}
    /\ row' = [row EXCEPT !.exists = FALSE]
    /\ IF req[r].pc = "delete_row_job"
       THEN /\ job' = NoJob
            /\ \E waiting \in SUBSET {t \in Tasks : task[t].pc \in
                                  {"persist", "upsert", "mark", "unjob", "f_job"}} :
                  task' = [t \in Tasks |-> IF t \in waiting THEN Overtaken(t)
                                           ELSE task[t]]
       ELSE UNCHANGED <<job, task>>
    /\ Reply(r)
    /\ UNCHANGED <<copy, handle, imports, api, crashes>>

(* Pause and resume of a torrent; the bulk variants ask for no status.     *)
StatusCheck(r, new) ==
    /\ row.exists
    /\ \/ /\ "pause" \in Ops
          /\ row.status \notin Moving
          /\ Accept(r, "turn", row.engine, row.engine, new)
       \/ /\ "bulk_pause" \in Ops
          /\ Accept(r, "bulk_turn", row.engine, row.engine, new)
    /\ UNCHANGED <<row, job, copy, handle, imports, task, api, crashes>>

(* The engine's 404 stops only the bulk variant. *)
StatusTurn(r) ==
    LET e == req[r].src IN
    /\ req[r].pc \in {"turn", "bulk_turn"}
    /\ \/ /\ handle[e] # "none" \/ req[r].pc = "turn"
          /\ handle' = Turned(e, IF req[r].new = "paused" THEN "paused" ELSE "active")
          /\ Advance(r, "set_status")
       \/ /\ "turn" \in MayFail \/ (handle[e] = "none" /\ req[r].pc = "bulk_turn")
          /\ Reply(r)
          /\ UNCHANGED handle
    /\ UNCHANGED <<row, job, copy, imports, task, api, crashes>>

(* The write at the end of the request; the ORM writes only a change to    *)
(* what the request read.                                                  *)
SetStatus(r) ==
    /\ req[r].pc = "set_status"
    /\ row' = IF req[r].new = req[r].old THEN row ELSE WithStatus(req[r].new)
    /\ Reply(r)
    /\ UNCHANGED <<job, copy, handle, imports, task, api, crashes>>

(* snapshot_once: rows are read, the engines asked, statuses written.      *)
SyncRead(r) ==
    /\ "sync" \in Ops
    /\ row.exists
    /\ row.status \notin Moving
    /\ Accept(r, "sync", row.engine, row.engine, row.status)
    /\ UNCHANGED <<row, job, copy, handle, imports, task, api, crashes>>

SyncAsk(r) ==
    /\ req[r].pc = "sync"
    /\ IF handle[req[r].src] = "none" THEN Reply(r)
       ELSE req' = [req EXCEPT ![r].pc = "set_status",
                       ![r].new = IF handle[req[r].src] = "paused"
                                  THEN "paused" ELSE "seeding"]
    /\ UNCHANGED <<row, job, copy, handle, imports, task, api, crashes>>

RequestStarts(r) ==
    \/ \E dst \in Engines : MigrateCheck(r, dst)
    \/ ResumeCheck(r) \/ CancelRead(r) \/ DeleteCheck(r) \/ BulkDeleteCheck(r)
    \/ \E new \in {"paused", "downloading"} : StatusCheck(r, new)
    \/ SyncRead(r)

RequestStep(r) ==
    \/ MigrateAsk(r) \/ MigrateCommit(r) \/ ResumeCommit(r)
    \/ CancelWipe(r) \/ CancelResume(r) \/ CancelDrop(r)
    \/ \E wipe \in BOOLEAN : DeleteRemove(r, wipe)
    \/ DeleteRefused(r) \/ DeleteCommit(r)
    \/ StatusTurn(r) \/ SetStatus(r) \/ SyncAsk(r)

-----------------------------------------------------------------------------
(* The API process dies: tasks and requests are gone, the engines and the  *)
(* database are not, and neither are imports under way on an engine.       *)
Crash ==
    /\ crashes < MaxCrashes
    /\ crashes' = crashes + 1
    /\ api' = "down"
    /\ task' = [t \in Tasks |-> Idle]
    /\ req' = [r \in Requests |-> NoReq]
    /\ UNCHANGED <<row, job, copy, handle, imports>>

(* recover_orphaned_migrations, first transaction: delete_stale_failed. *)
DropStale ==
    /\ api = "down"
    /\ job' = IF /\ job.state = "failed" /\ row.exists
                 /\ row.engine = job.dst /\ row.status \notin Moving
              THEN NoJob ELSE job
    /\ api' = "recover"
    /\ UNCHANGED <<row, copy, handle, imports, task, req, crashes>>

(* A running job is marked failed, then running and queued jobs start again. *)
Recover ==
    /\ api = "recover"
    /\ job' = IF job.state = "running" THEN WithJobState("failed") ELSE job
    /\ IF job.state \in {"running", "queued"} THEN Launch(job.src, job.dst)
       ELSE UNCHANGED task
    /\ api' = "up"
    /\ UNCHANGED <<row, copy, handle, imports, req, crashes>>

Next ==
    \/ \E t \in Tasks : TaskStep(t)
    \/ \E i \in imports : ImportDone(i) \/ ImportFails(i)
    \/ \E r \in Requests : RequestStarts(r) \/ RequestStep(r)
    \/ Crash \/ DropStale \/ Recover

Spec == Init /\ [][Next]_vars

(* The event loop runs every task and request that can run, engine calls   *)
(* have timeouts, the database grants a row lock to those who wait for it  *)
(* in turn, and a crashed API process is restarted by its container.       *)
FairSpec ==
    /\ Spec
    /\ \A t \in Tasks : WF_vars(TaskStep(t)) /\ SF_vars(WriteJob(t))
    /\ \A r \in Requests : WF_vars(RequestStep(r))
    /\ \A s, d \in Engines : WF_vars(ImportDone(<<s, d>>) \/ ImportFails(<<s, d>>))
    /\ WF_vars(DropStale) /\ WF_vars(Recover)

-----------------------------------------------------------------------------
(* Properties. *)

Content == {"none", "partial", "full"}
JobStates == {"none", "queued", "running", "failed"}

(* The values every variable keeps to. *)
TypeOK ==
    /\ row \in [exists : BOOLEAN, engine : Engines, status : Statuses]
    /\ job \in [state : JobStates, src : Engines, dst : Engines]
    /\ copy \in [Engines -> Content]
    /\ handle \in [Engines -> {"none", "active", "paused"}]
    /\ imports \subseteq Engines \X Engines
    /\ task \in [Tasks -> [pc : Steps, src : Engines, dst : Engines]]
    /\ req \in [Requests -> [pc : ReqSteps, src : Engines, dst : Engines,
                             old : Statuses, new : Statuses]]
    /\ api \in {"up", "down", "recover"}
    /\ crashes \in 0..MaxCrashes

(* "The source content is deleted only after the target confirmed a full   *)
(* copy" (torrents.py, migrate): as long as the torrent is registered some *)
(* engine has all of it.                                                   *)
ContentKept == row.exists => \E e \in Engines : copy[e] = "full"

(* The engine named in the torrents row, where users are sent, has all of  *)
(* the content: the row never moves to an engine before the copy is whole, *)
(* nor is the engine wiped that the row still names, whenever the API dies *)
(* and whatever its recovery repeats.                                      *)
RowServed == row.exists => copy[row.engine] = "full"

(* The transfer is a Placement: an engine joins those that have the torrent *)
(* with all content when its import is through, the row moves only to one  *)
(* of them, and none leaves them while the row names it (_commit_switch    *)
(* before the cleanup, and the wait for the check before both).            *)
Holders == {e \in Engines : copy[e] = "full" /\ handle[e] # "none"}

Abstract == INSTANCE Placement WITH First <- Home, home <- row.engine, holders <- Holders

ImplementsPlacement == Abstract!Spec

(* A torrent shown as queued or migrating has a task that will move it on, *)
(* or a job that the recovery after a restart picks up; with neither it    *)
(* can be migrated, paused and resumed no more (409).                      *)
NeverStranded ==
    row.exists /\ row.status \in Moving =>
        \/ \E t \in Tasks : task[t].pc # "idle"
        \/ job.state \in {"queued", "running"}

(* A job that waits or runs, for which /migrate/resume answers 409, has a  *)
(* task that will settle it, except until the restarted API recovers it.   *)
JobHasTask ==
    job.state \in {"queued", "running"} =>
        \/ api # "up"
        \/ \E t \in Tasks : task[t].pc # "idle"

Quiet == /\ api = "up"
         /\ imports = {}
         /\ \A t \in Tasks : task[t].pc = "idle"
         /\ \A r \in Requests : req[r].pc = "idle"

(* "The source is paused while it is copied; that is no pause of the user" *)
(* (WORK_QUEUES.md): when all is at rest a torrent shown as seeding is     *)
(* active on its engine, however its transfers ended.                      *)
PauseIsTemporary ==
    Quiet /\ row.exists /\ row.status = "seeding" => handle[row.engine] = "active"

(* "migrating is left alone: it lasts until the end of the transfer"       *)
(* (runtime_snapshot.py): only a task, or the torrent's deletion, ends it. *)
MigratingHolds ==
    [][row.status = "migrating" /\ row'.status # "migrating" =>
          task' # task \/ ~row'.exists]_vars

(* Every queued or migrating torrent leaves that status or is deleted.     *)
TransferEnds == row.status \in Moving ~> (row.status \notin Moving \/ ~row.exists)
=============================================================================
