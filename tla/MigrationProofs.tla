--------------------------- MODULE MigrationProofs ---------------------------
(***************************************************************************)
(* What holds of a transfer for every set of engines, tasks, requests and  *)
(* operations, every choice of failing calls and any number of crashes:    *)
(* the types, and that no queued or running job is left without a task.    *)
(* And what holds as long as transfers do not overlap: the engine of the   *)
(* row has the content, no torrent is stranded, a pause for the copy ends. *)
(***************************************************************************)
EXTENDS Migration, TLAPS

(* The steps of a task whose job _still_queued has accepted. *)
Started == Steps \ {"idle", "persist", "slot"}

(* JobHasTask is not inductive: a task that waits for its slot gives up    *)
(* when the job runs already, so the one that runs it must be another.     *)
Owned ==
    api = "up" =>
        /\ job.state = "queued" => \E t \in Tasks : task[t].pc # "idle"
        /\ job.state = "running" => \E t \in Tasks : task[t].pc \in Started

IInv == TypeOK /\ Owned

-----------------------------------------------------------------------------
(* The records of a task and of a request. *)
Task == [pc : Steps, src : Engines, dst : Engines]
Request == [pc : ReqSteps, src : Engines, dst : Engines, old : Statuses, new : Statuses]

(* The initial state has the types.                                        *)
LEMMA InitType == Init => TypeOK
  BY MigrationAssumption
  DEF Init, TypeOK, NoJob, Idle, NoReq, Statuses, Moving, Steps, ReqSteps,
      Content, JobStates

(* What a task's step does to its record. *)
LEMMA GoType ==
  ASSUME TypeOK, NEW t \in Tasks, NEW step \in Steps, Go(t, step)
  PROVE  task' \in [Tasks -> Task]
  BY DEF TypeOK, Go, Task

(* A task that ends is idle again.                                         *)
LEMMA DoneType ==
  ASSUME TypeOK, NEW t \in Tasks, Done(t)
  PROVE  task' \in [Tasks -> Task]
  BY MigrationAssumption DEF TypeOK, Done, Task, Idle, Steps

(* A launched task has a task's record.                                    *)
LEMMA LaunchType ==
  ASSUME TypeOK, NEW s \in Engines, NEW d \in Engines, Launch(s, d)
  PROVE  task' \in [Tasks -> Task]
  BY DEF TypeOK, Launch, Task, Steps

(* Writing a status keeps the row's type.                                  *)
LEMMA RowType ==
  ASSUME TypeOK, NEW s \in Statuses
  PROVE  WithStatus(s) \in [exists : BOOLEAN, engine : Engines, status : Statuses]
  BY DEF TypeOK, WithStatus

(* Every write to the job keeps its type.                                  *)
LEMMA JobType ==
  ASSUME TypeOK, NEW s \in {"queued", "running", "failed"}
  PROVE  /\ WithJobState(s) \in [state : JobStates, src : Engines, dst : Engines]
         /\ \A t \in Tasks : Job(s, task[t]) \in
                                 [state : JobStates, src : Engines, dst : Engines]
         /\ NoJob \in [state : JobStates, src : Engines, dst : Engines]
  BY MigrationAssumption DEF TypeOK, WithJobState, Job, NoJob, JobStates

(* Pausing and resuming keep the type of the handles.                      *)
LEMMA TurnType ==
  ASSUME TypeOK, NEW e \in Engines, NEW mode \in {"active", "paused"}
  PROVE  /\ Turned(e, mode) \in [Engines -> {"none", "active", "paused"}]
         /\ TryTurn(e, mode) => handle' \in [Engines -> {"none", "active", "paused"}]
  BY DEF TypeOK, Turned, TryTurn

(* Wiping keeps the types of copies and handles.                           *)
LEMMA WipeType ==
  ASSUME TypeOK, NEW e \in Engines, TryWipe(e)
  PROVE  /\ copy' \in [Engines -> Content]
         /\ handle' \in [Engines -> {"none", "active", "paused"}]
  BY DEF TypeOK, TryWipe, Content

(* The engines of a task are engines.                                      *)
LEMMA TaskEnds ==
  ASSUME TypeOK, NEW t \in Tasks
  PROVE  task[t] \in Task /\ task[t].src \in Engines /\ task[t].dst \in Engines
  BY DEF TypeOK, Task

(* What a request remembers has its type.                                  *)
LEMMA RequestEnds ==
  ASSUME TypeOK, NEW r \in Requests
  PROVE  /\ req[r].src \in Engines /\ req[r].dst \in Engines
         /\ req[r].old \in Statuses /\ req[r].new \in Statuses
  BY DEF TypeOK

(* What a request's step does to its record. *)
LEMMA AcceptType ==
  ASSUME TypeOK, NEW r \in Requests, NEW step \in ReqSteps, NEW s \in Engines,
         NEW d \in Engines, NEW new \in Statuses, Accept(r, step, s, d, new)
  PROVE  req' \in [Requests -> Request]
  BY DEF TypeOK, Accept, Request

(* A request that goes on keeps its record's type.                         *)
LEMMA AdvanceType ==
  ASSUME TypeOK, NEW r \in Requests, NEW step \in ReqSteps, Advance(r, step)
  PROVE  req' \in [Requests -> Request]
  BY DEF TypeOK, Advance, Request

(* A request that is answered is idle again.                               *)
LEMMA ReplyType ==
  ASSUME TypeOK, NEW r \in Requests, Reply(r)
  PROVE  req' \in [Requests -> Request]
  BY MigrationAssumption
  DEF TypeOK, Reply, Request, NoReq, ReqSteps, Statuses, Moving

-----------------------------------------------------------------------------
(* Type correctness, step by step. *)

LEMMA WriteJobType ==
  ASSUME TypeOK, NEW t \in Tasks, WriteJob(t)
  PROVE  TypeOK'
<1>1. CASE Persist(t)
  BY <1>1, GoType, JobType, RowType
  DEF TypeOK, Persist, Steps, Statuses, Moving, Task
<1>2. CASE Upsert(t)
  BY <1>2, GoType, JobType DEF TypeOK, Upsert, Steps, Task
<1>3. CASE MarkCopying(t)
  BY <1>3, GoType, JobType DEF TypeOK, MarkCopying, Steps, Task
<1>4. CASE Unjob(t)
  BY <1>4, DoneType, JobType DEF TypeOK, Unjob, Task
<1>5. CASE FailJob(t)
  BY <1>5, DoneType, JobType DEF TypeOK, FailJob, Task
<1> QED BY <1>1, <1>2, <1>3, <1>4, <1>5 DEF WriteJob

(* The task's steps.                                                       *)
LEMMA TaskStepType ==
  ASSUME TypeOK, NEW t \in Tasks, TaskStep(t)
  PROVE  TypeOK'
<1>1. CASE WriteJob(t)
  BY <1>1, WriteJobType
<1>2. CASE GetSlot(t)
  BY <1>2, GoType, DoneType DEF TypeOK, GetSlot, Steps, Task
<1>3. CASE Begin(t)
  BY <1>3, GoType, RowType DEF TypeOK, Begin, Steps, Statuses, Moving, Task
<1>4. CASE Fetch(t)
  BY <1>4, GoType DEF TypeOK, Fetch, Steps, Task
<1>5. CASE PauseSource(t)
  BY <1>5, GoType, TurnType, TaskEnds DEF TypeOK, PauseSource, Steps, Task
<1>6. CASE SendImport(t)
  <2>1. task' \in [Tasks -> Task]
    BY <1>6, GoType DEF SendImport, Steps
  <2>2. copy' \in [Engines -> Content] /\ imports' \subseteq Engines \X Engines
    BY <1>6, TaskEnds DEF SendImport, TypeOK, Content
  <2> QED BY <1>6, <2>1, <2>2 DEF SendImport, TypeOK, Task
<1>7. CASE LoseImport(t)
  BY <1>7, GoType DEF TypeOK, LoseImport, Steps, Task
<1>8. CASE VerifyFull(t) \/ VerifyShort(t)
  BY <1>8, GoType DEF TypeOK, VerifyFull, VerifyShort, Steps, Task
<1>9. CASE Switch(t)
  <2>1. row' \in [exists : BOOLEAN, engine : Engines, status : Statuses]
    BY <1>9, TaskEnds DEF Switch, TypeOK, Statuses
  <2> QED BY <1>9, <2>1, GoType DEF TypeOK, Switch, Steps, Task
<1>10. CASE Cleanup(t)
  BY <1>10, GoType, WipeType, TaskEnds DEF TypeOK, Cleanup, Steps, Task
<1>11. CASE FailResume(t)
  BY <1>11, GoType, TurnType, TaskEnds DEF TypeOK, FailResume, Steps, Task
<1>12. CASE FailStatus(t)
  BY <1>12, GoType, RowType DEF TypeOK, FailStatus, Steps, Statuses, Task
<1> QED BY <1>1, <1>2, <1>3, <1>4, <1>5, <1>6, <1>7, <1>8, <1>9, <1>10, <1>11,
           <1>12 DEF TaskStep

(* The import's steps.                                                     *)
LEMMA ImportType ==
  ASSUME TypeOK, NEW i \in imports, ImportDone(i) \/ ImportFails(i)
  PROVE  TypeOK'
<1>1. i[2] \in Engines
  BY DEF TypeOK
<1>2. \A step \in {"verify", "f_resume"} : Answered(i, step) \in [Tasks -> Task]
  BY DEF TypeOK, Answered, Task, Steps
<1>3. CASE ImportDone(i)
  BY <1>1, <1>2, <1>3 DEF ImportDone, Copied, TypeOK, Task, Content
<1>4. CASE ImportFails(i)
  BY <1>2, <1>4 DEF ImportFails, TypeOK, Task
<1> QED BY <1>3, <1>4

(* A request's first step.                                                 *)
LEMMA RequestStartsType ==
  ASSUME TypeOK, NEW r \in Requests, RequestStarts(r)
  PROVE  TypeOK'
<1>1. /\ row.engine \in Engines /\ row.status \in Statuses
      /\ job.src \in Engines /\ job.dst \in Engines
      /\ {"seeding", "paused", "downloading", "migrate_queued"} \subseteq Statuses
  BY DEF TypeOK, Statuses, Moving
<1>2. CASE \E dst \in Engines : MigrateCheck(r, dst)
  BY <1>1, <1>2, AcceptType DEF MigrateCheck, TypeOK, ReqSteps, Request
<1>3. CASE ResumeCheck(r)
  BY <1>1, <1>3, AcceptType DEF ResumeCheck, TypeOK, ReqSteps, Request
<1>4. CASE CancelRead(r)
  BY <1>1, <1>4, AcceptType DEF CancelRead, TypeOK, ReqSteps, Request
<1>5. CASE DeleteCheck(r)
  BY <1>1, <1>5, AcceptType DEF DeleteCheck, TypeOK, ReqSteps, Request
<1>6. CASE BulkDeleteCheck(r)
  BY <1>1, <1>6, AcceptType DEF BulkDeleteCheck, TypeOK, ReqSteps, Request
<1>7. CASE \E new \in {"paused", "downloading"} : StatusCheck(r, new)
  BY <1>1, <1>7, AcceptType DEF StatusCheck, TypeOK, ReqSteps, Request
<1>8. CASE SyncRead(r)
  BY <1>1, <1>8, AcceptType DEF SyncRead, TypeOK, ReqSteps, Request
<1> QED BY <1>2, <1>3, <1>4, <1>5, <1>6, <1>7, <1>8 DEF RequestStarts

(* A request's other steps.                                                *)
LEMMA RequestStepType ==
  ASSUME TypeOK, NEW r \in Requests, RequestStep(r)
  PROVE  TypeOK'
<1>1. CASE MigrateAsk(r)
  BY <1>1, AdvanceType, ReplyType DEF MigrateAsk, TypeOK, ReqSteps, Request
<1>2. CASE MigrateCommit(r)
  BY <1>2, ReplyType, RowType, LaunchType, RequestEnds
  DEF MigrateCommit, TypeOK, Statuses, Moving, Request, Task
<1>3. CASE ResumeCommit(r)
  BY <1>3, ReplyType, RowType, LaunchType, RequestEnds
  DEF ResumeCommit, TypeOK, Statuses, Moving, Request, Task
<1>4. CASE CancelWipe(r)
  BY <1>4, AdvanceType, WipeType, RequestEnds
  DEF CancelWipe, TypeOK, ReqSteps, Request
<1>5. CASE CancelResume(r)
  BY <1>5, AdvanceType, TurnType, RequestEnds
  DEF CancelResume, TypeOK, ReqSteps, Request
<1>6. CASE CancelDrop(r)
  BY <1>6, ReplyType, RowType, JobType
  DEF CancelDrop, TypeOK, Statuses, Request
<1>7. CASE \E wipe \in BOOLEAN : DeleteRemove(r, wipe)
  <2>1. req' \in [Requests -> Request]
    BY <1>7, AdvanceType DEF DeleteRemove, ReqSteps
  <2>2. /\ copy' \in [Engines -> Content]
        /\ handle' \in [Engines -> {"none", "active", "paused"}]
    BY <1>7 DEF DeleteRemove, TypeOK, Content
  <2> QED BY <1>7, <2>1, <2>2 DEF DeleteRemove, TypeOK, Request
<1>8. CASE DeleteRefused(r)
  BY <1>8, ReplyType DEF DeleteRefused, TypeOK, Request
<1>9. CASE DeleteCommit(r)
  <2>1. \A t \in Tasks :
          task[t].pc \in {"persist", "upsert", "mark", "unjob", "f_job"} =>
              Overtaken(t) \in Task
    BY MigrationAssumption, TaskEnds DEF Overtaken, Task, Idle, Steps
  <2>2. task' \in [Tasks -> Task]
    BY <1>9, <2>1, TaskEnds DEF DeleteCommit, TypeOK, Task
  <2>3. row' \in [exists : BOOLEAN, engine : Engines, status : Statuses]
    BY <1>9 DEF DeleteCommit, TypeOK
  <2>4. job' \in [state : JobStates, src : Engines, dst : Engines]
    BY <1>9, JobType DEF DeleteCommit, TypeOK
  <2> QED BY <1>9, <2>2, <2>3, <2>4, ReplyType
          DEF DeleteCommit, TypeOK, Request, Task
<1>10. CASE StatusTurn(r)
  BY <1>10, AdvanceType, ReplyType, TurnType, RequestEnds
  DEF StatusTurn, TypeOK, ReqSteps, Request
<1>11. CASE SetStatus(r)
  BY <1>11, ReplyType, RowType, RequestEnds DEF SetStatus, TypeOK, Request
<1>12. CASE SyncAsk(r)
  <2>1. CASE handle[req[r].src] = "none"
    BY <1>12, <2>1, ReplyType DEF SyncAsk, TypeOK, Request
  <2>2. CASE handle[req[r].src] # "none"
    <3>1. req' \in [Requests -> Request]
      BY <1>12, <2>2 DEF SyncAsk, TypeOK, Request, ReqSteps, Statuses
    <3> QED BY <1>12, <3>1 DEF SyncAsk, TypeOK, Request
  <2> QED BY <2>1, <2>2
<1> QED BY <1>1, <1>2, <1>3, <1>4, <1>5, <1>6, <1>7, <1>8, <1>9, <1>10, <1>11,
           <1>12 DEF RequestStep

(* The crash and the recovery.                                             *)
LEMMA CrashType ==
  ASSUME TypeOK, Crash \/ DropStale \/ Recover
  PROVE  TypeOK'
<1>1. CASE Crash
  BY <1>1, MigrationAssumption
  DEF Crash, TypeOK, Idle, Steps, NoReq, ReqSteps, Statuses
<1>2. CASE DropStale
  BY <1>2, JobType DEF DropStale, TypeOK
<1>3. CASE Recover
  <2>1. job.src \in Engines /\ job.dst \in Engines
    BY DEF TypeOK
  <2> QED BY <1>3, <2>1, JobType, LaunchType DEF Recover, TypeOK, Task
<1> QED BY <1>1, <1>2, <1>3

(* Any step.                                                               *)
LEMMA StepType ==
  ASSUME TypeOK, [Next]_vars
  PROVE  TypeOK'
<1>1. CASE UNCHANGED vars
  BY <1>1 DEF vars, TypeOK
<1> QED BY <1>1, TaskStepType, ImportType, RequestStartsType, RequestStepType,
           CrashType DEF Next

(* Every variable of a transfer keeps to its values.                       *)
THEOREM TypeCorrect == Spec => []TypeOK
<1> QED BY InitType, StepType, PTL DEF Spec

-----------------------------------------------------------------------------
(* Jobs and their tasks. *)

(* No task ends, and none falls back before its slot. *)
Kept == \A t \in Tasks : /\ task[t].pc # "idle" => task'[t].pc # "idle"
                         /\ task[t].pc \in Started => task'[t].pc \in Started

(* A step that keeps the tasks and the job keeps Owned.                    *)
LEMMA KeptOwned ==
  ASSUME Owned, Kept, UNCHANGED <<job, api>>
  PROVE  Owned'
  BY DEF Owned, Kept

(* A task that has its slot goes on.                                       *)
LEMMA GoKept ==
  ASSUME TypeOK, NEW t \in Tasks, NEW step \in Started, Go(t, step)
  PROVE  Kept
  BY DEF TypeOK, Go, Kept, Started

(* A launch disturbs no other task.                                        *)
LEMMA LaunchKept ==
  ASSUME TypeOK, NEW s, NEW d, Launch(s, d)
  PROVE  Kept
  BY DEF TypeOK, Launch, Kept, Started

(* Owned under a task's steps.                                             *)
LEMMA TaskStepOwned ==
  ASSUME TypeOK, Owned, NEW t \in Tasks, TaskStep(t)
  PROVE  Owned'
<1>1. CASE Persist(t)
  <2>1. job'.state = "queued" /\ task'[t].pc = "slot"
    BY <1>1 DEF Persist, Job, Go, TypeOK
  <2> QED BY <2>1 DEF Owned
<1>2. CASE Upsert(t)
  <2>1. job'.state = "running" /\ task'[t].pc = "fetch"
    BY <1>2 DEF Upsert, Job, Go, TypeOK
  <2> QED BY <2>1 DEF Owned, Started, Steps
<1>3. CASE MarkCopying(t)
  <2>1. task'[t].pc = "send"
    BY <1>3 DEF MarkCopying, Go, TypeOK
  <2> QED BY <2>1 DEF Owned, Started, Steps
<1>4. CASE Unjob(t)
  <2>1. job'.state = "none"
    BY <1>4 DEF Unjob, NoJob
  <2> QED BY <2>1 DEF Owned
<1>5. CASE FailJob(t)
  <2>1. job'.state \in {"none", "failed"}
    BY <1>5 DEF FailJob, WithJobState, TypeOK
  <2> QED BY <2>1 DEF Owned
<1>6. CASE GetSlot(t)
  <2>1. CASE job.state = "queued"
    BY <1>6, <2>1, GoKept, KeptOwned DEF GetSlot, Started, Steps
  <2>2. CASE job.state # "queued"
    (* another task runs the job, if it runs *)
    <3>1. \A u \in Tasks : task[u].pc \in Started => task'[u].pc \in Started
      BY <1>6, <2>2 DEF GetSlot, Done, TypeOK, Started
    <3>2. job' = job /\ api' = api
      BY <1>6 DEF GetSlot
    <3> QED BY <2>2, <3>1, <3>2 DEF Owned
  <2> QED BY <2>1, <2>2
<1>7. CASE \/ Begin(t) \/ Fetch(t) \/ PauseSource(t) \/ SendImport(t)
           \/ LoseImport(t) \/ VerifyFull(t) \/ VerifyShort(t) \/ Switch(t)
           \/ Cleanup(t) \/ FailResume(t) \/ FailStatus(t)
  <2>1. \E step \in Started : Go(t, step)
    BY <1>7 DEF Begin, Fetch, PauseSource, SendImport, LoseImport, VerifyFull,
                VerifyShort, Switch, Cleanup, FailResume, FailStatus, Started, Steps
  <2>2. UNCHANGED <<job, api>>
    BY <1>7 DEF Begin, Fetch, PauseSource, SendImport, LoseImport, VerifyFull,
                VerifyShort, Switch, Cleanup, FailResume, FailStatus
  <2> QED BY <2>1, <2>2, GoKept, KeptOwned
<1> QED BY <1>1, <1>2, <1>3, <1>4, <1>5, <1>6, <1>7 DEF TaskStep, WriteJob

(* Owned under the import's steps.                                         *)
LEMMA ImportOwned ==
  ASSUME TypeOK, Owned, NEW i \in imports, ImportDone(i) \/ ImportFails(i)
  PROVE  Owned'
<1>1. \A step \in {"verify", "f_resume"} : task' = Answered(i, step) => Kept
  BY DEF TypeOK, Answered, Kept, Started, Steps
<1>2. Kept /\ UNCHANGED <<job, api>>
  BY <1>1 DEF ImportDone, ImportFails
<1> QED BY <1>2, KeptOwned

(* Owned under a request's steps.                                          *)
LEMMA RequestOwned ==
  ASSUME TypeOK, Owned, NEW r \in Requests, RequestStarts(r) \/ RequestStep(r)
  PROVE  Owned'
<1>1. CASE CancelDrop(r)
  <2>1. job'.state = "none"
    BY <1>1 DEF CancelDrop, NoJob
  <2> QED BY <2>1 DEF Owned
<1>2. CASE DeleteCommit(r)
  <2>1. CASE req[r].pc = "delete_row_job"
    <3>1. job'.state = "none"
      BY <1>2, <2>1 DEF DeleteCommit, NoJob
    <3> QED BY <3>1 DEF Owned
  <2>2. CASE req[r].pc # "delete_row_job"
    BY <1>2, <2>2 DEF DeleteCommit, Owned
  <2> QED BY <2>1, <2>2
<1>3. CASE MigrateCommit(r) \/ ResumeCommit(r)
  <2>1. Kept
    BY <1>3, LaunchKept DEF MigrateCommit, ResumeCommit, Kept
  <2> QED BY <1>3, <2>1, KeptOwned DEF MigrateCommit, ResumeCommit
<1>4. CASE UNCHANGED <<job, api, task>>
  BY <1>4 DEF Owned
<1>5. RequestStarts(r) => UNCHANGED <<job, api, task>>
  BY DEF RequestStarts, MigrateCheck, ResumeCheck, CancelRead, DeleteCheck,
         BulkDeleteCheck, StatusCheck, SyncRead
<1>6. RequestStep(r) =>
        \/ CancelDrop(r) \/ DeleteCommit(r) \/ MigrateCommit(r) \/ ResumeCommit(r)
        \/ UNCHANGED <<job, api, task>>
  BY DEF RequestStep, MigrateAsk, CancelWipe, CancelResume, DeleteRemove,
         DeleteRefused, StatusTurn, SetStatus, SyncAsk
<1> QED BY <1>1, <1>2, <1>3, <1>4, <1>5, <1>6

(* Owned under the crash and the recovery.                                 *)
LEMMA CrashOwned ==
  ASSUME TypeOK, Owned, Crash \/ DropStale \/ Recover
  PROVE  Owned'
<1>1. CASE Crash
  BY <1>1 DEF Crash, Owned
<1>2. CASE DropStale
  BY <1>2 DEF DropStale, Owned
<1>3. CASE Recover
  <2>1. CASE job.state = "running"
    <3>1. job'.state = "failed"
      BY <1>3, <2>1 DEF Recover, WithJobState, TypeOK
    <3> QED BY <3>1 DEF Owned
  <2>2. CASE job.state = "queued"
    <3>1. \E t \in Tasks : task'[t].pc = "persist"
      BY <1>3, <2>2 DEF Recover, Launch, TypeOK
    <3>2. job' = job
      BY <1>3, <2>2 DEF Recover
    <3> QED BY <2>2, <3>1, <3>2 DEF Owned
  <2>3. CASE job.state \notin {"running", "queued"}
    BY <1>3, <2>3 DEF Recover, Owned
  <2> QED BY <2>1, <2>2, <2>3
<1> QED BY <1>1, <1>2, <1>3

(* The invariant is inductive.                                             *)
LEMMA StepOwned ==
  ASSUME IInv, [Next]_vars
  PROVE  IInv'
<1>1. TypeOK'
  BY StepType DEF IInv
<1>2. Owned'
  <2>1. CASE UNCHANGED vars
    BY <2>1 DEF vars, Owned, IInv
  <2> QED BY <2>1, TaskStepOwned, ImportOwned, RequestOwned, CrashOwned
          DEF Next, IInv
<1> QED BY <1>1, <1>2 DEF IInv

(* A queued or running job has a task as soon as the API serves again,     *)
(* whatever the requests, failures and crashes before: /migrate/resume     *)
(* refuses no transfer that nobody works on.                               *)
THEOREM JobsHaveTasks == Spec => []JobHasTask
<1>1. Init => IInv
  BY InitType DEF Init, IInv, Owned, NoJob
<1>2. IInv => JobHasTask
  BY DEF IInv, Owned, JobHasTask, Started, TypeOK, JobStates
<1> QED BY <1>1, <1>2, StepOwned, PTL DEF Spec
-----------------------------------------------------------------------------
(* Transfers that do not overlap.  The code lets a second transfer of a    *)
(* torrent be accepted before the first is through, and then promises      *)
(* less; the theorems below are about the behaviours without that.         *)
OneTransfer == \A t, u \in Tasks : task[t].pc # "idle" /\ task[u].pc # "idle" => t = u

(* The requests after which an engine loses its copy: without them only    *)
(* the end of a transfer removes one.                                      *)
Wiping == {"cancel", "delete", "bulk_delete"}
WipeSteps == {"cancel_queued", "cancel", "cancel_resume", "cancel_drop",
              "delete", "delete_queued", "delete_row", "delete_row_job"}

(* RowServed is not inductive: that the cleanup spares the engine of the   *)
(* row needs two different ends, remembered by job, request and task, and  *)
(* that what was verified is still there at the switch.                    *)
TwoEnds ==
    /\ job.state # "none" => job.src # job.dst
    /\ \A t \in Tasks : task[t].pc # "idle" => task[t].src # task[t].dst
    /\ \A r \in Requests : req[r].pc \in {"migrate", "migrate_commit", "resume"}
                               => req[r].src # req[r].dst

NobodyWipes == row.exists /\ \A r \in Requests : req[r].pc \notin WipeSteps

Served ==
    /\ copy[row.engine] = "full"
    /\ \A t \in Tasks : /\ task[t].pc = "switch" => copy[task[t].dst] = "full"
                        /\ task[t].pc = "cleanup" => row.engine = task[t].dst

ServedInv == TypeOK /\ TwoEnds /\ NobodyWipes /\ Served

(* NeverStranded is not inductive: a task that gives up at its slot, or is *)
(* past the end of the transfer, is no task that moves the torrent on.     *)
Moved ==
    row.exists /\ row.status \in Moving =>
        \E t \in Tasks : /\ task[t].pc \notin {"idle", "cleanup", "unjob", "f_job"}
                         /\ task[t].pc = "slot" => job.state = "queued"

(* No request but a transfer writes a status of a transfer.                *)
NoMove ==
    \A r \in Requests : req[r].pc \in {"turn", "bulk_turn", "sync", "set_status"}
                            => req[r].new \notin Moving

MovedInv == TypeOK /\ NoMove /\ (crashes = 0 => api = "up" /\ Moved)

(* What keeps a pause temporary: the task that paused the source is on its *)
(* way to the switch or to the resume; or the process died and its job is  *)
(* about to start again, or has.  A second crash may come before the job   *)
(* says so again.                                                          *)
Quits == {"mark", "send", "await", "verify", "switch", "f_resume"}
Restarting == {"persist", "slot", "begin", "upsert", "fetch", "pause"}
WillResume ==
    \/ \E t \in Tasks : task[t].src = row.engine /\ task[t].pc \in Quits
    \/ crashes = 1 /\ \/ api # "up" /\ job.state = "running" /\ job.src = row.engine
                      \/ \E t \in Tasks : task[t].src = row.engine /\ task[t].pc \in Restarting

(* The job of a task: queued until the slot is there, running until the    *)
(* end; nobody else writes it.                                             *)
JobFollows ==
    \A t \in Tasks :
        /\ task[t].pc = "slot" => job.state = "queued"
        /\ task[t].pc \in {"fetch", "pause"} \union Quits => job.state = "running" /\ job.src = task[t].src

(* After a crash nothing runs until the recovery is through.               *)
Down ==
    /\ api # "up" => /\ \A t \in Tasks : task[t].pc = "idle"
                     /\ \A r \in Requests : req[r].pc = "idle"
    /\ crashes = 0 => api = "up"

(* No request pauses or resumes on the user's behalf.                      *)
NobodyTurns == \A r \in Requests : req[r].pc \notin {"turn", "bulk_turn"}

Resumed ==
    /\ handle[row.engine] = "active"
          \/ (handle[row.engine] = "paused" /\ (crashes <= 1 => WillResume))
    /\ \A t \in Tasks : task[t].pc \in {"verify", "switch"} => handle[task[t].dst] = "active"

ResumedInv == ServedInv /\ JobFollows /\ Down /\ NobodyTurns /\ Resumed

(* A task that goes on keeps its two engines; no other task is touched.    *)
LEMMA GoMoves ==
  ASSUME TypeOK, NEW t \in Tasks, NEW step, Go(t, step)
  PROVE  /\ task'[t].pc = step /\ task'[t].src = task[t].src /\ task'[t].dst = task[t].dst
         /\ \A u \in Tasks : u # t => task'[u] = task[u]
  BY DEF TypeOK, Go

(* A task that ends touches no other one either.                           *)
LEMMA DoneMoves ==
  ASSUME TypeOK, NEW t \in Tasks, Done(t)
  PROVE  task'[t].pc = "idle" /\ \A u \in Tasks : u # t => task'[u] = task[u]
  BY DEF TypeOK, Done, Idle

(* A launch turns one idle task into a new one.                            *)
LEMMA LaunchMoves ==
  ASSUME TypeOK, NEW s, NEW d, Launch(s, d)
  PROVE  \E t \in Tasks :
           /\ task[t].pc = "idle"
           /\ task'[t] = [pc |-> "persist", src |-> s, dst |-> d]
           /\ \A u \in Tasks : u # t => task'[u] = task[u]
  BY DEF TypeOK, Launch

(* Every step of a task either goes on or ends it, and leaves the requests *)
(* alone.                                                                  *)
LEMMA TaskStepMoves ==
  ASSUME TypeOK, NEW t \in Tasks, TaskStep(t)
  PROVE  /\ task[t].pc # "idle"
         /\ Done(t) \/ \E step \in Steps \ {"idle"} : Go(t, step)
         /\ UNCHANGED <<req, api, crashes>>
<1>1. CASE WriteJob(t)
  BY <1>1 DEF WriteJob, Persist, Upsert, MarkCopying, Unjob, FailJob, Steps
<1>2. CASE GetSlot(t) \/ Begin(t) \/ Fetch(t) \/ PauseSource(t) \/ SendImport(t)
  BY <1>2 DEF GetSlot, Begin, Fetch, PauseSource, SendImport, Steps
<1>3. CASE \/ LoseImport(t) \/ VerifyFull(t) \/ VerifyShort(t) \/ Switch(t)
           \/ Cleanup(t) \/ FailResume(t) \/ FailStatus(t)
  BY <1>3 DEF LoseImport, VerifyFull, VerifyShort, Switch, Cleanup, FailResume,
              FailStatus, Steps
<1> QED BY <1>1, <1>2, <1>3 DEF TaskStep

(* An import that ends moves only the tasks that wait for it.              *)
LEMMA AnsweredMoves ==
  ASSUME TypeOK, NEW i \in imports, NEW step \in {"verify", "f_resume"},
         task' = Answered(i, step), NEW t \in Tasks
  PROVE  /\ task'[t].src = task[t].src /\ task'[t].dst = task[t].dst
         /\ \/ task'[t] = task[t]
            \/ task[t].pc = "await" /\ task'[t].pc = step /\ task[t].dst = i[2]
  BY DEF TypeOK, Answered

-----------------------------------------------------------------------------
(* The engine of the row is served. *)

(* The two ends differ under a task's steps.                               *)
LEMMA TaskStepEnds ==
  ASSUME TypeOK, TwoEnds, NEW t \in Tasks, TaskStep(t)
  PROVE  TwoEnds'
<1>1. /\ task[t].pc # "idle" /\ task[t].src # task[t].dst /\ UNCHANGED req
      /\ Done(t) \/ \E step \in Steps \ {"idle"} : Go(t, step)
  BY TaskStepMoves DEF TwoEnds
<1>2. \A u \in Tasks : task'[u].pc # "idle" => task'[u].src # task'[u].dst
  BY <1>1, GoMoves, DoneMoves DEF TwoEnds
<1>3. job' \in {job, NoJob, Job("queued", task[t]), Job("running", task[t]),
                WithJobState("running"), WithJobState("failed")}
  <2>1. CASE WriteJob(t)
    BY <2>1 DEF WriteJob, Persist, Upsert, MarkCopying, Unjob, FailJob
  <2>2. ~WriteJob(t) => job' = job
    BY DEF TaskStep, GetSlot, Begin, Fetch, PauseSource, SendImport, LoseImport,
           VerifyFull, VerifyShort, Switch, Cleanup, FailResume, FailStatus
  <2> QED BY <2>1, <2>2
<1>4. job'.state # "none" => job'.src # job'.dst
  BY <1>1, <1>3 DEF TwoEnds, TypeOK, NoJob, Job, WithJobState
<1> QED BY <1>1, <1>2, <1>4 DEF TwoEnds

(* The row's engine keeps its copy under a task's steps: the cleanup wipes *)
(* the other end.                                                          *)
LEMMA TaskStepServed ==
  ASSUME ServedInv, OneTransfer, NEW t \in Tasks, TaskStep(t)
  PROVE  ServedInv'
<1> USE DEF ServedInv
<1>1. TypeOK' /\ TwoEnds'
  BY TaskStepType, TaskStepEnds
<1>2. NobodyWipes'
  <2>1. row'.exists
    <3>1. row.exists /\ row \in [exists : BOOLEAN, engine : Engines, status : Statuses]
      BY DEF NobodyWipes, TypeOK
    <3>2. CASE WriteJob(t)
      BY <3>1, <3>2 DEF WriteJob, Persist, Upsert, MarkCopying, Unjob, FailJob, WithStatus
    <3>3. CASE Begin(t) \/ Switch(t) \/ FailStatus(t)
      BY <3>1, <3>3 DEF Begin, Switch, FailStatus, WithStatus
    <3>4. ~WriteJob(t) /\ ~Begin(t) /\ ~Switch(t) /\ ~FailStatus(t) => row' = row
      BY DEF TaskStep, GetSlot, Fetch, PauseSource, SendImport, LoseImport, VerifyFull,
             VerifyShort, Cleanup, FailResume
    <3> QED BY <3>1, <3>2, <3>3, <3>4
  <2> QED BY <2>1, TaskStepMoves DEF NobodyWipes
<1>3. \A u \in Tasks : u # t => task[u].pc = "idle" /\ task'[u].pc = "idle"
  BY TaskStepMoves, GoMoves, DoneMoves DEF OneTransfer
<1>4. CASE VerifyFull(t)
  <2>1. UNCHANGED <<row, copy>> /\ task'[t].pc = "switch" /\ task'[t].dst = task[t].dst
    BY <1>4, GoMoves DEF VerifyFull
  <2> QED BY <1>1, <1>2, <1>3, <1>4, <2>1 DEF Served, VerifyFull
<1>5. CASE Switch(t)
  <2>1. row'.engine = task[t].dst /\ copy' = copy
    BY <1>5 DEF Switch, NobodyWipes, TypeOK
  <2>2. task'[t].pc = "cleanup" /\ task'[t].dst = task[t].dst
    BY <1>5, GoMoves DEF Switch
  <2>3. copy[task[t].dst] = "full"
    BY <1>5 DEF Switch, Served
  <2> QED BY <1>1, <1>2, <1>3, <2>1, <2>2, <2>3 DEF Served
<1>6. CASE Cleanup(t)
  <2>1. row.engine = task[t].dst /\ task[t].src # task[t].dst
    BY <1>6 DEF Cleanup, Served, TwoEnds
  <2>2. copy'[row.engine] = copy[row.engine] /\ row' = row
    BY <1>6, <2>1, TaskEnds DEF Cleanup, TryWipe, TypeOK
  <2>3. task'[t].pc = "unjob"
    BY <1>6, GoMoves DEF Cleanup
  <2> QED BY <1>1, <1>2, <1>3, <2>2, <2>3 DEF Served
<1>7. CASE SendImport(t)
  <2>1. row' = row /\ copy'[row.engine] = "full"
    BY <1>7, TaskEnds DEF SendImport, Served, TypeOK
  <2>2. task'[t].pc \in {"await", "f_resume"}
    BY <1>7, GoMoves DEF SendImport
  <2> QED BY <1>1, <1>2, <1>3, <2>1, <2>2 DEF Served
<1>8. CASE \/ WriteJob(t) \/ GetSlot(t) \/ Begin(t) \/ Fetch(t) \/ PauseSource(t)
           \/ LoseImport(t) \/ VerifyShort(t) \/ FailResume(t) \/ FailStatus(t)
  <2>1. row'.engine = row.engine /\ copy' = copy
    BY <1>8 DEF TypeOK, WriteJob, Persist, Upsert, MarkCopying, Unjob, FailJob, GetSlot, Begin,
            Fetch, PauseSource, LoseImport, VerifyShort, FailResume, FailStatus, WithStatus
  <2>2. task'[t].pc \notin {"switch", "cleanup"}
    BY <1>8, GoMoves, DoneMoves DEF WriteJob, Persist, Upsert, MarkCopying, Unjob, FailJob,
            GetSlot, Begin, Fetch, PauseSource, LoseImport, VerifyShort, FailResume, FailStatus
  <2> QED BY <1>1, <1>2, <1>3, <2>1, <2>2 DEF Served
<1> QED BY <1>4, <1>5, <1>6, <1>7, <1>8 DEF TaskStep

(* An import takes no whole copy away.                                     *)
LEMMA ImportServed ==
  ASSUME ServedInv, NEW i \in imports, ImportDone(i) \/ ImportFails(i)
  PROVE  ServedInv'
<1> USE DEF ServedInv
<1>1. TypeOK'
  BY ImportType
<1>2. UNCHANGED <<row, job, req>> /\ \E step \in {"verify", "f_resume"} : task' = Answered(i, step)
  BY DEF ImportDone, ImportFails
<1>3. \A e \in Engines : copy[e] = "full" => copy'[e] = "full"
  BY DEF ImportDone, ImportFails, Copied, TypeOK
<1>4. \A t \in Tasks :
        /\ task'[t].src = task[t].src /\ task'[t].dst = task[t].dst
        /\ task'[t].pc = "idle" <=> task[t].pc = "idle"
        /\ task'[t].pc \in {"switch", "cleanup"} => task[t].pc = task'[t].pc
  BY <1>2, AnsweredMoves
<1>5. TwoEnds' /\ NobodyWipes'
  BY <1>2, <1>4 DEF TwoEnds, NobodyWipes
<1>6. Served'
  <2>1. row.engine \in Engines
    BY DEF TypeOK
  <2> QED BY <1>2, <1>3, <1>4, <2>1, TaskEnds DEF Served
<1> QED BY <1>1, <1>5, <1>6

(* Requests that wipe nothing leave the copies to the transfers.           *)
LEMMA RequestServed ==
  ASSUME ServedInv, Ops \cap Wiping = {}, NEW r \in Requests, RequestStarts(r) \/ RequestStep(r)
  PROVE  ServedInv'
<1> USE DEF ServedInv
<1>1. TypeOK'
  BY RequestStartsType, RequestStepType
<1>2. CASE RequestStarts(r)
  <2>1. UNCHANGED <<row, job, copy, task>>
    BY <1>2 DEF RequestStarts, MigrateCheck, ResumeCheck, CancelRead, DeleteCheck,
                BulkDeleteCheck, StatusCheck, SyncRead
  <2>2. \E step \in {"migrate", "resume", "turn", "bulk_turn", "sync"}, s \in Engines,
           d \in Engines, new \in Statuses :
              Accept(r, step, s, d, new) /\ (step \in {"migrate", "resume"} => s # d)
    <3>1. /\ row.engine \in Engines /\ row.status \in Statuses
          /\ job.src \in Engines /\ job.dst \in Engines
          /\ {"paused", "downloading", "migrate_queued"} \subseteq Statuses
      BY DEF TypeOK, Statuses, Moving
    <3>2. CASE \E dst \in Engines : MigrateCheck(r, dst)
      BY <3>1, <3>2 DEF MigrateCheck
    <3>3. CASE ResumeCheck(r)
      BY <3>1, <3>3 DEF ResumeCheck, TwoEnds
    <3>4. CASE \E new \in {"paused", "downloading"} : StatusCheck(r, new)
      BY <3>1, <3>4 DEF StatusCheck
    <3>5. CASE SyncRead(r)
      BY <3>1, <3>5 DEF SyncRead
    <3>6. ~CancelRead(r) /\ ~DeleteCheck(r) /\ ~BulkDeleteCheck(r)
      BY DEF CancelRead, DeleteCheck, BulkDeleteCheck, Wiping
    <3> QED BY <1>2, <3>2, <3>3, <3>4, <3>5, <3>6 DEF RequestStarts
  <2>3. /\ req'[r].pc \notin WipeSteps
        /\ req'[r].pc \in {"migrate", "migrate_commit", "resume"} => req'[r].src # req'[r].dst
        /\ \A q \in Requests : q # r => req'[q] = req[q]
    BY <2>2 DEF Accept, TypeOK, WipeSteps
  <2> QED BY <1>1, <2>1, <2>3 DEF TwoEnds, NobodyWipes, Served
<1>3. CASE MigrateAsk(r) \/ StatusTurn(r) \/ SyncAsk(r)
  <2>1. UNCHANGED <<row, job, copy, task>>
    BY <1>3 DEF MigrateAsk, StatusTurn, SyncAsk
  <2>2. \A q \in Requests : q # r => req'[q] = req[q]
    BY <1>3 DEF MigrateAsk, StatusTurn, SyncAsk, Advance, Reply, TypeOK
  <2>3. req'[r].pc \in {"idle", "migrate_commit", "set_status"}
    BY <1>3 DEF MigrateAsk, StatusTurn, SyncAsk, Advance, Reply, NoReq, TypeOK
  <2>4. req'[r].pc = "migrate_commit" =>
            req[r].pc = "migrate" /\ req'[r].src = req[r].src /\ req'[r].dst = req[r].dst
    BY <1>3 DEF MigrateAsk, StatusTurn, SyncAsk, Advance, Reply, NoReq, TypeOK
  <2> QED BY <1>1, <2>1, <2>2, <2>3, <2>4 DEF TwoEnds, NobodyWipes, Served, WipeSteps
<1>4. CASE MigrateCommit(r) \/ ResumeCommit(r)
  <2>1. row'.engine = row.engine /\ row'.exists /\ UNCHANGED <<job, copy>>
    BY <1>4 DEF MigrateCommit, ResumeCommit, WithStatus, NobodyWipes, TypeOK
  <2>2. /\ req'[r].pc = "idle" /\ \A q \in Requests : q # r => req'[q] = req[q]
        /\ req[r].src # req[r].dst /\ Launch(req[r].src, req[r].dst)
    BY <1>4 DEF MigrateCommit, ResumeCommit, Reply, NoReq, TypeOK, TwoEnds, NobodyWipes
  <2>3. PICK t \in Tasks :
           /\ task'[t] = [pc |-> "persist", src |-> req[r].src, dst |-> req[r].dst]
           /\ \A u \in Tasks : u # t => task'[u] = task[u]
    BY <2>2, LaunchMoves
  <2>4. TwoEnds'
    BY <2>1, <2>2, <2>3 DEF TwoEnds
  <2>5. NobodyWipes'
    BY <2>1, <2>2 DEF NobodyWipes, WipeSteps
  <2>6. Served'
    BY <2>1, <2>3 DEF Served
  <2> QED BY <1>1, <2>4, <2>5, <2>6
<1>5. CASE SetStatus(r)
  <2>1. row'.engine = row.engine /\ row'.exists /\ UNCHANGED <<job, copy, task>>
    BY <1>5 DEF SetStatus, WithStatus, NobodyWipes, TypeOK
  <2>2. req'[r].pc = "idle" /\ \A q \in Requests : q # r => req'[q] = req[q]
    BY <1>5 DEF SetStatus, Reply, NoReq, TypeOK
  <2> QED BY <1>1, <2>1, <2>2 DEF TwoEnds, NobodyWipes, Served, WipeSteps
<1>6. /\ ~CancelWipe(r) /\ ~CancelResume(r) /\ ~CancelDrop(r) /\ ~DeleteRefused(r)
      /\ ~DeleteCommit(r) /\ ~\E wipe \in BOOLEAN : DeleteRemove(r, wipe)
  BY DEF CancelWipe, CancelResume, CancelDrop, DeleteRefused, DeleteCommit, DeleteRemove,
         NobodyWipes, WipeSteps
<1> QED BY <1>2, <1>3, <1>4, <1>5, <1>6 DEF RequestStep

(* A crash and the recovery repeat a transfer, with the ends of its job.   *)
LEMMA CrashServed ==
  ASSUME ServedInv, Crash \/ DropStale \/ Recover
  PROVE  ServedInv'
<1> USE DEF ServedInv
<1>1. TypeOK'
  BY CrashType
<1>2. CASE Crash
  BY <1>1, <1>2 DEF Crash, TwoEnds, NobodyWipes, Served, Idle, NoReq, WipeSteps
<1>3. CASE DropStale
  BY <1>1, <1>3 DEF DropStale, TwoEnds, NobodyWipes, Served, NoJob
<1>4. CASE Recover
  <2>1. UNCHANGED <<row, copy, req>>
    BY <1>4 DEF Recover
  <2>2. job'.state # "none" => job'.src # job'.dst
    BY <1>4 DEF Recover, WithJobState, TwoEnds, TypeOK
  <2>3. CASE job.state \in {"running", "queued"}
    <3>1. PICK t \in Tasks :
             /\ task'[t] = [pc |-> "persist", src |-> job.src, dst |-> job.dst]
             /\ \A u \in Tasks : u # t => task'[u] = task[u]
      BY <1>4, <2>3, LaunchMoves DEF Recover
    <3> QED BY <1>1, <2>1, <2>2, <2>3, <3>1 DEF TwoEnds, NobodyWipes, Served
  <2>4. CASE job.state \notin {"running", "queued"}
    BY <1>1, <1>4, <2>1, <2>2, <2>4 DEF Recover, TwoEnds, NobodyWipes, Served
  <2> QED BY <2>3, <2>4
<1> QED BY <1>2, <1>3, <1>4

(* The invariant of RowServed under every step.                            *)
LEMMA StepServed ==
  ASSUME ServedInv, OneTransfer, Ops \cap Wiping = {}, [Next]_vars
  PROVE  ServedInv'
<1>1. CASE UNCHANGED vars
  BY <1>1 DEF vars, ServedInv, TypeOK, TwoEnds, NobodyWipes, Served
<1> QED BY <1>1, TaskStepServed, ImportServed, RequestServed, CrashServed DEF Next

(* Initially the home engine serves.                                       *)
LEMMA InitServed == Init => ServedInv
  BY InitType, MigrationAssumption
  DEF Init, ServedInv, TypeOK, TwoEnds, NobodyWipes, Served, NoJob, Idle, NoReq, WipeSteps

(* Where users are sent, the content is whole: in every behaviour whose    *)
(* transfers of the torrent do not overlap, whatever requests but cancel   *)
(* and DELETE come, whichever calls fail and however often the API dies    *)
(* and repeats a transfer.                                                 *)
THEOREM RowIsServed ==
    ASSUME Ops \cap Wiping = {}
    PROVE  Spec /\ []OneTransfer => []RowServed
<1>1. ServedInv => RowServed
  BY DEF ServedInv, Served, RowServed
<1>2. ServedInv /\ OneTransfer /\ [Next]_vars => ServedInv'
  BY StepServed
<1> QED BY <1>1, <1>2, InitServed, PTL DEF Spec
-----------------------------------------------------------------------------
(* The transfer is a Placement. *)

(* The engine of the row has the torrent, and so has the one the row is    *)
(* about to be moved to: its content is whole by ServedInv.                *)
Handled ==
    /\ handle[row.engine] # "none"
    /\ \A t \in Tasks : task[t].pc = "switch" => handle[task[t].dst] # "none"

PlacedInv == ServedInv /\ Handled

Places == [Abstract!Next]_<<row.engine, Holders>>

(* A step that wipes nothing, adds nothing and leaves the row is a stutter. *)
LEMMA NothingPlaced ==
  ASSUME row'.engine = row.engine, copy' = copy,
         \A e \in Engines : handle'[e] # "none" <=> handle[e] # "none"
  PROVE  Places
<1>1. Holders' = Holders
  BY DEF Holders
<1> QED BY <1>1 DEF Places

(* A pause or a resume takes no torrent out of a session.                  *)
LEMMA TurnHandles ==
  ASSUME TypeOK, NEW e, NEW mode \in {"active", "paused"}, TryTurn(e, mode)
  PROVE  \A d \in Engines : handle'[d] # "none" <=> handle[d] # "none"
  BY DEF TypeOK, TryTurn, Turned

(* The row moves to an engine that holds the torrent; the cleanup drops    *)
(* one that is not the row's.                                              *)
LEMMA TaskStepPlaced ==
  ASSUME PlacedInv, OneTransfer, NEW t \in Tasks, TaskStep(t)
  PROVE  Handled' /\ Places
<1> USE DEF PlacedInv, ServedInv
<1>1. \A u \in Tasks : u # t => task[u].pc = "idle" /\ task'[u].pc = "idle"
  BY TaskStepMoves, GoMoves, DoneMoves DEF OneTransfer
<1>2. row.engine \in Engines /\ task[t].src \in Engines /\ task[t].dst \in Engines
  BY TaskEnds DEF TypeOK
<1>3. CASE VerifyFull(t)
  <2>1. UNCHANGED <<row, copy, handle>> /\ task'[t].dst = task[t].dst /\ handle[task[t].dst] # "none"
    BY <1>3, GoMoves DEF VerifyFull
  <2> QED BY <1>1, <2>1, NothingPlaced DEF Handled
<1>4. CASE Switch(t)
  <2>1. row'.engine = task[t].dst /\ UNCHANGED <<copy, handle>>
    BY <1>4 DEF Switch, NobodyWipes, TypeOK
  <2>2. copy[task[t].dst] = "full" /\ handle[task[t].dst] # "none"
    BY <1>4 DEF Switch, Served, Handled
  <2>3. task'[t].pc = "cleanup"
    BY <1>4, GoMoves DEF Switch
  <2>4. Holders' = Holders /\ task[t].dst \in Holders
    BY <1>2, <2>1, <2>2 DEF Holders
  <2>5. row'.engine # row.engine => Abstract!Move(task[t].dst)
    BY <2>1, <2>4 DEF Abstract!Move
  <2> QED BY <1>1, <1>2, <2>1, <2>2, <2>3, <2>4, <2>5 DEF Handled, Places, Abstract!Next
<1>5. CASE Cleanup(t)
  <2> DEFINE s == task[t].src
  <2>1. row.engine # s /\ row' = row /\ task'[t].pc = "unjob" /\ TryWipe(s)
    BY <1>5, GoMoves DEF Cleanup, Served, TwoEnds
  <2>2. CASE UNCHANGED <<copy, handle>>
    BY <1>1, <2>1, <2>2, NothingPlaced DEF Handled
  <2>3. CASE copy' = [copy EXCEPT ![s] = "none"] /\ handle' = [handle EXCEPT ![s] = "none"]
    <3>1. /\ copy'[s] = "none" /\ handle'[row.engine] = handle[row.engine]
          /\ \A e \in Engines \ {s} : copy'[e] = copy[e] /\ handle'[e] = handle[e]
      BY <1>2, <2>1, <2>3 DEF TypeOK
    <3>2. Holders' = Holders \ {s}
      BY <3>1 DEF Holders
    <3>3. s \in Holders => Abstract!Drop(s)
      BY <2>1, <3>2 DEF Abstract!Drop
    <3>4. s \notin Holders => Holders' = Holders
      BY <3>2
    <3> QED BY <1>1, <1>2, <2>1, <3>1, <3>3, <3>4 DEF Handled, Places, Abstract!Next
  <2> QED BY <2>1, <2>2, <2>3 DEF TryWipe
<1>6. CASE SendImport(t)
  <2>1. row' = row /\ handle' = handle /\ task'[t].pc # "switch"
    BY <1>6, GoMoves DEF SendImport
  <2>2. \A e \in Engines : copy'[e] = "full" <=> copy[e] = "full"
    BY <1>6 DEF SendImport, TypeOK
  <2>3. Holders' = Holders
    BY <2>1, <2>2 DEF Holders
  <2> QED BY <1>1, <2>1, <2>3 DEF Handled, Places
<1>7. CASE PauseSource(t) \/ FailResume(t)
  <2>1. UNCHANGED <<row, copy>> /\ task'[t].pc # "switch"
    BY <1>7, GoMoves DEF PauseSource, FailResume
  <2>2. \A e \in Engines : handle'[e] # "none" <=> handle[e] # "none"
    BY <1>7, TurnHandles DEF PauseSource, FailResume
  <2> QED BY <1>1, <1>2, <2>1, <2>2, NothingPlaced DEF Handled
<1>8. CASE \/ WriteJob(t) \/ GetSlot(t) \/ Begin(t) \/ Fetch(t)
           \/ LoseImport(t) \/ VerifyShort(t) \/ FailStatus(t)
  <2>1. row'.engine = row.engine /\ UNCHANGED <<copy, handle>>
    BY <1>8 DEF TypeOK, WriteJob, Persist, Upsert, MarkCopying, Unjob, FailJob, GetSlot, Begin,
            Fetch, LoseImport, VerifyShort, FailStatus, WithStatus
  <2>2. task'[t].pc # "switch"
    BY <1>8, GoMoves, DoneMoves DEF WriteJob, Persist, Upsert, MarkCopying, Unjob, FailJob,
            GetSlot, Begin, Fetch, LoseImport, VerifyShort, FailStatus
  <2> QED BY <1>1, <2>1, <2>2, NothingPlaced DEF Handled
<1> QED BY <1>3, <1>4, <1>5, <1>6, <1>7, <1>8 DEF TaskStep

(* An import that is through may add its target to the holders.            *)
LEMMA ImportPlaced ==
  ASSUME PlacedInv, NEW i \in imports, ImportDone(i) \/ ImportFails(i)
  PROVE  Handled' /\ Places
<1> USE DEF PlacedInv, ServedInv
<1>1. \A t \in Tasks : task'[t].pc = "switch" => task[t].pc = "switch" /\ task'[t].dst = task[t].dst
  BY AnsweredMoves DEF ImportDone, ImportFails
<1>2. i[2] \in Engines /\ row' = row /\ row.engine \in Engines
  BY DEF TypeOK, ImportDone, ImportFails
<1>3. \A t \in Tasks : task[t].dst \in Engines
  BY TaskEnds
<1>4. CASE ImportFails(i)
  <2>1. UNCHANGED <<copy, handle>>
    BY <1>4 DEF ImportFails
  <2> QED BY <1>1, <1>2, <2>1, NothingPlaced DEF Handled
<1>5. CASE ImportDone(i)
  <2>1. PICK c \in Copied(i) : copy' = [copy EXCEPT ![i[2]] = c]
    BY <1>5 DEF ImportDone
  <2>2. handle' = [handle EXCEPT ![i[2]] = "active"]
    BY <1>5 DEF ImportDone
  <2>3. /\ copy'[i[2]] = c /\ handle'[i[2]] = "active"
        /\ \A e \in Engines \ {i[2]} : copy'[e] = copy[e] /\ handle'[e] = handle[e]
    BY <1>2, <2>1, <2>2 DEF TypeOK
  <2>4. copy[i[2]] = "full" => c = "full"
    BY <2>1 DEF Copied
  <2>5. Handled'
    BY <1>1, <1>2, <1>3, <2>3 DEF Handled
  <2>6. CASE c = "full" /\ i[2] \notin Holders
    <3>1. Holders' = Holders \cup {i[2]}
      BY <1>2, <2>3, <2>6 DEF Holders
    <3>2. Abstract!Copy(i[2])
      BY <1>2, <2>6, <3>1 DEF Abstract!Copy
    <3> QED BY <1>2, <2>5, <3>2 DEF Places, Abstract!Next
  <2>7. CASE c # "full" \/ i[2] \in Holders
    <3>1. Holders' = Holders
      BY <1>2, <2>3, <2>4, <2>7 DEF Holders
    <3> QED BY <1>2, <2>5, <3>1 DEF Places
  <2> QED BY <2>5, <2>6, <2>7
<1> QED BY <1>4, <1>5

(* Requests that wipe nothing place nothing either.                        *)
LEMMA RequestPlaced ==
  ASSUME PlacedInv, Ops \cap Wiping = {}, NEW r \in Requests, RequestStarts(r) \/ RequestStep(r)
  PROVE  Handled' /\ Places
<1> USE DEF PlacedInv, ServedInv
<1>1. ~CancelWipe(r) /\ ~CancelResume(r) /\ ~CancelDrop(r) /\ ~DeleteRefused(r)
      /\ ~DeleteCommit(r) /\ ~\E wipe \in BOOLEAN : DeleteRemove(r, wipe)
  BY DEF CancelWipe, CancelResume, CancelDrop, DeleteRefused, DeleteCommit, DeleteRemove,
         NobodyWipes, WipeSteps
<1>2. row'.engine = row.engine /\ copy' = copy
  BY <1>1 DEF RequestStarts, RequestStep, MigrateCheck, ResumeCheck, CancelRead, DeleteCheck,
              BulkDeleteCheck, StatusCheck, SyncRead, MigrateAsk, MigrateCommit, ResumeCommit,
              StatusTurn, SetStatus, SyncAsk, WithStatus, TypeOK
<1>3. \A e \in Engines : handle'[e] # "none" <=> handle[e] # "none"
  <2>1. CASE StatusTurn(r)
    BY <2>1 DEF StatusTurn, Turned, TypeOK
  <2>2. ~StatusTurn(r) => handle' = handle
    BY <1>1 DEF RequestStarts, RequestStep, MigrateCheck, ResumeCheck, CancelRead, DeleteCheck,
                BulkDeleteCheck, StatusCheck, SyncRead, MigrateAsk, MigrateCommit, ResumeCommit,
                SetStatus, SyncAsk
  <2> QED BY <2>1, <2>2
<1>4. \A t \in Tasks : task'[t].pc = "switch" => task'[t] = task[t]
  <2>1. CASE MigrateCommit(r) \/ ResumeCommit(r)
    <3>1. task' = task \/ Launch(req[r].src, req[r].dst)
      BY <2>1 DEF MigrateCommit, ResumeCommit
    <3>2. ASSUME Launch(req[r].src, req[r].dst), NEW t \in Tasks
          PROVE  task'[t] = task[t] \/ task'[t].pc = "persist"
      BY <3>2 DEF TypeOK, Launch
    <3> QED BY <3>1, <3>2
  <2>2. ~MigrateCommit(r) /\ ~ResumeCommit(r) => task' = task
    BY <1>1 DEF RequestStarts, RequestStep, MigrateCheck, ResumeCheck, CancelRead, DeleteCheck,
                BulkDeleteCheck, StatusCheck, SyncRead, MigrateAsk, StatusTurn, SetStatus, SyncAsk
  <2> QED BY <2>1, <2>2
<1>5. row.engine \in Engines /\ \A t \in Tasks : task[t].dst \in Engines
  BY TaskEnds DEF TypeOK
<1> QED BY <1>2, <1>3, <1>4, <1>5, NothingPlaced DEF Handled

(* Nor do a crash and the recovery.                                        *)
LEMMA CrashPlaced ==
  ASSUME PlacedInv, Crash \/ DropStale \/ Recover
  PROVE  Handled' /\ Places
<1> USE DEF PlacedInv, ServedInv
<1>1. UNCHANGED <<row, copy, handle>>
  BY DEF Crash, DropStale, Recover
<1>2. \A t \in Tasks : task'[t].pc = "switch" => task'[t] = task[t]
  <2>1. CASE Crash
    BY <2>1 DEF Crash, Idle
  <2>2. CASE DropStale
    BY <2>2 DEF DropStale
  <2>3. CASE Recover
    <3>1. task' = task \/ Launch(job.src, job.dst)
      BY <2>3 DEF Recover
    <3>2. ASSUME Launch(job.src, job.dst), NEW t \in Tasks
          PROVE  task'[t] = task[t] \/ task'[t].pc = "persist"
      BY <3>2 DEF TypeOK, Launch
    <3> QED BY <3>1, <3>2
  <2> QED BY <2>1, <2>2, <2>3
<1> QED BY <1>1, <1>2, NothingPlaced DEF Handled

LEMMA StepPlaced ==
  ASSUME PlacedInv, OneTransfer, Ops \cap Wiping = {}, [Next]_vars
  PROVE  PlacedInv' /\ Places
<1>1. ServedInv'
  BY StepServed DEF PlacedInv
<1>2. CASE UNCHANGED vars
  BY <1>1, <1>2, NothingPlaced DEF vars, PlacedInv, Handled
<1> QED BY <1>1, <1>2, TaskStepPlaced, ImportPlaced, RequestPlaced, CrashPlaced DEF Next, PlacedInv

(* A transfer is a Placement: the engine users are sent to changes only to *)
(* one that has the torrent with all of its content, no step takes the     *)
(* torrent from the engine they are sent to, and engines join and leave    *)
(* one at a time; in every behaviour whose transfers do not overlap,       *)
(* without cancel and DELETE, whichever calls fail and however often the   *)
(* API dies.                                                               *)
THEOREM TransferPlaces ==
    ASSUME Ops \cap Wiping = {}
    PROVE  Spec /\ []OneTransfer => ImplementsPlacement
<1>1. Init => PlacedInv
  BY InitServed DEF Init, PlacedInv, Handled, Idle, ServedInv, TypeOK
<1>2. Init => Abstract!Init
  <2> SUFFICES ASSUME Init PROVE Abstract!Init
    OBVIOUS
  <2>1. Holders = {Home} /\ row.engine = Home
    BY MigrationAssumption DEF Init, Holders
  <2> QED BY <2>1 DEF Abstract!Init
<1>3. PlacedInv /\ OneTransfer /\ [Next]_vars => PlacedInv' /\ [Abstract!Next]_<<row.engine, Holders>>
  BY StepPlaced DEF Places
<1> QED BY <1>1, <1>2, <1>3, PTL DEF Spec, ImplementsPlacement, Abstract!Spec
-----------------------------------------------------------------------------
(* No transfer is stranded. *)

(* A task's step keeps the torrent moving, or ends its status first.       *)
LEMMA TaskStepMoved ==
  ASSUME TypeOK, OneTransfer, Moved, NEW t \in Tasks, TaskStep(t)
  PROVE  Moved'
<1>1. CASE Persist(t)
  <2>1. task'[t].pc = "slot" /\ job'.state = "queued"
    BY <1>1, GoMoves DEF Persist, Job
  <2> QED BY <2>1 DEF Moved
<1>2. CASE GetSlot(t)
  <2>1. CASE job.state = "queued"
    <3>1. task'[t].pc = "begin"
      BY <1>2, <2>1, GoMoves DEF GetSlot
    <3> QED BY <3>1 DEF Moved
  <2>2. CASE job.state # "queued"
    BY <1>2, <2>2 DEF GetSlot, Moved, OneTransfer
  <2> QED BY <2>1, <2>2
<1>3. CASE \/ Begin(t) \/ Upsert(t) \/ Fetch(t) \/ PauseSource(t) \/ MarkCopying(t)
           \/ SendImport(t) \/ LoseImport(t) \/ VerifyFull(t) \/ VerifyShort(t) \/ FailResume(t)
  <2>1. \E step \in {"upsert", "fetch", "pause", "f_resume", "mark", "send", "await",
                     "switch", "f_status"} : Go(t, step)
    BY <1>3 DEF Begin, Upsert, Fetch, PauseSource, MarkCopying, SendImport, LoseImport,
                VerifyFull, VerifyShort, FailResume
  <2> QED BY <2>1, GoMoves DEF Moved
<1>4. CASE Switch(t) \/ FailStatus(t)
  <2>1. row'.exists => row'.status = "seeding"
    BY <1>4 DEF Switch, FailStatus, WithStatus, TypeOK
  <2> QED BY <2>1 DEF Moved, Moving
<1>5. CASE Cleanup(t) \/ Unjob(t) \/ FailJob(t)
  <2>1. row' = row /\ task[t].pc \in {"cleanup", "unjob", "f_job"}
    BY <1>5 DEF Cleanup, Unjob, FailJob
  <2>2. ~(row.exists /\ row.status \in Moving)
    BY <2>1 DEF Moved, OneTransfer
  <2> QED BY <2>1, <2>2 DEF Moved
<1> QED BY <1>1, <1>2, <1>3, <1>4, <1>5 DEF TaskStep, WriteJob

(* A request starts with a status of its own to write.                     *)
LEMMA RequestStartsMoved ==
  ASSUME TypeOK, NoMove, NEW r \in Requests, RequestStarts(r)
  PROVE  NoMove' /\ UNCHANGED <<row, job, task, api, crashes>>
<1>1. UNCHANGED <<row, job, task, api, crashes>>
  BY DEF RequestStarts, MigrateCheck, ResumeCheck, CancelRead, DeleteCheck,
         BulkDeleteCheck, StatusCheck, SyncRead, Accept
<1>2. \E step, s, d, new :
        /\ Accept(r, step, s, d, new)
        /\ step \in {"turn", "bulk_turn", "sync", "set_status"} => new \notin Moving
  <2>1. CASE \E new \in {"paused", "downloading"} : StatusCheck(r, new)
    <3>1. {"paused", "downloading"} \cap Moving = {}
      BY DEF Moving
    <3> QED BY <2>1, <3>1 DEF StatusCheck
  <2>2. CASE (\E dst \in Engines : MigrateCheck(r, dst)) \/ ResumeCheck(r) \/ SyncRead(r)
    BY <2>2 DEF MigrateCheck, ResumeCheck, SyncRead
  <2>3. CASE CancelRead(r) \/ DeleteCheck(r) \/ BulkDeleteCheck(r)
    BY <2>3 DEF CancelRead, DeleteCheck, BulkDeleteCheck
  <2> QED BY <2>1, <2>2, <2>3 DEF RequestStarts
<1>3. PICK step, s, d, new :
        /\ req' = [req EXCEPT ![r] = [pc |-> step, src |-> s, dst |-> d,
                                      old |-> row.status, new |-> new]]
        /\ step \in {"turn", "bulk_turn", "sync", "set_status"} => new \notin Moving
  BY <1>2 DEF Accept
<1>4. NoMove'
  BY <1>3 DEF NoMove, TypeOK
<1> QED BY <1>1, <1>4

(* What a request remembers stays no status of a transfer.                 *)
LEMMA RequestStepNoMove ==
  ASSUME TypeOK, NoMove, NEW r \in Requests, RequestStep(r)
  PROVE  NoMove'
<1>1. CASE Reply(r)
  BY <1>1 DEF Reply, NoReq, NoMove, TypeOK
<1>2. CASE \E step \in {"migrate_commit", "cancel_resume", "cancel_drop",
                        "delete_row", "delete_row_job"} : Advance(r, step)
  BY <1>2 DEF Advance, NoMove, TypeOK
<1>3. CASE Advance(r, "set_status") /\ req[r].pc \in {"turn", "bulk_turn"}
  BY <1>3 DEF Advance, NoMove, TypeOK
<1>4. CASE SyncAsk(r) /\ ~Reply(r)
  BY <1>4 DEF SyncAsk, NoMove, TypeOK, Moving
<1>5. MigrateAsk(r) \/ CancelWipe(r) \/ CancelResume(r) => <1>1!1 \/ <1>2!1
  BY DEF MigrateAsk, CancelWipe, CancelResume
<1>6. (\E wipe \in BOOLEAN : DeleteRemove(r, wipe)) => <1>2!1
  BY DEF DeleteRemove
<1>7. MigrateCommit(r) \/ ResumeCommit(r) \/ CancelDrop(r) \/ DeleteRefused(r)
        \/ DeleteCommit(r) \/ SetStatus(r) => Reply(r)
  BY DEF MigrateCommit, ResumeCommit, CancelDrop, DeleteRefused, DeleteCommit, SetStatus
<1>8. StatusTurn(r) => <1>1!1 \/ <1>3!1
  BY DEF StatusTurn
<1> QED BY <1>1, <1>2, <1>3, <1>4, <1>5, <1>6, <1>7, <1>8 DEF RequestStep

(* A request that gives the torrent a transfer's status starts a task for  *)
(* it; the others end the status or leave it alone.                        *)
LEMMA RequestStepMoved ==
  ASSUME TypeOK, NoMove, Moved, NEW r \in Requests, RequestStep(r)
  PROVE  Moved' /\ UNCHANGED <<api, crashes>>
<1>1. CASE MigrateCommit(r) \/ ResumeCommit(r)
  <2>1. CASE Launch(req[r].src, req[r].dst)
    <3>1. PICK t \in Tasks :
             task'[t] = [pc |-> "persist", src |-> req[r].src, dst |-> req[r].dst]
      BY <2>1, LaunchMoves
    <3>2. task'[t].pc = "persist"
      BY <3>1
    <3> QED BY <1>1, <3>2 DEF Moved, MigrateCommit, ResumeCommit
  <2>2. CASE ~row.exists
    BY <1>1, <2>2 DEF MigrateCommit, ResumeCommit, WithStatus, Moved
  <2> QED BY <1>1, <2>1, <2>2 DEF MigrateCommit, ResumeCommit
<1>2. CASE CancelDrop(r)
  <2>1. row'.exists => row'.status = "seeding"
    BY <1>2 DEF CancelDrop, WithStatus, TypeOK
  <2> QED BY <1>2, <2>1 DEF CancelDrop, Moved, Moving
<1>3. CASE DeleteCommit(r)
  BY <1>3 DEF DeleteCommit, Moved, TypeOK
<1>4. CASE SetStatus(r)
  <2>1. row' = row \/ (row'.exists => row'.status = req[r].new)
    BY <1>4 DEF SetStatus, WithStatus, TypeOK
  <2>2. req[r].new \notin Moving
    BY <1>4 DEF SetStatus, NoMove
  <2> QED BY <1>4, <2>1, <2>2 DEF SetStatus, Moved
<1>5. CASE UNCHANGED <<row, job, task, api, crashes>>
  BY <1>5 DEF Moved
<1>6. \/ MigrateCommit(r) \/ ResumeCommit(r) \/ CancelDrop(r) \/ DeleteCommit(r)
      \/ SetStatus(r) \/ UNCHANGED <<row, job, task, api, crashes>>
  BY DEF RequestStep, MigrateAsk, CancelWipe, CancelResume, DeleteRemove, DeleteRefused,
         StatusTurn, SyncAsk
<1> QED BY <1>1, <1>2, <1>3, <1>4, <1>5, <1>6

(* The invariant of NeverStranded under every step.                        *)
LEMMA StepMoved ==
  ASSUME MovedInv, OneTransfer, [Next]_vars
  PROVE  MovedInv'
<1> USE DEF MovedInv
<1>1. TypeOK'
  BY StepType
<1>2. CASE UNCHANGED vars
  BY <1>1, <1>2 DEF vars, NoMove, Moved
<1>3. ASSUME NEW t \in Tasks, TaskStep(t) PROVE MovedInv'
  BY <1>1, <1>3, TaskStepMoved, TaskStepMoves DEF NoMove
<1>4. ASSUME NEW i \in imports, ImportDone(i) \/ ImportFails(i) PROVE MovedInv'
  <2>1. UNCHANGED <<row, job, req, api, crashes>>
    BY <1>4 DEF ImportDone, ImportFails
  <2>2. \A t \in Tasks : task'[t] = task[t] \/ task'[t].pc \in {"verify", "f_resume"}
    BY <1>4, AnsweredMoves DEF ImportDone, ImportFails
  <2>3. Moved => Moved'
    BY <2>1, <2>2 DEF Moved
  <2> QED BY <1>1, <2>1, <2>3 DEF NoMove
<1>5. ASSUME NEW r \in Requests, RequestStarts(r) PROVE MovedInv'
  BY <1>1, <1>5, RequestStartsMoved DEF Moved
<1>6. ASSUME NEW r \in Requests, RequestStep(r) PROVE MovedInv'
  <2>1. UNCHANGED <<api, crashes>>
    BY <1>6 DEF RequestStep, MigrateAsk, MigrateCommit, ResumeCommit, CancelWipe, CancelResume,
                CancelDrop, DeleteRemove, DeleteRefused, DeleteCommit, StatusTurn, SetStatus, SyncAsk
  <2> QED BY <1>1, <1>6, <2>1, RequestStepNoMove, RequestStepMoved
<1>7. CASE Crash
  <2>1. crashes' # 0
    BY <1>7, MigrationAssumption DEF Crash, TypeOK
  <2> QED BY <1>1, <1>7, <2>1 DEF Crash, NoMove, NoReq
<1>8. CASE DropStale \/ Recover
  <2>1. crashes # 0 /\ UNCHANGED <<req, crashes>>
    BY <1>8 DEF DropStale, Recover
  <2> QED BY <1>1, <2>1 DEF NoMove
<1> QED BY <1>2, <1>3, <1>4, <1>5, <1>6, <1>7, <1>8 DEF Next

(* Initially nothing moves.                                                *)
LEMMA InitMoved == Init => MovedInv
  BY InitType DEF Init, MovedInv, NoMove, Moved, Moving, NoReq

(* As long as the API does not die, a torrent shown as queued or migrating *)
(* has a task that moves it on, whatever the requests and failures, DELETE *)
(* and cancel among them, in every behaviour whose transfers do not        *)
(* overlap.  A crash between the commit of migrate_queued and the task's   *)
(* first write does strand it: recovery looks for a job.                   *)
THEOREM NothingIsStranded == Spec /\ []OneTransfer => [](crashes = 0 => NeverStranded)
<1>1. MovedInv => (crashes = 0 => NeverStranded)
  BY DEF MovedInv, Moved, NeverStranded
<1>2. MovedInv /\ OneTransfer /\ [Next]_vars => MovedInv'
  BY StepMoved
<1> QED BY <1>1, <1>2, InitMoved, PTL DEF Spec
-----------------------------------------------------------------------------
(* A pause for the copy ends with the transfer. *)

(* The job follows the only task.                                          *)
LEMMA TaskStepFollows ==
  ASSUME TypeOK, OneTransfer, JobFollows, NEW t \in Tasks, TaskStep(t)
  PROVE  JobFollows'
<1>1. \A u \in Tasks : u # t => task'[u].pc = "idle"
  BY TaskStepMoves, GoMoves, DoneMoves DEF OneTransfer
<1>2. CASE Persist(t)
  BY <1>1, <1>2, GoMoves DEF Persist, Job, JobFollows, Quits
<1>3. CASE Upsert(t)
  BY <1>1, <1>3, GoMoves DEF Upsert, Job, JobFollows, Quits
<1>4. CASE MarkCopying(t)
  <2>1. job.state = "running" /\ job.src = task[t].src
    BY <1>4 DEF MarkCopying, JobFollows, Quits
  <2>2. job'.state = "running" /\ job'.src = task[t].src
    BY <1>4, <2>1 DEF MarkCopying, WithJobState, TypeOK
  <2>3. task'[t].pc = "send" /\ task'[t].src = task[t].src
    BY <1>4, GoMoves DEF MarkCopying
  <2> QED BY <1>1, <2>2, <2>3 DEF JobFollows, Quits
<1>5. CASE \/ Fetch(t) \/ PauseSource(t) \/ SendImport(t) \/ LoseImport(t)
           \/ VerifyFull(t) \/ VerifyShort(t)
  <2>1. job' = job /\ task[t].pc \in {"fetch", "pause"} \union Quits
    BY <1>5 DEF Fetch, PauseSource, SendImport, LoseImport, VerifyFull, VerifyShort, Quits
  <2>2. \E step \in {"pause"} \union Quits : Go(t, step)
    BY <1>5 DEF Fetch, PauseSource, SendImport, LoseImport, VerifyFull, VerifyShort, Quits
  <2> QED BY <1>1, <2>1, <2>2, GoMoves DEF JobFollows, Quits
<1>6. CASE \/ GetSlot(t) \/ Begin(t) \/ Switch(t) \/ Cleanup(t) \/ Unjob(t)
           \/ FailResume(t) \/ FailStatus(t) \/ FailJob(t)
  <2>1. task'[t].pc \in {"begin", "upsert", "cleanup", "unjob", "idle", "f_status", "f_job"}
    BY <1>6, GoMoves, DoneMoves
    DEF GetSlot, Begin, Switch, Cleanup, Unjob, FailResume, FailStatus, FailJob
  <2> QED BY <1>1, <2>1 DEF JobFollows, Quits
<1> QED BY <1>2, <1>3, <1>4, <1>5, <1>6 DEF TaskStep, WriteJob

(* What is known of the source's handle when the only task steps.          *)
LEMMA OnlyTask ==
  ASSUME OneTransfer, Down, NEW t \in Tasks, task[t].pc # "idle", WillResume
  PROVE  /\ task[t].src = row.engine
         /\ task[t].pc \in Quits \/ (crashes = 1 /\ task[t].pc \in Restarting)
  BY DEF OneTransfer, Down, WillResume, Quits, Restarting

(* The steps before the source is paused. *)
LEMMA EarlyResumed ==
  ASSUME ResumedInv, OneTransfer, NEW t \in Tasks,
         Persist(t) \/ GetSlot(t) \/ Begin(t) \/ Upsert(t) \/ Fetch(t)
  PROVE  Resumed'
<1> USE DEF ResumedInv, ServedInv
<1>1. TaskStep(t) /\ task[t].pc \in Restarting
  BY DEF TaskStep, WriteJob, Persist, GetSlot, Begin, Upsert, Fetch, Restarting
<1>2. \A u \in Tasks : u # t => task'[u].pc = "idle"
  BY <1>1, TaskStepMoves, GoMoves, DoneMoves DEF OneTransfer
<1>3. UNCHANGED <<handle, crashes>> /\ row'.engine = row.engine
  BY DEF Persist, GetSlot, Begin, Upsert, Fetch, WithStatus, TypeOK
<1>4. \E step \in {"slot", "begin", "upsert", "fetch", "pause", "f_resume"} : Go(t, step)
  BY DEF Persist, GetSlot, Begin, Upsert, Fetch, JobFollows
<1>5. /\ task'[t].src = task[t].src
      /\ task'[t].pc \in {"slot", "begin", "upsert", "fetch", "pause", "f_resume"}
  BY <1>4, GoMoves
<1>6. WillResume => WillResume'
  <2> HAVE WillResume
  <2>1. task[t].src = row.engine /\ crashes = 1
    BY <1>1, OnlyTask DEF Restarting, Quits
  <2> QED BY <1>3, <1>5, <2>1 DEF WillResume, Quits, Restarting
<1> QED BY <1>2, <1>3, <1>5, <1>6 DEF Resumed

(* From the pause to the switch: the task is on its way to the resume.     *)
LEMMA CopyResumed ==
  ASSUME ResumedInv, OneTransfer, NEW t \in Tasks,
         \/ PauseSource(t) \/ MarkCopying(t) \/ SendImport(t) \/ LoseImport(t)
         \/ VerifyFull(t) \/ VerifyShort(t)
  PROVE  Resumed'
<1> USE DEF ResumedInv, ServedInv
<1>1. TaskStep(t) /\ task[t].pc # "idle"
  BY DEF TaskStep, WriteJob, PauseSource, MarkCopying, SendImport, LoseImport,
         VerifyFull, VerifyShort
<1>2. \A u \in Tasks : u # t => task'[u].pc = "idle"
  BY <1>1, TaskStepMoves, GoMoves, DoneMoves DEF OneTransfer
<1>3. UNCHANGED <<row, crashes>>
  BY DEF PauseSource, MarkCopying, SendImport, LoseImport, VerifyFull, VerifyShort
<1>4. \E step \in Quits \ {"verify"} : Go(t, step)
  BY DEF PauseSource, MarkCopying, SendImport, LoseImport, VerifyFull, VerifyShort, Quits
<1>5. /\ task'[t].src = task[t].src /\ task'[t].dst = task[t].dst
      /\ task'[t].pc \in Quits \ {"verify"}
  BY <1>4, GoMoves
<1>6. task'[t].pc = "switch" => VerifyFull(t)
  BY <1>2, GoMoves DEF PauseSource, MarkCopying, SendImport, LoseImport, VerifyShort
<1>7. task'[t].pc = "switch" => handle'[task'[t].dst] = "active"
  BY <1>5, <1>6 DEF VerifyFull, Resumed
<1>8. CASE PauseSource(t)
  <2>1. CASE task[t].src = row.engine
    <3>1. WillResume'
      BY <1>3, <1>5, <2>1 DEF WillResume
    <3>2. handle'[row.engine] \in {"active", "paused"}
      BY <1>8, <2>1 DEF PauseSource, TryTurn, Turned, Resumed, TypeOK
    <3> QED BY <1>2, <1>3, <1>5, <1>7, <3>1, <3>2 DEF Resumed
  <2>2. CASE task[t].src # row.engine
    <3>1. handle'[row.engine] = handle[row.engine]
      BY <1>8, <2>2, TaskEnds DEF PauseSource, TryTurn, Turned, TypeOK
    <3>2. ~WillResume
      BY <1>1, <2>2, OnlyTask
    <3> QED BY <1>2, <1>3, <1>5, <1>7, <3>1, <3>2 DEF Resumed
  <2> QED BY <2>1, <2>2
<1>9. CASE ~PauseSource(t)
  <2>1. handle' = handle
    BY <1>9 DEF MarkCopying, SendImport, LoseImport, VerifyFull, VerifyShort
  <2>2. WillResume => WillResume'
    BY <1>1, <1>3, <1>5, OnlyTask DEF WillResume
  <2> QED BY <1>2, <1>3, <1>5, <1>7, <2>1, <2>2 DEF Resumed
<1> QED BY <1>8, <1>9

(* The end of the transfer, whole or not.                                  *)
LEMMA LateResumed ==
  ASSUME ResumedInv, OneTransfer, "resume" \notin MayFail, NEW t \in Tasks,
         \/ Switch(t) \/ Cleanup(t) \/ Unjob(t) \/ FailResume(t) \/ FailStatus(t) \/ FailJob(t)
  PROVE  Resumed'
<1> USE DEF ResumedInv, ServedInv
<1>1. TaskStep(t) /\ task[t].pc # "idle"
  BY DEF TaskStep, WriteJob, Switch, Cleanup, Unjob, FailResume, FailStatus, FailJob
<1>2. \A u \in Tasks : u # t => task'[u].pc = "idle"
  BY <1>1, TaskStepMoves, GoMoves, DoneMoves DEF OneTransfer
<1>3. \A u \in Tasks : task'[u].pc \notin {"verify", "switch"}
  <2>1. task'[t].pc \in {"cleanup", "unjob", "idle", "f_status", "f_job"}
    BY GoMoves, DoneMoves DEF Switch, Cleanup, Unjob, FailResume, FailStatus, FailJob
  <2> QED BY <1>2, <2>1
<1>4. crashes' = crashes
  BY DEF Switch, Cleanup, Unjob, FailResume, FailStatus, FailJob
<1>5. CASE Switch(t)
  <2>1. row'.engine = task[t].dst /\ handle' = handle
    BY <1>5 DEF Switch, NobodyWipes, TypeOK
  <2>2. handle[task[t].dst] = "active"
    BY <1>5 DEF Switch, Resumed
  <2> QED BY <1>3, <2>1, <2>2 DEF Resumed
<1>6. CASE FailResume(t)
  <2>1. row' = row /\ handle' = Turned(task[t].src, "active")
    BY <1>6 DEF FailResume, TryTurn
  <2>2. CASE task[t].src = row.engine
    <3>1. handle'[row.engine] = "active"
      BY <2>1, <2>2 DEF Turned, Resumed, TypeOK
    <3> QED BY <1>3, <2>1, <3>1 DEF Resumed
  <2>3. CASE task[t].src # row.engine
    <3>1. handle'[row.engine] = handle[row.engine]
      BY <2>1, <2>3, TaskEnds DEF Turned, TypeOK
    <3>2. ~WillResume
      BY <1>1, <2>3, OnlyTask
    <3> QED BY <1>3, <1>4, <2>1, <3>1, <3>2 DEF Resumed
  <2> QED BY <2>2, <2>3
<1>7. CASE Cleanup(t) \/ Unjob(t) \/ FailStatus(t) \/ FailJob(t)
  <2>1. row'.engine = row.engine
    BY <1>7 DEF Cleanup, Unjob, FailStatus, FailJob, WithStatus, TypeOK
  <2>2. handle'[row.engine] = handle[row.engine]
    <3>1. CASE Cleanup(t)
      <4>1. row.engine # task[t].src
        BY <3>1 DEF Cleanup, Served, TwoEnds
      <4> QED BY <3>1, <4>1, TaskEnds DEF Cleanup, TryWipe, TypeOK
    <3> QED BY <1>7, <3>1 DEF Unjob, FailStatus, FailJob
  <2>3. ~WillResume
    BY <1>1, <1>7, OnlyTask DEF Cleanup, Unjob, FailStatus, FailJob, Quits, Restarting
  <2> QED BY <1>3, <1>4, <2>1, <2>2, <2>3 DEF Resumed
<1> QED BY <1>5, <1>6, <1>7

(* The whole invariant under a task's steps.                               *)
LEMMA TaskStepResumed ==
  ASSUME ResumedInv, OneTransfer, "resume" \notin MayFail, NEW t \in Tasks, TaskStep(t)
  PROVE  ResumedInv'
<1> USE DEF ResumedInv
<1>1. ServedInv'
  BY TaskStepServed
<1>2. JobFollows'
  BY TaskStepFollows DEF ServedInv
<1>3. Down' /\ NobodyTurns'
  BY TaskStepMoves DEF Down, NobodyTurns, ServedInv
<1>4. Resumed'
  BY EarlyResumed, CopyResumed, LateResumed DEF TaskStep, WriteJob
<1> QED BY <1>1, <1>2, <1>3, <1>4

(* An import that ends leaves the target's torrent active.                 *)
LEMMA ImportResumed ==
  ASSUME ResumedInv, NEW i \in imports, ImportDone(i) \/ ImportFails(i)
  PROVE  ResumedInv'
<1> USE DEF ResumedInv, ServedInv
<1>1. ServedInv'
  BY ImportServed
<1>2. UNCHANGED <<row, job, req, api, crashes>>
  BY DEF ImportDone, ImportFails
<1>3. \A t \in Tasks :
        /\ task'[t].src = task[t].src /\ task'[t].dst = task[t].dst
        /\ \/ task'[t] = task[t]
           \/ task[t].pc = "await" /\ task'[t].pc = "f_resume"
           \/ task[t].pc = "await" /\ task'[t].pc = "verify" /\ handle'[task[t].dst] = "active"
  <2>1. CASE ImportDone(i)
    <3>1. handle'[i[2]] = "active"
      BY <2>1 DEF ImportDone, TypeOK
    <3> QED BY <2>1, <3>1, AnsweredMoves DEF ImportDone
  <2>2. CASE ImportFails(i)
    BY <2>2, AnsweredMoves DEF ImportFails
  <2> QED BY <2>1, <2>2
<1>4. \A e \in Engines : handle'[e] = handle[e] \/ handle'[e] = "active"
  BY DEF ImportDone, ImportFails, TypeOK
<1>5. JobFollows'
  BY <1>2, <1>3 DEF JobFollows, Quits
<1>6. Down' /\ NobodyTurns'
  BY <1>2, <1>3 DEF Down, NobodyTurns
<1>7. WillResume => WillResume'
  BY <1>2, <1>3 DEF WillResume, Quits, Restarting
<1>8. row.engine \in Engines /\ \A t \in Tasks : task[t].dst \in Engines
  BY TaskEnds DEF TypeOK
<1>9. Resumed'
  BY <1>2, <1>3, <1>4, <1>7, <1>8 DEF Resumed
<1> QED BY <1>1, <1>5, <1>6, <1>9

(* Requests that start transfers and the status sync turn no torrent.      *)
LEMMA RequestResumed ==
  ASSUME ResumedInv, OneTransfer', Ops \subseteq {"migrate", "resume", "sync"},
         NEW r \in Requests, RequestStarts(r) \/ RequestStep(r)
  PROVE  ResumedInv'
<1> USE DEF ResumedInv, ServedInv
<1>1. ServedInv'
  BY RequestServed DEF Wiping
<1>2. CASE RequestStarts(r)
  <2>1. UNCHANGED <<row, job, handle, task, api, crashes>> /\ api = "up"
    BY <1>2 DEF RequestStarts, MigrateCheck, ResumeCheck, CancelRead, DeleteCheck,
                BulkDeleteCheck, StatusCheck, SyncRead, Accept
  <2>2. \E step \in {"migrate", "resume", "sync"} : \E s, d, new : Accept(r, step, s, d, new)
    BY <1>2 DEF RequestStarts, MigrateCheck, ResumeCheck, CancelRead, DeleteCheck,
                BulkDeleteCheck, StatusCheck, SyncRead
  <2>3. NobodyTurns'
    BY <2>2 DEF Accept, NobodyTurns, TypeOK
  <2> QED BY <1>1, <2>1, <2>3 DEF JobFollows, Down, Resumed, WillResume
<1>3. CASE MigrateAsk(r) \/ SyncAsk(r) \/ SetStatus(r)
  <2>1. UNCHANGED <<job, handle, task, api, crashes>> /\ row'.engine = row.engine
    BY <1>3 DEF MigrateAsk, SyncAsk, SetStatus, WithStatus, TypeOK
  <2>2. /\ req[r].pc # "idle" /\ req'[r].pc \in {"idle", "migrate_commit", "set_status"}
        /\ \A q \in Requests : q # r => req'[q] = req[q]
    BY <1>3 DEF MigrateAsk, SyncAsk, SetStatus, Advance, Reply, NoReq, TypeOK
  <2> QED BY <1>1, <2>1, <2>2 DEF JobFollows, Down, NobodyTurns, Resumed, WillResume
<1>4. CASE MigrateCommit(r) \/ ResumeCommit(r)
  <2>1. UNCHANGED <<job, handle, api, crashes>> /\ row'.engine = row.engine
    BY <1>4 DEF MigrateCommit, ResumeCommit, WithStatus, TypeOK
  <2>2. /\ req[r].pc # "idle" /\ req'[r].pc = "idle"
        /\ \A q \in Requests : q # r => req'[q] = req[q]
        /\ Launch(req[r].src, req[r].dst)
    BY <1>4 DEF MigrateCommit, ResumeCommit, Reply, NoReq, TypeOK, NobodyWipes
  <2>3. PICK t \in Tasks :
           /\ task[t].pc = "idle"
           /\ task'[t] = [pc |-> "persist", src |-> req[r].src, dst |-> req[r].dst]
           /\ \A u \in Tasks : u # t => task'[u] = task[u]
    BY <2>2, LaunchMoves
  <2>4. task'[t].pc = "persist"
    BY <2>3
  <2>5. \A u \in Tasks : u # t => task'[u].pc = "idle" /\ task[u].pc = "idle"
    BY <2>3, <2>4 DEF OneTransfer
  <2>6. api = "up" /\ ~WillResume
    BY <2>2, <2>3, <2>5 DEF Down, WillResume, Quits, Restarting
  <2>7. JobFollows' /\ Down' /\ NobodyTurns'
    BY <2>1, <2>2, <2>4, <2>5, <2>6 DEF JobFollows, Down, NobodyTurns, Quits
  <2>8. Resumed'
    BY <2>1, <2>4, <2>5, <2>6 DEF Resumed
  <2> QED BY <1>1, <2>7, <2>8
<1>5. /\ ~CancelWipe(r) /\ ~CancelResume(r) /\ ~CancelDrop(r) /\ ~DeleteRefused(r)
      /\ ~DeleteCommit(r) /\ ~StatusTurn(r) /\ ~\E wipe \in BOOLEAN : DeleteRemove(r, wipe)
  BY DEF CancelWipe, CancelResume, CancelDrop, DeleteRefused, DeleteCommit, DeleteRemove,
         StatusTurn, NobodyWipes, NobodyTurns, WipeSteps
<1> QED BY <1>2, <1>3, <1>4, <1>5 DEF RequestStep

(* A first crash leaves the running job behind, and the recovery starts it *)
(* again.                                                                  *)
LEMMA CrashResumed ==
  ASSUME ResumedInv, Crash \/ DropStale \/ Recover
  PROVE  ResumedInv'
<1> USE DEF ResumedInv, ServedInv
<1>1. ServedInv'
  BY CrashServed
<1>2. UNCHANGED <<row, handle>>
  BY DEF Crash, DropStale, Recover
<1>3. CASE Crash
  <2>1. /\ \A t \in Tasks : task'[t].pc = "idle"
        /\ \A r \in Requests : req'[r].pc = "idle"
        /\ crashes' = crashes + 1 /\ crashes \in Nat /\ api' = "down" /\ job' = job
    BY <1>3, MigrationAssumption DEF Crash, Idle, NoReq, TypeOK
  <2>2. crashes' <= 1 /\ WillResume => WillResume'
    <3> HAVE crashes' <= 1 /\ WillResume
    <3>1. crashes = 0
      BY <2>1
    <3>2. PICK t \in Tasks : task[t].src = row.engine /\ task[t].pc \in Quits
      BY <3>1 DEF WillResume
    <3>3. job.state = "running" /\ job.src = row.engine
      BY <3>2 DEF JobFollows
    <3> QED BY <1>2, <2>1, <3>1, <3>3 DEF WillResume
  <2>3. crashes' <= 1 => crashes <= 1
    BY <2>1
  <2>4. crashes' # 0
    BY <2>1
  <2>5. JobFollows' /\ Down' /\ NobodyTurns'
    BY <2>1, <2>4 DEF JobFollows, Down, NobodyTurns, Quits
  <2>6. Resumed'
    BY <1>2, <2>1, <2>2, <2>3 DEF Resumed
  <2> QED BY <1>1, <2>5, <2>6
<1>4. CASE DropStale
  <2>1. \A t \in Tasks : task[t].pc = "idle"
    BY <1>4 DEF DropStale, Down
  <2>2. /\ UNCHANGED <<task, req, crashes>> /\ api' = "recover" /\ api = "down"
        /\ job.state = "running" => job' = job
    BY <1>4 DEF DropStale
  <2>3. JobFollows' /\ Down' /\ NobodyTurns'
    BY <2>1, <2>2 DEF JobFollows, Down, NobodyTurns, Quits
  <2>4. WillResume => WillResume'
    BY <1>2, <2>1, <2>2 DEF WillResume, Quits, Restarting
  <2> QED BY <1>1, <1>2, <2>1, <2>2, <2>3, <2>4 DEF Resumed
<1>5. CASE Recover
  <2>1. \A t \in Tasks : task[t].pc = "idle"
    BY <1>5 DEF Recover, Down
  <2>2. UNCHANGED <<req, crashes>> /\ api' = "up"
    BY <1>5 DEF Recover
  <2>3. CASE job.state \in {"running", "queued"}
    <3>1. PICK t \in Tasks :
             /\ task'[t] = [pc |-> "persist", src |-> job.src, dst |-> job.dst]
             /\ \A u \in Tasks : u # t => task'[u] = task[u]
      BY <1>5, <2>3, LaunchMoves DEF Recover
    <3>2. task'[t].pc = "persist" /\ task'[t].src = job.src
      BY <3>1
    <3>3. \A u \in Tasks : task'[u].pc \in {"idle", "persist"}
      BY <2>1, <3>1, <3>2
    <3>4. JobFollows' /\ Down' /\ NobodyTurns'
      BY <2>2, <3>3 DEF JobFollows, Down, NobodyTurns, Quits
    <3>5. WillResume => WillResume'
      BY <1>2, <2>1, <2>2, <3>2 DEF WillResume, Quits, Restarting
    <3> QED BY <1>1, <1>2, <2>2, <3>3, <3>4, <3>5 DEF Resumed
  <2>4. CASE job.state \notin {"running", "queued"}
    <3>1. task' = task
      BY <1>5, <2>4 DEF Recover
    <3>2. JobFollows' /\ Down' /\ NobodyTurns'
      BY <2>1, <2>2, <3>1 DEF JobFollows, Down, NobodyTurns, Quits
    <3>3. ~WillResume
      BY <2>1, <2>4 DEF WillResume, Quits, Restarting
    <3> QED BY <1>1, <1>2, <2>1, <2>2, <3>1, <3>2, <3>3 DEF Resumed
  <2> QED BY <2>3, <2>4
<1> QED BY <1>3, <1>4, <1>5

(* The invariant of PauseIsTemporary under every step.                     *)
LEMMA StepResumed ==
  ASSUME ResumedInv, OneTransfer, OneTransfer', "resume" \notin MayFail,
         Ops \subseteq {"migrate", "resume", "sync"}, [Next]_vars
  PROVE  ResumedInv'
<1>1. CASE UNCHANGED vars
  BY <1>1 DEF vars, ResumedInv, ServedInv, TypeOK, TwoEnds, NobodyWipes, Served,
              JobFollows, Down, NobodyTurns, Resumed, WillResume
<1> QED BY <1>1, TaskStepResumed, ImportResumed, RequestResumed, CrashResumed DEF Next

(* Initially the home engine seeds.                                        *)
LEMMA InitResumed == Init => ResumedInv
  BY InitServed, MigrationAssumption
  DEF Init, ResumedInv, JobFollows, Down, NobodyTurns, Resumed, NoJob, Idle, NoReq, Quits

(* The pause of the source is no pause of the user: with one transfer at a *)
(* time, no requests but transfers, resumes and the status sync, and an    *)
(* engine that can be resumed, a torrent at rest that is shown as seeding  *)
(* is active, through every other failure and one death of the API.  (A    *)
(* second death may come before the repeated transfer has its job again.)  *)
THEOREM PauseEnds ==
    ASSUME Ops \subseteq {"migrate", "resume", "sync"}, "resume" \notin MayFail
    PROVE  Spec /\ []OneTransfer => [](crashes <= 1 => PauseIsTemporary)
<1>1. ResumedInv => (crashes <= 1 => PauseIsTemporary)
  BY DEF ResumedInv, Resumed, WillResume, PauseIsTemporary, Quiet, Quits, Restarting
<1>2. ResumedInv /\ OneTransfer /\ OneTransfer' /\ [Next]_vars => ResumedInv'
  BY StepResumed
<1> QED BY <1>1, <1>2, InitResumed, PTL DEF Spec
=============================================================================
