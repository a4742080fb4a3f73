# Verification of the torrent seeding platform

TLA+ models of the platform wherever the order of steps, a crash, a lost answer
or a stale read decides whether it does what it promises: the transfer of a
torrent between engines and what it waits for, what an engine keeps of its
torrents and how it brings them back, the requests, counters, accounts and
events of the orchestrator, uploads, downloads, backups and alerts. TLC checks
the models on small instances; TLAPS proves the theorems of section 4 for every
value of the constants.

## 1. The system

The orchestrator is an API process (FastAPI, one asyncio loop) with a Postgres
database. Several engines hold the content; each is a libtorrent session behind
an HTTP API, with an asyncio loop of its own and a pool of threads. Jobs run in
an ARQ worker, a process of its own. Uploads of content go through a relay to
an upload service beside the engine. A web client and a desktop client talk to
the API.

| Component | State | Operations | Correct when |
|---|---|---|---|
| Transfer slots (`work_queue.py`) | `_active`, `_waiters` per key | acquire, release, `transfer_slots` | no slot leaks, no engine above the limit, nobody waits for ever |
| Transfer (`migrate.py`) | `migration_jobs`, `torrents.status/engine_id`, background tasks | launch, persist, copy, verify, switch, clean up, fail, cancel, recover | the engine of the row has the content; every moving torrent gets out of that status; the source's pause is temporary |
| Copy of content (`torrent_runtime.py`, `migrate.py`) | files, `.part` files, a staged import | local, stream, direct, http | an attempt goes on where an earlier one stopped, and ends with whole files |
| Check admission (`check_admit.py`), recheck queue (`hash_queue.py`) | lists, sets and slots per engine | hold, drop, tick, set_limit; submit, pump | consistent lists, the limit on readers, every wave ends |
| Upload hold (`upload_hold.py`) | reference count, checked torrents, the wanted limit | begin, end, observe, sync, save of the session | the cap is on exactly while something is hashed |
| Creator (`creator.py`) | tasks, cancel marks, threads, child processes | create, cancel, delete, prune, run | a cancelled task ends, its hold is given back |
| Torrents on the volume (`torrent_runtime.py`, `fastresume_io.py`) | session, handle, `.torrent`, fastresume | start, stop, add, remove, restore, save, export, list | what was given to the engine comes back after a crash, and nothing else |
| Peer discovery (`torrent_runtime.py`) | session switches, flags per torrent | set_net, set_private, add, restart | private torrents stay private, the policy arrives |
| Downloads (`download_http.py`, `zipstream.py`, `routers/download.py`) | a plan per archive, places for archives | ticket, range, archive | the promised length, whole files, each where the directory says |
| Uploads of content (`storage.py`, `router.py`, the relay, `fileUpload.ts`) | staging directories, the file at its place | create, chunk, complete, cancel | the file is whole, the answer true, a cancel final |
| Registry and policies (`engine_pool.py`, `routers/engines.py`, `network.py`, `settings.py`) | table `engines`, the pool, settings | register, refresh, evict, set, broadcast | the right engine is called at the right address with the right limit |
| HTTP API (`routers/torrents.py`), restores (`restore.py`, `worker.py`) | rows, handles on the engine | create, upload, replace, delete, pause, resume; restore, bulk registration | rows and handles agree |
| Accounting (`runtime_snapshot.py`, `worker.py`, `quotas.py`, `upload_history.py`) | totals, meters, quotas, samples | fold, switch, meter, enforce, reset, sample | every byte counted once, a quota's pause can be undone |
| Live updates (`ws_hub.py`, `ws.py`, pollers, `ws.ts`) | subscriptions, queues per client | subscribe, publish, reconnect | an open page shows the present state |
| Creation queue (`routers/creator.py`) | tasks by number | delete, seed, announce | seeded is what was asked for, each end announced once |
| Accounts and sessions (`auth.py`, `routers/auth.py`) | users, keys, sessions | log in, create, update, delete | an administrator remains, sessions follow their user |
| Backups (`backup_engines.py`, `routers/backups.py`, `maintenance.py`) | archives, dumps, the gate | nightly run, prune, dump, restore | what is listed can be restored; nobody works during a restore |
| Alerts (`alerts.py`) | what was told | evaluate, notify | readers of the webhook know what is wrong |
| Audit, metrics, system information, user interfaces | | | not modelled |

Interactions: the API calls engines over HTTP and they never call each other
except in a `direct` transfer; an engine calls the API to register itself. API
coroutines share the database, the slots and the list of tasks; the worker
shares the database with them. On an engine the admission loop, the recheck
jobs, the saves and the requests share the handles, and touch libtorrent in
threads under one lock.

Hard behaviours: check-then-act around awaits; a process dying between two
transactions or between two files; calls that time out while the other side
goes on, and are repeated; a writer that writes what it read seconds ago; an
object that was removed and added again under the same name; limits and
policies that change while work is queued. `PROJECT.json` lists these hazards at
their lines.

## 2. Modules

| Module | Models | Run | Proofs |
|---|---|---|---|
| `TransferLimits` | the promise of the transfer queue | `slots` | |
| `Placement` | the promise of a transfer to the users of a torrent | `migration` | |
| `ReadSlots` | the promise of an engine's queues to its disk | `checks` | |
| `PlacedFile` | the promise of uploads of one name | `api` | |
| `TransferSlots` | `EngineSlots` and `transfer_slots`; implements `TransferLimits` | `slots*` | `TransferSlotsProofs` |
| `Migration` | one torrent's transfers: task, requests, sync, crash and recovery; implements `Placement` | `migration*` | `MigrationProofs` |
| `CheckQueue` | one engine's admission, recheck queue and the requests beside them; implements `ReadSlots` | `checks*` | `CheckQueueProofs` |
| `UploadHold` | the temporary upload cap of an engine | `engine` | `EngineWorkProofs` |
| `Creator` | the creation of torrents, on top of `UploadHold` | `engine` | `EngineWorkProofs` |
| `EngineVolume` | one torrent in the session, in the list and on the volume | `engine` | `EngineProofs` |
| `ContentCopy` | copies of content file by file | `engine` | `EngineWorkProofs` |
| `PeerDiscovery` | DHT, PEX and LSD of private and public torrents | `engine` | `EngineProofs` |
| `Downloads` | files and archives sent to clients | `engine` | `EngineProofs` |
| `ContentUpload` | chunked uploads; implements `PlacedFile` | `api` | `ClientProofs` |
| `Accounts` | users, keys, roles, sessions | `api` | `OrchestratorProofs` |
| `EngineRegistry` | registry, pool, limits and policies | `api` | `OrchestratorProofs` |
| `Hub` | sockets, channels, publishers | `api` | `OrchestratorProofs` |
| `Accounting` | totals, meters, quotas, the chart | `api` | `DatabaseProofs` |
| `Catalog` | rows and handles through requests and restores | `catalog` | `DatabaseProofs` |
| `CreatorDesk` | the creation queue seen from the orchestrator | `api` | `ClientProofs` |
| `Backups` | archives, dumps and the gate | `api` | `OrchestratorProofs` |
| `Alerts` | the alert loop and its webhook | `api` | `OrchestratorProofs` |
| `MCTransferSlots`, `MCMigration`, `MCCheckQueue` | instances for TLC | | |
| `MCCatalog` | the actors that meet in `Catalog` | `catalog` | |
| `MCEngine`, `MCApi` | the parts of an engine and of the orchestrator put together | `engine`, `api` | `EngineProofs`, `OrchestratorProofs` |

`Creator` is composed with `UploadHold` by EXTENDS: its tasks take and give back
references of the same count. `Migration` uses the slots as a step that waits,
`ContentCopy` is what happens inside its copy step. The other modules share no
state with each other in the code's own terms, so each stands alone. Operators
whose comment starts with "Mutant of" are slips of the kind the properties are
there to catch; the model does not use them.

### TransferSlots

`active` is `EngineSlots._active`, `waiters` the queues of futures (a future is
named by the task that awaits it), `pc` and `held` the place of each coroutine
inside `transfer_slots`, `seen` the limit it read last. The read of the limit
(`ReadLimit`) is a step of its own, because `acquire` awaits it outside the
lock; the locked sections contain no await and are one step (`Take`, `Enqueue`,
`Release`). `ReadFails` is an exception in that read and the `finally` block
behind it. `SetLimit` is an administrator's change of the setting.

### Migration

`row` is the torrents row, `job` the migration_jobs row, `copy` and `handle`
what each engine has on disk and in its session, `imports` the imports that run
on an engine, `task` the background tasks, `req` the requests and sync rounds in
progress. One step is one transaction or one call to an engine, in the order of
the code; what a request read is kept in its record, so that it acts on it
later. `"full"` means a progress of 0.999 or more, the code's own test.
Errors of the calls in `MayFail` take the code's error path. DELETE holds the
row lock of a queued job until it commits (`JobLocked`); a write that waited
for it meets a missing row (`Overtaken`). `Crash` loses tasks and requests and
keeps database, engines and running imports; `DropStale` and `Recover` are
`recover_orphaned_migrations`. Database errors, progress counters and the
engines missing from the pool are left out.

### CheckQueue

`held`, `queued`, `probing`, `hashing`, `waiting`, `known`, `sawFull` are the
fields of `CheckAdmit`, `order` and `job` those of `HashQueue`, `lt` what the
code sees of libtorrent, `userPaused` the file of user pauses and `savedPaused`
the paused flag in the fastresume files. `ReadState` reads one torrent's state,
`Tick` is the whole of `CheckAdmit.tick` (settle, shrink, hand out slots),
`QueuePause` and `QueueResume` carry out one decision each, because the code
awaits a thread between them. A request is split where it awaits its thread
(`Pause`, `PauseTorrent`, `SavePaused`). `Check` is libtorrent itself, external:
a torrent that is not paused reads resume data, then files if it has to. Probe
timeouts fire at any time (`late`); a recheck that stands paused ends after its
six hours at any time. A recheck that reads for longer than that is left out
(`JobEnds`): there the code gives the slot back while libtorrent still reads.

### UploadHold and Creator

`desired` is the limit the operator asked for, `refs` the reference count,
`session` the limit libtorrent has; `label` and `pending` are what a torrent
does, `watched` and `last` the tracker's two sets. Observers (the event loop,
one torrent at a time), pollers (`session_stats`, all of them) and savers
(`_write_session_state`, which lifts the cap while it writes) are threads whose
steps are the single calls under the lock. A task of the creator is a record
with its supervisor's place, a child process with the last message it sent, and
a mark if somebody asked to cancel it. `Prune` may forget an old task at any
moment. A child that hangs is a child that never sends anything.

### EngineVolume

One torrent. `inSession` is its incarnation in libtorrent (a torrent that is
removed and added again is another one), `handle` the incarnation the engine
lists, `torrentFile` and `resume` the two files, each none, torn or good.
A call of `add_torrent`, `remove`, a save, an export, a poll or a start is split
at its awaits; it keeps the handle it took. `assigned` is what the engine has
been asked for. `accident` marks runs in which something happened that the code
does not guard against: a save or an export wrote a file for an incarnation that
had gone, a poll dropped the handle of a new incarnation, or the process died
while the torrent's only file was being rewritten.

### ContentCopy

A file is a sequence of pieces, good ones and the holes that a write beyond the
end leaves; its length is what the code trusts. `copier` are attempts at work, of
which the orchestrator may have given up on some. `broken` marks a run in which
a copy that met another one broke off: then a later copy may take a
file with holes for a complete one. A copy that lost its `.part` to the other one
and fails at the rename does not count as such.

### PeerDiscovery

`wanted` is the orchestrator's policy, `net` what the engine was told, `enabled`
the session's switches, `added` the torrents with the flags that switch a source
off, `fast` the flags a save kept. `set_net` takes the list of handles, reads the
policy and applies it handle by handle in a thread. `opened` are the private
torrents that were opened by hand, `StaysPrivate` leaves them out. What
`set_net` decides looks at the torrent and the policy only, so that PEX comes
back on a public torrent that was made private by hand, and goes from a private
one that was opened, with the next registration; `PolicyArrives` states that
much and no more.

### Downloads

Lengths are counted in units, `U32` is the largest number of a plain field.
`ZipList` and `ZipLook` are `_zip_entries`, `ZipStart` the limit on archives,
`ZipOpen`, `ZipChunk` and `ZipNext` the stream, which is cut when a file is
shorter than the plan said. Files arrive, are cut and vanish meanwhile. A client
goes on with "bytes=lo-"; ranges with an end and suffix ranges are not modelled.

### ContentUpload

`ses` is the staging directory with its meta file, `final` the file at its
place, `client` the browser, `put` the chunks on their way, whose session is
loaded before the body is awaited. The relay repeats a request whose answer was
lost (`lost`). The process may die inside a handler: with a torn meta file, between the unlink
and the rename of `complete`, or behind the rename.

### Accounts

A request reads (the counts, the user) in one step and writes in another;
`stale` on a request says that accounts changed meanwhile, `overlapped` that a
removal was carried out in spite of that, and `late` marks a session whose login
was at work while its user changed. The exemptions are the three places where
the code's check and its write are not one transaction.

### EngineRegistry

`rec` are the rows of `engines`, `pool` the orchestrator's clients, `eng` the
engines themselves; `reg`, `rd`, `set`, `sweep` and `cast` are registrations,
refreshes and broadcasts at work, each holding what it read. A limit that was
removed while the engine was cut off is not sent again, because
`register_engine` sends only what is set; the property leaves it out.

### Hub

The state of a torrent is a number that grows; `conn` are the clients of the hub
with their merged queues, `tab` the page with its subscriptions, `inbox` what
the page sent. Publishers read first and publish later, and the first snapshot
of a subscription is read after it took effect. `last` are the pushed channels
whose last message was offered to the page that is open: `EndOnItsWay` follows
such a message to the page.

### Accounting

`peer` has each engine's counter and the one of its last resume file, `trow` the
row's total, `snap` and `work` the rounds of the snapshot and of the worker
between reading and writing. `hist` is history: what was sent, what came back
with an engine that died (`again`), what no snapshot will see (`unfolded`: sent
before a switch or a crash and not yet seen, or sent by an engine that is neither
the row's nor the target), whether a switch came into a snapshot (`mixed`) or the
torrent went back to an engine that a snapshot was still to ask (`back`), and
whether a round of the worker was overtaken by a request or failed (`slipped`).
The chart has samples and sums of its own, so that `ChartIsSent` stands beside
`CountedOnce` in `AccountingSound`.

### Catalog

`row` is the table as committed, `handle` and `disk` the engine's list and its
volume. A request (`req`) has one session, as `get_db_session` gives it: it calls
the engine for one of its rows after the other, in any order (`CallAnswered`,
`CallFails`), flushes each (`Write`, which waits for the lock of whoever flushed
that row first, and fails on a row that is gone), and commits all of them or none
(`Commit`, `RollBack`). A call that fails with an `httpx.HTTPError` leaves its row
out of a request for many rows and ends any other; a delete goes on, unless
`SEEDING_REQUIRE_ENGINE_FOR_DELETE` says otherwise (`Strict`). `Breaks` is every other
exception: the `KeyError` of an engine that left the pool, an error of the
database, the end of the process. It rolls back all rows, with their torrents
paused, resumed, added or removed already.

A restore (`job`) reads all rows and then works on each, in any order. The bulk
registration writes its rows in one session too, which its coroutines share: one
that begins a flush while another one's is under way fails (`FlushBegin`), which
rolls back the whole pass (`BatchRollBack`). It brings back magnets only; a queued
row without a link is refused by the engine and stays queued (`Known`).

`held` says who is at work on a row and `made` who finished last with it: alone,
with every call for it answered, and committed. The property speaks of those rows.

### CreatorDesk, Backups, Alerts

`CreatorDesk` has the tasks on the engine's shelf with their numbers, requests
that fetch path and file in two calls, and announcements; an engine that starts
again gives its numbers out again, so a task has a name of its own (`no`) beside
the number. `crossed` marks a seed request during which the engine restarted,
`announced` counts the announcements of each task, `lost` are those a fault kept
back. `Backups` has the archives with their ages in nights and the dumps;
`excused` marks overlapping restores, one that failed or outlasted the gate, and
a crash. A failed `pg_dump` leaves a torn dump in the list, which
`create_backup` does not remove; the property speaks of the archives of engines
and of the gate, not of dumps. `Alerts` has the loop's round between asking, raising and
clearing; `missed` are alerts whose message a fault kept back.

## 3. Runs

| Run | Question | States | Outcome |
|---|---|---|---|
| `slots` | counters and refinement under a changing limit and failing reads; without them no idle slot, everyone served | 37 thousand | holds |
| `slots_raised` | does a raised limit reach the queue? | | violated |
| `migration` | refinement of `Placement`, tasks and pauses under failures and a crash | 1.07 million | holds |
| `migration_live` | does every transfer end, next to any one request? | 160 thousand | holds |
| `migration_cancel` | is the content kept by a cancel? | | violated |
| `migration_sync` | does the sync leave `migrating` alone? | | violated |
| `checks` | lists, waiting torrents, refinement of `ReadSlots` | 213 thousand | holds |
| `checks_live` | does every wave end, across a restart? | 27 thousand | holds |
| `checks_pause` | does a user's pause hold? | | violated |
| `engine` | the upload cap, the volume, copies, discovery, downloads | 168 thousand | holds |
| `catalog` | rows and handles through requests, rollbacks, restores and a restart | 1.12 million | holds |
| `api` | uploads, accounts, registry, live updates, accounting, creation queue, backups, alerts | 317 thousand | holds |

The four violated runs are findings: each shows the code doing what a comment
or a document of the repository denies, quoted in `PROJECT.json`.

**One part at a time.** The modules of `engine` and `api` share no state, so
that all their interleavings together would say nothing more than each alone.
`MCEngine` and `MCApi` choose one part in the initial state (`running`); only
that part moves, and the others stay at one of their initial states. Larger
modules are split further by the actors that meet: the upload cap with limits
and savers, with two torrents, with a task, and two tasks with one worker; peer
discovery with two policies, or one and switches by hand; the registry with
limits, or with the policy. `MCCatalog` does the same with the actors of one module:
two requests, or one kind of restore beside a request and a restart; and in
`MCTransferSlots` a behaviour is either `calm`, with four transfers and a limit
that stays as it is, or has three transfers, a limit that changes and reads of it
that fail. What a part leaves out is named at its definition.

| Part | Properties it is there for |
|---|---|
| `limits`, `checks`, `hold`, `jobs` | `CapSound`, `CapFollowsHashing`, `ThreadsAnswer`, `CancelHeard` |
| `volume` | `VolumeSound`, `ComesBack` |
| `copy` | `ContentSound`, `RetryKeeps` |
| `policies`, `switches` (discovery) | `StaysPrivate`, `PolicyArrives` |
| `downloads` | `DownloadSound` |
| `upload` | `UploadSound` |
| `admins`, `logins` | `AccountsSound` |
| `registry`, `policies` (registry) | `RegistryConverges` |
| `polled`, `pushed` | `Delivered`, `EndOnItsWay` |
| `totals`, `quota-moves`, `quota-deaths`, `chart` | `AccountingSound` |
| `requests`, `startup`, `worker`, `bulk` (of `MCCatalog`) | `Catalogued` |
| `deletions`, `seeding` | `DeskSound`, `AllAnnounced` |
| `nights`, `dumps` | `BackupsSound` |
| `alerts` | `AlertsTold` |

Four of these are conjunctions of named parts, each with a mutant of its own
(and, the first apart, with theorems of their own): `VolumeSound` (`Recoverable`,
`GoneIsGone`, `ListedIsLive`), `AccountsSound` (`AdminRemains`,
`SessionsFollow`), `AccountingSound` (`CountedOnce`, `ChartIsSent`,
`PauseIsListed`) and `DeskSound` (`SeedMatches`, `NeverTwice`).

**Bounds.** Three or four transfers over three engines give the slots a queue
of two behind a holder, a transfer that shares one key only, and both orders of
arrival. Two engines are all a transfer involves; one task and two requests at
a time give every race of a transfer with two requests, or with a request and a
sync round, and one crash gives every cut between two steps. The admission needs
two torrents to fill one slot and have another wait, limits 1 and 2 to shrink
and grow; the torrents are interchangeable (`SYMMETRY Alike`, in the safety run
only).

The hazards of the other modules are races of two actors around one object, so
two actors and one object, or one actor and two objects, are enough for each.
A torrent on the volume gets two incarnations (`MaxAdds`), because what goes
wrong is taking one for the other, and two crashes, because the second may hit
the start after the first. Files have two pieces: a beginning and the rest; an
archive has two files, of which the second begins at an offset that needs the
64-bit format (`U32 = 3`). One chunk per upload, and only one of two uploads
loses answers (`Unlucky`). Two accounts and a key are the fewest with which one
administrator may remove another. One engine that moves twice between two
addresses; two connections of one browser, so that one comes after a break; two
changes of what a channel shows, or three toggles of the page; two units sent,
a quota of one or none, two switches of the engine, one crash; two tasks; two engines and three nights with a retention
of one; one outage that hides one condition. Bounds named `Max...` only cap what would otherwise repeat.

In `catalog` a transaction of two rows is the smallest that can have one row done
and the other one failed; the second actor needs only the first row to meet it
there. So any request for one row or both runs beside one for the first row, and
each restore of both rows beside a deletion or pause of one or both and a restart
of the engine. One fault is enough to have a row failed, a call lost or a
transaction rolled back, and one restart to lose any of the handles.
`RowsHaveHandles` has no such bounds.

**One transfer at a time.** `Tasks = {t1}` excludes overlapping transfers of one
torrent, which the code does allow: a second request that passed its check
before the first one committed, or a new transfer accepted between the switch
and the end of the cleanup. TLC finds with two tasks that the old cleanup wipes
the new target, and that a failing old task marks the new job as failed, so that
`ContentKept` and `NeverStranded` are lost. The properties of `migration` are
those of transfers that do not overlap. `TypeCorrect` and `JobsHaveTasks` need no
such bound; the other theorems about `Migration` say in their statement that
transfers do not overlap (`[]OneTransfer`), for any number of tasks.

**What the properties leave out**, because the code does not give it:

- *Slots.* A limit read that fails consumes a wake-up and leaves the next waiter
  asleep; `EventuallyGranted` and `NoIdleSlotWhenCalm` are about behaviours in which
  no read fails and the limit stays (`calm`).
- *Crashes during a transfer.* With a crash `NeverStranded` fails: the API may
  die after it committed `migrate_queued` and before the task wrote its job, or
  twice in a row around `set_state("failed")`. No document promises otherwise.
- *Checks.* With rechecks and resumes a pause decided by the loop may hit a
  torrent that has left the admission, and nobody resumes it before the next
  restart; a limit that changes for ever can take back every probe. Explicit
  rechecks start beside admitted checks without asking the admission
  (`hash_queue.py:55`), so up to twice the limit may read at once; `ReadSlots`
  promises what the code keeps, and `DiskIsBounded` says what that comes to. A
  recheck that takes more than six hours loses its slot while it reads
  (`torrent_runtime.py:2394`), which is not modelled; with one, the disk has a
  reader more.
- *Volume.* Requests that add and remove one torrent take turns
  (`Overlap = FALSE`): overlapping ones are not ordered by the engine, and a
  removal may delete the files of the addition that overtook it. `accident`
  stands for the windows described in section 2.
- *Copies.* `SingleFile = FALSE`: `content_manifest` (`torrent_runtime.py:1483`)
  gives a torrent of one file a root of its own name, so that `direct` and `http`
  write it to `save_path/name/name`, where libtorrent does not look for it; with
  `SingleFile = TRUE` TLC shows `ContentSound` violated. Overlapping copies of
  which one breaks off (`broken`) may leave a file with a hole and the right
  size.
- *Downloads.* A suffix range ("bytes=-n") takes another branch of
  `_parse_range` (`download_http.py:46`) that is not modelled. A file that is not
  complete is served as it is.
- *Catalog.* Rows that were rolled back, whose torrents the engine has already
  added, removed, paused or resumed: of `bulk_pause`, `bulk_resume` and
  `bulk_delete` (`torrents.py:484-551`) after an exception other than
  `httpx.HTTPError`, of `bulk_register_engine` (`worker.py:229-250`) after that or
  after two flushes that meet. Nothing in the code puts them right before the next
  request or restore that is alone with the row. Torrents whose call was not
  answered, and two actors at work on one row at a time, are exempt likewise.
- *Accounts.* Two removals, or a login and a change, that overlap
  (`overlapped`, `late`): the code does not prevent what these races lead to, and
  `AccountsSound` does not catch it.
- *Counters.* What a switch takes away before a snapshot saw it is lost, and
  what comes back with an engine that died is counted again: `CountedOnce`
  states how much. A reset of a quota reads the list and empties it with awaits
  between (`quotas.py:63-87`). It is one step here: a list read before the worker
  added the torrent is its alternative in which nothing is resumed, and the
  histories where it meets a round or fails are set apart (`slipped`).
- *Backups.* The gate is one flag: overlapping restores, or one longer than ten
  minutes, open it (`excused`), and `BackupsSound` does not catch that. An engine that never made an archive is not shown as stale.
- *Alerts.* A message that failed is not repeated (`missed`, exempt in
  `AlertsTold`), an outage hides the
  conditions only its source reports, and a restart forgets.

**Fairness.** `TransferSlots`: weak fairness of every coroutine that can run,
which the asyncio loop gives; a copy ends because each wait in `run_migration`
has a timeout. `Migration`: weak fairness of tasks, requests, imports and the
container's restart; strong fairness of the writes to the job, because Postgres
queues the waiters of a row lock. `CheckQueue`: weak fairness of the loop, the
jobs, the started requests and of libtorrent's check of a torrent that is not
paused. `UploadHold`, `Creator`: of the threads in progress, of the polls that
come again and again, of the end of a grace period, and of a child that was told
to stop, which looks at its event after every piece; not of the end of the
hashing, so `CancelHeard` holds for hashing that never ends. `EngineVolume`: of
the calls in progress, of the container's restart and of the end of a stop.
`PeerDiscovery` and `EngineRegistry`: of the registration, which every engine
repeats, of the refresh loop, and of what was begun. `Hub`: of the browser's
reconnect, of each client's reader and writer, and of the publishers' rounds.
`CreatorDesk`: of announcements in progress. `Alerts`: of the loop's rounds.
None for the other modules, of which only safety is stated. No user is assumed to
do anything, and no fault to happen or to stay away beyond its bound.

**Deadlock** is checked for the slots. Elsewhere it is switched off: the system
rests when the torrent is deleted, every request is answered or a bound is
reached, and the liveness properties say that work does not stop before its end.

## 4. Theorems

All theorems are about every value of the constants that the named assumption of
the module admits, where TLC saw one. In each proof module an inductive
invariant is shown to hold in the initial states and to be kept by every step,
and the theorems follow from it; where a theorem is about a step, so does the
step. What a theorem asks beyond the assumption of the module is part of its
statement.

| Module | Theorems | Assumption |
|---|---|---|
| `TransferSlotsProofs` | `TypeCorrect`, `Accounting`, `Bounded`, `Refinement` | `ConstantsAssumption` |
| | `SlotsAreUsed` | and: reads do not fail, the limit does not change |
| `MigrationProofs` | `TypeCorrect`, `JobsHaveTasks` | `MigrationAssumption` |
| | `RowIsServed`, `TransferPlaces` | and: no request of `Wiping`, `[]OneTransfer` |
| | `NothingIsStranded` | and: `[]OneTransfer`; speaks of states before any crash |
| | `PauseEnds` | and: no requests but transfers, resumes and the sync; a resume is answered; `[]OneTransfer`; speaks of states after at most one crash |
| `CheckQueueProofs` | `CheckTypes`, `TorrentHasOnePlace`, `WhoWaitsIsPaused`, `SlotsAreShared` | `CheckQueueAssumption` |
| | `DiskIsBounded` | and: a bound on the limits that are ever set |
| `EngineWorkProofs` | `TypeCorrect`, `CapIsSound`, `TasksHaveThreads` | `UploadHoldAssumption`, `CreatorAssumption` |
| | `CopyTypesKept`, `RetriesKeep` | `CopyAssumption` |
| | `ContentIsSound` | and `Alike`: several files, or none of the ways that write a single one elsewhere |
| `EngineProofs` | `VolumeTypes`, `VolumeIsSound` | `VolumeAssumption` and `~Overlap` |
| | `DiscoveryTypesKept`, `PrivateStaysPrivate` | `DiscoveryAssumption` |
| | `DownloadTypes`, `DownloadsAreSound` | `DownloadAssumption` |
| | `EngineTypes` | those of the parts, `EngineInstance` and `~Overlap` |
| | `EngineIsSound` | and `Alike` |
| `ClientProofs` | `UploadTypes`, `UploadPlaces`, `UploadIsSound` | `UploadAssumption` |
| | `DeskTypes`, `SeedsMatch`, `NobodyToldTwice`, `DeskIsSound` | `DeskAssumption` |
| `DatabaseProofs` | `CatalogTypes`, `RowsHaveHandles` | `CatalogAssumption` |
| | `AccountingTypes`, `BytesCountedOnce`, `PausedIsListed`, `ChartCountsSent`, `AccountingIsSound` | `AccountingAssumption` |
| `OrchestratorProofs` | `AccountsTypes`, `AnAdminRemains`, `SessionsAreTrue`, `AccountsAreSound` | `AccountsAssumption` |
| | `BackupsTypes`, `BackupsAreSound` | `BackupsAssumption` |
| | `AlertsTypes`, `ReadersAreTold` | `AlertsAssumption` |
| | `HubTypes`, `TheEndComes` | `HubAssumption` |
| | `RegistryTypes`, `StaticEnginesStay` | `RegistryAssumption` |
| | `ApiTypes`, `ApiIsSound` | those of the parts and `ApiInstance` |

*Transfer slots.* `SlotsAccounted` is not inductive: that a release gives back a
slot that is counted needs to know how far a task got (`PhaseOK`), and that a
wake-up moves a waiting task needs the queues to match the tasks (`QueueOK`).
`BoundOK` bounds what was read and counted. Because a task that takes its last
slot finds room on each of its keys, the slots implement `TransferLimits`
(`Refinement`). `SlotsAreUsed` needs a count: the tasks on their way to a key
(`InFlight`) and those that hold it fill it as long as somebody waits (`Busy`),
because whoever gives back a slot wakes one waiter.

*Migration.* `TypeCorrect` covers every request and failure. `JobHasTask` is not
inductive: a task that reaches its slot and finds the job running goes away, so
some other task must be past its slot; `Owned` says so, and `JobsHaveTasks`
follows for any number of overlapping transfers and crashes. `RowIsServed` needs
that a transfer has two different ends, remembered by job, request and task
(`TwoEnds`), and that what was verified is still there at the switch (`Served`).
`TransferPlaces` says the same of steps, and with the handles (`Handled`): each
step of the transfer, its imports, its requests and of a crash either leaves the
engine of the row and the engines that have everything alone, or is one `Copy`,
`Move` or `Drop` of `Placement`. The proof has one lemma for each way in which a
step can touch them, so that a cleanup before the switch would leave a step with
no counterpart.
`NothingIsStranded` needs to know which of the tasks moves the torrent on
(`Moved`) and that no request writes a moving status by itself (`NoMove`).
`PauseEnds` has the longest way: the task that paused the source is on its way to
the switch or to the resume, or the process died and its job is about to start
again (`WillResume`), which rests on what the job says of its task (`JobFollows`)
and on nothing running before the recovery is through (`Down`).

*Check queue.* The lists are sequences that the loop filters, sorts and cuts, so
the lemmas say what each of these does to the set of members and to their being
different. `AdmitPlaced` and `QueuePlaced` are the places of a torrent,
`Apart` keeps explicit rechecks out of the admission's lists, and `WaitingIsPaused`
is then kept by each decision of a tick. `SlotsAreShared` shows each step to be
an `Admit`, a `Recheck` or a stutter of `ReadSlots`: it rests on the number of
slots a round hands out, counted against the rechecks that run (`Watched`,
`Running`), and on a torrent being in one place only. `DiskIsBounded` then reads
off the abstract state what the two queues may cost together.

*Creator.* That every reference has one owner is a statement about cardinalities:
the torrents the tracker keeps and the tasks inside `_run` (`HoldAccounted`).
A task holds a reference in certain places of its thread only, and is active only
before others (`TaskOK`); who is in the pool's queue waits there, and only once
(`PoolOK`); a mark implies a thread (`MarkOK`); `SessionFollows` ties the
session's limit to the count except inside a save.

*Creation queue.* Numbers are given out in order, each to one task at a time
(`ShelfOK`). A task whose end is still to be announced is in one place: on the
shelf, in one batch or with one DELETE (`PlacesOK`), which gives `NobodyToldTwice`.
What a seed request has read is of the task it was asked for, and no later task
can come under that number unless the engine restarts (`SeedersOK`).

*Volume.* `VolumeInv` is `Base` and, without an accident, `Sound`. `Base` has the
types, which operation may be at which step (`Shape`),
which calls exist in which phase of the process (`Phase`) and that requests that
change the torrent take turns (`OneTurn`). As long as no accident happened, six
more parts hold (`Sound`): what the list says (`Listed`) and what an addition or
a removal is about to make of it (`AdderListed`, `RemoverListed`), that a gone
torrent has left nothing (`GoneOK`), that a call is writing a torn `.torrent`
(`TornOK`), and what a missing `.torrent` implies
(`KeptOK`). The hypothesis
`~accident` is what each step uses to know that a handle is still the one in the
session.

*Uploads.* For each upload, `Tied` relates the browser, the session and the
history: a session that may replace a file belongs to a user who agreed, a
creation asked for comes before any cancel that is heard, a heard cancel stands in
the session, and "done" means placed and nothing asked any more. `UploadPlaces`
shows with it that of all steps four show at all: the consent, the confirmed
cancel, the completion and the crash inside it.

*Copies.* `ContentIsSound` says more than it can show of itself: every piece up to
the place where a copy writes is there (`Behind`, `Kept`, together `FilesOK`),
which medium a way of copying writes to (`ModesOK`), and that a copy that was
alone writes at the end of the file it is at (`LoneOK`). `RetriesKeep` needs, in
every way of copying, that no file is longer than at the source (`Fits`), for it
would be cut, and what a lone copy is about to keep (`LoneGoesOn`, `Decided`).

*Discovery.* A call that has decided, a switch by hand and a saved file are each
as private as the torrent is (`FlagDecided`, `SwitchListed`, `SavedPrivate`), so
that neither their order nor a restart opens it.

*Downloads.* What is promised is the sum of what is sent (`Promised`), at each
place of the stream (`ArchiveOK`), and the directory written so far has each
header where it was sent. The number of archives is that of the requests sending
one (`ActiveCounted`).

*Catalog.* What is true of a torrent at the commit follows from what that
transaction did while it was alone with it: two that hold a row, and a call that
was not answered, leave a mess, and what is settled is held by nobody
(`HoldersOK`). What a request that can still commit has done to the engine for each
row stands until then (`Called`, `RequestOK`), and so does what a restore has
found and brought back (`JobOK`). A transaction that is rolled back promises
nothing of its rows, and needs nothing of the others. Work for one row, or by one
actor, leaves what is said of the others as it was (`OthersStay`).

*Accounting.* What is in the row, with what the next snapshots will add, has room
in what was sent (`RowOK`), and is all of it when no switch came between
(`ExactOK`); the quota likewise (`QuotaOK`). `ListedOK` keeps the round that is
still to note what it paused. For the chart, what was sent divides into a share of
each engine, in which its sum and what its next sample may add (`Due`) have room
(`ChartOK`).

*Accounts.* Besides the types (`Typed`), what a request that looked still knows,
as long as nobody changed accounts: another administrator is there (`Guarded`),
the user has the role and password it read (`LoginTrue`). A change of accounts marks all
others as stale, which is why the two properties hold with just the exemptions
they name.

*Backups.* The age that is shown is the minimum of the ages kept (`NewestOK`),
through shifting by a night, a new archive and the pruning, which keeps the
newest. *Alerts.* What is still to be told is new, or over (`TodoOK`), and what the
readers heard is in every step what the round has told so far (`HeardOK`).

*Live updates.* `EndOnItsWay` needs that the channel of a transfer has no other
source of messages (`OnlyPushed`), that its end is the last thing said on it, and
that the page it was offered to has kept its connection and its subscription since
(`PageOK`): then an offer wakes the writer, the writer takes all that is pending,
and nothing older can come after it. *Registry.* What a refresh has read is a
whole pool or nothing (`RegistryInv`), so that refreshes that overlap install
pools with an address for each engine of `engines.json`.

*Put together.* `EngineTypes`, `EngineIsSound`, `ApiTypes` and `ApiIsSound` are
about the specifications that TLC runs for `engine` and `api`, where the other
theorems are about the modules one by one. That what a part may do in a run is
a step of its module (`PartSteps`, `ApiPartSteps`) is what makes the run an
instance of the theorems: `MCEngine` and `MCApi` restrict a part to some of its
actors and leave the other parts alone, and nothing more. The conjunction of the
invariants (`PartInvs`, `ApiInvs`) is then inductive, and everything proved of
the parts follows from it in the whole, safety properties of runs included.

**Induction over data.** A sum over the files of an archive, the prefixes of a
filtered list or a sum over the engines needs an induction, and the library's
theorems for it take an operator as a parameter. The proofs use the same facts for
sets instead: a set of numbers with 0 that is closed under successor is all of
them (`NatSetInduction`, from the well-foundedness of `<`), and a smallest
counterexample among the subsets of a finite set (`NodesInduction`). No module
uses RECURSIVE.

**Only model-checked.** All liveness, which the prover does not handle (`ENABLED`,
fairness): `EventuallyGranted`, `TransferEnds`, `CheckEnds`, `CapFollowsHashing`,
`CancelHeard`, `ComesBack`, `PolicyArrives`, `RegistryConverges`, `Delivered`,
`AllAnnounced`, `AlertsTold`; the safety behind the last three is in `TheEndComes`,
`NobodyToldTwice` and `ReadersAreTold`. Every invariant and every action property
of a passing run is a theorem, some under the hypotheses named above
(`NoIdleSlotWhenCalm` is `SlotsAreUsed`, whose hypotheses are what `calm` says). The four
violated runs have counterexamples, not proofs.

## 5. What is left

1. Overlapping transfers as a run of their own once the code says which of them
   is to win; requests to remove and add one torrent that overlap on an engine.
2. `RowIsServed` and `TransferPlaces` with the requests that wipe an engine: not
   before the code keeps them away from the engine of the row (`migration_cancel`
   shows that a cancel reaches it, and a crash inside DELETE leaves a row without
   content).
3. The steps towards each liveness property as action properties: what a step of
   the loop may undo of what is to come.
4. Trackers, peers and file priorities of a torrent, when something comes to
   depend on their order.

## 6. Not modelled

Audit, metrics, system information, the rate of checks, unchoking on the engine
and the bookkeeping of WAN links are sequential or read counters only. The user
interfaces are not modelled beyond the socket and the uploads of the web client.
Of the torrents' API the lists, labels, trackers, peers and file priorities are
single reads and writes. The dispatch of jobs by ARQ, Kafka behind the
announcement, Postgres, libtorrent, `pg_dump` and the browsers' network are
modelled from how the code uses them. Passwords are versions, tickets valid or
expired, signatures not looked at.
