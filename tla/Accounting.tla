----------------------------- MODULE Accounting -----------------------------
(***************************************************************************)
(* What a torrent has sent: the counter of its engine, the row's total     *)
(* that lives longer than the engine (runtime_snapshot.py,                 *)
(* runtime_sync.py), the quota of its label (queue worker, quotas.py) and  *)
(* the samples of the upload chart (upload_history.py).                    *)
(*                                                                         *)
(* One torrent with a label.  The snapshot, the worker's round and the     *)
(* sampling read, ask the engines and write later; meanwhile the torrent   *)
(* is moved to another engine, or its engine dies and comes back with the  *)
(* counter of its last resume file.                                        *)
(***************************************************************************)
EXTENDS Integers, FiniteSets, FiniteSetsExt

CONSTANTS Nodes,    \* the torrent is on one of them at first
          Limits,     \* quotas a label may get; 0 is none
          Cap,        \* what is plausible between two samples
          MaxSent,    \* bound on what is sent
          MaxSwitches,   \* bound on transfers to another engine
          MaxDeaths,  \* bound on crashes of engines
          MaxTwice,   \* bound on what the worker reads of two engines in turn
          MaxPatches  \* bound on requests that change the quota

ASSUME AccountingAssumption ==
    /\ IsFiniteSet(Nodes) /\ Limits \subseteq Nat
    /\ Cap \in Nat /\ MaxSent \in Nat /\ MaxSwitches \in Nat /\ MaxDeaths \in Nat /\ MaxTwice \in Nat
    /\ MaxPatches \in Nat /\ Nodes \cap {"none", "switched"} = {}

VARIABLES
    peer,    \* the engines' view of the torrent: there, running, counter, saved counter
    trow,    \* its row: engine, uploaded_total, uploaded_seen
    move,    \* a transfer before its switch, or after it before the source is removed
    snap,    \* snapshot_once between its steps
    quota,   \* label_quotas: the label's row, with paused_ids
    meter,   \* torrent_meters: last_uploaded
    work,    \* sync_runtime_to_db between its steps
    chart,   \* [Nodes -> last sample, and the sum of the deltas]
    hist     \* history, see below

accountingVars == <<peer, trow, move, snap, quota, meter, work, chart, hist>>

NoSnap == [at |-> "idle", row |-> [engine |-> "none", total |-> 0, seen |-> 0], cur |-> 0]
NoQuota == [on |-> FALSE, limit |-> 0, total |-> 0, over |-> FALSE, paused |-> FALSE]
NoWork == [at |-> "idle", cur |-> 0, from |-> "none", quota |-> NoQuota, delta |-> 0,
           paused |-> FALSE]
Away == [has |-> FALSE, run |-> FALSE, cnt |-> 0, saved |-> 0]
Here == [Away EXCEPT !.has = TRUE, !.run = TRUE]

(* sent: by all engines; again: counters that came back after a crash, and *)
(* unfolded: what no snapshot will see, sent by an engine after its last one *)
(* or after the switch; twice: counters read of another engine than before; *)
(* by: the quota paused the torrent; mixed: a switch came into a snapshot,  *)
(* or a crash; back: the torrent went back to an engine that a snapshot was *)
(* still to ask; slipped: a round of the worker was overtaken, or failed    *)
(* after a pause.                                                           *)
AccountingInit ==
    /\ \E home \in Nodes :
          /\ peer = [e \in Nodes |-> IF e = home THEN Here ELSE Away]
          /\ trow = [engine |-> home, total |-> 0, seen |-> 0]
    /\ move = "none"
    /\ snap = NoSnap
    /\ quota = NoQuota /\ meter = [cur |-> 0, from |-> "none"]
    /\ work = NoWork
    /\ chart = [e \in Nodes |-> [sampled |-> FALSE, last |-> 0, sum |-> 0]]
    /\ hist = [sent |-> 0, again |-> 0, unfolded |-> 0, twice |-> 0, by |-> FALSE,
               mixed |-> FALSE, back |-> FALSE, slipped |-> FALSE, moves |-> 0, deaths |-> 0, patches |-> 0]

-----------------------------------------------------------------------------
(* The engines.                                                            *)
Upload(e) ==
    /\ peer[e].has /\ peer[e].run /\ hist.sent < MaxSent
    /\ peer' = [peer EXCEPT ![e].cnt = @ + 1]
    /\ hist' = [hist EXCEPT !.sent = @ + 1,
                            !.unfolded = @ + (IF e \in {trow.engine, move} THEN 0 ELSE 1)]
    /\ UNCHANGED <<trow, move, snap, quota, meter, work, chart>>

SaveCounter(e) ==
    /\ peer[e].has /\ peer[e].saved # peer[e].cnt
    /\ peer' = [peer EXCEPT ![e].saved = peer[e].cnt]
    /\ UNCHANGED <<trow, move, snap, quota, meter, work, chart, hist>>

EngineDies(e) ==
    /\ peer[e].has /\ hist.deaths < MaxDeaths
    /\ peer' = [peer EXCEPT ![e].cnt = peer[e].saved]
    /\ hist' = [hist EXCEPT !.again = @ + peer[e].saved, !.mixed = TRUE, !.deaths = @ + 1]
    /\ UNCHANGED <<trow, move, snap, quota, meter, work, chart>>

(* A transfer: the source rests while the target gets the torrent, the     *)
(* row is switched, the source is removed.                                 *)
MoveBegin(e) ==
    /\ move = "none" /\ hist.moves < MaxSwitches /\ e # trow.engine /\ ~peer[e].has
    /\ peer' = [peer EXCEPT ![trow.engine].run = FALSE, ![e] = Here]
    /\ move' = e
    /\ hist' = [hist EXCEPT !.moves = @ + 1, !.by = FALSE, !.slipped = @ \/ work.at # "idle",
                            !.back = @ \/ (snap.at = "rows" /\ e = snap.row.engine)]
    /\ UNCHANGED <<trow, snap, quota, meter, work, chart>>

(* Mutant of UpdateEngine: the base of the counter is kept.                *)
SwitchOnly(e) ==
    /\ move = e
    /\ trow' = [trow EXCEPT !.engine = e]
    /\ hist' = [hist EXCEPT !.unfolded = @ + peer[trow.engine].cnt - trow.seen,
                            !.mixed = @ \/ snap.at # "idle"]
    /\ move' = "switched"
    /\ UNCHANGED <<peer, snap, quota, meter, work, chart>>

(* update_engine: on the target the counter starts anew.                   *)
UpdateEngine(e) ==
    /\ move = e
    /\ trow' = [trow EXCEPT !.engine = e, !.seen = 0]
    /\ hist' = [hist EXCEPT !.unfolded = @ + peer[trow.engine].cnt - trow.seen,
                            !.mixed = @ \/ snap.at # "idle"]
    /\ move' = "switched"
    /\ UNCHANGED <<peer, snap, quota, meter, work, chart>>

MoveEnd ==
    /\ move = "switched"
    /\ peer' = [e \in Nodes |-> IF e = trow.engine THEN peer[e] ELSE Away]
    /\ move' = "none"
    /\ UNCHANGED <<trow, snap, quota, meter, work, chart, hist>>

-----------------------------------------------------------------------------
(* accumulate_uploaded: a counter that went back is a new one.             *)
Delta(seen, cur) == IF cur >= seen THEN cur - seen ELSE cur

SnapshotRows ==
    /\ snap.at = "idle"
    /\ snap' = [at |-> "rows", row |-> trow, cur |-> 0]
    /\ UNCHANGED <<peer, trow, move, quota, meter, work, chart, hist>>

(* The row's engine answers, or its rows are passed over.                  *)
SnapshotAsk ==
    /\ snap.at = "rows"
    /\ \/ peer[snap.row.engine].has
          /\ snap' = [snap EXCEPT !.at = "asked", !.cur = peer[snap.row.engine].cnt]
       \/ snap' = NoSnap
    /\ UNCHANGED <<peer, trow, move, quota, meter, work, chart, hist>>

(* bulk_update_runtime: both columns, computed from the row that was read. *)
SnapshotWrite ==
    /\ snap.at = "asked"
    /\ trow' = [trow EXCEPT !.total = snap.row.total + Delta(snap.row.seen, snap.cur),
                          !.seen = snap.cur]
    /\ snap' = NoSnap
    /\ UNCHANGED <<peer, move, quota, meter, work, chart, hist>>

-----------------------------------------------------------------------------
(* sync_runtime_to_db: the engines are asked; of two that list the torrent *)
(* one stays.                                                              *)
WorkerFetch(e) ==
    /\ work.at = "idle" /\ peer[e].has /\ hist.twice <= MaxTwice
    /\ work' = [NoWork EXCEPT !.at = "fetched", !.cur = peer[e].cnt, !.from = e]
    /\ UNCHANGED <<peer, trow, move, snap, quota, meter, chart, hist>>

(* _meter_and_enforce: quotas and meters are read; without a quota nothing *)
(* is metered.                                                             *)
WorkerRead ==
    /\ work.at = "fetched"
    /\ work' = IF quota.on
               THEN [work EXCEPT !.at = "metered", !.quota = quota,
                                 !.delta = Delta(meter.cur, work.cur)]
               ELSE NoWork
    /\ UNCHANGED <<peer, trow, move, snap, quota, meter, chart, hist>>

Exceeds == work.quota.limit # 0 /\ ~work.quota.over /\ work.quota.total + work.delta >= work.quota.limit

(* The running torrents of the label are paused, each once; one that does  *)
(* not answer is left out.                                                 *)
WorkerPause ==
    /\ work.at = "metered" /\ Exceeds
    /\ \/ /\ peer[trow.engine].run
          /\ peer' = [peer EXCEPT ![trow.engine].run = FALSE]
          /\ work' = [work EXCEPT !.at = "enforced", !.paused = TRUE]
          /\ hist' = [hist EXCEPT !.by = TRUE]
       \/ /\ work' = [work EXCEPT !.at = "enforced"]
          /\ UNCHANGED <<peer, hist>>
    /\ UNCHANGED <<trow, move, snap, quota, meter, chart>>

(* add_uploaded, and set_exceeded: the columns the round changed, with what *)
(* it read at first below them.                                            *)
WithDelta(q) == IF work.delta > 0 THEN [q EXCEPT !.total = work.quota.total + work.delta] ELSE q

(* Mutant of Noted: the torrents it paused are not listed.                 *)
NotedOnly(q) == IF work.at = "enforced" THEN [WithDelta(q) EXCEPT !.over = TRUE] ELSE WithDelta(q)

Noted(q) ==
    IF work.at = "enforced" THEN [WithDelta(q) EXCEPT !.over = TRUE, !.paused = work.paused]
    ELSE WithDelta(q)

WorkerCommit ==
    /\ work.at = "enforced" \/ (work.at = "metered" /\ ~Exceeds)
    /\ quota.on
    /\ quota' = Noted(quota)
    /\ meter' = [cur |-> work.cur, from |-> work.from]
    /\ hist' = IF meter.from \notin {"none", work.from}
               THEN [hist EXCEPT !.twice = @ + work.cur] ELSE hist
    /\ work' = NoWork
    /\ UNCHANGED <<peer, trow, move, snap, chart>>

(* The round fails, as it does when the quota is gone meanwhile; what it   *)
(* paused stays paused.                                                    *)
WorkerFails ==
    /\ work.at \in {"metered", "enforced"}
    /\ work' = NoWork
    /\ hist' = [hist EXCEPT !.slipped = @ \/ work.paused]
    /\ UNCHANGED <<peer, trow, move, snap, quota, meter, chart>>

(* upsert_quota, delete_quota, reset_quota.  A limit of 0 stands for a     *)
(* quota that is not enabled, too.                                         *)
Patching == hist.patches < MaxPatches
Overtaken ==
    [hist EXCEPT !.patches = @ + 1, !.slipped = @ \/ work.at \in {"metered", "enforced"}]

Upserted(limit) == IF quota.on THEN [quota EXCEPT !.limit = limit]
                   ELSE [NoQuota EXCEPT !.on = TRUE, !.limit = limit]

(* Mutant of Emptied: one period is taken off the total.                   *)
EmptiedByLimit == [quota EXCEPT !.total = @ - quota.limit, !.over = FALSE, !.paused = FALSE]

Emptied == [quota EXCEPT !.total = 0, !.over = FALSE, !.paused = FALSE]

UpsertQuota(limit) ==
    /\ Patching
    /\ quota' = Upserted(limit)
    /\ hist' = [hist EXCEPT !.patches = @ + 1]
    /\ UNCHANGED <<peer, trow, move, snap, meter, work, chart>>

DeleteQuota ==
    /\ Patching /\ quota.on
    /\ quota' = NoQuota
    /\ hist' = [Overtaken EXCEPT !.slipped = @ \/ quota.paused]
    /\ UNCHANGED <<peer, trow, move, snap, meter, work, chart>>

(* What is listed is resumed if its engine answers; the list is emptied in *)
(* any case.  The second alternative is also a list that was read before   *)
(* the worker put the torrent on it, and emptied afterwards.               *)
ResetQuota ==
    /\ Patching /\ quota.on
    /\ quota' = Emptied
    /\ \/ /\ quota.paused
          /\ peer' = [peer EXCEPT ![trow.engine].run = TRUE]
          /\ hist' = [Overtaken EXCEPT !.by = FALSE]
       \/ /\ hist' = [Overtaken EXCEPT !.slipped = @ \/ quota.paused]
          /\ UNCHANGED peer
    /\ UNCHANGED <<trow, move, snap, meter, work, chart>>

-----------------------------------------------------------------------------
(* Mutant of ChartDelta: a counter that went back is counted whole.        *)
ChartDeltaWhole(s, cur) ==
    IF ~s.sampled \/ cur - s.last > Cap THEN 0 ELSE IF cur < s.last THEN cur ELSE cur - s.last

(* counter_delta: a counter that went back, or jumped, is a new base.      *)
ChartDelta(s, cur) ==
    IF ~s.sampled \/ cur < s.last \/ cur - s.last > Cap THEN 0 ELSE cur - s.last

(* merge_engine_totals: an engine that does not answer keeps its last      *)
(* sample, one that says 0 after more does too.                            *)
Merged(e, silent) ==
    IF e \in silent \/ (peer[e].cnt = 0 /\ chart[e].last > 0) THEN chart[e].last ELSE peer[e].cnt

Sampled(s, cur) == [sampled |-> TRUE, last |-> cur, sum |-> s.sum + ChartDelta(s, cur)]

(* sample_upload_stats.                                                    *)
Sample ==
    /\ \E silent \in SUBSET Nodes :
          chart' = [e \in Nodes |-> IF e \in silent /\ ~chart[e].sampled THEN chart[e]
                                    ELSE Sampled(chart[e], Merged(e, silent))]
    /\ UNCHANGED <<peer, trow, move, snap, quota, meter, work, hist>>

EngineMoves(e) == Upload(e) \/ SaveCounter(e) \/ EngineDies(e) \/ MoveBegin(e) \/ UpdateEngine(e)
SnapshotStep == SnapshotRows \/ SnapshotAsk \/ SnapshotWrite
WorkerStep ==
    (\E e \in Nodes : WorkerFetch(e)) \/ WorkerRead \/ WorkerPause \/ WorkerCommit \/ WorkerFails
QuotaStep == (\E limit \in Limits : UpsertQuota(limit)) \/ DeleteQuota \/ ResetQuota

AccountingNext ==
    \/ \E e \in Nodes : EngineMoves(e)
    \/ MoveEnd \/ SnapshotStep \/ WorkerStep \/ QuotaStep \/ Sample

AccountingSpec == AccountingInit /\ [][AccountingNext]_accountingVars

-----------------------------------------------------------------------------
TotalRows(engines) == [engine : engines, total : Nat, seen : 0..MaxSent]
Quotas == [on : BOOLEAN, limit : Limits \union {0}, total : Nat, over : BOOLEAN, paused : BOOLEAN]

PeerStates == [has : BOOLEAN, run : BOOLEAN, cnt : 0..MaxSent, saved : 0..MaxSent]
Rounds == [at : {"idle", "fetched", "metered", "enforced"}, cur : 0..MaxSent,
           from : Nodes \union {"none"}, quota : Quotas, delta : 0..MaxSent, paused : BOOLEAN]
History == [sent : 0..MaxSent, again : Nat, unfolded : Int, twice : Nat, by : BOOLEAN,
            mixed : BOOLEAN, back : BOOLEAN, slipped : BOOLEAN, moves : 0..MaxSwitches,
            deaths : 0..MaxDeaths, patches : 0..MaxPatches]

AccountingTypeOK ==
    /\ peer \in [Nodes -> PeerStates]
    /\ trow \in TotalRows(Nodes)
    /\ move \in Nodes \union {"none", "switched"}
    /\ snap \in [at : {"idle", "rows", "asked"}, row : TotalRows(Nodes \union {"none"}), cur : 0..MaxSent]
    /\ quota \in Quotas
    /\ meter \in [cur : 0..MaxSent, from : Nodes \union {"none"}]
    /\ work \in Rounds
    /\ chart \in [Nodes -> [sampled : BOOLEAN, last : 0..MaxSent, sum : Nat]]
    /\ hist \in History

(* What the next snapshots will add.                                       *)
ToCome ==
    peer[trow.engine].cnt - trow.seen + (IF move \in Nodes THEN peer[move].cnt ELSE 0)

(* Every byte is counted once in the row's total, through every transfer:  *)
(* exactly, but for what the source sent after its last snapshot, as long  *)
(* as no engine dies and no switch comes into a snapshot; and at most once *)
(* more than the counters that came back with an engine, unless a snapshot *)
(* asks an engine that the torrent is coming back to.  The quota counts no *)
(* more than that and what a second engine lists.                          *)
CountedOnce ==
    /\ ~hist.back => trow.total <= hist.sent + hist.again
    /\ ~hist.mixed => trow.total + ToCome + hist.unfolded = hist.sent
    /\ quota.total <= hist.sent + hist.again + hist.twice

(* The chart never counts more than was sent, whatever engines do not      *)
(* answer a sampling, lose their counters or hand the torrent over.        *)
ChartIsSent == MapThenSumSet(LAMBDA e : chart[e].sum, Nodes) <= hist.sent

(* A torrent that a quota paused is on the quota's list, so that a reset   *)
(* resumes it, once the round that paused it is over; unless that round    *)
(* failed or was overtaken by a change of the quota, or the resume was not *)
(* answered.                                                               *)
PauseIsListed ==
    hist.by /\ work.at # "enforced" /\ ~hist.slipped => quota.paused

(* What is counted of the bytes of a torrent, for its row, its quota and   *)
(* the chart, and what the quota does with it.                             *)
AccountingSound == CountedOnce /\ ChartIsSent /\ PauseIsListed
=============================================================================
