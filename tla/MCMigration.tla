---------------------------- MODULE MCMigration ----------------------------
(***************************************************************************)
(* Instances of Migration for TLC: two engines, one transfer at a time.    *)
(* Overlapping transfers of one torrent need a second task.                *)
(***************************************************************************)
EXTENDS Migration

CONSTANTS a, b, t1, r1, r2

MCEngines == {a, b}

Changes == {"migrate", "resume", "sync"}
AllOps == Changes \cup {"cancel", "delete", "bulk_delete", "pause", "bulk_pause"}

(* Every call that may fail but the source's resume. *)
FailingCalls == {"fetch", "pause", "wipe", "import", "ask"}
=============================================================================
