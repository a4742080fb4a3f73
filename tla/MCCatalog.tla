---------------------------- MODULE MCCatalog ----------------------------
(***************************************************************************)
(* Instance of Catalog for TLC: two torrents and two requests, of which    *)
(* each behaviour runs either both requests, or one restore beside one     *)
(* request and a restart of the engine.                                    *)
(***************************************************************************)
EXTENDS Catalog

CONSTANTS r1, r2, q1, q2

ASSUME CatalogInstance == {r1, r2} \subseteq Rows /\ {q1, q2} \subseteq Requests

VARIABLE running    \* "requests", or the restore of this behaviour

Began(first, second) == row[r1] \in first /\ row[r2] \in second

MCInit ==
    /\ CatalogInit
    /\ \/ /\ running = "requests" /\ whole = {} /\ magnets = {}
          /\ Began({"fresh", "queued", "active", "paused"}, {"fresh", "active"})
       \/ /\ running = "startup" /\ whole \subseteq {r1} /\ magnets = {r1}
          /\ Began({"queued", "active", "paused"}, {"paused"})
       \/ /\ running = "worker" /\ whole = {} /\ magnets = {r1}
          /\ Began({"queued", "active", "paused"}, {"paused"})
       \/ running = "bulk" /\ whole = {} /\ r1 \in magnets /\ Began({"queued"}, {"queued"})

(* Any request for one row or both, beside one for the first row; and a    *)
(* restore beside a request that pauses or deletes one row or both.        *)
RequestsNext ==
    \/ RequestStep(q1)
    \/ Proceed(q2) \/ CreateBegin(q2, {r1}, FALSE) \/ DeleteBegin(q2, {r1}, FALSE)
    \/ \E op \in {"pause", "resume"} : PauseBegin(q2, op, {r1}, FALSE)

RestoresNext ==
    \/ EngineRestart \/ RestoreStep(running) \/ Proceed(q1)
    \/ \E R \in SUBSET Rows : DeleteBegin(q1, R, TRUE) \/ PauseBegin(q1, "pause", R, TRUE)

MCNext ==
    /\ \/ running = "requests" /\ RequestsNext
       \/ running \in Restorers /\ RestoresNext
    /\ UNCHANGED running

MCSpec == MCInit /\ [][MCNext]_<<running, catalogVars>>
=============================================================================
