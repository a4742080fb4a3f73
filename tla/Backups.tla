------------------------------ MODULE Backups ------------------------------
(***************************************************************************)
(* Backups: the nightly archives of the engines' metadata                  *)
(* (backup_engines.py), which the engines stream as they pack them, and    *)
(* the dumps of the database that an administrator makes and restores      *)
(* while clients are kept out (routers/backups.py, maintenance.py).        *)
(* Ages are counted in nights.                                             *)
(***************************************************************************)
EXTENDS Naturals, FiniteSets

CONSTANTS Saved,        \* engines
          Keep,         \* SEEDING_BACKUP_RETENTION_DAYS
          MaxAge,       \* bound on the ages told apart, above Keep
          Dumps,        \* bound on the dumps made, by file name
          Restores      \* restore requests that may overlap

ASSUME BackupsAssumption ==
    Saved # {} /\ Keep \in Nat \ {0} /\ MaxAge \in Nat /\ MaxAge > Keep

VARIABLES
    archives,   \* [Saved -> listed archives, [age, whole]]
    partials,   \* engines with a .partial file
    tonight,    \* the nightly run: [at, todo, e]
    since,      \* history: nights since an engine's last good archive
    dumps,      \* listed dumps, [Dumps -> "none" | "torn" | "whole"]
    dumping,    \* [Dumps -> the database pg_dump reads, "none" if it does not run]
    gate,       \* maintenance: clients are answered with 503
    restoring,  \* [Restores -> what it restores from, "none" if it does not run]
    db,         \* the database: "whole", or "half" while its tables are replaced
    excused     \* history: a second restore, the gate's time limit, or a crash

backupVars == <<archives, partials, tonight, since, dumps, dumping, gate, restoring, db, excused>>
nightVars == <<archives, partials, tonight, since>>
dumpVars == <<dumps, dumping, gate, restoring, db, excused>>

NoNight == [at |-> "idle", todo |-> {}, e |-> CHOOSE e \in Saved : TRUE]

BackupsInit ==
    /\ archives = [e \in Saved |-> {}] /\ partials = {} /\ tonight = NoNight
    /\ since = [e \in Saved |-> MaxAge]
    /\ dumps = [d \in Dumps |-> "none"] /\ dumping = [d \in Dumps |-> "none"]
    /\ gate = FALSE /\ restoring = [r \in Restores |-> "none"]
    /\ db = "whole" /\ excused = FALSE

-----------------------------------------------------------------------------
(* A night passes, and the run begins with the engines the registry knows; *)
(* it needs one at least.                                                  *)
Older(n) == IF n < MaxAge THEN n + 1 ELSE n

Night(known) ==
    /\ tonight.at = "idle" /\ known # {}
    /\ tonight' = [NoNight EXCEPT !.at = "next", !.todo = known]
    /\ archives' = [e \in Saved |-> {[a EXCEPT !.age = Older(@)] : a \in archives[e]}]
    /\ since' = [e \in Saved |-> Older(since[e])]
    /\ UNCHANGED <<partials, dumpVars>>

(* dump_engine: one after the other; an engine that does not answer leaves *)
(* nothing.                                                                *)
DumpBegin(e) ==
    /\ tonight.at = "next" /\ e \in tonight.todo
    /\ \/ /\ tonight' = [at |-> "stream", todo |-> tonight.todo \ {e}, e |-> e]
          /\ partials' = partials \union {e}
       \/ tonight' = [tonight EXCEPT !.todo = @ \ {e}] /\ UNCHANGED partials
    /\ UNCHANGED <<archives, since, dumpVars>>

(* The engine packs its three directories and sends what it packs; the     *)
(* stream breaks when the engine goes or a file it packs disappears.       *)
StreamEnd ==
    /\ tonight.at = "stream"
    /\ \E at \in {"packed", "broken"} : tonight' = [tonight EXCEPT !.at = at]
    /\ UNCHANGED <<archives, partials, since, dumpVars>>

(* Mutant of DumpEnd: what is left of a broken stream is renamed as well.  *)
DumpEndAnyway ==
    /\ tonight.at \in {"packed", "broken"}
    /\ archives' = [archives EXCEPT
          ![tonight.e] = @ \union {[age |-> 0, whole |-> tonight.at = "packed"]}]
    /\ since' = [since EXCEPT ![tonight.e] = 0]
    /\ tonight' = [tonight EXCEPT !.at = "next"] /\ partials' = partials \ {tonight.e}
    /\ UNCHANGED dumpVars

(* The file gets its name; what is left of a broken stream is removed.     *)
DumpEnd ==
    /\ \/ /\ tonight.at = "packed"
          /\ archives' = [archives EXCEPT ![tonight.e] = @ \union {[age |-> 0, whole |-> TRUE]}]
          /\ since' = [since EXCEPT ![tonight.e] = 0]
       \/ tonight.at = "broken" /\ UNCHANGED <<archives, since>>
    /\ tonight' = [tonight EXCEPT !.at = "next"] /\ partials' = partials \ {tonight.e}
    /\ UNCHANGED dumpVars

(* prune: what is older than the retention goes, of every engine.          *)
Prune ==
    /\ tonight.at = "next" /\ tonight.todo = {}
    /\ archives' = [e \in Saved |-> {a \in archives[e] : a.age <= Keep}]
    /\ tonight' = NoNight /\ UNCHANGED <<partials, since, dumpVars>>

(* The run is killed; its .partial stays.                                  *)
NightGoes ==
    /\ tonight.at # "idle" /\ tonight' = NoNight
    /\ UNCHANGED <<archives, partials, since, dumpVars>>

-----------------------------------------------------------------------------
(* pg_dump writes the file under its name, and leaves it when it fails; a  *)
(* dump of a half replaced database is as good as a torn one.              *)
DumpDatabase(d) ==
    /\ dumps[d] = "none" /\ dumping[d] = "none"
    /\ dumps' = [dumps EXCEPT ![d] = "torn"] /\ dumping' = [dumping EXCEPT ![d] = db]
    /\ UNCHANGED <<nightVars, gate, restoring, db, excused>>

DumpOver(d) ==
    /\ dumping[d] # "none" /\ dumping' = [dumping EXCEPT ![d] = "none"]
    /\ \/ dumps[d] = "torn" /\ dumping[d] = "whole" /\ dumps' = [dumps EXCEPT ![d] = "whole"]
       \/ UNCHANGED dumps
    /\ UNCHANGED <<nightVars, gate, restoring, db, excused>>

DeleteDump(d) ==
    /\ dumps[d] # "none" /\ dumps' = [dumps EXCEPT ![d] = "none"]
    /\ UNCHANGED <<nightVars, dumping, gate, restoring, db, excused>>

(* restore_backup: the gate, then pg_restore, then the gate again, which   *)
(* does not count how many restores it is closed for.                      *)
Running(r) == restoring[r] # "none"
Beside(r) == {q \in Restores \ {r} : Running(q)}

RestoreBegin(r, d) ==
    /\ ~Running(r) /\ dumps[d] # "none"
    /\ gate' = TRUE /\ db' = "half"
    /\ restoring' = [restoring EXCEPT ![r] = dumps[d]]
    /\ excused' = (Beside(r) # {})
    /\ UNCHANGED <<nightVars, dumps, dumping>>

(* It ends, well or not: from a torn dump it cannot end well.              *)
RestoreEnd(r) ==
    /\ Running(r) /\ gate' = FALSE
    /\ restoring' = [restoring EXCEPT ![r] = "none"]
    /\ \/ restoring[r] = "whole" /\ Beside(r) = {} /\ db' = "whole" /\ excused' = FALSE
       \/ UNCHANGED db /\ excused' = TRUE
    /\ UNCHANGED <<nightVars, dumps, dumping>>

(* The gate opens by itself after ten minutes.                             *)
GateExpires ==
    /\ gate /\ gate' = FALSE /\ excused' = (db = "half")
    /\ UNCHANGED <<nightVars, dumps, dumping, restoring, db>>

(* The API goes, and pg_dump and pg_restore with it.                       *)
ApiGoes ==
    /\ (\E r \in Restores : Running(r)) \/ \E d \in Dumps : dumping[d] # "none"
    /\ gate' = FALSE /\ dumping' = [d \in Dumps |-> "none"]
    /\ restoring' = [r \in Restores |-> "none"]
    /\ excused' = (db = "half")
    /\ UNCHANGED <<nightVars, dumps, db>>

-----------------------------------------------------------------------------
(* What the page of the backups shows of an engine (_engine_meta_summary), *)
(* and what the middleware answers a client of the other routes.           *)
Newest(e) == CHOOSE n \in {a.age : a \in archives[e]} : \A a \in archives[e] : n <= a.age
Admits == ~gate

NightNext ==
    \/ (\E known \in SUBSET Saved : Night(known)) \/ (\E e \in Saved : DumpBegin(e))
    \/ StreamEnd \/ DumpEnd \/ Prune \/ NightGoes

DatabaseNext ==
    \/ \E d \in Dumps : DumpDatabase(d) \/ DumpOver(d) \/ DeleteDump(d)
    \/ \E r \in Restores : RestoreEnd(r) \/ \E d \in Dumps : RestoreBegin(r, d)
    \/ GateExpires \/ ApiGoes

BackupsNext == NightNext \/ DatabaseNext

BackupsSpec == BackupsInit /\ [][BackupsNext]_backupVars

BackupsTypeOK ==
    /\ archives \in [Saved -> SUBSET [age : 0..MaxAge, whole : BOOLEAN]]
    /\ partials \subseteq Saved /\ since \in [Saved -> 0..MaxAge]
    /\ tonight \in [at : {"idle", "next", "stream", "packed", "broken"}, todo : SUBSET Saved, e : Saved]
    /\ dumps \in [Dumps -> {"none", "torn", "whole"}]
    /\ dumping \in [Dumps -> {"none", "half", "whole"}]
    /\ gate \in BOOLEAN /\ restoring \in [Restores -> {"none", "torn", "whole"}]
    /\ db \in {"whole", "half"} /\ excused \in BOOLEAN

(* Every archive that is listed is whole, whatever broke its stream; an    *)
(* engine that answered within the retention has one, however many nights  *)
(* failed since and whatever the pruning removed; and the age that is      *)
(* shown for it is the time since that answer.                             *)
ArchivesServe ==
    \A e \in Saved :
        /\ \A a \in archives[e] : a.whole
        /\ since[e] <= Keep => archives[e] # {}
        /\ archives[e] # {} => Newest(e) = since[e]

(* No client comes in while the tables are replaced, unless restores       *)
(* overlapped, one failed or took longer than the gate's ten minutes, or   *)
(* the API went in the middle of one.                                      *)
GateHolds == db = "half" /\ ~excused => ~Admits

(* What is kept can be restored, and a restore is alone with the database. *)
BackupsSound == ArchivesServe /\ GateHolds
=============================================================================
