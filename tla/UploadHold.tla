----------------------------- MODULE UploadHold -----------------------------
(***************************************************************************)
(* The temporary upload cap of one engine with spinning disks              *)
(* (upload_hold.py): a reference count that whoever hashes takes, the      *)
(* limit the operator asked for, and the limit the session really has.     *)
(*                                                                         *)
(* Three kinds of threads meet here.  The event loop observes one torrent  *)
(* at a time, the threads of /session/stats observe all of them, and the   *)
(* thread that saves the session state lifts the cap while it writes.      *)
(* The locks cover single calls, so what a thread read before a call may   *)
(* be old by the time it is used.                                          *)
(***************************************************************************)
EXTENDS Naturals, FiniteSets

CONSTANTS Hashed,     \* the torrents on this engine
          Observers,  \* coroutines of the event loop inside _snapshot, remove, recheck
          Pollers,    \* threads inside session_stats
          Savers,     \* threads inside _write_session_state
          Rates,      \* upload limits an operator sets; 0 means none
          Cap,        \* SEEDING_CREATOR_UPLOAD_LIMIT_BPS
          Spinning    \* disk_kind is not "ssd"

ASSUME UploadHoldAssumption ==
    /\ IsFiniteSet(Hashed) /\ Hashed # {}
    /\ Rates \subseteq Nat /\ 0 \in Rates
    /\ Cap \in Nat
    /\ Spinning \in BOOLEAN

VARIABLES
    desired,   \* SessionUploadGate.desired
    refs,      \* UploadHold._refs
    session,   \* the limit libtorrent has
    label,     \* [Hashed -> ...] idle, in the admission's hands, or read from the disk
    pending,   \* CheckHoldTracker._pending_until
    watched,   \* CheckHoldTracker._held
    last,      \* CheckHoldTracker._last_checking
    obs,       \* [Observers -> ...] calls of observe and note_recheck
    poll,      \* [Pollers -> ...] calls of session_stats
    save       \* [Savers -> ...] calls of _write_session_state

gate == <<desired, refs, session>>
tracker == <<pending, watched, last>>
threads == <<obs, poll, save>>
holdVars == <<gate, label, tracker, threads>>

Holding == Spinning /\ Cap > 0        \* should_hold_for_disk

(* Mutant of SessionLimit: every holder brings a cap of its own.           *)
CapForEach(d, n) == IF n = 0 \/ Cap = 0 THEN d ELSE Cap * n

(* session_limit: what the session gets while n references are held.       *)
SessionLimit(d, n) ==
    IF n = 0 \/ Cap = 0 THEN d ELSE IF d = 0 \/ d > Cap THEN Cap ELSE d

Quiet == [at |-> "idle", seen |-> {}]
NotSaving == [at |-> "idle", wanted |-> 0, held |-> FALSE]

HoldInit ==
    /\ desired = 0 /\ refs = 0 /\ session = 0
    /\ label = [t \in Hashed |-> "idle"]
    /\ pending = [t \in Hashed |-> "no"]
    /\ watched = {} /\ last = {}
    /\ obs = [o \in Observers |-> [at |-> "idle", t |-> CHOOSE t \in Hashed : TRUE,
                                   full |-> FALSE, seen |-> {}]]
    /\ poll = [p \in Pollers |-> Quiet]
    /\ save = [s \in Savers |-> NotSaving]

-----------------------------------------------------------------------------
(* libtorrent and the admission decide what a torrent does (external);     *)
(* time makes a grace period run out.                                      *)
Relabel(t) ==
    /\ label' = [label EXCEPT ![t] = CASE @ = "idle" -> "hashing" [] OTHER -> "idle"]
    /\ UNCHANGED <<gate, tracker, threads>>

Admit(t) ==
    /\ label[t] = "idle"
    /\ label' = [label EXCEPT ![t] = "admitted"]
    /\ UNCHANGED <<gate, tracker, threads>>

GraceOver(t) ==
    /\ pending[t] = "fresh"
    /\ pending' = [pending EXCEPT ![t] = "due"]
    /\ UNCHANGED <<gate, label, watched, last, threads>>

-----------------------------------------------------------------------------
(* Mutant of Wanted: what is no longer checked stays.                      *)
StillWanted(checking) == watched \union checking

(* The torrents a sync keeps the cap for: those being checked, and those   *)
(* a recheck was just asked for.                                           *)
Wanted(checking) ==
    checking \union {t \in Hashed : pending[t] = "fresh"}

(* CheckHoldTracker.sync, under its lock.                                  *)
Sync(checking) ==
    LET added   == IF Holding THEN Wanted(checking) \ watched ELSE {}
        removed == watched \ Wanted(checking)
    IN  /\ pending' = [t \in Hashed |-> IF t \in Wanted(checking) \ checking
                                        THEN pending[t] ELSE "no"]
        /\ watched' = (watched \ removed) \union added
        /\ last' = checking
        /\ refs' = (refs + Cardinality(added)) - Cardinality(removed)
        /\ session' = IF added \union removed = {} THEN session
                      ELSE SessionLimit(desired, refs')
        /\ UNCHANGED desired

(* The event loop runs one observe at a time.                              *)
LoopFree == \A o \in Observers : obs[o].at # "copied"

(* _snapshot reads the state in a thread ...                               *)
ObserveRead(o, t) ==
    /\ obs[o].at = "idle"
    /\ obs' = [obs EXCEPT ![o] = [at |-> "read", t |-> t,
                                  full |-> label[t] = "hashing", seen |-> {}]]
    /\ UNCHANGED <<gate, label, tracker, poll, save>>

(* ... and back on the loop asks the admission for a label of its own, and *)
(* changes a copy of the last known set by this one torrent.               *)
Observed(o) ==
    IF obs[o].full \/ label[obs[o].t] = "admitted"
    THEN last \union {obs[o].t} ELSE last \ {obs[o].t}

ObserveCopy(o) ==
    /\ obs[o].at = "read" /\ LoopFree
    /\ obs' = [obs EXCEPT ![o].at = "copied", ![o].seen = Observed(o)]
    /\ UNCHANGED <<gate, label, tracker, poll, save>>

ObserveSync(o) ==
    /\ obs[o].at = "copied"
    /\ Sync(obs[o].seen)
    /\ obs' = [obs EXCEPT ![o].at = "idle", ![o].seen = {}]
    /\ UNCHANGED <<label, poll, save>>

(* A recheck was sent to libtorrent, which reports it only later.          *)
NoteRecheck(o, t) ==
    /\ obs[o].at = "idle" /\ LoopFree
    /\ pending' = [pending EXCEPT ![t] = "fresh"]
    /\ obs' = [obs EXCEPT ![o] = [at |-> "copied", t |-> t, full |-> FALSE, seen |-> last]]
    /\ UNCHANGED <<gate, label, watched, last, poll, save>>

(* remove: the torrent is gone, and is observed as seeding.                *)
ObserveRemoved(o, t) ==
    /\ obs[o].at = "idle" /\ LoopFree
    /\ label' = [label EXCEPT ![t] = "idle"]
    /\ obs' = [obs EXCEPT ![o] = [at |-> "copied", t |-> t, full |-> FALSE,
                                  seen |-> last \ {t}]]
    /\ UNCHANGED <<gate, tracker, poll, save>>

-----------------------------------------------------------------------------
(* session_stats collects the states libtorrent reports, then syncs.       *)
PollRead(p) ==
    /\ poll[p].at = "idle"
    /\ poll' = [poll EXCEPT ![p] = [at |-> "read",
                                    seen |-> {t \in Hashed : label[t] = "hashing"}]]
    /\ UNCHANGED <<gate, label, tracker, obs, save>>

PollSync(p) ==
    /\ poll[p].at = "read"
    /\ Sync(poll[p].seen)
    /\ poll' = [poll EXCEPT ![p] = Quiet]
    /\ UNCHANGED <<label, obs, save>>

-----------------------------------------------------------------------------
(* set_session_limits: an operator, or the heartbeat of the orchestrator.  *)
SetDesired(r) ==
    /\ desired' = r
    /\ session' = SessionLimit(r, refs)
    /\ UNCHANGED <<refs, label, tracker, threads>>

(* _write_session_state keeps the cap out of the saved state.  It reads    *)
(* the gate without its lock, ...                                          *)
SaveLook(s) ==
    /\ save[s].at = "idle"
    /\ save' = [save EXCEPT ![s] = [at |-> "looked", wanted |-> desired,
                                    held |-> refs > 0 /\ Cap > 0]]
    /\ UNCHANGED <<gate, label, tracker, obs, poll>>

(* ... lifts the cap while libtorrent writes down its settings, ...        *)
SaveLift(s) ==
    /\ save[s].at = "looked"
    /\ IF save[s].held
       THEN /\ session' = save[s].wanted
            /\ save' = [save EXCEPT ![s].at = "lifted"]
       ELSE /\ save' = [save EXCEPT ![s] = NotSaving]
            /\ UNCHANGED session
    /\ UNCHANGED <<desired, refs, label, tracker, obs, poll>>

(* ... and puts back the limit it read, whatever was set meanwhile.        *)
SaveRestore(s) ==
    /\ save[s].at = "lifted"
    /\ desired' = save[s].wanted
    /\ session' = SessionLimit(save[s].wanted, refs)
    /\ save' = [save EXCEPT ![s] = NotSaving]
    /\ UNCHANGED <<refs, label, tracker, obs, poll>>

-----------------------------------------------------------------------------
(* begin_create and end_create, for the creator's threads.                 *)
BeginCreate ==
    /\ refs' = IF Holding THEN refs + 1 ELSE refs
    /\ session' = IF Holding THEN SessionLimit(desired, refs + 1) ELSE session
    /\ UNCHANGED desired

EndCreate ==
    /\ refs' = IF refs > 0 THEN refs - 1 ELSE 0
    /\ session' = IF refs > 0 THEN SessionLimit(desired, refs - 1) ELSE session
    /\ UNCHANGED desired

PollerStep(p) == PollRead(p) \/ PollSync(p)
ObserverStep(o) == ObserveCopy(o) \/ ObserveSync(o)
SaverStep(s) == SaveLift(s) \/ SaveRestore(s)

TorrentStep(t) ==
    \/ Relabel(t) \/ Admit(t) \/ GraceOver(t)
    \/ \E o \in Observers : ObserveRead(o, t) \/ NoteRecheck(o, t) \/ ObserveRemoved(o, t)

HoldNext ==
    \/ \E t \in Hashed : TorrentStep(t)
    \/ \E o \in Observers : ObserverStep(o)
    \/ \E p \in Pollers : PollerStep(p)
    \/ \E s \in Savers : SaveLook(s) \/ SaverStep(s)
    \/ \E r \in Rates : SetDesired(r)

-----------------------------------------------------------------------------
HoldTypeOK ==
    /\ desired \in Rates /\ refs \in Nat /\ session \in Rates \union {Cap}
    /\ label \in [Hashed -> {"idle", "admitted", "hashing"}]
    /\ pending \in [Hashed -> {"no", "fresh", "due"}]
    /\ watched \in SUBSET Hashed /\ last \in SUBSET Hashed
    /\ obs \in [Observers -> [at : {"idle", "read", "copied"}, t : Hashed,
                              full : BOOLEAN, seen : SUBSET Hashed]]
    /\ poll \in [Pollers -> [at : {"idle", "read"}, seen : SUBSET Hashed]]
    /\ save \in [Savers -> [at : {"idle", "looked", "lifted"}, wanted : Rates, held : BOOLEAN]]

(* The session has the limit that the operator's wish and the references   *)
(* give, whatever order begin, end, set_desired and the sync of several    *)
(* threads took: only while a thread writes the session state may it       *)
(* differ, and every such thread puts it right (_push, _write_session_state). *)
SessionFollows ==
    (\A s \in Savers : save[s].at # "lifted") => session = SessionLimit(desired, refs)
=============================================================================
