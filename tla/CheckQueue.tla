------------------------------ MODULE CheckQueue ------------------------------
(***************************************************************************)
(* Who may read files on one engine: the admission of torrents after a     *)
(* restart (check_admit.py), the queue of explicit rechecks                *)
(* (hash_queue.py), and the runtime methods of torrent_runtime.py that     *)
(* pause, resume, recheck and remove torrents beside them.                 *)
(*                                                                         *)
(* The event loop runs one coroutine at a time; a step is what runs        *)
(* between two awaits.  Timeouts may fire whenever they are armed.         *)
(* libtorrent itself is outside: lt holds what the code sees of it.        *)
(***************************************************************************)
EXTENDS SequencesExt, FiniteSets, Naturals

CONSTANTS Torrents,
          Limits,      \* the values hash_per_engine is given
          Ops,         \* the requests this instance serves
          MaxRestarts  \* bound: restarts of the engine

ASSUME CheckQueueAssumption ==
    /\ IsFiniteSet(Torrents)
    /\ Limits \subseteq Nat \ {0} /\ Limits # {}
    /\ MaxRestarts \in Nat

VARIABLES
    limit,
    held, queued,     \* CheckAdmit: to be probed; to be hashed
    probing, hashing, \* CheckAdmit: the slots, in the order they were given
    waiting, known,   \* CheckAdmit._waiting, ._known
    sawFull,          \* CheckAdmit._saw_full
    order,            \* HashQueue._order
    job,              \* [Torrents -> ...] the running HashQueue jobs
    loop,             \* _check_admit_once
    lt,               \* [Torrents -> ...] the handle and its state
    userPaused,       \* UserPauseStore, on disk
    savedPaused,      \* the torrents whose fastresume has the paused flag
    op,               \* [Torrents -> ...] the pause or resume in progress
    restarts

admit == <<held, queued, probing, hashing, waiting, known, sawFull>>
hashQueue == <<order, job>>
disk == <<userPaused, savedPaused>>
vars == <<limit, admit, hashQueue, loop, lt, disk, op, restarts>>

States == {"new", "checking", "settled"}  \* resume data, whole files, neither
Unread == [t \in Torrents |-> "unread"]

Without(s, S) ==
    LET kept[n \in 0..Len(s)] == IF n = 0 THEN <<>>
                                 ELSE IF s[n] \in S THEN kept[n - 1]
                                 ELSE Append(kept[n - 1], s[n])
    IN kept[Len(s)]
First(s, n) == SubSeq(s, 1, Min({n, Len(s)}))
Rest(s, n) == SubSeq(s, Min({n, Len(s)}) + 1, Len(s))
(* Mutant of Minus: off by one, the last slot is never used. *)
MinusOne(x, y) == IF x > y + 1 THEN x - y - 1 ELSE 0

Minus(x, y) == IF x > y THEN x - y ELSE 0

Running == {t \in Torrents : job[t] # "none"}   \* HashQueue._running
(* Mutant of Busy: explicit rechecks are not counted. *)
BusyIgnored == 0

Busy == Cardinality(Running)                    \* running_count
Here == {t \in Torrents : lt[t].here}           \* _handles

(* The engine after its start: every torrent is added paused, by the user  *)
(* or to be held; the admission loop begins.                               *)
Restored == SetToSeqs(Here \ (userPaused \cap savedPaused))

Init ==
    /\ limit \in Limits
    /\ lt = [t \in Torrents |-> [here |-> TRUE, state |-> "new", paused |-> TRUE]]
    /\ userPaused = {} /\ savedPaused = {}
    /\ held \in Restored
    /\ queued = <<>> /\ probing = <<>> /\ hashing = {}
    /\ waiting = ToSet(held) /\ known = ToSet(held) /\ sawFull = {}
    /\ order = <<>> /\ job = [t \in Torrents |-> "none"]
    /\ loop = [seen |-> Unread, pause |-> <<>>, resume |-> <<>>]
    /\ op = [t \in Torrents |-> "none"]
    /\ restarts = 0

-----------------------------------------------------------------------------
(* libtorrent: a torrent that is not paused reads its resume data, then    *)
(* its files if it must, and settles.                                      *)
Check(t) ==
    /\ lt[t].here /\ ~lt[t].paused /\ lt[t].state # "settled"
    /\ \E s \in {"checking", "settled"} :
           /\ s # lt[t].state
           /\ lt' = [lt EXCEPT ![t].state = s]
    /\ UNCHANGED <<limit, admit, hashQueue, loop, disk, op, restarts>>

(* Mutant of SetPaused: the label of the card for the torrent's state. *)
SetLabel(t, paused) ==
    lt' = IF lt[t].here THEN [lt EXCEPT ![t].state = IF paused THEN "paused" ELSE @]
          ELSE lt

(* _call_live with _manual_pause or _manual_resume. *)
SetPaused(t, paused) ==
    lt' = IF lt[t].here THEN [lt EXCEPT ![t].paused = paused] ELSE lt

(* The paused flags of the fastresume files.  Only a restart reads them,   *)
(* so they are followed while the bound leaves one to come.                *)
Saved(paused) == IF restarts < MaxRestarts THEN paused ELSE savedPaused

-----------------------------------------------------------------------------
(* HashQueue *)

(* _pump_locked: the first of the queue start while slots are free. *)
Pump(waitingJobs, running, n) ==
    LET started == First(waitingJobs, Minus(n, Cardinality(running))) IN
    /\ order' = Rest(waitingJobs, Minus(n, Cardinality(running)))
    /\ job' = [t \in Torrents |-> CASE t \in ToSet(started) -> "recheck"
                                    [] t \in running \ ToSet(started) -> job[t]
                                    [] OTHER -> "none"]

(* recheck's job: the handle is resumed and rechecked, if it is there. *)
JobRecheck(t) ==
    /\ job[t] = "recheck"
    /\ lt[t].here
    /\ lt' = [lt EXCEPT ![t].paused = FALSE, ![t].state = "checking"]
    /\ job' = [job EXCEPT ![t] = "wait"]
    /\ UNCHANGED <<limit, admit, order, loop, disk, op, restarts>>

(* The job ends: the torrent is gone, its check is over, or six hours of a *)
(* paused check are.  _wrap gives the slot back.                           *)
JobEnds(t) ==
    /\ job[t] # "none"
    /\ ~lt[t].here \/ (job[t] = "wait" /\ (lt[t].paused \/ lt[t].state # "checking"))
    /\ Pump(order, Running \ {t}, limit)
    /\ UNCHANGED <<limit, admit, loop, lt, disk, op, restarts>>

-----------------------------------------------------------------------------
(* CheckAdmit *)

(* Mutants of Drop: the queue of full checks is forgotten; nothing is done. *)
DropHeld(t) ==
    /\ held' = Without(held, {t}) /\ probing' = Without(probing, {t})
    /\ hashing' = hashing \ {t} /\ waiting' = waiting \ {t}
    /\ known' = known \ {t} /\ sawFull' = sawFull \ {t}
    /\ UNCHANGED queued
DropNothing(t) == UNCHANGED admit

(* drop(t) *)
Drop(t) ==
    /\ held' = Without(held, {t}) /\ queued' = Without(queued, {t})
    /\ probing' = Without(probing, {t}) /\ hashing' = hashing \ {t}
    /\ waiting' = waiting \ {t} /\ known' = known \ {t}
    /\ sawFull' = sawFull \ {t}

(* A round of _check_admit_once: the states of all torrents with a slot    *)
(* are read one after the other, then comes the tick, then its actions.    *)
Acting == loop.pause # <<>> \/ loop.resume # <<>>
Watched == ToSet(probing) \cup hashing

ReadState(t) ==
    /\ ~Acting
    /\ t \in Watched
    /\ loop.seen[t] = "unread"
    /\ loop' = [loop EXCEPT !.seen[t] = IF lt[t].here THEN lt[t].state ELSE "gone"]
    /\ UNCHANGED <<limit, admit, hashQueue, lt, disk, op, restarts>>

(* tick.  late: the torrents whose probe_timeout is over.  A check that    *)
(* began is waited for; a torrent that settled or is late frees its slot.  *)
Tick(late) ==
    LET saw(s) == {t \in Torrents : loop.seen[t] = s}
        gone == saw("gone") \cap Watched
        full == Without(probing, Torrents \ saw("checking"))
        freed == (saw("settled") \cup (saw("new") \cap late))
                 \cap (ToSet(probing) \cup (hashing \ (sawFull \ saw("settled"))))
        probing1 == Without(probing, gone \cup freed \cup ToSet(full))
        hashing1 == hashing \ (gone \cup freed)
        (* _shrink takes probes back only, to the front of held *)
        over == Minus(Len(probing1) + Cardinality(hashing1) + Busy, limit)
        back == First(probing1, over)
        probing2 == Rest(probing1, over)
        held2 == Reverse(back) \o held
        queued2 == queued \o full
        slots == Minus(limit, Len(probing2) + Cardinality(hashing1) + Busy)
        (* nothing is hashed while there is something to probe *)
        taken == First(IF held2 # <<>> THEN held2 ELSE queued2, slots)
        pause == full \o back
    IN
    /\ ~Acting
    /\ saw("unread") \cap Watched = {}
    /\ IF held2 # <<>>
       THEN /\ held' = Rest(held2, slots) /\ probing' = probing2 \o taken
            /\ queued' = queued2 /\ hashing' = hashing1
       ELSE /\ queued' = Rest(queued2, slots) /\ hashing' = hashing1 \cup ToSet(taken)
            /\ held' = held2 /\ probing' = probing2
    /\ waiting' = (waiting \cup ToSet(pause)) \ (ToSet(taken) \cup gone \cup freed)
    /\ known' = known \ (gone \cup freed)
    /\ sawFull' = (sawFull \cup (hashing \cap saw("checking"))) \ (gone \cup freed)
    /\ loop' = [seen |-> Unread, pause |-> Without(pause, ToSet(taken)),
                resume |-> Without(taken, ToSet(pause))]
    /\ UNCHANGED <<limit, hashQueue, lt, disk, op, restarts>>

(* _queue_pause and _queue_resume, one torrent after the other. *)
QueueTurn(t, paused) ==
    /\ SetPaused(t, paused)
    /\ IF lt[t].here THEN UNCHANGED admit ELSE Drop(t)

QueuePause ==
    /\ loop.pause # <<>>
    /\ QueueTurn(Head(loop.pause), TRUE)
    /\ loop' = [loop EXCEPT !.pause = Tail(@)]
    /\ UNCHANGED <<limit, hashQueue, disk, op, restarts>>

QueueResume ==
    /\ loop.pause = <<>> /\ loop.resume # <<>>
    /\ QueueTurn(Head(loop.resume), FALSE)
    /\ loop' = [loop EXCEPT !.resume = Tail(@)]
    /\ UNCHANGED <<limit, hashQueue, disk, op, restarts>>

-----------------------------------------------------------------------------
(* Requests: what runs before the first await, then the calls in threads.  *)

Pause(t) ==
    /\ "pause" \in Ops
    /\ lt[t].here /\ op[t] = "none"
    /\ Drop(t)
    /\ userPaused' = userPaused \cup {t}
    /\ op' = [op EXCEPT ![t] = "pause"]
    /\ UNCHANGED <<limit, hashQueue, loop, lt, savedPaused, restarts>>

PauseTorrent(t) ==
    /\ op[t] = "pause"
    /\ SetPaused(t, TRUE)
    /\ op' = [op EXCEPT ![t] = IF lt[t].here THEN "save" ELSE "none"]
    /\ UNCHANGED <<limit, admit, hashQueue, loop, disk, restarts>>

(* _persist_resume of this torrent *)
SavePaused(t) ==
    /\ op[t] = "save"
    /\ savedPaused' = Saved(IF lt[t].here /\ lt[t].paused
                            THEN savedPaused \cup {t} ELSE savedPaused \ {t})
    /\ op' = [op EXCEPT ![t] = "none"]
    /\ UNCHANGED <<limit, admit, hashQueue, loop, lt, userPaused, restarts>>

Resume(t) ==
    /\ "resume" \in Ops
    /\ lt[t].here /\ op[t] = "none"
    /\ userPaused' = userPaused \ {t}
    /\ Drop(t)
    /\ op' = [op EXCEPT ![t] = "resume"]
    /\ UNCHANGED <<limit, hashQueue, loop, lt, savedPaused, restarts>>

ResumeTorrent(t) ==
    /\ op[t] = "resume"
    /\ SetPaused(t, FALSE)
    /\ op' = [op EXCEPT ![t] = "none"]
    /\ UNCHANGED <<limit, admit, hashQueue, loop, disk, restarts>>

(* submit: a torrent that is queued or runs is not queued again. *)
Recheck(t) ==
    /\ "recheck" \in Ops
    /\ lt[t].here
    /\ Drop(t)
    /\ IF t \in Running \cup ToSet(order) THEN UNCHANGED hashQueue
       ELSE Pump(Append(order, t), Running, limit)
    /\ UNCHANGED <<limit, loop, lt, disk, op, restarts>>

(* remove: the admission learns of it at its next round. *)
RemoveTorrent(t) ==
    /\ "remove" \in Ops
    /\ lt[t].here
    /\ lt' = [lt EXCEPT ![t] = [here |-> FALSE, state |-> "new", paused |-> TRUE]]
    /\ savedPaused' = Saved(savedPaused \ {t})
    /\ UNCHANGED <<limit, admit, hashQueue, loop, userPaused, op, restarts>>

SetHashLimit(n) ==
    /\ "limit" \in Ops
    /\ n # limit
    /\ limit' = n
    /\ Pump(order, Running, n)
    /\ UNCHANGED <<admit, loop, lt, disk, op, restarts>>

(* The periodic save of every fastresume. *)
PeriodicSave ==
    /\ savedPaused' = Saved({t \in Here : lt[t].paused})
    /\ UNCHANGED <<limit, admit, hashQueue, loop, lt, userPaused, op, restarts>>

Restart ==
    /\ restarts < MaxRestarts
    /\ restarts' = restarts + 1
    /\ lt' = [t \in Torrents |-> [here |-> lt[t].here, state |-> "new", paused |-> TRUE]]
    /\ held' \in Restored
    /\ queued' = <<>> /\ probing' = <<>> /\ hashing' = {}
    /\ waiting' = ToSet(held') /\ known' = ToSet(held') /\ sawFull' = {}
    /\ order' = <<>> /\ job' = [t \in Torrents |-> "none"]
    /\ loop' = [seen |-> Unread, pause |-> <<>>, resume |-> <<>>]
    /\ op' = [t \in Torrents |-> "none"]
    /\ UNCHANGED <<limit, disk>>

-----------------------------------------------------------------------------
Job(t) == JobRecheck(t) \/ JobEnds(t)

Request(t) == PauseTorrent(t) \/ SavePaused(t) \/ ResumeTorrent(t)

Loop ==
    \/ \E t \in Torrents : ReadState(t)
    \/ \E late \in SUBSET {t \in Watched : loop.seen[t] = "new"} : Tick(late)
    \/ QueuePause \/ QueueResume

Next ==
    \/ Loop
    \/ \E t \in Torrents :
          \/ Check(t) \/ Job(t) \/ Request(t)
          \/ Pause(t) \/ Resume(t) \/ Recheck(t) \/ RemoveTorrent(t)
    \/ \E n \in Limits : SetHashLimit(n)
    \/ PeriodicSave \/ Restart

Spec == Init /\ [][Next]_vars

(* The loops and the jobs of the engine run on, a check that is not paused *)
(* comes to its end.                                                       *)
FairSpec ==
    /\ Spec
    /\ WF_vars(Loop)
    /\ \A t \in Torrents : WF_vars(Check(t)) /\ WF_vars(Job(t)) /\ WF_vars(Request(t))
-----------------------------------------------------------------------------
(* Properties. *)

Steps == {"none", "pause", "save", "resume"}
Jobs == {"none", "recheck", "wait"}

(* The values every variable keeps to. *)
TypeOK ==
    /\ limit \in Limits
    /\ {held, queued, probing, order, loop.pause, loop.resume} \subseteq Seq(Torrents)
    /\ {hashing, waiting, known, sawFull, userPaused, savedPaused}
           \subseteq SUBSET Torrents
    /\ loop.seen \in [Torrents -> States \cup {"unread", "gone"}]
    /\ lt \in [Torrents -> [here : BOOLEAN, state : States, paused : BOOLEAN]]
    /\ job \in [Torrents -> Jobs]
    /\ op \in [Torrents -> Steps]
    /\ restarts \in 0..MaxRestarts

(* A torrent has one place in the admission, and one in the queue of       *)
(* rechecks; _waiting and _known say exactly who waits and who has a place *)
(* ("Ждёт проверки" is shown by _waiting alone).                           *)
OnePlace ==
    LET places == held \o queued \o probing IN
    /\ IsInjective(places) /\ IsInjective(order)
    /\ ToSet(places) \cap hashing = {}
    /\ ToSet(order) \cap Running = {}
    /\ waiting = ToSet(held) \cup ToSet(queued)
    /\ known = ToSet(places) \cup hashing
    /\ sawFull \subseteq hashing

(* A torrent that is shown as waiting for its check reads nothing, once    *)
(* the loop has carried out its last decision.                             *)
WaitingIsPaused ==
    \A t \in waiting : lt[t].here /\ t \notin ToSet(loop.pause) => lt[t].paused

(* "An explicit recheck consumes the same slots" (test_check_admit.py):    *)
(* tick and _pump_locked share the disk as ReadSlots says, whatever pause, *)
(* removal, restart or smaller limit comes between a look and a decision.  *)
Slots == INSTANCE ReadSlots WITH checks <- ToSet(probing) \cup hashing, rechecks <- Running

ImplementsReadSlots == Slots!Spec

(* Every torrent that comes back from a restart gets through its check     *)
(* unless its user pauses or removes it: no wave waits for ever.           *)
CheckEnds ==
    \A t \in Torrents :
        lt[t].state # "settled" ~>
            lt[t].state = "settled" \/ ~lt[t].here \/ t \in userPaused

(* "A manual pause is written to user-paused.json and the queue does not   *)
(* take it back" (WORK_QUEUES.md): a paused torrent stays paused.          *)
UserPauseHolds ==
    \A t \in userPaused : lt[t].here /\ op[t] # "pause" => lt[t].paused
=============================================================================
