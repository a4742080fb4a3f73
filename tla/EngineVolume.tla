---------------------------- MODULE EngineVolume ----------------------------
(***************************************************************************)
(* One torrent on one engine (torrent_runtime.py, fastresume_io.py): the   *)
(* torrent in libtorrent's session, the handle under which the engine      *)
(* lists it, and the two files from which the engine, which does not read  *)
(* the database, comes back after a restart.                               *)
(*                                                                         *)
(* Requests, the periodic save and the poll of the list run side by side.  *)
(* A step is what a call does between two awaits; writing a file takes     *)
(* two, because a crash in between leaves a torn file.                     *)
(***************************************************************************)
EXTENDS Naturals

CONSTANTS VolCalls,     \* calls in progress on the engine
          MaxAdds,      \* bound: incarnations of the torrent per engine process
          MaxVolCrashes,
          Overlap       \* may requests that change the torrent overlap?

ASSUME VolumeAssumption ==
    MaxAdds \in Nat /\ MaxVolCrashes \in Nat /\ Overlap \in BOOLEAN

VARIABLES
    eng,          \* the engine's process: down, boot, up, stopping
    source,       \* what the torrents row holds: a magnet or a .torrent
    inSession,    \* the torrent in libtorrent: its incarnation, or 0
    serial,       \* incarnations so far in this process
    handle,       \* _handles[db_id]: an incarnation, or 0
    torrentFile,  \* .torrents/<id>.torrent: none, torn, good
    resume,       \* .fastresume/<id>.fastresume
    vcall,        \* the calls
    assigned,     \* history: what the last answered add or remove left
    accident,     \* history: an accident happened that nothing guards against
    vcrashes

files == <<torrentFile, resume>>
lists == <<inSession, serial, handle>>
history == <<assigned, accident>>
volumeVars == <<eng, source, lists, files, vcall, history, vcrashes>>

Resting == [op |-> "none", at |-> "idle", h |-> 0, data |-> FALSE, blob |-> FALSE]
Free(c) == vcall[c].op = "none"
Changing == {"add", "remove", "restore"}
MayChange == Overlap \/ \A c \in VolCalls : vcall[c].op \notin Changing

VolumeInit ==
    /\ eng = "up" /\ source \in {"magnet", "file"}
    /\ inSession = 0 /\ serial = 0 /\ handle = 0
    /\ torrentFile = "none" /\ resume = "none"
    /\ vcall = [c \in VolCalls |-> Resting]
    /\ assigned = "no" /\ accident = FALSE /\ vcrashes = 0

At(c, at) == vcall' = [vcall EXCEPT ![c].at = at]

(* A call is answered: an add says that the engine has the torrent, the    *)
(* last step of a start opens the engine for requests.                     *)
Finished(c) ==
    /\ vcall' = [vcall EXCEPT ![c] = Resting]
    /\ assigned' = IF vcall[c].op = "add" THEN "yes" ELSE assigned
    /\ eng' = IF vcall[c].op = "boot" THEN "up" ELSE eng

(* libtorrent: a torrent already in the session is found, not added again. *)
Incarnation == IF inSession # 0 THEN inSession ELSE serial + 1
LtAdd == inSession' = Incarnation /\ serial' = IF inSession # 0 THEN serial ELSE serial + 1

-----------------------------------------------------------------------------
(* add_torrent: a fastresume file, when there is one, is tried first.      *)
Entry(op, data) ==
    [op |-> op, at |-> IF resume = "none" THEN "fresh" ELSE "blob",
     h |-> 0, data |-> data, blob |-> resume = "good"]

AddBegin(c) ==
    /\ eng = "up" /\ Free(c) /\ MayChange /\ serial < MaxAdds
    /\ vcall' = [vcall EXCEPT ![c] = Entry("add", TRUE)]
    /\ assigned' = "unknown"
    /\ UNCHANGED <<eng, source, lists, files, accident, vcrashes>>

FromResume(c) ==
    /\ vcall[c].at \in {"blob", "look"}
    /\ IF vcall[c].blob
       THEN LtAdd /\ vcall' = [vcall EXCEPT ![c].at = "register", ![c].h = Incarnation]
       ELSE /\ At(c, IF vcall[c].at = "blob" THEN "fresh" ELSE "disk")
            /\ UNCHANGED <<inSession, serial>>
    /\ UNCHANGED <<eng, source, handle, files, history, vcrashes>>

Register(c) ==
    /\ vcall[c].at = "register"
    /\ handle' = vcall[c].h
    /\ Finished(c)
    /\ UNCHANGED <<source, inSession, serial, files, accident, vcrashes>>

(* Mutant of AddFresh: the .torrent is not kept.                           *)
AddOnly(c) ==
    /\ vcall[c].at = "fresh" /\ vcall[c].data
    /\ LtAdd
    /\ vcall' = [vcall EXCEPT ![c].at = "enter", ![c].h = Incarnation]
    /\ UNCHANGED <<eng, source, handle, files, history, vcrashes>>

(* _add and _kickstart; torrent data that does not parse raises.           *)
AddFresh(c) ==
    /\ vcall[c].at = "fresh"
    /\ IF vcall[c].data
       THEN /\ LtAdd
            /\ vcall' = [vcall EXCEPT ![c].h = Incarnation,
                  ![c].at = IF vcall[c].op = "add" /\ source = "magnet" THEN "enter" ELSE "file"]
            /\ UNCHANGED <<eng, assigned>>
       ELSE Finished(c) /\ UNCHANGED <<inSession, serial>>
    /\ UNCHANGED <<source, handle, files, accident, vcrashes>>

(* _persist_torrent_file opens the file, which empties it, and writes; a   *)
(* file that was deleted meanwhile stays deleted.                          *)
OpenTorrentFile(c) ==
    /\ vcall[c].at = "file"
    /\ torrentFile' = "torn"
    /\ accident' = (accident \/ vcall[c].h # inSession)
    /\ At(c, "filled")
    /\ UNCHANGED <<eng, source, lists, resume, assigned, vcrashes>>

WriteTorrentFile(c) ==
    /\ vcall[c].at = "filled"
    /\ torrentFile' = IF torrentFile = "none" THEN "none" ELSE "good"
    /\ IF vcall[c].op = "read" THEN Finished(c) ELSE At(c, "enter") /\ UNCHANGED <<eng, assigned>>
    /\ UNCHANGED <<source, lists, resume, accident, vcrashes>>

Enter(c) ==
    /\ vcall[c].at = "enter"
    /\ handle' = vcall[c].h
    /\ At(c, "save")
    /\ UNCHANGED <<eng, source, inSession, serial, files, history, vcrashes>>

-----------------------------------------------------------------------------
(* _persist_resume, under _resume_lock: libtorrent is asked for the data   *)
(* and answers with an alert; without one the save gives up.               *)
HasLock(c) == vcall[c].at \in {"asked", "popped", "opened"} /\ vcall[c].op # "orphan"

SaveAsk(c) ==
    /\ vcall[c].at = "save" /\ ~\E d \in VolCalls : HasLock(d)
    /\ IF vcall[c].h # 0 /\ vcall[c].h = inSession
       THEN At(c, "asked") /\ UNCHANGED <<eng, assigned>>
       ELSE Finished(c)
    /\ UNCHANGED <<source, lists, files, accident, vcrashes>>

SavePop(c) ==
    /\ vcall[c].at = "asked" /\ vcall[c].h = inSession
    /\ At(c, "popped")
    /\ UNCHANGED <<eng, source, lists, files, history, vcrashes>>

SaveTimesOut(c) ==
    /\ vcall[c].at = "asked"
    /\ Finished(c)
    /\ UNCHANGED <<source, lists, files, accident, vcrashes>>

(* The torrent may have been removed since its alert was popped.           *)
OpenResume(c) ==
    /\ vcall[c].at = "popped"
    /\ resume' = "torn"
    /\ accident' = (accident \/ vcall[c].h # inSession)
    /\ At(c, "opened")
    /\ UNCHANGED <<eng, source, lists, torrentFile, assigned, vcrashes>>

WriteResume(c) ==
    /\ vcall[c].at = "opened"
    /\ resume' = IF resume = "none" THEN "none" ELSE "good"
    /\ Finished(c)
    /\ UNCHANGED <<source, lists, torrentFile, accident, vcrashes>>

(* The periodic save, and the save of a pause, of the handle they found.   *)
SaveBegin(c) ==
    /\ eng = "up" /\ Free(c) /\ handle # 0
    /\ vcall' = [vcall EXCEPT ![c] = [Resting EXCEPT !.op = "save", !.at = "save", !.h = handle]]
    /\ UNCHANGED <<eng, source, lists, files, history, vcrashes>>

-----------------------------------------------------------------------------
(* Mutant of RemoveBegin: the handle is looked up, and stays listed.       *)
RemoveListed(c) ==
    /\ eng = "up" /\ Free(c) /\ MayChange
    /\ vcall' = [vcall EXCEPT ![c] = [Resting EXCEPT !.op = "remove", !.h = handle,
                                      !.at = IF handle = 0 THEN "files" ELSE "remove"]]
    /\ assigned' = "unknown"
    /\ UNCHANGED <<eng, source, lists, files, accident, vcrashes>>

(* remove: first the handle, then the session, the content and the files.  *)
RemoveBegin(c) ==
    /\ eng = "up" /\ Free(c) /\ MayChange
    /\ vcall' = [vcall EXCEPT ![c] = [Resting EXCEPT !.op = "remove", !.h = handle,
                                      !.at = IF handle = 0 THEN "files" ELSE "remove"]]
    /\ handle' = 0
    /\ assigned' = "unknown"
    /\ UNCHANGED <<eng, source, inSession, serial, files, accident, vcrashes>>

RemoveFromSession(c) ==
    /\ vcall[c].at = "remove"
    /\ inSession' = IF inSession = vcall[c].h THEN 0 ELSE inSession
    /\ At(c, "files")
    /\ UNCHANGED <<eng, source, serial, handle, files, history, vcrashes>>

(* Mutant of RemoveFiles: the fastresume file stays.                       *)
KeepResume(c) ==
    /\ vcall[c].at = "files"
    /\ torrentFile' = "none"
    /\ vcall' = [vcall EXCEPT ![c] = Resting]
    /\ assigned' = "no"
    /\ UNCHANGED <<eng, source, lists, resume, accident, vcrashes>>

RemoveFiles(c) ==
    /\ vcall[c].at = "files"
    /\ torrentFile' = "none" /\ resume' = "none"
    /\ vcall' = [vcall EXCEPT ![c] = Resting]
    /\ assigned' = "no"
    /\ UNCHANGED <<eng, source, lists, accident, vcrashes>>

-----------------------------------------------------------------------------
(* read_torrent_file: a torrent without a file is exported from its handle *)
(* and the file is written; a magnet may not have its metadata yet.        *)
ReadBegin(c) ==
    /\ eng = "up" /\ Free(c) /\ torrentFile = "none" /\ handle # 0
    /\ vcall' = [vcall EXCEPT ![c] = [Resting EXCEPT !.op = "read", !.at = "export", !.h = handle]]
    /\ UNCHANGED <<eng, source, lists, files, history, vcrashes>>

Export(c) ==
    /\ vcall[c].at = "export"
    /\ \/ vcall[c].h = inSession /\ At(c, "file") /\ UNCHANGED <<eng, assigned>>
       \/ (vcall[c].h # inSession \/ source = "magnet") /\ Finished(c)
    /\ UNCHANGED <<source, lists, files, accident, vcrashes>>

(* _snapshot: a handle that libtorrent no longer knows is dropped, by the  *)
(* torrent's id.                                                           *)
SnapshotBegin(c) ==
    /\ eng = "up" /\ Free(c) /\ handle # 0
    /\ vcall' = [vcall EXCEPT ![c] = [Resting EXCEPT !.op = "list", !.at = "status", !.h = handle]]
    /\ UNCHANGED <<eng, source, lists, files, history, vcrashes>>

SnapshotRead(c) ==
    /\ vcall[c].at = "status"
    /\ IF vcall[c].h = inSession THEN Finished(c) ELSE At(c, "forget") /\ UNCHANGED <<eng, assigned>>
    /\ UNCHANGED <<source, lists, files, accident, vcrashes>>

ForgetHandle(c) ==
    /\ vcall[c].at = "forget"
    /\ handle' = 0
    /\ accident' = (accident \/ (handle # 0 /\ handle = inSession))
    /\ Finished(c)
    /\ UNCHANGED <<source, inSession, serial, files, vcrashes>>

-----------------------------------------------------------------------------
(* The API asks for a torrent of its database that the engine does not     *)
(* list; a start does the same for every file it finds.                    *)
Looking(op) ==
    [Resting EXCEPT !.op = op, !.blob = (resume = "good"),
                    !.at = IF resume = "none" THEN "disk" ELSE "look"]

RestoreBegin(c) ==
    /\ eng = "up" /\ Free(c) /\ MayChange /\ source = "file"
    /\ handle = 0 /\ assigned # "no" /\ serial < MaxAdds
    /\ vcall' = [vcall EXCEPT ![c] = Looking("restore")]
    /\ UNCHANGED <<eng, source, lists, files, history, vcrashes>>

(* Mutant of FromDisk: a torn fastresume file is taken for a loaded one.   *)
NoFallback(c) ==
    /\ vcall[c].at = "disk"
    /\ IF torrentFile = "none" \/ handle # 0 \/ resume # "none"
       THEN Finished(c)
       ELSE /\ vcall' = [vcall EXCEPT ![c] = Entry(vcall[c].op, torrentFile = "good")]
            /\ UNCHANGED <<eng, assigned>>
    /\ UNCHANGED <<source, lists, files, accident, vcrashes>>

(* No usable fastresume: the .torrent goes through add_torrent.            *)
FromDisk(c) ==
    /\ vcall[c].at = "disk"
    /\ IF torrentFile = "none" \/ handle # 0
       THEN Finished(c)
       ELSE /\ vcall' = [vcall EXCEPT ![c] = Entry(vcall[c].op, torrentFile = "good")]
            /\ UNCHANGED <<eng, assigned>>
    /\ UNCHANGED <<source, lists, files, accident, vcrashes>>

(* start: nothing else runs until the files are restored.                  *)
Boot(c) ==
    /\ eng = "down"
    /\ eng' = "boot"
    /\ vcall' = [vcall EXCEPT ![c] = Looking("boot")]
    /\ UNCHANGED <<source, lists, files, history, vcrashes>>

(* stop: after the requests are answered.  A periodic save is cancelled,   *)
(* which gives its lock back, but its thread goes on.                      *)
StopBegin(c) ==
    /\ eng = "up" /\ Free(c)
    /\ \A d \in VolCalls : vcall[d].op \in {"none", "save"}
    /\ eng' = "stopping"
    /\ vcall' = [d \in VolCalls |->
            IF d = c THEN [Resting EXCEPT !.op = "stop", !.at = "save", !.h = handle]
            ELSE IF vcall[d].at = "save" THEN Resting
            ELSE IF Free(d) THEN Resting ELSE [vcall[d] EXCEPT !.op = "orphan"]]
    /\ handle' = 0
    /\ UNCHANGED <<source, inSession, serial, files, history, vcrashes>>

Gone == eng' = "down" /\ inSession' = 0 /\ serial' = 0 /\ handle' = 0

Exit ==
    /\ eng = "stopping" /\ \A c \in VolCalls : Free(c)
    /\ Gone
    /\ UNCHANGED <<source, files, vcall, history, vcrashes>>

(* The process dies; its calls are never answered.  A start that adds from *)
(* the .torrent rewrites that file, its only one, and may die doing so.    *)
VolumeCrash ==
    /\ eng # "down" /\ vcrashes < MaxVolCrashes
    /\ Gone
    /\ vcrashes' = vcrashes + 1
    /\ vcall' = [c \in VolCalls |-> Resting]
    /\ accident' = (accident \/ torrentFile = "torn")
    /\ UNCHANGED <<source, files, assigned>>

CallStep(c) ==
    \/ FromResume(c) \/ Register(c) \/ AddFresh(c) \/ OpenTorrentFile(c)
    \/ WriteTorrentFile(c) \/ Enter(c) \/ SaveAsk(c) \/ SavePop(c) \/ SaveTimesOut(c)
    \/ OpenResume(c) \/ WriteResume(c) \/ RemoveFromSession(c) \/ RemoveFiles(c)
    \/ Export(c) \/ SnapshotRead(c) \/ ForgetHandle(c) \/ FromDisk(c)

VolumeNext ==
    \/ \E c \in VolCalls :
          \/ AddBegin(c) \/ RemoveBegin(c) \/ RestoreBegin(c)
          \/ SaveBegin(c) \/ ReadBegin(c) \/ SnapshotBegin(c)
          \/ Boot(c) \/ StopBegin(c) \/ CallStep(c)
    \/ Exit \/ VolumeCrash

VolumeSpec == VolumeInit /\ [][VolumeNext]_volumeVars

-----------------------------------------------------------------------------
VolumeTypeOK ==
    /\ eng \in {"down", "boot", "up", "stopping"} /\ source \in {"magnet", "file"}
    /\ inSession \in Nat /\ serial \in Nat /\ handle \in Nat /\ vcrashes \in Nat
    /\ torrentFile \in {"none", "torn", "good"} /\ resume \in {"none", "torn", "good"}
    /\ vcall \in [VolCalls ->
          [op : {"none", "add", "remove", "restore", "save", "read", "list",
                 "boot", "stop", "orphan"},
           at : {"idle", "fresh", "blob", "look", "disk", "register", "file", "filled", "enter",
                 "save", "asked", "popped", "opened", "remove", "files", "export", "status",
                 "forget"},
           h : Nat, data : BOOLEAN, blob : BOOLEAN]]
    /\ assigned \in {"no", "unknown", "yes"} /\ accident \in BOOLEAN

(* The volume mirrors what the engine was given (_self_restore_from_disk): *)
(* a torrent added from a file, and not asked to go since, has a whole     *)
(* file on the volume, or a call that is writing one, whoever else is      *)
(* rewriting which of its two files.                                       *)
Recoverable ==
    assigned = "yes" /\ source = "file" /\ ~accident =>
        \/ "good" \in {torrentFile, resume}
        \/ \E c \in VolCalls : vcall[c].at = "filled" /\ torrentFile = "torn"

(* The other half: a removed torrent leaves nothing from which a restart   *)
(* would bring it back, unless a save, an export or a poll that had taken  *)
(* the old handle acted after the removal.                                 *)
GoneIsGone ==
    assigned = "no" /\ ~accident =>
        inSession = 0 /\ handle = 0 /\ torrentFile = "none" /\ resume = "none"

(* The engine lists exactly what seeds: once no request is at work, the    *)
(* handle is that of the torrent in the session (_call_live relies on it). *)
ListedIsLive ==
    eng = "up" /\ ~accident /\ (\A c \in VolCalls : vcall[c].op \notin Changing)
        => handle = inSession

(* What lies on the volume is what the engine was given, enough of it and  *)
(* nothing else, and so is what it lists.                                  *)
VolumeSound == Recoverable /\ GoneIsGone /\ ListedIsLive

(* A torrent added from a file is listed again after every crash and stop. *)
ComesBack ==
    (assigned = "yes" /\ source = "file")
        ~> (handle # 0 \/ assigned # "yes" \/ accident)
=============================================================================
