---------------------------- MODULE EngineProofs ----------------------------
(***************************************************************************)
(* Theorems about the parts of an engine, each a specification of its own: *)
(* the torrent and its two files, for any number of calls at work, of      *)
(* additions and of crashes, as long as requests that change the torrent   *)
(* take turns (~Overlap); where torrents look for peers, for any number of *)
(* torrents and overlapping calls; and downloads, for any files.  With the *)
(* parts of EngineWorkProofs they are put together at the end.             *)
(***************************************************************************)
EXTENDS MCEngine, EngineWorkProofs, WellFoundedInduction

Adders == {"add", "restore", "boot"}
Call == [op : {"none", "add", "remove", "restore", "save", "read", "list", "boot", "stop", "orphan"},
         at : {"idle", "fresh", "blob", "look", "disk", "register", "file", "filled", "enter",
               "save", "asked", "popped", "opened", "remove", "files", "export", "status", "forget"},
         h : Nat, data : BOOLEAN, blob : BOOLEAN]
Saving == {"save", "asked", "popped", "opened"}

(* Which call can be where, and what it has with it.                       *)
Shape(c) ==
    /\ vcall[c].at \in {"look", "disk"} => vcall[c].op \in {"restore", "boot"}
    /\ vcall[c].at \in {"fresh", "blob", "register", "enter"} => vcall[c].op \in Adders
    /\ vcall[c].at \in {"file", "filled"} => vcall[c].op \in Adders \union {"read"}
    /\ vcall[c].at \in Saving => vcall[c].op \in Adders \union {"save", "stop", "orphan"}
    /\ vcall[c].at \in {"remove", "files"} => vcall[c].op = "remove"
    /\ vcall[c].at = "export" => vcall[c].op = "read"
    /\ vcall[c].at \in {"status", "forget"} => vcall[c].op = "list"
    /\ vcall[c].op = "add" => vcall[c].data
    /\ vcall[c].op = "none" => vcall[c].h = 0
    /\ vcall[c].op = "read" \/ vcall[c].at \in {"asked", "popped", "opened"} => vcall[c].h # 0
    /\ vcall[c].h <= serial

(* Which calls there are while the engine starts, runs and stops.          *)
Phase(c) ==
    /\ eng = "down" => vcall[c].op = "none"
    /\ eng = "boot" => vcall[c].op \in {"none", "boot"}
    /\ eng = "up" => vcall[c].op \in {"none", "add", "remove", "restore", "save", "read", "list"}
    /\ eng = "stopping" => vcall[c].op \in {"none", "stop", "orphan"}

(* A call that adds or removes the torrent is the only one that does.      *)
Turns(c) == vcall[c].op \in Changing \union {"boot"}
OneTurn == \A c, d \in VolCalls : Turns(c) /\ Turns(d) => c = d

Typed ==
    /\ eng \in {"down", "boot", "up", "stopping"} /\ source \in {"magnet", "file"}
    /\ inSession \in Nat /\ serial \in Nat /\ handle \in Nat /\ vcrashes \in Nat
    /\ torrentFile \in {"none", "torn", "good"} /\ resume \in {"none", "torn", "good"}
    /\ vcall \in [VolCalls -> Call]
    /\ assigned \in {"no", "unknown", "yes"} /\ accident \in BOOLEAN

Base ==
    /\ Typed /\ OneTurn /\ inSession <= serial /\ handle <= serial
    /\ eng = "down" => handle = 0 /\ inSession = 0
    /\ \A c \in VolCalls : Shape(c) /\ Phase(c)

(* The handle is the torrent's in the session, or is missing while a call  *)
(* adds or removes it.                                                     *)
Listed ==
    /\ handle # 0 => handle = inSession
    /\ eng = "up" /\ (\A c \in VolCalls : ~Turns(c)) => handle = inSession

AdderListed(c) ==
    vcall[c].op \in Adders =>
        /\ vcall[c].at \in {"register", "file", "filled", "enter"} \union Saving =>
              vcall[c].h = inSession /\ vcall[c].h # 0
        /\ vcall[c].at \in {"look", "disk", "fresh", "blob"} \union Saving => handle = inSession
RemoverListed(c) ==
    vcall[c].op = "remove" =>
        /\ handle = 0
        /\ vcall[c].at = "remove" => vcall[c].h = inSession
        /\ vcall[c].at = "files" => inSession = 0

(* After a removal there is nothing left, and no call that would add.      *)
GoneOK ==
    assigned = "no" => /\ inSession = 0 /\ handle = 0 /\ torrentFile = "none" /\ resume = "none"
                       /\ \A c \in VolCalls : /\ vcall[c].op \notin Changing
                                              /\ vcall[c].op = "boot" => vcall[c].at = "disk"

(* Somebody writes a .torrent that is torn.                                *)
TornOK == torrentFile = "torn" => \E c \in VolCalls : vcall[c].at = "filled"

(* A torrent from a file whose .torrent is missing is not listed, not      *)
(* saved and not reported as added; only its first call gets it there.     *)
KeptOK ==
    source = "file" /\ torrentFile = "none" =>
        /\ resume = "none" /\ assigned # "yes" /\ handle = 0
        /\ \A c \in VolCalls :
              /\ vcall[c].op \in Adders =>
                    vcall[c].at \notin {"register", "filled", "enter"} \union Saving
              /\ vcall[c].op \in Adders /\ vcall[c].at \in {"blob", "look"} => ~vcall[c].blob
              /\ vcall[c].at \in Saving => vcall[c].h = 0 \/ vcall[c].h # inSession

Sound ==
    /\ Listed /\ (\A c \in VolCalls : AdderListed(c) /\ RemoverListed(c))
    /\ GoneOK /\ TornOK /\ KeptOK

VolumeInv == Base /\ (~accident => Sound)
-----------------------------------------------------------------------------
(* How a call goes on, and how it ends.                                    *)
Stages == {"fresh", "disk", "file", "filled", "enter", "save", "asked", "popped", "opened", "files",
           "forget"}

Only(c) == \A d \in VolCalls \ {c} : vcall'[d] = vcall[d]

LEMMA AtGives ==
    ASSUME Typed, NEW c \in VolCalls, NEW at \in Stages, At(c, at)
    PROVE  /\ vcall' \in [VolCalls -> Call] /\ Only(c)
           /\ vcall'[c].at = at /\ vcall'[c].op = vcall[c].op /\ vcall'[c].h = vcall[c].h
           /\ vcall'[c].data = vcall[c].data /\ vcall'[c].blob = vcall[c].blob
<1> DEFINE x == [vcall[c] EXCEPT !.at = at]
<1>1. vcall \in [VolCalls -> Call] /\ vcall[c] \in Call
  BY DEF Typed
<1>2. vcall' = [vcall EXCEPT ![c] = x]
  BY <1>1 DEF At
<1>3. /\ x \in Call /\ x.at = at /\ x.op = vcall[c].op /\ x.h = vcall[c].h
      /\ x.data = vcall[c].data /\ x.blob = vcall[c].blob
  BY <1>1 DEF Call, Stages
<1> HIDE DEF x
<1> QED
  BY <1>1, <1>2, <1>3 DEF Only

LEMMA RestingIs ==
    /\ Resting \in Call /\ Resting.op = "none" /\ Resting.at = "idle" /\ Resting.h = 0
    /\ ~Resting.data /\ ~Resting.blob
<1> QED
  BY DEF Resting, Call

LEMMA FinishedGives ==
    ASSUME Typed, NEW c \in VolCalls, Finished(c)
    PROVE  /\ vcall' \in [VolCalls -> Call] /\ Only(c)
           /\ vcall'[c] = Resting
           /\ assigned' = IF vcall[c].op = "add" THEN "yes" ELSE assigned
           /\ eng' = IF vcall[c].op = "boot" THEN "up" ELSE eng
<1> QED
  BY RestingIs DEF Typed, Finished, Only

LEMMA InitVolume == VolumeInit => VolumeInv
<1> SUFFICES ASSUME VolumeInit PROVE VolumeInv
  OBVIOUS
<1>1. Typed /\ \A c \in VolCalls : vcall[c] = Resting
  BY RestingIs DEF VolumeInit, Typed
<1>2. Base
  BY <1>1, RestingIs DEF VolumeInit, Base, OneTurn, Turns, Changing, Shape, Phase, Adders, Saving
<1>3. Sound
  BY <1>1, RestingIs DEF VolumeInit, Sound, Listed, AdderListed, RemoverListed, GoneOK, TornOK,
                         KeptOK, Changing, Adders, Saving
<1> QED
  BY <1>2, <1>3 DEF VolumeInv

(* Steps that only move a call on, or end it.                              *)
LEMMA SaveAskKeeps ==
    ASSUME VolumeInv, NEW c \in VolCalls, SaveAsk(c)
    PROVE  VolumeInv'
<1>1. Typed /\ UNCHANGED <<source, inSession, serial, handle, torrentFile, resume, accident, vcrashes>>
  BY DEF VolumeInv, Base, SaveAsk, lists, files, history
<1>2. /\ vcall' \in [VolCalls -> Call] /\ Only(c)
      /\ \/ /\ vcall'[c] = Resting
            /\ assigned' = IF vcall[c].op = "add" THEN "yes" ELSE assigned
            /\ eng' = IF vcall[c].op = "boot" THEN "up" ELSE eng
         \/ /\ vcall'[c].at = "asked" /\ vcall[c].h # 0
            /\ vcall'[c].op = vcall[c].op /\ vcall'[c].h = vcall[c].h
            /\ vcall'[c].data = vcall[c].data /\ UNCHANGED <<eng, assigned>>
  BY <1>1, AtGives, FinishedGives DEF SaveAsk, Stages
<1>3. vcall[c].at = "save"
  BY DEF SaveAsk
<1>4. Base'
  BY <1>1, <1>2, <1>3, RestingIs
  DEF VolumeInv, Base, Typed, OneTurn, Turns, Changing, Shape, Phase, Adders, Saving, Only
<1>5. ~accident' => Sound'
  BY <1>1, <1>2, <1>3, RestingIs
  DEF VolumeInv, Base, Sound, Listed, AdderListed, RemoverListed, GoneOK, TornOK, KeptOK,
       Turns, Shape, Phase, OneTurn, Changing, Adders, Saving, Only
<1> QED
  BY <1>4, <1>5 DEF VolumeInv

LEMMA SaveTimesOutKeeps ==
    ASSUME VolumeInv, NEW c \in VolCalls, SaveTimesOut(c)
    PROVE  VolumeInv'
<1>1. Typed /\ UNCHANGED <<source, inSession, serial, handle, torrentFile, resume, accident, vcrashes>>
  BY DEF VolumeInv, Base, SaveTimesOut, lists, files, history
<1>2. /\ vcall' \in [VolCalls -> Call] /\ Only(c)
      /\ vcall'[c] = Resting
      /\ assigned' = IF vcall[c].op = "add" THEN "yes" ELSE assigned
      /\ eng' = IF vcall[c].op = "boot" THEN "up" ELSE eng
  BY <1>1, FinishedGives DEF SaveTimesOut
<1>3. vcall[c].at = "asked"
  BY DEF SaveTimesOut
<1>4. Base'
  BY <1>1, <1>2, <1>3, RestingIs
  DEF VolumeInv, Base, Typed, OneTurn, Turns, Changing, Shape, Phase, Adders, Saving, Only
<1>5. ~accident' => Sound'
  BY <1>1, <1>2, <1>3, RestingIs
  DEF VolumeInv, Base, Sound, Listed, AdderListed, RemoverListed, GoneOK, TornOK, KeptOK,
       Turns, Shape, Phase, OneTurn, Changing, Adders, Saving, Only
<1> QED
  BY <1>4, <1>5 DEF VolumeInv

LEMMA ExportKeeps ==
    ASSUME VolumeInv, NEW c \in VolCalls, Export(c)
    PROVE  VolumeInv'
<1>1. Typed /\ UNCHANGED <<source, inSession, serial, handle, torrentFile, resume, accident, vcrashes>>
  BY DEF VolumeInv, Base, Export, lists, files, history
<1>2. /\ vcall' \in [VolCalls -> Call] /\ Only(c)
      /\ \/ /\ vcall'[c] = Resting
            /\ assigned' = IF vcall[c].op = "add" THEN "yes" ELSE assigned
            /\ eng' = IF vcall[c].op = "boot" THEN "up" ELSE eng
         \/ /\ vcall'[c].at = "file"
            /\ vcall'[c].op = vcall[c].op /\ vcall'[c].h = vcall[c].h
            /\ vcall'[c].data = vcall[c].data /\ UNCHANGED <<eng, assigned>>
  BY <1>1, AtGives, FinishedGives DEF Export, Stages
<1>3. vcall[c].at = "export"
  BY DEF Export
<1>4. Base'
  BY <1>1, <1>2, <1>3, RestingIs
  DEF VolumeInv, Base, Typed, OneTurn, Turns, Changing, Shape, Phase, Adders, Saving, Only
<1>5. ~accident' => Sound'
  BY <1>1, <1>2, <1>3, RestingIs
  DEF VolumeInv, Base, Sound, Listed, AdderListed, RemoverListed, GoneOK, TornOK, KeptOK,
       Turns, Shape, Phase, OneTurn, Changing, Adders, Saving, Only
<1> QED
  BY <1>4, <1>5 DEF VolumeInv

LEMMA SnapshotReadKeeps ==
    ASSUME VolumeInv, NEW c \in VolCalls, SnapshotRead(c)
    PROVE  VolumeInv'
<1>1. Typed /\ UNCHANGED <<source, inSession, serial, handle, torrentFile, resume, accident, vcrashes>>
  BY DEF VolumeInv, Base, SnapshotRead, lists, files, history
<1>2. /\ vcall' \in [VolCalls -> Call] /\ Only(c)
      /\ \/ /\ vcall'[c] = Resting
            /\ assigned' = IF vcall[c].op = "add" THEN "yes" ELSE assigned
            /\ eng' = IF vcall[c].op = "boot" THEN "up" ELSE eng
         \/ /\ vcall'[c].at = "forget"
            /\ vcall'[c].op = vcall[c].op /\ vcall'[c].h = vcall[c].h
            /\ vcall'[c].data = vcall[c].data /\ UNCHANGED <<eng, assigned>>
  BY <1>1, AtGives, FinishedGives DEF SnapshotRead, Stages
<1>3. vcall[c].at = "status"
  BY DEF SnapshotRead
<1>4. Base'
  BY <1>1, <1>2, <1>3, RestingIs
  DEF VolumeInv, Base, Typed, OneTurn, Turns, Changing, Shape, Phase, Adders, Saving, Only
<1>5. ~accident' => Sound'
  BY <1>1, <1>2, <1>3, RestingIs
  DEF VolumeInv, Base, Sound, Listed, AdderListed, RemoverListed, GoneOK, TornOK, KeptOK,
       Turns, Shape, Phase, OneTurn, Changing, Adders, Saving, Only
<1> QED
  BY <1>4, <1>5 DEF VolumeInv

LEMMA SavePopKeeps ==
    ASSUME VolumeInv, NEW c \in VolCalls, SavePop(c)
    PROVE  VolumeInv'
<1>1./\  Typed
     /\ UNCHANGED <<eng, assigned, source, inSession, serial, handle, torrentFile, resume, accident, vcrashes>>
  BY DEF VolumeInv, Base, SavePop, lists, files, history
<1>2. /\ vcall' \in [VolCalls -> Call] /\ Only(c)
      /\ vcall'[c].at = "popped" /\ vcall'[c].op = vcall[c].op /\ vcall'[c].h = vcall[c].h
      /\ vcall'[c].data = vcall[c].data
  BY <1>1, AtGives DEF SavePop, Stages
<1>3. vcall[c].at = "asked"
  BY DEF SavePop
<1>4. Base'
  BY <1>1, <1>2, <1>3, RestingIs
  DEF VolumeInv, Base, Typed, OneTurn, Turns, Changing, Shape, Phase, Adders, Saving, Only
<1>5. ~accident' => Sound'
  BY <1>1, <1>2, <1>3, RestingIs
  DEF VolumeInv, Base, Sound, Listed, AdderListed, RemoverListed, GoneOK, TornOK, KeptOK,
       Turns, Shape, Phase, OneTurn, Changing, Adders, Saving, Only
<1> QED
  BY <1>4, <1>5 DEF VolumeInv

(* Both files are emptied before they are written, by calls that may have  *)
(* outlived their torrent.                                                 *)
LEMMA OpenTorrentFileKeeps ==
    ASSUME VolumeInv, NEW c \in VolCalls, OpenTorrentFile(c)
    PROVE  VolumeInv'
<1>1. Typed /\ UNCHANGED <<eng, source, inSession, serial, handle, resume, assigned, vcrashes>>
  BY DEF VolumeInv, Base, OpenTorrentFile, lists, files, history
<1>2. /\ vcall[c].at = "file" /\ torrentFile' = "torn"
      /\ accident' = (accident \/ vcall[c].h # inSession)
  BY DEF OpenTorrentFile
<1>3. /\ vcall' \in [VolCalls -> Call] /\ Only(c)
      /\ vcall'[c].at = "filled" /\ vcall'[c].op = vcall[c].op /\ vcall'[c].h = vcall[c].h
      /\ vcall'[c].data = vcall[c].data
  BY <1>1, AtGives DEF OpenTorrentFile, Stages
<1>4. Base'
  BY <1>1, <1>2, <1>3, RestingIs
  DEF VolumeInv, Base, Typed, OneTurn, Turns, Changing, Shape, Phase, Adders, Saving, Only
<1>5. ASSUME ~accident'
      PROVE  Sound'
  <2>0. ~accident /\ vcall[c].h = inSession
    BY <1>1, <1>2, <1>5 DEF Typed
  <2>1. Listed'
    BY <1>1, <1>2, <1>3, <2>0, RestingIs
    DEF VolumeInv, Base, Sound, Turns, Shape, Phase, Changing, Adders, Saving, Only,
        Listed, AdderListed, RemoverListed, GoneOK, OneTurn
  <2>2. \A d \in VolCalls : AdderListed(d)' /\ RemoverListed(d)'
    BY <1>1, <1>2, <1>3, <2>0, RestingIs
    DEF VolumeInv, Base, Sound, Turns, Shape, Phase, Changing, Adders, Saving, Only,
        Listed, AdderListed, RemoverListed, GoneOK, OneTurn
  <2>3. GoneOK'
    BY <1>1, <1>2, <1>3, <2>0, RestingIs
    DEF VolumeInv, Base, Sound, Turns, Shape, Phase, Changing, Adders, Saving, Only,
        Listed, AdderListed, RemoverListed, GoneOK, OneTurn
  <2>4. TornOK'
    BY <1>1, <1>2, <1>3, <2>0, RestingIs
    DEF VolumeInv, Base, Sound, Turns, Shape, Phase, Changing, Adders, Saving, Only, TornOK, GoneOK
  <2>5. KeptOK'
    BY <1>1, <1>2, <1>3, <2>0, RestingIs
    DEF VolumeInv, Base, Sound, Turns, Shape, Phase, Changing, Adders, Saving, Only,
        Listed, AdderListed, RemoverListed, KeptOK, OneTurn
  <2> QED
    BY <2>1, <2>2, <2>3, <2>4, <2>5 DEF Sound
<1> QED
  BY <1>4, <1>5 DEF VolumeInv

LEMMA OpenResumeKeeps ==
    ASSUME VolumeInv, NEW c \in VolCalls, OpenResume(c)
    PROVE  VolumeInv'
<1>1. Typed /\ UNCHANGED <<eng, source, inSession, serial, handle, torrentFile, assigned, vcrashes>>
  BY DEF VolumeInv, Base, OpenResume, lists, files, history
<1>2. /\ vcall[c].at = "popped" /\ resume' = "torn"
      /\ accident' = (accident \/ vcall[c].h # inSession)
  BY DEF OpenResume
<1>3. /\ vcall' \in [VolCalls -> Call] /\ Only(c)
      /\ vcall'[c].at = "opened" /\ vcall'[c].op = vcall[c].op /\ vcall'[c].h = vcall[c].h
      /\ vcall'[c].data = vcall[c].data
  BY <1>1, AtGives DEF OpenResume, Stages
<1>4. Base'
  BY <1>1, <1>2, <1>3, RestingIs
  DEF VolumeInv, Base, Typed, OneTurn, Turns, Changing, Shape, Phase, Adders, Saving, Only
<1>5. ASSUME ~accident'
      PROVE  Sound'
  <2>0. ~accident /\ vcall[c].h = inSession
    BY <1>1, <1>2, <1>5 DEF Typed
  <2>1. Listed'
    BY <1>1, <1>2, <1>3, <2>0, RestingIs
    DEF VolumeInv, Base, Sound, Turns, Shape, Phase, Changing, Adders, Saving, Only,
        Listed, AdderListed, RemoverListed, GoneOK, OneTurn
  <2>2. \A d \in VolCalls : AdderListed(d)' /\ RemoverListed(d)'
    BY <1>1, <1>2, <1>3, <2>0, RestingIs
    DEF VolumeInv, Base, Sound, Turns, Shape, Phase, Changing, Adders, Saving, Only,
        Listed, AdderListed, RemoverListed, GoneOK, OneTurn
  <2>3. GoneOK'
    BY <1>1, <1>2, <1>3, <2>0, RestingIs
    DEF VolumeInv, Base, Sound, Turns, Shape, Phase, Changing, Adders, Saving, Only,
        Listed, AdderListed, RemoverListed, GoneOK, OneTurn
  <2>4. TornOK'
    BY <1>1, <1>2, <1>3, <2>0, RestingIs
    DEF VolumeInv, Base, Sound, Turns, Shape, Phase, Changing, Adders, Saving, Only, TornOK, GoneOK
  <2>5. KeptOK'
    BY <1>1, <1>2, <1>3, <2>0, RestingIs
    DEF VolumeInv, Base, Sound, Turns, Shape, Phase, Changing, Adders, Saving, Only,
        Listed, AdderListed, RemoverListed, KeptOK, OneTurn
  <2> QED
    BY <2>1, <2>2, <2>3, <2>4, <2>5 DEF Sound
<1> QED
  BY <1>4, <1>5 DEF VolumeInv

LEMMA WriteTorrentFileKeeps ==
    ASSUME VolumeInv, NEW c \in VolCalls, WriteTorrentFile(c)
    PROVE  VolumeInv'
<1>1. Typed /\ UNCHANGED <<source, inSession, serial, handle, resume, accident, vcrashes>>
  BY DEF VolumeInv, Base, WriteTorrentFile, lists, files, history
<1>2. /\ vcall[c].at = "filled"
      /\ torrentFile' = IF torrentFile = "none" THEN "none" ELSE "good"
  BY DEF WriteTorrentFile
<1>3. /\ vcall' \in [VolCalls -> Call] /\ Only(c) /\ UNCHANGED <<eng, assigned>>
      /\ \/ vcall[c].op = "read" /\ vcall'[c] = Resting
         \/ /\ vcall[c].op # "read" /\ vcall'[c].at = "enter"
            /\ vcall'[c].op = vcall[c].op /\ vcall'[c].h = vcall[c].h /\ vcall'[c].data = vcall[c].data
  BY <1>1, AtGives, FinishedGives DEF WriteTorrentFile, Stages
<1>4. Base'
  BY <1>1, <1>2, <1>3, RestingIs
  DEF VolumeInv, Base, Typed, OneTurn, Turns, Changing, Shape, Phase, Adders, Saving, Only
<1>5. ~accident' => Sound'
  BY <1>1, <1>2, <1>3, RestingIs
  DEF VolumeInv, Base, Sound, Listed, AdderListed, RemoverListed, GoneOK, TornOK, KeptOK,
       Turns, Shape, Phase, OneTurn, Changing, Adders, Saving, Only
<1> QED
  BY <1>4, <1>5 DEF VolumeInv

LEMMA WriteResumeKeeps ==
    ASSUME VolumeInv, NEW c \in VolCalls, WriteResume(c)
    PROVE  VolumeInv'
<1>1. Typed /\ UNCHANGED <<source, inSession, serial, handle, torrentFile, accident, vcrashes>>
  BY DEF VolumeInv, Base, WriteResume, lists, files, history
<1>2. /\ vcall[c].at = "opened"
      /\ resume' = IF resume = "none" THEN "none" ELSE "good"
  BY DEF WriteResume
<1>3. /\ vcall' \in [VolCalls -> Call] /\ Only(c)
      /\ vcall'[c] = Resting
      /\ assigned' = IF vcall[c].op = "add" THEN "yes" ELSE assigned
      /\ eng' = IF vcall[c].op = "boot" THEN "up" ELSE eng
  BY <1>1, FinishedGives DEF WriteResume
<1>4. Base'
  BY <1>1, <1>2, <1>3, RestingIs
  DEF VolumeInv, Base, Typed, OneTurn, Turns, Changing, Shape, Phase, Adders, Saving, Only
<1>5. ~accident' => Sound'
  BY <1>1, <1>2, <1>3, RestingIs
  DEF VolumeInv, Base, Sound, Listed, AdderListed, RemoverListed, GoneOK, TornOK, KeptOK,
       Turns, Shape, Phase, OneTurn, Changing, Adders, Saving, Only
<1> QED
  BY <1>4, <1>5 DEF VolumeInv

LEMMA RemoveFilesKeeps ==
    ASSUME VolumeInv, NEW c \in VolCalls, RemoveFiles(c)
    PROVE  VolumeInv'
<1>1. Typed /\ UNCHANGED <<eng, source, inSession, serial, handle, accident, vcrashes>>
  BY DEF VolumeInv, Base, RemoveFiles, lists, files, history
<1>2. vcall[c].at = "files" /\ torrentFile' = "none" /\ resume' = "none" /\ assigned' = "no"
  BY DEF RemoveFiles
<1>3. vcall' \in [VolCalls -> Call] /\ Only(c) /\ vcall'[c] = Resting
  BY <1>1, RestingIs DEF RemoveFiles, Typed, Only
<1>4. Base'
  BY <1>1, <1>2, <1>3, RestingIs
  DEF VolumeInv, Base, Typed, OneTurn, Turns, Changing, Shape, Phase, Adders, Saving, Only
<1>5. ~accident' => Sound'
  BY <1>1, <1>2, <1>3, RestingIs
  DEF VolumeInv, Base, Sound, Listed, AdderListed, RemoverListed, GoneOK, TornOK, KeptOK,
       Turns, Shape, Phase, OneTurn, Changing, Adders, Saving, Only
<1> QED
  BY <1>4, <1>5 DEF VolumeInv

-----------------------------------------------------------------------------
(* Steps that change the handle or the session.                            *)
LEMMA RegisterKeeps ==
    ASSUME VolumeInv, NEW c \in VolCalls, Register(c)
    PROVE  VolumeInv'
<1>1. Typed /\ UNCHANGED <<source, inSession, serial, torrentFile, resume, accident, vcrashes>>
  BY DEF VolumeInv, Base, Register, lists, files, history
<1>2. vcall[c].at = "register" /\ handle' = vcall[c].h /\ vcall[c] \in Call
  BY <1>1 DEF Register, Typed
<1>3. /\ vcall' \in [VolCalls -> Call] /\ Only(c)
      /\ vcall'[c] = Resting
      /\ assigned' = IF vcall[c].op = "add" THEN "yes" ELSE assigned
      /\ eng' = IF vcall[c].op = "boot" THEN "up" ELSE eng
  BY <1>1, FinishedGives DEF Register
<1>4. vcall[c].h \in Nat
  BY <1>2 DEF Call
<1>5. Base'
  BY <1>1, <1>2, <1>3, <1>4, RestingIs
  DEF VolumeInv, Base, Typed, OneTurn, Turns, Changing, Shape, Phase, Adders, Saving, Only
<1>6. ~accident' => Sound'
  BY <1>1, <1>2, <1>3, <1>4, RestingIs
  DEF VolumeInv, Base, Sound, Listed, AdderListed, RemoverListed, GoneOK, TornOK, KeptOK,
       Turns, Shape, Phase, OneTurn, Changing, Adders, Saving, Only
<1> QED
  BY <1>5, <1>6 DEF VolumeInv

LEMMA EnterKeeps ==
    ASSUME VolumeInv, NEW c \in VolCalls, Enter(c)
    PROVE  VolumeInv'
<1>1./\  Typed
     /\ UNCHANGED <<eng, source, inSession, serial, torrentFile, resume, assigned, accident, vcrashes>>
  BY DEF VolumeInv, Base, Enter, lists, files, history
<1>2. vcall[c].at = "enter" /\ handle' = vcall[c].h /\ vcall[c] \in Call
  BY <1>1 DEF Enter, Typed
<1>3. /\ vcall' \in [VolCalls -> Call] /\ Only(c)
      /\ vcall'[c].at = "save" /\ vcall'[c].op = vcall[c].op /\ vcall'[c].h = vcall[c].h
      /\ vcall'[c].data = vcall[c].data
  BY <1>1, AtGives DEF Enter, Stages
<1>4. vcall[c].h \in Nat
  BY <1>2 DEF Call
<1>5. Base'
  BY <1>1, <1>2, <1>3, <1>4, RestingIs
  DEF VolumeInv, Base, Typed, OneTurn, Turns, Changing, Shape, Phase, Adders, Saving, Only
<1>6. ~accident' => Sound'
  BY <1>1, <1>2, <1>3, <1>4, RestingIs
  DEF VolumeInv, Base, Sound, Listed, AdderListed, RemoverListed, GoneOK, TornOK, KeptOK,
       Turns, Shape, Phase, OneTurn, Changing, Adders, Saving, Only
<1> QED
  BY <1>5, <1>6 DEF VolumeInv

LEMMA ForgetHandleKeeps ==
    ASSUME VolumeInv, NEW c \in VolCalls, ForgetHandle(c)
    PROVE  VolumeInv'
<1>1. Typed /\ UNCHANGED <<source, inSession, serial, torrentFile, resume, vcrashes>>
  BY DEF VolumeInv, Base, ForgetHandle, lists, files, history
<1>2. /\ vcall[c].at = "forget" /\ handle' = 0
      /\ accident' = (accident \/ (handle # 0 /\ handle = inSession))
  BY DEF ForgetHandle
<1>3. /\ vcall' \in [VolCalls -> Call] /\ Only(c)
      /\ vcall'[c] = Resting
      /\ assigned' = IF vcall[c].op = "add" THEN "yes" ELSE assigned
      /\ eng' = IF vcall[c].op = "boot" THEN "up" ELSE eng
  BY <1>1, FinishedGives DEF ForgetHandle
<1>4. Base'
  BY <1>1, <1>2, <1>3, RestingIs
  DEF VolumeInv, Base, Typed, OneTurn, Turns, Changing, Shape, Phase, Adders, Saving, Only
<1>5. ASSUME ~accident'
      PROVE  Sound'
  <2>0. ~accident /\ (handle = 0 \/ handle # inSession)
    BY <1>1, <1>2, <1>5 DEF Typed
  <2>1. Listed'
    BY <1>1, <1>2, <1>3, <2>0, RestingIs
    DEF VolumeInv, Base, Sound, Turns, Shape, Phase, Changing, Adders, Saving, Only,
        Listed, AdderListed, RemoverListed, GoneOK, OneTurn
  <2>2. \A d \in VolCalls : AdderListed(d)' /\ RemoverListed(d)'
    BY <1>1, <1>2, <1>3, <2>0, RestingIs
    DEF VolumeInv, Base, Sound, Turns, Shape, Phase, Changing, Adders, Saving, Only,
        Listed, AdderListed, RemoverListed, GoneOK, OneTurn
  <2>3. GoneOK'
    BY <1>1, <1>2, <1>3, <2>0, RestingIs
    DEF VolumeInv, Base, Sound, Turns, Shape, Phase, Changing, Adders, Saving, Only,
        Listed, AdderListed, RemoverListed, GoneOK, OneTurn
  <2>4. TornOK'
    BY <1>1, <1>2, <1>3, <2>0, RestingIs
    DEF VolumeInv, Base, Sound, Turns, Shape, Phase, Changing, Adders, Saving, Only, TornOK, GoneOK
  <2>5. KeptOK'
    BY <1>1, <1>2, <1>3, <2>0, RestingIs
    DEF VolumeInv, Base, Sound, Turns, Shape, Phase, Changing, Adders, Saving, Only,
        Listed, AdderListed, RemoverListed, KeptOK, OneTurn
  <2> QED
    BY <2>1, <2>2, <2>3, <2>4, <2>5 DEF Sound
<1> QED
  BY <1>4, <1>5 DEF VolumeInv

LEMMA RemoveFromSessionKeeps ==
    ASSUME VolumeInv, NEW c \in VolCalls, RemoveFromSession(c)
    PROVE  VolumeInv'
<1>1./\  Typed
     /\ UNCHANGED <<eng, source, serial, handle, torrentFile, resume, assigned, accident, vcrashes>>
  BY DEF VolumeInv, Base, RemoveFromSession, lists, files, history
<1>2. /\ vcall[c].at = "remove"
      /\ inSession' = IF inSession = vcall[c].h THEN 0 ELSE inSession
  BY DEF RemoveFromSession
<1>3. /\ vcall' \in [VolCalls -> Call] /\ Only(c)
      /\ vcall'[c].at = "files" /\ vcall'[c].op = vcall[c].op /\ vcall'[c].h = vcall[c].h
      /\ vcall'[c].data = vcall[c].data
  BY <1>1, AtGives DEF RemoveFromSession, Stages
<1>4. Base'
  BY <1>1, <1>2, <1>3, RestingIs
  DEF VolumeInv, Base, Typed, OneTurn, Turns, Changing, Shape, Phase, Adders, Saving, Only
<1>5. ASSUME ~accident'
      PROVE  Sound'
  <2>1. Listed'
    BY <1>1, <1>2, <1>3, <1>5, RestingIs
    DEF VolumeInv, Base, Sound, Turns, Shape, Phase, Changing, Adders, Saving, Only,
        Listed, AdderListed, RemoverListed, GoneOK, OneTurn
  <2>2. \A d \in VolCalls : AdderListed(d)' /\ RemoverListed(d)'
    BY <1>1, <1>2, <1>3, <1>5, RestingIs
    DEF VolumeInv, Base, Sound, Turns, Shape, Phase, Changing, Adders, Saving, Only,
        Listed, AdderListed, RemoverListed, GoneOK, OneTurn
  <2>3. GoneOK'
    BY <1>1, <1>2, <1>3, <1>5, RestingIs
    DEF VolumeInv, Base, Sound, Turns, Shape, Phase, Changing, Adders, Saving, Only,
        Listed, AdderListed, RemoverListed, GoneOK, OneTurn
  <2>4. TornOK'
    BY <1>1, <1>2, <1>3, <1>5, RestingIs
    DEF VolumeInv, Base, Sound, Turns, Shape, Phase, Changing, Adders, Saving, Only, TornOK, GoneOK
  <2>5. KeptOK'
    BY <1>1, <1>2, <1>3, <1>5, RestingIs
    DEF VolumeInv, Base, Sound, Turns, Shape, Phase, Changing, Adders, Saving, Only,
        Listed, AdderListed, RemoverListed, KeptOK, OneTurn
  <2> QED
    BY <2>1, <2>2, <2>3, <2>4, <2>5 DEF Sound
<1> QED
  BY <1>4, <1>5 DEF VolumeInv

(* libtorrent finds the torrent, or adds it under a new number.            *)
LEMMA Added ==
    ASSUME Typed, inSession <= serial, LtAdd
    PROVE  /\ inSession' = Incarnation /\ Incarnation \in Nat \ {0}
           /\ serial' \in Nat /\ serial <= serial' /\ inSession' <= serial'
           /\ inSession # 0 => inSession' = inSession
           /\ inSession = 0 => inSession' = serial + 1
<1> QED
  BY DEF Typed, LtAdd, Incarnation

LEMMA FromResumeKeeps ==
    ASSUME VolumeInv, NEW c \in VolCalls, FromResume(c)
    PROVE  VolumeInv'
<1>1. Typed /\ UNCHANGED <<eng, source, handle, torrentFile, resume, assigned, accident, vcrashes>>
  BY DEF VolumeInv, Base, FromResume, lists, files, history
<1>2. vcall[c].at \in {"blob", "look"} /\ vcall[c] \in Call /\ inSession <= serial
  BY DEF FromResume, VolumeInv, Base, Typed
<1>3. /\ vcall' \in [VolCalls -> Call] /\ Only(c) /\ vcall'[c].op = vcall[c].op /\ vcall'[c].data = vcall[c].data
      /\ \/ /\ vcall[c].blob /\ LtAdd /\ vcall'[c].at = "register" /\ vcall'[c].h = Incarnation
         \/ /\ ~vcall[c].blob /\ UNCHANGED <<inSession, serial>>
            /\ vcall'[c].at = (IF vcall[c].at = "blob" THEN "fresh" ELSE "disk") /\ vcall'[c].h = vcall[c].h
  <2>1. CASE vcall[c].blob
    <3> DEFINE x == [vcall[c] EXCEPT !.at = "register", !.h = Incarnation]
    <3>1. LtAdd /\ vcall' = [vcall EXCEPT ![c] = x]
      BY <1>1, <2>1 DEF FromResume, Typed
    <3>2. /\ x \in Call /\ x.op = vcall[c].op /\ x.data = vcall[c].data
          /\ x.at = "register" /\ x.h = Incarnation
      BY <1>1, <1>2, <3>1, Added DEF Call
    <3> HIDE DEF x
    <3> QED
      BY <1>1, <2>1, <3>1, <3>2 DEF Typed, Only
  <2>2. CASE ~vcall[c].blob
    BY <1>1, <2>2, AtGives DEF FromResume, Stages
  <2> QED
    BY <2>1, <2>2
<1>4. \A d \in VolCalls : vcall[d].h \in Nat /\ vcall[d].h <= serial
  BY DEF VolumeInv, Base, Typed, Call, Shape
<1>5. LtAdd => /\ inSession' = Incarnation /\ Incarnation \in Nat \ {0}
               /\ serial' \in Nat /\ serial <= serial' /\ inSession' <= serial'
               /\ inSession # 0 => inSession' = inSession
               /\ inSession = 0 => inSession' = serial + 1
  BY <1>1, <1>2, Added
<1>6. Base'
  BY <1>1, <1>2, <1>3, <1>4, <1>5, RestingIs
  DEF VolumeInv, Base, Typed, OneTurn, Turns, Changing, Shape, Phase, Adders, Saving, Only
<1>7. ASSUME ~accident'
      PROVE  Sound'
  <2>1. Listed'
    BY <1>1, <1>2, <1>3, <1>4, <1>5, <1>7, RestingIs
    DEF VolumeInv, Base, Sound, Turns, Shape, Phase, Changing, Adders, Saving, Only,
        Listed, AdderListed, RemoverListed, GoneOK, OneTurn
  <2>2. \A d \in VolCalls : AdderListed(d)' /\ RemoverListed(d)'
    BY <1>1, <1>2, <1>3, <1>4, <1>5, <1>7, RestingIs
    DEF VolumeInv, Base, Sound, Turns, Shape, Phase, Changing, Adders, Saving, Only,
        Listed, AdderListed, RemoverListed, GoneOK, OneTurn
  <2>3. GoneOK'
    BY <1>1, <1>2, <1>3, <1>4, <1>5, <1>7, RestingIs
    DEF VolumeInv, Base, Sound, Turns, Shape, Phase, Changing, Adders, Saving, Only,
        Listed, AdderListed, RemoverListed, GoneOK, OneTurn
  <2>4. TornOK'
    BY <1>1, <1>2, <1>3, <1>4, <1>5, <1>7, RestingIs
    DEF VolumeInv, Base, Sound, Turns, Shape, Phase, Changing, Adders, Saving, Only, TornOK, GoneOK
  <2>5. KeptOK'
    BY <1>1, <1>2, <1>3, <1>4, <1>5, <1>7, RestingIs
    DEF VolumeInv, Base, Sound, Turns, Shape, Phase, Changing, Adders, Saving, Only,
        Listed, AdderListed, RemoverListed, KeptOK, OneTurn
  <2> QED
    BY <2>1, <2>2, <2>3, <2>4, <2>5 DEF Sound
<1> QED
  BY <1>6, <1>7 DEF VolumeInv

LEMMA AddFreshKeeps ==
    ASSUME VolumeInv, NEW c \in VolCalls, AddFresh(c)
    PROVE  VolumeInv'
<1>1. Typed /\ UNCHANGED <<source, handle, torrentFile, resume, accident, vcrashes>>
  BY DEF VolumeInv, Base, AddFresh, lists, files, history
<1>2. vcall[c].at = "fresh" /\ vcall[c] \in Call /\ inSession <= serial
  BY DEF AddFresh, VolumeInv, Base, Typed
<1>3. /\ vcall' \in [VolCalls -> Call] /\ Only(c)
      /\ \/ /\ vcall[c].data /\ LtAdd /\ UNCHANGED <<eng, assigned>>
            /\ vcall'[c].op = vcall[c].op /\ vcall'[c].data = vcall[c].data /\ vcall'[c].h = Incarnation
            /\ vcall'[c].at = IF vcall[c].op = "add" /\ source = "magnet" THEN "enter" ELSE "file"
         \/ /\ ~vcall[c].data /\ UNCHANGED <<inSession, serial>> /\ vcall'[c] = Resting
            /\ assigned' = IF vcall[c].op = "add" THEN "yes" ELSE assigned
            /\ eng' = IF vcall[c].op = "boot" THEN "up" ELSE eng
  <2>1. CASE vcall[c].data
    <3> DEFINE at == IF vcall[c].op = "add" /\ source = "magnet" THEN "enter" ELSE "file"
               x == [vcall[c] EXCEPT !.h = Incarnation, !.at = at]
    <3>1. LtAdd /\ vcall' = [vcall EXCEPT ![c] = x] /\ UNCHANGED <<eng, assigned>>
      BY <1>1, <2>1 DEF AddFresh, Typed
    <3>2. /\ x \in Call /\ x.op = vcall[c].op /\ x.data = vcall[c].data
          /\ x.at = at /\ x.h = Incarnation
      BY <1>1, <1>2, <3>1, Added DEF Call
    <3> HIDE DEF x
    <3> QED
      BY <1>1, <2>1, <3>1, <3>2 DEF Typed, Only
  <2>2. CASE ~vcall[c].data
    BY <1>1, <2>2, FinishedGives DEF AddFresh
  <2> QED
    BY <2>1, <2>2
<1>4. \A d \in VolCalls : vcall[d].h \in Nat /\ vcall[d].h <= serial
  BY DEF VolumeInv, Base, Typed, Call, Shape
<1>5. LtAdd => /\ inSession' = Incarnation /\ Incarnation \in Nat \ {0}
               /\ serial' \in Nat /\ serial <= serial' /\ inSession' <= serial'
               /\ inSession # 0 => inSession' = inSession
               /\ inSession = 0 => inSession' = serial + 1
  BY <1>1, <1>2, Added
<1>6. Base'
  BY <1>1, <1>2, <1>3, <1>4, <1>5, RestingIs
  DEF VolumeInv, Base, Typed, OneTurn, Turns, Changing, Shape, Phase, Adders, Saving, Only
<1>7. ASSUME ~accident'
      PROVE  Sound'
  <2>1. Listed'
    BY <1>1, <1>2, <1>3, <1>4, <1>5, <1>7, RestingIs
    DEF VolumeInv, Base, Sound, Turns, Shape, Phase, Changing, Adders, Saving, Only,
        Listed, AdderListed, RemoverListed, GoneOK, OneTurn
  <2>2. \A d \in VolCalls : AdderListed(d)' /\ RemoverListed(d)'
    BY <1>1, <1>2, <1>3, <1>4, <1>5, <1>7, RestingIs
    DEF VolumeInv, Base, Sound, Turns, Shape, Phase, Changing, Adders, Saving, Only,
        Listed, AdderListed, RemoverListed, GoneOK, OneTurn
  <2>3. GoneOK'
    BY <1>1, <1>2, <1>3, <1>4, <1>5, <1>7, RestingIs
    DEF VolumeInv, Base, Sound, Turns, Shape, Phase, Changing, Adders, Saving, Only,
        Listed, AdderListed, RemoverListed, GoneOK, OneTurn
  <2>4. TornOK'
    BY <1>1, <1>2, <1>3, <1>4, <1>5, <1>7, RestingIs
    DEF VolumeInv, Base, Sound, Turns, Shape, Phase, Changing, Adders, Saving, Only, TornOK, GoneOK
  <2>5. KeptOK'
    <3>1. CASE vcall[c].data
      <4>1. SUFFICES ASSUME source = "file", torrentFile = "none"
                     PROVE  KeptOK'
        BY <1>1 DEF KeptOK
      <4>2. /\ resume = "none" /\ assigned # "yes" /\ handle = 0
            /\ \A d \in VolCalls : vcall[d].at \in Saving => vcall[d].h = 0 \/ vcall[d].h # inSession
        BY <1>1, <1>7, <4>1 DEF VolumeInv, Sound, KeptOK
      <4>3. vcall'[c].at = "file" /\ UNCHANGED assigned
        BY <1>3, <3>1, <4>1
      <4>4. \A d \in VolCalls \ {c} : vcall[d].h # inSession' \/ (inSession # 0 /\ inSession' = inSession)
        BY <1>1, <1>3, <1>4, <1>5, <3>1 DEF Typed
      <4>5. ASSUME NEW d \in VolCalls \ {c}
            PROVE  /\ vcall'[d].op \in Adders =>
                        vcall'[d].at \notin {"register", "filled", "enter"} \union Saving
                   /\ vcall'[d].op \in Adders /\ vcall'[d].at \in {"blob", "look"} => ~vcall'[d].blob
                   /\ vcall'[d].at \in Saving => vcall'[d].h = 0 \/ vcall'[d].h # inSession'
        BY <1>1, <1>3, <1>7, <4>1, <4>2, <4>4 DEF VolumeInv, Sound, KeptOK, Only
      <4> QED
        BY <1>1, <4>2, <4>3, <4>5 DEF KeptOK, Saving
    <3>2. CASE ~vcall[c].data
      BY <1>1, <1>2, <1>3, <1>7, <3>2, RestingIs
      DEF VolumeInv, Base, Sound, Shape, Adders, Saving, Only, KeptOK
    <3> QED
      BY <3>1, <3>2
  <2> QED
    BY <2>1, <2>2, <2>3, <2>4, <2>5 DEF Sound
<1> QED
  BY <1>6, <1>7 DEF VolumeInv

LEMMA EntryIs ==
    ASSUME Typed, NEW op \in Adders, NEW data \in BOOLEAN
    PROVE  /\ Entry(op, data) \in Call /\ Entry(op, data).op = op /\ Entry(op, data).h = 0
           /\ Entry(op, data).data = data
           /\ \/ Entry(op, data).at = "fresh"
              \/ Entry(op, data).at = "blob" /\ resume # "none"
           /\ Entry(op, data).blob => resume = "good"
<1> QED
  BY DEF Typed, Entry, Call, Adders

LEMMA LookingIs ==
    ASSUME Typed, NEW op \in Adders
    PROVE  /\ Looking(op) \in Call /\ Looking(op).op = op /\ Looking(op).h = 0 /\ ~Looking(op).data
           /\ Looking(op).at = IF resume = "none" THEN "disk" ELSE "look"
           /\ Looking(op).blob => resume = "good"
<1> QED
  BY DEF Typed, Looking, Resting, Call, Adders

LEMMA FromDiskKeeps ==
    ASSUME VolumeInv, NEW c \in VolCalls, FromDisk(c)
    PROVE  VolumeInv'
<1>1. Typed /\ UNCHANGED <<source, inSession, serial, handle, torrentFile, resume, accident, vcrashes>>
  BY DEF VolumeInv, Base, FromDisk, lists, files, history
<1>2. vcall[c].at = "disk" /\ vcall[c].op \in Adders
  BY DEF FromDisk, VolumeInv, Base, Shape, Adders
<1>3. /\ vcall' \in [VolCalls -> Call] /\ Only(c)
      /\ \/ /\ vcall'[c] = Resting
            /\ assigned' = IF vcall[c].op = "add" THEN "yes" ELSE assigned
            /\ eng' = IF vcall[c].op = "boot" THEN "up" ELSE eng
         \/ /\ torrentFile # "none" /\ handle = 0 /\ UNCHANGED <<eng, assigned>>
            /\ vcall'[c].op = vcall[c].op /\ vcall'[c].h = 0
            /\ vcall'[c].data = (torrentFile = "good")
            /\ vcall'[c].at \in {"fresh", "blob"} /\ (vcall'[c].blob => resume = "good")
  <2>1. CASE torrentFile = "none" \/ handle # 0
    BY <1>1, <2>1, FinishedGives DEF FromDisk
  <2>2. CASE torrentFile # "none" /\ handle = 0
    <3> DEFINE x == Entry(vcall[c].op, torrentFile = "good")
    <3>1. vcall' = [vcall EXCEPT ![c] = x] /\ UNCHANGED <<eng, assigned>>
      BY <2>2 DEF FromDisk
    <3>2. (torrentFile = "good") \in BOOLEAN
      OBVIOUS
    <3>3. /\ x \in Call /\ x.op = vcall[c].op /\ x.h = 0 /\ x.data = (torrentFile = "good")
          /\ x.at \in {"fresh", "blob"} /\ (x.blob => resume = "good")
      BY <1>1, <1>2, <3>2, EntryIs
    <3> HIDE DEF x
    <3> QED
      BY <1>1, <2>2, <3>1, <3>3 DEF Typed, Only
  <2> QED
    BY <2>1, <2>2
<1>4. Base'
  BY <1>1, <1>2, <1>3, RestingIs
  DEF VolumeInv, Base, Typed, OneTurn, Turns, Changing, Shape, Phase, Adders, Saving, Only
<1>5. ASSUME ~accident'
      PROVE  Sound'
  <2>1. Listed'
    BY <1>1, <1>2, <1>3, <1>5, RestingIs
    DEF VolumeInv, Base, Sound, Turns, Shape, Phase, Changing, Adders, Saving, Only,
        Listed, AdderListed, RemoverListed, GoneOK, OneTurn
  <2>2. \A d \in VolCalls : AdderListed(d)' /\ RemoverListed(d)'
    BY <1>1, <1>2, <1>3, <1>5, RestingIs
    DEF VolumeInv, Base, Sound, Turns, Shape, Phase, Changing, Adders, Saving, Only,
        Listed, AdderListed, RemoverListed, GoneOK, OneTurn
  <2>3. GoneOK'
    BY <1>1, <1>2, <1>3, <1>5, RestingIs
    DEF VolumeInv, Base, Sound, Turns, Shape, Phase, Changing, Adders, Saving, Only,
        Listed, AdderListed, RemoverListed, GoneOK, OneTurn
  <2>4. TornOK'
    BY <1>1, <1>2, <1>3, <1>5, RestingIs
    DEF VolumeInv, Base, Sound, Turns, Shape, Phase, Changing, Adders, Saving, Only, TornOK, GoneOK
  <2>5. KeptOK'
    BY <1>1, <1>2, <1>3, <1>5, RestingIs
    DEF VolumeInv, Base, Sound, Turns, Shape, Phase, Changing, Adders, Saving, Only,
        Listed, AdderListed, RemoverListed, KeptOK, OneTurn
  <2> QED
    BY <2>1, <2>2, <2>3, <2>4, <2>5 DEF Sound
<1> QED
  BY <1>4, <1>5 DEF VolumeInv

-----------------------------------------------------------------------------
(* Requests that change the torrent take turns, which is where ~Overlap is *)
(* needed.                                                                 *)
LEMMA AddBeginKeeps ==
    ASSUME VolumeInv, ~Overlap, NEW c \in VolCalls, AddBegin(c)
    PROVE  VolumeInv'
<1>1./\  Typed
     /\ UNCHANGED <<eng, source, inSession, serial, handle, torrentFile, resume, accident, vcrashes>>
  BY DEF VolumeInv, Base, AddBegin, lists, files, history
<1>2. eng = "up" /\ vcall[c].op = "none" /\ MayChange /\ assigned' = "unknown"
  BY DEF AddBegin, Free
<1>3. \A d \in VolCalls : ~Turns(d)
  BY <1>2 DEF VolumeInv, Base, Phase, Turns, MayChange, Changing
<1>4. /\ vcall' \in [VolCalls -> Call] /\ Only(c) /\ vcall'[c].op = "add" /\ vcall'[c].h = 0
      /\ vcall'[c].data /\ (vcall'[c].blob => resume = "good")
      /\ vcall'[c].at \in {"fresh", "blob"}
  <2> DEFINE x == Entry("add", TRUE)
  <2>1. vcall' = [vcall EXCEPT ![c] = x]
    BY DEF AddBegin
  <2>2. /\ x \in Call /\ x.op = "add" /\ x.h = 0 /\ x.data /\ (x.blob => resume = "good")
        /\ x.at \in {"fresh", "blob"}
    BY <1>1, EntryIs DEF Adders
  <2> HIDE DEF x
  <2> QED
    BY <1>1, <2>1, <2>2 DEF Typed, Only
<1>5. Base'
  BY <1>1, <1>2, <1>3, <1>4, RestingIs
  DEF VolumeInv, Base, Typed, OneTurn, Turns, Changing, Shape, Phase, Adders, Saving, Only
<1>6. ASSUME ~accident'
      PROVE  Sound'
  <2>1. Listed'
    BY <1>1, <1>2, <1>3, <1>4, <1>6, RestingIs
    DEF VolumeInv, Base, Sound, Turns, Shape, Phase, Changing, Adders, Saving, Only,
        Listed, AdderListed, RemoverListed, GoneOK, OneTurn
  <2>2. \A d \in VolCalls : AdderListed(d)' /\ RemoverListed(d)'
    BY <1>1, <1>2, <1>3, <1>4, <1>6, RestingIs
    DEF VolumeInv, Base, Sound, Turns, Shape, Phase, Changing, Adders, Saving, Only,
        Listed, AdderListed, RemoverListed, GoneOK, OneTurn
  <2>3. GoneOK'
    BY <1>1, <1>2, <1>3, <1>4, <1>6, RestingIs
    DEF VolumeInv, Base, Sound, Turns, Shape, Phase, Changing, Adders, Saving, Only,
        Listed, AdderListed, RemoverListed, GoneOK, OneTurn
  <2>4. TornOK'
    BY <1>1, <1>2, <1>3, <1>4, <1>6, RestingIs
    DEF VolumeInv, Base, Sound, Turns, Shape, Phase, Changing, Adders, Saving, Only, TornOK, GoneOK
  <2>5. KeptOK'
    BY <1>1, <1>2, <1>3, <1>4, <1>6, RestingIs
    DEF VolumeInv, Base, Sound, Turns, Shape, Phase, Changing, Adders, Saving, Only,
        Listed, AdderListed, RemoverListed, KeptOK, OneTurn
  <2> QED
    BY <2>1, <2>2, <2>3, <2>4, <2>5 DEF Sound
<1> QED
  BY <1>5, <1>6 DEF VolumeInv

LEMMA RestoreBeginKeeps ==
    ASSUME VolumeInv, ~Overlap, NEW c \in VolCalls, RestoreBegin(c)
    PROVE  VolumeInv'
<1>1./\  Typed
     /\ UNCHANGED <<eng, source, inSession, serial, handle, torrentFile, resume, assigned, accident, vcrashes>>
  BY DEF VolumeInv, Base, RestoreBegin, lists, files, history
<1>2. /\ eng = "up" /\ vcall[c].op = "none" /\ MayChange /\ source = "file" /\ handle = 0 /\ assigned # "no"
  BY DEF RestoreBegin, Free
<1>3. \A d \in VolCalls : ~Turns(d)
  BY <1>2 DEF VolumeInv, Base, Phase, Turns, MayChange, Changing
<1>4. /\ vcall' \in [VolCalls -> Call] /\ Only(c) /\ vcall'[c].op = "restore" /\ vcall'[c].h = 0
      /\ (vcall'[c].blob => resume = "good") /\ vcall'[c].at \in {"disk", "look"}
  <2> DEFINE x == Looking("restore")
  <2>1. vcall' = [vcall EXCEPT ![c] = x]
    BY DEF RestoreBegin
  <2>2. /\ x \in Call /\ x.op = "restore" /\ x.h = 0 /\ (x.blob => resume = "good")
        /\ x.at \in {"disk", "look"}
    BY <1>1, LookingIs DEF Adders
  <2> HIDE DEF x
  <2> QED
    BY <1>1, <2>1, <2>2 DEF Typed, Only
<1>5. Base'
  BY <1>1, <1>2, <1>3, <1>4, RestingIs
  DEF VolumeInv, Base, Typed, OneTurn, Turns, Changing, Shape, Phase, Adders, Saving, Only
<1>6. ASSUME ~accident'
      PROVE  Sound'
  <2>1. Listed'
    BY <1>1, <1>2, <1>3, <1>4, <1>6, RestingIs
    DEF VolumeInv, Base, Sound, Turns, Shape, Phase, Changing, Adders, Saving, Only,
        Listed, AdderListed, RemoverListed, GoneOK, OneTurn
  <2>2. \A d \in VolCalls : AdderListed(d)' /\ RemoverListed(d)'
    BY <1>1, <1>2, <1>3, <1>4, <1>6, RestingIs
    DEF VolumeInv, Base, Sound, Turns, Shape, Phase, Changing, Adders, Saving, Only,
        Listed, AdderListed, RemoverListed, GoneOK, OneTurn
  <2>3. GoneOK'
    BY <1>1, <1>2, <1>3, <1>4, <1>6, RestingIs
    DEF VolumeInv, Base, Sound, Turns, Shape, Phase, Changing, Adders, Saving, Only,
        Listed, AdderListed, RemoverListed, GoneOK, OneTurn
  <2>4. TornOK'
    BY <1>1, <1>2, <1>3, <1>4, <1>6, RestingIs
    DEF VolumeInv, Base, Sound, Turns, Shape, Phase, Changing, Adders, Saving, Only, TornOK, GoneOK
  <2>5. KeptOK'
    BY <1>1, <1>2, <1>3, <1>4, <1>6, RestingIs
    DEF VolumeInv, Base, Sound, Turns, Shape, Phase, Changing, Adders, Saving, Only,
        Listed, AdderListed, RemoverListed, KeptOK, OneTurn
  <2> QED
    BY <2>1, <2>2, <2>3, <2>4, <2>5 DEF Sound
<1> QED
  BY <1>5, <1>6 DEF VolumeInv

LEMMA RemoveBeginKeeps ==
    ASSUME VolumeInv, ~Overlap, NEW c \in VolCalls, RemoveBegin(c)
    PROVE  VolumeInv'
<1>1. Typed /\ UNCHANGED <<eng, source, inSession, serial, torrentFile, resume, accident, vcrashes>>
  BY DEF VolumeInv, Base, RemoveBegin, lists, files, history
<1>2. eng = "up" /\ vcall[c].op = "none" /\ MayChange /\ assigned' = "unknown" /\ handle' = 0
  BY DEF RemoveBegin, Free
<1>3. \A d \in VolCalls : ~Turns(d)
  BY <1>2 DEF VolumeInv, Base, Phase, Turns, MayChange, Changing
<1>4. /\ vcall' \in [VolCalls -> Call] /\ Only(c) /\ vcall'[c].op = "remove" /\ vcall'[c].h = handle
      /\ vcall'[c].at = IF handle = 0 THEN "files" ELSE "remove"
  <2> DEFINE x == [Resting EXCEPT !.op = "remove", !.h = handle,
                                  !.at = IF handle = 0 THEN "files" ELSE "remove"]
  <2>1. vcall' = [vcall EXCEPT ![c] = x]
    BY DEF RemoveBegin
  <2>2. /\ x \in Call /\ x.op = "remove" /\ x.h = handle
        /\ x.at = IF handle = 0 THEN "files" ELSE "remove"
    BY <1>1 DEF Resting, Call, Typed
  <2> HIDE DEF x
  <2> QED
    BY <1>1, <2>1, <2>2 DEF Typed, Only
<1>5. Base'
  BY <1>1, <1>2, <1>3, <1>4, RestingIs
  DEF VolumeInv, Base, Typed, OneTurn, Turns, Changing, Shape, Phase, Adders, Saving, Only
<1>6. ASSUME ~accident'
      PROVE  Sound'
  <2>1. Listed'
    BY <1>1, <1>2, <1>3, <1>4, <1>6, RestingIs
    DEF VolumeInv, Base, Sound, Turns, Shape, Phase, Changing, Adders, Saving, Only,
        Listed, AdderListed, RemoverListed, GoneOK, OneTurn
  <2>2. \A d \in VolCalls : AdderListed(d)' /\ RemoverListed(d)'
    BY <1>1, <1>2, <1>3, <1>4, <1>6, RestingIs
    DEF VolumeInv, Base, Sound, Turns, Shape, Phase, Changing, Adders, Saving, Only,
        Listed, AdderListed, RemoverListed, GoneOK, OneTurn
  <2>3. GoneOK'
    BY <1>1, <1>2, <1>3, <1>4, <1>6, RestingIs
    DEF VolumeInv, Base, Sound, Turns, Shape, Phase, Changing, Adders, Saving, Only,
        Listed, AdderListed, RemoverListed, GoneOK, OneTurn
  <2>4. TornOK'
    BY <1>1, <1>2, <1>3, <1>4, <1>6, RestingIs
    DEF VolumeInv, Base, Sound, Turns, Shape, Phase, Changing, Adders, Saving, Only, TornOK, GoneOK
  <2>5. KeptOK'
    BY <1>1, <1>2, <1>3, <1>4, <1>6, RestingIs
    DEF VolumeInv, Base, Sound, Turns, Shape, Phase, Changing, Adders, Saving, Only,
        Listed, AdderListed, RemoverListed, KeptOK, OneTurn
  <2> QED
    BY <2>1, <2>2, <2>3, <2>4, <2>5 DEF Sound
<1> QED
  BY <1>5, <1>6 DEF VolumeInv

(* Calls that take the handle they find.                                   *)
LEMMA SaveBeginKeeps ==
    ASSUME VolumeInv, NEW c \in VolCalls, SaveBegin(c)
    PROVE  VolumeInv'
<1>1./\  Typed
     /\ UNCHANGED <<eng, source, inSession, serial, handle, torrentFile, resume, assigned, accident, vcrashes>>
  BY DEF VolumeInv, Base, SaveBegin, lists, files, history
<1>2. eng = "up" /\ vcall[c].op = "none" /\ handle # 0
  BY DEF SaveBegin, Free
<1>3. /\ vcall' \in [VolCalls -> Call] /\ Only(c) /\ vcall'[c].op = "save" /\ vcall'[c].h = handle
      /\ vcall'[c].at = "save"
  <2> DEFINE x == [Resting EXCEPT !.op = "save", !.at = "save", !.h = handle]
  <2>1. vcall' = [vcall EXCEPT ![c] = x]
    BY DEF SaveBegin
  <2>2. x \in Call /\ x.op = "save" /\ x.h = handle /\ x.at = "save"
    BY <1>1 DEF Resting, Call, Typed
  <2> HIDE DEF x
  <2> QED
    BY <1>1, <2>1, <2>2 DEF Typed, Only
<1>4. Base'
  BY <1>1, <1>2, <1>3, RestingIs
  DEF VolumeInv, Base, Typed, OneTurn, Turns, Changing, Shape, Phase, Adders, Saving, Only
<1>5. ASSUME ~accident'
      PROVE  Sound'
  <2>1. Listed'
    BY <1>1, <1>2, <1>3, <1>5, RestingIs
    DEF VolumeInv, Base, Sound, Turns, Shape, Phase, Changing, Adders, Saving, Only,
        Listed, AdderListed, RemoverListed, GoneOK, OneTurn
  <2>2. \A d \in VolCalls : AdderListed(d)' /\ RemoverListed(d)'
    BY <1>1, <1>2, <1>3, <1>5, RestingIs
    DEF VolumeInv, Base, Sound, Turns, Shape, Phase, Changing, Adders, Saving, Only,
        Listed, AdderListed, RemoverListed, GoneOK, OneTurn
  <2>3. GoneOK'
    BY <1>1, <1>2, <1>3, <1>5, RestingIs
    DEF VolumeInv, Base, Sound, Turns, Shape, Phase, Changing, Adders, Saving, Only,
        Listed, AdderListed, RemoverListed, GoneOK, OneTurn
  <2>4. TornOK'
    BY <1>1, <1>2, <1>3, <1>5, RestingIs
    DEF VolumeInv, Base, Sound, Turns, Shape, Phase, Changing, Adders, Saving, Only, TornOK, GoneOK
  <2>5. KeptOK'
    BY <1>1, <1>2, <1>3, <1>5, RestingIs
    DEF VolumeInv, Base, Sound, Turns, Shape, Phase, Changing, Adders, Saving, Only,
        Listed, AdderListed, RemoverListed, KeptOK, OneTurn
  <2> QED
    BY <2>1, <2>2, <2>3, <2>4, <2>5 DEF Sound
<1> QED
  BY <1>4, <1>5 DEF VolumeInv

LEMMA ReadBeginKeeps ==
    ASSUME VolumeInv, NEW c \in VolCalls, ReadBegin(c)
    PROVE  VolumeInv'
<1>1./\  Typed
     /\ UNCHANGED <<eng, source, inSession, serial, handle, torrentFile, resume, assigned, accident, vcrashes>>
  BY DEF VolumeInv, Base, ReadBegin, lists, files, history
<1>2. eng = "up" /\ vcall[c].op = "none" /\ handle # 0
  BY DEF ReadBegin, Free
<1>3. /\ vcall' \in [VolCalls -> Call] /\ Only(c) /\ vcall'[c].op = "read" /\ vcall'[c].h = handle
      /\ vcall'[c].at = "export"
  <2> DEFINE x == [Resting EXCEPT !.op = "read", !.at = "export", !.h = handle]
  <2>1. vcall' = [vcall EXCEPT ![c] = x]
    BY DEF ReadBegin
  <2>2. x \in Call /\ x.op = "read" /\ x.h = handle /\ x.at = "export"
    BY <1>1 DEF Resting, Call, Typed
  <2> HIDE DEF x
  <2> QED
    BY <1>1, <2>1, <2>2 DEF Typed, Only
<1>4. Base'
  BY <1>1, <1>2, <1>3, RestingIs
  DEF VolumeInv, Base, Typed, OneTurn, Turns, Changing, Shape, Phase, Adders, Saving, Only
<1>5. ASSUME ~accident'
      PROVE  Sound'
  <2>1. Listed'
    BY <1>1, <1>2, <1>3, <1>5, RestingIs
    DEF VolumeInv, Base, Sound, Turns, Shape, Phase, Changing, Adders, Saving, Only,
        Listed, AdderListed, RemoverListed, GoneOK, OneTurn
  <2>2. \A d \in VolCalls : AdderListed(d)' /\ RemoverListed(d)'
    BY <1>1, <1>2, <1>3, <1>5, RestingIs
    DEF VolumeInv, Base, Sound, Turns, Shape, Phase, Changing, Adders, Saving, Only,
        Listed, AdderListed, RemoverListed, GoneOK, OneTurn
  <2>3. GoneOK'
    BY <1>1, <1>2, <1>3, <1>5, RestingIs
    DEF VolumeInv, Base, Sound, Turns, Shape, Phase, Changing, Adders, Saving, Only,
        Listed, AdderListed, RemoverListed, GoneOK, OneTurn
  <2>4. TornOK'
    BY <1>1, <1>2, <1>3, <1>5, RestingIs
    DEF VolumeInv, Base, Sound, Turns, Shape, Phase, Changing, Adders, Saving, Only, TornOK, GoneOK
  <2>5. KeptOK'
    BY <1>1, <1>2, <1>3, <1>5, RestingIs
    DEF VolumeInv, Base, Sound, Turns, Shape, Phase, Changing, Adders, Saving, Only,
        Listed, AdderListed, RemoverListed, KeptOK, OneTurn
  <2> QED
    BY <2>1, <2>2, <2>3, <2>4, <2>5 DEF Sound
<1> QED
  BY <1>4, <1>5 DEF VolumeInv

LEMMA SnapshotBeginKeeps ==
    ASSUME VolumeInv, NEW c \in VolCalls, SnapshotBegin(c)
    PROVE  VolumeInv'
<1>1./\  Typed
     /\ UNCHANGED <<eng, source, inSession, serial, handle, torrentFile, resume, assigned, accident, vcrashes>>
  BY DEF VolumeInv, Base, SnapshotBegin, lists, files, history
<1>2. eng = "up" /\ vcall[c].op = "none" /\ handle # 0
  BY DEF SnapshotBegin, Free
<1>3. /\ vcall' \in [VolCalls -> Call] /\ Only(c) /\ vcall'[c].op = "list" /\ vcall'[c].h = handle
      /\ vcall'[c].at = "status"
  <2> DEFINE x == [Resting EXCEPT !.op = "list", !.at = "status", !.h = handle]
  <2>1. vcall' = [vcall EXCEPT ![c] = x]
    BY DEF SnapshotBegin
  <2>2. x \in Call /\ x.op = "list" /\ x.h = handle /\ x.at = "status"
    BY <1>1 DEF Resting, Call, Typed
  <2> HIDE DEF x
  <2> QED
    BY <1>1, <2>1, <2>2 DEF Typed, Only
<1>4. Base'
  BY <1>1, <1>2, <1>3, RestingIs
  DEF VolumeInv, Base, Typed, OneTurn, Turns, Changing, Shape, Phase, Adders, Saving, Only
<1>5. ASSUME ~accident'
      PROVE  Sound'
  <2>1. Listed'
    BY <1>1, <1>2, <1>3, <1>5, RestingIs
    DEF VolumeInv, Base, Sound, Turns, Shape, Phase, Changing, Adders, Saving, Only,
        Listed, AdderListed, RemoverListed, GoneOK, OneTurn
  <2>2. \A d \in VolCalls : AdderListed(d)' /\ RemoverListed(d)'
    BY <1>1, <1>2, <1>3, <1>5, RestingIs
    DEF VolumeInv, Base, Sound, Turns, Shape, Phase, Changing, Adders, Saving, Only,
        Listed, AdderListed, RemoverListed, GoneOK, OneTurn
  <2>3. GoneOK'
    BY <1>1, <1>2, <1>3, <1>5, RestingIs
    DEF VolumeInv, Base, Sound, Turns, Shape, Phase, Changing, Adders, Saving, Only,
        Listed, AdderListed, RemoverListed, GoneOK, OneTurn
  <2>4. TornOK'
    BY <1>1, <1>2, <1>3, <1>5, RestingIs
    DEF VolumeInv, Base, Sound, Turns, Shape, Phase, Changing, Adders, Saving, Only, TornOK, GoneOK
  <2>5. KeptOK'
    BY <1>1, <1>2, <1>3, <1>5, RestingIs
    DEF VolumeInv, Base, Sound, Turns, Shape, Phase, Changing, Adders, Saving, Only,
        Listed, AdderListed, RemoverListed, KeptOK, OneTurn
  <2> QED
    BY <2>1, <2>2, <2>3, <2>4, <2>5 DEF Sound
<1> QED
  BY <1>4, <1>5 DEF VolumeInv

(* The engine starts, stops and dies.                                      *)
LEMMA BootKeeps ==
    ASSUME VolumeInv, NEW c \in VolCalls, Boot(c)
    PROVE  VolumeInv'
<1>1./\  Typed
     /\ UNCHANGED <<source, inSession, serial, handle, torrentFile, resume, assigned, accident, vcrashes>>
  BY DEF VolumeInv, Base, Boot, lists, files, history
<1>2. /\ eng = "down" /\ eng' = "boot" /\ handle = 0 /\ inSession = 0
      /\ \A d \in VolCalls : vcall[d].op = "none"
  BY DEF Boot, VolumeInv, Base, Phase
<1>3. /\ vcall' \in [VolCalls -> Call] /\ Only(c) /\ vcall'[c].op = "boot" /\ vcall'[c].h = 0
      /\ (vcall'[c].blob => resume = "good")
      /\ vcall'[c].at = IF resume = "none" THEN "disk" ELSE "look"
  <2> DEFINE x == Looking("boot")
  <2>1. vcall' = [vcall EXCEPT ![c] = x]
    BY DEF Boot
  <2>2. /\ x \in Call /\ x.op = "boot" /\ x.h = 0 /\ (x.blob => resume = "good")
        /\ x.at = IF resume = "none" THEN "disk" ELSE "look"
    BY <1>1, LookingIs DEF Adders
  <2> HIDE DEF x
  <2> QED
    BY <1>1, <2>1, <2>2 DEF Typed, Only
<1>4. Base'
  BY <1>1, <1>2, <1>3, RestingIs
  DEF VolumeInv, Base, Typed, OneTurn, Turns, Changing, Shape, Phase, Adders, Saving, Only
<1>5. ~accident' => Sound'
  BY <1>1, <1>2, <1>3, RestingIs
  DEF VolumeInv, Base, Sound, Listed, AdderListed, RemoverListed, GoneOK, TornOK, KeptOK,
       Turns, Shape, Phase, OneTurn, Changing, Adders, Saving, Only
<1> QED
  BY <1>4, <1>5 DEF VolumeInv

LEMMA StopBeginKeeps ==
    ASSUME VolumeInv, NEW c \in VolCalls, StopBegin(c)
    PROVE  VolumeInv'
<1>1. Typed /\ UNCHANGED <<source, inSession, serial, torrentFile, resume, assigned, accident, vcrashes>>
  BY DEF VolumeInv, Base, StopBegin, lists, files, history
<1>2. /\ eng = "up" /\ eng' = "stopping" /\ handle' = 0 /\ vcall[c].op = "none"
      /\ \A d \in VolCalls : vcall[d].op \in {"none", "save"} /\ vcall[d] \in Call
  BY <1>1 DEF StopBegin, Free, Typed
<1>3. ASSUME NEW d \in VolCalls
      PROVE  /\ vcall'[d] \in Call
             /\ \/ vcall'[d] = Resting
                \/ vcall'[d].op = "stop" /\ vcall'[d].at = "save" /\ vcall'[d].h = handle
                \/ /\ vcall[d].op = "save" /\ vcall'[d].op = "orphan" /\ vcall'[d].at = vcall[d].at
                   /\ vcall'[d].h = vcall[d].h /\ vcall[d].at # "save"
  <2>1. /\ [Resting EXCEPT !.op = "stop", !.at = "save", !.h = handle] \in Call
        /\ [Resting EXCEPT !.op = "stop", !.at = "save", !.h = handle].op = "stop"
        /\ [Resting EXCEPT !.op = "stop", !.at = "save", !.h = handle].at = "save"
        /\ [Resting EXCEPT !.op = "stop", !.at = "save", !.h = handle].h = handle
    BY <1>1 DEF Resting, Call, Typed
  <2>2. /\ [vcall[d] EXCEPT !.op = "orphan"] \in Call
        /\ [vcall[d] EXCEPT !.op = "orphan"].op = "orphan"
        /\ [vcall[d] EXCEPT !.op = "orphan"].at = vcall[d].at
        /\ [vcall[d] EXCEPT !.op = "orphan"].h = vcall[d].h
    BY <1>2 DEF Call
  <2> QED
    BY <1>2, <2>1, <2>2, RestingIs DEF StopBegin, Free
<1>4. vcall' \in [VolCalls -> Call]
  <2>1. vcall' = [d \in VolCalls |-> vcall'[d]]
    BY DEF StopBegin
  <2> QED
    BY <1>3, <2>1
<1>5. Base'
  BY <1>1, <1>2, <1>3, <1>4, RestingIs
  DEF VolumeInv, Base, Typed, OneTurn, Turns, Changing, Shape, Phase, Adders, Saving
<1>6. ~accident' => Sound'
  BY <1>1, <1>2, <1>3, <1>4, RestingIs
  DEF VolumeInv, Base, Sound, Listed, AdderListed, RemoverListed, GoneOK, TornOK, KeptOK,
       Turns, Shape, Phase, OneTurn, Changing, Adders, Saving
<1> QED
  BY <1>5, <1>6 DEF VolumeInv

LEMMA GoneKeeps ==
    ASSUME VolumeInv, Exit \/ VolumeCrash
    PROVE  VolumeInv'
<1>1. Typed /\ UNCHANGED <<source, torrentFile, resume, assigned>>
  BY DEF VolumeInv, Base, Exit, VolumeCrash, files, history
<1>2. /\ eng' = "down" /\ inSession' = 0 /\ serial' = 0 /\ handle' = 0
      /\ \A c \in VolCalls : vcall'[c].op = "none" /\ vcall'[c].at \notin Saving \union {"filled"}
      /\ vcall' \in [VolCalls -> Call] /\ \A c \in VolCalls : Shape(c)'
  <2>1. CASE Exit
    <3>1. \A c \in VolCalls : vcall[c].op = "none" /\ Shape(c) /\ UNCHANGED vcall
      BY <2>1 DEF Exit, Free, VolumeInv, Base
    <3> QED
      BY <1>1, <2>1, <3>1 DEF Exit, Gone, Shape, Adders, Saving, Typed
  <2>2. CASE VolumeCrash
    BY <2>2, RestingIs DEF VolumeCrash, Gone, Shape, Adders, Saving
  <2> QED
    BY <2>1, <2>2
<1>3. vcrashes' \in Nat /\ accident' \in BOOLEAN /\ (~accident' => ~accident)
  <2>1. CASE Exit
    BY <1>1, <2>1 DEF Exit, history, Typed
  <2>2. CASE VolumeCrash
    BY <1>1, <2>2 DEF VolumeCrash, Typed
  <2> QED
    BY <2>1, <2>2
<1>4. ~accident' => torrentFile # "torn"
  <2>1. CASE Exit
    <3>1. \A c \in VolCalls : vcall[c].at # "filled"
      BY <2>1 DEF Exit, Free, VolumeInv, Base, Shape, Adders
    <3> QED
      BY <1>3, <3>1 DEF VolumeInv, Sound, TornOK
  <2>2. CASE VolumeCrash
    BY <2>2 DEF VolumeCrash
  <2> QED
    BY <2>1, <2>2
<1>5. Base'
  BY <1>1, <1>2, <1>3 DEF Base, Typed, OneTurn, Turns, Changing, Phase
<1>6. ~accident' => Sound'
  BY <1>1, <1>2, <1>3, <1>4
  DEF VolumeInv, Sound, Listed, AdderListed, RemoverListed, GoneOK, TornOK, KeptOK, Turns, Changing, Adders
<1> QED
  BY <1>5, <1>6 DEF VolumeInv

-----------------------------------------------------------------------------
LEMMA StepVolume == ~Overlap /\ VolumeInv /\ [VolumeNext]_volumeVars => VolumeInv'
<1> SUFFICES ASSUME ~Overlap, VolumeInv, [VolumeNext]_volumeVars PROVE VolumeInv'
  OBVIOUS
<1>1. ASSUME NEW c \in VolCalls, CallStep(c)
      PROVE  VolumeInv'
  BY <1>1, FromResumeKeeps, RegisterKeeps, AddFreshKeeps, OpenTorrentFileKeeps, WriteTorrentFileKeeps,
     EnterKeeps, SaveAskKeeps, SavePopKeeps, SaveTimesOutKeeps, OpenResumeKeeps, WriteResumeKeeps,
     RemoveFromSessionKeeps, RemoveFilesKeeps, ExportKeeps, SnapshotReadKeeps, ForgetHandleKeeps,
     FromDiskKeeps DEF CallStep
<1>2. ASSUME NEW c \in VolCalls,
             \/ AddBegin(c) \/ RemoveBegin(c) \/ RestoreBegin(c)
             \/ SaveBegin(c) \/ ReadBegin(c) \/ SnapshotBegin(c) \/ Boot(c) \/ StopBegin(c)
      PROVE  VolumeInv'
  BY <1>2, AddBeginKeeps, RemoveBeginKeeps, RestoreBeginKeeps, SaveBeginKeeps, ReadBeginKeeps,
     SnapshotBeginKeeps, BootKeeps, StopBeginKeeps
<1>3. CASE UNCHANGED volumeVars
  BY <1>3 DEF volumeVars, lists, files, history, VolumeInv, Base, Typed, OneTurn, Turns, Shape, Phase,
     Sound, Listed, AdderListed, RemoverListed, GoneOK, TornOK, KeptOK
<1> QED
  BY <1>1, <1>2, <1>3, GoneKeeps DEF VolumeNext

LEMMA VolumeInductive ==
    ASSUME ~Overlap
    PROVE  VolumeSpec => []VolumeInv
<1> QED
  BY InitVolume, StepVolume, PTL DEF VolumeSpec

LEMMA VolumeTyped == VolumeInv => VolumeTypeOK
  BY DEF VolumeInv, Base, Typed, VolumeTypeOK, Call

(* The variables of the volume keep their types.                           *)
THEOREM VolumeTypes ==
    ASSUME ~Overlap
    PROVE  VolumeSpec => []VolumeTypeOK
<1> QED
  BY VolumeTyped, VolumeInductive, PTL

LEMMA VolumeSays == VolumeInv => VolumeSound
<1>1. SUFFICES ASSUME VolumeInv, ~accident, Sound, Typed
               PROVE  VolumeSound
  BY DEF VolumeInv, Base, VolumeSound, Recoverable, GoneIsGone, ListedIsLive
<1>2. Recoverable
  BY <1>1 DEF Sound, TornOK, KeptOK, Typed, Recoverable
<1>3. GoneIsGone
  BY <1>1 DEF Sound, GoneOK, GoneIsGone
<1>4. ListedIsLive
  BY <1>1 DEF VolumeInv, Base, Phase, Sound, Listed, Turns, ListedIsLive, Changing
<1> QED
  BY <1>2, <1>3, <1>4 DEF VolumeSound

(* As long as requests that change the torrent take turns, and whatever    *)
(* saves, exports, polls, stops and crashes come in between: a torrent     *)
(* that was added from a file can be restored, and a removed one cannot,   *)
(* and what is listed is in the session whenever no request is at work     *)
(* (add_torrent, remove, _persist_resume, read_torrent_file, _snapshot).   *)
THEOREM VolumeIsSound ==
    ASSUME ~Overlap
    PROVE  VolumeSpec => []VolumeSound
<1> QED
  BY VolumeSays, VolumeInductive, PTL

-----------------------------------------------------------------------------
(* Where torrents look for peers (PeerDiscovery).                          *)

(* What a switch by hand is about, and what a call of set_net has decided. *)
SwitchListed(s) ==
    /\ switch[s].at # "idle" => added[switch[s].t].at = "in"
    /\ switch[s].at = "set" /\ switch[s].t \in Passkey /\ switch[s].on # "off" => switch[s].off = Sources
FlagDecided(c) ==
    /\ netcall[c].at = "apply" => netcall[c].seen \subseteq {"dht", "lsd"}
    /\ netcall[c].at = "off" => \E t \in Torrents : netcall[c].seen = {t}
    /\ netcall[c].at = "on" => \E t \in Torrents \ Passkey : netcall[c].seen = {t}

(* The flags that are saved are as good as the ones of the handle.         *)
SavedPrivate == \A t \in Passkey \ opened : fast[t] \in {Sources, {"none"}}

DiscoveryInv ==
    /\ DiscoveryTypeOK /\ StaysPrivate /\ SavedPrivate
    /\ \A s \in Switchers : SwitchListed(s)
    /\ \A c \in NetCalls : FlagDecided(c)

Flags == [at : {"out", "adding", "in"}, off : SUBSET Sources]
NetWork == [at : {"idle", "take", "read", "apply", "next", "off", "on"},
            todo : SUBSET Torrents, seen : SUBSET (Sources \union Torrents)]
Switching == [at : {"idle", "compute", "set", "save"}, t : Torrents,
              on : {"on", "off", "auto"}, off : SUBSET Sources]

LEMMA Idling == NoNetCall \in NetWork /\ NoSwitch \in Switching /\ NoNetCall.at = "idle" /\ NoSwitch.at = "idle"
<1>1. (CHOOSE t \in Torrents : TRUE) \in Torrents
  BY DiscoveryAssumption
<1> QED
  BY <1>1 DEF NoNetCall, NoSwitch, NetWork, Switching

LEMMA DiscoveryTypes ==
  ASSUME DiscoveryTypeOK
  PROVE  /\ added \in [Torrents -> Flags] /\ \A t \in Torrents : added[t] \in Flags
         /\ netcall \in [NetCalls -> NetWork] /\ \A c \in NetCalls : netcall[c] \in NetWork
         /\ switch \in [Switchers -> Switching] /\ \A s \in Switchers : switch[s] \in Switching
<1> QED
  BY DEF DiscoveryTypeOK, Flags, NetWork, Switching

LEMMA FreshIs ==
  ASSUME Fresh'
  PROVE  /\ net' = Sources /\ enabled' = {"dht", "lsd"} /\ added' \in [Torrents -> Flags]
         /\ netcall' \in [NetCalls -> NetWork] /\ switch' \in [Switchers -> Switching]
         /\ \A t \in Torrents : added'[t].at = "out"
         /\ \A c \in NetCalls : netcall'[c].at = "idle"
         /\ \A s \in Switchers : switch'[s].at = "idle"
<1> QED
  BY Idling DEF Fresh, Flags

LEMMA InitDiscovery == DiscoveryInit => DiscoveryInv
<1> SUFFICES ASSUME DiscoveryInit PROVE DiscoveryInv
  OBVIOUS
<1>1. /\ net = Sources /\ enabled = {"dht", "lsd"} /\ added \in [Torrents -> Flags]
      /\ netcall \in [NetCalls -> NetWork] /\ switch \in [Switchers -> Switching]
      /\ \A t \in Torrents : added[t].at = "out"
      /\ \A c \in NetCalls : netcall[c].at = "idle"
      /\ \A s \in Switchers : switch[s].at = "idle"
  BY Idling DEF DiscoveryInit, Fresh, Flags
<1>2. DiscoveryTypeOK
  <2>1. wanted \in NetPolicies /\ opened \subseteq Torrents /\ moves \in 0..MaxMoves
    BY DiscoveryAssumption DEF DiscoveryInit
  <2>2. fast \in [Torrents -> (SUBSET Sources) \union {{"none"}}]
    BY DEF DiscoveryInit
  <2> QED
    BY <1>1, <2>1, <2>2 DEF DiscoveryTypeOK, Flags, NetWork, Switching
<1>3. StaysPrivate /\ SavedPrivate
  BY <1>1, DiscoveryAssumption DEF DiscoveryInit, StaysPrivate, SavedPrivate
<1> QED
  BY <1>1, <1>2, <1>3 DEF DiscoveryInv, SwitchListed, FlagDecided

(* The policy, an addition and a restart.                                  *)
LEMMA TorrentKeeps ==
  ASSUME DiscoveryInv,
         \/ \E w \in NetPolicies : ChangePolicy(w)
         \/ Restart
         \/ \E t \in Torrents : AddHandle(t) \/ Registered(t) \/ SaveFlags(t)
  PROVE  DiscoveryInv'
<1>0. DiscoveryTypeOK
  BY DEF DiscoveryInv
<1>1. CASE \E w \in NetPolicies : ChangePolicy(w)
  BY <1>1, DiscoveryAssumption
  DEF ChangePolicy, Counted, DiscoveryInv, DiscoveryTypeOK, StaysPrivate, SavedPrivate, SwitchListed, FlagDecided
<1>2. CASE Restart
  <2>1. /\ net' = Sources /\ enabled' = {"dht", "lsd"} /\ added' \in [Torrents -> Flags]
        /\ netcall' \in [NetCalls -> NetWork] /\ switch' \in [Switchers -> Switching]
        /\ \A t \in Torrents : added'[t].at = "out"
        /\ \A c \in NetCalls : netcall'[c].at = "idle"
        /\ \A s \in Switchers : switch'[s].at = "idle"
    BY <1>2, Idling DEF Restart, Flags
  <2>2. /\ wanted' = wanted /\ fast' = fast /\ opened' = opened /\ moves' \in 0..MaxMoves
    BY <1>0, <1>2, DiscoveryAssumption DEF Restart, Counted, DiscoveryTypeOK
  <2>3. DiscoveryTypeOK'
    BY <1>0, <2>1, <2>2 DEF DiscoveryTypeOK, Flags, NetWork, Switching
  <2> QED
    BY <2>1, <2>2, <2>3, DiscoveryAssumption DEF DiscoveryInv, StaysPrivate, SavedPrivate, SwitchListed, FlagDecided
<1>3. ASSUME NEW t \in Torrents, AddHandle(t) \/ Registered(t)
      PROVE  DiscoveryInv'
  <2>1. PICK n \in Flags :
          /\ added' = [added EXCEPT ![t] = n]
          /\ added[t].at # "in" /\ n.at # "out"
          /\ t \in Passkey \ opened => n.off = Sources
    <3>1. CASE AddHandle(t)
      <4> DEFINE off == IF fast[t] = {"none"} THEN Mask(LooksPrivate(t)) ELSE fast[t]
      <4>1. Mask(LooksPrivate(t)) \in SUBSET Sources /\ (t \in Passkey => Mask(LooksPrivate(t)) = Sources)
        BY DEF Mask, LooksPrivate, Sources
      <4>2. off \in SUBSET Sources
        <5>1. fast[t] \in (SUBSET Sources) \union {{"none"}}
          BY <1>0 DEF DiscoveryTypeOK
        <5> QED
          BY <4>1, <5>1
      <4>3. t \in Passkey \ opened => off = Sources
        BY <4>1 DEF DiscoveryInv, SavedPrivate
      <4>4. added' = [added EXCEPT ![t] = [at |-> "adding", off |-> off]] /\ added[t].at = "out"
        BY <3>1 DEF AddHandle
      <4> HIDE DEF off
      <4> DEFINE n == [at |-> "adding", off |-> off]
      <4>5. n \in Flags /\ n.at = "adding" /\ n.off = off
        BY <4>2 DEF Flags
      <4>6. added' = [added EXCEPT ![t] = n]
        BY <4>4
      <4> HIDE DEF n
      <4> QED
        BY <4>3, <4>4, <4>5, <4>6
    <3>2. CASE Registered(t)
      <4> DEFINE n == [added[t] EXCEPT !.at = "in"]
      <4>1. added' = [added EXCEPT ![t] = n] /\ added[t].at = "adding"
        BY <3>2, DiscoveryTypes, <1>0 DEF Registered
      <4>2. n \in Flags /\ n.at = "in" /\ n.off = added[t].off
        BY <1>0, DiscoveryTypes DEF Flags
      <4>3. t \in Passkey \ opened => n.off = Sources
        BY <4>1, <4>2 DEF DiscoveryInv, StaysPrivate
      <4> QED
        BY <4>1, <4>2, <4>3
    <3> QED
      BY <1>3, <3>1, <3>2
  <2>2. UNCHANGED <<wanted, net, enabled, fast, netcall, switch, opened, moves>>
    BY <1>3 DEF AddHandle, Registered
  <2>3. added' \in [Torrents -> Flags] /\ added'[t] = n /\ \A u \in Torrents : u # t => added'[u] = added[u]
    BY <1>0, <2>1, DiscoveryTypes
  <2>4. DiscoveryTypeOK'
    BY <1>0, <2>2, <2>3 DEF DiscoveryTypeOK, Flags
  <2>5. StaysPrivate' /\ SavedPrivate'
    BY <2>1, <2>2, <2>3, DiscoveryAssumption DEF DiscoveryInv, StaysPrivate, SavedPrivate
  <2>6. \A s \in Switchers : SwitchListed(s)'
    <3>1. \A s \in Switchers : switch[s].t \in Torrents
      BY <1>0, DiscoveryTypes DEF Switching
    <3> QED
      BY <2>1, <2>2, <2>3, <3>1 DEF DiscoveryInv, SwitchListed
  <2> QED
    BY <2>2, <2>4, <2>5, <2>6 DEF DiscoveryInv, FlagDecided
<1>4. ASSUME NEW t \in Torrents, SaveFlags(t)
      PROVE  DiscoveryInv'
  <2>1. fast' = [fast EXCEPT ![t] = added[t].off] /\ added[t].at = "in"
        /\ UNCHANGED <<wanted, net, enabled, added, netcall, switch, opened, moves>>
    BY <1>4 DEF SaveFlags
  <2>2. added[t].off \in SUBSET Sources
    BY <1>0, DiscoveryTypes DEF Flags
  <2>3. t \in Passkey \ opened => added[t].off = Sources
    BY <2>1 DEF DiscoveryInv, StaysPrivate
  <2>4. /\ fast' \in [Torrents -> (SUBSET Sources) \union {{"none"}}] /\ fast'[t] = added[t].off
        /\ \A u \in Torrents : u # t => fast'[u] = fast[u]
    BY <1>0, <2>1, <2>2 DEF DiscoveryTypeOK
  <2>5. DiscoveryTypeOK'
    BY <1>0, <2>1, <2>4 DEF DiscoveryTypeOK
  <2> QED
    BY <2>1, <2>3, <2>4, <2>5, DiscoveryAssumption
    DEF DiscoveryInv, StaysPrivate, SavedPrivate, SwitchListed, FlagDecided
<1> QED
  BY <1>1, <1>2, <1>3, <1>4

(* set_net in its thread.                                                  *)
LEMMA NetKeeps ==
  ASSUME DiscoveryInv, NEW c \in NetCalls, NetSet(c) \/ NetStep(c)
  PROVE  DiscoveryInv'
<1>0. DiscoveryTypeOK
  BY DEF DiscoveryInv
<1>a. netcall[c] \in NetWork /\ NoNetCall \in NetWork
  BY <1>0, DiscoveryTypes, Idling
<1>b. ASSUME NEW n \in NetWork, netcall' = [netcall EXCEPT ![c] = n],
             n.at = "apply" => n.seen \subseteq {"dht", "lsd"},
             n.at = "off" => \E t \in Torrents : n.seen = {t},
             n.at = "on" => \E t \in Torrents \ Passkey : n.seen = {t},
             UNCHANGED <<wanted, fast, switch, opened, moves>>,
             net' \subseteq Sources, enabled' \subseteq {"dht", "lsd"},
             added' \in [Torrents -> Flags], \A t \in Torrents : added'[t].at = added[t].at,
             \A t \in Passkey : added[t].off = Sources => added'[t].off = Sources
      PROVE  DiscoveryInv'
  <2>1. netcall' \in [NetCalls -> NetWork] /\ netcall'[c] = n /\ \A d \in NetCalls : d # c => netcall'[d] = netcall[d]
    BY <1>0, <1>b, DiscoveryTypes
  <2>2. DiscoveryTypeOK'
    BY <1>0, <1>b, <2>1 DEF DiscoveryTypeOK, Flags, NetWork
  <2>3. \A d \in NetCalls : FlagDecided(d)'
    BY <1>b, <2>1 DEF DiscoveryInv, FlagDecided
  <2>4. StaysPrivate' /\ SavedPrivate'
    BY <1>b, DiscoveryAssumption DEF DiscoveryInv, StaysPrivate, SavedPrivate
  <2>5. \A s \in Switchers : SwitchListed(s)'
    <3>1. \A s \in Switchers : switch[s].t \in Torrents
      BY <1>0, DiscoveryTypes DEF Switching
    <3> QED
      BY <1>b, <3>1 DEF DiscoveryInv, SwitchListed
  <2> QED
    BY <2>2, <2>3, <2>4, <2>5 DEF DiscoveryInv
<1>c. added \in [Torrents -> Flags] /\ net \subseteq Sources /\ enabled \subseteq {"dht", "lsd"}
  BY <1>0, DiscoveryTypes DEF DiscoveryTypeOK
<1>1. CASE NetSet(c)
  <2> DEFINE n == [NoNetCall EXCEPT !.at = "take"]
  <2>1. n \in NetWork /\ n.at = "take"
    BY DEF NoNetCall, NetWork
  <2>2. net' \subseteq Sources
    BY <1>0, <1>1, DiscoveryAssumption DEF NetSet, DiscoveryTypeOK
  <2>3. netcall' = [netcall EXCEPT ![c] = n] /\ UNCHANGED <<wanted, fast, switch, opened, moves, enabled, added>>
    BY <1>1 DEF NetSet, NetGo
  <2> HIDE DEF n
  <2> QED
    BY <1>b, <1>c, <2>1, <2>2, <2>3
<1>2. CASE NetTake(c)
  <2> DEFINE n == [NoNetCall EXCEPT !.at = "read", !.todo = {t \in Torrents : added[t].at = "in"}]
  <2>1. n \in NetWork /\ n.at = "read"
    BY DEF NoNetCall, NetWork
  <2>2. netcall' = [netcall EXCEPT ![c] = n] /\ UNCHANGED <<wanted, fast, switch, opened, moves, net, enabled, added>>
    BY <1>2 DEF NetTake, NetGo
  <2> HIDE DEF n
  <2> QED
    BY <1>b, <1>c, <2>1, <2>2
<1>3. CASE SessionRead(c)
  <2> DEFINE n == [netcall[c] EXCEPT !.at = "apply", !.seen = net \ {"pex"}]
  <2>1. n \in NetWork /\ n.at = "apply" /\ n.seen \subseteq {"dht", "lsd"}
    BY <1>a, <1>c DEF NetWork, Sources
  <2>2. netcall' = [netcall EXCEPT ![c] = n] /\ UNCHANGED <<wanted, fast, switch, opened, moves, net, enabled, added>>
    BY <1>3 DEF SessionRead, NetGo
  <2> HIDE DEF n
  <2> QED
    BY <1>b, <1>c, <2>1, <2>2
<1>4. CASE SessionApply(c)
  <2> DEFINE n == [netcall[c] EXCEPT !.at = "next", !.seen = {}]
  <2>1. n \in NetWork /\ n.at = "next"
    BY <1>a DEF NetWork
  <2>2. netcall' = [netcall EXCEPT ![c] = n] /\ UNCHANGED <<wanted, fast, switch, opened, moves, net, added>>
        /\ enabled' = netcall[c].seen /\ netcall[c].at = "apply"
    BY <1>4 DEF SessionApply, NetGo
  <2>3. enabled' \subseteq {"dht", "lsd"}
    BY <1>0, <2>2 DEF DiscoveryInv, FlagDecided
  <2> HIDE DEF n
  <2> QED
    BY <1>b, <1>c, <2>1, <2>2, <2>3
<1>5. CASE PexDecide(c)
  <2>1. UNCHANGED <<wanted, fast, switch, opened, moves, net, enabled, added>>
    BY <1>5 DEF PexDecide, NetGo
  <2>2. PICK n \in NetWork :
          /\ netcall' = [netcall EXCEPT ![c] = n]
          /\ n.at # "apply" /\ (n.at = "off" => \E t \in Torrents : n.seen = {t})
          /\ n.at = "on" => \E t \in Torrents \ Passkey : n.seen = {t}
    <3>1. CASE netcall[c].todo = {}
      BY <1>5, <1>a, <3>1, Idling DEF PexDecide, NetGo
    <3>2. CASE netcall[c].todo # {}
      <4>1. PICK t \in netcall[c].todo :
              netcall' = [netcall EXCEPT ![c] =
                  [netcall[c] EXCEPT !.at = IF PexOff(t) THEN "off" ELSE "on", !.seen = {t}]]
        BY <1>5, <3>2 DEF PexDecide, NetGo
      <4>2. t \in Torrents
        BY <1>a DEF NetWork
      <4> DEFINE n == [netcall[c] EXCEPT !.at = IF PexOff(t) THEN "off" ELSE "on", !.seen = {t}]
      <4>3. n \in NetWork /\ n.seen = {t} /\ n.at # "apply" /\ (n.at = "on" => ~PexOff(t))
        BY <1>a, <4>2 DEF NetWork
      <4>4. n.at = "on" => t \notin Passkey
        BY <4>3 DEF PexOff, LooksPrivate
      <4>5. netcall' = [netcall EXCEPT ![c] = n]
        BY <4>1
      <4> HIDE DEF n
      <4> QED
        BY <4>2, <4>3, <4>4, <4>5
    <3> QED
      BY <3>1, <3>2
  <2> QED
    BY <1>b, <1>c, <2>1, <2>2
<1>6. CASE PexFlag(c)
  <2>1. PICK t \in Torrents : netcall[c].seen = {t} /\ (netcall[c].at = "on" => t \notin Passkey)
    BY <1>6 DEF PexFlag, DiscoveryInv, FlagDecided
  <2>2. (CHOOSE u \in netcall[c].seen : TRUE) = t
    BY <2>1
  <2> DEFINE n == [NoNetCall EXCEPT !.at = "next", !.todo = netcall[c].todo \ {t}]
             off == IF netcall[c].at = "off" THEN added[t].off \union {"pex"} ELSE added[t].off \ {"pex"}
  <2>3. /\ netcall' = [netcall EXCEPT ![c] = n] /\ UNCHANGED <<wanted, fast, switch, opened, moves, net, enabled>>
        /\ added' = [added EXCEPT ![t] = [added[t] EXCEPT !.off = off]] /\ netcall[c].at \in {"off", "on"}
    BY <1>6, <1>c, <2>2 DEF PexFlag, NetGo
  <2>4. n \in NetWork /\ n.at = "next"
    BY <1>a DEF NoNetCall, NetWork
  <2>5. added[t] \in Flags
    BY <1>c
  <2>6. off \in SUBSET Sources /\ (t \in Passkey /\ added[t].off = Sources => off = Sources)
    BY <2>1, <2>3, <2>5 DEF Flags, Sources
  <2> HIDE DEF n, off
  <2>7. [added[t] EXCEPT !.off = off] \in Flags /\ [added[t] EXCEPT !.off = off].at = added[t].at
        /\ [added[t] EXCEPT !.off = off].off = off
    BY <2>5, <2>6 DEF Flags
  <2>8. /\ added' \in [Torrents -> Flags] /\ \A u \in Torrents : added'[u].at = added[u].at
        /\ \A u \in Passkey : added[u].off = Sources => added'[u].off = Sources
    BY <1>c, <2>3, <2>6, <2>7, DiscoveryAssumption
  <2> QED
    BY <1>b, <1>c, <2>3, <2>4, <2>8
<1> QED
  BY <1>1, <1>2, <1>3, <1>4, <1>5, <1>6 DEF NetStep

(* set_private in its thread.                                              *)
LEMMA SwitchKeeps ==
  ASSUME DiscoveryInv, NEW s \in Switchers,
         (\E t \in Torrents, on \in {"on", "off", "auto"} : SwitchCall(s, t, on)) \/ SwitchStep(s)
  PROVE  DiscoveryInv'
<1>0. DiscoveryTypeOK
  BY DEF DiscoveryInv
<1>a. switch[s] \in Switching /\ switch[s].t \in Torrents /\ switch[s].off \in SUBSET Sources
      /\ added \in [Torrents -> Flags]
  BY <1>0, DiscoveryTypes DEF Switching
<1>b. ASSUME NEW n \in Switching, switch' = [switch EXCEPT ![s] = n],
             n.at # "idle" => added'[n.t].at = "in",
             n.at = "set" /\ n.t \in Passkey /\ n.on # "off" => n.off = Sources,
             UNCHANGED <<wanted, net, enabled, netcall>>, moves' \in 0..MaxMoves,
             added' \in [Torrents -> Flags], \A t \in Torrents : added'[t].at = added[t].at,
             fast' \in [Torrents -> (SUBSET Sources) \union {{"none"}}], opened' \subseteq Torrents,
             \A t \in Passkey \ opened' :
                 /\ added'[t].at # "out" => added'[t].off = Sources
                 /\ fast'[t] \in {Sources, {"none"}}
      PROVE  DiscoveryInv'
  <2>1. switch' \in [Switchers -> Switching] /\ switch'[s] = n /\ \A d \in Switchers : d # s => switch'[d] = switch[d]
    BY <1>0, <1>b, DiscoveryTypes
  <2>2. DiscoveryTypeOK'
    BY <1>0, <1>b, <2>1 DEF DiscoveryTypeOK, Flags, Switching
  <2>3. \A c \in NetCalls : FlagDecided(c)'
    BY <1>b DEF DiscoveryInv, FlagDecided
  <2>4. \A d \in Switchers : SwitchListed(d)'
    <3>1. \A d \in Switchers : switch[d].t \in Torrents
      BY <1>0, DiscoveryTypes DEF Switching
    <3> QED
      BY <1>b, <2>1, <3>1 DEF DiscoveryInv, SwitchListed
  <2> QED
    BY <1>b, <2>2, <2>3, <2>4 DEF DiscoveryInv, StaysPrivate, SavedPrivate
<1>c. /\ fast \in [Torrents -> (SUBSET Sources) \union {{"none"}}] /\ opened \subseteq Torrents /\ moves \in 0..MaxMoves
      /\ \A t \in Passkey \ opened :
            (added[t].at # "out" => added[t].off = Sources) /\ fast[t] \in {Sources, {"none"}}
  BY <1>0 DEF DiscoveryTypeOK, DiscoveryInv, StaysPrivate, SavedPrivate
<1>1. ASSUME NEW t \in Torrents, NEW on \in {"on", "off", "auto"}, SwitchCall(s, t, on)
      PROVE  DiscoveryInv'
  <2> DEFINE n == [at |-> "compute", t |-> t, on |-> on, off |-> {}]
  <2>1. n \in Switching /\ n.at = "compute" /\ n.t = t
    BY DEF Switching
  <2>2. /\ switch' = [switch EXCEPT ![s] = n] /\ added[t].at = "in"
        /\ UNCHANGED <<wanted, net, enabled, netcall, added, fast, opened>>
    BY <1>1 DEF SwitchCall, SwitchGo
  <2>3. moves' \in 0..MaxMoves
    BY <1>1, <1>c, DiscoveryAssumption DEF SwitchCall, Counted
  <2> HIDE DEF n
  <2> QED
    BY <1>a, <1>b, <1>c, <2>1, <2>2, <2>3
<1>2. CASE SwitchCompute(s)
  <2> PICK private \in BOOLEAN :
        private = (switch[s].on = "on" \/ (switch[s].on = "auto" /\ LooksPrivate(switch[s].t)))
    OBVIOUS
  <2> DEFINE n == [switch[s] EXCEPT !.at = "set", !.off = Mask(private)]
  <2>1. Mask(private) \in SUBSET Sources /\ (private => Mask(private) = Sources)
    BY DEF Mask, Sources
  <2>2. n \in Switching /\ n.at = "set" /\ n.t = switch[s].t /\ n.on = switch[s].on /\ n.off = Mask(private)
    BY <1>a, <2>1 DEF Switching
  <2>3. /\ switch' = [switch EXCEPT ![s] = n] /\ switch[s].at = "compute"
        /\ UNCHANGED <<wanted, net, enabled, netcall, added, fast, opened, moves>>
    BY <1>2 DEF SwitchCompute, SwitchGo
  <2>4. n.t \in Passkey /\ n.on # "off" => n.off = Sources
    BY <1>a, <2>1, <2>2 DEF LooksPrivate, Switching
  <2>5. added[n.t].at = "in"
    BY <2>2, <2>3 DEF DiscoveryInv, SwitchListed
  <2> HIDE DEF n
  <2> QED
    BY <1>a, <1>b, <1>c, <2>2, <2>3, <2>4, <2>5
<1>3. CASE SwitchSet(s)
  <2> PICK t \in Torrents : t = switch[s].t
    BY <1>a
  <2> PICK off \in SUBSET Sources : off = switch[s].off
    BY <1>a
  <2> DEFINE n == [switch[s] EXCEPT !.at = "save"]
             a == [added[t] EXCEPT !.off = off]
  <2>1. n \in Switching /\ n.at = "save" /\ n.t = t
    BY <1>a DEF Switching
  <2>2. /\ switch' = [switch EXCEPT ![s] = n] /\ switch[s].at = "set"
        /\ added' = [added EXCEPT ![t] = a]
        /\ opened' = IF switch[s].on = "off" THEN opened \union {t} ELSE opened
        /\ UNCHANGED <<wanted, net, enabled, netcall, fast, moves>>
    BY <1>3, <1>a DEF SwitchSet, SwitchGo
  <2>3. added[t].at = "in" /\ (t \in Passkey /\ switch[s].on # "off" => off = Sources)
    BY <2>2 DEF DiscoveryInv, SwitchListed
  <2>4. a \in Flags /\ a.at = added[t].at /\ a.off = off
    BY <1>a DEF Flags
  <2> HIDE DEF n, a
  <2>5. /\ added' \in [Torrents -> Flags] /\ added'[t] = a
        /\ \A u \in Torrents : u # t => added'[u] = added[u]
    BY <1>a, <2>2, <2>4
  <2>6. opened' \subseteq Torrents
    BY <1>c, <2>2
  <2>7. \A u \in Passkey \ opened' :
           (added'[u].at # "out" => added'[u].off = Sources) /\ fast'[u] \in {Sources, {"none"}}
    BY <1>c, <2>2, <2>3, <2>4, <2>5, DiscoveryAssumption
  <2> QED
    BY <1>a, <1>b, <1>c, <2>1, <2>2, <2>3, <2>4, <2>5, <2>6, <2>7
<1>4. CASE SwitchSave(s)
  <2> PICK t \in Torrents : t = switch[s].t
    BY <1>a
  <2>1. /\ switch' = [switch EXCEPT ![s] = NoSwitch] /\ switch[s].at = "save"
        /\ fast' = [fast EXCEPT ![t] = added[t].off]
        /\ opened' = (IF fast'[t] = Sources THEN opened \ {t} ELSE opened)
        /\ UNCHANGED <<wanted, net, enabled, netcall, added, moves>>
    BY <1>4 DEF SwitchSave, SwitchGo
  <2>2. added[t] \in Flags /\ added[t].at = "in"
    BY <1>a, <2>1 DEF DiscoveryInv, SwitchListed
  <2>3. /\ fast' \in [Torrents -> (SUBSET Sources) \union {{"none"}}] /\ fast'[t] = added[t].off
        /\ \A u \in Torrents : u # t => fast'[u] = fast[u]
    BY <1>c, <2>1, <2>2 DEF Flags
  <2>4. opened' \subseteq Torrents
    BY <1>c, <2>1
  <2>5. \A u \in Passkey \ opened' :
           (added'[u].at # "out" => added'[u].off = Sources) /\ fast'[u] \in {Sources, {"none"}}
    BY <1>c, <2>1, <2>2, <2>3, DiscoveryAssumption
  <2> QED
    BY <1>a, <1>b, <1>c, <2>1, <2>3, <2>4, <2>5, Idling
<1> QED
  BY <1>1, <1>2, <1>3, <1>4 DEF SwitchStep

LEMMA StepDiscovery == DiscoveryInv /\ [DiscoveryNext]_netVars => DiscoveryInv'
<1> SUFFICES ASSUME DiscoveryInv, [DiscoveryNext]_netVars PROVE DiscoveryInv'
  OBVIOUS
<1>1. CASE DiscoveryNext
  BY <1>1, TorrentKeeps, NetKeeps, SwitchKeeps DEF DiscoveryNext
<1>2. CASE UNCHANGED netVars
  BY <1>2 DEF netVars, DiscoveryInv, DiscoveryTypeOK, StaysPrivate, SavedPrivate, SwitchListed, FlagDecided
<1> QED
  BY <1>1, <1>2

(* The variables of peer discovery keep their types.                       *)
THEOREM DiscoveryTypesKept == DiscoverySpec => []DiscoveryTypeOK
<1>1. DiscoveryInv => DiscoveryTypeOK
  BY DEF DiscoveryInv
<1> QED
  BY <1>1, InitDiscovery, StepDiscovery, PTL DEF DiscoverySpec

(* A private torrent stays out of DHT, PEX and LSD (set_net, set_private,  *)
(* _effective_disable_mask), for any number of torrents and of calls that  *)
(* overlap, whatever the policies.                                         *)
THEOREM PrivateStaysPrivate == DiscoverySpec => []StaysPrivate
<1>1. DiscoveryInv => StaysPrivate
  BY DEF DiscoveryInv
<1> QED
  BY <1>1, InitDiscovery, StepDiscovery, PTL DEF DiscoverySpec
-----------------------------------------------------------------------------
(* Downloads of content (Downloads).                                       *)

PlanEntry == [f : Content, size : Nat, off : Nat, z64 : BOOLEAN]
Requester ==
    [at : {"out", "ticket", "plan", "entry", "data", "ended", "broken"}, kind : {"zip", "file"},
     f : Content, seen : SUBSET Content, k : Nat, entries : Seq(PlanEntry), total : Nat, sent : Nat,
     pos : Nat, where : Seq(Nat), whole : BOOLEAN, holes : BOOLEAN]

(* A plan: each entry begins where the one before it ends.                 *)
After(e) == e.off + LocalLen(e) + e.size + DescriptorLen(e)
Begins(p, i) == IF i = 1 THEN 0 ELSE After(p[i - 1])
Planned(p) ==
    \A i \in 1..Len(p) :
        p[i].off = Begins(p, i) /\ (p[i].z64 <=> Needs64(p[i].size, p[i].off))

Complete(p) == \A i \in 1..Len(p) : p[i].f \in arrived

(* The first n local headers came where the plan says.                     *)
HeadersAt(r, n) == Len(r.where) = n /\ \A i \in 1..n : r.where[i] = r.entries[i].off

Promised(r) == r.total = Total(r.entries) /\ r.entries # <<>>

(* An archive: planned, then sent as planned.                              *)
ArchiveOK(r) ==
    r.kind = "zip" /\ r.at \in {"ticket", "plan", "entry", "data", "ended"} =>
        /\ ~r.holes /\ Planned(r.entries) /\ Complete(r.entries) /\ r.seen \subseteq arrived
        /\ r.at \in {"ticket", "plan"} => r.where = <<>> /\ r.sent = 0 /\ r.k # 0
        /\ r.at = "entry" => /\ Promised(r) /\ r.k \in 1..(Len(r.entries) + 1)
                             /\ HeadersAt(r, r.k - 1) /\ r.sent = Begins(r.entries, r.k)
        /\ r.at = "data" => /\ Promised(r) /\ r.k \in 1..Len(r.entries) /\ HeadersAt(r, r.k)
                            /\ r.pos <= r.entries[r.k].size
                            /\ r.sent = r.entries[r.k].off + LocalLen(r.entries[r.k]) + r.pos
        /\ r.at = "ended" => HeadersAt(r, Len(r.entries)) /\ r.sent = r.total

(* A file that had arrived: as long as it is whole, what was sent is its   *)
(* beginning.                                                              *)
FileOK(r) ==
    r.kind = "file" =>
        /\ r.at \notin {"plan", "entry"} /\ (r.whole => r.f \in arrived)
        /\ r.whole /\ onDisk[r.f] = Length[r.f] /\ r.at \in {"ticket", "data", "ended"} =>
              /\ ~r.holes /\ r.sent <= Length[r.f]
              /\ r.at = "data" => r.total = Length[r.f] /\ r.pos = r.sent
              /\ r.at = "ended" => r.sent = Length[r.f]

(* zip_active counts the archives that are being sent.                     *)
Archiving(r) == r.kind = "zip" /\ r.at \in {"entry", "data"}
Archives == {c \in Clients : Archiving(client[c])}
ActiveCounted == IsFiniteSet(Archives) /\ active = Cardinality(Archives) /\ active <= Parallel

DownloadInv ==
    /\ onDisk \in [Content -> Nat] /\ gone \subseteq Content /\ arrived \subseteq Content
    /\ \A f \in Content : onDisk[f] <= Length[f]
    /\ client \in [Clients -> Requester] /\ ActiveCounted
    /\ \A c \in Clients : ArchiveOK(client[c]) /\ FileOK(client[c])

(* Induction over the natural numbers, for a set of them.                  *)
LEMMA NatSetInduction ==
  ASSUME NEW A, 0 \in A, \A n \in Nat : n \in A => n + 1 \in A
  PROVE  Nat \subseteq A
<1> DEFINE T == Nat \ A
<1> SUFFICES ASSUME T # {} PROVE FALSE
  OBVIOUS
<1>1. \E x \in T : \A y \in T : ~(<<y, x>> \in OpToRel(<, Nat))
  <2>1. IsWellFoundedOn(OpToRel(<, Nat), Nat) /\ T \subseteq Nat
    BY NatLessThanWellFounded
  <2> HIDE DEF T
  <2> QED
    BY <2>1, WFMin
<1>2. PICK x \in T : \A y \in T : ~(y < x)
  BY <1>1 DEF OpToRel
<1>3. x # 0 /\ x - 1 \in Nat /\ x - 1 \notin A
  BY <1>2
<1> QED
  BY <1>2, <1>3

(* Sums: there is one, and it is a natural number.                         *)
LEMMA SumExists ==
  ASSUME NEW n \in Nat, NEW g \in [1..n -> Nat]
  PROVE  \E s \in [0..n -> Nat] : s = [i \in 0..n |-> IF i = 0 THEN 0 ELSE s[i - 1] + g[i]]
<1> DEFINE Sums(m, s) == s[0] = 0 /\ \A i \in 1..m : s[i] = s[i - 1] + g[i]
           Has(m) == m <= n => \E s \in [0..m -> Nat] : Sums(m, s)
           A == {m \in Nat : Has(m)}
<1>1. Has(0)
  <2> DEFINE s == [i \in 0..0 |-> 0]
  <2>1. s \in [0..0 -> Nat] /\ Sums(0, s)
    OBVIOUS
  <2> QED
    BY <2>1
<1>2. ASSUME NEW m \in Nat, Has(m)
      PROVE  Has(m + 1)
  <2> SUFFICES ASSUME m + 1 <= n
               PROVE  \E s \in [0..(m + 1) -> Nat] : Sums(m + 1, s)
    OBVIOUS
  <2>0. m <= n /\ m \in 0..m /\ m + 1 \in 1..n
    OBVIOUS
  <2>1. PICK s \in [0..m -> Nat] : Sums(m, s)
    BY <1>2, <2>0
  <2>2. PICK v \in Nat : v = s[m] + g[m + 1]
    <3>1. s[m] \in Nat /\ g[m + 1] \in Nat
      BY <2>0
    <3> QED
      BY <3>1
  <2> DEFINE at(i) == IF i <= m THEN s[i] ELSE v
             t == [i \in 0..(m + 1) |-> at(i)]
  <2>3. t \in [0..(m + 1) -> Nat]
    <3>1. \A i \in 0..(m + 1) : at(i) \in Nat
      OBVIOUS
    <3> HIDE DEF at
    <3> QED
      BY <3>1
  <2>4. ASSUME NEW i \in 1..(m + 1)
        PROVE  t[i] = t[i - 1] + g[i]
    <3>1. i \in 0..(m + 1) /\ i - 1 \in 0..(m + 1) /\ i - 1 <= m
      OBVIOUS
    <3>2. t[i] = at(i) /\ t[i - 1] = s[i - 1]
      BY <3>1
    <3>3. CASE i <= m
      BY <2>1, <3>2, <3>3
    <3>4. CASE i = m + 1
      BY <2>2, <3>2, <3>4
    <3> QED
      BY <3>3, <3>4
  <2>5. t[0] = 0
    BY <2>1
  <2> HIDE DEF t
  <2> QED
    BY <2>3, <2>4, <2>5
<1>3. Has(n)
  <2> HIDE DEF Has
  <2>1. 0 \in A
    BY <1>1
  <2>2. ASSUME NEW m \in Nat, m \in A PROVE m + 1 \in A
    BY <1>2, <2>2
  <2> HIDE DEF A
  <2>3. Nat \subseteq A
    BY <2>1, <2>2, NatSetInduction
  <2>4. n \in A
    BY <2>3
  <2> QED
    BY <2>4 DEF A
<1>4. PICK s \in [0..n -> Nat] : Sums(n, s)
  <2>1. n <= n
    OBVIOUS
  <2> QED
    BY <1>3, <2>1
<1>5. s = [i \in 0..n |-> IF i = 0 THEN 0 ELSE s[i - 1] + g[i]]
  <2>1. \A i \in 0..n : s[i] = IF i = 0 THEN 0 ELSE s[i - 1] + g[i]
    BY <1>4
  <2> QED
    BY <2>1
<1> QED
  BY <1>5

(* The lengths of a plan are natural numbers.                              *)
LEMMA EntryLengths ==
  ASSUME NEW e \in PlanEntry
  PROVE  /\ LocalLen(e) \in 1..2 /\ DescriptorLen(e) \in 1..2 /\ CentralLen(e) \in Nat
         /\ After(e) \in Nat /\ e.f \in Content /\ e.size \in Nat /\ e.off \in Nat
<1>1. LocalLen(e) \in 1..2 /\ DescriptorLen(e) \in 1..2
  BY DEF LocalLen, DescriptorLen
<1>2. Big(e.size) \in 0..1 /\ Big(e.off) \in 0..1
  BY DEF Big
<1>3. e.f \in Content /\ e.size \in Nat /\ e.off \in Nat
  BY DEF PlanEntry
<1> QED
  BY <1>1, <1>2, <1>3 DEF CentralLen, After

LEMMA DirectoryLength ==
  ASSUME NEW p \in Seq(PlanEntry)
  PROVE  Directory(p) \in Nat
<1> DEFINE n == Len(p)
           g == [i \in 1..n |-> CentralLen(p[i])]
           Is(s) == s = [i \in 0..n |-> IF i = 0 THEN 0 ELSE s[i - 1] + CentralLen(p[i])]
<1>1. n \in Nat /\ \A i \in 1..n : p[i] \in PlanEntry
  OBVIOUS
<1>2. g \in [1..n -> Nat]
  BY <1>1, EntryLengths
<1>3. PICK s \in [0..n -> Nat] : s = [i \in 0..n |-> IF i = 0 THEN 0 ELSE s[i - 1] + g[i]]
  <2> HIDE DEF g, n
  <2> QED
    BY <1>1, <1>2, SumExists
<1>4. Is(s)
  BY <1>3
<1>5. \A t : Is(t) => t[n] \in Nat
  <2> SUFFICES ASSUME NEW t, Is(t) PROVE t[n] \in Nat
    OBVIOUS
  <2> DEFINE A == {m \in Nat : m <= n => t[m] \in Nat}
  <2>1. 0 \in A
    BY <1>1
  <2>2. ASSUME NEW m \in Nat, m \in A PROVE m + 1 \in A
    <3> SUFFICES ASSUME m + 1 <= n PROVE t[m + 1] \in Nat
      OBVIOUS
    <3>1. t[m] \in Nat /\ CentralLen(p[m + 1]) \in Nat
      BY <1>1, <2>2, EntryLengths
    <3>2. t[m + 1] = t[m] + CentralLen(p[m + 1])
      BY <1>1
    <3> QED
      BY <3>1, <3>2
  <2> HIDE DEF A
  <2>3. n \in A
    BY <1>1, <2>1, <2>2, NatSetInduction
  <2> QED
    BY <2>3 DEF A
<1>6. Is(CHOOSE t : Is(t))
  BY <1>4
<1>7. Directory(p) = (CHOOSE t : Is(t))[n]
  BY DEF Directory
<1> HIDE DEF Is, n
<1> QED
  BY <1>5, <1>6, <1>7

LEMMA PlanLengths ==
  ASSUME NEW p \in Seq(PlanEntry)
  PROVE  /\ \A i \in 1..(Len(p) + 1) : Begins(p, i) \in Nat
         /\ DataEnd(p) = Begins(p, Len(p) + 1)
         /\ EndLen(p) \in Nat /\ Total(p) \in Nat /\ Total(p) = Begins(p, Len(p) + 1) + Directory(p) + EndLen(p)
<1>1. Len(p) \in Nat /\ \A i \in 1..Len(p) : p[i] \in PlanEntry /\ After(p[i]) \in Nat
  BY EntryLengths
<1>2. \A i \in 1..(Len(p) + 1) : Begins(p, i) \in Nat
  BY <1>1 DEF Begins
<1>3. DataEnd(p) = Begins(p, Len(p) + 1)
  BY <1>1 DEF DataEnd, Ends, Begins, After
<1>4. EndLen(p) \in Nat
  BY DEF EndLen
<1> QED
  BY <1>1, <1>2, <1>3, <1>4, DirectoryLength DEF Total

LEMMA AppendPlans ==
  ASSUME NEW p \in Seq(PlanEntry), NEW f \in Content, NEW n \in Nat, Planned(p)
  PROVE  /\ Append64(p, f, n) \in Seq(PlanEntry) /\ Planned(Append64(p, f, n))
         /\ f \in arrived /\ Complete(p) => Complete(Append64(p, f, n))
<1> DEFINE off == DataEnd(p)
           e == [f |-> f, size |-> n, off |-> off, z64 |-> Needs64(n, off)]
           q == Append(p, e)
<1>1. Len(p) \in Nat /\ off \in Nat /\ off = Begins(p, Len(p) + 1)
  BY PlanLengths
<1>2. Needs64(n, off) \in BOOLEAN
  BY DEF Needs64
<1> HIDE DEF off
<1>3. e \in PlanEntry /\ e.f = f /\ e.size = n /\ e.off = off /\ (e.z64 <=> Needs64(n, off))
  BY <1>1, <1>2 DEF PlanEntry
<1>4. Append64(p, f, n) = q
  BY DEF Append64, off
<1> HIDE DEF e
<1>5. q \in Seq(PlanEntry) /\ Len(q) = Len(p) + 1 /\ q[Len(p) + 1] = e /\ \A i \in 1..Len(p) : q[i] = p[i]
  BY <1>3
<1> HIDE DEF q
<1>6. \A i \in 1..(Len(p) + 1) : Begins(q, i) = Begins(p, i)
  <2> SUFFICES ASSUME NEW i \in 1..(Len(p) + 1) PROVE Begins(q, i) = Begins(p, i)
    OBVIOUS
  <2>1. CASE i = 1
    BY <2>1 DEF Begins
  <2>2. CASE i # 1
    <3>1. q[i - 1] = p[i - 1]
      BY <1>1, <1>5, <2>2
    <3> QED
      BY <2>2, <3>1 DEF Begins
  <2> QED
    BY <2>1, <2>2
<1>7. Planned(q)
  <2> SUFFICES ASSUME NEW i \in 1..Len(q)
               PROVE  q[i].off = Begins(q, i) /\ (q[i].z64 <=> Needs64(q[i].size, q[i].off))
    BY DEF Planned
  <2>1. CASE i = Len(p) + 1
    BY <1>1, <1>3, <1>5, <1>6, <2>1
  <2>2. CASE i # Len(p) + 1
    <3>1. i \in 1..Len(p) /\ q[i] = p[i] /\ Begins(q, i) = Begins(p, i)
      BY <1>1, <1>5, <1>6, <2>2
    <3> QED
      BY <3>1 DEF Planned
  <2> QED
    BY <2>1, <2>2
<1>8. f \in arrived /\ Complete(p) => Complete(q)
  BY <1>3, <1>5 DEF Complete
<1> QED
  BY <1>4, <1>5, <1>7, <1>8

LEMMA IdleRequest ==
  /\ Idle \in Requester /\ Idle.at = "out" /\ Idle.kind = "zip" /\ Idle.f = Listing[1] /\ Idle.seen = {}
  /\ Idle.k = 1 /\ Idle.entries = <<>> /\ Idle.sent = 0 /\ Idle.where = <<>> /\ ~Idle.whole /\ ~Idle.holes
<1>1. Listing[1] \in Content /\ <<>> \in Seq(PlanEntry) /\ <<>> \in Seq(Nat)
  <2>1. 1 \in 1..Len(Listing)
    BY DownloadAssumption
  <2> QED
    BY <2>1 DEF Content
<1> QED
  BY <1>1 DEF Idle, Requester

LEMMA InitDownloads == DownloadInit => DownloadInv
<1> SUFFICES ASSUME DownloadInit PROVE DownloadInv
  OBVIOUS
<1>1. \A c \in Clients : client[c] = Idle
  BY DEF DownloadInit
<1>2. client \in [Clients -> Requester]
  BY IdleRequest DEF DownloadInit
<1>3. onDisk \in [Content -> Nat]
  <2>1. {0} \union {Length[f] : f \in Content} \subseteq Nat
    BY DownloadAssumption
  <2>2. onDisk \in [Content -> {0} \union {Length[f] : f \in Content}]
    BY DEF DownloadInit
  <2> QED
    BY <2>1, <2>2
<1>7. \A f \in Content : onDisk[f] <= Length[f]
  BY DownloadAssumption DEF DownloadInit
<1>4. Archives = {}
  BY <1>1, IdleRequest DEF Archives, Archiving
<1>5. ActiveCounted
  BY <1>4, FS_EmptySet, DownloadAssumption DEF ActiveCounted, DownloadInit
<1>6. \A c \in Clients : ArchiveOK(client[c]) /\ FileOK(client[c])
  BY <1>1, IdleRequest DEF ArchiveOK, FileOK
<1> QED
  BY <1>2, <1>3, <1>5, <1>6, <1>7 DEF DownloadInit, DownloadInv

(* A request goes on; the files stay as they are.                          *)
LEMMA ServeKeeps ==
  ASSUME DownloadInv, NEW c \in Clients, NEW n \in Requester, Serve(c, n), Still,
         ArchiveOK(n), FileOK(n),
         \/ active' = active /\ (Archiving(n) <=> Archiving(client[c]))
         \/ active' = active + 1 /\ active < Parallel /\ ~Archiving(client[c]) /\ Archiving(n)
         \/ active' = active - 1 /\ Archiving(client[c]) /\ ~Archiving(n)
  PROVE  DownloadInv'
<1>1. /\ client' \in [Clients -> Requester] /\ client'[c] = n
      /\ \A d \in Clients : d # c => client'[d] = client[d]
  BY DEF DownloadInv, Serve
<1>2. onDisk' = onDisk /\ gone' = gone /\ arrived' = arrived
  BY DEF Still
<1>3. ASSUME NEW d \in Clients
      PROVE  (ArchiveOK(client[d]) /\ FileOK(client[d]))'
  <2>1. CASE d = c
    BY <1>1, <1>2, <2>1 DEF ArchiveOK, FileOK, Complete
  <2>2. CASE d # c
    BY <1>1, <1>2, <2>2 DEF DownloadInv, ArchiveOK, FileOK, Complete
  <2> QED
    BY <2>1, <2>2
<1>4. ActiveCounted'
  <2>1. IsFiniteSet(Archives) /\ active = Cardinality(Archives) /\ active <= Parallel /\ active \in Nat
    BY FS_CardinalityType DEF DownloadInv, ActiveCounted
  <2>2. CASE active' = active /\ (Archiving(n) <=> Archiving(client[c]))
    <3>1. Archives' = Archives
      BY <1>1, <2>2 DEF Archives
    <3> QED
      BY <2>1, <2>2, <3>1 DEF ActiveCounted
  <2>3. CASE active' = active + 1 /\ active < Parallel /\ ~Archiving(client[c]) /\ Archiving(n)
    <3>1. Archives' = Archives \union {c} /\ c \notin Archives
      BY <1>1, <2>3 DEF Archives
    <3>2. IsFiniteSet(Archives') /\ Cardinality(Archives') = Cardinality(Archives) + 1
      BY <2>1, <3>1, FS_AddElement
    <3>3. active' <= Parallel
      BY <2>1, <2>3, DownloadAssumption
    <3> QED
      BY <2>1, <2>3, <3>2, <3>3 DEF ActiveCounted
  <2>4. CASE active' = active - 1 /\ Archiving(client[c]) /\ ~Archiving(n)
    <3>1. Archives' = Archives \ {c} /\ c \in Archives
      BY <1>1, <2>4 DEF Archives
    <3>2. IsFiniteSet(Archives') /\ Cardinality(Archives') = Cardinality(Archives) - 1
      BY <2>1, <3>1, FS_RemoveElement
    <3>3. active' <= Parallel
      BY <2>1, <2>4, DownloadAssumption
    <3> QED
      BY <2>1, <2>4, <3>2, <3>3 DEF ActiveCounted
  <2> QED
    BY <2>2, <2>3, <2>4
<1> QED
  BY <1>1, <1>2, <1>3, <1>4 DEF DownloadInv

LEMMA Requests ==
  ASSUME DownloadInv, NEW c \in Clients
  PROVE  \E r \in Requester : r = client[c] /\ ArchiveOK(r) /\ FileOK(r)
<1> QED
  BY DEF DownloadInv

LEMMA TicketKeeps ==
  ASSUME DownloadInv, NEW c \in Clients, (\E f \in Content : FileTicket(c, f)) \/ ZipTicket(c)
  PROVE  DownloadInv'
<1>1. client[c].at = "out" /\ Still /\ active' = active
  BY DEF FileTicket, ZipTicket
<1>2. ~Archiving(client[c])
  BY <1>1 DEF Archiving
<1>3. ASSUME NEW f \in Content, NEW w \in BOOLEAN, w => f \in arrived,
             Serve(c, [Idle EXCEPT !.at = "ticket", !.kind = "file", !.f = f, !.whole = w])
      PROVE  DownloadInv'
  <2> DEFINE n == [Idle EXCEPT !.at = "ticket", !.kind = "file", !.f = f, !.whole = w]
  <2>1. n \in Requester /\ n.at = "ticket" /\ n.kind = "file" /\ n.f = f /\ n.whole = w /\ n.sent = 0 /\ ~n.holes
    BY IdleRequest DEF Requester
  <2>2. Serve(c, n)
    BY <1>3
  <2> HIDE DEF n
  <2>3. ArchiveOK(n) /\ ~Archiving(n)
    BY <2>1 DEF ArchiveOK, Archiving
  <2>4. Length[f] \in Nat
    BY DownloadAssumption
  <2>5. FileOK(n)
    BY <1>3, <2>1, <2>4 DEF FileOK
  <2> QED
    BY <1>1, <1>2, <2>1, <2>2, <2>3, <2>5, ServeKeeps
<1>4. ASSUME NEW f \in Content, FileTicket(c, f)
      PROVE  DownloadInv'
  <2> DEFINE w == f \in arrived
  <2>1. w \in BOOLEAN /\ (w => f \in arrived)
    OBVIOUS
  <2>2. Serve(c, [Idle EXCEPT !.at = "ticket", !.kind = "file", !.f = f, !.whole = w])
    BY <1>4 DEF FileTicket
  <2> HIDE DEF w
  <2> QED
    BY <1>3, <2>1, <2>2
<1>5. CASE ZipTicket(c) /\ Len(Listing) > 1
  <2> DEFINE n == [Idle EXCEPT !.at = "ticket"]
  <2>1. /\ n \in Requester /\ n.at = "ticket" /\ n.kind = "zip" /\ n.seen = {} /\ n.k = 1 /\ n.entries = <<>>
        /\ n.sent = 0 /\ n.where = <<>> /\ ~n.holes
    BY IdleRequest DEF Requester
  <2>2. Serve(c, n)
    BY <1>5 DEF ZipTicket
  <2> HIDE DEF n
  <2>3. ArchiveOK(n) /\ ~Archiving(n) /\ FileOK(n)
    BY <2>1 DEF ArchiveOK, Archiving, FileOK, Planned, Complete
  <2> QED
    BY <1>1, <1>2, <2>1, <2>2, <2>3, ServeKeeps
<1>6. CASE ZipTicket(c) /\ ~(Len(Listing) > 1)
  <2>1. Listing[1] \in Content /\ Listing[1] \in arrived
    <3>1. Content = {Listing[1]}
      BY <1>6, DownloadAssumption DEF Content
    <3> QED
      BY <1>6, <3>1 DEF ZipTicket, DownloadInv
  <2>2. [Idle EXCEPT !.at = "ticket", !.kind = "file", !.whole = TRUE]
          = [Idle EXCEPT !.at = "ticket", !.kind = "file", !.f = Listing[1], !.whole = TRUE]
    BY IdleRequest DEF Idle
  <2>3. Serve(c, [Idle EXCEPT !.at = "ticket", !.kind = "file", !.f = Listing[1], !.whole = TRUE])
    BY <1>6, <2>2 DEF ZipTicket
  <2> QED
    BY <1>3, <2>1, <2>3
<1> QED
  BY <1>4, <1>5, <1>6

LEMMA PlanKeeps ==
  ASSUME DownloadInv, NEW c \in Clients, ZipList(c) \/ ZipLook(c)
  PROVE  DownloadInv'
<1>0. PICK r \in Requester : r = client[c] /\ ArchiveOK(r) /\ FileOK(r)
  BY Requests
<1>a. /\ r.at \in {"out", "ticket", "plan", "entry", "data", "ended", "broken"} /\ r.seen \subseteq Content
      /\ r.k \in Nat /\ r.entries \in Seq(PlanEntry)
  BY DEF Requester
<1>1. CASE ZipList(c)
  <2> DEFINE n == [r EXCEPT !.at = "plan", !.seen = arrived]
  <2>1. /\ r.at = "ticket" /\ r.kind = "zip" /\ Serve(c, n) /\ Still /\ active' = active
    BY <1>0, <1>1 DEF ZipList
  <2>2. arrived \subseteq Content
    BY DEF DownloadInv
  <2>3. /\ n \in Requester /\ n.at = "plan" /\ n.kind = "zip" /\ n.seen = arrived /\ n.entries = r.entries
        /\ n.k = r.k /\ n.where = r.where /\ n.sent = r.sent /\ n.holes = r.holes
    BY <2>1, <2>2 DEF Requester
  <2> HIDE DEF n
  <2>4. ArchiveOK(n) /\ FileOK(n) /\ ~Archiving(n) /\ ~Archiving(client[c])
    BY <1>0, <2>1, <2>3 DEF ArchiveOK, FileOK, Archiving
  <2> QED
    BY <2>1, <2>3, <2>4, ServeKeeps
<1>2. CASE ZipLook(c)
  <2>1. r.at = "plan" /\ r.k <= Len(Listing) /\ Still /\ active' = active
    BY <1>0, <1>2 DEF ZipLook
  <2>2. r.kind = "zip"
    BY <1>0, <2>1 DEF FileOK, Requester
  <2>3. /\ ~r.holes /\ Planned(r.entries) /\ Complete(r.entries) /\ r.seen \subseteq arrived
        /\ r.where = <<>> /\ r.sent = 0 /\ r.k # 0
    BY <1>0, <2>1, <2>2 DEF ArchiveOK
  <2> DEFINE f == Listing[r.k]
             p == IF Fit(c, f) THEN Append64(r.entries, f, Length[f]) ELSE r.entries
             n == [r EXCEPT !.k = r.k + 1, !.entries = p]
  <2>4. f \in Content /\ Length[f] \in Nat
    <3>1. r.k \in 1..Len(Listing)
      BY <1>a, <2>1, <2>3, DownloadAssumption
    <3>2. f \in Content
      BY <3>1 DEF Content
    <3> QED
      BY <3>2, DownloadAssumption
  <2>5. p \in Seq(PlanEntry) /\ Planned(p) /\ Complete(p)
    <3>1. Fit(c, f) => f \in arrived
      BY <1>0, <2>3 DEF Fit
    <3> HIDE DEF f
    <3> QED
      BY <1>a, <2>3, <2>4, <3>1, AppendPlans
  <2>6. Serve(c, n)
    BY <1>0, <1>2 DEF ZipLook, Serve
  <2> HIDE DEF p
  <2>7. /\ n \in Requester /\ n.at = "plan" /\ n.kind = "zip" /\ n.seen = r.seen /\ n.entries = p
        /\ n.k = r.k + 1 /\ n.where = r.where /\ n.sent = r.sent /\ n.holes = r.holes
    <3>1. r.k + 1 \in Nat
      BY <1>a
    <3>2. n \in Requester
      BY <2>5, <3>1 DEF Requester
    <3>3. /\ n.at = r.at /\ n.kind = r.kind /\ n.seen = r.seen
          /\ n.where = r.where /\ n.sent = r.sent /\ n.holes = r.holes
      BY DEF Requester
    <3>4. n.entries = p /\ n.k = r.k + 1
      BY DEF Requester
    <3> QED
      BY <2>1, <2>2, <3>2, <3>3, <3>4
  <2> HIDE DEF n
  <2>8. ArchiveOK(n) /\ FileOK(n) /\ ~Archiving(n) /\ ~Archiving(client[c])
    BY <1>0, <1>a, <2>1, <2>3, <2>5, <2>7 DEF ArchiveOK, FileOK, Archiving
  <2> QED
    BY <2>1, <2>6, <2>7, <2>8, ServeKeeps
<1> QED
  BY <1>1, <1>2

(* Leaving, or breaking off.                                               *)
LEMMA GoneKeepsDownloads ==
  ASSUME DownloadInv, NEW c \in Clients, NEW n \in {Idle, [Idle EXCEPT !.at = "broken"]}, Serve(c, n), Still,
         active' = IF Archiving(client[c]) THEN active - 1 ELSE active
  PROVE  DownloadInv'
<1>1. n \in Requester /\ n.at \in {"out", "broken"} /\ n.kind = "zip"
  BY IdleRequest DEF Requester
<1>2. ArchiveOK(n) /\ FileOK(n) /\ ~Archiving(n)
  BY <1>1 DEF ArchiveOK, FileOK, Archiving
<1> QED
  BY <1>1, <1>2, ServeKeeps

LEMMA StartKeepsDownloads ==
  ASSUME DownloadInv, NEW c \in Clients, ZipStart(c)
  PROVE  DownloadInv'
<1>0. PICK r \in Requester : r = client[c] /\ ArchiveOK(r) /\ FileOK(r)
  BY Requests
<1>1. r.at = "plan" /\ Still /\ ~Archiving(client[c])
  BY <1>0 DEF ZipStart, Archiving
<1>2. r.kind = "zip" /\ r.entries \in Seq(PlanEntry)
  BY <1>0, <1>1 DEF FileOK, Requester
<1>3. ~r.holes /\ Planned(r.entries) /\ Complete(r.entries) /\ r.where = <<>> /\ r.sent = 0
  BY <1>0, <1>1, <1>2 DEF ArchiveOK
<1>4. CASE r.entries = <<>> \/ active >= Parallel
  BY <1>0, <1>1, <1>4, GoneKeepsDownloads DEF ZipStart
<1>5. CASE ~(r.entries = <<>> \/ active >= Parallel)
  <2> DEFINE t == Total(r.entries)
             n == [r EXCEPT !.at = "entry", !.k = 1, !.seen = {}, !.total = t]
  <2>1. t \in Nat
    BY <1>2, PlanLengths
  <2>2. active' = active + 1 /\ Serve(c, n)
    BY <1>0, <1>5 DEF ZipStart
  <2>3. active < Parallel
    <3>1. active \in Nat /\ Parallel \in Nat
      BY FS_CardinalityType, DownloadAssumption DEF DownloadInv, ActiveCounted
    <3> QED
      BY <1>5, <3>1
  <2> HIDE DEF t
  <2>4. /\ n \in Requester /\ n.at = "entry" /\ n.kind = r.kind /\ n.k = 1 /\ n.seen = {} /\ n.total = t
        /\ n.entries = r.entries /\ n.where = r.where /\ n.sent = r.sent /\ n.holes = r.holes
    BY <2>1 DEF Requester
  <2> HIDE DEF n
  <2>5. Promised(n) /\ HeadersAt(n, 0) /\ n.sent = Begins(n.entries, 1) /\ 1 \in 1..(Len(n.entries) + 1)
    BY <1>2, <1>3, <1>5, <2>4 DEF Promised, HeadersAt, Begins, t
  <2>6. ArchiveOK(n) /\ FileOK(n) /\ Archiving(n)
    BY <1>2, <1>3, <2>4, <2>5 DEF ArchiveOK, FileOK, Archiving
  <2> QED
    BY <1>1, <2>2, <2>3, <2>4, <2>6, ServeKeeps
<1> QED
  BY <1>4, <1>5

(* What an archive that is being sent has.                                 *)
LEMMA Sending ==
  ASSUME DownloadInv, NEW c \in Clients, client[c].at \in {"entry", "data"},
         client[c].at = "data" => client[c].kind = "zip"
  PROVE  \E r \in Requester :
           /\ r = client[c] /\ r.kind = "zip" /\ Archiving(client[c])
           /\ ~r.holes /\ Planned(r.entries) /\ Complete(r.entries) /\ r.seen \subseteq arrived /\ Promised(r)
           /\ r.entries \in Seq(PlanEntry) /\ r.where \in Seq(Nat) /\ r.k \in Nat /\ r.sent \in Nat /\ r.pos \in Nat
           /\ r.at = "entry" => /\ r.k \in 1..(Len(r.entries) + 1)
                                /\ HeadersAt(r, r.k - 1) /\ r.sent = Begins(r.entries, r.k)
           /\ r.at = "data" => /\ r.k \in 1..Len(r.entries) /\ HeadersAt(r, r.k)
                               /\ r.pos <= r.entries[r.k].size
                               /\ r.sent = r.entries[r.k].off + LocalLen(r.entries[r.k]) + r.pos
<1>0. PICK r \in Requester : r = client[c] /\ ArchiveOK(r) /\ FileOK(r)
  BY Requests
<1>1. r.kind = "zip" /\ Archiving(client[c])
  BY <1>0 DEF FileOK, Requester, Archiving
<1>2. r.entries \in Seq(PlanEntry) /\ r.where \in Seq(Nat) /\ r.k \in Nat /\ r.sent \in Nat /\ r.pos \in Nat
  BY DEF Requester
<1> QED
  BY <1>0, <1>1, <1>2 DEF ArchiveOK

LEMMA OpenKeepsDownloads ==
  ASSUME DownloadInv, NEW c \in Clients, ZipOpen(c)
  PROVE  DownloadInv'
<1>1. client[c].at = "entry" /\ client[c].k <= Len(client[c].entries) /\ Still
  BY DEF ZipOpen
<1>0. PICK r \in Requester :
        /\ r = client[c] /\ r.kind = "zip" /\ Archiving(client[c])
        /\ ~r.holes /\ Planned(r.entries) /\ Complete(r.entries) /\ r.seen \subseteq arrived /\ Promised(r)
        /\ r.entries \in Seq(PlanEntry) /\ r.where \in Seq(Nat) /\ r.k \in Nat /\ r.sent \in Nat /\ r.pos \in Nat
        /\ r.k \in 1..(Len(r.entries) + 1) /\ HeadersAt(r, r.k - 1) /\ r.sent = Begins(r.entries, r.k)
  BY <1>1, Sending
<1>2. r.k \in 1..Len(r.entries)
  BY <1>0, <1>1
<1> DEFINE e == r.entries[r.k]
<1>3. e \in PlanEntry /\ LocalLen(e) \in 1..2 /\ e.size \in Nat /\ e.off \in Nat
  <2>1. e \in PlanEntry
    BY <1>0, <1>2
  <2> HIDE DEF e
  <2> QED
    BY <2>1, EntryLengths
<1>4. CASE Current(c).f \in gone
  BY <1>0, <1>1, <1>4, GoneKeepsDownloads DEF ZipOpen, Break
<1>5. CASE Current(c).f \notin gone
  <2> DEFINE w == Append(r.where, r.sent)
             m == r.sent + LocalLen(e)
             n == [r EXCEPT !.at = "data", !.pos = 0, !.where = w, !.sent = m]
  <2>1. Serve(c, n) /\ active' = active
    BY <1>0, <1>5 DEF ZipOpen, Current
  <2>2. w \in Seq(Nat) /\ m \in Nat
    BY <1>0, <1>3
  <2>3. r.sent = e.off
    BY <1>0, <1>2 DEF Planned
  <2>4. Len(w) = r.k /\ \A i \in 1..r.k : w[i] = r.entries[i].off
    <3>1. Len(r.where) = r.k - 1 /\ \A i \in 1..(r.k - 1) : r.where[i] = r.entries[i].off
      BY <1>0 DEF HeadersAt
    <3>2. Len(w) = r.k /\ w[r.k] = r.sent /\ \A i \in 1..(r.k - 1) : w[i] = r.where[i]
      BY <1>0, <1>2, <3>1
    <3> QED
      BY <1>0, <1>2, <2>3, <3>1, <3>2
  <2> HIDE DEF w, m, e
  <2>5. n \in Requester
    BY <2>2 DEF Requester
  <2>6. /\ n.kind = r.kind /\ n.k = r.k /\ n.seen = r.seen /\ n.total = r.total
        /\ n.entries = r.entries /\ n.holes = r.holes
    BY DEF Requester
  <2>7. n.at = "data" /\ n.pos = 0 /\ n.where = w /\ n.sent = m
    BY DEF Requester
  <2> HIDE DEF n
  <2>8. Promised(n) /\ HeadersAt(n, n.k)
    BY <1>0, <2>4, <2>6, <2>7 DEF Promised, HeadersAt
  <2>9. n.pos <= n.entries[n.k].size /\ n.sent = n.entries[n.k].off + LocalLen(n.entries[n.k]) + n.pos
    BY <1>0, <1>3, <2>3, <2>6, <2>7 DEF m, e
  <2>10. ArchiveOK(n) /\ FileOK(n) /\ Archiving(n)
    BY <1>0, <1>2, <2>6, <2>7, <2>8, <2>9 DEF ArchiveOK, FileOK, Archiving
  <2> QED
    BY <1>0, <1>1, <2>1, <2>5, <2>10, ServeKeeps
<1> QED
  BY <1>4, <1>5

LEMMA ChunkKeepsDownloads ==
  ASSUME DownloadInv, NEW c \in Clients, ZipChunk(c) \/ ZipNext(c)
  PROVE  DownloadInv'
<1>1. client[c].at = "data" /\ client[c].kind = "zip" /\ Still
  BY DEF ZipChunk, ZipNext, Streaming
<1>0. PICK r \in Requester :
        /\ r = client[c] /\ r.kind = "zip" /\ Archiving(client[c])
        /\ ~r.holes /\ Planned(r.entries) /\ Complete(r.entries) /\ r.seen \subseteq arrived /\ Promised(r)
        /\ r.entries \in Seq(PlanEntry) /\ r.where \in Seq(Nat) /\ r.k \in Nat /\ r.sent \in Nat /\ r.pos \in Nat
        /\ r.k \in 1..Len(r.entries) /\ HeadersAt(r, r.k) /\ r.pos <= r.entries[r.k].size
        /\ r.sent = r.entries[r.k].off + LocalLen(r.entries[r.k]) + r.pos
  BY <1>1, Sending
<1> DEFINE e == r.entries[r.k]
<1>2. /\ e \in PlanEntry /\ LocalLen(e) \in 1..2 /\ DescriptorLen(e) \in 1..2 /\ e.size \in Nat /\ e.off \in Nat
      /\ After(e) \in Nat
  BY <1>0, EntryLengths
<1>3. CASE ZipChunk(c) /\ r.pos >= onDisk[e.f]
  BY <1>0, <1>1, <1>3, GoneKeepsDownloads DEF ZipChunk, Break, Current
<1>4. CASE ZipChunk(c) /\ ~(r.pos >= onDisk[e.f])
  <2> DEFINE n == [r EXCEPT !.pos = r.pos + 1, !.sent = r.sent + 1, !.holes = FALSE]
  <2>1. e.f \in arrived
    BY <1>0 DEF Complete
  <2>2. r.pos < e.size
    BY <1>0, <1>4 DEF ZipChunk, Current
  <2>3. Serve(c, n) /\ active' = active
    <3>1. (r.holes \/ e.f \notin arrived) = FALSE
      BY <1>0, <2>1 DEF Requester
    <3> QED
      BY <1>0, <1>4, <3>1 DEF ZipChunk, Current, Serve
  <2>a. r.sent = e.off + LocalLen(e) + r.pos
    BY <1>0
  <2>b. r.entries[r.k] = e
    OBVIOUS
  <2> HIDE DEF e
  <2>4. n \in Requester
    <3>1. r.pos + 1 \in Nat /\ r.sent + 1 \in Nat
      BY <1>0
    <3> QED
      BY <3>1 DEF Requester
  <2>5. /\ n.kind = r.kind /\ n.k = r.k /\ n.seen = r.seen /\ n.total = r.total /\ n.at = r.at
        /\ n.entries = r.entries /\ n.where = r.where
    BY DEF Requester
  <2>6. n.pos = r.pos + 1 /\ n.sent = r.sent + 1 /\ ~n.holes
    BY DEF Requester
  <2> HIDE DEF n
  <2>7. Promised(n) /\ HeadersAt(n, n.k)
    BY <1>0, <2>5 DEF Promised, HeadersAt
  <2>8. n.pos <= n.entries[n.k].size /\ n.sent = n.entries[n.k].off + LocalLen(n.entries[n.k]) + n.pos
    <3>1. n.entries[n.k] = e
      BY <2>5, <2>b
    <3>2. r.pos + 1 <= e.size /\ r.sent + 1 = e.off + LocalLen(e) + (r.pos + 1)
      BY <1>0, <1>2, <2>2, <2>a
    <3> QED
      BY <2>6, <3>1, <3>2
  <2>9. ArchiveOK(n) /\ FileOK(n) /\ Archiving(n)
    BY <1>0, <1>1, <2>5, <2>6, <2>7, <2>8 DEF ArchiveOK, FileOK, Archiving
  <2> QED
    BY <1>0, <1>1, <2>3, <2>4, <2>9, ServeKeeps
<1>5. CASE ZipNext(c)
  <2> DEFINE m == r.sent + DescriptorLen(e)
             n == [r EXCEPT !.at = "entry", !.k = r.k + 1, !.sent = m]
  <2>1. r.pos = e.size /\ Serve(c, n) /\ active' = active
    BY <1>0, <1>5 DEF ZipNext, Current, Serve
  <2>a. r.sent = e.off + LocalLen(e) + e.size
    BY <1>0, <2>1
  <2>b. Begins(r.entries, r.k + 1) = After(e)
    <3>1. r.k + 1 # 1 /\ (r.k + 1) - 1 = r.k
      BY <1>0
    <3> QED
      BY <3>1 DEF Begins
  <2>2. m \in Nat /\ m = Begins(r.entries, r.k + 1) /\ r.k + 1 \in 1..(Len(r.entries) + 1)
    <3>1. m \in Nat /\ m = After(e)
      <4> HIDE DEF e
      <4> QED
        BY <1>2, <2>a DEF After
    <3>2. r.k + 1 \in 1..(Len(r.entries) + 1)
      <4>1. Len(r.entries) \in Nat
        BY <1>0
      <4> QED
        BY <1>0, <4>1
    <3> QED
      BY <2>b, <3>1, <3>2
  <2> HIDE DEF m, e
  <2>3. n \in Requester
    <3>1. r.k + 1 \in Nat
      BY <1>0
    <3> QED
      BY <2>2, <3>1 DEF Requester
  <2>4. /\ n.kind = r.kind /\ n.seen = r.seen /\ n.total = r.total /\ n.holes = r.holes
        /\ n.entries = r.entries /\ n.where = r.where
    BY DEF Requester
  <2>5. n.at = "entry" /\ n.k = r.k + 1 /\ n.sent = m
    BY DEF Requester
  <2> HIDE DEF n
  <2>6. n.k - 1 = r.k
    BY <1>0, <2>5
  <2>7. Promised(n) /\ HeadersAt(n, n.k - 1)
    BY <1>0, <2>4, <2>6 DEF Promised, HeadersAt
  <2>8. ArchiveOK(n) /\ FileOK(n) /\ Archiving(n)
    BY <1>0, <2>2, <2>4, <2>5, <2>7 DEF ArchiveOK, FileOK, Archiving
  <2> QED
    BY <1>0, <1>1, <2>1, <2>3, <2>8, ServeKeeps
<1> QED
  BY <1>3, <1>4, <1>5

LEMMA EndKeepsDownloads ==
  ASSUME DownloadInv, NEW c \in Clients, ZipEnd(c)
  PROVE  DownloadInv'
<1>1. client[c].at = "entry" /\ client[c].k > Len(client[c].entries) /\ Still /\ active' = active - 1
  BY DEF ZipEnd
<1>0. PICK r \in Requester :
        /\ r = client[c] /\ r.kind = "zip" /\ Archiving(client[c])
        /\ ~r.holes /\ Planned(r.entries) /\ Complete(r.entries) /\ r.seen \subseteq arrived /\ Promised(r)
        /\ r.entries \in Seq(PlanEntry) /\ r.where \in Seq(Nat) /\ r.k \in Nat /\ r.sent \in Nat /\ r.pos \in Nat
        /\ r.k \in 1..(Len(r.entries) + 1) /\ HeadersAt(r, r.k - 1) /\ r.sent = Begins(r.entries, r.k)
  BY <1>1, Sending
<1>2. r.k = Len(r.entries) + 1 /\ r.k - 1 = Len(r.entries)
  <2>1. PICK m \in Nat : m = Len(r.entries)
    BY <1>0
  <2>2. r.k \in Nat /\ r.k <= m + 1 /\ r.k > m
    BY <1>0, <1>1, <2>1
  <2>3. r.k = m + 1 /\ r.k - 1 = m
    BY <2>2
  <2> QED
    BY <2>1, <2>3
<1> DEFINE m == r.sent + Directory(r.entries) + EndLen(r.entries)
           n == [r EXCEPT !.at = "ended", !.sent = m]
<1>3. Serve(c, n)
  BY <1>0 DEF ZipEnd, Serve
<1>4. m = Total(r.entries) /\ m \in Nat
  BY <1>0, <1>2, PlanLengths
<1> HIDE DEF m
<1>5. n \in Requester
  BY <1>4 DEF Requester
<1>6. /\ n.kind = r.kind /\ n.seen = r.seen /\ n.total = r.total /\ n.holes = r.holes
      /\ n.entries = r.entries /\ n.where = r.where /\ n.at = "ended" /\ n.sent = m
  BY DEF Requester
<1> HIDE DEF n
<1>7. HeadersAt(n, Len(n.entries)) /\ n.sent = n.total
  BY <1>0, <1>2, <1>4, <1>6 DEF HeadersAt, Promised
<1>8. ArchiveOK(n) /\ FileOK(n) /\ ~Archiving(n)
  BY <1>0, <1>6, <1>7 DEF ArchiveOK, FileOK, Archiving
<1> QED
  BY <1>0, <1>1, <1>3, <1>5, <1>8, ServeKeeps

(* One file, from where the client stopped.                                *)
LEMMA FileKeeps ==
  ASSUME DownloadInv, NEW c \in Clients, FileStart(c) \/ FileChunk(c)
  PROVE  DownloadInv'
<1>0. PICK r \in Requester : r = client[c] /\ ArchiveOK(r) /\ FileOK(r)
  BY Requests
<1>1. r.kind = "file" /\ Still /\ active' = active /\ ~Archiving(client[c])
  BY <1>0 DEF FileStart, FileChunk, Archiving
<1>2. /\ r.f \in Content /\ r.sent \in Nat /\ r.pos \in Nat /\ r.total \in Nat /\ r.whole \in BOOLEAN
      /\ r.holes \in BOOLEAN
  BY DEF Requester
<1>3. onDisk[r.f] \in Nat /\ Length[r.f] \in Nat
  BY <1>2, DownloadAssumption DEF DownloadInv
<1>4. /\ r.whole => r.f \in arrived
      /\ r.whole /\ onDisk[r.f] = Length[r.f] /\ r.at \in {"ticket", "data", "ended"} =>
           /\ ~r.holes /\ r.sent <= Length[r.f]
           /\ r.at = "data" => r.total = Length[r.f] /\ r.pos = r.sent
  BY <1>0, <1>1 DEF FileOK
<1>5. CASE FileStart(c)
  <2>1. r.at = "ticket"
    BY <1>0, <1>5 DEF FileStart
  <2>2. CASE r.f \in gone \/ onDisk[r.f] = 0
    BY <1>0, <1>1, <1>5, <2>2, GoneKeepsDownloads DEF FileStart
  <2>3. CASE ~(r.f \in gone \/ onDisk[r.f] = 0)
    <3> DEFINE g == RangeFrom(r.sent, onDisk[r.f])
               start == g.start
               end == g.start + g.count
               n == [r EXCEPT !.at = "data", !.pos = start, !.total = end]
    <3>1. Serve(c, n)
      BY <1>0, <1>5, <2>3 DEF FileStart
    <3>2. /\ start \in Nat /\ end = onDisk[r.f]
          /\ r.sent <= onDisk[r.f] => start = r.sent
      BY <1>2, <1>3 DEF RangeFrom
    <3> HIDE DEF g, start, end
    <3>3. n \in Requester
      BY <1>3, <3>2 DEF Requester
    <3>4. /\ n.kind = r.kind /\ n.f = r.f /\ n.whole = r.whole /\ n.holes = r.holes /\ n.sent = r.sent
          /\ n.at = "data" /\ n.pos = start /\ n.total = end
      BY DEF Requester
    <3> HIDE DEF n
    <3>5. ArchiveOK(n) /\ ~Archiving(n)
      BY <1>1, <3>4 DEF ArchiveOK, Archiving
    <3>6. FileOK(n)
      BY <1>3, <1>4, <2>1, <3>2, <3>4 DEF FileOK
    <3> QED
      BY <1>1, <3>1, <3>3, <3>5, <3>6, ServeKeeps
  <2> QED
    BY <2>2, <2>3
<1>6. CASE FileChunk(c)
  <2>1. r.at = "data"
    BY <1>0, <1>6 DEF FileChunk
  <2>2. PICK n \in Requester :
          /\ Serve(c, n) /\ n.kind = r.kind /\ n.f = r.f /\ n.whole = r.whole
          /\ n.at \in {"ended", "ticket", "data"}
          /\ r.whole /\ onDisk[r.f] = Length[r.f] =>
                /\ ~n.holes /\ n.sent <= Length[r.f]
                /\ n.at = "data" => n.total = Length[r.f] /\ n.pos = n.sent
                /\ n.at = "ended" => n.sent = Length[r.f]
    <3>1. CASE r.pos = r.total
      <4> DEFINE n == [r EXCEPT !.at = "ended"]
      <4>1. Serve(c, n)
        <5>1. ~(r.pos < r.total /\ r.pos >= onDisk[r.f])
          BY <1>2, <3>1
        <5> QED
          BY <1>0, <1>6, <3>1, <5>1 DEF FileChunk, Serve
      <4>2. /\ n \in Requester /\ n.kind = r.kind /\ n.f = r.f /\ n.whole = r.whole /\ n.at = "ended"
            /\ n.sent = r.sent /\ n.holes = r.holes
        BY DEF Requester
      <4> HIDE DEF n
      <4> QED
        BY <1>2, <1>3, <1>4, <2>1, <3>1, <4>1, <4>2
    <3>2. CASE r.pos < r.total /\ r.pos >= onDisk[r.f]
      <4> DEFINE n == [r EXCEPT !.at = "ticket"]
      <4>0. r.pos # r.total
        BY <1>2, <3>2
      <4>1. Serve(c, n)
        BY <1>0, <1>6, <3>2, <4>0 DEF FileChunk
      <4>2. /\ n \in Requester /\ n.kind = r.kind /\ n.f = r.f /\ n.whole = r.whole /\ n.at = "ticket"
            /\ n.sent = r.sent /\ n.holes = r.holes
        BY DEF Requester
      <4> HIDE DEF n
      <4> QED
        BY <1>4, <2>1, <4>1, <4>2
    <3>3. CASE r.pos # r.total /\ ~(r.pos < r.total /\ r.pos >= onDisk[r.f])
      <4> DEFINE h == r.holes \/ r.f \notin arrived \/ r.sent # r.pos
                 n == [r EXCEPT !.pos = r.pos + 1, !.sent = r.sent + 1, !.holes = h]
      <4>1. Serve(c, n)
        BY <1>0, <1>6, <3>3 DEF FileChunk, Serve
      <4>2. h \in BOOLEAN /\ r.pos + 1 \in Nat /\ r.sent + 1 \in Nat
        BY <1>2
      <4>3. r.whole /\ onDisk[r.f] = Length[r.f] => ~h /\ r.sent + 1 <= Length[r.f]
        <5> SUFFICES ASSUME r.whole, onDisk[r.f] = Length[r.f] PROVE ~h /\ r.sent + 1 <= Length[r.f]
          OBVIOUS
        <5>1. ~r.holes /\ r.sent <= Length[r.f] /\ r.total = Length[r.f] /\ r.pos = r.sent /\ r.f \in arrived
          BY <1>4, <2>1
        <5>2. r.sent + 1 <= Length[r.f]
          BY <1>2, <1>3, <3>3, <5>1
        <5> QED
          BY <5>1, <5>2
      <4> HIDE DEF h
      <4>4. n \in Requester
        BY <4>2 DEF Requester
      <4>5. /\ n.kind = r.kind /\ n.f = r.f /\ n.whole = r.whole /\ n.at = r.at /\ n.total = r.total
            /\ n.pos = r.pos + 1 /\ n.sent = r.sent + 1 /\ n.holes = h
        BY DEF Requester
      <4> HIDE DEF n
      <4> QED
        BY <1>4, <2>1, <4>1, <4>3, <4>4, <4>5
    <3> QED
      BY <3>1, <3>2, <3>3
  <2>3. ArchiveOK(n) /\ ~Archiving(n)
    BY <1>1, <2>2 DEF ArchiveOK, Archiving
  <2>4. FileOK(n)
    BY <1>1, <1>4, <2>2 DEF FileOK
  <2> QED
    BY <1>1, <2>2, <2>3, <2>4, ServeKeeps
<1> QED
  BY <1>5, <1>6

LEMMA LeaveKeeps ==
  ASSUME DownloadInv, NEW c \in Clients, Leave(c)
  PROVE  DownloadInv'
<1>0. PICK r \in Requester : r = client[c] /\ ArchiveOK(r) /\ FileOK(r)
  BY Requests
<1>1. Still /\ active' = IF Archiving(client[c]) THEN active - 1 ELSE active
  BY DEF Leave, Streaming, Archiving
<1>2. CASE Serve(c, Idle)
  BY <1>1, <1>2, GoneKeepsDownloads
<1>3. CASE r.kind = "file" /\ r.at = "data" /\ Serve(c, [r EXCEPT !.at = "ticket"])
  <2> DEFINE n == [r EXCEPT !.at = "ticket"]
  <2>1. /\ n \in Requester /\ n.kind = r.kind /\ n.f = r.f /\ n.whole = r.whole /\ n.at = "ticket"
        /\ n.sent = r.sent /\ n.holes = r.holes
    BY DEF Requester
  <2>2. Serve(c, n)
    BY <1>3
  <2> HIDE DEF n
  <2>3. ~Archiving(client[c]) /\ ~Archiving(n) /\ ArchiveOK(n)
    BY <1>0, <1>3, <2>1 DEF Archiving, ArchiveOK
  <2>4. FileOK(n)
    BY <1>0, <1>3, <2>1 DEF FileOK
  <2> QED
    BY <1>1, <2>1, <2>2, <2>3, <2>4, ServeKeeps
<1> QED
  BY <1>0, <1>2, <1>3 DEF Leave

(* The files on disk.                                                      *)
LEMMA FilesKeep ==
  ASSUME DownloadInv, NEW f \in Content, Arrive(f) \/ Vanish(f) \/ \E n \in 0..onDisk[f] : Cutoff(f, n)
  PROVE  DownloadInv'
<1>1. active' = active /\ client' = client
  BY DEF Arrive, Vanish, Cutoff
<1>2. ActiveCounted'
  BY <1>1 DEF DownloadInv, ActiveCounted, Archives, Archiving
<1>3. /\ onDisk' \in [Content -> Nat] /\ gone' \subseteq Content /\ arrived' \subseteq Content /\ arrived \subseteq arrived'
      /\ \A g \in Content : onDisk'[g] <= Length[g]
      /\ \A g \in Content : g \in arrived /\ onDisk'[g] = Length[g] => onDisk[g] = Length[g]
  <2>1. /\ onDisk \in [Content -> Nat] /\ gone \subseteq Content /\ arrived \subseteq Content
        /\ \A g \in Content : onDisk[g] <= Length[g] /\ onDisk[g] \in Nat /\ Length[g] \in Nat
    BY DownloadAssumption DEF DownloadInv
  <2>2. CASE Arrive(f)
    BY <2>1, <2>2 DEF Arrive
  <2>3. CASE Vanish(f)
    BY <2>1, <2>3 DEF Vanish
  <2>4. ASSUME NEW n \in 0..onDisk[f], Cutoff(f, n)
        PROVE  <1>3!:
    BY <2>1, <2>4 DEF Cutoff
  <2> QED
    BY <2>2, <2>3, <2>4
<1>4. ASSUME NEW c \in Clients
      PROVE  (ArchiveOK(client[c]) /\ FileOK(client[c]))'
  <2>1. PICK r \in Requester : r = client[c] /\ ArchiveOK(r) /\ FileOK(r)
    BY Requests
  <2>2. client'[c] = r /\ r.f \in Content
    BY <1>1, <2>1 DEF Requester
  <2>3. ArchiveOK(client[c])'
    BY <1>3, <2>1, <2>2 DEF ArchiveOK, Complete
  <2>4. FileOK(client[c])'
    BY <1>3, <2>1, <2>2 DEF FileOK
  <2> QED
    BY <2>3, <2>4
<1> QED
  BY <1>1, <1>2, <1>3, <1>4 DEF DownloadInv

LEMMA StepDownloads == DownloadInv /\ [DownloadNext]_downloadVars => DownloadInv'
<1> SUFFICES ASSUME DownloadInv, [DownloadNext]_downloadVars PROVE DownloadInv'
  OBVIOUS
<1>1. CASE DownloadNext
  BY <1>1, TicketKeeps, PlanKeeps, StartKeepsDownloads, OpenKeepsDownloads, ChunkKeepsDownloads,
     EndKeepsDownloads, FileKeeps, LeaveKeeps, FilesKeep DEF DownloadNext, ZipStep
<1>2. CASE UNCHANGED downloadVars
  BY <1>2 DEF downloadVars, DownloadInv, ActiveCounted, Archives, Archiving, ArchiveOK, FileOK, Complete
<1> QED
  BY <1>1, <1>2

LEMMA DownloadTyped == DownloadInv => DownloadTypeOK
<1> SUFFICES ASSUME DownloadInv PROVE DownloadTypeOK
  OBVIOUS
<1>1. active \in 0..Parallel
  BY FS_CardinalityType, DownloadAssumption DEF DownloadInv, ActiveCounted
<1> QED
  BY <1>1 DEF DownloadInv, DownloadTypeOK, Requester

(* The variables of the downloads keep their types; zip_active counts the  *)
(* archives that are being sent, and is within its limit.                  *)
THEOREM DownloadTypes == DownloadSpec => []DownloadTypeOK
<1> QED
  BY DownloadTyped, InitDownloads, StepDownloads, PTL DEF DownloadSpec

LEMMA DownloadSays == DownloadInv => DownloadSound
<1> SUFFICES ASSUME DownloadInv, NEW c \in Clients, client[c].at = "ended"
             PROVE  IF client[c].kind = "zip"
                    THEN /\ client[c].sent = client[c].total /\ ~client[c].holes
                         /\ \A i \in 1..Len(client[c].entries) :
                               Found(client[c].entries[i], client[c].where[i])
                    ELSE client[c].whole /\ onDisk[client[c].f] = Length[client[c].f]
                            => ~client[c].holes /\ client[c].sent = Length[client[c].f]
  BY DEF DownloadSound
<1>1. PICK r \in Requester : r = client[c] /\ ArchiveOK(r) /\ FileOK(r)
  BY Requests
<1>2. CASE r.kind = "zip"
  <2>1. r.sent = r.total /\ ~r.holes /\ Planned(r.entries) /\ HeadersAt(r, Len(r.entries))
    BY <1>1, <1>2 DEF ArchiveOK
  <2>2. ASSUME NEW i \in 1..Len(r.entries) PROVE Found(r.entries[i], r.where[i])
    BY <2>1 DEF Found, HeadersAt, Planned, Needs64, Big
  <2> QED
    BY <1>1, <1>2, <2>1, <2>2
<1>3. CASE r.kind = "file"
  BY <1>1, <1>3 DEF FileOK
<1> QED
  BY <1>1, <1>2, <1>3 DEF Requester

(* Archives and files come as they were promised (ZipPlan, _zip_stream,    *)
(* _parse_range), for any number of files of any length, wherever the      *)
(* limits of the plain format are, and whatever happens to the files.      *)
THEOREM DownloadsAreSound == DownloadSpec => []DownloadSound
<1> QED
  BY DownloadSays, InitDownloads, StepDownloads, PTL DEF DownloadSpec
-----------------------------------------------------------------------------
(* The engine as it is model-checked: all parts side by side, one of them  *)
(* at work.  Its steps are steps of that part, and stutters of the others. *)
PartInvs == IInv /\ VolumeInv /\ RetryInv /\ DiscoveryInv /\ DownloadInv

LEMMA CreatorPartSteps == CreatorPart => CreatorNext
<1> SUFFICES ASSUME CreatorPart PROVE CreatorNext
  OBVIOUS
<1>1. CASE LimitsNext
  BY <1>1, EngineInstance
  DEF LimitsNext, CreatorNext, HoldNext, ObserversStep, PollersStep, SaversStep
<1>2. CASE ChecksNext
  BY <1>2 DEF ChecksNext, CreatorNext, HoldNext, ObserversStep, PollersStep
<1>3. CASE HoldingNext
  BY <1>3, EngineInstance DEF HoldingNext, CreatorNext, HoldNext, TorrentStep, PollersStep
<1>4. CASE JobsNext
  BY <1>4 DEF JobsNext, CreatorNext
<1> QED
  BY <1>1, <1>2, <1>3, <1>4 DEF CreatorPart

LEMMA DiscoveryPartSteps == DiscoveryPart => DiscoveryNext
<1>1. \A ts : ts \subseteq Torrents /\ PolicyNext(ts) => DiscoveryNext
  BY DEF PolicyNext, DiscoveryNext
<1> QED
  BY <1>1, EngineInstance DEF DiscoveryPart, DiscoveryNext

LEMMA DownloadsPartSteps == DownloadInv /\ DownloadsNext => DownloadNext
<1> SUFFICES ASSUME DownloadInv, DownloadsNext PROVE DownloadNext
  OBVIOUS
<1>1. CASE \E f \in Content : Cutoff(f, 1)
  <2>1. PICK f \in Content : Cutoff(f, 1)
    BY <1>1
  <2>2. onDisk[f] \in Nat
    BY DEF DownloadInv
  <2>3. 1 \in 0..onDisk[f]
    BY <2>1, <2>2 DEF Cutoff
  <2> QED
    BY <2>1, <2>3 DEF DownloadNext
<1>2. CASE \E f \in Content : Arrive(f) \/ Vanish(f) \/ FileTicket(c1, f)
  BY <1>2, EngineInstance DEF DownloadNext
<1>3. CASE ZipStep(c1) \/ FileStart(c1) \/ FileChunk(c1) \/ Leave(c1)
  BY <1>3, EngineInstance DEF DownloadNext
<1>4. CASE ZipTicket(c2) \/ ZipList(c2) \/ ZipLook(c2) \/ ZipStart(c2) \/ Leave(c2)
  BY <1>4, EngineInstance DEF DownloadNext, ZipStep
<1> QED
  BY <1>1, <1>2, <1>3, <1>4 DEF DownloadsNext

LEMMA PartSteps ==
    PartInvs /\ [EngineNext]_mcVars =>
        /\ [CreatorNext]_creatorVars /\ [VolumeNext]_volumeVars /\ [CopyNext]_copyVars
        /\ [DiscoveryNext]_netVars /\ [DownloadNext]_downloadVars
<1> SUFFICES ASSUME PartInvs, [EngineNext]_mcVars
             PROVE  /\ [CreatorNext]_creatorVars /\ [VolumeNext]_volumeVars /\ [CopyNext]_copyVars
                    /\ [DiscoveryNext]_netVars /\ [DownloadNext]_downloadVars
  OBVIOUS
<1>1. CASE UNCHANGED mcVars
  BY <1>1 DEF mcVars
<1>2. CASE EngineNext
  BY <1>2, CreatorPartSteps, DiscoveryPartSteps, DownloadsPartSteps DEF EngineNext, PartInvs
<1> QED
  BY <1>1, <1>2

LEMMA EngineStep == ~Overlap /\ PartInvs /\ [EngineNext]_mcVars => PartInvs'
<1> SUFFICES ASSUME ~Overlap, PartInvs, [EngineNext]_mcVars PROVE PartInvs'
  OBVIOUS
<1>1. IInv' /\ VolumeInv' /\ RetryInv'
  BY PartSteps, StepIInv, StepVolume, StepRetry DEF PartInvs
<1>2. DiscoveryInv' /\ DownloadInv'
  BY PartSteps, StepDiscovery, StepDownloads DEF PartInvs
<1> QED
  BY <1>1, <1>2 DEF PartInvs

LEMMA EngineStarts == EngineInit => PartInvs
  BY InitIInv, InitVolume, InitRetry, InitDiscovery, InitDownloads DEF EngineInit, PartInvs

(* The variables of all parts of the engine keep their types side by side: *)
(* no part's step is outside the specification its theorems are about.     *)
THEOREM EngineTypes ==
    ASSUME ~Overlap
    PROVE  EngineSpec => []EngineTypeOK
<1>1. PartInvs => EngineTypeOK
  BY VolumeTyped, DownloadTyped DEF PartInvs, EngineTypeOK, IInv, RetryInv, DiscoveryInv
<1> QED
  BY <1>1, EngineStarts, EngineStep, PTL DEF EngineSpec

(* What is promised for each part holds in the engine that is put together *)
(* of them, for every choice of the actors that are left out of a part.    *)
THEOREM EngineIsSound ==
    ASSUME ~Overlap, Alike
    PROVE  EngineSpec => /\ [](CapSound /\ ThreadsAnswer /\ VolumeSound)
                         /\ [](ContentSound /\ StaysPrivate /\ DownloadSound)
                         /\ RetryKeeps
<1>1. EngineInit => CopyInv
  BY InitCopy DEF EngineInit
<1>2. PartInvs /\ CopyInv /\ [EngineNext]_mcVars => CopyInv'
  BY PartSteps, StepCopy
<1>3. PartInvs => CapSound /\ ThreadsAnswer /\ VolumeSound
  BY VolumeSays DEF PartInvs, IInv, CapSound, ThreadsAnswer, TaskOK, MarkOK
<1>4. PartInvs /\ CopyInv => ContentSound /\ StaysPrivate /\ DownloadSound
  BY CopySays, DownloadSays DEF PartInvs, DiscoveryInv
<1>5. PartInvs /\ [EngineNext]_mcVars =>
        [(\A c \in Copiers : copier[c].mode # "stream" /\ ~copier[c].shared)
          => \A p \in Paths : GoodPieces(disk'[p]) >= GoodPieces(disk[p])]_copyVars
  BY PartSteps, StepRetry DEF PartInvs
<1> QED
  BY <1>1, <1>2, <1>3, <1>4, <1>5, EngineStarts, EngineStep, PTL DEF EngineSpec, RetryKeeps
=============================================================================
