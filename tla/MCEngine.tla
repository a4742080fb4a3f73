------------------------------ MODULE MCEngine ------------------------------
(***************************************************************************)
(* Instance of the modules of the engine for TLC.  They share no state, so *)
(* each behaviour runs one of them and leaves the others at their initial  *)
(* states.  The upload hold and the creator are run four times, and peer   *)
(* discovery twice, each time with some of their actors, because all of    *)
(* them together are too many.                                             *)
(***************************************************************************)
EXTENDS Creator, EngineVolume, ContentCopy, PeerDiscovery, Downloads

CONSTANTS h1, h2, k1, c1, c2, f1, f2

ASSUME EngineInstance ==
    h1 \in Hashed /\ h2 \in Torrents /\ k1 \in Jobs /\ c1 \in NetCalls /\ {c1, c2} \subseteq Clients

VARIABLE running    \* the part this behaviour runs

mcSize == [f \in Files |-> 2]
mcPolicies == {Sources, {"dht"}}
mcListing == <<f1, f2>>
mcLength == [f \in {f1, f2} |-> IF f = f1 THEN 1 ELSE 3]
mcVars == <<running, creatorVars, volumeVars, copyVars, netVars, downloadVars>>

EngineInit ==
    /\ running \in {"limits", "checks", "hold", "jobs", "volume", "copy",
                   "policies", "switches", "downloads"}
    /\ CreatorInit /\ VolumeInit /\ CopyInit /\ DiscoveryInit /\ DownloadInit
    /\ running # "volume" => source = "file"
    /\ running \notin {"policies", "switches"} => wanted = Sources
    /\ running # "downloads" => arrived = {} /\ \A f \in Content : onDisk[f] = 0

PollersStep == \E p \in Pollers : PollerStep(p)
ObserversStep == \E o \in Observers : ObserverStep(o)
SaversStep == \E s \in Savers : SaveLook(s) \/ SaverStep(s)

(* One torrent is observed and polled, while limits are set and saved.     *)
LimitsNext ==
    /\ TorrentStep(h1) \/ ObserversStep \/ PollersStep \/ SaversStep \/ \E r \in Rates : SetDesired(r)
    /\ UNCHANGED creatorOwn

(* Two torrents are observed and polled; no limit is set.                  *)
ChecksNext ==
    /\ (\E t \in Hashed : TorrentStep(t)) \/ ObserversStep \/ PollersStep
    /\ UNCHANGED creatorOwn

(* One torrent is polled while one task hashes.                            *)
HoldingNext ==
    \/ (Relabel(h1) \/ Admit(h1) \/ PollersStep) /\ UNCHANGED creatorOwn
    \/ JobStep(k1)

(* Two tasks and one worker.                                               *)
JobsNext == \E k \in Jobs : JobStep(k)

CreatorPart ==
    \/ running = "limits" /\ LimitsNext
    \/ running = "checks" /\ ChecksNext
    \/ running = "hold" /\ HoldingNext
    \/ running = "jobs" /\ JobsNext

(* Two calls of set_net and one torrent; or one call, two torrents, and    *)
(* switches by hand.                                                       *)
PolicyNext(ts) ==
    \/ (\E w \in NetPolicies : ChangePolicy(w)) \/ Restart
    \/ \E t \in ts : AddHandle(t) \/ Registered(t) \/ SaveFlags(t)

DiscoveryPart ==
    \/ running = "policies" /\ (PolicyNext({h2}) \/ \E c \in NetCalls : NetSet(c) \/ NetStep(c))
    \/ running = "switches" /\
          \/ PolicyNext(Torrents) \/ NetSet(c1) \/ NetStep(c1)
          \/ \E s \in Switchers :
                (\E t \in Torrents, on \in {"on", "off", "auto"} : SwitchCall(s, t, on)) \/ SwitchStep(s)

(* One client does everything, the other only takes a place for archives.  *)
DownloadsNext ==
    \/ \E f \in Content : Arrive(f) \/ Vanish(f) \/ FileTicket(c1, f) \/ Cutoff(f, 1)
    \/ ZipStep(c1) \/ FileStart(c1) \/ FileChunk(c1) \/ Leave(c1)
    \/ ZipTicket(c2) \/ ZipList(c2) \/ ZipLook(c2) \/ ZipStart(c2) \/ Leave(c2)

EngineNext ==
    \/ CreatorPart /\ UNCHANGED <<running, volumeVars, copyVars, netVars, downloadVars>>
    \/ running = "volume" /\ VolumeNext
          /\ UNCHANGED <<running, creatorVars, copyVars, netVars, downloadVars>>
    \/ running = "copy" /\ CopyNext
          /\ UNCHANGED <<running, creatorVars, volumeVars, netVars, downloadVars>>
    \/ DiscoveryPart /\ UNCHANGED <<running, creatorVars, volumeVars, copyVars, downloadVars>>
    \/ running = "downloads" /\ DownloadsNext
          /\ UNCHANGED <<running, creatorVars, volumeVars, copyVars, netVars>>

(* The variables of the engine's modules have their types.                 *)
EngineTypeOK ==
    CreatorTypeOK /\ VolumeTypeOK /\ CopyTypeOK /\ DiscoveryTypeOK /\ DownloadTypeOK

(* The fairness of each part; only that part can move.                     *)
EngineSpec ==
    /\ EngineInit /\ [][EngineNext]_mcVars
    /\ \A p \in Pollers : WF_holdVars(running \in {"limits", "checks", "hold"} /\ PollerStep(p))
    /\ \A o \in Observers : WF_holdVars(running \in {"limits", "checks"} /\ ObserverStep(o))
    /\ \A s \in Savers : WF_holdVars(running = "limits" /\ SaverStep(s))
    /\ \A t \in Hashed : WF_holdVars(running \in {"limits", "checks"} /\ GraceOver(t))
    /\ \A k \in Jobs : WF_creatorVars(running \in {"hold", "jobs"} /\ SupervisorStep(k))
    /\ \A k \in Jobs : WF_creatorVars(running \in {"hold", "jobs"} /\ ChildStops(k))
    /\ WF_volumeVars(running = "volume" /\ \E c \in VolCalls : Boot(c))
    /\ WF_volumeVars(running = "volume" /\ Exit)
    /\ \A c \in VolCalls : WF_volumeVars(running = "volume" /\ CallStep(c))
    /\ \A t \in Torrents : WF_netVars(running \in {"policies", "switches"} /\ Registered(t))
    /\ \A c \in NetCalls : WF_netVars(running = "policies" /\ NetSet(c))
    /\ WF_netVars(running = "switches" /\ NetSet(c1))
    /\ \A c \in NetCalls : WF_netVars(running \in {"policies", "switches"} /\ NetStep(c))
    /\ \A s \in Switchers : WF_netVars(running = "switches" /\ SwitchStep(s))
=============================================================================
