--------------------------- MODULE PeerDiscovery ---------------------------
(***************************************************************************)
(* Where the torrents of one engine look for peers (torrent_runtime.py):   *)
(* DHT and LSD are switched for the session, PEX by a flag of each         *)
(* torrent, and a private torrent has all three off.  The policy comes     *)
(* from the orchestrator and is sent again with every registration         *)
(* (module EngineRegistry); it is applied in threads, which read it while  *)
(* the event loop replaces it, adds torrents and switches single ones.     *)
(*                                                                         *)
(* Whether a torrent looks private does not change: a magnet link whose    *)
(* metadata bring the private flag later is left to libtorrent.            *)
(***************************************************************************)
EXTENDS Naturals, FiniteSets

CONSTANTS Torrents,
          Passkey,      \* those with the private flag, or a tracker that looks private
          NetCalls,     \* calls of set_net that may overlap
          Switchers,    \* calls of set_private that may overlap
          NetPolicies,  \* the policies an administrator sets: sets of Sources
          MaxMoves      \* bound on policy changes, manual switches and restarts

Sources == {"dht", "pex", "lsd"}

ASSUME DiscoveryAssumption ==
    /\ Torrents # {} /\ Passkey \subseteq Torrents /\ NetPolicies \subseteq SUBSET Sources /\ MaxMoves \in Nat

VARIABLES
    wanted,    \* the policy the orchestrator keeps
    net,       \* TorrentRuntime._net
    enabled,   \* the session's enable_dht and enable_lsd
    added,     \* [Torrents -> [at, off]]: the handle and its disable_* flags
    fast,      \* the flags in the saved fastresume, {"none"} without a file
    netcall,   \* the calls of set_net
    switch,    \* the calls of set_private
    opened,    \* history: torrents whose private mode was switched off by hand
    moves      \* history: the moves counted by MaxMoves

netVars == <<wanted, net, enabled, added, fast, netcall, switch, opened, moves>>

NoNetCall == [at |-> "idle", todo |-> {}, seen |-> {}]
NoSwitch == [at |-> "idle", t |-> CHOOSE t \in Torrents : TRUE, on |-> "auto", off |-> {}]

(* The environment's defaults, in force until the first registration.      *)
Fresh ==
    /\ net = Sources /\ enabled = {"dht", "lsd"}
    /\ added = [t \in Torrents |-> [at |-> "out", off |-> {}]]
    /\ netcall = [c \in NetCalls |-> NoNetCall] /\ switch = [s \in Switchers |-> NoSwitch]

DiscoveryInit ==
    /\ Fresh /\ wanted \in NetPolicies
    /\ fast = [t \in Torrents |-> {"none"}] /\ opened = {} /\ moves = 0

-----------------------------------------------------------------------------
(* _effective_disable_mask: DHT and LSD only for a private torrent, PEX    *)
(* also when the policy has it off.                                        *)
Mask(private) ==
    IF private THEN Sources ELSE IF "pex" \in net THEN {} ELSE {"pex"}

(* The private flag, or the hints in a tracker's address.                  *)
LooksPrivate(t) == t \in Passkey

(* Mutants of PexOff: the policy alone decides; a flag that was set is not *)
(* taken back.                                                             *)
PexByPolicy(t) == "pex" \notin net
PexOnceOff(t) == t \in Passkey \/ "pex" \notin net \/ "pex" \in added[t].off

(* What set_net decides for each torrent.                                  *)
PexOff(t) == LooksPrivate(t) \/ "pex" \notin net

Counted == moves < MaxMoves /\ moves' = moves + 1

(* The administrator changes the policy; the registration sends it.        *)
ChangePolicy(w) ==
    /\ w # wanted /\ Counted /\ wanted' = w
    /\ UNCHANGED <<net, enabled, added, fast, netcall, switch, opened>>

-----------------------------------------------------------------------------
(* A torrent is added: the flags are computed, or taken from the saved     *)
(* file as they are, and the handle is registered later.                   *)
AddHandle(t) ==
    /\ added[t].at = "out"
    /\ added' = [added EXCEPT ![t] = [at |-> "adding",
                    off |-> IF fast[t] = {"none"} THEN Mask(LooksPrivate(t)) ELSE fast[t]]]
    /\ UNCHANGED <<wanted, net, enabled, fast, netcall, switch, opened, moves>>

Registered(t) ==
    /\ added[t].at = "adding"
    /\ added' = [added EXCEPT ![t].at = "in"]
    /\ UNCHANGED <<wanted, net, enabled, fast, netcall, switch, opened, moves>>

(* The resume data are saved: at the end of an add, or by the save loop.   *)
SaveFlags(t) ==
    /\ added[t].at = "in" /\ fast[t] # added[t].off
    /\ fast' = [fast EXCEPT ![t] = added[t].off]
    /\ UNCHANGED <<wanted, net, enabled, added, netcall, switch, opened, moves>>

(* The engine dies and starts again.                                       *)
Restart ==
    /\ Counted /\ UNCHANGED <<wanted, fast, opened>>
    /\ net' = Sources /\ enabled' = {"dht", "lsd"}
    /\ added' = [t \in Torrents |-> [at |-> "out", off |-> {}]]
    /\ netcall' = [c \in NetCalls |-> NoNetCall] /\ switch' = [s \in Switchers |-> NoSwitch]

-----------------------------------------------------------------------------
(* set_net: the policy is replaced on the event loop, the handles are      *)
(* taken under the lock, the rest is done in a thread.                     *)
NetGo(c, call) ==
    /\ netcall' = [netcall EXCEPT ![c] = call]
    /\ UNCHANGED <<wanted, fast, switch, opened, moves>>

NetSet(c) ==
    /\ netcall[c].at = "idle" /\ net' = wanted
    /\ NetGo(c, [NoNetCall EXCEPT !.at = "take"]) /\ UNCHANGED <<enabled, added>>

NetTake(c) ==
    /\ netcall[c].at = "take"
    /\ NetGo(c, [NoNetCall EXCEPT !.at = "read", !.todo = {t \in Torrents : added[t].at = "in"}])
    /\ UNCHANGED <<net, enabled, added>>

SessionRead(c) ==
    /\ netcall[c].at = "read"
    /\ NetGo(c, [netcall[c] EXCEPT !.at = "apply", !.seen = net \ {"pex"}])
    /\ UNCHANGED <<net, enabled, added>>

SessionApply(c) ==
    /\ netcall[c].at = "apply" /\ enabled' = netcall[c].seen
    /\ NetGo(c, [netcall[c] EXCEPT !.at = "next", !.seen = {}]) /\ UNCHANGED <<net, added>>

(* One torrent after the other: the decision, then the flag.               *)
PexDecide(c) ==
    /\ netcall[c].at = "next"
    /\ IF netcall[c].todo = {} THEN NetGo(c, NoNetCall)
       ELSE \E t \in netcall[c].todo :
               NetGo(c, [netcall[c] EXCEPT !.at = IF PexOff(t) THEN "off" ELSE "on", !.seen = {t}])
    /\ UNCHANGED <<net, enabled, added>>

PexFlag(c) ==
    /\ netcall[c].at \in {"off", "on"}
    /\ LET t == CHOOSE t \in netcall[c].seen : TRUE
           rest == netcall[c].todo \ {t}
       IN  /\ added' = [added EXCEPT ![t].off =
                           IF netcall[c].at = "off" THEN @ \union {"pex"} ELSE @ \ {"pex"}]
           /\ NetGo(c, [NoNetCall EXCEPT !.at = "next", !.todo = rest])
    /\ UNCHANGED <<net, enabled>>

NetStep(c) == NetTake(c) \/ SessionRead(c) \/ SessionApply(c) \/ PexDecide(c) \/ PexFlag(c)

-----------------------------------------------------------------------------
(* set_private: by hand, or as the torrent looks (reapply-private does     *)
(* that for all).  The flags are computed and set in a thread, then saved. *)
SwitchGo(s, call) ==
    /\ switch' = [switch EXCEPT ![s] = call]
    /\ UNCHANGED <<wanted, net, enabled, netcall>>

SwitchCall(s, t, on) ==
    /\ switch[s].at = "idle" /\ added[t].at = "in"
    /\ Counted /\ SwitchGo(s, [at |-> "compute", t |-> t, on |-> on, off |-> {}])
    /\ UNCHANGED <<added, fast, opened>>

SwitchCompute(s) ==
    /\ switch[s].at = "compute"
    /\ LET private == switch[s].on = "on" \/ (switch[s].on = "auto" /\ LooksPrivate(switch[s].t))
       IN  SwitchGo(s, [switch[s] EXCEPT !.at = "set", !.off = Mask(private)])
    /\ UNCHANGED <<added, fast, opened, moves>>

SwitchSet(s) ==
    /\ switch[s].at = "set"
    /\ added' = [added EXCEPT ![switch[s].t].off = switch[s].off]
    /\ opened' = IF switch[s].on = "off" THEN opened \union {switch[s].t} ELSE opened
    /\ SwitchGo(s, [switch[s] EXCEPT !.at = "save"]) /\ UNCHANGED <<fast, moves>>

(* Only now the torrent counts as closed again: the saved flags return     *)
(* after a restart.                                                        *)
SwitchSave(s) ==
    /\ switch[s].at = "save"
    /\ fast' = [fast EXCEPT ![switch[s].t] = added[switch[s].t].off]
    /\ opened' = IF fast'[switch[s].t] = Sources THEN opened \ {switch[s].t} ELSE opened
    /\ SwitchGo(s, NoSwitch) /\ UNCHANGED <<added, moves>>

SwitchStep(s) == SwitchCompute(s) \/ SwitchSet(s) \/ SwitchSave(s)

-----------------------------------------------------------------------------
DiscoveryNext ==
    \/ (\E w \in NetPolicies : ChangePolicy(w)) \/ Restart
    \/ \E t \in Torrents : AddHandle(t) \/ Registered(t) \/ SaveFlags(t)
    \/ \E c \in NetCalls : NetSet(c) \/ NetStep(c)
    \/ \E s \in Switchers :
          (\E t \in Torrents, on \in {"on", "off", "auto"} : SwitchCall(s, t, on)) \/ SwitchStep(s)

(* Registrations come again and again, and threads go on.                  *)
DiscoverySpec ==
    /\ DiscoveryInit /\ [][DiscoveryNext]_netVars
    /\ \A t \in Torrents : WF_netVars(Registered(t))
    /\ \A c \in NetCalls : WF_netVars(NetSet(c)) /\ WF_netVars(NetStep(c))
    /\ \A s \in Switchers : WF_netVars(SwitchStep(s))

DiscoveryTypeOK ==
    /\ wanted \in NetPolicies /\ net \subseteq Sources /\ enabled \subseteq {"dht", "lsd"}
    /\ added \in [Torrents -> [at : {"out", "adding", "in"}, off : SUBSET Sources]]
    /\ fast \in [Torrents -> (SUBSET Sources) \union {{"none"}}]
    /\ netcall \in [NetCalls -> [at : {"idle", "take", "read", "apply", "next", "off", "on"},
                                 todo : SUBSET Torrents, seen : SUBSET (Sources \union Torrents)]]
    /\ switch \in [Switchers -> [at : {"idle", "compute", "set", "save"}, t : Torrents,
                                 on : {"on", "off", "auto"}, off : SUBSET Sources]]
    /\ opened \subseteq Torrents /\ moves \in 0..MaxMoves

(* A torrent that looks private never joins DHT, PEX or LSD, whatever      *)
(* policies come and however they meet its adding and a restart, unless    *)
(* its private mode was switched off by hand.                              *)
StaysPrivate ==
    \A t \in Passkey \ opened : added[t].at # "out" => added[t].off = Sources

(* Once the administrator is done, the session and the PEX flag of every   *)
(* other torrent come to what the policy says and stay there: threads that *)
(* write what they read before a change are overtaken by a later           *)
(* registration.                                                           *)
PolicyArrives ==
    <>[](/\ enabled = wanted \ {"pex"}
         /\ \A t \in Torrents : added[t].at = "in" =>
                ("pex" \in added[t].off <=> t \in Passkey \/ "pex" \notin wanted))
=============================================================================
