--------------------------- MODULE EngineRegistry ---------------------------
(***************************************************************************)
(* How the orchestrator knows its engines: the registry in the database,   *)
(* filled by the engines' own registrations, the pool of clients that is   *)
(* built from it, the limits that are kept for an engine and sent to it,   *)
(* and the policy (peer discovery, unchoking, checks at once) that is kept *)
(* for all of them (engine_pool.py, routers/engines.py, network.py and     *)
(* settings.py, the engine's main.py).                                     *)
(*                                                                         *)
(* Refreshes of the pool run concurrently: each reads the registry, awaits *)
(* and installs what it read.  An engine may die and come back without its *)
(* limit, at another address, or be cut off and keep it.                   *)
(***************************************************************************)
EXTENDS Naturals, FiniteSets

CONSTANTS Engines,
          Static,      \* the engines of engines.json; they are never evicted
          Urls, Home,  \* addresses, and the one engines.json gives
          Rates,       \* limits; 0 is none (NULL)
          Policies,    \* policies; 0 is the default of an engine
          MaxMoves,    \* bound on deaths and cuts
          MaxSets      \* bound on requests that change limits or the policy

ASSUME RegistryAssumption ==
    /\ Static \subseteq Engines /\ Home \in Urls /\ "none" \notin Urls
    /\ Rates \subseteq Nat /\ 0 \in Rates /\ Policies \subseteq Nat /\ 0 \in Policies
    /\ "loop" \notin Engines /\ MaxMoves \in Nat /\ MaxSets \in Nat

VARIABLES
    rec,       \* table engines: last_seen as "seen" or "stale", url, limit
    pool,      \* EnginePool._by_id: the address of the client, or "none"
    eng,       \* the engines
    policy,    \* app_settings: net_policy, unchoke_policy, work_limits
    reg,       \* register_engine at work for an engine: its place and what it read
    rd,        \* refreshes that have read the registry, of a handler or of the loop
    set,       \* set_engine_limits that is committed but not applied
    sweep,     \* set_session_limits_all: the engines it still has to call
    cast,      \* policies on their way to the engines
    moves, sets

registryVars == <<rec, pool, eng, policy, reg, rd, set, sweep, cast, moves, sets>>

Refreshers == Engines \union {"loop"}
NoRec == [st |-> "none", url |-> Home, lim |-> 0]
NotReading == [e \in Engines |-> "idle"]
NoReg == [at |-> "idle", lim |-> 0, pol |-> 0]
NoSet == [on |-> FALSE, who |-> "", lim |-> 0]

RegistryInit ==
    /\ rec = [e \in Engines |-> NoRec]
    /\ pool = [e \in Engines |-> IF e \in Static THEN Home ELSE "none"]
    /\ eng = [e \in Engines |-> [st |-> "down", url |-> Home, lim |-> 0, pol |-> 0]]
    /\ policy \in Policies
    /\ reg = [e \in Engines |-> NoReg]
    /\ rd = [p \in Refreshers |-> NotReading]
    /\ set = NoSet
    /\ sweep = [left |-> {}, lim |-> 0] /\ cast = {}
    /\ moves = 0 /\ sets = 0

(* A call to an engine arrives if the pool has its present address.        *)
Reached(e) == pool[e] = eng[e].url /\ eng[e].st = "up"
Limited(e, lim) == IF Reached(e) THEN [eng EXCEPT ![e].lim = lim] ELSE eng
Ruled(e, pol) == IF Reached(e) THEN [eng EXCEPT ![e].pol = pol] ELSE eng

-----------------------------------------------------------------------------
(* upsert and commit of register_engine: the row is fresh and has the      *)
(* engine's address; its limit is kept, and remembered by the handler.     *)
Register(e) ==
    /\ eng[e].st = "up" /\ reg[e].at = "idle"
    /\ rec' = [rec EXCEPT ![e] = [@ EXCEPT !.st = "seen", !.url = eng[e].url]]
    /\ reg' = [reg EXCEPT ![e] = [NoReg EXCEPT !.at = "refresh", !.lim = rec[e].lim]]
    /\ UNCHANGED <<pool, eng, policy, rd, set, sweep, cast, moves, sets>>

(* list_enabled, _evict_stale and _merge_specs.                            *)
Listed ==
    [e \in Engines |->
        IF rec[e].st = "seen" \/ (e \in Static /\ rec[e].st # "none") THEN rec[e].url
        ELSE IF e \in Static THEN Home ELSE "none"]

RefreshRead(p) ==
    /\ rd[p] = NotReading
    /\ p \in Engines => reg[p].at = "refresh"
    /\ rd' = [rd EXCEPT ![p] = Listed]
    /\ UNCHANGED <<rec, pool, eng, policy, reg, set, sweep, cast, moves, sets>>

RefreshInstall(p) ==
    /\ rd[p] # NotReading
    /\ pool' = rd[p]
    /\ rd' = [rd EXCEPT ![p] = NotReading]
    /\ reg' = IF p \in Engines THEN [reg EXCEPT ![p].at = "apply"] ELSE reg
    /\ UNCHANGED <<policy, rec, eng, set, sweep, cast, moves, sets>>

(* Mutant of Reapply: the limit of the row is not sent.                    *)
ReapplyNothing(e) ==
    /\ reg[e].at = "apply"
    /\ reg' = [reg EXCEPT ![e] = [NoReg EXCEPT !.at = "policy"]]
    /\ UNCHANGED <<rec, pool, eng, policy, rd, set, sweep, cast, moves, sets>>

(* register_engine goes on: a limit that is there is sent again.           *)
Reapply(e) ==
    /\ reg[e].at = "apply"
    /\ eng' = IF reg[e].lim # 0 THEN Limited(e, reg[e].lim) ELSE eng
    /\ reg' = [reg EXCEPT ![e] = [NoReg EXCEPT !.at = "policy"]]
    /\ UNCHANGED <<rec, pool, policy, rd, set, sweep, cast, moves, sets>>

(* At last the policy is read, and sent in any case.                       *)
PolicyRead(e) ==
    /\ reg[e].at = "policy"
    /\ reg' = [reg EXCEPT ![e] = [NoReg EXCEPT !.at = "send", !.pol = policy]]
    /\ UNCHANGED <<rec, pool, eng, policy, rd, set, sweep, cast, moves, sets>>

PolicySend(e) ==
    /\ reg[e].at = "send"
    /\ eng' = Ruled(e, reg[e].pol)
    /\ reg' = [reg EXCEPT ![e] = NoReg]
    /\ UNCHANGED <<rec, pool, policy, rd, set, sweep, cast, moves, sets>>

-----------------------------------------------------------------------------
(* set_engine_limits, and set_wan_limits for each engine of a link: the    *)
(* row first, made for an engine of engines.json that has none; then the   *)
(* engine, whose silence is no error.                                      *)
SetLimits(e, lim) ==
    /\ ~set.on /\ sets < MaxSets /\ pool[e] # "none"
    /\ rec' = [rec EXCEPT ![e] = IF @.st = "none" THEN [st |-> "seen", url |-> pool[e], lim |-> lim]
                                 ELSE [@ EXCEPT !.lim = lim]]
    /\ set' = [on |-> TRUE, who |-> e, lim |-> lim]
    /\ sets' = sets + 1
    /\ UNCHANGED <<pool, eng, policy, reg, rd, sweep, cast, moves>>

SetApply ==
    /\ set.on
    /\ eng' = Limited(set.who, set.lim)
    /\ set' = NoSet
    /\ UNCHANGED <<rec, pool, policy, reg, rd, sweep, cast, moves, sets>>

(* set_session_limits_all: the sessions only.  An engine that has left the *)
(* pool since ends it with a KeyError.                                     *)
SweepStart(lim) ==
    /\ sweep.left = {} /\ sets < MaxSets
    /\ sweep' = [left |-> {e \in Engines : pool[e] # "none"}, lim |-> lim]
    /\ sets' = sets + 1
    /\ UNCHANGED <<rec, pool, eng, policy, reg, rd, set, cast, moves>>

SweepCall(e) ==
    /\ e \in sweep.left
    /\ eng' = Limited(e, sweep.lim)
    /\ sweep' = [sweep EXCEPT !.left = IF pool[e] = "none" THEN {} ELSE @ \ {e}]
    /\ UNCHANGED <<rec, pool, policy, reg, rd, set, cast, moves, sets>>

(* set_net_settings, set_unchoke_settings, set_work_queues: the policy is  *)
(* saved and sent to every engine of the pool, by several requests at once. *)
SetPolicy(pol) ==
    /\ sets < MaxSets
    /\ policy' = pol
    /\ cast' = cast \union {[to |-> e, pol |-> pol] : e \in {f \in Engines : pool[f] # "none"}}
    /\ sets' = sets + 1
    /\ UNCHANGED <<rec, pool, eng, reg, rd, set, sweep, moves>>

CastCall(e) ==
    /\ \E c \in cast : /\ c.to = e
                      /\ eng' = Ruled(e, c.pol)
                      /\ cast' = cast \ {c}
    /\ UNCHANGED <<rec, pool, policy, reg, rd, set, sweep, moves, sets>>

-----------------------------------------------------------------------------
(* The engines: started at an address with their defaults, dead, cut off.  *)
StartEngine(e, url) ==
    /\ eng[e].st = "down"
    /\ eng' = [eng EXCEPT ![e] = [st |-> "up", url |-> url, lim |-> 0, pol |-> 0]]
    /\ UNCHANGED <<rec, pool, policy, reg, rd, set, sweep, cast, moves, sets>>

Fall(e, st) ==
    /\ eng[e].st = "up" /\ moves < MaxMoves
    /\ eng' = [eng EXCEPT ![e].st = st]
    /\ moves' = moves + 1
    /\ UNCHANGED <<rec, pool, policy, reg, rd, set, sweep, cast, sets>>

Heal(e) ==
    /\ eng[e].st = "cut"
    /\ eng' = [eng EXCEPT ![e].st = "up"]
    /\ UNCHANGED <<rec, pool, policy, reg, rd, set, sweep, cast, moves, sets>>

(* Longer than the TTL without a registration.                             *)
Age(e) ==
    /\ eng[e].st # "up" /\ reg[e].at = "idle" /\ rec[e].st = "seen"
    /\ rec' = [rec EXCEPT ![e].st = "stale"]
    /\ UNCHANGED <<pool, eng, policy, reg, rd, set, sweep, cast, moves, sets>>

EngineStep(e) ==
    \/ Register(e) \/ RefreshRead(e) \/ RefreshInstall(e) \/ Reapply(e)
    \/ PolicyRead(e) \/ PolicySend(e) \/ CastCall(e)
    \/ (\E lim \in Rates : SetLimits(e, lim)) \/ SweepCall(e)
    \/ (\E url \in Urls : StartEngine(e, url))
    \/ Fall(e, "down") \/ Fall(e, "cut") \/ Heal(e) \/ Age(e)

OrchestratorStep ==
    \/ RefreshRead("loop") \/ RefreshInstall("loop")
    \/ SetApply \/ (\E lim \in Rates : SweepStart(lim)) \/ \E pol \in Policies : SetPolicy(pol)

RegistryNext == OrchestratorStep \/ \E e \in Engines : EngineStep(e)

(* Engines register again and again, the loop refreshes, requests end.     *)
EnginesFairness ==
    /\ \A e \in Engines : WF_registryVars(Register(e)) /\ WF_registryVars(Reapply(e))
    /\ \A e \in Engines : WF_registryVars(PolicyRead(e)) /\ WF_registryVars(PolicySend(e))
    /\ \A e \in Engines : WF_registryVars(CastCall(e))
    /\ \A e \in Engines : WF_registryVars(Age(e)) /\ WF_registryVars(SweepCall(e))
    /\ \A p \in Refreshers : WF_registryVars(RefreshInstall(p))
    /\ \A e \in Engines : WF_registryVars(RefreshRead(e))
    /\ WF_registryVars(SetApply)

RegistrySpec == RegistryInit /\ [][RegistryNext]_registryVars
                /\ EnginesFairness /\ WF_registryVars(RefreshRead("loop"))

-----------------------------------------------------------------------------
RegistryTypeOK ==
    /\ rec \in [Engines -> [st : {"none", "seen", "stale"}, url : Urls, lim : Rates]]
    /\ pool \in [Engines -> Urls \union {"none"}]
    /\ eng \in [Engines -> [st : {"up", "cut", "down"}, url : Urls, lim : Rates, pol : Policies]]
    /\ policy \in Policies /\ cast \in SUBSET [to : Engines, pol : Policies]
    /\ reg \in [Engines -> [at : {"idle", "refresh", "apply", "policy", "send"}, lim : Rates,
                            pol : Policies]]
    /\ rd \in [Refreshers -> [Engines -> Urls \union {"none", "idle"}]]
    /\ set \in [on : BOOLEAN, who : Engines \union {""}, lim : Rates]
    /\ sweep \in [left : SUBSET Engines, lim : Rates]
    /\ moves \in 0..MaxMoves /\ sets \in 0..MaxSets

(* Whatever deaths, cuts, moves and changed limits came before, the        *)
(* orchestrator ends up calling every engine that runs at its address,     *)
(* without the dynamic engines that are gone, and an engine that runs has  *)
(* the policy, and the limit that is kept for it.  (A limit that was       *)
(* removed while the engine did not answer is not: register_engine sends   *)
(* only what is set.)                                                      *)
RegistryConverges ==
    \A e \in Engines :
        <>[]( /\ eng[e].st = "up" => pool[e] = eng[e].url
              /\ eng[e].st # "up" /\ e \notin Static => pool[e] = "none"
              /\ eng[e].st = "up" /\ rec[e].lim # 0 => eng[e].lim = rec[e].lim
              /\ eng[e].st = "up" => eng[e].pol = policy )
=============================================================================
