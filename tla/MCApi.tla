------------------------------- MODULE MCApi -------------------------------
(***************************************************************************)
(* Instance of the modules of the orchestrator for TLC.  They share no     *)
(* state, so each behaviour runs one of them, with some of its actors, and *)
(* leaves the others at one of their initial states.                       *)
(***************************************************************************)
EXTENDS ContentUpload, Accounts, EngineRegistry, Hub, Accounting, CreatorDesk,
        Backups, Alerts

CONSTANTS k1, a1, a2, q1, q2

ASSUME ApiInstance ==
    {a1, a2} \subseteq Callers /\ {q1, q2} \subseteq Deleters

VARIABLE running    \* the part this behaviour runs

mcVars == <<running, uploadVars, accountsVars, registryVars, hubVars, accountingVars,
            deskVars, backupVars, alertVars>>

mcHidden == [o \in {"db_down"} |-> {"torrents_error"}]

RegistryParts == {"registry", "policies"}
AccountsParts == {"admins", "logins"}
HubParts == {"polled", "pushed"}
AccountingParts == {"totals", "quota-moves", "quota-deaths", "chart"}
DeskParts == {"deletions", "seeding"}
BackupParts == {"nights", "dumps"}

-----------------------------------------------------------------------------
(* The initial states of each part, and one for a part that does not run.  *)
OneFreshName == final = Nothing
OneAdmin == /\ user[1].role = "admin" /\ user[2].role = "operator"
            /\ key[k1].role = "admin"

ApiInit ==
    /\ running \in {"upload", "alerts"} \union AccountsParts \union RegistryParts \union HubParts
                   \union AccountingParts \union DeskParts \union BackupParts
    /\ UploadInit /\ AccountsInit /\ RegistryInit /\ HubInit /\ AccountingInit
    /\ DeskInit /\ BackupsInit /\ AlertsInit
    /\ running = "upload" \/ OneFreshName
    /\ running = "admins" \/ OneAdmin
    /\ running = "policies" \/ policy = 0
    /\ running \in {"totals", "chart"} \/ trow.engine = "e1"

-----------------------------------------------------------------------------
(* Accounts, keys and their roles, without passwords and sessions, up to   *)
(* the first overlap; and one login beside one administrator.              *)
AdminsNext ==
    /\ ~overlapped
    /\ Creation \/ \E r \in Callers : UserStep(r) \/ KeyStep(r)
    /\ \A u \in UserIds : user'[u].pw = 0

LoginsNext ==
    /\ LoginStep(a1) \/ UserStep(a2) \/ \E t \in Tokens : SessionStep(t)
    /\ UNCHANGED user[1]

(* The registry, the pool and the limits; and the policy beside them.      *)
LimitsNext == RegistryNext /\ UNCHANGED <<policy, cast>>
PoliciesNext == RegistryNext /\ UNCHANGED <<set, sweep>>

(* One channel at a time: a polled one that changes once, or a pushed one. *)
SocketStep ==
    \/ \E i \in Conns : ConnStep(i) \/ Refuse(i)
    \/ Connect \/ Drop

PolledNext ==
    \/ SocketStep
    \/ \E c \in Polled :
          \/ toggles < 2 /\ (Listen(c) \/ Leave(c))
          \/ world[c] = 0 /\ Change(c)
          \/ \E p \in Publishers : PublisherStep(p, c)

PushedNext ==
    \/ SocketStep
    \/ \E c \in Pushed : Listen(c) \/ Leave(c) \/ Push(c)

(* The row's total, the quota of a torrent that moves once or whose engine *)
(* dies, and the chart.                                                    *)
TotalsNext == MoveEnd \/ SnapshotStep \/ \E e \in Nodes : EngineMoves(e)
QuotaMovesNext ==
    \/ MoveEnd \/ WorkerStep \/ QuotaStep
    \/ \E e \in Nodes : Upload(e) \/ (hist.moves = 0 /\ MoveBegin(e)) \/ UpdateEngine(e)
QuotaDeathsNext ==
    \/ WorkerStep \/ QuotaStep
    \/ \E e \in Nodes : Upload(e) \/ SaveCounter(e) \/ EngineDies(e)
ChartNext == MoveEnd \/ Sample \/ \E e \in Nodes : EngineMoves(e)

-----------------------------------------------------------------------------
AccountsPart == (running = "admins" /\ AdminsNext) \/ (running = "logins" /\ LoginsNext)
RegistryPart ==
    (running = "registry" /\ LimitsNext) \/ (running = "policies" /\ PoliciesNext)
HubPart == (running = "polled" /\ PolledNext) \/ (running = "pushed" /\ PushedNext)
AccountingPart ==
    \/ running = "totals" /\ TotalsNext
    \/ running = "quota-moves" /\ QuotaMovesNext
    \/ running = "quota-deaths" /\ QuotaDeathsNext
    \/ running = "chart" /\ ChartNext

(* The creation queue: two DELETE requests, or one beside a seed request.  *)
DeskPart ==
    \/ running = "deletions" /\ DeskNext /\ UNCHANGED seeder /\ \A t \in shelf' : ~t.done
    \/ running = "seeding" /\ DeskNext /\ UNCHANGED deleter[q2]

BackupPart == (running = "nights" /\ NightNext) \/ (running = "dumps" /\ DatabaseNext)

ApiNext ==
    \/ /\ running = "upload" /\ UploadNext
       /\ UNCHANGED <<accountsVars, registryVars, hubVars, accountingVars, deskVars,
                      backupVars, alertVars, running>>
    \/ /\ AccountsPart
       /\ UNCHANGED <<uploadVars, registryVars, hubVars, accountingVars, deskVars,
                      backupVars, alertVars, running>>
    \/ /\ RegistryPart
       /\ UNCHANGED <<uploadVars, accountsVars, hubVars, accountingVars, deskVars,
                      backupVars, alertVars, running>>
    \/ /\ HubPart
       /\ UNCHANGED <<uploadVars, accountsVars, registryVars, accountingVars, deskVars,
                      backupVars, alertVars, running>>
    \/ /\ AccountingPart
       /\ UNCHANGED <<uploadVars, accountsVars, registryVars, hubVars, deskVars,
                      backupVars, alertVars, running>>
    \/ /\ DeskPart
       /\ UNCHANGED <<uploadVars, accountsVars, registryVars, hubVars, accountingVars,
                      backupVars, alertVars, running>>
    \/ /\ BackupPart
       /\ UNCHANGED <<uploadVars, accountsVars, registryVars, hubVars, accountingVars,
                      deskVars, alertVars, running>>
    \/ /\ running = "alerts" /\ AlertsNext
       /\ UNCHANGED <<uploadVars, accountsVars, registryVars, hubVars, accountingVars,
                      deskVars, backupVars, running>>

(* The variables of the orchestrator's modules have their types.           *)
ApiTypeOK ==
    /\ UploadTypeOK /\ AccountsTypeOK /\ RegistryTypeOK
    /\ HubTypeOK /\ AccountingTypeOK /\ DeskTypeOK
    /\ BackupsTypeOK /\ AlertsTypeOK

(* The fairness of RegistrySpec, HubSpec, DeskSpec and AlertsSpec.  In the  *)
(* initial state of a part that does not run only two loops could go on.   *)
ApiSpec ==
    /\ ApiInit /\ [][ApiNext]_mcVars
    /\ EnginesFairness /\ WF_registryVars(running \in RegistryParts /\ RefreshRead("loop"))
    /\ HubFairness /\ DeskFairness
    /\ WF_alertVars(running = "alerts" /\ RoundStep)
=============================================================================
