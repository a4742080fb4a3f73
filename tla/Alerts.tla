------------------------------- MODULE Alerts -------------------------------
(***************************************************************************)
(* The alert loop of the orchestrator (alerts.py): it asks the database    *)
(* and the engines what is wrong, and tells a webhook what is new and what *)
(* is over.  A source that does not answer is an alert itself and hides    *)
(* the conditions only it could report.                                    *)
(***************************************************************************)
EXTENDS FiniteSets, Naturals

CONSTANTS Outages,      \* db_down, engine_down:<id>, redis_down
          Hidden,       \* [Outages -> the alerts that need the source]
          MaxAlertFaults \* bound on webhook failures and restarts

Alarms == Outages \union UNION {Hidden[o] : o \in Outages}

ASSUME AlertsAssumption ==
    MaxAlertFaults \in Nat /\ \A o \in Outages : Hidden[o] \cap Outages = {}

VARIABLES
    wrong,      \* the conditions that hold
    round,      \* the loop: [at, ask, current, todo]
    known,      \* what it took for told at the end of the last round
    heard,      \* [Alarms -> what the webhook's readers heard last]
    missed,     \* history: those the readers were not told of
    alertFaults

alertVars == <<wrong, round, known, heard, missed, alertFaults>>

Sleeping == [at |-> "sleep", ask |-> {}, current |-> {}, todo |-> {}]

AlertsInit ==
    /\ wrong = {} /\ round = Sleeping /\ known = {}
    /\ heard = [a \in Alarms |-> "nothing"] /\ missed = {} /\ alertFaults = 0

Trouble == alertFaults < MaxAlertFaults /\ alertFaults' = alertFaults + 1

(* What a source tells: that it is down, or its own conditions.            *)
Reports(o) == IF o \in wrong THEN {o} ELSE Hidden[o] \cap wrong
Visible == UNION {Reports(o) : o \in Outages}

-----------------------------------------------------------------------------
Happens(a) ==
    /\ wrong' = IF a \in wrong THEN wrong \ {a} ELSE wrong \union {a}
    /\ UNCHANGED <<round, known, heard, missed, alertFaults>>

(* Mutant of Wakes: a source known as down is not asked again.             *)
WakesForUp ==
    /\ round.at = "sleep" /\ round' = [Sleeping EXCEPT !.at = "ask", !.ask = Outages \ known]
    /\ UNCHANGED <<wrong, known, heard, missed, alertFaults>>

Wakes ==
    /\ round.at = "sleep" /\ round' = [Sleeping EXCEPT !.at = "ask", !.ask = Outages]
    /\ UNCHANGED <<wrong, known, heard, missed, alertFaults>>

(* evaluate_alerts: one source after the other.                            *)
Asks(o) ==
    /\ round.at = "ask" /\ o \in round.ask
    /\ LET current == round.current \union Reports(o)
       IN  round' = IF round.ask = {o}
                    THEN [at |-> "raise", ask |-> {}, current |-> current, todo |-> current \ known]
                    ELSE [round EXCEPT !.ask = @ \ {o}, !.current = current]
    /\ UNCHANGED <<wrong, known, heard, missed, alertFaults>>

(* It fails altogether, and the round is given up.                         *)
AskFails ==
    /\ round.at = "ask" /\ Trouble /\ round' = Sleeping
    /\ UNCHANGED <<wrong, known, heard, missed>>

(* _notify: the message comes to the readers, or fails and is forgotten.   *)
Notify(a, text) ==
    \/ /\ heard' = [heard EXCEPT ![a] = text] /\ missed' = missed \ {a}
       /\ UNCHANGED alertFaults
    \/ Trouble /\ missed' = missed \union {a} /\ UNCHANGED heard

Tells(a) ==
    /\ round.at \in {"raise", "clear"} /\ a \in round.todo
    /\ Notify(a, IF round.at = "raise" THEN "raised" ELSE "over")
    /\ round' = [round EXCEPT !.todo = @ \ {a}]
    /\ UNCHANGED <<wrong, known>>

NowClears ==
    /\ round.at = "raise" /\ round.todo = {}
    /\ round' = [round EXCEPT !.at = "clear", !.todo = known \ round.current]
    /\ UNCHANGED <<wrong, known, heard, missed, alertFaults>>

Remember == round.current

RoundOver ==
    /\ round.at = "clear" /\ round.todo = {}
    /\ known' = Remember /\ round' = Sleeping
    /\ UNCHANGED <<wrong, heard, missed, alertFaults>>

(* The API restarts and knows nothing.                                     *)
LoopRestarts ==
    /\ Trouble /\ round' = Sleeping /\ known' = {}
    /\ missed' = missed \union {a \in Alarms : heard[a] = "raised"}
    /\ UNCHANGED <<wrong, heard>>

RoundStep == Wakes \/ (\E o \in Outages : Asks(o)) \/ (\E a \in Alarms : Tells(a)) \/ NowClears \/ RoundOver

AlertsNext == (\E a \in Alarms : Happens(a)) \/ RoundStep \/ AskFails \/ LoopRestarts

AlertsFairness == WF_alertVars(RoundStep)
AlertsSpec == AlertsInit /\ [][AlertsNext]_alertVars /\ AlertsFairness

AlertsTypeOK ==
    /\ wrong \subseteq Alarms /\ known \subseteq Alarms /\ missed \subseteq Alarms
    /\ round \in [at : {"sleep", "ask", "raise", "clear"}, ask : SUBSET Outages,
                  current : SUBSET Alarms, todo : SUBSET Alarms]
    /\ heard \in [Alarms -> {"nothing", "raised", "over"}] /\ alertFaults \in 0..MaxAlertFaults

(* Between two rounds the readers of the webhook have heard, of every      *)
(* alert they did not miss a message of, what the loop takes for true.     *)
ReadersKnow ==
    round.at = "sleep" =>
        \A a \in Alarms \ missed : a \in known <=> heard[a] = "raised"

(* What goes on and is not hidden by an outage comes to be known and stays *)
(* known; what is over, or hidden, does not.                               *)
AlertsFollow ==
    \A a \in Alarms :
        /\ <>[](a \in Visible) => <>[](a \in known)
        /\ <>[](a \notin Visible) => <>[](a \notin known)

AlertsTold == []ReadersKnow /\ AlertsFollow
=============================================================================
