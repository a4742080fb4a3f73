------------------------------- MODULE ReadSlots -------------------------------
(***************************************************************************)
(* What the queues of one engine promise its disk, without the queues: a   *)
(* torrent reads its files for the admission or for a recheck, never for   *)
(* both.  The admission lets nobody in beside the rechecks beyond the      *)
(* limit; a recheck begins only while the rechecks are within it.  Whoever *)
(* reads may stop at any moment, and the limit may change.                 *)
(***************************************************************************)
EXTENDS Naturals, FiniteSets

CONSTANTS Torrents, Limits

VARIABLES limit, checks, rechecks    \* who reads for the one, who for the other

Init == limit \in Limits /\ checks = {} /\ rechecks = {}

(* A round of the admission takes some slots back and gives others.        *)
Admit ==
    /\ checks' \subseteq Torrents \ rechecks
    /\ checks' \subseteq checks
         \/ Cardinality(checks') + Cardinality(rechecks) <= limit
    /\ UNCHANGED <<limit, rechecks>>

(* Rechecks end and begin; who is asked for one leaves the admission.      *)
Recheck ==
    /\ limit' \in Limits
    /\ checks' \subseteq checks
    /\ rechecks' \subseteq Torrents \ checks'
    /\ rechecks' \subseteq rechecks \/ Cardinality(rechecks') <= limit'

Next == Admit \/ Recheck

Spec == Init /\ [][Next]_<<limit, checks, rechecks>>

(* However the limit changed on the way, no more than twice the largest    *)
(* one ever read: a recheck begins beside the checks that were let in.     *)
Crowd(most) ==
    /\ checks \cap rechecks = {}
    /\ Cardinality(checks) <= most /\ Cardinality(rechecks) <= most
=============================================================================
