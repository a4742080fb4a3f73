--------------------------- MODULE TransferLimits ---------------------------
(***************************************************************************)
(* What the transfer queue promises, without its queue: a transfer runs    *)
(* only between a grant and a release, and the transfers that run at the   *)
(* same time never use one key (an engine as a source, an engine as a      *)
(* target) more than Limit times.                                          *)
(***************************************************************************)
EXTENDS Naturals, FiniteSets

CONSTANTS Tasks,      \* the transfers
          KeysOf,     \* [Tasks -> SUBSET keys]: the slots each transfer uses
          Limit       \* the largest limit the settings allow

VARIABLE running      \* the transfers that run now

Users(k) == {t \in running : k \in KeysOf[t]}

Init == running = {}

Grant(t) == /\ t \notin running
            /\ \A k \in KeysOf[t] : Cardinality(Users(k)) < Limit
            /\ running' = running \cup {t}

Release(t) == /\ t \in running
              /\ running' = running \ {t}

Next == \E t \in Tasks : Grant(t) \/ Release(t)

Spec == Init /\ [][Next]_running
=============================================================================
