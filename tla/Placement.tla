------------------------------- MODULE Placement -------------------------------
(***************************************************************************)
(* What a transfer between engines promises the users of a torrent,        *)
(* without its steps: they are sent to one engine, which has the torrent   *)
(* with all of its content; they are sent elsewhere only once the other    *)
(* engine has it as well; and the engine they are sent to keeps it.        *)
(***************************************************************************)
CONSTANTS Engines, First

VARIABLES home,      \* the engine users are sent to
          holders    \* the engines that have the torrent with all content

Init == home = First /\ holders = {First}

Copy(e) == /\ e \in Engines \ holders
           /\ holders' = holders \cup {e}
           /\ UNCHANGED home

Move(e) == /\ e \in holders \ {home}
           /\ home' = e
           /\ UNCHANGED holders

Drop(e) == /\ e \in holders \ {home}
           /\ holders' = holders \ {e}
           /\ UNCHANGED home

Next == \E e \in Engines : Copy(e) \/ Move(e) \/ Drop(e)

Spec == Init /\ [][Next]_<<home, holders>>
=============================================================================
