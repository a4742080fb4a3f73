---------------------------- MODULE MCCheckQueue ----------------------------
(* Instances of CheckQueue for TLC. *)
EXTENDS CheckQueue

CONSTANTS t1, t2, t3

Two == {t1, t2}
Three == {t1, t2, t3}
Alike == Permutations(Torrents)

Requests == {"pause", "resume", "recheck", "remove", "limit"}
=============================================================================
