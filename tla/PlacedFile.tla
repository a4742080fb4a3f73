------------------------------- MODULE PlacedFile -------------------------------
(***************************************************************************)
(* What uploads of one name promise, without sessions, chunks and answers: *)
(* a file is put in its place at once, never for an upload whose cancel    *)
(* was confirmed, and over another file only for a user who agreed.  Such  *)
(* a replacement may lose the other file without bringing its own.  Who is *)
(* told that it is there is told in the step that puts it there.           *)
(***************************************************************************)
CONSTANTS Uploads

VARIABLES owner,      \* whose file is at the place, or "nobody"
          agreed,     \* uploads whose user agreed to replace a file
          cancelled,  \* uploads whose cancel was confirmed
          placed,     \* uploads whose file was put in its place
          done        \* uploads whose user was told so

Init == /\ owner \in {"nobody", "before"}
        /\ agreed = {} /\ cancelled = {} /\ placed = {} /\ done = {}

Agree(u) == agreed' = agreed \union {u} /\ UNCHANGED <<owner, cancelled, placed, done>>
Cancel(u) == cancelled' = cancelled \union {u} /\ UNCHANGED <<owner, agreed, placed, done>>

MayPlace(u) == u \notin cancelled /\ (owner = "nobody" \/ u \in agreed)

Place(u) ==
    /\ MayPlace(u)
    /\ owner' = u /\ placed' = placed \union {u}
    /\ done' \in {done, done \union {u}}
    /\ UNCHANGED <<agreed, cancelled>>

Lose(u) ==
    /\ MayPlace(u) /\ owner' = "nobody"
    /\ UNCHANGED <<agreed, cancelled, placed, done>>

Next == \E u \in Uploads : Agree(u) \/ Cancel(u) \/ Place(u) \/ Lose(u)

Spec == Init /\ [][Next]_<<owner, agreed, cancelled, placed, done>>
=============================================================================
