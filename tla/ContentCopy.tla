---------------------------- MODULE ContentCopy ----------------------------
(***************************************************************************)
(* How the content of a torrent comes to its target engine, file by file:  *)
(*   local   copied from a shared mount through a .part file               *)
(*   stream  unpacked from one tar stream                                  *)
(*   direct  pulled from the source engine, from where an earlier attempt  *)
(*           stopped                                                       *)
(*   http    the same, driven by the orchestrator (migrate.py)             *)
(* A copy may break off at any moment and be tried again, in any of these  *)
(* ways; a copy the orchestrator gave up on goes on beside the next one.   *)
(*                                                                         *)
(* A file is a sequence of pieces, good ones and the holes that a write    *)
(* beyond the end leaves.                                                  *)
(***************************************************************************)
EXTENDS Naturals, Sequences, FiniteSets

CONSTANTS Copiers, Files,
          Size,         \* [Files -> Nat] pieces of each file at the source
          Modes,
          SingleFile    \* the torrent is one file, not a directory

ASSUME CopyAssumption ==
    /\ Size \in [Files -> Nat]
    /\ Modes \subseteq {"local", "stream", "direct", "http"}
    /\ Files # {} /\ SingleFile \in BOOLEAN /\ (SingleFile => Cardinality(Files) = 1)

VARIABLES
    disk,     \* the files at the target, by path
    part,     \* <name>.part
    copier,   \* the copies in progress; "shared" records that one met another
    staged,   \* _staged_imports has the torrent
    broken    \* history: a copy broke off that had met another one

copyVars == <<disk, part, copier, staged, broken>>

(* The path a copy writes: content_manifest gives a single file as itself  *)
(* under a root of its own name.                                           *)
Target(mode, f) == IF SingleFile /\ mode \in {"direct", "http"} THEN <<f, f>> ELSE <<f>>
Paths == {<<f>> : f \in Files} \union {<<f, f>> : f \in Files}

Away == [mode |-> "none", at |-> "away", todo |-> {}, f |-> CHOOSE f \in Files : TRUE,
         have |-> 0, pos |-> 0, onto |-> "lost", shared |-> FALSE]
Working(c) == copier[c].at # "away"

CopyInit ==
    /\ disk = [p \in Paths |-> <<>>]
    /\ part = [f \in Files |-> <<>>]
    /\ copier = [c \in Copiers |-> Away]
    /\ staged = FALSE /\ broken = FALSE

(* Seek and truncate, and a write at a position: what lies between the end *)
(* of the file and the position is a hole.                                 *)
Cut(s, n) == [i \in 1..n |-> IF i <= Len(s) THEN s[i] ELSE "hole"]
Put(s, n) == [Cut(s, IF Len(s) > n THEN Len(s) ELSE n + 1) EXCEPT ![n + 1] = "good"]

(* How much of a file an attempt need not copy again.                      *)
Smaller(a, b) == IF a < b THEN a ELSE b

-----------------------------------------------------------------------------
CopyBegin(c, m) ==
    /\ ~Working(c)
    /\ LET others == {d \in Copiers : Working(d)}
       IN  copier' = [d \in Copiers |->
             IF d = c THEN [Away EXCEPT !.mode = m, !.at = "next", !.todo = Files,
                                        !.shared = (others # {})]
             ELSE IF d \in others THEN [copier[d] EXCEPT !.shared = TRUE] ELSE copier[d]]
    /\ staged' = (staged \/ m \in {"http", "stream"})
    /\ UNCHANGED <<disk, part, broken>>

(* import_remote takes the staged data before the stream begins; without   *)
(* them it is refused.                                                     *)
TakeStaged(c) ==
    /\ copier[c].mode = "stream" /\ copier[c].at = "next"
    /\ copier' = [copier EXCEPT ![c] = IF staged THEN [copier[c] EXCEPT !.at = "file"] ELSE Away]
    /\ staged' = FALSE
    /\ UNCHANGED <<disk, part, broken>>

Ready(c) ==
    IF copier[c].mode = "stream" THEN copier[c].at = "file" ELSE copier[c].at = "next"

(* A file of the right size is taken for complete.                         *)
Skip(c, f) ==
    CASE copier[c].mode = "stream" -> FALSE
      [] copier[c].mode = "local"  -> Len(disk[<<f>>]) = Size[f]
      [] OTHER -> Size[f] > 0 /\ Len(disk[Target(copier[c].mode, f)]) >= Size[f]

(* The size at the target is asked for, and the file is opened later.      *)
Look(c, f) ==
    /\ Ready(c) /\ f \in copier[c].todo
    /\ LET have == Smaller(Len(disk[Target(copier[c].mode, f)]), Size[f])
       IN  copier' = [copier EXCEPT ![c] =
             IF Skip(c, f) THEN [copier[c] EXCEPT !.todo = @ \ {f}]
             ELSE [copier[c] EXCEPT !.todo = @ \ {f}, !.at = "open", !.f = f,
                   !.have = IF copier[c].mode \in {"direct", "http"} THEN have ELSE 0]]
    /\ UNCHANGED <<disk, part, staged, broken>>

(* Open a file, keeping a number of its pieces, to write from a position:  *)
(* the .part of a local copy, the file itself otherwise.                   *)
OpenAt(c, keep, pos) ==
    /\ copier[c].at = "open"
    /\ LET p == Target(copier[c].mode, copier[c].f)
       IN  IF copier[c].mode = "local"
           THEN part' = [part EXCEPT ![copier[c].f] = <<>>] /\ UNCHANGED disk
           ELSE disk' = [disk EXCEPT ![p] = Cut(@, keep)] /\ UNCHANGED part
    /\ copier' = [copier EXCEPT ![c].at = "write", ![c].pos = pos,
                    ![c].onto = IF copier[c].mode = "local" THEN "part" ELSE "disk"]
    /\ UNCHANGED <<staged, broken>>

(* Mutant of Open: the file is opened for writing, then the position set.  *)
OpenEmptied(c) == OpenAt(c, 0, copier[c].have)

(* Mutant of Open: every attempt starts from the beginning.                *)
OpenAnew(c) == OpenAt(c, 0, 0)

(* direct, http: truncated to the offset the request was made with.        *)
Open(c) == OpenAt(c, copier[c].have, copier[c].have)

(* One chunk, into the file that was opened, whatever its name is by now.  *)
Write(c) ==
    /\ copier[c].at = "write" /\ copier[c].pos < Size[copier[c].f]
    /\ LET p == Target(copier[c].mode, copier[c].f)
       IN  CASE copier[c].onto = "part" ->
                  part' = [part EXCEPT ![copier[c].f] = Put(@, copier[c].pos)] /\ UNCHANGED disk
             [] copier[c].onto = "disk" ->
                  disk' = [disk EXCEPT ![p] = Put(@, copier[c].pos)] /\ UNCHANGED part
             [] OTHER -> UNCHANGED <<disk, part>>
    /\ copier' = [copier EXCEPT ![c].pos = @ + 1]
    /\ UNCHANGED <<staged, broken>>

(* The end of a file; a local copy renames its .part over the target, and  *)
(* takes along whoever else has that .part open.                           *)
Renamed(f) ==
    [d \in Copiers |->
        IF ~Working(d) \/ copier[d].f # f THEN copier[d]
        ELSE CASE copier[d].onto = "part" -> [copier[d] EXCEPT !.onto = "disk"]
               [] copier[d].onto = "disk" /\ Target(copier[d].mode, f) = <<f>>
                                          -> [copier[d] EXCEPT !.onto = "lost"]
               [] OTHER -> copier[d]]

NextFile(c) == IF copier[c].mode = "stream" THEN "file" ELSE "next"

CloseFile(c) ==
    /\ copier[c].at = "write" /\ copier[c].pos >= Size[copier[c].f]
    /\ LET f == copier[c].f
       IN  IF copier[c].mode = "local" /\ copier[c].onto = "part"
           THEN /\ disk' = [disk EXCEPT ![<<f>>] = part[f]]
                /\ part' = [part EXCEPT ![f] = <<>>]
                /\ copier' = [Renamed(f) EXCEPT ![c].at = NextFile(c), ![c].onto = "lost"]
           ELSE /\ copier' = [copier EXCEPT ![c].onto = "lost",
                   ![c].at = IF copier[c].mode = "local" THEN "failed" ELSE NextFile(c)]
                /\ UNCHANGED <<disk, part>>
    /\ UNCHANGED <<staged, broken>>

(* All files are there: import_finalize, or the end of the import, adds    *)
(* the torrent and checks it.                                              *)
CopyDone(c) ==
    /\ Ready(c) /\ copier[c].todo = {}
    /\ copier' = [copier EXCEPT ![c] = Away]
    /\ staged' = IF copier[c].mode = "http" THEN FALSE ELSE staged
    /\ UNCHANGED <<disk, part, broken>>

(* A connection or a disk fails, the source goes, or the rename found no   *)
(* .part left.                                                             *)
CopyBreaks(c) ==
    /\ Working(c)
    /\ copier' = [copier EXCEPT ![c] = Away]
    /\ broken' = (broken \/ (copier[c].at # "failed" /\ copier[c].shared))
    /\ UNCHANGED <<disk, part, staged>>

CopyNext ==
    \E c \in Copiers :
        \/ \E m \in Modes : CopyBegin(c, m)
        \/ TakeStaged(c) \/ (\E f \in Files : Look(c, f))
        \/ Open(c) \/ Write(c) \/ CloseFile(c) \/ CopyDone(c) \/ CopyBreaks(c)

CopySpec == CopyInit /\ [][CopyNext]_copyVars

-----------------------------------------------------------------------------
CopyTypeOK ==
    /\ disk \in [Paths -> Seq({"good", "hole"})] /\ part \in [Files -> Seq({"good", "hole"})]
    /\ copier \in [Copiers ->
          [mode : Modes \union {"none"},
           at : {"away", "next", "file", "open", "write", "failed"}, todo : SUBSET Files,
           f : Files, have : Nat, pos : Nat, onto : {"disk", "part", "lost"}, shared : BOOLEAN]]
    /\ staged \in BOOLEAN /\ broken \in BOOLEAN

Clean(s) == \A i \in 1..Len(s) : s[i] = "good"
GoodPieces(s) == Cardinality({i \in 1..Len(s) : s[i] = "good"})

(* What attempts leave behind is always a clean beginning of each file, so *)
(* that its size says how much of it is there (_copy_incremental and the   *)
(* offsets of import_direct trust the size): whatever ways of copying      *)
(* follow or overlap each other, as long as none that met another breaks   *)
(* off.  A copy that was alone all the time ends with every file whole,    *)
(* where libtorrent looks for it.                                          *)
ContentSound ==
    ~broken =>
        /\ (\A c \in Copiers : ~Working(c)) => \A p \in Paths : Clean(disk[p])
        /\ \A c \in Copiers :
              ~copier[c].shared /\ Ready(c) /\ copier[c].todo = {}
                 => \A f \in Files : Len(disk[<<f>>]) = Size[f] /\ Clean(disk[<<f>>])

(* "A retry only copies what is missing" (ROADMAP.md): no attempt takes    *)
(* away what an earlier one brought, except a tar stream, which starts     *)
(* again.                                                                  *)
RetryKeeps ==
    [][(\A c \in Copiers : copier[c].mode # "stream" /\ ~copier[c].shared)
          => \A p \in Paths : GoodPieces(disk'[p]) >= GoodPieces(disk[p])]_copyVars
=============================================================================
