---------------------------- MODULE ContentUpload ----------------------------
(***************************************************************************)
(* Chunked upload of a file to the volume of an engine (storage.py,        *)
(* router.py), from a browser (fileUpload.ts) through a relay that repeats *)
(* requests whose answer was lost.  All uploads of the model want the same *)
(* name at the same place.                                                 *)
(*                                                                         *)
(* The handlers run on one event loop: each is one step, except that a     *)
(* chunk's session is loaded before its body is awaited.  The process may  *)
(* crash inside a handler and is started again; what it answered may get   *)
(* lost; a ticket may expire at any moment.                                *)
(***************************************************************************)
EXTENDS Naturals, FiniteSets

CONSTANTS Uploads,   \* browsers, each with a ticket (jti) of its own
          Parts,     \* the chunks of a file
          Unlucky    \* the uploads whose answers get lost, in a crash or on the way

ASSUME UploadAssumption == IsFiniteSet(Parts) /\ Unlucky \subseteq Uploads

VARIABLES
    final,     \* the file at its place: who wrote it, and which chunks it has
    ses,       \* the staging directory of each upload
    client,    \* the browsers
    put,       \* [Uploads -> [Parts -> ...]] the chunk requests
    expired,   \* the uploads whose ticket is no longer accepted
    placed     \* history: the uploads whose file was put in its place

uploadVars == <<final, ses, client, put, expired, placed>>

Nothing == [by |-> "nobody", parts |-> {}]
Before == [by |-> "before", parts |-> Parts]
NoSession == [st |-> "none", cancelled |-> FALSE, over |-> FALSE, got |-> {}]

UploadInit ==
    /\ final \in {Nothing, Before}
    /\ ses = [u \in Uploads |-> NoSession]
    /\ client = [u \in Uploads |-> [at |-> "start", req |-> "none", over |-> FALSE,
                                    del |-> "no", lost |-> FALSE]]
    /\ put = [u \in Uploads |-> [i \in Parts |-> "todo"]]
    /\ expired = {} /\ placed = {}

Exists == final # Nothing
Readable(u) == ses[u].st = "open"          \* meta.json is there and parses
Accepted(u) == u \notin expired            \* verify_ticket

-----------------------------------------------------------------------------
(* What a browser does with an answer, or with none: a lost one is asked   *)
(* for again by the relay, until it gives up.                              *)
Told(u, at) ==
    client' = [client EXCEPT ![u].req = IF at = "create" THEN "create" ELSE "none",
                             ![u].at = IF @ = "cancelled" /\ at # "done" THEN @ ELSE at,
                             ![u].over = @ \/ at = "create"]

NotTold(u) ==
    /\ u \in Unlucky
    /\ \/ client' = [client EXCEPT ![u].lost = TRUE]
       \/ client' = [client EXCEPT ![u].lost = TRUE, ![u].req = "none",
                                   ![u].at = IF @ = "cancelled" THEN @ ELSE "error"]

Start(u) ==
    /\ client[u].at = "start"
    /\ client' = [client EXCEPT ![u].at = "create", ![u].req = "create"]
    /\ UNCHANGED <<final, ses, put, expired, placed>>

Expire(u) ==
    /\ u \in Unlucky \ expired
    /\ expired' = expired \union {u}
    /\ UNCHANGED <<final, ses, client, put, placed>>

(* A crash forgets the requests whose body was awaited.                    *)
Restarted ==
    [v \in Uploads |-> [i \in Parts |-> IF put[v][i] = "loaded" THEN "sent" ELSE put[v][i]]]

-----------------------------------------------------------------------------
(* create_upload: the session of the ticket is found again, unless it is   *)
(* cancelled; otherwise one is made.                                       *)
Found(u) == Readable(u) /\ ~ses[u].cancelled
Refused(u) == ~Found(u) /\ Exists /\ ~client[u].over

Opened(u, st) == [st |-> st, cancelled |-> FALSE, over |-> client[u].over, got |-> {}]

HandleCreate(u) ==
    /\ client[u].req = "create" /\ Accepted(u)
    /\ ses' = IF Found(u) \/ Refused(u) THEN ses ELSE [ses EXCEPT ![u] = Opened(u, "open")]
    /\ \/ Refused(u) /\ (Told(u, "create") \/ Told(u, "error"))
       \/ ~Refused(u) /\ Told(u, "chunks")
       \/ NotTold(u)
    /\ UNCHANGED <<final, put, expired, placed>>

CrashCreate(u) ==
    /\ client[u].req = "create" /\ Accepted(u) /\ ~Found(u) /\ ~Refused(u)
    /\ ses' = [ses EXCEPT ![u] = Opened(u, "torn")]
    /\ NotTold(u)
    /\ put' = Restarted
    /\ UNCHANGED <<final, expired, placed>>

HandleExpired(u) ==
    /\ client[u].req # "none" /\ ~Accepted(u)
    /\ Told(u, "error")
    /\ UNCHANGED <<final, ses, put, expired, placed>>

(* putChunk of the browser's workers, of which one does not notice that    *)
(* another one failed, and put_chunk of the server.                        *)
PutSend(u, i) ==
    /\ \/ client[u].at = "chunks"
       \/ client[u].at = "error" /\ \E j \in Parts : put[u][j] # "todo"
    /\ put[u][i] = "todo"
    /\ put' = [put EXCEPT ![u][i] = "sent"]
    /\ UNCHANGED <<final, ses, client, expired, placed>>

PutFails(u, i) ==
    /\ put' = [put EXCEPT ![u][i] = "done"]
    /\ client' = [client EXCEPT ![u].at = IF @ = "chunks" THEN "error" ELSE @]

PutLoad(u, i) ==
    /\ put[u][i] = "sent"
    /\ IF Accepted(u) /\ Found(u)
       THEN put' = [put EXCEPT ![u][i] = "loaded"] /\ UNCHANGED client
       ELSE PutFails(u, i)
    /\ UNCHANGED <<final, ses, expired, placed>>

(* The body has come.  Without the directory the write fails; the browser  *)
(* and the relay try again, a few times.                                   *)
PutWrite(u, i) ==
    /\ put[u][i] = "loaded"
    /\ LET works == ses[u].st \in {"open", "torn"}
       IN  /\ ses' = IF works THEN [ses EXCEPT ![u].got = @ \union {i}] ELSE ses
           /\ \/ works /\ put' = [put EXCEPT ![u][i] = "done"] /\ UNCHANGED client
              \/ /\ ~works \/ u \in Unlucky
                 /\ \/ put' = [put EXCEPT ![u][i] = "sent"] /\ UNCHANGED client
                    \/ PutFails(u, i)
    /\ UNCHANGED <<final, expired, placed>>

(* All workers are through; a cancelled item stops here.                   *)
AskComplete(u) ==
    /\ client[u].at = "chunks" /\ client[u].req = "none"
    /\ \A i \in Parts : put[u][i] = "done"
    /\ client' = [client EXCEPT ![u].at = "complete", ![u].req = "complete"]
    /\ UNCHANGED <<final, ses, put, expired, placed>>

-----------------------------------------------------------------------------
(* Mutant of MayComplete: a file that came meanwhile is not looked at.     *)
AnyFile(u) == Readable(u) /\ ~ses[u].cancelled /\ ses[u].got = Parts

MayComplete(u) ==
    /\ Readable(u) /\ ~ses[u].cancelled
    /\ ses[u].got = Parts
    /\ ~Exists \/ ses[u].over

(* complete_upload and storage.complete: assemble, unlink the old file,    *)
(* rename, remove the directory.                                           *)
HandleComplete(u) ==
    /\ client[u].req = "complete" /\ Accepted(u)
    /\ IF MayComplete(u)
       THEN /\ final' = [by |-> u, parts |-> ses[u].got]
            /\ placed' = placed \union {u}
            /\ ses' = [ses EXCEPT ![u].st = "gone"]
            /\ Told(u, "done") \/ NotTold(u)
       ELSE /\ Told(u, "error") \/ NotTold(u)
            /\ UNCHANGED <<final, placed, ses>>
    /\ UNCHANGED <<put, expired>>

(* A crash inside complete: after the unlink, or after the rename with the *)
(* directory removed in part.                                              *)
CrashComplete(u) ==
    /\ client[u].req = "complete" /\ Accepted(u) /\ MayComplete(u)
    /\ u \in Unlucky
    /\ \/ /\ Exists /\ final' = Nothing
          /\ UNCHANGED <<ses, placed>>
       \/ /\ final' = [by |-> u, parts |-> ses[u].got]
          /\ placed' = placed \union {u}
          /\ \E left \in SUBSET ses[u].got, st \in {"open", "torn"} :
                ses' = [ses EXCEPT ![u].st = st, ![u].got = left]
    /\ NotTold(u)
    /\ put' = Restarted
    /\ UNCHANGED expired

(* cancelItem: the browser asks once it knows the session.                 *)
CancelUpload(u) ==
    /\ client[u].at \in {"create", "chunks", "complete"}
    /\ client' = [client EXCEPT ![u].at = "cancelled",
                    ![u].del = IF client[u].at = "create" THEN "no" ELSE "sent"]
    /\ UNCHANGED <<final, ses, put, expired, placed>>

(* cancel_upload: the meta file is written again, a crash may tear it.     *)
HandleDelete(u) ==
    /\ client[u].del = "sent"
    /\ LET works == Accepted(u) /\ Readable(u)
           Answer(a) == client' = [client EXCEPT ![u].del = a]
       IN  \/ /\ works /\ Answer("heard")
              /\ ses' = [ses EXCEPT ![u].cancelled = TRUE]
              /\ UNCHANGED put
           \/ /\ works /\ u \in Unlucky /\ Answer("failed")
              /\ ses' = [ses EXCEPT ![u].st = "torn"]
              /\ put' = Restarted
           \/ /\ ~works /\ Answer("failed")
              /\ UNCHANGED <<ses, put>>
    /\ UNCHANGED <<final, expired, placed>>

(* gc_once: a cancelled session that is due, or one older than a day; a    *)
(* directory whose meta file does not parse is passed over.                *)
Gc(u) ==
    /\ ses[u].st = "open"
    /\ ses' = [ses EXCEPT ![u].st = "gone"]
    /\ UNCHANGED <<final, client, put, expired, placed>>

UploadNext ==
    \E u \in Uploads :
        \/ Start(u) \/ Expire(u) \/ HandleCreate(u) \/ CrashCreate(u) \/ HandleExpired(u)
        \/ \E i \in Parts : PutSend(u, i) \/ PutLoad(u, i) \/ PutWrite(u, i)
        \/ AskComplete(u) \/ HandleComplete(u) \/ CrashComplete(u)
        \/ CancelUpload(u) \/ HandleDelete(u) \/ Gc(u)

UploadSpec == UploadInit /\ [][UploadNext]_uploadVars

-----------------------------------------------------------------------------
UploadTypeOK ==
    /\ final \in [by : Uploads \union {"nobody", "before"}, parts : SUBSET Parts]
    /\ ses \in [Uploads -> [st : {"none", "open", "torn", "gone"}, cancelled : BOOLEAN,
                            over : BOOLEAN, got : SUBSET Parts]]
    /\ client \in [Uploads ->
          [at : {"start", "create", "chunks", "complete", "done", "error", "cancelled"},
           req : {"none", "create", "complete"}, over : BOOLEAN,
           del : {"no", "sent", "heard", "failed"}, lost : BOOLEAN]]
    /\ put \in [Uploads -> [Parts -> {"todo", "sent", "loaded", "done"}]]
    /\ expired \in SUBSET Uploads /\ placed \in SUBSET Uploads

(* The file at its place is always the whole content of one upload; a      *)
(* browser shows "done" only for a file that was put there, and an error   *)
(* only if nothing was replaced for it, unless the answer of a first       *)
(* attempt was lost on the way (complete, and the relay that repeats it).  *)
AnswersAreTrue ==
    /\ Exists => final.parts = Parts
    /\ \A u \in Uploads : client[u].at = "done" => u \in placed
    /\ \A u \in Uploads : client[u].at = "error" /\ ~client[u].lost => u \notin placed

(* A file that is there goes, or is replaced, only for an upload whose     *)
(* user was asked and agreed, at any distance between the question and the *)
(* last chunk; and once a cancel is answered with success nothing is put   *)
(* in place for it, whatever chunks and completions are still on the way.  *)
PlacedRightly ==
    [][/\ final' # final /\ Exists =>
             \E u \in Uploads : client[u].over /\ client[u].req = "complete"
       /\ \A u \in Uploads : client[u].del = "heard" => (u \in placed' => u \in placed)]_uploadVars

(* The uploads are a PlacedFile: chunks, retries and crashes put a file in *)
(* its place in one step or not at all, a crash between unlink and rename  *)
(* loses one that was to be replaced, and "done" is not said too early.    *)
Agreed == {u \in Uploads : client[u].over}
Heard == {u \in Uploads : client[u].del = "heard"}
Served == {u \in Uploads : client[u].at = "done"}

File == INSTANCE PlacedFile
        WITH owner <- final.by, agreed <- Agreed, cancelled <- Heard, done <- Served

ImplementsPlacedFile == File!Spec

(* An upload does to the file what its user asked, and the user learns it. *)
UploadSound == []AnswersAreTrue /\ PlacedRightly /\ ImplementsPlacedFile
=============================================================================
