--------------------------- MODULE ClientProofs ---------------------------
(***************************************************************************)
(* Theorems about what clients of the orchestrator do over several         *)
(* requests: uploads by browsers, for any number of uploads of one name,   *)
(* any number of chunks and any choice of lost answers; and the creation   *)
(* queue as the orchestrator sees it, for every set of requests, any       *)
(* number of tasks, lost calls, crashes and restarts.                      *)
(***************************************************************************)
EXTENDS ContentUpload, CreatorDesk, FiniteSetTheorems, TLAPS

(* What ties a browser, its staging directory and the file together.       *)
AskedFirst(u) == ses[u].over => client[u].over
CreateIsFirst(u) ==
    /\ client[u].at = "start" => client[u].del = "no"
    /\ client[u].req = "create" => client[u].at \in {"create", "cancelled"} /\ client[u].del = "no"
CancelHolds(u) ==
    /\ client[u].del = "heard" => ses[u].cancelled
    /\ client[u].del # "no" => client[u].at \in {"cancelled", "done"}
DoneIsPlaced(u) ==
    /\ client[u].at = "done" => u \in placed /\ client[u].req = "none"
    /\ u \in placed /\ ~client[u].lost => client[u].at = "done" /\ client[u].req = "none"

Tied(u) == AskedFirst(u) /\ CreateIsFirst(u) /\ CancelHolds(u) /\ DoneIsPlaced(u)

UploadInv ==
    /\ UploadTypeOK
    /\ Exists => final.parts = Parts
    /\ \A u \in Uploads : Tied(u)

-----------------------------------------------------------------------------
Browser ==
    [at : {"start", "create", "chunks", "complete", "done", "error", "cancelled"},
     req : {"none", "create", "complete"}, over : BOOLEAN,
     del : {"no", "sent", "heard", "failed"}, lost : BOOLEAN]

Session == [st : {"none", "open", "torn", "gone"}, cancelled : BOOLEAN, over : BOOLEAN, got : SUBSET Parts]

LEMMA InitUpload == UploadInit => UploadInv
<1> QED
  BY DEF UploadInit, UploadInv, UploadTypeOK, Tied, AskedFirst, CreateIsFirst, CancelHolds, DoneIsPlaced,
         Exists, Nothing, Before, NoSession

LEMMA TypesOfUpload ==
    ASSUME UploadTypeOK, NEW u \in Uploads
    PROVE  /\ client \in [Uploads -> Browser] /\ client[u] \in Browser
           /\ ses \in [Uploads -> Session] /\ ses[u] \in Session
           /\ Restarted \in [Uploads -> [Parts -> {"todo", "sent", "loaded", "done"}]]
<1> QED
  BY DEF UploadTypeOK, Browser, Session, Restarted

(* A step is about one upload and leaves the others alone.                 *)
LEMMA OneAtATime ==
    ASSUME UploadInv, NEW u \in Uploads, UploadTypeOK', Tied(u)', Exists' => final'.parts = Parts,
           \A v \in Uploads \ {u} :
               client'[v] = client[v] /\ ses'[v] = ses[v] /\ (v \in placed' <=> v \in placed)
    PROVE  UploadInv'
<1>1. ASSUME NEW v \in Uploads \ {u}
      PROVE  Tied(v)'
  BY DEF UploadInv, Tied, AskedFirst, CreateIsFirst, CancelHolds, DoneIsPlaced
<1> QED
  BY <1>1 DEF UploadInv

(* What an answer, or none, does to a browser.                             *)
LEMMA ToldGives ==
    ASSUME UploadTypeOK, NEW u \in Uploads, NEW at \in {"create", "chunks", "done", "error"}, Told(u, at)
    PROVE  /\ client' \in [Uploads -> Browser]
           /\ \A v \in Uploads \ {u} : client'[v] = client[v]
           /\ client'[u].req = IF at = "create" THEN "create" ELSE "none"
           /\ client'[u].at = IF client[u].at = "cancelled" /\ at # "done" THEN client[u].at ELSE at
           /\ client'[u].over <=> client[u].over \/ at = "create"
           /\ at # "create" => client'[u].over = client[u].over
           /\ client'[u].del = client[u].del /\ client'[u].lost = client[u].lost
<1> DEFINE c == [client[u] EXCEPT
                    !.req = IF at = "create" THEN "create" ELSE "none",
                    !.at = IF @ = "cancelled" /\ at # "done" THEN @ ELSE at,
                    !.over = @ \/ at = "create"]
<1>1. client \in [Uploads -> Browser] /\ client[u] \in Browser
  BY TypesOfUpload
<1>2. client' = [client EXCEPT ![u] = c]
  BY <1>1 DEF Told
<1>3. c \in Browser
  BY <1>1 DEF Browser
<1>4. /\ c.req = IF at = "create" THEN "create" ELSE "none"
      /\ c.at = IF client[u].at = "cancelled" /\ at # "done" THEN client[u].at ELSE at
      /\ c.over <=> client[u].over \/ at = "create"
      /\ at # "create" => c.over = client[u].over
      /\ c.del = client[u].del /\ c.lost = client[u].lost
  BY <1>1 DEF Browser
<1> HIDE DEF c
<1> QED
  BY <1>1, <1>2, <1>3, <1>4

LEMMA NotToldGives ==
    ASSUME UploadTypeOK, NEW u \in Uploads, NotTold(u)
    PROVE  /\ client' \in [Uploads -> Browser]
           /\ \A v \in Uploads \ {u} : client'[v] = client[v]
           /\ client'[u].over = client[u].over /\ client'[u].del = client[u].del
           /\ client'[u].lost
           /\ client[u].at = "cancelled" => client'[u].at = "cancelled"
           /\ \/ client'[u].req = client[u].req /\ client'[u].at = client[u].at
              \/ client'[u].req = "none" /\ client'[u].at \in {"error", "cancelled"}
<1>1. client \in [Uploads -> Browser] /\ client[u] \in Browser
  BY TypesOfUpload
<1>2. CASE client' = [client EXCEPT ![u].lost = TRUE]
  BY <1>1, <1>2 DEF Browser
<1>3. CASE client' = [client EXCEPT ![u].lost = TRUE, ![u].req = "none",
                                    ![u].at = IF @ = "cancelled" THEN @ ELSE "error"]
  <2> DEFINE c == [client[u] EXCEPT !.lost = TRUE, !.req = "none",
                                    !.at = IF @ = "cancelled" THEN @ ELSE "error"]
  <2>1. client' = [client EXCEPT ![u] = c]
    BY <1>1, <1>3
  <2>2. c \in Browser /\ c.over = client[u].over /\ c.del = client[u].del /\ c.lost
        /\ c.req = "none" /\ c.at = IF client[u].at = "cancelled" THEN "cancelled" ELSE "error"
    BY <1>1 DEF Browser
  <2> HIDE DEF c
  <2> QED
    BY <1>1, <2>1, <2>2
<1> QED
  BY <1>2, <1>3 DEF NotTold

-----------------------------------------------------------------------------
LEMMA StartKeeps ==
    ASSUME UploadInv, NEW u \in Uploads, Start(u) \/ Expire(u) \/ AskComplete(u) \/ CancelUpload(u)
    PROVE  UploadInv'
<1>1. CASE Start(u)
  BY <1>1 DEF Start, UploadInv, UploadTypeOK, Tied, AskedFirst, CreateIsFirst, CancelHolds, DoneIsPlaced, Exists
<1>2. CASE Expire(u)
  BY <1>2 DEF Expire, UploadInv, UploadTypeOK, Tied, AskedFirst, CreateIsFirst, CancelHolds, DoneIsPlaced, Exists
<1>3. CASE AskComplete(u)
  BY <1>3 DEF AskComplete, UploadInv, UploadTypeOK, Tied, AskedFirst, CreateIsFirst, CancelHolds,
              DoneIsPlaced, Exists
<1>4. CASE CancelUpload(u)
  <2>1. UploadTypeOK /\ Tied(u) /\ client \in [Uploads -> Browser] /\ client[u] \in Browser
    BY TypesOfUpload DEF UploadInv
  <2> DEFINE c == [client[u] EXCEPT !.at = "cancelled",
                      !.del = IF client[u].at = "create" THEN "no" ELSE "sent"]
  <2>2. /\ client[u].at \in {"create", "chunks", "complete"} /\ client' = [client EXCEPT ![u] = c]
        /\ UNCHANGED <<final, ses, put, expired, placed>>
    BY <1>4, <2>1 DEF CancelUpload
  <2>3. /\ c \in Browser /\ c.at = "cancelled" /\ c.req = client[u].req /\ c.over = client[u].over
        /\ c.lost = client[u].lost /\ c.del = IF client[u].at = "create" THEN "no" ELSE "sent"
    BY <2>1 DEF Browser
  <2> HIDE DEF c
  <2>4. client' \in [Uploads -> Browser] /\ client'[u] = c
        /\ \A v \in Uploads \ {u} : client'[v] = client[v]
    BY <2>1, <2>2, <2>3
  <2>5. UploadTypeOK'
    BY <2>1, <2>2, <2>4 DEF UploadTypeOK, Browser
  <2>6. Tied(u)'
    BY <2>1, <2>2, <2>3, <2>4 DEF Tied, AskedFirst, CreateIsFirst, CancelHolds, DoneIsPlaced
  <2> QED
    BY <2>2, <2>4, <2>5, <2>6, OneAtATime DEF UploadInv, Exists
<1> QED
  BY <1>1, <1>2, <1>3, <1>4

(* A session is made anew only for a browser that cannot have cancelled.   *)
LEMMA CreateKeeps ==
    ASSUME UploadInv, NEW u \in Uploads, HandleCreate(u) \/ CrashCreate(u) \/ HandleExpired(u)
    PROVE  UploadInv'
<1>1. /\ UploadTypeOK /\ Tied(u) /\ client \in [Uploads -> Browser] /\ client[u] \in Browser
      /\ ses \in [Uploads -> Session] /\ ses[u] \in Session
      /\ Restarted \in [Uploads -> [Parts -> {"todo", "sent", "loaded", "done"}]]
  BY TypesOfUpload DEF UploadInv
<1>2. UNCHANGED <<final, expired, placed>> /\ put' \in {put, Restarted}
  BY DEF HandleCreate, CrashCreate, HandleExpired
<1>3. CASE HandleExpired(u)
  <2>1. Told(u, "error") /\ UNCHANGED ses
    BY <1>3 DEF HandleExpired
  <2>2. UploadTypeOK'
    BY <1>1, <1>2, <2>1, ToldGives DEF UploadTypeOK, Browser
  <2>3. client[u].req # "none"
    BY <1>3 DEF HandleExpired
  <2>4. Tied(u)'
    BY <1>1, <1>2, <2>1, <2>3, ToldGives DEF Tied, AskedFirst, CreateIsFirst, CancelHolds, DoneIsPlaced
  <2> QED
    BY <1>1, <1>2, <2>1, <2>2, <2>4, ToldGives, OneAtATime DEF UploadInv, Exists
<1>4. CASE HandleCreate(u) \/ CrashCreate(u)
  <2>1. client[u].req = "create" /\ client[u].del = "no" /\ client[u].at \in {"create", "cancelled"}
    BY <1>1, <1>4 DEF HandleCreate, CrashCreate, Tied, CreateIsFirst
  <2>2. PICK st \in {"open", "torn"} : ses' = ses \/ ses' = [ses EXCEPT ![u] = Opened(u, st)]
    BY <1>4 DEF HandleCreate, CrashCreate
  <2>3. Opened(u, st) \in Session /\ Opened(u, st).over = client[u].over
    BY <1>1 DEF Opened, Session, Browser
  <2>4. /\ ses' \in [Uploads -> Session] /\ \A v \in Uploads \ {u} : ses'[v] = ses[v]
        /\ ses'[u].over => client[u].over
    BY <1>1, <2>2, <2>3 DEF Tied, AskedFirst
  <2>5. PICK at \in {"create", "error", "chunks"} : Told(u, at) \/ NotTold(u)
    BY <1>4 DEF HandleCreate, CrashCreate
  <2>6. /\ client' \in [Uploads -> Browser] /\ \A v \in Uploads \ {u} : client'[v] = client[v]
        /\ client[u].over => client'[u].over
        /\ client'[u].del = "no" /\ client'[u].at # "done" /\ client'[u].at # "start"
        /\ client'[u].req = "create" => client'[u].at \in {"create", "cancelled"}
        /\ client'[u].lost \/ client'[u].lost = client[u].lost
    <3>1. CASE Told(u, at)
      BY <1>1, <2>1, <3>1, ToldGives
    <3>2. CASE NotTold(u)
      BY <1>1, <2>1, <3>2, NotToldGives
    <3> QED
      BY <2>5, <3>1, <3>2
  <2>7. UploadTypeOK'
    BY <1>1, <1>2, <2>4, <2>6 DEF UploadTypeOK, Browser, Session
  <2>8. u \in placed => client[u].lost
    BY <1>1, <2>1 DEF Tied, DoneIsPlaced
  <2>9. Tied(u)'
    BY <1>2, <2>4, <2>6, <2>8 DEF Tied, AskedFirst, CreateIsFirst, CancelHolds, DoneIsPlaced
  <2> QED
    BY <1>2, <2>4, <2>6, <2>7, <2>9, OneAtATime DEF UploadInv, Exists
<1> QED
  BY <1>3, <1>4

(* The chunks change what a session holds, and a browser that waits for    *)
(* them may end with an error.                                             *)
LEMMA PutKeeps ==
    ASSUME UploadInv, NEW u \in Uploads, NEW i \in Parts, PutSend(u, i) \/ PutLoad(u, i) \/ PutWrite(u, i)
    PROVE  UploadInv'
<1>1. /\ UploadTypeOK /\ Tied(u) /\ client \in [Uploads -> Browser] /\ client[u] \in Browser
      /\ ses \in [Uploads -> Session] /\ ses[u] \in Session
      /\ put \in [Uploads -> [Parts -> {"todo", "sent", "loaded", "done"}]]
  BY TypesOfUpload DEF UploadInv, UploadTypeOK
<1>2. UNCHANGED <<final, expired, placed>>
  BY DEF PutSend, PutLoad, PutWrite
<1>3. PICK p \in {"sent", "loaded", "done"} : put' = [put EXCEPT ![u][i] = p]
  BY DEF PutSend, PutLoad, PutWrite, PutFails
<1>4. put' \in [Uploads -> [Parts -> {"todo", "sent", "loaded", "done"}]]
  BY <1>1, <1>3
<1>5. ses' = ses \/ ses' = [ses EXCEPT ![u].got = @ \union {i}]
  BY DEF PutSend, PutLoad, PutWrite
<1>6. /\ ses' \in [Uploads -> Session] /\ \A v \in Uploads \ {u} : ses'[v] = ses[v]
      /\ ses'[u].over = ses[u].over /\ ses'[u].cancelled = ses[u].cancelled
  BY <1>1, <1>5 DEF Session
<1>7. client' = client \/ client' = [client EXCEPT ![u].at = IF @ = "chunks" THEN "error" ELSE @]
  BY DEF PutSend, PutLoad, PutWrite, PutFails
<1>8. /\ client' \in [Uploads -> Browser] /\ \A v \in Uploads \ {u} : client'[v] = client[v]
      /\ client'[u].req = client[u].req /\ client'[u].over = client[u].over
      /\ client'[u].del = client[u].del /\ client'[u].lost = client[u].lost
      /\ client'[u].at = client[u].at \/ (client[u].at = "chunks" /\ client'[u].at = "error")
  <2>1. CASE client' = client
    BY <1>1, <2>1
  <2>2. CASE client' = [client EXCEPT ![u].at = IF @ = "chunks" THEN "error" ELSE @]
    <3> DEFINE c == [client[u] EXCEPT !.at = IF @ = "chunks" THEN "error" ELSE @]
    <3>1. /\ c \in Browser /\ c.req = client[u].req /\ c.over = client[u].over
          /\ c.del = client[u].del /\ c.lost = client[u].lost
          /\ c.at = IF client[u].at = "chunks" THEN "error" ELSE client[u].at
      BY <1>1 DEF Browser
    <3>2. client' = [client EXCEPT ![u] = c]
      BY <1>1, <2>2
    <3> HIDE DEF c
    <3> QED
      BY <1>1, <3>1, <3>2
  <2> QED
    BY <1>7, <2>1, <2>2
<1>9. UploadTypeOK'
  BY <1>1, <1>2, <1>4, <1>6, <1>8 DEF UploadTypeOK, Browser, Session
<1>10. Tied(u)'
  BY <1>1, <1>2, <1>6, <1>8 DEF Tied, AskedFirst, CreateIsFirst, CancelHolds, DoneIsPlaced
<1> QED
  BY <1>2, <1>6, <1>8, <1>9, <1>10, OneAtATime DEF UploadInv, Exists

(* A completion puts all the chunks in place, and the browser is told so   *)
(* or loses an answer.                                                     *)
LEMMA CompleteKeeps ==
    ASSUME UploadInv, NEW u \in Uploads, HandleComplete(u) \/ CrashComplete(u)
    PROVE  UploadInv'
<1>1. /\ UploadTypeOK /\ Tied(u) /\ client \in [Uploads -> Browser] /\ client[u] \in Browser
      /\ ses \in [Uploads -> Session] /\ ses[u] \in Session /\ client[u].req = "complete"
      /\ Restarted \in [Uploads -> [Parts -> {"todo", "sent", "loaded", "done"}]]
  BY TypesOfUpload DEF UploadInv, HandleComplete, CrashComplete
<1>2. UNCHANGED expired /\ put' \in {put, Restarted}
  BY DEF HandleComplete, CrashComplete
<1>3. \/ UNCHANGED <<final, placed>>
      \/ final' = Nothing /\ UNCHANGED placed
      \/ /\ final' = [by |-> u, parts |-> ses[u].got] /\ ses[u].got = Parts
         /\ placed' = placed \union {u}
  BY DEF HandleComplete, CrashComplete, MayComplete
<1>4. /\ final' \in [by : Uploads \union {"nobody", "before"}, parts : SUBSET Parts]
      /\ placed' \in SUBSET Uploads /\ \A v \in Uploads \ {u} : v \in placed' <=> v \in placed
      /\ Exists' => final'.parts = Parts
  BY <1>1, <1>3 DEF UploadTypeOK, Nothing, UploadInv, Exists
<1>5. PICK st \in {"open", "torn", "gone"}, left \in SUBSET ses[u].got :
          ses' = ses \/ ses' = [ses EXCEPT ![u].st = st, ![u].got = left]
  <2>1. CASE HandleComplete(u)
    <3>1. ses' = ses \/ ses' = [ses EXCEPT ![u].st = "gone", ![u].got = ses[u].got]
      BY <1>1, <2>1 DEF HandleComplete, Session
    <3> QED
      BY <3>1
  <2>2. CASE CrashComplete(u)
    BY <2>2 DEF CrashComplete
  <2> QED
    BY <2>1, <2>2
<1>6. /\ ses' \in [Uploads -> Session] /\ \A v \in Uploads \ {u} : ses'[v] = ses[v]
      /\ ses'[u].over = ses[u].over /\ ses'[u].cancelled = ses[u].cancelled
  <2> DEFINE s == [ses[u] EXCEPT !.st = st, !.got = left]
  <2>1. s \in Session /\ s.over = ses[u].over /\ s.cancelled = ses[u].cancelled
    BY <1>1 DEF Session
  <2>2. ses' = ses \/ ses' = [ses EXCEPT ![u] = s]
    BY <1>1, <1>5
  <2> HIDE DEF s
  <2> QED
    BY <1>1, <2>1, <2>2
<1>7. /\ client' \in [Uploads -> Browser] /\ \A v \in Uploads \ {u} : client'[v] = client[v]
      /\ client'[u].over = client[u].over /\ client'[u].del = client[u].del
      /\ client'[u].req # "create"
      /\ client'[u].at = "start" => client[u].at = "start"
      /\ client'[u].at = "done" => u \in placed' /\ client'[u].req = "none"
      /\ client[u].del # "no" => client'[u].at \in {"cancelled", "done"}
      /\ u \in placed' /\ ~client'[u].lost => client'[u].at = "done" /\ client'[u].req = "none"
  <2>1. CASE NotTold(u)
    BY <1>1, <1>3, <2>1, NotToldGives DEF Tied, DoneIsPlaced, CancelHolds
  <2>2. CASE Told(u, "done") /\ u \in placed'
    <3>1. UploadTypeOK /\ Told(u, "done")
      BY <1>1, <2>2
    <3>2. client'[u].at = "done" /\ client'[u].req = "none"
      BY <3>1, ToldGives
    <3> QED
      BY <2>2, <3>1, <3>2, ToldGives
  <2>3. CASE Told(u, "error") /\ UNCHANGED placed
    <3>1. UploadTypeOK /\ Told(u, "error")
      BY <1>1, <2>3
    <3>2. /\ client'[u].at \in {"error", "cancelled"} /\ client'[u].req = "none"
          /\ client'[u].lost = client[u].lost
      BY <3>1, ToldGives
    <3>3. u \in placed' => client[u].lost
      BY <1>1, <2>3 DEF Tied, DoneIsPlaced
    <3>4. client[u].del # "no" => client[u].at = "cancelled"
      BY <1>1 DEF Tied, DoneIsPlaced, CancelHolds
    <3>5. client[u].at = "cancelled" => client'[u].at = "cancelled"
      BY <3>1, ToldGives
    <3> QED
      BY <3>1, <3>2, <3>3, <3>4, <3>5, ToldGives
  <2> QED
    BY <2>1, <2>2, <2>3 DEF HandleComplete, CrashComplete
<1>8. UploadTypeOK'
  BY <1>1, <1>2, <1>4, <1>6, <1>7 DEF UploadTypeOK, Browser, Session
<1>9. Tied(u)'
  BY <1>1, <1>6, <1>7 DEF Tied, AskedFirst, CreateIsFirst, CancelHolds, DoneIsPlaced
<1> QED
  BY <1>4, <1>6, <1>7, <1>8, <1>9, OneAtATime

(* A cancel is answered with success only when the session keeps it.       *)
LEMMA DropKeeps ==
    ASSUME UploadInv, NEW u \in Uploads, HandleDelete(u) \/ Gc(u)
    PROVE  UploadInv'
<1>1. /\ UploadTypeOK /\ Tied(u) /\ client \in [Uploads -> Browser] /\ client[u] \in Browser
      /\ ses \in [Uploads -> Session] /\ ses[u] \in Session
      /\ Restarted \in [Uploads -> [Parts -> {"todo", "sent", "loaded", "done"}]]
  BY TypesOfUpload DEF UploadInv
<1>2. UNCHANGED <<final, expired, placed>> /\ put' \in {put, Restarted}
  BY DEF HandleDelete, Gc
<1>3. \/ ses' = ses
      \/ ses' = [ses EXCEPT ![u].cancelled = TRUE]
      \/ \E st \in {"torn", "gone"} : ses' = [ses EXCEPT ![u].st = st]
  BY DEF HandleDelete, Gc
<1>4. /\ ses' \in [Uploads -> Session] /\ \A v \in Uploads \ {u} : ses'[v] = ses[v]
      /\ ses'[u].over = ses[u].over
      /\ ses[u].cancelled => ses'[u].cancelled
  <2>1. CASE ses' = ses
    BY <1>1, <2>1
  <2>2. CASE ses' = [ses EXCEPT ![u].cancelled = TRUE]
    BY <1>1, <2>2 DEF Session
  <2>3. CASE \E st \in {"torn", "gone"} : ses' = [ses EXCEPT ![u].st = st]
    <3>1. PICK st \in {"torn", "gone"} : ses' = [ses EXCEPT ![u].st = st]
      BY <2>3
    <3> DEFINE s == [ses[u] EXCEPT !.st = st]
    <3>2. s \in Session /\ s.over = ses[u].over /\ s.cancelled = ses[u].cancelled
      BY <1>1 DEF Session
    <3>3. ses' = [ses EXCEPT ![u] = s]
      BY <1>1, <3>1
    <3> HIDE DEF s
    <3> QED
      BY <1>1, <3>2, <3>3
  <2> QED
    BY <1>3, <2>1, <2>2, <2>3
<1>5. client' = client \/ \E a \in {"heard", "failed"} : client' = [client EXCEPT ![u].del = a]
  BY DEF HandleDelete, Gc
<1>6. /\ client' \in [Uploads -> Browser] /\ \A v \in Uploads \ {u} : client'[v] = client[v]
      /\ client'[u].req = client[u].req /\ client'[u].over = client[u].over
      /\ client'[u].lost = client[u].lost /\ client'[u].at = client[u].at
      /\ client'[u].del = client[u].del \/ client[u].del = "sent"
  <2>1. CASE client' = client
    BY <1>1, <2>1
  <2>2. CASE \E a \in {"heard", "failed"} : client' = [client EXCEPT ![u].del = a]
    <3>1. client' = client \/ client[u].del = "sent"
      BY DEF HandleDelete, Gc
    <3>2. PICK a \in {"heard", "failed"} : client' = [client EXCEPT ![u].del = a]
      BY <2>2
    <3> QED
      BY <1>1, <3>1, <3>2 DEF Browser
  <2> QED
    BY <1>5, <2>1, <2>2
<1>7. client'[u].del = "heard" => ses'[u].cancelled
  <2>1. CASE client' = client
    BY <1>1, <1>4, <2>1 DEF Tied, CancelHolds
  <2>2. CASE client' = [client EXCEPT ![u].del = "heard"] /\ ses' = [ses EXCEPT ![u].cancelled = TRUE]
    BY <1>1, <2>2 DEF Session
  <2>3. CASE client' = [client EXCEPT ![u].del = "failed"]
    BY <1>1, <2>3 DEF Browser
  <2> QED
    BY <2>1, <2>2, <2>3 DEF HandleDelete, Gc
<1>8. UploadTypeOK'
  BY <1>1, <1>2, <1>4, <1>6 DEF UploadTypeOK, Browser, Session
<1>9. Tied(u)'
  BY <1>1, <1>2, <1>4, <1>6, <1>7 DEF Tied, AskedFirst, CreateIsFirst, CancelHolds, DoneIsPlaced
<1> QED
  BY <1>2, <1>4, <1>6, <1>8, <1>9, OneAtATime DEF UploadInv, Exists

LEMMA StepUpload == UploadInv /\ [UploadNext]_uploadVars => UploadInv'
<1> SUFFICES ASSUME UploadInv, [UploadNext]_uploadVars PROVE UploadInv'
  OBVIOUS
<1>1. CASE UploadNext
  BY <1>1, StartKeeps, CreateKeeps, PutKeeps, CompleteKeeps, DropKeeps DEF UploadNext
<1>2. CASE UNCHANGED uploadVars
  BY <1>2 DEF uploadVars, UploadInv, UploadTypeOK, Tied, AskedFirst, CreateIsFirst, CancelHolds,
              DoneIsPlaced, Exists
<1> QED
  BY <1>1, <1>2

LEMMA UploadInductive == UploadSpec => []UploadInv
<1> QED
  BY InitUpload, StepUpload, PTL DEF UploadSpec

(* The variables of the uploads keep their types.                          *)
THEOREM UploadTypes == UploadSpec => []UploadTypeOK
<1>1. UploadInv => UploadTypeOK
  BY DEF UploadInv
<1> QED
  BY <1>1, UploadInductive, PTL

(* Only a completion changes the file or the record of what was placed.    *)
LEMMA OnlyCompletion ==
    ASSUME UploadNext, final' # final \/ placed' # placed
    PROVE  \E u \in Uploads : HandleComplete(u) \/ CrashComplete(u)
<1> QED
  BY DEF UploadNext, Start, Expire, HandleCreate, CrashCreate, HandleExpired, PutSend, PutLoad, PutWrite,
         AskComplete, CancelUpload, HandleDelete, Gc

LEMMA StepIsRight ==
    ASSUME UploadInv, UploadNext
    PROVE  /\ final' # final /\ Exists =>
                  \E u \in Uploads : client[u].over /\ client[u].req = "complete"
           /\ \A u \in Uploads : client[u].del = "heard" => (u \in placed' => u \in placed)
<1>1. ASSUME NEW u \in Uploads, HandleComplete(u) \/ CrashComplete(u)
      PROVE  /\ final' # final /\ Exists => client[u].over /\ client[u].req = "complete"
             /\ placed' \subseteq placed \/ (placed' = placed \union {u} /\ client[u].del # "heard")
  <2>1. Tied(u)
    BY DEF UploadInv
  <2>2. CASE HandleComplete(u)
    BY <2>1, <2>2 DEF HandleComplete, MayComplete, Tied, AskedFirst, CancelHolds
  <2>3. CASE CrashComplete(u)
    BY <2>1, <2>3 DEF CrashComplete, MayComplete, Tied, AskedFirst, CancelHolds
  <2> QED
    BY <1>1, <2>2, <2>3
<1> QED
  BY <1>1, OnlyCompletion

(* What a step makes of the sets of PlacedFile, if it is about one upload. *)
LEMMA FileShows ==
    ASSUME NEW u \in Uploads, \A v \in Uploads \ {u} : client'[v] = client[v]
    PROVE  /\ (client'[u].over <=> client[u].over) => Agreed' = Agreed
           /\ client'[u].over => Agreed' = Agreed \union {u}
           /\ (client'[u].del = "heard" <=> client[u].del = "heard") => Heard' = Heard
           /\ client'[u].del = "heard" => Heard' = Heard \union {u}
           /\ (client'[u].at = "done" <=> client[u].at = "done") => Served' = Served
           /\ client'[u].at = "done" => Served' = Served \union {u}
  BY DEF Agreed, Heard, Served

LEMMA FileUntouched ==
    ASSUME NEW u \in Uploads, \A v \in Uploads \ {u} : client'[v] = client[v],
           final' = final, placed' = placed,
           client'[u].over <=> client[u].over,
           client'[u].del = "heard" <=> client[u].del = "heard",
           client'[u].at = "done" <=> client[u].at = "done"
    PROVE  UNCHANGED <<final.by, Agreed, Heard, placed, Served>>
  BY FileShows

(* Neither the start nor the chunks of an upload nor its end show.         *)
LEMMA QuietUpload ==
    ASSUME UploadInv, NEW u \in Uploads,
           \/ Start(u) \/ Expire(u) \/ AskComplete(u) \/ CancelUpload(u) \/ Gc(u) \/ HandleExpired(u)
           \/ \E i \in Parts : PutSend(u, i) \/ PutLoad(u, i) \/ PutWrite(u, i)
    PROVE  UNCHANGED <<final.by, Agreed, Heard, placed, Served>>
<1>1. UploadTypeOK /\ Tied(u) /\ client \in [Uploads -> Browser] /\ client[u] \in Browser
  BY TypesOfUpload DEF UploadInv
<1>2. final' = final /\ placed' = placed
  BY DEF Start, Expire, AskComplete, CancelUpload, Gc, HandleExpired, PutSend, PutLoad, PutWrite
<1>3. CASE HandleExpired(u)
  <2>1. UploadTypeOK /\ Told(u, "error") /\ client[u].at # "done"
    BY <1>1, <1>3 DEF HandleExpired, Tied, DoneIsPlaced
  <2> QED
    BY <1>2, <2>1, ToldGives, FileUntouched
<1>4. CASE CancelUpload(u)
  <2> DEFINE c == [client[u] EXCEPT !.at = "cancelled",
                      !.del = IF client[u].at = "create" THEN "no" ELSE "sent"]
  <2>1. client[u].at \in {"create", "chunks", "complete"} /\ client' = [client EXCEPT ![u] = c]
    BY <1>1, <1>4 DEF CancelUpload
  <2>2. c.at = "cancelled" /\ c.over = client[u].over /\ c.del \in {"no", "sent"}
    BY <1>1 DEF Browser
  <2> HIDE DEF c
  <2>3. client[u].del # "heard"
    BY <1>1, <2>1 DEF Tied, CancelHolds
  <2> QED
    BY <1>1, <1>2, <2>1, <2>2, <2>3, FileUntouched
<1>5. CASE Start(u) \/ AskComplete(u)
  <2>1. PICK at \in {"create", "complete"} : client' = [client EXCEPT ![u].at = at, ![u].req = at]
    BY <1>5 DEF Start, AskComplete
  <2>2. client[u].at # "done"
    BY <1>5 DEF Start, AskComplete
  <2> DEFINE c == [client[u] EXCEPT !.at = at, !.req = at]
  <2>3. client' = [client EXCEPT ![u] = c] /\ c.at = at /\ c.over = client[u].over /\ c.del = client[u].del
    BY <1>1, <2>1 DEF Browser
  <2> HIDE DEF c
  <2> QED
    BY <1>1, <1>2, <2>2, <2>3, FileUntouched
<1>6. ASSUME NEW i \in Parts, PutSend(u, i) \/ PutLoad(u, i) \/ PutWrite(u, i)
      PROVE  UNCHANGED <<final.by, Agreed, Heard, placed, Served>>
  <2> DEFINE c == [client[u] EXCEPT !.at = IF @ = "chunks" THEN "error" ELSE @]
  <2>1. client' = client \/ client' = [client EXCEPT ![u] = c]
    BY <1>1, <1>6 DEF PutSend, PutLoad, PutWrite, PutFails
  <2>2. /\ c.at = IF client[u].at = "chunks" THEN "error" ELSE client[u].at
        /\ c.over = client[u].over /\ c.del = client[u].del
    BY <1>1 DEF Browser
  <2> HIDE DEF c
  <2> QED
    BY <1>1, <1>2, <2>1, <2>2, FileUntouched
<1>7. CASE Expire(u) \/ Gc(u)
  BY <1>2, <1>7, FileUntouched DEF Expire, Gc
<1> QED
  BY <1>3, <1>4, <1>5, <1>6, <1>7

(* A creation may ask whether to replace; a cancel may be confirmed.       *)
LEMMA CreateShows ==
    ASSUME UploadInv, NEW u \in Uploads, HandleCreate(u) \/ CrashCreate(u)
    PROVE  \/ UNCHANGED <<final.by, Agreed, Heard, placed, Served>>
           \/ File!Agree(u)
<1>1. UploadTypeOK /\ Tied(u) /\ client[u] \in Browser
  BY TypesOfUpload DEF UploadInv
<1>2. UNCHANGED <<final, placed>> /\ client[u].req = "create"
  BY DEF HandleCreate, CrashCreate
<1>3. client[u].at # "done" /\ client[u].del = "no"
  BY <1>1, <1>2 DEF Tied, CreateIsFirst
<1>4. PICK at \in {"create", "error", "chunks"} : Told(u, at) \/ NotTold(u)
  BY DEF HandleCreate, CrashCreate
<1>5. /\ \A v \in Uploads \ {u} : client'[v] = client[v]
      /\ client[u].over => client'[u].over
      /\ client'[u].at # "done" /\ client'[u].del = client[u].del
  <2>1. CASE Told(u, at)
    BY <1>1, <1>3, <2>1, ToldGives
  <2>2. CASE NotTold(u)
    BY <1>1, <1>3, <2>2, NotToldGives
  <2> QED
    BY <1>4, <2>1, <2>2
<1>6. CASE client'[u].over /\ ~client[u].over
  <2>1. Agreed' = Agreed \union {u} /\ Heard' = Heard /\ Served' = Served
    BY <1>3, <1>5, <1>6, FileShows
  <2> QED
    BY <1>2, <2>1 DEF File!Agree
<1>7. CASE client'[u].over <=> client[u].over
  BY <1>2, <1>3, <1>5, <1>7, FileUntouched
<1> QED
  BY <1>5, <1>6, <1>7

LEMMA DeleteShows ==
    ASSUME UploadInv, NEW u \in Uploads, HandleDelete(u)
    PROVE  \/ UNCHANGED <<final.by, Agreed, Heard, placed, Served>>
           \/ File!Cancel(u)
<1>1. client \in [Uploads -> Browser] /\ client[u] \in Browser
  BY TypesOfUpload DEF UploadInv
<1>2. UNCHANGED <<final, placed>> /\ client[u].del = "sent"
  BY DEF HandleDelete
<1>3. PICK a \in {"heard", "failed"} : client' = [client EXCEPT ![u].del = a]
  BY DEF HandleDelete
<1>4. /\ \A v \in Uploads \ {u} : client'[v] = client[v]
      /\ client'[u].over = client[u].over /\ client'[u].at = client[u].at /\ client'[u].del = a
  BY <1>1, <1>3 DEF Browser
<1>5. CASE a = "heard"
  <2>1. Agreed' = Agreed /\ Heard' = Heard \union {u} /\ Served' = Served
    BY <1>4, <1>5, FileShows
  <2> QED
    BY <1>2, <2>1 DEF File!Cancel
<1>6. CASE a = "failed"
  BY <1>2, <1>4, <1>6, FileUntouched
<1> QED
  BY <1>5, <1>6

(* A completion puts the file there at once, or a crash loses the old one. *)
LEMMA CompleteShows ==
    ASSUME UploadInv, NEW u \in Uploads, HandleComplete(u) \/ CrashComplete(u)
    PROVE  \/ UNCHANGED <<final.by, Agreed, Heard, placed, Served>>
           \/ File!Place(u) \/ File!Lose(u)
<1>1. UploadTypeOK /\ Tied(u) /\ client[u] \in Browser /\ client[u].at # "done"
  BY TypesOfUpload DEF UploadInv, HandleComplete, CrashComplete, Tied, DoneIsPlaced
<1>2. /\ \A v \in Uploads \ {u} : client'[v] = client[v]
      /\ client'[u].over = client[u].over /\ client'[u].del = client[u].del
      /\ NotTold(u) \/ Told(u, "error") => client'[u].at # "done"
  <2>1. /\ NotTold(u) => client'[u].at # "done"
        /\ Told(u, "error") => client'[u].at # "done"
    BY <1>1, NotToldGives, ToldGives
  <2>2. NotTold(u) \/ Told(u, "done") \/ Told(u, "error")
    BY DEF HandleComplete, CrashComplete
  <2>3. /\ \A v \in Uploads \ {u} : client'[v] = client[v]
        /\ client'[u].over = client[u].over /\ client'[u].del = client[u].del
    BY <1>1, <2>2, NotToldGives, ToldGives
  <2> QED
    BY <2>1, <2>3
<1>3. Agreed' = Agreed /\ Heard' = Heard /\ Served' \in {Served, Served \union {u}}
  BY <1>1, <1>2, FileShows
<1>4. CASE MayComplete(u)
  <2>1. final = Nothing => final.by = "nobody"
    BY DEF Nothing
  <2>2. File!MayPlace(u)
    BY <1>1, <1>4, <2>1 DEF File!MayPlace, MayComplete, Exists, Agreed, Heard, Tied, AskedFirst, CancelHolds
  <2>3. CASE final' = [by |-> u, parts |-> ses[u].got] /\ placed' = placed \union {u}
    BY <1>3, <2>2, <2>3 DEF File!Place
  <2>4. CASE final' = Nothing /\ placed' = placed /\ NotTold(u)
    <3>1. Served' = Served /\ final'.by = "nobody"
      BY <1>1, <1>2, <2>4, FileShows DEF Nothing
    <3> QED
      BY <1>3, <2>2, <2>4, <3>1 DEF File!Lose
  <2> QED
    BY <1>4, <2>3, <2>4 DEF HandleComplete, CrashComplete
<1>5. CASE ~MayComplete(u)
  <2>1. (NotTold(u) \/ Told(u, "error")) /\ final' = final /\ placed' = placed
    BY <1>5 DEF HandleComplete, CrashComplete
  <2> QED
    BY <1>1, <1>2, <2>1, FileUntouched
<1> QED
  BY <1>4, <1>5

LEMMA UploadShows ==
    UploadInv /\ [UploadNext]_uploadVars => [File!Next]_<<final.by, Agreed, Heard, placed, Served>>
<1> SUFFICES ASSUME UploadInv, [UploadNext]_uploadVars
             PROVE  [File!Next]_<<final.by, Agreed, Heard, placed, Served>>
  OBVIOUS
<1>1. CASE UNCHANGED uploadVars
  BY <1>1 DEF uploadVars, Agreed, Heard, Served
<1>2. CASE UploadNext
  <2>1. PICK u \in Uploads :
          \/ Start(u) \/ Expire(u) \/ HandleCreate(u) \/ CrashCreate(u) \/ HandleExpired(u)
          \/ \E i \in Parts : PutSend(u, i) \/ PutLoad(u, i) \/ PutWrite(u, i)
          \/ AskComplete(u) \/ HandleComplete(u) \/ CrashComplete(u)
          \/ CancelUpload(u) \/ HandleDelete(u) \/ Gc(u)
    BY <1>2 DEF UploadNext
  <2> QED
    BY <2>1, QuietUpload, CreateShows, DeleteShows, CompleteShows DEF File!Next
<1> QED
  BY <1>1, <1>2

LEMMA UploadShowsFirst == UploadInit => File!Init
  BY DEF UploadInit, File!Init, Agreed, Heard, Served, Nothing, Before

(* For any number of uploads, chunks, retries and crashes: the uploads are *)
(* a PlacedFile, whose one step puts a whole file in its place for an      *)
(* upload that is not cancelled, over another only with consent.           *)
THEOREM UploadPlaces == UploadSpec => ImplementsPlacedFile
<1> QED
  BY UploadShowsFirst, UploadShows, UploadInductive, PTL
  DEF UploadSpec, ImplementsPlacedFile, File!Spec

(* For any number of uploads, chunks, crashes and lost answers: the file   *)
(* is whole, the browsers are told the truth, a file is replaced only for  *)
(* somebody who agreed, and a cancelled upload puts nothing in place       *)
(* (create_upload, put_chunk, complete_upload, cancel_upload, gc_once).    *)
THEOREM UploadIsSound == UploadSpec => UploadSound
<1>1. UploadInv => AnswersAreTrue
  BY DEF UploadInv, AnswersAreTrue, Tied, DoneIsPlaced
<1>2. UploadInv /\ [UploadNext]_uploadVars =>
        [/\ final' # final /\ Exists =>
               \E u \in Uploads : client[u].over /\ client[u].req = "complete"
         /\ \A u \in Uploads : client[u].del = "heard" => (u \in placed' => u \in placed)]_uploadVars
  BY StepIsRight
<1> QED
  BY <1>1, <1>2, UploadInductive, UploadPlaces, PTL DEF UploadSpec, UploadSound, PlacedRightly
-----------------------------------------------------------------------------
(* The creation queue (CreatorDesk).                                       *)

(* Ids are given out in order, each to one task at a time.                 *)
ShelfOK ==
    /\ counter <= ordered
    /\ \A t \in shelf : t.id < counter /\ t.no <= ordered
    /\ \A t, u \in shelf : t.id = u.id \/ t.no = u.no => t = u

(* SeedMatches and NeverTwice are not inductive.  A task whose going is    *)
(* still to be announced is with one batch or one DELETE, and nowhere else. *)
Travels(n) == \E b \in batches : n \in b.todo
Posting(d, n) == deleter[d].at = "publish" /\ deleter[d].no = n

PlacesOK ==
    /\ \A n \in Numbers : n \in NumbersOf(shelf) => announced[n] = 0 /\ ~Travels(n)
    /\ \A n \in Numbers : Travels(n) => announced[n] = 0 /\ n <= ordered
    /\ \A b, c \in batches : b.todo \cap c.todo # {} => b = c
    /\ \A d \in Deleters, n \in Numbers : Posting(d, n) =>
          /\ announced[n] = 0 /\ n <= ordered /\ n \notin NumbersOf(shelf) /\ ~Travels(n)
          /\ \A e \in Deleters : Posting(e, n) => e = d
    /\ \A d \in Deleters : deleter[d].at = "publish" => deleter[d].no \in Numbers
    /\ \A n \in Numbers : announced[n] <= 1 /\ (n > ordered => announced[n] = 0)

(* What a seed request has read is of the task it was asked for, and the   *)
(* next look can find no other under its id.                               *)
SeedersOK ==
    \A s \in Seeders : seeder[s].at # "idle" /\ ~seeder[s].crossed =>
        /\ seeder[s].id < counter
        /\ \A t \in shelf : t.id = seeder[s].id => t.no = seeder[s].meant
        /\ seeder[s].at \in {"bytes", "add"} => seeder[s].path = seeder[s].meant
        /\ seeder[s].at = "add" => seeder[s].payload = seeder[s].meant

DeskInv == DeskTypeOK /\ ShelfOK /\ PlacesOK /\ SeedersOK /\ SeedMatches

Tasks == [id : 0..MaxTasks, no : Numbers, done : BOOLEAN, old : BOOLEAN]
Batches == [todo : SUBSET Numbers, at : {"engine", "api"}]
Deletes == [at : {"idle", "asked", "publish"}, id : 0..MaxTasks, no : 0..MaxTasks]
Seeds == [at : {"idle", "task", "bytes", "add"}, id : 0..MaxTasks, meant : 0..MaxTasks,
          path : 0..MaxTasks, payload : 0..MaxTasks, crossed : BOOLEAN]

-----------------------------------------------------------------------------
LEMMA DeskStarts == DeskInit => DeskInv
<1> SUFFICES ASSUME DeskInit PROVE DeskInv
  OBVIOUS
<1>1. NoDelete \in Deletes /\ NoSeed \in Seeds /\ NoDelete.at = "idle" /\ NoSeed.at = "idle"
  BY DeskAssumption DEF NoDelete, NoSeed, Deletes, Seeds
<1>2. DeskTypeOK
  BY <1>1, DeskAssumption DEF DeskInit, DeskTypeOK, Deletes, Seeds, Numbers
<1>3. ShelfOK /\ SeedersOK /\ SeedMatches
  BY <1>1 DEF DeskInit, ShelfOK, SeedersOK, SeedMatches
<1>4. PlacesOK
  BY <1>1 DEF DeskInit, PlacesOK, Travels, Posting, NumbersOf, Numbers
<1> QED
  BY <1>2, <1>3, <1>4 DEF DeskInv

(* A shelf on which nothing has another id or number than before.          *)
LEMMA ShelfLess ==
    ASSUME ShelfOK, counter' = counter, ordered' = ordered, shelf' \subseteq shelf
    PROVE  ShelfOK' /\ NumbersOf(shelf)' \subseteq NumbersOf(shelf)
BY DEF ShelfOK, NumbersOf

LEMMA SeedersStay ==
    ASSUME DeskTypeOK, SeedersOK, SeedMatches, seeder' = seeder, seeded' = seeded,
           counter' \in Nat, counter <= counter',
           \A t \in shelf' : (\E u \in shelf : u.id = t.id /\ u.no = t.no) \/ t.id = counter
    PROVE  SeedersOK' /\ SeedMatches'
<1>1. SeedMatches'
  BY DEF SeedMatches
<1>2. ASSUME NEW s \in Seeders, seeder[s].at # "idle", ~seeder[s].crossed
      PROVE  /\ seeder[s].id < counter'
             /\ \A t \in shelf' : t.id = seeder[s].id => t.no = seeder[s].meant
  <2>1. /\ seeder[s].id < counter /\ seeder[s].id \in Nat /\ counter \in Nat
        /\ \A t \in shelf : t.id = seeder[s].id => t.no = seeder[s].meant
    BY <1>2, DeskAssumption DEF SeedersOK, DeskTypeOK
  <2> QED
    BY <2>1
<1>3. SeedersOK'
  BY <1>2 DEF SeedersOK
<1> QED
  BY <1>1, <1>3

(* What travels or is posted, less than before, still has its one place.   *)
LEMMA PlacesLess ==
    ASSUME PlacesOK, ordered' = ordered, announced' = announced,
           NumbersOf(shelf)' \subseteq NumbersOf(shelf),
           \A n \in Numbers : Travels(n)' => Travels(n),
           \A b, c \in batches' : b.todo \cap c.todo # {} => b = c,
           \A d \in Deleters : deleter'[d].at = "publish" => deleter'[d] = deleter[d]
    PROVE  PlacesOK'
<1>1. \A d \in Deleters, n \in Numbers : Posting(d, n)' => Posting(d, n)
  BY DEF Posting
<1> QED
  BY <1>1 DEF PlacesOK

(* What Kafka was told of, or was not, is nowhere any more.                *)
LEMMA PlacesTold ==
    ASSUME DeskTypeOK, PlacesOK, NEW n \in Numbers, ToKafka(n), ordered' = ordered, shelf' = shelf,
           n <= ordered, n \notin NumbersOf(shelf), announced[n] = 0,
           \A m \in Numbers : Travels(m)' => Travels(m) /\ m # n,
           \A b, c \in batches' : b.todo \cap c.todo # {} => b = c,
           \A d \in Deleters : deleter'[d].at = "publish" => deleter'[d] = deleter[d] /\ deleter[d].no # n
    PROVE  PlacesOK'
<1>1. /\ \A m \in Numbers : m # n => announced'[m] = announced[m]
      /\ announced'[n] \in {0, 1} /\ ordered \in Nat /\ n \in Nat
  <2>1. announced \in [Numbers -> Nat] /\ ordered \in Nat /\ n \in Nat
    BY DeskAssumption DEF DeskTypeOK, Numbers
  <2>2. announced' = announced \/ announced' = [announced EXCEPT ![n] = announced[n] + 1]
    BY DEF ToKafka
  <2> QED
    BY <2>1, <2>2
<1>2. \A d \in Deleters, m \in Numbers : Posting(d, m)' => Posting(d, m) /\ m # n
  BY DEF Posting
<1>3. NumbersOf(shelf)' = NumbersOf(shelf)
  OBVIOUS
<1>4. \A m \in Numbers : /\ m \in NumbersOf(shelf)' => announced'[m] = 0 /\ ~Travels(m)'
                         /\ Travels(m)' => announced'[m] = 0 /\ m <= ordered'
                         /\ announced'[m] <= 1 /\ (m > ordered' => announced'[m] = 0)
  BY <1>1, <1>3 DEF PlacesOK
<1>5. \A d \in Deleters, m \in Numbers : Posting(d, m)' =>
        /\ announced'[m] = 0 /\ m <= ordered' /\ m \notin NumbersOf(shelf)' /\ ~Travels(m)'
        /\ \A e \in Deleters : Posting(e, m)' => e = d
  BY <1>1, <1>2, <1>3 DEF PlacesOK
<1>6. \A d \in Deleters : deleter'[d].at = "publish" => deleter'[d].no \in Numbers
  BY DEF PlacesOK
<1> QED
  BY <1>4, <1>5, <1>6 DEF PlacesOK

LEMMA TaskCreateKeeps ==
    ASSUME DeskInv, CreateTask
    PROVE  DeskInv'
<1> DEFINE t == [id |-> counter, no |-> ordered + 1, done |-> FALSE, old |-> FALSE]
<1>1. /\ DeskTypeOK /\ ShelfOK /\ PlacesOK /\ SeedersOK /\ SeedMatches
      /\ ordered \in Nat /\ counter \in Nat /\ counter <= ordered /\ ordered < MaxTasks /\ MaxTasks \in Nat
      /\ ordered' = ordered + 1 /\ counter' = counter + 1 /\ shelf' = shelf \union {t}
      /\ UNCHANGED <<batches, deleter, seeder, seeded, announced, lost, deskFaults>>
  BY DeskAssumption DEF DeskInv, CreateTask, NextId, DeskTypeOK, ShelfOK
<1>2. t \in Tasks /\ t.id = counter /\ t.no = ordered + 1
  BY <1>1 DEF Tasks, Numbers
<1> HIDE DEF t
<1>3. DeskTypeOK'
  BY <1>1, <1>2 DEF DeskTypeOK, Tasks
<1>4. \A u \in shelf : u.id \in Nat /\ u.no \in Nat
  BY <1>1 DEF DeskTypeOK, Numbers
<1>5. ShelfOK'
  BY <1>1, <1>2, <1>4 DEF ShelfOK
<1>6. SeedersOK' /\ SeedMatches'
  BY <1>1, <1>2, SeedersStay
<1>7. PlacesOK'
  <2>1. NumbersOf(shelf)' = NumbersOf(shelf) \union {ordered + 1}
    BY <1>1, <1>2 DEF NumbersOf
  <2>2. \A n \in Numbers : (Travels(n)' <=> Travels(n)) /\ \A d \in Deleters : (Posting(d, n)' <=> Posting(d, n))
    BY <1>1 DEF Travels, Posting
  <2>3. \A n \in Numbers : n \in Nat
    BY DEF Numbers
  <2>4. ~Travels(ordered + 1) /\ \A d \in Deleters : ~Posting(d, ordered + 1)
    BY <1>1 DEF PlacesOK, Numbers
  <2>5. \A n \in Numbers : n > ordered' => announced'[n] = 0
    BY <1>1, <2>3 DEF PlacesOK
  <2>6. ordered + 1 \in Numbers /\ announced[ordered + 1] = 0
    BY <1>1 DEF PlacesOK, Numbers
  <2>7. \A n \in Numbers : n \in NumbersOf(shelf)' => announced'[n] = 0 /\ ~Travels(n)'
    BY <1>1, <2>1, <2>2, <2>4, <2>6 DEF PlacesOK
  <2>8. \A n \in Numbers : Travels(n)' => announced'[n] = 0 /\ n <= ordered'
    BY <1>1, <2>2, <2>3 DEF PlacesOK
  <2>9. \A d \in Deleters, n \in Numbers : Posting(d, n)' =>
          /\ announced'[n] = 0 /\ n <= ordered' /\ n \notin NumbersOf(shelf)' /\ ~Travels(n)'
          /\ \A e \in Deleters : Posting(e, n)' => e = d
    <3> SUFFICES ASSUME NEW d \in Deleters, NEW n \in Numbers, Posting(d, n)
                 PROVE  /\ announced'[n] = 0 /\ n <= ordered' /\ n \notin NumbersOf(shelf)' /\ ~Travels(n)'
                        /\ \A e \in Deleters : Posting(e, n) => e = d
      BY <2>2
    <3>1. /\ announced[n] = 0 /\ n <= ordered /\ n \notin NumbersOf(shelf) /\ ~Travels(n)
          /\ \A e \in Deleters : Posting(e, n) => e = d
      BY <1>1 DEF PlacesOK
    <3>2. n # ordered + 1
      BY <2>4
    <3> QED
      BY <1>1, <2>1, <2>2, <2>3, <3>1, <3>2
  <2>10. /\ \A b, c \in batches' : b.todo \cap c.todo # {} => b = c
         /\ \A d \in Deleters : deleter'[d].at = "publish" => deleter'[d].no \in Numbers
         /\ \A n \in Numbers : announced'[n] <= 1
    BY <1>1 DEF PlacesOK
  <2> QED
    BY <2>5, <2>7, <2>8, <2>9, <2>10 DEF PlacesOK
<1> QED
  BY <1>3, <1>5, <1>6, <1>7 DEF DeskInv

(* A task is built, or grows old.                                          *)
LEMMA RenewKeeps ==
    ASSUME DeskInv, NEW t \in shelf, Built(t) \/ Ages(t)
    PROVE  DeskInv'
<1>1. /\ DeskTypeOK /\ ShelfOK /\ PlacesOK /\ SeedersOK /\ SeedMatches /\ counter \in Nat
      /\ UNCHANGED <<counter, batches, deleter, seeder, seeded, ordered, announced, lost, deskFaults>>
  BY DEF DeskInv, Built, Ages, DeskTypeOK
<1>2. PICK u \in Tasks : u.id = t.id /\ u.no = t.no /\ shelf' = (shelf \ {t}) \union {u}
  <2>1. t \in Tasks
    BY <1>1 DEF DeskTypeOK, Tasks
  <2> QED
    BY <2>1 DEF Built, Ages, Tasks
<1>3. DeskTypeOK'
  BY <1>1, <1>2 DEF DeskTypeOK, Tasks
<1>4. ShelfOK'
  BY <1>1, <1>2 DEF ShelfOK
<1>5. NumbersOf(shelf)' = NumbersOf(shelf)
  BY <1>2 DEF NumbersOf
<1>6. PlacesOK'
  <2>1. \A n \in Numbers : Travels(n)' <=> Travels(n)
    BY <1>1 DEF Travels
  <2> QED
    BY <1>1, <1>5, <2>1, PlacesLess DEF PlacesOK
<1>7. SeedersOK' /\ SeedMatches'
  BY <1>1, <1>2, SeedersStay
<1> QED
  BY <1>3, <1>4, <1>6, <1>7 DEF DeskInv

(* Old tasks leave the shelf with one batch.                               *)
LEMMA PrunedKeeps ==
    ASSUME DeskInv, Pruned, UNCHANGED <<counter, deleter, ordered, announced>>
    PROVE  /\ ShelfOK' /\ PlacesOK' /\ shelf' \subseteq shelf
           /\ shelf' \subseteq Tasks /\ batches' \subseteq Batches
<1> DEFINE b == [todo |-> NumbersOf(Old), at |-> "engine"]
<1>1. /\ DeskTypeOK /\ ShelfOK /\ PlacesOK /\ shelf' = shelf \ Old /\ shelf \subseteq Tasks
      /\ batches' = IF Old = {} THEN batches ELSE batches \union {b}
      /\ batches \subseteq Batches
  BY DEF DeskInv, Pruned, Kept, DeskTypeOK, Tasks, Batches
<1>2. shelf' \subseteq shelf /\ Old \subseteq shelf
  BY <1>1 DEF Old
<1>3. \A t \in shelf : t.no \in Numbers
  BY <1>1 DEF Tasks
<1>4. b \in Batches /\ b.todo = NumbersOf(Old)
  BY <1>2, <1>3 DEF Batches, NumbersOf
<1> HIDE DEF b
<1>5. batches' \subseteq Batches
  BY <1>1, <1>4
<1>6. ShelfOK' /\ NumbersOf(shelf)' \subseteq NumbersOf(shelf)
  BY <1>1, <1>2, ShelfLess
<1>7. \A n \in NumbersOf(Old) : n \in NumbersOf(shelf) /\ n \notin NumbersOf(shelf)'
  <2> SUFFICES ASSUME NEW t \in Old
               PROVE  t.no \in NumbersOf(shelf) /\ t.no \notin NumbersOf(shelf)'
    BY DEF NumbersOf
  <2>1. \A u \in shelf : u.no = t.no => u = t
    BY <1>1, <1>2 DEF ShelfOK
  <2> QED
    BY <1>1, <1>2, <2>1 DEF NumbersOf
<1>8. \A n \in NumbersOf(shelf) : n \in Numbers /\ n <= ordered
  BY <1>1, <1>3 DEF NumbersOf, ShelfOK
<1>9. \A n \in Numbers : Travels(n)' => Travels(n) \/ n \in NumbersOf(Old)
  BY <1>1, <1>4 DEF Travels
<1>10. \A a, c \in batches' : a.todo \cap c.todo # {} => a = c
  <2>1. \A a \in batches : a.todo \cap b.todo = {}
    <3> SUFFICES ASSUME NEW a \in batches, NEW n \in a.todo, n \in b.todo PROVE FALSE
      OBVIOUS
    <3>1. n \in NumbersOf(shelf) /\ n \in Numbers /\ Travels(n)
      BY <1>4, <1>7, <1>8 DEF Travels
    <3> QED
      BY <1>1, <3>1 DEF PlacesOK
  <2> QED
    BY <1>1, <2>1 DEF PlacesOK
<1>11. \A d \in Deleters, n \in Numbers : Posting(d, n)' <=> Posting(d, n)
  BY DEF Posting
<1>12. PlacesOK'
  BY <1>1, <1>6, <1>7, <1>8, <1>9, <1>10, <1>11 DEF PlacesOK
<1> QED
  BY <1>1, <1>2, <1>5, <1>6, <1>12

LEMMA ReapKeeps ==
    ASSUME DeskInv, Reap
    PROVE  DeskInv'
<1>1. /\ DeskTypeOK /\ SeedersOK /\ SeedMatches /\ counter \in Nat /\ Pruned
      /\ UNCHANGED <<counter, deleter, seeder, seeded, ordered, announced, lost, deskFaults>>
  BY DEF DeskInv, Reap, DeskTypeOK
<1>2. /\ ShelfOK' /\ PlacesOK' /\ shelf' \subseteq shelf
      /\ shelf' \subseteq Tasks /\ batches' \subseteq Batches
  BY <1>1, PrunedKeeps
<1>3. DeskTypeOK'
  BY <1>1, <1>2 DEF DeskTypeOK, Tasks, Batches
<1>4. SeedersOK' /\ SeedMatches'
  BY <1>1, <1>2, SeedersStay
<1> QED
  BY <1>2, <1>3, <1>4 DEF DeskInv

(* Of a batch that is to be announced, nothing is anywhere else.           *)
LEMMA BatchPlace ==
    ASSUME PlacesOK, NEW b \in batches, NEW n \in Numbers, n \in b.todo
    PROVE  /\ n <= ordered /\ n \notin NumbersOf(shelf) /\ announced[n] = 0
           /\ \A c \in batches : n \in c.todo => c = b
           /\ \A d \in Deleters : ~Posting(d, n)
BY DEF PlacesOK, Travels

(* It goes to the orchestrator, or is lost.                                *)
LEMMA BatchKeeps ==
    ASSUME DeskInv, NEW b \in batches, BatchArrives(b) \/ BatchLost(b)
    PROVE  DeskInv'
<1>1. /\ DeskTypeOK /\ ShelfOK /\ PlacesOK /\ SeedersOK /\ SeedMatches /\ counter \in Nat
      /\ UNCHANGED <<shelf, counter, deleter, seeder, seeded, ordered, announced>>
      /\ b \in Batches /\ batches \subseteq Batches
  BY DEF DeskInv, BatchArrives, BatchLost, DeskTypeOK, Batches
<1>2. PICK c \in Batches : c.todo = b.todo /\ batches' \subseteq (batches \ {b}) \union {c}
  <2>1. CASE BatchArrives(b)
    BY <1>1, <2>1 DEF BatchArrives, Batches
  <2>2. CASE BatchLost(b)
    BY <1>1, <2>2 DEF BatchLost
  <2> QED
    BY <2>1, <2>2
<1>3. lost' \subseteq Numbers /\ deskFaults' \in 0..MaxDeskFaults
  BY <1>1, DeskAssumption DEF BatchArrives, BatchLost, FaultNow, DeskTypeOK, Batches
<1>4. DeskTypeOK'
  BY <1>1, <1>2, <1>3 DEF DeskTypeOK, Batches
<1>5. ShelfOK' /\ NumbersOf(shelf)' \subseteq NumbersOf(shelf)
  BY <1>1, ShelfLess
<1>6. SeedersOK' /\ SeedMatches'
  BY <1>1, SeedersStay
<1>7. \A n \in Numbers : Travels(n)' => Travels(n)
  BY <1>2 DEF Travels
<1>8. \A a, d \in batches' : a.todo \cap d.todo # {} => a = d
  BY <1>1, <1>2 DEF PlacesOK
<1>9. PlacesOK'
  BY <1>1, <1>5, <1>7, <1>8, PlacesLess
<1> QED
  BY <1>4, <1>5, <1>6, <1>9 DEF DeskInv

LEMMA KafkaTypes ==
    ASSUME DeskTypeOK, NEW n \in Numbers, ToKafka(n)
    PROVE  announced' \in [Numbers -> Nat] /\ lost' \subseteq Numbers /\ deskFaults' \in 0..MaxDeskFaults
<1>1. announced \in [Numbers -> Nat] /\ lost \subseteq Numbers /\ deskFaults \in 0..MaxDeskFaults
  BY DEF DeskTypeOK
<1>2. announced[n] + 1 \in Nat
  BY <1>1
<1>3. announced' \in [Numbers -> Nat]
  BY <1>1, <1>2 DEF ToKafka
<1> QED
  BY <1>1, <1>3, DeskAssumption DEF ToKafka, FaultNow

LEMMA BatchPublishKeeps ==
    ASSUME DeskInv, NEW b \in batches, NEW n \in b.todo, BatchPublish(b, n)
    PROVE  DeskInv'
<1>1. /\ DeskTypeOK /\ ShelfOK /\ PlacesOK /\ SeedersOK /\ SeedMatches /\ counter \in Nat
      /\ UNCHANGED <<shelf, counter, deleter, seeder, seeded, ordered>>
      /\ b \in Batches /\ batches \subseteq Batches /\ n \in Numbers /\ ToKafka(n)
  BY DEF DeskInv, BatchPublish, DeskTypeOK, Batches
<1>2. PICK c \in Batches : c.todo = b.todo \ {n} /\ batches' \subseteq (batches \ {b}) \union {c}
  <2> DEFINE c == [b EXCEPT !.todo = b.todo \ {n}]
  <2>1. c \in Batches /\ c.todo = b.todo \ {n}
    BY <1>1 DEF Batches
  <2>2. batches' \subseteq (batches \ {b}) \union {c}
    BY DEF BatchPublish
  <2> QED
    BY <2>1, <2>2
<1>3. DeskTypeOK'
  BY <1>1, <1>2, KafkaTypes DEF DeskTypeOK, Batches
<1>4. ShelfOK'
  BY <1>1, ShelfLess
<1>5. SeedersOK' /\ SeedMatches'
  BY <1>1, SeedersStay
<1>6. /\ n <= ordered /\ n \notin NumbersOf(shelf) /\ announced[n] = 0
      /\ \A a \in batches : n \in a.todo => a = b
      /\ \A d \in Deleters : ~Posting(d, n)
  BY <1>1, BatchPlace
<1>7. \A m \in Numbers : Travels(m)' => Travels(m) /\ m # n
  BY <1>2, <1>6 DEF Travels
<1>8. \A a, d \in batches' : a.todo \cap d.todo # {} => a = d
  BY <1>1, <1>2 DEF PlacesOK
<1>9. \A d \in Deleters : deleter'[d].at = "publish" => deleter'[d] = deleter[d] /\ deleter[d].no # n
  BY <1>1, <1>6 DEF Posting
<1>10. PlacesOK'
  BY <1>1, <1>6, <1>7, <1>8, <1>9, PlacesTold
<1> QED
  BY <1>3, <1>4, <1>5, <1>10 DEF DeskInv

(* DELETE.                                                                 *)
LEMMA DeleteCallKeeps ==
    ASSUME DeskInv, NEW d \in Deleters, NEW t \in shelf, DeleteCall(d, t)
    PROVE  DeskInv'
<1>1. /\ DeskTypeOK /\ ShelfOK /\ PlacesOK /\ SeedersOK /\ SeedMatches /\ counter \in Nat
      /\ UNCHANGED <<shelf, counter, batches, seeder, seeded, ordered, announced, lost, deskFaults>>
      /\ t \in Tasks
  BY DEF DeskInv, DeleteCall, DeskTypeOK, Tasks
<1>2. PICK x \in Deletes : x.at = "asked" /\ deleter' = [deleter EXCEPT ![d] = x]
  <2> DEFINE x == [NoDelete EXCEPT !.at = "asked", !.id = t.id]
  <2>1. NoDelete \in Deletes
    BY DeskAssumption DEF NoDelete, Deletes
  <2>2. x \in Deletes /\ x.at = "asked"
    BY <1>1, <2>1 DEF Deletes, Tasks
  <2>3. deleter' = [deleter EXCEPT ![d] = x]
    BY DEF DeleteCall
  <2> HIDE DEF x
  <2> QED
    BY <2>2, <2>3
<1>3. DeskTypeOK'
  BY <1>1, <1>2 DEF DeskTypeOK, Deletes
<1>4. ShelfOK' /\ NumbersOf(shelf)' \subseteq NumbersOf(shelf)
  BY <1>1, ShelfLess
<1>5. SeedersOK' /\ SeedMatches'
  BY <1>1, SeedersStay
<1>6. \A n \in Numbers : Travels(n)' => Travels(n)
  BY <1>1 DEF Travels
<1>7. \A e \in Deleters : deleter'[e].at = "publish" => deleter'[e] = deleter[e]
  BY <1>1, <1>2 DEF DeskTypeOK
<1>8. PlacesOK'
  BY <1>1, <1>4, <1>6, <1>7, PlacesLess DEF PlacesOK
<1> QED
  BY <1>3, <1>4, <1>5, <1>8 DEF DeskInv

LEMMA DeleteTaskKeeps ==
    ASSUME DeskInv, NEW d \in Deleters, DeleteTask(d)
    PROVE  DeskInv'
<1> DEFINE found == With(deleter[d].id)
<1>1. /\ DeskTypeOK /\ ShelfOK /\ PlacesOK /\ SeedersOK /\ SeedMatches /\ counter \in Nat
      /\ UNCHANGED <<counter, batches, seeder, seeded, ordered, announced>>
      /\ shelf' = shelf \ found /\ shelf \subseteq Tasks
      /\ deleter \in [Deleters -> Deletes] /\ NoDelete \in Deletes
  BY DeskAssumption DEF DeskInv, DeleteTask, DeskTypeOK, Tasks, Deletes, NoDelete
<1>2. found \subseteq shelf /\ \A t, u \in found : t = u
  BY <1>1 DEF With, ShelfOK
<1>3. NumbersOf(found) \subseteq Numbers
  BY <1>1, <1>2 DEF NumbersOf, Tasks
<1>4. lost' \subseteq Numbers /\ deskFaults' \in 0..MaxDeskFaults
  BY <1>1, <1>3, DeskAssumption DEF DeleteTask, FaultNow, DeskTypeOK
<1>5. ShelfOK' /\ NumbersOf(shelf)' \subseteq NumbersOf(shelf)
  BY <1>1, ShelfLess
<1>6. SeedersOK' /\ SeedMatches'
  BY <1>1, SeedersStay
<1>7. \A n \in Numbers : Travels(n)' <=> Travels(n)
  BY <1>1 DEF Travels
<1>8. CASE deleter' = [deleter EXCEPT ![d] = NoDelete]
  <2>1. DeskTypeOK'
    BY <1>1, <1>4, <1>8 DEF DeskTypeOK, Tasks, Deletes
  <2>2. \A e \in Deleters : deleter'[e].at = "publish" => deleter'[e] = deleter[e]
    BY <1>1, <1>8 DEF NoDelete
  <2>3. PlacesOK'
    BY <1>1, <1>5, <1>7, <2>2, PlacesLess DEF PlacesOK
  <2> QED
    BY <1>5, <1>6, <2>1, <2>3 DEF DeskInv
<1>9. CASE deleter' # [deleter EXCEPT ![d] = NoDelete]
  <2>1. PICK t \in found : TRUE
    BY <1>9 DEF DeleteTask
  <2>2. NumbersOf(found) = {t.no} /\ t \in shelf /\ t.no \in Numbers /\ t.no <= ordered
    BY <1>1, <1>2, <1>3, <2>1 DEF NumbersOf, ShelfOK
  <2>3. PICK x \in Deletes : x.at = "publish" /\ x.no = t.no /\ deleter' = [deleter EXCEPT ![d] = x]
    <3>1. (CHOOSE n \in NumbersOf(found) : TRUE) = t.no
      BY <2>2
    <3>2. deleter' = [deleter EXCEPT ![d] = [deleter[d] EXCEPT !.at = "publish", !.no = t.no]]
      BY <1>9, <2>1, <3>1 DEF DeleteTask
    <3>3. deleter[d] \in Deletes /\ t.no \in 0..MaxTasks
      BY <1>1, <2>2, DeskAssumption DEF Numbers
    <3> QED
      BY <3>2, <3>3 DEF Deletes
  <2>4. DeskTypeOK'
    BY <1>1, <1>4, <2>3 DEF DeskTypeOK, Tasks, Deletes
  <2>5. t.no \notin NumbersOf(shelf)' /\ t.no \in NumbersOf(shelf)
    BY <1>1, <1>2, <2>1, <2>2 DEF NumbersOf, ShelfOK
  <2>6. \A e \in Deleters, n \in Numbers : Posting(e, n)' => (Posting(e, n) /\ e # d) \/ (e = d /\ n = t.no)
    BY <1>1, <2>3 DEF Posting
  <2>7. announced[t.no] = 0 /\ ~Travels(t.no) /\ \A e \in Deleters : ~Posting(e, t.no)
    BY <1>1, <2>2, <2>5 DEF PlacesOK
  <2>8. \A e \in Deleters, n \in Numbers : Posting(e, n)' =>
          /\ announced'[n] = 0 /\ n <= ordered' /\ n \notin NumbersOf(shelf)' /\ ~Travels(n)'
          /\ \A f \in Deleters : Posting(f, n)' => f = e
    <3> SUFFICES ASSUME NEW e \in Deleters, NEW n \in Numbers, Posting(e, n)'
                 PROVE  /\ announced[n] = 0 /\ n <= ordered /\ n \notin NumbersOf(shelf)' /\ ~Travels(n)
                        /\ \A f \in Deleters : Posting(f, n)' => f = e
      BY <1>1, <1>7
    <3>1. CASE n = t.no
      BY <2>2, <2>5, <2>6, <2>7, <3>1
    <3>2. CASE n # t.no
      BY <1>1, <1>5, <2>6, <3>2 DEF PlacesOK
    <3> QED
      BY <3>1, <3>2
  <2>9. \A e \in Deleters : deleter'[e].at = "publish" => deleter'[e].no \in Numbers
    BY <1>1, <2>2, <2>3 DEF PlacesOK
  <2>10. PlacesOK'
    BY <1>1, <1>5, <1>7, <2>8, <2>9 DEF PlacesOK
  <2> QED
    BY <1>5, <1>6, <2>4, <2>10 DEF DeskInv
<1> QED
  BY <1>8, <1>9

LEMMA DeletePublishKeeps ==
    ASSUME DeskInv, NEW d \in Deleters, DeletePublish(d)
    PROVE  DeskInv'
<1>1. /\ DeskTypeOK /\ ShelfOK /\ PlacesOK /\ SeedersOK /\ SeedMatches /\ counter \in Nat
      /\ UNCHANGED <<shelf, counter, batches, seeder, seeded, ordered>>
      /\ deleter \in [Deleters -> Deletes] /\ NoDelete \in Deletes
      /\ deleter' = [deleter EXCEPT ![d] = NoDelete]
  BY DeskAssumption DEF DeskInv, DeletePublish, DeskTypeOK, Deletes, NoDelete
<1>2. PICK n \in Numbers : Posting(d, n) /\ ToKafka(n)
  BY <1>1 DEF DeletePublish, PlacesOK, Posting
<1>3. DeskTypeOK'
  BY <1>1, <1>2, KafkaTypes DEF DeskTypeOK, Deletes
<1>4. ShelfOK'
  BY <1>1, ShelfLess
<1>5. SeedersOK' /\ SeedMatches'
  BY <1>1, SeedersStay
<1>6. /\ announced[n] = 0 /\ n <= ordered /\ n \notin NumbersOf(shelf) /\ ~Travels(n)
      /\ \A e \in Deleters : Posting(e, n) => e = d
  BY <1>1, <1>2 DEF PlacesOK
<1>7. \A m \in Numbers : Travels(m)' => Travels(m) /\ m # n
  BY <1>1, <1>6 DEF Travels
<1>8. \A e \in Deleters : deleter'[e].at = "publish" => deleter'[e] = deleter[e] /\ deleter[e].no # n
  BY <1>1, <1>6 DEF Posting, NoDelete
<1>9. PlacesOK'
  BY <1>1, <1>2, <1>6, <1>7, <1>8, PlacesTold DEF PlacesOK
<1> QED
  BY <1>3, <1>4, <1>5, <1>9 DEF DeskInv

(* A seed request asks for a task, and reads it twice.                     *)
LEMMA SeedCallKeeps ==
    ASSUME DeskInv, NEW s \in Seeders, NEW t \in shelf, SeedCall(s, t)
    PROVE  DeskInv'
<1>1. /\ DeskTypeOK /\ ShelfOK /\ PlacesOK /\ SeedersOK /\ SeedMatches /\ counter \in Nat
      /\ UNCHANGED <<shelf, counter, batches, deleter, seeded, ordered, announced, lost, deskFaults>>
      /\ t \in Tasks
  BY DEF DeskInv, SeedCall, DeskTypeOK, Tasks
<1>2. PICK x \in Seeds : /\ x.at = "task" /\ x.id = t.id /\ x.meant = t.no
                         /\ seeder' = [seeder EXCEPT ![s] = x]
  <2> DEFINE x == [NoSeed EXCEPT !.at = "task", !.id = t.id, !.meant = t.no]
  <2>1. NoSeed \in Seeds
    BY DeskAssumption DEF NoSeed, Seeds
  <2>2. t.no \in 0..MaxTasks
    BY <1>1, DeskAssumption DEF Tasks, Numbers
  <2>3. x \in Seeds /\ x.at = "task" /\ x.id = t.id /\ x.meant = t.no
    BY <1>1, <2>1, <2>2 DEF Seeds, Tasks
  <2>4. seeder' = [seeder EXCEPT ![s] = x]
    BY DEF SeedCall
  <2> HIDE DEF x
  <2> QED
    BY <2>3, <2>4
<1>3. DeskTypeOK'
  BY <1>1, <1>2 DEF DeskTypeOK, Seeds
<1>4. ShelfOK' /\ NumbersOf(shelf)' \subseteq NumbersOf(shelf)
  BY <1>1, ShelfLess
<1>5. PlacesOK'
  BY <1>1, <1>4, PlacesLess DEF PlacesOK, Travels
<1>6. SeedMatches'
  BY <1>1 DEF SeedMatches
<1>7. t.id < counter /\ \A u \in shelf : u.id = t.id => u.no = t.no
  BY <1>1 DEF ShelfOK
<1>8. SeedersOK'
  BY <1>1, <1>2, <1>7 DEF SeedersOK, DeskTypeOK
<1> QED
  BY <1>3, <1>4, <1>5, <1>6, <1>8 DEF DeskInv

LEMMA SeedGetKeeps ==
    ASSUME DeskInv, NEW s \in Seeders, SeedGet(s)
    PROVE  DeskInv'
<1>1. /\ DeskTypeOK /\ SeedersOK /\ SeedMatches /\ counter \in Nat /\ Pruned
      /\ UNCHANGED <<counter, deleter, seeded, ordered, announced, lost, deskFaults>>
      /\ seeder \in [Seeders -> Seeds] /\ shelf \subseteq Tasks /\ seeder[s].at \in {"task", "bytes"}
  BY DEF DeskInv, SeedGet, DeskTypeOK, Seeds, Tasks
<1>2. /\ ShelfOK' /\ PlacesOK' /\ shelf' \subseteq shelf
      /\ shelf' \subseteq Tasks /\ batches' \subseteq Batches
  BY <1>1, PrunedKeeps
<1> DEFINE found == Ready(s)
<1>3. \A t \in found : /\ t \in shelf /\ t \in Tasks /\ t.no \in 0..MaxTasks
                       /\ ~seeder[s].crossed => t.no = seeder[s].meant
  BY <1>1, DeskAssumption DEF Ready, Kept, Tasks, Numbers, SeedersOK
<1>4. found # {} => \E t \in found : TheOne(s) = t.no
  BY DEF TheOne, NumbersOf
<1>5. PICK x \in Seeds :
        /\ seeder' = [seeder EXCEPT ![s] = x]
        /\ x.at # "idle" => /\ x.id = seeder[s].id /\ x.meant = seeder[s].meant
                            /\ x.crossed = seeder[s].crossed
        /\ x.at # "idle" /\ ~x.crossed =>
              /\ x.at \in {"bytes", "add"} => x.path = x.meant
              /\ x.at = "add" => x.payload = x.meant
  <2>1. CASE found = {}
    <3>1. seeder' = [seeder EXCEPT ![s] = NoSeed]
      BY <2>1 DEF SeedGet
    <3>2. NoSeed \in Seeds /\ NoSeed.at = "idle"
      BY DeskAssumption DEF NoSeed, Seeds
    <3> QED
      BY <3>1, <3>2
  <2>2. CASE found # {} /\ seeder[s].at = "task"
    <3> DEFINE x == [seeder[s] EXCEPT !.at = "bytes", !.path = TheOne(s)]
    <3>1. PICK t \in found : TheOne(s) = t.no
      BY <1>4, <2>2
    <3>2. seeder' = [seeder EXCEPT ![s] = x]
      BY <2>2 DEF SeedGet
    <3>3. /\ x \in Seeds /\ x.at = "bytes" /\ x.path = t.no
          /\ x.id = seeder[s].id /\ x.meant = seeder[s].meant /\ x.crossed = seeder[s].crossed
      BY <1>1, <1>3, <3>1 DEF Seeds
    <3> HIDE DEF x
    <3> QED
      BY <1>3, <3>2, <3>3
  <2>3. CASE found # {} /\ seeder[s].at = "bytes"
    <3> DEFINE x == [seeder[s] EXCEPT !.at = "add", !.payload = TheOne(s)]
    <3>1. PICK t \in found : TheOne(s) = t.no
      BY <1>4, <2>3
    <3>2. seeder' = [seeder EXCEPT ![s] = x]
      BY <2>3 DEF SeedGet
    <3>3. /\ x \in Seeds /\ x.at = "add" /\ x.payload = t.no /\ x.path = seeder[s].path
          /\ x.id = seeder[s].id /\ x.meant = seeder[s].meant /\ x.crossed = seeder[s].crossed
      BY <1>1, <1>3, <3>1 DEF Seeds
    <3>4. ~seeder[s].crossed => seeder[s].path = seeder[s].meant
      BY <1>1, <2>3 DEF SeedersOK
    <3> HIDE DEF x
    <3> QED
      BY <1>3, <3>2, <3>3, <3>4
  <2> QED
    BY <1>1, <2>1, <2>2, <2>3
<1>6. DeskTypeOK'
  BY <1>1, <1>2, <1>5 DEF DeskTypeOK, Seeds, Tasks, Batches
<1>7. SeedMatches'
  BY <1>1 DEF SeedMatches
<1>8. SeedersOK'
  <2> SUFFICES ASSUME NEW r \in Seeders, seeder'[r].at # "idle", ~seeder'[r].crossed
               PROVE  /\ seeder'[r].id < counter
                      /\ \A t \in shelf' : t.id = seeder'[r].id => t.no = seeder'[r].meant
                      /\ seeder'[r].at \in {"bytes", "add"} => seeder'[r].path = seeder'[r].meant
                      /\ seeder'[r].at = "add" => seeder'[r].payload = seeder'[r].meant
    BY <1>1 DEF SeedersOK
  <2>1. CASE r = s
    BY <1>1, <1>2, <1>5, <2>1 DEF SeedersOK
  <2>2. CASE r # s
    BY <1>1, <1>2, <1>5, <2>2 DEF SeedersOK
  <2> QED
    BY <2>1, <2>2
<1> QED
  BY <1>2, <1>6, <1>7, <1>8 DEF DeskInv

LEMMA SeedAddKeeps ==
    ASSUME DeskInv, NEW s \in Seeders, SeedAdd(s)
    PROVE  DeskInv'
<1>1. /\ DeskTypeOK /\ ShelfOK /\ PlacesOK /\ SeedersOK /\ SeedMatches /\ counter \in Nat
      /\ UNCHANGED <<shelf, counter, batches, deleter, ordered, announced, lost>>
      /\ seeder \in [Seeders -> Seeds] /\ NoSeed \in Seeds /\ NoSeed.at = "idle"
      /\ seeder[s].at = "add" /\ seeder' = [seeder EXCEPT ![s] = NoSeed]
      /\ seeded' \subseteq seeded \union {seeder[s]}
  BY DeskAssumption DEF DeskInv, SeedAdd, DeskTypeOK, Seeds, NoSeed
<1>2. deskFaults' \in 0..MaxDeskFaults
  BY <1>1, DeskAssumption DEF SeedAdd, FaultNow, DeskTypeOK
<1>3. DeskTypeOK'
  BY <1>1, <1>2 DEF DeskTypeOK, Seeds
<1>4. ShelfOK' /\ NumbersOf(shelf)' \subseteq NumbersOf(shelf)
  BY <1>1, ShelfLess
<1>5. PlacesOK'
  BY <1>1, <1>4, PlacesLess DEF PlacesOK, Travels
<1>6. SeedMatches'
  BY <1>1 DEF SeedMatches, SeedersOK
<1>7. SeedersOK'
  BY <1>1 DEF SeedersOK
<1> QED
  BY <1>3, <1>4, <1>5, <1>6, <1>7 DEF DeskInv

(* Restarts, of the engine and of the orchestrator.                        *)
LEMMA EngineGoesKeeps ==
    ASSUME DeskInv, EngineGoes
    PROVE  DeskInv'
<1>1. /\ DeskTypeOK /\ ShelfOK /\ PlacesOK /\ SeedersOK /\ SeedMatches /\ ordered \in Nat
      /\ UNCHANGED <<deleter, seeded, ordered, announced>>
      /\ shelf' = {} /\ counter' = 0 /\ batches' \subseteq batches /\ batches \subseteq Batches
      /\ shelf \subseteq Tasks
      /\ lost' = lost \union NumbersOf(shelf) \union UNION {b.todo : b \in batches \ batches'}
      /\ seeder' = [s \in Seeders |-> [seeder[s] EXCEPT !.crossed = (@ \/ seeder[s].at # "idle")]]
  BY DEF DeskInv, EngineGoes, DeskTypeOK, Batches, Tasks
<1>2. NumbersOf(shelf) \subseteq Numbers /\ \A b \in batches : b.todo \subseteq Numbers
  BY <1>1 DEF NumbersOf, Tasks, Batches
<1>3. lost' \subseteq Numbers /\ deskFaults' \in 0..MaxDeskFaults
  BY <1>1, <1>2, DeskAssumption DEF EngineGoes, FaultNow, DeskTypeOK
<1>4. \A s \in Seeders : /\ seeder'[s] \in Seeds
                         /\ seeder'[s].at # "idle" => seeder'[s].crossed
  <2> SUFFICES ASSUME NEW s \in Seeders
               PROVE  seeder'[s] \in Seeds /\ (seeder'[s].at # "idle" => seeder'[s].crossed)
    OBVIOUS
  <2>1. PICK k \in BOOLEAN : k = (seeder[s].crossed \/ seeder[s].at # "idle")
    BY <1>1 DEF DeskTypeOK
  <2>2. seeder[s] \in Seeds
    BY <1>1 DEF DeskTypeOK, Seeds
  <2>3. seeder'[s] = [seeder[s] EXCEPT !.crossed = k]
    BY <1>1, <2>1
  <2>4. seeder'[s] \in Seeds /\ seeder'[s].at = seeder[s].at /\ seeder'[s].crossed = k
    BY <2>2, <2>3 DEF Seeds
  <2> QED
    BY <2>1, <2>4
<1>5. seeder' \in [Seeders -> Seeds]
  BY <1>1, <1>4
<1>6. DeskTypeOK'
  BY <1>1, <1>3, <1>5, DeskAssumption DEF DeskTypeOK, Seeds, Batches
<1>7. ShelfOK' /\ SeedMatches' /\ NumbersOf(shelf)' = {}
  BY <1>1 DEF ShelfOK, SeedMatches, NumbersOf
<1>8. SeedersOK'
  BY <1>4 DEF SeedersOK
<1>9. PlacesOK'
  BY <1>1, <1>7, PlacesLess DEF PlacesOK, Travels
<1> QED
  BY <1>6, <1>7, <1>8, <1>9 DEF DeskInv

LEMMA DeskGoesKeeps ==
    ASSUME DeskInv, DeskGoes
    PROVE  DeskInv'
<1>1. /\ DeskTypeOK /\ ShelfOK /\ PlacesOK /\ SeedersOK /\ SeedMatches
      /\ UNCHANGED <<shelf, counter, seeded, ordered, announced>>
      /\ batches' \subseteq batches /\ batches \subseteq Batches
      /\ deleter' = [d \in Deleters |-> NoDelete] /\ seeder' = [s \in Seeders |-> NoSeed]
      /\ NoDelete \in Deletes /\ NoSeed \in Seeds /\ NoDelete.at = "idle" /\ NoSeed.at = "idle"
  BY DeskAssumption DEF DeskInv, DeskGoes, DeskTypeOK, Batches, NoDelete, NoSeed, Deletes, Seeds
<1>2. \A b \in batches : b.todo \subseteq Numbers
  BY <1>1 DEF Batches
<1>3. lost' \subseteq Numbers /\ deskFaults' \in 0..MaxDeskFaults
  <2>1. {deleter[d].no : d \in {e \in Deleters : deleter[e].at = "publish"}} \subseteq Numbers
    BY <1>1 DEF PlacesOK
  <2>2. UNION {b.todo : b \in batches \ batches'} \subseteq Numbers
    BY <1>2
  <2>3. lost \subseteq Numbers
    BY <1>1 DEF DeskTypeOK
  <2>4. lost' = lost \union (UNION {b.todo : b \in batches \ batches'})
                \union {deleter[d].no : d \in {e \in Deleters : deleter[e].at = "publish"}}
    BY DEF DeskGoes
  <2>5. lost' \subseteq Numbers
    BY <2>1, <2>2, <2>3, <2>4
  <2> QED
    BY <1>1, <2>5, DeskAssumption DEF DeskGoes, FaultNow, DeskTypeOK
<1>4. DeskTypeOK'
  BY <1>1, <1>3 DEF DeskTypeOK, Seeds, Batches, Deletes
<1>5. ShelfOK' /\ NumbersOf(shelf)' \subseteq NumbersOf(shelf)
  BY <1>1, ShelfLess
<1>6. SeedersOK' /\ SeedMatches'
  BY <1>1 DEF SeedersOK, SeedMatches
<1>7. PlacesOK'
  BY <1>1, <1>5, PlacesLess DEF PlacesOK, Travels
<1> QED
  BY <1>4, <1>5, <1>6, <1>7 DEF DeskInv

LEMMA DeskStep ==
    ASSUME DeskInv, [DeskNext]_deskVars
    PROVE  DeskInv'
<1>1. CASE UNCHANGED deskVars
  BY <1>1 DEF deskVars, DeskInv, DeskTypeOK, ShelfOK, PlacesOK, Travels, Posting, NumbersOf,
              SeedersOK, SeedMatches
<1>2. ASSUME NEW b \in batches, BatchStep(b) \/ BatchLost(b) PROVE DeskInv'
  BY <1>2, BatchKeeps, BatchPublishKeeps DEF BatchStep
<1> QED
  BY <1>1, <1>2, TaskCreateKeeps, ReapKeeps, EngineGoesKeeps, DeskGoesKeeps, RenewKeeps, DeleteCallKeeps,
     DeleteTaskKeeps, DeletePublishKeeps, SeedCallKeeps, SeedGetKeeps, SeedAddKeeps DEF DeskNext

(* The queue, the requests and the announcements keep their types.         *)
THEOREM DeskTypes == DeskSpec => []DeskTypeOK
<1>1. DeskInv => DeskTypeOK
  BY DEF DeskInv
<1> QED
  BY <1>1, DeskStarts, DeskStep, PTL DEF DeskSpec

(* A torrent made from a task is the one that was asked for, with the      *)
(* folder it was built from (seed_task).                                   *)
THEOREM SeedsMatch == DeskSpec => []SeedMatches
<1>1. DeskInv => SeedMatches
  BY DEF DeskInv
<1> QED
  BY <1>1, DeskStarts, DeskStep, PTL DEF DeskSpec

LEMMA NeverTwiceSays == DeskInv => NeverTwice
<1> SUFFICES ASSUME DeskInv PROVE NeverTwice
  OBVIOUS
<1>1. DeskTypeOK /\ PlacesOK
  BY DEF DeskInv
<1> QED
  BY <1>1 DEF NeverTwice, PlacesOK, DeskTypeOK

(* No task is announced as deleted twice, or while it is listed, whichever *)
(* of DELETE, the reaper and a look at the queue takes it off.             *)
THEOREM NobodyToldTwice == DeskSpec => []NeverTwice
<1> QED
  BY NeverTwiceSays, DeskStarts, DeskStep, PTL DEF DeskSpec

(* For any tasks, requests and faults: both (creator.py, creator_notify).  *)
THEOREM DeskIsSound == DeskSpec => []DeskSound
<1>1. SeedMatches /\ NeverTwice => DeskSound
  BY DEF DeskSound
<1> QED
  BY SeedsMatch, NobodyToldTwice, <1>1, PTL
=============================================================================
