--------------------------- MODULE DatabaseProofs ---------------------------
(***************************************************************************)
(* Theorems about what the database says of torrents.  The rows and their  *)
(* handles (Catalog), for every set of torrents and requests, any restarts *)
(* of the engine and any calls that fail or are not answered.  The totals  *)
(* and quotas (Accounting), for every set of engines and quotas, any       *)
(* number of bytes, transfers, crashes and changes of the quota, and       *)
(* snapshots and rounds of the worker that are overtaken by any of them.   *)
(***************************************************************************)
EXTENDS Catalog, Accounting, FiniteSetTheorems, WellFoundedInduction, TLAPS

(* What Catalogued says of a torrent that somebody finished with.          *)
Settled(r, kind) ==
    /\ kind = "request" => (handle[r] = "none" <=> row[r] = "gone")
    /\ kind \in {"request", "set"} =>
          (handle[r] = "paused" => row[r] = "paused") /\ (handle[r] = "running" => row[r] = "active")
    /\ kind = "startup" => /\ handle[r] # "none" /\ row[r] \in Shown
                           /\ (handle[r] = "paused") = (row[r] = "paused" /\ r \notin whole)
    /\ kind = "worker" => handle[r] # "none" /\ (row[r] = "paused" => handle[r] = "paused")
    /\ kind = "bulk" => handle[r] # "none" /\ row[r] = "active"

(* Catalogued is not inductive: what is true of a torrent when an actor is *)
(* through follows from what that actor did, alone with it.  Two holders,  *)
(* or a fault, leave a mess; what is settled has no holders; and a row     *)
(* that is not yet there has no handle.                                    *)
HoldersOK ==
    \A r \in Rows :
        /\ \A a, b \in held[r] : a # b => "mess" \in held[r]
        /\ made[r] # "no" => held[r] = {}
        /\ row[r] = "fresh" /\ held[r] = {} => handle[r] = "none"

(* What a request that will commit has done with one of its torrents, when *)
(* it is alone with it: the engine has done what it was called for, and    *)
(* unless there was nothing to write that is written, or about to be.      *)
Called(q, r) ==
    LET op == CallOp(q, r)
        called == r \notin req[q].todo
    IN  held[r] = {q} /\ req[q].at # "error" =>
          /\ op = "create" => handle[r] = IF called THEN "running" ELSE "none"
          /\ op = "delete" /\ called => handle[r] = "none"
          /\ op = "pause" => row[r] \in InTable /\ (called => handle[r] # "running")
          /\ op = "resume" => row[r] \in InTable /\ (called => handle[r] # "paused")
          /\ r \in req[q].same => op \in {"pause", "resume"} /\ row[r] = StatusOf(op)
          /\ called => \/ r \in req[q].done
                       \/ req[q].at = "write" /\ req[q].cur = r
                       \/ /\ op \in {"pause", "resume"}
                          /\ handle[r] = "none" \/ row[r] = StatusOf(op)

RequestOK(q) ==
    /\ req[q].at # "none" => req[q].op # "idle"
    /\ req[q].todo \union req[q].done \subseteq req[q].rows
    /\ req[q].at = "write" => req[q].cur \in req[q].rows
    /\ \A r \in req[q].rows : q \in held[r] /\ Called(q, r)

(* What a restore knows of a torrent it is alone with.                     *)
JobOK(p, r) ==
    job[p][r].at # "idle" =>
        /\ p \in held[r] /\ row[r] # "fresh"
        /\ job[p][r].at \in {"flush", "written", "broken"} => p = "bulk"
        /\ held[r] = {p} =>
              /\ row[r] = job[p][r].st /\ row[r] \in (IF p = "bulk" THEN {"queued"} ELSE Shown)
              /\ job[p][r].at \notin {"look", "add"} => handle[r] = job[p][r].saw /\ handle[r] # "none"

CatalogInv ==
    /\ CatalogTypeOK /\ HoldersOK /\ Catalogued
    /\ \A q \in Requests : RequestOK(q)
    /\ \A p \in Restorers, r \in Rows : JobOK(p, r)

(* What a step of one actor leaves to the others: what they hold, and all  *)
(* of what they hold alone.                                                *)
OthersStay(a) ==
    \A r \in Rows, b \in Actors : b # a =>
        /\ b \in held[r] => b \in held'[r]
        /\ held'[r] = {b} => held[r] = {b} /\ row'[r] = row[r] /\ handle'[r] = handle[r]

-----------------------------------------------------------------------------
LEMMA CataloguedIsSettled == Catalogued <=> \A r \in Rows : Settled(r, made[r])
<1> QED
  BY DEF Catalogued, Settled

(* An actor is no mess, and no request is a restore.                       *)
LEMMA ActorNames ==
    ASSUME NEW a \in Actors
    PROVE  a # "mess" /\ (a \in Requests => a \notin Restorers)
<1> QED
  BY CatalogAssumption DEF Actors

(* An actor begins with some torrents.                                     *)
LEMMA JoinHolds ==
    ASSUME CatalogInv, NEW a \in Actors, NEW R \in SUBSET Rows, Join(R, a),
           UNCHANGED <<row, handle, whole>>
    PROVE  /\ held' \in [Rows -> SUBSET (Actors \union {"mess"})]
           /\ made' \in [Rows -> Restorers \union {"no", "request", "set"}]
           /\ HoldersOK' /\ Catalogued' /\ OthersStay(a)
           /\ \A r \in R : a \in held'[r] /\ (held'[r] = {a} => held[r] = {})
<1>1. /\ held \in [Rows -> SUBSET (Actors \union {"mess"})]
      /\ made \in [Rows -> Restorers \union {"no", "request", "set"}]
      /\ HoldersOK /\ Catalogued /\ a # "mess" /\ \A b \in Actors : b # "mess"
  BY ActorNames DEF CatalogInv, CatalogTypeOK
<1>2. /\ \A r \in Rows \ R : held'[r] = held[r] /\ made'[r] = made[r]
      /\ \A r \in R : /\ made'[r] = "no" /\ held[r] \union {a} \subseteq held'[r]
                      /\ held[r] = {} => held'[r] = {a}
                      /\ held[r] # {} => "mess" \in held'[r]
  BY DEF Join
<1>3. /\ held' \in [Rows -> SUBSET (Actors \union {"mess"})]
      /\ made' \in [Rows -> Restorers \union {"no", "request", "set"}]
  BY <1>1 DEF Join
<1>4. HoldersOK'
  BY <1>1, <1>2 DEF HoldersOK
<1>5. Catalogued'
  <2>1. SUFFICES ASSUME NEW r \in Rows PROVE Settled(r, made[r])'
    BY DEF Catalogued, Settled
  <2>2. CASE r \in R
    BY <1>2, <2>2 DEF Settled
  <2>3. CASE r \notin R
    <3>1. Settled(r, made[r])
      BY <1>1, CataloguedIsSettled
    <3> QED
      BY <1>2, <2>3, <3>1 DEF Settled
  <2> QED
    BY <2>2, <2>3
<1>6. OthersStay(a)
  BY <1>1, <1>2 DEF OthersStay
<1> QED
  BY <1>1, <1>2, <1>3, <1>4, <1>5, <1>6

(* An actor works on the engine, on torrents it holds.                     *)
LEMMA WorkHolds ==
    ASSUME CatalogInv, NEW a \in Actors, UNCHANGED <<row, whole, held, made>>,
           \A r \in Rows : a \notin held[r] => handle'[r] = handle[r]
    PROVE  HoldersOK' /\ Catalogued' /\ OthersStay(a)
<1>1. HoldersOK /\ Catalogued
  BY DEF CatalogInv
<1>2. \A r \in Rows : held[r] = {} => handle'[r] = handle[r]
  OBVIOUS
<1>3. HoldersOK'
  BY <1>1, <1>2 DEF HoldersOK
<1>4. Catalogued'
  BY <1>1, <1>2 DEF HoldersOK, Catalogued
<1>5. OthersStay(a)
  BY DEF OthersStay
<1> QED
  BY <1>3, <1>4, <1>5

(* An actor is through with torrents it holds.                             *)
LEMMA ThroughHolds ==
    ASSUME CatalogInv, NEW a \in Actors, NEW R \in SUBSET Rows,
           NEW kind \in Restorers \union {"no", "request", "set"}, Through(R, a, kind),
           UNCHANGED whole,
           \A r \in Rows \ R : row'[r] = row[r] /\ handle'[r] = handle[r],
           \A r \in R : a \in held[r] /\ row'[r] # "fresh",
           \A r \in R : held[r] = {a} => Settled(r, kind)'
    PROVE  /\ held' \in [Rows -> SUBSET (Actors \union {"mess"})]
           /\ made' \in [Rows -> Restorers \union {"no", "request", "set"}]
           /\ HoldersOK' /\ Catalogued' /\ OthersStay(a)
           /\ \A r \in Rows \ R : held'[r] = held[r]
<1>1. /\ held \in [Rows -> SUBSET (Actors \union {"mess"})]
      /\ made \in [Rows -> Restorers \union {"no", "request", "set"}]
      /\ HoldersOK /\ Catalogued /\ a # "mess" /\ \A b \in Actors : b # "mess"
  BY ActorNames DEF CatalogInv, CatalogTypeOK
<1>2. /\ \A r \in Rows \ R : held'[r] = held[r] /\ made'[r] = made[r]
      /\ \A r \in R : /\ held'[r] = IF held[r] \subseteq {a, "mess"} THEN {} ELSE held[r] \ {a}
                      /\ made'[r] = IF held[r] = {a} THEN kind ELSE "no"
  BY DEF Through
<1>3. /\ held' \in [Rows -> SUBSET (Actors \union {"mess"})]
      /\ made' \in [Rows -> Restorers \union {"no", "request", "set"}]
  BY <1>1 DEF Through
<1>4. HoldersOK'
  <2>1. SUFFICES ASSUME NEW r \in Rows
                 PROVE  /\ \A x, y \in held'[r] : x # y => "mess" \in held'[r]
                        /\ made'[r] # "no" => held'[r] = {}
                        /\ row'[r] = "fresh" /\ held'[r] = {} => handle'[r] = "none"
    BY DEF HoldersOK
  <2>2. CASE r \in R
    <3>1. held'[r] \subseteq held[r] /\ (held'[r] # {} => held'[r] = held[r] \ {a})
      BY <1>2, <2>2
    <3>2. \A x, y \in held'[r] : x # y => "mess" \in held'[r]
      BY <1>1, <3>1 DEF HoldersOK
    <3>3. made'[r] # "no" => held'[r] = {}
      BY <1>2, <2>2
    <3>4. row'[r] # "fresh"
      BY <2>2
    <3> QED
      BY <3>2, <3>3, <3>4
  <2>3. CASE r \notin R
    <3>1. held'[r] = held[r] /\ made'[r] = made[r] /\ row'[r] = row[r] /\ handle'[r] = handle[r]
      BY <1>2, <2>3
    <3> QED
      BY <1>1, <3>1 DEF HoldersOK
  <2> QED
    BY <2>2, <2>3
<1>5. Catalogued'
  <2>1. SUFFICES ASSUME NEW r \in Rows PROVE Settled(r, made[r])'
    BY DEF Catalogued, Settled
  <2>2. CASE r \in R
    BY <1>2, <2>2 DEF Settled
  <2>3. CASE r \notin R
    <3>1. Settled(r, made[r])
      BY <1>1, CataloguedIsSettled
    <3> QED
      BY <1>2, <2>3, <3>1 DEF Settled
  <2> QED
    BY <2>2, <2>3
<1>6. OthersStay(a)
  <2>1. SUFFICES ASSUME NEW r \in Rows, NEW b \in Actors, b # a
                 PROVE  /\ b \in held[r] => b \in held'[r]
                        /\ held'[r] = {b} => /\ held[r] = {b}
                                             /\ row'[r] = row[r] /\ handle'[r] = handle[r]
    BY DEF OthersStay
  <2>2. CASE r \in R
    <3>1. b # "mess" /\ a \in held[r]
      BY <1>1, <2>2
    <3>2. b \in held[r] => b \in held'[r] /\ "mess" \in held'[r]
      BY <1>1, <1>2, <2>1, <2>2, <3>1 DEF HoldersOK
    <3>3. held'[r] # {b}
      BY <1>2, <2>2, <3>1, <3>2
    <3> QED
      BY <3>2, <3>3
  <2>3. CASE r \notin R
    BY <1>2, <2>3
  <2> QED
    BY <2>2, <2>3
<1> QED
  BY <1>2, <1>3, <1>4, <1>5, <1>6

(* Other requests and restores go on as before.                            *)
LEMMA OthersKeep ==
    ASSUME CatalogInv, NEW a \in Actors, OthersStay(a),
           \A q \in Requests : q # a => req'[q] = req[q],
           \A p \in Restorers : p # a => job'[p] = job[p],
           \A r \in Rows : row'[r] = "fresh" => row[r] = "fresh"
    PROVE  /\ \A q \in Requests : q # a => RequestOK(q)'
           /\ \A p \in Restorers : p # a => \A r \in Rows : JobOK(p, r)'
<1>1. ASSUME NEW q \in Requests, q # a PROVE RequestOK(q)'
  <2>1. /\ RequestOK(q) /\ q \in Actors /\ req'[q] = req[q] /\ req[q].rows \in SUBSET Rows
        /\ \A r \in Rows : CallOp(q, r)' = CallOp(q, r)
    BY <1>1 DEF CatalogInv, CatalogTypeOK, ReqType, Actors, CallOp
  <2>2. ASSUME NEW r \in req[q].rows PROVE q \in held'[r] /\ Called(q, r)'
    <3>1. r \in Rows /\ q \in held[r] /\ Called(q, r)
      BY <2>1 DEF RequestOK
    <3>2. q \in held'[r]
      BY <1>1, <2>1, <3>1 DEF OthersStay
    <3>3. held'[r] = {q} => held[r] = {q} /\ row'[r] = row[r] /\ handle'[r] = handle[r]
      BY <1>1, <2>1, <3>1 DEF OthersStay
    <3>4. CallOp(q, r)' = CallOp(q, r)
      BY <2>1, <3>1
    <3>5. Called(q, r)'
      BY <2>1, <3>1, <3>3, <3>4 DEF Called
    <3> QED
      BY <3>2, <3>5
  <2> QED
    BY <2>1, <2>2 DEF RequestOK
<1>2. ASSUME NEW p \in Restorers, p # a, NEW r \in Rows PROVE JobOK(p, r)'
  <2>1. JobOK(p, r) /\ p \in Actors /\ job'[p] = job[p]
    BY <1>2 DEF CatalogInv, Actors
  <2> QED
    BY <1>2, <2>1 DEF JobOK, OthersStay
<1> QED
  BY <1>1, <1>2

-----------------------------------------------------------------------------
(* A request goes on, alone changing what the engine has of its torrents.  *)
LEMMA RequestWorks ==
    ASSUME CatalogInv, NEW q \in Requests, NEW k \in ReqType, req' = [req EXCEPT ![q] = k],
           handle' \in [Rows -> {"none", "running", "paused"}], disk' \subseteq Rows,
           \A r \in Rows : q \notin held[r] => handle'[r] = handle[r],
           faults' \in 0..MaxFaults, RequestOK(q)',
           UNCHANGED <<row, whole, magnets, job, held, made, restarts>>
    PROVE  CatalogInv'
<1>1. q \in Actors /\ CatalogTypeOK
  BY DEF Actors, CatalogInv
<1>2. HoldersOK' /\ Catalogued' /\ OthersStay(q)
  BY <1>1, WorkHolds
<1>3. \A p \in Requests : p # q => req'[p] = req[p]
  BY <1>1 DEF CatalogTypeOK
<1>4. CatalogTypeOK'
  BY <1>1 DEF CatalogTypeOK
<1>5. /\ \A p \in Requests : p # q => RequestOK(p)'
      /\ \A p \in Restorers : p # q => \A s \in Rows : JobOK(p, s)'
  BY <1>1, <1>2, <1>3, OthersKeep
<1> QED
  BY <1>1, <1>2, <1>4, <1>5, ActorNames DEF CatalogInv

(* A request begins with its torrents. *)
LEMMA BeginKeeps ==
    ASSUME CatalogInv, NEW q \in Requests, NEW op \in {"create", "pause", "resume", "delete", "replace"},
           NEW many \in BOOLEAN, NEW R \in SUBSET Rows, NEW new \in Rows \union {"none"},
           NEW same \in SUBSET R, Begin(q, op, many, R, new, same),
           \A r \in R : op = "create" \/ (op = "replace" /\ r = new) => row[r] = "fresh",
           op \in {"pause", "resume"} => \A r \in R : row[r] \in InTable,
           \A r \in same : op \in {"pause", "resume"} /\ row[r] = StatusOf(op)
    PROVE  CatalogInv'
<1> DEFINE k == [op |-> op, many |-> many, rows |-> R, new |-> new, same |-> same,
                 todo |-> R, done |-> {}, cur |-> "none", at |-> "call"]
<1>1. /\ q \in Actors /\ CatalogTypeOK /\ HoldersOK /\ Join(R, q) /\ req' = [req EXCEPT ![q] = k]
      /\ UNCHANGED <<row, handle, disk, whole, magnets, job, restarts, faults>>
  BY DEF Actors, CatalogInv, Begin
<1>2. /\ held' \in [Rows -> SUBSET (Actors \union {"mess"})]
      /\ made' \in [Rows -> Restorers \union {"no", "request", "set"}]
      /\ HoldersOK' /\ Catalogued' /\ OthersStay(q)
      /\ \A r \in R : q \in held'[r] /\ (held'[r] = {q} => held[r] = {})
  BY <1>1, JoinHolds
<1>3. k \in ReqType
  BY DEF ReqType
<1>4. req'[q] = k /\ \A p \in Requests : p # q => req'[p] = req[p]
  BY <1>1 DEF CatalogTypeOK
<1>5. CatalogTypeOK'
  <2> HIDE DEF k
  <2> QED
    BY <1>1, <1>2, <1>3 DEF CatalogTypeOK
<1>6. RequestOK(q)'
  <2>1. /\ req'[q].op = op /\ req'[q].rows = R /\ req'[q].new = new /\ req'[q].same = same
        /\ req'[q].todo = R /\ req'[q].done = {} /\ req'[q].at = "call"
    BY <1>4
  <2>2. ASSUME NEW r \in R PROVE Called(q, r)'
    <3>1. CallOp(q, r)' = IF op # "replace" THEN op ELSE IF r = new THEN "create" ELSE "delete"
      BY <2>1 DEF CallOp
    <3>2. CallOp(q, r)' = "create" => row[r] = "fresh"
      BY <3>1
    <3>3. CallOp(q, r)' \in {"pause", "resume"} => CallOp(q, r)' = op
      BY <3>1
    <3>4. held'[r] = {q} /\ row[r] = "fresh" => handle'[r] = "none"
      BY <1>1, <1>2 DEF HoldersOK
    <3>5. r \in same => CallOp(q, r)' = op
      BY <3>1
    <3> QED
      BY <1>1, <2>1, <3>2, <3>3, <3>4, <3>5 DEF Called
  <2> QED
    BY <1>2, <2>1, <2>2 DEF RequestOK
<1>7. /\ \A p \in Requests : p # q => RequestOK(p)'
      /\ \A p \in Restorers : p # q => \A s \in Rows : JobOK(p, s)'
  BY <1>1, <1>2, <1>4, OthersKeep
<1> QED
  BY <1>1, <1>2, <1>5, <1>6, <1>7, ActorNames DEF CatalogInv

(* What a call does to the torrent it is for, and to no other.             *)
LEMMA EffectTouches ==
    ASSUME CatalogTypeOK, NEW op, NEW r \in Rows, Effect(op, r)
    PROVE  /\ handle' \in [Rows -> {"none", "running", "paused"}] /\ disk' \subseteq Rows
           /\ \A s \in Rows : s # r => handle'[s] = handle[s]
           /\ op \in {"create", "pause", "resume", "delete"}
           /\ op = "create" /\ handle[r] = "none" => handle'[r] = "running"
           /\ op = "delete" => handle'[r] = "none"
           /\ op = "pause" => handle'[r] # "running"
           /\ op = "resume" => handle'[r] # "paused"
           /\ op \in {"pause", "resume"} /\ handle[r] = "none" => handle'[r] = "none"
<1> QED
  BY DEF Effect, Added, Removed, PauseSet, CatalogTypeOK

(* The torrents of a request, and how its record goes on.                  *)
LEMMA CallsOwn ==
    ASSUME CatalogInv, NEW q \in Requests, NEW r, MayCall(q, r)
    PROVE  /\ CatalogTypeOK /\ RequestOK(q) /\ req[q] \in ReqType /\ req[q].at = "call"
           /\ r \in Rows /\ r \in req[q].rows /\ r \in req[q].todo /\ q \in held[r]
<1> QED
  BY DEF CatalogInv, CatalogTypeOK, RequestOK, MayCall, ReqType

(* How the record of a request goes on. *)
Goes(q, todo, done, cur, at) ==
    /\ req'[q] \in ReqType /\ req' = [req EXCEPT ![q] = req'[q]]
    /\ req'[q].op = req[q].op /\ req'[q].rows = req[q].rows /\ req'[q].same = req[q].same
    /\ req'[q].todo = todo /\ req'[q].done = done /\ req'[q].cur = cur /\ req'[q].at = at
    /\ \A r \in Rows : CallOp(q, r)' = CallOp(q, r)

LEMMA RecordGoesOn ==
    ASSUME CatalogTypeOK, NEW q \in Requests
    PROVE  /\ \A r \in Rows : /\ req' = ToWrite(q, r) =>
                                    Goes(q, req[q].todo \ {r}, req[q].done, r, "write")
                              /\ req' = Skipped(q, r) =>
                                    Goes(q, req[q].todo \ {r}, req[q].done, req[q].cur, req[q].at)
           /\ req' = Failed(q) => Goes(q, req[q].todo, req[q].done, "none", "error")
           /\ req' = [req EXCEPT ![q].cur = "none", ![q].at = "call"] =>
                 Goes(q, req[q].todo, req[q].done, "none", "call")
           /\ \A r \in Rows :
                 req' = [req EXCEPT ![q].done = @ \union {r}, ![q].cur = "none", ![q].at = "call"] =>
                    Goes(q, req[q].todo, req[q].done \union {r}, "none", "call")
<1>1. req \in [Requests -> ReqType] /\ req[q] \in ReqType
  BY DEF CatalogTypeOK
<1>2. ASSUME NEW k \in ReqType, req' = [req EXCEPT ![q] = k], k.op = req[q].op, k.rows = req[q].rows,
             k.same = req[q].same, k.new = req[q].new
      PROVE  Goes(q, k.todo, k.done, k.cur, k.at)
  <2>1. req'[q] = k
    BY <1>1, <1>2
  <2> QED
    BY <1>2, <2>1 DEF Goes, CallOp
<1>3. ASSUME NEW r \in Rows, req' = ToWrite(q, r)
      PROVE  Goes(q, req[q].todo \ {r}, req[q].done, r, "write")
  <2> DEFINE k == [req[q] EXCEPT !.todo = @ \ {r}, !.cur = r, !.at = "write"]
  <2>1. req' = [req EXCEPT ![q] = k]
    BY <1>1, <1>3 DEF ToWrite
  <2>2. k \in ReqType /\ k.op = req[q].op /\ k.rows = req[q].rows /\ k.same = req[q].same
        /\ k.new = req[q].new /\ k.todo = req[q].todo \ {r} /\ k.done = req[q].done /\ k.cur = r
        /\ k.at = "write"
    BY <1>1 DEF ReqType
  <2> HIDE DEF k
  <2>3. Goes(q, k.todo, k.done, k.cur, k.at)
    BY <1>2, <2>1, <2>2
  <2> QED
    BY <2>2, <2>3
<1>4. ASSUME NEW r \in Rows, req' = Skipped(q, r)
      PROVE  Goes(q, req[q].todo \ {r}, req[q].done, req[q].cur, req[q].at)
  <2> DEFINE k == [req[q] EXCEPT !.todo = @ \ {r}]
  <2>1. req' = [req EXCEPT ![q] = k]
    BY <1>1, <1>4 DEF Skipped
  <2>2. k \in ReqType /\ k.op = req[q].op /\ k.rows = req[q].rows /\ k.same = req[q].same
        /\ k.new = req[q].new /\ k.todo = req[q].todo \ {r} /\ k.done = req[q].done
        /\ k.cur = req[q].cur /\ k.at = req[q].at
    BY <1>1 DEF ReqType
  <2> HIDE DEF k
  <2>3. Goes(q, k.todo, k.done, k.cur, k.at)
    BY <1>2, <2>1, <2>2
  <2> QED
    BY <2>2, <2>3
<1>5. ASSUME req' = Failed(q)
      PROVE  Goes(q, req[q].todo, req[q].done, "none", "error")
  <2> DEFINE k == [req[q] EXCEPT !.at = "error", !.cur = "none"]
  <2>1. req' = [req EXCEPT ![q] = k]
    BY <1>1, <1>5 DEF Failed
  <2>2. k \in ReqType /\ k.op = req[q].op /\ k.rows = req[q].rows /\ k.same = req[q].same
        /\ k.new = req[q].new /\ k.todo = req[q].todo /\ k.done = req[q].done
        /\ k.cur = "none" /\ k.at = "error"
    BY <1>1 DEF ReqType
  <2> HIDE DEF k
  <2>3. Goes(q, k.todo, k.done, k.cur, k.at)
    BY <1>2, <2>1, <2>2
  <2> QED
    BY <2>2, <2>3
<1>6. ASSUME req' = [req EXCEPT ![q].cur = "none", ![q].at = "call"]
      PROVE  Goes(q, req[q].todo, req[q].done, "none", "call")
  <2> DEFINE k == [req[q] EXCEPT !.cur = "none", !.at = "call"]
  <2>1. req' = [req EXCEPT ![q] = k]
    BY <1>1, <1>6
  <2>2. k \in ReqType /\ k.op = req[q].op /\ k.rows = req[q].rows /\ k.same = req[q].same
        /\ k.new = req[q].new /\ k.todo = req[q].todo /\ k.done = req[q].done
        /\ k.cur = "none" /\ k.at = "call"
    BY <1>1 DEF ReqType
  <2> HIDE DEF k
  <2>3. Goes(q, k.todo, k.done, k.cur, k.at)
    BY <1>2, <2>1, <2>2
  <2> QED
    BY <2>2, <2>3
<1>7. ASSUME NEW r \in Rows, req' = [req EXCEPT ![q].done = @ \union {r}, ![q].cur = "none", ![q].at = "call"]
      PROVE  Goes(q, req[q].todo, req[q].done \union {r}, "none", "call")
  <2> DEFINE k == [req[q] EXCEPT !.done = @ \union {r}, !.cur = "none", !.at = "call"]
  <2>1. req' = [req EXCEPT ![q] = k]
    BY <1>1, <1>7
  <2>2. k \in ReqType /\ k.op = req[q].op /\ k.rows = req[q].rows /\ k.same = req[q].same
        /\ k.new = req[q].new /\ k.todo = req[q].todo /\ k.done = req[q].done \union {r}
        /\ k.cur = "none" /\ k.at = "call"
    BY <1>1 DEF ReqType
  <2> HIDE DEF k
  <2>3. Goes(q, k.todo, k.done, k.cur, k.at)
    BY <1>2, <2>1, <2>2
  <2> QED
    BY <2>2, <2>3
<1> QED
  BY <1>3, <1>4, <1>5, <1>6, <1>7

(* The answer of the engine. *)
LEMMA AnsweredKeeps ==
    ASSUME CatalogInv, NEW q \in Requests, NEW r \in Rows, CallAnswered(q, r)
    PROVE  CatalogInv'
<1> DEFINE op == CallOp(q, r)
<1>1. /\ CatalogTypeOK /\ RequestOK(q) /\ req[q].at = "call" /\ r \in req[q].rows
      /\ r \in req[q].todo /\ q \in held[r] /\ Effect(op, r) /\ req[q].rows \in SUBSET Rows
      /\ UNCHANGED <<row, whole, magnets, job, held, made, restarts, faults>>
  BY CallsOwn DEF CallAnswered, ReqType
<1>2. /\ handle' \in [Rows -> {"none", "running", "paused"}] /\ disk' \subseteq Rows
      /\ \A s \in Rows : s # r => handle'[s] = handle[s]
      /\ op \in {"create", "pause", "resume", "delete"}
      /\ op = "create" /\ handle[r] = "none" => handle'[r] = "running"
      /\ op = "delete" => handle'[r] = "none"
      /\ op = "pause" => handle'[r] # "running"
      /\ op = "resume" => handle'[r] # "paused"
      /\ op \in {"pause", "resume"} /\ handle[r] = "none" => handle'[r] = "none"
  <2> HIDE DEF op
  <2> QED
    BY <1>1, EffectTouches
<1>3. \/ Goes(q, req[q].todo \ {r}, req[q].done, r, "write")
      \/ /\ Goes(q, req[q].todo \ {r}, req[q].done, req[q].cur, req[q].at)
         /\ op \in {"pause", "resume"} /\ handle[r] = "none"
  BY <1>1, RecordGoesOn DEF CallAnswered, Missing
<1>4. RequestOK(q)'
  <2>1. ASSUME NEW s \in req[q].rows PROVE Called(q, s)'
    <3>1. s \in Rows /\ Called(q, s) /\ CallOp(q, s)' = CallOp(q, s) /\ held'[s] = held[s]
          /\ row'[s] = row[s]
      BY <1>1, <1>3 DEF RequestOK, Goes
    <3>2. CASE s # r
      BY <1>1, <1>2, <1>3, <3>1, <3>2 DEF Called, Goes
    <3>3. CASE s = r
      <4>1. CallOp(q, s)' = op
        BY <3>1, <3>3
      <4> HIDE DEF op
      <4> QED
        BY <1>1, <1>2, <1>3, <3>1, <3>3, <4>1 DEF Called, Goes
    <3> QED
      BY <3>2, <3>3
  <2> QED
    BY <1>1, <1>3, <2>1 DEF RequestOK, Goes
<1>5. \A s \in Rows : q \notin held[s] => handle'[s] = handle[s]
  BY <1>1, <1>2
<1>6. faults' \in 0..MaxFaults /\ req'[q] \in ReqType /\ req' = [req EXCEPT ![q] = req'[q]]
  BY <1>1, <1>3 DEF CatalogTypeOK, Goes
<1> QED
  BY <1>1, <1>2, <1>4, <1>5, <1>6, RequestWorks

(* No answer, and a mess. *)
LEMMA CallFailsKeeps ==
    ASSUME CatalogInv, NEW q \in Requests, NEW r \in Rows, CallFails(q, r)
    PROVE  CatalogInv'
<1>1. /\ q \in Actors /\ q # "mess" /\ CatalogTypeOK /\ RequestOK(q) /\ HoldersOK /\ Catalogued
      /\ req[q].at = "call" /\ r \in req[q].rows /\ r \in req[q].todo /\ q \in held[r]
      /\ req[q].rows \in SUBSET Rows /\ UNCHANGED <<row, whole, magnets, job, made, restarts>>
      /\ held' = [held EXCEPT ![r] = @ \union {"mess"}]
  BY CallsOwn, ActorNames DEF Actors, CatalogInv, CallFails, ReqType
<1>2. /\ handle' \in [Rows -> {"none", "running", "paused"}] /\ disk' \subseteq Rows
      /\ \A s \in Rows : s # r => handle'[s] = handle[s]
  <2>1. CASE Effect(CallOp(q, r), r)
    BY <1>1, <2>1, EffectTouches
  <2>2. CASE UNCHANGED <<handle, disk>>
    BY <1>1, <2>2 DEF CatalogTypeOK
  <2> QED
    BY <2>1, <2>2 DEF CallFails
<1>3. /\ held' \in [Rows -> SUBSET (Actors \union {"mess"})]
      /\ held'[r] = held[r] \union {"mess"} /\ \A s \in Rows : s # r => held'[s] = held[s]
  BY <1>1 DEF CatalogTypeOK
<1>4. \/ Goes(q, req[q].todo \ {r}, req[q].done, r, "write")
      \/ Goes(q, req[q].todo \ {r}, req[q].done, req[q].cur, req[q].at)
      \/ Goes(q, req[q].todo, req[q].done, "none", "error")
  BY <1>1, RecordGoesOn DEF CallFails
<1>5. /\ \A p \in Requests : p # q => req'[p] = req[p]
      /\ req'[q] \in ReqType /\ req' = [req EXCEPT ![q] = req'[q]]
  BY <1>1, <1>4 DEF Goes, CatalogTypeOK
<1>6. CatalogTypeOK'
  <2>1. faults' \in 0..MaxFaults
    BY <1>1, CatalogAssumption DEF CatalogTypeOK, CallFails, Fault
  <2>2. req' \in [Requests -> ReqType]
    BY <1>1, <1>5 DEF CatalogTypeOK
  <2> QED
    BY <1>1, <1>2, <1>3, <2>1, <2>2 DEF CatalogTypeOK
<1>7. HoldersOK'
  BY <1>1, <1>2, <1>3 DEF HoldersOK
<1>8. Catalogued'
  <2>1. \A s \in Rows : made[s] # "no" => handle'[s] = handle[s]
    BY <1>1, <1>2 DEF HoldersOK
  <2> QED
    BY <1>1, <2>1 DEF Catalogued
<1>9. OthersStay(q)
  <2>1. \A b \in Actors : b # "mess"
    BY ActorNames
  <2> QED
    BY <1>1, <1>2, <1>3, <2>1 DEF OthersStay
<1>10. RequestOK(q)'
  <2>1. ASSUME NEW s \in req[q].rows PROVE q \in held'[s] /\ Called(q, s)'
    <3>1. s \in Rows /\ q \in held[s] /\ Called(q, s) /\ CallOp(q, s)' = CallOp(q, s)
          /\ row'[s] = row[s]
      BY <1>1, <1>4 DEF RequestOK, Goes
    <3>2. CASE s # r
      BY <1>1, <1>2, <1>3, <1>4, <3>1, <3>2 DEF Called, Goes
    <3>3. CASE s = r
      BY <1>1, <1>3, <3>1, <3>3 DEF Called
    <3> QED
      BY <3>2, <3>3
  <2> QED
    BY <1>1, <1>4, <2>1 DEF RequestOK, Goes
<1>11. /\ \A p \in Requests : p # q => RequestOK(p)'
       /\ \A p \in Restorers : p # q => \A s \in Rows : JobOK(p, s)'
  BY <1>1, <1>5, <1>9, OthersKeep
<1> QED
  BY <1>1, <1>6, <1>7, <1>8, <1>10, <1>11, ActorNames DEF CatalogInv

(* The flush of a row, and whatever ends a request.                        *)
LEMMA WriteKeeps ==
    ASSUME CatalogInv, NEW q \in Requests, Write(q) \/ Breaks(q)
    PROVE  CatalogInv'
<1> DEFINE r == req[q].cur
<1>1. /\ CatalogTypeOK /\ RequestOK(q) /\ req[q].rows \in SUBSET Rows
      /\ req[q].at \in {"call", "write"}
      /\ UNCHANGED <<row, handle, disk, whole, magnets, job, held, made, restarts>>
  BY DEF CatalogInv, CatalogTypeOK, ReqType, Write, Breaks
<1>2. \/ Goes(q, req[q].todo, req[q].done, "none", "error")
      \/ /\ req[q].at = "write" /\ r \in req[q].same /\ Goes(q, req[q].todo, req[q].done, "none", "call")
      \/ /\ req[q].at = "write" /\ r \in req[q].rows
         /\ Goes(q, req[q].todo, req[q].done \union {r}, "none", "call")
  <2>1. CASE Write(q)
    <3>1. r \in Rows /\ r \in req[q].rows
      BY <1>1, <2>1 DEF Write, RequestOK
    <3> QED
      BY <1>1, <2>1, <3>1, RecordGoesOn DEF Write
  <2>2. CASE Breaks(q)
    BY <1>1, <2>2, RecordGoesOn DEF Breaks
  <2> QED
    BY <2>1, <2>2
<1>3. RequestOK(q)'
  <2>1. ASSUME NEW s \in req[q].rows PROVE q \in held'[s] /\ Called(q, s)'
    <3>1. s \in Rows /\ q \in held[s] /\ Called(q, s) /\ CallOp(q, s)' = CallOp(q, s)
          /\ held'[s] = held[s] /\ row'[s] = row[s] /\ handle'[s] = handle[s]
      BY <1>1, <1>2 DEF RequestOK, Goes
    <3> QED
      BY <1>1, <1>2, <3>1 DEF Called, Goes
  <2> QED
    BY <1>1, <1>2, <2>1 DEF RequestOK, Goes
<1>4. req'[q] \in ReqType /\ req' = [req EXCEPT ![q] = req'[q]]
  BY <1>2 DEF Goes
<1>5. faults' \in 0..MaxFaults
  BY <1>1, CatalogAssumption DEF CatalogTypeOK, Write, Breaks, Fault
<1>6. handle' \in [Rows -> {"none", "running", "paused"}] /\ disk' \subseteq Rows
  BY <1>1 DEF CatalogTypeOK
<1> QED
  BY <1>1, <1>3, <1>4, <1>5, <1>6, RequestWorks

(* A request ends: what it did alone is what its rows say.                 *)
LEMMA EndKeeps ==
    ASSUME CatalogInv, NEW q \in Requests, NEW kind \in {"no", "request", "set"},
           Through(req[q].rows, q, kind), req' = [req EXCEPT ![q] = NoReq],
           row' \in [Rows -> {"fresh", "queued", "active", "paused", "gone"}],
           \A r \in Rows \ req[q].rows : row'[r] = row[r],
           \A r \in req[q].rows : row'[r] # "fresh" /\ (held[r] = {q} => Settled(r, kind)'),
           UNCHANGED <<handle, disk, whole, magnets, job, restarts, faults>>
    PROVE  CatalogInv'
<1> DEFINE R == req[q].rows
<1>1. q \in Actors /\ CatalogTypeOK /\ RequestOK(q) /\ R \in SUBSET Rows
  BY DEF Actors, CatalogInv, CatalogTypeOK, ReqType
<1>2. \A r \in R : q \in held[r]
  BY <1>1 DEF RequestOK
<1>3. /\ held' \in [Rows -> SUBSET (Actors \union {"mess"})]
      /\ made' \in [Rows -> Restorers \union {"no", "request", "set"}]
      /\ HoldersOK' /\ Catalogued' /\ OthersStay(q)
  <2>1. \A r \in Rows \ R : row'[r] = row[r] /\ handle'[r] = handle[r]
    OBVIOUS
  <2>2. \A r \in R : q \in held[r] /\ row'[r] # "fresh"
    BY <1>2
  <2>3. \A r \in R : held[r] = {q} => Settled(r, kind)'
    OBVIOUS
  <2>4. kind \in Restorers \union {"no", "request", "set"} /\ Through(R, q, kind)
    OBVIOUS
  <2> HIDE DEF R
  <2> QED
    BY <1>1, <2>1, <2>2, <2>3, <2>4, ThroughHolds
<1>4. req'[q] = NoReq /\ \A p \in Requests : p # q => req'[p] = req[p]
  BY <1>1 DEF CatalogTypeOK
<1>5. CatalogTypeOK'
  <2>1. NoReq \in ReqType
    BY DEF NoReq, ReqType
  <2> QED
    BY <1>1, <1>3, <2>1 DEF CatalogTypeOK
<1>6. RequestOK(q)'
  BY <1>4 DEF RequestOK, NoReq
<1>7. \A r \in Rows : row'[r] = "fresh" => row[r] = "fresh"
  BY <1>1
<1>8. /\ \A p \in Requests : p # q => RequestOK(p)'
      /\ \A p \in Restorers : p # q => \A s \in Rows : JobOK(p, s)'
  BY <1>1, <1>3, <1>4, <1>7, OthersKeep
<1> QED
  BY <1>1, <1>3, <1>5, <1>6, <1>8, ActorNames DEF CatalogInv

(* The commit. *)
LEMMA CommitKeeps ==
    ASSUME CatalogInv, NEW q \in Requests, Commit(q)
    PROVE  CatalogInv'
<1> DEFINE S == {"fresh", "queued", "active", "paused", "gone"}
<1>0. PICK kind : kind = IF req[q].op \in {"pause", "resume"} THEN "set" ELSE "request"
  OBVIOUS
<1>1. /\ CatalogTypeOK /\ RequestOK(q) /\ req[q] \in ReqType /\ req[q].at = "call" /\ req[q].todo = {}
      /\ UNCHANGED <<handle, disk, whole, magnets, job, restarts, faults>>
      /\ Through(req[q].rows, q, kind) /\ req' = [req EXCEPT ![q] = NoReq]
  BY <1>0 DEF CatalogInv, CatalogTypeOK, Commit
<1>2. req[q].op \in {"create", "pause", "resume", "delete", "replace"} /\ req[q].rows \in SUBSET Rows
  BY <1>1 DEF RequestOK, ReqType
<1>3. \A r \in Rows : CallOp(q, r) \in {"create", "pause", "resume", "delete"}
  BY <1>2 DEF CallOp
<1>4. \A r \in Rows :
         row'[r] = IF r \in req[q].done THEN StatusOf(CallOp(q, r))
                   ELSE IF r \in req[q].rows /\ row[r] = "fresh" THEN "gone" ELSE row[r]
  BY DEF Commit
<1>5. /\ StatusOf("create") = "active" /\ StatusOf("resume") = "active"
      /\ StatusOf("pause") = "paused" /\ StatusOf("delete") = "gone"
  BY DEF StatusOf
<1>6. \A r \in Rows : StatusOf(CallOp(q, r)) \in {"active", "paused", "gone"}
  BY <1>3, <1>5
<1>7. row' \in [Rows -> S]
  <2>1. \A r \in Rows : row'[r] \in S
    BY <1>1, <1>4, <1>6 DEF CatalogTypeOK
  <2> QED
    BY <2>1 DEF Commit
<1>8. \A r \in Rows \ req[q].rows : row'[r] = row[r]
  BY <1>1, <1>4 DEF RequestOK
<1>9. \A r \in req[q].rows : row'[r] # "fresh"
  BY <1>2, <1>4, <1>6
<1>10. ASSUME NEW r \in req[q].rows, held[r] = {q} PROVE Settled(r, kind)'
  <2>1. r \in Rows /\ Called(q, r) /\ r \notin req[q].todo /\ handle'[r] = handle[r]
    BY <1>1, <1>2, <1>10 DEF RequestOK
  <2>2. \/ r \in req[q].done
        \/ CallOp(q, r) \in {"pause", "resume"} /\ (handle[r] = "none" \/ row[r] = StatusOf(CallOp(q, r)))
    BY <1>1, <1>10, <2>1 DEF Called
  <2>3. CASE CallOp(q, r) = "create"
    <3>1. handle'[r] = "running" /\ row'[r] = "active" /\ kind = "request"
      BY <1>0, <1>1, <1>4, <1>5, <1>10, <2>1, <2>2, <2>3 DEF Called, CallOp
    <3> QED
      BY <3>1 DEF Settled
  <2>4. CASE CallOp(q, r) = "delete"
    <3>1. handle'[r] = "none" /\ row'[r] = "gone" /\ kind = "request"
      BY <1>0, <1>1, <1>4, <1>5, <1>10, <2>1, <2>2, <2>4 DEF Called, CallOp
    <3> QED
      BY <3>1 DEF Settled
  <2>5. CASE CallOp(q, r) = "pause"
    <3>1. handle'[r] # "running" /\ (handle'[r] = "paused" => row'[r] = "paused") /\ kind = "set"
      BY <1>0, <1>1, <1>4, <1>5, <1>10, <2>1, <2>2, <2>5 DEF Called, CallOp
    <3> QED
      BY <3>1 DEF Settled
  <2>6. CASE CallOp(q, r) = "resume"
    <3>1. handle'[r] # "paused" /\ (handle'[r] = "running" => row'[r] = "active") /\ kind = "set"
      BY <1>0, <1>1, <1>4, <1>5, <1>10, <2>1, <2>2, <2>6 DEF Called, CallOp
    <3> QED
      BY <3>1 DEF Settled
  <2> QED
    BY <1>3, <2>1, <2>3, <2>4, <2>5, <2>6
<1>11. kind \in {"no", "request", "set"}
  BY <1>0
<1> QED
  BY <1>1, <1>7, <1>8, <1>9, <1>10, <1>11, EndKeeps

(* Rolled back: nothing is promised. *)
LEMMA RollBackKeeps ==
    ASSUME CatalogInv, NEW q \in Requests, RollBack(q)
    PROVE  CatalogInv'
<1>1. CatalogTypeOK /\ req[q].rows \in SUBSET Rows
  BY DEF CatalogInv, CatalogTypeOK, ReqType
<1>2. /\ row' \in [Rows -> {"fresh", "queued", "active", "paused", "gone"}]
      /\ \A s \in Rows \ req[q].rows : row'[s] = row[s]
      /\ \A s \in req[q].rows : row'[s] # "fresh"
  BY <1>1 DEF RollBack, CatalogTypeOK
<1>3. \A s \in Rows : Settled(s, "no")'
  BY DEF Settled
<1> QED
  BY <1>1, <1>2, <1>3, EndKeeps DEF RollBack

-----------------------------------------------------------------------------
(* A restore reads the rows. *)
LEMMA ReadKeeps ==
    ASSUME CatalogInv, NEW p \in Restorers, RestoreRead(p)
    PROVE  CatalogInv'
<1>1. p \in Actors /\ CatalogTypeOK /\ Wanted(p) \in SUBSET Rows
      /\ UNCHANGED <<row, handle, disk, whole, magnets, req, restarts, faults>>
  BY DEF Actors, CatalogInv, RestoreRead, Wanted
<1>2. /\ held' \in [Rows -> SUBSET (Actors \union {"mess"})]
      /\ made' \in [Rows -> Restorers \union {"no", "request", "set"}]
      /\ HoldersOK' /\ Catalogued' /\ OthersStay(p)
      /\ \A r \in Wanted(p) : p \in held'[r]
  BY <1>1, JoinHolds DEF RestoreRead
<1>3. /\ job'[p] = [r \in Rows |->
                      IF r \in Wanted(p) THEN [at |-> IF p = "bulk" THEN "add" ELSE "look",
                                               saw |-> "none", st |-> row[r]]
                      ELSE NoJob]
      /\ job' = [job EXCEPT ![p] = job'[p]]
      /\ \A b \in Restorers : b # p => job'[b] = job[b]
  BY <1>1 DEF RestoreRead, CatalogTypeOK
<1>4. \A r \in Wanted(p) : row[r] \in (IF p = "bulk" THEN {"queued"} ELSE Shown)
  BY DEF Wanted
<1>5. job'[p] \in [Rows -> JobType]
  BY <1>3, <1>4 DEF NoJob, Shown, JobType
<1>6. CatalogTypeOK'
  <2>1. job' \in [Restorers -> [Rows -> JobType]]
    BY <1>1, <1>3, <1>5 DEF CatalogTypeOK
  <2> QED
    BY <1>1, <1>2, <2>1 DEF CatalogTypeOK
<1>7. \A r \in Rows : JobOK(p, r)'
  BY <1>1, <1>2, <1>3, <1>4 DEF JobOK, NoJob, Shown
<1>8. /\ \A q \in Requests : q # p => RequestOK(q)'
      /\ \A b \in Restorers : b # p => \A r \in Rows : JobOK(b, r)'
  BY <1>1, <1>2, <1>3, OthersKeep
<1> QED
  BY <1>1, <1>2, <1>6, <1>7, <1>8, ActorNames DEF CatalogInv

(* A restore goes on with a torrent, alone changing what the engine has of *)
(* it.                                                                     *)
LEMMA JobWorks ==
    ASSUME CatalogInv, NEW p \in Restorers, NEW r \in Rows, job[p][r].at # "idle",
           NEW at \in {"add", "sync", "flush", "written", "broken"},
           NEW saw \in {"none", "running", "paused"},
           job' = [job EXCEPT ![p][r].at = at, ![p][r].saw = saw],
           at \in {"flush", "written", "broken"} => p = "bulk",
           held[r] = {p} /\ at # "add" => handle'[r] = saw /\ saw # "none",
           handle' \in [Rows -> {"none", "running", "paused"}], disk' \subseteq Rows,
           \A s \in Rows : s # r => handle'[s] = handle[s],
           faults' \in 0..MaxFaults, UNCHANGED <<row, whole, magnets, req, held, made, restarts>>
    PROVE  CatalogInv'
<1>1. /\ p \in Actors /\ CatalogTypeOK /\ p \in held[r] /\ row[r] # "fresh" /\ JobOK(p, r)
  BY DEF Actors, CatalogInv, JobOK
<1>2. HoldersOK' /\ Catalogued' /\ OthersStay(p)
  <2>1. \A s \in Rows : p \notin held[s] => handle'[s] = handle[s]
    BY <1>1
  <2> QED
    BY <1>1, <2>1, WorkHolds
<1>3. /\ job'[p][r].at = at /\ job'[p][r].saw = saw /\ job'[p][r].st = job[p][r].st
      /\ \A s \in Rows : s # r => job'[p][s] = job[p][s]
      /\ \A b \in Restorers : b # p => job'[b] = job[b]
  BY <1>1 DEF CatalogTypeOK, JobType
<1>4. CatalogTypeOK'
  <2>1. job' \in [Restorers -> [Rows -> JobType]]
    <3> DEFINE k == [job[p][r] EXCEPT !.at = at, !.saw = saw]
    <3>1. /\ job \in [Restorers -> [Rows -> JobType]] /\ job[p] \in [Rows -> JobType]
          /\ job[p][r] \in JobType
      BY <1>1 DEF CatalogTypeOK
    <3>2. k \in JobType
      BY <3>1 DEF JobType
    <3>3. job' = [job EXCEPT ![p] = [job[p] EXCEPT ![r] = k]]
      BY <3>1
    <3>4. [job EXCEPT ![p] = [job[p] EXCEPT ![r] = k]] \in [Restorers -> [Rows -> JobType]]
      <4> HIDE DEF k
      <4> QED
        BY <3>1, <3>2
    <3> QED
      BY <3>3, <3>4
  <2> QED
    BY <1>1, <2>1 DEF CatalogTypeOK
<1>5. \A s \in Rows : JobOK(p, s)'
  <2>1. JobOK(p, r)'
    BY <1>1, <1>3 DEF JobOK
  <2>2. ASSUME NEW s \in Rows, s # r PROVE JobOK(p, s)'
    <3>1. JobOK(p, s) /\ job'[p][s] = job[p][s] /\ held'[s] = held[s] /\ row'[s] = row[s]
          /\ handle'[s] = handle[s]
      BY <1>3, <2>2 DEF CatalogInv
    <3> QED
      BY <3>1 DEF JobOK
  <2> QED
    BY <2>1, <2>2
<1>6. /\ \A q \in Requests : q # p => RequestOK(q)'
      /\ \A b \in Restorers : b # p => \A s \in Rows : JobOK(b, s)'
  BY <1>1, <1>2, <1>3, OthersKeep
<1> QED
  BY <1>1, <1>2, <1>4, <1>5, <1>6, ActorNames DEF CatalogInv

(* It looks at a torrent. *)
LEMMA LookKeeps ==
    ASSUME CatalogInv, NEW p \in Restorers, NEW r \in Rows, RestoreLook(p, r)
    PROVE  CatalogInv'
<1> DEFINE at == IF handle[r] = "none" THEN "add" ELSE "sync"
           saw == handle[r]
<1>1. CatalogTypeOK /\ job[p][r].at # "idle"
      /\ UNCHANGED <<row, handle, disk, whole, magnets, req, held, made, restarts, faults>>
  BY DEF CatalogInv, RestoreLook
<1>2. /\ job' = [job EXCEPT ![p][r].at = at, ![p][r].saw = saw]
      /\ at \in {"add", "sync", "flush", "written", "broken"}
      /\ at \notin {"flush", "written", "broken"} /\ (at # "add" => saw # "none")
  BY DEF RestoreLook
<1>3. /\ saw \in {"none", "running", "paused"} /\ handle' \in [Rows -> {"none", "running", "paused"}]
      /\ handle'[r] = saw /\ disk' \subseteq Rows /\ faults' \in 0..MaxFaults
  BY <1>1 DEF CatalogTypeOK
<1> HIDE DEF at, saw
<1> QED
  BY <1>1, <1>2, <1>3, JobWorks

(* What it brings is there, and nothing else changes.                      *)
LEMMA BroughtIs ==
    ASSUME CatalogTypeOK, NEW r \in Rows, Brought(r)
    PROVE  /\ handle' \in [Rows -> {"none", "running", "paused"}] /\ disk' \subseteq Rows
           /\ \A s \in Rows : s # r => handle'[s] = handle[s]
           /\ handle'[r] # "none"
<1>1. disk' \subseteq Rows /\ \E s \in {"running", "paused"} : handle' = Added(r, s)
  BY DEF Brought, CatalogTypeOK
<1> QED
  BY <1>1 DEF Added, CatalogTypeOK

(* It adds a torrent. *)
LEMMA AddKeeps ==
    ASSUME CatalogInv, NEW p \in Restorers, NEW r \in Rows, RestoreAdd(p, r)
    PROVE  CatalogInv'
<1> DEFINE saw == handle'[r]
<1>1. CatalogTypeOK /\ job[p][r].at # "idle" /\ Brought(r)
      /\ UNCHANGED <<row, whole, magnets, req, held, made, restarts, faults>>
      /\ job' = [job EXCEPT ![p][r].at = "sync", ![p][r].saw = saw]
  BY DEF CatalogInv, RestoreAdd
<1>2. /\ handle' \in [Rows -> {"none", "running", "paused"}] /\ disk' \subseteq Rows
      /\ \A s \in Rows : s # r => handle'[s] = handle[s]
      /\ saw # "none" /\ saw \in {"none", "running", "paused"} /\ handle'[r] = saw
      /\ faults' \in 0..MaxFaults
  BY <1>1, BroughtIs DEF CatalogTypeOK
<1> HIDE DEF saw
<1> QED
  BY <1>1, <1>2, JobWorks

(* The flushes of a bulk registration. *)
LEMMA FlushKeeps ==
    ASSUME CatalogInv, NEW p \in Restorers, NEW r \in Rows,
           FlushBegin(p, r) \/ FlushEnd(p, r) \/ FlushFails(p, r)
    PROVE  CatalogInv'
<1>1. CatalogTypeOK /\ JobOK(p, r)
  BY DEF CatalogInv
<1>2. job[p][r].at \in {"sync", "flush"} /\ (job[p][r].at = "sync" => p = "bulk")
  BY DEF FlushBegin, FlushEnd, FlushFails
<1>3. p = "bulk"
  BY <1>1, <1>2 DEF JobOK
<1>4. PICK at \in {"flush", "written", "broken"} : Place(p, r, at)
  BY DEF FlushBegin, FlushEnd, FlushFails
<1> DEFINE saw == job[p][r].saw
<1>5. saw \in {"none", "running", "paused"} /\ job' = [job EXCEPT ![p][r].at = at, ![p][r].saw = saw]
  <2>1. /\ job \in [Restorers -> [Rows -> JobType]] /\ job[p] \in [Rows -> JobType]
        /\ job[p][r] \in JobType
    BY <1>1 DEF CatalogTypeOK
  <2>2. job' = [job EXCEPT ![p] = [job[p] EXCEPT ![r] = [job[p][r] EXCEPT !.at = at]]]
    BY <1>4, <2>1 DEF Place
  <2>3. [job[p][r] EXCEPT !.at = at, !.saw = saw] = [job[p][r] EXCEPT !.at = at]
    BY <2>1 DEF JobType
  <2> QED
    BY <2>1, <2>2, <2>3 DEF JobType
<1>6. held[r] = {p} => handle[r] = saw /\ saw # "none"
  BY <1>1, <1>2 DEF JobOK
<1>7. /\ UNCHANGED <<row, handle, disk, whole, magnets, req, held, made, restarts>>
      /\ handle' \in [Rows -> {"none", "running", "paused"}] /\ disk' \subseteq Rows
  BY <1>1, <1>4 DEF Place, CatalogTypeOK
<1>8. faults' \in 0..MaxFaults
  BY <1>1, CatalogAssumption DEF FlushBegin, FlushEnd, FlushFails, Fault, CatalogTypeOK
<1> HIDE DEF saw
<1> QED
  BY <1>2, <1>3, <1>4, <1>5, <1>6, <1>7, <1>8, JobWorks

(* A restore is through with torrents. *)
LEMMA DoneKeeps ==
    ASSUME CatalogInv, NEW p \in Restorers, NEW R \in SUBSET Rows, NEW kind \in Restorers \union {"no"},
           RowsDone(p, R, kind), \A r \in R : job[p][r].at # "idle",
           handle' \in [Rows -> {"none", "running", "paused"}], disk' \subseteq Rows,
           row' \in [Rows -> {"fresh", "queued", "active", "paused", "gone"}],
           \A s \in Rows \ R : row'[s] = row[s] /\ handle'[s] = handle[s],
           \A r \in R : row'[r] # "fresh" /\ (held[r] = {p} => Settled(r, kind)'),
           faults' \in 0..MaxFaults, UNCHANGED <<whole, magnets, req, restarts>>
    PROVE  CatalogInv'
<1>1. p \in Actors /\ CatalogTypeOK /\ \A r \in R : p \in held[r]
  BY DEF Actors, CatalogInv, JobOK
<1>2. /\ held' \in [Rows -> SUBSET (Actors \union {"mess"})]
      /\ made' \in [Rows -> Restorers \union {"no", "request", "set"}]
      /\ HoldersOK' /\ Catalogued' /\ OthersStay(p)
      /\ \A s \in Rows \ R : held'[s] = held[s]
  <2>1. Through(R, p, kind)
    BY DEF RowsDone
  <2>2. /\ \A s \in R : p \in held[s] /\ row'[s] # "fresh"
        /\ \A s \in R : held[s] = {p} => Settled(s, kind)'
    BY <1>1
  <2>3. kind \in Restorers \union {"no", "request", "set"} /\ UNCHANGED whole
    OBVIOUS
  <2> QED
    BY <1>1, <2>1, <2>2, <2>3, ThroughHolds
<1>3. /\ \A r \in R : job'[p][r] = NoJob
      /\ \A s \in Rows \ R : job'[p][s] = job[p][s]
      /\ \A b \in Restorers : b # p => job'[b] = job[b]
  BY <1>1 DEF RowsDone, CatalogTypeOK
<1>4. CatalogTypeOK'
  <2>1. job' \in [Restorers -> [Rows -> JobType]]
    <3>1. NoJob \in JobType
      BY DEF NoJob, JobType
    <3> QED
      BY <1>1, <3>1 DEF RowsDone, CatalogTypeOK
  <2> QED
    BY <1>1, <1>2, <2>1 DEF CatalogTypeOK
<1>5. \A s \in Rows : JobOK(p, s)'
  <2>1. \A r \in R : JobOK(p, r)'
    BY <1>3 DEF JobOK, NoJob
  <2>2. \A s \in Rows \ R : JobOK(p, s)'
    BY <1>2, <1>3 DEF JobOK, CatalogInv
  <2> QED
    BY <2>1, <2>2
<1>6. \A s \in Rows : row'[s] = "fresh" => row[s] = "fresh"
  OBVIOUS
<1>7. /\ \A q \in Requests : q # p => RequestOK(q)'
      /\ \A b \in Restorers : b # p => \A s \in Rows : JobOK(b, s)'
  BY <1>1, <1>2, <1>3, <1>6, OthersKeep
<1> QED
  BY <1>1, <1>2, <1>4, <1>5, <1>7, ActorNames DEF CatalogInv

(* What a pause or resume of the sync does.                                *)
LEMMA SyncTouches ==
    ASSUME CatalogTypeOK, NEW r \in Rows, NEW s \in {"running", "paused"}, handle' = PauseSet(r, s)
    PROVE  /\ handle' \in [Rows -> {"none", "running", "paused"}]
           /\ \A t \in Rows : t # r => handle'[t] = handle[t]
           /\ handle[r] # "none" => handle'[r] = s
<1> QED
  BY DEF PauseSet, CatalogTypeOK

(* What was synchronised alone follows its row.                            *)
LEMMA SyncKeeps ==
    ASSUME CatalogInv, NEW p \in Restorers, NEW r \in Rows, RestoreSync(p, r)
    PROVE  CatalogInv'
<1>1. /\ CatalogTypeOK /\ JobOK(p, r) /\ job[p][r].at = "sync" /\ p \in {"startup", "worker"}
      /\ UNCHANGED <<row, disk, whole, magnets, req, restarts, faults>> /\ RowsDone(p, {r}, p)
      /\ handle' = IF Synced(p, r) = "as is" THEN handle ELSE PauseSet(r, Synced(p, r))
  BY CatalogAssumption DEF CatalogInv, RestoreSync
<1>2. Synced(p, r) \in {"as is", "running", "paused"}
  BY DEF Synced
<1>3. /\ handle' \in [Rows -> {"none", "running", "paused"}]
      /\ \A s \in Rows : s # r => handle'[s] = handle[s]
      /\ handle[r] # "none" =>
            handle'[r] = IF Synced(p, r) = "as is" THEN handle[r] ELSE Synced(p, r)
  BY <1>1, <1>2, SyncTouches DEF CatalogTypeOK
<1>4. row'[r] # "fresh"
  BY <1>1 DEF JobOK
<1>5. held[r] = {p} => Settled(r, p)'
  <2> HAVE held[r] = {p}
  <2>1. /\ row[r] = job[p][r].st /\ row[r] \in Shown
        /\ handle[r] = job[p][r].saw /\ handle[r] \in {"running", "paused"}
    BY <1>1 DEF JobOK, CatalogTypeOK
  <2>2. CASE p = "worker"
    BY <1>1, <1>3, <2>1, <2>2 DEF Settled, Synced, Shown
  <2>3. CASE p = "startup"
    BY <1>1, <1>3, <2>1, <2>3 DEF Settled, Synced, Shown
  <2> QED
    BY <1>1, <2>2, <2>3
<1> DEFINE R == {r}
<1>6. /\ R \in SUBSET Rows /\ RowsDone(p, R, p) /\ \A s \in R : job[p][s].at # "idle"
      /\ \A s \in Rows \ R : row'[s] = row[s] /\ handle'[s] = handle[s]
      /\ \A s \in R : row'[s] # "fresh" /\ (held[s] = {p} => Settled(s, p)')
  BY <1>1, <1>3, <1>4, <1>5
<1>7. /\ disk' \subseteq Rows /\ faults' \in 0..MaxFaults
      /\ row' \in [Rows -> {"fresh", "queued", "active", "paused", "gone"}]
  BY <1>1 DEF CatalogTypeOK
<1> HIDE DEF R
<1> QED
  BY <1>1, <1>3, <1>6, <1>7, DoneKeeps

(* A torrent that is not found, a call that fails, or a coroutine that is  *)
(* dropped: nothing is promised.                                           *)
LEMMA LeftKeeps ==
    ASSUME CatalogInv, NEW p \in Restorers, NEW r \in Rows,
           RestoreAddNone(p, r) \/ RestoreFails(p, r) \/ BatchDrops(p, r)
    PROVE  CatalogInv'
<1>1. CatalogTypeOK /\ JobOK(p, r) /\ job[p][r].at # "idle" /\ RowsDone(p, {r}, "no")
      /\ UNCHANGED <<row, whole, magnets, req, restarts>>
  BY DEF CatalogInv, RestoreAddNone, RestoreFails, BatchDrops
<1>2. /\ handle' \in [Rows -> {"none", "running", "paused"}] /\ disk' \subseteq Rows
      /\ \A s \in Rows : s # r => handle'[s] = handle[s]
  <2>1. CASE UNCHANGED <<handle, disk>>
    BY <1>1, <2>1 DEF CatalogTypeOK
  <2>2. CASE Brought(r)
    BY <1>1, <2>2, BroughtIs
  <2>3. CASE Synced(p, r) # "as is" /\ handle' = PauseSet(r, Synced(p, r)) /\ UNCHANGED disk
    <3>1. Synced(p, r) \in {"running", "paused"}
      BY <2>3 DEF Synced
    <3> QED
      BY <1>1, <2>3, <3>1, SyncTouches DEF CatalogTypeOK
  <2> QED
    BY <2>1, <2>2, <2>3 DEF RestoreAddNone, RestoreFails, BatchDrops
<1>3. faults' \in 0..MaxFaults
  <2>1. faults' = faults \/ Fault
    BY DEF RestoreAddNone, RestoreFails, BatchDrops
  <2> QED
    BY <1>1, <2>1, CatalogAssumption DEF Fault, CatalogTypeOK
<1> DEFINE R == {r}
<1>4. /\ R \in SUBSET Rows /\ RowsDone(p, R, "no") /\ \A s \in R : job[p][s].at # "idle"
      /\ \A s \in Rows \ R : row'[s] = row[s] /\ handle'[s] = handle[s]
      /\ \A s \in R : row'[s] # "fresh" /\ (held[s] = {p} => Settled(s, "no")')
  BY <1>1, <1>2, CatalogAssumption DEF Settled, JobOK
<1>5. row' \in [Rows -> {"fresh", "queued", "active", "paused", "gone"}]
  BY <1>1 DEF CatalogTypeOK
<1> HIDE DEF R
<1> QED
  BY <1>1, <1>2, <1>3, <1>4, <1>5, DoneKeeps

(* The end of a bulk registration: all of its rows, or none.               *)
LEMMA RegistersKeep ==
    ASSUME CatalogInv, NEW p \in Restorers, BatchCommit(p) \/ BatchRollBack(p)
    PROVE  CatalogInv'
<1> DEFINE S == {"fresh", "queued", "active", "paused", "gone"}
<1>1. /\ CatalogTypeOK /\ Pass(p) \in SUBSET Rows
      /\ \A r \in Pass(p) : job[p][r].at # "idle" /\ JobOK(p, r) /\ row[r] # "fresh"
      /\ UNCHANGED <<handle, disk, whole, magnets, req, restarts, faults>>
  BY DEF CatalogInv, Pass, At, JobOK, BatchCommit, BatchRollBack
<1>2. /\ handle' \in [Rows -> {"none", "running", "paused"}] /\ disk' \subseteq Rows
      /\ faults' \in 0..MaxFaults /\ \A s \in Rows \ Pass(p) : handle'[s] = handle[s]
  BY <1>1 DEF CatalogTypeOK
<1>3. CASE BatchCommit(p)
  <2>1. /\ row' = [r \in Rows |-> IF r \in Pass(p) THEN "active" ELSE row[r]]
        /\ RowsDone(p, Pass(p), p) /\ \A r \in Pass(p) : job[p][r].at = "written"
        /\ \E r \in Rows : r \in Pass(p)
    BY <1>3 DEF BatchCommit, At
  <2>2. p = "bulk"
    BY <1>1, <2>1 DEF JobOK
  <2>3. /\ row' \in [Rows -> S] /\ \A s \in Rows \ Pass(p) : row'[s] = row[s]
        /\ \A r \in Pass(p) : row'[r] = "active"
    BY <1>1, <2>1 DEF CatalogTypeOK
  <2>4. ASSUME NEW r \in Pass(p), held[r] = {p} PROVE Settled(r, p)'
    <3>1. handle'[r] # "none" /\ row'[r] = "active"
      BY <1>1, <2>1, <2>3, <2>4 DEF JobOK
    <3> QED
      BY <2>2, <3>1 DEF Settled
  <2> QED
    BY <1>1, <1>2, <2>1, <2>3, <2>4, DoneKeeps
<1>4. CASE BatchRollBack(p)
  <2>1. RowsDone(p, Pass(p), "no") /\ UNCHANGED row /\ row' \in [Rows -> S]
    BY <1>1, <1>4 DEF BatchRollBack, CatalogTypeOK
  <2>2. \A r \in Pass(p) : row'[r] # "fresh" /\ Settled(r, "no")'
    BY <1>1, <2>1, CatalogAssumption DEF Settled
  <2> QED
    BY <1>1, <1>2, <2>1, <2>2, DoneKeeps
<1> QED
  BY <1>3, <1>4

(* The engine comes back: whoever is at work finds a mess.                 *)
LEMMA RestartKeeps ==
    ASSUME CatalogInv, EngineRestart
    PROVE  CatalogInv'
<1>1. /\ CatalogTypeOK /\ HoldersOK /\ UNCHANGED <<row, whole, magnets, req, job, faults>>
      /\ made' = [r \in Rows |-> "no"]
      /\ held' = [r \in Rows |-> IF held[r] = {} THEN {} ELSE held[r] \union {"mess"}]
  BY DEF CatalogInv, EngineRestart
<1>2. /\ handle' \in [Rows -> {"none", "running", "paused"}] /\ disk' \subseteq Rows
      /\ \A r \in Rows : handle[r] = "none" => handle'[r] = "none"
  BY <1>1 DEF EngineRestart, CatalogTypeOK
<1>3. CatalogTypeOK'
  BY <1>1, <1>2, CatalogAssumption DEF CatalogTypeOK, EngineRestart
<1>4. HoldersOK' /\ Catalogued'
  BY <1>1, <1>2 DEF HoldersOK, Catalogued
<1>5. \A a \in Actors, r \in Rows : held'[r] # {a} /\ (a \in held[r] => a \in held'[r])
  BY <1>1, ActorNames
<1>6. ASSUME NEW q \in Requests PROVE RequestOK(q)'
  <2>1. q \in Actors /\ RequestOK(q) /\ req[q].rows \in SUBSET Rows /\ req'[q] = req[q]
    BY <1>1 DEF CatalogInv, CatalogTypeOK, ReqType, Actors
  <2>2. \A r \in req[q].rows : q \in held'[r] /\ Called(q, r)'
    BY <1>5, <2>1 DEF RequestOK, Called
  <2> QED
    BY <2>1, <2>2 DEF RequestOK
<1>7. \A p \in Restorers, r \in Rows : JobOK(p, r)'
  BY <1>1, <1>5 DEF CatalogInv, JobOK, Actors
<1> QED
  BY <1>3, <1>4, <1>6, <1>7 DEF CatalogInv

(* A request begins.  What it replaces or creates is not yet there.        *)
LEMMA RequestBegins ==
    ASSUME CatalogInv, NEW q \in Requests, NEW R \in SUBSET Rows, NEW many \in BOOLEAN
    PROVE  /\ CreateBegin(q, R, many) => CatalogInv'
           /\ DeleteBegin(q, R, many) => CatalogInv'
           /\ \A op \in {"pause", "resume"} : PauseBegin(q, op, R, many) => CatalogInv'
           /\ \A r, new \in Rows : ReplaceBegin(q, r, new) => CatalogInv'
<1>1. StatusOf("pause") = "paused" /\ StatusOf("resume") = "active"
  BY DEF StatusOf
<1>2. ASSUME CreateBegin(q, R, many) PROVE CatalogInv'
  BY <1>2, BeginKeeps DEF CreateBegin, Unborn
<1>3. ASSUME DeleteBegin(q, R, many) PROVE CatalogInv'
  BY <1>3, BeginKeeps DEF DeleteBegin
<1>4. ASSUME NEW op \in {"pause", "resume"}, PauseBegin(q, op, R, many) PROVE CatalogInv'
  <2>1. PICK same \in SUBSET R : Begin(q, op, many, R, "none", same) /\ \A r \in same : row[r] = StatusOf(op)
    BY <1>1, <1>4 DEF PauseBegin
  <2>2. \A r \in R : row[r] \in InTable
    BY <1>4 DEF PauseBegin
  <2> QED
    BY <1>4, <2>1, <2>2, BeginKeeps
<1>5. ASSUME NEW r \in Rows, NEW new \in Rows, ReplaceBegin(q, r, new) PROVE CatalogInv'
  <2>1. PICK S, none, op, one : S = {r, new} /\ none = {} /\ op = "replace" /\ one = FALSE
    OBVIOUS
  <2>2. /\ S \in SUBSET Rows /\ none \in SUBSET S /\ one \in BOOLEAN /\ new \in Rows \union {"none"}
        /\ op \in {"create", "pause", "resume", "delete", "replace"}
        /\ op \notin {"create", "pause", "resume"}
    BY <1>5, <2>1
  <2>3. Begin(q, op, one, S, new, none)
    BY <1>5, <2>1 DEF ReplaceBegin
  <2>4. /\ \A s \in S : op = "create" \/ (op = "replace" /\ s = new) => row[s] = "fresh"
        /\ \A s \in none : op \in {"pause", "resume"} /\ row[s] = StatusOf(op)
    BY <1>5, <2>1, <2>2 DEF ReplaceBegin, Unborn
  <2> QED
    BY <2>2, <2>3, <2>4, BeginKeeps
<1> QED
  BY <1>2, <1>3, <1>4, <1>5

(* The invariant under every step. *)
LEMMA CatalogStep ==
    ASSUME CatalogInv, [CatalogNext]_catalogVars
    PROVE  CatalogInv'
<1>1. CASE UNCHANGED catalogVars
  BY <1>1 DEF catalogVars, CatalogInv, CatalogTypeOK, HoldersOK, Catalogued, RequestOK, Called,
              CallOp, JobOK
<1>2. ASSUME NEW q \in Requests, RequestStep(q) PROVE CatalogInv'
  <2>1. CASE Proceed(q)
    BY <2>1, AnsweredKeeps, CallFailsKeeps, WriteKeeps, CommitKeeps, RollBackKeeps DEF Proceed
  <2>2. CASE ~Proceed(q)
    BY <1>2, <2>2, RequestBegins DEF RequestStep
  <2> QED
    BY <2>1, <2>2
<1>3. ASSUME NEW p \in Restorers, RestoreStep(p) PROVE CatalogInv'
  BY <1>3, ReadKeeps, LookKeeps, AddKeeps, SyncKeeps, LeftKeeps, FlushKeeps, RegistersKeep
  DEF RestoreStep
<1> QED
  BY <1>1, <1>2, <1>3, RestartKeeps DEF CatalogNext

(* The invariant holds initially. *)
LEMMA CatalogStarts == CatalogInit => CatalogInv
<1> SUFFICES ASSUME CatalogInit PROVE CatalogInv
  OBVIOUS
<1>1. CatalogTypeOK
  BY CatalogAssumption DEF CatalogInit, CatalogTypeOK, NoReq, NoJob, ReqType, JobType
<1>2. HoldersOK /\ Catalogued
  BY DEF CatalogInit, HoldersOK, Catalogued
<1>3. (\A q \in Requests : RequestOK(q)) /\ \A p \in Restorers, r \in Rows : JobOK(p, r)
  BY DEF CatalogInit, RequestOK, JobOK, NoReq, NoJob
<1> QED
  BY <1>1, <1>2, <1>3 DEF CatalogInv

(* Rows, handles and the requests and restores at work keep their types.   *)
THEOREM CatalogTypes == CatalogSpec => []CatalogTypeOK
<1>1. CatalogInv => CatalogTypeOK
  BY DEF CatalogInv
<1> QED
  BY <1>1, CatalogStarts, CatalogStep, PTL DEF CatalogSpec

(* A torrent that one request or restore was alone with, answered and      *)
(* committed, is on the engine as its row says, through any restarts and   *)
(* failures, whatever was rolled back before, and whichever calls for the  *)
(* other torrents of the same request failed.                              *)
THEOREM RowsHaveHandles == CatalogSpec => []Catalogued
<1>1. CatalogInv => Catalogued
  BY DEF CatalogInv
<1> QED
  BY <1>1, CatalogStarts, CatalogStep, PTL DEF CatalogSpec
-----------------------------------------------------------------------------
(* What a torrent has sent (Accounting).                                   *)

(* What is known of the counters.  An engine without the torrent counts    *)
(* nothing, and no counter exceeds what was sent.                          *)
Count(e) == peer[e].cnt
Target == IF move \in Nodes THEN Count(move) ELSE 0

CountersOK ==
    /\ move # trow.engine
    /\ snap.at # "idle" => snap.row.engine \in Nodes
    /\ \A e \in Nodes : /\ peer[e].saved <= Count(e) /\ Count(e) <= hist.sent
                        /\ ~peer[e].has => Count(e) = 0

(* The row's total, with what the next snapshots will add, is at most what *)
(* was sent, or came back.  A snapshot that has read the row still has to  *)
(* ask the engine, from which the torrent may have gone.                   *)
RowOK ==
    LET sum == hist.sent + hist.again
        e == snap.row.engine
    IN  ~hist.back =>
          /\ snap.at # "idle" => snap.row.total = trow.total
          /\ snap.at = "idle" =>
                trow.total + Delta(trow.seen, Count(trow.engine)) + Target <= sum
          /\ snap.at = "rows" /\ e = trow.engine =>
                /\ snap.row.seen = trow.seen
                /\ trow.total + Delta(trow.seen, Count(e)) + Target <= sum
          /\ snap.at = "rows" /\ e # trow.engine =>
                /\ e # move
                /\ trow.total + Delta(snap.row.seen, Count(e)) + Count(trow.engine) + Target <= sum
          /\ snap.at = "asked" =>
                trow.total + Delta(snap.row.seen, snap.cur) + Delta(snap.cur, Count(trow.engine))
                  + Target <= sum

(* Without a crash and without a switch in a snapshot the counters only    *)
(* grow, and nothing is lost.                                              *)
ExactOK ==
    ~hist.mixed =>
        /\ trow.total + ToCome + hist.unfolded = hist.sent
        /\ trow.seen <= Count(trow.engine)
        /\ snap.at # "idle" => snap.row = trow
        /\ snap.at = "asked" => trow.seen <= snap.cur /\ snap.cur <= Count(trow.engine)

(* The same for the quota.  A round of the worker adds the difference of   *)
(* what it fetched to the meter, or all of it when the meter was read from *)
(* another engine; it may write back a total that was reset meanwhile.     *)
Metered == hist.sent + hist.again + hist.twice

Room(total) ==
    LET more == Delta(work.cur, Count(work.from))
    IN  /\ total + more <= Metered
        /\ meter.from \in {"none", work.from} => total + Delta(meter.cur, work.cur) + more <= Metered

QuotaOK ==
    /\ quota.total <= Metered
    /\ meter.from = "none" => meter.cur = 0 /\ quota.total = 0
    /\ meter.from # "none" => quota.total + Delta(meter.cur, Count(meter.from)) <= Metered
    /\ work.at # "idle" => work.from \in Nodes /\ Room(quota.total)
    /\ work.at \in {"metered", "enforced"} =>
          /\ work.delta = Delta(meter.cur, work.cur) /\ Room(work.quota.total)

(* A round that is still to note what it paused; otherwise the quota has   *)
(* noted it, and no round that goes on would pause again.                  *)
ListedOK ==
    hist.by /\ ~hist.slipped =>
        IF work.at = "enforced" THEN work.paused
        ELSE /\ quota.on /\ quota.over /\ quota.paused
             /\ work.at = "metered" => work.quota.over

AccountingInv == AccountingTypeOK /\ CountersOK /\ RowOK /\ ExactOK /\ QuotaOK /\ ListedOK

-----------------------------------------------------------------------------
LEMMA AccountingStarts == AccountingInit => AccountingInv
<1> SUFFICES ASSUME AccountingInit PROVE AccountingInv
  OBVIOUS
<1>1. PICK home \in Nodes : /\ peer = [e \in Nodes |-> IF e = home THEN Here ELSE Away]
                            /\ trow = [engine |-> home, total |-> 0, seen |-> 0]
  BY DEF AccountingInit
<1>2. \A e \in Nodes : /\ peer[e].cnt = 0 /\ peer[e].saved = 0
                       /\ peer[e] \in PeerStates
  <2>1. /\ Here = [has |-> TRUE, run |-> TRUE, cnt |-> 0, saved |-> 0]
        /\ Away = [has |-> FALSE, run |-> FALSE, cnt |-> 0, saved |-> 0]
    <3>1. Away = [has |-> FALSE, run |-> FALSE, cnt |-> 0, saved |-> 0]
      BY DEF Away
    <3>2. Here = [[has |-> FALSE, run |-> FALSE, cnt |-> 0, saved |-> 0]
                    EXCEPT !.has = TRUE, !.run = TRUE]
      BY <3>1 DEF Here
    <3> QED
      BY <3>1, <3>2
  <2>2. 0 \in 0..MaxSent
    BY AccountingAssumption
  <2> QED
    BY <1>1, <2>1, <2>2 DEF PeerStates
<1>3. AccountingTypeOK
  <2>1. quota \in Quotas /\ work.quota \in Quotas
    BY DEF AccountingInit, NoQuota, NoWork, Quotas
  <2>2. snap.row \in TotalRows(Nodes \union {"none"}) /\ trow \in TotalRows(Nodes)
    BY <1>1, AccountingAssumption DEF AccountingInit, NoSnap, TotalRows
  <2>3. snap \in [at : {"idle", "rows", "asked"}, row : TotalRows(Nodes \union {"none"}), cur : 0..MaxSent]
    BY <2>2, AccountingAssumption DEF AccountingInit, NoSnap
  <2>4. work \in Rounds
    BY <2>1, AccountingAssumption DEF AccountingInit, NoWork, Rounds
  <2>5. peer \in [Nodes -> PeerStates]
    BY <1>1, <1>2
  <2>6. /\ chart \in [Nodes -> [sampled : BOOLEAN, last : 0..MaxSent, sum : Nat]]
        /\ meter \in [cur : 0..MaxSent, from : Nodes \union {"none"}]
        /\ hist \in History
    BY AccountingAssumption DEF AccountingInit, History
  <2> QED
    BY <2>1, <2>2, <2>3, <2>4, <2>5, <2>6 DEF AccountingInit, AccountingTypeOK
<1>4. /\ hist.sent = 0 /\ hist.again = 0 /\ hist.twice = 0 /\ hist.unfolded = 0 /\ ~hist.by
      /\ snap.at = "idle" /\ work.at = "idle" /\ meter.from = "none" /\ meter.cur = 0
      /\ quota.total = 0 /\ move = "none" /\ move \notin Nodes
  BY AccountingAssumption DEF AccountingInit, NoSnap, NoWork, NoQuota
<1>5. CountersOK
  BY <1>1, <1>2, <1>4 DEF CountersOK, Count
<1>6. RowOK /\ ExactOK
  BY <1>1, <1>2, <1>4 DEF RowOK, ExactOK, ToCome, Target, Count, Delta
<1>7. QuotaOK /\ ListedOK
  BY <1>4 DEF QuotaOK, ListedOK, Metered
<1> QED
  BY <1>3, <1>5, <1>6, <1>7 DEF AccountingInv

(* A difference of counters is a number, and at most the counter.          *)
LEMMA DeltaBounds ==
    ASSUME NEW seen \in Nat, NEW cur \in Nat
    PROVE  Delta(seen, cur) \in 0..cur /\ Delta(cur, cur) = 0 /\ Delta(seen, 0) = 0
  BY DEF Delta

(* Only an engine that sends or dies changes what is to be counted of it:  *)
(* then the bounds grow as much as the difference does, for any base.      *)
LEMMA CountsGrow ==
    ASSUME AccountingTypeOK, CountersOK, NEW e \in Nodes,
           Upload(e) \/ SaveCounter(e) \/ EngineDies(e)
    PROVE  /\ AccountingTypeOK' /\ CountersOK'
           /\ \A d \in Nodes \ {e} : peer'[d] = peer[d]
           /\ hist'.sent + hist'.again >= hist.sent + hist.again
           /\ \A seen \in Nat : Delta(seen, Count(e)') + hist.sent + hist.again
                                  <= Delta(seen, Count(e)) + hist'.sent + hist'.again
           /\ Count(e)' + hist.sent + hist.again <= Count(e) + hist'.sent + hist'.again
           /\ UNCHANGED <<trow, move, snap, quota, meter, work, chart>>
           /\ hist'.twice = hist.twice /\ hist'.by = hist.by /\ hist'.back = hist.back
           /\ hist'.slipped = hist.slipped
<1>1. /\ peer[e] \in PeerStates
      /\ peer[e].saved <= peer[e].cnt /\ peer[e].cnt <= hist.sent
      /\ hist.sent \in 0..MaxSent /\ hist.again \in Nat /\ hist.unfolded \in Int
      /\ hist.deaths \in 0..MaxDeaths /\ MaxSent \in Nat /\ MaxDeaths \in Nat
  BY AccountingAssumption DEF AccountingTypeOK, CountersOK, Count, History
<1>2. UNCHANGED <<trow, move, snap, quota, meter, work, chart>>
  BY DEF Upload, SaveCounter, EngineDies
<1> DEFINE Becomes(c, s) ==
      /\ peer' = [peer EXCEPT ![e] = [peer[e] EXCEPT !.cnt = c, !.saved = s]]
      /\ s <= c /\ c <= hist'.sent /\ peer[e].has
      /\ \/ c = peer[e].cnt + 1 /\ hist'.sent = hist.sent + 1 /\ hist'.again = hist.again
         \/ c = peer[e].cnt /\ hist' = hist
         \/ c = peer[e].saved /\ hist'.sent = hist.sent /\ hist'.again = hist.again + c
<1>3. PICK c \in 0..MaxSent, s \in 0..MaxSent : Becomes(c, s)
  <2>1. CASE Upload(e)
    <3>1. peer' = [peer EXCEPT ![e] = [peer[e] EXCEPT !.cnt = peer[e].cnt + 1, !.saved = peer[e].saved]]
      BY <1>1, <2>1 DEF Upload, AccountingTypeOK
    <3>2. /\ hist'.sent = hist.sent + 1 /\ hist'.again = hist.again
          /\ peer[e].cnt + 1 \in 0..MaxSent /\ peer[e].saved <= peer[e].cnt + 1
          /\ peer[e].cnt + 1 <= hist'.sent /\ peer[e].has
      BY <1>1, <2>1 DEF Upload, AccountingTypeOK, PeerStates
    <3>3. Becomes(peer[e].cnt + 1, peer[e].saved)
      BY <3>1, <3>2
    <3> QED
      BY <1>1, <3>2, <3>3 DEF PeerStates
  <2>2. CASE SaveCounter(e)
    <3>1. peer' = [peer EXCEPT ![e] = [peer[e] EXCEPT !.cnt = peer[e].cnt, !.saved = peer[e].cnt]]
      BY <1>1, <2>2 DEF SaveCounter, AccountingTypeOK
    <3>2. hist' = hist /\ peer[e].has /\ peer[e].cnt <= hist'.sent
      BY <1>1, <2>2 DEF SaveCounter
    <3>3. Becomes(peer[e].cnt, peer[e].cnt)
      BY <1>1, <3>1, <3>2 DEF PeerStates
    <3> QED
      BY <1>1, <3>3 DEF PeerStates
  <2>3. CASE EngineDies(e)
    <3>1. peer' = [peer EXCEPT ![e] = [peer[e] EXCEPT !.cnt = peer[e].saved, !.saved = peer[e].saved]]
      BY <1>1, <2>3 DEF EngineDies, AccountingTypeOK
    <3>2. hist'.sent = hist.sent /\ hist'.again = hist.again + peer[e].saved /\ peer[e].has
      BY <1>1, <2>3 DEF EngineDies, AccountingTypeOK
    <3>3. Becomes(peer[e].saved, peer[e].saved)
      BY <1>1, <3>1, <3>2 DEF PeerStates
    <3> QED
      BY <1>1, <3>3 DEF PeerStates
  <2> QED
    BY <2>1, <2>2, <2>3
<1>4. /\ \A d \in Nodes \ {e} : peer'[d] = peer[d]
      /\ peer'[e].cnt = c /\ peer'[e].saved = s /\ peer'[e].has = peer[e].has
      /\ peer' \in [Nodes -> PeerStates]
  BY <1>1, <1>3 DEF AccountingTypeOK, PeerStates
<1>5. /\ hist' \in History
      /\ hist'.twice = hist.twice /\ hist'.by = hist.by /\ hist'.back = hist.back
      /\ hist'.slipped = hist.slipped
  <2>1. CASE Upload(e)
    <3> DEFINE n == hist.unfolded + (IF e \in {trow.engine, move} THEN 0 ELSE 1)
    <3>1. n \in Int /\ hist' = [hist EXCEPT !.sent = hist.sent + 1, !.unfolded = n]
      BY <1>1, <2>1 DEF Upload
    <3>2. hist.sent + 1 \in 0..MaxSent
      BY <1>1, <2>1 DEF Upload
    <3> QED
      BY <3>1, <3>2 DEF AccountingTypeOK, History
  <2>2. CASE SaveCounter(e)
    BY <2>2 DEF SaveCounter, AccountingTypeOK
  <2>3. CASE EngineDies(e)
    <3>1. /\ hist.again + peer[e].saved \in Nat /\ hist.deaths + 1 \in 0..MaxDeaths
          /\ hist' = [hist EXCEPT !.again = hist.again + peer[e].saved, !.mixed = TRUE,
                                  !.deaths = hist.deaths + 1]
      BY <1>1, <2>3 DEF EngineDies, PeerStates
    <3> QED
      BY <3>1 DEF AccountingTypeOK, History
  <2> QED
    BY <2>1, <2>2, <2>3
<1>6. AccountingTypeOK'
  BY <1>2, <1>4, <1>5 DEF AccountingTypeOK
<1>7. hist'.sent + hist'.again >= hist.sent + hist.again /\ hist'.sent >= hist.sent
  BY <1>1, <1>3
<1>8. CountersOK'
  <2>1. \A d \in Nodes : peer'[d].saved <= peer'[d].cnt /\ peer'[d].cnt <= hist'.sent
    BY <1>1, <1>3, <1>4, <1>7 DEF CountersOK, Count, AccountingTypeOK, PeerStates
  <2>2. \A d \in Nodes : ~peer'[d].has => peer'[d].cnt = 0
    BY <1>3, <1>4 DEF CountersOK, Count
  <2> QED
    BY <1>2, <2>1, <2>2 DEF CountersOK, Count
<1>9. \A seen \in Nat : Delta(seen, c) + hist.sent + hist.again
                          <= Delta(seen, peer[e].cnt) + hist'.sent + hist'.again
  BY <1>1, <1>3 DEF Delta, PeerStates
<1>10. c + hist.sent + hist.again <= peer[e].cnt + hist'.sent + hist'.again
  BY <1>1, <1>3 DEF PeerStates
<1> QED
  BY <1>2, <1>4, <1>5, <1>6, <1>7, <1>8, <1>9, <1>10 DEF Count

(* The numbers of a state that is typed. *)
LEMMA CounterTypes ==
    ASSUME AccountingTypeOK, CountersOK
    PROVE  /\ \A e \in Nodes : Count(e) \in Nat
           /\ trow.engine \in Nodes /\ trow.total \in Nat /\ trow.seen \in Nat
           /\ snap.row.total \in Nat /\ snap.row.seen \in Nat /\ snap.cur \in Nat
           /\ quota.total \in Nat /\ work.quota.total \in Nat /\ meter.cur \in Nat /\ work.cur \in Nat
           /\ work.delta \in Nat /\ hist.sent \in Nat /\ hist.again \in Nat /\ hist.twice \in Nat
           /\ hist.unfolded \in Int /\ Target \in Nat /\ ToCome \in Int
           /\ meter.from \in Nodes \union {"none"}
<1>1. \A e \in Nodes : Count(e) \in Nat
  BY AccountingAssumption DEF AccountingTypeOK, Count, PeerStates
<1>2. /\ trow.engine \in Nodes /\ trow.total \in Nat /\ trow.seen \in Nat
      /\ snap.row.total \in Nat /\ snap.row.seen \in Nat /\ snap.cur \in Nat
  BY AccountingAssumption DEF AccountingTypeOK, TotalRows
<1>3. /\ quota.total \in Nat /\ work.quota.total \in Nat
      /\ meter.cur \in Nat /\ work.cur \in Nat /\ work.delta \in Nat
      /\ meter.from \in Nodes \union {"none"}
  BY AccountingAssumption DEF AccountingTypeOK, Quotas, Rounds
<1>4. /\ hist.sent \in Nat /\ hist.again \in Nat /\ hist.twice \in Nat /\ hist.unfolded \in Int
  BY AccountingAssumption DEF AccountingTypeOK, History
<1> QED
  BY <1>1, <1>2, <1>3, <1>4 DEF Target, ToCome, Count

(* What is to be counted of one engine, of two, or of three, when only one *)
(* of them changes: the bounds grow as much.                               *)
LEMMA SumsGrow ==
    ASSUME NEW old \in [Nodes -> Nat], NEW new \in [Nodes -> Nat], NEW e \in Nodes,
           NEW sum \in Nat, NEW grown \in Nat, sum <= grown,
           \A d \in Nodes \ {e} : new[d] = old[d],
           \A seen \in Nat : Delta(seen, new[e]) + sum <= Delta(seen, old[e]) + grown,
           new[e] + sum <= old[e] + grown,
           NEW x \in Nodes, NEW m, m # x, NEW seen \in Nat,
           NEW before \in Nat, before = IF m \in Nodes THEN old[m] ELSE 0,
           NEW after \in Nat, after = IF m \in Nodes THEN new[m] ELSE 0
    PROVE  /\ Delta(seen, new[x]) + sum <= Delta(seen, old[x]) + grown
           /\ Delta(seen, new[x]) + after + sum <= Delta(seen, old[x]) + before + grown
           /\ \A y \in Nodes : y # x /\ y # m =>
                Delta(seen, new[y]) + new[x] + after + sum <= Delta(seen, old[y]) + old[x] + before + grown
<1>1. \A d \in Nodes : /\ Delta(seen, old[d]) \in Nat /\ Delta(seen, new[d]) \in Nat
                       /\ old[d] \in Nat /\ new[d] \in Nat
                       /\ d # e => new[d] = old[d] /\ Delta(seen, new[d]) = Delta(seen, old[d])
  BY DEF Delta
<1>2. m \in Nodes => before = old[m] /\ after = new[m]
  OBVIOUS
<1>3. m \notin Nodes => before = 0 /\ after = 0
  OBVIOUS
<1>4. Delta(seen, new[e]) + sum <= Delta(seen, old[e]) + grown
  OBVIOUS
<1>5. Delta(seen, new[x]) + sum <= Delta(seen, old[x]) + grown
  BY <1>1, <1>4
<1>6. Delta(seen, new[x]) + after + sum <= Delta(seen, old[x]) + before + grown
  <2>1. CASE e = x
    BY <1>1, <1>2, <1>3, <1>4, <2>1
  <2>2. CASE e # x
    BY <1>1, <1>2, <1>3, <2>2
  <2> QED
    BY <2>1, <2>2
<1>7. ASSUME NEW y \in Nodes, y # x, y # m
      PROVE Delta(seen, new[y]) + new[x] + after + sum <= Delta(seen, old[y]) + old[x] + before + grown
  <2>1. CASE e = y
    BY <1>1, <1>2, <1>3, <1>4, <1>7, <2>1
  <2>2. CASE e = x
    BY <1>1, <1>2, <1>3, <1>7, <2>2
  <2>3. CASE e # x /\ e # y
    BY <1>1, <1>2, <1>3, <1>7, <2>3
  <2> QED
    BY <2>1, <2>2, <2>3
<1> QED
  BY <1>5, <1>6, <1>7

(* An engine sends, saves its counter or dies. *)
LEMMA EngineKeeps ==
    ASSUME AccountingInv, NEW e \in Nodes, Upload(e) \/ SaveCounter(e) \/ EngineDies(e)
    PROVE  AccountingInv'
<1>1. /\ AccountingTypeOK /\ CountersOK /\ AccountingTypeOK' /\ CountersOK'
      /\ \A d \in Nodes \ {e} : peer'[d] = peer[d]
      /\ UNCHANGED <<trow, move, snap, quota, meter, work, chart>>
      /\ hist'.twice = hist.twice /\ hist'.by = hist.by /\ hist'.back = hist.back
      /\ hist'.slipped = hist.slipped
      /\ hist'.sent + hist'.again >= hist.sent + hist.again
  <2>1. AccountingTypeOK /\ CountersOK
    BY DEF AccountingInv
  <2> QED
    BY <2>1, CountsGrow
<1>2. PICK old \in [Nodes -> Nat], new \in [Nodes -> Nat] :
        \A d \in Nodes : old[d] = peer[d].cnt /\ new[d] = peer'[d].cnt
  <2>1. \A d \in Nodes : peer[d].cnt \in Nat /\ peer'[d].cnt \in Nat
    BY <1>1, AccountingAssumption DEF AccountingTypeOK, PeerStates
  <2>2. /\ [d \in Nodes |-> peer[d].cnt] \in [Nodes -> Nat]
        /\ [d \in Nodes |-> peer'[d].cnt] \in [Nodes -> Nat]
    BY <2>1
  <2> QED
    BY <2>2
<1>3. PICK sum \in Nat, grown \in Nat : /\ sum = hist.sent + hist.again /\ grown = hist'.sent + hist'.again
                                        /\ sum <= grown
  BY <1>1, AccountingAssumption DEF AccountingTypeOK, History
<1>4. /\ \A d \in Nodes \ {e} : new[d] = old[d]
      /\ \A seen \in Nat : Delta(seen, new[e]) + sum <= Delta(seen, old[e]) + grown
      /\ new[e] + sum <= old[e] + grown
  <2>1. /\ \A seen \in Nat : Delta(seen, peer'[e].cnt) + hist.sent + hist.again
                               <= Delta(seen, peer[e].cnt) + hist'.sent + hist'.again
        /\ peer'[e].cnt + hist.sent + hist.again <= peer[e].cnt + hist'.sent + hist'.again
    BY <1>1, CountsGrow DEF Count
  <2>2. /\ hist.sent \in Nat /\ hist.again \in Nat /\ hist'.sent \in Nat /\ hist'.again \in Nat
        /\ old[e] = peer[e].cnt /\ new[e] = peer'[e].cnt /\ old[e] \in Nat /\ new[e] \in Nat
    BY <1>1, <1>2, AccountingAssumption DEF AccountingTypeOK, History
  <2>3. \A seen \in Nat : Delta(seen, new[e]) \in Nat /\ Delta(seen, old[e]) \in Nat
    BY <2>2 DEF Delta
  <2>4. \A d \in Nodes \ {e} : new[d] = old[d]
    BY <1>1, <1>2
  <2>5. ASSUME NEW x \in Nat, NEW y \in Nat,
               y + hist.sent + hist.again <= x + hist'.sent + hist'.again
        PROVE  y + sum <= x + grown
    BY <1>3, <2>2, <2>5
  <2>6. new[e] + sum <= old[e] + grown
    BY <2>1, <2>2, <2>5
  <2>7. \A seen \in Nat : Delta(seen, new[e]) + sum <= Delta(seen, old[e]) + grown
    BY <2>1, <2>2, <2>3, <2>5
  <2> QED
    BY <2>4, <2>6, <2>7
<1>5. PICK x \in Nodes : x = trow.engine
  BY <1>1 DEF AccountingTypeOK, TotalRows
<1>6. PICK before \in Nat, after \in Nat : /\ before = Target /\ after = Target'
                                           /\ before = IF move \in Nodes THEN old[move] ELSE 0
                                           /\ after = IF move \in Nodes THEN new[move] ELSE 0
  BY <1>1, <1>2 DEF Target, Count
<1>7. /\ trow.total \in Nat /\ trow.seen \in Nat /\ snap.row.seen \in Nat /\ snap.cur \in Nat
      /\ move # x /\ (snap.at # "idle" => snap.row.engine \in Nodes)
      /\ quota.total \in Nat /\ work.quota.total \in Nat /\ meter.cur \in Nat /\ work.cur \in Nat
      /\ hist.twice \in Nat /\ meter.from \in Nodes \union {"none"}
      /\ Delta(snap.row.seen, snap.cur) \in Nat /\ Delta(meter.cur, work.cur) \in Nat
  <2>1. /\ snap.row.seen \in Nat /\ snap.cur \in Nat /\ meter.cur \in Nat /\ work.cur \in Nat
    BY <1>1, CounterTypes
  <2>2. Delta(snap.row.seen, snap.cur) \in Nat /\ Delta(meter.cur, work.cur) \in Nat
    BY <2>1 DEF Delta
  <2> QED
    BY <1>1, <1>5, <2>1, <2>2, CounterTypes DEF CountersOK
<1>8. \A seen \in Nat :
        /\ Delta(seen, new[x]) + after + sum <= Delta(seen, old[x]) + before + grown
        /\ \A y \in Nodes : y # x /\ y # move =>
             Delta(seen, new[y]) + new[x] + after + sum <= Delta(seen, old[y]) + old[x] + before + grown
  <2> TAKE seen \in Nat
  <2>1. move # x /\ sum <= grown
    BY <1>3, <1>7
  <2> QED
    BY <1>4, <1>6, <2>1, SumsGrow
<1>9. \A d \in Nodes, seen \in Nat : Delta(seen, new[d]) + sum <= Delta(seen, old[d]) + grown
  <2> TAKE d \in Nodes, seen \in Nat
  <2>1. CASE d = e
    BY <1>4, <2>1
  <2>2. CASE d # e
    <3>1. new[d] = old[d] /\ Delta(seen, old[d]) \in Nat
      BY <1>4, <2>2 DEF Delta
    <3> QED
      BY <1>3, <3>1
  <2> QED
    BY <2>1, <2>2
<1>10. \A d \in Nodes, seen \in Nat : Delta(seen, new[d]) \in Nat /\ Delta(seen, old[d]) \in Nat
  BY DEF Delta
<1>11. RowOK'
  <2>1. SUFFICES ASSUME ~hist.back PROVE RowOK'
    BY <1>1 DEF RowOK
  <2>2. /\ snap.at # "idle" => snap.row.total = trow.total
        /\ snap.at = "idle" => trow.total + Delta(trow.seen, old[x]) + before <= sum
        /\ snap.at = "rows" /\ snap.row.engine = x =>
              snap.row.seen = trow.seen /\ trow.total + Delta(trow.seen, old[x]) + before <= sum
        /\ snap.at = "rows" /\ snap.row.engine # x =>
              /\ snap.row.engine # move
              /\ trow.total + Delta(snap.row.seen, old[snap.row.engine]) + old[x] + before <= sum
        /\ snap.at = "asked" => trow.total + Delta(snap.row.seen, snap.cur)
                                  + Delta(snap.cur, old[x]) + before <= sum
    BY <1>2, <1>3, <1>5, <1>6, <1>7, <2>1 DEF AccountingInv, RowOK, Count
  <2>3. trow.total + Delta(trow.seen, old[x]) + before <= sum
          => trow.total + Delta(trow.seen, new[x]) + after <= grown
    <3>1. Delta(trow.seen, new[x]) + after + sum <= Delta(trow.seen, old[x]) + before + grown
      BY <1>7, <1>8
    <3>2. Delta(trow.seen, new[x]) \in Nat /\ Delta(trow.seen, old[x]) \in Nat /\ trow.total \in Nat
      BY <1>7, <1>10
    <3> QED
      BY <3>1, <3>2
  <2>5. snap.at = "rows" /\ snap.row.engine # x =>
          trow.total + Delta(snap.row.seen, new[snap.row.engine]) + new[x] + after <= grown
    <3> SUFFICES ASSUME snap.at = "rows", snap.row.engine # x
                 PROVE trow.total + Delta(snap.row.seen, new[snap.row.engine]) + new[x] + after <= grown
      OBVIOUS
    <3> PICK y \in Nodes : y = snap.row.engine
      BY <1>7
    <3>1. Delta(snap.row.seen, new[y]) + new[x] + after + sum
            <= Delta(snap.row.seen, old[y]) + old[x] + before + grown
      BY <1>7, <1>8, <2>2
    <3>2. trow.total + Delta(snap.row.seen, old[y]) + old[x] + before <= sum
      BY <2>2
    <3>3. /\ Delta(snap.row.seen, new[y]) \in Nat /\ Delta(snap.row.seen, old[y]) \in Nat
          /\ trow.total \in Nat /\ old[x] \in Nat /\ new[x] \in Nat
      BY <1>7, <1>10
    <3> QED
      BY <3>1, <3>2, <3>3
  <2>6. snap.at = "asked" => trow.total + Delta(snap.row.seen, snap.cur)
                               + Delta(snap.cur, new[x]) + after <= grown
    <3> PICK more \in Nat : more = Delta(snap.row.seen, snap.cur)
      BY <1>7
    <3>1. Delta(snap.cur, new[x]) + after + sum <= Delta(snap.cur, old[x]) + before + grown
      BY <1>7, <1>8
    <3>2. Delta(snap.cur, new[x]) \in Nat /\ Delta(snap.cur, old[x]) \in Nat /\ trow.total \in Nat
      BY <1>7, <1>10
    <3>3. snap.at = "asked" => trow.total + more + Delta(snap.cur, old[x]) + before <= sum
      BY <2>2
    <3> QED
      BY <3>1, <3>2, <3>3
  <2> QED
    BY <1>1, <1>2, <1>3, <1>5, <1>6, <1>7, <2>2, <2>3, <2>5, <2>6 DEF RowOK, Count
<1>12. ExactOK'
  <2>1. /\ hist.sent \in Nat /\ hist.unfolded \in Int
    BY <1>1, CounterTypes
  <2>2. /\ ToCome = old[x] - trow.seen + before /\ ToCome' = new[x] - trow.seen + after
    BY <1>1, <1>2, <1>5, <1>6 DEF ToCome
  <2>3. ExactOK <=>
          (~hist.mixed => /\ trow.total + ToCome + hist.unfolded = hist.sent /\ trow.seen <= old[x]
                          /\ snap.at # "idle" => snap.row = trow
                          /\ snap.at = "asked" => trow.seen <= snap.cur /\ snap.cur <= old[x])
    BY <1>2, <1>5 DEF ExactOK, Count
  <2>4. ExactOK' <=>
          (~hist'.mixed => /\ trow.total + ToCome' + hist'.unfolded = hist'.sent /\ trow.seen <= new[x]
                           /\ snap.at # "idle" => snap.row = trow
                           /\ snap.at = "asked" => trow.seen <= snap.cur /\ snap.cur <= new[x])
    BY <1>1, <1>2, <1>5 DEF ExactOK, Count
  <2>5. ExactOK
    BY DEF AccountingInv
  <2>6. CASE Upload(e)
    <3>1. /\ hist'.mixed = hist.mixed /\ hist'.sent = hist.sent + 1
          /\ hist'.unfolded = hist.unfolded + (IF e \in {x, move} THEN 0 ELSE 1)
          /\ peer'[e].cnt = peer[e].cnt + 1
      BY <1>1, <1>5, <2>6 DEF Upload, AccountingTypeOK
    <3>2. new[e] = old[e] + 1 /\ new[x] >= old[x]
      BY <1>2, <1>4, <3>1
    <3>3. ToCome' = ToCome + (IF e \in {x, move} THEN 1 ELSE 0)
      BY <1>4, <1>6, <1>7, <2>2, <3>2
    <3>4. ToCome \in Int /\ ToCome' \in Int /\ old[x] \in Nat /\ new[x] \in Nat
      BY <1>7, <2>2
    <3> QED
      BY <1>7, <2>1, <2>3, <2>4, <2>5, <3>1, <3>2, <3>3, <3>4
  <2>7. CASE SaveCounter(e)
    <3>1. hist' = hist /\ peer'[e].cnt = peer[e].cnt
      BY <1>1, <2>7 DEF SaveCounter, AccountingTypeOK
    <3>2. new[x] = old[x] /\ after = before
      BY <1>2, <1>4, <1>6, <3>1
    <3> QED
      BY <2>2, <2>3, <2>4, <2>5, <3>1, <3>2
  <2>8. CASE EngineDies(e)
    BY <1>1, <2>8 DEF EngineDies, ExactOK, AccountingTypeOK
  <2> QED
    BY <2>6, <2>7, <2>8
<1>13. QuotaOK'
  <2>1. Metered = sum + hist.twice /\ Metered' = grown + hist.twice
    BY <1>1, <1>3 DEF Metered
  <2>2. ASSUME NEW total \in Nat, Room(total), work.from \in Nodes PROVE Room(total)'
    <3> PICK m \in Nat : m = Delta(work.cur, old[work.from])
      BY <1>7, <1>10, <2>2
    <3> PICK n \in Nat : n = Delta(work.cur, new[work.from])
      BY <1>7, <1>10, <2>2
    <3>1. n + sum <= m + grown
      BY <1>7, <1>9, <2>2
    <3>2. /\ total + m <= sum + hist.twice
          /\ meter.from \in {"none", work.from} =>
               total + Delta(meter.cur, work.cur) + m <= sum + hist.twice
      BY <1>2, <2>1, <2>2 DEF Room, Count
    <3>3. /\ total + n <= grown + hist.twice
          /\ meter.from \in {"none", work.from} =>
               total + Delta(meter.cur, work.cur) + n <= grown + hist.twice
      BY <1>7, <3>1, <3>2
    <3> QED
      BY <1>1, <1>2, <2>1, <2>2, <3>3 DEF Room, Count
  <2>3. meter.from # "none" => quota.total + Delta(meter.cur, new[meter.from]) <= grown + hist.twice
    <3> HAVE meter.from # "none"
    <3>1. quota.total + Delta(meter.cur, old[meter.from]) <= sum + hist.twice
      BY <1>2, <1>7, <2>1 DEF AccountingInv, QuotaOK, Count
    <3> PICK d \in Nodes : d = meter.from
      BY <1>7
    <3>2. Delta(meter.cur, new[d]) + sum <= Delta(meter.cur, old[d]) + grown
      BY <1>7, <1>9
    <3>3. Delta(meter.cur, new[d]) \in Nat /\ Delta(meter.cur, old[d]) \in Nat
      BY <1>7, <1>10
    <3> QED
      BY <1>7, <3>1, <3>2, <3>3
  <2>4. quota.total <= grown + hist.twice
    BY <1>3, <1>7, <2>1 DEF AccountingInv, QuotaOK
  <2>5. work.at # "idle" => work.from \in Nodes /\ Room(quota.total)'
    <3> HAVE work.at # "idle"
    <3> PICK total \in Nat : total = quota.total
      BY <1>7
    <3>1. work.from \in Nodes /\ Room(total)
      BY DEF AccountingInv, QuotaOK
    <3>2. Room(total)'
      BY <2>2, <3>1
    <3> QED
      BY <1>1, <3>1, <3>2 DEF Room
  <2>6. work.at \in {"metered", "enforced"} =>
          work.delta = Delta(meter.cur, work.cur) /\ Room(work.quota.total)'
    <3> HAVE work.at \in {"metered", "enforced"}
    <3> PICK total \in Nat : total = work.quota.total
      BY <1>7
    <3>1. work.delta = Delta(meter.cur, work.cur) /\ Room(total) /\ work.from \in Nodes
      BY DEF AccountingInv, QuotaOK
    <3>2. Room(total)'
      BY <2>2, <3>1
    <3> QED
      BY <1>1, <3>1, <3>2 DEF Room
  <2>7. meter.from = "none" => meter.cur = 0 /\ quota.total = 0
    BY DEF AccountingInv, QuotaOK
  <2> QED
    BY <1>1, <1>2, <1>7, <2>1, <2>3, <2>4, <2>5, <2>6, <2>7 DEF QuotaOK, Count
<1>14. ListedOK'
  BY <1>1 DEF AccountingInv, ListedOK
<1> QED
  BY <1>1, <1>11, <1>12, <1>13, <1>14 DEF AccountingInv

(* What is to be counted, as numbers. *)
LEMMA Differences ==
    ASSUME AccountingTypeOK, CountersOK
    PROVE  /\ \A d \in Nodes, seen \in Nat : Delta(seen, Count(d)) \in 0..Count(d)
           /\ Delta(snap.row.seen, snap.cur) \in Nat /\ Delta(meter.cur, work.cur) \in Nat
<1>1. \A d \in Nodes, seen \in Nat : Delta(seen, Count(d)) \in 0..Count(d)
  BY CounterTypes, DeltaBounds
<1>2. /\ snap.row.seen \in Nat /\ snap.cur \in Nat /\ meter.cur \in Nat /\ work.cur \in Nat
  BY CounterTypes
<1> QED
  BY <1>1, <1>2 DEF Delta

(* What the meter will count is not more, when no engine counts more. *)
LEMMA QuotaShrinks ==
    ASSUME AccountingTypeOK, CountersOK, QuotaOK,
           \A d \in Nodes : peer'[d].cnt = peer[d].cnt \/ peer'[d].cnt = 0,
           hist'.sent = hist.sent, hist'.again = hist.again, hist'.twice = hist.twice,
           UNCHANGED <<quota, meter, work>>
    PROVE  QuotaOK'
<1>1. /\ quota.total \in Nat /\ work.quota.total \in Nat /\ meter.cur \in Nat /\ work.cur \in Nat
      /\ hist.sent \in Nat /\ hist.again \in Nat /\ hist.twice \in Nat
      /\ meter.from \in Nodes \union {"none"}
  BY CounterTypes
<1>2. PICK m \in Nat : m = Metered /\ m = Metered'
  BY <1>1 DEF Metered
<1>3. \A d \in Nodes, seen \in Nat : /\ Delta(seen, peer[d].cnt) \in Nat
                                     /\ Delta(seen, peer'[d].cnt) \in Nat
                                     /\ Delta(seen, peer'[d].cnt) <= Delta(seen, peer[d].cnt)
  <2> TAKE d \in Nodes, seen \in Nat
  <2>1. peer[d].cnt \in Nat
    BY CounterTypes DEF Count
  <2>2. Delta(seen, peer[d].cnt) \in Nat /\ Delta(seen, 0) = 0
    BY <2>1 DEF Delta
  <2> QED
    BY <2>2
<1>4. ASSUME NEW total \in Nat, Room(total), work.from \in Nodes PROVE Room(total)'
  <2>1. /\ total + Delta(work.cur, peer[work.from].cnt) <= m
        /\ meter.from \in {"none", work.from} =>
             total + Delta(meter.cur, work.cur) + Delta(work.cur, peer[work.from].cnt) <= m
    BY <1>2, <1>4 DEF Room, Count
  <2>2. /\ Delta(work.cur, peer[work.from].cnt) \in Nat /\ Delta(work.cur, peer'[work.from].cnt) \in Nat
        /\ Delta(work.cur, peer'[work.from].cnt) <= Delta(work.cur, peer[work.from].cnt)
        /\ Delta(meter.cur, work.cur) \in Nat
    BY <1>1, <1>3, <1>4, Differences
  <2>3. /\ total + Delta(work.cur, peer'[work.from].cnt) <= m
        /\ meter.from \in {"none", work.from} =>
             total + Delta(meter.cur, work.cur) + Delta(work.cur, peer'[work.from].cnt) <= m
    BY <2>1, <2>2
  <2> QED
    BY <1>2, <2>3 DEF Room, Count
<1>5. meter.from # "none" => quota.total + Delta(meter.cur, peer'[meter.from].cnt) <= m
  <2> HAVE meter.from # "none"
  <2>1. quota.total + Delta(meter.cur, peer[meter.from].cnt) <= m
    BY <1>2 DEF QuotaOK, Count
  <2>2. /\ Delta(meter.cur, peer[meter.from].cnt) \in Nat /\ Delta(meter.cur, peer'[meter.from].cnt) \in Nat
        /\ Delta(meter.cur, peer'[meter.from].cnt) <= Delta(meter.cur, peer[meter.from].cnt)
    BY <1>1, <1>3
  <2> QED
    BY <1>1, <2>1, <2>2
<1>6. work.at # "idle" => work.from \in Nodes /\ Room(quota.total)'
  <2> HAVE work.at # "idle"
  <2> PICK total \in Nat : total = quota.total
    BY <1>1
  <2>1. work.from \in Nodes /\ Room(total)'
    BY <1>4 DEF QuotaOK
  <2> QED
    BY <2>1 DEF Room
<1>7. work.at \in {"metered", "enforced"} =>
        work.delta = Delta(meter.cur, work.cur) /\ Room(work.quota.total)'
  <2> HAVE work.at \in {"metered", "enforced"}
  <2> PICK total \in Nat : total = work.quota.total
    BY <1>1
  <2>1. work.delta = Delta(meter.cur, work.cur) /\ Room(total)'
    BY <1>4 DEF QuotaOK
  <2> QED
    BY <2>1 DEF Room
<1> QED
  BY <1>2, <1>5, <1>6, <1>7 DEF QuotaOK, Count

(* A transfer begins: the target counts nothing yet. *)
LEMMA MoveBeginKeeps ==
    ASSUME AccountingInv, NEW e \in Nodes, MoveBegin(e)
    PROVE  AccountingInv'
<1>1. /\ AccountingTypeOK /\ CountersOK /\ RowOK /\ ExactOK /\ QuotaOK /\ ListedOK
      /\ move = "none" /\ move' = e /\ e # trow.engine /\ ~peer[e].has /\ peer[e].cnt = 0
      /\ UNCHANGED <<trow, snap, quota, meter, work, chart>>
      /\ trow.engine \in Nodes /\ MaxSent \in Nat /\ "none" \notin Nodes
  BY AccountingAssumption, CounterTypes DEF AccountingInv, MoveBegin, CountersOK, Count
<1>2. Here = [has |-> TRUE, run |-> TRUE, cnt |-> 0, saved |-> 0]
  <2>1. Away = [has |-> FALSE, run |-> FALSE, cnt |-> 0, saved |-> 0]
    BY DEF Away
  <2>2. Here = [[has |-> FALSE, run |-> FALSE, cnt |-> 0, saved |-> 0] EXCEPT !.has = TRUE, !.run = TRUE]
    BY <2>1 DEF Here
  <2> QED
    BY <2>2
<1>3. /\ peer' = [peer EXCEPT ![trow.engine] = [peer[trow.engine] EXCEPT !.run = FALSE], ![e] = Here]
      /\ hist'.sent = hist.sent /\ hist'.again = hist.again /\ hist'.twice = hist.twice
      /\ hist'.unfolded = hist.unfolded /\ hist'.mixed = hist.mixed /\ hist'.by = FALSE
      /\ ~hist'.back => ~hist.back /\ ~(snap.at = "rows" /\ e = snap.row.engine)
  BY <1>1 DEF MoveBegin, AccountingTypeOK, History
<1>4. /\ \A d \in Nodes : /\ peer'[d].cnt = peer[d].cnt
                          /\ peer'[d].saved = peer[d].saved \/ peer'[d].saved = 0
                          /\ ~peer'[d].has => ~peer[d].has
      /\ peer' \in [Nodes -> PeerStates]
  <2>1. /\ Here.cnt = 0 /\ Here.saved = 0 /\ Here.has
        /\ Here \in PeerStates
    BY <1>1, <1>2 DEF PeerStates
  <2> DEFINE rested == [peer[trow.engine] EXCEPT !.run = FALSE]
  <2>2. /\ rested \in PeerStates
        /\ rested.cnt = peer[trow.engine].cnt /\ rested.saved = peer[trow.engine].saved
        /\ rested.has = peer[trow.engine].has
    <3>1. peer[trow.engine] \in PeerStates
      BY <1>1 DEF AccountingTypeOK
    <3> QED
      BY <3>1 DEF PeerStates
  <2>3. peer' = [peer EXCEPT ![trow.engine] = rested, ![e] = Here]
    BY <1>3
  <2> HIDE DEF rested
  <2>4. /\ peer'[trow.engine] = rested /\ peer'[e] = Here
        /\ \A d \in Nodes : d # e /\ d # trow.engine => peer'[d] = peer[d]
        /\ \A d \in Nodes : peer'[d] \in PeerStates
    BY <1>1, <2>1, <2>2, <2>3 DEF AccountingTypeOK
  <2>5. peer' \in [Nodes -> PeerStates]
    BY <1>1, <2>3, <2>4 DEF AccountingTypeOK
  <2> QED
    BY <1>1, <2>1, <2>2, <2>4, <2>5
<1>5. AccountingTypeOK'
  <2>1. hist' \in History
    <3> DEFINE slips == hist.slipped \/ work.at # "idle"
               backs == hist.back \/ (snap.at = "rows" /\ e = snap.row.engine)
    <3>1. /\ hist' = [hist EXCEPT !.moves = hist.moves + 1, !.by = FALSE, !.slipped = slips, !.back = backs]
          /\ hist.moves < MaxSwitches
      BY DEF MoveBegin
    <3>2. slips \in BOOLEAN /\ backs \in BOOLEAN /\ hist.moves + 1 \in 0..MaxSwitches
      BY <1>1, <3>1, AccountingAssumption DEF AccountingTypeOK, History
    <3> HIDE DEF slips, backs
    <3> QED
      BY <1>1, <3>1, <3>2 DEF AccountingTypeOK, History
  <2> QED
    BY <1>1, <1>4, <2>1 DEF AccountingTypeOK
<1>6. CountersOK'
  <2>1. \A d \in Nodes : /\ peer[d].saved <= peer[d].cnt /\ peer[d].cnt <= hist.sent
                         /\ peer[d].cnt \in Nat /\ (~peer[d].has => peer[d].cnt = 0)
    BY <1>1, CounterTypes DEF CountersOK, Count
  <2>2. \A d \in Nodes : /\ peer'[d].saved <= peer'[d].cnt /\ peer'[d].cnt <= hist'.sent
                         /\ ~peer'[d].has => peer'[d].cnt = 0
    BY <1>3, <1>4, <2>1 DEF PeerStates
  <2> QED
    BY <1>1, <2>2 DEF CountersOK, Count
<1>7. Target = 0 /\ Target' = 0 /\ ToCome' = ToCome
  BY <1>1, <1>4, CounterTypes DEF Target, ToCome, Count
<1>8. RowOK'
  BY <1>1, <1>3, <1>4, <1>7 DEF RowOK, Count, CountersOK
<1>9. ExactOK'
  BY <1>1, <1>3, <1>4, <1>7 DEF ExactOK, Count
<1>10. QuotaOK'
  BY <1>1, <1>3, <1>4, QuotaShrinks
<1>11. ListedOK'
  BY <1>3 DEF ListedOK
<1> QED
  BY <1>5, <1>6, <1>8, <1>9, <1>10, <1>11 DEF AccountingInv

(* The switch: the row starts anew with the counter of the target. *)
LEMMA SwitchKeeps ==
    ASSUME AccountingInv, NEW e \in Nodes, UpdateEngine(e)
    PROVE  AccountingInv'
<1>1. /\ AccountingTypeOK /\ CountersOK /\ RowOK /\ ExactOK /\ QuotaOK /\ ListedOK
      /\ move = e /\ move' = "switched" /\ e # trow.engine /\ trow.engine \in Nodes
      /\ UNCHANGED <<peer, snap, quota, meter, work, chart>>
      /\ MaxSent \in Nat /\ "switched" \notin Nodes
  BY AccountingAssumption, CounterTypes DEF AccountingInv, UpdateEngine, CountersOK
<1>2. /\ trow'.engine = e /\ trow'.seen = 0 /\ trow'.total = trow.total
      /\ hist'.sent = hist.sent /\ hist'.again = hist.again /\ hist'.twice = hist.twice
      /\ hist'.unfolded = hist.unfolded + Count(trow.engine) - trow.seen
      /\ ~hist'.mixed => ~hist.mixed /\ snap.at = "idle"
      /\ hist'.by = hist.by
      /\ hist'.back = hist.back /\ hist'.slipped = hist.slipped
  BY <1>1 DEF UpdateEngine, AccountingTypeOK, TotalRows, Count, History
<1>3. /\ \A d \in Nodes : Count(d) \in Nat /\ Count(d)' = Count(d)
      /\ trow.total \in Nat /\ trow.seen \in Nat /\ snap.row.seen \in Nat /\ snap.cur \in Nat
      /\ hist.sent \in Nat /\ hist.again \in Nat /\ hist.unfolded \in Int
      /\ Target = Count(e) /\ Target' = 0
  BY <1>1, CounterTypes DEF Target, Count
<1>4. AccountingTypeOK'
  <2>1. trow' \in TotalRows(Nodes)
    <3>1. trow' = [trow EXCEPT !.engine = e, !.seen = 0] /\ 0 \in 0..MaxSent
      BY <1>1 DEF UpdateEngine
    <3> QED
      BY <1>1, <3>1 DEF AccountingTypeOK, TotalRows
  <2>2. hist' \in History
    <3> DEFINE n == hist.unfolded + peer[trow.engine].cnt - trow.seen
               mixes == hist.mixed \/ snap.at # "idle"
    <3>1. hist' = [hist EXCEPT !.unfolded = n, !.mixed = mixes]
      BY DEF UpdateEngine
    <3>2. n \in Int /\ mixes \in BOOLEAN
      BY <1>1, <1>3 DEF AccountingTypeOK, Count
    <3> HIDE DEF n, mixes
    <3> QED
      BY <1>1, <3>1, <3>2 DEF AccountingTypeOK, History
  <2> QED
    BY <1>1, <2>1, <2>2 DEF AccountingTypeOK
<1>5. CountersOK'
  BY <1>1, <1>2, <1>3 DEF CountersOK, Count
<1>6. RowOK'
  <2> SUFFICES ASSUME ~hist.back PROVE RowOK'
    BY <1>2 DEF RowOK
  <2> PICK x \in Nodes : x = trow.engine
    BY <1>1
  <2>1. \A d \in Nodes, seen \in Nat : Delta(seen, Count(d)) \in 0..Count(d)
    BY <1>1, Differences
  <2>2. Delta(0, Count(e)) = Count(e)
    BY <1>3 DEF Delta
  <2>3. Delta(snap.row.seen, snap.cur) \in Nat
    BY <1>1, Differences
  <2>4. snap.at = "idle" => trow.total + Count(e) <= hist.sent + hist.again
    BY <1>1, <1>3, <2>1 DEF RowOK
  <2>5. snap.at = "rows" =>
          /\ snap.row.engine # e
          /\ trow.total + Delta(snap.row.seen, Count(snap.row.engine)) + Count(e) <= hist.sent + hist.again
    <3>1. CASE snap.row.engine = x
      BY <1>1, <1>3, <2>1, <3>1 DEF RowOK
    <3>2. CASE snap.row.engine # x
      <4> HAVE snap.at = "rows"
      <4> PICK y \in Nodes : y = snap.row.engine
        BY <1>1 DEF CountersOK
      <4>1. /\ y # e
            /\ trow.total + Delta(snap.row.seen, Count(y)) + Count(x) + Count(e) <= hist.sent + hist.again
        BY <1>1, <1>3, <3>2 DEF RowOK
      <4>2. Delta(snap.row.seen, Count(y)) \in Nat /\ Count(x) \in Nat /\ Count(e) \in Nat
        BY <1>3, <2>1
      <4> QED
        BY <1>3, <4>1, <4>2
    <3> QED
      BY <3>1, <3>2
  <2>6. snap.at = "asked" =>
          trow.total + Delta(snap.row.seen, snap.cur) + Delta(snap.cur, Count(e)) <= hist.sent + hist.again
    <3> HAVE snap.at = "asked"
    <3>1. trow.total + Delta(snap.row.seen, snap.cur) + Delta(snap.cur, Count(x)) + Count(e)
            <= hist.sent + hist.again
      BY <1>1, <1>3 DEF RowOK
    <3>2. Delta(snap.cur, Count(x)) \in Nat /\ Delta(snap.cur, Count(e)) \in 0..Count(e)
      BY <1>3, <2>1
    <3> QED
      BY <1>3, <2>3, <3>1, <3>2
  <2>7. snap.at # "idle" => snap.row.total = trow.total
    BY <1>1 DEF RowOK
  <2>8. snap.at = "rows" => snap.row.engine \in Nodes
    BY <1>1 DEF CountersOK
  <2>9. /\ trow'.total = trow.total /\ trow'.engine = e /\ Count(e) \in Nat
        /\ Delta(trow'.seen, peer'[trow'.engine].cnt) = Count(e) /\ peer'[trow'.engine].cnt = Count(e)
        /\ hist'.sent + hist'.again = hist.sent + hist.again /\ move' \notin Nodes
    BY <1>1, <1>2, <1>3, <2>2 DEF Count
  <2>10. snap.at = "rows" => Delta(snap.row.seen, Count(snap.row.engine)) \in Nat
    BY <1>3, <2>1, <2>8
  <2>11. snap.at = "idle" => trow.total + Count(e) + 0 <= hist.sent + hist.again
    BY <1>3, <2>4
  <2>12. snap.at = "rows" =>
           trow.total + Delta(snap.row.seen, Count(snap.row.engine)) + Count(e) + 0 <= hist.sent + hist.again
    BY <1>3, <2>5, <2>10
  <2>13. snap.at = "asked" =>
           trow.total + Delta(snap.row.seen, snap.cur) + Delta(snap.cur, Count(e)) + 0
             <= hist.sent + hist.again
    <3>1. Delta(snap.cur, Count(e)) \in Nat
      BY <1>3, <2>1
    <3> QED
      BY <1>3, <2>3, <2>6, <3>1
  <2>14. snap.at = "rows" => snap.row.engine # e /\ snap.row.engine # "switched"
    BY <1>1, <2>5, <2>8
  <2> QED
    BY <1>1, <1>3, <2>7, <2>9, <2>11, <2>12, <2>13, <2>14 DEF RowOK, Count
<1>7. ExactOK'
  <2>1. ToCome = Count(trow.engine) - trow.seen + Count(e) /\ ToCome' = Count(e)
    BY <1>1, <1>2, <1>3 DEF ToCome, Count
  <2> QED
    BY <1>1, <1>2, <1>3, <2>1 DEF ExactOK, Count
<1>8. QuotaOK'
  BY <1>1, <1>2, QuotaShrinks
<1>9. ListedOK'
  BY <1>1, <1>2 DEF ListedOK
<1> QED
  BY <1>4, <1>5, <1>6, <1>7, <1>8, <1>9 DEF AccountingInv

(* The source is removed, with its counter. *)
LEMMA MoveEndKeeps ==
    ASSUME AccountingInv, MoveEnd
    PROVE  AccountingInv'
<1>1. /\ AccountingTypeOK /\ CountersOK /\ RowOK /\ ExactOK /\ QuotaOK /\ ListedOK
      /\ move = "switched" /\ move' = "none" /\ trow.engine \in Nodes
      /\ UNCHANGED <<trow, snap, quota, meter, work, chart, hist>>
      /\ MaxSent \in Nat /\ "none" \notin Nodes /\ "switched" \notin Nodes
  BY AccountingAssumption, CounterTypes DEF AccountingInv, MoveEnd
<1>2. /\ peer' = [d \in Nodes |-> IF d = trow.engine THEN peer[d] ELSE Away]
      /\ Away = [has |-> FALSE, run |-> FALSE, cnt |-> 0, saved |-> 0]
  BY DEF MoveEnd, Away
<1>3. /\ \A d \in Nodes : /\ peer'[d] = peer[d] \/ (peer'[d].cnt = 0 /\ peer'[d].saved = 0)
                          /\ Count(d) \in Nat
      /\ peer'[trow.engine] = peer[trow.engine]
      /\ peer' \in [Nodes -> PeerStates]
  BY <1>1, <1>2, CounterTypes DEF AccountingTypeOK, PeerStates
<1>4. AccountingTypeOK'
  BY <1>1, <1>3 DEF AccountingTypeOK
<1>5. CountersOK'
  BY <1>1, <1>3 DEF CountersOK, Count, AccountingTypeOK, History
<1>6. Target = 0 /\ Target' = 0 /\ ToCome' = ToCome
  BY <1>1, <1>3 DEF Target, ToCome, Count
<1>7. RowOK'
  <2> PICK y : y = snap.row.engine
    OBVIOUS
  <2>1. snap.at = "rows" => Delta(snap.row.seen, peer'[y].cnt) <= Delta(snap.row.seen, peer[y].cnt)
                            /\ Delta(snap.row.seen, peer'[y].cnt) \in Nat
                            /\ Delta(snap.row.seen, peer[y].cnt) \in Nat
    <3> HAVE snap.at = "rows"
    <3>1. y \in Nodes /\ snap.row.seen \in Nat /\ peer[y].cnt \in Nat
      BY <1>1, CounterTypes DEF CountersOK, Count
    <3>2. Delta(snap.row.seen, peer[y].cnt) \in Nat /\ Delta(snap.row.seen, 0) = 0
      BY <3>1 DEF Delta
    <3> QED
      BY <1>3, <3>1, <3>2
  <2>2. trow.total \in Nat /\ Count(trow.engine) \in Nat /\ hist.sent + hist.again \in Nat
    BY <1>1, CounterTypes
  <2>3. Count(trow.engine)' = Count(trow.engine)
    BY <1>1, <1>3 DEF Count
  <2>4. ~hist.back /\ snap.at = "rows" /\ y # trow.engine =>
          trow.total + Delta(snap.row.seen, peer[y].cnt) + Count(trow.engine) <= hist.sent + hist.again
    BY <1>1, <1>6, <2>1, <2>2 DEF RowOK, Count
  <2>5. ~hist.back /\ snap.at = "rows" /\ y # trow.engine =>
          trow.total + Delta(snap.row.seen, peer'[y].cnt) + Count(trow.engine) <= hist.sent + hist.again
    BY <2>1, <2>2, <2>4
  <2>6. /\ peer'[trow.engine].cnt = Count(trow.engine) /\ Target = Target' /\ move' \notin Nodes
        /\ snap.at # "idle" => snap.row.engine # move' /\ y = snap.row.engine
    BY <1>1, <1>3, <1>6 DEF Count, CountersOK
  <2>7. ~hist.back /\ snap.at = "rows" /\ y # trow.engine =>
          trow.total + Delta(snap.row.seen, peer'[y].cnt) + Count(trow.engine) + 0 <= hist.sent + hist.again
    BY <2>1, <2>2, <2>5
  <2>8. ~hist.back =>
          /\ snap.at # "idle" => snap.row.total = trow.total
          /\ snap.at = "idle" =>
                trow.total + Delta(trow.seen, Count(trow.engine)) + Target <= hist.sent + hist.again
          /\ snap.at = "rows" /\ y = trow.engine =>
                /\ snap.row.seen = trow.seen
                /\ trow.total + Delta(trow.seen, Count(trow.engine)) + Target <= hist.sent + hist.again
          /\ snap.at = "asked" =>
                trow.total + Delta(snap.row.seen, snap.cur) + Delta(snap.cur, Count(trow.engine))
                  + Target <= hist.sent + hist.again
    BY <1>1 DEF RowOK
  <2> QED
    BY <1>1, <1>6, <2>6, <2>7, <2>8 DEF RowOK, Count
<1>8. ExactOK'
  BY <1>1, <1>3, <1>6 DEF ExactOK, Count
<1>9. QuotaOK'
  BY <1>1, <1>3, QuotaShrinks
<1>10. ListedOK'
  BY <1>1 DEF ListedOK
<1> QED
  BY <1>4, <1>5, <1>7, <1>8, <1>9, <1>10 DEF AccountingInv

(* The snapshot: the row is read, its engine asked, the row is written. *)
LEMMA SnapshotKeeps ==
    ASSUME AccountingInv, SnapshotStep
    PROVE  AccountingInv'
<1>1. /\ AccountingTypeOK /\ CountersOK /\ RowOK /\ ExactOK /\ QuotaOK /\ ListedOK
      /\ UNCHANGED <<peer, move, quota, meter, work, chart, hist>>
      /\ MaxSent \in Nat /\ 0 \in 0..MaxSent
  BY AccountingAssumption
     DEF AccountingInv, SnapshotStep, SnapshotRows, SnapshotAsk, SnapshotWrite
<1>2. /\ trow.engine \in Nodes /\ trow.total \in Nat /\ trow.seen \in Nat
      /\ snap.row.total \in Nat /\ snap.row.seen \in Nat /\ snap.cur \in Nat
      /\ hist.sent + hist.again \in Nat /\ Target \in Nat /\ Target' = Target
      /\ \A d \in Nodes : Count(d) \in Nat
      /\ \A d \in Nodes, seen \in Nat : Delta(seen, Count(d)) \in 0..Count(d)
      /\ Delta(snap.row.seen, snap.cur) \in Nat /\ hist.sent \in Nat /\ hist.unfolded \in Int
  BY <1>1, CounterTypes, Differences DEF Target, Count
<1>3. QuotaOK' /\ ListedOK'
  BY <1>1 DEF QuotaOK, ListedOK, Room, Metered, Count
<1>4. /\ NoSnap = [at |-> "idle", row |-> [engine |-> "none", total |-> 0, seen |-> 0], cur |-> 0]
      /\ NoSnap \in [at : {"idle", "rows", "asked"}, row : TotalRows(Nodes \union {"none"}), cur : 0..MaxSent]
      /\ NoSnap.at = "idle"
  BY <1>1 DEF NoSnap, TotalRows
<1>5. ASSUME SnapshotRows PROVE AccountingInv'
  <2>1. /\ snap.at = "idle" /\ snap' = [at |-> "rows", row |-> trow, cur |-> 0] /\ trow' = trow
        /\ snap'.at = "rows" /\ snap'.row = trow
    BY <1>5 DEF SnapshotRows
  <2>2. AccountingTypeOK'
    <3>1. trow \in TotalRows(Nodes \union {"none"})
      BY <1>1 DEF AccountingTypeOK, TotalRows
    <3>2. snap' \in [at : {"idle", "rows", "asked"}, row : TotalRows(Nodes \union {"none"}), cur : 0..MaxSent]
      BY <1>1, <2>1, <3>1
    <3> QED
      BY <1>1, <2>1, <3>2 DEF AccountingTypeOK
  <2>3. CountersOK'
    BY <1>1, <1>2, <2>1 DEF CountersOK, Count
  <2>4. ~hist.back => trow.total + Delta(trow.seen, Count(trow.engine)) + Target <= hist.sent + hist.again
    BY <1>1, <2>1 DEF RowOK
  <2>5. RowOK'
    BY <1>1, <1>2, <2>1, <2>4 DEF RowOK, Count
  <2>6. ExactOK'
    BY <1>1, <2>1 DEF ExactOK, ToCome, Count
  <2> QED
    BY <1>3, <2>2, <2>3, <2>5, <2>6 DEF AccountingInv
<1>6. ASSUME snap' = NoSnap, trow' = trow, snap.at = "rows" PROVE AccountingInv'
  <2>1. AccountingTypeOK' /\ CountersOK'
    BY <1>1, <1>4, <1>6 DEF AccountingTypeOK, CountersOK, Count
  <2>2. ~hist.back => trow.total + Delta(trow.seen, Count(trow.engine)) + Target <= hist.sent + hist.again
    <3> HAVE ~hist.back
    <3>1. CASE snap.row.engine = trow.engine
      BY <1>1, <1>6, <3>1 DEF RowOK
    <3>2. CASE snap.row.engine # trow.engine
      <4> PICK y \in Nodes : y = snap.row.engine
        BY <1>1, <1>6 DEF CountersOK
      <4>1. trow.total + Delta(snap.row.seen, Count(y)) + Count(trow.engine) + Target
              <= hist.sent + hist.again
        BY <1>1, <1>6, <3>2 DEF RowOK
      <4>2. /\ Delta(snap.row.seen, Count(y)) \in Nat /\ Count(trow.engine) \in Nat
            /\ Delta(trow.seen, Count(trow.engine)) \in 0..Count(trow.engine)
        BY <1>2
      <4> QED
        BY <1>2, <4>1, <4>2
    <3> QED
      BY <3>1, <3>2
  <2>3. RowOK'
    BY <1>1, <1>2, <1>4, <1>6, <2>2 DEF RowOK, Count
  <2>4. ExactOK'
    BY <1>1, <1>4, <1>6 DEF ExactOK, ToCome, Count
  <2> QED
    BY <1>3, <2>1, <2>3, <2>4 DEF AccountingInv
<1>7. ASSUME snap' = [snap EXCEPT !.at = "asked", !.cur = peer[snap.row.engine].cnt], trow' = trow,
             snap.at = "rows"
      PROVE AccountingInv'
  <2> PICK y \in Nodes : y = snap.row.engine
    BY <1>1, <1>7 DEF CountersOK
  <2>1. /\ snap'.at = "asked" /\ snap'.cur = Count(y) /\ snap'.row = snap.row
        /\ peer[y].cnt \in 0..MaxSent
    BY <1>1, <1>7 DEF AccountingTypeOK, Count, PeerStates
  <2>2. AccountingTypeOK' /\ CountersOK'
    BY <1>1, <1>7, <2>1 DEF AccountingTypeOK, CountersOK, Count
  <2>3. ~hist.back =>
          /\ snap.row.total = trow.total
          /\ trow.total + Delta(snap.row.seen, Count(y)) + Delta(Count(y), Count(trow.engine)) + Target
               <= hist.sent + hist.again
    <3> HAVE ~hist.back
    <3>1. CASE y = trow.engine
      <4>1. /\ trow.total + Delta(trow.seen, Count(y)) + Target <= hist.sent + hist.again
            /\ snap.row.seen = trow.seen /\ snap.row.total = trow.total
        BY <1>1, <1>7, <3>1 DEF RowOK
      <4>2. Delta(Count(y), Count(trow.engine)) = 0 /\ Delta(trow.seen, Count(y)) \in Nat
        BY <1>2, <3>1 DEF Delta
      <4> QED
        BY <1>2, <4>1, <4>2
    <3>2. CASE y # trow.engine
      <4>1. /\ trow.total + Delta(snap.row.seen, Count(y)) + Count(trow.engine) + Target
                 <= hist.sent + hist.again
            /\ snap.row.total = trow.total
        BY <1>1, <1>7, <3>2 DEF RowOK
      <4>2. /\ Delta(snap.row.seen, Count(y)) \in Nat /\ Count(trow.engine) \in Nat
            /\ Delta(Count(y), Count(trow.engine)) \in 0..Count(trow.engine)
        BY <1>2
      <4> QED
        BY <1>2, <4>1, <4>2
    <3> QED
      BY <3>1, <3>2
  <2>4. RowOK'
    BY <1>1, <1>2, <1>7, <2>1, <2>3 DEF RowOK, Count
  <2>5. ExactOK'
    <3> SUFFICES ASSUME ~hist.mixed PROVE ExactOK'
      BY <1>1 DEF ExactOK
    <3>1. /\ trow.total + ToCome + hist.unfolded = hist.sent /\ snap.row = trow
          /\ trow.seen <= Count(trow.engine) /\ y = trow.engine
      BY <1>1, <1>7 DEF ExactOK
    <3>2. Count(y) <= Count(trow.engine) /\ trow.seen <= Count(y)
      BY <1>2, <3>1
    <3>3. ToCome' = ToCome
      BY <1>1, <1>7 DEF ToCome
    <3> QED
      BY <1>1, <1>7, <2>1, <3>1, <3>2, <3>3 DEF ExactOK, Count
  <2> QED
    BY <1>3, <2>2, <2>4, <2>5 DEF AccountingInv
<1>8. ASSUME SnapshotWrite PROVE AccountingInv'
  <2> DEFINE total == snap.row.total + Delta(snap.row.seen, snap.cur)
  <2>1. /\ snap.at = "asked" /\ snap' = NoSnap /\ total \in Nat /\ snap.cur \in 0..MaxSent
        /\ trow' = [trow EXCEPT !.total = total, !.seen = snap.cur]
    BY <1>1, <1>2, <1>8 DEF SnapshotWrite, AccountingTypeOK
  <2>2. trow'.total = total /\ trow'.seen = snap.cur /\ trow'.engine = trow.engine
    BY <1>1, <2>1 DEF AccountingTypeOK, TotalRows
  <2>3. AccountingTypeOK'
    <3>1. trow' \in TotalRows(Nodes)
      <4> HIDE DEF total
      <4> QED
        BY <1>1, <2>1 DEF AccountingTypeOK, TotalRows
    <3> QED
      BY <1>1, <1>4, <2>1, <3>1 DEF AccountingTypeOK
  <2>4. CountersOK'
    BY <1>1, <1>4, <2>1, <2>2 DEF CountersOK, Count
  <2>5. ~hist.back => total + Delta(snap.cur, Count(trow.engine)) + Target <= hist.sent + hist.again
    BY <1>1, <2>1 DEF RowOK
  <2>6. RowOK'
    BY <1>1, <1>2, <1>4, <2>1, <2>2, <2>5 DEF RowOK, Count
  <2>7. ExactOK'
    <3> SUFFICES ASSUME ~hist.mixed PROVE ExactOK'
      BY <1>1 DEF ExactOK
    <3>1. /\ trow.total + ToCome + hist.unfolded = hist.sent /\ snap.row = trow
          /\ trow.seen <= snap.cur /\ snap.cur <= Count(trow.engine)
      BY <1>1, <2>1 DEF ExactOK
    <3>2. total = trow.total + snap.cur - trow.seen
      BY <1>2, <3>1 DEF Delta
    <3>3. /\ ToCome = Count(trow.engine) - trow.seen + Target
          /\ ToCome' = Count(trow.engine) - snap.cur + Target
      BY <1>1, <1>2, <2>2 DEF ToCome, Target, Count
    <3>4. trow'.total + ToCome' + hist.unfolded = hist.sent
      <4> HIDE DEF total
      <4>1. Count(trow.engine) \in Nat
        BY <1>2
      <4> QED
        BY <1>2, <2>2, <3>1, <3>2, <3>3, <4>1
    <3> QED
      BY <1>1, <1>4, <2>1, <2>2, <3>1, <3>4 DEF ExactOK, Count
  <2> QED
    BY <1>3, <2>3, <2>4, <2>6, <2>7 DEF AccountingInv
<1> QED
  BY <1>5, <1>6, <1>7, <1>8 DEF SnapshotStep, SnapshotAsk

(* What does not touch the engines, the row and its snapshot.              *)
LEMMA RowStays ==
    ASSUME AccountingInv, UNCHANGED <<trow, move, snap>>,
           \A d \in Nodes : peer'[d].cnt = peer[d].cnt /\ peer'[d].saved = peer[d].saved
                            /\ peer'[d].has = peer[d].has,
           hist'.sent = hist.sent, hist'.again = hist.again, hist'.unfolded = hist.unfolded,
           hist'.mixed = hist.mixed, hist'.back = hist.back
    PROVE  CountersOK' /\ RowOK' /\ ExactOK'
<1>1. CountersOK /\ RowOK /\ ExactOK /\ AccountingTypeOK /\ trow.engine \in Nodes
  BY CounterTypes DEF AccountingInv
<1>2. CountersOK'
  BY <1>1 DEF CountersOK, Count
<1>3. Target' = Target /\ ToCome' = ToCome
  BY <1>1 DEF Target, ToCome, Count
<1>4. RowOK'
  BY <1>1, <1>3 DEF RowOK, Count, CountersOK
<1>5. ExactOK'
  BY <1>1, <1>3 DEF ExactOK, Count
<1> QED
  BY <1>2, <1>4, <1>5

(* The worker's round. *)
LEMMA FetchKeeps ==
    ASSUME AccountingInv, NEW e \in Nodes, WorkerFetch(e)
    PROVE  AccountingInv'
<1>1. /\ AccountingTypeOK /\ CountersOK /\ QuotaOK /\ ListedOK
      /\ UNCHANGED <<peer, trow, move, snap, quota, meter, chart, hist>>
      /\ work.at = "idle" /\ work' = [NoWork EXCEPT !.at = "fetched", !.cur = peer[e].cnt, !.from = e]
      /\ 0 \in 0..MaxSent
  BY AccountingAssumption DEF AccountingInv, WorkerFetch
<1>2. /\ work'.at = "fetched" /\ work'.cur = peer[e].cnt /\ work'.from = e
      /\ work' \in Rounds
  <2>1. NoQuota \in Quotas
    BY DEF NoQuota, Quotas
  <2>2. peer[e].cnt \in 0..MaxSent
    BY <1>1 DEF AccountingTypeOK, PeerStates
  <2> QED
    BY <1>1, <2>1, <2>2 DEF NoWork, Rounds
<1>3. AccountingTypeOK' /\ CountersOK' /\ RowOK' /\ ExactOK' /\ ListedOK'
  <2>1. AccountingTypeOK'
    BY <1>1, <1>2 DEF AccountingTypeOK
  <2>2. ListedOK'
    BY <1>1, <1>2 DEF ListedOK
  <2> QED
    BY <1>1, <2>1, <2>2, RowStays
<1>4. Room(quota.total)'
  <2>1. /\ Delta(peer[e].cnt, peer[e].cnt) = 0 /\ peer[e].cnt \in Nat /\ peer[e].cnt <= hist.sent
        /\ quota.total \in Nat /\ hist.sent \in Nat /\ hist.again \in Nat /\ hist.twice \in Nat
        /\ Delta(0, peer[e].cnt) = peer[e].cnt
    BY <1>1, CounterTypes DEF CountersOK, Count, Delta
  <2>2. quota.total <= Metered
    BY <1>1 DEF QuotaOK
  <2>3. meter.from \in {"none", e} =>
          quota.total + Delta(meter.cur, peer[e].cnt) <= hist.sent + hist.again + hist.twice
    <3>1. CASE meter.from = "none"
      BY <1>1, <2>1, <3>1 DEF QuotaOK, Metered
    <3>2. CASE meter.from # "none" /\ meter.from = e
      BY <1>1, <3>2 DEF QuotaOK, Metered, Count
    <3> QED
      BY <3>1, <3>2
  <2>4. meter.from \in {"none", e} => Delta(meter.cur, peer[e].cnt) \in Nat
    BY <1>1, <2>1, CounterTypes DEF Delta
  <2> QED
    BY <1>1, <1>2, <2>1, <2>2, <2>3, <2>4 DEF Room, Metered, Count
<1>5. QuotaOK'
  BY <1>1, <1>2, <1>4 DEF QuotaOK, Metered, Count
<1> QED
  BY <1>3, <1>5 DEF AccountingInv

LEMMA ReadMeterKeeps ==
    ASSUME AccountingInv, WorkerRead
    PROVE  AccountingInv'
<1>1. /\ AccountingTypeOK /\ CountersOK /\ QuotaOK /\ ListedOK /\ work.at = "fetched"
      /\ UNCHANGED <<peer, trow, move, snap, quota, meter, chart, hist>>
      /\ 0 \in 0..MaxSent /\ CountersOK' /\ RowOK' /\ ExactOK'
  BY AccountingAssumption, RowStays DEF AccountingInv, WorkerRead
<1>2. CASE work' = NoWork /\ ~quota.on
  <2>1. NoQuota \in Quotas
    BY DEF NoQuota, Quotas
  <2>2. AccountingTypeOK'
    BY <1>1, <1>2, <2>1 DEF NoWork, AccountingTypeOK, Rounds
  <2>3. QuotaOK' /\ ListedOK'
    BY <1>1, <1>2 DEF NoWork, QuotaOK, ListedOK, Metered, Count
  <2> QED
    BY <1>1, <2>2, <2>3 DEF AccountingInv
<1>3. CASE quota.on /\ work' = [work EXCEPT !.at = "metered", !.quota = quota,
                                            !.delta = Delta(meter.cur, work.cur)]
  <2>1. Delta(meter.cur, work.cur) \in 0..MaxSent
    BY <1>1, AccountingAssumption DEF AccountingTypeOK, Delta, Rounds
  <2>2. /\ work'.at = "metered" /\ work'.quota = quota /\ work'.delta = Delta(meter.cur, work.cur)
        /\ work'.cur = work.cur /\ work'.from = work.from
        /\ work' \in Rounds
    <3> PICK d \in 0..MaxSent : d = Delta(meter.cur, work.cur)
      BY <2>1
    <3>1. work' = [work EXCEPT !.at = "metered", !.quota = quota, !.delta = d]
      BY <1>3
    <3> QED
      BY <1>1, <3>1 DEF AccountingTypeOK, Rounds
  <2>3. AccountingTypeOK'
    BY <1>1, <2>2 DEF AccountingTypeOK
  <2>4. Room(quota.total) /\ work.from \in Nodes
    BY <1>1 DEF QuotaOK
  <2>5. QuotaOK'
    BY <1>1, <2>2, <2>4 DEF QuotaOK, Room, Metered, Count
  <2>6. ListedOK'
    BY <1>1, <2>2 DEF ListedOK
  <2> QED
    BY <1>1, <2>3, <2>5, <2>6 DEF AccountingInv
<1> QED
  BY <1>2, <1>3 DEF WorkerRead

LEMMA PauseKeeps ==
    ASSUME AccountingInv, WorkerPause
    PROVE  AccountingInv'
<1>1. /\ AccountingTypeOK /\ CountersOK /\ QuotaOK /\ ListedOK /\ work.at = "metered" /\ Exceeds
      /\ UNCHANGED <<trow, move, snap, quota, meter, chart>> /\ trow.engine \in Nodes
  BY CounterTypes DEF AccountingInv, WorkerPause
<1> DEFINE rested == [peer[trow.engine] EXCEPT !.run = FALSE]
           Paused(p) ==
             /\ work' = [work EXCEPT !.at = "enforced", !.paused = p]
             /\ \/ p = work.paused /\ UNCHANGED <<peer, hist>>
                \/ /\ p = TRUE /\ peer' = [peer EXCEPT ![trow.engine] = rested]
                   /\ hist' = [hist EXCEPT !.by = TRUE]
<1>2. PICK p \in BOOLEAN : Paused(p)
  <2>1. CASE work' = [work EXCEPT !.at = "enforced"] /\ UNCHANGED <<peer, hist>>
    <3>1. work.paused \in BOOLEAN /\ work' = [work EXCEPT !.at = "enforced", !.paused = work.paused]
      BY <1>1, <2>1 DEF AccountingTypeOK, Rounds
    <3>2. Paused(work.paused)
      BY <2>1, <3>1
    <3> QED
      BY <3>1, <3>2
  <2>2. CASE /\ work' = [work EXCEPT !.at = "enforced", !.paused = TRUE]
             /\ peer' = [peer EXCEPT ![trow.engine].run = FALSE] /\ hist' = [hist EXCEPT !.by = TRUE]
    <3>1. peer' = [peer EXCEPT ![trow.engine] = rested]
      BY <1>1, <2>2 DEF AccountingTypeOK
    <3>2. Paused(TRUE)
      BY <2>2, <3>1
    <3> QED
      BY <3>2
  <2> QED
    BY <2>1, <2>2 DEF WorkerPause
<1>3. /\ work'.at = "enforced" /\ work'.paused = p /\ work'.cur = work.cur /\ work'.from = work.from
      /\ work'.quota = work.quota /\ work'.delta = work.delta
      /\ work' \in Rounds
  BY <1>1, <1>2 DEF AccountingTypeOK, Rounds
<1>4. /\ \A d \in Nodes : peer'[d].cnt = peer[d].cnt /\ peer'[d].saved = peer[d].saved
                          /\ peer'[d].has = peer[d].has
      /\ peer' \in [Nodes -> PeerStates]
  <2>1. /\ rested \in PeerStates
        /\ rested.cnt = peer[trow.engine].cnt /\ rested.saved = peer[trow.engine].saved
        /\ rested.has = peer[trow.engine].has
    <3>1. peer[trow.engine] \in PeerStates
      BY <1>1 DEF AccountingTypeOK
    <3> QED
      BY <3>1 DEF PeerStates
  <2>2. peer' = peer \/ peer' = [peer EXCEPT ![trow.engine] = rested]
    BY <1>2
  <2> HIDE DEF rested
  <2>3. CASE peer' = peer
    BY <1>1, <2>3 DEF AccountingTypeOK
  <2>4. CASE peer' = [peer EXCEPT ![trow.engine] = rested]
    BY <1>1, <2>1, <2>4 DEF AccountingTypeOK
  <2> QED
    BY <2>2, <2>3, <2>4
<1>5. /\ hist'.sent = hist.sent /\ hist'.again = hist.again /\ hist'.twice = hist.twice
      /\ hist'.unfolded = hist.unfolded /\ hist'.mixed = hist.mixed /\ hist'.back = hist.back
      /\ hist'.slipped = hist.slipped /\ (hist'.by = hist.by \/ p)
      /\ hist' \in History
  BY <1>1, <1>2 DEF AccountingTypeOK, History
<1>6. AccountingTypeOK'
  BY <1>1, <1>3, <1>4, <1>5 DEF AccountingTypeOK
<1>7. CountersOK' /\ RowOK' /\ ExactOK'
  BY <1>1, <1>4, <1>5, RowStays
<1>8. QuotaOK'
  <2>1. /\ Room(quota.total) /\ Room(work.quota.total) /\ work.from \in Nodes
        /\ work.delta = Delta(meter.cur, work.cur)
    BY <1>1 DEF QuotaOK
  <2>2. Metered' = Metered /\ meter.from \in Nodes \union {"none"}
    BY <1>1, <1>5, CounterTypes DEF Metered
  <2> QED
    BY <1>1, <1>3, <1>4, <2>1, <2>2 DEF QuotaOK, Room, Count
<1>9. ListedOK'
  <2>1. ~work.quota.over
    BY <1>1 DEF Exceeds
  <2> QED
    BY <1>1, <1>3, <1>5, <2>1 DEF ListedOK
<1> QED
  BY <1>6, <1>7, <1>8, <1>9 DEF AccountingInv

LEMMA FailsKeeps ==
    ASSUME AccountingInv, WorkerFails
    PROVE  AccountingInv'
<1>1. /\ AccountingTypeOK /\ CountersOK /\ QuotaOK /\ ListedOK /\ work.at \in {"metered", "enforced"}
      /\ UNCHANGED <<peer, trow, move, snap, quota, meter, chart>> /\ work' = NoWork
      /\ work.paused \in BOOLEAN /\ hist.slipped \in BOOLEAN /\ 0 \in 0..MaxSent
  BY AccountingAssumption DEF AccountingInv, WorkerFails, AccountingTypeOK, Rounds, History
<1>2. PICK s \in BOOLEAN : hist' = [hist EXCEPT !.slipped = s] /\ (s <=> hist.slipped \/ work.paused)
  BY <1>1 DEF WorkerFails
<1>3. /\ hist'.sent = hist.sent /\ hist'.again = hist.again /\ hist'.twice = hist.twice
      /\ hist'.unfolded = hist.unfolded /\ hist'.mixed = hist.mixed /\ hist'.back = hist.back
      /\ hist'.slipped = s /\ hist'.by = hist.by
      /\ hist' \in History
  BY <1>1, <1>2 DEF AccountingTypeOK, History
<1>4. AccountingTypeOK'
  <2>1. NoQuota \in Quotas
    BY DEF NoQuota, Quotas
  <2> QED
    BY <1>1, <1>3, <2>1 DEF NoWork, AccountingTypeOK, Rounds
<1>5. CountersOK' /\ RowOK' /\ ExactOK'
  BY <1>1, <1>3, RowStays
<1>6. QuotaOK' /\ ListedOK'
  BY <1>1, <1>2, <1>3 DEF NoWork, QuotaOK, ListedOK, Metered, Count
<1> QED
  BY <1>4, <1>5, <1>6 DEF AccountingInv

(* The round is committed: the total of the quota it read, and what it     *)
(* fetched as the base of the meter.                                       *)
LEMMA CommitRound ==
    ASSUME AccountingInv, WorkerCommit
    PROVE  AccountingInv'
<1>1. /\ AccountingTypeOK /\ CountersOK /\ QuotaOK /\ ListedOK /\ work.at \in {"metered", "enforced"}
      /\ UNCHANGED <<peer, trow, move, snap, chart>> /\ work' = NoWork /\ quota.on
      /\ quota' = Noted(quota) /\ meter' = [cur |-> work.cur, from |-> work.from]
      /\ 0 \in 0..MaxSent /\ work.from \in Nodes /\ "none" \notin Nodes
  BY AccountingAssumption DEF AccountingInv, WorkerCommit, QuotaOK
<1>2. /\ quota.total \in Nat /\ work.quota.total \in Nat /\ meter.cur \in Nat /\ work.cur \in Nat
      /\ work.delta \in Nat /\ work.paused \in BOOLEAN /\ hist.twice \in Nat
      /\ hist.sent \in Nat /\ hist.again \in Nat /\ quota \in Quotas /\ Count(work.from) \in Nat
      /\ meter.from \in Nodes \union {"none"}
  BY <1>1, CounterTypes DEF AccountingTypeOK, Rounds
<1>3. PICK t \in Nat : /\ t = (IF work.delta > 0 THEN work.quota.total + work.delta ELSE quota.total)
                       /\ WithDelta(quota) = [quota EXCEPT !.total = t]
  <2>1. quota = [quota EXCEPT !.total = quota.total]
    BY <1>2 DEF Quotas
  <2> QED
    BY <1>2, <2>1 DEF WithDelta
<1>4. /\ quota'.total = t /\ quota'.on = quota.on /\ quota' \in Quotas
      /\ work.at = "enforced" => quota'.over = TRUE /\ quota'.paused = work.paused
      /\ work.at = "metered" => quota'.over = quota.over /\ quota'.paused = quota.paused
  <2>1. CASE work.at = "enforced"
    <3>1. quota' = [quota EXCEPT !.total = t, !.over = TRUE, !.paused = work.paused]
      BY <1>1, <1>2, <1>3, <2>1 DEF Noted, Quotas
    <3> QED
      BY <1>2, <2>1, <3>1 DEF Quotas
  <2>2. CASE work.at = "metered"
    <3>1. quota' = [quota EXCEPT !.total = t]
      BY <1>1, <1>3, <2>2 DEF Noted
    <3> QED
      BY <1>2, <2>2, <3>1 DEF Quotas
  <2> QED
    BY <1>1, <2>1, <2>2
<1>5. PICK w \in Nat : /\ w = (IF meter.from \notin {"none", work.from} THEN hist.twice + work.cur
                                                                        ELSE hist.twice)
                       /\ hist' = [hist EXCEPT !.twice = w]
  <2>1. CASE meter.from \notin {"none", work.from}
    BY <1>2, <2>1 DEF WorkerCommit
  <2>2. CASE meter.from \in {"none", work.from}
    <3>1. hist = [hist EXCEPT !.twice = hist.twice]
      BY <1>1 DEF AccountingTypeOK, History
    <3> QED
      BY <1>2, <2>2, <3>1 DEF WorkerCommit
  <2> QED
    BY <2>1, <2>2
<1>6. /\ hist'.sent = hist.sent /\ hist'.again = hist.again /\ hist'.twice = w
      /\ hist'.unfolded = hist.unfolded /\ hist'.mixed = hist.mixed /\ hist'.back = hist.back
      /\ hist'.slipped = hist.slipped /\ hist'.by = hist.by
      /\ hist' \in History
  BY <1>1, <1>5 DEF AccountingTypeOK, History
<1>7. AccountingTypeOK'
  <2>1. NoQuota \in Quotas
    BY DEF NoQuota, Quotas
  <2>2. meter' \in [cur : 0..MaxSent, from : Nodes \union {"none"}]
    BY <1>1 DEF AccountingTypeOK, Rounds
  <2>3. work' \in Rounds
    BY <1>1, <2>1 DEF NoWork, Rounds
  <2> QED
    BY <1>1, <1>4, <1>6, <2>2, <2>3 DEF AccountingTypeOK
<1>8. CountersOK' /\ RowOK' /\ ExactOK'
  BY <1>1, <1>6, RowStays
<1>9. QuotaOK'
  <2> PICK more \in Nat : more = Delta(work.cur, Count(work.from))
    BY <1>2 DEF Delta
  <2>1. work.delta \in 0..work.cur /\ work.delta = Delta(meter.cur, work.cur)
    BY <1>1, <1>2, DeltaBounds DEF QuotaOK
  <2>2. /\ quota.total + more <= hist.sent + hist.again + hist.twice
        /\ work.quota.total + more <= hist.sent + hist.again + hist.twice
        /\ meter.from \in {"none", work.from} =>
             work.quota.total + work.delta + more <= hist.sent + hist.again + hist.twice
    BY <1>1, <2>1 DEF QuotaOK, Room, Metered
  <2>3. t + more <= hist.sent + hist.again + w
    <3>1. CASE work.delta = 0
      BY <1>2, <1>3, <1>5, <2>2, <3>1
    <3>2. CASE work.delta > 0 /\ meter.from \in {"none", work.from}
      BY <1>2, <1>3, <1>5, <2>2, <3>2
    <3>3. CASE work.delta > 0 /\ meter.from \notin {"none", work.from}
      BY <1>2, <1>3, <1>5, <2>1, <2>2, <3>3
    <3> QED
      BY <1>2, <3>1, <3>2, <3>3
  <2>4. /\ meter'.from = work.from /\ meter'.cur = work.cur /\ work'.at = "idle"
        /\ Metered' = hist.sent + hist.again + w
        /\ peer[work.from].cnt = Count(work.from)
    BY <1>1, <1>6 DEF NoWork, Metered, Count
  <2>5. t <= hist.sent + hist.again + w
    BY <1>2, <2>3
  <2> QED
    BY <1>1, <1>4, <2>3, <2>4, <2>5 DEF QuotaOK, Count
<1>10. ListedOK'
  BY <1>1, <1>2, <1>4, <1>6 DEF ListedOK, NoWork
<1> QED
  BY <1>7, <1>8, <1>9, <1>10 DEF AccountingInv

(* A change of the quota never raises its total. *)
LEMMA QuotaChanges ==
    ASSUME AccountingInv, UNCHANGED <<trow, move, snap, meter, work, chart>>,
           quota' \in Quotas, quota'.total = quota.total \/ quota'.total = 0,
           NEW b \in BOOLEAN, NEW s \in BOOLEAN, hist.patches < MaxPatches,
           hist' = [hist EXCEPT !.patches = hist.patches + 1, !.by = b, !.slipped = s],
           peer' = peer \/ peer' = [peer EXCEPT ![trow.engine] = [peer[trow.engine] EXCEPT !.run = TRUE]],
           b => hist.by, hist.slipped => s,
           b /\ ~s => \/ work.at \notin {"metered", "enforced"} /\ ~quota.paused
                      \/ quota.on => /\ quota'.on /\ quota'.over = quota.over
                                     /\ quota'.paused = quota.paused
    PROVE  AccountingInv'
<1>1. /\ AccountingTypeOK /\ CountersOK /\ QuotaOK /\ ListedOK /\ trow.engine \in Nodes
      /\ hist.patches + 1 \in 0..MaxPatches
  BY CounterTypes, AccountingAssumption DEF AccountingInv, AccountingTypeOK, History
<1>2. /\ \A d \in Nodes : peer'[d].cnt = peer[d].cnt /\ peer'[d].saved = peer[d].saved
                          /\ peer'[d].has = peer[d].has
      /\ peer' \in [Nodes -> PeerStates]
  <2>1. CASE peer' = peer
    BY <1>1, <2>1 DEF AccountingTypeOK
  <2>2. CASE peer' = [peer EXCEPT ![trow.engine] = [peer[trow.engine] EXCEPT !.run = TRUE]]
    <3> DEFINE run == [peer[trow.engine] EXCEPT !.run = TRUE]
    <3>1. /\ run \in PeerStates
          /\ run.cnt = peer[trow.engine].cnt /\ run.saved = peer[trow.engine].saved
          /\ run.has = peer[trow.engine].has
      <4>1. peer[trow.engine] \in PeerStates
        BY <1>1 DEF AccountingTypeOK
      <4> QED
        BY <4>1 DEF PeerStates
    <3>2. peer' = [peer EXCEPT ![trow.engine] = run]
      BY <2>2
    <3> HIDE DEF run
    <3> QED
      BY <1>1, <3>1, <3>2 DEF AccountingTypeOK
  <2> QED
    BY <2>1, <2>2
<1>3. /\ hist'.sent = hist.sent /\ hist'.again = hist.again /\ hist'.twice = hist.twice
      /\ hist'.unfolded = hist.unfolded /\ hist'.mixed = hist.mixed /\ hist'.back = hist.back
      /\ hist'.slipped = s /\ hist'.by = b
      /\ hist' \in History
  BY <1>1 DEF AccountingTypeOK, History
<1>4. AccountingTypeOK'
  BY <1>1, <1>2, <1>3 DEF AccountingTypeOK
<1>5. CountersOK' /\ RowOK' /\ ExactOK'
  BY <1>2, <1>3, RowStays
<1>6. QuotaOK'
  <2>1. /\ quota.total \in Nat /\ quota'.total \in Nat /\ quota'.total <= quota.total
        /\ work.quota.total \in Nat /\ Metered \in Nat /\ Metered' = Metered
        /\ meter.from \in Nodes \union {"none"} /\ Delta(meter.cur, work.cur) \in Nat
        /\ \A d \in Nodes, seen \in Nat : Delta(seen, Count(d)) \in Nat
        /\ meter.cur \in Nat /\ work.cur \in Nat
    BY <1>1, <1>3, CounterTypes, Differences DEF Metered
  <2>2. work.at # "idle" =>
          LET more == Delta(work.cur, Count(work.from))
          IN  /\ quota'.total + more <= Metered
              /\ meter.from \in {"none", work.from} =>
                   quota'.total + Delta(meter.cur, work.cur) + more <= Metered
    <3> HAVE work.at # "idle"
    <3> PICK more \in Nat : more = Delta(work.cur, Count(work.from))
      BY <1>1, <2>1 DEF QuotaOK
    <3>1. /\ quota.total + more <= Metered
          /\ meter.from \in {"none", work.from} =>
               quota.total + Delta(meter.cur, work.cur) + more <= Metered
      BY <1>1 DEF QuotaOK, Room
    <3> QED
      BY <2>1, <3>1
  <2>3. meter.from # "none" => quota'.total + Delta(meter.cur, Count(meter.from)) <= Metered
    <3> HAVE meter.from # "none"
    <3> PICK more \in Nat : more = Delta(meter.cur, Count(meter.from))
      BY <2>1
    <3>1. quota.total + more <= Metered
      BY <1>1 DEF QuotaOK
    <3> QED
      BY <2>1, <3>1
  <2>4. quota'.total <= Metered
    BY <1>1, <2>1 DEF QuotaOK
  <2>5. meter.from = "none" => meter.cur = 0 /\ quota'.total = 0
    BY <1>1, <2>1 DEF QuotaOK
  <2>6. /\ work.at # "idle" => work.from \in Nodes
        /\ work.at \in {"metered", "enforced"} =>
             work.delta = Delta(meter.cur, work.cur) /\ Room(work.quota.total)
    BY <1>1 DEF QuotaOK
  <2> QED
    BY <1>2, <2>1, <2>2, <2>3, <2>4, <2>5, <2>6 DEF QuotaOK, Room, Count
<1>7. ListedOK'
  BY <1>1, <1>3 DEF ListedOK
<1> QED
  BY <1>4, <1>5, <1>6, <1>7 DEF AccountingInv

(* upsert_quota, delete_quota, reset_quota. *)
LEMMA QuotaKeeps ==
    ASSUME AccountingInv, QuotaStep
    PROVE  AccountingInv'
<1>1. /\ AccountingTypeOK /\ hist.patches < MaxPatches /\ quota \in Quotas
      /\ hist.by \in BOOLEAN /\ hist.slipped \in BOOLEAN /\ quota.paused \in BOOLEAN
      /\ UNCHANGED <<trow, move, snap, meter, work, chart>>
      /\ hist.patches \in 0..MaxPatches
  BY DEF AccountingInv, AccountingTypeOK, QuotaStep, UpsertQuota, DeleteQuota, ResetQuota, Patching, Quotas, History
<1>2. NoQuota \in Quotas /\ NoQuota.total = 0
  BY DEF NoQuota, Quotas
<1>3. \A s \in BOOLEAN : [hist EXCEPT !.patches = hist.patches + 1, !.slipped = s]
                           = [hist EXCEPT !.patches = hist.patches + 1, !.by = hist.by, !.slipped = s]
  BY <1>1 DEF AccountingTypeOK
<1>4. ASSUME NEW limit \in Limits, UpsertQuota(limit) PROVE AccountingInv'
  <2>1. /\ quota' = Upserted(limit) /\ peer' = peer
        /\ hist' = [hist EXCEPT !.patches = hist.patches + 1]
    BY <1>4 DEF UpsertQuota
  <2>2. /\ quota' \in Quotas /\ (quota'.total = quota.total \/ quota'.total = 0)
        /\ quota.on => quota'.on /\ quota'.over = quota.over /\ quota'.paused = quota.paused
    BY <1>1, <1>2, <2>1 DEF Upserted, Quotas, NoQuota
  <2>3. hist' = [hist EXCEPT !.patches = hist.patches + 1, !.by = hist.by, !.slipped = hist.slipped]
    BY <1>1, <2>1 DEF AccountingTypeOK
  <2> QED
    BY <1>1, <2>1, <2>2, <2>3, QuotaChanges
<1> DEFINE late == hist.slipped \/ work.at \in {"metered", "enforced"}
<1>5. Overtaken = [hist EXCEPT !.patches = hist.patches + 1, !.slipped = late] /\ late \in BOOLEAN
  BY <1>1 DEF Overtaken
<1>6. ASSUME NEW q \in Quotas, quota' = q, q.total = 0,
             hist' = [Overtaken EXCEPT !.slipped = late \/ quota.paused], peer' = peer
      PROVE AccountingInv'
  <2> PICK s \in BOOLEAN : s <=> late \/ quota.paused
    OBVIOUS
  <2>1. hist' = [hist EXCEPT !.patches = hist.patches + 1, !.slipped = s]
    BY <1>1, <1>5, <1>6 DEF AccountingTypeOK
  <2>2. hist' = [hist EXCEPT !.patches = hist.patches + 1, !.by = hist.by, !.slipped = s]
    BY <1>3, <2>1
  <2> QED
    BY <1>1, <1>6, <2>2, QuotaChanges
<1>7. Overtaken.slipped = late
  BY <1>1, <1>5 DEF AccountingTypeOK
<1>8. ASSUME DeleteQuota PROVE AccountingInv'
  <2>1. quota' = NoQuota /\ peer' = peer
        /\ hist' = [Overtaken EXCEPT !.slipped = Overtaken.slipped \/ quota.paused]
    BY <1>8 DEF DeleteQuota
  <2> HIDE DEF late
  <2> QED
    BY <1>2, <1>6, <1>7, <2>1
<1>9. ASSUME ResetQuota PROVE AccountingInv'
  <2>1. quota' \in Quotas /\ quota'.total = 0
    BY <1>1, <1>9 DEF ResetQuota, Emptied, Quotas
  <2>2. CASE peer' = [peer EXCEPT ![trow.engine].run = TRUE] /\ hist' = [Overtaken EXCEPT !.by = FALSE]
    <3> PICK s \in BOOLEAN : s <=> late
      OBVIOUS
    <3>1. hist' = [hist EXCEPT !.patches = hist.patches + 1, !.by = FALSE, !.slipped = s]
      BY <1>1, <1>5, <2>2 DEF AccountingTypeOK
    <3>2. peer' = [peer EXCEPT ![trow.engine] = [peer[trow.engine] EXCEPT !.run = TRUE]]
      BY <1>1, <2>2 DEF AccountingTypeOK
    <3> QED
      BY <1>1, <2>1, <3>1, <3>2, QuotaChanges
  <2>3. CASE hist' = [Overtaken EXCEPT !.slipped = Overtaken.slipped \/ quota.paused] /\ peer' = peer
    <3> HIDE DEF late
    <3> QED
      BY <1>6, <1>7, <2>1, <2>3
  <2> QED
    BY <1>9, <2>2, <2>3 DEF ResetQuota
<1> QED
  BY <1>4, <1>8, <1>9 DEF QuotaStep

(* A sampling writes the chart only. *)
LEMMA SampleKeeps ==
    ASSUME AccountingInv, Sample
    PROVE  AccountingInv'
<1>1. /\ AccountingTypeOK /\ CountersOK /\ QuotaOK /\ ListedOK /\ MaxSent \in Nat
      /\ UNCHANGED <<peer, trow, move, snap, quota, meter, work, hist>>
  BY AccountingAssumption DEF AccountingInv, Sample
<1> DEFINE Sum == [sampled : BOOLEAN, last : 0..MaxSent, sum : Nat]
<1>2. chart \in [Nodes -> Sum] /\ \A e \in Nodes : peer[e].cnt \in 0..MaxSent
  BY <1>1 DEF AccountingTypeOK, PeerStates
<1>3. \A e \in Nodes, silent \in SUBSET Nodes : Merged(e, silent) \in 0..MaxSent
  BY <1>2 DEF Merged
<1>4. \A s \in Sum, cur \in 0..MaxSent : Sampled(s, cur) \in Sum
  <2> TAKE s \in Sum, cur \in 0..MaxSent
  <2>1. s.last \in 0..MaxSent /\ s.sum \in Nat /\ s.sampled \in BOOLEAN
    OBVIOUS
  <2>2. ChartDelta(s, cur) \in Nat
    BY <1>1, <2>1 DEF ChartDelta
  <2>3. s.sum + ChartDelta(s, cur) \in Nat
    BY <2>1, <2>2
  <2> QED
    BY <2>3 DEF Sampled
<1>5. chart' \in [Nodes -> Sum]
  <2> HIDE DEF Sum
  <2> QED
    BY <1>2, <1>3, <1>4 DEF Sample
<1>6. AccountingTypeOK'
  BY <1>1, <1>5 DEF AccountingTypeOK
<1>7. CountersOK' /\ RowOK' /\ ExactOK'
  BY <1>1, RowStays
<1>8. QuotaOK' /\ ListedOK'
  BY <1>1 DEF QuotaOK, ListedOK, Room, Metered, Count
<1> QED
  BY <1>6, <1>7, <1>8 DEF AccountingInv

LEMMA AccountingStep ==
    ASSUME AccountingInv, [AccountingNext]_accountingVars
    PROVE  AccountingInv'
<1>1. CASE UNCHANGED accountingVars
  <2>1. AccountingTypeOK' /\ CountersOK' /\ RowOK' /\ ExactOK'
    BY <1>1, RowStays DEF accountingVars, AccountingInv, AccountingTypeOK
  <2>2. QuotaOK' /\ ListedOK'
    BY <1>1 DEF accountingVars, AccountingInv, QuotaOK, ListedOK, Room, Metered, Count
  <2> QED
    BY <2>1, <2>2 DEF AccountingInv
<1>2. ASSUME NEW e \in Nodes, EngineMoves(e) PROVE AccountingInv'
  BY <1>2, EngineKeeps, MoveBeginKeeps, SwitchKeeps DEF EngineMoves
<1>3. ASSUME WorkerStep PROVE AccountingInv'
  BY <1>3, FetchKeeps, ReadMeterKeeps, PauseKeeps, CommitRound, FailsKeeps DEF WorkerStep
<1> QED
  BY <1>1, <1>2, <1>3, MoveEndKeeps, SnapshotKeeps, QuotaKeeps, SampleKeeps DEF AccountingNext

(* The counters, the row, the quota and the samples keep their types.      *)
THEOREM AccountingTypes == AccountingSpec => []AccountingTypeOK
<1>1. AccountingInv => AccountingTypeOK
  BY DEF AccountingInv
<1> QED
  BY <1>1, AccountingStarts, AccountingStep, PTL DEF AccountingSpec

LEMMA CountedSays == AccountingInv => CountedOnce
<1> SUFFICES ASSUME AccountingInv PROVE CountedOnce
  OBVIOUS
<1>1. /\ AccountingTypeOK /\ CountersOK /\ RowOK /\ ExactOK /\ QuotaOK
  BY DEF AccountingInv
<1>2. ~hist.back => trow.total <= hist.sent + hist.again
  <2> SUFFICES ASSUME ~hist.back PROVE trow.total <= hist.sent + hist.again
    OBVIOUS
  <2>1. \E more \in Nat : trow.total + more <= hist.sent + hist.again
    <3> PICK x \in Nodes : x = trow.engine
      BY <1>1, CounterTypes
    <3> PICK y : y = snap.row.engine
      OBVIOUS
    <3>1. /\ trow.total \in Nat /\ Target \in Nat /\ Delta(trow.seen, Count(x)) \in Nat
          /\ Count(x) \in Nat /\ Delta(snap.row.seen, snap.cur) \in Nat
          /\ Delta(snap.cur, Count(x)) \in Nat
          /\ snap.at \in {"idle", "rows", "asked"}
          /\ snap.at # "idle" => y \in Nodes /\ Delta(snap.row.seen, Count(y)) \in Nat
      <4>1. /\ trow.total \in Nat /\ Target \in Nat /\ trow.seen \in Nat /\ snap.row.seen \in Nat
            /\ snap.cur \in Nat /\ \A d \in Nodes : Count(d) \in Nat
        BY <1>1, CounterTypes
      <4>2. \A a, b \in Nat : Delta(a, b) \in Nat
        BY DEF Delta
      <4> QED
        BY <1>1, <4>1, <4>2 DEF CountersOK, AccountingTypeOK
    <3>2. CASE snap.at = "idle" \/ (snap.at = "rows" /\ y = x)
      <4>1. trow.total + (Delta(trow.seen, Count(x)) + Target) <= hist.sent + hist.again
        BY <1>1, <3>1, <3>2 DEF RowOK
      <4> QED
        BY <3>1, <4>1
    <3>3. CASE snap.at = "rows" /\ y # x
      <4>1. trow.total + (Delta(snap.row.seen, Count(y)) + Count(x) + Target) <= hist.sent + hist.again
        BY <1>1, <3>1, <3>3 DEF RowOK
      <4> QED
        BY <3>1, <3>3, <4>1
    <3>4. CASE snap.at = "asked"
      <4>1. trow.total + (Delta(snap.row.seen, snap.cur) + Delta(snap.cur, Count(x)) + Target)
              <= hist.sent + hist.again
        BY <1>1, <3>1, <3>4 DEF RowOK
      <4> QED
        BY <3>1, <4>1
    <3> QED
      BY <3>1, <3>2, <3>3, <3>4
  <2> QED
    BY <1>1, <2>1, CounterTypes
<1> QED
  BY <1>1, <1>2 DEF CountedOnce, ExactOK, QuotaOK, Metered

(* Every byte is counted once in the total of the row, however snapshots,  *)
(* transfers and crashes fall together, and the quota counts no more.      *)
THEOREM BytesCountedOnce == AccountingSpec => []CountedOnce
<1> QED
  BY CountedSays, AccountingStarts, AccountingStep, PTL DEF AccountingSpec

(* A torrent that a quota paused is on the list of the quota, so that a    *)
(* reset resumes it.                                                       *)
THEOREM PausedIsListed == AccountingSpec => []PauseIsListed
<1>1. AccountingInv => PauseIsListed
  BY DEF AccountingInv, ListedOK, PauseIsListed
<1> QED
  BY <1>1, AccountingStarts, AccountingStep, PTL DEF AccountingSpec

-----------------------------------------------------------------------------
(* What the chart counts.                                                  *)

(* Induction over the natural numbers, for a set of them.                 *)
LEMMA NatSetInduction ==
  ASSUME NEW A, 0 \in A, \A n \in Nat : n \in A => n + 1 \in A
  PROVE  Nat \subseteq A
<1> DEFINE T == Nat \ A
<1> SUFFICES ASSUME T # {} PROVE FALSE
  OBVIOUS
<1>1. \E x \in T : \A y \in T : ~(<<y, x>> \in OpToRel(<, Nat))
  <2>1. IsWellFoundedOn(OpToRel(<, Nat), Nat) /\ T \subseteq Nat
    BY NatLessThanWellFounded
  <2> HIDE DEF T
  <2> QED
    BY <2>1, WFMin
<1>2. PICK x \in T : \A y \in T : ~(y < x)
  BY <1>1 DEF OpToRel
<1>3. x # 0 /\ x - 1 \in Nat /\ x - 1 \notin A
  BY <1>2
<1> QED
  BY <1>2, <1>3

(* Sums over the engines, which the chart adds up.  MapThenSumSet takes    *)
(* one engine after the other out of the set; what holds of the empty set, *)
(* and of a set when it holds without the engine taken, holds of all.      *)
Some(s) == CHOOSE e \in s : TRUE

LEMMA NodesInduction ==
    ASSUME NEW A, {} \in A,
           \A s \in SUBSET Nodes : s # {} /\ s \ {Some(s)} \in A => s \in A
    PROVE  SUBSET Nodes \subseteq A
<1> DEFINE T == (SUBSET Nodes) \ A
           Less == StrictSubsetOrdering(Nodes)
<1>1. \A s \in SUBSET Nodes : IsFiniteSet(s)
  BY AccountingAssumption, FS_Subset
<1>2. IsWellFoundedOn(Less, FiniteSubsetsOf(Nodes)) /\ T \subseteq FiniteSubsetsOf(Nodes)
  BY <1>1, FS_StrictSubsetOrderingWellFounded DEF FiniteSubsetsOf
<1> SUFFICES ASSUME T # {} PROVE FALSE
  OBVIOUS
<1>3. \E s \in T : \A r \in T : ~(<<r, s>> \in Less)
  <2> HIDE DEF T, Less
  <2> QED
    BY <1>2, WFMin
<1>4. PICK s \in T : \A r \in T : ~(r \subseteq s /\ r # s)
  BY <1>3 DEF StrictSubsetOrdering
<1>5. s # {} /\ Some(s) \in s
  BY DEF Some
<1>6. s \ {Some(s)} \in SUBSET Nodes /\ s \ {Some(s)} \subseteq s /\ s \ {Some(s)} # s
  BY <1>5
<1> QED
  BY <1>4, <1>5, <1>6

(* t sums up w.                                                            *)
Sums(t, w) ==
    t = [s \in SUBSET Nodes |-> IF s = {} THEN 0 ELSE w[Some(s)] + t[s \ {Some(s)}]]
Total(w) == MapThenSumSet(LAMBDA e : w[e], Nodes)

LEMMA SumExists ==
    ASSUME NEW w \in [Nodes -> Nat]
    PROVE  \E t \in [SUBSET Nodes -> Nat] : Sums(t, w)
<1> DEFINE Small(m) == {s \in SUBSET Nodes : Cardinality(s) <= m}
           next(t, s) == IF s = {} THEN 0 ELSE w[Some(s)] + t[s \ {Some(s)}]
           Has(m) == \E t \in [SUBSET Nodes -> Nat] : \A s \in Small(m) : t[s] = next(t, s)
           A == {m \in Nat : Has(m)}
<1>1. \A s \in SUBSET Nodes : IsFiniteSet(s) /\ Cardinality(s) \in Nat
  BY AccountingAssumption, FS_Subset, FS_CardinalityType
<1>2. ASSUME NEW s \in SUBSET Nodes, s # {}
      PROVE  /\ Some(s) \in Nodes /\ s \ {Some(s)} \in SUBSET Nodes
             /\ Cardinality(s \ {Some(s)}) = Cardinality(s) - 1
  <2>1. Some(s) \in s
    BY <1>2 DEF Some
  <2> QED
    BY <1>1, <2>1, FS_RemoveElement
<1>3. Has(0)
  <2> DEFINE t == [s \in SUBSET Nodes |-> 0]
  <2>1. \A s \in Small(0) : s = {}
    BY <1>1, FS_EmptySet
  <2>2. t \in [SUBSET Nodes -> Nat] /\ \A s \in Small(0) : t[s] = next(t, s)
    BY <2>1
  <2> QED
    BY <2>2
<1>4. ASSUME NEW m \in Nat, Has(m)
      PROVE  Has(m + 1)
  <2>1. PICK t \in [SUBSET Nodes -> Nat] : \A s \in Small(m) : t[s] = next(t, s)
    BY <1>4
  <2>2. ASSUME NEW s \in SUBSET Nodes
        PROVE  next(t, s) \in Nat
    <3>1. CASE s = {}
      BY <3>1
    <3>2. CASE s # {}
      <4>1. PICK e \in Nodes, r \in SUBSET Nodes : e = Some(s) /\ r = s \ {Some(s)}
        BY <1>2, <3>2
      <4>2. w[e] \in Nat /\ t[r] \in Nat
        OBVIOUS
      <4> QED
        BY <3>2, <4>1, <4>2
    <3> QED
      BY <3>1, <3>2
  <2> DEFINE u == [s \in SUBSET Nodes |-> next(t, s)]
  <2>3. u \in [SUBSET Nodes -> Nat]
    <3> HIDE DEF next
    <3> QED
      BY <2>2
  <2>4. ASSUME NEW s \in Small(m + 1)
        PROVE  u[s] = next(u, s)
    <3>1. u[s] = next(t, s)
      OBVIOUS
    <3>2. CASE s = {}
      BY <3>1, <3>2
    <3>3. CASE s # {}
      <4>1. s \ {Some(s)} \in Small(m)
        BY <1>1, <1>2, <3>3
      <4>2. u[s \ {Some(s)}] = t[s \ {Some(s)}]
        BY <2>1, <4>1
      <4> QED
        BY <3>1, <3>3, <4>2
    <3> QED
      BY <3>2, <3>3
  <2> HIDE DEF u, next
  <2> QED
    BY <2>3, <2>4
<1>5. Has(Cardinality(Nodes))
  <2> HIDE DEF Has
  <2>1. 0 \in A
    BY <1>3
  <2>2. ASSUME NEW m \in Nat, m \in A PROVE m + 1 \in A
    BY <1>4, <2>2
  <2> HIDE DEF A
  <2>3. Nat \subseteq A
    BY <2>1, <2>2, NatSetInduction
  <2>4. Cardinality(Nodes) \in A
    BY <1>1, <2>3
  <2> QED
    BY <2>4 DEF A
<1>6. \A s \in SUBSET Nodes : s \in Small(Cardinality(Nodes))
  BY AccountingAssumption, FS_Subset
<1>7. PICK t \in [SUBSET Nodes -> Nat] : \A s \in SUBSET Nodes : t[s] = next(t, s)
  BY <1>5, <1>6
<1>8. t = [s \in SUBSET Nodes |-> t[s]]
  OBVIOUS
<1> HIDE DEF next
<1>9. t = [s \in SUBSET Nodes |-> next(t, s)]
  BY <1>7, <1>8
<1> QED
  BY <1>9 DEF Sums, next

LEMMA TotalSums ==
    ASSUME NEW w \in [Nodes -> Nat]
    PROVE  \E t : /\ Total(w) = t[Nodes] /\ t[{}] = 0
                  /\ \A s \in SUBSET Nodes : t[s] \in Nat
                  /\ \A s \in SUBSET Nodes : s # {} => t[s] = w[Some(s)] + t[s \ {Some(s)}]
<1> DEFINE t == CHOOSE u : Sums(u, w)
<1>1. Total(w) = t[Nodes]
  BY DEF Total, MapThenSumSet, MapThenFoldSet, Sums, Some
<1>2. Sums(t, w)
  BY SumExists
<1> HIDE DEF t
<1>3. \A s \in SUBSET Nodes : t[s] = IF s = {} THEN 0 ELSE w[Some(s)] + t[s \ {Some(s)}]
  BY <1>2 DEF Sums
<1>4. t[{}] = 0
  <2>1. {} \in SUBSET Nodes
    OBVIOUS
  <2> QED
    BY <1>3, <2>1
<1> DEFINE A == {s \in SUBSET Nodes : t[s] \in Nat}
<1>5. {} \in A
  BY <1>4
<1>6. ASSUME NEW s \in SUBSET Nodes, s # {}, s \ {Some(s)} \in A
      PROVE  s \in A
  <2>1. Some(s) \in Nodes
    BY <1>6 DEF Some
  <2> QED
    BY <1>3, <1>6, <2>1
<1>7. SUBSET Nodes \subseteq A
  <2> HIDE DEF A
  <2> QED
    BY <1>5, <1>6, NodesInduction
<1>8. \A s \in SUBSET Nodes : t[s] \in Nat
  BY <1>7
<1> QED
  BY <1>1, <1>3, <1>8, <1>4

(* A sum grows by what one of its engines grows by.                        *)
LEMMA TotalGrows ==
    ASSUME NEW w \in [Nodes -> Nat], NEW v \in [Nodes -> Nat], NEW x, NEW d \in Nat,
           \A e \in Nodes : v[e] <= w[e] + (IF e = x THEN d ELSE 0)
    PROVE  Total(w) \in Nat /\ Total(v) \in Nat /\ Total(v) <= Total(w) + d
<1>1. PICK t : /\ Total(w) = t[Nodes] /\ t[{}] = 0
               /\ \A s \in SUBSET Nodes : t[s] \in Nat
               /\ \A s \in SUBSET Nodes : s # {} => t[s] = w[Some(s)] + t[s \ {Some(s)}]
  BY TotalSums
<1>2. PICK u : /\ Total(v) = u[Nodes] /\ u[{}] = 0
               /\ \A s \in SUBSET Nodes : u[s] \in Nat
               /\ \A s \in SUBSET Nodes : s # {} => u[s] = v[Some(s)] + u[s \ {Some(s)}]
  BY TotalSums
<1> DEFINE A == {s \in SUBSET Nodes : u[s] <= t[s] + (IF x \in s THEN d ELSE 0)}
<1>3. {} \in A
  BY <1>1, <1>2
<1>4. ASSUME NEW s \in SUBSET Nodes, s # {}, s \ {Some(s)} \in A
      PROVE  s \in A
  <2>1. PICK e \in Nodes : e = Some(s) /\ e \in s
    BY <1>4 DEF Some
  <2>2. PICK r \in SUBSET Nodes : r = s \ {e}
    OBVIOUS
  <2>3. u[r] <= t[r] + (IF x \in r THEN d ELSE 0)
    BY <1>4, <2>1, <2>2
  <2>4. u[s] = v[e] + u[r] /\ t[s] = w[e] + t[r]
    BY <1>1, <1>2, <1>4, <2>1, <2>2
  <2>5. u[r] \in Nat /\ t[r] \in Nat /\ v[e] \in Nat /\ w[e] \in Nat
    BY <1>1, <1>2
  <2>6. v[e] <= w[e] + (IF e = x THEN d ELSE 0)
    OBVIOUS
  <2>7. u[s] <= t[s] + (IF x \in s THEN d ELSE 0)
    <3>1. CASE x = e
      BY <2>1, <2>2, <2>3, <2>4, <2>5, <2>6, <3>1
    <3>2. CASE x # e
      BY <2>1, <2>2, <2>3, <2>4, <2>5, <2>6, <3>2
    <3> QED
      BY <3>1, <3>2
  <2> QED
    BY <2>7
<1>5. Nodes \in A
  <2>1. SUBSET Nodes \subseteq A
    <3> HIDE DEF A
    <3> QED
      BY <1>3, <1>4, NodesInduction
  <2> QED
    BY <2>1
<1>6. u[Nodes] \in Nat /\ t[Nodes] \in Nat
  BY <1>1, <1>2
<1> QED
  BY <1>1, <1>2, <1>5, <1>6

(* A sum of nothing is 0.                                                  *)
LEMMA TotalZero ==
    ASSUME NEW w \in [Nodes -> Nat], \A e \in Nodes : w[e] = 0
    PROVE  Total(w) = 0
<1>1. PICK t : /\ Total(w) = t[Nodes] /\ t[{}] = 0
               /\ \A s \in SUBSET Nodes : t[s] \in Nat
               /\ \A s \in SUBSET Nodes : s # {} => t[s] = w[Some(s)] + t[s \ {Some(s)}]
  BY TotalSums
<1> DEFINE A == {s \in SUBSET Nodes : t[s] = 0}
<1>2. {} \in A
  BY <1>1
<1>3. ASSUME NEW s \in SUBSET Nodes, s # {}, s \ {Some(s)} \in A
      PROVE  s \in A
  <2>1. PICK e \in Nodes, r \in SUBSET Nodes : e = Some(s) /\ r = s \ {Some(s)}
    BY <1>3 DEF Some
  <2>2. w[e] = 0 /\ t[r] = 0 /\ t[s] = w[e] + t[r]
    BY <1>1, <1>3, <2>1
  <2> QED
    BY <2>2
<1>4. SUBSET Nodes \subseteq A
  <2> HIDE DEF A
  <2> QED
    BY <1>2, <1>3, NodesInduction
<1> QED
  BY <1>1, <1>4

(* What the chart sums up.                                                 *)
LEMMA ChartTotal ==
    ASSUME NEW w \in [Nodes -> Nat], \A e \in Nodes : w[e] = chart[e].sum
    PROVE  MapThenSumSet(LAMBDA e : chart[e].sum, Nodes) = Total(w)
<1> DEFINE u == CHOOSE t : t = [s \in SUBSET Nodes |->
                             IF s = {} THEN 0 ELSE chart[Some(s)].sum + t[s \ {Some(s)}]]
<1>1. MapThenSumSet(LAMBDA e : chart[e].sum, Nodes) = u[Nodes]
  BY DEF MapThenSumSet, MapThenFoldSet, Some
<1>2. PICK v : Sums(v, w)
  BY SumExists
<1>3. v = [s \in SUBSET Nodes |-> IF s = {} THEN 0 ELSE chart[Some(s)].sum + v[s \ {Some(s)}]]
  <2>1. \A s \in SUBSET Nodes : s # {} => w[Some(s)] = chart[Some(s)].sum
    BY DEF Some
  <2> QED
    BY <1>2, <2>1 DEF Sums
<1>4. u = [s \in SUBSET Nodes |-> IF s = {} THEN 0 ELSE chart[Some(s)].sum + u[s \ {Some(s)}]]
  BY <1>3
<1> HIDE DEF u
<1>5. \A s \in SUBSET Nodes : u[s] = IF s = {} THEN 0 ELSE chart[Some(s)].sum + u[s \ {Some(s)}]
  BY <1>4
<1>6. PICK t : /\ Total(w) = t[Nodes] /\ t[{}] = 0
               /\ \A s \in SUBSET Nodes : t[s] \in Nat
               /\ \A s \in SUBSET Nodes : s # {} => t[s] = w[Some(s)] + t[s \ {Some(s)}]
  BY TotalSums
<1> DEFINE A == {s \in SUBSET Nodes : t[s] = u[s]}
<1>7. {} \in A
  BY <1>5, <1>6
<1>8. ASSUME NEW s \in SUBSET Nodes, s # {}, s \ {Some(s)} \in A
      PROVE  s \in A
  <2>1. Some(s) \in Nodes
    BY <1>8 DEF Some
  <2> QED
    BY <1>5, <1>6, <1>8, <2>1
<1>9. SUBSET Nodes \subseteq A
  <2> HIDE DEF A
  <2> QED
    BY <1>7, <1>8, NodesInduction
<1> QED
  BY <1>1, <1>6, <1>9

(* What the next samples of an engine may add to its sum.                  *)
Due(e) == IF chart[e].sampled /\ chart[e].last < Count(e) THEN Count(e) - chart[e].last ELSE 0

(* ChartIsSent is not inductive: what was sent divides into the engines'   *)
(* shares, in which what the chart has counted and what the next samples   *)
(* may add have room.                                                      *)
ChartOK ==
    \E w \in [Nodes -> Nat] :
        Total(w) <= hist.sent /\ \A e \in Nodes : chart[e].sum + Due(e) <= w[e]

LEMMA ChartTypes ==
    ASSUME AccountingTypeOK, NEW e \in Nodes
    PROVE  /\ chart[e].sum \in Nat /\ chart[e].last \in Nat /\ chart[e].sampled \in BOOLEAN
           /\ Count(e) \in Nat /\ Due(e) \in Nat
<1>1. /\ chart[e].sum \in Nat /\ chart[e].last \in Nat /\ chart[e].sampled \in BOOLEAN
      /\ Count(e) \in Nat
  BY AccountingAssumption DEF AccountingTypeOK, PeerStates, Count
<1> QED
  BY <1>1 DEF Due

LEMMA ChartStarts == AccountingInit => ChartOK
<1> SUFFICES ASSUME AccountingInit PROVE ChartOK
  OBVIOUS
<1> DEFINE w == [e \in Nodes |-> 0]
<1>1. \A e \in Nodes : chart[e].sum = 0 /\ Due(e) = 0
  BY DEF AccountingInit, Due
<1>2. w \in [Nodes -> Nat] /\ \A e \in Nodes : w[e] = 0
  OBVIOUS
<1> HIDE DEF w
<1>3. Total(w) = 0
  BY <1>2, TotalZero
<1> QED
  BY <1>1, <1>2, <1>3 DEF ChartOK, AccountingInit

(* One engine's share grows by what it sends; the others' suffice.         *)
LEMMA ChartStays ==
    ASSUME AccountingTypeOK, ChartOK, NEW x, NEW d \in Nat, hist'.sent = hist.sent + d,
           \A e \in Nodes : (chart[e].sum + Due(e))' <= chart[e].sum + Due(e) + (IF e = x THEN d ELSE 0),
           \A e \in Nodes : (chart[e].sum + Due(e))' \in Nat
    PROVE  ChartOK'
<1>1. PICK w \in [Nodes -> Nat] :
        Total(w) <= hist.sent /\ \A e \in Nodes : chart[e].sum + Due(e) <= w[e]
  BY DEF ChartOK
<1> DEFINE v == [e \in Nodes |-> w[e] + (IF e = x THEN d ELSE 0)]
<1>2. v \in [Nodes -> Nat] /\ \A e \in Nodes : v[e] = w[e] + (IF e = x THEN d ELSE 0)
  OBVIOUS
<1> HIDE DEF v
<1>3. Total(v) \in Nat /\ Total(w) \in Nat /\ Total(v) <= Total(w) + d
  <2>1. \A e \in Nodes : v[e] <= w[e] + (IF e = x THEN d ELSE 0)
    <3>1. ASSUME NEW e \in Nodes
          PROVE  v[e] <= w[e] + (IF e = x THEN d ELSE 0)
      <4>1. v[e] = w[e] + (IF e = x THEN d ELSE 0) /\ v[e] \in Nat
        BY <1>2
      <4> QED
        BY <4>1
    <3> QED
      BY <3>1
  <2> QED
    BY <1>2, <2>1, TotalGrows
<1>4. Total(v) <= hist'.sent
  BY <1>1, <1>3, AccountingAssumption DEF AccountingTypeOK, History
<1>5. ASSUME NEW e \in Nodes
      PROVE  (chart[e].sum + Due(e))' <= v[e]
  <2>1. PICK a \in Nat, b \in Nat, c \in Nat : a = chart[e].sum + Due(e) /\ b = (chart[e].sum + Due(e))' /\ c = w[e]
    BY ChartTypes
  <2>2. a <= c
    BY <1>1, <2>1
  <2>3. b <= a + (IF e = x THEN d ELSE 0)
    BY <2>1
  <2>4. v[e] = c + (IF e = x THEN d ELSE 0)
    BY <1>2, <2>1
  <2>5. b <= v[e]
    BY <2>2, <2>3, <2>4
  <2> QED
    BY <2>1, <2>5
<1>6. \E u \in [Nodes -> Nat] :
        Total(u) <= hist'.sent /\ \A e \in Nodes : (chart[e].sum + Due(e))' <= u[e]
  BY <1>2, <1>4, <1>5
<1> QED
  BY <1>6 DEF ChartOK

(* Counters that do not grow leave no more to sample.                      *)
LEMMA CountersFall ==
    ASSUME AccountingTypeOK, AccountingTypeOK', ChartOK, chart' = chart, NEW x, NEW d \in Nat,
           hist'.sent = hist.sent + d,
           \A e \in Nodes : Count(e)' <= Count(e) + (IF e = x THEN d ELSE 0)
    PROVE  ChartOK'
<1>1. ASSUME NEW e \in Nodes
      PROVE  /\ (chart[e].sum + Due(e))' \in Nat
             /\ (chart[e].sum + Due(e))' <= chart[e].sum + Due(e) + (IF e = x THEN d ELSE 0)
  <2>1. /\ chart[e].sum \in Nat /\ chart[e].last \in Nat /\ chart[e].sampled \in BOOLEAN /\ Count(e) \in Nat
    BY ChartTypes
  <2>2. Count(e)' \in Nat
    BY AccountingAssumption DEF AccountingTypeOK, PeerStates, Count
  <2>3. Count(e)' <= Count(e) + (IF e = x THEN d ELSE 0)
    OBVIOUS
  <2>4. PICK a \in Nat, b \in Nat : a = Count(e) /\ b = Count(e)'
    BY <2>1, <2>2
  <2>5. /\ Due(e) = IF chart[e].sampled /\ chart[e].last < a THEN a - chart[e].last ELSE 0
        /\ Due(e)' = IF chart[e].sampled /\ chart[e].last < b THEN b - chart[e].last ELSE 0
    BY <2>4 DEF Due
  <2>6. Due(e) \in Nat /\ Due(e)' \in Nat /\ Due(e)' <= Due(e) + (IF e = x THEN d ELSE 0)
    BY <2>1, <2>3, <2>4, <2>5
  <2> QED
    BY <2>1, <2>6
<1> QED
  BY <1>1, ChartStays

(* The counters of the engines in a step that is no sampling.              *)
LEMMA CountersStep ==
    ASSUME AccountingInv, AccountingTypeOK', ChartOK, [AccountingNext]_accountingVars, ~Sample
    PROVE  ChartOK'
<1>1. /\ AccountingTypeOK /\ hist.sent \in Nat
      /\ \A e \in Nodes : Count(e) \in Nat /\ peer[e].saved <= Count(e) /\ peer[e].saved \in Nat
      /\ trow.engine \in Nodes
  BY AccountingAssumption DEF AccountingInv, CountersOK, AccountingTypeOK, History, Count, PeerStates, TotalRows
<1>2. peer = [e \in Nodes |-> peer[e]] /\ \A e \in Nodes : peer[e] = [peer[e] EXCEPT !.cnt = Count(e)]
  BY <1>1 DEF AccountingTypeOK, PeerStates, Count
<1>3. Here.cnt = 0 /\ Away.cnt = 0
  BY DEF Here, Away
<1>4. ASSUME NEW x \in Nodes, Upload(x)
      PROVE  ChartOK'
  <2>1. hist'.sent = hist.sent + 1 /\ chart' = chart
    BY <1>1, <1>4 DEF Upload, AccountingTypeOK, History
  <2>2. \A e \in Nodes : Count(e)' <= Count(e) + (IF e = x THEN 1 ELSE 0)
    BY <1>1, <1>2, <1>4 DEF Upload, Count
  <2> QED
    BY <1>1, <2>1, <2>2, CountersFall
<1>5. ASSUME hist'.sent = hist.sent, chart' = chart, \A e \in Nodes : Count(e)' <= Count(e)
      PROVE  ChartOK'
  <2>1. hist'.sent = hist.sent + 0
    BY <1>1, <1>5
  <2>2. \A e \in Nodes : Count(e)' <= Count(e) + (IF e = "none" THEN 0 ELSE 0)
    BY <1>1, <1>5
  <2> QED
    BY <1>1, <1>5, <2>1, <2>2, CountersFall
<1>6. ASSUME NEW x \in Nodes, SaveCounter(x) \/ EngineDies(x) \/ MoveBegin(x)
      PROVE  ChartOK'
  <2>1. hist'.sent = hist.sent /\ chart' = chart
    BY <1>1, <1>6 DEF SaveCounter, EngineDies, MoveBegin, AccountingTypeOK, History
  <2>2. \A e \in Nodes : Count(e)' <= Count(e)
    <3>1. CASE SaveCounter(x)
      BY <1>1, <1>2, <3>1 DEF SaveCounter, Count
    <3>2. CASE EngineDies(x)
      BY <1>1, <1>2, <3>2 DEF EngineDies, Count
    <3>3. CASE MoveBegin(x)
      <4>1. PICK y \in Nodes : y = trow.engine
        BY <1>1
      <4>2. peer' = [peer EXCEPT ![y] = [peer[y] EXCEPT !.run = FALSE], ![x] = Here] /\ x # y
        BY <3>3, <4>1 DEF MoveBegin
      <4> DEFINE rested == [peer[y] EXCEPT !.run = FALSE]
      <4>3. rested.cnt = peer[y].cnt
        BY <1>2, <4>1
      <4>4. peer' = [peer EXCEPT ![y] = rested, ![x] = Here]
        BY <4>2
      <4> HIDE DEF rested
      <4>5. peer'[x] = Here /\ peer'[y] = rested /\ \A e \in Nodes : e # x /\ e # y => peer'[e] = peer[e]
        BY <1>2, <4>2, <4>4
      <4> QED
        BY <1>1, <1>3, <4>3, <4>5 DEF Count
    <3> QED
      BY <1>6, <3>1, <3>2, <3>3
  <2> QED
    BY <1>5, <2>1, <2>2
<1>7. ASSUME peer' = peer, hist'.sent = hist.sent, chart' = chart
      PROVE  ChartOK'
  BY <1>1, <1>5, <1>7 DEF Count
<1>8. ASSUME NEW x \in Nodes, UpdateEngine(x)
      PROVE  ChartOK'
  BY <1>1, <1>7, <1>8 DEF UpdateEngine, AccountingTypeOK, History
<1>9. CASE MoveEnd
  <2>1. \A e \in Nodes : Count(e)' <= Count(e)
    BY <1>1, <1>3, <1>9 DEF MoveEnd, Count
  <2> QED
    BY <1>5, <1>9, <2>1 DEF MoveEnd
<1>10. CASE SnapshotStep
  BY <1>7, <1>10 DEF SnapshotStep, SnapshotRows, SnapshotAsk, SnapshotWrite
<1>11. CASE WorkerStep
  <2>1. hist'.sent = hist.sent /\ chart' = chart
    BY <1>1, <1>11 DEF WorkerStep, WorkerFetch, WorkerRead, WorkerPause, WorkerCommit, WorkerFails,
                       AccountingTypeOK, History
  <2>2. CASE peer' = peer
    BY <1>7, <2>1, <2>2
  <2>3. CASE WorkerPause
    <3>1. \A e \in Nodes : Count(e)' <= Count(e)
      <4>1. CASE peer' = peer
        BY <1>1, <4>1 DEF Count
      <4>2. CASE peer' # peer
        <5>1. PICK y \in Nodes : y = trow.engine
          BY <1>1
        <5>2. peer' = [peer EXCEPT ![y].run = FALSE]
          BY <2>3, <4>2, <5>1 DEF WorkerPause
        <5>3. \A e \in Nodes : peer'[e].cnt = peer[e].cnt
          BY <1>2, <5>2
        <5> QED
          BY <1>1, <5>3 DEF Count
      <4> QED
        BY <4>1, <4>2
    <3> QED
      BY <1>5, <2>1, <3>1
  <2> QED
    BY <1>11, <2>2, <2>3 DEF WorkerStep, WorkerFetch, WorkerRead, WorkerCommit, WorkerFails
<1>12. CASE QuotaStep
  <2>1. hist'.sent = hist.sent /\ chart' = chart
    BY <1>1, <1>12 DEF QuotaStep, UpsertQuota, DeleteQuota, ResetQuota, Overtaken, AccountingTypeOK, History
  <2>2. CASE peer' = peer
    BY <1>7, <2>1, <2>2
  <2>3. CASE ResetQuota
    <3>1. \A e \in Nodes : Count(e)' <= Count(e)
      <4>1. CASE peer' = peer
        BY <1>1, <4>1 DEF Count
      <4>2. CASE peer' # peer
        <5>1. PICK y \in Nodes : y = trow.engine
          BY <1>1
        <5>2. peer' = [peer EXCEPT ![y].run = TRUE]
          BY <2>3, <4>2, <5>1 DEF ResetQuota
        <5>3. \A e \in Nodes : peer'[e].cnt = peer[e].cnt
          BY <1>2, <5>2
        <5> QED
          BY <1>1, <5>3 DEF Count
      <4> QED
        BY <4>1, <4>2
    <3> QED
      BY <1>5, <2>1, <3>1
  <2> QED
    BY <1>12, <2>2, <2>3 DEF QuotaStep, UpsertQuota, DeleteQuota
<1>13. CASE UNCHANGED accountingVars
  BY <1>7, <1>13 DEF accountingVars
<1> QED
  BY <1>4, <1>6, <1>8, <1>9, <1>10, <1>11, <1>12, <1>13 DEF AccountingNext, EngineMoves

(* A sampling counts what was due, or nothing.                             *)
LEMMA SampleCounts ==
    ASSUME AccountingInv, AccountingTypeOK', ChartOK, Sample
    PROVE  ChartOK'
<1>1. AccountingTypeOK /\ hist.sent \in Nat
  BY AccountingAssumption DEF AccountingInv, AccountingTypeOK, History
<1>2. PICK silent \in SUBSET Nodes :
        chart' = [e \in Nodes |-> IF e \in silent /\ ~chart[e].sampled THEN chart[e]
                                  ELSE Sampled(chart[e], Merged(e, silent))]
  BY DEF Sample
<1>3. hist' = hist /\ peer' = peer
  BY DEF Sample
<1>4. ASSUME NEW e \in Nodes
      PROVE  /\ (chart[e].sum + Due(e))' \in Nat
             /\ (chart[e].sum + Due(e))' <= chart[e].sum + Due(e)
  <2>1. /\ chart[e].sum \in Nat /\ chart[e].last \in Nat /\ chart[e].sampled \in BOOLEAN
        /\ Count(e) \in Nat /\ Due(e) \in Nat /\ Count(e)' = Count(e) /\ peer[e].cnt = Count(e)
    BY <1>1, <1>3, ChartTypes DEF Count
  <2>2. CASE chart'[e] = chart[e]
    BY <2>1, <2>2 DEF Due
  <2>3. CASE chart'[e] = Sampled(chart[e], Merged(e, silent)) /\ ~(e \in silent /\ ~chart[e].sampled)
    <3>1. PICK cur : cur = Merged(e, silent)
      OBVIOUS
    <3>2. /\ chart'[e].sampled /\ chart'[e].last = cur
          /\ chart'[e].sum = chart[e].sum + ChartDelta(chart[e], cur)
      BY <2>3, <3>1 DEF Sampled
    <3>3. CASE cur = Count(e)
      <4>1. Due(e)' = 0
        BY <2>1, <3>2, <3>3 DEF Due
      <4>2. ChartDelta(chart[e], cur) \in Nat /\ ChartDelta(chart[e], cur) <= Due(e)
        BY <2>1, <3>3, AccountingAssumption DEF ChartDelta, Due
      <4> QED
        BY <2>1, <3>2, <4>1, <4>2
    <3>4. CASE cur = chart[e].last /\ (chart[e].sampled \/ Count(e) = 0)
      <4>1. ChartDelta(chart[e], cur) = 0
        BY <2>1, <3>4, AccountingAssumption DEF ChartDelta
      <4>2. Due(e)' \in Nat /\ Due(e)' <= Due(e)
        BY <2>1, <3>2, <3>4 DEF Due
      <4> QED
        BY <2>1, <3>2, <4>1, <4>2
    <3> QED
      BY <2>1, <2>3, <3>1, <3>3, <3>4 DEF Merged
  <2> QED
    BY <1>2, <2>2, <2>3
<1>5. \A e \in Nodes : /\ (chart[e].sum + Due(e))' \in Nat
                       /\ (chart[e].sum + Due(e))' <= chart[e].sum + Due(e) + (IF e = "none" THEN 0 ELSE 0)
  <2>1. \A e \in Nodes : chart[e].sum + Due(e) \in Nat
    BY <1>1, ChartTypes
  <2> QED
    BY <1>4, <2>1
<1>6. hist'.sent = hist.sent + 0
  BY <1>1, <1>3
<1> QED
  BY <1>1, <1>5, <1>6, ChartStays

(* Both invariants under every step, and what they say of the chart.       *)
LEMMA ChartStep ==
    AccountingInv /\ ChartOK /\ [AccountingNext]_accountingVars => (AccountingInv /\ ChartOK)'
<1> SUFFICES ASSUME AccountingInv, ChartOK, [AccountingNext]_accountingVars
             PROVE  (AccountingInv /\ ChartOK)'
  OBVIOUS
<1>1. AccountingInv'
  BY AccountingStep
<1>2. AccountingTypeOK'
  BY <1>1 DEF AccountingInv
<1>3. ChartOK'
  BY <1>2, CountersStep, SampleCounts
<1> QED
  BY <1>1, <1>3

LEMMA ChartSays ==
    AccountingInv /\ ChartOK => ChartIsSent
<1> SUFFICES ASSUME AccountingInv, ChartOK PROVE ChartIsSent
  OBVIOUS
<1>1. AccountingTypeOK /\ hist.sent \in Nat
  BY AccountingAssumption DEF AccountingInv, AccountingTypeOK, History
<1>2. PICK w \in [Nodes -> Nat] :
        Total(w) <= hist.sent /\ \A e \in Nodes : chart[e].sum + Due(e) <= w[e]
  BY DEF ChartOK
<1> DEFINE v == [e \in Nodes |-> chart[e].sum]
<1>3. \A e \in Nodes : chart[e].sum \in Nat /\ Due(e) \in Nat
  BY <1>1, ChartTypes
<1>4. v \in [Nodes -> Nat] /\ \A e \in Nodes : v[e] = chart[e].sum
  BY <1>3
<1> HIDE DEF v
<1>5. \A e \in Nodes : v[e] <= w[e] + (IF e = "none" THEN 0 ELSE 0)
  <2> TAKE e \in Nodes
  <2>1. v[e] = chart[e].sum /\ chart[e].sum + Due(e) <= w[e] /\ w[e] \in Nat
    BY <1>2, <1>4
  <2> QED
    BY <1>3, <2>1
<1>6. Total(v) <= Total(w) + 0 /\ Total(v) \in Nat /\ Total(w) \in Nat
  BY <1>4, <1>5, TotalGrows
<1>7. MapThenSumSet(LAMBDA e : chart[e].sum, Nodes) = Total(v)
  BY <1>4, ChartTotal
<1> QED
  BY <1>1, <1>2, <1>6, <1>7 DEF ChartIsSent

(* The chart never counts more than was sent, whichever engines a sampling *)
(* misses, and whatever counters are lost or handed over between two.      *)
THEOREM ChartCountsSent == AccountingSpec => []ChartIsSent
<1>1. AccountingInit => AccountingInv /\ ChartOK
  BY AccountingStarts, ChartStarts
<1> QED
  BY <1>1, ChartStep, ChartSays, PTL DEF AccountingSpec

(* For any bytes, rounds, transfers and crashes: the row, the quota and    *)
(* the chart count what was sent, and what a quota paused can be resumed.  *)
THEOREM AccountingIsSound == AccountingSpec => []AccountingSound
<1>1. CountedOnce /\ ChartIsSent /\ PauseIsListed => AccountingSound
  BY DEF AccountingSound
<1> QED
  BY BytesCountedOnce, ChartCountsSent, PausedIsListed, <1>1, PTL
=============================================================================
