--------------------------- MODULE MCTransferSlots ---------------------------
(***************************************************************************)
(* Instance of TransferSlots for TLC.  In some behaviours the limit        *)
(* changes at any time and reads of it fail; the calm ones are those in    *)
(* which the queue promises not to leave anybody behind.                   *)
(***************************************************************************)
EXTENDS TransferSlots, TLC

CONSTANTS t1, t2, t3, t4, a, b, c

VARIABLE calm      \* neither of these happens in this behaviour

(* Two transfers with the same pair of engines, one that shares only their *)
(* source, one that shares only their target.                              *)
MixedSource == (t1 :> a) @@ (t2 :> a) @@ (t3 :> a) @@ (t4 :> c)
MixedTarget == (t1 :> b) @@ (t2 :> b) @@ (t3 :> c) @@ (t4 :> b)

(* Three transfers of one pair of engines: all queue on the same key.      *)
SameSource == [t \in {t1, t2, t4} |-> a]
SameTarget == [t \in {t1, t2, t4} |-> b]

(* Where it is not calm three transfers run into one engine, two of them   *)
(* out of one engine.                                                      *)
Running == IF calm THEN Tasks ELSE Tasks \ {t3}

MCInit == Init /\ calm \in BOOLEAN

MCNext ==
    /\ \/ \E t \in Running : Start(t) \/ Step(t)
       \/ ~calm /\ \E t \in Running : ReadFails(t)
       \/ ~calm /\ \E l \in Limits : SetLimit(l)
       \/ AllDone
    /\ UNCHANGED calm

(* A started coroutine that is not blocked is run by the event loop, and a *)
(* copy ends: every wait in run_migration has a timeout.                   *)
MCSpec ==
    /\ MCInit /\ [][MCNext]_<<calm, vars>>
    /\ \A t \in Tasks : WF_<<calm, vars>>(Step(t) /\ UNCHANGED calm)

-----------------------------------------------------------------------------
(* Work waits only behind full slots (NoIdleSlot), where no read of the    *)
(* limit fails, which loses a wake-up, and the limit does not change.      *)
NoIdleSlotWhenCalm == calm => NoIdleSlot

(* And every transfer that asked for its slots gets both of them, so the   *)
(* two keys of each transfer cannot deadlock (work_queue.py:51).           *)
EventuallyGranted ==
    \A t \in Tasks : (calm /\ pc[t] = "read") ~> pc[t] = "hold"
=============================================================================
