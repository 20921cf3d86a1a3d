------------------------------ MODULE Delivery ------------------------------
(***************************************************************************)
(* What becomes of a request to Stage 1, from the payload that SyncService *)
(* builds to the end: the abstract specification that Backoffice           *)
(* implements.  Who has the request, in which await, what the answer is    *)
(* and how many times it is sent are left out.                             *)
(***************************************************************************)
CONSTANTS
    Rids,         \* as in Stage1
    Faults        \* as in EntityService

VARIABLES
    stage,        \* request_id |-> how far the request has come
    applied       \* as in Stage1

deliveryVars == <<stage, applied>>

\* A request is open while the handler that built it has it, and over once
\* that handler no longer has it and sync_outbox never got it.
Stage == {"none", "open", "over", "queued", "sent"}

Init ==
    /\ stage = [r \in Rids |-> "none"]
    /\ applied = {}

MovesOn(r, from, to) ==
    /\ stage[r] = from
    /\ stage' = [stage EXCEPT ![r] = to]
    /\ UNCHANGED applied

Build(r) == MovesOn(r, "none", "open")

\* Stage 1 applies it: while it is open, from the outbox, or late.
Apply(r) ==
    /\ stage[r] # "none"
    /\ applied' = applied \cup {r}
    /\ UNCHANGED stage

\* The handler reads ok = true.
Confirm(r) == r \in applied /\ MovesOn(r, "open", "over")

\* The handler reads a failure and enqueues.
Queue(r) == MovesOn(r, "open", "queued")

\* A run reads ok = true and saves the item.
Settle(r) == r \in applied /\ MovesOn(r, "queued", "sent")

\* The save that marked the item SENT was rejected, although the database had
\* made it, and the catch block writes FAILED.
Reopen(r) == "mongo" \in Faults /\ MovesOn(r, "sent", "queued")

\* The item cannot be queued.
Drop(r) == "mongo" \in Faults /\ MovesOn(r, "open", "over")

\* The process dies, and with it every handler that still has a request.
Die ==
    /\ "crash" \in Faults
    /\ stage' = [r \in Rids |-> IF stage[r] = "open" THEN "over" ELSE stage[r]]
    /\ UNCHANGED applied

Next ==
    \/ \E r \in Rids :
          \/ Build(r) \/ Apply(r) \/ Confirm(r) \/ Queue(r) \/ Settle(r)
          \/ Reopen(r) \/ Drop(r)
    \/ Die

Spec == Init /\ [][Next]_deliveryVars

-----------------------------------------------------------------------------

\* A request that is in nobody's hands any more was applied, unless the
\* database rejected its item or the process died.
NothingIsLost ==
    \A r \in Rids : stage[r] = "over" /\ Faults \cap {"crash", "mongo"} = {}
                      => r \in applied

=============================================================================
