----------------------------- MODULE OutboxItem -----------------------------
(***************************************************************************)
(* A document of sync_outbox, as shared/sync/outbox.schema.ts declares it  *)
(* and OutboxService.enqueue first writes it.  Its payload and entity_key  *)
(* are those of the request with its request_id, and next_retry_at is      *)
(* reduced to whether it is due.                                           *)
(***************************************************************************)
EXTENDS Naturals

Status == {"PENDING", "SENT", "FAILED"}

Item == [status: Status, attempts: Nat, due: BOOLEAN]

\* Mutant of NewItem: a status that the schema does not know.
NewItemQueued(hasError) == [status |-> "QUEUED", attempts |-> 0, due |-> TRUE]

\* hasError: enqueue was given a non-empty error text.
NewItem(hasError) ==
    [status   |-> IF hasError THEN "FAILED" ELSE "PENDING",
     attempts |-> 0,
     due      |-> TRUE]

=============================================================================
