--------------------------- MODULE OutboxService ---------------------------
(***************************************************************************)
(* OutboxService.processPending (shared/sync/outbox.service.ts): each call *)
(* of it is a run that loads a batch of due items and treats them one      *)
(* after the other.  Nothing prevents a run from starting while another    *)
(* one is in progress, and what a run knows of an item is what it loaded   *)
(* at the start.  The repository exports processPending but no code of it  *)
(* calls it: who does, and how often, is left open here.                   *)
(***************************************************************************)
EXTENDS Stage1, OutboxItem

CONSTANTS
    Runs,         \* processPending calls in progress at the same time
    Limit,        \* 10 in the code
    MaxAttempts,  \* 5 in the code
    Faults

ASSUME OutboxServiceAssumption ==
    /\ Runs \subseteq Callers
    /\ Limit \in Nat \ {0}
    /\ MaxAttempts \in Nat \ {0}
    /\ Faults \subseteq {"crash", "mongo", "config"}
    /\ Null \notin Item

VARIABLES
    outbox,       \* request_id |-> stored item, or Null
    runs          \* run |-> program counter, batch and current item

runVars == <<outbox, runs>>
vars == <<stage1Vars, runVars>>

\* An item in memory; dirty: its status is among the modified paths.
Local == [request_id: Rids, status: Status, attempts: Nat, dirty: BOOLEAN]

Run == [pc: {"idle", "next", "await", "save", "catch"},
        batch: SUBSET Local,
        item: Local \cup {Null}]

NoRun == [pc |-> "idle", batch |-> {}, item |-> Null]

TypeOK ==
    /\ Stage1TypeOK
    /\ outbox \in [Rids -> Item \cup {Null}]
    /\ runs \in [Runs -> Run]

\* sync_outbox as failed synchronisations leave it: the items are new, their
\* requests may have reached Stage 1 or be still on their way.
Init ==
    /\ requests \in [Rids -> Request]
    /\ calls = [c \in Callers |-> NoCall]
    /\ late \in [Rids -> 0..MaxLate]
    /\ remote = [i \in Ids |-> Null]
    /\ applied = {}
    /\ outbox = [r \in Rids |-> NewItem(TRUE)]
    /\ runs = [p \in Runs |-> NoRun]

-----------------------------------------------------------------------------

At(p, pc) == runs[p].pc = pc

\* Mutants of Due: the status is not looked at; FAILED is not retried.
DueWhateverStatus(r) == outbox[r] # Null /\ outbox[r].due

DueIfPending(r) ==
    /\ outbox[r] # Null
    /\ outbox[r].status = "PENDING"
    /\ outbox[r].due

\* The filter of find().
Due(r) ==
    /\ outbox[r] # Null
    /\ outbox[r].status \in {"PENDING", "FAILED"}
    /\ outbox[r].due

\* find() has no sort: when more than Limit items match, any Limit of them
\* may be the batch.
Batches ==
    LET due == {r \in Rids : Due(r)}
    IN  {s \in SUBSET due : IF Cardinality(due) <= Limit
                            THEN s = due
                            ELSE Cardinality(s) = Limit}

Loaded(r) == [request_id |-> r, status |-> outbox[r].status,
              attempts |-> outbox[r].attempts, dirty |-> FALSE]

\* Mutants of SetStatus: save() writes what was assigned, modified or not; a
\* failed item gets a status that the schema does not know.
SetStatusAlways(item, status) == [item EXCEPT !.status = status, !.dirty = TRUE]

SetStatusRetry(item, status) ==
    [item EXCEPT !.status = IF status = "FAILED" THEN "RETRY" ELSE status,
                 !.dirty = TRUE]

\* Assigning to item.status: a modification only if the value changes.
SetStatus(item, status) ==
    [item EXCEPT !.status = status, !.dirty = @ \/ item.status # status]

\* The loop goes on with what is left of the batch.
Continue(batch) ==
    IF batch = {} THEN NoRun
    ELSE [pc |-> "next", batch |-> batch, item |-> Null]

\* Mutant of Exhausted: one attempt more.
ExhaustedLate(item) == item.attempts > MaxAttempts

Exhausted(item) == item.attempts >= MaxAttempts

\* find() with its limit.
Find(p, s) ==
    /\ At(p, "idle")
    /\ s \in Batches
    /\ runs' = [runs EXCEPT ![p] = Continue({Loaded(r) : r \in s})]
    /\ UNCHANGED <<stage1Vars, outbox>>

\* Mutant of GiveUp: the loop looks at the same item again.
GiveUpAgain(p, loaded) ==
    /\ At(p, "next")
    /\ loaded \in runs[p].batch
    /\ Exhausted(loaded)
    /\ UNCHANGED vars

\* 'Max attempts reached': of what is kept here only status is assigned.
GiveUp(p, loaded) ==
    LET item == SetStatus(loaded, "FAILED")
    IN  /\ At(p, "next")
        /\ loaded \in runs[p].batch
        /\ Exhausted(loaded)
        /\ runs' = [runs EXCEPT ![p] = Continue(@.batch \ {loaded})]
        /\ \/ outbox' = [outbox EXCEPT ![item.request_id].status =
                           IF item.dirty THEN item.status ELSE @]
           \/ "mongo" \in Faults /\ UNCHANGED outbox
        /\ UNCHANGED stage1Vars

\* attempts and next_retry_at are assigned in memory before the call.
Retry(p, loaded) ==
    /\ At(p, "next")
    /\ loaded \in runs[p].batch
    /\ ~Exhausted(loaded)
    /\ Post(p, loaded.request_id)
    /\ runs' = [runs EXCEPT ![p] =
                  [pc |-> "await", batch |-> @.batch \ {loaded},
                   item |-> [loaded EXCEPT !.attempts = @ + 1]]]
    /\ UNCHANGED <<requests, late, remote, applied, outbox>>

\* callLambda throws before it calls: the URL is not configured.
RetryThrows(p, loaded) ==
    /\ "config" \in Faults
    /\ At(p, "next")
    /\ loaded \in runs[p].batch
    /\ ~Exhausted(loaded)
    /\ runs' = [runs EXCEPT ![p] =
                  [pc |-> "catch", batch |-> @.batch \ {loaded},
                   item |-> SetStatus([loaded EXCEPT !.attempts = @ + 1], "FAILED")]]
    /\ UNCHANGED <<stage1Vars, outbox>>

\* Mutant of RetryOk: a delivery starts the count of attempts again.
RetryOkResets(p) ==
    /\ At(p, "await")
    /\ ReadOk(p)
    /\ runs' = [runs EXCEPT ![p].pc = "save",
                           ![p].item = [SetStatus(@, "SENT") EXCEPT !.attempts = 0]]
    /\ UNCHANGED <<requests, remote, applied, outbox>>

RetryOk(p) ==
    /\ At(p, "await")
    /\ ReadOk(p)
    /\ runs' = [runs EXCEPT ![p].pc = "save", ![p].item = SetStatus(@, "SENT")]
    /\ UNCHANGED <<requests, remote, applied, outbox>>

\* Mutant of RetryFails: any answer counts as delivered.
RetryFailsAsSent(p) ==
    /\ At(p, "await")
    /\ ReadFailure(p)
    /\ runs' = [runs EXCEPT ![p].pc = "save", ![p].item = SetStatus(@, "SENT")]
    /\ UNCHANGED <<requests, remote, applied, outbox>>

RetryFails(p) ==
    /\ At(p, "await")
    /\ ReadFailure(p)
    /\ runs' = [runs EXCEPT ![p].pc = "save", ![p].item = SetStatus(@, "FAILED")]
    /\ UNCHANGED <<requests, remote, applied, outbox>>

\* Mutant of SaveItem: a delivered item is removed.
SaveItemRemoves(p) ==
    LET item == runs[p].item
    IN  /\ At(p, "save") \/ At(p, "catch")
        /\ outbox' = [outbox EXCEPT ![item.request_id] =
                        IF item.status = "SENT" THEN Null
                        ELSE [@ EXCEPT !.attempts = item.attempts, !.due = FALSE]]
        /\ runs' = [runs EXCEPT ![p] = Continue(@.batch)]
        /\ UNCHANGED stage1Vars

\* item.save(): $set of attempts, of next_retry_at (now in the future), and
\* of status if it was modified; in the try block or in the catch block.
SaveItem(p) ==
    LET item == runs[p].item
    IN  /\ At(p, "save") \/ At(p, "catch")
        /\ outbox' = [outbox EXCEPT ![item.request_id] =
                        [status   |-> IF item.dirty THEN item.status ELSE @.status,
                         attempts |-> item.attempts,
                         due      |-> FALSE]]
        /\ runs' = [runs EXCEPT ![p] = Continue(@.batch)]
        /\ UNCHANGED stage1Vars

\* A save that fails inside the try block is caught as a failed retry: the
\* modified paths are still modified, and the status becomes FAILED.
SaveItemFails(p) ==
    /\ At(p, "save")
    /\ "mongo" \in Faults
    /\ runs' = [runs EXCEPT ![p].pc = "catch", ![p].item = SetStatus(@, "FAILED")]
    /\ UNCHANGED <<stage1Vars, outbox>>

\* The same, but the database has stored the item and only its answer is lost.
SaveItemUnconfirmed(p) ==
    LET item == runs[p].item
    IN  /\ At(p, "save")
        /\ "mongo" \in Faults
        /\ outbox' = [outbox EXCEPT ![item.request_id] =
                        [status   |-> IF item.dirty THEN item.status ELSE @.status,
                         attempts |-> item.attempts,
                         due      |-> FALSE]]
        /\ runs' = [runs EXCEPT ![p].pc = "catch", ![p].item = SetStatus(@, "FAILED")]
        /\ UNCHANGED stage1Vars

\* A save that fails inside the catch block leaves processItem; the loop of
\* processPending logs it and goes on.
CatchFails(p) ==
    /\ At(p, "catch")
    /\ "mongo" \in Faults
    /\ runs' = [runs EXCEPT ![p] = Continue(@.batch)]
    /\ UNCHANGED <<stage1Vars, outbox>>

\* The delay min(1000 * 2^(attempts - 1), 30000) has passed.
BecomeDue(r) ==
    /\ outbox[r] # Null
    /\ ~outbox[r].due
    /\ outbox' = [outbox EXCEPT ![r].due = TRUE]
    /\ UNCHANGED <<stage1Vars, runs>>

Crash ==
    /\ "crash" \in Faults
    /\ DropCalls
    /\ runs' = [p \in Runs |-> NoRun]
    /\ UNCHANGED <<requests, remote, applied, outbox>>

-----------------------------------------------------------------------------

\* What a run does once it has loaded its batch.
Work(p) ==
    \/ \E loaded \in runs[p].batch :
          GiveUp(p, loaded) \/ Retry(p, loaded) \/ RetryThrows(p, loaded)
    \/ RetryOk(p) \/ RetryFails(p)
    \/ SaveItem(p) \/ SaveItemFails(p) \/ SaveItemUnconfirmed(p) \/ CatchFails(p)

Start(p) == \E s \in SUBSET Rids : Find(p, s)

Tick == \E r \in Rids : BecomeDue(r)

RunStep(p) == Start(p) \/ Work(p)

Next ==
    \/ \E p \in Runs : RunStep(p)
    \/ Tick
    \/ Stage1Step /\ UNCHANGED runVars
    \/ Crash

Spec == Init /\ [][Next]_vars

\* Fairness: a run in progress goes on (a call settles because of the timer
\* and of fetch's own limits, a save because of the driver's), time passes,
\* the database does not refuse every save, and somebody keeps calling
\* processPending.
Fairness ==
    /\ \A p \in Runs : WF_vars(Work(p)) /\ SF_vars(SaveItem(p)) /\ WF_vars(Start(p))
    /\ \A r \in Rids : WF_vars(BecomeDue(r))

FairSpec == Spec /\ Fairness

-----------------------------------------------------------------------------
(* What the outbox promises. *)

\* An item is marked SENT only if Stage 1 has applied its request, whatever
\* runs overlap, calls arrive late or saves fail.
SentWasApplied ==
    \A r \in Rids : outbox[r] # Null /\ outbox[r].status = "SENT" => r \in applied

\* Run p has delivered request r itself and is in the catch block because the
\* save that should say so was rejected.
SaveOfSentFailed(p, r) ==
    At(p, "catch") /\ runs[p].item.request_id = r /\ runs[p].item.dirty

\* An item that is SENT stays SENT, or loses it to a run that delivered it as
\* well and whose own save was rejected: a slower run that loaded it before
\* and fails to deliver it again does not take the status back, whatever saves
\* fail, because FAILED is what it loaded and save() writes modified paths
\* only.
SentIsFinal ==
    [][\A r \in Rids :
         outbox[r] # Null /\ outbox[r].status = "SENT" =>
             /\ outbox'[r] # Null
             /\ \/ outbox'[r].status = "SENT"
                \/ \E p \in Runs : SaveOfSentFailed(p, r) /\ runs'[p] # runs[p]]_vars

\* No stored item, and none a run has in memory, counts more attempts than
\* maxAttempts, although each run counts from what it loaded.
AttemptsWithinMax ==
    /\ \A r \in Rids : outbox[r] # Null => outbox[r].attempts <= MaxAttempts
    /\ \A p \in Runs : runs[p].pc \in {"await", "save", "catch"}
                         => runs[p].item.attempts <= MaxAttempts

\* As long as runs do not overlap, the stored count of attempts never goes
\* back, even if saves fail and the process restarts.
AttemptsNeverDecrease ==
    [][\A r \in Rids : outbox[r] # Null
                         => outbox'[r].attempts >= outbox[r].attempts]_vars

\* As long as runs do not overlap, no call is made for an item that is
\* already SENT.
SentIsNotResent ==
    \A p \in Runs : runs[p].pc = "await"
                       => outbox[runs[p].item.request_id].status # "SENT"

\* A call of processPending returns: no order of answers and no failing save
\* makes it go round for ever.
RunEnds == \A p \in Runs : runs[p].pc # "idle" ~> runs[p].pc = "idle"

\* If processPending is called again and again and a batch can hold all the
\* items, each item is delivered or has used up its attempts.
EventuallySettled ==
    \A r \in Rids : <>(outbox[r].status = "SENT" \/ outbox[r].attempts = MaxAttempts)

\* docs/SMOKE.md:125 expects of processPending that the items with status
\* PENDING or FAILED are retried.  Items that have used up their attempts stay
\* FAILED and due, so they can fill every batch and a waiting item is never
\* retried at all.
WaitingItemIsRetried == \A r \in Rids : <>(outbox[r].attempts > 0)

=============================================================================
