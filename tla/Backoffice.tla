----------------------------- MODULE Backoffice -----------------------------
(***************************************************************************)
(* One NestJS process: the handlers of an entity type and the runs of      *)
(* OutboxService.processPending, over the same sync_outbox and the same    *)
(* Stage 1 lambda.  Handlers add items, runs work them off; nothing a run  *)
(* learns is told to the entity's document.                                *)
(***************************************************************************)
EXTENDS EntityService

CONSTANTS
    Runs,         \* as in OutboxService
    Limit,
    MaxAttempts

ASSUME BackofficeAssumption ==
    /\ Callers = Handlers \cup Runs
    /\ Handlers \cap Runs = {}
    /\ Limit \in Nat \ {0}
    /\ MaxAttempts \in Nat \ {0}

VARIABLES
    runs,         \* as in OutboxService
    missed        \* history: the entities whose synchronisation was cut short

Outbox == INSTANCE OutboxService

processVars == <<vars, runs, missed>>

ProcessTypeOK == TypeOK /\ Outbox!TypeOK /\ missed \subseteq Ids

ProcessInit ==
    /\ Init
    /\ runs = [p \in Runs |-> Outbox!NoRun]
    /\ missed = {}

-----------------------------------------------------------------------------
(* When a stored change may be neither delivered nor queued. *)

\* Two handlers have the document of one entity in memory.
Overlapping ==
    {i \in Ids : \E g, h \in Handlers :
        g # h /\ handlers[g].id = i /\ handlers[h].id = i}

\* The step of h gives its synchronisation up: save() rejects what it has
\* stored, or the item is not queued.
GivesUp(h) ==
    /\ handlers'[h].pc = "idle"
    /\ \/ handlers[h].pc = "save" /\ db' # db
       \/ handlers[h].pc = "enqueue"

\* The entities that the death of the process leaves out of step.
Interrupted ==
    {handlers[h].id :
        h \in {g \in Handlers : handlers[g].pc \in {"sync", "await", "enqueue"}}}

Handle(h) ==
    /\ HandlerStep(h)
    /\ missed' = missed \cup Overlapping'
                        \cup (IF GivesUp(h) THEN {handlers[h].id} ELSE {})
    /\ UNCHANGED runs

\* Both halves live in one process.
ProcessCrash ==
    /\ Crash
    /\ runs' = [p \in Runs |-> Outbox!NoRun]
    /\ missed' = missed \cup Interrupted

ProcessNext ==
    \/ \E h \in Handlers : Handle(h)
    \/ \E p \in Runs : Outbox!RunStep(p) /\ UNCHANGED <<db, handlers, missed>>
    \/ Outbox!Tick /\ UNCHANGED <<db, handlers, missed>>
    \/ Stage1Step /\ UNCHANGED <<db, handlers, outbox, runs, missed>>
    \/ ProcessCrash

ProcessSpec == ProcessInit /\ [][ProcessNext]_processVars

-----------------------------------------------------------------------------

\* A request is retried only after the call its handler made for it is over:
\* the handler and a run never have it in flight at the same time, because
\* the item exists only once the call has failed.
RetryFollowsCall ==
    \A h \in Handlers, p \in Runs :
        calls[h].st # "none" /\ calls[p].st # "none"
            => calls[h].request_id # calls[p].request_id

\* An item of sync_outbox explains what Stage 1 has of entity i: Stage 1 has
\* what that item says, or has never been given it.
Explained(i) ==
    \E r \in Rids :
        /\ outbox[r] # Null
        /\ requests[r].id = i
        /\ remote[i] = requests[r].body \/ r \notin applied

\* While no handler works on an entity, Stage 1 differs from the document
\* only if it lacks the request of an item or has just what an item says, or
\* if a crash, a save or an enqueue that was rejected, or a second handler on
\* the same document came in between.  A retry or a late call that overwrites
\* newer data is therefore always that of an item, and once a newer request
\* has been delivered over it the two agree again: the older items of an
\* entity, delivered or not retried, excuse nothing.
DivergenceHasACause ==
    \A i \in Ids \ missed :
        /\ db[i] # Null
        /\ \A h \in Handlers : handlers[h].id # i
        /\ remote[i] # BodyOf(db[i])
        => Explained(i)

\* Whatever last_sync reports of a request stays consistent with the outbox:
\* a success was applied and never queued, a failure is queued.
LastSyncAgreesWithOutbox ==
    \A i \in Ids :
        db[i] # Null /\ db[i].last_sync # Null
            => LET s == db[i].last_sync
               IN  /\ s.ok => s.request_id \in applied /\ outbox[s.request_id] = Null
                   /\ ~s.ok => outbox[s.request_id] # Null

\* The handler that built request r still has it.
InHand(r) ==
    \E h \in Handlers : /\ handlers[h].pc \in {"await", "enqueue"}
                        /\ handlers[h].request_id = r

\* How far a request has come: its item says it, or the handler that has it.
StageOf(r) ==
    IF requests[r] = Null THEN "none"
    ELSE IF outbox[r] # Null
         THEN IF outbox[r].status = "SENT" THEN "sent" ELSE "queued"
         ELSE IF InHand(r) THEN "open" ELSE "over"

Contract == INSTANCE Delivery WITH stage <- [r \in Rids |-> StageOf(r)]

\* The process keeps account of every request: handlers, runs and Stage 1
\* together never let one go but confirmed or queued, settle it only once it
\* is applied, and take a SENT back only after a save that failed.
DeliveryHolds == Contract!Spec

\* With one run at a time no call is made for an item that is already SENT.
SentIsNotResent == Outbox!SentIsNotResent

\* With one run at a time the count of attempts never goes back.
AttemptsNeverDecrease == Outbox!AttemptsNeverDecrease

=============================================================================
