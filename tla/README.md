# A TLA+ model of the back office and its synchronisation

The repository is a NestJS process over MongoDB that keeps five kinds of
entities (clients, tenants, applications, domains, brandings) and tells a
remote service, the *Stage 1 lambda*, of every change.  A change that Stage 1
did not accept goes to a second collection, `sync_outbox`, from which
`OutboxService.processPending` delivers it later.  This directory models that
core: what a handler does between its awaits, what happens to a request that
fails, what the outbox makes of it, and which of the fields that the API accepts
arrive at which endpoint of Stage 1.

Paths below are relative to the repository; line numbers of a definition are in
`PROJECT.json`, under `map`.

## Inventory

| Component | State | Operations | Hard behaviour |
|---|---|---|---|
| `ClientsService`, `TenantsService`, `ApplicationsService` | one collection each; during a request, the hydrated document with its modified paths | `create`, `update`, `delete` (soft), `findOne`, `find` | each awaits two to five times; two requests about one document interleave at every await; the process may die between two awaits |
| `DomainsService`, `BrandingsService` | the same, with a unique index on `host` / `tenant_id` | the same; `create` looks for the key first | check and insert are two awaits; check and index disagree about deleted documents |
| `SyncService` | none of its own | `syncClient` ... `syncBranding`, all ending in `sync` | the payload is the document in memory; `enqueue` may reject |
| `OutboxService` | `sync_outbox`; during a call, the loaded batch | `enqueue`, `processPending`, `processItem` | calls may overlap; saves may fail after a delivery; `limit(10)` without order |
| `HubLambdaClient` | one abort timer per call | `upsert*`, all ending in `makeRequest` | the timer races the answer; an abandoned call may still arrive |
| Stage 1 lambda (external) | what it stores per entity | upsert | applies requests late, or not at all |
| `request-id.ts`, `time.ts` | none | fresh ids, the clock | - |
| Controllers, DTOs, schemas, `ParseObjectIdPipe`, `ValidationPipe` | none | `POST`, `GET`, `GET :id`, `PATCH :id`, `DELETE :id` of five types; the fields each step lets through | five hand-kept field lists per type in five files; two switches over the type; references that nobody checks |
| `main.ts`, `app.*.ts`, modules | none | wiring, start | - |
| `clients_temp`, `scripts/` | - | dead code, developer tooling | - |

Components call each other and share `sync_outbox`: a handler saves its
document, calls `SyncService`, which calls Stage 1 through `HubLambdaClient`
and, on failure, `OutboxService.enqueue`; the handler then saves `last_sync`.
`processPending` reads and writes `sync_outbox` and calls Stage 1 through the
same client; it never touches the entity.  It is exported, and no code of the
repository calls it.

What makes them correct:

* handlers: `last_sync` is true; a reported failure is queued; Stage 1 never
  knows what is not stored; a delete is final; where Stage 1 and the collection
  differ, an item of the outbox says how, or one of a few named accidents did it;
* keyed handlers: at most one entity per key reaches Stage 1; a duplicate is
  answered with 409;
* outbox: SENT means applied, and is final but for a save that is rejected after
  the delivery it should record; attempts are bounded and only grow;
  nothing is delivered again once SENT; every item is settled in the end;
* client: `ok: true` is read only of an applied request; a wait for headers
  ends;
* the API as a whole: a value that is accepted reaches Stage 1, at the endpoint of
  its type, from a handler as from a retry; what is internal does not; a deleted
  entity stays off, but for the retry of an older request; a key never changes.

## Modules

| Module | Models |
|---|---|
| `Stage1` | Stage 1 and the network as the client sees them: `requests` (what was built under a request id), `calls` in progress, `late` abandoned ones, `remote`, `applied`. `Post`, `ReadOk`, `ReadFailure`, `DropCalls` are parts of the callers' actions. |
| `OutboxItem` | a document of `sync_outbox` and the one that `enqueue` creates |
| `EntityService` | the handlers of one entity type with `SyncService.sync` and `enqueue` |
| `KeyedService` | `EntityService` with a unique key: domains and brandings |
| `OutboxService` | `processPending` / `processItem`, any number of calls at once |
| `Backoffice` | one process: it extends `EntityService` with the runs of an instance of `OutboxService`, over one `sync_outbox` and one Stage 1 (`ProcessSpec`) |
| `Delivery` | what becomes of a request, from its payload to its end: the abstract specification that `Backoffice` implements |
| `LambdaCall` | the contract of a call, made of the steps of `Stage1` |
| `HubLambdaClient` | `makeRequest` with its timer, shown to implement `LambdaCall` |
| `SyncPayload` | the fields of the five types: schemas, DTOs, constructors, the five payload builders of `SyncService` |
| `Registry` | the five controllers and services, field by field, one request after the other, with retries from the outbox |
| `Stage1Proofs`, `EntityServiceProofs`, `KeyedServiceProofs`, `OutboxServiceProofs`, `HubLambdaClientProofs`, `RegistryProofs` | theorems about these modules and their lemmas |
| `BackofficeProofs`, `DivergenceProofs` | theorems about the process as a whole |
| `MC*` | symmetry and views for TLC |

There are two cuts through the system.  `EntityService`, `KeyedService`,
`OutboxService`, `Backoffice` and `HubLambdaClient` have every await, fault and
interleaving, for one entity type whose own fields are one field.  `SyncPayload`
and `Registry` have every field of every type and every answer of the API, with
requests that run one after the other, which is how the guides in `docs/` use it.

How state and actions correspond to the code:

* **A handler** (`EntityService`) is a program counter and the locals of
  `create`/`update`/`delete`.  An action is what runs between two awaits:
  `Create`, `Update`, `Delete` up to `document.save()`; `Save` or `SaveFails`;
  `Sync` (build the payload, call `fetch`) or `SyncThrows` (no URL configured);
  `LambdaOk` or `LambdaFails`; `Enqueue` or `EnqueueFails`; `SaveLastSync` or
  `SaveLastSyncFails`.  The find of an update and the assignments after it are
  one action: nothing of the document is read before the answer of the query.
  `SaveUnconfirmed` and `EnqueueUnconfirmed` are writes that the database has made
  and whose answer is lost, so that the driver rejects them.
* **save()** is mongoose's: an insert, or a `$set` of the modified paths, with
  the loaded `__v` in the filter, and incremented, when an array was set
  (`redirect_uris` of an application; constant `Versioned`).  Paths that were
  not modified keep, in memory, the value that was loaded.  The payload is made
  of that memory.
* **The data**: a document has one field of its own (`name`), `enabled`,
  `deleted` (for `deleted_at`), `v` and `last_sync`, reduced to `ok` and the
  request id.  A payload is `name` and `enabled`.  The three services without a
  key have the same text but for the fields, so one module stands for each.
* **A run** (`OutboxService`) is a program counter, the rest of its batch and
  the current item as it is in memory, with `dirty` for "status is among the
  modified paths".  `due` stands for `next_retry_at <= now`.  `find` without a
  sort may return any `Limit` of the matching items.
* **Faults**: `"mongo"` (a database call rejects, with or without effect),
  `"crash"` (the process dies and restarts), `"config"` (a URL is missing).  A refusal by
  Stage 1, a timeout, a broken connection and a late delivery are always
  possible.
* **The process** (`Backoffice`) is both halves: a step is a handler's
  (`Handle`), a run's, a tick, Stage 1's, or the crash of both at once
  (`ProcessCrash`).  Its history variable `missed`
  holds the entities whose synchronisation was cut short: by a crash, by a save or
  an enqueue that was rejected, or by a second handler on the same document.
* **A request** (`Delivery`) is `none`, `open` while the handler that built it awaits
  its call or its enqueue, then `over`, or `queued` and `sent` in `sync_outbox`.
  `Backoffice!StageOf` reads this off the handlers and the items; `Contract` is the
  instance of `Delivery` under that mapping, and every handler, run, late call and
  crash is one of its steps or a stutter.
* **The API** (`Registry`): a controller is the disjunction of its five operations
  and their refusals (400 of a pipe, 404, 409, 500 of a validator of the schema or
  the index).  `Bodies` are the bodies of `POST` that are tried: all fields, the
  mandatory ones, one left out, one empty, one unknown; a `PATCH` sets one field to
  any value.  A document maps the fields it has to values, and `Payload` is what the
  builder of its type makes of it: fields picked by name, and all others but the
  omitted ones.  `asked` is a history of what the API accepted.
* **Stage 1** is not in the repository.  Its answer `ok: true` is taken to mean
  that it applied the request; a repeated request id may be ignored or applied
  again (`Idempotent`).

## Runs

| Run | What it shows |
|---|---|
| `concurrent` | two handlers on one document, crashes, failing database, late deliveries: `OkMeansApplied`, `FailureIsQueued`, `RemoteKnowsOnlyStored`, `VersionIdentifiesArray`, `DeletedIsFinal`, `SyncNeverFailsCrud` |
| `backoffice_faults` | two handlers and one outbox run, crashes, failing database: `DivergenceHasACause` (where Stage 1 differs from the document, it lacks the request of an item or has exactly what an item says, or the entity is in `missed`: a retry or a late call may set Stage 1 back, but only to what an item says, and a newer request that is delivered puts it right), `RetryFollowsCall`, `LastSyncAgreesWithOutbox`, `SentIsNotResent`, `AttemptsNeverDecrease`, and that the process implements `Delivery` (`DeliveryHolds`) |
| `overlapping_runs` | two runs at once, crashes, saves that fail: `SentWasApplied`, `AttemptsWithinMax`, `SentIsFinal` (SENT is taken back only by a run that delivered the item too and whose own save was rejected) |
| `retry_loop` | `RunEnds` and `EventuallySettled`, saves that fail now and then |
| `brandings_concurrent` | overlapping creates and deletes under one key: `RemoteKeysUnique` |
| `api_sequence` | the five controllers over two ids, with calls that fail and retries: `ReachesStage1` and `DeletedIsOff` (both hold of Stage 1 unless an item of the entity is undelivered or was delivered last: older items excuse nothing), `InnerStaysInside`, `EndpointsKeepTheirType`, `KeysAreFinal` |
| `hub_lambda_client` | `makeRequest` implements `LambdaCall` (`ContractHolds`), `HeadersInTime`, `TimerOnlyWhileFetching`, `HeadersOrFailure` |

and, where the code does something else than a document of the repository says:

| Run | Violated | What happens |
|---|---|---|
| `stale_snapshot` | `SendsWhatIsStored` | of two overlapping requests that change different fields of one document, the one saved last goes on to send the other's field as it had loaded it; no fault is needed |
| `delete_race` | `DeletedIsDisabled` | an update loaded before a soft delete and saved after it enables the deleted document |
| `starvation` | `WaitingItemIsRetried` | items without attempts left stay due and may fill every batch |
| `branding_after_delete` | `DuplicateAnswersConflict` | a branding created again after a delete is answered with 500 |
| `dangling_reference` | `CreateRequiresReferences` | an entity is created for, and Stage 1 told of, a client or tenant that does not exist |

Smaller disagreements have no run of their own:

* Two overlapping creates of one host also end in a 500
  (`branding_after_delete.cfg` with two handlers and `CheckSeesDeleted = TRUE`).
* A successful retry leaves the entity's `last_sync.ok = false`, which
  `docs/STAGE_02_BACKOFFICE_MONGO_MIN.md:171` calls the result of the last sync;
  `LastSyncAgreesWithOutbox` says what can be relied on instead.
* Items are created FAILED, where `docs/forlambda.md:584` shows PENDING.
* `__v` is sent (`InnerStaysInside` allows it), although it is not among what
  `docs/forlambda.md` lists as sent.
* A field that is `""` or `null` passes the validators of a DTO that are `IsString`
  or `IsOptional` and is refused by `required` of the schema: 500, where
  `docs/POSTMAN_CURLS_ORDERED.md:404` says 400.
* `PATCH` with a malformed id is a 400 of the pipe, where `docs/SMOKE.md:155-164`
  expects 404; `GET /brandings?tenant_id=` with a malformed id has no pipe: 500.
* `request_id` is random, where `docs/forlambda.md:617` calls it deterministic.
* Deleting a tenant leaves its domains and its branding enabled.
* The body of an answer is read without a timer (`Headers` in `HubLambdaClient`), so
  a call can outlast `ADMIN_TIMEOUT_MS`.

### Bounds

* `Rids`: every synchronisation takes a fresh request id and an operation starts
  only while one is left (`WithinBound`), so two or three ids are two or three
  operations; create, update and delete, or a create and two overlapping
  updates, are what the races need.  `WithinBound` also bounds `__v`, which a
  crash lets grow without using an id.
* `MaxLate = 1` abandoned call per request on its way: two copies of one request
  have the same effect as one (`requests` fixes its payload).  The run of
  brandings takes 0, where lateness matters least: a key never changes.
* `Limit` is 1 or 2 instead of 10, and `MaxAttempts` 2 instead of 5: the
  interesting cases are a full batch and the last attempt.
* `Timeout = 2`, `MaxClock = 3` ticks: the headers arrive before, at or after the
  timeout.
* One or two documents, two handlers, one or two runs: each race modelled is one
  of two actors about one document or item.
* `Registry` has two ids, two texts and three synchronisations of which one fails:
  an entity of any type, a second one with the same key or another type, an update,
  a delete, a retry after any of them.  A call that fails may have been applied.
* `MCEntityService!WithoutAnswers`, `MCBackoffice!WithoutAnswers` and
  `MCRegistry!WithoutAnswer` leave the last HTTP answer out of a state's identity;
  no step depends on it, and no property but `TypeOK`.  In `concurrent`,
  `SyncNeverFailsCrud` reads it in the step that gives it, which the view keeps.

### Fairness

Safety runs assume none.  `FairSpec` of `OutboxService` assumes that a run in
progress goes on (a call settles because of the timer, undici's own limits on
headers and body, or the connection; a save because of the driver's timeouts),
that time passes, that the database does not refuse every save (strong fairness
of `SaveItem`), and that somebody keeps calling `processPending`.  The last one
is an assumption about the deployment: in the repository nobody does.
`HubLambdaClient` assumes that time passes and that a due timer fires, and
nothing of the network.

## Proofs

`Stage1Proofs` proves, for every number of callers and requests, what each step
of Stage 1 and of a caller keeps: well-typed state, calls and late deliveries
only of requests that exist, and `AckedIsApplied`, that a call whose
acknowledgement is on its way was applied (`Stage1Inv`).

The theorems below state, for every value of the constants, properties that runs check on
small instances; those about a run that finds a violation say when the property does
hold.  The argument is always an inductive invariant
that adds to the property what a process holds in memory between two awaits.

`EntityServiceProofs`, for any number of handlers and documents, with and without an
array, and all faults:

* `LastSyncIsTrue`, and its parts `EntityServiceTypes`, `SuccessWasApplied` and
  `Stage1KnowsStoredOnly`: `FailureIsQueued`, `TypeOK`, `OkMeansApplied`,
  `RemoteKnowsOnlyStored`.  What a handler writes to `last_sync` it has known for
  several awaits, so `EntityInv` follows its locals (`Fits`): a handler that
  synchronises has stored its document, the request it built is about that
  document, the call it awaits is for that request, an `ok` it has read was
  applied, a failure it has enqueued is queued.  `RequestsAreStored` carries the
  argument to Stage 1, which may apply a request long after its handler ended.
* `DeleteIsForEver`: `DeletedIsFinal`.  A save of a stored document can take
  `deleted_at` back only if it is a modified path with no value; `DeleteInv` says
  that it is modified only by a delete (`OnlyDeletesAreDirty`), and that nobody
  but its creator has a document that is not stored yet (`CreatorIsAlone`), so
  that no insert, of which every path is modified, meets a stored document.
* `SynchronisationIsSilent`: `SyncNeverFailsCrud`, from the shape of the steps after
  a save and from `NoAnswerYet`: a handler at work has not answered.
* `VersionsIdentifyArrays`: if the field is an array, `VersionIdentifiesArray`.
  `VersionInv` says that a handler never holds a `__v` greater than the stored one,
  and that while the two are equal so are the arrays, but for the handler's own
  modification.
* `DeletedIsDisabledUnlessOverlap`: what the run `delete_race` refutes,
  `DeletedIsDisabled`, is true as long as no two handlers work on one document
  (`OneAtATime`), whatever crashes and whichever saves fail.  `DisabledInv` says that
  the paths a handler will not save are, in memory, those that are stored.

`OutboxServiceProofs`, for any number of overlapping runs, any `Limit` and
`MaxAttempts`:

* `OutboxIsSound`, and its parts `OutboxServiceTypes`, `SentIsDelivered`,
  `AttemptsAreBounded`: `TypeOK`, `SentWasApplied` and `AttemptsWithinMax`, for all
  faults.  None of the three is inductive: a run holds an item in memory between its
  call and its save, so `OutboxInv` adds that the call it awaits is that item's
  (`CallIsForItem`), that an item in hand with status SENT was applied
  (`SentInHandWasApplied`), that what is in memory is still stored
  (`MemoryIsStored`), and `Stage1Inv`.
* `SentStaysSent` (`SentIsFinal`), for all faults and whatever runs overlap: SENT is
  lost only to a run that delivered the item too and whose own save was rejected.
  The argument is `FailedIsNeverWritten`: items enter as FAILED, so what a run loads is
  FAILED, FAILED is no modification of it, and `save()` writes modifications only; the
  one exception is the status set before a save that failed, which is still a modified
  path when the catch block writes FAILED.

`BackofficeProofs`, for any number of handlers and runs and all faults.
`ProcessInv` is `EntityInv` (the steps of handlers, of Stage 1 and the crash are
steps of `EntityService`, so `EntityInvNext` is reused; runs touch nothing it reads
but the contents of items), `HandOver` (a request belongs to one handler until it
is queued or reported, and is queued only after the handler's call) and `RunsFit`
(what a run has in memory is stored):

* `ProcessTypes`, `RetriesFollowCalls` (`RetryFollowsCall`) and
  `ReportsAgreeWithOutbox` (`LastSyncAgreesWithOutbox`);
* `OneRunResendsNothing` (`SentIsNotResent`) and `OneRunCountsUp`
  (`AttemptsNeverDecrease`), under the hypothesis that there is at most one run at a
  time: what it has loaded and not yet treated is then what is stored
  (`MemoryIsFresh`), whatever handlers add meanwhile;
* the theorems of `EntityService`, whose own specification has no runs:
  `LastSyncIsTrueHere`, `DeleteIsForEverHere`, `SynchronisationIsSilentHere`,
  `VersionsIdentifyArraysHere`, `DeletedIsDisabledUnlessOverlapHere`.  A step of the
  process is one of `EntityService` or leaves documents and handlers alone
  (`RunsLeaveHandlersAlone`), and a run keeps `EntityInv`;
* the theorems of `OutboxService`, whose own specification has no handlers:
  `SentIsDeliveredHere`, `AttemptsAreBoundedHere`, `SentStaysSentHere`.  The lemmas of
  `OutboxServiceProofs` are used through `OP == INSTANCE OutboxServiceProofs`: a run's
  step is a step there, and of a handler they need only that it adds items under
  request ids that have none (`OnlyQueues`, `OthersKeepOutbox`);
* `ProcessKeepsAccount` (`DeliveryHolds`): the process implements `Delivery`.
  `ProcessInv` gives what the mapping needs: a request has one handler (`HandOver`),
  an `ok` that a handler reads was applied (`Fits`), one that a run reads too, and
  an item loses SENT only to a failing save (`SentIsKept`).
  `NoRequestIsLost` follows: if the database answers and the process does not stop,
  a request that neither a handler nor `sync_outbox` has was applied.

`DivergenceProofs`: `DivergencesHaveCauses` (`DivergenceHasACause`), the property
that ties the two halves together, for any number of handlers and runs and all
faults.  `StepInv` says of an entity that is not in `missed` that it is in step
(`InStep`): no two handlers work on it (`OverlapIsMissed`), and what Stage 1 has can be
read off the program counter of the one that does.  Before its save, Stage 1 agrees
(`Agrees`): it has what is stored, or what an item says, or an item was never given to
it (`ItemSays`).  After its save, the handler has what is stored; once its request is
applied Stage 1 agrees again, and if it is not, the request becomes an item.  A late
request of this entity is only ever that of an item, or of one that the handler is
about to queue, so whatever Stage 1 is given late an item says it.
`StoredIsSentUnlessMissed`, the other side of the run `stale_snapshot`: a handler of such
an entity builds its payload from what is stored.
`DivergenceIsExplainedUnlessOverlap`: without a crash and with a database that answers,
and under `OneAtATime`, `missed` stays empty (`NothingIsMissed`), so only items explain
a difference, for any refusal, timeout, missing URL and late delivery.

`KeyedServiceProofs`: `KeyedServiceTypes`, and `Stage1KeysAreUnique`
(`RemoteKeysUnique`) from `KeyedInv`, which is `EntityInv` and uniqueness in the
collection; it rests on the index alone, not on what the check before it sees.
`LastSyncIsTrueOfKeyed`, `DeleteIsForEverOfKeyed` and `SynchronisationIsSilentOfKeyed`
carry the theorems of `EntityService` over: a step is one of `EntityService`, or a
create that ends before it stores anything (`KeyedStepIsEntityStep`).  `CheckSuffices`
draws the line around the run `branding_after_delete`: while no two inserts of one
key are under way (`NoRivals`) and the check sees what is stored (`NoneHidden`: always
for domains, for brandings until one is deleted), the index never has to reject an
insert (`NoneRejected`), so every duplicate is answered 409.  Each of the two
hypotheses excludes one of the two ways to a 500 listed under the runs.

But for `StoredIsSentUnlessMissed`, the theorems about runs that find a violation have
hypotheses on the whole behaviour (`[]OneAtATime`, `[](NoRivals /\ NoneHidden)`): they are about the load that
clients put on the process, not about constants, and they still allow any number of
handlers at work on different documents.

`HubLambdaClientProofs`, for any timeout and any number of requests and abandoned calls
(one caller, call after call: calls share nothing in the client): `ClientTypes`,
`HeadersComeInTime`, `TimerEndsWithHeaders` from `ClientInv` (a timer runs exactly
while headers are awaited, and no longer than the timeout), and
`ClientKeepsContract`: `ContractHolds`, the refinement of `LambdaCall` step by step.

`RegistryProofs`, for any ids, values and bodies: `RegistryTypes`,
`AcceptedReachesStage1` (`ReachesStage1`, unless an item explains it), `InnerIsKept` (`InnerStaysInside`),
`EndpointsAreRight` (`EndpointsKeepTheirType`), `DeletedStaysOff` (`DeletedIsOff`) and
`KeysNeverChange` (`KeysAreFinal`).  The lemmas about the field lists
(`NothingIsDropped`, `InnerIsOmitted`, `FieldsAgree`, `KeysAreNotUpdated`,
`SwitchesAgree`) compare the five hand-kept lists of each type once and for all;
`RegistryInv` carries them through requests, failures and retries
(`StoredFits`, `AskedIsStored`, `QueueFits`, `StoredIsDelivered`).

The proofs assume only what the modules declare: `Stage1Assumption`,
`EntityServiceAssumption`, `OutboxServiceAssumption`, `BackofficeAssumption`,
`HubLambdaClientAssumption` and `RegistryAssumption` (handlers and runs are callers,
of which there are finitely many; in the process they are all the callers and
nobody is both; bounds and limits are natural numbers, positive where the code's are)
and `NullIsNoRecord` and `NullIsNoId` (`Null` is no document, item, request or id).  That new documents and
requests get fresh ids is part of the model (`Create`, `BuildPayload`), not an
assumption.

Only model-checked: liveness and what rests on fairness (`EventuallySettled`,
`RunEnds`, `HeadersOrFailure`), which the prover does not reach, and the violations
that runs find, of which the theorems just named prove the other side.  For two of
them, `WaitingItemIsRetried` and `CreateRequiresReferences`, there is no such side:
the first is liveness, the second fails for one request alone.

## Not modelled

* The formats that a DTO checks (URLs, lengths, patterns): in `Registry` a value is
  empty or not.  Logging, wording of errors, the hello route, the port and the wiring
  of the modules: they keep no state.
* The length of the backoff (`due` is whether it has passed); `sleep()`, which
  nobody calls.
* Database and clock faults in `Registry`: its requests run one after the other, and
  only calls to Stage 1 fail; `EntityService` has the others.
* `clients_temp`: dead code.  `scripts/`: a client of the API and a seeder of another
  service's database.
* Two processes over one database.  The repository starts one; the services would
  interleave as handlers do, but a crash would spare the other process.
* An item that enters as PENDING: `enqueue` does that if the error text is empty.
  `makeRequest` has a text for every failure but an exception that comes without a
  message, which is left out.
* The wait for the body of an answer ends, in the model as in the code, when the
  connection does; no property says when, for the repository sets no limit to it.
* What Stage 1 does with a request.  It is external: an upsert of a whole entity, with
  both readings of a repeated request id.

## Plan

The order in which the project was built, each module with its runs and proofs:
`Stage1`, `OutboxItem`, `EntityService`, `OutboxService`, `Backoffice`, `KeyedService`,
`LambdaCall` / `HubLambdaClient`, `SyncPayload`, `Registry`, `BackofficeProofs`,
`DivergenceProofs`, `Delivery` with its refinement.

What could follow: a variant function for the runs of `processPending` (that every step
of a run brings its end nearer is a safety property, and the part of `RunEnds` that a
proof can reach); `Registry` with two requests at a time, which the two cuts through
the system leave apart; a weaker form of `EventuallySettled` for a batch that is smaller
than the queue, if the filter of `processPending` ever leaves exhausted items out.
