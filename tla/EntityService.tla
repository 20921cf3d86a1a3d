--------------------------- MODULE EntityService ---------------------------
(***************************************************************************)
(* ClientsService, TenantsService and ApplicationsService together with    *)
(* SyncService.sync: the handlers of one entity type, each serving one     *)
(* HTTP request at a time and interleaving with the others at every await. *)
(* The three services have the same control; the field name stands for     *)
(* the fields a type has of its own.  Line numbers below are those of      *)
(* clients.service.ts.                                                     *)
(*                                                                         *)
(* A document is loaded, changed and saved through mongoose: save() sends  *)
(* only the paths that were modified, and never refreshes the others.      *)
(***************************************************************************)
EXTENDS Stage1, OutboxItem

CONSTANTS
    Handlers,     \* HTTP requests served at the same time
    Versioned,    \* name is an array: redirect_uris of an application
    Faults        \* the faults of this run

ASSUME EntityServiceAssumption ==
    /\ Handlers \subseteq Callers
    /\ Versioned \in BOOLEAN
    /\ Faults \subseteq {"crash", "mongo", "config"}

VARIABLES
    db,           \* the collection: id |-> stored document, or Null
    handlers,     \* handler |-> its program counter and locals
    outbox        \* the collection sync_outbox: request_id |-> item, or Null

serviceVars == <<db, handlers, outbox>>
vars == <<stage1Vars, serviceVars>>

LastSync == [ok: BOOLEAN, request_id: Rids]

Doc == [name: Names, enabled: BOOLEAN, deleted: BOOLEAN, v: Nat,
        last_sync: LastSync \cup {Null}]

\* Null tells "not there" from every id and every record that may be there.
ASSUME NullIsNoId == Null \notin Ids

ASSUME NullIsNoRecord == Null \notin Doc /\ Null \notin Item /\ Null \notin Request

Answers == {"none", "ok", "not_found", "conflict", "error"}

Handler == [pc: {"idle", "save", "sync", "await", "enqueue", "last_sync"},
            id: Ids \cup {Null},
            doc: Doc \cup {Null},                       \* the hydrated document
            dirty: SUBSET {"name", "enabled", "deleted"},  \* its modified paths
            request_id: Rids \cup {Null},
            ok: BOOLEAN,
            answer: Answers]                            \* the last HTTP answer

\* The handler has answered and its locals are gone.
Ended(answer) ==
    [pc |-> "idle", id |-> Null, doc |-> Null, dirty |-> {},
     request_id |-> Null, ok |-> FALSE, answer |-> answer]

TypeOK ==
    /\ Stage1TypeOK
    /\ db \in [Ids -> Doc \cup {Null}]
    /\ handlers \in [Handlers -> Handler]
    /\ outbox \in [Rids -> Item \cup {Null}]

Init ==
    /\ Stage1Init
    /\ db = [i \in Ids |-> Null]
    /\ handlers = [h \in Handlers |-> Ended("none")]
    /\ outbox = [r \in Rids |-> Null]

-----------------------------------------------------------------------------

Fresh == {r \in Rids : requests[r] = Null}

\* The bounds of a run: an operation starts only while a request id is left
\* for the synchronisation it will want, and while no array has been set as
\* many times as there are request ids (a crash may spare the id).
WithinBound ==
    /\ Cardinality({h \in Handlers : handlers[h].pc \in {"save", "sync"}})
          < Cardinality(Fresh)
    /\ \A i \in Ids : db[i] # Null => db[i].v < Cardinality(Rids)

Idle(h) == handlers[h].pc = "idle"

At(h, pc) == handlers[h].pc = pc

\* findById(id).where('deleted_at').equals(null)
Visible(i) == db[i] # Null /\ ~db[i].deleted

Loaded(h, i, doc, dirty) ==
    [Ended("none") EXCEPT !.pc = "save", !.id = i, !.doc = doc, !.dirty = dirty]

\* Paths that mongoose marks as modified: assigning the current value to one,
\* or not assigning it at all, leaves it unmodified.
Modified(old, new) ==
    (IF old.name # new.name THEN {"name"} ELSE {})
      \cup (IF old.enabled # new.enabled THEN {"enabled"} ELSE {})
      \cup (IF old.deleted # new.deleted THEN {"deleted"} ELSE {})

\* create: the document is built in memory under an ObjectId of its own.
Create(h, i, name, enabled) ==
    /\ Idle(h)
    /\ WithinBound
    /\ db[i] = Null
    /\ \A g \in Handlers : handlers[g].id # i
    /\ handlers' = [handlers EXCEPT ![h] =
                      Loaded(h, i, [name |-> name, enabled |-> enabled,
                                    deleted |-> FALSE, v |-> 0,
                                    last_sync |-> Null],
                             {"name", "enabled", "deleted"})]
    /\ UNCHANGED <<stage1Vars, db, outbox>>

\* update: the document is found and the dto assigned over it.
Update(h, i, name, enabled) ==
    /\ Idle(h)
    /\ WithinBound
    /\ Visible(i)
    /\ LET new == [db[i] EXCEPT !.name = name, !.enabled = enabled]
       IN  handlers' = [handlers EXCEPT ![h] =
                          Loaded(h, i, new, Modified(db[i], new))]
    /\ UNCHANGED <<stage1Vars, db, outbox>>

\* delete: soft, as an assignment to two paths of the document found.
Delete(h, i) ==
    /\ Idle(h)
    /\ WithinBound
    /\ Visible(i)
    /\ LET new == [db[i] EXCEPT !.enabled = FALSE, !.deleted = TRUE]
       IN  handlers' = [handlers EXCEPT ![h] =
                          Loaded(h, i, new, Modified(db[i], new))]
    /\ UNCHANGED <<stage1Vars, db, outbox>>

\* findOne, and the NotFoundException that update and delete share with it.
FindOne(h, i) ==
    /\ Idle(h)
    /\ handlers' = [handlers EXCEPT ![h] =
                      Ended(IF Visible(i) THEN "ok" ELSE "not_found")]
    /\ UNCHANGED <<stage1Vars, db, outbox>>

-----------------------------------------------------------------------------
(* document.save() before the synchronisation. *)

\* Setting a whole array adds the loaded __v to the filter of the update.
SetsArray(h) ==
    Versioned /\ db[handlers[h].id] # Null /\ "name" \in handlers[h].dirty

StaleVersion(h) == SetsArray(h) /\ db[handlers[h].id].v # handlers[h].doc.v

\* Mutants of Saved: the whole document is written back, or __v is not counted.
SavedWhole(stored, doc, dirty, increment) ==
    IF stored = Null THEN doc ELSE [doc EXCEPT !.v = stored.v + increment]

SavedUncounted(stored, doc, dirty, increment) ==
    IF stored = Null
    THEN doc
    ELSE [stored EXCEPT
            !.name    = IF "name" \in dirty THEN doc.name ELSE @,
            !.enabled = IF "enabled" \in dirty THEN doc.enabled ELSE @,
            !.deleted = IF "deleted" \in dirty THEN doc.deleted ELSE @]

\* The stored document after save(): an insert, or $set of the modified paths.
Saved(stored, doc, dirty, increment) ==
    IF stored = Null
    THEN doc
    ELSE [stored EXCEPT
            !.name    = IF "name" \in dirty THEN doc.name ELSE @,
            !.enabled = IF "enabled" \in dirty THEN doc.enabled ELSE @,
            !.deleted = IF "deleted" \in dirty THEN doc.deleted ELSE @,
            !.v       = @ + increment]

Save(h) ==
    LET l == handlers[h]
        increment == IF SetsArray(h) THEN 1 ELSE 0
        memory == [l.doc EXCEPT !.v = @ + increment]
    IN  /\ At(h, "save")
        /\ ~StaleVersion(h)
        /\ db' = [db EXCEPT ![l.id] = Saved(@, l.doc, l.dirty, increment)]
        /\ handlers' = [handlers EXCEPT ![h] =
                          [l EXCEPT !.pc = "sync", !.dirty = {}, !.doc = memory]]
        /\ UNCHANGED <<stage1Vars, outbox>>

\* Mutant of SaveFails: the error is swallowed like that of a synchronisation.
SaveFailsUnseen(h) ==
    /\ At(h, "save")
    /\ StaleVersion(h) \/ "mongo" \in Faults
    /\ handlers' = [handlers EXCEPT ![h].pc = "sync"]
    /\ UNCHANGED <<stage1Vars, db, outbox>>

\* VersionError, or the database is out of reach: the request fails.
SaveFails(h) ==
    /\ At(h, "save")
    /\ StaleVersion(h) \/ "mongo" \in Faults
    /\ handlers' = [handlers EXCEPT ![h] = Ended("error")]
    /\ UNCHANGED <<stage1Vars, db, outbox>>

\* The database has stored the document, but its answer is lost and save()
\* rejects: the request fails and nothing is synchronised.
SaveUnconfirmed(h) ==
    LET l == handlers[h]
        increment == IF SetsArray(h) THEN 1 ELSE 0
    IN  /\ At(h, "save")
        /\ "mongo" \in Faults
        /\ ~StaleVersion(h)
        /\ db' = [db EXCEPT ![l.id] = Saved(@, l.doc, l.dirty, increment)]
        /\ handlers' = [handlers EXCEPT ![h] = Ended("error")]
        /\ UNCHANGED <<stage1Vars, outbox>>

-----------------------------------------------------------------------------
(* SyncService: the payload is made of the document in memory. *)

BuildPayload(h, r) ==
    /\ requests[r] = Null
    /\ requests' = [requests EXCEPT ![r] =
                      [id |-> handlers[h].id,
                       body |-> [name |-> handlers[h].doc.name,
                                 enabled |-> handlers[h].doc.enabled]]]

\* Mutants of Sync: the request id is not kept; the item is queued first.
SyncForgetsId(h, r) ==
    /\ At(h, "sync")
    /\ BuildPayload(h, r)
    /\ Post(h, r)
    /\ handlers' = [handlers EXCEPT ![h].pc = "await", ![h].doc = Null]
    /\ UNCHANGED <<late, remote, applied, db, outbox>>

SyncQueuesFirst(h, r) ==
    /\ At(h, "sync")
    /\ BuildPayload(h, r)
    /\ Post(h, r)
    /\ handlers' = [handlers EXCEPT ![h].pc = "await", ![h].request_id = r,
                                    ![h].doc = Null]
    /\ outbox' = [outbox EXCEPT ![r] = NewItem(FALSE)]
    /\ UNCHANGED <<late, remote, applied, db>>

\* fetch() is called with a payload built from the document in memory, of
\* which only the id is used from then on.
Sync(h, r) ==
    /\ At(h, "sync")
    /\ BuildPayload(h, r)
    /\ Post(h, r)
    /\ handlers' = [handlers EXCEPT ![h].pc = "await", ![h].request_id = r,
                                    ![h].doc = Null]
    /\ UNCHANGED <<late, remote, applied, db, outbox>>

\* Mutant of SyncThrows: sync has no catch around the call.
SyncThrowsOut(h, r) ==
    /\ At(h, "sync")
    /\ "config" \in Faults
    /\ BuildPayload(h, r)
    /\ handlers' = [handlers EXCEPT ![h] = Ended("ok")]
    /\ UNCHANGED <<calls, late, remote, applied, db, outbox>>

\* upsert* throws before it calls: the URL of the type is not configured.
SyncThrows(h, r) ==
    /\ At(h, "sync")
    /\ "config" \in Faults
    /\ BuildPayload(h, r)
    /\ handlers' = [handlers EXCEPT ![h].pc = "enqueue", ![h].request_id = r,
                                    ![h].doc = Null]
    /\ UNCHANGED <<calls, late, remote, applied, db, outbox>>

\* Mutant of LambdaOk: the item is queued whatever the answer.
LambdaOkQueued(h) ==
    /\ At(h, "await")
    /\ ReadOk(h)
    /\ handlers' = [handlers EXCEPT ![h].pc = "enqueue", ![h].ok = TRUE]
    /\ UNCHANGED <<requests, remote, applied, db, outbox>>

\* response.ok is true.
LambdaOk(h) ==
    /\ At(h, "await")
    /\ ReadOk(h)
    /\ handlers' = [handlers EXCEPT ![h].pc = "last_sync", ![h].ok = TRUE]
    /\ UNCHANGED <<requests, remote, applied, db, outbox>>

\* Mutant of LambdaFails: a failure is reported as a success.
LambdaFailsAsOk(h) ==
    /\ At(h, "await")
    /\ ReadFailure(h)
    /\ handlers' = [handlers EXCEPT ![h].pc = "last_sync", ![h].ok = TRUE]
    /\ UNCHANGED <<requests, remote, applied, db, outbox>>

\* response.ok is false, for whatever reason.
LambdaFails(h) ==
    /\ At(h, "await")
    /\ ReadFailure(h)
    /\ handlers' = [handlers EXCEPT ![h].pc = "enqueue", ![h].ok = FALSE]
    /\ UNCHANGED <<requests, remote, applied, db, outbox>>

\* outboxModel.create.  The error text that sync passes on is taken to be
\* non-empty: makeRequest has one for every failure, and an exception of fetch
\* or of json() that comes without a message is left out.
Enqueue(h) ==
    /\ At(h, "enqueue")
    /\ outbox' = [outbox EXCEPT ![handlers[h].request_id] = NewItem(TRUE)]
    /\ handlers' = [handlers EXCEPT ![h].pc = "last_sync"]
    /\ UNCHANGED <<stage1Vars, db>>

\* Mutants of EnqueueFails: sync goes on; the error leaves the service.
EnqueueFailsUnseen(h) ==
    /\ At(h, "enqueue")
    /\ "mongo" \in Faults
    /\ handlers' = [handlers EXCEPT ![h].pc = "last_sync"]
    /\ UNCHANGED <<stage1Vars, db, outbox>>

EnqueueFailsLoudly(h) ==
    /\ At(h, "enqueue")
    /\ "mongo" \in Faults
    /\ handlers' = [handlers EXCEPT ![h] = Ended("error")]
    /\ UNCHANGED <<stage1Vars, db, outbox>>

\* The rejection of create() leaves sync and is swallowed by the service.
EnqueueFails(h) ==
    /\ At(h, "enqueue")
    /\ "mongo" \in Faults
    /\ handlers' = [handlers EXCEPT ![h] = Ended("ok")]
    /\ UNCHANGED <<stage1Vars, db, outbox>>

\* The item is stored, but create() rejects: its answer is lost.
EnqueueUnconfirmed(h) ==
    /\ At(h, "enqueue")
    /\ "mongo" \in Faults
    /\ outbox' = [outbox EXCEPT ![handlers[h].request_id] = NewItem(TRUE)]
    /\ handlers' = [handlers EXCEPT ![h] = Ended("ok")]
    /\ UNCHANGED <<stage1Vars, db>>

SaveLastSync(h) ==
    LET l == handlers[h]
    IN  /\ At(h, "last_sync")
        /\ db' = [db EXCEPT ![l.id].last_sync =
                    [ok |-> l.ok, request_id |-> l.request_id]]
        /\ handlers' = [handlers EXCEPT ![h] = Ended("ok")]
        /\ UNCHANGED <<stage1Vars, outbox>>

SaveLastSyncFails(h) ==
    /\ At(h, "last_sync")
    /\ "mongo" \in Faults
    /\ handlers' = [handlers EXCEPT ![h] = Ended("ok")]
    /\ UNCHANGED <<stage1Vars, db, outbox>>

\* The process stops and restarts: collections survive, handlers do not.
Crash ==
    /\ "crash" \in Faults
    /\ DropCalls
    /\ handlers' = [h \in Handlers |-> Ended("none")]
    /\ UNCHANGED <<requests, remote, applied, db, outbox>>

-----------------------------------------------------------------------------

\* Requests about a document that exists, or does not.
UseExisting(h) ==
    \/ \E i \in Ids : FindOne(h, i) \/ Delete(h, i)
    \/ \E i \in Ids, name \in Names, enabled \in BOOLEAN :
          Update(h, i, name, enabled)

\* What follows a successful save.
Synchronise(h) ==
    \/ \E r \in Rids : Sync(h, r) \/ SyncThrows(h, r)
    \/ LambdaOk(h) \/ LambdaFails(h)
    \/ Enqueue(h) \/ EnqueueFails(h) \/ EnqueueUnconfirmed(h)
    \/ SaveLastSync(h) \/ SaveLastSyncFails(h)

HandlerStep(h) ==
    \/ \E i \in Ids, name \in Names, enabled \in BOOLEAN :
          Create(h, i, name, enabled)
    \/ UseExisting(h)
    \/ Save(h) \/ SaveFails(h) \/ SaveUnconfirmed(h)
    \/ Synchronise(h)

Next ==
    \/ \E h \in Handlers : HandlerStep(h)
    \/ Stage1Step /\ UNCHANGED serviceVars
    \/ Crash

Spec == Init /\ [][Next]_vars

-----------------------------------------------------------------------------
(* What the handlers promise. *)

BodyOf(doc) == [name |-> doc.name, enabled |-> doc.enabled]

\* A document never claims a successful synchronisation that Stage 1 did not
\* perform: last_sync.ok stands for a request that was really applied, even
\* when handlers interleave, calls arrive late or the process restarts.
OkMeansApplied ==
    \A i \in Ids :
        db[i] # Null /\ db[i].last_sync # Null /\ db[i].last_sync.ok
            => db[i].last_sync.request_id \in applied

\* A document whose last_sync reports a failure has that very request, for
\* itself, in sync_outbox: sync enqueues before it returns, so neither a
\* crash nor a failing database leaves the report without the item.
FailureIsQueued ==
    \A i \in Ids :
        db[i] # Null /\ db[i].last_sync # Null /\ ~db[i].last_sync.ok
            => LET r == db[i].last_sync.request_id
               IN  outbox[r] # Null /\ requests[r] # Null /\ requests[r].id = i

\* Stage 1 never knows an entity that the back office does not store: every
\* service saves first and synchronises afterwards.
RemoteKnowsOnlyStored ==
    \A i \in Ids : remote[i] # Null => db[i] # Null

\* A soft-deleted document stays deleted, although updates that loaded it
\* before the delete are saved after it: save() sends modified paths only.
DeletedIsFinal ==
    [][\A i \in Ids : db[i] # Null /\ db[i].deleted
                         => db'[i] # Null /\ db'[i].deleted]_vars

\* Once the document is saved nothing that happens to the synchronisation
\* turns the answer into an error (a crash gives no answer at all).
SyncNeverFailsCrud ==
    [][\A h \in Handlers :
         handlers[h].pc \in {"sync", "await", "enqueue", "last_sync"}
           => handlers'[h].answer \in {"none", "ok"}]_vars

\* ENDPOINTS_LAMBDA_COMPLETO.md:243-249 says of every create, update and
\* delete that the change is persisted, the payload built and then sent, and
\* docs/forlambda.md:119-156 shows that the payload has the values of the
\* document in MongoDB.  So what save() leaves in the collection and what its
\* handler goes on to send are the same; a second handler that has changed
\* another field of the document in the meantime makes them differ.
SendsWhatIsStored ==
    [][\A h \in Handlers :
         handlers[h].pc = "save" /\ handlers'[h].pc = "sync"
           => BodyOf(handlers'[h].doc) = BodyOf(db'[handlers[h].id])]_vars

\* Applications only: while the stored __v is the one a handler loaded, the
\* stored redirect_uris are the ones it loaded, so the filter on __v is
\* enough for no update of redirect_uris to overwrite another one unseen.
VersionIdentifiesArray ==
    \A h \in Handlers :
        LET l == handlers[h]
        IN  /\ l.pc = "save"
            /\ db[l.id] # Null
            /\ l.doc.v = db[l.id].v
            => ("name" \in l.dirty <=> l.doc.name # db[l.id].name)

\* docs/SMOKE.md:173 says a soft delete leaves enabled=false and deleted_at
\* set; an update that loaded the document before the delete and is saved
\* after it enables the deleted document again.
DeletedIsDisabled ==
    \A i \in Ids : db[i] # Null /\ db[i].deleted => ~db[i].enabled

=============================================================================
