------------------------------ MODULE Registry ------------------------------
(***************************************************************************)
(* The admin API over all five collections: controllers, validation,       *)
(* services, SyncService and a retry from the outbox, field by field.  One *)
(* request is served after the other and runs to its end, which is how the *)
(* guides in docs/ use the API; EntityService and OutboxService hold the   *)
(* interleavings inside a request, for one entity type.                    *)
(*                                                                         *)
(* A value of a field is one of Texts, a flag, the id of another entity,   *)
(* or Empty: the "" or null that a validator of a DTO may let through and  *)
(* that "required" of a schema refuses.                                    *)
(***************************************************************************)
EXTENDS Naturals, Sequences, SyncPayload, OutboxItem

CONSTANTS
    Ids,          \* ObjectIds, of whatever type
    Malformed,    \* an id in a URL that is no ObjectId
    Texts,        \* values of text fields
    Empty,
    MaxSyncs,     \* requests built for Stage 1 (bounds the run)
    MaxQueued,    \* of which that many fail (bounds the run)
    MaxAttempts,
    Null

ASSUME RegistryAssumption ==
    /\ MaxAttempts \in Nat \ {0}
    /\ {MaxSyncs, MaxQueued} \subseteq Nat
    /\ Malformed \notin Ids

VARIABLES
    db,           \* id |-> the stored document, or Null
    syncs,        \* how many requests were built
    outbox,       \* sync_outbox in order of creation: items with their payload
    remote,       \* Stage 1: endpoint |-> id |-> entity, or Null
    answer,       \* the answer to the last HTTP request
    asked         \* history: id |-> the values the API was asked to store

vars == <<db, syncs, outbox, remote, answer, asked>>

Flags == {"yes", "no"}
FlagFields == {"enabled", "allow_auto_link", "pkce_required"}
References == {"client_id", "tenant_id", "default_tenant_id", "application_id"}

\* The types a reference may name.  tenant_id of a domain is filled with the
\* id of a client by scripts/seed-full-flow.sh and with that of a tenant by
\* the guides.
ReferredTypes ==
    [client_id |-> {"client"}, tenant_id |-> {"client", "tenant"},
     default_tenant_id |-> {"tenant"}, application_id |-> {"application"}]

Values(f) ==
    CASE f \in FlagFields -> Flags
      [] f \in References -> Ids
      [] OTHER            -> Texts

Value == Flags \cup Ids \cup Texts \cup {Empty, "inner"}

AllFields == UNION {Fields(t) : t \in Types}

\* A document, and an entity of Stage 1, with the given fields.
DocWith(fields) ==
    [type: Types, data: [fields -> Value], deleted: BOOLEAN, last_sync: BOOLEAN]

EntityWith(fields) == [fields -> Value]

\* Null tells "not there" from each of them.
ASSUME NullIsNoRecord ==
    \A fields \in SUBSET (AllFields \cup {"id", "__v"}) :
        Null \notin DocWith(fields) /\ Null \notin EntityWith(fields)

Answers == {"none", "ok", "bad_request", "not_found", "conflict", "error"}

Endpoints == {"clients", "tenants", "applications", "domains", "branding"}

\* The entity type that the Stage 1 endpoint behind a URL keeps.
Serves ==
    [clients |-> "client", tenants |-> "tenant", applications |-> "application",
     domains |-> "domain", branding |-> "branding"]

Init ==
    /\ db = [i \in Ids |-> Null]
    /\ syncs = 0
    /\ outbox = <<>>
    /\ remote = [e \in Endpoints |-> [i \in Ids |-> Null]]
    /\ answer = "none"
    /\ asked = [i \in Ids |-> Null]

-----------------------------------------------------------------------------
(* From an entity type to a Stage 1 endpoint. *)

UrlOf ==
    [upsertClient |-> "clients", upsertTenant |-> "tenants",
     upsertApplication |-> "applications", upsertDomain |-> "domains",
     upsertBranding |-> "branding"]

\* The switch of SyncService.sync.
SyncCalls ==
    [tenant |-> "upsertTenant", application |-> "upsertApplication",
     client |-> "upsertClient", domain |-> "upsertDomain",
     branding |-> "upsertBranding"]

\* Mutant of LambdaCalls: the names before clients became applications.
LambdaCallsRenamed ==
    [tenant |-> "upsertTenant", application |-> "upsertClient",
     client |-> "upsertTenant", domain |-> "upsertDomain",
     branding |-> "upsertBranding"]

\* The switch of OutboxService.callLambda.
LambdaCalls ==
    [tenant |-> "upsertTenant", application |-> "upsertApplication",
     client |-> "upsertClient", domain |-> "upsertDomain",
     branding |-> "upsertBranding"]

\* Stage 1 replaces the whole entity.
Applied(e, i, entity) == [remote EXCEPT ![e][i] = entity]

-----------------------------------------------------------------------------
(* Requests and their validation. *)

\* Mutant of Visible: deleted documents are found.
VisibleDeleted(t, i) == db[i] # Null /\ db[i].type = t

\* findById(id).where('deleted_at').equals(null), in the collection of t.
Visible(t, i) == db[i] # Null /\ db[i].type = t /\ ~db[i].deleted

\* ParseObjectIdPipe.
WellFormed(i) == i # Malformed

\* ValidationPipe with whitelist and forbidNonWhitelisted.
CreateAccepted(t, dto) ==
    /\ CreateDto[t].must \subseteq DOMAIN dto
    /\ DOMAIN dto \subseteq CreateDto[t].must \cup CreateDto[t].may
    /\ \A f \in DOMAIN dto :
          dto[f] = Empty => f \in CreateDto[t].may \cup CreateDto[t].text

UpdateAccepted(t, f) == f \in UpdateDto[t]

\* The validators of the schema, which save() runs.
SchemaAccepts(t, data) ==
    /\ Schema[t].required \subseteq DOMAIN data
    /\ \A f \in Schema[t].required : data[f] # Empty

\* create() of domains looks at all documents, that of brandings at those
\* that are not deleted; the unique index looks at all.
SameKey(t, data, i) ==
    /\ db[i] # Null
    /\ db[i].type = t
    /\ db[i].data[KeyField[t]] = data[KeyField[t]]

Conflicts(t, data) ==
    /\ t \in DOMAIN KeyField
    /\ \E i \in Ids : SameKey(t, data, i) /\ (t = "branding" => ~db[i].deleted)

Duplicates(t, data) ==
    t \in DOMAIN KeyField /\ \E i \in Ids : SameKey(t, data, i)

\* The document that create() builds from a dto.
Built(t, dto) ==
    [f \in (DOMAIN dto \cap New[t]) \cup {"enabled"} |->
        IF f \in DOMAIN dto THEN dto[f] ELSE "yes"]

\* data with field f set to value.
With(data, f, value) ==
    [g \in DOMAIN data \cup {f} |-> IF g = f THEN value ELSE data[g]]

\* A body with the given fields.
Filled(fields, text, ref, flag) ==
    [f \in fields |-> CASE f \in FlagFields -> flag
                        [] f \in References -> ref
                        [] OTHER            -> text]

\* The bodies that are tried for a type: every field, or those that must be
\* there; one of these left out, one that is Empty, or one that no DTO knows.
Variants(must, full, text, ref) ==
    LET body == Filled(full, text, ref, "no")
    IN  {body, Filled(must, text, ref, "yes"), With(body, "_id", text)}
          \cup {Filled(full \ {f}, text, ref, "no") : f \in must}
          \cup {With(body, f, Empty) : f \in full}

\* The bodies of POST.
Bodies ==
    [t \in Types |->
        UNION {Variants(CreateDto[t].must, CreateDto[t].must \cup CreateDto[t].may,
                        text, ref) : text \in Texts, ref \in Ids}]

\* What ValidationPipe makes of each.
AcceptedBodies == [t \in Types |-> {dto \in Bodies[t] : CreateAccepted(t, dto)}]

-----------------------------------------------------------------------------
(* The services. *)

Answer(a) ==
    /\ answer' = a
    /\ UNCHANGED <<db, syncs, outbox, remote, asked>>

\* save(), the synchronisation and last_sync of a service, for a document as
\* it is in memory.  A call that fails may have been applied.
SaveAndSync(i, doc) ==
    LET entity == Payload(doc)
        now    == Applied(UrlOf[SyncCalls[doc.type]], i, entity)
    IN  /\ syncs < MaxSyncs
        /\ syncs' = syncs + 1
        /\ db' = [db EXCEPT ![i] = [doc EXCEPT !.last_sync = TRUE]]
        /\ answer' = "ok"
        /\ \/ remote' = now /\ UNCHANGED outbox
           \/ /\ Len(outbox) < MaxQueued
              /\ remote' \in {remote, now}
              /\ outbox' = Append(outbox, [entity_type |-> doc.type, entity_key |-> i,
                                          payload |-> entity, item |-> NewItem(TRUE)])

Create(t, i, dto) ==
    /\ dto \in AcceptedBodies[t]
    /\ ~Conflicts(t, Built(t, dto))
    /\ SchemaAccepts(t, Built(t, dto))
    /\ ~Duplicates(t, Built(t, dto))
    /\ db[i] = Null
    /\ SaveAndSync(i, [type |-> t, data |-> Built(t, dto), deleted |-> FALSE,
                       last_sync |-> FALSE])
    /\ asked' = [asked EXCEPT ![i] =
                   IF "enabled" \in DOMAIN dto THEN dto
                   ELSE With(dto, "enabled", "yes")]

\* 400 from ValidationPipe; 409 from the check; 500 from save(), whether a
\* validator of the schema or the unique index rejects.
CreateRefused(t, dto) ==
    \/ dto \notin AcceptedBodies[t] /\ Answer("bad_request")
    \/ /\ dto \in AcceptedBodies[t]
       /\ \/ Conflicts(t, Built(t, dto)) /\ Answer("conflict")
          \/ /\ ~Conflicts(t, Built(t, dto))
             /\ ~SchemaAccepts(t, Built(t, dto)) \/ Duplicates(t, Built(t, dto))
             /\ Answer("error")

Update(t, i, f, value) ==
    /\ UpdateAccepted(t, f)
    /\ Visible(t, i)
    /\ LET new == With(db[i].data, f, value)
       IN  SchemaAccepts(t, new) /\ SaveAndSync(i, [db[i] EXCEPT !.data = new])
    /\ asked' = [asked EXCEPT ![i] = With(@, f, value)]

UpdateRefused(t, i, f, value) ==
    \/ ~UpdateAccepted(t, f) /\ Answer("bad_request")
    \/ UpdateAccepted(t, f) /\ ~Visible(t, i) /\ Answer("not_found")
    \/ /\ UpdateAccepted(t, f)
       /\ Visible(t, i)
       /\ ~SchemaAccepts(t, With(db[i].data, f, value))
       /\ Answer("error")

Delete(t, i) ==
    /\ Visible(t, i)
    /\ SaveAndSync(i, [db[i] EXCEPT !.data = With(@, "enabled", "no"),
                                    !.deleted = TRUE])
    /\ asked' = [asked EXCEPT ![i] = With(@, "enabled", "no")]

-----------------------------------------------------------------------------
(* The controllers: POST, GET, GET :id, PATCH :id and DELETE :id. *)

Post(t) ==
    \E dto \in Bodies[t] :
        \/ CreateRefused(t, dto)
        \/ \E i \in Ids : Create(t, i, dto)

GetOne(t, i) == Answer(IF Visible(t, i) THEN "ok" ELSE "not_found")

Patch(t, i) ==
    \E f \in Fields(t) : \E value \in Values(f) \cup {Empty} :
        \/ UpdateRefused(t, i, f, value)
        \/ Update(t, i, f, value)

Remove(t, i) ==
    \/ ~Visible(t, i) /\ Answer("not_found")
    \/ Delete(t, i)

Serve(t) ==
    \/ Post(t)
    \/ Answer("ok")                                               \* GET
    \/ \E i \in Ids \cup {Malformed} :
          IF WellFormed(i) THEN GetOne(t, i) \/ Patch(t, i) \/ Remove(t, i)
                           ELSE Answer("bad_request")

ClientsController == Serve("client")
TenantsController == Serve("tenant")
ApplicationsController == Serve("application")
DomainsController == Serve("domain")

\* GET ?tenant_id= has no pipe: new Types.ObjectId() throws.
BrandingsController == Serve("branding") \/ Answer("error")

\* A run of the outbox that comes to its k-th item.  One whose attempts are
\* used up stays as it is.
Retry(k) ==
    LET q   == outbox[k]
        now == Applied(UrlOf[LambdaCalls[q.entity_type]], q.entity_key, q.payload)
    IN  /\ q.item.status \in {"PENDING", "FAILED"}
        /\ q.item.attempts < MaxAttempts
        /\ \/ /\ remote' = now
              /\ outbox' = [outbox EXCEPT ![k].item.status = "SENT",
                                          ![k].item.attempts = @ + 1]
           \/ /\ remote' \in {remote, now}
              /\ outbox' = [outbox EXCEPT ![k].item.status = "FAILED",
                                          ![k].item.attempts = @ + 1]
        /\ answer' = "none"
        /\ UNCHANGED <<db, syncs, asked>>

Next ==
    \/ ClientsController \/ TenantsController \/ ApplicationsController
    \/ DomainsController \/ BrandingsController
    \/ \E k \in DOMAIN outbox : Retry(k)

Spec == Init /\ [][Next]_vars

-----------------------------------------------------------------------------

\* An item explains what Stage 1 has of entity i: it is still to be delivered,
\* or it is what Stage 1 was given last.
Explained(i) ==
    \E k \in DOMAIN outbox :
        LET q == outbox[k]
        IN  /\ q.entity_key = i
            /\ \/ q.item.status # "SENT"
               \/ remote[UrlOf[LambdaCalls[q.entity_type]]][i] = q.payload

TypeOK ==
    /\ \A i \in Ids :
          db[i] # Null =>
            /\ db[i].type \in Types
            /\ DOMAIN db[i].data \subseteq Fields(db[i].type)
            /\ \A f \in DOMAIN db[i].data : db[i].data[f] \in Values(f) \cup {Empty}
            /\ db[i].deleted \in BOOLEAN
            /\ db[i].last_sync \in BOOLEAN
    /\ \A k \in DOMAIN outbox : outbox[k].item \in Item
    /\ answer \in Answers

\* What the API accepted for a field is what Stage 1 has for it, unless an item
\* of the outbox is undelivered or was delivered last: no list of fields on the
\* way (DTO, constructor, schema, payload) drops one that another lets in, and
\* the next request that gets through puts right what a retry set back.
ReachesStage1 ==
    \A i \in Ids :
        db[i] # Null /\ ~Explained(i) =>
            \E e \in Endpoints :
                /\ Serves[e] = db[i].type
                /\ remote[e][i] # Null
                /\ \A f \in Fields(db[i].type) :
                      /\ f \in DOMAIN asked[i] <=> f \in DOMAIN remote[e][i]
                      /\ f \in DOMAIN asked[i] => remote[e][i][f] = asked[i][f]

\* docs/forlambda.md:613-615: timestamps, deleted_at and last_sync are never
\* sent, although every field that is not omitted by name is.  __v is.
InnerStaysInside ==
    \A e \in Endpoints, i \in Ids :
        remote[e][i] # Null =>
            DOMAIN remote[e][i] \subseteq Fields(Serves[e]) \cup {"id", "__v"}

\* Every endpoint of Stage 1 only ever gets entities of its own type, from the
\* services as from the outbox: the two switches agree.
EndpointsKeepTheirType ==
    \A e \in Endpoints, i \in Ids :
        remote[e][i] # Null => db[i] # Null /\ db[i].type = Serves[e]

\* After a delete the entity is disabled in the collection for good, and in
\* Stage 1 unless an item of it is undelivered or was delivered last: only the
\* retry of an older request can switch a deleted entity on again.
DeletedIsOff ==
    \A i \in Ids :
        db[i] # Null /\ db[i].deleted =>
            /\ db[i].data["enabled"] = "no"
            /\ ~Explained(i) =>
                 \A e \in Endpoints :
                     remote[e][i] # Null => remote[e][i]["enabled"] = "no"

\* The key of a stored document never changes, whatever a PATCH holds:
\* create() checks it only once, and Stage 1 knows the entity by it.
KeysAreFinal ==
    [][\A i \in Ids :
         db[i] # Null =>
             /\ db'[i] # Null
             /\ db'[i].type = db[i].type
             /\ db[i].type \in DOMAIN KeyField =>
                  LET k == KeyField[db[i].type]
                  IN  db'[i].data[k] = db[i].data[k]]_vars

\* docs/JERARQUIA_POSTMAN.md:263-265 wants the entities that a new one refers
\* to to exist; nothing looks for them.
CreateRequiresReferences ==
    [][\A i \in Ids :
         db[i] = Null /\ db'[i] # Null =>
             \A f \in DOMAIN db'[i].data \cap References :
                 LET ref == db'[i].data[f]
                 IN  \/ ref = Empty
                     \/ db[ref] # Null /\ db[ref].type \in ReferredTypes[f]]_vars

=============================================================================
