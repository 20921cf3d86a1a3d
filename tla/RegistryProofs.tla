--------------------------- MODULE RegistryProofs ---------------------------
(***************************************************************************)
(* Theorems about Registry for any ids, texts and bounds: what the API     *)
(* accepts reaches Stage 1 unchanged or is queued, and nothing else does.  *)
(***************************************************************************)
EXTENDS Registry, SequenceTheorems, TLAPS

-----------------------------------------------------------------------------
(* The lists of fields of the five types agree. *)

\* The payload of a type lacks no field of its schema.
LEMMA NothingIsDropped ==
    ASSUME NEW t \in Types
    PROVE  Fields(t) \subseteq Builder[t].picked \cup (Fields(t) \ Builder[t].omitted)
  <1> USE DEF Types, Fields, Schema, Builder
  <1>1. CASE t = "client"
    BY <1>1 DEF ClientSchema, SyncClient
  <1>2. CASE t = "tenant"
    BY <1>2 DEF TenantSchema, SyncTenant
  <1>3. CASE t = "application"
    BY <1>3 DEF ApplicationSchema, SyncApplication
  <1>4. CASE t = "domain"
    BY <1>4 DEF DomainSchema, SyncDomain
  <1>5. CASE t = "branding"
    BY <1>5 DEF BrandingSchema, SyncBranding
  <1> QED
    BY <1>1, <1>2, <1>3, <1>4, <1>5

\* What mongoose adds to a document, deleted_at and last_sync are omitted.
LEMMA InnerIsOmitted ==
    ASSUME NEW t \in Types
    PROVE  Timestamps(t) \cup {"_id", "deleted_at", "last_sync"} \subseteq Builder[t].omitted
  <1> USE DEF Types, Timestamps, Builder
  <1>1. CASE t = "client"
    BY <1>1 DEF SyncClient
  <1>2. CASE t = "tenant"
    BY <1>2 DEF SyncTenant
  <1>3. CASE t = "application"
    BY <1>3 DEF SyncApplication
  <1>4. CASE t = "domain"
    BY <1>4 DEF SyncDomain
  <1>5. CASE t = "branding"
    BY <1>5 DEF SyncBranding
  <1> QED
    BY <1>1, <1>2, <1>3, <1>4, <1>5

\* The schema of a type knows the fields that its DTOs and create() know, has
\* the switch enabled, and names none of the fields that are not the user's.
LEMMA FieldsAgree ==
    ASSUME NEW t \in Types
    PROVE  /\ "enabled" \in Fields(t)
           /\ {"id", "_id", "__v"} \cap Fields(t) = {}
           /\ CreateDto[t].must \cup CreateDto[t].may \subseteq New[t]
           /\ New[t] \subseteq Fields(t)
           /\ UpdateDto[t] \subseteq Fields(t)
  <1> USE DEF Types, Fields, Schema, CreateDto, New, UpdateDto
  <1>1. CASE t = "client"
    BY <1>1 DEF ClientSchema, CreateClientDto, NewClient, UpdateClientDto
  <1>2. CASE t = "tenant"
    BY <1>2 DEF TenantSchema, CreateTenantDto, NewTenant, UpdateTenantDto
  <1>3. CASE t = "application"
    BY <1>3 DEF ApplicationSchema, CreateApplicationDto, NewApplication,
                UpdateApplicationDto
  <1>4. CASE t = "domain"
    BY <1>4 DEF DomainSchema, CreateDomainDto, NewDomain, UpdateDomainDto
  <1>5. CASE t = "branding"
    BY <1>5 DEF BrandingSchema, CreateBrandingDto, NewBranding, UpdateBrandingDto
  <1> QED
    BY <1>1, <1>2, <1>3, <1>4, <1>5

\* Every document has its key, and no DTO for update has it.
LEMMA KeysAreNotUpdated ==
    ASSUME NEW t \in DOMAIN KeyField
    PROVE  /\ KeyField[t] \notin UpdateDto[t]
           /\ KeyField[t] # "enabled"
           /\ KeyField[t] \in Schema[t].required
  <1>1. t = "domain" \/ t = "branding"
    BY DEF KeyField
  <1>2. CASE t = "domain"
    BY <1>2 DEF KeyField, UpdateDto, UpdateDomainDto, Schema, DomainSchema
  <1>3. CASE t = "branding"
    BY <1>3 DEF KeyField, UpdateDto, UpdateBrandingDto, Schema, BrandingSchema
  <1> QED
    BY <1>1, <1>2, <1>3

\* The two switches send an entity of a type to one and the same endpoint,
\* that of the type.
LEMMA SwitchesAgree ==
    ASSUME NEW t \in Types
    PROVE  /\ UrlOf[SyncCalls[t]] = UrlOf[LambdaCalls[t]]
           /\ UrlOf[SyncCalls[t]] \in Endpoints
           /\ \A e \in Endpoints : Serves[e] = t <=> e = UrlOf[SyncCalls[t]]
  BY DEF Types, Endpoints, Serves, UrlOf, SyncCalls, LambdaCalls

\* A payload is the document's fields with their values, "id" and "__v".
LEMMA PayloadIsWhole ==
    ASSUME NEW doc, doc.type \in Types, DOMAIN doc.data \subseteq Fields(doc.type)
    PROVE  /\ DOMAIN Payload(doc) \subseteq Fields(doc.type) \cup {"id", "__v"}
           /\ \A f \in Fields(doc.type) :
                 /\ f \in DOMAIN Payload(doc) <=> f \in DOMAIN doc.data
                 /\ f \in DOMAIN doc.data => Payload(doc)[f] = doc.data[f]
           /\ \A f \in DOMAIN Payload(doc) :
                 Payload(doc)[f] \in {doc.data[g] : g \in DOMAIN doc.data} \cup {"inner"}
           /\ Payload(doc) = [f \in DOMAIN Payload(doc) |-> Payload(doc)[f]]
  <1> DEFINE t == doc.type
             b == Builder[t]
             given == DOMAIN doc.data \cap (b.picked \cup (Fields(t) \ b.omitted))
             spread == Inner(doc) \ b.omitted
  <1>1. Payload(doc) = [f \in {"id"} \cup given \cup spread |->
                          IF f \in given THEN doc.data[f] ELSE "inner"]
    BY DEF Payload
  <1>2. given = DOMAIN doc.data
    BY NothingIsDropped
  <1>3. spread \subseteq {"__v"}
    BY InnerIsOmitted DEF Inner
  <1>4. "id" \notin Fields(t) /\ "__v" \notin Fields(t)
    BY FieldsAgree
  <1> HIDE DEF given, spread
  <1> QED
    BY <1>1, <1>2, <1>3, <1>4

-----------------------------------------------------------------------------
(* The inductive invariant. *)

Outside == {"id", "__v"}

\* A document fits its schema, and a deleted one is disabled.
DocFits(d) ==
    /\ d \in DocWith(DOMAIN d.data)
    /\ DOMAIN d.data \subseteq Fields(d.type)
    /\ Schema[d.type].required \cup {"enabled"} \subseteq DOMAIN d.data
    /\ \A f \in DOMAIN d.data : d.data[f] \in Values(f) \cup {Empty}
    /\ d.deleted => d.data["enabled"] = "no"

\* data and entity agree in the fields of type t.
Agree(t, data, entity) ==
    \A f \in Fields(t) :
        /\ f \in DOMAIN data <=> f \in DOMAIN entity
        /\ f \in DOMAIN data => entity[f] = data[f]

EndpointOf(t) == UrlOf[SyncCalls[t]]

StoredFits == \A i \in Ids : db[i] # Null => DocFits(db[i])

\* What was asked for is what is stored.
AskedIsStored ==
    \A i \in Ids : db[i] # Null =>
        /\ DOMAIN asked[i] = DOMAIN db[i].data
        /\ \A f \in DOMAIN asked[i] : asked[i][f] = db[i].data[f]

\* Stage 1 has what is stored, unless an item explains what else it has.
StoredIsDelivered ==
    \A i \in Ids : db[i] # Null /\ ~Explained(i) =>
        LET e == EndpointOf(db[i].type)
        IN  remote[e][i] # Null /\ Agree(db[i].type, db[i].data, remote[e][i])

QueueItem == [entity_type: Types, entity_key: Ids,
              payload: UNION {EntityWith(fields) :
                                fields \in SUBSET (AllFields \cup Outside)},
              item: Item]

\* A queued payload is about a stored document of its type.
QueueFits ==
    /\ outbox \in Seq(QueueItem)
    /\ \A k \in DOMAIN outbox :
          LET q == outbox[k]
          IN  /\ db[q.entity_key] # Null
              /\ db[q.entity_key].type = q.entity_type
              /\ DOMAIN q.payload \subseteq Fields(q.entity_type) \cup Outside

Shapes ==
    /\ DOMAIN db = Ids
    /\ DOMAIN asked = Ids
    /\ DOMAIN remote = Endpoints
    /\ \A e \in Endpoints : DOMAIN remote[e] = Ids
    /\ answer \in Answers

RegistryInv ==
    /\ Shapes
    /\ StoredFits
    /\ AskedIsStored
    /\ QueueFits
    /\ InnerStaysInside
    /\ EndpointsKeepTheirType
    /\ StoredIsDelivered

\* The payload of a document that fits is an entity of its type.
LEMMA PayloadFits ==
    ASSUME NEW d, DocFits(d)
    PROVE  /\ \E fields \in SUBSET (AllFields \cup Outside) :
                 Payload(d) \in EntityWith(fields)
           /\ DOMAIN Payload(d) \subseteq Fields(d.type) \cup Outside
           /\ Agree(d.type, d.data, Payload(d))
           /\ Payload(d) # Null
  <1>1. d.type \in Types /\ DOMAIN d.data \subseteq Fields(d.type)
    BY DEF DocFits, DocWith
  <1>2. PICK p : p = Payload(d)
    OBVIOUS
  <1>3. /\ DOMAIN p \subseteq Fields(d.type) \cup {"id", "__v"}
        /\ \A f \in Fields(d.type) :
              /\ f \in DOMAIN p <=> f \in DOMAIN d.data
              /\ f \in DOMAIN d.data => p[f] = d.data[f]
        /\ \A f \in DOMAIN p : p[f] \in {d.data[g] : g \in DOMAIN d.data} \cup {"inner"}
        /\ p = [f \in DOMAIN p |-> p[f]]
    BY <1>1, <1>2, PayloadIsWhole
  <1>4. \A f \in DOMAIN d.data : d.data[f] \in Value
    BY DEF DocFits, DocWith
  <1>5. \A f \in DOMAIN p : p[f] \in Value
    BY <1>3, <1>4 DEF Value
  <1>6. DOMAIN p \in SUBSET (AllFields \cup Outside)
    BY <1>1, <1>3 DEF AllFields, Outside
  <1>7. p \in EntityWith(DOMAIN p)
    BY <1>3, <1>5 DEF EntityWith
  <1>8. p # Null
    BY <1>6, <1>7, NullIsNoRecord DEF Outside
  <1> QED
    BY <1>2, <1>3, <1>6, <1>7, <1>8 DEF Agree, Outside

\* An upsert changes one entity behind one endpoint.
LEMMA AppliedChanges ==
    ASSUME Shapes, NEW e \in Endpoints, NEW i \in Ids, NEW entity,
           remote' = Applied(e, i, entity)
    PROVE  /\ DOMAIN remote' = Endpoints
           /\ \A g \in Endpoints : DOMAIN remote'[g] = Ids
           /\ remote'[e][i] = entity
           /\ \A g \in Endpoints, j \in Ids :
                 g # e \/ j # i => remote'[g][j] = remote[g][j]
  BY DEF Shapes, Applied

\* A retry of a queued item goes to an endpoint of Stage 1.
LEMMA ItemsHaveEndpoints ==
    ASSUME QueueFits, NEW k \in DOMAIN outbox
    PROVE  UrlOf[LambdaCalls[outbox[k].entity_type]] \in Endpoints
  <1>1. PICK q \in QueueItem : q = outbox[k]
    BY DEF QueueFits
  <1>2. PICK t \in Types : t = q.entity_type
    BY DEF QueueItem
  <1> QED
    BY <1>1, <1>2, SwitchesAgree

\* save(), the synchronisation and last_sync, for a new document or one whose
\* type does not change; a are the values that were asked for.
LEMMA SaveAndSyncKeeps ==
    ASSUME RegistryInv, NEW i \in Ids, NEW doc, DocFits(doc),
           db[i] # Null => db[i].type = doc.type,
           SaveAndSync(i, doc),
           NEW a, asked' = [asked EXCEPT ![i] = a], DOMAIN a = DOMAIN doc.data,
           \A f \in DOMAIN a : a[f] = doc.data[f]
    PROVE  RegistryInv'
  <1> DEFINE t == doc.type
             e == EndpointOf(t)
             entity == Payload(doc)
             queued == [entity_type |-> t, entity_key |-> i, payload |-> entity,
                        item |-> NewItem(TRUE)]
  <1>1. t \in Types /\ e \in Endpoints /\ Serves[e] = t
        /\ \A g \in Endpoints : Serves[g] = t => g = e
    BY SwitchesAgree DEF DocFits, DocWith, EndpointOf
  <1>2. PICK new : new = [doc EXCEPT !.last_sync = TRUE]
    OBVIOUS
  <1>3. DocFits(new) /\ new.type = t /\ new.data = doc.data
    BY <1>2 DEF DocFits, DocWith
  <1>4. new # Null
    <2>1. DOMAIN new.data \in SUBSET (AllFields \cup {"id", "__v"})
      BY <1>1, <1>3 DEF DocFits, AllFields
    <2>2. new \in DocWith(DOMAIN new.data)
      BY <1>3 DEF DocFits
    <2> QED
      BY <2>1, <2>2, NullIsNoRecord
  <1>5. db' = [db EXCEPT ![i] = new] /\ answer' = "ok"
    BY <1>2 DEF SaveAndSync
  <1>6. db'[i] = new /\ \A j \in Ids \ {i} : db'[j] = db[j]
    BY <1>5 DEF RegistryInv, Shapes
  <1>7. \/ remote' = Applied(e, i, entity) /\ outbox' = outbox
        \/ /\ remote' = remote \/ remote' = Applied(e, i, entity)
           /\ outbox' = Append(outbox, queued)
    BY DEF SaveAndSync, EndpointOf
  <1>8. /\ DOMAIN remote' = Endpoints
        /\ \A g \in Endpoints : DOMAIN remote'[g] = Ids
        /\ \A g \in Endpoints, j \in Ids : g # e \/ j # i => remote'[g][j] = remote[g][j]
        /\ remote'[e][i] = entity \/ remote'[e][i] = remote[e][i]
        /\ remote' = Applied(e, i, entity) => remote'[e][i] = entity
    BY <1>1, <1>7, AppliedChanges DEF RegistryInv, Shapes
  <1>9. /\ \E fields \in SUBSET (AllFields \cup Outside) : entity \in EntityWith(fields)
        /\ DOMAIN entity \subseteq Fields(t) \cup Outside
        /\ Agree(t, doc.data, entity)
        /\ entity # Null
    BY PayloadFits
  <1> HIDE DEF t, e, entity, queued
  <1>10. Shapes'
    BY <1>5, <1>8 DEF RegistryInv, Shapes, Answers
  <1>11. StoredFits'
    BY <1>3, <1>6 DEF RegistryInv, StoredFits
  <1>12. AskedIsStored'
    BY <1>3, <1>6 DEF RegistryInv, Shapes, AskedIsStored
  <1>13. QueueFits'
    <2>1. queued \in QueueItem
      BY <1>1, <1>9 DEF queued, QueueItem, NewItem, Item, Status
    <2>2. outbox' \in Seq(QueueItem)
      BY <1>7, <2>1 DEF RegistryInv, QueueFits
    <2>3. ASSUME NEW k \in DOMAIN outbox'
          PROVE  /\ db'[outbox'[k].entity_key] # Null
                 /\ db'[outbox'[k].entity_key].type = outbox'[k].entity_type
                 /\ DOMAIN outbox'[k].payload
                      \subseteq Fields(outbox'[k].entity_type) \cup Outside
      <3>1. CASE k \in DOMAIN outbox
        <4>1. PICK q \in QueueItem : q = outbox[k]
          BY <3>1 DEF RegistryInv, QueueFits
        <4>2. outbox'[k] = q
          BY <1>7, <2>1, <3>1, <4>1 DEF RegistryInv, QueueFits
        <4>3. /\ db[q.entity_key] # Null /\ db[q.entity_key].type = q.entity_type
              /\ DOMAIN q.payload \subseteq Fields(q.entity_type) \cup Outside
          BY <3>1, <4>1 DEF RegistryInv, QueueFits
        <4>4. q.entity_key \in Ids
          BY DEF QueueItem
        <4> QED
          BY <1>3, <1>4, <1>6, <4>2, <4>3, <4>4 DEF t
      <3>2. CASE k \notin DOMAIN outbox
        <4>1. outbox'[k] = queued
          BY <1>7, <2>1, <2>3, <3>2 DEF RegistryInv, QueueFits
        <4> QED
          BY <1>3, <1>4, <1>6, <1>9, <4>1 DEF queued
      <3> QED
        BY <3>1, <3>2
    <2> QED
      BY <2>2, <2>3 DEF QueueFits
  <1>14. InnerStaysInside'
    BY <1>1, <1>8, <1>9 DEF RegistryInv, InnerStaysInside, Outside
  <1>15. EndpointsKeepTheirType'
    <2> SUFFICES ASSUME NEW g \in Endpoints, NEW j \in Ids, remote'[g][j] # Null
                 PROVE  db'[j] # Null /\ db'[j].type = Serves[g]
      BY DEF EndpointsKeepTheirType
    <2>1. CASE g = e /\ j = i
      BY <1>1, <1>3, <1>4, <1>6, <2>1
    <2>2. CASE g # e \/ j # i
      <3>1. db[j] # Null /\ db[j].type = Serves[g]
        BY <1>8, <2>2 DEF RegistryInv, EndpointsKeepTheirType
      <3> QED
        BY <1>3, <1>4, <1>6, <3>1 DEF t
    <2> QED
      BY <2>1, <2>2
  <1>16. StoredIsDelivered'
    <2> SUFFICES ASSUME NEW j \in Ids, db'[j] # Null, ~Explained(j)'
                 PROVE  /\ remote'[EndpointOf(db'[j].type)][j] # Null
                        /\ Agree(db'[j].type, db'[j].data,
                                 remote'[EndpointOf(db'[j].type)][j])
      BY DEF StoredIsDelivered
    <2>1. /\ queued \in QueueItem
          /\ queued.entity_key = i
          /\ queued.item.status # "SENT"
      BY <1>1, <1>9 DEF queued, QueueItem, NewItem, Item, Status
    <2>2. CASE j = i
      <3>1. outbox' # Append(outbox, queued)
        <4> SUFFICES ASSUME outbox' = Append(outbox, queued) PROVE FALSE
          OBVIOUS
        <4>1. Len(outbox) + 1 \in DOMAIN outbox' /\ outbox'[Len(outbox) + 1] = queued
          BY <2>1 DEF RegistryInv, QueueFits
        <4> QED
          BY <2>1, <2>2, <4>1 DEF Explained
      <3>2. remote'[e][i] = entity
        BY <1>7, <1>8, <3>1
      <3> QED
        BY <1>3, <1>6, <1>9, <2>2, <3>2 DEF e
    <2>3. CASE j # i
      <3>1. ~Explained(j)
        <4> SUFFICES ASSUME NEW k \in DOMAIN outbox,
                            outbox[k].entity_key = j,
                            \/ outbox[k].item.status # "SENT"
                            \/ remote[UrlOf[LambdaCalls[outbox[k].entity_type]]][j]
                                 = outbox[k].payload
                     PROVE  FALSE
          BY DEF Explained
        <4>1. k \in DOMAIN outbox' /\ outbox'[k] = outbox[k]
          BY <1>7, <2>1 DEF RegistryInv, QueueFits
        <4>2. UrlOf[LambdaCalls[outbox[k].entity_type]] \in Endpoints
          BY ItemsHaveEndpoints DEF RegistryInv
        <4>3. remote'[UrlOf[LambdaCalls[outbox[k].entity_type]]][j]
                = remote[UrlOf[LambdaCalls[outbox[k].entity_type]]][j]
          BY <1>8, <2>3, <4>2
        <4> QED
          BY <4>1, <4>3 DEF Explained
      <3>2. db'[j] = db[j]
        BY <1>6, <2>3
      <3>3. /\ remote[EndpointOf(db[j].type)][j] # Null
            /\ Agree(db[j].type, db[j].data, remote[EndpointOf(db[j].type)][j])
        BY <3>1, <3>2 DEF RegistryInv, StoredIsDelivered
      <3>4. EndpointOf(db[j].type) \in Endpoints
        BY <3>2, SwitchesAgree DEF RegistryInv, StoredFits, DocFits, DocWith, EndpointOf
      <3> QED
        BY <1>8, <2>3, <3>2, <3>3, <3>4
    <2> QED
      BY <2>2, <2>3
  <1> QED
    BY <1>10, <1>11, <1>12, <1>13, <1>14, <1>15, <1>16 DEF RegistryInv

-----------------------------------------------------------------------------
(* The operations. *)

LEMMA FilledFits ==
    ASSUME NEW fields, NEW text \in Texts, NEW ref \in Ids, NEW flag \in Flags
    PROVE  /\ DOMAIN Filled(fields, text, ref, flag) = fields
           /\ \A f \in fields : Filled(fields, text, ref, flag)[f] \in Values(f)
  BY DEF Filled, Values, FlagFields, References

\* A body that ValidationPipe accepts has fields of the schema only, each with
\* a value of its kind, or an empty one.
LEMMA AcceptedFits ==
    ASSUME NEW t \in Types, NEW dto \in AcceptedBodies[t]
    PROVE  /\ DOMAIN dto \subseteq New[t]
           /\ \A f \in DOMAIN dto : dto[f] \in Values(f) \cup {Empty}
  <1>1. dto \in Bodies[t] /\ CreateAccepted(t, dto)
    BY DEF AcceptedBodies
  <1>2. DOMAIN dto \subseteq New[t]
    BY <1>1, FieldsAgree DEF CreateAccepted
  <1>3. "_id" \notin DOMAIN dto
    BY <1>2, FieldsAgree
  <1>4. PICK text \in Texts, ref \in Ids :
          \E must, full : dto \in Variants(must, full, text, ref)
    BY <1>1 DEF Bodies
  <1>5. PICK must, full : dto \in Variants(must, full, text, ref)
    BY <1>4
  <1>6. PICK body : body = Filled(full, text, ref, "no")
    OBVIOUS
  <1>7. \/ \E fields : \E flag \in Flags : dto = Filled(fields, text, ref, flag)
        \/ dto = With(body, "_id", text)
        \/ \E f \in full : dto = With(body, f, Empty)
    BY <1>5, <1>6 DEF Variants, Flags
  <1>8. body = Filled(full, text, ref, "no") /\ "no" \in Flags
    BY <1>6 DEF Flags
  <1>9. \A f \in DOMAIN dto : dto[f] \in Values(f) \cup {Empty}
    <2>1. CASE \E fields : \E flag \in Flags : dto = Filled(fields, text, ref, flag)
      BY <2>1, FilledFits
    <2>2. CASE dto = With(body, "_id", text)
      BY <1>3, <2>2 DEF With
    <2>3. CASE \E f \in full : dto = With(body, f, Empty)
      <3>1. DOMAIN body = full /\ \A f \in full : body[f] \in Values(f)
        BY <1>8, FilledFits
      <3> QED
        BY <2>3, <3>1 DEF With
    <2> QED
      BY <1>7, <2>1, <2>2, <2>3
  <1> QED
    BY <1>2, <1>9

LEMMA CreateKeeps ==
    ASSUME RegistryInv, NEW t \in Types, NEW i \in Ids, NEW dto, Create(t, i, dto)
    PROVE  RegistryInv' /\ db[i] = Null
  <1>1. dto \in AcceptedBodies[t] /\ db[i] = Null
    BY DEF Create
  <1>2. /\ DOMAIN dto \subseteq New[t]
        /\ \A f \in DOMAIN dto : dto[f] \in Values(f) \cup {Empty}
    BY <1>1, AcceptedFits
  <1>3. PICK data : data = Built(t, dto)
    OBVIOUS
  <1>4. data = [f \in DOMAIN dto \cup {"enabled"} |->
                  IF f \in DOMAIN dto THEN dto[f] ELSE "yes"]
    BY <1>2, <1>3 DEF Built
  <1>5. PICK doc : doc = [type |-> t, data |-> data, deleted |-> FALSE,
                          last_sync |-> FALSE]
    OBVIOUS
  <1>6. \A f \in DOMAIN data : data[f] \in Values(f) \cup {Empty}
    <2>1. "yes" \in Values("enabled")
      BY DEF Values, FlagFields, References, Flags
    <2> QED
      BY <1>2, <1>4, <2>1
  <1>7. DocFits(doc)
    <2>1. \A f \in DOMAIN data : data[f] \in Value
      BY <1>6 DEF Values, Value, Flags
    <2>2. data \in [DOMAIN data -> Value]
      BY <1>4, <2>1
    <2>3. DOMAIN data \subseteq Fields(t)
      BY <1>2, <1>4, FieldsAgree
    <2>4. Schema[t].required \cup {"enabled"} \subseteq DOMAIN data
      BY <1>3, <1>4 DEF Create, SchemaAccepts
    <2> QED
      BY <1>4, <1>5, <1>6, <2>2, <2>3, <2>4 DEF DocFits, DocWith
  <1>8. SaveAndSync(i, doc)
    BY <1>3, <1>5 DEF Create
  <1>9. PICK a : a = IF "enabled" \in DOMAIN dto THEN dto ELSE With(dto, "enabled", "yes")
    OBVIOUS
  <1>10. asked' = [asked EXCEPT ![i] = a]
    BY <1>9 DEF Create
  <1>11. DOMAIN a = DOMAIN doc.data /\ \A f \in DOMAIN a : a[f] = doc.data[f]
    BY <1>4, <1>5, <1>9 DEF With
  <1>12. RegistryInv'
    BY <1>1, <1>7, <1>8, <1>10, <1>11, SaveAndSyncKeeps
  <1> QED
    BY <1>1, <1>12

\* A visible document is saved with one of its fields set to a value.
LEMMA SetKeeps ==
    ASSUME RegistryInv, NEW t \in Types, NEW i \in Ids, Visible(t, i),
           NEW f \in Fields(t), NEW value \in Values(f) \cup {Empty},
           NEW deleted \in BOOLEAN, deleted = TRUE => f = "enabled" /\ value = "no",
           NEW doc, doc = [type |-> t, data |-> With(db[i].data, f, value),
                           deleted |-> deleted, last_sync |-> db[i].last_sync],
           SaveAndSync(i, doc),
           asked' = [asked EXCEPT ![i] = With(asked[i], f, value)]
    PROVE  /\ RegistryInv'
           /\ db'[i] # Null /\ db'[i].type = db[i].type
           /\ \A g \in DOMAIN db[i].data \ {f} : db'[i].data[g] = db[i].data[g]
           /\ \A j \in Ids \ {i} : db'[j] = db[j]
  <1>1. db[i] # Null /\ db[i].type = t /\ DocFits(db[i])
    BY DEF Visible, RegistryInv, StoredFits
  <1>2. PICK data : data = With(db[i].data, f, value)
    OBVIOUS
  <1>3. data = [g \in DOMAIN db[i].data \cup {f} |->
                  IF g = f THEN value ELSE db[i].data[g]]
    BY <1>2 DEF With
  <1>4. doc.type = t /\ doc.data = data /\ doc.deleted = deleted
        /\ doc.last_sync \in BOOLEAN
        /\ doc = [type |-> t, data |-> data, deleted |-> deleted,
                  last_sync |-> doc.last_sync]
    BY <1>1, <1>2 DEF DocFits, DocWith
  <1>5. \A g \in DOMAIN data : data[g] \in Values(g) \cup {Empty}
    BY <1>1, <1>3 DEF DocFits
  <1>6. DocFits(doc)
    <2>1. \A g \in DOMAIN data : data[g] \in Value
      BY <1>5 DEF Values, Value, Flags
    <2>2. data \in [DOMAIN data -> Value]
      BY <1>3, <2>1
    <2>3. DOMAIN data \subseteq Fields(t)
          /\ Schema[t].required \cup {"enabled"} \subseteq DOMAIN data
      BY <1>1, <1>3 DEF DocFits
    <2>4. deleted => data["enabled"] = "no"
      BY <1>3
    <2> QED
      BY <1>4, <1>5, <2>2, <2>3, <2>4 DEF DocFits, DocWith
  <1>7. /\ DOMAIN asked[i] = DOMAIN db[i].data
        /\ \A g \in DOMAIN asked[i] : asked[i][g] = db[i].data[g]
    BY <1>1 DEF RegistryInv, AskedIsStored
  <1>8. PICK a : a = With(asked[i], f, value)
    OBVIOUS
  <1>9. DOMAIN a = DOMAIN doc.data /\ \A g \in DOMAIN a : a[g] = doc.data[g]
    BY <1>3, <1>4, <1>7, <1>8 DEF With
  <1>10. RegistryInv'
    <2>1. PICK d : d = doc
      OBVIOUS
    <2>2. DocFits(d) /\ db[i].type = d.type /\ DOMAIN a = DOMAIN d.data
          /\ \A g \in DOMAIN a : a[g] = d.data[g]
      BY <1>1, <1>4, <1>6, <1>9, <2>1
    <2>3. SaveAndSync(i, d) /\ asked' = [asked EXCEPT ![i] = a]
      BY <1>8, <2>1
    <2> QED
      BY <2>2, <2>3, SaveAndSyncKeeps
  <1>11. PICK new : new = [doc EXCEPT !.last_sync = TRUE]
    OBVIOUS
  <1>12. new.type = t /\ new.data = data /\ new \in DocWith(DOMAIN new.data)
         /\ DOMAIN new.data \subseteq Fields(t)
    BY <1>4, <1>6, <1>11 DEF DocFits, DocWith
  <1>13. db' = [db EXCEPT ![i] = new]
    BY <1>11 DEF SaveAndSync
  <1>14. db'[i] = new /\ \A j \in Ids \ {i} : db'[j] = db[j]
    BY <1>13 DEF RegistryInv, Shapes
  <1>15. new # Null
    <2>1. DOMAIN new.data \in SUBSET (AllFields \cup {"id", "__v"})
      BY <1>12 DEF AllFields
    <2> QED
      BY <1>12, <2>1, NullIsNoRecord
  <1> QED
    BY <1>1, <1>3, <1>10, <1>12, <1>14, <1>15

KeysKept ==
    \A i \in Ids :
        db[i] # Null =>
            /\ db'[i] # Null
            /\ db'[i].type = db[i].type
            /\ db[i].type \in DOMAIN KeyField =>
                 LET k == KeyField[db[i].type] IN db'[i].data[k] = db[i].data[k]

\* Setting another field leaves the key alone.
LEMMA SetKeepsKeys ==
    ASSUME RegistryInv, NEW i \in Ids, db[i] # Null, NEW f,
           db[i].type \in DOMAIN KeyField => KeyField[db[i].type] # f,
           db'[i] # Null, db'[i].type = db[i].type,
           \A g \in DOMAIN db[i].data \ {f} : db'[i].data[g] = db[i].data[g],
           \A j \in Ids \ {i} : db'[j] = db[j]
    PROVE  KeysKept
  <1>1. db[i].type \in DOMAIN KeyField => KeyField[db[i].type] \in DOMAIN db[i].data
    BY KeysAreNotUpdated DEF RegistryInv, StoredFits, DocFits
  <1> QED
    BY <1>1 DEF KeysKept

LEMMA UpdateKeeps ==
    ASSUME RegistryInv, NEW t \in Types, NEW i \in Ids, NEW f \in Fields(t),
           NEW value \in Values(f) \cup {Empty}, Update(t, i, f, value)
    PROVE  RegistryInv' /\ KeysKept
  <1>1. Visible(t, i) /\ f \in UpdateDto[t]
    BY DEF Update, UpdateAccepted
  <1>2. db[i] # Null /\ db[i].type = t /\ db[i].deleted = FALSE /\ DocFits(db[i])
    BY <1>1 DEF Visible, RegistryInv, StoredFits, DocFits, DocWith
  <1>3. PICK data : data = With(db[i].data, f, value)
    OBVIOUS
  <1>4. PICK doc : doc = [type |-> t, data |-> data, deleted |-> FALSE,
                          last_sync |-> db[i].last_sync]
    OBVIOUS
  <1>5. doc = [db[i] EXCEPT !.data = data]
    <2>1. PICK fields : db[i] \in DocWith(fields)
      BY <1>2 DEF DocFits
    <2>2. PICK stored \in DocWith(fields) : stored = db[i]
      BY <2>1
    <2>3. PICK new : new = [stored EXCEPT !.data = data]
      OBVIOUS
    <2>4. new = [type |-> stored.type, data |-> data, deleted |-> stored.deleted,
                 last_sync |-> stored.last_sync]
      BY <2>3 DEF DocWith
    <2> QED
      BY <1>2, <1>4, <2>2, <2>3, <2>4
  <1>6. SaveAndSync(i, doc)
    BY <1>3, <1>5 DEF Update
  <1>7. asked' = [asked EXCEPT ![i] = With(asked[i], f, value)]
    BY DEF Update
  <1>8. /\ RegistryInv'
        /\ db'[i] # Null /\ db'[i].type = db[i].type
        /\ \A g \in DOMAIN db[i].data \ {f} : db'[i].data[g] = db[i].data[g]
        /\ \A j \in Ids \ {i} : db'[j] = db[j]
    BY <1>1, <1>3, <1>4, <1>6, <1>7, SetKeeps
  <1>9. KeysKept
    BY <1>1, <1>2, <1>8, KeysAreNotUpdated, SetKeepsKeys
  <1> QED
    BY <1>8, <1>9

LEMMA DeleteKeeps ==
    ASSUME RegistryInv, NEW t \in Types, NEW i \in Ids, Delete(t, i)
    PROVE  RegistryInv' /\ KeysKept
  <1>1. Visible(t, i)
    BY DEF Delete
  <1>2. db[i] # Null /\ db[i].type = t /\ DocFits(db[i])
    BY <1>1 DEF Visible, RegistryInv, StoredFits
  <1>3. "enabled" \in Fields(t) /\ "no" \in Values("enabled")
    BY FieldsAgree DEF Values, FlagFields, References, Flags
  <1>4. PICK data : data = With(db[i].data, "enabled", "no")
    OBVIOUS
  <1>5. PICK doc : doc = [type |-> t, data |-> data, deleted |-> TRUE,
                          last_sync |-> db[i].last_sync]
    OBVIOUS
  <1>6. doc = [db[i] EXCEPT !.data = data, !.deleted = TRUE]
    <2>1. PICK fields : db[i] \in DocWith(fields)
      BY <1>2 DEF DocFits
    <2>2. PICK stored \in DocWith(fields) : stored = db[i]
      BY <2>1
    <2>3. PICK new : new = [stored EXCEPT !.data = data, !.deleted = TRUE]
      OBVIOUS
    <2>4. new = [type |-> stored.type, data |-> data, deleted |-> TRUE,
                 last_sync |-> stored.last_sync]
      BY <2>3 DEF DocWith
    <2> QED
      BY <1>2, <1>5, <2>2, <2>3, <2>4
  <1>7. SaveAndSync(i, doc)
    BY <1>4, <1>6 DEF Delete
  <1>8. asked' = [asked EXCEPT ![i] = With(asked[i], "enabled", "no")]
    BY DEF Delete
  <1>9. /\ RegistryInv'
        /\ db'[i] # Null /\ db'[i].type = db[i].type
        /\ \A g \in DOMAIN db[i].data \ {"enabled"} : db'[i].data[g] = db[i].data[g]
        /\ \A j \in Ids \ {i} : db'[j] = db[j]
    BY <1>1, <1>3, <1>4, <1>5, <1>7, <1>8, SetKeeps
  <1>10. KeysKept
    BY <1>2, <1>9, KeysAreNotUpdated, SetKeepsKeys
  <1> QED
    BY <1>9, <1>10

\* An answer that changes nothing.
LEMMA AnswerKeeps ==
    ASSUME RegistryInv, NEW a \in Answers, Answer(a)
    PROVE  RegistryInv' /\ KeysKept
  BY DEF Answer, RegistryInv, Shapes, StoredFits, AskedIsStored, QueueFits,
         InnerStaysInside, EndpointsKeepTheirType, StoredIsDelivered, Explained, KeysKept

\* A retry sends what is queued where the handler would have sent it.
LEMMA RetryKeeps ==
    ASSUME RegistryInv, NEW k \in DOMAIN outbox, Retry(k)
    PROVE  RegistryInv' /\ KeysKept
  <1>1. PICK q \in QueueItem : q = outbox[k]
    BY DEF RegistryInv, QueueFits
  <1>2. PICK i \in Ids, t \in Types : i = q.entity_key /\ t = q.entity_type
    BY DEF QueueItem
  <1>3. /\ db[i] # Null /\ db[i].type = t
        /\ DOMAIN q.payload \subseteq Fields(t) \cup Outside
    BY <1>1, <1>2 DEF RegistryInv, QueueFits
  <1>4. PICK e \in Endpoints :
          /\ e = UrlOf[LambdaCalls[t]] /\ e = EndpointOf(t) /\ Serves[e] = t
    BY SwitchesAgree DEF EndpointOf
  <1>5. UNCHANGED <<db, asked>> /\ answer' = "none"
    BY DEF Retry
  <1>6. remote' = remote \/ remote' = Applied(e, i, q.payload)
    BY <1>1, <1>2, <1>4 DEF Retry
  <1>7. /\ DOMAIN remote' = Endpoints
        /\ \A g \in Endpoints : DOMAIN remote'[g] = Ids
        /\ \A g \in Endpoints, j \in Ids : g # e \/ j # i => remote'[g][j] = remote[g][j]
        /\ remote'[e][i] = q.payload \/ remote'[e][i] = remote[e][i]
        /\ remote' = Applied(e, i, q.payload) => remote'[e][i] = q.payload
    BY <1>6, AppliedChanges DEF RegistryInv, Shapes
  <1>8. PICK item \in Item :
          /\ outbox' = [outbox EXCEPT ![k] = [q EXCEPT !.item = item]]
          /\ item.status # "SENT" \/ remote' = Applied(e, i, q.payload)
    <2>1. PICK old \in Item : old = q.item
      BY DEF QueueItem
    <2>2. PICK more \in Nat : more = old.attempts + 1
      BY DEF Item
    <2>3. PICK sent : sent = [old EXCEPT !.status = "SENT", !.attempts = more]
      OBVIOUS
    <2>4. PICK failed : failed = [old EXCEPT !.status = "FAILED", !.attempts = more]
      OBVIOUS
    <2>5. sent \in Item /\ failed \in Item /\ failed.status # "SENT"
      BY <2>3, <2>4 DEF Item, Status
    <2>6. CASE /\ remote' = Applied(e, i, q.payload)
               /\ outbox' = [outbox EXCEPT ![k].item.status = "SENT",
                                           ![k].item.attempts = @ + 1]
      <3>1. outbox' = [outbox EXCEPT ![k] = [q EXCEPT !.item = sent]]
        BY <1>1, <2>1, <2>2, <2>3, <2>6
      <3> QED
        BY <2>5, <2>6, <3>1
    <2>7. CASE outbox' = [outbox EXCEPT ![k].item.status = "FAILED",
                                        ![k].item.attempts = @ + 1]
      <3>1. outbox' = [outbox EXCEPT ![k] = [q EXCEPT !.item = failed]]
        BY <1>1, <2>1, <2>2, <2>4, <2>7
      <3> QED
        BY <2>5, <3>1
    <2> QED
      BY <1>1, <1>2, <1>4, <2>6, <2>7 DEF Retry
  <1>9. PICK new \in QueueItem : new = [q EXCEPT !.item = item]
    BY DEF QueueItem
  <1>10. /\ new.entity_key = i /\ new.entity_type = t /\ new.payload = q.payload
         /\ new.item = item
    BY <1>2, <1>9 DEF QueueItem
  <1>11. outbox' = [outbox EXCEPT ![k] = new]
    BY <1>8, <1>9
  <1>12. outbox' \in Seq(QueueItem) /\ DOMAIN outbox' = DOMAIN outbox
         /\ \A n \in DOMAIN outbox : outbox'[n] = IF n = k THEN new ELSE outbox[n]
    BY <1>9, <1>11 DEF RegistryInv, QueueFits
  <1>13. Shapes' /\ StoredFits' /\ AskedIsStored'
    BY <1>5, <1>7 DEF RegistryInv, Shapes, StoredFits, AskedIsStored, Answers
  <1>14. QueueFits'
    BY <1>3, <1>5, <1>10, <1>12 DEF RegistryInv, QueueFits
  <1>15. InnerStaysInside'
    BY <1>3, <1>4, <1>7 DEF RegistryInv, InnerStaysInside, Outside
  <1>16. EndpointsKeepTheirType'
    BY <1>3, <1>4, <1>5, <1>7 DEF RegistryInv, EndpointsKeepTheirType
  <1>17. StoredIsDelivered'
    <2> SUFFICES ASSUME NEW j \in Ids, db[j] # Null, ~Explained(j)'
                 PROVE  /\ remote'[EndpointOf(db[j].type)][j] # Null
                        /\ Agree(db[j].type, db[j].data,
                                 remote'[EndpointOf(db[j].type)][j])
      BY <1>5 DEF StoredIsDelivered
    <2>1. j # i
      <3>1. item.status # "SENT" \/ remote'[e][i] = q.payload
        BY <1>7, <1>8
      <3>2. Explained(i)'
        <4>1. k \in DOMAIN outbox' /\ outbox'[k] = new
          BY <1>12
        <4>2. UrlOf[LambdaCalls[new.entity_type]] = e
          BY <1>4, <1>10
        <4>3. /\ new.entity_key = i
              /\ \/ new.item.status # "SENT"
                 \/ remote'[UrlOf[LambdaCalls[new.entity_type]]][i] = new.payload
          BY <1>10, <3>1, <4>2
        <4> QED
          BY <4>1, <4>3 DEF Explained
      <3> QED
        BY <3>2
    <2>2. ~Explained(j)
      <3> SUFFICES ASSUME NEW n \in DOMAIN outbox,
                          outbox[n].entity_key = j,
                          \/ outbox[n].item.status # "SENT"
                          \/ remote[UrlOf[LambdaCalls[outbox[n].entity_type]]][j]
                               = outbox[n].payload
                   PROVE  FALSE
        BY DEF Explained
      <3>1. outbox'[n] = outbox[n]
        BY <1>1, <1>2, <1>12, <2>1
      <3>2. UrlOf[LambdaCalls[outbox[n].entity_type]] \in Endpoints
        BY ItemsHaveEndpoints DEF RegistryInv
      <3>3. remote'[UrlOf[LambdaCalls[outbox[n].entity_type]]][j]
              = remote[UrlOf[LambdaCalls[outbox[n].entity_type]]][j]
        BY <1>7, <2>1, <3>2
      <3> QED
        BY <1>12, <3>1, <3>3 DEF Explained
    <2>3. EndpointOf(db[j].type) \in Endpoints
      BY SwitchesAgree DEF RegistryInv, StoredFits, DocFits, DocWith, EndpointOf
    <2> QED
      BY <1>7, <2>1, <2>2, <2>3 DEF RegistryInv, StoredIsDelivered
  <1>18. KeysKept
    BY <1>5 DEF KeysKept
  <1> QED
    BY <1>13, <1>14, <1>15, <1>16, <1>17, <1>18 DEF RegistryInv

\* A request to the controller of a type.
LEMMA ServeKeeps ==
    ASSUME RegistryInv, NEW t \in Types, Serve(t)
    PROVE  RegistryInv' /\ KeysKept
  <1>1. CASE Post(t)
    <2>1. PICK dto \in Bodies[t] : CreateRefused(t, dto) \/ \E i \in Ids : Create(t, i, dto)
      BY <1>1 DEF Post
    <2>2. CASE CreateRefused(t, dto)
      BY <2>2, AnswerKeeps DEF CreateRefused, Answers
    <2>3. ASSUME NEW i \in Ids, Create(t, i, dto) PROVE RegistryInv' /\ KeysKept
      <3>1. RegistryInv' /\ db[i] = Null
        BY <2>3, CreateKeeps
      <3>2. \A j \in Ids \ {i} : db'[j] = db[j]
        BY <2>3 DEF Create, SaveAndSync, RegistryInv, Shapes
      <3> QED
        BY <3>1, <3>2 DEF KeysKept
    <2> QED
      BY <2>1, <2>2, <2>3
  <1>2. ASSUME NEW i \in Ids, GetOne(t, i) \/ Patch(t, i) \/ Remove(t, i)
        PROVE  RegistryInv' /\ KeysKept
    <2>1. CASE GetOne(t, i)
      <3>1. PICK a \in Answers : Answer(a)
        BY <2>1 DEF GetOne, Answers
      <3> QED
        BY <3>1, AnswerKeeps
    <2>2. CASE Patch(t, i)
      <3>0. PICK f \in Fields(t) :
              \E value \in Values(f) \cup {Empty} :
                  UpdateRefused(t, i, f, value) \/ Update(t, i, f, value)
        BY <2>2 DEF Patch
      <3>1. PICK value \in Values(f) \cup {Empty} :
              UpdateRefused(t, i, f, value) \/ Update(t, i, f, value)
        BY <3>0
      <3>2. CASE UpdateRefused(t, i, f, value)
        BY <3>2, AnswerKeeps DEF UpdateRefused, Answers
      <3> QED
        BY <3>1, <3>2, UpdateKeeps
    <2>3. CASE Remove(t, i)
      BY <2>3, DeleteKeeps, AnswerKeeps DEF Remove, Answers
    <2> QED
      BY <1>2, <2>1, <2>2, <2>3
  <1>3. CASE Answer("ok") \/ Answer("bad_request")
    BY <1>3, AnswerKeeps DEF Answers
  <1>4. \/ Post(t) \/ Answer("ok") \/ Answer("bad_request")
        \/ \E i \in Ids : GetOne(t, i) \/ Patch(t, i) \/ Remove(t, i)
    BY DEF Serve, WellFormed
  <1> QED
    BY <1>1, <1>2, <1>3, <1>4

LEMMA RegistryInvNext ==
    ASSUME RegistryInv, [Next]_vars
    PROVE  RegistryInv' /\ [KeysKept]_vars
  <1>1. CASE \E t \in Types : Serve(t)
    BY <1>1, ServeKeeps
  <1>2. CASE Answer("error")
    BY <1>2, AnswerKeeps DEF Answers
  <1>3. CASE \E k \in DOMAIN outbox : Retry(k)
    BY <1>3, RetryKeeps
  <1>4. CASE UNCHANGED vars
    BY <1>4 DEF vars, RegistryInv, Shapes, StoredFits, AskedIsStored, QueueFits,
                InnerStaysInside, EndpointsKeepTheirType, StoredIsDelivered, Explained
  <1> QED
    BY <1>1, <1>2, <1>3, <1>4
       DEF Next, ClientsController, TenantsController, ApplicationsController,
           DomainsController, BrandingsController, Types

LEMMA RegistryInvInit ==
    Init => RegistryInv
  BY DEF Init, RegistryInv, Shapes, StoredFits, AskedIsStored, QueueFits, Answers,
         InnerStaysInside, EndpointsKeepTheirType, StoredIsDelivered, Explained

-----------------------------------------------------------------------------

\* Every reachable state is well typed: documents fit their schemas.
THEOREM RegistryTypes == Spec => []TypeOK
  <1>1. RegistryInv => TypeOK
    <2> SUFFICES ASSUME RegistryInv
                 PROVE  TypeOK
      OBVIOUS
    <2>1. ASSUME NEW i \in Ids, db[i] # Null
          PROVE  /\ db[i].type \in Types
                 /\ DOMAIN db[i].data \subseteq Fields(db[i].type)
                 /\ \A f \in DOMAIN db[i].data : db[i].data[f] \in Values(f) \cup {Empty}
                 /\ db[i].deleted \in BOOLEAN
                 /\ db[i].last_sync \in BOOLEAN
      <3>1. DocFits(db[i])
        BY <2>1 DEF RegistryInv, StoredFits
      <3> QED
        BY <3>1 DEF DocFits, DocWith
    <2>2. ASSUME NEW k \in DOMAIN outbox
          PROVE  outbox[k].item \in Item
      <3>1. outbox[k] \in QueueItem
        BY <2>2 DEF RegistryInv, QueueFits
      <3> QED
        BY <3>1 DEF QueueItem
    <2>3. answer \in Answers
      BY DEF RegistryInv, Shapes
    <2> QED
      BY <2>1, <2>2, <2>3 DEF TypeOK
  <1> QED
    BY <1>1, RegistryInvInit, RegistryInvNext, PTL DEF Spec

\* Whatever value the API accepted for whatever field of whatever type is the
\* value Stage 1 has for it, unless an item of the entity is undelivered or was
\* delivered last.
THEOREM AcceptedReachesStage1 == Spec => []ReachesStage1
  <1>1. RegistryInv => ReachesStage1
    <2> SUFFICES ASSUME RegistryInv, NEW i \in Ids, db[i] # Null, ~Explained(i)
                 PROVE  \E e \in Endpoints :
                          /\ Serves[e] = db[i].type
                          /\ remote[e][i] # Null
                          /\ \A f \in Fields(db[i].type) :
                                /\ f \in DOMAIN asked[i] <=> f \in DOMAIN remote[e][i]
                                /\ f \in DOMAIN asked[i] => remote[e][i][f] = asked[i][f]
      BY DEF ReachesStage1
    <2>1. PICK t \in Types : t = db[i].type
      BY DEF RegistryInv, StoredFits, DocFits, DocWith
    <2>2. PICK e \in Endpoints : e = EndpointOf(t) /\ Serves[e] = t
      BY SwitchesAgree DEF EndpointOf
    <2>3. remote[e][i] # Null /\ Agree(t, db[i].data, remote[e][i])
      BY <2>1, <2>2 DEF RegistryInv, StoredIsDelivered
    <2>4. /\ DOMAIN asked[i] = DOMAIN db[i].data
          /\ \A f \in DOMAIN asked[i] : asked[i][f] = db[i].data[f]
      BY DEF RegistryInv, AskedIsStored
    <2> QED
      BY <2>1, <2>2, <2>3, <2>4 DEF Agree
  <1> QED
    BY <1>1, RegistryInvInit, RegistryInvNext, PTL DEF Spec

\* Timestamps, deleted_at and last_sync never reach Stage 1.
THEOREM InnerIsKept == Spec => []InnerStaysInside
  <1>1. RegistryInv => InnerStaysInside
    BY DEF RegistryInv
  <1> QED
    BY <1>1, RegistryInvInit, RegistryInvNext, PTL DEF Spec

\* Every endpoint only ever gets entities of its own type.
THEOREM EndpointsAreRight == Spec => []EndpointsKeepTheirType
  <1>1. RegistryInv => EndpointsKeepTheirType
    BY DEF RegistryInv
  <1> QED
    BY <1>1, RegistryInvInit, RegistryInvNext, PTL DEF Spec

\* A deleted entity is off for good, here and in Stage 1: there only an item
\* that is undelivered, or was delivered last, may say otherwise.
THEOREM DeletedStaysOff == Spec => []DeletedIsOff
  <1>1. RegistryInv => DeletedIsOff
    <2> SUFFICES ASSUME RegistryInv, NEW i \in Ids, db[i] # Null, db[i].deleted
                 PROVE  /\ db[i].data["enabled"] = "no"
                        /\ ~Explained(i) => \A e \in Endpoints :
                              remote[e][i] # Null => remote[e][i]["enabled"] = "no"
      BY DEF DeletedIsOff
    <2>1. db[i].data["enabled"] = "no" /\ "enabled" \in DOMAIN db[i].data
      BY DEF RegistryInv, StoredFits, DocFits
    <2>2. PICK t \in Types : t = db[i].type
      BY DEF RegistryInv, StoredFits, DocFits, DocWith
    <2>3. ASSUME ~Explained(i), NEW e \in Endpoints, remote[e][i] # Null
          PROVE  remote[e][i]["enabled"] = "no"
      <3>1. e = EndpointOf(t)
        BY <2>2, <2>3, SwitchesAgree DEF RegistryInv, EndpointsKeepTheirType, EndpointOf
      <3>2. Agree(t, db[i].data, remote[e][i])
        BY <2>2, <2>3, <3>1 DEF RegistryInv, StoredIsDelivered
      <3> QED
        BY <2>1, <3>2, FieldsAgree DEF Agree
    <2> QED
      BY <2>1, <2>3
  <1> QED
    BY <1>1, RegistryInvInit, RegistryInvNext, PTL DEF Spec

\* The key of a stored document never changes.
THEOREM KeysNeverChange == Spec => KeysAreFinal
  <1>1. RegistryInv /\ [Next]_vars => RegistryInv' /\ [KeysKept]_vars
    BY RegistryInvNext
  <1> QED
    BY <1>1, RegistryInvInit, PTL DEF Spec, KeysAreFinal, KeysKept

=============================================================================
