---------------------------- MODULE KeyedService ----------------------------
(***************************************************************************)
(* DomainsService and BrandingsService: services like those of             *)
(* EntityService whose documents also have a unique key that no update     *)
(* changes, the host of a domain and the tenant_id of a branding.  create  *)
(* first looks for a document with the key, and answers 409 if it finds    *)
(* one; the collection has a unique index on the key, deleted documents    *)
(* included, and rejects an insert with E11000, which nothing translates.  *)
(* DomainsService looks among all the documents, BrandingsService among    *)
(* those that are not deleted.                                             *)
(***************************************************************************)
EXTENDS EntityService

CONSTANTS
    Keys,             \* hosts, or tenant ids
    CheckSeesDeleted  \* TRUE for domains, FALSE for brandings

ASSUME KeyedServiceAssumption == CheckSeesDeleted \in BOOLEAN

VARIABLE
    key               \* id |-> key of the document, in memory or stored

keyedVars == <<vars, key>>

KeyedTypeOK == TypeOK /\ key \in [Ids -> Keys \cup {Null}]

KeyedInit == Init /\ key = [i \in Ids |-> Null]

-----------------------------------------------------------------------------

\* Mutant of SeenByCheck: a deleted document frees its key.
SeenIfVisible(i) == Visible(i)

SeenByCheck(i) == db[i] # Null /\ (CheckSeesDeleted \/ ~db[i].deleted)

Taken(k) == \E i \in Ids : SeenByCheck(i) /\ key[i] = k

\* create finds the key and throws ConflictException.
CreateConflicts(h, k) ==
    /\ Idle(h)
    /\ Taken(k)
    /\ handlers' = [handlers EXCEPT ![h] = Ended("conflict")]
    /\ UNCHANGED <<stage1Vars, db, outbox, key>>

\* create does not find the key and builds the document.
CreateChecked(h, i, k, name, enabled) ==
    /\ ~Taken(k)
    /\ Create(h, i, name, enabled)
    /\ key' = [key EXCEPT ![i] = k]

\* Mutant of DuplicateKey: the index is not unique.
DuplicatesAllowed(h) == FALSE

\* The document would be the second one under its key.
DuplicateKey(h) ==
    LET i == handlers[h].id
    IN  /\ At(h, "save")
        /\ db[i] = Null
        /\ \E j \in Ids \ {i} : db[j] # Null /\ key[j] = key[i]

KeyedSave(h) ==
    /\ ~DuplicateKey(h)
    /\ Save(h) \/ SaveUnconfirmed(h)
    /\ UNCHANGED key

\* E11000 leaves save() and the service: 500.
InsertRejected(h) ==
    /\ DuplicateKey(h)
    /\ handlers' = [handlers EXCEPT ![h] = Ended("error")]
    /\ key' = [key EXCEPT ![handlers[h].id] = Null]
    /\ UNCHANGED <<stage1Vars, db, outbox>>

\* update, delete, find and the synchronisation are those of EntityService.
AsEntity(h) ==
    /\ UseExisting(h) \/ SaveFails(h) \/ Synchronise(h)
    /\ UNCHANGED key

KeyedNext ==
    \/ \E h \in Handlers :
          \/ \E k \in Keys : CreateConflicts(h, k)
          \/ \E i \in Ids, k \in Keys, name \in Names, enabled \in BOOLEAN :
                CreateChecked(h, i, k, name, enabled)
          \/ KeyedSave(h) \/ InsertRejected(h)
          \/ AsEntity(h)
    \/ Stage1Step /\ UNCHANGED <<serviceVars, key>>
    \/ Crash /\ UNCHANGED key

KeyedSpec == KeyedInit /\ [][KeyedNext]_keyedVars

-----------------------------------------------------------------------------

\* Stage 1 is never told of two entities with one key, although two creates
\* may both pass the check: the loser of the race is rejected by the index
\* before anything is sent.
RemoteKeysUnique ==
    \A i, j \in Ids :
        i # j /\ remote[i] # Null /\ remote[j] # Null => key[i] # key[j]

\* docs/POSTMAN_CURLS_ORDERED.md:407-409 promises 409 for a create whose key
\* exists.  Two overlapping creates, or a branding that was soft-deleted, end
\* in a 500 instead.
DuplicateAnswersConflict ==
    [][\A h \in Handlers :
         DuplicateKey(h) /\ handlers'[h].pc = "idle"
           => handlers'[h].answer = "conflict"]_keyedVars

=============================================================================
