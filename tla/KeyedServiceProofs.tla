------------------------- MODULE KeyedServiceProofs -------------------------
(***************************************************************************)
(* Theorems about KeyedService for any keys and any number of handlers,    *)
(* whichever documents the check of create sees.                           *)
(***************************************************************************)
EXTENDS KeyedService, EntityServiceProofs

\* The unique index: no two stored documents, deleted ones included, have one
\* key.  The check of create plays no part in it.
StoredKeysUnique ==
    \A i, j \in Ids : i # j /\ db[i] # Null /\ db[j] # Null => key[i] # key[j]

KeyedInv == EntityInv /\ KeyedTypeOK /\ StoredKeysUnique

\* A step after which no document is stored that was not, and the stored ones
\* have their keys still.
LEMMA NothingStored ==
    ASSUME StoredKeysUnique,
           \A i \in Ids : db'[i] # Null => db[i] # Null /\ key'[i] = key[i]
    PROVE  StoredKeysUnique'
  BY DEF StoredKeysUnique

\* A save, confirmed or not, that the index lets pass.
LEMMA KeyedSaveKeeps ==
    ASSUME KeyedInv, NEW h \in Handlers, KeyedSave(h)
    PROVE  KeyedInv'
  <1>1. PICK id \in Ids : id = handlers[h].id /\ At(h, "save")
    BY DEF KeyedSave, Save, SaveUnconfirmed, At, KeyedInv, EntityInv, HandlersFit, Fits
  <1>2. HandlerStep(h) /\ UNCHANGED key
    BY DEF KeyedSave, HandlerStep
  <1>3. EntityInv'
    BY <1>2, EntityInvNext DEF KeyedInv, Next
  <1>4. \A i \in Ids \ {id} : db'[i] = db[i]
    BY <1>1 DEF KeyedSave, Save, SaveUnconfirmed, KeyedInv, EntityInv, TypeOK
  <1>5. StoredKeysUnique'
    <2>1. CASE db[id] # Null
      BY <1>2, <1>4, <2>1 DEF KeyedInv, StoredKeysUnique
    <2>2. CASE db[id] = Null
      <3>1. \A j \in Ids \ {id} : db[j] # Null => key[j] # key[id]
        BY <1>1, <2>2 DEF KeyedSave, DuplicateKey
      <3> QED
        BY <1>2, <1>4, <3>1 DEF KeyedInv, StoredKeysUnique
    <2> QED
      BY <2>1, <2>2
  <1> QED
    BY <1>2, <1>3, <1>5 DEF KeyedInv, KeyedTypeOK, EntityInv

\* Whatever a handler does with a document that was found, or after its save.
LEMMA AsEntityKeeps ==
    ASSUME KeyedInv, NEW h \in Handlers, AsEntity(h)
    PROVE  KeyedInv'
  <1>1. HandlerStep(h) /\ UNCHANGED key
    BY DEF AsEntity, HandlerStep
  <1>2. EntityInv'
    BY <1>1, EntityInvNext DEF KeyedInv, Next
  <1>3. \A i \in Ids : db'[i] # Null => db[i] # Null
    <2>1. CASE SaveLastSync(h)
      <3>1. PICK id \in Ids : id = handlers[h].id /\ db[id] \in Doc
        BY <2>1 DEF SaveLastSync, At, KeyedInv, EntityInv, HandlersFit, Fits
      <3>2. \A i \in Ids \ {id} : db'[i] = db[i]
        BY <2>1, <3>1 DEF SaveLastSync, KeyedInv, EntityInv, TypeOK
      <3> QED
        BY <3>1, <3>2, NullIsNoRecord
    <2>2. CASE ~SaveLastSync(h)
      BY <2>2 DEF AsEntity, UseExisting, FindOne, Delete, Update, SaveFails,
                  Synchronise, Sync, SyncThrows, LambdaOk, LambdaFails, Enqueue,
                  EnqueueFails, EnqueueUnconfirmed, SaveLastSyncFails
    <2> QED
      BY <2>1, <2>2
  <1>4. StoredKeysUnique'
    BY <1>1, <1>3, NothingStored DEF KeyedInv
  <1> QED
    BY <1>1, <1>2, <1>4 DEF KeyedInv, KeyedTypeOK, EntityInv

\* create, up to the save: the key is that of a document not stored yet.
LEMMA CreateKeepsKeys ==
    ASSUME KeyedInv, NEW h \in Handlers, NEW k \in Keys,
           \/ CreateConflicts(h, k)
           \/ \E i \in Ids, name \in Names, enabled \in BOOLEAN :
                 CreateChecked(h, i, k, name, enabled)
    PROVE  KeyedInv'
  <1>1. CASE CreateConflicts(h, k)
    <2>1. EntityInv'
      BY <1>1, HandlerEnds DEF CreateConflicts, KeyedInv, Answers
    <2> QED
      BY <1>1, <2>1 DEF CreateConflicts, KeyedInv, KeyedTypeOK, EntityInv, StoredKeysUnique
  <1>2. ASSUME NEW i \in Ids, NEW name \in Names, NEW enabled \in BOOLEAN,
               CreateChecked(h, i, k, name, enabled)
        PROVE  KeyedInv'
    <2>1. EntityInv'
      BY <1>2, EntityInvNext DEF CreateChecked, KeyedInv, Next, HandlerStep
    <2>2. db[i] = Null /\ UNCHANGED db /\ key' = [key EXCEPT ![i] = k]
      BY <1>2 DEF CreateChecked, Create
    <2>3. key' \in [Ids -> Keys \cup {Null}]
      BY <2>2 DEF KeyedInv, KeyedTypeOK
    <2>4. StoredKeysUnique'
      BY <2>2, NothingStored DEF KeyedInv, KeyedTypeOK
    <2> QED
      BY <2>1, <2>3, <2>4 DEF KeyedInv, KeyedTypeOK, EntityInv
  <1> QED
    BY <1>1, <1>2

\* The loser of a race of two creates stores nothing.
LEMMA InsertRejectedKeeps ==
    ASSUME KeyedInv, NEW h \in Handlers, InsertRejected(h)
    PROVE  KeyedInv'
  <1>1. EntityInv'
    BY HandlerEnds DEF InsertRejected, KeyedInv, Answers
  <1>2. PICK id : id = handlers[h].id /\ db[id] = Null
    BY DEF InsertRejected, DuplicateKey
  <1>3. key' = [key EXCEPT ![id] = Null] /\ UNCHANGED db
    BY <1>2 DEF InsertRejected
  <1>4. key' \in [Ids -> Keys \cup {Null}]
    BY <1>3 DEF KeyedInv, KeyedTypeOK
  <1>5. StoredKeysUnique'
    BY <1>2, <1>3, NothingStored DEF KeyedInv, KeyedTypeOK
  <1> QED
    BY <1>1, <1>4, <1>5 DEF KeyedInv, KeyedTypeOK, EntityInv

LEMMA KeyedInvInit ==
    KeyedInit => KeyedInv
  <1> SUFFICES ASSUME KeyedInit PROVE KeyedInv
    OBVIOUS
  <1>1. EntityInv /\ TypeOK
    BY EntityInvInit DEF KeyedInit, EntityInv
  <1>2. \A i \in Ids : db[i] = Null /\ key[i] = Null
    BY DEF KeyedInit, Init
  <1> QED
    BY <1>1, <1>2 DEF KeyedInit, KeyedInv, KeyedTypeOK, StoredKeysUnique

LEMMA KeyedInvNext ==
    ASSUME KeyedInv, [KeyedNext]_keyedVars
    PROVE  KeyedInv'
  <1>1. CASE \/ Stage1Step /\ UNCHANGED <<serviceVars, key>>
             \/ Crash /\ UNCHANGED key
             \/ UNCHANGED keyedVars
    <2>1. EntityInv'
      BY <1>1, EntityInvNext DEF KeyedInv, Next, serviceVars, keyedVars
    <2>2. UNCHANGED <<db, key>>
      BY <1>1 DEF Crash, serviceVars, keyedVars, vars
    <2> QED
      BY <2>1, <2>2 DEF KeyedInv, KeyedTypeOK, EntityInv, StoredKeysUnique
  <1> QED
    BY <1>1, KeyedSaveKeeps, AsEntityKeeps, CreateKeepsKeys, InsertRejectedKeeps
       DEF KeyedNext

\* Every reachable state of a service with keys is well typed.
THEOREM KeyedServiceTypes == KeyedSpec => []KeyedTypeOK
  <1>1. KeyedInv => KeyedTypeOK
    BY DEF KeyedInv
  <1> QED
    BY <1>1, KeyedInvInit, KeyedInvNext, PTL DEF KeyedSpec

\* Stage 1 never learns of two entities with one key, however many creates
\* pass the check at the same time: it learns of stored documents only, and
\* the index lets one of them be stored.
THEOREM Stage1KeysAreUnique == KeyedSpec => []RemoteKeysUnique
  <1>1. KeyedInv => RemoteKeysUnique
    BY DEF KeyedInv, EntityInv, RemoteKnowsOnlyStored, StoredKeysUnique, RemoteKeysUnique
  <1> QED
    BY <1>1, KeyedInvInit, KeyedInvNext, PTL DEF KeyedSpec

-----------------------------------------------------------------------------
(* What EntityService promises, with keys. *)

\* A step of a service with keys is one of EntityService, or a create that
\* ends before it has stored anything.
CreateEnds(h) ==
    /\ handlers[h].pc \in {"idle", "save"}
    /\ \E answer \in {"conflict", "error"} :
          handlers' = [handlers EXCEPT ![h] = Ended(answer)]
    /\ UNCHANGED <<stage1Vars, db, outbox>>

LEMMA KeyedStepIsEntityStep ==
    ASSUME [KeyedNext]_keyedVars
    PROVE  [Next]_vars \/ \E h \in Handlers : CreateEnds(h)
  <1>1. ASSUME NEW h \in Handlers, NEW k \in Keys, CreateConflicts(h, k)
        PROVE  CreateEnds(h)
    BY <1>1 DEF CreateConflicts, CreateEnds, Idle
  <1>2. ASSUME NEW h \in Handlers, InsertRejected(h)
        PROVE  CreateEnds(h)
    BY <1>2 DEF InsertRejected, DuplicateKey, CreateEnds, At
  <1>3. ASSUME NEW h \in Handlers, NEW i \in Ids, NEW k \in Keys, NEW name \in Names,
               NEW enabled \in BOOLEAN, CreateChecked(h, i, k, name, enabled)
        PROVE  Next
    BY <1>3 DEF CreateChecked, HandlerStep, Next
  <1>4. ASSUME NEW h \in Handlers, KeyedSave(h) \/ AsEntity(h)
        PROVE  Next
    BY <1>4 DEF KeyedSave, AsEntity, HandlerStep, Next
  <1> QED
    BY <1>1, <1>2, <1>3, <1>4 DEF KeyedNext, Next, keyedVars

LEMMA KeyedNeverUndeletes ==
    ASSUME KeyedInv, DeleteInv, [KeyedNext]_keyedVars
    PROVE  DeleteInv' /\ StaysDeleted
  <1>1. EntityInv
    BY DEF KeyedInv
  <1>2. ASSUME NEW h \in Handlers, CreateEnds(h)
        PROVE  DeleteInv' /\ StaysDeleted
    BY <1>1, <1>2, EndNeverUndeletes DEF CreateEnds, Answers
  <1> QED
    BY <1>1, <1>2, DeleteInvNext, KeyedStepIsEntityStep

LEMMA KeyedAnswers ==
    ASSUME KeyedInv, NoAnswerYet, [KeyedNext]_keyedVars
    PROVE  NoAnswerYet' /\ [AnswersOk]_vars
  <1>1. TypeOK
    BY DEF KeyedInv, EntityInv
  <1>2. ASSUME NEW h \in Handlers, CreateEnds(h)
        PROVE  NoAnswerYet' /\ AnswersOk
    BY <1>1, <1>2, EndAnswers DEF CreateEnds, Answers
  <1> QED
    BY <1>1, <1>2, AnswersNext, KeyedStepIsEntityStep

\* What last_sync says of a domain or a branding is true, and Stage 1 knows
\* stored ones only, for any number of handlers and all faults.
THEOREM LastSyncIsTrueOfKeyed ==
    KeyedSpec => [](OkMeansApplied /\ FailureIsQueued /\ RemoteKnowsOnlyStored)
  <1>1. KeyedInv => OkMeansApplied /\ FailureIsQueued /\ RemoteKnowsOnlyStored
    BY DEF KeyedInv, EntityInv
  <1> QED
    BY <1>1, KeyedInvInit, KeyedInvNext, PTL DEF KeyedSpec

\* No update takes the soft delete of a domain or a branding back, so that its
\* key stays taken for ever.
THEOREM DeleteIsForEverOfKeyed == KeyedSpec => DeletedIsFinal
  <1>1. KeyedInit => DeleteInv
    BY DeleteInvInit DEF KeyedInit
  <1>2. KeyedInv /\ DeleteInv /\ [KeyedNext]_keyedVars => DeleteInv' /\ [StaysDeleted]_vars
    BY KeyedNeverUndeletes
  <1>3. DeletedIsFinal <=> [][StaysDeleted]_vars
    BY PTL DEF DeletedIsFinal, StaysDeleted
  <1> QED
    BY <1>1, <1>2, <1>3, KeyedInvInit, KeyedInvNext, PTL DEF KeyedSpec

\* Once a domain or a branding is stored nothing that happens to its
\* synchronisation turns the answer into an error; a create that loses the
\* race for a key fails before it has stored anything.
THEOREM SynchronisationIsSilentOfKeyed == KeyedSpec => SyncNeverFailsCrud
  <1>1. KeyedInit => NoAnswerYet
    <2>1. Ended("none").pc = "idle"
      BY DEF Ended
    <2> QED
      BY <2>1 DEF KeyedInit, Init, NoAnswerYet
  <1>2. KeyedInv /\ NoAnswerYet /\ [KeyedNext]_keyedVars => NoAnswerYet' /\ [AnswersOk]_vars
    BY KeyedAnswers
  <1>3. SyncNeverFailsCrud <=> [][AnswersOk]_vars
    BY PTL DEF SyncNeverFailsCrud, AnswersOk
  <1> QED
    BY <1>1, <1>2, <1>3, KeyedInvInit, KeyedInvNext, PTL DEF KeyedSpec

-----------------------------------------------------------------------------
(* When a duplicate create is answered 409. *)

\* A handler is about to insert.
Creates(h) == At(h, "save") /\ db[handlers[h].id] = Null

\* No two inserts of one key are under way.
NoRivals ==
    \A g, h \in Handlers :
        g # h /\ Creates(g) /\ Creates(h) => key[handlers[g].id] # key[handlers[h].id]

\* The check sees all that is stored: that of domains does, that of brandings
\* as long as none is deleted.
NoneHidden == CheckSeesDeleted \/ \A i \in Ids : db[i] # Null => ~db[i].deleted

\* No insert is one that the index would reject.
NoneRejected == \A h \in Handlers : ~DuplicateKey(h)

LEMMA LoadedAndEnded ==
    /\ \A answer : Ended(answer).pc = "idle"
    /\ \A h, i, doc, dirty : /\ Loaded(h, i, doc, dirty).pc = "save"
                             /\ Loaded(h, i, doc, dirty).id = i
  BY DEF Loaded, Ended

\* A step that stores no new document and starts no create.
LEMMA NothingInserted ==
    ASSUME NoneRejected,
           \A i \in Ids : db'[i] # Null => db[i] # Null /\ key'[i] = key[i],
           \A g \in Handlers :
              handlers'[g].pc = "save" /\ db'[handlers'[g].id] = Null
                => /\ Creates(g) /\ handlers'[g].id = handlers[g].id
                   /\ key'[handlers[g].id] = key[handlers[g].id]
    PROVE  NoneRejected'
  <1> SUFFICES ASSUME NEW g \in Handlers, DuplicateKey(g)'
               PROVE  FALSE
    BY DEF NoneRejected
  <1>1. PICK id : id = handlers'[g].id
    OBVIOUS
  <1>2. handlers'[g].pc = "save" /\ db'[id] = Null
    BY <1>1 DEF DuplicateKey, At
  <1>3. PICK j \in Ids \ {id} : db'[j] # Null /\ key'[j] = key'[id]
    BY <1>1 DEF DuplicateKey
  <1>4. Creates(g) /\ handlers[g].id = id /\ key'[id] = key[id]
    BY <1>1, <1>2
  <1>5. db[j] # Null /\ key[j] = key[id]
    BY <1>3, <1>4
  <1> QED
    BY <1>3, <1>4, <1>5 DEF Creates, DuplicateKey, NoneRejected

LEMMA CreateIsNotRejected ==
    ASSUME KeyedInv, NoneRejected, NoneHidden,
           NEW h \in Handlers, NEW i \in Ids, NEW k \in Keys, NEW name \in Names,
           NEW enabled \in BOOLEAN, CreateChecked(h, i, k, name, enabled)
    PROVE  NoneRejected'
  <1>1. /\ UNCHANGED db
        /\ db[i] = Null
        /\ \A g \in Handlers : handlers[g].id # i
    BY DEF CreateChecked, Create
  <1>2. key'[i] = k /\ \A j \in Ids \ {i} : key'[j] = key[j]
    BY DEF CreateChecked, KeyedInv, KeyedTypeOK
  <1>3. PICK l : handlers' = [handlers EXCEPT ![h] = l] /\ l.id = i
    <2>1. PICK doc : doc = [name |-> name, enabled |-> enabled, deleted |-> FALSE,
                            v |-> 0, last_sync |-> Null]
      OBVIOUS
    <2>2. PICK l : l = Loaded(h, i, doc, {"name", "enabled", "deleted"})
      OBVIOUS
    <2>3. handlers' = [handlers EXCEPT ![h] = l]
      BY <2>1, <2>2 DEF CreateChecked, Create
    <2>4. l.id = i
      BY <2>2, LoadedAndEnded
    <2> QED
      BY <2>3, <2>4
  <1>4. handlers'[h] = l /\ \A g \in Handlers \ {h} : handlers'[g] = handlers[g]
    BY <1>3 DEF KeyedInv, EntityInv, TypeOK
  <1>5. \A j \in Ids : db[j] # Null => key[j] # k
    BY DEF CreateChecked, Taken, SeenByCheck, NoneHidden
  <1> SUFFICES ASSUME NEW g \in Handlers, DuplicateKey(g)'
               PROVE  FALSE
    BY DEF NoneRejected
  <1>6. PICK id : id = handlers'[g].id
    OBVIOUS
  <1>7. PICK j \in Ids \ {id} : db'[j] # Null /\ key'[j] = key'[id]
    BY <1>6 DEF DuplicateKey
  <1>8. handlers'[g].pc = "save" /\ db[id] = Null
    BY <1>1, <1>6 DEF DuplicateKey, At
  <1>9. j # i /\ db[j] # Null /\ key'[j] = key[j]
    BY <1>1, <1>2, <1>7
  <1>10. CASE g = h
    BY <1>2, <1>3, <1>4, <1>5, <1>6, <1>7, <1>9, <1>10
  <1>11. CASE g # h
    <2>1. handlers[g].id = id /\ handlers[g].pc = "save"
      BY <1>4, <1>6, <1>8, <1>11
    <2>2. id \in Ids \ {i}
      BY <1>1, <2>1 DEF KeyedInv, EntityInv, HandlersFit, Fits
    <2>3. key[j] = key[id]
      BY <1>2, <1>7, <1>9, <2>2
    <2> QED
      BY <1>7, <1>8, <1>9, <2>1, <2>3 DEF NoneRejected, DuplicateKey, At
  <1> QED
    BY <1>10, <1>11

LEMMA SaveRejectsNone ==
    ASSUME KeyedInv, DeleteInv, NoneRejected, NoRivals,
           NEW h \in Handlers, KeyedSave(h)
    PROVE  NoneRejected'
  <1>1. PICK id \in Ids : id = handlers[h].id /\ At(h, "save")
    BY DEF KeyedSave, Save, SaveUnconfirmed, At, KeyedInv, EntityInv, HandlersFit, Fits
  <1>2. handlers[h].doc \in Doc /\ db[id] \in Doc \cup {Null}
    BY <1>1 DEF At, KeyedInv, EntityInv, HandlersFit, Fits, TypeOK
  <1>3. PICK increment \in {0, 1} : increment = IF SetsArray(h) THEN 1 ELSE 0
    OBVIOUS
  <1>4. PICK doc \in Doc : doc = Saved(db[id], handlers[h].doc, handlers[h].dirty, increment)
    BY <1>2, SavedType
  <1>5. db' = [db EXCEPT ![id] = doc] /\ UNCHANGED key
    BY <1>1, <1>3, <1>4 DEF KeyedSave, Save, SaveUnconfirmed
  <1>6. db'[id] # Null /\ \A i \in Ids \ {id} : db'[i] = db[i]
    BY <1>5, NullIsNoRecord DEF KeyedInv, EntityInv, TypeOK
  <1>7. handlers'[h].pc # "save" /\ \A g \in Handlers \ {h} : handlers'[g] = handlers[g]
    <2>1. handlers[h] \in Handler
      BY DEF KeyedInv, EntityInv, TypeOK
    <2>2. \A memory : [handlers[h] EXCEPT !.pc = "sync", !.dirty = {}, !.doc = memory].pc # "save"
      BY <2>1 DEF Handler
    <2>3. PICK l : handlers' = [handlers EXCEPT ![h] = l] /\ l.pc # "save"
      BY <2>2, LoadedAndEnded DEF KeyedSave, Save, SaveUnconfirmed
    <2> QED
      BY <2>3 DEF KeyedInv, EntityInv, TypeOK
  <1> SUFFICES ASSUME NEW g \in Handlers, DuplicateKey(g)'
               PROVE  FALSE
    BY DEF NoneRejected
  <1>8. PICK own : own = handlers'[g].id
    OBVIOUS
  <1>9. PICK j \in Ids \ {own} : db'[j] # Null /\ key'[j] = key'[own]
    BY <1>8 DEF DuplicateKey
  <1>10. g # h /\ handlers[g].id = own /\ handlers[g].pc = "save" /\ db'[own] = Null
    BY <1>7, <1>8 DEF DuplicateKey, At
  <1>11. own \in Ids \ {id}
    BY <1>6, <1>10 DEF KeyedInv, EntityInv, HandlersFit, Fits
  <1>12. Creates(g)
    BY <1>6, <1>10, <1>11 DEF Creates, At
  <1>13. j = id /\ db[id] = Null
    BY <1>5, <1>6, <1>9, <1>10, <1>12 DEF NoneRejected, DuplicateKey, Creates
  <1> QED
    BY <1>1, <1>5, <1>9, <1>10, <1>12, <1>13 DEF NoRivals, Creates

LEMMA AsEntityRejectsNone ==
    ASSUME KeyedInv, NoneRejected, NEW h \in Handlers, AsEntity(h)
    PROVE  NoneRejected'
  <1>1. UNCHANGED key
    BY DEF AsEntity
  <1>2. \A i \in Ids : db'[i] = Null <=> db[i] = Null
    <2>1. CASE SaveLastSync(h)
      <3>1. PICK id \in Ids : id = handlers[h].id /\ db[id] \in Doc
        BY <2>1 DEF SaveLastSync, At, KeyedInv, EntityInv, HandlersFit, Fits
      <3>2. PICK doc : doc = [db[id] EXCEPT !.last_sync =
                                [ok |-> handlers[h].ok, request_id |-> handlers[h].request_id]]
        OBVIOUS
      <3>3. handlers[h].request_id \in Rids /\ handlers[h].ok \in BOOLEAN
        BY <2>1 DEF SaveLastSync, At, KeyedInv, EntityInv, TypeOK, Handler, HandlersFit, Fits
      <3>4. doc \in Doc
        BY <3>1, <3>2, <3>3 DEF Doc, LastSync
      <3>5. db' = [db EXCEPT ![id] = doc]
        BY <2>1, <3>1, <3>2 DEF SaveLastSync
      <3> QED
        BY <3>1, <3>4, <3>5, NullIsNoRecord DEF KeyedInv, EntityInv, TypeOK
    <2>2. CASE ~SaveLastSync(h)
      BY <2>2 DEF AsEntity, UseExisting, FindOne, Delete, Update, SaveFails,
                  Synchronise, Sync, SyncThrows, LambdaOk, LambdaFails, Enqueue,
                  EnqueueFails, EnqueueUnconfirmed, SaveLastSyncFails
    <2> QED
      BY <2>1, <2>2
  <1>3. PICK l : /\ handlers' = [handlers EXCEPT ![h] = l]
                 /\ l.pc = "save" => l.id \in Ids /\ db[l.id] # Null
    <2>1. CASE Synchronise(h)
      <3>1. TypeOK
        BY DEF KeyedInv, EntityInv
      <3> QED
        BY <2>1, <3>1, SynchroniseMoves DEF Moved
    <2>2. CASE SaveFails(h)
      BY <2>2, LoadedAndEnded DEF SaveFails
    <2>3. CASE UseExisting(h)
      <3>1. ASSUME NEW i \in Ids, FindOne(h, i)
            PROVE  \E answer : handlers' = [handlers EXCEPT ![h] = Ended(answer)]
        BY <3>1 DEF FindOne
      <3>2. ASSUME NEW i \in Ids,
                   \/ Delete(h, i)
                   \/ \E name \in Names, enabled \in BOOLEAN : Update(h, i, name, enabled)
            PROVE  /\ db[i] # Null
                   /\ \E doc, dirty :
                         handlers' = [handlers EXCEPT ![h] = Loaded(h, i, doc, dirty)]
        BY <3>2 DEF Delete, Update, Visible
      <3> QED
        BY <2>3, <3>1, <3>2, LoadedAndEnded DEF UseExisting
    <2> QED
      BY <2>1, <2>2, <2>3 DEF AsEntity
  <1>4. handlers'[h] = l /\ \A g \in Handlers \ {h} : handlers'[g] = handlers[g]
    BY <1>3 DEF KeyedInv, EntityInv, TypeOK
  <1>5. ASSUME NEW g \in Handlers, handlers'[g].pc = "save", db'[handlers'[g].id] = Null
        PROVE  Creates(g) /\ handlers'[g] = handlers[g]
    <2>1. g # h
      BY <1>2, <1>3, <1>4, <1>5
    <2>2. handlers'[g] = handlers[g] /\ handlers[g].id \in Ids
      BY <1>4, <1>5, <2>1 DEF KeyedInv, EntityInv, HandlersFit, Fits
    <2> QED
      BY <1>2, <1>5, <2>2 DEF Creates, At
  <1> QED
    BY <1>1, <1>2, <1>5, NothingInserted

LEMMA NoneRejectedNext ==
    ASSUME KeyedInv, DeleteInv, NoneRejected, NoRivals, NoneHidden,
           [KeyedNext]_keyedVars
    PROVE  NoneRejected'
  <1>1. ASSUME NEW h \in Handlers, NEW k \in Keys, CreateConflicts(h, k)
        PROVE  NoneRejected'
    <2>1. /\ handlers'[h].pc = "idle"
          /\ \A g \in Handlers \ {h} : handlers'[g] = handlers[g]
          /\ UNCHANGED <<db, key>>
      BY <1>1 DEF CreateConflicts, Ended, KeyedInv, EntityInv, TypeOK
    <2> QED
      BY <2>1, NothingInserted DEF Creates, At
  <1>2. ASSUME NEW h \in Handlers, InsertRejected(h)
        PROVE  FALSE
    BY <1>2 DEF InsertRejected, NoneRejected
  <1>3. CASE Crash /\ UNCHANGED key
    <2>1. (\A h \in Handlers : handlers'[h].pc = "idle") /\ UNCHANGED db
      BY <1>3 DEF Crash, Ended
    <2> QED
      BY <1>3, <2>1, NothingInserted
  <1>4. CASE UNCHANGED <<db, handlers, key>>
    BY <1>4 DEF NoneRejected, DuplicateKey, At
  <1> QED
    BY <1>1, <1>2, <1>3, <1>4, CreateIsNotRejected, SaveRejectsNone, AsEntityRejectsNone
       DEF KeyedNext, keyedVars, vars, serviceVars

\* The 409 that docs/POSTMAN_CURLS_ORDERED.md:407-409 promises is what every
\* duplicate gets as long as no two inserts of one key overlap and the check
\* sees all that is stored: the index never has to reject an insert.  Without
\* overlap a domain always gets its 409, a branding until one was deleted.
THEOREM CheckSuffices ==
    KeyedSpec => ([](NoRivals /\ NoneHidden)
                    => []NoneRejected /\ DuplicateAnswersConflict)
  <1>1. KeyedInit => DeleteInv /\ NoneRejected
    <2>1. Ended("none").pc = "idle"
      BY DEF Ended
    <2> QED
      BY <2>1, DeleteInvInit DEF KeyedInit, Init, NoneRejected, DuplicateKey, At
  <1>2. /\ KeyedInv /\ DeleteInv /\ NoneRejected
        /\ NoRivals /\ NoneHidden
        /\ [KeyedNext]_keyedVars
        => DeleteInv' /\ NoneRejected'
    BY KeyedNeverUndeletes, NoneRejectedNext
  <1>3. NoneRejected =>
          \A h \in Handlers :
             DuplicateKey(h) /\ handlers'[h].pc = "idle"
               => handlers'[h].answer = "conflict"
    BY DEF NoneRejected
  <1> QED
    BY <1>1, <1>2, <1>3, KeyedInvInit, KeyedInvNext, PTL
       DEF KeyedSpec, DuplicateAnswersConflict

=============================================================================
